------------------------------- MODULE MCStartup -------------------------------
(* Two starts. Either the first has every command line of up to two arguments *)
(* and some of three, and the second is refused at once, or both read files   *)
(* and generate.                                                              *)
EXTENDS Startup

CONSTANTS s1, s2

MCNumber(t) == CASE t = "30" -> 30 [] t = "90" -> 90 [] OTHER -> NaN
MCHostOf(b) == IF b = "127.0.0.1:8080" THEN "127.0.0.1" ELSE "any"
MCPortOf(b) == IF b = "127.0.0.1:8080" THEN 8080 ELSE None
MCStripped(d) == IF d = "*.org" THEN "org" ELSE d
MCWithPort(d) == IF d = "org" THEN "{{port}}.org" ELSE d
MCNewPassword(s) == IF s = s1 THEN "new1" ELSE "new2"

MCTexts ==
    {"false", "30", "90", "*.org", "org", "{{port}}.org", "debug", "info", "warn", "none", "any",
     "password", "h1", "h2", "h3", "c1", "k1", "p1", "p2", "x1", "x2", "new1", "new2",
     "127.0.0.1:8080"}

Flag(k, t) == [flag |-> k, text |-> t]
Word(w) == [flag |-> None, text |-> w]
End == [flag |-> "--", text |-> None]

Common ==
    {Flag("verbose", None), Flag("cert", None), Flag("cert", "false"), Flag("port", None),
     Flag("proxy-domain", "*.org"), Word("90"), End}
Others ==
    {Flag("log", "debug"), Flag("auth", "none"), Flag("host", "h1"), Flag("bind-addr", "any"),
     Flag("cert", "c1"), Flag("cert-key", "k1"), Flag("idle-timeout-seconds", "30"),
     Flag("idle-timeout-seconds", None), Flag("password", "p1"), Flag("help", None),
     Flag("unknown", None), Flag("proxy-domain", "org"),
     Flag("proxy-domain", "{{port}}.org"), Flag("log", "90")}

Unset == [v \in Variables |-> None]
Environments ==
    {Unset,
     [Unset EXCEPT !.PASSWORD = "p2", !.PORT = "90", !.LOG_LEVEL = "info"],
     [Unset EXCEPT !.CODE_SERVER_HOST = "h2", !.HASHED_PASSWORD = "x2",
                   !.CODE_SERVER_IDLE_TIMEOUT_SECONDS = "90"],
     [Unset EXCEPT !.CODE_SERVER_IDLE_TIMEOUT_SECONDS = "30", !.PASSWORD = "p2"]}

Lines == UNION {[1..n -> Common \cup Others] : n \in 0..2} \cup [1..3 -> Common]
Plain == {<<>>, <<Flag("cert", None)>>}

Launch(a, b, e) == [argv |-> (s1 :> a @@ s2 :> b), env |-> (s1 :> e @@ s2 :> Unset)]
MCLaunches ==
    {Launch(a, <<Flag("unknown", None)>>, e) : a \in Lines, e \in Environments}
    \cup {Launch(a, b, e) : a \in Plain, b \in Plain, e \in Environments}

Line(k, t) == [key |-> k, texts |-> <<t>>]
MCFiles ==
    {<<Line("host", "h3"), Line("auth", "none"), Line("log", "warn"), Line("cert", None)>>,
     <<Line("bind-addr", "127.0.0.1:8080"), Line("port", "30"), Line("hashed-password", "x1"),
       Line("verbose", "false"), [key |-> "proxy-domain", texts |-> <<"org", "*.org">>]>>,
     <<Line("cert", "c1")>>}
=============================================================================
