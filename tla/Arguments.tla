------------------------------- MODULE Arguments -------------------------------
(***************************************************************************)
(* What the command line, the config file and the environment make of the  *)
(* arguments of a server (src/src/node/cli.ts). An argument is a record: a *)
(* flag with the text behind its "=", or a word, which has no flag. A      *)
(* short option is its long one. The options here stand for all, one or    *)
(* more for each way through parse and setDefaults.                        *)
(***************************************************************************)
EXTENDS Lists

CONSTANTS
    Texts,       \* the texts of arguments and variables
    None,        \* undefined
    NaN,
    Refusal,     \* an error was thrown
    Number(_), ParseInt(_),   \* what they make of a text, a number or NaN
    HostOf(_), PortOf(_),     \* the parts of an address, the port may be None
    Stripped(_), WithPort(_)  \* a domain without "*.", one with "{{port}}"

BooleanOptions == {"verbose", "disable-proxy", "help"}
NumberOptions == {"port", "idle-timeout-seconds"}
ChoiceOptions == {"auth", "log"}
StringOptions == {"host", "bind-addr", "cert-key", "password", "hashed-password"}
Options ==
    BooleanOptions \cup NumberOptions \cup ChoiceOptions \cup StringOptions
    \cup {"proxy-domain", "cert"}

Kind ==
    [k \in Options |->
        CASE k \in BooleanOptions -> "boolean" [] k \in NumberOptions -> "number"
          [] k = "proxy-domain" -> "list" [] k = "cert" -> "optional"
          [] k \in ChoiceOptions -> "choice" [] k \in StringOptions -> "string"]

\* "unknown" stands for any other option, and "--" ends them. A word has a text.
Argument ==
    {a \in [flag : Options \cup {"unknown", "--", None}, text : Texts \cup {None}] :
        a.flag = None => a.text # None}

\* An entry of the config file.
Entry == [key : Options \cup {"unknown"}, texts : Seq(Texts \cup {None})]

\* undefined is no text, number or host.
ASSUME ArgumentsAssumption ==
    /\ \A t \in Texts : t # None /\ ParseInt(t) # None /\ HostOf(t) # None
    /\ \A k \in Options \cup {"unknown", "--", "localhost"} : k # None
    /\ \A n \in {80, 8080} : n # None

ValidValues ==
    [auth |-> {"password", "none"}, log |-> {"trace", "debug", "info", "warn", "error"}]

Secrets == {"password", "hashed-password"}   \* and github-auth

\* Number compares with NaN as with no other.
AtMost60(n) == n # NaN /\ n <= 60

Get(args, k, default) == IF k \in DOMAIN args THEN args[k] ELSE default
Over(args, others) ==
    [a \in DOMAIN args \cup DOMAIN others |-> IF a \in DOMAIN args THEN args[a] ELSE others[a]]
With(args, k, x) == [a \in DOMAIN args \cup {k} |-> IF a = k THEN x ELSE args[a]]

-----------------------------------------------------------------------------
(* parse                                                                   *)

Ahead(argv, i) == IF i < Len(argv) /\ argv[i + 1].flag = None THEN argv[i + 1].text ELSE None
ValueAt(argv, i) == IF argv[i].text # None THEN argv[i].text ELSE Ahead(argv, i)

\* The errors of an option. The limit is checked before the value is taken
\* from the next argument.
Rejected(argv, i, fromFile) ==
    LET k == argv[i].flag   v == ValueAt(argv, i)
    IN  \/ k \notin Options
        \/ k \in Secrets /\ ~fromFile
        \/ k = "idle-timeout-seconds" /\ argv[i].text # None /\ AtMost60(Number(argv[i].text))
        \/ Kind[k] \notin {"boolean", "optional"} /\ v = None
        \/ Kind[k] = "number" /\ ParseInt(v) = NaN
        \/ k \in DOMAIN ValidValues /\ v \notin ValidValues[k]

\* An option is taken over: a boolean whatever its text, an optional string
\* unless it is "false", a list by one more.
Taken(argv, i, args) ==
    LET k == argv[i].flag   v == ValueAt(argv, i)
    IN  CASE Kind[k] = "boolean"  -> With(args, k, TRUE)
          [] Kind[k] = "optional" -> IF v = "false" THEN args ELSE With(args, k, v)
          [] Kind[k] = "number"   -> With(args, k, ParseInt(v))
          [] Kind[k] = "list"     -> With(args, k, Append(Get(args, k, <<>>), v))
          [] OTHER                -> With(args, k, v)

\* Mutant of Consumes: the next argument is not skipped.
ConsumesNot(argv, i) == FALSE

\* The next argument is the value.
Consumes(argv, i) ==
    Kind[argv[i].flag] # "boolean" /\ argv[i].text = None /\ Ahead(argv, i) # None

\* One turn of the loop.
ParseOne(p, argv, i, fromFile) ==
    IF p.refused THEN p
    ELSE IF p.skip THEN [p EXCEPT !.skip = FALSE]
    ELSE IF ~p.ended /\ argv[i].flag = "--" THEN [p EXCEPT !.ended = TRUE]
    ELSE IF p.ended \/ argv[i].flag = None
         THEN [p EXCEPT !.args = With(@, "words", Append(Get(@, "words", <<>>), argv[i]))]
    ELSE IF Rejected(argv, i, fromFile) THEN [p EXCEPT !.refused = TRUE]
    ELSE [p EXCEPT !.args = Taken(argv, i, @), !.skip = Consumes(argv, i)]

\* No arguments. The words are kept at "words", for "_".
NoArgs == [k \in {} |-> None]

Parse(argv, fromFile) ==
    LET turn[n \in 0..Len(argv)] ==
            IF n = 0 THEN [args |-> NoArgs, ended |-> FALSE, skip |-> FALSE, refused |-> FALSE]
            ELSE ParseOne(turn[n - 1], argv, n, fromFile)
        p == turn[Len(argv)]
        keyMissing == Get(p.args, "cert", None) # None /\ "cert-key" \notin DOMAIN p.args
    IN  IF p.refused \/ keyMissing THEN Refusal ELSE p.args

\* parseConfigFile: each entry of the document becomes a flag, each element of
\* a list one of its own, and true a flag without a text.
FlagsOf(doc) ==
    FlattenSeq([i \in DOMAIN doc |->
        [j \in DOMAIN doc[i].texts |-> [flag |-> doc[i].key, text |-> doc[i].texts[j]]]])

ParseConfigFile(doc) == Parse(FlagsOf(doc), TRUE)

\* defaultConfigFile
DefaultConfigFile(password) ==
    << [key |-> "bind-addr", texts |-> <<"127.0.0.1:8080">>],
       [key |-> "auth", texts |-> <<"password">>],
       [key |-> "password", texts |-> <<password>>],
       [key |-> "cert", texts |-> <<"false">>] >>

-----------------------------------------------------------------------------
(* setDefaults                                                             *)

Variables ==
    {"LOG_LEVEL", "PASSWORD", "HASHED_PASSWORD", "CODE_SERVER_HOST", "PORT",
     "CS_DISABLE_PROXY", "CODE_SERVER_IDLE_TIMEOUT_SECONDS"}

\* bindAddrFromArgs
BindAddrFromArgs(addr, args, env) ==
    LET bound == IF "bind-addr" \notin DOMAIN args THEN addr
                 ELSE LET b == args["bind-addr"]
                      IN  [host |-> HostOf(b), port |-> IF PortOf(b) = None THEN 80 ELSE PortOf(b)]
        host == IF env.CODE_SERVER_HOST # None THEN env.CODE_SERVER_HOST ELSE bound.host
        port == IF env.PORT # None THEN ParseInt(env.PORT) ELSE bound.port
    IN  [host |-> Get(args, "host", host), port |-> Get(args, "port", port)]

\* Mutant of BindAddrFromAllSources: the command line first.
BindAddrCliFirst(config, cli, env) ==
    BindAddrFromArgs(BindAddrFromArgs([host |-> "localhost", port |-> 8080], cli, env), config, env)

\* bindAddrFromAllSources
BindAddrFromAllSources(config, cli, env) ==
    BindAddrFromArgs(BindAddrFromArgs([host |-> "localhost", port |-> 8080], config, env), cli, env)

\* --verbose goes before --log, and that before the variable.
LogLevel(args, env) ==
    IF "verbose" \in DOMAIN args THEN "trace"
    ELSE IF "log" \in DOMAIN args THEN args.log
    ELSE IF env.LOG_LEVEL \in ValidValues.log THEN env.LOG_LEVEL ELSE None

\* Duplicates are dropped, then each domain gets its port.
ProxyDomains(args) ==
    LET given == Get(args, "proxy-domain", <<>>)
        distinct[n \in 0..Len(given)] ==
            IF n = 0 THEN <<>>
            ELSE IF Stripped(given[n]) \in ToSet(distinct[n - 1]) THEN distinct[n - 1]
                 ELSE Append(distinct[n - 1], Stripped(given[n]))
        domains == distinct[Len(given)]
    IN  [i \in DOMAIN domains |-> WithPort(domains[i])]

OrVariable(variable, args, k) == IF variable # None THEN variable ELSE Get(args, k, None)

\* The limit of the environment is checked at the end of setDefaults.
LimitRefused(env) ==
    LET limit == env.CODE_SERVER_IDLE_TIMEOUT_SECONDS
    IN  limit # None /\ AtMost60(Number(limit))

\* Arguments with their defaults. A certificate is None, or a file, or else
\* "generated".
SetDefaults(cli, config, env) ==
    LET args == Over(cli, config)
        addr == BindAddrFromAllSources(config, cli, env)
        limit == env.CODE_SERVER_IDLE_TIMEOUT_SECONDS
        log == LogLevel(args, env)
    IN  [auth |-> Get(args, "auth", "password"),
          help |-> "help" \in DOMAIN args,
          log |-> log, verbose |-> log = "trace",
          host |-> addr.host, port |-> addr.port,
          cert |-> IF "cert" \notin DOMAIN args THEN None
                   ELSE IF args.cert = None THEN "generated" ELSE args.cert,
          password |-> OrVariable(env.PASSWORD, args, "password"),
          hashedPassword |-> OrVariable(env.HASHED_PASSWORD, args, "hashed-password"),
          usingEnvPassword |-> env.PASSWORD # None /\ env.HASHED_PASSWORD = None,
          disableProxy |-> env.CS_DISABLE_PROXY \in {"1", "true"} \/ "disable-proxy" \in DOMAIN args,
          idleTimeoutSeconds |-> IF limit # None THEN Number(limit)
                                 ELSE Get(args, "idle-timeout-seconds", None),
          proxyDomain |-> ProxyDomains(args),
          words |-> Get(args, "words", <<>>)]

-----------------------------------------------------------------------------
(* What a reader of the help and of the FAQ expects, without the loop.     *)

FirstGiven(candidates) ==
    candidates[CHOOSE i \in DOMAIN candidates :
                  candidates[i] # None /\ \A j \in 1..(i - 1) : candidates[j] = None]

\* Options end at "--"; a word behind an option that lacks its text belongs to it.
EndedAt(argv, i) == \E j \in 1..(i - 1) : argv[j].flag = "--"
Occurs(argv, k) == {i \in DOMAIN argv : argv[i].flag = k /\ ~EndedAt(argv, i)}
IsWord(argv, i) ==
    \/ EndedAt(argv, i)
    \/ /\ argv[i].flag = None
       /\ i > 1 => \/ argv[i - 1].flag \in {None, "--"} \/ argv[i - 1].text # None
                   \/ Kind[argv[i - 1].flag] = "boolean"

Picked(argv, S) == Selected([i \in DOMAIN argv |-> i], S)

\* The last occurrence of an option counts, or all of a list, and what is left
\* are the words, in their order.
IsParseOf(argv, parsed) ==
    /\ \A k \in Options :
          LET counts == {i \in Occurs(argv, k) : Kind[k] = "optional" => ValueAt(argv, i) # "false"}
              last == CHOOSE i \in counts : \A j \in counts : j <= i
              all == Picked(argv, counts)
          IN  /\ k \in DOMAIN parsed <=> counts # {}
              /\ k \in DOMAIN parsed =>
                    parsed[k] = CASE Kind[k] = "boolean" -> TRUE
                                  [] Kind[k] = "number" -> ParseInt(ValueAt(argv, last))
                                  [] Kind[k] = "list" -> [n \in DOMAIN all |-> ValueAt(argv, all[n])]
                                  [] OTHER -> ValueAt(argv, last)
    /\ LET words == Picked(argv, {i \in DOMAIN argv : IsWord(argv, i)})
       IN  Get(parsed, "words", <<>>) = [n \in DOMAIN words |-> argv[words[n]]]
    /\ DOMAIN parsed \cap Secrets = {}

\* Which of the sources an argument comes from.
IsRanked(cli, config, env, args) ==
    LET Flag(k) == Get(cli, k, None)
        Line(k) == Get(config, k, None)
        Host(b) == IF b = None THEN None ELSE HostOf(b)
        Port(b) == IF b = None THEN None ELSE IF PortOf(b) = None THEN 80 ELSE PortOf(b)
        port == IF env.PORT = None THEN None ELSE ParseInt(env.PORT)
        given == ToSet(Get(cli, "proxy-domain", Get(config, "proxy-domain", <<>>)))
        domains == {Stripped(d) : d \in given}
        limit == env.CODE_SERVER_IDLE_TIMEOUT_SECONDS
        level == IF env.LOG_LEVEL \in ValidValues.log THEN env.LOG_LEVEL ELSE None
    IN  /\ args.host = FirstGiven(<<Flag("host"), env.CODE_SERVER_HOST, Host(Flag("bind-addr")),
                                    Line("host"), Host(Line("bind-addr")), "localhost">>)
        /\ args.port = FirstGiven(<<Flag("port"), port, Port(Flag("bind-addr")),
                                    Line("port"), Port(Line("bind-addr")), 8080>>)
        /\ args.log = IF "verbose" \in DOMAIN cli \cup DOMAIN config THEN "trace"
                      ELSE IF Flag("log") # None \/ Line("log") # None
                           THEN FirstGiven(<<Flag("log"), Line("log")>>) ELSE level
        /\ args.auth = FirstGiven(<<Flag("auth"), Line("auth"), "password">>)
        /\ args.password = IF env.PASSWORD # None THEN env.PASSWORD ELSE Line("password")
        /\ args.hashedPassword =
              IF env.HASHED_PASSWORD # None THEN env.HASHED_PASSWORD ELSE Line("hashed-password")
        /\ args.idleTimeoutSeconds =
              IF limit # None THEN Number(limit)
              ELSE IF Flag("idle-timeout-seconds") # None THEN Flag("idle-timeout-seconds")
              ELSE Line("idle-timeout-seconds")
        /\ ToSet(args.proxyDomain) = {WithPort(d) : d \in domains}
        /\ Len(args.proxyDomain) = Cardinality(domains)
=============================================================================
