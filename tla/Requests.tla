------------------------------- MODULE Requests -------------------------------
(***************************************************************************)
(* What becomes of a request: the order of the middleware that register    *)
(* sets up (src/src/node/routes/index.ts), the checks of http.ts, and the  *)
(* session of a browser that logs in, logs out and meets a server that was *)
(* started again with other arguments.                                     *)
(*                                                                         *)
(* A host, and the domain of a cookie, is the sequence of its labels. One  *)
(* path stands for each group that the routes tell apart: /proxy for       *)
(* /absproxy too, / for /vscode. What is behind a route (the editor, the   *)
(* port, the files) is external, and so is the limiter of the logins.      *)
(***************************************************************************)
EXTENDS Naturals, Sequences

CONSTANTS
    Hosts,          \* names under which the server is reached
    Addresses,      \* those that are no domain: addresses, localhost
    Domains,        \* --proxy-domain, without a leading "*."
    PortLabel,      \* for each label with {{port}}, the labels it matches
    Trusted,        \* --trusted-origins
    Passwords,
    Args,           \* the arguments that starts of the server are given
    None

Method == {"PLAIN_TEXT", "SHA256", "ARGON2"}

ASSUME NamesAssumption ==
    /\ Addresses \subseteq Hosts /\ Hosts \subseteq Seq(STRING) \ {<<>>}
    /\ Domains \in Seq(Seq(STRING) \ {<<>>}) /\ Trusted \subseteq Seq(STRING) \ {<<>>}
    /\ None \notin Hosts
    /\ "{{port}}" \in DOMAIN PortLabel
    /\ \A host \in Addresses : \A j \in DOMAIN host : host[j] \notin DOMAIN PortLabel
ASSUME ArgsAssumption ==
    Args \subseteq [auth : {"password", "none"}, method : Method, password : Passwords,
                    disableProxy : BOOLEAN, skipAuthPreflight : BOOLEAN, cert : BOOLEAN]

VARIABLES
    args,       \* the arguments of the server that runs
    jar,        \* the session cookies of the browser, the oldest first
    entered     \* history: passwords that were entered and accepted

vars == <<args, jar, entered>>

-----------------------------------------------------------------------------
(* Names.                                                                  *)

EndsWith(host, domain) ==
    /\ Len(domain) <= Len(host)
    /\ SubSeq(host, Len(host) - Len(domain) + 1, Len(host)) = domain

\* setDefaults puts {{port}} in front of a domain that lacks it.
ProxyDomain ==
    [i \in DOMAIN Domains |->
        IF \E j \in DOMAIN Domains[i] : Domains[i][j] \in DOMAIN PortLabel
        THEN Domains[i] ELSE <<"{{port}}">> \o Domains[i]]

\* proxyDomainToRegex: {{port}} matches digits and {{host}}, at the end, any name.
MatchesLabel(t, label) ==
    t = label \/ (t \in DOMAIN PortLabel /\ label \in PortLabel[t])
Matches(t, host) ==
    LET open == t[Len(t)] = "{{host}}"
        fixed == IF open THEN Len(t) - 1 ELSE Len(t)
    IN  /\ IF open THEN Len(host) > fixed ELSE Len(host) = fixed
        /\ \A j \in 1..fixed : MatchesLabel(t[j], host[j])

\* maybeProxy finds a port.
Proxied(host) == \E i \in DOMAIN ProxyDomain : Matches(ProxyDomain[i], host)

\* getCookieDomain: the domains, as setDefaults left them, one after the other.
\* An address gets no Domain attribute; its cookie is sent to it alone.
CookieDomain(host) ==
    LET shorter[i \in 0..Len(ProxyDomain)] ==
            IF i = 0 THEN host
            ELSE IF EndsWith(shorter[i - 1], ProxyDomain[i])
                    /\ Len(ProxyDomain[i]) < Len(shorter[i - 1])
                 THEN ProxyDomain[i] ELSE shorter[i - 1]
    IN  IF host \in Addresses THEN host ELSE shorter[Len(ProxyDomain)]

\* isTrustedOrigin and authenticateOrigin.
OriginOK(u) ==
    \/ u.origin \in {None, u.host}
    \/ \E t \in Trusted : \/ t \in {<<"*">>, u.origin}
                          \/ t[1] = "*" /\ EndsWith(u.origin, Tail(t))

-----------------------------------------------------------------------------
(* The session.                                                            *)

(***************************************************************************)
(* What a cookie holds: without a hashed password, a fresh hash of the     *)
(* password that was entered; with one, that hash itself.                  *)
(***************************************************************************)
Value == [hash : {"fresh", "SHA256", "ARGON2"}, password : Passwords]
Cookie == [domain : {CookieDomain(host) : host \in Hosts}, value : Value]

TypeOK ==
    /\ args \in Args
    /\ jar \in Seq(Cookie)
    /\ entered \subseteq Passwords

\* handlePasswordValidation: what is set as the cookie.
HashedPassword ==
    [hash |-> IF args.method = "PLAIN_TEXT" THEN "fresh" ELSE args.method,
     password |-> args.password]

\* Mutant of IsCookieValid: the form of the cookie is all that counts.
IsCookieValidForm(v) ==
    IF args.method = "PLAIN_TEXT" THEN v.hash \in {"fresh", "ARGON2"} ELSE v.hash = args.method

\* isCookieValid: an Argon2 hash of the password, or the configured hash.
IsCookieValid(v) ==
    /\ v.password = args.password
    /\ IF args.method = "PLAIN_TEXT" THEN v.hash \in {"fresh", "ARGON2"} ELSE v.hash = args.method

\* The browser sends a cookie to its domain and, unless that is an address,
\* to the names below it; the server takes the first, which is the oldest.
Reaches(domain, host) ==
    IF domain \in Addresses THEN host = domain ELSE EndsWith(host, domain)
Sent(host) == {i \in DOMAIN jar : Reaches(jar[i].domain, host)}

\* authenticated
Authenticated(host) ==
    \/ args.auth = "none"
    \/ \E i \in Sent(host) : (\A j \in Sent(host) : i <= j) /\ IsCookieValid(jar[i].value)

-----------------------------------------------------------------------------
(* The middleware, one layer after the other; each answers or calls next.  *)

PortPaths == {"/proxy/1", "/proxy/1/x", "/proxy/x"}
Paths == {"/", "/login", "/x/login", "/logout", "/healthz", "/update/check", "/mint-key",
          "/manifest.json", "/_static/x", "/robots.txt", "/x"} \cup PortPaths

HttpRequest == [method : {"GET", "POST", "OPTIONS"}, host : Hosts, path : Paths,
                html : BOOLEAN, encrypted : BOOLEAN]
Upgrade == [method : {"GET", "POST"}, host : Hosts, path : Paths, origin : Hosts \cup {None}]

Redirect(r) == IF args.cert /\ ~r.encrypted THEN "https" ELSE "next"

RobotsOrSecurity(r) == IF r.path = "/robots.txt" /\ r.method = "GET" THEN "file" ELSE "next"

SkipsAuth(r) == r.method = "OPTIONS" /\ args.skipAuthPreflight

\* Mutant of DomainProxy: a preflight is proxied, with or without the flag.
DomainProxyPreflight(r) ==
    IF ~Proxied(r.host) THEN "next"
    ELSE IF args.disableProxy THEN "403"
    ELSE IF Authenticated(r.host) \/ r.method = "OPTIONS" THEN "proxied"
    ELSE IF r.path = "/_static/x" /\ r.method = "GET" THEN "next"
    ELSE IF ~r.html THEN "401"
    ELSE IF r.path \in {"/login", "/x/login"} THEN "next" ELSE "login"

\* Mutant of DomainProxy: a preflight is let through, but not the assets.
DomainProxyAssets(r) ==
    IF ~Proxied(r.host) \/ SkipsAuth(r) THEN "next"
    ELSE IF args.disableProxy THEN "403"
    ELSE IF Authenticated(r.host) THEN "proxied"
    ELSE IF ~r.html THEN "401"
    ELSE IF r.path \in {"/login", "/x/login"} THEN "next" ELSE "login"

\* domainProxy.ts: a host with a port is proxied, but for what the login needs
\* and a preflight that needs no authentication.
DomainProxy(r) ==
    IF ~Proxied(r.host) THEN "next"
    ELSE IF args.disableProxy THEN "403"
    ELSE IF SkipsAuth(r) THEN "next"
    ELSE IF Authenticated(r.host) THEN "proxied"
    ELSE IF r.path = "/_static/x" /\ r.method = "GET" THEN "next"
    ELSE IF ~r.html THEN "401"
    ELSE IF r.path \in {"/login", "/x/login"} THEN "next" ELSE "login"

\* pathProxy.ts; /proxy/x has no number for its port.
PathProxy(r) ==
    IF r.path \notin PortPaths THEN "next"
    ELSE IF args.disableProxy THEN "403"
    ELSE IF ~SkipsAuth(r) /\ ~Authenticated(r.host)
         THEN IF r.path = "/proxy/1/x" THEN "401" ELSE "login"
    ELSE IF r.path = "/proxy/x" THEN "400" ELSE "proxied"

Static(r) ==
    IF r.path # "/_static/x" THEN "next" ELSE IF r.method = "GET" THEN "file" ELSE "405"

\* A router whose routes do not take OPTIONS answers it with those they take.
Health(r) ==
    IF r.path # "/healthz" \/ r.method = "POST" THEN "next"
    ELSE IF r.method = "GET" THEN "health" ELSE "options"

\* login.ts and logout.ts, or the redirects that stand for them without auth.
Login(r) ==
    IF r.path # "/login" THEN "next"
    ELSE IF Authenticated(r.host) THEN "home"
    ELSE IF r.method = "GET" THEN "page" ELSE IF r.method = "POST" THEN "try" ELSE "options"
Logout(r) ==
    IF r.path # "/logout" THEN "next"
    ELSE IF args.auth = "none" THEN "home"
    ELSE IF r.method = "GET" THEN "loggedOut" ELSE IF r.method = "POST" THEN "next" ELSE "options"

UpdateCheck(r) ==
    IF r.path # "/update/check" \/ r.method = "POST" THEN "next"
    ELSE IF r.method = "OPTIONS" THEN "options"
    ELSE IF Authenticated(r.host) THEN "update" ELSE "401"

\* routes/vscode.ts takes whatever is left, so "Not Found" is never reached.
Editor(r) ==
    IF r.path = "/manifest.json" /\ r.method = "GET" THEN "file"
    ELSE IF ~Authenticated(r.host)
         THEN IF r.path = "/" /\ r.method = "GET" THEN "login" ELSE "401"
    ELSE IF r.path = "/mint-key" /\ r.method = "POST" THEN "key" ELSE "editor"

Or(answer, layer) == IF answer = "next" THEN layer ELSE answer

\* register: the answer, a status if it is an error, of a plain request,
Http(r) ==
    Or(Redirect(r), Or(RobotsOrSecurity(r), Or(DomainProxy(r), Or(PathProxy(r),
    Or(Static(r), Or(Health(r), Or(Login(r), Or(Logout(r), Or(UpdateCheck(r), Editor(r))))))))))

\* ensureOrigin, ensureAuthenticated
Checked(u, answer) ==
    IF ~OriginOK(u) THEN "403" ELSE IF ~Authenticated(u.host) THEN "401" ELSE answer

\* and of an upgrade: wsRouter.ts takes GET only.
Ws(u) ==
    IF u.method # "GET" THEN "404"
    ELSE IF Proxied(u.host) \/ u.path \in PortPaths
         THEN IF args.disableProxy THEN "403"
              ELSE Checked(u, IF ~Proxied(u.host) /\ u.path = "/proxy/x" THEN "400" ELSE "proxied")
    ELSE IF u.path = "/healthz" THEN "health"
    ELSE Checked(u, "editor")

-----------------------------------------------------------------------------
(* A browser, and the server's starts.                                     *)

Init ==
    /\ args \in Args
    /\ jar = <<>>
    /\ entered = {}

\* A page of the server at its host, as a browser asks for it.
Page(method, host, path) ==
    [method |-> method, host |-> host, path |-> path, html |-> TRUE, encrypted |-> TRUE]

Has(domain) == {i \in DOMAIN jar : jar[i].domain = domain}

\* Mutant of LogIn: the cookie is set for the host as it is called.
LogInPerHost(host) ==
    /\ Http(Page("POST", host, "/login")) = "try"
    /\ entered' = entered \cup {args.password}
    /\ LET cookie == [domain |-> Tail(host), value |-> HashedPassword]
       IN  IF Has(Tail(host)) = {} THEN jar' = Append(jar, cookie)
           ELSE \E i \in Has(Tail(host)) : jar' = [jar EXCEPT ![i] = cookie]
    /\ UNCHANGED args

(***************************************************************************)
(* The right password is entered and the limiter lets it be tried; without *)
(* either, the page says so and nothing changes. A cookie of the same      *)
(* domain is replaced where it is, as the browser keeps its age.           *)
(***************************************************************************)
LogIn(host) ==
    /\ Http(Page("POST", host, "/login")) = "try"
    /\ entered' = entered \cup {args.password}
    /\ LET cookie == [domain |-> CookieDomain(host), value |-> HashedPassword]
       IN  IF Has(cookie.domain) = {} THEN jar' = Append(jar, cookie)
           ELSE \E i \in Has(cookie.domain) : jar' = [jar EXCEPT ![i] = cookie]
    /\ UNCHANGED args

\* The cookie is cleared with the options it is set with.
LogOut(host) ==
    /\ Http(Page("GET", host, "/logout")) = "loggedOut"
    /\ \E i \in Has(CookieDomain(host)) :
          jar' = SubSeq(jar, 1, i - 1) \o SubSeq(jar, i + 1, Len(jar))
    /\ UNCHANGED <<args, entered>>

\* Session cookies end with the browser.
CloseBrowser ==
    /\ jar # <<>>
    /\ jar' = <<>>
    /\ UNCHANGED <<args, entered>>

\* The server is started again.
Restart ==
    /\ args' \in Args
    /\ UNCHANGED <<jar, entered>>

Next == (\E host \in Hosts : LogIn(host) \/ LogOut(host)) \/ CloseBrowser \/ Restart

Spec == Init /\ [][Next]_vars

-----------------------------------------------------------------------------

\* Nothing behind a check is reached around it: the editor, its key, the update
\* check and the ports are for who is logged in, a plain request only over TLS
\* if there is a certificate; a web socket also needs an origin that is trusted.
\* The exception is a preflight to a port when the flag says so, and a proxy
\* that is disabled serves nobody (routes/index.ts:88-180).
Guarded == {"proxied", "update", "key", "editor"}
GuardedRoutes ==
    /\ \A r \in HttpRequest : Http(r) \in Guarded =>
          /\ \/ Authenticated(r.host)
             \/ Http(r) = "proxied" /\ SkipsAuth(r)
          /\ Http(r) = "proxied" => ~args.disableProxy
          /\ args.cert => r.encrypted
    /\ \A u \in Upgrade : Ws(u) \in Guarded =>
          /\ Authenticated(u.host) /\ OriginOK(u)
          /\ Ws(u) = "proxied" => ~args.disableProxy

\* Who is not logged in is led to a login that works, on every host that the
\* server answers at all, also one that is proxied: the first page leads to the
\* login page, whose page, assets and form get through ("Let the login
\* through", domainProxy.ts:70-91).
LoginReachable ==
    \A host \in Hosts :
        ~Authenticated(host) /\ ~(Proxied(host) /\ args.disableProxy) =>
            /\ Http(Page("GET", host, "/")) = "login"
            /\ Http(Page("GET", host, "/login")) = "page"
            /\ \A html \in BOOLEAN :
                  Http([Page("GET", host, "/_static/x") EXCEPT !.html = html]) = "file"
            /\ Http(Page("POST", host, "/login")) = "try"

\* A browser that is let in has sent a password that is the one of today: no
\* cookie of an earlier password or method counts for another password, however
\* often the server was started with other arguments (util.ts:272-291).
OnlyThePasswordOpens ==
    \A host \in Hosts :
        args.auth = "password" /\ Authenticated(host) => args.password \in entered

\* Who logs in is logged in, and who logs out is logged out, at that host: the
\* cookie that is set is sent back, and the one that is cleared is the same
\* (login.ts:96, logout.ts:9). It takes a browser without a cookie of another
\* domain for this host, which would come first if it is older.
Alone(host) == \A i \in Sent(host) : jar[i].domain = CookieDomain(host)
SessionAsAsked ==
    [][\A host \in Hosts : Alone(host) =>
          /\ LogIn(host) => Authenticated(host)'
          /\ LogOut(host) => ~Authenticated(host)']_vars

\* "This will allow the user to authenticate once no matter what sub-domain they
\* use to log in" (http.ts:202-204): after a login at one of the names under a
\* proxy domain, the browser is let in at all of them.
OneLoginForAll ==
    [][\A host, other \in Hosts :
          LogIn(host) /\ jar = <<>>
          /\ (\E i \in DOMAIN Domains : EndsWith(host, Domains[i]) /\ EndsWith(other, Domains[i]))
          => Authenticated(other)']_vars
=============================================================================
