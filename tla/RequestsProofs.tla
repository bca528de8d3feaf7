---------------------------- MODULE RequestsProofs ----------------------------
(* Proofs of the invariants of Requests, for any hosts, domains, passwords  *)
(* and arguments.                                                           *)
EXTENDS Requests, FiniteSetTheorems, WellFoundedInduction, SequenceTheorems, TLAPS

-----------------------------------------------------------------------------
(* Type correctness.                                                        *)

\* What a login sets is a cookie.
LEMMA CookieType ==
    ASSUME args \in Args, NEW host \in Hosts
    PROVE  [domain |-> CookieDomain(host), value |-> HashedPassword] \in Cookie
<1>1. HashedPassword \in Value
    BY ArgsAssumption DEF HashedPassword, Value, Method
<1> QED BY <1>1 DEF Cookie

\* A cookie is put in place of the one of its domain, or behind the others.
LEMMA LogInJar ==
    ASSUME NEW host \in Hosts, LogIn(host)
    PROVE  LET cookie == [domain |-> CookieDomain(host), value |-> HashedPassword]
           IN  \/ jar' = Append(jar, cookie)
               \/ \E i \in DOMAIN jar : jar' = [jar EXCEPT ![i] = cookie]
BY DEF LogIn, Has

\* A cookie is taken out.
LEMMA LogOutJar ==
    ASSUME NEW host \in Hosts, LogOut(host)
    PROVE  \E i \in DOMAIN jar :
              jar' = SubSeq(jar, 1, i - 1) \o SubSeq(jar, i + 1, Len(jar))
BY DEF LogOut, Has

\* A sequence without one of its elements has the others, in their order.
LEMMA Without ==
    ASSUME NEW S, NEW s \in Seq(S), NEW i \in DOMAIN s
    PROVE  LET t == SubSeq(s, 1, i - 1) \o SubSeq(s, i + 1, Len(s))
           IN  /\ t \in Seq(S)
               /\ DOMAIN t = 1..(Len(s) - 1)
               /\ \A j \in DOMAIN t : t[j] = s[IF j < i THEN j ELSE j + 1]
<1> DEFINE a == SubSeq(s, 1, i - 1)
           b == SubSeq(s, i + 1, Len(s))
<1>1. i \in 1..Len(s) /\ Len(s) \in Nat
    OBVIOUS
<1>2. a \in Seq(S) /\ Len(a) = i - 1 /\ \A j \in 1..Len(a) : a[j] = s[j]
    BY <1>1
<1>3. b \in Seq(S) /\ Len(b) = Len(s) - i /\ \A j \in 1..Len(b) : b[j] = s[i + j]
    BY <1>1
<1> HIDE DEF a, b
<1>4. /\ a \o b \in Seq(S) /\ DOMAIN (a \o b) = 1..(Len(a) + Len(b))
      /\ \A j \in 1..(Len(a) + Len(b)) :
            (a \o b)[j] = IF j <= Len(a) THEN a[j] ELSE b[j - Len(a)]
    <2>1. a \in Seq(S) /\ b \in Seq(S)
        BY <1>2, <1>3
    <2>2. /\ a \o b \in Seq(S) /\ Len(a \o b) = Len(a) + Len(b)
          /\ \A j \in 1..(Len(a) + Len(b)) :
                (a \o b)[j] = IF j <= Len(a) THEN a[j] ELSE b[j - Len(a)]
        BY <2>1, ConcatProperties, Zenon
    <2>3. DOMAIN (a \o b) = 1..Len(a \o b)
        BY <2>2
    <2> QED BY <2>2, <2>3
<1>5. DOMAIN (a \o b) = 1..(Len(s) - 1)
    BY <1>1, <1>2, <1>3, <1>4
<1>6. ASSUME NEW j \in DOMAIN (a \o b) PROVE (a \o b)[j] = s[IF j < i THEN j ELSE j + 1]
    <2>0. j \in 1..(Len(a) + Len(b)) /\ Len(a) \in Nat /\ Len(b) \in Nat
        BY <1>1, <1>2, <1>3, <1>4, <1>6
    <2>1. CASE j <= Len(a)
        <3>1. j \in 1..Len(a) /\ j < i
            BY <1>1, <1>2, <2>0, <2>1
        <3>2. (a \o b)[j] = a[j] /\ a[j] = s[j]
            BY <1>2, <1>4, <2>0, <2>1, <3>1
        <3> QED BY <3>1, <3>2
    <2>2. CASE j > Len(a)
        <3>0. j - Len(a) \in 1..Len(b) /\ ~(j <= Len(a))
            BY <2>0, <2>2
        <3>1. j - Len(a) \in 1..Len(b) /\ ~(j <= Len(a)) /\ ~(j < i) /\ i + (j - Len(a)) = j + 1
            BY <1>1, <1>2, <2>0, <2>2, <3>0
        <3>2. (a \o b)[j] = b[j - Len(a)]
            BY <1>4, <2>0, <3>1, Zenon
        <3> QED BY <1>3, <3>1, <3>2
    <2> QED BY <2>0, <2>1, <2>2
<1> QED BY <1>4, <1>5, <1>6 DEF a, b

\* Every step keeps the types.
LEMMA TypeStep == TypeOK /\ [Next]_vars => TypeOK'
<1> SUFFICES ASSUME TypeOK, [Next]_vars PROVE TypeOK'
    OBVIOUS
<1>1. ASSUME NEW host \in Hosts, LogIn(host) PROVE TypeOK'
    <2>1. UNCHANGED args /\ entered' = entered \cup {args.password}
        BY <1>1 DEF LogIn
    <2>2. args.password \in Passwords
        BY ArgsAssumption DEF TypeOK
    <2>3. jar' \in Seq(Cookie)
        <3> DEFINE cookie == [domain |-> CookieDomain(host), value |-> HashedPassword]
        <3>1. cookie \in Cookie /\ jar \in Seq(Cookie)
            BY CookieType DEF TypeOK
        <3>2. \/ jar' = Append(jar, cookie)
              \/ \E i \in DOMAIN jar : jar' = [jar EXCEPT ![i] = cookie]
            BY <1>1, LogInJar
        <3> HIDE DEF cookie
        <3>3. CASE jar' = Append(jar, cookie)
            BY <3>1, <3>3
        <3>4. CASE \E i \in DOMAIN jar : jar' = [jar EXCEPT ![i] = cookie]
            BY <3>1, <3>4
        <3> QED BY <3>2, <3>3, <3>4
    <2> QED BY <2>1, <2>2, <2>3 DEF TypeOK
<1>2. ASSUME NEW host \in Hosts, LogOut(host) PROVE TypeOK'
    <2>1. UNCHANGED <<args, entered>>
        BY <1>2 DEF LogOut
    <2>2. jar' \in Seq(Cookie)
        <3>1. PICK i \in DOMAIN jar :
                 jar' = SubSeq(jar, 1, i - 1) \o SubSeq(jar, i + 1, Len(jar))
            BY <1>2, LogOutJar
        <3> QED BY <3>1, Without DEF TypeOK
    <2> QED BY <2>1, <2>2 DEF TypeOK
<1>3. CASE CloseBrowser
    <2>1. <<>> \in Seq(Cookie)
        OBVIOUS
    <2> QED BY <1>3, <2>1 DEF CloseBrowser, TypeOK
<1>4. CASE Restart \/ UNCHANGED vars
    BY <1>4 DEF Restart, vars, TypeOK
<1> QED BY <1>1, <1>2, <1>3, <1>4 DEF Next

\* The arguments and the cookies keep their types.
THEOREM TypeCorrect == Spec => []TypeOK
<1>1. Init => TypeOK
    BY DEF Init, TypeOK
<1> QED BY <1>1, TypeStep, PTL DEF Spec

-----------------------------------------------------------------------------
(* The middleware. These hold in every state, whoever is authenticated.     *)

\* No layer answers a plain request with something guarded unless it checked.
LEMMA HttpGuarded ==
    ASSUME args \in Args, NEW r \in HttpRequest, Http(r) \in Guarded
    PROVE  /\ Authenticated(r.host) \/ (Http(r) = "proxied" /\ SkipsAuth(r))
           /\ Http(r) = "proxied" => ~args.disableProxy
           /\ args.cert => r.encrypted
BY ArgsAssumption DEF Guarded, Http, Or, Redirect, RobotsOrSecurity, DomainProxy, PathProxy,
   Static, Health, Login, Logout, UpdateCheck, Editor, HttpRequest

\* Nor an upgrade.
LEMMA WsGuarded ==
    ASSUME NEW u \in Upgrade, Ws(u) \in Guarded
    PROVE  /\ Authenticated(u.host) /\ OriginOK(u)
           /\ Ws(u) = "proxied" => ~args.disableProxy
BY DEF Guarded, Ws, Checked

\* Nothing behind a check is reached around it.
THEOREM GuardedRoutesTheorem == Spec => []GuardedRoutes
<1>1. TypeOK => GuardedRoutes
    BY HttpGuarded, WsGuarded DEF TypeOK, GuardedRoutes
<1> QED BY <1>1, TypeCorrect, PTL

\* Who is not logged in is led to a login that works.
THEOREM LoginReachableTheorem == Spec => []LoginReachable
<1>1. LoginReachable
    <2> SUFFICES ASSUME NEW host \in Hosts, ~Authenticated(host),
                        ~(Proxied(host) /\ args.disableProxy)
                 PROVE  /\ Http(Page("GET", host, "/")) = "login"
                        /\ Http(Page("GET", host, "/login")) = "page"
                        /\ \A html \in BOOLEAN :
                              Http([Page("GET", host, "/_static/x") EXCEPT !.html = html])
                                 = "file"
                        /\ Http(Page("POST", host, "/login")) = "try"
        BY DEF LoginReachable
    <2> USE DEF Http, Or, Redirect, RobotsOrSecurity, DomainProxy, PathProxy, PortPaths,
                Static, Health, Login, Logout, UpdateCheck, Editor, SkipsAuth, Page
    <2>1. Http(Page("GET", host, "/")) = "login"
        OBVIOUS
    <2>2. Http(Page("GET", host, "/login")) = "page"
        OBVIOUS
    <2>3. ASSUME NEW html \in BOOLEAN
          PROVE  Http([Page("GET", host, "/_static/x") EXCEPT !.html = html]) = "file"
        OBVIOUS
    <2>4. Http(Page("POST", host, "/login")) = "try"
        OBVIOUS
    <2> QED BY <2>1, <2>2, <2>3, <2>4
<1> QED BY <1>1, PTL

-----------------------------------------------------------------------------
(* The session: every cookie of the browser holds a password that was       *)
(* entered and accepted.                                                    *)

CookiesEarned == \A i \in DOMAIN jar : jar[i].value.password \in entered

\* Every step keeps CookiesEarned.
LEMMA NextEarned == TypeOK /\ CookiesEarned /\ [Next]_vars => CookiesEarned'
<1> SUFFICES ASSUME TypeOK, CookiesEarned, [Next]_vars PROVE CookiesEarned'
    OBVIOUS
<1>1. ASSUME NEW host \in Hosts, LogIn(host) PROVE CookiesEarned'
    <2> DEFINE cookie == [domain |-> CookieDomain(host), value |-> HashedPassword]
    <2>1. entered' = entered \cup {args.password} /\ cookie.value.password = args.password
        BY <1>1 DEF LogIn, HashedPassword
    <2>2. \/ jar' = Append(jar, cookie)
          \/ \E i \in DOMAIN jar : jar' = [jar EXCEPT ![i] = cookie]
        BY <1>1, LogInJar
    <2> HIDE DEF cookie
    <2>3. CASE jar' = Append(jar, cookie)
        BY <2>1, <2>3 DEF TypeOK, CookiesEarned
    <2>4. CASE \E i \in DOMAIN jar : jar' = [jar EXCEPT ![i] = cookie]
        BY <2>1, <2>4 DEF TypeOK, CookiesEarned
    <2> QED BY <2>2, <2>3, <2>4
<1>2. ASSUME NEW host \in Hosts, LogOut(host) PROVE CookiesEarned'
    <2>1. entered' = entered
        BY <1>2 DEF LogOut
    <2>2. \A j \in DOMAIN jar' : \E k \in DOMAIN jar : jar'[j] = jar[k]
        <3>1. PICK i \in DOMAIN jar :
                 jar' = SubSeq(jar, 1, i - 1) \o SubSeq(jar, i + 1, Len(jar))
            BY <1>2, LogOutJar
        <3>2. jar \in Seq(Cookie) /\ i \in 1..Len(jar) /\ Len(jar) \in Nat
            BY <3>1 DEF TypeOK
        <3>3. \A j \in DOMAIN jar' : /\ j \in 1..(Len(jar) - 1)
                                     /\ jar'[j] = jar[IF j < i THEN j ELSE j + 1]
            BY <3>1, <3>2, Without
        <3>4. \A j \in 1..(Len(jar) - 1) : (IF j < i THEN j ELSE j + 1) \in DOMAIN jar
            BY <3>2
        <3> QED BY <3>3, <3>4
    <2> QED BY <2>1, <2>2 DEF CookiesEarned
<1>3. CASE CloseBrowser \/ Restart \/ UNCHANGED vars
    BY <1>3 DEF CloseBrowser, Restart, vars, CookiesEarned
<1> QED BY <1>1, <1>2, <1>3 DEF Next

\* A browser that is let in has sent the password of today.
THEOREM OnlyThePasswordOpensTheorem == Spec => []OnlyThePasswordOpens
<1>1. Init => CookiesEarned
    BY DEF Init, CookiesEarned
<1>2. CookiesEarned => OnlyThePasswordOpens
    BY DEF CookiesEarned, OnlyThePasswordOpens, Authenticated, Sent, IsCookieValid
<1> QED BY <1>1, <1>2, NextEarned, TypeCorrect, PTL DEF Spec

-----------------------------------------------------------------------------
(* The domain of a cookie. What holds of the loop of getCookieDomain is     *)
(* proved by induction over its turns, which rests on the least element of  *)
(* a set of numbers.                                                        *)

\* A set of numbers that is not empty has a least one.
LEMMA LeastNatural ==
    ASSUME NEW T \in SUBSET Nat, T # {}
    PROVE  \E x \in T : \A y \in T : x <= y
<1> DEFINE I == {1 .. n : n \in T}
           R == StrictSubsetOrdering(Nat)
<1>1. I \subseteq FiniteSubsetsOf(Nat) /\ I # {}
  <2>1. \A n \in T : IsFiniteSet(1 .. n) /\ 1 .. n \subseteq Nat
    BY FS_Interval
  <2> QED BY <2>1 DEF FiniteSubsetsOf
<1>2. \E x \in I : \A y \in I : ~ (<<y, x>> \in R)
  <2>1. IsWellFoundedOn(R, FiniteSubsetsOf(Nat))
    BY FS_StrictSubsetOrderingWellFounded
  <2> HIDE DEF I, R
  <2> QED BY <1>1, <2>1, WFMin
<1>3. PICK m \in T : \A y \in I : ~ (<<y, 1 .. m>> \in R)
  BY <1>2
<1>4. ASSUME NEW k \in T, k < m PROVE FALSE
  <2>1. <<1 .. k, 1 .. m>> \in R
    <3>1. m \in 1 .. m /\ m \notin 1 .. k /\ 1 .. k \subseteq 1 .. m
      BY <1>4
    <3>2. 1 .. k \in FiniteSubsetsOf(Nat) /\ 1 .. m \in FiniteSubsetsOf(Nat)
      BY <1>1
    <3> QED BY <3>1, <3>2 DEF StrictSubsetOrdering, FiniteSubsetsOf
  <2> QED BY <2>1, <1>3
<1> QED BY <1>4

\* Induction up to N, of membership in a set.
LEMMA UpTo ==
    ASSUME NEW N \in Nat, NEW G, 0 \in G, \A n \in 1..N : n - 1 \in G => n \in G
    PROVE  0..N \subseteq G
<1> DEFINE B == (0..N) \ G
<1>1. SUFFICES ASSUME NEW m \in B, \A k \in B : m <= k PROVE FALSE
  <2>1. B \subseteq Nat
    OBVIOUS
  <2> HIDE DEF B
  <2>2. B = {}
    BY <1>1, <2>1, LeastNatural
  <2> QED BY <2>2 DEF B
<1>2. m \in 1..N /\ m - 1 \in 0..N
  BY <1>1
<1> QED BY <1>1, <1>2

\* What it is to end with a domain, label by label.
LEMMA EndsWithLabels ==
    ASSUME NEW S, NEW host \in Seq(S), NEW domain \in Seq(S)
    PROVE  EndsWith(host, domain)
           <=> /\ Len(domain) <= Len(host)
               /\ \A j \in 1..Len(domain) : domain[j] = host[Len(host) - Len(domain) + j]
<1>1. Len(host) \in Nat /\ Len(domain) \in Nat
    OBVIOUS
<1>2. CASE Len(domain) <= Len(host)
    <2> DEFINE end == SubSeq(host, Len(host) - Len(domain) + 1, Len(host))
    <2>1. /\ end \in Seq(S) /\ Len(end) = Len(domain)
          /\ \A j \in 1..Len(domain) : end[j] = host[Len(host) - Len(domain) + j]
        BY <1>1, <1>2
    <2>2. EndsWith(host, domain) <=> end = domain
        BY <1>2 DEF EndsWith
    <2> HIDE DEF end
    <2>3. end = domain <=> \A j \in 1..Len(domain) : end[j] = domain[j]
        BY <2>1, SeqEqual
    <2> QED BY <1>2, <2>1, <2>2, <2>3
<1>3. CASE ~(Len(domain) <= Len(host))
    BY <1>3 DEF EndsWith
<1> QED BY <1>2, <1>3

\* Who ends with a name ends with what that ends with.
LEMMA EndsWithShorter ==
    ASSUME NEW S, NEW host \in Seq(S), NEW longer \in Seq(S), NEW domain \in Seq(S),
           EndsWith(host, longer), EndsWith(longer, domain)
    PROVE  EndsWith(host, domain)
<1>1. Len(host) \in Nat /\ Len(longer) \in Nat /\ Len(domain) \in Nat
    OBVIOUS
<1>2. /\ Len(longer) <= Len(host)
      /\ \A j \in 1..Len(longer) : longer[j] = host[Len(host) - Len(longer) + j]
      /\ Len(domain) <= Len(longer)
      /\ \A j \in 1..Len(domain) : domain[j] = longer[Len(longer) - Len(domain) + j]
    BY EndsWithLabels
<1>3. ASSUME NEW j \in 1..Len(domain) PROVE domain[j] = host[Len(host) - Len(domain) + j]
    <2> DEFINE k == Len(longer) - Len(domain) + j
    <2>1. k \in 1..Len(longer) /\ Len(host) - Len(longer) + k = Len(host) - Len(domain) + j
        BY <1>1, <1>2
    <2> HIDE DEF k
    <2>2. longer[k] = host[Len(host) - Len(longer) + k]
        BY <1>2, <2>1
    <2> QED BY <1>2, <2>1, <2>2 DEF k
<1> QED BY <1>1, <1>2, <1>3, EndsWithLabels

Labels == STRING \cup {"{{port}}"}

\* A name of strings is one of labels.
LEMMA NamesOfLabels == \A name \in Seq(STRING) : name \in Seq(Labels)
<1>1. PICK port : port = "{{port}}"
    BY Zenon
<1>2. Labels = STRING \cup {port}
    BY <1>1, Zenon DEF Labels
<1> QED BY <1>2

\* A proxy domain holds a template, so it is no address.
LEMMA ProxyDomainIs ==
    ASSUME NEW i \in DOMAIN ProxyDomain
    PROVE  /\ ProxyDomain[i] \in Seq(Labels) /\ ProxyDomain[i] \notin Addresses
           /\ \E j \in DOMAIN ProxyDomain[i] : ProxyDomain[i][j] \in DOMAIN PortLabel
<1>0. Domains \in Seq(Seq(STRING) \ {<<>>}) /\ DOMAIN ProxyDomain = DOMAIN Domains
    BY NamesAssumption, Zenon DEF ProxyDomain
<1>1. i \in DOMAIN Domains /\ Domains[i] \in Seq(STRING)
    BY <1>0
<1>2. CASE \E j \in DOMAIN Domains[i] : Domains[i][j] \in DOMAIN PortLabel
    <2>1. ProxyDomain[i] = Domains[i]
        BY <1>1, <1>2 DEF ProxyDomain
    <2>2. \A address \in Addresses : \A j \in DOMAIN address : address[j] \notin DOMAIN PortLabel
        BY NamesAssumption, Zenon
    <2> QED BY <1>1, <1>2, <2>1, <2>2, NamesOfLabels
<1>3. CASE ~\E j \in DOMAIN Domains[i] : Domains[i][j] \in DOMAIN PortLabel
    <2>1. ProxyDomain[i] = <<"{{port}}">> \o Domains[i]
        BY <1>1, <1>3 DEF ProxyDomain
    <2>2. PICK port : port = "{{port}}"
        BY Zenon
    <2>3. ProxyDomain[i] = <<port>> \o Domains[i] /\ port \in DOMAIN PortLabel
        BY <2>1, <2>2, NamesAssumption, Zenon
    <2>4. port \in Labels
        BY <2>2, Zenon DEF Labels
    <2>5. PICK one : one = <<port>>
        OBVIOUS
    <2>6. one \in Seq(Labels) /\ Len(one) = 1 /\ one[1] = port
        BY <2>4, <2>5
    <2>7. Domains[i] \in Seq(Labels) /\ ProxyDomain[i] = one \o Domains[i]
        BY <1>1, <2>3, <2>5, NamesOfLabels
    <2>8. /\ ProxyDomain[i] \in Seq(Labels) /\ 1 \in DOMAIN ProxyDomain[i]
          /\ ProxyDomain[i][1] = port
        BY <2>6, <2>7, ConcatProperties
    <2>9. \A address \in Addresses : \A j \in DOMAIN address : address[j] \notin DOMAIN PortLabel
        BY NamesAssumption, Zenon
    <2> QED BY <2>3, <2>8, <2>9
<1> QED BY <1>2, <1>3

\* The loop of getCookieDomain, turn by turn.
ShorterLoop(f, host) ==
    /\ f[0] = host
    /\ \A i \in 1..Len(ProxyDomain) :
          f[i] = IF EndsWith(f[i - 1], ProxyDomain[i]) /\ Len(ProxyDomain[i]) < Len(f[i - 1])
                 THEN ProxyDomain[i] ELSE f[i - 1]

\* There are as many proxy domains as were given.
LEMMA ProxyDomainList ==
    /\ Len(ProxyDomain) \in Nat /\ DOMAIN ProxyDomain = 1..Len(ProxyDomain)
    /\ \A host \in Hosts : host \in Seq(Labels)
<1>1. Domains \in Seq(Seq(STRING) \ {<<>>}) /\ \A name \in Hosts : name \in Seq(STRING)
    BY NamesAssumption, Zenon
<1>2. ProxyDomain = [i \in DOMAIN Domains |-> ProxyDomain[i]]
    BY Zenon DEF ProxyDomain
<1>3. DOMAIN Domains = 1..Len(Domains) /\ Len(Domains) \in Nat
    BY <1>1
<1> QED BY <1>1, <1>2, <1>3, NamesOfLabels

\* The domain of a cookie is what the loop comes to, but for an address.
LEMMA CookieDomainLoop ==
    ASSUME NEW host \in Hosts \ Addresses
    PROVE  \E f : ShorterLoop(f, host) /\ CookieDomain(host) = f[Len(ProxyDomain)]
<1> DEFINE N == Len(ProxyDomain)
           Loop(f, k) == f = [i \in 0..k |->
                IF i = 0 THEN host
                ELSE IF EndsWith(f[i - 1], ProxyDomain[i])
                        /\ Len(ProxyDomain[i]) < Len(f[i - 1])
                     THEN ProxyDomain[i] ELSE f[i - 1]]
           turn(w, i) == IF EndsWith(w, ProxyDomain[i]) /\ Len(ProxyDomain[i]) < Len(w)
                         THEN ProxyDomain[i] ELSE w
           G == {k \in 0..N : \E f : Loop(f, k)}
<1>0. N \in Nat
    BY ProxyDomainList
<1>1. 0 \in G
    <2>1. Loop([i \in 0..0 |-> host], 0)
        OBVIOUS
    <2> HIDE DEF Loop
    <2> QED BY <1>0, <2>1
<1>2. ASSUME NEW m \in 1..N, m - 1 \in G PROVE m \in G
    <2>1. PICK g : Loop(g, m - 1)
        BY <1>2
    <2> DEFINE h == [i \in 0..m |-> IF i = m THEN turn(g[m - 1], m) ELSE g[i]]
    <2>2. ASSUME NEW i \in 0..m
          PROVE  h[i] = IF i = 0 THEN host
                        ELSE IF EndsWith(h[i - 1], ProxyDomain[i])
                                /\ Len(ProxyDomain[i]) < Len(h[i - 1])
                             THEN ProxyDomain[i] ELSE h[i - 1]
        <3>1. CASE i = m
            <4>1. h[i - 1] = g[m - 1] /\ h[i] = turn(g[m - 1], m) /\ i # 0
                BY <1>0, <3>1
            <4> QED BY <3>1, <4>1
        <3>2. CASE i # m
            <4>1. h[i] = g[i] /\ i \in 0..(m - 1) /\ (i # 0 => h[i - 1] = g[i - 1])
                BY <1>0, <3>2
            <4>2. g[i] = IF i = 0 THEN host
                         ELSE IF EndsWith(g[i - 1], ProxyDomain[i])
                                 /\ Len(ProxyDomain[i]) < Len(g[i - 1])
                              THEN ProxyDomain[i] ELSE g[i - 1]
                BY <2>1, <4>1, Zenon
            <4> QED BY <4>1, <4>2
        <3> QED BY <3>1, <3>2
    <2>3. Loop(h, m)
        <3> HIDE DEF turn
        <3> QED BY <2>2, Zenon
    <2> HIDE DEF h, Loop
    <2> QED BY <1>0, <2>3
<1>3. \E f : Loop(f, N)
    <2> HIDE DEF G
    <2>1. 0..N \subseteq G
        BY <1>0, <1>1, <1>2, UpTo
    <2>2. N \in G
        BY <1>0, <2>1
    <2> QED BY <2>2, Zenon DEF G
<1> DEFINE f0 == CHOOSE f : Loop(f, N)
<1>4. Loop(f0, N)
    <2> HIDE DEF Loop
    <2> QED BY <1>3
<1>5. CookieDomain(host) = f0[N]
    BY DEF CookieDomain
<1> HIDE DEF f0
<1>6. ASSUME NEW i \in 1..N PROVE f0[i] = turn(f0[i - 1], i)
    <2>1. i \in 0..N /\ i # 0
        BY <1>0
    <2> QED BY <1>4, <2>1, Zenon
<1>7. f0[0] = host
    BY <1>0, <1>4
<1>8. ShorterLoop(f0, host)
    BY <1>6, <1>7 DEF ShorterLoop
<1> HIDE DEF Loop
<1> QED BY <1>5, <1>8

\* The cookie of a login is sent back to the host it was set for.
LEMMA CookieComesBack ==
    ASSUME NEW host \in Hosts
    PROVE  Reaches(CookieDomain(host), host)
<1> DEFINE N == Len(ProxyDomain)
<1>0. N \in Nat /\ DOMAIN ProxyDomain = 1..N /\ host \in Seq(Labels)
    BY ProxyDomainList
<1>1. CASE host \in Addresses
    BY <1>1 DEF CookieDomain, Reaches
<1>2. CASE host \notin Addresses
    <2>1. PICK f : ShorterLoop(f, host) /\ CookieDomain(host) = f[N]
        BY <1>2, CookieDomainLoop
    <2> DEFINE Is(d) == d \in Seq(Labels) /\ d \notin Addresses /\ EndsWith(host, d)
               H == {i \in 0..N : Is(f[i])}
    <2>2. 0 \in H
        <3>1. EndsWith(host, host)
            BY <1>0, EndsWithLabels
        <3> QED BY <1>0, <1>2, <2>1, <3>1 DEF ShorterLoop
    <2>3. ASSUME NEW i \in 1..N, i - 1 \in H PROVE i \in H
        <3>1. PICK w : w = f[i - 1]
            OBVIOUS
        <3>2. Is(w) /\ i \in 0..N /\ i \in DOMAIN ProxyDomain
            BY <1>0, <2>3, <3>1
        <3>3. f[i] = IF EndsWith(w, ProxyDomain[i]) /\ Len(ProxyDomain[i]) < Len(w)
                     THEN ProxyDomain[i] ELSE w
            BY <2>1, <3>1 DEF ShorterLoop
        <3>4. CASE EndsWith(w, ProxyDomain[i]) /\ Len(ProxyDomain[i]) < Len(w)
            <4>1. f[i] = ProxyDomain[i]
                BY <3>3, <3>4
            <4>2. Is(ProxyDomain[i])
                BY <1>0, <3>2, <3>4, ProxyDomainIs, EndsWithShorter
            <4> QED BY <3>2, <4>1, <4>2
        <3>5. CASE ~(EndsWith(w, ProxyDomain[i]) /\ Len(ProxyDomain[i]) < Len(w))
            <4>1. f[i] = w
                BY <3>3, <3>5
            <4> QED BY <3>2, <4>1
        <3> QED BY <3>4, <3>5
    <2>4. Is(f[N])
        <3> HIDE DEF H
        <3>1. 0..N \subseteq H
            BY <1>0, <2>2, <2>3, UpTo
        <3>2. N \in H
            BY <1>0, <3>1
        <3> QED BY <3>2 DEF H
    <2> QED BY <2>1, <2>4 DEF Reaches
<1> QED BY <1>1, <1>2

\* The cookie of a login is for the host it is set at and no other name under
\* a proxy domain: setDefaults has put {{port}} into each domain by then, and no
\* host ends with that. requests_login shows what becomes of "once no matter
\* what sub-domain" (http.ts:202-204); this is so for all hosts and domains.
THEOREM CookieStaysAtHost ==
    \A host \in Hosts :
        (\A j \in DOMAIN host : host[j] \notin DOMAIN PortLabel) => CookieDomain(host) = host
<1> SUFFICES ASSUME NEW host \in Hosts, \A j \in DOMAIN host : host[j] \notin DOMAIN PortLabel
             PROVE  CookieDomain(host) = host
    OBVIOUS
<1> DEFINE N == Len(ProxyDomain)
<1>0. N \in Nat /\ DOMAIN ProxyDomain = 1..N /\ host \in Seq(Labels)
    BY ProxyDomainList
<1>1. CASE host \in Addresses
    BY <1>1 DEF CookieDomain
<1>2. CASE host \notin Addresses
    <2>1. PICK f : ShorterLoop(f, host) /\ CookieDomain(host) = f[N]
        BY <1>2, CookieDomainLoop
    <2> DEFINE H == {i \in 0..N : f[i] = host}
    <2>2. 0 \in H
        BY <1>0, <2>1 DEF ShorterLoop
    <2>3. ASSUME NEW i \in 1..N, i - 1 \in H PROVE i \in H
        <3>1. i \in DOMAIN ProxyDomain /\ i \in 0..N /\ f[i - 1] = host
            BY <1>0, <2>3
        <3>2. PICK t : t = ProxyDomain[i]
            OBVIOUS
        <3>3. t \in Seq(Labels) /\ \E j \in DOMAIN t : t[j] \in DOMAIN PortLabel
            BY <3>1, <3>2, ProxyDomainIs
        <3>4. ~EndsWith(host, t)
            <4>1. SUFFICES ASSUME EndsWith(host, t) PROVE FALSE
                OBVIOUS
            <4>2. PICK j \in 1..Len(t) : t[j] \in DOMAIN PortLabel
                BY <3>3
            <4>3. /\ Len(t) <= Len(host)
                  /\ t[j] = host[Len(host) - Len(t) + j]
                BY <1>0, <3>3, <4>1, EndsWithLabels
            <4>4. Len(host) - Len(t) + j \in DOMAIN host
                BY <1>0, <3>3, <4>3
            <4> QED BY <4>2, <4>3, <4>4
        <3>5. f[i] = IF EndsWith(host, t) /\ Len(t) < Len(host) THEN t ELSE host
            BY <2>1, <3>1, <3>2 DEF ShorterLoop
        <3> QED BY <3>1, <3>4, <3>5
    <2>4. N \in H
        <3> HIDE DEF H
        <3>1. 0..N \subseteq H
            BY <1>0, <2>2, <2>3, UpTo
        <3> QED BY <1>0, <3>1
    <2> QED BY <2>1, <2>4
<1> QED BY <1>1, <1>2

-----------------------------------------------------------------------------
(* What is asked of the session. A browser has one cookie of a domain.      *)

DomainOnce == \A i, j \in DOMAIN jar : jar[i].domain = jar[j].domain => i = j

\* A logout leaves no cookie of its domain, and what is left was there before.
LEMMA LoggedOut ==
    ASSUME TypeOK, DomainOnce, NEW host \in Hosts, LogOut(host)
    PROVE  /\ DomainOnce'
           /\ \A j \in DOMAIN jar' : /\ jar'[j].domain # CookieDomain(host)
                                     /\ \E k \in DOMAIN jar : jar'[j] = jar[k]
<1>1. PICK i \in DOMAIN jar : /\ jar[i].domain = CookieDomain(host)
                              /\ jar' = SubSeq(jar, 1, i - 1) \o SubSeq(jar, i + 1, Len(jar))
    BY DEF LogOut, Has
<1> DEFINE old(j) == IF j < i THEN j ELSE j + 1
<1>2. jar \in Seq(Cookie) /\ i \in 1..Len(jar) /\ Len(jar) \in Nat /\ DOMAIN jar = 1..Len(jar)
    BY <1>1 DEF TypeOK
<1>3. /\ DOMAIN jar' = 1..(Len(jar) - 1)
      /\ \A j \in DOMAIN jar' : jar'[j] = jar[old(j)]
    BY <1>1, <1>2, Without
<1>4. \A j \in 1..(Len(jar) - 1) : old(j) \in 1..Len(jar) /\ old(j) # i
    BY <1>2
<1>5. \A j, k \in 1..(Len(jar) - 1) : old(j) = old(k) => j = k
    BY <1>2
<1> HIDE DEF old
<1>6. DomainOnce'
    BY <1>2, <1>3, <1>4, <1>5 DEF DomainOnce
<1>7. ASSUME NEW j \in DOMAIN jar' PROVE jar'[j].domain # CookieDomain(host)
    <2>1. PICK k \in DOMAIN jar : k # i /\ jar'[j] = jar[k]
        BY <1>2, <1>3, <1>4
    <2> QED BY <1>1, <2>1 DEF DomainOnce
<1>8. \A j \in DOMAIN jar' : \E k \in DOMAIN jar : jar'[j] = jar[k]
    BY <1>2, <1>3, <1>4
<1> QED BY <1>6, <1>7, <1>8

\* After a login one cookie is the one that was set, of its domain the only
\* one, and the others were there before.
LEMMA LoggedIn ==
    ASSUME TypeOK, DomainOnce, NEW host \in Hosts, LogIn(host)
    PROVE  /\ DomainOnce'
           /\ \E i \in DOMAIN jar' :
                 /\ jar'[i] = [domain |-> CookieDomain(host), value |-> HashedPassword]
                 /\ \A j \in DOMAIN jar' : j # i => /\ jar'[j].domain # CookieDomain(host)
                                                    /\ \E k \in DOMAIN jar : jar'[j] = jar[k]
<1> DEFINE cookie == [domain |-> CookieDomain(host), value |-> HashedPassword]
<1>1. PICK c : c = cookie
    OBVIOUS
<1>2. /\ c.domain = CookieDomain(host)
      /\ \/ Has(c.domain) = {} /\ jar' = Append(jar, c)
         \/ \E i \in Has(c.domain) : jar' = [jar EXCEPT ![i] = c]
    BY <1>1 DEF LogIn
<1>3. jar \in Seq(Cookie) /\ Len(jar) \in Nat /\ DOMAIN jar = 1..Len(jar) /\ c \in Cookie
    BY <1>1, CookieType DEF TypeOK
<1>4. SUFFICES /\ DomainOnce'
               /\ \E i \in DOMAIN jar' :
                     /\ jar'[i] = c
                     /\ \A j \in DOMAIN jar' : j # i => /\ jar'[j].domain # c.domain
                                                        /\ \E k \in DOMAIN jar : jar'[j] = jar[k]
    BY <1>1, <1>2
<1>5. CASE Has(c.domain) = {} /\ jar' = Append(jar, c)
    <2>1. /\ DOMAIN jar' = 1..(Len(jar) + 1) /\ jar'[Len(jar) + 1] = c
          /\ \A j \in 1..Len(jar) : jar'[j] = jar[j]
        BY <1>3, <1>5
    <2>2. \A j \in 1..Len(jar) : jar[j].domain # c.domain
        BY <1>3, <1>5 DEF Has
    <2>3. \A j \in 1..(Len(jar) + 1) : j \in 1..Len(jar) \/ j = Len(jar) + 1
        BY <1>3
    <2>4. DomainOnce'
        <3> SUFFICES ASSUME NEW j \in DOMAIN jar', NEW k \in DOMAIN jar',
                            jar'[j].domain = jar'[k].domain
                     PROVE  j = k
            BY DEF DomainOnce
        <3> QED BY <1>3, <2>1, <2>2, <2>3 DEF DomainOnce
    <2> QED BY <1>3, <2>1, <2>2, <2>3, <2>4
<1>6. CASE \E i \in Has(c.domain) : jar' = [jar EXCEPT ![i] = c]
    <2>1. PICK i \in DOMAIN jar : jar[i].domain = c.domain /\ jar' = [jar EXCEPT ![i] = c]
        BY <1>6 DEF Has
    <2>2. /\ DOMAIN jar' = DOMAIN jar /\ jar'[i] = c
          /\ \A j \in DOMAIN jar : j # i => jar'[j] = jar[j]
        BY <1>3, <2>1
    <2>3. \A j \in DOMAIN jar : j # i => jar[j].domain # c.domain
        BY <2>1 DEF DomainOnce
    <2>4. DomainOnce'
        BY <2>2, <2>3 DEF DomainOnce
    <2> QED BY <2>1, <2>2, <2>3, <2>4
<1> QED BY <1>2, <1>5, <1>6

\* Every step keeps DomainOnce.
LEMMA NextOnce == TypeOK /\ DomainOnce /\ [Next]_vars => DomainOnce'
<1> SUFFICES ASSUME TypeOK, DomainOnce, [Next]_vars PROVE DomainOnce'
    OBVIOUS
<1>1. CASE CloseBrowser \/ Restart \/ UNCHANGED vars
    BY <1>1 DEF CloseBrowser, Restart, vars, DomainOnce
<1> QED BY <1>1, LoggedIn, LoggedOut DEF Next

\* Who logs in is logged in.
LEMMA LogInAuthenticates ==
    ASSUME TypeOK, DomainOnce, NEW host \in Hosts, Alone(host), LogIn(host)
    PROVE  Authenticated(host)'
<1>1. PICK i \in DOMAIN jar' :
         /\ jar'[i] = [domain |-> CookieDomain(host), value |-> HashedPassword]
         /\ \A j \in DOMAIN jar' : j # i => /\ jar'[j].domain # CookieDomain(host)
                                            /\ \E k \in DOMAIN jar : jar'[j] = jar[k]
    BY LoggedIn
<1>2. i \in Sent(host)'
    <2>1. jar'[i].domain = CookieDomain(host)
        BY <1>1
    <2> QED BY <2>1, CookieComesBack DEF Sent
<1>3. ASSUME NEW j \in Sent(host)' PROVE j = i
    <2>1. j \in DOMAIN jar' /\ Reaches(jar'[j].domain, host)
        BY <1>3 DEF Sent
    <2>2. ASSUME j # i PROVE FALSE
        <3>1. PICK k \in DOMAIN jar : jar'[j] = jar[k] /\ jar'[j].domain # CookieDomain(host)
            BY <1>1, <2>1, <2>2
        <3>2. k \in Sent(host)
            BY <2>1, <3>1 DEF Sent
        <3> QED BY <3>1, <3>2 DEF Alone
    <2> QED BY <2>2
<1>4. IsCookieValid(jar[i].value)'
    <2>1. jar'[i].value = HashedPassword /\ args' = args
        BY <1>1 DEF LogIn
    <2> QED BY <2>1 DEF IsCookieValid, HashedPassword
<1>5. i \in Nat
    <2>1. TypeOK'
        BY TypeStep DEF Next
    <2> QED BY <1>1, <2>1 DEF TypeOK
<1> QED BY <1>2, <1>3, <1>4, <1>5 DEF Authenticated

\* Who logs out is logged out.
LEMMA LogOutEnds ==
    ASSUME TypeOK, DomainOnce, NEW host \in Hosts, Alone(host), LogOut(host)
    PROVE  ~Authenticated(host)'
<1>1. args.auth # "none" /\ args' = args
    BY DEF LogOut, Http, Or, Redirect, RobotsOrSecurity, DomainProxy, PathProxy, PortPaths,
           Static, Health, Login, Logout, UpdateCheck, Editor, Page
<1>2. ASSUME NEW j \in Sent(host)' PROVE FALSE
    <2>1. j \in DOMAIN jar' /\ Reaches(jar'[j].domain, host)
        BY <1>2 DEF Sent
    <2>2. PICK k \in DOMAIN jar : jar'[j] = jar[k] /\ jar'[j].domain # CookieDomain(host)
        BY <2>1, LoggedOut
    <2>3. k \in Sent(host)
        BY <2>1, <2>2 DEF Sent
    <2> QED BY <2>2, <2>3 DEF Alone
<1> QED BY <1>1, <1>2 DEF Authenticated

\* A browser keeps one cookie of a domain, and who logs in is logged in, and who
\* logs out is logged out, at that host, unless an older cookie of another
\* domain comes before (login.ts:96, logout.ts:9).
THEOREM SessionAsAskedTheorem == Spec => []DomainOnce /\ SessionAsAsked
<1>1. Init => DomainOnce
    BY DEF Init, DomainOnce
<1>2. Spec => []DomainOnce
    BY <1>1, NextOnce, TypeCorrect, PTL DEF Spec
<1>3. TypeOK /\ DomainOnce /\ [Next]_vars
      => [\A host \in Hosts : Alone(host) =>
             /\ LogIn(host) => Authenticated(host)'
             /\ LogOut(host) => ~Authenticated(host)']_vars
    BY LogInAuthenticates, LogOutEnds
<1> QED BY <1>2, <1>3, TypeCorrect, PTL DEF Spec, SessionAsAsked
=============================================================================
