--------------------------- MODULE SocketProxyProofs ---------------------------
(***************************************************************************)
(* Proofs of the safety of SocketProxy, for every number of sockets and    *)
(* starts and every choice of names.                                       *)
(***************************************************************************)
EXTENDS SocketProxy, TLAPS

\* A pipe that is one of our servers is that of a server which listens there.
PipeOwned ==
    \A p \in Pipes : pipe[p] \in Starts => at[pipe[p]] = p

\* The promise that is remembered is that of a start.
ServerKnown == proxyServer # None => server[proxyServer] # "new"

\* Listeners on a connection are those of sockets that were proxied, and a
\* socket that was handed over has heard its id; one that timed out is gone.
HeardInv ==
    \A c \in Sockets :
        /\ \A k \in heard[c] : stage[k] \in {"pairing", "timed out", "handed"}
        /\ c \in heard[c] => stage[c] # "handed"
        /\ stage[c] = "timed out" => c \notin live

ServerInv == ServerTypeOK /\ PipeOwned /\ ServerKnown /\ OneServer
SocketInv == SocketTypeOK /\ NothingLeft /\ HeardInv /\ OwnPeer
Inv == ServerInv /\ SocketInv

LEMMA Candidates ==
    ASSUME ServerTypeOK, NEW s \in Starts
    PROVE  Candidate(s) \in Pipes
<1>1. tries[s] \in 0..MaxTries /\ base[s] \in Pipes
    BY DEF ServerTypeOK
<1>2. tries[s] # 0 => tries[s] \in 1..MaxTries
    BY <1>1, ProxyAssumption
<1> QED
    BY <1>1, <1>2, ProxyAssumption DEF Candidate

\* Initially nothing is started and nobody has asked.
LEMMA InitInv == Init => Inv
<1> SUFFICES ASSUME Init PROVE Inv
    OBVIOUS
<1>1. ServerTypeOK
    BY ProxyAssumption DEF Init, ServerTypeOK
<1>2. SocketTypeOK
    BY DEF Init, SocketTypeOK
<1>3. PipeOwned /\ ServerKnown /\ OneServer
    BY ProxyAssumption DEF Init, PipeOwned, ServerKnown, OneServer, Pending
<1>4. NothingLeft /\ HeardInv /\ OwnPeer
    BY DEF Init, NothingLeft, HeardInv, OwnPeer
<1> QED
    BY <1>1, <1>2, <1>3, <1>4 DEF Inv, ServerInv, SocketInv

\* The steps of the server keep what is known of it.
LEMMA ServerSteps ==
    ASSUME ServerInv,
           \/ \E s \in Starts : ServerStep(s)
           \/ \E p \in Contested : OthersTouch(p)
           \/ Stop
    PROVE  ServerInv'
<1> USE ProxyAssumption DEF ServerInv
<1>1. ASSUME NEW s \in Starts, TryNext(s) PROVE ServerInv'
    <2>1. ServerTypeOK'
        BY <1>1 DEF TryNext, ServerTypeOK
    <2> QED
        BY <1>1, <2>1 DEF TryNext, PipeOwned, ServerKnown, OneServer
<1>2. ASSUME NEW s \in Starts, Found(s) PROVE ServerInv'
    <2>1. ServerTypeOK'
        BY <1>2, Candidates DEF Found, ServerTypeOK, Pending
    <2>2. PipeOwned'
        BY <1>2 DEF Found, ServerTypeOK, PipeOwned
    <2>3. ServerKnown' /\ OneServer'
        BY <1>2 DEF Found, ServerTypeOK, ServerKnown, OneServer, Pending
    <2> QED
        BY <2>1, <2>2, <2>3
<1>3. ASSUME NEW s \in Starts, Clear(s) PROVE ServerInv'
    <2>1. ServerTypeOK'
        BY <1>3 DEF Clear, ServerTypeOK, Pending
    <2>2. PipeOwned'
        BY <1>3 DEF Clear, ServerTypeOK, PipeOwned
    <2>3. ServerKnown' /\ OneServer'
        BY <1>3 DEF Clear, ServerTypeOK, ServerKnown, OneServer, Pending
    <2> QED
        BY <2>1, <2>2, <2>3
<1>4. ASSUME NEW s \in Starts, Listen(s) PROVE ServerInv'
    <2>1. ServerTypeOK'
        BY <1>4 DEF Listen, ServerTypeOK, Pending
    <2>2. PipeOwned'
        BY <1>4 DEF Listen, ServerTypeOK, PipeOwned
    <2>3. ServerKnown' /\ OneServer'
        BY <1>4 DEF Listen, ServerTypeOK, ServerKnown, OneServer, Pending
    <2> QED
        BY <2>1, <2>2, <2>3
<1>5. ASSUME NEW s \in Starts, Close(s), server[s] = "up",
             proxyServer' \in {proxyServer, None}, UNCHANGED stopping
      PROVE  ServerTypeOK' /\ PipeOwned'
    <2>1. \A p \in Pipes : pipe'[p] \in Starts => pipe'[p] = pipe[p] /\ pipe[p] # s
        BY <1>5 DEF Close, ServerTypeOK, PipeOwned
    <2>2. ServerTypeOK'
        <3>1. server' \in [Starts -> {"new", "up", "stuck", "failed", "closed"} \cup Pending]
            BY <1>5 DEF Close, ServerTypeOK
        <3>2. pipe' \in [Pipes -> Starts \cup {Other, Nothing}]
            BY <1>5 DEF Close, ServerTypeOK
        <3>3. \A p \in Pipes : pipe'[p] \in Starts => server'[pipe'[p]] = "up"
            BY <1>5, <2>1 DEF Close, ServerTypeOK
        <3> QED
            BY <1>5, <3>1, <3>2, <3>3 DEF Close, ServerTypeOK
    <2>3. PipeOwned'
        BY <1>5, <2>1 DEF Close, PipeOwned
    <2> QED
        BY <2>2, <2>3
<1>6. ASSUME NEW s \in Starts, CloseLate(s) PROVE ServerInv'
    <2>1. ServerTypeOK' /\ PipeOwned'
        BY <1>5, <1>6 DEF CloseLate
    <2> QED
        BY <1>6, <2>1 DEF CloseLate, Close, ServerTypeOK, ServerKnown, OneServer, Pending
<1>7. CASE Stop
    <2>1. ServerTypeOK' /\ PipeOwned'
        <3>1. CASE server[proxyServer] = "up"
            BY <1>5, <1>7, <3>1 DEF Stop, ServerTypeOK
        <3>2. CASE server[proxyServer] # "up"
            BY <1>7, <3>2 DEF Stop, ServerTypeOK, PipeOwned
        <3> QED
            BY <3>1, <3>2
    <2> QED
        BY <1>7, <2>1 DEF Stop, Close, ServerTypeOK, ServerKnown, OneServer, Pending
<1>8. ASSUME NEW p \in Contested, OthersTouch(p) PROVE ServerInv'
    <2>1. ServerTypeOK'
        BY <1>8 DEF OthersTouch, ServerTypeOK
    <2> QED
        BY <1>8, <2>1 DEF OthersTouch, ServerTypeOK, PipeOwned, ServerKnown, OneServer
<1> QED
    BY <1>1, <1>2, <1>3, <1>4, <1>6, <1>7, <1>8 DEF ServerStep

\* They leave the sockets alone, but for the connections that a close loses.
LEMMA ServerStepsKeepSockets ==
    ASSUME SocketInv,
           \/ \E s \in Starts : ServerStep(s)
           \/ \E p \in Contested : OthersTouch(p)
           \/ Stop
    PROVE  SocketInv' /\ UNCHANGED stage
<1>1. /\ UNCHANGED <<stage, mine, heard, given, live, listeners, timers>>
      /\ \/ UNCHANGED <<conn, proxies>>
         \/ \E s : Close(s)
    BY DEF ServerStep, TryNext, Found, Clear, Listen, CloseLate, Close, Stop,
       OthersTouch, socketVars
<1>2. SocketTypeOK'
    BY <1>1 DEF SocketInv, SocketTypeOK, Close
<1> QED
    BY <1>1, <1>2 DEF SocketInv, NothingLeft, HeardInv, OwnPeer

\* A step of a socket starts a server at most.
LEMMA SocketStepsKeepServer ==
    ASSUME ServerInv, NEW k \in Sockets,
           Ask(k) \/ Accept(k) \/ Data(k) \/ Due(k) \/ Hangup(k)
    PROVE  ServerInv'
<1> USE ProxyAssumption DEF ServerInv
<1>1. CASE Ask(k)
    <2>1. ServerTypeOK'
        BY <1>1 DEF Ask, ServerTypeOK, Pending
    <2>2. PipeOwned'
        BY <1>1 DEF Ask, PipeOwned
    <2>3. ServerKnown' /\ OneServer'
        BY <1>1 DEF Ask, ServerTypeOK, ServerKnown, OneServer, Pending
    <2> QED
        BY <2>1, <2>2, <2>3
<1>2. CASE UNCHANGED serverVars
    BY <1>2 DEF serverVars, ServerTypeOK, PipeOwned, ServerKnown, OneServer
<1> QED
    BY <1>1, <1>2 DEF Due, Reject, Connect, TimeOut, PipeEnds, Accept, Data, Hangup

\* It keeps what is known of the sockets.
LEMMA SocketSteps ==
    ASSUME ServerTypeOK, SocketInv, NEW k \in Sockets,
           Ask(k) \/ Accept(k) \/ Data(k) \/ Due(k) \/ Hangup(k)
    PROVE  SocketInv'
<1> USE DEF SocketInv
<1>1. CASE Ask(k)
    <2>1. stage' = [stage EXCEPT ![k] = "starting"] /\ UNCHANGED <<conn, heard, given, live, proxies, listeners, timers>>
        BY <1>1 DEF Ask
    <2>2. mine' \in [Sockets -> Starts \cup {None}]
        BY <1>1 DEF Ask, ServerTypeOK, SocketTypeOK
    <2>3. SocketTypeOK'
        BY <1>1, <2>1, <2>2 DEF SocketTypeOK
    <2>4. NothingLeft'
        <3>1. \A j \in Sockets : stage'[j] = "pairing" <=> stage[j] = "pairing"
            BY <1>1, <2>1 DEF Ask, SocketTypeOK
        <3> QED
            BY <2>1, <3>1 DEF NothingLeft
    <2>5. HeardInv'
        <3>1. \A j \in Sockets : stage'[j] = IF j = k THEN "starting" ELSE stage[j]
            BY <2>1 DEF SocketTypeOK
        <3>2. stage[k] = "off"
            BY <1>1 DEF Ask
        <3> QED
            BY <2>1, <3>1, <3>2 DEF HeardInv, SocketTypeOK
    <2>6. OwnPeer'
        <3>1. \A j \in Sockets : stage'[j] = "handed" => stage[j] = "handed"
            BY <2>1 DEF SocketTypeOK
        <3> QED
            BY <2>1, <3>1 DEF OwnPeer
    <2> QED
        BY <2>3, <2>4, <2>5, <2>6
<1>2. CASE Accept(k)
    <2>1. SocketTypeOK'
        BY <1>2 DEF Accept, SocketTypeOK
    <2>2. NothingLeft'
        BY <1>2 DEF Accept, SocketTypeOK, NothingLeft
    <2>3. HeardInv'
        BY <1>2 DEF Accept, SocketTypeOK, HeardInv, NothingLeft
    <2>4. OwnPeer'
        BY <1>2 DEF Accept, SocketTypeOK, OwnPeer
    <2> QED
        BY <2>1, <2>2, <2>3, <2>4
<1>3. CASE Data(k)
    <2>1. Takers(k) \in SUBSET {k} /\ Takers(k) \subseteq heard[k] /\ Takers(k) \subseteq live
        BY DEF Takers
    <2>2. SocketTypeOK'
        BY <1>3, <2>1 DEF Data, SocketTypeOK
    <2>3. NothingLeft'
        BY <1>3, <2>1 DEF Data, SocketTypeOK, NothingLeft
    <2>4. HeardInv'
        BY <1>3, <2>1 DEF Data, SocketTypeOK, HeardInv
    <2>5. OwnPeer'
        BY <1>3, <2>1 DEF Data, SocketTypeOK, OwnPeer
    <2> QED
        BY <2>2, <2>3, <2>4, <2>5
<1>4. CASE Reject(k)
    <2>1. SocketTypeOK'
        BY <1>4 DEF Reject, SocketTypeOK
    <2>2. NothingLeft'
        BY <1>4 DEF Reject, SocketTypeOK, NothingLeft
    <2>3. HeardInv'
        BY <1>4 DEF Reject, SocketTypeOK, HeardInv
    <2>4. OwnPeer'
        BY <1>4 DEF Reject, SocketTypeOK, OwnPeer
    <2> QED
        BY <2>1, <2>2, <2>3, <2>4
<1>5. CASE Connect(k)
    <2>1. SocketTypeOK'
        BY <1>5 DEF Connect, SocketTypeOK
    <2>2. NothingLeft'
        BY <1>5 DEF Connect, SocketTypeOK, NothingLeft
    <2>3. HeardInv'
        BY <1>5 DEF Connect, SocketTypeOK, HeardInv
    <2>4. OwnPeer'
        BY <1>5 DEF Connect, SocketTypeOK, OwnPeer
    <2> QED
        BY <2>1, <2>2, <2>3, <2>4
<1>6. CASE TimeOut(k)
    <2>1. SocketTypeOK'
        BY <1>6 DEF TimeOut, SocketTypeOK
    <2>2. NothingLeft'
        BY <1>6 DEF TimeOut, SocketTypeOK, NothingLeft
    <2>3. HeardInv'
        BY <1>6 DEF TimeOut, SocketTypeOK, HeardInv
    <2>4. OwnPeer'
        BY <1>6 DEF TimeOut, SocketTypeOK, OwnPeer
    <2> QED
        BY <2>1, <2>2, <2>3, <2>4
<1>7. CASE PipeEnds(k)
    <2>1. SocketTypeOK'
        BY <1>7 DEF PipeEnds, SocketTypeOK
    <2>2. NothingLeft'
        BY <1>7 DEF PipeEnds, SocketTypeOK, NothingLeft
    <2>3. HeardInv'
        BY <1>7 DEF PipeEnds, SocketTypeOK, HeardInv
    <2>4. OwnPeer'
        BY <1>7 DEF PipeEnds, SocketTypeOK, OwnPeer
    <2> QED
        BY <2>1, <2>2, <2>3, <2>4
<1>8. CASE Hangup(k)
    <2>1. SocketTypeOK'
        BY <1>8 DEF Hangup, SocketTypeOK
    <2>2. NothingLeft'
        BY <1>8 DEF Hangup, SocketTypeOK, NothingLeft
    <2>3. HeardInv'
        BY <1>8 DEF Hangup, SocketTypeOK, HeardInv
    <2>4. OwnPeer'
        BY <1>8 DEF Hangup, SocketTypeOK, OwnPeer
    <2> QED
        BY <2>1, <2>2, <2>3, <2>4
<1> QED
    BY <1>1, <1>2, <1>3, <1>4, <1>5, <1>6, <1>7, <1>8 DEF Due

LEMMA Inductive ==
    ASSUME Inv, [Next]_vars
    PROVE  Inv'
<1>1. CASE UNCHANGED vars
    <2>1. ServerInv'
        BY <1>1 DEF Inv, vars, serverVars, ServerInv, ServerTypeOK, PipeOwned, ServerKnown, OneServer
    <2>2. SocketInv'
        BY <1>1 DEF Inv, vars, socketVars, SocketInv, SocketTypeOK, NothingLeft, HeardInv, OwnPeer
    <2> QED
        BY <2>1, <2>2 DEF Inv
<1>2. CASE \/ \E s \in Starts : ServerStep(s)
           \/ \E p \in Contested : OthersTouch(p)
           \/ Stop
    BY <1>2, ServerSteps, ServerStepsKeepSockets DEF Inv
<1>3. CASE \E k \in Sockets : Ask(k) \/ Accept(k) \/ Data(k) \/ Due(k) \/ Hangup(k)
    BY <1>3, SocketStepsKeepServer, SocketSteps DEF Inv, ServerInv
<1> QED
    BY <1>1, <1>2, <1>3 DEF Next

LEMMA Invariance == Spec => []Inv
BY InitInv, Inductive, PTL DEF Spec

\* Every variable of the proxy keeps its type; in particular a pipe is never
\* that of a server of ours which does not listen any more.
THEOREM TypeCorrect == Spec => []TypeOK
<1>1. Inv => TypeOK
    BY DEF Inv, ServerInv, SocketInv, TypeOK
<1> QED
    BY <1>1, Invariance, PTL

\* Each socket is handed over with the connection of its own proxy.
THEOREM OwnPeerTheorem == Spec => []OwnPeer
<1>1. Inv => OwnPeer
    BY DEF Inv, SocketInv
<1> QED
    BY <1>1, Invariance, PTL

\* Timers and listeners are those of the sockets that are being paired.
THEOREM NothingLeftTheorem == Spec => []NothingLeft
<1>1. Inv => NothingLeft
    BY DEF Inv, SocketInv
<1> QED
    BY <1>1, Invariance, PTL

\* At most one server is started or up and not being stopped.
THEOREM OneServerTheorem == Spec => []OneServer
<1>1. Inv => OneServer
    BY DEF Inv, ServerInv
<1> QED
    BY <1>1, Invariance, PTL

\* Only a live socket that is still waited for is handed over.
THEOREM HandedOverLiveTheorem == Spec => HandedOverLive
<1> DEFINE HandsOver ==
              \A k \in Sockets :
                  stage'[k] = "handed" /\ stage[k] # "handed"
                  => stage[k] = "pairing" /\ k \in live /\ k \in proxies
<1>1. ASSUME Inv, [Next]_vars
      PROVE  HandsOver
    <2> SUFFICES ASSUME NEW k \in Sockets, stage'[k] = "handed", stage[k] # "handed"
                 PROVE  stage[k] = "pairing" /\ k \in live /\ k \in proxies
        OBVIOUS
    <2>1. stage \in [Sockets -> {"off", "starting", "pairing", "handed", "timed out", "rejected"}]
        BY <1>1 DEF Inv, SocketInv, SocketTypeOK
    <2>2. ASSUME NEW c \in Sockets, Ask(c) \/ Accept(c) \/ Due(c) \/ Hangup(c)
          PROVE  FALSE
        BY <2>1, <2>2 DEF Ask, Accept, Due, Reject, Connect, TimeOut, PipeEnds, Hangup
    <2>3. stage' # stage
        OBVIOUS
    <2>4. PICK c \in Sockets : Data(c)
        BY <1>1, <2>2, <2>3, ServerStepsKeepSockets DEF Next, Inv, vars, socketVars
    <2> QED
        BY <1>1, <2>1, <2>4 DEF Data, Takers, Inv, SocketInv, HeardInv
<1> QED
    BY <1>1, Invariance, PTL DEF Spec, HandedOverLive
=============================================================================
