------------------------------ MODULE SocketProxy ------------------------------
(***************************************************************************)
(* The proxy that hands TLS sockets to the editor server                   *)
(* (src/src/node/socket.ts): each gets a connection through a local server *)
(* of the process, and says which one by sending an id over it. One server *)
(* is started on demand and remembered; stop closes it, and the next       *)
(* socket would start another.                                             *)
(*                                                                         *)
(* The pipes are files that other processes of the user take by the same   *)
(* rules, so one may be removed or taken over at any moment; a pipe nobody *)
(* listens at any more is one that is not there, as each start removes it. *)
(* An error nobody listens for is logged and changes nothing               *)
(* (wrapper.ts:392).                                                       *)
(***************************************************************************)
EXTENDS Naturals

CONSTANTS
    Sockets,      \* TLS sockets that ask for a proxy
    Starts,       \* the times the server is started
    MaxTries,     \* maxTries
    Pipes, First, \* the names of pipes, and "tls-proxy"
    Numbered(_, _),   \* the name with a number behind it
    Contested,    \* the pipes that other processes touch
    Other, Nothing,   \* what a pipe may be besides one of our servers
    None

ASSUME ProxyAssumption ==
    /\ MaxTries \in Nat
    /\ First \in Pipes /\ Contested \subseteq Pipes
    /\ \A p \in Pipes : \A i \in 1..MaxTries : Numbered(p, i) \in Pipes
    /\ {Other, Nothing} \cap Starts = {} /\ None \notin Starts \cup Sockets

VARIABLES
    proxyServer,   \* _proxyServer: the start it is the promise of
    proxyPipe,     \* proxyPipe
    server,        \* how far each start is
    base, tries,   \* its search: the name it began with, the number tried
    at,            \* the pipe it removed and then the one it listens on
    stopping,      \* starts that are to be closed when they are done
    pipe,          \* what each pipe is
    stage,         \* how far createProxy is with a socket
    mine,          \* the start it waits for
    conn,          \* its connection: the server it waits at, or how far it is
    heard,         \* the listeners that wait for data on a connection
    given,         \* the connection a socket was handed over with
    live, proxies, \* the sockets, and the ends of their proxies, not destroyed
    listeners,     \* listeners of onProxyConnect, by their socket
    timers         \* timers that are armed, by their socket

serverVars == <<proxyServer, proxyPipe, server, base, tries, at, stopping, pipe>>
socketVars == <<stage, mine, conn, heard, given, live, proxies, listeners, timers>>
vars == <<serverVars, socketVars>>

Pending == {"finding", "clearing", "binding"}

ServerTypeOK ==
    /\ proxyServer \in Starts \cup {None}
    /\ proxyPipe \in Pipes
    /\ server \in [Starts -> {"new", "up", "stuck", "failed", "closed"} \cup Pending]
    /\ base \in [Starts -> Pipes]
    /\ tries \in [Starts -> 0..MaxTries]
    /\ at \in [Starts -> Pipes]
    /\ stopping \in SUBSET Starts
    /\ pipe \in [Pipes -> Starts \cup {Other, Nothing}]
    \* A pipe that is ours is that of a server which is up.
    /\ \A p \in Pipes : pipe[p] \in Starts => server[pipe[p]] = "up"

SocketTypeOK ==
    /\ stage \in [Sockets -> {"off", "starting", "pairing", "handed", "timed out", "rejected"}]
    /\ mine \in [Sockets -> Starts \cup {None}]
    /\ conn \in [Sockets -> Starts \cup {None, "accepted", "lost"}]
    /\ heard \in [Sockets -> SUBSET Sockets]
    /\ given \in [Sockets -> Sockets \cup {None}]
    /\ live \in SUBSET Sockets /\ proxies \in SUBSET Sockets
    /\ listeners \in SUBSET Sockets /\ timers \in SUBSET Sockets

TypeOK == ServerTypeOK /\ SocketTypeOK

Init ==
    /\ proxyServer = None /\ proxyPipe = First
    /\ server = [s \in Starts |-> "new"]
    /\ base = [s \in Starts |-> First] /\ tries = [s \in Starts |-> 0]
    /\ at = [s \in Starts |-> First]
    /\ stopping = {}
    /\ pipe = [p \in Pipes |-> Nothing]
    /\ stage = [k \in Sockets |-> "off"] /\ mine = [k \in Sockets |-> None]
    /\ conn = [k \in Sockets |-> None]
    /\ heard = [k \in Sockets |-> {}] /\ given = [k \in Sockets |-> None]
    /\ live = Sockets /\ proxies = {} /\ listeners = {} /\ timers = {}

-----------------------------------------------------------------------------
(* The server: startProxyServer, findFreeSocketPath and stop.              *)

Candidate(s) == IF tries[s] = 0 THEN base[s] ELSE Numbered(base[s], tries[s])
Accepting(p) == pipe[p] \in Starts \cup {Other}

\* A connection attempt succeeds: the next name is tried, up to the last.
TryNext(s) ==
    /\ server[s] = "finding"
    /\ Accepting(Candidate(s)) /\ tries[s] < MaxTries
    /\ tries' = [tries EXCEPT ![s] = @ + 1]
    /\ UNCHANGED <<proxyServer, proxyPipe, server, base, at, stopping, pipe, socketVars>>

\* It fails, or no name is left: the name becomes the pipe.
Found(s) ==
    /\ server[s] = "finding"
    /\ ~Accepting(Candidate(s)) \/ tries[s] = MaxTries
    /\ proxyPipe' = Candidate(s)
    /\ at' = [at EXCEPT ![s] = Candidate(s)]
    /\ server' = [server EXCEPT ![s] = "clearing"]
    /\ UNCHANGED <<proxyServer, base, tries, stopping, pipe, socketVars>>

\* The directory is made and the old pipe removed, or one of them fails.
Clear(s) ==
    /\ server[s] = "clearing"
    /\ \/ /\ server' = [server EXCEPT ![s] = "binding"]
          /\ pipe' = [pipe EXCEPT ![at[s]] = Nothing]
       \/ /\ server' = [server EXCEPT ![s] = "failed"]
          /\ UNCHANGED pipe
    /\ UNCHANGED <<proxyServer, proxyPipe, base, tries, at, stopping, socketVars>>

\* listen takes what the pipe is by now. If that is there again the promise
\* never settles: the error has no listener.
Listen(s) ==
    /\ server[s] = "binding"
    /\ at' = [at EXCEPT ![s] = proxyPipe]
    /\ IF pipe[proxyPipe] = Nothing
       THEN /\ server' = [server EXCEPT ![s] = "up"]
            /\ pipe' = [pipe EXCEPT ![proxyPipe] = s]
       ELSE /\ server' = [server EXCEPT ![s] = "stuck"]
            /\ UNCHANGED pipe
    /\ UNCHANGED <<proxyServer, proxyPipe, base, tries, stopping, socketVars>>

\* close: the pipe goes, whose it is by then, and connections that wait are lost.
Close(s) ==
    /\ server' = [server EXCEPT ![s] = "closed"]
    /\ pipe' = [pipe EXCEPT ![at[s]] = Nothing]
    /\ conn' = [k \in Sockets |-> IF conn[k] = s THEN "lost" ELSE conn[k]]
    /\ proxies' = proxies \ {k \in Sockets : conn[k] = s}
    /\ UNCHANGED <<proxyPipe, base, tries, at, stage, mine, heard, given,
                   live, listeners, timers>>

\* stop, which the disposal of the routes calls once.
Stop ==
    /\ proxyServer # None
    /\ \A s \in Starts : s \notin stopping /\ server[s] # "closed"
    /\ proxyServer' = None
    /\ IF server[proxyServer] = "up" THEN Close(proxyServer) /\ UNCHANGED stopping
       ELSE /\ stopping' = stopping \cup {proxyServer}
            /\ UNCHANGED <<proxyPipe, server, base, tries, at, pipe, socketVars>>

CloseLate(s) ==
    /\ s \in stopping /\ server[s] = "up"
    /\ Close(s)
    /\ UNCHANGED <<proxyServer, stopping>>

\* Another process removes or takes a pipe.
OthersTouch(p) ==
    /\ p \in Contested
    /\ pipe' = [pipe EXCEPT ![p] = IF @ = Nothing THEN Other ELSE Nothing]
    /\ UNCHANGED <<proxyServer, proxyPipe, server, base, tries, at, stopping, socketVars>>

-----------------------------------------------------------------------------
(* The sockets: createProxy.                                               *)

\* Mutant of Ask: every socket starts a server.
AskStarts(k) ==
    /\ stage[k] = "off"
    /\ stage' = [stage EXCEPT ![k] = "starting"]
    /\ \E s \in Starts :
          /\ server[s] = "new"
          /\ proxyServer' = s
          /\ server' = [server EXCEPT ![s] = "finding"]
          /\ base' = [base EXCEPT ![s] = proxyPipe]
          /\ mine' = [mine EXCEPT ![k] = s]
    /\ UNCHANGED <<proxyPipe, tries, at, stopping, pipe, conn, heard, given,
                   live, proxies, listeners, timers>>

\* createProxy is called: wait for the server, or start it.
Ask(k) ==
    /\ stage[k] = "off"
    /\ stage' = [stage EXCEPT ![k] = "starting"]
    /\ IF proxyServer # None
       THEN /\ mine' = [mine EXCEPT ![k] = proxyServer]
            /\ UNCHANGED <<proxyServer, server, base>>
       ELSE \E s \in Starts :
              /\ server[s] = "new"
              /\ proxyServer' = s
              /\ server' = [server EXCEPT ![s] = "finding"]
              /\ base' = [base EXCEPT ![s] = proxyPipe]
              /\ mine' = [mine EXCEPT ![k] = s]
    /\ UNCHANGED <<proxyPipe, tries, at, stopping, pipe, conn, heard, given,
                   live, proxies, listeners, timers>>

\* The start failed, and so does createProxy.
Reject(k) ==
    /\ stage[k] = "starting" /\ server[mine[k]] = "failed"
    /\ stage' = [stage EXCEPT ![k] = "rejected"]
    /\ UNCHANGED <<serverVars, mine, conn, heard, given, live, proxies, listeners, timers>>

\* Mutant of Connect: the timer is armed once the connection is there.
ConnectUntimed(k) ==
    /\ stage[k] = "starting" /\ server[mine[k]] \in {"up", "closed"}
    /\ stage' = [stage EXCEPT ![k] = "pairing"]
    /\ timers' = IF Accepting(proxyPipe) THEN timers \cup {k} ELSE timers
    /\ listeners' = listeners \cup {k}
    /\ conn' = [conn EXCEPT ![k] = IF pipe[proxyPipe] \in Starts THEN pipe[proxyPipe] ELSE "lost"]
    /\ proxies' = IF Accepting(proxyPipe) THEN proxies \cup {k} ELSE proxies
    /\ UNCHANGED <<serverVars, mine, heard, given, live>>

\* The server is there: connect to the pipe, with a timer and a listener. A
\* connection that is refused ends the proxy.
Connect(k) ==
    /\ stage[k] = "starting" /\ server[mine[k]] \in {"up", "closed"}
    /\ stage' = [stage EXCEPT ![k] = "pairing"]
    /\ timers' = timers \cup {k}
    /\ listeners' = listeners \cup {k}
    /\ conn' = [conn EXCEPT ![k] = IF pipe[proxyPipe] \in Starts THEN pipe[proxyPipe] ELSE "lost"]
    /\ proxies' = IF Accepting(proxyPipe) THEN proxies \cup {k} ELSE proxies
    /\ UNCHANGED <<serverVars, mine, heard, given, live>>

\* Our server takes a connection, and every listener waits for its data.
Accept(k) ==
    /\ conn[k] \in Starts
    /\ conn' = [conn EXCEPT ![k] = "accepted"]
    /\ heard' = [heard EXCEPT ![k] = listeners]
    /\ UNCHANGED <<serverVars, stage, mine, given, live, proxies, listeners, timers>>

\* Mutant of Takers: the id is not compared.
TakersOfAny(c) == heard[c] \cap live \cap proxies

\* Mutant of Takers: a socket that was destroyed meanwhile takes it, too.
TakersUnchecked(c) == heard[c] \cap {c}

\* The sockets that take a connection when its id arrives.
Takers(c) == heard[c] \cap live \cap proxies \cap {c}

\* The id arrives: the socket it names is handed over with the connection.
Data(c) ==
    /\ conn[c] = "accepted" /\ heard[c] # {}
    /\ heard' = [heard EXCEPT ![c] = {}]
    /\ stage' = [k \in Sockets |-> IF k \in Takers(c) THEN "handed" ELSE stage[k]]
    /\ given' = [k \in Sockets |-> IF k \in Takers(c) THEN c ELSE given[k]]
    /\ timers' = timers \ Takers(c)
    /\ listeners' = listeners \ Takers(c)
    /\ UNCHANGED <<serverVars, mine, conn, live, proxies>>

\* The id did not arrive in time.
TimeOut(k) ==
    /\ k \in timers
    /\ timers' = timers \ {k}
    /\ listeners' = listeners \ {k}
    /\ stage' = [stage EXCEPT ![k] = "timed out"]
    /\ live' = live \ {k} /\ proxies' = proxies \ {k}
    /\ UNCHANGED <<serverVars, mine, conn, heard, given>>

\* The browser closes its end of a connection, the editor the one it was given.
Hangup(k) ==
    /\ stage[k] \in {"starting", "pairing", "handed"}
    /\ \/ live' = live \ {k} /\ UNCHANGED proxies
       \/ stage[k] = "handed" /\ proxies' = proxies \ {k} /\ UNCHANGED live
    /\ UNCHANGED <<serverVars, stage, mine, conn, heard, given, listeners, timers>>

\* The end of either of two piped sockets destroys the other.
PipeEnds(k) ==
    /\ stage[k] = "handed" /\ (k \notin live \/ k \notin proxies)
    /\ live' = live \ {k} /\ proxies' = proxies \ {k}
    /\ UNCHANGED <<serverVars, stage, mine, conn, heard, given, listeners, timers>>

-----------------------------------------------------------------------------

ServerStep(s) == TryNext(s) \/ Found(s) \/ Clear(s) \/ Listen(s) \/ CloseLate(s)
\* What the event loop owes a socket, at each stage one of them.
Due(k) == Reject(k) \/ Connect(k) \/ TimeOut(k) \/ PipeEnds(k)

Next ==
    \/ \E s \in Starts : ServerStep(s)
    \/ \E k \in Sockets : Ask(k) \/ Accept(k) \/ Data(k) \/ Due(k) \/ Hangup(k)
    \/ \E p \in Contested : OthersTouch(p)
    \/ Stop

\* The event loop and the file system go on; nothing is assumed of browsers, of
\* the editor, of other processes, or of when a connection is taken.
Spec ==
    /\ Init /\ [][Next]_vars
    /\ \A s \in Starts : WF_vars(ServerStep(s))
    /\ \A k \in Sockets : WF_vars(Due(k))

-----------------------------------------------------------------------------

\* Of two sockets that are proxied at once each gets the connection that its
\* own proxy made, however the connections and their ids arrive
\* (socket.ts:56-72).
OwnPeer == \A k \in Sockets : stage[k] = "handed" => given[k] = k

\* Whatever way the wait for the id ends, neither its timer nor its listener
\* survives it, so none acts on a socket that was handed over or destroyed, and
\* none is left behind (socket.ts:49-60).
NothingLeft ==
    LET pairing == {k \in Sockets : stage[k] = "pairing"}
    IN  timers = pairing /\ listeners = pairing

\* Only a socket that is still waited for and whose two ends are there is
\* handed over: an id that comes after the timer or after a hang-up is ignored
\* (socket.ts:58).
HandedOverLive ==
    [][\A k \in Sockets :
          stage'[k] = "handed" /\ stage[k] # "handed"
          => stage[k] = "pairing" /\ k \in live /\ k \in proxies]_vars

\* At most one server is started or up, the one _proxyServer stands for, but
\* for those that are being stopped (socket.ts:78-95, 23-28).
OneServer ==
    \A s \in Starts :
        server[s] \in Pending \cup {"up"} /\ s \notin stopping => s = proxyServer

\* A socket does not wait forever, whatever other processes do to the pipe: it
\* is handed over, timed out or refused, unless its server got stuck because
\* another process took the pipe between its removal and the listen
\* (socket.ts:42-74).
Settled ==
    \A k \in Sockets :
        stage[k] \in {"starting", "pairing"}
        ~> \/ stage[k] \in {"handed", "timed out", "rejected"}
           \/ mine[k] # None /\ server[mine[k]] = "stuck"

=============================================================================
