--------------------------- MODULE ProcessWrapper ---------------------------
(***************************************************************************)
(* The two processes of a running code-server: the parent (ParentProcess), *)
(* which parses the command line, forks the child and hot-swaps it on      *)
(* SIGUSR1 or SIGUSR2, and the child (ChildProcess), which asks for its    *)
(* arguments in a handshake and then serves on the configured port.        *)
(* src/src/node/wrapper.ts, entry.ts and the listening part of main.ts.    *)
(*                                                                         *)
(* One action is one callback of a Node event loop or one thing the        *)
(* operating system does. The time-outs (10 s for a handshake, 5 s for a   *)
(* disposal, 5 s between two polls of the parent) may expire at any moment *)
(* while they are armed: how long the rest takes is not bounded by code.   *)
(***************************************************************************)
EXTENDS Integers, FiniteSets

CONSTANTS
    MaxSpawns,     \* bound on the children forked in one behaviour
    Faults,        \* children may end on their own, signals may come from outside
    ChildMayAsk    \* the child may call ChildProcess.relaunch

ASSUME SpawnsAssumption == MaxSpawns \in Nat \ {0}
ASSUME SwitchesAssumption == Faults \in BOOLEAN /\ ChildMayAsk \in BOOLEAN

\* Children are numbered in the order they are forked.
Children == 1..MaxSpawns
NoChild == 0

VARIABLES
    parent,      \* what the parent process is doing
    exitCode,    \* the code the parent exited with, -1 before
    child,       \* ParentProcess.child: the last child forked
    listeners,   \* what the parent listens for on each child
    timers,      \* children with an armed handshake timer in the parent
    proc,        \* what each child process is doing, or how it ended
    sigterm,     \* children with a SIGTERM or SIGINT on its way
    channel,     \* the message on each child's IPC channel
    port,        \* the child that listens on the port of the server
    asked        \* children that sent a "relaunch" message

parentVars == <<parent, exitCode, child, listeners, timers>>
vars == <<parent, exitCode, child, listeners, timers,
          proc, sigterm, channel, port, asked>>

\* How a child ends, as its "exit" event tells it: a code or, killed, null.
Gone == {"exit 0", "exit 1", "signalled"}
\* A child before runCodeServer resolves: disposal only exits the process.
NotYetServing == {"handshaking", "starting", "listening"}
Live == NotYetServing \cup {"booting", "serving", "disposing"}

TypeOK ==
    /\ parent \in {"parsing", "running", "disposing", "exited", "killed"}
    /\ exitCode \in {-1, 0, 1}
    /\ child \in Children \cup {NoChild}
    /\ listeners \in [Children -> {"none", "handshake", "exit", "dispose"}]
    /\ timers \in SUBSET Children
    /\ proc \in [Children -> Live \cup Gone \cup {"unborn"}]
    /\ sigterm \in SUBSET Children
    /\ channel \in [Children -> {"empty", "hello", "args"}]
    /\ port \in Children \cup {NoChild}
    /\ asked \in SUBSET Children

Init ==
    /\ parent = "parsing"
    /\ exitCode = -1
    /\ child = NoChild
    /\ listeners = [i \in Children |-> "none"]
    /\ timers = {}
    /\ proc = [i \in Children |-> "unborn"]
    /\ sigterm = {}
    /\ channel = [i \in Children |-> "empty"]
    /\ port = NoChild
    /\ asked = {}

LiveChildren == {i \in Children : proc[i] \in Live}
Alive(i) == i \in LiveChildren
ParentLives == parent \in {"parsing", "running", "disposing"}

-----------------------------------------------------------------------------
(* The parent.                                                             *)

\* child.kill() on the current child; a dead one is not signalled.
SignalChild == sigterm' = sigterm \cup ({child} \cap LiveChildren)

(***************************************************************************)
(* process.exit(c). Its "exit" event disposes of the child, unless the     *)
(* parent was disposing already and has removed that listener.             *)
(***************************************************************************)
ExitWith(c) ==
    /\ parent' = "exited"
    /\ exitCode' = c
    /\ listeners' = [i \in Children |-> "none"]
    /\ timers' = {}
    /\ IF parent = "disposing" THEN UNCHANGED sigterm ELSE SignalChild
    /\ UNCHANGED <<child, proc, channel, port, asked>>

\* --help, --version, a VS Code CLI command, an existing instance that takes
\* the files, or an error before start: the parent ends without a child.
EntryReturns ==
    /\ parent = "parsing"
    /\ \E c \in {0, 1} : ExitWith(c)

\* _start: fork a child, take it as this.child and wait for its handshake
\* with the listeners and the timer of onMessage.
Spawn ==
    /\ child < MaxSpawns
    /\ child' = child + 1
    /\ proc' = [proc EXCEPT ![child + 1] = "booting"]
    /\ timers' = timers \cup {child + 1}
    /\ UNCHANGED <<exitCode, channel, port, asked>>

\* start(args)
Start ==
    /\ parent = "parsing"
    /\ parent' = "running"
    /\ Spawn
    /\ listeners' = [listeners EXCEPT ![1] = "handshake"]
    /\ UNCHANGED sigterm

\* SIGUSR1 or SIGUSR2 before start(args): the child is forked, then handshake
\* throws "started without args" and the parent exits, killing that child.
HotswapBeforeStart ==
    /\ parent = "parsing"
    /\ parent' = "exited"
    /\ exitCode' = 1
    /\ child' = 1
    /\ proc' = [proc EXCEPT ![1] = "booting"]
    /\ sigterm' = {1}
    /\ UNCHANGED <<listeners, timers, channel, port, asked>>

\* Mutant of Hotswap: the old child is not killed.
HotswapWithoutKill ==
    /\ parent = "running"
    /\ Spawn
    /\ listeners' = [listeners EXCEPT ![child] = "dispose",
                                      ![child + 1] = "handshake"]
    /\ UNCHANGED <<parent, sigterm>>

\* Mutant of Hotswap: the old child keeps its listeners.
HotswapKeepsListeners ==
    /\ parent = "running"
    /\ SignalChild
    /\ Spawn
    /\ listeners' = [listeners EXCEPT ![child + 1] = "handshake"]
    /\ UNCHANGED parent

(***************************************************************************)
(* relaunch: disposeChild, whose promise is not awaited, strips the old    *)
(* child of its listeners and signals it; its handshake timer stays armed. *)
(* Then _start forks the next one.                                         *)
(***************************************************************************)
Hotswap ==
    /\ parent = "running"
    /\ SignalChild
    /\ Spawn
    /\ listeners' = [listeners EXCEPT ![child] = "dispose",
                                      ![child + 1] = "handshake"]
    /\ UNCHANGED parent

\* SIGINT or SIGTERM: dispose of the child and exit once it is gone. A second
\* signal finds no listener and kills the parent.
Terminate ==
    \/ /\ parent = "parsing"
       /\ ExitWith(0)
    \/ /\ parent = "running"
       /\ parent' = "disposing"
       /\ listeners' = [listeners EXCEPT ![child] = "dispose"]
       /\ SignalChild
       /\ UNCHANGED <<exitCode, child, timers, proc, channel, port, asked>>
    \/ /\ parent = "disposing"
       /\ parent' = "killed"
       /\ UNCHANGED <<exitCode, child, listeners, timers, sigterm,
                      proc, channel, port, asked>>

\* SIGKILL, the out-of-memory killer: no handler of the parent runs.
ParentKilled ==
    /\ Faults
    /\ ParentLives
    /\ parent' = "killed"
    /\ UNCHANGED <<exitCode, child, listeners, timers, sigterm,
                   proc, channel, port, asked>>

\* Mutant of ReceiveHandshake: nothing watches the exit of the child.
ReceiveHandshakeUnwatched(i) ==
    /\ ParentLives
    /\ listeners[i] = "handshake"
    /\ channel[i] = "hello"
    /\ channel' = [channel EXCEPT ![i] = "args"]
    /\ listeners' = [listeners EXCEPT ![i] = "none"]
    /\ timers' = timers \ {i}
    /\ UNCHANGED <<parent, exitCode, child, proc, sigterm, port, asked>>

\* The child's message arrives: clean up, send the arguments, watch for exit.
ReceiveHandshake(i) ==
    /\ ParentLives
    /\ listeners[i] = "handshake"
    /\ channel[i] = "hello"
    /\ channel' = [channel EXCEPT ![i] = "args"]
    /\ listeners' = [listeners EXCEPT ![i] = "exit"]
    /\ timers' = timers \ {i}
    /\ UNCHANGED <<parent, exitCode, child, proc, sigterm, port, asked>>

\* The timer of onMessage fires, whether or not its listeners are still there:
\* start or relaunch rejects and the parent exits.
HandshakeTimeout(i) ==
    /\ ParentLives
    /\ i \in timers
    /\ ExitWith(1)

\* Mutant of SeesExit: a failed handshake ends the parent with 0.
SeesExitHidesFailure(i) ==
    /\ ParentLives
    /\ proc[i] \in Gone
    /\ listeners[i] \in {"handshake", "exit"}
    /\ ExitWith(0)

\* The "exit" event of a child the parent listens to.
SeesExit(i) ==
    /\ ParentLives
    /\ proc[i] \in Gone
    /\ \/ listeners[i] = "handshake" /\ ExitWith(1)
       \/ listeners[i] = "exit" /\ ExitWith(IF proc[i] = "exit 1" THEN 1 ELSE 0)
       \/ /\ listeners[i] = "dispose"
          /\ parent = "disposing"
          /\ i = child
          /\ ExitWith(0)

\* Disposal took five seconds.
DisposeTimeout ==
    /\ parent = "disposing"
    /\ ExitWith(0)

-----------------------------------------------------------------------------
(* The children.                                                           *)

\* Child i goes to state s. A child that ends takes no more signals, and its
\* port is free once it closes its server or ends.
Becomes(i, s) ==
    /\ proc' = [proc EXCEPT ![i] = s]
    /\ port' = IF port = i /\ s \notin {"listening", "serving"}
               THEN NoChild ELSE port

Ends(i, s) == Becomes(i, s) /\ sigterm' = sigterm \ {i}

\* The module wrapper.ts is loaded, its signal handlers and its poll are
\* installed, and the handshake goes out.
Boot(i) ==
    /\ proc[i] = "booting"
    /\ i \notin sigterm
    /\ Becomes(i, "handshaking")
    /\ channel' = [channel EXCEPT ![i] = "hello"]
    /\ UNCHANGED <<parentVars, sigterm, asked>>

\* The child's own onMessage times out.
HandshakeRejects(i) ==
    /\ proc[i] = "handshaking"
    /\ Ends(i, "exit 1")
    /\ UNCHANGED <<parentVars, channel, asked>>

\* The arguments arrive: runCodeServer begins.
GetArgs(i) ==
    /\ proc[i] = "handshaking"
    /\ channel[i] = "args"
    /\ Becomes(i, "starting")
    /\ channel' = [channel EXCEPT ![i] = "empty"]
    /\ UNCHANGED <<parentVars, sigterm, asked>>

\* createApp listens, or fails because another child holds the port.
Listen(i) ==
    /\ proc[i] = "starting"
    /\ IF port = NoChild
       THEN /\ proc' = [proc EXCEPT ![i] = "listening"]
            /\ port' = i
            /\ UNCHANGED sigterm
       ELSE Ends(i, "exit 1")
    /\ UNCHANGED <<parentVars, channel, asked>>

\* runCodeServer resolves and its dispose is registered with the wrapper.
Serve(i) ==
    /\ proc[i] = "listening"
    /\ Becomes(i, "serving")
    /\ UNCHANGED <<parentVars, sigterm, channel, asked>>

(***************************************************************************)
(* _onDispose of the child. Before the server's dispose is registered only *)
(* the exit is left to do; a serving child closes its server first; one    *)
(* that is disposing already finishes, since the new round waits for       *)
(* nothing but the old one.                                                *)
(***************************************************************************)
Dispose(i, again) ==
    \/ /\ proc[i] \in NotYetServing
       /\ Ends(i, "exit 0")
    \/ /\ proc[i] = "serving"
       /\ Becomes(i, "disposing")
       /\ sigterm' = sigterm \ {i}
    \/ /\ proc[i] = "disposing"
       /\ Ends(i, again)

\* The signal is delivered. Without a handler, before boot or once disposing
\* has removed them, it kills.
TakeSigterm(i) ==
    /\ i \in sigterm
    /\ \/ proc[i] = "booting" /\ Ends(i, "signalled")
       \/ Dispose(i, "signalled")
    /\ UNCHANGED <<parentVars, channel, asked>>

\* Mutant of ParentPoll: the interval is cleared once the child serves.
ParentPollUntilServing(i) ==
    /\ ~ParentLives
    /\ proc[i] \in NotYetServing
    /\ Ends(i, "exit 0")
    /\ UNCHANGED <<parentVars, channel, asked>>

\* Every five seconds the child checks that the parent is there.
ParentPoll(i) ==
    /\ ~ParentLives
    /\ Dispose(i, "exit 0")
    /\ UNCHANGED <<parentVars, channel, asked>>

\* Mutant of DisposeDone: without the five-second timer, a connection left
\* open holds the exit up as long as the parent lives.
DisposeWaits(i) ==
    /\ proc[i] = "disposing"
    /\ ~ParentLives
    /\ Ends(i, "exit 0")
    /\ UNCHANGED <<parentVars, channel, asked>>

\* The server has closed, or five seconds have passed.
DisposeDone(i) ==
    /\ proc[i] = "disposing"
    /\ Ends(i, "exit 0")
    /\ UNCHANGED <<parentVars, channel, asked>>

\* A child ends on its own: idle shutdown (0), an error or a fork that failed
\* (1), or a signal that cannot be handled.
ChildDies(i) ==
    /\ Faults
    /\ Alive(i)
    /\ \E s \in Gone : Ends(i, s)
    /\ UNCHANGED <<parentVars, channel, asked>>

\* Someone else signals the child: Ctrl-C reaches the whole process group.
ExternalSignal(i) ==
    /\ Faults
    /\ Alive(i)
    /\ sigterm' = sigterm \cup {i}
    /\ UNCHANGED <<parentVars, proc, channel, port, asked>>

\* ChildProcess.relaunch: the parent has no listener for the message, since
\* nothing emits _onChildMessage after the handshake.
AskRelaunch(i) ==
    /\ ChildMayAsk
    /\ proc[i] = "serving"
    /\ asked' = asked \cup {i}
    /\ UNCHANGED <<parentVars, proc, sigterm, channel, port>>

-----------------------------------------------------------------------------

ParentStep ==
    \/ EntryReturns \/ Start \/ HotswapBeforeStart \/ Hotswap
    \/ Terminate \/ ParentKilled \/ DisposeTimeout
    \/ \E i \in Children : \/ ReceiveHandshake(i)
                           \/ HandshakeTimeout(i)
                           \/ SeesExit(i)

ChildStep(i) ==
    \/ Boot(i) \/ HandshakeRejects(i) \/ GetArgs(i) \/ Listen(i) \/ Serve(i)
    \/ TakeSigterm(i) \/ ParentPoll(i) \/ DisposeDone(i)
    \/ ChildDies(i) \/ ExternalSignal(i) \/ AskRelaunch(i)

Next == ParentStep \/ \E i \in Children : ChildStep(i)

(***************************************************************************)
(* Event loops run what is ready, timers fire and signals arrive. Nothing  *)
(* is assumed of the person who signals the parent, of faults, or of the   *)
(* command line reaching start.                                            *)
(***************************************************************************)
Fairness ==
    /\ WF_vars(DisposeTimeout)
    /\ \A i \in Children :
        /\ WF_vars(ReceiveHandshake(i))
        /\ WF_vars(HandshakeTimeout(i))
        /\ WF_vars(SeesExit(i))
        /\ WF_vars(Boot(i))
        /\ WF_vars(GetArgs(i) \/ HandshakeRejects(i))
        /\ WF_vars(Listen(i))
        /\ WF_vars(Serve(i))
        /\ WF_vars(TakeSigterm(i))
        /\ WF_vars(ParentPoll(i))
        /\ WF_vars(DisposeDone(i))

Spec == Init /\ [][Next]_vars /\ Fairness

-----------------------------------------------------------------------------
(* Safety.                                                                 *)

\* A child that has been told to end, by a signal still on its way or by the
\* disposal it is in.
Told(i) == i \in sigterm \/ proc[i] = "disposing"

\* No stray child: a child that a hot-swap has replaced, or that a parent in
\* disposal or after its exit has left behind, is dead or has been told to
\* end. This is what disposeChild is for on each of its three paths.
NoStrayChild ==
    \A i \in LiveChildren :
        i # child \/ parent \in {"disposing", "exited"} => Told(i)

\* The parent listens to the exit or the handshake of the current child only,
\* so the end of a child it replaced is never taken for the end of the server.
OneChildHeard ==
    \A i \in Children : listeners[i] \in {"handshake", "exit"} => i = child

\* While the parent runs, no child can end or hang unnoticed: the current one
\* is either in its handshake with the timer armed, or past it and watched,
\* and once it may be serving it is the exit that is watched.
WatchedWhileRunning ==
    parent = "running" =>
        \/ listeners[child] = "handshake" /\ child \in timers
        \/ listeners[child] = "exit"

\* A running parent exits with code 0 only if the child in charge ended with
\* 0 or by a signal, after its handshake: a child that fails to start or that
\* ends with 1 makes the parent fail too, and a supervisor that restarts on
\* failure restarts the server.
FailureIsReported ==
    [][ parent = "running" /\ parent' = "exited" /\ exitCode' = 0
        => listeners[child] = "exit" /\ proc[child] \in {"exit 0", "signalled"} ]_vars

\* A running parent whose child lives does not exit, however many children it
\* has replaced and however they end; the one exception is a handshake timer
\* (see MCProcessWrapper for the timer of a child that was replaced).
HealthyChildKeepsParent ==
    [][ parent = "running" /\ parent' = "exited" /\ Alive(child)
        => timers # {} ]_vars

-----------------------------------------------------------------------------
(* Liveness.                                                               *)

\* However the parent ends, no child outlives it for ever.
NoOrphans == ~ParentLives ~> LiveChildren = {}

\* A running parent notices that its child has ended: it ends too, or a
\* hot-swap has replaced the child.
ChildEndIsNoticed ==
    \A i \in Children :
        (parent = "running" /\ child = i /\ ~Alive(i))
            ~> (parent # "running" \/ child # i)

-----------------------------------------------------------------------------
(* Refinement.                                                             *)

InChargeNow == IF parent = "running" /\ Alive(child) THEN child ELSE NoChild

S == INSTANCE Supervisor WITH
        up <- parent \in {"parsing", "running"},
        seen <- {i \in Children : i <= child},
        current <- InChargeNow,
        leaving <- LiveChildren \ {InChargeNow}

\* Every step of the wrapper is a step of the supervisor or none: children are
\* only ever launched, lost, given up and seen off.
StepsAsSupervisor == S!Init /\ [][S!Next]_(S!vars)

\* The wrapper keeps the supervisor's whole promise: what is given up does go,
\* and a server without a child in charge stops or gets a new one.
ImplementsSupervisor == S!Spec
=============================================================================
