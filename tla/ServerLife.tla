------------------------------ MODULE ServerLife ------------------------------
(***************************************************************************)
(* A server process from listening to its end: the sockets of the two      *)
(* servers that createApp makes (app.ts), their disposal (disposer in      *)
(* http.ts, dispose in app.ts and main.ts) and the exit behind it          *)
(* (wrapper.ts), with the requests for the editor that are in progress.    *)
(*                                                                         *)
(* Node's own close is external: it stops a server from listening and      *)
(* calls back when the last socket is gone, with an error if the server    *)
(* did not listen any more. A socket that is destroyed is gone at once.    *)
(***************************************************************************)
EXTENDS EditorServer

CONSTANT Peers      \* connections to the session server

Server == {"main", "session"}
Users(s) == IF s = "main" THEN Requests ELSE Peers

VARIABLES
    phase,       \* the process: "serving", "disposing" or "exited"
    listens,     \* the session server could listen
    sockets,     \* the sockets each server's disposer knows
    cleanup,     \* each cleanupTimeout is armed
    disposals    \* emissions of _onDispose; two stand for more

lifeVars == <<phase, listens, sockets, cleanup, disposals>>
vars == <<editorVars, lifeVars>>

TypeOK ==
    /\ EditorTypeOK
    /\ phase \in {"serving", "disposing", "exited"}
    /\ listens \in BOOLEAN
    /\ sockets \in [Server -> SUBSET (Requests \cup Peers)]
    /\ \A s \in Server : sockets[s] \subseteq Users(s)
    /\ cleanup \in [Server -> BOOLEAN]
    /\ disposals \in 0..2

NoSockets == [s \in Server |-> {}]
NoCleanup == [s \in Server |-> FALSE]

\* createApp and register are done. A session server that cannot listen is
\* only warned of.
Init ==
    /\ EditorInit
    /\ phase = "serving"
    /\ listens \in BOOLEAN
    /\ sockets = NoSockets
    /\ cleanup = NoCleanup
    /\ disposals = 0

Listening(s) == phase = "serving" /\ (s = "session" => listens)

-----------------------------------------------------------------------------
(* Connections and requests.                                               *)

Connect(s, c) ==
    /\ Listening(s)
    /\ c \notin sockets[s]
    /\ c \in Requests => stage[c] = "none"
    /\ sockets' = [sockets EXCEPT ![s] = @ \cup {c}]
    /\ UNCHANGED <<editorVars, phase, listens, cleanup, disposals>>

\* A socket closes, by the peer or because its request is answered; with the
\* last one the timer is cleared.
Close(s, c) ==
    /\ phase # "exited"
    /\ c \in sockets[s]
    /\ sockets' = [sockets EXCEPT ![s] = @ \ {c}]
    /\ cleanup' = [cleanup EXCEPT ![s] = @ /\ sockets'[s] # {}]
    /\ UNCHANGED <<editorVars, phase, listens, disposals>>

\* A request comes in over an open socket, also while others are cleared away.
Arrives(r) ==
    /\ phase # "exited"
    /\ r \in sockets["main"]
    /\ Ensure(r) \/ MintKey(r)
    /\ UNCHANGED lifeVars

\* Steps that the process owes a request.
Works ==
    /\ phase # "exited"
    /\ \/ \E r \in Requests : LoadEnds(r) \/ TakeKey(r)
       \/ ReadKey \/ WriteFails \/ CreateKey \/ WriteKey
    /\ UNCHANGED lifeVars

Microtask ==
    /\ phase # "exited"
    /\ \E r \in Requests : Resume(r)
    /\ UNCHANGED lifeVars

Answers(r) ==
    /\ phase # "exited"
    /\ EditorAnswers(r)
    /\ UNCHANGED lifeVars

-----------------------------------------------------------------------------
(* Disposal.                                                               *)

\* Mutant of Emit: the session server's sockets are not looked after.
EmitMainOnly ==
    /\ phase' = "disposing"
    /\ disposals' = IF disposals < 2 THEN disposals + 1 ELSE disposals
    /\ cleanup' = [cleanup EXCEPT !["main"] = sockets["main"] # {}]
    /\ UNCHANGED <<editorVars, listens, sockets>>

\* _onDispose is emitted: both servers are closed, and a server with sockets
\* left is given a second to get rid of them.
Emit ==
    /\ phase' = "disposing"
    /\ disposals' = IF disposals < 2 THEN disposals + 1 ELSE disposals
    /\ cleanup' = [s \in Server |-> cleanup[s] \/ sockets[s] # {}]
    /\ UNCHANGED <<editorVars, listens, sockets>>

\* SIGINT or SIGTERM. A second one meets no handler, which is ProcessDies.
Terminate == phase = "serving" /\ Emit

\* Every five seconds, as long as the parent is found dead.
ParentPoll == phase # "exited" /\ Emit

\* A second after a disposal the sockets that are left are destroyed.
Cleanup(s) ==
    /\ phase # "exited"
    /\ cleanup[s]
    /\ cleanup' = [cleanup EXCEPT ![s] = FALSE]
    /\ sockets' = [sockets EXCEPT ![s] = {}]
    /\ UNCHANGED <<editorVars, phase, listens, disposals>>

Drained(s) == sockets[s] = {}

\* Mutant of Disposed: one server that is closed is enough.
DisposedAny == phase = "disposing" /\ \E s \in Server : Drained(s)

(***************************************************************************)
(* The wait of an emission is over: Promise.all has both servers closed,   *)
(* or one of them rejects and the emitter logs that. A server that did not *)
(* listen when it was closed rejects as soon as it has no sockets: the     *)
(* session server that never did, or any server the second time.           *)
(***************************************************************************)
Disposed ==
    /\ phase = "disposing"
    /\ \/ \A s \in Server : Drained(s)
       \/ ~listens
       \/ disposals = 2 /\ \E s \in Server : Drained(s)

Gone ==
    /\ phase' = "exited"
    /\ sockets' = NoSockets
    /\ cleanup' = NoCleanup
    /\ disposals' = 0
    /\ UNCHANGED <<editorVars, listens>>

\* wait.then(() => this.exit(0))
Exit == Disposed /\ Gone

\* Five seconds after an emission, later than the timers of its disposal.
BackupExit == phase = "disposing" /\ cleanup = NoCleanup /\ Gone

\* The process is killed, crashes or shuts down when idle.
ProcessDies == phase # "exited" /\ Gone

\* It is started again.
Restart ==
    /\ phase = "exited"
    /\ EditorRestart
    /\ phase' = "serving"
    /\ listens' \in BOOLEAN
    /\ UNCHANGED <<sockets, cleanup, disposals>>

Event ==
    \/ \E s \in Server : Cleanup(s) \/ \E c \in Users(s) : Connect(s, c) \/ Close(s, c)
    \/ \E r \in Requests : Arrives(r) \/ Answers(r)
    \/ Works
    \/ Terminate \/ ParentPoll \/ Exit \/ BackupExit \/ ProcessDies \/ Restart

Next == Microtask \/ (Resuming = {} /\ Event)

\* The loads and the file operations end, one way or the other, the event loop
\* goes on and timers fire. BackupExit is left out: nothing needs it.
Fairness ==
    /\ WF_vars(Microtask)
    /\ \A r \in Requests :
          /\ WF_vars(LoadEnds(r) /\ phase # "exited" /\ UNCHANGED lifeVars)
          /\ WF_vars(TakeKey(r) /\ phase # "exited" /\ UNCHANGED lifeVars)
    /\ WF_vars((ReadKey \/ CreateKey \/ WriteKey) /\ phase # "exited"
               /\ UNCHANGED lifeVars)
    /\ \A s \in Server : WF_vars(Cleanup(s))
    /\ WF_vars(Exit)

Spec == Init /\ [][Next]_vars /\ Fairness

-----------------------------------------------------------------------------

\* Whoever waits, waits for a load that is under way; see WaitsForALoad.
RetriedAfterFailure == [][WaitsForALoad]_vars

\* A request for the editor or its key is answered or handed over in the end,
\* however its load ended, unless the process does first
\* (routes/vscode.ts:94-116, 212-242).
InProgress(r) == stage[r] \in {"waiting", "keyed"}
Answered == \A r \in Requests : InProgress(r) ~> ~InProgress(r) \/ phase = "exited"

\* "Give sockets a chance to close up shop": a disposal ends the process only
\* when no socket is open any more, those that do not close by themselves were
\* given their second. It takes two servers that listen and one disposal: the
\* close of a server that does not fails at once, and nobody waits for the
\* other (http.ts:281-293, app.ts:102).
GraceKept ==
    [][ (Exit \/ BackupExit) /\ listens /\ disposals = 1 => sockets = NoSockets ]_vars

\* Disposal ends by itself, without the wrapper's five seconds, whatever the
\* peers of the open sockets do: "or this promise might never resolve"
\* (http.ts:281-293, wrapper.ts:116-125).
DisposalEnds == phase = "disposing" ~> phase = "exited"
=============================================================================
