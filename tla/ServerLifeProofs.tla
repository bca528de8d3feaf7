--------------------------- MODULE ServerLifeProofs ---------------------------
(* Proofs of the safety properties of ServerLife, for any number of         *)
(* requests, connections and processes.                                     *)
EXTENDS ServerLife, TLAPS

USE DEF Server, Boots, Key, NoSockets, NoCleanup

-----------------------------------------------------------------------------
(* Type correctness.                                                        *)

\* The initial state has the types of TypeOK.
LEMMA InitTypeOK == Init => TypeOK
<1> SUFFICES ASSUME Init PROVE TypeOK
    OBVIOUS
<1>1. EditorTypeOK
    <2>1. /\ load = [r \in Requests |-> "none"] /\ stage = [r \in Requests |-> "none"]
          /\ awaits = [r \in Requests |-> None]
          /\ vscodeServer = None /\ vscodeServerPromise = None
        BY DEF Init, EditorInit, Fresh
    <2>2. /\ boot = 1 /\ mint = "none" /\ key = Blank /\ keyFile = Absent
          /\ answered = {} /\ fault = FALSE
        BY DEF Init, EditorInit, Fresh
    <2>3. boot \in Boots
        BY <2>2, KeyAssumption
    <2> QED BY <2>1, <2>2, <2>3 DEF EditorTypeOK
<1>2. /\ sockets = [s \in Server |-> {}] /\ cleanup = [s \in Server |-> FALSE]
      /\ phase = "serving" /\ listens \in BOOLEAN /\ disposals = 0
    BY DEF Init
<1> QED BY <1>1, <1>2 DEF TypeOK, Users

\* Every step keeps the types of TypeOK: of the editor's part,
LEMMA EditorSteps ==
    ASSUME EditorTypeOK,
           \E r \in Requests : \/ Ensure(r) \/ LoadEnds(r) \/ Resume(r)
                               \/ EditorAnswers(r) \/ MintKey(r) \/ TakeKey(r)
    PROVE  EditorTypeOK'
<1> PICK r \in Requests : \/ Ensure(r) \/ LoadEnds(r) \/ Resume(r)
                          \/ EditorAnswers(r) \/ MintKey(r) \/ TakeKey(r)
    OBVIOUS
<1> USE RequestsAssumption, KeyAssumption DEF EditorTypeOK, loadVars, mintVars
<1>1. CASE Ensure(r)
    BY <1>1 DEF Ensure, Hand, Load, Await
<1>2. CASE LoadEnds(r)
    BY <1>2 DEF LoadEnds
<1>3. CASE Resume(r)
    BY <1>3 DEF Resume, Resuming, Hand
<1>4. CASE EditorAnswers(r)
    BY <1>4 DEF EditorAnswers
<1>5. CASE MintKey(r)
    BY <1>5 DEF MintKey
<1>6. CASE TakeKey(r)
    BY <1>6 DEF TakeKey
<1> QED BY <1>1, <1>2, <1>3, <1>4, <1>5, <1>6

\* of the key's file, and of a new process,
LEMMA KeySteps ==
    ASSUME EditorTypeOK,
           ReadKey \/ WriteFails \/ CreateKey \/ WriteKey \/ EditorRestart
    PROVE  EditorTypeOK'
<1> USE RequestsAssumption, KeyAssumption DEF EditorTypeOK, loadVars, mintVars
<1>1. CASE ReadKey
    BY <1>1 DEF ReadKey
<1>2. CASE WriteFails \/ CreateKey \/ WriteKey
    BY <1>2 DEF WriteFails, CreateKey, WriteKey
<1>3. CASE EditorRestart
    BY <1>3 DEF EditorRestart, Fresh
<1> QED BY <1>1, <1>2, <1>3

\* and of the sockets and the process.
LEMMA NextTypeOK == TypeOK /\ [Next]_vars => TypeOK'
<1> SUFFICES ASSUME TypeOK, [Next]_vars PROVE TypeOK'
    OBVIOUS
<1> USE DEF TypeOK
<1>1. ASSUME UNCHANGED editorVars PROVE EditorTypeOK'
    BY <1>1 DEF editorVars, EditorTypeOK, loadVars, mintVars
<1>2. ASSUME EditorTypeOK', UNCHANGED lifeVars PROVE TypeOK'
    BY <1>2 DEF lifeVars, Users
<1>3. CASE Microtask \/ Works \/ \E r \in Requests : Arrives(r) \/ Answers(r)
    BY <1>2, <1>3, EditorSteps, KeySteps DEF Microtask, Works, Arrives, Answers
<1>4. CASE \E s \in Server : Cleanup(s) \/ \E c \in Users(s) : Connect(s, c) \/ Close(s, c)
    <2>1. PICK s \in Server :
              Cleanup(s) \/ \E c \in Users(s) : Connect(s, c) \/ Close(s, c)
        BY <1>4
    <2>2. UNCHANGED <<editorVars, phase, listens, disposals>>
        BY <2>1 DEF Cleanup, Connect, Close
    <2>3. CASE Cleanup(s)
        BY <1>1, <2>2, <2>3 DEF Cleanup
    <2>4. CASE \E c \in Users(s) : Connect(s, c)
        BY <1>1, <2>2, <2>4 DEF Connect, Users
    <2>5. CASE \E c \in Users(s) : Close(s, c)
        <3>1. cleanup' \in [Server -> BOOLEAN]
            BY <2>5 DEF Close
        <3>2. /\ sockets' \in [Server -> SUBSET (Requests \cup Peers)]
              /\ \A t \in Server : sockets'[t] \subseteq Users(t)
            BY <2>5 DEF Close
        <3> QED BY <1>1, <2>2, <3>1, <3>2
    <2> QED BY <2>1, <2>3, <2>4, <2>5
<1>5. CASE Terminate \/ ParentPoll
    <2>1. Emit
        BY <1>5 DEF Terminate, ParentPoll
    <2>2. cleanup' \in [Server -> BOOLEAN]
        BY <2>1 DEF Emit
    <2> QED BY <1>1, <2>1, <2>2 DEF Emit, Users
<1>6. CASE Exit \/ BackupExit \/ ProcessDies
    <2>1. Gone
        BY <1>6 DEF Exit, BackupExit, ProcessDies
    <2> QED BY <1>1, <2>1 DEF Gone, Users
<1>7. CASE Restart
    BY <1>7, KeySteps DEF Restart
<1>8. CASE UNCHANGED vars
    BY <1>1, <1>2, <1>8 DEF vars
<1> QED BY <1>3, <1>4, <1>5, <1>6, <1>7, <1>8 DEF Next, Event

\* The state keeps its type, and a request that waits awaits some load.
THEOREM TypeCorrect == Spec => []TypeOK
<1> QED BY InitTypeOK, NextTypeOK, PTL DEF Spec

-----------------------------------------------------------------------------
(* One load at a time. The promise stands for every load that is under way *)
(* or has succeeded; who waits, waits for it, or it has failed and is being *)
(* unset; and until there is a server, somebody waits for it.               *)

LoadInv ==
    /\ vscodeServer # None => /\ vscodeServerPromise = vscodeServer
                              /\ load[vscodeServer] = "loaded"
    /\ vscodeServerPromise # None => load[vscodeServerPromise] # "none"
    /\ \A l \in Requests : load[l] \in {"loading", "loaded"} => vscodeServerPromise = l
    /\ \A r \in Requests : stage[r] = "waiting" =>
          \/ vscodeServerPromise = awaits[r]
          \/ vscodeServerPromise = None /\ load[awaits[r]] = "failed"
    /\ vscodeServerPromise # None /\ vscodeServer = None =>
          \E r \in Requests : stage[r] = "waiting" /\ awaits[r] = vscodeServerPromise

\* A request that is not waiting may change what it is at.
LEMMA LoadInvAside ==
    ASSUME TypeOK, LoadInv, UNCHANGED loadVars, NEW r \in Requests,
           stage[r] # "waiting", NEW to \in {"none", "handed", "keyed"},
           stage' = [stage EXCEPT ![r] = to]
    PROVE  LoadInv'
BY DEF TypeOK, EditorTypeOK, LoadInv, loadVars

\* Every step keeps LoadInv; a request begins to wait for a load under way.
LEMMA NextLoadInv == TypeOK /\ LoadInv /\ [Next]_vars => LoadInv' /\ WaitsForALoad
<1> SUFFICES ASSUME TypeOK, LoadInv, [Next]_vars PROVE LoadInv' /\ WaitsForALoad
    OBVIOUS
<1> USE RequestsAssumption DEF TypeOK, EditorTypeOK
<1>1. ASSUME UNCHANGED <<loadVars, stage>> PROVE LoadInv' /\ WaitsForALoad
    BY <1>1 DEF LoadInv, WaitsForALoad, loadVars
<1>2. ASSUME NEW r \in Requests, Ensure(r), Resuming = {} PROVE LoadInv' /\ WaitsForALoad
    <2>1. CASE vscodeServer # None
        BY <1>2, <2>1, LoadInvAside DEF Ensure, Hand, WaitsForALoad
    <2>2. CASE vscodeServer = None /\ vscodeServerPromise = None
        <3>1. /\ stage' = [stage EXCEPT ![r] = "waiting"]
              /\ awaits' = [awaits EXCEPT ![r] = r]
              /\ load' = [load EXCEPT ![r] = "loading"]
              /\ vscodeServerPromise' = r /\ vscodeServer' = None
            BY <1>2, <2>2 DEF Ensure, Load, Await
        <3>2. \A q \in Requests : stage[q] # "waiting"
            BY <1>2, <2>2 DEF LoadInv, Resuming
        <3> QED BY <2>2, <3>1, <3>2 DEF LoadInv, WaitsForALoad
    <2>3. CASE vscodeServer = None /\ vscodeServerPromise # None
        <3>1. /\ stage' = [stage EXCEPT ![r] = "waiting"]
              /\ awaits' = [awaits EXCEPT ![r] = vscodeServerPromise]
              /\ UNCHANGED <<load, vscodeServerPromise, vscodeServer>>
              /\ stage[r] = "none"
            BY <1>2, <2>3 DEF Ensure, Load, Await
        <3>2. load[vscodeServerPromise] = "loading"
            BY <1>2, <2>3 DEF LoadInv, Resuming
        <3> QED BY <2>3, <3>1, <3>2 DEF LoadInv, WaitsForALoad
    <2> QED BY <2>1, <2>2, <2>3
<1>3. ASSUME NEW r \in Requests, LoadEnds(r) PROVE LoadInv' /\ WaitsForALoad
    <2>1. load[r] = "loading" /\ vscodeServerPromise = r /\ vscodeServer = None
        BY <1>3 DEF LoadEnds, LoadInv
    <2> QED BY <1>3, <2>1 DEF LoadEnds, LoadInv, WaitsForALoad, mintVars
<1>4. ASSUME NEW r \in Requests, Resume(r) PROVE LoadInv' /\ WaitsForALoad
    <2>1. stage[r] = "waiting" /\ load[awaits[r]] \in {"loaded", "failed"}
        BY <1>4 DEF Resume, Resuming
    <2>2. CASE load[awaits[r]] = "loaded"
        <3>1. vscodeServerPromise = awaits[r] /\ awaits[r] # None
            BY <2>1, <2>2 DEF LoadInv
        <3>2. /\ stage' = [stage EXCEPT ![r] = "handed"]
              /\ vscodeServer' = awaits[r]
              /\ awaits' = [awaits EXCEPT ![r] = None]
              /\ UNCHANGED <<vscodeServerPromise, load>>
            BY <1>4, <2>2 DEF Resume, Hand
        <3> QED BY <2>1, <2>2, <3>1, <3>2 DEF LoadInv, WaitsForALoad
    <2>3. CASE load[awaits[r]] = "failed"
        <3>1. /\ stage' = [stage EXCEPT ![r] = "none"]
              /\ vscodeServerPromise' = None
              /\ awaits' = [awaits EXCEPT ![r] = None]
              /\ UNCHANGED <<vscodeServer, load>>
            BY <1>4, <2>3 DEF Resume
        <3>2. vscodeServer = None
            BY <2>1, <2>3 DEF LoadInv
        <3>3. \A l \in Requests : load[l] \notin {"loading", "loaded"}
            BY <2>1, <2>3 DEF LoadInv
        <3>4. \A q \in Requests : stage[q] = "waiting" => load[awaits[q]] = "failed"
            BY <2>1, <2>3 DEF LoadInv
        <3> QED BY <2>1, <3>1, <3>2, <3>3, <3>4 DEF LoadInv, WaitsForALoad
    <2> QED BY <2>1, <2>2, <2>3
<1>5. ASSUME NEW r \in Requests, MintKey(r) \/ TakeKey(r) \/ EditorAnswers(r)
      PROVE  LoadInv' /\ WaitsForALoad
    <2>1. PICK to \in {"none", "keyed"} : stage' = [stage EXCEPT ![r] = to]
        BY <1>5 DEF MintKey, TakeKey, EditorAnswers
    <2>2. stage[r] # "waiting" /\ UNCHANGED loadVars
        BY <1>5 DEF MintKey, TakeKey, EditorAnswers
    <2> QED BY <2>1, <2>2, LoadInvAside DEF WaitsForALoad
<1>6. CASE Restart
    BY <1>6 DEF Restart, EditorRestart, Fresh, LoadInv, WaitsForALoad
<1>7. CASE Microtask
    BY <1>4, <1>7 DEF Microtask
<1>8. CASE Resuming = {} /\ Event /\ ~Restart
    <2>1. CASE \E r \in Requests : Arrives(r) \/ Answers(r)
        BY <1>2, <1>5, <1>8, <2>1 DEF Arrives, Answers
    <2>2. CASE Works
        <3>1. CASE \E r \in Requests : LoadEnds(r) \/ TakeKey(r)
            BY <1>3, <1>5, <3>1
        <3>2. CASE ReadKey \/ WriteFails \/ CreateKey \/ WriteKey
            BY <1>1, <3>2 DEF ReadKey, WriteFails, CreateKey, WriteKey
        <3> QED BY <2>2, <3>1, <3>2 DEF Works
    <2>3. CASE ~Works /\ ~\E r \in Requests : Arrives(r) \/ Answers(r)
        BY <1>1, <1>8, <2>3 DEF Event, Cleanup, Connect, Close, Terminate, ParentPoll,
           Emit, Exit, BackupExit, ProcessDies, Gone, editorVars
    <2> QED BY <2>1, <2>2, <2>3
<1>9. CASE UNCHANGED vars
    BY <1>1, <1>9 DEF vars, editorVars
<1> QED BY <1>6, <1>7, <1>8, <1>9 DEF Next

\* LoadInv holds in every state.
LEMMA LoadInvAlways == Spec => []LoadInv
<1>1. Init => LoadInv
    BY DEF Init, EditorInit, Fresh, LoadInv
<1> QED BY <1>1, NextLoadInv, TypeCorrect, PTL DEF Spec

\* At most one load is under way or has become the server.
THEOREM OneLoadAtATimeTheorem == Spec => []OneLoadAtATime
<1>1. LoadInv => OneLoadAtATime
    BY DEF LoadInv, OneLoadAtATime
<1> QED BY <1>1, LoadInvAlways, PTL

\* Whoever begins to wait waits for a load that is under way.
THEOREM RetriedAfterFailureTheorem == Spec => RetriedAfterFailure
<1> QED BY LoadInvAlways, TypeCorrect, NextLoadInv, PTL DEF Spec, RetriedAfterFailure

-----------------------------------------------------------------------------
(* The key. While nothing has failed, browsers know at most what the file  *)
(* holds, and nobody has been answered before the file is written.         *)

KeyInv ==
    ~fault =>
    /\ answered \subseteq {keyFile}
    /\ mint \in {"creating", "writing"} => answered = {}
    /\ mint = "creating" => keyFile = Absent
    /\ mint = "writing" => keyFile = Blank
    /\ mint = "minted" => key = keyFile

\* Every step keeps KeyInv.
LEMMA NextKeyInv == TypeOK /\ KeyInv /\ [Next]_vars => KeyInv'
<1> SUFFICES ASSUME TypeOK, KeyInv, [Next]_vars PROVE KeyInv'
    OBVIOUS
<1> USE KeyAssumption DEF TypeOK, EditorTypeOK, KeyInv
<1>1. ASSUME UNCHANGED <<mintVars, answered>> PROVE KeyInv'
    BY <1>1 DEF mintVars
<1>2. ASSUME NEW r \in Requests, Arrives(r) PROVE KeyInv'
    <2>1. CASE Ensure(r)
        BY <1>1, <2>1 DEF Ensure
    <2>2. CASE MintKey(r)
        BY <2>2 DEF MintKey
    <2> QED BY <1>2, <2>1, <2>2 DEF Arrives
<1>3. CASE Works
    <2>1. CASE \E r \in Requests : LoadEnds(r) \/ TakeKey(r)
        <3>1. CASE \E r \in Requests : LoadEnds(r)
            BY <1>1, <3>1 DEF LoadEnds
        <3>2. CASE \E r \in Requests : TakeKey(r)
            BY <3>2 DEF TakeKey, mintVars
        <3> QED BY <2>1, <3>1, <3>2
    <2>2. CASE ReadKey
        BY <2>2 DEF ReadKey
    <2>3. CASE WriteFails \/ CreateKey \/ WriteKey
        BY <2>3 DEF WriteFails, CreateKey, WriteKey
    <2> QED BY <1>3, <2>1, <2>2, <2>3 DEF Works
<1>4. CASE Restart
    BY <1>4 DEF Restart, EditorRestart, Fresh
<1>5. CASE Microtask \/ \E r \in Requests : Answers(r)
    BY <1>1, <1>5 DEF Microtask, Resume, Answers, EditorAnswers
<1>6. CASE UNCHANGED editorVars
    BY <1>1, <1>6 DEF editorVars
<1> QED BY <1>2, <1>3, <1>4, <1>5, <1>6 DEF Next, Event, vars, Cleanup, Connect, Close,
        Terminate, ParentPoll, Emit, Exit, BackupExit, ProcessDies, Gone

\* All browsers are given the same key while nothing fails.
THEOREM KeyStaysTheorem == Spec => []KeyStays
<1>1. Init => KeyInv
    BY DEF Init, EditorInit, Fresh, KeyInv
<1>2. KeyInv => KeyStays
    BY DEF KeyInv, KeyStays
<1> QED BY <1>1, <1>2, NextKeyInv, TypeCorrect, PTL DEF Spec

-----------------------------------------------------------------------------
(* Disposal. A server that still has sockets has its timer armed.          *)

CleanupInv == phase = "disposing" => \A s \in Server : sockets[s] # {} => cleanup[s]

\* Every step keeps CleanupInv.
LEMMA NextCleanupInv == TypeOK /\ CleanupInv /\ [Next]_vars => CleanupInv'
<1> SUFFICES ASSUME TypeOK, CleanupInv, [Next]_vars PROVE CleanupInv'
    OBVIOUS
<1> USE DEF TypeOK, CleanupInv
<1>1. CASE UNCHANGED lifeVars
    BY <1>1 DEF lifeVars
<1>2. CASE \E s \in Server : Cleanup(s) \/ \E c \in Users(s) : Connect(s, c) \/ Close(s, c)
    BY <1>2 DEF Cleanup, Connect, Close, Listening
<1>3. CASE Terminate \/ ParentPoll
    BY <1>3 DEF Terminate, ParentPoll, Emit
<1>4. CASE Exit \/ BackupExit \/ ProcessDies \/ Restart
    BY <1>4 DEF Exit, BackupExit, ProcessDies, Gone, Restart
<1> QED BY <1>1, <1>2, <1>3, <1>4
        DEF Next, Event, vars, Microtask, Works, Arrives, Answers

\* With two servers that listen, one disposal ends the process only when no
\* socket is open any more.
THEOREM GraceKeptTheorem == Spec => GraceKept
<1>1. Init => CleanupInv
    BY DEF Init, CleanupInv
<1>2. TypeOK /\ CleanupInv /\ (Exit \/ BackupExit) /\ listens /\ disposals = 1
      => sockets = NoSockets
    BY DEF TypeOK, CleanupInv, Exit, BackupExit, Disposed, Drained
<1>3. TypeOK /\ CleanupInv /\ [Next]_vars
      => [(Exit \/ BackupExit) /\ listens /\ disposals = 1 => sockets = NoSockets]_vars
    BY <1>2
<1> QED BY <1>1, <1>3, NextCleanupInv, TypeCorrect, PTL DEF Spec, GraceKept
=============================================================================
