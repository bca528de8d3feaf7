------------------------ MODULE ProcessWrapperProofs ------------------------
(***************************************************************************)
(* Proofs about ProcessWrapper, for every bound on the children spawned:   *)
(* its type invariant, the three safety invariants, the two action         *)
(* properties and the safety half of the refinement of Supervisor.         *)
(***************************************************************************)
EXTENDS ProcessWrapper, TLAPS

\* Children are forked in the order of their numbers, and a parent that still
\* parses its arguments has none: what the three invariants rest on.
ForkedInOrder ==
    /\ \A i \in Children : proc[i] = "unborn" <=> i > child
    /\ parent = "parsing" => child = NoChild
    /\ parent \in {"running", "disposing"} => child \in Children
    /\ \A i \in timers : i <= child

IndInv ==
    /\ TypeOK
    /\ ForkedInOrder
    /\ NoStrayChild
    /\ OneChildHeard
    /\ WatchedWhileRunning

LEMMA ConstantsType == MaxSpawns \in Nat /\ 1 \in Children /\ NoChild \notin Children
BY SpawnsAssumption DEF Children, NoChild

-----------------------------------------------------------------------------

\* The child that _start forks has a number of its own.
LEMMA NextChild ==
    ASSUME child \in Children \cup {NoChild}, child < MaxSpawns
    PROVE  child + 1 \in Children /\ child # child + 1
BY ConstantsType DEF Children, NoChild

\* Every variable keeps its type.
LEMMA TypeStep == TypeOK /\ [Next]_vars => TypeOK'
<1> SUFFICES ASSUME TypeOK, [Next]_vars PROVE TypeOK'
    OBVIOUS
<1> USE ConstantsType DEF TypeOK, Children, NoChild, Live, Gone, NotYetServing,
                       LiveChildren
<1>1. ASSUME NEW c \in {0, 1}, ExitWith(c) PROVE TypeOK'
    BY <1>1 DEF ExitWith, SignalChild
<1>2. CASE EntryReturns
    BY <1>1, <1>2 DEF EntryReturns
<1>3. CASE Start
    <2>1. child + 1 \in Children
        BY <1>3, NextChild DEF Start, Spawn
    <2> HIDE DEF Children
    <2> QED
        BY <1>3, <2>1 DEF Start, Spawn
<1>4. CASE HotswapBeforeStart
    BY <1>4 DEF HotswapBeforeStart
<1>5. CASE Hotswap
    <2>1. child + 1 \in Children
        BY <1>5, NextChild DEF Hotswap, Spawn
    <2> HIDE DEF Children
    <2> QED
        BY <1>5, <2>1 DEF Hotswap, Spawn, SignalChild
<1>6. CASE Terminate
    BY <1>1, <1>6 DEF Terminate, SignalChild
<1>7. CASE ParentKilled
    BY <1>7 DEF ParentKilled
<1>8. CASE DisposeTimeout
    BY <1>1, <1>8 DEF DisposeTimeout
<1>9. ASSUME NEW i \in Children, ReceiveHandshake(i) PROVE TypeOK'
    BY <1>9 DEF ReceiveHandshake
<1>10. ASSUME NEW i \in Children, HandshakeTimeout(i) PROVE TypeOK'
    BY <1>1, <1>10 DEF HandshakeTimeout
<1>11. ASSUME NEW i \in Children, SeesExit(i) PROVE TypeOK'
    BY <1>1, <1>11 DEF SeesExit
<1>12. ASSUME NEW i \in Children, ChildStep(i) PROVE TypeOK'
    <2> USE DEF Becomes, Ends, parentVars
    <2>1. CASE Boot(i)
        BY <2>1 DEF Boot
    <2>2. CASE HandshakeRejects(i)
        BY <2>2 DEF HandshakeRejects
    <2>3. CASE GetArgs(i)
        BY <2>3 DEF GetArgs
    <2>4. CASE Listen(i)
        BY <2>4 DEF Listen
    <2>5. CASE Serve(i)
        BY <2>5 DEF Serve
    <2>6. CASE TakeSigterm(i)
        BY <2>6 DEF TakeSigterm, Dispose
    <2>7. CASE ParentPoll(i)
        BY <2>7 DEF ParentPoll, Dispose
    <2>8. CASE DisposeDone(i)
        BY <2>8 DEF DisposeDone
    <2>9. CASE ChildDies(i)
        <3>1. PICK s \in Gone : Ends(i, s)
            BY <2>9 DEF ChildDies
        <3> QED
            BY <2>9, <3>1 DEF ChildDies
    <2>10. CASE ExternalSignal(i)
        BY <2>10 DEF ExternalSignal
    <2>11. CASE AskRelaunch(i)
        BY <2>11 DEF AskRelaunch
    <2> QED
        BY <1>12, <2>1, <2>2, <2>3, <2>4, <2>5, <2>6, <2>7, <2>8, <2>9,
           <2>10, <2>11 DEF ChildStep
<1>13. CASE UNCHANGED vars
    BY <1>13 DEF vars
<1> QED
    BY <1>2, <1>3, <1>4, <1>5, <1>6, <1>7, <1>8, <1>9, <1>10, <1>11, <1>12,
       <1>13 DEF Next, ParentStep
-----------------------------------------------------------------------------

\* What one step of a child leaves alone: the parent, the other children, and,
\* of the child itself, being forked. A child told to end stays told.
LEMMA ChildStepEffect ==
    ASSUME TypeOK, NEW i \in Children, ChildStep(i)
    PROVE  /\ UNCHANGED parentVars
           /\ Alive(i)
           /\ proc'[i] \in Live \cup Gone
           /\ \A j \in Children \ {i} :
                /\ proc'[j] = proc[j]
                /\ j \in sigterm' <=> j \in sigterm
           /\ Told(i) /\ Alive(i)' => Told(i)'
<1> USE DEF TypeOK, Becomes, Ends, Alive, LiveChildren, Told, Live, Gone,
            NotYetServing, parentVars
<1>1. CASE Boot(i)
    BY <1>1 DEF Boot
<1>2. CASE HandshakeRejects(i)
    BY <1>2 DEF HandshakeRejects
<1>3. CASE GetArgs(i)
    BY <1>3 DEF GetArgs
<1>4. CASE Listen(i)
    BY <1>4 DEF Listen
<1>5. CASE Serve(i)
    BY <1>5 DEF Serve
<1>6. CASE TakeSigterm(i)
    BY <1>6 DEF TakeSigterm, Dispose
<1>7. CASE ParentPoll(i)
    BY <1>7 DEF ParentPoll, Dispose
<1>8. CASE DisposeDone(i)
    BY <1>8 DEF DisposeDone
<1>9. CASE ChildDies(i)
    BY <1>9 DEF ChildDies
<1>10. CASE ExternalSignal(i)
    BY <1>10 DEF ExternalSignal
<1>11. CASE AskRelaunch(i)
    BY <1>11 DEF AskRelaunch
<1> QED
    BY <1>1, <1>2, <1>3, <1>4, <1>5, <1>6, <1>7, <1>8, <1>9, <1>10, <1>11
       DEF ChildStep

\* The exit of the parent keeps the invariant: it listens to nothing any more,
\* and the child in charge, if it lives, has been told.
LEMMA ExitStep ==
    ASSUME IndInv, NEW c, ExitWith(c)
    PROVE  ForkedInOrder' /\ NoStrayChild' /\ OneChildHeard' /\ WatchedWhileRunning'
<1> USE DEF IndInv, ExitWith
<1>1. ForkedInOrder'
    BY DEF ForkedInOrder
<1>2. NoStrayChild'
    BY DEF NoStrayChild, SignalChild, LiveChildren, Told
<1>3. OneChildHeard' /\ WatchedWhileRunning'
    BY DEF OneChildHeard, WatchedWhileRunning
<1> QED
    BY <1>1, <1>2, <1>3

\* IndInv is inductive.
LEMMA IndInvStep == IndInv /\ [Next]_vars => IndInv'
<1> SUFFICES ASSUME IndInv, [Next]_vars PROVE IndInv'
    OBVIOUS
<1>0. TypeOK /\ TypeOK'
    BY TypeStep DEF IndInv
<1> DEFINE Rest == ForkedInOrder /\ NoStrayChild /\ OneChildHeard /\ WatchedWhileRunning
<1> SUFFICES Rest'
    BY <1>0 DEF IndInv
<1>1. CASE EntryReturns
    BY <1>1, ExitStep DEF EntryReturns
<1>2. CASE Start
    <2>1. child = NoChild /\ child + 1 = 1 /\ child' = 1 /\ child # 1
        BY <1>2, <1>0, ConstantsType DEF Start, Spawn, IndInv, ForkedInOrder, NoChild
    <2> USE <1>0, <1>2, <2>1, ConstantsType DEF Start, Spawn, IndInv, TypeOK
    <2>2. ForkedInOrder'
        BY DEF ForkedInOrder, Children, NoChild
    <2>3. NoStrayChild'
        BY DEF NoStrayChild, ForkedInOrder, LiveChildren, Told, Live,
               NotYetServing, Children, NoChild
    <2>4. OneChildHeard' /\ WatchedWhileRunning'
        BY DEF OneChildHeard, WatchedWhileRunning
    <2> QED
        BY <2>2, <2>3, <2>4
<1>3. CASE HotswapBeforeStart
    <2> USE <1>0, <1>3, ConstantsType DEF HotswapBeforeStart, IndInv, TypeOK
    <2>1. ForkedInOrder'
        BY DEF ForkedInOrder, Children, NoChild
    <2>2. NoStrayChild'
        BY DEF NoStrayChild, ForkedInOrder, LiveChildren, Told, Live,
               NotYetServing, Children, NoChild
    <2>3. OneChildHeard' /\ WatchedWhileRunning'
        BY DEF OneChildHeard, WatchedWhileRunning, ForkedInOrder
    <2> QED
        BY <2>1, <2>2, <2>3
<1>4. CASE Hotswap
    <2>1. child + 1 \in Children /\ child' = child + 1 /\ child # child + 1
        BY <1>4, <1>0, NextChild DEF Hotswap, Spawn, TypeOK
    <2> USE <1>0, <1>4, <2>1 DEF Hotswap, Spawn, IndInv, TypeOK
    <2>2. ForkedInOrder'
        BY ConstantsType DEF ForkedInOrder, Children, NoChild
    <2>3. NoStrayChild'
        BY DEF NoStrayChild, SignalChild, ForkedInOrder, LiveChildren, Told,
               Live, NotYetServing
    <2>4. OneChildHeard' /\ WatchedWhileRunning'
        BY DEF OneChildHeard, WatchedWhileRunning, ForkedInOrder
    <2> QED
        BY <2>2, <2>3, <2>4
<1>5. CASE Terminate
    <2>1. CASE parent = "parsing" /\ ExitWith(0)
        BY <2>1, ExitStep
    <2>2. CASE parent = "running" /\ parent' = "disposing"
        <3> USE <1>0, <1>5, <2>2 DEF Terminate, ExitWith, IndInv, TypeOK
        <3>1. ForkedInOrder'
            BY DEF ForkedInOrder
        <3>2. NoStrayChild'
            BY DEF NoStrayChild, SignalChild, LiveChildren, Told
        <3>3. OneChildHeard' /\ WatchedWhileRunning'
            BY DEF OneChildHeard, WatchedWhileRunning
        <3> QED
            BY <3>1, <3>2, <3>3
    <2>3. CASE parent' = "killed" /\ UNCHANGED <<child, listeners, timers, sigterm, proc>>
        BY <2>3 DEF IndInv, ForkedInOrder, NoStrayChild, OneChildHeard,
                    WatchedWhileRunning, LiveChildren, Told
    <2> QED
        BY <1>5, <2>1, <2>2, <2>3 DEF Terminate
<1>6. CASE ParentKilled
    BY <1>6 DEF ParentKilled, IndInv, ForkedInOrder, NoStrayChild,
                OneChildHeard, WatchedWhileRunning, LiveChildren, Told
<1>7. CASE DisposeTimeout
    BY <1>7, ExitStep DEF DisposeTimeout
<1>8. ASSUME NEW i \in Children, ReceiveHandshake(i) PROVE Rest'
    <2> USE <1>0, <1>8 DEF ReceiveHandshake, IndInv, TypeOK
    <2>1. ForkedInOrder'
        BY DEF ForkedInOrder
    <2>2. NoStrayChild'
        BY DEF NoStrayChild, LiveChildren, Told
    <2>3. OneChildHeard' /\ WatchedWhileRunning'
        BY DEF OneChildHeard, WatchedWhileRunning
    <2> QED
        BY <2>1, <2>2, <2>3
<1>9. ASSUME NEW i \in Children, HandshakeTimeout(i) \/ SeesExit(i) PROVE Rest'
    BY <1>9, ExitStep DEF HandshakeTimeout, SeesExit
<1>10. ASSUME NEW i \in Children, ChildStep(i) PROVE Rest'
    <2> USE <1>0, ChildStepEffect, <1>10 DEF IndInv, parentVars, Alive
    <2>1. ForkedInOrder'
        BY DEF ForkedInOrder, LiveChildren, Live, Gone, NotYetServing
    <2>2. NoStrayChild'
        BY DEF NoStrayChild, LiveChildren, Told
    <2>3. OneChildHeard' /\ WatchedWhileRunning'
        BY DEF OneChildHeard, WatchedWhileRunning
    <2> QED
        BY <2>1, <2>2, <2>3
<1>11. CASE UNCHANGED vars
    BY <1>11 DEF vars, IndInv, ForkedInOrder, NoStrayChild, OneChildHeard,
                 WatchedWhileRunning, LiveChildren, Told
<1> QED
    BY <1>1, <1>2, <1>3, <1>4, <1>5, <1>6, <1>7, <1>8, <1>9, <1>10, <1>11
       DEF Next, ParentStep
-----------------------------------------------------------------------------

LEMMA InitIndInv == Init => IndInv
<1> SUFFICES ASSUME Init PROVE IndInv
    OBVIOUS
<1> USE ConstantsType DEF Init
<1>1. TypeOK
    BY DEF TypeOK, Children, NoChild
<1>2. ForkedInOrder
    BY DEF ForkedInOrder, Children, NoChild
<1>3. NoStrayChild /\ OneChildHeard /\ WatchedWhileRunning
    BY DEF NoStrayChild, OneChildHeard, WatchedWhileRunning, LiveChildren,
           Live, NotYetServing
<1> QED
    BY <1>1, <1>2, <1>3 DEF IndInv

LEMMA Invariance == Spec => []IndInv
BY InitIndInv, IndInvStep, PTL DEF Spec

\* Every variable of the wrapper keeps its type.
THEOREM TypeCorrect == Spec => []TypeOK
BY Invariance, PTL DEF IndInv

\* However many hot-swaps: a child that was replaced, or left behind by a
\* disposing or exited parent, is dead or has been told to end.
THEOREM NoStrayChildTheorem == Spec => []NoStrayChild
BY Invariance, PTL DEF IndInv

\* The parent never takes the end of a replaced child for that of the server.
THEOREM OneChildHeardTheorem == Spec => []OneChildHeard
BY Invariance, PTL DEF IndInv

\* A running parent never stops watching its child.
THEOREM WatchedTheorem == Spec => []WatchedWhileRunning
BY Invariance, PTL DEF IndInv

-----------------------------------------------------------------------------

\* The steps with which a running parent exits, and what it knows then.
LEMMA RunningExit ==
    ASSUME IndInv, [Next]_vars, parent = "running", parent' = "exited"
    PROVE  /\ timers = {} => proc[child] \in Gone
           /\ \/ exitCode' # 0
              \/ listeners[child] = "exit" /\ proc[child] \in {"exit 0", "signalled"}
<1>1. ASSUME NEW i \in Children, HandshakeTimeout(i)
      PROVE  timers # {} /\ exitCode' # 0
    BY <1>1 DEF HandshakeTimeout, ExitWith
<1>2. ASSUME NEW i \in Children, SeesExit(i)
      PROVE  /\ proc[child] \in Gone
             /\ \/ exitCode' # 0
                \/ listeners[child] = "exit" /\ proc[child] \in {"exit 0", "signalled"}
    <2>1. i = child
        BY <1>2 DEF SeesExit, IndInv, OneChildHeard
    <2>2. proc[child] \in Gone
        BY <1>2, <2>1 DEF SeesExit
    <2>3. CASE ExitWith(1)
        BY <2>2, <2>3 DEF ExitWith
    <2>4. CASE listeners[i] = "exit" /\ proc[i] # "exit 1"
        BY <2>1, <2>2, <2>4 DEF Gone
    <2>5. ExitWith(1) \/ (listeners[i] = "exit" /\ proc[i] # "exit 1")
        BY <1>2 DEF SeesExit
    <2> QED
        BY <2>3, <2>4, <2>5
<1>3. ~EntryReturns /\ ~Start /\ ~HotswapBeforeStart /\ ~Hotswap
      /\ ~Terminate /\ ~ParentKilled /\ ~DisposeTimeout
    BY DEF EntryReturns, Start, HotswapBeforeStart, Hotswap, Terminate,
           ParentKilled, DisposeTimeout, ExitWith
<1>4. \A i \in Children : ~ReceiveHandshake(i)
    BY DEF ReceiveHandshake
<1>5. \A i \in Children : ~ChildStep(i)
    BY ChildStepEffect DEF IndInv, parentVars
<1>6. ~UNCHANGED vars
    BY DEF vars
<1> QED
    BY <1>1, <1>2, <1>3, <1>4, <1>5, <1>6 DEF Next, ParentStep

\* A running parent reports 0 only for a child past its handshake that ended
\* with 0 or by a signal.
THEOREM FailureIsReportedTheorem == Spec => FailureIsReported
<1>1. IndInv /\ [Next]_vars =>
        [ parent = "running" /\ parent' = "exited" /\ exitCode' = 0
          => listeners[child] = "exit" /\ proc[child] \in {"exit 0", "signalled"} ]_vars
    <2> SUFFICES ASSUME IndInv, [Next]_vars, parent = "running",
                        parent' = "exited", exitCode' = 0
                 PROVE  listeners[child] = "exit" /\ proc[child] \in {"exit 0", "signalled"}
        OBVIOUS
    <2> QED
        BY RunningExit
<1> QED
    BY <1>1, Invariance, PTL DEF Spec, FailureIsReported

\* Of a child that lives, only a handshake timer takes the running parent away.
THEOREM HealthyChildKeepsParentTheorem == Spec => HealthyChildKeepsParent
<1>1. IndInv /\ [Next]_vars =>
        [ parent = "running" /\ parent' = "exited" /\ Alive(child)
          => timers # {} ]_vars
    BY RunningExit DEF Gone, Alive, LiveChildren, Live, NotYetServing
<1> QED
    BY <1>1, Invariance, PTL DEF Spec, HealthyChildKeepsParent
-----------------------------------------------------------------------------
(* The refinement. A step of a child, an exit of the parent and a fork are *)
(* mapped one by one; what is left does not touch the abstract state.      *)

\* A number that is no child's is in charge of nothing.
LEMMA InChargeType ==
    /\ InChargeNow \in {NoChild, child}
    /\ InChargeNow # NoChild <=> parent = "running" /\ Alive(child)
BY ConstantsType DEF InChargeNow, Alive, LiveChildren

\* The end of a child is a loss or a departure; its other steps do not show.
LEMMA ChildStepMaps ==
    ASSUME IndInv, NEW i \in Children, ChildStep(i)
    PROVE  [S!Next]_(S!vars)
<1> USE ChildStepEffect, ConstantsType
        DEF IndInv, InChargeNow, Alive, LiveChildren, parentVars, S!vars
<1>1. CASE Alive(i)'
    <2>1. LiveChildren' = LiveChildren
        BY <1>1 DEF Live, Gone, NotYetServing
    <2> QED
        BY <2>1
<1>2. CASE ~Alive(i)' /\ parent = "running" /\ i = child
    <2>1. LiveChildren' = LiveChildren \ {i}
        BY <1>2 DEF Live, Gone, NotYetServing
    <2>2. S!Lose
        BY <1>2, <2>1 DEF S!Lose, S!NoChild, NoChild
    <2> QED
        BY <2>2 DEF S!Next
<1>3. CASE ~Alive(i)' /\ ~(parent = "running" /\ i = child)
    <2>1. LiveChildren' = LiveChildren \ {i}
        BY <1>3 DEF Live, Gone, NotYetServing
    <2>2. S!Depart(i)
        BY <1>3, <2>1 DEF S!Depart
    <2> QED
        BY <2>2 DEF S!Next, S!Children, Children
<1> QED
    BY <1>1, <1>2, <1>3

\* A parent that leaves "parsing" or "running" and forks nothing stops.
LEMMA StopMaps ==
    ASSUME IndInv, parent \in {"parsing", "running"},
           parent' \notin {"parsing", "running"}, UNCHANGED <<child, proc>>
    PROVE  S!Stop
BY ConstantsType DEF IndInv, ForkedInOrder, S!Stop, S!InCharge, S!NoChild,
   NoChild, InChargeNow, Alive, LiveChildren

\* A fork by a parent that runs afterwards is a launch.
LEMMA LaunchMaps ==
    ASSUME IndInv, parent \in {"parsing", "running"}, parent' = "running", Spawn
    PROVE  [S!Next]_(S!vars)
<1>1. child \in Int /\ child + 1 \in Children /\ child' = child + 1
    BY NextChild DEF IndInv, TypeOK, Spawn, Children, NoChild
<1>2. PICK n \in Children : n = child + 1
    BY <1>1
<1>3. LiveChildren' = LiveChildren \cup {n} /\ n \notin LiveChildren
    BY <1>1, <1>2 DEF Spawn, IndInv, ForkedInOrder, TypeOK, LiveChildren, Live,
                      NotYetServing
<1>4. InChargeNow' = n
    BY <1>1, <1>2, <1>3 DEF InChargeNow, Alive
<1>5. {i \in Children : i <= child}' = {i \in Children : i <= child} \cup {n}
    BY <1>1, <1>2 DEF Children
<1>6. n \notin {i \in Children : i <= child}
    BY <1>1, <1>2
<1>7. (LiveChildren \ {InChargeNow})' = (LiveChildren \ {InChargeNow}) \cup ({InChargeNow} \ {NoChild})
    <2>1. InChargeNow # NoChild => InChargeNow \in LiveChildren
        BY InChargeType DEF Alive
    <2>2. NoChild \notin LiveChildren
        BY ConstantsType DEF LiveChildren
    <2> QED
        BY <1>3, <1>4, <2>1, <2>2
<1>8. S!Launch(n)
    BY <1>4, <1>5, <1>6, <1>7 DEF S!Launch, S!InCharge, S!NoChild, NoChild
<1> QED
    BY <1>8 DEF S!Next, S!Children, Children

\* Every step of the wrapper is a step of the supervisor or changes nothing
\* that it sees.
LEMMA NextMaps == IndInv /\ [Next]_vars => [S!Next]_(S!vars)
<1> SUFFICES ASSUME IndInv, [Next]_vars PROVE [S!Next]_(S!vars)
    OBVIOUS
<1>1. ASSUME NEW c, ExitWith(c), parent \in {"parsing", "running"}
      PROVE  [S!Next]_(S!vars)
    BY <1>1, StopMaps DEF ExitWith, S!Next
<1>2. ASSUME NEW c, ExitWith(c), parent \notin {"parsing", "running"}
      PROVE  [S!Next]_(S!vars)
    BY <1>2 DEF ExitWith, S!vars, InChargeNow, Alive, LiveChildren
<1>3. CASE EntryReturns
    BY <1>1, <1>3 DEF EntryReturns
<1>4. CASE Start \/ Hotswap
    BY <1>4, LaunchMaps DEF Start, Hotswap
<1>5. CASE HotswapBeforeStart
    <2> USE <1>5, ConstantsType DEF HotswapBeforeStart, IndInv, ForkedInOrder, TypeOK
    <2>1. {i \in Children : i <= child} = {} /\ {i \in Children : i <= child}' = {1}
        BY DEF Children, NoChild
    <2>2. LiveChildren = {} /\ LiveChildren' = {1}
        BY DEF LiveChildren, Live, NotYetServing, Children, NoChild
    <2>3. InChargeNow = NoChild /\ InChargeNow' = NoChild
        BY DEF InChargeNow
    <2>4. S!AbortedLaunch(1)
        BY <2>1, <2>2, <2>3 DEF S!AbortedLaunch
    <2> QED
        BY <2>4 DEF S!Next, S!Children, Children
<1>6. CASE Terminate
    <2>1. CASE parent = "running" /\ parent' = "disposing" /\ UNCHANGED <<child, proc>>
        BY <2>1, StopMaps DEF S!Next
    <2>2. CASE parent = "disposing" /\ parent' = "killed" /\ UNCHANGED <<child, proc>>
        BY <2>2 DEF S!vars, InChargeNow, Alive, LiveChildren
    <2> QED
        BY <1>1, <1>6, <2>1, <2>2 DEF Terminate
<1>7. CASE ParentKilled
    <2>1. CASE parent \in {"parsing", "running"}
        BY <1>7, <2>1, StopMaps DEF ParentKilled, S!Next
    <2>2. CASE parent \notin {"parsing", "running"}
        BY <1>7, <2>2 DEF ParentKilled, S!vars, InChargeNow, Alive, LiveChildren
    <2> QED
        BY <2>1, <2>2
<1>8. CASE DisposeTimeout
    BY <1>2, <1>8 DEF DisposeTimeout
<1>9. ASSUME NEW i \in Children, ReceiveHandshake(i) PROVE [S!Next]_(S!vars)
    BY <1>9 DEF ReceiveHandshake, S!vars, InChargeNow, Alive, LiveChildren
<1>10. ASSUME NEW i \in Children, HandshakeTimeout(i) \/ SeesExit(i)
       PROVE  [S!Next]_(S!vars)
    BY <1>1, <1>2, <1>10 DEF HandshakeTimeout, SeesExit
<1>11. ASSUME NEW i \in Children, ChildStep(i) PROVE [S!Next]_(S!vars)
    BY <1>11, ChildStepMaps
<1>12. CASE UNCHANGED vars
    BY <1>12 DEF vars, S!vars, InChargeNow, Alive, LiveChildren
<1> QED
    BY <1>3, <1>4, <1>5, <1>6, <1>7, <1>8, <1>9, <1>10, <1>11, <1>12
       DEF Next, ParentStep

LEMMA InitMaps == Init => S!Init
<1> SUFFICES ASSUME Init PROVE S!Init
    OBVIOUS
<1>1. LiveChildren = {}
    BY DEF Init, LiveChildren, Live, NotYetServing
<1>2. {i \in Children : i <= child} = {}
    BY ConstantsType DEF Init, Children, NoChild
<1> QED
    BY <1>1, <1>2 DEF Init, S!Init, InChargeNow, NoChild, S!NoChild

\* The wrapper's steps implement the supervisor's: one child in charge at most,
\* none started twice, none alive that is neither in charge nor given up.
THEOREM StepsAsSupervisorTheorem == Spec => StepsAsSupervisor
BY InitMaps, NextMaps, Invariance, PTL DEF Spec, StepsAsSupervisor
=============================================================================
