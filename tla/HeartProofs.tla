----------------------------- MODULE HeartProofs -----------------------------
(***************************************************************************)
(* Proofs about Heart, for every interval, probe time-out, idle limit and  *)
(* number of clock steps: the type invariant, and that the idle shutdown   *)
(* spares a connection held since the last beat and comes only after the   *)
(* configured quiet time; and, until the clock is set back or a probe      *)
(* fails, that the heartbeat goes on once per interval.                    *)
(***************************************************************************)
EXTENDS Heart, TLAPS

\* The race of timers. A connection held since the last beat has a heartbeat timer
\* that outlasts any probe in flight and ends before the idle timer, if the limit
\* exceeds the interval; the idle timer runs only in state "expired" and never
\* further than the ticks without a request, if it can wait for the limit.
TimersOrdered ==
    /\ held => connected
    /\ idle # Off => limit # NoLimit /\ state = "expired"
    /\ idle # Off /\ limit <= MaxDelay => quiet + idle >= limit
    /\ phase = "serving" /\ held /\ probe # Off => timer > probe
    /\ phase = "serving" /\ held /\ idle # Off /\ Interval < limit /\ limit <= MaxDelay
       => timer # Off /\ timer < idle

IndInv == TypeOK /\ TimersOrdered

LEMMA ConstantsType ==
    /\ Interval \in Int /\ Fallback \in Int /\ MaxLimit \in Int /\ ClockSteps \in Int
    /\ MaxDelay \in Nat
    /\ 0 < Fallback /\ Fallback < Interval
    /\ 0 <= ClockSteps /\ 0 <= MaxLimit
BY IntervalAssumption, ClockAssumption

LEMMA InitIndInv == Init => IndInv
<1> SUFFICES ASSUME Init PROVE IndInv
    OBVIOUS
<1> USE ConstantsType DEF Init, NoLimit, Off
<1>1. /\ limit \in 0..MaxLimit /\ IdleDelay \in {0, limit}
      /\ idle \in {-1, IdleDelay} /\ (idle # -1 => limit # 0)
      /\ limit <= MaxDelay => IdleDelay = limit
    BY DEF IdleDelay
<1>2. TypeOK
    <2>1. idle \in Off..limit /\ quiet \in 0..limit
        BY <1>1
    <2>2. steps \in 0..ClockSteps /\ age \in (-steps)..MaxAge
        BY DEF MaxAge
    <2>3. phase = "serving" /\ state = "expired" /\ timer \in Off..Interval /\ probe \in Off..Fallback
        OBVIOUS
    <2> QED
        BY <1>1, <2>1, <2>2, <2>3 DEF TypeOK
<1>3. TimersOrdered
    BY <1>1 DEF TimersOrdered
<1> QED
    BY <1>2, <1>3 DEF IndInv

\* The idle timer waits for the limit, or next to nothing.
LEMMA IdleDelayFacts ==
    ASSUME TypeOK
    PROVE  IdleDelay \in 0..limit /\ (limit <= MaxDelay => IdleDelay = limit)
BY ConstantsType DEF TypeOK, IdleDelay

LEMMA TypeStep == IndInv /\ [Next]_vars => TypeOK'
<1> SUFFICES ASSUME IndInv, [Next]_vars PROVE TypeOK'
    OBVIOUS
<1>0. IdleDelay \in 0..limit
    BY IdleDelayFacts DEF IndInv
<1> USE ConstantsType DEF IndInv, TypeOK, TimersOrdered, NoLimit, Off, MaxAge
<1>1. ASSUME NEW left \in Off..Interval, Beat(left), UNCHANGED steps
      PROVE  /\ age' \in (-steps)..MaxAge /\ timer' \in Off..Interval
             /\ held' \in BOOLEAN /\ SetState("alive")
    BY <1>1 DEF Beat
<1>2. ASSUME NEW s \in {"alive", "expired", "unknown"}, SetState(s)
      PROVE  state' \in {"alive", "expired", "unknown"} /\ idle' \in Off..limit
    BY <1>0, <1>2 DEF SetState
<1>3. CASE Request
    BY <1>1, <1>2, <1>3 DEF Request
<1>4. CASE TimerFires
    BY <1>1, <1>2, <1>4 DEF TimerFires
<1>5. CASE ProbeTimesOut
    BY <1>2, <1>5 DEF ProbeTimesOut
<1>6. CASE IdleExit \/ DisposedExit
    BY <1>6 DEF IdleExit, DisposedExit
<1>7. CASE Dispose
    BY <1>7 DEF Dispose
<1>8. CASE Connect \/ Disconnect
    BY <1>8 DEF Connect, Disconnect
<1>9. CASE Tick
    BY <1>9 DEF Tick, CountDown, CountUp
<1>10. CASE ClockStepsBack
    BY <1>10 DEF ClockStepsBack
<1>11. CASE UNCHANGED vars
    BY <1>11 DEF vars
<1> QED
    BY <1>3, <1>4, <1>5, <1>6, <1>7, <1>8, <1>9, <1>10, <1>11 DEF Next

LEMMA TimersStep == IndInv /\ [Next]_vars => TimersOrdered'
<1> SUFFICES ASSUME IndInv, [Next]_vars PROVE TimersOrdered'
    OBVIOUS
<1>0. IdleDelay \in 0..limit /\ (limit <= MaxDelay => IdleDelay = limit)
    BY IdleDelayFacts DEF IndInv
<1> USE ConstantsType DEF IndInv, TypeOK, TimersOrdered, NoLimit, Off
<1>1. CASE Request
    <2>1. idle' = Off
        BY <1>1 DEF Request, Beat, SetState
    <2>2. held' => connected'
        BY <1>1 DEF Request, Beat
    <2>3. phase' = "serving" /\ held' /\ probe' # Off => timer' > probe'
        <3>1. CASE IsAlive
            BY <1>1, <3>1 DEF Request, Beat
        <3>2. CASE ~IsAlive
            <4>1. timer' = Interval /\ probe' = probe
                BY <1>1, <3>2 DEF Request, Beat
            <4> QED
                BY <4>1
        <3> QED
            BY <3>1, <3>2
    <2> QED
        BY <1>1, <2>1, <2>2, <2>3 DEF Request
<1>2. CASE TimerFires
    <2>1. CASE connected /\ Beat(Off) /\ UNCHANGED probe
        <3>1. idle' = Off
            BY <2>1 DEF Beat, SetState
        <3>2. phase = "serving" /\ held => probe = Off
            BY <1>2 DEF TimerFires
        <3>3. phase = "serving" /\ held' /\ probe # Off => timer' > probe
            <4>1. CASE IsAlive
                BY <2>1, <3>2, <4>1 DEF Beat
            <4>2. CASE ~IsAlive
                <5>1. timer' = Interval
                    BY <2>1, <4>2 DEF Beat
                <5> QED
                    BY <5>1
            <4> QED
                BY <4>1, <4>2
        <3> QED
            BY <1>2, <2>1, <3>1, <3>3 DEF TimerFires, Beat
    <2>2. CASE ~connected /\ UNCHANGED held /\ (SetState("expired") \/ UNCHANGED <<state, idle>>)
        BY <1>0, <1>2, <2>2 DEF TimerFires, SetState
    <2>3. CASE SetState("unknown") /\ UNCHANGED <<held, probe>>
        <3>1. idle' = Off
            BY <2>3 DEF SetState
        <3>2. phase = "serving" /\ held => probe = Off
            BY <1>2 DEF TimerFires
        <3> QED
            BY <1>2, <2>3, <3>1, <3>2 DEF TimerFires
    <2> QED
        BY <1>2, <2>1, <2>2, <2>3 DEF TimerFires
<1>3. CASE ProbeTimesOut
    BY <1>0, <1>3 DEF ProbeTimesOut, SetState
<1>4. CASE IdleExit \/ DisposedExit
    BY <1>4 DEF IdleExit, DisposedExit
<1>5. CASE Dispose
    BY <1>5 DEF Dispose
<1>6. CASE Connect \/ Disconnect
    BY <1>6 DEF Connect, Disconnect
<1>7. CASE Tick
    BY <1>7 DEF Tick, CountDown, CountUp
<1>8. CASE ClockStepsBack
    BY <1>8 DEF ClockStepsBack
<1>9. CASE UNCHANGED vars
    BY <1>9 DEF vars
<1> QED
    BY <1>1, <1>2, <1>3, <1>4, <1>5, <1>6, <1>7, <1>8, <1>9 DEF Next

LEMMA Invariance == Spec => []IndInv
<1>1. IndInv /\ [Next]_vars => IndInv'
    BY TypeStep, TimersStep DEF IndInv
<1> QED
    BY <1>1, InitIndInv, PTL DEF Spec

\* Every variable of the heart keeps its type.
THEOREM TypeCorrect == Spec => []TypeOK
BY Invariance, PTL DEF IndInv

\* The idle shutdown never comes before the configured time without a request,
\* whatever the limit is, if a timer can wait for it.
THEOREM IdleExitAfterLimitTheorem == Spec => IdleExitAfterLimit
<1>1. IndInv /\ [Next]_vars => [IdleExit /\ limit <= MaxDelay => quiet >= limit]_vars
    <2> SUFFICES ASSUME IndInv, IdleExit, limit <= MaxDelay PROVE quiet >= limit
        OBVIOUS
    <2> QED
        BY ConstantsType DEF IndInv, TypeOK, TimersOrdered, IdleExit, Off
<1> QED
    BY <1>1, Invariance, PTL DEF Spec, IdleExitAfterLimit

\* With a limit above the interval the idle shutdown never ends a connection held
\* since the last beat, whatever requests, probes and the clock do.
THEOREM HeldConnectionKeepsServerTheorem == Spec => HeldConnectionKeepsServer
<1>1. IndInv /\ [Next]_vars => [IdleExit /\ Interval < limit /\ limit <= MaxDelay
                                 => ~(phase = "serving" /\ held)]_vars
    <2> SUFFICES ASSUME IndInv, IdleExit, Interval < limit, limit <= MaxDelay
                 PROVE  ~(phase = "serving" /\ held)
        OBVIOUS
    <2> QED
        BY ConstantsType DEF IndInv, TypeOK, TimersOrdered, IdleExit, Off
<1> QED
    BY <1>1, Invariance, PTL DEF Spec, HeldConnectionKeepsServer

-----------------------------------------------------------------------------
(* A clock that was not set back and a probe that has not failed.          *)

\* Under a held connection the timer counts what is missing to an interval; a
\* probe that failed did so when the interval was over, and left no timer.
OnTime ==
    phase = "serving" /\ held /\ steps = 0 =>
        /\ state # "unknown" => timer # Off /\ age = Interval - timer
        /\ state = "unknown" => timer = Off /\ age >= Interval

LEMMA OnTimeStep == IndInv /\ OnTime /\ [Next]_vars => OnTime'
<1> SUFFICES ASSUME IndInv, OnTime, [Next]_vars PROVE OnTime'
    OBVIOUS
<1> USE ConstantsType DEF IndInv, TypeOK, TimersOrdered, OnTime, Off, MaxAge
<1>1. ASSUME NEW left, Beat(left), left = timer \/ timer = 0, phase' = phase,
             steps' = steps
      PROVE  OnTime'
    <2>1. state' = "alive"
        BY <1>1 DEF Beat, SetState
    <2>2. CASE IsAlive
        <3>1. age' = age /\ held' = held /\ timer' = left
            BY <1>1, <2>2 DEF Beat
        <3>2. ~(phase = "serving" /\ held /\ steps = 0 /\ (timer = 0 \/ state = "unknown"))
            BY <2>2 DEF IsAlive
        <3> QED
            BY <1>1, <2>1, <3>1, <3>2
    <2>3. CASE ~IsAlive
        <3>1. timer' = Interval /\ age' = 0
            BY <1>1, <2>3 DEF Beat
        <3> QED
            BY <2>1, <3>1
    <2> QED
        BY <2>2, <2>3
<1>2. CASE Request
    BY <1>1, <1>2 DEF Request
<1>3. CASE TimerFires
    <2>1. CASE Beat(Off)
        BY <1>1, <1>3, <2>1 DEF TimerFires
    <2>2. CASE ~connected /\ UNCHANGED held
        BY <1>3, <2>2 DEF TimerFires
    <2>3. CASE SetState("unknown") /\ timer' = Off /\ UNCHANGED <<age, held>>
        <3>1. state' = "unknown" /\ timer = 0 /\ UNCHANGED <<phase, steps>>
            BY <1>3, <2>3 DEF TimerFires, SetState
        <3>2. phase = "serving" /\ held /\ steps = 0 => age >= Interval
            BY <3>1
        <3> QED
            BY <2>3, <3>1, <3>2
    <2> QED
        BY <1>3, <2>1, <2>2, <2>3 DEF TimerFires
<1>4. CASE ProbeTimesOut
    <2>1. state' = "expired"
        BY <1>4 DEF ProbeTimesOut, SetState
    <2> QED
        BY <1>4, <2>1 DEF ProbeTimesOut
<1>5. CASE IdleExit \/ Dispose \/ DisposedExit \/ Connect \/ Disconnect
    BY <1>5 DEF IdleExit, Dispose, DisposedExit, Connect, Disconnect
<1>6. CASE Tick
    BY <1>6 DEF Tick, CountDown, CountUp
<1>7. CASE ClockStepsBack
    BY <1>7 DEF ClockStepsBack
<1>8. CASE UNCHANGED vars
    BY <1>8 DEF vars
<1> QED
    BY <1>2, <1>3, <1>4, <1>5, <1>6, <1>7, <1>8 DEF Next

\* Until the clock is set back or a probe fails, a connection open since the
\* last beat sees the next one within an interval.
THEOREM BeatOncePerIntervalTheorem == Spec => []BeatOncePerInterval
<1>1. Init => OnTime
    BY DEF Init, OnTime
<1>2. IndInv /\ OnTime /\ [Next]_vars => OnTime'
    BY OnTimeStep
<1>3. IndInv /\ OnTime => BeatOncePerInterval
    BY ConstantsType DEF IndInv, TypeOK, OnTime, BeatOncePerInterval, Off
<1> QED
    BY <1>1, <1>2, <1>3, Invariance, PTL DEF Spec
=============================================================================
