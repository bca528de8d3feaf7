-------------------------------- MODULE Heart --------------------------------
(***************************************************************************)
(* The heartbeat (src/src/node/heart.ts), its probe for open connections   *)
(* (routes/index.ts) and the idle shutdown that hangs on its state         *)
(* (main.ts). A request beats; a timer armed by the beat asks, one         *)
(* interval later, whether a connection is open and beats again if so;     *)
(* when none is, the state expires and the idle timer starts.              *)
(*                                                                         *)
(* Time passes in ticks. setTimeout counts monotonic ticks and fires on    *)
(* its deadline, Date.now reads a wall clock that may be set back; timers  *)
(* and events of the same tick come in any order.                          *)
(***************************************************************************)
EXTENDS Integers

CONSTANTS
    Interval,      \* heartbeatInterval, in ticks (60 s in the code)
    Fallback,      \* ticks the probe waits for getConnections (5 s)
    MaxLimit,      \* bound on the idle time-outs tried
    MaxDelay,      \* ticks that setTimeout can wait (2^31 - 1 ms)
    ClockSteps,    \* ticks by which the wall clock may be set back in all
    MayReject      \* getConnections may report an error

ASSUME IntervalAssumption ==
    /\ Interval \in Nat /\ Fallback \in Nat /\ MaxLimit \in Nat /\ MaxDelay \in Nat
    /\ 0 < Fallback /\ Fallback < Interval
ASSUME ClockAssumption == ClockSteps \in Nat /\ MayReject \in BOOLEAN

Off == -1           \* a timer that is not armed
NoLimit == 0        \* --idle-timeout-seconds is not given

VARIABLES
    phase,       \* the process: "serving", "disposing" or "exited"
    limit,       \* --idle-timeout-seconds; a negative one waits as one above MaxDelay
    age,         \* Date.now() - lastHeartbeat, cut off at MaxAge
    state,       \* Heart.state
    timer,       \* ticks left of heartbeatTimer
    probe,       \* ticks left for a getConnections that does not call back
    idle,        \* ticks left of idleShutdownTimer
    connected,   \* the server has an open connection
    steps,       \* ticks the clock has been set back so far
    held,        \* history: a connection has been open since the last beat
    quiet        \* history: ticks since the last request, cut off at limit

vars == <<phase, limit, age, state, timer, probe, idle, connected, steps,
          held, quiet>>

\* An age from which no sequence of clock steps leads back below Interval.
MaxAge == Interval + ClockSteps

\* How long the idle timer waits: a delay that setTimeout cannot count, be it too
\* long or negative, becomes one millisecond, which is over within the tick.
IdleDelay == IF limit <= MaxDelay THEN limit ELSE 0

TypeOK ==
    /\ phase \in {"serving", "disposing", "exited"}
    /\ limit \in 0..MaxLimit
    /\ age \in (-steps)..MaxAge
    /\ state \in {"alive", "expired", "unknown"}
    /\ timer \in Off..Interval
    /\ probe \in Off..Fallback
    /\ idle \in Off..limit
    /\ connected \in BOOLEAN
    /\ steps \in 0..ClockSteps
    /\ held \in BOOLEAN
    /\ quiet \in 0..limit

\* runCodeServer has registered the routes: no beat so far (lastHeartbeat is
\* 0), and the idle timer, if any, was started without waiting for an expiry. The
\* limit may be any: parse checks that it exceeds the interval, but not when it is
\* the next argument, or text after the number hides it (see Arguments).
Init ==
    /\ phase = "serving"
    /\ limit \in 0..MaxLimit
    /\ age = MaxAge
    /\ state = "expired"
    /\ timer = Off
    /\ probe = Off
    /\ idle = IF limit = NoLimit THEN Off ELSE IdleDelay
    /\ connected = FALSE
    /\ steps = 0
    /\ held = FALSE
    /\ quiet = 0

-----------------------------------------------------------------------------
(* heart.ts and the listener main.ts adds to it.                           *)

\* Mutant of SetState: a state other than "expired" leaves the timer running.
SetStateKeepsTimer(s) ==
    /\ state' = s
    /\ idle' = IF s = "expired" /\ state # s /\ limit # NoLimit THEN IdleDelay ELSE idle

\* setState: a change reaches the listener, which clears the idle timer and
\* starts it again if the state has expired.
SetState(s) ==
    /\ state' = s
    /\ idle' = IF state = s \/ limit = NoLimit THEN idle
               ELSE IF s = "expired" THEN IdleDelay ELSE Off

\* Mutant of IsAlive: a beat exactly one interval old still counts.
IsAliveOnTheDot == age <= Interval

\* alive()
IsAlive == age < Interval

\* Mutant of Beat: a new beat does not set the state.
BeatSilently(left) ==
    IF IsAlive
    THEN SetState("alive") /\ timer' = left /\ UNCHANGED <<age, held>>
    ELSE timer' = Interval /\ age' = 0 /\ held' = connected /\ UNCHANGED <<state, idle>>

\* beat(), given what is left of the heartbeat timer: nothing but the state if
\* the last beat is recent, or a new beat with a new timer.
Beat(left) ==
    /\ SetState("alive")
    /\ IF IsAlive
       THEN /\ timer' = left
            /\ UNCHANGED <<age, held>>
       ELSE /\ timer' = Interval
            /\ age' = 0
            /\ held' = connected

\* Any request or upgrade but /healthz runs the common middleware.
Request ==
    /\ phase # "exited"
    /\ connected
    /\ Beat(timer)
    /\ quiet' = 0
    /\ UNCHANGED <<phase, limit, probe, connected, steps>>

(***************************************************************************)
(* The heartbeat timer fires and isActive asks for the connections: at     *)
(* least one, none, an error, or no call back at all, which happens when   *)
(* there are none left.                                                    *)
(***************************************************************************)
TimerFires ==
    /\ phase # "exited"
    /\ timer = 0
    /\ \/ /\ connected
          /\ Beat(Off)
          /\ UNCHANGED probe
       \/ /\ ~connected
          /\ SetState("expired")
          /\ timer' = Off
          /\ UNCHANGED <<age, held, probe>>
       \/ /\ ~connected
          /\ probe' = Fallback
          /\ timer' = Off
          /\ UNCHANGED <<age, held, state, idle>>
       \/ /\ MayReject
          /\ SetState("unknown")
          /\ timer' = Off
          /\ UNCHANGED <<age, held, probe>>
    /\ UNCHANGED <<phase, limit, connected, steps, quiet>>

\* Mutant of ProbeTimesOut: a request during the probe makes it forget.
ProbeForgets ==
    /\ phase # "exited"
    /\ probe = 0
    /\ probe' = Off
    /\ UNCHANGED <<phase, limit, age, state, timer, idle, connected, steps,
                   held, quiet>>

\* The probe gives up and assumes zero connections, even if a request has come
\* in and beaten meanwhile.
ProbeTimesOut ==
    /\ phase # "exited"
    /\ probe = 0
    /\ probe' = Off
    /\ SetState("expired")
    /\ UNCHANGED <<phase, limit, age, timer, connected, steps, held, quiet>>

\* The idle timer fires: wrapper.exit(0).
IdleExit ==
    /\ phase # "exited"
    /\ idle = 0
    /\ phase' = "exited"
    /\ UNCHANGED <<limit, age, state, timer, probe, idle, connected, steps,
                   held, quiet>>

\* disposeRoutes: the heartbeat timer is cleared, a probe in flight is not.
Dispose ==
    /\ phase = "serving"
    /\ phase' = "disposing"
    /\ timer' = Off
    /\ UNCHANGED <<limit, age, state, probe, idle, connected, steps, held, quiet>>

\* The wrapper exits once the server is disposed of.
DisposedExit ==
    /\ phase = "disposing"
    /\ phase' = "exited"
    /\ UNCHANGED <<limit, age, state, timer, probe, idle, connected, steps,
                   held, quiet>>

-----------------------------------------------------------------------------
(* Browsers and time.                                                      *)

Connect ==
    /\ phase = "serving"
    /\ ~connected
    /\ connected' = TRUE
    /\ UNCHANGED <<phase, limit, age, state, timer, probe, idle, steps, held, quiet>>

Disconnect ==
    /\ phase # "exited"
    /\ connected
    /\ connected' = FALSE
    /\ held' = FALSE
    /\ UNCHANGED <<phase, limit, age, state, timer, probe, idle, steps, quiet>>

CountDown(t) == IF t = Off THEN Off ELSE t - 1
CountUp(t, cap) == IF t < cap THEN t + 1 ELSE t

\* One tick passes, unless a timer is due.
Tick ==
    /\ phase # "exited"
    /\ timer # 0 /\ probe # 0 /\ idle # 0
    /\ age' = CountUp(age, MaxAge)
    /\ timer' = CountDown(timer)
    /\ probe' = CountDown(probe)
    /\ idle' = CountDown(idle)
    /\ quiet' = CountUp(quiet, limit)
    /\ UNCHANGED <<phase, limit, state, connected, steps, held>>

\* The wall clock is set back by a tick; Date.now may also be a moment behind
\* a timer that fires early.
ClockStepsBack ==
    /\ phase # "exited"
    /\ steps < ClockSteps
    /\ steps' = steps + 1
    /\ age' = age - 1
    /\ UNCHANGED <<phase, limit, state, timer, probe, idle, connected, held, quiet>>

Next ==
    \/ Request \/ TimerFires \/ ProbeTimesOut \/ IdleExit
    \/ Dispose \/ DisposedExit
    \/ Connect \/ Disconnect \/ Tick \/ ClockStepsBack

\* Time passes and timers fire; nobody has to connect, and nothing is assumed
\* of the clock.
Fairness ==
    /\ WF_vars(Tick)
    /\ WF_vars(TimerFires)
    /\ WF_vars(ProbeTimesOut)
    /\ WF_vars(IdleExit)
    /\ WF_vars(DisposedExit)

Spec == Init /\ [][Next]_vars /\ Fairness

-----------------------------------------------------------------------------

\* The idle shutdown comes only after as many ticks without a request as
\* --idle-timeout-seconds asks for, whatever probes and beats were under way, if
\* a timer can wait that long (main.ts:174-189).
IdleExitAfterLimit ==
    [][ IdleExit /\ limit <= MaxDelay => quiet >= limit ]_vars

\* A server whose limit exceeds the interval, as parse asks for, is never shut
\* down under a connection that has been open since the last beat, even if a
\* late probe took it for idle: the next heartbeat comes before the idle timer.
\* Nothing of the kind holds of the smaller limits that get past the check
\* (cli.ts:431-433, heart.ts:52-63).
HeldConnectionKeepsServer ==
    [][ IdleExit /\ Interval < limit /\ limit <= MaxDelay
        => ~(phase = "serving" /\ held) ]_vars

\* "As long as there is an active browser connection, code-server touches
\* heartbeat once a minute" (docs/FAQ.md): under a connection open since the
\* last beat, that beat is at most one interval old, whatever requests, probes
\* and timers came in between. It takes a clock that was never set back and
\* connection counts that do not fail, which leave the state "unknown".
BeatOncePerInterval ==
    phase = "serving" /\ held /\ steps = 0 /\ state # "unknown" => age <= Interval

\* A server with a limit, and from some time on without connections, exits,
\* under the same two conditions.
QuietServerExits ==
    /\ limit # NoLimit
    /\ <>[]~connected
    /\ [](steps = 0) /\ <>[](state # "unknown")
    => <>(phase = "exited")
=============================================================================
