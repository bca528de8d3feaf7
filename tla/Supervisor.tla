----------------------------- MODULE Supervisor -----------------------------
(***************************************************************************)
(* What the process wrapper promises to whoever runs the server, with the  *)
(* handshake, the signals, the listeners and the timers left out: there is *)
(* at most one child in charge, every other child that still runs is on    *)
(* its way out and does go, and a server whose child was lost does not     *)
(* stay up with nobody in charge.                                          *)
(* ProcessWrapper is shown to implement it.                                *)
(***************************************************************************)
EXTENDS Integers

CONSTANT MaxSpawns          \* bound on the children ever spawned

Children == 1..MaxSpawns
NoChild == 0

VARIABLES
    up,        \* the server is meant to run
    seen,      \* children spawned so far; none is ever started twice
    current,   \* the child in charge, or NoChild
    leaving    \* children that still run and have been given up

vars == <<up, seen, current, leaving>>

TypeOK ==
    /\ up \in BOOLEAN
    /\ seen \in SUBSET Children
    /\ current \in seen \cup {NoChild}
    /\ leaving \in SUBSET (seen \ {current})

Init ==
    /\ up = TRUE
    /\ seen = {}
    /\ current = NoChild
    /\ leaving = {}

\* The child in charge, as a set.
InCharge == {current} \ {NoChild}

\* A new child takes over and its predecessor has to go.
Launch(i) ==
    /\ up
    /\ i \notin seen
    /\ seen' = seen \cup {i}
    /\ current' = i
    /\ leaving' = leaving \cup InCharge
    /\ UNCHANGED up

\* The child in charge is gone.
Lose ==
    /\ current # NoChild
    /\ current' = NoChild
    /\ UNCHANGED <<up, seen, leaving>>

\* A child that was given up is gone.
Depart(i) ==
    /\ i \in leaving
    /\ leaving' = leaving \ {i}
    /\ UNCHANGED <<up, seen, current>>

\* The server stops and gives up the child in charge.
Stop ==
    /\ up
    /\ up' = FALSE
    /\ current' = NoChild
    /\ leaving' = leaving \cup InCharge
    /\ UNCHANGED seen

\* The server stops in the same step that spawned its first child.
AbortedLaunch(i) ==
    /\ up
    /\ seen = {}
    /\ up' = FALSE
    /\ seen' = {i}
    /\ leaving' = {i}
    /\ UNCHANGED current

\* A server that lost its child cannot go on without one.
StopOrReplace ==
    /\ seen # {}
    /\ current = NoChild
    /\ Stop \/ \E i \in Children : Launch(i)

Next ==
    \/ \E i \in Children : Launch(i) \/ Depart(i) \/ AbortedLaunch(i)
    \/ Lose
    \/ Stop

Spec ==
    /\ Init
    /\ [][Next]_vars
    /\ \A i \in Children : WF_vars(Depart(i))
    /\ WF_vars(StopOrReplace)
=============================================================================
