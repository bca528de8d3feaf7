------------------------------ MODULE WriteOnce ------------------------------
(***************************************************************************)
(* What readConfigFile promises to all that start: a config that is there  *)
(* is never replaced, one of those that find none may write it, and none   *)
(* is handed anything but the config that is kept. If the one that may     *)
(* write gives up, there is none for good.                                 *)
(* Startup is shown to implement it.                                       *)
(***************************************************************************)
CONSTANTS
    Readers,
    Default,     \* what each of them would write
    Given,       \* what may be there from the beginning
    Nothing

VARIABLES
    taken,       \* there is a config, or someone may have begun to write it
    writers,     \* who may write it, at most one
    content,     \* the config that is kept, or Nothing
    handed       \* what each has been handed

vars == <<taken, writers, content, handed>>

Init ==
    /\ content \in Given \cup {Nothing}
    /\ taken = (content # Nothing)
    /\ writers = {}
    /\ handed = [r \in Readers |-> Nothing]

\* One that finds no config may write one.
Take(r) ==
    /\ ~taken
    /\ taken' = TRUE
    /\ writers' = {r}
    /\ UNCHANGED <<content, handed>>

Write(r) ==
    /\ writers = {r}
    /\ content = Nothing
    /\ content' = Default[r]
    /\ writers' = {}
    /\ UNCHANGED <<taken, handed>>

GiveUp(r) ==
    /\ writers = {r}
    /\ writers' = {}
    /\ UNCHANGED <<taken, content, handed>>

\* What is kept is handed out, be it Nothing, but never to the one that has yet
\* to write.
Read(r) ==
    /\ taken
    /\ r \notin writers
    /\ handed' = [handed EXCEPT ![r] = content]
    /\ UNCHANGED <<taken, writers, content>>

Drop(r) ==
    /\ handed' = [handed EXCEPT ![r] = Nothing]
    /\ UNCHANGED <<taken, writers, content>>

Next ==
    \E r \in Readers : Take(r) \/ Write(r) \/ GiveUp(r) \/ Read(r) \/ Drop(r)

Spec == Init /\ [][Next]_vars
=============================================================================
