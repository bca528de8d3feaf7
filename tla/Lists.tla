--------------------------------- MODULE Lists ---------------------------------
(***************************************************************************)
(* What the modules need of lists beyond the community modules: the filter *)
(* of an array, as a recursive function, which can be reasoned about.      *)
(***************************************************************************)
EXTENDS Integers, SequencesExt

\* The elements of s that are in S, in their order: Array.prototype.filter, what
\* is left of a Map after delete, and each part of an array that a stable sort
\* puts in order by a property that its elements have or have not.
Selected(s, S) ==
    LET upTo[n \in 0..Len(s)] ==
            IF n = 0 THEN <<>>
            ELSE IF s[n] \in S THEN Append(upTo[n - 1], s[n]) ELSE upTo[n - 1]
    IN  upTo[Len(s)]
=============================================================================
