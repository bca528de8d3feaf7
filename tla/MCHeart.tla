------------------------------- MODULE MCHeart -------------------------------
(* Instances of Heart for TLC: an interval of three ticks, the fall-back of *)
(* two, idle limits from one tick to twice the interval, and one that no    *)
(* timer can wait for.                                                      *)
EXTENDS Heart
=============================================================================
