---------------------------- MODULE MCUpdateCheck ----------------------------
(* A page load and two callers of the update check, on the days 0 to 2.    *)
EXTENDS UpdateCheck

CONSTANTS p1, c1, c2, f1
=============================================================================
