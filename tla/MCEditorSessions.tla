--------------------------- MODULE MCEditorSessions ---------------------------
(* Editors that come and go, two look-ups at once, and two servers that share *)
(* the session socket.                                                        *)
EXTENDS EditorSessions, TLC

CONSTANTS e1, e2, l1, l2, s1, s2, f1

Symmetry == Permutations(Editors) \cup Permutations(Launchers) \cup Permutations(Servers)
=============================================================================
