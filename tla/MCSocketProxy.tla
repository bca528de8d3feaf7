----------------------------- MODULE MCSocketProxy -----------------------------
(* Two sockets and a server that is started, stopped and started again, with *)
(* one more name to try and another process at the first pipe. No start goes *)
(* beyond the second number.                                                 *)
EXTENDS SocketProxy

CONSTANTS s1, s2, k1, k2

MCNumbered(p, i) == IF p = "tls-proxy" THEN "tls-proxy-1" ELSE "tls-proxy-1-1"
=============================================================================
