----------------------------- MODULE MCServerLife -----------------------------
(* An instance of ServerLife for TLC: two requests, one connection to the   *)
(* session server, and a process that is started twice.                     *)
EXTENDS ServerLife
=============================================================================
