-------------------------- MODULE MCProcessWrapper --------------------------
(* Instances of ProcessWrapper for TLC, and the statement of the comment   *)
(* on ParentProcess (wrapper.ts:216-221) that its code does not keep.      *)
EXTENDS ProcessWrapper

\* "If the child otherwise exits the parent will also exit": a running parent
\* exits because its child did. It also exits when the handshake timer of a
\* child it has replaced fires, since removeAllListeners does not clear it.
ServingChildKeepsParent ==
    [][ parent = "running" /\ parent' = "exited" => proc[child] # "serving" ]_vars
=============================================================================
