------------------------- MODULE MCPersistBootstrap -------------------------
(* Instances of PersistBootstrap for TLC: one item of each kind, which is  *)
(* one per way through the loop (workspace, .codex and .claude.json).      *)
EXTENDS PersistBootstrap

MCKind == <<"made", "dir", "file">>
OneDir == <<"made">>

\* "The volume wins. It only gets seeded when it has nothing yet": that this
\* never costs data. It does once a copy has been cut short.
NothingSavedIsEverRemoved == [][ ~Redeploy => NothingDisappears ]_vars
=============================================================================
