-------------------------- MODULE MCPolicyWatcher --------------------------
(* PolicyWatcher over a few edits of the file.                             *)
EXTENDS PolicyWatcher

AllChanges == {"write", "replace", "move"}
=============================================================================
