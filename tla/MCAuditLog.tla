----------------------------- MODULE MCAuditLog -----------------------------
(* AuditLog on a small instance: two calls and at most four records, over  *)
(* any number of crashes and reopenings.                                   *)
EXTENDS AuditLog
=============================================================================
