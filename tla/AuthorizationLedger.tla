------------------------ MODULE AuthorizationLedger ------------------------
(***************************************************************************)
(* What the audit log promises the proxy: the set of calls whose allow     *)
(* record is on stable storage only grows, whatever fails, and a call is   *)
(* granted only when it is in that set.  AuditLog implements this.         *)
(***************************************************************************)
CONSTANT Calls

VARIABLES durable, granted

Init == durable = {} /\ granted = {}

\* Records reach the disk: the one a commit syncs, with the earlier ones it
\* flushes, or those a power failure happens to keep.
Persist == \E D \in SUBSET Calls : durable' = durable \cup D

\* A commit returns success for a call whose record is durable by then.
Grant(call) == Persist /\ call \in durable' /\ granted' = granted \cup {call}

Next == (Persist /\ UNCHANGED granted) \/ \E call \in Calls : Grant(call)

Spec == Init /\ [][Next]_<<durable, granted>>
=============================================================================
