----------------------------- MODULE MCApproval -----------------------------
(* Approval on small instances: two tools, up to three requests.           *)
EXTENDS Approval
=============================================================================
