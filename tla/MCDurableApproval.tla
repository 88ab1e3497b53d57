------------------------- MODULE MCDurableApproval -------------------------
(* DurableApproval with two identities and two concurrent callers.         *)
EXTENDS DurableApproval, TLC

Symmetry == Permutations(Callers) \cup Permutations(Keys)
=============================================================================
