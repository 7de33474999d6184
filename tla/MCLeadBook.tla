------------------------------ MODULE MCLeadBook ------------------------------
(* Instances of LeadBook. *)
EXTENDS LeadBook, TLC

CONSTANTS l1, l2, p1, p2

Symmetry == Permutations({l1, l2}) \cup Permutations({p1, p2})
=============================================================================
