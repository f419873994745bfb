---------------------------- MODULE MCAuditTrail ----------------------------
(* Instances of AuditTrail. *)
EXTENDS AuditTrail, TLC

CONSTANTS p1, p2, k1, k2, n1, e1, big

Symmetry == Permutations(Procs)
=============================================================================
