-------------------------- MODULE MCSigningLedger --------------------------
(* SigningLedger on small instances.                                       *)
EXTENDS SigningLedger, TLC

(* Callers are alike; their bodies and backends too.                       *)
Symmetry == Permutations(Clients) \cup Permutations(Backends)
=============================================================================
