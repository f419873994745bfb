------------------------- MODULE MCEvidencePipeline -------------------------
(* EvidencePipeline on small instances.                                    *)
EXTENDS EvidencePipeline, TLC

Symmetry == Permutations(Callers)
=============================================================================
