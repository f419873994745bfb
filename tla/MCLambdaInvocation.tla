------------------------- MODULE MCLambdaInvocation -------------------------
(* LambdaInvocation with two run ids that are hashed to one evidence id.   *)
EXTENDS LambdaInvocation, TLC

CONSTANT e1

OneEvidenceId == [r \in Runs |-> e1]

Symmetry == Permutations(Invocations) \cup Permutations(Runs)
=============================================================================
