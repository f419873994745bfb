---------------------------- MODULE MCAgentTasks ----------------------------
(* Instances of AgentTasks: role assignments and adapter tables for TLC. *)
EXTENDS AgentTasks, TLC

CONSTANTS p1, p2

Plain == [builder |-> "b", reviewer |-> "r", securityReviewer |-> None]
WithSecurity == [Plain EXCEPT !.securityReviewer = "s"]

PlainOnly == {Plain}
SecurityOnly == {WithSecurity}
Either == {Plain, WithSecurity}

AllScripted == [t \in Tasks |-> "scripted"]
ReviewerByCodex == [AllScripted EXCEPT !["reviewer"] = "dry-run"]

Symmetry == Permutations(Procs)
=============================================================================
