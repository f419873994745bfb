------------------------- MODULE MCWorkOrchestration -------------------------
(* Instances of WorkOrchestration: one Context Pack; a plain file, a sensitive
   file listed by its path and one in a listed directory. *)
EXTENDS WorkOrchestration, TLC

CONSTANTS c1, p1, p2, plain, kms, plainEntry, kmsEntry, libEntry

MatchesOf == [p \in Paths |-> IF p = plain THEN {plainEntry} ELSE {kmsEntry, libEntry}]

Written(affected) ==
  [Scaffold(c1) EXCEPT !["requirements.md"] = buildTasks(c1),
                       !["design.md"] = [buildTasks(c1) EXCEPT !.affected = affected,
                                                               !.impact = TRUE]]
Open == [Written({plainEntry}) EXCEPT !["requirements.md"].openQuestions = TRUE]

PlainSpec == {Written({plainEntry})}
WideSpec == {Written({plainEntry, kmsEntry})}
LibSpec == {Written({libEntry})}
SomeSpecs == {Written({plainEntry}), Written({plainEntry, kmsEntry}), Open}

Plain == [builder |-> "b", reviewer |-> "r", securityReviewer |-> None]
WithSecurity == [Plain EXCEPT !.securityReviewer = "s"]
Itself == [Plain EXCEPT !.reviewer = "b"]
Swapped == [builder |-> "r", reviewer |-> "b", securityReviewer |-> None]

Of(commands, open, specs, delegations) ==
  [commands |-> commands, open |-> open, specs |-> specs, delegations |-> delegations]

OfSecurity == {Plain, WithSecurity, Itself}
OfSwap == {Swapped, Plain, [Plain EXCEPT !.securityReviewer = "r"]}

\* Two bootstraps on a disk that refuses, with every command that overwrites.
Bootstraps ==
  Of({"bootstrap", "delegate", "graph", "runtime", "adapters", "edit", "disk errors", "crash"},
     2, SomeSpecs, OfSecurity)
\* One gate at a time while delegation, graph, runtime and reviews are replaced.
Gates ==
  Of({"delegate", "graph", "runtime", "event", "review", "gate", "commit"}, 1, WideSpec, OfSwap)
Both == {Bootstraps, Gates}
RefusingDisk == {Of({"bootstrap", "disk errors"}, 1, PlainSpec, {Plain})}
Retries == {Of({"bootstrap", "event", "review", "gate"}, 1, PlainSpec, {Plain})}
SensitiveWork == {Of({"bootstrap"}, 1, WideSpec, {WithSecurity})}
Directories == {Of({"bootstrap"}, 1, LibSpec, {Plain})}

Symmetry == Permutations(Procs)
=============================================================================
