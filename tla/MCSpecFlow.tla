----------------------------- MODULE MCSpecFlow -----------------------------
(* An instance of SpecFlow: two Context Packs, a plain file listed by its path,
   a sensitive one under a listed directory whose name says nothing, and a
   learning note. *)
EXTENDS SpecFlow, TLC

CONSTANTS c1, c2, p1, p2, plain, kms, learning, plainEntry, libEntry

MatchesOf == [p \in Paths |-> IF p = plain THEN {plainEntry} ELSE IF p = kms THEN {libEntry} ELSE {}]

Written(pack) == [buildTasks(pack) EXCEPT !.impact = TRUE]
RevisionsOf ==
  [f \in REQUIRED_FILES |->
     CASE f = "design.md" -> {[Written(pack) EXCEPT !.affected = a, !.impact = i] :
                                pack \in Packs, a \in {{}, {plainEntry}, {libEntry}},
                                i \in BOOLEAN}
       [] f = "requirements.md" -> {[buildTasks(pack) EXCEPT !.openQuestions = o] :
                                      pack \in Packs, o \in BOOLEAN}
       [] f = "tasks.md" -> {buildTasks(pack) : pack \in Packs \cup {Absent}}]

Symmetry == Permutations(Scaffolders)
=============================================================================
