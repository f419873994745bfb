------------------------------ MODULE SpecGates ------------------------------
(* The documents of a feature's Spec as values and the gates that read them:
   scripts/scaffold-spec-from-context.js, check-spec-readiness.js,
   create-implementation-handoff.js and check-implementation-conformance.js.
   Of a document's text only what a gate tells apart is kept: the Context Pack
   it names, whether a required section, a placeholder, an open question or an
   unchecked review item is in it, and of design.md the Affected Components and
   whether the three impact sections say something. *)
EXTENDS Naturals, FiniteSets

CONSTANTS Absent,    \* a file or directory that is not there
          Packs,     \* the Context Packs, each with its path and id
          Paths,     \* the repository's files
          Entries,   \* what may be listed as an Affected Component
          Matches,   \* path -> the entries it is equal to or that are its directory
          Sensitive, \* the paths and entries isSensitivePath flags by their name
          Governed   \* the paths under the feature's Spec or knowledge/30-learnings

ASSUME SpecGatesAssumption ==
  /\ Matches \in [Paths -> SUBSET Entries]
  /\ Sensitive \subseteq Paths \cup Entries
  /\ Governed \subseteq Paths

REQUIRED_FILES == {"requirements.md", "design.md", "tasks.md"}

Documents == [context : Packs \cup {Absent}, complete : BOOLEAN, placeholders : BOOLEAN,
              openQuestions : BOOLEAN, unchecked : BOOLEAN,
              affected : SUBSET Entries, impact : BOOLEAN]

-----------------------------------------------------------------------------
(* What the generator writes. *)

buildTasks(pack) ==
  [context |-> pack, complete |-> TRUE, placeholders |-> FALSE, openQuestions |-> FALSE,
   unchecked |-> FALSE, affected |-> {}, impact |-> FALSE]

buildRequirements(pack) ==
  [buildTasks(pack) EXCEPT !.placeholders = TRUE, !.openQuestions = TRUE]

\* The one entry of its Affected Components is a placeholder and matches no path.
buildDesign(pack) ==
  [buildTasks(pack) EXCEPT !.placeholders = TRUE, !.unchecked = TRUE, !.impact = TRUE]

Scaffold(pack) ==
  [f \in REQUIRED_FILES |-> CASE f = "requirements.md" -> buildRequirements(pack)
                              [] f = "design.md" -> buildDesign(pack)
                              [] f = "tasks.md" -> buildTasks(pack)]

-----------------------------------------------------------------------------
(* The readiness gate.  A Spec is Absent or gives each required file's document. *)

Sources(spec) == {spec[f].context : f \in REQUIRED_FILES}
sourceContext(spec) == CHOOSE pack \in Sources(spec) \ {Absent} : TRUE

\* Mutant: the checks of the texts apply to requirements.md only.
ReadyByRequirements(spec) ==
  /\ spec # Absent
  /\ \A f \in REQUIRED_FILES : spec[f] # Absent
  /\ \A f \in {"requirements.md"} :
       /\ spec[f].complete /\ ~spec[f].placeholders /\ ~spec[f].unchecked
       /\ spec[f].context # Absent
  /\ ~spec["requirements.md"].openQuestions
  /\ Cardinality(Sources(spec) \ {Absent}) = 1

\* validateSpecDirectory
Ready(spec) ==
  /\ spec # Absent
  /\ \A f \in REQUIRED_FILES : spec[f] # Absent
  /\ \A f \in REQUIRED_FILES :
       /\ spec[f].complete /\ ~spec[f].placeholders /\ ~spec[f].unchecked
       /\ spec[f].context # Absent
  /\ ~spec["requirements.md"].openQuestions
  /\ Cardinality(Sources(spec)) = 1

-----------------------------------------------------------------------------
(* The handoff and the conformance gate.  A handoff is Absent or names the
   Context Pack of the Spec it was made from; changes gives what the branch did
   to each path. *)

buildHandoff(spec) == [context |-> sourceContext(spec)]

validateHandoff(handoff, spec) ==
  handoff # Absent /\ handoff.context = sourceContext(spec)

parseAffectedComponents(spec) == spec["design.md"].affected
sensitiveComponents(spec) == parseAffectedComponents(spec) \cap Sensitive

pathAllowed(path, allowed) == path \in Governed \/ Matches[path] \cap allowed # {}

\* git diff --diff-filter=ACMR: deleted files are not listed.
getChangedFilesFromGit(changes) == {p \in Paths : changes[p] = "modified"}
sensitiveFiles(changes) == getChangedFilesFromGit(changes) \cap Sensitive

\* validateImplementationConformance
Conformant(spec, handoff, changes) ==
  /\ Ready(spec)
  /\ validateHandoff(handoff, spec)
  /\ parseAffectedComponents(spec) # {}
  /\ \A p \in getChangedFilesFromGit(changes) : pathAllowed(p, parseAffectedComponents(spec))
  /\ sensitiveFiles(changes) # {} => spec["design.md"].impact
=============================================================================
