------------------------------- MODULE SpecFlow -------------------------------
(* A feature from its Context Pack to the conformance gate: spec:scaffold,
   spec:ready, impl:handoff and impl:conform with the people who edit the Spec
   and commit to the branch between them.  The generator checks that the Spec's
   directory is not there, makes it and writes three files, one system call
   each; two may run at a time and each may be killed.  The readiness and
   conformance gates only read: they are the operators of SpecGates. *)
EXTENDS SpecState

CONSTANTS Scaffolders, \* the scaffold commands open at one time
          Revisions    \* file -> the documents people make of it

ASSUME SpecFlowAssumption ==
  /\ Revisions \in [REQUIRED_FILES -> SUBSET Documents]
  /\ Absent \notin Documents /\ Absent \notin [REQUIRED_FILES -> Documents \cup {Absent}]

VARIABLES scaffolds, \* the scaffold commands
          touched,   \* history: files edited since they were scaffolded
          reviewed   \* history: Affected Components when the handoff was made

flowVars == <<spec, scaffolds, handoff, changes, touched, reviewed>>

NoScaffold == [pc |-> "idle", pack |-> Absent, left |-> {}]
EndScaffold(p) == scaffolds' = [scaffolds EXCEPT ![p] = NoScaffold]
Empty == [f \in REQUIRED_FILES |-> Absent]

FlowInit ==
  /\ spec = Absent
  /\ scaffolds = [p \in Scaffolders |-> NoScaffold]
  /\ handoff = Absent
  /\ changes = [p \in Paths |-> "same"]
  /\ touched = {}
  /\ reviewed = {}

-----------------------------------------------------------------------------
(* createSpecScaffold. *)

StartScaffold(p, pack) ==
  /\ scaffolds[p].pc = "idle"
  /\ spec = Absent
  /\ scaffolds' = [scaffolds EXCEPT ![p] = [pc |-> "mkdir", pack |-> pack, left |-> REQUIRED_FILES]]
  /\ UNCHANGED <<spec, handoff, changes, touched, reviewed>>

\* Mutant: mkdir with recursive true takes the directory of another command.
MakeDirectoryShared(p) ==
  /\ scaffolds[p].pc = "mkdir"
  /\ spec' = IF spec = Absent THEN Empty ELSE spec
  /\ scaffolds' = [scaffolds EXCEPT ![p].pc = "write"]
  /\ UNCHANGED <<handoff, changes, touched, reviewed>>

\* mkdir without recursive fails when another command was faster.
MakeDirectory(p) ==
  /\ scaffolds[p].pc = "mkdir"
  /\ IF spec = Absent
     THEN spec' = Empty /\ scaffolds' = [scaffolds EXCEPT ![p].pc = "write"]
     ELSE spec' = spec /\ EndScaffold(p)
  /\ UNCHANGED <<handoff, changes, touched, reviewed>>

\* requirements.md, design.md, tasks.md, in this order.
NextFile(left) ==
  IF "requirements.md" \in left THEN "requirements.md"
  ELSE IF "design.md" \in left THEN "design.md" ELSE "tasks.md"

\* Mutant: the loop takes one turn more than there are files.
WriteFilePastLast(p) ==
  /\ scaffolds[p].pc = "write"
  /\ LET f == NextFile(scaffolds[p].left)
     IN /\ spec' = [spec EXCEPT ![f] = Scaffold(scaffolds[p].pack)[f]]
        /\ touched' = touched \ {f}
        /\ IF scaffolds[p].left = {} THEN EndScaffold(p)
           ELSE scaffolds' = [scaffolds EXCEPT ![p].left = @ \ {f}]
  /\ UNCHANGED <<handoff, changes, reviewed>>

WriteFile(p) ==
  /\ scaffolds[p].pc = "write"
  /\ LET f == NextFile(scaffolds[p].left)
     IN /\ spec' = [spec EXCEPT ![f] = Scaffold(scaffolds[p].pack)[f]]
        /\ touched' = touched \ {f}
        /\ IF scaffolds[p].left = {f} THEN EndScaffold(p)
           ELSE scaffolds' = [scaffolds EXCEPT ![p].left = @ \ {f}]
  /\ UNCHANGED <<handoff, changes, reviewed>>

CrashScaffold(p) ==
  /\ scaffolds[p].pc # "idle"
  /\ EndScaffold(p)
  /\ UNCHANGED <<spec, handoff, changes, touched, reviewed>>

-----------------------------------------------------------------------------
(* createImplementationHandoff. *)

CreateHandoff ==
  /\ Ready(spec)
  /\ handoff = Absent
  /\ handoff' = buildHandoff(spec)
  /\ reviewed' = parseAffectedComponents(spec)
  /\ UNCHANGED <<spec, scaffolds, changes, touched>>

-----------------------------------------------------------------------------
(* People: they edit and remove files and commit to the branch. *)

EditDocument(f) ==
  /\ spec # Absent
  /\ \E d \in Revisions[f] \ {spec[f]} : spec' = [spec EXCEPT ![f] = d]
  /\ touched' = touched \cup {f}
  /\ UNCHANGED <<scaffolds, handoff, changes, reviewed>>

\* What a killed scaffold left is removed before the next one.
RemoveSpec ==
  /\ spec # Absent
  /\ \A p \in Scaffolders : scaffolds[p].pc = "idle"
  /\ spec' = Absent /\ handoff' = Absent
  /\ touched' = {} /\ reviewed' = {}
  /\ UNCHANGED <<scaffolds, changes>>

CommitPath(path) ==
  /\ \E kind \in {"modified", "deleted"} \ {changes[path]} :
       changes' = [changes EXCEPT ![path] = kind]
  /\ UNCHANGED <<spec, scaffolds, handoff, touched, reviewed>>

FlowNext ==
  \/ \E p \in Scaffolders :
       \/ \E pack \in Packs : StartScaffold(p, pack)
       \/ MakeDirectory(p) \/ WriteFile(p) \/ CrashScaffold(p)
  \/ CreateHandoff
  \/ \E f \in REQUIRED_FILES : EditDocument(f)
  \/ RemoveSpec
  \/ \E path \in Paths : CommitPath(path)

FlowSpec == FlowInit /\ [][FlowNext]_flowVars

-----------------------------------------------------------------------------
(* Properties. *)

\* The shapes of the files and of the commands.
FlowTypeOK ==
  /\ spec = Absent \/ spec \in [REQUIRED_FILES -> Documents \cup {Absent}]
  /\ \A p \in Scaffolders : /\ scaffolds[p].pc \in {"idle", "mkdir", "write"}
                      /\ scaffolds[p].pc = "write" => scaffolds[p].left # {} /\ spec # Absent
  /\ handoff = Absent \/ handoff.context \in Packs
  /\ changes \in [Paths -> {"same", "modified", "deleted"}]
  /\ touched \subseteq REQUIRED_FILES /\ reviewed \subseteq Entries

\* Overlapping and killed scaffold commands never mix two Context Packs in one
\* Spec: the files nobody edited come from one pack, because mkdir decides who
\* goes on (createSpecScaffold's existsSync check alone would not).
ScaffoldsDoNotMix ==
  spec # Absent =>
    \A f, g \in REQUIRED_FILES \ touched :
      spec[f] # Absent /\ spec[g] # Absent => spec[f].context = spec[g].context

\* A Spec passes the readiness gate only after people worked on requirements.md
\* and design.md: no scaffold, whole or cut off by a crash, is ready by itself
\* (validateSpecDirectory against buildRequirements and buildDesign).
ReadyMeansEdited == Ready(spec) => {"requirements.md", "design.md"} \subseteq touched

\* docs/implementation-conformance-gate.md:5 says the gate finds changed files
\* outside the Spec's scope: here, of everything the branch did, deletions too.
EveryChangeIsInScope ==
  Conformant(spec, handoff, changes) =>
    \A p \in Paths : changes[p] # "same" => pathAllowed(p, parseAffectedComponents(spec))

\* docs/implementation-conformance-gate.md:5 says that scope is the explicit
\* scope of the reviewed Spec: the one the handoff was made from.
ScopeIsTheReviewedOne ==
  Conformant(spec, handoff, changes) =>
    \A p \in getChangedFilesFromGit(changes) : pathAllowed(p, reviewed)
=============================================================================
