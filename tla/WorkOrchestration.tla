-------------------------- MODULE WorkOrchestration --------------------------
(* The control plane of one feature: work:bootstrap and work:status
   (scripts/work-development-orchestrator.js), verify:gate
   (scripts/run-verification-evidence-gate.js), agent:delegate
   (scripts/create-agent-delegation.js) and, as one step each, the commands of
   AgentTasks that change the same files.  Bootstrap and the gate take several
   steps: bootstrap creates three files and a directory one by one and undoes
   them when one fails; the gate runs the structure check, which takes long,
   between the conformance check and everything else it reads.

   The directory is a function from the artifacts' names to what is in them. *)
EXTENDS TaskGraph, SpecState

CONSTANTS Procs,       \* the bootstrap and gate commands open at one time
          Settings,    \* how a feature is worked on: the commands in use, how many
                       \* bootstraps and gates are open at one time, the Specs
                       \* people write and the role assignments they ask for
          Identities,  \* who writes reviews
          MaxRetries,  \* max-retries of bootstrap and agent:graph:init
          Torn         \* a file cut off while it was written: JSON.parse throws

\* What a file may hold, by kind: a delegation, a graph, a runtime, a review, the
\* evidence; a directory of runs or a local override is a set.
Assignments == UNION {s.delegations : s \in Settings}
Delegations == [roles : Assignments]
Graphs == [status : {"ACTIVE", "COMPLETE", "FAILED"}, maxRetries : Nat, retryCount : Nat,
           roles : Assignments,
           tasks : [Tasks -> {"READY", "BLOCKED", "SKIPPED", "PASS", "FAIL"}],
           history : Seq([event : EVENTS, retryCount : Nat,
                          outcome : {"ACTIVE", "COMPLETE", "RETRY", "FAILED_MAX_RETRIES"}])]
Runtimes == [roles : Assignments, dryRun : BOOLEAN]
Reviews == [status : {"PASS", "FAIL"}, by : Identities]
Evidences == [roles : Assignments, retryCount : Nat, changed : SUBSET Paths,
              review : Reviews, security : Reviews \cup {None}]
Contents == Delegations \cup Graphs \cup Runtimes \cup Reviews \cup Evidences
              \cup {{}, {"reviewer"}}

ASSUME ContentsAssumption ==
  /\ Absent \notin Contents /\ Torn \notin Contents /\ Absent # Torn
  /\ None \notin Reviews /\ None # "chatgpt-builder"
  /\ MaxRetries \in Nat

VARIABLES setting,                  \* how this feature is worked on
          files,                    \* what is in the Spec's directory
          proc,                     \* the bootstrap and gate commands
          bootstrapped              \* history: some bootstrap reported success

vars == <<setting, spec, handoff, changes, files, proc, bootstrapped>>

CORE_ARTIFACTS == {"agent-delegation.json", "agent-task-graph.json", "agent-runtime.json"}
DOWNSTREAM_ARTIFACTS == {"agent-runtime.local.json", "reviewer-review.md",
                         "security-review.md", "verification-evidence.json"}
Artifacts == CORE_ARTIFACTS \cup DOWNSTREAM_ARTIFACTS \cup {"agent-runs"}

Delegation == files["agent-delegation.json"]
Graph == files["agent-task-graph.json"]
Runtime == files["agent-runtime.json"]
Evidence == files["verification-evidence.json"]

Uses(command) == command \in setting.commands
Readable(file) == file \notin {Absent, Torn}
Put(name, content) == files' = [files EXCEPT ![name] = content]

Idle == [pc |-> "idle", roles |-> None, left |-> << >>, created |-> << >>,
         opened |-> {}, changed |-> {}]
MayOpen(p) ==
  proc[p].pc = "idle" /\ Cardinality({q \in Procs : proc[q].pc # "idle"}) < setting.open
Exit(p) == proc' = [proc EXCEPT ![p] = Idle]

\* The Spec was ready when its handoff was made.
Init ==
  /\ setting \in Settings
  /\ spec \in setting.specs /\ Ready(spec)
  /\ handoff = buildHandoff(spec)
  /\ changes = [p \in Paths |-> "same"]
  /\ files = [a \in Artifacts |-> Absent]
  /\ proc = [p \in Procs |-> Idle]
  /\ bootstrapped = FALSE

-----------------------------------------------------------------------------
(* Delegation, graph and runtime documents. *)

\* Mutant: only the Security Reviewer is told from the builder.
validateSecurityReviewer(roles) == roles.builder # roles.securityReviewer
validateDelegationRoles(roles) ==
  roles.builder \notin {roles.reviewer, roles.securityReviewer}

Documents3(roles) ==
  [a \in CORE_ARTIFACTS \cup {"agent-runs"} |->
     CASE a = "agent-delegation.json" -> [roles |-> roles]
       [] a = "agent-task-graph.json" -> createInitialGraph(roles, MaxRetries)
       [] a = "agent-runtime.json" -> [roles |-> roles, dryRun |-> TRUE]
       [] a = "agent-runs" -> {}]

\* inspectArtifactState
present == {a \in Artifacts : files[a] # Absent}
corePresent == present \cap CORE_ARTIFACTS

-----------------------------------------------------------------------------
(* bootstrapWorkOrchestration. *)

preflightBootstrap(roles) ==
  /\ Ready(spec)
  /\ validateHandoff(handoff, spec)
  /\ present = {}
  /\ sensitiveComponents(spec) # {} => roles.securityReviewer # None
  /\ validateDelegationRoles(roles)

StartBootstrap(p) ==
  /\ Uses("bootstrap")
  /\ MayOpen(p)
  /\ \E roles \in setting.delegations :
       /\ preflightBootstrap(roles)
       /\ proc' = [proc EXCEPT ![p] =
            [Idle EXCEPT !.pc = "create", !.roles = roles,
               !.left = <<"agent-delegation.json", "agent-task-graph.json",
                          "agent-runtime.json", "agent-runs">>]]
  /\ UNCHANGED <<setting, spec, handoff, changes, files, bootstrapped>>

\* Mutant: the files are written without the flag "wx".
CreateOverwriting(p) ==
  /\ proc[p].pc = "create"
  /\ LET name == Head(proc[p].left)
     IN IF name = "agent-runs" /\ files[name] # Absent
        THEN /\ proc' = [proc EXCEPT ![p].pc = "rollback"]
             /\ UNCHANGED <<files, bootstrapped>>
        ELSE /\ Put(name, Documents3(proc[p].roles)[name])
             /\ bootstrapped' = (bootstrapped \/ Len(proc[p].left) = 1)
             /\ IF Len(proc[p].left) = 1 THEN Exit(p)
                ELSE proc' = [proc EXCEPT ![p].left = Tail(@),
                                          ![p].created = <<name>> \o @]
  /\ UNCHANGED <<setting, spec, handoff, changes>>

\* The flag "wx", like mkdir, refuses what another command created.
Create(p) ==
  /\ proc[p].pc = "create"
  /\ LET name == Head(proc[p].left)
     IN IF files[name] # Absent
        THEN /\ proc' = [proc EXCEPT ![p].pc = "rollback"]
             /\ UNCHANGED <<files, bootstrapped>>
        ELSE /\ Put(name, Documents3(proc[p].roles)[name])
             /\ bootstrapped' = (bootstrapped \/ Len(proc[p].left) = 1)
             /\ IF Len(proc[p].left) = 1 THEN Exit(p)
                ELSE proc' = [proc EXCEPT ![p].left = Tail(@),
                                          ![p].created = <<name>> \o @,
                                          ![p].opened = @ \cup {name}]
  /\ UNCHANGED <<setting, spec, handoff, changes>>

\* The disk refuses: before the file is opened, or after, when the file is there
\* and is not yet in the list of created ones.
CreateFails(p) ==
  /\ Uses("disk errors")
  /\ proc[p].pc = "create"
  /\ LET name == Head(proc[p].left)
     IN \/ /\ proc' = [proc EXCEPT ![p].pc = "rollback"]
           /\ UNCHANGED files
        \/ /\ files[name] = Absent /\ name # "agent-runs"
           /\ Put(name, Torn)
           /\ proc' = [proc EXCEPT ![p].pc = "rollback", ![p].opened = @ \cup {name}]
  /\ UNCHANGED <<setting, spec, handoff, changes, bootstrapped>>

\* Newest first; an unlink that fails is passed over.
Rollback(p) ==
  /\ proc[p].pc = "rollback"
  /\ IF proc[p].created = << >>
     THEN proc' = [proc EXCEPT ![p].pc = "rolled back"] /\ UNCHANGED files
     ELSE /\ proc' = [proc EXCEPT ![p].created = Tail(@)]
          /\ \/ Put(Head(proc[p].created), Absent)
             \/ Uses("disk errors") /\ UNCHANGED files
  /\ UNCHANGED <<setting, spec, handoff, changes, bootstrapped>>

\* The command prints "failed and was rolled back".
ReportRollback(p) ==
  /\ proc[p].pc = "rolled back"
  /\ Exit(p)
  /\ UNCHANGED <<setting, spec, handoff, changes, files, bootstrapped>>

Crash(p) ==
  /\ Uses("crash")
  /\ proc[p].pc # "idle"
  /\ Exit(p)
  /\ UNCHANGED <<setting, spec, handoff, changes, files, bootstrapped>>

-----------------------------------------------------------------------------
(* The other commands that write here; they overwrite what is there. *)

Others == UNCHANGED <<setting, spec, handoff, changes, proc, bootstrapped>>

\* writeDelegation
Delegate ==
  /\ Uses("delegate")
  /\ \E roles \in setting.delegations :
       validateDelegationRoles(roles) /\ Put("agent-delegation.json", [roles |-> roles])
  /\ Others

\* initGraph
InitGraph ==
  /\ Uses("graph")
  /\ Readable(Delegation) /\ validateDelegationRoles(Delegation.roles)
  /\ Put("agent-task-graph.json", createInitialGraph(Delegation.roles, MaxRetries))
  /\ Others

\* initRuntime
InitRuntime ==
  /\ Uses("runtime")
  /\ Readable(Graph)
  /\ files' = [files EXCEPT !["agent-runtime.json"] = [roles |-> Graph.roles, dryRun |-> TRUE],
                            !["agent-runs"] = {}]
  /\ Others

\* agent-runtime.json edited to a scripted adapter.
EditRuntime ==
  /\ Uses("adapters")
  /\ Readable(Runtime)
  /\ Put("agent-runtime.json", [Runtime EXCEPT !.dryRun = FALSE])
  /\ Others

\* configureCodexReviewer
ConfigureCodexReviewer ==
  /\ Uses("adapters")
  /\ Readable(Runtime)
  /\ Put("agent-runtime.local.json", {"reviewer"})
  /\ Others

\* transitionGraph
ApplyEvent ==
  /\ Uses("event")
  /\ Readable(Graph)
  /\ \E e \in EVENTS : Accepts(Graph, e) /\ Put("agent-task-graph.json", applyEvent(Graph, e))
  /\ Others

\* A reviewer writes reviewer-review.md or security-review.md.
WriteReview ==
  /\ Uses("review")
  /\ \E name \in {"reviewer-review.md", "security-review.md"},
        status \in {"PASS", "FAIL"}, by \in Identities :
       Put(name, [status |-> status, by |-> by])
  /\ Others

EditSpec ==
  /\ Uses("edit")
  /\ \E s \in setting.specs \ {spec} : spec' = s
  /\ UNCHANGED <<setting, handoff, changes, files, proc, bootstrapped>>

Commit ==
  /\ Uses("commit")
  /\ \E p \in Paths : changes[p] = "same" /\ changes' = [changes EXCEPT ![p] = "modified"]
  /\ UNCHANGED <<setting, spec, handoff, files, proc, bootstrapped>>

-----------------------------------------------------------------------------
(* validateVerificationEvidenceGate. *)

\* readTaskGraphState and the comparison of the roles.
GateAcceptsState ==
  /\ Readable(Delegation) /\ validateDelegationRoles(Delegation.roles)
  /\ Readable(Graph) /\ Readable(Runtime)
  /\ Graph.status = "ACTIVE"
  /\ Graph.tasks["verification"] = "READY"
  /\ Graph.roles = Delegation.roles

\* Mutant: any PASS will do, whoever wrote it.
ReviewedByAnyone(name, role) ==
  files[name] # Absent /\ files[name].status = "PASS"

Reviewed(name, role) ==
  /\ files[name] # Absent
  /\ files[name].status = "PASS"
  /\ files[name].by = Delegation.roles[role]

StartGate(p) ==
  /\ Uses("gate")
  /\ MayOpen(p)
  /\ Conformant(spec, handoff, changes)
  /\ proc' = [proc EXCEPT ![p] = [Idle EXCEPT !.pc = "structure",
                                    !.changed = getChangedFilesFromGit(changes)]]
  /\ UNCHANGED <<setting, spec, handoff, changes, files, bootstrapped>>

SecurityReviewRequired(p) ==
  proc[p].changed \cap Sensitive # {} \/ Delegation.roles.securityReviewer # None

EvidenceOf(p) ==
  [roles |-> Delegation.roles, retryCount |-> Graph.retryCount,
   changed |-> proc[p].changed, review |-> files["reviewer-review.md"],
   security |-> IF SecurityReviewRequired(p) THEN files["security-review.md"] ELSE None]

\* The structure check has passed.
PassGate(p) ==
  /\ proc[p].pc = "structure"
  /\ GateAcceptsState
  /\ Reviewed("reviewer-review.md", "reviewer")
  /\ SecurityReviewRequired(p) =>
       /\ Delegation.roles.securityReviewer # None
       /\ Reviewed("security-review.md", "securityReviewer")
  /\ Put("verification-evidence.json", EvidenceOf(p))
  /\ Exit(p)
  /\ UNCHANGED <<setting, spec, handoff, changes, bootstrapped>>

\* The structure check or one of the others failed: nothing is written.
FailGate(p) ==
  /\ proc[p].pc = "structure"
  /\ Exit(p)
  /\ UNCHANGED <<setting, spec, handoff, changes, files, bootstrapped>>

Next ==
  \/ \E p \in Procs :
       \/ StartBootstrap(p) \/ Create(p) \/ CreateFails(p)
       \/ Rollback(p) \/ ReportRollback(p) \/ Crash(p)
       \/ StartGate(p) \/ PassGate(p) \/ FailGate(p)
  \/ Delegate \/ InitGraph \/ InitRuntime \/ EditRuntime \/ ConfigureCodexReviewer
  \/ ApplyEvent \/ WriteReview \/ EditSpec \/ Commit

Spec == Init /\ [][Next]_vars

-----------------------------------------------------------------------------
(* getWorkOrchestrationStatus. *)

\* Every file is parsed, belongs together and says what it may say.
Consistent ==
  /\ \A a \in CORE_ARTIFACTS : Readable(files[a])
  /\ validateDelegationRoles(Delegation.roles)
  /\ Delegation.roles = Graph.roles /\ Graph.roles = Runtime.roles
  /\ Runtime.dryRun
  /\ validateTaskGraphState(Graph)
  /\ Graph.status = "COMPLETE" => Evidence # Absent

\* Mutant: without a core artifact the state counts as empty.
StatusByCore ==
  IF ~Ready(spec) \/ ~validateHandoff(handoff, spec) THEN "INCONSISTENT"
  ELSE IF corePresent = {} THEN "READY_TO_BOOTSTRAP"
  ELSE IF Consistent THEN Graph.status ELSE "INCONSISTENT"

Status ==
  IF ~Ready(spec) \/ ~validateHandoff(handoff, spec) THEN "INCONSISTENT"
  ELSE IF present = {} THEN "READY_TO_BOOTSTRAP"
  ELSE IF Consistent THEN Graph.status ELSE "INCONSISTENT"

readyTask == CHOOSE t \in Tasks : Graph.tasks[t] = "READY"

nextAction ==
  CASE readyTask = "builder" -> "IMPLEMENT_AND_TEST"
    [] readyTask = "reviewer" -> "RUN_CONFORMANCE_AND_INDEPENDENT_REVIEW"
    [] readyTask = "securityReviewer" -> "RUN_INDEPENDENT_SECURITY_REVIEW"
    [] readyTask = "verification" ->
         IF Evidence # Absent THEN "RECORD_VERIFICATION_RESULT" ELSE "RUN_VERIFICATION_GATE"

\* The commands it prints, as they are printed.
nextCommands ==
  IF Status = "READY_TO_BOOTSTRAP" THEN {"work:bootstrap"}
  ELSE IF Status # "ACTIVE" THEN {}
  ELSE CASE readyTask = "reviewer" -> {"impl:conform", "agent:runtime:codex-review"}
         [] readyTask = "verification" ->
              IF Evidence # Absent THEN {"agent:graph:event verify-pass"} ELSE {"verify:gate"}
         [] OTHER -> {}

\* The roles of a work:bootstrap that is typed as printed, with nothing but the
\* feature's name.
AsPrinted ==
  [builder |-> "chatgpt-builder", reviewer |-> "codex-reviewer", securityReviewer |-> None]

\* What a printed command asks of the Spec and of the files before it does its
\* work: impl:conform judges components and changes, verify:gate the structure and
\* the reviews besides.
Takes(command) ==
  CASE command = "work:bootstrap" -> preflightBootstrap(AsPrinted)
    [] command = "impl:conform" -> Ready(spec) /\ validateHandoff(handoff, spec)
    [] command = "agent:runtime:codex-review" -> Readable(Runtime)
    [] command = "agent:graph:event verify-pass" ->
         Readable(Graph) /\ Accepts(Graph, <<"verification", "pass">>)
    [] command = "verify:gate" ->
         Ready(spec) /\ validateHandoff(handoff, spec) /\ GateAcceptsState

-----------------------------------------------------------------------------
(* Properties. *)

\* The shapes of the files and of the commands.
TypeOK ==
  /\ setting \in Settings
  /\ spec \in setting.specs
  /\ DOMAIN files = Artifacts
  /\ Readable(Delegation) =>
       Delegation.roles \in setting.delegations /\ Delegation.roles.builder # Delegation.roles.reviewer
  /\ Readable(Graph) => Graph.status \in {"ACTIVE", "COMPLETE", "FAILED"}
  /\ Readable(Runtime) => Runtime.dryRun \in BOOLEAN
  /\ \A p \in Procs :
       /\ proc[p].pc \in {"idle", "create", "rollback", "rolled back", "structure"}
       /\ proc[p].pc = "create" => proc[p].left # << >>
  /\ bootstrapped \in BOOLEAN

\* Once a bootstrap has reported success its four artifacts stay: the rollback of
\* a second bootstrap that passed the same preflight removes nothing of it
\* (the flag "wx" in bootstrapWorkOrchestration; preflight alone would not do).
BootstrappedIsWhole == bootstrapped => CORE_ARTIFACTS \cup {"agent-runs"} \subseteq present

\* What work:status says agrees with what the other commands do, whatever
\* half-done bootstraps, crashes and overwrites left behind.  Told to bootstrap,
\* people can with any roles that are apart and have the Security Reviewer that
\* the components ask for, and told anything else they cannot; in an ACTIVE graph
\* the READY task can be passed; and no printed command is refused for what is in
\* the files, the bootstrap of sensitive components excepted
\* (getWorkOrchestrationStatus against preflightBootstrap, applyEvent,
\* configureCodexReviewer and the gates).
StatusMatchesCommands ==
  /\ \A roles \in setting.delegations \cup {AsPrinted} :
       preflightBootstrap(roles) <=>
         /\ Status = "READY_TO_BOOTSTRAP"
         /\ validateDelegationRoles(roles)
         /\ sensitiveComponents(spec) # {} => roles.securityReviewer # None
  /\ Status = "ACTIVE" => Accepts(Graph, <<readyTask, "pass">>)
  /\ \A command \in nextCommands :
       Takes(command) \/ (command = "work:bootstrap" /\ sensitiveComponents(spec) # {})

\* What the gate puts on record was reviewed by the delegated people, none of
\* them the builder, however delegation, graph and reviews were replaced while
\* the structure check ran (validateVerificationEvidenceGate).
EvidenceIsIndependent ==
  Evidence # Absent =>
    /\ Evidence.review.status = "PASS"
    /\ Evidence.review.by = Evidence.roles.reviewer
    /\ Evidence.review.by # Evidence.roles.builder
    /\ Evidence.changed \cap Sensitive # {} =>
         Evidence.security # None /\ Evidence.security.by # Evidence.roles.builder

\* "Work orchestration bootstrap failed and was rolled back", says the message
\* (scripts/work-development-orchestrator.js:272): no file the command opened is
\* left when it prints that.
RolledBackMeansGone ==
  \A p \in Procs : proc[p].pc = "rolled back" => proc[p].opened \cap present = {}

\* docs/work-first-development-orchestration.md:44: work:status returns the next
\* permitted action and applicable repository commands.  So the bootstrap that it
\* prints, without a Security Reviewer, is not refused.
PrintedBootstrapIsTaken == "work:bootstrap" \in nextCommands => Takes("work:bootstrap")

\* docs/ai-development-os.md:32: when verification is READY the gate is run and
\* its result recorded.  So a result that is to be recorded is of this attempt.
RecordedResultIsCurrent ==
  Status = "ACTIVE" /\ nextAction = "RECORD_VERIFICATION_RESULT"
    => Evidence.retryCount = Graph.retryCount

\* docs/work-first-development-orchestration.md:20: bootstrap requires a Security
\* Reviewer when the Affected Components contain sensitive paths.
SensitiveScopeHasReviewer ==
  Readable(Delegation) =>
    \A path \in Paths \cap Sensitive :
      Matches[path] \cap parseAffectedComponents(spec) # {}
        => Delegation.roles.securityReviewer # None
=============================================================================
