---------------------- MODULE WorkOrchestrationProofs ----------------------
(***************************************************************************)
(* Proofs about WorkOrchestration, for any Specs, delegations, reviewers   *)
(* and combinations of commands, and any number of bootstraps and gates at *)
(* one time; and, at the end, about SpecFlow, which makes the documents    *)
(* and the handoff that the work starts from.                              *)
(***************************************************************************)
EXTENDS WorkOrchestration, SpecFlow, SequenceTheorems, TLAPS

-----------------------------------------------------------------------------
(* The steps of bootstrap.                                                 *)

delegation == "agent-delegation.json"
graph      == "agent-task-graph.json"
runtime    == "agent-runtime.json"
runs       == "agent-runs"

(* What is left to create and what is created after n steps, and the names *)
(* created.                                                                *)
LeftAfter(n) ==
  IF n = 0 THEN <<delegation, graph, runtime, runs>>
  ELSE IF n = 1 THEN <<graph, runtime, runs>>
  ELSE IF n = 2 THEN <<runtime, runs>>
  ELSE <<runs>>

CreatedAfter(n) ==
  IF n = 0 THEN << >>
  ELSE IF n = 1 THEN <<delegation>>
  ELSE IF n = 2 THEN <<graph, delegation>>
  ELSE <<runtime, graph, delegation>>

NameAfter(n) ==
  IF n = 0 THEN delegation ELSE IF n = 1 THEN graph ELSE IF n = 2 THEN runtime ELSE runs

NamesAfter(n) == {NameAfter(m) : m \in {i \in 0 .. 3 : i < n}}

(* The next name to create is the first of LeftAfter(n).                   *)
LEMMA LeftIs ==
  ASSUME NEW n \in 0 .. 3
  PROVE  /\ LeftAfter(n) # << >>
         /\ Head(LeftAfter(n)) = NameAfter(n)
         /\ Len(LeftAfter(n)) = 1 <=> n = 3
         /\ n # 3 => Tail(LeftAfter(n)) = LeftAfter(n + 1)
<1>1. n = 0 \/ n = 1 \/ n = 2 \/ n = 3
  OBVIOUS
<1> QED BY <1>1 DEF LeftAfter, NameAfter

(* The last name created is the first of CreatedAfter(n).                  *)
LEMMA CreatedIs ==
  ASSUME NEW n \in 0 .. 3
  PROVE  /\ CreatedAfter(n) = << >> <=> n = 0
         /\ n # 3 => <<NameAfter(n)>> \o CreatedAfter(n) = CreatedAfter(n + 1)
         /\ n # 0 => /\ Head(CreatedAfter(n)) = NameAfter(n - 1)
                     /\ Tail(CreatedAfter(n)) = CreatedAfter(n - 1)
<1>1. n = 0 \/ n = 1 \/ n = 2 \/ n = 3
  OBVIOUS
<1>2. \A a, b : <<b>> \o <<a>> = <<b, a>>
  <2> SUFFICES ASSUME NEW a, NEW b PROVE <<b>> \o <<a>> = <<b, a>>
    OBVIOUS
  <2> DEFINE S == {a, b}
  <2>1. <<b>> \in Seq(S) /\ <<a>> \in Seq(S) /\ <<b, a>> \in Seq(S)
    OBVIOUS
  <2>2. /\ Len(<<b>> \o <<a>>) = 2 /\ <<b>> \o <<a>> \in Seq(S)
        /\ \A i \in 1 .. 2 : (<<b>> \o <<a>>)[i] = <<b, a>>[i]
    BY <2>1, ConcatProperties
  <2> QED BY <2>1, <2>2, SeqEqual
<1>3. \A a, b, c : <<c>> \o <<b, a>> = <<c, b, a>>
  <2> SUFFICES ASSUME NEW a, NEW b, NEW c PROVE <<c>> \o <<b, a>> = <<c, b, a>>
    OBVIOUS
  <2> DEFINE S == {a, b, c}
  <2>1. <<c>> \in Seq(S) /\ <<b, a>> \in Seq(S) /\ <<c, b, a>> \in Seq(S)
    OBVIOUS
  <2>2. /\ Len(<<c>> \o <<b, a>>) = 3 /\ <<c>> \o <<b, a>> \in Seq(S)
        /\ \A i \in 1 .. 3 : (<<c>> \o <<b, a>>)[i] = <<c, b, a>>[i]
    BY <2>1, ConcatProperties
  <2> QED BY <2>1, <2>2, SeqEqual
<1>4. CreatedAfter(n) = << >> <=> n = 0
  BY <1>1 DEF CreatedAfter
<1>5. n # 3 => <<NameAfter(n)>> \o CreatedAfter(n) = CreatedAfter(n + 1)
  <2>1. CASE n = 0
    BY <2>1 DEF CreatedAfter, NameAfter
  <2>2. CASE n = 1
    BY <2>2, <1>2 DEF CreatedAfter, NameAfter
  <2>3. CASE n = 2
    BY <2>3, <1>3 DEF CreatedAfter, NameAfter
  <2> QED BY <1>1, <2>1, <2>2, <2>3
<1>6. ASSUME n # 0
      PROVE  /\ Head(CreatedAfter(n)) = NameAfter(n - 1)
             /\ Tail(CreatedAfter(n)) = CreatedAfter(n - 1)
  BY <1>1, <1>6 DEF CreatedAfter, NameAfter
<1> QED BY <1>4, <1>5, <1>6

-----------------------------------------------------------------------------
(* The inductive invariant.                                                *)

PCs == {"idle", "create", "rollback", "rolled back", "structure"}

Command ==
  [pc : PCs, roles : Assignments \cup {None},
   left : {<< >>} \cup {LeftAfter(n) : n \in 0 .. 3},
   created : {CreatedAfter(n) : n \in 0 .. 3},
   opened : SUBSET Artifacts, changed : SUBSET Paths]

(* EvidenceIsIndependent, of a document.                                   *)
Independent(e) ==
  /\ e.review.status = "PASS"
  /\ e.review.by = e.roles.reviewer
  /\ e.review.by # e.roles.builder
  /\ e.changed \cap Sensitive # {} =>
       e.security # None /\ e.security.by # e.roles.builder

(* What may be in a file that is there.                                    *)
Fits(a, c) ==
  /\ c \in Contents \cup {Torn}
  /\ a = delegation => \/ c = Torn
                       \/ /\ c \in Delegations
                          /\ c.roles \in setting.delegations
                          /\ validateDelegationRoles(c.roles)
  /\ a = graph => c = Torn \/ c \in Graphs
  /\ a = runtime => c = Torn \/ c \in Runtimes
  /\ a \in {"reviewer-review.md", "security-review.md"} => c \in Reviews
  /\ a = "verification-evidence.json" => c \in Evidences /\ Independent(c)

FilesInv ==
  /\ files \in [Artifacts -> Contents \cup {Absent, Torn}]
  /\ \A a \in Artifacts : files[a] = Absent \/ Fits(a, files[a])

(* A bootstrap creates the artifacts in order, and what it has created and *)
(* not yet removed is there.                                               *)
At(p, n) ==
  /\ proc[p].created = CreatedAfter(n)
  /\ NamesAfter(n) \subseteq present
  /\ proc[p].pc \in {"idle", "rolled back", "structure"} => n = 0
  /\ proc[p].pc = "create" =>
       /\ proc[p].left = LeftAfter(n)
       /\ proc[p].roles \in setting.delegations
       /\ validateDelegationRoles(proc[p].roles)

CommandInv(p) == \E n \in 0 .. 3 : At(p, n)

(* Only one bootstrap at a time has created anything, for all start with   *)
(* the delegation; and none has, once one has reported success.            *)
OwnerInv ==
  /\ \A p, q \in Procs : proc[p].created # << >> /\ proc[q].created # << >> => p = q
  /\ bootstrapped => \A p \in Procs : proc[p].created = << >>

SettingInv == setting \in Settings /\ spec \in setting.specs

IInv ==
  /\ SettingInv
  /\ FilesInv
  /\ proc \in [Procs -> Command]
  /\ \A p \in Procs : CommandInv(p)
  /\ OwnerInv
  /\ BootstrappedIsWhole
  /\ bootstrapped \in BOOLEAN

-----------------------------------------------------------------------------
(* Facts about the files.                                                  *)

(* A file that fits is there.                                              *)
LEMMA FitsIsThere == \A a, c : Fits(a, c) => c # Absent
BY ContentsAssumption DEF Fits

(* Writing what fits, or removing, changes one file and keeps the others.  *)
LEMMA PutKeepsFiles ==
  ASSUME FilesInv, NEW name \in Artifacts, NEW content, Put(name, content),
         content = Absent \/ Fits(name, content), UNCHANGED setting
  PROVE  /\ FilesInv'
         /\ files'[name] = content
         /\ \A a \in Artifacts \ {name} : files'[a] = files[a]
<1>1. content \in Contents \cup {Absent, Torn}
  BY DEF Fits
<1>2. /\ files' \in [Artifacts -> Contents \cup {Absent, Torn}]
      /\ files'[name] = content
      /\ \A a \in Artifacts \ {name} : files'[a] = files[a]
  BY <1>1 DEF FilesInv, Put
<1>3. ASSUME NEW a \in Artifacts PROVE (files[a] = Absent \/ Fits(a, files[a]))'
  <2>1. files'[a] = files[a] \/ (a = name /\ files'[a] = content)
    BY <1>2
  <2>2. files'[a] = Absent \/ Fits(a, files'[a])
    BY <2>1 DEF FilesInv
  <2> QED BY <2>2 DEF Fits
<1> QED BY <1>2, <1>3 DEF FilesInv

(* A task's event is the history's, the tasks' and the counter's type.     *)
LEMMA RecordedType ==
  ASSUME NEW g \in Graphs, NEW e \in EVENTS, NEW n \in Nat,
         NEW outcome \in {"ACTIVE", "COMPLETE", "RETRY", "FAILED_MAX_RETRIES"}
  PROVE  Recorded(g, e, outcome, n) \in Graphs
<1> DEFINE x == [event |-> e, outcome |-> outcome, retryCount |-> n]
<1>1. Append(g.history, x) \in
        Seq([event : EVENTS, retryCount : Nat,
             outcome : {"ACTIVE", "COMPLETE", "RETRY", "FAILED_MAX_RETRIES"}])
  BY AppendProperties DEF Graphs
<1>2. Recorded(g, e, outcome, n) = [g EXCEPT !.history = Append(g.history, x)]
  BY DEF Recorded, Graphs
<1> HIDE DEF x
<1> QED BY <1>1, <1>2 DEF Graphs

(* applyEvent makes a graph of a graph.                                    *)
LEMMA EventType ==
  ASSUME NEW g \in Graphs, NEW e \in EVENTS, g.status = "ACTIVE"
  PROVE  applyEvent(g, e) \in Graphs
<1>1. e[1] \in Tasks /\ e[2] \in {"pass", "fail"}
  BY DEF EVENTS
<1>2. /\ InitialTasks(g.roles) \in [Tasks -> {"READY", "BLOCKED", "SKIPPED", "PASS", "FAIL"}]
      /\ NextTask(g.roles, e[1]) \in Tasks
  BY DEF InitialTasks, NextTask, Tasks
<1>3. CASE e[2] = "pass"
  <2> DEFINE next == Passed(g, e[1])
  <2>1. next \in Graphs /\ next.status \in {"ACTIVE", "COMPLETE"}
    <3>1. CASE e[1] = "verification"
      <4>1. [g.tasks EXCEPT ![e[1]] = "PASS"] \in
              [Tasks -> {"READY", "BLOCKED", "SKIPPED", "PASS", "FAIL"}]
        BY <1>1 DEF Graphs
      <4>2. next = [g EXCEPT !.tasks = [g.tasks EXCEPT ![e[1]] = "PASS"],
                             !.status = "COMPLETE"]
        BY <3>1 DEF Passed, Graphs
      <4> HIDE DEF next
      <4> QED BY <4>1, <4>2 DEF Graphs
    <3>2. CASE e[1] # "verification"
      <4> DEFINE t == NextTask(g.roles, e[1])
      <4>1. [[g.tasks EXCEPT ![e[1]] = "PASS"] EXCEPT ![t] = "READY"] \in
              [Tasks -> {"READY", "BLOCKED", "SKIPPED", "PASS", "FAIL"}]
        BY <1>1, <1>2 DEF Graphs
      <4>2. next = [g EXCEPT !.tasks = [[g.tasks EXCEPT ![e[1]] = "PASS"] EXCEPT ![t] = "READY"]]
        BY <3>2 DEF Passed, Graphs
      <4> HIDE DEF next, t
      <4> QED BY <4>1, <4>2 DEF Graphs
    <3> QED BY <3>1, <3>2
  <2>2. applyEvent(g, e) = Recorded(next, e, next.status, next.retryCount)
    BY <1>3 DEF applyEvent
  <2> HIDE DEF next
  <2>3. next.retryCount \in Nat
    BY <2>1 DEF Graphs
  <2> QED BY <2>1, <2>2, <2>3, RecordedType
<1>4. CASE e[2] # "pass"
  <2> DEFINE failed == [g EXCEPT !.tasks[e[1]] = "FAIL"]
  <2>1. failed \in Graphs
    <3>1. [g.tasks EXCEPT ![e[1]] = "FAIL"] \in
            [Tasks -> {"READY", "BLOCKED", "SKIPPED", "PASS", "FAIL"}]
      BY <1>1 DEF Graphs
    <3>2. failed = [g EXCEPT !.tasks = [g.tasks EXCEPT ![e[1]] = "FAIL"]]
      BY DEF Graphs
    <3> HIDE DEF failed
    <3> QED BY <3>1, <3>2 DEF Graphs
  <2>2. failed.roles = g.roles /\ failed.retryCount + 1 \in Nat
    BY DEF Graphs
  <2>3. applyEvent(g, e) = resetForRetry(failed, e)
    BY <1>4 DEF applyEvent
  <2> HIDE DEF failed
  <2>4. [failed EXCEPT !.status = "FAILED"] \in Graphs
    BY <2>1 DEF Graphs
  <2>5. [failed EXCEPT !.retryCount = @ + 1, !.tasks = InitialTasks(failed.roles)] \in Graphs
    BY <1>2, <2>1, <2>2 DEF Graphs
  <2> QED BY <2>2, <2>3, <2>4, <2>5, RecordedType DEF resetForRetry
<1> QED BY <1>3, <1>4

(* The first graph of a delegation is a graph.                             *)
LEMMA InitialType ==
  ASSUME NEW roles \in Assignments
  PROVE  createInitialGraph(roles, MaxRetries) \in Graphs
<1>1. InitialTasks(roles) \in [Tasks -> {"READY", "BLOCKED", "SKIPPED", "PASS", "FAIL"}]
  BY DEF InitialTasks
<1> QED BY <1>1, ContentsAssumption DEF createInitialGraph, Graphs

-----------------------------------------------------------------------------
(* Steps that remove nothing.                                              *)

(* Files that are the same or fit keep the files' part, and every file     *)
(* that is there.                                                          *)
LEMMA FilesGrow ==
  ASSUME FilesInv, UNCHANGED setting,
         files' \in [Artifacts -> Contents \cup {Absent, Torn}],
         \A a \in Artifacts : files'[a] = files[a] \/ Fits(a, files'[a])
  PROVE  FilesInv' /\ present \subseteq present'
<1>1. ASSUME NEW a \in Artifacts PROVE (files[a] = Absent \/ Fits(a, files[a]))'
  <2>1. files'[a] = Absent \/ Fits(a, files'[a])
    BY DEF FilesInv
  <2> QED BY <2>1 DEF Fits
<1>2. present \subseteq present'
  BY FitsIsThere DEF present
<1> QED BY <1>1, <1>2 DEF FilesInv

(* Writing one file that fits does so.                                     *)
LEMMA PutGrows ==
  ASSUME FilesInv, NEW name \in Artifacts, NEW content, Fits(name, content),
         Put(name, content), UNCHANGED setting
  PROVE  FilesInv' /\ present \subseteq present'
<1>1. /\ FilesInv' /\ files'[name] = content
      /\ \A a \in Artifacts \ {name} : files'[a] = files[a]
  BY PutKeepsFiles
<1>2. present \subseteq present'
  BY <1>1, FitsIsThere DEF present
<1> QED BY <1>1, <1>2

(* A command that is not touched stays where it is while the files grow.   *)
LEMMA AtStays ==
  ASSUME NEW p, NEW n, At(p, n), present \subseteq present',
         UNCHANGED <<setting, proc[p]>>
  PROVE  At(p, n)'
BY DEF At

(* Steps that are no bootstrap's and no gate's, on files that grow.        *)
LEMMA OtherStep ==
  ASSUME IInv, UNCHANGED <<setting, proc, bootstrapped>>, spec' \in setting.specs,
         FilesInv', present \subseteq present'
  PROVE  IInv'
<1>1. \A p \in Procs : CommandInv(p)'
  <2> SUFFICES ASSUME NEW p \in Procs PROVE CommandInv(p)'
    OBVIOUS
  <2>1. PICK n \in 0 .. 3 : At(p, n)
    BY DEF IInv, CommandInv
  <2>2. At(p, n)'
    BY <2>1, AtStays
  <2> QED BY <2>2 DEF CommandInv
<1>2. OwnerInv' /\ BootstrappedIsWhole'
  BY DEF IInv, OwnerInv, BootstrappedIsWhole
<1> QED BY <1>1, <1>2 DEF IInv, SettingInv

(* Steps of one command, on files that grow, that create nothing new.      *)
LEMMA CommandStep ==
  ASSUME IInv, NEW p \in Procs, NEW c \in Command, proc' = [proc EXCEPT ![p] = c],
         UNCHANGED <<setting, spec, bootstrapped>>,
         FilesInv', present \subseteq present',
         CommandInv(p)', c.created \in {proc[p].created, << >>}
  PROVE  IInv'
<1>1. /\ proc' \in [Procs -> Command] /\ proc'[p] = c
      /\ \A q \in Procs \ {p} : proc'[q] = proc[q]
  BY DEF IInv
<1>2. ASSUME NEW q \in Procs PROVE CommandInv(q)'
  <2>1. CASE q = p
    BY <2>1
  <2>2. CASE q # p
    <3>1. PICK n \in 0 .. 3 : At(q, n)
      BY DEF IInv, CommandInv
    <3>2. At(q, n)'
      BY <1>1, <2>2, <3>1, AtStays
    <3> QED BY <3>2 DEF CommandInv
  <2> QED BY <2>1, <2>2
<1>3. OwnerInv'
  <2>1. \A q \in Procs : proc'[q].created # << >> => proc[q].created # << >>
    BY <1>1
  <2> QED BY <2>1 DEF IInv, OwnerInv
<1>4. BootstrappedIsWhole'
  BY DEF IInv, BootstrappedIsWhole
<1> QED BY <1>1, <1>2, <1>3, <1>4 DEF IInv, SettingInv

(* The settings' assignments.                                              *)
LEMMA AssignmentType ==
  ASSUME SettingInv
  PROVE  setting.delegations \subseteq Assignments
BY DEF SettingInv, Assignments

(* A command that is not at work has created nothing.                      *)
LEMMA IdleIs ==
  /\ Idle \in Command /\ Idle.pc = "idle" /\ Idle.created = << >>
  /\ Idle.left = << >>
BY CreatedIs DEF Idle, Command, PCs, CreatedAfter

(* Where nothing is created CommandInv says nothing of the files.          *)
LEMMA NothingCreated ==
  ASSUME NEW p \in Procs
  PROVE  /\ proc[p].created = << >> /\ proc[p].pc # "create" => CommandInv(p)
         /\ (proc[p].created = << >> /\ proc[p].pc # "create" => CommandInv(p))'
<1>1. NamesAfter(0) = {} /\ CreatedAfter(0) = << >>
  BY DEF NamesAfter, CreatedAfter
<1>2. proc[p].created = << >> /\ proc[p].pc # "create" => At(p, 0)
  BY <1>1 DEF At
<1>3. (proc[p].created = << >> /\ proc[p].pc # "create" => At(p, 0))'
  BY <1>1 DEF At
<1> QED BY <1>2, <1>3 DEF CommandInv

(* A command that ends, whatever it left behind.                           *)
LEMMA ExitStep ==
  ASSUME IInv, NEW p \in Procs, Exit(p), UNCHANGED <<setting, spec, bootstrapped>>,
         FilesInv', present \subseteq present'
  PROVE  IInv'
<1>1. proc' = [proc EXCEPT ![p] = Idle] /\ proc'[p] = Idle
  BY DEF IInv, Exit
<1>2. (proc[p].created = << >> /\ proc[p].pc # "create")'
  BY <1>1, IdleIs
<1>3. CommandInv(p)'
  BY <1>2, NothingCreated
<1> QED BY <1>1, <1>3, IdleIs, CommandStep

-----------------------------------------------------------------------------
(* The commands that overwrite, people and the gate.                       *)

(* agent:delegate                                                          *)
LEMMA DelegateStep == ASSUME IInv, Delegate PROVE IInv'
<1>1. PICK roles \in setting.delegations :
        validateDelegationRoles(roles) /\ Put(delegation, [roles |-> roles])
  BY DEF Delegate, delegation
<1>2. roles \in Assignments
  BY AssignmentType DEF IInv
<1>3. Fits(delegation, [roles |-> roles])
  BY <1>1, <1>2
     DEF Fits, Contents, Delegations, delegation, graph, runtime
<1>4. FilesInv' /\ present \subseteq present'
  BY <1>1, <1>3, PutGrows DEF IInv, Delegate, Others, Artifacts, CORE_ARTIFACTS, delegation
<1> QED BY <1>4, OtherStep DEF Delegate, Others, IInv, SettingInv

(* agent:graph:init makes the graph of the delegation that is there.       *)
LEMMA InitGraphStep == ASSUME IInv, InitGraph PROVE IInv'
<1> DEFINE g == createInitialGraph(Delegation.roles, MaxRetries)
<1>1. Delegation.roles \in Assignments
  <2>1. Fits(delegation, Delegation) /\ Delegation # Torn
    BY DEF InitGraph, Readable, Delegation, IInv, FilesInv, Artifacts, CORE_ARTIFACTS, delegation
  <2> QED BY <2>1, AssignmentType DEF Fits, IInv
<1>2. g \in Graphs
  BY <1>1, InitialType
<1> HIDE DEF g
<1>3. Fits(graph, g)
  BY <1>2 DEF Fits, Contents, delegation, graph, runtime
<1>4. Put(graph, g)
  BY DEF InitGraph, graph, g
<1>5. FilesInv' /\ present \subseteq present'
  BY <1>3, <1>4, PutGrows DEF IInv, InitGraph, Others, Artifacts, CORE_ARTIFACTS, graph
<1> QED BY <1>5, OtherStep DEF InitGraph, Others, IInv, SettingInv

(* agent:runtime:init writes the runtime of the graph and empties the runs.*)
LEMMA InitRuntimeStep == ASSUME IInv, InitRuntime PROVE IInv'
<1> DEFINE r == [roles |-> Graph.roles, dryRun |-> TRUE]
<1>1. Graph \in Graphs
  BY DEF InitRuntime, Readable, Graph, IInv, FilesInv, Fits, Artifacts, CORE_ARTIFACTS, graph
<1>2. r \in Runtimes
  BY <1>1 DEF Graphs, Runtimes
<1> HIDE DEF r
<1>3. Fits(runtime, r) /\ Fits(runs, {})
  BY <1>2 DEF Fits, Contents, delegation, graph, runtime, runs
<1>4. files' = [files EXCEPT ![runtime] = r, ![runs] = {}]
  BY DEF InitRuntime, runtime, runs, r
<1>5. r \in Contents /\ {} \in Contents
  BY <1>2 DEF Contents
<1>6. files' \in [Artifacts -> Contents \cup {Absent, Torn}]
  BY <1>4, <1>5 DEF IInv, FilesInv
<1>7. \A a \in Artifacts : files'[a] = files[a] \/ Fits(a, files'[a])
  <2>1. runtime # runs
    BY DEF runtime, runs
  <2>2. \A a \in Artifacts : files'[a] = IF a = runs THEN {} ELSE IF a = runtime THEN r ELSE files[a]
    BY <1>4, <2>1 DEF IInv, FilesInv
  <2> QED BY <1>3, <2>2
<1>8. FilesInv' /\ present \subseteq present'
  BY <1>6, <1>7, FilesGrow DEF IInv, InitRuntime, Others
<1> QED BY <1>8, OtherStep DEF InitRuntime, Others, IInv, SettingInv

(* agent-runtime.json and its local override edited.                       *)
LEMMA RuntimeEdits == ASSUME IInv, EditRuntime \/ ConfigureCodexReviewer PROVE IInv'
<1>1. CASE EditRuntime
  <2> DEFINE r == [Runtime EXCEPT !.dryRun = FALSE]
  <2>1. Runtime \in Runtimes
    BY <1>1
       DEF EditRuntime, Readable, Runtime, IInv, FilesInv, Fits, Artifacts, CORE_ARTIFACTS, runtime
  <2>2. r \in Runtimes
    BY <2>1 DEF Runtimes
  <2> HIDE DEF r
  <2>3. Fits(runtime, r)
    BY <2>2 DEF Fits, Contents, delegation, graph, runtime
  <2>4. Put(runtime, r)
    BY <1>1 DEF EditRuntime, runtime, r
  <2>5. FilesInv' /\ present \subseteq present'
    BY <1>1, <2>3, <2>4, PutGrows DEF IInv, EditRuntime, Others, Artifacts, CORE_ARTIFACTS, runtime
  <2> QED BY <1>1, <2>5, OtherStep DEF EditRuntime, Others, IInv, SettingInv
<1>2. CASE ConfigureCodexReviewer
  <2> DEFINE name == "agent-runtime.local.json"
  <2>1. Fits(name, {"reviewer"}) /\ name \in Artifacts
    BY DEF Fits, Contents, delegation, graph, runtime, Artifacts, DOWNSTREAM_ARTIFACTS
  <2>2. Put(name, {"reviewer"})
    BY <1>2 DEF ConfigureCodexReviewer
  <2> HIDE DEF name
  <2>3. FilesInv' /\ present \subseteq present'
    BY <1>2, <2>1, <2>2, PutGrows DEF IInv, ConfigureCodexReviewer, Others
  <2> QED BY <1>2, <2>3, OtherStep DEF ConfigureCodexReviewer, Others, IInv, SettingInv
<1> QED BY <1>1, <1>2

(* agent:graph:event                                                       *)
LEMMA ApplyEventStep == ASSUME IInv, ApplyEvent PROVE IInv'
<1>1. PICK e \in EVENTS : Accepts(Graph, e) /\ Put(graph, applyEvent(Graph, e))
  BY DEF ApplyEvent, graph
<1>2. Graph \in Graphs /\ Graph.status = "ACTIVE"
  BY <1>1
     DEF ApplyEvent, Readable, Accepts, Graph, IInv, FilesInv, Fits, Artifacts, CORE_ARTIFACTS,
         graph
<1>3. applyEvent(Graph, e) \in Graphs
  BY <1>2, EventType
<1>4. Fits(graph, applyEvent(Graph, e))
  BY <1>3 DEF Fits, Contents, delegation, graph, runtime
<1>5. FilesInv' /\ present \subseteq present'
  BY <1>1, <1>4, PutGrows DEF IInv, ApplyEvent, Others, Artifacts, CORE_ARTIFACTS, graph
<1> QED BY <1>5, OtherStep DEF ApplyEvent, Others, IInv, SettingInv

(* A review is written.                                                    *)
LEMMA WriteReviewStep == ASSUME IInv, WriteReview PROVE IInv'
<1>1. PICK name \in {"reviewer-review.md", "security-review.md"},
           status \in {"PASS", "FAIL"}, by \in Identities :
        Put(name, [status |-> status, by |-> by])
  BY DEF WriteReview
<1>2. [status |-> status, by |-> by] \in Reviews
  BY DEF Reviews
<1>3. Fits(name, [status |-> status, by |-> by]) /\ name \in Artifacts
  BY <1>2 DEF Fits, Contents, delegation, graph, runtime, Artifacts, DOWNSTREAM_ARTIFACTS
<1>4. FilesInv' /\ present \subseteq present'
  BY <1>1, <1>3, PutGrows DEF IInv, WriteReview, Others
<1> QED BY <1>4, OtherStep DEF WriteReview, Others, IInv, SettingInv

(* Steps that leave the Spec's directory and the commands alone.           *)
LEMMA PeopleStep == ASSUME IInv, EditSpec \/ Commit PROVE IInv'
<1>1. /\ UNCHANGED <<setting, files, proc, bootstrapped>>
      /\ spec' \in setting.specs
  BY DEF EditSpec, Commit, IInv, SettingInv
<1>2. FilesInv' /\ present \subseteq present'
  BY <1>1 DEF IInv, FilesInv, Fits, present
<1> QED BY <1>1, <1>2, OtherStep

(* The gate reads the changed files and starts the structure check.        *)
LEMMA StartGateStep == ASSUME IInv, NEW p \in Procs, StartGate(p) PROVE IInv'
<1> DEFINE c == [Idle EXCEPT !.pc = "structure", !.changed = getChangedFilesFromGit(changes)]
<1>1. c \in Command /\ c.pc = "structure" /\ c.created = << >>
  <2>1. getChangedFilesFromGit(changes) \in SUBSET Paths
    BY DEF getChangedFilesFromGit
  <2> QED BY <2>1, IdleIs DEF Command, PCs
<1>2. proc' = [proc EXCEPT ![p] = c]
  BY DEF StartGate
<1> HIDE DEF c
<1>3. proc'[p] = c
  BY <1>2 DEF IInv
<1>4. FilesInv' /\ present \subseteq present'
  BY DEF IInv, FilesInv, Fits, present, StartGate
<1>5. CommandInv(p)'
  BY <1>1, <1>3, NothingCreated
<1> QED BY <1>1, <1>2, <1>4, <1>5, CommandStep DEF StartGate

(* The gate puts on record what it compared: reviews by the delegated      *)
(* people, none of whom is the builder.                                    *)
LEMMA PassGateStep == ASSUME IInv, NEW p \in Procs, PassGate(p) PROVE IInv'
<1>1. /\ Delegation \in Delegations /\ Delegation.roles \in Assignments
      /\ validateDelegationRoles(Delegation.roles)
  BY AssignmentType
     DEF PassGate, GateAcceptsState, Readable, Delegation, IInv, FilesInv, Fits, Artifacts,
         CORE_ARTIFACTS, delegation
<1>2. Graph \in Graphs
  BY DEF PassGate, GateAcceptsState, Readable, Graph, IInv, FilesInv, Fits, Artifacts,
         CORE_ARTIFACTS, graph
<1> DEFINE review   == files["reviewer-review.md"]
           security == files["security-review.md"]
<1>3. review \in Reviews /\ review.status = "PASS" /\ review.by = Delegation.roles.reviewer
  BY DEF PassGate, Reviewed, IInv, FilesInv, Fits, Artifacts, DOWNSTREAM_ARTIFACTS
<1>4. SecurityReviewRequired(p) =>
        security \in Reviews /\ security.by = Delegation.roles.securityReviewer
  BY DEF PassGate, Reviewed, IInv, FilesInv, Fits, Artifacts, DOWNSTREAM_ARTIFACTS
<1>5. proc[p].changed \in SUBSET Paths
  BY DEF IInv, Command
<1> DEFINE e == EvidenceOf(p)
<1>6. /\ e.roles = Delegation.roles /\ e.retryCount = Graph.retryCount
      /\ e.changed = proc[p].changed /\ e.review = review
      /\ e.security = IF SecurityReviewRequired(p) THEN security ELSE None
  BY DEF EvidenceOf
<1>7. e \in Evidences
  <2>1. (IF SecurityReviewRequired(p) THEN security ELSE None) \in Reviews \cup {None}
    BY <1>4
  <2>2. Graph.retryCount \in Nat
    BY <1>2 DEF Graphs
  <2> HIDE DEF review, security
  <2> QED BY <1>1, <1>3, <1>5, <2>1, <2>2 DEF EvidenceOf, Evidences, review, security
<1> HIDE DEF e, review, security
<1>8. Independent(e)
  <2>1. e.review.by # e.roles.builder
    BY <1>1, <1>3, <1>6 DEF validateDelegationRoles
  <2>2. ASSUME e.changed \cap Sensitive # {}
        PROVE  e.security # None /\ e.security.by # e.roles.builder
    <3>1. SecurityReviewRequired(p)
      BY <1>6, <2>2 DEF SecurityReviewRequired
    <3>2. e.security = security /\ security \in Reviews
      BY <1>4, <1>6, <3>1
    <3>3. e.security.by = e.roles.securityReviewer
      BY <1>4, <1>6, <3>1, <3>2
    <3> QED BY <1>1, <1>6, <3>2, <3>3, ContentsAssumption DEF validateDelegationRoles
  <2> QED BY <1>3, <1>6, <2>1, <2>2 DEF Independent
<1>9. Fits("verification-evidence.json", e)
  BY <1>7, <1>8 DEF Fits, Contents, delegation, graph, runtime
<1>10. Put("verification-evidence.json", e) /\ "verification-evidence.json" \in Artifacts
  BY DEF PassGate, e, Artifacts, DOWNSTREAM_ARTIFACTS
<1>11. FilesInv' /\ present \subseteq present'
  BY <1>9, <1>10, PutGrows DEF IInv, PassGate
<1> QED BY <1>11, ExitStep DEF PassGate

(* The commands that end without a change to the files.                    *)
LEMMA EndStep ==
  ASSUME IInv, NEW p \in Procs, FailGate(p) \/ ReportRollback(p) \/ Crash(p)
  PROVE  IInv'
<1>1. /\ Exit(p)
      /\ UNCHANGED <<setting, spec, files, bootstrapped>>
  BY DEF FailGate, ReportRollback, Crash
<1>2. FilesInv' /\ present \subseteq present'
  BY <1>1 DEF IInv, FilesInv, Fits, present
<1> QED BY <1>1, <1>2, ExitStep

-----------------------------------------------------------------------------
(* The steps of bootstrap.                                                 *)

(* The names are artifacts, each in its place.                             *)
LEMMA NamesAre ==
  /\ \A n \in 0 .. 3 : NameAfter(n) \in Artifacts
  /\ \A n \in 0 .. 2 : NameAfter(n) \in CORE_ARTIFACTS
  /\ \A m, n \in 0 .. 3 : NameAfter(m) = NameAfter(n) => m = n
  /\ \A n \in 1 .. 3 : NameAfter(n - 1) \in NamesAfter(n) /\ delegation \in NamesAfter(n)
  /\ \A n \in 0 .. 2 : NamesAfter(n + 1) = NamesAfter(n) \cup {NameAfter(n)}
  /\ \A n \in 1 .. 3 : NamesAfter(n - 1) = NamesAfter(n) \ {NameAfter(n - 1)}
  /\ CORE_ARTIFACTS \cup {"agent-runs"} = NamesAfter(3) \cup {NameAfter(3)}
<1>1. /\ NameAfter(0) = delegation /\ NameAfter(1) = graph
      /\ NameAfter(2) = runtime /\ NameAfter(3) = runs
  BY DEF NameAfter
<1>2. /\ NamesAfter(0) = {} /\ NamesAfter(1) = {delegation}
      /\ NamesAfter(2) = {delegation, graph} /\ NamesAfter(3) = {delegation, graph, runtime}
  BY <1>1 DEF NamesAfter
<1>3. \A n \in 0 .. 3 : n = 0 \/ n = 1 \/ n = 2 \/ n = 3
  OBVIOUS
<1>4. /\ delegation = "agent-delegation.json" /\ graph = "agent-task-graph.json"
      /\ runtime = "agent-runtime.json" /\ runs = "agent-runs"
  BY DEF delegation, graph, runtime, runs
<1> USE DEF Artifacts, CORE_ARTIFACTS
<1>5. \A n \in 0 .. 3 : NameAfter(n) \in Artifacts
  BY <1>1, <1>3, <1>4
<1>6. \A n \in 0 .. 2 : NameAfter(n) \in CORE_ARTIFACTS
  BY <1>1, <1>3, <1>4
<1>7. \A m, n \in 0 .. 3 : NameAfter(m) = NameAfter(n) => m = n
  BY <1>1, <1>3, <1>4
<1>8. \A n \in 1 .. 3 : NameAfter(n - 1) \in NamesAfter(n) /\ delegation \in NamesAfter(n)
  BY <1>1, <1>2, <1>3
<1>9. \A n \in 0 .. 2 : NamesAfter(n + 1) = NamesAfter(n) \cup {NameAfter(n)}
  BY <1>1, <1>2, <1>3
<1>10. \A n \in 1 .. 3 : NamesAfter(n - 1) = NamesAfter(n) \ {NameAfter(n - 1)}
  BY <1>1, <1>2, <1>3, <1>4
<1>11. CORE_ARTIFACTS \cup {"agent-runs"} = NamesAfter(3) \cup {NameAfter(3)}
  BY <1>1, <1>2, <1>4
<1> QED BY <1>5, <1>6, <1>7, <1>8, <1>9, <1>10, <1>11

(* bootstrap starts with roles that passed the preflight.                  *)
LEMMA StartBootstrapStep == ASSUME IInv, NEW p \in Procs, StartBootstrap(p) PROVE IInv'
<1>1. PICK roles \in setting.delegations :
        /\ preflightBootstrap(roles)
        /\ proc' = [proc EXCEPT ![p] =
             [Idle EXCEPT !.pc = "create", !.roles = roles,
                !.left = <<"agent-delegation.json", "agent-task-graph.json",
                           "agent-runtime.json", "agent-runs">>]]
  BY DEF StartBootstrap
<1> DEFINE c == [Idle EXCEPT !.pc = "create", !.roles = roles, !.left = LeftAfter(0)]
<1>2. LeftAfter(0) = <<"agent-delegation.json", "agent-task-graph.json",
                       "agent-runtime.json", "agent-runs">>
  BY DEF LeftAfter, delegation, graph, runtime, runs
<1>3. proc' = [proc EXCEPT ![p] = c]
  BY <1>1, <1>2
<1>4. roles \in Assignments
  BY AssignmentType DEF IInv
<1>5. /\ c \in Command /\ c.pc = "create" /\ c.roles = roles
      /\ c.left = LeftAfter(0) /\ c.created = << >>
  <2>1. LeftAfter(0) \in {LeftAfter(n) : n \in 0 .. 3}
    OBVIOUS
  <2> DEFINE left == LeftAfter(0)
  <2> HIDE DEF left
  <2>2. [Idle EXCEPT !.pc = "create", !.roles = roles, !.left = left].created = Idle.created
    BY DEF Idle
  <2>3. [Idle EXCEPT !.pc = "create", !.roles = roles, !.left = left].left = left
    BY DEF Idle
  <2>4. left \in {LeftAfter(n) : n \in 0 .. 3}
    BY <2>1 DEF left
  <2>5. [Idle EXCEPT !.pc = "create", !.roles = roles, !.left = left] \in Command
    BY <1>4, <2>4, IdleIs DEF Command, PCs
  <2>6. /\ [Idle EXCEPT !.pc = "create", !.roles = roles, !.left = left].pc = "create"
        /\ [Idle EXCEPT !.pc = "create", !.roles = roles, !.left = left].roles = roles
    BY DEF Idle
  <2> QED BY <2>2, <2>3, <2>5, <2>6, IdleIs DEF left
<1> HIDE DEF c
<1>6. proc'[p] = c
  BY <1>3 DEF IInv
<1>7. FilesInv' /\ present \subseteq present'
  BY DEF IInv, FilesInv, Fits, present, StartBootstrap
<1>8. CommandInv(p)'
  <2>1. NamesAfter(0) = {} /\ CreatedAfter(0) = << >> /\ 0 \in 0 .. 3
    BY DEF NamesAfter, CreatedAfter
  <2>2. At(p, 0)'
    BY <1>1, <1>5, <1>6, <2>1 DEF At, preflightBootstrap, StartBootstrap
  <2> QED BY <2>1, <2>2 DEF CommandInv
<1> QED BY <1>3, <1>5, <1>7, <1>8, CommandStep DEF StartBootstrap

(* A command that turns to its rollback keeps its list of created files.   *)
LEMMA TurnStep ==
  ASSUME IInv, NEW p \in Procs, NEW o \in SUBSET Artifacts, proc[p].pc = "create",
         proc' = [proc EXCEPT ![p].pc = "rollback", ![p].opened = o],
         UNCHANGED <<setting, spec, bootstrapped>>, FilesInv', present \subseteq present'
  PROVE  IInv'
<1> DEFINE c == [proc[p] EXCEPT !.pc = "rollback", !.opened = o]
<1>1. proc[p] \in Command
  BY DEF IInv
<1>2. c \in Command /\ c.pc = "rollback" /\ c.created = proc[p].created
  BY <1>1 DEF Command, PCs
<1>3. proc' = [proc EXCEPT ![p] = c]
  BY DEF IInv
<1> HIDE DEF c
<1>4. proc'[p] = c
  BY <1>3 DEF IInv
<1>5. CommandInv(p)'
  <2>1. PICK n \in 0 .. 3 : At(p, n)
    BY DEF IInv, CommandInv
  <2>2. At(p, n)'
    BY <1>2, <1>4, <2>1 DEF At
  <2> QED BY <2>2 DEF CommandInv
<1> QED BY <1>2, <1>3, <1>5, CommandStep

(* The file or directory that bootstrap creates next fits.                 *)
LEMMA DocumentFits ==
  ASSUME SettingInv, NEW n \in 0 .. 3, NEW roles \in setting.delegations,
         validateDelegationRoles(roles)
  PROVE  Fits(NameAfter(n), Documents3(roles)[NameAfter(n)])
<1> DEFINE D == Documents3(roles)
<1>1. roles \in Assignments
  BY AssignmentType
<1>2. n = 0 \/ n = 1 \/ n = 2 \/ n = 3
  OBVIOUS
<1>3. /\ D[delegation] = [roles |-> roles]
      /\ D[graph] = createInitialGraph(roles, MaxRetries)
      /\ D[runtime] = [roles |-> roles, dryRun |-> TRUE]
      /\ D[runs] = {}
  BY DEF Documents3, delegation, graph, runtime, runs, CORE_ARTIFACTS
<1>4. /\ [roles |-> roles] \in Delegations /\ [roles |-> roles].roles = roles
      /\ [roles |-> roles, dryRun |-> TRUE] \in Runtimes
      /\ createInitialGraph(roles, MaxRetries) \in Graphs
  BY <1>1, InitialType DEF Delegations, Runtimes
<1>5. Fits(delegation, D[delegation])
  BY <1>3, <1>4 DEF Fits, Contents, delegation, graph, runtime
<1>6. Fits(graph, D[graph])
  BY <1>3, <1>4 DEF Fits, Contents, delegation, graph, runtime
<1>7. Fits(runtime, D[runtime])
  BY <1>3, <1>4 DEF Fits, Contents, delegation, graph, runtime
<1>8. Fits(runs, D[runs])
  BY <1>3 DEF Fits, Contents, delegation, graph, runtime, runs
<1> HIDE DEF D
<1>9. Fits(NameAfter(n), D[NameAfter(n)])
  BY <1>2, <1>5, <1>6, <1>7, <1>8 DEF NameAfter
<1> QED BY <1>9 DEF D

(* Creating the next artifact, which the flag "wx" allows only where no    *)
(* other bootstrap has created it: from the delegation on the directory    *)
(* is this command's, until it has reported success.                       *)
LEMMA CreateStep == ASSUME IInv, NEW p \in Procs, Create(p) PROVE IInv'
<1>1. proc[p] \in Command /\ proc[p].pc = "create"
  BY DEF IInv, Create
<1>2. PICK n \in 0 .. 3 : At(p, n)
  BY DEF IInv, CommandInv
<1> DEFINE roles == proc[p].roles
           name  == NameAfter(n)
<1>3. /\ proc[p].left = LeftAfter(n) /\ proc[p].created = CreatedAfter(n)
      /\ NamesAfter(n) \subseteq present
      /\ roles \in setting.delegations /\ validateDelegationRoles(roles)
  BY <1>1, <1>2 DEF At
<1>4. /\ Head(proc[p].left) = name /\ (Len(proc[p].left) = 1 <=> n = 3)
      /\ name \in Artifacts
  BY <1>3, LeftIs, NamesAre
<1>5. CASE files[name] # Absent
  <2>1. proc' = [proc EXCEPT ![p].pc = "rollback"]
        /\ UNCHANGED <<setting, spec, files, bootstrapped>>
    BY <1>4, <1>5 DEF Create
  <2>2. proc' = [proc EXCEPT ![p].pc = "rollback", ![p].opened = proc[p].opened]
    BY <1>1, <2>1 DEF IInv, Command
  <2>3. FilesInv' /\ present \subseteq present'
    BY <2>1 DEF IInv, FilesInv, Fits, present
  <2>4. proc[p].opened \in SUBSET Artifacts
    BY <1>1 DEF Command
  <2> QED BY <1>1, <2>1, <2>2, <2>3, <2>4, TurnStep
<1>6. CASE files[name] = Absent
  <2>1. /\ Put(name, Documents3(roles)[name])
        /\ bootstrapped' = (bootstrapped \/ Len(proc[p].left) = 1)
        /\ IF Len(proc[p].left) = 1 THEN Exit(p)
           ELSE proc' = [proc EXCEPT ![p].left = Tail(@),
                                     ![p].created = <<name>> \o @,
                                     ![p].opened = @ \cup {name}]
        /\ UNCHANGED <<setting, spec>>
    BY <1>4, <1>6 DEF Create
  <2>2. Fits(name, Documents3(roles)[name])
    BY <1>3, DocumentFits DEF IInv
  <2>3. FilesInv' /\ present \subseteq present' /\ name \in present'
    <3>1. FilesInv' /\ present \subseteq present'
      BY <1>4, <2>1, <2>2, PutGrows DEF IInv
    <3>2. files'[name] = Documents3(roles)[name]
      BY <1>4, <2>1, <2>2, PutKeepsFiles DEF IInv
    <3>3. files'[name] # Absent
      BY <2>2, <3>2, FitsIsThere
    <3> QED BY <1>4, <3>1, <3>3 DEF present
  <2>4. name \notin present
    BY <1>6 DEF present
  <2>5. ~bootstrapped
    <3>1. name \in CORE_ARTIFACTS \cup {"agent-runs"}
      <4>1. n \in 0 .. 2 \/ n = 3
        OBVIOUS
      <4> QED BY <4>1, NamesAre
    <3> QED BY <2>4, <3>1 DEF IInv, BootstrappedIsWhole
  <2>6. \A q \in Procs \ {p} : proc[q].created = << >>
    <3> SUFFICES ASSUME NEW q \in Procs \ {p}, proc[q].created # << >> PROVE FALSE
      OBVIOUS
    <3>1. PICK m \in 0 .. 3 : At(q, m)
      BY DEF IInv, CommandInv
    <3>2. m \in 1 .. 3
      <4>1. CreatedAfter(m) # << >>
        BY <3>1 DEF At
      <4>2. m # 0
        BY <4>1, CreatedIs
      <4> QED BY <4>2
    <3>3. delegation \in present
      BY <3>1, <3>2, NamesAre DEF At
    <3>4. n # 0
      BY <2>4, <3>3 DEF NameAfter
    <3>5. proc[p].created # << >>
      BY <1>3, <3>4, CreatedIs
    <3> QED BY <3>5 DEF IInv, OwnerInv
  <2>7. CASE n = 3
    <3>1. bootstrapped' = TRUE /\ proc' = [proc EXCEPT ![p] = Idle]
      BY <1>4, <2>1, <2>7 DEF Exit
    <3>2. /\ proc' \in [Procs -> Command] /\ proc'[p] = Idle
          /\ \A q \in Procs \ {p} : proc'[q] = proc[q]
      BY <3>1, IdleIs DEF IInv
    <3>3. \A q \in Procs : proc'[q].created = << >>
      BY <2>6, <3>2, IdleIs
    <3>4. ASSUME NEW q \in Procs PROVE CommandInv(q)'
      <4>1. CASE q = p
        BY <3>2, <4>1, IdleIs, NothingCreated
      <4>2. CASE q # p
        <5>1. PICK m \in 0 .. 3 : At(q, m)
          BY DEF IInv, CommandInv
        <5>2. At(q, m)'
          BY <2>1, <2>3, <3>2, <4>2, <5>1, AtStays
        <5> QED BY <5>2 DEF CommandInv
      <4> QED BY <4>1, <4>2
    <3>5. BootstrappedIsWhole'
      BY <1>3, <2>3, <2>7, NamesAre DEF BootstrappedIsWhole
    <3>6. OwnerInv'
      BY <3>3 DEF OwnerInv
    <3> QED BY <2>1, <2>3, <3>1, <3>2, <3>4, <3>5, <3>6 DEF IInv, SettingInv
  <2>8. CASE n # 3
    <3> DEFINE o == proc[p].opened \cup {name}
               c == [proc[p] EXCEPT !.left = LeftAfter(n + 1),
                                    !.created = CreatedAfter(n + 1), !.opened = o]
    <3>1. n + 1 \in 0 .. 3 /\ n \in 0 .. 2
      BY <2>8
    <3>2. Tail(proc[p].left) = LeftAfter(n + 1) /\ <<name>> \o proc[p].created = CreatedAfter(n + 1)
      BY <1>3, <2>8, LeftIs, CreatedIs
    <3>3. ~bootstrapped' /\ proc' = [proc EXCEPT ![p] = c]
      <4>1. Len(proc[p].left) # 1
        BY <1>4, <2>8
      <4>2. bootstrapped' = bootstrapped
        BY <2>1, <4>1 DEF IInv
      <4>3. proc' = [proc EXCEPT ![p].left = Tail(@), ![p].created = <<name>> \o @,
                                 ![p].opened = @ \cup {name}]
        BY <2>1, <4>1
      <4>4. proc' = [proc EXCEPT ![p] = [proc[p] EXCEPT !.left = Tail(@),
                                   !.created = <<name>> \o @, !.opened = @ \cup {name}]]
        BY <4>3 DEF IInv
      <4> QED BY <2>5, <3>2, <4>2, <4>4
    <3>4. /\ c \in Command /\ c.pc = "create" /\ c.roles = roles
          /\ c.left = LeftAfter(n + 1) /\ c.created = CreatedAfter(n + 1)
      <4>1. o \in SUBSET Artifacts
        BY <1>1, <1>4 DEF Command
      <4> HIDE DEF o
      <4> QED BY <1>1, <3>1, <4>1 DEF Command
    <3> HIDE DEF c
    <3>5. /\ proc' \in [Procs -> Command] /\ proc'[p] = c
          /\ \A q \in Procs \ {p} : proc'[q] = proc[q]
      BY <3>3, <3>4 DEF IInv
    <3>6. ASSUME NEW q \in Procs PROVE CommandInv(q)'
      <4>1. CASE q = p
        <5>1. NamesAfter(n + 1) \subseteq present'
          BY <1>3, <2>3, <3>1, NamesAre
        <5>2. At(p, n + 1)'
          BY <1>3, <2>1, <3>4, <3>5, <5>1 DEF At
        <5> QED BY <3>1, <4>1, <5>2 DEF CommandInv
      <4>2. CASE q # p
        <5>1. PICK m \in 0 .. 3 : At(q, m)
          BY DEF IInv, CommandInv
        <5>2. At(q, m)'
          BY <2>1, <2>3, <3>5, <4>2, <5>1, AtStays
        <5> QED BY <5>2 DEF CommandInv
      <4> QED BY <4>1, <4>2
    <3>7. OwnerInv' /\ BootstrappedIsWhole'
      BY <2>6, <3>3, <3>5 DEF OwnerInv, BootstrappedIsWhole
    <3> QED BY <2>1, <2>3, <3>3, <3>5, <3>6, <3>7 DEF IInv, SettingInv
  <2> QED BY <2>7, <2>8
<1> QED BY <1>5, <1>6

(* A disk that refuses, before or after the file is opened: what is torn   *)
(* is a core artifact, never a review or the evidence.                     *)
LEMMA CreateFailsStep == ASSUME IInv, NEW p \in Procs, CreateFails(p) PROVE IInv'
<1>1. proc[p] \in Command /\ proc[p].pc = "create"
  BY DEF IInv, CreateFails
<1>2. PICK n \in 0 .. 3 : At(p, n)
  BY DEF IInv, CommandInv
<1> DEFINE name == NameAfter(n)
<1>3. Head(proc[p].left) = name /\ name \in Artifacts
  BY <1>1, <1>2, LeftIs, NamesAre DEF At
<1>4. UNCHANGED <<setting, spec, bootstrapped>> /\ proc[p].opened \in SUBSET Artifacts
  BY <1>1 DEF CreateFails, Command
<1>5. ASSUME proc' = [proc EXCEPT ![p].pc = "rollback"], UNCHANGED files
      PROVE  IInv'
  <2>1. proc' = [proc EXCEPT ![p].pc = "rollback", ![p].opened = proc[p].opened]
    BY <1>1, <1>5 DEF IInv, Command
  <2>2. FilesInv' /\ present \subseteq present'
    BY <1>4, <1>5 DEF IInv, FilesInv, Fits, present
  <2> QED BY <1>1, <1>4, <2>1, <2>2, TurnStep
<1>6. ASSUME name # "agent-runs", Put(name, Torn),
             proc' = [proc EXCEPT ![p].pc = "rollback", ![p].opened = @ \cup {name}]
      PROVE  IInv'
  <2>1. name \in {delegation, graph, runtime}
    BY <1>6 DEF NameAfter, runs
  <2>2. Fits(name, Torn)
    BY <2>1 DEF Fits, delegation, graph, runtime
  <2>3. FilesInv' /\ present \subseteq present'
    BY <1>3, <1>4, <1>6, <2>2, PutGrows DEF IInv
  <2>4. proc' = [proc EXCEPT ![p].pc = "rollback", ![p].opened = proc[p].opened \cup {name}]
    BY <1>6
  <2>5. proc[p].opened \cup {name} \in SUBSET Artifacts
    BY <1>3, <1>4
  <2> QED BY <1>1, <1>4, <2>3, <2>4, <2>5, TurnStep
<1> QED BY <1>3, <1>5, <1>6 DEF CreateFails

(* Removing what this command created last: only this command has created  *)
(* anything, and none has reported success.                                *)
LEMMA RollbackStep == ASSUME IInv, NEW p \in Procs, Rollback(p) PROVE IInv'
<1>1. /\ proc[p] \in Command /\ proc[p].pc = "rollback"
      /\ UNCHANGED <<setting, spec, bootstrapped>>
  BY DEF IInv, Rollback
<1>2. PICK n \in 0 .. 3 : At(p, n)
  BY DEF IInv, CommandInv
<1>3. CASE proc[p].created = << >>
  <2> DEFINE c == [proc[p] EXCEPT !.pc = "rolled back"]
  <2>1. c \in Command /\ c.pc = "rolled back" /\ c.created = << >>
    BY <1>1, <1>3 DEF Command, PCs
  <2>2. proc' = [proc EXCEPT ![p] = c] /\ UNCHANGED files
    BY <1>3 DEF Rollback, IInv
  <2> HIDE DEF c
  <2>3. proc'[p] = c
    BY <2>2 DEF IInv
  <2>4. CommandInv(p)'
    BY <2>1, <2>3, NothingCreated
  <2>5. FilesInv' /\ present \subseteq present'
    BY <1>1, <2>2 DEF IInv, FilesInv, Fits, present
  <2> QED BY <1>1, <2>1, <2>2, <2>4, <2>5, CommandStep
<1>4. CASE proc[p].created # << >>
  <2>1. proc[p].created = CreatedAfter(n) /\ NamesAfter(n) \subseteq present
    BY <1>2 DEF At
  <2>2. n \in 1 .. 3 /\ n - 1 \in 0 .. 3
    <3>1. n # 0
      BY <1>4, <2>1, CreatedIs
    <3> QED BY <3>1
  <2> DEFINE name == NameAfter(n - 1)
             c == [proc[p] EXCEPT !.created = CreatedAfter(n - 1)]
  <2>3. /\ Head(proc[p].created) = name /\ Tail(proc[p].created) = CreatedAfter(n - 1)
        /\ name \in Artifacts
    BY <2>1, <2>2, CreatedIs, NamesAre
  <2>4. c \in Command /\ c.pc = "rollback" /\ c.created = CreatedAfter(n - 1)
    <3>1. CreatedAfter(n - 1) \in {CreatedAfter(m) : m \in 0 .. 3}
      BY <2>2
    <3> QED BY <1>1, <3>1 DEF Command
  <2>5. proc' = [proc EXCEPT ![p] = c] /\ (Put(name, Absent) \/ UNCHANGED files)
    BY <1>4, <2>3 DEF Rollback, IInv
  <2> HIDE DEF c
  <2>6. /\ proc' \in [Procs -> Command] /\ proc'[p] = c
        /\ \A q \in Procs \ {p} : proc'[q] = proc[q]
    BY <2>4, <2>5 DEF IInv
  <2>7. FilesInv' /\ NamesAfter(n - 1) \subseteq present'
    <3>1. NamesAfter(n - 1) = NamesAfter(n) \ {name}
      BY <2>2, NamesAre
    <3>2. CASE Put(name, Absent)
      <4>1. FilesInv' /\ \A a \in Artifacts \ {name} : files'[a] = files[a]
        BY <1>1, <2>3, <3>2, PutKeepsFiles DEF IInv
      <4> QED BY <2>1, <3>1, <4>1 DEF present
    <3>3. CASE UNCHANGED files
      <4>1. FilesInv' /\ present' = present
        BY <1>1, <3>3 DEF IInv, FilesInv, Fits, present
      <4> QED BY <2>1, <3>1, <4>1
    <3> QED BY <2>5, <3>2, <3>3
  <2>8. ~bootstrapped /\ \A q \in Procs \ {p} : proc[q].created = << >>
    BY <1>4 DEF IInv, OwnerInv
  <2>9. ASSUME NEW q \in Procs PROVE CommandInv(q)'
    <3>1. CASE q = p
      <4>1. At(p, n - 1)'
        BY <2>4, <2>6, <2>7 DEF At
      <4> QED BY <2>2, <3>1, <4>1 DEF CommandInv
    <3>2. CASE q # p
      <4>1. PICK m \in 0 .. 3 : At(q, m)
        BY DEF IInv, CommandInv
      <4>2. m = 0
        <5>1. CreatedAfter(m) = << >>
          BY <2>8, <3>2, <4>1 DEF At
        <5> QED BY <5>1, CreatedIs
      <4>3. NamesAfter(0) = {}
        BY DEF NamesAfter
      <4>4. At(q, 0)'
        BY <1>1, <2>6, <3>2, <4>1, <4>2, <4>3 DEF At
      <4>5. 0 \in 0 .. 3
        OBVIOUS
      <4> QED BY <4>4, <4>5 DEF CommandInv
    <3> QED BY <3>1, <3>2
  <2>10. OwnerInv' /\ BootstrappedIsWhole'
    BY <1>1, <2>6, <2>8 DEF OwnerInv, BootstrappedIsWhole
  <2> QED BY <1>1, <2>6, <2>7, <2>9, <2>10 DEF IInv, SettingInv
<1> QED BY <1>3, <1>4

-----------------------------------------------------------------------------
(* The theorems.                                                           *)

(* At first nothing is written and nothing is open.                        *)
LEMMA InitIInv == Init => IInv
<1> SUFFICES ASSUME Init PROVE IInv
  OBVIOUS
<1>1. /\ SettingInv /\ bootstrapped = FALSE
      /\ files \in [Artifacts -> Contents \cup {Absent, Torn}]
      /\ \A a \in Artifacts : files[a] = Absent
      /\ \A p \in Procs : proc[p] = Idle
  BY DEF Init, SettingInv
<1>2. proc \in [Procs -> Command]
  BY IdleIs DEF Init
<1>3. \A p \in Procs : CommandInv(p)
  BY <1>1, IdleIs, NothingCreated
<1>4. OwnerInv /\ BootstrappedIsWhole
  BY <1>1, IdleIs DEF OwnerInv, BootstrappedIsWhole
<1> QED BY <1>1, <1>2, <1>3, <1>4 DEF IInv, FilesInv

(* Every step keeps it.                                                    *)
LEMMA NextIInv == IInv /\ [Next]_vars => IInv'
<1> SUFFICES ASSUME IInv, [Next]_vars PROVE IInv'
  OBVIOUS
<1>1. ASSUME NEW p \in Procs, StartBootstrap(p) PROVE IInv'
  BY <1>1, StartBootstrapStep
<1>2. ASSUME NEW p \in Procs, Create(p) PROVE IInv'
  BY <1>2, CreateStep
<1>3. ASSUME NEW p \in Procs, CreateFails(p) PROVE IInv'
  BY <1>3, CreateFailsStep
<1>4. ASSUME NEW p \in Procs, Rollback(p) PROVE IInv'
  BY <1>4, RollbackStep
<1>5. ASSUME NEW p \in Procs, ReportRollback(p) \/ Crash(p) \/ FailGate(p) PROVE IInv'
  BY <1>5, EndStep
<1>6. ASSUME NEW p \in Procs, StartGate(p) PROVE IInv'
  BY <1>6, StartGateStep
<1>7. ASSUME NEW p \in Procs, PassGate(p) PROVE IInv'
  BY <1>7, PassGateStep
<1>8. CASE Delegate
  BY <1>8, DelegateStep
<1>9. CASE InitGraph
  BY <1>9, InitGraphStep
<1>10. CASE InitRuntime
  BY <1>10, InitRuntimeStep
<1>11. CASE EditRuntime \/ ConfigureCodexReviewer
  BY <1>11, RuntimeEdits
<1>12. CASE ApplyEvent
  BY <1>12, ApplyEventStep
<1>13. CASE WriteReview
  BY <1>13, WriteReviewStep
<1>14. CASE EditSpec \/ Commit
  BY <1>14, PeopleStep
<1>15. CASE UNCHANGED vars
  <2>1. UNCHANGED <<setting, spec, files, proc, bootstrapped>>
    BY <1>15 DEF vars
  <2>2. FilesInv' /\ present \subseteq present' /\ spec' \in setting.specs
    BY <2>1 DEF IInv, SettingInv, FilesInv, Fits, present
  <2> QED BY <2>1, <2>2, OtherStep
<1> QED BY <1>1, <1>2, <1>3, <1>4, <1>5, <1>6, <1>7, <1>8, <1>9, <1>10, <1>11, <1>12,
           <1>13, <1>14, <1>15 DEF Next

(* The invariant the others follow from: a bootstrap that has created      *)
(* anything is the only one, what it created is there in its order, and    *)
(* each file holds what its readers expect.                                *)
THEOREM Invariance == Spec => []IInv
<1> QED BY InitIInv, NextIInv, PTL DEF Spec

(* The files and commands have the shapes that the code reads.             *)
THEOREM TypeCorrect == Spec => []TypeOK
<1>1. IInv => TypeOK
  <2> SUFFICES ASSUME IInv PROVE TypeOK
    OBVIOUS
  <2>1. SettingInv /\ DOMAIN files = Artifacts /\ bootstrapped \in BOOLEAN
    BY DEF IInv, FilesInv
  <2>2. Readable(Delegation) =>
          Delegation.roles \in setting.delegations /\ Delegation.roles.builder # Delegation.roles.reviewer
    BY DEF Readable, Delegation, IInv, FilesInv, Fits, Artifacts, CORE_ARTIFACTS, delegation,
           validateDelegationRoles
  <2>3. Readable(Graph) => Graph.status \in {"ACTIVE", "COMPLETE", "FAILED"}
    <3>1. Readable(Graph) => Graph \in Graphs
      BY DEF Readable, Graph, IInv, FilesInv, Fits, Artifacts, CORE_ARTIFACTS, graph
    <3> QED BY <3>1 DEF Graphs
  <2>4. Readable(Runtime) => Runtime.dryRun \in BOOLEAN
    <3>1. Readable(Runtime) => Runtime \in Runtimes
      BY DEF Readable, Runtime, IInv, FilesInv, Fits, Artifacts, CORE_ARTIFACTS, runtime
    <3> QED BY <3>1 DEF Runtimes
  <2>5. ASSUME NEW p \in Procs
        PROVE  /\ proc[p].pc \in {"idle", "create", "rollback", "rolled back", "structure"}
               /\ proc[p].pc = "create" => proc[p].left # << >>
    <3>1. proc[p].pc \in PCs
      BY DEF IInv, Command
    <3>2. proc[p].pc = "create" => \E n \in 0 .. 3 : proc[p].left = LeftAfter(n)
      BY DEF IInv, CommandInv, At
    <3> QED BY <3>1, <3>2, LeftIs DEF PCs
  <2> QED BY <2>1, <2>2, <2>3, <2>4, <2>5 DEF TypeOK, SettingInv
<1> QED BY <1>1, Invariance, PTL

(* Once a bootstrap has reported success its artifacts stay, whatever      *)
(* other bootstraps do and undo (bootstrapWorkOrchestration).              *)
THEOREM BootstrapsStayWhole == Spec => []BootstrappedIsWhole
<1>1. IInv => BootstrappedIsWhole
  BY DEF IInv
<1> QED BY <1>1, Invariance, PTL

(* The evidence that the gate writes was reviewed by people who are not    *)
(* the builder (validateVerificationEvidenceGate).                         *)
THEOREM EvidencesAreIndependent == Spec => []EvidenceIsIndependent
<1>1. IInv => EvidenceIsIndependent
  BY DEF EvidenceIsIndependent, Evidence, IInv, FilesInv, Fits, Independent, Artifacts,
         DOWNSTREAM_ARTIFACTS, delegation, graph, runtime
<1> QED BY <1>1, Invariance, PTL

(* work:status agrees with the commands: bootstrap starts exactly where    *)
(* READY_TO_BOOTSTRAP is said and the roles are the ones it asks for; of a *)
(* graph that validateTaskGraphState lets through, the READY task's pass   *)
(* is accepted; and the commands that are printed find what they ask for,  *)
(* but for the bootstrap of sensitive components.                          *)
THEOREM StatusMatches == Spec => []StatusMatchesCommands
<1>1. IInv => StatusMatchesCommands
  <2> SUFFICES ASSUME IInv PROVE StatusMatchesCommands
    OBVIOUS
  <2>1. Consistent => Graph.status \in {"ACTIVE", "COMPLETE", "FAILED"}
    <3>1. Consistent => Graph \in Graphs
      BY DEF Consistent, Readable, Graph, IInv, FilesInv, Fits, Artifacts, CORE_ARTIFACTS, graph
    <3> QED BY <3>1 DEF Graphs
  <2>2. (Status = "READY_TO_BOOTSTRAP") <=>
          Ready(spec) /\ validateHandoff(handoff, spec) /\ present = {}
    BY <2>1 DEF Status
  <2>3. \A roles \in setting.delegations \cup {AsPrinted} :
          preflightBootstrap(roles) <=>
            /\ Status = "READY_TO_BOOTSTRAP"
            /\ validateDelegationRoles(roles)
            /\ sensitiveComponents(spec) # {} => roles.securityReviewer # None
    BY <2>2 DEF preflightBootstrap
  <2>4. ASSUME Status = "ACTIVE"
        PROVE  /\ Ready(spec) /\ validateHandoff(handoff, spec)
               /\ Consistent /\ Graph.status = "ACTIVE"
               /\ readyTask \in Tasks /\ Graph.tasks[readyTask] = "READY"
               /\ Accepts(Graph, <<readyTask, "pass">>)
    <3>1. Ready(spec) /\ validateHandoff(handoff, spec) /\ Consistent /\ Graph.status = "ACTIVE"
      BY <2>4 DEF Status
    <3>2. PICK t \in Tasks : StandsAt(Graph, t, "READY")
      BY <3>1 DEF Consistent, validateTaskGraphState
    <3>3. Graph.tasks[t] = "READY" /\ Delegated(Graph.roles, t)
          /\ \A u \in Tasks : Graph.tasks[u] = "READY" => Delegated(Graph.roles, u)
      BY <3>2 DEF StandsAt
    <3>4. readyTask \in Tasks /\ Graph.tasks[readyTask] = "READY"
      BY <3>3 DEF readyTask
    <3>5. Accepts(Graph, <<readyTask, "pass">>)
      BY <3>1, <3>3, <3>4 DEF Accepts
    <3> QED BY <3>1, <3>4, <3>5
  <2>5. ASSUME NEW command \in nextCommands
        PROVE  Takes(command) \/ (command = "work:bootstrap" /\ sensitiveComponents(spec) # {})
    <3>1. CASE Status = "READY_TO_BOOTSTRAP"
      <4>1. command = "work:bootstrap"
        BY <2>5, <3>1 DEF nextCommands
      <4>2. validateDelegationRoles(AsPrinted)
        BY ContentsAssumption DEF validateDelegationRoles, AsPrinted
      <4>3. sensitiveComponents(spec) = {} => preflightBootstrap(AsPrinted)
        BY <2>3, <3>1, <4>2
      <4> QED BY <4>1, <4>3 DEF Takes
    <3>2. CASE Status = "ACTIVE"
      <4>1. CASE readyTask = "reviewer"
        <5>1. command \in {"impl:conform", "agent:runtime:codex-review"}
          BY <2>5, <3>2, <4>1 DEF nextCommands
        <5>2. Readable(Runtime)
          BY <2>4, <3>2 DEF Consistent, Runtime, CORE_ARTIFACTS
        <5> QED BY <2>4, <3>2, <5>1, <5>2 DEF Takes
      <4>2. CASE readyTask = "verification"
        <5>1. command \in {"agent:graph:event verify-pass", "verify:gate"}
          BY <2>5, <3>2, <4>2 DEF nextCommands
        <5>2. GateAcceptsState
          BY <2>4, <3>2, <4>2 DEF GateAcceptsState, Consistent, Delegation, Graph, Runtime,
                                  CORE_ARTIFACTS
        <5>3. Readable(Graph)
          BY <5>2 DEF GateAcceptsState
        <5> QED BY <2>4, <3>2, <4>2, <5>1, <5>2, <5>3 DEF Takes
      <4>3. CASE readyTask \notin {"reviewer", "verification"}
        BY <2>5, <3>2, <4>3 DEF nextCommands
      <4> QED BY <4>1, <4>2, <4>3
    <3>3. CASE Status \notin {"READY_TO_BOOTSTRAP", "ACTIVE"}
      BY <2>5, <3>3 DEF nextCommands
    <3> QED BY <3>1, <3>2, <3>3
  <2> QED BY <2>3, <2>4, <2>5 DEF StatusMatchesCommands
<1> QED BY <1>1, Invariance, PTL

-----------------------------------------------------------------------------
(* The Spec before the work on it: SpecFlow, whose documents, handoff and  *)
(* branch are the ones that orchestration starts with.                     *)

(* A scaffold command, by where it stands.                                 *)
ScaffoldCommand ==
  [pc : {"idle", "mkdir", "write"}, pack : Packs \cup {Absent}, left : SUBSET REQUIRED_FILES]

(* A file nobody edited since is not there or as it was scaffolded.        *)
UneditedInv ==
  spec # Absent =>
    \A f \in REQUIRED_FILES \ touched :
      spec[f] = Absent \/ \E pack \in Packs : spec[f] = Scaffold(pack)[f]

(* Only the command that made the directory writes, and as long as it does *)
(* every file nobody edited is of its Context Pack.                        *)
WriterInv ==
  /\ \A p, q \in Scaffolders : scaffolds[p].pc = "write" /\ scaffolds[q].pc = "write" => p = q
  /\ \A p \in Scaffolders :
       scaffolds[p].pc = "write" =>
         /\ spec # Absent
         /\ \A f \in REQUIRED_FILES \ touched :
              spec[f] # Absent => spec[f].context = scaffolds[p].pack

(* The inductive invariant of SpecFlow.                                    *)
FlowInv ==
  /\ spec = Absent \/ spec \in [REQUIRED_FILES -> Documents \cup {Absent}]
  /\ scaffolds \in [Scaffolders -> ScaffoldCommand]
  /\ \A p \in Scaffolders :
       scaffolds[p].pc # "idle" => scaffolds[p].pack \in Packs /\ scaffolds[p].left # {}
  /\ handoff = Absent \/ handoff.context \in Packs
  /\ changes \in [Paths -> {"same", "modified", "deleted"}]
  /\ touched \subseteq REQUIRED_FILES /\ reviewed \subseteq Entries
  /\ UneditedInv
  /\ WriterInv
  /\ ScaffoldsDoNotMix

-----------------------------------------------------------------------------
(* Facts about the documents.                                              *)

(* What the generator writes is a document of its Context Pack, and the    *)
(* two that people have to fill in still have their placeholders.          *)
LEMMA ScaffoldIs ==
  ASSUME SpecFlowAssumption, NEW pack \in Packs, NEW f \in REQUIRED_FILES
  PROVE  /\ Scaffold(pack)[f] \in Documents /\ Scaffold(pack)[f] # Absent
         /\ Scaffold(pack)[f].context = pack
         /\ f # "tasks.md" => Scaffold(pack)[f].placeholders
<1>1. /\ buildTasks(pack) \in Documents /\ buildTasks(pack).context = pack
      /\ buildRequirements(pack) \in Documents /\ buildRequirements(pack).context = pack
      /\ buildRequirements(pack).placeholders
      /\ buildDesign(pack) \in Documents /\ buildDesign(pack).context = pack
      /\ buildDesign(pack).placeholders
  BY DEF buildTasks, buildRequirements, buildDesign, Documents
<1>2. \/ f = "requirements.md" /\ Scaffold(pack)[f] = buildRequirements(pack)
      \/ f = "design.md" /\ Scaffold(pack)[f] = buildDesign(pack)
      \/ f = "tasks.md" /\ Scaffold(pack)[f] = buildTasks(pack)
  BY DEF Scaffold, REQUIRED_FILES
<1> QED BY <1>1, <1>2, SpecFlowAssumption DEF SpecFlowAssumption

(* A Spec that is ready names its Context Pack.                            *)
LEMMA ReadyIs ==
  ASSUME FlowInv, Ready(spec)
  PROVE  buildHandoff(spec).context \in Packs /\ parseAffectedComponents(spec) \subseteq Entries
<1>1. /\ spec \in [REQUIRED_FILES -> Documents \cup {Absent}]
      /\ \A f \in REQUIRED_FILES : spec[f] # Absent /\ spec[f].context # Absent
  BY DEF Ready, FlowInv
<1>2. \A f \in REQUIRED_FILES : spec[f] \in Documents
  BY <1>1
<1>3. \A f \in REQUIRED_FILES : spec[f].context \in Packs /\ spec[f].affected \subseteq Entries
  BY <1>1, <1>2 DEF Documents
<1>4. "design.md" \in REQUIRED_FILES
  BY DEF REQUIRED_FILES
<1>5. spec["design.md"].context \in Sources(spec) \ {Absent}
  BY <1>1, <1>4 DEF Sources
<1>6. sourceContext(spec) \in Sources(spec) \ {Absent}
  BY <1>5 DEF sourceContext
<1>7. sourceContext(spec) \in Packs
  BY <1>3, <1>6 DEF Sources
<1> QED BY <1>3, <1>4, <1>7 DEF buildHandoff, parseAffectedComponents

-----------------------------------------------------------------------------
(* The steps.                                                              *)

(* A command that ends, or one that starts and has no directory yet: what  *)
(* is to be shown of the files stays.                                      *)
LEMMA ScaffoldQuietStep ==
  ASSUME FlowInv, NEW p \in Scaffolders, NEW c \in ScaffoldCommand, scaffolds' = [scaffolds EXCEPT ![p] = c],
         c.pc \in {"idle", "mkdir"}, c.pc = "mkdir" => c.pack \in Packs /\ c.left # {},
         UNCHANGED <<spec, handoff, changes, touched, reviewed>>
  PROVE  FlowInv'
<1>1. /\ scaffolds' \in [Scaffolders -> ScaffoldCommand] /\ scaffolds'[p] = c
      /\ \A q \in Scaffolders \ {p} : scaffolds'[q] = scaffolds[q]
  BY DEF FlowInv
<1>2. \A q \in Scaffolders : scaffolds'[q].pc # "idle" => scaffolds'[q].pack \in Packs /\ scaffolds'[q].left # {}
  BY <1>1 DEF FlowInv
<1>3. \A q \in Scaffolders : scaffolds'[q].pc = "write" => q # p /\ scaffolds'[q] = scaffolds[q]
  BY <1>1
<1>4. WriterInv'
  BY <1>3 DEF FlowInv, WriterInv
<1>5. UneditedInv' /\ ScaffoldsDoNotMix'
  BY DEF FlowInv, UneditedInv, ScaffoldsDoNotMix
<1> QED BY <1>1, <1>2, <1>4, <1>5 DEF FlowInv

(* An idle command is a command.                                           *)
LEMMA ScaffoldIdleIs == NoScaffold \in ScaffoldCommand /\ NoScaffold.pc = "idle"
BY DEF NoScaffold, ScaffoldCommand

(* A scaffold begins, or is killed.                                        *)
LEMMA ScaffoldStartStep ==
  ASSUME FlowInv, NEW p \in Scaffolders, NEW pack \in Packs, StartScaffold(p, pack)
  PROVE  FlowInv'
<1> DEFINE c == [pc |-> "mkdir", pack |-> pack, left |-> REQUIRED_FILES]
<1>1. c \in ScaffoldCommand /\ c.pc = "mkdir" /\ c.pack = pack /\ c.left # {}
  BY DEF ScaffoldCommand, REQUIRED_FILES
<1>2. scaffolds' = [scaffolds EXCEPT ![p] = c]
  BY DEF StartScaffold
<1> HIDE DEF c
<1> QED BY <1>1, <1>2, ScaffoldQuietStep DEF StartScaffold

(* A command that is killed leaves its files and writes no more.           *)
LEMMA ScaffoldCrashStep ==
  ASSUME FlowInv, NEW p \in Scaffolders, CrashScaffold(p)
  PROVE  FlowInv'
BY ScaffoldIdleIs, ScaffoldQuietStep DEF CrashScaffold, EndScaffold

(* mkdir lets one command through: while another writes, the directory is  *)
(* there.                                                                  *)
LEMMA MakeDirectoryStep ==
  ASSUME SpecFlowAssumption, FlowInv, NEW p \in Scaffolders, MakeDirectory(p)
  PROVE  FlowInv'
<1>1. CASE spec # Absent
  BY <1>1, ScaffoldIdleIs, ScaffoldQuietStep DEF MakeDirectory, EndScaffold
<1>2. CASE spec = Absent
  <2> DEFINE c == [scaffolds[p] EXCEPT !.pc = "write"]
  <2>1. /\ spec' = Empty /\ scaffolds' = [scaffolds EXCEPT ![p] = c]
        /\ UNCHANGED <<handoff, changes, touched, reviewed>>
    BY <1>2 DEF MakeDirectory, FlowInv
  <2>2. scaffolds[p] \in ScaffoldCommand /\ scaffolds[p].pc = "mkdir" /\ scaffolds[p].pack \in Packs
    BY DEF FlowInv, MakeDirectory
  <2>3. c \in ScaffoldCommand /\ c.pc = "write" /\ c.pack \in Packs /\ c.left = scaffolds[p].left
    BY <2>2 DEF ScaffoldCommand
  <2> HIDE DEF c
  <2>4. /\ scaffolds' \in [Scaffolders -> ScaffoldCommand] /\ scaffolds'[p] = c
        /\ \A q \in Scaffolders \ {p} : scaffolds'[q] = scaffolds[q]
    BY <2>1, <2>3 DEF FlowInv
  <2>5. /\ spec' \in [REQUIRED_FILES -> Documents \cup {Absent}] /\ spec' # Absent
        /\ \A f \in REQUIRED_FILES : spec'[f] = Absent
    BY <2>1, SpecFlowAssumption DEF SpecFlowAssumption, Empty
  <2>6. \A q \in Scaffolders : scaffolds[q].pc # "write"
    BY <1>2 DEF FlowInv, WriterInv
  <2>7. c.left # {}
    BY <2>2, <2>3 DEF FlowInv
  <2>8. WriterInv'
    BY <2>3, <2>4, <2>5, <2>6, <2>7 DEF WriterInv
  <2>9. UneditedInv' /\ ScaffoldsDoNotMix'
    BY <2>5 DEF UneditedInv, ScaffoldsDoNotMix
  <2>10. \A q \in Scaffolders : scaffolds'[q].pc # "idle" => scaffolds'[q].pack \in Packs /\ scaffolds'[q].left # {}
    BY <2>3, <2>4, <2>7 DEF FlowInv
  <2> QED BY <2>1, <2>4, <2>5, <2>8, <2>9, <2>10 DEF FlowInv
<1> QED BY <1>1, <1>2

(* Writing the next file, over what people may have put there.             *)
LEMMA WriteFileStep ==
  ASSUME SpecFlowAssumption, FlowInv, NEW p \in Scaffolders, WriteFile(p)
  PROVE  FlowInv'
<1>1. /\ scaffolds[p] \in ScaffoldCommand /\ scaffolds[p].pc = "write" /\ scaffolds[p].pack \in Packs
      /\ spec # Absent /\ spec \in [REQUIRED_FILES -> Documents \cup {Absent}]
      /\ scaffolds[p].left # {} /\ scaffolds[p].left \subseteq REQUIRED_FILES
  BY DEF FlowInv, WriteFile, WriterInv, ScaffoldCommand
<1> DEFINE f == NextFile(scaffolds[p].left)
           d == Scaffold(scaffolds[p].pack)[f]
<1>2. f \in REQUIRED_FILES /\ f \in scaffolds[p].left
  BY <1>1 DEF NextFile, REQUIRED_FILES
<1>3. d \in Documents /\ d # Absent /\ d.context = scaffolds[p].pack
  BY <1>1, <1>2, ScaffoldIs
<1>4. /\ spec' = [spec EXCEPT ![f] = d] /\ touched' = touched \ {f}
      /\ IF scaffolds[p].left = {f} THEN scaffolds' = [scaffolds EXCEPT ![p] = NoScaffold]
         ELSE scaffolds' = [scaffolds EXCEPT ![p].left = @ \ {f}]
      /\ UNCHANGED <<handoff, changes, reviewed>>
  BY DEF WriteFile, EndScaffold
<1>5. PICK c \in ScaffoldCommand :
        /\ scaffolds' = [scaffolds EXCEPT ![p] = c]
        /\ \/ c = NoScaffold
           \/ c.pc = "write" /\ c.pack = scaffolds[p].pack /\ c.left # {}
  <2>1. CASE scaffolds[p].left = {f}
    BY <1>4, <2>1, ScaffoldIdleIs
  <2>2. CASE scaffolds[p].left # {f}
    <3> DEFINE left == scaffolds[p].left \ {f}
    <3>1. left # {} /\ left \in SUBSET REQUIRED_FILES
      BY <1>1, <1>2, <2>2
    <3>2. scaffolds' = [scaffolds EXCEPT ![p] = [scaffolds[p] EXCEPT !.left = left]]
      BY <1>4, <2>2 DEF FlowInv
    <3> HIDE DEF left
    <3>3. [scaffolds[p] EXCEPT !.left = left] \in ScaffoldCommand
      BY <1>1, <3>1 DEF ScaffoldCommand
    <3>4. /\ [scaffolds[p] EXCEPT !.left = left].pc = "write"
          /\ [scaffolds[p] EXCEPT !.left = left].pack = scaffolds[p].pack
          /\ [scaffolds[p] EXCEPT !.left = left].left = left
      BY <1>1 DEF ScaffoldCommand
    <3> QED BY <3>1, <3>2, <3>3, <3>4
  <2> QED BY <2>1, <2>2
<1> HIDE DEF f, d
<1>6. /\ scaffolds' \in [Scaffolders -> ScaffoldCommand] /\ scaffolds'[p] = c
      /\ \A q \in Scaffolders \ {p} : scaffolds'[q] = scaffolds[q] /\ scaffolds'[q].pc # "write"
  BY <1>1, <1>5 DEF FlowInv, WriterInv
<1>7. /\ spec' \in [REQUIRED_FILES -> Documents \cup {Absent}] /\ spec' # Absent
      /\ spec'[f] = d /\ \A g \in REQUIRED_FILES \ {f} : spec'[g] = spec[g]
  BY <1>1, <1>2, <1>3, <1>4, SpecFlowAssumption DEF SpecFlowAssumption
<1>8. \A g \in REQUIRED_FILES \ touched' : spec'[g] # Absent => spec'[g].context = scaffolds[p].pack
  <2>1. \A g \in REQUIRED_FILES \ touched : spec[g] # Absent => spec[g].context = scaffolds[p].pack
    BY <1>1 DEF FlowInv, WriterInv
  <2> QED BY <1>3, <1>4, <1>7, <2>1
<1>9. UneditedInv'
  <2>1. ASSUME NEW g \in REQUIRED_FILES \ touched'
        PROVE  spec'[g] = Absent \/ \E pack \in Packs : spec'[g] = Scaffold(pack)[g]
    <3>1. CASE g = f
      BY <1>1, <1>7, <3>1 DEF d
    <3>2. CASE g # f
      BY <1>1, <1>4, <1>7, <3>2 DEF FlowInv, UneditedInv
    <3> QED BY <3>1, <3>2
  <2> QED BY <2>1 DEF UneditedInv
<1>10. WriterInv' /\ ScaffoldsDoNotMix'
  BY <1>5, <1>6, <1>7, <1>8, ScaffoldIdleIs DEF WriterInv, ScaffoldsDoNotMix
<1>11. \A q \in Scaffolders : scaffolds'[q].pc # "idle" => scaffolds'[q].pack \in Packs /\ scaffolds'[q].left # {}
  BY <1>1, <1>5, <1>6, ScaffoldIdleIs DEF FlowInv
<1>12. touched' \subseteq REQUIRED_FILES
  BY <1>4 DEF FlowInv
<1> QED BY <1>4, <1>6, <1>7, <1>9, <1>10, <1>11, <1>12 DEF FlowInv

(* People edit: the file is no longer one that nobody edited.              *)
LEMMA EditDocumentStep ==
  ASSUME SpecFlowAssumption, FlowInv, NEW f \in REQUIRED_FILES, EditDocument(f)
  PROVE  FlowInv'
<1>1. PICK d \in Revisions[f] : spec' = [spec EXCEPT ![f] = d]
  BY DEF EditDocument
<1>2. /\ spec # Absent /\ spec \in [REQUIRED_FILES -> Documents \cup {Absent}]
      /\ touched' = touched \cup {f}
      /\ UNCHANGED <<scaffolds, handoff, changes, reviewed>>
  BY DEF EditDocument, FlowInv
<1>3. d \in Documents
  BY SpecFlowAssumption DEF SpecFlowAssumption
<1>4. /\ spec' \in [REQUIRED_FILES -> Documents \cup {Absent}] /\ spec' # Absent
      /\ \A g \in REQUIRED_FILES \ touched' : g \notin touched /\ spec'[g] = spec[g]
  BY <1>1, <1>2, <1>3, SpecFlowAssumption DEF SpecFlowAssumption
<1>5. UneditedInv' /\ WriterInv' /\ ScaffoldsDoNotMix'
  BY <1>2, <1>4 DEF FlowInv, UneditedInv, WriterInv, ScaffoldsDoNotMix
<1>6. touched' \subseteq REQUIRED_FILES
  BY <1>2 DEF FlowInv
<1> QED BY <1>2, <1>4, <1>5, <1>6 DEF FlowInv

(* The Spec is removed while no command is open.                           *)
LEMMA RemoveSpecStep == FlowInv /\ RemoveSpec => FlowInv'
BY DEF RemoveSpec, FlowInv, UneditedInv, WriterInv, ScaffoldsDoNotMix

(* The handoff reads the Spec, commits do not touch it.                    *)
LEMMA CreateHandoffStep == FlowInv /\ CreateHandoff => FlowInv'
<1> SUFFICES ASSUME FlowInv, CreateHandoff PROVE FlowInv'
  OBVIOUS
<1>1. /\ handoff'.context \in Packs /\ reviewed' \subseteq Entries
      /\ UNCHANGED <<spec, scaffolds, changes, touched>>
  BY ReadyIs DEF CreateHandoff
<1> QED BY <1>1 DEF FlowInv, UneditedInv, WriterInv, ScaffoldsDoNotMix

(* A commit changes a path of the branch.                                  *)
LEMMA ScaffoldCommitStep ==
  ASSUME FlowInv, NEW path \in Paths, CommitPath(path)
  PROVE  FlowInv'
<1>1. /\ changes' \in [Paths -> {"same", "modified", "deleted"}]
      /\ UNCHANGED <<spec, scaffolds, handoff, touched, reviewed>>
  BY DEF CommitPath, FlowInv
<1> QED BY <1>1 DEF FlowInv, UneditedInv, WriterInv, ScaffoldsDoNotMix

-----------------------------------------------------------------------------
(* The theorems.                                                           *)

(* At first there is no Spec.                                              *)
LEMMA InitFlow == FlowInit => FlowInv
<1> SUFFICES ASSUME FlowInit PROVE FlowInv
  OBVIOUS
<1>1. scaffolds \in [Scaffolders -> ScaffoldCommand] /\ \A p \in Scaffolders : scaffolds[p].pc = "idle"
  BY ScaffoldIdleIs DEF FlowInit
<1> QED BY <1>1 DEF FlowInit, FlowInv, UneditedInv, WriterInv, ScaffoldsDoNotMix

(* Every step keeps the invariant.                                         *)
LEMMA NextFlow ==
  ASSUME SpecFlowAssumption, FlowInv, [FlowNext]_flowVars
  PROVE  FlowInv'
<1>1. ASSUME NEW p \in Scaffolders, NEW pack \in Packs, StartScaffold(p, pack) PROVE FlowInv'
  BY <1>1, ScaffoldStartStep
<1>2. ASSUME NEW p \in Scaffolders, MakeDirectory(p) PROVE FlowInv'
  BY <1>2, SpecFlowAssumption, MakeDirectoryStep
<1>3. ASSUME NEW p \in Scaffolders, WriteFile(p) PROVE FlowInv'
  BY <1>3, SpecFlowAssumption, WriteFileStep
<1>4. ASSUME NEW p \in Scaffolders, CrashScaffold(p) PROVE FlowInv'
  BY <1>4, ScaffoldCrashStep
<1>5. CASE CreateHandoff
  BY <1>5, CreateHandoffStep
<1>6. ASSUME NEW f \in REQUIRED_FILES, EditDocument(f) PROVE FlowInv'
  BY <1>6, SpecFlowAssumption, EditDocumentStep
<1>7. CASE RemoveSpec
  BY <1>7, RemoveSpecStep
<1>8. ASSUME NEW path \in Paths, CommitPath(path) PROVE FlowInv'
  BY <1>8, ScaffoldCommitStep
<1>9. CASE UNCHANGED flowVars
  BY <1>9 DEF flowVars, FlowInv, UneditedInv, WriterInv, ScaffoldsDoNotMix
<1> QED BY <1>1, <1>2, <1>3, <1>4, <1>5, <1>6, <1>7, <1>8, <1>9 DEF FlowNext

(* The invariant the others follow from.                                   *)
THEOREM FlowInvariance == FlowSpec => []FlowInv
<1>1. FlowInv /\ [FlowNext]_flowVars => FlowInv'
  BY SpecFlowAssumption, NextFlow
<1> QED BY <1>1, InitFlow, PTL DEF FlowSpec

(* The shapes of the files and of the commands.                            *)
THEOREM FlowTypeCorrect == FlowSpec => []FlowTypeOK
<1>1. FlowInv => FlowTypeOK
  BY DEF FlowInv, FlowTypeOK, ScaffoldCommand, WriterInv
<1> QED BY <1>1, FlowInvariance, PTL

(* Overlapping and killed scaffolds never mix Context Packs                *)
(* (createSpecScaffold).                                                   *)
THEOREM ScaffoldsAreOfOnePack == FlowSpec => []ScaffoldsDoNotMix
<1>1. FlowInv => ScaffoldsDoNotMix
  BY DEF FlowInv
<1> QED BY <1>1, FlowInvariance, PTL

(* No scaffold, whole or cut off, is ready by itself                       *)
(* (validateSpecDirectory).                                                *)
THEOREM ReadyIsEdited == FlowSpec => []ReadyMeansEdited
<1>1. FlowInv => ReadyMeansEdited
  <2> SUFFICES ASSUME FlowInv, Ready(spec), NEW f \in {"requirements.md", "design.md"},
                      f \notin touched
               PROVE  FALSE
    BY DEF ReadyMeansEdited
  <2>1. f \in REQUIRED_FILES /\ f # "tasks.md"
    BY DEF REQUIRED_FILES
  <2>2. spec # Absent /\ spec[f] # Absent /\ ~spec[f].placeholders
    BY <2>1 DEF Ready
  <2>3. PICK pack \in Packs : spec[f] = Scaffold(pack)[f]
    BY <2>1, <2>2 DEF FlowInv, UneditedInv
  <2> QED BY <2>1, <2>2, <2>3, ScaffoldIs, SpecFlowAssumption
<1> QED BY <1>1, FlowInvariance, PTL
=============================================================================
