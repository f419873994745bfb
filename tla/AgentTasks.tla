----------------------------- MODULE AgentTasks -----------------------------
(* Commands that work on one feature's task graph at the same time:
   scripts/agent-task-graph.js and scripts/agent-runtime-adapter.js.  Every
   process is one command line, agent:graph:event, agent:graph:init or
   agent:runtime:run.  They share files without a lock: the graph is read,
   changed and written back, and fs.writeFileSync empties the file before it
   fills it.  A review takes minutes between the check that its task is READY
   and the event it ends with.  A process may be killed at any step. *)
EXTENDS TaskGraph, FiniteSets

CONSTANTS Procs,        \* the command lines open at one time
          Delegations,  \* the role assignments of agent-delegation.json
          MaxRetries,   \* agent:graph:init's max-retries
          Edited,       \* task -> adapter type, what agent-runtime.json may be edited to
          Practices,    \* how a team may work: sets of "event" (typed by hand) and "run"
          Missing,      \* a file that is not there
          Torn,         \* a file emptied and not filled again: JSON.parse throws
          MaxRuns,      \* bound: runs recorded
          MaxInits      \* bound: graphs initialised

\* readDelegation (run-verification-evidence-gate.js) wants a builder and a reviewer.
ASSUME AgentTasksAssumption ==
  /\ IsFiniteSet(Procs)
  /\ Delegations \subseteq [{"builder", "reviewer", "securityReviewer"} -> STRING \cup {None}]
  /\ \A roles \in Delegations : roles["builder"] # None /\ roles["reviewer"] # None
  /\ None \notin EVENTS
  /\ MaxInits \in Nat
  /\ MaxRetries \in Nat
  /\ Edited \in [Tasks -> {"dry-run", "scripted"}]

VARIABLES practice,  \* how this team works
          graph,     \* agent-task-graph.json
          runtime,   \* agent-runtime.json and agent-runtime.local.json
          review,    \* Status of reviewer-review.md
          runs,      \* agent-runs/, oldest first
          proc,      \* the command each process is in
          inits,     \* graphs initialised so far
          reported   \* graph statuses printed since the last init

vars == <<practice, graph, runtime, review, runs, proc, inits, reported>>

Readable == graph \notin {Missing, Torn}

Idle == [pc |-> "idle", task |-> None, adapter |-> None, seen |-> None,
         result |-> None, event |-> None, next |-> None]

Goto(p, pc) == proc' = [proc EXCEPT ![p].pc = pc]
Exit(p) == proc' = [proc EXCEPT ![p] = Idle]

Init ==
  /\ practice \in Practices
  /\ graph = Missing
  /\ runtime = Missing
  /\ review = None
  /\ runs = << >>
  /\ proc = [p \in Procs |-> Idle]
  /\ inits = 0
  /\ reported = {}

-----------------------------------------------------------------------------
(* What an adapter answers. *)

\* How a Codex process can end, and what its last message holds.
ProcessResults ==
  [exit : {"timeout", "error"}, output : {"none"}] \cup
  [exit : {"ok"},
   output : {"none", "malformed", "PASS", "FAIL", "PASS with HIGH finding"}]

\* "malformed" stands for every shape the parser throws on.
parseCodexReviewVerdict(output) ==
  IF output \in {"PASS", "FAIL"} THEN output ELSE None

\* Mutant: a zero exit code counts as an approval.
runCodexReviewerTrustingExit(r) ==
  IF r.exit = "timeout" THEN "TIMEOUT"
  ELSE IF r.exit = "error" THEN "PROVIDER_ERROR"
  ELSE IF r.output = "FAIL" THEN "FAIL" ELSE "PASS"

runCodexReviewer(r) ==
  IF r.exit = "timeout" THEN "TIMEOUT"
  ELSE IF r.exit = "error" \/ parseCodexReviewVerdict(r.output) = None THEN "PROVIDER_ERROR"
  ELSE parseCodexReviewVerdict(r.output)

\* Mutant: every result but a dry run moves the graph.
TaskEventOfErrors(task, result) ==
  CASE result = "PASS" -> <<task, "pass">>
    [] result \in {"FAIL", "TIMEOUT"} -> <<task, "fail">>
    [] result = "DRY_RUN" -> None
    [] OTHER -> <<task, "error">>

TaskEvent(task, result) ==
  CASE result = "PASS" -> <<task, "pass">>
    [] result \in {"FAIL", "TIMEOUT"} -> <<task, "fail">>
    [] OTHER -> None

\* readRuntimeConfig: the local file overrides the reviewer and nothing else.
Adapter(task) ==
  IF task = "reviewer" /\ runtime.local THEN "codex-exec-review"
  ELSE runtime.adapters[task]

-----------------------------------------------------------------------------
(* agent:graph:init, agent:runtime:init, agent:runtime:codex-review.  The graph
   is written in two steps like every graph; nobody contends for the runtime. *)

InitGraph(p) ==
  /\ proc[p].pc = "idle"
  /\ inits < MaxInits
  /\ inits' = inits + 1
  /\ \E roles \in Delegations :
       proc' = [proc EXCEPT ![p] = [Idle EXCEPT !.pc = "write",
                                      !.next = createInitialGraph(roles, MaxRetries)]]
  /\ UNCHANGED <<practice, graph, runtime, review, runs, reported>>

InitRuntime ==
  /\ Readable
  /\ runtime' = [roles |-> graph.roles, adapters |-> [t \in Tasks |-> "dry-run"],
                 local |-> runtime # Missing /\ runtime.local]
  /\ UNCHANGED <<practice, graph, review, runs, proc, inits, reported>>

\* "scripted" adapters are put into the file by hand.
EditRuntime ==
  /\ runtime # Missing
  /\ runtime' = [runtime EXCEPT !.adapters = Edited]
  /\ UNCHANGED <<practice, graph, review, runs, proc, inits, reported>>

ConfigureCodexReviewer ==
  /\ runtime # Missing
  /\ runtime' = [runtime EXCEPT !.local = TRUE]
  /\ UNCHANGED <<practice, graph, review, runs, proc, inits, reported>>

-----------------------------------------------------------------------------
(* agent:runtime:run. *)

MayRun(task) ==
  /\ Readable
  /\ graph.status = "ACTIVE"
  /\ graph.tasks[task] = "READY"
  /\ runtime # Missing
  /\ task # "verification" => runtime.roles[task] = graph.roles[task]

StartRun(p, task) ==
  /\ "run" \in practice
  /\ proc[p].pc = "idle"
  /\ Len(runs) + Cardinality({q \in Procs : proc[q].pc \in {"adapter", "evidence"}}) < MaxRuns
  /\ MayRun(task)
  /\ proc' = [proc EXCEPT ![p] = [Idle EXCEPT !.pc = "adapter", !.task = task,
                                    !.adapter = Adapter(task), !.seen = graph.retryCount]]
  /\ UNCHANGED <<practice, graph, runtime, review, runs, inits, reported>>

Answered(p, result) ==
  proc' = [proc EXCEPT ![p].pc = "evidence", ![p].result = result,
                       ![p].event = TaskEvent(proc[p].task, result)]

DryRun(p) ==
  /\ proc[p].pc = "adapter" /\ proc[p].adapter = "dry-run"
  /\ Answered(p, "DRY_RUN")
  /\ UNCHANGED <<practice, graph, runtime, review, runs, inits, reported>>

Scripted(p) ==
  /\ proc[p].pc = "adapter" /\ proc[p].adapter = "scripted"
  /\ \E result \in {"PASS", "FAIL", "TIMEOUT"} : Answered(p, result)
  /\ UNCHANGED <<practice, graph, runtime, review, runs, inits, reported>>

CodexReview(p) ==
  /\ proc[p].pc = "adapter" /\ proc[p].adapter = "codex-exec-review"
  /\ \E r \in ProcessResults :
       /\ Answered(p, runCodexReviewer(r))
       /\ review' = IF r.exit = "ok" /\ parseCodexReviewVerdict(r.output) # None
                    THEN r.output ELSE review
  /\ UNCHANGED <<practice, graph, runtime, runs, inits, reported>>

Evidence(p) == [task |-> proc[p].task, result |-> proc[p].result, event |-> proc[p].event]

\* Mutant: a run that moves the graph leaves no evidence.
WriteEvidenceLost(p) ==
  /\ proc[p].pc = "evidence"
  /\ IF proc[p].event = None THEN Exit(p) ELSE Goto(p, "read")
  /\ UNCHANGED <<practice, graph, runtime, review, runs, inits, reported>>

\* The evidence is on disk before the graph is touched.
WriteEvidence(p) ==
  /\ proc[p].pc = "evidence"
  /\ runs' = Append(runs, Evidence(p))
  /\ IF proc[p].event = None THEN Exit(p) ELSE Goto(p, "read")
  /\ UNCHANGED <<practice, graph, runtime, review, inits, reported>>

-----------------------------------------------------------------------------
(* transitionGraph, at the end of a run or typed by hand. *)

TypeEvent(p, e) ==
  /\ "event" \in practice
  /\ proc[p].pc = "idle"
  /\ proc' = [proc EXCEPT ![p] = [Idle EXCEPT !.pc = "read", !.event = e]]
  /\ UNCHANGED <<practice, graph, runtime, review, runs, inits, reported>>

Read(p) ==
  /\ proc[p].pc = "read"
  /\ IF Readable /\ Accepts(graph, proc[p].event)
     THEN proc' = [proc EXCEPT ![p].pc = "write",
                               ![p].next = applyEvent(graph, proc[p].event)]
     ELSE Exit(p)
  /\ UNCHANGED <<practice, graph, runtime, review, runs, inits, reported>>

\* fs.writeFileSync opens the file for writing, which empties it.
Truncate(p) ==
  /\ proc[p].pc = "write"
  /\ graph' = Torn
  /\ Goto(p, "fill")
  /\ UNCHANGED <<practice, runtime, review, runs, inits, reported>>

Fill(p) ==
  /\ proc[p].pc = "fill"
  /\ graph' = proc[p].next
  /\ reported' = IF proc[p].event = None THEN {} ELSE reported \cup {proc[p].next.status}
  /\ Exit(p)
  /\ UNCHANGED <<practice, runtime, review, runs, inits>>

\* The process is killed; what it had in memory is gone.
Crash(p) ==
  /\ proc[p].pc # "idle"
  /\ Exit(p)
  /\ UNCHANGED <<practice, graph, runtime, review, runs, inits, reported>>

Step(p) ==
  \/ InitGraph(p)
  \/ \E task \in Tasks : StartRun(p, task)
  \/ DryRun(p) \/ Scripted(p) \/ CodexReview(p) \/ WriteEvidence(p)
  \/ \E e \in EVENTS : TypeEvent(p, e)
  \/ Read(p) \/ Truncate(p) \/ Fill(p) \/ Crash(p)

Next == InitRuntime \/ EditRuntime \/ ConfigureCodexReviewer \/ \E p \in Procs : Step(p)

Spec == Init /\ [][Next]_vars

-----------------------------------------------------------------------------
(* Properties. *)

Pcs == {"idle", "adapter", "evidence", "read", "write", "fill"}
Adapters == {"dry-run", "scripted", "codex-exec-review"}
Statuses == {"ACTIVE", "COMPLETE", "FAILED"}

\* The shapes of the files and of what a command holds in memory.
TypeOK ==
  /\ practice \in Practices
  /\ graph \in {Missing, Torn} \/ graph.status \in Statuses
  /\ runtime = Missing \/ runtime.adapters \in [Tasks -> Adapters]
  /\ review \in {None, "PASS", "FAIL"}
  /\ \A i \in DOMAIN runs : runs[i].task \in Tasks
  /\ \A p \in Procs : /\ proc[p].pc \in Pcs
                      /\ proc[p].event \in EVENTS \cup {None}
                      /\ proc[p].pc \in {"write", "fill"} => proc[p].next.status \in Statuses
  /\ inits \in 0..MaxInits
  /\ reported \subseteq Statuses

\* Whatever commands overlap, a graph that can be read is one the status
\* command accepts: the work stands at exactly one task of the route
\* (validateTaskGraphState never rejects what applyEvent and the unlocked
\* rewrites of transitionGraph leave on disk).
GraphIsReachable == Readable => validateTaskGraphState(graph)

\* Overlapping rewrites lose events but never the balance of the budget: the
\* retries granted are the failures the history shows, and the graph FAILED at
\* the failure after the last retry, neither before nor after it.
RetriesAreBudgeted ==
  Readable =>
    /\ graph.retryCount <= graph.maxRetries
    /\ Cardinality(Failures(graph)) =
         graph.retryCount + (IF graph.status = "FAILED" THEN 1 ELSE 0)
    /\ graph.status = "FAILED" => graph.retryCount = graph.maxRetries

\* Where events come from runs only, every entry of the history has a recorded
\* run that asked for it: a command killed between the two leaves evidence
\* without a transition, never a transition without evidence (runTask).
EveryTransitionHasEvidence ==
  "event" \notin practice /\ Readable =>
    \A e \in EVENTS :
      Cardinality({i \in DOMAIN graph.history : graph.history[i].event = e})
        <= Cardinality({i \in DOMAIN runs : runs[i].event = e})

\* Where only Codex can review, a reviewer-pass in the history has a review
\* artifact: the provider's exit code alone moves nothing (runCodexReviewer
\* writes reviewer-review.md before runTask applies the event).
PassHasArtifact ==
  /\ "event" \notin practice /\ Readable /\ Edited["reviewer"] = "dry-run"
  /\ \E i \in DOMAIN graph.history : graph.history[i].event = <<"reviewer", "pass">>
  => review # None

\* What docs/agent-orchestrator-task-graph.md:107 says: no transition after
\* COMPLETE or FAILED.  Once a command has printed a terminal status, the graph
\* keeps it until the next init.
TerminalIsFinal ==
  Readable => \A s \in reported \ {"ACTIVE"} : graph.status = s

\* What docs/agent-orchestrator-task-graph.md:94 promises of a retry: the
\* downstream tasks are blocked again, so a pass that is applied to an attempt
\* comes from a run that was started in it.
PassIsOfThisAttempt ==
  \A p \in Procs :
    proc[p].pc \in {"write", "fill"} /\ proc[p].result = "PASS"
      => proc[p].seen = proc[p].next.retryCount
=============================================================================
