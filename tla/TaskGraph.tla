------------------------------ MODULE TaskGraph ------------------------------
(* The agent task graph as a value: scripts/agent-task-graph.js without its
   file.  An event is a task with its outcome, <<"reviewer", "fail">> for
   "reviewer-fail".  A task's actor is the role of the same name (verification:
   the gate), so the graph keeps the roles and the statuses.  Timestamps, the
   feature slug and the schema version are left out. *)
EXTENDS Naturals, Sequences

CONSTANT None    \* null: no identity delegated

Tasks == {"builder", "reviewer", "securityReviewer", "verification"}
EVENTS == Tasks \X {"pass", "fail"}

Delegated(roles, task) == task \in DOMAIN roles => roles[task] # None

InitialTasks(roles) ==
  [t \in Tasks |-> IF t = "builder" THEN "READY"
                   ELSE IF Delegated(roles, t) THEN "BLOCKED" ELSE "SKIPPED"]

createInitialGraph(roles, maxRetries) ==
  [status |-> "ACTIVE", maxRetries |-> maxRetries, retryCount |-> 0,
   roles |-> roles, tasks |-> InitialTasks(roles), history |-> << >>]

Recorded(g, e, outcome, retryCount) ==
  [g EXCEPT !.history =
     Append(@, [event |-> e, outcome |-> outcome, retryCount |-> retryCount])]

\* Mutant: the budget lets one more retry through.
ExhaustedLate(g) == g.retryCount > g.maxRetries
Exhausted(g) == g.retryCount >= g.maxRetries

\* Mutant: a retry leaves the security reviewer's verdict of the last attempt.
resetForRetryKeepingSecurity(g, e) ==
  IF Exhausted(g)
  THEN Recorded([g EXCEPT !.status = "FAILED"], e, "FAILED_MAX_RETRIES", g.retryCount + 1)
  ELSE Recorded([g EXCEPT !.retryCount = @ + 1,
                          !.tasks = [InitialTasks(g.roles) EXCEPT
                                       !["securityReviewer"] = g.tasks["securityReviewer"]]],
                e, "RETRY", g.retryCount + 1)

\* A failed task sends the work back to the builder, or ends it.
resetForRetry(g, e) ==
  IF Exhausted(g)
  THEN Recorded([g EXCEPT !.status = "FAILED"], e, "FAILED_MAX_RETRIES", g.retryCount + 1)
  ELSE Recorded([g EXCEPT !.retryCount = @ + 1, !.tasks = InitialTasks(g.roles)],
                e, "RETRY", g.retryCount + 1)

\* The events applyEvent does not throw on.
Accepts(g, e) ==
  /\ g.status = "ACTIVE"
  /\ Delegated(g.roles, e[1])
  /\ g.tasks[e[1]] = "READY"

NextTask(roles, task) ==
  CASE task = "builder" -> "reviewer"
    [] task = "reviewer" /\ Delegated(roles, "securityReviewer") -> "securityReviewer"
    [] OTHER -> "verification"

Passed(g, task) ==
  IF task = "verification"
  THEN [g EXCEPT !.tasks[task] = "PASS", !.status = "COMPLETE"]
  ELSE [g EXCEPT !.tasks[task] = "PASS", !.tasks[NextTask(g.roles, task)] = "READY"]

\* The graph after an event it accepts.
applyEvent(g, e) ==
  IF e[2] = "pass"
  THEN LET next == Passed(g, e[1]) IN Recorded(next, e, next.status, next.retryCount)
  ELSE resetForRetry([g EXCEPT !.tasks[e[1]] = "FAIL"], e)

-----------------------------------------------------------------------------
(* validateTaskGraphState in scripts/work-development-orchestrator.js: the
   statuses it lists are those where the work stands at one task of the route. *)

Before(t) ==
  CASE t = "builder" -> {}
    [] t = "reviewer" -> {"builder"}
    [] t = "securityReviewer" -> {"builder", "reviewer"}
    [] t = "verification" -> {"builder", "reviewer", "securityReviewer"}

StandsAt(g, task, status) ==
  /\ Delegated(g.roles, task)
  /\ \A t \in Tasks :
       g.tasks[t] = IF ~Delegated(g.roles, t) THEN "SKIPPED"
                    ELSE IF t = task THEN status
                    ELSE IF t \in Before(task) THEN "PASS" ELSE "BLOCKED"

validateTaskGraphState(g) ==
  \/ g.status = "ACTIVE" /\ \E t \in Tasks : StandsAt(g, t, "READY")
  \/ g.status = "COMPLETE" /\ StandsAt(g, "verification", "PASS")
  \/ g.status = "FAILED" /\ \E t \in Tasks : StandsAt(g, t, "FAIL")

Failures(g) == {i \in DOMAIN g.history : g.history[i].event[2] = "fail"}
=============================================================================
