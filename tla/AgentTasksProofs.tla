-------------------------- MODULE AgentTasksProofs --------------------------
(***************************************************************************)
(* Proofs about AgentTasks, for any number of commands at one time, any    *)
(* retries, runs and graphs, and every delegation.                         *)
(***************************************************************************)
EXTENDS AgentTasks, FiniteSetTheorems, SequenceTheorems, TLAPS

-----------------------------------------------------------------------------
(* The types of the graph and its parts.                                   *)

Roles        == [{"builder", "reviewer", "securityReviewer"} -> STRING \cup {None}]
TaskStatuses == {"READY", "BLOCKED", "SKIPPED", "PASS", "FAIL"}
Outcomes     == {"ACTIVE", "COMPLETE", "RETRY", "FAILED_MAX_RETRIES"}
Entry        == [event : EVENTS, outcome : Outcomes, retryCount : Nat]

(* The roles readDelegation lets through: builder and reviewer are set.    *)
Proper(roles) == roles \in Roles /\ roles["builder"] # None /\ roles["reviewer"] # None

Graph ==
  [status : Statuses, maxRetries : Nat, retryCount : Nat, roles : Roles,
   tasks : [Tasks -> TaskStatuses], history : Seq(Entry)]

Budgeted(g) ==
  /\ g.retryCount <= g.maxRetries
  /\ Cardinality(Failures(g)) = g.retryCount + (IF g.status = "FAILED" THEN 1 ELSE 0)
  /\ g.status = "FAILED" => g.retryCount = g.maxRetries

Sound(g) == g \in Graph /\ Proper(g.roles) /\ validateTaskGraphState(g) /\ Budgeted(g)

(* How often an event is in a history, or asked for by a run.              *)
Occurrences(s, e) == {i \in DOMAIN s : s[i].event = e}

-----------------------------------------------------------------------------
(* Facts about histories.                                                  *)

(* A set of positions in a sequence is finite, and one more position adds  *)
(* one to their number.                                                    *)
LEMMA Positions ==
  ASSUME NEW n \in Nat, NEW A \in SUBSET (1..n)
  PROVE  /\ IsFiniteSet(A) /\ Cardinality(A) \in Nat
         /\ Cardinality(A \cup {n + 1}) = Cardinality(A) + 1
<1>1. IsFiniteSet(1..n)
  BY FS_Interval
<1>2. IsFiniteSet(A)
  BY <1>1, FS_Subset
<1>3. n + 1 \notin A
  OBVIOUS
<1> QED BY <1>2, <1>3, FS_AddElement, FS_CardinalityType

(* An entry appended counts for its own event and for no other.            *)
LEMMA OccurrencesAppend ==
  ASSUME NEW S, NEW s \in Seq(S), NEW x, NEW e
  PROVE  /\ Cardinality(Occurrences(s, e)) \in Nat
         /\ Cardinality(Occurrences(Append(s, x), e)) =
              Cardinality(Occurrences(s, e)) + (IF x.event = e THEN 1 ELSE 0)
<1> DEFINE A == Occurrences(s, e)
           B == Occurrences(Append(s, x), e)
<1>1. /\ Len(s) \in Nat /\ DOMAIN s = 1..Len(s) /\ DOMAIN Append(s, x) = 1..(Len(s) + 1)
      /\ \A i \in 1..Len(s) : Append(s, x)[i] = s[i]
      /\ Append(s, x)[Len(s) + 1] = x
  BY AppendProperties, LenProperties
<1>2. A \in SUBSET (1..Len(s))
  BY <1>1 DEF Occurrences
<1>3. CASE x.event = e
  <2>1. B = A \cup {Len(s) + 1}
    BY <1>1, <1>3 DEF Occurrences
  <2> QED BY <1>1, <1>2, <1>3, <2>1, Positions
<1>4. CASE x.event # e
  <2>1. B = A
    BY <1>1, <1>4 DEF Occurrences
  <2>2. Cardinality(A) \in Nat
    BY <1>1, <1>2, Positions
  <2> HIDE DEF A, B
  <2>3. Cardinality(A) \in Nat /\ Cardinality(B) = Cardinality(A) + (IF x.event = e THEN 1 ELSE 0)
    BY <1>4, <2>1, <2>2
  <2> QED BY <2>3 DEF A, B
<1> QED BY <1>3, <1>4

(* An entry appended is a failure more when its event is one.              *)
LEMMA FailuresAppend ==
  ASSUME NEW g \in Graph, NEW h, NEW x \in Entry,
         h.history = Append(g.history, x)
  PROVE  /\ Cardinality(Failures(g)) \in Nat
         /\ Cardinality(Failures(h)) =
              Cardinality(Failures(g)) + (IF x.event[2] = "fail" THEN 1 ELSE 0)
<1> DEFINE s == g.history
           A == Failures(g)
           B == Failures(h)
<1>1. s \in Seq(Entry)
  BY DEF Graph
<1>2. /\ Len(s) \in Nat /\ DOMAIN s = 1..Len(s) /\ DOMAIN Append(s, x) = 1..(Len(s) + 1)
      /\ \A i \in 1..Len(s) : Append(s, x)[i] = s[i]
      /\ Append(s, x)[Len(s) + 1] = x
  BY <1>1, AppendProperties, LenProperties
<1>3. A \in SUBSET (1..Len(s))
  BY <1>2 DEF Failures
<1>4. CASE x.event[2] = "fail"
  <2>1. B = A \cup {Len(s) + 1}
    BY <1>2, <1>4 DEF Failures
  <2> QED BY <1>2, <1>3, <1>4, <2>1, Positions
<1>5. CASE x.event[2] # "fail"
  <2>1. B = A
    BY <1>2, <1>5 DEF Failures
  <2>2. Cardinality(A) \in Nat
    BY <1>2, <1>3, Positions
  <2> HIDE DEF A, B
  <2>3. /\ Cardinality(A) \in Nat
        /\ Cardinality(B) = Cardinality(A) + (IF x.event[2] = "fail" THEN 1 ELSE 0)
    BY <1>5, <2>1, <2>2
  <2> QED BY <2>3 DEF A, B
<1> QED BY <1>4, <1>5

(* What Recorded changes and what it does not.                             *)
OneMore(g, h, e) ==
  /\ h \in Graph
  /\ h.status = g.status /\ h.maxRetries = g.maxRetries
  /\ h.retryCount = g.retryCount /\ h.roles = g.roles /\ h.tasks = g.tasks
  /\ \E x \in Entry : x.event = e /\ h.history = Append(g.history, x)
  /\ Cardinality(Failures(g)) \in Nat
  /\ Cardinality(Failures(h)) =
       Cardinality(Failures(g)) + (IF e[2] = "fail" THEN 1 ELSE 0)

(* An entry in the history makes it one longer, and counts as a failure    *)
(* if its event is one.                                                    *)
LEMMA RecordedIsOneMore ==
  ASSUME NEW g \in Graph, NEW e \in EVENTS, NEW outcome \in Outcomes, NEW n \in Nat
  PROVE  OneMore(g, Recorded(g, e, outcome, n), e)
<1> DEFINE x == [event |-> e, outcome |-> outcome, retryCount |-> n]
           h == Recorded(g, e, outcome, n)
<1>1. x \in Entry /\ x.event = e
  BY DEF Entry
<1>2. h = [g EXCEPT !.history = Append(g.history, x)]
  BY DEF Recorded, Graph
<1> HIDE DEF x, h
<1>3. Append(g.history, x) \in Seq(Entry)
  BY <1>1 DEF Graph
<1>4. /\ h \in Graph
      /\ h.status = g.status /\ h.maxRetries = g.maxRetries
      /\ h.retryCount = g.retryCount /\ h.roles = g.roles /\ h.tasks = g.tasks
      /\ h.history = Append(g.history, x)
  BY <1>2, <1>3 DEF Graph
<1>5. /\ Cardinality(Failures(g)) \in Nat
      /\ Cardinality(Failures(h)) =
           Cardinality(Failures(g)) + (IF e[2] = "fail" THEN 1 ELSE 0)
  BY <1>1, <1>4, FailuresAppend
<1> QED BY <1>1, <1>4, <1>5 DEF OneMore, h

-----------------------------------------------------------------------------
(* Facts about the events of the graph.                                    *)

(* The initial tasks stand at the builder.                                 *)
LEMMA InitialStands ==
  ASSUME NEW g, Proper(g.roles), g.tasks = InitialTasks(g.roles)
  PROVE  StandsAt(g, "builder", "READY") /\ g.tasks \in [Tasks -> TaskStatuses]
BY DEF StandsAt, InitialTasks, Delegated, Proper, Roles, Before, Tasks, TaskStatuses

(* The first graph stands at the builder with the whole budget.            *)
LEMMA InitialIsSound ==
  ASSUME NEW roles, Proper(roles), NEW maxRetries \in Nat
  PROVE  /\ Sound(createInitialGraph(roles, maxRetries))
         /\ createInitialGraph(roles, maxRetries).history = << >>
<1> DEFINE g == createInitialGraph(roles, maxRetries)
<1>1. /\ g.status = "ACTIVE" /\ g.maxRetries = maxRetries /\ g.retryCount = 0
      /\ g.roles = roles /\ g.tasks = InitialTasks(roles) /\ g.history = << >>
  BY DEF createInitialGraph
<1>2. InitialTasks(roles) \in [Tasks -> TaskStatuses]
  BY DEF InitialTasks, TaskStatuses
<1>3. g \in Graph
  BY <1>2 DEF createInitialGraph, Graph, Statuses, Proper
<1> HIDE DEF g
<1>4. StandsAt(g, "builder", "READY")
  BY <1>1, InitialStands
<1>5. validateTaskGraphState(g)
  BY <1>1, <1>4 DEF validateTaskGraphState, Tasks
<1>6. Budgeted(g)
  <2>1. Failures(g) = {}
    BY <1>1 DEF Failures
  <2> QED BY <1>1, <2>1, FS_EmptySet DEF Budgeted
<1> QED BY <1>1, <1>3, <1>5, <1>6 DEF Sound, g

(* An event is accepted at the task where the work stands.                 *)
LEMMA AcceptedWhereItStands ==
  ASSUME NEW g, Sound(g), NEW e \in EVENTS, Accepts(g, e)
  PROVE  /\ e[1] \in Tasks /\ e[2] \in {"pass", "fail"}
         /\ StandsAt(g, e[1], "READY") /\ g.status = "ACTIVE"
         /\ Delegated(g.roles, e[1])
<1>1. e[1] \in Tasks /\ e[2] \in {"pass", "fail"}
  BY DEF EVENTS
<1>2. g.status = "ACTIVE" /\ g.tasks[e[1]] = "READY" /\ Delegated(g.roles, e[1])
  BY DEF Accepts
<1>3. PICK t \in Tasks : StandsAt(g, t, "READY")
  BY <1>2 DEF Sound, validateTaskGraphState
<1>4. t = e[1]
  BY <1>1, <1>2, <1>3 DEF StandsAt
<1> QED BY <1>1, <1>2, <1>3, <1>4

(* A failed task that exhausts the budget ends the graph where it stands.  *)
LEMMA LastFailureIsSound ==
  ASSUME NEW g, Sound(g), NEW e \in EVENTS, Accepts(g, e), e[2] = "fail", Exhausted(g)
  PROVE  /\ Sound(applyEvent(g, e))
         /\ \E x \in Entry : x.event = e /\ applyEvent(g, e).history = Append(g.history, x)
<1>1. /\ e[1] \in Tasks /\ StandsAt(g, e[1], "READY") /\ g.status = "ACTIVE"
      /\ Delegated(g.roles, e[1])
  BY AcceptedWhereItStands
<1>2. g \in Graph /\ Budgeted(g) /\ Proper(g.roles)
  BY DEF Sound
<1> DEFINE failed == [g EXCEPT !.tasks[e[1]] = "FAIL"]
           last   == [failed EXCEPT !.status = "FAILED"]
           n      == failed.retryCount + 1
           h      == Recorded(last, e, "FAILED_MAX_RETRIES", n)
<1>3. /\ failed \in Graph
      /\ failed.status = g.status /\ failed.maxRetries = g.maxRetries
      /\ failed.retryCount = g.retryCount /\ failed.roles = g.roles
      /\ failed.history = g.history /\ failed.tasks = [g.tasks EXCEPT ![e[1]] = "FAIL"]
  <2>1. [g.tasks EXCEPT ![e[1]] = "FAIL"] \in [Tasks -> TaskStatuses]
    BY <1>1, <1>2 DEF Graph, TaskStatuses
  <2>2. failed = [g EXCEPT !.tasks = [g.tasks EXCEPT ![e[1]] = "FAIL"]]
    BY <1>2 DEF Graph
  <2> HIDE DEF failed
  <2> QED BY <1>2, <2>1, <2>2 DEF Graph
<1>4. applyEvent(g, e) = h
  <2>1. Exhausted(failed)
    BY <1>3 DEF Exhausted
  <2>2. applyEvent(g, e) = resetForRetry(failed, e)
    BY DEF applyEvent
  <2> HIDE DEF failed
  <2> QED BY <2>1, <2>2 DEF resetForRetry
<1> HIDE DEF failed, h
<1>5. /\ last \in Graph /\ last.status = "FAILED" /\ last.maxRetries = g.maxRetries
      /\ last.retryCount = g.retryCount /\ last.roles = g.roles
      /\ last.history = g.history /\ last.tasks = [g.tasks EXCEPT ![e[1]] = "FAIL"]
  BY <1>3 DEF Graph, Statuses
<1>6. n \in Nat
  BY <1>3 DEF Graph
<1> HIDE DEF last, n
<1>7. /\ h \in Graph /\ h.status = "FAILED" /\ h.maxRetries = g.maxRetries
      /\ h.retryCount = g.retryCount /\ h.roles = g.roles
      /\ h.tasks = [g.tasks EXCEPT ![e[1]] = "FAIL"]
      /\ \E x \in Entry : x.event = e /\ h.history = Append(g.history, x)
      /\ Cardinality(Failures(last)) \in Nat
      /\ Cardinality(Failures(h)) = Cardinality(Failures(last)) + 1
  <2>1. OneMore(last, h, e)
    BY <1>5, <1>6, RecordedIsOneMore DEF h, Outcomes
  <2> QED BY <1>5, <2>1 DEF OneMore
<1>8. Failures(last) = Failures(g)
  BY <1>5 DEF Failures
<1>9. Budgeted(h)
  <2>1. g.retryCount \in Nat /\ g.maxRetries \in Nat /\ g.retryCount = g.maxRetries
    BY <1>2 DEF Exhausted, Budgeted, Graph
  <2>2. Cardinality(Failures(g)) = g.retryCount
    BY <1>1, <1>2, <2>1 DEF Budgeted
  <2> QED BY <1>7, <1>8, <2>1, <2>2 DEF Budgeted
<1>10. StandsAt(h, e[1], "FAIL")
  <2>1. g.tasks \in [Tasks -> TaskStatuses]
    BY <1>2 DEF Graph
  <2>2. h.tasks[e[1]] = "FAIL" /\ \A t \in Tasks \ {e[1]} : h.tasks[t] = g.tasks[t]
    BY <1>1, <1>7, <2>1
  <2>3. Delegated(h.roles, e[1]) /\ \A t \in Tasks : Delegated(h.roles, t) <=> Delegated(g.roles, t)
    BY <1>1, <1>7
  <2>4. ASSUME NEW t \in Tasks
        PROVE  h.tasks[t] = IF ~Delegated(h.roles, t) THEN "SKIPPED"
                            ELSE IF t = e[1] THEN "FAIL"
                            ELSE IF t \in Before(e[1]) THEN "PASS"
                            ELSE "BLOCKED"
    <3>1. CASE t = e[1]
      <4>1. t \notin Before(e[1])
        BY <1>1, <3>1 DEF Before, Tasks
      <4> QED BY <2>2, <2>3, <3>1, <4>1
    <3>2. CASE t # e[1]
      <4>1. g.tasks[t] = IF ~Delegated(g.roles, t) THEN "SKIPPED"
                         ELSE IF t \in Before(e[1]) THEN "PASS"
                         ELSE "BLOCKED"
        BY <1>1, <3>2 DEF StandsAt
      <4> QED BY <2>2, <2>3, <3>2, <4>1
    <3> QED BY <3>1, <3>2
  <2> QED BY <2>3, <2>4 DEF StandsAt
<1>11. validateTaskGraphState(h)
  BY <1>1, <1>7, <1>10 DEF validateTaskGraphState
<1> QED BY <1>2, <1>4, <1>7, <1>9, <1>11 DEF Sound

(* Any other failed task sends the work back to the builder and costs one  *)
(* retry.                                                                  *)
LEMMA RetryIsSound ==
  ASSUME NEW g, Sound(g), NEW e \in EVENTS, Accepts(g, e), e[2] = "fail", ~Exhausted(g)
  PROVE  /\ Sound(applyEvent(g, e))
         /\ \E x \in Entry : x.event = e /\ applyEvent(g, e).history = Append(g.history, x)
<1>1. /\ e[1] \in Tasks /\ StandsAt(g, e[1], "READY") /\ g.status = "ACTIVE"
  BY AcceptedWhereItStands
<1>2. g \in Graph /\ Budgeted(g) /\ Proper(g.roles)
  BY DEF Sound
<1> DEFINE failed  == [g EXCEPT !.tasks[e[1]] = "FAIL"]
           retried == [failed EXCEPT !.retryCount = @ + 1, !.tasks = InitialTasks(failed.roles)]
           n       == failed.retryCount + 1
           h       == Recorded(retried, e, "RETRY", n)
<1>3. /\ failed \in Graph
      /\ failed.status = g.status /\ failed.maxRetries = g.maxRetries
      /\ failed.retryCount = g.retryCount /\ failed.roles = g.roles
      /\ failed.history = g.history
  <2>1. [g.tasks EXCEPT ![e[1]] = "FAIL"] \in [Tasks -> TaskStatuses]
    BY <1>1, <1>2 DEF Graph, TaskStatuses
  <2>2. failed = [g EXCEPT !.tasks = [g.tasks EXCEPT ![e[1]] = "FAIL"]]
    BY <1>2 DEF Graph
  <2> HIDE DEF failed
  <2> QED BY <1>2, <2>1, <2>2 DEF Graph
<1>4. applyEvent(g, e) = h
  <2>1. ~Exhausted(failed)
    BY <1>3 DEF Exhausted
  <2>2. applyEvent(g, e) = resetForRetry(failed, e)
    BY DEF applyEvent
  <2> HIDE DEF failed
  <2> QED BY <2>1, <2>2 DEF resetForRetry
<1> HIDE DEF failed, h
<1>5. InitialTasks(failed.roles) \in [Tasks -> TaskStatuses]
  BY DEF InitialTasks, TaskStatuses
<1>6. /\ retried \in Graph /\ retried.status = "ACTIVE" /\ retried.maxRetries = g.maxRetries
      /\ retried.retryCount = g.retryCount + 1 /\ retried.roles = g.roles
      /\ retried.history = g.history /\ retried.tasks = InitialTasks(g.roles)
  <2>1. n \in Nat /\ n = g.retryCount + 1
    BY <1>3 DEF Graph
  <2>2. retried = [failed EXCEPT !.retryCount = n, !.tasks = InitialTasks(failed.roles)]
    OBVIOUS
  <2> HIDE DEF n, retried
  <2> QED BY <1>1, <1>3, <1>5, <2>1, <2>2 DEF Graph
<1>7. n \in Nat
  BY <1>3 DEF Graph
<1> HIDE DEF retried, n
<1>8. /\ h \in Graph /\ h.status = "ACTIVE" /\ h.maxRetries = g.maxRetries
      /\ h.retryCount = g.retryCount + 1 /\ h.roles = g.roles
      /\ h.tasks = InitialTasks(g.roles)
      /\ \E x \in Entry : x.event = e /\ h.history = Append(g.history, x)
      /\ Cardinality(Failures(retried)) \in Nat
      /\ Cardinality(Failures(h)) = Cardinality(Failures(retried)) + 1
  <2>1. OneMore(retried, h, e)
    BY <1>6, <1>7, RecordedIsOneMore DEF h, Outcomes
  <2> QED BY <1>6, <2>1 DEF OneMore
<1>9. Failures(retried) = Failures(g)
  BY <1>6 DEF Failures
<1>10. Budgeted(h)
  <2>1. /\ g.retryCount \in Nat /\ g.maxRetries \in Nat /\ g.retryCount < g.maxRetries
    BY <1>2 DEF Exhausted, Budgeted, Graph
  <2>2. Cardinality(Failures(g)) = g.retryCount
    BY <1>1, <1>2, <2>1 DEF Budgeted
  <2> QED BY <1>8, <1>9, <2>1, <2>2 DEF Budgeted
<1>11. validateTaskGraphState(h)
  <2>1. StandsAt(h, "builder", "READY")
    BY <1>2, <1>8, InitialStands
  <2> QED BY <1>8, <2>1 DEF validateTaskGraphState, Tasks
<1> QED BY <1>2, <1>4, <1>8, <1>10, <1>11 DEF Sound

(* A passed task leaves the work standing at the next one of the route.    *)
LEMMA NextTaskStands ==
  ASSUME NEW g, Proper(g.roles), g.tasks \in [Tasks -> TaskStatuses],
         NEW task \in Tasks \ {"verification"}, StandsAt(g, task, "READY"),
         NEW h, h.roles = g.roles,
         h.tasks = [g.tasks EXCEPT ![task] = "PASS", ![NextTask(g.roles, task)] = "READY"]
  PROVE  StandsAt(h, NextTask(g.roles, task), "READY")
<1> DEFINE next == NextTask(g.roles, task)
<1>1. /\ next \in Tasks /\ next # task /\ Delegated(g.roles, next) /\ Delegated(g.roles, task)
      /\ \A t \in Tasks : t \in Before(next) /\ Delegated(g.roles, t)
                            <=> t \in Before(task) \cup {task} /\ Delegated(g.roles, t)
      /\ next \notin Before(next)
  BY DEF NextTask, Tasks, Before, Delegated, Proper, Roles, StandsAt
<1> HIDE DEF next
<1>2. /\ h.tasks[task] = "PASS" /\ h.tasks[next] = "READY"
      /\ \A t \in Tasks \ {task, next} : h.tasks[t] = g.tasks[t]
  BY <1>1 DEF next
<1>3. ASSUME NEW t \in Tasks
      PROVE  h.tasks[t] = IF ~Delegated(h.roles, t) THEN "SKIPPED"
                          ELSE IF t = next THEN "READY"
                          ELSE IF t \in Before(next) THEN "PASS"
                          ELSE "BLOCKED"
  <2>1. CASE t \in {task, next}
    BY <1>1, <1>2, <2>1
  <2>2. CASE t \notin {task, next}
    <3>1. g.tasks[t] = IF ~Delegated(g.roles, t) THEN "SKIPPED"
                       ELSE IF t \in Before(task) THEN "PASS"
                       ELSE "BLOCKED"
      BY <2>2 DEF StandsAt
    <3>2. h.tasks[t] = g.tasks[t] /\ (Delegated(h.roles, t) <=> Delegated(g.roles, t))
      BY <1>2, <2>2
    <3>3. Delegated(g.roles, t) => (t \in Before(next) <=> t \in Before(task))
      BY <1>1, <2>2
    <3>4. CASE ~Delegated(g.roles, t)
      <4>1. g.tasks[t] = "SKIPPED"
        BY <3>1, <3>4
      <4>2. h.tasks[t] = "SKIPPED" /\ ~Delegated(h.roles, t)
        BY <3>2, <3>4, <4>1
      <4> QED BY <4>2
    <3>5. CASE Delegated(g.roles, t) /\ t \in Before(task)
      <4>1. h.tasks[t] = "PASS" /\ t \in Before(next) /\ Delegated(h.roles, t) /\ t # next
        BY <2>2, <3>1, <3>2, <3>3, <3>5
      <4> QED BY <4>1
    <3>6. CASE Delegated(g.roles, t) /\ t \notin Before(task)
      <4>1. h.tasks[t] = "BLOCKED" /\ t \notin Before(next) /\ Delegated(h.roles, t) /\ t # next
        BY <2>2, <3>1, <3>2, <3>3, <3>6
      <4> QED BY <4>1
    <3> QED BY <3>4, <3>5, <3>6
  <2> QED BY <2>1, <2>2
<1>4. Delegated(h.roles, next)
  BY <1>1
<1> QED BY <1>3, <1>4 DEF StandsAt, next

(* A passed task moves the work on, or completes the graph.                *)
LEMMA PassIsSound ==
  ASSUME NEW g, Sound(g), NEW e \in EVENTS, Accepts(g, e), e[2] = "pass"
  PROVE  /\ Sound(applyEvent(g, e))
         /\ \E x \in Entry : x.event = e /\ applyEvent(g, e).history = Append(g.history, x)
<1>1. /\ e[1] \in Tasks /\ StandsAt(g, e[1], "READY") /\ g.status = "ACTIVE"
      /\ Delegated(g.roles, e[1])
  BY AcceptedWhereItStands
<1>2. /\ g \in Graph /\ Budgeted(g) /\ Proper(g.roles)
      /\ g.tasks \in [Tasks -> TaskStatuses]
  BY DEF Sound, Graph
<1> DEFINE next == Passed(g, e[1])
           h    == Recorded(next, e, next.status, next.retryCount)
<1>3. /\ next \in Graph /\ next.status \in {"ACTIVE", "COMPLETE"}
      /\ next.maxRetries = g.maxRetries /\ next.retryCount = g.retryCount
      /\ next.roles = g.roles /\ next.history = g.history
      /\ validateTaskGraphState(next)
  <2>1. CASE e[1] = "verification"
    <3> DEFINE T == [g.tasks EXCEPT !["verification"] = "PASS"]
    <3>1. next = [g EXCEPT !.tasks = T, !.status = "COMPLETE"]
      BY <1>2, <2>1 DEF Passed, Graph
    <3>2. T \in [Tasks -> TaskStatuses]
      BY <1>2 DEF TaskStatuses
    <3>3. T["verification"] = "PASS" /\ \A t \in Tasks \ {"verification"} : T[t] = g.tasks[t]
      BY <1>2 DEF Tasks
    <3> HIDE DEF next, T
    <3>4. /\ next \in Graph /\ next.status = "COMPLETE"
          /\ next.maxRetries = g.maxRetries /\ next.retryCount = g.retryCount
          /\ next.roles = g.roles /\ next.history = g.history /\ next.tasks = T
      BY <1>2, <3>1, <3>2 DEF Graph, Statuses
    <3>5. StandsAt(next, "verification", "PASS")
      <4>1. ASSUME NEW t \in Tasks
            PROVE  next.tasks[t] = IF ~Delegated(next.roles, t) THEN "SKIPPED"
                                   ELSE IF t = "verification" THEN "PASS"
                                   ELSE IF t \in Before("verification") THEN "PASS"
                                   ELSE "BLOCKED"
        <5>1. CASE t = "verification"
          BY <1>1, <2>1, <3>3, <3>4, <5>1
        <5>2. CASE t # "verification"
          <6>1. next.tasks[t] = g.tasks[t] /\ (Delegated(next.roles, t) <=> Delegated(g.roles, t))
            BY <3>3, <3>4, <5>2
          <6>2. g.tasks[t] = IF ~Delegated(g.roles, t) THEN "SKIPPED" ELSE "PASS"
            BY <1>1, <2>1, <5>2 DEF StandsAt, Before, Tasks
          <6>3. t \in Before("verification")
            BY <5>2 DEF Before, Tasks
          <6> QED BY <5>2, <6>1, <6>2, <6>3
        <5> QED BY <5>1, <5>2
      <4>2. Delegated(next.roles, "verification")
        BY <1>1, <2>1, <3>4
      <4> QED BY <4>1, <4>2 DEF StandsAt
    <3> QED BY <3>4, <3>5 DEF validateTaskGraphState
  <2>2. CASE e[1] # "verification"
    <3> DEFINE n == NextTask(g.roles, e[1])
               T == [g.tasks EXCEPT ![e[1]] = "PASS", ![n] = "READY"]
    <3>1. next = [g EXCEPT !.tasks = T]
      BY <1>2, <2>2 DEF Passed, Graph
    <3>2. n \in Tasks
      BY DEF NextTask, Tasks
    <3>3. T \in [Tasks -> TaskStatuses]
      BY <1>1, <1>2, <3>2 DEF TaskStatuses
    <3> HIDE DEF next, T
    <3>4. /\ next \in Graph /\ next.status = "ACTIVE"
          /\ next.maxRetries = g.maxRetries /\ next.retryCount = g.retryCount
          /\ next.roles = g.roles /\ next.history = g.history /\ next.tasks = T
      BY <1>1, <1>2, <3>1, <3>3 DEF Graph
    <3>5. StandsAt(next, n, "READY")
      BY <1>1, <1>2, <2>2, <3>4, NextTaskStands DEF T
    <3> QED BY <3>2, <3>4, <3>5 DEF validateTaskGraphState
  <2> QED BY <2>1, <2>2
<1>4. applyEvent(g, e) = h
  BY DEF applyEvent
<1> HIDE DEF next, h
<1>5. /\ h \in Graph /\ h.status = next.status /\ h.maxRetries = g.maxRetries
      /\ h.retryCount = g.retryCount /\ h.roles = g.roles /\ h.tasks = next.tasks
      /\ \E x \in Entry : x.event = e /\ h.history = Append(g.history, x)
      /\ Cardinality(Failures(next)) \in Nat
      /\ Cardinality(Failures(h)) = Cardinality(Failures(next))
  <2>1. next.status \in Outcomes /\ next.retryCount \in Nat
    BY <1>3 DEF Outcomes, Graph
  <2>2. OneMore(next, h, e)
    BY <1>3, <2>1, RecordedIsOneMore DEF h
  <2>3. Cardinality(Failures(h)) = Cardinality(Failures(next)) + 0 /\ Cardinality(Failures(next)) \in Nat
    BY <2>2 DEF OneMore
  <2> QED BY <1>3, <2>2, <2>3 DEF OneMore
<1>6. Failures(next) = Failures(g)
  BY <1>3 DEF Failures
<1>7. Budgeted(h)
  BY <1>1, <1>2, <1>3, <1>5, <1>6 DEF Budgeted
<1>8. validateTaskGraphState(h)
  <2>1. \A t \in Tasks, s \in {"READY", "PASS", "FAIL"} : StandsAt(next, t, s) <=> StandsAt(h, t, s)
    BY <1>3, <1>5 DEF StandsAt
  <2> QED BY <1>3, <1>5, <2>1 DEF validateTaskGraphState, Tasks
<1> QED BY <1>2, <1>4, <1>5, <1>7, <1>8 DEF Sound

(* Whatever event a sound graph accepts leaves it sound and one entry      *)
(* longer.                                                                 *)
LEMMA EventIsSound ==
  ASSUME NEW g, Sound(g), NEW e \in EVENTS, Accepts(g, e)
  PROVE  /\ Sound(applyEvent(g, e))
         /\ \E x \in Entry : x.event = e /\ applyEvent(g, e).history = Append(g.history, x)
<1>1. e[2] \in {"pass", "fail"}
  BY AcceptedWhereItStands
<1> QED BY <1>1, LastFailureIsSound, RetryIsSound, PassIsSound

-----------------------------------------------------------------------------
(* The first invariant: types, and every graph on disk or about to be      *)
(* written is sound.                                                       *)

Results == {"DRY_RUN", "PASS", "FAIL", "TIMEOUT", "PROVIDER_ERROR"}
Run     == [task : Tasks, result : Results, event : EVENTS \cup {None}]
Runtime == [roles : Roles, adapters : [Tasks -> {"dry-run", "scripted"}], local : BOOLEAN]
Command ==
  [pc : Pcs, task : Tasks \cup {None}, adapter : Adapters \cup {None},
   seen : Nat \cup {None}, result : Results \cup {None}, event : EVENTS \cup {None},
   next : Graph \cup {None}]

(* What a command holds in memory at each of its steps.                    *)
CommandInv(c) ==
  /\ c.pc \in {"adapter", "evidence"} => c.task \in Tasks
  /\ c.pc = "evidence" => c.result \in Results
  /\ c.pc = "read" => c.event \in EVENTS
  /\ c.pc \in {"write", "fill"} => Sound(c.next)

IInv ==
  /\ practice \in Practices
  /\ Readable => Sound(graph)
  /\ runtime = Missing \/ runtime \in Runtime
  /\ review \in {None, "PASS", "FAIL"}
  /\ runs \in Seq(Run)
  /\ proc \in [Procs -> Command]
  /\ \A p \in Procs : CommandInv(proc[p])
  /\ inits \in 0..MaxInits
  /\ reported \subseteq Statuses

(* The command of p becomes c, and nobody else's changes.                  *)
Becomes(p, c) == c \in Command /\ CommandInv(c) /\ proc' = [proc EXCEPT ![p] = c]

(* A command that ends holds nothing.                                      *)
LEMMA IdleIsCommand ==
  /\ Idle \in Command /\ CommandInv(Idle)
  /\ Idle.pc = "idle" /\ Idle.event = None
BY DEF Idle, Command, CommandInv, Pcs

-----------------------------------------------------------------------------
(* What each step does to the command of its process.                      *)

(* A command that ends is idle.                                            *)
LEMMA ExitIs ==
  ASSUME NEW p \in Procs, Exit(p)
  PROVE  Becomes(p, Idle)
BY IdleIsCommand DEF Exit, Becomes

(* Going on to reading or filling changes the position only.               *)
LEMMA GotoIs ==
  ASSUME IInv, NEW p \in Procs, NEW pc \in {"read", "fill"}, Goto(p, pc),
         pc = "read" => proc[p].event \in EVENTS,
         pc = "fill" => Sound(proc[p].next)
  PROVE  \E c : /\ Becomes(p, c) /\ c.pc = pc
                /\ c.event = proc[p].event /\ c.next = proc[p].next
<1> DEFINE c == [proc[p] EXCEPT !.pc = pc]
<1>1. proc[p] \in Command
  BY DEF IInv
<1>2. c \in Command /\ c.pc = pc /\ c.event = proc[p].event /\ c.next = proc[p].next
  BY <1>1 DEF Command, Pcs
<1>3. proc' = [proc EXCEPT ![p] = c]
  BY DEF Goto, IInv
<1> HIDE DEF c
<1>4. CommandInv(c)
  BY <1>2 DEF CommandInv
<1> QED BY <1>2, <1>3, <1>4 DEF Becomes

(* agent:graph:init is about to write a graph without a history.           *)
LEMMA InitGraphIs ==
  ASSUME IInv, NEW p \in Procs, InitGraph(p)
  PROVE  \E c : /\ Becomes(p, c) /\ c.pc = "write" /\ c.event = None
                /\ c.next.history = << >>
<1>1. PICK roles \in Delegations :
        proc' = [proc EXCEPT ![p] = [Idle EXCEPT !.pc = "write",
                                       !.next = createInitialGraph(roles, MaxRetries)]]
  BY DEF InitGraph
<1> DEFINE g == createInitialGraph(roles, MaxRetries)
           c == [Idle EXCEPT !.pc = "write", !.next = g]
<1>2. Sound(g) /\ g.history = << >> /\ g \in Graph
  <2>1. Proper(roles) /\ MaxRetries \in Nat
    BY AgentTasksAssumption DEF Proper, Roles
  <2> QED BY <2>1, InitialIsSound DEF Sound
<1> HIDE DEF g
<1>3. c \in Command /\ c.pc = "write" /\ c.event = None /\ c.next = g
  BY <1>2, IdleIsCommand DEF Command, Pcs
<1>4. proc' = [proc EXCEPT ![p] = c]
  BY <1>1 DEF g
<1> HIDE DEF c
<1>5. CommandInv(c)
  BY <1>2, <1>3 DEF CommandInv
<1> QED BY <1>2, <1>3, <1>4, <1>5 DEF Becomes

(* A configured runtime names an adapter for every task.                   *)
LEMMA AdapterType ==
  ASSUME IInv, runtime # Missing, NEW task \in Tasks
  PROVE  Adapter(task) \in Adapters
BY DEF IInv, Adapter, Adapters, Runtime

(* A run that found its task READY waits for the task's adapter.           *)
LEMMA StartRunIs ==
  ASSUME IInv, NEW p \in Procs, NEW task \in Tasks, StartRun(p, task)
  PROVE  \E c : /\ Becomes(p, c) /\ c.pc = "adapter" /\ c.event = None
                /\ c.task = task /\ c.adapter = Adapter(task)
<1> DEFINE a == Adapter(task)
           n == graph.retryCount
           c == [Idle EXCEPT !.pc = "adapter", !.task = task, !.adapter = a, !.seen = n]
<1>1. a \in Adapters
  BY AdapterType DEF StartRun, MayRun
<1>2. n \in Nat
  BY DEF IInv, StartRun, MayRun, Sound, Graph
<1>3. proc' = [proc EXCEPT ![p] = c]
  BY DEF StartRun
<1> HIDE DEF a, n
<1>4. /\ c \in Command /\ c.pc = "adapter" /\ c.event = None
      /\ c.task = task /\ c.adapter = a
  BY <1>1, <1>2, IdleIsCommand DEF Command, Pcs
<1> HIDE DEF c
<1>5. CommandInv(c)
  BY <1>4 DEF CommandInv
<1> QED BY <1>3, <1>4, <1>5 DEF Becomes, a

(* The provider's result decides which event the run will ask for.         *)
LEMMA AnsweredIs ==
  ASSUME IInv, NEW p \in Procs, NEW result \in Results, Answered(p, result),
         proc[p].pc = "adapter"
  PROVE  \E c : /\ Becomes(p, c) /\ c.pc = "evidence"
                /\ c.event = TaskEvent(proc[p].task, result)
<1> DEFINE e == TaskEvent(proc[p].task, result)
           c == [proc[p] EXCEPT !.pc = "evidence", !.result = result, !.event = e]
<1>1. proc[p] \in Command /\ proc[p].task \in Tasks
  BY DEF IInv, CommandInv
<1>2. e \in EVENTS \cup {None}
  BY <1>1 DEF TaskEvent, EVENTS
<1>3. proc' = [proc EXCEPT ![p] = c]
  BY DEF Answered, IInv
<1> HIDE DEF e
<1>4. /\ c \in Command /\ c.pc = "evidence" /\ c.event = e
      /\ c.task = proc[p].task /\ c.result = result
  BY <1>1, <1>2 DEF Command, Pcs
<1> HIDE DEF c
<1>5. CommandInv(c)
  BY <1>1, <1>4 DEF CommandInv
<1> QED BY <1>3, <1>4, <1>5 DEF Becomes, e

(* The run's evidence names the event that the run then asks for, or ends  *)
(* without one.                                                            *)
LEMMA WriteEvidenceIs ==
  ASSUME IInv, NEW p \in Procs, WriteEvidence(p)
  PROVE  /\ \E x \in Run : x.event = proc[p].event /\ runs' = Append(runs, x)
         /\ \E c : /\ Becomes(p, c) /\ c.pc \in {"idle", "read"}
                   /\ c.event = proc[p].event
<1>1. proc[p] \in Command /\ proc[p].task \in Tasks /\ proc[p].result \in Results
  BY DEF IInv, CommandInv, WriteEvidence
<1>2. Evidence(p) \in Run /\ Evidence(p).event = proc[p].event
  BY <1>1 DEF Evidence, Run, Command
<1>3. \E c : Becomes(p, c) /\ c.pc \in {"idle", "read"} /\ c.event = proc[p].event
  <2>1. CASE proc[p].event = None /\ Exit(p)
    BY <2>1, ExitIs, IdleIsCommand
  <2>2. CASE proc[p].event # None /\ Goto(p, "read")
    <3>1. proc[p].event \in EVENTS
      BY <1>1, <2>2 DEF Command
    <3> QED BY <2>2, <3>1, GotoIs
  <2> QED BY <2>1, <2>2 DEF WriteEvidence
<1> QED BY <1>2, <1>3 DEF WriteEvidence

(* An event typed by hand goes to the graph's file directly.               *)
LEMMA TypeEventIs ==
  ASSUME IInv, NEW p \in Procs, NEW e \in EVENTS, TypeEvent(p, e)
  PROVE  \E c : Becomes(p, c)
<1> DEFINE c == [Idle EXCEPT !.pc = "read", !.event = e]
<1>1. c \in Command /\ c.pc = "read" /\ c.event = e
  BY IdleIsCommand DEF Command, Pcs
<1>2. proc' = [proc EXCEPT ![p] = c]
  BY DEF TypeEvent
<1> HIDE DEF c
<1> QED BY <1>1, <1>2 DEF Becomes, CommandInv

(* Reading the graph either ends the command or gives it the graph with    *)
(* its event applied.                                                      *)
LEMMA ReadIs ==
  ASSUME IInv, NEW p \in Procs, Read(p)
  PROVE  \/ Becomes(p, Idle)
         \/ /\ Readable /\ Accepts(graph, proc[p].event) /\ proc[p].event \in EVENTS
            /\ \E c : /\ Becomes(p, c) /\ c.pc = "write" /\ c.event = proc[p].event
                      /\ c.next = applyEvent(graph, proc[p].event)
<1> DEFINE g == applyEvent(graph, proc[p].event)
           c == [proc[p] EXCEPT !.pc = "write", !.next = g]
<1>1. proc[p] \in Command /\ proc[p].event \in EVENTS
  BY DEF IInv, CommandInv, Read
<1>2. CASE Readable /\ Accepts(graph, proc[p].event)
  <2>1. Sound(g) /\ g \in Graph
    BY <1>1, <1>2, EventIsSound DEF IInv, Sound
  <2>2. proc' = [proc EXCEPT ![p] = c]
    BY <1>2 DEF Read, IInv
  <2> HIDE DEF g
  <2>3. c \in Command /\ c.pc = "write" /\ c.event = proc[p].event /\ c.next = g
    BY <1>1, <2>1 DEF Command, Pcs
  <2> HIDE DEF c
  <2>4. CommandInv(c)
    BY <2>1, <2>3 DEF CommandInv
  <2> QED BY <1>1, <1>2, <2>2, <2>3, <2>4 DEF Becomes, g
<1>3. CASE ~(Readable /\ Accepts(graph, proc[p].event))
  BY <1>3, ExitIs DEF Read
<1> QED BY <1>2, <1>3

-----------------------------------------------------------------------------
(* The first invariant holds.                                              *)

(* A step of one command keeps it, if what it leaves in the files is well  *)
(* formed.                                                                 *)
LEMMA CommandStep ==
  ASSUME IInv, NEW p \in Procs, NEW c, Becomes(p, c),
         UNCHANGED practice,
         graph' \in {graph, Torn} \/ Sound(graph'),
         UNCHANGED runtime, review' \in {None, "PASS", "FAIL"}, runs' \in Seq(Run),
         inits' \in 0..MaxInits, reported' \subseteq Statuses
  PROVE  IInv'
<1>1. /\ proc' \in [Procs -> Command]
      /\ \A q \in Procs : proc'[q] = proc[q] \/ proc'[q] = c
  BY DEF IInv, Becomes
<1>2. \A q \in Procs : CommandInv(proc'[q])
  BY <1>1 DEF IInv, Becomes
<1>3. Readable' => Sound(graph')
  BY DEF IInv, Readable
<1> QED BY <1>1, <1>2, <1>3 DEF IInv

(* Before the first command there is no file.                              *)
LEMMA InitIInv == Init => IInv
BY IdleIsCommand, AgentTasksAssumption DEF Init, IInv, Readable

(* Every step keeps the invariant: whatever graph is written was read      *)
(* from a sound one.                                                       *)
LEMMA NextIInv == IInv /\ [Next]_vars => IInv'
<1> SUFFICES ASSUME IInv, [Next]_vars PROVE IInv'
  OBVIOUS
<1>0. /\ review \in {None, "PASS", "FAIL"} /\ runs \in Seq(Run)
      /\ inits \in 0..MaxInits /\ reported \subseteq Statuses
  BY DEF IInv
<1>1. CASE UNCHANGED vars
  BY <1>1 DEF vars, IInv, Readable
<1>2. CASE InitRuntime
  <2>1. runtime' \in Runtime
    BY <1>2 DEF InitRuntime, IInv, Sound, Graph, Runtime
  <2> QED BY <1>2, <2>1 DEF InitRuntime, IInv, Readable
<1>3. CASE EditRuntime
  <2>1. runtime' \in Runtime
    BY <1>3, AgentTasksAssumption DEF EditRuntime, IInv, Runtime
  <2> QED BY <1>3, <2>1 DEF EditRuntime, IInv, Readable
<1>4. CASE ConfigureCodexReviewer
  <2>1. runtime' \in Runtime
    BY <1>4 DEF ConfigureCodexReviewer, IInv, Runtime
  <2> QED BY <1>4, <2>1 DEF ConfigureCodexReviewer, IInv, Readable
<1>5. ASSUME NEW p \in Procs, Step(p) PROVE IInv'
  <2>1. CASE InitGraph(p)
    <3>1. PICK c : Becomes(p, c)
      BY <2>1, InitGraphIs
    <3>2. inits' \in 0..MaxInits
      BY <1>0, <2>1, AgentTasksAssumption DEF InitGraph
    <3> QED BY <1>0, <2>1, <3>1, <3>2, CommandStep DEF InitGraph
  <2>2. ASSUME NEW task \in Tasks, StartRun(p, task) PROVE IInv'
    <3>1. PICK c : Becomes(p, c)
      BY <2>2, StartRunIs
    <3> QED BY <1>0, <2>2, <3>1, CommandStep DEF StartRun
  <2>3. CASE DryRun(p)
    <3>1. PICK c : Becomes(p, c)
      BY <2>3, AnsweredIs DEF DryRun, Results
    <3> QED BY <1>0, <2>3, <3>1, CommandStep DEF DryRun
  <2>4. CASE Scripted(p)
    <3>1. PICK c : Becomes(p, c)
      BY <2>4, AnsweredIs DEF Scripted, Results
    <3> QED BY <1>0, <2>4, <3>1, CommandStep DEF Scripted
  <2>5. CASE CodexReview(p)
    <3>1. PICK r \in ProcessResults :
            /\ Answered(p, runCodexReviewer(r))
            /\ review' = IF r.exit = "ok" /\ parseCodexReviewVerdict(r.output) # None
                         THEN r.output ELSE review
      BY <2>5 DEF CodexReview
    <3>2. runCodexReviewer(r) \in Results
      BY DEF runCodexReviewer, parseCodexReviewVerdict, Results
    <3>3. PICK c : Becomes(p, c)
      BY <2>5, <3>1, <3>2, AnsweredIs DEF CodexReview
    <3>4. review' \in {None, "PASS", "FAIL"}
      BY <1>0, <3>1 DEF parseCodexReviewVerdict
    <3> QED BY <1>0, <2>5, <3>3, <3>4, CommandStep DEF CodexReview
  <2>6. CASE WriteEvidence(p)
    <3>1. PICK c : Becomes(p, c)
      BY <2>6, WriteEvidenceIs
    <3>2. runs' \in Seq(Run)
      BY <1>0, <2>6, WriteEvidenceIs
    <3> QED BY <1>0, <2>6, <3>1, <3>2, CommandStep DEF WriteEvidence
  <2>7. ASSUME NEW e \in EVENTS, TypeEvent(p, e) PROVE IInv'
    <3>1. PICK c : Becomes(p, c)
      BY <2>7, TypeEventIs
    <3> QED BY <1>0, <2>7, <3>1, CommandStep DEF TypeEvent
  <2>8. CASE Read(p)
    <3>1. PICK c : Becomes(p, c)
      BY <2>8, ReadIs
    <3> QED BY <1>0, <2>8, <3>1, CommandStep DEF Read
  <2>9. CASE Truncate(p)
    <3>1. PICK c : Becomes(p, c)
      BY <2>9, GotoIs DEF Truncate, IInv, CommandInv
    <3> QED BY <1>0, <2>9, <3>1, CommandStep DEF Truncate
  <2>10. CASE Fill(p)
    <3>1. Becomes(p, Idle)
      BY <2>10, ExitIs DEF Fill
    <3>2. Sound(proc[p].next) /\ proc[p].next.status \in Statuses
      BY <2>10 DEF Fill, IInv, CommandInv, Sound, Graph
    <3>3. reported' \subseteq Statuses
      BY <1>0, <2>10, <3>2 DEF Fill
    <3> QED BY <1>0, <2>10, <3>1, <3>2, <3>3, CommandStep DEF Fill
  <2>11. CASE Crash(p)
    BY <1>0, <2>11, ExitIs, CommandStep DEF Crash
  <2> QED BY <1>5, <2>1, <2>2, <2>3, <2>4, <2>5, <2>6, <2>7, <2>8, <2>9, <2>10, <2>11 DEF Step
<1> QED BY <1>1, <1>2, <1>3, <1>4, <1>5 DEF Next

(* The first invariant holds of every reachable state.                     *)
THEOREM Invariance == Spec => []IInv
BY InitIInv, NextIInv, PTL DEF Spec

(* Types of the files and of what the commands hold in memory.             *)
THEOREM TypeCorrect == Spec => []TypeOK
<1>1. IInv => TypeOK
  <2> SUFFICES ASSUME IInv PROVE TypeOK
    OBVIOUS
  <2>1. graph \in {Missing, Torn} \/ graph.status \in Statuses
    BY DEF IInv, Readable, Sound, Graph
  <2>2. runtime = Missing \/ runtime.adapters \in [Tasks -> Adapters]
    BY DEF IInv, Runtime, Adapters
  <2>3. \A i \in DOMAIN runs : runs[i].task \in Tasks
    <3>1. runs \in Seq(Run)
      BY DEF IInv
    <3>2. \A i \in DOMAIN runs : runs[i] \in Run
      BY <3>1, ElementOfSeq, LenProperties
    <3> QED BY <3>2 DEF Run
  <2>4. ASSUME NEW p \in Procs
        PROVE  /\ proc[p].pc \in Pcs /\ proc[p].event \in EVENTS \cup {None}
               /\ proc[p].pc \in {"write", "fill"} => proc[p].next.status \in Statuses
    BY DEF IInv, Command, CommandInv, Sound, Graph
  <2> QED BY <2>1, <2>2, <2>3, <2>4 DEF IInv, TypeOK
<1> QED BY <1>1, Invariance, PTL

(* Whatever commands overlap and are killed, a graph that can be read is   *)
(* one validateTaskGraphState accepts.                                     *)
THEOREM GraphsAreReachable == Spec => []GraphIsReachable
<1>1. IInv => GraphIsReachable
  BY DEF IInv, GraphIsReachable, Sound
<1> QED BY <1>1, Invariance, PTL

(* Whatever events overlapping rewrites lose, the retries granted are the  *)
(* failures of the history, and the budget is never exceeded.              *)
THEOREM BudgetsAreKept == Spec => []RetriesAreBudgeted
<1>1. IInv => RetriesAreBudgeted
  BY DEF IInv, RetriesAreBudgeted, Sound, Budgeted
<1> QED BY <1>1, Invariance, PTL

-----------------------------------------------------------------------------
(* The second invariant, for teams that type no events: a transition that  *)
(* was or will be made is covered by a run of its own.  The commands       *)
(* between their evidence and their rewrite still have to be counted.      *)

Waits(c, e)   == c.pc = "read" /\ c.event = e
Waiting(e)    == {p \in Procs : Waits(proc[p], e)}
Asked(e)      == Cardinality(Occurrences(runs, e))
Covered(s, e) == Cardinality(Occurrences(s, e)) + Cardinality(Waiting(e)) <= Asked(e)

EvidenceInv ==
  "event" \notin practice =>
    \A e \in EVENTS :
      /\ Covered(<< >>, e)
      /\ Readable => Covered(graph.history, e)
      /\ \A p \in Procs : proc[p].pc \in {"write", "fill"} => Covered(proc[p].next.history, e)

(* The number of commands that wait to make a transition.                  *)
LEMMA WaitingType ==
  ASSUME NEW e
  PROVE  IsFiniteSet(Waiting(e)) /\ Cardinality(Waiting(e)) \in Nat
<1>1. Waiting(e) \in SUBSET Procs
  BY DEF Waiting
<1> QED BY <1>1, AgentTasksAssumption, FS_Subset, FS_CardinalityType

(* A step of one command changes the number of those that wait with an     *)
(* event by at most one.                                                   *)
LEMMA WaitingStep ==
  ASSUME IInv, NEW p \in Procs, NEW c, Becomes(p, c), NEW e
  PROVE  /\ Cardinality(Waiting(e)') \in Nat
         /\ Waits(c, e) => Cardinality(Waiting(e)') <= Cardinality(Waiting(e)) + 1
         /\ Waits(c, e) /\ Waits(proc[p], e) =>
              Cardinality(Waiting(e)') = Cardinality(Waiting(e))
         /\ ~Waits(c, e) => Cardinality(Waiting(e)') <= Cardinality(Waiting(e))
         /\ ~Waits(c, e) /\ Waits(proc[p], e) =>
              Cardinality(Waiting(e)') = Cardinality(Waiting(e)) - 1
<1>1. proc'[p] = c /\ \A q \in Procs \ {p} : proc'[q] = proc[q]
  BY DEF IInv, Becomes
<1>2. IsFiniteSet(Waiting(e)) /\ Cardinality(Waiting(e)) \in Nat
  BY WaitingType
<1>3. CASE Waits(c, e)
  <2>1. Waiting(e)' = Waiting(e) \cup {p}
    BY <1>1, <1>3 DEF Waiting
  <2>2. Waits(proc[p], e) <=> p \in Waiting(e)
    BY DEF Waiting
  <2> QED BY <1>2, <1>3, <2>1, <2>2, FS_AddElement
<1>4. CASE ~Waits(c, e)
  <2>1. Waiting(e)' = Waiting(e) \ {p}
    BY <1>1, <1>4 DEF Waiting
  <2>2. Waits(proc[p], e) <=> p \in Waiting(e)
    BY DEF Waiting
  <2>3. /\ IsFiniteSet(Waiting(e) \ {p})
        /\ Cardinality(Waiting(e) \ {p}) = IF p \in Waiting(e) THEN Cardinality(Waiting(e)) - 1
                                            ELSE Cardinality(Waiting(e))
    BY <1>2, FS_RemoveElement
  <2>4. Cardinality(Waiting(e) \ {p}) \in Nat
    BY <2>3, FS_CardinalityType
  <2> QED BY <1>2, <1>4, <2>1, <2>2, <2>3, <2>4
<1> QED BY <1>3, <1>4

(* What is covered stays so while nobody else begins to wait: these are    *)
(* the steps but TypeEvent, WriteEvidence and the Read that goes on.       *)
LEMMA QuietStep ==
  ASSUME IInv, EvidenceInv, NEW p \in Procs, NEW c, Becomes(p, c),
         c.pc # "read", UNCHANGED <<practice, runs>>,
         \/ graph' \in {graph, Torn}
         \/ proc[p].pc = "fill" /\ graph' = proc[p].next,
         c.pc \in {"write", "fill"} =>
           \/ c.next.history = << >>
           \/ proc[p].pc \in {"write", "fill"} /\ c.next = proc[p].next
  PROVE  EvidenceInv'
<1> SUFFICES ASSUME "event" \notin practice, NEW e \in EVENTS
             PROVE  /\ Covered(<< >>, e)'
                    /\ Readable' => Covered(graph.history, e)'
                    /\ \A q \in Procs : proc'[q].pc \in {"write", "fill"} =>
                                         Covered(proc[q].next.history, e)'
  BY DEF EvidenceInv
<1>1. ~Waits(c, e)
  BY DEF Waits
<1>2. /\ Cardinality(Waiting(e)') <= Cardinality(Waiting(e))
      /\ Cardinality(Waiting(e)) \in Nat /\ Cardinality(Waiting(e)') \in Nat
  BY <1>1, WaitingStep, WaitingType
<1>3. Asked(e)' = Asked(e) /\ Asked(e) \in Nat
  <2>1. runs \in Seq(Run)
    BY DEF IInv
  <2> QED BY <2>1, OccurrencesAppend DEF Asked
<1>4. \A n \in Nat : n + Cardinality(Waiting(e)) <= Asked(e)
                     => n + Cardinality(Waiting(e)') <= Asked(e)'
  BY <1>2, <1>3
<1>5. \A g \in Graph : Cardinality(Occurrences(g.history, e)) \in Nat
  BY OccurrencesAppend DEF Graph
<1>6. Covered(<< >>, e)'
  <2>1. Covered(<< >>, e) /\ Cardinality(Occurrences(<< >>, e)) \in Nat
    <3>1. << >> \in Seq(Entry)
      OBVIOUS
    <3> QED BY <3>1, OccurrencesAppend DEF EvidenceInv
  <2> QED BY <1>4, <2>1 DEF Covered
<1>7. ASSUME Readable' PROVE Covered(graph.history, e)'
  <2>1. CASE graph' = graph
    <3>1. Covered(graph.history, e) /\ graph \in Graph
      BY <1>7, <2>1 DEF EvidenceInv, IInv, Readable, Sound
    <3> QED BY <1>4, <1>5, <2>1, <3>1 DEF Covered
  <2>2. CASE proc[p].pc = "fill" /\ graph' = proc[p].next
    <3>1. Covered(proc[p].next.history, e) /\ proc[p].next \in Graph
      BY <2>2 DEF EvidenceInv, IInv, CommandInv, Sound
    <3> QED BY <1>4, <1>5, <2>2, <3>1 DEF Covered
  <2> QED BY <1>7, <2>1, <2>2 DEF Readable
<1>8. ASSUME NEW q \in Procs, proc'[q].pc \in {"write", "fill"}
      PROVE  Covered(proc[q].next.history, e)'
  <2>1. \/ proc'[q].next.history = << >>
        \/ \E r \in Procs : proc[r].pc \in {"write", "fill"} /\ proc'[q].next = proc[r].next
    BY <1>8 DEF IInv, Becomes
  <2>2. CASE proc'[q].next.history = << >>
    BY <1>6, <2>2 DEF Covered
  <2>3. ASSUME NEW r \in Procs, proc[r].pc \in {"write", "fill"}, proc'[q].next = proc[r].next
        PROVE  Covered(proc[q].next.history, e)'
    <3>1. Covered(proc[r].next.history, e) /\ proc[r].next \in Graph
      BY <2>3 DEF EvidenceInv, IInv, CommandInv, Sound
    <3> QED BY <1>4, <1>5, <2>3, <3>1 DEF Covered
  <2> QED BY <2>1, <2>2, <2>3
<1> QED BY <1>6, <1>7, <1>8

(* A recorded run covers the command that begins to wait with it.          *)
LEMMA WriteEvidenceStep ==
  ASSUME IInv, EvidenceInv, NEW p \in Procs, WriteEvidence(p)
  PROVE  EvidenceInv'
<1> SUFFICES ASSUME "event" \notin practice, NEW e \in EVENTS
             PROVE  /\ Covered(<< >>, e)'
                    /\ Readable' => Covered(graph.history, e)'
                    /\ \A q \in Procs : proc'[q].pc \in {"write", "fill"} =>
                                         Covered(proc[q].next.history, e)'
  BY DEF EvidenceInv, WriteEvidence
<1>1. PICK x \in Run : x.event = proc[p].event /\ runs' = Append(runs, x)
  BY WriteEvidenceIs
<1>2. PICK c : Becomes(p, c) /\ c.pc \in {"idle", "read"} /\ c.event = proc[p].event
  BY WriteEvidenceIs
<1>3. /\ Asked(e) \in Nat
      /\ Asked(e)' = Asked(e) + (IF x.event = e THEN 1 ELSE 0)
  <2>1. runs \in Seq(Run)
    BY DEF IInv
  <2> QED BY <1>1, <2>1, OccurrencesAppend DEF Asked
<1>4. /\ Cardinality(Waiting(e)) \in Nat /\ Cardinality(Waiting(e)') \in Nat
      /\ Waits(c, e) => Cardinality(Waiting(e)') <= Cardinality(Waiting(e)) + 1
      /\ ~Waits(c, e) => Cardinality(Waiting(e)') <= Cardinality(Waiting(e))
  BY <1>2, WaitingStep, WaitingType
<1>5. \A n \in Nat : n + Cardinality(Waiting(e)) <= Asked(e)
                     => n + Cardinality(Waiting(e)') <= Asked(e)'
  <2>1. CASE Waits(c, e)
    <3>1. x.event = e
      BY <1>1, <1>2, <2>1 DEF Waits
    <3> QED BY <1>3, <1>4, <2>1, <3>1
  <2>2. CASE ~Waits(c, e)
    <3>1. Asked(e)' >= Asked(e) /\ Asked(e)' \in Nat
      BY <1>3
    <3> QED BY <1>3, <1>4, <2>2, <3>1
  <2> QED BY <2>1, <2>2
<1>6. \A g \in Graph : Cardinality(Occurrences(g.history, e)) \in Nat
  BY OccurrencesAppend DEF Graph
<1>7. Covered(<< >>, e)'
  <2>1. Covered(<< >>, e) /\ Cardinality(Occurrences(<< >>, e)) \in Nat
    <3>1. << >> \in Seq(Entry)
      OBVIOUS
    <3> QED BY <3>1, OccurrencesAppend DEF EvidenceInv
  <2> QED BY <1>5, <2>1 DEF Covered
<1>8. ASSUME Readable' PROVE Covered(graph.history, e)'
  <2>1. graph' = graph
    BY DEF WriteEvidence
  <2>2. Covered(graph.history, e) /\ graph \in Graph
    BY <1>8, <2>1 DEF EvidenceInv, IInv, Readable, Sound
  <2> QED BY <1>5, <1>6, <2>1, <2>2 DEF Covered
<1>9. ASSUME NEW q \in Procs, proc'[q].pc \in {"write", "fill"}
      PROVE  Covered(proc[q].next.history, e)'
  <2>1. proc'[q] = proc[q]
    BY <1>2, <1>9 DEF IInv, Becomes
  <2>2. Covered(proc[q].next.history, e) /\ proc[q].next \in Graph
    BY <1>9, <2>1 DEF EvidenceInv, IInv, CommandInv, Sound
  <2> QED BY <1>5, <1>6, <2>1, <2>2 DEF Covered
<1> QED BY <1>7, <1>8, <1>9

(* The command that goes on to write one more entry waits no longer.       *)
LEMMA ReadStep ==
  ASSUME IInv, EvidenceInv, NEW p \in Procs, Read(p)
  PROVE  EvidenceInv'
<1>1. UNCHANGED <<practice, graph, runs>> /\ proc[p].pc = "read"
  BY DEF Read
<1>2. CASE Becomes(p, Idle)
  BY <1>1, <1>2, QuietStep, IdleIsCommand
<1>3. ASSUME Readable, Accepts(graph, proc[p].event), proc[p].event \in EVENTS,
             NEW c, Becomes(p, c), c.pc = "write", c.event = proc[p].event,
             c.next = applyEvent(graph, proc[p].event)
      PROVE  EvidenceInv'
  <2> SUFFICES ASSUME "event" \notin practice, NEW e \in EVENTS
               PROVE  /\ Covered(<< >>, e)'
                      /\ Readable' => Covered(graph.history, e)'
                      /\ \A q \in Procs : proc'[q].pc \in {"write", "fill"} =>
                                           Covered(proc[q].next.history, e)'
    BY <1>1 DEF EvidenceInv
  <2>1. Asked(e) \in Nat /\ Asked(e)' = Asked(e)
    <3>1. runs \in Seq(Run)
      BY DEF IInv
    <3> QED BY <1>1, <3>1, OccurrencesAppend DEF Asked
  <2>2. /\ Cardinality(Waiting(e)) \in Nat /\ Cardinality(Waiting(e)') \in Nat
        /\ Cardinality(Waiting(e)') <= Cardinality(Waiting(e))
        /\ proc[p].event = e => Cardinality(Waiting(e)') = Cardinality(Waiting(e)) - 1
    BY <1>1, <1>3, WaitingStep, WaitingType DEF Waits
  <2>3. \A n \in Nat : n + Cardinality(Waiting(e)) <= Asked(e)
                       => n + Cardinality(Waiting(e)') <= Asked(e)'
    BY <2>1, <2>2
  <2>4. \A g \in Graph : Cardinality(Occurrences(g.history, e)) \in Nat
    BY OccurrencesAppend DEF Graph
  <2>5. Covered(<< >>, e)'
    <3>1. Covered(<< >>, e) /\ Cardinality(Occurrences(<< >>, e)) \in Nat
      <4>1. << >> \in Seq(Entry)
        OBVIOUS
      <4> QED BY <4>1, OccurrencesAppend DEF EvidenceInv
    <3> QED BY <2>3, <3>1 DEF Covered
  <2>6. Covered(graph.history, e) /\ graph \in Graph
    BY <1>3 DEF EvidenceInv, IInv, Sound
  <2>7. Covered(graph.history, e)'
    BY <1>1, <2>3, <2>4, <2>6 DEF Covered
  <2>8. ASSUME NEW q \in Procs, proc'[q].pc \in {"write", "fill"}
        PROVE  Covered(proc[q].next.history, e)'
    <3>1. CASE q # p
      <4>1. proc'[q] = proc[q]
        BY <1>3, <3>1 DEF IInv, Becomes
      <4>2. Covered(proc[q].next.history, e) /\ proc[q].next \in Graph
        BY <2>8, <4>1 DEF EvidenceInv, IInv, CommandInv, Sound
      <4> QED BY <2>3, <2>4, <4>1, <4>2 DEF Covered
    <3>2. CASE q = p
      <4>1. proc'[q].next = applyEvent(graph, proc[p].event)
        BY <1>3, <3>2 DEF IInv, Becomes
      <4>2. Sound(graph)
        BY <1>3 DEF IInv
      <4>3. PICK x \in Entry :
              /\ x.event = proc[p].event
              /\ proc'[q].next.history = Append(graph.history, x)
        BY <1>3, <4>1, <4>2, EventIsSound
      <4>4. /\ Cardinality(Occurrences(graph.history, e)) \in Nat
            /\ Cardinality(Occurrences(proc'[q].next.history, e)) =
                 Cardinality(Occurrences(graph.history, e)) + (IF x.event = e THEN 1 ELSE 0)
        BY <2>6, <4>3, OccurrencesAppend DEF Graph
      <4>5. CASE proc[p].event = e
        BY <2>1, <2>2, <2>6, <4>3, <4>4, <4>5 DEF Covered
      <4>6. CASE proc[p].event # e
        BY <2>1, <2>2, <2>6, <4>3, <4>4, <4>6 DEF Covered
      <4> QED BY <4>5, <4>6
    <3> QED BY <3>1, <3>2
  <2> QED BY <2>5, <2>7, <2>8
<1> QED BY <1>2, <1>3, ReadIs

(* At first nothing was asked for and nothing is recorded.                 *)
LEMMA InitEvidence == Init => EvidenceInv
<1> SUFFICES ASSUME Init, NEW e \in EVENTS PROVE Covered(<< >>, e)
  BY IdleIsCommand DEF Init, EvidenceInv, Readable
<1>1. Occurrences(<< >>, e) = {} /\ Waiting(e) = {} /\ Occurrences(runs, e) = {}
  BY IdleIsCommand DEF Init, Occurrences, Waiting, Waits
<1> QED BY <1>1, FS_EmptySet DEF Covered, Asked

(* Every step keeps it: only writing evidence lets one more event be       *)
(* asked for.                                                              *)
LEMMA NextEvidence == IInv /\ EvidenceInv /\ [Next]_vars => EvidenceInv'
<1> SUFFICES ASSUME IInv, EvidenceInv, [Next]_vars PROVE EvidenceInv'
  OBVIOUS
<1>1. CASE UNCHANGED <<practice, graph, runs, proc>>
  BY <1>1 DEF EvidenceInv, Covered, Asked, Waiting, Readable
<1>2. ASSUME NEW p \in Procs, Step(p) PROVE EvidenceInv'
  <2>1. CASE InitGraph(p)
    BY <2>1, InitGraphIs, QuietStep DEF InitGraph
  <2>2. ASSUME NEW task \in Tasks, StartRun(p, task) PROVE EvidenceInv'
    BY <2>2, StartRunIs, QuietStep DEF StartRun
  <2>3. ASSUME NEW result \in Results, Answered(p, result), proc[p].pc = "adapter",
               UNCHANGED <<practice, graph, runs>>
        PROVE  EvidenceInv'
    BY <2>3, AnsweredIs, QuietStep
  <2>4. CASE DryRun(p)
    BY <2>3, <2>4 DEF DryRun, Results
  <2>5. CASE Scripted(p)
    BY <2>3, <2>5 DEF Scripted, Results
  <2>6. CASE CodexReview(p)
    <3>1. \A r \in ProcessResults : runCodexReviewer(r) \in Results
      BY DEF runCodexReviewer, parseCodexReviewVerdict, Results
    <3> QED BY <2>3, <2>6, <3>1 DEF CodexReview
  <2>7. CASE \E e \in EVENTS : TypeEvent(p, e)
    BY <2>7 DEF TypeEvent, EvidenceInv
  <2>8. CASE Truncate(p)
    <3>1. \E c : /\ Becomes(p, c) /\ c.pc = "fill" /\ c.next = proc[p].next
      BY <2>8, GotoIs DEF Truncate, IInv, CommandInv
    <3> QED BY <2>8, <3>1, QuietStep DEF Truncate
  <2>9. CASE Fill(p)
    BY <2>9, ExitIs, IdleIsCommand, QuietStep DEF Fill
  <2>10. CASE Crash(p)
    BY <2>10, ExitIs, IdleIsCommand, QuietStep DEF Crash
  <2> QED BY <1>2, <2>1, <2>2, <2>4, <2>5, <2>6, <2>7, <2>8, <2>9, <2>10,
             WriteEvidenceStep, ReadStep DEF Step
<1> QED BY <1>1, <1>2 DEF Next, InitRuntime, EditRuntime, ConfigureCodexReviewer, vars

(* Where events come from runs, the evidence of each event covers its      *)
(* transitions and the commands that are about to make one.                *)
THEOREM EvidenceInvariance == Spec => []EvidenceInv
BY InitEvidence, NextEvidence, Invariance, InitIInv, NextIInv, PTL DEF Spec

(* Where events come from runs only, the history never shows an event more *)
(* often than runs asked for it, for any overlap and any crash.            *)
THEOREM TransitionsHaveEvidence == Spec => []EveryTransitionHasEvidence
<1>1. IInv /\ EvidenceInv => EveryTransitionHasEvidence
  <2> SUFFICES ASSUME IInv, EvidenceInv, "event" \notin practice, Readable, NEW e \in EVENTS
               PROVE  Cardinality(Occurrences(graph.history, e)) <= Cardinality(Occurrences(runs, e))
    BY DEF EveryTransitionHasEvidence, Occurrences
  <2>1. Covered(graph.history, e) /\ graph.history \in Seq(Entry) /\ runs \in Seq(Run)
    BY DEF EvidenceInv, IInv, Sound, Graph
  <2>2. /\ Cardinality(Occurrences(graph.history, e)) \in Nat
        /\ Cardinality(Occurrences(runs, e)) \in Nat
    BY <2>1, OccurrencesAppend
  <2> QED BY <2>1, <2>2, WaitingType DEF Covered, Asked
<1> QED BY <1>1, Invariance, EvidenceInvariance, PTL

-----------------------------------------------------------------------------
(* The third invariant, for teams where only Codex can review: whoever     *)
(* knows of a reviewer's pass has the review on disk.                      *)

ReviewPass == <<"reviewer", "pass">>
OnlyCodexReviews == "event" \notin practice /\ Edited["reviewer"] = "dry-run"
Holds(g) == \E i \in DOMAIN g.history : g.history[i].event = ReviewPass
KnowsOfPass(c) == c.event = ReviewPass \/ (c.pc \in {"write", "fill"} /\ Holds(c.next))

ArtifactInv ==
  OnlyCodexReviews =>
    /\ runtime # Missing => runtime.adapters["reviewer"] = "dry-run"
    /\ \A p \in Procs :
         /\ proc[p].pc = "adapter" /\ proc[p].task = "reviewer" => proc[p].adapter # "scripted"
         /\ KnowsOfPass(proc[p]) => review # None
    /\ Readable /\ Holds(graph) => review # None

(* A step of one command keeps it, if what the command then knows was      *)
(* known before, or the review is there.                                   *)
LEMMA ReviewStep ==
  ASSUME IInv, ArtifactInv, NEW p \in Procs, NEW c, Becomes(p, c),
         UNCHANGED <<practice, runtime>>, review # None => review' # None,
         OnlyCodexReviews =>
           /\ c.pc = "adapter" /\ c.task = "reviewer" => c.adapter # "scripted"
           /\ KnowsOfPass(c) =>
                \/ KnowsOfPass(proc[p])
                \/ Readable /\ Holds(graph)
                \/ review' # None,
         \/ graph' \in {graph, Torn}
         \/ proc[p].pc = "fill" /\ graph' = proc[p].next
  PROVE  ArtifactInv'
<1> SUFFICES ASSUME OnlyCodexReviews
             PROVE  /\ runtime' # Missing => runtime'.adapters["reviewer"] = "dry-run"
                    /\ \A q \in Procs :
                         /\ proc'[q].pc = "adapter" /\ proc'[q].task = "reviewer"
                              => proc'[q].adapter # "scripted"
                         /\ KnowsOfPass(proc'[q]) => review' # None
                    /\ Readable' /\ Holds(graph') => review' # None
  BY DEF ArtifactInv, OnlyCodexReviews
<1>1. proc'[p] = c /\ \A q \in Procs \ {p} : proc'[q] = proc[q]
  BY DEF IInv, Becomes
<1>2. KnowsOfPass(c) => review' # None
  BY DEF ArtifactInv
<1>3. ASSUME Readable', Holds(graph') PROVE review' # None
  <2>1. CASE graph' = graph
    BY <1>3, <2>1 DEF ArtifactInv, Readable
  <2>2. CASE proc[p].pc = "fill" /\ graph' = proc[p].next
    BY <1>3, <2>2 DEF ArtifactInv, KnowsOfPass
  <2> QED BY <1>3, <2>1, <2>2 DEF Readable
<1> QED BY <1>1, <1>2, <1>3 DEF ArtifactInv

(* Only the answer "PASS" moves the graph on.                              *)
LEMMA EventOfPass ==
  ASSUME NEW task \in Tasks, NEW result \in Results, TaskEvent(task, result) = ReviewPass
  PROVE  task = "reviewer" /\ result = "PASS"
<1>1. None # ReviewPass
  BY AgentTasksAssumption DEF ReviewPass, EVENTS, Tasks
<1> QED BY <1>1 DEF TaskEvent, ReviewPass

(* A pass that an event adds is the event itself.                          *)
LEMMA AppliedPass ==
  ASSUME NEW g, Sound(g), NEW e \in EVENTS, Accepts(g, e), Holds(applyEvent(g, e))
  PROVE  e = ReviewPass \/ Holds(g)
<1> DEFINE h == applyEvent(g, e)
<1>1. PICK x \in Entry : x.event = e /\ h.history = Append(g.history, x)
  BY EventIsSound
<1>2. g.history \in Seq(Entry)
  BY DEF Sound, Graph
<1>3. /\ DOMAIN g.history = 1..Len(g.history) /\ Len(g.history) \in Nat
      /\ DOMAIN h.history = 1..(Len(g.history) + 1)
      /\ \A i \in 1..Len(g.history) : h.history[i] = g.history[i]
      /\ h.history[Len(g.history) + 1] = x
  BY <1>1, <1>2, AppendProperties, LenProperties
<1>4. PICK i \in DOMAIN h.history : h.history[i].event = ReviewPass
  BY DEF Holds
<1> HIDE DEF h
<1> QED BY <1>1, <1>3, <1>4 DEF Holds

(* At first nobody knows of a review that passed.                          *)
LEMMA InitArtifact == Init => ArtifactInv
<1>1. Idle.event # ReviewPass
  BY AgentTasksAssumption DEF Idle, ReviewPass, EVENTS, Tasks
<1> QED BY <1>1, IdleIsCommand DEF Init, ArtifactInv, KnowsOfPass, Readable

(* Every step keeps it: only a Codex review that wrote its artifact makes  *)
(* a pass known.                                                           *)
LEMMA NextArtifact == IInv /\ ArtifactInv /\ [Next]_vars => ArtifactInv'
<1> SUFFICES ASSUME IInv, ArtifactInv, [Next]_vars PROVE ArtifactInv'
  OBVIOUS
<1>0. None # ReviewPass
  BY AgentTasksAssumption DEF ReviewPass, EVENTS, Tasks
<1>1. CASE UNCHANGED vars
  BY <1>1 DEF vars, ArtifactInv, OnlyCodexReviews, Readable
<1>2. CASE InitRuntime
  <2>1. runtime' # Missing => runtime'.adapters["reviewer"] = "dry-run"
    BY <1>2 DEF InitRuntime, Tasks
  <2> QED BY <1>2, <2>1 DEF InitRuntime, ArtifactInv, OnlyCodexReviews, Readable
<1>3. CASE EditRuntime
  <2>1. Edited["reviewer"] = "dry-run" => runtime'.adapters["reviewer"] = "dry-run"
    BY <1>3 DEF EditRuntime, IInv, Runtime
  <2> QED BY <1>3, <2>1 DEF EditRuntime, ArtifactInv, OnlyCodexReviews, Readable
<1>4. CASE ConfigureCodexReviewer
  <2>1. runtime'.adapters = runtime.adapters /\ runtime # Missing
    BY <1>4 DEF ConfigureCodexReviewer, IInv, Runtime
  <2> QED BY <1>4, <2>1 DEF ConfigureCodexReviewer, ArtifactInv, OnlyCodexReviews, Readable
<1>5. ASSUME NEW p \in Procs, Step(p) PROVE ArtifactInv'
  <2>0. /\ Idle.pc = "idle" /\ ~KnowsOfPass(Idle)
    BY <1>0, IdleIsCommand DEF KnowsOfPass
  <2>1. CASE InitGraph(p)
    <3>1. PICK c : /\ Becomes(p, c) /\ c.pc = "write" /\ c.event = None
                   /\ c.next.history = << >>
      BY <2>1, InitGraphIs
    <3>2. ~KnowsOfPass(c)
      BY <1>0, <3>1 DEF KnowsOfPass, Holds
    <3> QED BY <2>1, <3>1, <3>2, ReviewStep DEF InitGraph
  <2>2. ASSUME NEW task \in Tasks, StartRun(p, task) PROVE ArtifactInv'
    <3>1. PICK c : /\ Becomes(p, c) /\ c.pc = "adapter" /\ c.event = None
                   /\ c.task = task /\ c.adapter = Adapter(task)
      BY <2>2, StartRunIs
    <3>2. OnlyCodexReviews /\ task = "reviewer" => Adapter(task) # "scripted"
      BY <2>2 DEF StartRun, MayRun, Adapter, ArtifactInv
    <3>3. ~KnowsOfPass(c)
      BY <1>0, <3>1 DEF KnowsOfPass
    <3> QED BY <2>2, <3>1, <3>2, <3>3, ReviewStep DEF StartRun
  <2>3. ASSUME NEW result \in Results, Answered(p, result), proc[p].pc = "adapter",
               OnlyCodexReviews /\ proc[p].task = "reviewer" /\ result = "PASS" => review' # None,
               review # None => review' # None,
               UNCHANGED <<practice, graph, runtime>>
        PROVE  ArtifactInv'
    <3>1. PICK c : /\ Becomes(p, c) /\ c.pc = "evidence"
                   /\ c.event = TaskEvent(proc[p].task, result)
      BY <2>3, AnsweredIs
    <3>2. OnlyCodexReviews /\ KnowsOfPass(c) => review' # None
      BY <2>3, <3>1, EventOfPass DEF KnowsOfPass, IInv, CommandInv
    <3> QED BY <2>3, <3>1, <3>2, ReviewStep
  <2>4. CASE DryRun(p)
    BY <2>3, <2>4 DEF DryRun, Results
  <2>5. CASE Scripted(p)
    BY <2>3, <2>5 DEF Scripted, Results, ArtifactInv
  <2>6. CASE CodexReview(p)
    <3>1. PICK r \in ProcessResults :
            /\ Answered(p, runCodexReviewer(r))
            /\ review' = IF r.exit = "ok" /\ parseCodexReviewVerdict(r.output) # None
                         THEN r.output ELSE review
      BY <2>6 DEF CodexReview
    <3>2. runCodexReviewer(r) \in Results
      BY DEF runCodexReviewer, parseCodexReviewVerdict, Results
    <3>3. runCodexReviewer(r) = "PASS" => review' # None
      BY <3>1 DEF runCodexReviewer, parseCodexReviewVerdict, ProcessResults
    <3>4. review # None => review' # None
      BY <3>1 DEF parseCodexReviewVerdict
    <3> QED BY <2>3, <2>6, <3>1, <3>2, <3>3, <3>4 DEF CodexReview
  <2>7. CASE WriteEvidence(p)
    <3>1. PICK c : Becomes(p, c) /\ c.pc \in {"idle", "read"} /\ c.event = proc[p].event
      BY <2>7, WriteEvidenceIs
    <3> QED BY <2>7, <3>1, ReviewStep DEF WriteEvidence, KnowsOfPass
  <2>8. CASE \E e \in EVENTS : TypeEvent(p, e)
    BY <2>8 DEF TypeEvent, ArtifactInv, OnlyCodexReviews
  <2>9. CASE Read(p)
    <3>1. CASE Becomes(p, Idle)
      BY <2>0, <2>9, <3>1, ReviewStep DEF Read
    <3>2. ASSUME Readable, Accepts(graph, proc[p].event), proc[p].event \in EVENTS,
                 NEW c, Becomes(p, c), c.pc = "write", c.event = proc[p].event,
                 c.next = applyEvent(graph, proc[p].event)
          PROVE  ArtifactInv'
      <4>1. KnowsOfPass(c) => KnowsOfPass(proc[p]) \/ Holds(graph)
        BY <3>2, AppliedPass DEF KnowsOfPass, IInv
      <4> QED BY <2>9, <3>2, <4>1, ReviewStep DEF Read
    <3> QED BY <2>9, <3>1, <3>2, ReadIs
  <2>10. CASE Truncate(p)
    <3>1. PICK c : /\ Becomes(p, c) /\ c.pc = "fill"
                   /\ c.event = proc[p].event /\ c.next = proc[p].next
      BY <2>10, GotoIs DEF Truncate, IInv, CommandInv
    <3> QED BY <2>10, <3>1, ReviewStep DEF Truncate, KnowsOfPass
  <2>11. CASE Fill(p)
    BY <2>0, <2>11, ExitIs, ReviewStep DEF Fill
  <2>12. CASE Crash(p)
    BY <2>0, <2>12, ExitIs, ReviewStep DEF Crash
  <2> QED BY <1>5, <2>1, <2>2, <2>4, <2>5, <2>6, <2>7, <2>8, <2>9, <2>10, <2>11, <2>12 DEF Step
<1> QED BY <1>1, <1>2, <1>3, <1>4, <1>5 DEF Next

(* Where only Codex reviews, whoever knows of a pass, a graph or a         *)
(* command, was preceded by the review on disk.                            *)
THEOREM ArtifactInvariance == Spec => []ArtifactInv
BY InitArtifact, NextArtifact, InitIInv, NextIInv, PTL DEF Spec

(* Where only Codex can review, a reviewer's pass in the history has its   *)
(* review on disk, for any provider results, overlaps and crashes.         *)
THEOREM PassesHaveArtifacts == Spec => []PassHasArtifact
<1>1. ArtifactInv => PassHasArtifact
  BY DEF ArtifactInv, PassHasArtifact, OnlyCodexReviews, Holds, ReviewPass
<1> QED BY <1>1, ArtifactInvariance, PTL
=============================================================================
