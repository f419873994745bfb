-------------------------- MODULE LambdaInvocation --------------------------
(***************************************************************************)
(* The Lambda wrapper around one model call (lambda/loop017b/handler.js),  *)
(* the response files its callers keep, and the local processing of such a *)
(* file (scripts/process-lambda-nova-response.js,                          *)
(* lib/lambda-nova-live-demo.js, lib/collectors/lambda-nova-collector.js). *)
(*                                                                         *)
(* The handler runs up to its request to Bedrock without a break, and from *)
(* the answer to its return or throw.  Until Lambda has delivered what the *)
(* handler ended with, it may end the invocation for its time instead, the *)
(* log's lines written; while the request is out it may fail although      *)
(* Bedrock executes it, then or later, other invocations run, of the same  *)
(* run id too, and another build may be deployed.  Writing a line to the   *)
(* log may fail.                                                           *)
(***************************************************************************)
EXTENDS Naturals, FiniteSets

CONSTANTS
  Invocations,  \* the Lambda request ids
  Runs,         \* the run ids callers pass
  EvidenceIds,
  EvidenceIdOf, \* the six digits a run id is hashed to
  Builds,       \* builds of the handler, by their fixed input
  LocalBuild,   \* the build the collector was made with
  MaxCalls      \* bound on the calls that Bedrock executes

ASSUME BuildAssumption == LocalBuild \in Builds
ASSUME HashAssumption  == EvidenceIdOf \in [Runs -> EvidenceIds]
ASSUME CallsAssumption == MaxCalls \in Nat

VARIABLES
  deployed,  \* the build that new invocations run
  pc,        \* pc[i]: where invocation i stands
  asked,     \* asked[i]: the run id and the build of invocation i
  outcome,   \* outcome[i]: what the handler returned or threw, or Lambda put in its place
  log,       \* the log's lines: [status, run, request]
  inFlight,  \* the invocations whose request Bedrock may still execute
  calls,     \* the calls Bedrock executed: [request, bedrockRequest]
  files,     \* the contents of the response files callers kept
  summaries  \* the summaries of processed files

vars == <<deployed, pc, asked, outcome, log, inFlight, calls, files, summaries>>

Refusals    == {"INVALID_FIXED_INVOCATION", "LAMBDA_REQUEST_ID_INVALID", "CODE_DIGEST_INVALID"}
UnfitAnswer == {"EXPECTED_ONE_TOOL_USE", "UNEXPECTED_TOOL_USE", "BEDROCK_RECEIPT_INVALID"}
NotCalled   == Refusals \cup {"PRECALL_CORRELATION_LOG_FAILED"}
Called      == UnfitAnswer \cup {"BEDROCK_RESULT_INDETERMINATE", "Task timed out"}

(* The event is a function of the ids and the build.                       *)
createAuditEvent(run, request, build) ==
  [evidenceId |-> EvidenceIdOf[run], session |-> run, task |-> request, input |-> build]

Asks    == [run : Runs, build : Builds]
Events  == [evidenceId : EvidenceIds, session : Runs, task : Invocations, input : Builds]
Results == [kind : {"result"}, run : Runs, request : Invocations,
            bedrockRequest : 1 .. MaxCalls, input : Builds, auditEvent : Events]
Errors  == [kind : {"error"}, code : NotCalled \cup Called]
None    == [kind |-> "none"]
Torn    == [kind |-> "torn"]

TypeOK ==
  /\ deployed \in Builds
  /\ pc \in [Invocations -> {"unused", "calling", "ending", "ended"}]
  /\ asked \in [Invocations -> {None} \cup Asks]
  /\ outcome \in [Invocations -> {None} \cup Errors \cup Results]
  /\ \A i \in Invocations : pc[i] \in {"ending", "ended"} <=> outcome[i] # None
  /\ log \in SUBSET [status : {"ATTEMPTING", "INDETERMINATE", "SUCCESS"},
                     run : Runs, request : Invocations]
  /\ inFlight \subseteq Invocations
  /\ calls \in SUBSET [request : Invocations, bedrockRequest : 1 .. MaxCalls]
  /\ files \in SUBSET ({Torn} \cup Errors \cup Results)
  /\ summaries \in SUBSET [expected : Runs, receipt : Results]

Init ==
  /\ deployed \in Builds
  /\ pc = [i \in Invocations |-> "unused"]
  /\ asked = [i \in Invocations |-> None]
  /\ outcome = [i \in Invocations |-> None]
  /\ log = {} /\ inFlight = {} /\ calls = {} /\ files = {} /\ summaries = {}

-----------------------------------------------------------------------------
(* logStatus succeeds; each use says what a failure means.                 *)
logStatus(i, status) ==
  log' = log \cup {[status |-> status, run |-> asked'[i].run, request |-> i]}

(* The handler returns or throws: Lambda has yet to deliver it.            *)
End(i, what) ==
  /\ pc' = [pc EXCEPT ![i] = "ending"]
  /\ outcome' = [outcome EXCEPT ![i] = what]

(* A plausible bug in place of Throw: an error without its code.           *)
ThrowPlain(i, code) == End(i, [kind |-> "error", code |-> "Error"])

Throw(i, code) == End(i, [kind |-> "error", code |-> code])

Send(i) ==
  /\ pc' = [pc EXCEPT ![i] = "calling"]
  /\ inFlight' = inFlight \cup {i}
  /\ UNCHANGED outcome

(* Further plausible bugs, each in place of the definition named in the    *)
(* comment, to see that the properties notice them.                        *)

(* Attempt: a lost ATTEMPTING line is ignored as the later ones are.       *)
AttemptUnlogged(i) ==
  /\ logStatus(i, "ATTEMPTING") \/ UNCHANGED log
  /\ Send(i)

(* SendFails: the SDK repeats the request.                                 *)
SendFailsRepeated(i) ==
  /\ pc[i] = "calling"
  /\ Send(i)
  /\ UNCHANGED <<deployed, asked, log, calls, files, summaries>>

(* Succeed: a lost SUCCESS line is treated as a lost ATTEMPTING line.      *)
SucceedLogged(i, result) ==
  \/ logStatus(i, "SUCCESS") /\ End(i, result)
  \/ Throw(i, "PRECALL_CORRELATION_LOG_FAILED") /\ UNCHANGED log

(* collect: the run id is compared with the event's own envelope only.     *)
collectAnyRun(file, expected) ==
  /\ file.kind = "result"
  /\ file.input = LocalBuild
  /\ file.auditEvent = createAuditEvent(file.run, file.request, LocalBuild)

-----------------------------------------------------------------------------
Refuse(i) ==
  /\ \E code \in Refusals : Throw(i, code)
  /\ UNCHANGED <<log, inFlight>>

Attempt(i) ==
  \/ logStatus(i, "ATTEMPTING") /\ Send(i)
  \/ Throw(i, "PRECALL_CORRELATION_LOG_FAILED") /\ UNCHANGED <<log, inFlight>>

(* The handler up to its await.                                            *)
Invoke(i, run) ==
  /\ pc[i] = "unused"
  /\ asked' = [asked EXCEPT ![i] = [run |-> run, build |-> deployed]]
  /\ Refuse(i) \/ Attempt(i)
  /\ UNCHANGED <<deployed, calls, files, summaries>>

BedrockExecutes(i) ==
  /\ i \in inFlight /\ Cardinality(calls) < MaxCalls
  /\ inFlight' = inFlight \ {i}
  /\ calls' = calls \cup {[request |-> i, bedrockRequest |-> Cardinality(calls) + 1]}
  /\ UNCHANGED <<deployed, pc, asked, outcome, log, files, summaries>>

Succeed(i, result) ==
  /\ logStatus(i, "SUCCESS") \/ UNCHANGED log
  /\ End(i, result)

ResultOf(i, call) ==
  [kind |-> "result", run |-> asked[i].run, request |-> i,
   bedrockRequest |-> call.bedrockRequest, input |-> asked[i].build,
   auditEvent |-> createAuditEvent(asked[i].run, i, asked[i].build)]

(* The answer arrives; it may not be the one tool use with its receipt.    *)
Answered(i) ==
  /\ pc[i] = "calling"
  /\ UNCHANGED <<deployed, asked, inFlight, calls, files, summaries>>
  /\ \E call \in calls :
       /\ call.request = i
       /\ \/ Succeed(i, ResultOf(i, call))
          \/ (\E code \in UnfitAnswer : Throw(i, code)) /\ UNCHANGED log

(* send() rejects, whatever became of the request.                         *)
SendFails(i) ==
  /\ pc[i] = "calling"
  /\ Throw(i, "BEDROCK_RESULT_INDETERMINATE")
  /\ UNCHANGED <<deployed, asked, inFlight, calls, files, summaries>>
  /\ logStatus(i, "INDETERMINATE") \/ UNCHANGED log

(* Lambda delivers what the handler ended with.                            *)
Deliver(i) ==
  /\ pc[i] = "ending"
  /\ pc' = [pc EXCEPT ![i] = "ended"]
  /\ UNCHANGED <<deployed, asked, outcome, log, inFlight, calls, files, summaries>>

(* Lambda ends an invocation whose time is over before that, be it only    *)
(* between the handler's last line and the delivery of its result.         *)
TimeOut(i) ==
  /\ pc[i] \in {"calling", "ending"}
  /\ pc' = [pc EXCEPT ![i] = "ended"]
  /\ outcome' = [outcome EXCEPT ![i] = [kind |-> "error", code |-> "Task timed out"]]
  /\ UNCHANGED <<deployed, asked, log, inFlight, calls, files, summaries>>

-----------------------------------------------------------------------------
(* The caller keeps the answer in a file, unless it is lost on its way.    *)
Keep(i) ==
  /\ pc[i] = "ended"
  /\ \E file \in {outcome[i], Torn} : files' = files \cup {file}
  /\ UNCHANGED <<deployed, pc, asked, outcome, log, inFlight, calls, summaries>>

(* LambdaNovaCollector.collect.                                            *)
collect(file, expected) ==
  /\ file.kind = "result"
  /\ file.run = expected
  /\ file.input = LocalBuild
  /\ file.auditEvent = createAuditEvent(file.run, file.request, LocalBuild)

(* A file is processed under some run id, with a store of its own.         *)
Process(file, expected) ==
  /\ collect(file, expected)
  /\ summaries' = summaries \cup {[expected |-> expected, receipt |-> file]}
  /\ UNCHANGED <<deployed, pc, asked, outcome, log, inFlight, calls, files>>

Deploy(build) ==
  /\ deployed' = build
  /\ UNCHANGED <<pc, asked, outcome, log, inFlight, calls, files, summaries>>

Next ==
  \/ \E i \in Invocations :
       \/ \E run \in Runs : Invoke(i, run)
       \/ BedrockExecutes(i) \/ Answered(i) \/ SendFails(i)
       \/ Deliver(i) \/ TimeOut(i) \/ Keep(i)
  \/ \E file \in files, expected \in Runs : Process(file, expected)
  \/ \E build \in Builds : Deploy(build)

Spec == Init /\ [][Next]_vars

-----------------------------------------------------------------------------
(* Properties.                                                             *)

Attempted(i) == \E line \in log :
  line.status = "ATTEMPTING" /\ line.request = i /\ line.run = asked[i].run

(* "An unlogged attempt cannot be reconciled safely after a Lambda         *)
(* timeout" (handler.js): a request that Bedrock executed, or may still    *)
(* execute after its invocation ended, has its line in the log with both   *)
(* ids; and an invocation's request is never executed twice.               *)
EveryCallIsReconcilable ==
  /\ \A i \in inFlight \cup {c.request : c \in calls} : Attempted(i)
  /\ \A c, d \in calls : c.request = d.request => c = d
  /\ \A c \in calls : c.request \notin inFlight

(* "Logging must not turn a successful inference into an ambiguous retry   *)
(* candidate" (handler.js): what an invocation ends with says whether it   *)
(* may be repeated.  After an error that stands before the call nothing is *)
(* or will be executed; a result and an error about the answer stand for   *)
(* an executed call, lost log lines or not.  A SUCCESS line stands for an  *)
(* executed call too, but only for a result if Lambda did not end the      *)
(* invocation before it delivered it; and nobody gets a result of an       *)
(* invocation that has an INDETERMINATE line.                              *)
OutcomeTellsOfTheCall ==
  \A i \in Invocations :
    LET executed  == \E c \in calls : c.request = i
        succeeded == outcome[i].kind = "result"
        timedOut  == outcome[i] = [kind |-> "error", code |-> "Task timed out"]
    IN  /\ outcome[i].kind = "error" =>
             /\ outcome[i].code \in NotCalled => ~executed /\ i \notin inFlight
             /\ outcome[i].code \in UnfitAnswer => executed
        /\ succeeded => executed
        /\ \A line \in log : line.request = i =>
             /\ line.status = "SUCCESS" => executed /\ (succeeded \/ timedOut)
             /\ line.status = "INDETERMINATE" => ~succeeded

(* A summary stands for one invocation that was made for the expected run, *)
(* logged, executed by Bedrock under the receipt's id and answered, by a   *)
(* handler of the build the collector knows, however files, run ids,       *)
(* repeated runs and deployments were mixed up.                            *)
SummaryIsOfOneCall ==
  \A s \in summaries :
    LET i == s.receipt.request
    IN  /\ asked[i] = [run |-> s.expected, build |-> LocalBuild]
        /\ Attempted(i)
        /\ outcome[i] = s.receipt
        /\ [request |-> i, bedrockRequest |-> s.receipt.bedrockRequest] \in calls
=============================================================================
