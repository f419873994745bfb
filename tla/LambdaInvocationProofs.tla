----------------------- MODULE LambdaInvocationProofs -----------------------
(***************************************************************************)
(* Proofs about LambdaInvocation, for any number of invocations, run ids,  *)
(* builds and calls, and any hash of run ids to evidence ids.              *)
(***************************************************************************)
EXTENDS LambdaInvocation, FiniteSetTheorems, TLAPS

-----------------------------------------------------------------------------
(* The inductive invariant: what is known of an invocation from where it   *)
(* stands, of a call, of a file and of a summary.                          *)

Executed(i) == \E c \in calls : c.request = i

(* An invocation leaves traces only once it was called, and its first log  *)
(* line stands before all others; its last line is written when the        *)
(* handler ends.                                                           *)
TraceInv(i) ==
  /\ pc[i] = "unused" => ~Executed(i) /\ i \notin inFlight
  /\ pc[i] # "unused" => asked[i] \in Asks
  /\ Executed(i) => i \notin inFlight
  /\ Executed(i) \/ i \in inFlight => Attempted(i)
  /\ \A line \in log : line.request = i /\ line.status # "ATTEMPTING" =>
       pc[i] \in {"ending", "ended"}

TimedOut == [kind |-> "error", code |-> "Task timed out"]

(* What it ended with, and what its last line says, tell of its call.      *)
OutcomeInv(i) ==
  /\ outcome[i].kind = "result" =>
       \E call \in calls : call.request = i /\ outcome[i] = ResultOf(i, call)
  /\ outcome[i].kind = "error" =>
       /\ outcome[i].code \in NotCalled => ~Executed(i) /\ i \notin inFlight
       /\ outcome[i].code \in UnfitAnswer => Executed(i)
  /\ \A line \in log : line.request = i =>
       /\ line.status = "SUCCESS" =>
            Executed(i) /\ (outcome[i].kind = "result" \/ outcome[i] = TimedOut)
       /\ line.status = "INDETERMINATE" => outcome[i].kind # "result"

CallInv ==
  /\ IsFiniteSet(calls)
  /\ \A c, d \in calls : c.request = d.request => c = d

(* A file that holds a result holds the one that the invocation it names   *)
(* delivered; a summary is of such a file.                                 *)
FileInv ==
  /\ \A file \in files : file.kind = "result" =>
       outcome[file.request] = file /\ pc[file.request] = "ended"
  /\ \A s \in summaries : s.receipt \in files

IInv ==
  /\ TypeOK
  /\ \A i \in Invocations : TraceInv(i) /\ OutcomeInv(i)
  /\ CallInv
  /\ FileInv
  /\ SummaryIsOfOneCall

-----------------------------------------------------------------------------
(* Lemmas about the records and the codes.                                 *)

(* A record of an outcome is told by its kind.                             *)
LEMMA Kinds ==
  /\ None.kind = "none" /\ Torn.kind = "torn"
  /\ \A e \in Errors : e.kind = "error"
  /\ \A r \in Results : r.kind = "result" /\ r.request \in Invocations
BY DEF None, Torn, Errors, Results

(* The codes of errors before the call, about the answer, and of a call    *)
(* whose fate is unknown are disjoint.                                     *)
LEMMA Codes ==
  /\ NotCalled \cap UnfitAnswer = {}
  /\ "BEDROCK_RESULT_INDETERMINATE" \in Called \ (NotCalled \cup UnfitAnswer)
  /\ "Task timed out" \in Called \ (NotCalled \cup UnfitAnswer)
  /\ UnfitAnswer \subseteq Called
BY DEF NotCalled, Refusals, UnfitAnswer, Called

(* A file that holds a result names an invocation that ended with it.      *)
LEMMA ResultFile ==
  ASSUME IInv, NEW file \in files, file.kind = "result"
  PROVE  /\ file \in Results /\ file.request \in Invocations
         /\ outcome[file.request] = file /\ pc[file.request] = "ended"
<1>1. file \in Results
  BY Kinds DEF IInv, TypeOK
<1> QED BY <1>1, Kinds DEF IInv, FileInv

(* A summary's receipt names an invocation that ended with it.             *)
LEMMA SummaryReceipt ==
  ASSUME IInv, NEW s \in summaries
  PROVE  /\ s.receipt \in Results /\ s.receipt.request \in Invocations
         /\ outcome[s.receipt.request] = s.receipt /\ pc[s.receipt.request] = "ended"
<1>1. s.receipt \in Results
  BY DEF IInv, TypeOK
<1> QED BY <1>1, Kinds, ResultFile DEF IInv, FileInv

-----------------------------------------------------------------------------
(* The steps of the handler and of Lambda around it: they change what is   *)
(* known of invocation i, which has not ended, and may add a line of its   *)
(* own to the log.                                                         *)

Local(i) ==
  /\ pc[i] # "ended"
  /\ \A j \in Invocations \ {i} :
       pc'[j] = pc[j] /\ asked'[j] = asked[j] /\ outcome'[j] = outcome[j]
  /\ log \subseteq log' /\ \A line \in log' \ log : line.request = i
  /\ inFlight' \ {i} = inFlight \ {i}
  /\ UNCHANGED <<calls, files, summaries>>

(* Such a step keeps the invariant if it keeps that of the invocation.     *)
LEMMA LocalStep ==
  ASSUME IInv, NEW i \in Invocations, Local(i),
         TypeOK', TraceInv(i)', OutcomeInv(i)'
  PROVE  IInv'
<1> USE DEF Local
<1>1. ASSUME NEW j \in Invocations, j # i
      PROVE  TraceInv(j)' /\ OutcomeInv(j)'
  <2>1. TraceInv(j) /\ OutcomeInv(j) /\ (j \in inFlight' <=> j \in inFlight)
    BY <1>1 DEF IInv
  <2>2. \A line \in log' : line.request = j => line \in log
    BY <1>1
  <2>3. Attempted(j) => Attempted(j)'
    BY <1>1 DEF Attempted
  <2>4. TraceInv(j)'
    BY <1>1, <2>1, <2>2, <2>3 DEF TraceInv, Executed
  <2>5. \A call \in calls : ResultOf(j, call)' = ResultOf(j, call)
    BY <1>1 DEF ResultOf
  <2>6. OutcomeInv(j)'
    BY <1>1, <2>1, <2>2, <2>5 DEF OutcomeInv, Executed
  <2> QED BY <2>4, <2>6
<1>2. CallInv' /\ FileInv'
  BY ResultFile DEF IInv, CallInv, FileInv
<1>3. SummaryIsOfOneCall'
  <2> SUFFICES ASSUME NEW s \in summaries
               PROVE  LET k == s.receipt.request
                      IN  /\ asked'[k] = [run |-> s.expected, build |-> LocalBuild]
                          /\ Attempted(k)'
                          /\ outcome'[k] = s.receipt
                          /\ [request |-> k, bedrockRequest |-> s.receipt.bedrockRequest]
                               \in calls
    BY DEF SummaryIsOfOneCall
  <2> DEFINE k == s.receipt.request
  <2>1. k \in Invocations \ {i}
    BY SummaryReceipt
  <2> QED BY <2>1 DEF IInv, SummaryIsOfOneCall, Attempted
<1> QED BY <1>1, <1>2, <1>3 DEF IInv

(* An error that tells no more than what is known of the call.             *)
LEMMA ErrorOutcome ==
  ASSUME IInv, NEW i \in Invocations, NEW code, UNCHANGED calls,
         outcome' = [outcome EXCEPT ![i] = [kind |-> "error", code |-> code]],
         code \in NotCalled => ~Executed(i) /\ i \notin inFlight',
         code \in UnfitAnswer => Executed(i),
         \A line \in log' : line.request = i /\ line.status = "SUCCESS" =>
           Executed(i) /\ code = "Task timed out"
  PROVE  OutcomeInv(i)'
<1>1. /\ outcome'[i] = [kind |-> "error", code |-> code]
      /\ outcome'[i].kind = "error" /\ outcome'[i].code = code
  BY DEF IInv, TypeOK
<1> QED BY <1>1 DEF OutcomeInv, Executed, TimedOut

(* An invocation that is refused or loses its first log line ends without  *)
(* a trace; otherwise the line stands before the request is sent.          *)
LEMMA InvokeStep ==
  ASSUME IInv, NEW i \in Invocations, NEW run \in Runs, Invoke(i, run)
  PROVE  IInv'
<1> DEFINE ask == [run |-> run, build |-> deployed]
<1>1. /\ pc[i] = "unused" /\ asked' = [asked EXCEPT ![i] = ask] /\ ask \in Asks
      /\ UNCHANGED <<deployed, calls, files, summaries>>
  BY DEF Invoke, IInv, TypeOK, Asks
<1>2. \/ (\E code \in NotCalled : Throw(i, code)) /\ UNCHANGED <<log, inFlight>>
      \/ logStatus(i, "ATTEMPTING") /\ Send(i)
  BY DEF Invoke, Refuse, Attempt, NotCalled
<1>3. outcome[i] = None /\ None.kind = "none" /\ TraceInv(i) /\ OutcomeInv(i)
  BY <1>1, Kinds DEF IInv, TypeOK
<1>4. CASE (\E code \in NotCalled : Throw(i, code)) /\ UNCHANGED <<log, inFlight>>
  <2>1. PICK code \in NotCalled :
          /\ pc' = [pc EXCEPT ![i] = "ending"]
          /\ outcome' = [outcome EXCEPT ![i] = [kind |-> "error", code |-> code]]
          /\ UNCHANGED <<log, inFlight>>
    BY <1>4 DEF Throw, End
  <2>2. TypeOK'
    BY <1>1, <2>1 DEF IInv, TypeOK, Errors, None
  <2>3. Local(i)
    BY <1>1, <2>1 DEF Local, IInv, TypeOK
  <2>4. TraceInv(i)'
    BY <1>1, <1>3, <2>1 DEF IInv, TypeOK, TraceInv, Executed
  <2>5. OutcomeInv(i)'
    BY <1>1, <1>3, <2>1, Codes, ErrorOutcome DEF TraceInv
  <2> QED BY <2>2, <2>3, <2>4, <2>5, LocalStep
<1>5. CASE logStatus(i, "ATTEMPTING") /\ Send(i)
  <2> DEFINE line == [status |-> "ATTEMPTING", run |-> run, request |-> i]
  <2>1. /\ pc' = [pc EXCEPT ![i] = "calling"]
        /\ inFlight' = inFlight \cup {i} /\ UNCHANGED outcome
        /\ log' = log \cup {line}
    BY <1>1, <1>5 DEF logStatus, Send, IInv, TypeOK
  <2>2. TypeOK'
    BY <1>1, <1>3, <2>1 DEF IInv, TypeOK
  <2>3. Local(i)
    BY <1>1, <2>1 DEF Local, IInv, TypeOK
  <2>4. Attempted(i)'
    <3>1. line \in log' /\ asked'[i].run = run
      BY <1>1, <2>1 DEF IInv, TypeOK
    <3> QED BY <3>1 DEF Attempted
  <2>5. TraceInv(i)' /\ OutcomeInv(i)'
    BY <1>1, <1>3, <2>1, <2>4 DEF IInv, TypeOK, TraceInv, OutcomeInv, Executed
  <2> QED BY <2>2, <2>3, <2>5, LocalStep
<1> QED BY <1>2, <1>4, <1>5

(* An answer is that of the invocation's own call, and turns into a result *)
(* with or without its log line, or into an error about the answer.        *)
LEMMA AnsweredStep ==
  ASSUME IInv, NEW i \in Invocations, Answered(i)
  PROVE  IInv'
<1>1. /\ pc[i] = "calling"
      /\ UNCHANGED <<deployed, asked, inFlight, calls, files, summaries>>
  BY DEF Answered
<1>2. PICK call \in calls :
        /\ call.request = i
        /\ \/ Succeed(i, ResultOf(i, call))
           \/ (\E code \in UnfitAnswer : Throw(i, code)) /\ UNCHANGED log
  BY DEF Answered
<1>3. asked[i] \in Asks /\ TraceInv(i) /\ OutcomeInv(i) /\ Executed(i)
  BY <1>1, <1>2 DEF IInv, TraceInv, Executed
<1>4. CASE Succeed(i, ResultOf(i, call))
  <2> DEFINE result == ResultOf(i, call)
             line == [status |-> "SUCCESS", run |-> asked[i].run, request |-> i]
  <2>1. /\ pc' = [pc EXCEPT ![i] = "ending"]
        /\ outcome' = [outcome EXCEPT ![i] = result]
        /\ log' = log \/ log' = log \cup {line}
    BY <1>1, <1>4 DEF Succeed, logStatus, End
  <2>2. result \in Results
    <3>1. call.bedrockRequest \in 1 .. MaxCalls
      BY DEF IInv, TypeOK
    <3> QED BY <1>3, <3>1, HashAssumption
            DEF ResultOf, Results, createAuditEvent, Events, Asks
  <2>3. line \in [status : {"SUCCESS"}, run : Runs, request : Invocations]
    BY <1>3 DEF Asks
  <2>4. result.kind = "result" /\ result # None
    BY <2>2, Kinds
  <2>5. TypeOK'
    <3>1. log' \in SUBSET [status : {"ATTEMPTING", "INDETERMINATE", "SUCCESS"},
                           run : Runs, request : Invocations]
      BY <2>1, <2>3 DEF IInv, TypeOK
    <3> HIDE DEF result, line
    <3> QED BY <1>1, <2>1, <2>2, <2>4, <3>1 DEF IInv, TypeOK
  <2>6. Local(i)
    BY <1>1, <2>1 DEF Local, IInv, TypeOK
  <2>7. TraceInv(i)'
    BY <1>1, <1>3, <2>1 DEF IInv, TypeOK, TraceInv, Executed, Attempted
  <2>8. OutcomeInv(i)'
    <3>1. outcome'[i] = result /\ ResultOf(i, call)' = result
      BY <1>1, <2>1 DEF IInv, TypeOK, ResultOf
    <3>2. \A l \in log' : l.request = i => l.status # "INDETERMINATE"
      BY <1>1, <1>3, <2>1 DEF TraceInv
    <3> HIDE DEF result, line
    <3>3. Executed(i)'
      BY <1>1, <1>3 DEF Executed
    <3> QED BY <1>1, <1>2, <2>4, <3>1, <3>2, <3>3 DEF OutcomeInv
  <2> QED BY <2>5, <2>6, <2>7, <2>8, LocalStep
<1>5. CASE (\E code \in UnfitAnswer : Throw(i, code)) /\ UNCHANGED log
  <2>1. PICK code \in UnfitAnswer :
          /\ pc' = [pc EXCEPT ![i] = "ending"]
          /\ outcome' = [outcome EXCEPT ![i] = [kind |-> "error", code |-> code]]
          /\ UNCHANGED log
    BY <1>5 DEF Throw, End
  <2>2. TypeOK'
    BY <1>1, <2>1, Codes DEF IInv, TypeOK, Errors, None
  <2>3. Local(i)
    BY <1>1, <2>1 DEF Local, IInv, TypeOK
  <2>4. TraceInv(i)'
    BY <1>1, <1>3, <2>1 DEF IInv, TypeOK, TraceInv, Executed, Attempted
  <2>5. OutcomeInv(i)'
    BY <1>1, <1>3, <2>1, Codes, ErrorOutcome DEF TraceInv
  <2> QED BY <2>2, <2>3, <2>4, <2>5, LocalStep
<1> QED BY <1>2, <1>4, <1>5

(* A request that fails ends the invocation with an error that says        *)
(* nothing about the call, with or without its log line.                   *)
LEMMA SendFailsStep ==
  ASSUME IInv, NEW i \in Invocations, SendFails(i)
  PROVE  IInv'
<1> DEFINE error == [kind |-> "error", code |-> "BEDROCK_RESULT_INDETERMINATE"]
           line == [status |-> "INDETERMINATE", run |-> asked[i].run, request |-> i]
<1>1. /\ pc[i] = "calling" /\ pc' = [pc EXCEPT ![i] = "ending"]
      /\ outcome' = [outcome EXCEPT ![i] = error]
      /\ UNCHANGED <<deployed, asked, inFlight, calls, files, summaries>>
      /\ log' = log \/ log' = log \cup {line}
  BY DEF SendFails, Throw, End, logStatus
<1>2. asked[i] \in Asks /\ TraceInv(i) /\ OutcomeInv(i)
  BY <1>1 DEF IInv, TraceInv
<1>3. line \in [status : {"INDETERMINATE"}, run : Runs, request : Invocations]
  BY <1>2 DEF Asks
<1>4. TypeOK'
  BY <1>1, <1>3, Codes DEF IInv, TypeOK, Errors, None
<1>5. Local(i)
  BY <1>1 DEF Local, IInv, TypeOK
<1>6. TraceInv(i)'
  BY <1>1, <1>2 DEF IInv, TypeOK, TraceInv, Executed, Attempted
<1>7. OutcomeInv(i)'
  <2>1. \A l \in log' : l.request = i => l.status # "SUCCESS"
    BY <1>1, <1>2 DEF TraceInv
  <2> QED BY <1>1, <2>1, Codes, ErrorOutcome
<1> QED BY <1>4, <1>5, <1>6, <1>7, LocalStep

(* Lambda delivers what the handler ended with, as it is.                  *)
LEMMA DeliverStep ==
  ASSUME IInv, NEW i \in Invocations, Deliver(i)
  PROVE  IInv'
<1>1. /\ pc[i] = "ending" /\ pc' = [pc EXCEPT ![i] = "ended"]
      /\ UNCHANGED <<deployed, asked, outcome, log, inFlight, calls, files, summaries>>
  BY DEF Deliver
<1>2. TraceInv(i) /\ OutcomeInv(i)
  BY DEF IInv
<1>3. TypeOK'
  BY <1>1 DEF IInv, TypeOK
<1>4. Local(i)
  BY <1>1 DEF Local, IInv, TypeOK
<1>5. TraceInv(i)'
  BY <1>1, <1>2 DEF IInv, TypeOK, TraceInv, Executed, Attempted
<1>6. OutcomeInv(i)'
  BY <1>1, <1>2 DEF OutcomeInv, Executed, ResultOf
<1> QED BY <1>3, <1>4, <1>5, <1>6, LocalStep

(* When the time is over before that, the invocation ends without it: a    *)
(* SUCCESS line may stand in the log already.                              *)
LEMMA TimeOutStep ==
  ASSUME IInv, NEW i \in Invocations, TimeOut(i)
  PROVE  IInv'
<1>1. /\ pc[i] \in {"calling", "ending"} /\ pc' = [pc EXCEPT ![i] = "ended"]
      /\ outcome' = [outcome EXCEPT ![i] = [kind |-> "error", code |-> "Task timed out"]]
      /\ UNCHANGED <<deployed, asked, log, inFlight, calls, files, summaries>>
  BY DEF TimeOut
<1>2. TraceInv(i) /\ OutcomeInv(i)
  BY DEF IInv
<1>3. TypeOK'
  BY <1>1, Codes DEF IInv, TypeOK, Errors, None
<1>4. Local(i)
  BY <1>1 DEF Local, IInv, TypeOK
<1>5. TraceInv(i)'
  BY <1>1, <1>2 DEF IInv, TypeOK, TraceInv, Executed, Attempted
<1>6. OutcomeInv(i)'
  <2> DEFINE code == "Task timed out"
  <2>1. code \notin NotCalled /\ code \notin UnfitAnswer
    BY Codes
  <2>2. \A line \in log' : line.request = i /\ line.status = "SUCCESS" => Executed(i)
    BY <1>1, <1>2 DEF OutcomeInv
  <2>3. outcome' = [outcome EXCEPT ![i] = [kind |-> "error", code |-> code]]
    BY <1>1
  <2>4. UNCHANGED calls
    BY <1>1
  <2>5. code = "Task timed out"
    OBVIOUS
  <2> HIDE DEF code
  <2> QED BY <2>1, <2>2, <2>3, <2>4, <2>5, ErrorOutcome
<1> QED BY <1>3, <1>4, <1>5, <1>6, LocalStep

-----------------------------------------------------------------------------
(* The steps around the handler.                                           *)

(* Bedrock executes a request that was sent, and only once; the request's  *)
(* invocation did not end before its call.                                 *)
LEMMA BedrockExecutesStep ==
  ASSUME IInv, NEW i \in Invocations, BedrockExecutes(i)
  PROVE  IInv'
<1> DEFINE call == [request |-> i, bedrockRequest |-> Cardinality(calls) + 1]
<1>1. Cardinality(calls) \in Nat /\ IsFiniteSet(calls \cup {call})
  BY FS_CardinalityType, FS_AddElement DEF IInv, CallInv
<1>2. /\ i \in inFlight /\ inFlight' = inFlight \ {i} /\ calls' = calls \cup {call}
      /\ UNCHANGED <<deployed, pc, asked, outcome, log, files, summaries>>
  BY DEF BedrockExecutes
<1>3. call \in [request : Invocations, bedrockRequest : 1 .. MaxCalls]
  BY <1>1, CallsAssumption DEF BedrockExecutes
<1> HIDE DEF call
<1>4. call.request = i
  BY DEF call
<1>5. TypeOK'
  BY <1>2, <1>3 DEF IInv, TypeOK
<1>6. ASSUME NEW j \in Invocations PROVE TraceInv(j)' /\ OutcomeInv(j)'
  <2>1. TraceInv(j) /\ OutcomeInv(j) /\ TraceInv(i) /\ OutcomeInv(i)
    BY DEF IInv
  <2>2. Executed(j)' <=> Executed(j) \/ j = i
    BY <1>2, <1>4 DEF Executed
  <2>3. TraceInv(j)'
    BY <1>2, <2>1, <2>2 DEF TraceInv, Attempted
  <2>4. \A c \in calls : ResultOf(j, c)' = ResultOf(j, c)
    BY <1>2 DEF ResultOf
  <2>5. OutcomeInv(j)'
    BY <1>2, <2>1, <2>2, <2>4 DEF OutcomeInv
  <2> QED BY <2>3, <2>5
<1>7. CallInv'
  BY <1>1, <1>2, <1>4 DEF IInv, CallInv, TraceInv, Executed
<1>8. FileInv' /\ SummaryIsOfOneCall'
  BY <1>2 DEF IInv, FileInv, SummaryIsOfOneCall, Attempted
<1> QED BY <1>5, <1>6, <1>7, <1>8 DEF IInv

(* A kept file holds what the invocation ended with, or is torn.           *)
LEMMA KeepStep ==
  ASSUME IInv, NEW i \in Invocations, Keep(i)
  PROVE  IInv'
<1>1. PICK file \in {outcome[i], Torn} :
        /\ pc[i] = "ended" /\ files' = files \cup {file}
        /\ UNCHANGED <<deployed, pc, asked, outcome, log, inFlight, calls, summaries>>
  BY DEF Keep
<1>2. file = Torn \/ file \in Errors \cup Results
  BY <1>1 DEF IInv, TypeOK
<1>3. TypeOK'
  BY <1>1, <1>2 DEF IInv, TypeOK
<1>4. ASSUME file.kind = "result"
      PROVE  outcome[file.request] = file /\ pc[file.request] = "ended"
  <2>1. file = outcome[i]
    BY <1>1, <1>4, Kinds
  <2>2. PICK call \in calls : call.request = i /\ file = ResultOf(i, call)
    BY <1>4, <2>1 DEF IInv, OutcomeInv
  <2>3. file.request = i
    BY <2>2 DEF ResultOf
  <2> QED BY <1>1, <2>1, <2>3
<1>5. FileInv'
  BY <1>1, <1>4 DEF IInv, FileInv
<1>6. CallInv' /\ SummaryIsOfOneCall'
  BY <1>1 DEF IInv, CallInv, SummaryIsOfOneCall, Attempted
<1>7. \A j \in Invocations : TraceInv(j)' /\ OutcomeInv(j)'
  BY <1>1 DEF IInv, TraceInv, OutcomeInv, Executed, Attempted, ResultOf
<1> QED BY <1>3, <1>5, <1>6, <1>7 DEF IInv

(* A file that is collected holds the result of an invocation of the       *)
(* expected run and the collector's build, and of its executed call.       *)
LEMMA ProcessStep ==
  ASSUME IInv, NEW file \in files, NEW expected \in Runs, Process(file, expected)
  PROVE  IInv'
<1> DEFINE i == file.request
           s == [expected |-> expected, receipt |-> file]
<1>1. /\ file.kind = "result" /\ file.run = expected /\ file.input = LocalBuild
      /\ summaries' = summaries \cup {s}
      /\ UNCHANGED <<deployed, pc, asked, outcome, log, inFlight, calls, files>>
  BY DEF Process, collect
<1>2. /\ file \in Results /\ i \in Invocations
      /\ outcome[i] = file /\ pc[i] = "ended"
  BY <1>1, ResultFile
<1>3. PICK call \in calls : call.request = i /\ file = ResultOf(i, call)
  BY <1>1, <1>2 DEF IInv, OutcomeInv
<1>4. asked[i] = [run |-> expected, build |-> LocalBuild]
  <2>1. asked[i] \in Asks
    BY <1>2 DEF IInv, TraceInv
  <2>2. asked[i].run = expected /\ asked[i].build = LocalBuild
    BY <1>1, <1>3 DEF ResultOf
  <2> QED BY <2>1, <2>2 DEF Asks
<1>5. [request |-> i, bedrockRequest |-> file.bedrockRequest] = call
  BY <1>3 DEF IInv, TypeOK, ResultOf
<1>6. Attempted(i)
  BY <1>2, <1>3 DEF IInv, TraceInv, Executed
<1>7. SummaryIsOfOneCall'
  <2>1. s.receipt = file /\ s.expected = expected
    OBVIOUS
  <2> HIDE DEF s
  <2> QED BY <1>1, <1>2, <1>4, <1>5, <1>6, <2>1 DEF IInv, SummaryIsOfOneCall, Attempted
<1>8. TypeOK'
  BY <1>1, <1>2 DEF IInv, TypeOK
<1>9. CallInv' /\ FileInv' /\ \A j \in Invocations : TraceInv(j)' /\ OutcomeInv(j)'
  BY <1>1 DEF IInv, CallInv, FileInv, TraceInv, OutcomeInv, Executed, Attempted, ResultOf
<1> QED BY <1>7, <1>8, <1>9 DEF IInv

(* A deployment changes what later invocations run.                        *)
LEMMA DeployStep ==
  ASSUME IInv, NEW build \in Builds, Deploy(build)
  PROVE  IInv'
<1>1. TypeOK'
  BY DEF Deploy, IInv, TypeOK
<1>2. CallInv' /\ FileInv' /\ SummaryIsOfOneCall'
  BY DEF Deploy, IInv, CallInv, FileInv, SummaryIsOfOneCall, Attempted
<1>3. \A j \in Invocations : TraceInv(j)' /\ OutcomeInv(j)'
  BY DEF Deploy, IInv, TraceInv, OutcomeInv, Executed, Attempted, ResultOf
<1> QED BY <1>1, <1>2, <1>3 DEF IInv

-----------------------------------------------------------------------------
(* Before the first invocation the invariant holds.                        *)
LEMMA InitIInv == Init => IInv
<1> SUFFICES ASSUME Init PROVE IInv
  OBVIOUS
<1>1. TypeOK
  BY DEF Init, TypeOK
<1>2. \A i \in Invocations : TraceInv(i) /\ OutcomeInv(i)
  BY Kinds DEF Init, TraceInv, OutcomeInv, Executed
<1>3. CallInv /\ FileInv /\ SummaryIsOfOneCall
  BY FS_EmptySet DEF Init, CallInv, FileInv, SummaryIsOfOneCall
<1> QED BY <1>1, <1>2, <1>3 DEF IInv

(* Every step of a handler, Bedrock, a caller and an operator keeps it.    *)
LEMMA NextIInv == IInv /\ [Next]_vars => IInv'
<1> SUFFICES ASSUME IInv, [Next]_vars PROVE IInv'
  OBVIOUS
<1>1. ASSUME NEW i \in Invocations, NEW run \in Runs, Invoke(i, run) PROVE IInv'
  BY <1>1, InvokeStep
<1>2. ASSUME NEW i \in Invocations,
             BedrockExecutes(i) \/ Answered(i) \/ SendFails(i)
               \/ Deliver(i) \/ TimeOut(i) \/ Keep(i)
      PROVE  IInv'
  BY <1>2, BedrockExecutesStep, AnsweredStep, SendFailsStep, DeliverStep, TimeOutStep,
         KeepStep
<1>3. ASSUME NEW file \in files, NEW expected \in Runs, Process(file, expected) PROVE IInv'
  BY <1>3, ProcessStep
<1>4. ASSUME NEW build \in Builds, Deploy(build) PROVE IInv'
  BY <1>4, DeployStep
<1>5. CASE UNCHANGED vars
  BY <1>5 DEF vars, IInv, TypeOK, CallInv, FileInv, SummaryIsOfOneCall, TraceInv,
              OutcomeInv, Executed, Attempted, ResultOf
<1> QED BY <1>1, <1>2, <1>3, <1>4, <1>5 DEF Next

(* The inductive invariant holds in every reachable state.                 *)
THEOREM Invariance == Spec => []IInv
BY InitIInv, NextIInv, PTL DEF Spec

(* The variables keep their types, and an invocation has an outcome        *)
(* exactly when it ended.                                                  *)
THEOREM TypeCorrect == Spec => []TypeOK
<1>1. IInv => TypeOK
  BY DEF IInv
<1> QED BY <1>1, Invariance, PTL

(* Whatever Bedrock executes or may still execute stands in the log, once. *)
THEOREM CallsAreReconcilable == Spec => []EveryCallIsReconcilable
<1>1. IInv => EveryCallIsReconcilable
  <2> SUFFICES ASSUME IInv PROVE EveryCallIsReconcilable
    OBVIOUS
  <2>1. \A c \in calls : c.request \in Invocations /\ Executed(c.request)
    BY DEF IInv, TypeOK, Executed
  <2>2. inFlight \subseteq Invocations
    BY DEF IInv, TypeOK
  <2> QED BY <2>1, <2>2 DEF IInv, TraceInv, CallInv, EveryCallIsReconcilable
<1> QED BY <1>1, Invariance, PTL

(* What an invocation ended with, and what the log says of it, tells what  *)
(* became of its call.                                                     *)
THEOREM OutcomesTellOfCalls == Spec => []OutcomeTellsOfTheCall
<1>1. IInv => OutcomeTellsOfTheCall
  BY DEF IInv, OutcomeInv, Executed, TimedOut, OutcomeTellsOfTheCall
<1> QED BY <1>1, Invariance, PTL

(* A summary stands for one logged, executed and answered invocation of    *)
(* the expected run and build.                                             *)
THEOREM SummariesAreOfOneCall == Spec => []SummaryIsOfOneCall
<1>1. IInv => SummaryIsOfOneCall
  BY DEF IInv
<1> QED BY <1>1, Invariance, PTL
=============================================================================
