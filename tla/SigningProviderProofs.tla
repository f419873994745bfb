----------------------- MODULE SigningProviderProofs -----------------------
(***************************************************************************)
(* Proofs about AuditTrail, for any number of calls, keys, evidence        *)
(* records and rotations, and either provider; and about DerCodec, for any *)
(* bytes and any width of a component.                                     *)
(***************************************************************************)
EXTENDS AuditTrail, DerCodec, SequenceTheorems, WellFoundedInduction, TLAPS

-----------------------------------------------------------------------------
(* The inductive invariant.                                                *)

Pcs        == {"idle", "provider", "key", "kms", "append", "thrown", "returned"}
Signatures == [evidence : Evidences, key : Keys]
Outcomes   == {"signed", "valid", "invalid", "error"}

Command ==
  [pc : Pcs, op : {"sign", "verify", None}, evidence : Evidences \cup {None},
   signature : Signatures \cup {Malformed, None}, key : Keys \cup {Alias, None},
   outcome : Outcomes \cup {None}, recordSuccess : BOOLEAN, call : Nat]

TypeInv ==
  /\ TypeOK
  /\ proc \in [Procs -> Command]
  /\ calls \in Nat

(* What the ledger is going to say of a signature is so.                   *)
Genuine(c) ==
  /\ c.signature \in made /\ c.signature.evidence = c.evidence
  /\ provider = "kms" => c.signature.key = c.key

Recorded(c) ==
  \E e \in ledger : /\ e.call = c.call
                    /\ e.eventType \in {"evidence.tamper_detected", "evidence.verification_error"}

(* What is known of a call in progress: a verification is about a          *)
(* signature that was made once or is none; a provider's verdict is        *)
(* recorded before the caller sees it, unless it is "valid".               *)
ProcInv(p) ==
  LET c == proc[p]
  IN  c.pc # "idle" =>
        /\ c.op \in {"sign", "verify"} /\ c.evidence \in Evidences /\ c.call \in 1..calls
        /\ c.op = "verify" => c.signature \in made \cup {Malformed}
        /\ c.op = "sign" /\ c.pc \in {"provider", "key", "kms"} => c.signature = None
        /\ c.pc \in {"append", "thrown"} =>
             /\ c.outcome \in Outcomes
             /\ c.op = "verify" => c.outcome # "signed"
             /\ c.outcome \in {"signed", "valid"} => Genuine(c)
        /\ c.pc = "returned" /\ c.op = "verify" /\ c.outcome # "valid" => Recorded(c)

IInv ==
  /\ TypeInv
  /\ \A p \in Procs : ProcInv(p)
  /\ SignerIsOnRecord
-----------------------------------------------------------------------------
(* The idle command is one; Exit and Restart leave nothing to be known.    *)
LEMMA IdleIsCommand == Idle \in Command /\ Idle.pc = "idle" /\ Idle.signature = None
BY DEF Idle, Command, Pcs

(* The event type tells the outcome.                                       *)
LEMMA EventTypes ==
  ASSUME NEW outcome \in Outcomes
  PROVE  /\ EventType(outcome) = "evidence.signed" <=> outcome = "signed"
         /\ EventType(outcome) = "evidence.verified" <=> outcome = "valid"
         /\ outcome \in {"invalid", "error"} =>
              EventType(outcome) \in {"evidence.tamper_detected", "evidence.verification_error"}
BY DEF Outcomes, EventType

(* A step of one call keeps the invariant, if it keeps what is known of    *)
(* that call, takes no signature or event back and adds only true events.  *)
LEMMA CommandStep ==
  ASSUME IInv, NEW p \in Procs,
         UNCHANGED <<provider, alias>>,
         cached' \in Keys \cup {None}, cached # None => cached' # None,
         made \subseteq made', made' \subseteq Signatures,
         calls' \in Nat, calls <= calls',
         ledger \subseteq ledger',
         \A e \in ledger' \ ledger :
           /\ e.evidence \in Evidences /\ e.call \in 1..calls'
           /\ e.eventType \in {"evidence.signed", "evidence.verified"} =>
                /\ e.signature \in made' /\ e.signature.evidence = e.evidence
                /\ provider = "kms" => e.signature.key = e.key,
         proc' \in [Procs -> Command],
         \A q \in Procs \ {p} : proc'[q] = proc[q],
         proc'[p].pc = "kms" => cached' # None,
         ProcInv(p)'
  PROVE  IInv'
<1> USE DEF IInv, TypeInv
<1>1. TypeOK'
  <2>1. \A e \in ledger' : e.evidence \in Evidences /\ e.call \in 1..calls'
    BY DEF TypeOK
  <2>2. \A q \in Procs : /\ proc'[q].pc \in Pcs
                         /\ proc'[q].pc = "kms" => cached' # None
    BY DEF TypeOK, Command
  <2> QED BY <2>1, <2>2 DEF TypeOK, Pcs, Signatures
<1>2. ASSUME NEW q \in Procs, q # p PROVE ProcInv(q)'
  <2>1. proc'[q] = proc[q] /\ ProcInv(q) /\ proc[q].call \in Nat
    BY <1>2 DEF Command
  <2> QED BY <2>1 DEF ProcInv, Genuine, Recorded
<1>3. SignerIsOnRecord'
  BY DEF SignerIsOnRecord
<1> QED BY <1>1, <1>2, <1>3

(* A call that ends or throws leaves nothing to be known.                  *)
LEMMA ExitStep ==
  ASSUME IInv, NEW p \in Procs, Exit(p),
         UNCHANGED <<provider, alias, cached, made, ledger, calls>>
  PROVE  IInv'
<1>1. proc' \in [Procs -> Command] /\ proc'[p] = Idle /\ \A q \in Procs \ {p} : proc'[q] = proc[q]
  BY IdleIsCommand DEF Exit, IInv, TypeInv
<1>2. ProcInv(p)' /\ proc'[p].pc # "kms"
  BY <1>1, IdleIsCommand DEF ProcInv
<1> QED BY <1>1, <1>2, CommandStep DEF IInv, TypeInv, TypeOK, Signatures

(* A verdict of the provider is to be recorded, or it is "valid"; one that *)
(* says "valid" names the key of a signature that was made.                *)
LEMMA VerdictStep ==
  ASSUME IInv, NEW p \in Procs, NEW outcome \in Outcomes \ {"signed"},
         NEW key \in Keys \cup {Alias, None}, Verdict(p, outcome, key),
         proc[p].pc # "idle", proc[p].op = "verify",
         outcome = "valid" => /\ proc[p].signature \in made
                              /\ proc[p].signature.evidence = proc[p].evidence
                              /\ provider = "kms" => proc[p].signature.key = key,
         UNCHANGED <<provider, alias, cached, made, ledger, calls>>
  PROVE  IInv'
<1> DEFINE pc == IF ShouldRecord(outcome, proc[p].recordSuccess) THEN "append" ELSE "returned"
<1>1. pc \in {"append", "returned"} /\ (pc = "returned" => outcome = "valid")
  BY DEF ShouldRecord
<1>2. proc' = [proc EXCEPT ![p].outcome = outcome, ![p].key = key, ![p].pc = pc]
  BY DEF Verdict
<1> HIDE DEF pc
<1>3. /\ proc' \in [Procs -> Command] /\ \A q \in Procs \ {p} : proc'[q] = proc[q]
      /\ proc'[p].outcome = outcome /\ proc'[p].key = key /\ proc'[p].pc = pc
      /\ proc'[p].op = "verify" /\ proc'[p].evidence = proc[p].evidence
      /\ proc'[p].signature = proc[p].signature /\ proc'[p].call = proc[p].call
  <2>1. proc[p] \in Command
    BY DEF IInv, TypeInv
  <2> QED BY <1>1, <1>2, <2>1 DEF IInv, TypeInv, Command, Pcs
<1>4. ProcInv(p)'
  BY <1>1, <1>3 DEF IInv, ProcInv, Genuine
<1>5. proc'[p].pc # "kms"
  BY <1>1, <1>3
<1> QED BY <1>3, <1>4, <1>5, CommandStep DEF IInv, TypeInv, TypeOK, Signatures

(* An error of the provider ends a call to sign and is the verdict of a    *)
(* verification.                                                           *)
LEMMA ThrowsStep ==
  ASSUME IInv, NEW p \in Procs, Throws(p), proc[p].pc # "idle",
         UNCHANGED <<provider, alias, cached, made, ledger, calls>>
  PROVE  IInv'
<1>1. proc[p].op \in {"sign", "verify"}
  BY DEF IInv, ProcInv
<1>2. CASE proc[p].op = "sign"
  BY <1>2, ExitStep DEF Throws
<1>3. CASE proc[p].op = "verify"
  <2>1. Verdict(p, "error", None)
    BY <1>3 DEF Throws
  <2> QED BY <1>3, <2>1, VerdictStep DEF Outcomes
<1> QED BY <1>1, <1>2, <1>3

(* A signature that is made is genuine under the key that made it.         *)
LEMMA SignsStep ==
  ASSUME IInv, NEW p \in Procs, NEW key \in Keys, Signs(p, key),
         proc[p].pc # "idle", proc[p].op = "sign",
         UNCHANGED <<provider, alias, cached, ledger, calls>>
  PROVE  IInv'
<1> DEFINE sig == [evidence |-> proc[p].evidence, key |-> key]
<1>1. proc[p] \in Command /\ proc[p].evidence \in Evidences /\ proc[p].call \in 1..calls
  BY DEF IInv, TypeInv, ProcInv
<1>2. sig \in Signatures /\ sig.evidence = proc[p].evidence /\ sig.key = key
  BY <1>1 DEF Signatures
<1> HIDE DEF sig
<1>3. /\ made' = made \cup {sig}
      /\ proc' = [proc EXCEPT ![p].pc = "append", ![p].outcome = "signed",
                              ![p].signature = sig, ![p].key = key]
  BY DEF Signs, sig
<1>4. /\ proc' \in [Procs -> Command] /\ \A q \in Procs \ {p} : proc'[q] = proc[q]
      /\ proc'[p].pc = "append" /\ proc'[p].outcome = "signed" /\ proc'[p].op = "sign"
      /\ proc'[p].signature = sig /\ proc'[p].key = key
      /\ proc'[p].evidence = proc[p].evidence /\ proc'[p].call = proc[p].call
  BY <1>1, <1>2, <1>3 DEF IInv, TypeInv, Command, Pcs, Outcomes
<1>5. ProcInv(p)'
  BY <1>1, <1>2, <1>3, <1>4 DEF ProcInv, Genuine, Outcomes
<1> QED BY <1>2, <1>3, <1>4, <1>5, CommandStep DEF IInv, TypeInv, TypeOK, Signatures

(* A call that goes on to its next request to KMS is known as before.      *)
LEMMA GotoStep ==
  ASSUME IInv, NEW p \in Procs, NEW pc \in {"key", "kms"}, proc[p].pc \in {"provider", "key"},
         proc' = [proc EXCEPT ![p].pc = pc],
         cached' \in Keys \cup {None}, cached # None => cached' # None,
         pc = "kms" => cached' # None,
         UNCHANGED <<provider, alias, made, ledger, calls>>
  PROVE  IInv'
<1>1. /\ proc' \in [Procs -> Command] /\ \A q \in Procs \ {p} : proc'[q] = proc[q]
      /\ proc'[p] = [proc[p] EXCEPT !.pc = pc] /\ proc[p] \in Command
  BY DEF IInv, TypeInv, Command, Pcs
<1>2. /\ proc'[p].pc = pc /\ proc'[p].op = proc[p].op /\ proc'[p].evidence = proc[p].evidence
      /\ proc'[p].signature = proc[p].signature /\ proc'[p].call = proc[p].call
  BY <1>1 DEF Command
<1>3. ProcInv(p)'
  BY <1>2 DEF IInv, ProcInv
<1> QED BY <1>1, <1>2, <1>3, CommandStep DEF IInv, TypeInv, TypeOK, Signatures

-----------------------------------------------------------------------------
(* One lemma per action.                                                   *)

(* What a call begins with.                                                *)
SignCommand(e, k, n) ==
  [Idle EXCEPT !.pc = "provider", !.op = "sign", !.evidence = e, !.key = k, !.call = n]
VerifyCommand(e, sig, k, record, n) ==
  [Idle EXCEPT !.pc = "provider", !.op = "verify", !.evidence = e, !.signature = sig,
               !.key = k, !.recordSuccess = record, !.call = n]

NewCommand(c, n) ==
  /\ c \in Command /\ c.pc = "provider" /\ c.op \in {"sign", "verify"}
  /\ c.evidence \in Evidences /\ c.call = n
  /\ c.op = "verify" => c.signature \in made \cup {Malformed}
  /\ c.op = "sign" => c.signature = None

(* A new call of signAndRecord stands before the provider.                 *)
LEMMA NewSign ==
  ASSUME NEW e \in Evidences, NEW k \in Keys \cup {None}, NEW n \in Nat
  PROVE  NewCommand(SignCommand(e, k, n), n)
BY IdleIsCommand DEF Command, Pcs, NewCommand, SignCommand

(* A new call of verifyAndRecord stands before the provider, with its      *)
(* signature.                                                              *)
LEMMA NewVerify ==
  ASSUME NEW e \in Evidences, NEW sig \in made \cup {Malformed}, made \subseteq Signatures,
         NEW k \in Keys \cup {None}, NEW record \in BOOLEAN, NEW n \in Nat
  PROVE  NewCommand(VerifyCommand(e, sig, k, record, n), n)
BY IdleIsCommand DEF Command, Pcs, NewCommand, VerifyCommand

(* A call begins, a verification with a signature made once or with none.  *)
LEMMA CallStep ==
  ASSUME IInv, NEW p \in Procs, Call(p)
  PROVE  IInv'
<1>1. calls' = calls + 1 /\ UNCHANGED <<provider, alias, cached, made, ledger>>
  BY DEF Call
<1>2. /\ calls \in Nat /\ proc \in [Procs -> Command]
      /\ made \subseteq Signatures /\ cached \in Keys \cup {None}
  BY DEF IInv, TypeInv, TypeOK, Signatures
<1> DEFINE n == calls'
<1>3. n \in Nat /\ calls <= n /\ n \in 1..n
  BY <1>1, <1>2
<1>4. PICK e \in Evidences, k \in Keys \cup {None} :
        \/ proc' = [proc EXCEPT ![p] = SignCommand(e, k, n)]
        \/ \E sig \in made \cup {Malformed}, record \in BOOLEAN :
             proc' = [proc EXCEPT ![p] = VerifyCommand(e, sig, k, record, n)]
  BY DEF Call, SignCommand, VerifyCommand
<1> HIDE DEF n
<1>5. PICK c : NewCommand(c, n) /\ proc' = [proc EXCEPT ![p] = c]
  BY <1>2, <1>3, <1>4, NewSign, NewVerify
<1>6. /\ proc' \in [Procs -> Command] /\ proc'[p] = c
      /\ \A q \in Procs \ {p} : proc'[q] = proc[q]
  BY <1>2, <1>5 DEF NewCommand
<1>7. proc'[p].pc = "provider" /\ ProcInv(p)'
  BY <1>1, <1>3, <1>5, <1>6 DEF ProcInv, NewCommand, n
<1> QED BY <1>1, <1>2, <1>3, <1>6, <1>7, CommandStep DEF n

(* The checks before any request.                                          *)
LEMMA PrepareStep ==
  ASSUME IInv, NEW p \in Procs, Prepare(p)
  PROVE  IInv'
<1>1. /\ proc[p].pc = "provider"
      /\ UNCHANGED <<provider, alias, cached, made, ledger, calls>>
  BY DEF Prepare
<1>2. CASE Throws(p)
  BY <1>1, <1>2, ThrowsStep
<1>3. CASE proc[p].signature = Malformed /\ Verdict(p, "invalid", Alias)
  <2>1. proc[p].op \in {"sign", "verify"}
    BY <1>1 DEF IInv, ProcInv
  <2>2. CASE proc[p].op = "verify"
    BY <1>1, <1>3, <2>2, VerdictStep DEF Outcomes
  <2>3. CASE proc[p].op = "sign"
    BY <1>1, <1>3, <2>3, AuditTrailAssumption DEF IInv, ProcInv
  <2> QED BY <2>1, <2>2, <2>3
<1>4. CASE proc' = [proc EXCEPT ![p].pc = IF cached = None THEN "key" ELSE "kms"]
  BY <1>1, <1>4, GotoStep DEF IInv, TypeInv, TypeOK
<1> QED BY <1>2, <1>3, <1>4 DEF Prepare

(* The key's spec is checked before the key is remembered.                 *)
LEMMA GetPublicKeyStep ==
  ASSUME IInv, NEW p \in Procs, GetPublicKey(p)
  PROVE  IInv'
<1>1. /\ proc[p].pc = "key" /\ alias \in Keys
      /\ UNCHANGED <<provider, alias, made, ledger, calls>>
  BY DEF GetPublicKey, IInv, TypeInv, TypeOK
<1>2. CASE cached' = alias /\ proc' = [proc EXCEPT ![p].pc = "kms"]
  BY <1>1, <1>2, GotoStep, AuditTrailAssumption
<1>3. CASE cached' = cached /\ Throws(p)
  BY <1>1, <1>3, ThrowsStep
<1> QED BY <1>2, <1>3 DEF GetPublicKey

(* KMS signs with the key the alias points at, and says so.                *)
LEMMA KmsSignStep ==
  ASSUME IInv, NEW p \in Procs, KmsSign(p)
  PROVE  IInv'
<1>1. alias \in Keys
  BY DEF IInv, TypeInv, TypeOK
<1> QED BY <1>1, SignsStep DEF KmsSign

(* A signature that verifies under the alias's key was made with it: the   *)
(* caller has it from someone for whom it was made.                        *)
LEMMA KmsVerifyStep ==
  ASSUME IInv, NEW p \in Procs, KmsVerify(p)
  PROVE  IInv'
<1>1. /\ proc[p].pc # "idle" /\ proc[p].op = "verify" /\ alias \in Keys
      /\ UNCHANGED <<provider, alias, cached, made, ledger, calls>>
  BY DEF KmsVerify, IInv, TypeInv, TypeOK
<1>2. CASE /\ proc[p].signature = [evidence |-> proc[p].evidence, key |-> alias]
           /\ Verdict(p, "valid", alias)
  <2>1. proc[p].evidence \in Evidences /\ proc[p].signature \in made \cup {Malformed}
    BY <1>1 DEF IInv, ProcInv
  <2>2. proc[p].signature \in made
    BY <1>1, <1>2, <2>1, AuditTrailAssumption
  <2>3. proc[p].signature.evidence = proc[p].evidence /\ proc[p].signature.key = alias
    BY <1>2
  <2> QED BY <1>1, <1>2, <2>2, <2>3, VerdictStep DEF Outcomes
<1>3. CASE Verdict(p, "invalid", Alias)
  BY <1>1, <1>3, VerdictStep DEF Outcomes
<1> QED BY <1>2, <1>3 DEF KmsVerify

(* A request to KMS fails.                                                 *)
LEMMA KmsFailsStep ==
  ASSUME IInv, NEW p \in Procs, KmsFails(p)
  PROVE  IInv'
BY ThrowsStep DEF KmsFails

(* The local provider signs with the caller's key, if it is on the curve.  *)
LEMMA LocalSignStep ==
  ASSUME IInv, NEW p \in Procs, LocalSign(p)
  PROVE  IInv'
<1>1. CASE Usable(p) /\ Signs(p, proc[p].key)
  <2>1. proc[p].key \in Keys
    BY <1>1, AuditTrailAssumption DEF LocalSign, Usable
  <2> QED BY <1>1, <2>1, SignsStep DEF LocalSign
<1>2. CASE made' = made /\ Throws(p)
  BY <1>2, ThrowsStep DEF LocalSign
<1> QED BY <1>1, <1>2 DEF LocalSign

(* A signature that verifies under the caller's key was made with it.      *)
LEMMA LocalVerifyStep ==
  ASSUME IInv, NEW p \in Procs, LocalVerify(p)
  PROVE  IInv'
<1> DEFINE sig == [evidence |-> proc[p].evidence, key |-> proc[p].key]
           verdict == IF proc[p].signature = sig THEN "valid" ELSE "invalid"
<1>1. /\ provider = "local" /\ proc[p].pc # "idle" /\ proc[p].op = "verify"
      /\ proc[p].key \in Keys \cup {Alias, None}
      /\ proc[p].signature \in made \cup {Malformed}
      /\ UNCHANGED <<provider, alias, cached, made, ledger, calls>>
  BY DEF LocalVerify, IInv, TypeInv, Command, ProcInv
<1>2. \/ proc[p].signature = Malformed /\ Verdict(p, "invalid", proc[p].key)
      \/ proc[p].signature # Malformed /\ ~Usable(p) /\ Throws(p)
      \/ proc[p].signature # Malformed /\ Usable(p) /\ Verdict(p, verdict, proc[p].key)
  BY DEF LocalVerify
<1>3. CASE proc[p].signature = Malformed /\ Verdict(p, "invalid", proc[p].key)
  BY <1>1, <1>3, VerdictStep DEF Outcomes
<1>4. CASE Throws(p)
  BY <1>1, <1>4, ThrowsStep
<1>5. CASE proc[p].signature # Malformed /\ Verdict(p, verdict, proc[p].key)
  <2>1. CASE proc[p].signature = sig
    <3>1. Verdict(p, "valid", proc[p].key) /\ proc[p].signature.evidence = proc[p].evidence
      BY <1>5, <2>1
    <3> QED BY <1>1, <1>5, <3>1, VerdictStep DEF Outcomes
  <2>2. CASE proc[p].signature # sig
    <3>1. Verdict(p, "invalid", proc[p].key)
      BY <1>5, <2>2
    <3> QED BY <1>1, <3>1, VerdictStep DEF Outcomes
  <2> QED BY <2>1, <2>2
<1> QED BY <1>2, <1>3, <1>4, <1>5

(* The event that an append writes tells what is known of the call.        *)
LEMMA EventIsTrue ==
  ASSUME IInv, NEW p \in Procs, proc[p].pc \in {"append", "thrown"}
  PROVE  LET e == Event(p)
         IN  /\ e.evidence \in Evidences /\ e.call = proc[p].call /\ e.call \in 1..calls
             /\ e.eventType \in {"evidence.signed", "evidence.verified"} =>
                  /\ e.signature \in made /\ e.signature.evidence = e.evidence
                  /\ provider = "kms" => e.signature.key = e.key
             /\ proc[p].op = "verify" /\ proc[p].outcome # "valid" =>
                  e.eventType \in {"evidence.tamper_detected", "evidence.verification_error"}
<1> DEFINE e == Event(p)
<1>1. /\ e.evidence = proc[p].evidence /\ e.call = proc[p].call
      /\ e.signature = proc[p].signature /\ e.eventType = EventType(proc[p].outcome)
      /\ provider = "kms" => e.key = proc[p].key
  BY DEF Event
<1>2. ProcInv(p) /\ proc[p].outcome \in Outcomes
  BY DEF IInv, ProcInv
<1> HIDE DEF e
<1>3. e.eventType \in {"evidence.signed", "evidence.verified"} => Genuine(proc[p])
  BY <1>1, <1>2, EventTypes DEF ProcInv
<1>4. proc[p].op = "verify" /\ proc[p].outcome # "valid" =>
        e.eventType \in {"evidence.tamper_detected", "evidence.verification_error"}
  BY <1>1, <1>2, EventTypes DEF ProcInv, Outcomes
<1>5. e.evidence \in Evidences /\ e.call = proc[p].call /\ e.call \in 1..calls
  BY <1>1, <1>2 DEF ProcInv
<1> QED BY <1>1, <1>3, <1>4, <1>5 DEF Genuine, e

(* What an append leaves in the ledger, if it leaves anything.             *)
LEMMA WrittenStep ==
  ASSUME IInv, NEW p \in Procs, proc[p].pc \in {"append", "thrown"},
         NEW pc \in {"thrown", "returned"}, proc' = [proc EXCEPT ![p].pc = pc],
         ledger' \in {ledger, ledger \cup {Event(p)}},
         pc = "returned" => ledger' = ledger \cup {Event(p)},
         UNCHANGED <<provider, alias, cached, made, calls>>
  PROVE  IInv'
<1> DEFINE e == Event(p)
<1>1. /\ e.evidence \in Evidences /\ e.call = proc[p].call /\ e.call \in 1..calls
      /\ e.eventType \in {"evidence.signed", "evidence.verified"} =>
           /\ e.signature \in made /\ e.signature.evidence = e.evidence
           /\ provider = "kms" => e.signature.key = e.key
      /\ proc[p].op = "verify" /\ proc[p].outcome # "valid" =>
           e.eventType \in {"evidence.tamper_detected", "evidence.verification_error"}
  BY EventIsTrue
<1> HIDE DEF e
<1>2. /\ ledger \subseteq ledger' /\ \A f \in ledger' \ ledger : f = e
      /\ pc = "returned" => e \in ledger'
  BY DEF e
<1>3. /\ proc' \in [Procs -> Command] /\ \A q \in Procs \ {p} : proc'[q] = proc[q]
      /\ proc'[p] = [proc[p] EXCEPT !.pc = pc] /\ proc[p] \in Command
  BY DEF IInv, TypeInv, Command, Pcs
<1>4. /\ proc'[p].pc = pc /\ proc'[p].op = proc[p].op /\ proc'[p].outcome = proc[p].outcome
      /\ proc'[p].evidence = proc[p].evidence /\ proc'[p].signature = proc[p].signature
      /\ proc'[p].key = proc[p].key /\ proc'[p].call = proc[p].call
  BY <1>3 DEF Command
<1>5. ProcInv(p)'
  <2>1. ProcInv(p)
    BY DEF IInv
  <2>2. pc = "returned" /\ proc[p].op = "verify" /\ proc[p].outcome # "valid" =>
          e \in ledger' /\ e.call = proc'[p].call
          /\ e.eventType \in {"evidence.tamper_detected", "evidence.verification_error"}
    BY <1>1, <1>2, <1>4
  <2> QED BY <1>4, <2>1, <2>2 DEF ProcInv, Genuine, Recorded
<1> QED BY <1>1, <1>2, <1>3, <1>4, <1>5, CommandStep DEF IInv, TypeInv, TypeOK, Signatures

(* The event of a call reaches the ledger.                                 *)
LEMMA AppendEventStep ==
  ASSUME IInv, NEW p \in Procs, AppendEvent(p)
  PROVE  IInv'
BY WrittenStep DEF AppendEvent

(* The append fails, with the event in the ledger or not.                  *)
LEMMA AppendFailsStep ==
  ASSUME IInv, NEW p \in Procs, AppendFails(p)
  PROVE  IInv'
BY WrittenStep DEF AppendFails

(* A call returns its verdict or throws.                                   *)
LEMMA EndStep ==
  ASSUME IInv, NEW p \in Procs, End(p)
  PROVE  IInv'
BY ExitStep DEF End

(* Moving the alias changes nothing that is said: events and verdicts name *)
(* physical keys.                                                          *)
LEMMA UpdateAliasStep == IInv /\ UpdateAlias => IInv'
<1> SUFFICES ASSUME IInv, UpdateAlias PROVE IInv'
  OBVIOUS
<1>1. alias' \in Keys /\ UNCHANGED <<provider, cached, made, ledger, proc, calls>>
  BY DEF UpdateAlias
<1>2. TypeInv'
  BY <1>1 DEF IInv, TypeInv, TypeOK
<1>3. \A p \in Procs : ProcInv(p)'
  BY <1>1 DEF IInv, ProcInv, Genuine, Recorded
<1>4. SignerIsOnRecord'
  BY <1>1 DEF IInv, SignerIsOnRecord
<1> QED BY <1>2, <1>3, <1>4 DEF IInv

(* A restart forgets the calls and the cached key, and no event.           *)
LEMMA RestartStep == IInv /\ Restart => IInv'
<1> SUFFICES ASSUME IInv, Restart PROVE IInv'
  OBVIOUS
<1>1. /\ cached' = None /\ \A p \in Procs : proc'[p] = Idle
      /\ proc' \in [Procs -> Command]
      /\ UNCHANGED <<provider, alias, made, ledger, calls>>
  BY IdleIsCommand DEF Restart
<1>2. TypeInv'
  BY <1>1, IdleIsCommand DEF IInv, TypeInv, TypeOK
<1>3. \A p \in Procs : ProcInv(p)'
  BY <1>1, IdleIsCommand DEF ProcInv
<1>4. SignerIsOnRecord'
  BY <1>1 DEF IInv, SignerIsOnRecord
<1> QED BY <1>2, <1>3, <1>4 DEF IInv

-----------------------------------------------------------------------------
(* The theorems.                                                           *)

(* Before the first call there is no event and no signature.               *)
LEMMA InitIInv == Init => IInv
<1> SUFFICES ASSUME Init PROVE IInv
  OBVIOUS
<1>1. proc \in [Procs -> Command] /\ \A p \in Procs : proc[p] = Idle
  BY IdleIsCommand DEF Init
<1>2. TypeInv
  BY <1>1, IdleIsCommand, AuditTrailAssumption DEF Init, TypeInv, TypeOK
<1>3. \A p \in Procs : ProcInv(p)
  BY <1>1, IdleIsCommand DEF ProcInv
<1> QED BY <1>2, <1>3 DEF IInv, Init, SignerIsOnRecord

(* Every step keeps the invariant.                                         *)
LEMMA NextIInv == IInv /\ [Next]_vars => IInv'
<1> SUFFICES ASSUME IInv, [Next]_vars PROVE IInv'
  OBVIOUS
<1>1. CASE UNCHANGED vars
  BY <1>1 DEF vars, IInv, TypeInv, TypeOK, ProcInv, Genuine, Recorded, SignerIsOnRecord
<1>2. ASSUME NEW p \in Procs,
             \/ Call(p) \/ Prepare(p) \/ GetPublicKey(p) \/ KmsSign(p) \/ KmsVerify(p)
             \/ KmsFails(p) \/ LocalSign(p) \/ LocalVerify(p) \/ AppendEvent(p) \/ AppendFails(p)
             \/ End(p)
      PROVE  IInv'
  BY <1>2, CallStep, PrepareStep, GetPublicKeyStep, KmsSignStep, KmsVerifyStep, KmsFailsStep,
     LocalSignStep, LocalVerifyStep, AppendEventStep, AppendFailsStep, EndStep
<1> QED BY <1>1, <1>2, UpdateAliasStep, RestartStep DEF Next

(* The invariant holds of every reachable state.                           *)
THEOREM Invariance == Spec => []IInv
BY InitIInv, NextIInv, PTL DEF Spec

(* Types: in particular a request to KMS is only made after the key's spec *)
(* was checked by this program, whatever restarts came between.            *)
THEOREM TypeCorrect == Spec => []TypeOK
<1>1. IInv => TypeOK
  BY DEF IInv, TypeInv
<1> QED BY <1>1, Invariance, PTL

(* The ledger names the key that made a signature, for any rotations of    *)
(* the alias between the key check, the signature and the record.          *)
THEOREM SignersAreOnRecord == Spec => []SignerIsOnRecord
<1>1. IInv => SignerIsOnRecord
  BY DEF IInv
<1> QED BY <1>1, Invariance, PTL

(* A verification that is not "valid" returns only with an event in the    *)
(* ledger, for any errors of the provider and any lost appends.            *)
THEOREM VerdictsAreRecorded == Spec => []VerdictIsRecorded
<1>1. IInv => VerdictIsRecorded
  BY DEF IInv, ProcInv, Recorded, VerdictIsRecorded
<1> QED BY <1>1, Invariance, PTL

-----------------------------------------------------------------------------
(* DerCodec.                                                               *)

(***************************************************************************)
(* Induction without an operator parameter: a set of numbers that has 0    *)
(* and the successor of each of its members has every natural number.      *)
(***************************************************************************)

LEMMA Least ==
  ASSUME NEW S \in SUBSET Nat, S # {}
  PROVE  \E m \in S : \A k \in S : m <= k
<1> DEFINE R == OpToRel(<, Nat)
<1>1. IsWellFoundedOn(R, Nat)
  BY NatLessThanWellFounded
<1>2. \A k, m \in Nat : k < m => <<k, m>> \in R
  BY DEF OpToRel
<1> HIDE DEF R
<1>3. PICK m \in S : \A k \in S : ~(<<k, m>> \in R)
  BY <1>1, WFMin
<1>4. \A k \in S : ~(k < m)
  BY <1>2, <1>3
<1> QED BY <1>3, <1>4

LEMMA Induction ==
  ASSUME NEW S, 0 \in S, \A n \in Nat : n \in S => n + 1 \in S
  PROVE  \A n \in Nat : n \in S
<1> SUFFICES ASSUME Nat \ S # {} PROVE FALSE
  OBVIOUS
<1>1. PICK m \in Nat \ S : \A k \in Nat \ S : m <= k
  BY Least
<1>2. m - 1 \in Nat /\ m - 1 \in S
  BY <1>1
<1> QED BY <1>1, <1>2

-----------------------------------------------------------------------------
(* The number a sequence of bytes spells.                                  *)

(* The numbers that its first k bytes spell.                               *)
Spelled(bytes, k, n) == n = [i \in 0..k |-> IF i = 0 THEN 0 ELSE n[i - 1] * Base + bytes[i]]

LEMMA SpelledExists ==
  ASSUME NEW bytes
  PROVE  \A k \in Nat : \E n : Spelled(bytes, k, n)
<1> DEFINE S == {k \in Nat : \E n : Spelled(bytes, k, n)}
<1>1. 0 \in S
  <2>1. Spelled(bytes, 0, [i \in 0..0 |-> 0])
    BY DEF Spelled
  <2> QED BY <2>1
<1>2. ASSUME NEW k \in Nat, k \in S PROVE k + 1 \in S
  <2>1. PICK n : Spelled(bytes, k, n)
    BY <1>2
  <2> DEFINE m == [i \in 0..(k + 1) |-> IF i = k + 1 THEN n[k] * Base + bytes[k + 1] ELSE n[i]]
  <2>2. ASSUME NEW i \in 0..(k + 1)
        PROVE  m[i] = IF i = 0 THEN 0 ELSE m[i - 1] * Base + bytes[i]
    BY <2>1 DEF Spelled
  <2>3. m = [i \in 0..(k + 1) |-> m[i]]
    OBVIOUS
  <2>4. Spelled(bytes, k + 1, m)
    <3> HIDE DEF m
    <3> QED BY <2>2, <2>3 DEF Spelled
  <2> QED BY <2>4
<1>3. \A k \in Nat : k \in S
  <2> HIDE DEF S
  <2> QED BY <1>1, <1>2, Induction
<1> QED BY <1>3

(* Number is what every such function says of all the bytes.               *)
LEMMA NumberIs ==
  ASSUME NEW bytes \in Seq(Byte)
  PROVE  \E n : Spelled(bytes, Len(bytes), n) /\ Number(bytes) = n[Len(bytes)]
<1> DEFINE n == CHOOSE n : Spelled(bytes, Len(bytes), n)
<1>1. Len(bytes) \in Nat
  OBVIOUS
<1>2. Spelled(bytes, Len(bytes), n)
  BY <1>1, SpelledExists
<1>3. Number(bytes) = n[Len(bytes)]
  BY DEF Number, Spelled
<1> QED BY <1>2, <1>3

LEMMA ConcatBytes ==
  ASSUME NEW a \in Seq(Byte), NEW b \in Seq(Byte)
  PROVE  /\ a \o b \in Seq(Byte) /\ Len(a \o b) = Len(a) + Len(b)
         /\ \A i \in 1..(Len(a) + Len(b)) :
              (a \o b)[i] = IF i <= Len(a) THEN a[i] ELSE b[i - Len(a)]
BY ConcatProperties

(* What there is to know of the code's constants.                          *)
LEMMA Widths ==
  ASSUME DerCodecAssumption
  PROVE  /\ Base \in Nat /\ Base \div 2 \in Nat /\ Base = 2 * (Base \div 2)
         /\ Width \in Nat \ {0} /\ 2 * Width + 6 < Base \div 2
         /\ SeqTag \in Byte /\ IntTag \in Byte /\ SeqTag # IntTag
         /\ 0 \in Byte /\ Byte \subseteq Nat
BY DEF DerCodecAssumption, Byte

LEMMA SumsAreOrdered ==
  ASSUME NEW x \in Nat, NEW y \in Nat, NEW u \in Nat, NEW v \in Nat, x <= y, u <= v
  PROVE  x + u <= y + v
OBVIOUS

LEMMA TimesBase ==
  ASSUME DerCodecAssumption
  PROVE  /\ \A m \in Nat : m * Base \in Nat /\ (m + 1) * Base = m * Base + Base
         /\ \A m, n \in Nat : m <= n => m * Base <= n * Base
         /\ 0 * Base = 0
<1>1. Base \in Nat
  BY Widths
<1>2. ASSUME NEW b \in Nat
      PROVE  /\ \A m \in Nat : m * b \in Nat /\ (m + 1) * b = m * b + b
             /\ \A m, n \in Nat : m <= n => m * b <= n * b
             /\ 0 * b = 0
  OBVIOUS
<1> QED BY <1>1, <1>2

(* The number is reached in one step per byte.                             *)
LEMMA NumberSteps ==
  ASSUME DerCodecAssumption, NEW bytes \in Seq(Byte)
  PROVE  \E n \in [0..Len(bytes) -> Nat] :
           /\ n[0] = 0
           /\ \A i \in 1..Len(bytes) : n[i] = n[i - 1] * Base + bytes[i]
           /\ Number(bytes) = n[Len(bytes)]
<1>0. Len(bytes) \in Nat /\ \A i \in 1..Len(bytes) : bytes[i] \in Nat
  BY Widths
<1>1. PICK n : Spelled(bytes, Len(bytes), n) /\ Number(bytes) = n[Len(bytes)]
  BY NumberIs
<1>2. DOMAIN n = 0..Len(bytes) /\ n = [i \in 0..Len(bytes) |-> n[i]]
  BY <1>1 DEF Spelled
<1>3. n[0] = 0 /\ \A i \in 1..Len(bytes) : n[i] = n[i - 1] * Base + bytes[i]
  <2>1. ASSUME NEW i \in 0..Len(bytes)
        PROVE  n[i] = IF i = 0 THEN 0 ELSE n[i - 1] * Base + bytes[i]
    BY <1>1 DEF Spelled
  <2> QED BY <1>0, <2>1
<1> DEFINE S == {i \in Nat : i <= Len(bytes) => n[i] \in Nat}
<1>4. 0 \in S
  BY <1>3
<1>5. ASSUME NEW i \in Nat, i \in S PROVE i + 1 \in S
  <2>1. SUFFICES ASSUME i + 1 <= Len(bytes) PROVE n[i + 1] \in Nat
    OBVIOUS
  <2>2. n[i] \in Nat /\ bytes[i + 1] \in Nat /\ n[i + 1] = n[i] * Base + bytes[i + 1]
    BY <1>0, <1>3, <1>5, <2>1
  <2>3. n[i] * Base \in Nat
    BY <2>2, TimesBase
  <2> QED BY <2>2, <2>3
<1>6. \A i \in Nat : i \in S
  <2> HIDE DEF S
  <2> QED BY <1>4, <1>5, Induction
<1>7. n \in [0..Len(bytes) -> Nat]
  BY <1>0, <1>2, <1>6
<1> QED BY <1>1, <1>3, <1>7

LEMMA NumberIsNat ==
  ASSUME DerCodecAssumption, NEW bytes \in Seq(Byte)
  PROVE  Number(bytes) \in Nat
<1>1. PICK n \in [0..Len(bytes) -> Nat] : Number(bytes) = n[Len(bytes)]
  BY NumberSteps
<1> QED BY <1>1

(* Leading zeros say nothing.                                              *)
LEMMA LeadingZeros ==
  ASSUME DerCodecAssumption, NEW bytes \in Seq(Byte), NEW padded \in Seq(Byte),
         Len(bytes) <= Len(padded),
         \A i \in 1..Len(padded) :
           padded[i] = IF i <= Len(padded) - Len(bytes) THEN 0
                       ELSE bytes[i - (Len(padded) - Len(bytes))]
  PROVE  Number(padded) = Number(bytes)
<1> DEFINE k == Len(padded) - Len(bytes)
<1>0. k \in Nat /\ Len(bytes) \in Nat /\ Len(padded) = k + Len(bytes)
  OBVIOUS
<1>1. PICK n \in [0..Len(bytes) -> Nat] :
        /\ n[0] = 0
        /\ \A i \in 1..Len(bytes) : n[i] = n[i - 1] * Base + bytes[i]
        /\ Number(bytes) = n[Len(bytes)]
  BY NumberSteps
<1>2. PICK m \in [0..Len(padded) -> Nat] :
        /\ m[0] = 0
        /\ \A i \in 1..Len(padded) : m[i] = m[i - 1] * Base + padded[i]
        /\ Number(padded) = m[Len(padded)]
  BY NumberSteps
<1> DEFINE S == {i \in Nat : i <= Len(padded) => m[i] = IF i <= k THEN 0 ELSE n[i - k]}
<1>3. 0 \in S
  BY <1>0, <1>2
<1>4. ASSUME NEW i \in Nat, i \in S PROVE i + 1 \in S
  <2> SUFFICES ASSUME i + 1 <= Len(padded)
               PROVE  m[i + 1] = IF i + 1 <= k THEN 0 ELSE n[i + 1 - k]
    OBVIOUS
  <2>1. m[i + 1] = m[i] * Base + padded[i + 1] /\ i + 1 \in 1..Len(padded)
    BY <1>0, <1>2
  <2>2. m[i] = IF i <= k THEN 0 ELSE n[i - k]
    BY <1>4
  <2>3. CASE i + 1 <= k
    <3>1. padded[i + 1] = 0 /\ m[i] = 0
      BY <1>0, <2>1, <2>2, <2>3
    <3> QED BY <2>1, <2>3, <3>1, TimesBase
  <2>4. CASE i + 1 > k
    <3>1. padded[i + 1] = bytes[i + 1 - k] /\ i + 1 - k \in 1..Len(bytes)
      BY <1>0, <2>1, <2>4
    <3>2. m[i] = n[i - k]
      BY <1>0, <1>1, <2>2, <2>4
    <3>3. n[i + 1 - k] = n[i - k] * Base + bytes[i + 1 - k]
      <4> DEFINE j == i + 1 - k
      <4>1. n[j] = n[j - 1] * Base + bytes[j]
        BY <1>1, <3>1
      <4>2. j - 1 = i - k
        BY <1>0
      <4> QED BY <4>1, <4>2
    <3> QED BY <1>0, <2>1, <2>4, <3>1, <3>2, <3>3
  <2> QED BY <1>0, <2>3, <2>4
<1>5. \A i \in Nat : i \in S
  <2> HIDE DEF S
  <2> QED BY <1>3, <1>4, Induction
<1>6. m[Len(padded)] = n[Len(bytes)]
  <2>1. m[Len(padded)] = IF Len(padded) <= k THEN 0 ELSE n[Len(padded) - k]
    BY <1>0, <1>5
  <2>2. Len(padded) - k = Len(bytes) /\ (Len(padded) <= k <=> Len(bytes) = 0)
    BY <1>0
  <2> QED BY <1>1, <2>1, <2>2
<1> QED BY <1>1, <1>2, <1>6

(* Of two numbers of the same length the one with the larger bytes is      *)
(* larger, and so is the one with the larger first byte.                   *)
LEMMA LargerBytes ==
  ASSUME DerCodecAssumption, NEW a \in Seq(Byte), NEW b \in Seq(Byte), Len(a) = Len(b),
         \A i \in 1..Len(a) : a[i] <= b[i]
  PROVE  Number(a) <= Number(b)
<1>0. Len(a) \in Nat /\ \A i \in 1..Len(a) : a[i] \in Nat /\ b[i] \in Nat
  BY Widths
<1>1. PICK n \in [0..Len(a) -> Nat] :
        /\ n[0] = 0
        /\ \A i \in 1..Len(a) : n[i] = n[i - 1] * Base + a[i]
        /\ Number(a) = n[Len(a)]
  BY NumberSteps
<1>2. PICK m \in [0..Len(a) -> Nat] :
        /\ m[0] = 0
        /\ \A i \in 1..Len(a) : m[i] = m[i - 1] * Base + b[i]
        /\ Number(b) = m[Len(a)]
  BY NumberSteps
<1> DEFINE S == {i \in Nat : i <= Len(a) => n[i] <= m[i]}
<1>3. 0 \in S
  BY <1>1, <1>2
<1>4. ASSUME NEW i \in Nat, i \in S PROVE i + 1 \in S
  <2> SUFFICES ASSUME i + 1 <= Len(a) PROVE n[i + 1] <= m[i + 1]
    OBVIOUS
  <2>1. /\ n[i + 1] = n[i] * Base + a[i + 1] /\ m[i + 1] = m[i] * Base + b[i + 1]
        /\ n[i] \in Nat /\ m[i] \in Nat /\ n[i] <= m[i]
        /\ a[i + 1] \in Nat /\ b[i + 1] \in Nat /\ a[i + 1] <= b[i + 1]
    <3>1. i + 1 \in 1..Len(a) /\ i \in 0..Len(a) /\ i + 1 - 1 = i
      BY <1>0
    <3>2. /\ n[i + 1] = n[i + 1 - 1] * Base + a[i + 1]
          /\ m[i + 1] = m[i + 1 - 1] * Base + b[i + 1]
      BY <1>1, <1>2, <3>1
    <3>3. n[i] <= m[i]
      BY <1>0, <1>4, <3>1
    <3> QED BY <1>0, <1>1, <1>2, <3>1, <3>2, <3>3
  <2>2. n[i] * Base \in Nat /\ m[i] * Base \in Nat /\ n[i] * Base <= m[i] * Base
    BY <2>1, TimesBase
  <2>4. n[i] * Base + a[i + 1] <= m[i] * Base + b[i + 1]
    BY <2>1, <2>2, SumsAreOrdered
  <2> QED BY <2>1, <2>4, Zenon
<1>5. \A i \in Nat : i \in S
  <2> HIDE DEF S
  <2> QED BY <1>3, <1>4, Induction
<1> QED BY <1>0, <1>1, <1>2, <1>5

LEMMA LargerFirst ==
  ASSUME DerCodecAssumption, NEW a \in Seq(Byte), NEW b \in Seq(Byte), Len(a) = Len(b),
         Len(a) > 0, a[1] < b[1]
  PROVE  Number(a) < Number(b)
<1>0. /\ Len(a) \in Nat
      /\ \A i \in 1..Len(a) : a[i] \in Nat /\ b[i] \in Nat /\ a[i] < Base
  <2>1. Len(a) \in Nat /\ \A i \in 1..Len(a) : a[i] \in Byte /\ b[i] \in Byte
    OBVIOUS
  <2>2. \A x \in Byte : x \in Nat /\ x < Base
    BY Widths DEF Byte
  <2> QED BY <2>1, <2>2, Zenon
<1>1. PICK n \in [0..Len(a) -> Nat] :
        /\ n[0] = 0
        /\ \A i \in 1..Len(a) : n[i] = n[i - 1] * Base + a[i]
        /\ Number(a) = n[Len(a)]
  BY NumberSteps
<1>2. PICK m \in [0..Len(a) -> Nat] :
        /\ m[0] = 0
        /\ \A i \in 1..Len(a) : m[i] = m[i - 1] * Base + b[i]
        /\ Number(b) = m[Len(a)]
  BY NumberSteps
<1> DEFINE S == {i \in Nat : i + 1 <= Len(a) => n[i + 1] < m[i + 1]}
<1>3. 0 \in S
  <2>1. n[1] = n[1 - 1] * Base + a[1] /\ m[1] = m[1 - 1] * Base + b[1]
    BY <1>0, <1>1, <1>2
  <2>2. n[1] = 0 * Base + a[1] /\ m[1] = 0 * Base + b[1]
    BY <1>1, <1>2, <2>1
  <2> QED BY <1>0, <2>2, TimesBase
<1>4. ASSUME NEW i \in Nat, i \in S PROVE i + 1 \in S
  <2> DEFINE j == i + 1
  <2> SUFFICES ASSUME j + 1 <= Len(a) PROVE n[j + 1] < m[j + 1]
    OBVIOUS
  <2>1. /\ n[j + 1] = n[j] * Base + a[j + 1] /\ m[j + 1] = m[j] * Base + b[j + 1]
        /\ n[j] \in Nat /\ m[j] \in Nat /\ n[j] < m[j]
        /\ a[j + 1] \in Nat /\ b[j + 1] \in Nat /\ a[j + 1] < Base
    <3>1. j + 1 \in 1..Len(a) /\ j \in 0..Len(a) /\ j + 1 - 1 = j
      BY <1>0
    <3>2. /\ n[j + 1] = n[j + 1 - 1] * Base + a[j + 1]
          /\ m[j + 1] = m[j + 1 - 1] * Base + b[j + 1]
      BY <1>1, <1>2, <3>1
    <3>3. n[j] < m[j]
      BY <1>0, <1>4, <3>1
    <3> HIDE DEF j
    <3> QED BY <1>0, <1>1, <1>2, <3>1, <3>2, <3>3
  <2> HIDE DEF j
  <2>2. /\ n[j] * Base \in Nat /\ m[j] * Base \in Nat
        /\ (n[j] + 1) * Base = n[j] * Base + Base
        /\ (n[j] + 1) * Base <= m[j] * Base
    <3>1. /\ n[j] \in Nat /\ m[j] \in Nat /\ n[j] < m[j]
          /\ n[j] + 1 \in Nat /\ n[j] + 1 <= m[j]
      <4>1. n[j] \in Nat /\ m[j] \in Nat /\ n[j] < m[j]
        BY <2>1
      <4> QED BY <4>1
    <3>2. /\ n[j] * Base \in Nat /\ m[j] * Base \in Nat
          /\ (n[j] + 1) * Base = n[j] * Base + Base
      BY <3>1, TimesBase
    <3>3. (n[j] + 1) * Base <= m[j] * Base
      BY <3>1, TimesBase
    <3> QED BY <3>2, <3>3
  <2>3. ASSUME NEW P \in Nat, NEW Q \in Nat, NEW x \in Nat, NEW y \in Nat,
               x < Base, P + Base <= Q
        PROVE  P + x < Q + y
    BY <2>3, Widths
  <2>4. n[j] * Base + Base <= m[j] * Base
    BY <2>2
  <2>5. n[j] * Base + a[j + 1] < m[j] * Base + b[j + 1]
    BY <2>1, <2>2, <2>3, <2>4
  <2> QED BY <2>1, <2>5
<1>5. \A i \in Nat : i \in S
  <2> HIDE DEF S
  <2> QED BY <1>3, <1>4, Induction
<1>6. Len(a) - 1 \in S /\ Len(a) - 1 + 1 = Len(a)
  <2>1. Len(a) - 1 \in Nat /\ Len(a) - 1 + 1 = Len(a)
    BY <1>0
  <2> HIDE DEF S
  <2> QED BY <1>5, <2>1
<1> QED BY <1>0, <1>1, <1>2, <1>6

-----------------------------------------------------------------------------
(* The contents that readInt takes, and what it makes of them.             *)

(* A content as readInt checks it.                                         *)
ShortFits(c) ==
  /\ Len(c) \in 1..(Width + 1)
  /\ ~High(c[1])
  /\ Len(c) = Width + 1 => c[1] = 0

LEMMA ZerosAre ==
  ASSUME DerCodecAssumption, NEW n \in Nat
  PROVE  /\ Zeros(n) \in Seq(Byte) /\ Len(Zeros(n)) = n
         /\ \A i \in 1..n : Zeros(n)[i] = 0
<1>1. Zeros(n) \in [1..n -> Byte]
  BY Widths DEF Zeros
<1> QED BY <1>1 DEF Zeros

LEMMA FixedIs ==
  ASSUME DerCodecAssumption, NEW c \in Seq(Byte), Len(c) \in 1..(Width + 1)
  PROVE  /\ Fixed(c) \in Seq(Byte) /\ Len(Fixed(c)) = Width
         /\ \A i \in 1..Width :
              Fixed(c)[i] = IF i <= Width - Len(c) THEN 0 ELSE c[i - (Width - Len(c))]
<1>1. CASE Len(c) = Width + 1
  <2>1. Fixed(c) = Tail(c) /\ c # << >>
    BY <1>1, Widths DEF Fixed
  <2>2. /\ Tail(c) \in Seq(Byte) /\ Len(Tail(c)) = Len(c) - 1
        /\ \A i \in 1..Len(Tail(c)) : Tail(c)[i] = c[i + 1]
    BY <2>1, HeadTailProperties
  <2> QED BY <1>1, <2>1, <2>2, Widths
<1>2. CASE Len(c) <= Width
  <2> DEFINE k == Width - Len(c)
  <2>1. k \in Nat /\ Fixed(c) = Zeros(k) \o c
    <3>1. Width \in Nat /\ Len(c) \in Nat
      BY Widths
    <3>2. k \in Nat /\ Len(c) # Width + 1
      BY <1>2, <3>1
    <3> QED BY <3>2, Zenon DEF Fixed
  <2>2. /\ Zeros(k) \in Seq(Byte) /\ Len(Zeros(k)) = k
        /\ \A i \in 1..k : Zeros(k)[i] = 0
    BY <2>1, ZerosAre
  <2>3. /\ Zeros(k) \o c \in Seq(Byte)
        /\ Len(Zeros(k) \o c) = Len(Zeros(k)) + Len(c)
        /\ \A i \in 1..(Len(Zeros(k)) + Len(c)) :
             (Zeros(k) \o c)[i] = IF i <= Len(Zeros(k)) THEN Zeros(k)[i] ELSE c[i - Len(Zeros(k))]
    BY <2>2, ConcatBytes
  <2>4. k + Len(c) = Width
    BY Widths
  <2> QED BY <2>1, <2>2, <2>3, <2>4
<1> QED BY <1>1, <1>2, Widths

(* A component spells the number of the content it was made of, and the    *)
(* contents that readInt takes are the ones whose number fits.             *)
LEMMA FixedIsTheNumber ==
  ASSUME DerCodecAssumption, NEW c \in Seq(Byte), ShortFits(c)
  PROVE  Number(Fixed(c)) = Number(c)
<1>1. /\ Len(c) \in 1..(Width + 1)
      /\ Len(c) = Width + 1 => c[1] = 0
  BY DEF ShortFits
<1>2. /\ Fixed(c) \in Seq(Byte) /\ Len(Fixed(c)) = Width
      /\ \A i \in 1..Width :
           Fixed(c)[i] = IF i <= Width - Len(c) THEN 0 ELSE c[i - (Width - Len(c))]
  BY <1>1, FixedIs
<1>3. CASE Len(c) <= Width
  BY <1>1, <1>2, <1>3, LeadingZeros
<1>4. CASE Len(c) = Width + 1
  <2>1. \A i \in 1..Len(c) :
          c[i] = IF i <= Len(c) - Len(Fixed(c)) THEN 0
                 ELSE Fixed(c)[i - (Len(c) - Len(Fixed(c)))]
    <3> SUFFICES ASSUME NEW i \in 1..Len(c)
                 PROVE  c[i] = IF i <= 1 THEN 0 ELSE Fixed(c)[i - 1]
      BY <1>2, <1>4, Widths
    <3>1. CASE i = 1
      BY <1>1, <1>4, <3>1
    <3>2. CASE i > 1
      <4> DEFINE j == i - 1
      <4>1. j \in 1..Width /\ ~(j <= Width - Len(c)) /\ j - (Width - Len(c)) = i
        BY <1>4, <3>2, Widths
      <4> HIDE DEF j
      <4>2. Fixed(c)[j] = c[i]
        BY <1>2, <4>1
      <4> QED BY <3>2, <4>2 DEF j
    <3> QED BY <3>1, <3>2
  <2>2. Len(Fixed(c)) <= Len(c)
    BY <1>2, <1>4, Widths
  <2> QED BY <1>2, <2>1, <2>2, LeadingZeros
<1> QED BY <1>1, <1>3, <1>4, Widths

LEMMA FitsIsShortFits ==
  ASSUME DerCodecAssumption, NEW c \in Seq(Byte)
  PROVE  Fits(c) <=> ShortFits(c)
<1> DEFINE largest == [i \in 1..Width |-> Base - 1]
<1>1. /\ largest \in Seq(Byte) /\ Len(largest) = Width
      /\ \A i \in 1..Width : largest[i] = Base - 1
  <2>1. Base - 1 \in Byte /\ Width \in Nat
    BY Widths DEF Byte
  <2>2. largest \in [1..Width -> Byte]
    BY <2>1
  <2> QED BY <2>1, <2>2
<1> HIDE DEF largest
<1>2. ASSUME ShortFits(c) PROVE Number(c) <= Number(largest)
  <2>1. /\ Fixed(c) \in Seq(Byte) /\ Len(Fixed(c)) = Width /\ Number(Fixed(c)) = Number(c)
    BY <1>2, FixedIs, FixedIsTheNumber DEF ShortFits
  <2>2. \A i \in 1..Width : Fixed(c)[i] \in Byte
    BY <2>1
  <2>3. \A i \in 1..Width : Fixed(c)[i] <= largest[i]
    BY <1>1, <2>2, Widths DEF Byte
  <2> QED BY <1>1, <2>1, <2>3, LargerBytes
<1>3. ASSUME Len(c) = Width + 1, c[1] # 0 PROVE Number(c) > Number(largest)
  <2> DEFINE padded == <<0>> \o largest
  <2>1. <<0>> \in Seq(Byte) /\ Len(<<0>>) = 1 /\ <<0>>[1] = 0
    BY Widths
  <2>2. /\ padded \in Seq(Byte) /\ Len(padded) = Len(<<0>>) + Len(largest)
        /\ \A i \in 1..(Len(<<0>>) + Len(largest)) :
             padded[i] = IF i <= Len(<<0>>) THEN <<0>>[i] ELSE largest[i - Len(<<0>>)]
    BY <1>1, <2>1, ConcatBytes
  <2> HIDE DEF padded
  <2>3. Len(padded) = Width + 1 /\ padded[1] = 0
        /\ \A i \in 1..Len(padded) : padded[i] = IF i <= 1 THEN 0 ELSE largest[i - 1]
    BY <1>1, <2>1, <2>2, Widths
  <2>4. Number(padded) = Number(largest)
    <3>1. Len(padded) - Len(largest) = 1 /\ Len(largest) <= Len(padded)
      BY <1>1, <2>3, Widths
    <3>2. \A i \in 1..Len(padded) :
            padded[i] = IF i <= Len(padded) - Len(largest) THEN 0
                        ELSE largest[i - (Len(padded) - Len(largest))]
      BY <2>3, <3>1, Zenon
    <3> QED BY <1>1, <2>2, <3>1, <3>2, LeadingZeros, Zenon
  <2>5. padded[1] < c[1] /\ Len(padded) = Len(c) /\ Len(padded) > 0
    <3>1. c[1] \in Byte
      BY <1>3, Widths
    <3> QED BY <1>3, <2>3, <3>1, Widths
  <2>6. Number(padded) < Number(c)
    BY <2>2, <2>5, LargerFirst
  <2>7. Number(padded) \in Nat /\ Number(c) \in Nat
    BY <2>2, NumberIsNat
  <2> QED BY <2>4, <2>6, <2>7
<1>4. Number(c) \in Nat /\ Number(largest) \in Nat
  BY <1>1, NumberIsNat
<1>5. Fits(c) <=> Len(c) \in 1..(Width + 1) /\ ~High(c[1]) /\ Number(c) <= Number(largest)
  BY DEF Fits, largest
<1> QED BY <1>2, <1>3, <1>4, <1>5 DEF ShortFits

-----------------------------------------------------------------------------
(* Reading what Tlv writes.                                                *)

(* s has at o the tag, the length and the content of a Tlv.                *)
HeadOf(long) == IF long THEN 3 ELSE 2

TlvAt(s, o, tag, long, c) ==
  /\ o \in Nat \ {0} /\ o + HeadOf(long) + Len(c) - 1 <= Len(s)
  /\ s[o] = tag
  /\ IF long THEN s[o + 1] = Base \div 2 + 1 /\ s[o + 2] = Len(c) ELSE s[o + 1] = Len(c)
  /\ \A i \in 1..Len(c) : s[o + HeadOf(long) + i - 1] = c[i]

LEMMA TlvIs ==
  ASSUME DerCodecAssumption, NEW tag \in Byte, NEW long \in BOOLEAN,
         NEW c \in Seq(Byte), Len(c) < Base
  PROVE  /\ Tlv(tag, long, c) \in Seq(Byte)
         /\ Len(Tlv(tag, long, c)) = HeadOf(long) + Len(c)
         /\ TlvAt(Tlv(tag, long, c), 1, tag, long, c)
<1> DEFINE form == IF long THEN <<Base \div 2 + 1>> ELSE << >>
           first == <<tag>> \o form
           head == first \o <<Len(c)>>
<1>1. Base \div 2 + 1 \in Byte /\ Len(c) \in Byte
  BY Widths DEF Byte
<1>2. /\ head \in Seq(Byte) /\ Len(head) = HeadOf(long)
      /\ head[1] = tag
      /\ long => head[2] = Base \div 2 + 1 /\ head[3] = Len(c)
      /\ ~long => head[2] = Len(c)
  <2>1. /\ <<tag>> \in Seq(Byte) /\ Len(<<tag>>) = 1 /\ <<tag>>[1] = tag
        /\ <<Len(c)>> \in Seq(Byte) /\ Len(<<Len(c)>>) = 1 /\ <<Len(c)>>[1] = Len(c)
    BY <1>1
  <2>2. /\ form \in Seq(Byte) /\ Len(form) = HeadOf(long) - 2
        /\ long => form[1] = Base \div 2 + 1
    BY <1>1 DEF HeadOf
  <2>3. HeadOf(long) \in {2, 3} /\ (long <=> HeadOf(long) = 3)
    BY DEF HeadOf
  <2> HIDE DEF form
  <2>4. /\ first \in Seq(Byte) /\ Len(first) = 1 + Len(form)
        /\ \A i \in 1..(1 + Len(form)) :
             first[i] = IF i <= 1 THEN <<tag>>[i] ELSE form[i - 1]
    BY <2>1, <2>2, ConcatBytes
  <2> HIDE DEF first
  <2>5. /\ head \in Seq(Byte) /\ Len(head) = Len(first) + 1
        /\ \A i \in 1..(Len(first) + 1) :
             head[i] = IF i <= Len(first) THEN first[i] ELSE <<Len(c)>>[i - Len(first)]
    BY <2>1, <2>4, ConcatBytes
  <2> HIDE DEF head
  <2>6. Len(first) = HeadOf(long) - 1
    BY <2>2, <2>3, <2>4
  <2>7. first[1] = tag /\ (long => first[2] = form[1])
    BY <2>1, <2>2, <2>3, <2>4
  <2>8. head[1] = first[1] /\ (long => head[2] = first[2])
    BY <2>3, <2>5, <2>6
  <2>9. head[HeadOf(long)] = Len(c)
    BY <2>1, <2>3, <2>5, <2>6
  <2> QED BY <2>2, <2>3, <2>5, <2>6, <2>7, <2>8, <2>9
<1>3. Tlv(tag, long, c) = head \o c
  BY DEF Tlv
<1> HIDE DEF head
<1>4. /\ head \o c \in Seq(Byte) /\ Len(head \o c) = Len(head) + Len(c)
      /\ \A i \in 1..(Len(head) + Len(c)) :
           (head \o c)[i] = IF i <= Len(head) THEN head[i] ELSE c[i - Len(head)]
  BY <1>2, ConcatBytes, Zenon
<1>5. Len(c) \in Nat /\ HeadOf(long) \in {2, 3} /\ (long => HeadOf(long) = 3)
      /\ (~long => HeadOf(long) = 2)
  BY DEF HeadOf
<1>6. TlvAt(head \o c, 1, tag, long, c)
  <2>1. ASSUME NEW i \in 1..Len(c)
        PROVE  (head \o c)[1 + HeadOf(long) + i - 1] = c[i]
    <3> DEFINE j == 1 + HeadOf(long) + i - 1
    <3>1. j \in 1..(Len(head) + Len(c)) /\ ~(j <= Len(head)) /\ j - Len(head) = i
      <4>1. Len(head) \in {2, 3} /\ Len(c) \in Nat
        BY <1>2, <1>5
      <4>2. j = Len(head) + i
        <5>1. ASSUME NEW h \in Nat PROVE 1 + h + i - 1 = h + i
          OBVIOUS
        <5> QED BY <1>2, <4>1, <5>1
      <4> HIDE DEF j
      <4> QED BY <4>1, <4>2
    <3> HIDE DEF j
    <3>2. (head \o c)[j] = c[i]
      BY <1>4, <3>1
    <3> QED BY <3>2 DEF j
  <2>2. (head \o c)[1] = tag /\ (head \o c)[2] = head[2]
    BY <1>2, <1>4, <1>5
  <2>3. ASSUME long PROVE (head \o c)[3] = head[3]
    <3>1. HeadOf(long) = 3
      BY <1>5, <2>3
    <3>2. 3 \in 1..(Len(head) + Len(c)) /\ 3 <= Len(head)
      BY <1>2, <1>5, <3>1
    <3> QED BY <1>4, <3>2
  <2>4. 1 + HeadOf(long) + Len(c) - 1 <= Len(head \o c)
    BY <1>2, <1>4, <1>5
  <2>5. CASE long
    <3>1. (head \o c)[2] = Base \div 2 + 1 /\ (head \o c)[3] = Len(c)
      BY <1>2, <2>2, <2>3, <2>5, Zenon
    <3>2. 1 + 1 = 2 /\ 1 + 2 = 3 /\ 1 \in Nat \ {0}
      OBVIOUS
    <3> QED BY <2>1, <2>2, <2>4, <2>5, <3>1, <3>2, Zenon DEF TlvAt
  <2>6. CASE ~long
    <3>1. (head \o c)[2] = Len(c)
      BY <1>2, <2>2, <2>6, Zenon
    <3>2. 1 + 1 = 2 /\ 1 \in Nat \ {0}
      OBVIOUS
    <3> QED BY <2>1, <2>2, <2>4, <2>6, <3>1, <3>2, Zenon DEF TlvAt
  <2> QED BY <2>5, <2>6
<1> QED BY <1>2, <1>3, <1>4, <1>6

(* A Tlv stands where a longer sequence has its bytes.                     *)
LEMMA TlvMoved ==
  ASSUME NEW a \in Seq(Byte), NEW tag, NEW long \in BOOLEAN, NEW c \in Seq(Byte),
         TlvAt(a, 1, tag, long, c), Len(a) = HeadOf(long) + Len(c),
         NEW s \in Seq(Byte), NEW k \in Nat, k + Len(a) <= Len(s),
         \A i \in 1..Len(a) : s[k + i] = a[i]
  PROVE  TlvAt(s, k + 1, tag, long, c)
<1> DEFINE o == k + 1
<1>1. /\ HeadOf(long) \in {2, 3} /\ Len(c) \in Nat /\ Len(s) \in Nat
      /\ (long => HeadOf(long) = 3)
  BY DEF HeadOf
<1>2. o \in Nat \ {0} /\ o + HeadOf(long) + Len(c) - 1 <= Len(s)
  BY <1>1
<1>3. s[o] = a[1] /\ s[o + 1] = a[1 + 1]
  <2>1. 1 \in 1..Len(a) /\ 2 \in 1..Len(a) /\ k + 1 = o /\ k + 2 = o + 1 /\ 1 + 1 = 2
    BY <1>1
  <2> QED BY <2>1
<1>4. ASSUME long PROVE s[o + 2] = a[1 + 2]
  <2>1. HeadOf(long) = 3
    BY <1>1, <1>4
  <2>2. 3 \in 1..Len(a) /\ k + 3 = o + 2 /\ 1 + 2 = 3
    BY <1>1, <2>1
  <2> QED BY <2>2
<1>5. ASSUME NEW i \in 1..Len(c) PROVE s[o + HeadOf(long) + i - 1] = c[i]
  <2> DEFINE h == HeadOf(long)
             j == h + i
  <2>1. h \in {2, 3} /\ Len(a) = h + Len(c) /\ a[1 + h + i - 1] = c[i]
    BY <1>1 DEF TlvAt
  <2> HIDE DEF h
  <2>2. j \in 1..Len(a) /\ k + j = o + h + i - 1 /\ 1 + h + i - 1 = j
    BY <1>1, <2>1
  <2> HIDE DEF j
  <2>3. s[o + h + i - 1] = c[i]
    BY <2>1, <2>2
  <2> QED BY <2>3 DEF h
<1>6. a[1] = tag /\ IF long THEN a[1 + 1] = Base \div 2 + 1 /\ a[1 + 2] = Len(c)
                    ELSE a[1 + 1] = Len(c)
  BY Zenon DEF TlvAt
<1>7. CASE long
  BY <1>2, <1>3, <1>4, <1>5, <1>6, <1>7, Zenon DEF TlvAt
<1>8. CASE ~long
  BY <1>2, <1>3, <1>5, <1>6, <1>8, Zenon DEF TlvAt
<1> QED BY <1>7, <1>8

(* readLength finds the length in either form, when the short one holds it. *)
LEMMA readLengthAt ==
  ASSUME DerCodecAssumption, NEW s \in Seq(Byte), NEW o, NEW tag, NEW long \in BOOLEAN,
         NEW c \in Seq(Byte), Len(c) < Base \div 2, TlvAt(s, o, tag, long, c)
  PROVE  readLength(s, o + 1) = Read(Len(c), o + HeadOf(long))
<1>1. /\ o \in Nat \ {0} /\ o + HeadOf(long) + Len(c) - 1 <= Len(s)
      /\ Len(s) \in Nat /\ Len(c) \in Nat
  BY DEF TlvAt
<1>2. CASE ~long
  <2>1. s[o + 1] = Len(c) /\ HeadOf(long) = 2 /\ o + 1 <= Len(s) /\ o + 1 + 1 = o + 2
    BY <1>1, <1>2 DEF TlvAt, HeadOf
  <2>2. ~High(s[o + 1])
    BY <1>1, <2>1, Widths DEF High
  <2> QED BY <1>1, <2>1, <2>2 DEF readLength
<1>3. CASE long
  <2>1. /\ s[o + 1] = Base \div 2 + 1 /\ s[o + 2] = Len(c) /\ HeadOf(long) = 3
        /\ o + 2 <= Len(s) /\ o + 1 <= Len(s)
    BY <1>1, <1>3 DEF TlvAt, HeadOf
  <2>2. High(s[o + 1]) /\ s[o + 1] - Base \div 2 = 1
    BY <2>1, Widths DEF High
  <2>3. o + 1 + 1 = o + 2 /\ o + 1 + 1 + 1 = o + 3 /\ ~(o + 1 > Len(s)) /\ ~(o + 1 + 1 > Len(s))
    <3>1. o \in Nat /\ Len(s) \in Nat /\ o + 2 <= Len(s)
      BY <1>1, <2>1
    <3> QED BY <3>1
  <2>4. readLength(s, o + 1) = Read(s[o + 1 + 1], o + 1 + 1 + 1)
    BY <1>1, <2>1, <2>2, <2>3 DEF readLength
  <2> QED BY <2>1, <2>3, <2>4
<1> QED BY <1>2, <1>3

LEMMA ReadIs ==
  ASSUME NEW value, NEW next
  PROVE  /\ Read(value, next).ok /\ Read(value, next).value = value
         /\ Read(value, next).next = next /\ ~Fail.ok
BY DEF Read, Fail

(* readInt in one piece, for the length and the bytes it finds.            *)
LEMMA readIntOf ==
  ASSUME NEW s, NEW o, ~(o > Len(s)), NEW value, NEW next,
         readLength(s, o + 1) = Read(value, next),
         NEW bytes, bytes = SubSeq(s, next, next + value - 1)
  PROVE  readInt(s, o) = IF /\ s[o] = IntTag
                            /\ value \in 1..(Width + 1)
                            /\ next + value - 1 <= Len(s)
                            /\ ~High(bytes[1])
                            /\ value = Width + 1 => bytes[1] = 0
                         THEN Read(Fixed(bytes), next + value)
                         ELSE Fail
<1>1. /\ readLength(s, o + 1).ok
      /\ readLength(s, o + 1).value = value
      /\ readLength(s, o + 1).next = next
  BY ReadIs
<1> DEFINE takes == /\ s[o] = IntTag
                    /\ value \in 1..(Width + 1)
                    /\ next + value - 1 <= Len(s)
                    /\ ~High(bytes[1])
                    /\ value = Width + 1 => bytes[1] = 0
<1>2. ASSUME takes PROVE readInt(s, o) = Read(Fixed(bytes), next + value)
  BY <1>1, <1>2, Zenon DEF readInt
<1>3. ASSUME ~takes PROVE readInt(s, o) = Fail
  BY <1>1, <1>3, Zenon DEF readInt
<1> QED BY <1>2, <1>3

LEMMA readIntAt ==
  ASSUME DerCodecAssumption, NEW s \in Seq(Byte), NEW o, NEW long \in BOOLEAN,
         NEW c \in Seq(Byte), Len(c) < Base \div 2, TlvAt(s, o, IntTag, long, c)
  PROVE  readInt(s, o) =
           IF ShortFits(c) THEN Read(Fixed(c), o + HeadOf(long) + Len(c)) ELSE Fail
<1> DEFINE n == o + HeadOf(long)
           bytes == SubSeq(s, n, n + Len(c) - 1)
<1>1. /\ o \in Nat \ {0} /\ n \in Nat /\ n > 1 /\ Len(c) \in Nat /\ Len(s) \in Nat
      /\ n + Len(c) - 1 <= Len(s) /\ ~(o > Len(s))
      /\ s[o] = IntTag
      /\ \A i \in 1..Len(c) : s[n + i - 1] = c[i]
  BY DEF TlvAt, HeadOf
<1>2. readLength(s, o + 1) = Read(Len(c), n)
  BY readLengthAt
<1>3. bytes = c
  <2> HIDE DEF n
  <2>1. \A i \in n..(n + Len(c) - 1) : s[i] \in Byte
    BY <1>1
  <2>2. /\ bytes \in Seq(Byte)
        /\ Len(bytes) = IF n <= n + Len(c) - 1 THEN n + Len(c) - 1 - n + 1 ELSE 0
        /\ \A i \in 1..(n + Len(c) - 1 - n + 1) : bytes[i] = s[n + i - 1]
    BY <1>1, <2>1, SubSeqProperties
  <2>3. n + Len(c) - 1 - n + 1 = Len(c) /\ (n <= n + Len(c) - 1 <=> Len(c) # 0)
    BY <1>1
  <2> HIDE DEF bytes
  <2>4. Len(bytes) = Len(c) /\ \A i \in 1..Len(c) : bytes[i] = c[i]
    BY <1>1, <2>2, <2>3
  <2> QED BY <2>2, <2>4, SeqEqual
<1> HIDE DEF n, bytes
<1>4. readInt(s, o) = IF /\ s[o] = IntTag
                         /\ Len(c) \in 1..(Width + 1)
                         /\ n + Len(c) - 1 <= Len(s)
                         /\ ~High(c[1])
                         /\ Len(c) = Width + 1 => c[1] = 0
                      THEN Read(Fixed(c), n + Len(c))
                      ELSE Fail
  <2>1. c = SubSeq(s, n, n + Len(c) - 1)
    BY <1>3 DEF bytes
  <2>2. ~(o > Len(s))
    BY <1>1
  <2> QED BY <1>2, <2>1, <2>2, readIntOf, Zenon
<1>5. readInt(s, o) = IF ShortFits(c) THEN Read(Fixed(c), n + Len(c)) ELSE Fail
  BY <1>1, <1>4 DEF ShortFits
<1> QED BY <1>5 DEF n

LEMMA readLengthType ==
  ASSUME DerCodecAssumption, NEW s \in Seq(Byte), NEW p \in Nat \ {0}
  PROVE  \/ readLength(s, p) = Fail
         \/ \E value \in Nat, next \in Nat \ {0} : readLength(s, p) = Read(value, next)
<1> DEFINE n == s[p] - Base \div 2
<1>1. Len(s) \in Nat
  OBVIOUS
<1>2. \A i \in 1..Len(s) : s[i] \in Nat
  BY Widths
<1>3. CASE p > Len(s)
  BY <1>1, <1>3 DEF readLength
<1>4. CASE p <= Len(s) /\ ~High(s[p])
  <2>1. readLength(s, p) = Read(s[p], p + 1)
    BY <1>1, <1>4 DEF readLength
  <2>2. s[p] \in Nat /\ p + 1 \in Nat \ {0}
    BY <1>2, <1>4
  <2> QED BY <2>1, <2>2
<1>5. CASE p <= Len(s) /\ High(s[p]) /\ (n \notin 1..2 \/ p + n > Len(s))
  BY <1>1, <1>5 DEF readLength
<1>6. CASE p <= Len(s) /\ High(s[p]) /\ n \in 1..2 /\ ~(p + n > Len(s))
  <2> DEFINE value == IF n = 1 THEN s[p + 1] ELSE s[p + 1] * Base + s[p + 2]
  <2>1. readLength(s, p) = Read(value, p + 1 + n)
    BY <1>1, <1>6 DEF readLength
  <2>2. p + 1 + n \in Nat \ {0}
    BY <1>6
  <2>3. value \in Nat
    <3>1. n \in {1, 2} /\ p + n <= Len(s) /\ p \in Nat /\ Len(s) \in Nat
      BY <1>1, <1>6
    <3>2. s[p + 1] \in Nat /\ (n = 2 => s[p + 2] \in Nat)
      BY <1>2, <3>1
    <3>3. s[p + 1] * Base \in Nat
      BY <3>2, TimesBase
    <3> HIDE DEF n
    <3> QED BY <3>1, <3>2, <3>3
  <2> HIDE DEF value, n
  <2> QED BY <2>1, <2>2, <2>3
<1> QED BY <1>1, <1>3, <1>4, <1>5, <1>6

(* What readInt takes is a whole component, whatever it reads.             *)
LEMMA readIntType ==
  ASSUME DerCodecAssumption, NEW s \in Seq(Byte), NEW o \in Nat \ {0}, readInt(s, o).ok
  PROVE  /\ readInt(s, o).value \in Seq(Byte) /\ Len(readInt(s, o).value) = Width
         /\ readInt(s, o).next \in Nat \ {0}
<1>1. ~(o > Len(s)) /\ o \in 1..Len(s) /\ Len(s) \in Nat
  <2>1. CASE o > Len(s)
    <3>1. readInt(s, o) = Fail
      BY <2>1, Zenon DEF readInt
    <3> QED BY <3>1, ReadIs
  <2>2. CASE ~(o > Len(s))
    BY <2>2
  <2> QED BY <2>1, <2>2
<1>2. \/ readLength(s, o + 1) = Fail
      \/ \E value \in Nat, next \in Nat \ {0} : readLength(s, o + 1) = Read(value, next)
  BY readLengthType
<1>3. CASE readLength(s, o + 1) = Fail
  <2>1. readInt(s, o) = Fail
    BY <1>1, <1>3, ReadIs DEF readInt
  <2> QED BY <2>1, ReadIs
<1>4. ASSUME NEW value \in Nat, NEW next \in Nat \ {0}, readLength(s, o + 1) = Read(value, next)
      PROVE  /\ readInt(s, o).value \in Seq(Byte) /\ Len(readInt(s, o).value) = Width
             /\ readInt(s, o).next \in Nat \ {0}
  <2> DEFINE bytes == SubSeq(s, next, next + value - 1)
  <2>1. /\ readInt(s, o) = Read(Fixed(bytes), next + value)
        /\ value \in 1..(Width + 1) /\ next + value - 1 <= Len(s)
    <3>1. readInt(s, o) = IF /\ s[o] = IntTag
                             /\ value \in 1..(Width + 1)
                             /\ next + value - 1 <= Len(s)
                             /\ ~High(bytes[1])
                             /\ value = Width + 1 => bytes[1] = 0
                          THEN Read(Fixed(bytes), next + value)
                          ELSE Fail
      BY <1>1, <1>4, readIntOf
    <3> HIDE DEF bytes
    <3>2. readInt(s, o) # Fail
      BY ReadIs
    <3> QED BY <3>1, <3>2
  <2>2. \A i \in next..(next + value - 1) : s[i] \in Byte
    BY <1>1, <2>1
  <2>3. bytes \in Seq(Byte) /\ Len(bytes) = value
    <3>1. /\ bytes \in Seq(Byte)
          /\ Len(bytes) = IF next <= next + value - 1 THEN next + value - 1 - next + 1 ELSE 0
      BY <2>2, SubSeqProperties
    <3>2. next + value - 1 - next + 1 = value /\ (next <= next + value - 1 <=> value # 0)
      OBVIOUS
    <3> HIDE DEF bytes
    <3> QED BY <3>1, <3>2
  <2>4. Fixed(bytes) \in Seq(Byte) /\ Len(Fixed(bytes)) = Width
    <3> HIDE DEF bytes
    <3> QED BY <2>1, <2>3, FixedIs
  <2> HIDE DEF bytes
  <2> QED BY <2>1, <2>4, ReadIs
<1> QED BY <1>2, <1>3, <1>4

-----------------------------------------------------------------------------
(* decodeDerSignatureToRaw.                                                *)

(* Whatever it is given, it throws or makes a raw signature.               *)
LEMMA DecodedType ==
  ASSUME DerCodecAssumption, NEW s \in Seq(Byte), decodeDerSignatureToRaw(s) # Error
  PROVE  \E v, w \in Seq(Byte) :
           Len(v) = Width /\ Len(w) = Width /\ decodeDerSignatureToRaw(s) = v \o w
<1> DEFINE length == readLength(s, 2)
           r == readInt(s, length.next)
           t == readInt(s, r.next)
<1>1. length.ok /\ r.ok /\ t.ok /\ decodeDerSignatureToRaw(s) = r.value \o t.value
  BY Zenon DEF decodeDerSignatureToRaw
<1>2. length.next \in Nat \ {0}
  <2>1. 2 \in Nat \ {0}
    OBVIOUS
  <2> QED BY <1>1, <2>1, readLengthType, ReadIs
<1> HIDE DEF length
<1>3. r.value \in Seq(Byte) /\ Len(r.value) = Width /\ r.next \in Nat \ {0}
  BY <1>1, <1>2, readIntType
<1> HIDE DEF r
<1>4. t.value \in Seq(Byte) /\ Len(t.value) = Width
  BY <1>1, <1>3, readIntType
<1> HIDE DEF t
<1> QED BY <1>1, <1>3, <1>4

(* A body that a short length can tell.                                    *)
SmallEnough(c) == c \in Seq(Byte) /\ 2 * (Len(c) + 3) < Base \div 2

(* Two INTEGERs in either form are decoded if both are components, and to  *)
(* these.                                                                  *)
LEMMA SignatureDecoded ==
  ASSUME DerCodecAssumption, NEW form \in BOOLEAN, NEW c, NEW d,
         \/ SmallEnough(c) /\ SmallEnough(d)
         \/ /\ ~form /\ c \in Seq(Byte) /\ d \in Seq(Byte)
            /\ Len(c) <= Width + 1 /\ Len(d) <= Width + 1
  PROVE  /\ Signature(form, c, d) \in Seq(Byte)
         /\ decodeDerSignatureToRaw(Signature(form, c, d)) =
              IF ShortFits(c) /\ ShortFits(d) THEN Fixed(c) \o Fixed(d) ELSE Error
<1> DEFINE h == HeadOf(form)
           a == Tlv(IntTag, form, c)
           b == Tlv(IntTag, form, d)
           s == Signature(form, c, d)
<1>1. /\ c \in Seq(Byte) /\ d \in Seq(Byte)
      /\ Len(c) \in Nat /\ Len(d) \in Nat /\ h \in {2, 3}
      /\ h + Len(c) + h + Len(d) < Base \div 2
  <2>1. h \in {2, 3} /\ (~form => h = 2)
    BY DEF HeadOf
  <2>2. CASE SmallEnough(c) /\ SmallEnough(d)
    BY <2>1, <2>2, Widths DEF SmallEnough
  <2>3. CASE /\ ~form /\ c \in Seq(Byte) /\ d \in Seq(Byte)
             /\ Len(c) <= Width + 1 /\ Len(d) <= Width + 1
    BY <2>1, <2>3, Widths
  <2> QED BY <2>2, <2>3
<1>2. Len(c) < Base \div 2 /\ Len(d) < Base \div 2 /\ Len(c) < Base /\ Len(d) < Base
  BY <1>1, Widths
<1>3. /\ a \in Seq(Byte) /\ Len(a) = h + Len(c) /\ TlvAt(a, 1, IntTag, form, c)
      /\ b \in Seq(Byte) /\ Len(b) = h + Len(d) /\ TlvAt(b, 1, IntTag, form, d)
  BY <1>1, <1>2, TlvIs, Widths
<1> HIDE DEF h, a, b
<1>4. /\ a \o b \in Seq(Byte) /\ Len(a \o b) = Len(a) + Len(b)
      /\ \A i \in 1..(Len(a) + Len(b)) :
           (a \o b)[i] = IF i <= Len(a) THEN a[i] ELSE b[i - Len(a)]
  BY <1>3, ConcatBytes, Zenon
<1>5. Len(a \o b) < Base \div 2 /\ Len(a \o b) < Base
  BY <1>1, <1>3, <1>4, Widths
<1>6. /\ s \in Seq(Byte) /\ Len(s) = 2 + Len(a \o b)
      /\ TlvAt(s, 1, SeqTag, FALSE, a \o b)
  <2>1. s = Tlv(SeqTag, FALSE, a \o b)
    BY DEF Signature, a, b
  <2>2. HeadOf(FALSE) = 2 /\ FALSE \in BOOLEAN /\ SeqTag \in Byte
    BY Widths DEF HeadOf
  <2>3. /\ s \in Seq(Byte) /\ Len(s) = HeadOf(FALSE) + Len(a \o b)
        /\ TlvAt(s, 1, SeqTag, FALSE, a \o b)
    BY <1>4, <1>5, <2>1, <2>2, TlvIs, Zenon
  <2> QED BY <2>2, <2>3, Zenon
<1> HIDE DEF s
<1>7. /\ s[1] = SeqTag /\ s # << >>
      /\ readLength(s, 2) = Read(Len(a \o b), 3)
      /\ \A i \in 1..Len(a \o b) : s[2 + i] = (a \o b)[i]
  <2>1. HeadOf(FALSE) = 2 /\ 1 + HeadOf(FALSE) = 3 /\ 1 + 1 = 2
    BY DEF HeadOf
  <2>2. readLength(s, 1 + 1) = Read(Len(a \o b), 1 + HeadOf(FALSE))
    BY <1>4, <1>5, <1>6, readLengthAt
  <2>3. ASSUME NEW i \in 1..Len(a \o b) PROVE s[2 + i] = (a \o b)[i]
    <3>1. s[1 + HeadOf(FALSE) + i - 1] = (a \o b)[i]
      BY <1>6 DEF TlvAt
    <3>2. 1 + HeadOf(FALSE) + i - 1 = 2 + i
      <4> DEFINE g == HeadOf(FALSE)
      <4>1. g = 2 /\ i \in Nat
        BY <1>4 DEF HeadOf
      <4> HIDE DEF g
      <4>2. 1 + g + i - 1 = 2 + i
        BY <4>1
      <4> QED BY <4>2 DEF g
    <3> QED BY <3>1, <3>2
  <2>4. Len(s) > 0
    BY <1>4, <1>6
  <2>5. s[1] = SeqTag
    BY <1>6 DEF TlvAt
  <2>6. readLength(s, 2) = Read(Len(a \o b), 3)
    BY <2>1, <2>2, Zenon
  <2> QED BY <2>3, <2>4, <2>5, <2>6
<1>8. TlvAt(s, 3, IntTag, form, c)
  <2>1. \A i \in 1..Len(a) : s[2 + i] = a[i]
    BY <1>3, <1>4, <1>7
  <2>2. 2 + Len(a) <= Len(s) /\ 3 = 2 + 1
    BY <1>1, <1>3, <1>4, <1>6
  <2>3. Len(a) = HeadOf(form) + Len(c)
    BY <1>3 DEF h
  <2>4. c \in Seq(Byte) /\ a \in Seq(Byte) /\ s \in Seq(Byte) /\ 2 \in Nat
    BY <1>1, <1>3, <1>6
  <2>5. TlvAt(a, 1, IntTag, form, c)
    BY <1>3
  <2>6. TlvAt(s, 2 + 1, IntTag, form, c)
    BY <2>1, <2>2, <2>3, <2>4, <2>5, TlvMoved, Zenon
  <2> QED BY <2>2, <2>6, Zenon
<1>9. TlvAt(s, 3 + h + Len(c), IntTag, form, d)
  <2>1. ASSUME NEW i \in 1..Len(b) PROVE s[2 + Len(a) + i] = b[i]
    <3> DEFINE j == Len(a) + i
    <3>1. /\ j \in 1..(Len(a) + Len(b)) /\ ~(j <= Len(a)) /\ j - Len(a) = i
          /\ 2 + Len(a) + i = 2 + j
      BY <1>1, <1>3
    <3> HIDE DEF j
    <3>2. s[2 + j] = (a \o b)[j] /\ (a \o b)[j] = b[i]
      BY <1>4, <1>7, <3>1
    <3> QED BY <3>1, <3>2
  <2>2. /\ 2 + Len(a) \in Nat /\ 2 + Len(a) + Len(b) <= Len(s)
        /\ 3 + h + Len(c) = 2 + Len(a) + 1
    BY <1>1, <1>3, <1>4, <1>6
  <2>3. Len(b) = HeadOf(form) + Len(d)
    BY <1>3 DEF h
  <2>4. TlvAt(s, 2 + Len(a) + 1, IntTag, form, d)
    BY <1>1, <1>3, <1>6, <2>1, <2>2, <2>3, TlvMoved, Zenon
  <2> QED BY <2>2, <2>4, Zenon
<1> DEFINE r == readInt(s, 3)
           t == readInt(s, 3 + h + Len(c))
<1>10. /\ r = IF ShortFits(c) THEN Read(Fixed(c), 3 + h + Len(c)) ELSE Fail
       /\ t = IF ShortFits(d) THEN Read(Fixed(d), 3 + h + Len(c) + h + Len(d)) ELSE Fail
  <2>1. r = IF ShortFits(c) THEN Read(Fixed(c), 3 + HeadOf(form) + Len(c)) ELSE Fail
    <3>1. c \in Seq(Byte) /\ Len(c) < Base \div 2 /\ s \in Seq(Byte)
      BY <1>1, <1>2, <1>6
    <3> QED BY <3>1, <1>8, readIntAt
  <2>2. t = IF ShortFits(d)
            THEN Read(Fixed(d), 3 + h + Len(c) + HeadOf(form) + Len(d)) ELSE Fail
    BY <1>1, <1>2, <1>6, <1>9, readIntAt
  <2> QED BY <2>1, <2>2 DEF h
<1>11. readInt(s, readLength(s, 2).next) = r
  BY <1>7, ReadIs
<1> HIDE DEF r, t
<1>12. CASE ShortFits(c) /\ ShortFits(d)
  <2>1. r.ok /\ r.value = Fixed(c) /\ readInt(s, r.next) = t
    BY <1>10, <1>12, ReadIs DEF r, t
  <2>2. t.ok /\ t.value = Fixed(d) /\ t.next = 3 + h + Len(c) + h + Len(d)
    BY <1>10, <1>12, ReadIs
  <2>3. t.next = Len(s) + 1
    BY <1>1, <1>3, <1>4, <1>6, <2>2
  <2>4. /\ readLength(s, 2).ok
        /\ readLength(s, 2).next + readLength(s, 2).value - 1 = Len(s)
    <3>1. readLength(s, 2).ok /\ readLength(s, 2).next = 3 /\ readLength(s, 2).value = Len(a \o b)
      BY <1>7, ReadIs
    <3> QED BY <1>4, <1>6, <3>1
  <2>5. decodeDerSignatureToRaw(s) = Fixed(c) \o Fixed(d)
    BY <1>7, <1>11, <2>1, <2>2, <2>3, <2>4, Zenon DEF decodeDerSignatureToRaw
  <2> QED BY <1>6, <1>12, <2>5 DEF s
<1>13. CASE ~ShortFits(c)
  <2>1. ~r.ok
    BY <1>10, <1>13, ReadIs
  <2>2. decodeDerSignatureToRaw(s) = Error
    BY <1>11, <2>1, Zenon DEF decodeDerSignatureToRaw
  <2> QED BY <1>6, <1>13, <2>2 DEF s
<1>14. CASE ShortFits(c) /\ ~ShortFits(d)
  <2>1. readInt(s, r.next) = t /\ ~t.ok
    BY <1>10, <1>14, ReadIs DEF r, t
  <2>2. decodeDerSignatureToRaw(s) = Error
    BY <1>11, <2>1, Zenon DEF decodeDerSignatureToRaw
  <2> QED BY <1>6, <1>14, <2>2 DEF s
<1> QED BY <1>12, <1>13, <1>14

-----------------------------------------------------------------------------
(* encodeRawToDer.                                                         *)

(* The content that encodeInteger writes.                                  *)
Content(x) == IF High(Trimmed(x)[1]) THEN <<0>> \o Trimmed(x) ELSE Trimmed(x)

LEMMA PairIs ==
  ASSUME NEW u, NEW v
  PROVE  <<u>> \o <<v>> = <<u, v>>
<1> DEFINE S == {u, v}
           s == <<u>> \o <<v>>
<1>1. <<u>> \in Seq(S) /\ Len(<<u>>) = 1 /\ <<u>>[1] = u
  OBVIOUS
<1>2. <<v>> \in Seq(S) /\ Len(<<v>>) = 1 /\ <<v>>[1] = v
  OBVIOUS
<1>3. <<u, v>> \in Seq(S) /\ Len(<<u, v>>) = 2 /\ <<u, v>>[1] = u /\ <<u, v>>[2] = v
  OBVIOUS
<1> HIDE DEF S
<1>4. /\ s \in Seq(S) /\ Len(s) = Len(<<u>>) + Len(<<v>>)
      /\ \A i \in 1..(Len(<<u>>) + Len(<<v>>)) :
           s[i] = IF i <= Len(<<u>>) THEN <<u>>[i] ELSE <<v>>[i - Len(<<u>>)]
  BY <1>1, <1>2, ConcatProperties
<1> HIDE DEF s
<1>5. Len(s) = 2 /\ s[1] = u /\ s[2] = v
  BY <1>1, <1>2, <1>4
<1>6. \A i \in 1..Len(s) : s[i] = <<u, v>>[i]
  BY <1>3, <1>5
<1>7. s = <<u, v>>
  BY <1>3, <1>4, <1>5, <1>6, SeqEqual
<1> QED BY <1>7 DEF s

LEMMA ShortTlv ==
  ASSUME NEW tag, NEW c
  PROVE  Tlv(tag, FALSE, c) = <<tag, Len(c)>> \o c
<1>1. <<tag>> \o << >> = <<tag>>
  OBVIOUS
<1>2. <<tag>> \o <<Len(c)>> = <<tag, Len(c)>>
  BY PairIs
<1>3. Tlv(tag, FALSE, c) = <<tag>> \o << >> \o <<Len(c)>> \o c
  BY DEF Tlv
<1> QED BY <1>1, <1>2, <1>3, Zenon

LEMMA SubSeqIs ==
  ASSUME NEW S, NEW s \in Seq(S), NEW m \in Nat \ {0}, NEW n \in Nat, m <= n, n <= Len(s)
  PROVE  /\ SubSeq(s, m, n) \in Seq(S) /\ Len(SubSeq(s, m, n)) = n - m + 1
         /\ \A i \in 1..(n - m + 1) : SubSeq(s, m, n)[i] = s[m + i - 1]
<1>1. m \in Int /\ n \in Int /\ \A i \in m..n : s[i] \in S
  OBVIOUS
<1>2. /\ SubSeq(s, m, n) \in Seq(S)
      /\ Len(SubSeq(s, m, n)) = IF m <= n THEN n - m + 1 ELSE 0
      /\ \A i \in 1..(n - m + 1) : SubSeq(s, m, n)[i] = s[m + i - 1]
  BY <1>1, SubSeqProperties
<1> QED BY <1>2

LEMMA SignByte ==
  ASSUME DerCodecAssumption, NEW z \in Seq(Byte)
  PROVE  /\ <<0>> \o z \in Seq(Byte) /\ Len(<<0>> \o z) = Len(z) + 1
         /\ (<<0>> \o z)[1] = 0
         /\ \A i \in 2..(Len(z) + 1) : (<<0>> \o z)[i] = z[i - 1]
<1>1. <<0>> \in Seq(Byte) /\ Len(<<0>>) = 1 /\ <<0>>[1] = 0 /\ Len(z) \in Nat
  BY Widths
<1>2. /\ <<0>> \o z \in Seq(Byte) /\ Len(<<0>> \o z) = Len(<<0>>) + Len(z)
      /\ \A i \in 1..(Len(<<0>>) + Len(z)) :
           (<<0>> \o z)[i] = IF i <= Len(<<0>>) THEN <<0>>[i] ELSE z[i - Len(<<0>>)]
  BY <1>1, ConcatBytes
<1> QED BY <1>1, <1>2

LEMMA TrimmedIs ==
  ASSUME DerCodecAssumption, NEW x \in Seq(Byte), Len(x) = Width
  PROVE  \E start \in 1..Width :
           /\ \A j \in 1..(start - 1) : x[j] = 0
           /\ x[start] # 0 \/ start = Width
           /\ Trimmed(x) \in Seq(Byte) /\ Len(Trimmed(x)) = Width - start + 1
           /\ \A i \in 1..(Width - start + 1) : Trimmed(x)[i] = x[start + i - 1]
<1> DEFINE IsStart(i) == /\ \A j \in 1..(i - 1) : x[j] = 0
                         /\ x[i] # 0 \/ i = Width
           S == {i \in 1..Width : x[i] # 0 \/ i = Width}
           start == CHOOSE i \in 1..Width : IsStart(i)
<1>1. S \in SUBSET Nat /\ S # {}
  BY Widths
<1>2. PICK m \in S : \A k \in S : m <= k
  <2> HIDE DEF S
  <2> QED BY <1>1, Least
<1>3. IsStart(m) /\ m \in 1..Width
  BY <1>2, Widths
<1>4. start \in 1..Width /\ IsStart(start)
  <2> HIDE DEF IsStart
  <2> QED BY <1>3
<1>5. Trimmed(x) = SubSeq(x, start, Width)
  BY DEF Trimmed
<1> HIDE DEF start
<1>6. /\ SubSeq(x, start, Width) \in Seq(Byte)
      /\ Len(SubSeq(x, start, Width)) = Width - start + 1
      /\ \A i \in 1..(Width - start + 1) : SubSeq(x, start, Width)[i] = x[start + i - 1]
  <2>1. start \in Nat \ {0} /\ start <= Width
    BY <1>4, Widths
  <2> QED BY <2>1, SubSeqIs
<1>7. start <= Width
  BY <1>4
<1> QED BY <1>4, <1>5, <1>6, <1>7

(* What there is to know of the content of a component.                    *)
LEMMA ContentIs ==
  ASSUME DerCodecAssumption, NEW x \in Seq(Byte), Len(x) = Width
  PROVE  /\ Content(x) \in Seq(Byte) /\ ShortFits(Content(x))
         /\ Fixed(Content(x)) = x
         /\ encodeInteger(x) = Tlv(IntTag, FALSE, Content(x))
<1>0. Content(x) \in Seq(Byte) => encodeInteger(x) = Tlv(IntTag, FALSE, Content(x))
  <2>1. encodeInteger(x) = <<IntTag, Len(Content(x))>> \o Content(x)
    BY DEF encodeInteger, Content
  <2> QED BY <2>1, ShortTlv
<1>1. PICK start \in 1..Width :
        /\ \A j \in 1..(start - 1) : x[j] = 0
        /\ x[start] # 0 \/ start = Width
        /\ Trimmed(x) \in Seq(Byte) /\ Len(Trimmed(x)) = Width - start + 1
        /\ \A i \in 1..(Width - start + 1) : Trimmed(x)[i] = x[start + i - 1]
  BY TrimmedIs
<1>2. CASE ~High(Trimmed(x)[1])
  <2>1. Content(x) = Trimmed(x)
    BY <1>2 DEF Content
  <2>2. /\ Content(x) \in Seq(Byte) /\ Len(Content(x)) = Width - start + 1
        /\ Len(Content(x)) \in 1..Width /\ Width - Len(Content(x)) = start - 1
    BY <1>1, <2>1, Widths
  <2>3. ShortFits(Content(x))
    <3>1. Len(Content(x)) \in 1..(Width + 1) /\ Len(Content(x)) # Width + 1
      BY <2>2, Widths
    <3>2. ~High(Content(x)[1])
      BY <1>2, <2>1, Zenon
    <3> QED BY <3>1, <3>2, Zenon DEF ShortFits
  <2>4. /\ Fixed(Content(x)) \in Seq(Byte) /\ Len(Fixed(Content(x))) = Width
        /\ \A i \in 1..Width :
             Fixed(Content(x))[i] = IF i <= start - 1 THEN 0 ELSE Content(x)[i - (start - 1)]
    <3> DEFINE z == Content(x)
    <3>1. z \in Seq(Byte) /\ Len(z) \in 1..(Width + 1)
      BY <2>2, Widths
    <3> HIDE DEF z
    <3>2. /\ Fixed(z) \in Seq(Byte) /\ Len(Fixed(z)) = Width
          /\ \A i \in 1..Width :
               Fixed(z)[i] = IF i <= Width - Len(z) THEN 0 ELSE z[i - (Width - Len(z))]
      BY <3>1, FixedIs
    <3>3. Width - Len(z) = start - 1
      BY <2>2 DEF z
    <3> QED BY <3>2, <3>3, Zenon DEF z
  <2>5. ASSUME NEW i \in 1..Width PROVE Fixed(Content(x))[i] = x[i]
    <3>1. CASE i <= start - 1
      BY <1>1, <2>4, <3>1
    <3>2. CASE i > start - 1
      <4> DEFINE j == i - (start - 1)
      <4>1. j \in 1..(Width - start + 1) /\ start + j - 1 = i /\ ~(i <= start - 1)
        BY <3>2, Widths
      <4>2. Fixed(Content(x))[i] = Content(x)[j]
        BY <2>4, <4>1
      <4> HIDE DEF j
      <4> QED BY <1>1, <2>1, <4>1, <4>2
    <3> QED BY <3>1, <3>2, Widths
  <2>6. Fixed(Content(x)) = x
    BY <2>4, <2>5, SeqEqual
  <2> QED BY <1>0, <2>2, <2>3, <2>6
<1>3. CASE High(Trimmed(x)[1])
  <2>1. Content(x) = <<0>> \o Trimmed(x)
    BY <1>3 DEF Content
  <2>3. /\ Content(x) \in Seq(Byte) /\ Len(Content(x)) = Len(Trimmed(x)) + 1
        /\ Content(x)[1] = 0
        /\ \A i \in 2..(Len(Trimmed(x)) + 1) : Content(x)[i] = Trimmed(x)[i - 1]
    BY <1>1, <2>1, SignByte, Zenon
  <2>4. /\ Len(Content(x)) = Width - start + 2 /\ Len(Content(x)) \in 1..(Width + 1)
        /\ Width - Len(Content(x)) = start - 2
    BY <1>1, <2>3, Widths
  <2>5. Content(x)[1] = 0 /\ \A i \in 2..(Width - start + 2) : Content(x)[i] = x[start + i - 2]
    <3>2. ASSUME NEW i \in 2..(Width - start + 2) PROVE Content(x)[i] = x[start + i - 2]
      <4> DEFINE j == i - 1
      <4>1. /\ j \in 1..(Width - start + 1) /\ start + j - 1 = start + i - 2
            /\ i \in 2..(Len(Trimmed(x)) + 1)
        BY <1>1, Widths
      <4>2. Content(x)[i] = Trimmed(x)[j]
        BY <2>3, <4>1
      <4> HIDE DEF j
      <4>3. Trimmed(x)[j] = x[start + j - 1]
        BY <1>1, <4>1
      <4> QED BY <4>1, <4>2, <4>3
    <3> QED BY <2>3, <3>2
  <2>6. ShortFits(Content(x))
    <3>1. ~High(0)
      BY Widths DEF High
    <3> QED BY <2>4, <2>5, <3>1 DEF ShortFits
  <2>7. /\ Fixed(Content(x)) \in Seq(Byte) /\ Len(Fixed(Content(x))) = Width
        /\ \A i \in 1..Width :
             Fixed(Content(x))[i] = IF i <= start - 2 THEN 0 ELSE Content(x)[i - (start - 2)]
    <3> DEFINE z == Content(x)
    <3>1. z \in Seq(Byte) /\ Len(z) \in 1..(Width + 1)
      BY <2>3, <2>4
    <3> HIDE DEF z
    <3>2. /\ Fixed(z) \in Seq(Byte) /\ Len(Fixed(z)) = Width
          /\ \A i \in 1..Width :
               Fixed(z)[i] = IF i <= Width - Len(z) THEN 0 ELSE z[i - (Width - Len(z))]
      BY <3>1, FixedIs
    <3>3. Width - Len(z) = start - 2
      BY <2>4 DEF z
    <3> QED BY <3>2, <3>3, Zenon DEF z
  <2>8. ASSUME NEW i \in 1..Width PROVE Fixed(Content(x))[i] = x[i]
    <3>1. CASE i <= start - 2
      BY <1>1, <2>7, <3>1
    <3>2. CASE i = start - 1
      <4>1. i - (start - 2) = 1 /\ ~(i <= start - 2) /\ i \in 1..(start - 1)
        BY <3>2
      <4> QED BY <1>1, <2>5, <2>7, <4>1
    <3>3. CASE i > start - 1
      <4> DEFINE j == i - (start - 2)
      <4>1. j \in 2..(Width - start + 2) /\ start + j - 2 = i /\ ~(i <= start - 2)
        BY <3>3, Widths
      <4>2. Fixed(Content(x))[i] = Content(x)[j]
        BY <2>7, <4>1
      <4> HIDE DEF j
      <4> QED BY <2>5, <4>1, <4>2
    <3> QED BY <3>1, <3>2, <3>3, Widths
  <2>9. Fixed(Content(x)) = x
    BY <2>7, <2>8, SeqEqual
  <2> QED BY <1>0, <2>3, <2>6, <2>9
<1> QED BY <1>2, <1>3

(* The minimal content of a component is the only one.                     *)
LEMMA MinimalIsTheContent ==
  ASSUME DerCodecAssumption, NEW c \in Seq(Byte), ShortFits(c), Minimal(c)
  PROVE  Content(Fixed(c)) = c
<1> DEFINE x == Fixed(c)
<1>1. /\ Len(c) \in 1..(Width + 1) /\ ~High(c[1])
      /\ Len(c) = Width + 1 => c[1] = 0
  BY DEF ShortFits
<1>2. Len(c) > 1 => c[1] # 0 \/ High(c[2])
  BY DEF Minimal
<1>3. /\ x \in Seq(Byte) /\ Len(x) = Width
      /\ \A i \in 1..Width : x[i] = IF i <= Width - Len(c) THEN 0 ELSE c[i - (Width - Len(c))]
  BY <1>1, FixedIs
<1> HIDE DEF x
<1> DEFINE k == Width - Len(c)
<1>4. k \in Int /\ k >= -1 /\ k < Width /\ Len(c) = Width - k /\ Width \in Nat \ {0}
  BY <1>1, Widths
<1>5. ASSUME NEW i \in 1..Len(c), i + k \in 1..Width PROVE x[i + k] = c[i]
  <2> DEFINE j == i + k
  <2>1. j \in 1..Width /\ ~(j <= Width - Len(c)) /\ j - (Width - Len(c)) = i
    BY <1>4, <1>5
  <2> HIDE DEF j
  <2>2. x[j] = c[i]
    BY <1>3, <2>1
  <2> QED BY <2>2 DEF j
<1>6. \A i \in 1..Width : i <= k => x[i] = 0
  BY <1>3
<1>7. PICK start \in 1..Width :
        /\ \A j \in 1..(start - 1) : x[j] = 0
        /\ x[start] # 0 \/ start = Width
        /\ Trimmed(x) \in Seq(Byte) /\ Len(Trimmed(x)) = Width - start + 1
        /\ \A i \in 1..(Width - start + 1) : Trimmed(x)[i] = x[start + i - 1]
  BY <1>3, TrimmedIs
<1> HIDE DEF k
<1>8. ~High(0)
  BY Widths DEF High
(* The first byte that is not 0 is the only one with zeros before it.      *)
<1>9. ASSUME NEW f \in 1..Width, x[f] # 0 \/ f = Width, \A j \in 1..(f - 1) : x[j] = 0
      PROVE  start = f
  <2>1. CASE start < f
    <3>1. start \in 1..(f - 1) /\ start # Width
      BY <2>1, <1>4
    <3> QED BY <1>7, <1>9, <3>1
  <2>2. CASE start > f
    <3>1. f \in 1..(start - 1) /\ f # Width
      BY <2>2, <1>4
    <3> QED BY <1>7, <1>9, <3>1
  <2> QED BY <2>1, <2>2
<1>10. CASE c[1] # 0 \/ Len(c) = 1
  <2>1. k + 1 \in 1..Width /\ k >= 0 /\ 1 + k = k + 1 /\ 1 \in 1..Len(c)
    BY <1>1, <1>4, <1>10
  <2>2. x[k + 1] = c[1]
    BY <1>5, <2>1
  <2>3. x[k + 1] # 0 \/ k + 1 = Width
    BY <1>4, <1>10, <2>2
  <2>4. \A j \in 1..((k + 1) - 1) : x[j] = 0
    BY <1>4, <1>6
  <2>5. start = k + 1
    BY <1>9, <2>1, <2>3, <2>4
  <2>6. Len(Trimmed(x)) = Len(c)
    BY <1>4, <1>7, <2>5
  <2>7. ASSUME NEW i \in 1..Len(c) PROVE Trimmed(x)[i] = c[i]
    <3>1. i \in 1..(Width - start + 1) /\ start + i - 1 = i + k /\ i + k \in 1..Width
      BY <1>4, <2>1, <2>5
    <3> QED BY <1>5, <1>7, <3>1
  <2>8. Trimmed(x) = c
    BY <1>7, <2>6, <2>7, SeqEqual
  <2> QED BY <1>1, <2>8 DEF Content, x
<1>11. CASE c[1] = 0 /\ Len(c) > 1
  <2>1. High(c[2]) /\ c[2] # 0
    BY <1>2, <1>8, <1>11
  <2>2. 2 + k = k + 2 /\ k + 2 \in 1..Width /\ 2 \in 1..Len(c) /\ 1 \in 1..Len(c)
    BY <1>4, <1>11
  <2>3. x[k + 2] = c[2]
    BY <1>5, <2>2
  <2>4. ASSUME NEW j \in 1..((k + 2) - 1) PROVE x[j] = 0
    <3>1. CASE j <= k
      BY <1>4, <1>6, <2>2, <3>1
    <3>2. CASE j > k
      <4>1. j = 1 + k /\ 1 + k \in 1..Width
        BY <1>4, <2>2, <3>2
      <4> QED BY <1>5, <1>11, <2>2, <4>1
    <3> QED BY <1>4, <3>1, <3>2
  <2>5. start = k + 2
    BY <1>9, <2>1, <2>2, <2>3, <2>4
  <2>6. Len(Trimmed(x)) = Len(c) - 1
    BY <1>4, <1>7, <2>5
  <2>7. ASSUME NEW i \in 2..Len(c) PROVE Trimmed(x)[i - 1] = c[i]
    <3> DEFINE j == i - 1
    <3>1. /\ j \in 1..(Width - start + 1) /\ start + j - 1 = i + k /\ i + k \in 1..Width
          /\ i \in 1..Len(c)
      BY <1>4, <2>2, <2>5
    <3> HIDE DEF j
    <3>2. Trimmed(x)[j] = c[i]
      BY <1>5, <1>7, <3>1
    <3> QED BY <3>2 DEF j
  <2>8. High(Trimmed(x)[1])
    <3>1. 2 \in 2..Len(c) /\ 2 - 1 = 1
      BY <1>11, <2>2
    <3> QED BY <2>1, <2>7, <3>1
  <2>9. Content(x) = <<0>> \o Trimmed(x)
    BY <2>8 DEF Content
  <2>10. /\ Content(x) \in Seq(Byte) /\ Len(Content(x)) = Len(Trimmed(x)) + 1
         /\ Content(x)[1] = 0
         /\ \A i \in 2..(Len(Trimmed(x)) + 1) : Content(x)[i] = Trimmed(x)[i - 1]
    BY <1>7, <2>9, SignByte, Zenon
  <2>11. Len(Content(x)) = Len(c) /\ Len(Trimmed(x)) + 1 = Len(c)
    BY <1>1, <2>6, <2>10
  <2>12. ASSUME NEW i \in 1..Len(c) PROVE Content(x)[i] = c[i]
    <3>1. CASE i = 1
      BY <1>11, <2>10, <3>1
    <3>2. CASE i # 1
      <4>1. i \in 2..Len(c)
        BY <3>2
      <4> QED BY <2>7, <2>10, <2>11, <4>1
    <3> QED BY <3>1, <3>2
  <2>13. Content(x) = c
    BY <2>10, <2>11, <2>12, SeqEqual
  <2> QED BY <2>13 DEF x
<1>12. Len(c) = 1 \/ Len(c) > 1
  BY <1>1, <1>4
<1> QED BY <1>10, <1>11, <1>12
-----------------------------------------------------------------------------
(* encodeRawToDer after decodeDerSignatureToRaw.                           *)

(* A raw signature is its two halves, and nothing that is thrown.          *)
LEMMA Halves ==
  ASSUME DerCodecAssumption, NEW v \in Seq(Byte), NEW w \in Seq(Byte),
         Len(v) = Width, Len(w) = Width
  PROVE  /\ SubSeq(v \o w, 1, Width) = v
         /\ SubSeq(v \o w, Width + 1, 2 * Width) = w
         /\ v \o w # Error
<1> DEFINE s == v \o w
<1>1. /\ s \in Seq(Byte) /\ Len(s) = Len(v) + Len(w)
      /\ \A i \in 1..(Len(v) + Len(w)) : s[i] = IF i <= Len(v) THEN v[i] ELSE w[i - Len(v)]
  BY ConcatBytes
<1> HIDE DEF s
<1>2. Len(s) = 2 * Width /\ Width \in Nat \ {0}
  BY <1>1, Widths
<1>3. SubSeq(s, 1, Width) = v
  <2>1. /\ SubSeq(s, 1, Width) \in Seq(Byte) /\ Len(SubSeq(s, 1, Width)) = Width - 1 + 1
        /\ \A i \in 1..(Width - 1 + 1) : SubSeq(s, 1, Width)[i] = s[1 + i - 1]
    <3>1. 1 \in Nat \ {0} /\ Width \in Nat /\ 1 <= Width /\ Width <= Len(s)
      BY <1>2
    <3> QED BY <1>1, <3>1, SubSeqIs
  <2>2. ASSUME NEW i \in 1..Width PROVE SubSeq(s, 1, Width)[i] = v[i]
    <3>1. i \in 1..(Width - 1 + 1) /\ 1 + i - 1 = i /\ i \in 1..(Len(v) + Len(w)) /\ i <= Len(v)
      BY <1>2
    <3> QED BY <1>1, <2>1, <3>1
  <2>3. Len(SubSeq(s, 1, Width)) = Width
    BY <1>2, <2>1
  <2> QED BY <2>1, <2>2, <2>3, SeqEqual
<1>4. SubSeq(s, Width + 1, 2 * Width) = w
  <2> DEFINE t == SubSeq(s, Width + 1, 2 * Width)
  <2>1. /\ t \in Seq(Byte) /\ Len(t) = 2 * Width - (Width + 1) + 1
        /\ \A i \in 1..(2 * Width - (Width + 1) + 1) : t[i] = s[Width + 1 + i - 1]
    <3>1. /\ Width + 1 \in Nat \ {0} /\ 2 * Width \in Nat /\ Width + 1 <= 2 * Width
          /\ 2 * Width <= Len(s)
      BY <1>2
    <3> QED BY <1>1, <3>1, SubSeqIs
  <2> HIDE DEF t
  <2>2. ASSUME NEW i \in 1..Width PROVE t[i] = w[i]
    <3> DEFINE j == Width + 1 + i - 1
    <3>1. /\ i \in 1..(2 * Width - (Width + 1) + 1) /\ j \in 1..(Len(v) + Len(w))
          /\ ~(j <= Len(v)) /\ j - Len(v) = i
      BY <1>2
    <3>2. t[i] = s[j]
      BY <2>1, <3>1
    <3> HIDE DEF j
    <3> QED BY <1>1, <3>1, <3>2
  <2>3. Len(t) = Width
    <3>1. 2 * Width - (Width + 1) + 1 = Width
      BY Widths
    <3> QED BY <2>1, <3>1
  <2>4. t = w
    BY <2>1, <2>2, <2>3, SeqEqual
  <2> QED BY <2>4 DEF t
<1>5. s # Error
  <2>1. s \in [1..(2 * Width) -> Byte]
    BY <1>1, <1>2
  <2> QED BY <2>1 DEF DerCodecAssumption
<1> QED BY <1>3, <1>4, <1>5 DEF s

LEMMA Encoded ==
  ASSUME DerCodecAssumption, NEW v \in Seq(Byte), NEW w \in Seq(Byte),
         Len(v) = Width, Len(w) = Width
  PROVE  encodeRawToDer(v \o w) = Signature(FALSE, Content(v), Content(w))
<1> DEFINE body == encodeInteger(SubSeq(v \o w, 1, Width))
                     \o encodeInteger(SubSeq(v \o w, Width + 1, 2 * Width))
<1>1. encodeRawToDer(v \o w) = <<SeqTag, Len(body)>> \o body
  BY DEF encodeRawToDer
<1>2. body = Tlv(IntTag, FALSE, Content(v)) \o Tlv(IntTag, FALSE, Content(w))
  BY Halves, ContentIs, Zenon
<1> HIDE DEF body
<1>3. encodeRawToDer(v \o w) = Tlv(SeqTag, FALSE, body)
  BY <1>1, ShortTlv
<1> QED BY <1>2, <1>3 DEF Signature

(* What was decoded comes back from its encoding.                          *)
LEMMA RoundTrip ==
  ASSUME DerCodecAssumption, NEW v \in Seq(Byte), NEW w \in Seq(Byte),
         Len(v) = Width, Len(w) = Width
  PROVE  decodeDerSignatureToRaw(encodeRawToDer(v \o w)) = v \o w
<1>1. /\ Content(v) \in Seq(Byte) /\ ShortFits(Content(v)) /\ Fixed(Content(v)) = v
      /\ Content(w) \in Seq(Byte) /\ ShortFits(Content(w)) /\ Fixed(Content(w)) = w
  BY ContentIs
<1>2. Len(Content(v)) <= Width + 1 /\ Len(Content(w)) <= Width + 1
  BY <1>1 DEF ShortFits
<1>3. decodeDerSignatureToRaw(Signature(FALSE, Content(v), Content(w))) =
        IF ShortFits(Content(v)) /\ ShortFits(Content(w))
        THEN Fixed(Content(v)) \o Fixed(Content(w)) ELSE Error
  BY <1>1, <1>2, SignatureDecoded
<1> QED BY <1>1, <1>3, Encoded, Zenon
-----------------------------------------------------------------------------
(* The answers of KMS are bytes.                                           *)

LEMMA TlvType ==
  ASSUME DerCodecAssumption, NEW tag \in Byte, NEW long \in BOOLEAN,
         NEW c \in Seq(Byte), Len(c) < Base
  PROVE  /\ Tlv(tag, long, c) \in Seq(Byte)
         /\ Len(Tlv(tag, long, c)) \in Len(c) + 2 .. Len(c) + 3
<1>1. /\ Tlv(tag, long, c) \in Seq(Byte)
      /\ Len(Tlv(tag, long, c)) = HeadOf(long) + Len(c)
  BY TlvIs
<1>2. HeadOf(long) \in {2, 3} /\ Len(c) \in Nat
  BY DEF HeadOf
<1> QED BY <1>1, <1>2

LEMMA ConcatType ==
  ASSUME NEW a \in Seq(Byte), NEW b \in Seq(Byte)
  PROVE  a \o b \in Seq(Byte) /\ Len(a \o b) = Len(a) + Len(b)
OBVIOUS

LEMMA BodyIsShort ==
  ASSUME DerCodecAssumption, NEW i \in Nat, NEW j \in Nat, NEW k \in Nat, NEW l \in Nat,
         2 * (i + 3) < Base \div 2, 2 * (j + 3) < Base \div 2, k <= i + 3, l <= j + 3
  PROVE  k + l < Base \div 2 /\ k + l < Base
<1>1. k + l < Base \div 2
  BY Widths
<1> QED BY <1>1, Widths

LEMMA AnswerType ==
  ASSUME DerCodecAssumption, NEW c \in Contents, NEW d \in Contents, NEW form \in BOOLEAN
  PROVE  /\ Signature(form, c, d) \in Seq(Byte)
         /\ Signature(form, c, d) # << >>
<1>1. /\ c \in Seq(Byte) /\ d \in Seq(Byte) /\ Len(c) < Base /\ Len(d) < Base
      /\ 2 * (Len(c) + 3) < Base \div 2 /\ 2 * (Len(d) + 3) < Base \div 2
  BY Widths DEF DerCodecAssumption
<1> DEFINE a == Tlv(IntTag, form, c)
           b == Tlv(IntTag, form, d)
<1>2. /\ a \in Seq(Byte) /\ Len(a) \in Len(c) + 2 .. Len(c) + 3
      /\ b \in Seq(Byte) /\ Len(b) \in Len(d) + 2 .. Len(d) + 3
  BY <1>1, TlvType, Widths
<1> HIDE DEF a, b
<1>3. a \o b \in Seq(Byte) /\ Len(a \o b) = Len(a) + Len(b)
  BY <1>2, ConcatType
<1>4. Len(a \o b) < Base
  <2>1. /\ Len(a) \in Nat /\ Len(b) \in Nat /\ Len(c) \in Nat /\ Len(d) \in Nat
        /\ Len(a) <= Len(c) + 3 /\ Len(b) <= Len(d) + 3
    <3>1. Len(a) \in Nat /\ Len(b) \in Nat /\ Len(c) \in Nat /\ Len(d) \in Nat
      BY <1>1, <1>2
    <3> QED BY <1>2, <3>1
  <2>2. Len(a) + Len(b) < Base
    BY <1>1, <2>1, BodyIsShort
  <2> QED BY <1>3, <2>2
<1>5. FALSE \in BOOLEAN
  OBVIOUS
<1>6. /\ Tlv(SeqTag, FALSE, a \o b) \in Seq(Byte)
      /\ Len(Tlv(SeqTag, FALSE, a \o b)) \in Len(a \o b) + 2 .. Len(a \o b) + 3
  BY <1>3, <1>4, <1>5, TlvType, Widths, Zenon
<1>7. Tlv(SeqTag, FALSE, a \o b) # << >>
  <2> DEFINE s == Tlv(SeqTag, FALSE, a \o b)
  <2>1. s \in Seq(Byte) /\ Len(s) \in Len(a \o b) + 2 .. Len(a \o b) + 3
    BY <1>6
  <2>2. Len(a \o b) \in Nat
    BY <1>3
  <2> HIDE DEF s
  <2>3. s # << >>
    BY <2>1, <2>2
  <2> QED BY <2>3 DEF s
<1> QED BY <1>6, <1>7 DEF Signature, a, b

LEMMA DamagedType ==
  ASSUME DerCodecAssumption, NEW c \in Contents, NEW s \in Damaged(c)
  PROVE  s \in Seq(Byte)
<1>1. c \in Seq(Byte) /\ Len(c) < Base /\ Len(c) \in Nat /\ 2 * (Len(c) + 3) < Base \div 2
  BY Widths DEF DerCodecAssumption
<1> DEFINE a == Tlv(IntTag, FALSE, c)
           long == Tlv(IntTag, TRUE, c)
           foreign == Tlv(SeqTag, FALSE, c)
           sig == Signature(FALSE, c, c)
<1>2. FALSE \in BOOLEAN /\ TRUE \in BOOLEAN /\ IntTag \in Byte /\ SeqTag \in Byte
  BY Widths
<1>3. /\ a \in Seq(Byte) /\ Len(a) \in Len(c) + 2 .. Len(c) + 3
      /\ long \in Seq(Byte) /\ Len(long) \in Len(c) + 2 .. Len(c) + 3
      /\ foreign \in Seq(Byte) /\ Len(foreign) \in Len(c) + 2 .. Len(c) + 3
  BY <1>1, <1>2, TlvType, Zenon
<1>4. sig \in Seq(Byte) /\ sig # << >>
  BY <1>2, AnswerType, Zenon
<1>5. s \in {Tlv(SeqTag, TRUE, a \o long), Tlv(IntTag, FALSE, a \o a),
             Tlv(SeqTag, FALSE, a \o foreign), Tlv(SeqTag, FALSE, a),
             Tlv(SeqTag, FALSE, a \o a \o <<0>>), sig \o <<0>>, Front(sig)}
  BY Zenon DEF Damaged
<1> HIDE DEF a, long, foreign, sig
<1>6. <<0>> \in Seq(Byte) /\ Len(<<0>>) = 1
  BY Widths
<1>7. ASSUME NEW x \in Seq(Byte), NEW y \in Seq(Byte),
             Len(x) <= Len(c) + 3, Len(y) <= Len(c) + 3
      PROVE  x \o y \in Seq(Byte) /\ Len(x \o y) <= 2 * Len(c) + 6 /\ Len(x \o y) < Base
  <2>1. x \o y \in Seq(Byte) /\ Len(x \o y) = Len(x) + Len(y)
    BY ConcatType
  <2>2. Len(x) \in Nat /\ Len(y) \in Nat /\ Len(x) + Len(y) <= 2 * Len(c) + 6
    <3>1. Len(x) \in Nat /\ Len(y) \in Nat /\ Len(c) \in Nat
      BY <1>1, <1>7
    <3>2. Len(x) <= Len(c) + 3 /\ Len(y) <= Len(c) + 3
      BY <1>7
    <3> QED BY <3>1, <3>2
  <2>3. Len(x) + Len(y) < Base
    BY <1>1, <1>7, <2>2, BodyIsShort
  <2> QED BY <2>1, <2>2, <2>3
<1>8. Len(a) <= Len(c) + 3 /\ Len(long) <= Len(c) + 3 /\ Len(foreign) <= Len(c) + 3
  BY <1>1, <1>3
<1>9. CASE s = Tlv(SeqTag, TRUE, a \o long)
  BY <1>2, <1>3, <1>7, <1>8, <1>9, TlvType, Zenon
<1>10. CASE s = Tlv(IntTag, FALSE, a \o a)
  BY <1>2, <1>3, <1>7, <1>8, <1>10, TlvType, Zenon
<1>11. CASE s = Tlv(SeqTag, FALSE, a \o foreign)
  BY <1>2, <1>3, <1>7, <1>8, <1>11, TlvType, Zenon
<1>12. CASE s = Tlv(SeqTag, FALSE, a)
  <2>1. Len(a) < Base
    BY <1>1, <1>3, <1>8, Widths
  <2> QED BY <1>2, <1>3, <1>12, <2>1, TlvType, Zenon
<1>13. CASE s = Tlv(SeqTag, FALSE, a \o a \o <<0>>)
  <2> DEFINE aa == a \o a
  <2>1. aa \in Seq(Byte) /\ Len(aa) <= 2 * Len(c) + 6
    BY <1>3, <1>7, <1>8, Zenon
  <2> HIDE DEF aa
  <2>2. aa \o <<0>> \in Seq(Byte) /\ Len(aa \o <<0>>) = Len(aa) + 1
    BY <1>6, <2>1, ConcatType
  <2>3. Len(aa \o <<0>>) < Base
    BY <1>1, <2>1, <2>2, Widths
  <2> HIDE DEF aa
  <2>4. s = Tlv(SeqTag, FALSE, aa \o <<0>>)
    BY <1>13, Zenon DEF aa
  <2> QED BY <1>2, <2>2, <2>3, <2>4, TlvType, Zenon
<1>14. CASE s = sig \o <<0>>
  BY <1>4, <1>6, <1>14, ConcatType, Zenon
<1>15. CASE s = Front(sig)
  <2>1. Front(sig) = SubSeq(sig, 1, Len(sig) - 1)
    BY DEF Front
  <2>2. 1 \in Int /\ Len(sig) - 1 \in Int /\ \A i \in 1..(Len(sig) - 1) : sig[i] \in Byte
    BY <1>4
  <2>3. SubSeq(sig, 1, Len(sig) - 1) \in Seq(Byte)
    BY <2>2, SubSeqProperties
  <2> QED BY <1>15, <2>1, <2>3, Zenon
<1> QED BY <1>5, <1>9, <1>10, <1>11, <1>12, <1>13, <1>14, <1>15

-----------------------------------------------------------------------------
(* The inductive invariant: what is stored was decoded from what KMS       *)
(* answered, and what is sent was encoded from what is stored.             *)

DerTypeOK ==
  /\ der \in Seq(Byte)
  /\ \/ numbers = << >>
     \/ \E c, d \in Contents, form \in BOOLEAN :
          numbers = <<c, d>> /\ der = Signature(form, c, d)
DerInv ==
  /\ DerTypeOK
  /\ raw = << >> \/ raw = decodeDerSignatureToRaw(der)
  /\ again = << >> \/ (raw \notin {<< >>, Error} /\ again = encodeRawToDer(raw))

LEMMA DerInitInv == ASSUME DerCodecAssumption PROVE DerInit => DerInv
<1> SUFFICES ASSUME DerInit PROVE DerInv
  OBVIOUS
<1>1. CASE \E c, d \in Contents, form \in BOOLEAN :
             der = Signature(form, c, d) /\ numbers = <<c, d>>
  BY <1>1, AnswerType DEF DerInit, DerInv, DerTypeOK
<1>2. CASE \E c \in Contents : der \in Damaged(c) /\ numbers = << >>
  BY <1>2, DamagedType DEF DerInit, DerInv, DerTypeOK
<1> QED BY <1>1, <1>2 DEF DerInit

LEMMA DerNextInv == DerInv /\ [DerNext]_derVars => DerInv'
<1> SUFFICES ASSUME DerInv, [DerNext]_derVars PROVE DerInv'
  OBVIOUS
<1>1. CASE Store
  BY <1>1 DEF Store, DerInv, DerTypeOK
<1>2. CASE Present
  BY <1>2 DEF Present, DerInv, DerTypeOK
<1>3. CASE UNCHANGED derVars
  BY <1>3 DEF derVars, DerInv, DerTypeOK
<1> QED BY <1>1, <1>2, <1>3 DEF DerNext

(* The invariant says what the two properties say.                         *)
LEMMA StoredFromInv == ASSUME DerCodecAssumption, DerInv PROVE StoredAreTheNumbers
<1> SUFFICES ASSUME raw # << >>, numbers # << >>
             PROVE  IF Fits(numbers[1]) /\ Fits(numbers[2])
                    THEN /\ raw # Error
                         /\ Number(SubSeq(raw, 1, Width)) = Number(numbers[1])
                         /\ Number(SubSeq(raw, Width + 1, 2 * Width)) = Number(numbers[2])
                    ELSE raw = Error
  BY Zenon DEF StoredAreTheNumbers
<1>1. PICK c, d \in Contents, form \in BOOLEAN :
        numbers = <<c, d>> /\ der = Signature(form, c, d)
  BY DEF DerInv, DerTypeOK
<1>2. SmallEnough(c) /\ SmallEnough(d) /\ c \in Seq(Byte) /\ d \in Seq(Byte)
  BY DEF DerCodecAssumption, SmallEnough
<1>3. raw = IF ShortFits(c) /\ ShortFits(d) THEN Fixed(c) \o Fixed(d) ELSE Error
  <2>1. raw = decodeDerSignatureToRaw(Signature(form, c, d))
    BY <1>1, Zenon DEF DerInv
  <2> QED BY <1>2, <2>1, SignatureDecoded, Zenon
<1>4. numbers[1] = c /\ numbers[2] = d
  BY <1>1
<1>5. (Fits(c) <=> ShortFits(c)) /\ (Fits(d) <=> ShortFits(d))
  BY <1>2, FitsIsShortFits
<1>6. CASE ShortFits(c) /\ ShortFits(d)
  <2>1. raw = Fixed(c) \o Fixed(d)
    BY <1>3, <1>6, Zenon
  <2>2. /\ Fixed(c) \in Seq(Byte) /\ Len(Fixed(c)) = Width
        /\ Fixed(d) \in Seq(Byte) /\ Len(Fixed(d)) = Width
    BY <1>2, <1>6, FixedIs DEF ShortFits
  <2>3. /\ raw # Error /\ SubSeq(raw, 1, Width) = Fixed(c)
        /\ SubSeq(raw, Width + 1, 2 * Width) = Fixed(d)
    BY <2>1, <2>2, Halves, Zenon
  <2>4. Number(Fixed(c)) = Number(c) /\ Number(Fixed(d)) = Number(d)
    BY <1>2, <1>6, FixedIsTheNumber
  <2> QED BY <1>4, <1>5, <1>6, <2>3, <2>4, Zenon
<1>7. CASE ~(ShortFits(c) /\ ShortFits(d))
  BY <1>3, <1>4, <1>5, <1>7, Zenon
<1> QED BY <1>6, <1>7

LEMMA VerifyFromInv == ASSUME DerCodecAssumption, DerInv PROVE VerifySendsTheSignature
<1> SUFFICES ASSUME again # << >>
             PROVE  /\ decodeDerSignatureToRaw(again) = raw
                    /\ numbers # << >> /\ Minimal(numbers[1]) /\ Minimal(numbers[2]) =>
                         again = Signature(FALSE, numbers[1], numbers[2])
  BY Zenon DEF VerifySendsTheSignature
<1>1. /\ raw # << >> /\ raw # Error /\ again = encodeRawToDer(raw)
      /\ raw = decodeDerSignatureToRaw(der) /\ der \in Seq(Byte)
  BY DEF DerInv, DerTypeOK
<1>2. PICK v, w \in Seq(Byte) : Len(v) = Width /\ Len(w) = Width /\ raw = v \o w
  BY <1>1, DecodedType
<1>3. decodeDerSignatureToRaw(again) = raw
  BY <1>1, <1>2, RoundTrip, Zenon
<1>4. ASSUME numbers # << >>, Minimal(numbers[1]), Minimal(numbers[2])
      PROVE  again = Signature(FALSE, numbers[1], numbers[2])
  <2>1. PICK c, d \in Contents, form \in BOOLEAN :
          numbers = <<c, d>> /\ der = Signature(form, c, d)
    BY <1>4 DEF DerInv, DerTypeOK
  <2>2. SmallEnough(c) /\ SmallEnough(d) /\ c \in Seq(Byte) /\ d \in Seq(Byte)
    BY DEF DerCodecAssumption, SmallEnough
  <2>3. numbers[1] = c /\ numbers[2] = d
    BY <2>1
  <2>4. raw = IF ShortFits(c) /\ ShortFits(d) THEN Fixed(c) \o Fixed(d) ELSE Error
    BY <1>1, <2>1, <2>2, SignatureDecoded, Zenon
  <2>5. ShortFits(c) /\ ShortFits(d) /\ raw = Fixed(c) \o Fixed(d)
    BY <1>1, <2>4, Zenon
  <2>6. /\ Fixed(c) \in Seq(Byte) /\ Len(Fixed(c)) = Width
        /\ Fixed(d) \in Seq(Byte) /\ Len(Fixed(d)) = Width
    BY <2>2, <2>5, FixedIs DEF ShortFits
  <2>7. again = Signature(FALSE, Content(Fixed(c)), Content(Fixed(d)))
    BY <1>1, <2>5, <2>6, Encoded, Zenon
  <2>8. Content(Fixed(c)) = c /\ Content(Fixed(d)) = d
    BY <1>4, <2>2, <2>3, <2>5, MinimalIsTheContent, Zenon
  <2> QED BY <2>3, <2>7, <2>8, Zenon
<1> QED BY <1>3, <1>4, Zenon

THEOREM DerInvariant == DerSpec => []DerInv
<1>1. DerInit => DerInv
  BY DerCodecAssumption, DerInitInv
<1>2. DerInv /\ [DerNext]_derVars => DerInv'
  BY DerNextInv
<1> QED BY <1>1, <1>2, PTL DEF DerSpec

(* An answer of KMS is stored as the two numbers it spells, whatever the   *)
(* width of a component, or thrown away because one of them does not fit.  *)
THEOREM NumbersAreStored == DerSpec => []StoredAreTheNumbers
<1>1. DerInv => StoredAreTheNumbers
  BY DerCodecAssumption, StoredFromInv
<1> QED BY <1>1, DerInvariant, PTL

(* Verify sends DER that decodes to what is stored, and the very bytes     *)
(* that KMS gave if KMS wrote DER.                                         *)
THEOREM SignaturesAreSent == DerSpec => []VerifySendsTheSignature
<1>1. DerInv => VerifySendsTheSignature
  BY DerCodecAssumption, VerifyFromInv
<1> QED BY <1>1, DerInvariant, PTL
=============================================================================
