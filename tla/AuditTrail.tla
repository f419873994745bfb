----------------------------- MODULE AuditTrail -----------------------------
(* AuditManager over its signing provider: lib/audit-manager.js with
   lib/aws-kms-provider.js or lib/local-ecdsa-provider.js and the checks of
   lib/signing-contract.js.  Every await is a step of its own.  The KMS provider
   addresses its key by an alias, which operators may point at another key at
   any time, and checks the key's spec once, with the public key it caches.  The
   ledger is the one of SigningLedger: an append that fails may be in it. *)
EXTENDS Naturals

CONSTANTS Procs,       \* the calls open at one time
          Providers,   \* those a program may be set up with, "kms" and "local"
          Keys,        \* the physical keys
          Secp256k1,   \* those on the curve secp256k1; the others also take ECDSA_SHA_256
          Evidences,   \* evidence records
          TooLarge,    \* those over MAX_KMS_RAW_MESSAGE_BYTES
          Malformed,   \* a signature that is no 64-byte Buffer
          Alias,       \* KMS_KEY_ID
          None,
          MaxCalls     \* bound: calls

ASSUME AuditTrailAssumption ==
  /\ Providers \subseteq {"kms", "local"}
  /\ Secp256k1 \subseteq Keys
  /\ TooLarge \subseteq Evidences
  /\ None \notin Keys \cup {Malformed}
  /\ Malformed \notin [evidence : Evidences, key : Keys]

VARIABLES provider, \* the signing provider of this program
          alias,    \* the key the alias points at
          cached,   \* _cachedPublicKey; None while _verifiedKeySpec is null
          made,     \* the signatures made so far: evidence and key
          ledger,   \* the events of signAndRecord and verifyAndRecord
          proc,     \* the calls
          calls     \* calls begun

vars == <<provider, alias, cached, made, ledger, proc, calls>>

Idle == [pc |-> "idle", op |-> None, evidence |-> None, signature |-> None, key |-> None,
         outcome |-> None, recordSuccess |-> FALSE, call |-> 0]
Exit(p) == proc' = [proc EXCEPT ![p] = Idle]

Init ==
  /\ provider \in Providers
  /\ alias \in Secp256k1
  /\ cached = None
  /\ made = {}
  /\ ledger = {}
  /\ proc = [p \in Procs |-> Idle]
  /\ calls = 0

-----------------------------------------------------------------------------
(* signAndRecord and verifyAndRecord up to the provider's call.  A local key is
   given with the call; a key of the wrong curve is refused. *)

Usable(p) ==
  /\ provider = "kms" => proc[p].evidence \notin TooLarge
  /\ provider = "local" => proc[p].key \in Secp256k1

Call(p) ==
  /\ proc[p].pc = "idle" /\ calls < MaxCalls
  /\ calls' = calls + 1
  /\ \E e \in Evidences, k \in IF provider = "local" THEN Keys ELSE {None} :
       \/ proc' = [proc EXCEPT ![p] = [Idle EXCEPT !.pc = "provider", !.op = "sign",
                                         !.evidence = e, !.key = k, !.call = calls']]
       \/ \E sig \in made \cup {Malformed}, record \in BOOLEAN :
            proc' = [proc EXCEPT ![p] = [Idle EXCEPT !.pc = "provider", !.op = "verify",
                                           !.evidence = e, !.signature = sig, !.key = k,
                                           !.recordSuccess = record, !.call = calls']]
  /\ UNCHANGED <<provider, alias, cached, made, ledger>>

\* Mutant: a verification that throws is not recorded.
ShouldRecordVerdict(outcome, recordSuccess) == outcome = "invalid" \/ recordSuccess
ShouldRecord(outcome, recordSuccess) == outcome # "valid" \/ recordSuccess

\* The provider has answered a verification, with the key it names.
Verdict(p, outcome, key) ==
  proc' = [proc EXCEPT ![p].outcome = outcome, ![p].key = key,
             ![p].pc = IF ShouldRecord(outcome, proc[p].recordSuccess)
                       THEN "append" ELSE "returned"]

\* The provider throws: signAndRecord passes it on, verifyAndRecord records it.
Throws(p) == IF proc[p].op = "sign" THEN Exit(p) ELSE Verdict(p, "error", None)

Signs(p, key) ==
  LET sig == [evidence |-> proc[p].evidence, key |-> key]
  IN /\ made' = made \cup {sig}
     /\ proc' = [proc EXCEPT ![p].pc = "append", ![p].outcome = "signed",
                             ![p].signature = sig, ![p].key = key]

-----------------------------------------------------------------------------
(* AwsKmsProvider. *)

\* Checks before any request; _ensureKeySpecVerified when it has nothing to do.
Prepare(p) ==
  /\ provider = "kms" /\ proc[p].pc = "provider"
  /\ IF ~Usable(p) THEN Throws(p)
     ELSE IF proc[p].signature = Malformed THEN Verdict(p, "invalid", Alias)
     ELSE proc' = [proc EXCEPT ![p].pc = IF cached = None THEN "key" ELSE "kms"]
  /\ UNCHANGED <<provider, alias, cached, made, ledger, calls>>

\* Mutant: the key's spec is checked and not remembered.
GetPublicKeyUncached(p) ==
  /\ proc[p].pc = "key"
  /\ IF alias \in Secp256k1
     THEN cached' = cached /\ proc' = [proc EXCEPT ![p].pc = "kms"]
     ELSE cached' = cached /\ Throws(p)
  /\ UNCHANGED <<provider, alias, made, ledger, calls>>

GetPublicKey(p) ==
  /\ proc[p].pc = "key"
  /\ IF alias \in Secp256k1
     THEN cached' = alias /\ proc' = [proc EXCEPT ![p].pc = "kms"]
     ELSE cached' = cached /\ Throws(p)
  /\ UNCHANGED <<provider, alias, made, ledger, calls>>

\* Mutant: the record names the key of the cache.
KmsSignNamingCached(p) ==
  /\ proc[p].pc = "kms" /\ proc[p].op = "sign"
  /\ LET sig == [evidence |-> proc[p].evidence, key |-> alias]
     IN /\ made' = made \cup {sig}
        /\ proc' = [proc EXCEPT ![p].pc = "append", ![p].outcome = "signed",
                                ![p].signature = sig, ![p].key = cached]
  /\ UNCHANGED <<provider, alias, cached, ledger, calls>>

\* KMS resolves the alias now and names the physical key in its answer.
KmsSign(p) ==
  /\ proc[p].pc = "kms" /\ proc[p].op = "sign"
  /\ Signs(p, alias)
  /\ UNCHANGED <<provider, alias, cached, ledger, calls>>

KmsVerify(p) ==
  /\ proc[p].pc = "kms" /\ proc[p].op = "verify"
  /\ IF proc[p].signature = [evidence |-> proc[p].evidence, key |-> alias]
     THEN Verdict(p, "valid", alias)
     ELSE Verdict(p, "invalid", Alias)
  /\ UNCHANGED <<provider, alias, cached, made, ledger, calls>>

KmsFails(p) ==
  /\ proc[p].pc \in {"key", "kms"}
  /\ Throws(p)
  /\ UNCHANGED <<provider, alias, cached, made, ledger, calls>>

-----------------------------------------------------------------------------
(* LocalEcdsaProvider: synchronous, the caller's key. *)

LocalSign(p) ==
  /\ provider = "local" /\ proc[p].pc = "provider" /\ proc[p].op = "sign"
  /\ IF Usable(p) THEN Signs(p, proc[p].key) ELSE made' = made /\ Throws(p)
  /\ UNCHANGED <<provider, alias, cached, ledger, calls>>

LocalVerify(p) ==
  /\ provider = "local" /\ proc[p].pc = "provider" /\ proc[p].op = "verify"
  /\ CASE proc[p].signature = Malformed -> Verdict(p, "invalid", proc[p].key)
       [] proc[p].signature # Malformed /\ ~Usable(p) -> Throws(p)
       [] OTHER -> Verdict(p, IF proc[p].signature = [evidence |-> proc[p].evidence,
                                                      key |-> proc[p].key]
                              THEN "valid" ELSE "invalid", proc[p].key)
  /\ UNCHANGED <<provider, alias, cached, made, ledger, calls>>

-----------------------------------------------------------------------------
(* The append, its failure and the retry with err.signResult. *)

EventType(outcome) ==
  CASE outcome = "signed" -> "evidence.signed"
    [] outcome = "valid" -> "evidence.verified"
    [] outcome = "invalid" -> "evidence.tamper_detected"
    [] outcome = "error" -> "evidence.verification_error"

Event(p) ==
  [eventType |-> EventType(proc[p].outcome), evidence |-> proc[p].evidence,
   signature |-> proc[p].signature, call |-> proc[p].call,
   key |-> IF provider = "kms" THEN proc[p].key ELSE None]

AppendEvent(p) ==
  /\ proc[p].pc \in {"append", "thrown"}
  /\ ledger' = ledger \cup {Event(p)}
  /\ proc' = [proc EXCEPT ![p].pc = "returned"]
  /\ UNCHANGED <<provider, alias, cached, made, calls>>

\* AuditLedgerWriteError: with a reply lost the event may be in the ledger.
AppendFails(p) ==
  /\ proc[p].pc = "append"
  /\ ledger' \in {ledger, ledger \cup {Event(p)}}
  /\ proc' = [proc EXCEPT ![p].pc = "thrown"]
  /\ UNCHANGED <<provider, alias, cached, made, calls>>

\* The caller goes on, with a result or without recording it.
End(p) ==
  /\ proc[p].pc \in {"returned", "thrown"}
  /\ Exit(p)
  /\ UNCHANGED <<provider, alias, cached, made, ledger, calls>>

\* Operators rotate the key; KMS wants the same key usage, not the same curve.
UpdateAlias ==
  /\ \E k \in Keys \ {alias} : alias' = k
  /\ UNCHANGED <<provider, cached, made, ledger, proc, calls>>

\* The program starts again with a new provider.
Restart ==
  /\ cached' = None
  /\ proc' = [p \in Procs |-> Idle]
  /\ UNCHANGED <<provider, alias, made, ledger, calls>>

Next ==
  \/ \E p \in Procs :
       \/ Call(p) \/ Prepare(p) \/ GetPublicKey(p) \/ KmsSign(p) \/ KmsVerify(p) \/ KmsFails(p)
       \/ LocalSign(p) \/ LocalVerify(p) \/ AppendEvent(p) \/ AppendFails(p) \/ End(p)
  \/ UpdateAlias \/ Restart

Spec == Init /\ [][Next]_vars

-----------------------------------------------------------------------------
(* Properties. *)

\* The types of the variables.
TypeOK ==
  /\ provider \in Providers
  /\ alias \in Keys /\ cached \in Keys \cup {None}
  /\ made \subseteq [evidence : Evidences, key : Keys]
  /\ \A e \in ledger : e.evidence \in Evidences /\ e.call \in 1..calls
  /\ \A p \in Procs :
       /\ proc[p].pc \in {"idle", "provider", "key", "kms", "append", "thrown", "returned"}
       /\ proc[p].pc = "kms" => cached # None

\* The ledger names the key that made a signature or that it was verified with,
\* although the alias may move between the key check, the signature and the
\* record (resolvedKeyId, lib/aws-kms-provider.js:303).
SignerIsOnRecord ==
  \A e \in ledger :
    e.eventType \in {"evidence.signed", "evidence.verified"} =>
      /\ e.signature \in made /\ e.signature.evidence = e.evidence
      /\ provider = "kms" => e.signature.key = e.key

\* A verification that did not find the signature valid never returns to its
\* caller without an event: not when the provider throws, not when the append
\* failed before (verifyAndRecord, lib/audit-manager.js:34 "ALWAYS recorded").
VerdictIsRecorded ==
  \A p \in Procs :
    proc[p].pc = "returned" /\ proc[p].op = "verify" /\ proc[p].outcome # "valid" =>
      \E e \in ledger : e.call = proc[p].call
                        /\ e.eventType \in {"evidence.tamper_detected", "evidence.verification_error"}

\* lib/aws-kms-provider.js:222-224 says the KeySpec check keeps a key of another
\* curve from being used.
SignedOnTheCurve == \A sig \in made : sig.key \in Secp256k1

\* lib/audit-manager.js:114 says tamper_detected is the case where the signature
\* is clearly invalid, to be counted as a real change of the evidence.
TamperMeansTampered ==
  \A e \in ledger :
    e.eventType = "evidence.tamper_detected" => e.signature = Malformed \/ e.signature.evidence # e.evidence
=============================================================================
