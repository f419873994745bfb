--------------------------- MODULE VerifiedAnchor ---------------------------
(***************************************************************************)
(* VerifiedAnchorService.anchorVerifiedEvidence                            *)
(* (lib/verified-anchor-service.js) called concurrently, with the ledger   *)
(* verifier it asks (lib/internal-ledger-verifier.js), the client it       *)
(* sends transactions through (scripts/anchor-evidence.js) and the         *)
(* contract (contracts/TrustAnchor.sol).                                   *)
(*                                                                         *)
(* A call gates its input, confirms it in the internal ledger, reads the   *)
(* contract, sends a transaction and waits for the receipt.  Between any   *)
(* two of these the ledger may grow or be damaged (LedgerDamage) and other *)
(* transactions may be mined: those of other callers, and those of any     *)
(* other account, for the contract asks nobody who they are.  A            *)
(* transaction may be accepted though its sender got an error, may be      *)
(* dropped, and may be mined after its sender gave up.  Mined blocks are   *)
(* final.                                                                  *)
(***************************************************************************)
EXTENDS HashChain, Integers

CONSTANTS
  Callers,
  EvidenceIds,
  Digests,      \* digests of evidence documents
  ZeroDigest,   \* the digest the contract refuses
  Keys,         \* key ids a sidecar may name
  TrustedKeys,  \* key ids the TrustedKeyResolver has a public key for
  MaxEvents,    \* bound on the ledger rows
  MaxDamage,    \* bound on the damages to the ledger
  MaxSequence,  \* bound on the ledger's sequence numbers
  MaxTxs        \* bound on the transactions sent

ASSUME KeysAssumption   == TrustedKeys \subseteq Keys
ASSUME DigestAssumption == ZeroDigest \in Digests
ASSUME BoundsAssumption == {MaxEvents, MaxDamage, MaxSequence, MaxTxs} \subseteq Nat

VARIABLES
  rows, appended, forged, damages,  \* the ledger, see LedgerDamage
  pc,         \* pc[w]: the await at which caller w stands
  request,    \* request[w]: what w was called with
  error,      \* error[w]: how w's last call failed
  accepted,   \* accepted[w]: the transaction the node accepted in w's last call, or 0
  mempool,    \* transactions accepted and not mined: [n, by, request]
  mined,      \* transactions mined: [tx, status]
  anchoredAt, \* the contract's mapping: the block time, 0 if not anchored
  sent,       \* how many transactions were accepted, or sent by other accounts
  results     \* what successful calls returned: [tx, request]

ledgerVars == <<rows, appended, forged, damages>>
chainVars  == <<mempool, mined, anchoredAt, sent>>
callerVars == <<pc, request, error, accepted>>
vars == <<ledgerVars, callerVars, chainVars, results>>

(* What a ledger event records, as far as the verifier looks.              *)
EventBodies ==
  [type : {"evidence.stored", "other"}, evidenceId : EvidenceIds, digest : Digests]

L == INSTANCE LedgerDamage WITH Bodies <- EventBodies, Texts <- {}

(* The sidecar is a record; signatureValid says whether its signature      *)
(* verifies under the public key registered for keyId.  document is the    *)
(* digest computed afresh from the evidence.                               *)
Sidecar  == [evidenceId : EvidenceIds, digest : Digests, keyId : Keys,
             signatureValid : BOOLEAN]
Requests == [document : Digests, sidecar : Sidecar,
             ledgerEventId : (1 - MaxDamage) .. MaxEvents]

Errors == {"none", "UNTRUSTED_SIGNING_KEY", "VERIFICATION_NOT_APPROVED",
           "ZERO_ANCHOR_DIGEST", "INTERNAL_LEDGER_NOT_CONFIRMED",
           "DIGEST_ALREADY_ANCHORED", "WEB3_ANCHOR_FAILED"}

Txs == [n : 1 .. MaxTxs, by : Callers, request : Requests]

TypeOK ==
  /\ L!TypeOK
  /\ pc \in [Callers -> {"idle", "ledger", "read", "submit", "wait"}]
  /\ \A w \in Callers : pc[w] # "idle" => request[w] \in Requests
  /\ error \in [Callers -> Errors]
  /\ accepted \in [Callers -> 0 .. MaxTxs]
  /\ mempool \in SUBSET Txs
  /\ mined \in SUBSET [tx : Txs, status : BOOLEAN]
  /\ anchoredAt \in [Digests -> 0 .. MaxTxs]
  /\ sent \in 0 .. MaxTxs
  /\ results \in SUBSET [tx : Txs, request : Requests]

NoRequest == [document |-> ZeroDigest]

Init ==
  /\ L!Init
  /\ pc = [w \in Callers |-> "idle"]
  /\ request = [w \in Callers |-> NoRequest]
  /\ error = [w \in Callers |-> "none"]
  /\ accepted = [w \in Callers |-> 0]
  /\ mempool = {} /\ mined = {} /\ results = {}
  /\ anchoredAt = [d \in Digests |-> 0]
  /\ sent = 0

-----------------------------------------------------------------------------
Goto(w, label) == pc' = [pc EXCEPT ![w] = label]

End(w) ==
  /\ Goto(w, "idle")
  /\ request' = [request EXCEPT ![w] = NoRequest]

(* A plausible bug in place of Throw: a class of failure of its own.       *)
ThrowUnclassified(w, code) ==
  /\ End(w)
  /\ error' = [error EXCEPT ![w] = "UNKNOWN"]

Throw(w, code) ==
  /\ End(w)
  /\ error' = [error EXCEPT ![w] = code]

(* Plausible bugs, each in place of the definition named in the comment,   *)
(* to see that the properties notice them.                                 *)

(* Confirmed: the event is looked up and the chain verdict ignored.        *)
ConfirmedUnverified(r) ==
  \E row \in rows :
    /\ row.content.eventId = r.ledgerEventId
    /\ row.content.body.type = "evidence.stored"
    /\ row.content.body.evidenceId = r.sidecar.evidenceId
    /\ row.content.body.digest = r.document

(* Mine: the contract does not require anchoredAt[hash] == 0.              *)
MineAgain(tx) ==
  /\ mempool' = mempool \ {tx}
  /\ mined' = mined \cup {[tx |-> tx, status |-> tx.request.document # ZeroDigest]}
  /\ anchoredAt' = [anchoredAt EXCEPT ![tx.request.document] = tx.n]
  /\ UNCHANGED <<ledgerVars, callerVars, sent, results>>

(* ReceiptOk: wait() resolves once the transaction is in a block, with     *)
(* whatever status.                                                        *)
ReceiptInBlock(w) ==
  /\ pc[w] = "wait"
  /\ \E r \in mined :
       /\ r.tx.n = accepted[w]
       /\ results' = results \cup {[tx |-> r.tx, request |-> request[w]]}
  /\ End(w)
  /\ UNCHANGED <<ledgerVars, error, accepted, chainVars>>

-----------------------------------------------------------------------------
(* The checks before the first await on shared state, in their order: the  *)
(* key, the digest and the signature, the digest's value.  All they read   *)
(* is the request and the resolver's fixed map.                            *)
GateCode(r) ==
  IF r.sidecar.keyId \notin TrustedKeys
  THEN "UNTRUSTED_SIGNING_KEY"
  ELSE IF r.document # r.sidecar.digest \/ ~r.sidecar.signatureValid
  THEN "VERIFICATION_NOT_APPROVED"
  ELSE IF r.document = ZeroDigest
  THEN "ZERO_ANCHOR_DIGEST"
  ELSE "none"

Gate(w, r) ==
  /\ pc[w] = "idle"
  /\ accepted' = [accepted EXCEPT ![w] = 0]
  /\ \/ /\ GateCode(r) = "none"
        /\ request' = [request EXCEPT ![w] = r]
        /\ error' = [error EXCEPT ![w] = "none"]
        /\ Goto(w, "ledger")
     \/ GateCode(r) # "none" /\ Throw(w, GateCode(r))
  /\ UNCHANGED <<ledgerVars, chainVars, results>>

(* PgInternalLedgerVerifier.verifyRecordedEvidence, from one query result. *)
Confirmed(r) ==
  LET found == verifyChainIntegrityAndGetEvent(rows, r.ledgerEventId)
  IN  /\ found.integrity.valid
      /\ \E row \in found.event :
           /\ row.content.body.type = "evidence.stored"
           /\ row.content.body.evidenceId = r.sidecar.evidenceId
           /\ row.content.body.digest = r.document

ConfirmInLedger(w) ==
  /\ pc[w] = "ledger"
  /\ \/ Confirmed(request[w]) /\ Goto(w, "read") /\ UNCHANGED <<request, error>>
     \/ ~Confirmed(request[w]) /\ Throw(w, "INTERNAL_LEDGER_NOT_CONFIRMED")
  /\ UNCHANGED <<ledgerVars, chainVars, accepted, results>>

LedgerQueryFails(w) ==
  /\ pc[w] = "ledger"
  /\ Throw(w, "INTERNAL_LEDGER_NOT_CONFIRMED")
  /\ UNCHANGED <<ledgerVars, chainVars, accepted, results>>

ReadAnchorState(w) ==
  /\ pc[w] = "read"
  /\ \/ anchoredAt[request[w].document] = 0 /\ Goto(w, "submit")
        /\ UNCHANGED <<request, error>>
     \/ anchoredAt[request[w].document] # 0 /\ Throw(w, "DIGEST_ALREADY_ANCHORED")
  /\ UNCHANGED <<ledgerVars, chainVars, accepted, results>>

(* The client simulates the call before it sends the transaction: a        *)
(* contract that reverts there gives the reason "Already anchored".        *)
SubmitReverts(w) ==
  /\ pc[w] = "submit"
  /\ anchoredAt[request[w].document] # 0
  /\ Throw(w, "DIGEST_ALREADY_ANCHORED")
  /\ UNCHANGED <<ledgerVars, chainVars, accepted, results>>

Accept(w) ==
  /\ sent < MaxTxs
  /\ sent' = sent + 1
  /\ accepted' = [accepted EXCEPT ![w] = sent + 1]
  /\ mempool' = mempool \cup {[n |-> sent + 1, by |-> w, request |-> request[w]]}
  /\ UNCHANGED <<mined, anchoredAt>>

Submit(w) ==
  /\ pc[w] = "submit"
  /\ anchoredAt[request[w].document] = 0
  /\ Accept(w)
  /\ Goto(w, "wait")
  /\ UNCHANGED <<ledgerVars, request, error, results>>

(* An RPC error on reading or sending; the node may have accepted a        *)
(* transaction it gave no answer for.                                      *)
RpcFails(w) ==
  /\ pc[w] \in {"read", "submit"}
  /\ \/ pc[w] = "submit" /\ Accept(w)
     \/ UNCHANGED <<chainVars, accepted>>
  /\ Throw(w, "WEB3_ANCHOR_FAILED")
  /\ UNCHANGED <<ledgerVars, results>>

-----------------------------------------------------------------------------
(* TrustAnchor.anchor, executed when the transaction is mined; the mined   *)
(* transaction's number stands for the block time.                         *)
Mine(tx) ==
  LET digest == tx.request.document
      ok     == digest # ZeroDigest /\ anchoredAt[digest] = 0
  IN  /\ mempool' = mempool \ {tx}
      /\ mined' = mined \cup {[tx |-> tx, status |-> ok]}
      /\ anchoredAt' = IF ok THEN [anchoredAt EXCEPT ![digest] = tx.n] ELSE anchoredAt
      /\ UNCHANGED <<ledgerVars, callerVars, sent, results>>

(* anchor() is external and asks for no permission: a transaction of any   *)
(* other account, for any digest.  One that reverts changes nothing.       *)
MineForeign(digest) ==
  /\ sent < MaxTxs
  /\ digest # ZeroDigest /\ anchoredAt[digest] = 0
  /\ sent' = sent + 1
  /\ anchoredAt' = [anchoredAt EXCEPT ![digest] = sent + 1]
  /\ UNCHANGED <<ledgerVars, callerVars, mempool, mined, results>>

DropTx(tx) ==
  /\ mempool' = mempool \ {tx}
  /\ UNCHANGED <<ledgerVars, callerVars, mined, anchoredAt, sent, results>>

(* wait() resolves: the result is checked and returned.                    *)
ReceiptOk(w) ==
  /\ pc[w] = "wait"
  /\ \E r \in mined :
       /\ r.tx.n = accepted[w] /\ r.status
       /\ results' = results \cup {[tx |-> r.tx, request |-> request[w]]}
  /\ End(w)
  /\ UNCHANGED <<ledgerVars, error, accepted, chainVars>>

(* wait() rejects: the transaction was mined and reverted (the error then  *)
(* has no reason), its receipt is malformed, or the node is unreachable.   *)
ReceiptFails(w) ==
  /\ pc[w] = "wait"
  /\ Throw(w, "WEB3_ANCHOR_FAILED")
  /\ UNCHANGED <<ledgerVars, accepted, chainVars, results>>

LedgerStep ==
  /\ L!Next
  /\ UNCHANGED <<callerVars, chainVars, results>>

(* What a call does after its gate, await by await.                        *)
Proceed(w) ==
  \/ ConfirmInLedger(w) \/ LedgerQueryFails(w) \/ ReadAnchorState(w)
  \/ SubmitReverts(w) \/ Submit(w) \/ RpcFails(w)
  \/ ReceiptOk(w) \/ ReceiptFails(w)

ChainStep ==
  \/ \E tx \in mempool : Mine(tx) \/ DropTx(tx)
  \/ \E digest \in Digests : MineForeign(digest)

Next ==
  \/ LedgerStep
  \/ \E w \in Callers, r \in Requests : Gate(w, r)
  \/ \E w \in Callers : Proceed(w)
  \/ ChainStep

Spec == Init /\ [][Next]_vars

-----------------------------------------------------------------------------
(* Properties.                                                             *)

(* The service sends nothing but evidence that passed the gate, whatever   *)
(* happened to the ledger before or since: its sidecar is signed under a   *)
(* trusted key, and an evidence.stored event for this very evidence and    *)
(* digest, under the id the caller named, was given to the ledger or       *)
(* hashed outside the program.                                             *)
Recorded(content) ==
  \/ \E q \in appended : q.content = content
  \/ \E h \in forged : h[Len(h)] = content

Backed(r) ==
  /\ r.sidecar.keyId \in TrustedKeys
  /\ r.sidecar.signatureValid
  /\ r.sidecar.digest = r.document
  /\ Recorded([eventId |-> r.ledgerEventId,
               body    |-> [type       |-> "evidence.stored",
                            evidenceId |-> r.sidecar.evidenceId,
                            digest     |-> r.document]])

SentIsBacked == \A tx \in mempool \cup {m.tx : m \in mined} : Backed(tx.request)

(* A call that returned was answered by the transaction that anchored its  *)
(* digest, whose time stands ever after, and no other call returned for    *)
(* the same digest.                                                        *)
OneResultPerDigest ==
  /\ \A r \in results : /\ r.request = r.tx.request
                        /\ anchoredAt[r.request.document] = r.tx.n
  /\ \A r, s \in results : r.request.document = s.request.document => r = s

(* To its callers the contract is a map that is written once, however many *)
(* of them race and whichever of their transactions are lost, late or      *)
(* refused: a digest gets one time, and a call that returned was told it.  *)
Anchored == {d \in Digests : anchoredAt[d] # 0}

AnchorMap == INSTANCE WriteOnce
               WITH entries <- {[key |-> d, value |-> anchoredAt[d]] : d \in Anchored},
                    answers <- {[key |-> r.request.document, value |-> r.tx.n] : r \in results}

ImplementsWriteOnce == AnchorMap!Spec

(* AnchorTransactionError: "Verified digest could not be anchored."        *)
AnchorErrorMeansNotAnchored ==
  \A w \in Callers : error[w] = "WEB3_ANCHOR_FAILED" =>
    \A m \in mined : m.tx.n = accepted[w] => ~m.status
=============================================================================
