------------------------ MODULE VerifiedAnchorProofs ------------------------
(***************************************************************************)
(* Proofs about VerifiedAnchor, for any number of callers, keys, digests,  *)
(* ledger rows, damages and transactions.                                  *)
(*                                                                         *)
(* The ledger's part of the invariant is the one of LedgerDamageProofs,    *)
(* for the bodies this module records, none of them a string of JSON text. *)
(***************************************************************************)
EXTENDS VerifiedAnchor, SequenceTheorems, TLAPS

LP == INSTANCE LedgerDamageProofs WITH Bodies <- EventBodies, Texts <- {}

-----------------------------------------------------------------------------
(* The inductive invariant.                                                *)

AllTxs == mempool \cup {m.tx : m \in mined}

(* What a caller has passed on its way: the gate, the ledger; and from the *)
(* submission on, the one transaction of its number is its own.            *)
CallInv(w) ==
  /\ pc[w] # "idle" => GateCode(request[w]) = "none"
  /\ pc[w] \in {"read", "submit", "wait"} => Backed(request[w])
  /\ pc[w] = "wait" =>
       /\ accepted[w] \in 1 .. sent
       /\ \A tx \in AllTxs : tx.n = accepted[w] => tx.request = request[w]

(* Transactions are numbered as they are accepted, and mined once.         *)
TxInv ==
  /\ \A tx \in AllTxs : tx.n <= sent
  /\ \A t, u \in AllTxs : t.n = u.n => t = u
  /\ \A m \in mined : m.tx \notin mempool
  /\ \A m, k \in mined : m.tx = k.tx => m = k

(* The contract's mapping and the receipts tell the same.                  *)
ReceiptInv == \A m \in mined : m.status => anchoredAt[m.tx.request.document] = m.tx.n

ResultInv ==
  \A r \in results : /\ r.request = r.tx.request
                     /\ \E m \in mined : m.tx = r.tx /\ m.status

IInv ==
  /\ LP!IInv
  /\ TypeOK
  /\ request \in [Callers -> Requests \cup {NoRequest}]
  /\ \A w \in Callers : CallInv(w)
  /\ TxInv
  /\ SentIsBacked
  /\ ReceiptInv
  /\ ResultInv

-----------------------------------------------------------------------------
(* Facts about the ledger.                                                 *)

(* The assumptions of LedgerDamage hold of the instance.                   *)
LEMMA LedgerAssumptions == LP!TextsAssumption /\ LP!BoundsAssumption
BY BoundsAssumption DEF LP!TextsAssumption, LP!BoundsAssumption

(* The ledger that VerifiedAnchor steps is the one of LedgerDamageProofs.  *)
LEMMA SameLedger ==
  /\ L!Init <=> LP!Init
  /\ L!Next <=> LP!Next
  /\ L!TypeOK <=> LP!TypeOK
  /\ Faulty(rows) = LP!Faulty(rows)
<1>1. \A S : L!Cardinality(S) = LP!Cardinality(S)
  BY DEF L!Cardinality, LP!Cardinality
<1>2. L!LastHash(rows) = LP!LastHash(rows)
  BY DEF L!LastHash, LP!LastHash, L!LastRow, LP!LastRow, L!GENESIS_HASH, LP!GENESIS_HASH
<1>3. \A c, h : L!computeRowHash(c, h) = LP!computeRowHash(c, h)
  BY DEF L!computeRowHash, LP!computeRowHash
<1>4. L!FreeNumbers = LP!FreeNumbers /\ L!Drawn = LP!Drawn
  BY <1>1 DEF L!FreeNumbers, LP!FreeNumbers, L!Drawn, LP!Drawn
<1>5. L!FreeIds = LP!FreeIds /\ L!OnRecord = LP!OnRecord
  BY <1>4 DEF L!FreeIds, LP!FreeIds, L!OnRecord, LP!OnRecord, L!GENESIS_HASH, LP!GENESIS_HASH
<1>6. \A body \in EventBodies : L!AppendRow(body) <=> LP!AppendRow(body)
  <2>1. \A body, n : L!AppendAs(body, n) <=> LP!AppendAs(body, n)
    BY <1>2, <1>3, <1>4 DEF L!AppendAs, LP!AppendAs, L!Jsonb, LP!Jsonb
  <2> QED BY <1>4, <2>1 DEF L!AppendRow, LP!AppendRow
<1>7. /\ \A r \in rows : L!Lose(r) <=> LP!Lose(r)
      /\ L!Forge <=> LP!Forge
  <2>1. \A r \in rows : L!Lose(r) <=> LP!Lose(r)
    BY DEF L!Lose, LP!Lose, L!Damage, LP!Damage
  <2>2. \A content, h, n : L!PutIn(content, h, n) <=> LP!PutIn(content, h, n)
    BY <1>3 DEF L!PutIn, LP!PutIn
  <2>3. L!Forge <=> LP!Forge
    BY <1>4, <1>5, <2>2 DEF L!Forge, LP!Forge, L!Damage, LP!Damage
  <2> QED BY <2>1, <2>3
<1>8. \A r \in rows : L!Change(r) <=> LP!Change(r)
  BY <1>4, <1>5 DEF L!Change, LP!Change, L!Damage, LP!Damage
<1>9. L!Next <=> LP!Next
  BY <1>6, <1>7, <1>8 DEF L!Next, LP!Next
<1>10. L!Init <=> LP!Init
  BY DEF L!Init, LP!Init
<1>11. L!TypeOK <=> LP!TypeOK
  BY DEF L!TypeOK, LP!TypeOK, L!Row, LP!Row, L!Content, LP!Content
<1>12. Faulty(rows) = LP!Faulty(rows)
  BY DEF Faulty, LP!Faulty, LinkBroken, LP!LinkBroken, ContentChanged, LP!ContentChanged,
         LastHash, LP!LastHash, LastRow, LP!LastRow, Earlier, LP!Earlier,
         GENESIS_HASH, LP!GENESIS_HASH, computeRowHash, LP!computeRowHash
<1> QED BY <1>9, <1>10, <1>11, <1>12

(* A step of the ledger keeps the ledger's invariant.                      *)
LEMMA LedgerNext == LP!IInv /\ L!Next => LP!IInv'
BY LP!NextIInv, LedgerAssumptions, SameLedger

(* A step of another part does too.                                        *)
LEMMA LedgerRests == LP!IInv /\ UNCHANGED ledgerVars => LP!IInv'
BY LP!NextIInv, LedgerAssumptions DEF LP!vars, ledgerVars

(* What was appended, and what was hashed outside, stays on record.        *)
RecordKept == appended \subseteq appended' /\ forged \subseteq forged'

LEMMA RecordGrows ==
  ASSUME LedgerStep
  PROVE  RecordKept
BY DEF RecordKept, LedgerStep, L!Next, L!AppendRow, L!AppendAs, L!Lose, L!Change, L!Forge, L!PutIn, L!Damage

(* What is backed by the record stays backed.                              *)
LEMMA BackedStays ==
  ASSUME RecordKept, NEW r, Backed(r)
  PROVE  Backed(r)'
BY DEF RecordKept, Backed, Recorded

(* verifyRecordedEvidence: an event found in a ledger judged valid was     *)
(* appended with the content it has, or its hash was computed outside.     *)
LEMMA ConfirmedIsBacked ==
  ASSUME LP!IInv, NEW r \in Requests, GateCode(r) = "none", Confirmed(r)
  PROVE  Backed(r)
<1>1. LP!Faulty(rows) = {}
  <2>1. Faulty(rows) = {}
    BY DEF Confirmed, verifyChainIntegrityAndGetEvent, verifySigningEventRows
  <2> QED BY <2>1, SameLedger
<1>2. ASSUME NEW row \in rows PROVE Recorded(row.content)
  <2>1. row.rowHash \in forged \/ \E q \in appended : LP!WrittenAs(row, q)
    BY <1>1, LP!FaultlessIsGenuine, LedgerAssumptions
  <2>2. CASE row.rowHash \in forged
    <3>1. row.rowHash = Append(row.previousHash, row.content)
      BY <1>1 DEF LP!Faulty, LP!ContentChanged, LP!computeRowHash
    <3>2. row.previousHash \in Seq(LP!Content) /\ row.content \in LP!Content
      BY DEF LP!IInv, LP!TypeOK, LP!Row
    <3>3. row.rowHash[Len(row.rowHash)] = row.content
      BY <3>1, <3>2, AppendProperties
    <3> QED BY <2>2, <3>3 DEF Recorded
  <2>3. CASE \E q \in appended : LP!WrittenAs(row, q)
    BY <2>3 DEF LP!WrittenAs, Recorded
  <2> QED BY <2>1, <2>2, <2>3
<1>4. PICK row \in rows : /\ row.content.eventId = r.ledgerEventId
                          /\ row.content.body.type = "evidence.stored"
                          /\ row.content.body.evidenceId = r.sidecar.evidenceId
                          /\ row.content.body.digest = r.document
  BY DEF Confirmed, verifyChainIntegrityAndGetEvent
<1>5. row.content.body \in EventBodies
  BY DEF LP!IInv, LP!TypeOK, LP!Row, LP!Content
<1>6. row.content = [eventId |-> r.ledgerEventId,
                     body    |-> [type       |-> "evidence.stored",
                                  evidenceId |-> r.sidecar.evidenceId,
                                  digest     |-> r.document]]
  <2>1. row.content \in LP!Content
    BY DEF LP!IInv, LP!TypeOK, LP!Row
  <2> QED BY <1>4, <1>5, <2>1 DEF EventBodies, LP!Content
<1>7. r.sidecar.keyId \in TrustedKeys /\ r.sidecar.signatureValid
      /\ r.sidecar.digest = r.document
  <2>1. r.sidecar.signatureValid \in BOOLEAN
    BY DEF Requests, Sidecar
  <2> QED BY <2>1 DEF GateCode
<1> QED BY <1>2, <1>6, <1>7 DEF Backed, Recorded

-----------------------------------------------------------------------------
(* Steps of a caller that only reads the ledger and the chain.             *)

PCs == {"idle", "ledger", "read", "submit", "wait"}

(* The type invariant's part about callers, with what no call asks.        *)
CallTypes ==
  /\ pc \in [Callers -> PCs]
  /\ request \in [Callers -> Requests \cup {NoRequest}]
  /\ \A w \in Callers : pc[w] # "idle" => request[w] \in Requests
  /\ error \in [Callers -> Errors]
  /\ accepted \in [Callers -> 0 .. MaxTxs]

(* Of a caller that a step does not touch, what it has passed stays true:  *)
(* new transactions have new numbers.                                      *)
LEMMA OthersKeep ==
  ASSUME NEW v \in Callers, CallInv(v), sent \in Nat, sent' \in Nat,
         UNCHANGED <<pc[v], request[v], accepted[v]>>,
         RecordKept, sent <= sent',
         \A tx \in AllTxs' : tx \in AllTxs \/ tx.n = sent + 1
  PROVE  CallInv(v)'
<1>1. pc[v]' # "idle" => GateCode(request[v]')= "none"
  BY DEF CallInv
<1>2. pc[v]' \in {"read", "submit", "wait"} => Backed(request[v])'
  BY DEF RecordKept, CallInv, Backed, Recorded
<1>3. ASSUME pc[v]' = "wait"
      PROVE  /\ accepted[v]' \in 1 .. sent'
             /\ \A tx \in AllTxs' : tx.n = accepted[v]' => tx.request = request[v]'
  <2>1. accepted[v] \in 1 .. sent /\ accepted[v] # sent + 1
    BY <1>3 DEF CallInv
  <2>2. \A tx \in AllTxs : tx.n = accepted[v] => tx.request = request[v]
    BY <1>3 DEF CallInv
  <2>3. accepted[v] \in 1 .. sent'
    BY <2>1
  <2> QED BY <2>1, <2>2, <2>3
<1> QED BY <1>1, <1>2, <1>3 DEF CallInv, GateCode

(* A step that leaves the ledger, the chain and the results needs only to  *)
(* keep its own caller's part.                                             *)
LEMMA ReadingStep ==
  ASSUME IInv, NEW w \in Callers, UNCHANGED <<ledgerVars, chainVars, results>>,
         CallTypes', CallInv(w)',
         \A v \in Callers \ {w} : UNCHANGED <<pc[v], request[v], accepted[v]>>
  PROVE  IInv'
<1>1. LP!IInv'
  BY LedgerRests DEF IInv
<1>2. TypeOK'
  <2>1. (L!TypeOK)'
    BY DEF IInv, TypeOK, L!TypeOK, ledgerVars
  <2> QED BY <2>1 DEF IInv, TypeOK, CallTypes, PCs, chainVars
<1>3. \A v \in Callers \ {w} : CallInv(v)'
  <2>1. sent \in Nat
    BY DEF IInv, TypeOK
  <2>2. AllTxs' = AllTxs /\ RecordKept /\ sent' = sent
    BY DEF AllTxs, RecordKept, ledgerVars, chainVars
  <2> QED BY <2>1, <2>2, OthersKeep DEF IInv
<1>4. TxInv' /\ ReceiptInv' /\ ResultInv'
  BY DEF IInv, TxInv, ReceiptInv, ResultInv, AllTxs, chainVars
<1>5. SentIsBacked'
  BY DEF IInv, SentIsBacked, Backed, Recorded, chainVars, ledgerVars
<1> QED BY <1>1, <1>2, <1>3, <1>4, <1>5 DEF IInv, CallTypes

(* A call that ends is no more bound to anything.                          *)
LEMMA ThrowStep ==
  ASSUME IInv, NEW w \in Callers, NEW code \in Errors, Throw(w, code),
         UNCHANGED <<ledgerVars, chainVars, results>>,
         accepted' \in [Callers -> 0 .. MaxTxs],
         \A v \in Callers \ {w} : accepted'[v] = accepted[v]
  PROVE  IInv'
<1>1. CallTypes'
  BY DEF IInv, TypeOK, CallTypes, PCs, Throw, End, Goto, Errors
<1>2. CallInv(w)'
  BY DEF IInv, TypeOK, CallInv, Throw, End, Goto
<1>3. \A v \in Callers \ {w} : UNCHANGED <<pc[v], request[v], accepted[v]>>
  BY DEF IInv, TypeOK, Throw, End, Goto
<1> QED BY <1>1, <1>2, <1>3, ReadingStep

(* The gate either ends the call or passes it on.                          *)
LEMMA GateStep ==
  ASSUME IInv, NEW w \in Callers, NEW r \in Requests, Gate(w, r)
  PROVE  IInv'
<1>1. /\ accepted' = [accepted EXCEPT ![w] = 0]
      /\ UNCHANGED <<ledgerVars, chainVars, results>>
  BY DEF Gate
<1>2. accepted' \in [Callers -> 0 .. MaxTxs]
  BY <1>1, BoundsAssumption DEF IInv, TypeOK
<1>3. CASE GateCode(r) # "none" /\ Throw(w, GateCode(r))
  <2>1. GateCode(r) \in Errors
    BY DEF GateCode, Errors
  <2> QED BY <1>1, <1>2, <1>3, <2>1, ThrowStep DEF IInv, TypeOK
<1>4. CASE /\ GateCode(r) = "none"
           /\ request' = [request EXCEPT ![w] = r]
           /\ error' = [error EXCEPT ![w] = "none"]
           /\ Goto(w, "ledger")
  <2>1. CallTypes'
    BY <1>2, <1>4 DEF IInv, TypeOK, CallTypes, PCs, Goto, Errors
  <2>2. CallInv(w)'
    <3>1. pc'[w] = "ledger" /\ request'[w] = r
      BY <1>4 DEF IInv, TypeOK, Goto
    <3> QED BY <1>4, <3>1 DEF CallInv, GateCode
  <2>3. \A v \in Callers \ {w} : UNCHANGED <<pc[v], request[v], accepted[v]>>
    BY <1>1, <1>4 DEF IInv, TypeOK, Goto
  <2> QED BY <1>1, <2>1, <2>2, <2>3, ReadingStep
<1> QED BY <1>3, <1>4 DEF Gate

(* A step from one await to the next that only reads.                      *)
LEMMA GotoStep ==
  ASSUME IInv, NEW w \in Callers, NEW label \in {"read", "submit"}, Goto(w, label),
         pc[w] # "idle", Backed(request[w]),
         UNCHANGED <<request, error, accepted, ledgerVars, chainVars, results>>
  PROVE  IInv'
<1>1. pc' = [pc EXCEPT ![w] = label] /\ pc'[w] = label
  BY DEF IInv, TypeOK, Goto
<1>2. CallTypes'
  BY <1>1 DEF IInv, TypeOK, CallTypes, PCs
<1>3. CallInv(w)'
  <2>1. GateCode(request[w]) = "none"
    BY DEF IInv, CallInv
  <2>2. Backed(request[w])'
    BY DEF Backed, Recorded, ledgerVars
  <2> QED BY <1>1, <2>1, <2>2 DEF CallInv, GateCode
<1>4. \A v \in Callers \ {w} : UNCHANGED <<pc[v], request[v], accepted[v]>>
  BY <1>1 DEF IInv, TypeOK
<1> QED BY <1>2, <1>3, <1>4, ReadingStep

(* The ledger is asked: only what it backs goes on.                        *)
LEMMA ConfirmStep ==
  ASSUME IInv, NEW w \in Callers, ConfirmInLedger(w)
  PROVE  IInv'
<1>1. pc[w] = "ledger" /\ request[w] \in Requests /\ GateCode(request[w]) = "none"
  BY DEF IInv, TypeOK, CallInv, ConfirmInLedger
<1>2. CASE Confirmed(request[w]) /\ Goto(w, "read") /\ UNCHANGED <<request, error>>
  <2>1. Backed(request[w])
    BY <1>1, <1>2, ConfirmedIsBacked DEF IInv
  <2> QED BY <1>1, <1>2, <2>1, GotoStep DEF ConfirmInLedger
<1>3. CASE Throw(w, "INTERNAL_LEDGER_NOT_CONFIRMED")
  BY <1>3, ThrowStep DEF ConfirmInLedger, Errors, IInv, TypeOK
<1> QED BY <1>2, <1>3 DEF ConfirmInLedger

(* The contract is read.                                                   *)
LEMMA ReadStep ==
  ASSUME IInv, NEW w \in Callers, ReadAnchorState(w)
  PROVE  IInv'
<1>1. pc[w] = "read" /\ Backed(request[w])
  BY DEF IInv, CallInv, ReadAnchorState
<1>2. CASE Goto(w, "submit") /\ UNCHANGED <<request, error>>
  BY <1>1, <1>2, GotoStep DEF ReadAnchorState
<1>3. CASE Throw(w, "DIGEST_ALREADY_ANCHORED")
  BY <1>3, ThrowStep DEF ReadAnchorState, Errors, IInv, TypeOK
<1> QED BY <1>2, <1>3 DEF ReadAnchorState

(* The steps at which a call ends with an error and nothing else happens.  *)
LEMMA FailureStep ==
  ASSUME IInv, NEW w \in Callers,
         LedgerQueryFails(w) \/ SubmitReverts(w) \/ ReceiptFails(w)
  PROVE  IInv'
BY ThrowStep DEF LedgerQueryFails, SubmitReverts, ReceiptFails, Errors, IInv, TypeOK

-----------------------------------------------------------------------------
(* Steps of the ledger and of the chain.                                   *)

(* The type invariant holds of the ledger's next state too.                *)
LEMMA LedgerTypeNext == LP!IInv' => (L!TypeOK)'
BY DEF LP!IInv, L!TypeOK, LP!TypeOK, L!Row, LP!Row, L!Content, LP!Content

(* The ledger grows or is damaged: nothing that is backed depends on what  *)
(* the table still holds.                                                  *)
LEMMA LedgerStepKeeps ==
  ASSUME IInv, LedgerStep
  PROVE  IInv'
<1>1. LP!IInv' /\ RecordKept
  BY LedgerNext, RecordGrows DEF IInv, LedgerStep
<1>2. UNCHANGED <<pc, request, error, accepted, mempool, mined, anchoredAt, sent, results>>
  BY DEF LedgerStep, callerVars, chainVars
<1>3. TypeOK'
  BY <1>1, <1>2, LedgerTypeNext DEF IInv, TypeOK
<1>4. \A w \in Callers : CallInv(w)'
  <2>1. sent \in Nat
    BY DEF IInv, TypeOK
  <2> QED BY <1>1, <1>2, <2>1, OthersKeep DEF IInv, AllTxs
<1>5. TxInv' /\ ReceiptInv' /\ ResultInv'
  BY <1>2 DEF IInv, TxInv, ReceiptInv, ResultInv, AllTxs
<1>6. SentIsBacked'
  <2>1. \A tx \in AllTxs : Backed(tx.request)'
    BY <1>1, BackedStays DEF IInv, SentIsBacked, AllTxs, Backed
  <2> QED BY <1>2, <2>1 DEF IInv, SentIsBacked, AllTxs
<1> QED BY <1>1, <1>2, <1>3, <1>4, <1>5, <1>6 DEF IInv

(* The node accepts a transaction of a caller that stands at the           *)
(* submission: it is backed and its number is new, whether the call goes   *)
(* on or ends with an error.                                               *)
LEMMA AcceptStep ==
  ASSUME IInv, NEW w \in Callers, pc[w] = "submit", Accept(w),
         UNCHANGED <<ledgerVars, results>>, CallTypes', 
         \A v \in Callers \ {w} : UNCHANGED <<pc[v], request[v]>>,
         pc'[w] = "idle" \/ (pc'[w] = "wait" /\ request'[w] = request[w])
  PROVE  IInv'
<1> DEFINE tx == [n |-> sent + 1, by |-> w, request |-> request[w]]
<1>1. /\ sent \in Nat /\ sent' = sent + 1 /\ sent' \in 1 .. MaxTxs
      /\ UNCHANGED <<mined, anchoredAt, results>>
      /\ accepted' = [accepted EXCEPT ![w] = sent + 1]
      /\ mempool' = mempool \cup {tx}
  BY BoundsAssumption DEF IInv, TypeOK, Accept
<1>2. request[w] \in Requests /\ Backed(request[w]) /\ GateCode(request[w]) = "none"
  BY DEF IInv, TypeOK, CallInv
<1>3. tx \in Txs /\ tx.n = sent + 1 /\ tx.request = request[w]
  BY <1>1, <1>2 DEF Txs
<1> HIDE DEF tx
<1>4. AllTxs' = AllTxs \cup {tx}
  BY <1>1 DEF AllTxs
<1>5. \A t \in AllTxs : t.n \in Nat /\ t.n <= sent
  BY DEF IInv, TypeOK, TxInv, AllTxs, Txs
<1>6. LP!IInv'
  BY LedgerRests DEF IInv
<1>7. TypeOK'
  <2>1. (L!TypeOK)'
    BY DEF IInv, TypeOK, L!TypeOK, ledgerVars
  <2> QED BY <2>1, <1>1, <1>3 DEF IInv, TypeOK, CallTypes, PCs
<1>8. ASSUME NEW v \in Callers \ {w} PROVE CallInv(v)'
  <2>1. UNCHANGED <<pc[v], request[v], accepted[v]>>
    BY <1>1 DEF IInv, TypeOK
  <2> QED BY <1>1, <1>3, <1>4, <2>1, OthersKeep DEF IInv, RecordKept, ledgerVars
<1>9. CallInv(w)'
  <2>1. CASE pc'[w] = "idle"
    BY <2>1 DEF CallInv
  <2>2. CASE pc'[w] = "wait" /\ request'[w] = request[w]
    <3>1. accepted'[w] = sent + 1
      BY <1>1 DEF IInv, TypeOK
    <3>2. Backed(request[w])'
      BY <1>2, <2>2 DEF Backed, Recorded, ledgerVars
    <3>3. \A t \in AllTxs' : t.n = accepted'[w] => t.request = request'[w]
      BY <1>1, <1>3, <1>4, <1>5, <2>2, <3>1
    <3> QED BY <1>1, <1>2, <2>2, <3>1, <3>2, <3>3 DEF CallInv, GateCode
  <2> QED BY <2>1, <2>2
<1>10. TxInv'
  <2>1. tx \notin AllTxs
    BY <1>1, <1>3, <1>5
  <2>2. \A m \in mined : m.tx \in AllTxs
    BY DEF AllTxs
  <2>3. (\A t \in AllTxs : t.n <= sent)'
    BY <1>1, <1>3, <1>4, <1>5
  <2>4. (\A t, u \in AllTxs : t.n = u.n => t = u)'
    BY <1>1, <1>3, <1>4, <1>5 DEF IInv, TxInv
  <2>5. (\A m \in mined : m.tx \notin mempool)'
    BY <1>1, <2>1, <2>2 DEF IInv, TxInv
  <2> QED BY <1>1, <2>3, <2>4, <2>5 DEF IInv, TxInv
<1>11. SentIsBacked'
  <2>1. \A t \in AllTxs' : Backed(t.request)'
    <3>1. \A t \in AllTxs : Backed(t.request)
      BY DEF IInv, SentIsBacked, AllTxs
    <3> QED BY <1>2, <1>3, <1>4, <3>1 DEF Backed, Recorded, ledgerVars
  <2> QED BY <1>1, <2>1 DEF IInv, SentIsBacked, AllTxs
<1>12. ReceiptInv' /\ ResultInv'
  BY <1>1 DEF IInv, ReceiptInv, ResultInv
<1> QED BY <1>6, <1>7, <1>8, <1>9, <1>10, <1>11, <1>12 DEF IInv, CallTypes

(* Sending, with the answer of the node.                                   *)
LEMMA SubmitStep ==
  ASSUME IInv, NEW w \in Callers, Submit(w)
  PROVE  IInv'
<1>1. CallTypes'
  BY BoundsAssumption DEF IInv, TypeOK, CallTypes, PCs, Submit, Accept, Goto
<1>2. /\ \A v \in Callers \ {w} : UNCHANGED <<pc[v], request[v]>>
      /\ pc'[w] = "wait" /\ request'[w] = request[w]
  BY DEF IInv, TypeOK, Submit, Goto
<1> QED BY <1>1, <1>2, AcceptStep DEF Submit

(* Reading or sending fails; the node may have accepted the transaction.   *)
LEMMA RpcStep ==
  ASSUME IInv, NEW w \in Callers, RpcFails(w)
  PROVE  IInv'
<1>1. CASE UNCHANGED <<chainVars, accepted>>
  BY <1>1, ThrowStep DEF RpcFails, Errors, IInv, TypeOK
<1>2. CASE pc[w] = "submit" /\ Accept(w)
  <2>1. CallTypes'
    BY <1>2, BoundsAssumption
       DEF IInv, TypeOK, CallTypes, PCs, RpcFails, Throw, End, Accept, Goto, Errors
  <2>2. \A v \in Callers \ {w} : UNCHANGED <<pc[v], request[v]>>
    BY DEF IInv, TypeOK, RpcFails, Throw, End, Goto
  <2>3. pc'[w] = "idle"
    BY DEF IInv, TypeOK, RpcFails, Throw, End, Goto
  <2>4. UNCHANGED <<ledgerVars, results>>
    BY DEF RpcFails
  <2> QED BY <1>2, <2>1, <2>2, <2>3, <2>4, AcceptStep
<1> QED BY <1>1, <1>2 DEF RpcFails

(* The receipt: the transaction of the caller's number asked for what the  *)
(* caller asks for.                                                        *)
LEMMA ReceiptStep ==
  ASSUME IInv, NEW w \in Callers, ReceiptOk(w)
  PROVE  IInv'
<1>1. pc[w] = "wait" /\ request[w] \in Requests
  BY DEF IInv, TypeOK, ReceiptOk
<1>2. PICK m \in mined :
        /\ m.tx.n = accepted[w] /\ m.status
        /\ results' = results \cup {[tx |-> m.tx, request |-> request[w]]}
  BY DEF ReceiptOk
<1>3. m.tx.request = request[w] /\ m.tx \in Txs
  BY <1>1, <1>2 DEF IInv, TypeOK, CallInv, AllTxs
<1>4. UNCHANGED <<ledgerVars, chainVars, accepted, error>> /\ End(w)
  BY DEF ReceiptOk
<1>5. CallTypes' /\ pc'[w] = "idle"
  BY <1>4 DEF IInv, TypeOK, CallTypes, PCs, End, Goto
<1>6. \A v \in Callers \ {w} : UNCHANGED <<pc[v], request[v], accepted[v]>>
  BY <1>4 DEF IInv, TypeOK, End, Goto
<1>7. LP!IInv'
  BY <1>4, LedgerRests DEF IInv
<1>8. TypeOK'
  <2>1. (L!TypeOK)'
    BY <1>4 DEF IInv, TypeOK, L!TypeOK, ledgerVars
  <2> QED BY <1>1, <1>2, <1>3, <1>4, <1>5, <2>1
          DEF IInv, TypeOK, CallTypes, PCs, chainVars
<1>9. \A v \in Callers : CallInv(v)'
  <2>1. CallInv(w)'
    BY <1>5 DEF CallInv
  <2>2. /\ sent \in Nat /\ sent' = sent
        /\ AllTxs' = AllTxs /\ RecordKept
    BY <1>4 DEF IInv, TypeOK, AllTxs, RecordKept, ledgerVars, chainVars
  <2> QED BY <1>6, <2>1, <2>2, OthersKeep DEF IInv
<1>10. TxInv' /\ ReceiptInv'
  BY <1>4 DEF IInv, TxInv, ReceiptInv, AllTxs, chainVars
<1>11. SentIsBacked'
  BY <1>4 DEF IInv, SentIsBacked, Backed, Recorded, chainVars, ledgerVars
<1>12. ResultInv'
  BY <1>2, <1>3, <1>4 DEF IInv, ResultInv, chainVars
<1> QED BY <1>5, <1>7, <1>8, <1>9, <1>10, <1>11, <1>12 DEF IInv, CallTypes

(* A transaction leaves the mempool, mined or dropped.                     *)
LEMMA MineStep ==
  ASSUME IInv, NEW tx \in mempool, Mine(tx)
  PROVE  IInv'
<1> DEFINE d  == tx.request.document
           ok == d # ZeroDigest /\ anchoredAt[d] = 0
           m  == [tx |-> tx, status |-> ok]
<1>1. /\ mempool' = mempool \ {tx} /\ mined' = mined \cup {m}
      /\ anchoredAt' = IF ok THEN [anchoredAt EXCEPT ![d] = tx.n] ELSE anchoredAt
      /\ UNCHANGED <<pc, request, error, accepted, sent, results, ledgerVars>>
  BY DEF Mine, callerVars
<1>2. tx \in Txs /\ tx.n \in 1 .. MaxTxs /\ d \in Digests
  BY DEF IInv, TypeOK, Txs, Requests
<1>3. m.tx = tx /\ m.status = ok /\ m \in [tx : Txs, status : BOOLEAN]
  BY <1>2
<1>4. AllTxs' = AllTxs /\ tx \in AllTxs
  BY <1>1, <1>3 DEF AllTxs
<1>5. ASSUME ok PROVE anchoredAt' \in [Digests -> 0 .. MaxTxs] /\ ReceiptInv'
  <2>1. anchoredAt' = [anchoredAt EXCEPT ![d] = tx.n] /\ anchoredAt[d] = 0
    BY <1>1, <1>5
  <2> HIDE DEF m, ok
  <2>2. anchoredAt' \in [Digests -> 0 .. MaxTxs] /\ anchoredAt'[d] = tx.n
        /\ \A e \in Digests \ {d} : anchoredAt'[e] = anchoredAt[e]
    BY <1>2, <2>1 DEF IInv, TypeOK
  <2>3. \A k \in mined : k.status => k.tx.request.document \in Digests \ {d}
    BY <2>1 DEF IInv, TypeOK, ReceiptInv, Txs, Requests
  <2> QED BY <1>1, <1>3, <2>2, <2>3 DEF IInv, ReceiptInv
<1>6. ASSUME ~ok PROVE anchoredAt' \in [Digests -> 0 .. MaxTxs] /\ ReceiptInv'
  <2>1. anchoredAt' = anchoredAt /\ ~m.status
    BY <1>1, <1>3, <1>6
  <2> HIDE DEF m, ok
  <2> QED BY <1>1, <2>1 DEF IInv, TypeOK, ReceiptInv
<1> HIDE DEF m, ok, d
<1>7. anchoredAt' \in [Digests -> 0 .. MaxTxs] /\ ReceiptInv'
  BY <1>5, <1>6
<1>8. LP!IInv'
  BY <1>1, LedgerRests DEF IInv
<1>9. TypeOK'
  <2>1. (L!TypeOK)'
    BY <1>1 DEF IInv, TypeOK, L!TypeOK, ledgerVars
  <2> QED BY <1>1, <1>3, <1>7, <2>1 DEF IInv, TypeOK
<1>10. \A v \in Callers : CallInv(v)'
  BY <1>1, <1>4 DEF IInv, CallInv, Backed, Recorded, ledgerVars
<1>11. TxInv'
  <2>1. \A k \in mined : k.tx # tx
    BY DEF IInv, TxInv
  <2> QED BY <1>1, <1>3, <1>4, <2>1 DEF IInv, TxInv
<1>12. SentIsBacked'
  BY <1>1, <1>4 DEF IInv, SentIsBacked, AllTxs, Backed, Recorded, ledgerVars
<1>13. ResultInv'
  BY <1>1 DEF IInv, ResultInv
<1> QED BY <1>1, <1>7, <1>8, <1>9, <1>10, <1>11, <1>12, <1>13 DEF IInv

(* A foreign transaction takes a number that no caller was given, and a    *)
(* digest for which no caller holds a receipt.                             *)
LEMMA ForeignStep ==
  ASSUME IInv, NEW d \in Digests, MineForeign(d)
  PROVE  IInv'
<1>1. /\ sent \in Nat /\ sent' = sent + 1 /\ sent' \in 0 .. MaxTxs
      /\ anchoredAt[d] = 0 /\ anchoredAt' = [anchoredAt EXCEPT ![d] = sent + 1]
      /\ UNCHANGED <<pc, request, error, accepted, mempool, mined, results, ledgerVars>>
  BY BoundsAssumption DEF IInv, TypeOK, MineForeign, callerVars
<1>2. AllTxs' = AllTxs /\ RecordKept
  BY <1>1 DEF AllTxs, RecordKept, ledgerVars
<1>3. anchoredAt' \in [Digests -> 0 .. MaxTxs]
      /\ \A e \in Digests \ {d} : anchoredAt'[e] = anchoredAt[e]
  BY <1>1 DEF IInv, TypeOK
<1>4. LP!IInv'
  BY <1>1, LedgerRests DEF IInv
<1>5. TypeOK'
  <2>1. (L!TypeOK)'
    BY <1>1 DEF IInv, TypeOK, L!TypeOK, ledgerVars
  <2> QED BY <1>1, <1>3, <2>1 DEF IInv, TypeOK
<1>6. \A v \in Callers : CallInv(v)'
  BY <1>1, <1>2, OthersKeep DEF IInv
<1>7. TxInv'
  <2>1. \A tx \in AllTxs : tx.n \in Nat /\ tx.n <= sent
    BY DEF IInv, TypeOK, TxInv, AllTxs, Txs
  <2> QED BY <1>1, <1>2, <2>1 DEF IInv, TxInv
<1>8. SentIsBacked' /\ ResultInv'
  BY <1>1 DEF IInv, SentIsBacked, Backed, Recorded, ResultInv, ledgerVars
<1>9. ReceiptInv'
  <2>1. \A m \in mined : m.status => m.tx.request.document \in Digests \ {d}
    BY <1>1 DEF IInv, TypeOK, ReceiptInv, Txs, Requests
  <2> QED BY <1>1, <1>3, <2>1 DEF IInv, ReceiptInv
<1> QED BY <1>1, <1>4, <1>5, <1>6, <1>7, <1>8, <1>9 DEF IInv

(* A transaction dropped from the mempool is mined no more, which only     *)
(* weakens what is to be shown.                                            *)
LEMMA DropStep ==
  ASSUME IInv, NEW tx \in mempool, DropTx(tx)
  PROVE  IInv'
<1>1. /\ mempool' = mempool \ {tx}
      /\ UNCHANGED <<pc, request, error, accepted, mined, anchoredAt, sent, results,
                     ledgerVars>>
  BY DEF DropTx, callerVars
<1>2. AllTxs' \subseteq AllTxs
  BY <1>1 DEF AllTxs
<1>3. LP!IInv'
  BY <1>1, LedgerRests DEF IInv
<1>4. TypeOK'
  <2>1. (L!TypeOK)'
    BY <1>1 DEF IInv, TypeOK, L!TypeOK, ledgerVars
  <2> QED BY <1>1, <2>1 DEF IInv, TypeOK
<1>5. \A v \in Callers : CallInv(v)'
  BY <1>1, <1>2 DEF IInv, CallInv, Backed, Recorded, ledgerVars
<1>6. TxInv' /\ ReceiptInv' /\ ResultInv'
  BY <1>1, <1>2 DEF IInv, TxInv, ReceiptInv, ResultInv
<1>7. SentIsBacked'
  BY <1>1 DEF IInv, SentIsBacked, Backed, Recorded, ledgerVars
<1> QED BY <1>1, <1>3, <1>4, <1>5, <1>6, <1>7 DEF IInv

-----------------------------------------------------------------------------
(* The theorems.                                                           *)

(* Before any call nothing is sent, mined or returned.                     *)
LEMMA InitIInv == Init => IInv
<1> SUFFICES ASSUME Init PROVE IInv
  OBVIOUS
<1>1. LP!IInv
  BY LP!InitIInv, LedgerAssumptions, SameLedger DEF Init
<1>2. L!TypeOK
  BY <1>1, SameLedger DEF LP!IInv
<1>3. TypeOK /\ request \in [Callers -> Requests \cup {NoRequest}]
  BY <1>2, BoundsAssumption DEF Init, TypeOK, Errors
<1>4. \A w \in Callers : CallInv(w)
  BY DEF Init, CallInv
<1>5. TxInv /\ SentIsBacked /\ ReceiptInv /\ ResultInv
  BY DEF Init, TxInv, SentIsBacked, ReceiptInv, ResultInv, AllTxs
<1> QED BY <1>1, <1>3, <1>4, <1>5 DEF IInv

(* Every step keeps the invariant.                                         *)
LEMMA NextIInv == IInv /\ [Next]_vars => IInv'
<1> SUFFICES ASSUME IInv, [Next]_vars PROVE IInv'
  OBVIOUS
<1>1. CASE LedgerStep
  BY <1>1, LedgerStepKeeps
<1>2. ASSUME NEW w \in Callers, NEW r \in Requests, Gate(w, r) PROVE IInv'
  BY <1>2, GateStep
<1>3. ASSUME NEW w \in Callers, Proceed(w) PROVE IInv'
  BY <1>3, ConfirmStep, ReadStep, FailureStep, SubmitStep, RpcStep, ReceiptStep DEF Proceed
<1>4. ASSUME NEW tx \in mempool, Mine(tx) PROVE IInv'
  BY <1>4, MineStep
<1>5. ASSUME NEW tx \in mempool, DropTx(tx) PROVE IInv'
  BY <1>5, DropStep
<1>6. ASSUME NEW d \in Digests, MineForeign(d) PROVE IInv'
  BY <1>6, ForeignStep
<1>7. CASE UNCHANGED vars
  <2>1. UNCHANGED <<pc, request, error, accepted, mempool, mined, anchoredAt, sent,
                    results, rows, appended, forged, damages>>
    BY <1>7 DEF vars, ledgerVars, chainVars, callerVars
  <2>2. LP!IInv' /\ (L!TypeOK)'
    BY <2>1, LedgerRests DEF IInv, ledgerVars, TypeOK, L!TypeOK
  <2> QED BY <2>1, <2>2 DEF IInv, TypeOK, CallInv, TxInv, SentIsBacked, Backed, Recorded,
                           ReceiptInv, ResultInv, AllTxs
<1> QED BY <1>1, <1>2, <1>3, <1>4, <1>5, <1>6, <1>7 DEF Next, ChainStep

(* The invariant above holds of every reachable state.                     *)
THEOREM Invariance == Spec => []IInv
BY InitIInv, NextIInv, PTL DEF Spec

(* Every part of the state stays in its type, and an error that a call     *)
(* throws is one of the classes the service declares.                      *)
THEOREM TypeCorrect == Spec => []TypeOK
<1>1. IInv => TypeOK
  BY DEF IInv
<1> QED BY <1>1, Invariance, PTL

(* Whatever the service sends to the contract passed the gate and is       *)
(* backed by an event that appendEvent wrote, or that somebody outside put *)
(* into the ledger with a hash of its own, however the ledger was damaged  *)
(* meanwhile.                                                              *)
THEOREM WhatIsSentIsBacked == Spec => []SentIsBacked
<1>1. IInv => SentIsBacked
  BY DEF IInv
<1> QED BY <1>1, Invariance, PTL

(* anchorVerifiedEvidence returns for a digest at most once, whoever calls *)
(* it, with the transaction that anchored the digest.                      *)
THEOREM ResultsAreUnique == Spec => []OneResultPerDigest
<1>1. IInv => OneResultPerDigest
  <2> SUFFICES ASSUME IInv PROVE OneResultPerDigest
    OBVIOUS
  <2>1. \A r \in results : /\ r.request = r.tx.request
                           /\ anchoredAt[r.request.document] = r.tx.n
                           /\ r.tx \in AllTxs
    BY DEF IInv, ResultInv, ReceiptInv, AllTxs
  <2>2. ASSUME NEW r \in results, NEW s \in results,
               r.request.document = s.request.document
        PROVE  r = s
    <3>1. r.tx = s.tx /\ r.request = s.request
      BY <2>1, <2>2 DEF IInv, TxInv
    <3>2. r \in [tx : Txs, request : Requests] /\ s \in [tx : Txs, request : Requests]
      BY DEF IInv, TypeOK
    <3> QED BY <3>1, <3>2
  <2> QED BY <2>1, <2>2 DEF OneResultPerDigest
<1> QED BY <1>1, Invariance, PTL

-----------------------------------------------------------------------------
(* VerifiedAnchor implements WriteOnce.  Three actions change what the     *)
(* abstract map sees: a block with the first transaction for a digest,     *)
(* a caller's or a foreign one, writes, and a receipt that is returned     *)
(* answers.                                                                *)

Times == {[key |-> d, value |-> anchoredAt[d]] : d \in Anchored}
Told  == {[key |-> r.request.document, value |-> r.tx.n] : r \in results}

(* The first time of a digest is a write.                                  *)
LEMMA FirstTimeWrites ==
  ASSUME IInv, NEW digest \in Digests, NEW n \in Nat \ {0}, anchoredAt[digest] = 0,
         anchoredAt' = [anchoredAt EXCEPT ![digest] = n], results' = results
  PROVE  AnchorMap!Next
<1> DEFINE e == [key |-> digest, value |-> n]
<1>1. anchoredAt \in [Digests -> 0 .. MaxTxs]
  BY DEF IInv, TypeOK
<1>2. Anchored' = Anchored \cup {digest} /\ digest \notin Anchored
  BY <1>1 DEF Anchored
<1>3. /\ anchoredAt'[digest] = n
      /\ \A d \in Anchored : anchoredAt'[d] = anchoredAt[d]
  BY <1>1, <1>2 DEF Anchored
<1>4. Times' = Times \cup {e}
  BY <1>2, <1>3 DEF Times
<1>5. \A f \in Times : f.key # e.key
  BY <1>2 DEF Times
<1>6. e \in Times' \ Times
  BY <1>4, <1>5
<1>7. AnchorMap!Write(e)
  BY <1>4, <1>5 DEF AnchorMap!Write, Times
<1> QED BY <1>6, <1>7 DEF AnchorMap!Next, Times

(* A transaction that is mined writes the time of a digest that has none,  *)
(* or is refused and writes nothing.                                       *)
LEMMA MineWrites ==
  ASSUME IInv, NEW tx \in mempool, Mine(tx)
  PROVE  AnchorMap!Next \/ UNCHANGED <<Times, Told>>
<1> DEFINE digest == tx.request.document
<1>1. digest \in Digests /\ tx.n \in Nat \ {0} /\ results' = results
  BY BoundsAssumption DEF IInv, TypeOK, Txs, Requests, Mine
<1>2. CASE digest # ZeroDigest /\ anchoredAt[digest] = 0
  <2>1. anchoredAt' = [anchoredAt EXCEPT ![digest] = tx.n]
    BY <1>2 DEF Mine
  <2> QED BY <1>1, <1>2, <2>1, FirstTimeWrites
<1>3. CASE ~(digest # ZeroDigest /\ anchoredAt[digest] = 0)
  BY <1>1, <1>3 DEF Mine, Times, Told, Anchored
<1> QED BY <1>2, <1>3

(* So does a foreign transaction.                                          *)
LEMMA ForeignWrites ==
  ASSUME IInv, NEW d \in Digests, MineForeign(d)
  PROVE  AnchorMap!Next
<1>1. sent + 1 \in Nat \ {0}
  BY DEF IInv, TypeOK
<1> QED BY <1>1, FirstTimeWrites DEF MineForeign

(* A call that returns tells the time its digest has.                      *)
LEMMA ReceiptAnswers ==
  ASSUME IInv, NEW w \in Callers, ReceiptOk(w)
  PROVE  AnchorMap!Next \/ UNCHANGED <<Times, Told>>
<1>1. PICK m \in mined : /\ m.tx.n = accepted[w] /\ m.status
                         /\ results' = results \cup {[tx |-> m.tx, request |-> request[w]]}
  BY DEF ReceiptOk
<1>2. anchoredAt' = anchoredAt
  BY DEF ReceiptOk, chainVars
<1> DEFINE digest == request[w].document
           e == [key |-> digest, value |-> m.tx.n]
<1>3. m.tx.request = request[w]
  BY <1>1 DEF ReceiptOk, IInv, CallInv, AllTxs
<1>4. digest \in Digests /\ m.tx.n \in Nat \ {0}
  BY <1>3, BoundsAssumption DEF IInv, TypeOK, Txs, Requests
<1>5. anchoredAt[digest] = m.tx.n
  BY <1>1, <1>3 DEF IInv, ReceiptInv
<1>6. e \in Times /\ Times' = Times
  BY <1>2, <1>4, <1>5 DEF Times, Anchored
<1>7. Told' = Told \cup {e}
  <2> DEFINE r == [tx |-> m.tx, request |-> request[w]]
  <2>1. r.request.document = digest /\ r.tx.n = m.tx.n
    OBVIOUS
  <2>2. results' = results \cup {r}
    BY <1>1
  <2> HIDE DEF r
  <2> QED BY <2>1, <2>2 DEF Told
<1>8. CASE e \in Told
  BY <1>6, <1>7, <1>8
<1>9. CASE e \notin Told
  <2>1. PICK a \in Times \ Told : a = e
    BY <1>6, <1>9
  <2>2. AnchorMap!Answer(a)
    BY <1>6, <1>7, <2>1 DEF AnchorMap!Answer, Times, Told
  <2> QED BY <2>1, <2>2 DEF AnchorMap!Next, Times, Told
<1> QED BY <1>8, <1>9

(* Every other step leaves the abstract map as it is.                      *)
LEMMA StepImplements == IInv /\ [Next]_vars => [AnchorMap!Next]_<<Times, Told>>
<1> SUFFICES ASSUME IInv, [Next]_vars
             PROVE  AnchorMap!Next \/ UNCHANGED <<Times, Told>>
  OBVIOUS
<1>1. ASSUME NEW tx \in mempool, Mine(tx) PROVE AnchorMap!Next \/ UNCHANGED <<Times, Told>>
  BY <1>1, MineWrites
<1>2. ASSUME NEW w \in Callers, ReceiptOk(w) PROVE AnchorMap!Next \/ UNCHANGED <<Times, Told>>
  BY <1>2, ReceiptAnswers
<1>3. ASSUME NEW d \in Digests, MineForeign(d) PROVE AnchorMap!Next
  BY <1>3, ForeignWrites
<1>4. ASSUME UNCHANGED <<anchoredAt, results>> PROVE UNCHANGED <<Times, Told>>
  BY <1>4 DEF Times, Told, Anchored
<1>5. \/ \E tx \in mempool : Mine(tx)
      \/ \E w \in Callers : ReceiptOk(w)
      \/ \E d \in Digests : MineForeign(d)
      \/ UNCHANGED <<anchoredAt, results>>
  BY DEF Next, vars, chainVars, LedgerStep, Gate, Proceed, ConfirmInLedger, LedgerQueryFails,
         ReadAnchorState, SubmitReverts, Submit, Accept, RpcFails, ReceiptFails, ChainStep, DropTx
<1> QED BY <1>1, <1>2, <1>3, <1>4, <1>5

(* Racing callers, with transactions lost, late or refused, see a map that *)
(* is written once.                                                        *)
THEOREM Implementation == Spec => ImplementsWriteOnce
<1>1. Init => AnchorMap!Init
  BY DEF Init, AnchorMap!Init, Anchored
<1>2. IInv /\ [Next]_vars
        => [AnchorMap!Next]_<<{[key |-> d, value |-> anchoredAt[d]] : d \in Anchored},
                             {[key |-> r.request.document, value |-> r.tx.n] : r \in results}>>
  BY StepImplements DEF Times, Told
<1> QED BY <1>1, <1>2, Invariance, PTL DEF Spec, ImplementsWriteOnce, AnchorMap!Spec
=============================================================================
