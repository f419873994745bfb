-------------------------- MODULE MCVerifiedAnchor --------------------------
(* VerifiedAnchor on two instances that one run explores side by side: one *)
(* caller with every mismatch of request, sidecar and ledger event over a  *)
(* ledger that may be damaged, and one transaction; and callers that race  *)
(* for the same digests with more transactions, their own and foreign      *)
(* ones, whose requests do not differ otherwise.                           *)
EXTENDS VerifiedAnchor, TLC

VARIABLE instance

Symmetry == Permutations(Callers)

OneCaller(w) ==
  [callers |-> {w}, ids |-> EvidenceIds, keys |-> Keys,
   events |-> (1 - MaxDamage) .. MaxEvents, damages |-> MaxDamage, txs |-> 1]

Racing ==
  [callers |-> Callers, ids |-> {CHOOSE e \in EvidenceIds : TRUE}, keys |-> TrustedKeys,
   events |-> 1 .. MaxEvents, damages |-> 0, txs |-> MaxTxs]

MayAsk ==
  {r \in Requests : /\ r.sidecar.evidenceId \in instance.ids
                   /\ r.sidecar.keyId \in instance.keys
                   /\ r.ledgerEventId \in instance.events}

MCInit == Init /\ instance \in {Racing} \cup {OneCaller(w) : w \in Callers}

MCNext ==
  /\ UNCHANGED instance
  /\ \/ LedgerStep
     \/ \E w \in instance.callers : (\E r \in MayAsk : Gate(w, r)) \/ Proceed(w)
     \/ ChainStep
  /\ damages' <= instance.damages
  /\ sent' <= instance.txs
  /\ \A q \in appended' : q.content.body.evidenceId \in instance.ids

MCSpec == MCInit /\ [][MCNext]_<<vars, instance>>
=============================================================================
