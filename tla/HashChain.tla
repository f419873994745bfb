----------------------------- MODULE HashChain -----------------------------
(***************************************************************************)
(* The pure part of lib/pg-signing-logger.js: what a row of the table      *)
(* signing_events is, how rows are chained, and what the verifier computes *)
(* from the rows one SELECT returned.                                      *)
(*                                                                         *)
(* A row is a record                                                       *)
(*    [sequence, content, previousHash, rowHash]                           *)
(* whose content is the event itself (event_id, event_type, payload and    *)
(* signature).  The table is a set of rows; ORDER BY sequence is expressed *)
(* by comparing sequence numbers.                                          *)
(*                                                                         *)
(* SHA-256 is taken to be injective.  The hash of (content, previousHash)  *)
(* is represented by the sequence Append(previousHash, content): equal     *)
(* hashes come from equal inputs, and no row hash is GENESIS_HASH.         *)
(***************************************************************************)
EXTENDS Naturals, Sequences, FiniteSets

GENESIS_HASH == << >>

(* `sequence` is not an input of the hash (docs/adr/0004).                 *)
computeRowHash(content, previousHash) == Append(previousHash, content)

Row(Contents) ==
  [sequence     : Nat,
   content      : Contents,
   previousHash : Seq(Contents),
   rowHash      : Seq(Contents)]

-----------------------------------------------------------------------------
(* SELECT ... ORDER BY sequence DESC LIMIT 1                               *)
LastRow(rows) == CHOOSE r \in rows : \A s \in rows : s.sequence <= r.sequence

(* The hash the next append chains to.                                     *)
LastHash(rows) == IF rows = {} THEN GENESIS_HASH ELSE LastRow(rows).rowHash

Earlier(rows, r) == {s \in rows : s.sequence < r.sequence}

-----------------------------------------------------------------------------
(* Two plausible bugs of the link check below, to see that the properties  *)
(* of the verdict notice them: starting the loop from the first row's own  *)
(* previous_hash, and taking a gap in the sequence for a missing row.      *)
LinkUncheckedAtFirst(rows, r) ==
  Earlier(rows, r) # {} /\ r.previousHash # LastHash(Earlier(rows, r))

LinkBrokenByGap(rows, r) ==
  \/ r.previousHash # LastHash(Earlier(rows, r))
  \/ r.sequence # Cardinality(Earlier(rows, r)) + 1

-----------------------------------------------------------------------------
(* The two checks of the verifier's loop.  When it reaches row r,          *)
(* expectedPreviousHash is the row_hash of the row before r.               *)
LinkBroken(rows, r) == r.previousHash # LastHash(Earlier(rows, r))
ContentChanged(r)   == r.rowHash # computeRowHash(r.content, r.previousHash)

Faulty(rows) == {r \in rows : LinkBroken(rows, r) \/ ContentChanged(r)}

(* The loop stops at the first faulty row, and tests the link first.       *)
verifySigningEventRows(rows) ==
  IF Faulty(rows) = {}
  THEN [valid |-> TRUE, totalEvents |-> Cardinality(rows), lastHash |-> LastHash(rows)]
  ELSE LET first == CHOOSE r \in Faulty(rows) :
                      \A s \in Faulty(rows) : r.sequence <= s.sequence
       IN  [valid            |-> FALSE,
            reason           |-> IF LinkBroken(rows, first)
                                 THEN "previous_hash mismatch"
                                 ELSE "row_hash mismatch",
            failedAtSequence |-> first.sequence]

(* One query result serves both the chain check and the event lookup; the  *)
(* event is the empty set where the code returns null.                     *)
verifyChainIntegrityAndGetEvent(rows, eventId) ==
  [integrity |-> verifySigningEventRows(rows),
   event     |-> {r \in rows : r.content.eventId = eventId}]
=============================================================================
