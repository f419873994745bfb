---------------------------- MODULE LedgerDamage ----------------------------
(***************************************************************************)
(* What verifyChainIntegrity can tell about a ledger that was damaged      *)
(* outside the program: rows lost (a partial restore, a manual DELETE),    *)
(* columns changed, any of them, and rows put in with the hashes that      *)
(* appendEvent would have computed, in any order with the appends that go  *)
(* on.  A row changed and hashed again is one lost and another put in.     *)
(*                                                                         *)
(* An append is one step here: SigningLedger shows that concurrent appends *)
(* amount to that.                                                         *)
(***************************************************************************)
EXTENDS HashChain, Integers, SequencesExt

CONSTANTS
  Bodies,       \* what an event records
  Texts,        \* those whose payload is a JavaScript string holding JSON text
  MaxEvents,    \* bound on the appends
  MaxDamage,    \* bound on the damages
  MaxSequence   \* bound on the sequence numbers

ASSUME TextsAssumption  == Texts \subseteq Bodies
ASSUME BoundsAssumption == MaxEvents \in Nat /\ MaxDamage \in Nat /\ MaxSequence \in Nat

VARIABLES
  rows,      \* the table signing_events
  appended,  \* every row ever appended, as it was written
  forged,    \* the hashes that were computed outside the program
  damages    \* how often the table was damaged

vars == <<rows, appended, forged, damages>>

(* An event's id is 1, 2, ... in the order in which appendEvent draws the  *)
(* UUIDs; the others are ids that it never draws.                          *)
Content == [eventId : (1 - MaxDamage) .. MaxEvents, body : Bodies]

TypeOK ==
  /\ rows \in SUBSET Row(Content)
  /\ appended \in SUBSET Row(Content)
  /\ forged \in SUBSET Seq(Content)
  /\ damages \in 0 .. MaxDamage
  /\ \A q, r \in rows : q # r => /\ q.sequence # r.sequence
                                /\ q.content.eventId # r.content.eventId

Init ==
  /\ rows = {} /\ appended = {} /\ forged = {}
  /\ damages = 0

Drawn       == Cardinality(appended)
FreeNumbers == (0 .. MaxSequence) \ {r.sequence : r \in rows}

(* What the JSONB column gives back.  The driver sends an object as its    *)
(* JSON text, and a string as it is: PostgreSQL parses both.               *)
Jsonb(body) == IF body \in Texts THEN Bodies \ Texts ELSE {body}

(* appendEvent, on whatever the table holds: the hash is that of the       *)
(* caller's payload.                                                       *)
AppendAs(body, n) ==
  \E stored \in Jsonb(body) :
    LET row == [sequence     |-> n,
                content      |-> [eventId |-> Drawn + 1, body |-> stored],
                previousHash |-> LastHash(rows),
                rowHash      |-> computeRowHash([eventId |-> Drawn + 1, body |-> body],
                                                LastHash(rows))]
    IN  rows' = rows \cup {row} /\ appended' = appended \cup {row}

(* A plausible bug in place of AppendRow: the sequence starts again after  *)
(* what the table holds.                                                   *)
AppendRowReusing(body) ==
  /\ Drawn < MaxEvents
  /\ AppendAs(body, Cardinality(rows))
  /\ UNCHANGED <<forged, damages>>

(* The BIGSERIAL sequence goes on after every number it has given out,     *)
(* those of INSERTs that failed included; one of these is the INSERT of a  *)
(* number that somebody else has put in the table.                         *)
AppendRow(body) ==
  /\ Drawn < MaxEvents
  /\ \E n \in FreeNumbers \ {0} :
       (\A q \in appended : q.sequence < n) /\ AppendAs(body, n)
  /\ UNCHANGED <<forged, damages>>

Damage ==
  /\ damages < MaxDamage
  /\ damages' = damages + 1
  /\ UNCHANGED appended

Lose(r) ==
  /\ Damage
  /\ rows' = rows \ {r}
  /\ UNCHANGED forged

(* What somebody outside the program may write: the ids that appendEvent   *)
(* drew and one that it never draws, unless they are taken, and the hashes *)
(* that are on record.                                                     *)
FreeIds  == (1 .. Drawn \cup {-damages}) \ {r.content.eventId : r \in rows}
OnRecord == {GENESIS_HASH} \cup UNION {{r.previousHash, r.rowHash} : r \in rows \cup appended}

Change(r) ==
  /\ Damage
  /\ \E s \in   {[r EXCEPT !.sequence = n] : n \in FreeNumbers}
           \cup {[r EXCEPT !.content.eventId = id] : id \in FreeIds}
           \cup {[r EXCEPT !.content.body = body] : body \in Bodies}
           \cup {[r EXCEPT !.previousHash = h] : h \in OnRecord}
           \cup {[r EXCEPT !.rowHash = h] : h \in OnRecord} :
       rows' = (rows \ {r}) \cup {s}
  /\ UNCHANGED forged

PutIn(content, h, n) ==
  /\ rows' = rows \cup {[sequence     |-> n,
                        content      |-> content,
                        previousHash |-> h,
                        rowHash      |-> computeRowHash(content, h)]}
  /\ forged' = forged \cup {computeRowHash(content, h)}

Forge ==
  /\ Damage
  /\ \E id \in FreeIds, body \in Bodies, h \in OnRecord, n \in FreeNumbers :
       PutIn([eventId |-> id, body |-> body], h, n)

Next ==
  \/ \E body \in Bodies : AppendRow(body)
  \/ \E r \in rows : Lose(r) \/ Change(r)
  \/ Forge

Spec == Init /\ [][Next]_vars

-----------------------------------------------------------------------------
(* Properties.                                                             *)

Valid == verifySigningEventRows(rows).valid

(* Row r is what appendEvent wrote as q, in every column that is hashed.   *)
WrittenAs(r, q) ==
  r.content = q.content /\ r.previousHash = q.previousHash /\ r.rowHash = q.rowHash

(* In a ledger judged valid every row is, but for its sequence, as         *)
(* appendEvent wrote it, unless its hash was computed outside the program; *)
(* and the appended rows that a row was chained to, however far back, all  *)
(* stand before it, as they were written.                                  *)
ValidMeansGenuine ==
  Valid => \A r \in rows :
    /\ r.rowHash \in forged \/ \E q \in appended : WrittenAs(r, q)
    /\ \A p \in appended : IsPrefix(p.rowHash, r.previousHash) =>
         \E s \in rows : WrittenAs(s, p) /\ s.sequence < r.sequence

(* An invalid verdict has a cause: a row that is not as appendEvent wrote  *)
(* it, one whose parent is missing, or two rows chained to the same one,   *)
(* which takes a damage between their appends.  Sequence gaps and lost     *)
(* last rows are no cause.                                                 *)
InvalidMeansDamaged ==
  ~Valid => \/ ~(rows \subseteq appended)
            \/ \E r \in rows : /\ r.previousHash # GENESIS_HASH
                             /\ \A q \in rows : q.rowHash # r.previousHash
            \/ \E q, r \in rows : q # r /\ q.previousHash = r.previousHash

(* docs/adr/0004, "Detects deletion of any row".                           *)
DeletionDetected == (appended \ rows # {}) => ~Valid

(* docs/adr/0004, "Detects tampering of any field in any row": a row that  *)
(* still has the hash it was appended with and differs in another column.  *)
TamperingDetected ==
  (\E r \in rows, q \in appended : r.rowHash = q.rowHash /\ r # q) => ~Valid

(* verifySigningEventRows, "tampering detected in this row's content":     *)
(* the verdict is about what happened to the table after the appends.      *)
AppendedIsValid == damages = 0 => Valid
=============================================================================
