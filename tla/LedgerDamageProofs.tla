------------------------- MODULE LedgerDamageProofs -------------------------
(***************************************************************************)
(* Proofs about LedgerDamage, for any bodies and any number of appends and *)
(* damages.  The verdict is proved for payloads that the JSONB column      *)
(* gives back as they were sent (Texts = {}): the run damage_payload shows *)
(* that it is wrong for the others.                                        *)
(***************************************************************************)
EXTENDS LedgerDamage, FiniteSetTheorems, SequenceTheorems, TLAPS

-----------------------------------------------------------------------------
(* The inductive invariant.                                                *)

(* The sequence numbers are bounded, and appended rows are never removed.  *)
NumbersInv ==
  /\ IsFiniteSet(appended) /\ Drawn <= MaxEvents
  /\ \A r \in rows \cup appended : r.sequence <= MaxSequence

(* No id that appendEvent has still to draw is used anywhere, inside the   *)
(* hashes included.                                                        *)
DrawnIds(h, n) == \A i \in 1 .. Len(h) : h[i].eventId <= n

IdsInv ==
  \A r \in rows \cup appended : /\ r.content.eventId <= Drawn
                               /\ DrawnIds(r.previousHash, Drawn)
                               /\ DrawnIds(r.rowHash, Drawn)

(* Every hash on record is that of an appended row, or was computed        *)
(* outside the program.                                                    *)
HashIn(h, F, A) == h = GENESIS_HASH \/ h \in F \/ \E q \in A : q.rowHash = h

HashesInv ==
  \A r \in rows \cup appended : /\ HashIn(r.previousHash, forged, appended)
                               /\ HashIn(r.rowHash, forged, appended)

(* An appended row comes after the appended row it is chained to.          *)
ParentInv ==
  \A p, q \in appended : p.rowHash = q.previousHash => p.sequence < q.sequence

WrittenInv == Texts = {} => \A q \in appended : ~ContentChanged(q)

IInv == TypeOK /\ NumbersInv /\ IdsInv /\ HashesInv /\ ParentInv /\ WrittenInv

-----------------------------------------------------------------------------
(* Facts about numbers and rows.                                           *)

(* Of the rows that ORDER BY sequence sorts, one comes first.              *)
LEMMA LeastNumber ==
  ASSUME NEW T \in SUBSET Nat, T # {}
  PROVE  \E x \in T : \A y \in T : x <= y
<1>1. PICK x \in T : \A y \in T : ~(<<y, x>> \in OpToRel(<, Nat))
  BY NatLessThanWellFounded, WFMin
<1>2. \A y \in T : ~(y < x)
  BY <1>1 DEF OpToRel
<1> QED BY <1>2

(* So one row does, of any set of rows that is not empty.                  *)
LEMMA FirstRow ==
  ASSUME NEW R, \A r \in R : r.sequence \in Nat, R # {}
  PROVE  \E r \in R : \A s \in R : r.sequence <= s.sequence
<1> DEFINE T == {r.sequence : r \in R}
<1>1. PICK x \in T : \A y \in T : x <= y
  <2>1. T \in SUBSET Nat /\ T # {}
    OBVIOUS
  <2> HIDE DEF T
  <2> QED BY <2>1, LeastNumber
<1> QED BY <1>1

(* LIMIT 1 returns a row whenever there is one and the numbers are bounded.*)
LEMMA LastRowType ==
  ASSUME NEW R, \A r \in R : r.sequence \in Nat, R # {},
         NEW n \in Nat, \A r \in R : r.sequence <= n
  PROVE  LastRow(R) \in R /\ \A s \in R : s.sequence <= LastRow(R).sequence
<1> DEFINE T == {m \in Nat : \A r \in R : r.sequence <= m}
<1>1. PICK m \in T : \A k \in T : m <= k
  <2>1. T \in SUBSET Nat /\ n \in T
    OBVIOUS
  <2> HIDE DEF T
  <2> QED BY <2>1, LeastNumber
<1>2. PICK r \in R : r.sequence = m
  <2> SUFFICES ASSUME \A r \in R : r.sequence # m PROVE FALSE
    OBVIOUS
  <2>1. PICK r \in R : TRUE
    OBVIOUS
  <2>2. m \in Nat /\ r.sequence \in Nat /\ r.sequence <= m /\ r.sequence # m
    BY <1>1, <2>1
  <2>3. m - 1 \in Nat /\ ~(m <= m - 1)
    BY <2>2
  <2>4. \A s \in R : s.sequence <= m - 1
    BY <1>1
  <2> QED BY <1>1, <2>3, <2>4
<1>3. r \in R /\ \A s \in R : s.sequence <= r.sequence
  BY <1>1, <1>2
<1> QED BY <1>3 DEF LastRow

(* computeRowHash is injective, and no row's hash is GENESIS_HASH.         *)
LEMMA RowHash ==
  ASSUME NEW c \in Content, NEW h \in Seq(Content)
  PROVE  /\ computeRowHash(c, h) \in Seq(Content)
         /\ computeRowHash(c, h) # GENESIS_HASH
         /\ \A d \in Content, g \in Seq(Content) :
              computeRowHash(c, h) = computeRowHash(d, g) => c = d /\ h = g
BY AppendProperties, AppendInjective DEF computeRowHash, GENESIS_HASH

(* Rows with the hash of their content that have the same hash are the     *)
(* same, but for their sequence.                                           *)
LEMMA HashTellsRows ==
  ASSUME NEW q \in Row(Content), NEW r \in Row(Content),
         ~ContentChanged(q), ~ContentChanged(r), q.rowHash = r.rowHash
  PROVE  WrittenAs(r, q)
<1>1. q.content \in Content /\ q.previousHash \in Seq(Content)
  BY DEF Row
<1>2. r.content \in Content /\ r.previousHash \in Seq(Content)
  BY DEF Row
<1>3. q.content = r.content /\ q.previousHash = r.previousHash
  BY <1>1, <1>2, RowHash DEF ContentChanged
<1> QED BY <1>3 DEF WrittenAs

(* A row's hash holds the ids of the previous one and the row's own.       *)
LEMMA DrawnIdsOfRowHash ==
  ASSUME NEW c \in Content, NEW h \in Seq(Content), NEW n \in Nat,
         c.eventId <= n, DrawnIds(h, n)
  PROVE  DrawnIds(computeRowHash(c, h), n)
<1>1. /\ Len(computeRowHash(c, h)) = Len(h) + 1
      /\ \A i \in 1 .. Len(h) : computeRowHash(c, h)[i] = h[i]
      /\ computeRowHash(c, h)[Len(h) + 1] = c
  BY AppendProperties DEF computeRowHash
<1>2. Len(h) \in Nat
  OBVIOUS
<1> QED BY <1>1, <1>2 DEF DrawnIds

(* More ids drawn do no harm.                                              *)
LEMMA DrawnIdsGrow ==
  ASSUME NEW h \in Seq(Content), NEW n \in Nat, DrawnIds(h, n)
  PROVE  DrawnIds(h, n + 1)
<1>1. \A i \in 1 .. Len(h) : h[i] \in Content
  OBVIOUS
<1>2. \A i \in 1 .. Len(h) : h[i].eventId \in Int
  BY <1>1, BoundsAssumption DEF Content
<1> QED BY <1>2 DEF DrawnIds

-----------------------------------------------------------------------------
(* The inductive invariant holds.                                          *)

(* SELECT ... LIMIT 1 gives GENESIS_HASH or a hash on record.              *)
LEMMA LastHashIs ==
  ASSUME IInv
  PROVE  /\ LastHash(rows) \in Seq(Content)
         /\ HashIn(LastHash(rows), forged, appended)
         /\ DrawnIds(LastHash(rows), Drawn)
<1>1. CASE rows = {}
  BY <1>1 DEF LastHash, GENESIS_HASH, HashIn, DrawnIds
<1>2. CASE rows # {}
  <2>1. \A r \in rows : r.sequence \in Nat /\ r.sequence <= MaxSequence
    BY DEF IInv, TypeOK, NumbersInv, Row
  <2>2. LastRow(rows) \in rows
    BY <1>2, <2>1, LastRowType, BoundsAssumption
  <2>3. LastHash(rows) = LastRow(rows).rowHash
    BY <1>2 DEF LastHash
  <2> QED BY <2>2, <2>3 DEF IInv, TypeOK, HashesInv, IdsInv, Row
<1> QED BY <1>1, <1>2

(* An append keeps the invariant.                                          *)
LEMMA AppendStep ==
  ASSUME IInv, NEW body \in Bodies, AppendRow(body)
  PROVE  IInv'
<1> DEFINE id == Drawn + 1
           last == LastHash(rows)
<1>1. Drawn \in Nat /\ id \in 1 .. MaxEvents
  BY FS_CardinalityType, BoundsAssumption DEF IInv, NumbersInv, AppendRow, Drawn
<1>2. PICK n \in FreeNumbers \ {0} : (\A q \in appended : q.sequence < n) /\ AppendAs(body, n)
  BY DEF AppendRow
<1>3. PICK stored, row :
        /\ stored \in Jsonb(body)
        /\ row = [sequence     |-> n,
                  content      |-> [eventId |-> id, body |-> stored],
                  previousHash |-> last,
                  rowHash      |-> computeRowHash([eventId |-> id, body |-> body], last)]
        /\ rows' = rows \cup {row}
        /\ appended' = appended \cup {row}
  BY <1>2 DEF AppendAs
<1>4. UNCHANGED <<forged, damages>>
  BY DEF AppendRow
<1>5. n \in 0 .. MaxSequence /\ \A r \in rows : r.sequence # n
  BY <1>2 DEF FreeNumbers
<1>6. stored \in Bodies /\ (Texts = {} => stored = body)
  BY <1>3 DEF Jsonb
<1>7. /\ [eventId |-> id, body |-> body] \in Content
      /\ [eventId |-> id, body |-> stored] \in Content
  BY <1>1, <1>6, BoundsAssumption DEF Content
<1>8. last \in Seq(Content) /\ HashIn(last, forged, appended) /\ DrawnIds(last, Drawn)
  BY LastHashIs
<1> DEFINE c == [eventId |-> id, body |-> body]
<1>9. /\ row.sequence = n /\ row.content.eventId = id
      /\ row.previousHash = last /\ row.rowHash = computeRowHash(c, last)
      /\ row.content \in Content /\ c \in Content /\ c.eventId = id
      /\ (Texts = {} => row.content = c)
  BY <1>3, <1>6, <1>7
<1>10. row \in Row(Content)
  BY <1>3, <1>5, <1>7, <1>8, RowHash, BoundsAssumption DEF Row
<1> HIDE DEF id, last, c
<1>11. \A r \in rows \cup appended : r \in Row(Content)
  BY DEF IInv, TypeOK
<1>12. row \notin appended
  BY <1>2, <1>5, <1>9, <1>11, BoundsAssumption DEF Row
<1>13. IsFiniteSet(appended') /\ Drawn' = id
  BY <1>1, <1>3, <1>12, FS_AddElement DEF IInv, NumbersInv, Drawn, id
<1>14. TypeOK'
  <2>1. \A r \in rows : r.content.eventId # id
    BY <1>1, <1>11, BoundsAssumption DEF IInv, IdsInv, id, Row, Content
  <2>2. /\ rows' \in SUBSET Row(Content) /\ appended' \in SUBSET Row(Content)
        /\ forged' \in SUBSET Seq(Content) /\ damages' \in 0 .. MaxDamage
    BY <1>3, <1>4, <1>10 DEF IInv, TypeOK
  <2>3. ASSUME NEW q \in rows', NEW r \in rows', q # r
        PROVE  q.sequence # r.sequence /\ q.content.eventId # r.content.eventId
    BY <1>3, <1>5, <1>9, <2>1, <2>3 DEF IInv, TypeOK
  <2> QED BY <2>2, <2>3 DEF TypeOK
<1>15. NumbersInv'
  BY <1>1, <1>3, <1>5, <1>9, <1>13, BoundsAssumption DEF IInv, NumbersInv
<1>16. IdsInv'
  <2>1. \A r \in rows \cup appended :
          /\ r.content.eventId \in Int
          /\ r.previousHash \in Seq(Content) /\ r.rowHash \in Seq(Content)
    <3>1. \A k \in Content : k.eventId \in Int
      BY BoundsAssumption DEF Content
    <3> QED BY <1>11, <3>1 DEF Row
  <2>2. \A r \in rows \cup appended : /\ r.content.eventId <= id
                                      /\ DrawnIds(r.previousHash, id)
                                      /\ DrawnIds(r.rowHash, id)
    BY <1>1, <2>1, DrawnIdsGrow DEF IInv, IdsInv, id
  <2>3. DrawnIds(last, id) /\ id \in Nat
    BY <1>1, <1>8, DrawnIdsGrow DEF id
  <2>4. DrawnIds(row.rowHash, id)
    BY <1>8, <1>9, <2>3, DrawnIdsOfRowHash
  <2>5. row.content.eventId <= id /\ DrawnIds(row.previousHash, id)
    BY <1>9, <2>3
  <2> QED BY <1>3, <1>13, <2>2, <2>4, <2>5 DEF IdsInv
<1>17. HashesInv'
  <2>1. \A h : HashIn(h, forged, appended) => HashIn(h, forged', appended')
    BY <1>3, <1>4 DEF HashIn
  <2>2. HashIn(row.rowHash, forged', appended') /\ HashIn(row.previousHash, forged', appended')
    BY <1>3, <1>8, <1>9, <2>1 DEF HashIn
  <2> QED BY <1>3, <2>1, <2>2 DEF IInv, HashesInv
<1>18. ParentInv'
  <2>1. row.rowHash # row.previousHash
    <3>1. Len(computeRowHash(c, last)) = Len(last) + 1 /\ Len(last) \in Nat
      BY <1>8, <1>9, AppendProperties DEF computeRowHash
    <3> QED BY <1>9, <3>1
  <2>2. ASSUME NEW q \in appended
        PROVE  row.rowHash # q.previousHash
    <3>1. /\ Len(computeRowHash(c, last)) = Len(last) + 1 /\ Len(last) \in Nat
          /\ computeRowHash(c, last)[Len(last) + 1] = c
      BY <1>8, <1>9, AppendProperties DEF computeRowHash
    <3>2. ~DrawnIds(row.rowHash, Drawn)
      BY <1>1, <1>9, <3>1 DEF DrawnIds, id
    <3> QED BY <3>2 DEF IInv, IdsInv
  <2>3. \A p \in appended : p.sequence < row.sequence
    BY <1>2, <1>9
  <2> QED BY <1>3, <2>1, <2>2, <2>3 DEF IInv, ParentInv
<1>19. WrittenInv'
  <2>1. Texts = {} => ~ContentChanged(row)
    BY <1>9 DEF ContentChanged
  <2> QED BY <1>3, <2>1 DEF IInv, WrittenInv
<1> QED BY <1>14, <1>15, <1>16, <1>17, <1>18, <1>19 DEF IInv

(* Damage leaves what was appended: the parts of the invariant about it    *)
(* stay, and the others look at the rows one by one.                       *)
LEMMA LoseStep ==
  ASSUME IInv, NEW r \in rows, Lose(r)
  PROVE  IInv'
<1>1. rows' \subseteq rows /\ UNCHANGED <<appended, forged>> /\ Drawn' = Drawn
  BY DEF Lose, Damage, Drawn
<1>2. TypeOK'
  BY <1>1, BoundsAssumption DEF IInv, TypeOK, Lose, Damage
<1>3. NumbersInv' /\ IdsInv' /\ HashesInv'
  BY <1>1 DEF IInv, NumbersInv, IdsInv, HashesInv
<1>4. ParentInv' /\ WrittenInv'
  BY <1>1 DEF IInv, ParentInv, WrittenInv
<1> QED BY <1>2, <1>3, <1>4 DEF IInv

(* What is on record are hashes of known origin and of drawn ids.          *)
LEMMA OnRecordIs ==
  ASSUME IInv, NEW h \in OnRecord
  PROVE  h \in Seq(Content) /\ HashIn(h, forged, appended) /\ DrawnIds(h, Drawn)
<1>1. CASE h = GENESIS_HASH
  BY <1>1 DEF GENESIS_HASH, HashIn, DrawnIds
<1>2. CASE \E r \in rows \cup appended : h = r.previousHash \/ h = r.rowHash
  BY <1>2 DEF IInv, TypeOK, HashesInv, IdsInv, Row
<1> QED BY <1>1, <1>2 DEF OnRecord

(* Nor does an id come from those that appendEvent has still to draw.      *)
LEMMA FreeIdsAre ==
  ASSUME IInv, damages < MaxDamage, NEW id \in FreeIds
  PROVE  /\ id \in (1 - MaxDamage) .. MaxEvents /\ id <= Drawn
         /\ \A r \in rows : r.content.eventId # id
<1>1. Drawn \in Nat /\ damages \in 0 .. MaxDamage
  BY FS_CardinalityType DEF IInv, TypeOK, NumbersInv, Drawn
<1>2. Drawn <= MaxEvents
  BY DEF IInv, NumbersInv
<1> QED BY <1>1, <1>2, BoundsAssumption DEF FreeIds

(* A changed row has no id and no hash that was not there.                 *)
LEMMA ChangeStep ==
  ASSUME IInv, NEW r \in rows, Change(r)
  PROVE  IInv'
<1>1. /\ UNCHANGED <<appended, forged>> /\ Drawn' = Drawn
      /\ damages < MaxDamage /\ damages' \in 0 .. MaxDamage
  BY BoundsAssumption DEF IInv, TypeOK, Change, Damage, Drawn
<1>2. r \in Row(Content) /\ r.content \in Content /\ Drawn \in Nat
  BY FS_CardinalityType DEF IInv, TypeOK, NumbersInv, Drawn, Row
<1>3. PICK s :
        /\ rows' = (rows \ {r}) \cup {s}
        /\ \/ \E n \in FreeNumbers : s = [r EXCEPT !.sequence = n]
           \/ \E id \in FreeIds : s = [r EXCEPT !.content.eventId = id]
           \/ \E body \in Bodies : s = [r EXCEPT !.content.body = body]
           \/ \E h \in OnRecord : s = [r EXCEPT !.previousHash = h]
           \/ \E h \in OnRecord : s = [r EXCEPT !.rowHash = h]
  BY DEF Change
<1>4. /\ s \in Row(Content)
      /\ s.sequence = r.sequence \/ s.sequence \in FreeNumbers
      /\ s.content.eventId = r.content.eventId \/ s.content.eventId \in FreeIds
      /\ s.previousHash \in {r.previousHash} \cup OnRecord
      /\ s.rowHash \in {r.rowHash} \cup OnRecord
  <2>1. ASSUME NEW n \in FreeNumbers, s = [r EXCEPT !.sequence = n]
        PROVE  <1>4
    BY <1>2, <2>1, BoundsAssumption DEF FreeNumbers, Row
  <2>2. ASSUME NEW id \in FreeIds, s = [r EXCEPT !.content.eventId = id]
        PROVE  <1>4
    <3>1. [r.content EXCEPT !.eventId = id] \in Content
      BY <1>1, <1>2, FreeIdsAre DEF Content
    <3>2. [r.content EXCEPT !.eventId = id].eventId = id
      BY <1>2 DEF Content
    <3>3. s = [r EXCEPT !.content = [r.content EXCEPT !.eventId = id]]
      BY <1>2, <2>2 DEF Row
    <3> QED BY <1>2, <3>1, <3>2, <3>3 DEF Row
  <2>3. ASSUME NEW body \in Bodies, s = [r EXCEPT !.content.body = body]
        PROVE  <1>4
    <3>1. [r.content EXCEPT !.body = body] \in Content
      BY <1>2 DEF Content
    <3>2. [r.content EXCEPT !.body = body].eventId = r.content.eventId
      BY <1>2 DEF Content
    <3>3. s = [r EXCEPT !.content = [r.content EXCEPT !.body = body]]
      BY <1>2, <2>3 DEF Row
    <3> QED BY <1>2, <3>1, <3>2, <3>3 DEF Row
  <2>4. ASSUME NEW h \in OnRecord, s = [r EXCEPT !.previousHash = h]
        PROVE  <1>4
    BY <1>2, <2>4, OnRecordIs DEF Row
  <2>5. ASSUME NEW h \in OnRecord, s = [r EXCEPT !.rowHash = h]
        PROVE  <1>4
    BY <1>2, <2>5, OnRecordIs DEF Row
  <2> QED BY <1>3, <2>1, <2>2, <2>3, <2>4, <2>5
<1>5. /\ s.sequence <= MaxSequence /\ s.content.eventId <= Drawn
      /\ \A q \in rows \ {r} : /\ q.sequence # s.sequence
                              /\ q.content.eventId # s.content.eventId
  BY <1>1, <1>2, <1>4, FreeIdsAre, BoundsAssumption
     DEF IInv, TypeOK, NumbersInv, IdsInv, FreeNumbers
<1>6. /\ HashIn(s.previousHash, forged, appended) /\ DrawnIds(s.previousHash, Drawn)
      /\ HashIn(s.rowHash, forged, appended) /\ DrawnIds(s.rowHash, Drawn)
  BY <1>4, OnRecordIs DEF IInv, HashesInv, IdsInv
<1>7. TypeOK'
  <2>1. ASSUME NEW p \in rows', NEW q \in rows', p # q
        PROVE  p.sequence # q.sequence /\ p.content.eventId # q.content.eventId
    BY <1>3, <1>5, <2>1 DEF IInv, TypeOK
  <2> QED BY <1>1, <1>3, <1>4, <2>1 DEF IInv, TypeOK
<1>8. NumbersInv'
  BY <1>1, <1>3, <1>5 DEF IInv, NumbersInv
<1>9. IdsInv' /\ HashesInv'
  BY <1>1, <1>3, <1>5, <1>6 DEF IInv, IdsInv, HashesInv
<1>10. ParentInv' /\ WrittenInv'
  BY <1>1 DEF IInv, ParentInv, WrittenInv
<1> QED BY <1>7, <1>8, <1>9, <1>10 DEF IInv

(* A row put in has the hash that was computed for it.                     *)
LEMMA ForgeStep ==
  ASSUME IInv, Forge
  PROVE  IInv'
<1>1. /\ UNCHANGED appended /\ Drawn' = Drawn
      /\ damages < MaxDamage /\ damages' \in 0 .. MaxDamage
  BY BoundsAssumption DEF IInv, TypeOK, Forge, Damage, Drawn
<1>2. PICK n, id, body, h, c, s :
        /\ n \in FreeNumbers /\ id \in FreeIds /\ body \in Bodies /\ h \in OnRecord
        /\ c = [eventId |-> id, body |-> body]
        /\ s = [sequence |-> n, content |-> c,
                previousHash |-> h, rowHash |-> computeRowHash(c, h)]
        /\ rows' = rows \cup {s}
        /\ forged' = forged \cup {computeRowHash(c, h)}
  BY DEF Forge, PutIn
<1>3. /\ n \in 0 .. MaxSequence
      /\ id \in (1 - MaxDamage) .. MaxEvents /\ id <= Drawn
      /\ \A r \in rows : r.sequence # n /\ r.content.eventId # id
  BY <1>1, <1>2, FreeIdsAre DEF FreeNumbers
<1>4. c \in Content /\ c.eventId = id
  BY <1>2, <1>3 DEF Content
<1>5. h \in Seq(Content) /\ HashIn(h, forged, appended) /\ DrawnIds(h, Drawn)
  BY <1>2, OnRecordIs
<1>6. computeRowHash(c, h) \in Seq(Content)
  BY <1>4, <1>5, RowHash
<1>7. /\ s \in Row(Content) /\ s.sequence = n /\ s.content = c
      /\ s.previousHash = h /\ s.rowHash = computeRowHash(c, h)
  BY <1>2, <1>3, <1>4, <1>5, <1>6, BoundsAssumption DEF Row
<1>8. TypeOK'
  <2>1. /\ rows' \in SUBSET Row(Content) /\ appended' \in SUBSET Row(Content)
        /\ forged' \in SUBSET Seq(Content) /\ damages' \in 0 .. MaxDamage
    BY <1>1, <1>2, <1>6, <1>7 DEF IInv, TypeOK
  <2>2. ASSUME NEW p \in rows', NEW q \in rows', p # q
        PROVE  p.sequence # q.sequence /\ p.content.eventId # q.content.eventId
    BY <1>2, <1>3, <1>4, <1>7, <2>2 DEF IInv, TypeOK
  <2> QED BY <2>1, <2>2 DEF TypeOK
<1>9. NumbersInv'
  BY <1>1, <1>2, <1>3, <1>7, BoundsAssumption DEF IInv, NumbersInv
<1>10. IdsInv'
  <2>1. Drawn \in Nat
    BY FS_CardinalityType DEF IInv, NumbersInv, Drawn
  <2>2. DrawnIds(s.rowHash, Drawn)
    BY <1>3, <1>4, <1>5, <1>7, <2>1, DrawnIdsOfRowHash
  <2> QED BY <1>1, <1>2, <1>3, <1>4, <1>5, <1>7, <2>2 DEF IInv, IdsInv
<1>11. HashesInv'
  <2>1. \A g : HashIn(g, forged, appended) => HashIn(g, forged', appended')
    BY <1>1, <1>2 DEF HashIn
  <2>2. HashIn(s.rowHash, forged', appended') /\ HashIn(s.previousHash, forged', appended')
    BY <1>2, <1>5, <1>7, <2>1 DEF HashIn
  <2> QED BY <1>1, <1>2, <2>1, <2>2 DEF IInv, HashesInv
<1>12. ParentInv' /\ WrittenInv'
  BY <1>1 DEF IInv, ParentInv, WrittenInv
<1> QED BY <1>8, <1>9, <1>10, <1>11, <1>12 DEF IInv

(* The empty table satisfies the invariant.                                *)
LEMMA InitIInv == Init => IInv
BY FS_EmptySet, BoundsAssumption
   DEF Init, IInv, TypeOK, NumbersInv, Drawn, IdsInv, HashesInv, ParentInv, WrittenInv

(* Every step keeps the invariant.                                         *)
LEMMA NextIInv == IInv /\ [Next]_vars => IInv'
<1> SUFFICES ASSUME IInv, [Next]_vars PROVE IInv'
  OBVIOUS
<1>1. ASSUME NEW body \in Bodies, AppendRow(body) PROVE IInv'
  BY <1>1, AppendStep
<1>2. ASSUME NEW r \in rows, Lose(r) PROVE IInv'
  BY <1>2, LoseStep
<1>3. ASSUME NEW r \in rows, Change(r) PROVE IInv'
  BY <1>3, ChangeStep
<1>4. ASSUME Forge PROVE IInv'
  BY <1>4, ForgeStep
<1>5. CASE UNCHANGED vars
  BY <1>5 DEF IInv, TypeOK, NumbersInv, IdsInv, HashesInv, ParentInv, WrittenInv, Drawn, vars
<1> QED BY <1>1, <1>2, <1>3, <1>4, <1>5 DEF Next

-----------------------------------------------------------------------------
(* What the verdict means.                                                 *)

(* What the invariant and the hypothesis on the payloads say of a table    *)
(* and of the rows appended.                                               *)
Known(R, A) ==
  /\ R \subseteq Row(Content) /\ A \subseteq Row(Content)
  /\ \E n \in Nat : \A q \in R : q.sequence <= n
  /\ \A q, r \in R : q.sequence = r.sequence => q = r
  /\ \A q \in A : ~ContentChanged(q)
  /\ \A p, q \in A : p.rowHash = q.previousHash => p.sequence < q.sequence

(* They are what the invariant gives.                                     *)
LEMMA IInvKnown ==
  ASSUME IInv, Texts = {}
  PROVE  Known(rows, appended)
BY BoundsAssumption DEF IInv, TypeOK, NumbersInv, ParentInv, WrittenInv, Known

(* The row before a row is the one LIMIT 1 would find if r were not there. *)
LEMMA RowBefore ==
  ASSUME NEW R, NEW A, Known(R, A), NEW r \in R, Earlier(R, r) # {}
  PROVE  /\ LastRow(Earlier(R, r)) \in R
         /\ LastRow(Earlier(R, r)).sequence < r.sequence
         /\ \A s \in Earlier(R, r) : s.sequence <= LastRow(Earlier(R, r)).sequence
         /\ LastHash(Earlier(R, r)) = LastRow(Earlier(R, r)).rowHash
<1> DEFINE E == Earlier(R, r)
<1>1. \A s \in E : s \in R /\ s.sequence \in Nat /\ s.sequence < r.sequence
  BY DEF Earlier, Known, Row
<1>2. PICK n \in Nat : \A s \in E : s.sequence <= n
  BY <1>1 DEF Known
<1>3. E # {}
  OBVIOUS
<1> HIDE DEF E
<1>4. LastRow(E) \in E /\ \A s \in E : s.sequence <= LastRow(E).sequence
  BY <1>1, <1>2, <1>3, LastRowType
<1>5. LastHash(E) = LastRow(E).rowHash
  BY <1>3 DEF LastHash
<1> QED BY <1>1, <1>4, <1>5 DEF E

(* A prefix of a row's hash is that hash or a prefix of the previous one.  *)
LEMMA PrefixOfRowHash ==
  ASSUME NEW c \in Content, NEW h \in Seq(Content), NEW g \in Seq(Content),
         IsPrefix(g, computeRowHash(c, h))
  PROVE  g = computeRowHash(c, h) \/ IsPrefix(g, h)
<1> DEFINE k == computeRowHash(c, h)
<1>1. /\ k \in Seq(Content) /\ Len(k) = Len(h) + 1
      /\ \A i \in 1 .. Len(h) : k[i] = h[i]
  BY AppendProperties DEF computeRowHash
<1> HIDE DEF k
<1>2. Len(g) \in Nat /\ Len(h) \in Nat /\ Len(g) <= Len(k)
  BY DEF IsPrefix, k
<1>3. \A i \in 1 .. Len(g) : g[i] = k[i]
  <2>1. SubSeq(g, 1, Len(g)) = SubSeq(k, 1, Len(g))
    BY DEF IsPrefix, k
  <2>2. \A i \in 1 .. Len(g) : g[i] \in Content
    BY <1>2
  <2>3. \A i \in 1 .. Len(g) : k[i] \in Content
    BY <1>1, <1>2
  <2>4. \A i \in 1 .. Len(g) : SubSeq(g, 1, Len(g))[i] = g[i]
    BY <1>2, <2>2, SubSeqProperties
  <2>5. \A i \in 1 .. Len(g) : SubSeq(k, 1, Len(g))[i] = k[i]
    BY <1>2, <2>3, SubSeqProperties
  <2> QED BY <2>1, <2>4, <2>5
<1>4. CASE Len(g) = Len(k)
  <2>1. g = k
    BY <1>1, <1>3, <1>4, SeqEqual
  <2> QED BY <2>1 DEF k
<1>5. CASE Len(g) # Len(k)
  <2>1. Len(g) <= Len(h)
    BY <1>1, <1>2, <1>5
  <2>2. \A i \in 1 .. Len(g) : g[i] = h[i]
    BY <1>1, <1>2, <1>3, <2>1
  <2>3. \A i \in 1 .. Len(g) : g[i] \in Content /\ h[i] \in Content
    BY <1>2, <2>1
  <2>4. /\ SubSeq(g, 1, Len(g)) \in Seq(Content)
        /\ SubSeq(h, 1, Len(g)) \in Seq(Content)
        /\ Len(SubSeq(g, 1, Len(g))) = Len(SubSeq(h, 1, Len(g)))
        /\ Len(SubSeq(g, 1, Len(g))) = IF 1 <= Len(g) THEN Len(g) - 1 + 1 ELSE 0
        /\ \A i \in 1 .. Len(g) - 1 + 1 : SubSeq(g, 1, Len(g))[i] = g[1 + i - 1]
        /\ \A i \in 1 .. Len(g) - 1 + 1 : SubSeq(h, 1, Len(g))[i] = h[1 + i - 1]
    BY <1>2, <2>3, SubSeqProperties
  <2>5. Len(SubSeq(g, 1, Len(g))) = Len(g)
    BY <1>2, <2>4
  <2>6. \A i \in 1 .. Len(g) : SubSeq(g, 1, Len(g))[i] = SubSeq(h, 1, Len(g))[i]
    BY <1>2, <2>2, <2>4
  <2>7. SubSeq(g, 1, Len(g)) = SubSeq(h, 1, Len(g))
    BY <2>4, <2>5, <2>6, SeqEqual
  <2> QED BY <2>1, <2>7 DEF IsPrefix
<1> QED BY <1>4, <1>5

(* In a table without fault every hash that a row was chained to, however  *)
(* far back, is that of a row before it: the first row that missed one     *)
(* would follow a row that misses it too, or has it.                       *)
LEMMA FaultlessHasPrefixes ==
  ASSUME NEW R, NEW A, Known(R, A), Faulty(R) = {}, NEW r \in R,
         NEW g \in Seq(Content), g # GENESIS_HASH, IsPrefix(g, r.previousHash)
  PROVE  \E s \in R : s.rowHash = g /\ s.sequence < r.sequence
<1> DEFINE M == {s \in R : IsPrefix(g, s.previousHash)}
<1>1. PICK s \in M : \A t \in M : s.sequence <= t.sequence
  <2>1. r \in M /\ \A t \in M : t.sequence \in Nat
    BY DEF Known, Row
  <2> HIDE DEF M
  <2> QED BY <2>1, FirstRow
<1>2. s \in R /\ s.previousHash = LastHash(Earlier(R, s)) /\ s.sequence <= r.sequence
  BY <1>1 DEF Faulty, LinkBroken
<1>3. \A t \in R : /\ t.sequence \in Nat /\ t.content \in Content
                   /\ t.previousHash \in Seq(Content)
                   /\ t.rowHash = computeRowHash(t.content, t.previousHash)
  BY DEF Known, Row, Faulty, ContentChanged
<1>4. Earlier(R, s) # {}
  <2> SUFFICES ASSUME Earlier(R, s) = {} PROVE FALSE
    OBVIOUS
  <2>1. s.previousHash = << >>
    BY <1>2 DEF LastHash, GENESIS_HASH
  <2>2. Len(g) <= 0 /\ Len(g) \in Nat
    BY <1>1, <2>1 DEF IsPrefix
  <2>3. g = << >>
    BY <2>2, EmptySeq
  <2> QED BY <2>3 DEF GENESIS_HASH
<1> DEFINE p == LastRow(Earlier(R, s))
<1>5. p \in R /\ p.sequence < s.sequence /\ s.previousHash = p.rowHash
  BY <1>2, <1>4, RowBefore
<1> HIDE DEF p
<1>6. g = p.rowHash \/ IsPrefix(g, p.previousHash)
  <2>1. IsPrefix(g, computeRowHash(p.content, p.previousHash))
    BY <1>1, <1>3, <1>5
  <2> QED BY <1>3, <1>5, <2>1, PrefixOfRowHash
<1>7. ~IsPrefix(g, p.previousHash)
  <2> SUFFICES ASSUME IsPrefix(g, p.previousHash) PROVE FALSE
    OBVIOUS
  <2>1. p \in M
    BY <1>5
  <2>2. s.sequence <= p.sequence
    BY <1>1, <2>1
  <2> QED BY <1>2, <1>3, <1>5, <2>2
<1>8. p.sequence < r.sequence
  BY <1>2, <1>3, <1>5
<1> QED BY <1>5, <1>6, <1>7, <1>8

(* Rows as written, none without its parent and no two chained to the same *)
(* hash: the first row whose link is broken would be chained to what an    *)
(* earlier row is chained to.                                              *)
LEMMA WholeIsFaultless ==
  ASSUME NEW R, NEW A, Known(R, A), R \subseteq A,
         \A r \in R : r.previousHash = GENESIS_HASH \/ \E q \in R : q.rowHash = r.previousHash,
         \A q, r \in R : q.previousHash = r.previousHash => q = r
  PROVE  Faulty(R) = {}
<1> SUFFICES ASSUME Faulty(R) # {} PROVE FALSE
  OBVIOUS
<1>1. PICK r \in Faulty(R) : \A s \in Faulty(R) : r.sequence <= s.sequence
  <2>1. \A s \in Faulty(R) : s.sequence \in Nat
    BY DEF Known, Faulty, Row
  <2> QED BY <2>1, FirstRow
<1>2. \A s \in R : s.sequence \in Nat /\ s.previousHash \in Seq(Content)
  BY DEF Known, Row
<1>3. r \in R /\ r.previousHash # LastHash(Earlier(R, r))
  BY <1>1 DEF Known, Faulty, LinkBroken
<1>4. \A s \in R : s.sequence < r.sequence => s.previousHash = LastHash(Earlier(R, s))
  BY <1>1, <1>2, <1>3 DEF Faulty, LinkBroken
<1>5. CASE r.previousHash = GENESIS_HASH
  <2>1. Earlier(R, r) # {}
    BY <1>3, <1>5 DEF LastHash
  <2>2. PICK f \in Earlier(R, r) : \A s \in Earlier(R, r) : f.sequence <= s.sequence
    <3>1. \A s \in Earlier(R, r) : s.sequence \in Nat
      BY <1>2 DEF Earlier
    <3> QED BY <2>1, <3>1, FirstRow
  <2>3. f \in R /\ f.sequence < r.sequence
    BY <2>2 DEF Earlier
  <2>4. Earlier(R, f) = {}
    BY <1>2, <1>3, <2>2, <2>3 DEF Earlier
  <2>5. f.previousHash = GENESIS_HASH
    BY <1>4, <2>3, <2>4 DEF LastHash
  <2> QED BY <1>2, <1>3, <1>5, <2>3, <2>5
<1>6. CASE r.previousHash # GENESIS_HASH
  <2>1. PICK p \in R : p.rowHash = r.previousHash
    BY <1>3, <1>6
  <2>2. p \in R /\ p.sequence < r.sequence /\ r.previousHash = p.rowHash
    BY <1>3, <2>1 DEF Known
  <2> DEFINE between == {s \in R : p.sequence < s.sequence /\ s.sequence < r.sequence}
  <2>3. between # {}
    <3> SUFFICES ASSUME between = {} PROVE FALSE
      OBVIOUS
    <3>1. p \in Earlier(R, r)
      BY <2>2 DEF Earlier
    <3>2. /\ LastRow(Earlier(R, r)) \in R
          /\ LastRow(Earlier(R, r)).sequence < r.sequence
          /\ p.sequence <= LastRow(Earlier(R, r)).sequence
          /\ LastHash(Earlier(R, r)) = LastRow(Earlier(R, r)).rowHash
      BY <1>3, <3>1, RowBefore
    <3>3. LastRow(Earlier(R, r)).sequence = p.sequence
      BY <1>2, <2>2, <3>2
    <3>4. LastRow(Earlier(R, r)) = p
      BY <2>2, <3>2, <3>3 DEF Known
    <3> QED BY <1>3, <2>2, <3>2, <3>4
  <2>4. PICK n \in between : \A s \in between : n.sequence <= s.sequence
    <3>1. \A s \in between : s.sequence \in Nat
      BY <1>2
    <3> HIDE DEF between
    <3> QED BY <2>3, <3>1, FirstRow
  <2>5. LastHash(Earlier(R, n)) = p.rowHash
    <3>1. p \in Earlier(R, n)
      BY <2>2, <2>4 DEF Earlier
    <3>2. /\ LastRow(Earlier(R, n)) \in R
          /\ LastRow(Earlier(R, n)).sequence < n.sequence
          /\ p.sequence <= LastRow(Earlier(R, n)).sequence
          /\ LastHash(Earlier(R, n)) = LastRow(Earlier(R, n)).rowHash
      BY <2>4, <3>1, RowBefore
    <3>3. LastRow(Earlier(R, n)) \notin between
      BY <1>2, <2>4, <3>2
    <3>4. LastRow(Earlier(R, n)).sequence = p.sequence
      BY <1>2, <1>3, <2>2, <2>4, <3>2, <3>3
    <3>5. LastRow(Earlier(R, n)) = p
      BY <2>2, <3>2, <3>4 DEF Known
    <3> QED BY <3>2, <3>5
  <2>6. n.previousHash = r.previousHash /\ n \in R /\ n.sequence < r.sequence
    BY <1>4, <2>2, <2>4, <2>5
  <2> QED BY <1>2, <1>3, <2>6
<1> QED BY <1>5, <1>6

(* verifySigningEventRows calls a table valid when it finds no fault.      *)
LEMMA ValidIsFaultless == Valid <=> Faulty(rows) = {}
BY DEF Valid, verifySigningEventRows

(* What a row of a table without fault is, and what stands before it.      *)
LEMMA FaultlessIsGenuine ==
  ASSUME IInv, Texts = {}, Faulty(rows) = {}, NEW r \in rows
  PROVE  /\ r.rowHash \in forged \/ \E q \in appended : WrittenAs(r, q)
         /\ \A p \in appended : IsPrefix(p.rowHash, r.previousHash) =>
              \E s \in rows : WrittenAs(s, p) /\ s.sequence < r.sequence
<1>1. Known(rows, appended)
  BY IInvKnown
<1>2. \A q \in rows \cup appended :
        /\ q \in Row(Content) /\ ~ContentChanged(q)
        /\ q.content \in Content /\ q.previousHash \in Seq(Content)
        /\ q.rowHash \in Seq(Content) /\ q.rowHash # GENESIS_HASH
  BY <1>1, RowHash DEF Known, Faulty, Row, ContentChanged
<1>3. r.rowHash \in forged \/ \E q \in appended : WrittenAs(r, q)
  BY <1>2, HashTellsRows DEF IInv, HashesInv, HashIn
<1>4. ASSUME NEW p \in appended, IsPrefix(p.rowHash, r.previousHash)
      PROVE  \E s \in rows : WrittenAs(s, p) /\ s.sequence < r.sequence
  <2>1. PICK s \in rows : s.rowHash = p.rowHash /\ s.sequence < r.sequence
    BY <1>1, <1>2, <1>4, FaultlessHasPrefixes
  <2> QED BY <1>2, <2>1, HashTellsRows
<1> QED BY <1>3, <1>4

-----------------------------------------------------------------------------
(* The theorems.                                                           *)

(* The invariant above holds of every reachable state.                     *)
THEOREM Invariance == Spec => []IInv
BY InitIInv, NextIInv, PTL DEF Spec

(* The table and what was appended hold rows, whatever damage is done.     *)
THEOREM TypeCorrect == Spec => []TypeOK
<1>1. IInv => TypeOK
  BY DEF IInv
<1> QED BY <1>1, Invariance, PTL

(* A row that verifyChainIntegrity accepts in a table it calls valid is    *)
(* what appendEvent wrote, in every column but its sequence, or has a hash *)
(* that was computed outside the program, and all the appended rows it was *)
(* chained to stand before it as they were written; whatever rows were     *)
(* lost, put in or changed, in whatever columns.                           *)
THEOREM ValidIsGenuine ==
  ASSUME Texts = {}
  PROVE  Spec => []ValidMeansGenuine
<1>1. IInv => ValidMeansGenuine
  BY FaultlessIsGenuine, ValidIsFaultless DEF ValidMeansGenuine
<1> QED BY <1>1, Invariance, PTL

(* verifyChainIntegrity accuses no table without a cause: there is a row   *)
(* not as written, a row without its parent, or a fork.                    *)
THEOREM InvalidHasCause ==
  ASSUME Texts = {}
  PROVE  Spec => []InvalidMeansDamaged
<1>1. IInv => InvalidMeansDamaged
  <2> SUFFICES ASSUME IInv, rows \subseteq appended,
                      \A r \in rows : \/ r.previousHash = GENESIS_HASH
                                      \/ \E q \in rows : q.rowHash = r.previousHash,
                      \A q, r \in rows : q.previousHash = r.previousHash => q = r
               PROVE  Valid
    BY DEF InvalidMeansDamaged
  <2>1. Known(rows, appended)
    BY IInvKnown
  <2> QED BY <2>1, WholeIsFaultless, ValidIsFaultless
<1> QED BY <1>1, Invariance, PTL

-----------------------------------------------------------------------------
(* What no damage means.                                                   *)

UndamagedInv == Texts = {} /\ damages = 0 => rows = appended /\ Faulty(rows) = {}

(* A row after all others, chained to the last of them, adds no fault.     *)
LEMMA NextRowIsFaultless ==
  ASSUME NEW R \in SUBSET Row(Content), NEW r \in Row(Content),
         \A s \in R : s.sequence < r.sequence,
         Faulty(R) = {}, r.previousHash = LastHash(R), ~ContentChanged(r)
  PROVE  Faulty(R \cup {r}) = {}
<1>1. Earlier(R \cup {r}, r) = R
  BY DEF Earlier, Row
<1>2. \A s \in R : Earlier(R \cup {r}, s) = Earlier(R, s)
  BY DEF Earlier, Row
<1> QED BY <1>1, <1>2 DEF Faulty, LinkBroken

(* Without damage the table is what was appended, and no append breaks the *)
(* chain of it.                                                            *)
LEMMA UndamagedStep ==
  ASSUME IInv, IInv', UndamagedInv, [Next]_vars
  PROVE  UndamagedInv'
<1>1. ASSUME NEW body \in Bodies, AppendRow(body), Texts = {}, damages = 0
      PROVE  rows' = appended' /\ Faulty(rows') = {}
  <2>1. PICK n \in FreeNumbers \ {0} : (\A q \in appended : q.sequence < n) /\ AppendAs(body, n)
    BY <1>1 DEF AppendRow
  <2>2. PICK row :
          /\ row = [sequence     |-> n,
                    content      |-> [eventId |-> Drawn + 1, body |-> body],
                    previousHash |-> LastHash(rows),
                    rowHash      |-> computeRowHash([eventId |-> Drawn + 1, body |-> body],
                                                    LastHash(rows))]
          /\ rows' = rows \cup {row}
          /\ appended' = appended \cup {row}
    BY <1>1, <2>1 DEF AppendAs, Jsonb
  <2>3. row.sequence = n /\ row.previousHash = LastHash(rows) /\ ~ContentChanged(row)
    BY <2>2 DEF ContentChanged
  <2>4. row \in Row(Content) /\ rows \in SUBSET Row(Content)
    BY <2>2 DEF IInv, TypeOK
  <2>5. rows = appended /\ Faulty(rows) = {}
    BY <1>1 DEF UndamagedInv
  <2>6. Faulty(rows \cup {row}) = {}
    BY <2>1, <2>3, <2>4, <2>5, NextRowIsFaultless
  <2> QED BY <2>2, <2>5, <2>6
<1>2. ASSUME NEW body \in Bodies, AppendRow(body) PROVE UndamagedInv'
  <2>1. damages' = damages
    BY <1>2 DEF AppendRow
  <2> QED BY <1>1, <1>2, <2>1 DEF UndamagedInv
<1>3. ASSUME Forge \/ \E r \in rows : Lose(r) \/ Change(r) PROVE UndamagedInv'
  <2>1. damages' # 0
    BY <1>3 DEF IInv, TypeOK, Lose, Change, Forge, Damage
  <2> QED BY <2>1 DEF UndamagedInv
<1>4. CASE UNCHANGED vars
  BY <1>4 DEF UndamagedInv, vars
<1> QED BY <1>2, <1>3, <1>4 DEF Next

(* A ledger that nothing but appendEvent touched is valid, if no payload   *)
(* changes in the JSONB column.                                            *)
THEOREM AppendsAreValid ==
  ASSUME Texts = {}
  PROVE  Spec => []AppendedIsValid
<1>1. Init => UndamagedInv
  BY DEF Init, UndamagedInv, Faulty
<1>2. IInv /\ IInv' /\ UndamagedInv /\ [Next]_vars => UndamagedInv'
  BY UndamagedStep
<1>3. UndamagedInv => AppendedIsValid
  BY ValidIsFaultless DEF UndamagedInv, AppendedIsValid
<1> QED BY <1>1, <1>2, <1>3, Invariance, PTL DEF Spec
=============================================================================
