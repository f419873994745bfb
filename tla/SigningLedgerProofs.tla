------------------------ MODULE SigningLedgerProofs ------------------------
(***************************************************************************)
(* Proofs about SigningLedger, for any number of clients and backends, any *)
(* pool size and any bound on the events.                                  *)
(***************************************************************************)
EXTENDS SigningLedger, TLAPS

-----------------------------------------------------------------------------
(* Facts about rows and chains.                                            *)

(* The draft a call starts from is a row.                                  *)
LEMMA BlankIsRow ==
  ASSUME NEW body \in Bodies
  PROVE  Blank(body) \in Row(Content)
BY DEF Blank, Row, Content, GENESIS_HASH

(* Init and Finish reset a draft to some body.                             *)
LEMMA AnyBodyIsBody == AnyBody \in Bodies
BY BodiesAssumption DEF AnyBody

(* The hash before the first row is a hash like the others.                *)
LEMMA GenesisType == GENESIS_HASH \in Seq(Content)
BY DEF GENESIS_HASH

(* computeRowHash gives a hash for any event and previous hash.            *)
LEMMA RowHashType ==
  ASSUME NEW content \in Content, NEW hash \in Seq(Content)
  PROVE  computeRowHash(content, hash) \in Seq(Content)
BY DEF computeRowHash

(* A row that no other row follows is the one LIMIT 1 returns.             *)
LEMMA LastRowIs ==
  ASSUME NEW R \in SUBSET Row(Content), NEW r \in R,
         \A s \in R : s.sequence <= r.sequence,
         \A s, t \in R : s.sequence = t.sequence => s = t
  PROVE  LastRow(R) = r
<1> DEFINE last == LastRow(R)
<1>1. last \in R /\ \A s \in R : s.sequence <= last.sequence
  BY DEF LastRow
<1>2. last.sequence \in Nat /\ r.sequence \in Nat
  BY <1>1 DEF Row
<1>3. last.sequence = r.sequence
  BY <1>1, <1>2
<1> QED BY <1>1, <1>3

(* What SELECT ... LIMIT 1 gives the append to chain to is a hash.         *)
LEMMA LastHashType ==
  ASSUME NEW R \in SUBSET Row(Content),
         R # {} => \E r \in R : \A s \in R : s.sequence <= r.sequence
  PROVE  LastHash(R) \in Seq(Content)
<1>1. CASE R = {}
  BY <1>1, GenesisType DEF LastHash
<1>2. CASE R # {}
  <2>1. LastRow(R) \in R
    BY <1>2 DEF LastRow
  <2> QED BY <1>2, <2>1 DEF LastHash, Row
<1> QED BY <1>1, <1>2

(* Adding a row after all others: it becomes the last one, the rows before *)
(* an old row are what they were, and the chain stays without fault.       *)
LEMMA AddedRowIsLast ==
  ASSUME NEW R \in SUBSET Row(Content), NEW r \in Row(Content),
         \A s \in R : s.sequence < r.sequence,
         \A s, t \in R : s.sequence = t.sequence => s = t
  PROVE  LastHash(R \cup {r}) = r.rowHash
<1>1. \A s, t \in R \cup {r} : s.sequence = t.sequence => s = t
  BY DEF Row
<1>2. \A s \in R \cup {r} : s.sequence <= r.sequence
  BY DEF Row
<1>3. LastRow(R \cup {r}) = r
  BY <1>1, <1>2, LastRowIs
<1> QED BY <1>3 DEF LastHash

(* Adding a row after all others, chained to the last of them, leaves the  *)
(* table without a fault for the verifier to find.                         *)
LEMMA AddedRowKeepsChain ==
  ASSUME NEW R \in SUBSET Row(Content), NEW r \in Row(Content),
         \A s \in R : s.sequence < r.sequence,
         Faulty(R) = {}, r.previousHash = LastHash(R), ~ContentChanged(r)
  PROVE  Faulty(R \cup {r}) = {}
<1>1. Earlier(R \cup {r}, r) = R
  BY DEF Earlier, Row
<1>2. ASSUME NEW s \in R PROVE Earlier(R \cup {r}, s) = Earlier(R, s)
  <2>1. ~(r.sequence < s.sequence)
    BY DEF Row
  <2> QED BY <2>1 DEF Earlier
<1>3. ~LinkBroken(R \cup {r}, r)
  BY <1>1 DEF LinkBroken
<1>4. ASSUME NEW s \in R
      PROVE  ~LinkBroken(R \cup {r}, s) /\ ~ContentChanged(s)
  <2>1. ~LinkBroken(R, s) /\ ~ContentChanged(s)
    BY DEF Faulty
  <2> QED BY <2>1, <1>2 DEF LinkBroken
<1> QED BY <1>3, <1>4 DEF Faulty

-----------------------------------------------------------------------------
(* The inductive invariant, one lemma per action.                          *)

(* A new call of appendEvent keeps the invariant.                          *)
LEMMA CallStep ==
  ASSUME IInv, NEW c \in Clients, NEW body \in Bodies, Call(c, body)
  PROVE  IInv'
<1> USE BackendAssumption DEF IInv, Call, Goto
<1>1. TypeOK'
  BY BlankIsRow DEF TypeOK, PCs
<1>2. ConnInv'
  BY DEF TypeOK, ConnInv, HasTx
<1>3. LockInv'
  BY DEF TypeOK, LockInv, HasLock
<1>4. DraftInv'
  BY DEF TypeOK, DraftInv, DraftInvOf
<1>5. PendingInv' /\ RowsInv'
  BY DEF PendingInv, RowsInv
<1> QED BY <1>1, <1>2, <1>3, <1>4, <1>5

(* Checking a connection out of the pool keeps the invariant: no one else  *)
(* has it and its transaction is over.                                     *)
LEMMA ConnectStep ==
  ASSUME IInv, NEW c \in Clients, Connect(c)
  PROVE  IInv'
<1> USE BackendAssumption DEF IInv, Connect, Goto
<1>1. TypeOK'
  BY DEF TypeOK, PCs
<1>2. ConnInv'
  BY DEF TypeOK, ConnInv, HasTx, Connected
<1>3. LockInv'
  BY DEF TypeOK, LockInv, HasLock
<1>4. DraftInv'
  BY DEF TypeOK, DraftInv, DraftInvOf
<1>5. PendingInv' /\ RowsInv'
  BY DEF PendingInv, RowsInv
<1> QED BY <1>1, <1>2, <1>3, <1>4, <1>5

(* BEGIN keeps the invariant.                                              *)
LEMMA BeginStep ==
  ASSUME IInv, NEW c \in Clients, Begin(c)
  PROVE  IInv'
<1> USE BackendAssumption DEF IInv, Begin, Goto
<1>0. conn[c] \in Backends
  BY DEF TypeOK, ConnInv
<1>1. TypeOK'
  BY DEF TypeOK, PCs, TxStates
<1>2. ConnInv'
  BY <1>0 DEF TypeOK, ConnInv, HasTx
<1>3. LockInv'
  BY <1>0 DEF TypeOK, LockInv, HasLock
<1>4. DraftInv'
  BY <1>0 DEF TypeOK, ConnInv, DraftInv, DraftInvOf
<1>5. PendingInv' /\ RowsInv'
  BY DEF PendingInv, RowsInv
<1> QED BY <1>1, <1>2, <1>3, <1>4, <1>5

(* Taking the advisory lock keeps the invariant: it is free, so no other   *)
(* transaction has rows of its own.                                        *)
LEMMA AcquireLockStep ==
  ASSUME IInv, NEW c \in Clients, AcquireLock(c)
  PROVE  IInv'
<1> USE BackendAssumption DEF IInv, AcquireLock, Goto
<1>0. conn[c] \in Backends /\ tx[conn[c]] = "open"
  BY DEF TypeOK, ConnInv, HasTx
<1>1. TypeOK'
  BY <1>0 DEF TypeOK, PCs
<1>2. ConnInv'
  BY <1>0 DEF TypeOK, ConnInv, HasTx
<1>3. LockInv'
  BY <1>0 DEF TypeOK, ConnInv, LockInv, HasLock
<1>4. DraftInv'
  BY <1>0 DEF TypeOK, ConnInv, LockInv, DraftInv, DraftInvOf
<1>5. PendingInv' /\ RowsInv'
  BY DEF PendingInv, RowsInv
<1> QED BY <1>1, <1>2, <1>3, <1>4, <1>5

(* Reading the last row_hash keeps the invariant: under the lock no commit *)
(* can make it stale.                                                      *)
LEMMA ReadLastStep ==
  ASSUME IInv, NEW c \in Clients, ReadLast(c)
  PROVE  IInv'
<1> USE BackendAssumption DEF IInv, ReadLast, Goto
<1>0. LastHash(rows) \in Seq(Content)
  BY LastHashType DEF TypeOK, RowsInv
<1>1. TypeOK'
  BY <1>0 DEF TypeOK, PCs, Row
<1>2. ConnInv'
  BY DEF TypeOK, ConnInv, HasTx
<1>3. LockInv'
  BY DEF TypeOK, LockInv, HasLock
<1>4. DraftInv'
  BY DEF TypeOK, DraftInv, DraftInvOf, Row
<1>5. PendingInv' /\ RowsInv'
  BY DEF PendingInv, RowsInv
<1> QED BY <1>1, <1>2, <1>3, <1>4, <1>5

(* Drawing the event id and hashing the row keeps the invariant: the id is *)
(* new to the table and to every open transaction.                         *)
LEMMA ComputeHashStep ==
  ASSUME IInv, NEW c \in Clients, ComputeHash(c)
  PROVE  IInv'
<1> USE BackendAssumption DEF IInv, ComputeHash, Goto
<1> DEFINE content == [draft[c].content EXCEPT !.eventId = issued + 1]
           hash    == computeRowHash(content, draft[c].previousHash)
           row     == [draft[c] EXCEPT !.content = content, !.rowHash = hash]
<1>0. /\ content \in Content
      /\ content.eventId = issued + 1
      /\ hash \in Seq(Content)
      /\ row \in Row(Content)
      /\ row.content = content
      /\ row.rowHash = hash
      /\ row.previousHash = draft[c].previousHash
  <2>1. draft[c] \in Row(Content) /\ issued + 1 \in Nat
    BY DEF TypeOK
  <2>2. content \in Content /\ content.eventId = issued + 1
    BY <2>1 DEF Row, Content
  <2>3. hash \in Seq(Content)
    BY <2>1, <2>2, RowHashType DEF Row
  <2> HIDE DEF content, hash
  <2> QED BY <2>1, <2>2, <2>3 DEF Row
<1>a. /\ draft' = [draft EXCEPT ![c] = row]
      /\ pc' = [pc EXCEPT ![c] = "insert"]
      /\ issued' = issued + 1
      /\ UNCHANGED <<conn, tx, lock, pending, rows, nextSeq, acked>>
  OBVIOUS
<1>b. pc[c] = "hash"
  OBVIOUS
<1>c. /\ issued \in Nat
      /\ \A r \in rows : r.content.eventId \in Nat
      /\ \A b \in Backends : \A r \in pending[b] : r.content.eventId \in Nat
      /\ \A d \in Clients : draft[d].content.eventId \in Nat
  BY DEF TypeOK, Row, Content
<1> USE <1>0, <1>a, <1>b
<1> HIDE DEF ComputeHash, Goto, row, content, hash
<1>1. TypeOK'
  BY <1>c DEF TypeOK, PCs
<1>2. ConnInv'
  BY DEF TypeOK, ConnInv, HasTx
<1>3. LockInv'
  BY DEF TypeOK, LockInv, HasLock
<1>4. DraftInv'
  <2>1. draft'[c] = row /\ pc'[c] = "insert"
    BY DEF TypeOK
  <2>2. \A r \in rows : r.content.eventId # issued + 1
    BY <1>c DEF RowsInv
  <2>3. \A d \in Clients : d # c => draft'[d] = draft[d] /\ pc'[d] = pc[d]
    BY DEF TypeOK
  <2>4. row.rowHash = computeRowHash(row.content, row.previousHash)
    BY DEF hash
  <2> SUFFICES ASSUME NEW d \in Clients
               PROVE  DraftInvOf(d)'
    BY DEF DraftInv
  <2>5. CASE d = c
    BY <1>c, <2>1, <2>2, <2>4, <2>5 DEF DraftInv, DraftInvOf
  <2>6. CASE d # c
    <3>1. draft[d].content.eventId <= issued => draft[d].content.eventId <= issued'
      BY <1>c
    <3>2. DraftInvOf(d) /\ draft'[d] = draft[d] /\ pc'[d] = pc[d]
      BY <2>3, <2>6 DEF DraftInv
    <3> QED BY <3>1, <3>2 DEF DraftInvOf
  <2> QED BY <2>5, <2>6
<1>5. PendingInv'
  BY <1>c DEF PendingInv
<1>6. RowsInv'
  BY <1>c DEF RowsInv
<1> QED BY <1>1, <1>2, <1>3, <1>4, <1>5, <1>6

(* INSERT keeps the invariant: the new row follows every committed row and *)
(* is the only uncommitted one.                                            *)
LEMMA InsertStep ==
  ASSUME IInv, NEW c \in Clients, Insert(c)
  PROVE  IInv'
<1> USE BackendAssumption DEF IInv
<1> DEFINE row == [draft[c] EXCEPT !.sequence = nextSeq]
<1>0. /\ draft[c] \in Row(Content)
      /\ row \in Row(Content)
      /\ row.sequence = nextSeq
      /\ row.content = draft[c].content
      /\ row.rowHash = draft[c].rowHash
      /\ row.previousHash = draft[c].previousHash
  BY DEF TypeOK, Row
<1>a. /\ draft' = [draft EXCEPT ![c] = row]
      /\ pending' = [pending EXCEPT ![conn[c]] = @ \cup {row}]
      /\ pc' = [pc EXCEPT ![c] = "commit"]
      /\ nextSeq' = nextSeq + 1
      /\ UNCHANGED <<conn, tx, lock, rows, issued, acked>>
      /\ pc[c] = "insert"
  BY DEF Insert, Goto
<1> HIDE DEF row
<1>b. /\ conn[c] \in Backends
      /\ tx[conn[c]] = "open"
      /\ lock = conn[c]
      /\ pending[conn[c]] = {}
  BY <1>a DEF TypeOK, ConnInv, LockInv, DraftInv, DraftInvOf, HasTx, HasLock
<1>c. /\ pending'[conn[c]] = {row}
      /\ \A b \in Backends : b # conn[c] => pending'[b] = {} /\ pending[b] = {}
  BY <1>a, <1>b DEF TypeOK, LockInv
<1>1. TypeOK'
  BY <1>0, <1>a, <1>b, <1>c DEF TypeOK, PCs
<1>2. ConnInv'
  BY <1>a DEF TypeOK, ConnInv, HasTx
<1>3. LockInv'
  BY <1>a, <1>b, <1>c DEF TypeOK, LockInv, HasLock
<1>4. DraftInv'
  <2> SUFFICES ASSUME NEW d \in Clients
               PROVE  DraftInvOf(d)'
    BY DEF DraftInv
  <2>1. CASE d = c
    BY <2>1, <1>a, <1>c DEF TypeOK, DraftInvOf
  <2>2. CASE d # c
    <3>1. /\ draft'[d] = draft[d]
          /\ pc'[d] = pc[d]
          /\ DraftInvOf(d)
      BY <2>2, <1>a DEF TypeOK, DraftInv
    <3>2. pc[d] \notin HasLock
      BY <2>2, <1>a, <1>b DEF LockInv, ConnInv, HasLock
    <3>3. CASE pc[d] = "committing"
      <4>1. conn[d] \in Backends /\ conn[d] # conn[c]
        BY <3>3, <2>2, <1>b DEF TypeOK, ConnInv
      <4>2. pending'[conn[d]] = pending[conn[d]]
        BY <4>1, <1>a, <1>b DEF TypeOK
      <4> QED BY <3>1, <3>3, <4>2, <1>a DEF DraftInvOf
    <3>4. CASE pc[d] # "committing"
      BY <3>1, <3>2, <3>4 DEF DraftInvOf, HasLock
    <3> QED BY <3>3, <3>4
  <2> QED BY <2>1, <2>2
<1>5. PendingInv'
  <2>1. /\ row.previousHash = LastHash(rows)
        /\ ~ContentChanged(row)
        /\ row.content.eventId <= issued
        /\ \A s \in rows : s.content.eventId # row.content.eventId
    BY <1>0, <1>a DEF DraftInv, DraftInvOf, ContentChanged
  <2>2. row.sequence < nextSeq + 1 /\ \A s \in rows : s.sequence < row.sequence
    BY <1>0 DEF TypeOK, RowsInv
  <2> QED BY <1>a, <1>c, <2>1, <2>2 DEF PendingInv
<1>6. RowsInv'
  <2>1. \A r \in rows : r.sequence < nextSeq + 1
    BY DEF TypeOK, Row, RowsInv
  <2> QED BY <1>a, <2>1 DEF RowsInv
<1> QED BY <1>1, <1>2, <1>3, <1>4, <1>5, <1>6

(* Sending COMMIT keeps the invariant: the server still holds the lock and *)
(* the row.                                                                *)
LEMMA SendCommitStep ==
  ASSUME IInv, NEW c \in Clients, SendCommit(c)
  PROVE  IInv'
<1> USE BackendAssumption DEF IInv
<1>a. /\ tx' = [tx EXCEPT ![conn[c]] = "committing"]
      /\ pc' = [pc EXCEPT ![c] = "committing"]
      /\ UNCHANGED <<conn, draft, lock, pending, rows, nextSeq, issued, acked>>
      /\ pc[c] = "commit"
  BY DEF SendCommit, Goto
<1>b. /\ conn[c] \in Backends
      /\ tx[conn[c]] = "open"
      /\ lock = conn[c]
      /\ pending[conn[c]] = {draft[c]}
  BY <1>a DEF TypeOK, ConnInv, LockInv, DraftInv, DraftInvOf, HasTx, HasLock
<1>1. TypeOK'
  BY <1>a, <1>b DEF TypeOK, PCs, TxStates
<1>2. ConnInv'
  BY <1>a, <1>b DEF TypeOK, ConnInv, HasTx
<1>3. LockInv'
  BY <1>a, <1>b DEF TypeOK, LockInv, HasLock
<1>4. DraftInv'
  BY <1>a, <1>b DEF TypeOK, ConnInv, DraftInv, DraftInvOf
<1>5. PendingInv' /\ RowsInv'
  BY <1>a DEF PendingInv, RowsInv
<1> QED BY <1>1, <1>2, <1>3, <1>4, <1>5

(* The step that extends the ledger.                                       *)
LEMMA ServerCommitStep ==
  ASSUME IInv, NEW b \in Backends, ServerCommit(b)
  PROVE  IInv'
<1> USE BackendAssumption DEF IInv
<1>a. /\ rows' = rows \cup pending[b]
      /\ tx' = [tx EXCEPT ![b] = "committed"]
      /\ pending' = [pending EXCEPT ![b] = {}]
      /\ lock' = IF lock = b THEN NoBackend ELSE lock
      /\ UNCHANGED <<pc, conn, draft, nextSeq, issued, acked>>
      /\ tx[b] = "committing"
  BY DEF ServerCommit, Discard, Unlock
<1>b. \A c \in Clients : pc[c] \in HasTx => conn[c] # b
  BY <1>a DEF ConnInv
<1>c. \/ pending[b] = {} /\ rows' = rows
      \/ /\ lock = b
         /\ \E r \in Row(Content) : pending[b] = {r} /\ rows' = rows \cup {r}
  <2>1. CASE pending[b] = {}
    BY <2>1, <1>a
  <2>2. CASE pending[b] # {}
    <3>1. PICK r \in pending[b] : TRUE
      BY <2>2
    <3>2. pending[b] = {r} /\ r \in Row(Content) /\ lock = b
      BY <3>1 DEF PendingInv, LockInv, TypeOK
    <3> QED BY <3>2, <1>a
  <2> QED BY <2>1, <2>2
<1>1. TypeOK'
  BY <1>a DEF TypeOK, TxStates
<1>2. ConnInv'
  BY <1>a, <1>b DEF TypeOK, ConnInv
<1>3. LockInv'
  BY <1>a, <1>b DEF TypeOK, LockInv, HasLock, HasTx
<1>4. DraftInv'
  <2> SUFFICES ASSUME NEW d \in Clients
               PROVE  DraftInvOf(d)'
    BY DEF DraftInv
  <2>1. DraftInvOf(d)
    BY DEF DraftInv
  <2>2. CASE pc[d] \in HasLock
    <3>1. lock = conn[d] /\ conn[d] # b
      BY <2>2, <1>b DEF LockInv, HasLock, HasTx
    <3>2. rows' = rows
      BY <3>1, <1>c
    <3>3. pending'[conn[d]] = pending[conn[d]]
      BY <3>1, <1>a DEF TypeOK
    <3> QED BY <2>1, <2>2, <3>2, <3>3, <1>a DEF DraftInvOf, HasLock
  <2>3. CASE pc[d] = "committing" /\ conn[d] = b
    <3>1. pending[b] = {draft[d]} /\ tx'[b] = "committed" /\ draft[d] \in rows'
      BY <2>1, <2>3, <1>a DEF DraftInvOf, TypeOK
    <3> QED BY <2>3, <3>1, <1>a DEF DraftInvOf
  <2>4. CASE pc[d] = "committing" /\ conn[d] # b
    <3>1. conn[d] \in Backends
      BY <2>4 DEF TypeOK, ConnInv
    <3>2. tx'[conn[d]] = tx[conn[d]] /\ pending'[conn[d]] = pending[conn[d]]
      BY <2>4, <3>1, <1>a DEF TypeOK
    <3> QED BY <2>1, <2>4, <3>2, <1>a DEF DraftInvOf
  <2>5. CASE pc[d] \notin HasLock /\ pc[d] # "committing"
    BY <2>5, <1>a DEF DraftInvOf, HasLock
  <2> QED BY <2>2, <2>3, <2>4, <2>5
<1>5. PendingInv'
  <2>1. CASE rows' = rows
    BY <2>1, <1>a DEF TypeOK, PendingInv
  <2>2. CASE lock = b
    BY <2>2, <1>a DEF TypeOK, LockInv, PendingInv
  <2> QED BY <2>1, <2>2, <1>c
<1>6. RowsInv'
  <2>1. CASE rows' = rows
    BY <2>1, <1>a DEF RowsInv
  <2>2. ASSUME NEW r \in Row(Content), pending[b] = {r}, rows' = rows \cup {r}
        PROVE  RowsInv'
    <3>1. /\ r.previousHash = LastHash(rows)
          /\ ~ContentChanged(r)
          /\ r.sequence < nextSeq
          /\ r.content.eventId <= issued
          /\ \A s \in rows : /\ s.sequence < r.sequence
                             /\ s.content.eventId # r.content.eventId
      BY <2>2 DEF PendingInv
    <3>2. Faulty(rows') = {}
      BY <2>2, <3>1, AddedRowKeepsChain DEF TypeOK, RowsInv
    <3>3. \A s \in rows \cup {r} : s.sequence \in Nat
      BY DEF TypeOK, Row
    <3>4. \A s \in rows' : s.sequence <= r.sequence
      BY <2>2, <3>1, <3>3
    <3>5. \A s, t \in rows' : s.sequence = t.sequence => s = t
      BY <2>2, <3>1, <3>3 DEF RowsInv
    <3> QED BY <2>2, <3>1, <3>2, <3>4, <3>5, <1>a DEF RowsInv
  <2> QED BY <2>1, <2>2, <1>c
<1> QED BY <1>1, <1>2, <1>3, <1>4, <1>5, <1>6

(* Returning to the caller keeps the invariant: the acknowledged row is    *)
(* committed.                                                              *)
LEMMA CommitReplyStep ==
  ASSUME IInv, NEW c \in Clients, CommitReply(c)
  PROVE  IInv'
<1> USE BackendAssumption DEF IInv
<1>a. /\ tx' = [tx EXCEPT ![conn[c]] = "none"]
      /\ acked' = acked \cup {draft[c]}
      /\ pc' = [pc EXCEPT ![c] = "idle"]
      /\ conn' = [conn EXCEPT ![c] = NoBackend]
      /\ draft' = [draft EXCEPT ![c] = Blank(AnyBody)]
      /\ UNCHANGED <<lock, pending, rows, nextSeq, issued>>
      /\ pc[c] = "committing"
      /\ tx[conn[c]] = "committed"
  BY DEF CommitReply, Finish, Goto
<1>b. conn[c] \in Backends /\ draft[c] \in rows
  BY <1>a DEF TypeOK, ConnInv, DraftInv, DraftInvOf
<1>c. Blank(AnyBody) \in Row(Content)
  BY AnyBodyIsBody, BlankIsRow
<1>1. TypeOK'
  BY <1>a, <1>b, <1>c DEF TypeOK, PCs, TxStates
<1>2. ConnInv'
  BY <1>a, <1>b DEF TypeOK, ConnInv, HasTx
<1>3. LockInv'
  BY <1>a, <1>b DEF TypeOK, LockInv, HasLock
<1>4. DraftInv'
  BY <1>a, <1>b DEF TypeOK, ConnInv, DraftInv, DraftInvOf
<1>5. PendingInv' /\ RowsInv'
  BY <1>a, <1>b DEF PendingInv, RowsInv
<1> QED BY <1>1, <1>2, <1>3, <1>4, <1>5

(* A rejected pool.connect() keeps the invariant.                          *)
LEMMA ConnectFailsStep ==
  ASSUME IInv, NEW c \in Clients, ConnectFails(c)
  PROVE  IInv'
<1> USE BackendAssumption DEF IInv
<1>a. /\ pc' = [pc EXCEPT ![c] = "idle"]
      /\ conn' = [conn EXCEPT ![c] = NoBackend]
      /\ draft' = [draft EXCEPT ![c] = Blank(AnyBody)]
      /\ UNCHANGED <<tx, lock, pending, rows, nextSeq, issued, acked>>
  BY DEF ConnectFails, Finish, Goto
<1>c. Blank(AnyBody) \in Row(Content)
  BY AnyBodyIsBody, BlankIsRow
<1>1. TypeOK'
  BY <1>a, <1>c DEF TypeOK, PCs
<1>2. ConnInv'
  BY <1>a DEF TypeOK, ConnInv, HasTx
<1>3. LockInv'
  BY <1>a DEF TypeOK, LockInv, HasLock
<1>4. DraftInv'
  BY <1>a DEF TypeOK, DraftInv, DraftInvOf
<1>5. PendingInv' /\ RowsInv'
  BY <1>a DEF PendingInv, RowsInv
<1> QED BY <1>1, <1>2, <1>3, <1>4, <1>5

(* A refused statement keeps the invariant: lock and row go together.      *)
LEMMA StatementFailsStep ==
  ASSUME IInv, NEW c \in Clients, StatementFails(c)
  PROVE  IInv'
<1> USE BackendAssumption DEF IInv
<1>a. /\ pc[c] \in {"begin", "lock", "read", "insert", "committing"}
      /\ tx[conn[c]] # "committed"
      /\ tx' = [tx EXCEPT ![conn[c]] = "failed"]
      /\ pending' = [pending EXCEPT ![conn[c]] = {}]
      /\ lock' = IF lock = conn[c] THEN NoBackend ELSE lock
      /\ nextSeq' = nextSeq \/ nextSeq' = nextSeq + 1
      /\ pc' = [pc EXCEPT ![c] = "rollback"]
      /\ UNCHANGED <<conn, draft, rows, issued, acked>>
  BY DEF StatementFails, Discard, Unlock, Goto
<1>b. conn[c] \in Backends
  BY <1>a DEF TypeOK, ConnInv
<1>1. TypeOK'
  BY <1>a, <1>b DEF TypeOK, PCs, TxStates
<1>2. ConnInv'
  BY <1>a, <1>b DEF TypeOK, ConnInv, HasTx
<1>3. LockInv'
  BY <1>a, <1>b DEF TypeOK, ConnInv, LockInv, HasLock
<1>4. DraftInv'
  BY <1>a, <1>b DEF TypeOK, ConnInv, DraftInv, DraftInvOf
<1>5. PendingInv'
  BY <1>a, <1>b DEF TypeOK, Row, PendingInv
<1>6. RowsInv'
  BY <1>a DEF TypeOK, Row, RowsInv
<1> QED BY <1>1, <1>2, <1>3, <1>4, <1>5, <1>6

(* A payload that cannot be hashed keeps the invariant: the lock stays     *)
(* with the open transaction until ROLLBACK.                               *)
LEMMA HashFailsStep ==
  ASSUME IInv, NEW c \in Clients, HashFails(c)
  PROVE  IInv'
<1> USE BackendAssumption DEF IInv, HashFails, Goto
<1>1. TypeOK'
  BY DEF TypeOK, PCs
<1>2. ConnInv'
  BY DEF TypeOK, ConnInv, HasTx
<1>3. LockInv'
  BY DEF TypeOK, LockInv, HasLock
<1>4. DraftInv'
  BY DEF TypeOK, DraftInv, DraftInvOf
<1>5. PendingInv' /\ RowsInv'
  BY DEF PendingInv, RowsInv
<1> QED BY <1>1, <1>2, <1>3, <1>4, <1>5

(* ROLLBACK and release() keep the invariant.                              *)
LEMMA RollbackStep ==
  ASSUME IInv, NEW c \in Clients, Rollback(c)
  PROVE  IInv'
<1> USE BackendAssumption DEF IInv
<1>a. /\ pc[c] = "rollback"
      /\ tx' = [tx EXCEPT ![conn[c]] = "none"]
      /\ pending' = [pending EXCEPT ![conn[c]] = {}]
      /\ lock' = IF lock = conn[c] THEN NoBackend ELSE lock
      /\ pc' = [pc EXCEPT ![c] = "idle"]
      /\ conn' = [conn EXCEPT ![c] = NoBackend]
      /\ draft' = [draft EXCEPT ![c] = Blank(AnyBody)]
      /\ UNCHANGED <<rows, nextSeq, issued, acked>>
  BY DEF Rollback, Discard, Unlock, Finish, Goto
<1>b. conn[c] \in Backends
  BY <1>a DEF TypeOK, ConnInv
<1>c. Blank(AnyBody) \in Row(Content)
  BY AnyBodyIsBody, BlankIsRow
<1>1. TypeOK'
  BY <1>a, <1>b, <1>c DEF TypeOK, PCs, TxStates
<1>2. ConnInv'
  BY <1>a, <1>b DEF TypeOK, ConnInv, HasTx
<1>3. LockInv'
  BY <1>a, <1>b DEF TypeOK, ConnInv, LockInv, HasLock
<1>4. DraftInv'
  BY <1>a, <1>b DEF TypeOK, ConnInv, DraftInv, DraftInvOf
<1>5. PendingInv' /\ RowsInv'
  BY <1>a, <1>b DEF TypeOK, PendingInv, RowsInv
<1> QED BY <1>1, <1>2, <1>3, <1>4, <1>5

(* Losing a client keeps the invariant: its backend goes on without it.    *)
LEMMA DisconnectStep ==
  ASSUME IInv, NEW c \in Clients, Disconnect(c)
  PROVE  IInv'
<1> USE BackendAssumption DEF IInv
<1>a. /\ pc' = [pc EXCEPT ![c] = "idle"]
      /\ conn' = [conn EXCEPT ![c] = NoBackend]
      /\ draft' = [draft EXCEPT ![c] = Blank(AnyBody)]
      /\ UNCHANGED <<tx, lock, pending, rows, nextSeq, issued, acked>>
  BY DEF Disconnect, Finish, Goto
<1>c. Blank(AnyBody) \in Row(Content)
  BY AnyBodyIsBody, BlankIsRow
<1>1. TypeOK'
  BY <1>a, <1>c DEF TypeOK, PCs
<1>2. ConnInv'
  BY <1>a DEF TypeOK, ConnInv, HasTx
<1>3. LockInv'
  BY <1>a DEF TypeOK, LockInv, HasLock
<1>4. DraftInv'
  BY <1>a DEF TypeOK, DraftInv, DraftInvOf
<1>5. PendingInv' /\ RowsInv'
  BY <1>a DEF PendingInv, RowsInv
<1> QED BY <1>1, <1>2, <1>3, <1>4, <1>5

(* The server's clean-up of an orphaned backend keeps the invariant.       *)
LEMMA BackendAbortsStep ==
  ASSUME IInv, NEW b \in Backends, BackendAborts(b)
  PROVE  IInv'
<1> USE BackendAssumption DEF IInv
<1>a. /\ \A c \in Clients : conn[c] # b
      /\ tx' = [tx EXCEPT ![b] = "none"]
      /\ pending' = [pending EXCEPT ![b] = {}]
      /\ lock' = IF lock = b THEN NoBackend ELSE lock
      /\ UNCHANGED <<pc, conn, draft, rows, nextSeq, issued, acked>>
  BY DEF BackendAborts, Discard, Unlock, Connected
<1>1. TypeOK'
  BY <1>a DEF TypeOK, TxStates
<1>2. ConnInv'
  BY <1>a DEF TypeOK, ConnInv
<1>3. LockInv'
  BY <1>a DEF TypeOK, LockInv
<1>4. DraftInv'
  BY <1>a DEF TypeOK, ConnInv, DraftInv, DraftInvOf
<1>5. PendingInv' /\ RowsInv'
  BY <1>a DEF TypeOK, PendingInv, RowsInv
<1> QED BY <1>1, <1>2, <1>3, <1>4, <1>5

-----------------------------------------------------------------------------
(* The empty ledger satisfies the invariant.                               *)
LEMMA InitIInv == Init => IInv
<1> SUFFICES ASSUME Init PROVE IInv
  OBVIOUS
<1>1. TypeOK
  BY AnyBodyIsBody, BlankIsRow DEF Init, TypeOK, PCs, TxStates
<1>2. ConnInv /\ LockInv /\ DraftInv
  BY BackendAssumption DEF Init, ConnInv, LockInv, DraftInv, DraftInvOf, HasTx, HasLock
<1>3. PendingInv /\ RowsInv
  BY DEF Init, PendingInv, RowsInv, Faulty
<1> QED BY <1>1, <1>2, <1>3 DEF IInv

(* Every step of a client or the server keeps the invariant.               *)
LEMMA NextIInv == IInv /\ [Next]_vars => IInv'
<1> SUFFICES ASSUME IInv, [Next]_vars PROVE IInv'
  OBVIOUS
<1>1. ASSUME NEW c \in Clients, NEW body \in Bodies, Call(c, body) PROVE IInv'
  BY <1>1, CallStep
<1>2. ASSUME NEW c \in Clients,
             \/ Connect(c) \/ Begin(c) \/ AcquireLock(c) \/ ReadLast(c)
             \/ ComputeHash(c) \/ Insert(c) \/ SendCommit(c) \/ CommitReply(c)
      PROVE  IInv'
  BY <1>2, ConnectStep, BeginStep, AcquireLockStep, ReadLastStep, ComputeHashStep,
     InsertStep, SendCommitStep, CommitReplyStep
<1>3. ASSUME NEW c \in Clients,
             \/ ConnectFails(c) \/ StatementFails(c) \/ HashFails(c)
             \/ Rollback(c) \/ Disconnect(c)
      PROVE  IInv'
  BY <1>3, ConnectFailsStep, StatementFailsStep, HashFailsStep, RollbackStep,
     DisconnectStep
<1>4. ASSUME NEW b \in Backends, ServerCommit(b) \/ BackendAborts(b) PROVE IInv'
  BY <1>4, ServerCommitStep, BackendAbortsStep
<1>5. CASE UNCHANGED vars
  BY <1>5 DEF vars, IInv, TypeOK, ConnInv, LockInv, DraftInv, DraftInvOf,
              PendingInv, RowsInv
<1> QED BY <1>1, <1>2, <1>3, <1>4, <1>5 DEF Next

(* The inductive invariant holds in every reachable state.                 *)
THEOREM Invariance == Spec => []IInv
BY InitIInv, NextIInv, PTL DEF Spec

(* The variables keep their types.                                         *)
THEOREM TypeCorrect == Spec => []TypeOK
<1>1. IInv => TypeOK
  BY DEF IInv
<1> QED BY <1>1, Invariance, PTL

(* The committed ledger passes verifyChainIntegrity at every moment.       *)
THEOREM ChainIsIntact == Spec => []ChainIntact
<1>1. IInv => ChainIntact
  BY DEF IInv, RowsInv, ChainIntact, verifySigningEventRows
<1> QED BY <1>1, Invariance, PTL

(* What was acknowledged is recorded, and no event twice.                  *)
THEOREM AckedAreRecorded == Spec => []AckedIsRecorded
<1>1. IInv => AckedIsRecorded
  BY DEF IInv, RowsInv, AckedIsRecorded
<1> QED BY <1>1, Invariance, PTL

(* The lock covers every uncommitted row.                                  *)
THEOREM OneWriterAtATime == Spec => []OneWriter
<1>1. IInv => OneWriter
  BY DEF IInv, LockInv, OneWriter
<1> QED BY <1>1, Invariance, PTL

-----------------------------------------------------------------------------
(* SigningLedger implements AppendOnlyLedger.  Only two actions change what *)
(* the abstract ledger sees: the server's commit enters a row, and the     *)
(* reply to COMMIT acknowledges one.                                       *)

Entries(R) == {Entry(r) : r \in R}

(* A commit is a step of the abstract ledger: it enters the one row the    *)
(* transaction inserted, or nothing.                                       *)
LEMMA CommitEnters ==
  ASSUME IInv, NEW b \in Backends, ServerCommit(b)
  PROVE  \/ Ledger!Next
         \/ UNCHANGED <<Entries(rows), Entries(acked)>>
<1> USE DEF IInv
<1>1. rows' = rows \cup pending[b] /\ acked' = acked
  BY DEF ServerCommit
<1>2. CASE pending[b] = {}
  BY <1>1, <1>2 DEF Entries
<1>3. CASE pending[b] # {}
  <2>1. PICK r \in pending[b] : TRUE
    BY <1>3
  <2>2. pending[b] = {r} /\ \A s \in rows : /\ s.sequence < r.sequence
                                          /\ s.content.eventId # r.content.eventId
    BY <2>1 DEF PendingInv
  <2>3. Entries(rows') = Entries(rows) \cup {Entry(r)}
    BY <1>1, <2>2 DEF Entries
  <2>4. \A f \in Entries(rows) : f.at < Entry(r).at /\ f.content # Entry(r).content
    BY <2>2 DEF Entries, Entry
  <2>5. Entry(r) \notin Entries(rows)
    BY <2>4
  <2>6. Ledger!Enter(Entry(r))
    BY <1>1, <2>3, <2>4 DEF Ledger!Enter, Entries
  <2>7. Entry(r) \in Entries(rows') \ Entries(rows)
    BY <2>3, <2>5
  <2> QED BY <2>6, <2>7 DEF Ledger!Next, Entries
<1> QED BY <1>2, <1>3

(* The reply to COMMIT is a step of the abstract ledger: it acknowledges a *)
(* row that is there.                                                      *)
LEMMA ReplyAcknowledges ==
  ASSUME IInv, NEW c \in Clients, CommitReply(c)
  PROVE  \/ Ledger!Next
         \/ UNCHANGED <<Entries(rows), Entries(acked)>>
<1>1. rows' = rows /\ acked' = acked \cup {draft[c]}
  BY DEF CommitReply
<1>2. draft[c] \in rows
  BY DEF IInv, CommitReply, DraftInv, DraftInvOf
<1> DEFINE e == Entry(draft[c])
<1>3. Entries(acked') = Entries(acked) \cup {e} /\ e \in Entries(rows)
  BY <1>1, <1>2 DEF Entries
<1>4. CASE e \in Entries(acked)
  BY <1>1, <1>3, <1>4
<1>5. CASE e \notin Entries(acked)
  <2>1. Ledger!Acknowledge(e)
    BY <1>1, <1>3 DEF Ledger!Acknowledge, Entries
  <2>2. e \in Entries(rows) \ Entries(acked)
    BY <1>3, <1>5
  <2> QED BY <2>1, <2>2 DEF Ledger!Next, Entries
<1> QED BY <1>4, <1>5

(* Every other step leaves the abstract ledger as it is.                   *)
LEMMA StepImplements ==
  IInv /\ [Next]_vars => [Ledger!Next]_<<Entries(rows), Entries(acked)>>
<1> SUFFICES ASSUME IInv, [Next]_vars
             PROVE  Ledger!Next \/ UNCHANGED <<Entries(rows), Entries(acked)>>
  OBVIOUS
<1>1. ASSUME NEW b \in Backends, ServerCommit(b)
      PROVE  Ledger!Next \/ UNCHANGED <<Entries(rows), Entries(acked)>>
  BY <1>1, CommitEnters
<1>2. ASSUME NEW c \in Clients, CommitReply(c)
      PROVE  Ledger!Next \/ UNCHANGED <<Entries(rows), Entries(acked)>>
  BY <1>2, ReplyAcknowledges
<1>3. ASSUME UNCHANGED <<rows, acked>>
      PROVE  UNCHANGED <<Entries(rows), Entries(acked)>>
  BY <1>3 DEF Entries
<1>4. \/ UNCHANGED <<rows, acked>>
      \/ \E b \in Backends : ServerCommit(b)
      \/ \E c \in Clients : CommitReply(c)
  BY DEF Next, vars, Call, Connect, Begin, AcquireLock, ReadLast, ComputeHash,
         Insert, SendCommit, ConnectFails, StatementFails, HashFails, Rollback,
         Disconnect, BackendAborts
<1> QED BY <1>1, <1>2, <1>3, <1>4

(* Every behaviour of the concurrent, failing appends is a behaviour of    *)
(* the append-only ledger.                                                 *)
THEOREM Implementation == Spec => ImplementsLedger
<1>1. Init => Ledger!Init
  BY DEF Init, Ledger!Init
<1>2. IInv /\ [Next]_vars
        => [Ledger!Next]_<<{Entry(r) : r \in rows}, {Entry(r) : r \in acked}>>
  BY StepImplements DEF Entries
<1> QED BY <1>1, <1>2, Invariance, PTL DEF Spec, ImplementsLedger, Ledger!Spec
=============================================================================
