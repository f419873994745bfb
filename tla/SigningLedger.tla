--------------------------- MODULE SigningLedger ---------------------------
(***************************************************************************)
(* PgSigningLogger.appendEvent (lib/pg-signing-logger.js) run by concurrent *)
(* clients against PostgreSQL.                                             *)
(*                                                                         *)
(* A client walks through the statements of one transaction, in the order  *)
(* of the code: connect, BEGIN, pg_advisory_xact_lock, SELECT the last     *)
(* row_hash, compute the new row, INSERT, COMMIT.  The server side is a    *)
(* backend per connection, with the transaction it runs, the rows it has   *)
(* inserted and not committed, and the advisory lock.                      *)
(*                                                                         *)
(* What can go wrong is part of the model: a statement may be refused by   *)
(* the server, hashing the payload may throw, and a connection may break   *)
(* at any point (a process crash included).  The backend of a broken       *)
(* connection is orphaned: it keeps its lock until the server notices, and *)
(* a COMMIT it had received may still take effect.                         *)
(*                                                                         *)
(* The isolation level is PostgreSQL's default, READ COMMITTED, which the  *)
(* code does not change: each statement sees the rows committed when it    *)
(* starts.                                                                 *)
(***************************************************************************)
EXTENDS HashChain

CONSTANTS
  Clients,    \* callers of appendEvent, in any number of processes
  Backends,   \* server processes, one per open connection
  NoBackend,  \* no connection; nobody holds the lock
  PoolSize,   \* connections the clients' pg.Pool may have open (its `max`)
  Bodies,     \* what a caller wants recorded: event type, payload, signature
  MaxEvents   \* bound on the number of event ids drawn

ASSUME BackendAssumption == NoBackend \notin Backends
ASSUME BodiesAssumption == Bodies # {}
ASSUME BoundAssumption == PoolSize \in Nat /\ MaxEvents \in Nat

VARIABLES
  pc,       \* pc[c]: the await at which client c stands
  conn,     \* conn[c]: the backend of the connection c has checked out
  draft,    \* draft[c]: the row c is building
  tx,       \* tx[b]: the state of backend b's transaction
  lock,     \* the backend holding the advisory lock
  pending,  \* pending[b]: rows inserted by b's open transaction
  rows,     \* the committed rows of signing_events
  nextSeq,  \* the BIGSERIAL sequence; never rolled back
  issued,   \* how many UUIDs have been drawn
  acked     \* rows whose append returned to its caller

vars == <<pc, conn, draft, tx, lock, pending, rows, nextSeq, issued, acked>>

Content == [eventId : Nat, body : Bodies]

(* A row about which nothing is known yet but the body to record.          *)
Blank(body) == [sequence     |-> 0,
                content      |-> [eventId |-> 0, body |-> body],
                previousHash |-> GENESIS_HASH,
                rowHash      |-> GENESIS_HASH]

AnyBody == CHOOSE body \in Bodies : TRUE

PCs == {"idle", "connect", "begin", "lock", "read", "hash", "insert",
        "commit", "committing", "rollback"}

TxStates == {"none", "open", "committing", "committed", "failed"}

TypeOK ==
  /\ pc \in [Clients -> PCs]
  /\ conn \in [Clients -> Backends \cup {NoBackend}]
  /\ draft \in [Clients -> Row(Content)]
  /\ tx \in [Backends -> TxStates]
  /\ lock \in Backends \cup {NoBackend}
  /\ pending \in [Backends -> SUBSET Row(Content)]
  /\ rows \in SUBSET Row(Content)
  /\ nextSeq \in Nat
  /\ issued \in Nat
  /\ acked \in SUBSET Row(Content)

Init ==
  /\ pc = [c \in Clients |-> "idle"]
  /\ conn = [c \in Clients |-> NoBackend]
  /\ draft = [c \in Clients |-> Blank(AnyBody)]
  /\ tx = [b \in Backends |-> "none"]
  /\ lock = NoBackend
  /\ pending = [b \in Backends |-> {}]
  /\ rows = {}
  /\ nextSeq = 1
  /\ issued = 0
  /\ acked = {}

-----------------------------------------------------------------------------
(* Helpers.                                                                *)

Connected(b) == \E c \in Clients : conn[c] = b

CheckedOut == {c \in Clients : conn[c] # NoBackend}

(* What the end of a transaction does on the server.                       *)
Unlock(b) == lock' = IF lock = b THEN NoBackend ELSE lock
Discard(b) == pending' = [pending EXCEPT ![b] = {}]

Goto(c, label) == pc' = [pc EXCEPT ![c] = label]

(* The call is over for the caller.                                        *)
Finish(c) ==
  /\ Goto(c, "idle")
  /\ conn' = [conn EXCEPT ![c] = NoBackend]
  /\ draft' = [draft EXCEPT ![c] = Blank(AnyBody)]

-----------------------------------------------------------------------------
(* Plausible bugs, each in place of the action named in the comment, to    *)
(* see that the properties notice them.                                    *)

(* AcquireLock: pg_try_advisory_xact_lock, its result ignored.             *)
AcquireLockUnchecked(c) ==
  /\ pc[c] = "lock"
  /\ lock' = IF lock = NoBackend THEN conn[c] ELSE lock
  /\ Goto(c, "read")
  /\ UNCHANGED <<conn, draft, tx, pending, rows, nextSeq, issued, acked>>

InsertAs(c, row, next) ==
  /\ pc[c] = "insert"
  /\ pending' = [pending EXCEPT ![conn[c]] = @ \cup {row}]
  /\ draft' = [draft EXCEPT ![c] = row]
  /\ nextSeq' = next
  /\ Goto(c, "commit")
  /\ UNCHANGED <<conn, tx, rows, issued, acked>>

(* Insert: the lock is given back before COMMIT.                           *)
InsertThenUnlock(c) ==
  /\ InsertAs(c, [draft[c] EXCEPT !.sequence = nextSeq], nextSeq + 1)
  /\ Unlock(conn[c])

(* Insert: the number is drawn and the sequence not advanced.              *)
InsertSameSequence(c) ==
  /\ InsertAs(c, [draft[c] EXCEPT !.sequence = nextSeq], nextSeq)
  /\ UNCHANGED lock

(* CommitReply: the query of COMMIT is not awaited.                        *)
CommitUnawaited(c) ==
  /\ pc[c] = "committing"
  /\ tx' = [tx EXCEPT ![conn[c]] = IF @ = "committed" THEN "none" ELSE @]
  /\ acked' = acked \cup {draft[c]}
  /\ Finish(c)
  /\ UNCHANGED <<lock, pending, rows, nextSeq, issued>>

(* Rollback: release() is called on the way of success only.               *)
RollbackWithoutRelease(c) ==
  /\ pc[c] = "rollback"
  /\ tx' = [tx EXCEPT ![conn[c]] = "none"]
  /\ Discard(conn[c])
  /\ Unlock(conn[c])
  /\ Goto(c, "idle")
  /\ UNCHANGED <<conn, draft, rows, nextSeq, issued, acked>>

-----------------------------------------------------------------------------
(* The statements of appendEvent, each with the server's execution of it.  *)

(* A call with valid arguments; the bound leaves an id for every call in   *)
(* progress, so no call is stopped half-way.                               *)
Call(c, body) ==
  /\ pc[c] = "idle"
  /\ issued + Cardinality({d \in Clients : pc[d] # "idle"}) < MaxEvents
  /\ draft' = [draft EXCEPT ![c] = Blank(body)]
  /\ Goto(c, "connect")
  /\ UNCHANGED <<conn, tx, lock, pending, rows, nextSeq, issued, acked>>

(* pool.connect() waits until the pool has a connection to give.           *)
Connect(c) ==
  /\ pc[c] = "connect"
  /\ Cardinality(CheckedOut) < PoolSize
  /\ \E b \in Backends :
       /\ tx[b] = "none"
       /\ ~Connected(b)
       /\ conn' = [conn EXCEPT ![c] = b]
  /\ Goto(c, "begin")
  /\ UNCHANGED <<draft, tx, lock, pending, rows, nextSeq, issued, acked>>

Begin(c) ==
  /\ pc[c] = "begin"
  /\ tx' = [tx EXCEPT ![conn[c]] = "open"]
  /\ Goto(c, "lock")
  /\ UNCHANGED <<conn, draft, lock, pending, rows, nextSeq, issued, acked>>

AcquireLock(c) ==
  /\ pc[c] = "lock"
  /\ lock = NoBackend
  /\ lock' = conn[c]
  /\ Goto(c, "read")
  /\ UNCHANGED <<conn, draft, tx, pending, rows, nextSeq, issued, acked>>

ReadLast(c) ==
  /\ pc[c] = "read"
  /\ draft' = [draft EXCEPT ![c].previousHash = LastHash(rows)]
  /\ Goto(c, "hash")
  /\ UNCHANGED <<conn, tx, lock, pending, rows, nextSeq, issued, acked>>

(* crypto.randomUUID() and the await of computeRowHash.                    *)
ComputeHash(c) ==
  /\ pc[c] = "hash"
  /\ issued' = issued + 1
  /\ LET content == [draft[c].content EXCEPT !.eventId = issued + 1]
     IN  draft' = [draft EXCEPT ![c] =
                     [@ EXCEPT !.content = content,
                               !.rowHash = computeRowHash(content, draft[c].previousHash)]]
  /\ Goto(c, "insert")
  /\ UNCHANGED <<conn, tx, lock, pending, rows, nextSeq, acked>>

Insert(c) ==
  /\ pc[c] = "insert"
  /\ LET row == [draft[c] EXCEPT !.sequence = nextSeq]
     IN  /\ pending' = [pending EXCEPT ![conn[c]] = @ \cup {row}]
         /\ draft' = [draft EXCEPT ![c] = row]
  /\ nextSeq' = nextSeq + 1
  /\ Goto(c, "commit")
  /\ UNCHANGED <<conn, tx, lock, rows, issued, acked>>

SendCommit(c) ==
  /\ pc[c] = "commit"
  /\ tx' = [tx EXCEPT ![conn[c]] = "committing"]
  /\ Goto(c, "committing")
  /\ UNCHANGED <<conn, draft, lock, pending, rows, nextSeq, issued, acked>>

(* The server commits: the rows become visible and the lock is released.   *)
ServerCommit(b) ==
  /\ tx[b] = "committing"
  /\ rows' = rows \cup pending[b]
  /\ tx' = [tx EXCEPT ![b] = "committed"]
  /\ Discard(b)
  /\ Unlock(b)
  /\ UNCHANGED <<pc, conn, draft, nextSeq, issued, acked>>

(* The reply to COMMIT arrives, the client is released, the call returns.  *)
CommitReply(c) ==
  /\ pc[c] = "committing"
  /\ tx[conn[c]] = "committed"
  /\ tx' = [tx EXCEPT ![conn[c]] = "none"]
  /\ acked' = acked \cup {draft[c]}
  /\ Finish(c)
  /\ UNCHANGED <<lock, pending, rows, nextSeq, issued>>

-----------------------------------------------------------------------------
(* What interrupts it.                                                     *)

(* pool.connect() rejects: it stands before the try, nothing was done.     *)
ConnectFails(c) ==
  /\ pc[c] = "connect"
  /\ Finish(c)
  /\ UNCHANGED <<tx, lock, pending, rows, nextSeq, issued, acked>>

(* The server answers a statement with an error.  That aborts the          *)
(* transaction at once: its rows and its lock are gone before the client   *)
(* reads the answer.  A failed INSERT may have drawn a sequence number.    *)
StatementFails(c) ==
  /\ pc[c] \in {"begin", "lock", "read", "insert", "committing"}
  /\ tx[conn[c]] # "committed"
  /\ tx' = [tx EXCEPT ![conn[c]] = "failed"]
  /\ Discard(conn[c])
  /\ Unlock(conn[c])
  /\ \/ UNCHANGED nextSeq
     \/ pc[c] = "insert" /\ nextSeq' = nextSeq + 1
  /\ Goto(c, "rollback")
  /\ UNCHANGED <<conn, draft, rows, issued, acked>>

(* The payload cannot be canonicalized: no statement failed, so the        *)
(* transaction is still open and holds the lock.                           *)
HashFails(c) ==
  /\ pc[c] = "hash"
  /\ Goto(c, "rollback")
  /\ UNCHANGED <<conn, draft, tx, lock, pending, rows, nextSeq, issued, acked>>

(* ROLLBACK in the catch clause, then release() and rethrow.               *)
Rollback(c) ==
  /\ pc[c] = "rollback"
  /\ tx' = [tx EXCEPT ![conn[c]] = "none"]
  /\ Discard(conn[c])
  /\ Unlock(conn[c])
  /\ Finish(c)
  /\ UNCHANGED <<rows, nextSeq, issued, acked>>

(* The connection breaks, or the client's process dies.  The pending query *)
(* and the ROLLBACK both reject, the pool drops the connection, the caller *)
(* sees an error; the server side is left as it is.                        *)
Disconnect(c) ==
  /\ conn[c] # NoBackend
  /\ Finish(c)
  /\ UNCHANGED <<tx, lock, pending, rows, nextSeq, issued, acked>>

(* The server notices that the peer of backend b is gone.                  *)
BackendAborts(b) ==
  /\ tx[b] # "none"
  /\ ~Connected(b)
  /\ tx' = [tx EXCEPT ![b] = "none"]
  /\ Discard(b)
  /\ Unlock(b)
  /\ UNCHANGED <<pc, conn, draft, rows, nextSeq, issued, acked>>

-----------------------------------------------------------------------------
Next ==
  \/ \E c \in Clients, body \in Bodies : Call(c, body)
  \/ \E c \in Clients :
       \/ Connect(c) \/ Begin(c) \/ AcquireLock(c) \/ ReadLast(c)
       \/ ComputeHash(c) \/ Insert(c) \/ SendCommit(c) \/ CommitReply(c)
       \/ ConnectFails(c) \/ StatementFails(c) \/ HashFails(c)
       \/ Rollback(c) \/ Disconnect(c)
  \/ \E b \in Backends : ServerCommit(b) \/ BackendAborts(b)

Spec == Init /\ [][Next]_vars

(* The statements of a call proceed, the server answers and clears dead    *)
(* connections.  pg.Pool serves its waiters and PostgreSQL the waiters of  *)
(* a lock in order of arrival, hence the strong fairness; nothing forces a *)
(* new call or a failure.                                                  *)
Fairness ==
  /\ \A c \in Clients :
       /\ SF_vars(Connect(c))
       /\ SF_vars(AcquireLock(c))
       /\ WF_vars(Begin(c) \/ ReadLast(c) \/ ComputeHash(c) \/ Insert(c)
                    \/ SendCommit(c) \/ CommitReply(c) \/ Rollback(c))
  /\ \A b \in Backends : WF_vars(ServerCommit(b)) /\ WF_vars(BackendAborts(b))

FairSpec == Spec /\ Fairness

-----------------------------------------------------------------------------
(* Properties.                                                             *)

(* Whatever concurrent appends, refused statements, broken connections and *)
(* late COMMITs do, verifyChainIntegrity finds the committed ledger valid  *)
(* at every moment.                                                        *)
ChainIntact == verifySigningEventRows(rows).valid

(* An append that returned is in the ledger with the sequence and hashes   *)
(* the caller was given, and no event id is stored twice.                  *)
AckedIsRecorded ==
  /\ acked \subseteq rows
  /\ \A r, s \in rows : r.content.eventId = s.content.eventId => r = s

(* At most one transaction has uncommitted rows: the lock covers the       *)
(* INSERT up to the end of the transaction, dead clients included.         *)
OneWriter ==
  \A b \in Backends : pending[b] # {} => lock = b

(* The table is the append-only ledger the callers were promised: a commit *)
(* adds one row after all others, whatever gaps the sequence has, and      *)
(* nothing ever changes or removes a row.                                  *)
Entry(r) == [at |-> r.sequence, content |-> r.content]

Ledger == INSTANCE AppendOnlyLedger
            WITH entries <- {Entry(r) : r \in rows},
                 acked   <- {Entry(r) : r \in acked}

ImplementsLedger == Ledger!Spec

(* Every call comes to an end: neither the pool nor the advisory lock is   *)
(* leaked, even by clients that disappear while they hold it.              *)
EveryCallEnds == \A c \in Clients : (pc[c] # "idle") ~> (pc[c] = "idle")

-----------------------------------------------------------------------------
(* Why it works: the inductive invariant behind the safety properties.     *)

HasTx   == {"lock", "read", "hash", "insert", "commit"}
HasLock == {"read", "hash", "insert", "commit"}

(* A connection belongs to one client, and the client's position tells the *)
(* state of the transaction.                                               *)
ConnInv ==
  /\ \A c \in Clients : conn[c] = NoBackend <=> pc[c] \in {"idle", "connect"}
  /\ \A c, d \in Clients : conn[c] = conn[d] /\ conn[c] # NoBackend => c = d
  /\ \A c \in Clients :
       /\ pc[c] = "begin"      => tx[conn[c]] = "none"
       /\ pc[c] \in HasTx      => tx[conn[c]] = "open"
       /\ pc[c] = "committing" => tx[conn[c]] \in {"committing", "committed"}

(* Who holds the lock, and that the lock guards every uncommitted row.     *)
LockInv ==
  /\ \A c \in Clients : pc[c] \in HasLock => lock = conn[c]
  /\ \A b \in Backends :
       /\ pending[b] # {} => lock = b /\ tx[b] \in {"open", "committing"}
       /\ lock = b => tx[b] \in {"open", "committing"}

(* What the client has read or computed under the lock is still right.     *)
DraftInvOf(c) ==
  /\ pc[c] \in {"read", "hash", "insert"} => pending[conn[c]] = {}
  /\ pc[c] \in {"hash", "insert"} => draft[c].previousHash = LastHash(rows)
  /\ pc[c] = "insert" =>
       /\ draft[c].rowHash = computeRowHash(draft[c].content, draft[c].previousHash)
       /\ draft[c].content.eventId <= issued
       /\ \A r \in rows : r.content.eventId # draft[c].content.eventId
  /\ pc[c] = "commit" => pending[conn[c]] = {draft[c]}
  /\ pc[c] = "committing" =>
       IF tx[conn[c]] = "committed" THEN draft[c] \in rows
                                    ELSE pending[conn[c]] = {draft[c]}

DraftInv == \A c \in Clients : DraftInvOf(c)

(* An uncommitted row is the one row that may follow the committed ones.   *)
PendingInv ==
  \A b \in Backends :
    /\ \A r, s \in pending[b] : r = s
    /\ \A r \in pending[b] :
         /\ r.previousHash = LastHash(rows)
         /\ ~ContentChanged(r)
         /\ r.sequence < nextSeq
         /\ r.content.eventId <= issued
         /\ \A s \in rows : /\ s.sequence < r.sequence
                            /\ s.content.eventId # r.content.eventId

RowsInv ==
  /\ \A r \in rows : r.sequence < nextSeq /\ r.content.eventId <= issued
  /\ rows # {} => \E r \in rows : \A s \in rows : s.sequence <= r.sequence
  /\ \A r, s \in rows : r.sequence = s.sequence => r = s
  /\ \A r, s \in rows : r.content.eventId = s.content.eventId => r = s
  /\ Faulty(rows) = {}
  /\ acked \subseteq rows

IInv == TypeOK /\ ConnInv /\ LockInv /\ DraftInv /\ PendingInv /\ RowsInv
=============================================================================
