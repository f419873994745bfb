-------------------------- MODULE EvidencePipeline --------------------------
(***************************************************************************)
(* EvidenceProcessingService.processEvidence with the evidence store it    *)
(* writes to (lib/evidence-processing-service.js, lib/pg-evidence-store.js) *)
(* and the signing event ledger, run by concurrent callers:                *)
(*                                                                         *)
(*        validate -> sign -> store -> ledger -> return                    *)
(*                                                                         *)
(* Store and ledger are two transactions.  Each call to the database may   *)
(* be answered, refused, or left in doubt: the caller gets an error while  *)
(* the server may still execute the statement, at any later time.  A       *)
(* caller whose ledger write failed holds reconciliation data and may      *)
(* retry appendEvent with it; a caller may also crash.                     *)
(*                                                                         *)
(* appendEvent is one atomic step here, which is what SigningLedger shows  *)
(* it to be (AppendOnlyLedger).                                            *)
(***************************************************************************)
EXTENDS Naturals, FiniteSets

CONSTANTS
  Callers,
  Keys,       \* evidence versions: pairs of evidenceId and version
  Documents,  \* evidence contents, as told apart by their digest
  Valid,      \* the contents that pass the schema
  MaxSigned,  \* bound on the signatures made
  MaxAppends  \* bound on the calls of appendEvent

ASSUME InputAssumption == Keys # {} /\ Documents # {}
ASSUME ValidAssumption == Valid \subseteq Documents
ASSUME BoundAssumption == MaxSigned \in Nat /\ MaxAppends \in Nat

VARIABLES
  pc,           \* pc[w]: the await at which caller w stands
  job,          \* job[w]: what it works on, a record [key, digest, sig]
  error,        \* error[w]: the class of the error its last call ended with
  signed,       \* the signatures made: records [digest, sig]
  stored,       \* the table evidence_versions
  storeDoubt,   \* INSERTs whose caller got an error, not yet executed
  ledger,       \* the evidence.stored events: [event, key, digest, sig]
  ledgerDoubt,  \* appends whose caller got an error, not yet committed
  appends,      \* the number of calls of appendEvent; draws their event ids
  results,      \* what calls returned
  lost          \* jobs that no caller can carry on

vars == <<pc, job, error, signed, stored, storeDoubt, ledger, ledgerDoubt,
          appends, results, lost>>

Job    == [key : Keys, digest : Documents, sig : Nat]
Event  == [event : Nat, key : Keys, digest : Documents, sig : Nat]
AnyJob == [key    |-> CHOOSE k \in Keys : TRUE,
           digest |-> CHOOSE d \in Documents : TRUE,
           sig    |-> 0]

TypeOK ==
  /\ pc \in [Callers -> {"idle", "validate", "sign", "store", "ledger", "reconcile"}]
  /\ job \in [Callers -> Job]
  /\ error \in [Callers -> {"none", "validation", "signing", "exists", "store", "ledger"}]
  /\ signed \in SUBSET [digest : Documents, sig : Nat]
  /\ stored \in SUBSET Job /\ storeDoubt \in SUBSET Job /\ lost \in SUBSET Job
  /\ ledger \in SUBSET Event /\ ledgerDoubt \in SUBSET Event
  /\ results \in SUBSET Event
  /\ appends \in Nat

Init ==
  /\ pc = [w \in Callers |-> "idle"]
  /\ job = [w \in Callers |-> AnyJob]
  /\ error = [w \in Callers |-> "none"]
  /\ signed = {} /\ stored = {} /\ storeDoubt = {} /\ lost = {}
  /\ ledger = {} /\ ledgerDoubt = {} /\ results = {}
  /\ appends = 0

-----------------------------------------------------------------------------
Goto(w, label) == pc' = [pc EXCEPT ![w] = label]

Drop(w) == job' = [job EXCEPT ![w] = AnyJob]

(* A plausible bug in place of Throw: every failure gets one class.        *)
ThrowWrapped(w, class) ==
  /\ Goto(w, "idle")
  /\ error' = [error EXCEPT ![w] = "internal"]

(* processEvidence throws.                                                 *)
Throw(w, class) ==
  /\ Goto(w, "idle")
  /\ error' = [error EXCEPT ![w] = class]

-----------------------------------------------------------------------------
(* Plausible bugs, each in place of the action named in the comment, to    *)
(* see that the properties notice them.                                    *)

(* Taken: the table has no UNIQUE constraint.                              *)
NeverTaken(key) == FALSE

(* StoreFails: the error of the store is only logged.                      *)
StoreFailsIgnored(w) ==
  /\ pc[w] = "store"
  /\ Goto(w, "ledger")
  /\ storeDoubt' \in {storeDoubt, storeDoubt \cup {job[w]}}
  /\ UNCHANGED <<job, error, signed, stored, ledger, ledgerDoubt, appends, results, lost>>

(* LedgerFails: the error carries no reconciliation data.                  *)
LedgerFailsForgets(w) ==
  /\ pc[w] \in {"ledger", "reconcile"}
  /\ appends < MaxAppends
  /\ appends' = appends + 1
  /\ Throw(w, "ledger")
  /\ UNCHANGED <<job, signed, stored, storeDoubt, ledger, ledgerDoubt, results, lost>>

-----------------------------------------------------------------------------
(* The calls, up to the signature.                                         *)

Submit(w, key, digest) ==
  /\ pc[w] = "idle"
  /\ Cardinality(signed) < MaxSigned
  /\ job' = [job EXCEPT ![w] = [key |-> key, digest |-> digest, sig |-> 0]]
  /\ error' = [error EXCEPT ![w] = "none"]
  /\ Goto(w, "validate")
  /\ UNCHANGED <<signed, stored, storeDoubt, ledger, ledgerDoubt, appends, results, lost>>

Validate(w) ==
  /\ pc[w] = "validate"
  /\ \/ job[w].digest \in Valid /\ Goto(w, "sign") /\ UNCHANGED <<job, error>>
     \/ job[w].digest \notin Valid /\ Throw(w, "validation") /\ Drop(w)
  /\ UNCHANGED <<signed, stored, storeDoubt, ledger, ledgerDoubt, appends, results, lost>>

(* ECDSA signatures differ from one call to the next.                      *)
Sign(w) ==
  /\ pc[w] = "sign"
  /\ Cardinality(signed) < MaxSigned
  /\ LET sig == Cardinality(signed) + 1
     IN  /\ signed' = signed \cup {[digest |-> job[w].digest, sig |-> sig]}
         /\ job' = [job EXCEPT ![w].sig = sig]
  /\ Goto(w, "store")
  /\ UNCHANGED <<error, stored, storeDoubt, ledger, ledgerDoubt, appends, results, lost>>

SignFails(w) ==
  /\ pc[w] = "sign"
  /\ Throw(w, "signing")
  /\ Drop(w)
  /\ UNCHANGED <<signed, stored, storeDoubt, ledger, ledgerDoubt, appends, results, lost>>

-----------------------------------------------------------------------------
(* The INSERT into evidence_versions, UNIQUE (evidence_id, version).       *)

Taken(key) == \E row \in stored : row.key = key

StoreOk(w) ==
  /\ pc[w] = "store"
  /\ ~Taken(job[w].key)
  /\ stored' = stored \cup {job[w]}
  /\ Goto(w, "ledger")
  /\ UNCHANGED <<job, error, signed, storeDoubt, ledger, ledgerDoubt, appends, results, lost>>

StoreExists(w) ==
  /\ pc[w] = "store"
  /\ Taken(job[w].key)
  /\ Throw(w, "exists")
  /\ Drop(w)
  /\ UNCHANGED <<signed, stored, storeDoubt, ledger, ledgerDoubt, appends, results, lost>>

(* The query rejects; the statement may have reached the server.  The error *)
(* still carries the signature (signResult).                               *)
StoreFails(w) ==
  /\ pc[w] = "store"
  /\ Throw(w, "store")
  /\ storeDoubt' \in {storeDoubt, storeDoubt \cup {job[w]}}
  /\ lost' = lost \cup {job[w]}
  /\ UNCHANGED <<job, signed, stored, ledger, ledgerDoubt, appends, results>>

(* The server executes an INSERT nobody waits for any more.                *)
LateInsert(row) ==
  /\ storeDoubt' = storeDoubt \ {row}
  /\ stored' = IF Taken(row.key) THEN stored ELSE stored \cup {row}
  /\ UNCHANGED <<pc, job, error, signed, ledger, ledgerDoubt, appends, results, lost>>

-----------------------------------------------------------------------------
(* The ledger write: first by processEvidence, then, if it throws          *)
(* EvidenceLedgerWriteError, by the caller with reconciliationData.        *)

EventOf(w) == [event |-> appends + 1, key |-> job[w].key,
               digest |-> job[w].digest, sig |-> job[w].sig]

CallsAppend(w) ==
  /\ pc[w] \in {"ledger", "reconcile"}
  /\ appends < MaxAppends
  /\ appends' = appends + 1

(* appendEvent returns, and with it processEvidence or the retry.          *)
LedgerOk(w) ==
  /\ CallsAppend(w)
  /\ ledger' = ledger \cup {EventOf(w)}
  /\ results' = IF pc[w] = "ledger" THEN results \cup {EventOf(w)} ELSE results
  /\ error' = [error EXCEPT ![w] = "none"]
  /\ Goto(w, "idle")
  /\ Drop(w)
  /\ UNCHANGED <<signed, stored, storeDoubt, ledgerDoubt, lost>>

(* appendEvent throws; the event is not appended, or not yet.              *)
LedgerFails(w) ==
  /\ CallsAppend(w)
  /\ ledgerDoubt' \in {ledgerDoubt, ledgerDoubt \cup {EventOf(w)}}
  /\ error' = [error EXCEPT ![w] = "ledger"]
  /\ Goto(w, "reconcile")
  /\ UNCHANGED <<job, signed, stored, storeDoubt, ledger, results, lost>>

(* The server commits an append whose caller already got an error.         *)
LateCommit(e) ==
  /\ ledgerDoubt' = ledgerDoubt \ {e}
  /\ ledger' = ledger \cup {e}
  /\ UNCHANGED <<pc, job, error, signed, stored, storeDoubt, appends, results, lost>>

(* The caller's process ends: a job in progress, and reconciliation data,  *)
(* which is kept in memory only, are gone.  An INSERT it had sent may      *)
(* still be executed.                                                      *)
Crash(w) ==
  /\ pc[w] # "idle"
  /\ Goto(w, "idle")
  /\ error' = [error EXCEPT ![w] = "none"]
  /\ Drop(w)
  /\ \/ UNCHANGED storeDoubt
     \/ pc[w] = "store" /\ storeDoubt' = storeDoubt \cup {job[w]}
  /\ lost' = IF pc[w] \in {"store", "ledger", "reconcile"}
             THEN lost \cup {job[w]}
             ELSE lost
  /\ UNCHANGED <<signed, stored, ledger, ledgerDoubt, appends, results>>

-----------------------------------------------------------------------------
Next ==
  \/ \E w \in Callers, key \in Keys, digest \in Documents : Submit(w, key, digest)
  \/ \E w \in Callers :
       \/ Validate(w) \/ Sign(w) \/ SignFails(w)
       \/ StoreOk(w) \/ StoreExists(w) \/ StoreFails(w)
       \/ LedgerOk(w) \/ LedgerFails(w) \/ Crash(w)
  \/ \E row \in storeDoubt : LateInsert(row)
  \/ \E e \in ledgerDoubt : LateCommit(e)

Spec == Init /\ [][Next]_vars

-----------------------------------------------------------------------------
(* Properties.                                                             *)

JobOf(e) == [key |-> e.key, digest |-> e.digest, sig |-> e.sig]

(* docs/architecture.md: Evidence -> Schema -> Sign -> Store -> Ledger.    *)
(* An event in the ledger, or still on its way there, speaks of a stored   *)
(* row with that very digest and signature; a stored row was validated and *)
(* carries a signature made for its content.                               *)
OrderedFlow ==
  /\ \A e \in ledger \cup ledgerDoubt : JobOf(e) \in stored
  /\ \A row \in stored \cup storeDoubt :
       /\ row.digest \in Valid
       /\ [digest |-> row.digest, sig |-> row.sig] \in signed

(* However many callers process the same evidence version, with the same   *)
(* content or not, at most one call returns a result, and what it returned *)
(* is what store and ledger hold.                                          *)
OneResultPerVersion ==
  /\ results \subseteq ledger
  /\ \A r, s \in results : r.key = s.key => r = s
  /\ \A r \in results : \A row \in stored : row.key = r.key => row = JobOf(r)

Ledgered(row) == \E e \in ledger \cup ledgerDoubt : JobOf(e) = row

(* A row that has no ledger event yet is in the hands of a caller that     *)
(* will write or can retry it, unless that caller was lost.                *)
StoredIsCarriedOn ==
  \A row \in stored :
    \/ Ledgered(row)
    \/ row \in lost
    \/ \E w \in Callers : pc[w] \in {"ledger", "reconcile"} /\ job[w] = row

(* To its callers evidence_versions is a map that is written once, however *)
(* many of them store a version, whichever of their INSERTs is executed    *)
(* after they gave up, and whoever crashes between the two writes: the     *)
(* version gets one content and signature, and a call that returned was    *)
(* told these.                                                             *)
Version(j) == [key |-> j.key, value |-> <<j.digest, j.sig>>]

VersionMap == INSTANCE WriteOnce
                WITH entries <- {Version(row) : row \in stored},
                     answers <- {Version(r) : r \in results}

ImplementsWriteOnce == VersionMap!Spec

(* EvidenceStoreWriteError: "Evidence was signed, but could not be stored." *)
StoreErrorMeansNotStored ==
  \A w \in Callers : error[w] = "store" => job[w] \notin stored

(* EvidenceLedgerWriteError: "... the ledger event could not be appended.  *)
(* ... use `reconciliationData` to retry the ledger write."                *)
LedgerErrorMeansNotAppended ==
  \A w \in Callers : error[w] = "ledger" => \A e \in ledger : JobOf(e) # job[w]
=============================================================================
