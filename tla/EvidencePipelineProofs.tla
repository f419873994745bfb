----------------------- MODULE EvidencePipelineProofs -----------------------
(***************************************************************************)
(* Proofs about EvidencePipeline, for any number of callers, evidence      *)
(* versions and contents, and any bound on signatures and appends.         *)
(***************************************************************************)
EXTENDS EvidencePipeline, FiniteSetTheorems, TLAPS

-----------------------------------------------------------------------------
(* The inductive invariant.                                                *)

(* The signatures are numbered as they are made.                           *)
SignedInv ==
  /\ IsFiniteSet(signed)
  /\ \A s \in signed : s.sig <= Cardinality(signed)

(* What a caller has passed on its way: the schema, the signature, the     *)
(* store; and from the signature on, no one else works with it.            *)
CallerInv(w) ==
  /\ pc[w] \in {"sign", "store", "ledger", "reconcile"} => job[w].digest \in Valid
  /\ pc[w] \in {"store", "ledger", "reconcile"} =>
       [digest |-> job[w].digest, sig |-> job[w].sig] \in signed
  /\ pc[w] \in {"ledger", "reconcile"} => job[w] \in stored
  /\ pc[w] = "ledger" => \A r \in results : r.key # job[w].key

OwnerInv ==
  \A v, w \in Callers :
    /\ {pc[v], pc[w]} \subseteq {"store", "ledger", "reconcile"}
    /\ job[v].sig = job[w].sig
    => v = w

(* The table's UNIQUE constraint; an INSERT in doubt has lost its caller.  *)
StoreInv ==
  /\ \A r, s \in stored : r.key = s.key => r = s
  /\ storeDoubt \subseteq lost

ResultInv ==
  /\ results \subseteq ledger
  /\ \A r, s \in results : r.key = s.key => r = s

IInv ==
  /\ TypeOK
  /\ SignedInv
  /\ \A w \in Callers : CallerInv(w)
  /\ OwnerInv
  /\ StoreInv
  /\ ResultInv
  /\ OrderedFlow
  /\ StoredIsCarriedOn
-----------------------------------------------------------------------------
(* Facts about jobs and events.                                            *)

(* Init and Drop reset a caller's job to a job.                            *)
LEMMA AnyJobIsJob == AnyJob \in Job
BY InputAssumption DEF AnyJob, Job

(* The event of an append names the job it is made for.                    *)
LEMMA EventOfJob ==
  ASSUME TypeOK, NEW w \in Callers
  PROVE  EventOf(w) \in Event /\ JobOf(EventOf(w)) = job[w]
BY DEF TypeOK, EventOf, Event, Job, JobOf

(* Events of one evidence version speak of one row.                        *)
LEMMA EventsOfOneRow ==
  ASSUME OrderedFlow, StoreInv, NEW e \in ledger \cup ledgerDoubt,
         NEW row \in stored, row.key = e.key
  PROVE  row = JobOf(e)
BY DEF OrderedFlow, StoreInv, JobOf

-----------------------------------------------------------------------------
(* One lemma per action: it keeps the invariant.                           *)

(* The steps before the signature and the ways out of a call that leave    *)
(* nothing behind change only where the caller stands.                     *)
LEMMA CallerStep ==
  ASSUME IInv, NEW w \in Callers, pc[w] \notin {"ledger", "reconcile"},
         \A v \in Callers \ {w} : pc'[v] = pc[v] /\ job'[v] = job[v],
         pc'[w] \in {"idle", "validate", "sign"},
         pc'[w] = "sign" => job'[w].digest \in Valid,
         TypeOK',
         UNCHANGED <<signed, stored, storeDoubt, ledger, ledgerDoubt, results, lost>>
  PROVE  IInv'
<1> USE DEF IInv
<1>1. SignedInv' /\ StoreInv' /\ ResultInv' /\ OrderedFlow'
  BY DEF SignedInv, StoreInv, ResultInv, OrderedFlow
<1>2. \A v \in Callers : CallerInv(v)'
  BY DEF CallerInv
<1>3. OwnerInv'
  BY DEF OwnerInv
<1>4. StoredIsCarriedOn'
  BY DEF StoredIsCarriedOn, Ledgered
<1> QED BY <1>1, <1>2, <1>3, <1>4

(* A caller submits a document.                                            *)
LEMMA SubmitStep ==
  ASSUME IInv, NEW w \in Callers, NEW key \in Keys, NEW digest \in Documents,
         Submit(w, key, digest)
  PROVE  IInv'
<1>1. TypeOK'
  BY DEF IInv, TypeOK, Submit, Goto, Job
<1> QED BY <1>1, CallerStep DEF IInv, TypeOK, Submit, Goto

(* Only a document that passes the schema goes on to the signature.        *)
LEMMA ValidateStep ==
  ASSUME IInv, NEW w \in Callers, Validate(w)
  PROVE  IInv'
<1>1. TypeOK'
  BY AnyJobIsJob DEF IInv, TypeOK, Validate, Goto, Throw, Drop
<1> QED BY <1>1, CallerStep DEF IInv, TypeOK, Validate, Goto, Throw, Drop

(* The signer fails.                                                       *)
LEMMA SignFailsStep ==
  ASSUME IInv, NEW w \in Callers, SignFails(w)
  PROVE  IInv'
<1>1. TypeOK'
  BY AnyJobIsJob DEF IInv, TypeOK, SignFails, Goto, Throw, Drop
<1> QED BY <1>1, CallerStep DEF IInv, TypeOK, SignFails, Goto, Throw, Drop

(* The version is taken.                                                   *)
LEMMA StoreExistsStep ==
  ASSUME IInv, NEW w \in Callers, StoreExists(w)
  PROVE  IInv'
<1>1. TypeOK'
  BY AnyJobIsJob DEF IInv, TypeOK, StoreExists, Goto, Throw, Drop
<1> QED BY <1>1, CallerStep DEF IInv, TypeOK, StoreExists, Goto, Throw, Drop

(* A signature is new, so that its caller is the only one to work with it. *)
LEMMA SignStep ==
  ASSUME IInv, NEW w \in Callers, Sign(w)
  PROVE  IInv'
<1> USE DEF IInv
<1> DEFINE sig == Cardinality(signed) + 1
           signature == [digest |-> job[w].digest, sig |-> sig]
<1>1. /\ pc[w] = "sign" /\ pc' = [pc EXCEPT ![w] = "store"]
      /\ signed' = signed \cup {signature}
      /\ job' = [job EXCEPT ![w].sig = sig]
      /\ UNCHANGED <<error, stored, storeDoubt, ledger, ledgerDoubt, appends, results, lost>>
  BY DEF Sign, Goto
<1>2. /\ IsFiniteSet(signed) /\ Cardinality(signed) \in Nat
      /\ \A s \in signed : s.sig \in Nat /\ s.sig < sig
  BY FS_CardinalityType DEF SignedInv, TypeOK
<1>3. IsFiniteSet(signed') /\ Cardinality(signed') = sig
  <2>1. signature \notin signed
    BY <1>2
  <2> QED BY <1>1, <1>2, <2>1, FS_AddElement
<1>4. job[w] \in Job /\ job'[w] = [job[w] EXCEPT !.sig = sig]
  BY <1>1 DEF TypeOK
<1> HIDE DEF sig
<1>5. /\ sig \in Nat /\ job'[w] \in Job /\ job'[w].sig = sig
      /\ job'[w].key = job[w].key /\ job'[w].digest = job[w].digest
  BY <1>2, <1>4 DEF Job, sig
<1>6. TypeOK'
  BY <1>1, <1>5 DEF TypeOK, Job
<1>7. SignedInv'
  <2>1. \A s \in signed' : s.sig <= sig
    BY <1>1, <1>2, <1>5
  <2> QED BY <1>3, <2>1 DEF SignedInv
<1>8. \A v \in Callers : CallerInv(v)'
  BY <1>1, <1>4, <1>5 DEF CallerInv, TypeOK
<1>9. OwnerInv'
  <2> SUFFICES ASSUME NEW v \in Callers, v # w, pc[v] \in {"store", "ledger", "reconcile"}
               PROVE  job'[v].sig # sig
    BY <1>1, <1>5 DEF OwnerInv, TypeOK
  <2>1. [digest |-> job[v].digest, sig |-> job[v].sig] \in signed
    BY DEF CallerInv
  <2>2. job[v].sig < sig
    BY <1>2, <2>1
  <2>3. job'[v] = job[v] /\ job[v].sig \in Nat
    BY <1>1, <1>2, <2>1 DEF TypeOK
  <2> QED BY <1>5, <2>2, <2>3
<1>10. StoreInv' /\ ResultInv' /\ OrderedFlow'
  BY <1>1 DEF StoreInv, ResultInv, OrderedFlow
<1>11. StoredIsCarriedOn'
  BY <1>1 DEF StoredIsCarriedOn, Ledgered, TypeOK
<1> QED BY <1>6, <1>7, <1>8, <1>9, <1>10, <1>11

(* A row is stored if its version is free; there is no event of it yet.    *)
LEMMA StoreOkStep ==
  ASSUME IInv, NEW w \in Callers, StoreOk(w)
  PROVE  IInv'
<1> USE DEF IInv
<1>1. /\ pc[w] = "store" /\ pc' = [pc EXCEPT ![w] = "ledger"]
      /\ \A row \in stored : row.key # job[w].key
      /\ stored' = stored \cup {job[w]}
      /\ UNCHANGED <<job, error, signed, storeDoubt, ledger, ledgerDoubt, appends, results, lost>>
  BY DEF StoreOk, Goto, Taken
<1>2. TypeOK' /\ SignedInv' /\ StoreInv' /\ ResultInv'
  BY <1>1 DEF TypeOK, SignedInv, StoreInv, ResultInv
<1>3. \A r \in results : r.key # job[w].key
  <2>1. \A r \in results : JobOf(r) \in stored /\ JobOf(r).key = r.key
    BY DEF ResultInv, OrderedFlow, JobOf
  <2> QED BY <1>1, <2>1
<1>4. \A v \in Callers : CallerInv(v)'
  BY <1>1, <1>3 DEF CallerInv, TypeOK
<1>5. OwnerInv'
  BY <1>1 DEF OwnerInv, TypeOK
<1>6. OrderedFlow'
  BY <1>1 DEF OrderedFlow, CallerInv
<1>7. StoredIsCarriedOn'
  BY <1>1 DEF StoredIsCarriedOn, Ledgered, TypeOK
<1> QED BY <1>2, <1>4, <1>5, <1>6, <1>7

(* An INSERT that may still be executed has passed all that a row must.    *)
LEMMA StoreFailsStep ==
  ASSUME IInv, NEW w \in Callers, StoreFails(w)
  PROVE  IInv'
<1> USE DEF IInv
<1>1. /\ pc[w] = "store" /\ pc' = [pc EXCEPT ![w] = "idle"]
      /\ error' = [error EXCEPT ![w] = "store"]
      /\ storeDoubt' \in {storeDoubt, storeDoubt \cup {job[w]}}
      /\ lost' = lost \cup {job[w]}
      /\ UNCHANGED <<job, signed, stored, ledger, ledgerDoubt, appends, results>>
  BY DEF StoreFails, Throw, Goto
<1>2. TypeOK' /\ SignedInv' /\ StoreInv' /\ ResultInv'
  BY <1>1 DEF TypeOK, SignedInv, StoreInv, ResultInv
<1>3. \A v \in Callers : CallerInv(v)'
  BY <1>1 DEF CallerInv, TypeOK
<1>4. OwnerInv'
  BY <1>1 DEF OwnerInv, TypeOK
<1>5. OrderedFlow'
  BY <1>1 DEF OrderedFlow, CallerInv
<1>6. StoredIsCarriedOn'
  BY <1>1 DEF StoredIsCarriedOn, Ledgered, TypeOK
<1> QED BY <1>2, <1>3, <1>4, <1>5, <1>6

(* A late INSERT stores a row of a free version, without a caller.         *)
LEMMA LateInsertStep ==
  ASSUME IInv, NEW row \in storeDoubt, LateInsert(row)
  PROVE  IInv'
<1> USE DEF IInv
<1>1. /\ storeDoubt' = storeDoubt \ {row}
      /\ stored' = IF Taken(row.key) THEN stored ELSE stored \cup {row}
      /\ UNCHANGED <<pc, job, error, signed, ledger, ledgerDoubt, appends, results, lost>>
  BY DEF LateInsert
<1>2. TypeOK' /\ SignedInv' /\ ResultInv'
  BY <1>1 DEF TypeOK, SignedInv, ResultInv
<1>3. StoreInv'
  BY <1>1 DEF StoreInv, Taken
<1>4. (\A v \in Callers : CallerInv(v)') /\ OwnerInv'
  BY <1>1 DEF CallerInv, OwnerInv
<1>5. OrderedFlow'
  BY <1>1 DEF OrderedFlow
<1>6. StoredIsCarriedOn'
  BY <1>1 DEF StoredIsCarriedOn, Ledgered, StoreInv
<1> QED BY <1>2, <1>3, <1>4, <1>5, <1>6

(* The event is of the caller's own row.  A result is the first one of its *)
(* version: whoever else stands at the ledger holds another row.           *)
LEMMA LedgerOkStep ==
  ASSUME IInv, NEW w \in Callers, LedgerOk(w)
  PROVE  IInv'
<1> USE DEF IInv
<1> DEFINE e == EventOf(w)
<1>1. /\ pc[w] \in {"ledger", "reconcile"} /\ pc' = [pc EXCEPT ![w] = "idle"]
      /\ job' = [job EXCEPT ![w] = AnyJob]
      /\ error' = [error EXCEPT ![w] = "none"]
      /\ appends' = appends + 1
      /\ ledger' = ledger \cup {e}
      /\ results' = IF pc[w] = "ledger" THEN results \cup {e} ELSE results
      /\ UNCHANGED <<signed, stored, storeDoubt, ledgerDoubt, lost>>
  BY DEF LedgerOk, CallsAppend, Goto, Drop
<1>2. e \in Event /\ JobOf(e) = job[w] /\ e.key = job[w].key /\ job[w] \in stored
  BY <1>1, EventOfJob DEF CallerInv, EventOf
<1> HIDE DEF e
<1>3. TypeOK'
  BY <1>1, <1>2, AnyJobIsJob DEF TypeOK
<1>4. SignedInv' /\ StoreInv'
  BY <1>1 DEF SignedInv, StoreInv
<1>5. ASSUME NEW v \in Callers PROVE CallerInv(v)'
  <2>1. CASE v = w
    BY <1>1, <2>1 DEF CallerInv, TypeOK
  <2>2. CASE v # w
    <3>1. pc'[v] = pc[v] /\ job'[v] = job[v] /\ CallerInv(v)
      BY <1>1, <2>2 DEF TypeOK
    <3>2. ASSUME pc[v] = "ledger", job[v].key = job[w].key PROVE FALSE
      <4>1. job[v] = job[w]
        BY <1>2, <3>1, <3>2 DEF CallerInv, StoreInv
      <4> QED BY <1>1, <2>2, <3>2, <4>1 DEF OwnerInv
    <3> QED BY <1>1, <1>2, <3>1, <3>2 DEF CallerInv
  <2> QED BY <2>1, <2>2
<1>6. OwnerInv'
  BY <1>1 DEF OwnerInv, TypeOK
<1>7. ResultInv'
  <2>1. pc[w] = "ledger" => \A r \in results : r.key # e.key
    BY <1>2 DEF CallerInv
  <2> QED BY <1>1, <2>1 DEF ResultInv
<1>8. OrderedFlow'
  BY <1>1, <1>2 DEF OrderedFlow
<1>9. StoredIsCarriedOn'
  <2> SUFFICES ASSUME NEW row \in stored, ~Ledgered(row)', row \notin lost
               PROVE  \E v \in Callers : pc'[v] \in {"ledger", "reconcile"} /\ job'[v] = row
    BY <1>1 DEF StoredIsCarriedOn
  <2>1. ~Ledgered(row) /\ row # job[w]
    BY <1>1, <1>2 DEF Ledgered
  <2>2. PICK v \in Callers : pc[v] \in {"ledger", "reconcile"} /\ job[v] = row
    BY <2>1 DEF StoredIsCarriedOn
  <2> QED BY <1>1, <2>1, <2>2 DEF TypeOK
<1> QED BY <1>3, <1>4, <1>5, <1>6, <1>7, <1>8, <1>9

(* A caller whose append failed keeps its row; the event may come late.    *)
LEMMA LedgerFailsStep ==
  ASSUME IInv, NEW w \in Callers, LedgerFails(w)
  PROVE  IInv'
<1> USE DEF IInv
<1> DEFINE e == EventOf(w)
<1>1. /\ pc[w] \in {"ledger", "reconcile"} /\ pc' = [pc EXCEPT ![w] = "reconcile"]
      /\ error' = [error EXCEPT ![w] = "ledger"]
      /\ appends' = appends + 1
      /\ ledgerDoubt' \in {ledgerDoubt, ledgerDoubt \cup {e}}
      /\ UNCHANGED <<job, signed, stored, storeDoubt, ledger, results, lost>>
  BY DEF LedgerFails, CallsAppend, Goto
<1>2. e \in Event /\ JobOf(e) = job[w] /\ job[w] \in stored
  BY <1>1, EventOfJob DEF CallerInv
<1> HIDE DEF e
<1>3. TypeOK' /\ SignedInv' /\ StoreInv' /\ ResultInv'
  BY <1>1, <1>2 DEF TypeOK, SignedInv, StoreInv, ResultInv
<1>4. \A v \in Callers : CallerInv(v)'
  BY <1>1 DEF CallerInv, TypeOK
<1>5. OwnerInv'
  BY <1>1 DEF OwnerInv, TypeOK
<1>6. OrderedFlow'
  BY <1>1, <1>2 DEF OrderedFlow
<1>7. StoredIsCarriedOn'
  <2>1. \A row : Ledgered(row) => Ledgered(row)'
    BY <1>1 DEF Ledgered
  <2>2. \A v \in Callers : pc[v] \in {"ledger", "reconcile"} => pc'[v] \in {"ledger", "reconcile"}
    BY <1>1 DEF TypeOK
  <2> QED BY <1>1, <2>1, <2>2 DEF StoredIsCarriedOn
<1> QED BY <1>3, <1>4, <1>5, <1>6, <1>7

(* A late commit moves an event from its way into the ledger.              *)
LEMMA LateCommitStep ==
  ASSUME IInv, NEW e \in ledgerDoubt, LateCommit(e)
  PROVE  IInv'
<1> USE DEF IInv
<1>1. /\ ledgerDoubt' = ledgerDoubt \ {e} /\ ledger' = ledger \cup {e}
      /\ UNCHANGED <<pc, job, error, signed, stored, storeDoubt, appends, results, lost>>
  BY DEF LateCommit
<1>2. ledger' \cup ledgerDoubt' = ledger \cup ledgerDoubt
  BY <1>1
<1>3. TypeOK' /\ SignedInv' /\ StoreInv' /\ ResultInv'
  BY <1>1 DEF TypeOK, SignedInv, StoreInv, ResultInv
<1>4. (\A v \in Callers : CallerInv(v)') /\ OwnerInv'
  BY <1>1 DEF CallerInv, OwnerInv
<1>5. OrderedFlow' /\ StoredIsCarriedOn'
  BY <1>1, <1>2 DEF OrderedFlow, StoredIsCarriedOn, Ledgered
<1> QED BY <1>3, <1>4, <1>5

(* A crash loses the row the caller was to carry on, and says so.          *)
LEMMA CrashStep ==
  ASSUME IInv, NEW w \in Callers, Crash(w)
  PROVE  IInv'
<1> USE DEF IInv
<1>1. /\ pc' = [pc EXCEPT ![w] = "idle"] /\ job' = [job EXCEPT ![w] = AnyJob]
      /\ error' = [error EXCEPT ![w] = "none"]
      /\ \/ UNCHANGED storeDoubt
         \/ pc[w] = "store" /\ storeDoubt' = storeDoubt \cup {job[w]}
      /\ lost' = IF pc[w] \in {"store", "ledger", "reconcile"} THEN lost \cup {job[w]} ELSE lost
      /\ UNCHANGED <<signed, stored, ledger, ledgerDoubt, appends, results>>
  BY DEF Crash, Goto, Drop
<1>2. TypeOK'
  BY <1>1, AnyJobIsJob DEF TypeOK
<1>3. SignedInv' /\ StoreInv' /\ ResultInv'
  BY <1>1 DEF SignedInv, StoreInv, ResultInv
<1>4. \A v \in Callers : CallerInv(v)'
  BY <1>1 DEF CallerInv, TypeOK
<1>5. OwnerInv'
  BY <1>1 DEF OwnerInv, TypeOK
<1>6. OrderedFlow'
  BY <1>1 DEF OrderedFlow, CallerInv
<1>7. StoredIsCarriedOn'
  <2> SUFFICES ASSUME NEW row \in stored, ~Ledgered(row), row \notin lost'
               PROVE  \E v \in Callers : pc'[v] \in {"ledger", "reconcile"} /\ job'[v] = row
    BY <1>1 DEF StoredIsCarriedOn, Ledgered
  <2>1. PICK v \in Callers : pc[v] \in {"ledger", "reconcile"} /\ job[v] = row
    BY <1>1 DEF StoredIsCarriedOn
  <2> QED BY <1>1, <2>1 DEF TypeOK
<1> QED BY <1>2, <1>3, <1>4, <1>5, <1>6, <1>7

-----------------------------------------------------------------------------
(* Before the first call the invariant holds.                              *)
LEMMA InitIInv == Init => IInv
<1> SUFFICES ASSUME Init PROVE IInv
  OBVIOUS
<1>1. TypeOK
  BY AnyJobIsJob DEF Init, TypeOK
<1>2. SignedInv /\ StoreInv /\ ResultInv /\ OwnerInv
  BY FS_EmptySet DEF Init, SignedInv, StoreInv, ResultInv, OwnerInv
<1>3. \A w \in Callers : CallerInv(w)
  BY DEF Init, CallerInv
<1>4. OrderedFlow /\ StoredIsCarriedOn
  BY DEF Init, OrderedFlow, StoredIsCarriedOn
<1> QED BY <1>1, <1>2, <1>3, <1>4 DEF IInv

(* Every step of a caller or the server keeps it.                          *)
LEMMA NextIInv == IInv /\ [Next]_vars => IInv'
<1> SUFFICES ASSUME IInv, [Next]_vars PROVE IInv'
  OBVIOUS
<1>1. ASSUME NEW w \in Callers, NEW key \in Keys, NEW digest \in Documents,
             Submit(w, key, digest)
      PROVE  IInv'
  BY <1>1, SubmitStep
<1>2. ASSUME NEW w \in Callers,
             \/ Validate(w) \/ Sign(w) \/ SignFails(w)
             \/ StoreOk(w) \/ StoreExists(w) \/ StoreFails(w)
      PROVE  IInv'
  BY <1>2, ValidateStep, SignStep, SignFailsStep, StoreOkStep, StoreExistsStep, StoreFailsStep
<1>3. ASSUME NEW w \in Callers, LedgerOk(w) \/ LedgerFails(w) \/ Crash(w) PROVE IInv'
  BY <1>3, LedgerOkStep, LedgerFailsStep, CrashStep
<1>4. ASSUME NEW row \in storeDoubt, LateInsert(row) PROVE IInv'
  BY <1>4, LateInsertStep
<1>5. ASSUME NEW e \in ledgerDoubt, LateCommit(e) PROVE IInv'
  BY <1>5, LateCommitStep
<1>6. CASE UNCHANGED vars
  BY <1>6 DEF vars, IInv, TypeOK, SignedInv, CallerInv, OwnerInv, StoreInv, ResultInv,
              OrderedFlow, StoredIsCarriedOn, Ledgered
<1> QED BY <1>1, <1>2, <1>3, <1>4, <1>5, <1>6 DEF Next

(* The inductive invariant holds in every reachable state.                 *)
THEOREM Invariance == Spec => []IInv
BY InitIInv, NextIInv, PTL DEF Spec

(* The variables keep their types.                                         *)
THEOREM TypeCorrect == Spec => []TypeOK
<1>1. IInv => TypeOK
  BY DEF IInv
<1> QED BY <1>1, Invariance, PTL

(* Validate, sign, store, ledger: nothing is there without what comes      *)
(* before it.                                                              *)
THEOREM FlowIsOrdered == Spec => []OrderedFlow
<1>1. IInv => OrderedFlow
  BY DEF IInv
<1> QED BY <1>1, Invariance, PTL

(* At most one call returns a result for an evidence version, and it is    *)
(* what store and ledger hold.                                             *)
THEOREM ResultsAreUnique == Spec => []OneResultPerVersion
<1>1. IInv => OneResultPerVersion
  BY EventsOfOneRow DEF IInv, ResultInv, OneResultPerVersion
<1> QED BY <1>1, Invariance, PTL

(* No stored row is without a ledger event and without a caller, unless    *)
(* its caller was lost.                                                    *)
THEOREM RowsAreCarriedOn == Spec => []StoredIsCarriedOn
<1>1. IInv => StoredIsCarriedOn
  BY DEF IInv
<1> QED BY <1>1, Invariance, PTL

-----------------------------------------------------------------------------
(* EvidencePipeline implements WriteOnce.  An INSERT that is executed, be  *)
(* it long after its caller gave up, writes; processEvidence that returns  *)
(* answers.                                                                *)

Versions(R) == {Version(j) : j \in R}

(* The UNIQUE constraint lets a row in only for a version that has none.   *)
LEMMA InsertWrites ==
  ASSUME NEW row \in Job, ~Taken(row.key), stored' = stored \cup {row}, results' = results
  PROVE  VersionMap!Next
<1>1. Versions(stored') = Versions(stored) \cup {Version(row)}
  BY DEF Versions
<1>2. \A f \in Versions(stored) : f.key # Version(row).key
  BY DEF Versions, Version, Taken
<1>3. Version(row) \in Versions(stored') \ Versions(stored)
  BY <1>1, <1>2
<1>4. VersionMap!Write(Version(row))
  BY <1>1, <1>2 DEF VersionMap!Write, Versions
<1> QED BY <1>3, <1>4 DEF VersionMap!Next, Versions

(* A caller that returns tells the row it stored itself.                   *)
LEMMA ReturnAnswers ==
  ASSUME IInv, NEW w \in Callers, LedgerOk(w)
  PROVE  VersionMap!Next \/ UNCHANGED <<Versions(stored), Versions(results)>>
<1> DEFINE e == Version(EventOf(w))
<1>1. stored' = stored
  BY DEF LedgerOk
<1>2. CASE pc[w] # "ledger"
  BY <1>1, <1>2 DEF LedgerOk, Versions
<1>3. CASE pc[w] = "ledger"
  <2>1. results' = results \cup {EventOf(w)}
    BY <1>3 DEF LedgerOk
  <2>2. Versions(results') = Versions(results) \cup {e}
    BY <2>1 DEF Versions
  <2>3. job[w] \in stored /\ e = Version(job[w])
    BY <1>3 DEF IInv, CallerInv, Version, EventOf
  <2>4. e \in Versions(stored)
    BY <2>3 DEF Versions
  <2>5. CASE e \in Versions(results)
    BY <1>1, <2>2, <2>5 DEF Versions
  <2>6. CASE e \notin Versions(results)
    <3>1. VersionMap!Answer(e)
      BY <1>1, <2>2 DEF VersionMap!Answer, Versions
    <3> QED BY <2>4, <2>6, <3>1 DEF VersionMap!Next, Versions
  <2> QED BY <2>5, <2>6
<1> QED BY <1>2, <1>3

(* Every other step leaves the abstract map as it is.                      *)
LEMMA StepImplements ==
  IInv /\ [Next]_vars => [VersionMap!Next]_<<Versions(stored), Versions(results)>>
<1> SUFFICES ASSUME IInv, [Next]_vars
             PROVE  VersionMap!Next \/ UNCHANGED <<Versions(stored), Versions(results)>>
  OBVIOUS
<1>1. ASSUME NEW w \in Callers, StoreOk(w) PROVE VersionMap!Next
  <2>1. job[w] \in Job
    BY DEF IInv, TypeOK
  <2> QED BY <1>1, <2>1, InsertWrites DEF StoreOk
<1>2. ASSUME NEW row \in storeDoubt, LateInsert(row)
      PROVE  VersionMap!Next \/ UNCHANGED <<stored, results>>
  <2>1. row \in Job
    BY DEF IInv, TypeOK
  <2> QED BY <1>2, <2>1, InsertWrites DEF LateInsert
<1>3. ASSUME NEW w \in Callers, LedgerOk(w)
      PROVE  VersionMap!Next \/ UNCHANGED <<Versions(stored), Versions(results)>>
  BY <1>3, ReturnAnswers
<1>4. ASSUME UNCHANGED <<stored, results>>
      PROVE  UNCHANGED <<Versions(stored), Versions(results)>>
  BY <1>4 DEF Versions
<1>5. \/ \E w \in Callers : StoreOk(w) \/ LedgerOk(w)
      \/ \E row \in storeDoubt : LateInsert(row)
      \/ UNCHANGED <<stored, results>>
  BY DEF Next, vars, Submit, Validate, Sign, SignFails, StoreExists, StoreFails,
         LedgerFails, Crash, LateCommit
<1> QED BY <1>1, <1>2, <1>3, <1>4, <1>5

(* Racing callers, with answers in doubt, retries and crashes, see a map   *)
(* of versions that is written once.                                       *)
THEOREM Implementation == Spec => ImplementsWriteOnce
<1>1. Init => VersionMap!Init
  BY DEF Init, VersionMap!Init
<1>2. IInv /\ [Next]_vars
        => [VersionMap!Next]_<<{Version(row) : row \in stored}, {Version(r) : r \in results}>>
  BY StepImplements DEF Versions
<1> QED BY <1>1, <1>2, Invariance, PTL DEF Spec, ImplementsWriteOnce, VersionMap!Spec
=============================================================================
