# TLA+ models of tanden-trust-audit-poc

The repository is a Node.js proof of concept of an audit trail for evidence:
every piece of evidence is validated, signed, stored and entered in a
hash-chained ledger, and may then be anchored on a blockchain
(`Evidence -> Schema -> Sign -> Store -> Ledger [-> Anchor]`). Around it lives a
set of scripts that drive development work by files: a task graph, a runtime
adapter that runs reviewers, gates over the evidence they leave.

This directory models the parts whose correctness depends on the order of
things: which statement of which client runs when, which answer is lost, who
crashes where. Paths below are relative to the repository.

Contents: [inventory](#inventory), [modules](#modules), [runs](#runs),
[what the runs refute](#what-the-runs-refute), [fairness](#fairness),
[proofs](#proofs), [left out](#what-is-left-out), [plan](#plan).

## Inventory

| Part | State it keeps | Operations | Hard because |
|---|---|---|---|
| **Signing event ledger** `lib/pg-signing-logger.js`, ADR 0004 | table `signing_events`: rows chained by hash, a BIGSERIAL sequence, one advisory lock | `appendEvent`, `verifyChainIntegrity`, `verifyChainIntegrityAndGetEvent`, reads | concurrent appends from many processes read the last row and insert the next; statements fail, connections break, a COMMIT may outlive its client |
| **Evidence pipeline** `lib/evidence-processing-service.js`, `lib/pg-evidence-store.js` | table `evidence_versions`, UNIQUE (evidence_id, version); reconciliation data in the caller's memory | `processEvidence`, `appendEvidence`, the caller's retry of the ledger write | two transactions without a common commit; answers in doubt; concurrent callers on one version; crashes between the two writes |
| **Verified external anchor** `lib/verified-anchor-service.js`, `lib/internal-ledger-verifier.js`, `lib/sidecar-verifier.js`, `scripts/anchor-evidence.js`, `contracts/TrustAnchor.sol` | the contract's map `anchoredAt`; nothing locally | `anchorVerifiedEvidence` | checks made long before the transaction is mined; accepted transactions whose answer is lost, dropped transactions, two callers on one digest |
| **Audit manager** `lib/audit-manager.js` | none | `signAndRecord`, `verifyAndRecord` | the verdict and its record are separate; a provider that throws must still be recorded |
| **KMS provider** `lib/aws-kms-provider.js` | cached key spec check, cached public key | `signEvidence`, `verifyEvidenceSignature`, `getPublicKey`, DER codec | an alias that is pointed at a new key under a cache that never expires; integer encodings at their boundaries |
| **Local provider, digests, metadata** `lib/local-ecdsa-provider.js`, `lib/signature-digest.js`, `lib/metadata*.js` | none | pure | - |
| **Object stores** `lib/json-object-store.js`, `lib/s3-json-object-store.js` | files or S3 objects | put, get | local puts overwrite, S3 puts are write-once; evidence and sidecar are two puts; retried conditional puts |
| **Task graph and runtime adapter** `scripts/agent-task-graph.js`, `scripts/agent-runtime-adapter.js` | `agent-task-graph.json`, runtime configuration, run evidence and reviewer artifacts | `initGraph`, `transitionGraph`, `initRuntime`, `runTask`, `runCodexReviewer` | unlocked read-modify-write of files by several processes; results of long runs applied to a graph that has moved |
| **Verification gate and work orchestrator** `scripts/run-verification-evidence-gate.js`, `scripts/work-development-orchestrator.js` | gate evidence, delegation, bootstrap artifacts | gate validation, `bootstrapWorkOrchestration`, status | stale evidence of an earlier attempt, a bootstrap that fails half-way |
| **Spec documents and their gates** `scripts/scaffold-spec-from-context.js`, `check-spec-readiness.js`, `create-implementation-handoff.js`, `check-implementation-conformance.js` | three documents of a Spec, the handoff, the branch | scaffold, readiness, handoff, conformance | files written one by one, people who edit and commit between the gates |
| **Lambda wrapper and its processing** `lambda/loop017b/handler.js`, `lib/collectors/lambda-nova-collector.js`, `lib/lambda-nova-live-demo.js` | log lines, kept response files | one model call per invocation, processing of its response | timeouts and lost answers around a call that must not be repeated |
| **AgentCore demo**, **event mapping**, **repository tooling** | none, generated text | single-shot | - |

How they interact: the pipeline calls a signing provider, then the evidence
store, then `appendEvent`; the audit manager calls a provider, then
`appendEvent`; the anchor service reads the ledger through one query of
`verifyChainIntegrityAndGetEvent` and then talks to an Ethereum node. All share
one PostgreSQL database and nothing else. The scripts share only files: the Spec's
documents and handoff are read by bootstrap and by the gate, the delegation, the
graph and the runtime configuration by all of them. A Lambda invocation shares
only its log and its response file with the processing that follows.

What makes each part correct:

- *Ledger*: the table passes its own verifier after any interleaving and
  failure; what was acknowledged is there; appends amount to an append-only
  ledger; no call hangs; the verifier's verdict means something definite.
- *Pipeline*: an event in the ledger speaks of a stored row, a stored row of
  validated and signed content; one result per version; a stored
  row without an event is in the hands of its caller until that one is lost.
- *Anchor*: the service sends only ledgered, trusted-signed evidence, and one
  caller at most gets a result for a digest, against anybody else who anchors.
- *Audit manager and provider*: every failed verification leaves an event; a
  recorded verdict is about the evidence and not about a stale cache.
- *Task graph*: what overlapping commands leave is a state of the route, with
  the retries it was granted; transitions of runs have their evidence.
- *Orchestration, gates*: a reported bootstrap is whole, `work:status` agrees
  with what the commands take, what the gate records was reviewed by others than the
  builder.
- *Lambda wrapper*: every model call is in the log, is made once, and the
  outcome says whether it was made.

## Modules

| Module | Models |
|---|---|
| `HashChain` | the pure part of the ledger: rows, `computeRowHash`, the last row, `verifySigningEventRows` |
| `AppendOnlyLedger` | what the ledger promises: entries added one at a time after all others, never changed, acknowledged only when there |
| `SigningLedger` | `appendEvent` statement by statement, against PostgreSQL with failing statements, broken connections and orphaned backends; implements `AppendOnlyLedger` |
| `LedgerDamage` | the verdict of `verifyChainIntegrity` on tables whose rows were lost, changed or put in from outside between appends |
| `WriteOnce` | what `evidence_versions` and the contract promise: a key gets one value and keeps it, and a caller that is answered is told the value the key has |
| `EvidencePipeline` | `processEvidence`, the INSERT of the evidence store, the ledger write and its retry; implements `WriteOnce` |
| `VerifiedAnchor` | `anchorVerifiedEvidence`, the ledger verifier, the client and the contract, over a ledger that `LedgerDamage` grows and damages (INSTANCE); implements `WriteOnce` |
| `TaskGraph` | the agent task graph as a value: `createInitialGraph`, `applyEvent`, `validateTaskGraphState` |
| `AgentTasks` | commands that rewrite the graph's file without a lock, and runs from the READY check over the provider to the event |
| `SpecGates` | the Spec's documents as values and the gates that read them |
| `SpecState` | a feature's Spec, handoff and branch, the files that `SpecFlow` and `WorkOrchestration` share |
| `SpecFlow` | scaffolds file by file, and the people who edit the Spec and commit |
| `WorkOrchestration` | `work:bootstrap` with its rollback, `work:status`, `verify:gate`, `agent:delegate`, over `TaskGraph` and `SpecGates` |
| `AuditTrail` | `signAndRecord` and `verifyAndRecord` await by await over either provider, while the KMS alias moves |
| `DerCodec` | `decodeDerSignatureToRaw` and `encodeRawToDer` against the numbers DER spells |
| `LambdaInvocation` | the Lambda wrapper around one model call and the processing of kept responses |
| `MC...` | instances: symmetry sets, documents, adapter tables, settings |
| `...Proofs` | the theorems about the module of that name, see [proofs](#proofs); `SpecFlow`'s are at the end of `WorkOrchestrationProofs`, those about `AuditTrail` and `DerCodec` are `SigningProviderProofs` |

**Hashes.** SHA-256 is taken as injective. The hash of `(content, previous)` is
the sequence `Append(previous, content)`, so a hash names the whole chain
behind it; `GENESIS_HASH` is the empty sequence.

**SigningLedger.** `pc[c]` is the `await` at which a call stands: `connect`,
`begin`, `lock`, `read`, `hash`, `insert`, `commit`, `committing` (COMMIT sent),
`rollback`. One action per statement, which is the client's call and the
server's execution of it; only COMMIT is split into `SendCommit`,
`ServerCommit` and `CommitReply`, because a client lost in between is the
interesting case. `tx`, `pending` and `lock` are the server's state per
connection. `StatementFails` is any error answer (the server aborts the
transaction at once), `HashFails` a payload that cannot be canonicalized (the
transaction stays open until ROLLBACK), `Disconnect` a broken connection or a
dead process (the backend stays, with its lock, until `BackendAborts` or its
received COMMIT finishes). A failed INSERT may use up a sequence number.
Payloads are JSON objects, as in every call in the repository; strings are the
subject of `LedgerDamage`. PostgreSQL's default isolation, READ COMMITTED, is
assumed, as the code sets none.

**LedgerDamage.** One append is one step, which `SigningLedger` justifies; its
number is any above all that the sequence has given out, so gaps come by
themselves. Whoever has the rights on the database may `Lose` any row,
`Change` any one column of a row, the `sequence` and the id included, and `Forge`:
put in a row with a hash computed afresh over what it holds, which may continue
any hash on record. `forged` keeps the hashes that were computed so, for nothing
in a table tells them from the program's; a row that is rewritten with a new hash
is a loss and a forgery. `created_at` is left out: like `sequence` it is not hashed,
but nothing depends on it.
`Jsonb` is the round trip of a payload through the JSONB column: an object comes
back as it was, a string of JSON text as the value it denotes.

**EvidencePipeline.** `pc[w]` is the `await` of `processEvidence`; `reconcile`
is the caller holding an `EvidenceLedgerWriteError`. `storeDoubt` and
`ledgerDoubt` are statements whose caller already got an error and which the
server may still execute. `lost` is a ghost: rows whose caller crashed or was
told they were not stored. `appendEvent` is one step, answered or in doubt.

**VerifiedAnchor.** `Gate` is everything up to the ledger query (sidecar, trusted
key, digest, signature, zero digest: all of it reads only the request);
`ConfirmInLedger`, `ReadAnchorState`, `Submit`, `ReceiptOk` the four awaits on
shared state, with their failures. The node accepts a transaction in `Submit`,
or in `RpcFails` without telling its sender; `Mine` is the contract's `anchor`;
`MineForeign` is any other account that calls it, for any digest, as the contract
asks nobody who they are; `DropTx` loses a transaction. Simulation before sending gives the contract's
reason (`SubmitReverts`), a revert when mined gives none (`ReceiptFails`).

**TaskGraph, AgentTasks.** A command is one process: `StartRun` is the check that
the task is READY, `DryRun`, `Scripted` and `CodexReview` the provider,
`WriteEvidence` the run's file, then `Read`, `Truncate` and `Fill` the rewrite of
the graph (`writeFileSync` empties a file before it fills it). `TypeEvent` is an
event typed by hand. `Crash` ends a command anywhere. `ProcessResults` are the
shapes a Codex process can end in. `practice` is whether a team types events,
uses runs, or both, chosen once.

**SpecGates, SpecFlow.** Of a document only what a gate tells apart is kept.
`MakeDirectory` and `WriteFile` are the system calls of a scaffold; the gates
only read and are operators (`Ready`, `Conformant`). People edit, remove and
commit at any time.

**WorkOrchestration.** Bootstrap takes a step per artifact (`Create`,
`CreateFails`, `Rollback`, `ReportRollback`), the gate one up to the structure
check and one after it (`StartGate`, `PassGate`, `FailGate`); the commands of
`AgentTasks` are one step each here. `setting` is which commands a feature is
worked on with, chosen once, so that one run covers the bootstraps and the gate
without their product. `nextCommands` is what `work:status` prints, `AsPrinted` the
roles of a bootstrap that is typed so, and `Takes` what a printed command asks of
Spec and files before its own work; the verdicts of `impl:conform` and `verify:gate`
on components, changes, structure and reviews are that work.

**AuditTrail.** `Prepare`, `GetPublicKey`, `KmsSign`, `KmsVerify`, `AppendEvent`
are the awaits; `KmsFails` and `AppendFails` their failures, the latter with the
event in the ledger or not. `UpdateAlias` and `Restart` are the operators'.

**DerCodec.** Bytes are the numbers below `Base`, components are `Width` bytes.
Every pair of INTEGER contents in every length form, and damaged answers, is an
initial state; storing and presenting are the two steps.

**LambdaInvocation.** `Invoke` is the handler up to `bedrock.send`, `Answered` and
`SendFails` the rest of it with its last log line, `Deliver` Lambda's delivery of
what it ended with; `TimeOut` may come before either of the last two. `BedrockExecutes` may happen before or after
them, once per request sent. `Keep` is the caller's response file, whole or cut
off; `Process` is the processing of a file under some run id, whose in-memory
store and ledger double are new each time.

## Runs

| Run | Instance | Shows |
|---|---|---|
| `ledger_safety` | 3 clients, 3 backends, pool of 2, 4 events | `IInv`, `ChainIntact`, `AckedIsRecorded`, `OneWriter`, and the refinement `ImplementsLedger` |
| `ledger_liveness` | 3 clients, 2 backends, pool of 2, 3 events | `EveryCallEnds`: neither the pool nor the lock is leaked |
| `damage_verdict` | 2 bodies, 3 appends, sequence numbers up to 3, 3 damages of any kind in any order | `ValidMeansGenuine`: a valid verdict means every row, but for its sequence, is as written or was hashed outside, and stands after the appended rows it was chained to; `InvalidMeansDamaged`: an invalid one has a cause other than gaps or lost last rows |
| `pipeline_safety` | 2 callers, 1 version, 2 valid contents and an invalid one, 3 signatures, 3 appends | `OrderedFlow`, `OneResultPerVersion`, `StoredIsCarriedOn`, and the refinement `ImplementsWriteOnce` |
| `anchor` | one caller, 2 ids, 2 digests, 2 keys of which 1 is trusted, ledger of 2 rows, 1 damage, 1 transaction, its own or foreign; or 2 racing callers, 1 id, 3 transactions, their own or foreign | `SentIsBacked`, `OneResultPerDigest`, and the refinement `ImplementsWriteOnce` |
| `agent_tasks` | 2 processes, 1 retry, with and without a Security Reviewer, events typed or up to 4 runs | `GraphIsReachable`, `RetriesAreBudgeted`, `EveryTransitionHasEvidence`, `PassHasArtifact` |
| `spec_flow` | 2 scaffolds, 2 Context Packs, 2 files on the branch | `ScaffoldsDoNotMix`, `ReadyMeansEdited` |
| `work_orchestration` | 2 bootstraps with disk errors, kills and every overwriting command; or 1 gate with delegations, graph, runtime and reviews replaced | `BootstrappedIsWhole`, `StatusMatchesCommands`, `EvidenceIsIndependent` |
| `audit_trail` | either provider, 2 calls at a time, 3 in all, 3 keys of 2 curves, evidence over KMS's limit | `SignerIsOnRecord`, `VerdictIsRecorded` |
| `der_codec` | components of 2 bytes below 32, every pair of contents in every length form | `StoredAreTheNumbers`, `VerifySendsTheSignature` |
| `lambda_invocation` | 3 invocations, 2 calls of Bedrock, 2 run ids that hash to one evidence id, 2 builds | `EveryCallIsReconcilable`, `OutcomeTellsOfTheCall`, `SummaryIsOfOneCall` |
| `damage_payload` | the smallest that shows it | see the next section |

Each run of several settings (`anchor`, `agent_tasks`, `work_orchestration`,
`audit_trail`) chooses one at the start and keeps it, so the states explored are
the sum of the settings' and not their product.

*Bounds.* `MaxEvents` counts event ids: 4 lets three clients append and one of
them again, over two gaps. Two open connections and an orphan are what the lock
has to separate; a third live backend would only wait as the second does. Three
damages on three rows allow losing a row, changing another and putting one in
between; sequence numbers 0 to 3 leave room for gaps and for moving a row before
or after others. Three signatures and appends let both callers finish and one
retry. Two transactions can meet in the contract; the third is one whose sender
gave up, or a foreign one.
The bounds are guards of `Call`, `Submit`, `Sign`, `CallsAppend`, `AppendRow`,
`Damage`, `Accept` and `MineForeign`; runs stop when they are used up, hence
`CHECK_DEADLOCK FALSE`. Clients and backends are symmetric.

One retry (`MaxRetries = 1`) reaches the budget's end in the task graph; two
processes are what a lost update needs, and four runs take the route of four
tasks or two attempts at the reviewer. In `work_orchestration` the budget is 0:
a failure ends the graph, and the retry's stale evidence is the subject of
`work_stale_evidence.cfg`. Three audit calls let two overlap and a third verify
what they signed. Width 2 and base 32 keep what matters of 32 bytes below 256:
a body fits one length byte, a component may be short, full, or full with a sign
byte. Two calls of Bedrock in three invocations let an abandoned request be
executed beside another one, and leave a request unexecuted.

*Plausible bugs.* Each module holds, before the actions, the definitions of a few
bugs (`InsertThenUnlock`, `StoreFailsIgnored`, `ConfirmedUnverified`, ...). None is
part of a specification; substituted for the definition their comment names,
each makes a property fail, which shows that the property depends on the code's
doing what it does. `PROJECT.json` pairs them.

## What the runs refute

Statements of the repository that do not hold of its code. The first is a
listed run; the others have a configuration each, to be run by hand with
`tlc -config <cfg> <module>`, and TLC prints the counterexample; where a
configuration stands twice, `-continue` makes it print both.

- `damage_payload` (a run): `appendEvent` accepts any payload (`@param {*}`), but a
  string of JSON text is hashed as a string and read back as a value, and the
  verifier reports tampering for ever after. No caller in the repository passes
  a string.

| Configuration, module | What is said | What happens |
|---|---|---|
| `damage_field.cfg`, `LedgerDamage` | ADR 0004: "Detects tampering of any field in any row" | not of `sequence`, which `computeRowHash` does not cover: an edit that keeps the rows' order is not noticed |
| `damage_tail.cfg`, `LedgerDamage` | ADR 0004: "Detects deletion of any row" | not of the last rows: no other record says which row should be last |
| `pipeline_errors.cfg`, `MCEvidencePipeline` | `EvidenceStoreWriteError`: "could not be stored" | the INSERT may have been executed |
| `pipeline_errors.cfg`, `MCEvidencePipeline` | `EvidenceLedgerWriteError`: "could not be appended ... retry" | the append may be committed; the retry enters a second event for the row, which harms no checked property |
| `anchor_error.cfg`, `VerifiedAnchor` | `AnchorTransactionError`: "could not be anchored" | the transaction may be mined |
| `tasks_terminal.cfg`, `MCAgentTasks` | `docs/agent-orchestrator-task-graph.md:107` rejects "transitions after COMPLETE or FAILED" | a command that read an ACTIVE graph overwrites the terminal one that another has written and reported |
| `tasks_stale_review.cfg`, `MCAgentTasks` | the same document, line 94: a retry "blocks downstream tasks again" | a review begun before the retry passes the new attempt's task |
| `spec_scope.cfg`, `MCSpecFlow` | `docs/implementation-conformance-gate.md:5`: changed files stay in scope | `--diff-filter=ACMR` leaves deletions out |
| `spec_scope.cfg`, `MCSpecFlow` | the same line: the explicit scope of the reviewed Spec | the gate reads `design.md` as it is now |
| `work_rollback.cfg`, `MCWorkOrchestration` | "bootstrap failed and was rolled back" | a file that was opened and could not be filled stays |
| `work_stale_evidence.cfg`, `MCWorkOrchestration` | `docs/ai-development-os.md:32`: when verification is READY the gate is run | evidence of the attempt before is still there, and `work:status` asks to record it |
| `work_sensitive_scope.cfg`, `MCWorkOrchestration` | `docs/work-first-development-orchestration.md:20`: sensitive components need a Security Reviewer | an entry that names a directory is not sensitive by its own name |
| `work_printed_bootstrap.cfg`, `MCWorkOrchestration` | `docs/work-first-development-orchestration.md:44`: `work:status` returns the next permitted action and applicable commands | the bootstrap it prints (`work-development-orchestrator.js:331`) has no Security Reviewer and is refused (line 203) where a component is sensitive |
| `audit_curve.cfg`, `MCAuditTrail` | `docs/signature-provider-design.md:46`: keys must report `ECC_SECG_P256K1` | checked once per provider; the alias may move to another curve |
| `audit_rotation.cfg`, `MCAuditTrail` | `lib/audit-manager.js:114`: `tamper_detected` counts real changes | after a rotation genuine evidence is recorded so |

### What the properties do not say

Each is as strong as the code allows, and some exceptions are worth knowing:

- `OrderedFlow` lets one row have two events: a retry after an append in doubt may
  enter a second one (`pipeline_errors.cfg`).
- `StoredIsCarriedOn` excepts rows whose caller crashed or was told that they were
  not stored: nothing in the code finds these again (`pipeline_errors.cfg`).
- `GraphIsReachable` and `RetriesAreBudgeted` hold of whichever of two overlapping
  rewrites wins. That the other's event is lost, or that an event is of an earlier
  attempt, they do not tell (`tasks_terminal.cfg`, `tasks_stale_review.cfg`).
- `PassHasArtifact` asks for a review on disk, and that of an attempt before will do.
- `EvidenceIsIndependent` is about the files that are replaced while the structure
  check runs; of the changes, the gate uses those it captured before.
- `StoredAreTheNumbers` is about answers that spell two INTEGERs: of a damaged
  answer that decodes to something it asks nothing.
- `ValidMeansGenuine` cannot tell a forged row with a fresh hash from a real one,
  nor an edited `sequence` (`damage_field.cfg`).
- `StatusMatchesCommands` excepts the bootstrap that is printed for sensitive
  components (`work_printed_bootstrap.cfg`).

## Fairness

Only `ledger_liveness` uses any. Weak fairness on the statements: a client that
stands at a statement sends it and the server answers. Weak fairness on
`ServerCommit` and `BackendAborts`: a received COMMIT completes, and the server
notices a dead peer (TCP keepalive) in finite time. Strong fairness on `Connect`
and `AcquireLock`: `pg.Pool` hands connections to its waiters, and PostgreSQL
the lock to its waiters, in order of arrival, so nobody is overtaken for ever.
Failures, disconnections and new calls are never forced.

## Proofs

Every safety property of a passing run is also proved, for every value of the
constants. Each `...Proofs` module has the same
layout: an inductive invariant `IInv` (`FlowInv`, `DerInv`) of named parts; one lemma per action that
the action keeps it; `Invariance` (`Spec => []IInv`); and one short theorem per
property. TLC checked each `IInv` on the run's instance before it was proved (in
`WorkOrchestration` with weaker forms of the type conjuncts it cannot evaluate).

| Module | Theorems besides `Invariance` and `TypeCorrect` | for any |
|---|---|---|
| `SigningLedgerProofs` | `ChainIsIntact`, `AckedAreRecorded`, `OneWriterAtATime`, `Implementation` | clients, backends, bodies, pool size, events |
| `LedgerDamageProofs` | `ValidIsGenuine`, `InvalidHasCause`, `AppendsAreValid` | bodies, appends, losses, changes of any column and rows put in, sequence numbers |
| `VerifiedAnchorProofs` | `WhatIsSentIsBacked`, `ResultsAreUnique`, `Implementation` | callers, keys, digests, ledger rows, damages of any kind, transactions of anybody |
| `EvidencePipelineProofs` | `FlowIsOrdered`, `ResultsAreUnique`, `RowsAreCarriedOn`, `Implementation` | callers, versions, contents, signatures, appends |
| `AgentTasksProofs` | `GraphsAreReachable`, `BudgetsAreKept`, `TransitionsHaveEvidence` (with `EvidenceInvariance`), `PassesHaveArtifacts` (with `ArtifactInvariance`) | finite set of processes, delegations, practices, retries, runs |
| `WorkOrchestrationProofs` | `BootstrapsStayWhole`, `EvidencesAreIndependent`, `StatusMatches`; of `SpecFlow`: `FlowInvariance`, `FlowTypeCorrect`, `ScaffoldsAreOfOnePack`, `ReadyIsEdited` | commands at one time, settings, Specs, delegations, paths |
| `SigningProviderProofs` | `SignersAreOnRecord`, `VerdictsAreRecorded`; of `DerCodec`: `DerInvariant`, `NumbersAreStored`, `SignaturesAreSent` | calls, keys, evidence, rotations, either provider; width, byte base, tags, contents of the INTEGERs |
| `LambdaInvocationProofs` | `CallsAreReconcilable`, `OutcomesTellOfCalls`, `SummariesAreOfOneCall` | invocations, runs, builds, calls |

`Implementation` (`Spec => ImplementsLedger`, and `Spec => ImplementsWriteOnce` of
the other two) is about steps; the other theorems are of the form `Spec => []Inv`.

### The arguments

*SigningLedger.* `ChainIntact` alone is not inductive: a commit keeps the chain
only if the row it commits continues the last committed row *at that moment*.
`IInv` therefore says what each client knows at each statement. `ConnInv`: a
connection has one client, whose position tells the transaction's state.
`LockInv`: from `read` to `commit` the client's backend holds the lock, and any
backend with uncommitted rows holds it. `DraftInv`: the `previousHash` a client
has read is still the last hash, and its event id is new. `PendingInv`: an
uncommitted row is the one row that may follow the committed ones. The step
that matters is `ServerCommit`: by `LockInv` no other backend has pending rows
and no other client holds a read value, so adding the row after all others
(`AddedRowKeepsChain`) disturbs nobody. Sequence gaps need no argument: only the
order of the numbers is used. The refinement needs `PendingInv` for the entering
step and `DraftInv` for the acknowledging one; all other steps stutter.

*LedgerDamage.* What the steps keep is little, since any column may be changed:
numbers and ids are unique and no id is used that `appendEvent` has still to draw
(`IdsInv`, the hashes included); every hash in the table is that of an appended row
or was computed outside (`HashesInv`); an appended row comes after the appended
row it is chained to (`ParentInv`). The verdict is then a matter of one table. A row
without fault has the hash of its content, so it is what was appended under that
hash or was hashed outside (`FaultlessIsGenuine`, with `HashTellsRows`). That
all it was chained to stands before it is shown by a least counterexample over the
sequence numbers (`FaultlessHasPrefixes`, with `FirstRow` from the well-foundedness
of the naturals), and the converse (`WholeIsFaultless`) the same way. The
three verdict theorems have the hypothesis `Texts = {}`, no payload is a string
of JSON text. It is needed: `AppendedIsValid`, which `AppendsAreValid` proves
under it, is the property that the run `damage_payload` violates without it.

*VerifiedAnchor.* The ledger's part is an instance of `LedgerDamageProofs` with
the bodies of this module, none of them a string; a ledger step keeps its
`IInv`, and `ValidIsGenuine`'s lemma gives what is needed at `ConfirmInLedger`
(`ConfirmedIsBacked`): an event found in a table judged valid was appended with
this body, or hashed outside the program, which no verdict can tell. That the
ledger may be damaged right afterwards does not matter, for `Backed` speaks of what
was recorded. `TxInv` numbers the transactions, each of one call; `ReceiptInv` ties
a successful receipt to the contract's map. That makes the refinement of
`WriteOnce` a matter of three actions: `Mine` and `MineForeign` write, if the contract
does not refuse, and `ReceiptOk` answers with the time the contract has.

*EvidencePipeline.* `CallerInv` says what a caller at each `await` has caused;
`OwnerInv`, that from the signature on no two callers share one; `StoreInv` is
the UNIQUE constraint, and that an INSERT in doubt has lost its caller. A result
is unique because only the caller whose INSERT was answered goes on. In the
refinement of `WriteOnce` the UNIQUE constraint is what makes `StoreOk` and
`LateInsert` write, and `CallerInv` what makes `LedgerOk` answer with a stored row.

*AgentTasks.* `Sound` graphs, those the work can stand at with their history and
retries in balance, are closed under `applyEvent` (`EventIsSound`), and every
graph that a command holds in memory was computed from a sound one. So it does
not matter which of two overlapping rewrites wins. The evidence of runs is a
counting argument, `EvidenceInv`: entries in any copy of the history, plus the
commands that still wait to make one, are at most the runs that asked; a command
that reads, waits no more, and its copy has one entry more. `ArtifactInv` follows
who can know of a reviewer's pass.

*WorkOrchestration.* `CommandInv` says that a bootstrap creates four artifacts in
order and that what is on its list of created ones is there; `OwnerInv`, that one
bootstrap at most has created anything (all start with the delegation, and the
flag `wx` lets one through) and none once a bootstrap has reported success. So a
rollback removes only what is its own and unreported. `FilesInv` says what each
file may hold, a torn one included, but no review or evidence is ever torn by a
bootstrap. `StatusMatches` needs no history: `Status` and
`preflightBootstrap` ask the same of Spec, handoff and directory; from
`validateTaskGraphState` the READY task is one that the graph accepts, and from the
comparison of roles each printed command finds what it `Takes`. The bootstrap of
sensitive components is excepted, since it is refused as printed.

*SpecFlow.* Its documents, handoff and branch are those of `SpecState`, which
`WorkOrchestration` has too, so its proofs stand in the same module and use the
same facts about the gates. `WriterInv`: one command writes, the one whose mkdir made the
directory, and the files nobody edited are of its Context Pack. `UneditedInv`:
those are as scaffolded, with the placeholders that the readiness gate refuses.

*AuditTrail.* `ProcInv` says what a call knows at each `await`: between provider
and append the key it is going to name is the one that signed (`Genuine`), and a
negative verdict that is returned is `Recorded`. `UpdateAlias` disturbs nothing
since only physical keys are named.

*DerCodec.* The two steps are easy: `DerInv` says that `raw` is the decoded answer
and `again` the encoded `raw`. The work is in the two functions. `Number` is a
recursive function over positions (`NumberIs`, `NumberSteps`), and what holds of
all its values is shown by induction over a *set* of naturals (`Induction`, from
a least element of its complement, `Least`): leading zeros do not change the
number (`LeadingZeros`), and of two contents of one length the one that is larger
at the first difference, or has more bytes and no leading zero, is the larger
number (`LargerBytes`, `LargerFirst`). So the contents that `readInt` takes, by
length and sign byte, are those whose number fits in a component
(`FitsIsShortFits`); that it finds them at the right offset in either length form
is `readIntAt`, and for a whole answer `SignatureDecoded`. In the other direction
`ContentIs` gives the content that `encodeInteger` writes, minimal and of the
component's number; `MinimalIsTheContent`, that the minimal content of a component
is unique; and `RoundTrip`, that decoding gives back the component.

*LambdaInvocation.* `TraceInv` ties an invocation's position to its traces in log
and Bedrock, `OutcomeInv` its outcome, which a timeout may
still take from it until it is delivered, `FileInv` the kept files; a timeout may
leave the request in flight, which is why `TraceInv` covers both.

### Assumptions

All are named in the module that declares the constants, and TLC evaluates them in
every run. Bounds are numbers; `None`, `Absent`, `Torn`, `Malformed` and
`NoBackend` are none of the values they stand beside; subsets are subsets. Those
that say more:

- hashing is injective (built into `computeRowHash`);
- `InputAssumption` (`EvidencePipeline`): there are a key and a document;
- `AgentTasksAssumption`: processes are finitely many, builder and reviewer are
  always delegated (`validateDelegationRoles` refuses anything else);
- `SpecFlowAssumption`: a revision of a file gives documents;
- `DerCodecAssumption`: the body of a signature, and of an answer, is short enough
  for a length byte whose high bit is free (70 bytes and 128 in the code); tags
  have that bit free too, and `Error` is no signature.

### What the proofs changed in the models

Proving found one fault in the models that no run could show. Some definitions
used a `CASE` whose guards overlap and relied on their order (`StandsAt`, `Status`,
`runCodexReviewer`, `NextFile`). TLC takes the first guard that holds; TLA+ lets
`CASE` choose any, and the obligations that needed the order failed. They now are
`IF ... THEN ... ELSE`, as in the code.

### Only model-checked

- `EveryCallEnds`: liveness under fairness is beyond the prover.
- The configurations of refuted statements: counterexamples, not theorems.

## What is left out

- `CREATE TABLE IF NOT EXISTS` by two processes at once (PostgreSQL may refuse
  one of them); tables are there initially.
- Isolation levels other than READ COMMITTED, failover to a replica, and
  commits lost by the server after it answered.
- Reorganisations of the chain: a mined transaction is final. What other accounts
  anchor is modelled, what for is not: no property speaks of their digests.
- Malformed answers of the ethers client (`INVALID_ANCHOR_STATE` and the like)
  are part of the failure actions.
- Schema validation, canonicalization, signatures and metadata formats: their
  results are values.
- The text of prompts, documents and reports; the environment handed to provider
  processes; worktrees and branches other than the feature's.
- The object stores: no program of the repository writes through them, so there
  is no caller to interleave. A retried conditional put whose first answer was
  lost reports `OBJECT_ALREADY_EXISTS` for its own write.
- The AgentCore demo: its order of tool calls is that of a third-party loop, and
  its processing is that of `LambdaInvocation` with other ids.
- In `LambdaInvocation`, response files are what the Lambda service wrote, or cut
  off; files edited by hand are left out.
- The parts marked `not_modelled` in `PROJECT.json`, with the reason there.

## Plan

All parts with state and callers are modelled, and the safety their runs check is
proved. What could be added:

1. `EvidencePipeline` over `AppendOnlyLedger`: its one-step `appendEvent` as an
   instance of the abstract ledger, as `LedgerDamage`'s is of `SigningLedger`.
2. Action properties of the other components: results and records that no step
   takes back (`AuditTrail`'s ledger, `LambdaInvocation`'s log).
