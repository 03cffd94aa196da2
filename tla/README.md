# A TLA+ verification of the Universal Governance Kernel

UGK is a library that a Python program calls to have its operations *governed*: an operation is
admitted or refused, the decision is written as a hash-linked receipt into SQLite, and only then does
the operation's effect run. The whole value of the system lies in the order and the atomicity of a few
writes, under failures, nesting, threads and restarts. That is what this project models, together with
the subsystems around the kernel that have a state of their own: registries folded from the chain,
ledgers and key files shared by processes, network adapters, and the tools that certify a release.

## 1. Inventory

| Component | State it keeps | Operations | Talks to | What is hard |
|---|---|---|---|---|
| Receipt store `storage/store.py`, `integrity/transaction.py` | the `receipts` table, three archives, the schema; in memory `_prior_h_r`, `_prior_h_m`, `_schema_hash`, `_txn_depth`, an RLock | `write`, `transaction`, `migrate_schema`, `seal_and_prune_epoch`, `seal_*`, verification | SQLite; called by everything | the in-memory frontier is not part of what SQLite rolls back; nested savepoints; one connection for all threads; crash in a block |
| `execute()` `kernel.py` | governance status, enforcement settings, session | the refusal horizon, `gate_admit`, warrant, one path per effect class, abort receipts | store, warrant store, will store, effects that may call back | every write may fail on its own; nested calls share the caller's seam |
| External effects `kernel.py`, `integrity/external_*.py` | only receipts: PREPARE, COMMIT, ABORT, COMPENSATE, COMPENSATED, COMPENSATION_FAILED | the two execution paths, compensation, three reconciliations, orphan detectors | the outside world | the act cannot be rolled back; death between act and receipt; ambiguous exceptions; checks separate from writes |
| Continuations (`defer_operation`, `resume_continuation`) | HELD/EXPIRED/RESOLVED/REFUSED receipts, expiry by chain height | defer, resume | execute, store | height falls on a prune; a failed resume leaves HELD; no lock over lookup, operation and marker |
| Namespace governance `namespace_governance.py` | none: holders are a fold over the chain | claim, allocate, delegate, revoke, invalidate, supersede, adjudicate | execute, store | a call is admitted on a holding that has changed when its receipt is written |
| Intents and will `intent.py`, `will.py` | SQLite tables, scope and flags | declare, revoke, coverage | execute | errors swallowed half-way; redeclaring what was revoked |
| Amendments `amendment.py`, `amendment_admissibility_gate.py` | a JSON ledger rewritten whole | load, append, the gate's chain walk | charter, kernel | append checks nothing; two processes with two copies; a torn file reads as empty; the walk reads ahead |
| CSH `csh.py` | validator set, attestations | attest, detect equivocation, achieve finality | ceremony | quorum arithmetic, equivocation, replays |
| Authority graph, policies, decisions, witnesses `authority/`, `governance/`, `decision.py`, `witness.py` | process-wide dictionaries without a lock | register, clear, path search, attenuation, D_s..D_j, construct and verify a witness | `store.write`, execute | readers insert defaults; a write looks up four times before it hashes |
| Founding and the genesis directory `charter.py`, `cli.py`, `kernel.py` 333-777, `run_gates_batch.py` | six files: key, manifest, private key, validator set, inception certificate, seal | charter, authority-model --set, govern, attest, the suite's temporary founding | CSH, kernel | truncate-then-write; deaths in between; a key read once at import |
| Ceremony and session | keys, hashes, counts | `_ceremony`, `open_session`, `close_session`, `hydrate_readonly` | store, CSH | half-finished ceremony |
| Transport `broker.py`, `rpc.py`, `agent.py` | nonces, a lazily created default kernel, an HTTP server | submit, govern, session | kernel | the answer's hash is read after the call, whatever came of it; the default kernel is published before it is founded |
| Scale lane `scale/oracle.py`, `scale/scheduler.py` | chain, durable queue | independence, priority order, commit lane, recovery | an effect per candidate | verdicts used after the chain has grown |
| Release tools `tools/release/`, `tools/grbsa/` | manifest, proof cache, bundle, status file, log | certify with resume, frontier, bundle, detached jobs | the archives directory | resumed and cached verdicts, torn files, replaced archives, jobs that outlive their caller |
| Warrants, trace vector, projections, audit, CLI, hash bindings, conformance gates | tables of warrants; otherwise none | materialise, query, report, test | execute | outside TLC's reach, or no state |

`PROJECT.json` lists every component with its status, and under `hazards` what in this code is hard to
test, each at its line with the property that would catch it.

What makes each modelled part correct:

* store: the frontier always names the newest row; a block is all or nothing; what a caller was given
  is never lost; a prune leaves a chain that verifies from a recoverable anchor;
* effects: a terminal is true, single, and an act never disappears from both the terminals and the
  orphan report;
* execute: decision before effect, effect and success together, no success for a call that failed,
  fail-closed before founding, no effect without the warrant the model demands;
* namespaces, intents, continuations, amendments: what was true at the check need not be true at the
  write, and the later reader (the fold, the lookup, the loader) must not be misled by that;
* quorum and founding: two finality artifacts agree if their attestations are the validators' own, and a kernel that reports quorum has it from its
  own governor, whatever files an earlier process left;
* scale and release: a verdict that is reused (sorted by, resumed from a manifest, taken from a cache,
  read from a status file) is still a verdict about the thing it is used for.

## 2. Modules

| Module | Models | Lines of the code |
|---|---|---|
| `ReceiptChain` | abstract: what whoever reopens the file relies on | - |
| `ReceiptStore` | the store object over SQLite | `store.py`, `integrity/transaction.py` |
| `EffectTrail` | external effects, reconciliation, compensation | `kernel.py` 779-1358, `integrity/external_*.py` |
| `Kernel` | `execute()`, ceremony, settings, restarts | `kernel.py` 333-777, 1360-1840 |
| `Namespace` | ownership of names | `namespace_governance.py` |
| `Will` | intents and steps C1-C3 of `execute()` | `intent.py`, `will.py`, `kernel.py` |
| `Deferred` | continuations | `kernel.py` 1850-1960, `store.py` |
| `Amendments` | amendment ledger and the walk that reads it | `amendment.py`, `conformance/amendment_admissibility_gate.py` |
| `Csh` | attestations, quorum and finality | `csh.py` |
| `Provenance` | authority graph, policy caches, decisions, witnesses | `authority/`, `governance/`, `decision.py`, `witness.py` |
| `Transport` | broker, RPC server, agent | `transport/` |
| `Scale` | oracle, scheduler, commit lane | `scale/` |
| `Release`, `Frontier`, `Detached` | certification run, bundle phase with proof cache, detached jobs | `tools/release/`, `tools/grbsa/` |
| `Deployment` | the genesis directory and the commands that share it | `charter.py`, `cli.py`, `kernel.py`, `csh.py`, `run_gates_batch.py` |
| `ReceiptStoreProofs` | theorems about `ReceiptStore`, and that it implements `ReceiptChain` | - |
| `EffectTrailProofs`, `KernelProofs` | theorems about `EffectTrail`; about `Kernel`, and that its file implements `ReceiptChain` | - |
| `GovernanceProofs` | theorems about `Will`, `Deferred`, `Transport` | - |
| `AuthorityProofs` | theorems about `Csh`, `Namespace`, `Amendments`, `Provenance` | - |
| `ScaleProofs`, `ReleaseProofs` | theorems about `Scale`; about `Release`, `Frontier`, `Detached`, `Deployment` | - |
| `SubsystemsProofs` | theorems about the composition of the subsystems in `MCSubsystems` | - |
| `MC*` | the instances TLC checks; `MCSubsystems` puts the twelve subsystems side by side | - |

`PROJECT.json` gives the exact lines of every definition.

### ReceiptStore

`durable` is the file, `working` the database as the connection sees it, `savepoints` SQLite's stack with
the image each would restore, `inTx` whether a transaction is open. `tip` and `schemaHash` are the Python
attributes, `frames` the snapshots that the open `transaction()` blocks hold, `owner` the thread that has
the RLock between two calls. A receipt's `h_r` is a name never used before: the hash is assumed
collision-free, and two receipts never coincide because each commits to its parent and its timestamp.
`told` is a ghost: receipts whose write, or whose enclosing outermost block, was reported a success.

One action is one method call: `Write`, `Enter`, `ExitClean`, `ExitRollback` (also the exit of a block
whose RELEASE failed), `MigrateSchema`, `SealAndPruneEpoch`, `SealArchive`, and `CrashReopen` for the
death of the process and `__init__` on the same file. `migrate_schema` and the prune hold the lock and a
block throughout, so a failure inside them is a stutter. The prune's four guards are the code's preflight
and pre-commit conditions. `SpecArchiveInBlock` adds what the code also allows: an archive write, with
its unconditional `conn.commit()`, by code inside a block, and `ExitLost` for leaving a block whose
savepoint that commit destroyed.

`Database.anchor` is no column. It is the `seal_hash` of the newest `epoch_pruned` receipt, which an
operator hands to `verify_from_seal`; `AnchorRecoverable` says that it can always be read back.

### EffectTrail

`trail` is the sequence of effect receipts (a receipt's position is its `h_r`), `base` how many of them a
prune deleted, `performed` and `offset` the truth about the outside world, `call` the step each kernel call
has reached. A check and the write that depends on it are different steps, as in the code: the store's
lock covers one write. `Spec` lets every call interleave. `QuietSpec` adds the discipline that the code
leaves to its operator: an effect is reconciled or compensated only while no other call works on it. The
passing run uses `QuietSpec`; `terminal_race` shows what `Spec` adds.

A reconciliation is assumed honest: the operator's determination is what happened. That is the
premise of "governed, out-of-band reconciliation" in `integrity/external_irreversible.py`; the code cannot
check it.

The two arcs treat an ambiguous exception differently. A forward effect that raises is left in doubt; an
offset that raises is recorded COMPENSATION_FAILED, whether it took place or not. `OffsetTerminalsTruthful`
therefore takes COMPENSATED and a reconciled COMPENSATION_FAILED at their word, and an in-band
COMPENSATION_FAILED not; what the docstrings say of it is the property of `offset_failed`, which fails.

### Kernel

The store is reduced to what `ReceiptStore` establishes: `chain` with a stack of `marks` where the open
seams began. `stack` holds the executes under way, since an effect may call `execute()` again; `calls`
remembers each admitted call with its parent, class and result; `acts` the calls whose effect has begun.
`ProtocolChecks` and `RefusalChecks` list the refusal horizon in the order of the code; the first failing
check gives the verdict. Every write after the decision may fail on its own (`WarrantFails`, `StartFails`,
`SeamFails`, `OutcomeUnwritten`). A malformed call, and one whose decision cannot be written, raises and
changes nothing, hence a stutter.

`Next` restricts calls made from inside a seam to those that a rollback can undo (`Revocable`); the code
has no such restriction, and `nested_decision` shows what happens without it.

Left out of `Kernel`: warrants live in a store of their own, on a connection of its own, and are assumed
file-backed (the default is in memory); refusal warrants, counters per layer, and `hydrate_readonly`, whose
store refuses all writes.

### The subsystems

Each has a prefix of its own (`Ns`, `Wl`, `Ct`, `Am`, `Csh`, `Pv`, `Tr`, `Sc`, `Rl`, `Fr`, `Rd`, `Dp`) so that
one module can extend them all. They share no variables in the code either, except through the chain;
where one calls `execute()` it uses what `Kernel` establishes, the receipts a call leaves and how it
ends. A step is what the code does without letting another thread, process or crash in between.

* `Namespace`: `nsLog` is the chain's ownership receipts, `nsPending` the call that each thread has had
  admitted and not yet written. `NsProject` is `_project`, which decides again at every receipt; a prune
  shortens what it reads.
* `Will`: the two tables with a revocation that may fail between its two statements, the closure over
  production edges, the choice of the covering declaration, the flags of `set_will_store`.
* `Deferred`: the receipts of continuations among others, with lookup, expiry, re-entry and marker as
  separate steps of `resume_continuation`. A continuation may be held again under an id in use.
* `Amendments`: `amDisk` is the file, `amMem` each process's list. `append()` takes any record, without a
  check, and rewrites the file from the process's own list; a death in the middle leaves a file that
  loads as no records. `AmPasses` is the conformance gate's chain walk with `is_admissible` at every
  record, up to its comparison of the head with the live frame. The walk takes a leg's starting value
  from the first record that commits one, so a later record changes what an earlier one is judged by;
  `amPassed` remembers which lists passed when they were written.
* `Csh`: an attestation carries the key that verifies it and the root it is counted for, and nothing in
  `verify()` or `achieve_finality()` compares the two: whoever is faulty or a stranger may name any
  validator. Any list of attestations that were sent may reach `achieve_finality`. A correct validator signs
  one hash per epoch; that is an assumption, since `create_attestation` keeps no record.
* `Provenance`: registration, clearing, and the test, fill and read of every lookup. `store.write` makes four
  lookups (policy, key, capabilities, chain), hashes and inserts; each part is a step, and between any
  two of them others may register, clear or insert their default, over a registration too. A walk up the
  graph is one step, and the writer is not the Governor itself, whose path is empty. `PvWitnessOfRoot` is
  about the first receipt only, because `construct_witness` always rebuilds an empty lineage; and only
  of a write under which no entry was replaced or removed (`pvQuiet`): after one a receipt may
  commit to capabilities of one graph and a chain of another.
* `Transport`: `trRan` records the nonces that were executed. Building, founding and publishing the default
  kernel are steps of their own, so two threads may each build one. A call ends admitted, refused by a gate,
  in one of the four exceptions that the broker answers without a hash, or in any other, which it answers
  with the tip; the last two may leave a receipt (`protocol_error`, an abort) or none. A seam holds the
  store's lock from its opening to its commit or rollback.
* `Scale`: a batch, its order as a permutation, the bubble passes one comparison at a time, then the
  lane with receipt, effect, refusal and exception.
* `Release`: an archive is a function from files to contents, a scratch directory keeps what earlier runs
  left, and extraction lays the archive over it. A success is remembered with the tree it happened in.
  The checks themselves are opaque commands with a verdict.
* `Frontier`: links by file name and hash, the cache keyed by the contents evaluated, the
  bundle and its consumer. Whether two contents really continue one another is a constant fact; an
  evaluation may still fail.
* `Detached`: a poll's two reads against the job's last steps. A launch may keep the old status, since a
  failure to remove it is passed over. `RdPassIsOwn` makes a PASS the new job's own if the path was left without a
  status and no earlier job was alive: an orphan left by a timeout can still write the shared file. In every
  case a PASS is some job's of that path.
* `Deployment`: six files, each written by truncation and a write. The operator's discipline
  (`DpMayStart`) is that a command that rewrites the charter runs alone; nothing in the code enforces it.

In `Deployment` a charter that dies between truncation and write leaves an empty `GENESIS_KEY.pub`. The next
process reads it as a key, and `_ceremony`, which refuses only the unset sentinel, founds an ACTIVE kernel on
it, although the comment at `kernel.py:396` asks for a real governor identity. `DpQuorumIsOwn` shows that
such a kernel never reports quorum. In `Frontier`, `_resolve_arch` falls back from content to file name;
`FrPassEarned` shows that a PASS is safe all the same.

## 3. Runs

| Run | Result | What it shows |
|---|---|---|
| `receipt_store` | pass | frontier, connection and file agree through nesting, rollback, migration, prune and crash; the file implements `ReceiptChain` |
| `effect_trail` | pass | truthful, single, complete trails under the operator's discipline; calls end |
| `kernel` | pass | order and atomicity of decision, warrant, effect and outcome; calls end |
| `subsystems` | pass | the properties of the subsystems, below |
| `archive_in_block` | violation | an archive's commit inside a block makes a failed block durable |
| `terminal_race` | violation | two terminals for one PREPARE |
| `prune_in_doubt` | violation | a prune deletes an in-doubt PREPARE, which no detector then reports |
| `verified_grade_bodies` | violation | an honest chain with a verified-grade terminal fails body verification |
| `offset_failed` | violation | an offset that takes place and raises is recorded COMPENSATION_FAILED |
| `nested_decision` | violation | a nested NON_ATOMIC or external effect whose decision a rollback or crash erases |
| `revoked_intent` | violation | a call that names a revoked declaration is admitted on it |
| `continuation_outcome` | violation | a continuation whose resumption was refused or failed runs again |

Each violation is a sentence of the repository that the code does not keep; `findings` in `PROJECT.json`
quotes both.

In `MCSubsystems` a behaviour first has a `focus`, one subsystem, and only that one moves: the run explores
the union of the twelve state spaces, not their product, which is sound because no property relates two of
them. Deadlock is not checked there: each subsystem stops at its bounds. What it shows:

| Properties | Claim |
|---|---|
| `NsOnlyHolderActs`, `NsRevocationPermanent`, `NsDelegatesOfHolder` | a gate that was passed too early gives nobody a name, revives none and leaves no delegate behind |
| `WlRevokedNeverSeeds` | redeclaring or rescoping never revives a revoked intent for calls that name none |
| `CtSettledNotReentered` | a settled continuation is not re-entered, through prunes, crashes and other threads |
| `AmPassedThroughout` | a ledger that passes the chain walk has passed it after each append: no later record, overwrite or torn file makes good a ledger that was refused |
| `TrNonceOnce`, `TrAnswerCovers` | a nonce runs once per server life; no receipt of a call comes after the hash in its answer, and the hash of an admitted or refused call covers one |
| `CshAgreement` | no two finality artifacts of one epoch disagree, if each attestation in them was signed by the key of its root |
| `PvAttenuated`, `PvWitnessOfRoot`, `PvVerdictMonotone` | no escalation along a verified path; witnesses open what was hashed unless an entry changed under the write; time only makes a verdict worse |
| `ScDependentOrderKept`, `ScPrioritySettled` | no dependent pair is reordered, and the pass bound never cuts the sort short |
| `RlPassEarned`, `FrPassEarned`, `RdPassIsOwn` | a PASS, resumed, cached or polled, goes back to a success: in a tree that held this archive, on these contents, of this job (or, where its status could not be cleared, an earlier one of the path) |
| `DpQuorumIsOwn` | quorum is reported only when identity, key file, private key and validator set name one key |

Bounds, and why they are enough:

* `receipt_store`: two threads, six receipts, nesting three deep, one migration, one archive version. Six
  receipts allow two prunes with receipts between them, or a prune in a block that is rolled back;
  three levels are needed for an inner block that rolls back inside one that commits inside one that
  rolls back. The theorems below remove the bounds. Threads are symmetric.
* `effect_trail`: two calls at once, two keys, five receipts, two attempts at a terminal. Five receipts hold
  a whole reversible arc (PREPARE, COMMIT, COMPENSATE, its terminal) beside another attempt's PREPARE.
  Keys are not declared symmetric because a liveness property is checked.
* `kernel`: two admitted calls (one nested in the other, or one after the other), one receipted refusal, one
  ceremony, requests that differ from an ordinary governed call in one respect, under the permissive
  settings of `__init__` and under the strictest. One effect writes at most one receipt of its own.
* `subsystems`: `Namespace` two threads, one name in three spellings, three receipts (two pending calls and one
  that changes the holding under them); `Will` three operations, two scopes, one call after any
  number of declarations and revocations; `Deferred` two threads, one continuation, six receipts, so
  that a prune can lower the height below an expiry; `Amendments` two processes, ledgers of three, genesis
  and three other records (two moves of the law, one of them unsigned, and a move of another leg from a
  value that is not the live one); `Transport` two threads, one nonce, two calls, three kernels (two racing defaults and a given one);
  `Csh` four validators of which one equivocates, the smallest set that tolerates one, and a stranger; `Provenance` one
  writer beside the administration, two authorities (a chain and a cycle); `Scale` twelve batches of up to
  five candidates (one above the capacity) with posture, safety and data dependencies; `Release` three archives, two runs (one
  resumed); `Frontier` four contents, two runs; `Detached` two jobs on one path; `Deployment` two
  processes, two keys and the fixture, four commands (found, die, rewrite, found again).

Fairness: `QuietSpec` has weak fairness of each call's own steps and `Kernel!Spec` of `Proceed`: a Python
thread that is inside a call goes on, effects return or raise, and SQLite answers or fails. Nothing is
assumed of callers, operators, crashes or further calls. `ReceiptStore` has no liveness property and no
fairness, nor have the subsystems: what they promise is that a stale or torn thing is not believed.

## 4. Theorems

Every safety invariant and every action property that a passing run checks is also a theorem, for all
values of the constants. What TLC shows on the instances of
section 3 thus does not depend on their bounds. The inductive invariants that say more than types were checked by TLC on the run's instance
first.

| Theorem | Statement | Inductive invariant |
|---|---|---|
| `TypeCorrect` | `Spec => []TypeOK` (`ReceiptStore`) | `IInv` |
| `FrontierNeverDiverges` | `Spec => []FrontierAgrees` | `IInv` |
| `NothingUnreportedIsDurable` | `Spec => []OnlyReportedIsDurable` | `IInv` |
| `FileAlwaysVerifies` | the file is linked from its anchor | `IInv` |
| `ReportedIsKept`, `AnchorIsRecoverable` | `Spec => []ReportedNotLost`, `[]AnchorRecoverable` | `ChainInv` |
| `SchemaChangesAreReceipted` | `Spec => SchemaChangeReceipted` | `ChainInv` |
| `StoreImplementsChain` | `Spec => ImplementsReceiptChain` | `ChainInv` |
| `TrailTypeCorrect` | `EffectTrail` keeps its types, prunes and races included | `TypeInv` |
| `OneOutcomePerAttempt`, `TerminalsNeverLie`, `ActsAccountedFor`, `OffsetsHappenOnce`, `OffsetTerminalsNeverLie` | `QuietSpec => []` of the five trail properties | `TrailInv` |
| `ConfirmationsNeverLie` | no COMMIT or COMPENSATED is false, with races and prunes and no discipline | `RaceInv` |
| `NestingIsSafe` | `FreeSpec => []` of the type and four kernel properties, whatever calls effects make | `KernelInv` |
| `KernelTypeCorrect`, `SeamsAreAtomic`, `SuccessIsTrue`, `GovernedIsFounded`, `WarrantsPrecedeEffects` | the same one by one, of `Spec` | `KernelInv` |
| `DecisionsPrecedeEffects` | `Spec => []DecisionBeforeEffect` | `KernelInv`, `InSeamOK` |
| `NestedImplementsChain`, `KernelImplementsChain` | `FreeSpec`, `Spec => FileChain!Spec`: the kernel's file is an append-only `ReceiptChain` | `KernelInv` |
| `RevokedNeverSeeds` | `WlSpec => []WlRevokedNeverSeeds` | `WlInv` |
| `SettledIsNotReentered` | `CtSpec => CtSettledNotReentered` | `CtInv` |
| `NoncesRunOnce`, `AnswersCover` | `TrSpec => []TrNonceOnce`, `[]TrAnswerCovers` | `TrInv` |
| `CshAgreementHolds` | `CshSpec => []CshAgreement` | `CshInductive` |
| `DelegatesAreTheHoldersOwn`, `OnlyTheHolderActs`, `RevocationIsPermanent` | the three namespace properties | `NsInv` |
| `LedgersPassedThroughout` | `AmSpec => []AmPassedThroughout` | `AmInv` |
| `PathsAttenuate`, `VerdictsOnlyWorsen`, `RootWitnessOpens` | the three properties of the registries | `PvInv` |
| `ScDependentOrderHolds` | `ScSpec => []ScDependentOrderKept` | `ScInductive` |
| `SortSettles` | `ScSpec => []ScPrioritySettled` | `ScInductive`, `ScSortInv` |
| `PassIsTheJobsOwn`, `CertificatesAreEarned`, `BundlePassIsEarned`, `QuorumIsTheGovernorsOwn` | `RdPassIsOwn`, `RlPassEarned`, `FrPassEarned`, `DpQuorumIsOwn` | `RdInv`, `RlInv`, `FrInv`, `DpInv` |
| `SubsystemsImplementEach` | `SubsystemsSpec` implements the twelve subsystems' specifications | - |
| `SubsystemsTypes` | `SubsystemsSpec => []SubsystemsTypeOK` | the above and `AmTyped`, `PvTyped`, `ScTyped`, `NsRoom`, ... |
| `SubsystemsSafe`, `SubsystemsStepsSafe` | the run's other invariants and action properties, of `SubsystemsSpec` | those of the subsystems |

The arguments, and why the invariants are needed:

* `IInv`. A rollback restores the rows from a savepoint's image and the frontier from a Python snapshot, two
  stacks kept by two different programs; `FrontierAgrees` afterwards needs the two to have been taken at the
  same moment and still to match. `IInv` says of *every* savepoint that its image is a linked chain whose
  newest row and schema are what the frame of the same depth saved (`StacksAgree`), that only the bottom
  savepoint began the transaction and that its image is the file (`FileAgrees`), that the lock is held
  exactly when a block is open, and that everything in the file has been reported. `Good(db, tip, schema)`
  is its one-database form; `InsertGood` and `PruneGood` show that the two ways of building a chain keep it.
* `ChainInv`. What the file promises from one commit to the next relates two databases, the file and the view
  that will replace it, while many inserts, prunes and rollbacks lie between two commits. `MayReplace`
  states that relation: the view lost a prefix of the file to a seal and has the rest, in order, first.
  It is kept between the file and the connection's view and between the file and each savepoint's
  image. The refinement's step is then immediate for a commit; every other step is a stutter.
* `TrailInv`. What a call is about to write must already be true of the trail and of the world, and stays so
  only because no second call works on the same effect (`Exclusive`); `CallOK` says what each step of a
  call has established, `ReceiptOK` what each receipt in the trail refers to. `Owed` counts the
  receipts that calls under way have room for, a sum over a finite set of processes.
* `RaceInv`. Without the discipline `TrailInv` is lost: `terminal_race` shows two terminals for one attempt, and
  an operator who determines "not performed" while the call is still acting leaves a false ABORT. What is
  left needs no exclusion, because acts and offsets are never undone: a call that will confirm something
  has already seen it happen (`CallTrue`), and nothing that other calls do makes that untrue. So of the
  damage a race can do, a false confirmation is not part, and only what took place is ever offset.
* `KernelInv`. What a reopened file shows is the chain up to the outermost open seam, so a property of the file
  is not inductive: each seam must be ready to be rolled back to while those below it are open. The
  invariant speaks of every level, the prefix of the chain at each mark and the whole chain (`LevelsOK`):
  a level settles every call but those that hold the seams below it. Which calls these are is not a
  variable of the kernel, and with effects that call anything they need not be neighbours on the stack, so the
  invariant says that such a sequence exists (`SeamsOK`: the ATOMIC calls inside their seams, outer first),
  and each step shows how it goes on: kept, one longer, one shorter or, at a crash, empty. The steps are
  those of `FreeNext`, which includes both `Next` and the unrestricted nesting of `SpecNested`.
* `InSeamOK`. That decisions precede effects is the one property that unrestricted nesting breaks
  (`nested_decision`): a rollback of the outer seam takes the nested decision with it, and not the nested effect. Under
  `Next` only revocable calls run above an ATOMIC one on the stack, so a call whose effect cannot be undone
  writes its decision outside every seam, and the file keeps it.
* `FileGrows`. `NestedImplementsChain` rests on it: closing a seam, however deep, leaves the first level where it
  was or moves it up. The mapping knows a receipt's hash by its place, so that the links hold by construction;
  what the theorem adds is that the file only grows. `Kernel` thus promises of its file what it takes over
  from `ReceiptStore`.
* `WlInv`, `CtInv`, `TrInv`. A flagged intent stays flagged, since a redeclaration inserts or ignores; the
  latest remaining receipt of a settled continuation is not a HELD one, through prunes of any length; a
  call's receipts are in the chain of its own kernel before its answer is formed, and two threads are never
  inside the same call or nonce.
* `CshInductive` says what an artifact carries (`CshMcirEvidence`: verified attestations of one hash for a quorum
  of distinct roots) and what correct validators signed (`CshOneHash`). Only where root and key agree does the
  second speak about the first. `CshThresholdBound` is the
  arithmetic of `_quorum_threshold`, more than two thirds for every size; `CshQuorumsMeet` counts two quorums
  and finds a validator in both that does not equivocate.
* `NsInv` is little more than types; the work is in what the fold computes. `NsProject` and `PvWalk` are
  recursive functions. Lemmas show that each equals its step applied to the shorter input (`NsProjectSteps`,
  `PvWalkIs`), then what holds of every log and graph. For the authority graph, the walk from an authority with a path is the walk from its issuer and
  one more subject (`PvWalkOfIssuer`), so a cycle or a gap above an authority is one above all it issued to.
* `PvInv` says what the write under way has taken down (`PvDrafted`): as long as nothing was replaced or
  removed, each value is the one the registries still hold. New entries keep it so because a walk that reached
  the root never meets them (`PvWalkKept`), which is also why the two walks agree.
* `AmInv` says of every list in memory and on disk that its prefixes which pass are noted (`AmNoted`). What the
  walk says of a prefix does not follow from the prefix alone, as it reads ahead for the start of a leg. But in a
  list that passes whole, the first record to commit a leg's prior value is judged by that very value, and
  where it comes after the prefix's end the leg has not moved before it (`AmFramesStill`); where it comes
  before, the frames are the same (`AmFramesKept`). The step from the one to the other is `AmPrefixPasses`.
* `ScInductive`. The order is a permutation; a swap of neighbours makes exactly one new inversion, the pair
  that the oracle has just called independent, and a verdict of independence survives each step of the
  lane since what the chain can verify only grows (`ScKnownGrows`, `ScVerdictStable`).
* `ScSortInv`. In a pass a candidate is compared once with the one before it, so a pass promotes it by at most
  one place. One that a pass did not promote is *late*: between it and any candidate it may pass stands
  a late one that it may not (`ScHeldUp`), so it is never promoted again. What is not late after m passes
  has gone forward m places; after n passes nothing can have, all are late and no neighbours can be exchanged.
  Independence need not be transitive for this.
* `RdInv`, `RlInv`, `FrInv`, `DpInv` say of every place a verdict or a key passes on its way (job, status file,
  poll; run, scratch manifest, resume; evaluation, cache, bundle; file, import, ceremony) what the property says
  of the end.
* The composition. The subsystems share no state, so a step of `SubsystemsNext` is for each of them a step or a
  stutter, and what holds of each specification holds of the composition. `SubsystemsTypes` then needs what the
  invariants above do not say: an admitted namespace call was given room in the log, so pruned, logged and
  pending receipts together stay in the bound (`NsRoom`); a resumed run has recorded no more checks than its
  phase lists; every entry of the scheduler's log is one of `SCALE_OPS`.

Induction. The library's induction theorems take an operator, which the installed provers cannot instantiate.
The proofs use the set form instead: a set of naturals that holds 0 and is closed under successor holds them
all (`NatSetInduction`), from the well-foundedness of `<` on `Nat`. That suffices for recursive functions on
naturals and sequences (existence of the function by induction on its domain, uniqueness by `RecursionUnique`).

Assumptions are the modules' own: `NoOne` is no thread; bounds are natural numbers; processes (`EffectTrail`),
authorities (`Provenance`) and validators (`Csh`) are finite sets, the last with fewer than a third faulty; the
edges an administrator may register are edges; the candidates of a batch have distinct ids; the phases of
a release list checks (`RlAssumption`); a corpus holds contents and a failure is of sections (`FrAssumption`). The theorems
about `EffectTrail` other than its type and `ConfirmationsNeverLie` hold of `QuietSpec`, the operator's
discipline of section 2, and `DecisionsPrecedeEffects` of nesting within `Revocable`: `terminal_race` and
`nested_decision` show that both restrictions are needed.

Only model-checked: the two liveness properties `CallsReturn` and `CallsEnd`. They need fairness and `ENABLED`,
which are out of the prover's reach. The properties of the violation runs are false, and so not theorems.

## 5. Not modelled

* Cryptography: hashes are assumed collision-free, signatures are predicates.
* The contents of receipts beyond what a property reads; warrant lineage, session counts, summaries and
  scopes. Reading `open_session` shows one thing a model would have to decide: `latest_scope_id` orders by a
  timestamp of whole seconds, so among sessions opened within one second any may become the next one's
  `prior_scope_id`, where `scope.py:13` says it is the immediately prior session.
* Two processes on one receipt database, which one in-memory frontier cannot support.
* Power failure under `synchronous=NORMAL` (`store.py:921`), as opposed to the death of the process, and
  reads without the lock that see another thread's uncommitted rows (`store.py:1494`). Both are hazards
  with a note.
* A COMMIT that fails is modelled by its result: SQLite rolls the transaction back, so in a block it is
  `ExitRollback` and outside one it changes nothing.
* In the release tools: archives rewritten while a run is reading them, the full audit and the scripts
  that the checks run.
* The succession of governor keys (`successor.py`). `is_admissible` judges a retired key by the lineage and the
  `record_is_historical` flag that its caller passes; the gate's walk passes neither, so that only the installed
  key is authorised, and `tools/grbsa/proof_model_b.py`, which loads a lineage, is not modelled. Nothing is
  shown about what an older key may still sign for a caller with a missing or stale lineage.
* The walk's last comparison, of the head with the live frame: a ledger that passes `AmPasses` may describe another
  law than the one that is running.

Where the code and its words part. Eight such places are runs. These others are in the models, as the code
has them, and limit what the passing properties say:

* `amendment.py:4, 7, 124` call the ledger append-only. `append()` loses the records that another process
  appended since this one loaded, and a death in `write_text` loses them all. `AmPassedThroughout` is about the
  ledgers that are left.
* `store.py:1480` calls `committed_height` monotonic. A prune lowers it, and a continuation that had expired
  without being marked is then re-entered. `CtSettledNotReentered` is about marked ones.
* `csh.py:52` says that `mosaic_root` is the hash of the key. `verify()` (71-74) and `achieve_finality()`
  (389-410) do not check it, so one key can stand for a whole quorum. `CshAgreement` is about MCIRs whose
  attestations are what they say (`CshBound`), which is for whoever relies on one to check.
* `broker.py:200-204` says that the preflight is zero-mutation and answers without a receipt. `execute()` has written a
  `protocol_error` receipt behind three of the four exceptions (`kernel.py:711-733`, 1489-1526), and
  behind the fourth when a gate raised it (1534-1535). And 205-208
  answer any other exception with the tip, another call's receipt if this call left none. `TrAnswerCovers`
  exempts that answer from having a receipt of its own.
* `stream_hash()` (`store.py:1555-1562`) takes no lock: while another thread's seam is open it may return a row that
  is then rolled back. `tip` counts the committed receipts before that row.
* `certify_release.py:4, 17` promise a clean room and a HOLD for a missing tool or dirty extract.
  `extract_archive` (110-116) extracts over what the scratch directory holds, so a tool of an earlier archive runs
  for one that lacks it. `RlPassEarned` says that the tree held all of this archive, not that it held no more.
* `run_detached.py:93` says that the old status cannot be read for a fresh launch. A failure to remove it is
  passed over (97-98), and `poll` then reads it. `RdPassIsOwn` names the condition (`rdFresh`).
* `run_gates_batch.py:226` prints that `genesis/` is restored. A private key placed there before chartering is
  overwritten by the public fixture key (223) and kept (231-233). `DpQuorumIsOwn` holds all the same.

The definitions stand for about 14% of the lines of the implementation. Most of the rest holds no
behaviour that a state machine could say something about: some 15000 lines are conformance gates and
vector runners, that is, test scripts over the code modelled here; `invariants.py`, `cgp/esa/registry.py`,
`readme_gen`, `adr.py` and their like are tables of text; projections, audit and the command line format
what they read. The state of the kernel, of its stores and of the files it shares with other
processes is what the modules cover.

## 6. Plan

Done: the store, effect trails, `execute()`, continuations, quorum, namespaces, amendments, intents,
provenance, transport, the scale lane, the release tools, the genesis directory.

1. Power loss and dirty reads in `ReceiptStore`.
2. The capability dispatch of `cgp/` in place of `Kernel`'s predicate `capable`, and the
   tier ledger of `tools/smh`.
3. A proof of what `ReceiptStore` still promises when code in a block archives something
   (`SpecArchiveInBlock`), where the frontier and the rows part.
