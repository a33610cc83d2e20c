# Clairveil: TLA+ verification project

TLA+ models of the parts of Clairveil in which an error takes several steps, or
several actors, to show: the shielded ledger of the `x/privacy` module with its
audit keys, Merkle tree, genesis and paged scan; the client-side control plane
that reserves notes, proves, broadcasts and reconciles transactions; and two
pure parts everything rests on, the generated message codec and the
constant-time arithmetic. TLC checks every model on small instances. TLAPS
proves the safety properties for all values of the constants: of the keys, of both
lanes of the ledger, of the tree, genesis and the wallet scan, and of the whole
client-side control plane. Liveness, the codec and the arithmetic stay with TLC.

Paths below are relative to `src/`. `PROJECT.json` maps every definition to the
lines that it models and lists runs, mutants, hazards, findings and theorems.

## 1. The system

Clairveil is a Cosmos SDK chain with a shielded asset module, and a Go SDK
around it.

| part | state | operations | where |
|---|---|---|---|
| audit key epochs, halt | key records by epoch, pending activation, active pointer, cancellations, halt flag | schedule, cancel, halt, begin block | `x/privacy/keeper/audit_keys.go` |
| asset messages, audit lane | bank balances, reserve counters, leaves, nullifiers, scan records | deposit, delegated deposit, withdraw, transfer, batch transfer | `keeper/audit_msg_server.go`, `audit_public.go`, `audit_apply.go`, `reserve.go` |
| asset messages, lane without audit runtime | the same, and the root snapshots | the same messages without audit envelopes | `keeper/msg_server*.go`, `deposit.go`, `event_index.go` |
| circuits | none | the relation each proof establishes | `x/privacy/circuit/` |
| bank facade | none | denies other debits of the module account | `internal/auditbank/` |
| commitment tree | leaf count, leaves, cached nodes, root snapshots | append, rebuild, path queries at any known root | `keeper/tree.go`, `path_snapshot.go` |
| genesis | everything above | export, staged import | `x/privacy/genesis.go`, `keeper/*genesis*.go`, `app/audit_init.go` |
| scan index, queries | global sequence, summaries, outputs | store, page | `keeper/privacy_scan.go` |
| wallet scan | notes, cursor | sync over pages, resume, reset | `client/sdk/scan/`, `client/sdk/provider/typed_scan.go` |
| message codec | none | marshal, size, unmarshal | `types/*.pb.go`, `types/v2/*.pb.go` |
| secret arithmetic | none | field, scalar and curve operations | `crypto/internal/ctbn254/` |
| reservation store, service | reservations, operations, active-key index | reserve, lease, heartbeat, transition, mark, reconcile | `client/sdk/reservation/` |
| durable and SQL stores | file or rows | as the reservation store, persistent | `client/sdk/reservation/durable_file_store.go`, `sql_store.go` |
| payroll queues and daemons | what one job has read | prove, broadcast, roll back, reconcile, sweep | `client/sdk/payroll/proof_queue.go`, `batch_broadcaster.go`, `live_daemon.go` |
| batch operations and workers | one operation, its inputs, signed bytes, broadcast history | lease, claim, save proof, stage, record, re-sign, reconcile | `client/sdk/reservation/batch_*.go`, `client/sdk/payroll/batch_*.go` |
| prover service | semaphore, queue count, metrics | admit, queue, cancel, prove, release | `client/sdk/proverservice/`, `provertransport/` |
| prover pool | endpoint slots, round-robin index | select, try, wait, fail over | `client/sdk/payroll/prover_pool.go` |
| audit collector, message SDKs, CLI, zk | mostly none | collecting, building, proving | the rest |

How they interact. A block first activates a key whose height is reached, then
executes messages one at a time, each atomically; a message is checked against
the active key, the halt flag, the known roots and the nullifiers, moves coins
once, appends leaves and writes a scan record under the next global sequence.
Wallets page through those records, from replicas that may lag, and prove against
a root they read earlier. On the client side many workers share one store: they
reserve notes, hold leases while they prove (through the pool and the admission
gate of a prover) and broadcast, and reconcile submitted reservations with what
the chain answers, all of them liable to stop, to be late or to act on old
copies.

What is hard: rotation and halts between proving and delivery; replays of
messages without nullifiers; coins that reach the module account from elsewhere;
missing tree nodes; partly filled subtrees; importing an export stage by stage;
pages cut at a limit while blocks are committed; lease expiry against clocks read
too early; evidence and copies that are old when they are written; a crash
between staging, sending and recording a transaction, or between a rename and
its sync; re-signing while an earlier attempt may still be included;
cancellation at the moment a slot is granted; length and carry boundaries. The
hazards in `PROJECT.json` give the line of each and the properties that cover it.

What correctness means for each part:

- keys: the begin blocker never fails, a message is audited under the key due at
  its height, no key serves twice, nothing stays pending for ever;
- ledger: no value is created, the reserve covers it, every effect happens once,
  the scan is the ledger, an owner can always withdraw;
- tree: all ways to compute a root or a path agree;
- genesis: an export is accepted and restores the state, and whatever file is
  accepted leaves stores that agree;
- wallet: after a sync it has exactly its notes up to its cursor, and no honest
  page is refused;
- codec: what is written is read back, and a cut message is never read as another;
- arithmetic: the word-level code computes the field, the scalars and the group;
- reservations: a note is in one active reservation, leases exclude others,
  operations move as a whole, and outcomes are recorded only on chain evidence;
- durable stores: a call takes effect once and whole, whatever stops where;
- payroll: what was handed to the node stays reserved, and work that was begun
  ends;
- batch operations: operation, inputs and lease agree, and only what the chain
  did resolves an operation or frees a note;
- proving: no lost slot, no starvation, no payload outside its boundary.

## 2. Modules

| module | models | actions |
|---|---|---|
| `AuditKeys` | key epochs and halt, the key part of a genesis file | `ScheduleAuditKeyEpoch`, `CancelPendingAuditEpoch`, `SetPrivacyHalt`, `BeginAuditBlock` |
| `PrivacyLedger` (extends `AuditKeys`) | the audit lane's messages, bank, reserve, circuits as relations | one action per message kind, the key actions, coins credited to the module by others |
| `LegacyLane` (extends `PrivacyLedger`) | the same messages without the audit runtime, and the root snapshot each of them confirms | one action per message kind, block, bank send |
| `MerkleTree` | append, node cache, rebuild, snapshots, paths | `AppendCommitment` (which rebuilds when nodes are missing), `NextBlock`, `LoseNodes` |
| `Genesis` (extends `AuditKeys`) | export and import in stages, both lanes | messages, blocks, import or refusal of any genesis file |
| `WalletScan` | the keeper's page query, the two page validators of the client, `SyncNotes` | commit event, commit block, start a sync, one page, abandon |
| `ProtoWire` with `WireFields`, `WireTx`, `WireGenesis`, `WireQuery`, `WireAudit` | the generated codec: the algorithms once, and for every message the tables of its marshal, size and unmarshal functions | send, send from a newer schema, lose the tail, receive |
| `MontgomeryField`, `ScalarField`, `EdwardsCurve`, `SecretArithmetic` | word-level field, scalar and curve code; a register worked on by it | one action per exported operation |
| `ReservationStore` | `MemoryStore` and `Service` | one action per mutating method |
| `Reconcile` (extends `ReservationStore`) | `Service.Reconcile`, the evidence scanner, the chain | submit, include, foreign spend, observe, load reservation, load operation, commit, return, crash; in `LifeSpec` also `WorkerCall`, what planner and proof workers ask of the store before a transaction is sent |
| `PayrollWorkers` (extends `ReservationStore`) | proof worker, broadcaster, live daemon, stale-binding sweep | one step per store, node or prover call; heartbeat, crash, lost answer |
| `PayrollPipeline` (extends `PayrollWorkers`, instantiates `Reconcile`) | the workers, the reconciler and the chain on one store | those of both |
| `AtomicStore` | what the `Store` interface promises | call, effect, answer |
| `DurableStore` | the file and SQL backends, two processes | refresh, compare and write, rename, sync, lock row, load, commit; errors, crashes of a process or of the machine |
| `BatchOperation` | the batch methods of the store, the three batch workers, the signer's account and the chain | one action per store or node call of a worker, heartbeat, early return, crash, lease expiry, inclusion, rejection, loss, foreign spend |
| `ProverAdmission` | the admission gate and the proof handlers | the steps of one request between its lock operations |
| `ProverPool` | endpoint selection, failover, slots, timeouts | request, try, wait, acquired, attempted, cancel, fail |

`MC*.tla` instantiate them for TLC: each gives the next-state relation with the
bounds as guards. Where independent components share a run, the variable
`profile`, chosen in the initial state, says which one a behaviour explores; the
others stand still. `*Proofs.tla` hold the theorems.

Correspondence and abstraction:

- A refused message or a call that returns an error without a write is no step.
  A keeper message runs on a cached context that is committed whole, so it is
  one step; a store method holds one mutex, so it is one step. Workers,
  reconcilers, the durable stores and the gate are split where the code gives up
  its lock or reads again.
- Hashes are injective. In the ledger a note stands for its commitment and its
  nullifier, and a root for the number of leaves under it; `MerkleTree` checks
  that this is right. In `MerkleTree` a hash is the pair of its children.
- Proof verification accepts exactly what the circuit's relation admits.
- Callers of the reservation service read the clock up to `MaxDelay` before the
  store acts. `PayrollWorkers` keeps time relative: the clock stands still and
  `ElapseTime` brings every lease closer to its end. A call of a worker may take
  effect and still be answered with an error, as `DurableStore` shows it can.
- `DurableStore` distinguishes what every process sees (after a rename) from what
  survives the machine (after the directory is written back). `stable` is the
  content `AtomicStore` talks about. `Apply`, the effect of a call, is a
  parameter: the backends run `MemoryStore` on what they loaded.
- In `BatchOperation` time is whether the lease is live: `Expire` may end it at
  any moment, and a call whose clock was read before may still find it live as
  long as nobody has taken it over. All candidate transactions carry the one
  stored proof and spend the same notes; they differ in the account sequence, of
  which `fresh` holds those still executable. `CreateBatchOperation` is the
  initial state: an operation is created once, from a validated graph. Worker
  and token are the same thing, since every call draws a token of its own and a
  worker runs one call at a time. A step the code leaves with an error is
  `Abandon` (the deferred release runs) or `Crash` (it does not, or there was
  nothing to release).
- In `ProtoWire` messages are functions from field names to values and bytes are
  numbers below 256. The generated functions differ only in their fields, so
  the module has the loops once and `Wire*` the three tables of every message,
  each read off its own function: what `MarshalToSizedBuffer` writes, what `Size`
  counts and what `Unmarshal` expects are separate tables, and a disagreement
  between them would show.
- In `WalletScan` encoded sizes are small numbers, an event is its global
  sequence, and in the run the wallet owns all outputs of an event or none (the
  proofs are about any subset of them).
- The arithmetic modules have the word size, the primes and the curve as
  parameters. A run uses four words of two bits and the prime 89, for all operands:
  the modulus reaches into the top word and leaves its highest bit free, so that
  products carry through all words into the fifth word of a round's accumulator, and
  the last subtraction borrows or not. Twice the modulus fits four words, here as
  for the 254-bit primes of the code, so the carry out of the accumulator's last word
  is zero in both. The algorithms are those of the code, the 256-bit literals are not.
- The chain in `Reconcile`, `PayrollPipeline` and `BatchOperation`, the bank, the
  file system and the scheduler are external to the code and modelled from how
  it uses them.

## 3. Runs

| run | shows | bounds |
|---|---|---|
| `ledger` | `EffectOnce`, `ValueConserved`, `ReserveBacked`, `ScanIsTheLedger`, `BeginBlockNeverFails`, `KeysTakenBack`, `AuditLaneUnderDueKey`, `AuditLaneWithdraws`, `PendingResolves` | three profiles. keys: 3 keys and epochs, blocks to height 4, 2 accounts, 2 leaves, 3 messages (schedule, cancel, schedule again, two activations, messages before, at and after a rotation). value: one key, 2 denoms, amounts to 2, 4 leaves, 4 messages of 2 inputs and outputs, 1 surplus coin (a split, a merge and a withdrawal of the result, full tree, last sequence). legacy: the lane without audit runtime, 3 blocks |
| `legacy_withdraw` | violation of `LegacyWithdrawPossible` | the legacy profile |
| `reservations` | `NoNoteReservedTwice`, `ReconciledByEvidence`, `AdvanceNeedsLease`, `NoLeaseTakeover`, `OperationMovesWhole` | 2 reservations of one operation, 2 notes. calls: 2 digests, 2 tokens, time to 3, delay 1 (expiry, takeover and a late caller). chain: 2 reconcilers, 1 transaction, crashes |
| `reservations_terminal` | violation of `TerminalOperationKept` | the chain profile |
| `payroll_workers` | `HandedStaysHeld`, `ArtifactBeforeStatus`, `OwnLeaseOwnMessage` | one operation on 1 or 2 notes and six teams of two to four processes: worker and broadcaster, worker and rollback, two provers, with a sweep, two workers with rollback and broadcaster, one daemon doing all; 1 fault each |
| `payroll_pipeline` | `ProvingEnds`, `SubmittedResolves` | a daemon that does everything on one note; a worker beside a daemon on two notes; 1 fault |
| `batch_operation` | `OperationWhole`, `ResolvedByTheChain`, `EvidenceIsFinal` | 2 workers, 2 notes, 1 output, 2 transactions: a first attempt, a re-signed one, and a second worker at any step of the first |
| `batch_operation_resign` | violation of `FreedMeansResolved` | 1 note, otherwise as `batch_operation` |
| `services` | `ImplementsAtomicStore`, `EveryCallAnswered`; `SemaphoreExact`, `EveryRequestAnswered`; `PayloadStaysInBoundary`, `EveryProofRequestEnds` | store: 2 processes, 3 calls of which two compete and one brings the old content back, both backends. gate: 3 requests, 1 slot, queue of 1. pool: 2 callers, 3 endpoints, 1 slot each or no limit, configurations valid and refused |
| `node` | `CachedRootIsTheRoot`, `RootsArePrefixes`, `PathsVerify`; `StoreConsistent`, `ExportAccepted`, `RestartKeepsState`; `RoundTrip`, `CutNeverMisread`; `WalletExact`, `HonestPagesAccepted`; `ElementsExact`, `PointsExact` | tree: depth 3, all 8 leaves and a ninth refused, one loss. genesis: no audit runtime, 4 leaves, 2 deposits, 2 restarts; the first may use any of the files `MCFiles` makes of an export (trees shortened, reordered or mixed with another tree's roots and snapshots, records moved, dropped or numbered twice, a counter set back, other nullifiers and reserves). wire: every message type empty, with one field set and with all, fields of 128 bytes and numbers of one to ten bytes included, cut anywhere up to 40 bytes. scan: 3 events in 3 blocks, lag 1, pages of 2 outputs, 3 events, 5 bytes. arith: field of 89 elements, subgroup of order 7, all operands |
| `genesis_audit` | violation of `ExportAccepted` | the genesis profile with the audit lane |
| `scan_budget` | violation of `WithdrawAdvancesCursor` | the scan profile with a byte limit of 4, which one record still fits |

Every property of a passing run is broken by a mutant of a mapped definition (a
dropped guard, a late check, a forgotten token); the mutants stand before the
definition they change. The type invariants of the modules with proofs are part of
the inductive invariants proved there.

Bounds are named constants. They are small because the relations are symmetric
in notes, keys and workers, and the violations the properties exclude need two
of each. The limits of the code (2^64, 2^128, 2^32 leaves, byte and page limits)
are constants so that a run reaches them. Deadlock is checked in `ledger` and the
batch runs; the other systems come to rest when their work is done.

### Refinement

`ImplementsAtomicStore` says that `DurableStore` with `content <- stable` is an
`AtomicStore`: for both backends a call takes effect at most once and whole, on
the content the others left, "ok" means that the change survives a crash of the
machine, and "conflict" that it never happens. After an error the outcome is
open: the rename may have happened. That is why `PayrollWorkers` lets a store
call take effect and fail.

### Fairness

- `ledger`: weak fairness of the begin block, that is, consensus makes blocks.
  Nothing is assumed of governance.
- `services`, gate: weak fairness of each request's own steps: goroutines are
  scheduled and gnark's prover returns. The model lets a newcomer overtake a
  waiter, which Go's channels, serving blocked senders first, do not; so it
  allows more than the code does.
- `services`, pool: weak fairness of a caller's steps, and strong fairness of
  getting a slot one waits for, which channels give because they serve blocked
  senders in order.
- `services`, store: strong fairness of a process's steps, since `flock` and the
  lock row are granted to a waiter sooner or later. Nothing is assumed about
  crashes; a call whose process died counts as answered "lost".
- `payroll_pipeline`: weak fairness of the steps of a job, of reconciling and of
  inclusion; strong fairness of the daemon starting a rollback, of a poll that is
  answered, of taking back an expired lease and of time passing. The live daemon
  lists all operations in every tick, so it comes back to each again and again.
  Faults are bounded, since a crash in every tick refutes any progress.

## 4. Findings

- **An operation's terminal status can be overwritten.** `Service.Reconcile`
  reads the operation, changes a copy and writes it whole; the compare-and-set
  covers only the reservation (`client/sdk/reservation/reconcile.go:190-196`).
  With two inputs of one operation, one reconciler writes `Failed` and the other,
  with an older copy, puts `Unknown` in its place. The reservations themselves
  are right (`ReconciledByEvidence` holds). Run `reservations_terminal`.
- **A withdrawal without the audit runtime is refused in a later block.** Each
  message of that lane ends by registering the snapshot of the current root under
  the height of the block. A withdrawal appends nothing, the root keeps the
  height of the block that appended last, and `setMerkleRootSnapshot` refuses a
  second registration with another height (`keeper/path_snapshot.go:189`). The
  comment at line 250 calls it idempotent. Run `legacy_withdraw`. The audit lane
  is not affected (`AuditLaneWithdraws` holds).
- **An audit-lane export cannot be imported.** `InitGenesisMerkleRootSnapshotsV1`
  refuses whenever the audit runtime is configured (`keeper/path_snapshot.go:304`)
  though the other stages admit the import, and `x/privacy/genesis.go:38` always
  calls it. Run `genesis_audit`. In the lane without the audit runtime the
  round trip holds.
- **Old evidence frees the notes of a re-signed batch.** `ReconcileBatchOperation`
  takes no lease token and no expected status
  (`client/sdk/reservation/batch_memory_store.go:478`). A reconciler reads the
  operation while its first transaction has failed on chain; another worker
  prepares the re-sign, stages, sends and records a second transaction; then the
  reconciler applies what it read. The first transaction is in the history, so
  it is accepted: the operation is `Failed`, the inputs are `ReplanRequired` and
  the staged bytes are the old ones, while the second transaction is in the
  mempool. Run `batch_operation_resign`. What was confirmed on the chain is never
  lost (`EvidenceIsFinal`, `ResolvedByTheChain` hold): a later reconcile finds the
  conflict.
- **A scan page with only withdrawals can be thrown away.** When the first output
  of a page does not fit in what the byte limit leaves, the query returns an
  error even if the page already holds summaries of withdrawals
  (`keeper/privacy_scan.go:914`), so the cursor does not move and the same request
  fails again. A single record that fits the limit alone is enough. The design
  document says that such a withdrawal "advances the cursor"
  (`docs/clairveil-batch-joinsplit-16x32.md:617`). Run `scan_budget`.

Three behaviours that are no errors by themselves and that no property excludes: a
late `SaveProofResult` of a worker that lost its lease overwrites the stored
artifact of the next one; and an earlier broadcast that was never recorded may
still be pending while a recorded one has failed. And at one boundary the export of
the keys is not taken back: a key pending for the very height the chain would restart
at is refused (`keeper/audit_genesis.go`, "invalid exported pending audit
activation"), though the begin blocker of that height would activate it;
`KeysTakenBack` states that this is the only case. A cancel, or one more block before
the export, avoids it.

## 5. Proofs

The theorems hold for every value of the constants that satisfies the named
`ASSUME`s. Those say that bounds are natural numbers, that names that must differ
do, and besides: a call on a content gives a content (`ContentsAssumption`); the
sets of requests and of callers of the prover are finite (`AdmissionAssumption`,
`PoolAssumption`); a broadcaster process is not also a live daemon
(`WorkersAssumption`: they are separate programs); the page limits a client asks for
are positive (`ScanAssumption`: `normalizePrivacyScanLimits` replaces a zero by the
default); the zero padding of the tree is a commitment (`TreeAssumption`). Each
proof has one lemma per action. The inductive invariants, and what each needs beyond
the properties:

- `PrivacyLedgerProofs`, keys. `KeyInv`: a pending pointer has a record, is not
  cancelled and lies in the future; every epoch up to the largest is active, past,
  pending or cancelled. Without the last, `KeyUsedOnce` is not inductive, since a
  cancelled epoch would be forgotten. From it: `BeginBlockSafe`, `ActiveKeySafe`,
  `KeyReuseSafe`, and the action property `ActiveChangeSafe`. `KeysTakenBackSafe`
  adds what the import checks of every record (`HistoryValid`): the first is the
  genesis key, every other was registered before its activation.
- `PrivacyLedgerProofs`, ledger. `LedgerInv` is `KeyInv` with: the spent notes are
  those of the scan's inputs, scan entries lie in the past, the counters are covered
  by the module's balance. It gives `ReserveSafe`, `EffectOnceSafe`, `AuditKeySafe`.
- `PrivacyLedgerProofs`, value. `ValueInv` adds to `LedgerInv` where every scan
  record's outputs stand in the tree, that its inputs are older leaves, that only
  leaves are spent and only registered assets enter. That makes the outputs of the
  scan, read in order, exactly the leaves (`ScanIsTheLedgerSafe`), and with it the
  value of the unspent notes equals the counter (`ValueConservedSafe`): a new leaf
  is outside the old sum, and a spent one was inside it once. `WithdrawSafe`: the
  owner of any unspent note can withdraw it whenever the module is not halted and
  there is a sequence left. The lemmas about sums over sets and over sequences are
  by induction; it is carried out by taking a least counterexample of a well-founded
  order (`WFMin`), which needs no theorem with an operator for a parameter.
- `PrivacyLedgerProofs`, the lane without audit runtime (`LegacySpec`). `LegacyInv`
  keeps the parts of the two invariants that do not speak of keys, and the order of
  the root snapshots. The handlers of this lane never read the reserve; that the
  bank pays only what an account has is enough for `LegacyReserveSafe`, and
  `LegacyValueSafe`, `LegacyEffectOnceSafe` and `LegacyScanSafe` hold as in the
  audit lane. `LegacySnapshotsSafe`: each prefix of the tree has one snapshot, in
  the order of the blocks. `LegacyWithdrawSafe` makes the finding of
  `legacy_withdraw` exact: a withdrawal of an unspent note passes all checks just
  when the current root was recorded in its own block.
- `MerkleTreeProofs`. The reference is the full binary tree over the leaves padded
  with zeros. The layers of a rebuild, the frontier of the export and the climb
  shared by an append, a rebuilt path and the circuits are each shown to compute its
  nodes, at every depth. `TreeInv`: each stored node is the node of the reference
  tree, the index is the inverse of the leaves, and the snapshots are the roots of
  the non-empty prefixes. Nodes may be missing, but a wrong one is never stored;
  this is what survives the loss of nodes. Hence `CachedRootSafe`,
  `RootsArePrefixesSafe` and `PathsVerifySafe`, which together justify that a root
  is the number of leaves under it in the ledger.
- `GenesisProofs`. `GenesisInv`: leaves differ, the roots are those of the prefixes,
  each with a height, every record's outputs stand at the leaves they name, and no
  two records share a sequence. `StoreConsistentSafe` says that an accepted file,
  any member of `GenesisFile`, leaves such a store: as many roots as prefixes, each
  of a prefix, are all of them (a counting argument), and so for the snapshots; `RestartSafe` that an export that is imported gives
  the store back; `ExportAcceptedSafe` that without the audit runtime every stage
  accepts what was exported (with it, `genesis_audit` shows the opposite).
- `WalletScanProofs`. `ScanInv`: events are in order of height, a cursor stands on
  an output or on an event without outputs, the notes stored are the owned outputs
  up to the cursor, and what a running sync has found completes them up to its own.
  A page is followed through both loops of the query: at every point it lists all
  outputs between its cursors that the filter keeps, in order, and its summaries
  prove each place where the cursor passes something not listed; wherever a limit
  cuts it, that remains so. Hence `PagesAcceptedSafe` (no honest page is rejected by
  the client's checks) and `WalletExactSafe`. The proof covers pages whose events
  arrive from replicas behind the tip, and syncs that stop at any page.
- `ReservationProofs`, first part, about `ServiceSpec`: the calls of `Service` in
  any order. The index is exact through one lemma about `StoreReservations`, the
  function every method writes with; a note is in one active reservation because an
  exact index is a function. Leases, links and the action properties `AdvanceSafe`
  and `TakeoverSafe` go by cases on the methods. `RawUpdateKeepsIndex` covers the
  whole-record update apart.
- `ReservationProofs`, second part, about `LifeSpec`: workers, chain and reconcilers
  together. `EvidenceInv` says of every copy a reconciler holds what is still true
  when it is written: a transaction that was final stays so, a nullifier stays
  recorded, the transaction is the one the reservation was sent with, and a
  reservation sent once never takes another transaction. `ConfirmedSafe` and
  `FailedSafe` together are `ReconciledByEvidence`; `ResolvedFinal` says that a
  resolved reservation keeps its status, and `MovesWholeSafe` that the step that
  records an operation's proof or broadcast moves all its active reservations.
  `OperationMovesWhole` is about the SDK's calls: a caller of the raw `Transition`
  could break it, and the SDK uses that only to release.
- `PayrollWorkersProofs`, first part. `WorkInv` holds for every job: what it
  remembers of its notes is still so after any calls of others, because no call
  takes a note back from `ProofReady`. `HandedSafe` (what went to the node stays
  held) and `ArtifactSafe` (no note is ready before its result is saved) follow.
- `PayrollWorkersProofs`, second part. `LeaseInv`: a token is held by one proof
  worker, the one that saved the result naming it, and a note ready under a token
  named by a saved result belongs to an operation that expects that result's
  message. Hence `OwnMessageSafe`. It assumes `DrawsFresh`: a drawn token is none in
  use. The code draws 128 random bits and never compares them, so this is an
  assumption about chance; with unbounded token sets the model satisfies it.
- `BatchOperationProofs`. `BatchInv` adds to the invariants of the run: once
  staged, the proof is kept and all inputs are held, and what a reconciler has read
  remains true of the chain. `BatchEvidenceFinal` is the action property that a
  confirmed spend and a stored proof are final.
- `ServicesProofs`, stores. `DurableInv`: the renames not written back yet form a
  chain of effects, each computed from the one before; a call's effect is in at most
  one place; who replaces the content holds the lock and computed from what is
  there. `DurableRefinement` is the refinement: every step of either backend,
  crashes of a process and of the machine included, is a step of `AtomicStore` or
  leaves it alone (`DurableSpec => ImplementsAtomicStore`).
- `ServicesProofs`, prover. `AdmissionInv` counts: the semaphore equals the number
  of requests that hold a token, the counters the number at the matching steps.
  `PoolInv`: the endpoints a request has reached, waits for or has left are inside
  its boundary and differ; `BoundarySafe` follows. `SlotsSafe`: where there is a
  limit, the slots taken at an endpoint equal the proofs running there, so no
  failure, timeout or cancellation loses one; without a limit none is ever counted.

`ActiveIsLatestDue`, `KeyUsedOnce`, `ActiveIndexExact`, `OperationLinked`,
`LeaseShape`, `ProvingWithinCapacity`, `QueueBounded`, `MetricsAddUp`, `SlotsExact`,
`SnapshotsInOrder` and `LegacyWithdrawInItsBlock` are proved and therefore not among
the properties of a run.

Checked by TLC only:

- liveness (`PendingResolves`, `EveryCallAnswered`, `EveryRequestAnswered`,
  `EveryProofRequestEnds`, `ProvingEnds`, `SubmittedResolves`): fairness and ENABLED
  are outside the prover;
- the codec and the arithmetic: recursion over bytes and words, in operators the
  prover does not take.

`AuditLaneUnderDueKey` and `AuditLaneWithdraws` of the run `ledger` are
`AuditedUnderDueKey` and `WithdrawAlwaysPossible` restricted to the profiles of the
audit lane; the theorems prove them for its specification. What recursive functions
compute is proved where it is needed by taking a least counterexample; no theorem of
the library with an operator parameter is used.

## 6. Not modelled

- Cryptography and proving: hashes, encryption, artifact loading, gnark, and the
  timing of the constant-time code. The 256-bit constants of the field code.
- Generated code around the codec: getters, descriptors, registration, gateway.
- Of a genesis file: the circuit identity, the bank balances, the origin of a
  cancellation, the asset registry, and the form of its byte strings. Nullifiers are
  imported as they are, and no property says more of them.
- Gas, byte limits of messages, logging; decoding, ante handlers, the upgrade.
- The fallbacks of `SyncNotes` for nodes without the typed query, and the older
  event query: what they return depends on the node's transaction index.
- The audit collector, the note allocator, the planner and the message-building
  SDKs: sequential, over one snapshot, with no state another process changes.
- Command line tools, reports and benchmarks.

## 7. Plan

1. `NoteAllocator` and chunking: operators against a reference definition.
2. The audit collector's resume and its cache.
