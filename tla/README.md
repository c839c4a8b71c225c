# ForthDB: a TLA+ model of the kernels, the stores, the databases and the controllers

ForthDB is a database of facts. A *slot* holds a stack of definitions: `define`
pushes a fact, `forget` pops one and reveals the definition it had shadowed. A
*world* is an immutable version of all slots; a *commit frame* records the
operations that lead from one world to the next, and worlds are rebuilt by
replaying frames. Callers commit either one strict transaction at a time or as
*intents* that a committer thread groups into *epochs*; an intent is a queued one
(preconditions and operations) or a semantic one (a transaction tree), and epochs
are evaluated on a stack machine. This directory models the Rust implementation
(`rust/crates/forthdb-core`, `rust/crates/forthdb-world`).

Source paths below are relative to the repository root, file names without a
directory are those of the two crates. `PROJECT.json` holds the
definition-to-line map, the runs, the hazards and the theorems in a
machine-readable form.

## 1. Inventory

| Component | State it keeps | Operations | Interacts with |
|---|---|---|---|
| Semantic kernel (`shared_types_v5.rs`, `shared_view_v2.rs`, `shared_db_v2.rs`) | append-only log of records, one head per slot, per-slot history, seven hash indexes, two active-set signatures, the next entity | `entity`, `define`, `forget`, `definitions`, `history`, `query`, `validate`, `validate_full` | embedded in every `World` |
| Legacy flat kernel (`lib.rs` of forthdb-core) | the same in plain vectors and maps | the same | the differential tests' reference |
| Reaped kernel (`shared_reaped.rs`) | bounded queue, overflow queue, counters, a thread | drop, `drain_reaper` | kernel roots |
| Worlds, transactions, Database (`forthdb-world/src/lib.rs`) | the published world, the commit store, the commit lock, validators | `begin`, `entity`/`define`/`forget`, `commit`, `register_validator`, `reconstruct`, `query` | calls a `CommitStore`; readers take the published `Arc` |
| Queued intents and planners (`queued.rs`) | dictionaries and a machine workspace | `derive_epoch`, `derive_epoch_world`, `commit_queued_epoch`, `commit_mixed_epoch`, journal codecs | run under the Database's commit lock |
| Stack VM, semantic ISA, transaction AST (`stack_vm.rs`, `semantic_isa.rs`, `transaction_ast.rs`) | arenas with frontiers, operand stack, index deltas, published roots | execute with rollback, publish, query, lower, encode | the epoch materializer |
| File commit store (`file_store.rs`) | the file, cached frames | `open` (header, recovery), `append`, rollback | the file system |
| Memory-mapped store and snapshots (`mmap_store.rs`, `mmap_vm_snapshot.rs`, `mmap_format.rs`) | a mapping and the spans of its records; an image with sorted indexes | append, remap, refresh; create, validate, query | the strict store; the admission controller |
| File epoch store (`file_epoch_store.rs`) | the file, cached verified frames, `Healthy`/`Repairing`/`Poisoned` state | `open`, `append_epoch` (per-frame or per-epoch sync), `repair`, `poison_external` | the file system; the durable controller |
| Durable queued controller (`file_epoch_controller.rs`) | lifecycle state (atomic), sender (mutex), bounded channel, reservations, tickets, reader head, writer lease | `submit`, `flush`, `shutdown`; the committer: receive, batch, derive, append, publish, route, drain | store below it, callers' threads above it |
| Speculative io_uring pipeline (`file_epoch_controller.rs` 1162-1589, `io_uring_epoch_io.rs`) | epoch in flight, successor being derived | overlaps persistence of one epoch with derivation of the next | replaces the blocking committer |
| Admission-epoch controller (`admission_epoch.rs`) | admission window, journal, snapshot | admit, seal, recover, `write_mmap_snapshot` | journal file, image |
| In-memory queued controller (`queued_controller.rs`) | bounded channel, reservations, tickets, adaptive width | `submit`, `submit_semantic`, `flush`, ticket waits, drop | `commit_mixed_epoch` |
| Writer lease (`writer_lock.rs`) | an operating-system file lock | acquire, release on drop | held by stores and controllers |
| Python reference, benchmarks, conformance runner, library demonstration | – | – | not part of the deployed system |

What is hard here, and what the properties are for:

- *Incremental redundancy.* Seven indexes and two signatures are updated by hand
  on every head change; the machine's index deltas and dictionaries are too, and
  a rejected program must take all of it back by moving frontiers.
- *Several routes to one answer.* Two kernels, two planners, a machine brought up
  by its epochs, by frames or from an image, three sources of query candidates.
- *Crashes and partial failures of the files.* Short writes, failing syncs,
  failures of the repair itself, process exit with dirty pages, power loss.
- *Races of the lifecycle.* State checks and stores of the controllers are
  separate atomic operations; callers and committers interleave at each of them.
- *Speculation and staleness.* Epochs derived on a world that is not durable yet;
  transactions and `expect_world` intents prepared against a replaced world.
- *Termination.* `shutdown` joins a thread that may wait on a channel whose other
  end someone else holds; `flush` waits behind batches claimed ahead of it; a
  wake-up of the reaper may be dropped.

The complete list, each entry at its line with the properties that would catch
it, is `hazards` in `PROJECT.json`.

## 2. Modules and how they correspond to the code

```
SlotStacks <--refined by-- Kernel
                             ^-- KernelPair <-- KernelQueries <-- MCKernel
                    (instances LegacyKernel)    (instances Query)
KernelPair, Reaper <-- KernelProofs
FrameFile <-- FileEpochStore <-- MCFileEpochStore
    |               ^----------- FileEpochStoreProofs (with FrameFileProofs)
    |-------- FileCommitStore <-- MmapStore <-- MCFileCommitStore
    |                                 ^-- MmapStoreProofs (with FrameFileProofs)
    +-------- AdmissionJournal <-- MCAdmissionJournal
                     ^-- AdmissionJournalProofs
Worlds <-- EpochPlanner <-- EpochMaterializer (with StackVm) <-- MixedEpochs
                                  ^-- Database <-- MCDatabase
WorldHistory <--refined by-- Database
QueuedController, Database <-- QueuedControllerProofs
MixedEpochs, Query <-- MappedSnapshot
EpochMaterializer, SemanticIsa <-- IntentFrames
StackVm <-- TransactionAst
MappedSnapshot, IntentFrames, TransactionAst <-- MixedDatabase <-- MCMixedDatabase
DurableController, SpeculativePipeline: each with its MC module and its Proofs module;
QueuedController, Reaper: each with its MC module
```

**Kernel** (with **SlotStacks**, the abstract specification). `log`, `head`,
`slotHistory` and `storeSig` are the fields of `SharedDefinitionStore`; `bucket`
and `viewSig` those of `SharedCurrentView`. A record's identifier is its
position in the log, 0 is `None`. An index key is a fact restricted to the
columns of the index, so one function over partial facts is all seven indexes;
an empty bucket is a bucket the code has removed. `Define`, `Forget` and
`Entity` are the methods of `ForthDb`, each with everything it calls:
`append_define`/`append_forget`, `replace_head` with its signature update and
`SharedCurrentView::replace`. Chunked vectors and sharded maps are sequences and
functions; a signature is a count and a sum, with the record identifier in the
place of its hash.
`SlotStacks` says what the kernel promises: a stack per slot, pushed and popped.

**LegacyKernel, KernelPair, KernelQueries, Query.** `LegacyKernel` is the flat kernel, which takes
the old head out of its indexes before the append and puts the new one in after
it; here an index has a key only while its bucket is nonempty. `KernelPair` feeds
both kernels every operation, as `tests/structural_parity.rs` does for a few
sequences, and has the full audits; `KernelQueries` adds the properties of
answers. `Query` is the depth-first walk over patterns
that the kernels, the machine's projection and the mapped image share: choice of
the next pattern, candidates by the bound columns, unification, limit, distinct
and provenance. The final sort makes an answer independent of the walk's order,
so an answer is a bag of rows.

**FrameFile** is the file format the stores share: a file is a sequence of
records, each whole or torn; `decode_file`/`inspect_file` accept a linear history
with at most a torn tail (`Sound`), drop the tail (`GoodPrefix`) and call
anything else corruption. The storage below is external: `file` is what
processes see, `disk` what a power loss leaves; writeback may move `disk`
towards `file` at any time, in file order, tearing the last record.

**FileEpochStore**: `PrepareEpoch`, `WriteAt` (one short write at a time),
`SyncFrame`/`SyncEpoch`, `PrimaryFailure`, the three parts of `repair`
(truncate, sync, verify), `RepairFails` (poison), `PoisonExternal`, and
`FileCommitStore::open` in its three shapes; whoever opens the store chooses the
synchronization `policy`. `acked`, `repaired` and `visible`
are history variables.

**FileCommitStore**: header creation (three writes), recovery, `append` (write,
sync, push) and `rollback_failed_append`, whose set_len and sync may fail
unnoticed. `committed`, `failed` and `lame` (a rollback step failed) are history
variables.

**MmapStore** adds `MmapCommitStore` on the same file: `mapped` is the length of
the mapping in records, `spans` the positions of the records it knows, `cached`
the frames it reports. Its writer is a `FileCommitStore` opened at the first
append, so every writing step is a step of that module; remapping and `refresh`
may fail, and `gaps` remembers that a remap did. A process uses the file through
one of the two stores.

**DurableController**: the `VARIABLES` are the fields of
`DurableQueuedIntentController`, the locals of `run_durable_worker_loop`, the
program counters of the callers, and history variables. Steps are cut at
every point where another thread may see or change something: the lifecycle
state is atomic and separate from the sender mutex, so `submit` reads and sends
in two steps and `shutdown_internal` reads, stores, takes the sender and joins in
four. Where a batch ends is left open, so that the behaviours of
`ImmediateDrain`, `Coalesce` and `Adaptive` are all included. The store is seen
through the results of `append_epoch`: done; failed with the file as before; failed
and poisoned, with the epoch's frame perhaps still in the file.

**SpeculativePipeline**: the loop of the io_uring committer: receive, claim a
batch (setting one barrier aside), derive, submit the linked write and sync,
claim and derive the successor on the world not yet durable, reap the two
completions in either order, publish or repair, and continue with the successor
(derived again when its base failed). The kernel's side is `KernelCompletes`:
every pair of results the two linked entries can report. Submitting, flushing and
shutting down are single steps, their races being those of `DurableController`.
`basis[c]`, the world a verdict came from, is a history variable.

**QueuedController**: reserve, count and send as the steps they are;
`WorkerStep` has claiming under the three policies with the adaptive width, the
commit of the batch as one epoch, and the two routes of the results, queued and
semantic; tickets are waited for, timed out and abandoned; dropping the handle
closes the channel and joins. A deadline may pass between any two steps.
What an epoch accepts is any subset of its batch (`MixedEpochs` says which).

**Worlds, EpochPlanner, Database**: a world is its identifier, the stack of each
slot and the next entity number. The identifier (a hash chain in the code) is the
sequence of everything hashed into it, so distinct histories have distinct
identifiers. `EpochPlanner` has the two planners: `DeriveEpoch`, a chain of one
frame per accepted intent, and `DeriveEpochWorld`, one world for the whole epoch.
`Database` adds the reader head, the store, the commit lock, validators, strict
transactions, epochs, and restarts at any step, also with only the first frames
of an epoch in the store; `DurablePlan` is how the durable committers evaluate an
epoch. `WorldHistory` is the contract a database keeps (WORLD_CONTRACT.md), without slots,
planners, transactions and locks: a history of worlds, each the successor of the one
before it, that only grows; a reader head that moves along it; successes told in the
step that publishes their worlds. The stored frames are the history, the version of the
published world is the head.

**StackVm**: a workspace of arenas with frontiers. An arena keeps what lies beyond
its frontier until it is overwritten, so rejecting a program only moves frontiers,
and what it forgets to move shows. Trial execution, instruction by instruction;
roots and index deltas; compaction of deltas into a base; the ways to query a
root. **EpochMaterializer** is `VmEpochMaterializer`: dictionaries that give slots,
predicates and literals their tokens, the execution of an intent, and how a
machine catches up with a world (its own epochs, frames of others, an image).
**MixedEpochs** is `materialize_mixed`: trial vocabularies, the paths with and
without host validators, the panic on an undefined symbol. Names are integers in
the order of the strings they stand for, because `BTreeMap`s iterate in that order.
**TransactionAst** lowers a tree to a self-contained stream (a first pass for the
names, a second for the code), **SemanticIsa** is the framing of a stream, one
element per field put or taken, and **IntentFrames** both journal forms of an
intent and the way back. **MappedSnapshot** is the projection readers build from
the frames, the image written from it (tables, records, heads, three permuted
indexes with their binary searches, validation) and the machine opened from an
image. **MixedDatabase** is a database whose epochs run on one long-lived machine
next to strict writers that never touch it; `commit_mixed_epoch` runs under the
commit lock and is one step.

**AdmissionJournal**: the `VARIABLES` are the journal and the snapshot image (each
as processes see it and as a power loss leaves it), the channel, the locals of
`run_worker` and the progress of the write the kernel holds. The worker seeks a
command in two places, its filling loop (`worker = "fill"`) and beside an epoch
it is about to materialize (`"overlap"`), and `TakeCommand`, `NoCommand`, `Claim...`
and `SubmitAdmission` serve both. The linked write and sync of io_uring run
concurrently with everything until `Complete` reaps them. Every way `run_worker`
returns is a use of `Returns`: who gets a failed receipt, who a failed outcome,
and whose channel closes. `write_mmap_snapshot` is its flush and then four steps, and
submitters may come between any two of them, as nothing in the code keeps them out.
Three history variables, which no guard reads, note what follows from that: `raced`, a
command was sent since the snapshot's flush (an image carries it on as `quiet`, its
negation), and `misled`, `open` adopted an image whose snapshot was raced. A verdict is
a function (`Accepts`) of the intents accepted before, so order and epoch boundaries
matter to a replay. A panicking intent is in the
journal before it panics, and replay panics again: `Replay` is then never
enabled, as in the code. The journal's header is taken to exist, and the
controller to be opened with `open_vm` and without validators (snapshots require
both).

**Reaper**: dropping a kernel in its five steps (count, count queued, push, overflow,
wake), the thread's pop, its drop and its two counters, its timed wait, and
`drain_reaper` with its polls; every access to a counter, a queue or the channel is
a step of its own.

Operators whose comment begins with `Fault:` are deliberately wrong variants of
the definition next to them (a dropped guard, a missing sync, a swapped order).
No specification uses them. Putting one in place of its original shows that the
property paired with it in `PROJECT.json` fails for that mistake.

## 3. What TLC checks

| Run | Instance | Shows |
|---|---|---|
| `kernel` | 2 slots, 2 atoms, 2 predicates, 4 records; symmetric (27,812 states) | `IndexesAreExact`, `ValidateAccepts`: indexes and signatures after every sequence of definitions and forgets; `KernelsAgree`: the flat kernel has the same log, histories, definitions and buckets, and the full audits accept; `QueriesAreJoins`: a walked query is the join of its patterns, in either order; `ImplementsSlotStacks`: the refinement |
| `epoch_store` | 4 frames, epochs of up to 2, either policy at each open | `AckedSurvives`, `AlwaysRecoverable`, `RepairedNeverReturns`, `HealthyMatchesFile` |
| `file_commit_store` | 4 frames, both stores (222,906) | `AppendsAreDefinite`: an append's answer is true of file and disk *as long as no rollback step failed*; `MappedViewIsHistory`: no step shortens the file below a live mapping, and the mapped records are the reported frames |
| `controller` | 3 clients, 1 flusher, channel of 2, batches of 2 (336,578) | `OutcomesAreTruthful`, `FlushWaits`, `OnlyLateTicketsAreLost`, `CallsReturn` |
| `pipeline` | 3 clients (one needs another's intent and panics after it, one needs a strict writer's), 2 flushers, 1 strict writer, channel and batches of 2 (297,177) | `PublishedIsDurable`, `VerdictsFromPublished` (also for rejections), `OrderAndBarriers`, `EverythingAnswered` |
| `queued` | 3 tickets (one semantic, one abandoned), 1 flush, 3 policies, channel of 2 (148,171) | `ReservationsAreExact`, `TicketsAreTruthful`, `FlushCoversEarlier`, `CallsResolve` |
| `admission` | 2 single submitters, a bulk epoch of 2, one intent that panics; channel, batches and window of 2; 1 flush or snapshot, 1 crash (1,472,954) | until `open` adopts a raced image (`misled`): `ReceiptsAreTruthful` of file and disk, `JournalRecoverable`, `WorldIsProjection` (live, replayed, from an image), `VerdictsSurvive`; always: `FlushWaits`, `TicketsResolve` |
| `database` | 1 slot, 1 literal, 1 validator, 4 intents, 1 strict writer, 1 epoch committer, 2 frames (223,883) | `AnswersHold`, `ReplayMatchesCurrent`, `CollapseAgrees`; `ImplementsWorldHistory`: together the commits, failed appends and restarts are steps of `WorldHistory`, whose `Reveal` also says what `SuccessFollowsInsistedWorld` does |
| `vm` | 2 slots, predicates and literals, 6 intents, epochs of 2, 3 frames, 2 roots (7,650); 5 queries, some 970 trees to lower and 962 intents to journal | `VmShowsWorld`: the machine and its published roots show what they should; `VerdictsAgree`: the planner's verdicts, however the machine was brought up; `QueriesAgree`: projection and image answer alike and exactly; `FramesRoundTrip`, also for cut frames; `LoweringFaithful`: a lowered tree is accepted and visible as the tree means |
| `reaper` | 3 kernels, queue of 1, 1 caller of drain (114,684) | `DrainCovers`, `EverythingReaped` |
| `durable_preconditions`, `vocabulary_order` | those of `database`, `vm` | two disagreements, below |

Why the bounds suffice for the cases of interest. *Kernel*: four records reach
define-define-forget-forget on one slot, and a replacement and its undoing on one
slot while another shares its index buckets; two values per
column make every one of the seven key comparisons come out both ways. *Stores*:
an epoch of two frames can be cut between frames and inside a frame; four frames
allow a failed epoch, a repair and another epoch behind it; in the strict store,
committed, failed and later frames, a failed remap and an append behind it.
*Controllers*: three clients against a
channel and a batch of two reach a full channel, a full batch and a leftover. In
the pipeline they fill an epoch in flight, its successor and the channel, and two
flushers put one barrier behind another that is set aside; in the in-memory
controller the adaptive policy may widen to three.
*Admission*: three commands against a window and a channel of two fill the window,
overlap a write with a materialization and leave a command waiting; the bulk
epoch's two intents are accepted differently before and after the single one; one
crash is enough to reopen over every torn, unsynchronized or doomed journal (with
two crashes, 3,803,163 states, the five invariants hold as well).
*Database*: the intents take each path of the planner (expected slot, expected
world, rejection after an allocation, forget); two frames suffice for a
transaction made stale by an epoch, for an epoch whose second intent depends on
the first, and for a restart between the two. *Machine*: the six intents reject
before, between and after operations, on both paths with and without validators;
three frames let another writer commit between two epochs, so that the machine
must catch up over names it has and has not seen. *Reaper*: with room for one, the
second root meets a full queue while the third meets a full wake-up channel.

Deadlock is checked for the stores and the reaper, which can always go on.
Elsewhere the system really stops in the model: bounds are used up, or
every caller has made its one call.

**Fairness.** Weak fairness throughout, of threads that are already inside a call
and of the kernel's write and sync, which the operating system runs and
completes; each such step stays possible until it is taken. Nothing obliges a
caller to call, a disk to fail or a process to end. `FairSpec` of
`DurableController`: the committer, a submitter holding the mutex, a flusher that
has cloned the sender, a shutdown caller. `FairSpec` of `QueuedController`: worker,
callers inside a call, the join. `SpeculativePipeline` and `AdmissionJournal`: the
committer and the kernel. `Reaper`: a thread inside `retire` and the reaper
thread, whose `recv_timeout` returns after 10 ms at the latest. Each client makes
one call, so nobody can overtake a flusher for ever; with unboundedly many
submitters, `flush` of the durable controller relies on the channel's own
fairness, and that of the speculative committer may be overtaken by every new
batch while successors keep being claimed (`file_epoch_controller.rs:1413`).

### Disagreements between the code and its documents

Two runs each check one sentence of a document, and TLC finds it false of the code.

| Run | Sentence | What happens |
|---|---|---|
| `durable_preconditions` | rust/QUEUED_DURABILITY.md:42, preconditions are checked against the private predecessor assigned to the intent | both durable committers evaluate every epoch on a new machine that never saw the base world: an expected slot value holds or fails by what the same epoch wrote |
| `vocabulary_order` | rust/README.md:22, queued intents evaluate preconditions against their assigned private predecessor | new names are numbered in the order a tree uses them and stored in alphabetical order; when the two differ, the machine reads its own slots back under exchanged names |

Seen while modelling. The models contain these behaviours; the properties
say what still holds around them:

- *Late tickets.* A submitter that read Running sends after the committer's last
  `try_recv`, and its ticket is never answered; rust/LIFECYCLE_SAFETY.md:45 promises
  definite outcomes. `OnlyLateTicketsAreLost` says that nobody else is lost.
- *Poison overwritten.* `shutdown_internal` reads Running, the committer poisons,
  shutdown stores Draining (`file_epoch_controller.rs:1077`; LIFECYCLE_SAFETY.md:51).
  And an epoch whose repair fails poisons the `FileEpochStore` only, so the
  controller still closes (LIFECYCLE_SAFETY.md:69).
- *Ignored rollback errors.* A torn record whose rollback failed stays, and the
  next append is acknowledged behind it (`file_store.rs:160`; WORLD_CONTRACT.md:72).
  `lame` is that condition in `AppendsAreDefinite`.
- *Recovered is not durable.* `open` publishes complete frames that an earlier
  process never synchronized, without a sync (`file_store.rs:100`; README.md:169);
  a power loss takes them back.
- *A header cut short.* A process that ends between the three header writes leaves
  a nonempty file that `open` refuses for ever (`file_store.rs:198`).
- *Stale and torn images.* `write_mmap_snapshot` reads the world, then the journal,
  then the epoch count (`admission_epoch.rs:629`), and `open` trusts an image by the
  journal's digest, where the comment at line 614 says: "The admission journal remains
  authoritative; invalid or stale images are ignored during the next open." An epoch
  sent after the snapshot's flush and written between its reads is in the digest and
  not in the world: the image is stale and valid, and open publishes the older world.
  `JournalIsAuthoritative` is that sentence; as an invariant of the `admission`
  instance TLC refutes it in seconds. Besides, an image taken while a write is partial
  covers a torn journal: reopening from it skips recovery, appends behind the torn
  record or repeats an epoch number, and epochs with a receipt can no longer be
  recovered; without `~misled`, `ReceiptsAreTruthful`, `JournalRecoverable` and
  `VerdictsSurvive` are false too. The condition is narrow: it needs a submission
  during a snapshot *and* a reopening that believes that image; a raced image that is
  never adopted, because the journal went on, costs nothing.
- *A panic that is durable.* An intent whose evaluation panics is in the journal,
  and replay panics again at every open (`admission_epoch.rs:1190`).
- *Mapped spans.* After a failed remap the next successful one adds one span only,
  so the i-th mapped record is no longer the i-th frame until a refresh
  (`mmap_store.rs:190`); `gaps` is that condition.
- *Mixed epochs with host validators* build a candidate from `base.kernel()`, without the
  intents accepted before it in the epoch, and panic on a symbol that is never
  allocated, where the other path rejects (`queued.rs:1127`, `:1162`, `:1254`).
- *Trees.* `compile_semantic_trial` does not look at `ExpectWorld`
  (rust/AST_TO_SISA_LOWERING.md:37); a symbol used before its allocation lowers to a
  local that holds whatever was there; lowered cells do not tell an entity from a
  literal's token (hence `FirstEntity`); a handle of another intent loses its
  namespace in the journal's stream form, so a refused intent would come back
  acceptable (`MCCodecIntents` has own handles only).
- *Speculation.* A successor whose derivation panics poisons the controller even
  when its predecessor then fails and it would have been derived again.
- *Smaller ones.* With a limit, the mapped image and the projection may keep
  different rows; so they may when distinct is combined with provenance, where each
  keeps the first of several rows with equal bindings and its records
  (`QueriesAgree` excludes both); `QueuedIntentController::new`
  (`queued_controller.rs:710`) accepts a policy whose minimum exceeds its maximum
  (the model's policies have minimum ≤ maximum); `active_slot_count` and `record_count` of durable worlds come from
  an empty workspace; the in-flight gauge may be read as nonzero by a caller whose
  ticket was just answered.

## 4. What is proved

All theorems hold for every value of the constants that satisfies the modules'
named assumptions, which only give the constants their types, make kinds of callers
disjoint and sizes positive: `KernelAssumption`, `FileEpochAssumption`,
`FileCommitAssumption`, `ReaperAssumption`, `QueuedControllerAssumption`,
`ControllerAssumption`, `PipelineAssumption`, `AdmissionAssumption`, `DatabaseAssumption`
(which also says that intents have the fields and kinds of operations of `QueuedIntent`)
and `StackVmAssumption`. Bounds only limit how long behaviours
are; no proof uses that they are small. Clients and tickets are taken to be finitely
many where the code counts them (`QueuedController`, `DurableController` and
`AdmissionJournal`); intents of the pipeline and of the database, its threads and
validators, kernels of the reaper, flushers and other writers are any set. Every
inductive invariant was checked by TLC on the instance of its module's run before it was
proved, except `WalkDetermined`, which quantifies over every function.

| Theorem | Property |
|---|---|
| `KernelProofs`: `IndexesCorrect`, `ValidateCorrect` | `IndexesAreExact`, `ValidateAccepts` |
| `KernelProofs`: `TypeCorrect`, `HeadsCorrect`, `LogIsAppendOnly` | `TypeOK`, `HeadsAreDefinitions`, `LogAppendOnly` (proved; no run checks them) |
| `KernelProofs`: `KernelsNeverDiffer` | `KernelsAgree`, of `KernelPair` |
| `KernelProofs`: `RefinesSlotStacks` | `ImplementsSlotStacks`: `Kernel` implements `SlotStacks` |
| `FileEpochStoreProofs`: `AckedHistorySurvives`, `RecoveryNeverRefuses`, `HealthyStoreMatchesFile`, `RepairIsDefinite` | `AckedSurvives`, `AlwaysRecoverable`, `HealthyMatchesFile`, `RepairedNeverReturns` |
| `FileEpochStoreProofs`: `TypeCorrect`, `PoisonIsFenced` | `TypeOK`, `PoisonFences` (proved; no run checks them) |
| `MmapStoreProofs`: `AnswersAreDefinite`, `MappedAnswersAreDefinite` | `AppendsAreDefinite`, of `FileCommitStore` alone and of the mapped store |
| `MmapStoreProofs`: `MappingShowsHistory` | `MappedViewIsHistory` |
| `DurableControllerProofs`: `TicketsAreTruthful`, `FlushesWait`, `LostTicketsAreLate` | `OutcomesAreTruthful`, `FlushWaits`, `OnlyLateTicketsAreLost` |
| `SpeculativePipelineProofs`: `ReadersSeeDurable`, `VerdictsArePublished`, `OrderIsKept` | `PublishedIsDurable`, `VerdictsFromPublished`, `OrderAndBarriers` |
| `AdmissionJournalProofs`: `FlushesWait` | `FlushWaits` |
| `AdmissionJournalProofs`: `ReceiptsHold`, `JournalStaysRecoverable`, `WorldsAreProjections`, `VerdictsHold` (until `misled`) | `ReceiptsAreTruthful`, `JournalRecoverable`, `WorldIsProjection`, `VerdictsSurvive` |
| `QueuedControllerProofs`: `AnswersAreKept`, `ReplayGivesHead`, `SuccessesFollow`, `CollapsePreserves` | `AnswersHold`, `ReplayMatchesCurrent`, `CollapseAgrees` of `Database`, and `SuccessFollowsInsistedWorld` (no run checks it by itself: it follows from `ImplementsWorldHistory`) |
| `QueuedControllerProofs`: `RefinesWorldHistory` | `ImplementsWorldHistory`: `Database` implements `WorldHistory` |
| `QueuedControllerProofs`: `ReservationsExact`, `TicketsTruthful`, `FlushIsComplete` | `ReservationsAreExact`, `TicketsAreTruthful`, `FlushCoversEarlier` |
| `KernelProofs`: `DrainIsComplete` | `DrainCovers` |
| `KernelProofs`: `QueuedIsExact` | the counter is the number of roots between their two updates (stated in the theorem) |

**KernelProofs.** That an index is exact is not inductive alone: `forget` reveals the
`previous_head` of the record on top, so the invariant must say of *every* definition
in the log, not only of the heads, that what it shadows is an older definition of the
same slot (or nothing). With that, one lemma on `ViewReplace` (a bucket loses the old
identifier, gains the new one, and keeps shared keys) carries the index part, and a
lemma on signatures (removing an active head and adding another keeps store and view
equal) the rest.

The refinement maps a slot to what `definitions()` returns for it, a recursive walk down
the `previous_head` links (`ChainOf`). A recursive function is only determined when its
recursion is well founded; rather than show that for every log, the proof carries it
through the induction over steps: `WalkDetermined` says that exactly one
function satisfies the walk's equation on the log as it is, and `WalkStep` that appending
a record whose link points back (`LinksBack`) extends that function and changes none of
its earlier values. Then `Define` is `Push`, `Forget` is `Pop` or, on an empty slot, a
stutter, and `Entity` is `Allocate`.

`KernelsNeverDiffer` is about the two kernels in lockstep and their audits. `PairInv` says
that the flat kernel's partial maps hold exactly the nonempty heads, histories and
buckets of the shared one, and that each signature is what a recount of the active heads
gives. The recount, and the walk of the flat kernel's history, are recursive over
identifiers; what they compute is shown with a least counterexample, which the library
offers for any well-founded relation (`WFMin`): no prover then has to instantiate an
operator, as its induction theorems would require.

**FrameFileProofs** has the lemmas on files that both stores need: a `Sound` file stays
sound when it is cut, the frames of a longer file extend those of a shorter one, and
every image in `Writebacks(d, f)` is sound when `d` and `f` are and keeps every prefix
the two share. The last one is the whole argument about power loss.

**FileEpochStoreProofs.** One inductive invariant,
`TypeOK /\ FilesGood /\ Durable /\ Tracked /\ Control /\ InCall /\ Writing`, and `Fresh`
for the theorem about repaired frames. `FilesGood`: file and disk are `Sound`.
`Durable`: the acknowledged history is a prefix of both. `Tracked`: frames, while a
process is healthy, are those of the file up to the checkpoint. `Control` and `InCall`
tie program counter, state, start offset and epoch together. `Writing`: during a write,
what lies beyond the start offset is a prefix of the encoded epoch, perhaps torn.
`Fresh`: worlds not yet minted appear nowhere, which is why a repaired frame cannot be
written a second time. The proof covers both policies and epochs of any length.

**MmapStoreProofs.** `FInv` for the strict store: `Headed` and `Placed` hold whatever
fails; `Definite` (`FilesGood`, `Durable`, `Tracked`, `Fresh`) holds until a step of a
rollback has failed (`lame`), exactly the condition `AppendsAreDefinite` is stated
under, because afterwards a frame reported as failed may be in the file. `MInv` adds
the mapping: `Paired` (where the writer is during which call), `Noted` (the position
taken before an append is where the record goes) and `Viewed` (spans point at whole
records below everything the running call can still truncate). `Viewed` does not
need `Definite`: a mapping stays inside its file even after a failed rollback.

**DurableControllerProofs.** `QueuePlaced`, `BatchPlaced` and `Located` say where an
admitted intent is; `LineOrdered` and `FileOrdered` that it leaves the channel and
reaches the file in the order of admission; `Barriers` that everything ahead of a
barrier is resolved, in the batch, or still ahead of it; `Written` relates file, reader
head and answered tickets. `Stopped` is why only late tickets are lost: `Running` never
comes back, and once the committer has drained for the last time whatever is in the
channel was sent after that change.

**SpeculativePipelineProofs.** `Phases` says what the committer holds at each of its
steps, in particular that the epoch being committed was always derived on the published
world, while its successor was derived on a world that may never be published; it
becomes the epoch to commit only on a world equal to its base, or after a new derivation.
`Stored` ties the ring's report to the file: a completion batch that validates means the
file holds the whole epoch. `InOrder` orders the four places an unanswered intent may be
in (epoch, successor or batch being claimed, channel) behind each other and behind the
published world, which also makes them disjoint; `Barriers` is as above, with the
barriers set aside. That an intent is answered from exactly one epoch needs
`InOrder`, so the three properties are proved together.

**AdmissionJournalProofs.** The invariant has five layers, each proved with the ones
before it. *Flow*: where the worker, the callers, the channel and the in-flight write are,
and that whatever was sent before a flush barrier is resolved, claimed or still ahead of
it; `FlushWaits` follows, with snapshots or without. *Shape*: the journal
as processes see it and as a power loss leaves it is readable (consecutive epoch numbers,
torn at most in the last record), behind the worker's offset there is at most the record of
the write under way, the epochs still to be applied are the journal's between what is
applied and that offset, and an image nobody raced is of a whole journal. *Ordered*: submissions keep the
order of the channel all the way into the journal, and journal, epoch in flight, batch and
channel have no client in common. *Receipts*: a receipt names a record
that no later repair, crash or truncation removes. *Verdicts*: the published world is
the fold of `Accepts` over the applied records, and an outcome is what that fold decides.
A replay, an image and live materialization fold the same records in the same order, which is
again shown by a least counterexample over positions. *Flow* always holds; the other four
hold until `misled`, and the theorems are stated under exactly that condition, over
behaviours in which submitters come whenever they like, snapshots are raced and raced
images lie about. The step that matters is `open`: an image that matches the journal by
its length and digest either was raced, and then `misled` is set, or covers a whole
journal with its projection, and then skipping recovery skips nothing.

**QueuedControllerProofs, first part.** `DepthCounts` has a case for a worker that is gone: the
counter then keeps the intents dropped with the channel, so it is only bounded.
`WidthBounded` needs that the adaptive probe starts below the target and the target is
at most the policy's maximum. `PlanMatchesBatch` relates the positions of the plan to
those of the batch while the results are routed.

**QueuedControllerProofs, second part: Database.** Planners, replay, resolution,
compilation and execution are folds. Each fold has a lemma, by least counterexample, that
gives the sequence of its intermediate results; everything else is a step of such a
sequence. The central fact (`ResolvedFrom`, `Allocates`) is that the operations an intent
resolves to allocate, when replayed, exactly the identifiers the planner handed out. With
it every plan is a `GoodPlan`: each prefix of its frames replays from the base to a
descendant of it, the whole to the tail; the accepted intents' entities are new and each
its own; their worlds lie behind the base and not beyond the tail. This is shown of
the four ways to make a plan: `DeriveEpoch`, `DeriveEpochWorld`, the machine (compiled
intent by intent, where a rejected trial leaves the allocator as it was) and a strict
transaction whose base is still current. `CollapseAgrees` is then a comparison of the two
planners' intermediate results. `DatabaseInv` adds what a thread holds at each of its steps: at
most one is inside a commit (`LockHeld`), what it prepared refers to worlds not newer than the
head (`WorksGood`), and the store replays to the head, or to the head about to be published
(`HeadGood`). The refinement of `WorldHistory` needs one more fact about replay: the
identifier of a replayed world spells out the resulting worlds of the frames before it, so
that frames that replay are a linear history and an answer's world is one of it.

**KernelProofs, the reaper.** `CounterExact`: `queued` is the cardinality of the roots counted in and
not yet counted out. A root is counted in before it is in any queue and counted out two
steps after it was freed, so a drain that reads zero has nothing left to wait for;
`QueuesApart` and `HandApart` keep a root in one place, so that it is counted out once.

Only model-checked: all liveness properties (the prover has no `ENABLED`), among them
`TicketsResolve` and `CallsReturn`; `QueriesAreJoins` and `QueriesAgree`, whose walk is a
`RECURSIVE` operator, in whose modules the prover has no arithmetic; and the rest of
`MixedDatabase` (`VmShowsWorld`, `VerdictsAgree`, `FramesRoundTrip`, `LoweringFaithful`): these
compare a long-lived machine, its index deltas and the codecs with the planners over trees
and streams of arbitrary depth, and are within reach only at the length of the Database
proof for each of them.

Two definitions are relations where the code computes a fold, so that they can be
reasoned about: `Accepted` of `SpeculativePipeline` (the places of the intents an epoch
accepts) and `AcceptedOrders` of `DurableController` (an increasing selection from the
batch). Each has exactly one member wherever it is used; `DerivationIsFold`, an assumption
TLC evaluates in the `pipeline` run, says of the first that it is what the fold computes.

## 5. Abstractions

- World identifiers and the machine's root hashes are free of collisions, record
  checksums detect every torn record that is followed by other bytes, and a
  signature that agrees in count and sum is taken as the code takes it.
- Bytes are records, whole or torn, in the stores, and fields in the codecs. A
  write error may come before or after part of the data; a failed sync leaves the
  disk anywhere between old and new.
- Writeback preserves file order. A file system that persists later blocks of an
  append first could leave a hole that recovery reports as corruption.
- `submit_and_wait` is taken not to fail once entries are submitted: the code would
  then drop the ring with a write possibly under way (`io_uring_epoch_io.rs:257`).
- Semantic verdicts are arbitrary in `DurableController` and `QueuedController`,
  given by `Needs` and `Accepts` in `SpeculativePipeline` and `AdmissionJournal`, and
  computed in `Database` and `MixedDatabase`.
- Time is not modelled: any timed wait may end without its event. Metrics, error
  texts, display names and interning are left out.
- Version and entity counters are naturals: at one commit per nanosecond the
  64-bit counters last centuries, and the code checks the additions.

## 6. Not modelled, and the plan

Not modelled, for good: byte offsets, section checksums and text parsers
(conversions without interleaving, covered by the repository's own round-trip
tests); the machine's parallel and benchmark entry points and its borrowed views;
benchmarks and the conformance runner (they only drive the system); the library
demonstration (a client of `Database` without state of its own to keep); the Python
reference, which the Rust code supersedes.

Known and outside these models: the reaper's overflow queue is only served when
the bounded one is empty, so endless retirement could starve it; dropping a long
chain of history nodes recurses; two names that hash to one `symbol_slot`.

Done: the kernels, queries and reaper; the three stores; the four controllers with
liveness; databases with both planners and with the machine; images and codecs.

Proved: the indexes of the shared kernel, that it implements a stack per slot and that the
flat kernel never differs from it; the safety of the three stores, of the durable, the
speculative, the admission and the in-memory committer, and of the reaper; the safety of the
database with all its planners, and that it implements a history of worlds (section 4).

Left, most important first:

1. The long-lived machine of `MixedDatabase`: `VmShowsWorld` and `VerdictsAgree`, for which
   `DatabaseInv` has the part about compilation and execution from an empty machine.
2. `QueriesAreJoins`, once the query walk is written as a fold over the patterns.
3. The composition of `DurableController` with `FileEpochStore` and the writer lease
   through a restart, both against `WorldHistory`.
