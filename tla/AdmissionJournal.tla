-------------------------- MODULE AdmissionJournal --------------------------
(***************************************************************************)
(* AdmissionEpochController of admission_epoch.rs, opened with open_vm and *)
(* no validators: submitters, one caller of flush and write_mmap_snapshot, *)
(* shutdown, the admission worker with its overlapped io_uring write, the  *)
(* journal and the snapshot image beside it, exit, power loss and reopen.  *)
(*                                                                         *)
(* Every client submits one intent and names its ticket; the clients of    *)
(* Bulk share one submit_epoch call.  A world is the sequence of its epoch *)
(* frames, a frame the clients accepted into it, in order.  The journal's  *)
(* header is taken to exist; its torn tail, write-back and power loss are  *)
(* those of FrameFile.                                                     *)
(*                                                                         *)
(* write_mmap_snapshot reads the world, the journal and the epoch count    *)
(* one after the other, without keeping submitters out, and open trusts an *)
(* image by its journal digest alone.  An epoch admitted between the reads *)
(* may be in the journal (whole or torn) and not in the world; the history *)
(* variable `misled' says that open adopted an image that was taken while  *)
(* commands were sent.                                                     *)
(***************************************************************************)
EXTENDS FrameFile, FiniteSets, SequencesExt

CONSTANTS
    Clients,        \* intents, one per client
    Bulk,           \* the clients submitted together, in order
    Accepts(_, _),  \* Accepts(c, facts): c is accepted after the clients of facts
    Explosive,      \* clients whose evaluation panics
    Capacity,       \* of the command channel
    MaxBatch,       \* most intents one epoch claims
    Window,         \* max_unapplied_epochs
    MaxCalls,       \* bound: flush and snapshot calls
    MaxCrashes      \* bound: process exits and power losses

ASSUME AdmissionAssumption ==
    /\ IsFiniteSet(Clients) /\ Explosive \subseteq Clients
    /\ Bulk \in Seq(Clients) /\ IsInjective(Bulk)
    /\ Capacity \in Nat \ {0} /\ MaxBatch \in Nat \ {0} /\ Window \in Nat \ {0}
    /\ MaxCalls \in Nat /\ MaxCrashes \in Nat

VARIABLES
    file, disk,         \* the journal: what processes see, what power loss leaves
    image, diskImage,   \* the snapshot file, likewise
    sender,             \* TRUE while the controller's SyncSender is Some
    mutex,              \* TRUE while flush holds the sender mutex
    queue,              \* commands in the channel
    client,             \* client[c]: "ready" or "ticket"
    receipt,            \* receipt[c]: <<epoch_id, position>>, Err or None
    outcome,            \* outcome[c]: what wait would return, or "None"
    caller,             \* where the flushing caller is
    taken,              \* the world and the journal write_mmap_snapshot read
    worker,             \* where the worker is
    pending,            \* pending_commands
    batch,              \* clients claimed for the next epoch
    backlog,            \* durable_backlog
    held,               \* the durable epoch being materialized, or NoEpoch
    inflight,           \* the submitted epoch, or NoEpoch
    kernel,             \* progress of its linked write and sync
    barrier,            \* a flush is to be answered
    disconnected,
    doomed,             \* a materialization failed, its successor is awaited
    nextEpoch, fileLen,
    durableEpochs, appliedEpochs,
    current,            \* the published world
    admitted,           \* history: clients in channel order
    before,             \* history: clients in the channel before the barrier
    lame,               \* history: a repair failed
    raced,              \* history: a command was sent since the snapshot's flush
    misled,             \* history: open adopted an image whose snapshot was raced
    calls, crashes

storage == <<file, disk>>
images == <<image, diskImage>>
ingress == <<sender, queue, client>>
answers == <<receipt, outcome>>
callerVars == <<mutex, caller, taken, before, calls>>
workerVars == <<pending, batch, backlog, held, inflight, kernel, barrier,
                disconnected, doomed, nextEpoch, fileLen, durableEpochs,
                appliedEpochs, current>>
history == <<admitted, lame, raced, misled, crashes>>
vars == <<storage, images, ingress, answers, callerVars, worker, workerVars, history>>

None == <<>>
Err == <<0>>
NoEpoch == [id |-> 0, clients |-> <<>>]

\* `quiet' is a history variable of the image: its snapshot was not raced.
NoImage == [journal |-> <<>>, count |-> 0, world |-> <<>>, valid |-> FALSE,
            quiet |-> TRUE]

-----------------------------------------------------------------------------
(* The semantic projection.                                                  *)

Facts(world) == UNION {ToSet(world[i]) : i \in DOMAIN world}

\* The accepted intents of an epoch, each judged after the ones before it.
Plan(world, clients) ==
    LET accepted[i \in 0..Len(clients)] ==
            IF i = 0 THEN <<>>
            ELSE IF Accepts(clients[i], Facts(world) \cup ToSet(accepted[i - 1]))
            THEN Append(accepted[i - 1], clients[i]) ELSE accepted[i - 1]
    IN  accepted[Len(clients)]

\* One world per epoch that has an accepted effect.
WorldAfter(world, clients) ==
    IF Plan(world, clients) = <<>> THEN world
                                   ELSE Append(world, Plan(world, clients))

Projection(f) ==
    LET after[i \in 0..Len(f)] ==
            IF i = 0 THEN <<>> ELSE WorldAfter(after[i - 1], f[i].clients)
    IN  after[Len(f)]

\* The clients of a sequence of epochs, records or commands.
ClientsOf(epochs) == UNION {ToSet(epochs[i].clients) : i \in DOMAIN epochs}

Replayable(f) == ClientsOf(f) \cap Explosive = {}

\* recover_journal reads f without a format error.
SoundJournal(f) ==
    /\ \A i \in 1..Len(f) : ~f[i].whole => i = Len(f)
    /\ \A i \in 1..Len(GoodPrefix(f)) : f[i].id = i

Record(epoch) == [id |-> epoch.id, clients |-> epoch.clients, whole |-> TRUE]

-----------------------------------------------------------------------------

Init ==
    /\ file = <<>> /\ disk = <<>> /\ image = NoImage /\ diskImage = NoImage
    /\ sender = FALSE /\ queue = <<>> /\ client = [c \in Clients |-> "ready"]
    /\ receipt = [c \in Clients |-> None] /\ outcome = [c \in Clients |-> "None"]
    /\ mutex = FALSE /\ caller = "idle" /\ taken = NoImage /\ before = {} /\ calls = 0
    /\ worker = "down" /\ pending = <<>> /\ batch = <<>> /\ backlog = <<>>
    /\ held = NoEpoch /\ inflight = NoEpoch /\ kernel = "none"
    /\ barrier = FALSE /\ disconnected = FALSE /\ doomed = FALSE
    /\ nextEpoch = 0 /\ fileLen = 0 /\ durableEpochs = 0 /\ appliedEpochs = 0
    /\ current = <<>>
    /\ admitted = <<>> /\ lame = FALSE /\ raced = FALSE /\ misled = FALSE
    /\ crashes = 0

Alive == worker \notin {"down", "opensync", "replay"}

\* run_worker has not returned: its Receiver exists.
Receiving == Alive /\ worker # "stopped"

-----------------------------------------------------------------------------
(* open: recover_journal, replay_epochs, the worker's first state.  A format *)
(* error or a panic of replay_epochs refuses: no action is enabled.          *)

Started(length, count, world) ==
    /\ worker' = "fill" /\ sender' = TRUE /\ queue' = <<>>
    /\ pending' = <<>> /\ batch' = <<>> /\ backlog' = <<>>
    /\ held' = NoEpoch /\ inflight' = NoEpoch /\ kernel' = "none"
    /\ barrier' = FALSE /\ disconnected' = FALSE /\ doomed' = FALSE
    /\ nextEpoch' = count + 1 /\ fileLen' = length
    /\ durableEpochs' = count /\ appliedEpochs' = count /\ current' = world
    /\ UNCHANGED <<images, client, answers, callerVars, admitted, lame, raced, crashes>>

\* Fault: any image whose journal is a prefix of the file is used.
ImagePrefixMatches ==
    image.valid /\ IsPrefix(image.journal, file)

\* MmapVmSnapshot::open succeeds at the journal's very end: the digest it holds
\* is that of these bytes.
ImageMatches == image.valid /\ image.journal = file

OpenFromImage ==
    /\ worker = "down" /\ ImageMatches
    /\ Started(Len(file), image.count, image.world)
    /\ misled' = (misled \/ ~image.quiet)
    /\ UNCHANGED storage

OpenClean ==
    /\ worker = "down" /\ ~ImageMatches
    /\ SoundJournal(file) /\ ~TornTail(file)
    /\ worker' = "replay"
    /\ UNCHANGED <<storage, images, ingress, answers, callerVars, workerVars, history>>

\* From the first torn record on.  Records behind it, which only a journal has
\* that open was misled about, are cut off with it when its length runs past the
\* end of the file, and are refused otherwise.
OpenTruncate ==
    /\ worker = "down" /\ ~ImageMatches
    /\ \E n \in 1..Len(file) :
          /\ ~file[n].whole
          /\ \A i \in 1..(n - 1) : file[i].whole /\ file[i].id = i
          /\ file' = SubSeq(file, 1, n - 1)
    /\ worker' = "opensync"
    /\ UNCHANGED <<disk, images, ingress, answers, callerVars, workerVars, history>>

OpenSync ==
    /\ worker = "opensync"
    /\ disk' = file
    /\ worker' = "replay"
    /\ UNCHANGED <<file, images, ingress, answers, callerVars, workerVars, history>>

Replay ==
    /\ worker = "replay" /\ Replayable(file)
    /\ Started(Len(file), Len(file), Projection(file))
    /\ UNCHANGED <<storage, misled>>

-----------------------------------------------------------------------------
(* submit, submit_epoch, flush and shutdown.  A call that is refused, the    *)
(* channel being full or closed, changes nothing.                            *)

Snapshotting == caller \in {"flushed", "world", "journal"}

Send(kind, clients) ==
    /\ sender /\ Receiving /\ ~mutex /\ Len(queue) < Capacity
    /\ \A i \in DOMAIN clients : client[clients[i]] = "ready"
    /\ queue' = Append(queue, [kind |-> kind, clients |-> clients])
    /\ client' = [c \in Clients |-> IF c \in ToSet(clients) THEN "ticket" ELSE client[c]]
    /\ admitted' = admitted \o clients /\ raced' = Snapshotting
    /\ UNCHANGED <<storage, images, sender, answers, callerVars, worker, workerVars,
                   lame, misled, crashes>>

Submit(c) == c \notin ToSet(Bulk) /\ Send("Intent", <<c>>)

SubmitEpoch == Bulk # <<>> /\ Send("Epoch", Bulk)

Shutdown ==
    /\ Alive /\ sender /\ ~mutex
    /\ sender' = FALSE
    /\ UNCHANGED <<storage, images, queue, client, answers, callerVars, worker,
                   workerVars, history>>

FlushLock ==
    /\ caller = "idle" /\ Alive /\ sender /\ ~mutex /\ calls < MaxCalls
    /\ mutex' = TRUE /\ caller' = "sending" /\ calls' = calls + 1
    /\ UNCHANGED <<storage, images, ingress, answers, taken, before, worker,
                   workerVars, history>>

\* The blocking send of the barrier.
FlushSend ==
    /\ caller = "sending" /\ Receiving /\ Len(queue) < Capacity
    /\ queue' = Append(queue, [kind |-> "Barrier", clients |-> <<>>])
    /\ before' = {c \in Clients : client[c] = "ticket"}
    /\ caller' = "waiting"
    /\ UNCHANGED <<storage, images, sender, client, answers, mutex, taken, calls,
                   worker, workerVars, history>>

FlushReturns ==
    /\ caller = "answered"
    /\ mutex' = FALSE /\ caller' = "flushed"
    /\ UNCHANGED <<storage, images, ingress, answers, taken, before, calls, worker,
                   workerVars, history>>

\* The send or the recv fails: the worker has returned.
FlushStopped ==
    /\ caller \in {"sending", "waiting"} /\ worker = "stopped"
    /\ mutex' = FALSE /\ caller' = "idle" /\ before' = {}
    /\ UNCHANGED <<storage, images, ingress, answers, taken, calls, worker,
                   workerVars, history>>

-----------------------------------------------------------------------------
(* write_mmap_snapshot after its flush.  Any of its steps may fail and end   *)
(* the call; so does a plain flush.                                          *)

CallEnds ==
    /\ caller \in {"flushed", "world", "journal", "renamed"}
    /\ caller' = "idle" /\ taken' = NoImage /\ before' = {} /\ raced' = FALSE
    /\ UNCHANGED <<storage, images, ingress, answers, mutex, calls, worker,
                   workerVars, admitted, lame, misled, crashes>>

SnapshotWorld ==
    /\ caller = "flushed"
    /\ taken' = [NoImage EXCEPT !.world = current]
    /\ caller' = "world"
    /\ UNCHANGED <<storage, images, ingress, answers, mutex, before, calls, worker,
                   workerVars, history>>

SnapshotJournal ==
    /\ caller = "world"
    /\ taken' = [taken EXCEPT !.journal = file]
    /\ caller' = "journal"
    /\ UNCHANGED <<storage, images, ingress, answers, mutex, before, calls, worker,
                   workerVars, history>>

\* The count is read, then MmapVmSnapshot::create writes and synchronizes a
\* temporary file and renames it over the target.  One step: nobody looks at the
\* image before the next open.
SnapshotRename ==
    /\ caller = "journal"
    /\ image' = [taken EXCEPT !.count = durableEpochs, !.valid = TRUE, !.quiet = ~raced]
    /\ caller' = "renamed" /\ raced' = FALSE
    /\ UNCHANGED <<storage, diskImage, ingress, answers, mutex, taken, before, calls,
                   worker, workerVars, admitted, lame, misled, crashes>>

SnapshotSync ==
    /\ caller = "renamed"
    /\ diskImage' = image
    /\ caller' = "idle" /\ taken' = NoImage /\ before' = {}
    /\ UNCHANGED <<storage, image, ingress, answers, mutex, calls, worker, workerVars,
                   history>>

-----------------------------------------------------------------------------
(* run_worker.  `held' is NoEpoch in its filling loop and the epoch popped   *)
(* for materialization when a successor is sought to overlap with it.        *)

Room == Len(backlog) < Window /\ ~barrier /\ ~disconnected

Seeking == worker \in {"fill", "overlap"}

AfterSeeking == IF worker = "fill" THEN "apply" ELSE "materialize"

Command == Head(pending \o queue)

\* pending_commands first, then the channel.
TakeCommand ==
    /\ Seeking /\ Room /\ pending \o queue # <<>>
    /\ pending' = IF pending = <<>> THEN <<>> ELSE Tail(pending)
    /\ queue' = IF pending = <<>> THEN Tail(queue) ELSE queue
    /\ batch' = Command.clients
    /\ barrier' = (Command.kind = "Barrier")
    /\ worker' = CASE Command.kind = "Barrier" -> AfterSeeking
                   [] Command.kind = "Intent" -> "claim"
                   [] Command.kind = "Epoch" -> "submit"
    /\ UNCHANGED <<storage, images, sender, client, answers, callerVars, backlog, held,
                   inflight, kernel, disconnected, doomed, nextEpoch, fileLen,
                   durableEpochs, appliedEpochs, current, history>>

\* Fault: recv where try_recv is needed: the loop waits for a command although
\* durable epochs are to be applied.
NoCommandBlocks ==
    /\ Seeking
    /\ ~Room \/ (pending \o queue = <<>> /\ (worker = "overlap" \/ ~sender))
    /\ disconnected' = (disconnected \/ (Room /\ ~sender))
    /\ worker' = AfterSeeking
    /\ UNCHANGED <<storage, images, ingress, answers, callerVars, pending, batch, backlog,
                   held, inflight, kernel, barrier, doomed, nextEpoch, fileLen,
                   durableEpochs, appliedEpochs, current, history>>

\* No room, or nothing in the channel; the worker blocks only when it has nothing
\* else to do and the sender exists.
NoCommand ==
    /\ Seeking
    /\ \/ ~Room
       \/ pending \o queue = <<>> /\ (worker = "overlap" \/ backlog # <<>> \/ ~sender)
    /\ disconnected' = (disconnected \/ (Room /\ ~sender))
    /\ worker' = AfterSeeking
    /\ UNCHANGED <<storage, images, ingress, answers, callerVars, pending, batch, backlog,
                   held, inflight, kernel, barrier, doomed, nextEpoch, fileLen,
                   durableEpochs, appliedEpochs, current, history>>

\* claim_batch.
Claim ==
    /\ worker = "claim" /\ Len(batch) < MaxBatch
    /\ queue # <<>> /\ Head(queue).kind = "Intent"
    /\ batch' = batch \o Head(queue).clients /\ queue' = Tail(queue)
    /\ UNCHANGED <<storage, images, sender, client, answers, callerVars, worker, pending,
                   backlog, held, inflight, kernel, barrier, disconnected, doomed,
                   nextEpoch, fileLen, durableEpochs, appliedEpochs, current, history>>

\* Fault: the claim goes on behind the command it put aside.
ClaimPastAside ==
    /\ worker = "claim" /\ Len(batch) < MaxBatch
    /\ queue # <<>> /\ Head(queue).kind # "Intent"
    /\ pending' = Append(pending, Head(queue)) /\ queue' = Tail(queue)
    /\ UNCHANGED <<storage, images, sender, client, answers, callerVars, worker, batch,
                   backlog, held, inflight, kernel, barrier, disconnected, doomed,
                   nextEpoch, fileLen, durableEpochs, appliedEpochs, current, history>>

ClaimSetsAside ==
    /\ worker = "claim" /\ Len(batch) < MaxBatch
    /\ queue # <<>> /\ Head(queue).kind # "Intent"
    /\ pending' = Append(pending, Head(queue)) /\ queue' = Tail(queue)
    /\ worker' = "submit"
    /\ UNCHANGED <<storage, images, sender, client, answers, callerVars, batch,
                   backlog, held, inflight, kernel, barrier, disconnected, doomed,
                   nextEpoch, fileLen, durableEpochs, appliedEpochs, current, history>>

ClaimEnds ==
    /\ worker = "claim" /\ (Len(batch) = MaxBatch \/ queue = <<>>)
    /\ worker' = "submit"
    /\ UNCHANGED <<storage, images, ingress, answers, callerVars, workerVars, history>>

\* submit_admission, which queues the linked write and sync.
SubmitAdmission ==
    /\ worker = "submit"
    /\ inflight' = [id |-> nextEpoch, clients |-> batch]
    /\ kernel' = "queued" /\ nextEpoch' = nextEpoch + 1 /\ batch' = <<>>
    /\ worker' = IF held = NoEpoch THEN "complete" ELSE "materialize"
    /\ UNCHANGED <<storage, images, ingress, answers, callerVars, pending, backlog, held,
                   barrier, disconnected, doomed, fileLen, durableEpochs,
                   appliedEpochs, current, history>>

-----------------------------------------------------------------------------
(* The ways run_worker returns.  What is left in the channel goes with the   *)
(* Receiver, a set-aside barrier with the worker's own queue.                *)

\* The receipts once notify_admitted has been through an epoch.
Notified(epoch) ==
    [c \in Clients |->
        IF c \in ToSet(epoch.clients)
        THEN <<epoch.id, CHOOSE i \in DOMAIN epoch.clients : epoch.clients[i] = c>>
        ELSE receipt[c]]

\* The receipts once fail_batch has been through an epoch.
Refused(clients) ==
    [c \in Clients |-> IF c \in ToSet(clients) THEN Err ELSE receipt[c]]

\* run_worker returns with these receipts sent and these clients Failed.
Returns(receipts, failed) ==
    /\ receipt' = receipts
    /\ outcome' = [c \in Clients |->
                     IF c \in failed THEN "Failed"
                     ELSE IF c \in ClientsOf(pending \o queue) THEN "Stopped" ELSE outcome[c]]
    /\ worker' = "stopped"
    /\ queue' = <<>> /\ pending' = <<>> /\ backlog' = <<>> /\ batch' = <<>>
    /\ held' = NoEpoch /\ inflight' = NoEpoch /\ kernel' = "none" /\ barrier' = FALSE
    /\ UNCHANGED <<images, sender, client, callerVars, disconnected, doomed, nextEpoch,
                   appliedEpochs, current, admitted, raced, misled, crashes>>

SubmissionFails ==
    /\ worker = "submit"
    /\ Returns(Refused(batch), ToSet(batch) \cup ClientsOf(Append(backlog, held)))
    /\ UNCHANGED <<storage, fileLen, durableEpochs, lame>>

\* Fault: success is reported once the write has completed.
CompleteUnsynced ==
    /\ worker = "complete" /\ ~doomed /\ kernel \in {"written", "synced"}
    /\ receipt' = Notified(inflight)
    /\ backlog' = Append(backlog, inflight)
    /\ fileLen' = fileLen + 1 /\ durableEpochs' = durableEpochs + 1
    /\ inflight' = NoEpoch /\ kernel' = "none"
    /\ worker' = "fill"
    /\ UNCHANGED <<storage, images, ingress, outcome, callerVars, pending, batch, held,
                   barrier, disconnected, doomed, nextEpoch, appliedEpochs, current,
                   history>>

\* complete_admission and notify_admitted.
Complete ==
    /\ worker = "complete" /\ ~doomed /\ kernel = "synced"
    /\ receipt' = Notified(inflight)
    /\ backlog' = Append(backlog, inflight)
    /\ fileLen' = fileLen + 1 /\ durableEpochs' = durableEpochs + 1
    /\ inflight' = NoEpoch /\ kernel' = "none"
    /\ worker' = "fill"
    /\ UNCHANGED <<storage, images, ingress, outcome, callerVars, pending, batch, held,
                   barrier, disconnected, doomed, nextEpoch, appliedEpochs, current,
                   history>>

\* The successor of an epoch whose materialization failed: admitted, then failed.
CompleteDoomed ==
    /\ worker = "complete" /\ doomed /\ kernel = "synced"
    /\ Returns(Notified(inflight), ClientsOf(Append(backlog, inflight)))
    /\ fileLen' = fileLen + 1 /\ durableEpochs' = durableEpochs + 1
    /\ UNCHANGED <<storage, lame>>

\* The write is short, or it or the sync reports an error.
CompleteFails ==
    /\ worker = "complete"
    /\ kernel' = "none"
    /\ worker' = "repair"
    /\ UNCHANGED <<storage, images, ingress, answers, callerVars, pending, batch, backlog,
                   held, inflight, barrier, disconnected, doomed, nextEpoch, fileLen,
                   durableEpochs, appliedEpochs, current, history>>

\* Fault: the repair cuts off the epoch before the failed one too.
RepairTruncateTooFar ==
    /\ worker = "repair"
    /\ file' = SubSeq(file, 1, fileLen - 1)
    /\ worker' = "repairsync"
    /\ UNCHANGED <<disk, images, ingress, answers, callerVars, workerVars, history>>

RepairTruncate ==
    /\ worker = "repair"
    /\ file' = SubSeq(file, 1, fileLen)
    /\ worker' = "repairsync"
    /\ UNCHANGED <<disk, images, ingress, answers, callerVars, workerVars, history>>

RepairSync ==
    /\ worker = "repairsync"
    /\ disk' = file
    /\ Returns(Refused(inflight.clients), ClientsOf(Append(backlog, inflight)))
    /\ UNCHANGED <<file, fileLen, durableEpochs, lame>>

RepairFails ==
    /\ worker \in {"repair", "repairsync"}
    /\ lame' = TRUE
    /\ Returns(Refused(inflight.clients), ClientsOf(Append(backlog, inflight)))
    /\ UNCHANGED <<storage, fileLen, durableEpochs>>

-----------------------------------------------------------------------------

\* Fault: the newest durable epoch is materialized first.
PopNewest ==
    /\ worker = "apply" /\ backlog # <<>>
    /\ held' = Last(backlog) /\ backlog' = Front(backlog)
    /\ worker' = "overlap"
    /\ UNCHANGED <<storage, images, ingress, answers, callerVars, pending, batch, inflight,
                   kernel, barrier, disconnected, doomed, nextEpoch, fileLen,
                   durableEpochs, appliedEpochs, current, history>>

PopDurable ==
    /\ worker = "apply" /\ backlog # <<>>
    /\ held' = Head(backlog) /\ backlog' = Tail(backlog)
    /\ worker' = "overlap"
    /\ UNCHANGED <<storage, images, ingress, answers, callerVars, pending, batch, inflight,
                   kernel, barrier, disconnected, doomed, nextEpoch, fileLen,
                   durableEpochs, appliedEpochs, current, history>>

\* materialize: the tail is published, then the tickets get their verdicts.
Materialize ==
    /\ worker = "materialize" /\ ToSet(held.clients) \cap Explosive = {}
    /\ current' = WorldAfter(current, held.clients)
    /\ outcome' = [c \in Clients |->
                     IF c \notin ToSet(held.clients) THEN outcome[c]
                     ELSE IF c \in ToSet(Plan(current, held.clients)) THEN "Accepted"
                     ELSE "Rejected"]
    /\ appliedEpochs' = appliedEpochs + 1 /\ held' = NoEpoch
    /\ worker' = IF inflight = NoEpoch THEN "fill" ELSE "complete"
    /\ UNCHANGED <<storage, images, ingress, receipt, callerVars, pending, batch, backlog,
                   inflight, kernel, barrier, disconnected, doomed, nextEpoch, fileLen,
                   durableEpochs, history>>

Panics == worker = "materialize" /\ ToSet(held.clients) \cap Explosive # {}

MaterializePanics ==
    /\ Panics /\ inflight = NoEpoch
    /\ Returns(receipt, ClientsOf(Append(backlog, held)))
    /\ UNCHANGED <<storage, fileLen, durableEpochs, lame>>

\* The overlapped write is still reaped.
MaterializePanicsFirst ==
    /\ Panics /\ inflight # NoEpoch
    /\ outcome' = [c \in Clients |->
                     IF c \in ToSet(held.clients) THEN "Failed" ELSE outcome[c]]
    /\ held' = NoEpoch /\ doomed' = TRUE
    /\ worker' = "complete"
    /\ UNCHANGED <<storage, images, ingress, receipt, callerVars, pending, batch, backlog,
                   inflight, kernel, barrier, disconnected, nextEpoch, fileLen,
                   durableEpochs, appliedEpochs, current, history>>

\* Fault: the barrier is answered before the backlog is applied.
AnswerEarly ==
    /\ worker = "apply" /\ barrier
    /\ barrier' = FALSE /\ caller' = "answered"
    /\ worker' = "fill"
    /\ UNCHANGED <<storage, images, ingress, answers, mutex, taken, before, calls, pending,
                   batch, backlog, held, inflight, kernel, disconnected, doomed,
                   nextEpoch, fileLen, durableEpochs, appliedEpochs, current, history>>

AnswerBarrier ==
    /\ worker = "apply" /\ backlog = <<>> /\ barrier
    /\ barrier' = FALSE /\ caller' = "answered"
    /\ worker' = "fill"
    /\ UNCHANGED <<storage, images, ingress, answers, mutex, taken, before, calls, pending,
                   batch, backlog, held, inflight, kernel, disconnected, doomed,
                   nextEpoch, fileLen, durableEpochs, appliedEpochs, current, history>>

WorkerEnds ==
    /\ worker = "apply" /\ backlog = <<>> /\ ~barrier /\ disconnected
    /\ Returns(receipt, {})
    /\ UNCHANGED <<storage, fileLen, durableEpochs, lame>>

-----------------------------------------------------------------------------
(* The environment: the kernel's linked write and sync, write-back, crashes. *)

AtOffset(epoch, whole) ==
    SubSeq(file, 1, fileLen) \o <<[Record(epoch) EXCEPT !.whole = whole]>>

KernelWritesPart ==
    /\ kernel = "queued"
    /\ file' = AtOffset(inflight, FALSE)
    /\ kernel' = "part"
    /\ UNCHANGED <<disk, images, ingress, answers, callerVars, worker, pending, batch,
                   backlog, held, inflight, barrier, disconnected, doomed, nextEpoch,
                   fileLen, durableEpochs, appliedEpochs, current, history>>

KernelWrites ==
    /\ kernel \in {"queued", "part"}
    /\ file' = AtOffset(inflight, TRUE)
    /\ kernel' = "written"
    /\ UNCHANGED <<disk, images, ingress, answers, callerVars, worker, pending, batch,
                   backlog, held, inflight, barrier, disconnected, doomed, nextEpoch,
                   fileLen, durableEpochs, appliedEpochs, current, history>>

KernelSyncs ==
    /\ kernel = "written"
    /\ disk' = file
    /\ kernel' = "synced"
    /\ UNCHANGED <<file, images, ingress, answers, callerVars, worker, pending, batch,
                   backlog, held, inflight, barrier, disconnected, doomed, nextEpoch,
                   fileLen, durableEpochs, appliedEpochs, current, history>>

Writeback ==
    /\ \/ disk' \in Writebacks(disk, file) /\ UNCHANGED diskImage
       \/ diskImage' = image /\ UNCHANGED disk
    /\ UNCHANGED <<file, image, ingress, answers, callerVars, worker, workerVars, history>>

\* Tickets without an answer are lost with the process.
Crash ==
    /\ worker # "down" /\ crashes < MaxCrashes
    /\ crashes' = crashes + 1
    /\ outcome' = [c \in Clients |->
                     IF client[c] = "ticket" /\ outcome[c] = "None" THEN "Lost"
                                                                   ELSE outcome[c]]
    /\ sender' = FALSE /\ queue' = <<>>
    /\ mutex' = FALSE /\ caller' = "idle" /\ taken' = NoImage /\ before' = {}
    /\ worker' = "down" /\ pending' = <<>> /\ batch' = <<>> /\ backlog' = <<>>
    /\ held' = NoEpoch /\ inflight' = NoEpoch /\ kernel' = "none"
    /\ barrier' = FALSE /\ disconnected' = FALSE /\ doomed' = FALSE
    /\ nextEpoch' = 0 /\ fileLen' = 0 /\ durableEpochs' = 0 /\ appliedEpochs' = 0
    /\ current' = <<>>
    /\ raced' = FALSE
    /\ UNCHANGED <<client, receipt, calls, admitted, lame, misled>>

ProcessExit == Crash /\ UNCHANGED <<storage, images>>

PowerLoss ==
    /\ Crash
    /\ file' = disk /\ image' = diskImage
    /\ UNCHANGED <<disk, diskImage>>

-----------------------------------------------------------------------------

Open == OpenFromImage \/ OpenClean \/ OpenTruncate \/ OpenSync \/ Replay

Users == (\E c \in Clients : Submit(c)) \/ SubmitEpoch \/ Shutdown

Caller == FlushLock \/ FlushSend \/ FlushReturns \/ FlushStopped

Snapshot == CallEnds \/ SnapshotWorld \/ SnapshotJournal \/ SnapshotRename \/ SnapshotSync

Worker ==
    \/ TakeCommand \/ NoCommand \/ Claim \/ ClaimSetsAside \/ ClaimEnds
    \/ SubmitAdmission \/ Complete \/ CompleteDoomed \/ RepairTruncate \/ RepairSync
    \/ PopDurable \/ Materialize \/ MaterializePanics \/ MaterializePanicsFirst
    \/ AnswerBarrier \/ WorkerEnds

Failure == SubmissionFails \/ CompleteFails \/ RepairFails

Kernel == KernelWritesPart \/ KernelWrites \/ KernelSyncs

Next == Open \/ Users \/ Caller \/ Snapshot \/ Worker \/ Failure \/ Kernel
            \/ Writeback \/ ProcessExit \/ PowerLoss

\* Nobody need submit, crash or fail; the worker's thread runs and the kernel
\* completes what it was given.
Fairness == WF_vars(Worker) /\ WF_vars(KernelWrites) /\ WF_vars(KernelSyncs)

Spec == Init /\ [][Next]_vars /\ Fairness

-----------------------------------------------------------------------------
(* Properties.                                                               *)

\* A receipt says that the intent and its epoch boundary are in the durable
\* journal, and they stay there whatever fails and crashes afterwards, until open
\* adopts an image whose snapshot was raced; a refused admission is in no journal
\* a later open can find, unless the error said that its repair failed.
ReceiptsAreTruthful == ~misled =>
    \A c \in Clients : \A f \in {file, disk} :
        /\ receipt[c] = Err => lame \/ c \notin ClientsOf(f)
        /\ receipt[c] \notin {None, Err} =>
            LET e == receipt[c][1] IN
                /\ e <= Len(f) /\ f[e].whole /\ f[e].id = e
                /\ receipt[c][2] <= Len(f[e].clients)
                /\ f[e].clients[receipt[c][2]] = c

\* c entered the channel before d.
Precedes(c, d) ==
    \E x, y \in DOMAIN admitted : x < y /\ admitted[x] = c /\ admitted[y] = d

Apart(A, B) == \A c \in A, d \in B : Precedes(c, d)

Chronological(clients) ==
    \A i, j \in DOMAIN clients : i < j => Precedes(clients[i], clients[j])

\* The clients of a sequence of epochs, in the order they entered the channel.
InOrder(epochs) ==
    /\ \A i \in DOMAIN epochs : Chronological(epochs[i].clients)
    /\ \A i, j \in DOMAIN epochs :
          i < j => Apart(ToSet(epochs[i].clients), ToSet(epochs[j].clients))

\* Whatever fails or crashes, and even when a repair fails, until open adopts an
\* image whose snapshot was raced, recover_journal can read the journal: only the
\* last record is torn and the epoch numbers are consecutive.  And the journal keeps
\* the order in which commands entered the channel, although batches, put-aside
\* commands, overlapped writes and restarts lie in between.
JournalRecoverable == ~misled =>
    \A f \in {file, disk} : SoundJournal(f) /\ InOrder(f)

\* The published world is the semantic projection of the applied prefix of the
\* journal, whatever open it came from.  write_mmap_snapshot's comment promises it
\* without a condition: the journal remains authoritative, stale images are ignored.
\* The code does not keep that promise: an epoch sent between the snapshot's reads
\* is in the digest and not in the world.
JournalIsAuthoritative == Alive => current = Projection(SubSeq(file, 1, appliedEpochs))

\* It holds, live and after recovery, by replay or from an image, until open
\* adopts an image whose snapshot was raced: an image taken while nobody submitted
\* is never believed of another journal, whatever was written, repaired or lost
\* since.
WorldIsProjection == ~misled => JournalIsAuthoritative

\* A verdict a ticket received is the one every later replay of the durable
\* journal reaches, until open adopts an image whose snapshot was raced.
VerdictsSurvive == ~misled =>
    \A c \in Clients : \A f \in {file, disk} :
        LET journaled == c \in ClientsOf(GoodPrefix(f))
            accepted == c \in Facts(Projection(GoodPrefix(f)))
        IN  /\ outcome[c] = "Accepted" => accepted
            /\ outcome[c] = "Rejected" => journaled /\ ~accepted

\* When flush returns Ok, every command that entered the channel before its
\* barrier has been evaluated and answered.
FlushWaits ==
    caller \in {"answered", "flushed"} => \A c \in before : outcome[c] # "None"

\* Every ticket is answered: with a verdict, a failure, or by its channel closing.
\* A ticket stays one and an outcome stays known, so this is said of all at once.
TicketsResolve ==
    []<>(\A c \in Clients : client[c] = "ticket" => outcome[c] # "None")

=============================================================================
