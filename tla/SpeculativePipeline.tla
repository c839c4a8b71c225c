--------------------------- MODULE SpeculativePipeline ---------------------------
(***************************************************************************)
(* The speculative committer of file_epoch_controller.rs over the io_uring *)
(* transport: while the kernel writes and syncs one epoch, the committer   *)
(* claims the next batch and derives it from a world that is not durable   *)
(* yet.                                                                    *)
(*                                                                         *)
(* Submitting, flushing and shutting down are single steps here: how their *)
(* steps interleave is the subject of DurableController, whose handle this *)
(* committer shares.  A world is the sequence of the intents it contains;  *)
(* an intent is accepted when the world it is evaluated on contains what   *)
(* it needs (what a precondition sees of that world is the subject of      *)
(* Database), and some intents make a validator panic.                     *)
(***************************************************************************)
EXTENDS Integers, Sequences, FiniteSets, SequencesExt

CONSTANTS
    Clients,     \* one intent each
    Flushers,    \* callers of flush
    Needs,       \* Needs[c]: the intents c's predecessor must contain
    Panics,      \* intents a validator panics on
    Foreign,     \* transactions another writer of the database may commit
    Capacity,    \* places of the channel
    MaxBatch     \* most intents of one epoch

ASSUME PipelineAssumption ==
    /\ Clients \cap Flushers = {} /\ Foreign \cap (Clients \cup Flushers) = {}
    /\ Needs \in [Clients -> SUBSET (Clients \cup Foreign)] /\ Panics \subseteq Clients
    /\ Capacity \in Nat \ {0} /\ MaxBatch \in Nat \ {0}

VARIABLES
    state,      \* DurableControllerState
    queue,      \* commands in the channel
    pending,    \* barriers the committer set aside
    worker,     \* where the committer is
    claimed,    \* the batch it is claiming
    purpose,    \* what for: "first", "next" or "successor"
    prepared,   \* the epoch being committed
    successor,  \* the epoch derived ahead of it
    io,         \* the submitted write and sync, and their completions
    store,      \* "Healthy" or "Poisoned"
    file,       \* what the file durably holds
    current,    \* the published world
    outcome,    \* outcome[c]: what c's ticket got
    basis,      \* history: the world c's epoch was derived on
    flush,      \* flush[f]: "ready", "waiting", "ok" or "stopped"
    before,     \* history: intents sent ahead of f's barrier
    sent        \* history: intents in the order they were sent

worldVars == <<store, file, current>>
workVars == <<claimed, purpose, prepared, successor, io>>
callVars == <<outcome, basis, flush>>
historyVars == <<before, sent>>
vars == <<state, queue, pending, worker, workVars, worldVars, callVars, historyVars>>

NoEpoch == [batch |-> <<>>, base |-> <<>>, tail |-> <<>>, panicked |-> FALSE]
NoIo == [at |-> "idle", cqes |-> <<>>]

Init ==
    /\ state = "Running" /\ queue = <<>> /\ pending = <<>>
    /\ worker = "recv" /\ claimed = <<>> /\ purpose = "first"
    /\ prepared = NoEpoch /\ successor = NoEpoch /\ io = NoIo
    /\ store = "Healthy" /\ file = <<>> /\ current = <<>>
    /\ outcome = [c \in Clients |-> "none"]
    /\ basis = [c \in Clients |-> <<>>]
    /\ flush = [f \in Flushers |-> "ready"]
    /\ before = [f \in Flushers |-> {}]
    /\ sent = <<>>

-----------------------------------------------------------------------------
(* Callers.                                                                  *)

Submit(c) ==
    /\ outcome[c] = "none" /\ state = "Running" /\ Len(queue) < Capacity
    /\ queue' = Append(queue, c)
    /\ outcome' = [outcome EXCEPT ![c] = "queued"]
    /\ sent' = Append(sent, c)
    /\ UNCHANGED <<state, pending, worker, workVars, worldVars, basis, flush, before>>

Flush(f) ==
    /\ flush[f] = "ready" /\ state = "Running" /\ Len(queue) < Capacity
    /\ queue' = Append(queue, f)
    /\ flush' = [flush EXCEPT ![f] = "waiting"]
    /\ before' = [before EXCEPT ![f] = Range(sent)]
    /\ UNCHANGED <<state, pending, worker, workVars, worldVars, outcome, basis, sent>>

Shutdown ==
    /\ state = "Running"
    /\ state' = "Draining"
    /\ UNCHANGED <<queue, pending, worker, workVars, worldVars, callVars, historyVars>>

\* The commit lock is held by the committer from the first derivation of a
\* pipeline to its end; another writer commits between two pipelines.
StrictCommit(w) ==
    /\ worker \in {"recv", "claim", "done"} /\ (worker = "claim" => purpose = "first")
    /\ w \notin Range(current) /\ store = "Healthy"
    /\ file' = Append(file, w)
    /\ current' = Append(current, w)
    /\ UNCHANGED <<state, queue, pending, worker, workVars, store, callVars, historyVars>>

-----------------------------------------------------------------------------
(* run_speculative_io_uring_worker_loop.                                     *)

\* Everything not claimed is refused, and the committer ends.
Drain(results) ==
    /\ outcome' = [c \in Clients |-> IF c \in Range(queue) THEN "stopped" ELSE results[c]]
    /\ flush' = [f \in Flushers |-> IF f \in Range(queue \o pending) THEN "stopped" ELSE flush[f]]
    /\ queue' = <<>> /\ pending' = <<>>
    /\ worker' = "done"

ReceiveBarrier ==
    /\ worker = "recv" /\ state = "Running"
    /\ \E f \in Flushers :
        /\ \/ pending # <<>> /\ f = Head(pending) /\ pending' = Tail(pending) /\ UNCHANGED queue
           \/ pending = <<>> /\ queue # <<>> /\ f = Head(queue) /\ queue' = Tail(queue)
              /\ UNCHANGED pending
        /\ flush' = [flush EXCEPT ![f] = "ok"]
    /\ UNCHANGED <<state, worker, workVars, worldVars, outcome, basis, historyVars>>

ReceiveIntent ==
    /\ worker = "recv" /\ state = "Running" /\ pending = <<>>
    /\ queue # <<>> /\ Head(queue) \in Clients
    /\ claimed' = <<Head(queue)>> /\ queue' = Tail(queue)
    /\ purpose' = "first" /\ worker' = "claim"
    /\ UNCHANGED <<state, pending, prepared, successor, io, worldVars, callVars, historyVars>>

\* A command received after Running has ended, or a closed empty channel.
Stop ==
    /\ worker = "recv" /\ state # "Running"
    /\ Drain(outcome)
    /\ state' = IF state = "Draining" THEN "Closed" ELSE state
    /\ UNCHANGED <<workVars, worldVars, basis, historyVars>>

\* claim_batch takes one more intent, or sets a barrier aside.
ClaimMore ==
    /\ worker = "claim" /\ state = "Running" /\ claimed # <<>> /\ Len(claimed) < MaxBatch
    /\ queue # <<>> /\ Head(queue) \in Clients
    /\ claimed' = Append(claimed, Head(queue)) /\ queue' = Tail(queue)
    /\ UNCHANGED <<state, pending, worker, purpose, prepared, successor, io, worldVars,
                   callVars, historyVars>>

\* Fault: the barrier is answered though epochs are under way.
ClaimBarrierAnswers ==
    /\ worker = "claim" /\ state = "Running" /\ Len(claimed) < MaxBatch
    /\ queue # <<>> /\ Head(queue) \in Flushers
    /\ flush' = [flush EXCEPT ![Head(queue)] = "ok"] /\ queue' = Tail(queue)
    /\ worker' = "derive"
    /\ UNCHANGED <<state, pending, workVars, worldVars, outcome, basis, historyVars>>

ClaimBarrier ==
    /\ worker = "claim" /\ state = "Running" /\ Len(claimed) < MaxBatch
    /\ queue # <<>> /\ Head(queue) \in Flushers
    /\ pending' = Append(pending, Head(queue)) /\ queue' = Tail(queue)
    /\ worker' = "derive"
    /\ UNCHANGED <<state, workVars, worldVars, callVars, historyVars>>

ClaimEnds ==
    /\ worker = "claim"
    /\ state # "Running" \/ Len(claimed) = MaxBatch \/ queue = <<>>
    /\ worker' = "derive"
    /\ UNCHANGED <<state, queue, pending, workVars, worldVars, callVars, historyVars>>

\* try_claim_successor_batch, after an empty epoch or during a write.
ClaimFirst ==
    /\ worker = "claim" /\ purpose # "first" /\ claimed = <<>> /\ state = "Running"
    /\ queue # <<>> /\ Head(queue) \in Clients
    /\ claimed' = <<Head(queue)>> /\ queue' = Tail(queue)
    /\ UNCHANGED <<state, pending, worker, purpose, prepared, successor, io, worldVars,
                   callVars, historyVars>>

-----------------------------------------------------------------------------
(* process_speculative_pipeline.                                             *)

\* The places, in order, of the intents of a batch that are accepted on base: those
\* whose needs are met by base and the intents accepted before them.  There is one
\* such sequence.
Accepted(batch, base) ==
    {places \in UNION {[1..n -> DOMAIN batch] : n \in 0..Len(batch)} :
        /\ \A j, k \in DOMAIN places : j < k => places[j] < places[k]
        /\ \A i \in DOMAIN batch :
             i \in Range(places)
                <=> Needs[batch[i]] \subseteq
                        Range(base) \cup {batch[k] : k \in Range(places) \cap 1..(i - 1)}}

\* derive_prepared_batch: the one epoch it makes of a batch, as a set.  An intent
\* that is refused never reaches a validator.
DerivePrepared(batch, base) ==
    {[batch |-> batch, base |-> base,
      tail |-> base \o [k \in DOMAIN places |-> batch[places[k]]],
      panicked |-> \E k \in DOMAIN places : batch[places[k]] \in Panics] :
        places \in Accepted(batch, base)}

\* How the tickets of an epoch are answered; told is what accepted ones get.
Routed(epoch, told) ==
    [c \in Clients |-> IF c \notin Range(epoch.batch) THEN outcome[c]
                       ELSE IF c \in Range(epoch.tail) THEN told ELSE "rejected"]

Stopped(epoch) ==
    [c \in Clients |-> IF c \in Range(epoch.batch) THEN "stopped" ELSE outcome[c]]

Based(epoch) == [c \in Clients |-> IF c \in Range(epoch.batch) THEN epoch.base ELSE basis[c]]

\* An epoch whose derivation panicked poisons the controller and the store.
Fail(epoch) ==
    /\ Drain(Stopped(epoch))
    /\ state' = "Poisoned" /\ store' = "Poisoned"
    /\ prepared' = NoEpoch /\ successor' = NoEpoch /\ claimed' = <<>>

DeriveFirst ==
    /\ worker = "derive" /\ purpose # "successor" /\ claimed # <<>>
    /\ \E epoch \in DerivePrepared(claimed, current) :
         IF epoch.panicked
         THEN Fail(epoch)
         ELSE /\ prepared' = epoch /\ claimed' = <<>> /\ worker' = "top"
              /\ UNCHANGED <<state, queue, pending, successor, store, outcome, flush>>
    /\ UNCHANGED <<purpose, io, file, current, basis, historyVars>>

\* No batch followed an empty epoch: the pipeline ends.
NothingFollows ==
    /\ worker = "derive" /\ purpose = "next" /\ claimed = <<>>
    /\ worker' = "recv"
    /\ UNCHANGED <<state, queue, pending, workVars, worldVars, callVars, historyVars>>

\* publish_and_route_success of an epoch that accepted nothing.
PublishEmpty ==
    /\ worker = "top" /\ prepared.tail = prepared.base
    /\ current' = prepared.tail
    /\ outcome' = Routed(prepared, "accepted") /\ basis' = Based(prepared)
    /\ prepared' = NoEpoch /\ purpose' = "next" /\ worker' = "claim"
    /\ UNCHANGED <<state, queue, pending, claimed, successor, io, store, file, flush, historyVars>>

\* finish_failed_batch, after which the pipeline returns.
FinishFailed ==
    /\ outcome' = Routed(prepared, "failed") /\ basis' = Based(prepared)
    /\ prepared' = NoEpoch /\ worker' = "recv"
    /\ UNCHANGED <<state, queue, pending, claimed, purpose, successor, io, current, flush,
                   historyVars>>

\* prepare_epoch refuses: the store is poisoned or the epoch does not extend it.
PrepareFails ==
    /\ worker = "top" /\ prepared.tail # prepared.base
    /\ store = "Poisoned" \/ prepared.base # current
    /\ FinishFailed /\ UNCHANGED <<store, file>>

Prepared ==
    /\ worker = "top" /\ prepared.tail # prepared.base
    /\ store = "Healthy" /\ prepared.base = current

\* submit_contiguous_epoch fails: the store repairs, or cannot.
SubmitFails ==
    /\ Prepared
    /\ FinishFailed
    /\ store' \in {"Healthy", "Poisoned"} /\ UNCHANGED file

SubmitEpoch ==
    /\ Prepared
    /\ io' = [at |-> "submitted", cqes |-> <<>>]
    /\ purpose' = "successor" /\ worker' = "claim"
    /\ UNCHANGED <<state, queue, pending, claimed, prepared, successor, worldVars, callVars,
                   historyVars>>

\* The successor is derived from the tail that is being written.
DeriveSuccessor ==
    /\ worker = "derive" /\ purpose = "successor"
    /\ successor' \in IF claimed = <<>> THEN {NoEpoch}
                      ELSE DerivePrepared(claimed, prepared.tail)
    /\ claimed' = <<>> /\ worker' = "wait"
    /\ UNCHANGED <<state, queue, pending, purpose, prepared, io, worldVars, callVars, historyVars>>

-----------------------------------------------------------------------------
(* The ring.  The write has Length units; the sync is linked to it and is     *)
(* cancelled unless the write was whole.                                     *)

Length == 2
Canceled == -125
IoError == -5

\* External: what the kernel makes of the submitted pair.
KernelCompletes ==
    /\ io.at = "submitted"
    /\ \E write \in {Length, Length - 1, IoError}, sync \in {0, IoError} :
        LET fsync == IF write = Length THEN sync ELSE Canceled
        IN  /\ io' = [at |-> "done", cqes |-> <<[of |-> "write", result |-> write],
                                               [of |-> "fsync", result |-> fsync]>>]
            /\ file' \in IF write # Length THEN {file}
                         ELSE IF fsync = 0 THEN {prepared.tail}
                         ELSE {file, prepared.tail}
    /\ UNCHANGED <<state, queue, pending, worker, claimed, purpose, prepared, successor, store,
                   current, callVars, historyVars>>

\* Fault: a short write counts as one.
CompletionsAcceptShort(cqes) ==
    /\ Len(cqes) = 2
    /\ \A kind \in {"write", "fsync"} : Cardinality({i \in DOMAIN cqes : cqes[i].of = kind}) = 1
    /\ \A i \in DOMAIN cqes : cqes[i].of = "write" => cqes[i].result >= 0
    /\ \A i \in DOMAIN cqes : cqes[i].of = "fsync" => cqes[i].result \in {0, Canceled}

\* validate_completion_batch: one whole write and one successful sync, in any
\* order.
ValidateCompletions(cqes) ==
    /\ Len(cqes) = 2
    /\ \A kind \in {"write", "fsync"} : Cardinality({i \in DOMAIN cqes : cqes[i].of = kind}) = 1
    /\ \A i \in DOMAIN cqes : cqes[i].of = "write" => cqes[i].result = Length
    /\ \A i \in DOMAIN cqes : cqes[i].of = "fsync" => cqes[i].result = 0

\* The epoch is durable and published.
CompleteSucceeds ==
    /\ worker = "wait" /\ io.at = "done" /\ ValidateCompletions(io.cqes)
    /\ current' = prepared.tail
    /\ outcome' = Routed(prepared, "accepted") /\ basis' = Based(prepared)
    /\ prepared' = NoEpoch /\ io' = NoIo /\ worker' = "persisted"
    /\ UNCHANGED <<state, queue, pending, claimed, purpose, successor, store, file, flush,
                   historyVars>>

\* The file is truncated to where the epoch began, or the store is poisoned.
CompleteFails ==
    /\ worker = "wait" /\ io.at = "done" /\ ~ValidateCompletions(io.cqes)
    /\ \/ store' = "Healthy" /\ file' = current
       \/ store' = "Poisoned" /\ UNCHANGED file
    /\ outcome' = Routed(prepared, "failed") /\ basis' = Based(prepared)
    /\ prepared' = NoEpoch /\ io' = NoIo /\ worker' = "repaired"
    /\ UNCHANGED <<state, queue, pending, claimed, purpose, successor, current, flush, historyVars>>

\* The pipeline goes on with the epoch next, if there is one.
Proceed(next) ==
    /\ IF next.batch = <<>>
       THEN worker' = "recv" /\ UNCHANGED <<state, queue, pending, claimed, prepared, successor,
                                            store, outcome, flush>>
       ELSE IF next.panicked THEN Fail(next)
       ELSE /\ prepared' = next /\ successor' = NoEpoch /\ worker' = "top"
            /\ UNCHANGED <<state, queue, pending, claimed, store, outcome, flush>>
    /\ UNCHANGED <<purpose, io, file, current, basis, historyVars>>

\* Fault: the successor of a failed epoch is committed as it is.
ContinueStale == worker \in {"persisted", "repaired"} /\ Proceed(successor)

\* Fault: the successor of a failed epoch is forgotten.
ContinueForgets ==
    /\ worker \in {"persisted", "repaired"}
    /\ Proceed(IF worker = "persisted" THEN successor ELSE NoEpoch)

\* The successor is next; after a failed epoch it is derived anew, from the
\* published head, unless its derivation panicked.
Continue ==
    /\ worker \in {"persisted", "repaired"}
    /\ \E next \in IF worker = "persisted" \/ successor.panicked THEN {successor}
                   ELSE DerivePrepared(successor.batch, current) : Proceed(next)

-----------------------------------------------------------------------------

Worker ==
    \/ ReceiveBarrier \/ ReceiveIntent \/ Stop
    \/ ClaimFirst \/ ClaimMore \/ ClaimBarrier \/ ClaimEnds
    \/ DeriveFirst \/ NothingFollows \/ PublishEmpty
    \/ PrepareFails \/ SubmitFails \/ SubmitEpoch \/ DeriveSuccessor
    \/ CompleteSucceeds \/ CompleteFails \/ Continue

Next ==
    \/ \E c \in Clients : Submit(c)
    \/ \E f \in Flushers : Flush(f)
    \/ \E w \in Foreign : StrictCommit(w)
    \/ Shutdown \/ KernelCompletes \/ Worker

\* The committer runs when it can, and the kernel completes what it was given.
Spec == Init /\ [][Next]_vars /\ WF_vars(Worker) /\ WF_vars(KernelCompletes)

-----------------------------------------------------------------------------
(* Properties.                                                               *)

\* Readers never see a world that is not durable: whatever the ring reported,
\* and however far ahead the committer derived, the published world is in the
\* file; and the file holds nothing more, except for an epoch in flight or one
\* a poisoned store could not take back.
PublishedIsDurable ==
    /\ IsPrefix(current, file)
    /\ file = current \/ io.at = "done" \/ worker = "wait" \/ store = "Poisoned"

\* No ticket is answered from a world that never was: every verdict, rejections
\* included, comes from an epoch derived on a published world; an accepted
\* intent is in the published world and a failed or stopped one is not.
VerdictsFromPublished ==
    \A c \in Clients :
        /\ outcome[c] \in {"accepted", "rejected", "failed"} => IsPrefix(basis[c], current)
        /\ outcome[c] = "accepted" <=> c \in Range(current)

\* Batches are claimed ahead of barriers that were set aside, yet the epochs
\* keep the order in which the intents were sent, and a flush that succeeds
\* comes after every intent sent before it was answered.
OrderAndBarriers ==
    /\ \A i, j \in DOMAIN current :
         i <= j /\ {current[i], current[j]} \subseteq Clients =>
             \E k, l \in DOMAIN sent :
                 sent[k] = current[i] /\ sent[l] = current[j] /\ (i < j => k < l)
    /\ \A f \in Flushers : flush[f] = "ok" => \A c \in before[f] : outcome[c] # "queued"

\* Every intent and every flush is answered in the end, through failed writes,
\* panics and shutdown, while another epoch may always be under way.
EverythingAnswered ==
    /\ \A c \in Clients : outcome[c] = "queued" ~> outcome[c] # "queued"
    /\ \A f \in Flushers : flush[f] = "waiting" ~> flush[f] # "waiting"
=============================================================================
