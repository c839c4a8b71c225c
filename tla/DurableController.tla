-------------------------- MODULE DurableController -------------------------
(***************************************************************************)
(* DurableQueuedIntentController of file_epoch_controller.rs: submitters,  *)
(* flushers, a shutdown caller and the committer thread around one bounded *)
(* channel, one mutex over its sender and one atomic lifecycle state.      *)
(*                                                                         *)
(* Every client submits one intent and is the name of its ticket.  A queue *)
(* entry is the client of an Intent or the flusher of a Barrier.  Where a  *)
(* batch is sealed is left open, which covers ImmediateDrain, Coalesce and *)
(* Adaptive.  The semantic verdict on an intent is an arbitrary choice;    *)
(* the store is seen through the result of append_epoch.                   *)
(***************************************************************************)
EXTENDS Naturals, Sequences, FiniteSets

CONSTANTS
    Clients,     \* submitting threads, and their tickets
    Flushers,    \* threads that call flush once
    Capacity,    \* of the channel and of the ingress reservation
    MaxBatch     \* most intents one epoch may claim

ASSUME ControllerAssumption ==
    /\ IsFiniteSet(Clients)
    /\ Clients \cap Flushers = {}
    /\ Capacity \in Nat \ {0}
    /\ MaxBatch \in Nat \ {0}

VARIABLES
    state,       \* DurableControllerState
    sender,      \* TRUE while the controller's SyncSender is Some
    mutex,       \* the client holding the sender mutex, or Free
    queue,       \* commands in the channel
    receiver,    \* TRUE until the committer drops its Receiver
    depth,       \* queue_depth, the ingress reservations
    client,      \* client[c]: "ready", "checked", "ticket" or "refused"
    phase,       \* phase[c]: DurableTicketPhase, "None" before admission
    outcome,     \* outcome[c]: what was sent to the ticket, or "None"
    flush,       \* flush[f]: "ready", "sending", "waiting", "ok" or "stopped"
    shut,        \* where the shutdown call is
    previous,    \* the state shutdown_internal read first
    worker,      \* where the committer is
    command,     \* the command it holds, or None
    pending,     \* commands it took from the channel and put aside
    batch,       \* clients it has claimed
    accepted,    \* those of them the plan accepted
    reason,      \* why it drains: "Shutdown" or "WorkerFailed"
    store,       \* "Healthy" or "Poisoned"
    durable,     \* clients whose frames the file holds, in order
    published,   \* clients whose frames the reader head includes, in order
    lease,       \* TRUE while the writer lease is held
    admitted,    \* history: clients in the order they entered the channel
    late,        \* history: clients that entered it after Running had ended
    before,      \* history: clients admitted ahead of flusher f's barrier
    panicked     \* history: an epoch panicked

workerVars == <<worker, command, pending, batch, accepted, reason>>
worldVars == <<store, durable, published>>
historyVars == <<admitted, late, before, panicked>>
vars == <<state, sender, mutex, queue, receiver, depth, client, phase, outcome,
          flush, shut, previous, worker, command, pending, batch, accepted,
          reason, store, durable, published, lease, admitted, late, before,
          panicked>>

Free == "free"
None == "none"

Elems(s) == {s[i] : i \in 1..Len(s)}

Init ==
    /\ state = "Running" /\ sender = TRUE /\ mutex = Free
    /\ queue = <<>> /\ receiver = TRUE /\ depth = 0
    /\ client = [c \in Clients |-> "ready"]
    /\ phase = [c \in Clients |-> "None"]
    /\ outcome = [c \in Clients |-> "None"]
    /\ flush = [f \in Flushers |-> "ready"]
    /\ shut = "ready" /\ previous = "Running"
    /\ worker = "recv" /\ command = None /\ pending = <<>>
    /\ batch = <<>> /\ accepted = {} /\ reason = "Shutdown"
    /\ store = "Healthy" /\ durable = <<>> /\ published = <<>>
    /\ lease = TRUE
    /\ admitted = <<>> /\ late = {} /\ panicked = FALSE
    /\ before = [f \in Flushers |-> {}]

-----------------------------------------------------------------------------
(* submit.  The sender mutex is held from the check to the try_send; the      *)
(* state it read is not protected by that mutex.                              *)

SubmitCheck(c) ==
    /\ client[c] = "ready" /\ mutex = Free
    /\ state = "Running" /\ sender
    /\ mutex' = c
    /\ client' = [client EXCEPT ![c] = "checked"]
    /\ UNCHANGED <<state, sender, queue, receiver, depth, phase, outcome, flush,
                   shut, previous, workerVars, worldVars, lease, historyVars>>

SubmitRefused(c) ==
    /\ client[c] = "ready" /\ mutex = Free
    /\ state # "Running" \/ ~sender
    /\ client' = [client EXCEPT ![c] = "refused"]
    /\ UNCHANGED <<state, sender, mutex, queue, receiver, depth, phase, outcome,
                   flush, shut, previous, workerVars, worldVars, lease, historyVars>>

HasRoom == depth < Capacity /\ Len(queue) < Capacity

SubmitSend(c) ==
    /\ client[c] = "checked" /\ mutex = c
    /\ receiver /\ HasRoom
    /\ queue' = Append(queue, c)
    /\ depth' = depth + 1
    /\ phase' = [phase EXCEPT ![c] = "Queued"]
    /\ client' = [client EXCEPT ![c] = "ticket"]
    /\ mutex' = Free
    /\ admitted' = Append(admitted, c)
    /\ late' = IF state = "Running" THEN late ELSE late \cup {c}
    /\ UNCHANGED <<state, sender, receiver, outcome, flush, shut, previous,
                   workerVars, worldVars, lease, before, panicked>>

\* No reservation, or a channel full of barriers: the caller keeps its intent.
SubmitFull(c) ==
    /\ client[c] = "checked" /\ mutex = c
    /\ depth >= Capacity \/ (receiver /\ Len(queue) >= Capacity)
    /\ client' = [client EXCEPT ![c] = "refused"]
    /\ mutex' = Free
    /\ UNCHANGED <<state, sender, queue, receiver, depth, phase, outcome, flush,
                   shut, previous, workerVars, worldVars, lease, historyVars>>

\* The committer is gone although the state said Running: poison.
SubmitDisconnected(c) ==
    /\ client[c] = "checked" /\ mutex = c
    /\ ~receiver /\ depth < Capacity
    /\ state' = "Poisoned"
    /\ client' = [client EXCEPT ![c] = "refused"]
    /\ mutex' = Free
    /\ UNCHANGED <<sender, queue, receiver, depth, phase, outcome, flush,
                   shut, previous, workerVars, worldVars, lease, historyVars>>

Submit(c) ==
    \/ SubmitCheck(c) \/ SubmitRefused(c) \/ SubmitSend(c)
    \/ SubmitFull(c) \/ SubmitDisconnected(c)

-----------------------------------------------------------------------------
(* flush: the sender is cloned under the mutex, the blocking send and the     *)
(* wait happen outside it.                                                    *)

FlushClone(f) ==
    /\ flush[f] = "ready" /\ mutex = Free
    /\ flush' = [flush EXCEPT ![f] = IF state = "Running" /\ sender
                                     THEN "sending" ELSE "stopped"]
    /\ UNCHANGED <<state, sender, mutex, queue, receiver, depth, client, phase,
                   outcome, shut, previous, workerVars, worldVars, lease, historyVars>>

FlushSend(f) ==
    /\ flush[f] = "sending"
    /\ receiver /\ Len(queue) < Capacity
    /\ queue' = Append(queue, f)
    /\ before' = [before EXCEPT ![f] = Elems(admitted)]
    /\ flush' = [flush EXCEPT ![f] = "waiting"]
    /\ UNCHANGED <<state, sender, mutex, receiver, depth, client, phase, outcome,
                   shut, previous, workerVars, worldVars, lease, admitted, late, panicked>>

FlushDisconnected(f) ==
    /\ flush[f] = "sending" /\ ~receiver
    /\ flush' = [flush EXCEPT ![f] = "stopped"]
    /\ UNCHANGED <<state, sender, mutex, queue, receiver, depth, client, phase,
                   outcome, shut, previous, workerVars, worldVars, lease, historyVars>>

Flush(f) == FlushClone(f) \/ FlushSend(f) \/ FlushDisconnected(f)

\* The channel has no sender left: not the controller's, not a flusher's clone.
Disconnected ==
    ~sender /\ \A f \in Flushers : flush[f] \notin {"sending", "waiting"}

-----------------------------------------------------------------------------
(* shutdown_internal.  The state is read, and stored, in two steps.           *)

ShutdownRead ==
    /\ shut = "ready"
    /\ previous' = state
    /\ shut' = "read"
    /\ UNCHANGED <<state, sender, mutex, queue, receiver, depth, client, phase,
                   outcome, flush, workerVars, worldVars, lease, historyVars>>

ShutdownDrain ==
    /\ shut = "read"
    /\ state' = IF previous = "Running" THEN "Draining" ELSE state
    /\ shut' = "draining"
    /\ UNCHANGED <<sender, mutex, queue, receiver, depth, client, phase, outcome,
                   flush, previous, workerVars, worldVars, lease, historyVars>>

\* Fault: shutdown joins the committer without closing the channel.
ShutdownKeepsSender ==
    /\ shut = "draining" /\ mutex = Free
    /\ shut' = "joining"
    /\ UNCHANGED <<state, sender, mutex, queue, receiver, depth, client, phase,
                   outcome, flush, previous, workerVars, worldVars, lease, historyVars>>

ShutdownTakeSender ==
    /\ shut = "draining" /\ mutex = Free
    /\ sender' = FALSE
    /\ shut' = "joining"
    /\ UNCHANGED <<state, mutex, queue, receiver, depth, client, phase, outcome,
                   flush, previous, workerVars, worldVars, lease, historyVars>>

ShutdownJoin ==
    /\ shut = "joining" /\ worker = "done"
    /\ state' = IF state = "Draining" THEN "Closed" ELSE state
    /\ lease' = FALSE
    /\ shut' = "done"
    /\ UNCHANGED <<sender, mutex, queue, receiver, depth, client, phase, outcome,
                   flush, previous, workerVars, worldVars, historyVars>>

Shutdown == ShutdownRead \/ ShutdownDrain \/ ShutdownTakeSender \/ ShutdownJoin

-----------------------------------------------------------------------------
(* The committer: run_durable_worker_loop.                                    *)

\* The next command, set aside or from the channel.
Receive ==
    /\ worker = "recv"
    /\ \/ /\ pending # <<>>
          /\ command' = Head(pending) /\ pending' = Tail(pending)
          /\ UNCHANGED queue
       \/ /\ pending = <<>> /\ queue # <<>>
          /\ command' = Head(queue) /\ queue' = Tail(queue)
          /\ UNCHANGED pending
    /\ worker' = "check"
    /\ UNCHANGED <<state, sender, mutex, receiver, depth, client, phase, outcome,
                   flush, shut, previous, batch, accepted, reason, worldVars,
                   lease, historyVars>>

ReceiveDisconnected ==
    /\ worker = "recv"
    /\ pending = <<>> /\ queue = <<>> /\ Disconnected
    /\ worker' = "exit"
    /\ UNCHANGED <<state, sender, mutex, queue, receiver, depth, client, phase,
                   outcome, flush, shut, previous, command, pending, batch,
                   accepted, reason, worldVars, lease, historyVars>>

\* claim: the reservation is returned and the ticket becomes Claimed.
Claim(c) ==
    /\ depth' = depth - 1
    /\ phase' = [phase EXCEPT ![c] = "Claimed"]
    /\ batch' = Append(batch, c)

StartBatch ==
    /\ worker = "check" /\ state = "Running"
    /\ command \in Clients
    /\ Claim(command)
    /\ command' = None
    /\ worker' = "collect"
    /\ UNCHANGED <<state, sender, mutex, queue, receiver, client, outcome, flush,
                   shut, previous, pending, accepted, reason, worldVars, lease,
                   historyVars>>

AnswerBarrier ==
    /\ worker = "check" /\ state = "Running"
    /\ command \in Flushers
    /\ flush' = [flush EXCEPT ![command] = "ok"]
    /\ command' = None
    /\ worker' = "recv"
    /\ UNCHANGED <<state, sender, mutex, queue, receiver, depth, client, phase,
                   outcome, shut, previous, pending, batch, accepted, reason,
                   worldVars, lease, historyVars>>

(* The batch loops look at the state, then receive; the state may change in   *)
(* between.  An adaptive batch goes through the loop ("collect", "take"), one *)
(* recv_timeout without a look at the state ("probe"), and the loop once more *)
(* ("refill", "retake").                                                      *)

NextTake(at) == IF at = "collect" THEN "take" ELSE "retake"
NextLook(at) == IF at = "take" THEN "collect" ELSE "refill"

LookAtState ==
    /\ worker \in {"collect", "refill"} /\ state = "Running"
    /\ Len(batch) < MaxBatch
    /\ worker' = NextTake(worker)
    /\ UNCHANGED <<state, sender, mutex, queue, receiver, depth, client, phase,
                   outcome, flush, shut, previous, command, pending, batch,
                   accepted, reason, worldVars, lease, historyVars>>

CollectIntent ==
    /\ worker \in {"take", "probe", "retake"}
    /\ queue # <<>> /\ Head(queue) \in Clients
    /\ Claim(Head(queue))
    /\ queue' = Tail(queue)
    /\ worker' = NextLook(worker)
    /\ UNCHANGED <<state, sender, mutex, receiver, client, outcome, flush, shut,
                   previous, command, pending, accepted, reason, worldVars,
                   lease, historyVars>>

\* Fault: a barrier met while collecting is answered at once.
CollectBarrierAnswers ==
    /\ worker \in {"take", "probe", "retake"}
    /\ queue # <<>> /\ Head(queue) \in Flushers
    /\ flush' = [flush EXCEPT ![Head(queue)] = "ok"]
    /\ queue' = Tail(queue)
    /\ worker' = "derive"
    /\ UNCHANGED <<state, sender, mutex, receiver, depth, client, phase, outcome,
                   shut, previous, command, pending, batch, accepted, reason,
                   worldVars, lease, historyVars>>

\* A barrier is put aside and ends the loop; an adaptive batch that is still
\* too narrow probes even so, and may claim intents from behind the barrier.
CollectBarrier ==
    /\ worker \in {"take", "probe", "retake"}
    /\ queue # <<>> /\ Head(queue) \in Flushers
    /\ pending' = Append(pending, Head(queue))
    /\ queue' = Tail(queue)
    /\ worker' \in IF worker = "take" THEN {"derive", "probe"} ELSE {"derive"}
    /\ UNCHANGED <<state, sender, mutex, receiver, depth, client, phase, outcome,
                   flush, shut, previous, command, batch, accepted, reason,
                   worldVars, lease, historyVars>>

\* The first loop ends below the target width.
BeginProbe ==
    /\ worker \in {"collect", "take"} /\ Len(batch) < MaxBatch
    /\ worker' = "probe"
    /\ UNCHANGED <<state, sender, mutex, queue, receiver, depth, client, phase,
                   outcome, flush, shut, previous, command, pending, batch,
                   accepted, reason, worldVars, lease, historyVars>>

SealBatch ==
    /\ worker \in {"collect", "take", "probe", "refill", "retake"}
    /\ worker' = "derive"
    /\ UNCHANGED <<state, sender, mutex, queue, receiver, depth, client, phase,
                   outcome, flush, shut, previous, command, pending, batch,
                   accepted, reason, worldVars, lease, historyVars>>

-----------------------------------------------------------------------------
(* process_durable_batch and commit_durable_epoch.                            *)

\* resolve, for every ticket of the batch; the epoch is over.
Route(result) ==
    /\ phase' = [c \in Clients |-> IF c \in Elems(batch) THEN "Resolved" ELSE phase[c]]
    /\ outcome' = [c \in Clients |-> IF c \in Elems(batch) THEN result[c] ELSE outcome[c]]
    /\ batch' = <<>>
    /\ accepted' = {}

\* The plan accepts some intents of the batch; with none, nothing is appended.
Derive ==
    /\ worker = "derive"
    /\ \E plan \in SUBSET Elems(batch) :
        /\ accepted' = plan
        /\ worker' = IF plan = {} THEN "route" ELSE "append"
    /\ UNCHANGED <<state, sender, mutex, queue, receiver, depth, client, phase,
                   outcome, flush, shut, previous, command, pending, batch,
                   reason, worldVars, lease, historyVars>>

\* The accepted intents in batch order: their positions, from left to right.
AcceptedOrders ==
    {[i \in DOMAIN at |-> batch[at[i]]] :
        at \in {p \in [1..Cardinality(accepted) -> DOMAIN batch] :
                  /\ \A i, j \in DOMAIN p : i < j => p[i] < p[j]
                  /\ {batch[p[i]] : i \in DOMAIN p} = accepted}}

AppendSucceeds ==
    /\ worker = "append" /\ store = "Healthy"
    /\ \E order \in AcceptedOrders : durable' = durable \o order
    /\ worker' = "publish"
    /\ UNCHANGED <<state, sender, mutex, queue, receiver, depth, client, phase,
                   outcome, flush, shut, previous, command, pending, batch,
                   accepted, reason, store, published, lease, historyVars>>

\* route_failure, after which the loop goes on.
RouteFailure ==
    /\ worker = "append"
    /\ Route([c \in Elems(batch) |->
                 IF c \in accepted THEN "DurabilityFailed" ELSE "Rejected"])
    /\ worker' = "recv"
    /\ UNCHANGED <<state, sender, mutex, queue, receiver, depth, client, flush,
                   shut, previous, command, pending, reason, published, lease,
                   historyVars>>

\* EpochRepaired, or a poisoned store refusing the epoch: the file is as before.
AppendFails == RouteFailure /\ UNCHANGED <<store, durable>>

\* RepairFailed: the store is poisoned, and the epoch's one frame may have
\* remained in the file.
AppendPoisons ==
    /\ store = "Healthy" /\ store' = "Poisoned"
    /\ durable' \in {durable} \cup {durable \o order : order \in AcceptedOrders}
    /\ RouteFailure

Publish ==
    /\ worker = "publish"
    /\ published' = durable
    /\ worker' = "route"
    /\ UNCHANGED <<state, sender, mutex, queue, receiver, depth, client, phase,
                   outcome, flush, shut, previous, command, pending, batch,
                   accepted, reason, store, durable, lease, historyVars>>

\* Fault: rejected intents are reported accepted.
RouteSuccessAcceptsAll ==
    /\ worker = "route"
    /\ Route([c \in Elems(batch) |-> "Accepted"])
    /\ worker' = "recv"
    /\ UNCHANGED <<state, sender, mutex, queue, receiver, depth, client, flush,
                   shut, previous, command, pending, reason, worldVars, lease,
                   historyVars>>

RouteSuccess ==
    /\ worker = "route"
    /\ Route([c \in Elems(batch) |-> IF c \in accepted THEN "Accepted" ELSE "Rejected"])
    /\ worker' = "recv"
    /\ UNCHANGED <<state, sender, mutex, queue, receiver, depth, client, flush,
                   shut, previous, command, pending, reason, worldVars, lease,
                   historyVars>>

\* A validator panics during derivation: route_stopped.
EpochPanics ==
    /\ worker = "derive"
    /\ Route([c \in Elems(batch) |-> "WorkerFailed"])
    /\ panicked' = TRUE
    /\ worker' = "poison"
    /\ UNCHANGED <<state, sender, mutex, queue, receiver, depth, client, flush,
                   shut, previous, command, pending, reason, worldVars, lease,
                   admitted, late, before>>

Poison ==
    /\ worker = "poison"
    /\ state' = "Poisoned"
    /\ store' = "Poisoned"
    /\ worker' = "takesender"
    /\ UNCHANGED <<sender, mutex, queue, receiver, depth, client, phase, outcome,
                   flush, shut, previous, command, pending, batch, accepted,
                   reason, durable, published, lease, historyVars>>

TakeSender ==
    /\ worker = "takesender" /\ mutex = Free
    /\ sender' = FALSE
    /\ reason' = "WorkerFailed"
    /\ worker' = "drain"
    /\ UNCHANGED <<state, mutex, queue, receiver, depth, client, phase, outcome,
                   flush, shut, previous, command, pending, batch, accepted,
                   worldVars, lease, historyVars>>

-----------------------------------------------------------------------------
(* Draining and exit.                                                         *)

\* reject_command: the ticket is stopped, or the barrier is answered Err.
Reject(cmd, why) ==
    /\ depth' = IF cmd \in Clients THEN depth - 1 ELSE depth
    /\ phase' = IF cmd \in Clients THEN [phase EXCEPT ![cmd] = "Resolved"] ELSE phase
    /\ outcome' = IF cmd \in Clients
                  THEN [outcome EXCEPT ![cmd] = IF why = "Shutdown"
                                                THEN "ShutdownBeforeClaim"
                                                ELSE "WorkerFailed"]
                  ELSE outcome
    /\ flush' = IF cmd \in Flushers THEN [flush EXCEPT ![cmd] = "stopped"] ELSE flush

\* The loop finds the controller no longer Running.
BeginDrain ==
    /\ worker = "check" /\ state # "Running"
    /\ reason' = IF state = "Poisoned" THEN "WorkerFailed" ELSE "Shutdown"
    /\ Reject(command, reason')
    /\ command' = None
    /\ worker' = "drain"
    /\ UNCHANGED <<state, sender, mutex, queue, receiver, client, shut, previous,
                   pending, batch, accepted, worldVars, lease, historyVars>>

Drain ==
    /\ worker = "drain"
    /\ \/ /\ pending # <<>>
          /\ Reject(Head(pending), reason)
          /\ pending' = Tail(pending)
          /\ UNCHANGED queue
       \/ /\ pending = <<>> /\ queue # <<>>
          /\ Reject(Head(queue), reason)
          /\ queue' = Tail(queue)
          /\ UNCHANGED pending
    /\ UNCHANGED <<state, sender, mutex, receiver, client, shut, previous, worker,
                   command, batch, accepted, reason, worldVars, lease, historyVars>>

\* Fault: only the commands already set aside are drained.
DrainEndsEarly ==
    /\ worker = "drain"
    /\ pending = <<>>
    /\ worker' = "exit"
    /\ UNCHANGED <<state, sender, mutex, queue, receiver, depth, client, phase,
                   outcome, flush, shut, previous, command, pending, batch,
                   accepted, reason, worldVars, lease, historyVars>>

\* try_recv reports Empty (or Disconnected): the loop ends.
DrainEnds ==
    /\ worker = "drain"
    /\ pending = <<>> /\ queue = <<>>
    /\ worker' = "exit"
    /\ UNCHANGED <<state, sender, mutex, queue, receiver, depth, client, phase,
                   outcome, flush, shut, previous, command, pending, batch,
                   accepted, reason, worldVars, lease, historyVars>>

\* run_durable_worker settles the state ...
WorkerExit ==
    /\ worker = "exit"
    /\ state' = CASE state = "Running" -> "Poisoned"
                  [] state = "Draining" -> "Closed"
                  [] OTHER -> state
    /\ store' = IF state = "Running" THEN "Poisoned" ELSE store
    /\ worker' = "drop"
    /\ UNCHANGED <<sender, mutex, queue, receiver, depth, client, phase, outcome,
                   flush, shut, previous, command, pending, batch, accepted,
                   reason, durable, published, lease, historyVars>>

\* ... and returns: the Receiver is dropped with whatever is in the channel.
DropReceiver ==
    /\ worker = "drop"
    /\ receiver' = FALSE
    /\ queue' = <<>>
    /\ flush' = [f \in Flushers |-> IF flush[f] = "waiting" THEN "stopped" ELSE flush[f]]
    /\ worker' = "done"
    /\ UNCHANGED <<state, sender, mutex, depth, client, phase, outcome, shut,
                   previous, command, pending, batch, accepted, reason,
                   worldVars, lease, historyVars>>

Loop ==
    \/ Receive \/ ReceiveDisconnected
    \/ StartBatch \/ AnswerBarrier \/ LookAtState \/ CollectIntent
    \/ CollectBarrier \/ BeginProbe \/ SealBatch

Epoch ==
    \/ Derive \/ AppendSucceeds \/ AppendFails \/ AppendPoisons \/ Publish \/ RouteSuccess
    \/ EpochPanics \/ Poison \/ TakeSender

Exit == BeginDrain \/ Drain \/ DrainEnds \/ WorkerExit \/ DropReceiver

Worker == Loop \/ Epoch \/ Exit

-----------------------------------------------------------------------------

Next ==
    \/ \E c \in Clients : Submit(c)
    \/ \E f \in Flushers : Flush(f)
    \/ Shutdown
    \/ Worker

Spec == Init /\ [][Next]_vars

\* Every thread that is inside a call keeps running: the committer, a submitter
\* that holds the mutex, a flusher and a shutdown caller once they have begun.
\* Nobody is obliged to call submit, flush or shutdown in the first place.
Fairness ==
    /\ WF_vars(Worker)
    /\ \A c \in Clients :
        WF_vars(SubmitSend(c) \/ SubmitFull(c) \/ SubmitDisconnected(c))
    /\ \A f \in Flushers : WF_vars(FlushSend(f) \/ FlushDisconnected(f))
    /\ WF_vars(ShutdownDrain) /\ WF_vars(ShutdownTakeSender) /\ WF_vars(ShutdownJoin)

FairSpec == Spec /\ Fairness

-----------------------------------------------------------------------------
(* Properties.                                                                *)

\* A ticket that reports Accepted names a world readers can see and the store
\* holds; a rejected or stopped one left no frame behind; DurabilityFailed is
\* definite unless the store is poisoned, and is never seen by readers.  The
\* reader head never runs ahead of the store, and each intent's frame is appended
\* once, in the order the channel accepted the intents.
OutcomesAreTruthful ==
    /\ published = SubSeq(durable, 1, Len(published))
    /\ \A i, j \in DOMAIN durable : i < j =>
        \E m, n \in DOMAIN admitted :
            m < n /\ admitted[m] = durable[i] /\ admitted[n] = durable[j]
    /\ \A c \in Clients :
        /\ outcome[c] = "Accepted" => c \in Elems(published) /\ c \in Elems(durable)
        /\ outcome[c] \in {"Rejected", "ShutdownBeforeClaim", "WorkerFailed"}
             => c \notin Elems(durable)
        /\ outcome[c] = "DurabilityFailed"
             => c \notin Elems(published) /\ (c \in Elems(durable) => store = "Poisoned")

\* A flush that returns Ok has waited: every intent that was in the channel
\* ahead of its barrier is Resolved.
FlushWaits ==
    \A f \in Flushers : flush[f] = "ok" =>
        \A c \in before[f] : phase[c] = "Resolved"

\* The only tickets the committer leaves without an outcome are those that
\* entered the channel when the controller was no longer Running: submit read
\* the state before that change and sent after it.
OnlyLateTicketsAreLost ==
    worker = "done" =>
        \A c \in Clients : (client[c] = "ticket" /\ phase[c] # "Resolved") => c \in late

\* shutdown always returns, whatever it interrupts.
ShutdownReturns == (shut = "read") ~> (shut = "done")

\* flush always returns, even when it races the end of the committer.
FlushReturns ==
    \A f \in Flushers : (flush[f] = "sending") ~> (flush[f] \in {"ok", "stopped"})

\* An epoch that was claimed is finished, shutdown does not cancel it; and unless
\* somebody shuts the controller down, every admitted ticket is resolved.
AdmittedResolves ==
    \A c \in Clients :
        /\ (phase[c] = "Claimed") ~> (phase[c] = "Resolved")
        /\ (phase[c] = "Queued") ~> (phase[c] = "Resolved" \/ shut # "ready")

\* Every call returns and every claimed or admitted ticket is answered, whatever
\* races the end of the committer.
CallsReturn == ShutdownReturns /\ FlushReturns /\ AdmittedResolves
=============================================================================
