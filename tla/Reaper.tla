-------------------------------- MODULE Reaper --------------------------------
(***************************************************************************)
(* Background retirement of kernel roots (forthdb-core shared_reaped.rs).  *)
(* Dropping a ForthDb hands its root to the reaper: a bounded queue, an    *)
(* unbounded overflow queue, counters, and a worker thread woken through a *)
(* one-place channel or every 10 ms.  drain waits until no root is queued, *)
(* the worker is dead, or its time is up.  Every access to a counter, a    *)
(* queue or the channel is a step of its own.                              *)
(***************************************************************************)
EXTENDS Integers, Sequences, FiniteSets

CONSTANTS
    Roots,         \* kernel roots; each is dropped by a thread of its own
    Drainers,      \* threads calling drain_reaper
    QueueCapacity  \* REAPER_QUEUE_CAPACITY

ASSUME ReaperAssumption == QueueCapacity \in Nat \ {0}

VARIABLES
    retiring,   \* retiring[r]: where the thread dropping r is
    draining,   \* draining[d]: where the thread draining is
    queue, overflow,
    queued, retired, reaped, overflowed,   \* ReaperCounters
    wake,       \* a message is in the channel
    worker,     \* the worker thread: unborn, waiting, or the queue it empties
    held,       \* the root the worker popped and what it did with it, or <<>>
    freed,      \* roots whose memory is released
    before      \* before[d]: roots handed over when d called drain

counters == <<queued, retired, reaped, overflowed>>
reaperVars == <<retiring, draining, queue, overflow, counters, wake, worker, held, freed, before>>

ReaperInit ==
    /\ retiring = [r \in Roots |-> "live"]
    /\ draining = [d \in Drainers |-> "idle"]
    /\ queue = <<>> /\ overflow = <<>>
    /\ queued = 0 /\ retired = 0 /\ reaped = 0 /\ overflowed = 0
    /\ wake = FALSE
    /\ worker = "unborn"
    /\ held = <<>> /\ freed = {}
    /\ before = [d \in Drainers |-> {}]

\* get_or_init: the first caller starts the worker.
Started == worker' = IF worker = "unborn" THEN "waiting" ELSE worker

-----------------------------------------------------------------------------
(* retire, run by Drop for ForthDb.                                          *)

\* inner.take(), reaper(), and the retired counter.
RetireCount(r) ==
    /\ retiring[r] = "live"
    /\ retiring' = [retiring EXCEPT ![r] = "counted"]
    /\ retired' = retired + 1
    /\ Started
    /\ UNCHANGED <<draining, queue, overflow, queued, reaped, overflowed, wake, held,
                   freed, before>>

RetireQueued(r) ==
    /\ retiring[r] = "counted"
    /\ retiring' = [retiring EXCEPT ![r] = "queued"]
    /\ queued' = queued + 1
    /\ UNCHANGED <<draining, queue, overflow, retired, reaped, overflowed, wake, worker,
                   held, freed, before>>

\* push into the bounded queue, or find it full.
RetirePush(r) ==
    /\ retiring[r] = "queued"
    /\ \/ /\ Len(queue) < QueueCapacity
          /\ queue' = Append(queue, r)
          /\ retiring' = [retiring EXCEPT ![r] = "pushed"]
          /\ UNCHANGED overflowed
       \/ /\ Len(queue) = QueueCapacity
          /\ overflowed' = overflowed + 1
          /\ retiring' = [retiring EXCEPT ![r] = "refused"]
          /\ UNCHANGED queue
    /\ UNCHANGED <<draining, overflow, queued, retired, reaped, wake, worker, held, freed,
                   before>>

RetireOverflow(r) ==
    /\ retiring[r] = "refused"
    /\ retiring' = [retiring EXCEPT ![r] = "pushed"]
    /\ overflow' = Append(overflow, r)
    /\ UNCHANGED <<draining, queue, counters, wake, worker, held, freed, before>>

\* try_send: a full channel already holds the wake-up.
RetireWake(r) ==
    /\ retiring[r] = "pushed"
    /\ retiring' = [retiring EXCEPT ![r] = "handed"]
    /\ wake' = TRUE
    /\ UNCHANGED <<draining, queue, overflow, counters, worker, held, freed, before>>

-----------------------------------------------------------------------------
(* The worker: recv_timeout, then drain_available.                           *)

\* recv_timeout: a message, or 10 ms without one.
WorkerWakes ==
    /\ worker = "waiting"
    /\ wake' = FALSE
    /\ worker' = "queue"
    /\ UNCHANGED <<retiring, draining, queue, overflow, counters, held, freed, before>>

\* pop on the queue being emptied.
Pop ==
    /\ held = <<>>
    /\ \/ /\ worker = "queue"
          /\ queue # <<>>
          /\ held' = <<Head(queue), "popped">>
          /\ queue' = Tail(queue)
          /\ UNCHANGED overflow
       \/ /\ worker = "overflow"
          /\ overflow # <<>>
          /\ held' = <<Head(overflow), "popped">>
          /\ overflow' = Tail(overflow)
          /\ UNCHANGED queue
    /\ UNCHANGED <<retiring, draining, counters, wake, worker, freed, before>>

\* drop(kernel)
DropRoot ==
    /\ held # <<>>
    /\ held[2] = "popped"
    /\ held' = [held EXCEPT ![2] = "dropped"]
    /\ freed' = freed \cup {held[1]}
    /\ UNCHANGED <<retiring, draining, queue, overflow, counters, wake, worker, before>>

CountReaped ==
    /\ held # <<>>
    /\ held[2] = "dropped"
    /\ held' = [held EXCEPT ![2] = "reaped"]
    /\ reaped' = reaped + 1
    /\ UNCHANGED <<retiring, draining, queue, overflow, queued, retired, overflowed, wake,
                   worker, freed, before>>

CountOut ==
    /\ held # <<>>
    /\ held[2] = "reaped"
    /\ held' = <<>>
    /\ queued' = queued - 1
    /\ UNCHANGED <<retiring, draining, queue, overflow, retired, reaped, overflowed, wake,
                   worker, freed, before>>

\* Fault: the worker waits again once the bounded queue is empty.
QueueEmptyWaits ==
    /\ held = <<>>
    /\ worker = "queue" /\ queue = <<>> /\ worker' = "waiting"
    /\ UNCHANGED <<retiring, draining, queue, overflow, counters, wake, held, freed, before>>

\* pop found nothing: on to the overflow, then back to waiting.
QueueEmpty ==
    /\ held = <<>>
    /\ \/ worker = "queue" /\ queue = <<>> /\ worker' = "overflow"
       \/ worker = "overflow" /\ overflow = <<>> /\ worker' = "waiting"
    /\ UNCHANGED <<retiring, draining, queue, overflow, counters, wake, held, freed, before>>

WorkerStep ==
    \/ WorkerWakes \/ Pop \/ DropRoot \/ CountReaped \/ CountOut \/ QueueEmpty

-----------------------------------------------------------------------------
(* drain.                                                                    *)

DrainCall(d) ==
    /\ draining[d] = "idle"
    /\ draining' = [draining EXCEPT ![d] = "loading"]
    /\ wake' = TRUE
    /\ before' = [before EXCEPT ![d] = {r \in Roots : retiring[r] = "handed"}]
    /\ Started
    /\ UNCHANGED <<retiring, queue, overflow, counters, held, freed>>

\* Fault: drain looks at the queues instead of the counter.
DrainLoadEmptyQueues(d) ==
    /\ draining[d] = "loading"
    /\ LET empty == queue = <<>> /\ overflow = <<>>
       IN  \/ empty /\ draining' = [draining EXCEPT ![d] = "drained"]
           \/ ~empty /\ draining' = [draining EXCEPT ![d] = "timed out"]
           \/ ~empty /\ draining' = [draining EXCEPT ![d] = "sleeping"]
    /\ UNCHANGED <<retiring, queue, overflow, counters, wake, worker, held, freed, before>>

\* The loop's condition; the worker never dies, so only time ends it otherwise.
DrainLoad(d) ==
    /\ draining[d] = "loading"
    /\ \/ queued = 0 /\ draining' = [draining EXCEPT ![d] = "drained"]
       \/ queued # 0 /\ draining' = [draining EXCEPT ![d] = "timed out"]
       \/ queued # 0 /\ draining' = [draining EXCEPT ![d] = "sleeping"]
    /\ UNCHANGED <<retiring, queue, overflow, counters, wake, worker, held, freed, before>>

\* After the sleep, the worker is woken again.
DrainSleeps(d) ==
    /\ draining[d] = "sleeping"
    /\ draining' = [draining EXCEPT ![d] = "loading"]
    /\ wake' = TRUE
    /\ UNCHANGED <<retiring, queue, overflow, counters, worker, held, freed, before>>

-----------------------------------------------------------------------------

RetireStep(r) ==
    \/ RetireCount(r) \/ RetireQueued(r) \/ RetirePush(r) \/ RetireOverflow(r)
    \/ RetireWake(r)

ReaperNext ==
    \/ \E r \in Roots : RetireStep(r)
    \/ WorkerStep
    \/ \E d \in Drainers : DrainCall(d) \/ DrainLoad(d) \/ DrainSleeps(d)

\* A thread inside retire and the worker keep running; nobody has to drop a
\* kernel or to drain.
ReaperFairness ==
    /\ \A r \in Roots : WF_reaperVars(RetireStep(r) /\ retiring[r] # "live")
    /\ WF_reaperVars(WorkerStep)

ReaperSpec == ReaperInit /\ [][ReaperNext]_reaperVars /\ ReaperFairness

-----------------------------------------------------------------------------
(* Properties.                                                               *)

\* drain_reaper that returns true means what the benchmarks and tests assert of
\* it: every kernel dropped before the call is gone, whichever queue it went
\* through and whatever was retired meanwhile.
DrainCovers ==
    \A d \in Drainers : draining[d] = "drained" => before[d] \subseteq freed

\* Every dropped kernel is eventually freed and counted out, also when the
\* wake-up met a full channel and when the bounded queue was full.
EverythingReaped ==
    \A r \in Roots :
        retiring[r] # "live" ~> (r \in freed /\ Cardinality(freed) = reaped)
=============================================================================
