--------------------------- MODULE QueuedController ---------------------------
(***************************************************************************)
(* The in-memory queued controller (queued_controller.rs).  Callers        *)
(* reserve a place of a bounded channel and send an intent without         *)
(* blocking; one worker thread claims commands in order, groups intents    *)
(* into a batch under one of three policies, commits the batch as one      *)
(* epoch and answers the tickets; a flush sends a barrier through the same *)
(* channel.  Time is not modelled: a deadline may pass between any two     *)
(* steps, so every timed wait may also end empty-handed.                   *)
(*                                                                         *)
(* What an epoch accepts is decided by the epoch planner (module           *)
(* EpochMaterializer); here it is any subset of the batch.                 *)
(***************************************************************************)
EXTENDS Integers, FiniteSets, Sequences, SequencesExt

CONSTANTS
    Tickets,       \* one per call of submit or submit_semantic
    SemanticTickets, \* those submitted as semantic intents
    Impatient,     \* those whose caller may drop the ticket unread
    Flushes,       \* one per call of flush
    Capacity,      \* places of the channel
    Policies,      \* the batch policies to start from
    Gauge          \* number of values of an unsigned metric (2^64 in the code)

ASSUME QueuedControllerAssumption ==
    /\ IsFiniteSet(Tickets) /\ SemanticTickets \subseteq Tickets
    /\ Impatient \subseteq Tickets
    /\ Tickets \cap Flushes = {}
    /\ Capacity \in Nat \ {0}
    /\ Gauge \in Nat /\ Gauge > Cardinality(Tickets) + 1
    /\ \A p \in Policies : /\ p.kind \in {"immediate", "coalesce", "adaptive"}
                           /\ p.min \in Nat /\ p.max \in Nat \ {0}
                           /\ p.min <= p.max

VARIABLES
    policy,     \* BatchPolicy of this controller
    channel,    \* commands sent and not yet received: tickets and flushes
    depth,      \* metrics.queue_depth, the reservation counter
    inFlight,   \* metrics.in_flight
    call,       \* progress of every submit call
    phase,      \* TicketLifecycle.phase
    abandoned,  \* tickets dropped before their outcome was observed
    mail,       \* what the worker sent to the ticket: 0 for a rejection,
                \* else the version of the world it was accepted in
    flush,      \* progress of every flush call
    before,     \* history: tickets whose intent was sent before the barrier
    controller, \* "open", "dropped" (sender gone), "joined"
    worker,     \* the worker's place in run_worker
    batch,      \* intents claimed and not yet answered
    pending,    \* barriers set aside while a batch is collected
    target,     \* AdaptiveState.target_width
    plan,       \* outcomes of the committed epoch, by position in the batch
    published   \* the tickets accepted by each published world after genesis

callVars == <<call, abandoned, flush, before, controller>>
workerVars == <<worker, batch, pending, target, plan, published>>
vars == <<policy, channel, depth, inFlight, phase, mail, callVars, workerVars>>

Unsent == -1

\* The worker's thread has ended and dropped its end of the channel.
Gone == {"exited", "panicked"}

Init ==
    /\ policy \in Policies
    /\ channel = <<>> /\ depth = 0 /\ inFlight = 0
    /\ call = [t \in Tickets |-> "idle"]
    /\ phase = [t \in Tickets |-> "queued"]
    /\ abandoned = {}
    /\ mail = [t \in Tickets |-> Unsent]
    /\ flush = [f \in Flushes |-> "idle"]
    /\ before = [f \in Flushes |-> {}]
    /\ controller = "open"
    /\ worker = "idle" /\ batch = <<>> /\ pending = <<>> /\ plan = <<>>
    /\ target = (IF policy.min > 16 THEN policy.min
                 ELSE IF policy.max < 16 THEN policy.max ELSE 16)
    /\ published = <<>>

(***************************************************************************)
(* Callers.  A submit reserves, counts and sends in three steps, between   *)
(* which the worker and other callers run.                                 *)
(***************************************************************************)
ReserveIngress(t) ==
    /\ controller = "open" /\ call[t] = "idle"
    /\ IF depth >= Capacity
       THEN /\ call' = [call EXCEPT ![t] = "full"]
            /\ UNCHANGED depth
       ELSE /\ call' = [call EXCEPT ![t] = "reserved"]
            /\ depth' = depth + 1
    /\ UNCHANGED <<policy, channel, inFlight, phase, mail, abandoned, flush, before,
                   controller, workerVars>>

CountInFlight(t) ==
    /\ call[t] = "reserved"
    /\ call' = [call EXCEPT ![t] = "counted"]
    /\ inFlight' = (inFlight + 1) % Gauge
    /\ UNCHANGED <<policy, channel, depth, phase, mail, abandoned, flush, before,
                   controller, workerVars>>

\* Whether the worker still holds the receiving end of the channel.
Connected == worker \notin Gone

\* try_send: the ticket is returned, or the reservation is given back.
TrySend(t) ==
    /\ call[t] = "counted"
    /\ IF Connected /\ Len(channel) < Capacity
       THEN /\ channel' = Append(channel, t)
            /\ call' = [call EXCEPT ![t] = "sent"]
            /\ UNCHANGED <<depth, inFlight>>
       ELSE /\ depth' = depth - 1
            /\ inFlight' = (inFlight - 1) % Gauge
            /\ call' = [call EXCEPT ![t] = IF Connected THEN "full" ELSE "closed"]
            /\ UNCHANGED channel
    /\ UNCHANGED <<policy, phase, mail, abandoned, flush, before, controller, workerVars>>

Submit(t) == t \notin SemanticTickets /\ TrySend(t)

SubmitSemantic(t) == t \in SemanticTickets /\ TrySend(t)

\* The ticket's sender was dropped with nothing sent: the worker is gone and
\* the intent is not in the channel any more.
Lost(t) == mail[t] = Unsent /\ ~Connected

\* What wait answers, once it answers: the outcome, or WorkerStopped.
WaitReturns(t) == t \notin abandoned /\ (mail[t] # Unsent \/ Lost(t))

\* A ticket dropped unobserved is abandoned; its intent is not cancelled.
DropTicket(t) ==
    /\ t \in Impatient /\ call[t] = "sent" /\ t \notin abandoned
    /\ abandoned' = abandoned \cup {t}
    /\ UNCHANGED <<policy, channel, depth, inFlight, phase, mail, call, flush, before,
                   controller, workerVars>>

\* The barrier is sent with a blocking send: it waits for a place.
FlushSend(f) ==
    /\ controller = "open" /\ flush[f] = "idle"
    /\ \/ /\ Connected /\ Len(channel) < Capacity
          /\ channel' = Append(channel, f)
          /\ flush' = [flush EXCEPT ![f] = "waiting"]
          /\ before' = [before EXCEPT ![f] = {t \in Tickets : call[t] = "sent"}]
       \/ /\ ~Connected
          /\ flush' = [flush EXCEPT ![f] = "stopped"]
          /\ UNCHANGED <<channel, before>>
    /\ UNCHANGED <<policy, depth, inFlight, phase, mail, call, abandoned, controller, workerVars>>

\* The worker is gone and took the barrier's sender with it.
FlushStopped(f) ==
    /\ flush[f] = "waiting" /\ ~Connected
    /\ flush' = [flush EXCEPT ![f] = "stopped"]
    /\ UNCHANGED <<policy, channel, depth, inFlight, phase, mail, call, abandoned, before,
                   controller, workerVars>>

\* Drop: the last owner has no call under way; the worker is joined.
DropController ==
    /\ controller = "open"
    /\ \A t \in Tickets : call[t] \notin {"reserved", "counted"}
    /\ \A f \in Flushes : flush[f] # "waiting"
    /\ controller' = "dropped"
    /\ UNCHANGED <<policy, channel, depth, inFlight, phase, mail, call, abandoned, flush, before,
                   workerVars>>

JoinWorker ==
    /\ controller = "dropped" /\ ~Connected
    /\ controller' = "joined"
    /\ UNCHANGED <<policy, channel, depth, inFlight, phase, mail, call, abandoned, flush, before,
                   workerVars>>

(***************************************************************************)
(* The worker: collecting a batch.                                         *)
(***************************************************************************)
IsIntent(c) == c \in Tickets

\* Fault: the place is not given back.
ClaimKeepsPlace(t) ==
    /\ UNCHANGED depth
    /\ phase' = [phase EXCEPT ![t] = "claimed"]
    /\ batch' = Append(batch, t)

\* claim: the reservation is released and the intent joins the batch.
Claim(t) ==
    /\ depth' = depth - 1
    /\ phase' = [phase EXCEPT ![t] = "claimed"]
    /\ batch' = Append(batch, t)

\* The width at which collecting stops by itself.
Limit == IF policy.kind = "adaptive" THEN target ELSE policy.max

Receive ==
    /\ worker = "idle" /\ pending = <<>> /\ channel # <<>>
    /\ IsIntent(Head(channel))
    /\ channel' = Tail(channel)
    /\ Claim(Head(channel))
    /\ worker' = (IF policy.kind = "coalesce" THEN "timed" ELSE "drain")
    /\ UNCHANGED <<policy, inFlight, mail, callVars, pending, target, plan, published>>

\* A barrier is answered at once, from the set-aside ones first.
AnswerBarrier ==
    /\ worker = "idle"
    /\ LET queue == pending \o channel IN
       /\ queue # <<>> /\ ~IsIntent(Head(queue))
       /\ flush' = [flush EXCEPT ![Head(queue)] = "returned"]
       /\ IF pending # <<>>
          THEN pending' = Tail(pending) /\ UNCHANGED channel
          ELSE channel' = Tail(channel) /\ UNCHANGED pending
    /\ UNCHANGED <<policy, depth, inFlight, phase, mail, call, abandoned, before, controller,
                   worker, batch, target, plan, published>>

WorkerExit ==
    /\ worker = "idle" /\ pending = <<>> /\ channel = <<>>
    /\ controller = "dropped"
    /\ worker' = "exited"
    /\ UNCHANGED <<policy, channel, depth, inFlight, phase, mail, callVars,
                   batch, pending, target, plan, published>>

\* try_recv and recv_timeout that deliver an intent of an open batch.
Collect ==
    /\ worker \in {"drain", "timed", "probe", "redrain"}
    /\ worker # "probe" => Len(batch) < Limit
    /\ channel # <<>> /\ IsIntent(Head(channel))
    /\ channel' = Tail(channel)
    /\ Claim(Head(channel))
    /\ worker' = (IF worker = "probe" THEN "redrain" ELSE worker)
    /\ UNCHANGED <<policy, inFlight, mail, callVars, pending, target, plan, published>>

\* The place the worker goes to when collecting at this place ends: the
\* adaptive policy probes once more below its target width, unless its
\* latency budget is spent.
AfterCollect ==
    IF worker = "drain" /\ policy.kind = "adaptive" /\ Len(batch) < target
    THEN {"probe", "latency"}
    ELSE IF policy.kind = "adaptive" /\ Len(batch) >= target THEN {"width"}
    ELSE IF worker = "redrain" THEN {"lowTraffic"} ELSE {"full"}

\* Fault: the barrier is answered ahead of the batch that is being collected.
CollectBarrierAnswers ==
    /\ worker \in {"drain", "timed", "probe", "redrain"}
    /\ worker # "probe" => Len(batch) < Limit
    /\ channel # <<>> /\ ~IsIntent(Head(channel))
    /\ channel' = Tail(channel)
    /\ flush' = [flush EXCEPT ![Head(channel)] = "returned"]
    /\ worker' \in (IF worker = "probe" THEN {"barrier"} ELSE AfterCollect)
    /\ UNCHANGED <<policy, depth, inFlight, phase, mail, call, abandoned, before, controller,
                   batch, pending, target, plan, published>>

\* A barrier ends collecting and is set aside for after the batch.
CollectBarrier ==
    /\ worker \in {"drain", "timed", "probe", "redrain"}
    /\ worker # "probe" => Len(batch) < Limit
    /\ channel # <<>> /\ ~IsIntent(Head(channel))
    /\ channel' = Tail(channel)
    /\ pending' = Append(pending, Head(channel))
    /\ worker' \in (IF worker = "probe" THEN {"barrier"} ELSE AfterCollect)
    /\ UNCHANGED <<policy, depth, inFlight, phase, mail, callVars, batch, target, plan,
                   published>>

\* Fault: a coalescing batch waits until it is full.
CollectEndsFull ==
    /\ \/ /\ worker \in {"drain", "redrain"}
          /\ Len(batch) >= Limit \/ channel = <<>>
          /\ worker' \in AfterCollect
       \/ worker = "timed" /\ Len(batch) >= Limit /\ worker' = "full"
       \/ worker = "probe" /\ worker' \in {"lowTraffic", "stalled"}
    /\ UNCHANGED <<policy, channel, depth, inFlight, phase, mail, callVars, batch, pending,
                   target, plan, published>>

\* The batch is wide enough, nothing is there, or the deadline has passed.
CollectEnds ==
    /\ \/ /\ worker \in {"drain", "redrain"}
          /\ Len(batch) >= Limit \/ channel = <<>>
          /\ worker' \in AfterCollect
       \/ worker = "timed" /\ worker' = "full"
       \/ worker = "probe" /\ worker' \in {"lowTraffic", "stalled"}
    /\ UNCHANGED <<policy, channel, depth, inFlight, phase, mail, callVars, batch, pending,
                   target, plan, published>>

Least(a, b) == IF a < b THEN a ELSE b
Most(a, b) == IF a > b THEN a ELSE b

\* AdaptiveState::update_target for the reason the batch was sealed with; a
\* batch of max_batch intents is sealed by capacity whatever ended it.
UpdateTarget(reason, width) ==
    IF width >= policy.max THEN target ELSE
    CASE reason = "width" -> Least((target + 1) * 2, policy.max)
      [] reason = "latency" -> Most(target \div 2, policy.min)
      [] reason \in {"lowTraffic", "stalled"} -> Least(Most(width, policy.min), policy.max)
      [] OTHER -> target

Sealing == {"full", "width", "latency", "lowTraffic", "stalled", "barrier"}

\* Sealing and the first store of process_batch.
Seal ==
    /\ worker \in Sealing
    /\ target' = (IF policy.kind = "adaptive" THEN UpdateTarget(worker, Len(batch)) ELSE target)
    /\ inFlight' = Len(batch)
    /\ worker' = "sealed"
    /\ UNCHANGED <<policy, channel, depth, phase, mail, callVars, batch, pending, plan,
                   published>>

(***************************************************************************)
(* The worker: committing the batch and answering its tickets.             *)
(***************************************************************************)
\* Fault: the outcomes come back with the accepted ones first.
CommitEpochSorts ==
    /\ worker = "sealed"
    /\ \E accepted \in SUBSET Range(batch) :
         /\ published' = (IF accepted = {} THEN published ELSE Append(published, accepted))
         /\ plan' = [i \in DOMAIN batch |-> i <= Cardinality(accepted)]
    /\ worker' = "route"
    /\ UNCHANGED <<policy, channel, depth, inFlight, phase, mail, callVars, batch, pending,
                   target>>

\* commit_mixed_epoch appends the epoch's frame and publishes its world, when
\* anything was accepted.
CommitEpoch ==
    /\ worker = "sealed"
    /\ \E accepted \in SUBSET Range(batch) :
         /\ published' = (IF accepted = {} THEN published ELSE Append(published, accepted))
         /\ plan' = [i \in DOMAIN batch |-> batch[i] \in accepted]
    /\ worker' = "route"
    /\ UNCHANGED <<policy, channel, depth, inFlight, phase, mail, callVars, batch, pending,
                   target>>

\* Each outcome goes to the route at its position; an accepted one carries the
\* world of the whole epoch.  A send to a dropped ticket changes nothing.
Answer(t, accepted) ==
    /\ mail' = [mail EXCEPT ![t] = IF accepted THEN Len(published) ELSE 0]
    /\ phase' = [phase EXCEPT ![t] = "resolved"]
    /\ batch' = Tail(batch)
    /\ plan' = Tail(plan)
    /\ UNCHANGED <<policy, channel, depth, inFlight, callVars, worker, pending, target, published>>

RouteQueued ==
    /\ worker = "route" /\ batch # <<>> /\ Head(batch) \notin SemanticTickets
    /\ Answer(Head(batch), Head(plan))

RouteSemantic ==
    /\ worker = "route" /\ batch # <<>> /\ Head(batch) \in SemanticTickets
    /\ Answer(Head(batch), Head(plan))

EpochDone ==
    /\ worker = "route" /\ batch = <<>>
    /\ inFlight' = 0
    /\ worker' = "idle"
    /\ UNCHANGED <<policy, channel, depth, phase, mail, callVars, batch, pending, target, plan,
                   published>>

\* A validator that panics, or a materializer that cannot follow the database,
\* ends the thread; everything it owns is dropped.
WorkerPanics ==
    /\ worker = "sealed"
    /\ worker' = "panicked"
    /\ channel' = <<>> /\ pending' = <<>> /\ batch' = <<>>
    /\ UNCHANGED <<policy, depth, inFlight, phase, mail, callVars, target, plan, published>>

WorkerStep ==
    \/ Receive \/ AnswerBarrier \/ WorkerExit
    \/ Collect \/ CollectBarrier \/ CollectEnds \/ Seal
    \/ CommitEpoch \/ RouteQueued \/ RouteSemantic \/ EpochDone

\* The steps a caller inside a call takes.
CallStep ==
    \/ \E t \in Tickets : CountInFlight(t) \/ Submit(t) \/ SubmitSemantic(t)
    \/ \E f \in Flushes : FlushStopped(f)

Next ==
    \/ WorkerStep \/ WorkerPanics
    \/ CallStep
    \/ \E t \in Tickets : ReserveIngress(t) \/ DropTicket(t)
    \/ \E f \in Flushes : FlushSend(f)
    \/ DropController \/ JoinWorker

Spec == Init /\ [][Next]_vars

\* The worker thread and the callers inside a call are scheduled; whether a
\* caller ever calls again is its own affair.
FairSpec == Spec /\ WF_vars(WorkerStep) /\ WF_vars(CallStep) /\ WF_vars(JoinWorker)

-----------------------------------------------------------------------------
\* reserve_ingress and claim: as long as the worker lives, the reservation
\* counter is exactly the intents in the channel plus the callers between
\* reserving and sending, so it never underflows, and no batch is wider than
\* the policy allows, however the adaptive target moved.
ReservationsAreExact ==
    /\ Connected => depth = Cardinality({t \in Range(channel) : IsIntent(t)})
                            + Cardinality({t \in Tickets : call[t] \in {"reserved", "counted"}})
    /\ depth \in 0..Capacity
    /\ Len(batch) <= policy.max

\* process_batch: a ticket is told "accepted" with a world that is already
\* published and whose epoch contains its intent, and "rejected" only if no
\* published epoch contains it; no intent is published twice.
TicketsAreTruthful ==
    /\ \A t \in Tickets :
         /\ mail[t] > 0 => t \in published[mail[t]]
         /\ mail[t] = 0 => \A v \in DOMAIN published : t \notin published[v]
         /\ phase[t] = "resolved" <=> mail[t] # Unsent
    /\ \A v, w \in DOMAIN published : v # w => published[v] \cap published[w] = {}

\* flush: when it returns, every intent sent before its barrier is resolved,
\* whatever batches the barrier was set aside behind.
FlushCoversEarlier ==
    \A f \in Flushes : flush[f] = "returned" =>
        \A t \in before[f] : phase[t] = "resolved"

\* Every ticket handed out is answered or its worker is gone, and every flush
\* returns: a barrier cannot be overtaken for ever.
CallsResolve ==
    /\ \A t \in Tickets : call[t] = "sent" ~> (WaitReturns(t) \/ t \in abandoned)
    /\ \A f \in Flushes : flush[f] = "waiting" ~> flush[f] \in {"returned", "stopped"}
    /\ controller = "dropped" ~> controller = "joined"
=============================================================================
