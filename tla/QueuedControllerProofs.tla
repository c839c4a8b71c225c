----------------------- MODULE QueuedControllerProofs -----------------------
(***************************************************************************)
(* TLAPS proofs about the in-memory queued controller and the database it  *)
(* commits to.                                                             *)
(*   - QueuedController: exact reservations, truthful tickets and flushes  *)
(*     that cover what was sent before them, for any set of tickets,       *)
(*     flushes and batch policies and any capacity.                        *)
(*   - Database (second part): answers that survive, a head that replay    *)
(*     reproduces, successes that follow the world they insisted on and a  *)
(*     collapse that agrees with the chain, for any threads, intents and   *)
(*     validators and any number of epochs and restarts.                   *)
(***************************************************************************)
EXTENDS QueuedController, Database, FiniteSetTheorems, SequenceTheorems,
        WellFoundedInduction, TLAPS

Collecting == {"drain", "timed", "probe", "redrain"}

Typed ==
    /\ policy \in Policies
    /\ channel \in Seq(Tickets \cup Flushes)
    /\ depth \in Int
    /\ call \in [Tickets -> {"idle", "reserved", "counted", "sent", "full", "closed"}]
    /\ phase \in [Tickets -> {"queued", "claimed", "resolved"}]
    /\ mail \in [Tickets -> Int]
    /\ flush \in [Flushes -> {"idle", "waiting", "returned", "stopped"}]
    /\ before \in [Flushes -> SUBSET Tickets]
    /\ worker \in Collecting \cup Sealing \cup Gone \cup {"idle", "sealed", "route"}
    /\ batch \in Seq(Tickets)
    /\ pending \in Seq(Flushes)
    /\ target \in Nat
    /\ published \in Seq(SUBSET Tickets)

\* A ticket is in the channel or in the batch at most once, and its lifecycle
\* says in which of the two; a ticket that left "queued" has been sent.
TicketsPlaced ==
    /\ \A i, j \in 1..Len(channel) :
        channel[i] = channel[j] /\ IsIntent(channel[i]) => i = j
    /\ \A i \in 1..Len(channel) :
        IsIntent(channel[i]) => phase[channel[i]] = "queued" /\ call[channel[i]] = "sent"
    /\ \A i, j \in 1..Len(batch) : batch[i] = batch[j] => i = j
    /\ \A i \in 1..Len(batch) : phase[batch[i]] = "claimed"
    /\ \A t \in Tickets : phase[t] # "queued" => call[t] = "sent"

\* Where the worker is, what it has at hand.
WorkerPlaced ==
    /\ ~Connected => channel = <<>>
    /\ worker = "idle" => batch = <<>>

Reserving == {t \in Tickets : call[t] \in {"reserved", "counted"}}
Waiting == {t \in Range(channel) : IsIntent(t)}

\* After the worker has panicked the counter keeps the intents it dropped.
DepthCounts ==
    /\ Connected => depth = Cardinality(Waiting) + Cardinality(Reserving)
    /\ ~Connected => depth >= Cardinality(Reserving)
    /\ depth <= Capacity

\* A probe is made below the target width only, and the target is below the
\* policy's maximum.
WidthBounded ==
    /\ target <= policy.max
    /\ Len(batch) <= policy.max
    /\ worker = "probe" => Len(batch) < policy.max

InBatch(t) == \E i \in 1..Len(batch) : batch[i] = t

\* Every intent ahead of a barrier is resolved, in the batch, or ahead of it in
\* the channel.
BarriersOrdered ==
    /\ \A t \in Tickets : Connected /\ call[t] = "sent" =>
        phase[t] = "resolved" \/ InBatch(t) \/ \E i \in 1..Len(channel) : channel[i] = t
    /\ \A k \in 1..Len(channel) : ~IsIntent(channel[k]) =>
        /\ flush[channel[k]] # "idle"
        /\ \A t \in before[channel[k]] :
            phase[t] = "resolved" \/ InBatch(t) \/ \E i \in 1..(k - 1) : channel[i] = t
    /\ \A k \in 1..Len(pending) :
        /\ flush[pending[k]] # "idle"
        /\ \A t \in before[pending[k]] : phase[t] = "resolved" \/ InBatch(t)

IsPublished(t) == \E v \in 1..Len(published) : t \in published[v]

\* What the answered tickets say; an intent is published from its batch only.
OutcomesHold ==
    /\ \A t \in Tickets :
        /\ mail[t] > 0 => mail[t] <= Len(published) /\ t \in published[mail[t]]
        /\ mail[t] = 0 => ~IsPublished(t)
        /\ phase[t] = "resolved" <=> mail[t] # Unsent
        /\ IsPublished(t) => phase[t] # "queued"
        /\ mail[t] >= Unsent
    /\ \A v, w \in 1..Len(published) : v # w => published[v] \cap published[w] = {}

\* Until it is committed a batch is unpublished; while its outcomes are routed
\* each position of the plan tells the verdict of the ticket at that position.
PlanMatchesBatch ==
    /\ worker # "route" => \A i \in 1..Len(batch) : ~IsPublished(batch[i])
    /\ worker = "route" =>
        /\ plan \in Seq(BOOLEAN) /\ Len(plan) = Len(batch)
        /\ \A i \in 1..Len(batch) :
            /\ plan[i] <=> IsPublished(batch[i])
            /\ IsPublished(batch[i]) =>
                Len(published) > 0 /\ batch[i] \in published[Len(published)]

\* The inductive invariant.
IInv ==
    /\ Typed /\ TicketsPlaced /\ WorkerPlaced /\ DepthCounts /\ WidthBounded
    /\ BarriersOrdered /\ OutcomesHold /\ PlanMatchesBatch /\ FlushCoversEarlier

-----------------------------------------------------------------------------
(* Sequences and counts.                                                     *)

LEMMA HeadTailFacts ==
    ASSUME NEW S, NEW q \in Seq(S), q # <<>>
    PROVE  /\ Len(q) \in Nat /\ Len(q) > 0
           /\ Head(q) = q[1] /\ q[1] \in S
           /\ Tail(q) \in Seq(S) /\ Len(Tail(q)) = Len(q) - 1
           /\ \A i \in 1..Len(Tail(q)) : i + 1 \in 1..Len(q) /\ Tail(q)[i] = q[i + 1]
<1>1. Len(q) \in Nat /\ Len(q) # 0
  BY EmptySeq, LenProperties
<1>2. 1 \in 1..Len(q)
  BY <1>1
<1>3. Head(q) = q[1] /\ q[1] \in S
  BY <1>2, ElementOfSeq, HeadTailProperties
<1> QED BY <1>1, <1>3, HeadTailProperties

LEMMA AppendFacts ==
    ASSUME NEW S, NEW q \in Seq(S), NEW x \in S
    PROVE  /\ Append(q, x) \in Seq(S) /\ Len(q) \in Nat
           /\ Len(Append(q, x)) = Len(q) + 1
           /\ \A i \in 1..Len(q) : Append(q, x)[i] = q[i]
           /\ Append(q, x)[Len(q) + 1] = x
BY AppendProperties, LenProperties

\* The intents in a channel, position by position.
LEMMA IntentsOf ==
    ASSUME NEW c \in Seq(Tickets \cup Flushes)
    PROVE  {t \in Range(c) : t \in Tickets} = {t \in Tickets : \E i \in 1..Len(c) : c[i] = t}
<1>1. DOMAIN c = 1..Len(c)
  BY LenProperties
<1> QED BY <1>1 DEF Range

LEMMA WaitingFacts ==
    ASSUME Typed
    PROVE  /\ Waiting = {t \in Tickets : \E i \in 1..Len(channel) : channel[i] = t}
           /\ Waiting \in SUBSET Tickets /\ Reserving \in SUBSET Tickets
           /\ IsFiniteSet(Waiting) /\ IsFiniteSet(Reserving)
           /\ Cardinality(Waiting) \in Nat /\ Cardinality(Reserving) \in Nat
<1>2. Waiting = {t \in Tickets : \E i \in 1..Len(channel) : channel[i] = t}
  BY IntentsOf DEF Waiting, IsIntent, Typed
<1>3. Waiting \in SUBSET Tickets /\ Reserving \in SUBSET Tickets
  BY <1>2 DEF Reserving
<1>4. IsFiniteSet(Waiting) /\ IsFiniteSet(Reserving)
  BY <1>3, FS_Subset, QueuedControllerAssumption
<1> QED BY <1>2, <1>3, <1>4, FS_CardinalityType

LEMMA PolicyFacts ==
    ASSUME Typed
    PROVE  /\ policy.kind \in {"immediate", "coalesce", "adaptive"}
           /\ policy.min \in Nat /\ policy.max \in Nat /\ policy.max > 0
           /\ policy.min <= policy.max
BY QueuedControllerAssumption DEF Typed

LEMMA InitIInv == Init => IInv
<1> SUFFICES ASSUME Init PROVE IInv
  OBVIOUS
<1> USE DEF Init
<1>1. policy \in Policies /\ target \in Nat /\ target <= policy.max /\ policy.max > 0
      /\ policy.max \in Nat
  BY QueuedControllerAssumption
<1>2. Len(channel) = 0 /\ Len(batch) = 0 /\ Len(pending) = 0 /\ Len(published) = 0
  OBVIOUS
<1>3. Typed
  BY <1>1 DEF Typed, Unsent
<1>4. TicketsPlaced /\ WorkerPlaced
  BY <1>2 DEF TicketsPlaced, WorkerPlaced, Connected, Gone
<1>5. DepthCounts
  <2>1. Waiting = {} /\ Reserving = {}
    BY <1>2, <1>3, WaitingFacts DEF Reserving
  <2> QED BY <2>1, FS_EmptySet, QueuedControllerAssumption DEF DepthCounts, Connected, Gone
<1>6. WidthBounded
  BY <1>1, <1>2 DEF WidthBounded
<1>7. BarriersOrdered
  BY <1>2 DEF BarriersOrdered
<1>8. OutcomesHold /\ PlanMatchesBatch
  BY <1>2 DEF OutcomesHold, PlanMatchesBatch, IsPublished, Unsent
<1>9. FlushCoversEarlier
  BY DEF FlushCoversEarlier
<1> QED BY <1>3, <1>4, <1>5, <1>6, <1>7, <1>8, <1>9 DEF IInv

-----------------------------------------------------------------------------
(* The callers' steps.                                                       *)

tickets == <<phase, mail, batch, plan, published>>

\* Steps that answer nothing and leave the batch alone keep what the outcomes say.
LEMMA OutcomesAside ==
    ASSUME IInv, UNCHANGED tickets, worker' = "route" <=> worker = "route"
    PROVE  OutcomesHold' /\ PlanMatchesBatch'
BY DEF IInv, OutcomesHold, PlanMatchesBatch, IsPublished, tickets

\* A step of a caller that neither sends nor starts a flush.
LEMMA CallAside ==
    ASSUME IInv, UNCHANGED <<policy, channel, flush, before, pending, target, worker, tickets>>,
           call' \in [Tickets -> {"idle", "reserved", "counted", "sent", "full", "closed"}],
           \A t \in Tickets : call'[t] = "sent" <=> call[t] = "sent",
           depth' \in Int, DepthCounts'
    PROVE  IInv'
<1>1. Typed'
  BY DEF IInv, Typed, tickets
<1>2. \A i \in 1..Len(channel) : channel[i] \in Tickets \cup Flushes
  BY ElementOfSeq DEF IInv, Typed
<1>3. TicketsPlaced'
  BY <1>2 DEF IInv, TicketsPlaced, tickets, IsIntent
<1>4. WorkerPlaced' /\ WidthBounded'
  BY DEF IInv, WorkerPlaced, WidthBounded, Connected, tickets
<1>5. BarriersOrdered'
  BY DEF IInv, BarriersOrdered, InBatch, IsIntent, Connected, tickets
<1>6. OutcomesHold' /\ PlanMatchesBatch'
  BY OutcomesAside
<1>7. FlushCoversEarlier'
  BY DEF IInv, FlushCoversEarlier, tickets
<1> QED BY <1>1, <1>3, <1>4, <1>5, <1>6, <1>7 DEF IInv

LEMMA ReserveIngressStep == ASSUME IInv, NEW t \in Tickets, ReserveIngress(t) PROVE IInv'
<1>1. /\ UNCHANGED <<policy, channel, flush, before, pending, target, worker, tickets>>
      /\ call[t] = "idle"
      /\ \/ depth >= Capacity /\ call' = [call EXCEPT ![t] = "full"] /\ depth' = depth
         \/ /\ ~(depth >= Capacity) /\ call' = [call EXCEPT ![t] = "reserved"]
            /\ depth' = depth + 1
  BY DEF ReserveIngress, workerVars, tickets
<1>2. Typed /\ DepthCounts
  BY DEF IInv
<1>3. call' \in [Tickets -> {"idle", "reserved", "counted", "sent", "full", "closed"}]
      /\ depth' \in Int /\ \A x \in Tickets : call'[x] = "sent" <=> call[x] = "sent"
  <2>1. \E c \in {"full", "reserved"} : call' = [call EXCEPT ![t] = c]
    BY <1>1
  <2>2. depth' \in Int
    BY <1>1, <1>2 DEF Typed
  <2> QED BY <1>1, <1>2, <2>1, <2>2 DEF Typed
<1>4. Waiting' = Waiting
  BY <1>1 DEF Waiting, IsIntent
<1>5. /\ IsFiniteSet(Reserving) /\ Cardinality(Waiting) \in Nat /\ Cardinality(Reserving) \in Nat
  BY <1>2, WaitingFacts
<1>6. DepthCounts'
  <2>1. CASE depth >= Capacity /\ call' = [call EXCEPT ![t] = "full"] /\ depth' = depth
    <3>1. Reserving' = Reserving
      BY <1>1, <1>2, <2>1 DEF Reserving, Typed
    <3> QED BY <1>1, <1>2, <1>4, <2>1, <3>1 DEF DepthCounts, Connected
  <2>2. CASE /\ ~(depth >= Capacity) /\ call' = [call EXCEPT ![t] = "reserved"]
             /\ depth' = depth + 1
    <3>1. Reserving' = Reserving \cup {t} /\ t \notin Reserving
      BY <1>1, <1>2, <2>2 DEF Reserving, Typed
    <3>2. Cardinality(Reserving') = Cardinality(Reserving) + 1
      BY <1>5, <3>1, FS_AddElement
    <3>3. depth \in Int /\ Capacity \in Nat
      BY <1>2, QueuedControllerAssumption DEF Typed
    <3> QED BY <1>1, <1>2, <1>4, <1>5, <2>2, <3>2, <3>3 DEF DepthCounts, Connected
  <2> QED BY <1>1, <2>1, <2>2
<1> QED BY <1>1, <1>3, <1>6, CallAside

LEMMA CountInFlightStep == ASSUME IInv, NEW t \in Tickets, CountInFlight(t) PROVE IInv'
<1>1. /\ UNCHANGED <<policy, channel, depth, flush, before, pending, target, worker, tickets>>
      /\ call[t] = "reserved" /\ call' = [call EXCEPT ![t] = "counted"]
  BY DEF CountInFlight, workerVars, tickets
<1>2. Typed /\ DepthCounts
  BY DEF IInv
<1>3. Reserving' = Reserving /\ Waiting' = Waiting
  BY <1>1, <1>2 DEF Reserving, Waiting, IsIntent, Typed
<1>4. DepthCounts'
  BY <1>1, <1>2, <1>3 DEF DepthCounts, Connected
<1>5. call' \in [Tickets -> {"idle", "reserved", "counted", "sent", "full", "closed"}]
      /\ depth' \in Int /\ \A x \in Tickets : call'[x] = "sent" <=> call[x] = "sent"
  BY <1>1, <1>2 DEF Typed
<1> QED BY <1>1, <1>4, <1>5, CallAside

\* A refused send gives the reservation back.
LEMMA SendRefused ==
    ASSUME IInv, NEW t \in Tickets, call[t] = "counted", depth' = depth - 1,
           NEW c \in {"full", "closed"}, call' = [call EXCEPT ![t] = c],
           UNCHANGED <<policy, channel, flush, before, pending, target, worker, tickets>>
    PROVE  IInv'
<1>1. Typed /\ DepthCounts
  BY DEF IInv
<1>2. Reserving' = Reserving \ {t} /\ t \in Reserving /\ Waiting' = Waiting
  BY <1>1 DEF Reserving, Waiting, IsIntent, Typed
<1>3. /\ IsFiniteSet(Reserving) /\ Cardinality(Waiting) \in Nat /\ Cardinality(Reserving) \in Nat
  BY <1>1, WaitingFacts
<1>4. Cardinality(Reserving') = Cardinality(Reserving) - 1
  BY <1>2, <1>3, FS_RemoveElement
<1>5. depth \in Int /\ Capacity \in Nat
  BY <1>1, QueuedControllerAssumption DEF Typed
<1>6. DepthCounts'
  BY <1>1, <1>2, <1>3, <1>4, <1>5 DEF DepthCounts, Connected
<1>7. call' \in [Tickets -> {"idle", "reserved", "counted", "sent", "full", "closed"}]
      /\ depth' \in Int /\ \A x \in Tickets : call'[x] = "sent" <=> call[x] = "sent"
  BY <1>1, <1>5 DEF Typed
<1> QED BY <1>6, <1>7, CallAside

\* What was ordered stays ordered when a command joins the end of the channel.
LEMMA ChannelGrows ==
    ASSUME IInv, NEW c \in Tickets \cup Flushes, channel' = Append(channel, c)
    PROVE  /\ Len(channel) \in Nat /\ Len(channel') = Len(channel) + 1
           /\ channel' \in Seq(Tickets \cup Flushes)
           /\ \A i \in 1..Len(channel) : channel'[i] = channel[i]
           /\ channel'[Len(channel) + 1] = c
           /\ \A i \in 1..Len(channel) : channel[i] \in Tickets \cup Flushes
<1>1. channel \in Seq(Tickets \cup Flushes)
  BY DEF IInv, Typed
<1>2. /\ Append(channel, c) \in Seq(Tickets \cup Flushes) /\ Len(channel) \in Nat
      /\ Len(Append(channel, c)) = Len(channel) + 1
      /\ \A i \in 1..Len(channel) : Append(channel, c)[i] = channel[i]
      /\ Append(channel, c)[Len(channel) + 1] = c
  BY <1>1, AppendFacts
<1>3. \A i \in 1..Len(channel) : channel[i] \in Tickets \cup Flushes
  BY <1>1, ElementOfSeq
<1> QED BY <1>2, <1>3

LEMMA SendAccepted ==
    ASSUME IInv, NEW t \in Tickets, call[t] = "counted", Connected,
           channel' = Append(channel, t), call' = [call EXCEPT ![t] = "sent"],
           UNCHANGED <<policy, depth, flush, before, pending, target, worker, tickets>>
    PROVE  IInv'
<1>1. Typed /\ TicketsPlaced /\ DepthCounts /\ BarriersOrdered
  BY DEF IInv
<1>2. /\ Len(channel) \in Nat /\ Len(channel') = Len(channel) + 1
      /\ channel' \in Seq(Tickets \cup Flushes)
      /\ \A i \in 1..Len(channel) : channel'[i] = channel[i]
      /\ channel'[Len(channel) + 1] = t
      /\ \A i \in 1..Len(channel) : channel[i] \in Tickets \cup Flushes
  BY ChannelGrows
<1>3. UNCHANGED <<phase, mail, batch, plan, published>>
  BY DEF tickets
<1>4. Typed'
  BY <1>1, <1>2, <1>3 DEF Typed
<1>5. /\ \A x \in Tickets : x # t => call'[x] = call[x]
      /\ call'[t] = "sent"
      /\ phase[t] = "queued"
      /\ \A i \in 1..Len(channel) : channel[i] # t
  BY <1>1 DEF Typed, TicketsPlaced, IsIntent
<1>6. TicketsPlaced'
  BY <1>1, <1>2, <1>3, <1>5 DEF TicketsPlaced, IsIntent
<1>7. WorkerPlaced' /\ WidthBounded'
  BY <1>3 DEF IInv, WorkerPlaced, WidthBounded, Connected
<1>8. DepthCounts'
  <2>1. Reserving' = Reserving \ {t} /\ t \in Reserving
    BY <1>1 DEF Reserving, Typed
  <2>2. Waiting = {x \in Tickets : \E i \in 1..Len(channel) : channel[i] = x}
    BY <1>1, WaitingFacts
  <2>3. Waiting' = {x \in Tickets : \E i \in 1..Len(channel') : channel'[i] = x}
    BY <1>2, IntentsOf DEF Waiting, IsIntent
  <2>4. Waiting' = Waiting \cup {t} /\ t \notin Waiting
    BY <1>2, <1>5, <2>2, <2>3
  <2>5. /\ IsFiniteSet(Reserving) /\ IsFiniteSet(Waiting)
        /\ Cardinality(Waiting) \in Nat /\ Cardinality(Reserving) \in Nat
    BY <1>1, WaitingFacts
  <2>6. /\ Cardinality(Reserving') = Cardinality(Reserving) - 1
        /\ Cardinality(Waiting') = Cardinality(Waiting) + 1
    BY <2>1, <2>4, <2>5, FS_RemoveElement, FS_AddElement
  <2> QED BY <1>1, <2>5, <2>6 DEF DepthCounts, Connected
<1>9. BarriersOrdered'
  <2>1. ASSUME NEW x \in Tickets, call'[x] = "sent"
        PROVE  \/ phase[x] = "resolved" \/ InBatch(x)
               \/ \E i \in 1..Len(channel') : channel'[i] = x
    <3>1. CASE x = t
      BY <1>2, <3>1
    <3>2. CASE x # t
      <4>1. phase[x] = "resolved" \/ InBatch(x) \/ \E i \in 1..Len(channel) : channel[i] = x
        BY <1>1, <1>5, <2>1, <3>2 DEF BarriersOrdered
      <4> QED BY <1>2, <4>1
    <3> QED BY <3>1, <3>2
  <2>2. ASSUME NEW k \in 1..Len(channel'), ~IsIntent(channel'[k])
        PROVE  /\ flush[channel'[k]] # "idle"
               /\ \A x \in before[channel'[k]] :
                    \/ phase[x] = "resolved" \/ InBatch(x)
                    \/ \E i \in 1..(k - 1) : channel'[i] = x
    <3>1. k \in 1..Len(channel) /\ channel'[k] = channel[k]
      BY <1>2, <2>2 DEF IsIntent
    <3>2. \A i \in 1..(k - 1) : channel'[i] = channel[i]
      BY <1>2, <3>1
    <3> QED BY <1>1, <2>2, <3>1, <3>2 DEF BarriersOrdered
  <2> QED BY <1>1, <1>3, <2>1, <2>2 DEF BarriersOrdered, IsIntent, InBatch
<1>10. OutcomesHold' /\ PlanMatchesBatch'
  BY OutcomesAside
<1>11. FlushCoversEarlier'
  BY <1>3 DEF IInv, FlushCoversEarlier
<1> QED BY <1>4, <1>6, <1>7, <1>8, <1>9, <1>10, <1>11 DEF IInv

LEMMA TrySendStep == ASSUME IInv, NEW t \in Tickets, TrySend(t) PROVE IInv'
<1>1. /\ call[t] = "counted"
      /\ UNCHANGED <<policy, flush, before, pending, target, worker, tickets>>
  BY DEF TrySend, workerVars, tickets
<1>2. CASE Connected /\ Len(channel) < Capacity
  <2>1. channel' = Append(channel, t) /\ call' = [call EXCEPT ![t] = "sent"] /\ depth' = depth
    BY <1>2 DEF TrySend
  <2> QED BY <1>1, <1>2, <2>1, SendAccepted
<1>3. CASE ~(Connected /\ Len(channel) < Capacity)
  <2>1. /\ depth' = depth - 1 /\ channel' = channel
        /\ \E c \in {"full", "closed"} : call' = [call EXCEPT ![t] = c]
    BY <1>3 DEF TrySend
  <2> QED BY <1>1, <2>1, SendRefused
<1> QED BY <1>2, <1>3

\* The barrier takes its place behind every intent that was sent.
LEMMA FlushSendStep == ASSUME IInv, NEW f \in Flushes, FlushSend(f) PROVE IInv'
<1>1. /\ flush[f] = "idle"
      /\ UNCHANGED <<policy, depth, call, phase, mail, batch, plan, published, pending,
                     target, worker>>
  BY DEF FlushSend, workerVars
<1>2. Typed /\ TicketsPlaced /\ DepthCounts /\ BarriersOrdered /\ FlushCoversEarlier
      /\ WorkerPlaced
  BY DEF IInv
<1>3. OutcomesHold' /\ PlanMatchesBatch' /\ WidthBounded'
  BY <1>1, OutcomesAside DEF tickets, IInv, WidthBounded
<1>4. CASE /\ Connected /\ channel' = Append(channel, f)
           /\ flush' = [flush EXCEPT ![f] = "waiting"]
           /\ before' = [before EXCEPT ![f] = {t \in Tickets : call[t] = "sent"}]
  <2>1. /\ Len(channel) \in Nat /\ Len(channel') = Len(channel) + 1
        /\ channel' \in Seq(Tickets \cup Flushes)
        /\ \A i \in 1..Len(channel) : channel'[i] = channel[i]
        /\ channel'[Len(channel) + 1] = f
        /\ \A i \in 1..Len(channel) : channel[i] \in Tickets \cup Flushes
    BY <1>4, ChannelGrows
  <2>2. f \notin Tickets
    BY QueuedControllerAssumption
  <2>3. /\ \A g \in Flushes : g # f => flush'[g] = flush[g] /\ before'[g] = before[g]
        /\ flush'[f] = "waiting" /\ before'[f] = {t \in Tickets : call[t] = "sent"}
    BY <1>2, <1>4 DEF Typed
  <2>4. Typed'
    BY <1>1, <1>2, <1>4, <2>1 DEF Typed
  <2>5. TicketsPlaced'
    BY <1>1, <1>2, <2>1, <2>2 DEF TicketsPlaced, IsIntent
  <2>6. WorkerPlaced'
    BY <1>1, <1>2, <1>4 DEF WorkerPlaced, Connected
  <2>7. DepthCounts'
    <3>1. Reserving' = Reserving
      BY <1>1 DEF Reserving
    <3>2. Waiting = {x \in Tickets : \E i \in 1..Len(channel) : channel[i] = x}
      BY <1>2, WaitingFacts
    <3>3. Waiting' = {x \in Tickets : \E i \in 1..Len(channel') : channel'[i] = x}
      BY <2>1, IntentsOf DEF Waiting, IsIntent
    <3>4. Waiting' = Waiting
      BY <2>1, <2>2, <3>2, <3>3
    <3> QED BY <1>1, <1>2, <3>1, <3>4 DEF DepthCounts, Connected
  <2>8. BarriersOrdered'
    <3>1. ASSUME NEW x \in Tickets, call[x] = "sent"
          PROVE  \/ phase[x] = "resolved" \/ InBatch(x)
                 \/ \E i \in 1..Len(channel) : channel'[i] = x
      <4>1. phase[x] = "resolved" \/ InBatch(x) \/ \E i \in 1..Len(channel) : channel[i] = x
        BY <1>2, <1>4, <3>1 DEF BarriersOrdered
      <4> QED BY <2>1, <4>1
    <3>2. ASSUME NEW k \in 1..Len(channel'), ~IsIntent(channel'[k])
          PROVE  /\ flush'[channel'[k]] # "idle"
                 /\ \A x \in before'[channel'[k]] :
                      \/ phase[x] = "resolved" \/ InBatch(x)
                      \/ \E i \in 1..(k - 1) : channel'[i] = x
      <4>1. CASE k = Len(channel) + 1
        <5>1. k - 1 = Len(channel)
          BY <2>1, <4>1
        <5> QED BY <2>1, <2>3, <3>1, <4>1, <5>1
      <4>2. CASE k # Len(channel) + 1
        <5>1. k \in 1..Len(channel) /\ channel'[k] = channel[k]
          BY <2>1, <4>2
        <5>2. \A i \in 1..(k - 1) : channel'[i] = channel[i]
          BY <2>1, <5>1
        <5>3. /\ flush[channel[k]] # "idle" /\ channel[k] \in Flushes
              /\ \A x \in before[channel[k]] :
                    phase[x] = "resolved" \/ InBatch(x) \/ \E i \in 1..(k - 1) : channel[i] = x
          BY <1>2, <2>1, <3>2, <5>1 DEF BarriersOrdered, IsIntent
        <5>4. channel[k] # f
          BY <1>1, <5>3
        <5> QED BY <2>3, <5>1, <5>2, <5>3, <5>4
      <4> QED BY <4>1, <4>2
    <3>3. ASSUME NEW k \in 1..Len(pending)
          PROVE  /\ flush'[pending[k]] # "idle"
                 /\ \A x \in before'[pending[k]] : phase[x] = "resolved" \/ InBatch(x)
      <4>1. /\ flush[pending[k]] # "idle" /\ pending[k] \in Flushes
            /\ \A x \in before[pending[k]] : phase[x] = "resolved" \/ InBatch(x)
        BY <1>2, ElementOfSeq DEF BarriersOrdered, Typed
      <4>2. pending[k] # f
        BY <1>1, <4>1
      <4> QED BY <2>3, <4>1, <4>2
    <3>4. ASSUME NEW x \in Tickets, call[x] = "sent"
          PROVE  \/ phase[x] = "resolved" \/ InBatch(x)
                 \/ \E i \in 1..Len(channel') : channel'[i] = x
      BY <2>1, <3>1, <3>4
    <3> QED BY <1>1, <3>2, <3>3, <3>4 DEF BarriersOrdered, InBatch, IsIntent
  <2>9. FlushCoversEarlier'
    BY <1>1, <1>2, <2>3 DEF FlushCoversEarlier
  <2> QED BY <1>3, <2>4, <2>5, <2>6, <2>7, <2>8, <2>9 DEF IInv
<1>5. CASE ~Connected /\ flush' = [flush EXCEPT ![f] = "stopped"] /\ UNCHANGED <<channel, before>>
  <2>1. channel = <<>>
    BY <1>2, <1>5 DEF WorkerPlaced
  <2>2. Len(channel) = 0
    BY <2>1
  <2>3. Typed'
    BY <1>1, <1>2, <1>5 DEF Typed
  <2>4. TicketsPlaced' /\ WorkerPlaced'
    BY <1>1, <1>2, <1>5 DEF TicketsPlaced, WorkerPlaced, IsIntent, Connected
  <2>5. Reserving' = Reserving /\ Waiting' = Waiting
    BY <1>1, <1>5 DEF Reserving, Waiting, IsIntent
  <2>6. DepthCounts'
    BY <1>1, <1>2, <2>5 DEF DepthCounts, Connected
  <2>7. \A k \in 1..Len(pending) : flush'[pending[k]] # "idle"
    BY <1>2, <1>5, ElementOfSeq DEF BarriersOrdered, Typed
  <2>8. BarriersOrdered'
    BY <1>1, <1>2, <1>5, <2>2, <2>7 DEF BarriersOrdered, InBatch, IsIntent, Connected
  <2>9. FlushCoversEarlier'
    BY <1>1, <1>2, <1>5 DEF FlushCoversEarlier, Typed
  <2> QED BY <1>3, <2>3, <2>4, <2>6, <2>8, <2>9 DEF IInv
<1> QED BY <1>4, <1>5 DEF FlushSend

\* A flush that is answered or stopped: what is left in the two queues is as it was.
LEMMA FlushStoppedStep == ASSUME IInv, NEW f \in Flushes, FlushStopped(f) PROVE IInv'
<1>1. /\ flush' = [flush EXCEPT ![f] = "stopped"]
      /\ UNCHANGED <<policy, channel, depth, call, phase, mail, batch, plan, published, pending,
                     target, worker, before>>
  BY DEF FlushStopped, workerVars
<1>2. Typed /\ TicketsPlaced /\ DepthCounts /\ BarriersOrdered /\ FlushCoversEarlier
      /\ WorkerPlaced
  BY DEF IInv
<1>3. OutcomesHold' /\ PlanMatchesBatch' /\ WidthBounded'
  BY <1>1, OutcomesAside DEF tickets, IInv, WidthBounded
<1>4. Typed'
  BY <1>1, <1>2 DEF Typed
<1>5. TicketsPlaced' /\ WorkerPlaced'
  BY <1>1, <1>2 DEF TicketsPlaced, WorkerPlaced, IsIntent, Connected
<1>6. Reserving' = Reserving /\ Waiting' = Waiting
  BY <1>1 DEF Reserving, Waiting, IsIntent
<1>7. DepthCounts'
  BY <1>1, <1>2, <1>6 DEF DepthCounts, Connected
<1>8. \A g \in Flushes : flush[g] # "idle" => flush'[g] # "idle"
  BY <1>1, <1>2 DEF Typed
<1>9. /\ \A k \in 1..Len(pending) : pending[k] \in Flushes
      /\ \A k \in 1..Len(channel) : ~IsIntent(channel[k]) => channel[k] \in Flushes
  BY <1>2, ElementOfSeq DEF Typed, IsIntent
<1>10. BarriersOrdered'
  BY <1>1, <1>2, <1>8, <1>9 DEF BarriersOrdered, InBatch, IsIntent, Connected
<1>11. FlushCoversEarlier'
  BY <1>1, <1>2 DEF FlushCoversEarlier, Typed
<1> QED BY <1>3, <1>4, <1>5, <1>7, <1>10, <1>11 DEF IInv

-----------------------------------------------------------------------------
(* The worker's steps.                                                       *)

LEMMA ChannelShrinks ==
    ASSUME IInv, channel # <<>>, channel' = Tail(channel)
    PROVE  /\ Len(channel) \in Nat /\ Len(channel) > 0 /\ Len(channel') = Len(channel) - 1
           /\ Head(channel) = channel[1]
           /\ channel' \in Seq(Tickets \cup Flushes)
           /\ \A i \in 1..Len(channel') : i + 1 \in 1..Len(channel) /\ channel'[i] = channel[i + 1]
           /\ \A i \in 1..Len(channel) : channel[i] \in Tickets \cup Flushes
           /\ \A i \in 1..Len(channel) : i # 1 => i - 1 \in 1..Len(channel') /\ channel'[i - 1] = channel[i]
<1>1. channel \in Seq(Tickets \cup Flushes)
  BY DEF IInv, Typed
<1>2. /\ Len(channel) \in Nat /\ Len(channel) > 0
      /\ Head(channel) = channel[1]
      /\ Tail(channel) \in Seq(Tickets \cup Flushes) /\ Len(Tail(channel)) = Len(channel) - 1
      /\ \A i \in 1..Len(Tail(channel)) :
            i + 1 \in 1..Len(channel) /\ Tail(channel)[i] = channel[i + 1]
  BY <1>1, HeadTailFacts
<1>3. \A i \in 1..Len(channel) : channel[i] \in Tickets \cup Flushes
  BY <1>1, ElementOfSeq
<1>4. \A i \in 1..Len(channel) : i # 1 =>
        i - 1 \in 1..Len(Tail(channel)) /\ Tail(channel)[i - 1] = channel[i]
  <2> TAKE i \in 1..Len(channel)
  <2> HAVE i # 1
  <2>1. i - 1 \in 1..Len(Tail(channel)) /\ (i - 1) + 1 = i
    BY <1>2
  <2>2. Tail(channel)[i - 1] = channel[(i - 1) + 1]
    BY <1>2, <2>1
  <2> QED BY <2>1, <2>2
<1> QED BY <1>2, <1>3, <1>4

\* The barrier at the head is answered when every earlier intent is resolved:
\* the batch is empty and no intent is ahead of it.
LEMMA AnswerBarrierStep == ASSUME IInv, AnswerBarrier PROVE IInv'
<1>1. /\ worker = "idle" /\ pending \o channel # <<>>
      /\ ~IsIntent(Head(pending \o channel))
      /\ flush' = [flush EXCEPT ![Head(pending \o channel)] = "returned"]
      /\ IF pending # <<>> THEN pending' = Tail(pending) /\ channel' = channel
         ELSE channel' = Tail(channel) /\ pending' = pending
      /\ UNCHANGED <<policy, depth, call, phase, mail, batch, plan, published, target, worker,
                     before>>
  BY DEF AnswerBarrier
<1>2. Typed /\ TicketsPlaced /\ DepthCounts /\ BarriersOrdered /\ FlushCoversEarlier
      /\ WorkerPlaced
  BY DEF IInv
<1>3. OutcomesHold' /\ PlanMatchesBatch' /\ WidthBounded'
  BY <1>1, OutcomesAside DEF tickets, IInv, WidthBounded
<1>4. batch = <<>> /\ Len(batch) = 0 /\ Connected
  BY <1>1, <1>2 DEF WorkerPlaced, Connected, Gone
<1>5. channel \in Seq(Tickets \cup Flushes) /\ pending \in Seq(Flushes)
  BY <1>2 DEF Typed
<1>6. CASE pending # <<>>
  <2>1. /\ Len(pending) \in Nat /\ Len(pending) > 0 /\ pending[1] \in Flushes
        /\ Tail(pending) \in Seq(Flushes) /\ Len(Tail(pending)) = Len(pending) - 1
        /\ \A i \in 1..Len(Tail(pending)) :
            i + 1 \in 1..Len(pending) /\ Tail(pending)[i] = pending[i + 1]
    BY <1>5, <1>6, HeadTailFacts
  <2>2. Head(pending \o channel) = pending[1]
    <3>1. pending \in Seq(Tickets \cup Flushes)
      BY <1>5, SeqDef
    <3>2. /\ pending \o channel \in Seq(Tickets \cup Flushes)
          /\ (pending \o channel)[1] = pending[1]
      BY <1>5, <2>1, <3>1, ConcatProperties
    <3> QED BY <1>1, <3>2, HeadTailFacts
  <2>3. pending' = Tail(pending) /\ channel' = channel
        /\ flush' = [flush EXCEPT ![pending[1]] = "returned"]
    BY <1>1, <1>6, <2>2
  <2>4. Typed'
    BY <1>1, <1>2, <2>1, <2>3 DEF Typed
  <2>5. TicketsPlaced' /\ WorkerPlaced'
    BY <1>1, <1>2, <2>3 DEF TicketsPlaced, WorkerPlaced, IsIntent, Connected
  <2>6. Reserving' = Reserving /\ Waiting' = Waiting
    BY <1>1, <2>3 DEF Reserving, Waiting, IsIntent
  <2>7. DepthCounts'
    BY <1>1, <1>2, <2>6 DEF DepthCounts, Connected
  <2>8. \A g \in Flushes : flush[g] # "idle" => flush'[g] # "idle"
    BY <1>2, <2>3 DEF Typed
  <2>9. \A k \in 1..Len(channel) : ~IsIntent(channel[k]) => channel[k] \in Flushes
    BY <1>2, ElementOfSeq DEF Typed, IsIntent
  <2>10. ASSUME NEW k \in 1..Len(pending')
         PROVE  /\ flush'[pending'[k]] # "idle"
                /\ \A x \in before[pending'[k]] : phase[x] = "resolved" \/ InBatch(x)
    <3>1. k + 1 \in 1..Len(pending) /\ pending'[k] = pending[k + 1]
      BY <2>1, <2>3
    <3>2. pending[k + 1] \in Flushes
      BY <1>5, <3>1, ElementOfSeq
    <3> QED BY <1>2, <2>8, <3>1, <3>2 DEF BarriersOrdered
  <2>11. BarriersOrdered'
    <3>1. \A t \in Tickets : Connected' /\ call'[t] = "sent" =>
            phase'[t] = "resolved" \/ InBatch(t)'
              \/ \E i \in 1..Len(channel') : channel'[i] = t
      BY <1>1, <1>2, <2>3 DEF BarriersOrdered, InBatch, Connected
    <3>2. \A k \in 1..Len(channel') : ~IsIntent(channel'[k]) =>
            /\ flush'[channel'[k]] # "idle"
            /\ \A t \in before'[channel'[k]] :
                phase'[t] = "resolved" \/ InBatch(t)'
                  \/ \E i \in 1..(k - 1) : channel'[i] = t
      BY <1>1, <1>2, <2>3, <2>8, <2>9 DEF BarriersOrdered, InBatch
    <3>3. \A k \in 1..Len(pending') :
            /\ flush'[pending'[k]] # "idle"
            /\ \A t \in before'[pending'[k]] : phase'[t] = "resolved" \/ InBatch(t)'
      BY <1>1, <2>10 DEF InBatch
    <3> QED BY <3>1, <3>2, <3>3 DEF BarriersOrdered, IsIntent
  <2>12. \A x \in before[pending[1]] : phase[x] = "resolved"
    BY <1>2, <1>4, <2>1 DEF BarriersOrdered, InBatch
  <2>13. FlushCoversEarlier'
    BY <1>1, <1>2, <2>3, <2>12 DEF FlushCoversEarlier, Typed
  <2> QED BY <1>3, <2>4, <2>5, <2>7, <2>11, <2>13 DEF IInv
<1>7. CASE pending = <<>>
  <2>1. pending \o channel = channel
    BY <1>5, <1>7, ConcatEmptySeq
  <2>2. /\ channel # <<>> /\ channel' = Tail(channel) /\ pending' = pending
        /\ ~IsIntent(Head(channel)) /\ flush' = [flush EXCEPT ![Head(channel)] = "returned"]
    BY <1>1, <1>7, <2>1
  <2>3. /\ Len(channel) \in Nat /\ Len(channel) > 0 /\ Len(channel') = Len(channel) - 1
        /\ Head(channel) = channel[1]
        /\ channel' \in Seq(Tickets \cup Flushes)
        /\ \A i \in 1..Len(channel') : i + 1 \in 1..Len(channel) /\ channel'[i] = channel[i + 1]
        /\ \A i \in 1..Len(channel) : channel[i] \in Tickets \cup Flushes
        /\ \A i \in 1..Len(channel) : i # 1 => i - 1 \in 1..Len(channel') /\ channel'[i - 1] = channel[i]
    BY <2>2, ChannelShrinks
  <2>4. 1 \in 1..Len(channel) /\ channel[1] \in Flushes /\ channel[1] \notin Tickets
    BY <2>2, <2>3 DEF IsIntent
  <2>5. Len(pending) = 0
    BY <1>7
  <2>6. Typed'
    BY <1>1, <1>2, <2>2, <2>3, <2>4 DEF Typed
  <2>7. TicketsPlaced'
    <3>1. \A i, j \in 1..Len(channel') : channel'[i] = channel'[j] /\ channel'[i] \in Tickets => i = j
      <4> TAKE i, j \in 1..Len(channel')
      <4>1. i + 1 \in 1..Len(channel) /\ j + 1 \in 1..Len(channel)
            /\ channel'[i] = channel[i + 1] /\ channel'[j] = channel[j + 1]
        BY <2>3
      <4>2. channel[i + 1] = channel[j + 1] /\ channel[i + 1] \in Tickets => i + 1 = j + 1
        BY <1>2, <4>1 DEF TicketsPlaced, IsIntent
      <4> QED BY <2>3, <4>1, <4>2
    <3>2. \A i \in 1..Len(channel') : channel'[i] \in Tickets =>
            phase[channel'[i]] = "queued" /\ call[channel'[i]] = "sent"
      BY <1>2, <2>3 DEF TicketsPlaced, IsIntent
    <3> QED BY <1>1, <1>2, <3>1, <3>2 DEF TicketsPlaced, IsIntent
  <2>8. WorkerPlaced'
    BY <1>1, <1>4 DEF WorkerPlaced, Connected
  <2>9. DepthCounts'
    <3>1. Reserving' = Reserving
      BY <1>1 DEF Reserving
    <3>2. Waiting = {x \in Tickets : \E i \in 1..Len(channel) : channel[i] = x}
      BY <1>2, WaitingFacts
    <3>3. Waiting' = {x \in Tickets : \E i \in 1..Len(channel') : channel'[i] = x}
      BY <2>3, IntentsOf DEF Waiting, IsIntent
    <3>4. ASSUME NEW x \in Tickets
          PROVE  (\E i \in 1..Len(channel) : channel[i] = x)
                    <=> (\E i \in 1..Len(channel') : channel'[i] = x)
      BY <2>3, <2>4
    <3>5. Waiting' = Waiting
      BY <3>2, <3>3, <3>4
    <3> QED BY <1>1, <1>2, <3>1, <3>5 DEF DepthCounts, Connected
  <2>10. BarriersOrdered'
    <3>1. ASSUME NEW x \in Tickets, call[x] = "sent"
          PROVE  phase[x] = "resolved" \/ \E i \in 1..Len(channel') : channel'[i] = x
      <4>1. phase[x] = "resolved" \/ \E i \in 1..Len(channel) : channel[i] = x
        BY <1>2, <1>4, <3>1 DEF BarriersOrdered, InBatch
      <4> QED BY <2>3, <2>4, <4>1
    <3>2. ASSUME NEW k \in 1..Len(channel'), channel'[k] \notin Tickets
          PROVE  /\ flush'[channel'[k]] # "idle"
                 /\ \A x \in before[channel'[k]] :
                      phase[x] = "resolved" \/ \E i \in 1..(k - 1) : channel'[i] = x
      <4>1. /\ k + 1 \in 1..Len(channel) /\ channel'[k] = channel[k + 1]
            /\ channel[k + 1] \in Flushes /\ (k + 1) - 1 = k
        BY <2>3, <3>2
      <4>2. /\ flush[channel[k + 1]] # "idle"
            /\ \A x \in before[channel[k + 1]] :
                 phase[x] = "resolved" \/ \E i \in 1..k : channel[i] = x
        BY <1>2, <1>4, <3>2, <4>1 DEF BarriersOrdered, InBatch, IsIntent
      <4>3. flush'[channel[k + 1]] # "idle"
        BY <1>2, <2>2, <4>1, <4>2 DEF Typed
      <4>4. ASSUME NEW x \in before[channel[k + 1]], NEW i \in 1..k, channel[i] = x
            PROVE  \E j \in 1..(k - 1) : channel'[j] = x
        <5>1. x \in Tickets
          BY <1>2, <4>1 DEF Typed
        <5>2. i # 1 /\ i \in 1..Len(channel)
          BY <2>3, <2>4, <4>1, <4>4, <5>1
        <5>3. i - 1 \in 1..(k - 1) /\ channel'[i - 1] = x
          BY <2>3, <4>4, <5>2
        <5> QED BY <5>3
      <4>5. \A x \in before[channel[k + 1]] :
                phase[x] = "resolved" \/ \E j \in 1..(k - 1) : channel'[j] = x
        BY <4>2, <4>4
      <4> QED BY <4>1, <4>3, <4>5
    <3>3. \A k \in 1..Len(pending') : FALSE
      BY <2>2, <2>5
    <3>4. UNCHANGED <<call, phase, before>>
      BY <1>1
    <3> QED BY <3>1, <3>2, <3>3, <3>4 DEF BarriersOrdered, IsIntent
  <2>11. \A x \in before[channel[1]] : phase[x] = "resolved"
    BY <1>2, <1>4, <2>2, <2>3, <2>4 DEF BarriersOrdered, InBatch, IsIntent
  <2>12. FlushCoversEarlier'
    BY <1>1, <1>2, <2>2, <2>3, <2>11 DEF FlushCoversEarlier, Typed
  <2> QED BY <1>3, <2>6, <2>7, <2>8, <2>9, <2>10, <2>12 DEF IInv
<1> QED BY <1>6, <1>7

\* The head of the channel, an intent, joins the batch.
LEMMA ClaimStep ==
    ASSUME IInv, worker \in Collecting \cup {"idle"}, channel # <<>>, IsIntent(Head(channel)),
           channel' = Tail(channel), Claim(Head(channel)), Len(batch) < policy.max,
           worker' \in {"drain", "timed", "redrain"},
           UNCHANGED <<policy, call, mail, flush, before, pending, target, plan, published>>
    PROVE  IInv'
<1>1. Typed /\ TicketsPlaced /\ DepthCounts /\ BarriersOrdered /\ FlushCoversEarlier
      /\ OutcomesHold /\ PlanMatchesBatch /\ WidthBounded
  BY DEF IInv
<1>2. /\ Len(channel) \in Nat /\ Len(channel) > 0 /\ Len(channel') = Len(channel) - 1
      /\ Head(channel) = channel[1]
      /\ channel' \in Seq(Tickets \cup Flushes)
      /\ \A i \in 1..Len(channel') : i + 1 \in 1..Len(channel) /\ channel'[i] = channel[i + 1]
      /\ \A i \in 1..Len(channel) : channel[i] \in Tickets \cup Flushes
      /\ \A i \in 1..Len(channel) : i # 1 => i - 1 \in 1..Len(channel') /\ channel'[i - 1] = channel[i]
  BY ChannelShrinks
<1>3. PICK t \in Tickets :
        /\ t = channel[1] /\ 1 \in 1..Len(channel)
        /\ depth' = depth - 1 /\ phase' = [phase EXCEPT ![t] = "claimed"]
        /\ batch' = Append(batch, t)
  <2>1. channel[1] \in Tickets /\ 1 \in 1..Len(channel)
    BY <1>2 DEF IsIntent
  <2>2. Claim(channel[1])
    BY <1>2
  <2> QED BY <2>1, <2>2 DEF Claim
<1>4. phase[t] = "queued" /\ call[t] = "sent"
  BY <1>1, <1>3 DEF TicketsPlaced, IsIntent
<1>5. /\ phase'[t] = "claimed" /\ \A x \in Tickets : x # t => phase'[x] = phase[x]
      /\ phase' \in [Tickets -> {"queued", "claimed", "resolved"}]
  BY <1>1, <1>3 DEF Typed
<1>6. /\ batch' \in Seq(Tickets) /\ Len(batch) \in Nat /\ Len(batch') = Len(batch) + 1
      /\ \A i \in 1..Len(batch) : batch'[i] = batch[i] /\ batch[i] \in Tickets
      /\ batch'[Len(batch) + 1] = t
  <2>1. batch \in Seq(Tickets)
    BY <1>1 DEF Typed
  <2>2. /\ Append(batch, t) \in Seq(Tickets) /\ Len(batch) \in Nat
        /\ Len(Append(batch, t)) = Len(batch) + 1
        /\ \A i \in 1..Len(batch) : Append(batch, t)[i] = batch[i]
        /\ Append(batch, t)[Len(batch) + 1] = t
    BY <1>3, <2>1, AppendFacts
  <2>3. \A i \in 1..Len(batch) : batch[i] \in Tickets
    BY <2>1, ElementOfSeq
  <2> QED BY <1>3, <2>2, <2>3
<1>7. \A i \in 1..Len(batch) : batch[i] # t
  BY <1>1, <1>4 DEF TicketsPlaced
<1>8. \A i \in 1..Len(channel') : channel'[i] # t
  <2> TAKE i \in 1..Len(channel')
  <2>1. i + 1 \in 1..Len(channel) /\ channel'[i] = channel[i + 1] /\ i + 1 # 1
    BY <1>2
  <2>2. channel[i + 1] # channel[1]
    BY <1>1, <1>3, <2>1 DEF TicketsPlaced, IsIntent
  <2> QED BY <1>3, <2>1, <2>2
<1>9. worker' # "route" /\ worker' \notin Gone /\ worker # "route" /\ worker \notin Gone
  BY DEF Gone, Collecting
<1>10. Typed'
  BY <1>1, <1>2, <1>3, <1>5, <1>6 DEF Typed, Collecting
<1>11. TicketsPlaced'
  <2>1. \A i, j \in 1..Len(channel') : channel'[i] = channel'[j] /\ channel'[i] \in Tickets => i = j
    <3> TAKE i, j \in 1..Len(channel')
    <3>1. i + 1 \in 1..Len(channel) /\ j + 1 \in 1..Len(channel)
          /\ channel'[i] = channel[i + 1] /\ channel'[j] = channel[j + 1]
      BY <1>2
    <3>2. channel[i + 1] = channel[j + 1] /\ channel[i + 1] \in Tickets => i + 1 = j + 1
      BY <1>1, <3>1 DEF TicketsPlaced, IsIntent
    <3> QED BY <1>2, <3>1, <3>2
  <2>2. \A i \in 1..Len(channel') : channel'[i] \in Tickets =>
          phase'[channel'[i]] = "queued" /\ call[channel'[i]] = "sent"
    BY <1>1, <1>2, <1>5, <1>8 DEF TicketsPlaced, IsIntent
  <2>3. \A i, j \in 1..Len(batch') : batch'[i] = batch'[j] => i = j
    BY <1>1, <1>6, <1>7 DEF TicketsPlaced
  <2>4. \A i \in 1..Len(batch') : phase'[batch'[i]] = "claimed"
    BY <1>1, <1>5, <1>6, <1>7 DEF TicketsPlaced
  <2>5. \A x \in Tickets : phase'[x] # "queued" => call[x] = "sent"
    BY <1>1, <1>4, <1>5 DEF TicketsPlaced
  <2> QED BY <2>1, <2>2, <2>3, <2>4, <2>5 DEF TicketsPlaced, IsIntent
<1>12. WorkerPlaced'
  BY <1>9 DEF WorkerPlaced, Connected
<1>13. DepthCounts'
  <2>1. Reserving' = Reserving
    BY DEF Reserving
  <2>2. Waiting = {x \in Tickets : \E i \in 1..Len(channel) : channel[i] = x}
    BY <1>1, WaitingFacts
  <2>3. Waiting' = {x \in Tickets : \E i \in 1..Len(channel') : channel'[i] = x}
    BY <1>2, IntentsOf DEF Waiting, IsIntent
  <2>4. ASSUME NEW x \in Tickets
        PROVE  (\E i \in 1..Len(channel') : channel'[i] = x)
                  <=> (\E i \in 1..Len(channel) : channel[i] = x) /\ x # t
    BY <1>2, <1>3, <1>8
  <2>5. Waiting' = Waiting \ {t} /\ t \in Waiting
    BY <1>3, <2>2, <2>3, <2>4
  <2>6. IsFiniteSet(Waiting) /\ Cardinality(Waiting) \in Nat /\ Cardinality(Reserving) \in Nat
    BY <1>1, WaitingFacts
  <2>7. Cardinality(Waiting') = Cardinality(Waiting) - 1
    BY <2>5, <2>6, FS_RemoveElement
  <2>8. depth \in Int /\ Capacity \in Nat
    BY <1>1, QueuedControllerAssumption DEF Typed
  <2> QED BY <1>1, <1>3, <1>9, <2>1, <2>6, <2>7, <2>8 DEF DepthCounts, Connected
<1>14. WidthBounded'
  <2>1. policy.max \in Nat
    BY <1>1, PolicyFacts
  <2> QED BY <1>1, <1>6, <2>1 DEF WidthBounded
<1>15. BarriersOrdered'
  <2>1. InBatch(t)' /\ \A x : InBatch(x) => InBatch(x)'
    BY <1>6 DEF InBatch
  <2>2. ASSUME NEW x \in Tickets, phase[x] = "resolved" \/ InBatch(x) \/ x = t
        PROVE  phase'[x] = "resolved" \/ InBatch(x)'
    BY <1>4, <1>5, <2>1, <2>2
  <2>3. ASSUME NEW x \in Tickets, call[x] = "sent"
        PROVE  phase'[x] = "resolved" \/ InBatch(x)' \/ \E i \in 1..Len(channel') : channel'[i] = x
    <3>1. phase[x] = "resolved" \/ InBatch(x) \/ \E i \in 1..Len(channel) : channel[i] = x
      BY <1>1, <1>9, <2>3 DEF BarriersOrdered, Connected
    <3>2. ASSUME NEW i \in 1..Len(channel), channel[i] = x
          PROVE  x = t \/ \E j \in 1..Len(channel') : channel'[j] = x
      BY <1>2, <1>3, <3>2
    <3> QED BY <2>2, <3>1, <3>2
  <2>4. ASSUME NEW k \in 1..Len(channel'), channel'[k] \notin Tickets
        PROVE  /\ flush[channel'[k]] # "idle"
               /\ \A x \in before[channel'[k]] :
                    phase'[x] = "resolved" \/ InBatch(x)' \/ \E i \in 1..(k - 1) : channel'[i] = x
    <3>1. /\ k + 1 \in 1..Len(channel) /\ channel'[k] = channel[k + 1]
          /\ channel[k + 1] \in Flushes /\ (k + 1) - 1 = k
      BY <1>2, <2>4
    <3>2. /\ flush[channel[k + 1]] # "idle"
          /\ \A x \in before[channel[k + 1]] :
               phase[x] = "resolved" \/ InBatch(x) \/ \E i \in 1..k : channel[i] = x
      BY <1>1, <2>4, <3>1 DEF BarriersOrdered, IsIntent
    <3>3. ASSUME NEW x \in before[channel[k + 1]]
          PROVE  phase'[x] = "resolved" \/ InBatch(x)' \/ \E i \in 1..(k - 1) : channel'[i] = x
      <4>1. x \in Tickets
        BY <1>1, <3>1 DEF Typed
      <4>2. ASSUME NEW i \in 1..k, channel[i] = x
            PROVE  x = t \/ \E j \in 1..(k - 1) : channel'[j] = x
        <5>1. CASE i = 1
          BY <1>3, <4>2, <5>1
        <5>2. CASE i # 1
          <6>1. i \in 1..Len(channel)
            BY <1>2, <3>1
          <6>2. i - 1 \in 1..(k - 1) /\ channel'[i - 1] = x
            BY <1>2, <4>2, <5>2, <6>1
          <6> QED BY <6>2
        <5> QED BY <5>1, <5>2
      <4> QED BY <2>2, <3>2, <4>1, <4>2
    <3> QED BY <3>1, <3>2, <3>3
  <2>5. ASSUME NEW k \in 1..Len(pending)
        PROVE  /\ flush[pending[k]] # "idle"
               /\ \A x \in before[pending[k]] : phase'[x] = "resolved" \/ InBatch(x)'
    <3>1. pending[k] \in Flushes /\ flush[pending[k]] # "idle"
          /\ \A x \in before[pending[k]] : phase[x] = "resolved" \/ InBatch(x)
      BY <1>1, ElementOfSeq DEF BarriersOrdered, Typed
    <3>2. before[pending[k]] \subseteq Tickets
      BY <1>1, <3>1 DEF Typed
    <3> QED BY <2>2, <3>1, <3>2
  <2> QED BY <2>3, <2>4, <2>5 DEF BarriersOrdered, IsIntent, InBatch
<1>16. ~IsPublished(t)
  BY <1>1, <1>3, <1>4 DEF OutcomesHold
<1>17. OutcomesHold' /\ PlanMatchesBatch'
  <2>1. \A i \in 1..Len(batch') : ~IsPublished(batch'[i])
    BY <1>1, <1>6, <1>9, <1>16 DEF PlanMatchesBatch
  <2>2. PlanMatchesBatch'
    BY <1>9, <2>1 DEF PlanMatchesBatch, IsPublished
  <2>3. mail[t] = Unsent
    BY <1>1, <1>3, <1>4 DEF OutcomesHold
  <2>4. \A x \in Tickets : (phase'[x] = "resolved" <=> phase[x] = "resolved")
                           /\ (phase[x] # "queued" => phase'[x] # "queued")
    BY <1>4, <1>5
  <2>5. OutcomesHold'
    BY <1>1, <2>4 DEF OutcomesHold, IsPublished
  <2> QED BY <2>2, <2>5
<1>18. FlushCoversEarlier'
  <2>1. \A x \in Tickets : phase[x] = "resolved" => phase'[x] = "resolved"
    BY <1>4, <1>5
  <2> QED BY <1>1, <2>1 DEF FlushCoversEarlier, Typed
<1> QED BY <1>10, <1>11, <1>12, <1>13, <1>14, <1>15, <1>17, <1>18 DEF IInv

LEMMA ReceiveStep == ASSUME IInv, Receive PROVE IInv'
<1>1. Len(batch) < policy.max
  <2>1. batch = <<>> /\ Typed
    BY DEF IInv, Receive, WorkerPlaced
  <2>2. policy.max \in Nat /\ policy.max > 0
    BY <2>1, PolicyFacts
  <2> QED BY <2>1, <2>2
<1> QED BY <1>1, ClaimStep DEF Receive, callVars

LEMMA LimitBounded == ASSUME IInv PROVE Limit \in Nat /\ Limit <= policy.max
<1>1. policy.max \in Nat
  BY PolicyFacts DEF IInv
<1> QED BY <1>1 DEF IInv, Limit, WidthBounded, Typed

LEMMA CollectStep == ASSUME IInv, Collect PROVE IInv'
<1>1. Len(batch) < policy.max
  <2>1. Limit \in Nat /\ Limit <= policy.max /\ policy.max \in Nat /\ Len(batch) \in Nat
    BY LimitBounded, PolicyFacts, LenProperties DEF IInv, Typed
  <2>2. worker = "probe" \/ Len(batch) < Limit
    BY DEF Collect
  <2> QED BY <2>1, <2>2 DEF IInv, WidthBounded
<1>2. worker' \in {"drain", "timed", "redrain"}
  BY DEF Collect
<1> QED BY <1>1, <1>2, ClaimStep DEF Collect, callVars, Collecting

\* A step that only moves the worker to another place of the same epoch.
LEMMA WorkerMoves ==
    ASSUME IInv, UNCHANGED <<policy, channel, depth, call, flush, before, pending, tickets>>,
           target' \in Nat, target' <= policy.max,
           worker \notin Gone, worker # "route",
           worker' \in Collecting \cup Sealing \cup {"sealed"},
           worker' = "probe" => Len(batch) < policy.max
    PROVE  IInv'
<1>1. UNCHANGED <<phase, mail, batch, plan, published>>
  BY DEF tickets
<1>2. worker' \notin Gone /\ worker' # "idle" /\ worker' # "route"
  BY DEF Collecting, Sealing, Gone
<1>3. Typed' /\ WorkerPlaced' /\ WidthBounded'
  BY <1>1, <1>2 DEF IInv, Typed, WorkerPlaced, WidthBounded, Connected
<1>4. TicketsPlaced' /\ FlushCoversEarlier'
  BY <1>1 DEF IInv, TicketsPlaced, IsIntent, FlushCoversEarlier
<1>5. Reserving' = Reserving /\ Waiting' = Waiting
  BY DEF Reserving, Waiting, IsIntent
<1>6. DepthCounts'
  BY <1>2, <1>5 DEF IInv, DepthCounts, Connected
<1>7. BarriersOrdered'
  BY <1>1, <1>2 DEF IInv, BarriersOrdered, InBatch, IsIntent, Connected
<1>8. OutcomesHold' /\ PlanMatchesBatch'
  BY <1>1, <1>2, OutcomesAside
<1> QED BY <1>3, <1>4, <1>6, <1>7, <1>8 DEF IInv

\* Where collecting leads: to the seal, or to a probe below the target width.
LEMMA AfterCollectFacts ==
    ASSUME NEW w \in AfterCollect
    PROVE  w \in Sealing \cup {"probe"} /\ (w = "probe" => Len(batch) < target)
<1>1. CASE worker = "drain" /\ policy.kind = "adaptive" /\ Len(batch) < target
  BY <1>1 DEF AfterCollect, Sealing
<1>2. CASE ~(worker = "drain" /\ policy.kind = "adaptive" /\ Len(batch) < target)
  <2>1. AfterCollect \in {{"width"}, {"lowTraffic"}, {"full"}}
    BY <1>2 DEF AfterCollect
  <2> QED BY <2>1 DEF Sealing
<1> QED BY <1>1, <1>2

LEMMA ProbeBelowMax ==
    ASSUME IInv, NEW w \in AfterCollect
    PROVE  w \in Sealing \cup {"probe"} /\ (w = "probe" => Len(batch) < policy.max)
<1>1. w \in Sealing \cup {"probe"} /\ (w = "probe" => Len(batch) < target)
  BY AfterCollectFacts
<1>2. policy.max \in Nat /\ target \in Nat /\ target <= policy.max /\ Len(batch) \in Nat
  BY PolicyFacts, LenProperties DEF IInv, Typed, WidthBounded
<1> QED BY <1>1, <1>2

LEMMA CollectEndsStep == ASSUME IInv, CollectEnds PROVE IInv'
<1>1. UNCHANGED <<policy, channel, depth, call, flush, before, pending, tickets, target>>
  BY DEF CollectEnds, callVars, tickets
<1>2. worker \in Collecting
  BY DEF CollectEnds, Collecting
<1>3. /\ worker' \in Sealing \cup {"probe"}
      /\ worker' = "probe" => Len(batch) < policy.max
  <2>1. CASE worker' \in AfterCollect
    BY <2>1, ProbeBelowMax
  <2>2. CASE worker' \in {"full", "lowTraffic", "stalled"}
    BY <2>2 DEF Sealing
  <2> QED BY <2>1, <2>2 DEF CollectEnds
<1>4. target' \in Nat /\ target' <= policy.max
  BY <1>1 DEF IInv, Typed, WidthBounded
<1>5. worker \notin Gone /\ worker # "route" /\ worker' \in Collecting \cup Sealing \cup {"sealed"}
  BY <1>2, <1>3 DEF Collecting, Gone
<1> QED BY <1>1, <1>3, <1>4, <1>5, WorkerMoves

\* The adaptive target stays within the policy's bounds, whatever ended a batch.
LEMMA TargetBounded ==
    ASSUME IInv, NEW reason, NEW width \in Nat
    PROVE  UpdateTarget(reason, width) \in Nat /\ UpdateTarget(reason, width) <= policy.max
<1>1. /\ policy.max \in Nat /\ policy.min \in Nat /\ policy.min <= policy.max
      /\ target \in Nat /\ target <= policy.max
  BY PolicyFacts DEF IInv, Typed, WidthBounded
<1>2. target \div 2 \in Nat /\ target \div 2 <= target
  BY <1>1
<1>3. \/ UpdateTarget(reason, width) = target
      \/ UpdateTarget(reason, width) = Least((target + 1) * 2, policy.max)
      \/ UpdateTarget(reason, width) = Most(target \div 2, policy.min)
      \/ UpdateTarget(reason, width) = Least(Most(width, policy.min), policy.max)
  BY DEF UpdateTarget
<1>4. /\ Least((target + 1) * 2, policy.max) \in Nat
      /\ Least((target + 1) * 2, policy.max) <= policy.max
  BY <1>1 DEF Least
<1>5. /\ Most(target \div 2, policy.min) \in Nat
      /\ Most(target \div 2, policy.min) <= policy.max
  BY <1>1, <1>2 DEF Most
<1>6. /\ Least(Most(width, policy.min), policy.max) \in Nat
      /\ Least(Most(width, policy.min), policy.max) <= policy.max
  BY <1>1 DEF Least, Most
<1> QED BY <1>1, <1>3, <1>4, <1>5, <1>6

LEMMA SealStep == ASSUME IInv, Seal PROVE IInv'
<1>1. UNCHANGED <<policy, channel, depth, call, flush, before, pending, tickets>>
      /\ worker \in Sealing /\ worker' = "sealed"
  BY DEF Seal, callVars, tickets
<1>2. target' \in Nat /\ target' <= policy.max
  <2>1. Len(batch) \in Nat /\ target \in Nat /\ target <= policy.max
    BY LenProperties DEF IInv, Typed, WidthBounded
  <2>2. /\ UpdateTarget(worker, Len(batch)) \in Nat
        /\ UpdateTarget(worker, Len(batch)) <= policy.max
    BY <2>1, TargetBounded
  <2>3. target' = UpdateTarget(worker, Len(batch)) \/ target' = target
    BY DEF Seal
  <2> QED BY <2>1, <2>2, <2>3
<1>3. worker \notin Gone /\ worker # "route"
  BY <1>1 DEF Sealing, Gone
<1> QED BY <1>1, <1>2, <1>3, WorkerMoves

\* A barrier at the head of the channel is behind no intent but the batch's.
LEMMA CollectBarrierStep == ASSUME IInv, CollectBarrier PROVE IInv'
<1>1. /\ worker \in Collecting
      /\ channel # <<>> /\ ~IsIntent(Head(channel)) /\ channel' = Tail(channel)
      /\ pending' = Append(pending, Head(channel))
      /\ worker' \in (IF worker = "probe" THEN {"barrier"} ELSE AfterCollect)
      /\ UNCHANGED <<policy, depth, call, phase, mail, flush, before, batch, target, plan,
                     published>>
  BY DEF CollectBarrier, callVars, Collecting
<1>2. Typed /\ TicketsPlaced /\ DepthCounts /\ BarriersOrdered /\ FlushCoversEarlier
      /\ WidthBounded
  BY DEF IInv
<1>3. /\ Len(channel) \in Nat /\ Len(channel) > 0 /\ Len(channel') = Len(channel) - 1
      /\ Head(channel) = channel[1]
      /\ channel' \in Seq(Tickets \cup Flushes)
      /\ \A i \in 1..Len(channel') : i + 1 \in 1..Len(channel) /\ channel'[i] = channel[i + 1]
      /\ \A i \in 1..Len(channel) : channel[i] \in Tickets \cup Flushes
      /\ \A i \in 1..Len(channel) : i # 1 => i - 1 \in 1..Len(channel') /\ channel'[i - 1] = channel[i]
  BY <1>1, ChannelShrinks
<1>4. 1 \in 1..Len(channel) /\ channel[1] \in Flushes /\ channel[1] \notin Tickets
  BY <1>1, <1>3 DEF IsIntent
<1>5. /\ pending' \in Seq(Flushes) /\ Len(pending) \in Nat /\ Len(pending') = Len(pending) + 1
      /\ \A i \in 1..Len(pending) : pending'[i] = pending[i]
      /\ pending'[Len(pending) + 1] = channel[1]
  <2>1. pending \in Seq(Flushes)
    BY <1>2 DEF Typed
  <2>2. /\ Append(pending, channel[1]) \in Seq(Flushes) /\ Len(pending) \in Nat
        /\ Len(Append(pending, channel[1])) = Len(pending) + 1
        /\ \A i \in 1..Len(pending) : Append(pending, channel[1])[i] = pending[i]
        /\ Append(pending, channel[1])[Len(pending) + 1] = channel[1]
    BY <1>4, <2>1, AppendFacts
  <2> QED BY <1>1, <1>3, <2>2
<1>6. /\ worker' \in Sealing \cup {"probe"}
      /\ worker' = "probe" => Len(batch) < policy.max
  <2>1. CASE worker' \in AfterCollect
    BY <2>1, ProbeBelowMax
  <2>2. CASE worker' = "barrier"
    BY <2>2 DEF Sealing
  <2> QED BY <1>1, <2>1, <2>2
<1>7. /\ worker \notin Gone /\ worker' \notin Gone /\ worker # "route" /\ worker' # "route"
      /\ worker' # "idle" /\ worker' \in Collecting \cup Sealing
  BY <1>1, <1>6 DEF Gone, Collecting, Sealing
<1>8. Typed'
  BY <1>1, <1>2, <1>3, <1>5, <1>7 DEF Typed
<1>9. TicketsPlaced'
  <2>1. \A i, j \in 1..Len(channel') : channel'[i] = channel'[j] /\ channel'[i] \in Tickets => i = j
    <3> TAKE i, j \in 1..Len(channel')
    <3>1. i + 1 \in 1..Len(channel) /\ j + 1 \in 1..Len(channel)
          /\ channel'[i] = channel[i + 1] /\ channel'[j] = channel[j + 1]
      BY <1>3
    <3>2. channel[i + 1] = channel[j + 1] /\ channel[i + 1] \in Tickets => i + 1 = j + 1
      BY <1>2, <3>1 DEF TicketsPlaced, IsIntent
    <3> QED BY <1>3, <3>1, <3>2
  <2>2. \A i \in 1..Len(channel') : channel'[i] \in Tickets =>
          phase[channel'[i]] = "queued" /\ call[channel'[i]] = "sent"
    BY <1>2, <1>3 DEF TicketsPlaced, IsIntent
  <2> QED BY <1>1, <1>2, <2>1, <2>2 DEF TicketsPlaced, IsIntent
<1>10. WorkerPlaced' /\ WidthBounded'
  BY <1>1, <1>2, <1>6, <1>7 DEF WorkerPlaced, WidthBounded, Connected
<1>11. DepthCounts'
  <2>1. Reserving' = Reserving
    BY <1>1 DEF Reserving
  <2>2. Waiting = {x \in Tickets : \E i \in 1..Len(channel) : channel[i] = x}
    BY <1>2, WaitingFacts
  <2>3. Waiting' = {x \in Tickets : \E i \in 1..Len(channel') : channel'[i] = x}
    BY <1>3, IntentsOf DEF Waiting, IsIntent
  <2>4. ASSUME NEW x \in Tickets
        PROVE  (\E i \in 1..Len(channel) : channel[i] = x)
                  <=> (\E i \in 1..Len(channel') : channel'[i] = x)
    BY <1>3, <1>4
  <2>5. Waiting' = Waiting
    BY <2>2, <2>3, <2>4
  <2> QED BY <1>1, <1>2, <1>7, <2>1, <2>5 DEF DepthCounts, Connected
<1>12. BarriersOrdered'
  <2>1. ASSUME NEW x \in Tickets, call[x] = "sent"
        PROVE  phase[x] = "resolved" \/ InBatch(x) \/ \E i \in 1..Len(channel') : channel'[i] = x
    <3>1. phase[x] = "resolved" \/ InBatch(x) \/ \E i \in 1..Len(channel) : channel[i] = x
      BY <1>2, <1>7, <2>1 DEF BarriersOrdered, Connected
    <3> QED BY <1>3, <1>4, <3>1
  <2>2. ASSUME NEW k \in 1..Len(channel'), channel'[k] \notin Tickets
        PROVE  /\ flush[channel'[k]] # "idle"
               /\ \A x \in before[channel'[k]] :
                    phase[x] = "resolved" \/ InBatch(x) \/ \E i \in 1..(k - 1) : channel'[i] = x
    <3>1. /\ k + 1 \in 1..Len(channel) /\ channel'[k] = channel[k + 1]
          /\ channel[k + 1] \in Flushes /\ (k + 1) - 1 = k
      BY <1>3, <2>2
    <3>2. /\ flush[channel[k + 1]] # "idle"
          /\ \A x \in before[channel[k + 1]] :
               phase[x] = "resolved" \/ InBatch(x) \/ \E i \in 1..k : channel[i] = x
      BY <1>2, <2>2, <3>1 DEF BarriersOrdered, IsIntent
    <3>3. ASSUME NEW x \in before[channel[k + 1]], NEW i \in 1..k, channel[i] = x
          PROVE  \E j \in 1..(k - 1) : channel'[j] = x
      <4>1. x \in Tickets
        BY <1>2, <3>1 DEF Typed
      <4>2. i # 1 /\ i \in 1..Len(channel)
        BY <1>3, <1>4, <3>1, <3>3, <4>1
      <4>3. i - 1 \in 1..(k - 1) /\ channel'[i - 1] = x
        BY <1>3, <3>3, <4>2
      <4> QED BY <4>3
    <3>4. \A x \in before[channel[k + 1]] :
            phase[x] = "resolved" \/ InBatch(x) \/ \E j \in 1..(k - 1) : channel'[j] = x
      BY <3>2, <3>3
    <3> QED BY <3>1, <3>2, <3>4
  <2>3. ASSUME NEW k \in 1..Len(pending')
        PROVE  /\ flush[pending'[k]] # "idle"
               /\ \A x \in before[pending'[k]] : phase[x] = "resolved" \/ InBatch(x)
    <3>1. CASE k = Len(pending) + 1
      <4>1. 1..(1 - 1) = {}
        OBVIOUS
      <4>2. /\ flush[channel[1]] # "idle"
            /\ \A x \in before[channel[1]] : phase[x] = "resolved" \/ InBatch(x)
        BY <1>2, <1>4, <4>1 DEF BarriersOrdered, IsIntent
      <4> QED BY <1>5, <3>1, <4>2
    <3>2. CASE k # Len(pending) + 1
      <4>1. k \in 1..Len(pending) /\ pending'[k] = pending[k]
        BY <1>5, <3>2
      <4> QED BY <1>2, <4>1 DEF BarriersOrdered
    <3> QED BY <3>1, <3>2
  <2>4. UNCHANGED <<call, phase, flush, before, batch>>
    BY <1>1
  <2> QED BY <2>1, <2>2, <2>3, <2>4 DEF BarriersOrdered, IsIntent, InBatch
<1>13. OutcomesHold' /\ PlanMatchesBatch'
  BY <1>1, <1>7, OutcomesAside DEF tickets
<1>14. FlushCoversEarlier'
  BY <1>1, <1>2 DEF FlushCoversEarlier
<1> QED BY <1>8, <1>9, <1>10, <1>11, <1>12, <1>13, <1>14 DEF IInv

\* The worker leaves, its channel empty, or falls back to waiting with an empty batch.
LEMMA WorkerRests ==
    ASSUME IInv, worker \notin Gone, batch = <<>>,
           \/ worker' = "idle"
           \/ worker' = "exited" /\ channel = <<>>,
           UNCHANGED <<policy, channel, depth, call, flush, before, pending, tickets, target>>
    PROVE  IInv'
<1>1. UNCHANGED <<phase, mail, batch, plan, published>> /\ worker' # "route"
      /\ worker' # "probe" /\ Len(batch) = 0
  BY DEF tickets
<1>2. worker' = "exited" => channel = <<>>
  OBVIOUS
<1>3. Typed' /\ WorkerPlaced' /\ WidthBounded'
  BY <1>1, <1>2 DEF IInv, Typed, WorkerPlaced, WidthBounded, Connected, Gone
<1>4. TicketsPlaced' /\ FlushCoversEarlier'
  BY <1>1 DEF IInv, TicketsPlaced, IsIntent, FlushCoversEarlier
<1>5. Reserving' = Reserving /\ Waiting' = Waiting
  BY DEF Reserving, Waiting, IsIntent
<1>6. Cardinality(Waiting) \in Nat /\ Cardinality(Reserving) \in Nat /\ depth \in Int
  BY WaitingFacts DEF IInv, Typed
<1>7. DepthCounts'
  BY <1>5, <1>6 DEF IInv, DepthCounts, Connected
<1>8. BarriersOrdered'
  BY <1>1 DEF IInv, BarriersOrdered, InBatch, IsIntent, Connected
<1>9. OutcomesHold' /\ PlanMatchesBatch'
  BY <1>1 DEF IInv, OutcomesHold, PlanMatchesBatch, IsPublished
<1> QED BY <1>3, <1>4, <1>7, <1>8, <1>9 DEF IInv

\* A panic drops the batch and both queues; nothing of them was answered.
LEMMA WorkerPanicsStep == ASSUME IInv, WorkerPanics PROVE IInv'
<1>1. /\ worker = "sealed" /\ worker' = "panicked"
      /\ channel' = <<>> /\ pending' = <<>> /\ batch' = <<>>
      /\ UNCHANGED <<policy, depth, call, phase, mail, flush, before, target, plan, published>>
  BY DEF WorkerPanics, callVars
<1>2. Len(channel') = 0 /\ Len(pending') = 0 /\ Len(batch') = 0
  BY <1>1
<1>3. worker' \in Gone /\ worker \notin Gone
  BY <1>1 DEF Gone
<1>4. Typed'
  BY <1>1, <1>3 DEF IInv, Typed
<1>5. TicketsPlaced' /\ WorkerPlaced' /\ FlushCoversEarlier'
  BY <1>1, <1>2 DEF IInv, TicketsPlaced, WorkerPlaced, FlushCoversEarlier
<1>6. WidthBounded'
  BY <1>1, <1>2, PolicyFacts DEF IInv, WidthBounded
<1>7. Reserving' = Reserving
  BY <1>1 DEF Reserving
<1>8. Cardinality(Waiting) \in Nat /\ Cardinality(Reserving) \in Nat /\ depth \in Int
  BY WaitingFacts DEF IInv, Typed
<1>9. DepthCounts'
  BY <1>1, <1>3, <1>7, <1>8 DEF IInv, DepthCounts, Connected
<1>10. BarriersOrdered'
  BY <1>1, <1>2, <1>3 DEF BarriersOrdered, Connected
<1>11. OutcomesHold' /\ PlanMatchesBatch'
  BY <1>1, <1>2 DEF IInv, OutcomesHold, PlanMatchesBatch, IsPublished
<1> QED BY <1>4, <1>5, <1>6, <1>9, <1>10, <1>11 DEF IInv

\* The epoch of the batch, none of which was published before, is published.
LEMMA CommitEpochStep == ASSUME IInv, CommitEpoch PROVE IInv'
<1>1. /\ worker = "sealed" /\ worker' = "route"
      /\ UNCHANGED <<policy, channel, depth, call, phase, mail, flush, before, batch, pending,
                     target>>
  BY DEF CommitEpoch, callVars
<1>2. PICK accepted \in SUBSET Range(batch) :
        /\ published' = (IF accepted = {} THEN published ELSE Append(published, accepted))
        /\ plan' = [i \in DOMAIN batch |-> batch[i] \in accepted]
  BY DEF CommitEpoch
<1>3. Typed /\ TicketsPlaced /\ OutcomesHold /\ PlanMatchesBatch
  BY DEF IInv
<1>4. batch \in Seq(Tickets) /\ Len(batch) \in Nat /\ DOMAIN batch = 1..Len(batch)
      /\ published \in Seq(SUBSET Tickets) /\ Len(published) \in Nat
  BY <1>3, LenProperties DEF Typed
<1>5. ASSUME NEW x \in accepted
      PROVE  /\ x \in Tickets /\ \E i \in 1..Len(batch) : batch[i] = x
             /\ phase[x] = "claimed" /\ ~IsPublished(x) /\ mail[x] = Unsent
  <2>1. PICK i \in 1..Len(batch) : batch[i] = x
    BY <1>4 DEF Range
  <2>2. x \in Tickets
    BY <1>4, <2>1, ElementOfSeq
  <2>3. phase[x] = "claimed" /\ ~IsPublished(x)
    BY <1>1, <1>3, <2>1 DEF TicketsPlaced, PlanMatchesBatch
  <2> QED BY <1>3, <2>1, <2>2, <2>3 DEF OutcomesHold
<1>6. accepted \in SUBSET Tickets
  BY <1>5
<1>7. /\ published' \in Seq(SUBSET Tickets)
      /\ Len(published') \in Nat /\ Len(published) <= Len(published')
      /\ \A v \in 1..Len(published) : published'[v] = published[v]
      /\ \A v \in 1..Len(published') : v \notin 1..Len(published) =>
            v = Len(published') /\ published'[v] = accepted
      /\ accepted # {} => Len(published') > 0 /\ published'[Len(published')] = accepted
  <2>1. CASE accepted = {}
    BY <1>2, <1>4, <2>1
  <2>2. CASE accepted # {}
    <3>1. /\ Append(published, accepted) \in Seq(SUBSET Tickets)
          /\ Len(Append(published, accepted)) = Len(published) + 1
          /\ \A v \in 1..Len(published) : Append(published, accepted)[v] = published[v]
          /\ Append(published, accepted)[Len(published) + 1] = accepted
      BY <1>4, <1>6, AppendFacts
    <3>2. published' = Append(published, accepted)
      BY <1>2, <2>2
    <3> QED BY <1>4, <3>1, <3>2
  <2> QED BY <2>1, <2>2
<1>8. ASSUME NEW x
      PROVE  (\E v \in 1..Len(published') : x \in published'[v]) <=> IsPublished(x) \/ x \in accepted
  <2>1. ASSUME NEW v \in 1..Len(published'), x \in published'[v]
        PROVE  IsPublished(x) \/ x \in accepted
    BY <1>7, <2>1 DEF IsPublished
  <2>2. ASSUME IsPublished(x) PROVE \E v \in 1..Len(published') : x \in published'[v]
    <3>1. PICK v \in 1..Len(published) : x \in published[v]
      BY <2>2 DEF IsPublished
    <3>2. v \in 1..Len(published') /\ x \in published'[v]
      BY <1>4, <1>7, <3>1
    <3> QED BY <3>2
  <2>3. ASSUME x \in accepted PROVE \E v \in 1..Len(published') : x \in published'[v]
    <3>1. Len(published') \in 1..Len(published') /\ x \in published'[Len(published')]
      BY <1>7, <2>3
    <3> QED BY <3>1
  <2> QED BY <2>1, <2>2, <2>3
<1>9. Typed'
  BY <1>1, <1>3, <1>7 DEF Typed
<1>10. TicketsPlaced' /\ FlushCoversEarlier' /\ WorkerPlaced' /\ WidthBounded'
  BY <1>1 DEF IInv, TicketsPlaced, IsIntent, FlushCoversEarlier, WorkerPlaced, WidthBounded,
              Connected, Gone
<1>11. DepthCounts'
  <2>1. Reserving' = Reserving /\ Waiting' = Waiting
    BY <1>1 DEF Reserving, Waiting, IsIntent
  <2> QED BY <1>1, <2>1 DEF IInv, DepthCounts, Connected, Gone
<1>12. BarriersOrdered'
  <2>1. worker \notin Gone
    BY <1>1 DEF Gone
  <2> QED BY <1>1, <2>1 DEF IInv, BarriersOrdered, InBatch, IsIntent, Connected
<1>13. OutcomesHold'
  <2>1. ASSUME NEW x \in Tickets
        PROVE  /\ mail[x] > 0 => mail[x] <= Len(published') /\ x \in published'[mail[x]]
               /\ mail[x] = 0 => ~IsPublished(x)'
               /\ phase[x] = "resolved" <=> mail[x] # Unsent
               /\ IsPublished(x)' => phase[x] # "queued"
               /\ mail[x] >= Unsent
    <3>1. mail[x] \in Int
      BY <1>3 DEF Typed
    <3>2. mail[x] > 0 => mail[x] \in 1..Len(published) /\ x \in published[mail[x]]
      BY <1>3, <1>4, <3>1 DEF OutcomesHold
    <3>3. mail[x] > 0 => mail[x] <= Len(published') /\ x \in published'[mail[x]]
      BY <1>4, <1>7, <3>1, <3>2
    <3>4. mail[x] = 0 => ~IsPublished(x)'
      BY <1>3, <1>5, <1>8 DEF OutcomesHold, IsPublished, Unsent
    <3>5. IsPublished(x)' => phase[x] # "queued"
      BY <1>3, <1>5, <1>8 DEF OutcomesHold, IsPublished
    <3> QED BY <1>3, <3>3, <3>4, <3>5 DEF OutcomesHold
  <2>2. \A v, w \in 1..Len(published') : v # w => published'[v] \cap published'[w] = {}
    <3>1. \A v \in 1..Len(published) : published[v] \cap accepted = {}
      BY <1>5 DEF IsPublished
    <3>2. \A v, w \in 1..Len(published) : v # w => published[v] \cap published[w] = {}
      BY <1>3 DEF OutcomesHold
    <3> SUFFICES ASSUME NEW v \in 1..Len(published'), NEW w \in 1..Len(published'), v # w
                 PROVE  published'[v] \cap published'[w] = {}
      OBVIOUS
    <3>3. CASE v \in 1..Len(published) /\ w \in 1..Len(published)
      BY <1>7, <3>2, <3>3
    <3>4. CASE v \in 1..Len(published) /\ w \notin 1..Len(published)
      BY <1>7, <3>1, <3>4
    <3>5. CASE v \notin 1..Len(published) /\ w \in 1..Len(published)
      BY <1>7, <3>1, <3>5
    <3>6. CASE v \notin 1..Len(published) /\ w \notin 1..Len(published)
      BY <1>7, <3>6
    <3> QED BY <3>3, <3>4, <3>5, <3>6
  <2> QED BY <1>1, <2>1, <2>2 DEF OutcomesHold
<1>14. PlanMatchesBatch'
  <2>1. plan' \in [1..Len(batch) -> BOOLEAN]
    BY <1>2, <1>4
  <2>2. plan' \in Seq(BOOLEAN) /\ Len(plan') = Len(batch)
    BY <1>4, <2>1, SeqDef
  <2>3. ASSUME NEW i \in 1..Len(batch)
        PROVE  /\ plan'[i] <=> IsPublished(batch[i])'
               /\ IsPublished(batch[i])' =>
                    Len(published') > 0 /\ batch[i] \in published'[Len(published')]
    <3>1. ~IsPublished(batch[i])
      BY <1>1, <1>3 DEF PlanMatchesBatch
    <3>2. plan'[i] = (batch[i] \in accepted)
      BY <1>2, <1>4
    <3>3. (\E v \in 1..Len(published') : batch[i] \in published'[v]) <=> batch[i] \in accepted
      BY <1>8, <3>1
    <3>4. batch[i] \in accepted => Len(published') > 0 /\ batch[i] \in published'[Len(published')]
      BY <1>7
    <3>5. IsPublished(batch[i])' <=> batch[i] \in accepted
      BY <1>1, <3>3 DEF IsPublished
    <3>6. plan'[i] <=> IsPublished(batch[i])'
      BY <3>2, <3>5, Zenon
    <3> QED BY <3>4, <3>5, <3>6
  <2> QED BY <1>1, <2>2, <2>3 DEF PlanMatchesBatch, IsPublished
<1> QED BY <1>9, <1>10, <1>11, <1>12, <1>13, <1>14 DEF IInv

\* The ticket at the front of the batch gets the verdict at the front of the plan.
LEMMA AnswerStep ==
    ASSUME IInv, worker = "route", batch # <<>>, Answer(Head(batch), Head(plan))
    PROVE  IInv'
<1>1. /\ UNCHANGED <<policy, channel, depth, call, flush, before, worker, pending, target,
                     published>>
      /\ batch' = Tail(batch) /\ plan' = Tail(plan)
  BY DEF Answer, callVars
<1>2. Typed /\ TicketsPlaced /\ OutcomesHold /\ PlanMatchesBatch /\ BarriersOrdered
      /\ FlushCoversEarlier
  BY DEF IInv
<1>3. batch \in Seq(Tickets) /\ published \in Seq(SUBSET Tickets) /\ Len(published) \in Nat
      /\ plan \in Seq(BOOLEAN) /\ Len(plan) = Len(batch)
  BY <1>2, LenProperties DEF Typed, PlanMatchesBatch
<1>4. /\ Len(batch) \in Nat /\ Len(batch) > 0 /\ 1 \in 1..Len(batch)
      /\ Head(batch) = batch[1] /\ batch[1] \in Tickets
      /\ Tail(batch) \in Seq(Tickets) /\ Len(Tail(batch)) = Len(batch) - 1
      /\ \A i \in 1..Len(Tail(batch)) : i + 1 \in 1..Len(batch) /\ Tail(batch)[i] = batch[i + 1]
  BY <1>3, HeadTailFacts
<1>5. /\ plan # <<>> /\ Head(plan) = plan[1]
      /\ Tail(plan) \in Seq(BOOLEAN) /\ Len(Tail(plan)) = Len(plan) - 1
      /\ \A i \in 1..Len(Tail(plan)) : Tail(plan)[i] = plan[i + 1]
  <2>1. plan # <<>>
    BY <1>3, <1>4
  <2> QED BY <1>3, <2>1, HeadTailFacts
<1>6. PICK t \in Tickets : t = batch[1]
  BY <1>4
<1>7. /\ mail' = [mail EXCEPT ![t] = IF plan[1] THEN Len(published) ELSE 0]
      /\ phase' = [phase EXCEPT ![t] = "resolved"]
  BY <1>4, <1>5, <1>6 DEF Answer
<1>8. /\ phase' \in [Tickets -> {"queued", "claimed", "resolved"}] /\ phase'[t] = "resolved"
      /\ \A x \in Tickets : x # t => phase'[x] = phase[x]
  BY <1>2, <1>7 DEF Typed
<1>9. plan[1] <=> IsPublished(t)
  <2>1. plan[1] <=> IsPublished(batch[1])
    BY <1>2, <1>4 DEF PlanMatchesBatch
  <2> QED BY <1>6, <2>1
<1>10. /\ mail' \in [Tickets -> Int]
       /\ mail'[t] = IF IsPublished(t) THEN Len(published) ELSE 0
       /\ \A x \in Tickets : x # t => mail'[x] = mail[x]
  <2>1. mail' = [mail EXCEPT ![t] = IF IsPublished(t) THEN Len(published) ELSE 0]
    BY <1>7, <1>9
  <2> QED BY <1>2, <1>3, <2>1 DEF Typed
<1>11. \A i \in 1..Len(batch') : i + 1 \in 1..Len(batch) /\ batch'[i] = batch[i + 1] /\ batch'[i] # t
  <2> TAKE i \in 1..Len(batch')
  <2>1. i + 1 \in 1..Len(batch) /\ batch'[i] = batch[i + 1] /\ i + 1 # 1
    BY <1>1, <1>4
  <2>2. batch[i + 1] # batch[1]
    BY <1>2, <1>4, <2>1 DEF TicketsPlaced
  <2> QED BY <1>6, <2>1, <2>2
<1>12. phase[t] = "claimed" /\ call[t] = "sent"
  BY <1>2, <1>4, <1>6 DEF TicketsPlaced
<1>13. Typed'
  BY <1>1, <1>2, <1>4, <1>8, <1>10 DEF Typed
<1>14. TicketsPlaced'
  <2>1. \A i, j \in 1..Len(batch') : batch'[i] = batch'[j] => i = j
    <3> TAKE i, j \in 1..Len(batch')
    <3>1. i + 1 \in 1..Len(batch) /\ j + 1 \in 1..Len(batch)
          /\ batch'[i] = batch[i + 1] /\ batch'[j] = batch[j + 1]
      BY <1>11
    <3>2. batch[i + 1] = batch[j + 1] => i + 1 = j + 1
      BY <1>2, <3>1 DEF TicketsPlaced
    <3>3. i \in Nat /\ j \in Nat
      BY <1>1, <1>4
    <3> QED BY <3>1, <3>2, <3>3
  <2>2. \A i \in 1..Len(batch') : phase'[batch'[i]] = "claimed"
    <3> TAKE i \in 1..Len(batch')
    <3>1. i + 1 \in 1..Len(batch) /\ batch'[i] = batch[i + 1] /\ batch'[i] # t
      BY <1>11
    <3>2. batch[i + 1] \in Tickets /\ phase[batch[i + 1]] = "claimed"
      BY <1>2, <1>3, <3>1, ElementOfSeq DEF TicketsPlaced
    <3> QED BY <1>8, <3>1, <3>2
  <2>3. \A i \in 1..Len(channel) : IsIntent(channel[i]) =>
            phase'[channel[i]] = "queued" /\ call[channel[i]] = "sent"
    BY <1>2, <1>8, <1>12 DEF TicketsPlaced, IsIntent
  <2>4. \A x \in Tickets : phase'[x] # "queued" => call[x] = "sent"
    BY <1>2, <1>8, <1>12 DEF TicketsPlaced
  <2> QED BY <1>1, <1>2, <2>1, <2>2, <2>3, <2>4 DEF TicketsPlaced, IsIntent
<1>15. WorkerPlaced'
  BY <1>1, Zenon DEF WorkerPlaced, Connected, IInv
<1>16. WidthBounded'
  <2>1. policy.max \in Nat
    BY <1>2, PolicyFacts
  <2> QED BY <1>1, <1>4, <2>1 DEF IInv, WidthBounded
<1>17. DepthCounts'
  <2>1. Reserving' = Reserving /\ Waiting' = Waiting
    BY <1>1 DEF Reserving, Waiting, IsIntent
  <2> QED BY <1>1, <2>1 DEF IInv, DepthCounts, Connected
<1>18. ASSUME NEW x \in Tickets, phase[x] = "resolved" \/ InBatch(x)
       PROVE  phase'[x] = "resolved" \/ InBatch(x)'
  <2>1. CASE phase[x] = "resolved"
    BY <1>8, <2>1
  <2>2. CASE InBatch(x)
    <3>1. PICK i \in 1..Len(batch) : batch[i] = x
      BY <2>2 DEF InBatch
    <3>2. CASE i = 1
      BY <1>6, <1>8, <3>1, <3>2
    <3>3. CASE i # 1
      <4>1. i - 1 \in 1..Len(Tail(batch)) /\ (i - 1) + 1 = i
        BY <1>4, <3>3
      <4>2. i - 1 \in 1..Len(batch') /\ batch'[i - 1] = x
        BY <1>1, <1>4, <3>1, <4>1
      <4> QED BY <4>2 DEF InBatch
    <3> QED BY <3>2, <3>3
  <2> QED BY <1>18, <2>1, <2>2
<1>19. BarriersOrdered'
  <2>1. ASSUME NEW k \in 1..Len(channel), channel[k] \notin Tickets
        PROVE  /\ flush[channel[k]] # "idle"
               /\ \A x \in before[channel[k]] :
                    phase'[x] = "resolved" \/ InBatch(x)' \/ \E i \in 1..(k - 1) : channel[i] = x
    <3>1. channel[k] \in Flushes
      BY <1>2, <2>1, ElementOfSeq DEF Typed
    <3>2. before[channel[k]] \subseteq Tickets
      BY <1>2, <3>1 DEF Typed
    <3>3. /\ flush[channel[k]] # "idle"
          /\ \A x \in before[channel[k]] :
               phase[x] = "resolved" \/ InBatch(x) \/ \E i \in 1..(k - 1) : channel[i] = x
      BY <1>2, <2>1 DEF BarriersOrdered, IsIntent
    <3> QED BY <1>18, <3>2, <3>3
  <2>2. ASSUME NEW k \in 1..Len(pending)
        PROVE  /\ flush[pending[k]] # "idle"
               /\ \A x \in before[pending[k]] : phase'[x] = "resolved" \/ InBatch(x)'
    <3>1. pending[k] \in Flushes /\ flush[pending[k]] # "idle"
          /\ \A x \in before[pending[k]] : phase[x] = "resolved" \/ InBatch(x)
      BY <1>2, ElementOfSeq DEF BarriersOrdered, Typed
    <3>2. before[pending[k]] \subseteq Tickets
      BY <1>2, <3>1 DEF Typed
    <3> QED BY <1>18, <3>1, <3>2
  <2>3. ASSUME NEW x \in Tickets, Connected, call[x] = "sent"
        PROVE  phase'[x] = "resolved" \/ InBatch(x)' \/ \E i \in 1..Len(channel) : channel[i] = x
    BY <1>2, <1>18, <2>3 DEF BarriersOrdered
  <2>4. UNCHANGED <<channel, call, flush, before, worker, pending>>
    BY <1>1
  <2> QED BY <2>1, <2>2, <2>3, <2>4 DEF BarriersOrdered, IsIntent, Connected
<1>20. OutcomesHold'
  <2>1. IsPublished(t) => Len(published) > 0 /\ t \in published[Len(published)]
    BY <1>2, <1>4, <1>6 DEF PlanMatchesBatch
  <2>2. ASSUME NEW x \in Tickets
        PROVE  /\ mail'[x] > 0 => mail'[x] <= Len(published) /\ x \in published[mail'[x]]
               /\ mail'[x] = 0 => ~IsPublished(x)
               /\ phase'[x] = "resolved" <=> mail'[x] # Unsent
               /\ IsPublished(x) => phase'[x] # "queued"
               /\ mail'[x] >= Unsent
    <3>1. CASE x = t
      <4>1. CASE IsPublished(t)
        BY <1>3, <1>8, <1>10, <2>1, <3>1, <4>1 DEF Unsent
      <4>2. CASE ~IsPublished(t)
        BY <1>3, <1>8, <1>10, <3>1, <4>2 DEF Unsent
      <4> QED BY <4>1, <4>2
    <3>2. CASE x # t
      <4>1. mail'[x] = mail[x] /\ phase'[x] = phase[x]
        BY <1>8, <1>10, <3>2
      <4> QED BY <1>2, <4>1 DEF OutcomesHold
    <3> QED BY <3>1, <3>2
  <2> QED BY <1>1, <1>2, <2>2 DEF OutcomesHold, IsPublished
<1>21. PlanMatchesBatch'
  <2>1. plan' \in Seq(BOOLEAN) /\ Len(plan') = Len(batch')
    BY <1>1, <1>3, <1>4, <1>5
  <2>2. ASSUME NEW i \in 1..Len(batch')
        PROVE  /\ plan'[i] <=> IsPublished(batch'[i])
               /\ IsPublished(batch'[i]) =>
                    Len(published) > 0 /\ batch'[i] \in published[Len(published)]
    <3>1. i + 1 \in 1..Len(batch) /\ batch'[i] = batch[i + 1]
      BY <1>11
    <3>2. plan'[i] = plan[i + 1]
      BY <1>1, <1>3, <1>4, <1>5
    <3>3. /\ plan[i + 1] <=> IsPublished(batch[i + 1])
          /\ IsPublished(batch[i + 1]) =>
                Len(published) > 0 /\ batch[i + 1] \in published[Len(published)]
      BY <1>2, <3>1 DEF PlanMatchesBatch
    <3> QED BY <3>1, <3>2, <3>3, Zenon
  <2> QED BY <1>1, <2>1, <2>2 DEF PlanMatchesBatch, IsPublished
<1>22. FlushCoversEarlier'
  <2>1. \A x \in Tickets : phase[x] = "resolved" => phase'[x] = "resolved"
    BY <1>8
  <2> QED BY <1>1, <1>2, <2>1 DEF FlushCoversEarlier, Typed
<1> QED BY <1>13, <1>14, <1>15, <1>16, <1>17, <1>19, <1>20, <1>21, <1>22 DEF IInv

LEMMA NextIInv == IInv /\ [Next]_vars => IInv'
<1> SUFFICES ASSUME IInv, [Next]_vars PROVE IInv'
  OBVIOUS
<1>1. ASSUME UNCHANGED <<policy, channel, depth, call, phase, mail, flush, before, workerVars>>
      PROVE  IInv'
  <2>1. UNCHANGED <<policy, channel, depth, call, flush, before, pending, target, worker, tickets>>
    BY <1>1 DEF workerVars, tickets
  <2>2. Reserving' = Reserving /\ Waiting' = Waiting
    BY <2>1 DEF Reserving, Waiting, IsIntent
  <2>3. DepthCounts'
    BY <2>1, <2>2 DEF IInv, DepthCounts, Connected
  <2>4. /\ call' \in [Tickets -> {"idle", "reserved", "counted", "sent", "full", "closed"}]
        /\ depth' \in Int
    BY <2>1 DEF IInv, Typed
  <2>5. \A t \in Tickets : call'[t] = "sent" <=> call[t] = "sent"
    BY <2>1
  <2> QED BY <2>1, <2>3, <2>4, <2>5, CallAside
<1>2. CASE UNCHANGED vars \/ DropController \/ JoinWorker \/ \E t \in Tickets : DropTicket(t)
  BY <1>1, <1>2 DEF vars, callVars, DropController, JoinWorker, DropTicket
<1>3. CASE WorkerExit
  <2>1. worker \notin Gone /\ batch = <<>>
    BY <1>3 DEF WorkerExit, IInv, WorkerPlaced, Gone
  <2> QED BY <1>3, <2>1, WorkerRests DEF WorkerExit, callVars, tickets
<1>4. CASE EpochDone
  <2>1. worker \notin Gone
    BY <1>4 DEF EpochDone, Gone
  <2> QED BY <1>4, <2>1, WorkerRests DEF EpochDone, callVars, tickets
<1>5. CASE RouteQueued \/ RouteSemantic
  BY <1>5, AnswerStep DEF RouteQueued, RouteSemantic
<1>6. CASE WorkerStep \/ WorkerPanics
  BY <1>3, <1>4, <1>5, <1>6, ReceiveStep, AnswerBarrierStep, CollectStep, CollectBarrierStep,
     CollectEndsStep, SealStep, CommitEpochStep, WorkerPanicsStep DEF WorkerStep
<1>7. CASE CallStep
  BY <1>7, CountInFlightStep, TrySendStep, FlushStoppedStep
  DEF CallStep, Submit, SubmitSemantic
<1>8. CASE (\E t \in Tickets : ReserveIngress(t)) \/ (\E f \in Flushes : FlushSend(f))
  BY <1>8, ReserveIngressStep, FlushSendStep
<1> QED BY <1>2, <1>6, <1>7, <1>8 DEF Next

-----------------------------------------------------------------------------
(* The theorems.                                                             *)

\* The inductive invariant holds in every reachable state of the controller.
THEOREM Invariance == Spec => []IInv
BY InitIInv, NextIInv, PTL DEF Spec

\* reserve_ingress never admits more than the channel holds, never underflows,
\* and gives every place back exactly once, whichever steps of the callers and
\* of the worker fall between reserving and sending; no batch outgrows its
\* policy, however the adaptive target moved.
THEOREM ReservationsExact == Spec => []ReservationsAreExact
<1>1. IInv => ReservationsAreExact
  <2> SUFFICES ASSUME IInv PROVE ReservationsAreExact
    OBVIOUS
  <2>1. Cardinality(Waiting) \in Nat /\ Cardinality(Reserving) \in Nat /\ depth \in Int
        /\ Capacity \in Nat
    BY WaitingFacts, QueuedControllerAssumption DEF IInv, Typed
  <2>2. depth \in 0..Capacity
    BY <2>1 DEF IInv, DepthCounts
  <2> QED BY <2>2 DEF IInv, DepthCounts, WidthBounded, Waiting, Reserving, ReservationsAreExact
<1> QED BY <1>1, Invariance, PTL

\* A ticket is told "accepted" with a published world that contains its intent,
\* "rejected" only when no published world does, and no intent is published
\* twice, whatever the grouping into batches.
THEOREM TicketsTruthful == Spec => []TicketsAreTruthful
<1>1. IInv => TicketsAreTruthful
  <2> SUFFICES ASSUME IInv PROVE TicketsAreTruthful
    OBVIOUS
  <2>1. DOMAIN published = 1..Len(published)
    BY LenProperties DEF IInv, Typed
  <2> QED BY <2>1 DEF IInv, OutcomesHold, IsPublished, TicketsAreTruthful
<1> QED BY <1>1, Invariance, PTL

\* A flush that returns covers every intent sent before its barrier.
THEOREM FlushIsComplete == Spec => []FlushCoversEarlier
<1>1. IInv => FlushCoversEarlier
  BY DEF IInv
<1> QED BY <1>1, Invariance, PTL

(***************************************************************************)
(* The database.                                                           *)
(***************************************************************************)
(* Sequences of anything.                                                    *)

IsSeq(x) == x \in Seq(Range(x))

LEMMA SeqShape ==
    ASSUME NEW x, IsSeq(x)
    PROVE  Len(x) \in Nat /\ DOMAIN x = 1..Len(x) /\ x = [i \in 1..Len(x) |-> x[i]]
BY DEF IsSeq

LEMMA SeqAny ==
    ASSUME NEW S, NEW x \in Seq(S)
    PROVE  IsSeq(x)
<1>1. Len(x) \in Nat /\ x = [i \in 1..Len(x) |-> x[i]] /\ DOMAIN x = 1..Len(x)
  OBVIOUS
<1>2. \A i \in 1..Len(x) : x[i] \in Range(x)
  BY <1>1 DEF Range
<1>3. x \in [1..Len(x) -> Range(x)]
  BY <1>1, <1>2
<1>4. x \in Seq(Range(x))
  BY <1>1, <1>3, SeqDef
<1> QED BY <1>4 DEF IsSeq

LEMMA SeqMade ==
    ASSUME NEW n \in Nat, NEW x, x = [i \in 1..n |-> x[i]]
    PROVE  IsSeq(x) /\ Len(x) = n
<1> DEFINE S == {x[i] : i \in 1..n}
<1>1. x \in [1..n -> S]
  OBVIOUS
<1>2. x \in Seq(S)
  BY <1>1, SeqDef
<1>3. Len(x) = n
  <2>1. Len(x) \in Nat /\ DOMAIN x = 1..Len(x) /\ DOMAIN x = 1..n
    BY <1>1, <1>2
  <2> HIDE DEF S
  <2> QED BY <2>1
<1> QED BY <1>2, <1>3, SeqAny

LEMMA SameSeq ==
    ASSUME NEW x, NEW y, IsSeq(x), IsSeq(y), Len(x) = Len(y),
           \A i \in 1..Len(x) : x[i] = y[i]
    PROVE  x = y
<1> DEFINE S == Range(x) \cup Range(y)
<1>1. x \in Seq(S) /\ y \in Seq(S)
  <2>1. x \in Seq(Range(x)) /\ Range(x) \subseteq S /\ y \in Seq(Range(y)) /\ Range(y) \subseteq S
    BY DEF IsSeq
  <2> HIDE DEF S
  <2> QED BY <2>1
<1> HIDE DEF S
<1> QED BY <1>1, SeqEqual

LEMMA SeqEmpty == IsSeq(<<>>) /\ Len(<<>>) = 0
<1>1. <<>> \in Seq({})
  BY EmptySeq
<1> QED BY <1>1, SeqAny

LEMMA SeqAppend ==
    ASSUME NEW x, IsSeq(x), NEW e
    PROVE  /\ IsSeq(Append(x, e)) /\ Len(Append(x, e)) = Len(x) + 1
           /\ \A i \in 1..Len(x) : Append(x, e)[i] = x[i]
           /\ Append(x, e)[Len(x) + 1] = e
<1> DEFINE S == Range(x) \cup {e}
<1>1. x \in Seq(S)
  <2>1. x \in Seq(Range(x)) /\ Range(x) \subseteq S
    BY DEF IsSeq
  <2> HIDE DEF S
  <2> QED BY <2>1
<1>2. e \in S
  OBVIOUS
<1> HIDE DEF S
<1>3. Append(x, e) \in Seq(S)
  BY <1>1, <1>2
<1>4. /\ Len(Append(x, e)) = Len(x) + 1
      /\ \A i \in 1..Len(x) : Append(x, e)[i] = x[i]
      /\ Append(x, e)[Len(x) + 1] = e
  BY <1>1, <1>2
<1> QED BY <1>3, <1>4, SeqAny

LEMMA SeqConcat ==
    ASSUME NEW x, IsSeq(x), NEW y, IsSeq(y)
    PROVE  /\ IsSeq(x \o y) /\ Len(x \o y) = Len(x) + Len(y)
           /\ \A i \in 1..Len(x) : (x \o y)[i] = x[i]
           /\ \A i \in 1..Len(y) : (x \o y)[Len(x) + i] = y[i]
<1> DEFINE S == Range(x) \cup Range(y)
<1>1. x \in Seq(S) /\ y \in Seq(S)
  <2>1. x \in Seq(Range(x)) /\ Range(x) \subseteq S /\ y \in Seq(Range(y)) /\ Range(y) \subseteq S
    BY DEF IsSeq
  <2> HIDE DEF S
  <2> QED BY <2>1
<1> HIDE DEF S
<1>2. x \o y \in Seq(S)
  BY <1>1
<1>3. /\ Len(x \o y) = Len(x) + Len(y)
      /\ \A i \in 1..Len(x) : (x \o y)[i] = x[i]
      /\ \A i \in 1..Len(y) : (x \o y)[Len(x) + i] = y[i]
  BY <1>1
<1> QED BY <1>2, <1>3, SeqAny

LEMMA SeqFirst ==
    ASSUME NEW x, IsSeq(x), NEW n \in 0..Len(x)
    PROVE  /\ IsSeq(SubSeq(x, 1, n)) /\ Len(SubSeq(x, 1, n)) = n
           /\ \A i \in 1..n : SubSeq(x, 1, n)[i] = x[i]
<1>1. x \in Seq(Range(x)) /\ Len(x) \in Nat
  BY SeqShape DEF IsSeq
<1>2. SubSeq(x, 1, n) \in Seq(Range(x)) /\ Len(SubSeq(x, 1, n)) = n
  BY <1>1
<1>3. \A i \in 1..n : SubSeq(x, 1, n)[i] = x[i]
  BY <1>1
<1> QED BY <1>2, <1>3, SeqAny

\* All of a sequence, and what an appended element leaves.
LEMMA SeqWhole ==
    ASSUME NEW x, IsSeq(x)
    PROVE  SubSeq(x, 1, Len(x)) = x /\ SubSeq(x, 1, 0) = <<>>
<1>1. Len(x) \in Nat
  BY SeqShape
<1>2. SubSeq(x, 1, Len(x)) = x
  <2> DEFINE y == SubSeq(x, 1, Len(x))
  <2>1. Len(x) \in 0..Len(x)
    BY <1>1
  <2>2. IsSeq(y) /\ Len(x) = Len(y) /\ \A i \in 1..Len(x) : x[i] = y[i]
    BY <2>1, SeqFirst
  <2> HIDE DEF y
  <2>3. x = y
    BY <2>2, SameSeq
  <2> QED BY <2>3 DEF y
<1>3. SubSeq(x, 1, 0) = <<>>
  <2> DEFINE y == SubSeq(x, 1, 0)
  <2>1. 0 \in 0..Len(x)
    BY <1>1
  <2>2. IsSeq(y) /\ Len(y) = 0
    BY <2>1, SeqFirst
  <2> HIDE DEF y
  <2>3. \A i \in 1..Len(y) : y[i] = <<>>[i]
    BY <2>2
  <2>4. y = <<>>
    BY <2>2, <2>3, SeqEmpty, SameSeq
  <2> QED BY <2>4 DEF y
<1> QED BY <1>2, <1>3

LEMMA SeqFront ==
    ASSUME NEW x, IsSeq(x), NEW e
    PROVE  Front(Append(x, e)) = x
<1>1. Len(x) \in Nat
  BY SeqShape
<1> DEFINE y == Append(x, e)
<1>2. IsSeq(y) /\ Len(y) = Len(x) + 1 /\ \A i \in 1..Len(x) : y[i] = x[i]
  BY SeqAppend
<1> HIDE DEF y
<1>3. Len(x) \in 0..Len(y) /\ Len(y) - 1 = Len(x)
  BY <1>1, <1>2
<1>4. /\ IsSeq(SubSeq(y, 1, Len(x))) /\ Len(SubSeq(y, 1, Len(x))) = Len(x)
      /\ \A i \in 1..Len(x) : SubSeq(y, 1, Len(x))[i] = y[i]
  BY <1>2, <1>3, SeqFirst
<1>5. SubSeq(y, 1, Len(x)) = x
  <2> DEFINE z == SubSeq(y, 1, Len(x))
  <2>1. IsSeq(z) /\ Len(x) = Len(z) /\ \A i \in 1..Len(x) : x[i] = z[i]
    BY <1>2, <1>4
  <2> HIDE DEF z
  <2>2. x = z
    BY <2>1, SameSeq
  <2> QED BY <2>2 DEF z
<1> QED BY <1>3, <1>5 DEF Front, y

LEMMA PrefixIs ==
    ASSUME NEW x, IsSeq(x), NEW y, IsSeq(y)
    PROVE  IsPrefix(x, y) <=> Len(x) <= Len(y) /\ \A i \in 1..Len(x) : x[i] = y[i]
<1>1. Len(x) \in Nat /\ Len(y) \in Nat
  BY SeqShape
<1>2. SubSeq(x, 1, Len(x)) = x
  BY SeqWhole
<1>3. ASSUME Len(x) <= Len(y)
      PROVE  SubSeq(y, 1, Len(x)) = x <=> \A i \in 1..Len(x) : x[i] = y[i]
  <2>1. Len(x) \in 0..Len(y)
    BY <1>1, <1>3
  <2>2. /\ IsSeq(SubSeq(y, 1, Len(x))) /\ Len(SubSeq(y, 1, Len(x))) = Len(x)
        /\ \A i \in 1..Len(x) : SubSeq(y, 1, Len(x))[i] = y[i]
    BY <2>1, SeqFirst
  <2>3. ASSUME \A i \in 1..Len(x) : x[i] = y[i]  PROVE SubSeq(y, 1, Len(x)) = x
    <3> DEFINE z == SubSeq(y, 1, Len(x))
    <3>1. IsSeq(z) /\ Len(x) = Len(z) /\ \A i \in 1..Len(x) : x[i] = z[i]
      BY <2>2, <2>3
    <3> HIDE DEF z
    <3>2. x = z
      BY <3>1, SameSeq
    <3> QED BY <3>2 DEF z
  <2>4. ASSUME SubSeq(y, 1, Len(x)) = x  PROVE \A i \in 1..Len(x) : x[i] = y[i]
    BY <2>2, <2>4
  <2> QED BY <2>3, <2>4
<1> QED BY <1>2, <1>3 DEF IsPrefix

LEMMA PrefixRefl ==
    ASSUME NEW x, IsSeq(x)
    PROVE  IsPrefix(x, x)
BY SeqShape DEF IsPrefix

LEMMA PrefixAppend ==
    ASSUME NEW x, IsSeq(x), NEW e
    PROVE  IsPrefix(x, Append(x, e))
<1>1. IsSeq(Append(x, e)) /\ Len(x) <= Len(Append(x, e))
      /\ \A i \in 1..Len(x) : Append(x, e)[i] = x[i]
  BY SeqAppend, SeqShape
<1> QED BY <1>1, PrefixIs

LEMMA PrefixTrans ==
    ASSUME NEW x, IsSeq(x), NEW y, IsSeq(y), NEW z, IsSeq(z), IsPrefix(x, y), IsPrefix(y, z)
    PROVE  IsPrefix(x, z)
<1>1. Len(x) \in Nat /\ Len(y) \in Nat /\ Len(z) \in Nat
  BY SeqShape
<1>2. Len(x) <= Len(y) /\ \A i \in 1..Len(x) : x[i] = y[i]
  BY PrefixIs
<1>3. Len(y) <= Len(z) /\ \A i \in 1..Len(y) : y[i] = z[i]
  BY PrefixIs
<1>4. Len(x) <= Len(z)
  BY <1>1, <1>2, <1>3
<1>5. \A i \in 1..Len(x) : x[i] = z[i]
  BY <1>1, <1>2, <1>3
<1> QED BY <1>4, <1>5, PrefixIs

-----------------------------------------------------------------------------
(* Folds.  Induction is by a least counterexample, so that no prover has to  *)
(* instantiate an operator; for the same reason there is one lemma per fold. *)

LEMMA Counting ==
    ASSUME NEW n \in Nat, NEW T, 0 \in T, \A i \in 1..n : i - 1 \in T => i \in T
    PROVE  \A i \in 0..n : i \in T
<1> DEFINE C == {i \in 0..n : i \notin T}
           R == OpToRel(<, Nat)
<1> SUFFICES ASSUME C # {}  PROVE FALSE
  OBVIOUS
<1>1. C \subseteq Nat
  OBVIOUS
<1>2. IsWellFoundedOn(R, Nat)
  BY NatLessThanWellFounded
<1> HIDE DEF C
<1>3. PICK m \in C : \A k \in C : ~(<<k, m>> \in R)
  BY <1>1, <1>2, WFMin, Zenon
<1>4. \A k \in C : ~(k < m)
  BY <1>1, <1>3 DEF OpToRel
<1>5. m \in 1..n /\ m - 1 \in 0..n /\ m \notin T
  BY DEF C
<1>6. m - 1 \notin C
  BY <1>4, <1>5
<1> QED BY <1>5, <1>6 DEF C

LEMMA GreatestIsMax ==
    ASSUME NEW k \in Nat, NEW s \in SUBSET (1..k), k \in s
    PROVE  Max(s) = k
<1>1. \A y \in s : k >= y
  OBVIOUS
<1>2. \A x \in s : (\A y \in s : x >= y) => x = k
  OBVIOUS
<1>3. Max(s) \in s /\ \A y \in s : Max(s) >= y
  BY <1>1 DEF Max
<1> QED BY <1>2, <1>3

LEMMA Upto ==
    ASSUME NEW n \in Nat, NEW i \in 1..n
    PROVE  1..i \in SUBSET (1..n) /\ 1..i # {} /\ Max(1..i) = i /\ (1..i) \ {i} = 1..(i - 1)
<1>1. i \in Nat /\ 1..i \in SUBSET (1..i) /\ i \in 1..i
  OBVIOUS
<1>2. Max(1..i) = i
  BY <1>1, GreatestIsMax
<1>3. (1..i) \ {i} = 1..(i - 1)
  <2>1. \A j : j \in (1..i) \ {i} <=> j \in 1..(i - 1)
    OBVIOUS
  <2> QED BY <2>1
<1>4. \A j \in 1..i : j \in 1..n
  OBVIOUS
<1> QED BY <1>1, <1>2, <1>3, <1>4

AppliedTo(ws, operations) == FoldLeft(ApplyOperation, ws, operations)

Replayed(acc, frames) == FoldLeft(Replay, acc, frames)

NothingResolved(next, intent) ==
    [ok |-> TRUE, namespace |-> intent.namespace, next |-> next, bound |-> <<>>,
     operations |-> <<>>]

EmptyPlan(base) == [tail |-> base, frames |-> <<>>, outcomes |-> <<>>]

EmptySpace(base) == [tail |-> base, operations |-> <<>>, outcomes |-> <<>>]

EpochSpace(base, intents, vs) ==
    FoldLeft(LAMBDA acc, intent : WorkspaceNext(acc, intent, vs), EmptySpace(base), intents)

VmSpace(mat, base, intents) == FoldLeft(QueuedOnVm, EpochStart(mat, base), intents)

NothingCompiled(mat) == [mat |-> mat, code |-> <<>>]

Trial(ws, code, mark) ==
    FoldLeft(LAMBDA w, ins : ExecuteInstruction(w, ins, mark), ws, code)

\* What operations do to a workspace.
AppliedSteps(ws, ops, n, g) ==
    g[0] = ws /\ \A i \in 1..n : g[i] = ApplyOperation(g[i - 1], ops[i])

LEMMA AppliedRecursion ==
    ASSUME NEW ws, NEW ops, NEW n \in Nat, DOMAIN ops = 1..n
    PROVE  \E g : AppliedSteps(ws, ops, n, g) /\ AppliedTo(ws, ops) = g[n]
<1> DEFINE Base == ws
           Step(a, i) == ApplyOperation(a, ops[i])
           Body(a, S) == [s \in SUBSET S |-> IF s = {} THEN Base
                                             ELSE Step(a[s \ {Max(s)}], Max(s))]
           c == CHOOSE a : a = Body(a, 1..n)
<1>1. AppliedTo(ws, ops) = c[1..n]
  BY DEF AppliedTo, FoldLeft, MapThenFoldSet
<1> HIDE DEF Base, Step
<1> DEFINE Has(k) == \E a : a = Body(a, 1..k)
           T == {k \in 0..n : Has(k)}
<1>2. 0 \in T
  <2> DEFINE a == [s \in SUBSET (1..0) |-> Base]
  <2>1. \A s \in SUBSET (1..0) : s = {}
    OBVIOUS
  <2>2. a = Body(a, 1..0)
    BY <2>1
  <2> QED BY <2>2
<1>3. ASSUME NEW k \in 1..n, k - 1 \in T  PROVE k \in T
  <2>1. PICK u : u = Body(u, 1..(k - 1))
    BY <1>3
  <2> DEFINE v == [s \in SUBSET (1..k) |-> IF k \in s THEN Step(u[s \ {k}], k) ELSE u[s]]
  <2>2. ASSUME NEW s \in SUBSET (1..k)
        PROVE  v[s] = IF s = {} THEN Base ELSE Step(v[s \ {Max(s)}], Max(s))
    <3>1. CASE k \in s
      <4>1. Max(s) = k
        BY <3>1, GreatestIsMax
      <4>2. s \ {k} \in SUBSET (1..k) /\ v[s \ {k}] = u[s \ {k}]
        OBVIOUS
      <4> QED BY <3>1, <4>1, <4>2
    <3>2. CASE k \notin s
      <4>1. s \in SUBSET (1..(k - 1))
        BY <3>2
      <4>2. u[s] = IF s = {} THEN Base ELSE Step(u[s \ {Max(s)}], Max(s))
        BY <2>1, <4>1
      <4>3. s \ {Max(s)} \in SUBSET (1..k) /\ v[s \ {Max(s)}] = u[s \ {Max(s)}]
        BY <3>2
      <4> QED BY <3>2, <4>2, <4>3
    <3> QED BY <3>1, <3>2
  <2>3. v = Body(v, 1..k)
    <3>1. v = [s \in SUBSET (1..k) |-> v[s]]
      OBVIOUS
    <3> HIDE DEF v
    <3> QED BY <2>2, <3>1, Zenon
  <2> HIDE DEF v
  <2>4. Has(k)
    BY <2>3, Zenon
  <2>5. k \in 0..n
    OBVIOUS
  <2> HIDE DEF Has
  <2> QED BY <2>4, <2>5
<1>4. n \in T
  <2> HIDE DEF T
  <2>1. \A i \in 0..n : i \in T
    BY <1>2, <1>3, Counting
  <2> QED BY <2>1
<1>5. c = Body(c, 1..n)
  BY <1>4
<1> HIDE DEF c
<1> DEFINE g == [i \in 0..n |-> c[1..i]]
<1>6. g[0] = Base /\ g[n] = c[1..n]
  <2>1. c[{}] = Base /\ 1..0 = {}
    BY <1>5
  <2> QED BY <2>1
<1>7. ASSUME NEW i \in 1..n  PROVE g[i] = Step(g[i - 1], i)
  <2>1. 1..i \in SUBSET (1..n) /\ 1..i # {} /\ Max(1..i) = i /\ (1..i) \ {i} = 1..(i - 1)
    BY Upto
  <2>2. c[1..i] = Step(c[1..(i - 1)], i)
    BY <1>5, <2>1
  <2>3. i \in 0..n /\ i - 1 \in 0..n
    OBVIOUS
  <2> QED BY <2>2, <2>3
<1> HIDE DEF g
<1>8. AppliedSteps(ws, ops, n, g) /\ AppliedTo(ws, ops) = g[n]
  BY <1>1, <1>6, <1>7 DEF Base, Step, AppliedSteps
<1> QED BY <1>8

\* What frames do to a replay.
ReplayedSteps(acc, frames, n, g) ==
    g[0] = acc /\ \A i \in 1..n : g[i] = Replay(g[i - 1], frames[i])

LEMMA ReplayedRecursion ==
    ASSUME NEW acc, NEW frames, NEW n \in Nat, DOMAIN frames = 1..n
    PROVE  \E g : ReplayedSteps(acc, frames, n, g) /\ Replayed(acc, frames) = g[n]
<1> DEFINE Base == acc
           Step(a, i) == Replay(a, frames[i])
           Body(a, S) == [s \in SUBSET S |-> IF s = {} THEN Base
                                             ELSE Step(a[s \ {Max(s)}], Max(s))]
           c == CHOOSE a : a = Body(a, 1..n)
<1>1. Replayed(acc, frames) = c[1..n]
  BY DEF Replayed, FoldLeft, MapThenFoldSet
<1> HIDE DEF Base, Step
<1> DEFINE Has(k) == \E a : a = Body(a, 1..k)
           T == {k \in 0..n : Has(k)}
<1>2. 0 \in T
  <2> DEFINE a == [s \in SUBSET (1..0) |-> Base]
  <2>1. \A s \in SUBSET (1..0) : s = {}
    OBVIOUS
  <2>2. a = Body(a, 1..0)
    BY <2>1
  <2> QED BY <2>2
<1>3. ASSUME NEW k \in 1..n, k - 1 \in T  PROVE k \in T
  <2>1. PICK u : u = Body(u, 1..(k - 1))
    BY <1>3
  <2> DEFINE v == [s \in SUBSET (1..k) |-> IF k \in s THEN Step(u[s \ {k}], k) ELSE u[s]]
  <2>2. ASSUME NEW s \in SUBSET (1..k)
        PROVE  v[s] = IF s = {} THEN Base ELSE Step(v[s \ {Max(s)}], Max(s))
    <3>1. CASE k \in s
      <4>1. Max(s) = k
        BY <3>1, GreatestIsMax
      <4>2. s \ {k} \in SUBSET (1..k) /\ v[s \ {k}] = u[s \ {k}]
        OBVIOUS
      <4> QED BY <3>1, <4>1, <4>2
    <3>2. CASE k \notin s
      <4>1. s \in SUBSET (1..(k - 1))
        BY <3>2
      <4>2. u[s] = IF s = {} THEN Base ELSE Step(u[s \ {Max(s)}], Max(s))
        BY <2>1, <4>1
      <4>3. s \ {Max(s)} \in SUBSET (1..k) /\ v[s \ {Max(s)}] = u[s \ {Max(s)}]
        BY <3>2
      <4> QED BY <3>2, <4>2, <4>3
    <3> QED BY <3>1, <3>2
  <2>3. v = Body(v, 1..k)
    <3>1. v = [s \in SUBSET (1..k) |-> v[s]]
      OBVIOUS
    <3> HIDE DEF v
    <3> QED BY <2>2, <3>1, Zenon
  <2> HIDE DEF v
  <2>4. Has(k)
    BY <2>3, Zenon
  <2>5. k \in 0..n
    OBVIOUS
  <2> HIDE DEF Has
  <2> QED BY <2>4, <2>5
<1>4. n \in T
  <2> HIDE DEF T
  <2>1. \A i \in 0..n : i \in T
    BY <1>2, <1>3, Counting
  <2> QED BY <2>1
<1>5. c = Body(c, 1..n)
  BY <1>4
<1> HIDE DEF c
<1> DEFINE g == [i \in 0..n |-> c[1..i]]
<1>6. g[0] = Base /\ g[n] = c[1..n]
  <2>1. c[{}] = Base /\ 1..0 = {}
    BY <1>5
  <2> QED BY <2>1
<1>7. ASSUME NEW i \in 1..n  PROVE g[i] = Step(g[i - 1], i)
  <2>1. 1..i \in SUBSET (1..n) /\ 1..i # {} /\ Max(1..i) = i /\ (1..i) \ {i} = 1..(i - 1)
    BY Upto
  <2>2. c[1..i] = Step(c[1..(i - 1)], i)
    BY <1>5, <2>1
  <2>3. i \in 0..n /\ i - 1 \in 0..n
    OBVIOUS
  <2> QED BY <2>2, <2>3
<1> HIDE DEF g
<1>8. ReplayedSteps(acc, frames, n, g) /\ Replayed(acc, frames) = g[n]
  BY <1>1, <1>6, <1>7 DEF Base, Step, ReplayedSteps
<1> QED BY <1>8

\* The operations of an intent, resolved one after the other.
ResolveSteps(next, intent, n, g) ==
    g[0] = NothingResolved(next, intent) /\ \A i \in 1..n : g[i] = ResolveOperation(g[i - 1], intent.operations[i])

LEMMA ResolveRecursion ==
    ASSUME NEW next, NEW intent, NEW n \in Nat, DOMAIN intent.operations = 1..n
    PROVE  \E g : ResolveSteps(next, intent, n, g) /\ ResolveOperations(next, intent) = g[n]
<1> DEFINE Base == NothingResolved(next, intent)
           Step(a, i) == ResolveOperation(a, intent.operations[i])
           Body(a, S) == [s \in SUBSET S |-> IF s = {} THEN Base
                                             ELSE Step(a[s \ {Max(s)}], Max(s))]
           c == CHOOSE a : a = Body(a, 1..n)
<1>1. ResolveOperations(next, intent) = c[1..n]
  BY DEF ResolveOperations, NothingResolved, FoldLeft, MapThenFoldSet
<1> HIDE DEF Base, Step
<1> DEFINE Has(k) == \E a : a = Body(a, 1..k)
           T == {k \in 0..n : Has(k)}
<1>2. 0 \in T
  <2> DEFINE a == [s \in SUBSET (1..0) |-> Base]
  <2>1. \A s \in SUBSET (1..0) : s = {}
    OBVIOUS
  <2>2. a = Body(a, 1..0)
    BY <2>1
  <2> QED BY <2>2
<1>3. ASSUME NEW k \in 1..n, k - 1 \in T  PROVE k \in T
  <2>1. PICK u : u = Body(u, 1..(k - 1))
    BY <1>3
  <2> DEFINE v == [s \in SUBSET (1..k) |-> IF k \in s THEN Step(u[s \ {k}], k) ELSE u[s]]
  <2>2. ASSUME NEW s \in SUBSET (1..k)
        PROVE  v[s] = IF s = {} THEN Base ELSE Step(v[s \ {Max(s)}], Max(s))
    <3>1. CASE k \in s
      <4>1. Max(s) = k
        BY <3>1, GreatestIsMax
      <4>2. s \ {k} \in SUBSET (1..k) /\ v[s \ {k}] = u[s \ {k}]
        OBVIOUS
      <4> QED BY <3>1, <4>1, <4>2
    <3>2. CASE k \notin s
      <4>1. s \in SUBSET (1..(k - 1))
        BY <3>2
      <4>2. u[s] = IF s = {} THEN Base ELSE Step(u[s \ {Max(s)}], Max(s))
        BY <2>1, <4>1
      <4>3. s \ {Max(s)} \in SUBSET (1..k) /\ v[s \ {Max(s)}] = u[s \ {Max(s)}]
        BY <3>2
      <4> QED BY <3>2, <4>2, <4>3
    <3> QED BY <3>1, <3>2
  <2>3. v = Body(v, 1..k)
    <3>1. v = [s \in SUBSET (1..k) |-> v[s]]
      OBVIOUS
    <3> HIDE DEF v
    <3> QED BY <2>2, <3>1, Zenon
  <2> HIDE DEF v
  <2>4. Has(k)
    BY <2>3, Zenon
  <2>5. k \in 0..n
    OBVIOUS
  <2> HIDE DEF Has
  <2> QED BY <2>4, <2>5
<1>4. n \in T
  <2> HIDE DEF T
  <2>1. \A i \in 0..n : i \in T
    BY <1>2, <1>3, Counting
  <2> QED BY <2>1
<1>5. c = Body(c, 1..n)
  BY <1>4
<1> HIDE DEF c
<1> DEFINE g == [i \in 0..n |-> c[1..i]]
<1>6. g[0] = Base /\ g[n] = c[1..n]
  <2>1. c[{}] = Base /\ 1..0 = {}
    BY <1>5
  <2> QED BY <2>1
<1>7. ASSUME NEW i \in 1..n  PROVE g[i] = Step(g[i - 1], i)
  <2>1. 1..i \in SUBSET (1..n) /\ 1..i # {} /\ Max(1..i) = i /\ (1..i) \ {i} = 1..(i - 1)
    BY Upto
  <2>2. c[1..i] = Step(c[1..(i - 1)], i)
    BY <1>5, <2>1
  <2>3. i \in 0..n /\ i - 1 \in 0..n
    OBVIOUS
  <2> QED BY <2>2, <2>3
<1> HIDE DEF g
<1>8. ResolveSteps(next, intent, n, g) /\ ResolveOperations(next, intent) = g[n]
  BY <1>1, <1>6, <1>7 DEF Base, Step, ResolveSteps
<1> QED BY <1>8

\* derive_epoch.
ChainSteps(base, intents, vs, n, g) ==
    g[0] = EmptyPlan(base) /\ \A i \in 1..n : g[i] = DeriveNext(g[i - 1], intents[i], vs)

LEMMA ChainRecursion ==
    ASSUME NEW base, NEW intents, NEW vs, NEW n \in Nat, DOMAIN intents = 1..n
    PROVE  \E g : ChainSteps(base, intents, vs, n, g) /\ DeriveEpoch(base, intents, vs) = g[n]
<1> DEFINE Base == EmptyPlan(base)
           Step(a, i) == DeriveNext(a, intents[i], vs)
           Body(a, S) == [s \in SUBSET S |-> IF s = {} THEN Base
                                             ELSE Step(a[s \ {Max(s)}], Max(s))]
           c == CHOOSE a : a = Body(a, 1..n)
<1>1. DeriveEpoch(base, intents, vs) = c[1..n]
  BY DEF DeriveEpoch, EmptyPlan, FoldLeft, MapThenFoldSet
<1> HIDE DEF Base, Step
<1> DEFINE Has(k) == \E a : a = Body(a, 1..k)
           T == {k \in 0..n : Has(k)}
<1>2. 0 \in T
  <2> DEFINE a == [s \in SUBSET (1..0) |-> Base]
  <2>1. \A s \in SUBSET (1..0) : s = {}
    OBVIOUS
  <2>2. a = Body(a, 1..0)
    BY <2>1
  <2> QED BY <2>2
<1>3. ASSUME NEW k \in 1..n, k - 1 \in T  PROVE k \in T
  <2>1. PICK u : u = Body(u, 1..(k - 1))
    BY <1>3
  <2> DEFINE v == [s \in SUBSET (1..k) |-> IF k \in s THEN Step(u[s \ {k}], k) ELSE u[s]]
  <2>2. ASSUME NEW s \in SUBSET (1..k)
        PROVE  v[s] = IF s = {} THEN Base ELSE Step(v[s \ {Max(s)}], Max(s))
    <3>1. CASE k \in s
      <4>1. Max(s) = k
        BY <3>1, GreatestIsMax
      <4>2. s \ {k} \in SUBSET (1..k) /\ v[s \ {k}] = u[s \ {k}]
        OBVIOUS
      <4> QED BY <3>1, <4>1, <4>2
    <3>2. CASE k \notin s
      <4>1. s \in SUBSET (1..(k - 1))
        BY <3>2
      <4>2. u[s] = IF s = {} THEN Base ELSE Step(u[s \ {Max(s)}], Max(s))
        BY <2>1, <4>1
      <4>3. s \ {Max(s)} \in SUBSET (1..k) /\ v[s \ {Max(s)}] = u[s \ {Max(s)}]
        BY <3>2
      <4> QED BY <3>2, <4>2, <4>3
    <3> QED BY <3>1, <3>2
  <2>3. v = Body(v, 1..k)
    <3>1. v = [s \in SUBSET (1..k) |-> v[s]]
      OBVIOUS
    <3> HIDE DEF v
    <3> QED BY <2>2, <3>1, Zenon
  <2> HIDE DEF v
  <2>4. Has(k)
    BY <2>3, Zenon
  <2>5. k \in 0..n
    OBVIOUS
  <2> HIDE DEF Has
  <2> QED BY <2>4, <2>5
<1>4. n \in T
  <2> HIDE DEF T
  <2>1. \A i \in 0..n : i \in T
    BY <1>2, <1>3, Counting
  <2> QED BY <2>1
<1>5. c = Body(c, 1..n)
  BY <1>4
<1> HIDE DEF c
<1> DEFINE g == [i \in 0..n |-> c[1..i]]
<1>6. g[0] = Base /\ g[n] = c[1..n]
  <2>1. c[{}] = Base /\ 1..0 = {}
    BY <1>5
  <2> QED BY <2>1
<1>7. ASSUME NEW i \in 1..n  PROVE g[i] = Step(g[i - 1], i)
  <2>1. 1..i \in SUBSET (1..n) /\ 1..i # {} /\ Max(1..i) = i /\ (1..i) \ {i} = 1..(i - 1)
    BY Upto
  <2>2. c[1..i] = Step(c[1..(i - 1)], i)
    BY <1>5, <2>1
  <2>3. i \in 0..n /\ i - 1 \in 0..n
    OBVIOUS
  <2> QED BY <2>2, <2>3
<1> HIDE DEF g
<1>8. ChainSteps(base, intents, vs, n, g) /\ DeriveEpoch(base, intents, vs) = g[n]
  BY <1>1, <1>6, <1>7 DEF Base, Step, ChainSteps
<1> QED BY <1>8

\* The workspace of derive_epoch_world.
SpaceSteps(base, intents, vs, n, g) ==
    g[0] = EmptySpace(base) /\ \A i \in 1..n : g[i] = WorkspaceNext(g[i - 1], intents[i], vs)

LEMMA SpaceRecursion ==
    ASSUME NEW base, NEW intents, NEW vs, NEW n \in Nat, DOMAIN intents = 1..n
    PROVE  \E g : SpaceSteps(base, intents, vs, n, g) /\ EpochSpace(base, intents, vs) = g[n]
<1> DEFINE Base == EmptySpace(base)
           Step(a, i) == WorkspaceNext(a, intents[i], vs)
           Body(a, S) == [s \in SUBSET S |-> IF s = {} THEN Base
                                             ELSE Step(a[s \ {Max(s)}], Max(s))]
           c == CHOOSE a : a = Body(a, 1..n)
<1>1. EpochSpace(base, intents, vs) = c[1..n]
  BY DEF EpochSpace, EmptySpace, FoldLeft, MapThenFoldSet
<1> HIDE DEF Base, Step
<1> DEFINE Has(k) == \E a : a = Body(a, 1..k)
           T == {k \in 0..n : Has(k)}
<1>2. 0 \in T
  <2> DEFINE a == [s \in SUBSET (1..0) |-> Base]
  <2>1. \A s \in SUBSET (1..0) : s = {}
    OBVIOUS
  <2>2. a = Body(a, 1..0)
    BY <2>1
  <2> QED BY <2>2
<1>3. ASSUME NEW k \in 1..n, k - 1 \in T  PROVE k \in T
  <2>1. PICK u : u = Body(u, 1..(k - 1))
    BY <1>3
  <2> DEFINE v == [s \in SUBSET (1..k) |-> IF k \in s THEN Step(u[s \ {k}], k) ELSE u[s]]
  <2>2. ASSUME NEW s \in SUBSET (1..k)
        PROVE  v[s] = IF s = {} THEN Base ELSE Step(v[s \ {Max(s)}], Max(s))
    <3>1. CASE k \in s
      <4>1. Max(s) = k
        BY <3>1, GreatestIsMax
      <4>2. s \ {k} \in SUBSET (1..k) /\ v[s \ {k}] = u[s \ {k}]
        OBVIOUS
      <4> QED BY <3>1, <4>1, <4>2
    <3>2. CASE k \notin s
      <4>1. s \in SUBSET (1..(k - 1))
        BY <3>2
      <4>2. u[s] = IF s = {} THEN Base ELSE Step(u[s \ {Max(s)}], Max(s))
        BY <2>1, <4>1
      <4>3. s \ {Max(s)} \in SUBSET (1..k) /\ v[s \ {Max(s)}] = u[s \ {Max(s)}]
        BY <3>2
      <4> QED BY <3>2, <4>2, <4>3
    <3> QED BY <3>1, <3>2
  <2>3. v = Body(v, 1..k)
    <3>1. v = [s \in SUBSET (1..k) |-> v[s]]
      OBVIOUS
    <3> HIDE DEF v
    <3> QED BY <2>2, <3>1, Zenon
  <2> HIDE DEF v
  <2>4. Has(k)
    BY <2>3, Zenon
  <2>5. k \in 0..n
    OBVIOUS
  <2> HIDE DEF Has
  <2> QED BY <2>4, <2>5
<1>4. n \in T
  <2> HIDE DEF T
  <2>1. \A i \in 0..n : i \in T
    BY <1>2, <1>3, Counting
  <2> QED BY <2>1
<1>5. c = Body(c, 1..n)
  BY <1>4
<1> HIDE DEF c
<1> DEFINE g == [i \in 0..n |-> c[1..i]]
<1>6. g[0] = Base /\ g[n] = c[1..n]
  <2>1. c[{}] = Base /\ 1..0 = {}
    BY <1>5
  <2> QED BY <2>1
<1>7. ASSUME NEW i \in 1..n  PROVE g[i] = Step(g[i - 1], i)
  <2>1. 1..i \in SUBSET (1..n) /\ 1..i # {} /\ Max(1..i) = i /\ (1..i) \ {i} = 1..(i - 1)
    BY Upto
  <2>2. c[1..i] = Step(c[1..(i - 1)], i)
    BY <1>5, <2>1
  <2>3. i \in 0..n /\ i - 1 \in 0..n
    OBVIOUS
  <2> QED BY <2>2, <2>3
<1> HIDE DEF g
<1>8. SpaceSteps(base, intents, vs, n, g) /\ EpochSpace(base, intents, vs) = g[n]
  BY <1>1, <1>6, <1>7 DEF Base, Step, SpaceSteps
<1> QED BY <1>8

\* The workspace of derive_vm_epoch.
VmSteps(mat, base, intents, n, g) ==
    g[0] = EpochStart(mat, base) /\ \A i \in 1..n : g[i] = QueuedOnVm(g[i - 1], intents[i])

LEMMA VmRecursion ==
    ASSUME NEW mat, NEW base, NEW intents, NEW n \in Nat, DOMAIN intents = 1..n
    PROVE  \E g : VmSteps(mat, base, intents, n, g) /\ VmSpace(mat, base, intents) = g[n]
<1> DEFINE Base == EpochStart(mat, base)
           Step(a, i) == QueuedOnVm(a, intents[i])
           Body(a, S) == [s \in SUBSET S |-> IF s = {} THEN Base
                                             ELSE Step(a[s \ {Max(s)}], Max(s))]
           c == CHOOSE a : a = Body(a, 1..n)
<1>1. VmSpace(mat, base, intents) = c[1..n]
  BY DEF VmSpace, FoldLeft, MapThenFoldSet
<1> HIDE DEF Base, Step
<1> DEFINE Has(k) == \E a : a = Body(a, 1..k)
           T == {k \in 0..n : Has(k)}
<1>2. 0 \in T
  <2> DEFINE a == [s \in SUBSET (1..0) |-> Base]
  <2>1. \A s \in SUBSET (1..0) : s = {}
    OBVIOUS
  <2>2. a = Body(a, 1..0)
    BY <2>1
  <2> QED BY <2>2
<1>3. ASSUME NEW k \in 1..n, k - 1 \in T  PROVE k \in T
  <2>1. PICK u : u = Body(u, 1..(k - 1))
    BY <1>3
  <2> DEFINE v == [s \in SUBSET (1..k) |-> IF k \in s THEN Step(u[s \ {k}], k) ELSE u[s]]
  <2>2. ASSUME NEW s \in SUBSET (1..k)
        PROVE  v[s] = IF s = {} THEN Base ELSE Step(v[s \ {Max(s)}], Max(s))
    <3>1. CASE k \in s
      <4>1. Max(s) = k
        BY <3>1, GreatestIsMax
      <4>2. s \ {k} \in SUBSET (1..k) /\ v[s \ {k}] = u[s \ {k}]
        OBVIOUS
      <4> QED BY <3>1, <4>1, <4>2
    <3>2. CASE k \notin s
      <4>1. s \in SUBSET (1..(k - 1))
        BY <3>2
      <4>2. u[s] = IF s = {} THEN Base ELSE Step(u[s \ {Max(s)}], Max(s))
        BY <2>1, <4>1
      <4>3. s \ {Max(s)} \in SUBSET (1..k) /\ v[s \ {Max(s)}] = u[s \ {Max(s)}]
        BY <3>2
      <4> QED BY <3>2, <4>2, <4>3
    <3> QED BY <3>1, <3>2
  <2>3. v = Body(v, 1..k)
    <3>1. v = [s \in SUBSET (1..k) |-> v[s]]
      OBVIOUS
    <3> HIDE DEF v
    <3> QED BY <2>2, <3>1, Zenon
  <2> HIDE DEF v
  <2>4. Has(k)
    BY <2>3, Zenon
  <2>5. k \in 0..n
    OBVIOUS
  <2> HIDE DEF Has
  <2> QED BY <2>4, <2>5
<1>4. n \in T
  <2> HIDE DEF T
  <2>1. \A i \in 0..n : i \in T
    BY <1>2, <1>3, Counting
  <2> QED BY <2>1
<1>5. c = Body(c, 1..n)
  BY <1>4
<1> HIDE DEF c
<1> DEFINE g == [i \in 0..n |-> c[1..i]]
<1>6. g[0] = Base /\ g[n] = c[1..n]
  <2>1. c[{}] = Base /\ 1..0 = {}
    BY <1>5
  <2> QED BY <2>1
<1>7. ASSUME NEW i \in 1..n  PROVE g[i] = Step(g[i - 1], i)
  <2>1. 1..i \in SUBSET (1..n) /\ 1..i # {} /\ Max(1..i) = i /\ (1..i) \ {i} = 1..(i - 1)
    BY Upto
  <2>2. c[1..i] = Step(c[1..(i - 1)], i)
    BY <1>5, <2>1
  <2>3. i \in 0..n /\ i - 1 \in 0..n
    OBVIOUS
  <2> QED BY <2>2, <2>3
<1> HIDE DEF g
<1>8. VmSteps(mat, base, intents, n, g) /\ VmSpace(mat, base, intents) = g[n]
  BY <1>1, <1>6, <1>7 DEF Base, Step, VmSteps
<1> QED BY <1>8

\* The code of resolved operations.
CompileSteps(mat, ops, n, g) ==
    g[0] = NothingCompiled(mat) /\ \A i \in 1..n : g[i] = CompileOperation(g[i - 1], ops[i])

LEMMA CompileRecursion ==
    ASSUME NEW mat, NEW ops, NEW n \in Nat, DOMAIN ops = 1..n
    PROVE  \E g : CompileSteps(mat, ops, n, g) /\ CompileOperations(mat, ops) = g[n]
<1> DEFINE Base == NothingCompiled(mat)
           Step(a, i) == CompileOperation(a, ops[i])
           Body(a, S) == [s \in SUBSET S |-> IF s = {} THEN Base
                                             ELSE Step(a[s \ {Max(s)}], Max(s))]
           c == CHOOSE a : a = Body(a, 1..n)
<1>1. CompileOperations(mat, ops) = c[1..n]
  BY DEF CompileOperations, NothingCompiled, FoldLeft, MapThenFoldSet
<1> HIDE DEF Base, Step
<1> DEFINE Has(k) == \E a : a = Body(a, 1..k)
           T == {k \in 0..n : Has(k)}
<1>2. 0 \in T
  <2> DEFINE a == [s \in SUBSET (1..0) |-> Base]
  <2>1. \A s \in SUBSET (1..0) : s = {}
    OBVIOUS
  <2>2. a = Body(a, 1..0)
    BY <2>1
  <2> QED BY <2>2
<1>3. ASSUME NEW k \in 1..n, k - 1 \in T  PROVE k \in T
  <2>1. PICK u : u = Body(u, 1..(k - 1))
    BY <1>3
  <2> DEFINE v == [s \in SUBSET (1..k) |-> IF k \in s THEN Step(u[s \ {k}], k) ELSE u[s]]
  <2>2. ASSUME NEW s \in SUBSET (1..k)
        PROVE  v[s] = IF s = {} THEN Base ELSE Step(v[s \ {Max(s)}], Max(s))
    <3>1. CASE k \in s
      <4>1. Max(s) = k
        BY <3>1, GreatestIsMax
      <4>2. s \ {k} \in SUBSET (1..k) /\ v[s \ {k}] = u[s \ {k}]
        OBVIOUS
      <4> QED BY <3>1, <4>1, <4>2
    <3>2. CASE k \notin s
      <4>1. s \in SUBSET (1..(k - 1))
        BY <3>2
      <4>2. u[s] = IF s = {} THEN Base ELSE Step(u[s \ {Max(s)}], Max(s))
        BY <2>1, <4>1
      <4>3. s \ {Max(s)} \in SUBSET (1..k) /\ v[s \ {Max(s)}] = u[s \ {Max(s)}]
        BY <3>2
      <4> QED BY <3>2, <4>2, <4>3
    <3> QED BY <3>1, <3>2
  <2>3. v = Body(v, 1..k)
    <3>1. v = [s \in SUBSET (1..k) |-> v[s]]
      OBVIOUS
    <3> HIDE DEF v
    <3> QED BY <2>2, <3>1, Zenon
  <2> HIDE DEF v
  <2>4. Has(k)
    BY <2>3, Zenon
  <2>5. k \in 0..n
    OBVIOUS
  <2> HIDE DEF Has
  <2> QED BY <2>4, <2>5
<1>4. n \in T
  <2> HIDE DEF T
  <2>1. \A i \in 0..n : i \in T
    BY <1>2, <1>3, Counting
  <2> QED BY <2>1
<1>5. c = Body(c, 1..n)
  BY <1>4
<1> HIDE DEF c
<1> DEFINE g == [i \in 0..n |-> c[1..i]]
<1>6. g[0] = Base /\ g[n] = c[1..n]
  <2>1. c[{}] = Base /\ 1..0 = {}
    BY <1>5
  <2> QED BY <2>1
<1>7. ASSUME NEW i \in 1..n  PROVE g[i] = Step(g[i - 1], i)
  <2>1. 1..i \in SUBSET (1..n) /\ 1..i # {} /\ Max(1..i) = i /\ (1..i) \ {i} = 1..(i - 1)
    BY Upto
  <2>2. c[1..i] = Step(c[1..(i - 1)], i)
    BY <1>5, <2>1
  <2>3. i \in 0..n /\ i - 1 \in 0..n
    OBVIOUS
  <2> QED BY <2>2, <2>3
<1> HIDE DEF g
<1>8. CompileSteps(mat, ops, n, g) /\ CompileOperations(mat, ops) = g[n]
  BY <1>1, <1>6, <1>7 DEF Base, Step, CompileSteps
<1> QED BY <1>8

\* The instructions of a trial.
TrialSteps(ws, code, mark, n, g) ==
    g[0] = ws /\ \A i \in 1..n : g[i] = ExecuteInstruction(g[i - 1], code[i], mark)

LEMMA TrialRecursion ==
    ASSUME NEW ws, NEW code, NEW mark, NEW n \in Nat, DOMAIN code = 1..n
    PROVE  \E g : TrialSteps(ws, code, mark, n, g) /\ Trial(ws, code, mark) = g[n]
<1> DEFINE Base == ws
           Step(a, i) == ExecuteInstruction(a, code[i], mark)
           Body(a, S) == [s \in SUBSET S |-> IF s = {} THEN Base
                                             ELSE Step(a[s \ {Max(s)}], Max(s))]
           c == CHOOSE a : a = Body(a, 1..n)
<1>1. Trial(ws, code, mark) = c[1..n]
  BY DEF Trial, FoldLeft, MapThenFoldSet
<1> HIDE DEF Base, Step
<1> DEFINE Has(k) == \E a : a = Body(a, 1..k)
           T == {k \in 0..n : Has(k)}
<1>2. 0 \in T
  <2> DEFINE a == [s \in SUBSET (1..0) |-> Base]
  <2>1. \A s \in SUBSET (1..0) : s = {}
    OBVIOUS
  <2>2. a = Body(a, 1..0)
    BY <2>1
  <2> QED BY <2>2
<1>3. ASSUME NEW k \in 1..n, k - 1 \in T  PROVE k \in T
  <2>1. PICK u : u = Body(u, 1..(k - 1))
    BY <1>3
  <2> DEFINE v == [s \in SUBSET (1..k) |-> IF k \in s THEN Step(u[s \ {k}], k) ELSE u[s]]
  <2>2. ASSUME NEW s \in SUBSET (1..k)
        PROVE  v[s] = IF s = {} THEN Base ELSE Step(v[s \ {Max(s)}], Max(s))
    <3>1. CASE k \in s
      <4>1. Max(s) = k
        BY <3>1, GreatestIsMax
      <4>2. s \ {k} \in SUBSET (1..k) /\ v[s \ {k}] = u[s \ {k}]
        OBVIOUS
      <4> QED BY <3>1, <4>1, <4>2
    <3>2. CASE k \notin s
      <4>1. s \in SUBSET (1..(k - 1))
        BY <3>2
      <4>2. u[s] = IF s = {} THEN Base ELSE Step(u[s \ {Max(s)}], Max(s))
        BY <2>1, <4>1
      <4>3. s \ {Max(s)} \in SUBSET (1..k) /\ v[s \ {Max(s)}] = u[s \ {Max(s)}]
        BY <3>2
      <4> QED BY <3>2, <4>2, <4>3
    <3> QED BY <3>1, <3>2
  <2>3. v = Body(v, 1..k)
    <3>1. v = [s \in SUBSET (1..k) |-> v[s]]
      OBVIOUS
    <3> HIDE DEF v
    <3> QED BY <2>2, <3>1, Zenon
  <2> HIDE DEF v
  <2>4. Has(k)
    BY <2>3, Zenon
  <2>5. k \in 0..n
    OBVIOUS
  <2> HIDE DEF Has
  <2> QED BY <2>4, <2>5
<1>4. n \in T
  <2> HIDE DEF T
  <2>1. \A i \in 0..n : i \in T
    BY <1>2, <1>3, Counting
  <2> QED BY <2>1
<1>5. c = Body(c, 1..n)
  BY <1>4
<1> HIDE DEF c
<1> DEFINE g == [i \in 0..n |-> c[1..i]]
<1>6. g[0] = Base /\ g[n] = c[1..n]
  <2>1. c[{}] = Base /\ 1..0 = {}
    BY <1>5
  <2> QED BY <2>1
<1>7. ASSUME NEW i \in 1..n  PROVE g[i] = Step(g[i - 1], i)
  <2>1. 1..i \in SUBSET (1..n) /\ 1..i # {} /\ Max(1..i) = i /\ (1..i) \ {i} = 1..(i - 1)
    BY Upto
  <2>2. c[1..i] = Step(c[1..(i - 1)], i)
    BY <1>5, <2>1
  <2>3. i \in 0..n /\ i - 1 \in 0..n
    OBVIOUS
  <2> QED BY <2>2, <2>3
<1> HIDE DEF g
<1>8. TrialSteps(ws, code, mark, n, g) /\ Trial(ws, code, mark) = g[n]
  BY <1>1, <1>6, <1>7 DEF Base, Step, TrialSteps
<1> QED BY <1>8

LEMMA AppliedConcat ==
    ASSUME NEW ws, NEW x, IsSeq(x), NEW y, IsSeq(y)
    PROVE  AppliedTo(ws, x \o y) = AppliedTo(AppliedTo(ws, x), y)
<1> DEFINE n == Len(x)
           m == Len(y)
           z == x \o y
<1>1. n \in Nat /\ m \in Nat /\ n + m \in Nat
      /\ DOMAIN x = 1..n /\ DOMAIN y = 1..m /\ DOMAIN z = 1..(n + m)
      /\ (\A i \in 1..n : z[i] = x[i]) /\ (\A i \in 1..m : z[n + i] = y[i])
  <2>1. /\ IsSeq(z) /\ Len(z) = n + m
        /\ (\A i \in 1..n : z[i] = x[i]) /\ (\A i \in 1..m : z[n + i] = y[i])
    BY SeqConcat
  <2>2. /\ n \in Nat /\ m \in Nat /\ DOMAIN x = 1..n /\ DOMAIN y = 1..m
    BY SeqShape
  <2> HIDE DEF n, m, z
  <2>3. DOMAIN z = 1..(n + m)
    BY <2>1, SeqShape
  <2> QED BY <2>1, <2>2, <2>3
<1> HIDE DEF n, m, z
<1>2. PICK g : AppliedSteps(ws, x, n, g) /\ AppliedTo(ws, x) = g[n]
  <2>1. n \in Nat /\ DOMAIN x = 1..n
    BY <1>1
  <2> QED BY <2>1, AppliedRecursion
<1>3. PICK h : AppliedSteps(ws, z, n + m, h) /\ AppliedTo(ws, z) = h[n + m]
  <2> DEFINE p == n + m
  <2>1. p \in Nat /\ DOMAIN z = 1..p
    BY <1>1
  <2> HIDE DEF p
  <2>2. \E h : AppliedSteps(ws, z, p, h) /\ AppliedTo(ws, z) = h[p]
    BY <2>1, AppliedRecursion
  <2> QED BY <2>2 DEF p
<1>4. PICK k : AppliedSteps(AppliedTo(ws, x), y, m, k) /\ AppliedTo(AppliedTo(ws, x), y) = k[m]
  <2>1. m \in Nat /\ DOMAIN y = 1..m
    BY <1>1
  <2> QED BY <2>1, AppliedRecursion
<1>5. h[n] = g[n]
  <2> DEFINE T == {i \in 0..n : h[i] = g[i]}
  <2>1. 0 \in T
    BY <1>1, <1>2, <1>3 DEF AppliedSteps
  <2>2. ASSUME NEW i \in 1..n, i - 1 \in T  PROVE i \in T
    <3>1. i \in 1..(n + m) /\ i \in 0..n
      BY <1>1
    <3>2. h[i] = ApplyOperation(h[i - 1], z[i]) /\ z[i] = x[i] /\ h[i - 1] = g[i - 1]
      BY <1>1, <1>3, <2>2, <3>1 DEF AppliedSteps
    <3> QED BY <1>2, <3>1, <3>2 DEF AppliedSteps
  <2> HIDE DEF T
  <2>3. \A i \in 0..n : i \in T
    BY <1>1, <2>1, <2>2, Counting
  <2>4. n \in 0..n
    BY <1>1
  <2> QED BY <2>3, <2>4 DEF T
<1>6. h[n + m] = k[m]
  <2> DEFINE T == {i \in 0..m : h[n + i] = k[i]}
  <2>1. 0 \in T
    <3>1. n + 0 = n /\ 0 \in 0..m
      BY <1>1
    <3> QED BY <1>2, <1>4, <1>5, <3>1 DEF AppliedSteps
  <2>2. ASSUME NEW i \in 1..m, i - 1 \in T  PROVE i \in T
    <3>1. n + i \in 1..(n + m) /\ i \in 0..m /\ (n + i) - 1 = n + (i - 1)
      BY <1>1
    <3>2. h[n + i] = ApplyOperation(h[(n + i) - 1], z[n + i])
      BY <1>3, <3>1 DEF AppliedSteps
    <3>3. z[n + i] = y[i] /\ h[n + (i - 1)] = k[i - 1]
      BY <1>1, <2>2
    <3> QED BY <1>4, <3>1, <3>2, <3>3 DEF AppliedSteps
  <2> HIDE DEF T
  <2>3. \A i \in 0..m : i \in T
    BY <1>1, <2>1, <2>2, Counting
  <2>4. m \in 0..m
    BY <1>1
  <2> QED BY <2>3, <2>4 DEF T
<1> QED BY <1>3, <1>4, <1>6 DEF z

LEMMA AppliedAppend ==
    ASSUME NEW ws, NEW x, IsSeq(x), NEW e
    PROVE  /\ AppliedTo(ws, Append(x, e)) = ApplyOperation(AppliedTo(ws, x), e)
           /\ AppliedTo(ws, <<>>) = ws
<1> DEFINE n == Len(x)
           z == Append(x, e)
<1>1. n \in Nat /\ n + 1 \in Nat
      /\ DOMAIN x = 1..n /\ DOMAIN z = 1..(n + 1)
      /\ (\A i \in 1..n : z[i] = x[i]) /\ z[n + 1] = e
  <2>1. /\ IsSeq(z) /\ Len(z) = n + 1
        /\ (\A i \in 1..n : z[i] = x[i]) /\ z[n + 1] = e
    BY SeqAppend
  <2>2. n \in Nat /\ DOMAIN x = 1..n
    BY SeqShape
  <2> HIDE DEF n, z
  <2>3. DOMAIN z = 1..(n + 1)
    BY <2>1, SeqShape
  <2> QED BY <2>1, <2>2, <2>3
<1> HIDE DEF n, z
<1>2. PICK g : AppliedSteps(ws, x, n, g) /\ AppliedTo(ws, x) = g[n]
  <2>1. n \in Nat /\ DOMAIN x = 1..n
    BY <1>1
  <2> QED BY <2>1, AppliedRecursion
<1>3. PICK h : AppliedSteps(ws, z, n + 1, h) /\ AppliedTo(ws, z) = h[n + 1]
  <2>1. n + 1 \in Nat /\ DOMAIN z = 1..(n + 1)
    BY <1>1
  <2> QED BY <2>1, AppliedRecursion
<1>4. h[n] = g[n]
  <2> DEFINE T == {i \in 0..n : h[i] = g[i]}
  <2>1. 0 \in T
    BY <1>1, <1>2, <1>3 DEF AppliedSteps
  <2>2. ASSUME NEW i \in 1..n, i - 1 \in T  PROVE i \in T
    <3>1. i \in 1..(n + 1) /\ i \in 0..n
      BY <1>1
    <3>2. h[i] = ApplyOperation(h[i - 1], z[i]) /\ z[i] = x[i] /\ h[i - 1] = g[i - 1]
      BY <1>1, <1>3, <2>2, <3>1 DEF AppliedSteps
    <3> QED BY <1>2, <3>1, <3>2 DEF AppliedSteps
  <2> HIDE DEF T
  <2>3. \A i \in 0..n : i \in T
    BY <1>1, <2>1, <2>2, Counting
  <2>4. n \in 0..n
    BY <1>1
  <2> QED BY <2>3, <2>4 DEF T
<1>5. AppliedTo(ws, z) = ApplyOperation(AppliedTo(ws, x), e)
  <2>1. n + 1 \in 1..(n + 1) /\ (n + 1) - 1 = n
    BY <1>1
  <2>2. h[n + 1] = ApplyOperation(h[n], z[n + 1])
    BY <1>3, <2>1 DEF AppliedSteps
  <2> QED BY <1>1, <1>2, <1>3, <1>4, <2>2
<1>6. AppliedTo(ws, <<>>) = ws
  <2>1. DOMAIN <<>> = 1..0 /\ 0 \in Nat
    OBVIOUS
  <2>2. PICK u : AppliedSteps(ws, <<>>, 0, u) /\ AppliedTo(ws, <<>>) = u[0]
    BY <2>1, AppliedRecursion
  <2> QED BY <2>2 DEF AppliedSteps
<1> QED BY <1>5, <1>6 DEF z

LEMMA ReplayedConcat ==
    ASSUME NEW acc, NEW x, IsSeq(x), NEW y, IsSeq(y)
    PROVE  Replayed(acc, x \o y) = Replayed(Replayed(acc, x), y)
<1> DEFINE n == Len(x)
           m == Len(y)
           z == x \o y
<1>1. n \in Nat /\ m \in Nat /\ n + m \in Nat
      /\ DOMAIN x = 1..n /\ DOMAIN y = 1..m /\ DOMAIN z = 1..(n + m)
      /\ (\A i \in 1..n : z[i] = x[i]) /\ (\A i \in 1..m : z[n + i] = y[i])
  <2>1. /\ IsSeq(z) /\ Len(z) = n + m
        /\ (\A i \in 1..n : z[i] = x[i]) /\ (\A i \in 1..m : z[n + i] = y[i])
    BY SeqConcat
  <2>2. /\ n \in Nat /\ m \in Nat /\ DOMAIN x = 1..n /\ DOMAIN y = 1..m
    BY SeqShape
  <2> HIDE DEF n, m, z
  <2>3. DOMAIN z = 1..(n + m)
    BY <2>1, SeqShape
  <2> QED BY <2>1, <2>2, <2>3
<1> HIDE DEF n, m, z
<1>2. PICK g : ReplayedSteps(acc, x, n, g) /\ Replayed(acc, x) = g[n]
  <2>1. n \in Nat /\ DOMAIN x = 1..n
    BY <1>1
  <2> QED BY <2>1, ReplayedRecursion
<1>3. PICK h : ReplayedSteps(acc, z, n + m, h) /\ Replayed(acc, z) = h[n + m]
  <2> DEFINE p == n + m
  <2>1. p \in Nat /\ DOMAIN z = 1..p
    BY <1>1
  <2> HIDE DEF p
  <2>2. \E h : ReplayedSteps(acc, z, p, h) /\ Replayed(acc, z) = h[p]
    BY <2>1, ReplayedRecursion
  <2> QED BY <2>2 DEF p
<1>4. PICK k : ReplayedSteps(Replayed(acc, x), y, m, k) /\ Replayed(Replayed(acc, x), y) = k[m]
  <2>1. m \in Nat /\ DOMAIN y = 1..m
    BY <1>1
  <2> QED BY <2>1, ReplayedRecursion
<1>5. h[n] = g[n]
  <2> DEFINE T == {i \in 0..n : h[i] = g[i]}
  <2>1. 0 \in T
    BY <1>1, <1>2, <1>3 DEF ReplayedSteps
  <2>2. ASSUME NEW i \in 1..n, i - 1 \in T  PROVE i \in T
    <3>1. i \in 1..(n + m) /\ i \in 0..n
      BY <1>1
    <3>2. h[i] = Replay(h[i - 1], z[i]) /\ z[i] = x[i] /\ h[i - 1] = g[i - 1]
      BY <1>1, <1>3, <2>2, <3>1 DEF ReplayedSteps
    <3> QED BY <1>2, <3>1, <3>2 DEF ReplayedSteps
  <2> HIDE DEF T
  <2>3. \A i \in 0..n : i \in T
    BY <1>1, <2>1, <2>2, Counting
  <2>4. n \in 0..n
    BY <1>1
  <2> QED BY <2>3, <2>4 DEF T
<1>6. h[n + m] = k[m]
  <2> DEFINE T == {i \in 0..m : h[n + i] = k[i]}
  <2>1. 0 \in T
    <3>1. n + 0 = n /\ 0 \in 0..m
      BY <1>1
    <3> QED BY <1>2, <1>4, <1>5, <3>1 DEF ReplayedSteps
  <2>2. ASSUME NEW i \in 1..m, i - 1 \in T  PROVE i \in T
    <3>1. n + i \in 1..(n + m) /\ i \in 0..m /\ (n + i) - 1 = n + (i - 1)
      BY <1>1
    <3>2. h[n + i] = Replay(h[(n + i) - 1], z[n + i])
      BY <1>3, <3>1 DEF ReplayedSteps
    <3>3. z[n + i] = y[i] /\ h[n + (i - 1)] = k[i - 1]
      BY <1>1, <2>2
    <3> QED BY <1>4, <3>1, <3>2, <3>3 DEF ReplayedSteps
  <2> HIDE DEF T
  <2>3. \A i \in 0..m : i \in T
    BY <1>1, <2>1, <2>2, Counting
  <2>4. m \in 0..m
    BY <1>1
  <2> QED BY <2>3, <2>4 DEF T
<1> QED BY <1>3, <1>4, <1>6 DEF z

LEMMA ReplayedAppend ==
    ASSUME NEW acc, NEW x, IsSeq(x), NEW e
    PROVE  /\ Replayed(acc, Append(x, e)) = Replay(Replayed(acc, x), e)
           /\ Replayed(acc, <<>>) = acc
<1> DEFINE n == Len(x)
           z == Append(x, e)
<1>1. n \in Nat /\ n + 1 \in Nat
      /\ DOMAIN x = 1..n /\ DOMAIN z = 1..(n + 1)
      /\ (\A i \in 1..n : z[i] = x[i]) /\ z[n + 1] = e
  <2>1. /\ IsSeq(z) /\ Len(z) = n + 1
        /\ (\A i \in 1..n : z[i] = x[i]) /\ z[n + 1] = e
    BY SeqAppend
  <2>2. n \in Nat /\ DOMAIN x = 1..n
    BY SeqShape
  <2> HIDE DEF n, z
  <2>3. DOMAIN z = 1..(n + 1)
    BY <2>1, SeqShape
  <2> QED BY <2>1, <2>2, <2>3
<1> HIDE DEF n, z
<1>2. PICK g : ReplayedSteps(acc, x, n, g) /\ Replayed(acc, x) = g[n]
  <2>1. n \in Nat /\ DOMAIN x = 1..n
    BY <1>1
  <2> QED BY <2>1, ReplayedRecursion
<1>3. PICK h : ReplayedSteps(acc, z, n + 1, h) /\ Replayed(acc, z) = h[n + 1]
  <2>1. n + 1 \in Nat /\ DOMAIN z = 1..(n + 1)
    BY <1>1
  <2> QED BY <2>1, ReplayedRecursion
<1>4. h[n] = g[n]
  <2> DEFINE T == {i \in 0..n : h[i] = g[i]}
  <2>1. 0 \in T
    BY <1>1, <1>2, <1>3 DEF ReplayedSteps
  <2>2. ASSUME NEW i \in 1..n, i - 1 \in T  PROVE i \in T
    <3>1. i \in 1..(n + 1) /\ i \in 0..n
      BY <1>1
    <3>2. h[i] = Replay(h[i - 1], z[i]) /\ z[i] = x[i] /\ h[i - 1] = g[i - 1]
      BY <1>1, <1>3, <2>2, <3>1 DEF ReplayedSteps
    <3> QED BY <1>2, <3>1, <3>2 DEF ReplayedSteps
  <2> HIDE DEF T
  <2>3. \A i \in 0..n : i \in T
    BY <1>1, <2>1, <2>2, Counting
  <2>4. n \in 0..n
    BY <1>1
  <2> QED BY <2>3, <2>4 DEF T
<1>5. Replayed(acc, z) = Replay(Replayed(acc, x), e)
  <2>1. n + 1 \in 1..(n + 1) /\ (n + 1) - 1 = n
    BY <1>1
  <2>2. h[n + 1] = Replay(h[n], z[n + 1])
    BY <1>3, <2>1 DEF ReplayedSteps
  <2> QED BY <1>1, <1>2, <1>3, <1>4, <2>2
<1>6. Replayed(acc, <<>>) = acc
  <2>1. DOMAIN <<>> = 1..0 /\ 0 \in Nat
    OBVIOUS
  <2>2. PICK u : ReplayedSteps(acc, <<>>, 0, u) /\ Replayed(acc, <<>>) = u[0]
    BY <2>1, ReplayedRecursion
  <2> QED BY <2>2 DEF ReplayedSteps
<1> QED BY <1>5, <1>6 DEF z

LEMMA TrialAppend ==
    ASSUME NEW ws, NEW mark, NEW x, IsSeq(x), NEW e
    PROVE  /\ Trial(ws, Append(x, e), mark) = ExecuteInstruction(Trial(ws, x, mark), e, mark)
           /\ Trial(ws, <<>>, mark) = ws
<1> DEFINE n == Len(x)
           z == Append(x, e)
<1>1. n \in Nat /\ n + 1 \in Nat
      /\ DOMAIN x = 1..n /\ DOMAIN z = 1..(n + 1)
      /\ (\A i \in 1..n : z[i] = x[i]) /\ z[n + 1] = e
  <2>1. /\ IsSeq(z) /\ Len(z) = n + 1
        /\ (\A i \in 1..n : z[i] = x[i]) /\ z[n + 1] = e
    BY SeqAppend
  <2>2. n \in Nat /\ DOMAIN x = 1..n
    BY SeqShape
  <2> HIDE DEF n, z
  <2>3. DOMAIN z = 1..(n + 1)
    BY <2>1, SeqShape
  <2> QED BY <2>1, <2>2, <2>3
<1> HIDE DEF n, z
<1>2. PICK g : TrialSteps(ws, x, mark, n, g) /\ Trial(ws, x, mark) = g[n]
  <2>1. n \in Nat /\ DOMAIN x = 1..n
    BY <1>1
  <2> QED BY <2>1, TrialRecursion
<1>3. PICK h : TrialSteps(ws, z, mark, n + 1, h) /\ Trial(ws, z, mark) = h[n + 1]
  <2>1. n + 1 \in Nat /\ DOMAIN z = 1..(n + 1)
    BY <1>1
  <2> QED BY <2>1, TrialRecursion
<1>4. h[n] = g[n]
  <2> DEFINE T == {i \in 0..n : h[i] = g[i]}
  <2>1. 0 \in T
    BY <1>1, <1>2, <1>3 DEF TrialSteps
  <2>2. ASSUME NEW i \in 1..n, i - 1 \in T  PROVE i \in T
    <3>1. i \in 1..(n + 1) /\ i \in 0..n
      BY <1>1
    <3>2. h[i] = ExecuteInstruction(h[i - 1], z[i], mark) /\ z[i] = x[i] /\ h[i - 1] = g[i - 1]
      BY <1>1, <1>3, <2>2, <3>1 DEF TrialSteps
    <3> QED BY <1>2, <3>1, <3>2 DEF TrialSteps
  <2> HIDE DEF T
  <2>3. \A i \in 0..n : i \in T
    BY <1>1, <2>1, <2>2, Counting
  <2>4. n \in 0..n
    BY <1>1
  <2> QED BY <2>3, <2>4 DEF T
<1>5. Trial(ws, z, mark) = ExecuteInstruction(Trial(ws, x, mark), e, mark)
  <2>1. n + 1 \in 1..(n + 1) /\ (n + 1) - 1 = n
    BY <1>1
  <2>2. h[n + 1] = ExecuteInstruction(h[n], z[n + 1], mark)
    BY <1>3, <2>1 DEF TrialSteps
  <2> QED BY <1>1, <1>2, <1>3, <1>4, <2>2
<1>6. Trial(ws, <<>>, mark) = ws
  <2>1. DOMAIN <<>> = 1..0 /\ 0 \in Nat
    OBVIOUS
  <2>2. PICK u : TrialSteps(ws, <<>>, mark, 0, u) /\ Trial(ws, <<>>, mark) = u[0]
    BY <2>1, TrialRecursion
  <2> QED BY <2>2 DEF TrialSteps
<1> QED BY <1>5, <1>6 DEF z

-----------------------------------------------------------------------------
(* Operations and worlds.                                                    *)

Kinds == {"Allocate", "Define", "Forget"}

KindsKnown(ops) == \A i \in 1..Len(ops) : ops[i].kind \in Kinds

IsWorkspace(ws) ==
    /\ ws = [ok |-> ws.ok, next |-> ws.next, stacks |-> ws.stacks]
    /\ ws.ok \in BOOLEAN /\ ws.next \in Nat

IsWorld(w) ==
    /\ w = [id |-> w.id, next |-> w.next, stacks |-> w.stacks]
    /\ IsSeq(w.id) /\ w.next \in Nat

LEMMA KindsAppend ==
    ASSUME NEW ops, IsSeq(ops), KindsKnown(ops), NEW op, op.kind \in Kinds
    PROVE  IsSeq(Append(ops, op)) /\ KindsKnown(Append(ops, op))
<1> DEFINE z == Append(ops, op)
<1>1. /\ IsSeq(z) /\ Len(z) = Len(ops) + 1
      /\ (\A i \in 1..Len(ops) : z[i] = ops[i]) /\ z[Len(ops) + 1] = op
  BY SeqAppend
<1>2. Len(ops) \in Nat
  BY SeqShape
<1> HIDE DEF z
<1>3. ASSUME NEW i \in 1..Len(z)  PROVE z[i].kind \in Kinds
  <2>1. i \in 1..Len(ops) \/ i = Len(ops) + 1
    BY <1>1, <1>2
  <2> QED BY <1>1, <2>1 DEF KindsKnown
<1> QED BY <1>1, <1>3 DEF KindsKnown, z

LEMMA KindsConcat ==
    ASSUME NEW x, IsSeq(x), KindsKnown(x), NEW y, IsSeq(y), KindsKnown(y)
    PROVE  IsSeq(x \o y) /\ KindsKnown(x \o y)
<1> DEFINE z == x \o y
<1>1. /\ IsSeq(z) /\ Len(z) = Len(x) + Len(y)
      /\ (\A i \in 1..Len(x) : z[i] = x[i]) /\ (\A i \in 1..Len(y) : z[Len(x) + i] = y[i])
  BY SeqConcat
<1>2. Len(x) \in Nat /\ Len(y) \in Nat
  BY SeqShape
<1> HIDE DEF z
<1>3. ASSUME NEW i \in 1..Len(z)  PROVE z[i].kind \in Kinds
  <2>1. CASE i \in 1..Len(x)
    BY <1>1, <2>1 DEF KindsKnown
  <2>2. CASE i \notin 1..Len(x)
    <3>1. i - Len(x) \in 1..Len(y) /\ Len(x) + (i - Len(x)) = i
      BY <1>1, <1>2, <2>2
    <3>2. z[i] = y[i - Len(x)]
      BY <1>1, <3>1
    <3> QED BY <3>1, <3>2 DEF KindsKnown
  <2> QED BY <2>1, <2>2
<1> QED BY <1>1, <1>3 DEF KindsKnown, z

LEMMA KindsEmpty == IsSeq(<<>>) /\ KindsKnown(<<>>)
BY SeqEmpty DEF KindsKnown

\* One operation on a workspace: an allocation in sequence succeeds.
LEMMA OperationApplied ==
    ASSUME NEW ws, IsWorkspace(ws), NEW op, op.kind \in Kinds
    PROVE  /\ IsWorkspace(ApplyOperation(ws, op))
           /\ ws.next <= ApplyOperation(ws, op).next
           /\ ApplyOperation(ws, op).ok => ws.ok
           /\ op.kind # "Allocate" => /\ ApplyOperation(ws, op).next = ws.next
                                      /\ ApplyOperation(ws, op).ok = ws.ok
           /\ op.kind = "Allocate" /\ ws.ok /\ op.entity = ws.next =>
                /\ ApplyOperation(ws, op).next = ws.next + 1
                /\ ApplyOperation(ws, op).ok
           /\ op.kind = "Allocate" /\ ApplyOperation(ws, op).ok =>
                ApplyOperation(ws, op).next = ws.next + 1
<1> DEFINE r == ApplyOperation(ws, op)
<1>1. ws = [ok |-> ws.ok, next |-> ws.next, stacks |-> ws.stacks]
      /\ ws.ok \in BOOLEAN /\ ws.next \in Nat
  BY DEF IsWorkspace
<1>2. CASE ~ws.ok
  <2>1. r = ws
    BY <1>2 DEF ApplyOperation
  <2> HIDE DEF r
  <2>2. IsWorkspace(r) /\ r.next = ws.next /\ r.ok = ws.ok /\ ~ws.ok
    BY <1>2, <2>1
  <2> QED BY <1>1, <2>2 DEF r
<1>3. CASE ws.ok /\ op.kind = "Allocate"
  <2>1. r = IF op.entity = ws.next THEN [ws EXCEPT !.next = @ + 1] ELSE [ws EXCEPT !.ok = FALSE]
    BY <1>3 DEF ApplyOperation
  <2> HIDE DEF r
  <2>2. CASE op.entity = ws.next
    <3>1. r = [ok |-> ws.ok, next |-> ws.next + 1, stacks |-> ws.stacks]
      BY <1>1, <2>1, <2>2
    <3>2. IsWorkspace(r) /\ r.next = ws.next + 1 /\ r.ok = ws.ok
      BY <1>1, <3>1 DEF IsWorkspace
    <3> QED BY <1>1, <1>3, <3>2 DEF r
  <2>3. CASE op.entity # ws.next
    <3>1. r = [ok |-> FALSE, next |-> ws.next, stacks |-> ws.stacks]
      BY <1>1, <2>1, <2>3
    <3>2. IsWorkspace(r) /\ r.next = ws.next /\ r.ok = FALSE
      BY <1>1, <3>1 DEF IsWorkspace
    <3> QED BY <1>1, <1>3, <2>3, <3>2 DEF r
  <2> QED BY <2>2, <2>3
<1>4. CASE ws.ok /\ op.kind \in {"Define", "Forget"}
  <2>1. PICK st : r = [ws EXCEPT !.stacks = st]
    <3>1. CASE op.kind = "Define"
      <4>1. r = [ws EXCEPT !.stacks = [ws.stacks EXCEPT ![op.slot] = Append(@, op.fact)]]
        BY <1>1, <1>4, <3>1 DEF ApplyOperation
      <4> QED BY <4>1
    <3>2. CASE op.kind = "Forget"
      <4>1. r = [ws EXCEPT !.stacks =
                   [ws.stacks EXCEPT ![op.slot] = IF @ = <<>> THEN @ ELSE Front(@)]]
        BY <1>1, <1>4, <3>2 DEF ApplyOperation
      <4> QED BY <4>1
    <3> QED BY <1>4, <3>1, <3>2
  <2> HIDE DEF r
  <2>2. r = [ok |-> ws.ok, next |-> ws.next, stacks |-> st]
    BY <1>1, <2>1
  <2>3. IsWorkspace(r) /\ r.next = ws.next /\ r.ok = ws.ok
    BY <1>1, <2>2 DEF IsWorkspace
  <2> QED BY <1>1, <1>4, <2>3 DEF r
<1> QED BY <1>1, <1>2, <1>3, <1>4 DEF Kinds

LEMMA AppliedShape ==
    ASSUME NEW ws, IsWorkspace(ws), NEW ops, IsSeq(ops), KindsKnown(ops)
    PROVE  /\ IsWorkspace(AppliedTo(ws, ops)) /\ ws.next <= AppliedTo(ws, ops).next
           /\ AppliedTo(ws, ops).ok => ws.ok
<1> DEFINE n == Len(ops)
<1>1. n \in Nat /\ DOMAIN ops = 1..n
  BY SeqShape
<1>2. PICK g : AppliedSteps(ws, ops, n, g) /\ AppliedTo(ws, ops) = g[n]
  <2> HIDE DEF n
  <2> QED BY <1>1, AppliedRecursion
<1> DEFINE Fine(a) == IsWorkspace(a) /\ ws.next <= a.next /\ (a.ok => ws.ok)
           T == {i \in 0..n : Fine(g[i])}
<1>3. \A i \in 1..n : ops[i].kind \in Kinds
  BY DEF KindsKnown
<1> HIDE DEF n
<1>4. 0 \in T
  <2>1. Fine(ws)
    BY DEF IsWorkspace
  <2> HIDE DEF Fine
  <2> QED BY <1>1, <1>2, <2>1 DEF AppliedSteps
<1>5. ASSUME NEW i \in 1..n, i - 1 \in T  PROVE i \in T
  <2> DEFINE a == g[i - 1]
  <2>1. Fine(a) /\ i \in 0..n
    BY <1>1, <1>5
  <2>2. g[i] = ApplyOperation(a, ops[i])
    BY <1>2 DEF AppliedSteps
  <2> HIDE DEF a
  <2>3. Fine(ApplyOperation(a, ops[i]))
    <3>1. /\ IsWorkspace(ApplyOperation(a, ops[i])) /\ a.next <= ApplyOperation(a, ops[i]).next
          /\ ApplyOperation(a, ops[i]).ok => a.ok
      BY <1>3, <2>1, OperationApplied
    <3> QED BY <2>1, <3>1 DEF IsWorkspace
  <2> HIDE DEF Fine
  <2> QED BY <2>1, <2>2, <2>3
<1> HIDE DEF T
<1>6. \A i \in 0..n : i \in T
  BY <1>1, <1>4, <1>5, Counting
<1>7. n \in T
  BY <1>1, <1>6
<1> QED BY <1>2, <1>7 DEF T

LEMMA AppliedIs ==
    ASSUME NEW w, NEW ops
    PROVE  Applied(w, ops) = AppliedTo(Workspace(w), ops)
BY DEF Applied, AppliedTo

LEMMA WorkspaceOf ==
    ASSUME NEW w, IsWorld(w)
    PROVE  /\ IsWorkspace(Workspace(w)) /\ Workspace(w).ok /\ Workspace(w).next = w.next
           /\ Workspace(w).stacks = w.stacks
BY DEF IsWorld, Workspace, IsWorkspace

LEMMA CandidateFacts ==
    ASSUME NEW w, IsWorld(w), NEW ops, IsSeq(ops), KindsKnown(ops)
    PROVE  /\ IsWorkspace(Applied(w, ops))
           /\ IsWorld(Candidate(w, ops)) /\ Candidate(w, ops).next = Applied(w, ops).next
           /\ Candidate(w, ops).stacks = Applied(w, ops).stacks
           /\ Candidate(w, ops).id =
                WorldId(w.id, Version(w.id) + 1, Applied(w, ops).next, ops)
           /\ w.next <= Candidate(w, ops).next
           /\ Applied(w, ops).ok => Workspace(Candidate(w, ops)) = Applied(w, ops)
<1> DEFINE ws == Applied(w, ops)
<1>1. IsWorkspace(ws) /\ w.next <= ws.next
  BY WorkspaceOf, AppliedIs, AppliedShape
<1>2. Candidate(w, ops) = Child(w, ops, ws)
  BY DEF Candidate
<1> HIDE DEF ws
<1> DEFINE e == <<Version(w.id) + 1, ws.next, ops>>
           c == Candidate(w, ops)
<1>3. c = [id |-> Append(w.id, e), next |-> ws.next, stacks |-> ws.stacks]
  BY <1>2 DEF Child, WorldId
<1>4. IsSeq(w.id)
  BY DEF IsWorld
<1>5. IsSeq(Append(w.id, e))
  BY <1>4, SeqAppend
<1>6. c.id = WorldId(w.id, Version(w.id) + 1, ws.next, ops)
  BY <1>3 DEF WorldId
<1> HIDE DEF e, c
<1>7. IsWorld(c) /\ c.next = ws.next /\ c.stacks = ws.stacks
  BY <1>1, <1>3, <1>5 DEF IsWorld, IsWorkspace
<1>8. ws.ok => Workspace(c) = ws
  BY <1>1, <1>7 DEF Workspace, IsWorkspace
<1> QED BY <1>1, <1>6, <1>7, <1>8 DEF c, ws

LEMMA NewId ==
    ASSUME NEW id, IsSeq(id), NEW v, NEW allocator, NEW ops
    PROVE  /\ IsSeq(WorldId(id, v, allocator, ops))
           /\ Len(WorldId(id, v, allocator, ops)) = Len(id) + 1
           /\ IsPrefix(id, WorldId(id, v, allocator, ops))
           /\ Front(WorldId(id, v, allocator, ops)) = id
<1> DEFINE e == <<v, allocator, ops>>
<1>1. WorldId(id, v, allocator, ops) = Append(id, e)
  BY DEF WorldId
<1> HIDE DEF e
<1> QED BY <1>1, SeqAppend, SeqFront, PrefixAppend

\* A frame from w replays to the world its operations make of w.
LEMMA FrameReplays ==
    ASSUME NEW w, IsWorld(w), NEW ops, NEW next, NEW frame,
           Applied(w, ops).ok, Applied(w, ops).next = next,
           frame = [parent_world |-> w.id, parent_version |-> Version(w.id),
                    resulting_world |-> WorldId(w.id, Version(w.id) + 1, next, ops),
                    resulting_version |-> Version(w.id) + 1,
                    resulting_allocator |-> next, operations |-> ops]
    PROVE  Replay([ok |-> TRUE, world |-> w], frame) =
             [ok |-> TRUE,
              world |-> [id |-> WorldId(w.id, Version(w.id) + 1, next, ops),
                         next |-> next, stacks |-> Applied(w, ops).stacks]]
BY DEF Replay

-----------------------------------------------------------------------------
(* Resolution: what resolve_operations_from allocates is what replaying the  *)
(* resolved operations allocates.                                            *)

ResolvedFrom(next, acc) ==
    /\ acc = [ok |-> acc.ok, namespace |-> acc.namespace, next |-> acc.next,
              bound |-> acc.bound, operations |-> acc.operations]
    /\ acc.next \in Nat /\ next <= acc.next
    /\ IsSeq(acc.operations) /\ KindsKnown(acc.operations)
    /\ Range(acc.bound) \subseteq next..(acc.next - 1)

\* Replaying the operations from a workspace that allocates from next on.
Allocates(next, acc) ==
    \A ws : IsWorkspace(ws) /\ ws.ok /\ ws.next = next =>
        /\ AppliedTo(ws, acc.operations).ok
        /\ AppliedTo(ws, acc.operations).next = acc.next

OperationsKnown(intent) == IsSeq(intent.operations) /\ KindsKnown(intent.operations)

LEMMA AppendApplies ==
    ASSUME NEW ws, IsWorkspace(ws), NEW ops, IsSeq(ops), KindsKnown(ops), NEW op,
           op.kind \in Kinds, AppliedTo(ws, ops).ok,
           op.kind = "Allocate" => op.entity = AppliedTo(ws, ops).next
    PROVE  /\ AppliedTo(ws, Append(ops, op)).ok
           /\ AppliedTo(ws, Append(ops, op)).next =
                AppliedTo(ws, ops).next + (IF op.kind = "Allocate" THEN 1 ELSE 0)
<1> DEFINE a == AppliedTo(ws, ops)
<1>1. IsWorkspace(a)
  BY AppliedShape
<1>2. AppliedTo(ws, Append(ops, op)) = ApplyOperation(a, op)
  BY AppliedAppend
<1>3. a.ok /\ (op.kind = "Allocate" => op.entity = a.next)
  OBVIOUS
<1> HIDE DEF a
<1>4. a.next \in Nat
  BY <1>1 DEF IsWorkspace
<1>5. /\ ApplyOperation(a, op).ok
      /\ ApplyOperation(a, op).next = a.next + (IF op.kind = "Allocate" THEN 1 ELSE 0)
  BY <1>1, <1>3, <1>4, OperationApplied
<1> QED BY <1>2, <1>5 DEF a

LEMMA AllocateResolved ==
    ASSUME NEW next \in Nat, NEW acc, ResolvedFrom(next, acc), Allocates(next, acc),
           NEW op, op.kind = "Allocate"
    PROVE  ResolvedFrom(next, ResolveOperation(acc, op)) /\ Allocates(next, ResolveOperation(acc, op))
<1> DEFINE new == [kind |-> "Allocate", entity |-> acc.next]
           fine == acc.ok /\ op.namespace = acc.namespace
           bound == [t \in DOMAIN acc.bound \cup {op.temporary} |->
                        IF t = op.temporary THEN acc.next ELSE acc.bound[t]]
           r == ResolveOperation(acc, op)
<1>1. acc = [ok |-> acc.ok, namespace |-> acc.namespace, next |-> acc.next,
             bound |-> acc.bound, operations |-> acc.operations]
      /\ acc.next \in Nat /\ next <= acc.next
  BY DEF ResolvedFrom
<1>2. r = [acc EXCEPT !.ok = fine, !.next = acc.next + 1, !.bound = bound,
                      !.operations = Append(acc.operations, new)]
  BY <1>1 DEF ResolveOperation
<1> HIDE DEF fine, r
<1>3. r = [ok |-> fine, namespace |-> acc.namespace, next |-> acc.next + 1,
           bound |-> bound, operations |-> Append(acc.operations, new)]
  <2> HIDE DEF bound, new
  <2> QED BY <1>1, <1>2
<1>4. new.kind = "Allocate" /\ new.entity = acc.next /\ new.kind \in Kinds
  BY DEF Kinds
<1> HIDE DEF new
<1>5. IsSeq(Append(acc.operations, new)) /\ KindsKnown(Append(acc.operations, new))
  BY <1>4, KindsAppend DEF ResolvedFrom
<1>6. Range(bound) \subseteq next..acc.next
  <2>1. \A t \in DOMAIN acc.bound : acc.bound[t] \in next..(acc.next - 1)
    BY DEF ResolvedFrom, Range
  <2>2. \A t \in DOMAIN bound : bound[t] \in next..acc.next
    BY <1>1, <2>1
  <2> HIDE DEF bound
  <2> QED BY <2>2 DEF Range
<1> HIDE DEF bound
<1>7. ResolvedFrom(next, r)
  <2>1. r.next = acc.next + 1 /\ r.next - 1 = acc.next /\ r.next \in Nat /\ next <= r.next
    BY <1>1, <1>3
  <2>2. r.operations = Append(acc.operations, new) /\ r.bound = bound
    BY <1>3
  <2>3. r = [ok |-> r.ok, namespace |-> r.namespace, next |-> r.next,
             bound |-> r.bound, operations |-> r.operations]
    BY <1>3
  <2> QED BY <1>5, <1>6, <2>1, <2>2, <2>3 DEF ResolvedFrom
<1>8. Allocates(next, r)
  <2> SUFFICES ASSUME NEW ws, IsWorkspace(ws), ws.ok, ws.next = next
               PROVE  /\ AppliedTo(ws, r.operations).ok
                      /\ AppliedTo(ws, r.operations).next = r.next
    BY DEF Allocates
  <2>1. AppliedTo(ws, acc.operations).ok /\ AppliedTo(ws, acc.operations).next = acc.next
    BY DEF Allocates
  <2>2. IsSeq(acc.operations) /\ KindsKnown(acc.operations)
    BY DEF ResolvedFrom
  <2>3. /\ AppliedTo(ws, Append(acc.operations, new)).ok
        /\ AppliedTo(ws, Append(acc.operations, new)).next = AppliedTo(ws, acc.operations).next + 1
    BY <1>4, <2>1, <2>2, AppendApplies
  <2>4. r.operations = Append(acc.operations, new) /\ r.next = acc.next + 1
    BY <1>3
  <2> QED BY <2>1, <2>3, <2>4
<1> QED BY <1>7, <1>8 DEF r

LEMMA OtherResolved ==
    ASSUME NEW next \in Nat, NEW acc, ResolvedFrom(next, acc), Allocates(next, acc),
           NEW new, new.kind \in Kinds, new.kind # "Allocate"
    PROVE  LET r == [acc EXCEPT !.operations = Append(@, new)]
           IN  ResolvedFrom(next, r) /\ Allocates(next, r)
<1> DEFINE r == [acc EXCEPT !.operations = Append(@, new)]
<1>1. acc = [ok |-> acc.ok, namespace |-> acc.namespace, next |-> acc.next,
             bound |-> acc.bound, operations |-> acc.operations]
      /\ acc.next \in Nat /\ next <= acc.next
  BY DEF ResolvedFrom
<1>2. r = [ok |-> acc.ok, namespace |-> acc.namespace, next |-> acc.next,
           bound |-> acc.bound, operations |-> Append(acc.operations, new)]
  BY <1>1
<1> HIDE DEF r
<1>3. IsSeq(Append(acc.operations, new)) /\ KindsKnown(Append(acc.operations, new))
  BY KindsAppend DEF ResolvedFrom
<1>4. ResolvedFrom(next, r)
  <2>1. r.next = acc.next /\ r.operations = Append(acc.operations, new) /\ r.bound = acc.bound
    BY <1>2
  <2>2. r = [ok |-> r.ok, namespace |-> r.namespace, next |-> r.next,
             bound |-> r.bound, operations |-> r.operations]
    BY <1>2
  <2> QED BY <1>3, <2>1, <2>2 DEF ResolvedFrom
<1>5. Allocates(next, r)
  <2> SUFFICES ASSUME NEW ws, IsWorkspace(ws), ws.ok, ws.next = next
               PROVE  /\ AppliedTo(ws, r.operations).ok
                      /\ AppliedTo(ws, r.operations).next = r.next
    BY DEF Allocates
  <2>1. AppliedTo(ws, acc.operations).ok /\ AppliedTo(ws, acc.operations).next = acc.next
    BY DEF Allocates
  <2>2. IsSeq(acc.operations) /\ KindsKnown(acc.operations)
    BY DEF ResolvedFrom
  <2>3. /\ AppliedTo(ws, Append(acc.operations, new)).ok
        /\ AppliedTo(ws, Append(acc.operations, new)).next = AppliedTo(ws, acc.operations).next + 0
    BY <2>1, <2>2, AppendApplies
  <2>4. r.operations = Append(acc.operations, new) /\ r.next = acc.next
    BY <1>2
  <2> QED BY <1>1, <2>1, <2>3, <2>4
<1> QED BY <1>4, <1>5 DEF r

LEMMA Unresolved ==
    ASSUME NEW acc, NEW v,
           acc = [ok |-> acc.ok, namespace |-> acc.namespace, next |-> acc.next,
                  bound |-> acc.bound, operations |-> acc.operations]
    PROVE  [acc EXCEPT !.ok = v] = [ok |-> v, namespace |-> acc.namespace, next |-> acc.next,
                                    bound |-> acc.bound, operations |-> acc.operations]
OBVIOUS

LEMMA OperationResolved ==
    ASSUME NEW next \in Nat, NEW acc, ResolvedFrom(next, acc), Allocates(next, acc),
           NEW op, op.kind \in Kinds
    PROVE  ResolvedFrom(next, ResolveOperation(acc, op)) /\ Allocates(next, ResolveOperation(acc, op))
<1>1. CASE op.kind = "Allocate"
  BY <1>1, AllocateResolved
<1>2. CASE op.kind = "Forget"
  <2> DEFINE new == [kind |-> "Forget", slot |-> op.slot]
  <2>1. ResolveOperation(acc, op) = [acc EXCEPT !.operations = Append(@, new)]
    BY <1>2 DEF ResolveOperation
  <2>2. new.kind \in Kinds /\ new.kind # "Allocate"
    BY DEF Kinds
  <2> HIDE DEF new
  <2> QED BY <2>1, <2>2, OtherResolved
<1>3. CASE op.kind = "Define"
  <2> DEFINE new == [kind |-> "Define", slot |-> op.slot, fact |-> ResolveFact(op.fact, acc)]
             both == Resolvable(op.fact.subject, acc) /\ Resolvable(op.fact.object, acc)
  <2>1. ResolveOperation(acc, op) = IF both THEN [acc EXCEPT !.operations = Append(@, new)]
                                    ELSE [acc EXCEPT !.ok = FALSE]
    BY <1>3 DEF ResolveOperation
  <2>2. new.kind \in Kinds /\ new.kind # "Allocate"
    BY DEF Kinds
  <2> HIDE DEF new, both
  <2>3. CASE both
    BY <2>1, <2>2, <2>3, OtherResolved
  <2>4. CASE ~both
    <3> DEFINE r == [acc EXCEPT !.ok = FALSE]
    <3>0. acc = [ok |-> acc.ok, namespace |-> acc.namespace, next |-> acc.next,
                 bound |-> acc.bound, operations |-> acc.operations]
      BY DEF ResolvedFrom
    <3>1. r = [ok |-> FALSE, namespace |-> acc.namespace, next |-> acc.next,
               bound |-> acc.bound, operations |-> acc.operations]
      BY <3>0, Unresolved, Zenon
    <3> HIDE DEF r
    <3>2. /\ r = [ok |-> r.ok, namespace |-> r.namespace, next |-> r.next,
                  bound |-> r.bound, operations |-> r.operations]
          /\ r.next = acc.next /\ r.bound = acc.bound /\ r.operations = acc.operations
      BY <3>1
    <3>3. ResolvedFrom(next, r) /\ Allocates(next, r)
      BY <3>2 DEF ResolvedFrom, Allocates
    <3> QED BY <2>1, <2>4, <3>3 DEF r
  <2> QED BY <2>3, <2>4
<1> QED BY <1>1, <1>2, <1>3 DEF Kinds

LEMMA IntentResolved ==
    ASSUME NEW next \in Nat, NEW intent, OperationsKnown(intent)
    PROVE  /\ ResolvedFrom(next, ResolveOperations(next, intent))
           /\ Allocates(next, ResolveOperations(next, intent))
<1> DEFINE ops == intent.operations
           n == Len(ops)
<1>1. n \in Nat /\ DOMAIN ops = 1..n /\ \A i \in 1..n : ops[i].kind \in Kinds
  BY SeqShape DEF OperationsKnown, KindsKnown
<1>2. PICK g : ResolveSteps(next, intent, n, g) /\ ResolveOperations(next, intent) = g[n]
  <2>1. n \in Nat /\ DOMAIN intent.operations = 1..n
    BY <1>1
  <2> HIDE DEF n
  <2> QED BY <2>1, ResolveRecursion
<1>3. g[0] = NothingResolved(next, intent) /\ \A i \in 1..n : g[i] = ResolveOperation(g[i - 1], ops[i])
  BY <1>2 DEF ResolveSteps
<1> DEFINE Fine(a) == ResolvedFrom(next, a) /\ Allocates(next, a)
           T == {i \in 0..n : Fine(g[i])}
<1> HIDE DEF n, ops
<1>4. 0 \in T
  <2> DEFINE a == NothingResolved(next, intent)
  <2>1. a = [ok |-> TRUE, namespace |-> intent.namespace, next |-> next, bound |-> <<>>,
             operations |-> <<>>]
    BY DEF NothingResolved
  <2>2. Range(<<>>) = {}
    BY DEF Range
  <2> HIDE DEF a
  <2>3. ResolvedFrom(next, a)
    BY <2>1, <2>2, KindsEmpty DEF ResolvedFrom
  <2>4. a.operations = <<>> /\ a.next = next
    BY <2>1
  <2>5. \A ws : AppliedTo(ws, <<>>) = ws
    BY AppliedAppend, SeqEmpty
  <2>6. Allocates(next, a)
    BY <2>4, <2>5 DEF Allocates
  <2>7. Fine(g[0])
    BY <1>3, <2>3, <2>6 DEF a
  <2> HIDE DEF Fine
  <2> QED BY <1>1, <2>7
<1>5. ASSUME NEW i \in 1..n, i - 1 \in T  PROVE i \in T
  <2> DEFINE a == g[i - 1]
  <2>1. Fine(a) /\ i \in 0..n
    BY <1>1, <1>5
  <2>2. g[i] = ResolveOperation(a, ops[i]) /\ ops[i].kind \in Kinds
    BY <1>1, <1>3
  <2> HIDE DEF a
  <2>3. Fine(g[i])
    BY <2>1, <2>2, OperationResolved
  <2> HIDE DEF Fine
  <2> QED BY <2>1, <2>3
<1> HIDE DEF T
<1>6. \A i \in 0..n : i \in T
  BY <1>1, <1>4, <1>5, Counting
<1>7. n \in T
  BY <1>1, <1>6
<1> QED BY <1>2, <1>7 DEF T

-----------------------------------------------------------------------------
(* Plans: what a commit may append and publish.                              *)

ReplayFrom(base, frames) == Replayed([ok |-> TRUE, world |-> base], frames)

LeadsTo(base, w) == IsWorld(w) /\ IsPrefix(base.id, w.id) /\ base.next <= w.next

\* Every prefix of the frames replays to a descendant of base, all of them to tail.
FramesGood(base, frames, tail) ==
    /\ IsSeq(frames)
    /\ \A m \in 0..Len(frames) : \E w :
         LeadsTo(base, w) /\ ReplayFrom(base, SubSeq(frames, 1, m)) = [ok |-> TRUE, world |-> w]
    /\ ReplayFrom(base, frames) = [ok |-> TRUE, world |-> tail]
    /\ LeadsTo(base, tail)
    /\ frames # <<>> => Len(base.id) < Len(tail.id)

\* The accepted intents have identifiers between low and high, each its own.
EntitiesGood(low, high, outcomes) ==
    /\ \A i \in 1..Len(outcomes) : outcomes[i].accepted =>
         Range(outcomes[i].entities) \subseteq low..(high - 1)
    /\ \A i \in 1..Len(outcomes), j \in 1..Len(outcomes) :
         i # j /\ outcomes[i].accepted /\ outcomes[j].accepted =>
             Range(outcomes[i].entities) \cap Range(outcomes[j].entities) = {}

\* Whoever is accepted gets a world between base, not included, and tail.
WorldsGood(base, tail, outcomes) ==
    \A i \in 1..Len(outcomes) : outcomes[i].accepted =>
        /\ IsSeq(outcomes[i].world) /\ IsPrefix(outcomes[i].world, tail.id)
        /\ Len(base.id) < Len(outcomes[i].world)

\* An accepted intent that insisted on a world got the successor of it.
Insists(intents, outcomes) ==
    \A i \in 1..Len(outcomes) : outcomes[i].accepted =>
        \A p \in Range(intents[i].preconditions) :
            p.kind = "World" => Front(outcomes[i].world) = p.world

GoodPlan(base, p) ==
    /\ FramesGood(base, p.frames, p.tail)
    /\ IsSeq(p.outcomes)
    /\ EntitiesGood(base.next, p.tail.next, p.outcomes)
    /\ WorldsGood(base, p.tail, p.outcomes)

LEMMA LeadsRefl ==
    ASSUME NEW w, IsWorld(w)
    PROVE  LeadsTo(w, w)
BY PrefixRefl DEF LeadsTo, IsWorld

LEMMA LeadsTrans ==
    ASSUME NEW u, IsWorld(u), NEW v, NEW w, LeadsTo(u, v), LeadsTo(v, w)
    PROVE  LeadsTo(u, w)
<1>1. /\ IsSeq(u.id) /\ IsSeq(v.id) /\ IsSeq(w.id)
      /\ u.next \in Nat /\ v.next \in Nat /\ w.next \in Nat
  BY DEF LeadsTo, IsWorld
<1>2. IsPrefix(u.id, w.id)
  BY <1>1, PrefixTrans DEF LeadsTo
<1>3. u.next <= w.next
  BY <1>1 DEF LeadsTo
<1> QED BY <1>2, <1>3 DEF LeadsTo

LEMMA NoFrames ==
    ASSUME NEW base, IsWorld(base)
    PROVE  FramesGood(base, <<>>, base)
<1>1. ReplayFrom(base, <<>>) = [ok |-> TRUE, world |-> base]
  BY SeqEmpty, ReplayedAppend DEF ReplayFrom
<1>2. SubSeq(<<>>, 1, 0) = <<>> /\ Len(<<>>) = 0 /\ IsSeq(<<>>)
  BY SeqEmpty, SeqWhole
<1>3. LeadsTo(base, base)
  BY LeadsRefl
<1>4. \A m \in 0..Len(<<>>) : m = 0
  BY <1>2
<1> QED BY <1>1, <1>2, <1>3, <1>4 DEF FramesGood

\* One more frame.
LEMMA FramesAppend ==
    ASSUME NEW base, IsWorld(base), NEW frames, NEW tail, FramesGood(base, frames, tail),
           NEW frame, NEW child, LeadsTo(tail, child), Len(tail.id) < Len(child.id),
           Replay([ok |-> TRUE, world |-> tail], frame) = [ok |-> TRUE, world |-> child]
    PROVE  FramesGood(base, Append(frames, frame), child)
<1> DEFINE z == Append(frames, frame)
           n == Len(frames)
<1>1. IsSeq(frames) /\ n \in Nat
  BY SeqShape DEF FramesGood
<1>2. /\ IsSeq(z) /\ Len(z) = n + 1 /\ \A i \in 1..n : z[i] = frames[i]
  BY <1>1, SeqAppend
<1>3. ReplayFrom(base, z) = [ok |-> TRUE, world |-> child]
  BY <1>1, ReplayedAppend DEF ReplayFrom, FramesGood
<1>4. LeadsTo(base, tail) /\ LeadsTo(base, child)
  BY LeadsTrans DEF FramesGood
<1>5. Len(base.id) < Len(child.id)
  <2>1. IsSeq(base.id) /\ IsSeq(tail.id) /\ IsSeq(child.id) /\ IsPrefix(base.id, tail.id)
    BY <1>4 DEF LeadsTo, IsWorld
  <2>2. Len(base.id) \in Nat /\ Len(tail.id) \in Nat /\ Len(child.id) \in Nat
    BY <2>1, SeqShape
  <2>3. Len(base.id) <= Len(tail.id)
    BY <2>1, PrefixIs
  <2> QED BY <2>2, <2>3
<1> HIDE DEF z, n
<1>6. ASSUME NEW m \in 0..Len(z)
      PROVE  \E w : LeadsTo(base, w) /\ ReplayFrom(base, SubSeq(z, 1, m)) = [ok |-> TRUE, world |-> w]
  <2>1. CASE m = Len(z)
    <3>1. SubSeq(z, 1, m) = z
      BY <1>2, <2>1, SeqWhole
    <3> QED BY <1>3, <1>4, <3>1
  <2>2. CASE m # Len(z)
    <3>1. m \in 0..n /\ m \in 0..Len(frames) /\ Len(frames) = n
      BY <1>1, <1>2, <2>2 DEF n
    <3> DEFINE a == SubSeq(z, 1, m)
               b == SubSeq(frames, 1, m)
    <3>2. IsSeq(a) /\ Len(a) = m /\ \A i \in 1..m : a[i] = z[i]
      BY <1>2, SeqFirst
    <3>3. IsSeq(b) /\ Len(b) = m /\ \A i \in 1..m : b[i] = frames[i]
      BY <1>1, <3>1, SeqFirst
    <3> HIDE DEF a, b
    <3>4. \A i \in 1..Len(a) : a[i] = b[i]
      BY <1>1, <1>2, <3>1, <3>2, <3>3
    <3>5. a = b
      BY <3>2, <3>3, <3>4, SameSeq
    <3>6. \E w : LeadsTo(base, w) /\ ReplayFrom(base, b) = [ok |-> TRUE, world |-> w]
      BY <3>1 DEF FramesGood, b
    <3> QED BY <3>5, <3>6 DEF a
  <2> QED BY <2>1, <2>2
<1> QED BY <1>2, <1>3, <1>4, <1>5, <1>6 DEF FramesGood, z

\* An epoch of one frame, or a strict commit.
SingleId(base, next, ops) == WorldId(base.id, Version(base.id) + 1, next, ops)

SingleWorld(base, next, ops) ==
    [id |-> SingleId(base, next, ops), next |-> next, stacks |-> Applied(base, ops).stacks]

SingleFrame(base, next, ops) ==
    [parent_world |-> base.id, parent_version |-> Version(base.id),
     resulting_world |-> SingleId(base, next, ops), resulting_version |-> Version(base.id) + 1,
     resulting_allocator |-> next, operations |-> ops]

LEMMA SingleLeads ==
    ASSUME NEW base, IsWorld(base), NEW ops, NEW next \in Nat, base.next <= next
    PROVE  /\ LeadsTo(base, SingleWorld(base, next, ops))
           /\ Len(base.id) < Len(SingleWorld(base, next, ops).id)
           /\ IsSeq(SingleId(base, next, ops)) /\ Front(SingleId(base, next, ops)) = base.id
<1> DEFINE w == SingleWorld(base, next, ops)
           id == SingleId(base, next, ops)
<1>1. w = [id |-> id, next |-> next, stacks |-> Applied(base, ops).stacks]
  BY DEF SingleWorld
<1>2. IsSeq(base.id) /\ Len(base.id) \in Nat
  BY SeqShape DEF IsWorld
<1>3. IsSeq(id) /\ Len(id) = Len(base.id) + 1 /\ IsPrefix(base.id, id) /\ Front(id) = base.id
  BY <1>2, NewId DEF SingleId
<1> HIDE DEF w, id
<1>4. IsWorld(w) /\ w.id = id /\ w.next = next
  BY <1>1, <1>3 DEF IsWorld
<1> QED BY <1>2, <1>3, <1>4 DEF LeadsTo, w, id

LEMMA SingleGood ==
    ASSUME NEW base, IsWorld(base), NEW ops, NEW next \in Nat, base.next <= next,
           Applied(base, ops).ok, Applied(base, ops).next = next
    PROVE  FramesGood(base, <<SingleFrame(base, next, ops)>>, SingleWorld(base, next, ops))
<1> DEFINE f == SingleFrame(base, next, ops)
           w == SingleWorld(base, next, ops)
<1>1. Replay([ok |-> TRUE, world |-> base], f) = [ok |-> TRUE, world |-> w]
  BY FrameReplays DEF SingleFrame, SingleWorld, SingleId
<1>2. LeadsTo(base, w) /\ Len(base.id) < Len(w.id)
  BY SingleLeads
<1> HIDE DEF f, w
<1>3. FramesGood(base, Append(<<>>, f), w)
  BY <1>1, <1>2, NoFrames, FramesAppend
<1>4. Append(<<>>, f) = <<f>>
  OBVIOUS
<1> QED BY <1>3, <1>4 DEF f, w

LEMMA EntitiesAppend ==
    ASSUME NEW low \in Nat, NEW mid \in Nat, NEW high \in Nat, low <= mid, mid <= high,
           NEW outcomes, IsSeq(outcomes), EntitiesGood(low, mid, outcomes),
           NEW o, o.accepted => Range(o.entities) \subseteq mid..(high - 1)
    PROVE  EntitiesGood(low, high, Append(outcomes, o))
<1> DEFINE z == Append(outcomes, o)
           n == Len(outcomes)
<1>1. /\ Len(z) = n + 1 /\ (\A i \in 1..n : z[i] = outcomes[i]) /\ z[n + 1] = o /\ n \in Nat
  BY SeqAppend, SeqShape
<1> HIDE DEF z
<1>2. \A i \in 1..Len(z) : i \in 1..n \/ i = n + 1
  BY <1>1
<1>3. \A i \in 1..n : z[i].accepted => Range(z[i].entities) \subseteq low..(mid - 1)
  BY <1>1 DEF EntitiesGood
<1>4. z[n + 1].accepted => Range(z[n + 1].entities) \subseteq mid..(high - 1)
  BY <1>1
<1>5. low..(mid - 1) \subseteq low..(high - 1) /\ mid..(high - 1) \subseteq low..(high - 1)
      /\ (low..(mid - 1)) \cap (mid..(high - 1)) = {}
  OBVIOUS
<1>6. ASSUME NEW i \in 1..Len(z), z[i].accepted
      PROVE  Range(z[i].entities) \subseteq low..(high - 1)
  <2>1. CASE i \in 1..n
    BY <1>3, <1>5, <1>6, <2>1
  <2>2. CASE i = n + 1
    BY <1>4, <1>5, <1>6, <2>2
  <2> QED BY <1>2, <2>1, <2>2
<1>7. ASSUME NEW i \in 1..Len(z), NEW j \in 1..Len(z), i # j, z[i].accepted, z[j].accepted
      PROVE  Range(z[i].entities) \cap Range(z[j].entities) = {}
  <2>1. CASE i \in 1..n /\ j \in 1..n
    BY <1>1, <1>7, <2>1 DEF EntitiesGood
  <2>2. CASE i \in 1..n /\ j = n + 1
    BY <1>3, <1>4, <1>5, <1>7, <2>2
  <2>3. CASE i = n + 1 /\ j \in 1..n
    BY <1>3, <1>4, <1>5, <1>7, <2>3
  <2> QED BY <1>2, <1>7, <2>1, <2>2, <2>3
<1> QED BY <1>6, <1>7 DEF EntitiesGood, z

-----------------------------------------------------------------------------
(* derive_epoch.                                                             *)

\* A child and the frame to it.
LEMMA ChildIs ==
    ASSUME NEW w, IsWorld(w), NEW ops, NEW next, Applied(w, ops).next = next
    PROVE  /\ Candidate(w, ops) = SingleWorld(w, next, ops)
           /\ FrameTo(w, ops, Candidate(w, ops)) = SingleFrame(w, next, ops)
<1> DEFINE ws == Applied(w, ops)
           c == Candidate(w, ops)
<1>1. c = [id |-> WorldId(w.id, Version(w.id) + 1, ws.next, ops), next |-> ws.next,
           stacks |-> ws.stacks]
  BY DEF Candidate, Child
<1>2. ws.next = next /\ IsSeq(w.id)
  BY DEF IsWorld
<1> HIDE DEF ws, c
<1>3. c = SingleWorld(w, next, ops)
  BY <1>1, <1>2 DEF SingleWorld, SingleId, ws
<1>4. c.id = SingleId(w, next, ops) /\ c.next = next
  BY <1>3 DEF SingleWorld
<1>5. Len(c.id) = Len(w.id) + 1
  BY <1>2, <1>4, NewId DEF SingleId
<1>6. FrameTo(w, ops, c) = SingleFrame(w, next, ops)
  BY <1>4, <1>5 DEF FrameTo, SingleFrame, Version
<1> QED BY <1>3, <1>6 DEF c

\* An intent that passes makes the child that its resolved operations make.
LEMMA IntentChild ==
    ASSUME NEW w, IsWorld(w), NEW intent, OperationsKnown(intent), NEW r,
           r = ResolveOperations(w.next, intent)
    PROVE  /\ IsSeq(r.operations) /\ KindsKnown(r.operations)
           /\ Applied(w, r.operations).ok /\ Applied(w, r.operations).next = r.next
           /\ r.next \in Nat /\ w.next <= r.next
           /\ Range(r.bound) \subseteq w.next..(r.next - 1)
           /\ Candidate(w, r.operations) = SingleWorld(w, r.next, r.operations)
           /\ FrameTo(w, r.operations, Candidate(w, r.operations)) =
                SingleFrame(w, r.next, r.operations)
<1>1. w.next \in Nat /\ IsSeq(w.id)
  BY DEF IsWorld
<1>2. ResolvedFrom(w.next, r) /\ Allocates(w.next, r)
  BY <1>1, IntentResolved
<1> DEFINE ops == r.operations
           ws == Applied(w, ops)
           c == Candidate(w, ops)
<1>3. IsSeq(ops) /\ KindsKnown(ops) /\ r.next \in Nat /\ w.next <= r.next
      /\ Range(r.bound) \subseteq w.next..(r.next - 1)
  BY <1>2 DEF ResolvedFrom
<1>4. ws.ok /\ ws.next = r.next
  BY <1>2, WorkspaceOf, AppliedIs DEF Allocates
<1>5. c = SingleWorld(w, r.next, ops) /\ FrameTo(w, ops, c) = SingleFrame(w, r.next, ops)
  BY <1>4, ChildIs
<1> QED BY <1>3, <1>4, <1>5

LEMMA WorldsAppend ==
    ASSUME NEW base, NEW tail, IsWorld(tail), NEW child, LeadsTo(tail, child),
           NEW outcomes, IsSeq(outcomes), WorldsGood(base, tail, outcomes),
           NEW o, o.accepted => o.world = child.id /\ Len(base.id) < Len(child.id)
    PROVE  WorldsGood(base, child, Append(outcomes, o))
<1> DEFINE z == Append(outcomes, o)
           n == Len(outcomes)
<1>1. /\ Len(z) = n + 1 /\ (\A i \in 1..n : z[i] = outcomes[i]) /\ z[n + 1] = o /\ n \in Nat
  BY SeqAppend, SeqShape
<1>2. IsSeq(tail.id) /\ IsSeq(child.id) /\ IsPrefix(tail.id, child.id)
  BY DEF LeadsTo, IsWorld
<1> HIDE DEF z, n
<1>3. ASSUME NEW i \in 1..Len(z), z[i].accepted
      PROVE  /\ IsSeq(z[i].world) /\ IsPrefix(z[i].world, child.id)
             /\ Len(base.id) < Len(z[i].world)
  <2>1. CASE i \in 1..n
    <3>1. /\ z[i] = outcomes[i] /\ IsSeq(outcomes[i].world) /\ IsPrefix(outcomes[i].world, tail.id)
          /\ Len(base.id) < Len(outcomes[i].world)
      BY <1>1, <1>3, <2>1 DEF WorldsGood, n
    <3> QED BY <1>2, <3>1, PrefixTrans
  <2>2. CASE i = n + 1
    BY <1>1, <1>2, <1>3, <2>2, PrefixRefl
  <2> QED BY <1>1, <2>1, <2>2
<1> QED BY <1>3 DEF WorldsGood, z

LEMMA InsistsAppend ==
    ASSUME NEW intents, NEW outcomes, IsSeq(outcomes), Insists(intents, outcomes), NEW o, NEW k,
           k = Len(outcomes) + 1,
           o.accepted => \A p \in Range(intents[k].preconditions) :
                             p.kind = "World" => Front(o.world) = p.world
    PROVE  Insists(intents, Append(outcomes, o))
<1> DEFINE z == Append(outcomes, o)
           n == Len(outcomes)
<1>1. /\ Len(z) = n + 1 /\ (\A i \in 1..n : z[i] = outcomes[i]) /\ z[n + 1] = o /\ n \in Nat
  BY SeqAppend, SeqShape
<1> HIDE DEF z
<1>2. ASSUME NEW i \in 1..Len(z), z[i].accepted, NEW p \in Range(intents[i].preconditions),
             p.kind = "World"
      PROVE  Front(z[i].world) = p.world
  <2>1. CASE i \in 1..n
    BY <1>1, <1>2, <2>1 DEF Insists
  <2>2. CASE i = n + 1
    BY <1>1, <1>2, <2>2
  <2> QED BY <1>1, <2>1, <2>2
<1> QED BY <1>2 DEF Insists, z

\* The plan after k intents.
ChainGood(base, intents, k, chosen) ==
    /\ chosen = [tail |-> chosen.tail, frames |-> chosen.frames, outcomes |-> chosen.outcomes]
    /\ GoodPlan(base, chosen)
    /\ Len(chosen.outcomes) = k
    /\ Insists(intents, chosen.outcomes)

LEMMA RejectedFacts == Rejected.accepted = FALSE
BY DEF Rejected

LEMMA ChainRejects ==
    ASSUME NEW base, IsWorld(base), NEW intents, NEW k \in Nat, NEW chosen,
           ChainGood(base, intents, k - 1, chosen)
    PROVE  ChainGood(base, intents, k, [chosen EXCEPT !.outcomes = Append(@, Rejected)])
<1> DEFINE q == [chosen EXCEPT !.outcomes = Append(@, Rejected)]
           z == Append(chosen.outcomes, Rejected)
<1>1. chosen = [tail |-> chosen.tail, frames |-> chosen.frames, outcomes |-> chosen.outcomes]
  BY DEF ChainGood
<1>2. q = [tail |-> chosen.tail, frames |-> chosen.frames, outcomes |-> z]
  <2> HIDE DEF z
  <2>1. q = [chosen EXCEPT !.outcomes = z]
    BY DEF z
  <2> QED BY <1>1, <2>1
<1>3. /\ FramesGood(base, chosen.frames, chosen.tail) /\ IsSeq(chosen.outcomes)
      /\ EntitiesGood(base.next, chosen.tail.next, chosen.outcomes)
      /\ WorldsGood(base, chosen.tail, chosen.outcomes) /\ Len(chosen.outcomes) = k - 1
      /\ Insists(intents, chosen.outcomes)
  BY DEF ChainGood, GoodPlan
<1>4. IsWorld(chosen.tail) /\ base.next <= chosen.tail.next /\ base.next \in Nat /\ chosen.tail.next \in Nat
  BY <1>3 DEF FramesGood, LeadsTo, IsWorld
<1>5. IsSeq(z) /\ Len(z) = k
  BY <1>3, SeqAppend
<1>6. EntitiesGood(base.next, chosen.tail.next, z)
  BY <1>3, <1>4, RejectedFacts, EntitiesAppend
<1>7. WorldsGood(base, chosen.tail, z)
  BY <1>3, <1>4, RejectedFacts, LeadsRefl, WorldsAppend
<1>8. Insists(intents, z)
  BY <1>3, RejectedFacts, InsistsAppend
<1> HIDE DEF q, z
<1>9. q.tail = chosen.tail /\ q.frames = chosen.frames /\ q.outcomes = z
  BY <1>2
<1>10. GoodPlan(base, q)
  BY <1>3, <1>5, <1>6, <1>7, <1>9 DEF GoodPlan
<1>11. ChainGood(base, intents, k, q)
  BY <1>2, <1>5, <1>8, <1>9, <1>10 DEF ChainGood
<1> QED BY <1>11 DEF q

LEMMA ChainAccepts ==
    ASSUME NEW base, IsWorld(base), NEW intents, NEW k \in Nat, NEW chosen,
           ChainGood(base, intents, k - 1, chosen), OperationsKnown(intents[k]), NEW r,
           r = ResolveOperations(chosen.tail.next, intents[k]),
           Preconditions(chosen.tail, intents[k].preconditions)
    PROVE  ChainGood(base, intents, k, Derived(chosen, r, Candidate(chosen.tail, r.operations)))
<1> DEFINE w == chosen.tail
           c == Candidate(w, r.operations)
           f == FrameTo(w, r.operations, c)
           o == [accepted |-> TRUE, world |-> c.id, entities |-> r.bound]
           z == Append(chosen.outcomes, o)
           q == Derived(chosen, r, c)
<1>1. /\ FramesGood(base, chosen.frames, w) /\ IsSeq(chosen.outcomes)
      /\ EntitiesGood(base.next, w.next, chosen.outcomes)
      /\ WorldsGood(base, w, chosen.outcomes) /\ Len(chosen.outcomes) = k - 1
      /\ Insists(intents, chosen.outcomes)
  BY DEF ChainGood, GoodPlan
<1>2. IsWorld(w) /\ base.next <= w.next /\ base.next \in Nat /\ w.next \in Nat
  BY <1>1 DEF FramesGood, LeadsTo, IsWorld
<1>3. q = [tail |-> c, frames |-> Append(chosen.frames, f), outcomes |-> z]
  BY DEF Derived
<1>4. Preconditions(w, intents[k].preconditions)
  OBVIOUS
<1>5. r = ResolveOperations(w.next, intents[k])
  OBVIOUS
<1> HIDE DEF w
<1>6. /\ IsSeq(r.operations) /\ KindsKnown(r.operations)
      /\ Applied(w, r.operations).ok /\ Applied(w, r.operations).next = r.next
      /\ r.next \in Nat /\ w.next <= r.next
      /\ Range(r.bound) \subseteq w.next..(r.next - 1)
      /\ c = SingleWorld(w, r.next, r.operations)
      /\ f = SingleFrame(w, r.next, r.operations)
  BY <1>2, <1>5, IntentChild
<1>7. o.accepted = TRUE /\ o.world = c.id /\ o.entities = r.bound
  OBVIOUS
<1> HIDE DEF o, z, q, f, c
<1>8. LeadsTo(w, c) /\ Len(w.id) < Len(c.id) /\ Front(c.id) = w.id /\ c.next = r.next
  <2>1. /\ LeadsTo(w, SingleWorld(w, r.next, r.operations))
        /\ Len(w.id) < Len(SingleWorld(w, r.next, r.operations).id)
        /\ Front(SingleId(w, r.next, r.operations)) = w.id
    BY <1>2, <1>6, SingleLeads
  <2>2. /\ SingleWorld(w, r.next, r.operations).id = SingleId(w, r.next, r.operations)
        /\ SingleWorld(w, r.next, r.operations).next = r.next
    BY DEF SingleWorld
  <2> QED BY <1>6, <2>1, <2>2
<1>9. Replay([ok |-> TRUE, world |-> w], f) = [ok |-> TRUE, world |-> c]
  <2>1. f = [parent_world |-> w.id, parent_version |-> Version(w.id),
             resulting_world |-> WorldId(w.id, Version(w.id) + 1, r.next, r.operations),
             resulting_version |-> Version(w.id) + 1,
             resulting_allocator |-> r.next, operations |-> r.operations]
    BY <1>6 DEF SingleFrame, SingleId
  <2>2. c = [id |-> WorldId(w.id, Version(w.id) + 1, r.next, r.operations),
             next |-> r.next, stacks |-> Applied(w, r.operations).stacks]
    BY <1>6 DEF SingleWorld, SingleId
  <2> QED BY <1>2, <1>6, <2>1, <2>2, FrameReplays
<1>10. FramesGood(base, Append(chosen.frames, f), c)
  BY <1>1, <1>8, <1>9, FramesAppend
<1>11. IsSeq(z) /\ Len(z) = k
  BY <1>1, SeqAppend DEF z
<1>12. EntitiesGood(base.next, c.next, z)
  BY <1>1, <1>2, <1>6, <1>7, <1>8, EntitiesAppend DEF z
<1>13. WorldsGood(base, c, z)
  <2>1. IsSeq(base.id) /\ IsSeq(w.id) /\ IsSeq(c.id) /\ IsPrefix(base.id, w.id)
    BY <1>1, <1>8 DEF FramesGood, LeadsTo, IsWorld
  <2>2. Len(base.id) \in Nat /\ Len(w.id) \in Nat /\ Len(c.id) \in Nat
    BY <2>1, SeqShape
  <2>3. Len(base.id) <= Len(w.id)
    BY <2>1, PrefixIs
  <2>4. Len(base.id) < Len(c.id)
    BY <1>8, <2>2, <2>3
  <2> QED BY <1>1, <1>2, <1>7, <1>8, <2>4, WorldsAppend DEF z
<1>14. Insists(intents, z)
  <2>1. \A p \in Range(intents[k].preconditions) : p.kind = "World" => p.world = w.id
    BY <1>4 DEF Preconditions
  <2>2. \A p \in Range(intents[k].preconditions) : p.kind = "World" => Front(o.world) = p.world
    BY <1>7, <1>8, <2>1
  <2> QED BY <1>1, <2>2, InsistsAppend DEF z
<1>15. q.tail = c /\ q.frames = Append(chosen.frames, f) /\ q.outcomes = z
  BY <1>3
<1>16. GoodPlan(base, q)
  BY <1>10, <1>11, <1>12, <1>13, <1>15 DEF GoodPlan
<1>17. ChainGood(base, intents, k, q)
  BY <1>3, <1>11, <1>14, <1>15, <1>16 DEF ChainGood
<1> QED BY <1>17 DEF q, c, w

IntentsKnown(intents) == IsSeq(intents) /\ \A i \in 1..Len(intents) : OperationsKnown(intents[i])

LEMMA ChainIsGood ==
    ASSUME NEW base, IsWorld(base), NEW intents, IntentsKnown(intents), NEW vs
    PROVE  ChainGood(base, intents, Len(intents), DeriveEpoch(base, intents, vs))
<1> DEFINE n == Len(intents)
<1>1. n \in Nat /\ DOMAIN intents = 1..n /\ \A i \in 1..n : OperationsKnown(intents[i])
  BY SeqShape DEF IntentsKnown
<1>2. PICK g : ChainSteps(base, intents, vs, n, g) /\ DeriveEpoch(base, intents, vs) = g[n]
  <2> HIDE DEF n
  <2> QED BY <1>1, ChainRecursion
<1>3. g[0] = EmptyPlan(base) /\ \A i \in 1..n : g[i] = DeriveNext(g[i - 1], intents[i], vs)
  BY <1>2 DEF ChainSteps
<1> DEFINE T == {i \in 0..n : ChainGood(base, intents, i, g[i])}
<1> HIDE DEF n
<1>4. 0 \in T
  <2> DEFINE e == EmptyPlan(base)
  <2>1. e = [tail |-> base, frames |-> <<>>, outcomes |-> <<>>]
    BY DEF EmptyPlan
  <2> HIDE DEF e
  <2>2. e.tail = base /\ e.frames = <<>> /\ e.outcomes = <<>>
    BY <2>1
  <2>3. EntitiesGood(base.next, base.next, <<>>) /\ WorldsGood(base, base, <<>>) /\ Insists(intents, <<>>)
    BY SeqEmpty DEF EntitiesGood, WorldsGood, Insists
  <2>4. GoodPlan(base, e)
    BY <2>2, <2>3, NoFrames, SeqEmpty DEF GoodPlan
  <2>5. ChainGood(base, intents, 0, e)
    BY <2>1, <2>2, <2>3, <2>4, SeqEmpty DEF ChainGood
  <2> QED BY <1>1, <1>3, <2>5 DEF e
<1>5. ASSUME NEW i \in 1..n, i - 1 \in T  PROVE i \in T
  <2> DEFINE p == g[i - 1]
             r == ResolveOperations(p.tail.next, intents[i])
  <2>1. ChainGood(base, intents, i - 1, p) /\ i \in 0..n /\ i \in Nat
    BY <1>1, <1>5
  <2>2. g[i] = DeriveNext(p, intents[i], vs)
    BY <1>3
  <2> HIDE DEF p
  <2>3. g[i] = IF IntentAccepted(p.tail, intents[i], r, vs)
               THEN Derived(p, r, Candidate(p.tail, r.operations))
               ELSE [p EXCEPT !.outcomes = Append(@, Rejected)]
    BY <2>2 DEF DeriveNext
  <2>4. CASE IntentAccepted(p.tail, intents[i], r, vs)
    <3>1. Preconditions(p.tail, intents[i].preconditions)
      BY <2>4 DEF IntentAccepted
    <3> HIDE DEF r
    <3>2. ChainGood(base, intents, i, Derived(p, r, Candidate(p.tail, r.operations)))
      <4>1. r = ResolveOperations(p.tail.next, intents[i])
        BY DEF r
      <4> QED BY <1>1, <2>1, <3>1, <4>1, ChainAccepts
    <3> QED BY <2>1, <2>3, <2>4, <3>2
  <2>5. CASE ~IntentAccepted(p.tail, intents[i], r, vs)
    <3>1. ChainGood(base, intents, i, [p EXCEPT !.outcomes = Append(@, Rejected)])
      BY <2>1, ChainRejects
    <3> QED BY <2>1, <2>3, <2>5, <3>1
  <2> QED BY <2>4, <2>5
<1> HIDE DEF T
<1>6. \A i \in 0..n : i \in T
  BY <1>1, <1>4, <1>5, Counting
<1>7. n \in T
  BY <1>1, <1>6
<1> QED BY <1>2, <1>7 DEF T, n
-----------------------------------------------------------------------------
(* Epochs of one frame: derive_epoch_world and the stack machine keep an     *)
(* allocator, a synthetic predecessor and the operations accepted so far.    *)

\* The intents insist on base or an ancestor of it.
InsistOnPast(base, intents) ==
    \A i \in 1..Len(intents) : \A p \in Range(intents[i].preconditions) :
        p.kind = "World" => IsSeq(p.world) /\ Len(p.world) <= Len(base.id)

InsistedOn(id, intents, outcomes) ==
    \A i \in 1..Len(outcomes) : outcomes[i].accepted =>
        \A p \in Range(intents[i].preconditions) : p.kind = "World" => p.world = id

\* After k intents.  The predecessor has base's identity or a longer one.
EpochGood(base, intents, k, next, id, operations, outcomes) ==
    /\ IsSeq(operations) /\ KindsKnown(operations)
    /\ next \in Nat /\ base.next <= next
    /\ Applied(base, operations).ok /\ Applied(base, operations).next = next
    /\ IsSeq(outcomes) /\ Len(outcomes) = k
    /\ EntitiesGood(base.next, next, outcomes)
    /\ IsSeq(id) /\ Len(base.id) <= Len(id) /\ (Len(id) = Len(base.id) => id = base.id)
    /\ InsistedOn(base.id, intents, outcomes)

LEMMA InsistedAppend ==
    ASSUME NEW id, NEW intents, NEW outcomes, IsSeq(outcomes), InsistedOn(id, intents, outcomes),
           NEW o, NEW k, k = Len(outcomes) + 1,
           o.accepted => \A p \in Range(intents[k].preconditions) : p.kind = "World" => p.world = id
    PROVE  InsistedOn(id, intents, Append(outcomes, o))
<1> DEFINE z == Append(outcomes, o)
           n == Len(outcomes)
<1>1. /\ Len(z) = n + 1 /\ (\A i \in 1..n : z[i] = outcomes[i]) /\ z[n + 1] = o /\ n \in Nat
  BY SeqAppend, SeqShape
<1> HIDE DEF z
<1>2. ASSUME NEW i \in 1..Len(z), z[i].accepted, NEW p \in Range(intents[i].preconditions),
             p.kind = "World"
      PROVE  p.world = id
  <2>1. CASE i \in 1..n
    BY <1>1, <1>2, <2>1 DEF InsistedOn
  <2>2. CASE i = n + 1
    BY <1>1, <1>2, <2>2
  <2> QED BY <1>1, <2>1, <2>2
<1> QED BY <1>2 DEF InsistedOn, z

LEMMA EpochStarts ==
    ASSUME NEW base, IsWorld(base), NEW intents
    PROVE  EpochGood(base, intents, 0, base.next, base.id, <<>>, <<>>)
<1>1. base.next \in Nat /\ IsSeq(base.id) /\ Len(base.id) \in Nat
  BY SeqShape DEF IsWorld
<1>2. Applied(base, <<>>) = Workspace(base)
  BY AppliedIs, AppliedAppend, SeqEmpty
<1>3. Applied(base, <<>>).ok /\ Applied(base, <<>>).next = base.next
  BY <1>2, WorkspaceOf
<1>4. EntitiesGood(base.next, base.next, <<>>) /\ InsistedOn(base.id, intents, <<>>)
  BY SeqEmpty DEF EntitiesGood, InsistedOn
<1> QED BY <1>1, <1>3, <1>4, SeqEmpty, KindsEmpty DEF EpochGood

LEMMA EpochRejectsOne ==
    ASSUME NEW base, IsWorld(base), NEW intents, NEW k \in Nat, NEW next, NEW id, NEW ops, NEW outs,
           EpochGood(base, intents, k - 1, next, id, ops, outs)
    PROVE  EpochGood(base, intents, k, next, id, ops, Append(outs, Rejected))
<1> DEFINE z == Append(outs, Rejected)
<1>1. /\ IsSeq(outs) /\ Len(outs) = k - 1 /\ next \in Nat /\ base.next <= next
      /\ EntitiesGood(base.next, next, outs) /\ InsistedOn(base.id, intents, outs)
  BY DEF EpochGood
<1>2. base.next \in Nat
  BY DEF IsWorld
<1>3. IsSeq(z) /\ Len(z) = k
  BY <1>1, SeqAppend
<1>4. EntitiesGood(base.next, next, z)
  BY <1>1, <1>2, RejectedFacts, EntitiesAppend
<1>5. InsistedOn(base.id, intents, z)
  BY <1>1, RejectedFacts, InsistedAppend
<1> HIDE DEF z
<1>6. EpochGood(base, intents, k, next, id, ops, z)
  BY <1>3, <1>4, <1>5 DEF EpochGood
<1> QED BY <1>6 DEF z

LEMMA EpochAcceptsOne ==
    ASSUME NEW base, IsWorld(base), NEW intents, NEW k \in Nat, NEW next, NEW id, NEW ops, NEW outs,
           EpochGood(base, intents, k - 1, next, id, ops, outs), NEW r, ResolvedFrom(next, r),
           Allocates(next, r),
           \A p \in Range(intents[k].preconditions) :
               p.kind = "World" => p.world = id /\ Len(p.world) <= Len(base.id),
           NEW o, o.accepted, o.entities = r.bound, NEW v, NEW a, NEW x, NEW child,
           child = WorldId(id, v, a, x)
    PROVE  EpochGood(base, intents, k, r.next, child, ops \o r.operations, Append(outs, o))
<1> DEFINE z == Append(outs, o)
           all == ops \o r.operations
<1>1. /\ IsSeq(outs) /\ Len(outs) = k - 1 /\ next \in Nat /\ base.next <= next
      /\ EntitiesGood(base.next, next, outs) /\ InsistedOn(base.id, intents, outs)
      /\ IsSeq(ops) /\ KindsKnown(ops)
      /\ Applied(base, ops).ok /\ Applied(base, ops).next = next
      /\ IsSeq(id) /\ Len(base.id) <= Len(id) /\ (Len(id) = Len(base.id) => id = base.id)
  BY DEF EpochGood
<1>2. base.next \in Nat /\ IsSeq(base.id) /\ Len(base.id) \in Nat /\ Len(id) \in Nat
  BY <1>1, SeqShape DEF IsWorld
<1>3. /\ r.next \in Nat /\ next <= r.next /\ IsSeq(r.operations) /\ KindsKnown(r.operations)
      /\ Range(r.bound) \subseteq next..(r.next - 1)
  BY DEF ResolvedFrom
<1>4. IsSeq(all) /\ KindsKnown(all)
  BY <1>1, <1>3, KindsConcat
<1>5. Applied(base, all).ok /\ Applied(base, all).next = r.next
  <2> DEFINE ws == Applied(base, ops)
  <2>1. IsWorkspace(ws)
    BY <1>1, CandidateFacts
  <2>2. Applied(base, all) = AppliedTo(ws, r.operations)
    BY <1>1, <1>3, AppliedIs, AppliedConcat
  <2>3. ws.ok /\ ws.next = next
    BY <1>1
  <2> HIDE DEF ws
  <2>4. AppliedTo(ws, r.operations).ok /\ AppliedTo(ws, r.operations).next = r.next
    BY <2>1, <2>3 DEF Allocates
  <2> QED BY <2>2, <2>4
<1>6. IsSeq(z) /\ Len(z) = k
  BY <1>1, SeqAppend
<1>7. EntitiesGood(base.next, r.next, z)
  BY <1>1, <1>2, <1>3, EntitiesAppend
<1>8. InsistedOn(base.id, intents, z)
  <2>1. \A p \in Range(intents[k].preconditions) : p.kind = "World" => p.world = base.id
    BY <1>1, <1>2
  <2> QED BY <1>1, <2>1, InsistedAppend
<1>9. IsSeq(child) /\ Len(child) = Len(id) + 1
  BY <1>1, NewId
<1>10. Len(base.id) <= Len(child) /\ Len(child) # Len(base.id)
  BY <1>1, <1>2, <1>9
<1> HIDE DEF z, all
<1>11. base.next <= r.next
  BY <1>1, <1>2, <1>3
<1>12. EpochGood(base, intents, k, r.next, child, all, z)
  BY <1>3, <1>4, <1>5, <1>6, <1>7, <1>8, <1>9, <1>10, <1>11 DEF EpochGood
<1> QED BY <1>12 DEF z, all

\* What from the epoch's state becomes the answers: every accepted intent is told the same world.
SingleOutcomes(id, outcomes) ==
    [i \in DOMAIN outcomes |-> IF outcomes[i].accepted
                               THEN [accepted |-> TRUE, world |-> id,
                                     entities |-> outcomes[i].entities]
                               ELSE Rejected]

NothingAccepted(outcomes) == \A i \in DOMAIN outcomes : ~outcomes[i].accepted

LEMMA NothingPlan ==
    ASSUME NEW base, IsWorld(base), NEW intents, NEW outs, IsSeq(outs),
           \A i \in 1..Len(outs) : ~outs[i].accepted,
           NEW p, p.tail = base, p.frames = <<>>, p.outcomes = outs
    PROVE  GoodPlan(base, p) /\ Insists(intents, p.outcomes)
<1>1. EntitiesGood(base.next, base.next, outs) /\ WorldsGood(base, base, outs) /\ Insists(intents, outs)
  BY DEF EntitiesGood, WorldsGood, Insists
<1> QED BY <1>1, NoFrames DEF GoodPlan

LEMMA OutcomesOf ==
    ASSUME NEW id, NEW outs, IsSeq(outs)
    PROVE  /\ IsSeq(SingleOutcomes(id, outs)) /\ Len(SingleOutcomes(id, outs)) = Len(outs)
           /\ \A i \in 1..Len(outs) :
                /\ SingleOutcomes(id, outs)[i].accepted => outs[i].accepted
                /\ outs[i].accepted => /\ SingleOutcomes(id, outs)[i].accepted
                                       /\ SingleOutcomes(id, outs)[i].world = id
                                       /\ SingleOutcomes(id, outs)[i].entities = outs[i].entities
<1>1. Len(outs) \in Nat /\ DOMAIN outs = 1..Len(outs)
  BY SeqShape
<1> DEFINE z == SingleOutcomes(id, outs)
           One(i) == [accepted |-> TRUE, world |-> id, entities |-> outs[i].entities]
<1>2. z = [i \in 1..Len(outs) |-> IF outs[i].accepted THEN One(i) ELSE Rejected]
  BY <1>1 DEF SingleOutcomes
<1>3. \A i : One(i).accepted = TRUE /\ One(i).world = id /\ One(i).entities = outs[i].entities
  OBVIOUS
<1> HIDE DEF z, One
<1>4. z = [i \in 1..Len(outs) |-> z[i]]
  BY <1>2
<1>5. IsSeq(z) /\ Len(z) = Len(outs)
  BY <1>1, <1>4, SeqMade
<1>6. \A i \in 1..Len(outs) : z[i] = IF outs[i].accepted THEN One(i) ELSE Rejected
  BY <1>2
<1>7. \A i \in 1..Len(outs) :
         /\ z[i].accepted => outs[i].accepted
         /\ outs[i].accepted => z[i].accepted /\ z[i].world = id /\ z[i].entities = outs[i].entities
  BY <1>3, <1>6, RejectedFacts
<1> QED BY <1>5, <1>7 DEF z

LEMMA SinglePlan ==
    ASSUME NEW base, IsWorld(base), NEW intents, NEW k, NEW next, NEW pred, NEW ops, NEW outs,
           EpochGood(base, intents, k, next, pred, ops, outs), NEW p,
           p.tail = SingleWorld(base, next, ops), p.frames = <<SingleFrame(base, next, ops)>>,
           p.outcomes = SingleOutcomes(SingleId(base, next, ops), outs)
    PROVE  GoodPlan(base, p) /\ Insists(intents, p.outcomes)
<1> DEFINE id == SingleId(base, next, ops)
           w == SingleWorld(base, next, ops)
           z == SingleOutcomes(id, outs)
<1>1. /\ next \in Nat /\ base.next <= next /\ IsSeq(outs)
      /\ Applied(base, ops).ok /\ Applied(base, ops).next = next
      /\ EntitiesGood(base.next, next, outs) /\ InsistedOn(base.id, intents, outs)
  BY DEF EpochGood
<1>2. FramesGood(base, p.frames, p.tail)
  BY <1>1, SingleGood
<1>3. LeadsTo(base, w) /\ IsSeq(id) /\ Front(id) = base.id /\ Len(base.id) < Len(w.id)
  BY <1>1, SingleLeads
<1>4. w.id = id /\ w.next = next
  BY DEF SingleWorld
<1>5. p.tail = w /\ p.outcomes = z
  OBVIOUS
<1> HIDE DEF id, w
<1>6. IsSeq(z) /\ Len(z) = Len(outs)
      /\ \A i \in 1..Len(outs) :
            /\ z[i].accepted => outs[i].accepted
            /\ outs[i].accepted => /\ z[i].accepted /\ z[i].world = id
                                   /\ z[i].entities = outs[i].entities
  BY <1>1, OutcomesOf
<1> HIDE DEF z
<1>7. EntitiesGood(base.next, next, z)
  BY <1>1, <1>6 DEF EntitiesGood
<1>8. WorldsGood(base, w, z)
  BY <1>3, <1>4, <1>6, PrefixRefl DEF WorldsGood
<1>9. Insists(intents, z)
  <2>1. ASSUME NEW i \in 1..Len(z), z[i].accepted, NEW q \in Range(intents[i].preconditions),
               q.kind = "World"
        PROVE  Front(z[i].world) = q.world
    BY <1>1, <1>3, <1>6, <2>1 DEF InsistedOn
  <2> QED BY <2>1 DEF Insists
<1> QED BY <1>2, <1>4, <1>5, <1>6, <1>7, <1>8, <1>9 DEF GoodPlan

-----------------------------------------------------------------------------
(* derive_epoch_world.                                                       *)

SpaceGood(base, intents, k, s) ==
    /\ s = [tail |-> s.tail, operations |-> s.operations, outcomes |-> s.outcomes]
    /\ EpochGood(base, intents, k, s.tail.next, s.tail.id, s.operations, s.outcomes)
    /\ IsWorld(s.tail) /\ s.tail.stacks = Applied(base, s.operations).stacks

LEMMA SpaceRejects ==
    ASSUME NEW base, IsWorld(base), NEW intents, NEW k \in Nat, NEW s,
           SpaceGood(base, intents, k - 1, s)
    PROVE  SpaceGood(base, intents, k, [s EXCEPT !.outcomes = Append(@, Rejected)])
<1> DEFINE z == Append(s.outcomes, Rejected)
           q == [s EXCEPT !.outcomes = z]
<1>1. s = [tail |-> s.tail, operations |-> s.operations, outcomes |-> s.outcomes]
  BY DEF SpaceGood
<1> HIDE DEF z
<1>2. q = [tail |-> s.tail, operations |-> s.operations, outcomes |-> z]
  BY <1>1
<1> HIDE DEF q
<1>3. q.tail = s.tail /\ q.operations = s.operations /\ q.outcomes = z
  BY <1>2
<1>4. EpochGood(base, intents, k, s.tail.next, s.tail.id, s.operations, z)
  BY EpochRejectsOne DEF SpaceGood, z
<1>5. SpaceGood(base, intents, k, q)
  BY <1>2, <1>3, <1>4 DEF SpaceGood
<1> QED BY <1>5 DEF q, z

LEMMA SpaceAccepts ==
    ASSUME NEW base, IsWorld(base), NEW intents, NEW k \in Nat, NEW s,
           SpaceGood(base, intents, k - 1, s), OperationsKnown(intents[k]), NEW r,
           r = ResolveOperations(s.tail.next, intents[k]),
           Preconditions(s.tail, intents[k].preconditions),
           \A p \in Range(intents[k].preconditions) : p.kind = "World" => Len(p.world) <= Len(base.id)
    PROVE  SpaceGood(base, intents, k,
                     [tail |-> Candidate(s.tail, r.operations),
                      operations |-> s.operations \o r.operations,
                      outcomes |-> Append(s.outcomes, [accepted |-> TRUE, entities |-> r.bound])])
<1> DEFINE w == s.tail
           c == Candidate(w, r.operations)
           all == s.operations \o r.operations
           o == [accepted |-> TRUE, entities |-> r.bound]
           z == Append(s.outcomes, o)
           q == [tail |-> c, operations |-> all, outcomes |-> z]
<1>1. IsWorld(w) /\ EpochGood(base, intents, k - 1, w.next, w.id, s.operations, s.outcomes)
      /\ w.stacks = Applied(base, s.operations).stacks
  BY DEF SpaceGood
<1>2. /\ IsSeq(r.operations) /\ KindsKnown(r.operations) /\ r.next \in Nat
      /\ Applied(w, r.operations).ok /\ Applied(w, r.operations).next = r.next
      /\ c = SingleWorld(w, r.next, r.operations) /\ w.next <= r.next
  BY <1>1, IntentChild
<1>3. ResolvedFrom(w.next, r) /\ Allocates(w.next, r)
  BY <1>1, IntentResolved DEF IsWorld
<1>4. \A p \in Range(intents[k].preconditions) :
         p.kind = "World" => p.world = w.id /\ Len(p.world) <= Len(base.id)
  BY DEF Preconditions
<1>5. o.accepted /\ o.entities = r.bound
  OBVIOUS
<1> HIDE DEF o, w
<1>6. c.id = WorldId(w.id, Version(w.id) + 1, r.next, r.operations) /\ c.next = r.next
      /\ c.stacks = Applied(w, r.operations).stacks
  BY <1>2 DEF SingleWorld, SingleId
<1>7. IsWorld(c)
  BY <1>1, <1>2, SingleLeads DEF LeadsTo
<1> HIDE DEF c
<1>8. EpochGood(base, intents, k, r.next, c.id, all, z)
  BY <1>1, <1>3, <1>4, <1>5, <1>6, EpochAcceptsOne
<1>9. Applied(base, all).stacks = c.stacks
  <2> DEFINE ws == Applied(base, s.operations)
  <2>1. /\ IsSeq(s.operations) /\ KindsKnown(s.operations) /\ ws.ok /\ ws.next = w.next
    BY <1>1 DEF EpochGood
  <2>2. IsWorkspace(ws)
    BY <2>1, CandidateFacts
  <2>3. Workspace(w) = ws
    BY <1>1, <2>1, <2>2 DEF Workspace, IsWorkspace
  <2>4. Applied(base, all) = AppliedTo(ws, r.operations)
    BY <1>2, <2>1, AppliedIs, AppliedConcat
  <2>5. Applied(w, r.operations) = AppliedTo(ws, r.operations)
    BY <2>3, AppliedIs
  <2> QED BY <1>6, <2>4, <2>5
<1> HIDE DEF all, z
<1>10. q.tail = c /\ q.operations = all /\ q.outcomes = z
  OBVIOUS
<1>11. q = [tail |-> q.tail, operations |-> q.operations, outcomes |-> q.outcomes]
  OBVIOUS
<1> HIDE DEF q
<1>12. SpaceGood(base, intents, k, q)
  BY <1>6, <1>7, <1>8, <1>9, <1>10, <1>11 DEF SpaceGood
<1> QED BY <1>12 DEF q, c, all, z, o, w

LEMMA SpaceIsGood ==
    ASSUME NEW base, IsWorld(base), NEW intents, IntentsKnown(intents),
           InsistOnPast(base, intents), NEW vs
    PROVE  SpaceGood(base, intents, Len(intents), EpochSpace(base, intents, vs))
<1> DEFINE n == Len(intents)
<1>1. n \in Nat /\ DOMAIN intents = 1..n /\ \A i \in 1..n : OperationsKnown(intents[i])
  BY SeqShape DEF IntentsKnown
<1>2. PICK g : SpaceSteps(base, intents, vs, n, g) /\ EpochSpace(base, intents, vs) = g[n]
  <2> HIDE DEF n
  <2> QED BY <1>1, SpaceRecursion
<1>3. g[0] = EmptySpace(base) /\ \A i \in 1..n : g[i] = WorkspaceNext(g[i - 1], intents[i], vs)
  BY <1>2 DEF SpaceSteps
<1>4. \A i \in 1..n : \A p \in Range(intents[i].preconditions) :
         p.kind = "World" => Len(p.world) <= Len(base.id)
  BY DEF InsistOnPast
<1> DEFINE T == {i \in 0..n : SpaceGood(base, intents, i, g[i])}
<1> HIDE DEF n
<1>5. 0 \in T
  <2> DEFINE e == EmptySpace(base)
  <2>1. e = [tail |-> base, operations |-> <<>>, outcomes |-> <<>>]
    BY DEF EmptySpace
  <2> HIDE DEF e
  <2>2. e.tail = base /\ e.operations = <<>> /\ e.outcomes = <<>>
    BY <2>1
  <2>3. Applied(base, <<>>) = Workspace(base)
    BY AppliedIs, AppliedAppend, SeqEmpty
  <2>4. SpaceGood(base, intents, 0, e)
    BY <2>1, <2>2, <2>3, WorkspaceOf, EpochStarts DEF SpaceGood
  <2> QED BY <1>1, <1>3, <2>4 DEF e
<1>6. ASSUME NEW i \in 1..n, i - 1 \in T  PROVE i \in T
  <2> DEFINE s == g[i - 1]
             r == ResolveOperations(s.tail.next, intents[i])
             yes == [tail |-> Candidate(s.tail, r.operations),
                     operations |-> s.operations \o r.operations,
                     outcomes |-> Append(s.outcomes, [accepted |-> TRUE, entities |-> r.bound])]
  <2>1. SpaceGood(base, intents, i - 1, s) /\ i \in 0..n /\ i \in Nat
    BY <1>1, <1>6
  <2>2. g[i] = WorkspaceNext(s, intents[i], vs)
    BY <1>3
  <2> HIDE DEF s
  <2>3. g[i] = IF IntentAccepted(s.tail, intents[i], r, vs) THEN yes
               ELSE [s EXCEPT !.outcomes = Append(@, Rejected)]
    BY <2>2 DEF WorkspaceNext
  <2>4. CASE IntentAccepted(s.tail, intents[i], r, vs)
    <3>1. Preconditions(s.tail, intents[i].preconditions)
      BY <2>4 DEF IntentAccepted
    <3>2. r = ResolveOperations(s.tail.next, intents[i])
      OBVIOUS
    <3> HIDE DEF r
    <3>3. SpaceGood(base, intents, i, yes)
      BY <1>1, <1>4, <2>1, <3>1, <3>2, SpaceAccepts
    <3> HIDE DEF yes
    <3> QED BY <2>1, <2>3, <2>4, <3>3
  <2>5. CASE ~IntentAccepted(s.tail, intents[i], r, vs)
    <3>1. SpaceGood(base, intents, i, [s EXCEPT !.outcomes = Append(@, Rejected)])
      BY <2>1, SpaceRejects
    <3> HIDE DEF yes
    <3> QED BY <2>1, <2>3, <2>5, <3>1
  <2> QED BY <2>4, <2>5
<1> HIDE DEF T
<1>7. \A i \in 0..n : i \in T
  BY <1>1, <1>5, <1>6, Counting
<1>8. n \in T
  BY <1>1, <1>7
<1> QED BY <1>2, <1>8 DEF T, n

LEMMA WorldPlanIsGood ==
    ASSUME NEW base, IsWorld(base), NEW intents, IntentsKnown(intents),
           InsistOnPast(base, intents), NEW vs
    PROVE  /\ GoodPlan(base, DeriveEpochWorld(base, intents, vs))
           /\ Insists(intents, DeriveEpochWorld(base, intents, vs).outcomes)
<1> DEFINE s == EpochSpace(base, intents, vs)
           p == DeriveEpochWorld(base, intents, vs)
           id == SingleId(base, s.tail.next, s.operations)
           w == SingleWorld(base, s.tail.next, s.operations)
           f == SingleFrame(base, s.tail.next, s.operations)
           z == SingleOutcomes(id, s.outcomes)
<1>1. p = EpochWorld(base, s)
  BY DEF DeriveEpochWorld, EpochSpace, EmptySpace
<1>2. SpaceGood(base, intents, Len(intents), s)
  BY SpaceIsGood
<1> HIDE DEF s
<1>3. p = IF NothingAccepted(s.outcomes)
          THEN [tail |-> base, frames |-> <<>>, outcomes |-> s.outcomes]
          ELSE [tail |-> [s.tail EXCEPT !.id = id], frames |-> <<f>>, outcomes |-> z]
  BY <1>1 DEF EpochWorld, NothingAccepted, SingleOutcomes, SingleId, SingleFrame
<1>4. [s.tail EXCEPT !.id = id] = w
  <2>1. /\ s.tail = [id |-> s.tail.id, next |-> s.tail.next, stacks |-> s.tail.stacks]
        /\ s.tail.stacks = Applied(base, s.operations).stacks
    BY <1>2 DEF SpaceGood, IsWorld
  <2> HIDE DEF id
  <2>2. [s.tail EXCEPT !.id = id] = [id |-> id, next |-> s.tail.next, stacks |-> s.tail.stacks]
    BY <2>1
  <2> QED BY <2>1, <2>2 DEF SingleWorld, id
<1>5. IsSeq(s.outcomes) /\ DOMAIN s.outcomes = 1..Len(s.outcomes)
      /\ EpochGood(base, intents, Len(intents), s.tail.next, s.tail.id, s.operations, s.outcomes)
  BY <1>2, SeqShape DEF SpaceGood, EpochGood
<1> HIDE DEF p, w, f, z
<1>6. CASE NothingAccepted(s.outcomes)
  <2>1. p.tail = base /\ p.frames = <<>> /\ p.outcomes = s.outcomes
    BY <1>3, <1>6
  <2>2. \A i \in 1..Len(s.outcomes) : ~s.outcomes[i].accepted
    BY <1>5, <1>6 DEF NothingAccepted
  <2>3. GoodPlan(base, p) /\ Insists(intents, p.outcomes)
    BY <1>5, <2>1, <2>2, NothingPlan
  <2> QED BY <2>3 DEF p
<1>7. CASE ~NothingAccepted(s.outcomes)
  <2>1. p.tail = w /\ p.frames = <<f>> /\ p.outcomes = z
    BY <1>3, <1>4, <1>7
  <2>2. GoodPlan(base, p) /\ Insists(intents, p.outcomes)
    BY <1>5, <2>1, SinglePlan DEF w, f, z, id
  <2> QED BY <2>2 DEF p
<1> QED BY <1>6, <1>7
-----------------------------------------------------------------------------
(* The stack machine: what a program allocates is what its operations do.    *)

IsMachine(v) == "next" \in DOMAIN v /\ "error" \in DOMAIN v /\ v.next \in Nat

\* u is v except for fields that the allocator does not depend on.
SameAllocator(v, u) == DOMAIN u = DOMAIN v /\ u.next = v.next /\ u.error = v.error

LEMMA FieldSet ==
    ASSUME NEW v, IsMachine(v), NEW field, field # "next", field # "error", NEW value
    PROVE  SameAllocator(v, [v EXCEPT ![field] = value])
BY DEF IsMachine, SameAllocator

LEMMA SameMachine ==
    ASSUME NEW v, IsMachine(v), NEW u, SameAllocator(v, u)
    PROVE  IsMachine(u)
BY DEF IsMachine, SameAllocator

LEMMA SameTrans ==
    ASSUME NEW v, NEW u, NEW t, SameAllocator(v, u), SameAllocator(u, t)
    PROVE  SameAllocator(v, t)
BY DEF SameAllocator

LEMMA TwoFieldsSet ==
    ASSUME NEW v, IsMachine(v), NEW f1, NEW f2, f1 # "next", f1 # "error", f2 # "next",
           f2 # "error", NEW v1, NEW v2
    PROVE  SameAllocator(v, [v EXCEPT ![f1] = v1, ![f2] = v2])
<1> DEFINE u == [v EXCEPT ![f1] = v1]
<1>1. SameAllocator(v, u)
  BY FieldSet
<1>2. IsMachine(u)
  BY <1>1, SameMachine
<1> HIDE DEF u
<1>3. SameAllocator(u, [u EXCEPT ![f2] = v2])
  BY <1>2, FieldSet
<1>4. SameAllocator(v, [u EXCEPT ![f2] = v2])
  BY <1>1, <1>3, SameTrans
<1> QED BY <1>4 DEF u

LEMMA FailedStops ==
    ASSUME NEW v, IsMachine(v)
    PROVE  IsMachine(Failed(v)) /\ Failed(v).error
<1> DEFINE u == [v EXCEPT !.error = TRUE]
<1>1. DOMAIN u = DOMAIN v /\ u.next = v.next /\ u["error"] = TRUE
  BY DEF IsMachine
<1> QED BY <1>1 DEF IsMachine, Failed

LEMMA ChangeKeeps ==
    ASSUME NEW v, IsMachine(v), NEW record, NEW previous, NEW resulting
    PROVE  SameAllocator(v, AppendChange(v, record, previous, resulting))
<1> DEFINE r == ArenaPush(v.records, record)
           d == ArenaPush(v.deltas, [slot |-> record.slot, visible |-> resulting])
           u == [v EXCEPT !.records = ArenaPush(@, record),
                          !.deltas = ArenaPush(@, [slot |-> record.slot, visible |-> resulting])]
<1>1. SameAllocator(v, u)
  BY TwoFieldsSet
<1>2. IsMachine(u)
  BY <1>1, SameMachine
<1> HIDE DEF u
<1>3. SameAllocator(u, AppendIndexTransition(u, previous, resulting))
  BY <1>2, FieldSet DEF AppendIndexTransition
<1>4. AppendChange(v, record, previous, resulting) = AppendIndexTransition(u, previous, resulting)
  BY DEF AppendChange, u
<1> QED BY <1>1, <1>3, <1>4, SameTrans

\* What one instruction of a compiled program does to the allocator.
MachineStep(v, ins, u) ==
    /\ IsMachine(u)
    /\ ~u.error => /\ ~v.error
                   /\ u.next = v.next + (IF ins.op = "AllocateDiscard" THEN 1 ELSE 0)

Compiled == {"AllocateDiscard", "PushCell", "Define", "Forget"}

LEMMA SameSteps ==
    ASSUME NEW v, IsMachine(v), NEW u, SameAllocator(v, u), ~v.error, NEW ins,
           ins.op # "AllocateDiscard"
    PROVE  MachineStep(v, ins, u)
BY DEF MachineStep, SameAllocator, IsMachine

LEMMA FailedSteps ==
    ASSUME NEW v, IsMachine(v), NEW ins
    PROVE  MachineStep(v, ins, Failed(v))
BY FailedStops DEF MachineStep

LEMMA InstructionSteps ==
    ASSUME NEW v, IsMachine(v), NEW ins, ins.op \in Compiled, NEW mark
    PROVE  MachineStep(v, ins, ExecuteInstruction(v, ins, mark))
<1> DEFINE u == ExecuteInstruction(v, ins, mark)
<1>1. CASE v.error
  <2>1. u = v
    BY <1>1 DEF ExecuteInstruction
  <2> HIDE DEF u
  <2>2. MachineStep(v, ins, u)
    BY <1>1, <2>1 DEF MachineStep
  <2> QED BY <2>2 DEF u
<1>2. CASE ~v.error /\ ins.op = "AllocateDiscard"
  <2>1. u = [v EXCEPT !.next = v.next + 1]
    BY <1>2 DEF ExecuteInstruction
  <2> HIDE DEF u
  <2>2. DOMAIN u = DOMAIN v /\ u.next = v.next + 1 /\ v.next + 1 \in Nat
    BY <2>1 DEF IsMachine
  <2>3. MachineStep(v, ins, u)
    BY <1>2, <2>2 DEF MachineStep, IsMachine
  <2> QED BY <2>3 DEF u
<1>3. CASE ~v.error /\ ins.op = "PushCell"
  <2>1. u = PushCell(v, ins.imm)
    BY <1>3 DEF ExecuteInstruction
  <2>2. CASE v.sp = StackSize
    <3>1. u = Failed(v)
      BY <2>1, <2>2 DEF PushCell
    <3> HIDE DEF u
    <3> QED BY <3>1, FailedSteps DEF u
  <2>3. CASE v.sp # StackSize
    <3> DEFINE st == [v.stack EXCEPT ![v.sp + 1] = ins.imm]
    <3>1. u = [v EXCEPT !.stack[v.sp + 1] = ins.imm, !.sp = @ + 1]
      BY <2>1, <2>3 DEF PushCell
    <3>2. SameAllocator(v, u)
      <4> HIDE DEF u
      <4>1. DOMAIN u = DOMAIN v /\ u.next = v.next /\ u.error = v.error
        BY <3>1 DEF IsMachine
      <4> QED BY <4>1 DEF SameAllocator
    <3> HIDE DEF u
    <3> QED BY <1>3, <3>2, SameSteps DEF u
  <2> QED BY <2>2, <2>3
<1>4. CASE ~v.error /\ ins.op \in {"Define", "Forget"} /\ ins.arg \notin DOMAIN v.heads
  <2>1. u = Failed(v)
    BY <1>4 DEF ExecuteInstruction
  <2> HIDE DEF u
  <2> QED BY <2>1, FailedSteps DEF u
<1>5. CASE ~v.error /\ ins.op = "Define" /\ ins.arg \in DOMAIN v.heads
  <2> DEFINE low == [v EXCEPT !.sp = @ - 3]
  <2>1. u = IF ~Poppable(v, 3) THEN Failed(v)
            ELSE DefineFact(low, ins.arg, v.stack[v.sp - 2], v.stack[v.sp - 1], v.stack[v.sp], mark)
    BY <1>5 DEF ExecuteInstruction
  <2>2. SameAllocator(v, low)
    BY FieldSet
  <2>3. IsMachine(low)
    BY <2>2, SameMachine
  <2> HIDE DEF low
  <2>4. CASE Poppable(v, 3)
    <3>1. PICK record, previous, resulting : u = AppendChange(low, record, previous, resulting)
      BY <2>1, <2>4, Zenon DEF DefineFact
    <3>2. SameAllocator(low, u)
      BY <2>3, <3>1, ChangeKeeps
    <3> HIDE DEF u
    <3>3. SameAllocator(v, u)
      BY <2>2, <3>2, SameTrans
    <3> QED BY <1>5, <3>3, SameSteps DEF u
  <2>5. CASE ~Poppable(v, 3)
    <3>1. u = Failed(v)
      BY <2>1, <2>5
    <3> HIDE DEF u
    <3> QED BY <3>1, FailedSteps DEF u
  <2> QED BY <2>4, <2>5
<1>6. CASE ~v.error /\ ins.op = "Forget" /\ ins.arg \in DOMAIN v.heads
  <2>1. u = ForgetFact(v, ins.arg, mark)
    BY <1>6 DEF ExecuteInstruction
  <2>2. PICK record, previous, resulting : u = AppendChange(v, record, previous, resulting)
    BY <2>1, Zenon DEF ForgetFact
  <2>3. SameAllocator(v, u)
    BY <2>2, ChangeKeeps
  <2> HIDE DEF u
  <2> QED BY <1>6, <2>3, SameSteps DEF u
<1> QED BY <1>1, <1>2, <1>3, <1>4, <1>5, <1>6 DEF Compiled

-----------------------------------------------------------------------------
(* compile_operations and execute_instructions.                              *)

IsMaterializer(m) == "ws" \in DOMAIN m /\ IsMachine(m.ws)

SameMachines(m, q) == DOMAIN q = DOMAIN m /\ SameAllocator(m.ws, q.ws)

LEMMA SameMachinesRefl ==
    ASSUME NEW m
    PROVE  SameMachines(m, m)
BY DEF SameMachines, SameAllocator

LEMMA SameMachinesTrans ==
    ASSUME NEW m, NEW q, NEW t, SameMachines(m, q), SameMachines(q, t)
    PROVE  SameMachines(m, t)
BY DEF SameMachines, SameAllocator

LEMMA SameMaterializer ==
    ASSUME NEW m, IsMaterializer(m), NEW q, SameMachines(m, q)
    PROVE  IsMaterializer(q)
BY DEF SameMachines, IsMaterializer, SameAllocator, IsMachine

LEMMA OtherFieldSet ==
    ASSUME NEW m, IsMaterializer(m), NEW f1, NEW f2, f1 # "ws", f2 # "ws", NEW v1, NEW v2
    PROVE  SameMachines(m, [m EXCEPT ![f1] = v1, ![f2] = v2])
<1> DEFINE q == [m EXCEPT ![f1] = v1, ![f2] = v2]
<1>1. DOMAIN q = DOMAIN m /\ q.ws = m.ws
  BY DEF IsMaterializer
<1> HIDE DEF q
<1>2. SameMachines(m, q)
  BY <1>1 DEF SameMachines, SameAllocator
<1> QED BY <1>2 DEF q

LEMMA InternSlotKeeps ==
    ASSUME NEW m, IsMaterializer(m), NEW slot
    PROVE  SameMachines(m, InternSlot(m, slot))
<1> DEFINE token == Len(m.image.slots) + Cardinality(DOMAIN m.slots)
           ws == EnsureSlotCount(m.ws, token + 1)
           names == WithName(m.slots, slot, token)
           q == InternSlot(m, slot)
<1>1. CASE slot \in DOMAIN m.slots \cup Range(m.image.slots)
  BY <1>1, SameMachinesRefl DEF InternSlot
<1>2. CASE slot \notin DOMAIN m.slots \cup Range(m.image.slots)
  <2>1. q = [m EXCEPT !.slots = WithName(@, slot, token), !.ws = EnsureSlotCount(@, token + 1)]
    BY <1>2 DEF InternSlot
  <2>2. SameAllocator(m.ws, ws)
    BY FieldSet DEF EnsureSlotCount, IsMaterializer
  <2> HIDE DEF q, ws, names, token
  <2>3. DOMAIN q = DOMAIN m /\ q.ws = ws
    BY <2>1 DEF IsMaterializer, ws
  <2>4. SameMachines(m, q)
    BY <2>2, <2>3 DEF SameMachines
  <2> QED BY <2>4 DEF q
<1> QED BY <1>1, <1>2

LEMMA InternPredicateKeeps ==
    ASSUME NEW m, IsMaterializer(m), NEW predicate
    PROVE  SameMachines(m, InternPredicate(m, predicate))
<1> DEFINE cell == Len(m.image.predicates) + Cardinality(DOMAIN m.predicates)
<1>1. \/ InternPredicate(m, predicate) = m
      \/ InternPredicate(m, predicate) = [m EXCEPT !.predicates = WithName(@, predicate, cell),
                                                   !.predicateValues = Append(@, predicate)]
  BY DEF InternPredicate
<1>2. SameMachines(m, [m EXCEPT !.predicates = WithName(@, predicate, cell),
                                !.predicateValues = Append(@, predicate)])
  BY OtherFieldSet
<1> QED BY <1>1, <1>2, SameMachinesRefl

LEMMA InternAtomKeeps ==
    ASSUME NEW m, IsMaterializer(m), NEW atom
    PROVE  SameMachines(m, InternAtom(m, atom))
<1> DEFINE cell == LiteralBase + Len(m.image.literals) + Len(m.literalValues)
<1>1. \/ InternAtom(m, atom) = m
      \/ InternAtom(m, atom) = [m EXCEPT !.literals = WithName(@, atom.literal, cell),
                                         !.literalValues = Append(@, atom.literal)]
  BY DEF InternAtom
<1>2. SameMachines(m, [m EXCEPT !.literals = WithName(@, atom.literal, cell),
                                !.literalValues = Append(@, atom.literal)])
  BY OtherFieldSet
<1> QED BY <1>1, <1>2, SameMachinesRefl

LEMMA InternFactKeeps ==
    ASSUME NEW m, IsMaterializer(m), NEW slot, NEW fact
    PROVE  SameMachines(m, InternFact(m, slot, fact))
<1> DEFINE m1 == InternSlot(m, slot)
           m2 == InternAtom(m1, fact.subject)
           m3 == InternPredicate(m2, fact.predicate)
           m4 == InternAtom(m3, fact.object)
<1>1. SameMachines(m, m1)
  BY InternSlotKeeps
<1>2. IsMaterializer(m1)
  BY <1>1, SameMaterializer
<1> HIDE DEF m1
<1>3. SameMachines(m1, m2)
  BY <1>2, InternAtomKeeps
<1>4. IsMaterializer(m2)
  BY <1>2, <1>3, SameMaterializer
<1> HIDE DEF m2
<1>5. SameMachines(m2, m3)
  BY <1>4, InternPredicateKeeps
<1>6. IsMaterializer(m3)
  BY <1>4, <1>5, SameMaterializer
<1> HIDE DEF m3
<1>7. SameMachines(m3, m4)
  BY <1>6, InternAtomKeeps
<1>8. InternFact(m, slot, fact) = m4
  BY DEF InternFact, m1, m2, m3, m4
<1> HIDE DEF m4
<1>9. SameMachines(m, m3)
  BY <1>1, <1>3, <1>5, SameMachinesTrans
<1> QED BY <1>7, <1>8, <1>9, SameMachinesTrans

\* A program that, unless it fails, moves the allocator from start to next.
TrialAllocates(start, code, next) ==
    \A v, mark : IsMachine(v) /\ v.next = start =>
        /\ IsMachine(Trial(v, code, mark))
        /\ ~Trial(v, code, mark).error => Trial(v, code, mark).next = next

LEMMA TrialMore ==
    ASSUME NEW start, NEW code, IsSeq(code), NEW next \in Nat, TrialAllocates(start, code, next),
           NEW ins, ins.op \in Compiled
    PROVE  /\ IsSeq(Append(code, ins))
           /\ TrialAllocates(start, Append(code, ins),
                             next + (IF ins.op = "AllocateDiscard" THEN 1 ELSE 0))
<1>1. IsSeq(Append(code, ins))
  BY SeqAppend
<1> SUFFICES ASSUME NEW v, NEW mark, IsMachine(v), v.next = start
             PROVE  /\ IsMachine(Trial(v, Append(code, ins), mark))
                    /\ ~Trial(v, Append(code, ins), mark).error =>
                         Trial(v, Append(code, ins), mark).next =
                             next + (IF ins.op = "AllocateDiscard" THEN 1 ELSE 0)
  BY <1>1 DEF TrialAllocates
<1> DEFINE t == Trial(v, code, mark)
<1>2. IsMachine(t) /\ (~t.error => t.next = next)
  BY DEF TrialAllocates
<1>3. Trial(v, Append(code, ins), mark) = ExecuteInstruction(t, ins, mark)
  BY TrialAppend
<1> HIDE DEF t
<1>4. MachineStep(t, ins, ExecuteInstruction(t, ins, mark))
  BY <1>2, InstructionSteps
<1> QED BY <1>2, <1>3, <1>4 DEF MachineStep

LEMMA FourMore ==
    ASSUME NEW code, IsSeq(code), NEW a, NEW b, NEW c, NEW d
    PROVE  code \o <<a, b, c, d>> = Append(Append(Append(Append(code, a), b), c), d)
<1> DEFINE S == Range(code) \cup {a, b, c, d}
<1>1. code \in Seq(S) /\ a \in S /\ b \in S /\ c \in S /\ d \in S
  <2>1. code \in Seq(Range(code)) /\ Range(code) \subseteq S
    BY DEF IsSeq
  <2>2. a \in S /\ b \in S /\ c \in S /\ d \in S
    OBVIOUS
  <2> HIDE DEF S
  <2> QED BY <2>1, <2>2
<1> HIDE DEF S
<1> DEFINE x1 == Append(code, a)
           x2 == Append(x1, b)
           x3 == Append(x2, c)
           x4 == Append(x3, d)
           n == Len(code)
<1>2. n \in Nat
  BY <1>1
<1>3. IsSeq(x1) /\ Len(x1) = n + 1 /\ (\A i \in 1..n : x1[i] = code[i]) /\ x1[n + 1] = a
  BY SeqAppend
<1> HIDE DEF x1, n
<1>4. IsSeq(x2) /\ Len(x2) = n + 2 /\ (\A i \in 1..(n + 1) : x2[i] = x1[i]) /\ x2[n + 2] = b
  <2>1. (n + 1) + 1 = n + 2
    BY <1>2
  <2> QED BY <1>3, <2>1, SeqAppend
<1> HIDE DEF x2
<1>5. IsSeq(x3) /\ Len(x3) = n + 3 /\ (\A i \in 1..(n + 2) : x3[i] = x2[i]) /\ x3[n + 3] = c
  <2>1. (n + 2) + 1 = n + 3
    BY <1>2
  <2> QED BY <1>4, <2>1, SeqAppend
<1> HIDE DEF x3
<1>6. IsSeq(x4) /\ Len(x4) = n + 4 /\ (\A i \in 1..(n + 3) : x4[i] = x3[i]) /\ x4[n + 4] = d
  <2>1. (n + 3) + 1 = n + 4
    BY <1>2
  <2> QED BY <1>5, <2>1, SeqAppend
<1> HIDE DEF x4
<1> DEFINE y == <<a, b, c, d>>
           z == code \o y
<1>7. y \in Seq(S) /\ Len(y) = 4 /\ y[1] = a /\ y[2] = b /\ y[3] = c /\ y[4] = d
  BY <1>1
<1>8. IsSeq(y)
  BY <1>7, SeqAny
<1> HIDE DEF y
<1>9. /\ IsSeq(z) /\ Len(z) = n + 4
      /\ \A i \in 1..n : z[i] = code[i]
      /\ \A i \in 1..4 : z[n + i] = y[i]
  <2>1. /\ IsSeq(z) /\ Len(z) = Len(code) + Len(y)
        /\ \A i \in 1..Len(code) : z[i] = code[i]
        /\ \A i \in 1..Len(y) : z[Len(code) + i] = y[i]
    BY <1>8, SeqConcat
  <2>2. Len(y) = 4 /\ Len(code) = n
    BY <1>7 DEF n
  <2> HIDE DEF z
  <2> QED BY <2>1, <2>2
<1> HIDE DEF z
<1>10. ASSUME NEW i \in 1..Len(z)  PROVE z[i] = x4[i]
  <2>1. CASE i \in 1..n
    BY <1>2, <1>3, <1>4, <1>5, <1>6, <1>9, <2>1
  <2>2. z[n + 1] = a /\ z[n + 2] = b /\ z[n + 3] = c /\ z[n + 4] = d
    BY <1>7, <1>9
  <2>3. x4[n + 1] = a /\ x4[n + 2] = b /\ x4[n + 3] = c /\ x4[n + 4] = d
    BY <1>2, <1>3, <1>4, <1>5, <1>6
  <2>4. i \in 1..n \/ i = n + 1 \/ i = n + 2 \/ i = n + 3 \/ i = n + 4
    BY <1>2, <1>9
  <2> QED BY <2>1, <2>2, <2>3, <2>4
<1>11. z = x4
  BY <1>6, <1>9, <1>10, SameSeq
<1> QED BY <1>11 DEF z, y, x1, x2, x3, x4

\* A compiled prefix of the operations.
CompiledGood(m, acc, next) ==
    /\ acc = [mat |-> acc.mat, code |-> acc.code]
    /\ IsSeq(acc.code) /\ SameMachines(m, acc.mat)
    /\ TrialAllocates(m.ws.next, acc.code, next)

LEMMA OperationCompiled ==
    ASSUME NEW m, IsMaterializer(m), NEW acc, NEW next \in Nat, CompiledGood(m, acc, next),
           NEW op, op.kind \in Kinds
    PROVE  CompiledGood(m, CompileOperation(acc, op),
                        next + (IF op.kind = "Allocate" THEN 1 ELSE 0))
<1> DEFINE q == CompileOperation(acc, op)
           start == m.ws.next
<1>1. /\ acc = [mat |-> acc.mat, code |-> acc.code]
      /\ IsSeq(acc.code) /\ SameMachines(m, acc.mat) /\ TrialAllocates(start, acc.code, next)
  BY DEF CompiledGood
<1>2. IsMaterializer(acc.mat)
  BY <1>1, SameMaterializer
<1> HIDE DEF start
<1>3. CASE op.kind = "Allocate"
  <2> DEFINE ins == Instr("AllocateDiscard", 0, 0)
             code == Append(acc.code, ins)
  <2>1. ins.op = "AllocateDiscard" /\ ins.op \in Compiled
    BY DEF Instr, Compiled
  <2>2. q = [acc EXCEPT !.code = code]
    BY <1>3 DEF CompileOperation
  <2> HIDE DEF ins
  <2>3. IsSeq(code) /\ TrialAllocates(start, code, next + 1)
    BY <1>1, <2>1, TrialMore
  <2> HIDE DEF code, q
  <2>4. q = [mat |-> acc.mat, code |-> code]
    BY <1>1, <2>2
  <2>5. CompiledGood(m, q, next + 1)
    BY <1>1, <2>3, <2>4 DEF CompiledGood, start
  <2> QED BY <1>3, <2>5 DEF q
<1>4. CASE op.kind = "Define"
  <2> DEFINE mat == InternFact(acc.mat, op.slot, op.fact)
             i1 == Instr("PushCell", 0, AtomCell(mat, op.fact.subject))
             i2 == Instr("PushCell", 0, PredicateCell(mat, op.fact.predicate))
             i3 == Instr("PushCell", 0, AtomCell(mat, op.fact.object))
             i4 == Instr("Define", SlotToken(mat, op.slot), 0)
             code == acc.code \o <<i1, i2, i3, i4>>
  <2>1. q = [mat |-> mat, code |-> code]
    BY <1>4 DEF CompileOperation, EmitDefine
  <2>2. SameMachines(m, mat)
    BY <1>1, <1>2, InternFactKeeps, SameMachinesTrans
  <2>3. /\ i1.op \in Compiled /\ i2.op \in Compiled /\ i3.op \in Compiled /\ i4.op \in Compiled
        /\ i1.op # "AllocateDiscard" /\ i2.op # "AllocateDiscard"
        /\ i3.op # "AllocateDiscard" /\ i4.op # "AllocateDiscard"
    <3> HIDE DEF mat
    <3> QED BY DEF Instr, Compiled
  <2> HIDE DEF mat, i1, i2, i3, i4, q
  <2> DEFINE x1 == Append(acc.code, i1)
             x2 == Append(x1, i2)
             x3 == Append(x2, i3)
             x4 == Append(x3, i4)
  <2>4. code = x4
    BY <1>1, FourMore
  <2>5. next + 0 = next
    OBVIOUS
  <2> HIDE DEF code
  <2>6. IsSeq(x1) /\ TrialAllocates(start, x1, next)
    BY <1>1, <2>3, <2>5, TrialMore
  <2> HIDE DEF x1
  <2>7. IsSeq(x2) /\ TrialAllocates(start, x2, next)
    BY <2>3, <2>5, <2>6, TrialMore
  <2> HIDE DEF x2
  <2>8. IsSeq(x3) /\ TrialAllocates(start, x3, next)
    BY <2>3, <2>5, <2>7, TrialMore
  <2> HIDE DEF x3
  <2>9. IsSeq(x4) /\ TrialAllocates(start, x4, next)
    BY <2>3, <2>5, <2>8, TrialMore
  <2> HIDE DEF x4
  <2>10. CompiledGood(m, q, next)
    BY <2>1, <2>2, <2>4, <2>9 DEF CompiledGood, start
  <2> QED BY <1>4, <2>5, <2>10 DEF q
<1>5. CASE op.kind = "Forget"
  <2> DEFINE mat == InternSlot(acc.mat, op.slot)
             ins == Instr("Forget", SlotToken(mat, op.slot), 0)
             code == Append(acc.code, ins)
  <2>1. q = [mat |-> mat, code |-> code]
    BY <1>5 DEF CompileOperation, EmitOnSlot
  <2>2. SameMachines(m, mat)
    BY <1>1, <1>2, InternSlotKeeps, SameMachinesTrans
  <2>3. ins.op # "AllocateDiscard" /\ ins.op \in Compiled
    <3> HIDE DEF mat
    <3> QED BY DEF Instr, Compiled
  <2>4. next + 0 = next
    OBVIOUS
  <2> HIDE DEF mat, ins, q
  <2>5. IsSeq(code) /\ TrialAllocates(start, code, next)
    BY <1>1, <2>3, <2>4, TrialMore
  <2> HIDE DEF code
  <2>6. CompiledGood(m, q, next)
    BY <2>1, <2>2, <2>5 DEF CompiledGood, start
  <2> QED BY <1>5, <2>4, <2>6 DEF q
<1> QED BY <1>3, <1>4, <1>5 DEF Kinds

LEMMA CompileAllocates ==
    ASSUME NEW m, IsMaterializer(m), NEW ops, IsSeq(ops), KindsKnown(ops), NEW ws, IsWorkspace(ws),
           ws.next = m.ws.next, AppliedTo(ws, ops).ok
    PROVE  CompiledGood(m, CompileOperations(m, ops), AppliedTo(ws, ops).next)
<1> DEFINE n == Len(ops)
<1>1. n \in Nat /\ DOMAIN ops = 1..n /\ \A i \in 1..n : ops[i].kind \in Kinds
  BY SeqShape DEF KindsKnown
<1>2. PICK a : AppliedSteps(ws, ops, n, a) /\ AppliedTo(ws, ops) = a[n]
  <2> HIDE DEF n
  <2> QED BY <1>1, AppliedRecursion
<1>3. PICK g : CompileSteps(m, ops, n, g) /\ CompileOperations(m, ops) = g[n]
  <2> HIDE DEF n
  <2> QED BY <1>1, CompileRecursion
<1>4. a[0] = ws /\ \A i \in 1..n : a[i] = ApplyOperation(a[i - 1], ops[i])
  BY <1>2 DEF AppliedSteps
<1>5. g[0] = NothingCompiled(m) /\ \A i \in 1..n : g[i] = CompileOperation(g[i - 1], ops[i])
  BY <1>3 DEF CompileSteps
<1> DEFINE Fine(i) == IsWorkspace(a[i]) /\ (a[i].ok => CompiledGood(m, g[i], a[i].next))
           T == {i \in 0..n : Fine(i)}
<1> HIDE DEF n
<1>6. 0 \in T
  <2> DEFINE e == NothingCompiled(m)
  <2>1. e = [mat |-> m, code |-> <<>>]
    BY DEF NothingCompiled
  <2> HIDE DEF e
  <2>2. e.mat = m /\ e.code = <<>> /\ e = [mat |-> e.mat, code |-> e.code]
    BY <2>1
  <2>3. \A v, mark : Trial(v, <<>>, mark) = v
    BY SeqEmpty, TrialAppend
  <2>4. TrialAllocates(m.ws.next, <<>>, m.ws.next)
    BY <2>3 DEF TrialAllocates
  <2>5. CompiledGood(m, e, m.ws.next)
    BY <2>2, <2>4, SeqEmpty, SameMachinesRefl DEF CompiledGood
  <2> QED BY <1>1, <1>4, <1>5, <2>5 DEF e
<1>7. ASSUME NEW i \in 1..n, i - 1 \in T  PROVE i \in T
  <2> DEFINE b == a[i - 1]
             c == g[i - 1]
             op == ops[i]
  <2>1. IsWorkspace(b) /\ (b.ok => CompiledGood(m, c, b.next)) /\ i \in 0..n /\ b.next \in Nat
    BY <1>1, <1>7 DEF IsWorkspace
  <2>2. a[i] = ApplyOperation(b, op) /\ g[i] = CompileOperation(c, op) /\ op.kind \in Kinds
    BY <1>1, <1>4, <1>5
  <2> HIDE DEF b, c, op
  <2>3. /\ IsWorkspace(a[i]) /\ (a[i].ok => b.ok)
        /\ a[i].ok => a[i].next = b.next + (IF op.kind = "Allocate" THEN 1 ELSE 0)
    <3>1. /\ IsWorkspace(ApplyOperation(b, op)) /\ (ApplyOperation(b, op).ok => b.ok)
          /\ (op.kind # "Allocate" => ApplyOperation(b, op).next = b.next)
          /\ (op.kind = "Allocate" /\ ApplyOperation(b, op).ok =>
                ApplyOperation(b, op).next = b.next + 1)
      BY <2>1, <2>2, OperationApplied
    <3>2. b.next + 0 = b.next
      BY <2>1
    <3> QED BY <2>2, <3>1, <3>2
  <2>4. ASSUME a[i].ok  PROVE CompiledGood(m, g[i], a[i].next)
    <3>1. CompiledGood(m, c, b.next)
      BY <2>1, <2>3, <2>4
    <3>2. CompiledGood(m, CompileOperation(c, op), b.next + (IF op.kind = "Allocate" THEN 1 ELSE 0))
      BY <2>1, <2>2, <3>1, OperationCompiled
    <3> QED BY <2>2, <2>3, <2>4, <3>2
  <2> QED BY <2>1, <2>3, <2>4
<1> HIDE DEF T
<1>8. \A i \in 0..n : i \in T
  BY <1>1, <1>6, <1>7, Counting
<1>9. n \in T
  BY <1>1, <1>8
<1>10. Fine(n)
  BY <1>9 DEF T
<1> HIDE DEF Fine
<1>11. a[n].ok
  BY <1>2
<1> QED BY <1>2, <1>3, <1>10, <1>11 DEF Fine

\* A rejected program leaves the allocator where it was, an accepted one
\* moves it as its operations do.
LEMMA ProgramAllocates ==
    ASSUME NEW ws, IsMachine(ws), NEW code, IsSeq(code), NEW next \in Nat,
           TrialAllocates(ws.next, code, next), NEW done,
           done = ExecuteInstructions(ws, 0, code)
    PROVE  /\ IsMachine(done.ws)
           /\ done.accepted => done.ws.next = next
           /\ ~done.accepted => done.ws.next = ws.next
<1> DEFINE c == Checkpoint(ws)
           v == EnterFrame(ws, 0)
           t == Trial(v, code, c)
<1>1. DOMAIN v = DOMAIN ws /\ v.next = ws.next
  <2>1. CASE ws.sp + 0 > StackSize
    <3>1. v = [ws EXCEPT !.error = TRUE]
      BY <2>1 DEF EnterFrame, Failed
    <3> HIDE DEF v
    <3> QED BY <3>1 DEF IsMachine
  <2>2. CASE ~(ws.sp + 0 > StackSize)
    <3>1. v = [ws EXCEPT !.frame = ws.sp, !.sp = @ + 0]
      BY <2>2 DEF EnterFrame
    <3> HIDE DEF v
    <3> QED BY <3>1 DEF IsMachine
  <2> QED BY <2>1, <2>2
<1>2. IsMachine(v) /\ v.next = ws.next
  BY <1>1 DEF IsMachine
<1> HIDE DEF v
<1>3. IsMachine(t) /\ (~t.error => t.next = next)
  BY <1>2 DEF TrialAllocates
<1>4. done = EndTrial(t, c)
  BY DEF ExecuteInstructions, Trial, v, c
<1>5. c.next = ws.next /\ ws.next \in Nat
  BY DEF Checkpoint, IsMachine
<1> HIDE DEF t, c
<1>6. CASE t.error
  <2>1. done = [accepted |-> FALSE, ws |-> Rollback(t, c)]
    BY <1>4, <1>6 DEF EndTrial
  <2>2. DOMAIN Rollback(t, c) = DOMAIN t /\ Rollback(t, c).next = c.next
    BY <1>3 DEF Rollback, IsMachine
  <2>3. done.accepted = FALSE /\ done.ws = Rollback(t, c)
    BY <2>1
  <2>4. IsMachine(done.ws) /\ done.ws.next = ws.next
    BY <1>3, <1>5, <2>2, <2>3 DEF IsMachine
  <2> QED BY <2>3, <2>4
<1>7. CASE ~t.error
  <2>1. done = [accepted |-> TRUE, ws |-> Accept(t, c)]
    BY <1>4, <1>7 DEF EndTrial
  <2>2. DOMAIN Accept(t, c) = DOMAIN t /\ Accept(t, c).next = t.next
    BY <1>3 DEF Accept, IsMachine
  <2>3. done.accepted = TRUE /\ done.ws = Accept(t, c)
    BY <2>1
  <2>4. IsMachine(done.ws) /\ done.ws.next = next
    BY <1>3, <1>7, <2>2, <2>3 DEF IsMachine
  <2> QED BY <2>3, <2>4
<1> QED BY <1>6, <1>7

LEMMA OperationsAllocate ==
    ASSUME NEW m, IsMaterializer(m), NEW r, ResolvedFrom(m.ws.next, r), Allocates(m.ws.next, r),
           NEW done, done = ExecuteOperations(m, r.operations)
    PROVE  /\ IsMaterializer(done.mat)
           /\ done.accepted => done.mat.ws.next = r.next
           /\ ~done.accepted => done.mat.ws.next = m.ws.next
<1> DEFINE ws == [ok |-> TRUE, next |-> m.ws.next, stacks |-> <<>>]
           c == CompileOperations(m, r.operations)
           e == ExecuteInstructions(c.mat.ws, 0, c.code)
<1>1. IsSeq(r.operations) /\ KindsKnown(r.operations) /\ r.next \in Nat
  BY DEF ResolvedFrom
<1>2. m.ws.next \in Nat /\ "ws" \in DOMAIN m
  BY DEF IsMaterializer, IsMachine
<1>3. IsWorkspace(ws) /\ ws.ok /\ ws.next = m.ws.next
  BY <1>2 DEF IsWorkspace
<1> HIDE DEF ws
<1>4. AppliedTo(ws, r.operations).ok /\ AppliedTo(ws, r.operations).next = r.next
  BY <1>3 DEF Allocates
<1>5. CompiledGood(m, c, r.next)
  BY <1>1, <1>3, <1>4, CompileAllocates
<1>6. done = [accepted |-> e.accepted, mat |-> [c.mat EXCEPT !.ws = e.ws]]
  BY DEF ExecuteOperations, ExecuteCompiled, Executed
<1> HIDE DEF c
<1>7. IsSeq(c.code) /\ SameMachines(m, c.mat) /\ TrialAllocates(m.ws.next, c.code, r.next)
  BY <1>5 DEF CompiledGood
<1>8. IsMachine(c.mat.ws) /\ c.mat.ws.next = m.ws.next /\ "ws" \in DOMAIN c.mat
  BY <1>7, SameMaterializer DEF IsMaterializer, SameMachines, SameAllocator
<1>9. /\ IsMachine(e.ws)
      /\ e.accepted => e.ws.next = r.next
      /\ ~e.accepted => e.ws.next = m.ws.next
  BY <1>1, <1>7, <1>8, ProgramAllocates
<1> HIDE DEF e
<1>10. done.accepted = e.accepted /\ done.mat = [c.mat EXCEPT !.ws = e.ws]
  BY <1>6
<1>11. "ws" \in DOMAIN done.mat /\ done.mat.ws = e.ws
  BY <1>8, <1>10
<1> QED BY <1>9, <1>10, <1>11 DEF IsMaterializer

-----------------------------------------------------------------------------
(* derive_vm_epoch.                                                          *)

VmGood(base, intents, k, s) ==
    /\ s = [mat |-> s.mat, predecessor |-> s.predecessor, operations |-> s.operations,
            outcomes |-> s.outcomes, panicked |-> s.panicked]
    /\ IsMaterializer(s.mat)
    /\ EpochGood(base, intents, k, s.mat.ws.next, s.predecessor, s.operations, s.outcomes)

LEMMA VmRejects ==
    ASSUME NEW base, IsWorld(base), NEW intents, NEW k \in Nat, NEW s,
           VmGood(base, intents, k - 1, s), NEW mat, IsMaterializer(mat),
           mat.ws.next = s.mat.ws.next
    PROVE  VmGood(base, intents, k, EpochRejects(s, mat))
<1> DEFINE z == Append(s.outcomes, Rejected)
           q == EpochRejects(s, mat)
<1>1. s = [mat |-> s.mat, predecessor |-> s.predecessor, operations |-> s.operations,
           outcomes |-> s.outcomes, panicked |-> s.panicked]
  BY DEF VmGood
<1>2. q = [s EXCEPT !.mat = mat, !.outcomes = z]
  BY DEF EpochRejects
<1>3. EpochGood(base, intents, k, s.mat.ws.next, s.predecessor, s.operations, z)
  BY EpochRejectsOne DEF VmGood
<1> HIDE DEF z, q
<1>4. q = [mat |-> mat, predecessor |-> s.predecessor, operations |-> s.operations,
           outcomes |-> z, panicked |-> s.panicked]
  BY <1>1, <1>2
<1>5. /\ q = [mat |-> q.mat, predecessor |-> q.predecessor, operations |-> q.operations,
              outcomes |-> q.outcomes, panicked |-> q.panicked]
      /\ q.mat = mat /\ q.predecessor = s.predecessor /\ q.operations = s.operations
      /\ q.outcomes = z
  BY <1>4
<1>6. VmGood(base, intents, k, q)
  BY <1>3, <1>5 DEF VmGood
<1> QED BY <1>6 DEF q

LEMMA VmAccepts ==
    ASSUME NEW base, IsWorld(base), NEW intents, NEW k \in Nat, NEW s,
           VmGood(base, intents, k - 1, s), NEW mat, IsMaterializer(mat), NEW r,
           ResolvedFrom(s.mat.ws.next, r), Allocates(s.mat.ws.next, r), mat.ws.next = r.next,
           MaterializerPreconditions(s.mat, s.predecessor, intents[k].preconditions),
           \A p \in Range(intents[k].preconditions) : p.kind = "World" => Len(p.world) <= Len(base.id)
    PROVE  VmGood(base, intents, k, EpochAccepts(s, mat, r.operations, r.bound))
<1> DEFINE o == [accepted |-> TRUE, entities |-> r.bound]
           z == Append(s.outcomes, o)
           id == s.predecessor
           child == WorldId(id, Version(id) + 1, mat.ws.next, r.operations)
           all == s.operations \o r.operations
           q == EpochAccepts(s, mat, r.operations, r.bound)
<1>1. s = [mat |-> s.mat, predecessor |-> s.predecessor, operations |-> s.operations,
           outcomes |-> s.outcomes, panicked |-> s.panicked]
  BY DEF VmGood
<1>2. q = [s EXCEPT !.mat = mat, !.predecessor = child, !.operations = all, !.outcomes = z]
  BY <1>1 DEF EpochAccepts
<1>3. o.accepted /\ o.entities = r.bound
  OBVIOUS
<1>4. \A p \in Range(intents[k].preconditions) :
         p.kind = "World" => p.world = id /\ Len(p.world) <= Len(base.id)
  BY DEF MaterializerPreconditions
<1>5. EpochGood(base, intents, k - 1, s.mat.ws.next, id, s.operations, s.outcomes)
  BY DEF VmGood
<1> HIDE DEF o, id
<1>6. EpochGood(base, intents, k, r.next, child, all, z)
  BY <1>3, <1>4, <1>5, EpochAcceptsOne
<1> HIDE DEF z, q, child, all
<1>7. q = [mat |-> mat, predecessor |-> child, operations |-> all,
           outcomes |-> z, panicked |-> s.panicked]
  BY <1>1, <1>2
<1>8. /\ q = [mat |-> q.mat, predecessor |-> q.predecessor, operations |-> q.operations,
              outcomes |-> q.outcomes, panicked |-> q.panicked]
      /\ q.mat = mat /\ q.predecessor = child /\ q.operations = all /\ q.outcomes = z
  BY <1>7
<1>9. VmGood(base, intents, k, q)
  BY <1>6, <1>8 DEF VmGood
<1> QED BY <1>9 DEF q

LEMMA VmIsGood ==
    ASSUME NEW base, IsWorld(base), NEW intents, IntentsKnown(intents),
           InsistOnPast(base, intents), NEW m, IsMaterializer(m), m.ws.next = base.next
    PROVE  VmGood(base, intents, Len(intents), VmSpace(m, base, intents))
<1> DEFINE n == Len(intents)
<1>1. n \in Nat /\ DOMAIN intents = 1..n /\ \A i \in 1..n : OperationsKnown(intents[i])
  BY SeqShape DEF IntentsKnown
<1>2. PICK g : VmSteps(m, base, intents, n, g) /\ VmSpace(m, base, intents) = g[n]
  <2> HIDE DEF n
  <2> QED BY <1>1, VmRecursion
<1>3. g[0] = EpochStart(m, base) /\ \A i \in 1..n : g[i] = QueuedOnVm(g[i - 1], intents[i])
  BY <1>2 DEF VmSteps
<1>4. \A i \in 1..n : \A p \in Range(intents[i].preconditions) :
         p.kind = "World" => Len(p.world) <= Len(base.id)
  BY DEF InsistOnPast
<1> DEFINE T == {i \in 0..n : VmGood(base, intents, i, g[i])}
<1> HIDE DEF n
<1>5. 0 \in T
  <2> DEFINE e == EpochStart(m, base)
  <2>1. e = [mat |-> m, predecessor |-> base.id, operations |-> <<>>, outcomes |-> <<>>,
             panicked |-> FALSE]
    BY DEF EpochStart
  <2> HIDE DEF e
  <2>2. /\ e = [mat |-> e.mat, predecessor |-> e.predecessor, operations |-> e.operations,
                outcomes |-> e.outcomes, panicked |-> e.panicked]
        /\ e.mat = m /\ e.predecessor = base.id /\ e.operations = <<>> /\ e.outcomes = <<>>
    BY <2>1
  <2>3. VmGood(base, intents, 0, e)
    BY <2>2, EpochStarts DEF VmGood
  <2> QED BY <1>1, <1>3, <2>3 DEF e
<1>6. ASSUME NEW i \in 1..n, i - 1 \in T  PROVE i \in T
  <2> DEFINE s == g[i - 1]
             r == ResolveOperations(s.mat.ws.next, intents[i])
             may == MaterializerPreconditions(s.mat, s.predecessor, intents[i].preconditions) /\ r.ok
             done == ExecuteOperations(s.mat, r.operations)
  <2>1. VmGood(base, intents, i - 1, s) /\ i \in 0..n /\ i \in Nat
    BY <1>1, <1>6
  <2>2. g[i] = QueuedOnVm(s, intents[i])
    BY <1>3
  <2> HIDE DEF s
  <2>3. g[i] = IF may THEN ExecutedVerdict(s, r, done) ELSE EpochRejects(s, s.mat)
    BY <2>2 DEF QueuedOnVm
  <2>4. IsMaterializer(s.mat) /\ s.mat.ws.next \in Nat
    BY <2>1 DEF VmGood, IsMaterializer, IsMachine
  <2>5. ResolvedFrom(s.mat.ws.next, r) /\ Allocates(s.mat.ws.next, r)
    BY <1>1, <2>4, IntentResolved
  <2> HIDE DEF r
  <2>6. /\ IsMaterializer(done.mat)
        /\ done.accepted => done.mat.ws.next = r.next
        /\ ~done.accepted => done.mat.ws.next = s.mat.ws.next
    BY <2>4, <2>5, OperationsAllocate
  <2> HIDE DEF done
  <2>7. CASE ~may
    <3>1. VmGood(base, intents, i, EpochRejects(s, s.mat))
      BY <2>1, <2>4, VmRejects
    <3> HIDE DEF may
    <3> QED BY <2>1, <2>3, <2>7, <3>1
  <2>8. CASE may /\ done.accepted
    <3>1. MaterializerPreconditions(s.mat, s.predecessor, intents[i].preconditions)
      BY <2>8
    <3>2. \A p \in Range(intents[i].preconditions) : p.kind = "World" => Len(p.world) <= Len(base.id)
      BY <1>4
    <3>3. IsMaterializer(done.mat) /\ done.mat.ws.next = r.next
      BY <2>6, <2>8
    <3>4. VmGood(base, intents, i, EpochAccepts(s, done.mat, r.operations, r.bound))
      BY <2>1, <2>5, <3>1, <3>2, <3>3, VmAccepts
    <3> HIDE DEF may
    <3> QED BY <2>1, <2>3, <2>8, <3>4 DEF ExecutedVerdict
  <2>9. CASE may /\ ~done.accepted
    <3>1. VmGood(base, intents, i, EpochRejects(s, done.mat))
      BY <2>1, <2>6, <2>9, VmRejects
    <3> HIDE DEF may
    <3> QED BY <2>1, <2>3, <2>9, <3>1 DEF ExecutedVerdict
  <2> QED BY <2>7, <2>8, <2>9
<1> HIDE DEF T
<1>7. \A i \in 0..n : i \in T
  BY <1>1, <1>5, <1>6, Counting
<1>8. n \in T
  BY <1>1, <1>7
<1> QED BY <1>2, <1>8 DEF T, n

LEMMA VmPlanIsGood ==
    ASSUME NEW base, IsWorld(base), NEW intents, IntentsKnown(intents),
           InsistOnPast(base, intents), NEW m, IsMaterializer(m), m.ws.next = base.next
    PROVE  LET p == PlanOf(DeriveVmEpoch(m, base, intents))
           IN  GoodPlan(base, p) /\ Insists(intents, p.outcomes)
<1> DEFINE s == VmSpace(m, base, intents)
           next == s.mat.ws.next
           p == PlanOf(DeriveVmEpoch(m, base, intents))
           id == SingleId(base, next, s.operations)
           w == SingleWorld(base, next, s.operations)
           f == SingleFrame(base, next, s.operations)
           z == SingleOutcomes(id, s.outcomes)
           none == NothingAccepted(s.outcomes)
<1>1. DeriveVmEpoch(m, base, intents) = EpochResult(s, base)
  BY DEF DeriveVmEpoch, VmSpace
<1>2. VmGood(base, intents, Len(intents), s)
  BY VmIsGood
<1> HIDE DEF s
<1>3. p = [tail |-> IF none THEN base ELSE w, frames |-> IF none THEN <<>> ELSE <<f>>, outcomes |-> z]
  BY <1>1 DEF EpochResult, PlanOf, NothingAccepted, SingleOutcomes, SingleId, SingleFrame, SingleWorld
<1>4. IsSeq(s.outcomes) /\ DOMAIN s.outcomes = 1..Len(s.outcomes)
      /\ EpochGood(base, intents, Len(intents), next, s.predecessor, s.operations, s.outcomes)
  BY <1>2, SeqShape DEF VmGood, EpochGood
<1>5. none => \A i \in 1..Len(s.outcomes) : ~s.outcomes[i].accepted
  BY <1>4 DEF NothingAccepted
<1> HIDE DEF p, w, f, id, none, next
<1>6. CASE none
  <2>1. IsSeq(z) /\ \A i \in 1..Len(z) : ~z[i].accepted
    BY <1>4, <1>5, <1>6, OutcomesOf
  <2> HIDE DEF z
  <2>2. p.tail = base /\ p.frames = <<>> /\ p.outcomes = z
    BY <1>3, <1>6
  <2> QED BY <2>1, <2>2, NothingPlan DEF p
<1>7. CASE ~none
  <2> HIDE DEF z
  <2>1. p.tail = w /\ p.frames = <<f>> /\ p.outcomes = z
    BY <1>3, <1>7
  <2>2. GoodPlan(base, p) /\ Insists(intents, p.outcomes)
    BY <1>4, <2>1, SinglePlan DEF w, f, z, id
  <2> QED BY <2>2 DEF p
<1> QED BY <1>6, <1>7

\* commit_durable_epoch, with and without validators.
LEMMA DurablePlanIsGood ==
    ASSUME NEW base, IsWorld(base), NEW intents, IntentsKnown(intents),
           InsistOnPast(base, intents), NEW vs
    PROVE  LET p == PlanOf(Materialize(NewMaterializer(base.next), base, intents, vs))
           IN  GoodPlan(base, p) /\ Insists(intents, p.outcomes)
<1> DEFINE m == NewMaterializer(base.next)
           p == PlanOf(Materialize(m, base, intents, vs))
           d == DeriveEpochWorld(base, intents, vs)
<1>1. "ws" \in DOMAIN m /\ m.ws = NewWorkspace(0, base.next)
  BY DEF NewMaterializer
<1>2. IsMachine(NewWorkspace(0, base.next)) /\ NewWorkspace(0, base.next).next = base.next
  BY DEF NewWorkspace, IsMachine, IsWorld
<1>3. IsMaterializer(m) /\ m.ws.next = base.next
  BY <1>1, <1>2 DEF IsMaterializer
<1> HIDE DEF m
<1>4. CASE vs = {}
  BY <1>3, <1>4, VmPlanIsGood DEF Materialize, m
<1>5. CASE vs # {}
  <2>1. Materialize(m, base, intents, vs) = PlanFollowed(m, d)
    BY <1>5 DEF Materialize
  <2> HIDE DEF d
  <2>2. p.tail = d.tail /\ p.frames = d.frames /\ p.outcomes = d.outcomes
    BY <2>1 DEF PlanOf, PlanFollowed
  <2>3. GoodPlan(base, d) /\ Insists(intents, d.outcomes)
    BY WorldPlanIsGood DEF d
  <2> HIDE DEF p
  <2>4. GoodPlan(base, p) /\ Insists(intents, p.outcomes)
    BY <2>2, <2>3 DEF GoodPlan
  <2> QED BY <2>4 DEF p, m
<1> QED BY <1>4, <1>5

-----------------------------------------------------------------------------
(* derive_epoch and derive_epoch_world side by side.                         *)

\* The two verdicts on an intent.
SameVerdict(a, b) ==
    /\ a.accepted \in BOOLEAN /\ b.accepted \in BOOLEAN
    /\ a.accepted <=> b.accepted
    /\ a.accepted => a.entities = b.entities

Paired(base, k, p, s) ==
    /\ p = [tail |-> p.tail, frames |-> p.frames, outcomes |-> p.outcomes]
    /\ s = [tail |-> s.tail, operations |-> s.operations, outcomes |-> s.outcomes]
    /\ s.tail = p.tail
    /\ IsSeq(p.outcomes) /\ IsSeq(s.outcomes) /\ Len(p.outcomes) = k /\ Len(s.outcomes) = k
    /\ \A i \in 1..k : SameVerdict(s.outcomes[i], p.outcomes[i])
    /\ (\A i \in 1..k : ~s.outcomes[i].accepted) => s.tail = base

\* The next intent, with the same verdict on both sides.
LEMMA PairedNext ==
    ASSUME NEW base, NEW k \in Nat \ {0}, NEW p, NEW s, Paired(base, k - 1, p, s),
           NEW a, NEW b, SameVerdict(b, a), NEW tail, NEW frames, NEW ops,
           ~b.accepted => tail = s.tail
    PROVE  Paired(base, k, [tail |-> tail, frames |-> frames, outcomes |-> Append(p.outcomes, a)],
                           [tail |-> tail, operations |-> ops, outcomes |-> Append(s.outcomes, b)])
<1> DEFINE x == Append(p.outcomes, a)
           y == Append(s.outcomes, b)
           np == [tail |-> tail, frames |-> frames, outcomes |-> x]
           ns == [tail |-> tail, operations |-> ops, outcomes |-> y]
<1>1. /\ IsSeq(p.outcomes) /\ IsSeq(s.outcomes) /\ Len(p.outcomes) = k - 1 /\ Len(s.outcomes) = k - 1
      /\ \A i \in 1..(k - 1) : SameVerdict(s.outcomes[i], p.outcomes[i])
      /\ (\A i \in 1..(k - 1) : ~s.outcomes[i].accepted) => s.tail = base
  BY DEF Paired
<1>2. (k - 1) + 1 = k
  OBVIOUS
<1>3. IsSeq(x) /\ Len(x) = k /\ (\A i \in 1..(k - 1) : x[i] = p.outcomes[i]) /\ x[k] = a
  BY <1>1, <1>2, SeqAppend
<1>4. IsSeq(y) /\ Len(y) = k /\ (\A i \in 1..(k - 1) : y[i] = s.outcomes[i]) /\ y[k] = b
  BY <1>1, <1>2, SeqAppend
<1> HIDE DEF x, y
<1>5. \A i \in 1..k : i \in 1..(k - 1) \/ i = k
  OBVIOUS
<1>6. \A i \in 1..k : SameVerdict(y[i], x[i])
  BY <1>1, <1>3, <1>4, <1>5
<1>7. (\A i \in 1..k : ~y[i].accepted) => tail = base
  <2> SUFFICES ASSUME \A i \in 1..k : ~y[i].accepted  PROVE tail = base
    OBVIOUS
  <2>1. k \in 1..k /\ \A i \in 1..(k - 1) : i \in 1..k
    OBVIOUS
  <2>2. ~b.accepted
    BY <1>4, <2>1
  <2>3. \A i \in 1..(k - 1) : ~s.outcomes[i].accepted
    BY <1>4, <2>1
  <2> QED BY <1>1, <2>2, <2>3
<1>8. /\ np.tail = tail /\ np.outcomes = x /\ ns.tail = tail /\ ns.outcomes = y
      /\ np = [tail |-> np.tail, frames |-> np.frames, outcomes |-> np.outcomes]
      /\ ns = [tail |-> ns.tail, operations |-> ns.operations, outcomes |-> ns.outcomes]
  OBVIOUS
<1> HIDE DEF np, ns
<1>9. Paired(base, k, np, ns)
  BY <1>3, <1>4, <1>6, <1>7, <1>8 DEF Paired
<1> QED BY <1>9 DEF np, ns, x, y

LEMMA RejectedAlike == SameVerdict(Rejected, Rejected)
BY DEF SameVerdict, Rejected

LEMMA AcceptedAlike ==
    ASSUME NEW id, NEW bound
    PROVE  SameVerdict([accepted |-> TRUE, entities |-> bound],
                       [accepted |-> TRUE, world |-> id, entities |-> bound])
BY DEF SameVerdict

LEMMA PairedPlans ==
    ASSUME NEW base, NEW intents, IsSeq(intents), NEW vs
    PROVE  Paired(base, Len(intents), DeriveEpoch(base, intents, vs), EpochSpace(base, intents, vs))
<1> DEFINE n == Len(intents)
<1>1. n \in Nat /\ DOMAIN intents = 1..n
  BY SeqShape
<1>2. PICK g : ChainSteps(base, intents, vs, n, g) /\ DeriveEpoch(base, intents, vs) = g[n]
  <2> HIDE DEF n
  <2> QED BY <1>1, ChainRecursion
<1>3. PICK h : SpaceSteps(base, intents, vs, n, h) /\ EpochSpace(base, intents, vs) = h[n]
  <2> HIDE DEF n
  <2> QED BY <1>1, SpaceRecursion
<1>4. g[0] = EmptyPlan(base) /\ \A i \in 1..n : g[i] = DeriveNext(g[i - 1], intents[i], vs)
  BY <1>2 DEF ChainSteps
<1>5. h[0] = EmptySpace(base) /\ \A i \in 1..n : h[i] = WorkspaceNext(h[i - 1], intents[i], vs)
  BY <1>3 DEF SpaceSteps
<1> DEFINE T == {i \in 0..n : Paired(base, i, g[i], h[i])}
<1> HIDE DEF n
<1>6. 0 \in T
  <2> DEFINE p == EmptyPlan(base)
             s == EmptySpace(base)
  <2>1. p = [tail |-> base, frames |-> <<>>, outcomes |-> <<>>]
    BY DEF EmptyPlan
  <2>2. s = [tail |-> base, operations |-> <<>>, outcomes |-> <<>>]
    BY DEF EmptySpace
  <2> HIDE DEF p, s
  <2>3. /\ p = [tail |-> p.tail, frames |-> p.frames, outcomes |-> p.outcomes]
        /\ s = [tail |-> s.tail, operations |-> s.operations, outcomes |-> s.outcomes]
        /\ p.tail = base /\ s.tail = base /\ p.outcomes = <<>> /\ s.outcomes = <<>>
    BY <2>1, <2>2
  <2>4. Paired(base, 0, p, s)
    BY <2>3, SeqEmpty DEF Paired
  <2> QED BY <1>1, <1>4, <1>5, <2>4 DEF p, s
<1>7. ASSUME NEW i \in 1..n, i - 1 \in T  PROVE i \in T
  <2> DEFINE p == g[i - 1]
             s == h[i - 1]
             w == p.tail
             r == ResolveOperations(w.next, intents[i])
             c == Candidate(w, r.operations)
             a == [accepted |-> TRUE, world |-> c.id, entities |-> r.bound]
             b == [accepted |-> TRUE, entities |-> r.bound]
  <2>1. Paired(base, i - 1, p, s) /\ i \in 0..n /\ i \in Nat \ {0}
    BY <1>1, <1>7
  <2>2. g[i] = DeriveNext(p, intents[i], vs) /\ h[i] = WorkspaceNext(s, intents[i], vs)
    BY <1>4, <1>5
  <2> HIDE DEF p, s
  <2>3. /\ p = [tail |-> w, frames |-> p.frames, outcomes |-> p.outcomes]
        /\ s = [tail |-> s.tail, operations |-> s.operations, outcomes |-> s.outcomes]
        /\ s.tail = w
    BY <2>1 DEF Paired
  <2>4. CASE IntentAccepted(w, intents[i], r, vs)
    <3>1. g[i] = [tail |-> c, frames |-> Append(p.frames, FrameTo(w, r.operations, c)),
                  outcomes |-> Append(p.outcomes, a)]
      BY <2>2, <2>4 DEF DeriveNext, Derived
    <3>2. h[i] = [tail |-> c, operations |-> s.operations \o r.operations,
                  outcomes |-> Append(s.outcomes, b)]
      BY <2>2, <2>3, <2>4 DEF WorkspaceNext
    <3>3. SameVerdict(b, a) /\ b.accepted
      BY AcceptedAlike
    <3> HIDE DEF a, b, c
    <3>4. Paired(base, i, g[i], h[i])
      BY <2>1, <3>1, <3>2, <3>3, PairedNext
    <3> QED BY <2>1, <3>4
  <2>5. CASE ~IntentAccepted(w, intents[i], r, vs)
    <3> DEFINE x == Append(p.outcomes, Rejected)
               y == Append(s.outcomes, Rejected)
    <3>1. g[i] = [p EXCEPT !.outcomes = x]
      BY <2>2, <2>5 DEF DeriveNext
    <3>2. h[i] = [s EXCEPT !.outcomes = y]
      BY <2>2, <2>3, <2>5 DEF WorkspaceNext
    <3> HIDE DEF x, y, w
    <3>3. g[i] = [tail |-> w, frames |-> p.frames, outcomes |-> x]
      BY <2>3, <3>1
    <3>4. h[i] = [tail |-> w, operations |-> s.operations, outcomes |-> y]
      BY <2>3, <3>2
    <3>5. Paired(base, i, g[i], h[i])
      BY <2>1, <2>3, <3>3, <3>4, RejectedAlike, PairedNext DEF x, y
    <3> QED BY <2>1, <3>5
  <2> QED BY <2>4, <2>5
<1> HIDE DEF T
<1>8. \A i \in 0..n : i \in T
  BY <1>1, <1>6, <1>7, Counting
<1>9. n \in T
  BY <1>1, <1>8
<1> QED BY <1>2, <1>3, <1>9 DEF T, n

LEMMA PlansAgree ==
    ASSUME NEW base, IsWorld(base), NEW intents, IntentsKnown(intents),
           InsistOnPast(base, intents), NEW vs
    PROVE  SamePlan(DeriveEpoch(base, intents, vs), DeriveEpochWorld(base, intents, vs))
<1> DEFINE c == DeriveEpoch(base, intents, vs)
           p == DeriveEpochWorld(base, intents, vs)
           s == EpochSpace(base, intents, vs)
           id == SingleId(base, s.tail.next, s.operations)
           f == SingleFrame(base, s.tail.next, s.operations)
           z == SingleOutcomes(id, s.outcomes)
           n == Len(intents)
<1>1. p = EpochWorld(base, s)
  BY DEF DeriveEpochWorld, EpochSpace, EmptySpace
<1>2. Paired(base, n, c, s) /\ n \in Nat
  BY PairedPlans, SeqShape DEF IntentsKnown
<1>3. IsWorld(s.tail)
  BY SpaceIsGood DEF SpaceGood
<1> HIDE DEF c, s, n
<1>4. p = IF NothingAccepted(s.outcomes)
          THEN [tail |-> base, frames |-> <<>>, outcomes |-> s.outcomes]
          ELSE [tail |-> [s.tail EXCEPT !.id = id], frames |-> <<f>>, outcomes |-> z]
  BY <1>1 DEF EpochWorld, NothingAccepted, SingleOutcomes, SingleId, SingleFrame
<1>5. /\ s.tail = c.tail
      /\ DOMAIN s.outcomes = 1..n /\ DOMAIN c.outcomes = 1..n
      /\ IsSeq(s.outcomes) /\ Len(s.outcomes) = n
      /\ \A i \in 1..n : SameVerdict(s.outcomes[i], c.outcomes[i])
      /\ (\A i \in 1..n : ~s.outcomes[i].accepted) => s.tail = base
  BY <1>2, SeqShape DEF Paired
<1>6. \A i \in 1..n : /\ s.outcomes[i].accepted = c.outcomes[i].accepted
                      /\ s.outcomes[i].accepted => s.outcomes[i].entities = c.outcomes[i].entities
  BY <1>5 DEF SameVerdict
<1> HIDE DEF p, f, id
<1>7. CASE NothingAccepted(s.outcomes)
  <2>1. p.tail = base /\ p.outcomes = s.outcomes
    BY <1>4, <1>7
  <2>2. s.tail = base
    BY <1>5, <1>7 DEF NothingAccepted
  <2>3. SamePlan(c, p)
    BY <1>5, <1>6, <2>1, <2>2 DEF SamePlan
  <2> QED BY <2>3 DEF p, c
<1>8. CASE ~NothingAccepted(s.outcomes)
  <2> DEFINE t == [s.tail EXCEPT !.id = id]
  <2>1. p.tail = t /\ p.outcomes = z
    <3> HIDE DEF z, t
    <3>1. p = [tail |-> t, frames |-> <<f>>, outcomes |-> z]
      BY <1>4, <1>8 DEF t
    <3> QED BY <3>1
  <2>2. t.next = c.tail.next /\ t.stacks = c.tail.stacks
    <3>1. s.tail = [id |-> s.tail.id, next |-> s.tail.next, stacks |-> s.tail.stacks]
      BY <1>3 DEF IsWorld
    <3>2. t = [id |-> id, next |-> s.tail.next, stacks |-> s.tail.stacks]
      BY <3>1
    <3> HIDE DEF t
    <3> QED BY <1>5, <3>2
  <2>3. DOMAIN z = 1..n
    BY <1>5 DEF SingleOutcomes
  <2>4. \A i \in 1..n : z[i] = IF s.outcomes[i].accepted
                               THEN [accepted |-> TRUE, world |-> id,
                                     entities |-> s.outcomes[i].entities]
                               ELSE Rejected
    BY <1>5 DEF SingleOutcomes
  <2> HIDE DEF z, t
  <2>5. ASSUME NEW i \in 1..n
        PROVE  /\ z[i].accepted = c.outcomes[i].accepted
               /\ z[i].accepted => z[i].entities = c.outcomes[i].entities
    <3>1. s.outcomes[i].accepted \in BOOLEAN
      BY <1>5 DEF SameVerdict
    <3>2. CASE s.outcomes[i].accepted
      <4>1. z[i] = [accepted |-> TRUE, world |-> id, entities |-> s.outcomes[i].entities]
        BY <2>4, <3>2
      <4>2. z[i].accepted = TRUE /\ z[i].entities = s.outcomes[i].entities
        BY <4>1
      <4>3. s.outcomes[i].accepted = TRUE
        BY <3>1, <3>2
      <4> QED BY <1>6, <3>2, <4>2, <4>3
    <3>3. CASE ~s.outcomes[i].accepted
      <4>1. z[i] = Rejected
        BY <2>4, <3>3
      <4>2. z[i].accepted = FALSE
        BY <4>1, RejectedFacts
      <4>3. s.outcomes[i].accepted = FALSE
        BY <3>1, <3>3
      <4> QED BY <1>6, <4>2, <4>3
    <3> QED BY <3>2, <3>3
  <2>6. SamePlan(c, p)
    BY <1>5, <2>1, <2>2, <2>3, <2>5 DEF SamePlan
  <2> QED BY <2>6 DEF p, c
<1> QED BY <1>7, <1>8

-----------------------------------------------------------------------------
(* The inductive invariant of the database.                                  *)

DatabaseShape ==
    /\ pc \in [Threads -> {"idle", "strict", "epoch", "locked", "appended"}]
    /\ DOMAIN work = Threads /\ DOMAIN planned = Threads
    /\ IsWorld(current) /\ IsSeq(store)

\* One thread at a time is inside a commit.
LockHeld == \A t \in Threads : pc[t] \in {"locked", "appended"} => commitLock = t

\* A transaction: it began at a world that is not newer than the head, and its
\* operations apply to that world and allocate what it was told.
StrictGood(w, head) ==
    /\ w.kind = "strict"
    /\ w = [kind |-> "strict", base |-> w.base, next |-> w.next, operations |-> w.operations]
    /\ IsWorld(w.base) /\ Len(w.base.id) <= Len(head.id)
    /\ w.base.id = head.id => w.base = head
    /\ IsSeq(w.operations) /\ KindsKnown(w.operations)
    /\ w.next \in Nat /\ w.base.next <= w.next
    /\ Applied(w.base, w.operations).ok /\ Applied(w.base, w.operations).next = w.next

\* An epoch: its intents insist on worlds that are not newer than the head.
EpochBuilt(w, head) ==
    w.kind = "epoch" /\ IntentsKnown(w.intents) /\ InsistOnPast(head, w.intents)

WorkGood(at, w, head) ==
    /\ at = "strict" => StrictGood(w, head)
    /\ at = "epoch" => EpochBuilt(w, head)
    /\ at \in {"locked", "appended"} => StrictGood(w, head) \/ EpochBuilt(w, head)

WorksGood == \A t \in Threads : WorkGood(pc[t], work[t], current)

\* The worlds the caller of the i-th answer insisted on.
InsistedBy(w, i) ==
    IF w.kind = "strict" THEN {w.base.id}
    ELSE {p.world : p \in {q \in Range(w.intents[i].preconditions) : q.kind = "World"}}

AnswersFollow(w, outcomes) ==
    \A i \in 1..Len(outcomes) : outcomes[i].accepted =>
        \A id \in InsistedBy(w, i) : Front(outcomes[i].world) = id

\* The store replays to the head, or to the head that is about to be published.
HeadGood ==
    /\ (\A t \in Threads : pc[t] # "appended") =>
           Reconstruct(store) = [ok |-> TRUE, world |-> current]
    /\ \A t \in Threads : pc[t] = "appended" =>
           /\ Reconstruct(store) = [ok |-> TRUE, world |-> planned[t].tail]
           /\ GoodPlan(current, planned[t]) /\ planned[t].frames # <<>>
           /\ AnswersFollow(work[t], planned[t].outcomes)

AnswerGood(a, head) ==
    /\ IsSeq(a.world) /\ IsPrefix(a.world, head.id)
    /\ a.entities \subseteq 0..(head.next - 1)
    /\ \A id \in a.insisted : Front(a.world) = id

OwnEntities(answers) ==
    \A a \in answers, b \in answers : a # b => a.entities \cap b.entities = {}

AnswersGood == (\A a \in answered : AnswerGood(a, current)) /\ OwnEntities(answered)

DatabaseInv == DatabaseShape /\ LockHeld /\ WorksGood /\ HeadGood /\ AnswersGood

\* What the caller of enqueue builds, stamped with the world it sees.
LEMMA StampedFacts ==
    ASSUME DatabaseInv, NEW intents \in Epochs
    PROVE  IntentsKnown(Stamped(intents)) /\ InsistOnPast(current, Stamped(intents))
<1> DEFINE z == Stamped(intents)
           Pre(i) == [j \in DOMAIN intents[i].preconditions |->
                         IF intents[i].preconditions[j].kind = "World"
                         THEN [kind |-> "World", world |-> current.id]
                         ELSE intents[i].preconditions[j]]
<1>1. PICK n \in 1..MaxEpoch : intents \in [1..n -> Intents]
  BY DEF Epochs
<1>2. n \in Nat /\ DOMAIN intents = 1..n
  BY <1>1, DatabaseAssumption
<1>3. z = [i \in 1..n |-> [intents[i] EXCEPT !.preconditions = Pre(i)]]
  BY <1>2 DEF Stamped
<1>4. \A i \in 1..n : QueuedIntent(intents[i])
  BY <1>1, DatabaseAssumption
<1> HIDE DEF z
<1>5. z = [i \in 1..n |-> z[i]]
  <2> HIDE DEF Pre
  <2> QED BY <1>3
<1>6. IsSeq(z) /\ Len(z) = n
  BY <1>2, <1>5, SeqMade
<1>7. ASSUME NEW i \in 1..n
      PROVE  z[i].operations = intents[i].operations /\ z[i].preconditions = Pre(i)
  <2> HIDE DEF Pre
  <2>1. z[i] = [intents[i] EXCEPT !.preconditions = Pre(i)]
    BY <1>3
  <2>2. "operations" \in DOMAIN intents[i] /\ "preconditions" \in DOMAIN intents[i]
    BY <1>4 DEF QueuedIntent
  <2> QED BY <2>1, <2>2
<1>8. ASSUME NEW i \in 1..n  PROVE OperationsKnown(z[i])
  <2> DEFINE ops == intents[i].operations
  <2>1. IsSeq(ops) /\ \A op \in Range(ops) : op.kind \in Kinds
    BY <1>4 DEF QueuedIntent, IsSeq, Kinds
  <2>2. DOMAIN ops = 1..Len(ops)
    BY <2>1, SeqShape
  <2> HIDE DEF ops
  <2>3. \A k \in 1..Len(ops) : ops[k] \in Range(ops)
    BY <2>2 DEF Range
  <2>4. KindsKnown(ops)
    BY <2>1, <2>3 DEF KindsKnown
  <2>5. z[i].operations = ops
    BY <1>7 DEF ops
  <2> QED BY <2>1, <2>4, <2>5 DEF OperationsKnown
<1>9. ASSUME NEW i \in 1..n, NEW p \in Range(z[i].preconditions), p.kind = "World"
      PROVE  IsSeq(p.world) /\ Len(p.world) <= Len(current.id)
  <2> DEFINE pres == intents[i].preconditions
  <2>1. p \in Range(Pre(i))
    BY <1>7, <1>9
  <2>2. PICK j \in DOMAIN pres : p = Pre(i)[j]
    BY <2>1 DEF Range
  <2>3. p = IF pres[j].kind = "World" THEN [kind |-> "World", world |-> current.id] ELSE pres[j]
    BY <2>2
  <2> HIDE DEF pres, Pre
  <2>4. p = [kind |-> "World", world |-> current.id]
    BY <1>9, <2>3
  <2>5. p.world = current.id
    BY <2>4
  <2>6. IsSeq(current.id) /\ Len(current.id) \in Nat
    BY SeqShape DEF DatabaseInv, DatabaseShape, IsWorld
  <2> QED BY <2>5, <2>6
<1>10. IntentsKnown(z)
  BY <1>6, <1>8 DEF IntentsKnown
<1>11. InsistOnPast(current, z)
  BY <1>6, <1>9 DEF InsistOnPast
<1> QED BY <1>10, <1>11 DEF z

-----------------------------------------------------------------------------
(* What a commit may append.                                                 *)

LEMMA StrictPlan ==
    ASSUME NEW w, NEW head, IsWorld(head), StrictGood(w, head), w.base.id = head.id, NEW p,
           p.tail = Candidate(w.base, w.operations),
           p.frames = <<CommitFrame(w.base, w.operations)>>,
           p.outcomes = <<[accepted |-> TRUE, world |-> Candidate(w.base, w.operations).id,
                           entities |-> [e \in w.base.next..(w.next - 1) |-> e]]>>
    PROVE  GoodPlan(head, p) /\ AnswersFollow(w, p.outcomes)
<1> DEFINE ops == w.operations
           next == w.next
           tail == SingleWorld(head, next, ops)
           range == [e \in head.next..(next - 1) |-> e]
           o == [accepted |-> TRUE, world |-> tail.id, entities |-> range]
<1>1. /\ w.base = head /\ next \in Nat /\ head.next <= next /\ w.kind = "strict"
      /\ Applied(head, ops).ok /\ Applied(head, ops).next = next
  BY DEF StrictGood
<1>2. Candidate(head, ops) = tail /\ FrameTo(head, ops, Candidate(head, ops)) = SingleFrame(head, next, ops)
  BY <1>1, ChildIs
<1>3. CommitFrame(head, ops) = SingleFrame(head, next, ops)
  BY <1>2 DEF CommitFrame
<1>4. p.tail = tail /\ p.frames = <<SingleFrame(head, next, ops)>> /\ p.outcomes = <<o>>
  BY <1>1, <1>2, <1>3
<1>5. FramesGood(head, p.frames, p.tail)
  BY <1>1, <1>4, SingleGood
<1>6. LeadsTo(head, tail) /\ IsSeq(tail.id) /\ Front(tail.id) = head.id /\ Len(head.id) < Len(tail.id)
  BY <1>1, SingleLeads DEF SingleWorld
<1>7. tail.next = next
  BY DEF SingleWorld
<1>8. Range(range) = head.next..(next - 1)
  BY DEF Range
<1>9. o.accepted = TRUE /\ o.world = tail.id /\ o.entities = range
  OBVIOUS
<1> HIDE DEF o, range, tail, next, ops
<1>10. Len(<<o>>) = 1 /\ <<o>>[1] = o /\ IsSeq(<<o>>)
  <2>1. <<o>> \in Seq({o})
    OBVIOUS
  <2>2. IsSeq(<<o>>)
    BY <2>1, SeqAny
  <2> QED BY <2>2
<1>11. \A i \in 1..Len(<<o>>) : i = 1 /\ <<o>>[i] = o
  BY <1>10
<1>12. EntitiesGood(head.next, tail.next, <<o>>)
  <2>1. \A i \in 1..Len(<<o>>) : Range(<<o>>[i].entities) \subseteq head.next..(tail.next - 1)
    BY <1>7, <1>8, <1>9, <1>11
  <2>2. \A i, j \in 1..Len(<<o>>) : ~(i # j)
    BY <1>11
  <2> QED BY <2>1, <2>2 DEF EntitiesGood
<1>13. WorldsGood(head, tail, <<o>>)
  BY <1>6, <1>9, <1>11, PrefixRefl DEF WorldsGood
<1>14. GoodPlan(head, p)
  BY <1>4, <1>5, <1>10, <1>12, <1>13 DEF GoodPlan
<1>15. AnswersFollow(w, p.outcomes)
  <2>1. \A i : InsistedBy(w, i) = {head.id}
    BY <1>1 DEF InsistedBy
  <2> QED BY <1>4, <1>6, <1>9, <1>11, <2>1 DEF AnswersFollow
<1> QED BY <1>14, <1>15

LEMMA InsistsAnswer ==
    ASSUME NEW w, w.kind = "epoch", NEW outcomes, Insists(w.intents, outcomes)
    PROVE  AnswersFollow(w, outcomes)
<1>1. \A i : InsistedBy(w, i) =
         {p.world : p \in {q \in Range(w.intents[i].preconditions) : q.kind = "World"}}
  BY DEF InsistedBy
<1> QED BY <1>1 DEF AnswersFollow, Insists

LEMMA PlansGood ==
    ASSUME DatabaseInv, NEW t \in Threads, pc[t] = "locked", NEW p \in Plans(t)
    PROVE  GoodPlan(current, p) /\ AnswersFollow(work[t], p.outcomes)
<1> DEFINE w == work[t]
<1>1. IsWorld(current) /\ (StrictGood(w, current) \/ EpochBuilt(w, current))
  BY DEF DatabaseInv, DatabaseShape, WorksGood, WorkGood
<1>2. CASE StrictGood(w, current)
  <2> DEFINE c == Candidate(w.base, w.operations)
             o == [accepted |-> TRUE, world |-> c.id,
                   entities |-> [e \in w.base.next..(w.next - 1) |-> e]]
  <2>1. w.kind = "strict"
    BY <1>2 DEF StrictGood
  <2>2. Fresh(t) /\ p = [tail |-> c, frames |-> <<CommitFrame(w.base, w.operations)>>,
                         outcomes |-> <<o>>]
    BY <2>1 DEF Plans
  <2>3. w.base.id = current.id
    BY <2>2 DEF Fresh
  <2>4. p.tail = c /\ p.frames = <<CommitFrame(w.base, w.operations)>> /\ p.outcomes = <<o>>
    <3> HIDE DEF c, o, w
    <3> QED BY <2>2
  <2> HIDE DEF w
  <2>5. GoodPlan(current, p) /\ AnswersFollow(w, p.outcomes)
    BY <1>1, <1>2, <2>3, <2>4, StrictPlan
  <2> QED BY <2>5 DEF w
<1>3. CASE EpochBuilt(w, current)
  <2> DEFINE d == DeriveEpoch(current, w.intents, validators)
             m == DurablePlan(w.intents)
  <2>1. w.kind = "epoch" /\ IntentsKnown(w.intents) /\ InsistOnPast(current, w.intents)
    BY <1>3 DEF EpochBuilt
  <2>2. p \in {d, m}
    BY <2>1 DEF Plans
  <2> HIDE DEF w
  <2>3. GoodPlan(current, d) /\ Insists(w.intents, d.outcomes)
    BY <1>1, <2>1, ChainIsGood DEF ChainGood
  <2>4. GoodPlan(current, m) /\ Insists(w.intents, m.outcomes)
    BY <1>1, <2>1, DurablePlanIsGood DEF DurablePlan
  <2> HIDE DEF d, m
  <2>5. GoodPlan(current, p) /\ Insists(w.intents, p.outcomes)
    BY <2>2, <2>3, <2>4
  <2>6. AnswersFollow(w, p.outcomes)
    BY <2>1, <2>5, InsistsAnswer
  <2> QED BY <2>5, <2>6 DEF w
<1> QED BY <1>1, <1>2, <1>3

-----------------------------------------------------------------------------
(* What a later head leaves true.                                            *)

LEMMA AnswerKept ==
    ASSUME NEW a, NEW head, IsWorld(head), AnswerGood(a, head), NEW later, LeadsTo(head, later)
    PROVE  AnswerGood(a, later)
<1>1. /\ IsSeq(a.world) /\ IsSeq(head.id) /\ IsSeq(later.id) /\ head.next \in Nat
      /\ later.next \in Nat /\ head.next <= later.next
      /\ IsPrefix(a.world, head.id) /\ IsPrefix(head.id, later.id)
  BY DEF AnswerGood, LeadsTo, IsWorld
<1>2. IsPrefix(a.world, later.id)
  BY <1>1, PrefixTrans
<1>3. 0..(head.next - 1) \subseteq 0..(later.next - 1)
  BY <1>1
<1> QED BY <1>1, <1>2, <1>3 DEF AnswerGood

LEMMA WorkKept ==
    ASSUME NEW at, NEW w, NEW head, IsWorld(head), WorkGood(at, w, head), NEW later, IsWorld(later),
           Len(head.id) < Len(later.id)
    PROVE  WorkGood(at, w, later)
<1>1. Len(head.id) \in Nat /\ Len(later.id) \in Nat
  BY SeqShape DEF IsWorld
<1>2. StrictGood(w, head) => StrictGood(w, later)
  <2> SUFFICES ASSUME StrictGood(w, head)  PROVE StrictGood(w, later)
    OBVIOUS
  <2>1. IsWorld(w.base) /\ Len(w.base.id) <= Len(head.id)
    BY DEF StrictGood
  <2>2. Len(w.base.id) \in Nat
    BY <2>1, SeqShape DEF IsWorld
  <2>3. Len(w.base.id) <= Len(later.id) /\ w.base.id # later.id
    BY <1>1, <2>1, <2>2
  <2> QED BY <2>3 DEF StrictGood
<1>3. EpochBuilt(w, head) => EpochBuilt(w, later)
  <2> SUFFICES ASSUME EpochBuilt(w, head)  PROVE EpochBuilt(w, later)
    OBVIOUS
  <2>1. ASSUME NEW i \in 1..Len(w.intents), NEW p \in Range(w.intents[i].preconditions),
               p.kind = "World"
        PROVE  IsSeq(p.world) /\ Len(p.world) <= Len(later.id)
    <3>1. IsSeq(p.world) /\ Len(p.world) <= Len(head.id)
      BY <2>1 DEF EpochBuilt, InsistOnPast
    <3>2. Len(p.world) \in Nat
      BY <3>1, SeqShape
    <3> QED BY <1>1, <3>1, <3>2
  <2> QED BY <2>1 DEF EpochBuilt, InsistOnPast
<1> QED BY <1>2, <1>3 DEF WorkGood

-----------------------------------------------------------------------------
(* The invariant holds initially and every step keeps it.                    *)

LEMMA ReplayMore ==
    ASSUME NEW frames, IsSeq(frames), NEW more, IsSeq(more), NEW w,
           Reconstruct(frames) = [ok |-> TRUE, world |-> w]
    PROVE  Reconstruct(frames \o more) = ReplayFrom(w, more)
<1> DEFINE start == [ok |-> TRUE, world |-> Genesis]
           done == [ok |-> TRUE, world |-> w]
<1>1. \A x : Reconstruct(x) = Replayed(start, x)
  BY DEF Reconstruct, Replayed
<1>2. Reconstruct(frames) = done /\ ReplayFrom(w, more) = Replayed(done, more)
  BY DEF ReplayFrom
<1> HIDE DEF start, done
<1>3. Replayed(start, frames \o more) = Replayed(Replayed(start, frames), more)
  BY ReplayedConcat
<1>4. Replayed(start, frames) = done
  BY <1>1, <1>2
<1> QED BY <1>1, <1>2, <1>3, <1>4

LEMMA DatabaseStarts ==
    ASSUME DatabaseInit
    PROVE  DatabaseInv
<1>1. IsWorld(Genesis)
  <2>1. /\ Genesis = [id |-> Genesis.id, next |-> Genesis.next, stacks |-> Genesis.stacks]
        /\ Genesis.id = <<>> /\ Genesis.next = 1
    BY DEF Genesis
  <2> QED BY <2>1, SeqEmpty DEF IsWorld
<1>2. Reconstruct(<<>>) = [ok |-> TRUE, world |-> Genesis]
  <2>1. Reconstruct(<<>>) = Replayed([ok |-> TRUE, world |-> Genesis], <<>>)
    BY DEF Reconstruct, Replayed
  <2> QED BY <2>1, SeqEmpty, ReplayedAppend
<1>3. pc = [t \in Threads |-> "idle"] /\ current = Genesis /\ store = <<>> /\ answered = {}
  BY DEF DatabaseInit
<1>4. DatabaseShape
  BY <1>1, <1>3, SeqEmpty DEF DatabaseInit, DatabaseShape
<1>5. LockHeld
  BY <1>3 DEF LockHeld
<1>6. WorksGood
  BY <1>3 DEF WorksGood, WorkGood
<1>7. HeadGood
  BY <1>2, <1>3 DEF HeadGood
<1>8. AnswersGood
  BY <1>3 DEF AnswersGood, OwnEntities
<1> QED BY <1>4, <1>5, <1>6, <1>7, <1>8 DEF DatabaseInv

LEMMA NothingTouched ==
    ASSUME DatabaseInv, UNCHANGED <<current, store, commitLock, pc, work, planned, answered>>
    PROVE  DatabaseInv'
BY DEF DatabaseInv, DatabaseShape, LockHeld, WorksGood, HeadGood, AnswersGood

\* A thread that is not inside a commit moves on.
LEMMA Working ==
    ASSUME DatabaseInv, NEW t \in Threads, pc[t] \in {"idle", "strict"},
           pc' \in [Threads -> {"idle", "strict", "epoch", "locked", "appended"}],
           DOMAIN work' = Threads, pc'[t] \in {"strict", "epoch"},
           \A u \in Threads \ {t} : pc'[u] = pc[u] /\ work'[u] = work[u],
           WorkGood(pc'[t], work'[t], current),
           UNCHANGED <<current, store, commitLock, planned, answered>>
    PROVE  DatabaseInv'
<1>1. DatabaseShape'
  BY DEF DatabaseInv, DatabaseShape
<1>2. LockHeld'
  BY DEF DatabaseInv, LockHeld
<1>3. WorksGood'
  BY DEF DatabaseInv, WorksGood
<1>4. HeadGood'
  <2>1. (\A u \in Threads : pc'[u] # "appended") => (\A u \in Threads : pc[u] # "appended")
    OBVIOUS
  <2>2. \A u \in Threads : pc'[u] = "appended" => u # t /\ pc[u] = "appended" /\ work'[u] = work[u]
    OBVIOUS
  <2> QED BY <2>1, <2>2 DEF DatabaseInv, HeadGood
<1>5. AnswersGood'
  BY DEF DatabaseInv, AnswersGood
<1> QED BY <1>1, <1>2, <1>3, <1>4, <1>5 DEF DatabaseInv

LEMMA BeginKeeps ==
    ASSUME DatabaseInv, NEW t \in Threads, Begin(t)
    PROVE  DatabaseInv'
<1> DEFINE w == [kind |-> "strict", base |-> current, next |-> current.next, operations |-> <<>>]
<1>1. pc[t] = "idle" /\ pc' = [pc EXCEPT ![t] = "strict"] /\ work' = [work EXCEPT ![t] = w]
      /\ UNCHANGED <<current, store, commitLock, planned, answered>>
  BY DEF Begin
<1>2. pc \in [Threads -> {"idle", "strict", "epoch", "locked", "appended"}]
      /\ DOMAIN work = Threads /\ IsWorld(current)
  BY DEF DatabaseInv, DatabaseShape
<1>3. /\ w = [kind |-> "strict", base |-> w.base, next |-> w.next, operations |-> w.operations]
      /\ w.kind = "strict" /\ w.base = current /\ w.next = current.next /\ w.operations = <<>>
  OBVIOUS
<1> HIDE DEF w
<1>4. Applied(current, <<>>).ok /\ Applied(current, <<>>).next = current.next
  <2>1. Applied(current, <<>>) = Workspace(current)
    BY AppliedIs, AppliedAppend, SeqEmpty
  <2> QED BY <1>2, <2>1, WorkspaceOf
<1>5. Len(current.id) <= Len(current.id) /\ current.next \in Nat /\ current.next <= current.next
  BY <1>2, SeqShape DEF IsWorld
<1>6. StrictGood(w, current)
  BY <1>2, <1>3, <1>4, <1>5, KindsEmpty DEF StrictGood
<1>7. WorkGood("strict", w, current)
  BY <1>6 DEF WorkGood
<1>8. /\ pc'[t] = "strict" /\ work'[t] = w /\ DOMAIN work' = Threads
      /\ pc' \in [Threads -> {"idle", "strict", "epoch", "locked", "appended"}]
      /\ \A u \in Threads \ {t} : pc'[u] = pc[u] /\ work'[u] = work[u]
  BY <1>1, <1>2
<1> QED BY <1>1, <1>7, <1>8, Working

LEMMA RecordKeeps ==
    ASSUME DatabaseInv, NEW t \in Threads, NEW op, NEW next, Record(t, op, next),
           op.kind \in Kinds, op.kind = "Allocate" => op.entity = work[t].next,
           next = work[t].next + (IF op.kind = "Allocate" THEN 1 ELSE 0)
    PROVE  DatabaseInv'
<1> DEFINE w == work[t]
           ops == Append(w.operations, op)
           v == [w EXCEPT !.operations = ops, !.next = next]
<1>1. pc[t] = "strict" /\ work' = [work EXCEPT ![t].operations = Append(@, op), ![t].next = next]
      /\ UNCHANGED <<current, store, commitLock, pc, planned, answered>>
  BY DEF Record
<1>2. pc \in [Threads -> {"idle", "strict", "epoch", "locked", "appended"}]
      /\ DOMAIN work = Threads /\ IsWorld(current) /\ StrictGood(w, current)
  BY <1>1 DEF DatabaseInv, DatabaseShape, WorksGood, WorkGood
<1>3. work'[t] = v /\ DOMAIN work' = Threads /\ \A u \in Threads \ {t} : work'[u] = work[u]
  BY <1>1, <1>2
<1> HIDE DEF w
<1>4. /\ w = [kind |-> "strict", base |-> w.base, next |-> w.next, operations |-> w.operations]
      /\ IsWorld(w.base) /\ IsSeq(w.operations) /\ KindsKnown(w.operations) /\ w.next \in Nat
      /\ w.base.next <= w.next
      /\ Applied(w.base, w.operations).ok /\ Applied(w.base, w.operations).next = w.next
  BY <1>2 DEF StrictGood
<1>5. IsSeq(ops) /\ KindsKnown(ops)
  BY <1>4, KindsAppend
<1>6. Applied(w.base, ops).ok /\ Applied(w.base, ops).next = next
  <2> DEFINE ws == Workspace(w.base)
  <2>1. IsWorkspace(ws)
    BY <1>4, WorkspaceOf
  <2>2. AppliedTo(ws, w.operations).ok /\ AppliedTo(ws, w.operations).next = w.next
    BY <1>4, AppliedIs
  <2> HIDE DEF ws
  <2>3. op.kind = "Allocate" => op.entity = AppliedTo(ws, w.operations).next
    BY <2>2 DEF w
  <2>4. /\ AppliedTo(ws, ops).ok
        /\ AppliedTo(ws, ops).next =
             AppliedTo(ws, w.operations).next + (IF op.kind = "Allocate" THEN 1 ELSE 0)
    BY <1>4, <2>1, <2>2, <2>3, AppendApplies
  <2>5. next = w.next + (IF op.kind = "Allocate" THEN 1 ELSE 0)
    BY DEF w
  <2> QED BY <2>2, <2>4, <2>5, AppliedIs DEF ws
<1> HIDE DEF ops, v
<1>7. v = [kind |-> "strict", base |-> w.base, next |-> next, operations |-> ops]
  <2> DEFINE u == [w EXCEPT !.operations = ops]
  <2>1. DOMAIN w = {"kind", "base", "next", "operations"} /\ w.kind = "strict"
        /\ w = [kind |-> "strict", base |-> w.base, next |-> w.next, operations |-> w.operations]
    BY <1>4
  <2>2. u = [kind |-> "strict", base |-> w.base, next |-> w.next, operations |-> ops]
    BY <2>1
  <2> HIDE DEF u
  <2>3. [u EXCEPT !.next = next] =
           [kind |-> "strict", base |-> w.base, next |-> next, operations |-> ops]
    BY <2>2
  <2>4. v = [u EXCEPT !.next = next]
    BY DEF v, u
  <2> QED BY <2>3, <2>4
<1>8. next \in Nat /\ w.base.next <= next
  <2>1. next = w.next + (IF op.kind = "Allocate" THEN 1 ELSE 0)
    BY DEF w
  <2>2. w.base.next \in Nat
    BY <1>4 DEF IsWorld
  <2> QED BY <1>4, <2>1, <2>2
<1>9. /\ v = [kind |-> "strict", base |-> v.base, next |-> v.next, operations |-> v.operations]
      /\ v.kind = "strict" /\ v.base = w.base /\ v.next = next /\ v.operations = ops
  BY <1>7
<1>10. StrictGood(v, current)
  BY <1>2, <1>5, <1>6, <1>8, <1>9 DEF StrictGood
<1>11. WorkGood("strict", v, current)
  BY <1>10 DEF WorkGood
<1>12. /\ pc'[t] = "strict"
       /\ pc' \in [Threads -> {"idle", "strict", "epoch", "locked", "appended"}]
       /\ \A u \in Threads \ {t} : pc'[u] = pc[u] /\ work'[u] = work[u]
  BY <1>1, <1>2, <1>3
<1> QED BY <1>1, <1>3, <1>11, <1>12, Working

LEMMA TransactionKeeps ==
    ASSUME DatabaseInv, NEW t \in Threads, NEW s, TxEntity(t) \/ TxDefine(t, s) \/ TxForget(t, s)
    PROVE  DatabaseInv'
<1>1. CASE TxEntity(t)
  <2> DEFINE op == [kind |-> "Allocate", entity |-> work[t].next]
  <2>1. Record(t, op, work[t].next + 1) /\ op.kind = "Allocate" /\ op.entity = work[t].next
    BY <1>1 DEF TxEntity
  <2>2. op.kind \in Kinds
    BY <2>1 DEF Kinds
  <2> HIDE DEF op
  <2> QED BY <2>1, <2>2, RecordKeeps
<1>2. ASSUME NEW op, Record(t, op, work[t].next), op.kind \in {"Define", "Forget"}
      PROVE  DatabaseInv'
  <2>1. op.kind \in Kinds /\ op.kind # "Allocate"
    BY <1>2 DEF Kinds
  <2>2. work[t].next = work[t].next + 0
    <3>1. StrictGood(work[t], current)
      BY <1>2 DEF Record, DatabaseInv, WorksGood, WorkGood
    <3> QED BY <3>1 DEF StrictGood
  <2> QED BY <1>2, <2>1, <2>2, RecordKeeps
<1>3. CASE TxDefine(t, s)
  <2>1. PICK p \in Predicates, l \in Literals :
           Record(t, [kind |-> "Define", slot |-> s,
                      fact |-> Fact([entity |-> work[t].next - 1], p, [literal |-> l])],
                  work[t].next)
    BY <1>3 DEF TxDefine
  <2> DEFINE op == [kind |-> "Define", slot |-> s,
                    fact |-> Fact([entity |-> work[t].next - 1], p, [literal |-> l])]
  <2>2. op.kind = "Define"
    OBVIOUS
  <2>3. Record(t, op, work[t].next)
    BY <2>1
  <2> HIDE DEF op
  <2> QED BY <1>2, <2>2, <2>3
<1>4. CASE TxForget(t, s)
  <2> DEFINE op == [kind |-> "Forget", slot |-> s]
  <2>1. Record(t, op, work[t].next) /\ op.kind = "Forget"
    BY <1>4 DEF TxForget
  <2> HIDE DEF op
  <2> QED BY <1>2, <2>1
<1> QED BY <1>1, <1>3, <1>4

LEMMA BuildEpochKeeps ==
    ASSUME DatabaseInv, NEW t \in Threads, NEW intents \in Epochs, BuildEpoch(t, intents)
    PROVE  DatabaseInv'
<1> DEFINE w == [kind |-> "epoch", intents |-> Stamped(intents)]
<1>1. pc[t] = "idle" /\ pc' = [pc EXCEPT ![t] = "epoch"] /\ work' = [work EXCEPT ![t] = w]
      /\ UNCHANGED <<current, store, commitLock, planned, answered>>
  BY DEF BuildEpoch
<1>2. pc \in [Threads -> {"idle", "strict", "epoch", "locked", "appended"}]
      /\ DOMAIN work = Threads
  BY DEF DatabaseInv, DatabaseShape
<1>3. w.kind = "epoch" /\ w.intents = Stamped(intents)
  OBVIOUS
<1> HIDE DEF w
<1>4. EpochBuilt(w, current)
  BY <1>3, StampedFacts DEF EpochBuilt
<1>5. WorkGood("epoch", w, current)
  BY <1>4 DEF WorkGood
<1>6. /\ pc'[t] = "epoch" /\ work'[t] = w /\ DOMAIN work' = Threads
      /\ pc' \in [Threads -> {"idle", "strict", "epoch", "locked", "appended"}]
      /\ \A u \in Threads \ {t} : pc'[u] = pc[u] /\ work'[u] = work[u]
  BY <1>1, <1>2
<1> QED BY <1>1, <1>5, <1>6, Working

LEMMA TakeCommitLockKeeps ==
    ASSUME DatabaseInv, NEW t \in Threads, TakeCommitLock(t)
    PROVE  DatabaseInv'
<1>1. pc[t] \in {"strict", "epoch"} /\ commitLock = Free /\ commitLock' = t
      /\ pc' = [pc EXCEPT ![t] = "locked"]
      /\ UNCHANGED <<current, store, work, planned, answered>>
  BY DEF TakeCommitLock
<1>2. pc \in [Threads -> {"idle", "strict", "epoch", "locked", "appended"}]
  BY DEF DatabaseInv, DatabaseShape
<1>3. Free \notin Threads
  BY DatabaseAssumption DEF Free, Threads
<1>4. \A u \in Threads : pc[u] \notin {"locked", "appended"}
  BY <1>1, <1>3 DEF DatabaseInv, LockHeld
<1>5. pc'[t] = "locked" /\ \A u \in Threads \ {t} : pc'[u] = pc[u]
  BY <1>1, <1>2
<1>6. DatabaseShape'
  BY <1>1 DEF DatabaseInv, DatabaseShape
<1>7. LockHeld'
  BY <1>1, <1>4, <1>5 DEF LockHeld
<1>8. WorksGood'
  <2>1. WorkGood("locked", work[t], current)
    BY <1>1 DEF DatabaseInv, WorksGood, WorkGood
  <2> QED BY <1>1, <1>5, <2>1 DEF DatabaseInv, WorksGood
<1>9. HeadGood'
  <2>1. (\A u \in Threads : pc'[u] # "appended") /\ (\A u \in Threads : pc[u] # "appended")
    BY <1>4, <1>5
  <2> QED BY <1>1, <2>1 DEF DatabaseInv, HeadGood
<1>10. AnswersGood'
  BY <1>1 DEF DatabaseInv, AnswersGood
<1> QED BY <1>6, <1>7, <1>8, <1>9, <1>10 DEF DatabaseInv

\* Only the thread that holds the lock is inside a commit.
LEMMA Alone ==
    ASSUME DatabaseInv, NEW t \in Threads, pc[t] \in {"locked", "appended"}
    PROVE  \A u \in Threads \ {t} : pc[u] \notin {"locked", "appended"}
BY DEF DatabaseInv, LockHeld

LEMMA FinishedFacts ==
    ASSUME DatabaseInv, NEW t \in Threads, pc[t] \in {"locked", "appended"}, Finished(t)
    PROVE  /\ pc' \in [Threads -> {"idle", "strict", "epoch", "locked", "appended"}]
           /\ DOMAIN work' = Threads /\ DOMAIN planned' = Threads
           /\ pc'[t] = "idle"
           /\ \A u \in Threads \ {t} : pc'[u] = pc[u] /\ work'[u] = work[u]
           /\ \A u \in Threads : pc'[u] \notin {"locked", "appended"}
<1>1. pc \in [Threads -> {"idle", "strict", "epoch", "locked", "appended"}]
      /\ DOMAIN work = Threads /\ DOMAIN planned = Threads
  BY DEF DatabaseInv, DatabaseShape
<1>2. pc' = [pc EXCEPT ![t] = "idle"] /\ work' = [work EXCEPT ![t] = NoWork]
      /\ planned' = [planned EXCEPT ![t] = NoPlan]
  BY DEF Finished
<1>3. \A u \in Threads \ {t} : pc[u] \notin {"locked", "appended"}
  BY Alone
<1>4. pc'[t] = "idle" /\ \A u \in Threads \ {t} : pc'[u] = pc[u] /\ work'[u] = work[u]
  BY <1>1, <1>2
<1>5. DOMAIN work' = Threads /\ DOMAIN planned' = Threads
      /\ pc' \in [Threads -> {"idle", "strict", "epoch", "locked", "appended"}]
  BY <1>1, <1>2
<1> QED BY <1>3, <1>4, <1>5

\* A commit that ends with the store and the head as they were.
LEMMA EndingKeeps ==
    ASSUME DatabaseInv, NEW t \in Threads, pc[t] = "locked", Finished(t),
           UNCHANGED <<current, store, answered>>
    PROVE  DatabaseInv'
<1>1. /\ pc' \in [Threads -> {"idle", "strict", "epoch", "locked", "appended"}]
      /\ DOMAIN work' = Threads /\ DOMAIN planned' = Threads /\ pc'[t] = "idle"
      /\ \A u \in Threads \ {t} : pc'[u] = pc[u] /\ work'[u] = work[u]
      /\ \A u \in Threads : pc'[u] \notin {"locked", "appended"}
  BY FinishedFacts
<1>2. \A u \in Threads : pc[u] # "appended"
  BY Alone
<1>3. DatabaseShape'
  BY <1>1 DEF DatabaseInv, DatabaseShape
<1>4. LockHeld'
  BY <1>1 DEF LockHeld
<1>5. WorksGood'
  BY <1>1 DEF DatabaseInv, WorksGood, WorkGood
<1>6. HeadGood'
  BY <1>1, <1>2 DEF DatabaseInv, HeadGood
<1>7. AnswersGood'
  BY DEF DatabaseInv, AnswersGood
<1> QED BY <1>3, <1>4, <1>5, <1>6, <1>7 DEF DatabaseInv

LEMMA AppendFramesKeeps ==
    ASSUME DatabaseInv, NEW t \in Threads, AppendFrames(t)
    PROVE  DatabaseInv'
<1>1. PICK p \in Plans(t) : /\ p.frames # <<>> /\ store' = store \o p.frames
                            /\ planned' = [planned EXCEPT ![t] = p]
  BY DEF AppendFrames
<1>2. pc[t] = "locked" /\ pc' = [pc EXCEPT ![t] = "appended"]
      /\ UNCHANGED <<current, commitLock, work, answered>>
  BY DEF AppendFrames
<1>3. GoodPlan(current, p) /\ AnswersFollow(work[t], p.outcomes)
  BY <1>2, PlansGood
<1>4. /\ pc \in [Threads -> {"idle", "strict", "epoch", "locked", "appended"}]
      /\ DOMAIN planned = Threads /\ IsSeq(store)
  BY DEF DatabaseInv, DatabaseShape
<1>5. /\ pc'[t] = "appended" /\ planned'[t] = p /\ DOMAIN planned' = Threads
      /\ pc' \in [Threads -> {"idle", "strict", "epoch", "locked", "appended"}]
      /\ \A u \in Threads \ {t} : pc'[u] = pc[u]
  BY <1>1, <1>2, <1>4
<1>6. \A u \in Threads \ {t} : pc[u] \notin {"locked", "appended"}
  BY <1>2, Alone
<1>7. IsSeq(p.frames) /\ ReplayFrom(current, p.frames) = [ok |-> TRUE, world |-> p.tail]
  BY <1>3 DEF GoodPlan, FramesGood
<1>8. Reconstruct(store) = [ok |-> TRUE, world |-> current]
  BY <1>2, <1>6 DEF DatabaseInv, HeadGood
<1>9. Reconstruct(store') = [ok |-> TRUE, world |-> p.tail] /\ IsSeq(store')
  BY <1>1, <1>4, <1>7, <1>8, ReplayMore, SeqConcat
<1>10. DatabaseShape'
  BY <1>2, <1>5, <1>9 DEF DatabaseInv, DatabaseShape
<1>11. LockHeld'
  BY <1>2, <1>5, <1>6 DEF DatabaseInv, LockHeld
<1>12. WorksGood'
  <2>1. WorkGood("appended", work[t], current)
    BY <1>2 DEF DatabaseInv, WorksGood, WorkGood
  <2> QED BY <1>2, <1>5, <2>1 DEF DatabaseInv, WorksGood
<1>13. HeadGood'
  <2>1. \A u \in Threads : pc'[u] = "appended" => u = t
    BY <1>5, <1>6
  <2> QED BY <1>1, <1>2, <1>3, <1>5, <1>9, <2>1 DEF HeadGood
<1>14. AnswersGood'
  BY <1>2 DEF DatabaseInv, AnswersGood
<1> QED BY <1>10, <1>11, <1>12, <1>13, <1>14 DEF DatabaseInv

\* The answers of a commit, by position.
AnswerAt(w, outcomes, i) ==
    [world |-> outcomes[i].world, entities |-> Range(outcomes[i].entities), position |-> i,
     insisted |-> InsistedBy(w, i)]

LEMMA NewAnswers ==
    ASSUME NEW t \in Threads, NEW head, IsWorld(head), GoodPlan(head, planned[t]),
           AnswersFollow(work[t], planned[t].outcomes)
    PROVE  /\ \A a \in Answers(t) : AnswerGood(a, planned[t].tail) /\ Len(head.id) < Len(a.world)
           /\ \A a \in Answers(t) : a.entities \subseteq head.next..(planned[t].tail.next - 1)
           /\ OwnEntities(Answers(t))
<1> DEFINE w == work[t]
           outs == planned[t].outcomes
           tail == planned[t].tail
           At(i) == AnswerAt(w, outs, i)
<1>1. IsSeq(outs) /\ DOMAIN outs = 1..Len(outs)
  BY SeqShape DEF GoodPlan
<1>2. Answers(t) = {At(i) : i \in {j \in 1..Len(outs) : outs[j].accepted}}
  BY <1>1 DEF Answers, AnswerAt, InsistedBy
<1>3. EntitiesGood(head.next, tail.next, outs) /\ WorldsGood(head, tail, outs)
      /\ LeadsTo(head, tail) /\ AnswersFollow(w, outs)
  BY DEF GoodPlan, FramesGood
<1>4. head.next \in Nat /\ tail.next \in Nat
  BY <1>3 DEF LeadsTo, IsWorld
<1> HIDE DEF w, outs, tail
<1>5. \A i : /\ At(i).world = outs[i].world /\ At(i).entities = Range(outs[i].entities)
             /\ At(i).insisted = InsistedBy(w, i)
  BY DEF AnswerAt
<1> HIDE DEF At
<1>6. ASSUME NEW i \in 1..Len(outs), outs[i].accepted
      PROVE  /\ AnswerGood(At(i), tail) /\ Len(head.id) < Len(At(i).world)
             /\ At(i).entities \subseteq head.next..(tail.next - 1)
  <2>1. At(i).entities \subseteq head.next..(tail.next - 1)
    BY <1>3, <1>5, <1>6 DEF EntitiesGood
  <2>2. head.next..(tail.next - 1) \subseteq 0..(tail.next - 1)
    BY <1>4
  <2>3. /\ IsSeq(At(i).world) /\ IsPrefix(At(i).world, tail.id)
        /\ Len(head.id) < Len(At(i).world)
    BY <1>3, <1>5, <1>6 DEF WorldsGood
  <2>4. \A id \in At(i).insisted : Front(At(i).world) = id
    BY <1>3, <1>5, <1>6 DEF AnswersFollow
  <2>5. At(i).entities \subseteq 0..(tail.next - 1)
    BY <2>1, <2>2
  <2> QED BY <2>1, <2>3, <2>4, <2>5 DEF AnswerGood
<1>7. \A i, j \in 1..Len(outs) : outs[i].accepted /\ outs[j].accepted /\ At(i) # At(j) =>
         At(i).entities \cap At(j).entities = {}
  BY <1>3, <1>5 DEF EntitiesGood
<1>8. \A a \in Answers(t) : \E i \in 1..Len(outs) : outs[i].accepted /\ a = At(i)
  BY <1>2
<1>9. \A a \in Answers(t) : /\ AnswerGood(a, tail) /\ Len(head.id) < Len(a.world)
                              /\ a.entities \subseteq head.next..(tail.next - 1)
  BY <1>6, <1>8
<1>10. OwnEntities(Answers(t))
  BY <1>7, <1>8 DEF OwnEntities
<1> QED BY <1>9, <1>10 DEF tail

LEMMA MoreAnswers ==
    ASSUME NEW old, NEW new, NEW n \in Nat, NEW m \in Nat, OwnEntities(old), OwnEntities(new),
           \A a \in old : a.entities \subseteq 0..(n - 1),
           \A a \in new : a.entities \subseteq n..(m - 1)
    PROVE  OwnEntities(old \cup new)
<1>1. (0..(n - 1)) \cap (n..(m - 1)) = {}
  OBVIOUS
<1>2. \A a \in old, b \in new : a.entities \cap b.entities = {}
  BY <1>1
<1> QED BY <1>2 DEF OwnEntities

LEMMA PublishKeeps ==
    ASSUME DatabaseInv, NEW t \in Threads, Publish(t)
    PROVE  DatabaseInv'
<1> DEFINE tail == planned[t].tail
<1>1. pc[t] = "appended" /\ current' = tail /\ answered' = answered \cup Answers(t)
      /\ Finished(t) /\ UNCHANGED <<store>>
  BY DEF Publish
<1>2. /\ pc' \in [Threads -> {"idle", "strict", "epoch", "locked", "appended"}]
      /\ DOMAIN work' = Threads /\ DOMAIN planned' = Threads /\ pc'[t] = "idle"
      /\ \A u \in Threads \ {t} : pc'[u] = pc[u] /\ work'[u] = work[u]
      /\ \A u \in Threads : pc'[u] \notin {"locked", "appended"}
  BY <1>1, FinishedFacts
<1>3. IsWorld(current) /\ IsSeq(store)
  BY DEF DatabaseInv, DatabaseShape
<1>4. /\ Reconstruct(store) = [ok |-> TRUE, world |-> tail]
      /\ GoodPlan(current, planned[t]) /\ planned[t].frames # <<>>
      /\ AnswersFollow(work[t], planned[t].outcomes)
  BY <1>1 DEF DatabaseInv, HeadGood
<1>5. LeadsTo(current, tail) /\ Len(current.id) < Len(tail.id) /\ IsWorld(tail)
  BY <1>4 DEF GoodPlan, FramesGood, LeadsTo
<1>6. /\ \A a \in Answers(t) : AnswerGood(a, tail)
      /\ \A a \in Answers(t) : a.entities \subseteq current.next..(tail.next - 1)
      /\ OwnEntities(Answers(t))
  BY <1>3, <1>4, NewAnswers
<1> HIDE DEF tail
<1>7. DatabaseShape'
  BY <1>1, <1>2, <1>3, <1>5 DEF DatabaseShape
<1>8. LockHeld'
  BY <1>2 DEF LockHeld
<1>9. WorksGood'
  <2> SUFFICES ASSUME NEW u \in Threads  PROVE WorkGood(pc'[u], work'[u], tail)
    BY <1>1 DEF WorksGood
  <2>1. CASE u = t
    BY <1>2, <2>1 DEF WorkGood
  <2>2. CASE u # t
    <3>1. WorkGood(pc[u], work[u], current)
      BY DEF DatabaseInv, WorksGood
    <3>2. WorkGood(pc[u], work[u], tail)
      BY <1>3, <1>5, <3>1, WorkKept
    <3> QED BY <1>2, <2>2, <3>2
  <2> QED BY <2>1, <2>2
<1>10. HeadGood'
  BY <1>1, <1>2, <1>4 DEF HeadGood
<1>11. AnswersGood'
  <2>1. \A a \in answered : AnswerGood(a, current) /\ AnswerGood(a, tail)
    BY <1>3, <1>5, AnswerKept DEF DatabaseInv, AnswersGood
  <2>2. \A a \in answered : a.entities \subseteq 0..(current.next - 1)
    BY <2>1 DEF AnswerGood
  <2>3. current.next \in Nat /\ tail.next \in Nat /\ OwnEntities(answered)
    BY <1>3, <1>5 DEF IsWorld, DatabaseInv, AnswersGood
  <2>4. OwnEntities(answered \cup Answers(t))
    BY <1>6, <2>2, <2>3, MoreAnswers
  <2> QED BY <1>1, <1>6, <2>1, <2>4 DEF AnswersGood
<1> QED BY <1>7, <1>8, <1>9, <1>10, <1>11 DEF DatabaseInv

\* What a restart finds behind the frames it knew is a first part of a plan.
LEMMA RestartAppends ==
    ASSUME DatabaseInv, Restart
    PROVE  \E torn : IsSeq(torn) /\ store' = store \o torn
<1> DEFINE Torn(t) == UNION {{SubSeq(p.frames, 1, n) : n \in 0..Len(p.frames)} : p \in Plans(t)}
           Busy == {u \in Threads : pc[u] = "locked"}
<1>1. PICK torn \in {<<>>} \cup UNION {Torn(t) : t \in Busy} : store' = store \o torn
  BY DEF Restart
<1>2. CASE torn = <<>>
  BY <1>1, <1>2, SeqEmpty
<1>3. CASE torn # <<>>
  <2>1. PICK t \in Busy : torn \in Torn(t)
    BY <1>3
  <2>2. PICK p \in Plans(t) : torn \in {SubSeq(p.frames, 1, n) : n \in 0..Len(p.frames)}
    BY <2>1
  <2>3. PICK n \in 0..Len(p.frames) : torn = SubSeq(p.frames, 1, n)
    BY <2>2
  <2>4. FramesGood(current, p.frames, p.tail)
    BY PlansGood DEF Busy, GoodPlan
  <2>5. IsSeq(torn)
    BY <2>3, <2>4, SeqFirst DEF FramesGood
  <2> QED BY <1>1, <2>5
<1> QED BY <1>2, <1>3

\* Whatever was appended when the process stopped, the frames replay to a
\* descendant of the head.
LEMMA RestartReplays ==
    ASSUME DatabaseInv, Restart
    PROVE  \E w : LeadsTo(current, w) /\ IsSeq(store') /\
                  Reconstruct(store') = [ok |-> TRUE, world |-> w]
<1> DEFINE Torn(t) == UNION {{SubSeq(p.frames, 1, n) : n \in 0..Len(p.frames)} : p \in Plans(t)}
           Busy == {u \in Threads : pc[u] = "locked"}
<1>1. PICK torn \in {<<>>} \cup UNION {Torn(t) : t \in Busy} : store' = store \o torn
  BY DEF Restart
<1>2. IsWorld(current) /\ IsSeq(store)
  BY DEF DatabaseInv, DatabaseShape
<1>3. CASE torn = <<>>
  <2>1. store' = store
    <3>1. store \in Seq(Range(store))
      BY <1>2 DEF IsSeq
    <3> QED BY <1>1, <1>3, <3>1
  <2>2. CASE \A t \in Threads : pc[t] # "appended"
    <3>1. Reconstruct(store) = [ok |-> TRUE, world |-> current]
      BY <2>2 DEF DatabaseInv, HeadGood
    <3> QED BY <1>2, <2>1, <3>1, LeadsRefl
  <2>3. CASE ~(\A t \in Threads : pc[t] # "appended")
    <3>1. PICK t \in Threads : pc[t] = "appended"
      BY <2>3
    <3>2. /\ Reconstruct(store) = [ok |-> TRUE, world |-> planned[t].tail]
          /\ LeadsTo(current, planned[t].tail)
      BY <3>1 DEF DatabaseInv, HeadGood, GoodPlan, FramesGood
    <3> QED BY <1>2, <2>1, <3>2
  <2> QED BY <2>2, <2>3
<1>4. CASE torn # <<>>
  <2>1. PICK t \in Busy : torn \in Torn(t)
    BY <1>4
  <2>2. PICK p \in Plans(t) : torn \in {SubSeq(p.frames, 1, n) : n \in 0..Len(p.frames)}
    BY <2>1
  <2>3. PICK n \in 0..Len(p.frames) : torn = SubSeq(p.frames, 1, n)
    BY <2>2
  <2>4. t \in Threads /\ pc[t] = "locked"
    BY DEF Busy
  <2>5. FramesGood(current, p.frames, p.tail)
    BY <2>4, PlansGood DEF GoodPlan
  <2>6. PICK w : LeadsTo(current, w) /\
                 ReplayFrom(current, SubSeq(p.frames, 1, n)) = [ok |-> TRUE, world |-> w]
    BY <2>5 DEF FramesGood
  <2>7. IsSeq(torn)
    BY <2>3, <2>5, SeqFirst DEF FramesGood
  <2>8. \A u \in Threads : pc[u] # "appended"
    BY <2>4, Alone
  <2>9. Reconstruct(store) = [ok |-> TRUE, world |-> current]
    BY <2>8 DEF DatabaseInv, HeadGood
  <2>10. Reconstruct(store') = [ok |-> TRUE, world |-> w] /\ IsSeq(store')
    BY <1>1, <1>2, <2>3, <2>6, <2>7, <2>9, ReplayMore, SeqConcat
  <2> QED BY <2>6, <2>10
<1> QED BY <1>3, <1>4

LEMMA RestartKeeps ==
    ASSUME DatabaseInv, Restart
    PROVE  DatabaseInv'
<1>1. PICK w : LeadsTo(current, w) /\ IsSeq(store') /\
               Reconstruct(store') = [ok |-> TRUE, world |-> w]
  BY RestartReplays
<1>2. /\ current' = Reconstruct(store').world /\ pc' = [t \in Threads |-> "idle"]
      /\ work' = [t \in Threads |-> NoWork] /\ planned' = [t \in Threads |-> NoPlan]
      /\ answered' = answered
  BY DEF Restart
<1>3. current' = w /\ IsWorld(w) /\ IsWorld(current)
  BY <1>1, <1>2 DEF LeadsTo, DatabaseInv, DatabaseShape
<1>4. DatabaseShape'
  BY <1>1, <1>2, <1>3 DEF DatabaseShape
<1>5. LockHeld'
  BY <1>2 DEF LockHeld
<1>6. WorksGood'
  BY <1>2 DEF WorksGood, WorkGood
<1>7. HeadGood'
  BY <1>1, <1>2, <1>3 DEF HeadGood
<1>8. AnswersGood'
  <2>1. \A a \in answered : AnswerGood(a, w)
    BY <1>1, <1>3, AnswerKept DEF DatabaseInv, AnswersGood
  <2> QED BY <1>2, <1>3, <2>1 DEF DatabaseInv, AnswersGood
<1> QED BY <1>4, <1>5, <1>6, <1>7, <1>8 DEF DatabaseInv

\* The invariant is inductive: every reachable state of the database satisfies it.
THEOREM DatabaseInvariance == DatabaseSpec => []DatabaseInv
<1>1. DatabaseInit => DatabaseInv
  BY DatabaseStarts
<1>2. DatabaseInv /\ [DatabaseNext]_databaseVars => DatabaseInv'
  <2> SUFFICES ASSUME DatabaseInv, [DatabaseNext]_databaseVars  PROVE DatabaseInv'
    OBVIOUS
  <2>1. ASSUME NEW v \in Validators, RegisterValidator(v)  PROVE DatabaseInv'
    BY <2>1, NothingTouched DEF RegisterValidator
  <2>2. ASSUME NEW t \in Writers, Begin(t)  PROVE DatabaseInv'
    BY <2>2, BeginKeeps DEF Threads
  <2>3. ASSUME NEW t \in Writers, TxEntity(t)  PROVE DatabaseInv'
    BY <2>3, TransactionKeeps DEF Threads
  <2>4. ASSUME NEW t \in Writers, NEW s \in Slots, TxDefine(t, s) \/ TxForget(t, s)
        PROVE  DatabaseInv'
    BY <2>4, TransactionKeeps DEF Threads
  <2>5. ASSUME NEW t \in Committers, NEW intents \in Epochs, BuildEpoch(t, intents)
        PROVE  DatabaseInv'
    BY <2>5, BuildEpochKeeps DEF Threads
  <2>6. ASSUME NEW t \in Threads, TakeCommitLock(t)  PROVE DatabaseInv'
    BY <2>6, TakeCommitLockKeeps
  <2>7. ASSUME NEW t \in Threads, CommitRefused(t)  PROVE DatabaseInv'
    BY <2>7, EndingKeeps DEF CommitRefused
  <2>8. ASSUME NEW t \in Threads, AppendFrames(t)  PROVE DatabaseInv'
    BY <2>8, AppendFramesKeeps
  <2>9. ASSUME NEW t \in Threads, AppendFails(t)  PROVE DatabaseInv'
    BY <2>9, EndingKeeps DEF AppendFails
  <2>10. ASSUME NEW t \in Threads, Publish(t)  PROVE DatabaseInv'
    BY <2>10, PublishKeeps
  <2>11. CASE Restart
    BY <2>11, RestartKeeps
  <2>12. CASE UNCHANGED databaseVars
    BY <2>12, NothingTouched DEF databaseVars
  <2> QED BY <2>1, <2>2, <2>3, <2>4, <2>5, <2>6, <2>7, <2>8, <2>9, <2>10, <2>11, <2>12
          DEF DatabaseNext
<1> QED BY <1>1, <1>2, PTL DEF DatabaseSpec

\* A success is never taken back: whatever commits, failed appends and restarts
\* follow, the world a caller was told of is an ancestor of the head, and no
\* other success was given any of its entities.
THEOREM AnswersAreKept == DatabaseSpec => []AnswersHold
<1>1. DatabaseInv => AnswersHold
  BY DEF DatabaseInv, AnswersGood, AnswerGood, OwnEntities, AnswersHold
<1> QED BY <1>1, DatabaseInvariance, PTL

\* World::reconstruct never fails on the store, and gives the world readers
\* see unless a commit is between its append and its publication.
THEOREM ReplayGivesHead == DatabaseSpec => []ReplayMatchesCurrent
<1>1. DatabaseInv => ReplayMatchesCurrent
  <2> SUFFICES ASSUME DatabaseInv  PROVE ReplayMatchesCurrent
    OBVIOUS
  <2>1. IsWorld(current)
    BY DEF DatabaseInv, DatabaseShape
  <2>2. CASE \A t \in Threads : pc[t] # "appended"
    <3>1. Reconstruct(store) = [ok |-> TRUE, world |-> current]
      BY <2>2 DEF DatabaseInv, HeadGood
    <3>2. Reconstruct(store).ok /\ Reconstruct(store).world = current
      BY <3>1
    <3>3. IsPrefix(current.id, current.id)
      BY <2>1, PrefixRefl DEF IsWorld
    <3> QED BY <3>2, <3>3 DEF ReplayMatchesCurrent
  <2>3. CASE ~(\A t \in Threads : pc[t] # "appended")
    <3>1. PICK t \in Threads : pc[t] = "appended"
      BY <2>3
    <3>2. /\ Reconstruct(store) = [ok |-> TRUE, world |-> planned[t].tail]
          /\ LeadsTo(current, planned[t].tail)
      BY <3>1 DEF DatabaseInv, HeadGood, GoodPlan, FramesGood
    <3>3. Reconstruct(store).ok /\ Reconstruct(store).world = planned[t].tail
      BY <3>2
    <3> QED BY <2>3, <3>2, <3>3 DEF ReplayMatchesCurrent, LeadsTo
  <2> QED BY <2>2, <2>3
<1> QED BY <1>1, DatabaseInvariance, PTL

\* A success that insisted on a predecessor produced its direct successor: the
\* stale-transaction check and expect_world, with any number of writers.
THEOREM SuccessesFollow == DatabaseSpec => []SuccessFollowsInsistedWorld
<1>1. DatabaseInv => SuccessFollowsInsistedWorld
  BY DEF DatabaseInv, AnswersGood, AnswerGood, SuccessFollowsInsistedWorld
<1> QED BY <1>1, DatabaseInvariance, PTL

\* derive_epoch_world gives every intent the verdict and the entities that
\* derive_epoch gives it, and ends in the same state, for any epoch on any
\* reachable world.
THEOREM CollapsePreserves == DatabaseSpec => []CollapseAgrees
<1>1. DatabaseInv => CollapseAgrees
  <2> SUFFICES ASSUME DatabaseInv, NEW intents \in Epochs
               PROVE  SamePlan(DeriveEpoch(current, Stamped(intents), validators),
                               DeriveEpochWorld(current, Stamped(intents), validators))
    BY DEF CollapseAgrees
  <2>1. IsWorld(current)
    BY DEF DatabaseInv, DatabaseShape
  <2> QED BY <2>1, StampedFacts, PlansAgree
<1> QED BY <1>1, DatabaseInvariance, PTL

-----------------------------------------------------------------------------
(* Database implements WorldHistory.                                         *)

LEMMA SameOperators ==
    /\ \A x : History!Front(x) = Front(x)
    /\ \A x, y : History!IsPrefix(x, y) = IsPrefix(x, y)
BY DEF Front, History!Front, IsPrefix, History!IsPrefix

Recorded(frames) == [i \in DOMAIN frames |-> frames[i].resulting_world]

LEMMA RecordedFacts ==
    ASSUME NEW frames, IsSeq(frames)
    PROVE  /\ IsSeq(Recorded(frames)) /\ Len(Recorded(frames)) = Len(frames)
           /\ \A i \in 1..Len(frames) : Recorded(frames)[i] = frames[i].resulting_world
<1> DEFINE r == Recorded(frames)
<1>1. Len(frames) \in Nat /\ DOMAIN frames = 1..Len(frames)
  BY SeqShape
<1>2. r = [i \in 1..Len(frames) |-> frames[i].resulting_world]
  BY <1>1 DEF Recorded
<1> HIDE DEF r
<1>3. r = [i \in 1..Len(frames) |-> r[i]]
  BY <1>2
<1>4. IsSeq(r) /\ Len(r) = Len(frames)
  BY <1>1, <1>3, SeqMade
<1> QED BY <1>2, <1>4 DEF r

\* A frame that replays extends the identifier by one entry.
LEMMA ReplayExtends ==
    ASSUME NEW acc, NEW frame, Replay(acc, frame).ok
    PROVE  /\ acc.ok /\ Replay(acc, frame).world.id = frame.resulting_world
           /\ frame.resulting_world =
                Append(acc.world.id, <<frame.resulting_version, frame.resulting_allocator,
                                       frame.operations>>)
BY DEF Replay, WorldId

LEMMA FirstOfAppend ==
    ASSUME NEW x, IsSeq(x), NEW e, NEW j \in 0..Len(x)
    PROVE  SubSeq(Append(x, e), 1, j) = SubSeq(x, 1, j)
<1> DEFINE z == Append(x, e)
           a == SubSeq(z, 1, j)
           b == SubSeq(x, 1, j)
<1>1. /\ IsSeq(z) /\ Len(z) = Len(x) + 1 /\ (\A i \in 1..Len(x) : z[i] = x[i])
      /\ Len(x) \in Nat
  BY SeqAppend, SeqShape
<1> HIDE DEF z
<1>2. j \in 0..Len(z)
  BY <1>1
<1>3. IsSeq(a) /\ Len(a) = j /\ \A i \in 1..j : a[i] = z[i]
  BY <1>1, <1>2, SeqFirst
<1>4. IsSeq(b) /\ Len(b) = j /\ \A i \in 1..j : b[i] = x[i]
  BY SeqFirst
<1> HIDE DEF a, b
<1>5. \A i \in 1..Len(a) : a[i] = b[i]
  BY <1>1, <1>3, <1>4
<1>6. a = b
  BY <1>3, <1>4, <1>5, SameSeq
<1> QED BY <1>6 DEF a, b, z

\* The identifier of a replayed world spells out the worlds before it.
SpelledOut(frames, k, id) ==
    IsSeq(id) /\ Len(id) = k /\ \A j \in 1..k : frames[j].resulting_world = SubSeq(id, 1, j)

LEMMA OneMoreSpelled ==
    ASSUME NEW frames, NEW i \in Nat \ {0}, NEW id, SpelledOut(frames, i - 1, id), NEW e,
           frames[i].resulting_world = Append(id, e)
    PROVE  SpelledOut(frames, i, Append(id, e))
<1> DEFINE z == Append(id, e)
<1>1. IsSeq(id) /\ Len(id) = i - 1
  BY DEF SpelledOut
<1>2. IsSeq(z) /\ Len(z) = i
  BY <1>1, SeqAppend
<1>3. ASSUME NEW j \in 1..i  PROVE frames[j].resulting_world = SubSeq(z, 1, j)
  <2>1. CASE j = i
    BY <1>2, <2>1, SeqWhole
  <2>2. CASE j # i
    <3>1. j \in 1..(i - 1) /\ j \in 0..Len(id)
      BY <1>1, <2>2
    <3>2. SubSeq(z, 1, j) = SubSeq(id, 1, j)
      BY <1>1, <3>1, FirstOfAppend
    <3> QED BY <3>1, <3>2 DEF SpelledOut
  <2> QED BY <2>1, <2>2
<1> QED BY <1>2, <1>3 DEF SpelledOut

LEMMA ReplaySpells ==
    ASSUME NEW frames, IsSeq(frames), NEW w, Reconstruct(frames) = [ok |-> TRUE, world |-> w]
    PROVE  SpelledOut(frames, Len(frames), w.id)
<1> DEFINE n == Len(frames)
           start == [ok |-> TRUE, world |-> Genesis]
<1>1. n \in Nat /\ DOMAIN frames = 1..n
  BY SeqShape
<1>2. PICK g : ReplayedSteps(start, frames, n, g) /\ Replayed(start, frames) = g[n]
  <2> HIDE DEF n, start
  <2> QED BY <1>1, ReplayedRecursion
<1>3. g[0] = start /\ \A i \in 1..n : g[i] = Replay(g[i - 1], frames[i])
  BY <1>2 DEF ReplayedSteps
<1>4. g[n] = [ok |-> TRUE, world |-> w]
  BY <1>2 DEF Reconstruct, Replayed
<1>5. start.world.id = <<>>
  BY DEF Genesis
<1> DEFINE T == {i \in 0..n : g[i].ok => SpelledOut(frames, i, g[i].world.id)}
<1> HIDE DEF n, start
<1>6. 0 \in T
  <2>1. SpelledOut(frames, 0, <<>>)
    BY SeqEmpty DEF SpelledOut
  <2> QED BY <1>1, <1>3, <1>5, <2>1
<1>7. ASSUME NEW i \in 1..n, i - 1 \in T  PROVE i \in T
  <2> SUFFICES ASSUME g[i].ok  PROVE SpelledOut(frames, i, g[i].world.id)
    BY <1>1, <1>7
  <2> DEFINE a == g[i - 1]
             f == frames[i]
             e == <<f.resulting_version, f.resulting_allocator, f.operations>>
  <2>1. g[i] = Replay(a, f)
    BY <1>3
  <2> HIDE DEF a, f
  <2>2. a.ok /\ g[i].world.id = f.resulting_world /\ f.resulting_world = Append(a.world.id, e)
    BY <2>1, ReplayExtends
  <2>3. SpelledOut(frames, i - 1, a.world.id)
    BY <1>7, <2>2 DEF a
  <2> HIDE DEF e
  <2>4. SpelledOut(frames, i, Append(a.world.id, e))
    BY <1>1, <2>2, <2>3, OneMoreSpelled DEF f
  <2> QED BY <2>2, <2>4
<1> HIDE DEF T
<1>8. \A i \in 0..n : i \in T
  BY <1>1, <1>6, <1>7, Counting
<1>9. n \in T
  BY <1>1, <1>8
<1> QED BY <1>4, <1>9 DEF T, n

\* Frames that replay are a linear history of as many worlds as the last one's version.
LEMMA HistoryIsLinear ==
    ASSUME NEW frames, IsSeq(frames), NEW w, Reconstruct(frames) = [ok |-> TRUE, world |-> w]
    PROVE  /\ History!Linear(Recorded(frames)) /\ Len(Recorded(frames)) = Len(w.id)
           /\ IsSeq(w.id) /\ Len(w.id) \in Nat
           /\ \A i \in 1..Len(w.id) : Recorded(frames)[i] = SubSeq(w.id, 1, i)
<1> DEFINE n == Len(frames)
           r == Recorded(frames)
<1>1. IsSeq(w.id) /\ Len(w.id) = n /\ \A j \in 1..n : frames[j].resulting_world = SubSeq(w.id, 1, j)
  BY ReplaySpells DEF SpelledOut
<1>2. n \in Nat /\ IsSeq(r) /\ Len(r) = n /\ \A i \in 1..n : r[i] = frames[i].resulting_world
  BY RecordedFacts, SeqShape
<1> HIDE DEF n, r
<1>3. \A i \in 1..n : r[i] = SubSeq(w.id, 1, i)
  BY <1>1, <1>2
<1>4. ASSUME NEW i \in 1..n
      PROVE  r[i] # <<>> /\ Front(r[i]) = IF i = 1 THEN <<>> ELSE r[i - 1]
  <2> DEFINE x == r[i]
             y == SubSeq(x, 1, i - 1)
             z == SubSeq(w.id, 1, i - 1)
  <2>1. i \in 0..Len(w.id) /\ i - 1 \in 0..Len(w.id)
    BY <1>1, <1>2
  <2>2. IsSeq(x) /\ Len(x) = i /\ \A j \in 1..i : x[j] = w.id[j]
    BY <1>1, <1>3, <2>1, SeqFirst
  <2>3. IsSeq(z) /\ Len(z) = i - 1 /\ \A j \in 1..(i - 1) : z[j] = w.id[j]
    BY <1>1, <2>1, SeqFirst
  <2> HIDE DEF x, z
  <2>4. i - 1 \in 0..Len(x)
    BY <2>2
  <2>5. IsSeq(y) /\ Len(y) = i - 1 /\ \A j \in 1..(i - 1) : y[j] = x[j]
    BY <2>2, <2>4, SeqFirst
  <2>6. Front(x) = y
    BY <2>2 DEF Front
  <2> HIDE DEF y
  <2>7. \A j \in 1..Len(y) : y[j] = z[j]
    BY <2>2, <2>3, <2>5
  <2>8. y = z
    BY <2>3, <2>5, <2>7, SameSeq
  <2>9. x # <<>>
    BY <2>2, SeqEmpty
  <2>10. CASE i = 1
    <3>1. SubSeq(w.id, 1, 0) = <<>> /\ i - 1 = 0
      <4>1. SubSeq(w.id, 1, 0) = <<>>
        BY <1>1, SeqWhole
      <4> QED BY <2>10, <4>1
    <3>2. z = <<>>
      <4>1. z = SubSeq(w.id, 1, i - 1)
        BY DEF z
      <4> HIDE DEF z
      <4> QED BY <3>1, <4>1
    <3>3. Front(x) = <<>>
      BY <2>6, <2>8, <3>2
    <3> QED BY <2>9, <2>10, <3>3 DEF x
  <2>11. CASE i # 1
    <3>1. i - 1 \in 1..n
      BY <1>2, <2>11
    <3>2. r[i - 1] = z
      BY <1>3, <3>1 DEF z
    <3>3. Front(x) = r[i - 1]
      BY <2>6, <2>8, <3>2
    <3> QED BY <2>9, <2>11, <3>3 DEF x
  <2> QED BY <2>10, <2>11
<1>5. History!Linear(r)
  <2>1. \A i \in 1..Len(r) : r[i] # <<>> /\ Front(r[i]) = IF i = 1 THEN <<>> ELSE r[i - 1]
    BY <1>2, <1>4
  <2> QED BY <2>1, SameOperators DEF History!Linear
<1> QED BY <1>1, <1>2, <1>3, <1>5 DEF r

LEMMA HistoryGrows ==
    ASSUME NEW old, IsSeq(old), NEW more, IsSeq(more)
    PROVE  IsPrefix(Recorded(old), Recorded(old \o more))
<1> DEFINE z == old \o more
<1>1. /\ IsSeq(z) /\ Len(z) = Len(old) + Len(more) /\ \A i \in 1..Len(old) : z[i] = old[i]
  BY SeqConcat
<1>2. Len(old) \in Nat /\ Len(more) \in Nat
  BY SeqShape
<1> HIDE DEF z
<1> DEFINE a == Recorded(old)
           b == Recorded(z)
<1>3. IsSeq(a) /\ Len(a) = Len(old) /\ \A i \in 1..Len(old) : a[i] = old[i].resulting_world
  BY RecordedFacts
<1>4. IsSeq(b) /\ Len(b) = Len(z) /\ \A i \in 1..Len(z) : b[i] = z[i].resulting_world
  BY <1>1, RecordedFacts
<1> HIDE DEF a, b
<1>5. Len(a) <= Len(b) /\ \A i \in 1..Len(a) : a[i] = b[i]
  BY <1>1, <1>2, <1>3, <1>4
<1>6. IsPrefix(a, b)
  BY <1>3, <1>4, <1>5, PrefixIs
<1> QED BY <1>6 DEF a, b, z

\* A prefix is a first part.
LEMMA PrefixIsFirst ==
    ASSUME NEW x, IsSeq(x), NEW y, IsSeq(y), IsPrefix(x, y)
    PROVE  Len(x) \in 0..Len(y) /\ x = SubSeq(y, 1, Len(x))
<1>1. Len(x) \in Nat /\ Len(y) \in Nat /\ Len(x) <= Len(y) /\ \A i \in 1..Len(x) : x[i] = y[i]
  BY PrefixIs, SeqShape
<1> DEFINE z == SubSeq(y, 1, Len(x))
<1>2. Len(x) \in 0..Len(y)
  BY <1>1
<1>3. IsSeq(z) /\ Len(z) = Len(x) /\ \A i \in 1..Len(x) : z[i] = y[i]
  BY <1>2, SeqFirst
<1> HIDE DEF z
<1>4. \A i \in 1..Len(x) : x[i] = z[i]
  BY <1>1, <1>3
<1>5. x = z
  BY <1>3, <1>4, SameSeq
<1> QED BY <1>2, <1>5 DEF z

\* Whatever is in the store replays.
LEMMA StoreReplays ==
    ASSUME DatabaseInv
    PROVE  \E w : Reconstruct(store) = [ok |-> TRUE, world |-> w]
<1>1. CASE \A t \in Threads : pc[t] # "appended"
  BY <1>1 DEF DatabaseInv, HeadGood
<1>2. CASE ~(\A t \in Threads : pc[t] # "appended")
  <2>1. PICK t \in Threads : pc[t] = "appended"
    BY <1>2
  <2> QED BY <2>1 DEF DatabaseInv, HeadGood
<1> QED BY <1>1, <1>2

\* A step that appends to the store.
LEMMA StoreGrows ==
    ASSUME DatabaseInv, NEW more, IsSeq(more), store' = store \o more,
           NEW w, Reconstruct(store') = [ok |-> TRUE, world |-> w]
    PROVE  History!Extend /\ Len(Recorded(store')) = Len(w.id)
<1>1. IsSeq(store) /\ IsSeq(store')
  BY SeqConcat DEF DatabaseInv, DatabaseShape
<1>2. IsPrefix(Recorded(store), Recorded(store'))
  BY <1>1, HistoryGrows
<1>3. History!Linear(Recorded(store')) /\ Len(Recorded(store')) = Len(w.id)
  BY <1>1, HistoryIsLinear
<1>4. History!IsPrefix(Recorded(store), Recorded(store'))
  BY <1>2, SameOperators
<1> QED BY <1>3, <1>4 DEF History!Extend, Recorded

LEMMA AppendRecords ==
    ASSUME DatabaseInv, NEW t \in Threads, AppendFrames(t)
    PROVE  History!Record
<1>1. DatabaseInv'
  BY AppendFramesKeeps
<1>2. PICK w : Reconstruct(store') = [ok |-> TRUE, world |-> w]
  <2>1. pc' = [pc EXCEPT ![t] = "appended"] /\ pc \in [Threads -> {"idle", "strict", "epoch", "locked", "appended"}]
    BY DEF AppendFrames, DatabaseInv, DatabaseShape
  <2>2. pc'[t] = "appended"
    BY <2>1
  <2> QED BY <1>1, <2>2 DEF DatabaseInv, HeadGood
<1>3. PICK p \in Plans(t) : store' = store \o p.frames
  BY DEF AppendFrames
<1>4. pc[t] = "locked" /\ UNCHANGED <<current, answered>>
  BY DEF AppendFrames
<1>5. IsSeq(p.frames)
  BY <1>4, PlansGood DEF GoodPlan, FramesGood
<1>6. History!Extend
  BY <1>2, <1>3, <1>5, StoreGrows
<1> QED BY <1>4, <1>6 DEF History!Record

LEMMA PublishReveals ==
    ASSUME DatabaseInv, NEW t \in Threads, Publish(t)
    PROVE  History!Reveal
<1> DEFINE tail == planned[t].tail
           r == Recorded(store)
<1>1. /\ pc[t] = "appended" /\ current' = tail /\ answered' = answered \cup Answers(t)
      /\ store' = store
  BY DEF Publish
<1>2. IsWorld(current) /\ IsSeq(store)
  BY DEF DatabaseInv, DatabaseShape
<1>3. /\ Reconstruct(store) = [ok |-> TRUE, world |-> tail]
      /\ GoodPlan(current, planned[t]) /\ planned[t].frames # <<>>
      /\ AnswersFollow(work[t], planned[t].outcomes)
  BY <1>1 DEF DatabaseInv, HeadGood
<1>4. Len(current.id) < Len(tail.id) /\ LeadsTo(current, tail)
  BY <1>3 DEF GoodPlan, FramesGood
<1>5. \A a \in Answers(t) : AnswerGood(a, tail) /\ Len(current.id) < Len(a.world)
  BY <1>2, <1>3, NewAnswers
<1>6. /\ Len(r) = Len(tail.id) /\ IsSeq(tail.id) /\ Len(tail.id) \in Nat
      /\ \A i \in 1..Len(tail.id) : r[i] = SubSeq(tail.id, 1, i)
  BY <1>2, <1>3, HistoryIsLinear
<1>7. Len(current.id) \in Nat
  BY <1>2, SeqShape DEF IsWorld
<1> HIDE DEF tail, r
<1>8. ASSUME NEW a \in Answers(t)
      PROVE  /\ a.world \in {r[i] : i \in (Len(current.id) + 1)..Len(tail.id)}
             /\ \A id \in a.insisted : Front(a.world) = id
  <2>1. /\ IsSeq(a.world) /\ IsPrefix(a.world, tail.id) /\ Len(current.id) < Len(a.world)
        /\ \A id \in a.insisted : Front(a.world) = id
    BY <1>5 DEF AnswerGood
  <2>2. Len(a.world) \in 0..Len(tail.id) /\ a.world = SubSeq(tail.id, 1, Len(a.world))
    BY <1>6, <2>1, PrefixIsFirst
  <2>3. Len(a.world) \in (Len(current.id) + 1)..Len(tail.id) /\ Len(a.world) \in 1..Len(tail.id)
    BY <1>6, <1>7, <2>1, <2>2
  <2>4. a.world = r[Len(a.world)]
    BY <1>6, <2>2, <2>3
  <2> QED BY <2>1, <2>3, <2>4
<1>9. OwnEntities(answered')
  <2>1. DatabaseInv'
    BY PublishKeeps
  <2> QED BY <2>1 DEF DatabaseInv, AnswersGood
<1>10. Version(current.id)' = Len(r) /\ Version(current.id) < Version(current.id)'
  BY <1>1, <1>4, <1>6 DEF Version
<1>11. ASSUME NEW a \in answered' \ answered
       PROVE  /\ a.world \in {r[i] : i \in (Version(current.id) + 1)..Version(current.id)'}
              /\ \A id \in a.insisted : History!Front(a.world) = id
              /\ \A b \in answered' \ {a} : a.entities \cap b.entities = {}
  <2>1. a \in Answers(t)
    BY <1>1
  <2>2. Version(current.id) = Len(current.id) /\ Version(current.id)' = Len(tail.id)
    BY <1>1 DEF Version
  <2>3. \A b \in answered' \ {a} : a.entities \cap b.entities = {}
    BY <1>9 DEF OwnEntities
  <2> QED BY <1>8, <2>1, <2>2, <2>3, SameOperators
<1>12. answered \subseteq answered' /\ UNCHANGED Recorded(store)
  BY <1>1
<1> QED BY <1>10, <1>11, <1>12 DEF History!Reveal, Recorded, r

LEMMA RestartRecovers ==
    ASSUME DatabaseInv, Restart
    PROVE  History!Recover
<1>1. PICK w : LeadsTo(current, w) /\ IsSeq(store') /\
               Reconstruct(store') = [ok |-> TRUE, world |-> w]
  BY RestartReplays
<1>2. PICK torn : IsSeq(torn) /\ store' = store \o torn
  BY RestartAppends
<1>3. History!Extend /\ Len(Recorded(store')) = Len(w.id)
  BY <1>1, <1>2, StoreGrows
<1>4. current' = w /\ answered' = answered
  BY <1>1 DEF Restart
<1> QED BY <1>3, <1>4 DEF History!Recover, Recorded, Version

\* The database implements the history of worlds it promises: planners, locks,
\* failed appends and restarts only ever extend one linear history, readers
\* move forward along it, and a success is told in the step that publishes it.
THEOREM RefinesWorldHistory == DatabaseSpec => ImplementsWorldHistory
<1>1. DatabaseInit => History!HistoryInit
  <2> SUFFICES ASSUME DatabaseInit  PROVE History!HistoryInit
    OBVIOUS
  <2>1. store = <<>> /\ current = Genesis /\ answered = {}
    BY DEF DatabaseInit
  <2>2. IsSeq(Recorded(store)) /\ Len(Recorded(store)) = 0
    BY <2>1, SeqEmpty, RecordedFacts
  <2>3. Recorded(store) = <<>>
    BY <2>2, SeqEmpty, SameSeq
  <2>4. Version(current.id) = 0
    BY <2>1, SeqEmpty DEF Version, Genesis
  <2> QED BY <2>1, <2>3, <2>4 DEF History!HistoryInit, Recorded
<1>2. DatabaseInv /\ [DatabaseNext]_databaseVars => [History!HistoryNext]_(History!historyVars)
  <2> SUFFICES ASSUME DatabaseInv, [DatabaseNext]_databaseVars
               PROVE  [History!HistoryNext]_(History!historyVars)
    OBVIOUS
  <2>1. ASSUME UNCHANGED <<store, current, answered>>
        PROVE  [History!HistoryNext]_(History!historyVars)
    BY <2>1 DEF History!historyVars
  <2>2. ASSUME NEW v \in Validators, RegisterValidator(v)  PROVE UNCHANGED <<store, current, answered>>
    BY <2>2 DEF RegisterValidator
  <2>3. ASSUME NEW t \in Writers, Begin(t)  PROVE UNCHANGED <<store, current, answered>>
    BY <2>3 DEF Begin
  <2>4. ASSUME NEW t \in Writers, TxEntity(t)  PROVE UNCHANGED <<store, current, answered>>
    BY <2>4 DEF TxEntity, Record
  <2>5. ASSUME NEW t \in Writers, NEW s \in Slots, TxDefine(t, s) \/ TxForget(t, s)
        PROVE  UNCHANGED <<store, current, answered>>
    BY <2>5 DEF TxDefine, TxForget, Record
  <2>6. ASSUME NEW t \in Committers, NEW intents \in Epochs, BuildEpoch(t, intents)
        PROVE  UNCHANGED <<store, current, answered>>
    BY <2>6 DEF BuildEpoch
  <2>7. ASSUME NEW t \in Threads, TakeCommitLock(t) \/ CommitRefused(t) \/ AppendFails(t)
        PROVE  UNCHANGED <<store, current, answered>>
    BY <2>7 DEF TakeCommitLock, CommitRefused, AppendFails
  <2>8. ASSUME NEW t \in Threads, AppendFrames(t)  PROVE History!HistoryNext
    BY <2>8, AppendRecords DEF History!HistoryNext
  <2>9. ASSUME NEW t \in Threads, Publish(t)  PROVE History!HistoryNext
    BY <2>9, PublishReveals DEF History!HistoryNext
  <2>10. CASE Restart
    BY <2>10, RestartRecovers DEF History!HistoryNext
  <2>11. CASE UNCHANGED databaseVars
    BY <2>1, <2>11 DEF databaseVars
  <2> QED BY <2>1, <2>2, <2>3, <2>4, <2>5, <2>6, <2>7, <2>8, <2>9, <2>10, <2>11 DEF DatabaseNext
<1> QED BY <1>1, <1>2, DatabaseInvariance, PTL
        DEF DatabaseSpec, ImplementsWorldHistory, History!HistorySpec
=============================================================================
