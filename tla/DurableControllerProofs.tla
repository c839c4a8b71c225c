----------------------- MODULE DurableControllerProofs ----------------------
(***************************************************************************)
(* TLAPS proofs about DurableController: truthful outcomes in admission    *)
(* order, flushes that wait, and no lost ticket but the late ones, for any *)
(* clients, flushers, capacity and batch width.                            *)
(***************************************************************************)
EXTENDS DurableController, FiniteSetTheorems, SequenceTheorems, TLAPS

Taking == {"take", "probe", "retake"}
Looking == {"collect", "refill"}
Committing == {"append", "publish", "route"}
Stopping == {"takesender", "drain", "exit", "drop", "done"}
\* Where the committer holds no batch.
Empty == {"recv", "check", "poison"} \cup Stopping

Outcomes == {"None", "Accepted", "Rejected", "DurabilityFailed",
             "ShutdownBeforeClaim", "WorkerFailed"}

Typed ==
    /\ state \in {"Running", "Draining", "Closed", "Poisoned"}
    /\ queue \in Seq(Clients \cup Flushers)
    /\ client \in [Clients -> {"ready", "checked", "ticket", "refused"}]
    /\ phase \in [Clients -> {"None", "Queued", "Claimed", "Resolved"}]
    /\ outcome \in [Clients -> Outcomes]
    /\ flush \in [Flushers -> {"ready", "sending", "waiting", "ok", "stopped"}]
    /\ worker \in Taking \cup Looking \cup Committing \cup Empty \cup {"derive"}
    /\ worker = "check" => command \in Clients \cup Flushers
    /\ pending \in Seq(Flushers)
    /\ batch \in Seq(Clients)
    /\ accepted \in SUBSET Clients
    /\ store \in {"Healthy", "Poisoned"}
    /\ durable \in Seq(Clients)
    /\ published \in Seq(Clients)
    /\ admitted \in Seq(Clients)
    /\ late \in SUBSET Clients
    /\ before \in [Flushers -> SUBSET Clients]

\* The intent at hand, waiting to be claimed or rejected.
Held(c) == worker = "check" /\ command = c

\* An admitted client is in the channel, at hand, or in the batch at most once,
\* and its phase says where.
QueuePlaced ==
    /\ \A c \in Clients : phase[c] # "None" <=> client[c] = "ticket"
    /\ \A c \in Clients : phase[c] # "None" <=> c \in Elems(admitted)
    /\ \A i, j \in 1..Len(queue) : queue[i] = queue[j] /\ queue[i] \in Clients => i = j
    /\ \A c \in Clients : c \in Elems(queue) => phase[c] = "Queued" /\ ~Held(c)
    /\ \A c \in Clients : Held(c) => phase[c] = "Queued"

BatchPlaced ==
    /\ \A i, j \in 1..Len(batch) : batch[i] = batch[j] => i = j
    /\ \A c \in Elems(batch) : phase[c] = "Claimed"
    /\ worker \in Empty => batch = <<>>
    /\ worker \in Committing => accepted \subseteq Elems(batch)

\* The channel took x before it took y.
Before(x, y) == \E m, n \in DOMAIN admitted : m < n /\ admitted[m] = x /\ admitted[n] = y
Left(c) == phase[c] \in {"Claimed", "Resolved"}

\* Clients leave the channel in the order they entered it ...
LineOrdered ==
    \A x, y \in Clients :
        /\ (Left(x) \/ Held(x)) /\ y \in Elems(queue) => Before(x, y)
        /\ Left(x) /\ Held(y) => Before(x, y)
        /\ \A i, j \in 1..Len(queue) : i < j /\ queue[i] = x /\ queue[j] = y => Before(x, y)

\* ... and reach the file in that order too.
FileOrdered ==
    /\ \A x, y \in Clients :
        /\ \A i, j \in 1..Len(batch) : i < j /\ batch[i] = x /\ batch[j] = y => Before(x, y)
        /\ \A i, j \in 1..Len(durable) : i < j /\ durable[i] = x /\ durable[j] = y =>
            Before(x, y)
        /\ worker \notin {"publish", "route"} /\ x \in Elems(durable) /\ y \in Elems(batch)
            => Before(x, y)
    /\ \A x \in Elems(durable) : Left(x)

Ahead(c) == phase[c] = "Resolved" \/ c \in Elems(batch)

\* Every intent ahead of a barrier is resolved, in the batch, at hand, or ahead
\* of it in the channel; while a barrier is at hand nothing else is in between.
Barriers ==
    /\ \A k \in 1..Len(queue) : queue[k] \in Flushers =>
        /\ flush[queue[k]] \notin {"ready", "sending"}
        /\ \A c \in before[queue[k]] :
            Ahead(c) \/ Held(c) \/ \E i \in 1..(k - 1) : queue[i] = c
    /\ \A f \in Elems(pending) :
        flush[f] \notin {"ready", "sending"} /\ \A c \in before[f] : Ahead(c)
    /\ \A f \in Flushers : Held(f) =>
        flush[f] \notin {"ready", "sending"} /\ \A c \in before[f] : phase[c] = "Resolved"

\* What the file, the reader head and the answered tickets say of each other.
Written ==
    /\ Len(published) <= Len(durable)
    /\ \A i \in 1..Len(published) : published[i] = durable[i]
    /\ store = "Healthy" /\ worker # "publish" => published = durable
    /\ worker = "publish" => store = "Healthy" /\ accepted \subseteq Elems(durable)
    /\ worker = "route" => accepted \subseteq Elems(published)
    /\ \A c \in Elems(batch) : c \in Elems(durable) =>
        worker \in {"publish", "route"} /\ c \in accepted
    /\ \A c \in Clients :
        /\ phase[c] # "Resolved" => outcome[c] = "None"
        /\ outcome[c] = "Accepted" => c \in Elems(published)
        /\ outcome[c] \in {"Rejected", "ShutdownBeforeClaim", "WorkerFailed"}
             => c \notin Elems(durable)
        /\ outcome[c] = "DurabilityFailed"
             => c \notin Elems(published) /\ (c \in Elems(durable) => store = "Poisoned")

\* Running never comes back; once the committer has stopped draining, whatever
\* is still in the channel came late.
Stopped ==
    /\ shut \in {"draining", "joining", "done"} => state # "Running"
    /\ shut = "read" /\ previous # "Running" => state # "Running"
    /\ ~sender => state # "Running"
    /\ worker \in Stopping => state # "Running"
    /\ worker \in {"exit", "drop", "done"} =>
        \A c \in Clients : c \in Elems(queue) => c \in late
    /\ worker = "done" => ~receiver

\* Every admitted ticket is answered or still to be found, but for the late ones
\* that were dropped with the channel.
Located ==
    \A c \in Clients : phase[c] # "None" =>
        Ahead(c) \/ Held(c) \/ c \in Elems(queue) \/ (worker = "done" /\ c \in late)

\* The inductive invariant.
IInv ==
    /\ Typed /\ QueuePlaced /\ BatchPlaced /\ LineOrdered /\ FileOrdered
    /\ Barriers /\ Written /\ Stopped /\ Located /\ FlushWaits

-----------------------------------------------------------------------------
(* Sequences.                                                                *)

LEMMA HeadTailFacts ==
    ASSUME NEW S, NEW q \in Seq(S), q # <<>>
    PROVE  /\ Len(q) \in Nat /\ Len(q) > 0
           /\ Head(q) = q[1] /\ q[1] \in S
           /\ Tail(q) \in Seq(S) /\ Len(Tail(q)) = Len(q) - 1
           /\ \A i \in 1..Len(Tail(q)) : i + 1 \in 1..Len(q) /\ Tail(q)[i] = q[i + 1]
<1>1. Len(q) \in Nat /\ Len(q) # 0
  BY EmptySeq, LenProperties
<1>2. 1 \in 1..Len(q)
  BY <1>1
<1>3. Head(q) = q[1] /\ q[1] \in S
  BY <1>2, ElementOfSeq, HeadTailProperties
<1> QED BY <1>1, <1>3, HeadTailProperties

LEMMA AppendFacts ==
    ASSUME NEW S, NEW q \in Seq(S), NEW x \in S
    PROVE  /\ Append(q, x) \in Seq(S) /\ Len(q) \in Nat
           /\ Len(Append(q, x)) = Len(q) + 1
           /\ \A i \in 1..Len(q) : Append(q, x)[i] = q[i]
           /\ Append(q, x)[Len(q) + 1] = x
           /\ Elems(Append(q, x)) = Elems(q) \cup {x}
<1>1. /\ Append(q, x) \in Seq(S) /\ Len(q) \in Nat
      /\ Len(Append(q, x)) = Len(q) + 1
      /\ \A i \in 1..Len(q) : Append(q, x)[i] = q[i]
      /\ Append(q, x)[Len(q) + 1] = x
  BY AppendProperties, LenProperties
<1> QED BY <1>1 DEF Elems

LEMMA SeqFacts ==
    ASSUME NEW S, NEW q \in Seq(S)
    PROVE  /\ Len(q) \in Nat /\ DOMAIN q = 1..Len(q)
           /\ \A i \in 1..Len(q) : q[i] \in S
           /\ Elems(q) \subseteq S
<1>1. Len(q) \in Nat /\ DOMAIN q = 1..Len(q) /\ \A i \in 1..Len(q) : q[i] \in S
  BY LenProperties, ElementOfSeq
<1> QED BY <1>1 DEF Elems

\* A longer history keeps the order, and puts its last client behind the others.
LEMMA BeforeGrows ==
    ASSUME Typed, NEW c \in Clients, admitted' = Append(admitted, c)
    PROVE  /\ \A x, y \in Clients : Before(x, y) => Before(x, y)'
           /\ \A x \in Elems(admitted) : Before(x, c)'
           /\ Elems(admitted)' = Elems(admitted) \cup {c}
<1>1. admitted \in Seq(Clients)
  BY DEF Typed
<1>2. /\ Append(admitted, c) \in Seq(Clients) /\ Len(admitted) \in Nat
      /\ Len(Append(admitted, c)) = Len(admitted) + 1
      /\ \A i \in 1..Len(admitted) : Append(admitted, c)[i] = admitted[i]
      /\ Append(admitted, c)[Len(admitted) + 1] = c
      /\ Elems(Append(admitted, c)) = Elems(admitted) \cup {c}
  BY <1>1, AppendFacts
<1>3. /\ DOMAIN admitted = 1..Len(admitted)
      /\ DOMAIN Append(admitted, c) = 1..(Len(admitted) + 1)
  BY <1>1, <1>2, SeqFacts
<1>4. \A i \in DOMAIN admitted : i \in DOMAIN admitted' /\ admitted'[i] = admitted[i]
  BY <1>2, <1>3
<1>5. ASSUME NEW x \in Elems(admitted) PROVE Before(x, c)'
  <2>1. PICK m \in 1..Len(admitted) : admitted[m] = x
    BY DEF Elems
  <2>2. m \in DOMAIN admitted' /\ Len(admitted) + 1 \in DOMAIN admitted'
        /\ m < Len(admitted) + 1
        /\ admitted'[m] = x /\ admitted'[Len(admitted) + 1] = c
    BY <1>2, <1>3, <2>1
  <2> QED BY <2>2 DEF Before
<1>6. \A x, y \in Clients : Before(x, y) => Before(x, y)'
  BY <1>4 DEF Before
<1>7. Elems(admitted)' = Elems(admitted) \cup {c}
  BY <1>2 DEF Elems
<1> QED BY <1>5, <1>6, <1>7

LEMMA InitIInv == Init => IInv
<1> SUFFICES ASSUME Init PROVE IInv
  OBVIOUS
<1> USE DEF Init
<1>1. Len(queue) = 0 /\ Len(batch) = 0 /\ Len(pending) = 0 /\ Len(durable) = 0
      /\ Len(published) = 0 /\ Len(admitted) = 0
  OBVIOUS
<1>2. Typed
  BY DEF Typed, Outcomes, Empty
<1>3. Elems(batch) = {} /\ Elems(durable) = {} /\ Elems(published) = {}
      /\ Elems(admitted) = {} /\ Elems(queue) = {} /\ Elems(pending) = {}
  BY <1>1 DEF Elems
<1>4. QueuePlaced /\ BatchPlaced
  BY <1>1, <1>3 DEF QueuePlaced, BatchPlaced, Held, Committing
<1>5. LineOrdered /\ FileOrdered
  BY <1>1, <1>3 DEF LineOrdered, FileOrdered, Held
<1>6. Barriers /\ Located /\ FlushWaits
  BY <1>1, <1>3 DEF Barriers, Located, FlushWaits, Held
<1>7. Written
  BY <1>1, <1>3 DEF Written
<1>8. Stopped
  BY DEF Stopped, Stopping
<1> QED BY <1>2, <1>4, <1>5, <1>6, <1>7, <1>8 DEF IInv

-----------------------------------------------------------------------------
(* Steps that move no command and write nothing.                             *)

places == <<queue, phase, batch, admitted>>
results == <<outcome, durable, published, accepted>>

\* Held intents are the same ones.
SameHeld == \A x \in Clients \cup Flushers : Held(x)' <=> Held(x)

LEMMA LineKept ==
    ASSUME IInv, UNCHANGED places, SameHeld,
           \A c \in Clients : client'[c] = "ticket" <=> client[c] = "ticket"
    PROVE  QueuePlaced' /\ LineOrdered'
<1>1. \A i \in 1..Len(queue) : queue[i] \in Clients \cup Flushers
  BY SeqFacts DEF IInv, Typed
<1>2. UNCHANGED <<queue, phase, admitted>> /\ \A x, y : Before(x, y)' <=> Before(x, y)
  BY DEF places, Before
<1>3. \A c \in Clients : Held(c)' <=> Held(c)
  BY DEF SameHeld
<1>4. \A c : Left(c)' <=> Left(c)
  BY <1>2 DEF Left
<1>5. Elems(admitted)' = Elems(admitted)
  BY <1>2
<1>6. QueuePlaced'
  BY <1>1, <1>2, <1>3, <1>5 DEF IInv, QueuePlaced
<1>7. LineOrdered'
  BY <1>1, <1>2, <1>3, <1>4 DEF IInv, LineOrdered
<1> QED BY <1>6, <1>7

LEMMA BatchKept ==
    ASSUME IInv, UNCHANGED <<places, durable, accepted>>,
           worker' \in Empty => batch = <<>>,
           worker' \in Committing => worker' = worker,
           worker \in {"publish", "route"} => worker' = worker
    PROVE  BatchPlaced' /\ FileOrdered'
<1>1. UNCHANGED <<batch, phase, admitted, durable, accepted>>
  BY DEF places
<1>2. \A x, y : Before(x, y)' <=> Before(x, y)
  BY <1>1 DEF Before
<1>3. \A c : Left(c)' <=> Left(c)
  BY <1>1 DEF Left
<1>4. BatchPlaced'
  BY <1>1 DEF IInv, BatchPlaced, Elems
<1>5. FileOrdered'
  BY <1>1, <1>2, <1>3 DEF IInv, FileOrdered, Committing
<1> QED BY <1>4, <1>5

LEMMA BarriersKept ==
    ASSUME IInv, UNCHANGED <<places, pending, before>>, SameHeld,
           flush' \in [Flushers -> {"ready", "sending", "waiting", "ok", "stopped"}],
           \A f \in Flushers :
               /\ flush'[f] \in {"ready", "sending"} => flush[f] \in {"ready", "sending"}
               /\ flush'[f] = "ok" => flush[f] = "ok"
    PROVE  Barriers' /\ FlushWaits'
<1>1. UNCHANGED <<batch, phase, queue, pending, before>>
  BY DEF places
<1>2. \A c : Ahead(c)' <=> Ahead(c)
  BY <1>1 DEF Ahead
<1>3. /\ \A i \in 1..Len(queue) : queue[i] \in Clients \cup Flushers
      /\ Elems(pending) \subseteq Flushers /\ Elems(pending)' = Elems(pending)
      /\ \A f \in Flushers : before[f] \in SUBSET Clients
  BY <1>1, SeqFacts DEF IInv, Typed
<1>4. Barriers
  BY DEF IInv
<1>5. ASSUME NEW k \in 1..Len(queue), queue[k] \in Flushers
      PROVE  /\ flush'[queue[k]] \notin {"ready", "sending"}
             /\ \A c \in before[queue[k]] :
                  Ahead(c)' \/ Held(c)' \/ \E i \in 1..(k - 1) : queue[i] = c
  BY <1>2, <1>3, <1>4, <1>5 DEF Barriers, SameHeld
<1>6. ASSUME NEW f \in Elems(pending)
      PROVE  flush'[f] \notin {"ready", "sending"} /\ \A c \in before[f] : Ahead(c)'
  BY <1>2, <1>3, <1>4 DEF Barriers
<1>7. ASSUME NEW f \in Flushers, Held(f)'
      PROVE  /\ flush'[f] \notin {"ready", "sending"}
             /\ \A c \in before[f] : phase[c] = "Resolved"
  BY <1>4, <1>7 DEF Barriers, SameHeld
<1>8. Barriers'
  BY <1>1, <1>3, <1>5, <1>6, <1>7 DEF Barriers
<1>9. FlushWaits'
  BY <1>1 DEF IInv, FlushWaits
<1> QED BY <1>8, <1>9

LEMMA WrittenKept ==
    ASSUME IInv, UNCHANGED <<places, results>>,
           worker' \in {"publish", "route"} => worker' = worker,
           worker \in {"publish", "route"} => worker' = worker,
           store' = store \/ (store' = "Poisoned" /\ worker # "publish")
    PROVE  Written'
<1>1. UNCHANGED <<batch, phase, outcome, durable, published, accepted>>
  BY DEF places, results
<1>2. Written /\ store \in {"Healthy", "Poisoned"}
  BY DEF IInv, Typed
<1>3. UNCHANGED <<Elems(batch), Elems(durable), Elems(published)>>
  BY <1>1
<1>4. worker' = "publish" => worker = "publish" /\ store' = store
  OBVIOUS
<1>5. /\ store' = "Healthy" => store = "Healthy"
      /\ store = "Poisoned" => store' = "Poisoned"
  BY <1>2
<1> QED BY <1>1, <1>2, <1>3, <1>4, <1>5 DEF Written

LEMMA LocatedKept ==
    ASSUME IInv, UNCHANGED <<places, late>>, SameHeld, worker = "done" => worker' = "done"
    PROVE  Located'
<1>1. UNCHANGED <<batch, phase, queue, late>>
  BY DEF places
<1>2. \A c : Ahead(c)' <=> Ahead(c)
  BY <1>1 DEF Ahead
<1>3. Elems(queue)' = Elems(queue)
  BY <1>1
<1> QED BY <1>1, <1>2, <1>3 DEF IInv, Located, SameHeld

\* A step of a caller that sends nothing: the committer is where it was.
LEMMA CallAside ==
    ASSUME IInv, UNCHANGED <<places, results, store, late, pending, before, worker, command>>,
           Typed', Stopped',
           \A c \in Clients : client'[c] = "ticket" <=> client[c] = "ticket",
           \A f \in Flushers :
               /\ flush'[f] \in {"ready", "sending"} => flush[f] \in {"ready", "sending"}
               /\ flush'[f] = "ok" => flush[f] = "ok"
    PROVE  IInv'
<1>1. SameHeld
  BY DEF SameHeld, Held
<1>2. QueuePlaced' /\ LineOrdered'
  BY <1>1, LineKept
<1>3. BatchPlaced' /\ FileOrdered'
  BY BatchKept DEF IInv, BatchPlaced, results
<1>4. flush' \in [Flushers -> {"ready", "sending", "waiting", "ok", "stopped"}]
  BY DEF Typed
<1>5. Barriers' /\ FlushWaits'
  BY <1>1, <1>4, BarriersKept
<1>6. Written'
  BY WrittenKept
<1>7. Located'
  BY <1>1, LocatedKept
<1> QED BY <1>2, <1>3, <1>5, <1>6, <1>7 DEF IInv

\* A step of the committer between two places, with no command at hand.
LEMMA WorkerAside ==
    ASSUME IInv, Typed', Stopped',
           UNCHANGED <<places, results, client, flush, late, pending, before, command>>,
           worker # "check", worker' # "check", worker # "done",
           worker' \in Empty => batch = <<>>,
           worker' \notin Committing, worker \notin {"publish", "route"},
           store' = store \/ store' = "Poisoned"
    PROVE  IInv'
<1>1. SameHeld
  BY DEF SameHeld, Held
<1>2. QueuePlaced' /\ LineOrdered'
  BY <1>1, LineKept
<1>3. BatchPlaced' /\ FileOrdered'
  BY BatchKept DEF results
<1>5. Barriers' /\ FlushWaits'
  BY <1>1, BarriersKept DEF IInv, Typed
<1>6. Written'
  BY WrittenKept DEF Committing
<1>7. Located'
  BY <1>1, LocatedKept
<1> QED BY <1>2, <1>3, <1>5, <1>6, <1>7 DEF IInv

-----------------------------------------------------------------------------
(* The callers' steps.                                                       *)

quiet == <<places, results, store, late, pending, before, worker, command>>

\* The caller's own state, and a lifecycle that does not return to Running.
LEMMA SubmitAside ==
    ASSUME IInv, NEW c \in Clients, client[c] # "ticket", NEW s \in {"checked", "refused"},
           client' = [client EXCEPT ![c] = s],
           UNCHANGED <<quiet, flush, shut, previous, sender, receiver>>,
           state' = state \/ state' = "Poisoned"
    PROVE  IInv'
<1>1. Typed /\ Stopped
  BY DEF IInv
<1>2. client' \in [Clients -> {"ready", "checked", "ticket", "refused"}]
      /\ \A x \in Clients : client'[x] = "ticket" <=> client[x] = "ticket"
  BY <1>1 DEF Typed
<1>3. Typed'
  BY <1>1, <1>2 DEF Typed, quiet, places, results
<1>4. Stopped'
  BY <1>1 DEF Stopped, quiet, places
<1> QED BY <1>2, <1>3, <1>4, CallAside DEF quiet

LEMMA SubmitQuiet ==
    ASSUME IInv, NEW c \in Clients,
           SubmitCheck(c) \/ SubmitRefused(c) \/ SubmitFull(c) \/ SubmitDisconnected(c)
    PROVE  IInv'
<1>1. /\ client[c] # "ticket"
      /\ UNCHANGED <<quiet, flush, shut, previous, sender, receiver>>
      /\ state' = state \/ state' = "Poisoned"
      /\ \E s \in {"checked", "refused"} : client' = [client EXCEPT ![c] = s]
  <2> USE DEF quiet, places, results, workerVars, worldVars, historyVars
  <2>1. CASE SubmitCheck(c)
    BY <2>1 DEF SubmitCheck
  <2>2. CASE SubmitRefused(c)
    BY <2>2 DEF SubmitRefused
  <2>3. CASE SubmitFull(c)
    BY <2>3 DEF SubmitFull
  <2>4. CASE SubmitDisconnected(c)
    BY <2>4 DEF SubmitDisconnected
  <2> QED BY <2>1, <2>2, <2>3, <2>4
<1>2. PICK s \in {"checked", "refused"} : client' = [client EXCEPT ![c] = s]
  BY <1>1
<1> QED BY <1>1, <1>2, SubmitAside

LEMMA FlushAside ==
    ASSUME IInv, NEW f \in Flushers, flush[f] \in {"ready", "sending"},
           NEW s \in {"sending", "stopped"}, flush' = [flush EXCEPT ![f] = s],
           UNCHANGED <<quiet, client, shut, previous, sender, receiver, state>>
    PROVE  IInv'
<1>1. Typed /\ Stopped
  BY DEF IInv
<1>2. flush' \in [Flushers -> {"ready", "sending", "waiting", "ok", "stopped"}]
      /\ \A g \in Flushers :
           /\ flush'[g] \in {"ready", "sending"} => flush[g] \in {"ready", "sending"}
           /\ flush'[g] = "ok" => flush[g] = "ok"
  BY <1>1 DEF Typed
<1>3. Typed'
  BY <1>1, <1>2 DEF Typed, quiet, places, results
<1>4. Stopped'
  BY <1>1 DEF Stopped, quiet, places
<1> QED BY <1>2, <1>3, <1>4, CallAside DEF quiet

LEMMA FlushQuiet ==
    ASSUME IInv, NEW f \in Flushers, FlushClone(f) \/ FlushDisconnected(f)
    PROVE  IInv'
<1>1. /\ flush[f] \in {"ready", "sending"}
      /\ UNCHANGED <<quiet, client, shut, previous, sender, receiver, state>>
      /\ \E s \in {"sending", "stopped"} : flush' = [flush EXCEPT ![f] = s]
  <2> USE DEF quiet, places, results, workerVars, worldVars, historyVars
  <2>1. CASE FlushClone(f)
    BY <2>1 DEF FlushClone
  <2>2. CASE FlushDisconnected(f)
    BY <2>2 DEF FlushDisconnected
  <2> QED BY <2>1, <2>2
<1>2. PICK s \in {"sending", "stopped"} : flush' = [flush EXCEPT ![f] = s]
  BY <1>1
<1> QED BY <1>1, <1>2, FlushAside

LEMMA ShutdownStep == ASSUME IInv, Shutdown PROVE IInv'
<1>1. UNCHANGED <<quiet, client, flush, receiver>>
  BY DEF Shutdown, ShutdownRead, ShutdownDrain, ShutdownTakeSender, ShutdownJoin,
         quiet, places, results, workerVars, worldVars, historyVars
<1>2. Typed /\ Stopped
  BY DEF IInv
<1>3. state' \in {"Running", "Draining", "Closed", "Poisoned"}
  BY <1>2 DEF Typed, Shutdown, ShutdownRead, ShutdownDrain, ShutdownTakeSender, ShutdownJoin
<1>4. Typed'
  BY <1>1, <1>2, <1>3 DEF Typed, quiet, places, results
<1>5. UNCHANGED <<queue, worker, receiver, late>>
  BY <1>1 DEF quiet, places
<1>6. Stopped'
  <2>1. CASE ShutdownRead
    BY <1>2, <1>5, <2>1 DEF Stopped, ShutdownRead
  <2>2. CASE ShutdownDrain
    BY <1>2, <1>5, <2>2 DEF Stopped, ShutdownDrain
  <2>3. CASE ShutdownTakeSender
    BY <1>2, <1>5, <2>3 DEF Stopped, ShutdownTakeSender
  <2>4. CASE ShutdownJoin
    BY <1>2, <1>5, <2>4 DEF Stopped, ShutdownJoin
  <2> QED BY <2>1, <2>2, <2>3, <2>4 DEF Shutdown
<1> QED BY <1>1, <1>4, <1>6, CallAside DEF quiet

\* A command joins the end of the channel.
LEMMA QueueGrows ==
    ASSUME IInv, NEW x \in Clients \cup Flushers, queue' = Append(queue, x)
    PROVE  /\ Len(queue) \in Nat /\ Len(queue') = Len(queue) + 1
           /\ queue' \in Seq(Clients \cup Flushers)
           /\ \A i \in 1..Len(queue) : queue'[i] = queue[i]
           /\ queue'[Len(queue) + 1] = x
           /\ \A i \in 1..Len(queue) : queue[i] \in Clients \cup Flushers
           /\ Elems(queue)' = Elems(queue) \cup {x}
<1>1. queue \in Seq(Clients \cup Flushers)
  BY DEF IInv, Typed
<1>2. /\ Append(queue, x) \in Seq(Clients \cup Flushers) /\ Len(queue) \in Nat
      /\ Len(Append(queue, x)) = Len(queue) + 1
      /\ \A i \in 1..Len(queue) : Append(queue, x)[i] = queue[i]
      /\ Append(queue, x)[Len(queue) + 1] = x
      /\ Elems(Append(queue, x)) = Elems(queue) \cup {x}
  BY <1>1, AppendFacts
<1>3. \A i \in 1..Len(queue) : queue[i] \in Clients \cup Flushers
  BY <1>1, SeqFacts
<1>4. Elems(queue)' = Elems(queue) \cup {x}
  BY <1>2 DEF Elems
<1> QED BY <1>2, <1>3, <1>4

\* The client enters behind everyone who entered before.
LEMMA SubmitSendStep == ASSUME IInv, NEW c \in Clients, SubmitSend(c) PROVE IInv'
<1>1. /\ client[c] = "checked" /\ receiver
      /\ queue' = Append(queue, c) /\ admitted' = Append(admitted, c)
      /\ phase' = [phase EXCEPT ![c] = "Queued"]
      /\ client' = [client EXCEPT ![c] = "ticket"]
      /\ UNCHANGED <<state, sender, receiver, outcome, flush, shut, previous, worker,
                     command, pending, batch, accepted, store, durable, published, before>>
  BY DEF SubmitSend, workerVars, worldVars
<1>2. late' = IF state = "Running" THEN late ELSE late \cup {c}
  BY DEF SubmitSend
<1>3. /\ Typed /\ QueuePlaced /\ BatchPlaced /\ LineOrdered /\ FileOrdered
      /\ Barriers /\ Written /\ Stopped /\ Located /\ FlushWaits
  BY DEF IInv
<1>4. /\ Len(queue) \in Nat /\ Len(queue') = Len(queue) + 1
      /\ queue' \in Seq(Clients \cup Flushers)
      /\ \A i \in 1..Len(queue) : queue'[i] = queue[i]
      /\ queue'[Len(queue) + 1] = c
      /\ \A i \in 1..Len(queue) : queue[i] \in Clients \cup Flushers
      /\ Elems(queue)' = Elems(queue) \cup {c}
  BY <1>1, QueueGrows
<1>5. /\ \A x, y \in Clients : Before(x, y) => Before(x, y)'
      /\ \A x \in Elems(admitted) : Before(x, c)'
      /\ Elems(admitted)' = Elems(admitted) \cup {c}
  BY <1>1, <1>3, BeforeGrows
<1>6. /\ phase[c] = "None" /\ phase'[c] = "Queued" /\ client'[c] = "ticket"
      /\ \A x \in Clients : x # c => phase'[x] = phase[x] /\ client'[x] = client[x]
      /\ c \notin Elems(queue) /\ ~Held(c)
      /\ c \notin Elems(batch) /\ c \notin Elems(durable)
  <2>1. /\ phase[c] = "None" /\ phase'[c] = "Queued" /\ client'[c] = "ticket"
        /\ \A x \in Clients : x # c => phase'[x] = phase[x] /\ client'[x] = client[x]
    BY <1>1, <1>3 DEF Typed, QueuePlaced
  <2>2. c \notin Elems(queue) /\ ~Held(c)
    BY <1>3, <2>1 DEF QueuePlaced
  <2>3. c \notin Elems(batch) /\ c \notin Elems(durable)
    BY <1>3, <2>1 DEF BatchPlaced, FileOrdered, Left
  <2> QED BY <2>1, <2>2, <2>3
<1>7. late' \in SUBSET Clients /\ late \subseteq late' /\ (state # "Running" => c \in late')
  BY <1>2, <1>3 DEF Typed
<1>8. Typed'
  <2>1. Append(admitted, c) \in Seq(Clients)
    BY <1>3, AppendFacts DEF Typed
  <2> QED BY <1>1, <1>3, <1>4, <1>7, <2>1 DEF Typed
<1>9. \A x : Held(x)' <=> Held(x)
  BY <1>1 DEF Held
<1>10. QueuePlaced'
  <2>1. \A x \in Clients : /\ phase'[x] # "None" <=> client'[x] = "ticket"
                           /\ phase'[x] # "None" <=> x \in Elems(admitted)'
                           /\ Held(x)' => phase'[x] = "Queued"
    BY <1>3, <1>5, <1>6, <1>9 DEF QueuePlaced
  <2>2. \A i, j \in 1..Len(queue') : queue'[i] = queue'[j] /\ queue'[i] \in Clients => i = j
    BY <1>3, <1>4, <1>6 DEF QueuePlaced, Elems
  <2>3. \A x \in Clients : x \in Elems(queue)' => phase'[x] = "Queued" /\ ~Held(x)'
    BY <1>3, <1>4, <1>6, <1>9 DEF QueuePlaced
  <2> QED BY <2>1, <2>2, <2>3 DEF QueuePlaced
<1>11. \A x \in Clients : (Left(x)' <=> Left(x)) /\ (Left(x) \/ Held(x) => x \in Elems(admitted))
  BY <1>3, <1>6 DEF Left, QueuePlaced
<1>12. LineOrdered'
  <2>1. ASSUME NEW x \in Clients, NEW y \in Clients, Left(x)' \/ Held(x)',
               y \in Elems(queue)'
        PROVE  Before(x, y)'
    BY <1>3, <1>4, <1>5, <1>9, <1>11, <2>1 DEF LineOrdered
  <2>2. ASSUME NEW x \in Clients, NEW y \in Clients, Left(x)', Held(y)'
        PROVE  Before(x, y)'
    BY <1>3, <1>5, <1>9, <1>11, <2>2 DEF LineOrdered
  <2>3. ASSUME NEW x \in Clients, NEW y \in Clients, NEW i \in 1..Len(queue'),
               NEW j \in 1..Len(queue'), i < j, queue'[i] = x, queue'[j] = y
        PROVE  Before(x, y)'
    <3>1. i \in 1..Len(queue) /\ queue[i] = x
      BY <1>4, <2>3
    <3>2. CASE j = Len(queue) + 1
      <4>1. x \in Elems(admitted)
        BY <1>3, <2>3, <3>1 DEF QueuePlaced, Elems
      <4> QED BY <1>4, <1>5, <2>3, <3>1, <3>2, <4>1
    <3>3. CASE j \in 1..Len(queue)
      BY <1>3, <1>4, <1>5, <2>3, <3>1, <3>3 DEF LineOrdered
    <3> QED BY <1>4, <3>2, <3>3
  <2> QED BY <2>1, <2>2, <2>3 DEF LineOrdered
<1>13. BatchPlaced' /\ FileOrdered'
  <2>1. Elems(batch) \subseteq Clients /\ Elems(durable) \subseteq Clients
        /\ UNCHANGED <<Elems(batch), Elems(durable)>>
    BY <1>1, <1>3, SeqFacts DEF Typed
  <2>2. BatchPlaced'
    BY <1>1, <1>3, <1>6, <2>1 DEF BatchPlaced
  <2>3. FileOrdered'
    BY <1>1, <1>3, <1>5, <1>11, <2>1 DEF FileOrdered
  <2> QED BY <2>2, <2>3
<1>14. \A x \in Clients : Ahead(x)' <=> Ahead(x)
  BY <1>1, <1>6 DEF Ahead
<1>15. /\ \A f \in Flushers : before[f] \in SUBSET Clients
       /\ Elems(pending) \subseteq Flushers /\ Elems(pending)' = Elems(pending)
       /\ c \notin Flushers
  BY <1>1, <1>3, SeqFacts, ControllerAssumption DEF Typed
<1>16. Barriers'
  <2>1. ASSUME NEW k \in 1..Len(queue'), queue'[k] \in Flushers
        PROVE  /\ flush[queue'[k]] \notin {"ready", "sending"}
               /\ \A x \in before[queue'[k]] :
                    Ahead(x)' \/ Held(x)' \/ \E i \in 1..(k - 1) : queue'[i] = x
    <3>1. k \in 1..Len(queue) /\ queue'[k] = queue[k]
      BY <1>4, <1>15, <2>1
    <3>2. \A i \in 1..(k - 1) : queue'[i] = queue[i]
      BY <1>4, <3>1
    <3> QED BY <1>3, <1>9, <1>14, <1>15, <2>1, <3>1, <3>2 DEF Barriers
  <2>2. \A f \in Elems(pending) : /\ flush[f] \notin {"ready", "sending"}
                                  /\ \A x \in before[f] : Ahead(x)'
    BY <1>3, <1>14, <1>15 DEF Barriers
  <2>3. \A f \in Flushers : Held(f)' =>
          flush[f] \notin {"ready", "sending"} /\ \A x \in before[f] : phase'[x] = "Resolved"
    BY <1>3, <1>6, <1>9, <1>15 DEF Barriers
  <2> QED BY <1>1, <1>15, <2>1, <2>2, <2>3 DEF Barriers
<1>17. Written'
  <2>1. UNCHANGED <<Elems(batch), Elems(durable), Elems(published)>>
    BY <1>1
  <2> QED BY <1>1, <1>3, <1>6, <2>1 DEF Written
<1>18. Stopped'
  <2>1. worker \in {"exit", "drop", "done"} =>
          \A x \in Clients : x \in Elems(queue)' => x \in late'
    BY <1>3, <1>4, <1>7 DEF Stopped, Stopping
  <2> QED BY <1>1, <1>3, <2>1 DEF Stopped
<1>19. Located'
  BY <1>1, <1>3, <1>4, <1>6, <1>7, <1>9, <1>14 DEF Located
<1>20. FlushWaits'
  BY <1>1, <1>3, <1>6, <1>15 DEF FlushWaits
<1> QED BY <1>8, <1>10, <1>12, <1>13, <1>16, <1>17, <1>18, <1>19, <1>20 DEF IInv

\* The barrier takes its place behind every admitted client.
LEMMA FlushSendStep == ASSUME IInv, NEW f \in Flushers, FlushSend(f) PROVE IInv'
<1>1. /\ flush[f] = "sending" /\ receiver
      /\ queue' = Append(queue, f)
      /\ before' = [before EXCEPT ![f] = Elems(admitted)]
      /\ flush' = [flush EXCEPT ![f] = "waiting"]
      /\ UNCHANGED <<state, sender, receiver, client, phase, outcome, shut, previous, worker,
                     command, pending, batch, accepted, store, durable, published, admitted,
                     late>>
  BY DEF FlushSend, workerVars, worldVars
<1>3. /\ Typed /\ QueuePlaced /\ BatchPlaced /\ LineOrdered /\ FileOrdered
      /\ Barriers /\ Written /\ Stopped /\ Located /\ FlushWaits
  BY DEF IInv
<1>4. /\ Len(queue) \in Nat /\ Len(queue') = Len(queue) + 1
      /\ queue' \in Seq(Clients \cup Flushers)
      /\ \A i \in 1..Len(queue) : queue'[i] = queue[i]
      /\ queue'[Len(queue) + 1] = f
      /\ \A i \in 1..Len(queue) : queue[i] \in Clients \cup Flushers
      /\ Elems(queue)' = Elems(queue) \cup {f}
  BY <1>1, QueueGrows
<1>5. f \notin Clients /\ Elems(admitted) \in SUBSET Clients
  BY <1>3, SeqFacts, ControllerAssumption DEF Typed
<1>6. /\ \A g \in Flushers : g # f => flush'[g] = flush[g] /\ before'[g] = before[g]
      /\ flush'[f] = "waiting" /\ before'[f] = Elems(admitted)
      /\ \A g \in Flushers : before[g] \in SUBSET Clients
      /\ Elems(pending) \subseteq Flushers /\ Elems(pending)' = Elems(pending)
  BY <1>1, <1>3, SeqFacts DEF Typed
<1>7. Typed'
  BY <1>1, <1>3, <1>4, <1>5 DEF Typed
<1>8. /\ \A x : Held(x)' <=> Held(x)
      /\ \A x, y : Before(x, y)' <=> Before(x, y)
      /\ \A x : Left(x)' <=> Left(x)
      /\ \A x : Ahead(x)' <=> Ahead(x)
      /\ Elems(admitted)' = Elems(admitted)
  BY <1>1 DEF Held, Before, Left, Ahead
<1>9. QueuePlaced'
  <2>1. \A i, j \in 1..Len(queue') : queue'[i] = queue'[j] /\ queue'[i] \in Clients => i = j
    BY <1>3, <1>4, <1>5 DEF QueuePlaced
  <2>2. \A x \in Clients : x \in Elems(queue)' => phase[x] = "Queued" /\ ~Held(x)'
    BY <1>3, <1>4, <1>5, <1>8 DEF QueuePlaced
  <2> QED BY <1>1, <1>3, <1>8, <2>1, <2>2 DEF QueuePlaced
<1>10. LineOrdered'
  <2>1. \A i \in 1..Len(queue') : queue'[i] \in Clients => i \in 1..Len(queue) /\ queue'[i] = queue[i]
    BY <1>4, <1>5
  <2>2. \A x \in Clients : x \in Elems(queue)' => x \in Elems(queue)
    BY <1>4, <1>5
  <2> QED BY <1>3, <1>8, <2>1, <2>2 DEF LineOrdered
<1>11. BatchPlaced' /\ FileOrdered'
  <2>1. UNCHANGED <<Elems(batch), Elems(durable)>>
    BY <1>1
  <2>2. BatchPlaced'
    BY <1>1, <1>3, <2>1 DEF BatchPlaced
  <2>3. FileOrdered'
    BY <1>1, <1>3, <1>8, <2>1 DEF FileOrdered
  <2> QED BY <2>2, <2>3
<1>12. Barriers'
  <2>1. ASSUME NEW k \in 1..Len(queue'), queue'[k] \in Flushers
        PROVE  /\ flush'[queue'[k]] \notin {"ready", "sending"}
               /\ \A x \in before'[queue'[k]] :
                    Ahead(x)' \/ Held(x)' \/ \E i \in 1..(k - 1) : queue'[i] = x
    <3>1. CASE k \in 1..Len(queue)
      <4>1. queue'[k] = queue[k] /\ queue[k] # f
        BY <1>1, <1>3, <1>4, <2>1, <3>1 DEF Barriers
      <4>2. \A i \in 1..(k - 1) : queue'[i] = queue[i]
        BY <1>4, <3>1
      <4> QED BY <1>3, <1>6, <1>8, <2>1, <3>1, <4>1, <4>2 DEF Barriers
    <3>2. CASE k = Len(queue) + 1
      <4>1. ASSUME NEW x \in Elems(admitted)
            PROVE  Ahead(x) \/ Held(x) \/ \E i \in 1..Len(queue) : queue[i] = x
        <5>1. x \in Clients /\ phase[x] # "None" /\ worker # "done"
          BY <1>1, <1>3, <1>5 DEF QueuePlaced, Stopped
        <5> QED BY <1>3, <5>1 DEF Located, Elems
      <4>2. \A x \in Elems(admitted) : Ahead(x)' \/ Held(x)' \/ \E i \in 1..(k - 1) : queue'[i] = x
        BY <1>4, <1>8, <3>2, <4>1
      <4> QED BY <1>4, <1>6, <3>2, <4>2
    <3>3. k \in 1..Len(queue) \/ k = Len(queue) + 1
      BY <1>4
    <3> QED BY <3>1, <3>2, <3>3, Zenon
  <2>2. ASSUME NEW g \in Elems(pending)
        PROVE  flush'[g] \notin {"ready", "sending"} /\ \A x \in before'[g] : Ahead(x)'
    <3>1. g # f
      BY <1>1, <1>3 DEF Barriers
    <3> QED BY <1>3, <1>6, <1>8, <3>1 DEF Barriers
  <2>3. ASSUME NEW g \in Flushers, Held(g)'
        PROVE  /\ flush'[g] \notin {"ready", "sending"}
               /\ \A x \in before'[g] : phase[x] = "Resolved"
    <3>1. g # f
      BY <1>1, <1>3, <1>8, <2>3 DEF Barriers
    <3> QED BY <1>3, <1>6, <1>8, <2>3, <3>1 DEF Barriers
  <2> QED BY <1>1, <1>6, <2>1, <2>2, <2>3 DEF Barriers
<1>13. Written'
  BY <1>1, WrittenKept, <1>3 DEF Written, Elems
<1>14. Stopped'
  <2>1. worker \in {"exit", "drop", "done"} =>
          \A x \in Clients : x \in Elems(queue)' => x \in late
    BY <1>3, <1>4, <1>5 DEF Stopped
  <2> QED BY <1>1, <1>3, <2>1 DEF Stopped
<1>15. Located'
  BY <1>1, <1>3, <1>4, <1>8 DEF Located
<1>16. FlushWaits'
  BY <1>1, <1>3, <1>6 DEF FlushWaits
<1> QED BY <1>7, <1>9, <1>10, <1>11, <1>12, <1>13, <1>14, <1>15, <1>16 DEF IInv

-----------------------------------------------------------------------------
(* The committer's steps that move no command.                               *)

atRest == <<places, results, client, flush, late, pending, before, command>>

LEMMA WorkerQuiet ==
    ASSUME IInv, \/ LookAtState \/ BeginProbe \/ SealBatch \/ ReceiveDisconnected
                 \/ Poison \/ TakeSender \/ DrainEnds \/ WorkerExit
    PROVE  IInv'
<1>1. UNCHANGED <<atRest, shut, previous, receiver>>
  BY DEF LookAtState, BeginProbe, SealBatch, ReceiveDisconnected, Poison, TakeSender,
         DrainEnds, WorkerExit, atRest, places, results, worldVars, historyVars
<1>2. Typed /\ Stopped /\ BatchPlaced /\ store \in {"Healthy", "Poisoned"}
  BY DEF IInv, Typed
<1>3. /\ worker # "check" /\ worker' # "check" /\ worker # "done"
      /\ worker' \in Taking \cup Looking \cup Empty \cup {"derive"}
      /\ worker \notin {"publish", "route"}
      /\ store' = store \/ store' = "Poisoned"
  BY DEF LookAtState, BeginProbe, SealBatch, ReceiveDisconnected, Poison, TakeSender,
         DrainEnds, WorkerExit, worldVars, NextTake, Taking, Looking, Empty, Stopping
<1>4. worker' \in Empty => worker \in Empty
  BY DEF LookAtState, BeginProbe, SealBatch, ReceiveDisconnected, Poison, TakeSender,
         DrainEnds, WorkerExit, NextTake, Taking, Looking, Empty, Stopping
<1>5. worker' \notin Committing
  BY <1>3 DEF Taking, Looking, Empty, Stopping, Committing
<1>6. state' \in {"Running", "Draining", "Closed", "Poisoned"}
      /\ (state # "Running" => state' # "Running")
  <2>1. CASE WorkerExit
    BY <1>2, <2>1 DEF WorkerExit, Typed
  <2>2. CASE ~WorkerExit
    BY <1>2, <2>2 DEF LookAtState, BeginProbe, SealBatch, ReceiveDisconnected, Poison,
                      TakeSender, DrainEnds, Typed
  <2> QED BY <2>1, <2>2
<1>7. Typed'
  BY <1>1, <1>2, <1>3, <1>6 DEF Typed, atRest, places, results
<1>8. /\ sender' = sender \/ (sender' = FALSE /\ worker \in Stopping)
      /\ worker' \in Stopping => worker \in Stopping \/ worker = "poison" \/ ~sender
      /\ worker = "poison" => state' = "Poisoned"
      /\ worker' \in {"exit", "drop", "done"} =>
           worker \in {"exit", "drop", "done"} \/ queue = <<>>
      /\ worker' # "done"
  BY DEF LookAtState, BeginProbe, SealBatch, ReceiveDisconnected, Poison, TakeSender,
         DrainEnds, WorkerExit, NextTake, Stopping, Disconnected
<1>9. Elems(queue)' = Elems(queue) /\ (queue = <<>> => Elems(queue) = {})
  BY <1>1 DEF Elems, atRest, places
<1>10. UNCHANGED <<shut, previous, receiver, late>>
  BY <1>1 DEF atRest
<1>11. Stopped'
  BY <1>2, <1>6, <1>8, <1>9, <1>10 DEF Stopped
<1>12. worker' \in Empty => batch = <<>>
  BY <1>2, <1>4 DEF BatchPlaced
<1> QED BY <1>1, <1>3, <1>5, <1>7, <1>11, <1>12, WorkerAside DEF atRest

-----------------------------------------------------------------------------
(* Commands leave the channel.                                               *)

\* The channel loses its first d commands.
Shifts(d) ==
    /\ Len(queue') = Len(queue) - d
    /\ \A i \in 1..Len(queue') : i + d \in 1..Len(queue) /\ queue'[i] = queue[i + d]

LEMMA QueueShrinks ==
    ASSUME IInv, queue # <<>>, queue' = Tail(queue)
    PROVE  /\ Head(queue) = queue[1] /\ queue[1] \in Clients \cup Flushers
           /\ Len(queue) \in Nat /\ Len(queue) > 0
           /\ queue' \in Seq(Clients \cup Flushers) /\ Shifts(1)
<1>1. queue \in Seq(Clients \cup Flushers)
  BY DEF IInv, Typed
<1>2. /\ Len(queue) \in Nat /\ Len(queue) > 0
      /\ Head(queue) = queue[1] /\ queue[1] \in Clients \cup Flushers
      /\ Tail(queue) \in Seq(Clients \cup Flushers) /\ Len(Tail(queue)) = Len(queue) - 1
      /\ \A i \in 1..Len(Tail(queue)) :
            i + 1 \in 1..Len(queue) /\ Tail(queue)[i] = queue[i + 1]
  BY <1>1, HeadTailFacts
<1> QED BY <1>2 DEF Shifts

\* What is left in the channel, as a set.
LEMMA ShiftedElems ==
    ASSUME IInv, NEW d \in {0, 1}, Shifts(d)
    PROVE  /\ Elems(queue)' \subseteq Elems(queue)
           /\ \A x \in Elems(queue) : x \in Elems(queue)' \/ (d = 1 /\ queue[1] = x)
           /\ \A k \in 1..Len(queue') : \A x :
                (\E i \in 1..(k + d - 1) : queue[i] = x) =>
                    (\E i \in 1..(k - 1) : queue'[i] = x) \/ (d = 1 /\ queue[1] = x)
<1>1. Len(queue) \in Nat /\ Len(queue') = Len(queue) - d
      /\ \A i \in 1..Len(queue') : i + d \in 1..Len(queue) /\ queue'[i] = queue[i + d]
  BY SeqFacts DEF IInv, Typed, Shifts
<1>2. ASSUME NEW k \in 1..(Len(queue') + 1), NEW x, NEW i \in 1..(k + d - 1), queue[i] = x
      PROVE  (\E j \in 1..(k - 1) : queue'[j] = x) \/ (d = 1 /\ queue[1] = x)
  <2>1. CASE d = 1 /\ i = 1
    BY <1>2, <2>1
  <2>2. CASE ~(d = 1 /\ i = 1)
    <3>1. i - d \in 1..(k - 1) /\ i - d \in 1..Len(queue') /\ (i - d) + d = i
      BY <1>1, <2>2
    <3>2. queue'[i - d] = queue[i]
      BY <1>1, <3>1
    <3> QED BY <1>2, <3>1, <3>2
  <2> QED BY <2>1, <2>2
<1>3. ASSUME NEW x \in Elems(queue)
      PROVE  x \in Elems(queue)' \/ (d = 1 /\ queue[1] = x)
  <2>1. PICK i \in 1..Len(queue) : queue[i] = x
    BY DEF Elems
  <2>2. Len(queue') + 1 \in 1..(Len(queue') + 1) /\ i \in 1..((Len(queue') + 1) + d - 1)
    BY <1>1, <2>1
  <2>3. (\E j \in 1..((Len(queue') + 1) - 1) : queue'[j] = x) \/ (d = 1 /\ queue[1] = x)
    BY <1>2, <2>1, <2>2
  <2>4. (Len(queue') + 1) - 1 = Len(queue')
    BY <1>1
  <2> QED BY <2>3, <2>4 DEF Elems
<1>4. Elems(queue)' \subseteq Elems(queue)
  BY <1>1 DEF Elems
<1>5. 1..Len(queue') \subseteq 1..(Len(queue') + 1)
  BY <1>1
<1> QED BY <1>2, <1>3, <1>4, <1>5

\* A client at hand, or at the head of the channel, is claimed or rejected.
Leaves(x, d) ==
    \/ d = 0 /\ Held(x)
    \/ d = 1 /\ Len(queue) > 0 /\ queue[1] = x /\ worker # "check"

LEMMA ClientLeaves ==
    ASSUME IInv, NEW c \in Clients, NEW P \in {"Claimed", "Resolved"}, NEW d \in {0, 1},
           phase' = [phase EXCEPT ![c] = P],
           UNCHANGED <<client, admitted, before, pending, late, flush>>,
           worker # "done", worker' # "check", Shifts(d), Leaves(c, d),
           \A x \in Clients : Ahead(x) => Ahead(x)', Ahead(c)'
    PROVE  /\ QueuePlaced' /\ LineOrdered' /\ Barriers' /\ Located' /\ FlushWaits'
           /\ phase[c] = "Queued" /\ \A x \in Clients : Left(x) => Before(x, c)
<1>1. /\ Typed /\ QueuePlaced /\ LineOrdered /\ Barriers /\ Located /\ FlushWaits
  BY DEF IInv
<1>2. Len(queue) \in Nat /\ Len(queue') = Len(queue) - d
      /\ \A i \in 1..Len(queue') : i + d \in 1..Len(queue) /\ queue'[i] = queue[i + d]
  BY <1>1, SeqFacts DEF Typed, Shifts
<1>3. /\ Elems(queue)' \subseteq Elems(queue)
      /\ \A x \in Elems(queue) : x \in Elems(queue)' \/ (d = 1 /\ queue[1] = x)
      /\ \A k \in 1..Len(queue') : \A x :
           (\E i \in 1..(k + d - 1) : queue[i] = x) =>
               (\E i \in 1..(k - 1) : queue'[i] = x) \/ (d = 1 /\ queue[1] = x)
  BY ShiftedElems
<1>4. /\ \A x : Held(x) => d = 0 /\ x = c
      /\ \A x : ~Held(x)'
      /\ d = 1 => queue[1] = c /\ 1 \in 1..Len(queue)
      /\ d = 0 => Held(c)
  BY <1>2 DEF Leaves, Held
<1>5. phase[c] = "Queued"
  BY <1>1, <1>4 DEF QueuePlaced, Elems
<1>6. ASSUME NEW x \in Clients, Left(x) PROVE Before(x, c)
  <2>1. c \in Elems(queue) \/ Held(c)
    BY <1>4 DEF Elems
  <2> QED BY <1>1, <1>6, <2>1 DEF LineOrdered
<1>7. /\ phase'[c] = P /\ \A x \in Clients : x # c => phase'[x] = phase[x]
      /\ \A x, y : Before(x, y)' <=> Before(x, y)
      /\ Elems(admitted)' = Elems(admitted)
      /\ Elems(pending)' = Elems(pending) /\ Elems(pending) \subseteq Flushers
      /\ \A f \in Flushers : before[f] \in SUBSET Clients
  BY <1>1, SeqFacts DEF Typed, Before
<1>8. \A x \in Clients : Left(x)' <=> (Left(x) \/ x = c)
  BY <1>7 DEF Left
<1>9. c \notin Elems(queue)'
  <2>1. CASE d = 0
    BY <1>1, <1>3, <1>4, <2>1 DEF QueuePlaced
  <2>2. CASE d = 1
    <3>1. \A i \in 1..Len(queue') : i + 1 \in 1..Len(queue) /\ i + 1 # 1
          /\ queue'[i] = queue[i + 1]
      BY <1>2, <2>2
    <3>2. \A i \in 1..Len(queue') : queue'[i] # c
      BY <1>1, <1>4, <2>2, <3>1 DEF QueuePlaced
    <3> QED BY <3>2 DEF Elems
  <2> QED BY <2>1, <2>2
<1>10. QueuePlaced'
  <2>1. \A i, j \in 1..Len(queue') : queue'[i] = queue'[j] /\ queue'[i] \in Clients => i = j
    <3>1. ASSUME NEW i \in 1..Len(queue'), NEW j \in 1..Len(queue'), queue'[i] = queue'[j],
                 queue'[i] \in Clients
          PROVE  i = j
      <4>1. i + d = j + d
        BY <1>1, <1>2, <3>1 DEF QueuePlaced
      <4> QED BY <1>2, <4>1
    <3> QED BY <3>1
  <2>2. \A x \in Clients : x \in Elems(queue)' => phase'[x] = "Queued" /\ ~Held(x)'
    BY <1>1, <1>3, <1>4, <1>7, <1>9 DEF QueuePlaced
  <2>3. \A x \in Clients : /\ phase'[x] # "None" <=> client[x] = "ticket"
                           /\ phase'[x] # "None" <=> x \in Elems(admitted)
    BY <1>1, <1>5, <1>7 DEF QueuePlaced
  <2> QED BY <1>4, <1>7, <2>1, <2>2, <2>3 DEF QueuePlaced
<1>11. LineOrdered'
  <2>1. ASSUME NEW x \in Clients, NEW y \in Clients, Left(x)', y \in Elems(queue)'
        PROVE  Before(x, y)
    <3>1. CASE Left(x)
      BY <1>1, <1>3, <2>1, <3>1 DEF LineOrdered
    <3>2. CASE x = c /\ d = 0
      BY <1>1, <1>3, <1>4, <2>1, <3>2 DEF LineOrdered
    <3>3. CASE x = c /\ d = 1
      <4>1. PICK i \in 1..Len(queue') : queue'[i] = y
        BY <2>1 DEF Elems
      <4>2. i + 1 \in 1..Len(queue) /\ 1 < i + 1 /\ queue[i + 1] = y
        BY <1>2, <3>3, <4>1
      <4> QED BY <1>1, <1>4, <3>3, <4>2 DEF LineOrdered
    <3> QED BY <1>8, <2>1, <3>1, <3>2, <3>3
  <2>2. ASSUME NEW x \in Clients, NEW y \in Clients, NEW i \in 1..Len(queue'),
               NEW j \in 1..Len(queue'), i < j, queue'[i] = x, queue'[j] = y
        PROVE  Before(x, y)
    <3>1. i + d \in 1..Len(queue) /\ j + d \in 1..Len(queue) /\ i + d < j + d
      BY <1>2, <2>2
    <3>2. queue[i + d] = x /\ queue[j + d] = y
      BY <1>2, <2>2
    <3> QED BY <1>1, <3>1, <3>2 DEF LineOrdered
  <2> QED BY <1>4, <1>7, <2>1, <2>2 DEF LineOrdered
<1>12. Barriers'
  <2>1. ASSUME NEW k \in 1..Len(queue'), queue'[k] \in Flushers
        PROVE  /\ flush[queue'[k]] \notin {"ready", "sending"}
               /\ \A x \in before[queue'[k]] :
                    Ahead(x)' \/ \E i \in 1..(k - 1) : queue'[i] = x
    <3>1. k + d \in 1..Len(queue) /\ queue'[k] = queue[k + d]
      BY <1>2
    <3>2. ASSUME NEW x \in before[queue'[k]]
          PROVE  Ahead(x)' \/ \E i \in 1..(k - 1) : queue'[i] = x
      <4>1. x \in Clients
        BY <1>7, <2>1
      <4>2. Ahead(x) \/ Held(x) \/ \E i \in 1..(k + d - 1) : queue[i] = x
        BY <1>1, <2>1, <3>1 DEF Barriers
      <4> QED BY <1>3, <1>4, <4>1, <4>2
    <3> QED BY <1>1, <2>1, <3>1, <3>2 DEF Barriers
  <2>2. \A f \in Elems(pending) : /\ flush[f] \notin {"ready", "sending"}
                                  /\ \A x \in before[f] : Ahead(x)'
    BY <1>1, <1>7 DEF Barriers
  <2> QED BY <1>4, <1>7, <2>1, <2>2 DEF Barriers
<1>13. Located'
  <2>1. ASSUME NEW x \in Clients, phase'[x] # "None"
        PROVE  Ahead(x)' \/ x \in Elems(queue)'
    BY <1>1, <1>3, <1>4, <1>7, <2>1 DEF Located
  <2> QED BY <2>1 DEF Located
<1>14. FlushWaits'
  BY <1>1, <1>5, <1>7 DEF FlushWaits
<1> QED BY <1>5, <1>6, <1>10, <1>11, <1>12, <1>13, <1>14

callers == <<state, sender, shut, previous, receiver, client, admitted, late, before>>

LEMMA ClaimStep ==
    ASSUME IInv, NEW c \in Clients, NEW d \in {0, 1}, Shifts(d), Leaves(c, d),
           queue' \in Seq(Clients \cup Flushers),
           phase' = [phase EXCEPT ![c] = "Claimed"], batch' = Append(batch, c),
           worker \in Taking \cup {"check"}, worker' \in Looking,
           UNCHANGED <<callers, results, flush, pending, store>>
    PROVE  IInv'
<1>1. /\ Typed /\ BatchPlaced /\ FileOrdered /\ Written /\ Stopped
      /\ UNCHANGED <<durable, published, accepted, outcome>>
      /\ UNCHANGED <<state, sender, shut, previous, receiver, client, admitted, late, before>>
  BY DEF IInv, results, callers
<1>2. batch \in Seq(Clients)
  BY <1>1 DEF Typed
<1>3. /\ Append(batch, c) \in Seq(Clients) /\ Len(batch) \in Nat
      /\ Len(Append(batch, c)) = Len(batch) + 1
      /\ \A i \in 1..Len(batch) : Append(batch, c)[i] = batch[i]
      /\ Append(batch, c)[Len(batch) + 1] = c
      /\ Elems(Append(batch, c)) = Elems(batch) \cup {c}
  BY <1>2, AppendFacts
<1>4. /\ batch' \in Seq(Clients) /\ Len(batch') = Len(batch) + 1
      /\ \A i \in 1..Len(batch) : batch'[i] = batch[i]
      /\ batch'[Len(batch) + 1] = c
      /\ Elems(batch)' = Elems(batch) \cup {c}
  BY <1>3
<1>5. /\ phase'[c] = "Claimed" /\ \A x \in Clients : x # c => phase'[x] = phase[x]
      /\ phase' \in [Clients -> {"None", "Queued", "Claimed", "Resolved"}]
  BY <1>1 DEF Typed
<1>6. /\ worker # "done" /\ worker' # "check" /\ worker' \notin Empty
      /\ worker' \notin Committing /\ worker \notin {"publish", "route"} \cup Committing
      /\ worker' \notin {"publish", "route"} \cup Stopping \cup {"exit", "drop", "done"}
  BY DEF Taking, Looking, Empty, Committing, Stopping
<1>7. \A x \in Clients : Ahead(x) => Ahead(x)'
  <2>1. ASSUME NEW x \in Clients, Ahead(x) PROVE Ahead(x)'
    <3>1. CASE x = c
      BY <1>4, <3>1 DEF Ahead
    <3>2. CASE x # c
      BY <1>4, <1>5, <2>1, <3>2 DEF Ahead
    <3> QED BY <3>1, <3>2
  <2> QED BY <2>1
<1>8. Ahead(c)'
  BY <1>4 DEF Ahead
<1>9. /\ QueuePlaced' /\ LineOrdered' /\ Barriers' /\ Located' /\ FlushWaits'
      /\ phase[c] = "Queued" /\ \A x \in Clients : Left(x) => Before(x, c)
  <2>1. UNCHANGED <<client, admitted, before, pending, late, flush>>
    BY <1>1
  <2> QED BY <1>6, <1>7, <1>8, <2>1, ClientLeaves
<1>10. Typed'
  BY <1>1, <1>4, <1>5, <1>6 DEF Typed
<1>11. BatchPlaced'
  <2>1. c \notin Elems(batch)
    BY <1>1, <1>9 DEF BatchPlaced
  <2>2. \A i, j \in 1..Len(batch') : batch'[i] = batch'[j] => i = j
    BY <1>1, <1>3, <1>4, <2>1 DEF BatchPlaced, Elems
  <2>3. Elems(batch) \subseteq Clients
    BY <1>2, SeqFacts
  <2>4. \A x \in Elems(batch)' : phase'[x] = "Claimed"
    BY <1>1, <1>4, <1>5, <2>3 DEF BatchPlaced
  <2> QED BY <1>6, <2>2, <2>4 DEF BatchPlaced
<1>12. /\ \A x, y : Before(x, y)' <=> Before(x, y)
       /\ UNCHANGED <<Elems(durable), Elems(published)>>
       /\ Elems(durable) \subseteq Clients
  BY <1>1, SeqFacts DEF Before, Typed
<1>13. \A x \in Clients : Left(x) => Left(x)'
  BY <1>5 DEF Left
<1>14. \A x \in Elems(batch) : x \in Clients /\ Left(x)
  BY <1>1, <1>2, SeqFacts DEF BatchPlaced, Left
<1>15. FileOrdered'
  <2>1. ASSUME NEW x \in Clients, NEW y \in Clients, NEW i \in 1..Len(batch'),
               NEW j \in 1..Len(batch'), i < j, batch'[i] = x, batch'[j] = y
        PROVE  Before(x, y)
    <3>1. i \in 1..Len(batch) /\ batch[i] = x
      BY <1>3, <1>4, <2>1
    <3>2. CASE j = Len(batch) + 1
      <4>1. Left(x)
        BY <1>14, <3>1 DEF Elems
      <4> QED BY <1>4, <1>9, <2>1, <3>2, <4>1
    <3>3. CASE j \in 1..Len(batch)
      BY <1>1, <1>4, <2>1, <3>1, <3>3 DEF FileOrdered
    <3> QED BY <1>3, <1>4, <3>2, <3>3
  <2>2. ASSUME NEW x \in Clients, NEW y \in Clients, x \in Elems(durable), y \in Elems(batch)'
        PROVE  Before(x, y)
    <3>1. Left(x)
      BY <1>1, <2>2 DEF FileOrdered
    <3> QED BY <1>1, <1>4, <1>6, <1>9, <2>2, <3>1 DEF FileOrdered
  <2> QED BY <1>1, <1>6, <1>12, <1>13, <2>1, <2>2 DEF FileOrdered
<1>16. Written'
  <2>1. c \notin Elems(durable)
    BY <1>1, <1>9 DEF FileOrdered, Left
  <2>2. \A x \in Clients : phase'[x] # "Resolved" => outcome[x] = "None"
    BY <1>1, <1>5, <1>9 DEF Written
  <2>3. \A x \in Elems(batch)' : x \notin Elems(durable)
    BY <1>1, <1>4, <1>6, <2>1 DEF Written
  <2> QED BY <1>1, <1>6, <1>12, <2>2, <2>3 DEF Written
<1>17. Stopped'
  BY <1>1, <1>6 DEF Stopped
<1> QED BY <1>9, <1>10, <1>11, <1>15, <1>16, <1>17 DEF IInv

LEMMA StartBatchStep == ASSUME IInv, StartBatch PROVE IInv'
<1>1. /\ command \in Clients /\ worker = "check" /\ worker' = "collect"
      /\ phase' = [phase EXCEPT ![command] = "Claimed"] /\ batch' = Append(batch, command)
      /\ UNCHANGED <<callers, results, flush, pending, store, queue>>
  BY DEF StartBatch, Claim, callers, results, worldVars, historyVars
<1>2. PICK c \in Clients : c = command
  BY <1>1
<1>3. Len(queue) \in Nat /\ queue \in Seq(Clients \cup Flushers)
  BY SeqFacts DEF IInv, Typed
<1>4. Shifts(0)
  BY <1>1, <1>3 DEF Shifts
<1>5. Leaves(c, 0)
  BY <1>1, <1>2 DEF Leaves, Held
<1>6. worker \in Taking \cup {"check"} /\ worker' \in Looking
      /\ queue' \in Seq(Clients \cup Flushers)
  BY <1>1, <1>3 DEF Looking
<1> QED BY <1>1, <1>2, <1>4, <1>5, <1>6, ClaimStep

LEMMA CollectIntentStep == ASSUME IInv, CollectIntent PROVE IInv'
<1>1. /\ Head(queue) \in Clients /\ worker \in Taking /\ worker' \in Looking
      /\ queue # <<>> /\ queue' = Tail(queue)
      /\ phase' = [phase EXCEPT ![Head(queue)] = "Claimed"]
      /\ batch' = Append(batch, Head(queue))
      /\ UNCHANGED <<callers, results, flush, pending, store>>
  BY DEF CollectIntent, Claim, callers, results, worldVars, historyVars, Taking, Looking,
         NextLook
<1>2. PICK c \in Clients : c = Head(queue)
  BY <1>1
<1>3. /\ Head(queue) = queue[1] /\ Len(queue) > 0
      /\ queue' \in Seq(Clients \cup Flushers) /\ Shifts(1)
  BY <1>1, QueueShrinks
<1>4. Leaves(c, 1)
  BY <1>1, <1>2, <1>3 DEF Leaves, Taking
<1> QED BY <1>1, <1>2, <1>3, <1>4, ClaimStep

\* A barrier at hand or at the head of the channel is answered or put aside.
LEMMA FlusherLeaves ==
    ASSUME IInv, NEW f \in Flushers, NEW d \in {0, 1}, Shifts(d),
           Leaves(f, d) \/ (d = 0 /\ worker # "check"),
           queue' \in Seq(Clients \cup Flushers), pending' \in Seq(Flushers),
           \A g \in Elems(pending)' :
               g \in Elems(pending) \/ (g = f /\ Leaves(f, d) /\ flush' = flush),
           flush' = flush \/ \E s \in {"ok", "stopped"} :
                                flush' = [flush EXCEPT ![f] = s] /\ (s = "ok" => Held(f)),
           worker' \in Taking \cup Empty \cup {"derive"}, worker' # "check",
           worker' \in Stopping => state # "Running",
           worker' \notin {"exit", "drop", "done"}, worker \notin Stopping \/ worker' = worker,
           worker \notin Committing, worker' \in Empty => worker \in Empty,
           UNCHANGED <<callers, results, phase, batch, store>>
    PROVE  IInv'
<1>1. /\ Typed /\ QueuePlaced /\ LineOrdered /\ Barriers /\ Located /\ FlushWaits /\ Stopped
      /\ BatchPlaced
      /\ UNCHANGED <<durable, published, accepted, outcome>>
      /\ UNCHANGED <<state, sender, shut, previous, receiver, client, admitted, late, before>>
  BY DEF IInv, results, callers
<1>2. Len(queue) \in Nat /\ Len(queue') = Len(queue) - d
      /\ \A i \in 1..Len(queue') : i + d \in 1..Len(queue) /\ queue'[i] = queue[i + d]
  BY <1>1, SeqFacts DEF Typed, Shifts
<1>3. /\ Elems(queue)' \subseteq Elems(queue)
      /\ \A x \in Elems(queue) : x \in Elems(queue)' \/ (d = 1 /\ queue[1] = x)
      /\ \A k \in 1..Len(queue') : \A x :
           (\E i \in 1..(k + d - 1) : queue[i] = x) =>
               (\E i \in 1..(k - 1) : queue'[i] = x) \/ (d = 1 /\ queue[1] = x)
  BY ShiftedElems
<1>4. /\ \A x \in Clients : ~Held(x) /\ x # f
      /\ \A x : ~Held(x)'
      /\ d = 1 => queue[1] = f /\ 1 \in 1..Len(queue)
      /\ worker # "done"
  BY <1>2, ControllerAssumption DEF Leaves, Held, Stopping
<1>5. /\ \A x, y : Before(x, y)' <=> Before(x, y)
      /\ \A x : Left(x)' <=> Left(x)
      /\ \A x : Ahead(x)' <=> Ahead(x)
      /\ UNCHANGED <<Elems(admitted), Elems(batch), Elems(durable), Elems(published)>>
      /\ Elems(pending) \subseteq Flushers
      /\ \A g \in Flushers : before[g] \in SUBSET Clients
  BY <1>1, SeqFacts DEF Typed, Before, Left, Ahead
<1>6. /\ flush' \in [Flushers -> {"ready", "sending", "waiting", "ok", "stopped"}]
      /\ \A g \in Flushers :
           /\ flush'[g] \in {"ready", "sending"} => flush[g] \in {"ready", "sending"}
           /\ flush'[g] = "ok" => flush[g] = "ok" \/ (g = f /\ Held(f))
  <2>1. CASE flush' = flush
    BY <1>1, <2>1 DEF Typed
  <2>2. ASSUME NEW s \in {"ok", "stopped"}, flush' = [flush EXCEPT ![f] = s],
               s = "ok" => Held(f)
        PROVE  <1>6!:
    BY <1>1, <2>2 DEF Typed
  <2> QED BY <2>1, <2>2
<1>7. Typed'
  BY <1>1, <1>6 DEF Typed
<1>8. QueuePlaced'
  <2>1. ASSUME NEW i \in 1..Len(queue'), NEW j \in 1..Len(queue'), queue'[i] = queue'[j],
               queue'[i] \in Clients
        PROVE  i = j
    <3>1. i + d = j + d
      BY <1>1, <1>2, <2>1 DEF QueuePlaced
    <3> QED BY <1>2, <3>1
  <2> QED BY <1>1, <1>3, <1>4, <1>5, <2>1 DEF QueuePlaced
<1>9. LineOrdered'
  <2>1. ASSUME NEW x \in Clients, NEW y \in Clients, NEW i \in 1..Len(queue'),
               NEW j \in 1..Len(queue'), i < j, queue'[i] = x, queue'[j] = y
        PROVE  Before(x, y)
    <3>1. i + d \in 1..Len(queue) /\ j + d \in 1..Len(queue) /\ i + d < j + d
      BY <1>2, <2>1
    <3>2. queue[i + d] = x /\ queue[j + d] = y
      BY <1>2, <2>1
    <3> QED BY <1>1, <3>1, <3>2 DEF LineOrdered
  <2> QED BY <1>1, <1>3, <1>4, <1>5, <2>1 DEF LineOrdered
<1>10. BatchPlaced' /\ FileOrdered'
  <2>1. (worker' \in Empty => batch = <<>>) /\ worker' \notin Committing
        /\ worker \notin {"publish", "route"}
    BY <1>1 DEF BatchPlaced, Taking, Empty, Committing, Stopping
  <2>2. BatchPlaced'
    BY <1>1, <1>5, <2>1 DEF BatchPlaced
  <2>3. FileOrdered'
    BY <1>1, <1>5, <2>1 DEF IInv, FileOrdered
  <2> QED BY <2>2, <2>3
<1>11. Barriers'
  <2>1. ASSUME NEW k \in 1..Len(queue'), queue'[k] \in Flushers
        PROVE  /\ flush'[queue'[k]] \notin {"ready", "sending"}
               /\ \A x \in before[queue'[k]] :
                    Ahead(x)' \/ \E i \in 1..(k - 1) : queue'[i] = x
    <3>1. k + d \in 1..Len(queue) /\ queue'[k] = queue[k + d]
      BY <1>2
    <3>2. ASSUME NEW x \in before[queue'[k]]
          PROVE  Ahead(x)' \/ \E i \in 1..(k - 1) : queue'[i] = x
      <4>1. x \in Clients
        BY <1>5, <2>1
      <4>2. Ahead(x) \/ Held(x) \/ \E i \in 1..(k + d - 1) : queue[i] = x
        BY <1>1, <2>1, <3>1 DEF Barriers
      <4> QED BY <1>3, <1>4, <1>5, <4>1, <4>2
    <3> QED BY <1>1, <1>6, <2>1, <3>1, <3>2 DEF Barriers
  <2>2. Leaves(f, d) => flush[f] \notin {"ready", "sending"} /\ \A x \in before[f] : Ahead(x)
    <3>1. CASE d = 0 /\ Held(f)
      BY <1>1, <3>1 DEF Barriers, Ahead
    <3>2. CASE d = 1 /\ Len(queue) > 0 /\ queue[1] = f /\ worker # "check"
      <4>1. 1 \in 1..Len(queue) /\ \A i \in 1..(1 - 1) : FALSE
        BY <1>2, <3>2
      <4>2. \A x \in before[f] : Ahead(x) \/ Held(x)
        BY <1>1, <3>2, <4>1 DEF Barriers
      <4> QED BY <1>1, <1>4, <1>5, <3>2, <4>1, <4>2 DEF Barriers
    <3> QED BY <3>1, <3>2 DEF Leaves
  <2>3. ASSUME NEW g \in Elems(pending)'
        PROVE  flush'[g] \notin {"ready", "sending"} /\ \A x \in before[g] : Ahead(x)'
    <3>1. CASE g \in Elems(pending)
      BY <1>1, <1>5, <1>6, <3>1 DEF Barriers
    <3>2. CASE g = f /\ Leaves(f, d) /\ flush' = flush
      BY <1>5, <2>2, <3>2
    <3> QED BY <3>1, <3>2
  <2> QED BY <1>1, <1>4, <2>1, <2>3 DEF Barriers
<1>12. Written'
  <2>1. worker' \notin {"publish", "route"} /\ worker \notin {"publish", "route"}
    BY DEF Taking, Empty, Committing, Stopping
  <2> QED BY <1>1, <1>5, <2>1 DEF IInv, Written
<1>13. Stopped'
  BY <1>1 DEF Stopped
<1>14. Located'
  BY <1>1, <1>3, <1>4, <1>5 DEF Located
<1>15. FlushWaits'
  BY <1>1, <1>6 DEF FlushWaits, Barriers
<1> QED BY <1>7, <1>8, <1>9, <1>10, <1>11, <1>12, <1>13, <1>14, <1>15 DEF IInv

LEMMA AnswerBarrierStep == ASSUME IInv, AnswerBarrier PROVE IInv'
<1>1. /\ command \in Flushers /\ worker = "check" /\ worker' = "recv"
      /\ flush' = [flush EXCEPT ![command] = "ok"]
      /\ UNCHANGED <<callers, results, phase, batch, store, queue, pending>>
  BY DEF AnswerBarrier, callers, results, worldVars, historyVars
<1>2. PICK f \in Flushers : f = command
  BY <1>1
<1>3. /\ Len(queue) \in Nat /\ queue' \in Seq(Clients \cup Flushers)
      /\ pending' \in Seq(Flushers) /\ Elems(pending)' = Elems(pending)
  BY <1>1, SeqFacts DEF IInv, Typed
<1>4. Shifts(0) /\ Held(f) /\ Leaves(f, 0)
  BY <1>1, <1>2, <1>3 DEF Shifts, Leaves, Held
<1>5. \E s \in {"ok", "stopped"} : flush' = [flush EXCEPT ![f] = s] /\ (s = "ok" => Held(f))
  BY <1>1, <1>2, <1>4
<1>6. /\ worker' \in Empty /\ worker' \notin Stopping /\ worker \in Empty
      /\ worker \notin Stopping \cup Committing /\ worker' \notin {"check", "exit", "drop", "done"}
  BY <1>1 DEF Empty, Stopping, Committing
<1> QED BY <1>1, <1>3, <1>4, <1>5, <1>6, FlusherLeaves

LEMMA CollectBarrierStep == ASSUME IInv, CollectBarrier PROVE IInv'
<1>1. /\ Head(queue) \in Flushers /\ worker \in Taking /\ worker' \in {"derive", "probe"}
      /\ queue # <<>> /\ queue' = Tail(queue) /\ pending' = Append(pending, Head(queue))
      /\ UNCHANGED <<callers, results, phase, batch, store, flush>>
  BY DEF CollectBarrier, callers, results, worldVars, historyVars, Taking
<1>2. PICK f \in Flushers : f = Head(queue)
  BY <1>1
<1>3. /\ Head(queue) = queue[1] /\ Len(queue) > 0
      /\ queue' \in Seq(Clients \cup Flushers) /\ Shifts(1)
  BY <1>1, QueueShrinks
<1>4. Leaves(f, 1)
  BY <1>1, <1>2, <1>3 DEF Leaves, Taking
<1>5. pending \in Seq(Flushers)
  BY DEF IInv, Typed
<1>6. Append(pending, f) \in Seq(Flushers)
      /\ Elems(Append(pending, f)) = Elems(pending) \cup {f}
  BY <1>5, AppendFacts
<1>7. pending' \in Seq(Flushers) /\ \A g \in Elems(pending)' :
        g \in Elems(pending) \/ (g = f /\ Leaves(f, 1) /\ flush' = flush)
  BY <1>1, <1>2, <1>4, <1>6
<1>8. /\ worker' \in Taking \cup {"derive"} /\ worker' \notin Empty \cup Stopping
      /\ worker' \notin {"check", "exit", "drop", "done"}
      /\ worker \notin Stopping \cup Committing
  BY <1>1 DEF Taking, Empty, Stopping, Committing
<1> QED BY <1>1, <1>3, <1>4, <1>7, <1>8, FlusherLeaves

\* A ticket is stopped before it was claimed.
LEMMA RejectStep ==
    ASSUME IInv, NEW c \in Clients, NEW d \in {0, 1}, Shifts(d), Leaves(c, d),
           queue' \in Seq(Clients \cup Flushers),
           phase' = [phase EXCEPT ![c] = "Resolved"],
           NEW o \in {"ShutdownBeforeClaim", "WorkerFailed"},
           outcome' = [outcome EXCEPT ![c] = o],
           worker \in {"check", "drain"}, worker' = "drain", state # "Running",
           UNCHANGED <<callers, durable, published, accepted, batch, flush, pending, store>>
    PROVE  IInv'
<1>1. /\ Typed /\ BatchPlaced /\ FileOrdered /\ Written /\ Stopped
      /\ UNCHANGED <<state, sender, shut, previous, receiver, client, admitted, late, before>>
  BY DEF IInv, callers
<1>2. /\ phase'[c] = "Resolved" /\ outcome'[c] = o
      /\ \A x \in Clients : x # c => phase'[x] = phase[x] /\ outcome'[x] = outcome[x]
      /\ phase' \in [Clients -> {"None", "Queued", "Claimed", "Resolved"}]
      /\ outcome' \in [Clients -> Outcomes]
  BY <1>1 DEF Typed, Outcomes
<1>3. UNCHANGED <<Elems(batch), Elems(durable), Elems(published)>>
      /\ Elems(durable) \subseteq Clients
  BY <1>1, SeqFacts DEF Typed
<1>4. \A x \in Clients : Ahead(x) => Ahead(x)'
  <2>1. ASSUME NEW x \in Clients, Ahead(x) PROVE Ahead(x)'
    <3>1. CASE x = c
      BY <1>2, <3>1 DEF Ahead
    <3>2. CASE x # c
      BY <1>2, <1>3, <2>1, <3>2 DEF Ahead
    <3> QED BY <3>1, <3>2
  <2> QED BY <2>1
<1>5. Ahead(c)'
  BY <1>2 DEF Ahead
<1>6. /\ QueuePlaced' /\ LineOrdered' /\ Barriers' /\ Located' /\ FlushWaits'
      /\ phase[c] = "Queued"
  <2>1. UNCHANGED <<client, admitted, before, pending, late, flush>>
    BY <1>1
  <2>2. worker # "done" /\ worker' # "check"
    OBVIOUS
  <2> QED BY <1>4, <1>5, <2>1, <2>2, ClientLeaves
<1>7. /\ worker \in Empty /\ worker' \in Empty /\ worker' \notin Committing \cup {"publish", "route"}
      /\ worker \notin {"publish", "route"}
  BY DEF Empty, Stopping, Committing
<1>8. batch = <<>> /\ Elems(batch) = {}
  BY <1>1, <1>7 DEF BatchPlaced, Elems
<1>9. Typed'
  BY <1>1, <1>2, <1>7 DEF Typed
<1>10. BatchPlaced'
  BY <1>3, <1>7, <1>8 DEF BatchPlaced
<1>11. FileOrdered'
  <2>1. \A x, y : Before(x, y)' <=> Before(x, y)
    BY <1>1 DEF Before
  <2>2. \A x \in Clients : Left(x) => Left(x)'
    BY <1>2 DEF Left
  <2> QED BY <1>1, <1>3, <1>7, <2>1, <2>2 DEF FileOrdered
<1>12. Written'
  <2>1. c \notin Elems(durable)
    BY <1>1, <1>6 DEF FileOrdered, Left
  <2>2. ASSUME NEW x \in Clients
        PROVE  /\ phase'[x] # "Resolved" => outcome'[x] = "None"
               /\ outcome'[x] = "Accepted" => x \in Elems(published)
               /\ outcome'[x] \in {"Rejected", "ShutdownBeforeClaim", "WorkerFailed"}
                    => x \notin Elems(durable)
               /\ outcome'[x] = "DurabilityFailed"
                    => x \notin Elems(published) /\ (x \in Elems(durable) => store = "Poisoned")
    <3>1. CASE x = c
      BY <1>2, <2>1, <3>1
    <3>2. CASE x # c
      BY <1>1, <1>2, <3>2 DEF Written
    <3> QED BY <3>1, <3>2
  <2> QED BY <1>1, <1>3, <1>7, <1>8, <2>2 DEF Written
<1>13. Stopped'
  BY <1>1 DEF Stopped
<1> QED BY <1>6, <1>9, <1>10, <1>11, <1>12, <1>13 DEF IInv

\* reject_command, for the command x that leaves.
LEMMA RejectCommand ==
    ASSUME IInv, NEW x \in Clients \cup Flushers, NEW d \in {0, 1}, Shifts(d), Leaves(x, d),
           queue' \in Seq(Clients \cup Flushers), NEW why, Reject(x, why),
           worker \in {"check", "drain"}, worker' = "drain", state # "Running",
           UNCHANGED <<callers, durable, published, accepted, batch, pending, store>>
    PROVE  IInv'
<1>1. CASE x \in Clients
  <2>1. x \notin Flushers
    BY <1>1, ControllerAssumption
  <2>2. /\ phase' = [phase EXCEPT ![x] = "Resolved"] /\ flush' = flush
        /\ \E o \in {"ShutdownBeforeClaim", "WorkerFailed"} :
             outcome' = [outcome EXCEPT ![x] = o]
    BY <1>1, <2>1 DEF Reject
  <2>3. PICK o \in {"ShutdownBeforeClaim", "WorkerFailed"} :
           outcome' = [outcome EXCEPT ![x] = o]
    BY <2>2
  <2> QED BY <1>1, <2>2, <2>3, RejectStep
<1>2. CASE x \in Flushers
  <2>1. x \notin Clients
    BY <1>2, ControllerAssumption
  <2>2. phase' = phase /\ outcome' = outcome /\ flush' = [flush EXCEPT ![x] = "stopped"]
    BY <1>2, <2>1 DEF Reject
  <2>3. UNCHANGED <<callers, results, phase, batch, store>>
    BY <2>2 DEF results
  <2>4. \E s \in {"ok", "stopped"} : flush' = [flush EXCEPT ![x] = s] /\ (s = "ok" => Held(x))
    BY <2>2
  <2>5. pending' \in Seq(Flushers) /\ Elems(pending)' = Elems(pending)
    BY DEF IInv, Typed
  <2>6. /\ worker' \in Empty /\ worker \in Empty
        /\ worker \notin Committing /\ worker' \notin {"check", "exit", "drop", "done"}
        /\ worker \notin Stopping \/ worker' = worker
    BY DEF Empty, Stopping, Committing
  <2> QED BY <1>2, <2>3, <2>4, <2>5, <2>6, FlusherLeaves
<1> QED BY <1>1, <1>2

LEMMA BeginDrainStep == ASSUME IInv, BeginDrain PROVE IInv'
<1>1. /\ worker = "check" /\ worker' = "drain" /\ state # "Running"
      /\ Reject(command, reason')
      /\ UNCHANGED <<callers, durable, published, accepted, batch, pending, store, queue>>
  BY DEF BeginDrain, callers, worldVars, historyVars
<1>2. /\ Len(queue) \in Nat /\ queue' \in Seq(Clients \cup Flushers)
      /\ command \in Clients \cup Flushers
  BY <1>1, SeqFacts DEF IInv, Typed
<1>3. PICK x \in Clients \cup Flushers : x = command
  BY <1>2
<1>4. Shifts(0) /\ Leaves(x, 0)
  BY <1>1, <1>2, <1>3 DEF Shifts, Leaves, Held
<1>5. PICK why : why = reason'
  OBVIOUS
<1>6. Reject(x, why)
  BY <1>1, <1>3, <1>5
<1> QED BY <1>1, <1>2, <1>4, <1>6, RejectCommand

LEMMA DrainStep == ASSUME IInv, Drain PROVE IInv'
<1>1. /\ worker = "drain" /\ worker' = "drain"
      /\ UNCHANGED <<callers, durable, published, accepted, batch, store>>
  BY DEF Drain, callers, worldVars, historyVars
<1>2. state # "Running"
  BY <1>1 DEF IInv, Stopped, Stopping
<1>3. CASE /\ pending # <<>> /\ Reject(Head(pending), reason)
           /\ pending' = Tail(pending) /\ queue' = queue
  <2>1. pending \in Seq(Flushers) /\ Len(queue) \in Nat /\ queue' \in Seq(Clients \cup Flushers)
    BY <1>3, SeqFacts DEF IInv, Typed
  <2>2. /\ Len(pending) \in Nat /\ Len(pending) > 0
        /\ Head(pending) = pending[1] /\ pending[1] \in Flushers
        /\ Tail(pending) \in Seq(Flushers) /\ Len(Tail(pending)) = Len(pending) - 1
        /\ \A i \in 1..Len(Tail(pending)) :
             i + 1 \in 1..Len(pending) /\ Tail(pending)[i] = pending[i + 1]
    BY <1>3, <2>1, HeadTailFacts
  <2>3. Elems(pending)' \subseteq Elems(pending) /\ pending' \in Seq(Flushers)
    BY <1>3, <2>2 DEF Elems
  <2>4. PICK f \in Flushers : f = Head(pending)
    BY <2>2
  <2>5. phase' = phase /\ outcome' = outcome /\ flush' = [flush EXCEPT ![f] = "stopped"]
    BY <1>3, <2>4, ControllerAssumption DEF Reject
  <2>6. UNCHANGED <<callers, results, phase, batch, store>>
    BY <1>1, <2>5 DEF results
  <2>7. \E s \in {"ok", "stopped"} : flush' = [flush EXCEPT ![f] = s] /\ (s = "ok" => Held(f))
    BY <2>5
  <2>8. Shifts(0)
    BY <1>3, <2>1 DEF Shifts
  <2>9. /\ worker' \in Empty /\ worker \in Empty /\ worker # "check"
        /\ worker \notin Committing /\ worker' \notin {"check", "exit", "drop", "done"}
    BY <1>1 DEF Empty, Stopping, Committing
  <2> QED BY <1>1, <1>2, <2>1, <2>3, <2>6, <2>7, <2>8, <2>9, FlusherLeaves
<1>4. CASE /\ queue # <<>> /\ Reject(Head(queue), reason)
           /\ queue' = Tail(queue) /\ pending' = pending
  <2>1. /\ Head(queue) = queue[1] /\ Len(queue) > 0 /\ queue[1] \in Clients \cup Flushers
        /\ queue' \in Seq(Clients \cup Flushers) /\ Shifts(1)
    BY <1>4, QueueShrinks
  <2>2. PICK x \in Clients \cup Flushers : x = Head(queue)
    BY <2>1
  <2>3. Leaves(x, 1)
    BY <1>1, <2>1, <2>2 DEF Leaves
  <2>4. PICK why : why = reason
    OBVIOUS
  <2>5. Reject(x, why)
    BY <1>4, <2>2, <2>4
  <2> QED BY <1>1, <1>2, <1>4, <2>1, <2>3, <2>5, RejectCommand
<1> QED BY <1>3, <1>4 DEF Drain

\* The committer takes the next command in hand.
LEMMA ReceiveCommand ==
    ASSUME IInv, NEW x \in Clients \cup Flushers, NEW d \in {0, 1}, Shifts(d),
           worker = "recv", worker' = "check", command' = x,
           d = 1 => Len(queue) > 0 /\ queue[1] = x,
           d = 0 => x \in Elems(pending),
           queue' \in Seq(Clients \cup Flushers), pending' \in Seq(Flushers),
           Elems(pending)' \subseteq Elems(pending),
           UNCHANGED <<callers, results, phase, batch, store, flush>>
    PROVE  IInv'
<1>1. /\ Typed /\ QueuePlaced /\ LineOrdered /\ Barriers /\ Located /\ FlushWaits /\ Stopped
      /\ BatchPlaced /\ FileOrdered /\ Written
      /\ UNCHANGED <<durable, published, accepted, outcome>>
      /\ UNCHANGED <<state, sender, shut, previous, receiver, client, admitted, late, before>>
  BY DEF IInv, results, callers
<1>2. Len(queue) \in Nat /\ Len(queue') = Len(queue) - d
      /\ \A i \in 1..Len(queue') : i + d \in 1..Len(queue) /\ queue'[i] = queue[i + d]
  BY <1>1, SeqFacts DEF Typed, Shifts
<1>3. /\ Elems(queue)' \subseteq Elems(queue)
      /\ \A y \in Elems(queue) : y \in Elems(queue)' \/ (d = 1 /\ queue[1] = y)
      /\ \A k \in 1..Len(queue') : \A y :
           (\E i \in 1..(k + d - 1) : queue[i] = y) =>
               (\E i \in 1..(k - 1) : queue'[i] = y) \/ (d = 1 /\ queue[1] = y)
  BY ShiftedElems
<1>4. /\ \A y, z : Before(y, z)' <=> Before(y, z)
      /\ \A y : Left(y)' <=> Left(y)
      /\ \A y : Ahead(y)' <=> Ahead(y)
      /\ \A y : ~Held(y) /\ (Held(y)' <=> y = x)
      /\ UNCHANGED <<Elems(admitted), Elems(batch), Elems(durable), Elems(published)>>
      /\ Elems(pending) \subseteq Flushers
      /\ \A f \in Flushers : before[f] \in SUBSET Clients
      /\ Clients \cap Flushers = {}
  BY <1>1, SeqFacts, ControllerAssumption DEF Typed, Before, Left, Ahead, Held
<1>5. /\ x \in Clients => d = 1 /\ x \in Elems(queue) /\ phase[x] = "Queued"
      /\ d = 1 => queue[1] = x /\ 1 \in 1..Len(queue)
  BY <1>1, <1>2, <1>4 DEF QueuePlaced, Elems
<1>6. Typed'
  BY <1>1 DEF Typed, Empty
<1>7. x \in Clients => x \notin Elems(queue)'
  <2>1. ASSUME x \in Clients, x \in Elems(queue)' PROVE FALSE
    <3>1. PICK i \in 1..Len(queue') : queue'[i] = x
      BY <2>1 DEF Elems
    <3>2. i + 1 \in 1..Len(queue) /\ i + 1 # 1 /\ queue[i + 1] = x
      BY <1>2, <1>5, <2>1, <3>1
    <3> QED BY <1>1, <1>5, <2>1, <3>2 DEF QueuePlaced
  <2> QED BY <2>1
<1>8. QueuePlaced'
  <2>1. ASSUME NEW i \in 1..Len(queue'), NEW j \in 1..Len(queue'), queue'[i] = queue'[j],
               queue'[i] \in Clients
        PROVE  i = j
    <3>1. i + d = j + d
      BY <1>1, <1>2, <2>1 DEF QueuePlaced
    <3> QED BY <1>2, <3>1
  <2> QED BY <1>1, <1>3, <1>4, <1>5, <1>7, <2>1 DEF QueuePlaced
<1>9. LineOrdered'
  <2>1. ASSUME NEW y \in Clients, NEW z \in Clients, NEW i \in 1..Len(queue'),
               NEW j \in 1..Len(queue'), i < j, queue'[i] = y, queue'[j] = z
        PROVE  Before(y, z)
    <3>1. i + d \in 1..Len(queue) /\ j + d \in 1..Len(queue) /\ i + d < j + d
      BY <1>2, <2>1
    <3>2. queue[i + d] = y /\ queue[j + d] = z
      BY <1>2, <2>1
    <3> QED BY <1>1, <3>1, <3>2 DEF LineOrdered
  <2>2. ASSUME NEW z \in Clients, x \in Clients, z \in Elems(queue)' PROVE Before(x, z)
    <3>1. PICK i \in 1..Len(queue') : queue'[i] = z
      BY <2>2 DEF Elems
    <3>2. i + 1 \in 1..Len(queue) /\ 1 < i + 1 /\ queue[i + 1] = z
      BY <1>2, <1>5, <2>2, <3>1
    <3> QED BY <1>1, <1>5, <2>2, <3>2 DEF LineOrdered
  <2>3. ASSUME NEW y \in Clients, x \in Clients, Left(y) PROVE Before(y, x)
    BY <1>1, <1>5, <2>3 DEF LineOrdered
  <2>4. ASSUME NEW y \in Clients, NEW z \in Clients, Left(y), z \in Elems(queue)'
        PROVE  Before(y, z)
    BY <1>1, <1>3, <2>4 DEF LineOrdered
  <2> QED BY <1>4, <2>1, <2>2, <2>3, <2>4 DEF LineOrdered
<1>10. worker \in Empty /\ worker' \in Empty /\ worker' \notin Committing
       /\ worker \notin {"publish", "route"} /\ worker' \notin Stopping
  BY DEF Empty, Committing, Stopping
<1>11. BatchPlaced' /\ FileOrdered'
  <2>1. BatchPlaced'
    BY <1>1, <1>4, <1>10 DEF BatchPlaced
  <2>2. FileOrdered'
    BY <1>1, <1>4, <1>10 DEF FileOrdered
  <2> QED BY <2>1, <2>2
<1>12. Elems(batch) = {}
  BY <1>1, <1>10 DEF BatchPlaced, Elems
<1>13. Barriers'
  <2>1. ASSUME NEW k \in 1..Len(queue'), queue'[k] \in Flushers
        PROVE  /\ flush[queue'[k]] \notin {"ready", "sending"}
               /\ \A y \in before[queue'[k]] :
                    Ahead(y)' \/ Held(y)' \/ \E i \in 1..(k - 1) : queue'[i] = y
    <3>1. k + d \in 1..Len(queue) /\ queue'[k] = queue[k + d]
      BY <1>2
    <3>2. ASSUME NEW y \in before[queue'[k]]
          PROVE  Ahead(y)' \/ Held(y)' \/ \E i \in 1..(k - 1) : queue'[i] = y
      <4>2. Ahead(y) \/ \E i \in 1..(k + d - 1) : queue[i] = y
        BY <1>1, <1>4, <2>1, <3>1 DEF Barriers
      <4> QED BY <1>3, <1>4, <1>5, <4>2
    <3> QED BY <1>1, <2>1, <3>1, <3>2 DEF Barriers
  <2>2. \A f \in Elems(pending)' : /\ flush[f] \notin {"ready", "sending"}
                                   /\ \A y \in before[f] : Ahead(y)'
    BY <1>1, <1>4 DEF Barriers
  <2>3. ASSUME x \in Flushers
        PROVE  /\ flush[x] \notin {"ready", "sending"}
               /\ \A y \in before[x] : phase[y] = "Resolved"
    <3>1. CASE d = 0
      BY <1>1, <1>12, <3>1 DEF Barriers, Ahead
    <3>2. CASE d = 1
      <4>1. \A i \in 1..(1 - 1) : FALSE
        OBVIOUS
      <4>2. \A y \in before[x] : Ahead(y)
        BY <1>1, <1>4, <1>5, <2>3, <3>2, <4>1 DEF Barriers
      <4> QED BY <1>1, <1>5, <1>12, <2>3, <3>2, <4>2 DEF Barriers, Ahead
    <3> QED BY <3>1, <3>2
  <2> QED BY <1>1, <1>4, <2>1, <2>2, <2>3 DEF Barriers
<1>14. Written'
  BY <1>1, <1>4, <1>10 DEF Written
<1>15. Stopped'
  BY <1>1, <1>10 DEF Stopped
<1>16. Located'
  BY <1>1, <1>3, <1>4, <1>5 DEF Located
<1>17. FlushWaits'
  BY <1>1 DEF FlushWaits
<1> QED BY <1>6, <1>8, <1>9, <1>11, <1>13, <1>14, <1>15, <1>16, <1>17 DEF IInv

LEMMA ReceiveStep == ASSUME IInv, Receive PROVE IInv'
<1>1. /\ worker = "recv" /\ worker' = "check"
      /\ UNCHANGED <<callers, results, phase, batch, store, flush>>
  BY DEF Receive, callers, results, worldVars, historyVars
<1>2. /\ pending \in Seq(Flushers) /\ Len(queue) \in Nat
      /\ queue \in Seq(Clients \cup Flushers)
  BY SeqFacts DEF IInv, Typed
<1>3. CASE /\ pending # <<>> /\ command' = Head(pending)
           /\ pending' = Tail(pending) /\ queue' = queue
  <2>1. /\ Len(pending) \in Nat /\ Len(pending) > 0
        /\ Head(pending) = pending[1] /\ pending[1] \in Flushers
        /\ Tail(pending) \in Seq(Flushers) /\ Len(Tail(pending)) = Len(pending) - 1
        /\ \A i \in 1..Len(Tail(pending)) :
             i + 1 \in 1..Len(pending) /\ Tail(pending)[i] = pending[i + 1]
    BY <1>2, <1>3, HeadTailFacts
  <2>2. /\ Elems(pending)' \subseteq Elems(pending) /\ pending' \in Seq(Flushers)
        /\ Head(pending) \in Elems(pending)
    BY <1>3, <2>1 DEF Elems
  <2>3. PICK x \in Clients \cup Flushers : x = Head(pending)
    BY <2>1
  <2>4. Shifts(0)
    BY <1>2, <1>3 DEF Shifts
  <2> QED BY <1>1, <1>2, <1>3, <2>2, <2>3, <2>4, ReceiveCommand
<1>4. CASE /\ queue # <<>> /\ command' = Head(queue)
           /\ queue' = Tail(queue) /\ pending' = pending
  <2>1. /\ Head(queue) = queue[1] /\ Len(queue) > 0 /\ queue[1] \in Clients \cup Flushers
        /\ queue' \in Seq(Clients \cup Flushers) /\ Shifts(1)
    BY <1>4, QueueShrinks
  <2>2. PICK x \in Clients \cup Flushers : x = Head(queue)
    BY <2>1
  <2>3. Elems(pending)' = Elems(pending)
    BY <1>4
  <2> QED BY <1>1, <1>2, <1>4, <2>1, <2>2, <2>3, ReceiveCommand
<1> QED BY <1>3, <1>4 DEF Receive

-----------------------------------------------------------------------------
(* The epoch.                                                                *)

\* The accepted intents, in batch order.
LEMMA OrderFacts ==
    ASSUME Typed, NEW order \in AcceptedOrders
    PROVE  /\ order \in Seq(Clients) /\ Elems(order) = accepted
           /\ \A i, j \in 1..Len(order) : i < j =>
                \E m, n \in 1..Len(batch) : m < n /\ batch[m] = order[i] /\ batch[n] = order[j]
<1>1. PICK at \in [1..Cardinality(accepted) -> DOMAIN batch] :
        /\ order = [i \in DOMAIN at |-> batch[at[i]]]
        /\ \A i, j \in DOMAIN at : i < j => at[i] < at[j]
        /\ {batch[at[i]] : i \in DOMAIN at} = accepted
  BY DEF AcceptedOrders
<1>2. /\ DOMAIN batch = 1..Len(batch) /\ \A i \in 1..Len(batch) : batch[i] \in Clients
      /\ accepted \in SUBSET Clients
  BY SeqFacts DEF Typed
<1>3. Cardinality(accepted) \in Nat
  BY <1>2, FS_Subset, FS_CardinalityType, ControllerAssumption
<1>4. DOMAIN at = 1..Cardinality(accepted) /\ \A i \in DOMAIN at : at[i] \in 1..Len(batch)
  BY <1>1, <1>2
<1>5. order \in [1..Cardinality(accepted) -> Clients]
  BY <1>1, <1>2, <1>4
<1>6. order \in Seq(Clients) /\ Len(order) = Cardinality(accepted)
  BY <1>3, <1>5, SeqDef, LenProperties
<1>7. Elems(order) = accepted
  BY <1>1, <1>4, <1>6 DEF Elems
<1>8. \A i, j \in 1..Len(order) : i < j =>
        \E m, n \in 1..Len(batch) : m < n /\ batch[m] = order[i] /\ batch[n] = order[j]
  BY <1>1, <1>4, <1>6
<1> QED BY <1>6, <1>7, <1>8

\* The epoch's frames join the end of the file.
LEMMA AppendedFacts ==
    ASSUME IInv, worker = "append", NEW order \in AcceptedOrders, durable' = durable \o order,
           UNCHANGED admitted
    PROVE  /\ durable' \in Seq(Clients) /\ Elems(durable)' = Elems(durable) \cup accepted
           /\ Len(durable) \in Nat /\ Len(durable') >= Len(durable)
           /\ \A i \in 1..Len(durable) : durable'[i] = durable[i]
           /\ \A x, y \in Clients : \A i, j \in 1..Len(durable') :
                i < j /\ durable'[i] = x /\ durable'[j] = y => Before(x, y)
<1>1. Typed /\ BatchPlaced /\ FileOrdered
  BY DEF IInv
<1>2. /\ order \in Seq(Clients) /\ Elems(order) = accepted
      /\ \A i, j \in 1..Len(order) : i < j =>
           \E m, n \in 1..Len(batch) : m < n /\ batch[m] = order[i] /\ batch[n] = order[j]
  BY <1>1, OrderFacts
<1>3. durable \in Seq(Clients)
  BY <1>1 DEF Typed
<1>4. Len(durable) \in Nat /\ Len(order) \in Nat
  BY <1>2, <1>3, SeqFacts
<1>5. /\ durable \o order \in Seq(Clients) /\ Len(durable \o order) = Len(durable) + Len(order)
      /\ \A i \in 1..(Len(durable) + Len(order)) :
           (durable \o order)[i] = IF i <= Len(durable) THEN durable[i] ELSE order[i - Len(durable)]
  BY <1>2, <1>3, ConcatProperties
<1>6. /\ durable' \in Seq(Clients) /\ Len(durable') = Len(durable) + Len(order)
      /\ \A i \in 1..Len(durable) : durable'[i] = durable[i]
      /\ \A i \in 1..Len(order) : durable'[Len(durable) + i] = order[i]
  <2>1. \A i \in 1..Len(durable) : i \in 1..(Len(durable) + Len(order)) /\ i <= Len(durable)
    BY <1>4
  <2>2. \A i \in 1..Len(order) : /\ Len(durable) + i \in 1..(Len(durable) + Len(order))
                                 /\ ~(Len(durable) + i <= Len(durable))
                                 /\ (Len(durable) + i) - Len(durable) = i
    BY <1>4
  <2>3. \A i \in 1..Len(durable) : (durable \o order)[i] = durable[i]
    BY <1>5, <2>1
  <2>4. \A i \in 1..Len(order) : (durable \o order)[Len(durable) + i] = order[i]
    BY <1>5, <2>2
  <2> QED BY <1>5, <2>3, <2>4
<1>7. ASSUME NEW i \in 1..Len(durable')
      PROVE  \/ i \in 1..Len(durable) /\ durable'[i] = durable[i]
             \/ \E k \in 1..Len(order) : i = Len(durable) + k /\ durable'[i] = order[k]
  <2>1. CASE i \in 1..Len(durable)
    BY <1>6, <2>1
  <2>2. CASE i \notin 1..Len(durable)
    <3>1. i - Len(durable) \in 1..Len(order) /\ i = Len(durable) + (i - Len(durable))
      BY <1>4, <1>6, <2>2
    <3> QED BY <1>6, <3>1
  <2> QED BY <2>1, <2>2
<1>8. Elems(durable)' = Elems(durable) \cup accepted
  <2>1. Elems(durable)' \subseteq Elems(durable) \cup Elems(order)
    BY <1>7 DEF Elems
  <2>2. \A i \in 1..Len(order) : Len(durable) + i \in 1..Len(durable')
    BY <1>4, <1>6
  <2>3. \A i \in 1..Len(durable) : i \in 1..Len(durable')
    BY <1>4, <1>6
  <2>4. Elems(order) \subseteq Elems(durable)'
    BY <1>6, <2>2 DEF Elems
  <2>5. Elems(durable) \subseteq Elems(durable)'
    BY <1>6, <2>3 DEF Elems
  <2> QED BY <1>2, <2>1, <2>4, <2>5
<1>9. accepted \subseteq Elems(batch)
  BY <1>1 DEF BatchPlaced, Committing
<1>10. ASSUME NEW x \in Clients, NEW y \in Clients, NEW i \in 1..Len(durable'),
              NEW j \in 1..Len(durable'), i < j, durable'[i] = x, durable'[j] = y
       PROVE  Before(x, y)
  <2>1. CASE i \in 1..Len(durable) /\ j \in 1..Len(durable)
    BY <1>1, <1>6, <1>10, <2>1 DEF FileOrdered
  <2>2. ASSUME i \in 1..Len(durable), NEW k \in 1..Len(order), durable'[j] = order[k]
        PROVE  Before(x, y)
    <3>1. x \in Elems(durable)
      BY <1>6, <1>10, <2>2 DEF Elems
    <3>2. y \in Elems(order)
      BY <1>10, <2>2 DEF Elems
    <3>3. y \in Elems(batch)
      BY <1>2, <1>9, <3>2
    <3> QED BY <1>1, <3>1, <3>3 DEF FileOrdered
  <2>3. ASSUME NEW k \in 1..Len(order), i = Len(durable) + k, durable'[i] = order[k],
               NEW l \in 1..Len(order), j = Len(durable) + l, durable'[j] = order[l]
        PROVE  Before(x, y)
    <3>1. k < l
      BY <1>4, <1>10, <2>3
    <3>2. PICK m \in 1..Len(batch), n \in 1..Len(batch) :
            m < n /\ batch[m] = order[k] /\ batch[n] = order[l]
      BY <1>2, <3>1
    <3> QED BY <1>1, <1>10, <2>3, <3>2 DEF FileOrdered
  <2>4. ~(j \in 1..Len(durable) /\ \E k \in 1..Len(order) : i = Len(durable) + k)
    BY <1>4, <1>10
  <2> QED BY <1>7, <2>1, <2>2, <2>3, <2>4
<1> QED BY <1>4, <1>6, <1>8, <1>10

LEMMA DeriveStep == ASSUME IInv, Derive PROVE IInv'
<1>1. /\ worker = "derive" /\ accepted' \in SUBSET Elems(batch)
      /\ worker' \in {"route", "append"} /\ (worker' = "route" => accepted' = {})
      /\ UNCHANGED <<callers, places, outcome, durable, published, store, flush, pending>>
  BY DEF Derive, callers, places, worldVars, historyVars
<1>2. /\ Typed /\ BatchPlaced /\ FileOrdered /\ Written /\ Stopped
      /\ UNCHANGED <<state, sender, shut, previous, receiver, client, late, before>>
      /\ UNCHANGED <<queue, phase, batch, admitted>>
  BY <1>1 DEF IInv, callers, places
<1>3. /\ worker' \in Committing /\ worker' \notin Empty \cup Stopping /\ worker # "done"
      /\ worker' # "check" /\ worker' # "publish" /\ worker \notin Empty
  BY <1>1 DEF Committing, Empty, Stopping
<1>4. SameHeld
  BY <1>1 DEF SameHeld, Held
<1>5. /\ UNCHANGED <<Elems(batch), Elems(durable), Elems(published)>>
      /\ Elems(batch) \subseteq Clients
      /\ \A x, y : Before(x, y)' <=> Before(x, y)
      /\ \A x : Left(x)' <=> Left(x)
  BY <1>1, <1>2, SeqFacts DEF Typed, Before, Left
<1>6. Typed'
  BY <1>1, <1>2, <1>3, <1>5 DEF Typed
<1>7. QueuePlaced' /\ LineOrdered'
  BY <1>1, <1>2, <1>4, LineKept
<1>8. BatchPlaced'
  BY <1>1, <1>2, <1>3, <1>5 DEF BatchPlaced
<1>9. FileOrdered'
  BY <1>1, <1>2, <1>5 DEF FileOrdered
<1>10. Barriers' /\ FlushWaits'
  BY <1>1, <1>2, <1>4, BarriersKept DEF Typed
<1>11. Written'
  BY <1>1, <1>2, <1>3, <1>5 DEF Written
<1>12. Stopped'
  <2>1. Elems(queue)' = Elems(queue)
    BY <1>2
  <2> QED BY <1>2, <1>3, <2>1 DEF Stopped, Stopping
<1>13. Located'
  BY <1>1, <1>2, <1>3, <1>4, LocatedKept
<1> QED BY <1>6, <1>7, <1>8, <1>9, <1>10, <1>11, <1>12, <1>13 DEF IInv

\* Steps of the epoch that leave the tickets alone.
LEMMA EpochAside ==
    ASSUME IInv, UNCHANGED <<callers, places, outcome, accepted, store, flush, pending>>,
           worker \in {"append", "publish"}, worker' \in {"publish", "route"},
           durable' \in Seq(Clients), published' \in Seq(Clients),
           FileOrdered', Written'
    PROVE  IInv'
<1>1. /\ Typed /\ BatchPlaced /\ Stopped
      /\ UNCHANGED <<state, sender, shut, previous, receiver, client, late, before>>
      /\ UNCHANGED <<queue, phase, batch, admitted>>
  BY DEF IInv, callers, places
<1>2. /\ worker' \in Committing /\ worker' \notin Empty \cup Stopping /\ worker # "done"
      /\ worker' # "check" /\ worker \in Committing /\ worker # "check"
  BY DEF Committing, Empty, Stopping
<1>3. SameHeld
  BY <1>2 DEF SameHeld, Held
<1>4. Typed'
  BY <1>1, <1>2 DEF Typed
<1>5. QueuePlaced' /\ LineOrdered'
  BY <1>1, <1>3, LineKept
<1>6. BatchPlaced'
  <2>1. Elems(batch)' = Elems(batch)
    BY <1>1
  <2> QED BY <1>1, <1>2, <2>1 DEF BatchPlaced
<1>7. Barriers' /\ FlushWaits'
  BY <1>1, <1>3, BarriersKept DEF Typed
<1>8. Stopped'
  <2>1. Elems(queue)' = Elems(queue)
    BY <1>1
  <2> QED BY <1>1, <1>2, <2>1 DEF Stopped, Stopping
<1>9. Located'
  BY <1>1, <1>2, <1>3, LocatedKept
<1> QED BY <1>4, <1>5, <1>6, <1>7, <1>8, <1>9 DEF IInv

LEMMA AppendSucceedsStep == ASSUME IInv, AppendSucceeds PROVE IInv'
<1>1. /\ worker = "append" /\ worker' = "publish" /\ store = "Healthy"
      /\ \E order \in AcceptedOrders : durable' = durable \o order
      /\ published' = published
      /\ UNCHANGED <<callers, places, outcome, accepted, store, flush, pending>>
  BY DEF AppendSucceeds, callers, places, historyVars
<1>2. PICK order \in AcceptedOrders : durable' = durable \o order
  BY <1>1
<1>3. UNCHANGED <<queue, phase, batch, admitted>> /\ Typed /\ BatchPlaced /\ FileOrdered /\ Written
  BY <1>1 DEF IInv, places
<1>4. /\ durable' \in Seq(Clients) /\ Elems(durable)' = Elems(durable) \cup accepted
      /\ Len(durable) \in Nat /\ Len(durable') >= Len(durable)
      /\ \A i \in 1..Len(durable) : durable'[i] = durable[i]
      /\ \A x, y \in Clients : \A i, j \in 1..Len(durable') :
           i < j /\ durable'[i] = x /\ durable'[j] = y => Before(x, y)
  BY <1>1, <1>2, <1>3, AppendedFacts
<1>5. /\ \A x, y : Before(x, y)' <=> Before(x, y)
      /\ \A x : Left(x)' <=> Left(x)
      /\ accepted \subseteq Elems(batch) /\ \A x \in Elems(batch) : Left(x)
      /\ UNCHANGED <<Elems(batch), Elems(published)>>
      /\ Elems(batch) \subseteq Clients
  BY <1>1, <1>3, SeqFacts DEF Typed, Before, Left, BatchPlaced, Committing
<1>6. FileOrdered'
  BY <1>1, <1>3, <1>4, <1>5 DEF FileOrdered
<1>7. Written'
  <2>1. Len(published) = Len(durable) /\ published = durable
        /\ \A i \in 1..Len(published) : published[i] = durable'[i]
    BY <1>1, <1>3, <1>4 DEF Written
  <2>2. \A x \in Clients : outcome[x] # "None" => x \notin accepted
    BY <1>3, <1>5 DEF Written, BatchPlaced
  <2>3. \A x \in Elems(batch) : x \in Elems(durable)' => x \in accepted
    BY <1>1, <1>3, <1>4 DEF Written
  <2>4. Len(published) <= Len(durable')
    BY <1>4, <2>1
  <2> QED BY <1>1, <1>3, <1>4, <1>5, <2>1, <2>2, <2>3, <2>4 DEF Written
<1>8. published' \in Seq(Clients)
  BY <1>1, <1>3 DEF Typed
<1> QED BY <1>1, <1>4, <1>6, <1>7, <1>8, EpochAside

LEMMA PublishStep == ASSUME IInv, Publish PROVE IInv'
<1>1. /\ worker = "publish" /\ worker' = "route" /\ published' = durable
      /\ UNCHANGED <<callers, places, outcome, accepted, store, flush, pending, durable>>
  BY DEF Publish, callers, places, historyVars
<1>2. UNCHANGED <<queue, phase, batch, admitted>> /\ Typed /\ BatchPlaced /\ FileOrdered /\ Written
  BY <1>1 DEF IInv, places
<1>3. /\ \A x, y : Before(x, y)' <=> Before(x, y)
      /\ \A x : Left(x)' <=> Left(x)
      /\ UNCHANGED <<Elems(batch), Elems(durable)>> /\ Elems(published)' = Elems(durable)
      /\ Len(durable) \in Nat
  BY <1>1, <1>2, SeqFacts DEF Typed, Before, Left
<1>4. FileOrdered'
  BY <1>1, <1>2, <1>3 DEF FileOrdered
<1>5. Elems(published) \subseteq Elems(durable)
  <2>1. Len(published) \in Nat /\ Len(published) <= Len(durable)
        /\ \A i \in 1..Len(published) : published[i] = durable[i]
    BY <1>2, SeqFacts DEF Typed, Written
  <2> QED BY <1>3, <2>1 DEF Elems
<1>6. Written'
  BY <1>1, <1>2, <1>3, <1>5 DEF Written
<1> QED BY <1>1, <1>2, <1>4, <1>6, EpochAside DEF Typed

\* The tickets of the batch are resolved and the epoch is over.
LEMMA RouteStep ==
    ASSUME IInv, NEW result, Route(result),
           \A c \in Elems(batch) : result[c] \in Outcomes \ {"None"},
           worker \in {"derive", "append", "route"}, worker' \in {"recv", "poison"},
           UNCHANGED <<callers, queue, flush, pending, published>>,
           durable' \in Seq(Clients), store' \in {"Healthy", "Poisoned"}
    PROVE  /\ Typed' /\ QueuePlaced' /\ BatchPlaced' /\ LineOrdered' /\ Barriers' /\ Stopped'
           /\ Located' /\ FlushWaits'
           /\ \A c \in Clients : Left(c)' <=> Left(c)
           /\ \A c \in Clients :
                /\ phase'[c] # "Resolved" => c \notin Elems(batch) /\ phase[c] # "Resolved"
                /\ c \in Elems(batch) => outcome'[c] = result[c] /\ outcome[c] = "None"
                /\ c \notin Elems(batch) => outcome'[c] = outcome[c]
           /\ Elems(batch)' = {} /\ Elems(batch) \subseteq Clients
           /\ batch' = <<>> /\ Len(batch') = 0
           /\ \A x, y : Before(x, y)' <=> Before(x, y)
<1>1. /\ Typed /\ QueuePlaced /\ BatchPlaced /\ LineOrdered /\ Barriers /\ Stopped
      /\ Located /\ FlushWaits /\ Written
      /\ UNCHANGED <<state, sender, shut, previous, receiver, client, admitted, late, before>>
  BY DEF IInv, callers
<1>2. /\ batch' = <<>> /\ accepted' = {}
      /\ phase' = [c \in Clients |-> IF c \in Elems(batch) THEN "Resolved" ELSE phase[c]]
      /\ outcome' = [c \in Clients |-> IF c \in Elems(batch) THEN result[c] ELSE outcome[c]]
  BY DEF Route
<1>3. /\ \A c \in Clients : c \in Elems(batch) => phase'[c] = "Resolved" /\ phase[c] = "Claimed"
      /\ \A c \in Clients : c \notin Elems(batch) => phase'[c] = phase[c]
      /\ Elems(batch) \subseteq Clients /\ Elems(batch)' = {} /\ Len(batch') = 0
  BY <1>1, <1>2, SeqFacts DEF Typed, BatchPlaced, Elems
<1>4. \A c \in Clients :
        /\ c \in Elems(batch) => outcome'[c] = result[c] /\ outcome[c] = "None"
        /\ c \notin Elems(batch) => outcome'[c] = outcome[c]
  BY <1>1, <1>2, <1>3 DEF Written
<1>5. /\ phase' \in [Clients -> {"None", "Queued", "Claimed", "Resolved"}]
      /\ outcome' \in [Clients -> Outcomes]
  <2>1. \A c \in Clients : phase'[c] \in {"None", "Queued", "Claimed", "Resolved"}
    BY <1>1, <1>3 DEF Typed
  <2>2. \A c \in Clients : outcome'[c] \in Outcomes
    BY <1>1, <1>4 DEF Typed
  <2> QED BY <1>2, <2>1, <2>2
<1>6. /\ worker # "check" /\ worker' # "check" /\ worker # "done" /\ worker' # "done"
      /\ worker' \in Empty /\ worker' \notin Stopping \cup Committing
  BY DEF Empty, Stopping, Committing
<1>7. Typed'
  BY <1>1, <1>2, <1>5, <1>6 DEF Typed
<1>8. /\ \A x, y : Before(x, y)' <=> Before(x, y)
      /\ \A x : ~Held(x) /\ ~Held(x)'
      /\ UNCHANGED <<Elems(queue), Elems(admitted), Elems(pending)>>
      /\ Elems(pending) \subseteq Flushers /\ \A f \in Flushers : before[f] \in SUBSET Clients
  BY <1>1, <1>6, SeqFacts DEF Typed, Before, Held
<1>9. \A c \in Clients : Left(c)' <=> Left(c)
  BY <1>3 DEF Left
<1>10. \A c \in Clients : Ahead(c) => Ahead(c)'
  BY <1>3 DEF Ahead
<1>11. QueuePlaced'
  <2>1. \A c \in Clients : (phase'[c] # "None" <=> phase[c] # "None")
                           /\ (phase[c] = "Queued" => phase'[c] = "Queued")
    BY <1>3
  <2> QED BY <1>1, <1>8, <2>1 DEF QueuePlaced
<1>12. BatchPlaced'
  BY <1>2, <1>3, <1>6 DEF BatchPlaced
<1>13. LineOrdered'
  BY <1>1, <1>8, <1>9 DEF LineOrdered
<1>14. Barriers'
  <2>1. ASSUME NEW k \in 1..Len(queue), queue[k] \in Flushers
        PROVE  /\ flush[queue[k]] \notin {"ready", "sending"}
               /\ \A c \in before[queue[k]] : Ahead(c)' \/ \E i \in 1..(k - 1) : queue[i] = c
    BY <1>1, <1>8, <1>10, <2>1 DEF Barriers
  <2>2. \A f \in Elems(pending) : /\ flush[f] \notin {"ready", "sending"}
                                  /\ \A c \in before[f] : Ahead(c)'
    BY <1>1, <1>8, <1>10 DEF Barriers
  <2> QED BY <1>1, <1>8, <2>1, <2>2 DEF Barriers
<1>15. Stopped'
  BY <1>1, <1>6, <1>8 DEF Stopped, Stopping
<1>16. Located'
  BY <1>1, <1>3, <1>6, <1>8, <1>10 DEF Located
<1>17. FlushWaits'
  BY <1>1, <1>3, <1>8 DEF FlushWaits, Typed
<1>18. \A c \in Clients : phase'[c] # "Resolved" => c \notin Elems(batch) /\ phase[c] # "Resolved"
  BY <1>3
<1> QED BY <1>2, <1>3, <1>4, <1>7, <1>8, <1>9, <1>11, <1>12, <1>13, <1>14, <1>15, <1>16,
           <1>17, <1>18

\* Routing when the file and the reader head stay as they are.
LEMMA RouteAside ==
    ASSUME IInv, NEW result, Route(result),
           \A c \in Elems(batch) :
               \/ result[c] = "Accepted" /\ c \in Elems(published)
               \/ result[c] \in {"Rejected", "WorkerFailed"} /\ c \notin Elems(durable)
               \/ result[c] = "DurabilityFailed" /\ c \notin Elems(durable),
           worker \in {"derive", "append", "route"}, worker' \in {"recv", "poison"},
           UNCHANGED <<callers, queue, flush, pending, published, durable, store>>
    PROVE  IInv'
<1>1. /\ Typed /\ FileOrdered /\ Written /\ UNCHANGED <<Elems(durable), Elems(published)>>
      /\ Elems(published) \subseteq Elems(durable) /\ Elems(durable) \subseteq Clients
  <2>1. Typed /\ FileOrdered /\ Written
    BY DEF IInv
  <2>2. Len(published) \in Nat /\ Len(durable) \in Nat /\ Len(published) <= Len(durable)
        /\ \A i \in 1..Len(published) : published[i] = durable[i]
    BY <2>1, SeqFacts DEF Typed, Written
  <2>3. Elems(published) \subseteq Elems(durable)
    BY <2>2 DEF Elems
  <2>4. Elems(durable) \subseteq Clients
    BY <2>1, SeqFacts DEF Typed
  <2> QED BY <2>1, <2>3, <2>4
<1>2. \A c \in Elems(batch) : result[c] \in Outcomes \ {"None"}
  BY DEF Outcomes
<1>3. durable' \in Seq(Clients) /\ store' \in {"Healthy", "Poisoned"}
  BY <1>1 DEF Typed
<1>4. /\ Typed' /\ QueuePlaced' /\ BatchPlaced' /\ LineOrdered' /\ Barriers' /\ Stopped'
      /\ Located' /\ FlushWaits'
      /\ \A c \in Clients : Left(c)' <=> Left(c)
      /\ \A c \in Clients :
           /\ phase'[c] # "Resolved" => c \notin Elems(batch) /\ phase[c] # "Resolved"
           /\ c \in Elems(batch) => outcome'[c] = result[c] /\ outcome[c] = "None"
           /\ c \notin Elems(batch) => outcome'[c] = outcome[c]
      /\ Elems(batch)' = {} /\ Len(batch') = 0
      /\ \A x, y : Before(x, y)' <=> Before(x, y)
  BY <1>2, <1>3, RouteStep
<1>5. FileOrdered'
  BY <1>1, <1>4 DEF FileOrdered
<1>6. Written'
  <2>1. ASSUME NEW c \in Clients
        PROVE  /\ phase'[c] # "Resolved" => outcome'[c] = "None"
               /\ outcome'[c] = "Accepted" => c \in Elems(published)
               /\ outcome'[c] \in {"Rejected", "ShutdownBeforeClaim", "WorkerFailed"}
                    => c \notin Elems(durable)
               /\ outcome'[c] = "DurabilityFailed"
                    => c \notin Elems(published) /\ (c \in Elems(durable) => store = "Poisoned")
    <3>1. CASE c \in Elems(batch)
      BY <1>1, <1>4, <3>1
    <3>2. CASE c \notin Elems(batch)
      BY <1>1, <1>4, <3>2 DEF Written
    <3> QED BY <3>1, <3>2
  <2>2. worker' \notin {"publish", "route"} /\ worker # "publish"
    OBVIOUS
  <2> QED BY <1>1, <1>4, <2>1, <2>2 DEF Written
<1> QED BY <1>4, <1>5, <1>6 DEF IInv

LEMMA RouteSuccessStep == ASSUME IInv, RouteSuccess PROVE IInv'
<1>1. PICK result : result = [c \in Elems(batch) |-> IF c \in accepted THEN "Accepted" ELSE "Rejected"]
  OBVIOUS
<1>2. /\ worker = "route" /\ worker' = "recv" /\ Route(result)
      /\ UNCHANGED <<callers, queue, flush, pending, published, durable, store>>
  BY <1>1 DEF RouteSuccess, callers, worldVars, historyVars
<1>3. \A c \in Elems(batch) :
        \/ result[c] = "Accepted" /\ c \in Elems(published)
        \/ result[c] \in {"Rejected", "WorkerFailed"} /\ c \notin Elems(durable)
  <2>1. Written
    BY DEF IInv
  <2> QED BY <1>1, <1>2, <2>1 DEF Written
<1> QED BY <1>2, <1>3, RouteAside

LEMMA EpochPanicsStep == ASSUME IInv, EpochPanics PROVE IInv'
<1>1. PICK result : result = [c \in Elems(batch) |-> "WorkerFailed"]
  OBVIOUS
<1>2. /\ worker = "derive" /\ worker' = "poison" /\ Route(result)
      /\ UNCHANGED <<callers, queue, flush, pending, published, durable, store>>
  BY <1>1 DEF EpochPanics, callers, worldVars
<1>3. \A c \in Elems(batch) : result[c] = "WorkerFailed" /\ c \notin Elems(durable)
  BY <1>1, <1>2 DEF IInv, Written
<1> QED BY <1>2, <1>3, RouteAside

LEMMA AppendFailsStep == ASSUME IInv, AppendFails PROVE IInv'
<1>1. PICK result : result = [c \in Elems(batch) |->
                                IF c \in accepted THEN "DurabilityFailed" ELSE "Rejected"]
  OBVIOUS
<1>2. /\ worker = "append" /\ worker' = "recv" /\ Route(result)
      /\ UNCHANGED <<callers, queue, flush, pending, published, durable, store>>
  BY <1>1 DEF AppendFails, RouteFailure, callers, historyVars
<1>3. \A c \in Elems(batch) :
        \/ result[c] \in {"Rejected", "WorkerFailed"} /\ c \notin Elems(durable)
        \/ result[c] = "DurabilityFailed" /\ c \notin Elems(durable)
  <2>1. \A c \in Elems(batch) : c \notin Elems(durable)
    BY <1>2 DEF IInv, Written
  <2> QED BY <1>1, <2>1
<1> QED BY <1>2, <1>3, RouteAside

LEMMA AppendPoisonsStep == ASSUME IInv, AppendPoisons PROVE IInv'
<1>1. PICK result : result = [c \in Elems(batch) |->
                                IF c \in accepted THEN "DurabilityFailed" ELSE "Rejected"]
  OBVIOUS
<1>2. /\ worker = "append" /\ worker' = "recv" /\ Route(result)
      /\ store = "Healthy" /\ store' = "Poisoned"
      /\ durable' = durable \/ \E order \in AcceptedOrders : durable' = durable \o order
      /\ UNCHANGED <<callers, queue, flush, pending, published>>
  BY <1>1 DEF AppendPoisons, RouteFailure, callers, historyVars
<1>3. Typed /\ BatchPlaced /\ FileOrdered /\ Written /\ admitted' = admitted
  BY <1>2 DEF IInv, callers
<1>4. /\ durable' \in Seq(Clients) /\ Elems(durable)' \subseteq Elems(durable) \cup accepted
      /\ Elems(durable) \subseteq Elems(durable)'
      /\ Len(durable) \in Nat /\ Len(durable') >= Len(durable)
      /\ \A i \in 1..Len(durable) : durable'[i] = durable[i]
      /\ \A x, y \in Clients : \A i, j \in 1..Len(durable') :
           i < j /\ durable'[i] = x /\ durable'[j] = y => Before(x, y)
  <2>1. CASE durable' = durable
    <3>1. durable \in Seq(Clients) /\ Len(durable) \in Nat /\ Elems(durable)' = Elems(durable)
      BY <1>3, <2>1, SeqFacts DEF Typed
    <3> QED BY <1>3, <2>1, <3>1 DEF FileOrdered
  <2>2. ASSUME NEW order \in AcceptedOrders, durable' = durable \o order PROVE <1>4!:
    <3>1. /\ durable' \in Seq(Clients) /\ Elems(durable)' = Elems(durable) \cup accepted
          /\ Len(durable) \in Nat /\ Len(durable') >= Len(durable)
          /\ \A i \in 1..Len(durable) : durable'[i] = durable[i]
          /\ \A x, y \in Clients : \A i, j \in 1..Len(durable') :
               i < j /\ durable'[i] = x /\ durable'[j] = y => Before(x, y)
      BY <1>2, <1>3, <2>2, AppendedFacts
    <3> QED BY <3>1
  <2> QED BY <1>2, <2>1, <2>2
<1>5. /\ \A c \in Elems(batch) : c \notin Elems(durable)
      /\ accepted \subseteq Elems(batch) /\ published = durable
      /\ Elems(published) = Elems(durable)
  BY <1>2, <1>3 DEF BatchPlaced, Written, Committing
<1>6. \A c \in Elems(batch) :
        /\ result[c] \in Outcomes \ {"None"}
        /\ result[c] = "DurabilityFailed" \/ (result[c] = "Rejected" /\ c \notin accepted)
  BY <1>1 DEF Outcomes
<1>7. /\ Typed' /\ QueuePlaced' /\ BatchPlaced' /\ LineOrdered' /\ Barriers' /\ Stopped'
      /\ Located' /\ FlushWaits'
      /\ \A c \in Clients : Left(c)' <=> Left(c)
      /\ \A c \in Clients :
           /\ phase'[c] # "Resolved" => c \notin Elems(batch) /\ phase[c] # "Resolved"
           /\ c \in Elems(batch) => outcome'[c] = result[c] /\ outcome[c] = "None"
           /\ c \notin Elems(batch) => outcome'[c] = outcome[c]
      /\ Elems(batch)' = {} /\ Elems(batch) \subseteq Clients /\ Len(batch') = 0
      /\ \A x, y : Before(x, y)' <=> Before(x, y)
  BY <1>2, <1>4, <1>6, RouteStep
<1>8. FileOrdered'
  <2>1. Elems(durable) \subseteq Clients
    BY <1>3, SeqFacts DEF Typed
  <2>2. \A c \in accepted : c \in Clients /\ Left(c)
    BY <1>3, <1>5, <1>7 DEF BatchPlaced, Left
  <2>3. \A c \in Elems(durable)' : c \in Clients /\ Left(c)
    BY <1>3, <1>4, <2>1, <2>2 DEF FileOrdered
  <2> QED BY <1>4, <1>7, <2>3 DEF FileOrdered
<1>9. Written'
  <2>1. ASSUME NEW c \in Clients
        PROVE  /\ phase'[c] # "Resolved" => outcome'[c] = "None"
               /\ outcome'[c] = "Accepted" => c \in Elems(published)
               /\ outcome'[c] \in {"Rejected", "ShutdownBeforeClaim", "WorkerFailed"}
                    => c \notin Elems(durable)'
               /\ outcome'[c] = "DurabilityFailed" => c \notin Elems(published)
    <3>1. CASE c \in Elems(batch)
      BY <1>4, <1>5, <1>6, <1>7, <3>1
    <3>2. CASE c \notin Elems(batch)
      BY <1>2, <1>3, <1>4, <1>5, <1>7, <3>2 DEF Written
    <3> QED BY <3>1, <3>2
  <2>2. Len(published) <= Len(durable') /\ \A i \in 1..Len(published) : published[i] = durable'[i]
    BY <1>4, <1>5
  <2>3. UNCHANGED <<published, Elems(published)>>
    BY <1>2
  <2> QED BY <1>2, <1>7, <2>1, <2>2, <2>3 DEF Written
<1> QED BY <1>7, <1>8, <1>9 DEF IInv

\* What the channel still holds came late.
LEMMA DropReceiverStep == ASSUME IInv, DropReceiver PROVE IInv'
<1>1. /\ worker = "drop" /\ worker' = "done" /\ receiver' = FALSE /\ queue' = <<>>
      /\ flush' = [f \in Flushers |-> IF flush[f] = "waiting" THEN "stopped" ELSE flush[f]]
      /\ UNCHANGED <<state, sender, shut, previous, client, admitted, late, before>>
      /\ UNCHANGED <<phase, batch, outcome, durable, published, accepted, store, pending>>
  BY DEF DropReceiver, worldVars, historyVars
<1>2. /\ Typed /\ QueuePlaced /\ BatchPlaced /\ LineOrdered /\ FileOrdered
      /\ Barriers /\ Written /\ Stopped /\ Located /\ FlushWaits
  BY DEF IInv
<1>3. /\ flush' \in [Flushers -> {"ready", "sending", "waiting", "ok", "stopped"}]
      /\ \A f \in Flushers : /\ flush'[f] \in {"ready", "sending"} => flush[f] \in {"ready", "sending"}
                             /\ flush'[f] = "ok" => flush[f] = "ok"
  BY <1>1, <1>2 DEF Typed
<1>4. Len(queue') = 0 /\ Elems(queue)' = {} /\ queue' \in Seq(Clients \cup Flushers)
  BY <1>1 DEF Elems
<1>5. /\ worker \in Empty /\ worker' \in Empty /\ worker' \notin Committing
      /\ worker' \in Stopping /\ worker \in Stopping
  BY <1>1 DEF Empty, Committing, Stopping
<1>6. /\ \A x, y : Before(x, y)' <=> Before(x, y)
      /\ \A x : Left(x)' <=> Left(x)
      /\ \A x : Ahead(x)' <=> Ahead(x)
      /\ \A x : ~Held(x) /\ ~Held(x)'
      /\ UNCHANGED <<Elems(admitted), Elems(pending), Elems(batch), Elems(durable),
                     Elems(published)>>
      /\ Elems(pending) \subseteq Flushers
  BY <1>1, <1>2, SeqFacts DEF Typed, Before, Left, Ahead, Held
<1>7. Typed'
  BY <1>1, <1>2, <1>3, <1>4, <1>5 DEF Typed
<1>8. QueuePlaced' /\ LineOrdered'
  BY <1>1, <1>2, <1>4, <1>6 DEF QueuePlaced, LineOrdered
<1>9. BatchPlaced'
  BY <1>1, <1>2, <1>5, <1>6 DEF BatchPlaced
<1>10. FileOrdered'
  BY <1>1, <1>2, <1>6 DEF FileOrdered
<1>11. Barriers'
  BY <1>1, <1>2, <1>3, <1>4, <1>6 DEF Barriers
<1>12. Written'
  BY <1>1, <1>2, <1>6 DEF Written
<1>13. Stopped'
  BY <1>1, <1>2, <1>4, <1>5 DEF Stopped
<1>14. Located'
  BY <1>1, <1>2, <1>6 DEF Located, Stopped
<1>15. FlushWaits'
  BY <1>1, <1>2, <1>3 DEF FlushWaits
<1> QED BY <1>7, <1>8, <1>9, <1>10, <1>11, <1>12, <1>13, <1>14, <1>15 DEF IInv

-----------------------------------------------------------------------------

LEMMA NextIInv == ASSUME IInv, [Next]_vars PROVE IInv'
<1>1. CASE UNCHANGED vars
  <2>1. UNCHANGED <<quiet, client, flush, shut, previous, sender, receiver, state>>
    BY <1>1 DEF vars, quiet, places, results
  <2>2. Typed'
    BY <2>1 DEF IInv, Typed, quiet, places, results
  <2>3. Stopped'
    BY <2>1 DEF IInv, Stopped, quiet, places
  <2> QED BY <2>1, <2>2, <2>3, CallAside DEF quiet
<1>2. CASE \E c \in Clients : Submit(c)
  BY <1>2, SubmitQuiet, SubmitSendStep DEF Submit
<1>3. CASE \E f \in Flushers : Flush(f)
  BY <1>3, FlushQuiet, FlushSendStep DEF Flush
<1>4. CASE Shutdown
  BY <1>4, ShutdownStep
<1>5. CASE Loop
  BY <1>5, ReceiveStep, WorkerQuiet, StartBatchStep, AnswerBarrierStep, CollectIntentStep,
     CollectBarrierStep DEF Loop
<1>6. CASE Epoch
  BY <1>6, DeriveStep, AppendSucceedsStep, AppendFailsStep, AppendPoisonsStep, PublishStep,
     RouteSuccessStep, EpochPanicsStep, WorkerQuiet DEF Epoch
<1>7. CASE Exit
  BY <1>7, BeginDrainStep, DrainStep, WorkerQuiet, DropReceiverStep DEF Exit
<1> QED BY <1>1, <1>2, <1>3, <1>4, <1>5, <1>6, <1>7 DEF Next, Worker

\* The inductive invariant holds of DurableQueuedIntentController in every
\* reachable state, for any clients, flushers, capacity and batch width.
THEOREM Invariance == Spec => []IInv
<1>1. IInv /\ [Next]_vars => IInv'
  BY NextIInv
<1> QED BY InitIInv, <1>1, PTL DEF Spec

\* Every outcome sent to a ticket (route_success, route_failure, route_stopped,
\* reject_command) is true of the file and of the reader head, and frames are
\* appended in the order the channel accepted the intents.
THEOREM TicketsAreTruthful == Spec => []OutcomesAreTruthful
<1>1. IInv => OutcomesAreTruthful
  <2> SUFFICES ASSUME IInv PROVE OutcomesAreTruthful
    OBVIOUS
  <2>1. Typed /\ FileOrdered /\ Written
    BY DEF IInv
  <2>2. /\ durable \in Seq(Clients) /\ published \in Seq(Clients)
        /\ Len(durable) \in Nat /\ Len(published) \in Nat /\ DOMAIN durable = 1..Len(durable)
        /\ \A i \in 1..Len(durable) : durable[i] \in Clients
        /\ Len(published) <= Len(durable)
        /\ \A i \in 1..Len(published) : published[i] = durable[i]
    BY <2>1, SeqFacts DEF Typed, Written
  <2>3. published = SubSeq(durable, 1, Len(published))
    <3>1. Len(published) \in 0..Len(durable)
      BY <2>2
    <3>2. /\ SubSeq(durable, 1, Len(published)) \in Seq(Clients)
          /\ Len(SubSeq(durable, 1, Len(published))) = Len(published)
          /\ \A i \in 1..Len(published) : SubSeq(durable, 1, Len(published))[i] = durable[i]
      BY <2>2, <3>1, SubSeqProperties
    <3> QED BY <2>2, <3>2, SeqEqual
  <2>4. Elems(published) \subseteq Elems(durable)
    BY <2>2 DEF Elems
  <2>5. \A i, j \in DOMAIN durable : i < j =>
          \E m, n \in DOMAIN admitted :
              m < n /\ admitted[m] = durable[i] /\ admitted[n] = durable[j]
    BY <2>1, <2>2 DEF FileOrdered, Before
  <2> QED BY <2>1, <2>3, <2>4, <2>5 DEF OutcomesAreTruthful, Written
<1> QED BY <1>1, Invariance, PTL

\* flush returns Ok only after every intent that entered the channel ahead of
\* its barrier is Resolved, adaptive probing past the barrier included.
THEOREM FlushesWait == Spec => []FlushWaits
<1>1. IInv => FlushWaits
  BY DEF IInv
<1> QED BY <1>1, Invariance, PTL

\* When the committer has dropped its Receiver, a ticket without an outcome is
\* one whose submit sent after the controller had left Running.
THEOREM LostTicketsAreLate == Spec => []OnlyLateTicketsAreLost
<1>1. IInv => OnlyLateTicketsAreLost
  <2> SUFFICES ASSUME IInv, worker = "done", NEW c \in Clients, client[c] = "ticket",
                      phase[c] # "Resolved"
               PROVE  c \in late
    BY DEF OnlyLateTicketsAreLost
  <2>1. phase[c] # "None" /\ batch = <<>>
    BY DEF IInv, QueuePlaced, BatchPlaced, Empty, Stopping
  <2>2. ~Ahead(c) /\ ~Held(c)
    BY <2>1 DEF Ahead, Elems, Held
  <2>3. c \in Elems(queue) \/ c \in late
    BY <2>1, <2>2 DEF IInv, Located
  <2> QED BY <2>3 DEF IInv, Stopped
<1> QED BY <1>1, Invariance, PTL
=============================================================================
