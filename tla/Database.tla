------------------------------ MODULE Database ------------------------------
(***************************************************************************)
(* Database of forthdb-world: the reader head, the commit store behind it  *)
(* and the commit lock that serializes writers.  Strict transactions       *)
(* (begin ... commit) and queued epochs (commit_queued_epoch over          *)
(* derive_epoch, commit_durable_epoch over a machine of its own) share all *)
(* three; the process may stop at any step and Database::new rebuilds the  *)
(* head from the frames.  commit_mixed_epoch is in MixedDatabase.          *)
(*                                                                         *)
(* The store is seen through CommitStore: append succeeds, fails leaving   *)
(* nothing, or is interrupted leaving the first frames of the epoch.       *)
(***************************************************************************)
EXTENDS EpochMaterializer

CONSTANTS
    Writers,        \* threads that commit strict transactions
    Committers,     \* threads that commit epochs
    Validators,     \* what register_validator may add
    Intents,        \* the intents a caller may build
    MaxOperations,  \* bound: operations of one strict transaction
    MaxEpoch,       \* bound: intents of one epoch
    MaxFrames       \* bound: frames in the store

\* A queued intent: a handle's namespace, preconditions and operations.
QueuedIntent(intent) ==
    /\ DOMAIN intent = {"namespace", "preconditions", "operations"}
    /\ intent.operations \in Seq(Range(intent.operations))
    /\ \A op \in Range(intent.operations) : op.kind \in {"Allocate", "Define", "Forget"}

ASSUME DatabaseAssumption ==
    /\ Writers \cap Committers = {} /\ "free" \notin Writers \cup Committers
    /\ \A intent \in Intents : QueuedIntent(intent)
    /\ MaxOperations \in Nat /\ MaxEpoch \in Nat /\ MaxFrames \in Nat

VARIABLES
    current,     \* the published world
    store,       \* the frames of the commit store
    commitLock,  \* the thread inside a commit, or Free
    validators,  \* registered validators
    pc,          \* pc[t]: "idle", "strict", "epoch", "locked" or "appended"
    work,        \* work[t]: the transaction or the intents of t
    planned,     \* planned[t]: what t will publish
    answered     \* history: results returned as successes

databaseVars == <<current, store, commitLock, validators, pc, work, planned, answered>>

Threads == Writers \cup Committers

Free == "free"

NoWork == [kind |-> "none"]
NoPlan == [tail |-> Genesis, frames |-> <<>>, outcomes |-> <<>>]

DatabaseInit ==
    /\ current = Genesis
    /\ store = <<>>
    /\ commitLock = Free
    /\ validators = {}
    /\ pc = [t \in Threads |-> "idle"]
    /\ work = [t \in Threads |-> NoWork]
    /\ planned = [t \in Threads |-> NoPlan]
    /\ answered = {}

RegisterValidator(v) ==
    /\ validators' = validators \cup {v}
    /\ UNCHANGED <<current, store, commitLock, pc, work, planned, answered>>

-----------------------------------------------------------------------------
(* Transaction: operations are recorded against the world begin() saw; an    *)
(* identifier is given out before it is known whether the commit succeeds.   *)

Begin(t) ==
    /\ pc[t] = "idle" /\ Len(store) < MaxFrames
    /\ pc' = [pc EXCEPT ![t] = "strict"]
    /\ work' = [work EXCEPT ![t] = [kind |-> "strict", base |-> current,
                                    next |-> current.next, operations |-> <<>>]]
    /\ UNCHANGED <<current, store, commitLock, validators, planned, answered>>

Record(t, op, next) ==
    /\ pc[t] = "strict"
    /\ Len(work[t].operations) < MaxOperations
    /\ work' = [work EXCEPT ![t].operations = Append(@, op), ![t].next = next]
    /\ UNCHANGED <<current, store, commitLock, validators, pc, planned, answered>>

TxEntity(t) ==
    Record(t, [kind |-> "Allocate", entity |-> work[t].next], work[t].next + 1)

\* A fact about the newest entity the caller knows of.
TxDefine(t, s) ==
    /\ pc[t] = "strict"
    /\ \E p \in Predicates, l \in Literals :
          Record(t, [kind |-> "Define", slot |-> s,
                     fact |-> Fact([entity |-> work[t].next - 1], p, [literal |-> l])],
                 work[t].next)

TxForget(t, s) == Record(t, [kind |-> "Forget", slot |-> s], work[t].next)

\* The world an intent insists on is the one its caller sees.
Stamped(intents) ==
    [i \in DOMAIN intents |->
        [intents[i] EXCEPT !.preconditions =
            [j \in DOMAIN @ |-> IF @[j].kind = "World"
                                THEN [kind |-> "World", world |-> current.id] ELSE @[j]]]]

\* A caller builds intents while looking at the current world.
BuildEpoch(t, intents) ==
    /\ pc[t] = "idle" /\ Len(store) < MaxFrames
    /\ pc' = [pc EXCEPT ![t] = "epoch"]
    /\ work' = [work EXCEPT ![t] = [kind |-> "epoch", intents |-> Stamped(intents)]]
    /\ UNCHANGED <<current, store, commitLock, validators, planned, answered>>

-----------------------------------------------------------------------------
(* commit, commit_queued_epoch, commit_durable_epoch.                        *)

TakeCommitLock(t) ==
    /\ pc[t] \in {"strict", "epoch"} /\ commitLock = Free
    /\ commitLock' = t
    /\ pc' = [pc EXCEPT ![t] = "locked"]
    /\ UNCHANGED <<current, store, validators, work, planned, answered>>

Finished(t) ==
    /\ commitLock' = Free
    /\ pc' = [pc EXCEPT ![t] = "idle"]
    /\ work' = [work EXCEPT ![t] = NoWork]
    /\ planned' = [planned EXCEPT ![t] = NoPlan]

\* Fault: the stale-transaction check is gone.
FreshAlways(t) == TRUE

\* The base world is still the current one.
Fresh(t) == work[t].base.id = current.id

\* What an epoch on a machine will publish and answer.
PlanOf(result) ==
    [tail |-> result.tail, frames |-> result.frames, outcomes |-> result.outcomes]

\* commit_durable_epoch evaluates every epoch on a machine made for it: the
\* allocator is the base's, the slots are empty.
DurablePlan(intents) ==
    PlanOf(Materialize(NewMaterializer(current.next), current, intents, validators))

\* The single-frame plan of a strict commit, or the plan of either epoch commit.
Plans(t) ==
    LET w == work[t]
    IN  IF w.kind = "strict"
        THEN IF /\ Fresh(t)
                /\ Applied(w.base, w.operations).ok
                /\ Accepts(validators, Candidate(w.base, w.operations))
             THEN LET c == Candidate(w.base, w.operations)
                  IN  {[tail |-> c, frames |-> <<CommitFrame(w.base, w.operations)>>,
                        outcomes |-> <<[accepted |-> TRUE, world |-> c.id,
                                        entities |-> [e \in w.base.next..(w.next - 1) |-> e]]>>]}
             ELSE {}
        ELSE {DeriveEpoch(current, w.intents, validators), DurablePlan(w.intents)}

\* Stale or invalid transaction, or an epoch with nothing accepted: the commit
\* ends with the store and the head as they were.
CommitRefused(t) ==
    /\ pc[t] = "locked"
    /\ Plans(t) = {} \/ \E p \in Plans(t) : p.frames = <<>>
    /\ Finished(t)
    /\ UNCHANGED <<current, store, validators, answered>>

AppendFrames(t) ==
    /\ pc[t] = "locked"
    /\ \E p \in Plans(t) :
        /\ p.frames # <<>>
        /\ Len(store) + Len(p.frames) <= MaxFrames
        /\ store' = store \o p.frames
        /\ planned' = [planned EXCEPT ![t] = p]
    /\ pc' = [pc EXCEPT ![t] = "appended"]
    /\ UNCHANGED <<current, commitLock, validators, work, answered>>

AppendFails(t) ==
    /\ pc[t] = "locked"
    /\ \E p \in Plans(t) : p.frames # <<>>
    /\ Finished(t)
    /\ UNCHANGED <<current, store, validators, answered>>

\* What a success tells its caller: the world, the entities, and the world the
\* caller had insisted on, if any.
Answers(t) ==
    LET w == work[t]
    IN  {[world |-> planned[t].outcomes[i].world,
          entities |-> Range(planned[t].outcomes[i].entities),
          position |-> i,
          insisted |-> IF w.kind = "strict" THEN {w.base.id}
                       ELSE {p.world : p \in {q \in Range(w.intents[i].preconditions) :
                                                 q.kind = "World"}}]
            : i \in {j \in DOMAIN planned[t].outcomes : planned[t].outcomes[j].accepted}}

\* Fault: the head stops at the first frame of an epoch.
PublishFirstFrame(t) ==
    /\ pc[t] = "appended"
    /\ current' = Reconstruct(SubSeq(store, 1, Len(store) + 1 - Len(planned[t].frames))).world
    /\ answered' = answered \cup Answers(t)
    /\ Finished(t)
    /\ UNCHANGED <<store, validators>>

Publish(t) ==
    /\ pc[t] = "appended"
    /\ current' = planned[t].tail
    /\ answered' = answered \cup Answers(t)
    /\ Finished(t)
    /\ UNCHANGED <<store, validators>>

-----------------------------------------------------------------------------

\* Fault: recovery leaves out the newest complete frame.
RestartBehind ==
    /\ UNCHANGED <<store, answered>>
    /\ current' = Reconstruct(IF store = <<>> THEN store ELSE Front(store)).world
    /\ commitLock' = Free
    /\ validators' = {}
    /\ pc' = [t \in Threads |-> "idle"]
    /\ work' = [t \in Threads |-> NoWork]
    /\ planned' = [t \in Threads |-> NoPlan]

\* The process stops; an append under way leaves a prefix of its frames.
\* Database::new rebuilds the head; validators are registered anew.
Restart ==
    /\ \E torn \in {<<>>} \cup
         UNION {UNION {{SubSeq(p.frames, 1, n) : n \in 0..Len(p.frames)} : p \in Plans(t)}
                   : t \in {u \in Threads : pc[u] = "locked"}} :
        /\ Len(store) + Len(torn) <= MaxFrames
        /\ store' = store \o torn
    /\ current' = Reconstruct(store').world
    /\ commitLock' = Free
    /\ validators' = {}
    /\ pc' = [t \in Threads |-> "idle"]
    /\ work' = [t \in Threads |-> NoWork]
    /\ planned' = [t \in Threads |-> NoPlan]
    /\ UNCHANGED answered

Epochs == UNION {[1..n -> Intents] : n \in 1..MaxEpoch}

DatabaseNext ==
    \/ \E v \in Validators : RegisterValidator(v)
    \/ \E t \in Writers :
        \/ Begin(t) \/ TxEntity(t)
        \/ \E s \in Slots : TxDefine(t, s) \/ TxForget(t, s)
    \/ \E t \in Committers, intents \in Epochs : BuildEpoch(t, intents)
    \/ \E t \in Threads :
        \/ TakeCommitLock(t) \/ CommitRefused(t)
        \/ AppendFrames(t) \/ AppendFails(t) \/ Publish(t)
    \/ Restart

DatabaseSpec == DatabaseInit /\ [][DatabaseNext]_databaseVars

-----------------------------------------------------------------------------
(* Properties.                                                               *)

Atoms == [literal : Literals] \cup [entity : Nat]
Facts == [subject : Atoms, predicate : Predicates, object : Atoms]

\* What a caller was told stays true: its world is an ancestor of (or is) the
\* current one, through later commits, failed appends and restarts; its
\* entities belong to it alone.
AnswersHold ==
    \A a \in answered :
        /\ IsPrefix(a.world, current.id)
        /\ \A b \in answered \ {a} : a.entities \cap b.entities = {}

\* Replaying the committed frames always succeeds, and gives exactly the world
\* readers see whenever no commit is between its append and its publication.
ReplayMatchesCurrent ==
    LET replay == Reconstruct(store)
    IN  /\ replay.ok
        /\ IsPrefix(current.id, replay.world.id)
        /\ (\A t \in Threads : pc[t] # "appended") => replay.world = current

\* A success that insisted on a predecessor (every strict transaction, every
\* intent with expect_world) produced the direct successor of that world.
SuccessFollowsInsistedWorld ==
    \A a \in answered : \A id \in a.insisted : Front(a.world) = id

\* Two plans that differ only in how many frames they make of an epoch.
SamePlan(chain, single) ==
    /\ single.tail.next = chain.tail.next
    /\ single.tail.stacks = chain.tail.stacks
    /\ DOMAIN single.outcomes = DOMAIN chain.outcomes
    /\ \A i \in DOMAIN single.outcomes :
        /\ single.outcomes[i].accepted = chain.outcomes[i].accepted
        /\ single.outcomes[i].accepted =>
             single.outcomes[i].entities = chain.outcomes[i].entities

\* derive_epoch_world is derive_epoch with the history collapsed: the same
\* verdicts, the same entities and the same resulting state, for any epoch on
\* the current world (evaluated once per world, when no caller is active).
CollapseAgrees ==
    (\A t \in Threads : pc[t] = "idle") => \A intents \in Epochs :
        SamePlan(DeriveEpoch(current, Stamped(intents), validators),
                 DeriveEpochWorld(current, Stamped(intents), validators))

\* The documented promise of a queued intent, for the durable commit: its
\* preconditions are checked against the predecessor the planner assigns it, so
\* an epoch gets the verdicts of derive_epoch_world.  commit_durable_epoch reads
\* slots from an empty machine instead, unless a validator is registered.
DurablePreconditionsHold ==
    (\A t \in Threads : pc[t] = "idle") => \A intents \in Epochs :
        LET chosen == DeriveEpochWorld(current, Stamped(intents), validators)
            durable == DurablePlan(Stamped(intents))
        IN  \A i \in DOMAIN intents :
                durable.outcomes[i].accepted = chosen.outcomes[i].accepted

-----------------------------------------------------------------------------

\* The committed frames are the history, the published world's version is the
\* position readers are at.
History == INSTANCE WorldHistory
             WITH history <- [i \in DOMAIN store |-> store[i].resulting_world],
                  head <- Version(current.id),
                  told <- answered

\* The database keeps its contract: history only grows and stays linear, the
\* head never goes back, also not through a restart, and a caller is told of a
\* success in the step that publishes it.
ImplementsWorldHistory == History!HistorySpec
=============================================================================
