----------------------------- MODULE MixedDatabase -----------------------------
(***************************************************************************)
(* A database whose epochs run on one long-lived stack machine             *)
(* (Database::commit_mixed_epoch with the materializer of the queued       *)
(* controller), next to strict writers that never touch the machine; the   *)
(* roots the machine publishes, and the readers of its worlds.             *)
(*                                                                         *)
(* commit_mixed_epoch runs under the commit lock, so it is one step here;  *)
(* the steps inside a commit are in Database.                              *)
(***************************************************************************)
EXTENDS MappedSnapshot, IntentFrames, TransactionAst

CONSTANTS
    Validators,        \* what register_validator may add
    MixedIntents,      \* the intents an epoch may hold
    Strict(_),         \* Strict(w): operations another writer may commit on w
    Queries,           \* sequences of patterns
    CodecIntents,      \* queued intents for the journal
    Trees,             \* transaction trees to lower
    MaxEpoch,          \* bound: intents of one epoch
    MaxFrames,         \* bound: frames in the store
    MaxRoots           \* bound: roots published by the machine

ASSUME MixedDatabaseAssumption == MaxEpoch \in Nat /\ MaxFrames \in Nat /\ MaxRoots \in Nat

VARIABLES
    current,     \* the published world
    frames,      \* the frames of the store, which are the world's history
    validators,  \* registered validators
    mat,         \* the materializer of the worker
    alive,       \* FALSE once the worker has panicked
    published    \* history: what each root showed when it was published

vars == <<current, frames, validators, mat, alive, published>>

Init ==
    /\ current = Genesis
    /\ frames = <<>>
    /\ validators = {}
    /\ mat = NewMaterializer(1)
    /\ alive = TRUE
    /\ published = <<>>

RegisterValidator(v) ==
    /\ validators' = validators \cup {v}
    /\ UNCHANGED <<current, frames, mat, alive, published>>

\* Database::commit of a transaction on the current world.
StrictCommit(operations) ==
    /\ Len(frames) < MaxFrames
    /\ Applied(current, operations).ok
    /\ Accepts(validators, Candidate(current, operations))
    /\ current' = Candidate(current, operations)
    /\ frames' = Append(frames, CommitFrame(current, operations))
    /\ UNCHANGED <<validators, mat, alive, published>>

\* What the epoch leaves behind; a panic ends the worker.
Settle(result) ==
    IF result.panicked
    THEN /\ alive' = FALSE
         /\ UNCHANGED <<current, frames, mat>>
    ELSE /\ current' = result.tail
         /\ frames' = frames \o result.frames
         /\ mat' = [result.mat EXCEPT !.version = Version(result.tail.id)]
         /\ UNCHANGED alive

\* commit_mixed_epoch: catch up with what others committed, run the epoch,
\* append and publish if anything was accepted.
CommitMixedEpoch(intents) ==
    /\ alive /\ Len(frames) < MaxFrames
    /\ Settle(MaterializeMixed(SynchronizeTo(mat, current, frames), current, intents, validators))
    /\ UNCHANGED <<validators, published>>

\* What the machine shows, token by token.
Shown(ws) == [t \in DOMAIN ws.heads |-> ResolveCells(ws, t)]

\* publish_epoch, which a user of the machine calls between epochs.
PublishEpoch ==
    /\ alive /\ Publishable(mat.ws) /\ Len(published) < MaxRoots
    /\ mat' = [mat EXCEPT !.ws = PublishRoot(@)]
    /\ published' = Append(published, Shown(mat.ws))
    /\ UNCHANGED <<current, frames, validators, alive>>

Epochs == UNION {[1..n -> MixedIntents] : n \in 1..MaxEpoch}

Next ==
    \/ \E v \in Validators : RegisterValidator(v)
    \/ \E operations \in Strict(current) : StrictCommit(operations)
    \/ \E intents \in Epochs : CommitMixedEpoch(intents)
    \/ PublishEpoch

Spec == Init /\ [][Next]_vars

-----------------------------------------------------------------------------
(* Properties.                                                               *)

InSync == mat.version = Version(current.id)

\* The definitions of a slot as the machine links them, oldest first.
Chain(m, slot) ==
    LET below[i \in 0..m.ws.records.frontier] ==
            IF i = NoRecord THEN <<>>
            ELSE LET r == m.ws.records.data[i]
                 IN  Append(below[r.previous],
                            FactFromCells(m, <<r.subject, r.predicate, r.object>>))
    IN  IF slot \in DOMAIN m.slots \cup Range(m.image.slots)
        THEN below[m.ws.heads[SlotToken(m, slot)]] ELSE <<>>

\* The documented promise of an expectation: it is compared with what the
\* predecessor world shows.  TrialVocabulary::commit stores the names of a tree
\* in the order of the names, though their cells were numbered by first use, so
\* a tree that uses them in another order leaves slots that read back wrong.
ExpectationsSeeWorld ==
    InSync => \A s \in Slots : MaterializerResolve(mat, s) = Resolve(current.stacks, s)

QueuedEpochs == {e \in Epochs : \A i \in DOMAIN e : e[i].kind = "queued"}

\* The machine that was kept, one synchronized from the frames, and one opened
\* from a mapped image.
Machines ==
    {mat, SynchronizeTo(NewMaterializer(1), current, frames),
     MaterializerFromMmap(CreateImage(frames), current.next)}

SameEpoch(derived, planned) ==
    /\ derived.outcomes = planned.outcomes
    /\ derived.tail = planned.tail
    /\ derived.frames = planned.frames

\* Whichever way the machine was brought to a world (kept from earlier epochs,
\* synchronized from the frames, opened from a mapped image), it gives an epoch
\* of queued intents the verdicts, entities and world that derive_epoch_world
\* gives it.
VerdictsAgree ==
    InSync => \A m \in Machines : \A epoch \in QueuedEpochs :
        SameEpoch(DeriveVmEpoch(m, current, epoch), DeriveEpochWorld(current, epoch, {}))

\* The patterns over the columns of a row of cells.
CellPatterns(cells) ==
    LET row == [subject |-> cells[1], predicate |-> cells[2], object |-> cells[3]]
    IN  {[c \in columns |-> row[c]] : columns \in (SUBSET Columns) \ {{}}}

ShownMatching(shown, pattern) ==
    {t \in DOMAIN shown : shown[t] # <<>> /\ pattern \in CellPatterns(shown[t])}

\* A published root never changes: however many intents ran, failed and were
\* overwritten after it, every reader of a root (slot lookup, index scan,
\* compacted base with a layer of deltas) sees what was visible when it was
\* published.
RootsImmutable ==
    \A n \in DOMAIN published :
        LET root == mat.ws.roots[n]
            patterns == UNION {UNION {CellPatterns(published[k][t])
                                        : t \in {u \in DOMAIN published[k] : published[k][u] # <<>>}}
                                 : k \in DOMAIN published}
        IN  /\ \A t \in DOMAIN published[n] :
                ResolveObjectAt(mat.ws, root, t)
                    = IF published[n][t] = <<>> THEN <<>> ELSE <<published[n][t][3]>>
            /\ \A p \in patterns :
                /\ SlotsOf(QuerySlots(mat.ws, root, p)) = ShownMatching(published[n], p)
                /\ \A b \in 1..n :
                    LET base == CompactBase(mat.ws, mat.ws.roots[b])
                        tail == LayeredTail(mat.ws, base, root)
                    IN  /\ SlotsOf(LayeredSlots(base, tail, p)) = ShownMatching(published[n], p)
                        /\ LayeredCount(base, tail, p)
                             = Cardinality(ShownMatching(published[n], p))

\* The machine shows the world it published: after any mixture of accepted,
\* rejected and half-executed intents, and of frames other writers committed,
\* every slot has the world's definitions, shadowed ones included, under the
\* names the dictionaries give back; the allocator agrees; the frames replay to
\* that world; and the roots published earlier still show theirs.
VmShowsWorld ==
    /\ RootsImmutable
    /\ Reconstruct(frames).ok /\ Reconstruct(frames).world = current
    /\ InSync =>
        /\ mat.ws.next = current.next
        /\ \A s \in Slots : /\ Chain(mat, s) = current.stacks[s]
                            /\ MaterializerResolve(mat, s) = Resolve(current.stacks, s)

QueryOptions(optimize, distinct, provenance) ==
    [optimize |-> optimize, distinct |-> distinct, provenance |-> provenance, limit |-> 0]

\* The options the readers are asked with.
OptionSet == {QueryOptions(FALSE, FALSE, TRUE), QueryOptions(TRUE, TRUE, FALSE)}

AnswersAgree(projected, mapped, q) ==
    /\ \A options \in OptionSet : Answer(projected, q, options) = Answer(mapped, q, options)
    /\ \A source \in {projected, mapped} :
        AnswerBindings(Answer(source, q, QueryOptions(TRUE, FALSE, TRUE)))
          = JoinBindings(projected.active, q)

ReadersAgree(image, projected) ==
    /\ ValidateImage(image)
    /\ \A s \in Slots : MappedDefinitions(image, s) = ProjectionDefinitions(frames, s)
    /\ \A q \in Queries : AnswersAgree(projected, MappedSource(image, current.next), q)

\* The projection readers build from the frames and the image mapped from a
\* file answer alike (rows and the slots they come from, with and without the
\* optimizer), both answer exactly what the conjunction of patterns means, and
\* both list the same shadowed definitions; the image passes its validation.
QueriesAgree == ReadersAgree(CreateImage(frames), ProjectionSource(frames))

RefusesPrefixes(words) ==
    \A n \in 0..(Len(words) - 1) : ~DecodeIntent(SubSeq(words, 1, n)).ok

StreamRoundTrips(lowered, words) ==
    DecodeFrame(words) = [ok |-> TRUE, consumed |-> Len(words), frame |-> lowered]

\* An intent comes back from the journal as it was admitted, in either form, a
\* lowered tree comes back as it was lowered, and a frame cut short anywhere is
\* refused rather than read as a shorter one.
FramesRoundTrip ==
    frames = <<>> =>
        /\ \A intent \in CodecIntents :
            \A words \in {EncodeIntent(intent), EncodeQueuedIntent(intent)} :
                /\ DecodeIntent(words) = [ok |-> TRUE, intent |-> intent]
                /\ RefusesPrefixes(words)
        /\ \A ast \in {t \in Trees : Lowerable(t)} :
            LET lowered == LowerFromSource(7, ast)
            IN  StreamRoundTrips(lowered, EncodeFrame(lowered))

\* Every symbol is allocated before it is used.
AllocatedBeforeUse(ast) ==
    \A i \in DOMAIN ast : \A atom \in AtomsOf(ast[i]) :
        "symbol" \in DOMAIN atom =>
            \E j \in 1..(i - 1) : ast[j].op = "Allocate" /\ ast[j].result = atom.symbol

\* An allocator above every token, so that cells tell entities from names.
FirstEntity == 100

\* The empty world with that allocator, and what a tree makes of it.
Ground == [Genesis EXCEPT !.next = FirstEntity]

Meaning(ast) == Applied(Ground, Synthesized(ast, FirstEntity))

\* The world before operation i: the allocations are numbered over the tree.
Before(ast, i) ==
    Applied(Ground, SubSeq(Synthesized(ast, FirstEntity), 1,
                           Len(Synthesized(SubSeq(ast, 1, i - 1), FirstEntity))))

OpHolds(op, before) ==
    CASE op.op = "Reject" -> FALSE
      [] op.op = "ExpectObject" ->
             /\ Resolve(before.stacks, op.slot) # Absent
             /\ Resolve(before.stacks, op.slot).object = op.expected
      [] op.op = "ExpectWorld" -> op.expected = <<>>
      [] OTHER -> TRUE

\* What a tree means on an empty world: the operations up to each expectation
\* must make it true.
TreeHolds(ast) == \A i \in DOMAIN ast : OpHolds(ast[i], Before(ast, i))

\* The fact of a machine's cells under a stream's own tables.
StreamFact(lowered, cells) ==
    LET atom(cell) == IF cell >= FirstEntity THEN [entity |-> cell]
                      ELSE [literal |-> NameOf(lowered.literals, cell)]
    IN  IF cells = <<>> THEN Absent
        ELSE Fact(atom(cells[1]), NameOf(lowered.predicates, cells[2]), atom(cells[3]))

RunShows(lowered, ws, meant) ==
    /\ ws.next = meant.next
    /\ \A i \in DOMAIN lowered.slots :
        Resolve(meant.stacks, lowered.slots[i][2])
          = StreamFact(lowered, ResolveCells(ws, lowered.slots[i][1]))

RunFaithful(lowered, run, ast) ==
    /\ run.accepted = TreeHolds(ast)
    /\ run.accepted => RunShows(lowered, run.ws, Meaning(ast))

RunLowered(lowered) ==
    ExecuteInstructions(NewWorkspace(Len(lowered.slots), FirstEntity), lowered.locals,
                        lowered.code)

\* The lowered stream, executed on an empty machine, is accepted exactly when
\* the tree holds, and then shows exactly the facts the tree's operations make
\* visible, under the names of the stream's own tables.
LoweringFaithful ==
    frames = <<>> => \A ast \in {t \in Trees : Lowerable(t) /\ AllocatedBeforeUse(t)} :
        LET lowered == LowerFromSource(7, ast)
        IN  RunFaithful(lowered, RunLowered(lowered), ast)
=============================================================================
