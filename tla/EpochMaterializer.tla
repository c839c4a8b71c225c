--------------------------- MODULE EpochMaterializer ---------------------------
(***************************************************************************)
(* VmEpochMaterializer of queued.rs: epochs of intents evaluated on the    *)
(* stack machine, through dictionaries that give slots, predicates and     *)
(* literals their tokens.  An intent is a queued one or a semantic one (a  *)
(* transaction tree over symbols).                                         *)
(*                                                                         *)
(* Dictionaries only grow, and the names of a mapped image come first.     *)
(* A materializer that was not opened from an image has the empty image.   *)
(***************************************************************************)
EXTENDS EpochPlanner, StackVm

\* Cells from here on are literals, the ones below are entities.  (2^63 in the
\* code; larger than any entity the bounds reach.)
LiteralBase == 1000

EmptyImage == [slots |-> <<>>, predicates |-> <<>>, literals |-> <<>>]

NewMaterializer(nextEntity) ==
    [ws |-> NewWorkspace(0, nextEntity), version |-> 0, image |-> EmptyImage,
     slots |-> <<>>, predicates |-> <<>>, predicateValues |-> <<>>,
     literals |-> <<>>, literalValues |-> <<>>]

\* The token a name has in a string table of an image.
TableToken(table, name) == (CHOOSE i \in DOMAIN table : table[i] = name) - 1

\* A dictionary with one more name.
WithName(dictionary, name, token) ==
    [n \in DOMAIN dictionary \cup {name} |-> IF n = name THEN token ELSE dictionary[n]]

-----------------------------------------------------------------------------
(* Names and cells.                                                          *)

InternSlot(mat, slot) ==
    LET token == Len(mat.image.slots) + Cardinality(DOMAIN mat.slots)
    IN  IF slot \in DOMAIN mat.slots \cup Range(mat.image.slots) THEN mat
        ELSE [mat EXCEPT !.slots = WithName(@, slot, token),
                         !.ws = EnsureSlotCount(@, token + 1)]

SlotToken(mat, slot) ==
    IF slot \in DOMAIN mat.slots THEN mat.slots[slot] ELSE TableToken(mat.image.slots, slot)

InternPredicate(mat, predicate) ==
    LET cell == Len(mat.image.predicates) + Cardinality(DOMAIN mat.predicates)
    IN  IF predicate \in DOMAIN mat.predicates \cup Range(mat.image.predicates) THEN mat
        ELSE [mat EXCEPT !.predicates = WithName(@, predicate, cell),
                         !.predicateValues = Append(@, predicate)]

PredicateCell(mat, predicate) ==
    IF predicate \in DOMAIN mat.predicates THEN mat.predicates[predicate]
    ELSE TableToken(mat.image.predicates, predicate)

\* atom_cell: an entity is its own cell.
InternAtom(mat, atom) ==
    LET cell == LiteralBase + Len(mat.image.literals) + Len(mat.literalValues)
    IN  IF "entity" \in DOMAIN atom
           \/ atom.literal \in DOMAIN mat.literals \cup Range(mat.image.literals) THEN mat
        ELSE [mat EXCEPT !.literals = WithName(@, atom.literal, cell),
                         !.literalValues = Append(@, atom.literal)]

AtomCell(mat, atom) ==
    IF "entity" \in DOMAIN atom THEN atom.entity
    ELSE IF atom.literal \in DOMAIN mat.literals THEN mat.literals[atom.literal]
    ELSE LiteralBase + TableToken(mat.image.literals, atom.literal)

\* atom_from_cell and predicate_from_cell: the reverse lookups, by position.
LiteralValues(mat) == mat.image.literals \o mat.literalValues

AtomFromCell(mat, cell) ==
    IF cell < LiteralBase THEN [entity |-> cell]
    ELSE [literal |-> LiteralValues(mat)[cell - LiteralBase + 1]]

PredicateFromCell(mat, cell) == (mat.image.predicates \o mat.predicateValues)[cell + 1]

FactFromCells(mat, cells) ==
    Fact(AtomFromCell(mat, cells[1]), PredicateFromCell(mat, cells[2]),
         AtomFromCell(mat, cells[3]))

\* resolve_fact: what a slot shows, or Absent.
MaterializerResolve(mat, slot) ==
    LET known == slot \in DOMAIN mat.slots \cup Range(mat.image.slots)
        cells == ResolveCells(mat.ws, SlotToken(mat, slot))
    IN  IF ~known \/ cells = <<>> THEN Absent ELSE FactFromCells(mat, cells)

-----------------------------------------------------------------------------
(* Queued intents.                                                           *)

\* The names of a fact, in the order they are looked up.
InternFact(mat, slot, fact) ==
    InternAtom(InternPredicate(InternAtom(InternSlot(mat, slot), fact.subject), fact.predicate),
               fact.object)

EmitDefine(code, mat, slot, fact) ==
    [mat |-> mat,
     code |-> code \o <<Instr("PushCell", 0, AtomCell(mat, fact.subject)),
                        Instr("PushCell", 0, PredicateCell(mat, fact.predicate)),
                        Instr("PushCell", 0, AtomCell(mat, fact.object)),
                        Instr("Define", SlotToken(mat, slot), 0)>>]

EmitOnSlot(code, mat, slot, op, imm) ==
    [mat |-> mat, code |-> Append(code, Instr(op, SlotToken(mat, slot), imm))]

\* One operation of compile_operations; acc has the materializer, whose
\* dictionaries grow, and the instructions.
CompileOperation(acc, op) ==
    CASE op.kind = "Allocate" ->
             [acc EXCEPT !.code = Append(@, Instr("AllocateDiscard", 0, 0))]
      [] op.kind = "Define" ->
             EmitDefine(acc.code, InternFact(acc.mat, op.slot, op.fact), op.slot, op.fact)
      [] op.kind = "Forget" ->
             EmitOnSlot(acc.code, InternSlot(acc.mat, op.slot), op.slot, "Forget", 0)

CompileOperations(mat, operations) ==
    FoldLeft(CompileOperation, [mat |-> mat, code |-> <<>>], operations)

\* A materializer whose machine has executed, and what the machine said.
Executed(mat, done) == [accepted |-> done.accepted, mat |-> [mat EXCEPT !.ws = done.ws]]

ExecuteCompiled(compiled) ==
    Executed(compiled.mat, ExecuteInstructions(compiled.mat.ws, 0, compiled.code))

ExecuteOperations(mat, operations) == ExecuteCompiled(CompileOperations(mat, operations))

\* The operations of every frame, one frame after the other.
FollowFrames(mat, frames) ==
    FoldLeft(LAMBDA m, f : ExecuteOperations(m, f.operations).mat, mat, frames)

\* check_preconditions of the materializer: slots are read from the machine.
MaterializerPreconditions(mat, predecessor, pres) ==
    \A p \in Range(pres) :
        CASE p.kind = "World" -> p.world = predecessor
          [] p.kind = "Slot" -> MaterializerResolve(mat, p.slot) = p.expected

\* Fault: frames already applied are applied again.
SynchronizeReapplies(mat, base, frames) ==
    LET start == IF mat.version = 0 THEN [mat EXCEPT !.ws = NewWorkspace(0, 1)] ELSE mat
    IN  IF mat.version = Version(base.id) THEN mat
        ELSE [FollowFrames(start, frames) EXCEPT !.version = Version(base.id)]

\* synchronize_to: the frames the materializer has not seen, from the start
\* when it has seen none.
SynchronizeTo(mat, base, frames) ==
    LET start == IF mat.version = 0 THEN [mat EXCEPT !.ws = NewWorkspace(0, 1)] ELSE mat
        missing == SelectSeq(frames, LAMBDA f : f.parent_version + 1 > mat.version)
    IN  IF mat.version = Version(base.id) THEN mat
        ELSE [FollowFrames(start, missing) EXCEPT !.version = Version(base.id)]

\* The evolving state of an epoch on the materializer.
EpochStart(mat, base) ==
    [mat |-> mat, predecessor |-> base.id, operations |-> <<>>, outcomes |-> <<>>,
     panicked |-> FALSE]

EpochAccepts(space, mat, operations, entities) ==
    [space EXCEPT !.mat = mat,
                  !.predecessor = WorldId(@, Version(@) + 1, mat.ws.next, operations),
                  !.operations = @ \o operations,
                  !.outcomes = Append(@, [accepted |-> TRUE, entities |-> entities])]

EpochRejects(space, mat) ==
    [space EXCEPT !.mat = mat, !.outcomes = Append(@, Rejected)]

\* The verdict on resolved operations that were executed.
ExecutedVerdict(space, r, done) ==
    IF done.accepted THEN EpochAccepts(space, done.mat, r.operations, r.bound)
    ELSE EpochRejects(space, done.mat)

\* One queued intent, on the path without host validators.
QueuedOnVm(space, intent) ==
    LET r == ResolveOperations(space.mat.ws.next, intent)
    IN  IF /\ MaterializerPreconditions(space.mat, space.predecessor, intent.preconditions)
           /\ r.ok
        THEN ExecutedVerdict(space, r, ExecuteOperations(space.mat, r.operations))
        ELSE EpochRejects(space, space.mat)

\* from_vm_epoch: one frame and one world for the accepted operations, or
\* nothing when every intent was rejected.  The world's state is what replaying
\* its frames gives.
EpochResult(space, base) ==
    LET next == space.mat.ws.next
        id == WorldId(base.id, Version(base.id) + 1, next, space.operations)
        none == \A i \in DOMAIN space.outcomes : ~space.outcomes[i].accepted
    IN  [mat |-> space.mat, panicked |-> space.panicked,
         tail |-> IF none THEN base
                  ELSE [id |-> id, next |-> next, stacks |-> Applied(base, space.operations).stacks],
         frames |-> IF none THEN <<>>
                    ELSE <<[parent_world |-> base.id, parent_version |-> Version(base.id),
                            resulting_world |-> id, resulting_version |-> Version(base.id) + 1,
                            resulting_allocator |-> next, operations |-> space.operations]>>,
         outcomes |-> [i \in DOMAIN space.outcomes |->
                          IF space.outcomes[i].accepted
                          THEN [accepted |-> TRUE, world |-> id,
                                entities |-> space.outcomes[i].entities]
                          ELSE Rejected]]

\* derive_vm_epoch.
DeriveVmEpoch(mat, base, intents) ==
    EpochResult(FoldLeft(QueuedOnVm, EpochStart(mat, base), intents), base)

PlanFollowed(mat, plan) ==
    [mat |-> FollowFrames(mat, plan.frames), panicked |-> FALSE, tail |-> plan.tail,
     frames |-> plan.frames, outcomes |-> plan.outcomes]

\* materialize: with host validators the planner decides and the machine only
\* follows; without them the machine decides.
Materialize(mat, base, intents, validators) ==
    IF validators = {} THEN DeriveVmEpoch(mat, base, intents)
    ELSE PlanFollowed(mat, DeriveEpochWorld(base, intents, validators))
=============================================================================
