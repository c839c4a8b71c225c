------------------------------- MODULE StackVm -------------------------------
(***************************************************************************)
(* The stack machine that executes intents (stack_vm.rs): a workspace of   *)
(* append-only arenas with frontiers, trial execution with rollback, world *)
(* roots over the frontiers, and the three ways to query a root.           *)
(*                                                                         *)
(* An arena keeps what lies beyond its frontier until it is overwritten,   *)
(* and the operand stack keeps its old cells: rejecting a program only     *)
(* moves frontiers.  Record references count from one, NoRecord is NONE;   *)
(* the FNV hash of the accepted records is taken to be collision-free, so  *)
(* it is the list of them.                                                 *)
(***************************************************************************)
EXTENDS Integers, Sequences, FiniteSets, SequencesExt

CONSTANTS
    StackSize     \* cells of the operand stack

ASSUME StackVmAssumption == StackSize \in Nat

NoRecord == 0

\* The argument of ExpectObject that asks for the world instead of a slot.
WorldArgument == -1

Instr(op, arg, imm) == [op |-> op, arg |-> arg, imm |-> imm]

-----------------------------------------------------------------------------
(* PodArena.                                                                 *)

EmptyArena == [data |-> <<>>, frontier |-> 0]

ArenaPush(arena, value) ==
    [data |-> IF arena.frontier = Len(arena.data) THEN Append(arena.data, value)
              ELSE [arena.data EXCEPT ![arena.frontier + 1] = value],
     frontier |-> arena.frontier + 1]

Active(arena) == SubSeq(arena.data, 1, arena.frontier)

-----------------------------------------------------------------------------
(* Workspace.  heads maps a slot token to its visible record.                *)

NewWorkspace(slotCount, nextEntity) ==
    [stack |-> [i \in 1..StackSize |-> 0], sp |-> 0, frame |-> 0,
     records |-> EmptyArena, deltas |-> EmptyArena, indexDeltas |-> EmptyArena,
     roots |-> <<>>, heads |-> [t \in 0..(slotCount - 1) |-> NoRecord],
     next |-> nextEntity, hash |-> <<>>, error |-> FALSE]

EnsureSlotCount(ws, slotCount) ==
    [ws EXCEPT !.heads = [t \in DOMAIN @ \cup 0..(slotCount - 1) |->
                             IF t \in DOMAIN @ THEN @[t] ELSE NoRecord]]

\* The visible record of a slot inside a trial: the newest delta of the trial
\* on that slot, else the accepted head.
TrialHead(ws, slot, checkpoint) ==
    LET trial == {i \in (checkpoint.deltas + 1)..ws.deltas.frontier :
                     ws.deltas.data[i].slot = slot}
    IN  IF trial = {} THEN ws.heads[slot]
        ELSE ws.deltas.data[CHOOSE i \in trial : \A j \in trial : j <= i].visible

Orders == {"spo", "pos", "osp"}

Permuted(permutation, r) ==
    CASE permutation = "spo" -> <<r.subject, r.predicate, r.object>>
      [] permutation = "pos" -> <<r.predicate, r.object, r.subject>>
      [] permutation = "osp" -> <<r.object, r.subject, r.predicate>>

\* Three index deltas for a record that becomes or stops being visible.
AppendFactIndexes(arena, record, index, added) ==
    FoldLeft(LAMBDA a, permutation :
                 ArenaPush(a, [permutation |-> permutation, added |-> added,
                               key |-> Permuted(permutation, record),
                               record |-> index, slot |-> record.slot]),
             arena, <<"spo", "pos", "osp">>)

IndexRecord(arena, ws, index, added) ==
    IF index = NoRecord THEN arena
    ELSE AppendFactIndexes(arena, ws.records.data[index], index, added)

AppendIndexTransition(ws, previous, resulting) ==
    [ws EXCEPT !.indexDeltas = IndexRecord(IndexRecord(@, ws, previous, FALSE),
                                           ws, resulting, TRUE)]

\* A record that changes what is visible in its slot, with its deltas.
AppendChange(ws, record, previous, resulting) ==
    AppendIndexTransition(
        [ws EXCEPT !.records = ArenaPush(@, record),
                   !.deltas = ArenaPush(@, [slot |-> record.slot, visible |-> resulting])],
        previous, resulting)

DefineFact(ws, slot, subject, predicate, object, checkpoint) ==
    LET previous == TrialHead(ws, slot, checkpoint)
        index == ws.records.frontier + 1
    IN  AppendChange(ws, [kind |-> "define", slot |-> slot, subject |-> subject,
                          predicate |-> predicate, object |-> object,
                          previous |-> previous, visible |-> index],
                     previous, index)

ForgetFact(ws, slot, checkpoint) ==
    LET previous == TrialHead(ws, slot, checkpoint)
        revealed == IF previous = NoRecord THEN NoRecord ELSE ws.records.data[previous].previous
    IN  AppendChange(ws, [kind |-> "forget", slot |-> slot, subject |-> 0, predicate |-> 0,
                          object |-> 0, previous |-> previous, visible |-> revealed],
                     previous, revealed)

-----------------------------------------------------------------------------
(* execute_instructions.                                                     *)

Failed(ws) == [ws EXCEPT !.error = TRUE]

PushCell(ws, cell) ==
    IF ws.sp = StackSize THEN Failed(ws)
    ELSE [ws EXCEPT !.stack[ws.sp + 1] = cell, !.sp = @ + 1]

\* The n cells below the top, when the frame holds that many.
Poppable(ws, n) == ws.sp - n >= ws.frame

LocalIndex(ws, local) == ws.frame + local + 1

\* Fault: an expectation reads the accepted head, not the trial's own.
ExpectAccepted(ws, ins, checkpoint) ==
    LET head == ws.heads[ins.arg]
    IN  IF head # NoRecord /\ ws.records.data[head].object = ins.imm THEN ws ELSE Failed(ws)

ExpectObject(ws, ins, checkpoint) ==
    LET head == TrialHead(ws, ins.arg, checkpoint)
    IN  IF head # NoRecord /\ ws.records.data[head].object = ins.imm THEN ws ELSE Failed(ws)

ExecuteInstruction(ws, ins, checkpoint) ==
    IF ws.error THEN ws
    ELSE IF ins.op = "ExpectObject" /\ ins.arg = WorldArgument
    THEN (IF ws.hash = ins.imm THEN ws ELSE Failed(ws))
    ELSE IF ins.op \in {"ExpectObject", "Define", "Forget"} /\ ins.arg \notin DOMAIN ws.heads
    THEN Failed(ws) ELSE
    CASE ins.op = "ExpectObject" -> ExpectObject(ws, ins, checkpoint)
      [] ins.op = "Allocate" -> PushCell([ws EXCEPT !.next = @ + 1], ws.next)
      [] ins.op = "AllocateDiscard" -> [ws EXCEPT !.next = @ + 1]
      [] ins.op = "LoadLocal" ->
             IF LocalIndex(ws, ins.arg) > ws.sp THEN Failed(ws)
             ELSE PushCell(ws, ws.stack[LocalIndex(ws, ins.arg)])
      [] ins.op = "StoreLocal" ->
             IF ~Poppable(ws, 1) \/ LocalIndex(ws, ins.arg) > ws.sp - 1 THEN Failed(ws)
             ELSE [ws EXCEPT !.stack[LocalIndex(ws, ins.arg)] = ws.stack[ws.sp], !.sp = @ - 1]
      [] ins.op = "PushCell" -> PushCell(ws, ins.imm)
      [] ins.op = "Define" ->
             IF ~Poppable(ws, 3) THEN Failed(ws)
             ELSE DefineFact([ws EXCEPT !.sp = @ - 3], ins.arg, ws.stack[ws.sp - 2],
                             ws.stack[ws.sp - 1], ws.stack[ws.sp], checkpoint)
      [] ins.op = "Forget" -> ForgetFact(ws, ins.arg, checkpoint)
      [] ins.op = "Reject" -> Failed(ws)

Checkpoint(ws) ==
    [sp |-> ws.sp, frame |-> ws.frame, records |-> ws.records.frontier,
     deltas |-> ws.deltas.frontier, indexDeltas |-> ws.indexDeltas.frontier, next |-> ws.next]

\* Fault: the index deltas of a rejected program stay.
RollbackKeepsIndex(ws, c) ==
    [ws EXCEPT !.sp = c.sp, !.frame = c.frame, !.records.frontier = c.records,
               !.deltas.frontier = c.deltas, !.next = c.next, !.error = FALSE]

Rollback(ws, c) ==
    [ws EXCEPT !.sp = c.sp, !.frame = c.frame, !.records.frontier = c.records,
               !.deltas.frontier = c.deltas, !.indexDeltas.frontier = c.indexDeltas,
               !.next = c.next, !.error = FALSE]

\* The trial's deltas become the accepted heads, in order.
Accept(ws, c) ==
    LET trial == SubSeq(ws.deltas.data, c.deltas + 1, ws.deltas.frontier)
    IN  [ws EXCEPT !.sp = c.sp, !.frame = c.frame,
                   !.heads = FoldLeft(LAMBDA heads, d : [heads EXCEPT ![d.slot] = d.visible],
                                      @, trial),
                   !.hash = @ \o SubSeq(ws.records.data, c.records + 1, ws.records.frontier)]

\* The locals are reserved, not cleared.
EnterFrame(ws, localCount) ==
    IF ws.sp + localCount > StackSize THEN Failed(ws)
    ELSE [ws EXCEPT !.frame = ws.sp, !.sp = @ + localCount]

EndTrial(ws, c) ==
    IF ws.error THEN [accepted |-> FALSE, ws |-> Rollback(ws, c)]
    ELSE [accepted |-> TRUE, ws |-> Accept(ws, c)]

ExecuteInstructions(ws, localCount, instructions) ==
    LET c == Checkpoint(ws)
    IN  EndTrial(FoldLeft(LAMBDA w, ins : ExecuteInstruction(w, ins, c),
                          EnterFrame(ws, localCount), instructions), c)

\* resolve_fact_cells: what a slot shows, as cells.
ResolveCells(ws, slot) ==
    IF slot \in DOMAIN ws.heads /\ ws.heads[slot] # NoRecord
    THEN LET r == ws.records.data[ws.heads[slot]]
         IN  <<r.subject, r.predicate, r.object>>
    ELSE <<>>

-----------------------------------------------------------------------------
(* World roots and their readers.                                            *)

\* publish_epoch: nothing to publish unless a record was accepted since.
Publishable(ws) ==
    ws.records.frontier # (IF ws.roots = <<>> THEN 0 ELSE Last(ws.roots).records)

PublishRoot(ws) ==
    [ws EXCEPT !.roots = Append(@, [version |-> Len(@) + 1, records |-> ws.records.frontier,
                                    deltas |-> ws.deltas.frontier,
                                    indexDeltas |-> ws.indexDeltas.frontier,
                                    allocator |-> ws.next, world |-> ws.hash])]

\* resolve_object_at: the newest delta of the slot below the root's frontier.
ResolveObjectAt(ws, root, slot) ==
    LET own == {i \in 1..root.deltas : ws.deltas.data[i].slot = slot}
        visible == ws.deltas.data[CHOOSE i \in own : \A j \in own : j <= i].visible
    IN  IF own = {} \/ visible = NoRecord THEN <<>>
        ELSE <<ws.records.data[visible].object>>

\* The permutation that has the bound columns of a pattern as a prefix, and
\* that prefix.
QueryKey(pattern) ==
    LET bound == DOMAIN pattern
        permutation == CASE bound = {"subject"} \/ bound = {"subject", "predicate"}
                              \/ bound = {"subject", "predicate", "object"} -> "spo"
                         [] bound = {"predicate"} \/ bound = {"predicate", "object"} -> "pos"
                         [] bound = {"object"} \/ bound = {"subject", "object"} -> "osp"
        whole == [c \in {"subject", "predicate", "object"} |->
                     IF c \in bound THEN pattern[c] ELSE 0]
    IN  [permutation |-> permutation,
         prefix |-> SubSeq(Permuted(permutation, whole), 1, Cardinality(bound))]

MatchesIndex(delta, pattern) ==
    /\ delta.permutation = QueryKey(pattern).permutation
    /\ IsPrefix(QueryKey(pattern).prefix, delta.key)

\* Applying a delta to the active entries collected so far.
Advance(entries, delta) ==
    LET e == [record |-> delta.record, slot |-> delta.slot]
    IN  IF delta.added THEN Append(entries, e) ELSE RemoveFirst(entries, e)

Matching(deltas, pattern) == SelectSeq(deltas, LAMBDA d : MatchesIndex(d, pattern))

\* The slots of the entries; they are returned sorted, and no slot twice.
SlotsOf(entries) == {entries[i].slot : i \in DOMAIN entries}

QuerySlots(ws, root, pattern) ==
    FoldLeft(Advance, <<>>, Matching(SubSeq(ws.indexDeltas.data, 1, root.indexDeltas), pattern))

\* compact_base: the facts active at a root, read off one permutation and
\* laid out in three.
CompactBase(ws, root) ==
    LET spo == SelectSeq(SubSeq(ws.indexDeltas.data, 1, root.indexDeltas),
                         LAMBDA d : d.permutation = "spo")
        active == FoldLeft(LAMBDA s, d : IF d.added THEN s \cup {d}
                                         ELSE {e \in s : e.record # d.record}, {}, spo)
        rotated(permutation, k) == CASE permutation = "spo" -> k
                                     [] permutation = "pos" -> <<k[2], k[3], k[1]>>
                                     [] permutation = "osp" -> <<k[3], k[1], k[2]>>
    IN  [root |-> root,
         entries |-> [permutation \in Orders |->
                         {[key |-> rotated(permutation, d.key), record |-> d.record,
                           slot |-> d.slot] : d \in active}]]

\* compact_prefix_range: the entries that start with the prefix.
PrefixRange(base, pattern) ==
    {e \in base.entries[QueryKey(pattern).permutation] :
        IsPrefix(QueryKey(pattern).prefix, e.key)}

\* layered_snapshot: the deltas between the base's root and a later one.
LayeredTail(ws, base, root) ==
    SubSeq(ws.indexDeltas.data, base.root.indexDeltas + 1, root.indexDeltas)

LayeredSlots(base, tail, pattern) ==
    FoldLeft(Advance,
             SetToSeq({[record |-> e.record, slot |-> e.slot] : e \in PrefixRange(base, pattern)}),
             Matching(tail, pattern))

LayeredCount(base, tail, pattern) ==
    FoldLeft(LAMBDA n, d : IF d.added THEN n + 1 ELSE n - 1,
             Cardinality(PrefixRange(base, pattern)), Matching(tail, pattern))
=============================================================================
