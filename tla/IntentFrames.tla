------------------------------ MODULE IntentFrames ------------------------------
(***************************************************************************)
(* What a queued intent becomes in the journal (queued.rs): an instruction *)
(* stream with its own dictionary, or the older tagged form, and the way   *)
(* back.  Nothing is executed: the decoder reads the operations off the    *)
(* instructions.                                                           *)
(***************************************************************************)
EXTENDS EpochMaterializer, SemanticIsa

-----------------------------------------------------------------------------
(* compile_to_stream_frame.  The dictionary is numbered by first use, as a   *)
(* new materializer numbers its names.                                       *)

LoadIntentAtom(mat, atom) ==
    IF "temporary" \in DOMAIN atom THEN Instr("LoadLocal", atom.temporary, 0)
    ELSE Instr("PushCell", 0, AtomCell(mat, atom))

InternIntentAtom(mat, atom) == IF "temporary" \in DOMAIN atom THEN mat ELSE InternAtom(mat, atom)

InternIntentFact(mat, slot, fact) ==
    InternIntentAtom(InternPredicate(InternIntentAtom(InternSlot(mat, slot), fact.subject),
                                     fact.predicate),
                     fact.object)

\* The cells of a fact, then the instruction that takes them.
EmitIntentFact(code, mat, slot, fact, op, imm) ==
    [mat |-> mat,
     code |-> code \o <<LoadIntentAtom(mat, fact.subject),
                        Instr("PushCell", 0, PredicateCell(mat, fact.predicate)),
                        LoadIntentAtom(mat, fact.object),
                        Instr(op, SlotToken(mat, slot), imm)>>]

CompileFact(acc, slot, fact, op, imm) ==
    EmitIntentFact(acc.code, InternIntentFact(acc.mat, slot, fact), slot, fact, op, imm)

CompileBare(acc, slot, op, imm) ==
    EmitOnSlot(acc.code, InternSlot(acc.mat, slot), slot, op, imm)

CompilePrecondition(acc, p) ==
    CASE p.kind = "World" ->
             [acc EXCEPT !.code = Append(@, Instr("ExpectObject", WorldArgument, p.world))]
      [] p.kind = "Slot" /\ p.expected # Absent ->
             CompileFact(acc, p.slot, p.expected, "ExpectObject", 1)
      [] OTHER -> CompileBare(acc, p.slot, "ExpectObject", 0)

CompileIntentOperation(acc, op) ==
    CASE op.kind = "Allocate" ->
             [acc EXCEPT !.code = @ \o <<Instr("Allocate", 0, 0),
                                         Instr("StoreLocal", op.temporary, 0)>>]
      [] op.kind = "Define" -> CompileFact(acc, op.slot, op.fact, "Define", 0)
      [] op.kind = "Forget" -> CompileBare(acc, op.slot, "Forget", 0)

\* next_temporary: entity() is the only source of allocations.
Temporaries(intent) ==
    Len(SelectSeq(intent.operations, LAMBDA op : op.kind = "Allocate"))

CompileIntent(intent) ==
    FoldLeft(CompileIntentOperation,
             FoldLeft(CompilePrecondition, [mat |-> NewMaterializer(1), code |-> <<>>],
                      intent.preconditions),
             intent.operations)

TokenTable(names, base) == [i \in DOMAIN names |-> <<base + i - 1, names[i]>>]

StreamFrame(intent, mat, code) ==
    [version |-> IsaVersion, namespace |-> intent.namespace,
     slots |-> TokenTable(SetToSortSeq(DOMAIN mat.slots,
                                       LAMBDA s, t : mat.slots[s] < mat.slots[t]), 0),
     predicates |-> TokenTable(mat.predicateValues, 0),
     literals |-> TokenTable(mat.literalValues, LiteralBase),
     locals |-> Temporaries(intent), code |-> code]

CompileToStreamFrame(intent) ==
    LET compiled == CompileIntent(intent)
    IN  StreamFrame(intent, compiled.mat, compiled.code)

-----------------------------------------------------------------------------
(* from_stream_frame.                                                        *)

\* The name a table gives to a token.
NameOf(table, token) == (CHOOSE entry \in Range(table) : entry[1] = token)[2]

StackAtom(frame, value) ==
    IF "atom" \in DOMAIN value THEN value.atom
    ELSE IF value.cell < LiteralBase THEN [entity |-> value.cell]
    ELSE [literal |-> NameOf(frame.literals, value.cell)]

\* The fact made of the three newest stack values.
StackFact(frame, stack) ==
    LET n == Len(stack)
    IN  Fact(StackAtom(frame, stack[n - 2]),
             NameOf(frame.predicates, stack[n - 1].cell),
             StackAtom(frame, stack[n]))

Popped(stack) == SubSeq(stack, 1, Len(stack) - 3)

ReadExpectation(frame, acc, ins) ==
    LET slot == NameOf(frame.slots, ins.arg)
    IN  CASE ins.arg = WorldArgument ->
                 [acc EXCEPT !.preconditions = Append(@, [kind |-> "World", world |-> ins.imm])]
          [] ins.arg # WorldArgument /\ ins.imm = 0 ->
                 [acc EXCEPT !.preconditions =
                        Append(@, [kind |-> "Slot", slot |-> slot, expected |-> Absent])]
          [] OTHER ->
                 [acc EXCEPT !.preconditions =
                        Append(@, [kind |-> "Slot", slot |-> slot,
                                   expected |-> StackFact(frame, acc.stack)]),
                             !.stack = Popped(@)]

\* A local is a handle of the intent itself, whatever it was before.
ReadInstruction(frame, acc, ins) ==
    CASE ins.op \in {"Allocate", "AllocateDiscard"} ->
             [acc EXCEPT !.operations =
                     Append(@, [kind |-> "Allocate", temporary |-> acc.next,
                                namespace |-> frame.namespace]),
                         !.next = @ + 1]
      [] ins.op = "PushCell" -> [acc EXCEPT !.stack = Append(@, [cell |-> ins.imm])]
      [] ins.op = "LoadLocal" ->
             [acc EXCEPT !.stack = Append(@, [atom |-> [temporary |-> ins.arg,
                                                        namespace |-> frame.namespace]])]
      [] ins.op = "Define" ->
             [acc EXCEPT !.operations =
                     Append(@, [kind |-> "Define", slot |-> NameOf(frame.slots, ins.arg),
                                fact |-> StackFact(frame, acc.stack)]),
                         !.stack = Popped(@)]
      [] ins.op = "Forget" ->
             [acc EXCEPT !.operations =
                     Append(@, [kind |-> "Forget", slot |-> NameOf(frame.slots, ins.arg)])]
      [] ins.op = "ExpectObject" -> ReadExpectation(frame, acc, ins)
      [] OTHER -> acc

FromStreamFrame(frame) ==
    LET acc == FoldLeft(LAMBDA a, ins : ReadInstruction(frame, a, ins),
                        [stack |-> <<>>, preconditions |-> <<>>, operations |-> <<>>, next |-> 0],
                        frame.code)
    IN  [kind |-> "queued", namespace |-> frame.namespace,
         preconditions |-> acc.preconditions, operations |-> acc.operations]

-----------------------------------------------------------------------------
(* The tagged form, encode_queued_intent and decode_queued_intent.  A string  *)
(* is one word; a failed read or an unknown tag turns ok off.                *)

EncodeIntentAtom(atom) ==
    CASE "entity" \in DOMAIN atom -> <<0, atom.entity>>
      [] "temporary" \in DOMAIN atom -> <<1, atom.namespace, atom.temporary>>
      [] "literal" \in DOMAIN atom -> <<2, atom.literal>>

EncodeAtom(atom) ==
    IF "entity" \in DOMAIN atom THEN <<0, atom.entity>> ELSE <<1, atom.literal>>

EncodePrecondition(p) ==
    CASE p.kind = "World" -> <<0, p.world>>
      [] p.kind = "Slot" /\ p.expected = Absent -> <<1, p.slot, 0>>
      [] OTHER -> <<1, p.slot, 1>> \o EncodeAtom(p.expected.subject)
                      \o <<p.expected.predicate>> \o EncodeAtom(p.expected.object)

EncodeOperation(op) ==
    CASE op.kind = "Allocate" -> <<0, op.namespace, op.temporary>>
      [] op.kind = "Define" -> <<1, op.slot>> \o EncodeIntentAtom(op.fact.subject)
                                  \o <<op.fact.predicate>> \o EncodeIntentAtom(op.fact.object)
      [] op.kind = "Forget" -> <<2, op.slot>>

EncodeQueuedIntent(intent) ==
    <<intent.namespace, Temporaries(intent), Len(intent.preconditions)>>
        \o FoldLeft(LAMBDA out, p : out \o EncodePrecondition(p), <<>>, intent.preconditions)
        \o <<Len(intent.operations)>>
        \o FoldLeft(LAMBDA out, op : out \o EncodeOperation(op), <<>>, intent.operations)

\* A value read, with the cursor behind it.
Took(c, width, value) == [c |-> Skip(c, width), value |-> value]

Word(c, n) == Peek(Skip(c, n))

DecodeIntentAtom(c) ==
    CASE Peek(c) = 0 -> Took(c, 2, [entity |-> Word(c, 1)])
      [] Peek(c) = 1 -> Took(c, 3, [temporary |-> Word(c, 2), namespace |-> Word(c, 1)])
      [] Peek(c) = 2 -> Took(c, 2, [literal |-> Word(c, 1)])
      [] OTHER -> [c |-> [c EXCEPT !.ok = FALSE], value |-> Absent]

\* Fault: a literal has the tag an intent's atom has.
DecodeAtomSharesTag(c) ==
    CASE Peek(c) = 0 -> Took(c, 2, [entity |-> Word(c, 1)])
      [] Peek(c) = 2 -> Took(c, 2, [literal |-> Word(c, 1)])
      [] OTHER -> [c |-> [c EXCEPT !.ok = FALSE], value |-> Absent]

DecodeAtom(c) ==
    CASE Peek(c) = 0 -> Took(c, 2, [entity |-> Word(c, 1)])
      [] Peek(c) = 1 -> Took(c, 2, [literal |-> Word(c, 1)])
      [] OTHER -> [c |-> [c EXCEPT !.ok = FALSE], value |-> Absent]

\* The predicate is between the subject and the object.
FactRead(subject, object) ==
    [c |-> object.c, value |-> Fact(subject.value, Peek(subject.c), object.value)]

DecodeAfter(subject) == FactRead(subject, DecodeAtom(Skip(subject.c, 1)))

DecodeFact(c) == DecodeAfter(DecodeAtom(c))

DecodeIntentAfter(subject) == FactRead(subject, DecodeIntentAtom(Skip(subject.c, 1)))

DecodeIntentFact(c) == DecodeIntentAfter(DecodeIntentAtom(c))

DecodePrecondition(c) ==
    LET fact == DecodeFact(Skip(c, 3))
        slot(expected) == [kind |-> "Slot", slot |-> Word(c, 1), expected |-> expected]
    IN  CASE Peek(c) = 0 -> Took(c, 2, [kind |-> "World", world |-> Word(c, 1)])
          [] Peek(c) = 1 /\ Word(c, 2) = 0 -> Took(c, 3, slot(Absent))
          [] Peek(c) = 1 /\ Word(c, 2) = 1 -> [c |-> fact.c, value |-> slot(fact.value)]
          [] OTHER -> [c |-> [c EXCEPT !.ok = FALSE], value |-> Absent]

DecodeOperation(c) ==
    LET fact == DecodeIntentFact(Skip(c, 2))
    IN  CASE Peek(c) = 0 -> Took(c, 3, [kind |-> "Allocate", temporary |-> Word(c, 2),
                                        namespace |-> Word(c, 1)])
          [] Peek(c) = 1 -> [c |-> fact.c, value |-> [kind |-> "Define", slot |-> Word(c, 1),
                                                      fact |-> fact.value]]
          [] Peek(c) = 2 -> Took(c, 2, [kind |-> "Forget", slot |-> Word(c, 1)])
          [] OTHER -> [c |-> [c EXCEPT !.ok = FALSE], value |-> Absent]

Read(acc, read) == [c |-> read.c, values |-> Append(acc.values, read.value)]

\* Counted lists.
DecodePreconditions(c) ==
    FoldLeft(LAMBDA acc, i : IF acc.c.ok THEN Read(acc, DecodePrecondition(acc.c)) ELSE acc,
             [c |-> Skip(c, 1), values |-> <<>>], [i \in 1..Peek(c) |-> i])

DecodeOperations(c) ==
    FoldLeft(LAMBDA acc, i : IF acc.c.ok THEN Read(acc, DecodeOperation(acc.c)) ELSE acc,
             [c |-> Skip(c, 1), values |-> <<>>], [i \in 1..Peek(c) |-> i])

IntentRead(namespace, pres, ops) ==
    IF ~ops.c.ok THEN [ok |-> FALSE]
    ELSE [ok |-> TRUE, consumed |-> ops.c.at - 1,
          intent |-> [kind |-> "queued", namespace |-> namespace,
                      preconditions |-> pres.values, operations |-> ops.values]]

DecodeBody(namespace, pres) == IntentRead(namespace, pres, DecodeOperations(pres.c))

DecodeQueuedIntent(words) ==
    DecodeBody(Peek(Cursor(words)), DecodePreconditions(Skip(Cursor(words), 2)))

-----------------------------------------------------------------------------
(* decode_epoch_payload, for one intent: the magic tells the forms apart, and *)
(* the decoder must stop exactly at the end.                                 *)

StreamIntent(words, stream) ==
    IF stream.ok /\ stream.consumed = Len(words)
    THEN [ok |-> TRUE, intent |-> FromStreamFrame(stream.frame)] ELSE [ok |-> FALSE]

TaggedIntent(words, tagged) ==
    IF tagged.ok /\ tagged.consumed = Len(words)
    THEN [ok |-> TRUE, intent |-> tagged.intent] ELSE [ok |-> FALSE]

DecodeIntent(words) ==
    IF words # <<>> /\ words[1] = Magic THEN StreamIntent(words, DecodeFrame(words))
    ELSE TaggedIntent(words, DecodeQueuedIntent(words))

\* encode_epoch, for one intent; the tagged form is the fallback.
EncodeIntent(intent) == EncodeFrame(CompileToStreamFrame(intent))
=============================================================================
