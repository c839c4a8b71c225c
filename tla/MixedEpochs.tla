------------------------------ MODULE MixedEpochs ------------------------------
(***************************************************************************)
(* Epochs that mix queued and semantic intents (queued.rs,                 *)
(* materialize_mixed): trial compilation of a transaction tree against the *)
(* dictionaries, the paths with and without host validators, and the       *)
(* publication by commit_mixed_epoch.                                      *)
(*                                                                         *)
(* Names (slots, predicates, literals, symbols) are integers, in the order *)
(* of the strings they stand for.                                          *)
(***************************************************************************)
EXTENDS EpochMaterializer

-----------------------------------------------------------------------------
(* TrialVocabulary: the names a trial introduces, apart until it commits.    *)

NewTrial(mat) ==
    [ok |-> TRUE, mat |-> mat, slots |-> <<>>, predicates |-> <<>>, literals |-> <<>>,
     bound |-> <<>>, code |-> <<>>]

\* The machine makes room for the slot at once, whatever becomes of the trial.
TrialSlot(trial, slot) ==
    LET token == Len(trial.mat.image.slots) + Cardinality(DOMAIN trial.mat.slots)
                   + Cardinality(DOMAIN trial.slots)
    IN  IF slot \in DOMAIN trial.slots \cup DOMAIN trial.mat.slots
                       \cup Range(trial.mat.image.slots) THEN trial
        ELSE [trial EXCEPT !.slots = WithName(@, slot, token),
                           !.mat.ws = EnsureSlotCount(@, token + 1)]

TrialSlotToken(trial, slot) ==
    IF slot \in DOMAIN trial.slots THEN trial.slots[slot] ELSE SlotToken(trial.mat, slot)

TrialPredicate(trial, predicate) ==
    LET cell == Len(trial.mat.image.predicates) + Cardinality(DOMAIN trial.mat.predicates)
                  + Cardinality(DOMAIN trial.predicates)
    IN  IF predicate \in DOMAIN trial.predicates \cup DOMAIN trial.mat.predicates
                            \cup Range(trial.mat.image.predicates) THEN trial
        ELSE [trial EXCEPT !.predicates = WithName(@, predicate, cell)]

TrialPredicateCell(trial, predicate) ==
    IF predicate \in DOMAIN trial.predicates THEN trial.predicates[predicate]
    ELSE PredicateCell(trial.mat, predicate)

\* literal_cell, for an atom; a symbol without a binding fails the trial.
TrialAtom(trial, atom) ==
    LET cell == LiteralBase + Len(trial.mat.image.literals) + Len(trial.mat.literalValues)
                  + Cardinality(DOMAIN trial.literals)
    IN  CASE "entity" \in DOMAIN atom -> trial
          [] "symbol" \in DOMAIN atom ->
                 [trial EXCEPT !.ok = @ /\ atom.symbol \in DOMAIN trial.bound]
          [] OTHER ->
                 IF atom.literal \in DOMAIN trial.literals \cup DOMAIN trial.mat.literals
                                       \cup Range(trial.mat.image.literals) THEN trial
                 ELSE [trial EXCEPT !.literals = WithName(@, atom.literal, cell)]

TrialAtomCell(trial, atom) ==
    CASE "symbol" \in DOMAIN atom -> trial.bound[atom.symbol]
      [] "literal" \in DOMAIN atom /\ atom.literal \in DOMAIN trial.literals ->
             trial.literals[atom.literal]
      [] OTHER -> AtomCell(trial.mat, atom)

-----------------------------------------------------------------------------
(* compile_semantic_trial.                                                   *)

CompileAllocate(trial, op) ==
    IF op.result \in DOMAIN trial.bound THEN [trial EXCEPT !.ok = FALSE]
    ELSE [trial EXCEPT !.bound = WithName(@, op.result,
                                          trial.mat.ws.next + Cardinality(DOMAIN @)),
                       !.code = Append(@, Instr("AllocateDiscard", 0, 0))]

CompileExpect(trial, op) ==
    LET t == TrialAtom(TrialSlot(trial, op.slot), op.expected)
    IN  IF ~t.ok THEN t
        ELSE [t EXCEPT !.code = Append(@, Instr("ExpectObject", TrialSlotToken(t, op.slot),
                                                TrialAtomCell(t, op.expected)))]

CompileDefine(trial, op) ==
    LET subject == TrialAtom(TrialSlot(trial, op.slot), op.subject)
        t == IF subject.ok
             THEN TrialAtom(TrialPredicate(subject, op.predicate), op.object)
             ELSE subject
    IN  IF ~t.ok THEN t
        ELSE [t EXCEPT !.code = @ \o
                <<Instr("PushCell", 0, TrialAtomCell(t, op.subject)),
                  Instr("PushCell", 0, TrialPredicateCell(t, op.predicate)),
                  Instr("PushCell", 0, TrialAtomCell(t, op.object)),
                  Instr("Define", TrialSlotToken(t, op.slot), 0)>>]

CompileForget(trial, op) ==
    LET t == TrialSlot(trial, op.slot)
    IN  [t EXCEPT !.code = Append(@, Instr("Forget", TrialSlotToken(t, op.slot), 0))]

\* The world an AST expects is not looked at here.
CompileTrialOp(trial, op) ==
    IF ~trial.ok THEN trial ELSE
    CASE op.op = "Allocate" -> CompileAllocate(trial, op)
      [] op.op = "ExpectWorld" -> trial
      [] op.op = "ExpectObject" -> CompileExpect(trial, op)
      [] op.op = "Define" -> CompileDefine(trial, op)
      [] op.op = "Forget" -> CompileForget(trial, op)
      [] op.op = "Reject" -> [trial EXCEPT !.code = Append(@, Instr("Reject", 0, 0))]

CompileSemanticTrial(mat, ast) == FoldLeft(CompileTrialOp, NewTrial(mat), ast)

Sorted(names) == SetToSortSeq(names, LAMBDA m, n : m < n)

Merged(dictionary, new) ==
    [n \in DOMAIN dictionary \cup DOMAIN new |->
        IF n \in DOMAIN new THEN new[n] ELSE dictionary[n]]

\* TrialVocabulary::commit walks its dictionaries in the order of the names.
TrialCommit(trial) ==
    [trial.mat EXCEPT !.slots = Merged(@, trial.slots),
                      !.predicates = Merged(@, trial.predicates),
                      !.predicateValues = @ \o Sorted(DOMAIN trial.predicates),
                      !.literals = Merged(@, trial.literals),
                      !.literalValues = @ \o Sorted(DOMAIN trial.literals)]

-----------------------------------------------------------------------------
(* materialize_mixed.                                                        *)

\* The entity of each symbol when the allocations are numbered from next; the
\* last allocation of a symbol wins.
Temps(ast, next) ==
    LET allocations == SelectSeq(ast, LAMBDA op : op.op = "Allocate")
    IN  [s \in {allocations[i].result : i \in DOMAIN allocations} |->
            next - 1 + (CHOOSE i \in DOMAIN allocations :
                           /\ allocations[i].result = s
                           /\ \A j \in (i + 1)..Len(allocations) : allocations[j].result # s)]

\* The symbols of the tree that have no allocation at all.
Undefined(ast, temps) ==
    \E i \in DOMAIN ast : ast[i].op = "Define" /\ \E atom \in {ast[i].subject, ast[i].object} :
        "symbol" \in DOMAIN atom /\ atom.symbol \notin DOMAIN temps

\* The operations recorded for an AST: what it expects leaves no trace.
Synthesized(ast, next) ==
    LET temps == Temps(ast, next)
        resolve(atom) == IF "symbol" \in DOMAIN atom THEN [entity |-> temps[atom.symbol]]
                         ELSE atom
        operation(op) ==
            CASE op.op = "Allocate" -> <<[kind |-> "Allocate", entity |-> temps[op.result]]>>
              [] op.op = "Define" ->
                     <<[kind |-> "Define", slot |-> op.slot,
                        fact |-> Fact(resolve(op.subject), op.predicate, resolve(op.object))]>>
              [] op.op = "Forget" -> <<[kind |-> "Forget", slot |-> op.slot]>>
              [] OTHER -> <<>>
    IN  FoldLeft(LAMBDA ops, op : ops \o operation(op), <<>>, ast)

\* What becomes of a trial that was executed: a rejected one leaves the
\* dictionaries alone.
SemanticVerdict(space, ast, trial, done) ==
    IF done.accepted
    THEN EpochAccepts(space, [TrialCommit(trial) EXCEPT !.ws = done.ws],
                      Synthesized(ast, space.mat.ws.next), trial.bound)
    ELSE EpochRejects(space, [trial.mat EXCEPT !.ws = done.ws])

ExecuteTrial(space, ast, trial) ==
    IF trial.ok
    THEN SemanticVerdict(space, ast, trial, ExecuteInstructions(trial.mat.ws, 0, trial.code))
    ELSE EpochRejects(space, trial.mat)

SemanticOnVm(space, ast) == ExecuteTrial(space, ast, CompileSemanticTrial(space.mat, ast))

\* The candidate host validators see: the operations on the kernel of the
\* epoch's base.
HostCandidate(space, base, operations) ==
    Candidate([id |-> space.predecessor, next |-> space.mat.ws.next, stacks |-> base.stacks],
              operations)

HostAccepts(space, base, operations, validators) ==
    /\ Applied([base EXCEPT !.next = space.mat.ws.next], operations).ok
    /\ Accepts(validators, HostCandidate(space, base, operations))

\* One intent of a mixed epoch.  The tree of a semantic intent is resolved
\* before it is compiled when there are validators, and a symbol without an
\* allocation then panics.
MixedNext(space, intent, base, validators) ==
    LET r == ResolveOperations(space.mat.ws.next, intent)
        next == space.mat.ws.next
    IN  IF space.panicked THEN space ELSE
        CASE intent.kind = "queued" ->
                 IF \/ validators = {}
                    \/ ~MaterializerPreconditions(space.mat, space.predecessor,
                                                  intent.preconditions)
                    \/ ~r.ok
                    \/ HostAccepts(space, base, r.operations, validators)
                 THEN QueuedOnVm(space, intent)
                 ELSE EpochRejects(space, space.mat)
          [] intent.kind = "semantic" ->
                 IF validators # {} /\ Undefined(intent.ast, Temps(intent.ast, next))
                 THEN [space EXCEPT !.panicked = TRUE]
                 ELSE IF \/ validators = {}
                         \/ HostAccepts(space, base, Synthesized(intent.ast, next), validators)
                 THEN SemanticOnVm(space, intent.ast)
                 ELSE EpochRejects(space, space.mat)

MaterializeMixed(mat, base, intents, validators) ==
    EpochResult(FoldLeft(LAMBDA space, intent : MixedNext(space, intent, base, validators),
                         EpochStart(mat, base), intents),
                base)
=============================================================================
