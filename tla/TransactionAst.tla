---------------------------- MODULE TransactionAst ----------------------------
(***************************************************************************)
(* Lowering of a transaction tree to a self-contained instruction stream   *)
(* (transaction_ast.rs).  A first pass collects the names, a second one    *)
(* emits; slots, predicates and literals are numbered in the order of      *)
(* their names, symbols in the order of their allocations.                 *)
(***************************************************************************)
EXTENDS StackVm

AtomsOf(op) ==
    CASE op.op = "ExpectObject" -> {op.expected}
      [] op.op = "Define" -> {op.subject, op.object}
      [] OTHER -> {}

\* The first pass of lower_transient.
SlotNames(ast) ==
    {ast[i].slot : i \in {j \in DOMAIN ast : ast[j].op \in {"ExpectObject", "Define", "Forget"}}}

PredicateNames(ast) == {ast[i].predicate : i \in {j \in DOMAIN ast : ast[j].op = "Define"}}

LiteralNames(ast) ==
    {atom.literal : atom \in {a \in UNION {AtomsOf(ast[i]) : i \in DOMAIN ast} :
                                 "literal" \in DOMAIN a}}

Symbols(ast) ==
    FoldLeft(LAMBDA names, op : IF op.op = "Allocate" THEN Append(names, op.result) ELSE names,
             <<>>, ast)

\* The position of a name among the sorted names.
Rank(name, names) == Cardinality({n \in names : n < name})

LiteralToken(ast, literal) == Rank(literal, LiteralNames(ast)) + Cardinality(PredicateNames(ast))

Local(ast, symbol) == (CHOOSE i \in DOMAIN Symbols(ast) : Symbols(ast)[i] = symbol) - 1

\* DuplicateAllocation, UndefinedSymbol, UnsupportedDynamicSymbolExpectObject.
Lowerable(ast) ==
    /\ IsInjective(Symbols(ast))
    /\ \A i \in DOMAIN ast : \A atom \in AtomsOf(ast[i]) :
        "symbol" \in DOMAIN atom =>
            ast[i].op = "Define" /\ atom.symbol \in Range(Symbols(ast))

LoadAtom(ast, atom) ==
    CASE "entity" \in DOMAIN atom -> Instr("PushCell", 0, atom.entity)
      [] "literal" \in DOMAIN atom -> Instr("PushCell", 0, LiteralToken(ast, atom.literal))
      [] "symbol" \in DOMAIN atom -> Instr("LoadLocal", Local(ast, atom.symbol), 0)

\* The second pass, for one operation.
LowerOp(ast, op) ==
    CASE op.op = "Allocate" -> <<Instr("Allocate", 0, 0),
                                 Instr("StoreLocal", Local(ast, op.result), 0)>>
      [] op.op = "ExpectWorld" -> <<Instr("ExpectObject", WorldArgument, op.expected)>>
      [] op.op = "ExpectObject" ->
             <<Instr("ExpectObject", Rank(op.slot, SlotNames(ast)), LoadAtom(ast, op.expected).imm)>>
      [] op.op = "Define" ->
             <<LoadAtom(ast, op.subject),
               Instr("PushCell", 0, Rank(op.predicate, PredicateNames(ast))),
               LoadAtom(ast, op.object), Instr("Define", Rank(op.slot, SlotNames(ast)), 0)>>
      [] op.op = "Forget" -> <<Instr("Forget", Rank(op.slot, SlotNames(ast)), 0)>>
      [] op.op = "Reject" -> <<Instr("Reject", 0, 0)>>

\* The names in token order, each with its token.
Numbered(names, offset) ==
    LET sorted == SetToSortSeq(names, LAMBDA m, n : m < n)
    IN  [i \in DOMAIN sorted |-> <<i - 1 + offset, sorted[i]>>]

\* lower_from_source, for a tree that can be lowered.
LowerFromSource(namespace, ast) ==
    [version |-> 1, namespace |-> namespace,
     slots |-> Numbered(SlotNames(ast), 0),
     predicates |-> Numbered(PredicateNames(ast), 0),
     literals |-> Numbered(LiteralNames(ast), Cardinality(PredicateNames(ast))),
     locals |-> Len(Symbols(ast)),
     code |-> FoldLeft(LAMBDA code, op : code \o LowerOp(ast, op), <<>>, ast)]
=============================================================================
