---------------------------- MODULE MCMixedDatabase ----------------------------
(***************************************************************************)
(* TLC instance of MixedDatabase: two slots, predicates and literals, and  *)
(* intents that between them take every path of an epoch.  The trees an    *)
(* epoch runs introduce their names in the order of the names (see         *)
(* ExpectationsSeeWorld for the others).                                   *)
(***************************************************************************)
EXTENDS MixedDatabase

CONSTANTS oneDefinition

\* The validator refuses a candidate whose first slot hides an older definition.
MCRejects(v, candidate) == Len(candidate.stacks[1]) > 1

Ent(n) == [entity |-> n]
Lit(l) == [literal |-> l]
Sym(s) == [symbol |-> s]
Var(v) == [var |-> v]
Pred(p) == [predicate |-> p]
Temp(i) == [temporary |-> i, namespace |-> 1]
SlotIs(s, expected) == [kind |-> "Slot", slot |-> s, expected |-> expected]
TheWorld(w) == [kind |-> "World", world |-> w]
Alloc(i) == [kind |-> "Allocate", temporary |-> i, namespace |-> 1]
Def(s, x, p, y) == [kind |-> "Define", slot |-> s, fact |-> Fact(x, p, y)]
Forg(s) == [kind |-> "Forget", slot |-> s]
AllocSym(x) == [op |-> "Allocate", result |-> x]
DefSym(s, x, p, y) == [op |-> "Define", slot |-> s, subject |-> x, predicate |-> p, object |-> y]
ExpectSym(s, x) == [op |-> "ExpectObject", slot |-> s, expected |-> x]
ExpectWorldSym(w) == [op |-> "ExpectWorld", expected |-> w]
ForgetSym(s) == [op |-> "Forget", slot |-> s]
RejectSym == [op |-> "Reject"]

Queued(pres, ops) ==
    [kind |-> "queued", namespace |-> 1, preconditions |-> pres, operations |-> ops]
Semantic(ast) == [kind |-> "semantic", namespace |-> 1, ast |-> ast]

MCIntents ==
    { \* a new entity in a slot that must be empty
      Queued(<<SlotIs(1, Absent)>>, <<Alloc(0), Def(1, Temp(0), 1, Lit(1))>>),
      \* replaces the fact an entity of the first epoch left there
      Queued(<<SlotIs(1, Fact(Ent(1), 1, Lit(1)))>>, <<Def(1, Ent(1), 1, Lit(2)), Forg(2)>>),
      \* for a caller that saw the empty world
      Queued(<<TheWorld(<<>>)>>, <<Def(2, Lit(2), 1, Ent(1)), Forg(1)>>),
      \* sees its own definition, and shadows what slot 1 had
      Semantic(<<AllocSym(1), DefSym(1, Sym(1), 1, Lit(1)), ExpectSym(1, Lit(1)),
                 DefSym(2, Sym(1), 2, Lit(2)), ForgetSym(1)>>),
      \* defines, then finds that it must not
      Semantic(<<AllocSym(1), DefSym(1, Sym(1), 1, Lit(2)), ExpectSym(2, Lit(2)),
                 DefSym(2, Lit(2), 2, Sym(1)), ExpectSym(1, Lit(1))>>),
      \* a symbol nobody allocates
      Semantic(<<DefSym(2, Sym(2), 1, Lit(1))>>) }

\* Names in another order than their own.
MCUnsorted == {Semantic(<<AllocSym(1), DefSym(1, Sym(1), 1, Lit(2)), DefSym(2, Sym(1), 1, Lit(1))>>)}

\* Another writer's transaction.
MCStrict(w) ==
    {<<[kind |-> "Allocate", entity |-> w.next], Def(2, Ent(w.next), 2, Lit(1)), Forg(1)>>}

Pattern(x, p, y) == [subject |-> x, predicate |-> p, object |-> y]

MCQueries ==
    { <<Pattern(Var(1), Var(2), Var(3))>>,
      <<Pattern(Var(1), Pred(1), Var(3)), Pattern(Var(1), Var(4), Lit(2))>>,
      <<Pattern(Var(1), Pred(2), Lit(1))>>,
      <<Pattern(Var(1), Pred(1), Var(2)), Pattern(Var(2), Pred(2), Var(3))>>,
      <<Pattern(Ent(1), Var(1), Var(2)), Pattern(Var(3), Var(1), Lit(2))>> }

Tuples(S, n) == UNION {[1..k -> S] : k \in 0..n}

MCCodecIntents ==
    LET pres == {SlotIs(1, Absent), SlotIs(2, Fact(Ent(3), 2, Lit(2))), TheWorld(<<1>>)}
        ops == {Alloc(0), Forg(2), Def(2, Lit(2), 1, Ent(1)), Def(1, Ent(2), 2, Temp(0))}
    IN  {Queued(p, o) : p \in Tuples(pres, 2),
                        o \in {s \in Tuples(ops, 3) :
                                  Cardinality({i \in DOMAIN s : s[i] = Alloc(0)}) <= 1}}

MCTrees ==
    Tuples({AllocSym(1), DefSym(1, Sym(1), 2, Lit(1)), DefSym(2, Lit(2), 1, Ent(FirstEntity)),
            ExpectSym(1, Lit(1)), ExpectSym(2, Ent(FirstEntity)), ForgetSym(1),
            ExpectWorldSym(<<>>), ExpectWorldSym(<<1>>), RejectSym}, 3)
    \cup {<<AllocSym(1), DefSym(1, Sym(1), 2, Lit(2))>> \o t :
             t \in Tuples({AllocSym(2), DefSym(1, Lit(1), 1, Sym(1)), ForgetSym(1),
                           DefSym(2, Sym(2), 1, Sym(1)), ExpectSym(1, Lit(2))}, 3)}
=============================================================================
