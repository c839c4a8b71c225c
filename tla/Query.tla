--------------------------------- MODULE Query ---------------------------------
(***************************************************************************)
(* Conjunctive queries: the depth-first walk over patterns that ForthDb,   *)
(* the VM's query projection and the mapped snapshot share (core lib.rs,   *)
(* shared_db_v2.rs, world lib.rs, mmap_vm_snapshot.rs).                    *)
(*                                                                         *)
(* A source of facts is a record with `active', the visible facts in       *)
(* record order ([id, slot, fact]), and `image', the mapped image whose    *)
(* indexes give the candidates, or NoImage; a kernel's source also has     *)
(* `buckets', from partial facts to the entries of its indexes.  The final *)
(* sort makes the rows of an answer independent of the walk, so an answer  *)
(* is a bag of rows.                                                       *)
(***************************************************************************)
EXTENDS Integers, Sequences, FiniteSets, SequencesExt

NoImage == [mapped |-> FALSE]

Columns == {"subject", "predicate", "object"}

\* The value of a fact's column, as a variable would be bound to it.
ColumnValue(fact, column) ==
    IF column = "predicate" THEN [predicate |-> fact.predicate] ELSE fact[column]

\* resolved_atom, resolved_predicate: the values a term is fixed to, none for a
\* free variable, and none for one bound to a value of the other sort.
Fixed(term, column, binding) ==
    LET values == IF "var" \notin DOMAIN term THEN {term}
                  ELSE {binding[v] : v \in {term.var} \cap DOMAIN binding}
    IN  {v \in values : "predicate" \in DOMAIN v <=> column = "predicate"}

\* Fault: a bound variable takes the new value.
UnifyTermRebinds(term, value, binding) ==
    IF "var" \notin DOMAIN term THEN (IF term = value THEN {binding} ELSE {})
    ELSE {[v \in DOMAIN binding \cup {term.var} |->
              IF v = term.var THEN value ELSE binding[v]]}

UnifyTerm(term, value, binding) ==
    IF "var" \notin DOMAIN term THEN (IF term = value THEN {binding} ELSE {})
    ELSE IF term.var \in DOMAIN binding
    THEN (IF binding[term.var] = value THEN {binding} ELSE {})
    ELSE {[v \in DOMAIN binding \cup {term.var} |->
              IF v = term.var THEN value ELSE binding[v]]}

\* unify_pattern: the binding extended by a fact, if they agree.
UnifyPattern(pattern, fact, binding) ==
    UNION {UnifyTerm(pattern.object, fact.object, c)
             : c \in UNION {UnifyTerm(pattern.predicate, ColumnValue(fact, "predicate"), b)
                              : b \in UnifyTerm(pattern.subject, fact.subject, binding)}}

-----------------------------------------------------------------------------
(* Candidates.                                                               *)

\* The bucket of the columns a pattern fixes, in record order.
BucketCandidates(active, pattern, binding) ==
    SelectSeq(active, LAMBDA e :
        \A column \in Columns :
            \A v \in Fixed(pattern[column], column, binding) : v = ColumnValue(e.fact, column))

\* candidate_spec: a bound column whose value the image does not know, or that
\* is bound to the other sort, leaves no candidates.
Missing(image, pattern, binding) ==
    \E column \in Columns :
        /\ "var" \in DOMAIN pattern[column] => pattern[column].var \in DOMAIN binding
        /\ \A v \in Fixed(pattern[column], column, binding) : v \notin DOMAIN image.cells

KeyLess(left, right) ==
    \E i \in DOMAIN left : left[i] < right[i] /\ \A j \in 1..(i - 1) : left[j] = right[j]

\* lower_bound in an index: how many entries sort before the key's prefix.
LowerBound(index, key) ==
    Cardinality({i \in DOMAIN index : KeyLess(SubSeq(index[i].key, 1, Len(key)), key)})

\* Fault: the range ends one entry early.
IndexRangeShort(index, key) ==
    SubSeq(index, LowerBound(index, key) + 1,
           LowerBound(index, [key EXCEPT ![Len(key)] = @ + 1]) - 1)

\* index_range: the entries between the prefix and its successor.
IndexRange(index, key) ==
    SubSeq(index, LowerBound(index, key) + 1,
           LowerBound(index, [key EXCEPT ![Len(key)] = @ + 1]))

\* The index whose order starts with the fixed columns, and the prefix.
ColumnOrders == [spo |-> <<"subject", "predicate", "object">>,
                 pos |-> <<"predicate", "object", "subject">>,
                 osp |-> <<"object", "subject", "predicate">>]

OrderFor(columns) ==
    CHOOSE o \in DOMAIN ColumnOrders :
        Range(SubSeq(ColumnOrders[o], 1, Cardinality(columns))) = columns

\* The values a pattern fixes, by column.
FixedValues(pattern, binding) ==
    [column \in {c \in Columns : Fixed(pattern[c], c, binding) # {}} |->
        CHOOSE v \in Fixed(pattern[column], column, binding) : TRUE]

MappedRange(image, fixed, order) ==
    IndexRange(image.index[order],
               [i \in 1..Cardinality(DOMAIN fixed) |->
                   image.cells[fixed[ColumnOrders[order][i]]]])

EntriesOf(range) == [i \in DOMAIN range |-> range[i].entry]

MappedCandidates(source, pattern, binding) ==
    LET fixed == FixedValues(pattern, binding)
    IN  IF Missing(source.image, pattern, binding) THEN <<>>
        ELSE IF DOMAIN fixed = {} THEN source.image.active
        ELSE EntriesOf(MappedRange(source.image, fixed, OrderFor(DOMAIN fixed)))

\* A kernel's candidates: the bucket of the index on the fixed columns.
IndexedCandidates(source, pattern, binding) ==
    LET key == FixedValues(pattern, binding)
    IN  IF DOMAIN key = {} THEN source.active
        ELSE IF key \in DOMAIN source.buckets THEN source.buckets[key] ELSE <<>>

Candidates(source, pattern, binding) ==
    IF "buckets" \in DOMAIN source THEN IndexedCandidates(source, pattern, binding)
    ELSE IF source.image = NoImage THEN BucketCandidates(source.active, pattern, binding)
    ELSE MappedCandidates(source, pattern, binding)

-----------------------------------------------------------------------------
(* The walk.                                                                 *)

Fewest(counts) ==
    CHOOSE i \in DOMAIN counts : /\ \A j \in DOMAIN counts : counts[i] <= counts[j]
                                 /\ \A j \in 1..(i - 1) : counts[i] < counts[j]

\* With optimize, the first of the patterns with the fewest candidates.
ChosenIndex(source, remaining, binding, options) ==
    IF options.optimize
    THEN Fewest([i \in DOMAIN remaining |-> Len(Candidates(source, remaining[i], binding))])
    ELSE 1

LimitReached(out, options) == options.limit # 0 /\ Len(out) >= options.limit

AddRow(rows, options) == [rows |-> rows, done |-> LimitReached(rows, options)]

\* walk_query: out with the rows below a frame; `done' when the limit stopped it.
RECURSIVE Walk(_, _, _, _, _)

\* A candidate whose fact extends the binding, or does not.
Visit(source, frame, rest, options, acc, slot, extended) ==
    IF acc.done \/ extended = {} THEN acc
    ELSE Walk(source, [binding |-> CHOOSE b \in extended : TRUE,
                       provenance |-> Append(frame.provenance, slot)], rest, options, acc)

VisitAll(source, frame, pattern, rest, options, out) ==
    FoldLeft(LAMBDA acc, e : Visit(source, frame, rest, options, acc, e.slot,
                                   UnifyPattern(pattern, e.fact, frame.binding)),
             out, Candidates(source, pattern, frame.binding))

Walk(source, frame, remaining, options, out) ==
    IF remaining = <<>> THEN AddRow(Append(out.rows, frame), options)
    ELSE LET chosen == ChosenIndex(source, remaining, frame.binding, options)
         IN  VisitAll(source, frame, remaining[chosen], RemoveAt(remaining, chosen), options, out)

\* distinct keeps the first row of every binding.
FirstOfBinding(rows) ==
    LET kept == {i \in DOMAIN rows : \A j \in 1..(i - 1) : rows[j].binding # rows[i].binding}
    IN  [i \in 1..Cardinality(kept) |->
            rows[CHOOSE k \in kept : Cardinality({m \in kept : m < k}) = i - 1]]

RowBag(rows) ==
    [r \in Range(rows) |-> Cardinality({i \in DOMAIN rows : rows[i] = r})]

Deduplicated(rows, options) == IF options.distinct THEN FirstOfBinding(rows) ELSE rows

ResultRows(rows, options) ==
    [i \in DOMAIN rows |->
        [binding |-> rows[i].binding,
         provenance |-> IF options.provenance THEN rows[i].provenance ELSE <<>>]]

\* query, up to the order of the rows.
Answer(source, patterns, options) ==
    RowBag(ResultRows(Deduplicated(Walk(source, [binding |-> <<>>, provenance |-> <<>>], patterns,
                                        options, [rows |-> <<>>, done |-> FALSE]).rows,
                                   options),
                      options))

-----------------------------------------------------------------------------

\* The bindings a conjunction of patterns asks for, each with the number of
\* ways to pick one visible fact per pattern that it agrees with.
JoinBindings(active, patterns) ==
    LET value(pick, i, column) == ColumnValue(active[pick[i]].fact, column)
        places == (DOMAIN patterns) \X Columns
        term(p) == patterns[p[1]][p[2]]
        vars == {term(p).var : p \in {q \in places : "var" \in DOMAIN term(q)}}
        agrees(pick) == \A p, q \in places :
            /\ "var" \notin DOMAIN term(p) => term(p) = value(pick, p[1], p[2])
            /\ "var" \in DOMAIN term(p) /\ term(p) = term(q)
                 => value(pick, p[1], p[2]) = value(pick, q[1], q[2])
        picks == {pick \in [DOMAIN patterns -> DOMAIN active] : agrees(pick)}
        binding(pick) == [v \in vars |->
            LET p == CHOOSE q \in places : term(q) = [var |-> v]
            IN  value(pick, p[1], p[2])]
    IN  [b \in {binding(pick) : pick \in picks} |->
            Cardinality({pick \in picks : binding(pick) = b})]

\* The bindings of an answer, each with its number of rows.
AnswerBindings(answer) ==
    [b \in {r.binding : r \in DOMAIN answer} |->
        FoldLeft(LAMBDA n, r : n + answer[r], 0,
                 SetToSeq({r \in DOMAIN answer : r.binding = b}))]

RowCount(answer) == FoldLeft(LAMBDA n, r : n + answer[r], 0, SetToSeq(DOMAIN answer))
=============================================================================
