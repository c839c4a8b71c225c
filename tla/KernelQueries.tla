---------------------------- MODULE KernelQueries ----------------------------
(***************************************************************************)
(* Queries of the two kernels of KernelPair, each over its own indexes.    *)
(***************************************************************************)
EXTENDS KernelPair

Q == INSTANCE Query

-----------------------------------------------------------------------------
(* Sources and answers.  A term is an atom, a predicate or a variable.                   *)

QueryFact(fact) == [subject |-> [atom |-> fact.subject], predicate |-> fact.predicate,
                    object |-> [atom |-> fact.object]]

\* Identifiers in ascending order, as candidates() returns them.
Entries(ids) ==
    LET sorted == Q!SetToSortSeq(ids, <)
    IN  [i \in DOMAIN sorted |-> [id |-> sorted[i], slot |-> log[sorted[i]].slot,
                                  fact |-> QueryFact(FactOf(sorted[i]))]]

\* The values of a fact's columns, or of an index key's, as a term names them.
Wrapped(partial) ==
    [c \in DOMAIN partial |-> IF c = "predicate" THEN [predicate |-> partial[c]]
                              ELSE [atom |-> partial[c]]]

\* What the walk reads of a kernel: its heads, and a bucket for every key.
SharedSource ==
    [active |-> Entries(Candidates(NoColumns)),
     buckets |-> [k \in {Wrapped(j) : j \in Keys} |->
                     Entries(bucket[CHOOSE j \in Keys : Wrapped(j) = k])]]

LegacySource ==
    [active |-> Entries(Legacy!Candidates(NoColumns)),
     buckets |-> [k \in {Wrapped(j) : j \in DOMAIN legacyIndex} |->
                     Entries(legacyIndex[CHOOSE j \in DOMAIN legacyIndex : Wrapped(j) = k])]]

\* ForthDb::query of the shared kernel.
SharedAnswer(patterns, options) == Q!Answer(SharedSource, patterns, options)

\* ForthDb::query of the flat kernel.
LegacyAnswer(patterns, options) == Q!Answer(LegacySource, patterns, options)

\* A path of two facts, a fact with both ends equal, a subject with a given
\* object, and everything.
Queries ==
    LET v(name) == [var |-> name]
        pattern(s, p, o) == [subject |-> s, predicate |-> p, object |-> o]
    IN  {<<pattern(v("x"), [predicate |-> p], v("y")), pattern(v("y"), v("q"), v("z"))>>
           : p \in Predicates}
        \cup {<<pattern(v("x"), v("p"), v("x"))>>}
        \cup {<<pattern(v("x"), v("p"), [atom |-> a]), pattern(v("y"), v("p"), v("x"))>>
                : a \in Atoms}
        \cup {<<pattern(v("x"), v("p"), v("y"))>>}

-----------------------------------------------------------------------------
(* Properties.                                                               *)

Options(optimize, limit) ==
    [optimize |-> optimize, distinct |-> FALSE, provenance |-> TRUE, limit |-> limit]

Cuts(all, two) ==
    /\ DOMAIN two \subseteq DOMAIN all
    /\ Q!RowCount(two) = IF Q!RowCount(all) < 2 THEN Q!RowCount(all) ELSE 2

AnswersJoin(q, join, all) ==
    /\ Q!AnswerBindings(all) = join
    /\ Q!AnswerBindings(SharedAnswer(q, Options(TRUE, 0))) = join
    /\ LegacyAnswer(q, Options(FALSE, 0)) = all
    /\ Cuts(all, SharedAnswer(q, Options(FALSE, 2)))

\* A query walked pattern by pattern over the indexes, in the order the
\* optimizer picks or as written, finds every way to match the patterns with
\* visible facts and nothing else; the flat kernel gives the same rows; and a
\* limit cuts the number of rows, never changes them.
QueriesAreJoins ==
    \A q \in Queries : AnswersJoin(q, Q!JoinBindings(SharedSource.active, q),
                                   SharedAnswer(q, Options(FALSE, 0)))
=============================================================================
