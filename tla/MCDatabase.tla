----------------------------- MODULE MCDatabase -----------------------------
(***************************************************************************)
(* TLC instance of Database: one slot, one literal, one validator and four *)
(* intents that between them take every path of the planners.              *)
(***************************************************************************)
EXTENDS Database

CONSTANTS s1, a, is, oneDefinition

\* The validator refuses a candidate whose slot hides an older definition.
MCRejects(v, candidate) == Len(candidate.stacks[s1]) > 1

Own(i) == [temporary |-> i, namespace |-> 1]
Allocate(i) == [kind |-> "Allocate", temporary |-> i, namespace |-> 1]
DefineAs(subject) ==
    [kind |-> "Define", slot |-> s1, fact |-> Fact(subject, is, [literal |-> a])]

MCIntents ==
    { \* a new entity, for a caller that expects the slot to be empty
      [namespace |-> 1,
       preconditions |-> <<[kind |-> "Slot", slot |-> s1, expected |-> Absent]>>,
       operations |-> <<Allocate(0), DefineAs(Own(0))>>],
      \* a literal, for a caller that expects the world it saw
      [namespace |-> 1, preconditions |-> <<[kind |-> "World"]>>,
       operations |-> <<DefineAs([literal |-> a])>>],
      \* a handle of another intent, after an allocation that must be undone
      [namespace |-> 1, preconditions |-> <<>>,
       operations |-> <<Allocate(0), DefineAs([temporary |-> 0, namespace |-> 2])>>],
      [namespace |-> 1, preconditions |-> <<>>,
       operations |-> <<[kind |-> "Forget", slot |-> s1]>>] }
=============================================================================
