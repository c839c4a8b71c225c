---------------------------- MODULE LegacyKernel ----------------------------
(***************************************************************************)
(* The flat kernel of forthdb-core (lib.rs, exported as LegacyForthDb): a  *)
(* vector of records, a map of heads, and seven hash indexes that are      *)
(* changed by taking the old head out before the record is appended and    *)
(* putting the new one in after it.  It is kept as the reference the       *)
(* shared kernel is compared with.                                         *)
(*                                                                         *)
(* Records and facts are those of Kernel; identifiers count from 1 and 0   *)
(* is None.  Here an index holds a key only while its bucket is nonempty.  *)
(***************************************************************************)
EXTENDS Integers, Sequences, FiniteSets

CONSTANTS Slots

VARIABLES
    log,          \* DefinitionStore.log
    head,         \* DefinitionStore.head: a function on the defined slots
    slotHistory,  \* DefinitionStore.slot_history
    index,        \* CurrentView: from keys to nonempty sets of identifiers
    nextEntity

vars == <<log, head, slotHistory, index, nextEntity>>

-----------------------------------------------------------------------------
(* Partial functions stand for the hash maps.                                *)

Without(map, key) == [k \in DOMAIN map \ {key} |-> map[k]]

With(map, key, value) ==
    [k \in DOMAIN map \cup {key} |-> IF k = key THEN value ELSE map[k]]

HeadOf(s) == IF s \in DOMAIN head THEN head[s] ELSE 0

\* The keys of a fact in by_subject, by_predicate, ..., by_exact.
IndexKeys(fact) ==
    {[c \in shape |-> fact[c]] : shape \in (SUBSET DOMAIN fact) \ {{}}}

-----------------------------------------------------------------------------
(* CurrentView.                                                              *)

InsertIndex(ids, id) == ids \cup {id}

\* Fault: the bucket is dropped with the first identifier that leaves it.
RemoveIndexDrops(ids, id) == {}

RemoveIndex(ids, id) == ids \ {id}

Bucket(idx, k) == IF k \in DOMAIN idx THEN idx[k] ELSE {}

\* insert_index on every index of the fact.
Added(idx, id, fact) ==
    [k \in DOMAIN idx \cup IndexKeys(fact) |->
        IF k \in IndexKeys(fact) THEN InsertIndex(Bucket(idx, k), id) ELSE idx[k]]

\* remove_index on every index of the fact; a bucket left empty is dropped.
Removed(idx, id, fact) ==
    LET left == [k \in DOMAIN idx |->
                    IF k \in IndexKeys(fact) THEN RemoveIndex(idx[k], id) ELSE idx[k]]
    IN  [k \in {j \in DOMAIN idx : left[j] # {}} |-> left[k]]

\* The index once the head of a slot, if it has one, is taken out.
WithoutHead(s) ==
    IF HeadOf(s) = 0 THEN index ELSE Removed(index, HeadOf(s), log[HeadOf(s)].fact)

-----------------------------------------------------------------------------
(* DefinitionStore.                                                          *)

AppendRecord(s, record) ==
    /\ log' = Append(log, record)
    /\ slotHistory' = With(slotHistory, s,
           Append(IF s \in DOMAIN slotHistory THEN slotHistory[s] ELSE <<>>, Len(log) + 1))

AppendDefine(s, fact) ==
    /\ AppendRecord(s, [kind |-> "Define", slot |-> s, fact |-> fact,
                        previous_head |-> HeadOf(s), resulting_head |-> Len(log) + 1])
    /\ head' = With(head, s, Len(log) + 1)

Revealed(s) == IF HeadOf(s) = 0 THEN 0 ELSE log[HeadOf(s)].previous_head

AppendForget(s, none) ==
    /\ AppendRecord(s, [kind |-> "Forget", slot |-> s, fact |-> none,
                        previous_head |-> HeadOf(s), resulting_head |-> Revealed(s)])
    /\ head' = IF Revealed(s) # 0 THEN With(head, s, Revealed(s)) ELSE Without(head, s)

\* The records history() returns; none for a slot never touched.
History(s) ==
    IF s \in DOMAIN slotHistory
    THEN [i \in DOMAIN slotHistory[s] |-> log[slotHistory[s][i]]]
    ELSE <<>>

\* The facts definitions() returns, oldest first.
Definitions(s) ==
    LET Chain[id \in 0..Len(log)] ==
            IF id = 0 THEN <<>> ELSE Append(Chain[log[id].previous_head], log[id].fact)
    IN  Chain[HeadOf(s)]

-----------------------------------------------------------------------------
(* ForthDb.                                                                  *)

Init ==
    /\ log = <<>>
    /\ head = <<>>
    /\ slotHistory = <<>>
    /\ index = <<>>
    /\ nextEntity = 1

Entity ==
    /\ nextEntity' = nextEntity + 1
    /\ UNCHANGED <<log, head, slotHistory, index>>

Define(s, fact) ==
    /\ AppendDefine(s, fact)
    /\ index' = Added(WithoutHead(s), Len(log) + 1, fact)
    /\ UNCHANGED nextEntity

Forget(s, none) ==
    /\ AppendForget(s, none)
    /\ index' = IF Revealed(s) = 0 THEN WithoutHead(s)
                ELSE Added(WithoutHead(s), Revealed(s), log[Revealed(s)].fact)
    /\ UNCHANGED nextEntity

ActiveRecordIds == {head[s] : s \in DOMAIN head}

\* CurrentView::candidates, for the columns that are fixed.
Candidates(partial) ==
    IF DOMAIN partial = {} THEN ActiveRecordIds ELSE Bucket(index, partial)

\* CurrentView::validate: the subject-and-predicate index holds the heads.
ViewValidate ==
    ActiveRecordIds =
        UNION {index[k] : k \in {j \in DOMAIN index : DOMAIN j = {"subject", "predicate"}}}

\* ForthDb::validate.
Validate == (\A s \in DOMAIN head : log[head[s]].kind = "Define") /\ ViewValidate
=============================================================================
