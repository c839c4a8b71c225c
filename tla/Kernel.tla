------------------------------- MODULE Kernel -------------------------------
(***************************************************************************)
(* The production semantic kernel of forthdb-core: the append-only         *)
(* definition log with one active head per slot (SharedDefinitionStore),   *)
(* the seven indexes over the active definitions (SharedCurrentView) and   *)
(* the operations that keep the two in step (ForthDb).                     *)
(*                                                                         *)
(* Record identifiers are positions of the log, counted from 1; 0 stands   *)
(* for Rust's None.  An index key is a fact restricted to the columns the  *)
(* index is built on, so the seven indexes are one function over partial   *)
(* facts; an empty bucket is a bucket the code has dropped.                *)
(***************************************************************************)
EXTENDS Integers, Sequences, FiniteSets

CONSTANTS
    Slots,        \* slot identifiers
    Atoms,        \* entities and literals
    Predicates,
    MaxRecords,   \* bound: records appended to the log
    MaxEntities   \* bound: entities allocated

ASSUME KernelAssumption ==
    /\ MaxRecords \in Nat
    /\ MaxEntities \in Nat

VARIABLES
    log,          \* Seq(Record)
    head,         \* head[s]: identifier of the active definition of s, or 0
    slotHistory,  \* slotHistory[s]: identifiers of every record of s, in order
    storeSig,     \* ActiveSignature kept by the definition store
    bucket,       \* bucket[k]: identifiers indexed under key k
    viewSig,      \* ActiveSignature kept by the indexes
    nextEntity    \* the identifier the next allocation returns

storeVars == <<log, head, slotHistory, storeSig>>
viewVars == <<bucket, viewSig>>
vars == <<log, head, slotHistory, storeSig, bucket, viewSig, nextEntity>>

-----------------------------------------------------------------------------
(* Facts, records and index keys.                                          *)

Columns == {"subject", "predicate", "object"}

Facts == [subject : Atoms, predicate : Predicates, object : Atoms]

\* A Forget record carries no fact; the field then holds this placeholder.
NoFact == [forgotten |-> TRUE]

Record == [kind : {"Define", "Forget"}, slot : Slots, fact : Facts \cup {NoFact},
           previous_head : Nat, resulting_head : Nat]

\* The columns of the seven indexes: every nonempty combination.
Shapes == (SUBSET Columns) \ {{}}

\* The fact restricted to the columns of one index.
KeyOf(fact, shape) == [c \in shape |-> fact[c]]

KeysOf(fact) == {KeyOf(fact, shape) : shape \in Shapes}

Keys == UNION {KeysOf(f) : f \in Facts}

FactOf(id) == log[id].fact

-----------------------------------------------------------------------------
(* ActiveSignature: a count and order-independent digests of the active     *)
(* identifiers.  The digests add and subtract, and are kept as one sum.     *)

EmptySig == [count |-> 0, digest |-> 0]

SigAdd(sig, id) == [count |-> sig.count + 1, digest |-> sig.digest + id]

SigRemove(sig, id) == [count |-> sig.count - 1, digest |-> sig.digest - id]

-----------------------------------------------------------------------------
(* SharedDefinitionStore.                                                   *)

\* Fault: the old head is not taken out of the signature.
ReplaceSigKeepsOld(sig, old, new) == IF new # 0 THEN SigAdd(sig, new) ELSE sig

\* The signature update of replace_head: the old head leaves, the new enters.
ReplaceSig(sig, old, new) ==
    LET left == IF old # 0 THEN SigRemove(sig, old) ELSE sig
    IN  IF new # 0 THEN SigAdd(left, new) ELSE left

ReplaceHead(s, new) ==
    /\ head' = [head EXCEPT ![s] = new]
    /\ storeSig' = ReplaceSig(storeSig, head[s], new)

AppendRecord(s, record) ==
    /\ log' = Append(log, record)
    /\ slotHistory' = [slotHistory EXCEPT ![s] = Append(@, Len(log) + 1)]

AppendDefine(s, f) ==
    LET id == Len(log) + 1
    IN  /\ AppendRecord(s, [kind |-> "Define", slot |-> s, fact |-> f,
                            previous_head |-> head[s], resulting_head |-> id])
        /\ ReplaceHead(s, id)

\* Fault: forgetting empties the slot instead of popping one definition.
RevealedNothing(s) == 0

\* What forgetting s makes active again: the head the current one shadowed.
Revealed(s) == IF head[s] = 0 THEN 0 ELSE log[head[s]].previous_head

AppendForget(s) ==
    /\ AppendRecord(s, [kind |-> "Forget", slot |-> s, fact |-> NoFact,
                        previous_head |-> head[s],
                        resulting_head |-> Revealed(s)])
    /\ ReplaceHead(s, Revealed(s))

\* The facts met when the previous_head links are walked down from a record,
\* oldest first.
ChainOf(records) ==
    LET chain[id \in 0..Len(records)] ==
            IF id = 0 THEN <<>>
                      ELSE Append(chain[records[id].previous_head], records[id].fact)
    IN  chain

\* SharedDefinitionStore::definitions: the walk from the head.
Definitions(s) == ChainOf(log)[head[s]]

-----------------------------------------------------------------------------
(* SharedCurrentView.                                                       *)

ViewAdd(id, fact) ==
    /\ bucket' = [k \in Keys |-> IF k \in KeysOf(fact) THEN bucket[k] \cup {id}
                                                       ELSE bucket[k]]
    /\ viewSig' = SigAdd(viewSig, id)

ViewRemove(id, fact) ==
    /\ bucket' = [k \in Keys |-> IF k \in KeysOf(fact) THEN bucket[k] \ {id}
                                                       ELSE bucket[k]]
    /\ viewSig' = SigRemove(viewSig, id)

\* replace_index touches a bucket that exists and creates none.
ReplaceIndex(ids, old, new) == IF ids = {} THEN {} ELSE (ids \ {old}) \cup {new}

\* Fault: an index whose key does not change is skipped.
ReplacedBucketSkips(k, old, oldFact, new, newFact) ==
    CASE k \in KeysOf(oldFact) /\ k \notin KeysOf(newFact) -> bucket[k] \ {old}
      [] k \notin KeysOf(oldFact) /\ k \in KeysOf(newFact) -> bucket[k] \cup {new}
      [] OTHER -> bucket[k]

\* Per index: the key is unchanged, or the old key is left and the new joined.
ReplacedBucket(k, old, oldFact, new, newFact) ==
    CASE k \in KeysOf(oldFact) /\ k \in KeysOf(newFact) ->
             ReplaceIndex(bucket[k], old, new)
      [] k \in KeysOf(oldFact) /\ k \notin KeysOf(newFact) -> bucket[k] \ {old}
      [] k \notin KeysOf(oldFact) /\ k \in KeysOf(newFact) -> bucket[k] \cup {new}
      [] OTHER -> bucket[k]

ViewReplace(old, oldFact, new, newFact) ==
    /\ bucket' = [k \in Keys |-> ReplacedBucket(k, old, oldFact, new, newFact)]
    /\ viewSig' = SigAdd(SigRemove(viewSig, old), new)

\* The identifiers a pattern with the given bound columns is matched against.
Candidates(partial) ==
    IF DOMAIN partial = {} THEN {head[s] : s \in {t \in Slots : head[t] # 0}}
                           ELSE bucket[partial]

-----------------------------------------------------------------------------
(* ForthDb.                                                                 *)

Init ==
    /\ log = <<>>
    /\ head = [s \in Slots |-> 0]
    /\ slotHistory = [s \in Slots |-> <<>>]
    /\ storeSig = EmptySig
    /\ bucket = [k \in Keys |-> {}]
    /\ viewSig = EmptySig
    /\ nextEntity = 1

Entity ==
    /\ nextEntity <= MaxEntities
    /\ nextEntity' = nextEntity + 1
    /\ UNCHANGED <<storeVars, viewVars>>

Define(s, f) ==
    /\ Len(log) < MaxRecords
    /\ AppendDefine(s, f)
    /\ IF head[s] # 0
       THEN ViewReplace(head[s], FactOf(head[s]), Len(log) + 1, f)
       ELSE ViewAdd(Len(log) + 1, f)
    /\ UNCHANGED nextEntity

\* The code's third branch, a revealed head where there was none, cannot be
\* taken: Revealed(s) is 0 when head[s] is.
Forget(s) ==
    /\ Len(log) < MaxRecords
    /\ AppendForget(s)
    /\ \/ /\ head[s] # 0
          /\ Revealed(s) # 0
          /\ ViewReplace(head[s], FactOf(head[s]), Revealed(s), FactOf(Revealed(s)))
       \/ /\ head[s] # 0
          /\ Revealed(s) = 0
          /\ ViewRemove(head[s], FactOf(head[s]))
       \/ /\ head[s] = 0
          /\ UNCHANGED viewVars
    /\ UNCHANGED nextEntity

Next ==
    \/ Entity
    \/ \E s \in Slots, f \in Facts : Define(s, f)
    \/ \E s \in Slots : Forget(s)

Spec == Init /\ [][Next]_vars

-----------------------------------------------------------------------------
(* Properties.                                                              *)

Ids == 1..Len(log)

\* Type invariant: the log grows record by record, heads and indexed
\* identifiers point into it, and history lists identifiers of the log.
TypeOK ==
    /\ log \in Seq(Record)
    /\ head \in [Slots -> 0..Len(log)]
    /\ slotHistory \in [Slots -> Seq(Ids)]
    /\ bucket \in [Keys -> SUBSET Ids]
    /\ storeSig.count \in Int /\ storeSig.digest \in Int
    /\ nextEntity \in 1..(MaxEntities + 1)

\* Every head is a definition of the slot it is the head of, and what it
\* shadows is an older definition of the same slot (or nothing): the
\* debug_assert of SharedDefinitionStore::definitions and the check of
\* validate_full, for whatever mix of definitions and forgets came before.
HeadsAreDefinitions ==
    \A s \in Slots : head[s] # 0 =>
        LET r == log[head[s]]
        IN  /\ r.kind = "Define"
            /\ r.slot = s
            /\ r.fact \in Facts
            /\ r.previous_head < head[s]

\* Whatever columns of a pattern are bound, the index chosen for it yields
\* exactly the active definitions that agree with the bound columns, as a scan
\* of the heads would: incremental add, remove and replace of the seven indexes
\* never leave a stale or a missing entry.
IndexesAreExact ==
    \A k \in Keys \cup {[c \in {} |-> c]} :
        Candidates(k) = {id \in Ids : /\ head[log[id].slot] = id
                                      /\ \A c \in DOMAIN k : FactOf(id)[c] = k[c]}

\* ForthDb::validate (validate_fast of store and view) accepts every state: the
\* two separately maintained signatures are equal, count the active heads and
\* never exceed the log.
ValidateAccepts ==
    /\ viewSig = storeSig
    /\ storeSig.count = Cardinality({s \in Slots : head[s] # 0})
    /\ storeSig.count <= Len(log)

\* The log is the authority: nothing already recorded is ever rewritten.
LogAppendOnly ==
    [][/\ Len(log') >= Len(log)
       /\ SubSeq(log', 1, Len(log)) = log]_vars

\* The kernel implements the stack-per-slot specification: what definitions()
\* returns for a slot is its stack.
Stacks == INSTANCE SlotStacks
            WITH stack <- [s \in Slots |-> Definitions(s)],
                 allocated <- nextEntity - 1

ImplementsSlotStacks == Stacks!Spec
=============================================================================
