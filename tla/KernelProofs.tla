---------------------------- MODULE KernelProofs ----------------------------
(***************************************************************************)
(* TLAPS proofs about the kernels.  Kernel: type correctness, the shape of *)
(* the heads, exactness of the seven indexes, the agreement of the two     *)
(* signatures, the append-only log and the refinement of a stack per slot, *)
(* for any sets of slots, atoms and predicates and any number of records.  *)
(* KernelPair: the flat and the shared kernel never differ.  Reaper: what  *)
(* is queued for the reaper is counted exactly and a drain misses nothing. *)
(***************************************************************************)
EXTENDS KernelPair, Reaper, FiniteSetTheorems, SequenceTheorems, WellFoundedInduction, TLAPS

\* The shadowing links: a Define record carries a fact and its previous_head,
\* when it has one, is an older Define record of the same slot.
Linked ==
    \A i \in 1..Len(log) : log[i].kind = "Define" =>
        /\ log[i].fact \in Facts
        /\ log[i].previous_head < i
        /\ log[i].previous_head # 0 =>
            /\ log[log[i].previous_head].kind = "Define"
            /\ log[log[i].previous_head].slot = log[i].slot

HeadsLive ==
    \A s \in Slots : head[s] # 0 => log[head[s]].kind = "Define" /\ log[head[s]].slot = s

\* A bucket holds the active identifiers whose fact has the bucket's key.
BucketsExact ==
    \A k \in Keys : \A id \in 1..Len(log) :
        id \in bucket[k] <=> head[log[id].slot] = id /\ k \in KeysOf(log[id].fact)

Active == {s \in Slots : head[s] # 0}

SignatureCounts ==
    /\ viewSig = storeSig
    /\ IsFiniteSet(Active)
    /\ storeSig.count = Cardinality(Active)
    /\ storeSig.count <= Len(log)

\* The inductive invariant.
IInv == TypeOK /\ Linked /\ HeadsLive /\ BucketsExact /\ SignatureCounts

-----------------------------------------------------------------------------
(* Keys.                                                                     *)

\* A fact has a key exactly when it agrees with it on the key's columns: what
\* the index lookups of SharedCurrentView rely on.
LEMMA KeyAgreement ==
    ASSUME NEW k \in Keys, NEW f
    PROVE  k \in KeysOf(f) <=> \A c \in DOMAIN k : f[c] = k[c]
<1>1. PICK g \in Facts, shape \in Shapes : k = [c \in shape |-> g[c]]
  BY DEF Keys, KeysOf, KeyOf
<1>2. k \in KeysOf(f) <=> \E sh \in Shapes : k = [c \in sh |-> f[c]]
  BY DEF KeysOf, KeyOf
<1>3. ASSUME \A c \in DOMAIN k : f[c] = k[c] PROVE k \in KeysOf(f)
  <2>1. k = [c \in shape |-> f[c]]
    BY <1>1, <1>3
  <2> QED BY <2>1, <1>2
<1>4. ASSUME k \in KeysOf(f) PROVE \A c \in DOMAIN k : f[c] = k[c]
  BY <1>2, <1>4
<1> QED BY <1>3, <1>4

LEMMA KeysHaveColumns ==
    ASSUME NEW k \in Keys
    PROVE  DOMAIN k # {}
<1>1. PICK g \in Facts, shape \in Shapes : k = [c \in shape |-> g[c]]
  BY DEF Keys, KeysOf, KeyOf
<1> QED BY <1>1 DEF Shapes

-----------------------------------------------------------------------------
(* The inductive invariant holds initially.                                  *)

\* A new database has an empty log, no head, empty indexes and two empty
\* signatures, which count no slot.
LEMMA InitIInv == Init => IInv
<1> SUFFICES ASSUME Init PROVE IInv
  OBVIOUS
<1>1. Len(log) = 0 /\ log \in Seq(Record)
  BY DEF Init
<1>2. TypeOK
  BY <1>1, KernelAssumption DEF Init, TypeOK, EmptySig, Ids
<1>3. Linked /\ HeadsLive /\ BucketsExact
  BY <1>1 DEF Init, Linked, HeadsLive, BucketsExact
<1>4. Active = {}
  BY DEF Init, Active
<1>5. SignatureCounts
  BY <1>1, <1>4, FS_EmptySet DEF Init, SignatureCounts, EmptySig
<1> QED BY <1>2, <1>3, <1>5 DEF IInv

-----------------------------------------------------------------------------
(* Steps of the definition store.                                            *)

\* What appending a record does to the log: older records stay.
LEMMA AppendedLog ==
    ASSUME NEW r \in Record, log \in Seq(Record), log' = Append(log, r)
    PROVE  /\ log' \in Seq(Record)
           /\ Len(log') = Len(log) + 1
           /\ Len(log) \in Nat
           /\ \A i \in 1..Len(log) : log'[i] = log[i]
           /\ log'[Len(log) + 1] = r
BY DEF Record

\* append_define and append_forget: a record of s is appended and the head of s
\* moves to h, an older definition of s, the new record, or nothing.
LEMMA StoreStep ==
    ASSUME IInv, NEW s \in Slots, NEW r \in Record, NEW h \in 0..(Len(log) + 1),
           log' = Append(log, r), r.slot = s, r.previous_head = head[s],
           r.kind = "Define" => r.fact \in Facts,
           h # 0 => \/ h = Len(log) + 1 /\ r.kind = "Define"
                    \/ h <= Len(log) /\ log[h].kind = "Define" /\ log[h].slot = s,
           head' = [head EXCEPT ![s] = h]
    PROVE  /\ head' \in [Slots -> 0..Len(log')]
           /\ Linked'
           /\ HeadsLive'
<1>1. TypeOK /\ Linked /\ HeadsLive
  BY DEF IInv
<1>2. /\ log \in Seq(Record)
      /\ head \in [Slots -> 0..Len(log)]
  BY <1>1 DEF TypeOK
<1>3. /\ log' \in Seq(Record) /\ Len(log') = Len(log) + 1 /\ Len(log) \in Nat
      /\ \A i \in 1..Len(log) : log'[i] = log[i]
      /\ log'[Len(log) + 1] = r
  BY <1>2, AppendedLog
<1>4. head' \in [Slots -> 0..Len(log')]
  BY <1>2, <1>3
<1>5. Linked'
  <2> SUFFICES ASSUME NEW i \in 1..Len(log'), log'[i].kind = "Define"
               PROVE  /\ log'[i].fact \in Facts
                      /\ log'[i].previous_head < i
                      /\ log'[i].previous_head # 0 =>
                          /\ log'[log'[i].previous_head].kind = "Define"
                          /\ log'[log'[i].previous_head].slot = log'[i].slot
    BY DEF Linked
  <2>1. CASE i \in 1..Len(log)
    <3>1. log[i] \in Record
      BY <1>2, <2>1
    <3>2. log[i].previous_head \in Nat
      BY <3>1 DEF Record
    <3> QED BY <1>1, <1>3, <2>1, <3>2 DEF Linked
  <2>2. CASE i = Len(log) + 1
    <3>1. head[s] \in 0..Len(log)
      BY <1>2
    <3> QED BY <1>1, <1>3, <2>2, <3>1 DEF HeadsLive
  <2>3. i \in 1..Len(log) \/ i = Len(log) + 1
    BY <1>3
  <2> QED BY <2>1, <2>2, <2>3
<1>6. HeadsLive'
  <2> SUFFICES ASSUME NEW t \in Slots, head'[t] # 0
               PROVE  log'[head'[t]].kind = "Define" /\ log'[head'[t]].slot = t
    BY DEF HeadsLive
  <2>1. CASE t = s
    <3>1. head'[t] = h
      BY <1>2, <2>1
    <3> QED BY <1>3, <2>1, <3>1
  <2>2. CASE t # s
    <3>1. head'[t] = head[t] /\ head[t] \in 1..Len(log)
      BY <1>2, <2>2
    <3> QED BY <1>1, <1>3, <3>1 DEF HeadsLive
  <2> QED BY <2>1, <2>2
<1> QED BY <1>4, <1>5, <1>6

\* The history of s gains the new identifier, which is in range.
LEMMA HistoryStep ==
    ASSUME IInv, NEW s \in Slots, Len(log') = Len(log) + 1,
           slotHistory' = [slotHistory EXCEPT ![s] = Append(@, Len(log) + 1)]
    PROVE  slotHistory' \in [Slots -> Seq(1..Len(log'))]
<1>1. slotHistory \in [Slots -> Seq(1..Len(log))] /\ Len(log) \in Nat
  BY DEF IInv, TypeOK, Ids
<1>2. \A t \in Slots : slotHistory[t] \in Seq(1..Len(log'))
  <2> TAKE t \in Slots
  <2>1. slotHistory[t] \in Seq(1..Len(log)) /\ 1..Len(log) \subseteq 1..Len(log')
    BY <1>1
  <2> QED BY <2>1, SeqMonotonic
<1>3. Append(slotHistory[s], Len(log) + 1) \in Seq(1..Len(log'))
  BY <1>1, <1>2
<1> QED BY <1>1, <1>2, <1>3

\* replace_head keeps the signature a count of the slots that have a head.
LEMMA SignatureStep ==
    ASSUME IInv, NEW s \in Slots, NEW h \in Nat, Len(log') = Len(log) + 1,
           head' = [head EXCEPT ![s] = h],
           storeSig' = ReplaceSig(storeSig, head[s], h),
           viewSig' = storeSig'
    PROVE  SignatureCounts' /\ storeSig'.count \in Int /\ storeSig'.digest \in Int
<1>1. /\ head \in [Slots -> 0..Len(log)] /\ Len(log) \in Nat
      /\ storeSig.count \in Int /\ storeSig.digest \in Int
  BY DEF IInv, TypeOK
<1>2. /\ IsFiniteSet(Active) /\ storeSig.count = Cardinality(Active)
      /\ storeSig.count <= Len(log)
  BY DEF IInv, SignatureCounts
<1>3. head[s] \in Nat
  BY <1>1
<1>4. storeSig'.count \in Int /\ storeSig'.digest \in Int
  BY <1>1, <1>3 DEF ReplaceSig, SigAdd, SigRemove
<1>5. /\ IsFiniteSet(Active')
      /\ storeSig'.count = Cardinality(Active')
      /\ storeSig'.count <= Len(log) + 1
  <2>1. CASE head[s] # 0 /\ h # 0
    <3>1. Active' = Active
      BY <1>1, <2>1 DEF Active
    <3>2. storeSig'.count = storeSig.count
      BY <1>1, <2>1 DEF ReplaceSig, SigAdd, SigRemove
    <3> QED BY <1>1, <1>2, <3>1, <3>2
  <2>2. CASE head[s] # 0 /\ h = 0
    <3>1. Active' = Active \ {s} /\ s \in Active
      BY <1>1, <2>2 DEF Active
    <3>2. storeSig'.count = storeSig.count - 1
      BY <1>1, <2>2 DEF ReplaceSig, SigAdd, SigRemove
    <3>3. IsFiniteSet(Active \ {s}) /\ Cardinality(Active \ {s}) = Cardinality(Active) - 1
      BY <1>2, <3>1, FS_RemoveElement
    <3> QED BY <1>1, <1>2, <3>1, <3>2, <3>3
  <2>3. CASE head[s] = 0 /\ h # 0
    <3>1. Active' = Active \cup {s} /\ s \notin Active
      BY <1>1, <2>3 DEF Active
    <3>2. storeSig'.count = storeSig.count + 1
      BY <1>1, <2>3 DEF ReplaceSig, SigAdd, SigRemove
    <3>3. /\ IsFiniteSet(Active \cup {s})
          /\ Cardinality(Active \cup {s}) = Cardinality(Active) + 1
      BY <1>2, <3>1, FS_AddElement
    <3> QED BY <1>1, <1>2, <3>1, <3>2, <3>3
  <2>4. CASE head[s] = 0 /\ h = 0
    <3>1. Active' = Active
      BY <1>1, <2>4 DEF Active
    <3>2. storeSig' = storeSig
      BY <2>4 DEF ReplaceSig
    <3> QED BY <1>1, <1>2, <3>1, <3>2
  <2> QED BY <2>1, <2>2, <2>3, <2>4
<1> QED BY <1>4, <1>5 DEF SignatureCounts

-----------------------------------------------------------------------------
(* Steps of the indexes.                                                     *)

\* If every bucket loses the old head of s and those with a key of the new head
\* gain it, the buckets are exact again.
LEMMA BucketStep ==
    ASSUME IInv, NEW s \in Slots, NEW r \in Record, NEW h \in 0..(Len(log) + 1),
           log' = Append(log, r),
           h # 0 => log'[h].slot = s,
           r.slot = s,
           head' = [head EXCEPT ![s] = h],
           bucket' = [k \in Keys |->
                        (bucket[k] \ {head[s]}) \cup
                        (IF h # 0 /\ k \in KeysOf(log'[h].fact) THEN {h} ELSE {})]
    PROVE  bucket' \in [Keys -> SUBSET (1..Len(log'))] /\ BucketsExact'
<1>1. /\ log \in Seq(Record) /\ head \in [Slots -> 0..Len(log)]
      /\ bucket \in [Keys -> SUBSET (1..Len(log))]
      /\ BucketsExact
  BY DEF IInv, TypeOK, Ids
<1>2. /\ log' \in Seq(Record) /\ Len(log') = Len(log) + 1 /\ Len(log) \in Nat
      /\ \A i \in 1..Len(log) : log'[i] = log[i]
      /\ log'[Len(log) + 1] = r
  BY <1>1, AppendedLog
<1>3. bucket' \in [Keys -> SUBSET (1..Len(log'))]
  BY <1>1, <1>2
<1>4. BucketsExact'
  <2> SUFFICES ASSUME NEW k \in Keys, NEW id \in 1..Len(log')
               PROVE  id \in bucket'[k]
                        <=> head'[log'[id].slot] = id /\ k \in KeysOf(log'[id].fact)
    BY DEF BucketsExact
  <2>1. id \in bucket'[k]
          <=> \/ id \in bucket[k] /\ id # head[s]
              \/ id = h /\ k \in KeysOf(log'[h].fact)
    <3>1. bucket'[k] = (bucket[k] \ {head[s]}) \cup
                       (IF h # 0 /\ k \in KeysOf(log'[h].fact) THEN {h} ELSE {})
      OBVIOUS
    <3>2. id # 0
      BY <1>2
    <3> QED BY <3>1, <3>2
  <2>2. id \in 1..Len(log) \/ id = Len(log) + 1
    BY <1>2
  <2>3. log'[id].slot \in Slots
    <3>1. log'[id] \in Record
      BY <1>2, ElementOfSeq
    <3> QED BY <3>1 DEF Record
  <2>4. CASE id \in 1..Len(log)
    <3>1. log'[id] = log[id]
      BY <1>2, <2>4
    <3>2. id \in bucket[k] <=> head[log[id].slot] = id /\ k \in KeysOf(log[id].fact)
      BY <1>1, <2>4 DEF BucketsExact
    <3>3. CASE log[id].slot = s
      <4>1. head'[log'[id].slot] = h
        BY <1>1, <3>1, <3>3
      <4> QED BY <2>1, <3>1, <3>2, <3>3, <4>1
    <3>4. CASE log[id].slot # s
      <4>1. head'[log'[id].slot] = head[log[id].slot]
        BY <1>1, <3>1, <2>3, <3>4
      <4>2. id # h
        BY <3>1, <3>4, <2>4
      <4>3. head[log[id].slot] = id => id # head[s]
        <5> SUFFICES ASSUME head[log[id].slot] = id, head[s] = id PROVE FALSE
          OBVIOUS
        <5>1. log[head[s]].slot = s
          BY <2>4 DEF IInv, HeadsLive
        <5> QED BY <5>1, <3>4
      <4> QED BY <2>1, <3>1, <3>2, <4>1, <4>2, <4>3
    <3> QED BY <3>3, <3>4
  <2>5. CASE id = Len(log) + 1
    <3>1. id \notin bucket[k]
      BY <1>1, <1>2, <2>5
    <3>2. head'[log'[id].slot] = h
      BY <1>1, <1>2, <2>5
    <3> QED BY <2>1, <3>1, <3>2
  <2> QED BY <2>2, <2>4, <2>5
<1> QED BY <1>3, <1>4

\* add, remove and replace of SharedCurrentView all have that form, because a
\* bucket holds the old head exactly when the old head has the bucket's key.
LEMMA ViewForm ==
    ASSUME IInv, NEW s \in Slots, NEW h \in Nat, NEW f,
           \/ /\ head[s] # 0 /\ h # 0
              /\ ViewReplace(head[s], FactOf(head[s]), h, f)
           \/ head[s] = 0 /\ h # 0 /\ ViewAdd(h, f)
           \/ head[s] # 0 /\ h = 0 /\ ViewRemove(head[s], FactOf(head[s]))
           \/ head[s] = 0 /\ h = 0 /\ UNCHANGED viewVars
    PROVE  /\ bucket' = [k \in Keys |->
                           (bucket[k] \ {head[s]}) \cup
                           (IF h # 0 /\ k \in KeysOf(f) THEN {h} ELSE {})]
           /\ viewSig' = ReplaceSig(storeSig, head[s], h)
<1>1. /\ head \in [Slots -> 0..Len(log)] /\ Len(log) \in Nat
      /\ bucket \in [Keys -> SUBSET (1..Len(log))]
      /\ viewSig = storeSig /\ BucketsExact /\ HeadsLive
  BY DEF IInv, TypeOK, Ids, SignatureCounts
<1>2. viewSig' = ReplaceSig(storeSig, head[s], h)
  BY <1>1 DEF ViewReplace, ViewAdd, ViewRemove, viewVars, ReplaceSig
<1>3. ASSUME NEW k \in Keys
      PROVE  head[s] \in bucket[k] <=> head[s] # 0 /\ k \in KeysOf(FactOf(head[s]))
  <2>1. CASE head[s] = 0
    BY <1>1, <2>1
  <2>2. CASE head[s] # 0
    <3>1. head[s] \in 1..Len(log) /\ log[head[s]].slot = s
      BY <1>1, <2>2 DEF HeadsLive
    <3> QED BY <1>1, <2>2, <3>1 DEF BucketsExact, FactOf
  <2> QED BY <2>1, <2>2
<1>4. DOMAIN bucket' = Keys /\ bucket' = [k \in Keys |-> bucket'[k]]
  BY <1>1 DEF ViewReplace, ViewAdd, ViewRemove, viewVars
<1>5. ASSUME NEW k \in Keys
      PROVE  bucket'[k] = (bucket[k] \ {head[s]}) \cup
                          (IF h # 0 /\ k \in KeysOf(f) THEN {h} ELSE {})
  <2>1. CASE head[s] # 0 /\ h # 0
    <3>1. bucket'[k] = ReplacedBucket(k, head[s], FactOf(head[s]), h, f)
      BY <2>1 DEF ViewReplace
    <3>2. CASE k \in KeysOf(FactOf(head[s])) /\ k \in KeysOf(f)
      <4>1. bucket[k] # {}
        BY <1>3, <2>1, <3>2
      <4>2. bucket'[k] = (bucket[k] \ {head[s]}) \cup {h}
        BY <3>1, <3>2, <4>1 DEF ReplacedBucket, ReplaceIndex
      <4> QED BY <2>1, <3>2, <4>2
    <3>3. CASE k \in KeysOf(FactOf(head[s])) /\ k \notin KeysOf(f)
      <4>1. bucket'[k] = bucket[k] \ {head[s]}
        BY <3>1, <3>3 DEF ReplacedBucket
      <4> QED BY <2>1, <3>3, <4>1
    <3>4. CASE k \notin KeysOf(FactOf(head[s])) /\ k \in KeysOf(f)
      <4>1. bucket'[k] = bucket[k] \cup {h}
        BY <3>1, <3>4 DEF ReplacedBucket
      <4> QED BY <1>3, <2>1, <3>4, <4>1
    <3>5. CASE k \notin KeysOf(FactOf(head[s])) /\ k \notin KeysOf(f)
      <4>1. bucket'[k] = bucket[k]
        BY <3>1, <3>5 DEF ReplacedBucket
      <4> QED BY <1>3, <2>1, <3>5, <4>1
    <3> QED BY <3>2, <3>3, <3>4, <3>5
  <2>2. CASE head[s] = 0 /\ h # 0
    <3>1. bucket'[k] = IF k \in KeysOf(f) THEN bucket[k] \cup {h} ELSE bucket[k]
      BY <2>2 DEF ViewAdd
    <3>2. head[s] \notin bucket[k]
      BY <1>3, <2>2
    <3> QED BY <2>2, <3>1, <3>2
  <2>3. CASE head[s] # 0 /\ h = 0
    <3>1. bucket'[k] = IF k \in KeysOf(FactOf(head[s])) THEN bucket[k] \ {head[s]}
                                                        ELSE bucket[k]
      BY <2>3 DEF ViewRemove
    <3> QED BY <1>3, <2>3, <3>1
  <2>4. CASE head[s] = 0 /\ h = 0
    <3>1. bucket'[k] = bucket[k] /\ head[s] \notin bucket[k]
      BY <1>3, <2>4 DEF viewVars
    <3> QED BY <2>4, <3>1
  <2> QED BY <2>1, <2>2, <2>3, <2>4
<1>6. bucket' = [k \in Keys |->
                   (bucket[k] \ {head[s]}) \cup
                   (IF h # 0 /\ k \in KeysOf(f) THEN {h} ELSE {})]
  BY <1>4, <1>5, Zenon
<1> QED BY <1>2, <1>6

-----------------------------------------------------------------------------
(* Every operation preserves the inductive invariant.                        *)

\* Define and Forget share one shape: a record, a head, the matching index step.
LEMMA OperationStep ==
    ASSUME IInv, NEW s \in Slots, NEW r \in Record, NEW h \in 0..(Len(log) + 1), NEW f,
           AppendRecord(s, r), ReplaceHead(s, h), UNCHANGED nextEntity,
           r.slot = s, r.previous_head = head[s],
           r.kind = "Define" => r.fact \in Facts,
           h # 0 => \/ h = Len(log) + 1 /\ r.kind = "Define" /\ f = r.fact
                    \/ /\ h <= Len(log) /\ f = log[h].fact
                       /\ log[h].kind = "Define" /\ log[h].slot = s,
           \/ /\ head[s] # 0 /\ h # 0
              /\ ViewReplace(head[s], FactOf(head[s]), h, f)
           \/ head[s] = 0 /\ h # 0 /\ ViewAdd(h, f)
           \/ head[s] # 0 /\ h = 0 /\ ViewRemove(head[s], FactOf(head[s]))
           \/ head[s] = 0 /\ h = 0 /\ UNCHANGED viewVars
    PROVE  IInv'
<1>1. /\ log' = Append(log, r)
      /\ slotHistory' = [slotHistory EXCEPT ![s] = Append(@, Len(log) + 1)]
      /\ head' = [head EXCEPT ![s] = h]
      /\ storeSig' = ReplaceSig(storeSig, head[s], h)
  BY DEF AppendRecord, ReplaceHead
<1>2. log \in Seq(Record) /\ nextEntity \in 1..(MaxEntities + 1)
  BY DEF IInv, TypeOK
<1>3. /\ log' \in Seq(Record) /\ Len(log') = Len(log) + 1 /\ Len(log) \in Nat
      /\ \A i \in 1..Len(log) : log'[i] = log[i]
      /\ log'[Len(log) + 1] = r
  BY <1>1, <1>2, AppendedLog
<1>4. h # 0 => log'[h].slot = s /\ log'[h].fact = f
  BY <1>3
<1>5. head' \in [Slots -> 0..Len(log')] /\ Linked' /\ HeadsLive'
  <2>1. h # 0 => \/ h = Len(log) + 1 /\ r.kind = "Define"
                 \/ h <= Len(log) /\ log[h].kind = "Define" /\ log[h].slot = s
    OBVIOUS
  <2> QED BY <1>1, <2>1, StoreStep
<1>6. /\ bucket' = [k \in Keys |->
                      (bucket[k] \ {head[s]}) \cup
                      (IF h # 0 /\ k \in KeysOf(f) THEN {h} ELSE {})]
      /\ viewSig' = storeSig'
  <2>1. h \in Nat
    BY <1>3
  <2>2. viewSig' = ReplaceSig(storeSig, head[s], h)
    BY <2>1, ViewForm
  <2>3. bucket' = [k \in Keys |->
                     (bucket[k] \ {head[s]}) \cup
                     (IF h # 0 /\ k \in KeysOf(f) THEN {h} ELSE {})]
    BY <2>1, ViewForm
  <2> QED BY <1>1, <2>2, <2>3
<1>7. bucket' \in [Keys -> SUBSET (1..Len(log'))] /\ BucketsExact'
  <2>1. bucket' = [k \in Keys |->
                     (bucket[k] \ {head[s]}) \cup
                     (IF h # 0 /\ k \in KeysOf(log'[h].fact) THEN {h} ELSE {})]
    BY <1>4, <1>6
  <2> QED BY <1>1, <1>4, <2>1, BucketStep
<1>8. slotHistory' \in [Slots -> Seq(1..Len(log'))]
  BY <1>1, <1>3, HistoryStep
<1>9. SignatureCounts' /\ storeSig'.count \in Int /\ storeSig'.digest \in Int
  <2>1. h \in Nat
    BY <1>3
  <2> QED BY <1>1, <1>3, <1>6, <2>1, SignatureStep
<1>10. TypeOK'
  BY <1>2, <1>3, <1>5, <1>7, <1>8, <1>9 DEF TypeOK, Ids
<1> QED BY <1>5, <1>7, <1>9, <1>10 DEF IInv

LEMMA DefineStep ==
    ASSUME IInv, NEW s \in Slots, NEW f \in Facts, Define(s, f)
    PROVE  IInv'
<1> DEFINE h == Len(log) + 1
           r == [kind |-> "Define", slot |-> s, fact |-> f,
                 previous_head |-> head[s], resulting_head |-> h]
<1>1. log \in Seq(Record) /\ head \in [Slots -> 0..Len(log)]
  BY DEF IInv, TypeOK
<1>2. Len(log) \in Nat /\ h \in 0..(Len(log) + 1) /\ h # 0 /\ head[s] \in Nat
  BY <1>1
<1>3. r \in Record
  BY <1>2 DEF Record
<1>4. AppendRecord(s, r) /\ ReplaceHead(s, h) /\ UNCHANGED nextEntity
  BY DEF Define, AppendDefine
<1>5. \/ head[s] # 0 /\ ViewReplace(head[s], FactOf(head[s]), h, f)
      \/ head[s] = 0 /\ ViewAdd(h, f)
  BY DEF Define
<1>6. r.slot = s /\ r.previous_head = head[s] /\ r.kind = "Define" /\ r.fact = f
  OBVIOUS
<1> HIDE DEF h, r
<1>7. h = Len(log) + 1
  BY DEF h
<1> QED BY <1>2, <1>3, <1>4, <1>5, <1>6, <1>7, OperationStep

LEMMA ForgetStep ==
    ASSUME IInv, NEW s \in Slots, Forget(s)
    PROVE  IInv'
<1> DEFINE h == Revealed(s)
           r == [kind |-> "Forget", slot |-> s, fact |-> NoFact,
                 previous_head |-> head[s], resulting_head |-> h]
<1>1. log \in Seq(Record) /\ head \in [Slots -> 0..Len(log)]
      /\ Linked /\ HeadsLive
  BY DEF IInv, TypeOK
<1>2. Len(log) \in Nat /\ head[s] \in 0..Len(log)
  BY <1>1
<1>3. /\ h \in Nat /\ h <= Len(log)
      /\ h # 0 => head[s] # 0 /\ log[h].kind = "Define" /\ log[h].slot = s
  <2>1. CASE head[s] = 0
    BY <1>2, <2>1 DEF Revealed
  <2>2. CASE head[s] # 0
    <3>1. h = log[head[s]].previous_head /\ head[s] \in 1..Len(log)
      BY <1>2, <2>2 DEF Revealed
    <3>2. log[head[s]] \in Record
      BY <1>1, <3>1, ElementOfSeq
    <3>3. h \in Nat
      BY <3>1, <3>2 DEF Record
    <3>4. log[head[s]].kind = "Define" /\ log[head[s]].slot = s
      BY <1>1, <2>2 DEF HeadsLive
    <3>5. /\ log[head[s]].previous_head < head[s]
          /\ log[head[s]].previous_head # 0 =>
               /\ log[log[head[s]].previous_head].kind = "Define"
               /\ log[log[head[s]].previous_head].slot = log[head[s]].slot
      BY <1>1, <3>1, <3>4 DEF Linked
    <3> QED BY <1>2, <2>2, <3>1, <3>3, <3>4, <3>5
  <2> QED BY <2>1, <2>2
<1>4. r \in Record
  BY <1>2, <1>3 DEF Record
<1>5. AppendRecord(s, r) /\ ReplaceHead(s, h) /\ UNCHANGED nextEntity
  BY DEF Forget, AppendForget
<1>6. \/ /\ head[s] # 0 /\ h # 0
         /\ ViewReplace(head[s], FactOf(head[s]), h, FactOf(h))
      \/ head[s] # 0 /\ h = 0 /\ ViewRemove(head[s], FactOf(head[s]))
      \/ head[s] = 0 /\ h = 0 /\ UNCHANGED viewVars
  BY <1>3 DEF Forget
<1>7. r.slot = s /\ r.previous_head = head[s] /\ r.kind = "Forget"
  OBVIOUS
<1>8. h \in 0..(Len(log) + 1) /\ FactOf(h) = log[h].fact
  BY <1>2, <1>3 DEF FactOf
<1> HIDE DEF h, r
<1> DEFINE f == FactOf(h)
<1>9. f = log[h].fact
  BY <1>8
<1>10. \/ /\ head[s] # 0 /\ h # 0
          /\ ViewReplace(head[s], FactOf(head[s]), h, f)
       \/ head[s] = 0 /\ h # 0 /\ ViewAdd(h, f)
       \/ head[s] # 0 /\ h = 0 /\ ViewRemove(head[s], FactOf(head[s]))
       \/ head[s] = 0 /\ h = 0 /\ UNCHANGED viewVars
  BY <1>6
<1> HIDE DEF f
<1>11. h # 0 => /\ h <= Len(log) /\ f = log[h].fact
                /\ log[h].kind = "Define" /\ log[h].slot = s
  BY <1>3, <1>9
<1>12. r.kind # "Define"
  BY <1>7
<1> QED BY <1>4, <1>5, <1>7, <1>8, <1>10, <1>11, <1>12, OperationStep

LEMMA NextIInv == IInv /\ [Next]_vars => IInv'
<1> SUFFICES ASSUME IInv, [Next]_vars PROVE IInv'
  OBVIOUS
<1>1. ASSUME \/ UNCHANGED vars
             \/ UNCHANGED <<storeVars, viewVars>> /\ nextEntity' \in 1..(MaxEntities + 1)
      PROVE  IInv'
  <2>1. UNCHANGED <<log, head, slotHistory, storeSig, bucket, viewSig>>
    BY <1>1 DEF vars, storeVars, viewVars
  <2>2. TypeOK'
    BY <1>1, <2>1 DEF IInv, TypeOK, Ids, vars
  <2>3. Linked' /\ HeadsLive' /\ BucketsExact'
    BY <2>1 DEF IInv, Linked, HeadsLive, BucketsExact
  <2>4. Active' = Active
    BY <2>1 DEF Active
  <2>5. SignatureCounts'
    BY <2>1, <2>4 DEF IInv, SignatureCounts
  <2> QED BY <2>2, <2>3, <2>5 DEF IInv
<1>2. CASE Entity
  BY <1>1, <1>2, KernelAssumption DEF Entity, IInv, TypeOK
<1>3. CASE \E s \in Slots, f \in Facts : Define(s, f)
  BY <1>3, DefineStep
<1>4. CASE \E s \in Slots : Forget(s)
  BY <1>4, ForgetStep
<1> QED BY <1>1, <1>2, <1>3, <1>4 DEF Next

-----------------------------------------------------------------------------
(* The theorems.                                                             *)

\* The inductive invariant holds in every reachable state of the kernel.
THEOREM Invariance == Spec => []IInv
BY InitIInv, NextIInv, PTL DEF Spec

\* Records, heads, histories and buckets keep their types, and every identifier
\* held anywhere points into the log.
THEOREM TypeCorrect == Spec => []TypeOK
<1>1. IInv => TypeOK
  BY DEF IInv
<1> QED BY <1>1, Invariance, PTL

\* Whatever definitions and forgets came before, every head is a definition of
\* its own slot and shadows only an older record, so walking previous_head links
\* (definitions, forget) terminates and stays inside the slot.
THEOREM HeadsCorrect == Spec => []HeadsAreDefinitions
<1>1. IInv => HeadsAreDefinitions
  <2> SUFFICES ASSUME IInv, NEW s \in Slots, head[s] # 0
               PROVE  /\ log[head[s]].kind = "Define"
                      /\ log[head[s]].slot = s
                      /\ log[head[s]].fact \in Facts
                      /\ log[head[s]].previous_head < head[s]
    BY DEF HeadsAreDefinitions
  <2>1. head[s] \in 1..Len(log)
    BY DEF IInv, TypeOK
  <2> QED BY <2>1 DEF IInv, Linked, HeadsLive
<1> QED BY <1>1, Invariance, PTL

\* Incremental maintenance of the seven indexes is exact: for any bound columns
\* the chosen index yields precisely the active records that match them.
THEOREM IndexesCorrect == Spec => []IndexesAreExact
<1> DEFINE Free == [c \in {} |-> c]
<1>1. IInv => IndexesAreExact
  <2> SUFFICES ASSUME IInv, NEW k \in Keys \cup {Free}
               PROVE  Candidates(k) = {id \in Ids :
                          /\ head[log[id].slot] = id
                          /\ \A c \in DOMAIN k : FactOf(id)[c] = k[c]}
    BY DEF IndexesAreExact
  <2>1. /\ log \in Seq(Record) /\ head \in [Slots -> 0..Len(log)]
        /\ bucket \in [Keys -> SUBSET Ids]
        /\ HeadsLive /\ BucketsExact
    BY DEF IInv, TypeOK
  <2>2. CASE k \in Keys
    <3>1. Candidates(k) = bucket[k]
      BY <2>2, KeysHaveColumns DEF Candidates
    <3>2. bucket[k] \subseteq Ids
      BY <2>1, <2>2
    <3>3. \A id \in Ids : id \in bucket[k] <=>
             head[log[id].slot] = id /\ \A c \in DOMAIN k : FactOf(id)[c] = k[c]
      BY <2>1, <2>2, KeyAgreement DEF BucketsExact, Ids, FactOf
    <3> QED BY <3>1, <3>2, <3>3
  <2>3. CASE k = Free
    <3>1. DOMAIN k = {}
      BY <2>3
    <3>2. Candidates(k) = {head[s] : s \in {t \in Slots : head[t] # 0}}
      BY <3>1 DEF Candidates
    <3>3. \A s \in Slots : head[s] # 0 => head[s] \in Ids /\ log[head[s]].slot = s
      BY <2>1 DEF Ids, HeadsLive
    <3>4. \A id \in Ids : log[id].slot \in Slots /\ id # 0
      <4> TAKE id \in Ids
      <4>1. log[id] \in Record
        BY <2>1, ElementOfSeq DEF Ids
      <4> QED BY <4>1 DEF Record, Ids
    <3>5. {head[s] : s \in {t \in Slots : head[t] # 0}}
            = {id \in Ids : head[log[id].slot] = id}
      BY <3>3, <3>4
    <3> QED BY <3>1, <3>2, <3>5
  <2> QED BY <2>2, <2>3
<1> QED BY <1>1, Invariance, PTL

\* ForthDb::validate accepts every reachable state.
THEOREM ValidateCorrect == Spec => []ValidateAccepts
<1>1. IInv => ValidateAccepts
  BY DEF IInv, SignatureCounts, ValidateAccepts, Active
<1> QED BY <1>1, Invariance, PTL

\* No step of the kernel rewrites a record that is already in the log.
THEOREM LogIsAppendOnly == Spec => LogAppendOnly
<1> DEFINE Grows == Len(log') >= Len(log) /\ SubSeq(log', 1, Len(log)) = log
<1>1. ASSUME IInv, [Next]_vars PROVE Grows
  <2>1. log \in Seq(Record)
    BY <1>1 DEF IInv, TypeOK
  <2>2. log' = log \/ \E r : log' = Append(log, r)
    BY <1>1 DEF Next, vars, Entity, storeVars, Define, Forget, AppendDefine,
                AppendForget, AppendRecord
  <2>3. CASE log' = log
    BY <2>1, <2>3, SubSeqFull
  <2>4. ASSUME NEW r, log' = Append(log, r) PROVE Grows
    <3>1. Len(log') = Len(log) + 1 /\ Len(log) \in Nat
      BY <2>1, <2>4
    <3>2. SubSeq(log', 1, Len(log)) = log
      <4>1. \A i \in 1..Len(log) : log'[i] = log[i] /\ log[i] \in Record
        BY <2>1, <2>4
      <4>2. /\ SubSeq(log', 1, Len(log)) \in Seq(Record)
            /\ Len(SubSeq(log', 1, Len(log))) = Len(log)
            /\ \A i \in 1..Len(log) : SubSeq(log', 1, Len(log))[i] = log'[i]
        BY <2>1, <3>1, <4>1, SubSeqProperties
      <4> QED BY <2>1, <4>1, <4>2, SeqEqual
    <3> QED BY <3>1, <3>2
  <2> QED BY <2>2, <2>3, <2>4
<1> QED BY <1>1, Invariance, PTL DEF Spec, LogAppendOnly


-----------------------------------------------------------------------------
(* The refinement of SlotStacks.                                             *)
(*                                                                           *)
(* definitions() is a recursive walk, so what it returns is only determined  *)
(* when the walk is well founded.  That is an invariant of the log, carried  *)
(* from record to record as the others are.                                  *)

\* One step of the walk, and a function that takes it at every record.
WalkAt(records, c, id) ==
    IF id = 0 THEN <<>> ELSE Append(c[records[id].previous_head], records[id].fact)

Walks(records, c) == c = [id \in 0..Len(records) |-> WalkAt(records, c, id)]

\* Exactly one function is the walk of the log, and it yields sequences.
WalkDetermined ==
    /\ Walks(log, ChainOf(log))
    /\ ChainOf(log) \in [0..Len(log) -> Seq(Facts \cup {NoFact})]
    /\ \A d : Walks(log, d) => d = ChainOf(log)

\* Every record, a Forget too, points to an older one.
LinksBack ==
    \A i \in 1..Len(log) : log[i].previous_head \in 0..(i - 1)

LEMMA ChainIsChosen ==
    ASSUME NEW records, NEW c, Walks(records, c), \A d : Walks(records, d) => d = c
    PROVE  ChainOf(records) = c
<1>1. ChainOf(records) = CHOOSE d : Walks(records, d)
  BY DEF ChainOf, Walks, WalkAt
<1> QED BY <1>1, Zenon

\* What appending a record does to the walk: nothing to the records before it.
LEMMA WalkStep ==
    ASSUME IInv, WalkDetermined, LinksBack,
           NEW s \in Slots, NEW r \in Record, r.previous_head = head[s],
           log' = Append(log, r)
    PROVE  /\ WalkDetermined' /\ LinksBack'
           /\ \A i \in 0..Len(log) : ChainOf(log')[i] = ChainOf(log)[i]
           /\ ChainOf(log')[Len(log) + 1] = Append(ChainOf(log)[head[s]], r.fact)
<1> DEFINE n == Len(log)
           F == Facts \cup {NoFact}
           c == ChainOf(log)
           d == [id \in 0..(n + 1) |->
                   IF id = n + 1 THEN Append(c[r.previous_head], r.fact) ELSE c[id]]
<1>1. /\ log \in Seq(Record) /\ n \in Nat /\ head[s] \in 0..n
  BY DEF IInv, TypeOK
<1>2. /\ Len(log') = n + 1 /\ log'[n + 1] = r
      /\ \A i \in 1..n : log'[i] = log[i]
  BY <1>1
<1>3. /\ c \in [0..n -> Seq(F)] /\ Walks(log, c)
      /\ \A e : Walks(log, e) => e = c
  BY DEF WalkDetermined
<1>4. \A i \in 1..n : log[i].previous_head \in 0..(i - 1)
  BY DEF LinksBack
<1>5. \A i \in 0..n : c[i] = WalkAt(log, c, i)
  BY <1>3 DEF Walks
<1>6. r.fact \in F
  BY DEF Record
<1> HIDE DEF c, n, F
<1>7. /\ d \in [0..(n + 1) -> Seq(F)]
      /\ \A i \in 0..n : d[i] = c[i]
      /\ d[n + 1] = Append(c[head[s]], r.fact)
  <2>1. c[head[s]] \in Seq(F)
    BY <1>1, <1>3
  <2>2. Append(c[head[s]], r.fact) \in Seq(F)
    BY <2>1, <1>6, AppendProperties
  <2> DEFINE x == Append(c[head[s]], r.fact)
  <2>3. d = [id \in 0..(n + 1) |-> IF id = n + 1 THEN x ELSE c[id]]
    OBVIOUS
  <2> HIDE DEF x, d
  <2>4. x \in Seq(F)
    BY <2>2 DEF x
  <2>5. d \in [0..(n + 1) -> Seq(F)] /\ (\A i \in 0..n : d[i] = c[i]) /\ d[n + 1] = x
    BY <1>1, <1>3, <2>3, <2>4
  <2> QED BY <2>5 DEF x
<1> HIDE DEF d
<1>8. \A i \in 0..(n + 1) : i \in 0..n \/ i = n + 1
  BY <1>1
\* A function that agrees with c on the old records takes the old steps there.
<1>9. ASSUME NEW e, \A i \in 0..n : e[i] = c[i]
      PROVE  /\ \A i \in 0..n : WalkAt(log', e, i) = c[i]
             /\ WalkAt(log', e, n + 1) = Append(c[head[s]], r.fact)
  <2>1. ASSUME NEW i \in 1..n PROVE WalkAt(log', e, i) = WalkAt(log, c, i)
    <3>1. log[i].previous_head \in 0..n
      BY <1>1, <1>4
    <3>2. e[log[i].previous_head] = c[log[i].previous_head]
      BY <1>9, <3>1
    <3>3. log'[i] = log[i] /\ i # 0
      BY <1>1, <1>2
    <3> QED BY <3>2, <3>3, Zenon DEF WalkAt
  <2>2. WalkAt(log', e, 0) = WalkAt(log, c, 0)
    BY Zenon DEF WalkAt
  <2>3. WalkAt(log', e, n + 1) = Append(c[head[s]], r.fact)
    <3>1. n + 1 # 0 /\ e[head[s]] = c[head[s]]
      BY <1>1, <1>9
    <3> QED BY <1>2, <3>1, Zenon DEF WalkAt
  <2> QED BY <1>1, <1>5, <2>1, <2>2, <2>3
<1>10. Walks(log', d)
  <2>1. \A i \in 0..(n + 1) : d[i] = WalkAt(log', d, i)
    <3>1. /\ \A i \in 0..n : WalkAt(log', d, i) = c[i]
          /\ WalkAt(log', d, n + 1) = d[n + 1]
      BY <1>7, <1>9, Zenon
    <3> QED BY <1>7, <1>8, <3>1, Zenon
  <2>2. d = [i \in 0..(n + 1) |-> WalkAt(log', d, i)]
    BY <1>7, <2>1
  <2> QED BY <1>2, <2>2, Zenon DEF Walks
<1>11. ASSUME NEW e, Walks(log', e) PROVE e = d
  <2> DEFINE b == [id \in 0..n |-> e[id]]
  <2>1. e = [i \in 0..(n + 1) |-> WalkAt(log', e, i)]
    BY <1>2, <1>11, Zenon DEF Walks
  <2>2. \A i \in 0..(n + 1) : e[i] = WalkAt(log', e, i)
    BY <2>1
  <2>3. \A i \in 0..n : b[i] = WalkAt(log, b, i)
    <3>1. ASSUME NEW i \in 1..n PROVE WalkAt(log', e, i) = WalkAt(log, b, i)
      <4>1. log[i].previous_head \in 0..n
        BY <1>1, <1>4
      <4>2. e[log[i].previous_head] = b[log[i].previous_head]
        BY <4>1
      <4>3. log'[i] = log[i] /\ i # 0
        BY <1>1, <1>2
      <4> HIDE DEF b
      <4> QED BY <4>2, <4>3, Zenon DEF WalkAt
    <3>2. WalkAt(log', e, 0) = WalkAt(log, b, 0)
      BY Zenon DEF WalkAt
    <3>3. \A i \in 0..n : b[i] = e[i]
      OBVIOUS
    <3> HIDE DEF b
    <3> QED BY <1>1, <2>2, <3>1, <3>2, <3>3
  <2>4. Walks(log, b)
    <3>1. b = [i \in 0..n |-> WalkAt(log, b, i)]
      <4> DEFINE w == [i \in 0..n |-> WalkAt(log, b, i)]
      <4>1. b = [i \in 0..n |-> b[i]]
        OBVIOUS
      <4> HIDE DEF b
      <4> QED BY <2>3, <4>1
    <3> HIDE DEF b
    <3> QED BY <3>1, Zenon DEF Walks, n
  <2>5. b = c
    BY <1>3, <2>4, Zenon
  <2>6. \A i \in 0..n : e[i] = c[i]
    BY <2>5
  <2>7. \A i \in 0..(n + 1) : e[i] = d[i]
    <3>1. WalkAt(log', e, n + 1) = d[n + 1]
      BY <1>7, <1>9, <2>6, Zenon
    <3>2. n + 1 \in 0..(n + 1)
      BY <1>1
    <3> QED BY <1>7, <1>8, <2>2, <2>6, <3>1, <3>2, Zenon
  <2>8. DOMAIN e = 0..(n + 1) /\ e = [i \in 0..(n + 1) |-> e[i]]
    BY <2>1
  <2> QED BY <1>7, <2>7, <2>8
<1>12. ChainOf(log') = d
  BY <1>10, <1>11, ChainIsChosen, Zenon
<1>13. WalkDetermined'
  <2>1. d \in [0..Len(log') -> Seq(Facts \cup {NoFact})]
    BY <1>2, <1>7 DEF F
  <2> QED BY <1>10, <1>11, <1>12, <2>1, Zenon DEF WalkDetermined
<1>14. LinksBack'
  BY <1>1, <1>2, <1>4 DEF LinksBack
<1> QED BY <1>7, <1>12, <1>13, <1>14 DEF n, c

-----------------------------------------------------------------------------

\* The invariant the refinement needs: definitions() is determined at every record.
RInv == IInv /\ WalkDetermined /\ LinksBack

LEMMA InitRInv == Init => RInv
<1> SUFFICES ASSUME Init PROVE WalkDetermined /\ LinksBack
  BY InitIInv DEF RInv
<1> DEFINE c == [id \in 0..0 |-> <<>>]
<1>1. log = <<>> /\ Len(log) = 0
  BY DEF Init
<1>2. \A e : WalkAt(log, e, 0) = <<>>
  BY Zenon DEF WalkAt
<1>3. \A e : [id \in 0..Len(log) |-> WalkAt(log, e, id)] = c
  <2> TAKE e
  <2>1. \A id \in 0..Len(log) : WalkAt(log, e, id) = <<>>
    BY <1>1, <1>2
  <2>2. 0..Len(log) = 0..0
    BY <1>1
  <2> QED BY <2>1, <2>2, Zenon
<1>4. \A e : Walks(log, e) <=> e = c
  BY <1>3, Zenon DEF Walks
<1>5. c \in [0..Len(log) -> Seq(Facts \cup {NoFact})]
  BY <1>1
<1> HIDE DEF c
<1>6. ChainOf(log) = c
  BY <1>4, ChainIsChosen, Zenon
<1>7. WalkDetermined
  BY <1>4, <1>5, <1>6 DEF WalkDetermined
<1>8. LinksBack
  BY <1>1 DEF LinksBack
<1> QED BY <1>7, <1>8

\* A record of slot s leaves what definitions() returns for other slots alone.
LEMMA StackStep ==
    ASSUME RInv, NEW s \in Slots, NEW r \in Record, r.previous_head = head[s],
           log' = Append(log, r), NEW h \in Nat, head' = [head EXCEPT ![s] = h]
    PROVE  /\ WalkDetermined' /\ LinksBack'
           /\ \A t \in Slots : t # s => Definitions(t)' = Definitions(t)
           /\ h = Len(log) + 1 => Definitions(s)' = Append(Definitions(s), r.fact)
           /\ h <= Len(log) => Definitions(s)' = ChainOf(log)[h]
<1>1. /\ WalkDetermined' /\ LinksBack'
      /\ \A i \in 0..Len(log) : ChainOf(log')[i] = ChainOf(log)[i]
      /\ ChainOf(log')[Len(log) + 1] = Append(ChainOf(log)[head[s]], r.fact)
  BY WalkStep, Zenon DEF RInv
<1>2. Len(log) \in Nat /\ head \in [Slots -> 0..Len(log)]
  BY DEF RInv, IInv, TypeOK
<1>3. \A t \in Slots : t # s => Definitions(t)' = Definitions(t)
  <2> SUFFICES ASSUME NEW t \in Slots, t # s PROVE Definitions(t)' = Definitions(t)
    BY Zenon
  <2>1. head'[t] = head[t] /\ head[t] \in 0..Len(log)
    BY <1>2
  <2> QED BY <1>1, <2>1, Zenon DEF Definitions
<1>4. head'[s] = h
  BY <1>2
<1>5. h = Len(log) + 1 => Definitions(s)' = Append(Definitions(s), r.fact)
  BY <1>1, <1>4, Zenon DEF Definitions
<1>6. h <= Len(log) => h \in 0..Len(log)
  BY <1>2
<1>7. h <= Len(log) => Definitions(s)' = ChainOf(log)[h]
  BY <1>1, <1>4, <1>6, Zenon DEF Definitions
<1> QED BY <1>1, <1>3, <1>5, <1>7, Zenon

\* What is on a stack: the walk from a head that is not 0 ends in its record.
LEMMA StackOfHead ==
    ASSUME RInv, NEW s \in Slots
    PROVE  /\ Definitions(s) \in Seq(Facts \cup {NoFact})
           /\ head[s] = 0 => Definitions(s) = <<>>
           /\ head[s] # 0 =>
                /\ Revealed(s) \in 0..Len(log)
                /\ ChainOf(log)[Revealed(s)] \in Seq(Facts \cup {NoFact})
                /\ log[head[s]].fact \in Facts \cup {NoFact}
                /\ Definitions(s) = Append(ChainOf(log)[Revealed(s)], log[head[s]].fact)
<1> DEFINE F == Facts \cup {NoFact}
           c == ChainOf(log)
<1>1. /\ log \in Seq(Record) /\ Len(log) \in Nat /\ head[s] \in 0..Len(log)
  BY DEF RInv, IInv, TypeOK
<1>2. c \in [0..Len(log) -> Seq(F)] /\ Walks(log, c)
  BY DEF RInv, WalkDetermined
<1> HIDE DEF c, F
<1>3. \A i \in 0..Len(log) : c[i] = WalkAt(log, c, i)
  BY <1>2 DEF Walks
<1>4. Definitions(s) = c[head[s]] /\ c[head[s]] \in Seq(F) /\ c[head[s]] = WalkAt(log, c, head[s])
  BY <1>1, <1>2, <1>3 DEF Definitions, c
<1>5. head[s] = 0 => Definitions(s) = <<>>
  BY <1>4, Zenon DEF WalkAt
<1>6. ASSUME head[s] # 0
      PROVE  /\ Revealed(s) \in 0..Len(log) /\ c[Revealed(s)] \in Seq(F)
             /\ log[head[s]].fact \in F
             /\ Definitions(s) = Append(c[Revealed(s)], log[head[s]].fact)
  <2>1. head[s] \in 1..Len(log) /\ Revealed(s) = log[head[s]].previous_head
    BY <1>1, <1>6 DEF Revealed
  <2>2. Revealed(s) \in 0..Len(log)
    BY <1>1, <2>1 DEF RInv, LinksBack
  <2>3. c[Revealed(s)] \in Seq(F)
    BY <1>2, <2>2
  <2>4. log[head[s]] \in Record
    BY <1>1, <2>1, ElementOfSeq
  <2>5. log[head[s]].fact \in F
    BY <2>4 DEF Record, F
  <2>6. Definitions(s) = Append(c[Revealed(s)], log[head[s]].fact)
    BY <1>4, <1>6, <2>1, Zenon DEF WalkAt
  <2> QED BY <2>2, <2>3, <2>5, <2>6
<1> QED BY <1>4, <1>5, <1>6, Zenon DEF c, F

LEMMA PopUndoesAppend ==
    ASSUME NEW S, NEW q \in Seq(S), NEW x \in S
    PROVE  /\ Append(q, x) # <<>>
           /\ SubSeq(Append(q, x), 1, Len(Append(q, x)) - 1) = q
<1>1. /\ Append(q, x) \in Seq(S) /\ Len(Append(q, x)) = Len(q) + 1
      /\ Len(q) \in Nat /\ \A i \in 1..Len(q) : Append(q, x)[i] = q[i]
  BY AppendProperties
<1>2. Append(q, x) # <<>>
  BY <1>1
<1> DEFINE p == SubSeq(Append(q, x), 1, Len(Append(q, x)) - 1)
<1>3. Len(Append(q, x)) - 1 = Len(q)
  BY <1>1
<1>4. p \in Seq(S) /\ Len(p) = Len(q) /\ \A i \in 1..Len(q) : p[i] = q[i]
  BY <1>1, <1>3
<1>5. p = q
  BY <1>4, SeqEqual
<1> QED BY <1>2, <1>5

\* Defining a slot pushes its fact on the slot's stack.
LEMMA DefineIsPush ==
    ASSUME RInv, NEW s \in Slots, NEW f \in Facts, Define(s, f)
    PROVE  WalkDetermined' /\ LinksBack' /\ Stacks!Push(s, f)
<1> DEFINE h == Len(log) + 1
           r == [kind |-> "Define", slot |-> s, fact |-> f,
                 previous_head |-> head[s], resulting_head |-> h]
<1>1. log \in Seq(Record) /\ head \in [Slots -> 0..Len(log)]
  BY DEF RInv, IInv, TypeOK
<1>2. h \in Nat /\ head[s] \in Nat
  BY <1>1
<1>3. r \in Record /\ r.previous_head = head[s] /\ r.fact = f
  BY <1>2 DEF Record
<1>4. log' = Append(log, r) /\ head' = [head EXCEPT ![s] = h] /\ nextEntity' = nextEntity
  BY DEF Define, AppendDefine, AppendRecord, ReplaceHead
<1> HIDE DEF r
<1>5. h = Len(log) + 1
  OBVIOUS
<1> HIDE DEF h
<1>6. /\ WalkDetermined' /\ LinksBack'
      /\ \A t \in Slots : t # s => Definitions(t)' = Definitions(t)
      /\ Definitions(s)' = Append(Definitions(s), f)
  BY <1>2, <1>3, <1>4, <1>5, StackStep, Zenon
<1>7. [t \in Slots |-> Definitions(t)]'
        = [[t \in Slots |-> Definitions(t)] EXCEPT ![s] = Append(@, f)]
  <2>1. \A t \in Slots : Definitions(t)' = IF t = s THEN Append(Definitions(s), f)
                                                    ELSE Definitions(t)
    BY <1>6, Zenon
  <2> QED BY <2>1
<1>8. Stacks!Push(s, f)
  BY <1>4, <1>7 DEF Stacks!Push
<1> QED BY <1>6, <1>8

\* Forgetting a slot pops its stack, and changes no stack when it is empty.
LEMMA ForgetIsPop ==
    ASSUME RInv, NEW s \in Slots, Forget(s)
    PROVE  /\ WalkDetermined' /\ LinksBack'
           /\ Stacks!Pop(s) \/ UNCHANGED Stacks!vars
<1> DEFINE h == Revealed(s)
           r == [kind |-> "Forget", slot |-> s, fact |-> NoFact,
                 previous_head |-> head[s], resulting_head |-> h]
           F == Facts \cup {NoFact}
           q == ChainOf(log)[h]
           x == log[head[s]].fact
<1>1. log \in Seq(Record) /\ head \in [Slots -> 0..Len(log)] /\ Len(log) \in Nat
  BY DEF RInv, IInv, TypeOK
<1>2. /\ Definitions(s) \in Seq(F)
      /\ head[s] = 0 => Definitions(s) = <<>>
      /\ head[s] # 0 => /\ h \in 0..Len(log) /\ q \in Seq(F) /\ x \in F
                        /\ Definitions(s) = Append(q, x)
  BY StackOfHead, Zenon
<1>3. head[s] = 0 => h = 0
  BY DEF Revealed
<1>4. h \in 0..Len(log) /\ head[s] \in Nat
  BY <1>1, <1>2, <1>3
<1>5. r \in Record /\ r.previous_head = head[s]
  BY <1>4 DEF Record
<1>6. log' = Append(log, r) /\ head' = [head EXCEPT ![s] = h] /\ nextEntity' = nextEntity
  BY DEF Forget, AppendForget, AppendRecord, ReplaceHead
<1> HIDE DEF r, x, F
<1>7. h \in Nat /\ h <= Len(log)
  BY <1>1, <1>4
<1>8. /\ WalkDetermined' /\ LinksBack'
      /\ \A t \in Slots : t # s => Definitions(t)' = Definitions(t)
      /\ Definitions(s)' = q
  BY <1>5, <1>6, <1>7, StackStep, Zenon
<1>9. CASE head[s] = 0
  <2>1. q = Definitions(s)
    BY <1>3, <1>9, Zenon DEF Definitions
  <2>2. \A t \in Slots : Definitions(t)' = Definitions(t)
    BY <1>8, <2>1, Zenon
  <2>3. [t \in Slots |-> Definitions(t)]' = [t \in Slots |-> Definitions(t)]
    BY <2>2, Zenon
  <2>4. UNCHANGED Stacks!vars
    BY <1>6, <2>3 DEF Stacks!vars
  <2> QED BY <1>8, <2>4
<1>10. CASE head[s] # 0
  <2> HIDE DEF q, h
  <2>1. Definitions(s) # <<>> /\ SubSeq(Definitions(s), 1, Len(Definitions(s)) - 1) = q
    BY <1>2, <1>10, PopUndoesAppend, Zenon
  <2>2. \A t \in Slots : Definitions(t)' =
          IF t = s THEN SubSeq(Definitions(s), 1, Len(Definitions(s)) - 1)
                   ELSE Definitions(t)
    BY <1>8, <2>1, Zenon
  <2>3. [t \in Slots |-> Definitions(t)]'
          = [[t \in Slots |-> Definitions(t)] EXCEPT ![s] = SubSeq(@, 1, Len(@) - 1)]
    BY <2>2
  <2>4. Stacks!Pop(s)
    BY <1>6, <2>1, <2>3 DEF Stacks!Pop
  <2> QED BY <1>8, <2>4
<1> QED BY <1>9, <1>10

LEMMA StackRefinement == RInv /\ [Next]_vars => RInv' /\ [Stacks!Next]_(Stacks!vars)
<1> SUFFICES ASSUME RInv, [Next]_vars PROVE RInv' /\ [Stacks!Next]_(Stacks!vars)
  OBVIOUS
<1>1. IInv'
  BY NextIInv DEF RInv
<1>2. ASSUME UNCHANGED <<log, head>>
      PROVE  /\ WalkDetermined' /\ LinksBack'
             /\ [t \in Slots |-> Definitions(t)]' = [t \in Slots |-> Definitions(t)]
  BY <1>2, Zenon DEF RInv, WalkDetermined, LinksBack, Definitions
<1>3. CASE UNCHANGED vars
  <2>1. UNCHANGED <<log, head>> /\ nextEntity' = nextEntity
    BY <1>3 DEF vars
  <2>2. UNCHANGED Stacks!vars
    BY <1>2, <2>1 DEF Stacks!vars
  <2> QED BY <1>1, <1>2, <2>1, <2>2 DEF RInv
<1>4. CASE Entity
  <2>1. UNCHANGED <<log, head>> /\ nextEntity' = nextEntity + 1
    BY <1>4 DEF Entity, storeVars
  <2>2. nextEntity \in Nat
    BY DEF RInv, IInv, TypeOK
  <2>3. nextEntity' - 1 = (nextEntity - 1) + 1
    BY <2>1, <2>2
  <2>4. Stacks!Allocate
    BY <1>2, <2>1, <2>3 DEF Stacks!Allocate
  <2> QED BY <1>1, <1>2, <2>1, <2>4 DEF RInv, Stacks!Next
<1>5. ASSUME NEW s \in Slots, NEW f \in Facts, Define(s, f)
      PROVE  RInv' /\ Stacks!Next
  BY <1>1, <1>5, DefineIsPush DEF RInv, Stacks!Next
<1>6. ASSUME NEW s \in Slots, Forget(s)
      PROVE  RInv' /\ [Stacks!Next]_(Stacks!vars)
  BY <1>1, <1>6, ForgetIsPop DEF RInv, Stacks!Next
<1> QED BY <1>3, <1>4, <1>5, <1>6 DEF Next

\* The kernel implements one stack of facts per slot: whatever sequence of
\* definitions and forgets the log holds, what definitions() returns for a slot
\* moves as a stack does, a define pushing, a forget popping what the latest
\* live define pushed, and no operation on one slot touching another.
THEOREM RefinesSlotStacks == Spec => ImplementsSlotStacks
<1>1. Init => Stacks!Init
  <2> SUFFICES ASSUME Init PROVE Stacks!Init
    OBVIOUS
  <2>1. RInv /\ head = [s \in Slots |-> 0] /\ nextEntity = 1
    BY InitRInv DEF Init
  <2>2. \A s \in Slots : Definitions(s) = <<>>
    BY <2>1, StackOfHead
  <2>3. [s \in Slots |-> Definitions(s)] = [s \in Slots |-> <<>>]
    BY <2>2, Zenon
  <2> QED BY <2>1, <2>3 DEF Stacks!Init
<1> QED BY <1>1, InitRInv, StackRefinement, PTL DEF Spec, ImplementsSlotStacks, Stacks!Spec

-----------------------------------------------------------------------------
(* Recounting.  Recursion over identifiers; induction is by a least          *)
(* counterexample, so that no prover has to instantiate an operator.         *)

LEMMA UpTo ==
    ASSUME NEW n \in Nat, NEW T, 0 \in T, \A i \in 1..n : i - 1 \in T => i \in T
    PROVE  \A i \in 0..n : i \in T
<1> DEFINE C == {i \in 0..n : i \notin T}
           R == OpToRel(<, Nat)
<1> SUFFICES ASSUME C # {}  PROVE FALSE
  OBVIOUS
<1>1. C \subseteq Nat
  OBVIOUS
<1>2. IsWellFoundedOn(R, Nat)
  BY NatLessThanWellFounded
<1> HIDE DEF C
<1>3. PICK m \in C : \A k \in C : ~(<<k, m>> \in R)
  BY <1>1, <1>2, WFMin, Zenon
<1>4. \A k \in C : ~(k < m)
  BY <1>1, <1>3 DEF OpToRel
<1>5. m \in 1..n /\ m - 1 \in 0..n /\ m \notin T
  BY DEF C
<1>6. m - 1 \notin C
  BY <1>4, <1>5
<1> QED BY <1>5, <1>6 DEF C

Sigs == [count : Int, digest : Int]

\* One identifier of a recount.
Count(ids, i, sig) == IF i \in ids THEN SigAdd(sig, i) ELSE sig

\* u is a recount of ids up to n.
Counts(ids, n, u) ==
    /\ u \in [0..n -> Sigs]
    /\ u[0] = EmptySig
    /\ \A i \in 1..n : u[i] = Count(ids, i, u[i - 1])

LEMMA CountTyped ==
    ASSUME NEW ids, NEW i \in Int, NEW sig \in Sigs
    PROVE  Count(ids, i, sig) \in Sigs
BY DEF Count, Sigs, SigAdd

LEMMA CountsExist ==
    ASSUME NEW ids, NEW n \in Nat
    PROVE  \E u : Counts(ids, n, u)
<1> DEFINE T == {k \in 0..n : \E u : Counts(ids, k, u)}
<1>1. 0 \in T
  <2> DEFINE u == [i \in 0..0 |-> EmptySig]
  <2>1. u \in [0..0 -> Sigs] /\ u[0] = EmptySig
    BY DEF EmptySig, Sigs
  <2>2. Counts(ids, 0, u)
    BY <2>1 DEF Counts
  <2> QED BY <2>2
<1>2. ASSUME NEW k \in 1..n, k - 1 \in T  PROVE k \in T
  <2>1. PICK u : Counts(ids, k - 1, u)
    BY <1>2
  <2> DEFINE x == Count(ids, k, u[k - 1])
             v == [i \in 0..k |-> IF i = k THEN x ELSE u[i]]
  <2>2. x \in Sigs
    BY <2>1, CountTyped DEF Counts
  <2>3. /\ \A i \in 0..k : i # k => i \in 0..(k - 1)
        /\ \A i \in 1..k : i # k => i \in 1..(k - 1)
    OBVIOUS
  <2>4. u \in [0..(k - 1) -> Sigs] /\ u[0] = EmptySig
    BY <2>1 DEF Counts
  <2>5. /\ v \in [0..k -> Sigs] /\ v[k] = x /\ \A i \in 0..(k - 1) : v[i] = u[i]
    <3> HIDE DEF x
    <3> QED BY <2>2, <2>3, <2>4
  <2> HIDE DEF v
  <2>6. ASSUME NEW i \in 1..k  PROVE v[i] = Count(ids, i, v[i - 1])
    <3>1. i - 1 \in 0..(k - 1) /\ v[i - 1] = u[i - 1]
      BY <2>5
    <3>2. CASE i = k
      BY <2>5, <3>1, <3>2
    <3>3. CASE i # k
      <4>1. i \in 1..(k - 1) /\ i \in 0..(k - 1)
        BY <3>3
      <4>2. v[i] = u[i] /\ u[i] = Count(ids, i, u[i - 1])
        BY <2>1, <2>5, <4>1 DEF Counts
      <4> QED BY <3>1, <4>2
    <3> QED BY <3>2, <3>3
  <2>7. v[0] = EmptySig
    BY <2>4, <2>5
  <2>8. Counts(ids, k, v)
    BY <2>5, <2>6, <2>7 DEF Counts
  <2> QED BY <2>8
<1> HIDE DEF T
<1>3. \A i \in 0..n : i \in T
  BY <1>1, <1>2, UpTo
<1>4. n \in T
  BY <1>3
<1> QED BY <1>4 DEF T

\* Two recounts agree as far as their identifiers do.
LEMMA CountsAgree ==
    ASSUME NEW ids, NEW jds, NEW n \in Nat, NEW m \in Nat, n <= m, NEW u, NEW v,
           Counts(ids, n, u), Counts(jds, m, v),
           \A i \in 1..n : i \in ids <=> i \in jds
    PROVE  \A i \in 0..n : u[i] = v[i]
<1> DEFINE T == {i \in 0..n : u[i] = v[i]}
<1>1. 0 \in T
  BY DEF Counts
<1>2. ASSUME NEW i \in 1..n, i - 1 \in T  PROVE i \in T
  <2>1. i \in 1..m
    OBVIOUS
  <2>2. u[i] = Count(ids, i, u[i - 1]) /\ v[i] = Count(jds, i, v[i - 1])
    BY <2>1 DEF Counts
  <2>3. u[i - 1] = v[i - 1]
    BY <1>2
  <2>4. Count(ids, i, u[i - 1]) = Count(jds, i, v[i - 1])
    BY <2>3 DEF Count
  <2> QED BY <2>2, <2>4
<1> HIDE DEF T
<1>3. \A i \in 0..n : i \in T
  BY <1>1, <1>2, UpTo
<1> QED BY <1>3 DEF T

\* Tally is the last value of a recount.
LEMMA TallyCounts ==
    ASSUME NEW ids, NEW n \in Nat
    PROVE  \E u : Counts(ids, n, u) /\ Tally(ids, n) = u[n]
<1> DEFINE Body(a) == [i \in 0..n |-> IF i = 0 THEN EmptySig
                                      ELSE IF i \in ids THEN SigAdd(a[i - 1], i)
                                           ELSE a[i - 1]]
           c == CHOOSE a : a = Body(a)
<1>1. Tally(ids, n) = c[n]
  BY DEF Tally
<1>2. PICK u : Counts(ids, n, u)
  BY CountsExist
<1>3. u = Body(u)
  <2>1. \A i \in 0..n : u[i] = IF i = 0 THEN EmptySig
                               ELSE IF i \in ids THEN SigAdd(u[i - 1], i) ELSE u[i - 1]
    <3> TAKE i \in 0..n
    <3>1. i = 0 \/ i \in 1..n
      OBVIOUS
    <3> QED BY <1>2, <3>1 DEF Counts, Count
  <2>2. u = [i \in 0..n |-> u[i]]
    BY <1>2 DEF Counts
  <2> QED BY <2>1, <2>2, Zenon
<1>4. c = Body(c)
  BY <1>3, Zenon
<1>5. /\ c = [i \in 0..n |-> c[i]] /\ c[0] = EmptySig
      /\ \A i \in 1..n : c[i] = Count(ids, i, c[i - 1])
  <2>1. \A i \in 0..n : c[i] = IF i = 0 THEN EmptySig
                               ELSE IF i \in ids THEN SigAdd(c[i - 1], i) ELSE c[i - 1]
    BY <1>4
  <2>2. c = [i \in 0..n |-> c[i]]
    BY <1>4
  <2> HIDE DEF c
  <2>3. c[0] = EmptySig
    BY <2>1
  <2>4. ASSUME NEW i \in 1..n  PROVE c[i] = Count(ids, i, c[i - 1])
    <3>1. i \in 0..n /\ i # 0
      OBVIOUS
    <3> QED BY <2>1, <3>1 DEF Count
  <2> QED BY <2>2, <2>3, <2>4
<1> HIDE DEF c
<1>6. \A i \in 0..n : c[i] \in Sigs
  <2> DEFINE T == {i \in 0..n : c[i] \in Sigs}
  <2>1. 0 \in T
    BY <1>5 DEF EmptySig, Sigs
  <2>2. ASSUME NEW i \in 1..n, i - 1 \in T  PROVE i \in T
    <3>1. c[i - 1] \in Sigs /\ c[i] = Count(ids, i, c[i - 1])
      BY <1>5, <2>2
    <3>2. c[i] \in Sigs
      BY <3>1, CountTyped
    <3> QED BY <3>2
  <2> HIDE DEF T
  <2>3. \A i \in 0..n : i \in T
    BY <2>1, <2>2, UpTo
  <2> QED BY <2>3 DEF T
<1>7. c \in [0..n -> Sigs]
  BY <1>5, <1>6
<1>8. Counts(ids, n, c)
  BY <1>5, <1>7 DEF Counts
<1> QED BY <1>1, <1>8

\* An identifier beyond n does not count up to n, and one that is not there does
\* not count at all.
LEMMA TallyExtends ==
    ASSUME NEW ids, NEW n \in Nat, n + 1 \notin ids
    PROVE  Tally(ids, n + 1) = Tally(ids, n)
<1>1. PICK u : Counts(ids, n, u) /\ Tally(ids, n) = u[n]
  BY TallyCounts
<1>2. PICK m \in Nat : m = n + 1
  OBVIOUS
<1>3. PICK v : Counts(ids, m, v) /\ Tally(ids, m) = v[m]
  BY TallyCounts
<1>4. v[m] = Count(ids, m, v[n])
  <2>1. m \in 1..m /\ m - 1 = n
    BY <1>2
  <2> QED BY <1>3, <2>1 DEF Counts
<1>5. \A i \in 0..n : u[i] = v[i]
  <2>1. n <= m
    BY <1>2
  <2>2. Counts(ids, n, u) /\ Counts(ids, m, v)
    BY <1>1, <1>3
  <2>3. \A i \in 1..n : i \in ids <=> i \in ids
    OBVIOUS
  <2> QED BY <2>1, <2>2, <2>3, CountsAgree
<1>6. u[n] = v[n]
  BY <1>5
<1>7. m \notin ids
  BY <1>2
<1>8. Tally(ids, m) = Tally(ids, n)
  BY <1>1, <1>3, <1>4, <1>6, <1>7 DEF Count
<1> QED BY <1>2, <1>8

\* A new identifier adds itself to the recount, wherever it is counted.
LEMMA TallyAdds ==
    ASSUME NEW ids, NEW n \in Nat, NEW x \in 1..n, x \notin ids
    PROVE  Tally(ids \cup {x}, n) = SigAdd(Tally(ids, n), x) /\ Tally(ids, n) \in Sigs
<1>1. PICK u : Counts(ids, n, u) /\ Tally(ids, n) = u[n]
  BY TallyCounts
<1>2. PICK v : Counts(ids \cup {x}, n, v) /\ Tally(ids \cup {x}, n) = v[n]
  BY TallyCounts
<1> DEFINE T == {i \in 0..n : v[i] = IF i < x THEN u[i] ELSE SigAdd(u[i], x)}
<1>3. u \in [0..n -> Sigs]
  BY <1>1 DEF Counts
<1>4. 0 \in T
  BY <1>1, <1>2 DEF Counts
<1>5. ASSUME NEW i \in 1..n, i - 1 \in T  PROVE i \in T
  <2>1. /\ v[i] = Count(ids \cup {x}, i, v[i - 1]) /\ u[i] = Count(ids, i, u[i - 1])
    BY <1>1, <1>2 DEF Counts
  <2>2. v[i - 1] = IF i - 1 < x THEN u[i - 1] ELSE SigAdd(u[i - 1], x)
    BY <1>5
  <2>3. u[i - 1] \in Sigs /\ u[i] \in Sigs /\ i \in 0..n
    BY <1>3
  <2>4. CASE i < x
    <3>1. v[i - 1] = u[i - 1] /\ i # x
      BY <2>2, <2>4
    <3> QED BY <2>1, <2>3, <2>4, <3>1 DEF Count
  <2>5. CASE i = x
    <3>1. v[i - 1] = u[i - 1]
      BY <2>2, <2>5
    <3> QED BY <2>1, <2>3, <2>5, <3>1 DEF Count
  <2>6. CASE i > x
    <3>1. v[i - 1] = SigAdd(u[i - 1], x) /\ i # x
      BY <2>2, <2>6
    <3>2. SigAdd(SigAdd(u[i - 1], x), i) = SigAdd(SigAdd(u[i - 1], i), x)
      BY <2>3 DEF SigAdd, Sigs
    <3> QED BY <2>1, <2>3, <2>6, <3>1, <3>2 DEF Count
  <2> QED BY <2>4, <2>5, <2>6
<1> HIDE DEF T
<1>6. \A i \in 0..n : i \in T
  BY <1>4, <1>5, UpTo
<1>7. v[n] = SigAdd(u[n], x) /\ u[n] \in Sigs
  <2>1. n \in T /\ ~(n < x)
    BY <1>6
  <2> QED BY <1>3, <2>1 DEF T
<1> QED BY <1>1, <1>2, <1>7

LEMMA SigRemoveUndoes ==
    ASSUME NEW sig \in Sigs, NEW x \in Int
    PROVE  SigRemove(SigAdd(sig, x), x) = sig
BY DEF Sigs, SigAdd, SigRemove

-----------------------------------------------------------------------------
(* The two kernels in step.                                                  *)

\* The flat kernel keeps a head, a history and a bucket only where there is one.
HeadsPaired ==
    /\ DOMAIN legacyHead = Active
    /\ \A s \in Active : legacyHead[s] = head[s]

HistoriesPaired ==
    /\ DOMAIN legacyHistory = {s \in Slots : slotHistory[s] # <<>>}
    /\ \A s \in DOMAIN legacyHistory : legacyHistory[s] = slotHistory[s]

\* idx has the nonempty buckets of b and no others.
HoldsBuckets(idx, b) ==
    /\ DOMAIN idx = {k \in Keys : b[k] # {}}
    /\ \A k \in DOMAIN idx : idx[k] = b[k]

\* The inductive invariant of the pair.
PairInv ==
    /\ RInv
    /\ legacyLog = log
    /\ legacyNext = nextEntity
    /\ HeadsPaired
    /\ HistoriesPaired
    /\ HoldsBuckets(legacyIndex, bucket)
    /\ storeSig = Recount(ActiveIds)

\* The keys of a fact are those of the seven maps of either kernel.
LEMMA SameKeys ==
    ASSUME NEW f \in Facts
    PROVE  Legacy!IndexKeys(f) = KeysOf(f) /\ KeysOf(f) \subseteq Keys
<1>1. DOMAIN f = Columns
  BY DEF Facts, Columns
<1>2. (SUBSET DOMAIN f) \ {{}} = Shapes
  BY <1>1 DEF Shapes
<1>3. Legacy!IndexKeys(f) = KeysOf(f)
  BY <1>2 DEF Legacy!IndexKeys, KeysOf, KeyOf
<1> QED BY <1>3 DEF Keys

\* insert_index and remove_index keep exactly the nonempty buckets.
LEMMA AddedHolds ==
    ASSUME NEW idx, NEW b, HoldsBuckets(idx, b), NEW id, NEW f \in Facts
    PROVE  HoldsBuckets(Legacy!Added(idx, id, f),
                        [k \in Keys |-> IF k \in KeysOf(f) THEN b[k] \cup {id} ELSE b[k]])
<1> DEFINE B == [k \in Keys |-> IF k \in KeysOf(f) THEN b[k] \cup {id} ELSE b[k]]
           a == Legacy!Added(idx, id, f)
<1>1. /\ DOMAIN idx = {k \in Keys : b[k] # {}}
      /\ \A k \in DOMAIN idx : idx[k] = b[k]
  BY DEF HoldsBuckets
<1>2. Legacy!IndexKeys(f) = KeysOf(f) /\ KeysOf(f) \subseteq Keys
  BY SameKeys
<1>3. a = [k \in DOMAIN idx \cup KeysOf(f) |->
             IF k \in KeysOf(f) THEN Legacy!InsertIndex(Legacy!Bucket(idx, k), id) ELSE idx[k]]
  BY <1>2 DEF Legacy!Added
<1>4. ASSUME NEW k \in Keys  PROVE Legacy!InsertIndex(Legacy!Bucket(idx, k), id) = b[k] \cup {id}
  BY <1>1 DEF Legacy!InsertIndex, Legacy!Bucket
<1>5. DOMAIN a = DOMAIN idx \cup KeysOf(f)
  BY <1>3
<1> HIDE DEF a
<1>6. DOMAIN a = {k \in Keys : B[k] # {}}
  BY <1>1, <1>2, <1>5
<1>7. ASSUME NEW k \in DOMAIN a  PROVE a[k] = B[k]
  <2>1. k \in Keys /\ k \in DOMAIN idx \cup KeysOf(f)
    BY <1>5, <1>6
  <2>2. CASE k \in KeysOf(f)
    BY <1>3, <1>4, <2>1, <2>2
  <2>3. CASE k \notin KeysOf(f)
    BY <1>1, <1>3, <2>1, <2>3
  <2> QED BY <2>2, <2>3
<1> QED BY <1>6, <1>7 DEF HoldsBuckets, a

LEMMA RemovedHolds ==
    ASSUME NEW idx, NEW b, HoldsBuckets(idx, b), NEW id, NEW f \in Facts
    PROVE  HoldsBuckets(Legacy!Removed(idx, id, f),
                        [k \in Keys |-> IF k \in KeysOf(f) THEN b[k] \ {id} ELSE b[k]])
<1> DEFINE B == [k \in Keys |-> IF k \in KeysOf(f) THEN b[k] \ {id} ELSE b[k]]
           left == [k \in DOMAIN idx |->
                      IF k \in KeysOf(f) THEN Legacy!RemoveIndex(idx[k], id) ELSE idx[k]]
           a == Legacy!Removed(idx, id, f)
<1>1. /\ DOMAIN idx = {k \in Keys : b[k] # {}}
      /\ \A k \in DOMAIN idx : idx[k] = b[k]
  BY DEF HoldsBuckets
<1>2. Legacy!IndexKeys(f) = KeysOf(f) /\ KeysOf(f) \subseteq Keys
  BY SameKeys
<1>3. a = [k \in {j \in DOMAIN idx : left[j] # {}} |-> left[k]]
  BY <1>2 DEF Legacy!Removed
<1>4. \A k \in DOMAIN idx : left[k] = B[k]
  BY <1>1 DEF Legacy!RemoveIndex
<1>5. \A k \in Keys : B[k] # {} => k \in DOMAIN idx
  BY <1>1
<1> HIDE DEF left, a, B
<1>6. DOMAIN a = {k \in Keys : B[k] # {}}
  BY <1>1, <1>3, <1>4, <1>5
<1>7. \A k \in DOMAIN a : a[k] = B[k]
  BY <1>3, <1>4
<1>8. HoldsBuckets(a, B)
  BY <1>6, <1>7 DEF HoldsBuckets
<1> QED BY <1>8 DEF a, B

\* Two families of buckets that agree on the keys are held by the same indexes.
LEMMA HoldsSame ==
    ASSUME NEW idx, NEW b, NEW c, HoldsBuckets(idx, b), \A k \in Keys : b[k] = c[k]
    PROVE  HoldsBuckets(idx, c)
BY DEF HoldsBuckets

LEMMA LegacyHeads ==
    ASSUME PairInv, NEW s \in Slots
    PROVE  Legacy!HeadOf(s) = head[s]
BY DEF PairInv, HeadsPaired, Legacy!HeadOf, Active

\* Taking the old head out before the append and putting the new one in after
\* it ends where replacing it in place does.
LEMMA IndexStep ==
    ASSUME PairInv, NEW s \in Slots, NEW h \in Nat, NEW f, h # 0 => f \in Facts,
           bucket' = [k \in Keys |->
                        (bucket[k] \ {head[s]}) \cup
                        (IF h # 0 /\ k \in KeysOf(f) THEN {h} ELSE {})],
           legacyIndex' = IF h = 0 THEN Legacy!WithoutHead(s)
                          ELSE Legacy!Added(Legacy!WithoutHead(s), h, f)
    PROVE  HoldsBuckets(legacyIndex', bucket')
<1> DEFINE w == Legacy!WithoutHead(s)
           b == [k \in Keys |-> bucket[k] \ {head[s]}]
<1>1. /\ HoldsBuckets(legacyIndex, bucket) /\ legacyLog = log
      /\ log \in Seq(Record) /\ Len(log) \in Nat /\ head[s] \in 0..Len(log)
      /\ bucket \in [Keys -> SUBSET (1..Len(log))]
      /\ BucketsExact /\ HeadsLive /\ Linked
  BY DEF PairInv, RInv, IInv, TypeOK, Ids
<1>2. Legacy!HeadOf(s) = head[s]
  BY LegacyHeads
<1>3. HoldsBuckets(w, b)
  <2>1. CASE head[s] = 0
    <3>1. w = legacyIndex
      BY <1>2, <2>1 DEF Legacy!WithoutHead
    <3>2. \A k \in Keys : bucket[k] = b[k]
      BY <1>1, <2>1
    <3> HIDE DEF w, b
    <3> QED BY <1>1, <3>1, <3>2, HoldsSame
  <2>2. CASE head[s] # 0
    <3> DEFINE g == log[head[s]].fact
               c == [k \in Keys |-> IF k \in KeysOf(g) THEN bucket[k] \ {head[s]} ELSE bucket[k]]
    <3>1. head[s] \in 1..Len(log)
      BY <1>1, <2>2
    <3>2. log[head[s]].kind = "Define" /\ log[head[s]].slot = s
      BY <1>1, <2>2 DEF HeadsLive
    <3>3. g \in Facts
      BY <1>1, <3>1, <3>2 DEF Linked
    <3>4. w = Legacy!Removed(legacyIndex, head[s], g)
      BY <1>1, <1>2, <2>2 DEF Legacy!WithoutHead
    <3>5. \A k \in Keys : head[s] \in bucket[k] => k \in KeysOf(g)
      BY <1>1, <3>1 DEF BucketsExact
    <3>6. \A k \in Keys : c[k] = b[k]
      BY <3>5
    <3> HIDE DEF g
    <3>7. HoldsBuckets(Legacy!Removed(legacyIndex, head[s], g), c)
      BY <1>1, <3>3, RemovedHolds
    <3> HIDE DEF w, b, c
    <3> QED BY <3>4, <3>6, <3>7, HoldsSame
  <2> QED BY <2>1, <2>2
<1>4. CASE h = 0
  <2>1. legacyIndex' = w
    BY <1>4
  <2>2. \A k \in Keys : b[k] = bucket'[k]
    BY <1>4
  <2> HIDE DEF w, b
  <2> QED BY <1>3, <2>1, <2>2, HoldsSame
<1>5. CASE h # 0
  <2> DEFINE c == [k \in Keys |-> IF k \in KeysOf(f) THEN b[k] \cup {h} ELSE b[k]]
  <2>1. legacyIndex' = Legacy!Added(w, h, f)
    BY <1>5
  <2>2. \A k \in Keys : c[k] = bucket'[k]
    BY <1>5
  <2> HIDE DEF w, b
  <2>3. HoldsBuckets(Legacy!Added(w, h, f), c)
    BY <1>3, <1>5, AddedHolds
  <2> HIDE DEF c
  <2>4. HoldsBuckets(legacyIndex', c)
    BY <2>1, <2>3, Zenon
  <2> QED BY <2>2, <2>4, HoldsSame
<1> QED BY <1>4, <1>5

\* replace_head keeps the signature the one a recount would give.
LEMMA RecountStep ==
    ASSUME PairInv, NEW s \in Slots, NEW h \in 0..(Len(log) + 1), HeadsLive',
           Len(log') = Len(log) + 1,
           \A i \in 1..Len(log) : log'[i] = log[i],
           head' = [head EXCEPT ![s] = h],
           storeSig' = ReplaceSig(storeSig, head[s], h)
    PROVE  storeSig' = Recount(ActiveIds)'
<1> DEFINE n == Len(log)
           A == {head[t] : t \in {u \in Slots : u # s /\ head[u] # 0}}
<1>1. /\ n \in Nat /\ head \in [Slots -> 0..n] /\ HeadsLive
      /\ storeSig = Tally(ActiveIds, n)
  BY DEF PairInv, RInv, IInv, TypeOK, Recount
<1>2. Recount(ActiveIds)' = Tally(ActiveIds', n + 1)
  BY DEF Recount
<1>3. /\ \A t \in Slots : head[t] # 0 => head[t] \in 1..n /\ log[head[t]].slot = t
      /\ \A t \in Slots : head'[t] # 0 => log'[head'[t]].slot = t
      /\ \A t \in Slots : head'[t] = IF t = s THEN h ELSE head[t]
  BY <1>1 DEF HeadsLive
<1>4. A \subseteq 1..n
  BY <1>3
<1>5. head[s] \notin A
  BY <1>1, <1>3
<1>6. h # 0 => h \notin A
  <2> SUFFICES ASSUME h # 0, NEW t \in Slots, t # s, head[t] # 0, h = head[t]  PROVE FALSE
    OBVIOUS
  <2>1. log'[h].slot = s /\ log[h].slot = t /\ h \in 1..n
    BY <1>3
  <2> QED BY <2>1
<1>7. ActiveIds = IF head[s] = 0 THEN A ELSE A \cup {head[s]}
  BY DEF ActiveIds
<1>8. ActiveIds' = IF h = 0 THEN A ELSE A \cup {h}
  BY <1>3 DEF ActiveIds
<1> HIDE DEF A
<1>9. PICK m \in Nat : m = n + 1
  BY <1>1
<1>10. Tally(A, n) \in Sigs /\ Tally(A, m) = Tally(A, n)
  <2>1. n + 1 \notin A
    BY <1>1, <1>4
  <2>2. PICK u : Counts(A, n, u) /\ Tally(A, n) = u[n]
    BY <1>1, TallyCounts
  <2>3. u \in [0..n -> Sigs] /\ n \in 0..n
    BY <1>1, <2>2 DEF Counts
  <2>4. Tally(A, n + 1) = Tally(A, n)
    BY <1>1, <2>1, TallyExtends
  <2> QED BY <1>9, <2>2, <2>3, <2>4
<1> DEFINE left == IF head[s] # 0 THEN SigRemove(storeSig, head[s]) ELSE storeSig
<1>11. left = Tally(A, n)
  <2>1. CASE head[s] = 0
    BY <1>1, <1>7, <2>1
  <2>2. CASE head[s] # 0
    <3>1. head[s] \in 1..n
      BY <1>3, <2>2
    <3>2. Tally(A \cup {head[s]}, n) = SigAdd(Tally(A, n), head[s])
      BY <1>1, <1>5, <3>1, TallyAdds
    <3>3. storeSig = SigAdd(Tally(A, n), head[s])
      BY <1>1, <1>7, <2>2, <3>2
    <3>4. SigRemove(SigAdd(Tally(A, n), head[s]), head[s]) = Tally(A, n)
      BY <1>10, <3>1, SigRemoveUndoes
    <3> QED BY <2>2, <3>3, <3>4
  <2> QED BY <2>1, <2>2
<1>12. storeSig' = IF h # 0 THEN SigAdd(Tally(A, n), h) ELSE Tally(A, n)
  BY <1>11 DEF ReplaceSig
<1>13. CASE h = 0
  BY <1>2, <1>8, <1>9, <1>10, <1>12, <1>13
<1>14. CASE h # 0
  <2>1. h \in 1..m
    BY <1>1, <1>9, <1>14
  <2>2. Tally(A \cup {h}, m) = SigAdd(Tally(A, m), h)
    BY <1>6, <1>14, <2>1, TallyAdds
  <2> QED BY <1>2, <1>8, <1>9, <1>10, <1>12, <1>14, <2>2
<1> QED BY <1>13, <1>14

\* A define and a forget as the flat kernel makes them: a record, a head that
\* is replaced or removed, and the indexes.
LegacyOperation(s, r, h, f) ==
    /\ Legacy!AppendRecord(s, r)
    /\ legacyHead' = IF h # 0 THEN Legacy!With(legacyHead, s, h)
                              ELSE Legacy!Without(legacyHead, s)
    /\ legacyIndex' = IF h = 0 THEN Legacy!WithoutHead(s)
                      ELSE Legacy!Added(Legacy!WithoutHead(s), h, f)
    /\ UNCHANGED legacyNext

LEMMA PairStep ==
    ASSUME PairInv, RInv',
           NEW s \in Slots, NEW r \in Record, NEW h \in 0..(Len(log) + 1), NEW f,
           h # 0 => f \in Facts,
           AppendRecord(s, r), ReplaceHead(s, h), UNCHANGED nextEntity,
           bucket' = [k \in Keys |->
                        (bucket[k] \ {head[s]}) \cup
                        (IF h # 0 /\ k \in KeysOf(f) THEN {h} ELSE {})],
           LegacyOperation(s, r, h, f)
    PROVE  PairInv'
<1>1. /\ log' = Append(log, r)
      /\ slotHistory' = [slotHistory EXCEPT ![s] = Append(@, Len(log) + 1)]
      /\ head' = [head EXCEPT ![s] = h]
      /\ storeSig' = ReplaceSig(storeSig, head[s], h)
  BY DEF AppendRecord, ReplaceHead
<1>2. /\ log \in Seq(Record) /\ Len(log) \in Nat /\ head \in [Slots -> 0..Len(log)]
      /\ slotHistory \in [Slots -> Seq(1..Len(log))]
      /\ legacyLog = log /\ legacyNext = nextEntity /\ HeadsPaired /\ HistoriesPaired
  BY DEF PairInv, RInv, IInv, TypeOK, Ids
<1>3. h \in Nat
  BY <1>2
<1>4. legacyLog' = log' /\ legacyNext' = nextEntity'
  BY <1>1, <1>2 DEF LegacyOperation, Legacy!AppendRecord
<1>5. HeadsPaired'
  <2>1. /\ DOMAIN legacyHead = Active
        /\ \A t \in Active : legacyHead[t] = head[t]
    BY <1>2 DEF HeadsPaired
  <2>2. \A t \in Slots : head'[t] = IF t = s THEN h ELSE head[t]
    BY <1>1, <1>2
  <2>3. CASE h # 0
    <3>1. legacyHead' = [t \in Active \cup {s} |-> IF t = s THEN h ELSE legacyHead[t]]
      BY <2>1, <2>3 DEF LegacyOperation, Legacy!With
    <3>2. Active' = Active \cup {s}
      BY <2>2, <2>3 DEF Active
    <3>3. \A t \in Active' : legacyHead'[t] = head'[t]
      BY <2>1, <2>2, <3>1, <3>2 DEF Active
    <3> QED BY <3>1, <3>2, <3>3 DEF HeadsPaired
  <2>4. CASE h = 0
    <3>1. legacyHead' = [t \in Active \ {s} |-> legacyHead[t]]
      BY <2>1, <2>4 DEF LegacyOperation, Legacy!Without
    <3>2. Active' = Active \ {s}
      BY <2>2, <2>4 DEF Active
    <3>3. \A t \in Active' : legacyHead'[t] = head'[t]
      BY <2>1, <2>2, <3>1, <3>2 DEF Active
    <3> QED BY <3>1, <3>2, <3>3 DEF HeadsPaired
  <2> QED BY <2>3, <2>4
<1>6. HistoriesPaired'
  <2> DEFINE H == {t \in Slots : slotHistory[t] # <<>>}
             id == Len(log) + 1
             q == IF s \in DOMAIN legacyHistory THEN legacyHistory[s] ELSE <<>>
  <2>1. DOMAIN legacyHistory = H /\ \A t \in H : legacyHistory[t] = slotHistory[t]
    BY <1>2 DEF HistoriesPaired
  <2>2. q = slotHistory[s]
    BY <2>1
  <2>3. legacyHistory' = [t \in H \cup {s} |->
                            IF t = s THEN Append(slotHistory[s], id) ELSE legacyHistory[t]]
    BY <1>2, <2>1, <2>2 DEF LegacyOperation, Legacy!AppendRecord, Legacy!With
  <2>4. \A t \in Slots : slotHistory'[t] = IF t = s THEN Append(slotHistory[s], id)
                                                    ELSE slotHistory[t]
    BY <1>1, <1>2
  <2>5. Append(slotHistory[s], id) # <<>>
    <3>1. slotHistory[s] \in Seq(Nat) /\ id \in Nat
      <4>1. slotHistory[s] \in Seq(1..Len(log)) /\ 1..Len(log) \subseteq Nat
        BY <1>2
      <4> QED BY <1>2, <4>1, SeqMonotonic
    <3> QED BY <3>1, PopUndoesAppend
  <2> HIDE DEF id
  <2>6. {t \in Slots : slotHistory'[t] # <<>>} = H \cup {s}
    BY <2>4, <2>5
  <2>7. DOMAIN legacyHistory' = H \cup {s}
    BY <2>3
  <2>8. \A t \in H \cup {s} : legacyHistory'[t] = slotHistory'[t]
    BY <2>1, <2>3, <2>4
  <2> QED BY <2>6, <2>7, <2>8 DEF HistoriesPaired
<1>7. HoldsBuckets(legacyIndex, bucket)'
  <2>1. HoldsBuckets(legacyIndex', bucket')
    BY <1>3, IndexStep DEF LegacyOperation
  <2> QED BY <2>1
<1>8. storeSig' = Recount(ActiveIds)'
  <2>1. /\ Len(log') = Len(log) + 1
        /\ \A i \in 1..Len(log) : log'[i] = log[i]
    BY <1>1, <1>2, AppendedLog
  <2>2. HeadsLive'
    BY DEF RInv, IInv
  <2> QED BY <1>1, <2>1, <2>2, RecountStep
<1> QED BY <1>4, <1>5, <1>6, <1>7, <1>8 DEF PairInv

LEMMA PairDefine ==
    ASSUME PairInv, RInv', NEW s \in Slots, NEW f \in Facts, Define(s, f), Legacy!Define(s, f)
    PROVE  PairInv'
<1> DEFINE h == Len(log) + 1
           r == [kind |-> "Define", slot |-> s, fact |-> f,
                 previous_head |-> head[s], resulting_head |-> h]
<1>1. /\ IInv /\ log \in Seq(Record) /\ head \in [Slots -> 0..Len(log)]
      /\ legacyLog = log
  BY DEF PairInv, RInv, IInv, TypeOK
<1>2. h \in 0..(Len(log) + 1) /\ h # 0 /\ h \in Nat /\ head[s] \in Nat
  BY <1>1
<1>3. r \in Record
  BY <1>2 DEF Record
<1>4. AppendRecord(s, r) /\ ReplaceHead(s, h) /\ UNCHANGED nextEntity
  BY DEF Define, AppendDefine
<1>5. \/ head[s] # 0 /\ h # 0 /\ ViewReplace(head[s], FactOf(head[s]), h, f)
      \/ head[s] = 0 /\ h # 0 /\ ViewAdd(h, f)
  BY <1>2 DEF Define
<1>6. Legacy!HeadOf(s) = head[s]
  BY LegacyHeads
<1>7. LegacyOperation(s, r, h, f)
  BY <1>1, <1>2, <1>6 DEF LegacyOperation, Legacy!Define, Legacy!AppendDefine
<1> HIDE DEF h, r
<1>8. bucket' = [k \in Keys |->
                   (bucket[k] \ {head[s]}) \cup
                   (IF h # 0 /\ k \in KeysOf(f) THEN {h} ELSE {})]
  BY <1>1, <1>2, <1>5, ViewForm
<1> QED BY <1>2, <1>3, <1>4, <1>7, <1>8, PairStep

LEMMA PairForget ==
    ASSUME PairInv, RInv', NEW s \in Slots, Forget(s), Legacy!Forget(s, NoFact)
    PROVE  PairInv'
<1> DEFINE h == Revealed(s)
           f == FactOf(h)
           r == [kind |-> "Forget", slot |-> s, fact |-> NoFact,
                 previous_head |-> head[s], resulting_head |-> h]
<1>1. /\ IInv /\ log \in Seq(Record) /\ head \in [Slots -> 0..Len(log)] /\ Len(log) \in Nat
      /\ legacyLog = log /\ Linked /\ HeadsLive /\ LinksBack
  BY DEF PairInv, RInv, IInv, TypeOK
<1>2. /\ h \in 0..Len(log)
      /\ h # 0 => head[s] # 0 /\ f \in Facts
  <2>1. CASE head[s] = 0
    BY <1>1, <2>1 DEF Revealed
  <2>2. CASE head[s] # 0
    <3>1. h = log[head[s]].previous_head /\ head[s] \in 1..Len(log)
      BY <1>1, <2>2 DEF Revealed
    <3>2. h \in 0..(head[s] - 1)
      BY <1>1, <3>1 DEF LinksBack
    <3>3. log[head[s]].kind = "Define"
      BY <1>1, <2>2 DEF HeadsLive
    <3>4. h # 0 => log[h].kind = "Define"
      BY <1>1, <3>1, <3>3 DEF Linked
    <3>5. h # 0 => log[h].fact \in Facts
      BY <1>1, <3>1, <3>2, <3>4 DEF Linked
    <3> QED BY <1>1, <2>2, <3>1, <3>2, <3>5 DEF FactOf
  <2> QED BY <2>1, <2>2
<1>3. h \in 0..(Len(log) + 1) /\ h \in Nat /\ head[s] \in Nat
  BY <1>1, <1>2
<1>4. r \in Record
  BY <1>3 DEF Record
<1>5. AppendRecord(s, r) /\ ReplaceHead(s, h) /\ UNCHANGED nextEntity
  BY DEF Forget, AppendForget
<1>6. \/ head[s] # 0 /\ h # 0 /\ ViewReplace(head[s], FactOf(head[s]), h, f)
      \/ head[s] # 0 /\ h = 0 /\ ViewRemove(head[s], FactOf(head[s]))
      \/ head[s] = 0 /\ h = 0 /\ UNCHANGED viewVars
  BY <1>2 DEF Forget
<1>7. Legacy!HeadOf(s) = head[s]
  BY LegacyHeads
<1>8. Legacy!Revealed(s) = h
  BY <1>1, <1>7 DEF Legacy!Revealed, Revealed
<1>9. LegacyOperation(s, r, h, f)
  BY <1>1, <1>7, <1>8 DEF LegacyOperation, Legacy!Forget, Legacy!AppendForget, FactOf
<1> HIDE DEF h, r, f
<1>10. bucket' = [k \in Keys |->
                    (bucket[k] \ {head[s]}) \cup
                    (IF h # 0 /\ k \in KeysOf(f) THEN {h} ELSE {})]
  BY <1>1, <1>3, <1>6, ViewForm
<1> QED BY <1>2, <1>3, <1>4, <1>5, <1>9, <1>10, PairStep

LEMMA InitPairInv == PairInit => PairInv
<1> SUFFICES ASSUME Init, Legacy!Init PROVE PairInv
  BY DEF PairInit
<1>1. RInv
  BY InitRInv
<1>2. legacyLog = log /\ legacyNext = nextEntity
  BY DEF Init, Legacy!Init
<1>3. HeadsPaired
  BY DEF HeadsPaired, Active, Init, Legacy!Init
<1>4. HistoriesPaired
  BY DEF HistoriesPaired, Init, Legacy!Init
<1>5. HoldsBuckets(legacyIndex, bucket)
  BY DEF HoldsBuckets, Init, Legacy!Init
<1>6. storeSig = Recount(ActiveIds)
  <2>1. Len(log) = 0 /\ storeSig = EmptySig
    BY DEF Init
  <2>2. PICK u : Counts(ActiveIds, 0, u) /\ Tally(ActiveIds, 0) = u[0]
    <3>1. 0 \in Nat
      OBVIOUS
    <3> QED BY <3>1, TallyCounts
  <2> QED BY <2>1, <2>2 DEF Recount, Counts
<1> QED BY <1>1, <1>2, <1>3, <1>4, <1>5, <1>6 DEF PairInv

LEMMA NextPairInv == PairInv /\ [PairNext]_<<vars, legacyVars>> => PairInv'
<1> SUFFICES ASSUME PairInv, [PairNext]_<<vars, legacyVars>> PROVE PairInv'
  OBVIOUS
<1>1. RInv'
  <2>1. [Next]_vars
    BY DEF PairNext, Next
  <2> QED BY <2>1, StackRefinement DEF PairInv
<1>2. ASSUME UNCHANGED <<storeVars, viewVars, legacyLog, legacyHead, legacyHistory, legacyIndex>>,
             legacyNext' = nextEntity'
      PROVE  PairInv'
  <2>1. /\ UNCHANGED <<log, head, slotHistory, storeSig, bucket>>
        /\ UNCHANGED <<legacyLog, legacyHead, legacyHistory, legacyIndex>>
    BY <1>2 DEF storeVars, viewVars
  <2>2. HeadsPaired' /\ HistoriesPaired' /\ HoldsBuckets(legacyIndex, bucket)'
    BY <2>1 DEF PairInv, HeadsPaired, HistoriesPaired, HoldsBuckets, Active
  <2>3. ActiveIds' = ActiveIds
    BY <2>1 DEF ActiveIds
  <2>4. storeSig' = Recount(ActiveIds)'
    BY <2>1, <2>3 DEF PairInv, Recount
  <2> QED BY <1>1, <1>2, <2>1, <2>2, <2>4 DEF PairInv
<1>3. CASE UNCHANGED <<vars, legacyVars>>
  BY <1>2, <1>3 DEF PairInv, vars, legacyVars, storeVars, viewVars
<1>4. CASE Entity /\ Legacy!Entity
  BY <1>2, <1>4 DEF PairInv, Entity, Legacy!Entity
<1>5. ASSUME NEW s \in Slots, NEW f \in Facts, Define(s, f), Legacy!Define(s, f)
      PROVE  PairInv'
  BY <1>1, <1>5, PairDefine
<1>6. ASSUME NEW s \in Slots, Forget(s), Legacy!Forget(s, NoFact)
      PROVE  PairInv'
  BY <1>1, <1>6, PairForget
<1> QED BY <1>3, <1>4, <1>5, <1>6 DEF PairNext

\* The records and identifiers either kernel answers with are the same.
LEMMA SameAnswers ==
    ASSUME PairInv, NEW s \in Slots
    PROVE  Definitions(s) = Legacy!Definitions(s) /\ History(s) = Legacy!History(s)
<1>1. legacyLog = log /\ Legacy!HeadOf(s) = head[s]
  BY LegacyHeads DEF PairInv
<1>2. Definitions(s) = Legacy!Definitions(s)
  <2> DEFINE c == CHOOSE c : Walks(log, c)
  <2>1. ChainOf(log) = c
    BY DEF ChainOf, Walks, WalkAt
  <2>2. Legacy!Definitions(s) = c[head[s]]
    BY <1>1 DEF Legacy!Definitions, Walks, WalkAt
  <2> QED BY <2>1, <2>2 DEF Definitions
<1>3. History(s) = Legacy!History(s)
  <2>1. CASE s \in DOMAIN legacyHistory
    BY <1>1, <2>1 DEF PairInv, HistoriesPaired, History, Legacy!History
  <2>2. CASE s \notin DOMAIN legacyHistory
    <3>1. slotHistory[s] = <<>> /\ Legacy!History(s) = <<>>
      BY <2>2 DEF PairInv, HistoriesPaired, Legacy!History
    <3> QED BY <3>1 DEF History
  <2> QED BY <2>1, <2>2
<1> QED BY <1>2, <1>3

\* The subject-and-predicate index holds exactly the heads, in either kernel.
LEMMA PairsIndexed ==
    ASSUME PairInv
    PROVE  /\ UNION {bucket[k] : k \in {j \in Keys : DOMAIN j = {"subject", "predicate"}}}
                = ActiveIds
           /\ UNION {legacyIndex[k] :
                      k \in {j \in DOMAIN legacyIndex : DOMAIN j = {"subject", "predicate"}}}
                = ActiveIds
<1> DEFINE P == {j \in Keys : DOMAIN j = {"subject", "predicate"}}
           L == {j \in DOMAIN legacyIndex : DOMAIN j = {"subject", "predicate"}}
<1>1. /\ log \in Seq(Record) /\ Len(log) \in Nat /\ head \in [Slots -> 0..Len(log)]
      /\ bucket \in [Keys -> SUBSET (1..Len(log))]
      /\ BucketsExact /\ HeadsLive /\ Linked /\ HoldsBuckets(legacyIndex, bucket)
  BY DEF PairInv, RInv, IInv, TypeOK, Ids
<1>2. ASSUME NEW k \in Keys, NEW id \in bucket[k]  PROVE id \in ActiveIds
  <2>1. id \in 1..Len(log) /\ head[log[id].slot] = id
    BY <1>1 DEF BucketsExact
  <2>2. log[id] \in Record
    BY <1>1, <2>1, ElementOfSeq
  <2>3. log[id].slot \in Slots
    BY <2>2 DEF Record
  <2> QED BY <2>1, <2>3 DEF ActiveIds
<1>3. ASSUME NEW s \in Slots, head[s] # 0  PROVE \E k \in P : head[s] \in bucket[k]
  <2> DEFINE f == log[head[s]].fact
             shape == {"subject", "predicate"}
             k == [c \in shape |-> f[c]]
  <2>1. head[s] \in 1..Len(log)
    BY <1>1, <1>3
  <2>2. log[head[s]].kind = "Define" /\ log[head[s]].slot = s
    BY <1>1, <1>3 DEF HeadsLive
  <2>3. f \in Facts
    BY <1>1, <2>1, <2>2 DEF Linked
  <2>4. shape \in Shapes
    BY DEF Shapes, Columns
  <2> HIDE DEF f
  <2>5. k \in KeysOf(f)
    BY <2>4 DEF KeysOf, KeyOf
  <2>6. k \in Keys
    BY <2>3, <2>5 DEF Keys
  <2>7. DOMAIN k = shape
    OBVIOUS
  <2> HIDE DEF k
  <2>8. head[s] \in bucket[k]
    BY <1>1, <2>1, <2>2, <2>5, <2>6 DEF BucketsExact, f
  <2> QED BY <2>6, <2>7, <2>8
<1>4. UNION {bucket[k] : k \in P} = ActiveIds
  BY <1>2, <1>3 DEF ActiveIds
<1>5. UNION {legacyIndex[k] : k \in L} = UNION {bucket[k] : k \in P}
  <2>1. /\ \A k \in L : k \in P /\ legacyIndex[k] = bucket[k]
        /\ \A k \in P : bucket[k] # {} => k \in L
    BY <1>1 DEF HoldsBuckets
  <2> HIDE DEF L, P
  <2> QED BY <2>1
<1> QED BY <1>4, <1>5

LEMMA PairAgrees == PairInv => KernelsAgree
<1> SUFFICES ASSUME PairInv PROVE KernelsAgree
  OBVIOUS
<1>1. /\ log = legacyLog /\ nextEntity = legacyNext /\ HeadsPaired
      /\ head \in [Slots -> 0..Len(log)] /\ HeadsLive /\ viewSig = storeSig
      /\ HoldsBuckets(legacyIndex, bucket) /\ storeSig = Recount(ActiveIds)
  BY DEF PairInv, RInv, IInv, TypeOK, SignatureCounts
<1>2. Legacy!ActiveRecordIds = ActiveIds
  BY <1>1 DEF HeadsPaired, Active, ActiveIds, Legacy!ActiveRecordIds
<1>3. ASSUME NEW k \in Keys \cup {NoColumns}  PROVE Candidates(k) = Legacy!Candidates(k)
  <2>1. CASE DOMAIN k = {}
    BY <1>2, <2>1 DEF Candidates, Legacy!Candidates, ActiveIds
  <2>2. CASE DOMAIN k # {}
    <3>1. k \in Keys
      BY <2>2 DEF NoColumns
    <3>2. bucket[k] = Legacy!Bucket(legacyIndex, k)
      BY <1>1, <3>1 DEF HoldsBuckets, Legacy!Bucket
    <3> QED BY <2>2, <3>2 DEF Candidates, Legacy!Candidates
  <2> QED BY <2>1, <2>2
<1>4. \A s \in Slots : head[s] # 0 => log[head[s]].kind = "Define"
  BY <1>1 DEF HeadsLive
<1>5. Legacy!Validate
  <2>1. \A s \in DOMAIN legacyHead : legacyLog[legacyHead[s]].kind = "Define"
    BY <1>1, <1>4 DEF HeadsPaired, Active
  <2>2. Legacy!ViewValidate
    BY <1>2, PairsIndexed DEF Legacy!ViewValidate
  <2> QED BY <2>1, <2>2 DEF Legacy!Validate
<1>6. ValidateFull
  <2>1. StoreAudit
    BY <1>1, <1>4 DEF StoreAudit, ActiveIds
  <2>2. ViewAudit
    BY <1>1, PairsIndexed DEF ViewAudit
  <2> QED BY <2>1, <2>2 DEF ValidateFull
<1>7. \A s \in Slots : /\ Definitions(s) = Legacy!Definitions(s)
                       /\ History(s) = Legacy!History(s)
  BY SameAnswers
<1> QED BY <1>1, <1>3, <1>5, <1>6, <1>7 DEF KernelsAgree

\* Fed the same operations, the shared and the flat kernel never differ in their
\* logs, histories, definitions or in any bucket of the seven indexes, and the
\* full audits of both accept.
THEOREM KernelsNeverDiffer == PairSpec => []KernelsAgree
BY InitPairInv, NextPairInv, PairAgrees, PTL DEF PairSpec

-----------------------------------------------------------------------------
(* Reaper: a drain that returns true covers every kernel handed over        *)
(* before it, for any sets of roots and drainers, infinite ones included,   *)
(* and any capacity of the bounded queue.                                   *)

\* Where a thread is once it has added its root to the queued counter, and once
\* it has put it in one of the two queues.
Counted == {"queued", "refused", "pushed", "handed"}
Entered == {"pushed", "handed"}

Typed ==
    /\ retiring \in [Roots -> {"live", "counted", "queued", "refused", "pushed", "handed"}]
    /\ draining \in [Drainers -> {"idle", "loading", "sleeping", "drained", "timed out"}]
    /\ queue \in Seq(Roots) /\ overflow \in Seq(Roots)
    /\ held = <<>> \/ held \in Roots \X {"popped", "dropped", "reaped"}
    /\ freed \in SUBSET Roots
    /\ before \in [Drainers -> SUBSET Roots]

\* Both queues, the worker's hand and the freed roots hold roots that entered
\* a queue, and a root is in one of these places only.
QueuesApart ==
    /\ \A i, j \in 1..Len(queue) : queue[i] = queue[j] => i = j
    /\ \A i, j \in 1..Len(overflow) : overflow[i] = overflow[j] => i = j
    /\ \A i \in 1..Len(queue), j \in 1..Len(overflow) : queue[i] # overflow[j]
    /\ \A i \in 1..Len(queue) : retiring[queue[i]] \in Entered /\ queue[i] \notin freed
    /\ \A i \in 1..Len(overflow) : retiring[overflow[i]] \in Entered /\ overflow[i] \notin freed

HandApart ==
    held # <<>> =>
        /\ retiring[held[1]] \in Entered
        /\ held[1] \in freed <=> held[2] # "popped"
        /\ \A i \in 1..Len(queue) : queue[i] # held[1]
        /\ \A i \in 1..Len(overflow) : overflow[i] # held[1]

FreedEntered == \A r \in freed : retiring[r] \in Entered

\* The roots counted in and not yet counted out: the worker subtracts a root
\* from the counter two steps after it freed it.
InHand == IF held = <<>> THEN {} ELSE {held[1]}
Pending == {r \in Roots : retiring[r] \in Counted} \ (freed \ InHand)

CounterExact == IsFiniteSet(Pending) /\ queued = Cardinality(Pending)

\* What a drain covers: roots that were handed over, gone once it says so.
Covered ==
    \A d \in Drainers :
        /\ \A r \in before[d] : retiring[r] = "handed"
        /\ draining[d] = "drained" => before[d] \subseteq freed

\* The inductive invariant.
ReaperInv == Typed /\ QueuesApart /\ HandApart /\ FreedEntered /\ CounterExact /\ Covered

-----------------------------------------------------------------------------
(* Sequences.                                                                *)

LEMMA HeadTailFacts ==
    ASSUME NEW S, NEW q \in Seq(S), q # <<>>
    PROVE  /\ Len(q) \in Nat /\ Len(q) > 0
           /\ Head(q) = q[1] /\ q[1] \in S
           /\ Tail(q) \in Seq(S) /\ Len(Tail(q)) = Len(q) - 1
           /\ \A i \in 1..Len(Tail(q)) : i + 1 \in 1..Len(q) /\ Tail(q)[i] = q[i + 1]
<1>1. Len(q) \in Nat /\ Len(q) # 0
  BY EmptySeq, LenProperties
<1>2. 1 \in 1..Len(q)
  BY <1>1
<1>3. Head(q) = q[1] /\ q[1] \in S
  BY <1>2, ElementOfSeq, HeadTailProperties
<1> QED BY <1>1, <1>3, HeadTailProperties

LEMMA AppendFacts ==
    ASSUME NEW S, NEW q \in Seq(S), NEW x \in S
    PROVE  /\ Append(q, x) \in Seq(S) /\ Len(q) \in Nat
           /\ Len(Append(q, x)) = Len(q) + 1
           /\ \A i \in 1..Len(q) : Append(q, x)[i] = q[i]
           /\ Append(q, x)[Len(q) + 1] = x
BY AppendProperties, LenProperties

-----------------------------------------------------------------------------
(* Every step keeps the inductive invariant.                                 *)

LEMMA InitReaperInv == ReaperInit => ReaperInv
<1> SUFFICES ASSUME ReaperInit PROVE ReaperInv
  OBVIOUS
<1>1. Typed
  BY DEF ReaperInit, Typed
<1>2. Len(queue) = 0 /\ Len(overflow) = 0
  BY DEF ReaperInit
<1>3. QueuesApart /\ HandApart /\ FreedEntered
  BY <1>2 DEF ReaperInit, QueuesApart, HandApart, FreedEntered
<1>4. Pending = {}
  BY DEF ReaperInit, Pending, Counted
<1>5. CounterExact
  BY <1>4, FS_EmptySet DEF ReaperInit, CounterExact
<1>6. Covered
  BY DEF ReaperInit, Covered
<1> QED BY <1>1, <1>3, <1>5, <1>6 DEF ReaperInv

\* A step that moves no root, whatever it does to the counters.
LEMMA NoRootMoves ==
    ASSUME ReaperInv, UNCHANGED <<queue, overflow, held, freed>>,
           \A x \in Roots : retiring[x] \in Entered => retiring'[x] \in Entered
    PROVE  QueuesApart' /\ HandApart' /\ FreedEntered'
<1>1. \A i \in 1..Len(queue) : queue[i] \in Roots
  BY ElementOfSeq DEF ReaperInv, Typed
<1>2. \A i \in 1..Len(overflow) : overflow[i] \in Roots
  BY ElementOfSeq DEF ReaperInv, Typed
<1>3. held # <<>> => held[1] \in Roots
  BY DEF ReaperInv, Typed
<1>4. QueuesApart'
  BY <1>1, <1>2 DEF ReaperInv, QueuesApart
<1>5. HandApart'
  BY <1>3 DEF ReaperInv, HandApart
<1>6. FreedEntered'
  BY DEF ReaperInv, FreedEntered, Typed
<1> QED BY <1>4, <1>5, <1>6

\* A step of a retiring thread keeps what the drains rely on.
LEMMA DrainsAside ==
    ASSUME ReaperInv, UNCHANGED <<draining, before, freed>>,
           \A x \in Roots : retiring[x] = "handed" => retiring'[x] = "handed"
    PROVE  Covered'
BY DEF ReaperInv, Covered, Typed

LEMMA RetireCountStep == ASSUME ReaperInv, NEW r \in Roots, RetireCount(r) PROVE ReaperInv'
<1>1. Typed'
  BY DEF ReaperInv, RetireCount, Typed
<1>2. \A x \in Roots : /\ retiring'[x] \in Counted <=> retiring[x] \in Counted
                       /\ retiring[x] \in Entered => retiring'[x] \in Entered
                       /\ retiring[x] = "handed" => retiring'[x] = "handed"
  BY DEF ReaperInv, RetireCount, Typed, Counted, Entered
<1>3. QueuesApart' /\ HandApart' /\ FreedEntered'
  BY <1>2, NoRootMoves DEF RetireCount
<1>4. Pending' = Pending
  BY <1>2 DEF RetireCount, Pending, InHand
<1>5. CounterExact'
  BY <1>4 DEF RetireCount, ReaperInv, CounterExact
<1>6. Covered'
  BY <1>2, DrainsAside DEF RetireCount
<1> QED BY <1>1, <1>3, <1>5, <1>6 DEF ReaperInv

LEMMA RetireQueuedStep == ASSUME ReaperInv, NEW r \in Roots, RetireQueued(r) PROVE ReaperInv'
<1>1. Typed'
  BY DEF ReaperInv, RetireQueued, Typed
<1>2. \A x \in Roots : /\ retiring'[x] \in Counted <=> retiring[x] \in Counted \/ x = r
                       /\ retiring[x] \in Entered => retiring'[x] \in Entered
                       /\ retiring[x] = "handed" => retiring'[x] = "handed"
  BY DEF ReaperInv, RetireQueued, Typed, Counted, Entered
<1>3. QueuesApart' /\ HandApart' /\ FreedEntered'
  BY <1>2, NoRootMoves DEF RetireQueued
<1>4. retiring[r] \notin Counted /\ retiring[r] \notin Entered
  BY DEF RetireQueued, Counted, Entered
<1>5. r \notin freed
  BY <1>4 DEF ReaperInv, FreedEntered
<1>6. Pending' = Pending \cup {r} /\ r \notin Pending
  BY <1>2, <1>4, <1>5 DEF RetireQueued, Pending, InHand
<1>7. CounterExact'
  BY <1>6, FS_AddElement DEF RetireQueued, ReaperInv, CounterExact
<1>8. Covered'
  BY <1>2, DrainsAside DEF RetireQueued
<1> QED BY <1>1, <1>3, <1>7, <1>8 DEF ReaperInv

\* The root of a thread that enters a queue is in no queue, not in the worker's
\* hand and not freed.
LEMMA NotYetEntered ==
    ASSUME ReaperInv, NEW r \in Roots, retiring[r] \notin Entered
    PROVE  /\ \A i \in 1..Len(queue) : queue[i] # r
           /\ \A i \in 1..Len(overflow) : overflow[i] # r
           /\ held # <<>> => held[1] # r
           /\ r \notin freed
BY DEF ReaperInv, QueuesApart, HandApart, FreedEntered

LEMMA RetirePushStep == ASSUME ReaperInv, NEW r \in Roots, RetirePush(r) PROVE ReaperInv'
<1> DEFINE Push == queue' = Append(queue, r) /\ retiring' = [retiring EXCEPT ![r] = "pushed"]
           Full == queue' = queue /\ retiring' = [retiring EXCEPT ![r] = "refused"]
<1>1. /\ Push \/ Full
      /\ retiring[r] = "queued"
      /\ UNCHANGED <<draining, overflow, queued, held, freed, before>>
  BY DEF RetirePush
<1>2. Typed'
  <2>1. Append(queue, r) \in Seq(Roots)
    BY AppendFacts DEF ReaperInv, Typed
  <2> QED BY <1>1, <2>1 DEF ReaperInv, Typed
<1>3. \A x \in Roots : /\ retiring'[x] \in Counted <=> retiring[x] \in Counted
                       /\ retiring[x] \in Entered => retiring'[x] \in Entered
                       /\ retiring[x] = "handed" => retiring'[x] = "handed"
  BY <1>1 DEF ReaperInv, Typed, Counted, Entered
<1>4. QueuesApart' /\ HandApart' /\ FreedEntered'
  <2>1. CASE Full
    BY <1>1, <1>3, <2>1, NoRootMoves
  <2>2. CASE Push
    <3>1. /\ Len(queue) \in Nat /\ Len(queue') = Len(queue) + 1
          /\ \A i \in 1..Len(queue) : queue'[i] = queue[i]
          /\ queue'[Len(queue) + 1] = r
      <4>1. queue \in Seq(Roots)
        BY DEF ReaperInv, Typed
      <4>2. /\ Len(queue) \in Nat /\ Len(Append(queue, r)) = Len(queue) + 1
           /\ \A i \in 1..Len(queue) : Append(queue, r)[i] = queue[i]
           /\ Append(queue, r)[Len(queue) + 1] = r
        BY <4>1, AppendFacts
      <4> QED BY <2>2, <4>2
    <3>2. /\ \A i \in 1..Len(queue) : queue[i] \in Roots
          /\ \A i \in 1..Len(overflow) : overflow[i] \in Roots
      BY ElementOfSeq DEF ReaperInv, Typed
    <3>3. retiring[r] \notin Entered /\ retiring'[r] \in Entered
      BY <1>1, <2>2 DEF Entered, ReaperInv, Typed
    <3>4. /\ \A i \in 1..Len(queue) : queue[i] # r
          /\ \A i \in 1..Len(overflow) : overflow[i] # r
          /\ held # <<>> => held[1] # r
          /\ r \notin freed
      BY <3>3, NotYetEntered
    <3>5. QueuesApart'
      BY <1>1, <1>3, <3>1, <3>2, <3>3, <3>4 DEF ReaperInv, QueuesApart
    <3>6. HandApart'
      <4>1. held # <<>> => held[1] \in Roots
        BY DEF ReaperInv, Typed
      <4> QED BY <1>1, <1>3, <3>1, <3>4, <4>1 DEF ReaperInv, HandApart
    <3>7. FreedEntered'
      BY <1>1, <1>3 DEF ReaperInv, FreedEntered, Typed
    <3> QED BY <3>5, <3>6, <3>7
  <2> QED BY <1>1, <2>1, <2>2
<1>5. Pending' = Pending
  BY <1>1, <1>3 DEF Pending, InHand
<1>6. CounterExact'
  BY <1>1, <1>5 DEF ReaperInv, CounterExact
<1>7. Covered'
  BY <1>1, <1>3, DrainsAside
<1> QED BY <1>2, <1>4, <1>6, <1>7 DEF ReaperInv

LEMMA RetireOverflowStep == ASSUME ReaperInv, NEW r \in Roots, RetireOverflow(r) PROVE ReaperInv'
<1>1. /\ retiring[r] = "refused"
      /\ retiring' = [retiring EXCEPT ![r] = "pushed"]
      /\ overflow' = Append(overflow, r)
      /\ UNCHANGED <<draining, queue, queued, held, freed, before>>
  BY DEF RetireOverflow, counters
<1>2. Typed'
  <2>1. Append(overflow, r) \in Seq(Roots)
    BY AppendFacts DEF ReaperInv, Typed
  <2> QED BY <1>1, <2>1 DEF ReaperInv, Typed
<1>3. \A x \in Roots : /\ retiring'[x] \in Counted <=> retiring[x] \in Counted
                       /\ retiring[x] \in Entered => retiring'[x] \in Entered
                       /\ retiring[x] = "handed" => retiring'[x] = "handed"
  BY <1>1 DEF ReaperInv, Typed, Counted, Entered
<1>4. QueuesApart' /\ HandApart' /\ FreedEntered'
  <2>1. /\ Len(overflow) \in Nat /\ Len(overflow') = Len(overflow) + 1
        /\ \A i \in 1..Len(overflow) : overflow'[i] = overflow[i]
        /\ overflow'[Len(overflow) + 1] = r
    <3>1. overflow \in Seq(Roots)
      BY DEF ReaperInv, Typed
    <3>2. /\ Len(overflow) \in Nat /\ Len(Append(overflow, r)) = Len(overflow) + 1
         /\ \A i \in 1..Len(overflow) : Append(overflow, r)[i] = overflow[i]
         /\ Append(overflow, r)[Len(overflow) + 1] = r
      BY <3>1, AppendFacts
    <3> QED BY <1>1, <3>2
  <2>2. /\ \A i \in 1..Len(queue) : queue[i] \in Roots
        /\ \A i \in 1..Len(overflow) : overflow[i] \in Roots
    BY ElementOfSeq DEF ReaperInv, Typed
  <2>3. retiring[r] \notin Entered /\ retiring'[r] \in Entered
    BY <1>1 DEF Entered, ReaperInv, Typed
  <2>4. /\ \A i \in 1..Len(queue) : queue[i] # r
        /\ \A i \in 1..Len(overflow) : overflow[i] # r
        /\ held # <<>> => held[1] # r
        /\ r \notin freed
    BY <2>3, NotYetEntered
  <2>5. QueuesApart'
    BY <1>1, <1>3, <2>1, <2>2, <2>3, <2>4 DEF ReaperInv, QueuesApart
  <2>6. HandApart'
    <3>1. held # <<>> => held[1] \in Roots
      BY DEF ReaperInv, Typed
    <3> QED BY <1>1, <1>3, <2>1, <2>4, <3>1 DEF ReaperInv, HandApart
  <2>7. FreedEntered'
    BY <1>1, <1>3 DEF ReaperInv, FreedEntered, Typed
  <2> QED BY <2>5, <2>6, <2>7
<1>5. Pending' = Pending
  BY <1>1, <1>3 DEF Pending, InHand
<1>6. CounterExact'
  BY <1>1, <1>5 DEF ReaperInv, CounterExact
<1>7. Covered'
  BY <1>1, <1>3, DrainsAside
<1> QED BY <1>2, <1>4, <1>6, <1>7 DEF ReaperInv

LEMMA RetireWakeStep == ASSUME ReaperInv, NEW r \in Roots, RetireWake(r) PROVE ReaperInv'
<1>1. Typed'
  BY DEF ReaperInv, RetireWake, Typed
<1>2. \A x \in Roots : /\ retiring'[x] \in Counted <=> retiring[x] \in Counted
                       /\ retiring[x] \in Entered => retiring'[x] \in Entered
                       /\ retiring[x] = "handed" => retiring'[x] = "handed"
  BY DEF ReaperInv, RetireWake, Typed, Counted, Entered
<1>3. QueuesApart' /\ HandApart' /\ FreedEntered'
  BY <1>2, NoRootMoves DEF RetireWake
<1>4. Pending' = Pending
  BY <1>2 DEF RetireWake, Pending, InHand
<1>5. CounterExact'
  BY <1>4 DEF RetireWake, counters, ReaperInv, CounterExact
<1>6. Covered'
  BY <1>2, DrainsAside DEF RetireWake
<1> QED BY <1>1, <1>3, <1>5, <1>6 DEF ReaperInv

\* The worker popped the first root of one of the queues: it is still pending.
LEMMA PopStep == ASSUME ReaperInv, Pop PROVE ReaperInv'
<1>1. /\ held = <<>>
      /\ UNCHANGED <<retiring, draining, queued, freed, before>>
      /\ \/ /\ queue # <<>> /\ held' = <<Head(queue), "popped">> /\ queue' = Tail(queue)
            /\ overflow' = overflow
         \/ /\ overflow # <<>> /\ held' = <<Head(overflow), "popped">>
            /\ overflow' = Tail(overflow) /\ queue' = queue
  BY DEF Pop, counters
<1>2. queue \in Seq(Roots) /\ overflow \in Seq(Roots)
  BY DEF ReaperInv, Typed
<1>3. QueuesApart
  BY DEF ReaperInv
<1>4. PICK x \in Roots :
        /\ held' = <<x, "popped">>
        /\ retiring[x] \in Entered /\ x \notin freed
        /\ queue' \in Seq(Roots) /\ overflow' \in Seq(Roots)
        /\ QueuesApart'
        /\ \A i \in 1..Len(queue') : queue'[i] # x
        /\ \A i \in 1..Len(overflow') : overflow'[i] # x
  <2>1. CASE queue # <<>> /\ held' = <<Head(queue), "popped">> /\ queue' = Tail(queue)
             /\ overflow' = overflow
    <3>1. /\ Len(queue) \in Nat /\ Len(queue) > 0
          /\ Head(queue) = queue[1] /\ queue[1] \in Roots
          /\ queue' \in Seq(Roots) /\ Len(queue') = Len(queue) - 1
          /\ \A i \in 1..Len(queue') : i + 1 \in 1..Len(queue) /\ queue'[i] = queue[i + 1]
      <4>1. /\ Len(queue) \in Nat /\ Len(queue) > 0
            /\ Head(queue) = queue[1] /\ queue[1] \in Roots
            /\ Tail(queue) \in Seq(Roots) /\ Len(Tail(queue)) = Len(queue) - 1
            /\ \A i \in 1..Len(Tail(queue)) :
                i + 1 \in 1..Len(queue) /\ Tail(queue)[i] = queue[i + 1]
        BY <1>2, <2>1, HeadTailFacts
      <4> QED BY <2>1, <4>1
    <3>2. retiring[queue[1]] \in Entered /\ queue[1] \notin freed
      BY <1>3, <3>1 DEF QueuesApart
    <3>3. \A i \in 1..Len(queue') : queue'[i] # queue[1]
      <4> TAKE i \in 1..Len(queue')
      <4>1. i + 1 \in 1..Len(queue) /\ queue'[i] = queue[i + 1] /\ i + 1 # 1
        BY <3>1
      <4> QED BY <1>3, <3>1, <4>1 DEF QueuesApart
    <3>4. \A i \in 1..Len(overflow') : overflow'[i] # queue[1]
      BY <1>3, <2>1, <3>1 DEF QueuesApart
    <3>5. QueuesApart'
      <4>1. \A i, j \in 1..Len(queue') : queue'[i] = queue'[j] => i = j
        <5> TAKE i, j \in 1..Len(queue')
        <5>1. /\ i + 1 \in 1..Len(queue) /\ queue'[i] = queue[i + 1]
              /\ j + 1 \in 1..Len(queue) /\ queue'[j] = queue[j + 1]
          BY <3>1
        <5>2. queue[i + 1] = queue[j + 1] => i + 1 = j + 1
          BY <1>3, <5>1 DEF QueuesApart
        <5> QED BY <5>1, <5>2, <3>1
      <4>2. \A i \in 1..Len(queue') :
                /\ retiring[queue'[i]] \in Entered /\ queue'[i] \notin freed
                /\ \A j \in 1..Len(overflow) : queue'[i] # overflow[j]
        <5> TAKE i \in 1..Len(queue')
        <5>1. i + 1 \in 1..Len(queue) /\ queue'[i] = queue[i + 1]
          BY <3>1
        <5> QED BY <1>3, <5>1 DEF QueuesApart
      <4> QED BY <1>1, <1>3, <2>1, <4>1, <4>2 DEF QueuesApart
    <3> QED BY <1>2, <2>1, <3>1, <3>2, <3>3, <3>4, <3>5
  <2>2. CASE overflow # <<>> /\ held' = <<Head(overflow), "popped">>
             /\ overflow' = Tail(overflow) /\ queue' = queue
    <3>1. /\ Len(overflow) \in Nat /\ Len(overflow) > 0
          /\ Head(overflow) = overflow[1] /\ overflow[1] \in Roots
          /\ overflow' \in Seq(Roots) /\ Len(overflow') = Len(overflow) - 1
          /\ \A i \in 1..Len(overflow') :
                i + 1 \in 1..Len(overflow) /\ overflow'[i] = overflow[i + 1]
      <4>1. /\ Len(overflow) \in Nat /\ Len(overflow) > 0
            /\ Head(overflow) = overflow[1] /\ overflow[1] \in Roots
            /\ Tail(overflow) \in Seq(Roots) /\ Len(Tail(overflow)) = Len(overflow) - 1
            /\ \A i \in 1..Len(Tail(overflow)) :
                i + 1 \in 1..Len(overflow) /\ Tail(overflow)[i] = overflow[i + 1]
        BY <1>2, <2>2, HeadTailFacts
      <4> QED BY <2>2, <4>1
    <3>2. retiring[overflow[1]] \in Entered /\ overflow[1] \notin freed
      BY <1>3, <3>1 DEF QueuesApart
    <3>3. \A i \in 1..Len(overflow') : overflow'[i] # overflow[1]
      <4> TAKE i \in 1..Len(overflow')
      <4>1. i + 1 \in 1..Len(overflow) /\ overflow'[i] = overflow[i + 1] /\ i + 1 # 1
        BY <3>1
      <4> QED BY <1>3, <3>1, <4>1 DEF QueuesApart
    <3>4. \A i \in 1..Len(queue') : queue'[i] # overflow[1]
      BY <1>3, <2>2, <3>1 DEF QueuesApart
    <3>5. QueuesApart'
      <4>1. \A i, j \in 1..Len(overflow') : overflow'[i] = overflow'[j] => i = j
        <5> TAKE i, j \in 1..Len(overflow')
        <5>1. /\ i + 1 \in 1..Len(overflow) /\ overflow'[i] = overflow[i + 1]
              /\ j + 1 \in 1..Len(overflow) /\ overflow'[j] = overflow[j + 1]
          BY <3>1
        <5>2. overflow[i + 1] = overflow[j + 1] => i + 1 = j + 1
          BY <1>3, <5>1 DEF QueuesApart
        <5> QED BY <5>1, <5>2, <3>1
      <4>2. \A i \in 1..Len(overflow') :
                /\ retiring[overflow'[i]] \in Entered /\ overflow'[i] \notin freed
                /\ \A j \in 1..Len(queue) : queue[j] # overflow'[i]
        <5> TAKE i \in 1..Len(overflow')
        <5>1. i + 1 \in 1..Len(overflow) /\ overflow'[i] = overflow[i + 1]
          BY <3>1
        <5>2. /\ retiring[overflow[i + 1]] \in Entered /\ overflow[i + 1] \notin freed
              /\ \A j \in 1..Len(queue) : queue[j] # overflow[i + 1]
          BY <1>3, <5>1, Zenon DEF QueuesApart
        <5> QED BY <5>1, <5>2, Zenon
      <4> QED BY <1>1, <1>3, <2>2, <4>1, <4>2 DEF QueuesApart
    <3> QED BY <1>2, <2>2, <3>1, <3>2, <3>3, <3>4, <3>5
  <2> QED BY <1>1, <2>1, <2>2
<1>5. held' # <<>> /\ held'[1] = x /\ held'[2] = "popped"
  BY <1>4
<1>6. Typed'
  BY <1>1, <1>4 DEF ReaperInv, Typed
<1>7. HandApart'
  BY <1>1, <1>4, <1>5 DEF HandApart
<1>8. FreedEntered'
  BY <1>1 DEF ReaperInv, FreedEntered
<1>9. InHand = {} /\ InHand' = {x}
  BY <1>1, <1>5 DEF InHand
<1>10. Pending' = Pending
  BY <1>1, <1>4, <1>9 DEF Pending
<1>11. CounterExact'
  BY <1>1, <1>10 DEF ReaperInv, CounterExact
<1>12. Covered'
  BY <1>1, DrainsAside
<1> QED BY <1>4, <1>6, <1>7, <1>8, <1>11, <1>12 DEF ReaperInv

\* Facts about the root in the worker's hand, which the three next steps keep.
LEMMA HandFacts ==
    ASSUME ReaperInv, held # <<>>
    PROVE  /\ held[1] \in Roots /\ retiring[held[1]] \in Entered
           /\ held = <<held[1], held[2]>>
           /\ held[2] \in {"popped", "dropped", "reaped"}
           /\ InHand = {held[1]}
           /\ held[1] \in Pending
<1>1. held \in Roots \X {"popped", "dropped", "reaped"}
  BY DEF ReaperInv, Typed
<1>2. retiring[held[1]] \in Entered
  BY DEF ReaperInv, HandApart
<1>3. InHand = {held[1]}
  BY DEF InHand
<1>4. held[1] \in Pending
  BY <1>1, <1>2, <1>3 DEF Pending, Entered, Counted
<1> QED BY <1>1, <1>2, <1>3, <1>4

LEMMA DropRootStep == ASSUME ReaperInv, DropRoot PROVE ReaperInv'
<1>1. /\ held # <<>> /\ held[2] = "popped"
      /\ held' = [held EXCEPT ![2] = "dropped"] /\ freed' = freed \cup {held[1]}
      /\ UNCHANGED <<retiring, draining, queue, overflow, queued, before>>
  BY DEF DropRoot, counters
<1>2. /\ held[1] \in Roots /\ retiring[held[1]] \in Entered
      /\ InHand = {held[1]}
  BY <1>1, HandFacts
<1>3. held' # <<>> /\ held'[1] = held[1] /\ held'[2] = "dropped"
      /\ held' \in Roots \X {"popped", "dropped", "reaped"}
  <2>1. held[1] \in Roots /\ held = <<held[1], held[2]>>
    BY <1>1, HandFacts
  <2>2. held' = <<held[1], "dropped">>
    BY <1>1, <2>1
  <2> QED BY <2>1, <2>2
<1>4. Typed'
  BY <1>1, <1>2, <1>3 DEF ReaperInv, Typed
<1>5. QueuesApart'
  BY <1>1 DEF ReaperInv, QueuesApart, HandApart
<1>6. HandApart'
  BY <1>1, <1>2, <1>3 DEF ReaperInv, HandApart
<1>7. FreedEntered'
  BY <1>1, <1>2 DEF ReaperInv, FreedEntered
<1>8. InHand' = {held[1]}
  BY <1>3 DEF InHand
<1>9. Pending' = Pending
  BY <1>1, <1>2, <1>8 DEF Pending
<1>10. CounterExact'
  BY <1>1, <1>9 DEF ReaperInv, CounterExact
<1>11. Covered'
  BY <1>1 DEF ReaperInv, Covered
<1> QED BY <1>4, <1>5, <1>6, <1>7, <1>10, <1>11 DEF ReaperInv

LEMMA CountReapedStep == ASSUME ReaperInv, CountReaped PROVE ReaperInv'
<1>1. /\ held # <<>> /\ held[2] = "dropped"
      /\ held' = [held EXCEPT ![2] = "reaped"]
      /\ UNCHANGED <<retiring, draining, queue, overflow, queued, freed, before>>
  BY DEF CountReaped
<1>2. InHand = {held[1]}
  BY <1>1, HandFacts
<1>3. held' # <<>> /\ held'[1] = held[1] /\ held'[2] = "reaped"
      /\ held' \in Roots \X {"popped", "dropped", "reaped"}
  <2>1. held[1] \in Roots /\ held = <<held[1], held[2]>>
    BY <1>1, HandFacts
  <2>2. held' = <<held[1], "reaped">>
    BY <1>1, <2>1
  <2> QED BY <2>1, <2>2
<1>4. Typed'
  BY <1>1, <1>3 DEF ReaperInv, Typed
<1>5. QueuesApart' /\ FreedEntered'
  BY <1>1 DEF ReaperInv, QueuesApart, FreedEntered
<1>6. HandApart'
  BY <1>1, <1>3 DEF ReaperInv, HandApart
<1>7. InHand' = {held[1]}
  BY <1>3 DEF InHand
<1>8. Pending' = Pending
  BY <1>1, <1>2, <1>7 DEF Pending
<1>9. CounterExact'
  BY <1>1, <1>8 DEF ReaperInv, CounterExact
<1>10. Covered'
  BY <1>1, DrainsAside
<1> QED BY <1>4, <1>5, <1>6, <1>9, <1>10 DEF ReaperInv

LEMMA CountOutStep == ASSUME ReaperInv, CountOut PROVE ReaperInv'
<1>1. /\ held # <<>> /\ held[2] = "reaped"
      /\ held' = <<>> /\ queued' = queued - 1
      /\ UNCHANGED <<retiring, draining, queue, overflow, freed, before>>
  BY DEF CountOut
<1>2. held[1] \in Pending /\ InHand = {held[1]}
  BY <1>1, HandFacts
<1>3. held[1] \in freed
  BY <1>1 DEF ReaperInv, HandApart
<1>4. Typed' /\ HandApart'
  BY <1>1 DEF ReaperInv, Typed, HandApart
<1>5. QueuesApart' /\ FreedEntered'
  BY <1>1 DEF ReaperInv, QueuesApart, FreedEntered
<1>6. InHand' = {}
  BY <1>1 DEF InHand
<1>7. Pending' = Pending \ {held[1]}
  BY <1>1, <1>2, <1>3, <1>6 DEF Pending
<1>8. CounterExact'
  BY <1>1, <1>2, <1>7, FS_RemoveElement DEF ReaperInv, CounterExact
<1>9. Covered'
  BY <1>1, DrainsAside
<1> QED BY <1>4, <1>5, <1>8, <1>9 DEF ReaperInv

\* A step that only moves a drain, the worker's position or the channel.
LEMMA RootsAside ==
    ASSUME ReaperInv, UNCHANGED <<retiring, queue, overflow, queued, held, freed>>,
           draining' \in [Drainers -> {"idle", "loading", "sleeping", "drained", "timed out"}],
           before' \in [Drainers -> SUBSET Roots], Covered'
    PROVE  ReaperInv'
<1>1. Typed'
  BY DEF ReaperInv, Typed
<1>2. QueuesApart' /\ HandApart' /\ FreedEntered'
  BY NoRootMoves
<1>3. Pending' = Pending
  BY DEF Pending, InHand
<1>4. CounterExact'
  BY <1>3 DEF ReaperInv, CounterExact
<1> QED BY <1>1, <1>2, <1>4 DEF ReaperInv

LEMMA DrainCallStep == ASSUME ReaperInv, NEW d \in Drainers, DrainCall(d) PROVE ReaperInv'
<1>1. Covered'
  BY DEF ReaperInv, DrainCall, Covered, Typed
<1> QED BY <1>1, RootsAside DEF ReaperInv, DrainCall, counters, Typed

\* The counter is zero only when nothing is pending: every root that was handed
\* over is freed.
LEMMA DrainLoadStep == ASSUME ReaperInv, NEW d \in Drainers, DrainLoad(d) PROVE ReaperInv'
<1>1. queued = 0 => \A r \in Roots : retiring[r] = "handed" => r \in freed
  <2> SUFFICES ASSUME queued = 0, NEW r \in Roots, retiring[r] = "handed" PROVE r \in freed
    OBVIOUS
  <2>1. Pending = {}
    BY FS_EmptySet DEF ReaperInv, CounterExact
  <2> QED BY <2>1 DEF Pending, Counted
<1>2. /\ UNCHANGED <<retiring, queue, overflow, queued, held, freed, before>>
      /\ \E stage \in {"drained", "timed out", "sleeping"} :
            /\ draining' = [draining EXCEPT ![d] = stage]
            /\ stage = "drained" => queued = 0
  BY DEF DrainLoad, counters
<1>3. Covered'
  BY <1>1, <1>2 DEF ReaperInv, Covered, Typed
<1> QED BY <1>2, <1>3, RootsAside DEF ReaperInv, Typed

LEMMA DrainSleepsStep == ASSUME ReaperInv, NEW d \in Drainers, DrainSleeps(d) PROVE ReaperInv'
<1>1. Covered'
  BY DEF ReaperInv, DrainSleeps, Covered, Typed
<1> QED BY <1>1, RootsAside DEF ReaperInv, DrainSleeps, counters, Typed

LEMMA NextReaperInv == ReaperInv /\ [ReaperNext]_reaperVars => ReaperInv'
<1> SUFFICES ASSUME ReaperInv, [ReaperNext]_reaperVars PROVE ReaperInv'
  OBVIOUS
<1>1. CASE UNCHANGED reaperVars \/ WorkerWakes \/ QueueEmpty
  <2>1. UNCHANGED <<retiring, draining, queue, overflow, queued, held, freed, before>>
    BY <1>1 DEF reaperVars, WorkerWakes, QueueEmpty, counters
  <2>2. Covered'
    BY <2>1, DrainsAside
  <2> QED BY <2>1, <2>2, RootsAside DEF ReaperInv, Typed
<1>2. CASE \E r \in Roots : RetireStep(r)
  BY <1>2, RetireCountStep, RetireQueuedStep, RetirePushStep, RetireOverflowStep,
     RetireWakeStep DEF RetireStep
<1>3. CASE WorkerStep
  BY <1>1, <1>3, PopStep, DropRootStep, CountReapedStep, CountOutStep DEF WorkerStep
<1>4. CASE \E d \in Drainers : DrainCall(d) \/ DrainLoad(d) \/ DrainSleeps(d)
  BY <1>4, DrainCallStep, DrainLoadStep, DrainSleepsStep
<1> QED BY <1>1, <1>2, <1>3, <1>4 DEF ReaperNext

-----------------------------------------------------------------------------
(* The theorems.                                                             *)

\* The inductive invariant holds in every reachable state of the reaper.
THEOREM ReaperInvariance == ReaperSpec => []ReaperInv
BY InitReaperInv, NextReaperInv, PTL DEF ReaperSpec

\* The queued counter is the number of kernel roots that are on their way from
\* a dropping thread to the allocator, at every step of every thread.
THEOREM QueuedIsExact == ReaperSpec => [](queued = Cardinality(Pending))
<1>1. ReaperInv => queued = Cardinality(Pending)
  BY DEF ReaperInv, CounterExact
<1> QED BY <1>1, ReaperInvariance, PTL

\* drain_reaper that returns true: every kernel whose drop returned before the
\* call is freed, through whichever queue it went.
THEOREM DrainIsComplete == ReaperSpec => []DrainCovers
<1>1. ReaperInv => DrainCovers
  BY DEF ReaperInv, Covered, DrainCovers
<1> QED BY <1>1, ReaperInvariance, PTL
=============================================================================
