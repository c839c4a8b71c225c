---------------------- MODULE SpeculativePipelineProofs ----------------------
(***************************************************************************)
(* TLAPS proofs about SpeculativePipeline: published worlds are durable,   *)
(* verdicts come from published worlds, and order and barriers survive the *)
(* claiming ahead, for any number of intents, flushes and other writers,   *)
(* any capacity and batch size, and whatever the ring reports.             *)
(***************************************************************************)
EXTENDS SpeculativePipeline, SequenceTheorems, TLAPS

\* What a world may contain.
Things == Clients \cup Foreign

EpochType == [batch : Seq(Clients), base : Seq(Things), tail : Seq(Things), panicked : BOOLEAN]

Answers == {"accepted", "rejected", "failed", "stopped"}

Typed ==
    /\ queue \in Seq(Clients \cup Flushers) /\ pending \in Seq(Flushers)
    /\ worker \in {"recv", "claim", "derive", "top", "wait", "persisted", "repaired", "done"}
    /\ claimed \in Seq(Clients) /\ purpose \in {"first", "next", "successor"}
    /\ prepared \in EpochType /\ successor \in EpochType
    /\ store \in {"Healthy", "Poisoned"}
    /\ file \in Seq(Things) /\ current \in Seq(Things)
    /\ outcome \in [Clients -> {"none", "queued"} \cup Answers]
    /\ basis \in [Clients -> Seq(Things)]
    /\ flush \in [Flushers -> {"ready", "waiting", "ok", "stopped"}]
    /\ before \in [Flushers -> SUBSET Clients]
    /\ sent \in Seq(Clients)

-----------------------------------------------------------------------------

\* b begins with a.
Extends(b, a) == Len(a) <= Len(b) /\ \A i \in 1..Len(a) : b[i] = a[i]

Elems(q) == {q[i] : i \in 1..Len(q)}

\* x was sent before y.
Precedes(s, x, y) == \E k, l \in 1..Len(s) : k < l /\ s[k] = x /\ s[l] = y

\* The intents of q are in the order of s.
Sorted(s, q) ==
    \A i, j \in 1..Len(q) :
        i < j /\ q[i] \in Clients /\ q[j] \in Clients => Precedes(s, q[i], q[j])

Ahead(s, A, B) == \A x \in A, y \in B : Precedes(s, x, y)

\* The tail of an epoch is its base and, in order, intents of its batch.
Derived(s, e) ==
    /\ Extends(e.tail, e.base)
    /\ \A i \in 1..Len(e.tail) : i > Len(e.base) => e.tail[i] \in Elems(e.batch)
    /\ \A i, j \in 1..Len(e.tail) :
        Len(e.base) < i /\ i < j => Precedes(s, e.tail[i], e.tail[j])

-----------------------------------------------------------------------------

\* The epoch whose write was submitted.
InFlight == io.at \in {"submitted", "done"} /\ prepared.base = current /\ store = "Healthy"

\* What the committer holds at which of its steps.
Phases ==
    /\ io.at \notin {"submitted", "done"} => io = NoIo
    /\ successor.batch = <<>> => successor = NoEpoch
    /\ worker \in {"recv", "done"} =>
        claimed = <<>> /\ prepared = NoEpoch /\ successor = NoEpoch /\ io = NoIo
    /\ worker \in {"claim", "derive"} =>
        /\ successor = NoEpoch
        /\ IF purpose = "successor" THEN InFlight ELSE prepared = NoEpoch /\ io = NoIo
    /\ worker = "top" =>
        claimed = <<>> /\ successor = NoEpoch /\ io = NoIo /\ prepared.base = current
    /\ worker = "wait" =>
        /\ claimed = <<>> /\ InFlight
        /\ successor = NoEpoch \/ successor.base = prepared.tail
    /\ worker \in {"persisted", "repaired"} =>
        /\ claimed = <<>> /\ prepared = NoEpoch /\ io = NoIo
        /\ worker = "persisted" => successor = NoEpoch \/ successor.base = current

\* What the file holds, and what the ring's report says about it.
Stored ==
    /\ Extends(file, current)
    /\ store = "Healthy" /\ io.at # "done" => file = current
    /\ io.at = "done" =>
        /\ file = current \/ file = prepared.tail
        /\ ValidateCompletions(io.cqes) => file = prepared.tail

Epochs == Derived(sent, prepared) /\ Derived(sent, successor)

-----------------------------------------------------------------------------

Queued == {c \in Clients : outcome[c] = "queued"}

Older == Elems(prepared.batch)

Younger == Elems(claimed) \cup Elems(successor.batch)

Waiting == Elems(queue) \cap Clients

\* Every intent was sent once, and is somewhere until it is answered.
Located ==
    /\ \A i, j \in 1..Len(sent) : i # j => sent[i] # sent[j]
    /\ Elems(sent) = {c \in Clients : outcome[c] # "none"}
    /\ Queued = Older \cup Younger \cup Waiting

\* The intents are held in the order in which they were sent.
InOrder ==
    /\ Sorted(sent, queue) /\ Sorted(sent, claimed)
    /\ Sorted(sent, prepared.batch) /\ Sorted(sent, successor.batch)
    /\ Ahead(sent, Older, Younger)
    /\ Ahead(sent, Older \cup Younger, Waiting)
    /\ Sorted(sent, current)
    /\ Ahead(sent, Elems(current) \cap Clients, Queued)

Verdicts ==
    \A c \in Clients :
        /\ outcome[c] \in {"accepted", "rejected", "failed"} => Extends(current, basis[c])
        /\ outcome[c] = "accepted" <=> c \in Elems(current)

\* An intent sent before a barrier that is still unanswered is ahead of it.
Barriers ==
    /\ \A f \in Flushers : before[f] \subseteq Elems(sent)
    /\ \A f \in Elems(queue) \cap Flushers : flush[f] # "ready"
    /\ \A f \in Elems(pending) : flush[f] # "ready"
    /\ \A i \in 1..Len(queue) : \A f \in Flushers : queue[i] = f =>
        \A c \in before[f] \cap Queued :
            c \in Older \cup Younger \/ \E j \in 1..Len(queue) : j < i /\ queue[j] = c
    /\ \A f \in Elems(pending) : before[f] \cap Queued \subseteq Older \cup Younger
    /\ \A f \in Flushers : flush[f] = "ok" => before[f] \cap Queued = {}

\* What the callers' intents and barriers go through.
Flow == Epochs /\ Located /\ InOrder /\ Verdicts /\ Barriers

\* The inductive invariant.
IInv == Typed /\ Phases /\ Stored /\ Flow


-----------------------------------------------------------------------------
(* Sequences.                                                                *)

LEMMA SeqFacts ==
    ASSUME NEW S, NEW q \in Seq(S)
    PROVE  /\ Len(q) \in Nat /\ DOMAIN q = 1..Len(q)
           /\ \A i \in 1..Len(q) : q[i] \in S
           /\ Elems(q) \subseteq S /\ Range(q) = Elems(q)
<1>1. Len(q) \in Nat /\ DOMAIN q = 1..Len(q) /\ \A i \in 1..Len(q) : q[i] \in S
  BY LenProperties, ElementOfSeq
<1> QED BY <1>1 DEF Elems, Range

LEMMA NoneIn == Len(<<>>) = 0 /\ Elems(<<>>) = {} /\ Range(<<>>) = {}
<1>1. Len(<<>>) = 0 /\ DOMAIN <<>> = {}
  OBVIOUS
<1> QED BY <1>1 DEF Elems, Range

LEMMA AppendFacts ==
    ASSUME NEW S, NEW q \in Seq(S), NEW x \in S
    PROVE  /\ Append(q, x) \in Seq(S) /\ Len(q) \in Nat
           /\ Len(Append(q, x)) = Len(q) + 1
           /\ \A i \in 1..Len(q) : Append(q, x)[i] = q[i]
           /\ Append(q, x)[Len(q) + 1] = x
           /\ Elems(Append(q, x)) = Elems(q) \cup {x}
<1>1. /\ Append(q, x) \in Seq(S) /\ Len(q) \in Nat
      /\ Len(Append(q, x)) = Len(q) + 1
      /\ \A i \in 1..Len(q) : Append(q, x)[i] = q[i]
      /\ Append(q, x)[Len(q) + 1] = x
  BY AppendProperties, LenProperties
<1> QED BY <1>1 DEF Elems

LEMMA HeadTailFacts ==
    ASSUME NEW S, NEW q \in Seq(S), q # <<>>
    PROVE  /\ Len(q) \in Nat /\ Len(q) > 0
           /\ Head(q) = q[1] /\ q[1] \in S
           /\ Tail(q) \in Seq(S) /\ Len(Tail(q)) = Len(q) - 1
           /\ \A i \in 1..Len(Tail(q)) : i + 1 \in 1..Len(q) /\ Tail(q)[i] = q[i + 1]
           /\ Elems(q) = {Head(q)} \cup Elems(Tail(q))
<1>1. Len(q) \in Nat /\ Len(q) # 0
  BY EmptySeq, LenProperties
<1>2. 1 \in 1..Len(q)
  BY <1>1
<1>3. Head(q) = q[1] /\ q[1] \in S
  BY <1>2, ElementOfSeq, HeadTailProperties
<1>4. /\ Tail(q) \in Seq(S) /\ Len(Tail(q)) = Len(q) - 1
      /\ \A i \in 1..Len(Tail(q)) : i + 1 \in 1..Len(q) /\ Tail(q)[i] = q[i + 1]
  BY <1>1, HeadTailProperties
<1>5. Elems(q) \subseteq {Head(q)} \cup Elems(Tail(q))
  <2> SUFFICES ASSUME NEW i \in 1..Len(q), i # 1 PROVE q[i] \in Elems(Tail(q))
    BY <1>3 DEF Elems
  <2>1. i - 1 \in 1..Len(Tail(q)) /\ Tail(q)[i - 1] = q[i]
    BY <1>1, <1>4
  <2> QED BY <2>1 DEF Elems
<1>6. {Head(q)} \cup Elems(Tail(q)) \subseteq Elems(q)
  BY <1>2, <1>3, <1>4 DEF Elems
<1> QED BY <1>1, <1>3, <1>4, <1>5, <1>6

\* A one-element sequence is an append to the empty one.
LEMMA Singleton == \A x : <<x>> = Append(<<>>, x)
OBVIOUS

LEMMA ExtendsFacts ==
    ASSUME NEW S, NEW a \in Seq(S), NEW b \in Seq(S)
    PROVE  /\ Extends(a, a)
           /\ Extends(b, a) <=> IsPrefix(a, b)
           /\ \A c \in Seq(S) : Extends(b, a) /\ Extends(c, b) => Extends(c, a)
<1>1. Len(a) \in Nat /\ Len(b) \in Nat
  BY SeqFacts
<1>2. Extends(a, a)
  BY <1>1 DEF Extends
<1>3. \A c \in Seq(S) : Extends(b, a) /\ Extends(c, b) => Extends(c, a)
  BY <1>1, SeqFacts DEF Extends
<1>4. \A i \in 1..Len(a) : a[i] \in S
  BY SeqFacts
<1>5. ASSUME Len(a) <= Len(b)
      PROVE  (\A i \in 1..Len(a) : b[i] = a[i]) <=> SubSeq(a, 1, Len(a)) = SubSeq(b, 1, Len(a))
  <2>1. \A i \in 1..Len(a) : b[i] \in S
    BY <1>1, <1>5, SeqFacts
  <2>2. /\ SubSeq(a, 1, Len(a)) \in Seq(S) /\ Len(SubSeq(a, 1, Len(a))) = Len(a)
        /\ \A i \in 1..Len(a) : SubSeq(a, 1, Len(a))[i] = a[i]
    BY <1>1, <1>4, SubSeqProperties
  <2>3. /\ SubSeq(b, 1, Len(a)) \in Seq(S) /\ Len(SubSeq(b, 1, Len(a))) = Len(a)
        /\ \A i \in 1..Len(a) : SubSeq(b, 1, Len(a))[i] = b[i]
    BY <1>1, <2>1, SubSeqProperties
  <2>4. ASSUME \A i \in 1..Len(a) : b[i] = a[i]
        PROVE  SubSeq(a, 1, Len(a)) = SubSeq(b, 1, Len(a))
    BY <2>2, <2>3, <2>4, SeqEqual
  <2> QED BY <2>2, <2>3, <2>4
<1>6. Extends(b, a) <=> IsPrefix(a, b)
  BY <1>5 DEF Extends, IsPrefix
<1> QED BY <1>2, <1>3, <1>6

-----------------------------------------------------------------------------
(* Order.                                                                    *)

\* A longer history keeps the order, and puts its last intent behind the others.
LEMMA PrecedesGrows ==
    ASSUME NEW s \in Seq(Clients), NEW c \in Clients
    PROVE  /\ \A x, y : Precedes(s, x, y) => Precedes(Append(s, c), x, y)
           /\ \A x \in Elems(s) : Precedes(Append(s, c), x, c)
<1>1. /\ Len(s) \in Nat /\ Len(Append(s, c)) = Len(s) + 1
      /\ \A i \in 1..Len(s) : Append(s, c)[i] = s[i]
      /\ Append(s, c)[Len(s) + 1] = c
  BY AppendFacts
<1>2. ASSUME NEW x, NEW y, Precedes(s, x, y) PROVE Precedes(Append(s, c), x, y)
  <2>1. PICK k, l \in 1..Len(s) : k < l /\ s[k] = x /\ s[l] = y
    BY <1>2 DEF Precedes
  <2>2. k \in 1..Len(Append(s, c)) /\ l \in 1..Len(Append(s, c))
    BY <1>1
  <2> QED BY <1>1, <2>1, <2>2 DEF Precedes
<1>3. ASSUME NEW x \in Elems(s) PROVE Precedes(Append(s, c), x, c)
  <2>1. PICK k \in 1..Len(s) : s[k] = x
    BY DEF Elems
  <2>2. /\ k \in 1..Len(Append(s, c)) /\ Len(s) + 1 \in 1..Len(Append(s, c)) /\ k < Len(s) + 1
    BY <1>1
  <2> QED BY <1>1, <2>1, <2>2 DEF Precedes
<1> QED BY <1>2, <1>3

\* Nothing that was sent once precedes itself.
LEMMA PrecedesStrict ==
    ASSUME NEW s \in Seq(Clients), \A i, j \in 1..Len(s) : i # j => s[i] # s[j], NEW x
    PROVE  ~Precedes(s, x, x)
<1> SUFFICES ASSUME Precedes(s, x, x) PROVE FALSE
  OBVIOUS
<1>1. PICK k, l \in 1..Len(s) : k < l /\ s[k] = x /\ s[l] = x
  BY DEF Precedes
<1> QED BY <1>1

LEMMA SortedGrows ==
    ASSUME NEW s \in Seq(Clients), NEW c \in Clients, NEW q, Sorted(s, q)
    PROVE  Sorted(Append(s, c), q)
BY PrecedesGrows DEF Sorted

LEMMA SortedAppend ==
    ASSUME NEW s, NEW S, NEW q \in Seq(S), NEW x \in S, Sorted(s, q),
           x \in Clients => Ahead(s, Elems(q) \cap Clients, {x})
    PROVE  Sorted(s, Append(q, x))
<1>1. /\ Len(q) \in Nat /\ Len(Append(q, x)) = Len(q) + 1
      /\ \A i \in 1..Len(q) : Append(q, x)[i] = q[i]
      /\ Append(q, x)[Len(q) + 1] = x
  BY AppendFacts
<1> SUFFICES ASSUME NEW i \in 1..(Len(q) + 1), NEW j \in 1..(Len(q) + 1), i < j,
                    Append(q, x)[i] \in Clients, Append(q, x)[j] \in Clients
             PROVE  Precedes(s, Append(q, x)[i], Append(q, x)[j])
  BY <1>1 DEF Sorted
<1>2. i \in 1..Len(q) /\ Append(q, x)[i] = q[i]
  BY <1>1
<1>3. CASE j = Len(q) + 1
  <2>1. q[i] \in Elems(q) \cap Clients /\ Append(q, x)[j] = x
    BY <1>1, <1>2, <1>3 DEF Elems
  <2> QED BY <1>2, <2>1 DEF Ahead
<1>4. CASE j # Len(q) + 1
  <2>1. j \in 1..Len(q) /\ Append(q, x)[j] = q[j]
    BY <1>1, <1>4
  <2> QED BY <1>2, <2>1 DEF Sorted
<1> QED BY <1>3, <1>4

\* The head of a sorted queue is ahead of the rest.
LEMMA SortedTail ==
    ASSUME NEW s, NEW S, NEW q \in Seq(S), q # <<>>, Sorted(s, q)
    PROVE  /\ Sorted(s, Tail(q))
           /\ Head(q) \in Clients => Ahead(s, {Head(q)}, Elems(Tail(q)) \cap Clients)
<1>1. /\ Len(q) \in Nat /\ Len(q) > 0 /\ Head(q) = q[1]
      /\ Len(Tail(q)) = Len(q) - 1
      /\ \A i \in 1..Len(Tail(q)) : i + 1 \in 1..Len(q) /\ Tail(q)[i] = q[i + 1]
  BY HeadTailFacts
<1>2. Sorted(s, Tail(q))
  <2> SUFFICES ASSUME NEW i \in 1..Len(Tail(q)), NEW j \in 1..Len(Tail(q)), i < j,
                      Tail(q)[i] \in Clients, Tail(q)[j] \in Clients
               PROVE  Precedes(s, Tail(q)[i], Tail(q)[j])
    BY DEF Sorted
  <2>1. /\ i + 1 \in 1..Len(q) /\ j + 1 \in 1..Len(q) /\ i + 1 < j + 1
        /\ Tail(q)[i] = q[i + 1] /\ Tail(q)[j] = q[j + 1]
    BY <1>1
  <2> QED BY <2>1 DEF Sorted
<1>3. ASSUME Head(q) \in Clients, NEW y \in Elems(Tail(q)) \cap Clients
      PROVE  Precedes(s, Head(q), y)
  <2>1. PICK j \in 1..Len(Tail(q)) : Tail(q)[j] = y
    BY DEF Elems
  <2>2. /\ j + 1 \in 1..Len(q) /\ q[j + 1] = y /\ 1 \in 1..Len(q) /\ 1 < j + 1
        /\ q[1] = Head(q) /\ y \in Clients
    BY <1>1, <2>1
  <2> QED BY <1>3, <2>2 DEF Sorted
<1> QED BY <1>2, <1>3 DEF Ahead

LEMMA SortedNone == \A s : Sorted(s, <<>>) /\ Derived(s, NoEpoch) /\ NoEpoch \in EpochType
<1>1. Len(<<>>) = 0
  OBVIOUS
<1>2. NoEpoch.batch = <<>> /\ NoEpoch.base = <<>> /\ NoEpoch.tail = <<>>
  BY DEF NoEpoch
<1>3. NoEpoch \in EpochType
  BY DEF NoEpoch, EpochType
<1> QED BY <1>1, <1>2, <1>3 DEF Sorted, Derived, Extends


LEMMA FcnIsSeq ==
    ASSUME NEW S, NEW n \in Nat, NEW f \in [1..n -> S]
    PROVE  f \in Seq(S) /\ Len(f) = n
<1>1. f \in Seq(S)
  BY SeqDef
<1>2. DOMAIN f = 1..Len(f) /\ Len(f) \in Nat
  BY <1>1, LenProperties
<1>3. 1..Len(f) = 1..n
  BY <1>2
<1> QED BY <1>1, <1>2, <1>3

\* What derive_prepared_batch makes of a batch: its base, then intents of the
\* batch in the batch's order.
LEMMA DerivedFacts ==
    ASSUME NEW s, NEW batch \in Seq(Clients), NEW base \in Seq(Things), Sorted(s, batch),
           NEW e \in DerivePrepared(batch, base)
    PROVE  e \in EpochType /\ e.batch = batch /\ e.base = base /\ Derived(s, e)
<1>1. PICK places \in Accepted(batch, base) :
        e = [batch |-> batch, base |-> base,
             tail |-> base \o [k \in DOMAIN places |-> batch[places[k]]],
             panicked |-> \E k \in DOMAIN places : batch[places[k]] \in Panics]
  BY DEF DerivePrepared
<1>2. PICK n \in 0..Len(batch) : places \in [1..n -> DOMAIN batch]
  BY DEF Accepted
<1>3. /\ DOMAIN batch = 1..Len(batch) /\ Len(batch) \in Nat /\ Len(base) \in Nat /\ n \in Nat
      /\ \A i \in 1..Len(batch) : batch[i] \in Clients
  BY SeqFacts
<1>4. \A j, k \in 1..n : j < k => places[j] < places[k]
  BY <1>2 DEF Accepted
<1>5. \A k \in 1..n : places[k] \in 1..Len(batch) /\ batch[places[k]] \in Clients
  BY <1>2, <1>3
<1> DEFINE picks == [k \in 1..n |-> batch[places[k]]]
<1>6. picks \in [1..n -> Things]
  BY <1>5 DEF Things
<1>7. picks \in Seq(Things) /\ Len(picks) = n
  BY <1>3, <1>6, FcnIsSeq
<1>8. \A k \in 1..n : picks[k] = batch[places[k]]
  OBVIOUS
<1>9. picks = [k \in DOMAIN places |-> batch[places[k]]]
  BY <1>2
<1> HIDE DEF picks
<1>10. /\ base \o picks \in Seq(Things) /\ Len(base \o picks) = Len(base) + n
       /\ \A i \in 1..(Len(base) + n) :
            (base \o picks)[i] = IF i <= Len(base) THEN base[i] ELSE picks[i - Len(base)]
  <2>1. /\ base \o picks \in Seq(Things) /\ Len(base \o picks) = Len(base) + Len(picks)
        /\ \A i \in 1..(Len(base) + Len(picks)) :
             (base \o picks)[i] = IF i <= Len(base) THEN base[i] ELSE picks[i - Len(base)]
    BY <1>7, ConcatProperties, Zenon
  <2> QED BY <1>7, <2>1, Zenon
<1>11. PICK tail : tail = base \o picks
  OBVIOUS
<1>12. /\ tail \in Seq(Things) /\ Len(tail) = Len(base) + n
       /\ \A i \in 1..Len(tail) : i <= Len(base) => tail[i] = base[i]
       /\ \A i \in 1..Len(tail) : i > Len(base) =>
             i - Len(base) \in 1..n /\ tail[i] = batch[places[i - Len(base)]]
  BY <1>3, <1>8, <1>10, <1>11
<1>13. e.batch = batch /\ e.base = base /\ e.tail = tail
  BY <1>1, <1>9, <1>11
<1>14. e \in EpochType
  <2>1. (\E k \in DOMAIN places : batch[places[k]] \in Panics) \in BOOLEAN
    OBVIOUS
  <2>2. PICK b \in BOOLEAN : b = (\E k \in DOMAIN places : batch[places[k]] \in Panics)
    BY <2>1
  <2>3. e = [batch |-> batch, base |-> base, tail |-> tail, panicked |-> b]
    BY <1>1, <1>9, <1>11, <2>2
  <2> QED BY <1>12, <2>3 DEF EpochType
<1>15. Extends(tail, base)
  BY <1>3, <1>12 DEF Extends
<1>16. \A i \in 1..Len(tail) : i > Len(base) => tail[i] \in Elems(batch)
  BY <1>5, <1>12 DEF Elems
<1>17. ASSUME NEW i \in 1..Len(tail), NEW j \in 1..Len(tail), Len(base) < i, i < j
       PROVE  Precedes(s, tail[i], tail[j])
  <2>1. /\ i - Len(base) \in 1..n /\ tail[i] = batch[places[i - Len(base)]]
        /\ j - Len(base) \in 1..n /\ tail[j] = batch[places[j - Len(base)]]
        /\ i - Len(base) < j - Len(base)
    BY <1>3, <1>12, <1>17
  <2>2. PICK x, y \in 1..n : x = i - Len(base) /\ y = j - Len(base)
    BY <2>1
  <2>3. /\ places[x] < places[y] /\ places[x] \in 1..Len(batch) /\ places[y] \in 1..Len(batch)
        /\ batch[places[x]] \in Clients /\ batch[places[y]] \in Clients
    BY <1>4, <1>5, <2>1, <2>2
  <2>4. Precedes(s, batch[places[x]], batch[places[y]])
    BY <2>3 DEF Sorted
  <2> QED BY <2>1, <2>2, <2>4
<1>18. Derived(s, e)
  BY <1>13, <1>15, <1>16, <1>17 DEF Derived
<1> QED BY <1>13, <1>14, <1>18

LEMMA DerivedGrows ==
    ASSUME NEW s \in Seq(Clients), NEW c \in Clients, NEW e, Derived(s, e)
    PROVE  Derived(Append(s, c), e)
BY PrecedesGrows DEF Derived

LEMMA EpochFields ==
    ASSUME NEW e \in EpochType
    PROVE  /\ e.batch \in Seq(Clients) /\ e.base \in Seq(Things) /\ e.tail \in Seq(Things)
           /\ e.panicked \in BOOLEAN
BY DEF EpochType

LEMMA NoEpochFields ==
    /\ NoEpoch.batch = <<>> /\ NoEpoch.base = <<>> /\ NoEpoch.tail = <<>>
    /\ Elems(NoEpoch.batch) = {} /\ NoIo.at = "idle"
BY NoneIn DEF NoEpoch, NoIo

-----------------------------------------------------------------------------

LEMMA IInvInit == ASSUME Init PROVE IInv
<1>1. /\ state = "Running" /\ queue = <<>> /\ pending = <<>>
      /\ worker = "recv" /\ claimed = <<>> /\ purpose = "first"
      /\ prepared = NoEpoch /\ successor = NoEpoch /\ io = NoIo
      /\ store = "Healthy" /\ file = <<>> /\ current = <<>>
      /\ outcome = [c \in Clients |-> "none"]
      /\ basis = [c \in Clients |-> <<>>]
      /\ flush = [f \in Flushers |-> "ready"]
      /\ before = [f \in Flushers |-> {}]
      /\ sent = <<>>
  BY DEF Init
<1>2. Typed
  <2>1. queue \in Seq(Clients \cup Flushers)
    BY <1>1, EmptySeq
  <2>2. pending \in Seq(Flushers)
    BY <1>1, EmptySeq
  <2>3. claimed \in Seq(Clients) /\ sent \in Seq(Clients)
    BY <1>1, EmptySeq
  <2>4. <<>> \in Seq(Things)
    BY EmptySeq
  <2>5. file \in Seq(Things) /\ current \in Seq(Things) /\ basis \in [Clients -> Seq(Things)]
    BY <1>1, <2>4
  <2>6. /\ outcome \in [Clients -> {"none", "queued"} \cup Answers]
        /\ flush \in [Flushers -> {"ready", "waiting", "ok", "stopped"}]
        /\ before \in [Flushers -> SUBSET Clients]
    BY <1>1
  <2> QED BY <1>1, <2>1, <2>2, <2>3, <2>5, <2>6, SortedNone DEF Typed
<1>3. Phases
  BY <1>1 DEF Phases
<1>4. Stored
  <2>1. Extends(file, current)
    BY <1>1, NoneIn DEF Extends
  <2> QED BY <1>1, <2>1, NoEpochFields DEF Stored
<1>5. Epochs
  BY <1>1, SortedNone DEF Epochs
<1>6. /\ Older = {} /\ Younger = {} /\ Waiting = {} /\ Queued = {}
      /\ Elems(current) = {} /\ Elems(sent) = {} /\ Elems(pending) = {} /\ Elems(queue) = {}
      /\ Len(sent) = 0 /\ Len(queue) = 0
  BY <1>1, NoneIn, NoEpochFields DEF Older, Younger, Waiting, Queued
<1>7. Located
  BY <1>1, <1>6 DEF Located
<1>8. InOrder
  <2>1. /\ Sorted(sent, queue) /\ Sorted(sent, claimed) /\ Sorted(sent, current)
        /\ Sorted(sent, prepared.batch) /\ Sorted(sent, successor.batch)
    BY <1>1, SortedNone, NoEpochFields
  <2> QED BY <1>6, <2>1 DEF InOrder, Ahead
<1>9. Verdicts
  BY <1>1, <1>6 DEF Verdicts
<1>10. Barriers
  BY <1>1, <1>6 DEF Barriers
<1> QED BY <1>2, <1>3, <1>4, <1>5, <1>7, <1>8, <1>9, <1>10 DEF IInv, Flow


-----------------------------------------------------------------------------
(* Steps that move no intent and no barrier.                                 *)

LEMMA FlowAside ==
    ASSUME IInv, UNCHANGED <<queue, pending, claimed, prepared, successor, current, outcome,
                             basis, flush, before, sent>>
    PROVE  Flow'
<1>1. Epochs' /\ Verdicts'
  BY DEF IInv, Flow, Epochs, Verdicts
<1>2. UNCHANGED <<Older, Younger, Waiting, Queued>>
  BY DEF Older, Younger, Waiting, Queued
<1>3. Located' /\ InOrder'
  BY <1>2 DEF IInv, Flow, Located, InOrder
<1>4. Barriers'
  BY <1>2 DEF IInv, Flow, Barriers
<1> QED BY <1>1, <1>3, <1>4 DEF Flow

LEMMA Unchanged ==
    ASSUME IInv, UNCHANGED <<queue, pending, worker, claimed, purpose, prepared, successor, io,
                             store, file, current, outcome, basis, flush, before, sent>>
    PROVE  IInv'
<1>1. Typed'
  BY DEF IInv, Typed
<1>2. Phases' /\ Stored'
  BY DEF IInv, Phases, InFlight, Stored, ValidateCompletions
<1>3. Flow'
  BY FlowAside
<1> QED BY <1>1, <1>2, <1>3 DEF IInv

LEMMA ShutdownStep == ASSUME IInv, Shutdown PROVE IInv'
BY Unchanged DEF Shutdown, workVars, worldVars, callVars, historyVars

LEMMA ClaimEndsStep == ASSUME IInv, ClaimEnds PROVE IInv'
<1>1. /\ worker = "claim" /\ worker' = "derive"
      /\ UNCHANGED <<queue, pending, claimed, purpose, prepared, successor, io,
                     store, file, current, outcome, basis, flush, before, sent>>
  BY DEF ClaimEnds, workVars, worldVars, callVars, historyVars
<1>2. Typed'
  BY <1>1 DEF IInv, Typed
<1>3. Phases' /\ Stored'
  BY <1>1 DEF IInv, Phases, InFlight, Stored, ValidateCompletions
<1>4. Flow'
  BY <1>1, FlowAside
<1> QED BY <1>2, <1>3, <1>4 DEF IInv

LEMMA NothingFollowsStep == ASSUME IInv, NothingFollows PROVE IInv'
<1>1. /\ worker = "derive" /\ purpose = "next" /\ claimed = <<>> /\ worker' = "recv"
      /\ UNCHANGED <<queue, pending, claimed, purpose, prepared, successor, io,
                     store, file, current, outcome, basis, flush, before, sent>>
  BY DEF NothingFollows, workVars, worldVars, callVars, historyVars
<1>2. Typed'
  BY <1>1 DEF IInv, Typed
<1>3. Phases' /\ Stored'
  BY <1>1 DEF IInv, Phases, InFlight, Stored, ValidateCompletions
<1>4. Flow'
  BY <1>1, FlowAside
<1> QED BY <1>2, <1>3, <1>4 DEF IInv

LEMMA SubmitEpochStep == ASSUME IInv, SubmitEpoch PROVE IInv'
<1>1. /\ worker = "top" /\ store = "Healthy" /\ prepared.base = current
      /\ io' = [at |-> "submitted", cqes |-> <<>>]
      /\ purpose' = "successor" /\ worker' = "claim"
      /\ UNCHANGED <<queue, pending, claimed, prepared, successor,
                     store, file, current, outcome, basis, flush, before, sent>>
  BY DEF SubmitEpoch, Prepared, worldVars, callVars, historyVars
<1>2. io'.at = "submitted"
  BY <1>1
<1>3. Typed'
  BY <1>1 DEF IInv, Typed
<1>4. successor = NoEpoch /\ io.at = "idle"
  BY <1>1, NoEpochFields DEF IInv, Phases
<1>5. Phases'
  BY <1>1, <1>2, <1>4 DEF Phases, InFlight
<1>6. Stored'
  BY <1>1, <1>2, <1>4 DEF IInv, Stored
<1>7. Flow'
  BY <1>1, FlowAside
<1> QED BY <1>3, <1>5, <1>6, <1>7 DEF IInv

\* A completion batch that validates reports a whole write that was synced.
LEMMA KernelCompletesStep == ASSUME IInv, KernelCompletes PROVE IInv'
<1>1. /\ io.at = "submitted"
      /\ UNCHANGED <<queue, pending, worker, claimed, purpose, prepared, successor,
                     store, current, outcome, basis, flush, before, sent>>
  BY DEF KernelCompletes, callVars, historyVars
<1>2. PICK write \in {Length, Length - 1, IoError}, sync \in {0, IoError} :
        LET fsync == IF write = Length THEN sync ELSE Canceled
        IN  /\ io' = [at |-> "done", cqes |-> <<[of |-> "write", result |-> write],
                                               [of |-> "fsync", result |-> fsync]>>]
            /\ file' \in IF write # Length THEN {file}
                         ELSE IF fsync = 0 THEN {prepared.tail}
                         ELSE {file, prepared.tail}
  BY DEF KernelCompletes
<1>3. PICK fsync : fsync = IF write = Length THEN sync ELSE Canceled
  OBVIOUS
<1>4. PICK cqes : cqes = <<[of |-> "write", result |-> write], [of |-> "fsync", result |-> fsync]>>
  OBVIOUS
<1>5. /\ io' = [at |-> "done", cqes |-> cqes]
      /\ file' = file \/ file' = prepared.tail
      /\ write = Length /\ fsync = 0 => file' = prepared.tail
  BY <1>2, <1>3, <1>4
<1>6. io'.at = "done" /\ io'.cqes = cqes
  BY <1>5
<1>7. ValidateCompletions(cqes) => write = Length /\ fsync = 0
  <2>1. /\ 1 \in DOMAIN cqes /\ 2 \in DOMAIN cqes
        /\ cqes[1].of = "write" /\ cqes[1].result = write
        /\ cqes[2].of = "fsync" /\ cqes[2].result = fsync
    BY <1>4
  <2> QED BY <2>1 DEF ValidateCompletions
<1>8. InFlight /\ worker \in {"claim", "derive", "wait"} /\ (worker # "wait" => purpose = "successor")
  <2>1. worker \in {"recv", "claim", "derive", "top", "wait", "persisted", "repaired", "done"}
    BY DEF IInv, Typed
  <2>2. io # NoIo
    BY <1>1, NoEpochFields
  <2> QED BY <2>1, <2>2 DEF IInv, Phases
<1>9. /\ prepared.tail \in Seq(Things) /\ current \in Seq(Things)
      /\ Extends(prepared.tail, current) /\ file = current
  <2>1. prepared.tail \in Seq(Things) /\ current \in Seq(Things)
    BY EpochFields DEF IInv, Typed
  <2>2. Extends(prepared.tail, prepared.base)
    BY DEF IInv, Flow, Epochs, Derived
  <2>3. prepared.base = current /\ store = "Healthy"
    BY <1>8 DEF InFlight
  <2> QED BY <1>1, <2>1, <2>2, <2>3 DEF IInv, Stored
<1>10. Typed'
  BY <1>1, <1>5, <1>9 DEF IInv, Typed
<1>11. Phases'
  BY <1>1, <1>6, <1>8 DEF IInv, Phases, InFlight
<1>12. Stored'
  <2>1. Extends(file', current)
    BY <1>5, <1>9, ExtendsFacts
  <2> QED BY <1>1, <1>5, <1>6, <1>7, <1>9, <2>1 DEF Stored
<1>13. Flow'
  BY <1>1, FlowAside
<1> QED BY <1>10, <1>11, <1>12, <1>13 DEF IInv


-----------------------------------------------------------------------------
(* Callers.                                                                  *)

LEMMA Kinds ==
    ASSUME IInv
    PROVE  /\ queue \in Seq(Clients \cup Flushers) /\ pending \in Seq(Flushers)
           /\ claimed \in Seq(Clients) /\ sent \in Seq(Clients)
           /\ prepared \in EpochType /\ successor \in EpochType
           /\ prepared.batch \in Seq(Clients) /\ successor.batch \in Seq(Clients)
           /\ prepared.base \in Seq(Things) /\ prepared.tail \in Seq(Things)
           /\ current \in Seq(Things) /\ file \in Seq(Things)
           /\ Len(queue) \in Nat /\ Len(sent) \in Nat /\ Len(current) \in Nat
           /\ Clients \cap Flushers = {} /\ Foreign \cap Clients = {}
<1>1. /\ queue \in Seq(Clients \cup Flushers) /\ pending \in Seq(Flushers)
      /\ claimed \in Seq(Clients) /\ sent \in Seq(Clients)
      /\ prepared \in EpochType /\ successor \in EpochType
      /\ current \in Seq(Things) /\ file \in Seq(Things)
  BY DEF IInv, Typed
<1>2. /\ prepared.batch \in Seq(Clients) /\ successor.batch \in Seq(Clients)
      /\ prepared.base \in Seq(Things) /\ prepared.tail \in Seq(Things)
  BY <1>1, EpochFields
<1>3. Len(queue) \in Nat /\ Len(sent) \in Nat /\ Len(current) \in Nat
  BY <1>1, SeqFacts
<1> QED BY <1>1, <1>2, <1>3, PipelineAssumption

LEMMA SubmitStep == ASSUME IInv, NEW c \in Clients, Submit(c) PROVE IInv'
<1>1. /\ outcome[c] = "none" /\ queue' = Append(queue, c) /\ sent' = Append(sent, c)
      /\ outcome' = [outcome EXCEPT ![c] = "queued"]
      /\ UNCHANGED <<pending, worker, claimed, purpose, prepared, successor, io,
                     store, file, current, basis, flush, before>>
  BY DEF Submit, workVars, worldVars
<1>2. /\ queue \in Seq(Clients \cup Flushers) /\ sent \in Seq(Clients)
      /\ Clients \cap Flushers = {} /\ Len(queue) \in Nat /\ Len(sent) \in Nat
  BY Kinds
<1>3. /\ queue' \in Seq(Clients \cup Flushers) /\ Len(queue') = Len(queue) + 1
      /\ \A i \in 1..Len(queue) : queue'[i] = queue[i]
      /\ queue'[Len(queue) + 1] = c
      /\ Elems(queue') = Elems(queue) \cup {c}
  BY <1>1, <1>2, AppendFacts
<1>4. /\ sent' \in Seq(Clients) /\ Len(sent') = Len(sent) + 1
      /\ \A i \in 1..Len(sent) : sent'[i] = sent[i]
      /\ sent'[Len(sent) + 1] = c
      /\ Elems(sent') = Elems(sent) \cup {c}
  BY <1>1, <1>2, AppendFacts
<1>5. /\ outcome' \in [Clients -> {"none", "queued"} \cup Answers]
      /\ outcome'[c] = "queued" /\ \A d \in Clients : d # c => outcome'[d] = outcome[d]
  BY <1>1 DEF IInv, Typed
<1>6. Typed'
  BY <1>1, <1>3, <1>4, <1>5 DEF IInv, Typed
<1>7. Phases' /\ Stored'
  BY <1>1 DEF IInv, Phases, InFlight, Stored, ValidateCompletions
<1>8. Epochs'
  BY <1>1, <1>2, DerivedGrows DEF IInv, Flow, Epochs
<1>9. /\ c \notin Elems(sent) /\ Queued \subseteq Elems(sent)
      /\ Queued' = Queued \cup {c} /\ Waiting' = Waiting \cup {c}
      /\ Older' = Older /\ Younger' = Younger
      /\ Queued = Older \cup Younger \cup Waiting
      /\ Elems(sent) = {d \in Clients : outcome[d] # "none"}
  <2>1. Elems(sent) = {d \in Clients : outcome[d] # "none"}
    BY DEF IInv, Flow, Located
  <2>2. Queued' = Queued \cup {c}
    BY <1>5 DEF Queued
  <2> QED BY <1>1, <1>3, <2>1, <2>2 DEF IInv, Flow, Located, Queued, Waiting, Older, Younger
<1>10. Elems(current) \cap Clients \subseteq Elems(sent)
  BY <1>9 DEF IInv, Flow, Verdicts
<1>11. Located'
  <2>1. \A i, j \in 1..Len(sent') : i # j => sent'[i] # sent'[j]
    <3>1. \A i, j \in 1..Len(sent) : i # j => sent[i] # sent[j]
      BY DEF IInv, Flow, Located
    <3>2. \A i \in 1..Len(sent) : sent[i] # c
      BY <1>9 DEF Elems
    <3> QED BY <1>2, <1>4, <3>1, <3>2
  <2>2. Elems(sent') = {d \in Clients : outcome'[d] # "none"}
    BY <1>4, <1>5, <1>9
  <2> QED BY <1>9, <2>1, <2>2 DEF Located
<1>12. InOrder'
  <2>1. /\ Sorted(sent, queue) /\ Sorted(sent, claimed) /\ Sorted(sent, current)
        /\ Sorted(sent, prepared.batch) /\ Sorted(sent, successor.batch)
    BY DEF IInv, Flow, InOrder
  <2>2. /\ Sorted(sent', queue) /\ Sorted(sent', claimed) /\ Sorted(sent', current)
        /\ Sorted(sent', prepared.batch) /\ Sorted(sent', successor.batch)
    BY <1>1, <1>2, <2>1, SortedGrows
  <2>3. /\ \A x, y : Precedes(sent, x, y) => Precedes(sent', x, y)
        /\ \A x \in Elems(sent) : Precedes(sent', x, c)
    BY <1>1, <1>2, PrecedesGrows
  <2>4. Ahead(sent', Elems(queue) \cap Clients, {c})
    BY <1>9, <2>3 DEF Ahead, Waiting
  <2>5. Sorted(sent', queue')
    BY <1>1, <1>2, <2>2, <2>4, SortedAppend
  <2>6. Ahead(sent', Older, Younger)
    BY <2>3 DEF IInv, Flow, InOrder, Ahead
  <2>7. Ahead(sent', Older \cup Younger, Waiting')
    BY <1>9, <2>3 DEF IInv, Flow, InOrder, Ahead
  <2>8. Ahead(sent', Elems(current) \cap Clients, Queued')
    BY <1>9, <1>10, <2>3 DEF IInv, Flow, InOrder, Ahead
  <2> QED BY <1>1, <1>9, <2>2, <2>5, <2>6, <2>7, <2>8 DEF InOrder
<1>13. Verdicts'
  <2> SUFFICES ASSUME NEW d \in Clients
               PROVE  /\ outcome'[d] \in {"accepted", "rejected", "failed"}
                            => Extends(current', basis'[d])
                      /\ outcome'[d] = "accepted" <=> d \in Elems(current')
    BY DEF Verdicts
  <2> QED BY <1>1, <1>5 DEF IInv, Flow, Verdicts
<1>14. Barriers'
  <2>1. /\ \A f \in Flushers : before[f] \subseteq Elems(sent)
        /\ \A f \in Flushers : before[f] \cap Queued' = before[f] \cap Queued
    BY <1>9 DEF IInv, Flow, Barriers
  <2>2. ASSUME NEW i \in 1..Len(queue'), NEW f \in Flushers, queue'[i] = f,
               NEW d \in before'[f] \cap Queued'
        PROVE  d \in Older' \cup Younger' \/ \E j \in 1..Len(queue') : j < i /\ queue'[j] = d
    <3>1. i \in 1..Len(queue) /\ queue[i] = f
      BY <1>2, <1>3, <2>2
    <3>2. d \in before[f] \cap Queued
      BY <1>1, <2>1
    <3>3. d \in Older \cup Younger \/ \E j \in 1..Len(queue) : j < i /\ queue[j] = d
      BY <3>1, <3>2 DEF IInv, Flow, Barriers
    <3> QED BY <1>2, <1>3, <1>9, <3>3
  <2>3. \A f \in Flushers : before'[f] \subseteq Elems(sent')
    BY <1>1, <1>4, <2>1
  <2>4. /\ \A f \in Elems(queue') \cap Flushers : flush'[f] # "ready"
        /\ \A f \in Elems(pending') : flush'[f] # "ready"
    BY <1>1, <1>2, <1>3 DEF IInv, Flow, Barriers
  <2>5. /\ \A f \in Elems(pending') : before'[f] \cap Queued' \subseteq Older' \cup Younger'
        /\ \A f \in Flushers : flush'[f] = "ok" => before'[f] \cap Queued' = {}
    <3>1. Elems(pending) \subseteq Flushers
      BY Kinds, SeqFacts
    <3> QED BY <1>1, <1>9, <2>1, <3>1 DEF IInv, Flow, Barriers
  <2> QED BY <2>2, <2>3, <2>4, <2>5 DEF Barriers
<1> QED BY <1>6, <1>7, <1>8, <1>11, <1>12, <1>13, <1>14 DEF IInv, Flow

LEMMA FlushStep == ASSUME IInv, NEW f \in Flushers, Flush(f) PROVE IInv'
<1>1. /\ flush[f] = "ready" /\ queue' = Append(queue, f)
      /\ flush' = [flush EXCEPT ![f] = "waiting"]
      /\ before' = [before EXCEPT ![f] = Range(sent)]
      /\ UNCHANGED <<pending, worker, claimed, purpose, prepared, successor, io,
                     store, file, current, outcome, basis, sent>>
  BY DEF Flush, workVars, worldVars
<1>2. /\ queue \in Seq(Clients \cup Flushers) /\ sent \in Seq(Clients)
      /\ Clients \cap Flushers = {} /\ Len(queue) \in Nat
      /\ Range(sent) = Elems(sent) /\ Elems(sent) \subseteq Clients
  BY Kinds, SeqFacts
<1>3. /\ queue' \in Seq(Clients \cup Flushers) /\ Len(queue') = Len(queue) + 1
      /\ \A i \in 1..Len(queue) : queue'[i] = queue[i]
      /\ queue'[Len(queue) + 1] = f
      /\ Elems(queue') = Elems(queue) \cup {f}
  BY <1>1, <1>2, AppendFacts
<1>4. /\ flush' \in [Flushers -> {"ready", "waiting", "ok", "stopped"}]
      /\ flush'[f] = "waiting" /\ \A g \in Flushers : g # f => flush'[g] = flush[g]
      /\ before' \in [Flushers -> SUBSET Clients]
      /\ before'[f] = Elems(sent) /\ \A g \in Flushers : g # f => before'[g] = before[g]
  BY <1>1, <1>2 DEF IInv, Typed
<1>5. Typed'
  BY <1>1, <1>3, <1>4 DEF IInv, Typed
<1>6. Phases' /\ Stored'
  BY <1>1 DEF IInv, Phases, InFlight, Stored, ValidateCompletions
<1>7. UNCHANGED <<Older, Younger, Waiting, Queued>>
  <2>1. Waiting' = Waiting
    BY <1>2, <1>3 DEF Waiting
  <2> QED BY <1>1, <2>1 DEF Older, Younger, Queued
<1>8. Epochs' /\ Verdicts' /\ Located'
  BY <1>1, <1>7 DEF IInv, Flow, Epochs, Verdicts, Located
<1>9. InOrder'
  <2>1. Sorted(sent, queue')
    BY <1>1, <1>2, SortedAppend DEF IInv, Flow, InOrder
  <2> QED BY <1>1, <1>7, <2>1 DEF IInv, Flow, InOrder
<1>10. Barriers'
  <2>1. f \notin Elems(queue) /\ f \notin Elems(pending) /\ Elems(pending) \subseteq Flushers
    BY <1>1, Kinds, SeqFacts DEF IInv, Flow, Barriers
  <2>2. ASSUME NEW i \in 1..Len(queue'), NEW g \in Flushers, queue'[i] = g,
               NEW d \in before'[g] \cap Queued'
        PROVE  d \in Older' \cup Younger' \/ \E j \in 1..Len(queue') : j < i /\ queue'[j] = d
    <3>1. CASE i = Len(queue) + 1
      <4>1. d \in Older \cup Younger \cup Waiting
        BY <1>7 DEF IInv, Flow, Located
      <4>2. ASSUME d \in Waiting PROVE \E j \in 1..Len(queue') : j < i /\ queue'[j] = d
        <5>1. PICK j \in 1..Len(queue) : queue[j] = d
          BY <4>2 DEF Waiting, Elems
        <5>2. j \in 1..Len(queue') /\ j < i /\ queue'[j] = d
          BY <1>2, <1>3, <3>1, <5>1
        <5> QED BY <5>2
      <4> QED BY <1>7, <4>1, <4>2
    <3>2. CASE i # Len(queue) + 1
      <4>1. i \in 1..Len(queue) /\ queue[i] = g
        BY <1>2, <1>3, <2>2, <3>2
      <4>2. g # f
        BY <2>1, <4>1 DEF Elems
      <4>3. d \in before[g] \cap Queued
        BY <1>4, <1>7, <4>2
      <4>4. d \in Older \cup Younger \/ \E j \in 1..Len(queue) : j < i /\ queue[j] = d
        BY <4>1, <4>3 DEF IInv, Flow, Barriers
      <4> QED BY <1>2, <1>3, <1>7, <4>4
    <3> QED BY <3>1, <3>2
  <2>3. \A g \in Flushers : before'[g] \subseteq Elems(sent')
    BY <1>1, <1>4 DEF IInv, Flow, Barriers
  <2>4. /\ \A g \in Elems(queue') \cap Flushers : flush'[g] # "ready"
        /\ \A g \in Elems(pending') : flush'[g] # "ready"
    BY <1>1, <1>3, <1>4, <2>1 DEF IInv, Flow, Barriers
  <2>5. /\ \A g \in Elems(pending') : before'[g] \cap Queued' \subseteq Older' \cup Younger'
        /\ \A g \in Flushers : flush'[g] = "ok" => before'[g] \cap Queued' = {}
    BY <1>1, <1>4, <1>7, <2>1 DEF IInv, Flow, Barriers
  <2> QED BY <2>2, <2>3, <2>4, <2>5 DEF Barriers
<1> QED BY <1>5, <1>6, <1>8, <1>9, <1>10 DEF IInv, Flow

\* Another writer commits only while the committer holds no epoch.
LEMMA StrictCommitStep == ASSUME IInv, NEW w \in Foreign, StrictCommit(w) PROVE IInv'
<1>1. /\ worker \in {"recv", "claim", "done"} /\ (worker = "claim" => purpose = "first")
      /\ store = "Healthy" /\ file' = Append(file, w) /\ current' = Append(current, w)
      /\ UNCHANGED <<queue, pending, worker, claimed, purpose, prepared, successor, io,
                     store, outcome, basis, flush, before, sent>>
  BY DEF StrictCommit, workVars, callVars, historyVars
<1>2. current \in Seq(Things) /\ w \in Things /\ w \notin Clients /\ Len(current) \in Nat
  BY Kinds DEF Things
<1>3. io = NoIo /\ prepared = NoEpoch /\ successor = NoEpoch
  BY <1>1 DEF IInv, Phases
<1>4. file = current /\ file' = current'
  BY <1>1, <1>3, NoEpochFields DEF IInv, Stored
<1>5. /\ current' \in Seq(Things) /\ Len(current') = Len(current) + 1
      /\ \A i \in 1..Len(current) : current'[i] = current[i]
      /\ Elems(current') = Elems(current) \cup {w}
  BY <1>1, <1>2, AppendFacts
<1>6. Extends(current', current)
  BY <1>2, <1>5 DEF Extends
<1>7. Typed'
  BY <1>1, <1>4, <1>5 DEF IInv, Typed
<1>8. Phases'
  BY <1>1, <1>3 DEF IInv, Phases
<1>9. Stored'
  BY <1>1, <1>3, <1>4, <1>5, ExtendsFacts, NoEpochFields DEF Stored
<1>10. UNCHANGED <<Older, Younger, Waiting, Queued>>
  BY <1>1 DEF Older, Younger, Waiting, Queued
<1>11. Epochs' /\ Located' /\ Barriers'
  BY <1>1, <1>10 DEF IInv, Flow, Epochs, Located, Barriers
<1>12. InOrder'
  <2>1. Sorted(sent, current')
    BY <1>1, <1>2, SortedAppend DEF IInv, Flow, InOrder
  <2>2. Elems(current') \cap Clients = Elems(current) \cap Clients
    BY <1>2, <1>5
  <2> QED BY <1>1, <1>10, <2>1, <2>2 DEF IInv, Flow, InOrder
<1>13. Verdicts'
  <2> SUFFICES ASSUME NEW d \in Clients
               PROVE  /\ outcome'[d] \in {"accepted", "rejected", "failed"}
                            => Extends(current', basis'[d])
                      /\ outcome'[d] = "accepted" <=> d \in Elems(current')
    BY DEF Verdicts
  <2>1. basis[d] \in Seq(Things)
    BY DEF IInv, Typed
  <2>2. Extends(current, basis[d]) => Extends(current', basis[d])
    BY <1>2, <1>5, <1>6, <2>1, ExtendsFacts
  <2> QED BY <1>1, <1>2, <1>5, <2>2 DEF IInv, Flow, Verdicts
<1> QED BY <1>7, <1>8, <1>9, <1>11, <1>12, <1>13 DEF IInv, Flow


-----------------------------------------------------------------------------
(* The committer takes commands.                                             *)

\* What is behind the head of the queue stays behind what was ahead of it.
LEMMA QueuePopped ==
    ASSUME IInv, queue # <<>>, queue' = Tail(queue), UNCHANGED <<before, outcome, sent>>,
           Older' \cup Younger' = Older \cup Younger \cup ({Head(queue)} \cap Clients)
    PROVE  /\ queue' \in Seq(Clients \cup Flushers) /\ Sorted(sent, queue')
           /\ Elems(queue) = {Head(queue)} \cup Elems(queue')
           /\ \A i \in 1..Len(queue') : \A f \in Flushers : queue'[i] = f =>
                 \A c \in before'[f] \cap Queued' :
                     c \in Older' \cup Younger'
                        \/ \E j \in 1..Len(queue') : j < i /\ queue'[j] = c
<1>1. queue \in Seq(Clients \cup Flushers) /\ Clients \cap Flushers = {}
  BY Kinds
<1>2. /\ Len(queue) \in Nat /\ Len(queue) > 0 /\ Head(queue) = queue[1]
      /\ queue' \in Seq(Clients \cup Flushers) /\ Len(queue') = Len(queue) - 1
      /\ \A i \in 1..Len(queue') : i + 1 \in 1..Len(queue) /\ queue'[i] = queue[i + 1]
      /\ Elems(queue) = {Head(queue)} \cup Elems(queue')
  BY <1>1, HeadTailFacts
<1>3. Sorted(sent, queue')
  BY <1>1, SortedTail DEF IInv, Flow, InOrder
<1>4. Queued' = Queued
  BY DEF Queued
<1>5. ASSUME NEW i \in 1..Len(queue'), NEW f \in Flushers, queue'[i] = f,
             NEW c \in before'[f] \cap Queued'
      PROVE  c \in Older' \cup Younger' \/ \E j \in 1..Len(queue') : j < i /\ queue'[j] = c
  <2>1. i + 1 \in 1..Len(queue) /\ queue[i + 1] = f /\ c \in before[f] \cap Queued /\ c \in Clients
    BY <1>2, <1>4, <1>5 DEF Queued
  <2>2. c \in Older \cup Younger \/ \E j \in 1..Len(queue) : j < i + 1 /\ queue[j] = c
    BY <2>1 DEF IInv, Flow, Barriers
  <2>3. ASSUME NEW j \in 1..Len(queue), j < i + 1, queue[j] = c
        PROVE  c \in Older' \cup Younger' \/ \E k \in 1..Len(queue') : k < i /\ queue'[k] = c
    <3>1. CASE j = 1
      BY <1>2, <2>1, <2>3, <3>1
    <3>2. CASE j # 1
      <4>1. j - 1 \in 1..Len(queue') /\ j - 1 < i
        BY <1>2, <2>3, <3>2
      <4>2. queue'[j - 1] = queue[(j - 1) + 1]
        BY <1>2, <4>1
      <4>3. (j - 1) + 1 = j
        OBVIOUS
      <4> QED BY <2>3, <4>1, <4>2, <4>3
    <3> QED BY <3>1, <3>2
  <2> QED BY <2>2, <2>3
<1> QED BY <1>2, <1>3, <1>5

LEMMA ReceiveBarrierStep == ASSUME IInv, ReceiveBarrier PROVE IInv'
<1>1. PICK f \in Flushers :
        /\ \/ pending # <<>> /\ f = Head(pending) /\ pending' = Tail(pending) /\ queue' = queue
           \/ queue # <<>> /\ f = Head(queue) /\ queue' = Tail(queue) /\ pending' = pending
        /\ flush' = [flush EXCEPT ![f] = "ok"]
  BY DEF ReceiveBarrier
<1>2. /\ worker = "recv"
      /\ UNCHANGED <<worker, claimed, purpose, prepared, successor, io,
                     store, file, current, outcome, basis, before, sent>>
  BY DEF ReceiveBarrier, workVars, worldVars, historyVars
<1>3. /\ flush' \in [Flushers -> {"ready", "waiting", "ok", "stopped"}]
      /\ flush'[f] = "ok" /\ \A g \in Flushers : g # f => flush'[g] = flush[g]
  BY <1>1 DEF IInv, Typed
<1>4. Older = {} /\ Younger = {} /\ UNCHANGED <<Older, Younger, Queued>>
  <2>1. claimed = <<>> /\ prepared = NoEpoch /\ successor = NoEpoch
    BY <1>2 DEF IInv, Phases
  <2> QED BY <1>2, <2>1, NoneIn, NoEpochFields DEF Older, Younger, Queued
<1>5. /\ queue \in Seq(Clients \cup Flushers) /\ pending \in Seq(Flushers)
      /\ Clients \cap Flushers = {} /\ Elems(pending) \subseteq Flushers
  BY Kinds, SeqFacts
<1>6. /\ queue' \in Seq(Clients \cup Flushers) /\ pending' \in Seq(Flushers)
      /\ Sorted(sent, queue') /\ Waiting' = Waiting
      /\ Elems(queue') \subseteq Elems(queue) /\ Elems(pending') \subseteq Elems(pending)
      /\ before[f] \cap Queued = {}
      /\ \A i \in 1..Len(queue') : \A g \in Flushers : queue'[i] = g =>
            \A c \in before'[g] \cap Queued' :
                c \in Older' \cup Younger' \/ \E j \in 1..Len(queue') : j < i /\ queue'[j] = c
  <2>1. CASE pending # <<>> /\ f = Head(pending) /\ pending' = Tail(pending) /\ queue' = queue
    <3>1. pending' \in Seq(Flushers) /\ Elems(pending) = {f} \cup Elems(pending')
      BY <1>5, <2>1, HeadTailFacts
    <3>2. before[f] \cap Queued = {}
      BY <1>4, <3>1 DEF IInv, Flow, Barriers
    <3>3. Sorted(sent, queue) /\ Waiting' = Waiting
      BY <2>1 DEF IInv, Flow, InOrder, Waiting
    <3>4. \A i \in 1..Len(queue) : \A g \in Flushers : queue[i] = g =>
            \A c \in before'[g] \cap Queued' :
                c \in Older' \cup Younger' \/ \E j \in 1..Len(queue) : j < i /\ queue[j] = c
      BY <1>2, <1>4 DEF IInv, Flow, Barriers
    <3> QED BY <1>5, <2>1, <3>1, <3>2, <3>3, <3>4
  <2>2. CASE queue # <<>> /\ f = Head(queue) /\ queue' = Tail(queue) /\ pending' = pending
    <3>1. f \notin Clients
      BY <1>5
    <3>2. Older' \cup Younger' = Older \cup Younger \cup ({Head(queue)} \cap Clients)
      BY <1>4, <2>2, <3>1
    <3>3. /\ queue' \in Seq(Clients \cup Flushers) /\ Sorted(sent, queue')
          /\ Elems(queue) = {f} \cup Elems(queue')
          /\ \A i \in 1..Len(queue') : \A g \in Flushers : queue'[i] = g =>
                \A c \in before'[g] \cap Queued' :
                    c \in Older' \cup Younger'
                       \/ \E j \in 1..Len(queue') : j < i /\ queue'[j] = c
      BY <1>2, <2>2, <3>2, QueuePopped
    <3>4. Waiting' = Waiting
      BY <3>1, <3>3 DEF Waiting
    <3>5. before[f] \cap Queued = {}
      <4>1. 1 \in 1..Len(queue) /\ queue[1] = f
        BY <1>5, <2>2, HeadTailFacts
      <4>2. \A c \in before[f] \cap Queued :
              c \in Older \cup Younger \/ \E j \in 1..Len(queue) : j < 1 /\ queue[j] = c
        BY <4>1 DEF IInv, Flow, Barriers
      <4> QED BY <1>4, <4>2
    <3> QED BY <1>5, <2>2, <3>3, <3>4, <3>5
  <2> QED BY <1>1, <2>1, <2>2
<1>7. Typed'
  BY <1>2, <1>3, <1>6 DEF IInv, Typed
<1>8. Phases' /\ Stored'
  BY <1>2 DEF IInv, Phases, InFlight, Stored, ValidateCompletions
<1>9. Epochs' /\ Verdicts' /\ Located' /\ InOrder'
  BY <1>2, <1>4, <1>6 DEF IInv, Flow, Epochs, Verdicts, Located, InOrder
<1>10. Barriers'
  <2>1. \A g \in Flushers : before'[g] \subseteq Elems(sent')
    BY <1>2 DEF IInv, Flow, Barriers
  <2>2. /\ \A g \in Elems(queue') \cap Flushers : flush'[g] # "ready"
        /\ \A g \in Elems(pending') : flush'[g] # "ready"
    BY <1>3, <1>5, <1>6 DEF IInv, Flow, Barriers
  <2>3. /\ \A g \in Elems(pending') : before'[g] \cap Queued' \subseteq Older' \cup Younger'
        /\ \A g \in Flushers : flush'[g] = "ok" => before'[g] \cap Queued' = {}
    BY <1>2, <1>3, <1>4, <1>6 DEF IInv, Flow, Barriers
  <2> QED BY <1>6, <2>1, <2>2, <2>3 DEF Barriers
<1> QED BY <1>7, <1>8, <1>9, <1>10 DEF IInv, Flow

\* One more intent goes from the head of the queue to the batch being claimed.
LEMMA IntentClaimed ==
    ASSUME IInv, queue # <<>>, NEW h \in Clients, h = Head(queue),
           queue' = Tail(queue), claimed' = Append(claimed, h),
           worker' = "claim", purpose' \in {"first", "next", "successor"},
           (worker = "claim" /\ purpose' = purpose) \/ (worker = "recv" /\ purpose' = "first"),
           UNCHANGED <<pending, prepared, successor, io, store, file, current,
                       outcome, basis, flush, before, sent>>
    PROVE  IInv'
<1>1. queue \in Seq(Clients \cup Flushers) /\ claimed \in Seq(Clients)
  BY Kinds
<1>2. claimed' \in Seq(Clients) /\ Elems(claimed') = Elems(claimed) \cup {h}
  BY <1>1, AppendFacts
<1>3. Older' = Older /\ Younger' = Younger \cup {h} /\ Queued' = Queued
  BY <1>2 DEF Older, Younger, Queued
<1>4. /\ queue' \in Seq(Clients \cup Flushers) /\ Sorted(sent, queue')
      /\ Elems(queue) = {h} \cup Elems(queue')
      /\ \A i \in 1..Len(queue') : \A f \in Flushers : queue'[i] = f =>
            \A c \in before'[f] \cap Queued' :
                c \in Older' \cup Younger' \/ \E j \in 1..Len(queue') : j < i /\ queue'[j] = c
  BY <1>3, QueuePopped
<1>5. Waiting = {h} \cup Waiting'
  BY <1>4 DEF Waiting
<1>6. Typed'
  BY <1>2, <1>4 DEF IInv, Typed
<1>7. Phases' /\ Stored'
  BY DEF IInv, Phases, InFlight, Stored, ValidateCompletions
<1>8. Epochs' /\ Verdicts' /\ Located'
  BY <1>3, <1>5 DEF IInv, Flow, Epochs, Verdicts, Located
<1>9. InOrder'
  <2>1. Ahead(sent, Older, Younger) /\ Ahead(sent, Older \cup Younger, Waiting)
    BY DEF IInv, Flow, InOrder
  <2>2. Ahead(sent, {h}, Waiting')
    BY <1>1, SortedTail DEF IInv, Flow, InOrder, Waiting
  <2>3. Ahead(sent, Elems(claimed) \cap Clients, {h})
    BY <1>5, <2>1 DEF Ahead, Younger
  <2>4. Sorted(sent, claimed')
    BY <1>1, <2>3, SortedAppend DEF IInv, Flow, InOrder
  <2>5. Ahead(sent, Older', Younger') /\ Ahead(sent, Older' \cup Younger', Waiting')
    BY <1>3, <1>5, <2>1, <2>2 DEF Ahead
  <2> QED BY <1>3, <1>4, <2>4, <2>5 DEF IInv, Flow, InOrder
<1>10. Barriers'
  <2>1. \A f \in Flushers : before'[f] \subseteq Elems(sent')
    BY DEF IInv, Flow, Barriers
  <2>2. /\ \A f \in Elems(queue') \cap Flushers : flush'[f] # "ready"
        /\ \A f \in Elems(pending') : flush'[f] # "ready"
    BY <1>4 DEF IInv, Flow, Barriers
  <2>3. /\ \A f \in Elems(pending') : before'[f] \cap Queued' \subseteq Older' \cup Younger'
        /\ \A f \in Flushers : flush'[f] = "ok" => before'[f] \cap Queued' = {}
    BY <1>3 DEF IInv, Flow, Barriers
  <2> QED BY <1>4, <2>1, <2>2, <2>3 DEF Barriers
<1> QED BY <1>6, <1>7, <1>8, <1>9, <1>10 DEF IInv, Flow

LEMMA ReceiveIntentStep == ASSUME IInv, ReceiveIntent PROVE IInv'
<1>1. PICK h \in Clients : h = Head(queue)
  BY DEF ReceiveIntent
<1>2. /\ worker = "recv" /\ queue # <<>> /\ claimed' = <<h>> /\ queue' = Tail(queue)
      /\ purpose' = "first" /\ worker' = "claim"
      /\ UNCHANGED <<pending, prepared, successor, io, store, file, current,
                     outcome, basis, flush, before, sent>>
  BY <1>1 DEF ReceiveIntent, worldVars, callVars, historyVars
<1>3. claimed = <<>>
  BY <1>2 DEF IInv, Phases
<1>4. claimed' = Append(claimed, h)
  BY <1>2, <1>3, Singleton
<1> QED BY <1>1, <1>2, <1>4, IntentClaimed

LEMMA ClaimFirstStep == ASSUME IInv, ClaimFirst PROVE IInv'
<1>1. PICK h \in Clients : h = Head(queue)
  BY DEF ClaimFirst
<1>2. /\ worker = "claim" /\ queue # <<>> /\ claimed = <<>> /\ claimed' = <<h>>
      /\ queue' = Tail(queue) /\ purpose' = purpose /\ worker' = "claim"
      /\ UNCHANGED <<pending, prepared, successor, io, store, file, current,
                     outcome, basis, flush, before, sent>>
  BY <1>1 DEF ClaimFirst, worldVars, callVars, historyVars
<1>3. claimed' = Append(claimed, h)
  BY <1>2, Singleton
<1>4. purpose' \in {"first", "next", "successor"}
  BY <1>2 DEF IInv, Typed
<1> QED BY <1>1, <1>2, <1>3, <1>4, IntentClaimed

LEMMA ClaimMoreStep == ASSUME IInv, ClaimMore PROVE IInv'
<1>1. PICK h \in Clients : h = Head(queue)
  BY DEF ClaimMore
<1>2. /\ worker = "claim" /\ queue # <<>> /\ claimed' = Append(claimed, h)
      /\ queue' = Tail(queue) /\ purpose' = purpose /\ worker' = "claim"
      /\ UNCHANGED <<pending, prepared, successor, io, store, file, current,
                     outcome, basis, flush, before, sent>>
  BY <1>1 DEF ClaimMore, worldVars, callVars, historyVars
<1>3. purpose' \in {"first", "next", "successor"}
  BY <1>2 DEF IInv, Typed
<1> QED BY <1>1, <1>2, <1>3, IntentClaimed

\* A barrier is set aside when everything ahead of it has been claimed.
LEMMA ClaimBarrierStep == ASSUME IInv, ClaimBarrier PROVE IInv'
<1>1. PICK g \in Flushers : g = Head(queue)
  BY DEF ClaimBarrier
<1>2. /\ worker = "claim" /\ queue # <<>> /\ pending' = Append(pending, g)
      /\ queue' = Tail(queue) /\ worker' = "derive"
      /\ UNCHANGED <<claimed, purpose, prepared, successor, io, store, file, current,
                     outcome, basis, flush, before, sent>>
  BY <1>1 DEF ClaimBarrier, workVars, worldVars, callVars, historyVars
<1>3. /\ queue \in Seq(Clients \cup Flushers) /\ pending \in Seq(Flushers)
      /\ Clients \cap Flushers = {} /\ g \notin Clients
  BY Kinds
<1>4. pending' \in Seq(Flushers) /\ Elems(pending') = Elems(pending) \cup {g}
  BY <1>2, <1>3, AppendFacts
<1>5. UNCHANGED <<Older, Younger, Queued>>
  BY <1>2 DEF Older, Younger, Queued
<1>6. Older' \cup Younger' = Older \cup Younger \cup ({Head(queue)} \cap Clients)
  BY <1>1, <1>3, <1>5
<1>7. /\ queue' \in Seq(Clients \cup Flushers) /\ Sorted(sent, queue')
      /\ Elems(queue) = {g} \cup Elems(queue')
      /\ \A i \in 1..Len(queue') : \A f \in Flushers : queue'[i] = f =>
            \A c \in before'[f] \cap Queued' :
                c \in Older' \cup Younger' \/ \E j \in 1..Len(queue') : j < i /\ queue'[j] = c
  BY <1>1, <1>2, <1>6, QueuePopped
<1>8. Waiting' = Waiting
  BY <1>3, <1>7 DEF Waiting
<1>9. before[g] \cap Queued \subseteq Older \cup Younger /\ flush[g] # "ready"
  <2>1. 1 \in 1..Len(queue) /\ queue[1] = g
    BY <1>1, <1>2, <1>3, HeadTailFacts
  <2>2. \A c \in before[g] \cap Queued :
          c \in Older \cup Younger \/ \E j \in 1..Len(queue) : j < 1 /\ queue[j] = c
    BY <2>1 DEF IInv, Flow, Barriers
  <2>3. flush[g] # "ready"
    BY <1>7 DEF IInv, Flow, Barriers
  <2> QED BY <2>2, <2>3
<1>10. Typed'
  BY <1>2, <1>4, <1>7 DEF IInv, Typed
<1>11. Phases' /\ Stored'
  BY <1>2 DEF IInv, Phases, InFlight, Stored, ValidateCompletions
<1>12. Epochs' /\ Verdicts' /\ Located' /\ InOrder'
  BY <1>2, <1>5, <1>7, <1>8 DEF IInv, Flow, Epochs, Verdicts, Located, InOrder
<1>13. Barriers'
  <2>1. \A f \in Flushers : before'[f] \subseteq Elems(sent')
    BY <1>2 DEF IInv, Flow, Barriers
  <2>2. /\ \A f \in Elems(queue') \cap Flushers : flush'[f] # "ready"
        /\ \A f \in Elems(pending') : flush'[f] # "ready"
    BY <1>2, <1>4, <1>7, <1>9 DEF IInv, Flow, Barriers
  <2>3. /\ \A f \in Elems(pending') : before'[f] \cap Queued' \subseteq Older' \cup Younger'
        /\ \A f \in Flushers : flush'[f] = "ok" => before'[f] \cap Queued' = {}
    BY <1>2, <1>4, <1>5, <1>9 DEF IInv, Flow, Barriers
  <2> QED BY <1>7, <2>1, <2>2, <2>3 DEF Barriers
<1> QED BY <1>10, <1>11, <1>12, <1>13 DEF IInv, Flow


-----------------------------------------------------------------------------
(* The committer derives epochs.                                             *)

\* The intents the committer holds are regrouped into epochs; none is lost, and
\* the older ones stay ahead.
LEMMA Regrouped ==
    ASSUME IInv, Epochs', Older' \cup Younger' = Older \cup Younger,
           Sorted(sent, claimed'), Sorted(sent, prepared'.batch), Sorted(sent, successor'.batch),
           Ahead(sent, Older', Younger'),
           UNCHANGED <<queue, pending, current, outcome, basis, flush, before, sent>>
    PROVE  Flow'
<1>1. UNCHANGED <<Waiting, Queued>>
  BY DEF Waiting, Queued
<1>2. Located'
  BY <1>1 DEF IInv, Flow, Located
<1>3. InOrder'
  BY <1>1 DEF IInv, Flow, InOrder
<1>4. Verdicts'
  BY DEF IInv, Flow, Verdicts
<1>5. Barriers'
  BY <1>1 DEF IInv, Flow, Barriers
<1> QED BY <1>2, <1>3, <1>4, <1>5 DEF Flow

\* What the committer's position leaves empty.
LEMMA Held ==
    ASSUME IInv
    PROVE  /\ prepared = NoEpoch => Older = {}
           /\ claimed = <<>> => Younger = Elems(successor.batch)
           /\ successor = NoEpoch => Younger = Elems(claimed)
BY NoneIn, NoEpochFields DEF Older, Younger

\* A first batch becomes the epoch to commit.
LEMMA FirstDerived ==
    ASSUME IInv, worker = "derive", purpose # "successor",
           NEW e \in DerivePrepared(claimed, current),
           prepared' = e, claimed' = <<>>, worker' = "top",
           UNCHANGED <<queue, pending, purpose, successor, io, store, file, current,
                       outcome, basis, flush, before, sent>>
    PROVE  IInv'
<1>1. prepared = NoEpoch /\ successor = NoEpoch /\ io = NoIo
  BY DEF IInv, Phases
<1>2. claimed \in Seq(Clients) /\ current \in Seq(Things) /\ Sorted(sent, claimed)
  BY Kinds DEF IInv, Flow, InOrder
<1>3. e \in EpochType /\ e.batch = claimed /\ e.base = current /\ Derived(sent, e)
  BY <1>2, DerivedFacts
<1>4. claimed' \in Seq(Clients)
  BY EmptySeq
<1>5. Typed'
  BY <1>3, <1>4 DEF IInv, Typed
<1>6. Phases'
  BY <1>1, <1>3 DEF Phases
<1>7. Stored'
  BY <1>1, NoEpochFields DEF IInv, Stored
<1>8. Older' = Elems(claimed) /\ Younger' = {} /\ Older = {} /\ Younger = Elems(claimed)
  <2>1. Older' = Elems(claimed)
    BY <1>3 DEF Older
  <2>2. Younger' = {}
    BY <1>1, NoneIn, NoEpochFields DEF Younger
  <2> QED BY <1>1, <2>1, <2>2, Held
<1>9. Epochs'
  BY <1>1, <1>3, SortedNone DEF Epochs
<1>10. Sorted(sent, claimed') /\ Sorted(sent, prepared'.batch) /\ Sorted(sent, successor'.batch)
  BY <1>1, <1>2, <1>3, SortedNone, NoEpochFields
<1>11. Flow'
  BY <1>8, <1>9, <1>10, Regrouped DEF Ahead
<1> QED BY <1>5, <1>6, <1>7, <1>11 DEF IInv

LEMMA DeriveSuccessorStep == ASSUME IInv, DeriveSuccessor PROVE IInv'
<1>1. /\ worker = "derive" /\ purpose = "successor" /\ claimed' = <<>> /\ worker' = "wait"
      /\ successor' \in IF claimed = <<>> THEN {NoEpoch}
                        ELSE DerivePrepared(claimed, prepared.tail)
      /\ UNCHANGED <<queue, pending, purpose, prepared, io, store, file, current,
                     outcome, basis, flush, before, sent>>
  BY DEF DeriveSuccessor, worldVars, callVars, historyVars
<1>2. successor = NoEpoch /\ InFlight
  BY <1>1 DEF IInv, Phases
<1>3. claimed \in Seq(Clients) /\ prepared.tail \in Seq(Things) /\ Sorted(sent, claimed)
  BY Kinds DEF IInv, Flow, InOrder
<1>4. /\ successor' \in EpochType /\ successor'.batch = claimed /\ Derived(sent, successor')
      /\ successor' = NoEpoch \/ successor'.base = prepared.tail
      /\ successor'.batch = <<>> => successor' = NoEpoch
  <2>1. CASE claimed = <<>>
    <3>1. successor' = NoEpoch
      BY <1>1, <2>1
    <3> QED BY <2>1, <3>1, SortedNone, NoEpochFields
  <2>2. CASE claimed # <<>>
    <3>1. successor' \in DerivePrepared(claimed, prepared.tail)
      BY <1>1, <2>2
    <3>2. /\ successor' \in EpochType /\ successor'.batch = claimed
          /\ successor'.base = prepared.tail /\ Derived(sent, successor')
      BY <1>3, <3>1, DerivedFacts
    <3> QED BY <2>2, <3>2
  <2> QED BY <2>1, <2>2
<1>5. claimed' \in Seq(Clients)
  BY <1>1, EmptySeq
<1>6. Typed'
  BY <1>1, <1>4, <1>5 DEF IInv, Typed
<1>7. Phases'
  BY <1>1, <1>2, <1>4 DEF IInv, Phases, InFlight
<1>8. Stored'
  BY <1>1 DEF IInv, Stored, ValidateCompletions
<1>9. Older' = Older /\ Younger' = Elems(claimed) /\ Younger = Elems(claimed)
  <2>1. Younger' = Elems(claimed)
    BY <1>1, <1>4, NoneIn DEF Younger
  <2> QED BY <1>1, <1>2, <2>1, Held DEF Older
<1>10. Epochs'
  BY <1>1, <1>4 DEF IInv, Flow, Epochs
<1>11. Sorted(sent, claimed') /\ Sorted(sent, prepared'.batch) /\ Sorted(sent, successor'.batch)
  BY <1>1, <1>3, <1>4, SortedNone DEF IInv, Flow, InOrder
<1>12. Ahead(sent, Older', Younger')
  BY <1>9 DEF IInv, Flow, InOrder
<1>13. Flow'
  BY <1>1, <1>9, <1>10, <1>11, <1>12, Regrouped
<1> QED BY <1>6, <1>7, <1>8, <1>13 DEF IInv

\* The successor becomes the epoch to commit.
LEMMA SuccessorFollows ==
    ASSUME IInv, worker \in {"persisted", "repaired"},
           NEW e \in EpochType, e.batch = successor.batch, e.base = current, Derived(sent, e),
           prepared' = e, successor' = NoEpoch, worker' = "top",
           UNCHANGED <<queue, pending, claimed, purpose, io, store, file, current,
                       outcome, basis, flush, before, sent>>
    PROVE  IInv'
<1>1. claimed = <<>> /\ prepared = NoEpoch /\ io = NoIo
  BY DEF IInv, Phases
<1>2. Typed'
  BY SortedNone DEF IInv, Typed
<1>3. Phases'
  BY <1>1 DEF Phases
<1>4. Stored'
  BY <1>1, NoEpochFields DEF IInv, Stored
<1>5. Older' = Elems(successor.batch) /\ Younger' = {} /\ Older = {}
      /\ Younger = Elems(successor.batch)
  <2>1. Older' = Elems(successor.batch)
    BY DEF Older
  <2>2. Younger' = {}
    BY <1>1, NoneIn, NoEpochFields DEF Younger
  <2> QED BY <1>1, <2>1, <2>2, Held
<1>6. Epochs'
  BY SortedNone DEF Epochs
<1>7. Sorted(sent, claimed') /\ Sorted(sent, prepared'.batch) /\ Sorted(sent, successor'.batch)
  BY SortedNone, NoEpochFields DEF IInv, Flow, InOrder
<1>8. Flow'
  BY <1>5, <1>6, <1>7, Regrouped DEF Ahead
<1> QED BY <1>2, <1>3, <1>4, <1>8 DEF IInv


-----------------------------------------------------------------------------
(* The committer answers the tickets of the epoch it was committing.         *)

\* Nothing is held in two places.
LEMMA Apart == ASSUME IInv PROVE Older \cap (Younger \cup Waiting) = {}
<1>1. sent \in Seq(Clients) /\ \A i, j \in 1..Len(sent) : i # j => sent[i] # sent[j]
  BY Kinds DEF IInv, Flow, Located
<1>2. \A x : ~Precedes(sent, x, x)
  BY <1>1, PrecedesStrict
<1> QED BY <1>2 DEF IInv, Flow, InOrder, Ahead

\* The tail of the epoch is the published world and then intents of the epoch.
LEMMA TailFacts ==
    ASSUME IInv, prepared.base = current
    PROVE  /\ Extends(prepared.tail, current)
           /\ Elems(current) \subseteq Elems(prepared.tail)
           /\ Elems(prepared.tail) \subseteq Elems(current) \cup Older
           /\ Sorted(sent, prepared.tail)
<1>1. /\ prepared.tail \in Seq(Things) /\ current \in Seq(Things)
      /\ Len(current) \in Nat /\ Len(prepared.tail) \in Nat
  BY Kinds, SeqFacts
<1>2. /\ Extends(prepared.tail, current)
      /\ \A i \in 1..Len(prepared.tail) : i > Len(current) => prepared.tail[i] \in Older
      /\ \A i, j \in 1..Len(prepared.tail) :
            Len(current) < i /\ i < j => Precedes(sent, prepared.tail[i], prepared.tail[j])
  BY DEF IInv, Flow, Epochs, Derived, Older
<1>3. PICK tail \in Seq(Things) : tail = prepared.tail
  BY <1>1
<1>4. /\ Len(tail) \in Nat /\ Len(current) <= Len(tail)
      /\ \A i \in 1..Len(current) : i \in 1..Len(tail) /\ tail[i] = current[i]
      /\ \A i \in 1..Len(tail) : i <= Len(current) => i \in 1..Len(current)
      /\ \A i \in 1..Len(tail) : i > Len(current) => tail[i] \in Older
      /\ \A i, j \in 1..Len(tail) :
            Len(current) < i /\ i < j => Precedes(sent, tail[i], tail[j])
  BY <1>1, <1>2, <1>3 DEF Extends
<1>5. Elems(current) \subseteq Elems(tail)
  BY <1>4 DEF Elems
<1>6. Elems(tail) \subseteq Elems(current) \cup Older
  <2> SUFFICES ASSUME NEW i \in 1..Len(tail), tail[i] \notin Older
               PROVE  tail[i] \in Elems(current)
    BY DEF Elems
  <2>1. i \in 1..Len(current) /\ tail[i] = current[i]
    BY <1>1, <1>4
  <2> QED BY <2>1 DEF Elems
<1>7. Sorted(sent, tail)
  <2> SUFFICES ASSUME NEW i \in 1..Len(tail), NEW j \in 1..Len(tail), i < j,
                      tail[i] \in Clients, tail[j] \in Clients
               PROVE  Precedes(sent, tail[i], tail[j])
    BY DEF Sorted
  <2>1. CASE i > Len(current)
    BY <1>1, <1>4, <2>1
  <2>2. CASE i <= Len(current) /\ j > Len(current)
    <3>1. tail[i] \in Elems(current) \cap Clients
      BY <1>4, <2>2 DEF Elems
    <3>2. tail[j] \in Queued
      BY <1>4, <2>2 DEF IInv, Flow, Located
    <3> QED BY <3>1, <3>2 DEF IInv, Flow, InOrder, Ahead
  <2>3. CASE j <= Len(current)
    <3>1. /\ i \in 1..Len(current) /\ j \in 1..Len(current)
          /\ tail[i] = current[i] /\ tail[j] = current[j]
      BY <1>1, <1>4, <2>3
    <3> QED BY <3>1 DEF IInv, Flow, InOrder, Sorted
  <2> QED BY <1>1, <2>1, <2>2, <2>3
<1> QED BY <1>2, <1>3, <1>5, <1>6, <1>7

\* The epoch's tickets are answered: with the new world, or without it.
LEMMA Answered ==
    ASSUME IInv, prepared.base = current, prepared' = NoEpoch,
           NEW told \in {"accepted", "failed"},
           IF told = "accepted" THEN current' = prepared.tail ELSE current' = current,
           outcome' = Routed(prepared, told), basis' = Based(prepared),
           UNCHANGED <<queue, pending, claimed, successor, flush, before, sent>>
    PROVE  /\ Flow' /\ Extends(current', current) /\ current' \in Seq(Things)
           /\ outcome' \in [Clients -> {"none", "queued"} \cup Answers]
           /\ basis' \in [Clients -> Seq(Things)]
<1>1. /\ prepared.tail \in Seq(Things) /\ current \in Seq(Things)
      /\ prepared.batch \in Seq(Clients) /\ sent \in Seq(Clients)
  BY Kinds
<1>2. Range(prepared.batch) = Older /\ Range(prepared.tail) = Elems(prepared.tail)
      /\ Older \subseteq Clients
  BY <1>1, SeqFacts DEF Older
<1>3. /\ Extends(prepared.tail, current)
      /\ Elems(current) \subseteq Elems(prepared.tail)
      /\ Elems(prepared.tail) \subseteq Elems(current) \cup Older
      /\ Sorted(sent, prepared.tail)
  BY TailFacts
<1>4. Extends(current', current) /\ current' \in Seq(Things)
  BY <1>1, <1>3, ExtendsFacts
<1>5. outcome' = [c \in Clients |-> IF c \notin Older THEN outcome[c]
                                    ELSE IF c \in Elems(prepared.tail) THEN told ELSE "rejected"]
  BY <1>2 DEF Routed
<1>6. /\ \A c \in Clients : c \notin Older => outcome'[c] = outcome[c]
      /\ \A c \in Older : outcome'[c] = IF c \in Elems(prepared.tail) THEN told ELSE "rejected"
  BY <1>2, <1>5
<1>7. outcome' \in [Clients -> {"none", "queued"} \cup Answers]
  <2>1. \A c \in Clients : outcome[c] \in {"none", "queued"} \cup Answers
    BY DEF IInv, Typed
  <2>2. \A c \in Clients : outcome'[c] \in {"none", "queued"} \cup Answers
    BY <1>6, <2>1 DEF Answers
  <2> QED BY <1>5, <2>2
<1>8. /\ basis' \in [Clients -> Seq(Things)]
      /\ \A c \in Clients : basis'[c] = IF c \in Older THEN current ELSE basis[c]
  <2>1. basis' = [c \in Clients |-> IF c \in Older THEN current ELSE basis[c]]
    BY <1>2 DEF Based
  <2>2. basis \in [Clients -> Seq(Things)]
    BY DEF IInv, Typed
  <2> QED BY <1>1, <2>1, <2>2
<1>9. /\ Older' = {} /\ Younger' = Younger /\ Waiting' = Waiting
      /\ Queued = Older \cup Younger \cup Waiting /\ Queued' = Queued \ Older
      /\ Queued' = Younger \cup Waiting /\ Older \cap Queued' = {}
  <2>1. Older' = {} /\ Younger' = Younger /\ Waiting' = Waiting
    BY NoEpochFields DEF Older, Younger, Waiting
  <2>2. Queued' = Queued \ Older
    BY <1>2, <1>6 DEF Queued
  <2>3. Queued = Older \cup Younger \cup Waiting
    BY DEF IInv, Flow, Located
  <2> QED BY <2>1, <2>2, <2>3, Apart
<1>10. Elems(current') \subseteq Elems(current) \cup Older
  BY <1>3
<1>11. Epochs'
  BY SortedNone DEF IInv, Flow, Epochs
<1>12. Located'
  <2>1. \A c \in Clients : outcome'[c] = "none" <=> outcome[c] = "none"
    <3>1. \A c \in Older : outcome[c] = "queued"
      BY <1>9 DEF Queued
    <3> QED BY <1>6, <3>1
  <2>2. Elems(sent) = {c \in Clients : outcome'[c] # "none"}
    BY <2>1 DEF IInv, Flow, Located
  <2> QED BY <1>9, <2>2 DEF IInv, Flow, Located
<1>13. InOrder'
  <2>1. /\ Sorted(sent, queue) /\ Sorted(sent, claimed) /\ Sorted(sent, successor.batch)
        /\ Sorted(sent, current) /\ Ahead(sent, Older \cup Younger, Waiting)
        /\ Ahead(sent, Older, Younger) /\ Ahead(sent, Elems(current) \cap Clients, Queued)
    BY DEF IInv, Flow, InOrder
  <2>2. Sorted(sent, current') /\ Sorted(sent, NoEpoch.batch)
    BY <1>3, <2>1, SortedNone, NoEpochFields
  <2>3. Ahead(sent, Older', Younger') /\ Ahead(sent, Older' \cup Younger', Waiting')
    BY <1>9, <2>1 DEF Ahead
  <2>4. Ahead(sent, Elems(current') \cap Clients, Queued')
    BY <1>9, <1>10, <2>1 DEF Ahead
  <2> QED BY <2>1, <2>2, <2>3, <2>4 DEF InOrder
<1>14. Verdicts'
  <2> SUFFICES ASSUME NEW c \in Clients
               PROVE  /\ outcome'[c] \in {"accepted", "rejected", "failed"}
                            => Extends(current', basis'[c])
                      /\ outcome'[c] = "accepted" <=> c \in Elems(current')
    BY DEF Verdicts
  <2>1. /\ outcome[c] \in {"accepted", "rejected", "failed"} => Extends(current, basis[c])
        /\ outcome[c] = "accepted" <=> c \in Elems(current)
    BY DEF IInv, Flow, Verdicts
  <2>2. CASE c \in Older
    <3>1. basis'[c] = current /\ Extends(current', basis'[c])
      BY <1>4, <1>8, <2>2
    <3>2. outcome[c] = "queued" /\ c \notin Elems(current)
      BY <1>9, <2>1, <2>2 DEF Queued
    <3>3. outcome'[c] = IF c \in Elems(prepared.tail) THEN told ELSE "rejected"
      BY <1>6, <2>2
    <3>4. outcome'[c] = "accepted" <=> c \in Elems(current')
      BY <3>2, <3>3
    <3> QED BY <3>1, <3>4
  <2>3. CASE c \notin Older
    <3>1. outcome'[c] = outcome[c] /\ basis'[c] = basis[c] /\ basis[c] \in Seq(Things)
      BY <1>6, <1>8, <2>3 DEF IInv, Typed
    <3>2. Extends(current, basis[c]) => Extends(current', basis[c])
      BY <1>1, <1>4, <3>1, ExtendsFacts
    <3>3. c \in Elems(current') <=> c \in Elems(current)
      BY <1>3, <1>10, <2>3
    <3> QED BY <2>1, <3>1, <3>2, <3>3
  <2> QED BY <2>2, <2>3
<1>15. Barriers'
  <2>1. \A f \in Flushers : before'[f] \subseteq Elems(sent')
    BY DEF IInv, Flow, Barriers
  <2>2. /\ \A f \in Elems(queue') \cap Flushers : flush'[f] # "ready"
        /\ \A f \in Elems(pending') : flush'[f] # "ready"
    BY DEF IInv, Flow, Barriers
  <2>3. ASSUME NEW i \in 1..Len(queue'), NEW f \in Flushers, queue'[i] = f,
               NEW c \in before'[f] \cap Queued'
        PROVE  c \in Older' \cup Younger' \/ \E j \in 1..Len(queue') : j < i /\ queue'[j] = c
    <3>1. c \in before[f] \cap Queued /\ c \notin Older
      BY <1>9
    <3>2. c \in Older \cup Younger \/ \E j \in 1..Len(queue) : j < i /\ queue[j] = c
      BY <2>3, <3>1 DEF IInv, Flow, Barriers
    <3> QED BY <1>9, <3>1, <3>2
  <2>4. \A f \in Elems(pending') : before'[f] \cap Queued' \subseteq Older' \cup Younger'
    <3>1. \A f \in Elems(pending) : before[f] \cap Queued \subseteq Older \cup Younger
      BY DEF IInv, Flow, Barriers
    <3> QED BY <1>9, <3>1
  <2>5. \A f \in Flushers : flush'[f] = "ok" => before'[f] \cap Queued' = {}
    <3>1. \A f \in Flushers : flush[f] = "ok" => before[f] \cap Queued = {}
      BY DEF IInv, Flow, Barriers
    <3> QED BY <1>9, <3>1
  <2> QED BY <2>1, <2>2, <2>3, <2>4, <2>5 DEF Barriers
<1> QED BY <1>4, <1>7, <1>8, <1>11, <1>12, <1>13, <1>14, <1>15 DEF Flow


\* The committer's position outside an epoch's write, after the epoch was answered.
LEMMA PublishEmptyStep == ASSUME IInv, PublishEmpty PROVE IInv'
<1>1. /\ worker = "top" /\ prepared.tail = prepared.base /\ current' = prepared.tail
      /\ outcome' = Routed(prepared, "accepted") /\ basis' = Based(prepared)
      /\ prepared' = NoEpoch /\ purpose' = "next" /\ worker' = "claim"
      /\ UNCHANGED <<queue, pending, claimed, successor, io, store, file, flush, before, sent>>
  BY DEF PublishEmpty, historyVars
<1>2. claimed = <<>> /\ successor = NoEpoch /\ io = NoIo /\ prepared.base = current
  BY <1>1 DEF IInv, Phases
<1>3. /\ Flow' /\ current' \in Seq(Things)
      /\ outcome' \in [Clients -> {"none", "queued"} \cup Answers]
      /\ basis' \in [Clients -> Seq(Things)]
  BY <1>1, <1>2, Answered
<1>4. Typed'
  BY <1>1, <1>3, SortedNone DEF IInv, Typed
<1>5. Phases'
  BY <1>1, <1>2 DEF Phases
<1>6. Stored'
  BY <1>1, <1>2, NoEpochFields DEF IInv, Stored
<1> QED BY <1>3, <1>4, <1>5, <1>6 DEF IInv

\* A failed epoch leaves the world as it was, whatever became of the store.
LEMMA FinishFailedStep ==
    ASSUME IInv, worker = "top", FinishFailed, file' = file, store' \in {"Healthy", "Poisoned"},
           store' = store \/ store = "Healthy"
    PROVE  IInv'
<1>1. /\ outcome' = Routed(prepared, "failed") /\ basis' = Based(prepared)
      /\ prepared' = NoEpoch /\ worker' = "recv"
      /\ UNCHANGED <<queue, pending, claimed, purpose, successor, io, current, flush, before, sent>>
  BY DEF FinishFailed, historyVars
<1>2. claimed = <<>> /\ successor = NoEpoch /\ io = NoIo /\ prepared.base = current
  BY <1>1 DEF IInv, Phases
<1>3. /\ Flow'
      /\ outcome' \in [Clients -> {"none", "queued"} \cup Answers]
      /\ basis' \in [Clients -> Seq(Things)]
  BY <1>1, <1>2, Answered
<1>4. Typed'
  BY <1>1, <1>3, SortedNone DEF IInv, Typed
<1>5. Phases'
  BY <1>1, <1>2 DEF Phases
<1>6. Stored'
  BY <1>1, <1>2, NoEpochFields DEF IInv, Stored
<1> QED BY <1>3, <1>4, <1>5, <1>6 DEF IInv

LEMMA PrepareFailsStep == ASSUME IInv, PrepareFails PROVE IInv'
<1>1. worker = "top" /\ FinishFailed /\ store' = store /\ file' = file
  BY DEF PrepareFails
<1>2. store \in {"Healthy", "Poisoned"}
  BY DEF IInv, Typed
<1> QED BY <1>1, <1>2, FinishFailedStep

LEMMA SubmitFailsStep == ASSUME IInv, SubmitFails PROVE IInv'
<1>1. /\ worker = "top" /\ FinishFailed /\ store = "Healthy"
      /\ store' \in {"Healthy", "Poisoned"} /\ file' = file
  BY DEF SubmitFails, Prepared
<1> QED BY <1>1, FinishFailedStep

\* Completions that validate mean that the file holds the epoch.
LEMMA CompleteSucceedsStep == ASSUME IInv, CompleteSucceeds PROVE IInv'
<1>1. /\ worker = "wait" /\ io.at = "done" /\ ValidateCompletions(io.cqes)
      /\ current' = prepared.tail
      /\ outcome' = Routed(prepared, "accepted") /\ basis' = Based(prepared)
      /\ prepared' = NoEpoch /\ io' = NoIo /\ worker' = "persisted"
      /\ UNCHANGED <<queue, pending, claimed, purpose, successor, store, file, flush, before, sent>>
  BY DEF CompleteSucceeds, historyVars
<1>2. /\ claimed = <<>> /\ prepared.base = current
      /\ successor = NoEpoch \/ successor.base = prepared.tail
      /\ successor.batch = <<>> => successor = NoEpoch
  BY <1>1 DEF IInv, Phases, InFlight
<1>3. /\ Flow' /\ current' \in Seq(Things)
      /\ outcome' \in [Clients -> {"none", "queued"} \cup Answers]
      /\ basis' \in [Clients -> Seq(Things)]
  BY <1>1, <1>2, Answered
<1>4. Typed'
  BY <1>1, <1>3, SortedNone DEF IInv, Typed
<1>5. Phases'
  BY <1>1, <1>2 DEF Phases
<1>6. Stored'
  <2>1. file' = current' /\ Extends(current', current')
    BY <1>1, <1>3, ExtendsFacts DEF IInv, Stored
  <2> QED BY <1>1, <2>1, NoEpochFields DEF Stored
<1> QED BY <1>3, <1>4, <1>5, <1>6 DEF IInv

LEMMA CompleteFailsStep == ASSUME IInv, CompleteFails PROVE IInv'
<1>1. /\ worker = "wait"
      /\ \/ store' = "Healthy" /\ file' = current
         \/ store' = "Poisoned" /\ file' = file
      /\ outcome' = Routed(prepared, "failed") /\ basis' = Based(prepared)
      /\ prepared' = NoEpoch /\ io' = NoIo /\ worker' = "repaired"
      /\ UNCHANGED <<queue, pending, claimed, purpose, successor, current, flush, before, sent>>
  BY DEF CompleteFails, historyVars
<1>2. /\ claimed = <<>> /\ prepared.base = current
      /\ successor.batch = <<>> => successor = NoEpoch
  BY <1>1 DEF IInv, Phases, InFlight
<1>3. /\ Flow'
      /\ outcome' \in [Clients -> {"none", "queued"} \cup Answers]
      /\ basis' \in [Clients -> Seq(Things)]
  BY <1>1, <1>2, Answered
<1>4. Typed'
  BY <1>1, <1>3, SortedNone DEF IInv, Typed
<1>5. Phases'
  BY <1>1, <1>2 DEF Phases
<1>6. Stored'
  <2>1. Extends(file', current')
    BY <1>1, Kinds, ExtendsFacts DEF IInv, Stored
  <2> QED BY <1>1, <2>1, NoEpochFields DEF Stored
<1> QED BY <1>3, <1>4, <1>5, <1>6 DEF IInv

-----------------------------------------------------------------------------
(* The committer ends.                                                       *)

\* Everything unanswered is refused.
LEMMA Drained ==
    ASSUME IInv, io = NoIo, queue' = <<>>, pending' = <<>>, claimed' = <<>>,
           prepared' = NoEpoch, successor' = NoEpoch, worker' = "done",
           store' = store \/ store' = "Poisoned",
           outcome' = [c \in Clients |-> IF c \in Queued THEN "stopped" ELSE outcome[c]],
           flush' \in [Flushers -> {"ready", "waiting", "ok", "stopped"}],
           UNCHANGED <<purpose, io, file, current, basis, before, sent>>
    PROVE  IInv'
<1>1. /\ outcome' \in [Clients -> {"none", "queued"} \cup Answers]
      /\ \A c \in Clients : outcome'[c] = IF c \in Queued THEN "stopped" ELSE outcome[c]
  BY DEF IInv, Typed, Answers
<1>2. Typed'
  <2>1. queue' \in Seq(Clients \cup Flushers)
    BY EmptySeq
  <2>2. pending' \in Seq(Flushers)
    BY EmptySeq
  <2>3. claimed' \in Seq(Clients)
    BY EmptySeq
  <2>4. store' \in {"Healthy", "Poisoned"}
    BY DEF IInv, Typed
  <2> QED BY <1>1, <2>1, <2>2, <2>3, <2>4, SortedNone DEF IInv, Typed
<1>3. Phases'
  BY DEF Phases
<1>4. Stored'
  BY NoEpochFields DEF IInv, Stored
<1>5. /\ Older' = {} /\ Younger' = {} /\ Waiting' = {} /\ Elems(queue') = {}
      /\ Elems(pending') = {} /\ Len(queue') = 0
  BY NoneIn, NoEpochFields DEF Older, Younger, Waiting
<1>6. Queued' = {}
  BY <1>1 DEF Queued
<1>7. Epochs'
  BY SortedNone DEF Epochs
<1>8. Located'
  <2>1. \A c \in Clients : outcome'[c] = "none" <=> outcome[c] = "none"
    BY <1>1 DEF Queued
  <2>2. Elems(sent) = {c \in Clients : outcome'[c] # "none"}
    BY <2>1 DEF IInv, Flow, Located
  <2> QED BY <1>5, <1>6, <2>2 DEF IInv, Flow, Located
<1>9. InOrder'
  <2>1. /\ Sorted(sent, queue') /\ Sorted(sent, claimed') /\ Sorted(sent, current)
        /\ Sorted(sent, prepared'.batch) /\ Sorted(sent, successor'.batch)
    BY SortedNone, NoEpochFields DEF IInv, Flow, InOrder
  <2> QED BY <1>5, <1>6, <2>1 DEF InOrder, Ahead
<1>10. Verdicts'
  <2> SUFFICES ASSUME NEW c \in Clients
               PROVE  /\ outcome'[c] \in {"accepted", "rejected", "failed"}
                            => Extends(current', basis'[c])
                      /\ outcome'[c] = "accepted" <=> c \in Elems(current')
    BY DEF Verdicts
  <2> QED BY <1>1 DEF IInv, Flow, Verdicts, Queued
<1>11. Barriers'
  BY <1>5, <1>6 DEF IInv, Flow, Barriers
<1> QED BY <1>2, <1>3, <1>4, <1>7, <1>8, <1>9, <1>10, <1>11 DEF IInv, Flow

\* What a drain answers.
LEMMA DrainFacts ==
    ASSUME IInv, NEW results, Drain(results)
    PROVE  /\ outcome' = [c \in Clients |-> IF c \in Waiting THEN "stopped" ELSE results[c]]
           /\ flush' \in [Flushers -> {"ready", "waiting", "ok", "stopped"}]
           /\ queue' = <<>> /\ pending' = <<>> /\ worker' = "done"
<1>1. Range(queue) = Elems(queue)
  BY Kinds, SeqFacts
<1>2. \A c \in Clients : c \in Range(queue) <=> c \in Waiting
  BY <1>1 DEF Waiting
<1>3. outcome' = [c \in Clients |-> IF c \in Waiting THEN "stopped" ELSE results[c]]
  BY <1>2 DEF Drain
<1>4. flush' \in [Flushers -> {"ready", "waiting", "ok", "stopped"}]
  BY DEF Drain, IInv, Typed
<1> QED BY <1>3, <1>4 DEF Drain

LEMMA StopStep == ASSUME IInv, Stop PROVE IInv'
<1>1. /\ worker = "recv" /\ Drain(outcome)
      /\ UNCHANGED <<claimed, purpose, prepared, successor, io, store, file, current,
                     basis, before, sent>>
  BY DEF Stop, workVars, worldVars, historyVars
<1>2. claimed = <<>> /\ prepared = NoEpoch /\ successor = NoEpoch /\ io = NoIo
  BY <1>1 DEF IInv, Phases
<1>3. Queued = Waiting
  <2>1. Older = {} /\ Younger = {}
    BY <1>2, Held, NoneIn
  <2> QED BY <2>1 DEF IInv, Flow, Located
<1>4. /\ outcome' = [c \in Clients |-> IF c \in Queued THEN "stopped" ELSE outcome[c]]
      /\ flush' \in [Flushers -> {"ready", "waiting", "ok", "stopped"}]
      /\ queue' = <<>> /\ pending' = <<>> /\ worker' = "done"
  BY <1>1, <1>3, DrainFacts
<1> QED BY <1>1, <1>2, <1>4, Drained

\* A panic refuses the epoch that panicked with everything behind it.
LEMMA FailStep ==
    ASSUME IInv, NEW e \in EpochType, Fail(e), io = NoIo,
           Older \cup Younger = Elems(e.batch),
           UNCHANGED <<purpose, io, file, current, basis, before, sent>>
    PROVE  IInv'
<1>1. /\ Drain(Stopped(e)) /\ store' = "Poisoned"
      /\ prepared' = NoEpoch /\ successor' = NoEpoch /\ claimed' = <<>>
  BY DEF Fail
<1>2. Range(e.batch) = Elems(e.batch)
  BY EpochFields, SeqFacts
<1>3. /\ outcome' = [c \in Clients |-> IF c \in Waiting THEN "stopped" ELSE Stopped(e)[c]]
      /\ flush' \in [Flushers -> {"ready", "waiting", "ok", "stopped"}]
      /\ queue' = <<>> /\ pending' = <<>> /\ worker' = "done"
  BY <1>1, DrainFacts
<1>4. Queued = Elems(e.batch) \cup Waiting
  BY DEF IInv, Flow, Located
<1>5. \A c \in Clients :
        (IF c \in Waiting THEN "stopped" ELSE Stopped(e)[c])
          = IF c \in Queued THEN "stopped" ELSE outcome[c]
  BY <1>2, <1>4 DEF Stopped
<1>6. outcome' = [c \in Clients |-> IF c \in Queued THEN "stopped" ELSE outcome[c]]
  BY <1>3, <1>5
<1> QED BY <1>1, <1>3, <1>6, Drained

LEMMA DeriveFirstStep == ASSUME IInv, DeriveFirst PROVE IInv'
<1>1. /\ worker = "derive" /\ purpose # "successor"
      /\ UNCHANGED <<purpose, io, file, current, basis, before, sent>>
  BY DEF DeriveFirst, historyVars
<1>2. PICK e \in DerivePrepared(claimed, current) :
        IF e.panicked
        THEN Fail(e)
        ELSE /\ prepared' = e /\ claimed' = <<>> /\ worker' = "top"
             /\ UNCHANGED <<state, queue, pending, successor, store, outcome, flush>>
  BY DEF DeriveFirst
<1>3. CASE e.panicked
  <2>1. prepared = NoEpoch /\ successor = NoEpoch /\ io = NoIo
    BY <1>1 DEF IInv, Phases
  <2>2. e \in EpochType /\ e.batch = claimed
    <3>1. claimed \in Seq(Clients) /\ current \in Seq(Things) /\ Sorted(sent, claimed)
      BY Kinds DEF IInv, Flow, InOrder
    <3> QED BY <3>1, DerivedFacts
  <2>3. Older \cup Younger = Elems(e.batch)
    BY <2>1, <2>2, Held
  <2> QED BY <1>1, <1>2, <1>3, <2>1, <2>2, <2>3, FailStep
<1>4. CASE ~e.panicked
  BY <1>1, <1>2, <1>4, FirstDerived
<1> QED BY <1>3, <1>4

LEMMA ContinueStep == ASSUME IInv, Continue PROVE IInv'
<1>1. PICK e \in IF worker = "persisted" \/ successor.panicked THEN {successor}
                 ELSE DerivePrepared(successor.batch, current) : Proceed(e)
  BY DEF Continue
<1>2. /\ worker \in {"persisted", "repaired"}
      /\ UNCHANGED <<purpose, io, file, current, basis, before, sent>>
  BY <1>1 DEF Continue, Proceed, historyVars
<1>3. /\ claimed = <<>> /\ prepared = NoEpoch /\ io = NoIo
      /\ successor.batch = <<>> => successor = NoEpoch
      /\ worker = "persisted" => successor = NoEpoch \/ successor.base = current
  BY <1>2 DEF IInv, Phases
<1>4. Older \cup Younger = Elems(successor.batch)
  BY <1>3, Held
<1>5. /\ e \in EpochType /\ e.batch = successor.batch /\ Derived(sent, e)
      /\ e.batch # <<>> /\ ~e.panicked => e.base = current
  <2>1. CASE worker = "persisted" \/ successor.panicked
    <3>1. e = successor
      BY <1>1, <2>1
    <3>2. successor \in EpochType /\ Derived(sent, successor)
      BY Kinds DEF IInv, Flow, Epochs
    <3>3. successor.batch # <<>> /\ ~successor.panicked => successor.base = current
      BY <1>2, <1>3, <2>1, NoEpochFields
    <3> QED BY <3>1, <3>2, <3>3
  <2>2. CASE ~(worker = "persisted" \/ successor.panicked)
    <3>1. e \in DerivePrepared(successor.batch, current)
      BY <1>1, <2>2
    <3>2. successor.batch \in Seq(Clients) /\ current \in Seq(Things)
          /\ Sorted(sent, successor.batch)
      BY Kinds DEF IInv, Flow, InOrder
    <3> QED BY <3>1, <3>2, DerivedFacts
  <2> QED BY <2>1, <2>2
<1>6. CASE e.batch = <<>>
  <2>1. /\ worker' = "recv" /\ successor = NoEpoch
        /\ UNCHANGED <<queue, pending, claimed, prepared, successor, store, outcome, flush>>
    BY <1>1, <1>3, <1>5, <1>6 DEF Proceed
  <2>2. Typed'
    BY <1>2, <2>1 DEF IInv, Typed
  <2>3. Phases' /\ Stored'
    BY <1>2, <1>3, <2>1, NoEpochFields DEF IInv, Phases, Stored
  <2>4. Flow'
    BY <1>2, <2>1, FlowAside
  <2> QED BY <2>2, <2>3, <2>4 DEF IInv
<1>7. CASE e.batch # <<>> /\ e.panicked
  <2>1. Fail(e)
    BY <1>1, <1>7 DEF Proceed
  <2> QED BY <1>2, <1>3, <1>4, <1>5, <2>1, FailStep
<1>8. CASE e.batch # <<>> /\ ~e.panicked
  <2>1. /\ prepared' = e /\ successor' = NoEpoch /\ worker' = "top"
        /\ UNCHANGED <<queue, pending, claimed, store, outcome, flush>>
    BY <1>1, <1>8 DEF Proceed
  <2> QED BY <1>2, <1>5, <1>8, <2>1, SuccessorFollows
<1> QED BY <1>6, <1>7, <1>8


-----------------------------------------------------------------------------
(* The theorems.                                                             *)

LEMMA IInvStep == ASSUME IInv, [Next]_vars PROVE IInv'
<1>1. CASE \E c \in Clients : Submit(c)
  BY <1>1, SubmitStep
<1>2. CASE \E f \in Flushers : Flush(f)
  BY <1>2, FlushStep
<1>3. CASE \E w \in Foreign : StrictCommit(w)
  BY <1>3, StrictCommitStep
<1>4. CASE Shutdown
  BY <1>4, ShutdownStep
<1>5. CASE KernelCompletes
  BY <1>5, KernelCompletesStep
<1>6. CASE ReceiveBarrier \/ ReceiveIntent \/ Stop
  BY <1>6, ReceiveBarrierStep, ReceiveIntentStep, StopStep
<1>7. CASE ClaimFirst \/ ClaimMore \/ ClaimBarrier \/ ClaimEnds
  BY <1>7, ClaimFirstStep, ClaimMoreStep, ClaimBarrierStep, ClaimEndsStep
<1>8. CASE DeriveFirst \/ NothingFollows \/ PublishEmpty
  BY <1>8, DeriveFirstStep, NothingFollowsStep, PublishEmptyStep
<1>9. CASE PrepareFails \/ SubmitFails \/ SubmitEpoch \/ DeriveSuccessor
  BY <1>9, PrepareFailsStep, SubmitFailsStep, SubmitEpochStep, DeriveSuccessorStep
<1>10. CASE CompleteSucceeds \/ CompleteFails \/ Continue
  BY <1>10, CompleteSucceedsStep, CompleteFailsStep, ContinueStep
<1>11. CASE UNCHANGED vars
  BY <1>11, Unchanged DEF vars, workVars, worldVars, callVars, historyVars
<1> QED BY <1>1, <1>2, <1>3, <1>4, <1>5, <1>6, <1>7, <1>8, <1>9, <1>10, <1>11 DEF Next, Worker

\* The inductive invariant holds in every reachable state of the committer.
THEOREM Invariance == Spec => []IInv
<1>1. Init => IInv
  BY IInvInit
<1>2. IInv /\ [Next]_vars => IInv'
  BY IInvStep
<1> QED BY <1>1, <1>2, PTL DEF Spec

\* Readers never see a world that is not durable, whatever the ring reports and
\* however far ahead the committer derived; the file holds more than the
\* published world only for an epoch in flight or under a poisoned store.
THEOREM ReadersSeeDurable == Spec => []PublishedIsDurable
<1>1. IInv => PublishedIsDurable
  <2> SUFFICES ASSUME IInv PROVE PublishedIsDurable
    OBVIOUS
  <2>1. IsPrefix(current, file)
    BY Kinds, ExtendsFacts DEF IInv, Stored
  <2>2. file = current \/ io.at = "done" \/ store = "Poisoned"
    BY DEF IInv, Typed, Stored
  <2> QED BY <2>1, <2>2 DEF PublishedIsDurable
<1> QED BY <1>1, Invariance, PTL

\* No ticket is answered from a world that never was: a successor of a failed
\* epoch is derived anew, so every verdict comes from a published world, and the
\* accepted intents are exactly the published ones.
THEOREM VerdictsArePublished == Spec => []VerdictsFromPublished
<1>1. IInv => VerdictsFromPublished
  <2> SUFFICES ASSUME IInv, NEW c \in Clients
               PROVE  /\ outcome[c] \in {"accepted", "rejected", "failed"}
                            => IsPrefix(basis[c], current)
                      /\ outcome[c] = "accepted" <=> c \in Range(current)
    BY DEF VerdictsFromPublished
  <2>1. basis[c] \in Seq(Things) /\ current \in Seq(Things)
    BY DEF IInv, Typed
  <2>2. Extends(current, basis[c]) <=> IsPrefix(basis[c], current)
    BY <2>1, ExtendsFacts
  <2>3. Range(current) = Elems(current)
    BY <2>1, SeqFacts
  <2> QED BY <2>2, <2>3 DEF IInv, Flow, Verdicts
<1> QED BY <1>1, Invariance, PTL

\* The epochs keep the order in which the intents were sent, though batches are
\* claimed ahead of barriers, and a flush that succeeds follows the answers of
\* everything sent before it.
THEOREM OrderIsKept == Spec => []OrderAndBarriers
<1>1. IInv => OrderAndBarriers
  <2> SUFFICES ASSUME IInv PROVE OrderAndBarriers
    OBVIOUS
  <2>1. /\ current \in Seq(Things) /\ DOMAIN current = 1..Len(current)
        /\ sent \in Seq(Clients) /\ DOMAIN sent = 1..Len(sent)
        /\ Len(current) \in Nat
    BY Kinds, SeqFacts
  <2>2. ASSUME NEW i \in DOMAIN current, NEW j \in DOMAIN current, i <= j,
               current[i] \in Clients, current[j] \in Clients
        PROVE  \E k, l \in DOMAIN sent :
                   sent[k] = current[i] /\ sent[l] = current[j] /\ (i < j => k < l)
    <3>1. CASE i < j
      <4>1. Precedes(sent, current[i], current[j])
        BY <2>1, <2>2, <3>1 DEF IInv, Flow, InOrder, Sorted
      <4> QED BY <2>1, <4>1 DEF Precedes
    <3>2. CASE ~(i < j)
      <4>1. i = j
        BY <2>1, <2>2, <3>2
      <4>2. current[i] \in Elems(current)
        BY <2>1 DEF Elems
      <4>3. outcome[current[i]] = "accepted"
        BY <2>2, <4>2 DEF IInv, Flow, Verdicts
      <4>4. current[i] \in Elems(sent)
        BY <2>2, <4>3 DEF IInv, Flow, Located
      <4>5. PICK k \in DOMAIN sent : sent[k] = current[i]
        BY <2>1, <4>4 DEF Elems
      <4> QED BY <3>2, <4>1, <4>5
    <3> QED BY <3>1, <3>2
  <2>3. \A f \in Flushers : flush[f] = "ok" => \A c \in before[f] : outcome[c] # "queued"
    <3>1. \A f \in Flushers : before[f] \subseteq Clients
      BY DEF IInv, Typed
    <3> QED BY <3>1 DEF IInv, Flow, Barriers, Queued
  <2> QED BY <2>2, <2>3 DEF OrderAndBarriers
<1> QED BY <1>1, Invariance, PTL
=============================================================================
