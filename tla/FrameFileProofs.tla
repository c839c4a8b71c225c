--------------------------- MODULE FrameFileProofs --------------------------
(***************************************************************************)
(* TLAPS lemmas about FrameFile, which the proofs about both stores of the *)
(* commit file rest on: what cutting, truncating, recovering and writing   *)
(* back a file do to its chunks.                                           *)
(***************************************************************************)
EXTENDS FrameFile, SequenceTheorems, TLAPS

\* A file recovery accepts, said chunk by chunk: only the last chunk may be
\* torn, and every chunk claims the one before it as its parent.
Good(f) ==
    /\ \A i \in 1..Len(f) : ~f[i].whole => i = Len(f)
    /\ \A i \in 1..Len(f) :
        f[i].frame.parent = (IF i = 1 THEN Genesis ELSE f[i - 1].frame.world)

\* f begins with the complete records of the history h.
Holds(f, h) == Len(h) <= Len(f) /\ \A i \in 1..Len(h) : f[i] = Whole(h[i])

-----------------------------------------------------------------------------

LEMMA FcnIsSeq ==
    ASSUME NEW S, NEW n \in Nat, NEW f \in [1..n -> S]
    PROVE  f \in Seq(S) /\ Len(f) = n
<1>1. f \in Seq(S)
  BY SeqDef
<1>2. DOMAIN f = 1..Len(f) /\ Len(f) \in Nat
  BY <1>1, LenProperties
<1>3. 1..Len(f) = 1..n
  BY <1>2
<1> QED BY <1>1, <1>2, <1>3

LEMMA WholeFields ==
    ASSUME NEW x
    PROVE  /\ Whole(x).frame = x
           /\ Whole(x).whole = TRUE
           /\ x \in Frame => Whole(x) \in Chunk
BY DEF Whole, Chunk

\* A chunk is determined by its frame and its completeness.
LEMMA ChunkIsWhole ==
    ASSUME NEW c \in Chunk, c.whole
    PROVE  c = Whole(c.frame)
<1>1. c.whole = TRUE
  BY Zenon DEF Chunk
<1> QED BY <1>1 DEF Chunk, Whole

\* A file cut after n chunks, the last possibly torn.
LEMMA CutFacts ==
    ASSUME NEW f \in Seq(Chunk), NEW n \in 0..Len(f), NEW torn \in BOOLEAN
    PROVE  /\ Cut(f, n, torn) \in Seq(Chunk)
           /\ Len(Cut(f, n, torn)) = n
           /\ \A i \in 1..n : Cut(f, n, torn)[i].frame = f[i].frame
           /\ \A i \in 1..n : (i < n \/ ~torn) => Cut(f, n, torn)[i] = f[i]
<1>1. \A i \in 1..n : f[i] \in Chunk
  BY ElementOfSeq
<1>2. \A i \in 1..n : /\ [f[i] EXCEPT !.whole = FALSE] \in Chunk
                      /\ [f[i] EXCEPT !.whole = FALSE].frame = f[i].frame
  BY <1>1 DEF Chunk
<1>3. \A i \in 1..n : /\ Cut(f, n, torn)[i] = IF torn /\ i = n
                                             THEN [f[i] EXCEPT !.whole = FALSE] ELSE f[i]
  BY DEF Cut
<1>4. Cut(f, n, torn) \in [1..n -> Chunk]
  BY <1>1, <1>2 DEF Cut
<1>5. Cut(f, n, torn) \in Seq(Chunk) /\ Len(Cut(f, n, torn)) = n
  BY <1>4, FcnIsSeq
<1>6. \A i \in 1..n : Cut(f, n, torn)[i].frame = f[i].frame
  BY <1>2, <1>3
<1>7. ASSUME NEW i \in 1..n, i < n \/ ~torn PROVE Cut(f, n, torn)[i] = f[i]
  <2>1. i < n => i # n
    OBVIOUS
  <2>2. ~(torn /\ i = n)
    BY <1>7, <2>1, Zenon
  <2> QED BY <1>3, <2>2, Zenon
<1> QED BY <1>5, <1>6, <1>7

LEMMA CutGood ==
    ASSUME NEW f \in Seq(Chunk), NEW n \in 0..Len(f), NEW torn \in BOOLEAN, Good(f)
    PROVE  Good(Cut(f, n, torn))
<1> DEFINE c == Cut(f, n, torn)
<1>1. /\ c \in Seq(Chunk) /\ Len(c) = n /\ Len(f) \in Nat
      /\ \A i \in 1..n : c[i].frame = f[i].frame
      /\ \A i \in 1..n : (i < n \/ ~torn) => c[i] = f[i]
  BY CutFacts
<1> HIDE DEF c
<1>2. ASSUME NEW i \in 1..Len(c), ~c[i].whole PROVE i = Len(c)
  <2> SUFFICES ASSUME i # Len(c) PROVE FALSE
    OBVIOUS
  <2>1. i \in 1..n /\ i < n /\ i \in 1..Len(f) /\ i # Len(f)
    BY <1>1
  <2>2. c[i] = f[i]
    BY <1>1, <2>1
  <2> QED BY <1>2, <2>1, <2>2 DEF Good
<1>3. \A i \in 1..Len(c) :
        c[i].frame.parent = (IF i = 1 THEN Genesis ELSE c[i - 1].frame.world)
  <2> TAKE i \in 1..Len(c)
  <2>1. i \in 1..Len(f) /\ c[i].frame = f[i].frame
    BY <1>1
  <2>2. i # 1 => c[i - 1].frame = f[i - 1].frame
    BY <1>1
  <2> QED BY <2>1, <2>2 DEF Good
<1>4. Good(c)
  BY <1>2, <1>3 DEF Good
<1> QED BY <1>4 DEF c

\* The first n chunks of a file.
LEMMA PrefixFacts ==
    ASSUME NEW f \in Seq(Chunk), NEW n \in 0..Len(f)
    PROVE  /\ SubSeq(f, 1, n) \in Seq(Chunk)
           /\ Len(SubSeq(f, 1, n)) = n
           /\ \A i \in 1..n : SubSeq(f, 1, n)[i] = f[i]
           /\ Good(f) => Good(SubSeq(f, 1, n))
<1> DEFINE c == SubSeq(f, 1, n)
<1>1. \A i \in 1..n : f[i] \in Chunk
  BY ElementOfSeq
<1>2. c \in Seq(Chunk) /\ Len(c) = n /\ \A i \in 1..n : c[i] = f[i]
  BY <1>1, SubSeqProperties
<1> HIDE DEF c
<1>3. ASSUME Good(f) PROVE Good(c)
  <2>1. \A i \in 1..Len(c) : ~c[i].whole => i = Len(c)
    BY <1>2, <1>3 DEF Good
  <2>2. \A i \in 1..Len(c) :
          c[i].frame.parent = (IF i = 1 THEN Genesis ELSE c[i - 1].frame.world)
    <3> TAKE i \in 1..Len(c)
    <3>1. i \in 1..Len(f) /\ c[i] = f[i] /\ (i # 1 => c[i - 1] = f[i - 1])
      BY <1>2
    <3> QED BY <1>3, <3>1 DEF Good
  <2> QED BY <2>1, <2>2 DEF Good
<1> QED BY <1>2, <1>3 DEF c

\* What recovery reads from a file: the frame of every chunk but a torn tail.
LEMMA FramesOfFacts ==
    ASSUME NEW f \in Seq(Chunk)
    PROVE  /\ FramesOf(f) \in Seq(Frame)
           /\ Len(FramesOf(f)) = IF TornTail(f) THEN Len(f) - 1 ELSE Len(f)
           /\ \A i \in 1..Len(FramesOf(f)) : FramesOf(f)[i] = f[i].frame
<1> DEFINE n == Len(GoodPrefix(f))
<1>1. Len(f) \in Nat /\ (f # <<>> => Len(f) > 0)
  OBVIOUS
<1>2. n \in 0..Len(f) /\ n = IF TornTail(f) THEN Len(f) - 1 ELSE Len(f)
  <2>1. CASE TornTail(f)
    <3>1. Len(f) - 1 \in 0..Len(f)
      BY <1>1, <2>1 DEF TornTail
    <3> QED BY <2>1, <3>1, PrefixFacts DEF GoodPrefix
  <2>2. CASE ~TornTail(f)
    BY <1>1, <2>2 DEF GoodPrefix
  <2> QED BY <2>1, <2>2
<1>3. \A i \in 1..n : f[i].frame \in Frame
  <2> TAKE i \in 1..n
  <2>1. f[i] \in Chunk
    BY <1>2, ElementOfSeq
  <2> QED BY <2>1 DEF Chunk
<1>4. FramesOf(f) = [i \in 1..n |-> f[i].frame]
  BY DEF FramesOf
<1> HIDE DEF n
<1>5. FramesOf(f) \in [1..n -> Frame]
  BY <1>3, <1>4
<1>6. FramesOf(f) \in Seq(Frame) /\ Len(FramesOf(f)) = n
  BY <1>2, <1>5, FcnIsSeq
<1> QED BY <1>2, <1>4, <1>6

LEMMA GoodIsSound ==
    ASSUME NEW f \in Seq(Chunk), Good(f)
    PROVE  Sound(f)
<1>1. /\ FramesOf(f) \in Seq(Frame) /\ Len(FramesOf(f)) <= Len(f)
      /\ \A i \in 1..Len(FramesOf(f)) : FramesOf(f)[i] = f[i].frame
  BY FramesOfFacts
<1>2. LinearFrom(Genesis, FramesOf(f))
  <2> SUFFICES ASSUME NEW i \in 1..Len(FramesOf(f))
               PROVE  FramesOf(f)[i].parent
                        = (IF i = 1 THEN Genesis ELSE FramesOf(f)[i - 1].world)
    BY DEF LinearFrom
  <2>1. i \in 1..Len(f) /\ FramesOf(f)[i] = f[i].frame
    BY <1>1
  <2>2. i # 1 => FramesOf(f)[i - 1] = f[i - 1].frame
    BY <1>1
  <2> QED BY <2>1, <2>2 DEF Good
<1> QED BY <1>2 DEF Sound, Good

\* A file that begins with a history is recovered to a history that does.
LEMMA HoldsIsPrefix ==
    ASSUME NEW f \in Seq(Chunk), NEW h \in Seq(Frame), Good(f), Holds(f, h)
    PROVE  IsPrefixOf(h, FramesOf(f))
<1>1. /\ FramesOf(f) \in Seq(Frame)
      /\ Len(FramesOf(f)) = IF TornTail(f) THEN Len(f) - 1 ELSE Len(f)
      /\ \A i \in 1..Len(FramesOf(f)) : FramesOf(f)[i] = f[i].frame
      /\ Len(h) \in Nat /\ Len(f) \in Nat
  BY FramesOfFacts
<1>2. Len(h) <= Len(FramesOf(f))
  <2>1. CASE TornTail(f)
    <3>1. Len(h) # Len(f)
      <4> SUFFICES ASSUME Len(h) = Len(f) PROVE FALSE
        OBVIOUS
      <4>1. Len(f) \in 1..Len(h)
        BY <1>1, <2>1 DEF TornTail
      <4>2. f[Len(f)] = Whole(h[Len(f)])
        BY <4>1 DEF Holds
      <4>3. f[Len(f)].whole
        BY <4>2, WholeFields
      <4> QED BY <2>1, <4>3 DEF TornTail
    <3> QED BY <1>1, <2>1, <3>1 DEF Holds
  <2>2. CASE ~TornTail(f)
    BY <1>1, <2>2 DEF Holds
  <2> QED BY <2>1, <2>2
<1>3. \A i \in 1..Len(h) : h[i] = FramesOf(f)[i]
  <2> TAKE i \in 1..Len(h)
  <2>1. f[i] = Whole(h[i])
    BY DEF Holds
  <2>2. f[i].frame = h[i]
    BY <2>1, WholeFields
  <2>3. i \in 1..Len(FramesOf(f))
    BY <1>1, <1>2
  <2> QED BY <1>1, <2>2, <2>3
<1> QED BY <1>2, <1>3 DEF IsPrefixOf

\* What disk and file already agree on stays on disk.
LEMMA WritebackFacts ==
    ASSUME NEW d \in Seq(Chunk), NEW f \in Seq(Chunk), NEW img \in Writebacks(d, f)
    PROVE  /\ img \in Seq(Chunk) /\ (Good(f) => Good(img))
           /\ Len(img) <= Len(f)
           /\ \A i \in 1..Len(img) : img[i].frame = f[i].frame
           /\ \A i \in 1..Len(f) :
                (i <= Len(d) /\ \A j \in 1..i : d[j] = f[j]) => i <= Len(img) /\ img[i] = f[i]
<1>1. PICK n \in 0..Len(f), torn \in BOOLEAN : img = Cut(f, n, torn)
  BY DEF Writebacks
<1>2. /\ img \in Seq(Chunk) /\ Len(img) = n /\ \A i \in 1..n : img[i].frame = f[i].frame
  BY <1>1, CutFacts
<1>3. Good(f) => Good(img)
  BY <1>1, CutGood
<1>4. \A i \in 1..Len(f) :
        (i <= Len(d) /\ \A j \in 1..i : d[j] = f[j]) => i <= Len(img) /\ img[i] = f[i]
  BY DEF Writebacks
<1>5. Len(img) <= Len(f)
  BY <1>2
<1> QED BY <1>2, <1>3, <1>4, <1>5
=============================================================================
