------------------------ MODULE FileEpochStoreProofs ------------------------
(***************************************************************************)
(* TLAPS proofs about FileEpochStore: type correctness, survival of every  *)
(* acknowledged history, recoverability at every crash point, and the      *)
(* fencing of a poisoned store, for both synchronization policies and any  *)
(* number of epochs, frames, failures, process exits and power losses.     *)
(***************************************************************************)
EXTENDS FileEpochStore, FrameFileProofs

FilesGood == Good(file) /\ Good(disk)

Durable == Holds(file, acked) /\ Holds(disk, acked)

\* The verified frames of an open store are the beginning of its file.
Tracked == state # "Down" => Holds(file, frames) /\ Len(acked) <= Len(frames)

\* Which states go with which places of the running call.
Control ==
    /\ state = "Down" <=> pc \in {"down", "opensync"}
    /\ state = "Poisoned" => pc = "idle"
    /\ pc \in {"write", "sync"} => state = "Healthy"
    /\ pc = "opensync" => ~TornTail(file)
    /\ (state = "Healthy" /\ pc = "idle") => Len(file) = Len(frames)

InCall == pc \in {"write", "sync", "truncate", "repairsync", "verify"} => start = Len(frames)

\* Before a synchronization the file is the verified frames and a part of the
\* prepared epoch, which continues them.
Writing ==
    pc \in {"write", "sync"} =>
        /\ Len(epoch) > 0
        /\ start < goal /\ goal <= start + Len(epoch)
        /\ Len(file) <= goal
        /\ \A i \in 1..Len(epoch) :
            epoch[i].parent = (IF i = 1 THEN TailWorld(frames) ELSE epoch[i - 1].world)
        /\ \A i \in 1..Len(file) : i > start => file[i].frame = epoch[i - start]
        /\ pc = "sync" => Len(file) = goal /\ ~TornTail(file)

\* The inductive invariant.
IInv == TypeOK /\ FilesGood /\ Durable /\ Tracked /\ Control /\ InCall /\ Writing

-----------------------------------------------------------------------------
(* The epoch as it is written.                                               *)

\* What the two parts of a Target are.
LEMMA TargetFacts ==
    ASSUME TypeOK, start <= Len(file)
    PROVE  /\ Target \in Seq(Chunk)
           /\ Len(Target) = start + Len(epoch)
           /\ \A i \in 1..start : Target[i] = file[i]
           /\ \A i \in 1..Len(Target) : i > start => Target[i] = Whole(epoch[i - start])
<1>1. file \in Seq(Chunk) /\ epoch \in Seq(Frame) /\ start \in Nat
  BY DEF TypeOK
<1>2. start \in 0..Len(file) /\ Len(epoch) \in Nat
  BY <1>1
<1> DEFINE a == SubSeq(file, 1, start)
           b == Encoded(epoch)
<1>3. a \in Seq(Chunk) /\ Len(a) = start /\ \A i \in 1..start : a[i] = file[i]
  BY <1>1, <1>2, PrefixFacts
<1>4. DOMAIN epoch = 1..Len(epoch)
  BY <1>1
<1>5. b = [i \in 1..Len(epoch) |-> Whole(epoch[i])]
  BY <1>4 DEF Encoded
<1>6. \A i \in 1..Len(epoch) : Whole(epoch[i]) \in Chunk
  BY <1>1, ElementOfSeq, WholeFields
<1>7. b \in [1..Len(epoch) -> Chunk]
  BY <1>5, <1>6
<1>8. /\ b \in Seq(Chunk) /\ Len(b) = Len(epoch)
      /\ \A i \in 1..Len(epoch) : b[i] = Whole(epoch[i])
  BY <1>2, <1>5, <1>7, FcnIsSeq
<1>9. Target = a \o b
  BY DEF Target
<1> HIDE DEF a, b
<1>10. /\ a \o b \in Seq(Chunk) /\ Len(a \o b) = start + Len(epoch)
       /\ \A i \in 1..(start + Len(epoch)) :
             (a \o b)[i] = IF i <= start THEN a[i] ELSE b[i - start]
  <2>1. a \in Seq(Chunk) /\ b \in Seq(Chunk)
    BY <1>3, <1>8
  <2>2. /\ a \o b \in Seq(Chunk) /\ Len(a \o b) = Len(a) + Len(b)
        /\ \A i \in 1..(Len(a) + Len(b)) :
              (a \o b)[i] = IF i <= Len(a) THEN a[i] ELSE b[i - Len(a)]
    BY <2>1, ConcatProperties, Zenon
  <2>3. Len(a) = start /\ Len(b) = Len(epoch)
    BY <1>3, <1>8
  <2> QED BY <2>2, <2>3, Zenon
<1>11. \A i \in 1..start : Target[i] = file[i]
  BY <1>2, <1>3, <1>9, <1>10
<1>12. \A i \in 1..Len(Target) : i > start => Target[i] = Whole(epoch[i - start])
  <2> SUFFICES ASSUME NEW i \in 1..(start + Len(epoch)), i > start
               PROVE  Target[i] = Whole(epoch[i - start])
    BY <1>9, <1>10
  <2>1. i - start \in 1..Len(epoch) /\ ~(i <= start)
    BY <1>2
  <2> QED BY <1>8, <1>9, <1>10, <2>1
<1> QED BY <1>9, <1>10, <1>11, <1>12

\* The epoch continues the history, so the file it is written into stays good.
LEMMA TargetGood ==
    ASSUME IInv, pc = "write"
    PROVE  Good(Target)
<1>1. /\ file \in Seq(Chunk) /\ frames \in Seq(Frame) /\ epoch \in Seq(Frame)
      /\ start \in Nat /\ Len(file) \in Nat /\ Len(epoch) \in Nat
      /\ TypeOK
  BY DEF IInv, TypeOK
<1>2. start = Len(frames) /\ start <= Len(file) /\ Holds(file, frames) /\ Good(file)
  BY DEF IInv, InCall, Tracked, Control, Holds, FilesGood
<1>3. \A i \in 1..Len(epoch) :
          epoch[i].parent = (IF i = 1 THEN TailWorld(frames) ELSE epoch[i - 1].world)
  BY DEF IInv, Writing
<1>4. /\ Target \in Seq(Chunk) /\ Len(Target) = start + Len(epoch)
      /\ \A i \in 1..start : Target[i] = file[i]
      /\ \A i \in 1..Len(Target) : i > start => Target[i] = Whole(epoch[i - start])
  BY <1>1, <1>2, TargetFacts
<1>5. \A i \in 1..start : file[i] = Whole(frames[i])
  BY <1>2 DEF Holds
<1>6. \A i \in 1..Len(Target) : Target[i].whole
  <2> TAKE i \in 1..Len(Target)
  <2>1. CASE i <= start
    <3>1. Target[i] = Whole(frames[i])
      BY <1>1, <1>4, <1>5, <2>1
    <3> QED BY <3>1, WholeFields
  <2>2. CASE i > start
    BY <1>4, <2>2, WholeFields
  <2> QED BY <1>1, <1>4, <2>1, <2>2
<1>7. ASSUME NEW i \in 1..Len(Target)
      PROVE  Target[i].frame.parent = (IF i = 1 THEN Genesis ELSE Target[i - 1].frame.world)
  <2>1. CASE i <= start
    <3>1. i \in 1..start /\ i \in 1..Len(file) /\ (i # 1 => i - 1 \in 1..start)
      BY <1>1, <1>2, <2>1
    <3>2. Target[i] = file[i] /\ (i # 1 => Target[i - 1] = file[i - 1])
      BY <1>4, <3>1
    <3>3. file[i].frame.parent = (IF i = 1 THEN Genesis ELSE file[i - 1].frame.world)
      BY <1>2, <3>1 DEF Good
    <3> QED BY <3>2, <3>3
  <2>2. CASE i = start + 1
    <3>1. i > start /\ i - start = 1 /\ 1 \in 1..Len(epoch)
      BY <1>1, <1>4, <2>2
    <3>2. Target[i].frame = epoch[1]
      <4>1. Target[i] = Whole(epoch[i - start])
        BY <1>4, <3>1
      <4> QED BY <3>1, <4>1, WholeFields
    <3>3. epoch[1].parent = TailWorld(frames)
      BY <1>3, <3>1
    <3>4. CASE start = 0
      <4>1. frames = <<>>
        BY <1>1, <1>2, <3>4, EmptySeq
      <4> QED BY <2>2, <3>2, <3>3, <3>4, <4>1 DEF TailWorld
    <3>5. CASE start # 0
      <4>1. frames # <<>> /\ i # 1 /\ i - 1 = start /\ start \in 1..start
        BY <1>1, <1>2, <2>2, <3>5
      <4>2. Target[start] = Whole(frames[start])
        BY <1>4, <1>5, <4>1
      <4>3. Target[start].frame = frames[start]
        BY <4>2, WholeFields
      <4> QED BY <1>2, <3>2, <3>3, <4>1, <4>3 DEF TailWorld
    <3> QED BY <3>4, <3>5
  <2>3. CASE i > start + 1
    <3>1. /\ i > start /\ i - 1 > start /\ i # 1
          /\ i - start \in 1..Len(epoch) /\ i - start # 1
          /\ i - 1 \in 1..Len(Target) /\ (i - 1) - start = (i - start) - 1
      BY <1>1, <1>4, <2>3
    <3>2. Target[i] = Whole(epoch[i - start]) /\ Target[i - 1] = Whole(epoch[(i - start) - 1])
      BY <1>4, <3>1
    <3>3. Target[i].frame = epoch[i - start] /\ Target[i - 1].frame = epoch[(i - start) - 1]
      BY <3>2, WholeFields
    <3> QED BY <1>3, <3>1, <3>3
  <2> QED BY <1>1, <1>4, <2>1, <2>2, <2>3
<1> QED BY <1>6, <1>7 DEF Good

-----------------------------------------------------------------------------
(* The inductive invariant holds initially, and every action preserves it.   *)

LEMMA InitIInv == Init => IInv
<1> SUFFICES ASSUME Init PROVE IInv
  OBVIOUS
<1>1. TypeOK
  BY EmptySeq DEF Init, TypeOK, Policies
<1>2. Len(file) = 0 /\ Len(disk) = 0 /\ Len(acked) = 0
  BY DEF Init
<1>3. FilesGood /\ Durable
  BY <1>2 DEF FilesGood, Good, Durable, Holds
<1>4. Tracked /\ Control /\ InCall /\ Writing
  BY DEF Init, Tracked, Control, InCall, Writing
<1> QED BY <1>1, <1>3, <1>4 DEF IInv

\* open, when what it has read is good and has no torn tail.
LEMMA OpenedStep ==
    ASSUME IInv, Opened(file), ~TornTail(file), file' = file, disk' \in {disk, file},
           UNCHANGED <<epoch, start, goal, minted, acked, repaired>>
    PROVE  IInv'
<1>1. /\ file \in Seq(Chunk) /\ disk \in Seq(Chunk) /\ acked \in Seq(Frame)
      /\ Good(file) /\ Good(disk) /\ Holds(file, acked) /\ Holds(disk, acked)
  BY DEF IInv, TypeOK, FilesGood, Durable
<1>2. /\ frames' \in Seq(Frame) /\ Len(frames') = Len(file)
      /\ \A i \in 1..Len(frames') : frames'[i] = file[i].frame
  BY <1>1, FramesOfFacts DEF Opened
<1>3. \A i \in 1..Len(file) : file[i] = Whole(file[i].frame)
  <2> TAKE i \in 1..Len(file)
  <2>1. file[i] \in Chunk
    BY <1>1, ElementOfSeq
  <2>2. file[i].whole
    <3>1. i # Len(file) => file[i].whole
      BY <1>1 DEF Good
    <3>2. file # <<>>
      BY <1>1
    <3> QED BY <3>1, <3>2 DEF TornTail
  <2> QED BY <2>1, <2>2, ChunkIsWhole
<1>4. Holds(file, frames')
  BY <1>1, <1>2, <1>3 DEF Holds
<1>5. TypeOK'
  BY <1>1, <1>2 DEF IInv, TypeOK, Opened
<1>6. FilesGood' /\ Durable'
  BY <1>1 DEF FilesGood, Durable
<1>7. Len(acked) <= Len(frames')
  BY <1>1, <1>2 DEF Holds
<1>8. Tracked' /\ Control' /\ InCall' /\ Writing'
  BY <1>2, <1>4, <1>7 DEF Tracked, Control, InCall, Writing, Opened
<1> QED BY <1>5, <1>6, <1>8 DEF IInv

LEMMA OpenTruncateStep == ASSUME IInv, OpenTruncate PROVE IInv'
<1>1. /\ file \in Seq(Chunk) /\ acked \in Seq(Frame) /\ Len(file) \in Nat
      /\ Good(file) /\ Good(disk) /\ Holds(file, acked) /\ Holds(disk, acked)
      /\ state = "Down"
  BY DEF IInv, TypeOK, FilesGood, Durable, Control, OpenTruncate
<1>2. TornTail(file) /\ file' = SubSeq(file, 1, Len(file) - 1)
  BY DEF OpenTruncate, GoodPrefix
<1>3. Len(file) - 1 \in 0..Len(file)
  BY <1>1, <1>2 DEF TornTail
<1>4. /\ file' \in Seq(Chunk) /\ Len(file') = Len(file) - 1 /\ Good(file')
      /\ \A i \in 1..(Len(file) - 1) : file'[i] = file[i]
  BY <1>1, <1>2, <1>3, PrefixFacts
<1>5. Len(acked) <= Len(file')
  BY <1>1, <1>2, <1>4, HoldsIsPrefix, FramesOfFacts DEF IsPrefixOf
<1>6. Holds(file', acked)
  BY <1>1, <1>4, <1>5 DEF Holds
<1>7. ~TornTail(file')
  <2> SUFFICES ASSUME file' # <<>> PROVE file'[Len(file')].whole
    BY DEF TornTail
  <2>1. Len(file') \in 1..(Len(file) - 1) /\ Len(file') \in 1..Len(file) /\ Len(file') # Len(file)
    BY <1>1, <1>3, <1>4, EmptySeq
  <2> QED BY <1>1, <1>4, <2>1 DEF Good
<1>8. TypeOK'
  BY <1>4 DEF IInv, TypeOK, OpenTruncate, ghosts
<1>9. FilesGood' /\ Durable'
  BY <1>1, <1>4, <1>6 DEF FilesGood, Durable, OpenTruncate, ghosts
<1>10. Tracked' /\ Control' /\ InCall' /\ Writing'
  BY <1>1, <1>7 DEF Tracked, Control, InCall, Writing, OpenTruncate
<1> QED BY <1>8, <1>9, <1>10 DEF IInv

LEMMA OpenStep == ASSUME IInv, Open PROVE IInv'
<1>1. CASE OpenClean
  BY <1>1, OpenedStep DEF OpenClean
<1>2. CASE OpenTruncate
  BY <1>2, OpenTruncateStep
<1>3. CASE OpenSync
  <2>1. ~TornTail(file)
    BY <1>3 DEF IInv, Control, OpenSync
  <2> QED BY <1>3, <2>1, OpenedStep DEF OpenSync
<1>4. CASE OpenSyncFails
  <2>1. UNCHANGED <<policy, file, disk, state, frames, epoch, start, goal, minted,
                    acked, repaired, visible>> /\ pc = "opensync" /\ pc' = "down"
    BY <1>4 DEF OpenSyncFails, ghosts
  <2>2. TypeOK'
    BY <2>1 DEF IInv, TypeOK
  <2>3. FilesGood' /\ Durable'
    BY <2>1 DEF IInv, FilesGood, Durable
  <2>4. Tracked' /\ Control' /\ InCall' /\ Writing'
    BY <2>1 DEF IInv, Tracked, Control, InCall, Writing
  <2> QED BY <2>2, <2>3, <2>4 DEF IInv
<1> QED BY <1>1, <1>2, <1>3, <1>4 DEF Open

\* The prepared epoch is a chain from the verified tail.
LEMMA PrepareEpochStep ==
    ASSUME IInv, NEW base \in Nat, NEW n \in Nat \ {0}, PrepareEpoch(base, n)
    PROVE  IInv'
<1>1. /\ pc = "idle" /\ state = "Healthy" /\ base = TailWorld(frames)
      /\ epoch' = Chain(base, n) /\ minted' = minted + n
      /\ start' = Len(file) /\ pc' = "write"
      /\ goal' = Len(file) + (IF policy = "PerEpoch" THEN n ELSE 1)
      /\ UNCHANGED <<policy, file, disk, state, frames, acked, repaired, visible>>
  BY DEF PrepareEpoch, Admissible, ghosts
<1>2. /\ minted \in Nat /\ Len(file) = Len(frames) /\ file \in Seq(Chunk)
      /\ Len(file) \in Nat
  BY <1>1 DEF IInv, TypeOK, Control
<1>3. \A i \in 1..n : [parent |-> IF i = 1 THEN base ELSE minted + i - 1,
                       world |-> minted + i] \in Frame
  BY <1>2 DEF Frame
<1>4. Chain(base, n) \in [1..n -> Frame]
  BY <1>3 DEF Chain
<1>5. epoch' \in Seq(Frame) /\ Len(epoch') = n
  BY <1>1, <1>4, FcnIsSeq
<1>6. \A i \in 1..n : /\ epoch'[i].parent = (IF i = 1 THEN base ELSE minted + i - 1)
                      /\ epoch'[i].world = minted + i
  <2> TAKE i \in 1..n
  <2>1. epoch'[i] = [parent |-> IF i = 1 THEN base ELSE minted + i - 1,
                     world |-> minted + i]
    BY <1>1, Zenon DEF Chain
  <2> QED BY <2>1
<1>7. \A i \in 1..n :
        epoch'[i].parent = (IF i = 1 THEN TailWorld(frames) ELSE epoch'[i - 1].world)
  <2> TAKE i \in 1..n
  <2>1. CASE i = 1
    BY <1>1, <1>6, <2>1
  <2>2. CASE i # 1
    <3>1. i - 1 \in 1..n /\ minted + (i - 1) = minted + i - 1
      BY <1>2, <2>2
    <3>2. epoch'[i - 1].world = minted + (i - 1)
      BY <1>6, <3>1
    <3>3. epoch'[i].parent = minted + i - 1
      BY <1>6, <2>2
    <3> QED BY <2>2, <3>1, <3>2, <3>3
  <2> QED BY <2>1, <2>2
<1>8. goal' \in Nat /\ start' < goal' /\ goal' <= start' + Len(epoch')
  BY <1>1, <1>2, <1>5
<1>9. TypeOK'
  BY <1>1, <1>2, <1>5, <1>8 DEF IInv, TypeOK
<1>10. FilesGood' /\ Durable' /\ Tracked' /\ Control' /\ InCall'
  BY <1>1, <1>2 DEF IInv, FilesGood, Durable, Tracked, Control, InCall
<1>11. Writing'
  <2>1. \A i \in 1..Len(file) : ~(i > start')
    BY <1>1, <1>2
  <2>2. Len(epoch') > 0 /\ Len(file') <= goal'
    BY <1>1, <1>2, <1>5, <1>8
  <2> QED BY <1>1, <1>5, <1>7, <1>8, <2>1, <2>2 DEF Writing
<1> QED BY <1>9, <1>10, <1>11 DEF IInv

\* A write changes nothing below the checkpoint.
LEMMA WriteAtStep == ASSUME IInv, WriteAt PROVE IInv'
<1>1. PICK n \in Len(file)..goal, torn \in BOOLEAN :
        /\ n > start
        /\ file' = Cut(Target, n, torn)
        /\ pc' = IF n = goal /\ ~torn THEN "sync" ELSE "write"
  BY DEF WriteAt
<1>2. /\ pc = "write"
      /\ UNCHANGED <<policy, disk, state, frames, epoch, start, goal, minted,
                     acked, repaired, visible>>
  BY DEF WriteAt, ghosts
<1>3. /\ TypeOK /\ state = "Healthy" /\ start = Len(frames)
      /\ Holds(file, frames) /\ Holds(file, acked) /\ Holds(disk, acked)
      /\ Good(disk) /\ Len(acked) <= Len(frames)
      /\ goal <= start + Len(epoch)
  BY <1>2 DEF IInv, Control, InCall, Tracked, Durable, FilesGood, Writing
<1>4. /\ start \in Nat /\ goal \in Nat /\ Len(file) \in Nat /\ Len(epoch) \in Nat
      /\ Len(acked) \in Nat /\ Len(frames) \in Nat /\ start <= Len(file)
  BY <1>3 DEF TypeOK, Holds
<1>5. /\ Target \in Seq(Chunk) /\ Len(Target) = start + Len(epoch)
      /\ \A i \in 1..start : Target[i] = file[i]
      /\ \A i \in 1..Len(Target) : i > start => Target[i] = Whole(epoch[i - start])
  BY <1>3, <1>4, TargetFacts
<1>6. n \in 0..Len(Target) /\ n <= goal /\ n \in Nat
  BY <1>3, <1>4, <1>5
<1>7. /\ file' \in Seq(Chunk) /\ Len(file') = n
      /\ \A i \in 1..n : file'[i].frame = Target[i].frame
      /\ \A i \in 1..n : (i < n \/ ~torn) => file'[i] = Target[i]
  BY <1>1, <1>5, <1>6, CutFacts
<1>8. Good(file')
  BY <1>1, <1>2, <1>5, <1>6, TargetGood, CutGood
<1>9. \A i \in 1..start : file'[i] = file[i]
  BY <1>1, <1>4, <1>5, <1>6, <1>7
<1>10. Holds(file', frames) /\ Holds(file', acked)
  BY <1>1, <1>3, <1>4, <1>6, <1>7, <1>9 DEF Holds
<1>11. \A i \in 1..Len(file') : i > start => file'[i].frame = epoch[i - start]
  <2> SUFFICES ASSUME NEW i \in 1..n, i > start PROVE file'[i].frame = epoch[i - start]
    BY <1>7
  <2>1. Target[i] = Whole(epoch[i - start])
    BY <1>5, <1>6
  <2>2. Target[i].frame = epoch[i - start]
    BY <2>1, WholeFields
  <2> QED BY <1>7, <2>2
<1>12. pc' = "sync" => Len(file') = goal /\ ~TornTail(file')
  <2> SUFFICES ASSUME pc' = "sync" PROVE Len(file') = goal /\ ~TornTail(file')
    OBVIOUS
  <2>1. n = goal /\ ~torn
    BY <1>1
  <2>2. n \in 1..n /\ n \in 1..Len(Target)
    BY <1>1, <1>4, <1>6
  <2>3. file'[n] = Whole(epoch[n - start])
    BY <1>1, <1>5, <1>7, <2>1, <2>2
  <2>4. file'[Len(file')].whole
    BY <1>7, <2>3, WholeFields
  <2> QED BY <1>7, <2>1, <2>4 DEF TornTail
<1>13. TypeOK'
  BY <1>1, <1>2, <1>7 DEF IInv, TypeOK
<1>14. FilesGood' /\ Durable' /\ Tracked'
  BY <1>2, <1>3, <1>8, <1>10 DEF FilesGood, Durable, Tracked
<1>15. Control' /\ InCall'
  BY <1>1, <1>2, <1>3 DEF Control, InCall
<1>16. Len(file') <= goal
  BY <1>6, <1>7
<1>17. Writing'
  <2>1. /\ Len(epoch) > 0 /\ start < goal /\ goal <= start + Len(epoch)
        /\ \A i \in 1..Len(epoch) :
            epoch[i].parent = (IF i = 1 THEN TailWorld(frames) ELSE epoch[i - 1].world)
    BY <1>2 DEF IInv, Writing
  <2> QED BY <1>2, <1>11, <1>12, <1>16, <2>1 DEF Writing
<1> QED BY <1>13, <1>14, <1>15, <1>17 DEF IInv

LEMMA PrimaryFailureStep == ASSUME IInv, PrimaryFailure PROVE IInv'
<1>1. /\ pc \in {"write", "sync"} /\ state' = "Repairing" /\ pc' = "truncate"
      /\ UNCHANGED <<policy, file, disk, frames, epoch, start, goal, minted,
                     acked, repaired, visible>>
  BY DEF PrimaryFailure, ghosts
<1>2. TypeOK'
  BY <1>1 DEF IInv, TypeOK
<1>3. FilesGood' /\ Durable'
  BY <1>1 DEF IInv, FilesGood, Durable
<1>4. Tracked' /\ Control' /\ InCall' /\ Writing'
  BY <1>1 DEF IInv, Tracked, Control, InCall, Writing
<1> QED BY <1>2, <1>3, <1>4 DEF IInv

LEMMA SyncFrameStep == ASSUME IInv, SyncFrame PROVE IInv'
<1>1. /\ pc = "sync" /\ goal < start + Len(epoch) /\ disk' = file /\ goal' = goal + 1
      /\ pc' = "write"
      /\ UNCHANGED <<policy, file, state, frames, epoch, start, minted, acked, repaired, visible>>
  BY DEF SyncFrame, ghosts
<1>2. goal \in Nat /\ start \in Nat /\ Len(epoch) \in Nat /\ Len(file) = goal
  BY <1>1 DEF IInv, TypeOK, Writing
<1>3. TypeOK'
  BY <1>1, <1>2 DEF IInv, TypeOK
<1>4. FilesGood' /\ Durable'
  BY <1>1 DEF IInv, FilesGood, Durable
<1>5. Tracked' /\ Control' /\ InCall'
  BY <1>1 DEF IInv, Tracked, Control, InCall
<1>6. Writing'
  <2>1. /\ Len(epoch) > 0 /\ start < goal
        /\ \A i \in 1..Len(epoch) :
            epoch[i].parent = (IF i = 1 THEN TailWorld(frames) ELSE epoch[i - 1].world)
        /\ \A i \in 1..Len(file) : i > start => file[i].frame = epoch[i - start]
    BY <1>1 DEF IInv, Writing
  <2>2. start < goal + 1 /\ goal + 1 <= start + Len(epoch) /\ Len(file) <= goal + 1
    BY <1>1, <1>2, <2>1
  <2> QED BY <1>1, <2>1, <2>2 DEF Writing
<1> QED BY <1>3, <1>4, <1>5, <1>6 DEF IInv

\* The last synchronization of an epoch: the file is exactly the old history
\* followed by the epoch, all records complete.
LEMMA SyncEpochStep == ASSUME IInv, SyncEpoch PROVE IInv'
<1>1. /\ pc = "sync" /\ goal = start + Len(epoch) /\ disk' = file /\ pc' = "idle"
      /\ frames' = frames \o epoch /\ acked' = frames \o epoch /\ visible' = frames \o epoch
      /\ UNCHANGED <<policy, file, state, epoch, start, goal, minted, repaired>>
  BY DEF SyncEpoch
<1>2. /\ file \in Seq(Chunk) /\ frames \in Seq(Frame) /\ epoch \in Seq(Frame)
      /\ start = Len(frames) /\ state = "Healthy" /\ Good(file) /\ Holds(file, frames)
      /\ Len(file) = goal /\ ~TornTail(file)
      /\ \A i \in 1..Len(file) : i > start => file[i].frame = epoch[i - start]
  BY <1>1 DEF IInv, TypeOK, Control, InCall, FilesGood, Tracked, Writing
<1>3. Len(file) \in Nat /\ Len(frames) \in Nat /\ Len(epoch) \in Nat
  BY <1>2
<1>4. /\ frames \o epoch \in Seq(Frame)
      /\ Len(frames \o epoch) = Len(frames) + Len(epoch)
      /\ \A i \in 1..(Len(frames) + Len(epoch)) :
            (frames \o epoch)[i] = IF i <= Len(frames) THEN frames[i]
                                                      ELSE epoch[i - Len(frames)]
  BY <1>2, ConcatProperties, Zenon
<1>5. Len(file) = Len(frames \o epoch)
  BY <1>1, <1>2, <1>3, <1>4
<1>6. \A i \in 1..Len(file) : file[i] = Whole((frames \o epoch)[i])
  <2> TAKE i \in 1..Len(file)
  <2>1. i \in 1..(Len(frames) + Len(epoch))
    BY <1>4, <1>5
  <2>2. CASE i <= Len(frames)
    <3>1. (frames \o epoch)[i] = frames[i]
      BY <1>4, <2>1, <2>2
    <3>2. i \in 1..Len(frames)
      BY <1>3, <2>2
    <3>3. file[i] = Whole(frames[i])
      BY <1>2, <3>2 DEF Holds
    <3> QED BY <3>1, <3>3
  <2>3. CASE i > Len(frames)
    <3>1. file[i] \in Chunk
      BY <1>2, ElementOfSeq
    <3>2. file[i].whole
      <4>1. i # Len(file) => file[i].whole
        BY <1>2 DEF Good
      <4>2. file # <<>>
        BY <1>2
      <4> QED BY <1>2, <4>1, <4>2 DEF TornTail
    <3>3. file[i] = Whole(file[i].frame)
      BY <3>1, <3>2, ChunkIsWhole
    <3>4. ~(i <= Len(frames))
      BY <1>3, <2>3
    <3>5. (frames \o epoch)[i] = epoch[i - Len(frames)]
      BY <1>4, <2>1, <3>4
    <3>6. file[i].frame = epoch[i - Len(frames)]
      BY <1>2, <2>3
    <3> QED BY <3>3, <3>5, <3>6
  <2>4. i <= Len(frames) \/ i > Len(frames)
    BY <1>3
  <2> QED BY <2>2, <2>3, <2>4, Zenon
<1>7. Holds(file, frames \o epoch)
  BY <1>3, <1>5, <1>6 DEF Holds
<1>8. TypeOK'
  BY <1>1, <1>2, <1>4 DEF IInv, TypeOK
<1>9. FilesGood' /\ Durable'
  BY <1>1, <1>2, <1>7 DEF FilesGood, Durable
<1>10. Tracked' /\ Control' /\ InCall' /\ Writing'
  BY <1>1, <1>2, <1>3, <1>5, <1>7 DEF Tracked, Control, InCall, Writing
<1> QED BY <1>8, <1>9, <1>10 DEF IInv

LEMMA AppendEpochStep == ASSUME IInv, AppendEpoch PROVE IInv'
<1>1. CASE \E base \in 0..MaxFrames, n \in 1..MaxEpoch : PrepareEpoch(base, n)
  <2>1. PICK base \in 0..MaxFrames, n \in 1..MaxEpoch : PrepareEpoch(base, n)
    BY <1>1
  <2>2. base \in Nat /\ n \in Nat \ {0}
    BY FileEpochAssumption
  <2> QED BY <2>1, <2>2, PrepareEpochStep
<1>2. CASE WriteAt \/ PrimaryFailure \/ SyncFrame \/ SyncEpoch
  BY <1>2, WriteAtStep, PrimaryFailureStep, SyncFrameStep, SyncEpochStep
<1> QED BY <1>1, <1>2 DEF AppendEpoch

\* set_len back to the checkpoint keeps the verified frames and drops the rest,
\* whether or not the call that did it reports success.
LEMMA TruncatedFile ==
    ASSUME IInv, pc = "truncate", file' = SubSeq(file, 1, start)
    PROVE  /\ file' \in Seq(Chunk) /\ Len(file') = start /\ Good(file')
           /\ Holds(file', frames) /\ Holds(file', acked)
<1>1. /\ file \in Seq(Chunk) /\ start = Len(frames) /\ Good(file)
      /\ Holds(file, frames) /\ Holds(file, acked) /\ Len(acked) <= Len(frames)
      /\ frames \in Seq(Frame) /\ acked \in Seq(Frame)
  BY DEF IInv, TypeOK, InCall, FilesGood, Tracked, Control, Durable
<1>2. start \in 0..Len(file) /\ Len(acked) \in Nat
  BY <1>1 DEF Holds
<1>3. /\ file' \in Seq(Chunk) /\ Len(file') = start /\ Good(file')
      /\ \A i \in 1..start : file'[i] = file[i]
  BY <1>1, <1>2, PrefixFacts
<1> QED BY <1>1, <1>2, <1>3 DEF Holds

LEMMA RepairTruncateStep == ASSUME IInv, RepairTruncate PROVE IInv'
<1>1. /\ pc = "truncate" /\ pc' = "repairsync" /\ file' = SubSeq(file, 1, start)
      /\ UNCHANGED <<policy, disk, state, frames, epoch, start, goal, minted,
                     acked, repaired, visible>>
  BY DEF RepairTruncate, ghosts
<1>2. /\ file' \in Seq(Chunk) /\ Len(file') = start /\ Good(file')
      /\ Holds(file', frames) /\ Holds(file', acked)
  BY <1>1, TruncatedFile
<1>3. TypeOK'
  BY <1>1, <1>2 DEF IInv, TypeOK
<1>4. FilesGood' /\ Durable' /\ Tracked'
  BY <1>1, <1>2 DEF IInv, FilesGood, Durable, Tracked
<1>5. Control' /\ InCall' /\ Writing'
  BY <1>1, <1>2 DEF IInv, Control, InCall, Writing
<1> QED BY <1>3, <1>4, <1>5 DEF IInv

LEMMA RepairSyncStep == ASSUME IInv, RepairSync PROVE IInv'
<1>1. /\ pc = "repairsync" /\ pc' = "verify" /\ disk' = file
      /\ UNCHANGED <<policy, file, state, frames, epoch, start, goal, minted,
                     acked, repaired, visible>>
  BY DEF RepairSync, ghosts
<1>2. TypeOK'
  BY <1>1 DEF IInv, TypeOK
<1>3. FilesGood' /\ Durable' /\ Tracked'
  BY <1>1 DEF IInv, FilesGood, Durable, Tracked
<1>4. Control' /\ InCall' /\ Writing'
  BY <1>1 DEF IInv, Control, InCall, Writing
<1> QED BY <1>2, <1>3, <1>4 DEF IInv

\* The encoding of a history has one chunk per frame.
LEMMA EncodedFacts ==
    ASSUME NEW h \in Seq(Frame)
    PROVE  /\ Encoded(h) \in Seq(Chunk)
           /\ Len(Encoded(h)) = Len(h)
           /\ \A i \in 1..Len(h) : Encoded(h)[i] = Whole(h[i])
<1>1. DOMAIN h = 1..Len(h) /\ Len(h) \in Nat
  OBVIOUS
<1>2. Encoded(h) = [i \in 1..Len(h) |-> Whole(h[i])]
  BY <1>1 DEF Encoded
<1>3. \A i \in 1..Len(h) : Whole(h[i]) \in Chunk
  BY ElementOfSeq, WholeFields
<1>4. Encoded(h) \in [1..Len(h) -> Chunk]
  BY <1>2, <1>3
<1> QED BY <1>1, <1>2, <1>4, FcnIsSeq

LEMMA RepairVerifiedStep == ASSUME IInv, RepairVerified PROVE IInv'
<1>1. /\ pc = "verify" /\ pc' = "idle" /\ state' = "Healthy" /\ file = Encoded(frames)
      /\ repaired' = repaired \cup {epoch[i] : i \in 1..Len(epoch)}
      /\ UNCHANGED <<policy, file, disk, frames, epoch, start, goal, minted, acked, visible>>
  BY DEF RepairVerified, Verified
<1>2. epoch \in Seq(Frame) /\ frames \in Seq(Frame) /\ repaired \in SUBSET Frame
  BY DEF IInv, TypeOK
<1>3. Len(file) = Len(frames)
  BY <1>1, <1>2, EncodedFacts
<1>4. \A i \in 1..Len(epoch) : epoch[i] \in Frame
  BY <1>2, ElementOfSeq
<1>5. TypeOK'
  BY <1>1, <1>2, <1>4 DEF IInv, TypeOK
<1>6. FilesGood' /\ Durable'
  BY <1>1 DEF IInv, FilesGood, Durable
<1>7. state # "Down"
  BY <1>1 DEF IInv, Control
<1>8. Tracked' /\ Control' /\ InCall' /\ Writing'
  BY <1>1, <1>3, <1>7 DEF IInv, Tracked, Control, InCall, Writing
<1> QED BY <1>5, <1>6, <1>8 DEF IInv

LEMMA RepairFailsStep == ASSUME IInv, RepairFails PROVE IInv'
<1>1. /\ pc \in {"truncate", "repairsync", "verify"}
      /\ file' = file \/ (pc = "truncate" /\ file' = SubSeq(file, 1, start))
      /\ state' = "Poisoned" /\ pc' = "idle"
      /\ UNCHANGED <<policy, disk, frames, epoch, start, goal, minted, acked, repaired, visible>>
  BY DEF RepairFails, ghosts
<1>2. state # "Down"
  BY <1>1 DEF IInv, Control
<1>3. file' \in Seq(Chunk) /\ Good(file') /\ Holds(file', frames) /\ Holds(file', acked)
  <2>1. CASE file' = file
    BY <1>2, <2>1 DEF IInv, TypeOK, FilesGood, Tracked, Durable
  <2>2. CASE pc = "truncate" /\ file' = SubSeq(file, 1, start)
    BY <2>2, TruncatedFile
  <2> QED BY <1>1, <2>1, <2>2
<1>4. TypeOK'
  BY <1>1, <1>3 DEF IInv, TypeOK
<1>5. FilesGood' /\ Durable' /\ Tracked'
  BY <1>1, <1>2, <1>3 DEF IInv, FilesGood, Durable, Tracked
<1>6. Control' /\ InCall' /\ Writing'
  BY <1>1, <1>2 DEF Control, InCall, Writing
<1> QED BY <1>4, <1>5, <1>6 DEF IInv

LEMMA PoisonExternalStep == ASSUME IInv, PoisonExternal PROVE IInv'
<1>1. /\ pc = "idle" /\ state' = "Poisoned"
      /\ UNCHANGED <<policy, file, disk, pc, frames, epoch, start, goal, minted,
                     acked, repaired, visible>>
  BY DEF PoisonExternal, ghosts
<1>2. TypeOK'
  BY <1>1 DEF IInv, TypeOK
<1>3. FilesGood' /\ Durable'
  BY <1>1 DEF IInv, FilesGood, Durable
<1>4. Tracked' /\ Control' /\ InCall' /\ Writing'
  BY <1>1 DEF IInv, Tracked, Control, InCall, Writing
<1> QED BY <1>2, <1>3, <1>4 DEF IInv

LEMMA WritebackStep == ASSUME IInv, Writeback PROVE IInv'
<1>1. /\ disk' \in Writebacks(disk, file)
      /\ UNCHANGED <<policy, file, state, pc, frames, epoch, start, goal, minted,
                     acked, repaired, visible>>
  BY DEF Writeback, ghosts
<1>2. /\ file \in Seq(Chunk) /\ disk \in Seq(Chunk) /\ Good(file)
      /\ Holds(file, acked) /\ Holds(disk, acked) /\ acked \in Seq(Frame)
  BY DEF IInv, TypeOK, FilesGood, Durable
<1>3. /\ disk' \in Seq(Chunk) /\ Good(disk')
      /\ \A i \in 1..Len(file) :
           (i <= Len(disk) /\ \A j \in 1..i : disk[j] = file[j])
             => i <= Len(disk') /\ disk'[i] = file[i]
  BY <1>1, <1>2, WritebackFacts
<1>4. ASSUME NEW i \in 1..Len(acked)
      PROVE  i <= Len(disk') /\ disk'[i] = Whole(acked[i])
  <2>1. i \in 1..Len(file) /\ i <= Len(disk)
    BY <1>2 DEF Holds
  <2>2. \A j \in 1..i : disk[j] = file[j]
    <3> TAKE j \in 1..i
    <3>1. j \in 1..Len(acked)
      BY <1>2
    <3> QED BY <1>2, <3>1 DEF Holds
  <2>3. i <= Len(disk') /\ disk'[i] = file[i]
    BY <1>3, <2>1, <2>2
  <2> QED BY <1>2, <2>3 DEF Holds
<1>5. Len(acked) <= Len(disk')
  <2>1. Len(acked) \in Nat /\ Len(disk') \in Nat
    BY <1>2, <1>3
  <2>2. Len(acked) = 0 \/ Len(acked) \in 1..Len(acked)
    BY <2>1
  <2> QED BY <1>4, <2>1, <2>2
<1>6. Holds(disk', acked)
  BY <1>4, <1>5 DEF Holds
<1>7. TypeOK'
  BY <1>1, <1>3 DEF IInv, TypeOK
<1>8. FilesGood' /\ Durable' /\ Tracked'
  BY <1>1, <1>2, <1>3, <1>6 DEF IInv, FilesGood, Durable, Tracked
<1>9. Control' /\ InCall' /\ Writing'
  BY <1>1 DEF IInv, Control, InCall, Writing
<1> QED BY <1>7, <1>8, <1>9 DEF IInv

\* Losing the process, and with it perhaps the page cache.
LEMMA GoneStep ==
    ASSUME IInv, Gone, file' \in {file, disk}, disk' = disk
    PROVE  IInv'
<1>1. /\ state' = "Down" /\ pc' = "down" /\ frames' = <<>> /\ epoch' = <<>>
      /\ start' = 0 /\ goal' = 0
      /\ UNCHANGED <<policy, minted, acked, repaired, visible>>
  BY DEF Gone, ghosts
<1>2. TypeOK'
  BY <1>1, EmptySeq DEF IInv, TypeOK
<1>3. FilesGood' /\ Durable'
  BY <1>1 DEF IInv, FilesGood, Durable
<1>4. Tracked' /\ Control' /\ InCall' /\ Writing'
  BY <1>1 DEF Tracked, Control, InCall, Writing
<1> QED BY <1>2, <1>3, <1>4 DEF IInv

LEMMA NextIInv == IInv /\ [Next]_vars => IInv'
<1> SUFFICES ASSUME IInv, [Next]_vars PROVE IInv'
  OBVIOUS
<1>1. CASE Open
  BY <1>1, OpenStep
<1>2. CASE AppendEpoch
  BY <1>2, AppendEpochStep
<1>3. CASE Repair
  BY <1>3, RepairTruncateStep, RepairSyncStep, RepairVerifiedStep, RepairFailsStep DEF Repair
<1>4. CASE PoisonExternal
  BY <1>4, PoisonExternalStep
<1>5. CASE Environment
  <2>1. CASE Writeback
    BY <2>1, WritebackStep
  <2>2. CASE ProcessExit
    BY <2>2, GoneStep DEF ProcessExit
  <2>3. CASE PowerLoss
    BY <2>3, GoneStep DEF PowerLoss
  <2> QED BY <1>5, <2>1, <2>2, <2>3 DEF Environment
<1>6. CASE UNCHANGED vars
  <2>1. TypeOK' /\ FilesGood' /\ Durable'
    BY <1>6 DEF IInv, vars, TypeOK, FilesGood, Durable
  <2>2. Tracked' /\ Control' /\ InCall' /\ Writing'
    BY <1>6 DEF IInv, vars, Tracked, Control, InCall, Writing
  <2> QED BY <2>1, <2>2 DEF IInv
<1> QED BY <1>1, <1>2, <1>3, <1>4, <1>5, <1>6 DEF Next

-----------------------------------------------------------------------------
(* The theorems.                                                             *)

\* The inductive invariant holds in every reachable state of the store.
THEOREM Invariance == Spec => []IInv
BY InitIInv, NextIInv, PTL DEF Spec

\* Every variable keeps its type, across any crash and recovery.
THEOREM TypeCorrect == Spec => []TypeOK
<1>1. IInv => TypeOK
  BY DEF IInv
<1> QED BY <1>1, Invariance, PTL

\* What append_epoch reported durable is recovered after any later failure.
THEOREM AckedHistorySurvives == Spec => []AckedSurvives
<1>1. IInv => AckedSurvives
  BY HoldsIsPrefix DEF IInv, TypeOK, FilesGood, Durable, AckedSurvives
<1> QED BY <1>1, Invariance, PTL

\* At every point where the process or the machine may stop, the file and the
\* disk are ones FileCommitStore::open recovers without a corruption error.
THEOREM RecoveryNeverRefuses == Spec => []AlwaysRecoverable
<1>1. IInv => AlwaysRecoverable
  BY GoodIsSound DEF IInv, TypeOK, FilesGood, AlwaysRecoverable
<1> QED BY <1>1, Invariance, PTL

\* A healthy idle store caches exactly what its file holds.
THEOREM HealthyStoreMatchesFile == Spec => []HealthyMatchesFile
<1>1. IInv => HealthyMatchesFile
  <2> SUFFICES ASSUME IInv, state = "Healthy", pc = "idle" PROVE file = Encoded(frames)
    BY DEF HealthyMatchesFile
  <2>1. /\ file \in Seq(Chunk) /\ frames \in Seq(Frame)
        /\ Len(file) = Len(frames) /\ Holds(file, frames)
    BY DEF IInv, TypeOK, Control, Tracked
  <2>2. /\ Encoded(frames) \in Seq(Chunk) /\ Len(Encoded(frames)) = Len(frames)
        /\ \A i \in 1..Len(frames) : Encoded(frames)[i] = Whole(frames[i])
    BY <2>1, EncodedFacts
  <2>3. \A i \in 1..Len(file) : file[i] = Encoded(frames)[i]
    BY <2>1, <2>2 DEF Holds
  <2> QED BY <2>1, <2>2, <2>3, SeqEqual
<1> QED BY <1>1, Invariance, PTL

\* Once poisoned, a store changes neither its state nor the file while its
\* process lives.
THEOREM PoisonIsFenced == Spec => PoisonFences
<1>1. ASSUME IInv, [Next]_vars
      PROVE  (state = "Poisoned" /\ state' # "Down") => (state' = "Poisoned" /\ file' = file)
  <2> SUFFICES ASSUME state = "Poisoned", state' # "Down"
               PROVE  state' = "Poisoned" /\ file' = file
    OBVIOUS
  <2>1. pc = "idle"
    BY <1>1 DEF IInv, Control
  <2>2. CASE Open
    BY <2>1, <2>2 DEF Open, OpenClean, OpenTruncate, OpenSync, OpenSyncFails
  <2>3. CASE AppendEpoch
    BY <2>1, <2>3 DEF AppendEpoch, PrepareEpoch, Admissible, WriteAt, PrimaryFailure,
                      SyncFrame, SyncEpoch
  <2>4. CASE Repair
    BY <2>1, <2>4 DEF Repair, RepairTruncate, RepairSync, RepairVerified, RepairFails
  <2>5. CASE PoisonExternal \/ UNCHANGED vars
    BY <2>5 DEF PoisonExternal, vars
  <2>6. CASE Environment
    BY <2>6 DEF Environment, Writeback, ProcessExit, PowerLoss, Gone
  <2> QED BY <1>1, <2>2, <2>3, <2>4, <2>5, <2>6 DEF Next
<1> QED BY <1>1, Invariance, PTL DEF Spec, PoisonFences

-----------------------------------------------------------------------------
(* EpochRepaired is a definite answer.                                       *)

InAppend == pc \in {"write", "sync", "truncate", "repairsync", "verify"}

\* Worlds are minted once: everything in a file was minted, nothing repaired is
\* in a file, and a running epoch is disjoint from both.  A repair that has come
\* to verification has synchronized its truncation.
Fresh ==
    /\ \A r \in repaired : r.world <= minted
    /\ \A i \in 1..Len(file) : file[i].frame.world <= minted /\ file[i].frame \notin repaired
    /\ \A i \in 1..Len(disk) : disk[i].frame.world <= minted /\ disk[i].frame \notin repaired
    /\ InAppend => \A i \in 1..Len(epoch) :
                     /\ epoch[i].world <= minted
                     /\ epoch[i] \notin repaired
                     /\ \A j \in 1..Len(frames) : frames[j] # epoch[i]
    /\ pc = "verify" => disk = file

\* A step that only moves chunks around, or writes the running epoch, keeps the
\* repaired frames out.
LEMMA FreshStep ==
    ASSUME Fresh, repaired' = repaired, minted' = minted,
           \A i \in 1..Len(file') :
              \/ \E j \in 1..Len(file) : file'[i].frame = file[j].frame
              \/ \E j \in 1..Len(disk) : file'[i].frame = disk[j].frame
              \/ InAppend /\ \E j \in 1..Len(epoch) : file'[i].frame = epoch[j],
           \A i \in 1..Len(disk') :
              \/ \E j \in 1..Len(file) : disk'[i].frame = file[j].frame
              \/ \E j \in 1..Len(disk) : disk'[i].frame = disk[j].frame,
           InAppend' => InAppend /\ epoch' = epoch /\ frames' = frames,
           pc' = "verify" => disk' = file'
    PROVE  Fresh'
BY DEF Fresh

LEMMA FreshOpen == ASSUME IInv, Fresh, Open PROVE Fresh'
<1>1. /\ repaired' = repaired /\ minted' = minted /\ disk' \in {disk, file}
      /\ ~InAppend' /\ pc' # "verify"
      /\ file' = file \/ (OpenTruncate /\ file' = GoodPrefix(file))
  BY DEF Open, OpenClean, OpenTruncate, OpenSync, OpenSyncFails, Opened, ghosts, InAppend
<1>2. \A i \in 1..Len(file') : \E j \in 1..Len(file) : file'[i].frame = file[j].frame
  <2>1. CASE file' = file
    BY <2>1
  <2>2. CASE OpenTruncate
    <3>1. /\ file \in Seq(Chunk) /\ TornTail(file)
          /\ file' = SubSeq(file, 1, Len(file) - 1)
      BY <2>2 DEF IInv, TypeOK, OpenTruncate, GoodPrefix
    <3>2. Len(file) - 1 \in 0..Len(file)
      BY <3>1 DEF TornTail
    <3>3. Len(file') = Len(file) - 1 /\ \A i \in 1..(Len(file) - 1) : file'[i] = file[i]
      BY <3>1, <3>2, PrefixFacts
    <3> QED BY <3>1, <3>3
  <2> QED BY <1>1, <2>1, <2>2
<1>3. \A i \in 1..Len(disk') : \/ \E j \in 1..Len(file) : disk'[i].frame = file[j].frame
                               \/ \E j \in 1..Len(disk) : disk'[i].frame = disk[j].frame
  BY <1>1
<1> QED BY <1>1, <1>2, <1>3, FreshStep

LEMMA FreshPrepare ==
    ASSUME IInv, Fresh, NEW base \in Nat, NEW n \in Nat \ {0}, PrepareEpoch(base, n)
    PROVE  Fresh'
<1>1. /\ epoch' = Chain(base, n) /\ minted' = minted + n /\ pc' = "write"
      /\ pc = "idle" /\ state = "Healthy"
      /\ UNCHANGED <<file, disk, frames, repaired>>
  BY DEF PrepareEpoch, Admissible, ghosts
<1>2. /\ minted \in Nat /\ file \in Seq(Chunk) /\ disk \in Seq(Chunk)
      /\ repaired \in SUBSET Frame /\ frames \in Seq(Frame) /\ Holds(file, frames)
  BY <1>1 DEF IInv, TypeOK, Tracked
<1>3. Chain(base, n) \in [1..n -> Frame] /\ \A i \in 1..n : Chain(base, n)[i].world = minted + i
  <2>1. \A i \in 1..n : [parent |-> IF i = 1 THEN base ELSE minted + i - 1,
                         world |-> minted + i] \in Frame
    BY <1>2 DEF Frame
  <2>2. \A i \in 1..n : Chain(base, n)[i].world = minted + i
    <3> TAKE i \in 1..n
    <3>1. Chain(base, n)[i] = [parent |-> IF i = 1 THEN base ELSE minted + i - 1,
                               world |-> minted + i]
      BY Zenon DEF Chain
    <3> QED BY <3>1
  <2> QED BY <2>1, <2>2 DEF Chain
<1>4. Len(epoch') = n /\ \A i \in 1..n : epoch'[i].world = minted + i
  BY <1>1, <1>3, FcnIsSeq
<1>5. \A r \in repaired : r.world \in Nat /\ r.world <= minted
  BY <1>2 DEF Fresh, Frame
<1>6. \A i \in 1..Len(file) : file[i].frame.world \in Nat /\ file[i].frame.world <= minted
  <2> TAKE i \in 1..Len(file)
  <2>1. file[i] \in Chunk
    BY <1>2, ElementOfSeq
  <2> QED BY <2>1 DEF Fresh, Chunk, Frame
<1>7. \A i \in 1..Len(disk) : disk[i].frame.world \in Nat /\ disk[i].frame.world <= minted
  <2> TAKE i \in 1..Len(disk)
  <2>1. disk[i] \in Chunk
    BY <1>2, ElementOfSeq
  <2> QED BY <2>1 DEF Fresh, Chunk, Frame
<1>8. \A j \in 1..Len(frames) : frames[j].world <= minted
  <2> TAKE j \in 1..Len(frames)
  <2>1. j \in 1..Len(file) /\ file[j] = Whole(frames[j])
    BY <1>2 DEF Holds
  <2>2. file[j].frame = frames[j]
    BY <2>1, WholeFields
  <2> QED BY <1>6, <2>1, <2>2
<1>9. ASSUME NEW i \in 1..Len(epoch')
      PROVE  /\ epoch'[i].world <= minted' /\ epoch'[i] \notin repaired'
             /\ \A j \in 1..Len(frames') : frames'[j] # epoch'[i]
  <2>1. epoch'[i].world = minted + i /\ i \in 1..n
    BY <1>4
  <2>2. minted + i <= minted + n /\ ~(minted + i <= minted)
    BY <1>2, <2>1
  <2> QED BY <1>1, <1>5, <1>8, <2>1, <2>2
<1>10. \A r \in repaired' : r.world <= minted'
  BY <1>1, <1>2, <1>5
<1>11. /\ \A i \in 1..Len(file') : file'[i].frame.world <= minted' /\ file'[i].frame \notin repaired'
       /\ \A i \in 1..Len(disk') : disk'[i].frame.world <= minted' /\ disk'[i].frame \notin repaired'
  BY <1>1, <1>2, <1>6, <1>7 DEF Fresh
<1> QED BY <1>1, <1>9, <1>10, <1>11 DEF Fresh

LEMMA FreshAppend == ASSUME IInv, IInv', Fresh, AppendEpoch PROVE Fresh'
<1>1. CASE \E base \in 0..MaxFrames, n \in 1..MaxEpoch : PrepareEpoch(base, n)
  <2>1. PICK base \in 0..MaxFrames, n \in 1..MaxEpoch : PrepareEpoch(base, n)
    BY <1>1
  <2>2. base \in Nat /\ n \in Nat \ {0}
    BY FileEpochAssumption
  <2> QED BY <2>1, <2>2, FreshPrepare
<1>2. CASE WriteAt
  <2>1. /\ pc = "write" /\ pc' \in {"write", "sync"}
        /\ UNCHANGED <<disk, frames, epoch, start, goal, minted, repaired>>
    BY <1>2 DEF WriteAt, ghosts
  <2>2. /\ Holds(file, frames) /\ Holds(file', frames) /\ start = Len(frames)
        /\ Len(file') <= start + Len(epoch)
        /\ file' \in Seq(Chunk) /\ frames \in Seq(Frame) /\ epoch \in Seq(Frame)
        /\ \A i \in 1..Len(file') : i > start => file'[i].frame = epoch[i - start]
    <3>1. state # "Down" /\ state' # "Down"
      BY <2>1 DEF IInv, Control
    <3>2. Len(file') <= goal /\ goal <= start + Len(epoch)
      BY <2>1 DEF IInv, Writing
    <3>3. file' \in Seq(Chunk) /\ goal \in Nat /\ start \in Nat /\ epoch \in Seq(Frame)
      BY <2>1 DEF IInv, TypeOK
    <3>4. Len(file') <= start + Len(epoch)
      BY <3>2, <3>3
    <3> QED BY <2>1, <3>1, <3>3, <3>4 DEF IInv, TypeOK, Tracked, InCall, Writing
  <2>3. \A i \in 1..Len(file') :
           \/ \E j \in 1..Len(file) : file'[i].frame = file[j].frame
           \/ InAppend /\ \E j \in 1..Len(epoch) : file'[i].frame = epoch[j]
    <3> TAKE i \in 1..Len(file')
    <3>1. CASE i <= start
      <4>1. i \in 1..Len(frames) /\ i \in 1..Len(file)
        BY <2>2, <3>1 DEF Holds
      <4> QED BY <2>2, <4>1 DEF Holds
    <3>2. CASE i > start
      <4>1. i - start \in 1..Len(epoch)
        BY <2>2, <3>2
      <4> QED BY <2>1, <2>2, <3>2, <4>1 DEF InAppend
    <3>3. i <= start \/ i > start
      BY <2>2
    <3> QED BY <3>1, <3>2, <3>3, Zenon
  <2> QED BY <2>1, <2>3, FreshStep DEF InAppend
<1>3. CASE PrimaryFailure
  BY <1>3, FreshStep DEF PrimaryFailure, ghosts, InAppend
<1>4. CASE SyncFrame
  BY <1>4, FreshStep DEF SyncFrame, ghosts, InAppend
<1>5. CASE SyncEpoch
  BY <1>5, FreshStep DEF SyncEpoch, InAppend
<1> QED BY <1>1, <1>2, <1>3, <1>4, <1>5 DEF AppendEpoch

\* SubSeq(file, 1, start) has only chunks of the file.
LEMMA TruncatedChunks ==
    ASSUME IInv, pc = "truncate", file' = SubSeq(file, 1, start)
    PROVE  \A i \in 1..Len(file') : \E j \in 1..Len(file) : file'[i].frame = file[j].frame
<1>1. file \in Seq(Chunk) /\ start = Len(frames) /\ Holds(file, frames) /\ frames \in Seq(Frame)
  BY DEF IInv, TypeOK, InCall, Tracked, Control
<1>2. start \in 0..Len(file)
  BY <1>1 DEF Holds
<1>3. Len(file') = start /\ \A i \in 1..start : file'[i] = file[i]
  BY <1>1, <1>2, PrefixFacts
<1> QED BY <1>1, <1>2, <1>3

\* A verified repair leaves the old history on file and disk, and no frame of the
\* abandoned epoch is in it.
LEMMA FreshVerified == ASSUME IInv, Fresh, RepairVerified PROVE Fresh'
<1>1. /\ pc = "verify" /\ file = Encoded(frames) /\ pc' = "idle"
      /\ repaired' = repaired \cup {epoch[i] : i \in 1..Len(epoch)}
      /\ UNCHANGED <<file, disk, minted>>
  BY DEF RepairVerified, Verified
<1>2. disk = file /\ frames \in Seq(Frame)
  BY <1>1 DEF Fresh, IInv, TypeOK
<1>3. Len(file) = Len(frames) /\ \A i \in 1..Len(file) : file[i].frame = frames[i]
  <2>1. Len(file) = Len(frames) /\ \A i \in 1..Len(frames) : file[i] = Whole(frames[i])
    BY <1>1, <1>2, EncodedFacts
  <2> QED BY <2>1, WholeFields
<1>4. \A i \in 1..Len(epoch) : epoch[i].world <= minted /\ \A j \in 1..Len(frames) : frames[j] # epoch[i]
  BY <1>1 DEF Fresh, InAppend
<1>5. \A i \in 1..Len(file) : file[i].frame \notin repaired'
  BY <1>1, <1>3, <1>4 DEF Fresh
<1>6. \A r \in repaired' : r.world <= minted
  BY <1>1, <1>4 DEF Fresh
<1> QED BY <1>1, <1>2, <1>5, <1>6 DEF Fresh, InAppend

LEMMA FreshRepair == ASSUME IInv, Fresh, Repair PROVE Fresh'
<1>1. CASE RepairTruncate
  <2>1. \A i \in 1..Len(file') : \E j \in 1..Len(file) : file'[i].frame = file[j].frame
    BY <1>1, TruncatedChunks DEF RepairTruncate
  <2> QED BY <1>1, <2>1, FreshStep DEF RepairTruncate, ghosts, InAppend
<1>2. CASE RepairSync
  BY <1>2, FreshStep DEF RepairSync, ghosts, InAppend
<1>3. CASE RepairVerified
  BY <1>3, FreshVerified
<1>4. CASE RepairFails
  <2>1. \A i \in 1..Len(file') : \E j \in 1..Len(file) : file'[i].frame = file[j].frame
    BY <1>4, TruncatedChunks DEF RepairFails
  <2> QED BY <1>4, <2>1, FreshStep DEF RepairFails, ghosts, InAppend
<1> QED BY <1>1, <1>2, <1>3, <1>4 DEF Repair

\* While a repair is being verified there is nothing dirty to write back.
LEMMA FreshWriteback == ASSUME IInv, Fresh, Writeback PROVE Fresh'
<1>1. /\ disk' \in Writebacks(disk, file)
      /\ UNCHANGED <<file, pc, frames, epoch, minted, repaired>>
  BY DEF Writeback, ghosts
<1>2. file \in Seq(Chunk) /\ disk \in Seq(Chunk) /\ Good(file)
  BY DEF IInv, TypeOK, FilesGood
<1>3. /\ disk' \in Seq(Chunk) /\ Len(disk') <= Len(file)
      /\ \A i \in 1..Len(disk') : disk'[i].frame = file[i].frame
      /\ \A i \in 1..Len(file) :
           (i <= Len(disk) /\ \A j \in 1..i : disk[j] = file[j])
             => i <= Len(disk') /\ disk'[i] = file[i]
  BY <1>1, <1>2, WritebackFacts
<1>4. \A i \in 1..Len(disk') : \E j \in 1..Len(file) : disk'[i].frame = file[j].frame
  BY <1>2, <1>3
<1>5. pc' = "verify" => disk' = file'
  <2> SUFFICES ASSUME pc = "verify" PROVE disk' = file
    BY <1>1
  <2>1. disk = file
    BY DEF Fresh
  <2>2. \A i \in 1..Len(file) : i <= Len(disk') /\ disk'[i] = file[i]
    BY <1>2, <1>3, <2>1
  <2>3. Len(disk') = Len(file)
    <3>1. Len(file) = 0 \/ Len(file) \in 1..Len(file)
      BY <1>2
    <3> QED BY <1>2, <1>3, <2>2, <3>1
  <2> QED BY <1>2, <1>3, <2>2, <2>3, SeqEqual
<1> QED BY <1>1, <1>4, <1>5, FreshStep DEF InAppend

LEMMA NextFresh == IInv /\ IInv' /\ Fresh /\ [Next]_vars => Fresh'
<1> SUFFICES ASSUME IInv, IInv', Fresh, [Next]_vars PROVE Fresh'
  OBVIOUS
<1>1. CASE Open
  BY <1>1, FreshOpen
<1>2. CASE AppendEpoch
  BY <1>2, FreshAppend
<1>3. CASE Repair
  BY <1>3, FreshRepair
<1>4. CASE PoisonExternal
  BY <1>4, FreshStep DEF PoisonExternal, ghosts, InAppend
<1>5. CASE Writeback
  BY <1>5, FreshWriteback
<1>6. CASE ProcessExit
  BY <1>6, FreshStep DEF ProcessExit, Gone, ghosts, InAppend
<1>7. CASE PowerLoss
  BY <1>7, FreshStep DEF PowerLoss, Gone, ghosts, InAppend
<1>8. CASE UNCHANGED vars
  BY <1>8, FreshStep DEF vars, InAppend, Fresh
<1> QED BY <1>1, <1>2, <1>3, <1>4, <1>5, <1>6, <1>7, <1>8 DEF Next, Environment

\* No frame of an epoch that append_epoch reported as repaired is ever in the
\* file again, nor comes back from the disk after a power loss.
THEOREM RepairIsDefinite == Spec => []RepairedNeverReturns
<1>1. Init => Fresh
  BY DEF Init, Fresh, InAppend
<1>2. Fresh => RepairedNeverReturns
  BY DEF Fresh, RepairedNeverReturns
<1> QED BY <1>1, <1>2, Invariance, NextFresh, PTL DEF Spec
=============================================================================
