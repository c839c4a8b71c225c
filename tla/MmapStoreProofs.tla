--------------------------- MODULE MmapStoreProofs --------------------------
(***************************************************************************)
(* TLAPS proofs about FileCommitStore and the mapped store beside it: what *)
(* an append answered is what the file and the disk hold, and a live       *)
(* mapping shows the history, for any number of frames, failed appends,    *)
(* rollbacks that fail themselves, process exits and power losses.         *)
(***************************************************************************)
EXTENDS MmapStore, FrameFileProofs

InAppend == {"write", "sync", "rollback", "rollbacksync"}

Opened == {"idle"} \cup InAppend

Typed ==
    /\ header \in 0..HeaderParts /\ diskHeader \in 0..header
    /\ file \in Seq(Chunk) /\ disk \in Seq(Chunk)
    /\ pc \in {"down", "header", "opensync"} \cup Opened
    /\ frames \in Seq(Frame) /\ frame \in Frame
    /\ start \in Nat /\ minted \in Nat
    /\ committed \in Seq(Frame) /\ failed \subseteq Frame
    /\ lame \in BOOLEAN

AllWhole(f) == \A i \in 1..Len(f) : f[i].whole

\* Records follow a complete header, in the file and on the disk.
Headed ==
    /\ header < HeaderParts => file = <<>>
    /\ diskHeader < HeaderParts => disk = <<>>
    /\ pc = "header" => file = <<>>
    /\ pc \notin {"down", "header"} => header = HeaderParts
    /\ committed # <<>> => header = HeaderParts /\ diskHeader = HeaderParts

\* What the running call has made of the file, whatever failed before.
Placed ==
    /\ pc = "opensync" => AllWhole(file)
    /\ pc \in InAppend => start <= Len(file) /\ Len(file) <= start + 1
    /\ pc = "sync" => Len(file) = start + 1 /\ file[start + 1] = Whole(frame)

FilesGood == Good(file) /\ Good(disk)

Durable == Holds(file, committed) /\ Holds(disk, committed)

\* The frames of an open store are its file, but for the record of the append
\* under way, which continues them.
Tracked ==
    /\ pc \in Opened => Holds(file, frames) /\ Len(committed) <= Len(frames)
    /\ pc = "idle" => Len(file) = Len(frames)
    /\ pc \in InAppend =>
        /\ start = Len(frames) /\ frame.parent = TailWorld(frames)
        /\ Len(file) > start => file[start + 1].frame = frame
    /\ pc = "rollbacksync" => Len(file) = start

\* A frame that failed is older than every frame that may still be written, and
\* is nowhere.
Fresh ==
    /\ \A g \in failed : g.world <= minted
    /\ \A i \in 1..Len(file) : file[i].frame.world <= minted /\ file[i].frame \notin failed
    /\ \A i \in 1..Len(disk) : disk[i].frame.world <= minted /\ disk[i].frame \notin failed
    /\ pc \in InAppend =>
        /\ frame.world = minted
        /\ \A g \in failed : g.world < minted
        /\ \A i \in 1..start : file[i].frame.world < minted

\* What needs every rollback so far to have happened.
Definite == FilesGood /\ Durable /\ Tracked /\ Fresh

\* The inductive invariant of FileCommitStore.
FInv == Typed /\ Headed /\ Placed /\ (~lame => Definite)

-----------------------------------------------------------------------------

Live == {"idle", "append", "writing", "remap"}

MTyped ==
    /\ call \in {"closed", "opening"} \cup Live
    /\ mapped \in Nat \cup {Unmapped}
    /\ spans \in Seq(Nat) /\ cached \in Seq(Frame)
    /\ wanted \in Nat /\ recordStart \in Nat /\ gaps \in BOOLEAN

\* Where the writer is during which call, and what it finds in the file.
Paired ==
    /\ call \notin Live => mapped = Unmapped
    /\ call \in Live => header = HeaderParts
    /\ call = "opening" => pc \in {"down", "header", "opensync", "idle"}
    /\ call \in {"idle", "append"} => pc \in {"down", "idle"}
    /\ call = "writing" => pc \in InAppend
    /\ call = "remap" => pc = "idle" /\ mapped = Unmapped
    /\ call = "opening" /\ pc = "idle" => AllWhole(file)
    /\ call \in {"idle", "append"} /\ pc = "down" => AllWhole(file)

\* The position noted before the append is where the writer puts the record.
Noted ==
    /\ call = "append" => recordStart = Len(file)
    /\ call = "writing" => recordStart = start
    /\ call = "remap" =>
        /\ Len(file) = recordStart + 1 /\ cached # <<>>
        /\ file[recordStart + 1] = Whole(cached[Len(cached)])

\* The records no step of the running call can take away.
Settled == IF call = "writing" THEN start ELSE Len(file)

\* The frames that have, or had a chance to get, a span.
Spanned == IF call = "remap" THEN Len(cached) - 1 ELSE Len(cached)

Viewed ==
    call \in Live =>
        /\ Len(spans) <= Spanned
        /\ mapped # Unmapped => mapped <= Settled
        /\ \A i \in 1..Len(spans) :
            /\ spans[i] \in 1..Settled
            /\ mapped # Unmapped => spans[i] <= mapped
            /\ file[spans[i]].whole
            /\ \E j \in 1..Len(cached) : j >= i /\ cached[j] = file[spans[i]].frame
        /\ ~gaps => /\ Len(spans) = Spanned
                    /\ \A i \in 1..Len(spans) : file[spans[i]].frame = cached[i]

\* The inductive invariant of the mapped store.
MInv == FInv /\ MTyped /\ Paired /\ Noted /\ Viewed


-----------------------------------------------------------------------------
(* Files.                                                                    *)

\* A file whose every record is complete is its history.
LEMMA WholeFileHolds ==
    ASSUME NEW f \in Seq(Chunk), AllWhole(f)
    PROVE  /\ ~TornTail(f)
           /\ FramesOf(f) \in Seq(Frame) /\ Len(FramesOf(f)) = Len(f)
           /\ \A i \in 1..Len(f) : FramesOf(f)[i] = f[i].frame
           /\ Holds(f, FramesOf(f))
<1>1. Len(f) \in Nat /\ (f # <<>> => Len(f) \in 1..Len(f))
  OBVIOUS
<1>2. ~TornTail(f)
  BY <1>1 DEF TornTail, AllWhole
<1>3. /\ FramesOf(f) \in Seq(Frame) /\ Len(FramesOf(f)) = Len(f)
      /\ \A i \in 1..Len(f) : FramesOf(f)[i] = f[i].frame
  BY <1>2, FramesOfFacts
<1>4. ASSUME NEW i \in 1..Len(f) PROVE f[i] = Whole(f[i].frame)
  <2>1. f[i] \in Chunk /\ f[i].whole
    BY ElementOfSeq DEF AllWhole
  <2> QED BY <2>1, ChunkIsWhole
<1>5. Holds(f, FramesOf(f))
  BY <1>1, <1>3, <1>4 DEF Holds
<1> QED BY <1>2, <1>3, <1>5

LEMMA SoundIsWhole ==
    ASSUME NEW f \in Seq(Chunk), Sound(f), ~TornTail(f)
    PROVE  AllWhole(f)
<1> SUFFICES ASSUME NEW i \in 1..Len(f), ~f[i].whole PROVE FALSE
  BY DEF AllWhole
<1>1. i = Len(f) /\ f # <<>>
  BY DEF Sound
<1> QED BY <1>1 DEF TornTail

\* Recovery keeps every complete record, and so every history the file holds.
LEMMA GoodPrefixFacts ==
    ASSUME NEW f \in Seq(Chunk), Sound(f), TornTail(f)
    PROVE  /\ GoodPrefix(f) \in Seq(Chunk) /\ AllWhole(GoodPrefix(f))
           /\ Len(GoodPrefix(f)) = Len(f) - 1 /\ Len(f) \in Nat \ {0}
           /\ \A i \in 1..Len(GoodPrefix(f)) : GoodPrefix(f)[i] = f[i]
           /\ Good(f) => Good(GoodPrefix(f))
           /\ \A h \in Seq(Frame) : Holds(f, h) => Holds(GoodPrefix(f), h)
<1>1. Len(f) \in Nat \ {0} /\ Len(f) - 1 \in 0..Len(f) /\ ~f[Len(f)].whole
  BY DEF TornTail
<1>2. GoodPrefix(f) = SubSeq(f, 1, Len(f) - 1)
  BY DEF GoodPrefix
<1>3. /\ GoodPrefix(f) \in Seq(Chunk) /\ Len(GoodPrefix(f)) = Len(f) - 1
      /\ \A i \in 1..(Len(f) - 1) : GoodPrefix(f)[i] = f[i]
      /\ Good(f) => Good(GoodPrefix(f))
  BY <1>1, <1>2, PrefixFacts
<1>4. AllWhole(GoodPrefix(f))
  BY <1>1, <1>3 DEF AllWhole, Sound
<1>5. ASSUME NEW h \in Seq(Frame), Holds(f, h) PROVE Holds(GoodPrefix(f), h)
  <2>1. Len(h) \in Nat /\ Len(h) <= Len(f) /\ \A i \in 1..Len(h) : f[i] = Whole(h[i])
    BY <1>5 DEF Holds
  <2>2. Len(h) # Len(f)
    <3> SUFFICES ASSUME Len(h) = Len(f) PROVE FALSE
      OBVIOUS
    <3>1. f[Len(f)] = Whole(h[Len(f)])
      BY <1>1, <2>1
    <3> QED BY <1>1, <3>1, WholeFields
  <2>3. Len(h) <= Len(f) - 1 /\ \A i \in 1..Len(h) : GoodPrefix(f)[i] = Whole(h[i])
    BY <1>1, <1>3, <2>1, <2>2
  <2> QED BY <1>3, <2>3 DEF Holds
<1> QED BY <1>1, <1>3, <1>4, <1>5

\* One more record.
LEMMA AppendChunk ==
    ASSUME NEW f \in Seq(Chunk), NEW c \in Chunk
    PROVE  /\ Append(f, c) \in Seq(Chunk)
           /\ Len(Append(f, c)) = Len(f) + 1 /\ Len(f) \in Nat
           /\ \A i \in 1..Len(f) : Append(f, c)[i] = f[i]
           /\ Append(f, c)[Len(f) + 1] = c
           /\ f \o <<c>> = Append(f, c)
<1>1. Append(f, c) \in Seq(Chunk) /\ Len(Append(f, c)) = Len(f) + 1 /\ Len(f) \in Nat
  BY AppendProperties
<1>2. \A i \in 1..Len(f) : Append(f, c)[i] = f[i]
  BY AppendProperties
<1>3. Append(f, c)[Len(f) + 1] = c
  BY AppendProperties
<1>4. f \o <<c>> = Append(f, c)
  BY AppendIsConcat
<1> QED BY <1>1, <1>2, <1>3, <1>4

LEMMA AppendFrameFacts ==
    ASSUME NEW h \in Seq(Frame), NEW c \in Frame
    PROVE  /\ Append(h, c) \in Seq(Frame)
           /\ Len(Append(h, c)) = Len(h) + 1 /\ Len(h) \in Nat
           /\ \A i \in 1..Len(h) : Append(h, c)[i] = h[i]
           /\ Append(h, c)[Len(h) + 1] = c
<1>1. Append(h, c) \in Seq(Frame) /\ Len(Append(h, c)) = Len(h) + 1 /\ Len(h) \in Nat
  BY AppendProperties
<1>2. \A i \in 1..Len(h) : Append(h, c)[i] = h[i]
  BY AppendProperties
<1>3. Append(h, c)[Len(h) + 1] = c
  BY AppendProperties
<1> QED BY <1>1, <1>2, <1>3

\* A record that continues the history a file is leaves the file good.
LEMMA ContinuedGood ==
    ASSUME NEW f \in Seq(Chunk), NEW g \in Seq(Chunk), NEW h \in Seq(Frame),
           Good(f), Holds(f, h),
           Len(g) = Len(h) + 1,
           \A i \in 1..Len(h) : g[i] = f[i],
           g[Len(h) + 1].frame.parent = TailWorld(h)
    PROVE  Good(g)
<1>1. /\ Len(h) \in Nat /\ Len(f) \in Nat /\ Len(h) <= Len(f)
      /\ \A i \in 1..Len(h) : f[i] = Whole(h[i])
  BY DEF Holds
<1>2. ASSUME NEW i \in 1..Len(h)
      PROVE  g[i] = Whole(h[i]) /\ g[i].whole /\ g[i].frame = h[i]
  <2>1. g[i] = Whole(h[i])
    BY <1>1
  <2> QED BY <2>1, WholeFields
<1>3. \A i \in 1..Len(g) : ~g[i].whole => i = Len(g)
  BY <1>1, <1>2
<1>4. ASSUME NEW i \in 1..Len(g)
      PROVE  g[i].frame.parent = (IF i = 1 THEN Genesis ELSE g[i - 1].frame.world)
  <2>1. CASE i <= Len(h)
    <3>1. i \in 1..Len(h) /\ i \in 1..Len(f) /\ (i # 1 => i - 1 \in 1..Len(h))
      BY <1>1, <2>1
    <3>2. g[i] = f[i] /\ (i # 1 => g[i - 1] = f[i - 1])
      BY <3>1
    <3>3. f[i].frame.parent = (IF i = 1 THEN Genesis ELSE f[i - 1].frame.world)
      BY <3>1 DEF Good
    <3> QED BY <3>2, <3>3
  <2>2. CASE i = Len(h) + 1
    <3>1. CASE i = 1
      <4>1. h = <<>>
        BY <1>1, <2>2, <3>1, EmptySeq
      <4> QED BY <2>2, <3>1, <4>1 DEF TailWorld
    <3>2. CASE i # 1
      <4>1. h # <<>> /\ i - 1 = Len(h) /\ i - 1 \in 1..Len(h)
        BY <1>1, <2>2, <3>2
      <4>2. g[i - 1].frame = h[Len(h)]
        BY <1>2, <4>1
      <4> QED BY <2>2, <3>2, <4>1, <4>2 DEF TailWorld
    <3> QED BY <3>1, <3>2
  <2> QED BY <1>1, <2>1, <2>2
<1> QED BY <1>3, <1>4 DEF Good


-----------------------------------------------------------------------------
(* FileCommitStore: what each step preserves.                                *)

LEMMA FInvInit == ASSUME Init PROVE FInv
<1>1. /\ header = 0 /\ diskHeader = 0 /\ file = <<>> /\ disk = <<>> /\ pc = "down"
      /\ frames = <<>> /\ frame = NoFrame /\ start = 0 /\ minted = 0
      /\ committed = <<>> /\ failed = {} /\ lame = FALSE
  BY DEF Init
<1>2. Typed
  <2>1. frame \in Frame
    BY <1>1 DEF Frame, NoFrame
  <2>2. header \in 0..HeaderParts /\ diskHeader \in 0..header
    BY <1>1 DEF HeaderParts
  <2>3. file \in Seq(Chunk) /\ disk \in Seq(Chunk)
    BY <1>1, EmptySeq
  <2>4. frames \in Seq(Frame) /\ committed \in Seq(Frame)
    BY <1>1, EmptySeq
  <2> QED BY <1>1, <2>1, <2>2, <2>3, <2>4 DEF Typed
<1>3. Headed /\ Placed
  BY <1>1 DEF Headed, Placed, HeaderParts, InAppend
<1>4. Definite
  BY <1>1 DEF Definite, FilesGood, Durable, Tracked, Fresh, Good, Holds, InAppend, Opened
<1> QED BY <1>2, <1>3, <1>4 DEF FInv

\* The store is dropped: its file stays as it is.
LEMMA Dropped ==
    ASSUME FInv, pc' = "down", frames' = <<>> \/ frames' = frames,
           frame' = NoFrame \/ frame' = frame, start' = 0 \/ start' = start,
           UNCHANGED <<header, diskHeader, file, disk, minted, committed, failed, lame>>
    PROVE  FInv'
<1>1. Typed'
  <2>1. NoFrame \in Frame
    BY DEF NoFrame, Frame
  <2>2. <<>> \in Seq(Frame)
    BY EmptySeq
  <2>3. frames \in Seq(Frame) /\ frame \in Frame /\ start \in Nat
    BY DEF FInv, Typed
  <2>4. frames' \in Seq(Frame)
    BY <2>2, <2>3
  <2>5. frame' \in Frame /\ start' \in Nat
    BY <2>1, <2>3
  <2> QED BY <2>4, <2>5 DEF FInv, Typed
<1>2. Headed' /\ Placed'
  BY DEF FInv, Headed, Placed, InAppend
<1>3. ~lame' => Definite'
  BY DEF FInv, Definite, FilesGood, Durable, Tracked, Fresh, InAppend, Opened
<1> QED BY <1>1, <1>2, <1>3 DEF FInv

\* A power failure leaves what was on the disk.
LEMMA PowerLossStep == ASSUME FInv, PowerLoss PROVE FInv'
<1>1. /\ pc' = "down" /\ frames' = <<>> /\ frame' = NoFrame /\ start' = 0
      /\ header' = diskHeader /\ file' = disk
      /\ UNCHANGED <<diskHeader, disk, minted, committed, failed, lame>>
  BY DEF PowerLoss, Gone
<1>2. Typed'
  <2>1. frames' \in Seq(Frame) /\ frame' \in Frame /\ start' \in Nat
    BY <1>1 DEF NoFrame, Frame
  <2>2. header' \in 0..HeaderParts /\ diskHeader' \in 0..header'
    BY <1>1 DEF FInv, Typed, HeaderParts
  <2> QED BY <1>1, <2>1, <2>2 DEF FInv, Typed
<1>3. Headed'
  BY <1>1 DEF FInv, Headed
<1>4. Placed'
  BY <1>1 DEF Placed, InAppend
<1>5. ~lame' => Definite'
  BY <1>1 DEF FInv, Definite, FilesGood, Durable, Tracked, Fresh, InAppend, Opened
<1> QED BY <1>2, <1>3, <1>4, <1>5 DEF FInv

LEMMA OpenEmptyStep == ASSUME FInv, OpenEmpty PROVE FInv'
<1>1. /\ pc = "down" /\ header = 0 /\ pc' = "header"
      /\ UNCHANGED <<header, diskHeader, file, disk, frames, frame, start, minted,
                     committed, failed, lame>>
  BY DEF OpenEmpty
<1>2. Typed'
  BY <1>1 DEF FInv, Typed
<1>3. Headed'
  BY <1>1 DEF FInv, Headed, HeaderParts
<1>4. Placed'
  BY <1>1 DEF Placed, InAppend
<1>5. ~lame' => Definite'
  BY <1>1 DEF FInv, Definite, FilesGood, Durable, Tracked, Fresh, InAppend, Opened
<1> QED BY <1>2, <1>3, <1>4, <1>5 DEF FInv

LEMMA WriteHeaderStep == ASSUME FInv, WriteHeader PROVE FInv'
<1>1. /\ pc = "header" /\ header < HeaderParts /\ header' = header + 1
      /\ UNCHANGED <<diskHeader, file, disk, pc, frames, frame, start, minted,
                     committed, failed, lame>>
  BY DEF WriteHeader
<1>2. Typed'
  <2>1. header' \in 0..HeaderParts /\ diskHeader' \in 0..header'
    BY <1>1 DEF FInv, Typed, HeaderParts
  <2> QED BY <1>1, <2>1 DEF FInv, Typed
<1>3. Headed'
  <2>1. file = <<>> /\ committed = <<>> /\ (diskHeader < HeaderParts => disk = <<>>)
    BY <1>1 DEF FInv, Headed, Typed, HeaderParts
  <2> QED BY <1>1, <2>1 DEF Headed
<1>4. Placed'
  BY <1>1 DEF Placed, InAppend
<1>5. ~lame' => Definite'
  BY <1>1 DEF FInv, Definite, FilesGood, Durable, Tracked, Fresh, InAppend, Opened
<1> QED BY <1>2, <1>3, <1>4, <1>5 DEF FInv

\* The end of open: the frames are those of a file of complete records.
LEMMA OpenedStep ==
    ASSUME FInv, header = HeaderParts, AllWhole(file),
           pc' = "idle", frames' = FramesOf(file),
           \/ diskHeader' = header /\ disk' = file
           \/ UNCHANGED <<diskHeader, disk>>,
           UNCHANGED <<header, file, frame, start, minted, committed, failed, lame>>
    PROVE  FInv'
<1>1. /\ file \in Seq(Chunk) /\ header \in 0..HeaderParts /\ diskHeader \in 0..header
      /\ disk \in Seq(Chunk)
  BY DEF FInv, Typed
<1>2. /\ frames' \in Seq(Frame) /\ Len(frames') = Len(file) /\ Holds(file, frames')
  BY <1>1, WholeFileHolds
<1>3. Typed'
  <2>1. diskHeader' \in 0..header' /\ disk' \in Seq(Chunk)
    BY <1>1 DEF HeaderParts
  <2> QED BY <1>2, <2>1 DEF FInv, Typed, Opened
<1>4. Headed'
  BY <1>1 DEF FInv, Headed, HeaderParts
<1>5. Placed'
  BY DEF Placed, InAppend
<1>6. ASSUME ~lame' PROVE Definite'
  <2>1. Definite
    BY <1>6 DEF FInv
  <2>2. FilesGood' /\ Durable'
    BY <2>1 DEF Definite, FilesGood, Durable
  <2>3. Tracked'
    <3>1. Len(committed) <= Len(file)
      BY <2>1 DEF Definite, Durable, Holds
    <3> QED BY <1>2, <3>1 DEF Tracked, InAppend
  <2>4. Fresh'
    BY <2>1 DEF Definite, Fresh, InAppend
  <2> QED BY <2>2, <2>3, <2>4 DEF Definite
<1> QED BY <1>3, <1>4, <1>5, <1>6 DEF FInv

LEMMA OpenTruncateStep == ASSUME FInv, OpenTruncate PROVE FInv'
<1>1. /\ header = HeaderParts /\ Sound(file) /\ TornTail(file)
      /\ file' = GoodPrefix(file) /\ pc' = "opensync"
      /\ UNCHANGED <<header, diskHeader, disk, frames, frame, start, minted,
                     committed, failed, lame>>
  BY DEF OpenTruncate
<1>2. file \in Seq(Chunk) /\ committed \in Seq(Frame)
  BY DEF FInv, Typed
<1>3. /\ file' \in Seq(Chunk) /\ AllWhole(file')
      /\ Len(file') = Len(file) - 1 /\ Len(file) \in Nat \ {0}
      /\ \A i \in 1..Len(file') : file'[i] = file[i]
      /\ Good(file) => Good(file')
      /\ Holds(file, committed) => Holds(file', committed)
  BY <1>1, <1>2, GoodPrefixFacts
<1>4. Typed'
  BY <1>1, <1>3 DEF FInv, Typed
<1>5. Headed'
  BY <1>1 DEF FInv, Headed, HeaderParts
<1>6. Placed'
  BY <1>1, <1>3 DEF Placed, InAppend
<1>7. ASSUME ~lame' PROVE Definite'
  <2>1. Definite
    BY <1>1, <1>7 DEF FInv
  <2>2. FilesGood' /\ Durable'
    BY <1>1, <1>3, <2>1 DEF Definite, FilesGood, Durable
  <2>3. Tracked'
    BY <1>1 DEF Tracked, InAppend, Opened
  <2>4. Fresh'
    BY <1>1, <1>3, <2>1 DEF Definite, Fresh, InAppend
  <2> QED BY <2>2, <2>3, <2>4 DEF Definite
<1> QED BY <1>4, <1>5, <1>6, <1>7 DEF FInv

LEMMA OpenStepKeeps == ASSUME FInv, OpenStep PROVE FInv'
<1>1. file \in Seq(Chunk)
  BY DEF FInv, Typed
<1>2. CASE SyncHeader
  <2>1. pc = "header" /\ header = HeaderParts /\ file = <<>>
    BY <1>2 DEF SyncHeader, FInv, Headed
  <2>2. AllWhole(file)
    BY <2>1 DEF AllWhole
  <2> QED BY <1>2, <2>1, <2>2, OpenedStep DEF SyncHeader
<1>3. CASE OpenClean
  <2>1. AllWhole(file)
    BY <1>1, <1>3, SoundIsWhole DEF OpenClean
  <2> QED BY <1>3, <2>1, OpenedStep DEF OpenClean
<1>4. CASE OpenSync
  <2>1. AllWhole(file) /\ header = HeaderParts
    BY <1>4 DEF OpenSync, FInv, Placed, Headed
  <2> QED BY <1>4, <2>1, OpenedStep DEF OpenSync
<1> QED BY <1>2, <1>3, <1>4, OpenEmptyStep, WriteHeaderStep, OpenTruncateStep DEF OpenStep


LEMMA BeginAppendStep == ASSUME FInv, NEW base, BeginAppend(base) PROVE FInv'
<1>1. /\ pc = "idle" /\ base = TailWorld(frames)
      /\ frame' = [parent |-> base, world |-> minted + 1]
      /\ minted' = minted + 1 /\ start' = Len(file) /\ pc' = "write"
      /\ UNCHANGED <<header, diskHeader, file, disk, frames, committed, failed, lame>>
  BY DEF BeginAppend, ValidAppend
<1>2. /\ file \in Seq(Chunk) /\ frames \in Seq(Frame) /\ minted \in Nat
      /\ failed \subseteq Frame /\ Len(file) \in Nat
  BY DEF FInv, Typed
<1>3. Typed'
  <2>1. TailWorld(frames) \in Nat
    <3>1. CASE frames = <<>>
      BY <3>1 DEF TailWorld, Genesis
    <3>2. CASE frames # <<>>
      <4>1. frames[Len(frames)] \in Frame
        BY <1>2, <3>2, EmptySeq, ElementOfSeq
      <4> QED BY <3>2, <4>1 DEF TailWorld, Frame
    <3> QED BY <3>1, <3>2
  <2>2. frame' \in Frame
    BY <1>1, <1>2, <2>1 DEF Frame
  <2> QED BY <1>1, <1>2, <2>2 DEF FInv, Typed, Opened, InAppend
<1>4. Headed'
  BY <1>1 DEF FInv, Headed
<1>5. Placed'
  BY <1>1, <1>2 DEF Placed
<1>6. ASSUME ~lame' PROVE Definite'
  <2>1. Definite
    BY <1>1, <1>6 DEF FInv
  <2>2. FilesGood' /\ Durable'
    BY <1>1, <2>1 DEF Definite, FilesGood, Durable
  <2>3. Tracked'
    BY <1>1, <1>2, <2>1 DEF Definite, Tracked, Opened
  <2>4. Fresh'
    <3>1. \A g \in failed : g.world \in Nat
      BY <1>2 DEF Frame
    <3>2. \A i \in 1..Len(file) : file[i].frame.world \in Nat
      <4> TAKE i \in 1..Len(file)
      <4>1. file[i] \in Chunk
        BY <1>2, ElementOfSeq
      <4> QED BY <4>1 DEF Chunk, Frame
    <3>3. \A i \in 1..Len(disk) : disk[i].frame.world \in Nat
      <4> TAKE i \in 1..Len(disk)
      <4>1. disk[i] \in Chunk
        BY ElementOfSeq DEF FInv, Typed
      <4> QED BY <4>1 DEF Chunk, Frame
    <3> QED BY <1>1, <1>2, <2>1, <3>1, <3>2, <3>3 DEF Definite, Fresh
  <2> QED BY <2>2, <2>3, <2>4 DEF Definite
<1> QED BY <1>3, <1>4, <1>5, <1>6 DEF FInv

\* Both outcomes of write_all put a record of the frame behind the old ones.
LEMMA WriteStep ==
    ASSUME FInv, pc = "write", NEW c \in Chunk, c.frame = frame,
           NEW f \in Seq(Chunk), file' = f, Len(f) = start + 1,
           \A i \in 1..start : f[i] = file[i], f[start + 1] = c,
           pc' = "write" \/ (pc' = "sync" /\ c = Whole(frame)),
           UNCHANGED <<header, diskHeader, disk, frames, frame, start, minted,
                       committed, failed, lame>>
    PROVE  FInv'
<1>1. /\ file \in Seq(Chunk) /\ frames \in Seq(Frame) /\ start \in Nat
      /\ committed \in Seq(Frame) /\ Len(committed) \in Nat
      /\ start <= Len(file) /\ Len(file) \in Nat /\ frame \in Frame /\ minted \in Nat
  BY DEF FInv, Typed, Placed, InAppend
<1>2. Typed'
  BY DEF FInv, Typed, Opened, InAppend
<1>3. Headed'
  BY <1>1 DEF FInv, Headed, HeaderParts, Typed
<1>4. Placed'
  BY <1>1 DEF Placed, InAppend
<1>5. ASSUME ~lame' PROVE Definite'
  <2>1. Definite
    BY <1>5 DEF FInv
  <2>2. /\ Good(file) /\ Good(disk) /\ Holds(file, frames) /\ start = Len(frames)
        /\ frame.parent = TailWorld(frames) /\ Len(committed) <= start
        /\ Holds(file, committed) /\ Holds(disk, committed)
    BY <2>1 DEF Definite, FilesGood, Durable, Tracked, InAppend, Opened
  <2>3. Good(f)
    BY <1>1, <2>2, ContinuedGood
  <2>4. Holds(f, committed) /\ Holds(f, frames)
    BY <1>1, <2>2 DEF Holds
  <2>5. FilesGood' /\ Durable'
    BY <2>2, <2>3, <2>4 DEF FilesGood, Durable
  <2>6. Tracked'
    BY <1>1, <2>2, <2>4 DEF Tracked, InAppend, Opened
  <2>7. Fresh'
    <3>1. /\ \A g \in failed : g.world <= minted /\ g.world < minted
          /\ \A i \in 1..Len(disk) : disk[i].frame.world <= minted /\ disk[i].frame \notin failed
          /\ frame.world = minted /\ frame \notin failed
          /\ \A i \in 1..start : file[i].frame.world < minted
      BY <1>1, <2>1 DEF Definite, Fresh, InAppend
    <3>2. \A i \in 1..start : file[i].frame.world <= minted /\ file[i].frame \notin failed
      BY <1>1, <2>1 DEF Definite, Fresh
    <3>3. ASSUME NEW i \in 1..Len(f) PROVE f[i].frame.world <= minted /\ f[i].frame \notin failed
      <4>1. CASE i = start + 1
        BY <1>1, <3>1, <4>1
      <4>2. CASE i # start + 1
        BY <1>1, <3>2, <4>2
      <4> QED BY <4>1, <4>2
    <3>4. \A i \in 1..start : f[i].frame.world < minted
      BY <3>1
    <3> QED BY <3>1, <3>3, <3>4 DEF Fresh
  <2> QED BY <2>5, <2>6, <2>7 DEF Definite
<1> QED BY <1>2, <1>3, <1>4, <1>5 DEF FInv

LEMMA WritePartStep == ASSUME FInv, WritePart PROVE FInv'
<1> DEFINE c == [frame |-> frame, whole |-> FALSE]
<1>1. /\ pc = "write" /\ Len(file) = start /\ file' = Append(file, c)
      /\ UNCHANGED <<header, diskHeader, disk, pc, frames, frame, start, minted,
                     committed, failed, lame>>
  BY DEF WritePart
<1>2. c \in Chunk /\ c.frame = frame /\ file \in Seq(Chunk)
  BY DEF FInv, Typed, Chunk
<1> HIDE DEF c
<1>3. /\ Append(file, c) \in Seq(Chunk) /\ Len(Append(file, c)) = start + 1
      /\ \A i \in 1..start : Append(file, c)[i] = file[i]
      /\ Append(file, c)[start + 1] = c
  BY <1>1, <1>2, AppendChunk
<1> QED BY <1>1, <1>2, <1>3, WriteStep

LEMMA WriteDoneStep == ASSUME FInv, WriteDone PROVE FInv'
<1> DEFINE c == Whole(frame)
           g == SubSeq(file, 1, start)
<1>1. /\ pc = "write" /\ file' = g \o <<c>> /\ pc' = "sync"
      /\ UNCHANGED <<header, diskHeader, disk, frames, frame, start, minted,
                     committed, failed, lame>>
  BY DEF WriteDone
<1>2. file \in Seq(Chunk) /\ start \in 0..Len(file) /\ start \in Nat
  BY <1>1 DEF FInv, Typed, Placed, InAppend
<1>3. c \in Chunk /\ c.frame = frame
  BY WholeFields DEF FInv, Typed
<1>4. g \in Seq(Chunk) /\ Len(g) = start /\ \A i \in 1..start : g[i] = file[i]
  BY <1>2, PrefixFacts
<1> HIDE DEF g
<1>5. c = Whole(frame)
  OBVIOUS
<1> HIDE DEF c
<1>6. /\ Append(g, c) \in Seq(Chunk) /\ Len(Append(g, c)) = start + 1
      /\ \A i \in 1..start : Append(g, c)[i] = file[i]
      /\ Append(g, c)[start + 1] = c /\ g \o <<c>> = Append(g, c)
  BY <1>3, <1>4, AppendChunk
<1> QED BY <1>1, <1>2, <1>3, <1>5, <1>6, WriteStep

LEMMA AppendFailsStep == ASSUME FInv, AppendFails PROVE FInv'
<1>1. /\ pc \in {"write", "sync"} /\ pc' = "rollback"
      /\ UNCHANGED <<header, diskHeader, file, disk, frames, frame, start, minted,
                     committed, failed, lame>>
  BY DEF AppendFails
<1>2. Typed' /\ Headed'
  BY <1>1 DEF FInv, Typed, Headed, Opened, InAppend
<1>3. Placed'
  BY <1>1 DEF FInv, Placed, InAppend
<1>4. ~lame' => Definite'
  BY <1>1 DEF FInv, Definite, FilesGood, Durable, Tracked, Fresh, InAppend, Opened
<1> QED BY <1>2, <1>3, <1>4 DEF FInv

LEMMA SyncStep == ASSUME FInv, Sync PROVE FInv'
<1>1. /\ pc = "sync" /\ diskHeader' = header /\ disk' = file
      /\ frames' = Append(frames, frame) /\ committed' = Append(frames, frame)
      /\ pc' = "idle"
      /\ UNCHANGED <<header, file, frame, start, minted, failed, lame>>
  BY DEF Sync
<1>2. /\ file \in Seq(Chunk) /\ frames \in Seq(Frame) /\ frame \in Frame /\ start \in Nat
      /\ header = HeaderParts /\ header \in 0..HeaderParts
      /\ Len(file) = start + 1 /\ file[start + 1] = Whole(frame)
  BY <1>1 DEF FInv, Typed, Headed, Placed
<1>3. /\ Append(frames, frame) \in Seq(Frame)
      /\ Len(Append(frames, frame)) = Len(frames) + 1 /\ Len(frames) \in Nat
      /\ \A i \in 1..Len(frames) : Append(frames, frame)[i] = frames[i]
      /\ Append(frames, frame)[Len(frames) + 1] = frame
  BY <1>2, AppendFrameFacts
<1>4. Typed'
  <2>1. diskHeader' \in 0..header'
    BY <1>1, <1>2 DEF HeaderParts
  <2> QED BY <1>1, <1>2, <1>3, <2>1 DEF FInv, Typed, Opened
<1>5. Headed'
  BY <1>1, <1>2 DEF Headed, HeaderParts
<1>6. Placed'
  BY <1>1 DEF Placed, InAppend
<1>7. ASSUME ~lame' PROVE Definite'
  <2>1. Definite
    BY <1>1, <1>7 DEF FInv
  <2>2. start = Len(frames) /\ Holds(file, frames)
    BY <1>1, <2>1 DEF Definite, Tracked, InAppend, Opened
  <2>3. Holds(file, Append(frames, frame))
    <3>1. ASSUME NEW i \in 1..(Len(frames) + 1)
          PROVE  file[i] = Whole(Append(frames, frame)[i])
      <4>1. CASE i = Len(frames) + 1
        BY <1>2, <1>3, <2>2, <4>1
      <4>2. CASE i # Len(frames) + 1
        <5>1. i \in 1..Len(frames)
          BY <1>3, <4>2
        <5> QED BY <1>3, <2>2, <5>1 DEF Holds
      <4> QED BY <4>1, <4>2
    <3> QED BY <1>2, <1>3, <2>2, <3>1 DEF Holds
  <2>4. FilesGood' /\ Durable'
    BY <1>1, <2>1, <2>3 DEF Definite, FilesGood, Durable
  <2>5. Tracked'
    BY <1>1, <1>2, <1>3, <2>2, <2>3 DEF Tracked, InAppend
  <2>6. Fresh'
    BY <1>1, <2>1 DEF Definite, Fresh, InAppend
  <2> QED BY <2>4, <2>5, <2>6 DEF Definite
<1> QED BY <1>4, <1>5, <1>6, <1>7 DEF FInv


LEMMA RollbackTruncateStep == ASSUME FInv, RollbackTruncate PROVE FInv'
<1>1. /\ pc = "rollback" /\ pc' = "rollbacksync"
      /\ \/ file' = SubSeq(file, 1, start) /\ lame' = lame
         \/ lame' = TRUE /\ file' = file
      /\ UNCHANGED <<header, diskHeader, disk, frames, frame, start, minted,
                     committed, failed>>
  BY DEF RollbackTruncate
<1>2. /\ file \in Seq(Chunk) /\ start \in 0..Len(file) /\ start \in Nat
      /\ Len(file) \in Nat /\ Len(file) <= start + 1
  BY <1>1 DEF FInv, Typed, Placed, InAppend
<1>3. /\ SubSeq(file, 1, start) \in Seq(Chunk) /\ Len(SubSeq(file, 1, start)) = start
      /\ \A i \in 1..start : SubSeq(file, 1, start)[i] = file[i]
      /\ Good(file) => Good(SubSeq(file, 1, start))
  BY <1>2, PrefixFacts
<1>4. Typed'
  BY <1>1, <1>3 DEF FInv, Typed, Opened, InAppend
<1>5. Headed'
  BY <1>1 DEF FInv, Headed, HeaderParts
<1>6. Placed'
  BY <1>1, <1>2, <1>3 DEF Placed, InAppend
<1>7. ASSUME ~lame' PROVE Definite'
  <2>1. Definite /\ file' = SubSeq(file, 1, start)
    BY <1>1, <1>7 DEF FInv
  <2>2. /\ start = Len(frames) /\ Len(committed) <= Len(frames)
        /\ Holds(file, frames) /\ Holds(file, committed)
    BY <1>1, <2>1 DEF Definite, Durable, Tracked, InAppend, Opened
  <2>3. Holds(file', frames) /\ Holds(file', committed)
    <3>1. Len(committed) \in Nat
      BY DEF FInv, Typed
    <3> QED BY <1>2, <1>3, <2>1, <2>2, <3>1 DEF Holds
  <2>4. FilesGood' /\ Durable'
    BY <1>1, <1>3, <2>1, <2>3 DEF Definite, FilesGood, Durable
  <2>5. Tracked'
    BY <1>1, <1>3, <2>1, <2>2, <2>3 DEF Definite, Tracked, InAppend, Opened
  <2>6. Fresh'
    <3>1. Len(file') = start /\ \A i \in 1..start : file'[i] = file[i] /\ i \in 1..Len(file)
      BY <1>2, <1>3, <2>1
    <3>2. Fresh /\ pc \in InAppend /\ pc' \in InAppend
      BY <1>1, <2>1 DEF Definite, InAppend
    <3> QED BY <1>1, <3>1, <3>2 DEF Fresh
  <2> QED BY <2>4, <2>5, <2>6 DEF Definite
<1> QED BY <1>4, <1>5, <1>6, <1>7 DEF FInv

\* After a rollback that happened the failed frame is nowhere: what the file
\* held before the append is older.
LEMMA RollbackSyncStep == ASSUME FInv, RollbackSync PROVE FInv'
<1>1. /\ pc = "rollbacksync" /\ pc' = "idle" /\ failed' = failed \cup {frame}
      /\ \/ disk' = file /\ diskHeader' = header /\ lame' = lame
         \/ lame' = TRUE /\ disk' = disk /\ diskHeader' = diskHeader
      /\ UNCHANGED <<header, file, frames, frame, start, minted, committed>>
  BY DEF RollbackSync
<1>2. /\ file \in Seq(Chunk) /\ disk \in Seq(Chunk) /\ start \in Nat /\ minted \in Nat
      /\ header \in 0..HeaderParts /\ diskHeader \in 0..header /\ frame \in Frame
      /\ Len(file) \in Nat
  BY DEF FInv, Typed
<1>3. Typed'
  <2>0. lame' \in BOOLEAN
    BY <1>1 DEF FInv, Typed
  <2>1. diskHeader' \in 0..header' /\ disk' \in Seq(Chunk)
    BY <1>1, <1>2 DEF HeaderParts
  <2>2. failed' \subseteq Frame
    BY <1>1, <1>2 DEF FInv, Typed
  <2> QED BY <1>1, <2>0, <2>1, <2>2 DEF FInv, Typed, Opened
<1>4. Headed'
  <2>1. header = HeaderParts
    BY <1>1 DEF FInv, Headed
  <2> QED BY <1>1, <2>1 DEF FInv, Headed, HeaderParts
<1>5. Placed'
  BY <1>1 DEF Placed, InAppend
<1>6. ASSUME ~lame' PROVE Definite'
  <2>1. Definite /\ disk' = file
    BY <1>1, <1>6 DEF FInv
  <2>2. start = Len(frames) /\ Len(file) = start /\ Holds(file, frames)
    BY <1>1, <2>1 DEF Definite, Tracked, InAppend, Opened
  <2>3. FilesGood' /\ Durable'
    BY <1>1, <2>1 DEF Definite, FilesGood, Durable
  <2>4. Tracked'
    BY <1>1, <2>1, <2>2 DEF Definite, Tracked, InAppend, Opened
  <2>5. Fresh'
    <3>1. /\ frame.world = minted
          /\ \A g \in failed : g.world <= minted
          /\ \A i \in 1..Len(file) : /\ file[i].frame.world <= minted
                                     /\ file[i].frame \notin failed
                                     /\ file[i].frame.world < minted
      BY <1>1, <2>1, <2>2 DEF Definite, Fresh, InAppend
    <3>2. \A i \in 1..Len(file) : file[i].frame \notin failed'
      <4> TAKE i \in 1..Len(file)
      <4>1. file[i].frame # frame
        BY <1>2, <3>1
      <4> QED BY <1>1, <3>1, <4>1
    <3>3. \A g \in failed' : g.world <= minted
      BY <1>1, <1>2, <3>1
    <3> QED BY <1>1, <2>1, <3>1, <3>2, <3>3 DEF Fresh, InAppend
  <2> QED BY <2>3, <2>4, <2>5 DEF Definite
<1> QED BY <1>3, <1>4, <1>5, <1>6 DEF FInv

LEMMA WritebackStep == ASSUME FInv, Writeback PROVE FInv'
<1>1. /\ diskHeader' \in diskHeader..header
      /\ \/ diskHeader' = header /\ disk' \in Writebacks(disk, file)
         \/ disk' = disk
      /\ UNCHANGED <<header, file, pc, frames, frame, start, minted, committed,
                     failed, lame>>
  BY DEF Writeback
<1>2. /\ file \in Seq(Chunk) /\ disk \in Seq(Chunk) /\ committed \in Seq(Frame)
      /\ header \in 0..HeaderParts /\ diskHeader \in 0..header
      /\ Len(committed) \in Nat /\ Len(file) \in Nat /\ Len(disk) \in Nat
  BY DEF FInv, Typed
<1>3. diskHeader' \in 0..header' /\ diskHeader <= diskHeader'
  BY <1>1, <1>2 DEF HeaderParts
<1>4. CASE disk' = disk
  <2>1. Typed'
    BY <1>1, <1>3, <1>4 DEF FInv, Typed
  <2>2. Headed'
    BY <1>1, <1>2, <1>3, <1>4 DEF FInv, Headed, HeaderParts
  <2>3. Placed'
    BY <1>1 DEF FInv, Placed
  <2>4. ~lame' => Definite'
    BY <1>1, <1>4 DEF FInv, Definite, FilesGood, Durable, Tracked, Fresh
  <2> QED BY <2>1, <2>2, <2>3, <2>4 DEF FInv
<1>5. CASE diskHeader' = header /\ disk' \in Writebacks(disk, file)
  <2>1. /\ disk' \in Seq(Chunk) /\ (Good(file) => Good(disk'))
        /\ Len(disk') <= Len(file)
        /\ \A i \in 1..Len(disk') : disk'[i].frame = file[i].frame
        /\ \A i \in 1..Len(file) :
             (i <= Len(disk) /\ \A j \in 1..i : disk[j] = file[j])
               => i <= Len(disk') /\ disk'[i] = file[i]
    BY <1>2, <1>5, WritebackFacts
  <2>2. Typed'
    BY <1>1, <1>3, <2>1 DEF FInv, Typed
  <2>3. Headed'
    <3>1. header < HeaderParts => disk' = <<>>
      <4>1. header < HeaderParts => Len(file) = 0
        BY DEF FInv, Headed
      <4>2. Len(file) = 0 => Len(disk') = 0
        BY <2>1
      <4> QED BY <2>1, <4>1, <4>2, EmptySeq
    <3> QED BY <1>1, <1>2, <1>3, <1>5, <3>1 DEF FInv, Headed, HeaderParts
  <2>4. Placed'
    BY <1>1 DEF FInv, Placed
  <2>5. ASSUME ~lame' PROVE Definite'
    <3>1. Definite
      BY <1>1, <2>5 DEF FInv
    <3>2. Holds(file, committed) /\ Holds(disk, committed) /\ Good(file)
      BY <3>1 DEF Definite, Durable, FilesGood
    <3>3. Holds(disk', committed)
      <4>1. ASSUME NEW i \in 1..Len(committed)
            PROVE  i <= Len(disk') /\ disk'[i] = Whole(committed[i])
        <5>1. /\ i \in 1..Len(file) /\ i <= Len(disk)
              /\ \A j \in 1..i : j \in 1..Len(committed)
          BY <1>2, <3>2 DEF Holds
        <5>2. \A j \in 1..i : disk[j] = file[j]
          BY <3>2, <5>1 DEF Holds
        <5>3. file[i] = Whole(committed[i])
          BY <3>2 DEF Holds
        <5> QED BY <2>1, <5>1, <5>2, <5>3
      <4>2. Len(committed) <= Len(disk')
        <5>1. CASE Len(committed) = 0
          BY <2>1, <5>1
        <5>2. CASE Len(committed) # 0
          BY <1>2, <4>1, <5>2
        <5> QED BY <5>1, <5>2
      <4> QED BY <4>1, <4>2 DEF Holds
    <3>4. FilesGood' /\ Durable'
      BY <1>1, <2>1, <3>2, <3>3 DEF FilesGood, Durable
    <3>5. Tracked'
      BY <1>1, <3>1 DEF Definite, Tracked
    <3>6. Fresh'
      <4>1. \A i \in 1..Len(disk') : /\ disk'[i].frame.world <= minted
                                     /\ disk'[i].frame \notin failed
        BY <1>2, <2>1, <3>1 DEF Definite, Fresh
      <4> QED BY <1>1, <3>1, <4>1 DEF Definite, Fresh
    <3> QED BY <3>4, <3>5, <3>6 DEF Definite
  <2> QED BY <2>2, <2>3, <2>4, <2>5 DEF FInv
<1> QED BY <1>1, <1>4, <1>5

LEMMA ProcessStepKeeps == ASSUME FInv, ProcessStep PROVE FInv'
<1>1. CASE OpenFails
  BY <1>1, Dropped DEF OpenFails
<1>2. CASE AppendFrame
  BY <1>2, BeginAppendStep, WritePartStep, WriteDoneStep, AppendFailsStep, SyncStep
    DEF AppendFrame
<1>3. CASE Rollback
  BY <1>3, RollbackTruncateStep, RollbackSyncStep DEF Rollback
<1>4. CASE ProcessExit
  BY <1>4, Dropped DEF ProcessExit, Gone
<1> QED BY <1>1, <1>2, <1>3, <1>4, OpenStepKeeps, WritebackStep DEF ProcessStep

LEMMA FInvStep == ASSUME FInv, [Next]_vars PROVE FInv'
<1>1. CASE UNCHANGED vars
  <2>1. UNCHANGED <<header, diskHeader, file, disk, pc, frames, frame, start, minted,
                    committed, failed, lame>>
    BY <1>1 DEF vars
  <2> QED BY <2>1 DEF FInv, Typed, Headed, Placed, Definite, FilesGood, Durable, Tracked, Fresh
<1> QED BY <1>1, ProcessStepKeeps, PowerLossStep DEF Next

LEMMA FInvImpliesDefinite == ASSUME FInv PROVE AppendsAreDefinite
<1> SUFFICES ASSUME ~lame
             PROVE  /\ committed # <<>> => header = HeaderParts /\ diskHeader = HeaderParts
                    /\ \A f \in {file, disk} :
                         /\ Sound(f)
                         /\ IsPrefixOf(committed, FramesOf(f))
                         /\ \A i \in DOMAIN f : f[i].frame \notin failed
  BY DEF AppendsAreDefinite
<1>1. Definite /\ file \in Seq(Chunk) /\ disk \in Seq(Chunk) /\ committed \in Seq(Frame)
  BY DEF FInv, Typed
<1>2. committed # <<>> => header = HeaderParts /\ diskHeader = HeaderParts
  BY DEF FInv, Headed
<1>3. ASSUME NEW f \in {file, disk}
      PROVE  Sound(f) /\ IsPrefixOf(committed, FramesOf(f))
  <2>1. f \in Seq(Chunk) /\ Good(f) /\ Holds(f, committed)
    BY <1>1 DEF Definite, FilesGood, Durable
  <2> QED BY <1>1, <2>1, GoodIsSound, HoldsIsPrefix
<1>4. ASSUME NEW f \in {file, disk}, NEW i \in DOMAIN f
      PROVE  f[i].frame \notin failed
  <2>1. DOMAIN f = 1..Len(f)
    BY <1>1
  <2> QED BY <1>1, <2>1 DEF Definite, Fresh
<1> QED BY <1>2, <1>3, <1>4

\* For every number of frames, and through every failure of an append, every
\* process exit and every power loss: as long as each rollback of
\* rollback_failed_append really happened, acknowledged frames are on file and
\* on disk behind a complete header, a frame whose append returned Err is on
\* neither, and decode_file never refuses what a crash leaves.
THEOREM AnswersAreDefinite == Spec => []AppendsAreDefinite
<1>1. Init => FInv
  BY FInvInit
<1>2. FInv /\ [Next]_vars => FInv'
  BY FInvStep
<1>3. FInv => AppendsAreDefinite
  BY FInvImpliesDefinite
<1> QED BY <1>1, <1>2, <1>3, PTL DEF Spec


-----------------------------------------------------------------------------
(* The mapped store.                                                         *)

View == MTyped /\ Paired /\ Noted /\ Viewed

LEMMA MInvInit == ASSUME MmapInit PROVE MInv
<1>1. /\ call = "closed" /\ mapped = Unmapped /\ spans = <<>> /\ cached = <<>>
      /\ wanted = 0 /\ recordStart = 0 /\ gaps = FALSE
  BY DEF MmapInit, Genesis
<1>2. FInv
  BY FInvInit DEF MmapInit
<1>3. MTyped
  <2>1. spans \in Seq(Nat)
    BY <1>1, EmptySeq
  <2>2. cached \in Seq(Frame)
    BY <1>1, EmptySeq
  <2> QED BY <1>1, <2>1, <2>2 DEF MTyped
<1>4. Paired /\ Noted /\ Viewed
  BY <1>1 DEF Paired, Noted, Viewed, Live
<1> QED BY <1>2, <1>3, <1>4 DEF MInv

\* What is read through the spans stays as long as the settled records do.
LEMMA ViewKept ==
    ASSUME MInv, call \in Live, call' \in Live,
           UNCHANGED <<spans, cached, gaps>>, mapped' = mapped \/ mapped' = Unmapped,
           Spanned' = Spanned,
           Settled \in Nat, Settled' \in Nat, Settled <= Settled',
           \A i \in 1..Settled : file'[i] = file[i]
    PROVE  Viewed'
<1>1. /\ Len(spans) <= Spanned
      /\ mapped # Unmapped => mapped <= Settled
      /\ ~gaps => /\ Len(spans) = Spanned
                  /\ \A i \in 1..Len(spans) : file[spans[i]].frame = cached[i]
  BY DEF MInv, Viewed
<1>2. \A i \in 1..Len(spans) :
            /\ spans[i] \in 1..Settled
            /\ mapped # Unmapped => spans[i] <= mapped
            /\ file[spans[i]].whole
            /\ \E j \in 1..Len(cached) : j >= i /\ cached[j] = file[spans[i]].frame
  BY DEF MInv, Viewed
<1>3. \A i \in 1..Len(spans) : file'[spans[i]] = file[spans[i]] /\ spans[i] \in 1..Settled'
  BY <1>2
<1>4. mapped' # Unmapped => mapped' = mapped /\ mapped \in Nat /\ mapped' <= Settled'
  BY <1>1 DEF MInv, MTyped
<1>5. \A i \in 1..Len(spans') :
            /\ spans'[i] \in 1..Settled'
            /\ mapped' # Unmapped => spans'[i] <= mapped'
            /\ file'[spans'[i]].whole
            /\ \E j \in 1..Len(cached') : j >= i /\ cached'[j] = file'[spans'[i]].frame
  BY <1>2, <1>3, <1>4
<1>6. ~gaps' => /\ Len(spans') = Spanned'
                /\ \A i \in 1..Len(spans') : file'[spans'[i]].frame = cached'[i]
  BY <1>1, <1>3
<1> QED BY <1>1, <1>4, <1>5, <1>6 DEF Viewed

\* Steps of the writer inside its append leave the records before it alone.
LEMMA WritingKept ==
    ASSUME MInv, call = "writing", UNCHANGED mmapVars,
           UNCHANGED <<header, start>>, pc' \in InAppend,
           \A i \in 1..start : file'[i] = file[i]
    PROVE  View'
<1>1. UNCHANGED <<call, mapped, spans, cached, wanted, recordStart, gaps>>
  BY DEF mmapVars
<1>2. MTyped'
  BY <1>1 DEF MInv, MTyped
<1>3. Paired' /\ Noted'
  BY <1>1 DEF MInv, Paired, Noted, Live
<1>4. Settled = start /\ Settled' = start /\ start \in Nat /\ Spanned' = Spanned
  BY <1>1 DEF Settled, Spanned, MInv, FInv, Typed
<1>5. Viewed'
  BY <1>1, <1>4, ViewKept DEF Live
<1> QED BY <1>2, <1>3, <1>5 DEF View

\* A step that leaves the file, and the writer's place in it, alone.
LEMMA FileKept ==
    ASSUME MInv, UNCHANGED mmapVars, UNCHANGED <<header, file, pc, start>>
    PROVE  View'
<1>1. UNCHANGED <<call, mapped, spans, cached, wanted, recordStart, gaps>>
  BY DEF mmapVars
<1>2. MTyped'
  BY <1>1 DEF MInv, MTyped
<1>3. Paired' /\ Noted'
  BY <1>1 DEF MInv, Paired, Noted
<1>4. Viewed'
  BY <1>1 DEF MInv, Viewed, Settled, Spanned
<1> QED BY <1>2, <1>3, <1>4 DEF View

\* The mapped store is not open.
LEMMA NotLive ==
    ASSUME MTyped', call' \notin Live, mapped' = Unmapped,
           call' = "opening" => pc' \in {"down", "header", "opensync", "idle"},
           call' = "opening" /\ pc' = "idle" => AllWhole(file')
    PROVE  View'
<1>1. Paired' /\ Noted' /\ Viewed'
  BY DEF Paired, Noted, Viewed, Live
<1> QED BY <1>1 DEF View

LEMMA StoreStepKeeps == ASSUME MInv, StoreStep PROVE MInv'
<1>1. UNCHANGED <<call, mapped, spans, cached, wanted, recordStart, gaps>> /\ UNCHANGED mmapVars
  BY DEF StoreStep, mmapVars
<1>2. MTyped' /\ FInv /\ file \in Seq(Chunk)
  BY <1>1 DEF MInv, MTyped, FInv, Typed
<1>3. CASE call = "closed" /\ ProcessStep
  <2>1. FInv'
    BY <1>2, <1>3, ProcessStepKeeps
  <2>2. View'
    BY <1>1, <1>2, <1>3, NotLive DEF MInv, Paired, Live
  <2> QED BY <2>1, <2>2 DEF MInv, View
<1>4. CASE call = "opening" /\ OpenStep
  <2>1. FInv'
    BY <1>2, <1>4, OpenStepKeeps
  <2>2. /\ pc' \in {"header", "opensync", "idle"}
        /\ pc' = "idle" => AllWhole(file')
    <3>1. CASE OpenEmpty \/ WriteHeader \/ OpenTruncate
      BY <1>4, <3>1 DEF OpenEmpty, WriteHeader, OpenTruncate
    <3>2. CASE SyncHeader
      BY <3>2 DEF SyncHeader, MInv, FInv, Headed, AllWhole
    <3>3. CASE OpenClean
      BY <1>2, <3>3, SoundIsWhole DEF OpenClean
    <3>4. CASE OpenSync
      BY <3>4 DEF OpenSync, MInv, FInv, Placed
    <3> QED BY <1>4, <3>1, <3>2, <3>3, <3>4 DEF OpenStep
  <2>3. View'
    BY <1>1, <1>2, <1>4, <2>2, NotLive DEF MInv, Paired, Live
  <2> QED BY <2>1, <2>3 DEF MInv, View
<1>5. CASE call = "append" /\ OpenStep
  <2>1. FInv'
    BY <1>2, <1>5, OpenStepKeeps
  <2>2. /\ header = HeaderParts /\ pc \in {"down", "idle"} /\ (pc = "down" => AllWhole(file))
    BY <1>5 DEF MInv, Paired, Live
  <2>3. ~TornTail(file) \/ pc # "down"
    BY <1>2, <2>2, WholeFileHolds
  <2>4. pc' = "idle" /\ UNCHANGED <<header, file, start>>
    BY <1>5, <2>2, <2>3 DEF OpenStep, OpenEmpty, WriteHeader, SyncHeader, OpenClean,
      OpenTruncate, OpenSync, HeaderParts
  <2>5. Paired' /\ Noted'
    BY <1>1, <1>5, <2>4 DEF MInv, Paired, Noted, Live
  <2>6. Viewed'
    BY <1>1, <2>4 DEF MInv, Viewed, Settled, Spanned
  <2> QED BY <1>2, <2>1, <2>5, <2>6 DEF MInv
<1>6. CASE call = "writing" /\ (WritePart \/ WriteDone \/ AppendFails \/ RollbackTruncate)
  <2>1. FInv'
    BY <1>2, <1>6, WritePartStep, WriteDoneStep, AppendFailsStep, RollbackTruncateStep
  <2>2. start \in 0..Len(file) /\ Len(file) \in Nat /\ pc \in InAppend /\ frame \in Frame
    BY <1>2, <1>6 DEF MInv, Paired, FInv, Typed, Placed
  <2>3. /\ SubSeq(file, 1, start) \in Seq(Chunk) /\ Len(SubSeq(file, 1, start)) = start
        /\ \A i \in 1..start : SubSeq(file, 1, start)[i] = file[i]
    BY <1>2, <2>2, PrefixFacts
  <2>4. UNCHANGED <<header, start>> /\ pc' \in InAppend
    BY <1>6 DEF WritePart, WriteDone, AppendFails, RollbackTruncate, InAppend
  <2>5. \A i \in 1..start : file'[i] = file[i]
    <3>1. CASE WritePart
      <4>1. [frame |-> frame, whole |-> FALSE] \in Chunk
        BY <2>2 DEF Chunk
      <4>2. \A i \in 1..Len(file) : Append(file, [frame |-> frame, whole |-> FALSE])[i] = file[i]
        BY <1>2, <4>1, AppendChunk
      <4> QED BY <2>2, <3>1, <4>2 DEF WritePart
    <3>2. CASE WriteDone
      <4>1. PICK g \in Seq(Chunk) : g = SubSeq(file, 1, start)
        BY <2>3
      <4>2. Whole(frame) \in Chunk
        BY <2>2, WholeFields
      <4>3. \A i \in 1..Len(g) : (g \o <<Whole(frame)>>)[i] = g[i]
        BY <4>2, AppendChunk
      <4> QED BY <2>3, <3>2, <4>1, <4>3 DEF WriteDone
    <3>3. CASE AppendFails \/ RollbackTruncate
      BY <2>3, <3>3 DEF AppendFails, RollbackTruncate
    <3> QED BY <1>6, <3>1, <3>2, <3>3
  <2>6. View'
    BY <1>1, <1>6, <2>4, <2>5, WritingKept
  <2> QED BY <2>1, <2>6 DEF MInv, View
<1>7. CASE Writeback
  <2>1. FInv'
    BY <1>2, <1>7, WritebackStep
  <2>2. View'
    BY <1>1, <1>7, FileKept DEF Writeback
  <2> QED BY <2>1, <2>2 DEF MInv, View
<1> QED BY <1>3, <1>4, <1>5, <1>6, <1>7 DEF StoreStep


LEMMA MmapOpenStep == ASSUME MInv, MmapOpen PROVE MInv'
<1>1. /\ call = "closed" /\ pc = "down" /\ call' = "opening"
      /\ UNCHANGED <<header, diskHeader, file, disk, pc, frames, frame, start, minted,
                     committed, failed, lame, mapped, spans, cached, wanted, recordStart, gaps>>
      /\ UNCHANGED vars
  BY DEF MmapOpen, vars
<1>2. FInv'
  BY <1>1, FInvStep DEF MInv
<1>3. MTyped'
  BY <1>1 DEF MInv, MTyped
<1>4. View'
  BY <1>1, <1>3, NotLive DEF MInv, Paired, Live
<1> QED BY <1>2, <1>4 DEF MInv, View

\* A new mapping of a file of complete records shows its history.
LEMMA AdoptStep ==
    ASSUME MInv, Adopt, call' = "idle", AllWhole(file), header = HeaderParts
    PROVE  MInv'
<1>1. /\ mapped' = Len(file) /\ spans' = [i \in DOMAIN file |-> i]
      /\ cached' = FramesOf(file) /\ gaps' = FALSE /\ pc' = "down" /\ frames' = <<>>
      /\ UNCHANGED <<header, diskHeader, file, disk, frame, start, minted, committed,
                     failed, lame, wanted, recordStart>>
  BY DEF Adopt
<1>2. FInv'
  BY <1>1, Dropped DEF MInv
<1>3. file \in Seq(Chunk) /\ Len(file) \in Nat /\ DOMAIN file = 1..Len(file)
  BY DEF MInv, FInv, Typed
<1>4. /\ cached' \in Seq(Frame) /\ Len(cached') = Len(file)
      /\ \A i \in 1..Len(file) : cached'[i] = file[i].frame
  BY <1>1, <1>3, WholeFileHolds
<1>5. /\ spans' \in Seq(Nat) /\ Len(spans') = Len(file)
      /\ \A i \in 1..Len(file) : spans'[i] = i
  <2>1. [i \in 1..Len(file) |-> i] \in [1..Len(file) -> Nat]
    OBVIOUS
  <2>2. spans' = [i \in 1..Len(file) |-> i]
    BY <1>1, <1>3
  <2>3. spans' \in [1..Len(file) -> Nat]
    BY <2>1, <2>2
  <2>4. spans' \in Seq(Nat) /\ Len(spans') = Len(file)
    BY <1>3, <2>3, FcnIsSeq
  <2> QED BY <2>2, <2>4
<1>6. MTyped'
  BY <1>1, <1>3, <1>4, <1>5 DEF MInv, MTyped, Live
<1>7. Paired' /\ Noted'
  BY <1>1 DEF Paired, Noted, Live
<1>8. Viewed'
  <2>1. Settled' = Len(file) /\ Spanned' = Len(file) /\ file' = file
    BY <1>1, <1>4 DEF Settled, Spanned
  <2>2. ASSUME NEW i \in 1..Len(spans')
        PROVE  /\ spans'[i] \in 1..Settled'
               /\ mapped' # Unmapped => spans'[i] <= mapped'
               /\ file'[spans'[i]].whole
               /\ file'[spans'[i]].frame = cached'[i]
               /\ i \in 1..Len(cached') /\ i >= i
    BY <1>1, <1>3, <1>4, <1>5, <2>1 DEF AllWhole
  <2>3. \A i \in 1..Len(spans') :
          \E j \in 1..Len(cached') : j >= i /\ cached'[j] = file'[spans'[i]].frame
    BY <2>2
  <2> QED BY <1>1, <1>3, <1>5, <2>1, <2>2, <2>3 DEF Viewed
<1> QED BY <1>2, <1>6, <1>7, <1>8 DEF MInv

LEMMA MmapOpenedStep == ASSUME MInv, MmapOpened PROVE MInv'
<1>1. call = "opening" /\ pc = "idle" /\ call' = "idle" /\ Adopt
  BY DEF MmapOpened
<1>2. AllWhole(file) /\ header = HeaderParts
  BY <1>1 DEF MInv, Paired, FInv, Headed
<1> QED BY <1>1, <1>2, AdoptStep

LEMMA RefreshStep == ASSUME MInv, Refresh PROVE MInv'
<1>1. call' = "idle" /\ header = HeaderParts /\ Sound(file) /\ ~TornTail(file) /\ Adopt
  BY DEF Refresh
<1>2. AllWhole(file)
  BY <1>1, SoundIsWhole DEF MInv, FInv, Typed
<1> QED BY <1>1, <1>2, AdoptStep

LEMMA MmapOpenFailsStep == ASSUME MInv, MmapOpenFails PROVE MInv'
<1>1. /\ call = "opening" /\ call' = "closed" /\ pc' = "down" /\ frames' = <<>>
      /\ UNCHANGED <<header, diskHeader, file, disk, frame, start, minted, committed,
                     failed, lame, mapped, spans, cached, wanted, recordStart, gaps>>
  BY DEF MmapOpenFails
<1>2. FInv'
  BY <1>1, Dropped DEF MInv
<1>3. MTyped'
  BY <1>1 DEF MInv, MTyped
<1>4. View'
  BY <1>1, <1>3, NotLive DEF MInv, Paired, Live
<1> QED BY <1>2, <1>4 DEF MInv, View

\* Calls of the mapped store that touch neither the file nor the writer.
LEMMA AsideStep ==
    ASSUME MInv, UNCHANGED vars, UNCHANGED <<spans, cached, gaps>>,
           wanted' \in Nat, recordStart' \in Nat,
           mapped' = mapped \/ mapped' = Unmapped,
           call \in {"idle", "append"}, call' \in {"idle", "append"},
           call' = "append" => recordStart' = Len(file)
    PROVE  MInv'
<1>1. UNCHANGED <<header, diskHeader, file, disk, pc, frames, frame, start, minted,
                  committed, failed, lame>>
  BY DEF vars
<1>2. FInv'
  BY FInvStep DEF MInv
<1>3. MTyped'
  BY DEF MInv, MTyped, Live
<1>4. Paired' /\ Noted'
  BY <1>1 DEF MInv, Paired, Noted, Live
<1>5. /\ Settled = Len(file) /\ Settled' = Len(file) /\ Len(file) \in Nat
      /\ Spanned' = Spanned
  BY <1>1 DEF Settled, Spanned, MInv, FInv, Typed
<1>6. Viewed'
  BY <1>1, <1>5, ViewKept DEF Live
<1> QED BY <1>2, <1>3, <1>4, <1>6 DEF MInv

LEMMA MmapAppendStep == ASSUME MInv, NEW base \in 0..MaxFrames, MmapAppend(base) PROVE MInv'
<1>1. /\ call = "idle" /\ call' = "append" /\ wanted' = base /\ recordStart' = Len(file)
      /\ UNCHANGED vars /\ UNCHANGED <<mapped, spans, cached, gaps>>
  BY DEF MmapAppend
<1>2. base \in Nat /\ Len(file) \in Nat
  BY FileCommitAssumption DEF MInv, FInv, Typed
<1> QED BY <1>1, <1>2, AsideStep

LEMMA WriterRefusesStep == ASSUME MInv, WriterRefuses PROVE MInv'
<1>1. /\ call = "append" /\ call' = "idle"
      /\ UNCHANGED vars /\ UNCHANGED <<mapped, spans, cached, wanted, recordStart, gaps>>
  BY DEF WriterRefuses
<1>2. wanted' \in Nat /\ recordStart' \in Nat
  BY <1>1 DEF MInv, MTyped
<1> QED BY <1>1, <1>2, AsideStep

LEMMA RefreshFailsStep == ASSUME MInv, RefreshFails PROVE MInv'
<1>1. /\ call = "idle" /\ call' = "idle" /\ mapped' = Unmapped
      /\ UNCHANGED vars /\ UNCHANGED <<spans, cached, wanted, recordStart, gaps>>
  BY DEF RefreshFails
<1>2. wanted' \in Nat /\ recordStart' \in Nat
  BY <1>1 DEF MInv, MTyped
<1> QED BY <1>1, <1>2, AsideStep

LEMMA WriterAppendsStep == ASSUME MInv, WriterAppends PROVE MInv'
<1>1. /\ call = "append" /\ pc = "idle" /\ call' = "writing" /\ BeginAppend(wanted)
      /\ UNCHANGED <<mapped, spans, cached, wanted, recordStart, gaps>>
  BY DEF WriterAppends
<1>2. FInv'
  BY <1>1, BeginAppendStep DEF MInv
<1>3. UNCHANGED <<header, file>> /\ pc' = "write" /\ start' = Len(file) /\ Len(file) \in Nat
  BY <1>1 DEF BeginAppend, MInv, FInv, Typed
<1>4. MTyped'
  BY <1>1 DEF MInv, MTyped, Live
<1>5. Paired' /\ Noted'
  BY <1>1, <1>3 DEF MInv, Paired, Noted, Live, InAppend
<1>6. Settled = Len(file) /\ Settled' = Len(file) /\ Spanned' = Spanned
  BY <1>1, <1>3 DEF Settled, Spanned
<1>7. Viewed'
  BY <1>1, <1>3, <1>6, ViewKept DEF Live
<1> QED BY <1>2, <1>4, <1>5, <1>7 DEF MInv

LEMMA WriterFailsStep == ASSUME MInv, WriterFails PROVE MInv'
<1>1. /\ call = "writing" /\ RollbackSync /\ call' = "idle"
      /\ UNCHANGED <<mapped, spans, cached, wanted, recordStart, gaps>>
  BY DEF WriterFails
<1>2. FInv'
  BY <1>1, RollbackSyncStep DEF MInv
<1>3. /\ UNCHANGED <<header, file, start>> /\ pc = "rollbacksync" /\ pc' = "idle"
      /\ Len(file) \in Nat /\ start \in Nat /\ start <= Len(file)
  BY <1>1 DEF RollbackSync, MInv, FInv, Typed, Placed, InAppend
<1>4. MTyped'
  BY <1>1 DEF MInv, MTyped, Live
<1>5. Paired' /\ Noted'
  BY <1>1, <1>3 DEF MInv, Paired, Noted, Live
<1>6. Settled = start /\ Settled' = Len(file) /\ Spanned' = Spanned
  BY <1>1, <1>3 DEF Settled, Spanned
<1>7. Viewed'
  BY <1>1, <1>3, <1>6, ViewKept DEF Live
<1> QED BY <1>2, <1>4, <1>5, <1>7 DEF MInv

\* The frame is in the file and among the frames; its span is still missing.
LEMMA WriterSucceedsStep == ASSUME MInv, WriterSucceeds PROVE MInv'
<1>1. /\ call = "writing" /\ Sync /\ cached' = Append(cached, frame)
      /\ call' = "remap" /\ mapped' = Unmapped
      /\ UNCHANGED <<spans, wanted, recordStart, gaps>>
  BY DEF WriterSucceeds
<1>2. FInv'
  BY <1>1, SyncStep DEF MInv
<1>3. /\ UNCHANGED <<header, file, start>> /\ pc = "sync" /\ pc' = "idle"
      /\ Len(file) = start + 1 /\ file[start + 1] = Whole(frame)
      /\ start \in Nat /\ frame \in Frame /\ cached \in Seq(Frame)
      /\ recordStart = start
  BY <1>1 DEF Sync, MInv, FInv, Typed, Placed, MTyped, Noted
<1>4. /\ cached' \in Seq(Frame) /\ Len(cached') = Len(cached) + 1 /\ Len(cached) \in Nat
      /\ \A i \in 1..Len(cached) : cached'[i] = cached[i]
      /\ cached'[Len(cached) + 1] = frame
  BY <1>1, <1>3, AppendFrameFacts
<1>5. MTyped'
  BY <1>1, <1>4 DEF MInv, MTyped, Live
<1>6. Paired'
  BY <1>1, <1>3 DEF MInv, Paired, Live
<1>7. Noted'
  <2>1. cached' # <<>>
    BY <1>4, EmptySeq
  <2>2. cached'[Len(cached')] = frame
    BY <1>4
  <2> QED BY <1>1, <1>3, <2>1, <2>2 DEF Noted
<1>8. Viewed'
  <2>1. /\ Settled = start /\ Settled' = start + 1
        /\ Spanned = Len(cached) /\ Spanned' = Len(cached)
    BY <1>1, <1>3, <1>4 DEF Settled, Spanned
  <2>2. /\ Len(spans) <= Len(cached) /\ Len(spans) \in Nat
        /\ ~gaps => /\ Len(spans) = Len(cached)
                    /\ \A i \in 1..Len(spans) : file[spans[i]].frame = cached[i]
        /\ \A i \in 1..Len(spans) :
             /\ spans[i] \in 1..start /\ file[spans[i]].whole
             /\ \E j \in 1..Len(cached) : j >= i /\ cached[j] = file[spans[i]].frame
    BY <1>1, <2>1 DEF MInv, MTyped, Viewed, Live
  <2>3. ASSUME NEW i \in 1..Len(spans)
        PROVE  \E j \in 1..Len(cached') : j >= i /\ cached'[j] = file[spans[i]].frame
    <3>1. PICK j \in 1..Len(cached) : j >= i /\ cached[j] = file[spans[i]].frame
      BY <2>2
    <3>2. j \in 1..Len(cached') /\ cached'[j] = cached[j]
      BY <1>4
    <3> QED BY <3>1, <3>2
  <2>4. \A i \in 1..Len(spans) : spans[i] \in 1..(start + 1)
    BY <1>3, <2>2
  <2>5. ~gaps => \A i \in 1..Len(spans) : file[spans[i]].frame = cached'[i]
    BY <1>4, <2>2
  <2> QED BY <1>1, <1>3, <2>1, <2>2, <2>3, <2>4, <2>5 DEF Viewed
<1> QED BY <1>2, <1>5, <1>6, <1>7, <1>8 DEF MInv

LEMMA RemapStep == ASSUME MInv, Remap PROVE MInv'
<1>1. /\ call = "remap" /\ call' = "idle"
      /\ UNCHANGED vars /\ UNCHANGED <<cached, wanted, recordStart>>
      /\ \/ /\ Len(file) = recordStart + 1
            /\ spans' = Append(spans, recordStart + 1)
            /\ mapped' = Len(file) /\ gaps' = gaps
         \/ gaps' = TRUE /\ mapped' = mapped /\ spans' = spans
  BY DEF Remap
<1>2. UNCHANGED <<header, diskHeader, file, disk, pc, frames, frame, start, minted,
                  committed, failed, lame>>
  BY <1>1 DEF vars
<1>3. FInv'
  BY <1>1, FInvStep DEF MInv
<1>4. /\ Len(file) = recordStart + 1 /\ recordStart \in Nat /\ spans \in Seq(Nat)
      /\ cached \in Seq(Frame) /\ Len(cached) \in Nat /\ Len(spans) \in Nat
      /\ file[recordStart + 1] = Whole(cached[Len(cached)])
      /\ pc = "idle" /\ mapped = Unmapped
  BY <1>1 DEF MInv, MTyped, Noted, Paired
<1>5. Settled = Len(file) /\ Settled' = Len(file) /\ Spanned = Len(cached) - 1
      /\ Spanned' = Len(cached)
  BY <1>1, <1>2 DEF Settled, Spanned
<1>6. /\ Len(spans) <= Len(cached) - 1
      /\ ~gaps => /\ Len(spans) = Len(cached) - 1
                  /\ \A i \in 1..Len(spans) : file[spans[i]].frame = cached[i]
      /\ \A i \in 1..Len(spans) :
           /\ spans[i] \in 1..Len(file) /\ file[spans[i]].whole
           /\ \E j \in 1..Len(cached) : j >= i /\ cached[j] = file[spans[i]].frame
  BY <1>1, <1>5 DEF MInv, Viewed, Live
<1>7. Paired' /\ Noted'
  BY <1>1, <1>2, <1>4 DEF MInv, Paired, Noted, Live
<1>8. CASE gaps' = TRUE /\ mapped' = mapped /\ spans' = spans
  <2>1. MTyped'
    BY <1>1, <1>8 DEF MInv, MTyped, Live
  <2>2. Viewed'
    BY <1>1, <1>2, <1>4, <1>5, <1>6, <1>8 DEF Viewed
  <2> QED BY <1>3, <1>7, <2>1, <2>2 DEF MInv
<1>9. CASE spans' = Append(spans, recordStart + 1) /\ mapped' = Len(file) /\ gaps' = gaps
  <2>1. /\ spans' \in Seq(Nat) /\ Len(spans') = Len(spans) + 1
        /\ \A i \in 1..Len(spans) : spans'[i] = spans[i]
        /\ spans'[Len(spans) + 1] = recordStart + 1
    <3>1. recordStart + 1 \in Nat
      BY <1>4
    <3> QED BY <1>4, <1>9, <3>1, AppendProperties
  <2>2. MTyped'
    <3>1. mapped' \in Nat /\ gaps' \in BOOLEAN
      BY <1>4, <1>9 DEF MInv, MTyped
    <3> QED BY <1>1, <2>1, <3>1 DEF MInv, MTyped, Live
  <2>3. file[recordStart + 1].whole /\ file[recordStart + 1].frame = cached[Len(cached)]
    BY <1>4, WholeFields
  <2>4. ASSUME NEW i \in 1..Len(spans')
        PROVE  /\ spans'[i] \in 1..Len(file) /\ spans'[i] <= Len(file)
               /\ file[spans'[i]].whole
               /\ \E j \in 1..Len(cached) : j >= i /\ cached[j] = file[spans'[i]].frame
               /\ ~gaps => file[spans'[i]].frame = cached[i]
    <3>1. CASE i = Len(spans) + 1
      <4>1. Len(cached) \in 1..Len(cached) /\ Len(cached) >= i /\ (~gaps => i = Len(cached))
        BY <1>4, <1>6, <3>1
      <4>2. spans'[i] = recordStart + 1 /\ recordStart + 1 \in 1..Len(file)
        BY <1>4, <2>1, <3>1
      <4>3. spans'[i] <= Len(file)
        BY <1>4, <4>2
      <4> QED BY <2>3, <4>1, <4>2, <4>3
    <3>2. CASE i # Len(spans) + 1
      <4>1. i \in 1..Len(spans) /\ spans'[i] = spans[i]
        BY <1>4, <2>1, <3>2
      <4> QED BY <1>4, <1>6, <4>1
    <3> QED BY <3>1, <3>2
  <2>5. Viewed'
    <3>1. Len(spans') <= Spanned' /\ mapped' <= Settled' /\ (~gaps' => Len(spans') = Spanned')
      BY <1>4, <1>5, <1>6, <1>9, <2>1
    <3>2. ~gaps' => \A i \in 1..Len(spans') : file'[spans'[i]].frame = cached'[i]
      BY <1>1, <1>2, <1>9, <2>4
    <3>3. \A i \in 1..Len(spans') :
            /\ spans'[i] \in 1..Settled'
            /\ mapped' # Unmapped => spans'[i] <= mapped'
            /\ file'[spans'[i]].whole
            /\ \E j \in 1..Len(cached') : j >= i /\ cached'[j] = file'[spans'[i]].frame
      BY <1>1, <1>2, <1>5, <1>9, <2>4
    <3> QED BY <3>1, <3>2, <3>3 DEF Viewed
  <2> QED BY <1>3, <1>7, <2>2, <2>5 DEF MInv
<1> QED BY <1>1, <1>8, <1>9

LEMMA MmapExitStep == ASSUME MInv, MmapExit PROVE MInv'
<1>1. /\ call' = "closed" /\ mapped' = Unmapped /\ spans' = <<>> /\ cached' = <<>>
      /\ wanted' = 0 /\ recordStart' = 0 /\ gaps' = FALSE
  BY DEF MmapExit, Released, Genesis
<1>2. FInv'
  <2>1. CASE PowerLoss
    BY <2>1, PowerLossStep DEF MInv
  <2>2. CASE Gone /\ UNCHANGED <<header, diskHeader, file, disk>>
    BY <2>2, Dropped DEF MInv, Gone
  <2> QED BY <2>1, <2>2 DEF MmapExit
<1>3. MTyped'
  <2>1. spans' \in Seq(Nat)
    BY <1>1, EmptySeq
  <2>2. cached' \in Seq(Frame)
    BY <1>1, EmptySeq
  <2> QED BY <1>1, <2>1, <2>2 DEF MTyped
<1>4. View'
  BY <1>1, <1>3, NotLive DEF Live
<1> QED BY <1>2, <1>4 DEF MInv, View

-----------------------------------------------------------------------------
(* Theorems about the mapped store.                                          *)

LEMMA MInvStep == ASSUME MInv, [MmapNext]_<<vars, mmapVars>> PROVE MInv'
<1>1. CASE UNCHANGED <<vars, mmapVars>>
  <2>1. FInv'
    BY <1>1, FInvStep DEF MInv
  <2>2. View'
    BY <1>1, FileKept DEF vars
  <2> QED BY <2>1, <2>2 DEF MInv, View
<1>2. CASE \E base \in 0..MaxFrames : MmapAppend(base)
  BY <1>2, MmapAppendStep
<1> QED BY <1>1, <1>2, StoreStepKeeps, MmapOpenStep, MmapOpenedStep, MmapOpenFailsStep,
  WriterAppendsStep, WriterRefusesStep, WriterFailsStep, WriterSucceedsStep, RemapStep,
  RefreshStep, RefreshFailsStep, MmapExitStep DEF MmapNext

LEMMA MInvImpliesView == ASSUME MInv PROVE MappedViewIsHistory
<1> SUFFICES ASSUME mapped # Unmapped
             PROVE  /\ mapped <= Len(file)
                    /\ \A i \in DOMAIN spans :
                         /\ spans[i] <= mapped
                         /\ file[spans[i]].whole
                         /\ \E j \in DOMAIN cached : j >= i /\ cached[j] = file[spans[i]].frame
                    /\ ~gaps => [i \in DOMAIN spans |-> file[spans[i]].frame] = cached
  BY DEF MappedViewIsHistory
<1>1. /\ call \in Live /\ call # "remap" /\ mapped \in Nat
      /\ spans \in Seq(Nat) /\ cached \in Seq(Frame)
      /\ Len(file) \in Nat /\ start \in Nat /\ (call = "writing" => start <= Len(file))
  BY DEF MInv, Paired, MTyped, Live, FInv, Typed, Placed
<1>2. DOMAIN spans = 1..Len(spans) /\ DOMAIN cached = 1..Len(cached)
  BY <1>1
<1>3. Settled <= Len(file) /\ Settled \in Nat /\ Spanned = Len(cached)
  BY <1>1 DEF Settled, Spanned
<1>4. /\ mapped <= Settled
      /\ \A i \in 1..Len(spans) :
            /\ spans[i] <= mapped /\ file[spans[i]].whole
            /\ \E j \in 1..Len(cached) : j >= i /\ cached[j] = file[spans[i]].frame
      /\ ~gaps => /\ Len(spans) = Len(cached)
                  /\ \A i \in 1..Len(spans) : file[spans[i]].frame = cached[i]
  BY <1>1, <1>3 DEF MInv, Viewed
<1>5. ASSUME ~gaps PROVE [i \in DOMAIN spans |-> file[spans[i]].frame] = cached
  <2>1. cached = [i \in 1..Len(cached) |-> cached[i]]
    BY <1>1, <1>2
  <2>2. DOMAIN spans = 1..Len(cached) /\ \A i \in 1..Len(cached) : file[spans[i]].frame = cached[i]
    BY <1>2, <1>4, <1>5
  <2>3. [i \in DOMAIN spans |-> file[spans[i]].frame] = [i \in 1..Len(cached) |-> cached[i]]
    BY <2>2
  <2> QED BY <2>1, <2>3, Zenon
<1>6. mapped <= Len(file)
  BY <1>1, <1>3, <1>4
<1>7. \A i \in DOMAIN spans :
        /\ spans[i] <= mapped
        /\ file[spans[i]].whole
        /\ \E j \in DOMAIN cached : j >= i /\ cached[j] = file[spans[i]].frame
  BY <1>2, <1>4
<1> QED BY <1>5, <1>6, <1>7, Zenon

\* The same answer of append when the file is used through the mapped store too.
THEOREM MappedAnswersAreDefinite == MmapSpec => []AppendsAreDefinite
<1>1. MmapInit => MInv
  BY MInvInit
<1>2. MInv /\ [MmapNext]_<<vars, mmapVars>> => MInv'
  BY MInvStep
<1>3. MInv => AppendsAreDefinite
  BY FInvImpliesDefinite DEF MInv
<1> QED BY <1>1, <1>2, <1>3, PTL DEF MmapSpec

\* For every number of frames, and whatever write, sync, rollback, remap or
\* refresh fails: the file is never shortened below a live mapping, every span
\* is a whole record of a frame the store reports, and while no remap has failed
\* the mapped records are exactly the reported frames.  This holds even after a
\* rollback that failed itself.
THEOREM MappingShowsHistory == MmapSpec => []MappedViewIsHistory
<1>1. MmapInit => MInv
  BY MInvInit
<1>2. MInv /\ [MmapNext]_<<vars, mmapVars>> => MInv'
  BY MInvStep
<1>3. MInv => MappedViewIsHistory
  BY MInvImpliesView
<1> QED BY <1>1, <1>2, <1>3, PTL DEF MmapSpec
=============================================================================
