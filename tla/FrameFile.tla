----------------------------- MODULE FrameFile ------------------------------
(***************************************************************************)
(* The version-1 commit file shared by FileCommitStore and FileEpochStore, *)
(* and the storage under it.                                               *)
(*                                                                         *)
(* A file is a sequence of chunks, one per FRM1 ... END1 record: the frame  *)
(* it carries and whether all of its bytes are there.  A chunk that is not  *)
(* whole at the very end is the torn tail recovery drops; anywhere else, or *)
(* a whole chunk whose parent is not the frame before it, is corruption.    *)
(* A frame is its pair of world identifiers; world identifiers chain        *)
(* collision-free from Genesis and the version is the position.             *)
(*                                                                         *)
(* Storage is external: `file' is what the operating system shows a         *)
(* process, `disk' what a power failure would leave.  Dirty chunks reach    *)
(* the disk in file order, the last of them possibly torn.                  *)
(***************************************************************************)
EXTENDS Naturals, Sequences

Genesis == 0

Frame == [parent : Nat, world : Nat]

Chunk == [frame : Frame, whole : BOOLEAN]

Whole(frame) == [frame |-> frame, whole |-> TRUE]

\* The bytes of a sequence of frames, every record complete.
Encoded(frames) == [i \in DOMAIN frames |-> Whole(frames[i])]

\* The world a history ends in.
TailWorld(frames) ==
    IF frames = <<>> THEN Genesis ELSE frames[Len(frames)].world

\* frames continue a history that ends in `world', each the child of the last.
LinearFrom(world, frames) ==
    \A i \in 1..Len(frames) :
        frames[i].parent = (IF i = 1 THEN world ELSE frames[i - 1].world)

\* The history a is the beginning of b.
IsPrefixOf(a, b) == Len(a) <= Len(b) /\ \A i \in 1..Len(a) : a[i] = b[i]

TornTail(f) == f # <<>> /\ ~f[Len(f)].whole

\* The file up to last_good_offset.
GoodPrefix(f) == IF TornTail(f) THEN SubSeq(f, 1, Len(f) - 1) ELSE f

FramesOf(f) == [i \in 1..Len(GoodPrefix(f)) |-> f[i].frame]

\* inspect_file and decode_file return frames rather than a corruption error.
Sound(f) ==
    /\ \A i \in 1..Len(f) : ~f[i].whole => i = Len(f)
    /\ LinearFrom(Genesis, FramesOf(f))

-----------------------------------------------------------------------------

\* The first n chunks of f, the last of them torn if torn.
Cut(f, n, torn) ==
    [i \in 1..n |-> IF torn /\ i = n THEN [f[i] EXCEPT !.whole = FALSE] ELSE f[i]]

\* The disk contents the operating system may move to, on its way from d to f:
\* what the two already agree on stays.
Writebacks(d, f) ==
    {img \in {Cut(f, n, torn) : n \in 0..Len(f), torn \in BOOLEAN} :
        \A i \in 1..Len(f) :
            (i <= Len(d) /\ \A j \in 1..i : d[j] = f[j])
                => (i <= Len(img) /\ img[i] = f[i])}
=============================================================================
