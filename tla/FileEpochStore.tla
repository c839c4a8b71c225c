--------------------------- MODULE FileEpochStore ---------------------------
(***************************************************************************)
(* FileEpochStore of file_epoch_store.rs: one epoch of commit frames is    *)
(* written at the end of the file and synchronized; a failure is repaired  *)
(* by a verified, synchronized truncation, or poisons the store.  Around   *)
(* it: process exit and power loss at any step, and FileCommitStore::open, *)
(* which recovers the file.                                                *)
(***************************************************************************)
EXTENDS FrameFile, FiniteSets

CONSTANTS
    MaxEpoch,    \* bound: frames in one epoch
    MaxFrames    \* bound: frames ever offered to the store

ASSUME FileEpochAssumption ==
    /\ MaxEpoch \in Nat
    /\ MaxFrames \in Nat

VARIABLES
    policy,    \* FileEpochSyncPolicy, chosen by whoever opens the store
    file,      \* the file as processes see it
    disk,      \* the file as a power failure would leave it
    state,     \* FileEpochState, or "Down" while no process has the store open
    pc,        \* where the running call is
    frames,    \* the verified logical frames of the open store
    epoch,     \* frames of the prepared epoch
    start,     \* start_offset of its checkpoint, in chunks
    goal,      \* chunks in the file once the running write_all_at is done
    minted,    \* frames offered so far; names the next world
    acked,     \* history of the last append_epoch that returned Ok
    repaired,  \* frames whose append_epoch returned EpochRepaired
    visible    \* the newest history any process was given

ghosts == <<acked, repaired, visible>>
vars == <<policy, file, disk, state, pc, frames, epoch, start, goal, minted,
          acked, repaired, visible>>

-----------------------------------------------------------------------------

Policies == {"PerFrame", "PerEpoch"}

Init ==
    /\ policy = "PerEpoch"
    /\ file = <<>> /\ disk = <<>>
    /\ state = "Down" /\ pc = "down"
    /\ frames = <<>> /\ epoch = <<>>
    /\ start = 0 /\ goal = 0 /\ minted = 0
    /\ acked = <<>> /\ repaired = {} /\ visible = <<>>

(* FileCommitStore::open, then from_io on the same bytes.                    *)

\* The recovered frames become the store's and are published to readers.
Opened(f) ==
    /\ policy' \in Policies
    /\ state' = "Healthy" /\ pc' = "idle"
    /\ frames' = FramesOf(f) /\ visible' = FramesOf(f)

\* Nothing to truncate: open performs no synchronization at all.
OpenClean ==
    /\ pc = "down"
    /\ Sound(file) /\ ~TornTail(file)
    /\ Opened(file)
    /\ UNCHANGED <<file, disk, epoch, start, goal, minted, acked, repaired>>

OpenTruncate ==
    /\ pc = "down"
    /\ Sound(file) /\ TornTail(file)
    /\ file' = GoodPrefix(file)
    /\ pc' = "opensync"
    /\ UNCHANGED <<policy, disk, state, frames, epoch, start, goal, minted, ghosts>>

OpenSync ==
    /\ pc = "opensync"
    /\ disk' = file
    /\ Opened(file)
    /\ UNCHANGED <<file, epoch, start, goal, minted, acked, repaired>>

OpenSyncFails ==
    /\ pc = "opensync"
    /\ pc' = "down"
    /\ UNCHANGED <<policy, file, disk, state, frames, epoch, start, goal, minted, ghosts>>

-----------------------------------------------------------------------------
(* append_epoch: prepare_epoch, the writes and syncs of the policy, and      *)
(* finish_prepared_epoch.                                                    *)

\* Frames for fresh worlds, the first claiming `base' as its parent.
Chain(base, n) ==
    [i \in 1..n |-> [parent |-> IF i = 1 THEN base ELSE minted + i - 1,
                     world |-> minted + i]]

\* Fault: the epoch's parent is not compared with the verified tail.
AdmissibleAnyBase(base) == state = "Healthy"

\* ensure_healthy and validate_epoch: anything that does not extend the
\* verified tail is refused before a byte is written.
Admissible(base) == state = "Healthy" /\ base = TailWorld(frames)

PrepareEpoch(base, n) ==
    /\ pc = "idle"
    /\ Admissible(base)
    /\ minted + n <= MaxFrames
    /\ epoch' = Chain(base, n)
    /\ minted' = minted + n
    /\ start' = Len(file)
    /\ goal' = Len(file) + (IF policy = "PerEpoch" THEN n ELSE 1)
    /\ pc' = "write"
    /\ UNCHANGED <<policy, file, disk, state, frames, ghosts>>

\* The whole file once the epoch is written.
Target == SubSeq(file, 1, start) \o Encoded(epoch)

\* One write_at call: the file grows by a nonempty part of what is left.
WriteAt ==
    /\ pc = "write"
    /\ \E n \in Len(file)..goal, torn \in BOOLEAN :
        /\ n > start
        /\ n = Len(file) => (TornTail(file) /\ ~torn)
        /\ file' = Cut(Target, n, torn)
        /\ pc' = IF n = goal /\ ~torn THEN "sync" ELSE "write"
    /\ UNCHANGED <<policy, disk, state, frames, epoch, start, goal, minted, ghosts>>

\* write_at or sync_data reports an error: handle_primary_failure takes over.
PrimaryFailure ==
    /\ pc \in {"write", "sync"}
    /\ state' = "Repairing"
    /\ pc' = "truncate"
    /\ UNCHANGED <<policy, file, disk, frames, epoch, start, goal, minted, ghosts>>

\* PerFrame: a sync after each frame but the last.
SyncFrame ==
    /\ pc = "sync"
    /\ goal < start + Len(epoch)
    /\ disk' = file
    /\ goal' = goal + 1
    /\ pc' = "write"
    /\ UNCHANGED <<policy, file, state, frames, epoch, start, minted, ghosts>>

\* Fault: the epoch is reported durable without sync_data.
SyncEpochSkipsSync ==
    /\ pc = "sync"
    /\ goal = start + Len(epoch)
    /\ frames' = frames \o epoch
    /\ acked' = frames \o epoch
    /\ visible' = frames \o epoch
    /\ pc' = "idle"
    /\ UNCHANGED <<policy, file, disk, state, epoch, start, goal, minted, repaired>>

SyncEpoch ==
    /\ pc = "sync"
    /\ goal = start + Len(epoch)
    /\ disk' = file
    /\ frames' = frames \o epoch
    /\ acked' = frames \o epoch
    /\ visible' = frames \o epoch
    /\ pc' = "idle"
    /\ UNCHANGED <<policy, file, state, epoch, start, goal, minted, repaired>>

-----------------------------------------------------------------------------
(* repair: truncate, sync, verify.                                           *)

RepairTruncate ==
    /\ pc = "truncate"
    /\ file' = SubSeq(file, 1, start)
    /\ pc' = "repairsync"
    /\ UNCHANGED <<policy, disk, state, frames, epoch, start, goal, minted, ghosts>>

\* Fault: the truncation is not synchronized.
RepairSyncSkipped ==
    /\ pc = "repairsync"
    /\ pc' = "verify"
    /\ UNCHANGED <<policy, file, disk, state, frames, epoch, start, goal, minted, ghosts>>

RepairSync ==
    /\ pc = "repairsync"
    /\ disk' = file
    /\ pc' = "verify"
    /\ UNCHANGED <<policy, file, state, frames, epoch, start, goal, minted, ghosts>>

\* Length, digest, parse, frame count, tail identity and replay all agree with
\* the checkpoint: the file is the encoding of the verified frames.
Verified == file = Encoded(frames)

RepairVerified ==
    /\ pc = "verify"
    /\ Verified
    /\ state' = "Healthy" /\ pc' = "idle"
    /\ repaired' = repaired \cup {epoch[i] : i \in 1..Len(epoch)}
    /\ UNCHANGED <<policy, file, disk, frames, epoch, start, goal, minted, acked, visible>>

\* Fault: a failed repair hands the store back.
RepairFailsOpen ==
    /\ pc \in {"truncate", "repairsync", "verify"}
    /\ \/ UNCHANGED file
       \/ pc = "truncate" /\ file' = SubSeq(file, 1, start)
    /\ state' = "Healthy" /\ pc' = "idle"
    /\ UNCHANGED <<policy, disk, frames, epoch, start, goal, minted, ghosts>>

\* Any step of repair fails, a truncation that took effect included.
RepairFails ==
    /\ pc \in {"truncate", "repairsync", "verify"}
    /\ \/ UNCHANGED file
       \/ pc = "truncate" /\ file' = SubSeq(file, 1, start)
    /\ state' = "Poisoned" /\ pc' = "idle"
    /\ UNCHANGED <<policy, disk, frames, epoch, start, goal, minted, ghosts>>

\* The controller poisons the store when its worker stops abnormally.
PoisonExternal ==
    /\ pc = "idle"
    /\ state' = "Poisoned"
    /\ UNCHANGED <<policy, file, disk, pc, frames, epoch, start, goal, minted, ghosts>>

-----------------------------------------------------------------------------
(* The environment.                                                          *)

Writeback ==
    /\ disk' \in Writebacks(disk, file)
    /\ UNCHANGED <<policy, file, state, pc, frames, epoch, start, goal, minted, ghosts>>

Gone ==
    /\ state' = "Down" /\ pc' = "down"
    /\ frames' = <<>> /\ epoch' = <<>> /\ start' = 0 /\ goal' = 0
    /\ UNCHANGED <<policy, minted, ghosts>>

\* The process ends, at any step, with or without Drop; the file stays.
ProcessExit ==
    /\ pc # "down"
    /\ Gone
    /\ UNCHANGED <<file, disk>>

PowerLoss ==
    /\ Gone
    /\ file' = disk
    /\ UNCHANGED disk

-----------------------------------------------------------------------------

Open == OpenClean \/ OpenTruncate \/ OpenSync \/ OpenSyncFails

AppendEpoch ==
    \/ \E base \in 0..MaxFrames, n \in 1..MaxEpoch : PrepareEpoch(base, n)
    \/ WriteAt \/ PrimaryFailure \/ SyncFrame \/ SyncEpoch

Repair == RepairTruncate \/ RepairSync \/ RepairVerified \/ RepairFails

Environment == Writeback \/ ProcessExit \/ PowerLoss

Next == Open \/ AppendEpoch \/ Repair \/ PoisonExternal \/ Environment

Spec == Init /\ [][Next]_vars

-----------------------------------------------------------------------------
(* Properties.                                                               *)

\* Type invariant.
TypeOK ==
    /\ policy \in Policies
    /\ file \in Seq(Chunk) /\ disk \in Seq(Chunk)
    /\ state \in {"Healthy", "Repairing", "Poisoned", "Down"}
    /\ pc \in {"down", "opensync", "idle", "write", "sync",
               "truncate", "repairsync", "verify"}
    /\ frames \in Seq(Frame) /\ epoch \in Seq(Frame)
    /\ start \in Nat /\ goal \in Nat /\ minted \in Nat
    /\ acked \in Seq(Frame) /\ visible \in Seq(Frame)
    /\ repaired \in SUBSET Frame

\* A history an append_epoch call reported durable is what recovery finds (or a
\* prefix of it), whatever mixture of process exits, power losses, failed
\* writes, failed syncs and failed repairs followed.
AckedSurvives ==
    /\ IsPrefixOf(acked, FramesOf(disk))
    /\ IsPrefixOf(acked, FramesOf(file))

\* Recovery never fails closed on what the store itself left behind: no crash
\* point leaves a torn record inside the file or a nonlinear history.
AlwaysRecoverable == Sound(file) /\ Sound(disk)

\* EpochRepaired is a definite answer: no frame of a repaired epoch is in the
\* file, or comes back from the disk, ever after.
RepairedNeverReturns ==
    \A f \in repaired :
        /\ \A i \in 1..Len(file) : file[i].frame # f
        /\ \A i \in 1..Len(disk) : disk[i].frame # f

\* Between calls a healthy store's cached frames are exactly the file's bytes,
\* so the next epoch is placed, and chained, where recovery will look for it.
HealthyMatchesFile ==
    (state = "Healthy" /\ pc = "idle") => file = Encoded(frames)

\* Poisoning is final for the process: no write, sync or truncation changes the
\* file until it is closed and recovered.
PoisonFences ==
    [][(state = "Poisoned" /\ state' # "Down")
        => (state' = "Poisoned" /\ file' = file)]_vars

=============================================================================
