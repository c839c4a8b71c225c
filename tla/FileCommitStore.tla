-------------------------- MODULE FileCommitStore ---------------------------
(***************************************************************************)
(* FileCommitStore of file_store.rs: opening (the file header of a new     *)
(* file, recovery of an old one) and append, one synchronized frame at a   *)
(* time, with a rollback whose own errors are ignored.  Around it: process *)
(* exit and power loss at any step.                                        *)
(***************************************************************************)
EXTENDS FrameFile

CONSTANT MaxFrames    \* bound: frames ever offered to the store

ASSUME FileCommitAssumption == MaxFrames \in Nat

VARIABLES
    header,      \* parts of the file header written: magic, version, flags
    diskHeader,  \* those a power failure would leave
    file,        \* the records as processes see them
    disk,        \* the records a power failure would leave
    pc,          \* where the running call is
    frames,      \* the store's cached frames
    frame,       \* the frame being appended
    start,       \* records in the file when the append began
    minted,      \* frames offered so far; names the next world
    committed,   \* history: frames whose append returned Ok
    failed,      \* history: frames whose append returned Err
    lame         \* history: a step of some rollback failed

vars == <<header, diskHeader, file, disk, pc, frames, frame, start, minted,
          committed, failed, lame>>

HeaderParts == 3

NoFrame == [parent |-> 0, world |-> 0]

Init ==
    /\ header = 0 /\ diskHeader = 0
    /\ file = <<>> /\ disk = <<>>
    /\ pc = "down"
    /\ frames = <<>> /\ frame = NoFrame /\ start = 0 /\ minted = 0
    /\ committed = <<>> /\ failed = {} /\ lame = FALSE

-----------------------------------------------------------------------------
(* open.  A file whose header is incomplete, or whose records are corrupt, is *)
(* refused: no action is enabled.                                             *)

OpenEmpty ==
    /\ pc = "down" /\ header = 0
    /\ pc' = "header"
    /\ UNCHANGED <<header, diskHeader, file, disk, frames, frame, start, minted,
                   committed, failed, lame>>

\* write_file_header: three write_all calls.
WriteHeader ==
    /\ pc = "header" /\ header < HeaderParts
    /\ header' = header + 1
    /\ UNCHANGED <<diskHeader, file, disk, pc, frames, frame, start, minted,
                   committed, failed, lame>>

SyncHeader ==
    /\ pc = "header" /\ header = HeaderParts
    /\ diskHeader' = header /\ disk' = file
    /\ frames' = FramesOf(file)
    /\ pc' = "idle"
    /\ UNCHANGED <<header, file, frame, start, minted, committed, failed, lame>>

OpenClean ==
    /\ pc = "down" /\ header = HeaderParts
    /\ Sound(file) /\ ~TornTail(file)
    /\ frames' = FramesOf(file)
    /\ pc' = "idle"
    /\ UNCHANGED <<header, diskHeader, file, disk, frame, start, minted,
                   committed, failed, lame>>

OpenTruncate ==
    /\ pc = "down" /\ header = HeaderParts
    /\ Sound(file) /\ TornTail(file)
    /\ file' = GoodPrefix(file)
    /\ pc' = "opensync"
    /\ UNCHANGED <<header, diskHeader, disk, frames, frame, start, minted,
                   committed, failed, lame>>

OpenSync ==
    /\ pc = "opensync"
    /\ diskHeader' = header /\ disk' = file
    /\ frames' = FramesOf(file)
    /\ pc' = "idle"
    /\ UNCHANGED <<header, file, frame, start, minted, committed, failed, lame>>

\* An error of any write or sync above ends open.
OpenFails ==
    /\ pc \in {"header", "opensync"}
    /\ pc' = "down"
    /\ UNCHANGED <<header, diskHeader, file, disk, frames, frame, start, minted,
                   committed, failed, lame>>

-----------------------------------------------------------------------------
(* append.                                                                   *)

\* validate_append.
ValidAppend(base) == base = TailWorld(frames)

BeginAppend(base) ==
    /\ pc = "idle" /\ ValidAppend(base)
    /\ minted < MaxFrames
    /\ frame' = [parent |-> base, world |-> minted + 1]
    /\ minted' = minted + 1
    /\ start' = Len(file)
    /\ pc' = "write"
    /\ UNCHANGED <<header, diskHeader, file, disk, frames, committed, failed, lame>>

\* write_all has written part of the record ...
WritePart ==
    /\ pc = "write" /\ Len(file) = start
    /\ file' = Append(file, [frame |-> frame, whole |-> FALSE])
    /\ UNCHANGED <<header, diskHeader, disk, pc, frames, frame, start, minted,
                   committed, failed, lame>>

\* ... or all of it.
WriteDone ==
    /\ pc = "write"
    /\ file' = SubSeq(file, 1, start) \o <<Whole(frame)>>
    /\ pc' = "sync"
    /\ UNCHANGED <<header, diskHeader, disk, frames, frame, start, minted,
                   committed, failed, lame>>

AppendFails ==
    /\ pc \in {"write", "sync"}
    /\ pc' = "rollback"
    /\ UNCHANGED <<header, diskHeader, file, disk, frames, frame, start, minted,
                   committed, failed, lame>>

\* Fault: success is returned without sync_data.
SyncSkipped ==
    /\ pc = "sync"
    /\ frames' = Append(frames, frame)
    /\ committed' = Append(frames, frame)
    /\ pc' = "idle"
    /\ UNCHANGED <<header, diskHeader, file, disk, frame, start, minted, failed, lame>>

Sync ==
    /\ pc = "sync"
    /\ diskHeader' = header /\ disk' = file
    /\ frames' = Append(frames, frame)
    /\ committed' = Append(frames, frame)
    /\ pc' = "idle"
    /\ UNCHANGED <<header, file, frame, start, minted, failed, lame>>

\* rollback_failed_append: set_len and sync_data, each of which may fail
\* unnoticed.
RollbackTruncate ==
    /\ pc = "rollback"
    /\ \/ file' = SubSeq(file, 1, start) /\ UNCHANGED lame
       \/ lame' = TRUE /\ UNCHANGED file
    /\ pc' = "rollbacksync"
    /\ UNCHANGED <<header, diskHeader, disk, frames, frame, start, minted,
                   committed, failed>>

RollbackSync ==
    /\ pc = "rollbacksync"
    /\ \/ disk' = file /\ diskHeader' = header /\ UNCHANGED lame
       \/ lame' = TRUE /\ UNCHANGED <<disk, diskHeader>>
    /\ failed' = failed \cup {frame}
    /\ pc' = "idle"
    /\ UNCHANGED <<header, file, frames, frame, start, minted, committed>>

-----------------------------------------------------------------------------
(* The environment.                                                          *)

Writeback ==
    /\ diskHeader' \in diskHeader..header
    /\ \/ diskHeader' = header /\ disk' \in Writebacks(disk, file)
       \/ UNCHANGED disk
    /\ UNCHANGED <<header, file, pc, frames, frame, start, minted, committed,
                   failed, lame>>

Gone ==
    /\ pc' = "down" /\ frames' = <<>> /\ frame' = NoFrame /\ start' = 0
    /\ UNCHANGED <<minted, committed, failed, lame>>

ProcessExit ==
    /\ pc # "down"
    /\ Gone
    /\ UNCHANGED <<header, diskHeader, file, disk>>

PowerLoss ==
    /\ Gone
    /\ header' = diskHeader /\ file' = disk
    /\ UNCHANGED <<diskHeader, disk>>

-----------------------------------------------------------------------------

OpenStep == OpenEmpty \/ WriteHeader \/ SyncHeader \/ OpenClean \/ OpenTruncate
                \/ OpenSync

AppendFrame ==
    \/ \E base \in 0..MaxFrames : BeginAppend(base)
    \/ WritePart \/ WriteDone \/ AppendFails \/ Sync

Rollback == RollbackTruncate \/ RollbackSync

\* What a process that uses this store, and the system under it, may do.
ProcessStep == OpenStep \/ OpenFails \/ AppendFrame \/ Rollback \/ Writeback \/ ProcessExit

Next == ProcessStep \/ PowerLoss

Spec == Init /\ [][Next]_vars

-----------------------------------------------------------------------------
(* Properties.                                                               *)

\* An append's answer is definite as long as every rollback really happened:
\* acknowledged frames are on file and on disk behind a complete header, a frame
\* whose append returned Err is on neither, and no crash point leaves records
\* that decode_file refuses.
AppendsAreDefinite ==
    ~lame =>
        /\ committed # <<>> => header = HeaderParts /\ diskHeader = HeaderParts
        /\ \A f \in {file, disk} :
             /\ Sound(f)
             /\ IsPrefixOf(committed, FramesOf(f))
             /\ \A i \in DOMAIN f : f[i].frame \notin failed
=============================================================================
