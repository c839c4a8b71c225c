------------------------------ MODULE MmapStore -------------------------------
(***************************************************************************)
(* MmapCommitStore of mmap_store.rs: a read mapping of the commit file and *)
(* the positions of its records, kept beside a FileCommitStore that is     *)
(* opened at the first append and does the writing.  A process uses the    *)
(* file either through FileCommitStore alone or through the mapped store.  *)
(*                                                                         *)
(* The mapping is shared with the file: it is its length, in records, and  *)
(* reading past the end of a shortened file would end the process.         *)
(***************************************************************************)
EXTENDS FileCommitStore, Integers

VARIABLES
    call,        \* the mapped store: closed, opening, idle, or inside a call
    mapped,      \* records under the mapping, or Unmapped
    spans,       \* spans[i]: position of the i-th mapped record
    cached,      \* the mapped store's frames
    wanted,      \* the parent of the frame being appended
    recordStart, \* records in the file when append began
    gaps         \* history: a remap failed since the mapping was built

mmapVars == <<call, mapped, spans, cached, wanted, recordStart, gaps>>

Unmapped == -1

MmapInit ==
    /\ Init
    /\ call = "closed" /\ mapped = Unmapped /\ spans = <<>> /\ cached = <<>>
    /\ wanted = Genesis /\ recordStart = 0 /\ gaps = FALSE

-----------------------------------------------------------------------------
(* open: header, mapping, decoding, truncation and sync are the steps        *)
(* FileCommitStore::open takes; the writer is not kept.                      *)

MmapOpen ==
    /\ call = "closed" /\ pc = "down"
    /\ call' = "opening"
    /\ UNCHANGED <<vars, mapped, spans, cached, wanted, recordStart, gaps>>

\* The mapping and everything decode_file found in it; the writer is None.
Adopt ==
    /\ mapped' = Len(file)
    /\ spans' = [i \in DOMAIN file |-> i]
    /\ cached' = FramesOf(file)
    /\ gaps' = FALSE
    /\ pc' = "down" /\ frames' = <<>>
    /\ UNCHANGED <<header, diskHeader, file, disk, frame, start, minted, committed,
                   failed, lame, wanted, recordStart>>

MmapOpened ==
    /\ call = "opening" /\ pc = "idle"
    /\ call' = "idle"
    /\ Adopt

\* An error of open, or of the second map_file; nothing is kept.
MmapOpenFails ==
    /\ call = "opening" /\ pc \in {"header", "opensync", "idle"}
    /\ call' = "closed" /\ pc' = "down" /\ frames' = <<>>
    /\ UNCHANGED <<header, diskHeader, file, disk, frame, start, minted, committed,
                   failed, lame, mapped, spans, cached, wanted, recordStart, gaps>>

-----------------------------------------------------------------------------
(* append.                                                                   *)

\* validate_append and the record's expected position.
MmapAppend(base) ==
    /\ call = "idle" /\ base = TailWorld(cached) /\ minted < MaxFrames
    /\ call' = "append"
    /\ wanted' = base
    /\ recordStart' = Len(file)
    /\ UNCHANGED <<vars, mapped, spans, cached, gaps>>

\* The writer, once open, is handed the frame.
WriterAppends ==
    /\ call = "append" /\ pc = "idle"
    /\ BeginAppend(wanted)
    /\ call' = "writing"
    /\ UNCHANGED <<mapped, spans, cached, wanted, recordStart, gaps>>

\* The writer cannot open or read the file.  (It finds nothing to repair and the
\* frames this store has: both were read from the file it opens.)
WriterRefuses ==
    /\ call = "append" /\ pc = "down"
    /\ call' = "idle"
    /\ UNCHANGED <<vars, mapped, spans, cached, wanted, recordStart, gaps>>

WriterFails ==
    /\ call = "writing"
    /\ RollbackSync
    /\ call' = "idle"
    /\ UNCHANGED <<mapped, spans, cached, wanted, recordStart, gaps>>

\* The frame is durable; the old mapping is taken.
WriterSucceeds ==
    /\ call = "writing"
    /\ Sync
    /\ cached' = Append(cached, frame)
    /\ call' = "remap"
    /\ mapped' = Unmapped
    /\ UNCHANGED <<spans, wanted, recordStart, gaps>>

\* remap_after_durable_append: decode_complete_span finds the record at the
\* position noted before the append, or the store stays unmapped.
Remap ==
    /\ call = "remap"
    /\ call' = "idle"
    /\ \/ /\ Len(file) = recordStart + 1 /\ file[Len(file)].whole
          /\ spans' = Append(spans, recordStart + 1)
          /\ mapped' = Len(file)
          /\ UNCHANGED gaps
       \/ gaps' = TRUE /\ UNCHANGED <<mapped, spans>>
    /\ UNCHANGED <<vars, cached, wanted, recordStart>>

-----------------------------------------------------------------------------

\* Fault: the frames are taken and the spans of the old mapping kept.
RefreshKeepsSpans ==
    /\ call = "idle" /\ header = HeaderParts /\ Sound(file) /\ ~TornTail(file)
    /\ mapped' = Len(file) /\ cached' = FramesOf(file) /\ gaps' = FALSE
    /\ pc' = "down" /\ frames' = <<>>
    /\ UNCHANGED <<header, diskHeader, file, disk, frame, start, minted, committed,
                   failed, lame, call, spans, wanted, recordStart>>

\* refresh_mapping: everything is read again and the writer is dropped ...
Refresh ==
    /\ call = "idle" /\ header = HeaderParts /\ Sound(file) /\ ~TornTail(file)
    /\ UNCHANGED call
    /\ Adopt

\* ... or the mapping is lost and the rest stays.
RefreshFails ==
    /\ call = "idle"
    /\ mapped' = Unmapped
    /\ UNCHANGED <<vars, call, spans, cached, wanted, recordStart, gaps>>

-----------------------------------------------------------------------------

Released ==
    /\ call' = "closed" /\ mapped' = Unmapped /\ spans' = <<>> /\ cached' = <<>>
    /\ wanted' = Genesis /\ recordStart' = 0 /\ gaps' = FALSE

MmapExit ==
    \/ /\ call # "closed"
       /\ Gone
       /\ UNCHANGED <<header, diskHeader, file, disk>>
       /\ Released
    \/ PowerLoss /\ Released

\* The steps of the FileCommitStore that do not end a call of the mapped store.
StoreStep ==
    /\ \/ call = "closed" /\ ProcessStep
       \/ call \in {"opening", "append"} /\ OpenStep
       \/ call = "writing" /\ (WritePart \/ WriteDone \/ AppendFails \/ RollbackTruncate)
       \/ call # "closed" /\ Writeback
    /\ UNCHANGED mmapVars

MmapNext ==
    \/ StoreStep
    \/ MmapOpen \/ MmapOpened \/ MmapOpenFails
    \/ \E base \in 0..MaxFrames : MmapAppend(base)
    \/ WriterAppends \/ WriterRefuses \/ WriterFails \/ WriterSucceeds \/ Remap
    \/ Refresh \/ RefreshFails \/ MmapExit

MmapSpec == MmapInit /\ [][MmapNext]_<<vars, mmapVars>>

-----------------------------------------------------------------------------
(* Properties.                                                               *)

\* The comment of map_file (mmap_store.rs:242) is true: no step, and no rollback
\* or reopened writer, shortens the file below a live mapping.  And what is read
\* through the mapping is the history: every span is a whole record, in order,
\* of a frame the store reports, and while no remap has failed the i-th mapped
\* record is the i-th frame.
MappedViewIsHistory ==
    (mapped # Unmapped) =>
        /\ mapped <= Len(file)
        /\ \A i \in DOMAIN spans :
             /\ spans[i] <= mapped
             /\ file[spans[i]].whole
             /\ \E j \in DOMAIN cached : j >= i /\ cached[j] = file[spans[i]].frame
        /\ ~gaps => [i \in DOMAIN spans |-> file[spans[i]].frame] = cached
=============================================================================
