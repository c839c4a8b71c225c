------------------------------- MODULE Worlds -------------------------------
(***************************************************************************)
(* Immutable worlds and the commit frames between them (forthdb-world,     *)
(* lib.rs): candidate construction, frames and reconstruction.             *)
(*                                                                         *)
(* A world carries its identity, its entity allocator and, per slot, the   *)
(* stack the kernel keeps (see SlotStacks and Kernel).  World identities   *)
(* are hashes; they are taken to be collision-free, so an identity is the  *)
(* list of what was hashed into it, one entry per ancestor.                *)
(***************************************************************************)
EXTENDS Integers, Sequences, SequencesExt

CONSTANTS Slots, Predicates, Literals

Fact(subject, predicate, object) ==
    [subject |-> subject, predicate |-> predicate, object |-> object]

Absent == [absent |-> TRUE]

Genesis == [id |-> <<>>, next |-> 1, stacks |-> [s \in Slots |-> <<>>]]

Version(id) == Len(id)

\* ForthDb::resolve: the active definition of a slot.
Resolve(stacks, s) == IF stacks[s] = <<>> THEN Absent ELSE Last(stacks[s])

WorldId(parent, version, allocator, operations) ==
    Append(parent, <<version, allocator, operations>>)

-----------------------------------------------------------------------------

\* What operations are applied to: ok turns FALSE at the first error.
Workspace(w) == [ok |-> TRUE, next |-> w.next, stacks |-> w.stacks]

ApplyOperation(ws, op) ==
    IF ~ws.ok THEN ws ELSE
    CASE op.kind = "Allocate" ->
             IF op.entity = ws.next THEN [ws EXCEPT !.next = @ + 1]
                                    ELSE [ws EXCEPT !.ok = FALSE]
      [] op.kind = "Define" -> [ws EXCEPT !.stacks[op.slot] = Append(@, op.fact)]
      [] op.kind = "Forget" ->
             [ws EXCEPT !.stacks[op.slot] = IF @ = <<>> THEN @ ELSE Front(@)]

Applied(w, operations) == FoldLeft(ApplyOperation, Workspace(w), operations)

\* The child of w that a workspace has become.
Child(w, operations, ws) ==
    [id |-> WorldId(w.id, Version(w.id) + 1, ws.next, operations),
     next |-> ws.next, stacks |-> ws.stacks]

\* CandidateWorld::construct, for operations that apply without error.
Candidate(w, operations) == Child(w, operations, Applied(w, operations))

\* The frame from a world to its child.
FrameTo(w, operations, child) ==
    [parent_world |-> w.id, parent_version |-> Version(w.id),
     resulting_world |-> child.id, resulting_version |-> Version(child.id),
     resulting_allocator |-> child.next, operations |-> operations]

CommitFrame(w, operations) == FrameTo(w, operations, Candidate(w, operations))

-----------------------------------------------------------------------------

\* One frame of World::reconstruct; a failed check fails the reconstruction.
Replay(acc, frame) ==
    LET w == acc.world
        ws == Applied(w, frame.operations)
    IN  [ok |-> /\ acc.ok
                /\ frame.parent_world = w.id
                /\ frame.parent_version = Version(w.id)
                /\ ws.ok
                /\ frame.resulting_allocator = ws.next
                /\ frame.resulting_world =
                     WorldId(frame.parent_world, frame.resulting_version,
                             frame.resulting_allocator, frame.operations),
         world |-> [id |-> frame.resulting_world, next |-> ws.next,
                    stacks |-> ws.stacks]]

Reconstruct(frames) == FoldLeft(Replay, [ok |-> TRUE, world |-> Genesis], frames)
=============================================================================
