---------------------------- MODULE EpochPlanner ----------------------------
(***************************************************************************)
(* Queued intents and the two epoch planners of queued.rs: derive_epoch,   *)
(* which gives every accepted intent a frame and a world of its own, and   *)
(* derive_epoch_world, which collapses the accepted operations into one.   *)
(*                                                                         *)
(* A temporary entity handle carries the namespace of the intent that made *)
(* it and an index.                                                        *)
(***************************************************************************)
EXTENDS Worlds

CONSTANTS
    Rejects(_, _)    \* Rejects(v, candidate): validator v returns Err

Accepts(validators, candidate) == \A v \in validators : ~Rejects(v, candidate)

\* Fault: expect_world is not compared with the assigned predecessor.
PreconditionsIgnoreWorld(w, pres) ==
    \A p \in Range(pres) : p.kind = "Slot" => Resolve(w.stacks, p.slot) = p.expected

\* check_preconditions against the predecessor an intent is assigned.
Preconditions(w, pres) ==
    \A p \in Range(pres) : CASE p.kind = "World" -> p.world = w.id
                             [] p.kind = "Slot" -> Resolve(w.stacks, p.slot) = p.expected

-----------------------------------------------------------------------------
(* resolve_operations_from.                                                  *)

\* resolve_atom fails on a foreign handle and on one not allocated so far.
Resolvable(atom, acc) ==
    "temporary" \in DOMAIN atom =>
        atom.namespace = acc.namespace /\ atom.temporary \in DOMAIN acc.bound

ResolveAtom(atom, acc) ==
    IF "temporary" \in DOMAIN atom THEN [entity |-> acc.bound[atom.temporary]] ELSE atom

ResolveFact(fact, acc) ==
    [fact EXCEPT !.subject = ResolveAtom(@, acc), !.object = ResolveAtom(@, acc)]

\* acc: whether everything resolved so far, the intent's namespace, the next
\* identifier, the entity of each temporary, and the resolved operations.
ResolveOperation(acc, op) ==
    CASE op.kind = "Allocate" ->
             [acc EXCEPT !.ok = @ /\ op.namespace = acc.namespace,
                         !.next = @ + 1,
                         !.bound = [t \in DOMAIN @ \cup {op.temporary} |->
                                       IF t = op.temporary THEN acc.next ELSE @[t]],
                         !.operations = Append(@, [kind |-> "Allocate", entity |-> acc.next])]
      [] op.kind = "Define" ->
             IF Resolvable(op.fact.subject, acc) /\ Resolvable(op.fact.object, acc)
             THEN [acc EXCEPT !.operations = Append(@, [kind |-> "Define", slot |-> op.slot,
                                            fact |-> ResolveFact(op.fact, acc)])]
             ELSE [acc EXCEPT !.ok = FALSE]
      [] op.kind = "Forget" ->
             [acc EXCEPT !.operations = Append(@, [kind |-> "Forget", slot |-> op.slot])]

ResolveOperations(next, intent) ==
    FoldLeft(ResolveOperation,
             [ok |-> TRUE, namespace |-> intent.namespace, next |-> next, bound |-> <<>>,
              operations |-> <<>>],
             intent.operations)

-----------------------------------------------------------------------------

\* derive_intent succeeds, r being the resolved operations: preconditions,
\* handles, construction, validators.
IntentAccepted(w, intent, r, validators) ==
    /\ Preconditions(w, intent.preconditions)
    /\ r.ok
    /\ Applied(w, r.operations).ok
    /\ Accepts(validators, Candidate(w, r.operations))

Rejected == [accepted |-> FALSE]

\* derive_epoch: each accepted intent moves the predecessor; a rejected one
\* leaves it, its version and its allocator alone.
Derived(plan, r, child) ==
    [tail |-> child,
     frames |-> Append(plan.frames, FrameTo(plan.tail, r.operations, child)),
     outcomes |-> Append(plan.outcomes, [accepted |-> TRUE, world |-> child.id,
                                         entities |-> r.bound])]

DeriveNext(plan, intent, validators) ==
    LET r == ResolveOperations(plan.tail.next, intent)
    IN  IF IntentAccepted(plan.tail, intent, r, validators)
        THEN Derived(plan, r, Candidate(plan.tail, r.operations))
        ELSE [plan EXCEPT !.outcomes = Append(@, Rejected)]

DeriveEpoch(base, intents, validators) ==
    FoldLeft(LAMBDA plan, intent : DeriveNext(plan, intent, validators),
             [tail |-> base, frames |-> <<>>, outcomes |-> <<>>], intents)

\* Fault: a rejected intent keeps the identifiers it allocated.
WorkspaceNextLeaks(space, intent, validators) ==
    LET w == space.tail
        r == ResolveOperations(w.next, intent)
    IN  IF IntentAccepted(w, intent, r, validators)
        THEN [tail |-> Candidate(w, r.operations),
              operations |-> space.operations \o r.operations,
              outcomes |-> Append(space.outcomes, [accepted |-> TRUE, entities |-> r.bound])]
        ELSE [space EXCEPT !.outcomes = Append(@, Rejected), !.tail.next = r.next]

\* The private workspace of derive_epoch_world: a synthetic predecessor, the
\* operations accepted so far and the verdicts.
WorkspaceNext(space, intent, validators) ==
    LET w == space.tail
        r == ResolveOperations(w.next, intent)
    IN  IF IntentAccepted(w, intent, r, validators)
        THEN [tail |-> Candidate(w, r.operations),
              operations |-> space.operations \o r.operations,
              outcomes |-> Append(space.outcomes, [accepted |-> TRUE, entities |-> r.bound])]
        ELSE [space EXCEPT !.outcomes = Append(@, Rejected)]

\* One frame and one world for the whole workspace, or nothing.
EpochWorld(base, space) ==
    LET id == WorldId(base.id, Version(base.id) + 1, space.tail.next, space.operations)
        frame == [parent_world |-> base.id, parent_version |-> Version(base.id),
                  resulting_world |-> id, resulting_version |-> Version(base.id) + 1,
                  resulting_allocator |-> space.tail.next,
                  operations |-> space.operations]
    IN  IF \A i \in DOMAIN space.outcomes : ~space.outcomes[i].accepted
        THEN [tail |-> base, frames |-> <<>>, outcomes |-> space.outcomes]
        ELSE [tail |-> [space.tail EXCEPT !.id = id],
              frames |-> <<frame>>,
              outcomes |-> [i \in DOMAIN space.outcomes |->
                               IF space.outcomes[i].accepted
                               THEN [accepted |-> TRUE, world |-> id,
                                     entities |-> space.outcomes[i].entities]
                               ELSE Rejected]]

DeriveEpochWorld(base, intents, validators) ==
    EpochWorld(base, FoldLeft(LAMBDA acc, intent : WorkspaceNext(acc, intent, validators),
                              [tail |-> base, operations |-> <<>>, outcomes |-> <<>>],
                              intents))
=============================================================================
