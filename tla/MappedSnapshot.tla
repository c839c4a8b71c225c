---------------------------- MODULE MappedSnapshot ----------------------------
(***************************************************************************)
(* Query projections of a world without a kernel (VmQueryProjection, world *)
(* lib.rs) and the mapped image written from one (mmap_vm_snapshot.rs):    *)
(* string tables, physical records, heads, the active list and the three   *)
(* sorted indexes, and the machine opened from it.                         *)
(***************************************************************************)
EXTENDS MixedEpochs, Query

-----------------------------------------------------------------------------
(* VmQueryProjection::from_frames.                                           *)

ProjectOperation(p, op) ==
    CASE op.kind = "Allocate" -> p
      [] op.kind = "Define" ->
             [p EXCEPT !.definitions[op.slot] =
                         Append(@, [id |-> p.next, slot |-> op.slot, fact |-> op.fact]),
                       !.next = @ + 1]
      [] op.kind = "Forget" ->
             [p EXCEPT !.definitions[op.slot] = IF @ = <<>> THEN @ ELSE Front(@),
                       !.next = @ + 1]

\* Every frame's operations, in order.
Operations(frames) == FoldLeft(LAMBDA ops, f : ops \o f.operations, <<>>, frames)

Projection(frames) ==
    FoldLeft(ProjectOperation, [definitions |-> [s \in Slots |-> <<>>], next |-> 0],
             Operations(frames))

\* The active facts, by record identifier.
ActiveFacts(projection) ==
    SetToSortSeq({Last(projection.definitions[s]) :
                     s \in {t \in Slots : projection.definitions[t] # <<>>}},
                 LAMBDA d, e : d.id < e.id)

\* What VmQueryProjection::query reads.
ProjectionSource(frames) == [active |-> ActiveFacts(Projection(frames)), image |-> NoImage]

\* VmQueryProjection::definitions, newest first.
ProjectionDefinitions(frames, slot) ==
    LET stack == Projection(frames).definitions[slot]
    IN  [i \in DOMAIN stack |-> stack[Len(stack) + 1 - i].fact]

-----------------------------------------------------------------------------
(* MmapVmSnapshot::create.                                                   *)

\* Every literal of every definition, shadowed ones too.
SnapshotLiterals(definitions) ==
    {a.literal : a \in {b \in UNION {UNION {{e.fact.subject, e.fact.object}
                                              : e \in Range(definitions[s])} : s \in Slots} :
                          "literal" \in DOMAIN b}}

SnapshotPredicates(definitions) ==
    UNION {{e.fact.predicate : e \in Range(definitions[s])} : s \in Slots}

\* The definitions of the slots in name order, each slot's oldest first.
SnapshotEntries(definitions) ==
    FoldLeft(LAMBDA out, s : out \o definitions[s], <<>>, Sorted(Slots))

\* The string tables; a token is a position in one.
SnapshotTables(definitions) ==
    [slots |-> Sorted({s \in Slots : definitions[s] # <<>>}),
     predicates |-> Sorted(SnapshotPredicates(definitions)),
     literals |-> Sorted(SnapshotLiterals(definitions))]

SnapshotAtom(literals, atom) ==
    IF "entity" \in DOMAIN atom THEN atom.entity
    ELSE LiteralBase + TableToken(literals, atom.literal)

\* The records with their tokens; a record's predecessor is the definition below
\* it.
SnapshotRecords(tables, entries) ==
    [i \in DOMAIN entries |->
        [id |-> entries[i].id, slot |-> TableToken(tables.slots, entries[i].slot),
         previous |-> IF i > 1 /\ entries[i - 1].slot = entries[i].slot THEN i - 1 ELSE NoRecord,
         subject |-> SnapshotAtom(tables.literals, entries[i].fact.subject),
         predicate |-> TableToken(tables.predicates, entries[i].fact.predicate),
         object |-> SnapshotAtom(tables.literals, entries[i].fact.object)]]

\* The newest record of every slot.
SnapshotHeads(slots, records) ==
    [t \in 0..(Len(slots) - 1) |->
        CHOOSE i \in DOMAIN records : /\ records[i].slot = t
                                      /\ \A j \in DOMAIN records : records[j].slot = t => j <= i]

SnapshotImage(tables, records) ==
    [slots |-> tables.slots, predicates |-> tables.predicates, literals |-> tables.literals,
     records |-> records, heads |-> SnapshotHeads(tables.slots, records)]

EncodeSnapshot(tables, entries) == SnapshotImage(tables, SnapshotRecords(tables, entries))

CreateFrom(definitions) == EncodeSnapshot(SnapshotTables(definitions), SnapshotEntries(definitions))

CreateImage(frames) == CreateFrom(Projection(frames).definitions)

\* The active records, by original identifier.
ImageActive(image) ==
    SetToSortSeq({image.heads[t] : t \in DOMAIN image.heads},
                 LAMBDA i, j : image.records[i].id < image.records[j].id)

ImageAtom(image, cell) ==
    IF cell < LiteralBase THEN [entity |-> cell]
    ELSE [literal |-> image.literals[cell - LiteralBase + 1]]

\* fact: a record back in terms of names.
ImageFact(image, i) ==
    LET r == image.records[i]
    IN  [id |-> r.id, slot |-> image.slots[r.slot + 1],
         fact |-> Fact(ImageAtom(image, r.subject), image.predicates[r.predicate + 1],
                       ImageAtom(image, r.object))]

\* One sorted index: by key, then by original identifier.
ImageIndex(image, order) ==
    SetToSortSeq({[key |-> Permuted(order, image.records[i]), record |-> i,
                   entry |-> ImageFact(image, i)] : i \in Range(ImageActive(image))},
                 LAMBDA d, e : \/ KeyLess(d.key, e.key)
                               \/ d.key = e.key /\ d.entry.id < e.entry.id)

\* validate_records_and_indexes, which open runs before the image is used.
ValidateImage(image) ==
    /\ \A i \in DOMAIN image.records :
        LET r == image.records[i]
        IN  /\ r.slot < Len(image.slots) /\ r.predicate < Len(image.predicates)
            /\ r.previous < i
            /\ \A cell \in {r.subject, r.object} :
                cell >= LiteralBase => cell - LiteralBase < Len(image.literals)
    /\ \A t \in DOMAIN image.heads : image.heads[t] \in DOMAIN image.records \cup {NoRecord}

-----------------------------------------------------------------------------
(* Reading and opening an image.                                             *)

\* The cells queries look values up by: candidate_spec's tokens.
ImageCells(image, entities) ==
    LET known == {[entity |-> n] : n \in entities} \cup {[literal |-> l] : l \in Range(image.literals)}
                   \cup {[predicate |-> p] : p \in Range(image.predicates)}
    IN  [v \in known |->
            CASE "entity" \in DOMAIN v -> v.entity
              [] "literal" \in DOMAIN v -> LiteralBase + TableToken(image.literals, v.literal)
              [] "predicate" \in DOMAIN v -> TableToken(image.predicates, v.predicate)]

\* What MmapVmSnapshot::query reads.
MappedSource(image, next) ==
    [active |-> <<>>,
     image |-> [active |-> [i \in DOMAIN ImageActive(image) |->
                               ImageFact(image, ImageActive(image)[i])],
                index |-> [order \in Orders |-> ImageIndex(image, order)],
                cells |-> ImageCells(image, 0..next)]]

\* MmapVmSnapshot::definitions: the chain of predecessors from the head.
MappedDefinitions(image, slot) ==
    LET chain[i \in 0..Len(image.records)] ==
            IF i = NoRecord THEN <<>>
            ELSE <<ImageFact(image, i).fact>> \o chain[image.records[i].previous]
    IN  IF slot \in Range(image.slots) THEN chain[image.heads[TableToken(image.slots, slot)]]
        ELSE <<>>

\* workspace_image and from_physical_snapshot: the records as definitions, no
\* deltas, the heads of the image.
PhysicalWorkspace(image, next) ==
    LET records == [i \in DOMAIN image.records |->
                       [kind |-> "define", slot |-> image.records[i].slot,
                        subject |-> image.records[i].subject,
                        predicate |-> image.records[i].predicate,
                        object |-> image.records[i].object,
                        previous |-> image.records[i].previous, visible |-> i]]
    IN  [NewWorkspace(0, next) EXCEPT !.records = [data |-> records, frontier |-> Len(records)],
                                      !.heads = image.heads, !.hash = records]

\* VmEpochMaterializer::from_mmap.
MaterializerFromMmap(image, next) ==
    [NewMaterializer(next) EXCEPT
        !.ws = PhysicalWorkspace(image, next),
        !.image = [slots |-> image.slots, predicates |-> image.predicates,
                   literals |-> image.literals]]
=============================================================================
