------------------------------ MODULE KernelPair ------------------------------
(***************************************************************************)
(* The shared kernel and the flat kernel fed the same operations, as the   *)
(* differential tests do (tests/structural_parity.rs), and the full audits *)
(* of both.                                                                *)
(***************************************************************************)
EXTENDS Kernel

VARIABLES
    legacyLog, legacyHead, legacyHistory, legacyIndex, legacyNext

legacyVars == <<legacyLog, legacyHead, legacyHistory, legacyIndex, legacyNext>>

Legacy == INSTANCE LegacyKernel
            WITH log <- legacyLog, head <- legacyHead, slotHistory <- legacyHistory,
                 index <- legacyIndex, nextEntity <- legacyNext

PairInit == Init /\ Legacy!Init

PairNext ==
    \/ Entity /\ Legacy!Entity
    \/ \E s \in Slots, f \in Facts : Define(s, f) /\ Legacy!Define(s, f)
    \/ \E s \in Slots : Forget(s) /\ Legacy!Forget(s, NoFact)

PairSpec == PairInit /\ [][PairNext]_<<vars, legacyVars>>

\* The key of a pattern that fixes nothing.
NoColumns == [c \in {} |-> c]

-----------------------------------------------------------------------------
(* Audits.                                                                   *)

ActiveIds == {head[s] : s \in {t \in Slots : head[t] # 0}}

\* The signature a recount of identifiers up to n gives; addition makes the
\* order in which they are taken irrelevant.
Tally(ids, n) ==
    LET upTo[i \in 0..n] ==
            IF i = 0 THEN EmptySig
            ELSE IF i \in ids THEN SigAdd(upTo[i - 1], i) ELSE upTo[i - 1]
    IN  upTo[n]

Recount(ids) == Tally(ids, Len(log))

\* SharedDefinitionStore::validate_full
StoreAudit ==
    /\ \A id \in ActiveIds : log[id].kind = "Define"
    /\ Recount(ActiveIds) = storeSig

\* SharedCurrentView::validate_full, over the subject-and-predicate index.
ViewAudit ==
    LET indexed == UNION {bucket[k] : k \in {j \in Keys : DOMAIN j = {"subject", "predicate"}}}
    IN  indexed = ActiveIds /\ Recount(indexed) = viewSig

ValidateFull == StoreAudit /\ ViewAudit

\* The records history() returns, from the linked nodes of the slot.
History(s) == [i \in DOMAIN slotHistory[s] |-> log[slotHistory[s][i]]]

-----------------------------------------------------------------------------
(* Properties.                                                               *)

\* Whatever was defined, shadowed and forgotten, the shared kernel is the flat
\* one: the same log, histories, visible definitions and index buckets, though
\* one replaces an entry in place where the other takes the old head out before
\* the append and puts the new one in after it; and the full audits of both
\* accept (structural_parity.rs for every sequence of operations).
KernelsAgree ==
    /\ log = legacyLog
    /\ nextEntity = legacyNext
    /\ \A s \in Slots :
         /\ Definitions(s) = Legacy!Definitions(s)
         /\ History(s) = Legacy!History(s)
    /\ \A k \in Keys \cup {NoColumns} : Candidates(k) = Legacy!Candidates(k)
    /\ Legacy!Validate
    /\ ValidateFull
=============================================================================
