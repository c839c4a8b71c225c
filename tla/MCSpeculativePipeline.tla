------------------------- MODULE MCSpeculativePipeline -------------------------
(***************************************************************************)
(* TLC instance of SpeculativePipeline: an intent, one that panics when it *)
(* follows that, and one that needs another writer's transaction.          *)
(***************************************************************************)
EXTENDS SpeculativePipeline

CONSTANTS c1, c2, c3, w1

MCNeeds == [c \in {c1, c2, c3} |-> CASE c = c1 -> {} [] c = c2 -> {c1} [] c = c3 -> {w1}]

\* The places of the accepted intents are those the loop over the batch finds:
\* it goes through the intents in order and adds each one whose needs are met.
Folded(batch, base) ==
    FoldLeft(LAMBDA w, c : IF Needs[c] \subseteq Range(w) THEN Append(w, c) ELSE w, base, batch)

ASSUME DerivationIsFold ==
    \A batch, base \in UNION {[1..n -> Clients \cup Foreign] : n \in 0..2} :
        Range(batch) \subseteq Clients =>
            {epoch.tail : epoch \in DerivePrepared(batch, base)} = {Folded(batch, base)}
================================================================================
