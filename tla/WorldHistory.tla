---------------------------- MODULE WorldHistory ----------------------------
(***************************************************************************)
(* What a database promises (rust/crates/forthdb-world, lib.rs): one       *)
(* canonical history of worlds, each the successor of the one before it,   *)
(* that only grows; a reader head that moves along it, never back; and     *)
(* answers given together with the publication of the worlds they name.    *)
(* Slots, planners, transactions and locks do not appear here.             *)
(***************************************************************************)
EXTENDS Integers, Sequences, SequencesExt

VARIABLES
    history,    \* identifiers of the committed worlds, oldest first
    head,       \* how many of them readers see
    told        \* the successes reported to callers

historyVars == <<history, head, told>>

\* Every world of a history is the successor of the one before it.
Linear(h) == \A i \in 1..Len(h) : h[i] # <<>> /\ Front(h[i]) = IF i = 1 THEN <<>> ELSE h[i - 1]

HistoryInit == history = <<>> /\ head = 0 /\ told = {}

\* History is never rewritten.
Extend == IsPrefix(history, history') /\ Linear(history')

\* A commit is in the history before any reader or caller knows of it.
Record == Extend /\ UNCHANGED <<head, told>>

\* Readers move to the newest world; whoever is told of a success gets a world
\* they did not see before, the successor of the world it insisted on, and
\* entities nobody else was given.
Reveal ==
    /\ head' = Len(history) /\ head < head'
    /\ told \subseteq told'
    /\ \A a \in told' \ told :
        /\ a.world \in {history[i] : i \in (head + 1)..head'}
        /\ \A id \in a.insisted : Front(a.world) = id
        /\ \A b \in told' \ {a} : a.entities \cap b.entities = {}
    /\ UNCHANGED history

\* After a stop readers see all that was recorded, perhaps the first part of a
\* commit nobody was told of, and nothing that was not recorded.
Recover == Extend /\ head' = Len(history') /\ UNCHANGED told

HistoryNext == Record \/ Reveal \/ Recover

HistorySpec == HistoryInit /\ [][HistoryNext]_historyVars
=============================================================================
