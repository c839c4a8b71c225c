----------------------------- MODULE SlotStacks -----------------------------
(***************************************************************************)
(* What the semantic kernel promises: every slot is a stack of facts.      *)
(* Defining a slot pushes, forgetting it pops (forgetting an empty slot    *)
(* changes nothing a reader can resolve), and entities come from a counter *)
(* that only grows.  Records, heads and indexes do not appear here.        *)
(***************************************************************************)
EXTENDS Naturals, Sequences

CONSTANTS Slots, Facts

VARIABLES
    stack,      \* stack[s]: the live definitions of slot s, newest last
    allocated   \* number of entity identifiers handed out

vars == <<stack, allocated>>

Init ==
    /\ stack = [s \in Slots |-> <<>>]
    /\ allocated = 0

Push(s, f) ==
    /\ stack' = [stack EXCEPT ![s] = Append(@, f)]
    /\ UNCHANGED allocated

Pop(s) ==
    /\ stack[s] # <<>>
    /\ stack' = [stack EXCEPT ![s] = SubSeq(@, 1, Len(@) - 1)]
    /\ UNCHANGED allocated

Allocate ==
    /\ allocated' = allocated + 1
    /\ UNCHANGED stack

Next ==
    \/ \E s \in Slots, f \in Facts : Push(s, f)
    \/ \E s \in Slots : Pop(s)
    \/ Allocate

Spec == Init /\ [][Next]_vars
=============================================================================
