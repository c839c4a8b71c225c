------------------------- MODULE MCQueuedController -------------------------
(* TLC instance of QueuedController: two queued submitters and a semantic   *)
(* one, one of them gives up waiting; the three batch policies.             *)
EXTENDS QueuedController

CONSTANTS t1, t2, t3, f1

TicketsDef == {t1, t2, t3}
SemanticDef == {t3}
ImpatientDef == {t1}
FlushesDef == {f1}
PoliciesDef == { [kind |-> "immediate", min |-> 1, max |-> 2],
                 [kind |-> "coalesce", min |-> 1, max |-> 2],
                 [kind |-> "adaptive", min |-> 1, max |-> 3] }
=============================================================================
