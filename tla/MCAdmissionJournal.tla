------------------------ MODULE MCAdmissionJournal --------------------------
(* TLC instance of AdmissionJournal.  b is accepted only after a, c only    *)
(* without b: in the bulk epoch exactly one of the two is accepted.         *)
EXTENDS AdmissionJournal

CONSTANTS a, b, c, d

MCBulk == <<b, c>>

MCAccepts(i, facts) ==
    CASE i = b -> a \in facts
      [] i = c -> b \notin facts
      [] OTHER -> TRUE
=============================================================================
