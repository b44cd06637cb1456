--------------------------- MODULE MCAuditJournal ---------------------------
(* Small instances of AuditJournal. *)
EXTENDS AuditJournal

CONSTANTS p1, p2, t1, t2, t3

TwoProcesses == {p1, p2}
ThreeThreads == {t1, t2, t3}
TwoOfThreeInP1 == [t \in Threads |-> IF t = t3 THEN p2 ELSE p1]
=============================================================================
