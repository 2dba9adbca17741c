------------------------------ MODULE MCTaskUnit ------------------------------
(* Two tasks posted by other threads, one of them to be scheduled, and two    *)
(* subtasks of the first.                                                     *)
EXTENDS TaskUnit

CONSTANTS r1, r2, c1, c2

MCParent ==
  [t \in Task |-> IF t \in {c1, c2} THEN r1 ELSE NoTask]
=============================================================================
