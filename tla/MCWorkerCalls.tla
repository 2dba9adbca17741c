---------------------------- MODULE MCWorkerCalls ----------------------------
(* Operations on two stores: three concurrent ones with one fault, a crash of the  *)
(* first Worker and terminate(); two that are awaited, with two failing or stalled *)
(* calls in a row and Workers that are recycled.                                   *)
EXTENDS WorkerCalls, TLC

CONSTANTS A, B, C, D, s1, s2

MCKind  == (A :> "materialize") @@ (B :> "checkConsistency") @@ (C :> "classify") @@ (D :> "classify")
MCStore == (A :> s1) @@ (B :> s2) @@ (C :> s1) @@ (D :> s2)

Concurrent == [ops |-> {A, B, C}, workers |-> 3, crashable |-> {1}, maxFaults |-> 1,
               recycling |-> FALSE, patient |-> FALSE, terminable |-> TRUE]
Recycled   == [ops |-> {A, D}, workers |-> 4, crashable |-> {}, maxFaults |-> 2,
               recycling |-> TRUE, patient |-> TRUE, terminable |-> FALSE]
MCScenarios == {Concurrent, Recycled}
MCRecycling == {[Concurrent EXCEPT !.crashable = {}, !.maxFaults = 0, !.recycling = TRUE, !.terminable = FALSE]}
=============================================================================
