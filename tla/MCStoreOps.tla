------------------------------ MODULE MCStoreOps ------------------------------
(* One triple of the user's, a clash by itself, one that an inference in another *)
(* graph adds, and one that whatIf adds.                                         *)
EXTENDS StoreOps

CONSTANTS t1, d, a, S1, S2, G

MCTriple == {t1, d, a}
MCDerived == d
MCAssumed == a
MCEdits == {{}, {t1}}
MCTrivial == {}
MCInconsistent == {c \in SUBSET MCTriple : t1 \in c}

\* Two stores edited while nothing fails; one store, two graphs and every fault.
Edited == [stores |-> {S1, S2}, graphs |-> {Inferred}, hierarchy |-> {FALSE}, faults |-> {},
           maxEdits |-> 2, maxOps |-> 3]
Faulty == [stores |-> {S1}, graphs |-> {Inferred, G}, hierarchy |-> BOOLEAN,
           faults |-> {"throw", "false", "recover"}, maxEdits |-> 1, maxOps |-> 3]
MCScenarios == {Edited, Faulty}

\* One store, one graph, and calls that are recovered in a fresh Worker.
MCRecovering ==
  {[stores |-> {S1}, graphs |-> {Inferred}, hierarchy |-> {FALSE}, faults |-> {"recover"},
    maxEdits |-> 2, maxOps |-> 3]}
=============================================================================
