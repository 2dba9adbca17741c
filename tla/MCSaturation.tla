----------------------------- MODULE MCSaturation -----------------------------
(* An ontology for the merging test: each equivalence is the universal whose negation one *)
(* part of the test has to refute at the nodes of its subsumees, concepts 2 and 30.       *)
EXTENDS Integers, Sequences, TLC

P(c) == [con |-> c, neg |-> FALSE]
N(c) == [con |-> c, neg |-> TRUE]
Con(op, role, of) == [op |-> op, role |-> role, of |-> of, card |-> 0]
Sub == Con("sub", 0, <<>>)
All(role, l) == Con("all", role, <<l>>)

\* Roles 2, 5 and 7 are super roles of 1, 4 and 6; 9 is one of the inverse of 8.
MCSuperRoles ==
  [r \in 1..9 |-> {[role |-> r, inverse |-> FALSE]}
                  \cup (IF r \in {1, 4, 6} THEN {[role |-> r + 1, inverse |-> FALSE]} ELSE {})
                  \cup (IF r = 8 THEN {[role |-> 9, inverse |-> TRUE]} ELSE {})]

MCConcepts ==
     1 :> Con("top", 0, <<>>) @@ 2 :> Sub @@ 3 :> Sub @@ 4 :> Con("eqcand", 0, <<P(5)>>) @@ 7 :> Sub
  @@ 5 :> Con("eq", 0, <<P(3), P(9)>>) @@ 6 :> Con("eq", 0, <<P(10)>>)
  @@ 8 :> Sub @@ 9 :> All(1, P(8)) @@ 10 :> All(3, P(8)) @@ 11 :> Sub @@ 12 :> All(2, P(8))
  \* what 30 entails, after the equivalence each of them is for
  @@ 30 :> Sub
  @@ 31 :> Con("eq", 0, <<P(41)>>) @@ 41 :> All(4, P(9)) @@ 51 :> All(5, P(12))
  @@ 32 :> Con("eq", 0, <<P(42)>>) @@ 42 :> All(6, P(9)) @@ 52 :> All(7, P(53)) @@ 53 :> Con("aqall", 1, <<P(8)>>)
  @@ 33 :> Con("eq", 0, <<P(43)>>) @@ 43 :> Con("and", 0, <<P(44), P(1)>>) @@ 44 :> All(3, P(11)) @@ 54 :> All(1, P(11))
  @@ 34 :> Con("eq", 0, <<P(45)>>) @@ 45 :> All(8, P(8)) @@ 55 :> Con("aqand", 0, <<P(56)>>) @@ 56 :> Con("aqall", 8, <<P(8)>>)
  @@ 35 :> Con("eq", 0, <<P(46)>>) @@ 46 :> All(3, N(8)) @@ 57 :> All(3, N(58)) @@ 58 :> Sub
  \* what 30 does not entail: one ruled out, one whose merging does not come to an end
  @@ 36 :> Con("eq", 0, <<P(47)>>) @@ 47 :> All(3, P(7))
  @@ 37 :> Con("eq", 0, <<P(48)>>) @@ 48 :> All(9, N(59)) @@ 59 :> Con("some", 1, <<P(59)>>)
  @@ 60 :> All(1, P(60)) @@ 61 :> All(9, P(60))

Blank == [completed |-> TRUE, clashed |-> FALSE, flawed |-> FALSE, substitute |-> 0, item |-> P(1), label |-> {},
          triggers |-> {}, backward |-> <<>>, linked |-> {}, extended |-> FALSE, successors |-> {}]
Labelled(ls) == [Blank EXCEPT !.label = ls]

MCSaturated ==
     1 :> Labelled({N(8)}) @@ 2 :> Labelled({P(8), P(58)})
  @@ 3 :> Labelled({N(9)}) @@ 4 :> Labelled({N(10), P(11)})
  \* 12 is substituted by what saturates the same
  @@ 5 :> [Blank EXCEPT !.substitute = 6, !.item = P(12)]
  @@ 6 :> [Labelled({P(12)}) EXCEPT !.backward = 2 :> {P(12)}]
  @@ 7 :> Labelled({N(41)})
  @@ 8 :> [Labelled({N(42)}) EXCEPT !.extended = TRUE, !.successors = {[role |-> 6, node |-> 3]}]
  @@ 9 :> [Labelled({N(44), P(54)}) EXCEPT !.backward = 1 :> {P(54)}]
  @@ 10 :> Labelled({N(45)}) @@ 11 :> Labelled({N(46)})
  @@ 12 :> Labelled({N(47)}) @@ 13 :> Labelled({N(7)}) @@ 14 :> Labelled({N(11)})
  @@ 15 :> Labelled({N(48)}) @@ 16 :> Labelled({P(11)})
  @@ 17 :> [Labelled({P(60)}) EXCEPT !.backward = 1 :> {P(60)}]
  @@ 18 :> Labelled({P(59)})

MCNodeOf ==
     N(8) :> 1 @@ P(8) :> 2 @@ N(9) :> 3 @@ N(10) :> 4 @@ P(12) :> 5 @@ N(41) :> 7 @@ N(42) :> 8 @@ N(44) :> 9 @@ N(45) :> 10 @@ N(46) :> 11 @@ N(47) :> 12 @@ N(7) :> 13 @@ N(11) :> 14 @@ P(11) :> 16
  @@ N(48) :> 15 @@ P(60) :> 17 @@ P(59) :> 18
MCSuccessorOf == 41 :> 3

\* What is waiting in a node, for its roles and for concepts it has not, by what it holds.
Waiting(cons) ==
  IF 30 \in cons THEN 5 :> {P(51)} @@ 7 :> {P(52)} @@ 3 :> {P(57)} @@ 8 :> {P(55)} @@ 9 :> {P(61)}
  ELSE IF 2 \in cons THEN 2 :> {P(12)}
  ELSE IF 5 \in cons THEN 1 :> {P(9)}
  ELSE <<>>
Pending(cons) == IF 2 \in cons THEN {11} ELSE {}

INSTANCE SaturatedMerging WITH
  Concepts <- MCConcepts, SuperRoles <- MCSuperRoles, Saturated <- MCSaturated, NodeOf <- MCNodeOf,
  SuccessorOf <- MCSuccessorOf, MaxDepth <- 5, MaxTests <- 100
=============================================================================
