---------------------------- MODULE MCTaskAnalyser ----------------------------
(* Classes 2, 3, 7 and 30, an equivalence 5 with candidate concept 4 and others without;  *)
(* and eight completion graphs: choices, a walk that is cut, merged roots, successors     *)
(* that come from one concept or from several, a branching error, nominal and blocked     *)
(* nodes, and one whose root several equivalences have to be tested for.                  *)
EXTENDS TaskAnalyser

Merging == INSTANCE MCSaturation
ASSUME NullsAssumption == Merging!NoNulls

MCEquivalent == {5, 6} \cup 31..37
MCNamed == {1, 2, 3, 7, 30} \cup MCEquivalent
MCNonCandidates == MCEquivalent \ {5}
MCCandidateOf == 4 :> 5
MCSubsumers == 2 :> {3, 5, 6} @@ 5 :> {3} @@ 7 :> {3} @@ 30 :> 31..35 @@ [c \in MCNamed |-> {}]
MCCardinalities == 71 :> [role |-> 1, least |-> TRUE, n |-> 2, qualified |-> FALSE]
                   @@ 72 :> [role |-> 3, least |-> FALSE, n |-> 1, qualified |-> FALSE]

Dep(branch, con, depth, prev, more) ==
  [branch |-> branch, con |-> con, depth |-> depth, prev |-> prev, more |-> more,
   independent |-> FALSE, mergedConcept |-> FALSE]
Pos(con, dep) == [con |-> con, neg |-> FALSE, dep |-> dep]
Neg(con, dep) == [con |-> con, neg |-> TRUE, dep |-> dep]
Node(depth, label, succ) ==
  LET cons == {e.con : e \in {f \in ToSet(label) : ~f.neg}}
  IN [label |-> label, depth |-> depth, succ |-> succ, nominal |-> FALSE, blocked |-> FALSE, cached |-> FALSE,
      nominalConnection |-> FALSE, waiting |-> Merging!Waiting(cons), pending |-> Merging!Pending(cons),
      roles |-> [i \in DOMAIN succ |-> [role |-> 1, to |-> succ[i], dep |-> 2]]]
Tested(nodes) ==
  [n \in DOMAIN nodes |->
     nodes[n] @@ [mergeable |-> {e \in MCEquivalent : Merging!StaysPossible(nodes, n, e)}]]
Graph(con, deps, nodes, maxDet) ==
  [con |-> con, constructed |-> 1, merged |-> <<>>, nodes |-> Tested(nodes), maxDet |-> maxDet, deps |-> deps, clash |-> <<>>]

\* 1 is the tested concept itself, 2 and 3 follow from it, 4 from both and 5 from 4 and 3
Root0 == << Dep(0, 2, 0, 0, <<>>), Dep(0, 2, 0, 1, <<>>), Dep(0, 4, 0, 1, <<>>), Dep(0, 3, 0, 2, <<3>>),
            Dep(0, 3, 0, 4, <<3, 2>>), Dep(1, 2, 0, 1, <<>>), Dep(1, 2, 1, 0, <<>>), Dep(0, 0, 1, 0, <<>>),
            Dep(0, 2, 1, 8, <<>>), Dep(2, 3, 1, 7, <<>>) >>

Plain == Graph(2, Root0, 1 :> Node(0, <<Pos(2, 1), Pos(1, 0), Pos(3, 4), Pos(4, 3)>>, <<>>), 0)
Choosing ==
  [Graph(2, Root0, 1 :> Node(0, <<Neg(7, 6), Pos(5, 6), Pos(6, 6), Pos(3, 4), Pos(4, 3), Pos(1, 0), Pos(2, 1)>>, <<>>), 0)
     EXCEPT !.clash = <<6, 3>>]
OneOfTwo == Graph(3, Root0, 1 :> Node(0, <<Pos(2, 6), Pos(3, 1), Pos(1, 0), Pos(4, 6), Neg(7, 6)>>, <<2>>)
                             @@ 2 :> [Node(1, <<Pos(3, 4), Pos(1, 0), Pos(7, 10)>>, <<>>) EXCEPT !.cached = TRUE], 0)
\* a successor made for concept 2, one made for two concepts, one with a concept that holds
\* by fewer choices than what it was made for
Successors ==
  Graph(7, Root0,
        1 :> Node(0, <<Pos(7, 1), Pos(1, 0), Pos(3, 2)>>, <<2, 3>>)
          @@ 2 :> Node(1, <<Pos(2, 2), Pos(1, 0), Pos(3, 9), Pos(4, 9), Pos(6, 10), Neg(7, 10)>>, <<3, 4>>)
          @@ 3 :> Node(1, <<Pos(7, 10), Pos(3, 6), Pos(2, 1), Pos(1, 9), Pos(4, 9)>>, <<>>)
          @@ 4 :> Node(1, <<Pos(2, 6), Pos(1, 7), Pos(3, 7), Pos(4, 7), Pos(5, 7), Pos(7, 9)>>, <<1>>), 0)
Merged ==
  [Graph(7, Root0, 1 :> Node(0, <<Pos(7, 1), Pos(1, 0), Pos(3, 2)>>, <<>>)
                     @@ 2 :> Node(0, <<Pos(2, 6), Pos(3, 6), Pos(1, 1), Pos(4, 6), Pos(5, 6), Pos(7, 6)>>, <<>>), 1)
     EXCEPT !.merged = 1 :> [into |-> 2, branch |-> 1]]
\* a tested node numbered 0 that its successors lead back to, a concept merged from the root,
\* and nodes that are passed over
Special ==
  [Graph(3, [Root0 EXCEPT ![8] = [@ EXCEPT !.depth = -1, !.mergedConcept = TRUE, !.prev = 1], ![1].independent = TRUE],
         0 :> Node(0, <<Pos(3, 1), Pos(1, 0)>>, <<2, 3, 4, 5>>) @@ 1 :> Node(0, <<Pos(3, 1)>>, <<>>)
           @@ 2 :> [Node(1, <<Pos(2, 1)>>, <<>>) EXCEPT !.blocked = TRUE]
           @@ 3 :> [Node(1, <<Pos(7, 8), Pos(3, 9), Pos(1, 0)>>, <<0>>) EXCEPT !.nominalConnection = TRUE]
           @@ 4 :> [Node(0, <<Pos(7, 0), Pos(3, 0)>>, <<>>) EXCEPT !.nominal = TRUE]
           @@ 5 :> Node(1, <<Pos(7, 8), Pos(3, 9), Pos(1, 0), Pos(5, 10), Pos(4, 0)>>, <<>>), 1)
     EXCEPT !.merged = 1 :> [into |-> 0, branch |-> 0]]
Shared == Graph(7, Root0, 1 :> Node(0, <<Pos(7, 1), Pos(1, 1), Pos(3, 5), Pos(6, 6)>>, <<2>>)
                            @@ 2 :> Node(1, <<Pos(3, 2), Pos(7, 10), Pos(1, 0)>>, <<>>), 0)

\* a root for the merging test, with successors over a role that is not simple as well
Equivalences ==
  Graph(30, Root0,
        1 :> [Node(0, <<Pos(71, 1), Pos(30, 1), Pos(1, 0)>>, <<2, 3>>)
                EXCEPT !.roles = @ \o <<[role |-> 3, to |-> 3, dep |-> 6], [role |-> 2, to |-> 3, dep |-> 1]>>]
          @@ 2 :> Node(1, <<Neg(11, 2), Pos(1, 0)>>, <<>>)
          @@ 3 :> [Node(1, <<Neg(11, 2), Pos(72, 2), Pos(1, 0)>>, <<>>) EXCEPT !.roles = <<[role |-> 3, to |-> 1, dep |-> 9]>>], 0)

MCGraphs == {Plain, Choosing, OneOfTwo, Successors, Merged, Special, Shared, Equivalences}
All == [subsRoot |-> TRUE, possRoot |-> TRUE, subsOther |-> TRUE, possOther |-> TRUE, pseudo |-> TRUE,
        single |-> TRUE, multiple |-> TRUE]
MCModes == {All, [All EXCEPT !.possOther = FALSE, !.pseudo = FALSE], [All EXCEPT !.multiple = FALSE], [All EXCEPT !.subsRoot = FALSE, !.possRoot = FALSE]}
=============================================================================
