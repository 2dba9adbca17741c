--------------------------- MODULE SaturatedMerging ---------------------------
(***************************************************************************)
(* The test by which CSatisfiableTaskClassificationMessageAnalyser rules   *)
(* out an equivalence as possible subsumer of what holds in a node: some   *)
(* disjunct of its negation holds there, or is an existential whose        *)
(* saturated model can be merged with the node.                            *)
(*                                                                         *)
(* Every way in which a merge may fail ends the test with the same answer, *)
(* so the loops over labels, roles and successors are conjunctions, and    *)
(* the counter the recursive tests share is a sum.  What is remembered of  *)
(* earlier tests at the same node is left out: it repeats their answers.   *)
(***************************************************************************)
EXTENDS Integers, SequencesExt, FiniteSetsExt

CONSTANTS
  Concepts,    \* from tags to [op, role, of, card]; of: operands, literals [con, neg]
  SuperRoles,  \* from roles to sets of [role, inverse], the role itself among them
  Saturated,   \* from saturated nodes to what saturation has left of them
  NodeOf,      \* from literals to their saturated nodes, as far as there are any
  SuccessorOf, \* from existentials to nodes of their own, as far as there are any
  MaxDepth,    \* remainingMergingDepth (5)
  MaxTests     \* remainingMergingCount (100)

Top == 1
None == 0

Op(l) == Concepts[l.con].op
Role(l) == Concepts[l.con].role
Of(l) == ToSet(Concepts[l.con].of)
Operands(l) == {[o EXCEPT !.neg = @ # l.neg] : o \in Of(l)}

\* CCALL, CCIMPLALL, CCBRANCHALL; CCAQALL, CCIMPLAQALL, CCBRANCHAQALL
Universal(l) == ~l.neg /\ Op(l) \in {"all", "aqall"}
\* CCAQAND, CCIMPLAQAND, CCBRANCHAQAND
Automaton(l) == ~l.neg /\ Op(l) = "aqand"
NotSub(l) == l.neg /\ Op(l) = "sub"
Forwards(l) == Universal(l) \/ (l.neg /\ Op(l) = "some")
NeedsSuccessor(l) ==
  LET card == Concepts[l.con].card
  IN IF l.neg THEN Op(l) = "all" \/ (Op(l) = "atmost" /\ card >= 0)
     ELSE Op(l) \in {"some", "aqsome"} \/ (Op(l) = "atleast" /\ card > 0)

NodeFor(l) == IF l \in DOMAIN NodeOf THEN NodeOf[l] ELSE None

\* getExistentialSaturatedIndividualNodeForConcept
SuccessorNode(con) ==
  LET of == Concepts[con].of
  IN IF con \in DOMAIN SuccessorOf THEN SuccessorOf[con]
     ELSE IF of = <<>> THEN NodeFor([con |-> Top, neg |-> FALSE])
     ELSE IF Len(of) > 1 THEN None
     ELSE NodeFor([of[1] EXCEPT !.neg = @ # (Concepts[con].op = "all")])

-----------------------------------------------------------------------------
(* Saturated nodes.  One that is another's substitute holds the label for both. *)

Usable(s) == Saturated[s].completed /\ ~Saturated[s].clashed /\ ~Saturated[s].flawed

RECURSIVE Resolved(_)
Resolved(s) == IF Saturated[s].substitute = None THEN s ELSE Resolved(Saturated[s].substitute)

\* The nodes passed on the way there.
RECURSIVE Substituted(_)
Substituted(s) ==
  IF Saturated[s].substitute = None THEN {} ELSE {s} \cup Substituted(Saturated[s].substitute)

Items(s) == {Saturated[t].item : t \in Substituted(s)}
LabelOf(s) == Saturated[Resolved(s)].label
Triggers(s) == Saturated[Resolved(s)].triggers \ {l.con : l \in LabelOf(s)}

\* The universals a node has for its neighbours over a role.
Backward(s, r) == IF r \in DOMAIN Saturated[s].backward THEN Saturated[s].backward[r] ELSE {}

-----------------------------------------------------------------------------
(* What a successor receives: saturated nodes to merge with its own, concepts without *)
(* such a node, and the roles that lead back.                                          *)

Nothing == [ok |-> TRUE, nodes |-> {}, plain |-> {}, back |-> {}]
Failed == [Nothing EXCEPT !.ok = FALSE]
Joined(parts) == [ok    |-> \A p \in parts : p.ok,
                  nodes |-> UNION {p.nodes : p \in parts},
                  plain |-> UNION {p.plain : p \in parts},
                  back  |-> UNION {p.back : p \in parts}]

\* collectTrivialPropagationTestingConcepts
RECURSIVE Plain(_)
Plain(l) ==
  IF NotSub(l) \/ Universal(l) THEN [Nothing EXCEPT !.plain = {l}]
  ELSE IF Automaton(l) THEN Joined({Plain(o) : o \in Of(l)})
  ELSE Failed

Received(l) ==
  IF NodeFor(l) = None THEN Plain(l)
  ELSE IF Usable(NodeFor(l)) THEN [Nothing EXCEPT !.nodes = {NodeFor(l)}]
  ELSE Failed

\* addAutomateTransactionConcepts
RECURSIVE Transitions(_, _)
Transitions(l, r) ==
  IF Automaton(l) THEN Joined({Transitions(o, r) : o \in Of(l)})
  ELSE IF ~l.neg /\ Op(l) = "aqall" /\ Role(l) = r THEN Joined({Received(o) : o \in Of(l)})
  ELSE Nothing

\* collectSuccessorMergingNodesAndConcepts, from a node of the completion graph
FromNode(node, r) ==
  LET waiting(sr) == IF sr \in DOMAIN node.waiting THEN node.waiting[sr] ELSE {}
      given(l, sr) == IF Forwards(l) THEN Joined({Received(o) : o \in Operands(l)})
                      ELSE IF Automaton(l) THEN Transitions(l, sr)
                      ELSE Failed
  IN Joined({IF (node.roles # <<>> \/ DOMAIN node.waiting # {}) /\ ~sr.inverse
             THEN Joined({given(l, sr.role) : l \in waiting(sr.role)})
             ELSE [Nothing EXCEPT !.back = {sr.role}] : sr \in SuperRoles[r]})

\* The same from saturated nodes and concepts without one.  A concept given for a role is
\* looked up under the super roles and used for that very role only.  Of an operand without
\* a node a null pointer gets on the list as well, and is followed; so is that of a missing
\* successor.  Nothing is said of what happens then: see NoNulls.
FromSaturated(except, r, nodes, plain) ==
  LET given(l) == IF Forwards(l) THEN Joined({Received(o) : o \in Operands(l)}) ELSE Failed
      others == {Resolved(s) : s \in nodes} \ {except}
      own == {l \in plain : Universal(l) /\ Role(l) = r}
  IN Joined({IF sr.inverse THEN [Nothing EXCEPT !.back = {sr.role}]
             ELSE Joined({given(l) : l \in UNION {Backward(s, sr.role) : s \in others}}
                         \cup IF sr.role = r THEN {given(l) : l \in own} ELSE {}) : sr \in SuperRoles[r]})

-----------------------------------------------------------------------------
(* testSaturatedSuccessorModelMergable *)

\* A single node, and concepts without one.
SingleConflict(s, plain) ==
  \E l \in {p \in plain : NotSub(p)} :
    LET positive == [l EXCEPT !.neg = FALSE]
    IN positive \in LabelOf(s) \/ l.con \in Triggers(s) \/ (l \notin LabelOf(s) /\ positive \in Items(s))

\* Several nodes: contradictory concepts, a concept of one that triggers an implication
\* of another, or one that speaks of the way back.
MultipleConflict(s, more, plain, back) ==
  LET all == {s} \cup more
      lits == UNION {Items(t) \cup LabelOf(t) : t \in all} \cup {l \in plain : NotSub(l)}
  IN \/ \E t \in more \ {s} : back \cap Saturated[Resolved(t)].linked # {}
     \/ \E l \in lits : [l EXCEPT !.neg = ~@] \in lits \/ l.con \in UNION {Triggers(t) : t \in all}

Conflict(s, more, plain, back) ==
  \/ \E l \in plain : Universal(l) /\ Role(l) \in back
  \/ IF more = {} THEN SingleConflict(s, plain) ELSE MultipleConflict(s, more, plain, back)

Extensions(s) ==
  IF ~Saturated[s].extended THEN {}
  ELSE {[con |-> None, role |-> e.role, node |-> e.node, from |-> s] : e \in Saturated[s].successors}

\* from: the node that has each concept.
Existentials(from) ==
  {[con |-> l.con, role |-> Role(l), node |-> SuccessorNode(l.con), from |-> from[l]] :
     l \in {e \in DOMAIN from : NeedsSuccessor(e)}}

\* The first node that has the concept; its own universals its successor has received.
Holder(s, more, l) ==
  LET holds(t) == {u \in Substituted(t) : Saturated[u].item = l}
                  \cup IF l \in LabelOf(t) THEN {Resolved(t)} ELSE {}
  IN CHOOSE u \in IF holds(s) # {} THEN holds(s) ELSE UNION {holds(t) : t \in more} : TRUE

SuccessorsOf(s, more) ==
  IF more = {}
  THEN IF Saturated[s].extended THEN Extensions(s) ELSE Existentials([l \in LabelOf(s) |-> s])
  ELSE Existentials([l \in UNION {Items(t) \cup LabelOf(t) : t \in {s} \cup more} |-> Holder(s, more, l)])
       \cup UNION {Extensions(t) : t \in {s} \cup more}

\* The number of tests it takes to merge s with more, or more than there may be.
RECURSIVE Tests(_, _, _, _, _)
Tests(s, more, plain, back, depth) ==
  LET next(e) ==
        LET given == FromSaturated(e.from, e.role, {s} \cup more, plain)
        IN IF ~given.ok THEN MaxTests + 1
           ELSE IF given.nodes = {} /\ plain = {} THEN 0
           ELSE Tests(e.node, given.nodes, given.plain, given.back, depth - 1)
  IN IF depth = 0 \/ Conflict(s, more, plain, back) THEN MaxTests + 1
     ELSE 1 + MapThenSumSet(next, SuccessorsOf(s, more))

-----------------------------------------------------------------------------
(* testSubsumerCandidatePossibleWithMergedSaturatedModel *)

Literals(node) == {[con |-> e.con, neg |-> e.neg] : e \in ToSet(node.label)}

\* A bug: implications that wait for a concept of the other label are overlooked.
LabelsAgree(node, s) ==
  /\ ~Saturated[s].clashed /\ Saturated[s].substitute = None
  /\ \A l \in Literals(node) : [l EXCEPT !.neg = ~@] \notin Saturated[s].label

\* testConceptSetWithSaturatedModelMergable
LabelsMerge(node, s) ==
  /\ ~Saturated[s].clashed /\ Saturated[s].substitute = None
  /\ \A l \in Literals(node) : /\ [l EXCEPT !.neg = ~@] \notin Saturated[s].label
                               /\ ~l.neg => l.con \notin Triggers(s)
  /\ \A l \in Saturated[s].label :
       (~l.neg /\ l.con \in node.pending) => l.con \in {k.con : k \in Literals(node)}

\* testRoleSuccessorsWithSaturatedModelMergable.  Whatever the sign of an operand, it is
\* looked for without negation.
NeighboursMerge(nodes, n, s) ==
  \A r \in DOMAIN Saturated[s].backward : \A l \in Backward(s, r) \ Literals(nodes[n]) :
    \A e \in {f \in ToSet(nodes[n].roles) : f.role = r} : \A o \in Of(l) :
      [o EXCEPT !.neg = FALSE] \in Literals(nodes[e.to])

\* testSaturatedExistentialsModelMergable
SuccessorsMerge(node, s) ==
  LET tests(e) ==
        LET given == FromNode(node, e.role)
        IN IF ~given.ok THEN MaxTests + 1
           ELSE IF given.nodes = {} /\ given.plain = {} THEN 0
           ELSE IF e.node = None THEN MaxTests + 1
           ELSE Tests(e.node, given.nodes, given.plain, given.back, MaxDepth)
  IN MapThenSumSet(tests, SuccessorsOf(s, {})) <= MaxTests

Merges(nodes, n, l) ==
  /\ NodeFor(l) # None /\ Saturated[NodeFor(l)].completed /\ ~Saturated[NodeFor(l)].flawed
  /\ LabelsMerge(nodes[n], NodeFor(l))
  /\ NeighboursMerge(nodes, n, NodeFor(l))
  /\ SuccessorsMerge(nodes[n], NodeFor(l))

\* collectEquivalenceConceptAlternatives
RECURSIVE Alternatives(_)
Alternatives(l) ==
  IF (l.neg /\ Op(l) \in {"eq", "and"}) \/ (~l.neg /\ Op(l) = "or")
  THEN UNION {Alternatives(o) : o \in Operands(l)}
  ELSE IF Op(l) = "aqchoice" THEN UNION {Alternatives(o) : o \in {p \in Of(l) : p.neg = l.neg}}
  ELSE {l}

Expands(l) == IF l.neg THEN Op(l) = "all" ELSE Op(l) \in {"some", "aqsome"}

\* The equivalence stays possible for what holds in node n.
StaysPossible(nodes, n, equivalence) ==
  \A l \in Alternatives([con |-> equivalence, neg |-> TRUE]) :
    /\ l \notin Literals(nodes[n])
    /\ (Expands(l) /\ l.con \notin {k.con : k \in Literals(nodes[n])}) => ~Merges(nodes, n, l)

\* Where saturation has made the nodes the recursive tests ask for.
NoNulls ==
  /\ \A s \in DOMAIN Saturated : \A r \in DOMAIN Saturated[s].backward :
       \A l \in Backward(s, r) : Forwards(l) => \A o \in Operands(l) : NodeFor(o) # None
  /\ \A s \in DOMAIN Saturated : \A l \in Items(s) \cup LabelOf(s) :
       NeedsSuccessor(l) => SuccessorNode(l.con) # None
=============================================================================
