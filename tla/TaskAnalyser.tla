----------------------------- MODULE TaskAnalyser -----------------------------
(***************************************************************************)
(* CSatisfiableTaskClassificationMessageAnalyser: what the classifier is   *)
(* told when the tableau has found a model.  The nodes of the completion   *)
(* graph are read one after the other: concepts that hold without a choice *)
(* become subsumers, named concepts of a label possible subsumers, and     *)
(* what a label lacks is no longer possible for the concepts that hold     *)
(* there.  The classifier thread takes the messages later, and other tasks *)
(* read and prune the same maps meanwhile.                                 *)
(*                                                                         *)
(* A concept is its tag.  The lists and maps the code merges with a label  *)
(* are sorted by tag, so a merge is a statement about sets of tags.        *)
(***************************************************************************)
EXTENDS Integers, SequencesExt, FiniteSetsExt, TLC

CONSTANTS
  Named,       \* tags of the concepts with a class name, owl:Thing among them
  Equivalent,  \* those of them defined by an equivalence (CCEQ)
  CandidateOf, \* function from CCEQCAND concepts to the equivalence each stands for
  NonCandidates, \* the equivalences that have no such concept
  Subsumers,   \* function from Named: what the ontology entails
  Graphs,      \* completion graphs the tableau may finish with
  Modes,       \* settings of the extraction flags
  Cardinalities, \* from number restrictions to [role, least, n, qualified]
  SimpleRoles, \* the roles that are not complex
  MaxWalk,     \* steps of a walk along dependencies (200 in the code)
  MaxPseudoDepth, MaxPseudoNodes, \* size of a pseudo model (3 and 30 in the code)
  MaxTasks     \* bound on the number of tasks

Top == 1
Bottom == 0
None == 0      \* no dependency, no position
Linked == Named \ {Top}  \* concepts with reference linking data

VARIABLES
  map,      \* possible subsumers of a concept: [made, possible]
  cache,    \* JustificationCache, from pairs of tags to chains
  inbox,    \* batches of messages the classifier has still to take
  tasks,    \* tasks analysed so far
  pc,       \* "idle", "root", "others" or "node"
  g, mode,  \* graph and flags of the running task
  todo,     \* positions of the root label still to be read
  subs,     \* subsumerList: [con, of], of the concept it was collected for
  lists,    \* mMultiplePossSubsumInitAvoidHash
  out,      \* messages made so far
  done,     \* analysedConceptSet
  queue, seen, \* succIndiProcList and succIndiProcHash
  at, next, single \* analyseConDes, conDesMultipleIt and conDesSingleDep of a node

local == <<g, mode, todo, subs, lists, out, done, queue, seen, at, next, single>>
vars == <<map, cache, inbox, tasks, pc, local>>

-----------------------------------------------------------------------------
(* Reading the completion graph *)

Label(n) == g.nodes[n].label
Occurring(n) == {e.con : e \in ToSet(Label(n))}
Branch(e) == g.deps[e.dep].branch

\* getCorrectedIndividualID, with whether a merge on the way depends on a choice
Corrected(gr, i) ==
  LET follow[j \in DOMAIN gr.nodes] ==
        IF j \notin DOMAIN gr.merged THEN [node |-> j, nondet |-> FALSE]
        ELSE LET r == follow[gr.merged[j].into]
             IN [r EXCEPT !.nondet = @ \/ gr.merged[j].branch # 0]
  IN follow[i]

TestedNode(gr) == Corrected(gr, gr.constructed).node
Root == TestedNode(g)

\* A bug: the merge of the tested node by a choice is overlooked.
MaxDetOfMerged(gr) == gr.maxDet

\* maxDetBranchTag
MaxDet(gr) == IF Corrected(gr, gr.constructed).nondet THEN 0 ELSE gr.maxDet

\* hasDependencyToAncestor
FromAncestor(gr, n, d) ==
  LET up[x \in DOMAIN gr.deps] ==
        LET dep == gr.deps[x]
        IN IF gr.nodes[n].depth <= 0 THEN dep.independent
           ELSE IF dep.depth >= 0 THEN dep.depth < gr.nodes[n].depth
           ELSE dep.mergedConcept /\ up[dep.prev]
  IN up[d]

\* getIndividualProcessNodeConceptWithSingleAncestorDependency, as a position of the label
SingleAncestor(gr, n) ==
  LET label == gr.nodes[n].label
      ps == {i \in DOMAIN label : label[i].con # Top}
      from == {i \in ps : label[i].dep # None /\ FromAncestor(gr, n, label[i].dep)}
  IN IF gr.nodes[n].nominalConnection \/ (\E i \in ps : label[i].dep = None) \/ Cardinality(from) # 1
     THEN None ELSE CHOOSE i \in from : TRUE

\* A bug: dependencies besides the first are left out.
ChainOfFirst(gr, d) ==
  LET step(s, i) ==
        IF s.last = None THEN s
        ELSE [last |-> gr.deps[s.last].prev,
              tags |-> IF gr.deps[s.last].con = None THEN s.tags ELSE Append(s.tags, gr.deps[s.last].con)]
  IN FoldLeft(step, [last |-> d, tags |-> <<>>], [i \in 1..MaxWalk |-> i]).tags

\* The dependencies that lead to one.
Before(dep) == (IF dep.prev = None THEN <<>> ELSE <<dep.prev>>) \o dep.more

\* A walk along the dependencies that lead to d, on a stack and without a record of where it
\* has been: the stack and the concepts met after each step.
WalkStep(gr, s) ==
  IF s.stack = <<>> THEN s
  ELSE LET x == gr.deps[Last(s.stack)]
       IN [stack |-> Front(s.stack) \o Before(x),
           tags |-> IF x.con = None THEN s.tags ELSE Append(s.tags, x.con)]
Walk(gr, d) ==
  LET after[i \in 0..MaxWalk] ==
        IF i = 0 THEN [stack |-> <<d>>, tags |-> <<>>] ELSE WalkStep(gr, after[i - 1])
  IN after
Chain(gr, d) == Walk(gr, d)[MaxWalk].tags

\* JustificationCache::insert; an empty chain is not inserted
Inserted(c, sub, sup, tags) ==
  IF tags = <<>> THEN c
  ELSE [p \in DOMAIN c \cup {<<sub, sup>>} |-> IF p = <<sub, sup>> THEN tags ELSE c[p]]

-----------------------------------------------------------------------------
(* extractPossibleSubsumptionInformation, for concept x found in the label of node n *)

NoList == [made |-> FALSE, valid |-> {}]

\* The list of a first message: the named concepts of the label, and its candidates as far as
\* their equivalences cannot be ruled out at the node, which merging saturated models tests.
CreatedList(x, n) ==
  LET named == {e.con : e \in {f \in ToSet(Label(n)) : ~f.neg /\ f.con \in Named \ {Top, x}}}
      candidates == {c \in Occurring(n) \cap DOMAIN CandidateOf : CandidateOf[c] \in g.nodes[n].mergeable}
      all == named \cup candidates
  IN [made |-> all # {}, valid |-> all]

\* A second node with x before the first message is sent: the list of that message loses
\* what the label of this node lacks.
PrunedList(l, n) == [l EXCEPT !.valid = @ \cap Occurring(n)]

\* A bug: an equivalence that a label lacks is dropped as well.
PrunedMapOfAll(x, n) == map[x].possible \cap Occurring(n)

\* The map the classifier has made of such a message: equivalences stay, for a label need
\* not hold them.
PrunedMap(x, n) == {p \in map[x].possible : p \in Occurring(n) \/ p \in Equivalent}

\* What is dropped after the last concept of the label is dropped without a notice.
PruneNoticed(x, n) == \E p \in map[x].possible \ PrunedMap(x, n) : \E c \in Occurring(n) : p < c

ExtractPossible(x, n, msgs) ==
  IF x \notin Linked THEN UNCHANGED <<map, lists>> /\ out' = msgs
  ELSE IF map[x].made
  THEN /\ map' = [map EXCEPT ![x].possible = PrunedMap(x, n)]
       /\ out' = IF PruneNoticed(x, n) THEN Append(msgs, [kind |-> "pruned", con |-> x]) ELSE msgs
       /\ UNCHANGED lists
  ELSE IF lists[x].made
  THEN lists' = [lists EXCEPT ![x] = PrunedList(@, n)] /\ out' = msgs /\ UNCHANGED map
  ELSE /\ lists' = [lists EXCEPT ![x] = CreatedList(x, n)]
       /\ out' = Append(msgs, [kind |-> "possible", con |-> x, list |-> CreatedList(x, n).made,
                               others |-> g.nodes[n].mergeable \cap NonCandidates])
       /\ UNCHANGED map

-----------------------------------------------------------------------------
(* The pseudo model of the tested concept.  An item of the stack stands for nodes merged  *)
(* into one: the base node, or the successors of an item for a role.                      *)

Det(gr, d) == d # None /\ gr.deps[d].branch <= MaxDet(gr)

\* What is left of a sequence without the elements of a set.
Without(s, S) ==
  LET left[i \in 0..Len(s)] ==
        IF i = 0 THEN <<>> ELSE IF s[i] \in S THEN left[i - 1] ELSE Append(left[i - 1], s[i])
  IN left[Len(s)]

\* The links of node n for role r.
Links(gr, n, r) == Without(gr.nodes[n].roles, {e \in ToSet(gr.nodes[n].roles) : e.role # r})

\* What the concept map says of the nodes, [node, nondet], of an item: a later one replaces
\* what an earlier one has entered.
Entered(gr, x) ==
  {e \in ToSet(gr.nodes[x.node].label) :
     ~e.neg /\ e.con \in (Named \ (Equivalent \cup {Top})) \cup DOMAIN CandidateOf}
PseudoConcepts(gr, nodes) ==
  LET of(i) == {e.con : e \in Entered(gr, nodes[i])}
      last(c) == nodes[Max({i \in DOMAIN nodes : c \in of(i)})]
  IN [c \in UNION {of(i) : i \in DOMAIN nodes} |->
        \E e \in Entered(gr, last(c)) : e.con = c /\ Det(gr, e.dep) /\ ~last(c).nondet]

\* A number restriction that holds, negated or not, and the number it asks for.
AtLeast(e) == Cardinalities[e.con].least # e.neg
Number(e) == Cardinalities[e.con].n + (IF ~e.neg THEN 0 ELSE IF AtLeast(e) THEN 1 ELSE -1)

\* The first link to each successor of the nodes.
LinksOfAll(gr, nodes, r) ==
  LET all == FlattenSeq([i \in DOMAIN nodes |-> Links(gr, nodes[i].node, r)])
      again == {i \in DOMAIN all : \E j \in 1..(i - 1) : all[j].to = all[i].to}
      first == Without([i \in DOMAIN all |-> i], again)
  IN [i \in DOMAIN first |-> all[first[i]]]

\* The bounds on the number of successors (upperAtMost: none, or one), and the nodes of the
\* item that stands for them.  Whether the way to the item is deterministic is read of the
\* first node that has the role.
PseudoRole(gr, nodes, r, id) ==
  LET links == LinksOfAll(gr, nodes, r)
      det == {e \in ToSet(links) : Det(gr, e.dep)}
      nondet == nodes[Min({i \in DOMAIN nodes : Links(gr, nodes[i].node, r) # <<>>})].nondet
      counts == {Len(Links(gr, nodes[i].node, r)) : i \in DOMAIN nodes}
      restrictions == {e \in UNION {ToSet(gr.nodes[nodes[i].node].label) : i \in DOMAIN nodes} :
                         /\ e.con \in DOMAIN Cardinalities /\ Cardinalities[e.con].role = r
                         /\ Det(gr, e.dep)}
      atLeast == {Number(e) : e \in {f \in restrictions : AtLeast(f)}}
      atMost == {Number(e) : e \in {f \in restrictions : ~AtLeast(f) /\ (f.neg \/ ~Cardinalities[f.con].qualified)}}
  IN [entry |-> [model |-> id, deterministic |-> det # {} /\ ~nondet,
                 lowerAtLeast |-> Max({0} \cup atLeast \cup {1 : e \in det}), upperAtLeast |-> Max(counts),
                 upperAtMost |-> {m \in atMost : m >= 0 /\ \A k \in atMost : k >= 0 => m <= k},
                 lowerAtMost |-> Min(counts)],
      nodes |-> Reverse([i \in DOMAIN links |->
                           [node |-> links[i].to, nondet |-> links[i] \notin det /\ ~nondet]])]

\* One item.  Identifiers are given to the items of successors in the order of the roles, and
\* the last one is next.
PseudoItem(gr, s) ==
  IF s.stack = <<>> THEN s
  ELSE LET item == Head(s.stack)
           nodes == {gr.nodes[item.nodes[i].node] : i \in DOMAIN item.nodes}
           concepts == \A n \in nodes : ~n.blocked /\ ~n.cached
           links == /\ concepts /\ \A n \in nodes : ~n.nominal
                    /\ item.distance <= MaxPseudoDepth /\ Cardinality(DOMAIN s.models) < MaxPseudoNodes
           roles == {r \in SimpleRoles : links /\ \E n \in nodes : \E e \in ToSet(n.roles) : e.role = r}
           id(r) == s.next + Cardinality({q \in roles : q < r})
           made == [r \in roles |-> PseudoRole(gr, item.nodes, r, id(r))]
           below(i) == LET r == CHOOSE q \in roles : id(q) = i
                       IN [id |-> i, distance |-> item.distance + 1, nodes |-> made[r].nodes]
           model == [validConcepts |-> concepts, validRoles |-> links,
                     concepts |-> IF concepts THEN PseudoConcepts(gr, item.nodes) ELSE <<>>,
                     roles |-> [r \in roles |-> made[r].entry]]
           next1 == s.next + Cardinality(roles)
       IN [stack |-> [i \in 1..Cardinality(roles) |-> below(next1 - i)] \o Tail(s.stack),
           next |-> next1,
           models |-> [i \in DOMAIN s.models \cup {item.id} |-> IF i = item.id THEN model ELSE s.models[i]]]

\* Each item is taken once; no more than MaxPseudoNodes of them add others.
PseudoItems == 1 + MaxPseudoNodes * Cardinality(SimpleRoles)
PseudoModel(gr) ==
  LET base == [id |-> 0, distance |-> 0, nodes |-> <<[node |-> TestedNode(gr), nondet |-> FALSE]>>]
      after[i \in 0..PseudoItems] ==
        IF i = 0 THEN [stack |-> <<base>>, next |-> 1, models |-> <<>>] ELSE PseudoItem(gr, after[i - 1])
  IN after[PseudoItems].models

PseudoModels == [gr \in Graphs |-> PseudoModel(gr)]

-----------------------------------------------------------------------------
(* analyseSatisfiableTask *)

\* Between two tasks nothing of the last one is used.
Graph0 == CHOOSE gr \in Graphs : TRUE
Mode0 == CHOOSE m \in Modes : TRUE
Lists0 == [x \in Named |-> NoList]

Init ==
  /\ map = [x \in Named |-> [made |-> FALSE, possible |-> {}]]
  /\ cache = <<>> /\ inbox = <<>> /\ tasks = 0 /\ pc = "idle"
  /\ g = Graph0 /\ mode = Mode0 /\ todo = {} /\ subs = {} /\ lists = Lists0 /\ out = <<>> /\ done = {}
  /\ queue = <<>> /\ seen = {} /\ at = None /\ next = None /\ single = None

Start(gr, m) ==
  /\ pc = "idle" /\ tasks < MaxTasks
  /\ tasks' = tasks + 1 /\ pc' = "root" /\ g' = gr /\ mode' = m
  /\ todo' = IF m.subsRoot \/ m.possRoot
             THEN DOMAIN gr.nodes[Corrected(gr, gr.constructed).node].label ELSE {}
  /\ UNCHANGED <<map, cache, inbox, subs, lists, out, done, queue, seen, at, next, single>>

\* One concept of the label of the tested node, in the order of the tags.
RootConcept ==
  /\ pc = "root" /\ todo # {}
  /\ \E i \in {j \in todo : \A k \in todo : Label(Root)[j].con <= Label(Root)[k].con} :
     LET e == Label(Root)[i]
         deterministic == e.dep # None /\ Branch(e) <= MaxDet(g)
         subsumer == mode.subsRoot /\ deterministic /\ ~e.neg /\ e.con \notin {g.con, Top}
     IN /\ todo' = todo \ {i}
        /\ IF e.con \in Named /\ subsumer
           THEN /\ subs' = subs \cup {[con |-> e.con, of |-> g.con]}
                /\ cache' = Inserted(cache, g.con, e.con, Chain(g, e.dep))
           ELSE UNCHANGED <<subs, cache>>
        /\ IF e.con \in Named /\ mode.possRoot /\ ~e.neg
           THEN ExtractPossible(e.con, Root, out)
           ELSE UNCHANGED <<map, lists, out>>
  /\ UNCHANGED <<inbox, tasks, pc, g, mode, done, queue, seen, at, next, single>>

\* The message about the tested concept, the chain of a clash, and the first other nodes.
RootDone ==
  /\ pc = "root" /\ todo = {}
  /\ IF mode.subsRoot \/ mode.possRoot
     THEN out' = Append(out, [kind |-> "subsumers", con |-> g.con, subs |-> subs]) /\ subs' = {}
     ELSE UNCHANGED <<out, subs>>
  /\ cache' = Inserted(cache, g.con, Bottom, FlattenSeq([i \in DOMAIN g.clash |-> Chain(g, g.clash[i])]))
  /\ queue' = IF mode.subsOther \/ mode.possOther
              THEN Without(g.nodes[Root].succ, {0}) ELSE <<>>
  /\ seen' = {0} \cup ToSet(queue')  \* the tested node is entered as 0, whatever its number
  /\ pc' = "others"
  /\ UNCHANGED <<map, inbox, tasks, g, mode, todo, lists, done, at, next, single>>

Following(n, i) == IF i < Len(Label(n)) THEN i + 1 ELSE None

\* The next node, unless it is a nominal or blocked, and where in its label to begin.
TakeNode ==
  /\ pc = "others" /\ queue # <<>>
  /\ LET n == Head(queue)
         first == IF mode.multiple THEN Following(n, 1) ELSE 1
     IN IF g.nodes[n].nominal \/ g.nodes[n].blocked
        THEN queue' = Tail(queue) /\ UNCHANGED <<pc, at, next, single>>
        ELSE /\ single' = IF first # None \/ mode.single THEN SingleAncestor(g, n) ELSE None
             /\ at' = IF single' = None THEN first ELSE IF mode.multiple THEN 1 ELSE None
             /\ next' = first /\ pc' = "node" /\ UNCHANGED queue
  /\ UNCHANGED <<map, cache, inbox, tasks, g, mode, todo, subs, lists, out, done, seen>>

\* The subsumers of the concept at position i: what holds by the same choices.  Something
\* named that holds by fewer choices ends the search.
BranchError(n, e) == {f.con : f \in {h \in ToSet(Label(n)) : h.con \in Named /\ h.dep # None /\ Branch(h) < Branch(e)}}
Alongside(n, e) ==
  {[con |-> f.con, of |-> e.con] :
     f \in {h \in ToSet(Label(n)) : /\ h.con \in Named \ {Top, e.con} /\ ~h.neg
                                    /\ h.dep # None /\ Branch(h) = Branch(e)
                                    /\ \A c \in BranchError(n, e) : h.con < c}}

\* One concept of such a node.  Whether the classifier still wants to know about it is up to
\* the classifier.  After an error what was collected stays in the list.
NodeConcept ==
  /\ pc = "node" /\ at # None
  /\ LET n == Head(queue)
         e == Label(n)[at]
         scan == mode.subsOther /\ at = single
         found == subs \cup IF scan THEN Alongside(n, e) ELSE {}
         tell == found # {} /\ ~(scan /\ BranchError(n, e) # {})
         msgs == IF tell THEN Append(out, [kind |-> "subsumers", con |-> e.con, subs |-> found]) ELSE out
         skip == UNCHANGED <<map, lists, out, subs, done>>
     IN /\ IF e.con \in Linked \ ({g.con} \cup done) /\ ~e.neg /\ e.dep # None
           THEN \/ skip
                \/ /\ done' = done \cup {e.con}
                   /\ subs' = IF tell THEN {} ELSE found
                   /\ IF mode.possOther
                      THEN ExtractPossible(e.con, n, msgs)
                      ELSE out' = msgs /\ UNCHANGED <<map, lists>>
           ELSE skip
        /\ at' = IF ~mode.multiple THEN None ELSE IF at = next THEN Following(n, next) ELSE next
        /\ next' = IF at' = None THEN None ELSE Following(n, at')
  /\ UNCHANGED <<cache, inbox, tasks, pc, g, mode, todo, queue, seen, single>>

NodeDone ==
  /\ pc = "node" /\ at = None
  /\ LET more == Without(g.nodes[Head(queue)].succ, seen)
     IN queue' = Tail(queue) \o more /\ seen' = seen \cup ToSet(more)
  /\ pc' = "others"
  /\ UNCHANGED <<map, cache, inbox, tasks, g, mode, todo, subs, lists, out, done, at, next, single>>

\* The pseudo model, and tellClassificationMessage.  A message that says what is possible
\* holds the list itself, or none if that was empty when the message was made.
Tell ==
  /\ pc = "others" /\ queue = <<>>
  /\ LET sent == [i \in DOMAIN out |->
                   IF out[i].kind # "possible" THEN out[i]
                   ELSE [kind |-> "possible", con |-> out[i].con, list |-> out[i].list,
                         others |-> out[i].others,
                         valid |-> IF out[i].list THEN lists[out[i].con].valid ELSE {}]]
         pseudo == IF mode.pseudo /\ g.con \in Linked
                   THEN <<[kind |-> "pseudo", con |-> g.con, models |-> PseudoModels[g]]>> ELSE <<>>
     IN inbox' = IF out \o pseudo = <<>> THEN inbox ELSE Append(inbox, sent \o pseudo)
  /\ pc' = "idle" /\ g' = Graph0 /\ mode' = Mode0
  /\ subs' = {} /\ lists' = Lists0 /\ out' = <<>> /\ done' = {} /\ seen' = {} /\ single' = None
  /\ UNCHANGED <<map, cache, tasks, todo, queue, at, next>>

\* The classifier thread takes a batch.  A map is made of the first message about a concept;
\* a later one is dropped or narrows the map.
Receive ==
  /\ inbox # <<>>
  /\ LET said(x) == {m \in ToSet(Head(inbox)) : m.kind = "possible" /\ m.con = x}
         meant(m) == {IF p \in DOMAIN CandidateOf THEN CandidateOf[p] ELSE p : p \in m.valid} \cup m.others
     IN \E narrow \in BOOLEAN :
          map' = [x \in Named |->
                    IF said(x) = {} THEN map[x]
                    ELSE LET all == {meant(m) : m \in said(x)}
                             first == IF map[x].made THEN map[x].possible ELSE meant(CHOOSE m \in said(x) : TRUE)
                         IN [made |-> TRUE,
                             possible |-> {p \in first : narrow => \A s \in all : p \in s}]]
  /\ inbox' = Tail(inbox)
  /\ UNCHANGED <<cache, tasks, pc, local>>

Finished == pc = "idle" /\ tasks = MaxTasks /\ inbox = <<>> /\ UNCHANGED vars

Next == \/ \E gr \in Graphs, m \in Modes : Start(gr, m)
        \/ RootConcept \/ RootDone \/ TakeNode \/ NodeConcept \/ NodeDone \/ Tell \/ Receive
        \/ Finished

Spec == Init /\ [][Next]_vars
-----------------------------------------------------------------------------
(* What the graphs are: models of the ontology, with dependencies that are right *)

\* Dependencies are numbered in the order they are made in.
WellFormed(gr) ==
  /\ DOMAIN gr.deps = 1..Len(gr.deps) /\ Len(gr.deps) \in Nat
  /\ \A x \in DOMAIN gr.deps : LET dep == gr.deps[x]
                              IN /\ dep.con \in Nat /\ dep.branch \in Int
                                 /\ dep.prev \in 0..(x - 1) /\ dep.more \in Seq(1..(x - 1))
  /\ gr.con \in Nat /\ TestedNode(gr) \in DOMAIN gr.nodes
  /\ \A n \in DOMAIN gr.nodes :
       /\ gr.nodes[n].label \in Seq([con : Nat, neg : BOOLEAN, dep : {None} \cup DOMAIN gr.deps])
       /\ gr.nodes[n].succ \in Seq(DOMAIN gr.nodes \cup {0})
       /\ gr.nodes[n].roles \in Seq([role : Nat, to : DOMAIN gr.nodes, dep : {None} \cup DOMAIN gr.deps])
       /\ gr.nodes[n].blocked \in BOOLEAN

Present(gr, n) == {e.con : e \in {f \in ToSet(gr.nodes[n].label) : ~f.neg}}

\* The nodes whose labels are read.
Read(gr) == {TestedNode(gr)} \cup {n \in DOMAIN gr.nodes : ~gr.nodes[n].blocked}

\* The tested concept is in the label of the tested node.  A label holds the primitive
\* subsumers of what it holds.  An equivalence it may lack, but not its candidate concept.
LabelsAreModels ==
  \A gr \in Graphs : (gr.con \in Linked => gr.con \in Present(gr, TestedNode(gr))) /\ \A n \in Read(gr) :
    /\ gr.nodes[n].label # <<>>
    /\ \A x \in Present(gr, n) \cap Named : Subsumers[x] \ Equivalent \subseteq Present(gr, n)
    /\ \A k \in DOMAIN CandidateOf, x \in Present(gr, n) \cap Named :
         CandidateOf[k] \in {x} \cup Subsumers[x] => k \in Present(gr, n)

\* What holds in the tested node without a choice is entailed.
RootDependencies ==
  \A gr \in Graphs :
    LET root == Corrected(gr, gr.constructed)
        limit == IF root.nondet THEN 0 ELSE gr.maxDet
    IN \A e \in ToSet(gr.nodes[root.node].label) :
         (e.con \in Named /\ ~e.neg /\ e.dep # None /\ gr.deps[e.dep].branch <= limit)
           => e.con \in {Top, gr.con} \cup Subsumers[gr.con]

\* Where a single concept comes from an ancestor, what holds by the same choices follows
\* from it, unless something holds by fewer.
OtherDependencies ==
  \A gr \in Graphs : \A n \in DOMAIN gr.nodes :
    LET label == ToSet(gr.nodes[n].label)
        i == SingleAncestor(gr, n)
        from == gr.nodes[n].label[i]
        branch(e) == gr.deps[e.dep].branch
        named == {e \in label : e.con \in Named /\ e.dep # None}
    IN (i # None /\ from.con \in Named /\ ~from.neg /\ \A e \in named : branch(from) <= branch(e))
         => \A e \in named : (~e.neg /\ branch(e) = branch(from))
                               => e.con \in {Top, from.con} \cup Subsumers[from.con]

\* A node that is expanded has as many links as the number restrictions of its label ask for,
\* and no more than the unqualified ones admit.
RestrictionsHold ==
  \A gr \in Graphs :
    \A n \in {k \in DOMAIN gr.nodes : LET x == gr.nodes[k] IN ~x.blocked /\ ~x.cached /\ ~x.nominal} :
      \A e \in {f \in ToSet(gr.nodes[n].label) : f.con \in DOMAIN Cardinalities} :
        LET links == Len(Links(gr, n, Cardinalities[e.con].role))
        IN IF AtLeast(e) THEN Number(e) <= links
           ELSE Cardinalities[e.con].qualified \/ links <= Number(e)

\* What the merging test must not do: rule out an equivalence that follows from a concept the
\* node holds.
MergingKeepsSubsumers ==
  \A gr \in Graphs : \A n \in Read(gr) :
    \A x \in Present(gr, n) \cap Named : Subsumers[x] \cap Equivalent \subseteq gr.nodes[n].mergeable

ASSUME GraphsAssumption ==
  /\ Graphs # {} /\ \A gr \in Graphs : WellFormed(gr)
  /\ LabelsAreModels /\ RootDependencies /\ OtherDependencies /\ RestrictionsHold
ASSUME ConceptsAssumption ==
  /\ Named \subseteq Nat /\ Equivalent \subseteq Named /\ NonCandidates \subseteq Equivalent
  /\ DOMAIN CandidateOf \subseteq Nat \ Named
  /\ {CandidateOf[k] : k \in DOMAIN CandidateOf} = Equivalent \ NonCandidates
  /\ Subsumers \in [Named -> SUBSET (Named \ {Top})] /\ \A x \in Named : x \notin Subsumers[x]
ASSUME RolesAssumption ==
  /\ SimpleRoles \subseteq Nat /\ IsFiniteSet(SimpleRoles)
  /\ Cardinalities \in [DOMAIN Cardinalities -> [role : Nat, least : BOOLEAN, n : Nat, qualified : BOOLEAN]]
ASSUME LimitsAssumption == {MaxWalk, MaxTasks, MaxPseudoDepth, MaxPseudoNodes} \subseteq Nat
ASSUME ModesAssumption ==
  Modes # {} /\ Modes \subseteq [{"subsRoot", "possRoot", "subsOther", "possOther", "pseudo", "single", "multiple"} -> BOOLEAN]

-----------------------------------------------------------------------------
(* Properties *)

\* Whatever the tasks find, and in whatever order the classifier takes it: a possible
\* subsumer that is a subsumer is never dropped, so the classifier misses no subsumption.
SubsumersStayPossible == \A x \in Named : map[x].made => Subsumers[x] \subseteq map[x].possible

Sent == ToSet(out) \cup UNION {ToSet(inbox[i]) : i \in DOMAIN inbox}

\* A pseudo model is one.  If the map of its base is valid, a primitive subsumer is in it and
\* what it calls deterministic is a subsumer; the bounds are in order, save those a negated
\* qualified at-least gives; and each successor item is there, made for one role only.
PseudoModelHolds(con, models) ==
  /\ models[0].validConcepts =>
       LET base == models[0].concepts
       IN /\ Subsumers[con] \ Equivalent \subseteq DOMAIN base
          /\ {c \in Named \cap DOMAIN base : base[c]} \subseteq {con} \cup Subsumers[con]
  /\ \A i \in DOMAIN models : \A r \in DOMAIN models[i].roles :
       LET e == models[i].roles[r]
       IN /\ e.lowerAtLeast <= e.upperAtLeast
          /\ \A m \in e.upperAtMost : e.lowerAtMost <= m \/ \E c \in DOMAIN Cardinalities : Cardinalities[c].qualified
          /\ e.model \in DOMAIN models /\ models[i].validConcepts
          /\ \A j \in DOMAIN models : \A q \in DOMAIN models[j].roles :
               models[j].roles[q].model = e.model => i = j /\ q = r

\* A concept reported as subsumer of the concept it was collected for is one, in the tested
\* node and in the others.  (After a branching error the list also holds concepts collected
\* for another one.)  And what a pseudo model tells of the tested concept is so.
ReportedSubsumersHold ==
  /\ \A m \in {s \in Sent : s.kind = "subsumers"} :
       \A s \in m.subs : s.of = m.con => s.con \in Subsumers[m.con]
  /\ \A m \in {s \in Sent : s.kind = "pseudo"} : PseudoModelHolds(m.con, m.models)

\* The concepts a dependency rests on, and how many visits a walk through all of it takes.
RestsOn(gr) ==
  LET of[x \in DOMAIN gr.deps] ==
        ({gr.deps[x].con} \ {None}) \cup UNION {of[y] : y \in ToSet(Before(gr.deps[x]))}
  IN of

Sums(v, s) ==
  LET sum[i \in 0..Len(s)] == IF i = 0 THEN 0 ELSE sum[i - 1] + v[s[i]]
  IN sum
Total(v, s) == Sums(v, s)[Len(s)]
Visits(gr) ==
  LET of[x \in DOMAIN gr.deps] == 1 + Total(of, Before(gr.deps[x]))
  IN of

\* A chain that may be read as the justification of a subsumption names every concept the
\* subsumption was derived from, however the derivation branches, unless the walk was cut.
ChainsComplete ==
  \A p \in DOMAIN cache : p[2] # Bottom =>
    \E gr \in Graphs : \E e \in ToSet(gr.nodes[Corrected(gr, gr.constructed).node].label) :
      /\ gr.con = p[1] /\ e.con = p[2] /\ e.dep # None
      /\ ToSet(cache[p]) \subseteq RestsOn(gr)[e.dep]
      /\ Visits(gr)[e.dep] <= MaxWalk => RestsOn(gr)[e.dep] \subseteq ToSet(cache[p])
=============================================================================
