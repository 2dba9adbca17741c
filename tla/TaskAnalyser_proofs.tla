-------------------------- MODULE TaskAnalyser_proofs --------------------------
(***************************************************************************)
(* Theorems about the messages a task sends to the classifier, for every   *)
(* set of concepts, every completion graph that is a model and every       *)
(* order in which the classifier takes the messages.                       *)
(***************************************************************************)
EXTENDS TaskAnalyser, WellFoundedInduction, FiniteSetTheorems, TLAPS

-----------------------------------------------------------------------------
(* The inductive invariant *)

Listed     == [made : BOOLEAN, valid : SUBSET Nat]
Possible   == [made : BOOLEAN, possible : SUBSET Nat]
Collected  == [con : Nat, of : Nat]

\* Messages as they are made, and as they are sent.
PossibleMade   == [kind : {"possible"}, con : Named, list : BOOLEAN, others : SUBSET Nat]
PossibleSent   == [kind : {"possible"}, con : Named, list : BOOLEAN, others : SUBSET Nat, valid : SUBSET Nat]
SubsumersMade  == [kind : {"subsumers"}, con : Nat, subs : SUBSET Collected]
PrunedMade     == [kind : {"pruned"}, con : Named]
PseudoSent     == {[kind |-> "pseudo", con |-> gr.con, models |-> PseudoModels[gr]] : gr \in {h \in Graphs : h.con \in Linked}}
Made == PossibleMade \cup SubsumersMade \cup PrunedMade
Sends == PossibleSent \cup SubsumersMade \cup PrunedMade \cup PseudoSent

TypeInv ==
  /\ map \in [Named -> Possible] /\ lists \in [Named -> Listed]
  /\ out \in Seq(Made) /\ inbox \in Seq(Seq(Sends))
  /\ g \in Graphs /\ mode \in Modes /\ pc \in {"idle", "root", "others", "node"}
  /\ subs \subseteq Collected /\ done \subseteq Nat

\* Where the analysis is in the graph.
PlaceInv ==
  /\ todo \subseteq DOMAIN Label(Root)
  /\ queue \in Seq(DOMAIN g.nodes)
  /\ pc \in {"idle", "root"} => queue = <<>>
  /\ pc \in {"others", "node"} => 0 \in seen
  /\ pc # "root" => todo = {}
  /\ pc = "node" =>
       /\ queue # <<>> /\ Head(queue) \in Read(g)
       /\ at \in {None} \cup DOMAIN Label(Head(queue))
       /\ next \in {None} \cup DOMAIN Label(Head(queue))
       /\ single \in {None, SingleAncestor(g, Head(queue))}

\* The subsumers that must be kept: all of them, unless the merging test rules one out.
Due(x) == IF MergingKeepsSubsumers THEN Subsumers[x] ELSE {}

\* A list with which the classifier loses no subsumer of x: it lacks no subsumer but the
\* equivalences, and no candidate of one.
Keeps(x, valid) ==
  /\ Due(x) \ Equivalent \subseteq valid
  /\ \A k \in DOMAIN CandidateOf : CandidateOf[k] \in Due(x) => k \in valid

\* A message made with no list keeps the subsumers without one.
KeepsOthers(m) ==
  m.kind = "possible" => Due(m.con) \cap NonCandidates \subseteq m.others /\ (~m.list => Keeps(m.con, {}))

Announced(x) == \E i \in DOMAIN out : out[i].kind = "possible" /\ out[i].con = x

\* Lists and messages keep subsumers, and so does the map the classifier makes of them.
MapInv    == \A x \in Named : map[x].made => Due(x) \subseteq map[x].possible
ListInv   == \A x \in Named : lists[x].made \/ Announced(x) => Keeps(x, lists[x].valid)
OutInv    == \A i \in DOMAIN out : KeepsOthers(out[i])
InboxInv  ==
  \A i \in DOMAIN inbox : \A j \in DOMAIN inbox[i] :
    LET m == inbox[i][j] IN KeepsOthers(m) /\ (m.kind = "possible" => Keeps(m.con, m.valid))
KeptInv == MapInv /\ ListInv /\ OutInv /\ InboxInv

\* What is collected is a subsumer of the concept it was collected for, as long as that one
\* can still be reported.
SubsInv ==
  /\ pc = "idle" => subs = {} /\ done = {}
  /\ pc = "root" => done = {} /\ \A s \in subs : s.of = g.con /\ s.con \in Subsumers[g.con]
  /\ pc = "root" /\ ~mode.subsRoot => subs = {}
  /\ pc \in {"others", "node"} => \A s \in subs : s.of \in done
Holds(m) == m.kind = "subsumers" => \A s \in m.subs : s.of = m.con => s.con \in Subsumers[m.con]
ReportInv ==
  /\ \A i \in DOMAIN out : Holds(out[i])
  /\ \A i \in DOMAIN inbox : \A j \in DOMAIN inbox[i] : Holds(inbox[i][j])

\* A chain was recorded for a concept of the tested node.
ChainInv ==
  \A p \in DOMAIN cache : p[2] # Bottom =>
    \E gr \in Graphs : \E e \in ToSet(gr.nodes[TestedNode(gr)].label) :
      gr.con = p[1] /\ e.con = p[2] /\ e.dep # None /\ cache[p] = Chain(gr, e.dep)

IInv == TypeInv /\ PlaceInv /\ KeptInv /\ SubsInv /\ ReportInv /\ ChainInv

-----------------------------------------------------------------------------
(* Numbers and recursion *)

\* A set of numbers that holds zero and the successor of each member holds all.
LEMMA SetInduction ==
  ASSUME NEW P \in SUBSET Nat, 0 \in P, \A n \in P : n + 1 \in P
  PROVE  P = Nat
<1>1. SUFFICES ASSUME Nat \ P # {} PROVE FALSE
  OBVIOUS
<1> DEFINE R == {p \in Nat \X Nat : p[1] < p[2]}
<1>2. IsWellFoundedOn(R, Nat)
  BY NatLessThanWellFounded DEF OpToRel
<1>3. PICK n \in Nat \ P : \A m \in Nat \ P : ~(<<m, n>> \in R)
  BY <1>1, <1>2, WFMin
<1>4. n # 0 /\ n - 1 \in Nat /\ n - 1 < n
  OBVIOUS
<1>5. <<n - 1, n>> \in R
  BY <1>4
<1>6. n - 1 \in P
  BY <1>3, <1>4, <1>5
<1> QED  BY <1>4, <1>6

Computed(f, V, v0, n, G) ==
  f \in [0..n -> V] /\ f[0] = v0 /\ \A i \in 1..n : f[i] = G[i][f[i - 1]]

\* Values computed one after the other, each from its number and the one before.
LEMMA Recursion ==
  ASSUME NEW V, NEW v0 \in V, NEW n \in Nat, NEW G \in [1..n -> [V -> V]]
  PROVE  \E f : Computed(f, V, v0, n, G)
<1> DEFINE Upto(k) == \E f \in [0..k -> V] : f[0] = v0 /\ \A i \in 1..k : f[i] = G[i][f[i - 1]]
           P == {k \in Nat : k <= n => Upto(k)}
<1>1. 0 \in P
  <2>1. [i \in 0..0 |-> v0] \in [0..0 -> V]
    OBVIOUS
  <2>2. [i \in 0..0 |-> v0][0] = v0
    OBVIOUS
  <2>3. \A i \in 1..0 : FALSE
    OBVIOUS
  <2>4. Upto(0)
    BY <2>1, <2>2, <2>3, Zenon
  <2> HIDE DEF Upto
  <2> QED  BY <2>4
<1>2. ASSUME NEW k \in P PROVE k + 1 \in P
  <2> SUFFICES ASSUME k + 1 <= n PROVE Upto(k + 1)
    <3> HIDE DEF Upto
    <3> QED  OBVIOUS
  <2>2. k \in Nat /\ Upto(k)
    <3> HIDE DEF Upto
    <3> QED  OBVIOUS
  <2>3. PICK f \in [0..k -> V] : f[0] = v0 /\ \A i \in 1..k : f[i] = G[i][f[i - 1]]
    BY <2>2
  <2> DEFINE h == [i \in 0..(k + 1) |-> IF i <= k THEN f[i] ELSE G[k + 1][f[k]]]
  <2>4. G[k + 1][f[k]] \in V
    BY <2>2, <2>3
  <2>5. h \in [0..(k + 1) -> V]
    BY <2>2, <2>3, <2>4
  <2>6. h[0] = v0
    BY <2>2, <2>3
  <2>7. \A i \in 1..(k + 1) : h[i] = G[i][h[i - 1]]
    BY <2>2, <2>3
  <2> HIDE DEF h
  <2> QED  BY <2>5, <2>6, <2>7, Zenon
<1>3. P = Nat
  BY <1>1, <1>2, SetInduction
<1>4. n \in P
  BY <1>3
<1>5. Upto(n)
  <2> HIDE DEF Upto
  <2> QED  BY <1>4
<1> QED  BY <1>5 DEF Computed

\* What is left of a sequence without the elements of a set: something, unless all are in it.
LEMMA WithoutElements ==
  ASSUME NEW S, NEW succ \in Seq(S), NEW met
  PROVE  /\ Without(succ, met) \in Seq(S \ met)
         /\ (\E i \in DOMAIN succ : succ[i] \notin met) => Without(succ, met) # <<>>
<1> DEFINE V == Seq(S \ met)
           n == Len(succ)
           G == [i \in 1..n |-> [v \in V |-> IF succ[i] \in met THEN v ELSE Append(v, succ[i])]]
           F(f) == [i \in 0..n |-> IF i = 0 THEN <<>> ELSE IF succ[i] \in met THEN f[i - 1] ELSE Append(f[i - 1], succ[i])]
<1>1. <<>> \in V /\ n \in Nat /\ \A i \in 1..n : succ[i] \in S
  OBVIOUS
<1>2. ASSUME NEW v \in V, NEW i \in 1..n PROVE (IF succ[i] \in met THEN v ELSE Append(v, succ[i])) \in V
  <2>1. CASE succ[i] \in met
    BY <2>1
  <2>2. CASE succ[i] \notin met
    <3>1. succ[i] \in S \ met
      BY <1>1, <2>2
    <3> QED BY <2>2, <3>1
  <2> QED BY <2>1, <2>2
<1>3. G \in [1..n -> [V -> V]]
  BY <1>2
<1>4. PICK f : Computed(f, V, <<>>, n, G)
  <2> HIDE DEF G, V, n
  <2> QED BY <1>1, <1>3, Recursion, Zenon
<1>5. f \in [0..n -> V] /\ f[0] = <<>> /\ \A i \in 1..n : f[i] = G[i][f[i - 1]]
  <2> HIDE DEF G, V, n
  <2> QED BY <1>4 DEF Computed
<1>6. \A i \in 1..n : f[i] = IF succ[i] \in met THEN f[i - 1] ELSE Append(f[i - 1], succ[i])
  <2> SUFFICES ASSUME NEW i \in 1..n
               PROVE  f[i] = IF succ[i] \in met THEN f[i - 1] ELSE Append(f[i - 1], succ[i])
    OBVIOUS
  <2>1. i - 1 \in 0..n
    BY <1>1
  <2>2. f[i - 1] \in V
    <3> HIDE DEF V, n
    <3> QED BY <1>5, <2>1
  <2>3. G[i][f[i - 1]] = IF succ[i] \in met THEN f[i - 1] ELSE Append(f[i - 1], succ[i])
    <3> HIDE DEF V, n
    <3> QED BY <2>2
  <2> QED BY <1>5, <2>3
<1>7. f = F(f)
  <2>1. ASSUME NEW i \in 0..n
        PROVE  f[i] = IF i = 0 THEN <<>> ELSE IF succ[i] \in met THEN f[i - 1] ELSE Append(f[i - 1], succ[i])
    <3>1. CASE i = 0
      BY <1>5, <3>1
    <3>2. CASE i \in 1..n
      BY <1>6, <3>2
    <3> QED BY <1>1, <3>1, <3>2
  <2> HIDE DEF V, n
  <2>2. f = [i \in 0..n |-> f[i]]
    BY <1>5
  <2> QED BY <2>1, <2>2, Zenon
<1>8. PICK h : h = F(h) /\ Without(succ, met) = h[n]
  <2> DEFINE h == CHOOSE first : first = F(first)
  <2>1. h = F(h)
    <3> HIDE DEF F
    <3> QED BY <1>7
  <2>2. Without(succ, met) = h[n]
    BY DEF Without
  <2> HIDE DEF h, F
  <2> QED BY <2>1, <2>2
<1> DEFINE P == {i \in Nat : i <= n => h[i] \in V /\ (h[i] = <<>> => \A j \in 1..i : succ[j] \in met)}
<1>9. 0 \in P
  <2>1. h[0] = <<>>
    BY <1>1, <1>8
  <2>2. \A j \in 1..0 : FALSE
    OBVIOUS
  <2>3. h[0] \in V
    <3> HIDE DEF V
    <3> QED BY <1>1, <2>1
  <2> HIDE DEF V
  <2> QED BY <2>2, <2>3
<1>10. ASSUME NEW i \in P PROVE i + 1 \in P
  <2> SUFFICES ASSUME i + 1 <= n
               PROVE  h[i + 1] \in V /\ (h[i + 1] = <<>> => \A j \in 1..(i + 1) : succ[j] \in met)
    OBVIOUS
  <2>1. i \in Nat /\ h[i] \in V /\ i + 1 \in 1..n /\ (h[i] = <<>> => \A j \in 1..i : succ[j] \in met)
    BY <1>1
  <2>2. h[i + 1] = IF succ[i + 1] \in met THEN h[i] ELSE Append(h[i], succ[i + 1])
    <3>1. i + 1 \in 0..n /\ i + 1 # 0 /\ (i + 1) - 1 = i
      BY <1>1, <2>1
    <3>2. F(h)[i + 1] = IF succ[i + 1] \in met THEN h[(i + 1) - 1] ELSE Append(h[(i + 1) - 1], succ[i + 1])
      <4> HIDE DEF n
      <4> QED BY <3>1
    <3> HIDE DEF F
    <3> QED BY <1>8, <3>1, <3>2
  <2>3. ASSUME h[i + 1] = <<>> PROVE succ[i + 1] \in met /\ h[i] = <<>>
    <3>1. Append(h[i], succ[i + 1]) # <<>>
      BY <2>1
    <3> QED BY <2>2, <2>3, <3>1
  <2>4. \A j \in 1..(i + 1) : j \in 1..i \/ j = i + 1
    BY <2>1
  <2>5. h[i + 1] = <<>> => \A j \in 1..(i + 1) : succ[j] \in met
    BY <2>1, <2>3, <2>4
  <2>6. h[i + 1] \in V
    <3> HIDE DEF V
    <3> QED BY <1>2, <2>1, <2>2
  <2> QED BY <2>5, <2>6
<1>11. n \in P
  BY <1>1, <1>9, <1>10, SetInduction
<1>12. h[n] \in V /\ (h[n] = <<>> => \A j \in 1..n : succ[j] \in met)
  BY <1>11
<1>13. DOMAIN succ = 1..n
  OBVIOUS
<1> HIDE DEF n, V
<1> QED BY <1>8, <1>12, <1>13 DEF V

-----------------------------------------------------------------------------
(* Graphs, labels and lists *)

\* A label of a node that is read holds what LabelsAreModels says of it, and numbers only.
LEMMA LabelFacts ==
  ASSUME NEW gr \in Graphs, NEW n \in Read(gr)
  PROVE  /\ n \in DOMAIN gr.nodes /\ gr.nodes[n].label # <<>>
         /\ {e.con : e \in ToSet(gr.nodes[n].label)} \subseteq Nat
         /\ Present(gr, n) \subseteq {e.con : e \in ToSet(gr.nodes[n].label)}
         /\ \A x \in Present(gr, n) \cap Named :
              /\ Subsumers[x] \ Equivalent \subseteq Present(gr, n)
              /\ \A k \in DOMAIN CandidateOf : CandidateOf[k] \in Subsumers[x] => k \in Present(gr, n)
<1>1. n \in DOMAIN gr.nodes
  BY GraphsAssumption DEF Read, WellFormed
<1>2. gr.nodes[n].label \in Seq([con : Nat, neg : BOOLEAN, dep : {None} \cup DOMAIN gr.deps])
  BY <1>1, GraphsAssumption DEF WellFormed
<1>3. \A e \in ToSet(gr.nodes[n].label) : e.con \in Nat
  <2> DEFINE E == [con : Nat, neg : BOOLEAN, dep : {None} \cup DOMAIN gr.deps]
             label == gr.nodes[n].label
  <2>1. \A e \in E : e.con \in Nat
    OBVIOUS
  <2> HIDE DEF E, label
  <2>2. label \in Seq(E)
    BY <1>2 DEF E, label
  <2>3. \A e \in ToSet(label) : e \in E
    BY <2>2 DEF ToSet
  <2> QED BY <2>1, <2>3 DEF label
<1>4. Present(gr, n) \subseteq {e.con : e \in ToSet(gr.nodes[n].label)}
  BY DEF Present
<1> QED BY <1>1, <1>3, <1>4, GraphsAssumption DEF LabelsAreModels

\* What must be kept are subsumers, which the merging test does not rule out.
LEMMA DueFacts ==
  ASSUME NEW x \in Named
  PROVE  /\ Due(x) \subseteq Subsumers[x] /\ Due(x) \subseteq Named \ {Top, x}
         /\ \A gr \in Graphs : \A n \in Read(gr) :
              x \in Present(gr, n) => Due(x) \cap Equivalent \subseteq gr.nodes[n].mergeable
<1>1. Subsumers[x] \subseteq Named \ {Top, x}
  BY ConceptsAssumption
<1>2. CASE MergingKeepsSubsumers
  <2>1. Due(x) = Subsumers[x]
    BY <1>2 DEF Due
  <2> QED BY <1>1, <1>2, <2>1 DEF MergingKeepsSubsumers
<1>3. CASE ~MergingKeepsSubsumers
  BY <1>3 DEF Due
<1> QED BY <1>2, <1>3

\* The list made at a node keeps what it must.
LEMMA CreatedKeeps ==
  ASSUME g \in Graphs, NEW n \in Read(g), NEW x \in Present(g, n) \cap Named
  PROVE  /\ CreatedList(x, n) \in Listed /\ Keeps(x, CreatedList(x, n).valid)
         /\ Due(x) \cap NonCandidates \subseteq g.nodes[n].mergeable \cap NonCandidates
<1> DEFINE named == {e.con : e \in {f \in ToSet(Label(n)) : ~f.neg /\ f.con \in Named \ {Top, x}}}
           candidates == {c \in Occurring(n) \cap DOMAIN CandidateOf : CandidateOf[c] \in g.nodes[n].mergeable}
<1>1. CreatedList(x, n) = [made |-> named \cup candidates # {}, valid |-> named \cup candidates]
  BY DEF CreatedList
<1>2. named = Present(g, n) \cap (Named \ {Top, x})
  BY DEF Present, Label
<1>3. Present(g, n) \subseteq Occurring(n) /\ Occurring(n) \subseteq Nat
  BY LabelFacts DEF Occurring, Label
<1>4. Due(x) \cap Equivalent \subseteq g.nodes[n].mergeable
  BY DueFacts
<1>5. Due(x) \subseteq Subsumers[x] /\ Due(x) \subseteq Named \ {Top, x}
  BY DueFacts
<1>6. \A k \in DOMAIN CandidateOf : CandidateOf[k] \in Equivalent
  BY ConceptsAssumption
<1>7. Due(x) \ Equivalent \subseteq named
  BY <1>2, <1>5, LabelFacts
<1>8. \A k \in DOMAIN CandidateOf : CandidateOf[k] \in Due(x) => k \in candidates
  BY <1>3, <1>4, <1>5, <1>6, LabelFacts
<1>9. named \subseteq Nat /\ candidates \subseteq Nat
  BY <1>2, <1>3
<1>10. NonCandidates \subseteq Equivalent
  BY ConceptsAssumption
<1> HIDE DEF named, candidates
<1> QED BY <1>1, <1>4, <1>7, <1>8, <1>9, <1>10 DEF Keeps, Listed

\* What another label with the concept lacks may go from its list, and from its map save the
\* equivalences.
LEMMA PrunedKeeps ==
  ASSUME g \in Graphs, NEW n \in Read(g), NEW x \in Present(g, n) \cap Named
  PROVE  /\ \A l \in Listed : /\ PrunedList(l, n) \in Listed
                              /\ Keeps(x, l.valid) => Keeps(x, PrunedList(l, n).valid)
         /\ map \in [Named -> Possible] =>
              /\ PrunedMap(x, n) \subseteq Nat
              /\ Due(x) \subseteq map[x].possible => Due(x) \subseteq PrunedMap(x, n)
<1>1. Present(g, n) \subseteq Occurring(n) /\ Occurring(n) \subseteq Nat
  BY LabelFacts DEF Occurring, Label
<1>2. /\ Due(x) \ Equivalent \subseteq Occurring(n)
      /\ \A k \in DOMAIN CandidateOf : CandidateOf[k] \in Due(x) => k \in Occurring(n)
  BY <1>1, LabelFacts, DueFacts
<1>3. ASSUME NEW l \in Listed
      PROVE  /\ PrunedList(l, n) \in Listed
             /\ Keeps(x, l.valid) => Keeps(x, PrunedList(l, n).valid)
  BY <1>1, <1>2 DEF Listed, PrunedList, Keeps
<1>4. ASSUME map \in [Named -> Possible]
      PROVE  /\ PrunedMap(x, n) \subseteq Nat
             /\ Due(x) \subseteq map[x].possible => Due(x) \subseteq PrunedMap(x, n)
  <2>1. map[x].possible \subseteq Nat
    BY <1>4 DEF Possible
  <2> QED BY <2>1, <1>2 DEF PrunedMap
<1> QED BY <1>3, <1>4
\* An element of an extended sequence is the new one or an old one.
LEMMA Appended ==
  ASSUME NEW S, NEW s \in Seq(S), NEW m \in S
  PROVE  /\ Append(s, m) \in Seq(S)
         /\ \A i \in DOMAIN Append(s, m) : Append(s, m)[i] = m \/ (i \in DOMAIN s /\ Append(s, m)[i] = s[i])
OBVIOUS

\* Whatever extractPossibleSubsumptionInformation does with a concept of a label that is read,
\* maps, lists and messages keep the subsumers.
LEMMA Extracting ==
  ASSUME TypeInv, KeptInv,
         NEW n \in Read(g), NEW x \in Present(g, n) \cap Named, NEW msgs \in Seq(Made),
         \A i \in DOMAIN msgs : KeepsOthers(msgs[i]) /\ (msgs[i].kind = "possible" => Announced(msgs[i].con)),
         ExtractPossible(x, n, msgs)
  PROVE  /\ map' \in [Named -> Possible] /\ lists' \in [Named -> Listed] /\ out' \in Seq(Made)
         /\ MapInv' /\ ListInv' /\ OutInv'
         /\ (\A i \in DOMAIN msgs : Holds(msgs[i])) => \A i \in DOMAIN out' : Holds(out'[i])
<1>0. /\ map \in [Named -> Possible] /\ lists \in [Named -> Listed] /\ g \in Graphs
      /\ \A y \in Named : map[y].made => Due(y) \subseteq map[y].possible
      /\ \A y \in Named : lists[y].made \/ Announced(y) => Keeps(y, lists[y].valid)
  BY DEF TypeInv, KeptInv, MapInv, ListInv
<1> DEFINE AnnouncedNow(y) == \E i \in DOMAIN out' : out'[i].kind = "possible" /\ out'[i].con = y
\* What a step must do, message by message and list by list.
<1>1. SUFFICES /\ map' \in [Named -> Possible] /\ lists' \in [Named -> Listed] /\ out' \in Seq(Made)
               /\ \A y \in Named : map'[y].made => Due(y) \subseteq map'[y].possible
               /\ \A y \in Named : lists'[y].made \/ AnnouncedNow(y) => Keeps(y, lists'[y].valid)
               /\ \A i \in DOMAIN out' : \/ i \in DOMAIN msgs /\ out'[i] = msgs[i]
                                         \/ KeepsOthers(out'[i]) /\ Holds(out'[i])
  BY DEF MapInv, ListInv, OutInv, Announced
<1>2. \A y \in Named : (\E i \in DOMAIN msgs : msgs[i].kind = "possible" /\ msgs[i].con = y) => Announced(y)
  OBVIOUS
<1>3. x \in Named /\ n \in DOMAIN g.nodes
  BY <1>0, LabelFacts
<1>4. CASE out' = msgs /\ UNCHANGED <<map, lists>>
  BY <1>0, <1>2, <1>4
<1>5. CASE x \in Linked /\ map[x].made /\ map' = [map EXCEPT ![x].possible = PrunedMap(x, n)] /\ UNCHANGED lists
  <2>1. PrunedMap(x, n) \subseteq Nat /\ Due(x) \subseteq PrunedMap(x, n)
    BY <1>0, <1>3, <1>5, PrunedKeeps
  <2>2. map' = [map EXCEPT ![x] = [made |-> TRUE, possible |-> PrunedMap(x, n)]]
    <3> DEFINE P == PrunedMap(x, n)
    <3> HIDE DEF P
    <3>1. map' = [map EXCEPT ![x].possible = P]
      BY <1>5 DEF P
    <3>2. map[x] \in Possible /\ map[x].made
      BY <1>0, <1>3, <1>5
    <3>3. [map[x] EXCEPT !.possible = P] = [made |-> TRUE, possible |-> P]
      <4>1. PICK b \in BOOLEAN, q \in SUBSET Nat : map[x] = [made |-> b, possible |-> q]
        BY <3>2 DEF Possible
      <4>2. b = TRUE
        BY <3>2, <4>1
      <4>3. map[x] = [made |-> TRUE, possible |-> q]
        BY <4>1, <4>2, Zenon
      <4>4. \A a : [[made |-> a, possible |-> q] EXCEPT !.possible = P] = [made |-> a, possible |-> P]
        OBVIOUS
      <4>5. [[made |-> TRUE, possible |-> q] EXCEPT !.possible = P] = [made |-> TRUE, possible |-> P]
        BY <4>4, Zenon
      <4> QED BY <4>3, <4>5, Zenon
    <3>4. map' = [map EXCEPT ![x] = [map[x] EXCEPT !.possible = P]]
      BY <3>1
    <3>5. map' = [map EXCEPT ![x] = [made |-> TRUE, possible |-> P]]
      BY <3>3, <3>4
    <3> QED BY <3>5 DEF P
  <2>3. /\ map' \in [Named -> Possible]
        /\ \A y \in Named : map'[y].made => Due(y) \subseteq map'[y].possible
    BY <1>0, <1>3, <2>1, <2>2 DEF Possible
  <2>4. CASE out' = msgs
    BY <1>0, <1>2, <1>5, <2>3, <2>4
  <2>5. CASE out' = Append(msgs, [kind |-> "pruned", con |-> x])
    <3> DEFINE m == [kind |-> "pruned", con |-> x]
    <3>1. m \in Made
      BY <1>3 DEF Made, PrunedMade
    <3>2. KeepsOthers(m) /\ Holds(m) /\ m.kind # "possible"
      BY DEF KeepsOthers, Holds
    <3> HIDE DEF m
    <3>3. /\ out' \in Seq(Made)
          /\ \A i \in DOMAIN out' : out'[i] = m \/ (i \in DOMAIN msgs /\ out'[i] = msgs[i])
      BY <2>5, <3>1, Appended DEF m
    <3>4. \A y \in Named : AnnouncedNow(y) => Announced(y)
      BY <1>2, <3>2, <3>3
    <3> QED BY <1>0, <1>5, <2>3, <3>2, <3>3, <3>4
  <2> QED BY <1>5, <2>4, <2>5 DEF ExtractPossible
<1>6. CASE x \in Linked /\ ~map[x].made /\ lists[x].made
  <2>1. lists' = [lists EXCEPT ![x] = PrunedList(@, n)] /\ out' = msgs /\ UNCHANGED map
    BY <1>6 DEF ExtractPossible
  <2>2. PrunedList(lists[x], n) \in Listed /\ Keeps(x, PrunedList(lists[x], n).valid)
    BY <1>0, <1>3, <1>6, PrunedKeeps
  <2>3. lists' = [lists EXCEPT ![x] = PrunedList(lists[x], n)]
    BY <2>1
  <2> QED BY <1>0, <1>2, <1>3, <2>1, <2>2, <2>3
<1>7. CASE x \in Linked /\ ~map[x].made /\ ~lists[x].made
  <2> DEFINE others == g.nodes[n].mergeable \cap NonCandidates
             made == CreatedList(x, n).made
             m == [kind |-> "possible", con |-> x, list |-> made, others |-> others]
  <2>1. lists' = [lists EXCEPT ![x] = CreatedList(x, n)] /\ out' = Append(msgs, m) /\ UNCHANGED map
    BY <1>7 DEF ExtractPossible
  <2>2. CreatedList(x, n) \in Listed /\ Keeps(x, CreatedList(x, n).valid) /\ Due(x) \cap NonCandidates \subseteq others
    BY <1>0, CreatedKeeps
  <2>3. others \subseteq Nat /\ made \in BOOLEAN
    BY <2>2, ConceptsAssumption DEF Listed
  <2>4. m \in Made
    BY <1>3, <2>3 DEF Made, PossibleMade
  <2>5. KeepsOthers(m) /\ Holds(m) /\ m.con = x
    <3>1. ~made => Keeps(x, {})
      <4>1. ~made => CreatedList(x, n).valid = {}
        BY DEF CreatedList
      <4> QED BY <2>2, <4>1
    <3> HIDE DEF made, others
    <3> QED BY <2>2, <3>1 DEF KeepsOthers, Holds
  <2> HIDE DEF m
  <2>6. /\ out' \in Seq(Made)
        /\ \A i \in DOMAIN out' : out'[i] = m \/ (i \in DOMAIN msgs /\ out'[i] = msgs[i])
    BY <2>1, <2>4, Appended
  <2>7. \A y \in Named : AnnouncedNow(y) => y = x \/ Announced(y)
    BY <1>2, <2>5, <2>6
  <2> QED BY <1>0, <1>3, <2>1, <2>2, <2>5, <2>6, <2>7
<1> QED BY <1>4, <1>5, <1>6, <1>7 DEF ExtractPossible

-----------------------------------------------------------------------------
(* Each step keeps the invariant *)

\* The tested node is read, and the entries of a label are entries.
LEMMA RootFacts ==
  ASSUME g \in Graphs
  PROVE  /\ Root \in Read(g) /\ Root \in DOMAIN g.nodes
         /\ \A n \in DOMAIN g.nodes :
              /\ Label(n) \in Seq([con : Nat, neg : BOOLEAN, dep : {None} \cup DOMAIN g.deps])
              /\ g.nodes[n].succ \in Seq(DOMAIN g.nodes \cup {0})
  BY GraphsAssumption DEF Root, Read, WellFormed, Label

\* There is a graph and a setting of the flags.
LEMMA Defaults == Graph0 \in Graphs /\ Mode0 \in Modes
  BY GraphsAssumption, ModesAssumption DEF Graph0, Mode0

\* The invariant holds initially.
LEMMA InitInv == ASSUME Init PROVE IInv
<1>1. TypeInv
  <2>1. [made |-> FALSE, possible |-> {}] \in Possible /\ NoList \in Listed
    BY DEF Possible, Listed, NoList
  <2>2. out \in Seq(Made) /\ inbox \in Seq(Seq(Sends))
    BY DEF Init
  <2> QED BY <2>1, <2>2, Defaults DEF Init, TypeInv, Lists0
<1>2. PlaceInv
  BY DEF Init, PlaceInv
<1>3. KeptInv
  BY DEF Init, KeptInv, MapInv, ListInv, OutInv, InboxInv, Announced, Lists0, NoList
<1>4. SubsInv /\ ReportInv /\ ChainInv
  BY DEF Init, SubsInv, ReportInv, ChainInv
<1> QED BY <1>1, <1>2, <1>3, <1>4 DEF IInv

\* A task begins with the label of its tested node.
LEMMA StartKeeps ==
  ASSUME IInv, NEW gr \in Graphs, NEW m \in Modes, Start(gr, m)
  PROVE  IInv'
<1> USE DEF IInv
<1>1. TypeInv'
  BY DEF TypeInv, Start
<1>2. PlaceInv'
  <2>1. todo' = IF m.subsRoot \/ m.possRoot THEN DOMAIN gr.nodes[TestedNode(gr)].label ELSE {}
    BY DEF Start, TestedNode
  <2>2. Label(Root)' = gr.nodes[TestedNode(gr)].label
    BY DEF Start, Label, Root
  <2>3. queue' = <<>> /\ pc' = "root"
    BY DEF Start, PlaceInv
  <2> QED BY <2>1, <2>2, <2>3 DEF PlaceInv
<1>3. KeptInv'
  BY DEF Start, KeptInv, MapInv, ListInv, OutInv, InboxInv, Announced
<1>4. SubsInv'
  BY DEF Start, SubsInv
<1>5. ReportInv' /\ ChainInv'
  BY DEF Start, ReportInv, ChainInv
<1> QED BY <1>1, <1>2, <1>3, <1>4, <1>5

\* A concept of the tested node that holds without a choice is a subsumer, and its chain is
\* recorded for it.
LEMMA RootConceptKeeps ==
  ASSUME IInv, RootConcept
  PROVE  IInv'
<1> USE DEF IInv
<1>0. g \in Graphs /\ pc = "root" /\ todo \subseteq DOMAIN Label(Root) /\ mode \in Modes /\ subs \subseteq Collected
      /\ UNCHANGED <<inbox, tasks, pc, g, mode, done, queue, seen, at, next, single>>
  BY DEF TypeInv, PlaceInv, RootConcept
<1>1. PICK i \in todo :
        LET e == Label(Root)[i]
            deterministic == e.dep # None /\ Branch(e) <= MaxDet(g)
            subsumer == mode.subsRoot /\ deterministic /\ ~e.neg /\ e.con \notin {g.con, Top}
        IN /\ todo' = todo \ {i}
           /\ IF e.con \in Named /\ subsumer
              THEN /\ subs' = subs \cup {[con |-> e.con, of |-> g.con]}
                   /\ cache' = Inserted(cache, g.con, e.con, Chain(g, e.dep))
              ELSE UNCHANGED <<subs, cache>>
           /\ IF e.con \in Named /\ mode.possRoot /\ ~e.neg
              THEN ExtractPossible(e.con, Root, out)
              ELSE UNCHANGED <<map, lists, out>>
  BY DEF RootConcept
<1> DEFINE e == Label(Root)[i]
<1>2. e \in ToSet(Label(Root)) /\ e \in [con : Nat, neg : BOOLEAN, dep : {None} \cup DOMAIN g.deps]
  <2> DEFINE E == [con : Nat, neg : BOOLEAN, dep : {None} \cup DOMAIN g.deps]
  <2> HIDE DEF E
  <2>1. Label(Root) \in Seq(E) /\ i \in DOMAIN Label(Root)
    BY <1>0, RootFacts DEF E
  <2>2. e \in ToSet(Label(Root)) /\ e \in E
    BY <2>1 DEF ToSet
  <2> QED BY <2>2 DEF E
<1>3. g.con \in Nat /\ e.con \in Nat
  BY <1>0, <1>2, GraphsAssumption DEF WellFormed
<1> HIDE DEF e
<1>4. PlaceInv'
  <2>1. Label(Root)' = Label(Root) /\ todo' \subseteq todo
    BY <1>0, <1>1 DEF Label, Root
  <2> QED BY <1>0, <2>1 DEF PlaceInv
<1>5. /\ map' \in [Named -> Possible] /\ lists' \in [Named -> Listed] /\ out' \in Seq(Made)
      /\ MapInv' /\ ListInv' /\ OutInv' /\ \A j \in DOMAIN out' : Holds(out'[j])
  <2>1. CASE UNCHANGED <<map, lists, out>>
    BY <2>1 DEF TypeInv, KeptInv, MapInv, ListInv, OutInv, Announced, ReportInv
  <2>2. CASE e.con \in Named /\ ~e.neg /\ ExtractPossible(e.con, Root, out)
    <3>1. e.con \in Present(g, Root) \cap Named
      BY <1>2, <2>2 DEF Present, Label
    <3>2. /\ Root \in Read(g) /\ out \in Seq(Made)
          /\ \A j \in DOMAIN out : KeepsOthers(out[j]) /\ (out[j].kind = "possible" => Announced(out[j].con))
      BY <1>0, RootFacts DEF TypeInv, KeptInv, OutInv, Announced
    <3>3. \A j \in DOMAIN out : Holds(out[j])
      BY DEF ReportInv
    <3> QED BY <2>2, <3>1, <3>2, <3>3, Extracting
  <2> QED BY <1>1, <2>1, <2>2 DEF e
<1>6. CASE UNCHANGED <<subs, cache>>
  <2>1. SubsInv' /\ ChainInv'
    BY <1>0, <1>6 DEF SubsInv, ChainInv
  <2>2. InboxInv' /\ ReportInv' /\ TypeInv'
    BY <1>0, <1>5, <1>6 DEF InboxInv, ReportInv, TypeInv, KeptInv
  <2> QED BY <1>4, <1>5, <2>1, <2>2 DEF KeptInv
<1>7. CASE /\ e.con \in Named /\ mode.subsRoot /\ e.dep # None /\ Branch(e) <= MaxDet(g)
           /\ ~e.neg /\ e.con \notin {g.con, Top}
           /\ subs' = subs \cup {[con |-> e.con, of |-> g.con]}
           /\ cache' = Inserted(cache, g.con, e.con, Chain(g, e.dep))
  <2>1. e.con \in Subsumers[g.con]
    BY <1>0, <1>2, <1>7, GraphsAssumption DEF RootDependencies, MaxDet, Branch, Root, TestedNode, Label
  <2>2. subs' \subseteq Collected
    BY <1>0, <1>3, <1>7 DEF Collected
  <2>3. SubsInv'
    BY <1>0, <1>7, <2>1 DEF SubsInv
  <2>4. ChainInv'
    <3> SUFFICES ASSUME NEW p \in DOMAIN cache', p[2] # Bottom
                 PROVE  \E gr \in Graphs : \E f \in ToSet(gr.nodes[TestedNode(gr)].label) :
                          gr.con = p[1] /\ f.con = p[2] /\ f.dep # None /\ cache'[p] = Chain(gr, f.dep)
      BY DEF ChainInv
    <3>1. CASE p \in DOMAIN cache /\ cache'[p] = cache[p]
      BY <3>1 DEF ChainInv
    <3>2. CASE p = <<g.con, e.con>> /\ cache'[p] = Chain(g, e.dep)
      BY <1>0, <1>2, <1>7, <3>2 DEF Label, Root
    <3> QED BY <1>7, <3>1, <3>2 DEF Inserted
  <2>5. InboxInv' /\ ReportInv' /\ TypeInv'
    BY <1>0, <1>5, <2>2 DEF InboxInv, ReportInv, TypeInv, KeptInv
  <2> QED BY <1>4, <1>5, <2>3, <2>4, <2>5 DEF KeptInv
<1> QED BY <1>1, <1>6, <1>7 DEF e

\* After the label of the tested node: its message, and the first other nodes.
LEMMA RootDoneKeeps ==
  ASSUME IInv, RootDone
  PROVE  IInv'
<1> USE DEF IInv
<1>0. /\ g \in Graphs /\ pc = "root" /\ todo = {} /\ pc' = "others" /\ subs \subseteq Collected
      /\ UNCHANGED <<map, inbox, tasks, g, mode, todo, lists, done, at, next, single>>
      /\ out \in Seq(Made)
  BY DEF TypeInv, RootDone
<1> DEFINE m == [kind |-> "subsumers", con |-> g.con, subs |-> subs]
<1>1. \/ out' = Append(out, m) /\ subs' = {} 
      \/ UNCHANGED <<out, subs>> /\ ~mode.subsRoot
  BY DEF RootDone
<1>2. m \in Made /\ KeepsOthers(m) /\ Holds(m) /\ m.kind # "possible"
  <2>1. g.con \in Nat
    BY <1>0, GraphsAssumption DEF WellFormed
  <2>2. \A s \in subs : s.of = g.con /\ s.con \in Subsumers[g.con]
    BY <1>0 DEF SubsInv
  <2> QED BY <1>0, <2>1, <2>2 DEF Made, SubsumersMade, KeepsOthers, Holds
<1> HIDE DEF m
<1>3. /\ out' \in Seq(Made) /\ subs' = {}
      /\ \A i \in DOMAIN out' : out'[i] = m \/ (i \in DOMAIN out /\ out'[i] = out[i])
  <2>1. CASE out' = Append(out, m) /\ subs' = {}
    BY <1>0, <1>2, <2>1, Appended
  <2>2. CASE UNCHANGED <<out, subs>> /\ ~mode.subsRoot
    BY <1>0, <2>2 DEF SubsInv
  <2> QED BY <1>1, <2>1, <2>2
<1>4. TypeInv'
  BY <1>0, <1>3 DEF TypeInv
<1>5. PlaceInv'
  <2>1. queue' \in Seq(DOMAIN g.nodes)
    <3>1. g.nodes[Root].succ \in Seq(DOMAIN g.nodes \cup {0})
      BY <1>0, RootFacts
    <3>2. Without(g.nodes[Root].succ, {0}) \in Seq((DOMAIN g.nodes \cup {0}) \ {0})
      BY <3>1, WithoutElements
    <3>3. \A q \in Seq((DOMAIN g.nodes \cup {0}) \ {0}) : q \in Seq(DOMAIN g.nodes)
      OBVIOUS
    <3>4. <<>> \in Seq(DOMAIN g.nodes)
      OBVIOUS
    <3>5. queue' = Without(g.nodes[Root].succ, {0}) \/ queue' = <<>>
      BY DEF RootDone
    <3> QED BY <3>2, <3>3, <3>4, <3>5
  <2>2. 0 \in seen'
    BY DEF RootDone
  <2>3. g' = g /\ todo' = {}
    BY <1>0
  <2> QED BY <1>0, <2>1, <2>2, <2>3 DEF PlaceInv, Label, Root
<1>6. KeptInv'
  <2>1. MapInv' /\ InboxInv'
    BY <1>0 DEF KeptInv, MapInv, InboxInv
  <2>2. OutInv'
    BY <1>2, <1>3 DEF KeptInv, OutInv
  <2>3. \A x : Announced(x)' => Announced(x)
    BY <1>2, <1>3 DEF Announced
  <2>4. ListInv'
    BY <1>0, <2>3 DEF KeptInv, ListInv
  <2> QED BY <2>1, <2>2, <2>4 DEF KeptInv
<1>7. SubsInv'
  BY <1>0, <1>3 DEF SubsInv
<1>8. ReportInv'
  BY <1>0, <1>2, <1>3 DEF ReportInv
<1>9. ChainInv'
  <2> SUFFICES ASSUME NEW p \in DOMAIN cache', p[2] # Bottom PROVE p \in DOMAIN cache /\ cache'[p] = cache[p]
    BY DEF ChainInv
  <2> QED BY DEF RootDone, Inserted
<1> QED BY <1>4, <1>5, <1>6, <1>7, <1>8, <1>9

\* The next node is read from the beginning of its label.
LEMMA TakeNodeKeeps ==
  ASSUME IInv, TakeNode
  PROVE  IInv'
<1> USE DEF IInv
<1>0. /\ g \in Graphs /\ pc = "others" /\ queue # <<>> /\ queue \in Seq(DOMAIN g.nodes)
      /\ UNCHANGED <<map, cache, inbox, tasks, g, mode, todo, subs, lists, out, done, seen>>
  BY DEF TypeInv, PlaceInv, TakeNode
<1> DEFINE n == Head(queue)
           first == IF mode.multiple THEN Following(n, 1) ELSE 1
<1>1. \/ (g.nodes[n].nominal \/ g.nodes[n].blocked) /\ queue' = Tail(queue) /\ UNCHANGED <<pc, at, next, single>>
      \/ /\ ~g.nodes[n].blocked
         /\ single' = IF first # None \/ mode.single THEN SingleAncestor(g, n) ELSE None
         /\ at' = IF single' = None THEN first ELSE IF mode.multiple THEN 1 ELSE None
         /\ next' = first /\ pc' = "node" /\ UNCHANGED queue
  BY DEF TakeNode
<1>2. n \in DOMAIN g.nodes /\ Tail(queue) \in Seq(DOMAIN g.nodes)
  BY <1>0
<1>3. pc' \in {"others", "node"}
  BY <1>0, <1>1
<1>4. PlaceInv'
  <2>1. Label(Root)' = Label(Root)
    BY <1>0 DEF Label, Root
  <2>2. CASE queue' = Tail(queue) /\ UNCHANGED <<pc, at, next, single>>
    BY <1>0, <1>2, <2>1, <2>2 DEF PlaceInv
  <2>3. CASE /\ ~g.nodes[n].blocked
             /\ single' = IF first # None \/ mode.single THEN SingleAncestor(g, n) ELSE None
             /\ at' = IF single' = None THEN first ELSE IF mode.multiple THEN 1 ELSE None
             /\ next' = first /\ pc' = "node" /\ UNCHANGED queue
    <3>1. n \in Read(g)
      BY <1>2, <2>3 DEF Read
    <3>2. Label(n) # <<>> /\ \E E : Label(n) \in Seq(E)
      BY <1>0, <3>1, LabelFacts, RootFacts DEF Label
    <3>3. 1 \in DOMAIN Label(n) /\ \A i \in DOMAIN Label(n) : Following(n, i) \in {None} \cup DOMAIN Label(n)
      BY <3>2 DEF Following
    <3>4. first \in {None} \cup DOMAIN Label(n)
      BY <3>3
    <3>5. Head(queue)' = n /\ Read(g)' = Read(g) /\ Label(Head(queue))' = Label(n)
          /\ SingleAncestor(g, Head(queue))' = SingleAncestor(g, n)
      BY <1>0, <2>3 DEF Label
    <3> HIDE DEF n, first
    <3>6. at' \in {None} \cup DOMAIN Label(n) /\ next' \in {None} \cup DOMAIN Label(n)
          /\ single' \in {None, SingleAncestor(g, n)}
      BY <2>3, <3>3, <3>4
    <3> QED BY <1>0, <2>1, <2>3, <3>1, <3>5, <3>6 DEF PlaceInv
  <2> QED BY <1>1, <2>2, <2>3
<1>5. TypeInv'
  BY <1>0, <1>3 DEF TypeInv
<1>6. KeptInv' /\ ReportInv' /\ ChainInv'
  BY <1>0 DEF KeptInv, MapInv, ListInv, OutInv, InboxInv, Announced, ReportInv, ChainInv
<1>7. SubsInv'
  BY <1>0, <1>3 DEF SubsInv
<1> QED BY <1>4, <1>5, <1>6, <1>7

\* Where the label of a node has been read its successors are next.
LEMMA NodeDoneKeeps ==
  ASSUME IInv, NodeDone
  PROVE  IInv'
<1> USE DEF IInv
<1>0. /\ g \in Graphs /\ pc = "node" /\ queue # <<>> /\ queue \in Seq(DOMAIN g.nodes) /\ pc' = "others"
      /\ 0 \in seen
      /\ UNCHANGED <<map, cache, inbox, tasks, g, mode, todo, subs, lists, out, done, at, next, single>>
  BY DEF TypeInv, PlaceInv, NodeDone
<1> DEFINE more == Without(g.nodes[Head(queue)].succ, seen)
<1>1. queue' = Tail(queue) \o more /\ seen' = seen \cup ToSet(more)
  BY DEF NodeDone
<1>2. more \in Seq(DOMAIN g.nodes)
  <2>1. g.nodes[Head(queue)].succ \in Seq(DOMAIN g.nodes \cup {0})
    BY <1>0, RootFacts
  <2>2. more \in Seq((DOMAIN g.nodes \cup {0}) \ seen)
    BY <2>1, WithoutElements
  <2>3. (DOMAIN g.nodes \cup {0}) \ seen \subseteq DOMAIN g.nodes
    BY <1>0
  <2>4. \A A, B : A \subseteq B => Seq(A) \subseteq Seq(B)
    OBVIOUS
  <2> HIDE DEF more
  <2> QED BY <2>2, <2>3, <2>4
<1> HIDE DEF more
<1>3. queue' \in Seq(DOMAIN g.nodes) /\ 0 \in seen'
  BY <1>0, <1>1, <1>2
<1>4. PlaceInv'
  BY <1>0, <1>3 DEF PlaceInv, Label, Root
<1>5. TypeInv'
  BY <1>0 DEF TypeInv
<1>6. KeptInv' /\ ReportInv' /\ ChainInv'
  BY <1>0 DEF KeptInv, MapInv, ListInv, OutInv, InboxInv, Announced, ReportInv, ChainInv
<1>7. SubsInv'
  BY <1>0 DEF SubsInv
<1> QED BY <1>4, <1>5, <1>6, <1>7

\* What holds by the choices of the single concept that comes from an ancestor follows from it.
LEMMA AlongsideHolds ==
  ASSUME g \in Graphs, NEW n \in DOMAIN g.nodes, NEW i \in DOMAIN Label(n), i # None, i = SingleAncestor(g, n),
         Label(n)[i].con \in Named, ~Label(n)[i].neg, Label(n)[i].dep # None,
         BranchError(n, Label(n)[i]) = {}
  PROVE  \A s \in Alongside(n, Label(n)[i]) : s.con \in Subsumers[Label(n)[i].con]
<1> DEFINE e == Label(n)[i]
           E == [con : Nat, neg : BOOLEAN, dep : {None} \cup DOMAIN g.deps]
<1> HIDE DEF E
<1>1. Label(n) \in Seq(E)
  BY RootFacts DEF E
<1>2. \A f \in ToSet(Label(n)) : f \in E
  BY <1>1 DEF ToSet
<1>3. \A f \in E : f.dep # None => Branch(f) \in Int
  BY GraphsAssumption DEF E, Branch, WellFormed
<1>4. e \in ToSet(Label(n))
  BY <1>1 DEF ToSet
<1>5. \A f \in ToSet(Label(n)) : f.con \in Named /\ f.dep # None => Branch(e) <= Branch(f)
  <2> SUFFICES ASSUME NEW f \in ToSet(Label(n)), f.con \in Named, f.dep # None PROVE Branch(e) <= Branch(f)
    OBVIOUS
  <2>1. ~(Branch(f) < Branch(e))
    BY DEF BranchError
  <2>2. Branch(f) \in Int /\ Branch(e) \in Int
    BY <1>2, <1>3, <1>4
  <2> QED BY <2>1, <2>2
<1>6. ASSUME NEW f \in ToSet(Label(n)), f.con \in Named \ {Top, e.con}, ~f.neg, f.dep # None, Branch(f) = Branch(e)
      PROVE  f.con \in Subsumers[e.con]
  <2>1. f.con \in {Top, e.con} \cup Subsumers[e.con]
    BY <1>4, <1>5, <1>6, GraphsAssumption DEF OtherDependencies, Branch, Label
  <2> QED BY <1>6, <2>1
<1> QED BY <1>6 DEF Alongside

\* A concept of another node: what was collected for it is sent, and what can be said of its
\* possible subsumers.
LEMMA NodeConceptKeeps ==
  ASSUME IInv, NodeConcept
  PROVE  IInv'
<1> USE DEF IInv
<1> DEFINE n == Head(queue)
           e == Label(n)[at]
           scan == mode.subsOther /\ at = single
           found == subs \cup IF scan THEN Alongside(n, e) ELSE {}
           tell == found # {} /\ ~(scan /\ BranchError(n, e) # {})
           m == [kind |-> "subsumers", con |-> e.con, subs |-> found]
           msgs == IF tell THEN Append(out, m) ELSE out
<1>0. /\ g \in Graphs /\ pc = "node" /\ at # None /\ queue # <<>> /\ queue \in Seq(DOMAIN g.nodes)
      /\ n \in Read(g) /\ n \in DOMAIN g.nodes /\ at \in DOMAIN Label(n) /\ next \in {None} \cup DOMAIN Label(n)
      /\ single \in {None, SingleAncestor(g, n)} /\ todo = {} /\ 0 \in seen
      /\ subs \subseteq Collected /\ done \subseteq Nat /\ out \in Seq(Made)
      /\ UNCHANGED <<cache, inbox, tasks, pc, g, mode, todo, queue, seen, single>>
  BY DEF TypeInv, PlaceInv, NodeConcept
<1>1. /\ \/ UNCHANGED <<map, lists, out, subs, done>>
         \/ /\ e.con \in Linked \ ({g.con} \cup done) /\ ~e.neg /\ e.dep # None
            /\ done' = done \cup {e.con}
            /\ subs' = IF tell THEN {} ELSE found
            /\ \/ ExtractPossible(e.con, n, msgs)
               \/ out' = msgs /\ UNCHANGED <<map, lists>>
      /\ at' = IF ~mode.multiple THEN None ELSE IF at = next THEN Following(n, next) ELSE next
      /\ next' = IF at' = None THEN None ELSE Following(n, at')
  BY DEF NodeConcept
<1>2. e \in ToSet(Label(n)) /\ e.con \in Nat
  <2> DEFINE E == [con : Nat, neg : BOOLEAN, dep : {None} \cup DOMAIN g.deps]
  <2>1. \A f \in E : f.con \in Nat
    OBVIOUS
  <2> HIDE DEF E
  <2>2. Label(n) \in Seq(E)
    BY <1>0, RootFacts DEF E
  <2>3. e \in ToSet(Label(n)) /\ e \in E
    BY <1>0, <2>2 DEF ToSet
  <2> QED BY <2>1, <2>3
<1>3. PlaceInv'
  <2>1. \A i \in DOMAIN Label(n) : Following(n, i) \in {None} \cup DOMAIN Label(n)
    <3>1. \E E : Label(n) \in Seq(E)
      BY <1>0, RootFacts
    <3> QED BY <3>1 DEF Following
  <2>2. /\ Head(queue)' = n /\ Read(g)' = Read(g) /\ Label(Head(queue))' = Label(n) /\ Label(Root)' = Label(Root)
        /\ SingleAncestor(g, Head(queue))' = SingleAncestor(g, n)
    BY <1>0 DEF Label, Root
  <2> HIDE DEF n, e, msgs
  <2>3. at' \in {None} \cup DOMAIN Label(n) /\ next' \in {None} \cup DOMAIN Label(n)
    BY <1>0, <1>1, <2>1
  <2> QED BY <1>0, <2>2, <2>3 DEF PlaceInv
<1>4. CASE UNCHANGED <<map, lists, out, subs, done>>
  BY <1>0, <1>3, <1>4 DEF TypeInv, KeptInv, MapInv, ListInv, OutInv, InboxInv, Announced,
                          SubsInv, ReportInv, ChainInv
<1>5. CASE /\ e.con \in Linked \ ({g.con} \cup done) /\ ~e.neg /\ e.dep # None
           /\ done' = done \cup {e.con}
           /\ subs' = IF tell THEN {} ELSE found
           /\ ExtractPossible(e.con, n, msgs) \/ (out' = msgs /\ UNCHANGED <<map, lists>>)
  <2>1. \A s \in subs : s.of \in done
    BY <1>0 DEF SubsInv
  <2>2. \A s \in Alongside(n, e) : s \in Collected /\ s.of = e.con
    <3>1. \A s \in Alongside(n, e) : \E c \in Named : s = [con |-> c, of |-> e.con]
      BY DEF Alongside
    <3> HIDE DEF e, n
    <3>2. \A c \in Named : [con |-> c, of |-> e.con] \in Collected
      BY <1>2, ConceptsAssumption DEF Collected
    <3> QED BY <3>1, <3>2
  <2>3. found \subseteq Collected /\ \A s \in found : s.of \in done \cup {e.con}
    <3> HIDE DEF scan, e
    <3> QED BY <1>0, <2>1, <2>2
  <2>4. ASSUME tell PROVE \A s \in found : s.of = e.con => s.con \in Subsumers[e.con]
    <3>1. \A s \in subs : s.of # e.con
      BY <1>5, <2>1
    <3>2. ASSUME scan PROVE \A s \in Alongside(n, e) : s.con \in Subsumers[e.con]
      <4>1. at = SingleAncestor(g, n) /\ BranchError(n, e) = {}
        BY <1>0, <2>4, <3>2
      <4>2. e.con \in Named
        BY <1>5 DEF Linked
      <4> QED BY <1>0, <1>5, <4>1, <4>2, AlongsideHolds
    <3> HIDE DEF scan, e, n, tell
    <3> QED BY <3>1, <3>2
  <2>5. /\ msgs \in Seq(Made)
        /\ \A i \in DOMAIN msgs : KeepsOthers(msgs[i]) /\ (msgs[i].kind = "possible" => Announced(msgs[i].con))
        /\ \A i \in DOMAIN msgs : Holds(msgs[i])
    <3>0. /\ \A i \in DOMAIN out : KeepsOthers(out[i]) /\ (out[i].kind = "possible" => Announced(out[i].con))
          /\ \A i \in DOMAIN out : Holds(out[i])
      BY DEF KeptInv, OutInv, ReportInv, Announced
    <3>1. CASE ~tell
      <4> HIDE DEF tell
      <4> QED BY <1>0, <3>0, <3>1
    <3>2. CASE tell
      <4> HIDE DEF e, found, tell, scan
      <4>1. m \in Made /\ KeepsOthers(m) /\ Holds(m) /\ m.kind # "possible"
        BY <1>2, <2>3, <2>4, <3>2 DEF Made, SubsumersMade, KeepsOthers, Holds
      <4> HIDE DEF m
      <4>2. msgs = Append(out, m)
        BY <3>2
      <4> HIDE DEF msgs
      <4>3. /\ msgs \in Seq(Made)
            /\ \A i \in DOMAIN msgs : msgs[i] = m \/ (i \in DOMAIN out /\ msgs[i] = out[i])
        BY <1>0, <4>1, <4>2, Appended
      <4> QED BY <3>0, <4>1, <4>3
    <3> QED BY <3>1, <3>2
  <2>6. e.con \in Present(g, n) \cap Named
    BY <1>2, <1>5 DEF Present, Label, Linked
  <2> HIDE DEF msgs, e
  <2>7. /\ map' \in [Named -> Possible] /\ lists' \in [Named -> Listed] /\ out' \in Seq(Made)
        /\ MapInv' /\ ListInv' /\ OutInv' /\ \A i \in DOMAIN out' : Holds(out'[i])
    <3>1. CASE ExtractPossible(e.con, n, msgs)
      BY <1>0, <2>5, <2>6, <3>1, Extracting
    <3>2. CASE out' = msgs /\ UNCHANGED <<map, lists>>
      <4>1. \A x : Announced(x)' => Announced(x)
        BY <2>5, <3>2 DEF Announced
      <4> HIDE DEF n
      <4> QED BY <2>5, <3>2, <4>1 DEF TypeInv, KeptInv, MapInv, ListInv, OutInv
    <3> QED BY <1>5, <3>1, <3>2
  <2> HIDE DEF n, found, tell
  <2>8. subs' \subseteq found /\ done' = done \cup {e.con}
    BY <1>5
  <2>9. SubsInv'
    BY <1>0, <2>3, <2>8 DEF SubsInv
  <2>10. TypeInv'
    BY <1>0, <1>2, <2>3, <2>7, <2>8 DEF TypeInv
  <2>11. InboxInv' /\ ReportInv' /\ ChainInv'
    BY <1>0, <2>7 DEF KeptInv, InboxInv, ReportInv, ChainInv
  <2> QED BY <1>3, <2>7, <2>9, <2>10, <2>11 DEF KeptInv
<1> QED BY <1>1, <1>4, <1>5

\* The messages are sent, each with the list it speaks of.
LEMMA TellKeeps ==
  ASSUME IInv, Tell
  PROVE  IInv'
<1> USE DEF IInv
<1> DEFINE Sent1(m) == IF m.kind # "possible" THEN m
                       ELSE [kind |-> "possible", con |-> m.con, list |-> m.list, others |-> m.others,
                             valid |-> IF m.list THEN lists[m.con].valid ELSE {}]
           sent == [i \in DOMAIN out |-> Sent1(out[i])]
           models == [kind |-> "pseudo", con |-> g.con, models |-> PseudoModels[g]]
           pseudo == IF mode.pseudo /\ g.con \in Linked THEN <<models>> ELSE <<>>
<1>0. /\ g \in Graphs /\ pc = "others" /\ queue = <<>> /\ todo = {} /\ out \in Seq(Made) /\ inbox \in Seq(Seq(Sends))
      /\ lists \in [Named -> Listed]
      /\ pc' = "idle" /\ g' = Graph0 /\ mode' = Mode0
      /\ subs' = {} /\ lists' = Lists0 /\ out' = <<>> /\ done' = {} /\ seen' = {} /\ single' = None
      /\ UNCHANGED <<map, cache, tasks, todo, queue, at, next>>
  BY DEF TypeInv, PlaceInv, Tell
<1>1. inbox' = inbox \/ inbox' = Append(inbox, sent \o pseudo)
  BY DEF Tell
<1> DEFINE Fine(m) == KeepsOthers(m) /\ (m.kind = "possible" => Keeps(m.con, m.valid)) /\ Holds(m)
<1>2. \A i \in DOMAIN out : Sent1(out[i]) \in Sends /\ Fine(Sent1(out[i]))
  <2> SUFFICES ASSUME NEW i \in DOMAIN out PROVE Sent1(out[i]) \in Sends /\ Fine(Sent1(out[i]))
    OBVIOUS
  <2>1. out[i] \in Made /\ KeepsOthers(out[i]) /\ Holds(out[i])
    BY <1>0 DEF KeptInv, OutInv, ReportInv
  <2>2. CASE out[i].kind # "possible"
    BY <2>1, <2>2 DEF Made, Sends, PossibleMade
  <2>3. CASE out[i].kind = "possible"
    <3> DEFINE valid == IF out[i].list THEN lists[out[i].con].valid ELSE {}
    <3>1. out[i].con \in Named /\ out[i].list \in BOOLEAN /\ out[i].others \subseteq Nat
      BY <2>1, <2>3 DEF Made, PossibleMade, SubsumersMade, PrunedMade
    <3>2. Keeps(out[i].con, valid)
      <4>1. Keeps(out[i].con, lists[out[i].con].valid)
        BY <2>3, <3>1 DEF KeptInv, ListInv, Announced
      <4>2. ~out[i].list => Keeps(out[i].con, {})
        BY <2>1, <2>3 DEF KeepsOthers
      <4> QED BY <4>1, <4>2
    <3>3. valid \subseteq Nat
      BY <1>0, <3>1 DEF Listed
    <3>4. Sent1(out[i]) = [kind |-> "possible", con |-> out[i].con, list |-> out[i].list,
                           others |-> out[i].others, valid |-> valid]
      BY <2>3
    <3> HIDE DEF valid, Sent1
    <3> QED BY <2>1, <2>3, <3>1, <3>2, <3>3, <3>4 DEF Sends, PossibleSent, KeepsOthers, Holds
  <2> QED BY <2>2, <2>3
<1>3. (models \in Sends /\ Fine(models))
      \/ pseudo = <<>>
  <2>1. ASSUME g.con \in Linked PROVE models \in Sends
    BY <1>0, <2>1 DEF Sends, PseudoSent
  <2>2. Fine(models)
    BY DEF KeepsOthers, Holds
  <2> QED BY <2>1, <2>2
<1> HIDE DEF models, Fine, Sent1
<1>4. sent \in Seq(Sends) /\ DOMAIN sent = DOMAIN out
  <2>1. DOMAIN out = 1..Len(out) /\ Len(out) \in Nat
    BY <1>0
  <2>2. sent \in [1..Len(out) -> Sends]
    BY <1>2, <2>1
  <2> HIDE DEF sent
  <2> QED BY <2>1, <2>2
<1>5. \A i \in DOMAIN sent : Fine(sent[i])
  BY <1>2
<1>6. pseudo \in Seq(Sends) /\ \A i \in DOMAIN pseudo : Fine(pseudo[i])
  <2>1. CASE pseudo = <<>>
    BY <2>1
  <2>2. CASE pseudo = <<models>> /\ models \in Sends /\ Fine(models)
    BY <2>2
  <2> QED BY <1>3, <2>1, <2>2
<1> HIDE DEF sent, pseudo
<1>7. sent \o pseudo \in Seq(Sends) /\ \A i \in DOMAIN (sent \o pseudo) : Fine((sent \o pseudo)[i])
  BY <1>4, <1>5, <1>6
<1>8. /\ inbox' \in Seq(Seq(Sends))
      /\ \A i \in DOMAIN inbox' : inbox'[i] = sent \o pseudo \/ (i \in DOMAIN inbox /\ inbox'[i] = inbox[i])
  <2>1. CASE inbox' = inbox
    BY <1>0, <2>1
  <2>2. CASE inbox' = Append(inbox, sent \o pseudo)
    BY <1>0, <1>7, <2>2, Appended
  <2> QED BY <1>1, <2>1, <2>2
<1>9. \A i \in DOMAIN inbox : \A j \in DOMAIN inbox[i] : Fine(inbox[i][j])
  BY DEF Fine, KeptInv, InboxInv, ReportInv
<1>10. \A i \in DOMAIN inbox' : \A j \in DOMAIN inbox'[i] : Fine(inbox'[i][j])
  BY <1>7, <1>8, <1>9
<1>11. TypeInv'
  <2>1. Lists0 \in [Named -> Listed] /\ <<>> \in Seq(Made)
    BY DEF Lists0, NoList, Listed
  <2> QED BY <1>0, <1>8, <2>1, Defaults DEF TypeInv
<1>12. PlaceInv'
  BY <1>0 DEF PlaceInv
<1>13. KeptInv'
  <2>1. MapInv' /\ OutInv'
    BY <1>0 DEF KeptInv, MapInv, OutInv
  <2>2. InboxInv'
    BY <1>10 DEF InboxInv, Fine
  <2>3. ListInv'
    BY <1>0 DEF ListInv, Announced, Lists0, NoList
  <2> QED BY <2>1, <2>2, <2>3 DEF KeptInv
<1>14. SubsInv' /\ ChainInv'
  BY <1>0 DEF SubsInv, ChainInv
<1>15. ReportInv'
  BY <1>0, <1>10 DEF ReportInv, Fine
<1> QED BY <1>11, <1>12, <1>13, <1>14, <1>15

\* The classifier takes a batch: the maps it makes and narrows keep what the messages keep.
LEMMA ReceiveKeeps ==
  ASSUME IInv, Receive
  PROVE  IInv'
<1> USE DEF IInv
<1> DEFINE said(x) == {m \in ToSet(Head(inbox)) : m.kind = "possible" /\ m.con = x}
           meant(m) == {IF p \in DOMAIN CandidateOf THEN CandidateOf[p] ELSE p : p \in m.valid} \cup m.others
           first(x) == IF map[x].made THEN map[x].possible ELSE meant(CHOOSE m \in said(x) : TRUE)
<1>0. /\ map \in [Named -> Possible] /\ inbox \in Seq(Seq(Sends)) /\ inbox # <<>> /\ inbox' = Tail(inbox)
      /\ UNCHANGED <<cache, tasks, pc, g, mode, todo, subs, lists, out, done, queue, seen, at, next, single>>
  BY DEF TypeInv, Receive, local
<1>1. PICK narrow \in BOOLEAN :
        map' = [x \in Named |->
                  IF said(x) = {} THEN map[x]
                  ELSE [made |-> TRUE,
                        possible |-> {p \in first(x) : narrow => \A s \in {meant(m) : m \in said(x)} : p \in s}]]
  BY DEF Receive
<1>2. \A m \in ToSet(Head(inbox)) :
        m \in Sends /\ KeepsOthers(m) /\ (m.kind = "possible" => Keeps(m.con, m.valid))
  <2>1. Head(inbox) \in Seq(Sends) /\ Head(inbox) = inbox[1] /\ 1 \in DOMAIN inbox
    BY <1>0
  <2>2. \A j \in DOMAIN inbox[1] : KeepsOthers(inbox[1][j]) /\ (inbox[1][j].kind = "possible" => Keeps(inbox[1][j].con, inbox[1][j].valid))
    BY <2>1 DEF KeptInv, InboxInv
  <2> QED BY <2>1, <2>2 DEF ToSet
<1>3. ASSUME NEW x \in Named, NEW m \in said(x)
      PROVE  meant(m) \subseteq Nat /\ Due(x) \subseteq meant(m)
  <2>1. m \in Sends /\ m.kind = "possible" /\ m.con = x /\ Keeps(x, m.valid) /\ Due(x) \cap NonCandidates \subseteq m.others
    BY <1>2, <1>3 DEF KeepsOthers
  <2>2. m.valid \subseteq Nat /\ m.others \subseteq Nat
    BY <2>1 DEF Sends, PossibleSent, SubsumersMade, PrunedMade, PseudoSent
  <2>3. \A k \in DOMAIN CandidateOf : CandidateOf[k] \in Nat
    BY ConceptsAssumption
  <2>4. meant(m) \subseteq Nat
    BY <2>2, <2>3
  <2>5. ASSUME NEW p \in Due(x) PROVE p \in meant(m)
    <3>1. p \in Named /\ p \notin DOMAIN CandidateOf
      BY ConceptsAssumption, DueFacts
    <3>2. CASE p \notin Equivalent
      <4>1. p \in m.valid
        BY <2>1, <3>2 DEF Keeps
      <4> QED BY <3>1, <4>1
    <3>3. CASE p \in NonCandidates
      BY <2>1, <3>3
    <3>4. CASE p \in Equivalent \ NonCandidates
      <4>1. PICK k \in DOMAIN CandidateOf : CandidateOf[k] = p
        BY <3>4, ConceptsAssumption
      <4>2. k \in m.valid
        BY <2>1, <4>1 DEF Keeps
      <4> QED BY <4>1, <4>2
    <3> QED BY <3>2, <3>3, <3>4
  <2> HIDE DEF meant
  <2> QED BY <2>4, <2>5
<1> HIDE DEF meant
<1>4. ASSUME NEW x \in Named, said(x) # {}
      PROVE  first(x) \subseteq Nat /\ Due(x) \subseteq first(x)
  <2>1. (CHOOSE m \in said(x) : TRUE) \in said(x)
    BY <1>4
  <2> HIDE DEF said
  <2>2. map[x].possible \subseteq Nat /\ (map[x].made => Due(x) \subseteq map[x].possible)
    BY <1>0 DEF Possible, KeptInv, MapInv
  <2> QED BY <1>3, <2>1, <2>2
<1> HIDE DEF said, first
<1>5. /\ map' \in [Named -> Possible]
      /\ \A x \in Named : map'[x].made => Due(x) \subseteq map'[x].possible
  <2> SUFFICES ASSUME NEW x \in Named
               PROVE  map'[x] \in Possible /\ (map'[x].made => Due(x) \subseteq map'[x].possible)
    BY <1>1
  <2>1. CASE said(x) = {}
    BY <1>0, <1>1, <2>1 DEF KeptInv, MapInv
  <2>2. CASE said(x) # {}
    <3> DEFINE kept == {p \in first(x) : narrow => \A s \in {meant(m) : m \in said(x)} : p \in s}
    <3>1. map'[x] = [made |-> TRUE, possible |-> kept]
      BY <1>1, <2>2
    <3>2. kept \subseteq Nat /\ Due(x) \subseteq kept
      BY <1>3, <1>4, <2>2
    <3> HIDE DEF kept
    <3> QED BY <3>1, <3>2 DEF Possible
  <2> QED BY <2>1, <2>2
<1>6. /\ inbox' \in Seq(Seq(Sends))
      /\ \A i \in DOMAIN inbox' : i + 1 \in DOMAIN inbox /\ inbox'[i] = inbox[i + 1]
  BY <1>0
<1>7. TypeInv'
  BY <1>0, <1>5, <1>6 DEF TypeInv
<1>8. PlaceInv'
  BY <1>0 DEF PlaceInv, Label, Root
<1>9. KeptInv'
  <2>1. MapInv'
    BY <1>5 DEF MapInv
  <2>2. ListInv' /\ OutInv'
    BY <1>0 DEF KeptInv, ListInv, OutInv, Announced
  <2>3. InboxInv'
    BY <1>6 DEF KeptInv, InboxInv
  <2> QED BY <2>1, <2>2, <2>3 DEF KeptInv
<1>10. SubsInv' /\ ChainInv'
  BY <1>0 DEF SubsInv, ChainInv
<1>11. ReportInv'
  BY <1>0, <1>6 DEF ReportInv
<1> QED BY <1>7, <1>8, <1>9, <1>10, <1>11

-----------------------------------------------------------------------------
(* Walks along dependencies *)

\* Values that depend on those of smaller numbers only exist.
Local(V, n, G) ==
  \A i \in 1..n : \A f, h \in [1..n -> V] : (\A j \in 1..(i - 1) : f[j] = h[j]) => G[i][f] = G[i][h]
Solves(f, V, n, G) == f \in [1..n -> V] /\ \A i \in 1..n : f[i] = G[i][f]
LEMMA Numbered ==
  ASSUME NEW V, NEW v0 \in V, NEW n \in Nat, NEW G \in [1..n -> [[1..n -> V] -> V]], Local(V, n, G)
  PROVE  \E f : Solves(f, V, n, G)
<1> DEFINE Upto(k) == \E f \in [1..n -> V] : \A i \in 1..k : f[i] = G[i][f]
           P == {k \in Nat : k <= n => Upto(k)}
<1>1. 0 \in P
  <2>1. [i \in 1..n |-> v0] \in [1..n -> V] /\ \A i \in 1..0 : FALSE
    OBVIOUS
  <2>2. Upto(0)
    BY <2>1
  <2> HIDE DEF Upto
  <2> QED BY <2>2
<1>2. ASSUME NEW k \in P PROVE k + 1 \in P
  <2> SUFFICES ASSUME k + 1 <= n PROVE Upto(k + 1)
    <3> HIDE DEF Upto
    <3> QED OBVIOUS
  <2>1. k \in Nat /\ Upto(k)
    <3> HIDE DEF Upto
    <3> QED OBVIOUS
  <2>2. PICK f \in [1..n -> V] : \A i \in 1..k : f[i] = G[i][f]
    BY <2>1
  <2> DEFINE h == [f EXCEPT ![k + 1] = G[k + 1][f]]
  <2>3. k + 1 \in 1..n /\ G[k + 1][f] \in V
    BY <2>1
  <2>4. h \in [1..n -> V] /\ h[k + 1] = G[k + 1][f] /\ \A j \in 1..k : h[j] = f[j]
    BY <2>1, <2>3
  <2> HIDE DEF h
  <2>5. ASSUME NEW i \in 1..(k + 1) PROVE h[i] = G[i][h]
    <3>1. i \in 1..n /\ \A j \in 1..(i - 1) : f[j] = h[j]
      BY <2>1, <2>4
    <3>2. G[i][f] = G[i][h]
      BY <2>4, <3>1 DEF Local
    <3>3. CASE i = k + 1
      BY <2>4, <3>2, <3>3
    <3>4. CASE i \in 1..k
      BY <2>2, <2>4, <3>2, <3>4
    <3> QED BY <2>1, <3>3, <3>4
  <2> QED BY <2>4, <2>5
<1>3. n \in P
  BY <1>1, <1>2, SetInduction
<1>4. Upto(n)
  <2> HIDE DEF Upto
  <2> QED BY <1>3
<1> QED BY <1>4 DEF Solves

\* Sequences of things, and a number for each; wrapped, for their definitions lead the provers astray.
Strings(D) == Seq(D)
Weights(D) == [D -> Nat]

\* There is a number for each element of the sequence.
Adds(v, s) == Len(s) \in Nat /\ \A i \in 1..Len(s) : v[s[i]] \in Nat

\* The sums along a sequence.
SumsOf(h, v, s) ==
  /\ h[0] = 0
  /\ \A i \in 1..Len(s) : h[i] = h[i - 1] + v[s[i]]
  /\ \A i \in 0..Len(s) : h[i] \in Nat
LEMMA SumsStep ==
  ASSUME NEW v, NEW s, Adds(v, s)
  PROVE  SumsOf(Sums(v, s), v, s)
<1> DEFINE n == Len(s)
           G == [i \in 1..n |-> [x \in Nat |-> x + v[s[i]]]]
           F(f) == [i \in 0..n |-> IF i = 0 THEN 0 ELSE f[i - 1] + v[s[i]]]
<1>1. n \in Nat /\ \A i \in 1..n : v[s[i]] \in Nat
  BY DEF Adds
<1>2. G \in [1..n -> [Nat -> Nat]]
  BY <1>1
<1>3. PICK f : Computed(f, Nat, 0, n, G)
  <2> HIDE DEF G, n
  <2> QED BY <1>1, <1>2, Recursion, Zenon
<1>4. f \in [0..n -> Nat] /\ f[0] = 0 /\ \A i \in 1..n : f[i] = f[i - 1] + v[s[i]]
  <2>1. f \in [0..n -> Nat] /\ f[0] = 0 /\ \A i \in 1..n : f[i] = G[i][f[i - 1]]
    <3> HIDE DEF G, n
    <3> QED BY <1>3 DEF Computed
  <2> HIDE DEF n
  <2>2. \A i \in 1..n : f[i - 1] \in Nat
    BY <1>1, <2>1
  <2> QED BY <2>1, <2>2
<1> HIDE DEF n
<1>5. f = F(f)
  <2>1. ASSUME NEW i \in 0..n PROVE f[i] = IF i = 0 THEN 0 ELSE f[i - 1] + v[s[i]]
    BY <1>1, <1>4
  <2>2. f = [i \in 0..n |-> f[i]]
    BY <1>4
  <2> QED BY <2>1, <2>2, Zenon
<1>6. Sums(v, s) = CHOOSE h : h = F(h)
  BY DEF Sums, n
<1>7. Sums(v, s) = F(Sums(v, s))
  <2> HIDE DEF F
  <2> QED BY <1>5, <1>6
<1> DEFINE h == Sums(v, s)
<1> HIDE DEF h
<1>8. h[0] = 0 /\ \A i \in 1..n : h[i] = h[i - 1] + v[s[i]]
  <2>1. h = F(h)
    BY <1>7 DEF h
  <2> QED BY <1>1, <2>1
<1> DEFINE P == {i \in Nat : i <= n => h[i] \in Nat}
<1>9. 0 \in P
  BY <1>1, <1>8
<1>10. ASSUME NEW i \in P PROVE i + 1 \in P
  BY <1>1, <1>8
<1>11. P = Nat
  BY <1>9, <1>10, SetInduction
<1>12. \A i \in 0..n : h[i] \in Nat
  BY <1>1, <1>11
<1> QED BY <1>8, <1>12 DEF SumsOf, h, n

\* Sums depend on the values added only.
Agree(v, s, w, t, k) ==
  k \in Nat /\ k <= Len(s) /\ k <= Len(t) /\ \A i \in 1..k : v[s[i]] = w[t[i]]
SameSums(v, s, w, t, k) == Sums(v, s)[k] = Sums(w, t)[k]
LEMMA SumsAgree ==
  ASSUME NEW v, NEW w, NEW s, NEW t, NEW k, Adds(v, s), Adds(w, t), Agree(v, s, w, t, k)
  PROVE  SameSums(v, s, w, t, k)
<1> DEFINE a == Sums(v, s)
           b == Sums(w, t)
           Same(i) == a[i] = b[i]
           P == {i \in Nat : i <= k => Same(i)}
<1>0. Len(s) \in Nat /\ Len(t) \in Nat /\ k \in Nat /\ k <= Len(s) /\ k <= Len(t)
  BY DEF Adds, Agree
<1>1. SumsOf(a, v, s) /\ SumsOf(b, w, t)
  BY SumsStep, Zenon
<1> HIDE DEF a, b
<1>2. Same(0)
  BY <1>1 DEF SumsOf
<1>3. ASSUME NEW i \in Nat, i + 1 <= k, Same(i) PROVE Same(i + 1)
  <2>1. i + 1 \in 1..k /\ i + 1 \in 1..Len(s) /\ i + 1 \in 1..Len(t) /\ (i + 1) - 1 = i
    BY <1>0, <1>3
  <2>2. a[i + 1] = a[i] + v[s[i + 1]] /\ b[i + 1] = b[i] + w[t[i + 1]]
    BY <1>1, <2>1 DEF SumsOf
  <2>3. v[s[i + 1]] = w[t[i + 1]]
    BY <2>1 DEF Agree
  <2> QED BY <1>3, <2>1, <2>2, <2>3
<1> HIDE DEF Same
<1>4. 0 \in P
  BY <1>2
<1>5. ASSUME NEW i \in P PROVE i + 1 \in P
  BY <1>0, <1>3
<1>6. P = Nat
  BY <1>4, <1>5, SetInduction
<1>7. Same(k)
  BY <1>0, <1>6
<1> QED BY <1>7 DEF Same, SameSums, a, b

\* What is in the sequence has a number.
LEMMA AddsTyped ==
  ASSUME NEW D, NEW v \in Weights(D), NEW s \in Strings(D)
  PROVE  Adds(v, s)
<1>1. \A i \in 1..Len(s) : s[i] \in D
  BY DEF Strings
<1>2. Len(s) \in Nat
  BY DEF Strings
<1> QED BY <1>1, <1>2 DEF Adds, Weights

\* The total of nothing.
LEMMA EmptyTotal ==
  ASSUME NEW D, NEW v \in Weights(D), <<>> \in Strings(D)
  PROVE  Total(v, <<>>) = 0
<1>1. SumsOf(Sums(v, <<>>), v, <<>>)
  BY AddsTyped, SumsStep, Zenon
<1>2. Len(<<>>) = 0
  OBVIOUS
<1> QED BY <1>1, <1>2 DEF Total, SumsOf

\* The total of two sequences, and of one with something in it.
LEMMA Totals ==
  ASSUME NEW D, NEW v \in Weights(D), NEW s \in Strings(D), NEW t \in Strings(D)
  PROVE  /\ Total(v, s) \in Nat
         /\ Total(v, s \o t) = Total(v, s) + Total(v, t)
         /\ s # <<>> => Total(v, s) = Total(v, Front(s)) + v[Last(s)]
<1> DEFINE n == Len(s)
<1>0. n \in Nat /\ Len(t) \in Nat
  BY DEF Strings
<1>1. SumsOf(Sums(v, s), v, s) /\ SumsOf(Sums(v, t), v, t)
  BY AddsTyped, SumsStep, Zenon
<1>2. Total(v, s) \in Nat /\ Total(v, t) \in Nat
  BY <1>0, <1>1 DEF Total, SumsOf
<1>3. Total(v, s \o t) = Total(v, s) + Total(v, t)
  <2> DEFINE c == s \o t
             h == Sums(v, c)
             a == Sums(v, s)
             b == Sums(v, t)
             Added(i) == h[n + i] = a[n] + b[i]
             P == {i \in Nat : i <= Len(t) => Added(i)}
  <2>1. /\ c \in Strings(D) /\ Len(c) = n + Len(t)
        /\ \A i \in 1..n : c[i] = s[i]
        /\ \A i \in 1..Len(t) : c[n + i] = t[i]
    BY DEF Strings
  <2> HIDE DEF c
  <2>2. SumsOf(h, v, c)
    BY <2>1, AddsTyped, SumsStep, Zenon
  <2>3. h[n] = a[n]
    <3>1. n <= Len(c) /\ n <= Len(s) /\ \A i \in 1..n : v[c[i]] = v[s[i]]
      BY <1>0, <2>1
    <3>2. c \in Strings(D)
      BY <2>1
    <3>3. Adds(v, c) /\ Adds(v, s)
      BY <3>2, AddsTyped, Zenon
    <3>4. Agree(v, c, v, s, n)
      BY <1>0, <3>1 DEF Agree
    <3> HIDE DEF n
    <3>5. SameSums(v, c, v, s, n)
      BY <3>3, <3>4, SumsAgree, Zenon
    <3> QED BY <3>5 DEF SameSums
  <2>4. SumsOf(a, v, s) /\ SumsOf(b, v, t)
    BY <1>1
  <2> HIDE DEF h, a, b
  <2>5. Added(0)
    BY <1>0, <2>3, <2>4 DEF SumsOf
  <2>6. ASSUME NEW i \in Nat, i + 1 <= Len(t), Added(i) PROVE Added(i + 1)
    <3>1. i + 1 \in 1..Len(t) /\ n + (i + 1) \in 1..Len(c) /\ (n + (i + 1)) - 1 = n + i /\ (i + 1) - 1 = i
          /\ i \in 0..Len(t) /\ n \in 0..n
      BY <1>0, <2>1, <2>6
    <3>2. h[n + (i + 1)] = h[n + i] + v[c[n + (i + 1)]]
      BY <2>2, <3>1 DEF SumsOf
    <3>3. b[i + 1] = b[i] + v[t[i + 1]] /\ b[i] \in Nat /\ a[n] \in Nat /\ b[i + 1] \in Nat
      <4>1. i + 1 \in 0..Len(t)
        BY <3>1
      <4> QED BY <2>4, <3>1, <4>1 DEF SumsOf
    <3>4. c[n + (i + 1)] = t[i + 1]
      BY <2>1, <3>1
    <3>5. v[t[i + 1]] \in Nat
      <4>1. t[i + 1] \in D
        BY <3>1 DEF Strings
      <4> QED BY <4>1 DEF Weights
    <3>6. h[n + i] = a[n] + b[i]
      BY <2>6
    <3> HIDE DEF n
    <3> QED BY <3>2, <3>3, <3>4, <3>5, <3>6
  <2> HIDE DEF Added
  <2>7. 0 \in P
    BY <2>5
  <2>8. ASSUME NEW i \in P PROVE i + 1 \in P
    BY <1>0, <2>6
  <2>9. P = Nat
    BY <2>7, <2>8, SetInduction
  <2>10. Added(Len(t))
    BY <1>0, <2>9
  <2> QED BY <2>1, <2>10 DEF Total, Added, h, a, b, c
<1>4. ASSUME s # <<>> PROVE Total(v, s) = Total(v, Front(s)) + v[Last(s)]
  <2> DEFINE f == Front(s)
  <2>1. n >= 1 /\ f \in Strings(D) /\ Len(f) = n - 1 /\ \A i \in 1..(n - 1) : f[i] = s[i]
    <3>1. s \in Seq(D) /\ n >= 1 /\ n \in Nat
      BY <1>4 DEF Strings
    <3> DEFINE k == n - 1
    <3>2. k \in Nat /\ k <= Len(s) /\ f = SubSeq(s, 1, k)
      BY <3>1 DEF Front
    <3> HIDE DEF k, f
    <3>3. f \in Seq(D)
      BY <3>1, <3>2
    <3>4. Len(f) = k
      BY <3>1, <3>2
    <3>5. \A i \in 1..k : f[i] = s[i]
      BY <3>1, <3>2
    <3> QED BY <3>1, <3>3, <3>4, <3>5 DEF Strings, k
  <2> HIDE DEF f
  <2>2. Sums(v, f)[n - 1] = Sums(v, s)[n - 1]
    <3>1. n - 1 \in Nat /\ n - 1 <= Len(f) /\ n - 1 <= Len(s) /\ \A i \in 1..(n - 1) : v[f[i]] = v[s[i]]
      BY <1>0, <2>1
    <3>2. f \in Strings(D)
      BY <2>1
    <3> DEFINE k == n - 1
    <3> HIDE DEF k
    <3>3. k \in Nat /\ k <= Len(f) /\ k <= Len(s) /\ \A i \in 1..k : v[f[i]] = v[s[i]]
      BY <3>1 DEF k
    <3>4. Sums(v, f)[k] = Sums(v, s)[k]
      <4>1. Adds(v, f) /\ Adds(v, s)
        BY <3>2, AddsTyped, Zenon
      <4>2. Agree(v, f, v, s, k)
        BY <3>3 DEF Agree
      <4>3. SameSums(v, f, v, s, k)
        BY <4>1, <4>2, SumsAgree, Zenon
      <4> QED BY <4>3 DEF SameSums
    <3> QED BY <3>4 DEF k
  <2>3. Sums(v, s)[n] = Sums(v, s)[n - 1] + v[s[n]]
    BY <1>0, <1>1, <2>1 DEF SumsOf
  <2> QED BY <2>1, <2>2, <2>3 DEF Total, Last, f
<1> QED BY <1>2, <1>3, <1>4
\* The dependencies before one have smaller numbers.
LEMMA BeforeFacts ==
  ASSUME NEW gr \in Graphs, NEW x \in DOMAIN gr.deps
  PROVE  /\ DOMAIN gr.deps = 1..Len(gr.deps) /\ Len(gr.deps) \in Nat /\ x \in 1..Len(gr.deps)
         /\ gr.deps[x].con \in Nat
         /\ Before(gr.deps[x]) \in Strings(1..(x - 1))
         /\ Before(gr.deps[x]) \in Strings(DOMAIN gr.deps)
<1> DEFINE dep == gr.deps[x]
<1>1. DOMAIN gr.deps = 1..Len(gr.deps) /\ Len(gr.deps) \in Nat /\ x \in 1..Len(gr.deps)
      /\ dep.con \in Nat /\ dep.prev \in 0..(x - 1) /\ dep.more \in Seq(1..(x - 1))
  BY GraphsAssumption DEF WellFormed
<1> HIDE DEF dep
<1>2. dep.prev = None \/ dep.prev \in 1..(x - 1)
  BY <1>1 DEF None
<1>3. (IF dep.prev = None THEN <<>> ELSE <<dep.prev>>) \in Seq(1..(x - 1))
  <2>1. CASE dep.prev = None
    BY <2>1
  <2>2. CASE dep.prev # None
    <3>1. dep.prev \in 1..(x - 1)
      BY <1>2, <2>2
    <3>2. <<dep.prev>> \in Seq(1..(x - 1))
      BY <3>1
    <3> QED BY <2>2, <3>2
  <2> QED BY <2>1, <2>2
<1>4. Before(dep) \in Seq(1..(x - 1))
  BY <1>1, <1>3 DEF Before
<1>5. 1..(x - 1) \subseteq 1..Len(gr.deps)
  BY <1>1
<1>6. \A A, B : A \subseteq B => Seq(A) \subseteq Seq(B)
  OBVIOUS
<1>7. Before(dep) \in Seq(1..Len(gr.deps))
  BY <1>4, <1>5, <1>6
<1> QED BY <1>1, <1>4, <1>7 DEF Strings, dep

\* What a dependency rests on is its concept and what those before it rest on.
LEMMA RestsOnStep ==
  ASSUME NEW gr \in Graphs
  PROVE  \A x \in DOMAIN gr.deps :
           RestsOn(gr)[x] = ({gr.deps[x].con} \ {None}) \cup UNION {RestsOn(gr)[y] : y \in ToSet(Before(gr.deps[x]))}
<1> DEFINE n == Len(gr.deps)
           V == SUBSET Nat
           E(f, x) == ({gr.deps[x].con} \ {None}) \cup UNION {f[y] : y \in ToSet(Before(gr.deps[x]))}
           G == [x \in 1..n |-> [f \in [1..n -> V] |-> E(f, x)]]
           F(f) == [x \in DOMAIN gr.deps |-> E(f, x)]
<1>0. DOMAIN gr.deps = 1..n /\ n \in Nat
  BY GraphsAssumption DEF WellFormed
<1>1. \A x \in 1..n : gr.deps[x].con \in Nat /\ ToSet(Before(gr.deps[x])) \subseteq 1..(x - 1)
  BY <1>0, BeforeFacts DEF ToSet, Strings
<1>2. \A x \in 1..n : \A f \in [1..n -> V] : E(f, x) \in V
  <2> SUFFICES ASSUME NEW x \in 1..n, NEW f \in [1..n -> V] PROVE E(f, x) \in V
    OBVIOUS
  <2>1. \A y \in ToSet(Before(gr.deps[x])) : f[y] \subseteq Nat
    <3>1. ToSet(Before(gr.deps[x])) \subseteq 1..n
      <4>1. 1..(x - 1) \subseteq 1..n
        BY <1>0
      <4> HIDE DEF n
      <4> QED BY <1>1, <4>1, Zenon
    <3> HIDE DEF n
    <3> QED BY <3>1
  <2> QED BY <1>1, <2>1
<1>3. \A x \in 1..n : \A f, h \in [1..n -> V] : (\A j \in 1..(x - 1) : f[j] = h[j]) => E(f, x) = E(h, x)
  BY <1>1
<1> HIDE DEF E, V, n
<1>4. G \in [1..n -> [[1..n -> V] -> V]]
  BY <1>2
<1>5. \A x \in 1..n : \A f, h \in [1..n -> V] : (\A j \in 1..(x - 1) : f[j] = h[j]) => G[x][f] = G[x][h]
  BY <1>3
<1>6. {} \in V
  BY DEF V
<1>7. \A x \in 1..n : \A f \in [1..n -> V] : G[x][f] = E(f, x)
  OBVIOUS
<1> HIDE DEF G
<1>8. PICK f \in [1..n -> V] : \A x \in 1..n : f[x] = G[x][f]
  <2>1. Local(V, n, G)
    BY <1>5 DEF Local
  <2>2. \E f : Solves(f, V, n, G)
    BY <1>0, <1>4, <1>6, <2>1, Numbered, Zenon
  <2> QED BY <2>2, Zenon DEF Solves
<1>9. f = F(f)
  BY <1>0, <1>7, <1>8
<1>10. RestsOn(gr) = CHOOSE h : h = F(h)
  BY DEF RestsOn, E
<1>11. RestsOn(gr) = F(RestsOn(gr))
  <2> HIDE DEF F
  <2> QED BY <1>9, <1>10
<1>12. \A x \in DOMAIN gr.deps : RestsOn(gr)[x] = E(RestsOn(gr), x)
  BY <1>11
<1> QED BY <1>12 DEF E

\* A visit of a dependency is followed by the visits of those before it.
LEMMA VisitsStep ==
  ASSUME NEW gr \in Graphs
  PROVE  /\ Visits(gr) \in Weights(DOMAIN gr.deps)
         /\ \A x \in DOMAIN gr.deps : Visits(gr)[x] = 1 + Total(Visits(gr), Before(gr.deps[x]))
<1> DEFINE n == Len(gr.deps)
           B(x) == Before(gr.deps[x])
           E(f, x) == 1 + Total(f, B(x))
           G == [x \in 1..n |-> [f \in [1..n -> Nat] |-> E(f, x)]]
           F(f) == [x \in DOMAIN gr.deps |-> E(f, x)]
<1>0. DOMAIN gr.deps = 1..n /\ n \in Nat
  BY GraphsAssumption DEF WellFormed
<1>1. \A x \in 1..n : B(x) \in Strings(1..n) /\ B(x) \in Strings(1..(x - 1))
  BY <1>0, BeforeFacts
<1>2. \A x \in 1..n : Len(B(x)) \in Nat /\ \A i \in 1..Len(B(x)) : B(x)[i] \in 1..(x - 1)
  <2> SUFFICES ASSUME NEW x \in 1..n
               PROVE Len(B(x)) \in Nat /\ \A i \in 1..Len(B(x)) : B(x)[i] \in 1..(x - 1)
    OBVIOUS
  <2> DEFINE b == B(x)
  <2>1. b \in Strings(1..(x - 1))
    BY <1>1
  <2> HIDE DEF b
  <2>2. b \in Seq(1..(x - 1))
    BY <2>1 DEF Strings
  <2>3. Len(b) \in Nat /\ \A i \in 1..Len(b) : b[i] \in 1..(x - 1)
    BY <2>2
  <2> QED BY <2>3 DEF b
<1> HIDE DEF n, B
<1>3. ASSUME NEW x \in 1..n, NEW f \in [1..n -> Nat] PROVE E(f, x) \in Nat
  <2>1. f \in Weights(1..n)
    BY DEF Weights
  <2>2. Total(f, B(x)) \in Nat
    BY <1>1, <2>1, Totals
  <2> QED BY <2>2
<1>4. ASSUME NEW x \in 1..n, NEW f, NEW h, f \in [1..n -> Nat], \A j \in 1..(x - 1) : f[j] = h[j]
      PROVE  E(f, x) = E(h, x)
  <2> DEFINE b == B(x)
  <2>1. Len(b) \in Nat /\ \A i \in 1..Len(b) : b[i] \in 1..(x - 1)
    BY <1>2
  <2> HIDE DEF b
  <2>2. \A i \in 1..Len(b) : f[b[i]] = h[b[i]] /\ f[b[i]] \in Nat
    <3>1. \A j \in 1..(x - 1) : f[j] \in Nat
      BY <1>0, <1>4
    <3> QED BY <1>4, <2>1, <3>1
  <2>3. Adds(f, b) /\ Adds(h, b)
    BY <2>1, <2>2 DEF Adds
  <2>4. Sums(f, b)[Len(b)] = Sums(h, b)[Len(b)]
    <3>1. Len(b) \in Nat /\ Len(b) <= Len(b)
      BY <2>1
    <3>2. \A i \in 1..Len(b) : f[b[i]] = h[b[i]]
      BY <2>2
    <3>3. Agree(f, b, h, b, Len(b))
      BY <3>1, <3>2 DEF Agree
    <3>4. SameSums(f, b, h, b, Len(b))
      BY <2>3, <3>3, SumsAgree, Zenon
    <3> QED BY <3>4 DEF SameSums
  <2> QED BY <2>4 DEF Total, b
<1> HIDE DEF E
<1>5. G \in [1..n -> [[1..n -> Nat] -> Nat]]
  BY <1>3
<1>6. \A x \in 1..n : \A f, h \in [1..n -> Nat] : (\A j \in 1..(x - 1) : f[j] = h[j]) => G[x][f] = G[x][h]
  BY <1>4
<1>7. \A x \in 1..n : \A f \in [1..n -> Nat] : G[x][f] = E(f, x)
  OBVIOUS
<1> HIDE DEF G
<1>8. PICK f \in [1..n -> Nat] : \A x \in 1..n : f[x] = G[x][f]
  <2>1. 0 \in Nat
    OBVIOUS
  <2>2. Local(Nat, n, G)
    BY <1>6 DEF Local
  <2>3. \E f : Solves(f, Nat, n, G)
    BY <1>0, <1>5, <2>1, <2>2, Numbered, Zenon
  <2> QED BY <2>3, Zenon DEF Solves
<1>9. f = F(f)
  BY <1>0, <1>7, <1>8
<1>10. Visits(gr) = CHOOSE h : h = F(h)
  BY DEF Visits, E, B
<1> DEFINE h == Visits(gr)
<1>11. h = F(h)
  <2> HIDE DEF F
  <2> QED BY <1>9, <1>10
<1> HIDE DEF h
<1>12. \A x \in 1..n : h[x] = E(h, x) /\ f[x] = E(f, x)
  BY <1>0, <1>7, <1>8, <1>11
\* The function is the one found, number by number.
<1> DEFINE Same(k) == \A j \in 1..k : f[j] = h[j]
           P == {k \in Nat : k <= n => Same(k)}
<1>13. 0 \in P
  OBVIOUS
<1>14. ASSUME NEW k \in Nat, k + 1 <= n, Same(k) PROVE Same(k + 1)
  <2>1. k + 1 \in 1..n /\ (k + 1) - 1 = k
    BY <1>0, <1>14
  <2>2. E(f, k + 1) = E(h, k + 1)
    BY <1>4, <1>14, <2>1
  <2>3. f[k + 1] = h[k + 1]
    BY <1>12, <2>1, <2>2
  <2> QED BY <1>14, <2>3
<1>15. ASSUME NEW k \in P PROVE k + 1 \in P
  <2> HIDE DEF Same
  <2> QED BY <1>0, <1>14
<1>16. P = Nat
  BY <1>13, <1>15, SetInduction
<1>17. Same(n)
  <2> HIDE DEF Same
  <2> QED BY <1>0, <1>16
<1>18. h = [x \in 1..n |-> h[x]]
  BY <1>0, <1>11
<1>19. h \in Weights(1..n)
  BY <1>17, <1>18 DEF Weights
<1> QED BY <1>0, <1>12, <1>19 DEF h, E, B

Joined(s, t) == ToSet(s \o t) = ToSet(s) \cup ToSet(t)

\* The elements of sequences put together and taken apart.
LEMMA Elements ==
  ASSUME NEW D, NEW s \in Strings(D), NEW t \in Strings(D)
  PROVE  /\ s \o t \in Strings(D) /\ Joined(s, t)
         /\ s # <<>> => /\ Front(s) \in Strings(D) /\ Last(s) \in D
                        /\ ToSet(s) = ToSet(Front(s)) \cup {Last(s)}
<1>1. s \in Seq(D) /\ t \in Seq(D)
  BY DEF Strings
<1>2. s \o t \in Strings(D) /\ ToSet(s \o t) = ToSet(s) \cup ToSet(t)
  <2> DEFINE c == s \o t
  <2>1. c \in Seq(D) /\ Len(c) = Len(s) + Len(t)
    BY <1>1
  <2>2. \A i \in DOMAIN s : i \in DOMAIN c /\ c[i] = s[i]
    BY <1>1
  <2>3. \A i \in DOMAIN t : Len(s) + i \in DOMAIN c /\ c[Len(s) + i] = t[i]
    BY <1>1
  <2>4. \A i \in DOMAIN c : (i \in DOMAIN s /\ c[i] = s[i]) \/ (i - Len(s) \in DOMAIN t /\ c[i] = t[i - Len(s)])
    BY <1>1
  <2> HIDE DEF c
  <2>5. ToSet(c) \subseteq ToSet(s) \cup ToSet(t)
    BY <2>4 DEF ToSet
  <2>6. ToSet(s) \subseteq ToSet(c) /\ ToSet(t) \subseteq ToSet(c)
    BY <2>2, <2>3 DEF ToSet
  <2>7. ToSet(c) = ToSet(s) \cup ToSet(t)
    BY <2>5, <2>6
  <2> QED BY <2>1, <2>7 DEF c, Strings
<1>3. ASSUME s # <<>>
      PROVE  Front(s) \in Strings(D) /\ Last(s) \in D /\ ToSet(s) = ToSet(Front(s)) \cup {Last(s)}
  <2> DEFINE k == Len(s) - 1
             f == Front(s)
  <2>1. k \in Nat /\ k <= Len(s) /\ f = SubSeq(s, 1, k) /\ k + 1 = Len(s)
    BY <1>1, <1>3 DEF Front
  <2> HIDE DEF f, k
  <2>2. f \in Seq(D)
    BY <1>1, <2>1
  <2>3. Len(f) = k
    BY <1>1, <2>1
  <2>4. \A i \in 1..k : f[i] = s[i]
    BY <1>1, <2>1
  <2>5. DOMAIN f = 1..k /\ DOMAIN s = 1..(k + 1) /\ Last(s) = s[k + 1]
    BY <1>1, <2>1, <2>2, <2>3 DEF Last
  <2>6. s[k + 1] \in D
    BY <1>1, <2>1
  <2>7. ToSet(s) \subseteq ToSet(f) \cup {s[k + 1]}
    <3>1. \A i \in 1..(k + 1) : i \in 1..k \/ i = k + 1
      BY <2>1
    <3> QED BY <2>4, <2>5, <3>1 DEF ToSet
  <2>8. ToSet(f) \subseteq ToSet(s) /\ s[k + 1] \in ToSet(s)
    <3>1. \A i \in 1..k : i \in 1..(k + 1)
      BY <2>1
    <3>2. k + 1 \in 1..(k + 1)
      BY <2>1
    <3> QED BY <2>4, <2>5, <3>1, <3>2 DEF ToSet
  <2>9. ToSet(s) = ToSet(f) \cup {s[k + 1]}
    BY <2>7, <2>8
  <2> QED BY <2>2, <2>5, <2>6, <2>9 DEF f, Strings
<1>4. Joined(s, t)
  BY <1>2 DEF Joined
<1> QED BY <1>2, <1>3, <1>4

\* The states of a walk.
WalkState(gr) == [stack : Strings(DOMAIN gr.deps), tags : Strings(Nat)]

\* A step of the walk takes a dependency from the stack, meets its concept and puts those
\* before it in its place.
LEMMA WalkStepFacts ==
  ASSUME NEW gr \in Graphs, NEW s \in WalkState(gr), s.stack # <<>>
  PROVE  LET x == Last(s.stack)
             con == gr.deps[x].con
             r == WalkStep(gr, s)
         IN /\ x \in DOMAIN gr.deps /\ r \in WalkState(gr)
            /\ r.stack = Front(s.stack) \o Before(gr.deps[x])
            /\ ToSet(r.tags) = ToSet(s.tags) \cup ({con} \ {None})
<1> DEFINE x == Last(s.stack)
           con == gr.deps[x].con
           r == WalkStep(gr, s)
           front == Front(s.stack)
<1>1. s.stack \in Strings(DOMAIN gr.deps) /\ s.tags \in Strings(Nat)
  BY DEF WalkState
<1>2. x \in DOMAIN gr.deps /\ front \in Strings(DOMAIN gr.deps)
  BY <1>1, Elements
<1>3. con \in Nat /\ Before(gr.deps[x]) \in Strings(DOMAIN gr.deps)
  BY <1>2, BeforeFacts
<1>4. r = [stack |-> front \o Before(gr.deps[x]), tags |-> IF con = None THEN s.tags ELSE Append(s.tags, con)]
  BY DEF WalkStep
<1> HIDE DEF r, front, con, x
<1>5. front \o Before(gr.deps[x]) \in Strings(DOMAIN gr.deps)
  BY <1>2, <1>3, Elements
<1>6. ASSUME con # None
      PROVE  Append(s.tags, con) \in Strings(Nat) /\ ToSet(Append(s.tags, con)) = ToSet(s.tags) \cup {con}
  <2> DEFINE t == s.tags
  <2> HIDE DEF t
  <2>1. t \in Seq(Nat)
    BY <1>1 DEF Strings, t
  <2>2. Append(t, con) \in Seq(Nat) /\ DOMAIN t = 1..Len(t) /\ DOMAIN Append(t, con) = 1..(Len(t) + 1) /\ Len(t) \in Nat
    BY <1>3, <2>1
  <2>3. Append(t, con)[Len(t) + 1] = con /\ \A i \in 1..Len(t) : Append(t, con)[i] = t[i]
    BY <1>3, <2>1
  <2>4. (\A i \in 1..(Len(t) + 1) : i \in 1..Len(t) \/ i = Len(t) + 1) /\ Len(t) + 1 \in 1..(Len(t) + 1)
        /\ \A i \in 1..Len(t) : i \in 1..(Len(t) + 1)
    BY <2>2
  <2> DEFINE a == Append(t, con)
  <2> HIDE DEF a
  <2>5. DOMAIN a = 1..(Len(t) + 1) /\ a[Len(t) + 1] = con /\ \A i \in 1..Len(t) : a[i] = t[i]
    BY <2>2, <2>3 DEF a
  <2>6. ToSet(a) \subseteq ToSet(t) \cup {con}
    BY <2>2, <2>4, <2>5 DEF ToSet
  <2>7. ToSet(t) \subseteq ToSet(a) /\ con \in ToSet(a)
    BY <2>2, <2>4, <2>5 DEF ToSet
  <2>8. ToSet(a) = ToSet(t) \cup {con}
    BY <2>6, <2>7
  <2> QED BY <2>2, <2>8 DEF a, t, Strings
<1>7. r.tags \in Strings(Nat) /\ ToSet(r.tags) = ToSet(s.tags) \cup ({con} \ {None})
  <2>1. CASE con = None
    BY <1>1, <1>4, <2>1
  <2>2. CASE con # None
    BY <1>4, <1>6, <2>2
  <2> QED BY <2>1, <2>2
<1>8. r.stack = front \o Before(gr.deps[x]) /\ r = [stack |-> r.stack, tags |-> r.tags]
  BY <1>4
<1>9. r \in WalkState(gr)
  BY <1>5, <1>7, <1>8 DEF WalkState
<1> QED BY <1>2, <1>7, <1>8, <1>9 DEF r, front, con, x

\* The walk, step by step.
LEMMA WalkSteps ==
  ASSUME NEW gr \in Graphs, NEW d \in DOMAIN gr.deps
  PROVE  /\ Walk(gr, d)[0] = [stack |-> <<d>>, tags |-> <<>>]
         /\ \A i \in 1..MaxWalk : Walk(gr, d)[i] = WalkStep(gr, Walk(gr, d)[i - 1])
<1> DEFINE V == WalkState(gr)
           v0 == [stack |-> <<d>>, tags |-> <<>>]
           G == [i \in 1..MaxWalk |-> [v \in V |-> WalkStep(gr, v)]]
           F(f) == [i \in 0..MaxWalk |-> IF i = 0 THEN v0 ELSE WalkStep(gr, f[i - 1])]
<1>0. MaxWalk \in Nat
  BY LimitsAssumption
<1>1. v0 \in V
  <2>1. \A S : \A x \in S : <<x>> \in Seq(S) /\ <<>> \in Seq(Nat)
    OBVIOUS
  <2>2. <<d>> \in Seq(DOMAIN gr.deps) /\ <<>> \in Seq(Nat)
    BY <2>1, Zenon
  <2> QED BY <2>2, Zenon DEF WalkState, Strings
<1>2. \A v \in V : WalkStep(gr, v) \in V
  <2> SUFFICES ASSUME NEW v \in V PROVE WalkStep(gr, v) \in V
    OBVIOUS
  <2>1. CASE v.stack = <<>>
    BY <2>1 DEF WalkStep
  <2>2. CASE v.stack # <<>>
    BY <2>2, WalkStepFacts
  <2> QED BY <2>1, <2>2
<1> HIDE DEF V, v0
<1>3. G \in [1..MaxWalk -> [V -> V]]
  BY <1>2
<1>4. PICK f : Computed(f, V, v0, MaxWalk, G)
  <2> HIDE DEF G
  <2> QED BY <1>0, <1>1, <1>3, Recursion, Zenon
<1>5. f \in [0..MaxWalk -> V] /\ f[0] = v0 /\ \A i \in 1..MaxWalk : f[i] = WalkStep(gr, f[i - 1])
  <2>1. f \in [0..MaxWalk -> V] /\ f[0] = v0 /\ \A i \in 1..MaxWalk : f[i] = G[i][f[i - 1]]
    <3> HIDE DEF G
    <3> QED BY <1>4 DEF Computed
  <2>2. \A i \in 1..MaxWalk : f[i - 1] \in V
    <3>1. \A i \in 1..MaxWalk : i - 1 \in 0..MaxWalk
      BY <1>0
    <3> QED BY <2>1, <3>1
  <2> QED BY <2>1, <2>2
<1>6. f = F(f)
  <2>1. ASSUME NEW i \in 0..MaxWalk PROVE f[i] = IF i = 0 THEN v0 ELSE WalkStep(gr, f[i - 1])
    <3>1. CASE i = 0
      BY <1>5, <3>1
    <3>2. CASE i \in 1..MaxWalk
      BY <1>5, <3>2
    <3> QED BY <1>0, <3>1, <3>2
  <2>2. f = [i \in 0..MaxWalk |-> f[i]]
    BY <1>5
  <2> QED BY <2>1, <2>2, Zenon
<1>7. Walk(gr, d) = CHOOSE h : h = F(h)
  BY DEF Walk, v0
<1> DEFINE h == Walk(gr, d)
<1>8. h = F(h)
  <2> HIDE DEF F
  <2> QED BY <1>6, <1>7
<1> HIDE DEF h
<1>9. \A i \in 0..MaxWalk : h[i] = IF i = 0 THEN v0 ELSE WalkStep(gr, h[i - 1])
  BY <1>8
<1>10. h[0] = v0 /\ \A i \in 1..MaxWalk : h[i] = WalkStep(gr, h[i - 1])
  <2>1. 0 \in 0..MaxWalk
    BY <1>0
  <2>2. \A i \in 1..MaxWalk : i \in 0..MaxWalk /\ i # 0
    BY <1>0
  <2> QED BY <1>9, <2>1, <2>2
<1> QED BY <1>10 DEF h, v0

\* What a walk from d has met and has left in its stack is what d rests on, and the visits of
\* d are the steps made and the visits left.
Walked(gr, d, i, s) ==
  /\ s \in WalkState(gr)
  /\ RestsOn(gr)[d] = ToSet(s.tags) \cup UNION {RestsOn(gr)[y] : y \in ToSet(s.stack)}
  /\ s.stack # <<>> => Visits(gr)[d] = i + Total(Visits(gr), s.stack)

\* It has met nothing at the beginning.
LEMMA WalkBegins ==
  ASSUME NEW gr \in Graphs, NEW d \in DOMAIN gr.deps
  PROVE  Walked(gr, d, 0, [stack |-> <<d>>, tags |-> <<>>])
<1> DEFINE v == Visits(gr)
           s == [stack |-> <<d>>, tags |-> <<>>]
           w == <<d>>
<1>1. w \in Strings(DOMAIN gr.deps) /\ Front(w) = <<>> /\ Last(w) = d /\ w # <<>> /\ ToSet(w) = {d}
  <2>1. \A S : \A x \in S : <<x>> \in Seq(S) /\ <<x>> # <<>> /\ Len(<<x>>) = 1 /\ <<x>>[1] = x
    OBVIOUS
  <2>2. w \in Seq(DOMAIN gr.deps) /\ w # <<>> /\ Len(w) = 1 /\ w[1] = d
    BY <2>1, Zenon
  <2>3. SubSeq(w, 1, 0) = <<>>
    BY <2>2
  <2>4. DOMAIN w = {1}
    OBVIOUS
  <2>5. ToSet(w) = {d}
    BY <2>2, <2>4 DEF ToSet
  <2>6. Len(w) - 1 = 0
    BY <2>2
  <2>7. Front(w) = <<>> /\ Last(w) = d
    BY <2>2, <2>3, <2>6 DEF Front, Last
  <2> QED BY <2>2, <2>5, <2>7 DEF Strings
<1>2. <<>> \in Strings(Nat) /\ ToSet(<<>>) = {} /\ <<>> \in Strings(DOMAIN gr.deps)
  <2>1. DOMAIN <<>> = {} /\ \A S : <<>> \in Seq(S)
    OBVIOUS
  <2> QED BY <2>1 DEF Strings, ToSet
<1> HIDE DEF w
<1>3. v \in Weights(DOMAIN gr.deps)
  BY VisitsStep
<1> HIDE DEF v
<1>4. Total(v, <<>>) = 0
  BY <1>2, <1>3, EmptyTotal
<1>5. Total(v, w) = v[d]
  <2>1. Total(v, w) = Total(v, Front(w)) + v[Last(w)]
    BY <1>1, <1>3, Totals
  <2>2. v[d] \in Nat
    BY <1>3 DEF Weights
  <2> QED BY <1>1, <1>4, <2>1, <2>2
<1>6. v[d] = 0 + Total(v, w)
  <2>1. v[d] \in Nat
    BY <1>3 DEF Weights
  <2> QED BY <1>5, <2>1
<1>7. s.stack = w /\ s.tags = <<>>
  BY DEF w
<1>8. s \in WalkState(gr)
  BY <1>1, <1>2 DEF WalkState, w
<1> HIDE DEF s
<1>9. RestsOn(gr)[d] = ToSet(s.tags) \cup UNION {RestsOn(gr)[y] : y \in ToSet(s.stack)}
  BY <1>1, <1>2, <1>7
<1> QED BY <1>6, <1>7, <1>8, <1>9 DEF Walked, v, s, w

\* A step meets one dependency more.
LEMMA WalkGoesOn ==
  ASSUME NEW gr \in Graphs, NEW d \in DOMAIN gr.deps, NEW i \in Nat, NEW s, Walked(gr, d, i, s)
  PROVE  Walked(gr, d, i + 1, WalkStep(gr, s))
<1> DEFINE r == WalkStep(gr, s)
           R == RestsOn(gr)
           v == Visits(gr)
<1>0. s \in WalkState(gr)
  BY DEF Walked
<1>1. CASE s.stack = <<>>
  <2>1. r = s
    BY <1>1 DEF WalkStep
  <2> QED BY <1>1, <2>1 DEF Walked
<1>2. CASE s.stack # <<>>
  <2> DEFINE x == Last(s.stack)
             con == gr.deps[x].con
             front == Front(s.stack)
             b == Before(gr.deps[x])
  <2>1. /\ x \in DOMAIN gr.deps /\ r \in WalkState(gr) /\ r.stack = front \o b
        /\ ToSet(r.tags) = ToSet(s.tags) \cup ({con} \ {None})
    BY <1>0, <1>2, WalkStepFacts
  <2>2. s.stack \in Strings(DOMAIN gr.deps)
    BY <1>0 DEF WalkState
  <2>3. b \in Strings(DOMAIN gr.deps)
    BY <2>1, BeforeFacts
  <2>4. front \in Strings(DOMAIN gr.deps) /\ ToSet(s.stack) = ToSet(front) \cup {x}
    BY <1>2, <2>2, Elements
  <2>6. R[x] = ({con} \ {None}) \cup UNION {R[y] : y \in ToSet(b)}
    BY <2>1, RestsOnStep
  <2>7. v \in Weights(DOMAIN gr.deps) /\ v[x] = 1 + Total(v, b)
    BY <2>1, VisitsStep
  <2> HIDE DEF r, R, v, x, con, front, b
  <2>5. ToSet(r.stack) = ToSet(front) \cup ToSet(b)
    <3>1. ToSet(front \o b) = ToSet(front) \cup ToSet(b)
      <4>1. front \in Strings(DOMAIN gr.deps)
        BY <2>4
      <4>2. Joined(front, b)
        BY <2>3, <4>1, Elements, Zenon
      <4> QED BY <4>2 DEF Joined
    <3> QED BY <2>1, <3>1
  <2>8. R[d] = ToSet(s.tags) \cup UNION {R[y] : y \in ToSet(s.stack)}
    BY DEF Walked, R
  <2>9. R[d] = ToSet(r.tags) \cup UNION {R[y] : y \in ToSet(r.stack)}
    <3> DEFINE U(S) == UNION {R[y] : y \in S}
    <3>1. \A S, T : U(S \cup T) = U(S) \cup U(T)
      OBVIOUS
    <3>2. U({x}) = R[x]
      OBVIOUS
    <3>3. /\ U(ToSet(s.stack)) = U(ToSet(front)) \cup R[x]
          /\ U(ToSet(r.stack)) = U(ToSet(front)) \cup U(ToSet(b))
      BY <2>4, <2>5, <3>1, <3>2
    <3>4. R[d] = ToSet(s.tags) \cup U(ToSet(s.stack)) /\ R[x] = ({con} \ {None}) \cup U(ToSet(b))
      BY <2>6, <2>8
    <3> HIDE DEF U
    <3>5. R[d] = ToSet(r.tags) \cup U(ToSet(r.stack))
      BY <2>1, <3>3, <3>4
    <3> QED BY <3>5 DEF U
  <2>10. v[d] = i + Total(v, s.stack)
    BY <1>2 DEF Walked, v
  <2>11. Total(v, s.stack) = Total(v, front) + v[x]
    BY <1>2, <2>2, <2>7, Totals DEF front, x
  <2>12. /\ Total(v, front \o b) = Total(v, front) + Total(v, b)
         /\ Total(v, front) \in Nat /\ Total(v, b) \in Nat
    BY <2>3, <2>4, <2>7, Totals
  <2>13. v[d] = (i + 1) + Total(v, r.stack)
    BY <2>1, <2>7, <2>10, <2>11, <2>12
  <2> QED BY <2>1, <2>9, <2>13 DEF Walked, r, R, v
<1> QED BY <1>1, <1>2

\* A chain holds only concepts that its dependency rests on, and all of them unless there are
\* more dependencies to visit than the walk has steps.
LEMMA ChainRests ==
  ASSUME NEW gr \in Graphs, NEW d \in DOMAIN gr.deps
  PROVE  /\ ToSet(Chain(gr, d)) \subseteq RestsOn(gr)[d]
         /\ Visits(gr)[d] <= MaxWalk => RestsOn(gr)[d] \subseteq ToSet(Chain(gr, d))
<1> DEFINE w == Walk(gr, d)
           At(i) == Walked(gr, d, i, w[i])
           P == {i \in Nat : i <= MaxWalk => At(i)}
           s == w[MaxWalk]
           v == Visits(gr)
<1>0. MaxWalk \in Nat
  BY LimitsAssumption
<1>1. At(0)
  BY WalkBegins, WalkSteps
<1>2. ASSUME NEW i \in Nat, i + 1 <= MaxWalk, At(i) PROVE At(i + 1)
  <2>1. i + 1 \in 1..MaxWalk /\ (i + 1) - 1 = i
    BY <1>0, <1>2
  <2>2. w[i + 1] = WalkStep(gr, w[i])
    BY <2>1, WalkSteps
  <2>3. Walked(gr, d, i + 1, WalkStep(gr, w[i]))
    BY <1>2, WalkGoesOn
  <2> QED BY <2>2, <2>3
<1> HIDE DEF At
<1>3. 0 \in P
  BY <1>1
<1>4. ASSUME NEW i \in P PROVE i + 1 \in P
  BY <1>0, <1>2
<1>5. P = Nat
  BY <1>3, <1>4, SetInduction
<1>6. At(MaxWalk)
  BY <1>0, <1>5
<1>7. Walked(gr, d, MaxWalk, s)
  BY <1>6 DEF At
<1>8. Chain(gr, d) = s.tags
  BY DEF Chain
<1> HIDE DEF s, w, P
<1>9. ToSet(Chain(gr, d)) \subseteq RestsOn(gr)[d]
  BY <1>7, <1>8 DEF Walked
<1>10. ASSUME v[d] <= MaxWalk PROVE s.stack = <<>>
  <2> SUFFICES ASSUME s.stack # <<>> PROVE FALSE
    OBVIOUS
  <2>1. s \in WalkState(gr) /\ v[d] = MaxWalk + Total(v, s.stack)
    BY <1>7 DEF Walked
  <2>2. s.stack \in Strings(DOMAIN gr.deps)
    BY <2>1 DEF WalkState
  <2>3. Front(s.stack) \in Strings(DOMAIN gr.deps) /\ Last(s.stack) \in DOMAIN gr.deps
    BY <2>2, Elements
  <2>4. v \in Weights(DOMAIN gr.deps) /\ v[Last(s.stack)] = 1 + Total(v, Before(gr.deps[Last(s.stack)]))
    BY <2>3, VisitsStep
  <2>5. Before(gr.deps[Last(s.stack)]) \in Strings(DOMAIN gr.deps)
    BY <2>3, BeforeFacts
  <2> HIDE DEF v
  <2>6. Total(v, Before(gr.deps[Last(s.stack)])) \in Nat /\ Total(v, Front(s.stack)) \in Nat
        /\ Total(v, s.stack) = Total(v, Front(s.stack)) + v[Last(s.stack)]
    BY <2>2, <2>3, <2>4, <2>5, Totals
  <2> QED BY <1>0, <1>10, <2>1, <2>4, <2>6
<1>11. ASSUME v[d] <= MaxWalk PROVE RestsOn(gr)[d] \subseteq ToSet(Chain(gr, d))
  <2>1. s.stack = <<>>
    BY <1>10, <1>11
  <2>2. ToSet(s.stack) = {}
    BY <2>1 DEF ToSet
  <2> QED BY <1>7, <1>8, <2>2 DEF Walked
<1> QED BY <1>9, <1>11 DEF v

-----------------------------------------------------------------------------
(* Bounds and sequences put together *)

\* A set of numbers with a bound has a greatest and a least member.
LEMMA Greatest ==
  ASSUME NEW S \in SUBSET Int, S # {}, NEW u \in Int, \A x \in S : x <= u
  PROVE  Max(S) \in S /\ \A x \in S : x <= Max(S)
<1> DEFINE D == {k \in Nat : u - k \in S}
           R == {p \in Nat \X Nat : p[1] < p[2]}
<1>1. \A x \in S : u - x \in D
  OBVIOUS
<1>2. IsWellFoundedOn(R, Nat)
  BY NatLessThanWellFounded DEF OpToRel
<1>3. D # {} /\ D \subseteq Nat
  BY <1>1
<1>4. PICK k \in D : \A m \in D : <<m, k>> \notin R
  <2> HIDE DEF D, R
  <2> QED BY <1>2, <1>3, WFMin, Zenon
<1>5. \A m \in D : k <= m
  <2> SUFFICES ASSUME NEW m \in D, ~(k <= m) PROVE FALSE
    OBVIOUS
  <2>1. m \in Nat /\ k \in Nat /\ m < k
    OBVIOUS
  <2>2. <<m, k>> \in R
    BY <2>1
  <2> HIDE DEF R
  <2> QED BY <1>4, <2>2
<1>6. u - k \in S /\ \A x \in S : u - k >= x
  BY <1>1, <1>5
<1> QED BY <1>6 DEF Max

\* The least number of a set.
LEMMA Least ==
  ASSUME NEW S \in SUBSET Nat, S # {}
  PROVE  Min(S) \in S /\ \A x \in S : Min(S) <= x
<1> DEFINE R == {p \in Nat \X Nat : p[1] < p[2]}
<1>1. IsWellFoundedOn(R, Nat)
  BY NatLessThanWellFounded DEF OpToRel
<1>2. PICK k \in S : \A m \in S : <<m, k>> \notin R
  <2> HIDE DEF R
  <2> QED BY <1>1, WFMin, Zenon
<1>3. \A m \in S : k <= m
  <2> SUFFICES ASSUME NEW m \in S, ~(k <= m) PROVE FALSE
    OBVIOUS
  <2>1. m \in Nat /\ k \in Nat /\ m < k
    OBVIOUS
  <2>2. <<m, k>> \in R
    BY <2>1
  <2> HIDE DEF R
  <2> QED BY <1>2, <2>2
<1> QED BY <1>3 DEF Min

\* Finitely many numbers have a bound.
LEMMA Bounded ==
  ASSUME NEW n \in Nat, NEW f \in [1..n -> Nat]
  PROVE  \E u \in Nat : \A i \in 1..n : f[i] <= u
<1> DEFINE P == {k \in Nat : k <= n => \E u \in Nat : \A i \in 1..k : f[i] <= u}
<1>1. 0 \in P
  <2>1. \A i \in 1..0 : f[i] <= 0
    OBVIOUS
  <2> QED BY <2>1
<1>2. ASSUME NEW k \in P PROVE k + 1 \in P
  <2> SUFFICES ASSUME k + 1 <= n PROVE \E u \in Nat : \A i \in 1..(k + 1) : f[i] <= u
    OBVIOUS
  <2>1. PICK u \in Nat : \A i \in 1..k : f[i] <= u
    OBVIOUS
  <2>2. f[k + 1] \in Nat
    OBVIOUS
  <2>3. \A i \in 1..(k + 1) : i \in 1..k \/ i = k + 1
    OBVIOUS
  <2>4. \A i \in 1..k : f[i] \in Nat
    OBVIOUS
  <2>5. \A i \in 1..(k + 1) : f[i] <= u + f[k + 1]
    BY <2>1, <2>2, <2>3, <2>4
  <2> QED BY <2>2, <2>5
<1>3. n \in P
  <2> HIDE DEF P
  <2>1. P \subseteq Nat
    BY DEF P
  <2>2. P = Nat
    BY <1>1, <1>2, <2>1, SetInduction
  <2> QED BY <2>2
<1> QED BY <1>3

\* The elements of sequences put together are theirs.
Flattened(seqs, n, s) == \A x : x \in ToSet(s) <=> \E j \in 1..n : x \in ToSet(seqs[j])
LEMMA FlattenElements ==
  ASSUME NEW S, NEW n \in Nat \ {0}, NEW seqs \in [1..n -> Strings(S)]
  PROVE  FlattenSeq(seqs) \in Strings(S) /\ Flattened(seqs, n, FlattenSeq(seqs))
<1> DEFINE V == Strings(S)
           G == [i \in 1..n |-> [v \in V |-> v \o seqs[i]]]
           F(f) == [i \in 1..n |-> IF i = 1 THEN seqs[i] ELSE f[i - 1] \o seqs[i]]
<1>1. \A s, t \in V : s \o t \in V /\ Joined(s, t)
  BY Elements, Zenon
<1>2. <<>> \in V
  BY DEF Strings
<1>3. \A s \in V : <<>> \o s = s
  BY DEF Strings
<1>4. \A i \in 1..n : seqs[i] \in V
  OBVIOUS
<1>5. Len(seqs) = n
  <2>1. seqs \in Seq(V)
    OBVIOUS
  <2> QED BY <2>1
<1> HIDE DEF V
<1>6. G \in [1..n -> [V -> V]]
  BY <1>1, <1>4
<1>7. PICK f : Computed(f, V, <<>>, n, G)
  <2> HIDE DEF G
  <2>1. n \in Nat
    OBVIOUS
  <2> QED BY <1>2, <1>6, <2>1, Recursion, Zenon
<1>8. f \in [0..n -> V] /\ f[0] = <<>> /\ \A i \in 1..n : f[i] = G[i][f[i - 1]]
  <2> HIDE DEF G
  <2> QED BY <1>7 DEF Computed
<1>9. \A i \in 1..n : f[i] = f[i - 1] \o seqs[i]
  <2> SUFFICES ASSUME NEW i \in 1..n PROVE f[i] = f[i - 1] \o seqs[i]
    OBVIOUS
  <2>1. i - 1 \in 0..n
    OBVIOUS
  <2>2. f[i - 1] \in V
    BY <1>8, <2>1
  <2> QED BY <1>8, <2>2
<1> DEFINE e == [i \in 1..n |-> f[i]]
<1>10. e = F(e)
  <2>1. ASSUME NEW i \in 1..n
        PROVE  e[i] = IF i = 1 THEN seqs[i] ELSE e[i - 1] \o seqs[i]
    <3>1. CASE i = 1
      <4>1. f[1] = f[1 - 1] \o seqs[1] /\ 1 - 1 = 0
        BY <1>9, <3>1
      <4>2. f[1] = <<>> \o seqs[1]
        BY <1>8, <4>1
      <4>3. seqs[1] \in V
        BY <1>4, <3>1
      <4> QED BY <1>3, <3>1, <4>2, <4>3
    <3>2. CASE i # 1
      <4>1. i - 1 \in 1..n
        BY <3>2
      <4> QED BY <1>9, <3>2, <4>1
    <3> QED BY <3>1, <3>2
  <2>2. e = [i \in 1..n |-> e[i]]
    OBVIOUS
  <2> HIDE DEF e
  <2> QED BY <2>1, <2>2, Zenon
<1> HIDE DEF e
<1>11. PICK h : h = F(h) /\ FlattenSeq(seqs) = h[n]
  <2> DEFINE h == CHOOSE g0 : g0 = F(g0)
  <2>1. h = F(h)
    <3> HIDE DEF F
    <3> QED BY <1>10
  <2>2. FlattenSeq(seqs) = h[n]
    BY <1>5 DEF FlattenSeq
  <2> HIDE DEF h, F
  <2> QED BY <2>1, <2>2
<1>12. \A i \in 1..n : h[i] = IF i = 1 THEN seqs[i] ELSE h[i - 1] \o seqs[i]
  <2> SUFFICES ASSUME NEW i \in 1..n PROVE h[i] = IF i = 1 THEN seqs[i] ELSE h[i - 1] \o seqs[i]
    OBVIOUS
  <2>1. F(h)[i] = IF i = 1 THEN seqs[i] ELSE h[i - 1] \o seqs[i]
    OBVIOUS
  <2> HIDE DEF F
  <2> QED BY <1>11, <2>1
<1> DEFINE Right(k) == h[k] \in V /\ \A x : x \in ToSet(h[k]) <=> \E j \in 1..k : x \in ToSet(seqs[j])
           P == {k \in Nat : k + 1 <= n => Right(k + 1)}
<1>13. 0 \in P
  <2>1. h[1] = seqs[1]
    BY <1>12
  <2>2. \A j \in 1..1 : j = 1
    OBVIOUS
  <2>3. h[1] \in V
    BY <1>4, <2>1
  <2>4. Right(1)
    BY <2>1, <2>2, <2>3
  <2> HIDE DEF Right
  <2> QED BY <2>4
<1>14. ASSUME NEW k \in P PROVE k + 1 \in P
  <2> SUFFICES ASSUME (k + 1) + 1 <= n PROVE Right((k + 1) + 1)
    <3> HIDE DEF Right
    <3> QED OBVIOUS
  <2>1. k \in Nat /\ Right(k + 1)
    <3> HIDE DEF Right
    <3> QED OBVIOUS
  <2> DEFINE m == k + 1
  <2>2. m \in 1..n /\ m + 1 \in 1..n /\ m + 1 # 1 /\ (m + 1) - 1 = m
    BY <2>1
  <2>3. Right(m)
    BY <2>1
  <2> HIDE DEF m
  <2>4. h[m + 1] = h[m] \o seqs[m + 1]
    BY <1>12, <2>2
  <2>5. h[m] \in V /\ seqs[m + 1] \in V
    BY <1>4, <2>2, <2>3
  <2>6. h[m + 1] \in V /\ Joined(h[m], seqs[m + 1])
    BY <1>1, <2>4, <2>5
  <2>7. ToSet(h[m + 1]) = ToSet(h[m]) \cup ToSet(seqs[m + 1])
    BY <2>4, <2>6 DEF Joined
  <2>8. \A j : j \in 1..(m + 1) <=> j \in 1..m \/ j = m + 1
    BY <2>2
  <2>9. Right(m + 1)
    BY <2>3, <2>6, <2>7, <2>8, Zenon
  <2> QED BY <2>9 DEF m
<1>15. n - 1 \in P
  <2> HIDE DEF P
  <2>1. P = Nat
    <3>1. P \subseteq Nat
      BY DEF P
    <3> QED BY <1>13, <1>14, <3>1, SetInduction
  <2> QED BY <2>1
<1>16. Right(n)
  <2> HIDE DEF Right
  <2>1. (n - 1) + 1 = n
    OBVIOUS
  <2> QED BY <1>15, <2>1
<1> QED BY <1>11, <1>16 DEF Flattened, V
-----------------------------------------------------------------------------
(* The links and the bounds of an item of a pseudo model *)

Entry(gr) == [role : Nat, to : DOMAIN gr.nodes, dep : {None} \cup DOMAIN gr.deps]

\* The nodes of an item: at least one, of the graph.
Standing(gr, nodes, k) ==
  k \in Nat \ {0} /\ DOMAIN nodes = 1..k /\ \A i \in 1..k : nodes[i].node \in DOMAIN gr.nodes

\* The links of a node are entries of the graph, and there are some if the node has the role.
LEMMA LinksFacts ==
  ASSUME NEW gr \in Graphs, NEW n \in DOMAIN gr.nodes, NEW r
  PROVE  /\ Links(gr, n, r) \in Strings(Entry(gr))
         /\ (\E e \in ToSet(gr.nodes[n].roles) : e.role = r) => Links(gr, n, r) # <<>>
<1> DEFINE roles == gr.nodes[n].roles
           E == Entry(gr)
           others == {e \in ToSet(roles) : e.role # r}
<1>1. roles \in Seq(E)
  BY GraphsAssumption DEF WellFormed, Entry
<1>2. Links(gr, n, r) = Without(roles, others)
  BY DEF Links
<1>3. ASSUME NEW e \in ToSet(roles), e.role = r PROVE \E i \in DOMAIN roles : roles[i] \notin others
  BY <1>3 DEF ToSet
<1> HIDE DEF roles, E
<1>4. Seq(E \ others) \subseteq Seq(E)
  OBVIOUS
<1> HIDE DEF others
<1>5. /\ Without(roles, others) \in Seq(E \ others)
      /\ (\E i \in DOMAIN roles : roles[i] \notin others) => Without(roles, others) # <<>>
  BY <1>1, WithoutElements
<1> QED BY <1>2, <1>3, <1>4, <1>5 DEF Strings, roles, E

\* The first links of all nodes: there are some just where a node has one.
LEMMA LinksOfAllFacts ==
  ASSUME NEW gr \in Graphs, NEW nodes, NEW k, Standing(gr, nodes, k), NEW r
  PROVE  /\ LinksOfAll(gr, nodes, r) \in Strings(Entry(gr))
         /\ LinksOfAll(gr, nodes, r) # <<>> <=> \E i \in 1..k : Links(gr, nodes[i].node, r) # <<>>
<1> DEFINE E == Entry(gr)
           links == [i \in 1..k |-> Links(gr, nodes[i].node, r)]
           all == FlattenSeq(links)
           ids == [i \in DOMAIN all |-> i]
           again == {i \in DOMAIN all : \E j \in 1..(i - 1) : all[j].to = all[i].to}
           first == Without(ids, again)
           result == [i \in DOMAIN first |-> all[first[i]]]
<1>1. k \in Nat \ {0} /\ DOMAIN nodes = 1..k
  BY DEF Standing
<1>2. links \in [1..k -> Strings(E)]
  BY LinksFacts DEF Standing
<1>3. LinksOfAll(gr, nodes, r) = result
  BY <1>1 DEF LinksOfAll
<1>4. \A i \in 1..k : links[i] = Links(gr, nodes[i].node, r)
  OBVIOUS
<1> HIDE DEF links
<1>5. all \in Strings(E) /\ Flattened(links, k, all)
  BY <1>1, <1>2, FlattenElements
<1>6. \A x : x \in ToSet(all) <=> \E j \in 1..k : x \in ToSet(links[j])
  BY <1>5 DEF Flattened
<1> HIDE DEF all, E
<1>7. all \in Seq(E) /\ DOMAIN all = 1..Len(all) /\ Len(all) \in Nat
  BY <1>5 DEF Strings
<1>8. \A s \in Seq(E) : s # <<>> <=> ToSet(s) # {}
  <2> SUFFICES ASSUME NEW s \in Seq(E) PROVE s # <<>> <=> ToSet(s) # {}
    OBVIOUS
  <2>1. DOMAIN s = 1..Len(s) /\ Len(s) \in Nat /\ (s = <<>> <=> Len(s) = 0)
    OBVIOUS
  <2> QED BY <2>1 DEF ToSet
<1>9. all # <<>> <=> \E i \in 1..k : links[i] # <<>>
  <2>1. \A i \in 1..k : links[i] \in Seq(E)
    BY <1>2 DEF Strings
  <2>2. ToSet(all) # {} <=> \E i \in 1..k : ToSet(links[i]) # {}
    BY <1>6
  <2> QED BY <1>7, <1>8, <2>1, <2>2
<1>10. ids \in Seq(DOMAIN all) /\ DOMAIN ids = DOMAIN all /\ \A i \in DOMAIN all : ids[i] = i
  BY <1>7
<1>11. /\ first \in Seq(DOMAIN all \ again)
       /\ (\E i \in DOMAIN all : i \notin again) => first # <<>>
  <2> HIDE DEF ids, again
  <2> QED BY <1>10, WithoutElements
<1>12. all # <<>> => first # <<>>
  <2>1. all # <<>> => 1 \in DOMAIN all
    BY <1>7
  <2>2. 1 \notin again
    OBVIOUS
  <2> HIDE DEF again, first
  <2> QED BY <1>11, <2>1, <2>2
<1> HIDE DEF first, again
<1>13. DOMAIN first = 1..Len(first) /\ Len(first) \in Nat /\ \A i \in 1..Len(first) : first[i] \in DOMAIN all
  BY <1>11
<1>14. result \in Seq(E) /\ Len(result) = Len(first)
  BY <1>7, <1>13
<1>15. all = <<>> => first = <<>>
  BY <1>7, <1>13
<1>16. result # <<>> <=> first # <<>>
  BY <1>13, <1>14
<1> HIDE DEF result
<1> QED BY <1>3, <1>4, <1>9, <1>12, <1>14, <1>15, <1>16 DEF Strings, E

\* A number restriction of a label asks for a number.
LEMMA NumberTyped == \A e : e.con \in DOMAIN Cardinalities => Number(e) \in Int
<1> SUFFICES ASSUME NEW e, e.con \in DOMAIN Cardinalities PROVE Number(e) \in Int
  OBVIOUS
<1>1. Cardinalities[e.con].n \in Nat
  BY RolesAssumption
<1> DEFINE more == IF ~e.neg THEN 0 ELSE IF AtLeast(e) THEN 1 ELSE -1
<1>2. more \in Int
  OBVIOUS
<1>3. Number(e) = Cardinalities[e.con].n + more
  BY DEF Number
<1> HIDE DEF more
<1> QED BY <1>1, <1>2, <1>3

\* The bounds of an entry are in order, save those a negated qualified restriction gives.
InOrder(e) ==
  /\ e.lowerAtLeast <= e.upperAtLeast
  /\ \A m \in e.upperAtMost : e.lowerAtMost <= m \/ \E c \in DOMAIN Cardinalities : Cardinalities[c].qualified

\* The nodes of an item whose links are followed.
Followed(gr, nodes) ==
  \A i \in DOMAIN nodes : LET n == gr.nodes[nodes[i].node] IN ~n.blocked /\ ~n.cached /\ ~n.nominal

\* What is made for a role that a node has: bounds in order, and an item of nodes again.
LEMMA PseudoRoleFacts ==
  ASSUME NEW gr \in Graphs, NEW nodes, NEW k, Standing(gr, nodes, k), Followed(gr, nodes),
         NEW r, NEW id, \E i \in 1..k : Links(gr, nodes[i].node, r) # <<>>
  PROVE  /\ PseudoRole(gr, nodes, r, id).entry.model = id
         /\ InOrder(PseudoRole(gr, nodes, r, id).entry)
         /\ \E l : Standing(gr, PseudoRole(gr, nodes, r, id).nodes, l)
<1> DEFINE count(i) == Len(Links(gr, nodes[i].node, r))
           links == LinksOfAll(gr, nodes, r)
           det == {e \in ToSet(links) : Det(gr, e.dep)}
           nondet == nodes[Min({i \in DOMAIN nodes : Links(gr, nodes[i].node, r) # <<>>})].nondet
           counts == {Len(Links(gr, nodes[i].node, r)) : i \in DOMAIN nodes}
           restrictions == {e \in UNION {ToSet(gr.nodes[nodes[i].node].label) : i \in DOMAIN nodes} :
                              /\ e.con \in DOMAIN Cardinalities /\ Cardinalities[e.con].role = r
                              /\ Det(gr, e.dep)}
           atLeast == {Number(e) : e \in {f \in restrictions : AtLeast(f)}}
           atMost == {Number(e) : e \in {f \in restrictions : ~AtLeast(f) /\ (f.neg \/ ~Cardinalities[f.con].qualified)}}
           low == {0} \cup atLeast \cup {1 : e \in det}
           below == Reverse([i \in DOMAIN links |-> [node |-> links[i].to, nondet |-> links[i] \notin det /\ ~nondet]])
           entry == [model |-> id, deterministic |-> det # {} /\ ~nondet,
                     lowerAtLeast |-> Max(low), upperAtLeast |-> Max(counts),
                     upperAtMost |-> {m \in atMost : m >= 0 /\ \A j \in atMost : j >= 0 => m <= j},
                     lowerAtMost |-> Min(counts)]
<1>1. PseudoRole(gr, nodes, r, id) = [entry |-> entry, nodes |-> below]
  BY DEF PseudoRole
<1>2. k \in Nat \ {0} /\ DOMAIN nodes = 1..k /\ \A i \in 1..k : nodes[i].node \in DOMAIN gr.nodes
  BY DEF Standing
<1>3. links \in Seq(Entry(gr)) /\ links # <<>>
  BY LinksOfAllFacts DEF Strings
<1>4. \A i \in 1..k : /\ Links(gr, nodes[i].node, r) \in Strings(Entry(gr)) /\ count(i) \in Nat
                      /\ Links(gr, nodes[i].node, r) # <<>> => count(i) >= 1
  <2> SUFFICES ASSUME NEW i \in 1..k
               PROVE  /\ Links(gr, nodes[i].node, r) \in Strings(Entry(gr)) /\ count(i) \in Nat
                      /\ Links(gr, nodes[i].node, r) # <<>> => count(i) >= 1
    OBVIOUS
  <2>1. Links(gr, nodes[i].node, r) \in Strings(Entry(gr))
    BY <1>2, LinksFacts
  <2> DEFINE l == Links(gr, nodes[i].node, r)
  <2>2. l \in Seq(Entry(gr))
    BY <2>1 DEF Strings
  <2> HIDE DEF l
  <2>3. Len(l) \in Nat /\ (l # <<>> => Len(l) >= 1)
    BY <2>2
  <2> QED BY <2>1, <2>3 DEF l
<1>5. \A e \in restrictions : \E i \in 1..k :
        /\ Number(e) \in Int
        /\ AtLeast(e) => Number(e) <= count(i)
        /\ ~AtLeast(e) => Cardinalities[e.con].qualified \/ count(i) <= Number(e)
  <2> SUFFICES ASSUME NEW e \in restrictions
               PROVE  \E i \in 1..k :
                        /\ Number(e) \in Int
                        /\ AtLeast(e) => Number(e) <= count(i)
                        /\ ~AtLeast(e) => Cardinalities[e.con].qualified \/ count(i) <= Number(e)
    OBVIOUS
  <2>1. PICK i \in 1..k : e \in ToSet(gr.nodes[nodes[i].node].label)
    BY <1>2
  <2>2. e.con \in DOMAIN Cardinalities /\ Cardinalities[e.con].role = r
    OBVIOUS
  <2>3. LET n == gr.nodes[nodes[i].node] IN ~n.blocked /\ ~n.cached /\ ~n.nominal
    BY <1>2 DEF Followed
  <2>4. nodes[i].node \in DOMAIN gr.nodes
    BY <1>2
  <2> HIDE DEF restrictions
  <2>5. IF AtLeast(e) THEN Number(e) <= count(i)
        ELSE Cardinalities[e.con].qualified \/ count(i) <= Number(e)
    BY <2>1, <2>2, <2>3, <2>4, GraphsAssumption, Zenon DEF RestrictionsHold
  <2>6. Number(e) \in Int
    BY <2>2, NumberTyped
  <2> QED BY <2>5, <2>6
<1>6. PICK u \in Nat : \A i \in 1..k : count(i) <= u
  <2> DEFINE c == [i \in 1..k |-> count(i)]
  <2>1. c \in [1..k -> Nat]
    BY <1>4
  <2>2. \E u \in Nat : \A i \in 1..k : c[i] <= u
    <3> HIDE DEF c
    <3> QED BY <1>2, <2>1, Bounded
  <2> QED BY <2>2
<1> HIDE DEF links
<1>7. counts = {count(i) : i \in 1..k}
  BY <1>2
<1> HIDE DEF counts
<1> DEFINE counted == {count(i) : i \in 1..k}
<1>8. counts = counted
  BY <1>7
<1>9. counted \subseteq Nat /\ (\A x \in counted : x <= u) /\ \A i \in 1..k : count(i) \in counted
  BY <1>4, <1>6
<1>10. counts # {} /\ \A i \in 1..k : count(i) \in counts
  BY <1>2, <1>8, <1>9
<1>11. counts \in SUBSET Int /\ counts \in SUBSET Nat /\ u \in Int /\ \A x \in counts : x <= u
  BY <1>8, <1>9
<1>12. Max(counts) \in Nat /\ \A i \in 1..k : count(i) <= Max(counts)
  <2>1. Max(counts) \in counts /\ \A x \in counts : x <= Max(counts)
    BY <1>10, <1>11, Greatest
  <2> QED BY <1>10, <1>11, <2>1
<1>13. Min(counts) \in Nat /\ \A i \in 1..k : Min(counts) <= count(i)
  <2>1. Min(counts) \in counts /\ \A x \in counts : Min(counts) <= x
    BY <1>10, <1>11, Least
  <2> QED BY <1>10, <1>11, <2>1
<1>14. \A x \in low : x \in Int /\ x <= Max(counts)
  <2>1. ASSUME NEW x \in atLeast PROVE x \in Int /\ x <= Max(counts)
    <3>1. PICK e \in restrictions : AtLeast(e) /\ x = Number(e)
      OBVIOUS
    <3> HIDE DEF restrictions
    <3>2. PICK i \in 1..k : Number(e) \in Int /\ Number(e) <= count(i)
      BY <1>5, <3>1
    <3> HIDE DEF count
    <3> QED BY <1>4, <1>12, <3>1, <3>2
  <2>2. 1 <= Max(counts)
    <3>1. PICK i \in 1..k : Links(gr, nodes[i].node, r) # <<>>
      OBVIOUS
    <3>2. count(i) >= 1 /\ count(i) \in Nat
      BY <1>4, <3>1
    <3> HIDE DEF count
    <3> QED BY <1>12, <3>2
  <2> HIDE DEF atLeast, det
  <2> QED BY <1>12, <2>1, <2>2
<1>15. Max(low) <= Max(counts)
  <2>1. low \in SUBSET Int /\ low # {}
    <3>1. 0 \in low
      OBVIOUS
    <3> HIDE DEF low
    <3> QED BY <1>14, <3>1
  <2> HIDE DEF low
  <2> DEFINE most == Max(counts)
  <2>2. most \in Int /\ \A x \in low : x <= most
    BY <1>12, <1>14
  <2> HIDE DEF most
  <2>3. Max(low) \in low
    BY <2>1, <2>2, Greatest
  <2> QED BY <2>2, <2>3 DEF most
<1>16. ASSUME NEW m \in atMost
       PROVE  Min(counts) <= m \/ \E c \in DOMAIN Cardinalities : Cardinalities[c].qualified
  <2>1. PICK e \in restrictions : ~AtLeast(e) /\ m = Number(e)
    OBVIOUS
  <2>2. e.con \in DOMAIN Cardinalities
    OBVIOUS
  <2> HIDE DEF restrictions
  <2>3. PICK i \in 1..k : Number(e) \in Int /\ (Cardinalities[e.con].qualified \/ count(i) <= Number(e))
    BY <1>5, <2>1
  <2> HIDE DEF count
  <2> QED BY <1>4, <1>13, <2>1, <2>2, <2>3
<1>17. InOrder(entry)
  <2> HIDE DEF low, atMost, det, nondet
  <2> QED BY <1>15, <1>16 DEF InOrder
<1>18. Standing(gr, below, Len(links))
  <2>1. Len(links) \in Nat \ {0} /\ DOMAIN links = 1..Len(links)
    BY <1>3
  <2> DEFINE s == [i \in DOMAIN links |-> [node |-> links[i].to, nondet |-> links[i] \notin det /\ ~nondet]]
  <2>2. \A i \in 1..Len(links) : links[i].to \in DOMAIN gr.nodes
    <3>1. \A i \in 1..Len(links) : links[i] \in Entry(gr)
      BY <1>3, <2>1
    <3>2. \A e \in Entry(gr) : e.to \in DOMAIN gr.nodes
      BY DEF Entry
    <3> QED BY <3>1, <3>2
  <2>3. \A i \in 1..Len(links) : s[i].node \in DOMAIN gr.nodes
    BY <2>1, <2>2
  <2>4. Len(s) = Len(links)
    BY <2>1
  <2> HIDE DEF s
  <2>5. Reverse(s) = [i \in 1..Len(links) |-> s[(Len(links) - i) + 1]]
    BY <2>4 DEF Reverse
  <2>6. \A i \in 1..Len(links) : (Len(links) - i) + 1 \in 1..Len(links)
    BY <2>1
  <2>7. Standing(gr, Reverse(s), Len(links))
    BY <2>1, <2>3, <2>5, <2>6 DEF Standing
  <2> QED BY <2>7 DEF s
<1> HIDE DEF below
<1>19. entry.model = id
  OBVIOUS
<1> HIDE DEF entry
<1> QED BY <1>1, <1>17, <1>18, <1>19

-----------------------------------------------------------------------------
(* The base of a pseudo model, and the identifiers of its items *)

Base(gr) == <<[node |-> TestedNode(gr), nondet |-> FALSE]>>
BaseHolds(gr, model) ==
  model.validConcepts =>
    /\ Subsumers[gr.con] \ Equivalent \subseteq DOMAIN model.concepts
    /\ {c \in Named \cap DOMAIN model.concepts : model.concepts[c]} \subseteq {gr.con} \cup Subsumers[gr.con]

\* What the concept map of the tested node says is so.
LEMMA BaseConcepts ==
  ASSUME NEW gr \in Graphs, gr.con \in Linked, NEW model, model.concepts = PseudoConcepts(gr, Base(gr))
  PROVE  BaseHolds(gr, model)
<1> DEFINE x == [node |-> TestedNode(gr), nondet |-> FALSE]
           entered == {e.con : e \in Entered(gr, x)}
           of(i) == {e.con : e \in Entered(gr, Base(gr)[i])}
           last(c) == Base(gr)[Max({i \in DOMAIN Base(gr) : c \in of(i)})]
           concepts == [c \in UNION {of(i) : i \in DOMAIN Base(gr)} |->
                          \E e \in Entered(gr, last(c)) : e.con = c /\ Det(gr, e.dep) /\ ~last(c).nondet]
<1>1. model.concepts = concepts
  BY DEF PseudoConcepts
<1>2. DOMAIN Base(gr) = {1} /\ Base(gr)[1] = x
  BY DEF Base
<1>3. of(1) = entered
  BY <1>2
<1>4. UNION {of(i) : i \in DOMAIN Base(gr)} = entered
  BY <1>2, <1>3
<1>5. ASSUME NEW c \in entered PROVE last(c) = x
  <2>1. {i \in DOMAIN Base(gr) : c \in of(i)} = {1}
    BY <1>2, <1>3
  <2>2. Max({1}) = 1
    BY DEF Max
  <2> QED BY <1>2, <2>1, <2>2
<1>6. /\ DOMAIN model.concepts = entered
      /\ \A c \in entered : model.concepts[c] => \E e \in Entered(gr, x) : e.con = c /\ Det(gr, e.dep)
  <2>1. \A c \in entered : concepts[c] = \E e \in Entered(gr, x) : e.con = c /\ Det(gr, e.dep) /\ ~x.nondet
    <3> SUFFICES ASSUME NEW c \in entered
                 PROVE  concepts[c] = \E e \in Entered(gr, x) : e.con = c /\ Det(gr, e.dep) /\ ~x.nondet
      OBVIOUS
    <3>1. concepts[c] = \E e \in Entered(gr, last(c)) : e.con = c /\ Det(gr, e.dep) /\ ~last(c).nondet
      <4> HIDE DEF of, entered, last
      <4> QED BY <1>4
    <3> HIDE DEF concepts, last, entered, x
    <3> QED BY <1>5, <3>1, Zenon
  <2>2. DOMAIN concepts = entered
    <3> HIDE DEF of, entered, last
    <3> QED BY <1>4
  <2> HIDE DEF concepts, entered, x
  <2> QED BY <1>1, <2>1, <2>2
<1> HIDE DEF concepts, of, last
<1>7. gr.con \in Named /\ gr.con \in Present(gr, TestedNode(gr)) /\ TestedNode(gr) \in Read(gr)
  BY GraphsAssumption DEF Linked, LabelsAreModels, Read
<1>8. Subsumers[gr.con] \ Equivalent \subseteq entered
  <2>1. Subsumers[gr.con] \ Equivalent \subseteq Present(gr, TestedNode(gr))
    BY <1>7, LabelFacts
  <2>2. Subsumers[gr.con] \subseteq Named \ {Top}
    BY <1>7, ConceptsAssumption
  <2>3. \A c \in Present(gr, TestedNode(gr)) : c \in Named \ (Equivalent \cup {Top}) => c \in entered
    BY DEF Present, Entered
  <2> HIDE DEF entered
  <2> QED BY <2>1, <2>2, <2>3
<1>9. ASSUME NEW c \in Named \cap entered, model.concepts[c]
      PROVE  c \in {gr.con} \cup Subsumers[gr.con]
  <2>1. PICK e \in Entered(gr, x) : e.con = c /\ Det(gr, e.dep)
    <3> HIDE DEF entered, x
    <3> QED BY <1>6, <1>9
  <2>2. e \in ToSet(gr.nodes[TestedNode(gr)].label) /\ ~e.neg /\ c # Top
    BY <1>9, <2>1, ConceptsAssumption DEF Entered
  <2>3. e.dep # None /\ gr.deps[e.dep].branch <= MaxDet(gr)
    BY <2>1 DEF Det
  <2>4. e.con \in {Top, gr.con} \cup Subsumers[gr.con]
    BY <2>1, <2>2, <2>3, GraphsAssumption DEF RootDependencies, MaxDet, TestedNode
  <2> QED BY <2>1, <2>2, <2>4
<1> HIDE DEF entered
<1> QED BY <1>6, <1>8, <1>9 DEF BaseHolds

\* The members of a set of numbers in their order.
Rank(S, r) == Cardinality({q \in S : q < r})
LEMMA Ranks ==
  ASSUME NEW S \in SUBSET Nat, IsFiniteSet(S)
  PROVE  /\ Cardinality(S) \in Nat
         /\ \A r \in S : Rank(S, r) \in Nat /\ Rank(S, r) < Cardinality(S)
         /\ \A r, q \in S : Rank(S, r) = Rank(S, q) => r = q
         /\ \A i \in Nat : i < Cardinality(S) => \E r \in S : Rank(S, r) = i
<1> DEFINE before(r) == {q \in S : q < r}
           k == Cardinality(S)
<1>1. k \in Nat
  BY FS_CardinalityType
<1>2. ASSUME NEW r \in S
      PROVE  IsFiniteSet(before(r)) /\ Rank(S, r) = Cardinality(before(r)) /\ Rank(S, r) \in Nat /\ Rank(S, r) < k
  <2>1. before(r) \in SUBSET S /\ before(r) # S
    OBVIOUS
  <2>2. IsFiniteSet(before(r)) /\ Cardinality(before(r)) <= k /\ (k = Cardinality(before(r)) => S = before(r))
    <3> HIDE DEF before
    <3> QED BY <2>1, FS_Subset
  <2>3. Rank(S, r) = Cardinality(before(r))
    BY DEF Rank
  <2>4. Cardinality(before(r)) \in Nat
    <3> HIDE DEF before
    <3> QED BY <2>2, FS_CardinalityType
  <2> HIDE DEF before, k
  <2> QED BY <1>1, <2>1, <2>2, <2>3, <2>4
<1>3. ASSUME NEW r \in S, NEW q \in S, r < q PROVE Rank(S, r) < Rank(S, q)
  <2>1. before(r) \in SUBSET before(q) /\ before(r) # before(q)
    <3>1. \A x \in before(r) : x \in before(q)
      <4>1. \A a, b, c \in Nat : a < b /\ b < c => a < c
        OBVIOUS
      <4> QED BY <1>3, <4>1
    <3>2. r \in before(q) /\ r \notin before(r)
      BY <1>3
    <3> HIDE DEF before
    <3> QED BY <3>1, <3>2
  <2>2. /\ Cardinality(before(r)) <= Cardinality(before(q))
        /\ Cardinality(before(q)) = Cardinality(before(r)) => before(q) = before(r)
    <3>1. IsFiniteSet(before(q))
      BY <1>2
    <3> HIDE DEF before
    <3> QED BY <2>1, <3>1, FS_Subset
  <2> HIDE DEF before
  <2> QED BY <1>2, <2>1, <2>2
<1>4. \A r, q \in S : Rank(S, r) = Rank(S, q) => r = q
  <2> SUFFICES ASSUME NEW r \in S, NEW q \in S, r # q PROVE Rank(S, r) # Rank(S, q)
    OBVIOUS
  <2>1. r < q \/ q < r
    OBVIOUS
  <2>2. Rank(S, r) < Rank(S, q) \/ Rank(S, q) < Rank(S, r)
    BY <1>3, <2>1
  <2>3. Rank(S, r) \in Nat /\ Rank(S, q) \in Nat
    BY <1>2
  <2> QED BY <2>2, <2>3
<1> DEFINE f == [r \in S |-> Rank(S, r)]
<1>5. f \in Injection(S, 0..(k - 1))
  <2>1. \A r \in S : Rank(S, r) \in 0..(k - 1)
    <3> HIDE DEF before, k
    <3> QED BY <1>1, <1>2
  <2>2. f \in [S -> 0..(k - 1)]
    BY <2>1
  <2> QED BY <1>4, <2>2 DEF Injection, IsInjective
<1>6. IsFiniteSet(0..(k - 1)) /\ Cardinality(0..(k - 1)) = k
  <2>1. 0 \in Int /\ k - 1 \in Int /\ (0 > k - 1 => k = 0)
    BY <1>1
  <2> HIDE DEF k
  <2> QED BY <1>1, <2>1, FS_Interval
<1>7. f \in Surjection(S, 0..(k - 1))
  <2>1. k = Cardinality(S)
    OBVIOUS
  <2> HIDE DEF f, k
  <2> QED BY <1>5, <1>6, <2>1, FS_Injection
<1>8. \A i \in 0..(k - 1) : \E r \in S : f[r] = i
  <2> HIDE DEF f, k
  <2> QED BY <1>7 DEF Surjection
<1> HIDE DEF k
<1>9. \A i \in Nat : i < k => \E r \in S : Rank(S, r) = i
  <2>1. \A i \in Nat : i < k => i \in 0..(k - 1)
    BY <1>1
  <2> QED BY <1>8, <2>1
<1> QED BY <1>1, <1>2, <1>4, <1>9 DEF k

-----------------------------------------------------------------------------
(* What holds while a pseudo model is built *)

Sequential(s) == \E W : s \in Seq(W)

StackInv(gr, s) ==
  \A i \in DOMAIN s.stack :
    /\ \E k : Standing(gr, s.stack[i].nodes, k)
    /\ s.stack[i].id = 0 => s.stack[i].nodes = Base(gr)

\* Every number below next is given once, to a model or to an item still to be taken.
IdsInv(s) ==
  /\ Sequential(s.stack) /\ s.next \in Nat \ {0} /\ IsFiniteSet(DOMAIN s.models)
  /\ \A x \in DOMAIN s.models : x \in Nat /\ x < s.next
  /\ \A i \in DOMAIN s.stack : /\ s.stack[i].id \in Nat /\ s.stack[i].id < s.next
                               /\ s.stack[i].id \notin DOMAIN s.models
  /\ \A i, j \in DOMAIN s.stack : s.stack[i].id = s.stack[j].id => i = j
  /\ \A x \in Nat : x < s.next => x \in DOMAIN s.models \/ \E i \in DOMAIN s.stack : s.stack[i].id = x

EntryInv(s) ==
  \A i \in DOMAIN s.models : \A r \in DOMAIN s.models[i].roles :
    LET e == s.models[i].roles[r]
    IN InOrder(e) /\ e.model \in Nat \ {0} /\ e.model < s.next /\ s.models[i].validConcepts
OwnerInv(s) ==
  \A i, j \in DOMAIN s.models : \A r \in DOMAIN s.models[i].roles : \A q \in DOMAIN s.models[j].roles :
    s.models[j].roles[q].model = s.models[i].roles[r].model => i = j /\ q = r
BaseInv(gr, s) == gr.con \in Linked /\ 0 \in DOMAIN s.models => BaseHolds(gr, s.models[0])

\* An item gives a number to a role only while there is room.
CountInv(s) ==
  /\ s.next <= 1 + Cardinality(SimpleRoles) * Cardinality(DOMAIN s.models)
  /\ s.next <= 1 + Cardinality(SimpleRoles) * MaxPseudoNodes

BuildInv(gr, s) ==
  StackInv(gr, s) /\ IdsInv(s) /\ EntryInv(s) /\ OwnerInv(s) /\ BaseInv(gr, s) /\ CountInv(s)

\* The stack after a step: the items of the roles, then what was below the item.
LEMMA Restacked ==
  ASSUME NEW st, Sequential(st), st # <<>>, NEW n \in Nat, NEW c, DOMAIN c = 1..n, c = [i \in 1..n |-> c[i]]
  PROVE  /\ Head(st) = st[1] /\ 1 \in DOMAIN st /\ Sequential(c \o Tail(st))
         /\ \A i \in DOMAIN (c \o Tail(st)) :
              \/ i \in 1..n /\ (c \o Tail(st))[i] = c[i]
              \/ /\ i > n /\ (i - n) + 1 \in DOMAIN st /\ (i - n) + 1 # 1
                 /\ (c \o Tail(st))[i] = st[(i - n) + 1]
         /\ \A i \in 1..n : i \in DOMAIN (c \o Tail(st)) /\ (c \o Tail(st))[i] = c[i]
         /\ \A j \in DOMAIN st : j # 1 =>
              (j - 1) + n \in DOMAIN (c \o Tail(st)) /\ (c \o Tail(st))[(j - 1) + n] = st[j]
<1>1. PICK X : st \in Seq(X)
  BY DEF Sequential
<1> DEFINE W == X \cup {c[i] : i \in 1..n}
           t == Tail(st)
           z == c \o t
<1>2. st \in Seq(W) /\ c \in Seq(W) /\ Len(c) = n
  <2>1. \A i \in 1..n : c[i] \in W
    OBVIOUS
  <2>2. X \subseteq W
    OBVIOUS
  <2> HIDE DEF W
  <2>3. c \in Seq(W)
    <3>1. [i \in 1..n |-> c[i]] \in Seq(W)
      BY <2>1
    <3> QED BY <3>1
  <2>4. Seq(X) \subseteq Seq(W)
    BY <2>2
  <2>5. Len(c) = n
    BY <2>3
  <2> QED BY <1>1, <2>3, <2>4, <2>5
<1> HIDE DEF W
<1>3. /\ t \in Seq(W) /\ Len(t) = Len(st) - 1 /\ Len(st) \in Nat \ {0} /\ DOMAIN st = 1..Len(st)
      /\ Head(st) = st[1] /\ \A i \in 1..(Len(st) - 1) : t[i] = st[i + 1]
  BY <1>2
<1> HIDE DEF t
<1>4. /\ z \in Seq(W) /\ DOMAIN z = 1..(n + (Len(st) - 1))
      /\ \A i \in DOMAIN z : z[i] = IF i <= n THEN c[i] ELSE t[i - n]
  <2>1. z \in Seq(W)
    BY <1>2, <1>3
  <2>2. Len(z) = n + (Len(st) - 1)
    BY <1>2, <1>3
  <2>3. DOMAIN z = 1..Len(z)
    BY <2>1
  <2>4. \A i \in 1..(Len(c) + Len(t)) : z[i] = IF i <= Len(c) THEN c[i] ELSE t[i - Len(c)]
    BY <1>2, <1>3
  <2>5. Len(c) + Len(t) = n + (Len(st) - 1)
    BY <1>2, <1>3
  <2> HIDE DEF z
  <2> QED BY <1>2, <2>1, <2>2, <2>3, <2>4, <2>5
<1> HIDE DEF z
<1>5. Sequential(z)
  BY <1>4 DEF Sequential
<1>6. \A i \in DOMAIN z : \/ i \in 1..n /\ z[i] = c[i]
                          \/ /\ i > n /\ (i - n) + 1 \in DOMAIN st /\ (i - n) + 1 # 1
                             /\ z[i] = st[(i - n) + 1]
  <2> SUFFICES ASSUME NEW i \in DOMAIN z, ~(i \in 1..n /\ z[i] = c[i])
               PROVE  i > n /\ (i - n) + 1 \in DOMAIN st /\ (i - n) + 1 # 1 /\ z[i] = st[(i - n) + 1]
    OBVIOUS
  <2>1. i \in Int /\ 1 <= i /\ i <= n + (Len(st) - 1) /\ ~(i <= n)
    BY <1>3, <1>4
  <2>2. i > n /\ (i - n) + 1 \in DOMAIN st /\ (i - n) + 1 # 1 /\ i - n \in 1..(Len(st) - 1)
    BY <1>3, <2>1
  <2>3. z[i] = t[i - n]
    BY <1>4, <2>1
  <2> QED BY <1>3, <2>2, <2>3
<1>7. \A i \in 1..n : i \in DOMAIN z /\ z[i] = c[i]
  BY <1>3, <1>4
<1>8. \A j \in DOMAIN st : j # 1 => (j - 1) + n \in DOMAIN z /\ z[(j - 1) + n] = st[j]
  <2> SUFFICES ASSUME NEW j \in DOMAIN st, j # 1
               PROVE  (j - 1) + n \in DOMAIN z /\ z[(j - 1) + n] = st[j]
    OBVIOUS
  <2> DEFINE i == (j - 1) + n
  <2>1. i \in DOMAIN z /\ ~(i <= n) /\ i - n = j - 1 /\ j - 1 \in 1..(Len(st) - 1) /\ (j - 1) + 1 = j
    BY <1>3, <1>4
  <2> HIDE DEF i
  <2>2. z[i] = t[j - 1]
    BY <1>4, <2>1
  <2>3. t[j - 1] = st[j]
    BY <1>3, <2>1
  <2> QED BY <2>1, <2>2, <2>3 DEF i
<1>9. 1 \in DOMAIN st
  BY <1>3
<1> QED BY <1>3, <1>5, <1>6, <1>7, <1>8, <1>9 DEF z, t

\* Room for the roles of one more item.
LEMMA Room ==
  ASSUME NEW K \in Nat, NEW d \in Nat, NEW m \in Nat, NEW k \in Nat, NEW x \in Nat,
         x <= 1 + K * d, x <= 1 + K * m, k <= K, k = 0 \/ d < m
  PROVE  x + k <= 1 + K * (d + 1) /\ x + k <= 1 + K * m
<1>1. K * (d + 1) = K * d + K /\ K * d \in Nat /\ K * m \in Nat
  OBVIOUS
<1>2. ASSUME d < m PROVE K * (d + 1) <= K * m
  <2>1. m - (d + 1) \in Nat
    BY <1>2
  <2>2. \A a, b \in Nat : a * b \in Nat
    OBVIOUS
  <2>3. K * (m - (d + 1)) \in Nat
    BY <2>1, <2>2
  <2>4. \A a, b, c \in Int : a * (b - c) = a * b - a * c
    OBVIOUS
  <2>5. K * (m - (d + 1)) = K * m - K * (d + 1)
    BY <2>4
  <2>6. K * (d + 1) \in Nat
    BY <2>2
  <2> DEFINE p == K * m
             q == K * (d + 1)
  <2> HIDE DEF p, q
  <2>7. p - q \in Nat /\ p \in Nat /\ q \in Nat
    BY <1>1, <2>3, <2>5, <2>6 DEF p, q
  <2>8. q <= p
    BY <2>7
  <2> QED BY <2>8 DEF p, q
<1> DEFINE p == K * m
           q == K * d
           v == K * (d + 1)
<1> HIDE DEF p, q, v
<1>3. p \in Nat /\ q \in Nat /\ v = q + K /\ x <= 1 + q /\ x <= 1 + p /\ (d < m => v <= p)
  BY <1>1, <1>2 DEF p, q, v
<1>4. x + k <= 1 + v /\ x + k <= 1 + p
  BY <1>3
<1> QED BY <1>4 DEF p, v

\* Each item that is taken keeps what holds, and leaves its model.
LEMMA PseudoItemKeeps ==
  ASSUME NEW gr \in Graphs, NEW s, BuildInv(gr, s), s.stack # <<>>
  PROVE  /\ BuildInv(gr, PseudoItem(gr, s))
         /\ Cardinality(DOMAIN PseudoItem(gr, s).models) = Cardinality(DOMAIN s.models) + 1
<1> DEFINE item == Head(s.stack)
           nodes == {gr.nodes[item.nodes[i].node] : i \in DOMAIN item.nodes}
           concepts == \A n \in nodes : ~n.blocked /\ ~n.cached
           links == /\ concepts /\ \A n \in nodes : ~n.nominal
                    /\ item.distance <= MaxPseudoDepth /\ Cardinality(DOMAIN s.models) < MaxPseudoNodes
           roles == {r \in SimpleRoles : links /\ \E n \in nodes : \E e \in ToSet(n.roles) : e.role = r}
           id(r) == s.next + Cardinality({q \in roles : q < r})
           made == [r \in roles |-> PseudoRole(gr, item.nodes, r, id(r))]
           below(i) == LET r == CHOOSE q \in roles : id(q) = i
                       IN [id |-> i, distance |-> item.distance + 1, nodes |-> made[r].nodes]
           model == [validConcepts |-> concepts, validRoles |-> links,
                     concepts |-> IF concepts THEN PseudoConcepts(gr, item.nodes) ELSE <<>>,
                     roles |-> [r \in roles |-> made[r].entry]]
           k == Cardinality(roles)
           next1 == s.next + k
           c == [i \in 1..k |-> below(next1 - i)]
           st == c \o Tail(s.stack)
           D == DOMAIN s.models
           models == [i \in D \cup {item.id} |-> IF i = item.id THEN model ELSE s.models[i]]
<1>1. PseudoItem(gr, s) = [stack |-> st, next |-> next1, models |-> models]
  BY DEF PseudoItem
<1>2. /\ StackInv(gr, s) /\ IdsInv(s) /\ EntryInv(s) /\ OwnerInv(s) /\ BaseInv(gr, s) /\ CountInv(s)
      /\ Sequential(s.stack) /\ s.next \in Nat \ {0} /\ IsFiniteSet(D)
  BY DEF BuildInv, IdsInv
<1>3. item = s.stack[1] /\ 1 \in DOMAIN s.stack
  <2>1. DOMAIN [i \in 1..0 |-> i] = 1..0 /\ [i \in 1..0 |-> i] = [i \in 1..0 |-> [j \in 1..0 |-> j][i]]
    OBVIOUS
  <2> DEFINE e == [i \in 1..0 |-> i]
  <2>2. DOMAIN e = 1..0 /\ e = [i \in 1..0 |-> e[i]]
    BY <2>1
  <2> HIDE DEF e
  <2> QED BY <1>2, <2>2, Restacked
<1>4. item.id \in Nat /\ item.id < s.next /\ item.id \notin D /\ (item.id = 0 => item.nodes = Base(gr))
  BY <1>2, <1>3 DEF IdsInv, StackInv
<1>5. PICK h : Standing(gr, item.nodes, h)
  BY <1>2, <1>3 DEF StackInv
<1>6. DOMAIN item.nodes = 1..h /\ \A i \in 1..h : item.nodes[i].node \in DOMAIN gr.nodes
  BY <1>5 DEF Standing
<1>7. roles \in SUBSET SimpleRoles /\ roles \in SUBSET Nat /\ IsFiniteSet(roles)
      /\ k \in Nat /\ k <= Cardinality(SimpleRoles) /\ Cardinality(SimpleRoles) \in Nat
  <2>1. SimpleRoles \in SUBSET Nat /\ IsFiniteSet(SimpleRoles) /\ roles \in SUBSET SimpleRoles
    BY RolesAssumption
  <2> HIDE DEF roles
  <2>2. IsFiniteSet(roles) /\ k <= Cardinality(SimpleRoles)
    BY <2>1, FS_Subset
  <2> QED BY <2>1, <2>2, FS_CardinalityType
<1>num. k \in Nat /\ s.next \in Nat /\ s.next >= 1
  <2> HIDE DEF k, roles
  <2>1. k \in Nat /\ s.next \in Nat \ {0}
    BY <1>2, <1>7, Zenon
  <2> QED BY <2>1
<1>8. ASSUME NEW r \in roles
      PROVE  /\ concepts /\ Followed(gr, item.nodes) /\ Cardinality(D) < MaxPseudoNodes
             /\ \E i \in 1..h : Links(gr, item.nodes[i].node, r) # <<>>
  <2>1. links /\ \E n \in nodes : \E e \in ToSet(n.roles) : e.role = r
    OBVIOUS
  <2>2. PICK i \in 1..h : \E e \in ToSet(gr.nodes[item.nodes[i].node].roles) : e.role = r
    <3> HIDE DEF links
    <3> QED BY <1>6, <2>1
  <2>3. Links(gr, item.nodes[i].node, r) # <<>>
    BY <1>6, <2>2, LinksFacts
  <2>4. Followed(gr, item.nodes)
    BY <2>1 DEF Followed
  <2> QED BY <2>1, <2>3, <2>4
<1>9. /\ \A r \in roles : id(r) \in Nat /\ s.next <= id(r) /\ id(r) < next1
      /\ \A r, q \in roles : id(r) = id(q) => r = q
      /\ \A i \in Nat : s.next <= i /\ i < next1 => \E r \in roles : id(r) = i
  <2>1. \A r : id(r) = s.next + Rank(roles, r)
    BY DEF Rank
  <2> HIDE DEF roles, id
  <2>2. /\ \A r \in roles : Rank(roles, r) \in Nat /\ Rank(roles, r) < k
        /\ \A r, q \in roles : Rank(roles, r) = Rank(roles, q) => r = q
        /\ \A i \in Nat : i < k => \E r \in roles : Rank(roles, r) = i
    BY <1>7, Ranks
  <2> HIDE DEF k
  <2>3. ASSUME NEW i \in Nat, s.next <= i, i < next1 PROVE \E r \in roles : id(r) = i
    <3>1. i - s.next \in Nat /\ i - s.next < k /\ s.next + (i - s.next) = i
      BY <1>2, <1>7, <2>3
    <3> QED BY <2>1, <2>2, <3>1
  <2>4. ASSUME NEW r \in roles PROVE id(r) \in Nat /\ s.next <= id(r) /\ id(r) < next1
    BY <1>2, <1>7, <2>1, <2>2
  <2>5. ASSUME NEW r \in roles, NEW q \in roles, id(r) = id(q) PROVE r = q
    BY <1>2, <2>1, <2>2, <2>5
  <2> QED BY <2>3, <2>4, <2>5
<1> HIDE DEF id
<1>10. ASSUME NEW r \in roles
       PROVE  /\ made[r].entry.model = id(r) /\ InOrder(made[r].entry)
              /\ \E l : Standing(gr, made[r].nodes, l)
  <2>1. \E i \in 1..h : Links(gr, item.nodes[i].node, r) # <<>>
    BY <1>8
  <2>2. Followed(gr, item.nodes)
    BY <1>8
  <2>3. made[r] = PseudoRole(gr, item.nodes, r, id(r))
    OBVIOUS
  <2> HIDE DEF made, roles, item
  <2> QED BY <1>5, <2>1, <2>2, <2>3, PseudoRoleFacts
<1>11. ASSUME NEW i \in 1..k
       PROVE  c[i].id = next1 - i /\ \E l : Standing(gr, c[i].nodes, l)
  <2>1. next1 - i \in Nat /\ s.next <= next1 - i /\ next1 - i < next1
    <3> HIDE DEF k
    <3> QED BY <1>num
  <2> DEFINE r == CHOOSE q \in roles : id(q) = next1 - i
  <2>2. r \in roles
    <3> HIDE DEF roles, next1
    <3> QED BY <1>9, <2>1
  <2>3. c[i] = [id |-> next1 - i, distance |-> item.distance + 1, nodes |-> made[r].nodes]
    <3> HIDE DEF made, roles, next1, item, k
    <3> QED OBVIOUS
  <2> HIDE DEF r, made, roles, next1, item, k, c
  <2> QED BY <1>10, <2>2, <2>3
<1>12. DOMAIN c = 1..k /\ c = [i \in 1..k |-> c[i]]
  <2> HIDE DEF k, next1, made, item
  <2> QED OBVIOUS
<1>13. /\ model.validConcepts = concepts /\ DOMAIN model.roles = roles
       /\ \A r \in roles : model.roles[r] = made[r].entry
       /\ concepts => model.concepts = PseudoConcepts(gr, item.nodes)
  <2> HIDE DEF made, roles, concepts, links, item
  <2> QED OBVIOUS
<1>14. /\ DOMAIN models = D \cup {item.id} /\ models[item.id] = model
       /\ \A i \in D : models[i] = s.models[i]
  <2> HIDE DEF model, D, item
  <2> QED BY <1>4
<1>15. next1 \in Nat \ {0} /\ s.next <= next1
  <2> HIDE DEF k
  <2> QED BY <1>num
<1> HIDE DEF c, model, models, roles, made, concepts, links, nodes, item, D, k
<1>16. /\ Sequential(st)
       /\ \A i \in DOMAIN st :
            \/ i \in 1..k /\ st[i] = c[i]
            \/ /\ i > k /\ (i - k) + 1 \in DOMAIN s.stack /\ (i - k) + 1 # 1
               /\ st[i] = s.stack[(i - k) + 1]
       /\ \A i \in 1..k : i \in DOMAIN st /\ st[i] = c[i]
       /\ \A j \in DOMAIN s.stack : j # 1 => (j - 1) + k \in DOMAIN st /\ st[(j - 1) + k] = s.stack[j]
  <2>1. Sequential(s.stack)
    BY <1>2
  <2> QED BY <1>num, <1>12, <2>1, Restacked
<1> HIDE DEF st
<1> DEFINE t == [stack |-> st, next |-> next1, models |-> models]
<1>17. t.stack = st /\ t.next = next1 /\ t.models = models
  OBVIOUS
<1>18. /\ \A i \in DOMAIN s.stack : (\E l : Standing(gr, s.stack[i].nodes, l))
                                   /\ (s.stack[i].id = 0 => s.stack[i].nodes = Base(gr))
       /\ \A x \in D : x \in Nat /\ x < s.next
       /\ \A i \in DOMAIN s.stack : s.stack[i].id \in Nat /\ s.stack[i].id < s.next /\ s.stack[i].id \notin D
       /\ \A i, j \in DOMAIN s.stack : s.stack[i].id = s.stack[j].id => i = j
       /\ \A x \in Nat : x < s.next => x \in D \/ \E i \in DOMAIN s.stack : s.stack[i].id = x
  BY <1>2 DEF StackInv, IdsInv, D
<1>19. StackInv(gr, t)
  <2> SUFFICES ASSUME NEW i \in DOMAIN st
               PROVE  (\E l : Standing(gr, st[i].nodes, l)) /\ (st[i].id = 0 => st[i].nodes = Base(gr))
    BY <1>17 DEF StackInv
  <2>1. CASE i \in 1..k /\ st[i] = c[i]
    <3>1. c[i].id = next1 - i /\ \E l : Standing(gr, c[i].nodes, l)
      BY <1>11, <2>1
    <3>2. next1 - i # 0
      BY <1>num, <2>1
    <3> HIDE DEF next1
    <3> QED BY <2>1, <3>1, <3>2
  <2>2. CASE (i - k) + 1 \in DOMAIN s.stack /\ st[i] = s.stack[(i - k) + 1]
    BY <1>18, <2>2
  <2> QED BY <1>16, <2>1, <2>2
<1>20. D \cup {item.id} = DOMAIN models /\ IsFiniteSet(D \cup {item.id})
       /\ Cardinality(D \cup {item.id}) = Cardinality(D) + 1
  <2>1. IsFiniteSet(D)
    BY <1>2
  <2> QED BY <1>4, <1>14, <2>1, FS_AddElement
\* An item of the new stack has a new number, or is one of the old but the first.
<1>21. \A i \in DOMAIN st :
         \/ i \in 1..k /\ st[i].id = next1 - i /\ st[i].id \in Nat /\ s.next <= st[i].id /\ st[i].id < next1
         \/ i > k /\ (i - k) + 1 \in DOMAIN s.stack /\ (i - k) + 1 # 1 /\ st[i].id = s.stack[(i - k) + 1].id
  <2> SUFFICES ASSUME NEW i \in DOMAIN st
               PROVE  \/ i \in 1..k /\ st[i].id = next1 - i /\ st[i].id \in Nat /\ s.next <= st[i].id /\ st[i].id < next1
                      \/ i > k /\ (i - k) + 1 \in DOMAIN s.stack /\ (i - k) + 1 # 1 /\ st[i].id = s.stack[(i - k) + 1].id
    OBVIOUS
  <2>1. CASE i \in 1..k /\ st[i] = c[i]
    <3>1. c[i].id = next1 - i
      BY <1>11, <2>1
    <3>2. next1 - i \in Nat /\ s.next <= next1 - i /\ next1 - i < next1
      BY <1>num, <2>1
    <3> HIDE DEF next1
    <3> QED BY <2>1, <3>1, <3>2
  <2>2. CASE ~(i \in 1..k /\ st[i] = c[i])
    <3>1. i > k /\ (i - k) + 1 \in DOMAIN s.stack /\ (i - k) + 1 # 1 /\ st[i] = s.stack[(i - k) + 1]
      BY <1>16, <2>2, Zenon
    <3> QED BY <3>1
  <2> QED BY <2>1, <2>2
<1>22. \A j \in DOMAIN s.stack : j # 1 => s.stack[j].id # item.id
  BY <1>3, <1>18
<1> HIDE DEF next1
<1>23. ASSUME NEW i \in DOMAIN st
       PROVE  st[i].id \in Nat /\ st[i].id < next1 /\ st[i].id \notin D \cup {item.id}
  <2>1. CASE i \in 1..k /\ st[i].id = next1 - i /\ st[i].id \in Nat /\ s.next <= st[i].id /\ st[i].id < next1
    <3>1. st[i].id # item.id
      BY <1>4, <1>num, <2>1
    <3>2. st[i].id \notin D
      BY <1>18, <1>num, <2>1
    <3> QED BY <2>1, <3>1, <3>2
  <2>2. CASE (i - k) + 1 \in DOMAIN s.stack /\ (i - k) + 1 # 1 /\ st[i].id = s.stack[(i - k) + 1].id
    <3> DEFINE j == (i - k) + 1
    <3>1. j \in DOMAIN s.stack /\ j # 1 /\ st[i].id = s.stack[j].id
      BY <2>2
    <3> HIDE DEF j
    <3> QED BY <1>15, <1>18, <1>22, <1>num, <3>1
  <2> QED BY <1>21, <2>1, <2>2
<1>24. ASSUME NEW i \in DOMAIN st, NEW j \in DOMAIN st, st[i].id = st[j].id PROVE i = j
  <2> DEFINE New(x) == x \in 1..k /\ st[x].id = next1 - x /\ st[x].id \in Nat /\ s.next <= st[x].id
             Old(x) == x > k /\ (x - k) + 1 \in DOMAIN s.stack /\ st[x].id = s.stack[(x - k) + 1].id
  <2>1. (New(i) \/ Old(i)) /\ (New(j) \/ Old(j))
    BY <1>21
  <2>2. CASE New(i) /\ New(j)
    <3>1. next1 - i = next1 - j
      BY <1>24, <2>2
    <3>2. i \in Int /\ j \in Int /\ next1 \in Int
      BY <1>15, <2>2
    <3> HIDE DEF New, Old
    <3> QED BY <3>1, <3>2
  <2>3. ASSUME NEW x \in DOMAIN st, NEW y \in DOMAIN st, New(x), Old(y) PROVE st[x].id # st[y].id
    <3> DEFINE z == (y - k) + 1
    <3>1. z \in DOMAIN s.stack /\ st[y].id = s.stack[z].id /\ st[x].id \in Nat /\ s.next <= st[x].id
      BY <2>3
    <3> HIDE DEF z, New, Old
    <3>2. st[y].id \in Nat /\ st[y].id < s.next
      BY <1>18, <3>1
    <3> QED BY <1>num, <3>1, <3>2
  <2>4. CASE Old(i) /\ Old(j)
    <3>1. (i - k) + 1 = (j - k) + 1
      <4> DEFINE x == (i - k) + 1
                 y == (j - k) + 1
      <4>1. x \in DOMAIN s.stack /\ y \in DOMAIN s.stack /\ st[i].id = s.stack[x].id /\ st[j].id = s.stack[y].id
        BY <2>4
      <4> HIDE DEF x, y, New, Old
      <4>2. x = y
        BY <1>18, <1>24, <4>1, Zenon
      <4> QED BY <4>2 DEF x, y
    <3>2. i \in Int /\ j \in Int
      <4>1. PICK W : st \in Seq(W)
        BY <1>16 DEF Sequential
      <4> QED BY <4>1
    <3> QED BY <1>num, <3>1, <3>2
  <2> HIDE DEF New, Old
  <2> QED BY <1>24, <2>1, <2>2, <2>3, <2>4
<1>25. ASSUME NEW x \in Nat, x < next1
       PROVE  x \in D \cup {item.id} \/ \E i \in DOMAIN st : st[i].id = x
  <2>1. CASE x < s.next
    <3>1. CASE x \in D
      BY <3>1
    <3>2. ASSUME NEW j \in DOMAIN s.stack, s.stack[j].id = x
          PROVE  x = item.id \/ \E i \in DOMAIN st : st[i].id = x
      <4>1. CASE j = 1
        BY <1>3, <3>2, <4>1
      <4>2. CASE j # 1
        BY <1>16, <3>2, <4>2
      <4> QED BY <4>1, <4>2
    <3> QED BY <1>18, <2>1, <3>1, <3>2
  <2>2. CASE s.next <= x
    <3>1. next1 - x \in 1..k /\ next1 - (next1 - x) = x
      BY <1>num, <1>25, <2>2 DEF next1
    <3>2. next1 - x \in DOMAIN st /\ st[next1 - x] = c[next1 - x] /\ c[next1 - x].id = x
      BY <1>11, <1>16, <3>1
    <3> QED BY <3>2
  <2> QED BY <1>num, <2>1, <2>2
<1>26. IdsInv(t)
  <2>1. \A x \in DOMAIN models : x \in Nat /\ x < next1
    <3>1. \A x \in D : x \in Nat /\ x < next1
      BY <1>15, <1>18, <1>num
    <3>2. item.id < next1
      BY <1>4, <1>15, <1>num
    <3> QED BY <1>4, <1>14, <3>1, <3>2
  <2>2. Sequential(st) /\ next1 \in Nat \ {0} /\ IsFiniteSet(DOMAIN models)
    BY <1>15, <1>16, <1>20
  <2>3. DOMAIN models = D \cup {item.id}
    BY <1>14
  <2> HIDE DEF t
  <2> QED BY <1>17, <1>23, <1>24, <1>25, <2>1, <2>2, <2>3 DEF IdsInv
<1>27. EntryInv(t)
  <2> SUFFICES ASSUME NEW i \in DOMAIN models, NEW r \in DOMAIN models[i].roles
               PROVE  /\ InOrder(models[i].roles[r]) /\ models[i].roles[r].model \in Nat \ {0}
                      /\ models[i].roles[r].model < next1 /\ models[i].validConcepts
    BY <1>17 DEF EntryInv
  <2>1. CASE i = item.id
    <3>1. models[i] = model /\ r \in roles /\ model.roles[r] = made[r].entry
      BY <1>13, <1>14, <2>1
    <3>2. made[r].entry.model = id(r) /\ InOrder(made[r].entry) /\ concepts
      BY <1>8, <1>10, <3>1
    <3>3. id(r) \in Nat /\ s.next <= id(r) /\ id(r) < next1
      BY <1>9, <3>1
    <3>4. id(r) \in Nat \ {0}
      BY <1>num, <3>3
    <3>5. models[i].validConcepts /\ models[i].roles[r] = made[r].entry
      BY <1>13, <3>1, <3>2
    <3> QED BY <3>2, <3>3, <3>4, <3>5
  <2>2. CASE i \in D
    <3>1. models[i] = s.models[i]
      BY <1>14, <2>2
    <3>2. /\ InOrder(s.models[i].roles[r]) /\ s.models[i].roles[r].model \in Nat \ {0}
          /\ s.models[i].roles[r].model < s.next /\ s.models[i].validConcepts
      BY <1>2, <2>2, <3>1 DEF EntryInv, D
    <3> QED BY <1>15, <1>num, <3>1, <3>2
  <2> QED BY <1>14, <2>1, <2>2
\* The numbers of the new model are new.
<1>28. OwnerInv(t)
  <2> SUFFICES ASSUME NEW i \in DOMAIN models, NEW j \in DOMAIN models,
                      NEW r \in DOMAIN models[i].roles, NEW q \in DOMAIN models[j].roles,
                      models[j].roles[q].model = models[i].roles[r].model
               PROVE  i = j /\ q = r
    BY <1>17 DEF OwnerInv
  <2> DEFINE New(x, a) == x = item.id /\ a \in roles /\ models[x].roles[a].model = id(a)
             Old(x, a) == x \in D /\ models[x] = s.models[x]
                          /\ models[x].roles[a].model \in Nat /\ models[x].roles[a].model < s.next
  <2>1. ASSUME NEW x \in DOMAIN models, NEW a \in DOMAIN models[x].roles
        PROVE  New(x, a) \/ Old(x, a)
    <3>1. CASE x = item.id
      <4>1. models[x] = model /\ a \in roles /\ model.roles[a] = made[a].entry
        BY <1>13, <1>14, <2>1, <3>1
      <4> QED BY <1>10, <3>1, <4>1
    <3>2. CASE x \in D
      <4>1. models[x] = s.models[x]
        BY <1>14, <3>2
      <4>2. models[x].roles[a].model \in Nat \ {0} /\ models[x].roles[a].model < s.next
        BY <1>2, <2>1, <3>2, <4>1 DEF EntryInv, D
      <4> QED BY <3>2, <4>1, <4>2
    <3> QED BY <1>14, <3>1, <3>2
  <2>2. \A a \in roles : id(a) \in Nat /\ s.next <= id(a)
    BY <1>9
  <2>3. CASE New(i, r) /\ New(j, q)
    <3>1. i = j /\ r \in roles /\ q \in roles /\ id(r) = id(q)
      BY <2>3
    <3> QED BY <1>9, <3>1
  <2>4. CASE Old(i, r) /\ Old(j, q)
    <3>1. /\ i \in D /\ j \in D /\ r \in DOMAIN s.models[i].roles /\ q \in DOMAIN s.models[j].roles
          /\ s.models[j].roles[q].model = s.models[i].roles[r].model
      BY <2>4
    <3> HIDE DEF New, Old
    <3> QED BY <1>2, <3>1 DEF OwnerInv, D
  <2>5. ASSUME NEW x, NEW a, NEW y, NEW b, New(x, a), Old(y, b)
        PROVE  models[x].roles[a].model # models[y].roles[b].model
    BY <1>num, <2>2, <2>5
  <2>6. (New(i, r) \/ Old(i, r)) /\ (New(j, q) \/ Old(j, q))
    BY <2>1
  <2> HIDE DEF New, Old
  <2> QED BY <2>3, <2>4, <2>5, <2>6
<1>29. BaseInv(gr, t)
  <2> SUFFICES ASSUME gr.con \in Linked, 0 \in DOMAIN models PROVE BaseHolds(gr, models[0])
    BY <1>17 DEF BaseInv
  <2>1. CASE item.id = 0
    <3>1. models[0] = model /\ item.nodes = Base(gr)
      BY <1>4, <1>14, <2>1
    <3>2. CASE concepts
      <4>1. model.concepts = PseudoConcepts(gr, Base(gr))
        BY <1>13, <3>1, <3>2
      <4> QED BY <3>1, <4>1, BaseConcepts
    <3>3. CASE ~concepts
      BY <1>13, <3>1, <3>3 DEF BaseHolds
    <3> QED BY <3>2, <3>3
  <2>2. CASE item.id # 0
    <3>1. 0 \in D /\ models[0] = s.models[0]
      BY <1>14, <2>2
    <3> QED BY <1>2, <3>1 DEF BaseInv, D
  <2> QED BY <2>1, <2>2
<1>30. CountInv(t)
  <2>1. /\ s.next <= 1 + Cardinality(SimpleRoles) * Cardinality(D)
        /\ s.next <= 1 + Cardinality(SimpleRoles) * MaxPseudoNodes
    BY <1>2 DEF CountInv, D
  <2>2. k = 0 \/ Cardinality(D) < MaxPseudoNodes
    <3>1. CASE roles = {}
      BY <3>1, FS_EmptySet DEF k
    <3>2. CASE roles # {}
      BY <1>8, <3>2
    <3> QED BY <3>1, <3>2
  <2>3. Cardinality(D) \in Nat /\ MaxPseudoNodes \in Nat
    BY <1>2, FS_CardinalityType, LimitsAssumption
  <2>4. k <= Cardinality(SimpleRoles) /\ Cardinality(SimpleRoles) \in Nat
    BY <1>7
  <2>5. /\ s.next + k <= 1 + Cardinality(SimpleRoles) * (Cardinality(D) + 1)
        /\ s.next + k <= 1 + Cardinality(SimpleRoles) * MaxPseudoNodes
    BY <1>num, <2>1, <2>2, <2>3, <2>4, Room
  <2>6. Cardinality(DOMAIN models) = Cardinality(D) + 1
    BY <1>20
  <2> QED BY <1>17, <2>5, <2>6 DEF CountInv, next1
<1> HIDE DEF t
<1>31. PseudoItem(gr, s) = t
  BY <1>1 DEF t
<1>32. BuildInv(gr, t)
  BY <1>19, <1>26, <1>27, <1>28, <1>29, <1>30 DEF BuildInv
<1>33. Cardinality(DOMAIN t.models) = Cardinality(DOMAIN s.models) + 1
  BY <1>17, <1>20 DEF D
<1> QED BY <1>31, <1>32, <1>33

\* The construction begins with the base alone.
Begun(gr) == [stack |-> <<[id |-> 0, distance |-> 0, nodes |-> Base(gr)]>>, next |-> 1, models |-> <<>>]
LEMMA BuildBegins == ASSUME NEW gr \in Graphs PROVE BuildInv(gr, Begun(gr)) /\ Cardinality(DOMAIN Begun(gr).models) = 0
<1> DEFINE s == Begun(gr)
           item == [id |-> 0, distance |-> 0, nodes |-> Base(gr)]
<1>1. s.stack = <<item>> /\ s.next = 1 /\ s.models = <<>>
  BY DEF Begun
<1>2. DOMAIN s.stack = {1} /\ s.stack[1] = item /\ DOMAIN s.models = {}
  BY <1>1
<1>3. item.id = 0 /\ item.nodes = Base(gr)
  OBVIOUS
<1>4. Sequential(s.stack)
  <2>1. <<item>> \in Seq({item})
    OBVIOUS
  <2> QED BY <1>1, <2>1 DEF Sequential
<1> HIDE DEF item, s
<1>5. StackInv(gr, s)
  <2>1. TestedNode(gr) \in DOMAIN gr.nodes
    BY GraphsAssumption DEF WellFormed
  <2>2. Standing(gr, Base(gr), 1)
    BY <2>1 DEF Standing, Base
  <2> QED BY <1>2, <1>3, <2>2 DEF StackInv
<1>6. IdsInv(s)
  <2>1. IsFiniteSet(DOMAIN s.models)
    BY <1>2, FS_EmptySet
  <2> QED BY <1>1, <1>2, <1>3, <1>4, <2>1 DEF IdsInv
<1>7. EntryInv(s) /\ OwnerInv(s) /\ BaseInv(gr, s)
  BY <1>2 DEF EntryInv, OwnerInv, BaseInv
<1>8. Cardinality(DOMAIN s.models) = 0
  BY <1>2, FS_EmptySet
<1>9. CountInv(s)
  <2>1. Cardinality(SimpleRoles) \in Nat /\ MaxPseudoNodes \in Nat
    BY RolesAssumption, LimitsAssumption, FS_CardinalityType
  <2>2. \A a, b \in Nat : a * b \in Nat /\ a * 0 = 0
    OBVIOUS
  <2>3. Cardinality(SimpleRoles) * MaxPseudoNodes \in Nat /\ Cardinality(SimpleRoles) * 0 = 0
    BY <2>1, <2>2
  <2> QED BY <1>1, <1>8, <2>3 DEF CountInv
<1> QED BY <1>5, <1>6, <1>7, <1>8, <1>9 DEF BuildInv, s

\* Once no item is left, every number has a model.
LEMMA BuildEnds ==
  ASSUME NEW gr \in Graphs, gr.con \in Linked, NEW s, BuildInv(gr, s), s.stack = <<>>
  PROVE  PseudoModelHolds(gr.con, s.models)
<1>1. s.next \in Nat \ {0} /\ \A x \in Nat : x < s.next => x \in DOMAIN s.models
  <2>1. DOMAIN s.stack = {}
    OBVIOUS
  <2> QED BY <2>1 DEF BuildInv, IdsInv
<1>2. 0 \in DOMAIN s.models
  BY <1>1
<1>3. BaseHolds(gr, s.models[0])
  BY <1>2 DEF BuildInv, BaseInv
<1>4. ASSUME NEW i \in DOMAIN s.models, NEW r \in DOMAIN s.models[i].roles
      PROVE  /\ InOrder(s.models[i].roles[r]) /\ s.models[i].validConcepts
             /\ s.models[i].roles[r].model \in DOMAIN s.models
             /\ \A j \in DOMAIN s.models : \A q \in DOMAIN s.models[j].roles :
                  s.models[j].roles[q].model = s.models[i].roles[r].model => i = j /\ q = r
  <2>1. EntryInv(s) /\ OwnerInv(s)
    BY DEF BuildInv
  <2>2. /\ InOrder(s.models[i].roles[r]) /\ s.models[i].validConcepts
        /\ s.models[i].roles[r].model \in Nat /\ s.models[i].roles[r].model < s.next
    BY <2>1 DEF EntryInv
  <2>3. \A j \in DOMAIN s.models : \A q \in DOMAIN s.models[j].roles :
          s.models[j].roles[q].model = s.models[i].roles[r].model => i = j /\ q = r
    BY <2>1 DEF OwnerInv
  <2> QED BY <1>1, <2>2, <2>3
<1> QED BY <1>3, <1>4 DEF PseudoModelHolds, BaseHolds, InOrder

\* A model is right: the construction has taken every item when it ends.
LEMMA PseudoModelIsRight ==
  ASSUME NEW gr \in Graphs, gr.con \in Linked
  PROVE  PseudoModelHolds(gr.con, PseudoModel(gr))
<1> DEFINE N == PseudoItems
           s0 == Begun(gr)
           F(f) == [i \in 0..N |-> IF i = 0 THEN s0 ELSE PseudoItem(gr, f[i - 1])]
           K == Cardinality(SimpleRoles)
<1>1. K \in Nat /\ MaxPseudoNodes \in Nat /\ N \in Nat /\ N = 1 + K * MaxPseudoNodes
  <2>1. K \in Nat /\ MaxPseudoNodes \in Nat
    BY RolesAssumption, LimitsAssumption, FS_CardinalityType
  <2>2. N = 1 + MaxPseudoNodes * K
    BY DEF PseudoItems
  <2> HIDE DEF K, N
  <2>3. \A a, b \in Nat : a * b \in Nat /\ a * b = b * a
    OBVIOUS
  <2>4. MaxPseudoNodes * K \in Nat /\ MaxPseudoNodes * K = K * MaxPseudoNodes
    BY <2>1, <2>3
  <2> QED BY <2>1, <2>2, <2>4
<1> HIDE DEF N, s0, K
<1> DEFINE Upto(k) == \E f : f = [i \in 0..k |-> IF i = 0 THEN s0 ELSE PseudoItem(gr, f[i - 1])]
           P == {k \in Nat : Upto(k)}
<1>2. 0 \in P
  <2> DEFINE f == [i \in 0..0 |-> s0]
  <2>1. \A i \in 0..0 : f[i] = IF i = 0 THEN s0 ELSE PseudoItem(gr, f[i - 1])
    OBVIOUS
  <2>2. f = [i \in 0..0 |-> f[i]]
    OBVIOUS
  <2> HIDE DEF f
  <2>3. f = [i \in 0..0 |-> IF i = 0 THEN s0 ELSE PseudoItem(gr, f[i - 1])]
    BY <2>1, <2>2, Zenon
  <2>4. Upto(0)
    BY <2>3, Zenon
  <2> HIDE DEF Upto
  <2> QED BY <2>4
<1>3. ASSUME NEW k \in P PROVE k + 1 \in P
  <2>1. k \in Nat /\ Upto(k)
    <3> HIDE DEF Upto
    <3> QED OBVIOUS
  <2>2. PICK f : f = [i \in 0..k |-> IF i = 0 THEN s0 ELSE PseudoItem(gr, f[i - 1])]
    BY <2>1
  <2> DEFINE h == [i \in 0..(k + 1) |-> IF i <= k THEN f[i] ELSE PseudoItem(gr, f[k])]
  <2>3. ASSUME NEW i \in 0..(k + 1) PROVE h[i] = IF i = 0 THEN s0 ELSE PseudoItem(gr, h[i - 1])
    <3>1. CASE i = 0
      <4>1. f[0] = s0
        BY <2>1, <2>2
      <4> QED BY <2>1, <3>1, <4>1
    <3>2. CASE i \in 1..k
      <4>1. i \in 0..k /\ i # 0 /\ i - 1 \in 0..(k + 1) /\ i - 1 <= k /\ i <= k
        BY <2>1, <3>2
      <4>2. f[i] = PseudoItem(gr, f[i - 1])
        BY <2>2, <4>1
      <4>3. h[i] = f[i] /\ h[i - 1] = f[i - 1]
        BY <4>1
      <4> HIDE DEF h
      <4> QED BY <4>1, <4>2, <4>3
    <3>3. CASE i = k + 1
      <4>1. i # 0 /\ i - 1 = k /\ i - 1 \in 0..(k + 1) /\ i - 1 <= k /\ ~(i <= k)
        BY <2>1, <3>3
      <4>2. h[i] = PseudoItem(gr, f[k]) /\ h[i - 1] = f[k]
        BY <4>1
      <4> HIDE DEF h
      <4> QED BY <4>1, <4>2
    <3> QED BY <2>1, <3>1, <3>2, <3>3
  <2>4. h = [i \in 0..(k + 1) |-> h[i]]
    OBVIOUS
  <2> HIDE DEF h
  <2>5. h = [i \in 0..(k + 1) |-> IF i = 0 THEN s0 ELSE PseudoItem(gr, h[i - 1])]
    BY <2>3, <2>4, Zenon
  <2>6. Upto(k + 1)
    BY <2>5, Zenon
  <2>7. k + 1 \in Nat
    BY <2>1
  <2> HIDE DEF Upto
  <2> QED BY <2>6, <2>7
<1>4. \E f : f = F(f)
  <2>1. N \in P
    <3> HIDE DEF P
    <3>1. P \subseteq Nat
      BY DEF P
    <3> QED BY <1>1, <1>2, <1>3, <3>1, SetInduction
  <2>2. Upto(N)
    <3> HIDE DEF Upto
    <3> QED BY <2>1
  <2> QED BY <2>2
<1>5. PICK h : h = F(h) /\ PseudoModel(gr) = h[N].models
  <2> DEFINE h == CHOOSE f : f = F(f)
  <2>1. h = F(h)
    <3> HIDE DEF F
    <3> QED BY <1>4
  <2>2. PseudoModel(gr) = h[N].models
    BY Zenon DEF PseudoModel, N, s0, Begun, Base
  <2> HIDE DEF h, F
  <2> QED BY <2>1, <2>2
<1>6. h[0] = s0 /\ \A i \in 1..N : h[i] = PseudoItem(gr, h[i - 1])
  <2>1. \A i \in 0..N : F(h)[i] = IF i = 0 THEN s0 ELSE PseudoItem(gr, h[i - 1])
    OBVIOUS
  <2> HIDE DEF F
  <2>2. \A i \in 0..N : h[i] = IF i = 0 THEN s0 ELSE PseudoItem(gr, h[i - 1])
    BY <1>5, <2>1
  <2> QED BY <1>1, <2>2
<1> DEFINE Right(i) == BuildInv(gr, h[i]) /\ (h[i].stack = <<>> \/ Cardinality(DOMAIN h[i].models) = i)
           Q == {i \in Nat : i <= N => Right(i)}
<1>7. 0 \in Q
  <2>1. Right(0)
    BY <1>6, BuildBegins DEF s0
  <2> HIDE DEF Right
  <2> QED BY <2>1
<1>8. ASSUME NEW i \in Q PROVE i + 1 \in Q
  <2> SUFFICES ASSUME i + 1 <= N PROVE Right(i + 1)
    <3> HIDE DEF Right
    <3> QED OBVIOUS
  <2>1. i \in Nat /\ Right(i)
    <3> HIDE DEF Right
    <3> QED BY <1>1
  <2>2. h[i + 1] = PseudoItem(gr, h[i])
    <3>1. i + 1 \in 1..N /\ (i + 1) - 1 = i
      BY <1>1, <2>1
    <3> QED BY <1>6, <3>1
  <2>3. CASE h[i].stack = <<>>
    <3>1. h[i + 1] = h[i]
      BY <2>2, <2>3 DEF PseudoItem
    <3> QED BY <2>1, <2>3, <3>1
  <2>4. CASE h[i].stack # <<>>
    <3>1. /\ BuildInv(gr, PseudoItem(gr, h[i]))
          /\ Cardinality(DOMAIN PseudoItem(gr, h[i]).models) = Cardinality(DOMAIN h[i].models) + 1
      BY <2>1, <2>4, PseudoItemKeeps
    <3>2. Cardinality(DOMAIN h[i].models) = i
      BY <2>1, <2>4
    <3> QED BY <2>2, <3>1, <3>2
  <2> QED BY <2>3, <2>4
<1>9. Right(N)
  <2>1. N \in Q
    <3> HIDE DEF Q
    <3>1. Q \subseteq Nat
      BY DEF Q
    <3> QED BY <1>1, <1>7, <1>8, <3>1, SetInduction
  <2> HIDE DEF Right
  <2> QED BY <1>1, <2>1
<1>10. h[N].stack = <<>>
  <2> SUFFICES ASSUME h[N].stack # <<>> PROVE FALSE
    OBVIOUS
  <2> DEFINE s == h[N]
             D == DOMAIN s.models
             x == s.stack[1].id
  <2>1. IdsInv(s) /\ CountInv(s) /\ Cardinality(D) = N
    BY <1>9 DEF BuildInv
  <2>2. 1 \in DOMAIN s.stack
    <3>1. PICK W : s.stack \in Seq(W)
      BY <2>1 DEF IdsInv, Sequential
    <3> QED BY <3>1
  <2> HIDE DEF s
  <2>3. /\ IsFiniteSet(D) /\ s.next \in Nat \ {0} /\ \A y \in D : y \in Nat /\ y < s.next
        /\ x \in Nat /\ x < s.next /\ x \notin D
    BY <2>1, <2>2 DEF IdsInv
  <2> HIDE DEF x, D
  <2>4. Cardinality(D \cup {x}) = N + 1
    BY <2>1, <2>3, FS_AddElement
  <2>5. D \cup {x} \in SUBSET (0..(s.next - 1))
    BY <2>3
  <2>6. IsFiniteSet(0..(s.next - 1)) /\ Cardinality(0..(s.next - 1)) = s.next
    <3>1. 0 \in Int /\ s.next - 1 \in Int /\ ~(0 > s.next - 1) /\ (s.next - 1) - 0 + 1 = s.next
      BY <2>3
    <3> QED BY <3>1, FS_Interval
  <2>7. N + 1 <= s.next
    BY <2>4, <2>5, <2>6, FS_Subset
  <2>8. s.next <= N
    BY <1>1, <2>1 DEF CountInv, K
  <2> QED BY <1>1, <2>3, <2>7, <2>8
<1> QED BY <1>5, <1>9, <1>10, BuildEnds

-----------------------------------------------------------------------------
(* Theorems *)

\* What the pseudo models of the graphs tell is so.
LEMMA PseudoModelsHold ==
  \A gr \in Graphs : gr.con \in Linked => PseudoModelHolds(gr.con, PseudoModels[gr])
<1> SUFFICES ASSUME NEW gr \in Graphs, gr.con \in Linked PROVE PseudoModelHolds(gr.con, PseudoModels[gr])
  OBVIOUS
<1>1. PseudoModels[gr] = PseudoModel(gr)
  BY DEF PseudoModels
<1> QED BY <1>1, PseudoModelIsRight

\* Every step of the analysis and of the classifier keeps the invariant.
LEMMA Inductive == IInv /\ [Next]_vars => IInv'
<1> SUFFICES ASSUME IInv, [Next]_vars PROVE IInv'
  OBVIOUS
<1>1. ASSUME NEW gr \in Graphs, NEW m \in Modes, Start(gr, m) PROVE IInv'
  BY <1>1, StartKeeps
<1>2. CASE RootConcept
  BY <1>2, RootConceptKeeps
<1>3. CASE RootDone
  BY <1>3, RootDoneKeeps
<1>4. CASE TakeNode
  BY <1>4, TakeNodeKeeps
<1>5. CASE NodeConcept
  BY <1>5, NodeConceptKeeps
<1>6. CASE NodeDone
  BY <1>6, NodeDoneKeeps
<1>7. CASE Tell
  BY <1>7, TellKeeps
<1>8. CASE Receive
  BY <1>8, ReceiveKeeps
<1>9. CASE UNCHANGED vars
  <2> USE DEF vars, local
  <2>1. TypeInv' /\ PlaceInv'
    BY <1>9 DEF IInv, TypeInv, PlaceInv, Label, Root
  <2>2. KeptInv'
    BY <1>9 DEF IInv, KeptInv, MapInv, ListInv, OutInv, InboxInv, Announced
  <2>3. SubsInv' /\ ReportInv' /\ ChainInv'
    BY <1>9 DEF IInv, SubsInv, ReportInv, ChainInv
  <2> QED BY <2>1, <2>2, <2>3 DEF IInv
<1> QED BY <1>1, <1>2, <1>3, <1>4, <1>5, <1>6, <1>7, <1>8, <1>9 DEF Next, Finished

\* The invariant of every behaviour.
LEMMA Invariant == Spec => []IInv
<1> QED BY InitInv, Inductive, PTL DEF Spec

\* Where the merging test rules out no equivalence that follows from a concept a node holds,
\* no possible subsumer that is a subsumer is ever dropped from the map the classifier makes,
\* whatever is extracted, pruned and narrowed and in whatever order.
THEOREM SubsumersAreKept ==
  ASSUME MergingKeepsSubsumers
  PROVE  Spec => []SubsumersStayPossible
<1>1. IInv => SubsumersStayPossible
  BY DEF IInv, KeptInv, MapInv, Due, SubsumersStayPossible
<1> QED BY <1>1, Invariant, PTL

\* Every subsumption that is reported for the concept it was found for is one, in the message
\* still being put together and in the batches on their way; and so is what a pseudo model
\* tells: its construction takes every item it has made a number for.
THEOREM ReportsHold == Spec => []ReportedSubsumersHold
<1>1. IInv => ReportedSubsumersHold
  <2> SUFFICES ASSUME IInv, NEW m \in Sent
               PROVE  /\ m.kind = "subsumers" => \A s \in m.subs : s.of = m.con => s.con \in Subsumers[m.con]
                      /\ m.kind = "pseudo" => PseudoModelHolds(m.con, m.models)
    BY DEF ReportedSubsumersHold
  <2>0. out \in Seq(Made) /\ inbox \in Seq(Seq(Sends)) /\ ReportInv
    BY DEF IInv, TypeInv
  <2>1. (m \in Made \/ m \in Sends) /\ Holds(m)
    <3>1. CASE m \in ToSet(out)
      BY <2>0, <3>1 DEF ToSet, ReportInv
    <3>2. CASE \E i \in DOMAIN inbox : m \in ToSet(inbox[i])
      <4>1. PICK i \in DOMAIN inbox : m \in ToSet(inbox[i])
        BY <3>2
      <4>2. inbox[i] \in Seq(Sends)
        BY <2>0
      <4> QED BY <2>0, <4>1, <4>2 DEF ToSet, ReportInv
    <3> QED BY <3>1, <3>2 DEF Sent
  <2>2. ASSUME m.kind = "pseudo" PROVE PseudoModelHolds(m.con, m.models)
    <3>1. m \in PseudoSent
      BY <2>1, <2>2 DEF Made, Sends, PossibleMade, PossibleSent, SubsumersMade, PrunedMade
    <3>2. PICK gr \in Graphs : gr.con \in Linked /\ m = [kind |-> "pseudo", con |-> gr.con, models |-> PseudoModels[gr]]
      BY <3>1 DEF PseudoSent
    <3> QED BY <3>2, PseudoModelsHold
  <2> QED BY <2>1, <2>2 DEF Holds
<1> QED BY <1>1, Invariant, PTL

\* A chain recorded for a subsumption names only concepts the dependency of an entry for it
\* rests on, and all of them unless the walk was cut.
THEOREM ChainsAreComplete == Spec => []ChainsComplete
<1>1. IInv => ChainsComplete
  <2> SUFFICES ASSUME IInv, NEW p \in DOMAIN cache, p[2] # Bottom
               PROVE  \E gr \in Graphs : \E e \in ToSet(gr.nodes[TestedNode(gr)].label) :
                        /\ gr.con = p[1] /\ e.con = p[2] /\ e.dep # None
                        /\ ToSet(cache[p]) \subseteq RestsOn(gr)[e.dep]
                        /\ Visits(gr)[e.dep] <= MaxWalk => RestsOn(gr)[e.dep] \subseteq ToSet(cache[p])
    BY DEF ChainsComplete, TestedNode
  <2>1. PICK gr \in Graphs : \E e \in ToSet(gr.nodes[TestedNode(gr)].label) :
          gr.con = p[1] /\ e.con = p[2] /\ e.dep # None /\ cache[p] = Chain(gr, e.dep)
    BY DEF IInv, ChainInv
  <2>2. PICK e \in ToSet(gr.nodes[TestedNode(gr)].label) :
          gr.con = p[1] /\ e.con = p[2] /\ e.dep # None /\ cache[p] = Chain(gr, e.dep)
    BY <2>1
  <2>3. e.dep \in DOMAIN gr.deps
    <3> DEFINE E == [con : Nat, neg : BOOLEAN, dep : {None} \cup DOMAIN gr.deps]
               label == gr.nodes[TestedNode(gr)].label
    <3>1. \A f \in E : f.dep \in {None} \cup DOMAIN gr.deps
      OBVIOUS
    <3> HIDE DEF E, label
    <3>2. label \in Seq(E)
      BY GraphsAssumption DEF E, label, WellFormed
    <3>3. e \in E
      BY <2>2, <3>2 DEF ToSet, label
    <3> QED BY <2>2, <3>1, <3>3
  <2> QED BY <2>2, <2>3, ChainRests
<1> QED BY <1>1, Invariant, PTL

=============================================================================
