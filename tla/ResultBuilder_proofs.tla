------------------------- MODULE ResultBuilder_proofs -------------------------
(***************************************************************************)
(* Theorems about the buffers built from a document and what the kernel    *)
(* found, for every document, every taxonomy, every set of types and every *)
(* content of the cache of justifications.                                 *)
(***************************************************************************)
EXTENDS ResultBuilder, WellFoundedInduction, FiniteSetTheorems, TLAPS

-----------------------------------------------------------------------------
(* Numbers and recursion *)

\* A set of numbers that holds zero and the successor of each member holds all.
LEMMA SetInduction ==
  ASSUME NEW P \in SUBSET Nat, 0 \in P, \A n \in P : n + 1 \in P
  PROVE  P = Nat
<1>1. SUFFICES ASSUME Nat \ P # {} PROVE FALSE
  OBVIOUS
<1> DEFINE R == {p \in Nat \X Nat : p[1] < p[2]}
<1>2. IsWellFoundedOn(R, Nat)
  BY NatLessThanWellFounded DEF OpToRel
<1>3. PICK n \in Nat \ P : \A m \in Nat \ P : ~(<<m, n>> \in R)
  BY <1>1, <1>2, WFMin
<1>4. n # 0 /\ n - 1 \in Nat /\ n - 1 < n
  OBVIOUS
<1>5. <<n - 1, n>> \in R
  BY <1>4
<1>6. n - 1 \in P
  BY <1>3, <1>4, <1>5
<1> QED  BY <1>4, <1>6

Computed(f, V, v0, n, G) ==
  f \in [0..n -> V] /\ f[0] = v0 /\ \A i \in 1..n : f[i] = G[i][f[i - 1]]

\* Values computed one after the other, each from its number and the one before.
LEMMA Recursion ==
  ASSUME NEW V, NEW v0 \in V, NEW n \in Nat, NEW G \in [1..n -> [V -> V]]
  PROVE  \E f : Computed(f, V, v0, n, G)
<1> DEFINE Upto(k) == \E f \in [0..k -> V] : f[0] = v0 /\ \A i \in 1..k : f[i] = G[i][f[i - 1]]
           P == {k \in Nat : k <= n => Upto(k)}
<1>1. 0 \in P
  <2>1. [i \in 0..0 |-> v0] \in [0..0 -> V]
    OBVIOUS
  <2>2. [i \in 0..0 |-> v0][0] = v0
    OBVIOUS
  <2>3. \A i \in 1..0 : FALSE
    OBVIOUS
  <2>4. Upto(0)
    BY <2>1, <2>2, <2>3, Zenon
  <2> HIDE DEF Upto
  <2> QED  BY <2>4
<1>2. ASSUME NEW k \in P PROVE k + 1 \in P
  <2> SUFFICES ASSUME k + 1 <= n PROVE Upto(k + 1)
    <3> HIDE DEF Upto
    <3> QED  OBVIOUS
  <2>2. k \in Nat /\ Upto(k)
    <3> HIDE DEF Upto
    <3> QED  OBVIOUS
  <2>3. PICK f \in [0..k -> V] : f[0] = v0 /\ \A i \in 1..k : f[i] = G[i][f[i - 1]]
    BY <2>2
  <2> DEFINE g == [i \in 0..(k + 1) |-> IF i <= k THEN f[i] ELSE G[k + 1][f[k]]]
  <2>4. G[k + 1][f[k]] \in V
    BY <2>2, <2>3
  <2>5. g \in [0..(k + 1) -> V]
    BY <2>2, <2>3, <2>4
  <2>6. g[0] = v0
    BY <2>2, <2>3
  <2>7. \A i \in 1..(k + 1) : g[i] = G[i][g[i - 1]]
    BY <2>2, <2>3
  <2> HIDE DEF g
  <2> QED  BY <2>5, <2>6, <2>7, Zenon
<1>3. P = Nat
  BY <1>1, <1>2, SetInduction
<1>4. n \in P
  BY <1>3
<1>5. Upto(n)
  <2> HIDE DEF Upto
  <2> QED  BY <1>4
<1> QED  BY <1>5 DEF Computed

-----------------------------------------------------------------------------
(* The scan of the buffer *)

NothingYet == [clash |-> FALSE, compl |-> {}, types |-> {}, differ |-> {}]

\* Each round of the scan starts from what the round before has collected.
LEMMA RoundsStep ==
  ASSUME NEW d, IsDocument(d)
  PROVE  /\ Rounds(d)[0] = NothingYet
         /\ \A i \in 1..Len(d) : Rounds(d)[i] = ScanStep(Rounds(d)[i - 1], d[i])
<1> DEFINE Pairs == STRING \X STRING
           V == [clash : BOOLEAN, compl : SUBSET Pairs, types : SUBSET Pairs, differ : SUBSET Pairs]
           n == Len(d)
           G == [i \in 1..n |-> [v \in V |-> ScanStep(v, d[i])]]
           F(f) == [i \in 0..n |-> IF i = 0 THEN NothingYet ELSE ScanStep(f[i - 1], d[i])]
<1>1. NothingYet \in V /\ n \in Nat /\ \A i \in 1..n : d[i] \in STRING \X STRING \X STRING
  BY DEF IsDocument, NothingYet
<1>2. ASSUME NEW v \in V, NEW i \in 1..n PROVE ScanStep(v, d[i]) \in V
  <2> DEFINE t == d[i]
  <2>0. t[1] \in STRING /\ t[3] \in STRING /\ <<t[1], t[3]>> \in Pairs /\ <<t[3], t[1]>> \in Pairs
    BY <1>1
  <2> HIDE DEF t
  <2>1. ScanStep(v, t).clash \in BOOLEAN
    BY DEF ScanStep
  <2>2. ScanStep(v, t).compl \in SUBSET Pairs
    BY <2>0 DEF ScanStep
  <2>3. ScanStep(v, t).types \in SUBSET Pairs
    BY <2>0 DEF ScanStep
  <2>4. ScanStep(v, t).differ \in SUBSET Pairs
    BY <2>0 DEF ScanStep
  <2>5. ScanStep(v, t) = [clash |-> ScanStep(v, t).clash, compl |-> ScanStep(v, t).compl,
                          types |-> ScanStep(v, t).types, differ |-> ScanStep(v, t).differ]
    BY DEF ScanStep
  <2>6. ScanStep(v, t) \in V
    BY <2>1, <2>2, <2>3, <2>4, <2>5
  <2> QED BY <2>6 DEF t
<1>3. G \in [1..n -> [V -> V]]
  BY <1>2
<1>9. PICK f : Computed(f, V, NothingYet, n, G)
  <2> HIDE DEF G, V, n
  <2> QED BY <1>1, <1>3, Recursion, Zenon
<1>4. f \in [0..n -> V] /\ f[0] = NothingYet /\ \A i \in 1..n : f[i] = G[i][f[i - 1]]
  <2> HIDE DEF G, V, n
  <2> QED BY <1>9 DEF Computed
<1>5. \A i \in 1..n : f[i] = ScanStep(f[i - 1], d[i])
  <2> SUFFICES ASSUME NEW i \in 1..n PROVE f[i] = ScanStep(f[i - 1], d[i])
    OBVIOUS
  <2>1. i - 1 \in 0..n
    BY <1>1
  <2>2. f[i - 1] \in V
    <3> HIDE DEF V, n
    <3> QED BY <1>4, <2>1
  <2>3. G[i][f[i - 1]] = ScanStep(f[i - 1], d[i])
    <3> HIDE DEF V, n
    <3> QED BY <2>2
  <2> QED BY <1>4, <2>3
<1>6. f = F(f)
  <2> HIDE DEF V, n
  <2> QED BY <1>4, <1>5
<1>7. Rounds(d) = CHOOSE h : h = F(h)
  BY DEF Rounds, NothingYet
<1>8. Rounds(d) = F(Rounds(d))
  <2> HIDE DEF F
  <2> QED BY <1>6, <1>7
<1> QED BY <1>1, <1>8

\* What one triple says of each.
SaysClash(t)    == t[2] \in {"differentFrom", "complementOf"} /\ t[1] = t[3] /\ Named(t[1])
SaysCompl(t, x) == t[2] = "complementOf" /\ Named(t[1]) /\ Named(t[3]) /\ t[1] # t[3] /\ x = <<t[1], t[3]>>
SaysType(t, x)  == t[2] = "type" /\ Named(t[1]) /\ Named(t[3]) /\ x = <<t[1], t[3]>>

\* What the scan has collected after i rounds.
Collected(d, s, i) ==
  /\ s.clash <=> \E j \in 1..i : SaysClash(d[j])
  /\ \A x : x \in s.compl <=> \E j \in 1..i : SaysCompl(d[j], x)
  /\ \A x : x \in s.types <=> \E j \in 1..i : SaysType(d[j], x)

\* A round adds what its triple says.
LEMMA CollectedStep ==
  ASSUME NEW d, NEW s, NEW i \in Nat, Collected(d, s, i)
  PROVE  Collected(d, ScanStep(s, d[i + 1]), i + 1)
<1> DEFINE t == d[i + 1]
           r == ScanStep(s, t)
<1>1. \A j : j \in 1..(i + 1) <=> j \in 1..i \/ j = i + 1
  OBVIOUS
<1>2. r.clash <=> s.clash \/ SaysClash(t)
  BY DEF ScanStep, SaysClash
<1>3. \A x : x \in r.compl <=> x \in s.compl \/ SaysCompl(t, x)
  BY DEF ScanStep, SaysCompl
<1>4. \A x : x \in r.types <=> x \in s.types \/ SaysType(t, x)
  BY DEF ScanStep, SaysType
<1> HIDE DEF r
<1>5. r.clash <=> \E j \in 1..(i + 1) : SaysClash(d[j])
  BY <1>1, <1>2, Zenon DEF Collected
<1>6. \A x : x \in r.compl <=> \E j \in 1..(i + 1) : SaysCompl(d[j], x)
  BY <1>1, <1>3, Zenon DEF Collected
<1>7. \A x : x \in r.types <=> \E j \in 1..(i + 1) : SaysType(d[j], x)
  BY <1>1, <1>4, Zenon DEF Collected
<1> QED BY <1>5, <1>6, <1>7, Zenon DEF Collected, r

\* In the end the scan has collected what the document says.
LEMMA ScanCollects ==
  ASSUME NEW d, IsDocument(d)
  PROVE  Collected(d, Scan(d), Len(d))
<1> DEFINE P == {i \in Nat : i <= Len(d) => Collected(d, Rounds(d)[i], i)}
<1>0. Len(d) \in Nat
  BY DEF IsDocument
<1>1. 0 \in P
  <2>1. \A j : j \notin 1..0
    OBVIOUS
  <2>2. Collected(d, NothingYet, 0)
    BY <2>1 DEF Collected, NothingYet
  <2> QED BY <2>2, RoundsStep
<1>2. ASSUME NEW i \in P PROVE i + 1 \in P
  <2> SUFFICES ASSUME i + 1 <= Len(d) PROVE Collected(d, Rounds(d)[i + 1], i + 1)
    OBVIOUS
  <2>1. i \in Nat /\ Collected(d, Rounds(d)[i], i)
    BY <1>0
  <2>2. Rounds(d)[i + 1] = ScanStep(Rounds(d)[i], d[i + 1])
    BY <1>0, <2>1, RoundsStep
  <2> QED BY <2>1, <2>2, CollectedStep
<1>3. Len(d) \in P
  BY <1>0, <1>1, <1>2, SetInduction
<1> QED BY <1>3 DEF Scan

\* The verdict of the scan is what the document says, wherever its triples stand.
LEMMA VerdictOfScan ==
  ASSUME IsDocument(doc)
  PROVE  VerdictExact
<1> DEFINE n == Len(doc)
           s == Scan(doc)
           Same(t) == t[2] \in {"differentFrom", "complementOf"} /\ t[1] = t[3] /\ Named(t[1])
           Shared(t) == /\ t[2] = "complementOf" /\ Named(t[1]) /\ Named(t[3])
                        /\ \E u \in Facts(doc, "type") : /\ Named(u[1]) /\ u[3] = t[1]
                                                         /\ <<u[1], "type", t[3]>> \in Triples(doc)
<1>1. Collected(doc, s, n)
  BY ScanCollects
<1>2. \A t : t \in Triples(doc) <=> \E j \in 1..n : t = doc[j]
  BY DEF IsDocument, Triples
<1>3. \A t \in Triples(doc) : t = <<t[1], t[2], t[3]>>
  BY <1>2 DEF IsDocument
<1> HIDE DEF n, s
<1>4. s.clash <=> \E t \in Triples(doc) : Same(t)
  BY <1>1, <1>2 DEF Collected, SaysClash
<1>12. \A c : c \in s.types <=> \E t \in Triples(doc) : SaysType(t, c)
  BY <1>1, <1>2 DEF Collected
<1>5. \A x, y : <<x, y>> \in s.types <=> <<x, "type", y>> \in Triples(doc) /\ Named(x) /\ Named(y)
  <2> SUFFICES ASSUME NEW x, NEW y
               PROVE  <<x, y>> \in s.types <=> <<x, "type", y>> \in Triples(doc) /\ Named(x) /\ Named(y)
    OBVIOUS
  <2>1. <<x, y>> \in s.types <=> \E t \in Triples(doc) : SaysType(t, <<x, y>>)
    BY <1>12
  <2>2. \A t \in Triples(doc) : SaysType(t, <<x, y>>) <=> t = <<x, "type", y>> /\ Named(x) /\ Named(y)
    BY <1>3 DEF SaysType
  <2>3. (\E t \in Triples(doc) : SaysType(t, <<x, y>>))
          <=> <<x, "type", y>> \in Triples(doc) /\ Named(x) /\ Named(y)
    BY <2>2
  <2> QED BY <2>1, <2>3
<1>6. \A c : c \in s.compl <=> \E t \in Triples(doc) : SaysCompl(t, c)
  BY <1>1, <1>2 DEF Collected
<1>7. \A c \in s.types : c = <<c[1], c[2]>>
  BY <1>1 DEF Collected, SaysType
<1>8. ASSUME Clashes(s.compl, s.types) PROVE \E t \in Triples(doc) : Shared(t)
  <2>1. PICK c \in s.compl, x \in {t[1] : t \in s.types} : <<x, c[1]>> \in s.types /\ <<x, c[2]>> \in s.types
    BY <1>8 DEF Clashes
  <2>2. PICK t \in Triples(doc) : SaysCompl(t, c)
    BY <1>6, <2>1
  <2>3. /\ t[2] = "complementOf" /\ Named(t[1]) /\ Named(t[3])
        /\ <<x, t[1]>> \in s.types /\ <<x, t[3]>> \in s.types
    BY <2>1, <2>2 DEF SaysCompl
  <2>4. /\ Named(x) /\ <<x, "type", t[1]>> \in Triples(doc) /\ <<x, "type", t[3]>> \in Triples(doc)
    BY <1>5, <2>3
  <2>5. <<x, "type", t[1]>> \in Facts(doc, "type")
    BY <2>4 DEF Facts
  <2>6. Shared(t)
    BY <2>3, <2>4, <2>5
  <2> HIDE DEF Shared
  <2> QED BY <2>6
<1>9. ASSUME NEW t \in Triples(doc), Shared(t) PROVE s.clash \/ Clashes(s.compl, s.types)
  <2>1. PICK u \in Facts(doc, "type") : Named(u[1]) /\ u[3] = t[1] /\ <<u[1], "type", t[3]>> \in Triples(doc)
    BY <1>9
  <2>2. u \in Triples(doc) /\ u[2] = "type"
    BY <2>1 DEF Facts
  <2>3. u = <<u[1], "type", t[1]>>
    BY <1>3, <2>1, <2>2
  <2>4. <<u[1], t[1]>> \in s.types /\ <<u[1], t[3]>> \in s.types
    BY <1>5, <1>9, <2>1, <2>2, <2>3
  <2>5. CASE t[1] = t[3]
    <3>1. Same(t)
      BY <1>9, <2>5
    <3> HIDE DEF Same
    <3> QED BY <1>4, <3>1
  <2>6. CASE t[1] # t[3]
    <3>1. SaysCompl(t, <<t[1], t[3]>>)
      BY <1>9, <2>6 DEF SaysCompl
    <3>2. <<t[1], t[3]>> \in s.compl
      BY <1>6, <3>1
    <3>3. u[1] \in {v[1] : v \in s.types}
      BY <2>4
    <3>4. Clashes(s.compl, s.types)
      BY <2>4, <3>2, <3>3 DEF Clashes
    <3> QED BY <3>4
  <2> QED BY <2>5, <2>6
<1>10. TriviallyInconsistent(doc) <=> s.clash \/ Clashes(s.compl, s.types)
  BY DEF TriviallyInconsistent, s
<1>11. VerdictExact <=> (TriviallyInconsistent(doc) <=> \E t \in Triples(doc) : Same(t) \/ Shared(t))
  BY DEF VerdictExact
<1> HIDE DEF Same, Shared
<1> QED BY <1>4, <1>8, <1>9, <1>10, <1>11

-----------------------------------------------------------------------------
(* What is below a node *)

\* With the children of its members.
AndChildren(w) == w \cup {n \in kernel.nodes : kernel.parents[n] \cap w # {}}
ClosedBelow(w) == \A n \in kernel.nodes : kernel.parents[n] \cap w # {} => n \in w

\* Each step down adds the children of what was met before.
LEMMA NearStep ==
  ASSUME IsTaxonomy(kernel), NEW m \in kernel.nodes
  PROVE  /\ Cardinality(kernel.nodes) \in Nat
         /\ Near(m) \in [0..Cardinality(kernel.nodes) -> SUBSET kernel.nodes]
         /\ Near(m)[0] = {m}
         /\ \A k \in 1..Cardinality(kernel.nodes) : Near(m)[k] = AndChildren(Near(m)[k - 1])
<1> DEFINE n == Cardinality(kernel.nodes)
           V == SUBSET kernel.nodes
           v0 == {m}
           G == [k \in 1..n |-> [v \in V |-> AndChildren(v)]]
           F(f) == [k \in 0..n |-> IF k = 0 THEN v0 ELSE AndChildren(f[k - 1])]
<1>1. n \in Nat
  BY FS_CardinalityType DEF IsTaxonomy
<1>2. v0 \in V /\ \A v \in V : AndChildren(v) \in V
  BY DEF AndChildren
<1> HIDE DEF n, V, v0
<1>3. G \in [1..n -> [V -> V]]
  BY <1>2
<1>11. v0 \in V
  BY <1>2
<1> HIDE DEF G, F
<1>12. PICK f : Computed(f, V, v0, n, G)
  BY <1>1, <1>11, <1>3, Recursion, Zenon
<1>4. f \in [0..n -> V] /\ f[0] = v0 /\ \A k \in 1..n : f[k] = G[k][f[k - 1]]
  BY <1>12 DEF Computed
<1>5. \A k \in 1..n : f[k] = AndChildren(f[k - 1])
  <2> SUFFICES ASSUME NEW k \in 1..n PROVE f[k] = AndChildren(f[k - 1])
    OBVIOUS
  <2>1. f[k - 1] \in V
    BY <1>1, <1>4
  <2>2. G[k][f[k - 1]] = AndChildren(f[k - 1])
    BY <2>1 DEF G
  <2> QED BY <1>4, <2>2
<1>6. f = F(f)
  BY <1>4, <1>5 DEF F
<1>7. Near(m) = CHOOSE h : h = F(h)
  BY DEF F, Near, AndChildren, n, v0
<1>8. Near(m) = F(Near(m))
  BY <1>6, <1>7
<1> USE DEF F
<1>9. \A k \in 0..n : Near(m)[k] \in V
  <2> DEFINE P == {k \in Nat : k <= n => Near(m)[k] \in V}
  <2>1. 0 \in P
    BY <1>1, <1>2, <1>8
  <2>2. ASSUME NEW k \in P PROVE k + 1 \in P
    <3> SUFFICES ASSUME k + 1 <= n PROVE Near(m)[k + 1] \in V
      OBVIOUS
    <3>1. k \in 0..n /\ Near(m)[k] \in V
      BY <1>1
    <3>2. Near(m)[k + 1] = AndChildren(Near(m)[k])
      BY <1>1, <1>8, <3>1
    <3> QED BY <1>2, <3>1, <3>2
  <2>3. P = Nat
    BY <2>1, <2>2, SetInduction
  <2> QED BY <1>1, <2>3
<1>10. /\ Near(m) \in [0..n -> V]
       /\ Near(m)[0] = v0
       /\ \A k \in 1..n : Near(m)[k] = AndChildren(Near(m)[k - 1])
  BY <1>1, <1>8, <1>9
<1> QED BY <1>1, <1>10 DEF n, V, v0

\* After as many steps as there are nodes nothing is left to add: what is below a node holds
\* the children of its members.
LEMMA NearCloses ==
  ASSUME IsTaxonomy(kernel), NEW m \in kernel.nodes
  PROVE  /\ Near(m)[Cardinality(kernel.nodes)] \in SUBSET kernel.nodes
         /\ m \in Near(m)[Cardinality(kernel.nodes)]
         /\ ClosedBelow(Near(m)[Cardinality(kernel.nodes)])
<1> DEFINE c == Cardinality(kernel.nodes)
           f == Near(m)
           Grown(k) == m \in f[k] /\ (ClosedBelow(f[k]) \/ Cardinality(f[k]) > k)
           P == {k \in Nat : k <= c => Grown(k)}
<1>1. /\ c \in Nat /\ f \in [0..c -> SUBSET kernel.nodes] /\ f[0] = {m}
      /\ \A k \in 1..c : f[k] = AndChildren(f[k - 1])
  BY NearStep
<1>2. \A k \in 0..c : IsFiniteSet(f[k]) /\ Cardinality(f[k]) \in Nat /\ Cardinality(f[k]) <= c
  <2> SUFFICES ASSUME NEW k \in 0..c
               PROVE  IsFiniteSet(f[k]) /\ Cardinality(f[k]) \in Nat /\ Cardinality(f[k]) <= c
    OBVIOUS
  <2>1. f[k] \in SUBSET kernel.nodes /\ IsFiniteSet(kernel.nodes)
    BY <1>1 DEF IsTaxonomy
  <2> HIDE DEF f
  <2> QED BY <2>1, FS_Subset, FS_CardinalityType
<1> HIDE DEF f, c
<1>3. 0 \in P
  <2>1. Cardinality({m}) = 1
    BY FS_Singleton
  <2>2. m \in f[0] /\ Cardinality(f[0]) > 0
    BY <1>1, <2>1
  <2>3. Grown(0)
    BY <2>2
  <2> HIDE DEF Grown
  <2> QED BY <2>3
<1>4. ASSUME NEW k \in P PROVE k + 1 \in P
  <2> SUFFICES ASSUME k + 1 <= c PROVE Grown(k + 1)
    <3> HIDE DEF Grown
    <3> QED OBVIOUS
  <2>1. k \in 0..c /\ k + 1 \in 1..c /\ k + 1 \in 0..c
    BY <1>1
  <2>2. m \in f[k] /\ (ClosedBelow(f[k]) \/ Cardinality(f[k]) > k)
    BY <2>1
  <2>3. f[k + 1] = AndChildren(f[k])
    BY <1>1, <2>1
  <2>4. CASE ClosedBelow(f[k])
    <3>1. f[k + 1] = f[k]
      BY <2>3, <2>4 DEF ClosedBelow, AndChildren
    <3> QED BY <2>2, <2>4, <3>1
  <2>5. CASE ~ClosedBelow(f[k])
    <3>1. f[k] \subseteq f[k + 1] /\ f[k] # f[k + 1]
      BY <2>3, <2>5 DEF ClosedBelow, AndChildren
    <3>2. Cardinality(f[k]) <= Cardinality(f[k + 1]) /\ Cardinality(f[k]) # Cardinality(f[k + 1])
      BY <1>2, <2>1, <3>1, FS_Subset
    <3>3. Cardinality(f[k + 1]) > k + 1
      BY <1>2, <2>1, <2>2, <2>5, <3>2
    <3> QED BY <2>2, <3>1, <3>3
  <2> QED BY <2>4, <2>5
<1>5. P = Nat
  <2> HIDE DEF Grown
  <2> QED BY <1>3, <1>4, SetInduction
<1>6. Grown(c)
  <2>1. c \in P
    BY <1>1, <1>5
  <2> HIDE DEF Grown
  <2> QED BY <1>1, <2>1
<1>7. m \in f[c] /\ ClosedBelow(f[c])
  BY <1>1, <1>2, <1>6
<1> QED BY <1>1, <1>7 DEF f, c

\* What is below a node is in every set that holds the node and the children of its members.
LEMMA NearIsLeast ==
  ASSUME IsTaxonomy(kernel), NEW m \in kernel.nodes, NEW w, m \in w, ClosedBelow(w)
  PROVE  Near(m)[Cardinality(kernel.nodes)] \subseteq w
<1> DEFINE c == Cardinality(kernel.nodes)
           f == Near(m)
           P == {k \in Nat : k <= c => f[k] \subseteq w}
<1>1. c \in Nat /\ f[0] = {m} /\ \A k \in 1..c : f[k] = AndChildren(f[k - 1])
  BY NearStep
<1> HIDE DEF f, c
<1>2. 0 \in P
  BY <1>1
<1>3. ASSUME NEW k \in P PROVE k + 1 \in P
  <2> SUFFICES ASSUME k + 1 <= c PROVE f[k + 1] \subseteq w
    OBVIOUS
  <2>1. k + 1 \in 1..c /\ f[k] \subseteq w
    BY <1>1
  <2>2. f[k + 1] = AndChildren(f[k])
    BY <1>1, <2>1
  <2> QED BY <2>1, <2>2 DEF AndChildren, ClosedBelow
<1>4. P = Nat
  BY <1>2, <1>3, SetInduction
<1> QED BY <1>1, <1>4 DEF f, c

-----------------------------------------------------------------------------
(* Least numbers *)

\* A set of numbers has a least one.
LEMMA LeastNumber ==
  ASSUME NEW S \in SUBSET Nat, S # {}
  PROVE  \E x \in S : \A y \in S : x <= y
<1> DEFINE R == {p \in Nat \X Nat : p[1] < p[2]}
<1>1. IsWellFoundedOn(R, Nat)
  BY NatLessThanWellFounded DEF OpToRel
<1>2. PICK x \in S : \A y \in S : ~(<<y, x>> \in R)
  BY <1>1, WFMin
<1>3. \A y \in S : x <= y
  <2> SUFFICES ASSUME NEW y \in S, y < x PROVE FALSE
    OBVIOUS
  <2>1. <<y, x>> \in R
    OBVIOUS
  <2> QED BY <1>2, <2>1
<1> QED BY <1>3

\* The representative of some names is one of them.
LEMMA RepIsName ==
  ASSUME NEW names, names # {}, names \subseteq DOMAIN Rank
  PROVE  Rep(names) \in names
<1> DEFINE S == {Rank[c] : c \in names}
<1>1. S \in SUBSET Nat /\ S # {}
  BY RankAssumption
<1>2. PICK x \in S : \A y \in S : x <= y
  <2> HIDE DEF S
  <2> QED BY <1>1, LeastNumber
<1>3. PICK c \in names : \A d \in names : Rank[c] <= Rank[d]
  BY <1>2
<1> QED BY <1>3 DEF Rep

-----------------------------------------------------------------------------
(* The buffer while it grows *)

IsBuffer(r) == r = [out |-> r.out, axioms |-> r.axioms, justs |-> r.justs, maps |-> r.maps]

\* Emitting adds triples and nothing else.
LEMMA EmitAdds ==
  ASSUME NEW r, IsBuffer(r), NEW ts
  PROVE  /\ IsBuffer(Emit(r, ts)) /\ Emit(r, ts).out = r.out \cup ts
         /\ Emit(r, ts).axioms = r.axioms /\ Emit(r, ts).justs = r.justs /\ Emit(r, ts).maps = r.maps
<1>1. Emit(r, ts) = [out |-> r.out \cup ts, axioms |-> r.axioms, justs |-> r.justs, maps |-> r.maps]
  <2> PICK o, a, j, m : r = [out |-> o, axioms |-> a, justs |-> j, maps |-> m]
    BY DEF IsBuffer
  <2> QED BY SMTT(60) DEF Emit
<1> QED BY <1>1 DEF IsBuffer

\* Of a justification that is found for the second time the first one stays.
LEMMA RecordAdds ==
  ASSUME NEW r, IsBuffer(r), NEW js
  PROVE  /\ IsBuffer(Record(r, js)) /\ Record(r, js).out = r.out
         /\ \A id \in DOMAIN r.justs : id \in DOMAIN Record(r, js).justs /\ Record(r, js).justs[id] = r.justs[id]
         /\ \A id \in DOMAIN Record(r, js).justs \ DOMAIN r.justs :
              \E j \in js : j.id = id /\ Record(r, js).justs[id] = j.axioms /\ j.axioms \subseteq Record(r, js).axioms
         /\ r.axioms \subseteq Record(r, js).axioms
         /\ \A m \in Record(r, js).maps \ r.maps :
              \E j \in js : m = <<j.key, j.id>> /\ j.id \in DOMAIN Record(r, js).justs
<1> DEFINE fresh == {j.id : j \in js} \ DOMAIN r.justs
           first(id) == (CHOOSE j \in js : j.id = id).axioms
           justs == [id \in DOMAIN r.justs \cup fresh |-> IF id \in fresh THEN first(id) ELSE r.justs[id]]
           axioms == r.axioms \cup UNION {first(id) : id \in fresh}
           maps == r.maps \cup {<<j.key, j.id>> : j \in js}
<1>1. CASE ~explain
  <2>1. Record(r, js) = r
    BY <1>1 DEF Record
  <2> QED BY <2>1
<1>2. CASE explain
  <2>1. Record(r, js) = [out |-> r.out, axioms |-> axioms, justs |-> justs, maps |-> maps]
    BY <1>2 DEF Record, IsBuffer
  <2>2. \A id \in fresh : \E j \in js : j.id = id /\ first(id) = j.axioms
    OBVIOUS
  <2>3. DOMAIN justs = DOMAIN r.justs \cup fresh
    OBVIOUS
  <2>4. \A id \in DOMAIN r.justs : justs[id] = r.justs[id]
    OBVIOUS
  <2>5. \A id \in fresh : justs[id] = first(id) /\ first(id) \subseteq axioms
    <3> HIDE DEF first
    <3> QED OBVIOUS
  <2>6. \A j \in js : j.id \in DOMAIN r.justs \cup fresh
    OBVIOUS
  <2>7. r.axioms \subseteq axioms
    OBVIOUS
  <2>8. \A m \in maps \ r.maps : \E j \in js : m = <<j.key, j.id>>
    OBVIOUS
  <2>9. fresh \cap DOMAIN r.justs = {}
    OBVIOUS
  <2> HIDE DEF fresh, first, justs, axioms, maps
  <2>10. /\ Record(r, js).out = r.out /\ Record(r, js).axioms = axioms
         /\ Record(r, js).justs = justs /\ Record(r, js).maps = maps /\ IsBuffer(Record(r, js))
    BY <2>1 DEF IsBuffer
  <2>11. \A id \in DOMAIN justs \ DOMAIN r.justs :
            \E j \in js : j.id = id /\ justs[id] = j.axioms /\ j.axioms \subseteq axioms
    BY <2>2, <2>3, <2>5
  <2>12. \A m \in maps \ r.maps : \E j \in js : m = <<j.key, j.id>> /\ j.id \in DOMAIN justs
    BY <2>3, <2>6, <2>8
  <2> QED BY <2>3, <2>4, <2>7, <2>10, <2>11, <2>12
<1> QED BY <1>1, <1>2

-----------------------------------------------------------------------------
(* Explanations *)

\* What is written under a hash of tags is what the tags stand for; roles is the mode of the
\* builder, FALSE for classes and TRUE for properties.
TagsRight(r, roles) ==
  \A id \in DOMAIN r.justs :
    r.justs[id] \subseteq r.axioms /\ (id[1] = "tags" => r.justs[id] = AxiomIndices(id[2], roles))

\* What a triple of a hierarchy is mapped to.
MappedRight(t, id, roles) ==
  /\ t[2] = "subClassOf" => ~roles /\ id = <<"tags", Chain(t[1], t[3])>>
  /\ t[2] = "equivalentClass" => ~roles /\ id = <<"tags", Chain(t[1], t[3]) \cup Chain(t[3], t[1])>>
  /\ t[2] = "subPropertyOf" => roles /\ id = <<"tags", RoleChain(t[1], t[3])>>

MapsRight(r, roles) ==
  \A m \in r.maps : m[2] \in DOMAIN r.justs /\ MappedRight(m[1], m[2], roles)

Explaining(r, roles) == IsBuffer(r) /\ TagsRight(r, roles) /\ MapsRight(r, roles)

\* A justification as the builder makes them.
JustRight(j, roles) ==
  /\ j.id[1] = "tags" => j.axioms = AxiomIndices(j.id[2], roles)
  /\ MappedRight(j.key, j.id, roles)

\* Emitting triples explains nothing.
LEMMA EmitExplains ==
  ASSUME NEW r, NEW roles, Explaining(r, roles), NEW ts
  PROVE  Explaining(Emit(r, ts), roles)
BY EmitAdds DEF Explaining, TagsRight, MapsRight

\* Justifications that are right are written and mapped right.
LEMMA RecordExplains ==
  ASSUME NEW r, NEW roles, Explaining(r, roles), NEW js, \A j \in js : JustRight(j, roles)
  PROVE  Explaining(Record(r, js), roles)
<1> DEFINE q == Record(r, js)
<1>1. /\ IsBuffer(q)
      /\ \A id \in DOMAIN r.justs : id \in DOMAIN q.justs /\ q.justs[id] = r.justs[id]
      /\ \A id \in DOMAIN q.justs \ DOMAIN r.justs :
           \E j \in js : j.id = id /\ q.justs[id] = j.axioms /\ j.axioms \subseteq q.axioms
      /\ r.axioms \subseteq q.axioms
      /\ \A m \in q.maps \ r.maps : \E j \in js : m = <<j.key, j.id>> /\ j.id \in DOMAIN q.justs
  BY RecordAdds DEF Explaining
<1> HIDE DEF q
<1>2. TagsRight(q, roles)
  <2> SUFFICES ASSUME NEW id \in DOMAIN q.justs
               PROVE  q.justs[id] \subseteq q.axioms /\ (id[1] = "tags" => q.justs[id] = AxiomIndices(id[2], roles))
    BY DEF TagsRight
  <2>1. CASE id \in DOMAIN r.justs
    BY <1>1, <2>1 DEF Explaining, TagsRight
  <2>2. CASE id \notin DOMAIN r.justs
    <3>1. PICK j \in js : j.id = id /\ q.justs[id] = j.axioms /\ j.axioms \subseteq q.axioms
      BY <1>1, <2>2
    <3> QED BY <3>1 DEF JustRight
  <2> QED BY <2>1, <2>2
<1>3. MapsRight(q, roles)
  <2> SUFFICES ASSUME NEW m \in q.maps
               PROVE  m[2] \in DOMAIN q.justs /\ MappedRight(m[1], m[2], roles)
    BY DEF MapsRight
  <2>1. CASE m \in r.maps
    BY <1>1, <2>1 DEF Explaining, MapsRight
  <2>2. CASE m \notin r.maps
    <3>1. PICK j \in js : m = <<j.key, j.id>> /\ j.id \in DOMAIN q.justs
      BY <1>1, <2>2
    <3>2. m[1] = j.key /\ m[2] = j.id
      BY <3>1
    <3> QED BY <3>1, <3>2 DEF JustRight
  <2> QED BY <2>1, <2>2
<1> QED BY <1>1, <1>2, <1>3 DEF Explaining, q

\* Triples with the chains found for them are emitted and explained by those chains.
LEMMA WithTagsExplains ==
  ASSUME NEW r, NEW roles \in BOOLEAN, Explaining(r, roles), NEW tags,
         \A t \in DOMAIN tags : MappedRight(t, <<"tags", tags[t]>>, roles)
  PROVE  /\ Explaining(EmitWithTags(r, tags, roles), roles)
         /\ EmitWithTags(r, tags, roles).out = r.out \cup DOMAIN tags
<1> DEFINE js == {ByTags(t, tags[t], roles) : t \in {u \in DOMAIN tags : tags[u] # {}}}
           e == Emit(r, DOMAIN tags)
<1>1. Explaining(e, roles) /\ IsBuffer(e) /\ e.out = r.out \cup DOMAIN tags
  <2>1. Explaining(e, roles)
    BY EmitExplains
  <2>2. e.out = r.out \cup DOMAIN tags
    BY EmitAdds DEF Explaining
  <2> QED BY <2>1, <2>2 DEF Explaining
<1>2. \A j \in js : JustRight(j, roles)
  <2> SUFFICES ASSUME NEW t \in DOMAIN tags PROVE JustRight(ByTags(t, tags[t], roles), roles)
    OBVIOUS
  <2> DEFINE j == ByTags(t, tags[t], roles)
  <2>1. j.id = <<"tags", tags[t]>> /\ j.key = t /\ j.axioms = AxiomIndices(tags[t], roles)
    BY DEF ByTags, TagsId
  <2> HIDE DEF j
  <2>2. JustRight(j, roles)
    BY <2>1 DEF JustRight
  <2> QED BY <2>2 DEF j
<1>3. EmitWithTags(r, tags, roles) = Record(e, js)
  BY DEF EmitWithTags
<1> HIDE DEF js, e
<1> QED BY <1>1, <1>2, <1>3, RecordExplains, RecordAdds

\* Whatever explains the type of an individual is right.
LEMMA TypeExplained ==
  ASSUME NEW x, NEW c, NEW j \in TypeExplanations(<<x, "type", c>>)
  PROVE  JustRight(j, FALSE)
<1> DEFINE t == <<x, "type", c>>
           others == Concepts \ {c}
           partners == (UNION {g \in kernel.same : x \in g}) \ {x}
           ways == << {ByTags(t, tags, FALSE) : tags \in {RealChain(c)} \ {{}}},
                      {ByTags(t, tags, FALSE) : tags \in {Chain(d, c) : d \in others} \ {{}}},
                      {ByText(t, axioms) : axioms \in Recorded(x, c)},
                      {ByText(t, SubClassJustification(d, c) \cup {<<x, "type", d>>}) :
                         d \in {e \in others : SubClassJustification(e, c) # {}}},
                      {ByText(t, {<<x, "sameAs", y>>, <<y, "type", c>>}) : y \in partners} >>
           found == {i \in DOMAIN ways : ways[i] # {}}
<1>1. t[1] = x /\ t[2] = "type" /\ t[3] = c
  OBVIOUS
<1>2. \A tags : JustRight(ByTags(t, tags, FALSE), FALSE)
  BY <1>1 DEF ByTags, TagsId, JustRight, MappedRight
<1>3. \A axioms : JustRight(ByText(t, axioms), FALSE)
  BY <1>1 DEF ByText, XorId, JustRight, MappedRight
<1>4. TypeExplanations(t) = IF found = {} THEN {} ELSE ways[Min(found)]
  BY DEF TypeExplanations
<1>5. DOMAIN ways = 1..5
  OBVIOUS
<1>6. \A i \in 1..5 : \A k \in ways[i] : JustRight(k, FALSE)
  <2> HIDE DEF t, others, partners
  <2>1. \A k \in ways[1] : JustRight(k, FALSE)
    BY <1>2
  <2>2. \A k \in ways[2] : JustRight(k, FALSE)
    BY <1>2
  <2>3. \A k \in ways[3] : JustRight(k, FALSE)
    BY <1>3
  <2>4. \A k \in ways[4] : JustRight(k, FALSE)
    BY <1>3
  <2>5. \A k \in ways[5] : JustRight(k, FALSE)
    BY <1>3
  <2> HIDE DEF ways
  <2> SUFFICES ASSUME NEW i \in 1..5, NEW k \in ways[i] PROVE JustRight(k, FALSE)
    BY Zenon
  <2>6. i = 1 \/ i = 2 \/ i = 3 \/ i = 4 \/ i = 5
    OBVIOUS
  <2> QED BY <2>1, <2>2, <2>3, <2>4, <2>5, <2>6, Zenon
<1> HIDE DEF ways, t
<1>7. found # {} /\ j \in ways[Min(found)]
  BY <1>4 DEF t
<1>8. Min(found) \in 1..5
  <2>1. found \in SUBSET Nat
    BY <1>5
  <2> HIDE DEF found
  <2>2. PICK i \in found : \A k \in found : i <= k
    BY <1>7, <2>1, LeastNumber
  <2>3. Min(found) \in found
    BY <2>2 DEF Min
  <2> QED BY <1>5, <2>3 DEF found
<1> QED BY <1>6, <1>7, <1>8

-----------------------------------------------------------------------------
(* The class hierarchy in the buffer *)

Ranked == UNION (kernel.nodes \cup kernel.roleNodes) \subseteq DOMAIN Rank

\* The hierarchy is in the buffer, and nothing else that looks like it.
HierarchyOut ==
  /\ Equivalences \cup Edges \subseteq b.out
  /\ \A t \in b.out : t[2] \in {"subClassOf", "equivalentClass"} => t \in Equivalences \cup Edges

Hierarchy == Emitted({"subClassOf", "equivalentClass"})

\* The node of a class is the one it is in.
LEMMA NodeOf ==
  ASSUME IsTaxonomy(kernel), NEW n \in kernel.nodes, NEW c \in n
  PROVE  Node(c) = n
BY DEF IsTaxonomy, Node

\* A class is in its node.
LEMMA InNode ==
  ASSUME NEW c \in Concepts
  PROVE  Node(c) \in kernel.nodes /\ c \in Node(c)
BY DEF Concepts, Node

\* The names of one node are said to be equivalent.
LEMMA EquivalentSaid ==
  ASSUME HierarchyOut, NEW n \in kernel.nodes, NEW x \in Names(n), NEW y \in Names(n), x # y
  PROVE  <<x, y>> \in Hierarchy
<1> DEFINE t == <<x, "equivalentClass", y>>
<1>1. n \in Known
  BY DEF Known
<1>2. t \in Equivalences
  <2>1. t \in {<<c, "equivalentClass", d>> : c \in Names(n), d \in Names(n)}
    OBVIOUS
  <2>2. t \notin {<<c, "equivalentClass", c>> : c \in Concepts}
    OBVIOUS
  <2> DEFINE all == UNION {{<<c, "equivalentClass", d>> : c \in Names(k), d \in Names(k)} : k \in Known}
  <2>3. t \in all
    <3> HIDE DEF t
    <3> QED BY <1>1, <2>1
  <2>4. Equivalences = all \ {<<c, "equivalentClass", c>> : c \in Concepts}
    BY DEF Equivalences
  <2> HIDE DEF t, all
  <2> QED BY <2>2, <2>3, <2>4
<1>3. t \in b.out /\ t[2] = "equivalentClass" /\ <<t[1], t[3]>> = <<x, y>>
  BY <1>2 DEF HierarchyOut
<1> HIDE DEF t
<1> QED BY <1>3 DEF Hierarchy, Emitted

\* The representative of a node is said to be contained in those of its parents.
LEMMA EdgeSaid ==
  ASSUME HierarchyOut, NEW n \in Known, NEW m \in kernel.parents[n] \cap Known, Rep(Names(n)) # "Thing"
  PROVE  <<Rep(Names(n)), Rep(Names(m))>> \in Hierarchy
<1> DEFINE t == <<Rep(Names(n)), "subClassOf", Rep(Names(m))>>
<1>1. t \in Edges
  <2> DEFINE From(k) == {<<Rep(Names(k)), "subClassOf", Rep(Names(p))>> : p \in kernel.parents[k] \cap Known}
  <2>1. t \in From(n)
    OBVIOUS
  <2>2. n \in {k \in Known : Rep(Names(k)) # "Thing"}
    OBVIOUS
  <2>3. Edges = UNION {From(k) : k \in {l \in Known : Rep(Names(l)) # "Thing"}}
    BY DEF Edges
  <2> HIDE DEF t, From
  <2> QED BY <2>1, <2>2, <2>3
<1>2. t \in b.out /\ t[2] = "subClassOf" /\ <<t[1], t[3]>> = <<Rep(Names(n)), Rep(Names(m))>>
  BY <1>1 DEF HierarchyOut
<1> HIDE DEF t
<1> QED BY <1>2 DEF Hierarchy, Emitted

\* Whatever is said relates names of one node, or of a node and a parent of it.
LEMMA SaidIsKnown ==
  ASSUME HierarchyOut, Ranked, NEW r \in Hierarchy
  PROVE  \E n \in kernel.nodes : \E m \in {n} \cup kernel.parents[n] : r[1] \in n /\ r[2] \in m
<1>1. PICK t \in b.out : t[2] \in {"subClassOf", "equivalentClass"} /\ r = <<t[1], t[3]>>
  BY DEF Hierarchy, Emitted
<1>2. r[1] = t[1] /\ r[2] = t[3]
  BY <1>1
<1>3. CASE t \in Equivalences
  <2>1. PICK n \in Known : t \in {<<c, "equivalentClass", d>> : c \in Names(n), d \in Names(n)}
    BY <1>3 DEF Equivalences
  <2>2. t[1] \in n /\ t[3] \in n /\ n \in kernel.nodes
    BY <2>1 DEF Names, Known
  <2> QED BY <1>2, <2>2
<1>4. CASE t \in Edges
  <2>1. PICK n \in Known : t \in {<<Rep(Names(n)), "subClassOf", Rep(Names(m))>> : m \in kernel.parents[n] \cap Known}
    BY <1>4 DEF Edges
  <2>2. PICK m \in kernel.parents[n] \cap Known : t = <<Rep(Names(n)), "subClassOf", Rep(Names(m))>>
    BY <2>1
  <2>3. \A k \in Known : Rep(Names(k)) \in k
    <3> SUFFICES ASSUME NEW k \in Known PROVE Rep(Names(k)) \in k
      OBVIOUS
    <3>1. Names(k) # {} /\ Names(k) \subseteq DOMAIN Rank /\ Names(k) \subseteq k
      BY DEF Known, Names, Ranked
    <3> QED BY <3>1, RepIsName
  <2>4. t[1] \in n /\ t[3] \in m /\ n \in kernel.nodes
    BY <2>2, <2>3 DEF Known
  <2> QED BY <1>2, <2>2, <2>4
<1> QED BY <1>1, <1>3, <1>4 DEF HierarchyOut

\* A class below another is said to be, after closure.
LEMMA UpIsSaid ==
  ASSUME HierarchyOut, Ranked, IsTaxonomy(kernel),
         NEW c \in Concepts \ {"Nothing"}, NEW d \in Concepts \ {"Nothing"}, Below(Node(c), Node(d))
  PROVE  <<c, d>> \in Closure(Hierarchy, Concepts \ {"Nothing"})
<1> DEFINE names == Concepts \ {"Nothing"}
<1> SUFFICES ASSUME NEW T \in SUBSET names, c \in T, d \notin T,
                    \A r \in Hierarchy : r[1] \in T /\ r[2] \in names => r[2] \in T
             PROVE  FALSE
  BY DEF Closure
<1> DEFINE m0 == Node(d)
           w == {n \in kernel.nodes : Names(n) \cap T = {}}
<1>1. \A n \in kernel.nodes : Names(n) \subseteq names /\ Names(n) \subseteq DOMAIN Rank
  BY DEF Names, Concepts, Ranked
<1>2. m0 \in kernel.nodes /\ d \in Names(m0) /\ Node(c) \in kernel.nodes /\ c \in Names(Node(c))
  BY InNode DEF Names
<1> HIDE DEF m0, names
<1>3. \A n \in kernel.nodes : \A x, y \in Names(n) : x \in T => y \in T
  <2> SUFFICES ASSUME NEW n \in kernel.nodes, NEW x \in Names(n), NEW y \in Names(n), x \in T, x # y PROVE y \in T
    OBVIOUS
  <2>1. <<x, y>> \in Hierarchy
    BY EquivalentSaid
  <2>2. y \in names
    BY <1>1
  <2> QED BY <2>1, <2>2
<1>4. m0 \in w
  BY <1>2, <1>3
<1>5. ClosedBelow(w)
  <2> SUFFICES ASSUME NEW n \in kernel.nodes, NEW p \in kernel.parents[n], p \in w,
                      NEW x \in Names(n), x \in T
               PROVE  FALSE
    BY DEF ClosedBelow
  <2>1. n \in Known /\ p \in kernel.parents[n] \cap Known
    BY DEF Known, Names, IsTaxonomy
  <2>2. Rep(Names(n)) \in Names(n) /\ Rep(Names(p)) \in Names(p)
    BY <1>1, <2>1, RepIsName DEF Known
  <2>3. Rep(Names(n)) # "Thing"
    BY <2>2 DEF IsTaxonomy, Names
  <2>4. <<Rep(Names(n)), Rep(Names(p))>> \in Hierarchy
    BY <2>1, <2>3, EdgeSaid
  <2>5. Rep(Names(n)) \in T
    BY <1>3, <2>2
  <2>6. Rep(Names(p)) \in T
    BY <1>1, <2>2, <2>4, <2>5
  <2> QED BY <2>2, <2>6
<1>6. Near(m0)[Cardinality(kernel.nodes)] \subseteq w
  <2> HIDE DEF w
  <2> QED BY <1>2, <1>4, <1>5, NearIsLeast
<1>7. Node(c) \in w
  BY <1>6 DEF Below, m0
<1> QED BY <1>2, <1>7

\* What is said, after closure, is so.
LEMMA SaidIsUp ==
  ASSUME HierarchyOut, Ranked, IsTaxonomy(kernel),
         NEW c, NEW d, <<c, d>> \in Closure(Hierarchy, Concepts \ {"Nothing"})
  PROVE  IsSubClassOf(c, d)
<1> DEFINE names == Concepts \ {"Nothing"}
           all == Cardinality(kernel.nodes)
           T == {x \in names : Below(Node(c), Node(x))}
<1>1. c \in names /\ d \in names
  BY DEF Closure
<1>2. c \in T
  BY <1>1, InNode, NearCloses DEF Below
<1>3. \A r \in Hierarchy : r[1] \in T /\ r[2] \in names => r[2] \in T
  <2> SUFFICES ASSUME NEW r \in Hierarchy, r[1] \in T, r[2] \in names PROVE Below(Node(c), Node(r[2]))
    OBVIOUS
  <2>0. PICK n \in kernel.nodes : \E m \in {n} \cup kernel.parents[n] : r[1] \in n /\ r[2] \in m
    BY SaidIsKnown
  <2>1. PICK m \in {n} \cup kernel.parents[n] : r[1] \in n /\ r[2] \in m
    BY <2>0
  <2>2. m \in kernel.nodes
    BY <2>1 DEF IsTaxonomy
  <2>3. Node(r[1]) = n /\ Node(r[2]) = m
    BY <2>1, <2>2, NodeOf
  <2>4. Node(c) \in Near(n)[all]
    BY <2>3 DEF Below
  <2>5. CASE m \in kernel.parents[n]
    <3>1. m \in Near(m)[all] /\ ClosedBelow(Near(m)[all])
      BY <2>2, NearCloses
    <3>2. n \in Near(m)[all]
      BY <2>5, <3>1 DEF ClosedBelow
    <3>3. Near(n)[all] \subseteq Near(m)[all]
      BY <3>1, <3>2, NearIsLeast
    <3> QED BY <2>3, <2>4, <3>3 DEF Below
  <2> QED BY <2>1, <2>3, <2>4, <2>5 DEF Below
<1>4. T \in SUBSET names
  OBVIOUS
<1>5. d \in T
  <2> HIDE DEF T, names
  <2>1. <<c, d>> \in Closure(Hierarchy, names)
    BY DEF names
  <2> QED BY <1>2, <1>3, <1>4, <2>1 DEF Closure
<1> QED BY <1>1, <1>5 DEF IsSubClassOf

\* The hierarchy in the buffer says what the lookups answer.
LEMMA HierarchySaid ==
  ASSUME HierarchyOut, Ranked, IsTaxonomy(kernel)
  PROVE  LET names == Concepts \ {"Nothing"}
             said == Closure(Emitted({"subClassOf", "equivalentClass"}), names)
         IN /\ \A c, d \in names : IsSubClassOf(c, d) <=> <<c, d>> \in said
            /\ \A c \in UnsatisfiableClasses : ~IsSatisfiableClass(c) /\ \A d \in names : <<c, d>> \in said
<1> DEFINE names == Concepts \ {"Nothing"}
           said == Closure(Hierarchy, names)
<1>1. ASSUME NEW c \in names, NEW d \in names PROVE IsSubClassOf(c, d) <=> <<c, d>> \in said
  <2>1. CASE IsSubClassOf(c, d)
    BY <2>1, UpIsSaid DEF IsSubClassOf
  <2>2. CASE <<c, d>> \in said
    BY <2>2, SaidIsUp
  <2> QED BY <2>1, <2>2
<1>2. ASSUME NEW c \in UnsatisfiableClasses
      PROVE  ~IsSatisfiableClass(c) /\ \A d \in names : <<c, d>> \in said
  <2>1. c \in Concepts /\ c \in kernel.bottom /\ c # "Nothing" /\ kernel.bottom \in kernel.nodes
    BY <1>2 DEF UnsatisfiableClasses, IsTaxonomy
  <2>2. Node(c) = kernel.bottom
    BY <2>1, NodeOf
  <2>3. ASSUME NEW d \in names PROVE <<c, d>> \in said
    <3> DEFINE w == Near(Node(d))[Cardinality(kernel.nodes)]
    <3>1. w \in SUBSET kernel.nodes /\ Node(d) \in w /\ ClosedBelow(w)
      BY InNode, NearCloses
    <3> HIDE DEF w
    <3>2. kernel.bottom \in w
      <4>1. w \in (SUBSET kernel.nodes) \ {{}} /\ \A n \in kernel.nodes : kernel.parents[n] \cap w # {} => n \in w
        BY <3>1 DEF ClosedBelow
      <4> QED BY <4>1 DEF IsTaxonomy
    <3>3. Below(Node(c), Node(d))
      BY <2>2, <3>2 DEF Below, w
    <3> QED BY <2>1, <3>3, UpIsSaid
  <2> QED BY <2>1, <2>2, <2>3 DEF IsSatisfiableClass
<1> QED BY <1>1, <1>2 DEF Hierarchy

-----------------------------------------------------------------------------
(* Properties, skipped declarations, types *)

\* The edges of the property hierarchy in the buffer say, after closure, what the taxonomy says.
LEMMA RolesSaid ==
  ASSUME Ranked, IsRoleTaxonomy(kernel), RoleEdges \subseteq b.out
  PROVE  LET inner == kernel.roleNodes \ {kernel.roleTop, kernel.roleBottom, {}}
             above == {z \in inner \X inner : z[2] \in kernel.roleParents[z[1]]}
             names == UNION inner
             said == Closure(Emitted({"subPropertyOf"}), names)
         IN \A n, m \in inner : <<n, m>> \in Closure(above, inner) => <<Rep(n), Rep(m)>> \in said
<1> DEFINE inner == kernel.roleNodes \ {kernel.roleTop, kernel.roleBottom, {}}
           above == {z \in inner \X inner : z[2] \in kernel.roleParents[z[1]]}
           names == UNION inner
           rel == Emitted({"subPropertyOf"})
<1>1. \A n \in inner : Rep(n) \in names
  <2> SUFFICES ASSUME NEW n \in inner PROVE Rep(n) \in names
    OBVIOUS
  <2>1. n # {} /\ n \subseteq DOMAIN Rank
    BY DEF Ranked
  <2> QED BY <2>1, RepIsName
<1>2. ASSUME NEW n \in inner, NEW m \in inner, m \in kernel.roleParents[n] PROVE <<Rep(n), Rep(m)>> \in rel
  <2> DEFINE t == <<Rep(n), "subPropertyOf", Rep(m)>>
             all == {k \in kernel.roleNodes : k # {} /\ k \notin {kernel.roleTop, kernel.roleBottom}}
             From(k) == {<<Rep(k), "subPropertyOf", Rep(p)>> :
                           p \in {l \in kernel.roleParents[k] : l # {} /\ l # kernel.roleBottom}}
  <2>1. t \in From(n) /\ n \in all
    BY <1>2
  <2>2. RoleEdges = UNION {From(k) : k \in all}
    BY DEF RoleEdges
  <2>3. t[2] = "subPropertyOf" /\ <<t[1], t[3]>> = <<Rep(n), Rep(m)>>
    OBVIOUS
  <2> HIDE DEF t, all, From
  <2>4. t \in b.out
    BY <2>1, <2>2
  <2> QED BY <2>3, <2>4 DEF Emitted
<1>3. ASSUME NEW n \in inner, NEW m \in inner, <<n, m>> \in Closure(above, inner)
      PROVE  <<Rep(n), Rep(m)>> \in Closure(rel, names)
  <2> SUFFICES ASSUME NEW T \in SUBSET names, Rep(n) \in T,
                      \A r \in rel : r[1] \in T /\ r[2] \in names => r[2] \in T
               PROVE  Rep(m) \in T
    BY <1>1 DEF Closure
  <2> DEFINE S == {k \in inner : Rep(k) \in T}
  <2>1. S \in SUBSET inner /\ n \in S
    OBVIOUS
  <2>2. ASSUME NEW r \in above, r[1] \in S, r[2] \in inner PROVE r[2] \in S
    <3>1. r[1] \in inner /\ r[2] \in kernel.roleParents[r[1]]
      OBVIOUS
    <3>2. <<Rep(r[1]), Rep(r[2])>> \in rel
      BY <1>2, <2>2, <3>1
    <3>3. Rep(r[1]) \in T
      BY <2>2
    <3> HIDE DEF rel, inner, names
    <3>4. Rep(r[2]) \in T
      BY <1>1, <2>2, <3>2, <3>3
    <3> QED BY <2>2, <3>4
  <2>3. m \in S
    <3> HIDE DEF S, above, inner
    <3> QED BY <1>3, <2>1, <2>2 DEF Closure
  <2> QED BY <2>3
<1> QED BY <1>3

\* Two fillers that a skipped declaration would have made the same are among the pairs.
LEMMA SkippedArePaired ==
  ASSUME IsDocument(doc),
         NEW d \in Triples(doc) \ KernelTriples(doc, TRUE), NEW t \in Facts(doc, d[1]), NEW u \in Facts(doc, d[1]),
         End(d[3], t) = End(d[3], u), Other(d[3], t) # Other(d[3], u),
         {Other(d[3], t), Other(d[3], u), End(d[3], t)} \cap (Blank \cup Literal) = {}
  PROVE  <<Other(d[3], t), "sameAs", Other(d[3], u)>> \in Keys(FpIfpSameAs(doc))
<1> DEFINE x == Other(d[3], t)
           y == Other(d[3], u)
           Pair(m) == LET a == Other(m.decl, doc[m.i])
                          c == Other(m.decl, doc[m.j])
                          axioms == {<<doc[m.i][2], "type", m.decl>>, doc[m.i], doc[m.j]}
                      IN {Justify(a, "sameAs", c, axioms), Justify(c, "sameAs", a, axioms)}
<1>1. PICK k \in Merges(doc) : d = <<doc[k.i][2], "type", k.decl>>
  BY DEF KernelTriples, Skipped
<1>2. /\ d[3] = k.decl /\ k.decl \in Declarations /\ d[1] = doc[k.i][2]
      /\ <<d[1], "type", d[3]>> \in Triples(doc)
  BY <1>1 DEF Merges
<1>3. PICK i \in DOMAIN doc : t = doc[i]
  BY DEF Facts, Triples
<1>4. PICK j \in DOMAIN doc : u = doc[j]
  BY DEF Facts, Triples
<1>5. i # j /\ i \in Int /\ j \in Int
  BY <1>3, <1>4 DEF IsDocument
<1>6. t[2] = d[1] /\ u[2] = d[1]
  BY DEF Facts
<1>7. \A z \in {t[1], t[3], u[1], u[3]} : Named(z)
  BY <1>2 DEF Named, End, Other, Declarations
<1>8. ASSUME NEW p \in DOMAIN doc, NEW q \in DOMAIN doc, p < q, {p, q} = {i, j}
      PROVE  <<x, "sameAs", y>> \in Keys(FpIfpSameAs(doc))
  <2> DEFINE m == [decl |-> d[3], i |-> p, j |-> q]
  <2>1. m \in [decl : Declarations, i : DOMAIN doc, j : DOMAIN doc]
    BY <1>2
  <2>2. m.decl = d[3] /\ m.i = p /\ m.j = q
    OBVIOUS
  <2> HIDE DEF m
  <2>3. (doc[p] = t /\ doc[q] = u) \/ (doc[p] = u /\ doc[q] = t)
    BY <1>3, <1>4, <1>8
  <2>4. m \in Merges(doc)
    BY <1>2, <1>6, <1>7, <1>8, <2>1, <2>2, <2>3 DEF Merges, Apart
  <2>5. \E e \in Pair(m) : e.key = <<x, "sameAs", y>>
    BY <2>2, <2>3 DEF Justify
  <2>6. Pair(m) \subseteq FpIfpSameAs(doc)
    <3>1. FpIfpSameAs(doc) = UNION {Pair(l) : l \in Merges(doc)}
      BY DEF FpIfpSameAs
    <3> HIDE DEF Pair
    <3> QED BY <2>4, <3>1
  <2> HIDE DEF Pair
  <2> QED BY <2>5, <2>6 DEF Keys
<1>9. i < j \/ j < i
  BY <1>5
<1> QED BY <1>8, <1>9

\* The types that triples of the given predicates state.
TypesOf(ts) == {<<t[1], t[3]>> : t \in {u \in ts : u[2] = "type"}}

\* The types in the buffer grow by those that are emitted.
LEMMA EmitTypes ==
  ASSUME NEW r, IsBuffer(r), NEW ts
  PROVE  TypesIn(Emit(r, ts)) = TypesIn(r) \cup TypesOf(ts)
BY EmitAdds DEF TypesIn, TypesOf

\* Recording a justification changes no type.
LEMMA RecordTypes ==
  ASSUME NEW r, IsBuffer(r), NEW js
  PROVE  TypesIn(Record(r, js)) = TypesIn(r)
BY RecordAdds DEF TypesIn

\* What holds of more types fires more.
LEMMA FiredGrows ==
  ASSUME NEW S, NEW T, S \subseteq T
  PROVE  Fired(S) \subseteq Fired(T)
<1> DEFINE By(t) == UNION {{<<y, e.filler>> : y \in ToSet(Fillers(doc, t[1], e.property))} :
                             e \in {f \in SvfIndex(doc) : f.class = t[2]}}
<1>1. Fired(S) = UNION {By(t) : t \in S} /\ Fired(T) = UNION {By(t) : t \in T}
  BY DEF Fired
<1> HIDE DEF By
<1> QED BY <1>1

-----------------------------------------------------------------------------
(* The inductive invariant *)

\* The types that are asserted or emitted for another reason than a filler.
Given ==
  ABoxTypes(doc) \cup {t \in kernel.types : kernel.realized /\ t[2] \notin {"Thing", "Nothing"}}
    \cup {<<j.key[1], j.key[3]>> : j \in OneOf(doc) \cup IntersectionTypes(doc) \cup SelfTypes(doc)}
    \cup {<<t[1], t[3]>> : t \in MinCardTypes}

\* Each reason gives its types.
LEMMA GivenHas ==
  /\ ABoxTypes(doc) \subseteq Given
  /\ kernel.realized => \A t \in kernel.types : t[2] \notin {"Thing", "Nothing"} => t \in Given
  /\ \A j \in OneOf(doc) \cup IntersectionTypes(doc) \cup SelfTypes(doc) : <<j.key[1], j.key[3]>> \in Given
  /\ \A t \in MinCardTypes : <<t[1], t[3]>> \in Given
<1> DEFINE K == {t \in kernel.types : kernel.realized /\ t[2] \notin {"Thing", "Nothing"}}
           J == OneOf(doc) \cup IntersectionTypes(doc) \cup SelfTypes(doc)
           W == {<<j.key[1], j.key[3]>> : j \in J}
           M == {<<t[1], t[3]>> : t \in MinCardTypes}
<1>1. Given = ABoxTypes(doc) \cup K \cup W \cup M
  BY DEF Given
<1>2. kernel.realized => \A t \in kernel.types : t[2] \notin {"Thing", "Nothing"} => t \in K
  OBVIOUS
<1>3. \A j \in J : <<j.key[1], j.key[3]>> \in W
  OBVIOUS
<1>4. \A t \in MinCardTypes : <<t[1], t[3]>> \in M
  OBVIOUS
<1> HIDE DEF K, W, M
<1> QED BY <1>1, <1>2, <1>3, <1>4

Input == \E c \in Cases : doc = c.doc /\ kernel = c.kernel

\* A triple of a hierarchy is in the buffer only as part of it.
ExplanationsRight ==
  /\ pc # "propertiesDone" => Explaining(b, FALSE)
  /\ pc = "propertiesDone" => Explaining(b, TRUE)

EmptyBefore == pc \in {"load", "classes", "properties"} => b = Empty

HierarchyKept == pc \in {"types", "workarounds", "post"} => HierarchyOut

\* Of the types the kernel found those that were not emitted yet are still to be.
TypesKept ==
  /\ todo \subseteq kernel.types
  /\ pc = "types" => kernel.realized
  /\ pc \in {"workarounds", "post", "loop", "done"} => todo = {}
  /\ pc \in {"types", "workarounds", "post", "loop", "done"} /\ kernel.realized =>
       \A t \in kernel.types : t[2] \notin {"Thing", "Nothing"} => t \in TypesIn(b) \cup todo

\* Before the loop over someValuesFrom no other type has been emitted.
TypesAreGiven == pc \in {"types", "workarounds", "post"} => TypesIn(b) \subseteq Given

SameKept == pc \in {"loop", "done"} /\ kernel.forRealization => Keys(FpIfpSameAs(doc)) \subseteq b.out

\* The loop has the types of the document and of the buffer, and needs them all.
LoopExact ==
  /\ pc = "loop" => SvfIndex(doc) # {}
  /\ pc \in {"loop", "done"} /\ SvfIndex(doc) # {} =>
       /\ allTypes = ABoxTypes(doc) \cup TypesIn(b)
       /\ \A C : Given \cap allTypes \subseteq C /\ Fired(C) \subseteq C => allTypes \subseteq C
  /\ pc = "done" /\ SvfIndex(doc) # {} => Fired(allTypes) \subseteq allTypes

PropertiesKept == pc = "propertiesDone" => RoleEdges \subseteq b.out

IInv ==
  /\ Input /\ ExplanationsRight /\ EmptyBefore /\ HierarchyKept /\ TypesKept /\ TypesAreGiven /\ SameKept
  /\ LoopExact /\ PropertiesKept

\* What the cases are assumed to be.
LEMMA InputKnown ==
  ASSUME Input
  PROVE  /\ IsDocument(doc) /\ IsTaxonomy(kernel) /\ IsRoleTaxonomy(kernel) /\ AreRealized(kernel) /\ Ranked
BY CasesAssumption DEF Input, Ranked

\* Nothing has been written into an empty buffer.
LEMMA EmptyExplains == Explaining(Empty, FALSE) /\ Explaining(Empty, TRUE)
BY DEF Explaining, IsBuffer, TagsRight, MapsRight, Empty

\* At the start nothing is in the buffer.
LEMMA InitIInv == Init => IInv
<1> SUFFICES ASSUME Init PROVE IInv
  OBVIOUS
<1>1. pc = "load" /\ b = Empty /\ todo = {}
  BY DEF Init
<1>2. Input
  BY DEF Init, Input
<1>3. ExplanationsRight
  BY <1>1, EmptyExplains DEF ExplanationsRight
<1> QED BY <1>1, <1>2, <1>3
        DEF IInv, EmptyBefore, HierarchyKept, TypesKept, TypesAreGiven, SameKept, LoopExact, PropertiesKept

-----------------------------------------------------------------------------
(* What does not change with the buffer *)

\* Everything that is read from the document and the kernel stays what it is.
LEMMA Fixed ==
  ASSUME UNCHANGED input
  PROVE  /\ \A tags, roles : AxiomIndices(tags, roles)' = AxiomIndices(tags, roles)
         /\ \A c, d : Chain(c, d)' = Chain(c, d) /\ RoleChain(c, d)' = RoleChain(c, d)
         /\ Equivalences' = Equivalences /\ Edges' = Edges /\ RoleEdges' = RoleEdges
         /\ Given' = Given /\ \A T : Fired(T)' = Fired(T)
         /\ Input' = Input
<1>1. doc' = doc /\ kernel' = kernel /\ explain' = explain
  BY DEF input
<1>2. \A tags, roles : AxiomIndices(tags, roles)' = AxiomIndices(tags, roles)
  BY <1>1 DEF AxiomIndices, AxiomsForConceptTag, AxiomsForRoleTag
<1>3. \A c, d : Chain(c, d)' = Chain(c, d) /\ RoleChain(c, d)' = RoleChain(c, d)
  BY <1>1 DEF Chain, RoleChain, Lookup
<1>4. Equivalences' = Equivalences
  BY <1>1 DEF Equivalences, Known, Concepts
<1>5. Edges' = Edges
  BY <1>1 DEF Edges, Known
<1>6. RoleEdges' = RoleEdges
  BY <1>1 DEF RoleEdges
<1>7. MinCardTypes' = MinCardTypes
  BY <1>1 DEF MinCardTypes, MinCardMet
<1>8. Given' = Given
  BY <1>1, <1>7 DEF Given
<1>9. \A T : Fired(T)' = Fired(T)
  BY <1>1 DEF Fired
<1>10. Input' = Input
  BY <1>1 DEF Input
<1> QED BY <1>2, <1>3, <1>4, <1>5, <1>6, <1>8, <1>9, <1>10

\* What the buffer explains is right after a step when it would be so before it.
LEMMA ExplainingNext ==
  ASSUME UNCHANGED input, NEW roles \in BOOLEAN, Explaining(b', roles)
  PROVE  Explaining(b, roles)'
<1>1. \A id : AxiomIndices(id[2], roles)' = AxiomIndices(id[2], roles)
  BY Fixed
<1>2. TagsRight(b, roles)'
  BY <1>1 DEF Explaining, TagsRight
<1>3. \A t, id : MappedRight(t, id, roles)' <=> MappedRight(t, id, roles)
  BY Fixed DEF MappedRight
<1>4. MapsRight(b, roles)'
  BY <1>3 DEF Explaining, MapsRight
<1>5. IsBuffer(b)'
  BY DEF Explaining, IsBuffer
<1> QED BY <1>2, <1>4, <1>5 DEF Explaining

-----------------------------------------------------------------------------
(* The steps *)

\* The triples of the hierarchies by their predicates.
LEMMA Predicates ==
  /\ \A t \in Equivalences : t[2] = "equivalentClass"
  /\ \A t \in Edges : t[2] = "subClassOf"
  /\ \A t \in RoleEdges : t[2] = "subPropertyOf"
<1>1. \A t \in Equivalences : t[2] = "equivalentClass"
  BY DEF Equivalences
<1>2. \A t \in Edges : t[2] = "subClassOf"
  BY DEF Edges
<1>3. \A t \in RoleEdges : t[2] = "subPropertyOf"
  BY DEF RoleEdges
<1> QED BY <1>1, <1>2, <1>3

\* Loading leaves the buffer empty.
LEMMA LoadKeeps ==
  ASSUME IInv, Load
  PROVE  IInv'
<1>1. UNCHANGED <<input, b, todo, allTypes>> /\ pc = "load" /\ pc' \in {"classes", "properties"}
  BY DEF Load
<1>2. b' = Empty /\ b = Empty
  BY <1>1 DEF IInv, EmptyBefore
<1>3. ExplanationsRight'
  BY <1>1, <1>2, EmptyExplains, ExplainingNext DEF ExplanationsRight
<1>4. Input'
  BY <1>1, Fixed DEF IInv
<1>5. kernel' = kernel /\ todo' = todo
  BY <1>1 DEF input
<1>6. TypesKept'
  BY <1>1, <1>5 DEF IInv, TypesKept
<1> QED BY <1>1, <1>2, <1>3, <1>4, <1>6
        DEF IInv, EmptyBefore, HierarchyKept, TypesAreGiven, SameKept, LoopExact, PropertiesKept

\* The hierarchy is written into an empty buffer.
LEMMA BuildTBoxKeeps ==
  ASSUME IInv, BuildTBox
  PROVE  IInv'
<1> DEFINE equivalences == [t \in Equivalences |-> Chain(t[1], t[3]) \cup Chain(t[3], t[1])]
           edges == [t \in Edges |-> Chain(t[1], t[3])]
           mid == EmitWithTags(b, equivalences, FALSE)
           q == EmitWithTags(mid, edges, FALSE)
<1>1. /\ pc = "classes" /\ b' = q /\ UNCHANGED input
      /\ todo' = IF kernel.realized THEN kernel.types ELSE {}
      /\ pc' = IF kernel.realized THEN "types" ELSE "post"
  BY DEF BuildTBox
<1>2. b = Empty
  BY <1>1 DEF IInv, EmptyBefore
<1>3. Explaining(mid, FALSE) /\ mid.out = b.out \cup Equivalences
  <2>1. DOMAIN equivalences = Equivalences
    OBVIOUS
  <2>2. \A t \in Equivalences : MappedRight(t, <<"tags", equivalences[t]>>, FALSE)
    BY Predicates DEF MappedRight
  <2>3. Explaining(b, FALSE)
    BY <1>2, EmptyExplains
  <2> HIDE DEF equivalences
  <2> QED BY <2>1, <2>2, <2>3, WithTagsExplains
<1>4. Explaining(q, FALSE) /\ q.out = mid.out \cup Edges
  <2>1. DOMAIN edges = Edges
    OBVIOUS
  <2>2. \A t \in Edges : MappedRight(t, <<"tags", edges[t]>>, FALSE)
    BY Predicates DEF MappedRight
  <2> HIDE DEF edges, mid
  <2> QED BY <1>3, <2>1, <2>2, WithTagsExplains
<1> HIDE DEF mid, q, equivalences, edges
<1>5. b'.out = Equivalences \cup Edges
  BY <1>1, <1>2, <1>3, <1>4 DEF Empty
<1>6. pc' \in {"types", "post"} /\ kernel' = kernel
  BY <1>1 DEF input
<1>7. ExplanationsRight'
  <2>1. Explaining(b', FALSE)
    BY <1>1, <1>4
  <2> QED BY <1>1, <1>6, <2>1, ExplainingNext DEF ExplanationsRight
<1>8. HierarchyKept'
  BY <1>1, <1>5, Fixed DEF HierarchyKept, HierarchyOut
<1>9. TypesIn(b') = {}
  BY <1>5, Predicates DEF TypesIn
<1>10. TypesKept'
  BY <1>1, <1>6, <1>9 DEF TypesKept
<1>11. TypesAreGiven'
  BY <1>9 DEF TypesAreGiven
<1>12. Input'
  BY <1>1, Fixed DEF IInv
<1> QED BY <1>6, <1>7, <1>8, <1>10, <1>11, <1>12
        DEF IInv, EmptyBefore, SameKept, LoopExact, PropertiesKept

\* A type found by the kernel is written, with one of its explanations.
LEMMA EmitTypeKeeps ==
  ASSUME IInv, EmitType
  PROVE  IInv'
<1> DEFINE next == CHOOSE e \in todo : TRUE
           t == <<next[1], "type", next[2]>>
           ways == TypeExplanations(t)
<1>1. /\ pc = "types" /\ pc' = pc /\ UNCHANGED input
      /\ todo # {} /\ todo' = todo \ {next}
      /\ IF t[3] \in {"Thing", "Nothing"} THEN b' = b
         ELSE IF ways = {} THEN b' = Emit(b, {t})
         ELSE \E just \in ways : b' = Record(Emit(b, {t}), {just})
  BY DEF EmitType
<1>2. /\ next \in todo /\ next \in kernel.types /\ kernel.realized
      /\ next = <<next[1], next[2]>>
  <2>1. next \in todo
    BY <1>1
  <2>2. next \in kernel.types /\ kernel.realized
    BY <1>1, <2>1 DEF IInv, TypesKept
  <2>3. next \in STRING \X STRING
    BY <2>2, InputKnown DEF IInv, AreRealized
  <2> QED BY <2>1, <2>2, <2>3
<1> HIDE DEF next
<1>3. t[1] = next[1] /\ t[2] = "type" /\ t[3] = next[2]
  OBVIOUS
<1>4. TypesOf({t}) = {next}
  BY <1>2, <1>3 DEF TypesOf
<1>5. \A j \in ways : JustRight(j, FALSE)
  BY TypeExplained
<1> HIDE DEF t, ways
<1>6. Explaining(b, FALSE) /\ IsBuffer(b)
  BY <1>1 DEF IInv, ExplanationsRight, Explaining
<1>7. \/ next[2] \in {"Thing", "Nothing"} /\ b' = b
      \/ /\ next[2] \notin {"Thing", "Nothing"}
         /\ Explaining(b', FALSE) /\ b'.out = b.out \cup {t} /\ TypesIn(b') = TypesIn(b) \cup {next}
  <2> DEFINE e == Emit(b, {t})
  <2>1. Explaining(e, FALSE) /\ IsBuffer(e) /\ e.out = b.out \cup {t} /\ TypesIn(e) = TypesIn(b) \cup {next}
    <3>1. Explaining(e, FALSE)
      BY <1>6, EmitExplains
    <3>2. e.out = b.out \cup {t}
      BY <1>6, EmitAdds
    <3>3. TypesIn(e) = TypesIn(b) \cup {next}
      BY <1>4, <1>6, EmitTypes
    <3> QED BY <3>1, <3>2, <3>3 DEF Explaining
  <2> HIDE DEF e
  <2>2. CASE t[3] \in {"Thing", "Nothing"}
    BY <1>1, <1>3, <2>2
  <2>3. CASE t[3] \notin {"Thing", "Nothing"} /\ ways = {}
    <3>1. b' = e
      BY <1>1, <2>3 DEF e
    <3> QED BY <1>3, <2>1, <2>3, <3>1
  <2>4. CASE t[3] \notin {"Thing", "Nothing"} /\ ways # {}
    <3>1. PICK just \in ways : b' = Record(e, {just})
      BY <1>1, <2>4 DEF e
    <3>2. Explaining(Record(e, {just}), FALSE)
      BY <1>5, <2>1, RecordExplains
    <3>3. Record(e, {just}).out = e.out
      BY <2>1, RecordAdds
    <3>4. TypesIn(Record(e, {just})) = TypesIn(e)
      BY <2>1, RecordTypes
    <3> QED BY <1>3, <2>1, <2>4, <3>1, <3>2, <3>3, <3>4
  <2> QED BY <2>2, <2>3, <2>4
<1>8. ExplanationsRight'
  <2>1. Explaining(b', FALSE)
    BY <1>6, <1>7
  <2> QED BY <1>1, <2>1, ExplainingNext DEF ExplanationsRight
<1>9. kernel' = kernel
  BY <1>1 DEF input
<1>10. HierarchyKept'
  <2>1. HierarchyOut
    BY <1>1 DEF IInv, HierarchyKept
  <2>2. Equivalences \cup Edges \subseteq b'.out
        /\ \A u \in b'.out : u[2] \in {"subClassOf", "equivalentClass"} => u \in Equivalences \cup Edges
    BY <1>3, <1>7, <2>1 DEF HierarchyOut
  <2>3. HierarchyOut'
    BY <1>1, <2>2, Fixed DEF HierarchyOut
  <2> QED BY <2>3 DEF HierarchyKept
<1>11. TypesKept'
  <2>1. TypesIn(b) \subseteq TypesIn(b') /\ (next[2] \notin {"Thing", "Nothing"} => next \in TypesIn(b'))
    BY <1>7
  <2>2. \A u \in kernel.types : u[2] \notin {"Thing", "Nothing"} => u \in TypesIn(b) \cup todo
    BY <1>1, <1>2 DEF IInv, TypesKept
  <2>3. \A u \in kernel.types : u[2] \notin {"Thing", "Nothing"} => u \in TypesIn(b') \cup todo'
    BY <1>1, <2>1, <2>2
  <2>4. todo' \subseteq kernel.types
    BY <1>1 DEF IInv, TypesKept
  <2> QED BY <1>1, <1>2, <1>9, <2>3, <2>4 DEF TypesKept
<1>12. TypesAreGiven'
  <2>1. TypesIn(b) \subseteq Given
    BY <1>1 DEF IInv, TypesAreGiven
  <2>2. next[2] \notin {"Thing", "Nothing"} => next \in Given
    BY <1>2, GivenHas
  <2>3. TypesIn(b') \subseteq TypesIn(b) \cup Given
    <3>1. CASE b' = b
      BY <3>1
    <3>2. CASE next[2] \notin {"Thing", "Nothing"} /\ TypesIn(b') = TypesIn(b) \cup {next}
      BY <2>2, <3>2
    <3> QED BY <1>7, <3>1, <3>2
  <2>4. TypesIn(b') \subseteq Given
    BY <2>1, <2>3
  <2> QED BY <1>1, <2>4, Fixed DEF TypesAreGiven
<1>13. Input'
  BY <1>1, Fixed DEF IInv
<1> QED BY <1>1, <1>8, <1>10, <1>11, <1>12, <1>13
        DEF IInv, EmptyBefore, SameKept, LoopExact, PropertiesKept

\* Triples of no hierarchy leave the hierarchies as they are.
LEMMA HierarchyStays ==
  ASSUME HierarchyOut, UNCHANGED input, NEW ts, b'.out = b.out \cup ts,
         \A t \in ts : t[2] \notin {"subClassOf", "equivalentClass"}
  PROVE  HierarchyOut'
<1>1. Equivalences \cup Edges \subseteq b'.out
      /\ \A u \in b'.out : u[2] \in {"subClassOf", "equivalentClass"} => u \in Equivalences \cup Edges
  BY DEF HierarchyOut
<1> QED BY <1>1, Fixed DEF HierarchyOut

\* The assertions are no words of the vocabulary but sameAs.
LEMMA EmitAssertionsKeeps ==
  ASSUME IInv, EmitAssertions
  PROVE  IInv'
<1> DEFINE roles == {t \in kernel.roles : t[2] \notin {"topObjectProperty", "bottomObjectProperty"}}
           pairs == UNION {g \X g : g \in kernel.same}
           same == {<<p[1], "sameAs", p[2]>> : p \in {q \in pairs : q[1] # q[2]}}
           ts == roles \cup same \cup kernel.data
<1>1. pc = "types" /\ pc' = "workarounds" /\ todo = {} /\ b' = Emit(b, ts) /\ UNCHANGED <<input, todo>>
  BY DEF EmitAssertions
<1>2. \A t \in ts : t[2] \notin {"type", "subClassOf", "equivalentClass"}
  <2>1. \A t \in same : t[2] = "sameAs"
    OBVIOUS
  <2>2. \A t \in roles \cup kernel.data : t[2] \notin Vocabulary
    BY InputKnown DEF IInv, AreRealized
  <2> HIDE DEF same, roles
  <2> QED BY <2>1, <2>2 DEF Vocabulary
<1> HIDE DEF ts
<1>3. Explaining(b, FALSE) /\ IsBuffer(b)
  BY <1>1 DEF IInv, ExplanationsRight, Explaining
<1>4. Explaining(b', FALSE) /\ b'.out = b.out \cup ts
  BY <1>1, <1>3, EmitExplains, EmitAdds
<1>5. TypesIn(b') = TypesIn(b)
  <2>1. TypesOf(ts) = {}
    BY <1>2 DEF TypesOf
  <2> QED BY <1>1, <1>3, <2>1, EmitTypes
<1>6. ExplanationsRight'
  BY <1>1, <1>4, ExplainingNext DEF ExplanationsRight
<1>7. HierarchyKept'
  <2>1. HierarchyOut'
    BY <1>1, <1>2, <1>4, HierarchyStays DEF IInv, HierarchyKept
  <2> QED BY <2>1 DEF HierarchyKept
<1>8. kernel' = kernel
  BY <1>1 DEF input
<1>9. TypesKept'
  BY <1>1, <1>5, <1>8 DEF IInv, TypesKept
<1>10. TypesAreGiven'
  BY <1>1, <1>5, Fixed DEF IInv, TypesAreGiven
<1>11. Input'
  BY <1>1, Fixed DEF IInv
<1> QED BY <1>1, <1>6, <1>7, <1>9, <1>10, <1>11
        DEF IInv, EmptyBefore, SameKept, LoopExact, PropertiesKept

\* What the rules that answer for the kernel conclude are types.
LEMMA ConclusionsAreTypes ==
  ASSUME NEW j \in OneOf(doc) \cup IntersectionTypes(doc) \cup SelfTypes(doc)
  PROVE  j.key[2] = "type"
<1>1. CASE j \in OneOf(doc)
  BY <1>1 DEF OneOf, Justify
<1>2. CASE j \in IntersectionTypes(doc)
  <2> DEFINE members(c) == WalkList(doc, LastObject(doc, c, "intersectionOf", AnyTerm))
             typed(x, c) == {m \in ToSet(members(c)) : <<x, "type", m>> \in Triples(doc)}
             who(c) == {y \in {t[1] : t \in Facts(doc, "type")} :
                          /\ Named(y) /\ members(c) # <<>>
                          /\ Cardinality(typed(y, c)) = Len(members(c))}
             axioms(x, c) == {<<x, "type", m>> : m \in ToSet(members(c))}
             found(c) == {Justify(x, "type", c, axioms(x, c)) : x \in who(c)}
             classes == {t[1] : t \in Facts(doc, "intersectionOf")}
  <2>1. IntersectionTypes(doc) = UNION {found(c) : c \in classes}
    BY DEF IntersectionTypes
  <2> HIDE DEF who, axioms, classes
  <2>2. PICK c \in classes : j \in found(c)
    BY <1>2, <2>1
  <2> QED BY <2>2 DEF Justify
<1>3. CASE j \in SelfTypes(doc)
  <2>1. PICK t : j \in HasSelfTypes(doc, t[1], t[3])
    BY <1>3 DEF SelfTypes, OverRestrictions
  <2> QED BY <2>1 DEF HasSelfTypes, Justify
<1> QED BY <1>1, <1>2, <1>3

\* The rules that answer for the kernel add types that they give, and explain them by text.
LEMMA EmitWorkaroundsKeeps ==
  ASSUME IInv, EmitWorkarounds
  PROVE  IInv'
<1> DEFINE all == OneOf(doc) \cup IntersectionTypes(doc) \cup SelfTypes(doc)
           text(j) == [key |-> j.key, id |-> <<"text", Parsed(j.axioms)>>, axioms |-> Parsed(j.axioms)]
           texts(js) == {text(j) : j \in {k \in js : Parsed(k.axioms) # {}}}
           done(js) == Record(Emit(b, Keys(js)), texts(js))
<1>1. /\ pc = "workarounds" /\ pc' = "post" /\ UNCHANGED <<input, todo>>
      /\ \E js : js \subseteq all /\ b' = Emit(done(js), MinCardTypes)
  <2> DEFINE earlier == Keys(DomainRange(doc))
             rivals == Keys(FillerTypes(doc))
             self == {j \in SelfTypes(doc) : j.key \notin earlier}
             sections == {j \in IntersectionTypes(doc) : j.key \notin earlier \cup Keys(SelfTypes(doc)) \cup rivals}
  <2>1. PICK lost : b' = Emit(done(OneOf(doc) \cup sections \cup (self \ lost)), MinCardTypes)
    BY DEF EmitWorkarounds
  <2>2. OneOf(doc) \cup sections \cup (self \ lost) \subseteq all
    OBVIOUS
  <2>3. pc = "workarounds" /\ pc' = "post" /\ UNCHANGED <<input, todo>>
    BY DEF EmitWorkarounds
  <2> HIDE DEF done, all, sections, self
  <2> QED BY <2>1, <2>2, <2>3
<1>2. PICK js : js \subseteq all /\ b' = Emit(done(js), MinCardTypes)
  BY <1>1
<1> DEFINE e == Emit(b, Keys(js))
           r == Record(e, texts(js))
<1>3. \A j \in js : j.key[2] = "type" /\ <<j.key[1], j.key[3]>> \in Given
  BY <1>2, ConclusionsAreTypes, GivenHas
<1>4. Explaining(b, FALSE) /\ IsBuffer(b)
  BY <1>1 DEF IInv, ExplanationsRight, Explaining
<1>5. Explaining(e, FALSE) /\ IsBuffer(e) /\ e.out = b.out \cup Keys(js)
  <2>1. Explaining(e, FALSE)
    BY <1>4, EmitExplains
  <2>2. e.out = b.out \cup Keys(js)
    BY <1>4, EmitAdds
  <2> QED BY <2>1, <2>2 DEF Explaining
<1>6. \A j \in texts(js) : JustRight(j, FALSE)
  <2>1. \A j : text(j).id[1] = "text" /\ text(j).key = j.key
    OBVIOUS
  <2> HIDE DEF text
  <2>2. \A j \in js : JustRight(text(j), FALSE)
    BY <1>3, <2>1 DEF JustRight, MappedRight
  <2> QED BY <2>2
<1>7. \A t \in Keys(js) : t[2] = "type" /\ <<t[1], t[3]>> \in Given
  BY <1>3 DEF Keys
<1>8. \A t \in MinCardTypes : t[2] = "type" /\ <<t[1], t[3]>> \in Given
  <2>1. \A t \in MinCardTypes : t[2] = "type"
    BY DEF MinCardTypes
  <2> QED BY <2>1, GivenHas
<1> HIDE DEF e, texts, all
<1>9. Explaining(r, FALSE) /\ IsBuffer(r) /\ r.out = e.out
  <2>1. Explaining(r, FALSE)
    BY <1>5, <1>6, RecordExplains
  <2>2. r.out = e.out
    BY <1>5, RecordAdds
  <2> QED BY <2>1, <2>2 DEF Explaining
<1>10. b' = Emit(r, MinCardTypes)
  BY <1>2 DEF e
<1> HIDE DEF r
<1> DEFINE ts == Keys(js) \cup MinCardTypes
<1>11. Explaining(b', FALSE) /\ b'.out = b.out \cup ts
  <2>1. Explaining(b', FALSE)
    BY <1>9, <1>10, EmitExplains
  <2>2. b'.out = r.out \cup MinCardTypes
    BY <1>9, <1>10, EmitAdds
  <2> QED BY <1>5, <1>9, <2>1, <2>2
<1>12. \A t \in ts : t[2] = "type" /\ <<t[1], t[3]>> \in Given
  BY <1>7, <1>8
<1> HIDE DEF ts
<1>13. TypesIn(b) \subseteq TypesIn(b') /\ TypesIn(b') \subseteq TypesIn(b) \cup Given
  BY <1>11, <1>12 DEF TypesIn
<1>14. ExplanationsRight'
  BY <1>1, <1>11, ExplainingNext DEF ExplanationsRight
<1>15. HierarchyKept'
  <2>1. HierarchyOut'
    BY <1>1, <1>11, <1>12, HierarchyStays DEF IInv, HierarchyKept
  <2> QED BY <2>1 DEF HierarchyKept
<1>16. kernel' = kernel
  BY <1>1 DEF input
<1>17. TypesKept'
  BY <1>1, <1>13, <1>16 DEF IInv, TypesKept
<1>18. TypesAreGiven'
  <2>1. TypesIn(b') \subseteq Given
    BY <1>1, <1>13 DEF IInv, TypesAreGiven
  <2> QED BY <1>1, <2>1, Fixed DEF TypesAreGiven
<1>19. Input'
  BY <1>1, Fixed DEF IInv
<1> QED BY <1>1, <1>14, <1>15, <1>17, <1>18, <1>19
        DEF IInv, EmptyBefore, SameKept, LoopExact, PropertiesKept

\* The members of a disjoint union are its subclasses, what a declaration merges is the same.
LEMMA PostPredicates ==
  /\ \A t \in Keys(DisjointUnion(doc)) : t[2] = "subClassOf"
  /\ \A t \in Keys(FpIfpSameAs(doc)) : t[2] = "sameAs"
<1>1. \A t \in Keys(DisjointUnion(doc)) : t[2] = "subClassOf"
  BY DEF Keys, DisjointUnion, Justify
<1>2. \A t \in Keys(FpIfpSameAs(doc)) : t[2] = "sameAs"
  BY DEF Keys, FpIfpSameAs, Justify
<1> QED BY <1>1, <1>2

\* The loop starts from what is asserted and what has been emitted.
LEMMA EmitPostKeeps ==
  ASSUME IInv, EmitPost
  PROVE  IInv'
<1> DEFINE same == IF kernel.forRealization THEN Keys(FpIfpSameAs(doc)) ELSE {}
           ts == Keys(DisjointUnion(doc)) \cup same
<1>1. /\ pc = "post" /\ UNCHANGED <<input, todo>>
      /\ b' = Emit(b, ts)
      /\ allTypes' = IF SvfIndex(doc) = {} THEN allTypes ELSE Start(Emit(b, ts))
      /\ pc' = IF SvfIndex(doc) = {} THEN "done" ELSE "loop"
  BY DEF EmitPost
<1>2. doc' = doc /\ kernel' = kernel
  BY <1>1 DEF input
<1>3. (\A t \in ts : t[2] # "type") /\ same \subseteq ts
  BY PostPredicates
<1>4. Explaining(b, FALSE) /\ IsBuffer(b)
  BY <1>1 DEF IInv, ExplanationsRight, Explaining
<1>5. kernel.forRealization => Keys(FpIfpSameAs(doc)) \subseteq ts
  OBVIOUS
<1> HIDE DEF ts
<1>6. Explaining(b', FALSE) /\ b'.out = b.out \cup ts
  BY <1>1, <1>4, EmitExplains, EmitAdds
<1>7. TypesIn(b') = TypesIn(b)
  <2>1. TypesOf(ts) = {}
    BY <1>3 DEF TypesOf
  <2> QED BY <1>1, <1>4, <2>1, EmitTypes
<1>8. pc' \in {"done", "loop"} /\ (pc' = "loop" => SvfIndex(doc) # {}) /\ (pc' = "done" => SvfIndex(doc) = {})
  BY <1>1
<1>9. ExplanationsRight'
  BY <1>1, <1>6, <1>8, ExplainingNext DEF ExplanationsRight
<1>10. TypesKept'
  BY <1>1, <1>2, <1>7, <1>8 DEF IInv, TypesKept
<1>11. SameKept'
  BY <1>2, <1>5, <1>6 DEF SameKept
<1>12. LoopExact'
  <2>1. SvfIndex(doc)' = SvfIndex(doc) /\ ABoxTypes(doc)' = ABoxTypes(doc)
    BY <1>2
  <2>2. CASE pc' = "done"
    BY <1>8, <2>1, <2>2 DEF LoopExact
  <2>3. CASE pc' = "loop"
    <3>1. allTypes' = ABoxTypes(doc) \cup TypesIn(b')
      BY <1>1, <1>8, <2>3 DEF Start
    <3>2. allTypes' \subseteq Given
      BY <1>1, <1>7, <3>1, GivenHas DEF IInv, TypesAreGiven
    <3>3. \A C : Given \cap allTypes' \subseteq C => allTypes' \subseteq C
      BY <3>2
    <3>4. Given' = Given
      BY <1>1, Fixed
    <3> QED BY <1>8, <2>1, <2>3, <3>1, <3>3, <3>4 DEF LoopExact
  <2> QED BY <1>8, <2>2, <2>3
<1>13. Input'
  BY <1>1, Fixed DEF IInv
<1> QED BY <1>8, <1>9, <1>10, <1>11, <1>12, <1>13
        DEF IInv, EmptyBefore, HierarchyKept, TypesAreGiven, PropertiesKept

\* A round of the loop adds to the types and to the buffer what the rule gives.
LEMMA PassKeeps ==
  ASSUME IInv, Pass
  PROVE  IInv'
<1> DEFINE fresh == Fired(allTypes) \ allTypes
           ts == {<<t[1], "type", t[2]>> : t \in fresh}
<1>1. /\ pc = "loop" /\ UNCHANGED <<input, todo>>
      /\ allTypes' = allTypes \cup Fired(allTypes) /\ b' = Emit(b, ts)
      /\ pc' = IF Changed(allTypes) THEN "loop" ELSE "done"
  BY DEF Pass
<1>2. doc' = doc /\ kernel' = kernel
  BY <1>1 DEF input
<1>3. Explaining(b, FALSE) /\ IsBuffer(b)
  BY <1>1 DEF IInv, ExplanationsRight, Explaining
<1>4. Explaining(b', FALSE) /\ b'.out = b.out \cup ts
  <2> HIDE DEF ts
  <2> QED BY <1>1, <1>3, EmitExplains, EmitAdds
<1>5. TypesIn(b') = TypesIn(b) \cup fresh
  <2>1. \A t \in Fired(allTypes) : t = <<t[1], t[2]>>
    BY DEF Fired
  <2>2. TypesOf(ts) = fresh
    <3>1. ASSUME NEW t \in fresh PROVE <<t[1], t[2]>> \in TypesOf(ts)
      <4> DEFINE u == <<t[1], "type", t[2]>>
      <4>1. u \in ts /\ u[1] = t[1] /\ u[2] = "type" /\ u[3] = t[2]
        OBVIOUS
      <4> HIDE DEF u, ts
      <4>2. \E v \in {z \in ts : z[2] = "type"} : <<t[1], t[2]>> = <<v[1], v[3]>>
        BY <4>1
      <4> QED BY <4>2 DEF TypesOf
    <3>2. \A x \in TypesOf(ts) : \E t \in fresh : x = <<t[1], t[2]>>
      BY DEF TypesOf
    <3> QED BY <2>1, <3>1, <3>2
  <2> HIDE DEF ts, fresh
  <2> QED BY <1>1, <1>3, <2>2, EmitTypes
<1>6. pc' \in {"loop", "done"}
  BY <1>1
<1>7. ExplanationsRight'
  <2> HIDE DEF ts
  <2> QED BY <1>1, <1>4, <1>6, ExplainingNext DEF ExplanationsRight
<1>8. TypesKept'
  BY <1>1, <1>2, <1>5, <1>6 DEF IInv, TypesKept
<1>9. SameKept'
  BY <1>1, <1>2, <1>4 DEF IInv, SameKept
<1>10. /\ SvfIndex(doc) # {} /\ allTypes = ABoxTypes(doc) \cup TypesIn(b)
       /\ \A C : Given \cap allTypes \subseteq C /\ Fired(C) \subseteq C => allTypes \subseteq C
  BY <1>1 DEF IInv, LoopExact
<1>11. LoopExact'
  <2>1. SvfIndex(doc)' = SvfIndex(doc) /\ ABoxTypes(doc)' = ABoxTypes(doc)
    BY <1>2
  <2>2. allTypes' = ABoxTypes(doc) \cup TypesIn(b')
    BY <1>1, <1>5, <1>10
  <2>3. ASSUME NEW C, Given \cap allTypes' \subseteq C, Fired(C) \subseteq C
        PROVE  allTypes' \subseteq C
    <3>1. allTypes \subseteq C
      BY <1>1, <1>10, <2>3
    <3>2. Fired(allTypes) \subseteq C
      BY <2>3, <3>1, FiredGrows
    <3> QED BY <1>1, <3>1, <3>2
  <2>4. pc' = "done" => Fired(allTypes') \subseteq allTypes'
    <3>1. pc' = "done" => Fired(allTypes) \subseteq allTypes
      BY <1>1 DEF Changed
    <3>2. pc' = "done" => allTypes' = allTypes
      BY <1>1, <3>1
    <3> QED BY <3>1, <3>2
  <2>5. Given' = Given /\ \A T : Fired(T)' = Fired(T)
    BY <1>1, Fixed
  <2>6. \A C : Given' \cap allTypes' \subseteq C /\ Fired(C)' \subseteq C => allTypes' \subseteq C
    BY <2>3, <2>5
  <2>7. pc' = "done" => Fired(allTypes)' \subseteq allTypes'
    BY <1>2, <2>4 DEF Fired
  <2> QED BY <1>10, <2>1, <2>2, <2>6, <2>7 DEF LoopExact
<1>12. Input'
  BY <1>1, Fixed DEF IInv
<1> QED BY <1>6, <1>7, <1>8, <1>9, <1>11, <1>12
        DEF IInv, EmptyBefore, HierarchyKept, TypesAreGiven, PropertiesKept

\* The property hierarchy is written into an empty buffer.
LEMMA BuildPropertiesKeeps ==
  ASSUME IInv, BuildProperties
  PROVE  IInv'
<1> DEFINE equiv == EquivPropPairs(doc)
           both == {<<e[1], "subPropertyOf", e[2]>> : e \in equiv} \cup {<<e[2], "subPropertyOf", e[1]>> : e \in equiv}
           edges == [t \in RoleEdges |-> RoleChain(t[1], t[3])]
           mid == EmitWithTags(b, edges, TRUE)
<1>1. pc = "properties" /\ pc' = "propertiesDone" /\ b' = Emit(mid, both) /\ UNCHANGED <<input, todo>>
  BY DEF BuildProperties
<1>2. b = Empty
  BY <1>1 DEF IInv, EmptyBefore
<1>3. Explaining(mid, TRUE) /\ mid.out = b.out \cup RoleEdges
  <2>1. DOMAIN edges = RoleEdges
    OBVIOUS
  <2>2. \A t \in RoleEdges : MappedRight(t, <<"tags", edges[t]>>, TRUE)
    BY Predicates DEF MappedRight
  <2>3. Explaining(b, TRUE)
    BY <1>2, EmptyExplains
  <2> HIDE DEF edges
  <2> QED BY <2>1, <2>2, <2>3, WithTagsExplains
<1> HIDE DEF mid, both
<1>4. Explaining(b', TRUE) /\ b'.out = mid.out \cup both
  BY <1>1, <1>3, EmitExplains, EmitAdds DEF Explaining
<1>5. ExplanationsRight'
  BY <1>1, <1>4, ExplainingNext DEF ExplanationsRight
<1>6. kernel' = kernel
  BY <1>1 DEF input
<1>7. TypesKept'
  BY <1>1, <1>6 DEF IInv, TypesKept
<1>8. PropertiesKept'
  BY <1>1, <1>3, <1>4, Fixed DEF PropertiesKept
<1>9. Input'
  BY <1>1, Fixed DEF IInv
<1> QED BY <1>1, <1>5, <1>7, <1>8, <1>9
        DEF IInv, EmptyBefore, HierarchyKept, TypesAreGiven, SameKept, LoopExact

\* The invariant is kept when nothing changes.
LEMMA StutterKeeps ==
  ASSUME IInv, UNCHANGED vars
  PROVE  IInv'
<1>1. UNCHANGED input /\ pc' = pc /\ b' = b /\ todo' = todo /\ allTypes' = allTypes
  BY DEF vars, input
<1>2. doc' = doc /\ kernel' = kernel
  BY <1>1 DEF input
<1>3. ExplanationsRight'
  BY <1>1, ExplainingNext DEF IInv, ExplanationsRight
<1>4. EmptyBefore' /\ PropertiesKept' /\ HierarchyKept'
  BY <1>1, Fixed DEF IInv, EmptyBefore, PropertiesKept, HierarchyKept, HierarchyOut
<1>5. TypesKept' /\ SameKept'
  BY <1>1, <1>2 DEF IInv, TypesKept, SameKept
<1>6. TypesAreGiven'
  BY <1>1, Fixed DEF IInv, TypesAreGiven, TypesIn
<1>7. LoopExact'
  BY <1>1, <1>2, Fixed DEF IInv, LoopExact
<1>8. Input'
  BY <1>1, Fixed DEF IInv
<1> QED BY <1>3, <1>4, <1>5, <1>6, <1>7, <1>8 DEF IInv

\* The invariant is inductive.
LEMMA NextKeeps ==
  ASSUME IInv, [Next]_vars
  PROVE  IInv'
BY LoadKeeps, BuildTBoxKeeps, EmitTypeKeeps, EmitAssertionsKeeps, EmitWorkaroundsKeeps, EmitPostKeeps, PassKeeps,
   BuildPropertiesKeeps, StutterKeeps DEF Next

\* The invariant holds of every run of the builder.
LEMMA Always == Spec => []IInv
<1>1. Init => IInv
  BY InitIInv
<1>2. IInv /\ [Next]_vars => IInv'
  BY NextKeeps
<1> QED BY <1>1, <1>2, PTL DEF Spec

-----------------------------------------------------------------------------
(* What the buffers promise *)

\* TriviallyInconsistent, the verdict that buildOntology gives without the kernel, is given
\* exactly when the document says a contradiction outright, in whatever order.
THEOREM VerdictIsExact == Spec => []VerdictExact
<1>1. IInv => VerdictExact
  BY InputKnown, VerdictOfScan DEF IInv
<1> QED BY <1>1, Always, PTL

\* What buildOntology keeps from the kernel to make it stop, buildInferredTripleBuffer makes
\* up for with sameAs.
THEOREM SkippedIsReplaced == Spec => []SkipsAreReplaced
<1>1. IInv => SkipsAreReplaced
  <2> SUFFICES ASSUME IInv, pc = "done", kernel.forRealization,
                      NEW d \in Triples(doc) \ KernelTriples(doc, TRUE),
                      NEW t \in Facts(doc, d[1]), NEW u \in Facts(doc, d[1]),
                      End(d[3], t) = End(d[3], u), Other(d[3], t) # Other(d[3], u),
                      {Other(d[3], t), Other(d[3], u), End(d[3], t)} \cap (Blank \cup Literal) = {}
               PROVE  <<Other(d[3], t), "sameAs", Other(d[3], u)>> \in b.out
    BY DEF SkipsAreReplaced
  <2>1. <<Other(d[3], t), "sameAs", Other(d[3], u)>> \in Keys(FpIfpSameAs(doc))
    BY InputKnown, SkippedArePaired DEF IInv
  <2>2. Keys(FpIfpSameAs(doc)) \subseteq b.out
    BY DEF IInv, SameKept
  <2> QED BY <2>1, <2>2
<1> QED BY <1>1, Always, PTL

\* The buffer of buildInferredTripleBuffer, closed, says what isSubClassOf, isInstanceOf and
\* getUnsatisfiableClasses say, and that of buildPropertyTripleBuffer what the taxonomy of
\* properties says.
THEOREM BufferAgreesWithLookups == Spec => []BufferMatchesLookups
<1> DEFINE Classes ==
             pc = "post" =>
               LET names == Concepts \ {"Nothing"}
                   said == Closure(Emitted({"subClassOf", "equivalentClass"}), names)
               IN /\ \A c, d \in names : IsSubClassOf(c, d) <=> <<c, d>> \in said
                  /\ \A c \in UnsatisfiableClasses : ~IsSatisfiableClass(c) /\ \A d \in names : <<c, d>> \in said
           Types ==
             pc = "done" => \A t \in kernel.types :
               t[2] \notin {"Thing", "Nothing"} /\ IsInstanceOf(t[1], t[2]) => t \in TypesIn(b)
           Properties ==
             pc = "propertiesDone" =>
               LET inner == kernel.roleNodes \ {kernel.roleTop, kernel.roleBottom, {}}
                   above == {z \in inner \X inner : z[2] \in kernel.roleParents[z[1]]}
                   names == UNION inner
                   said == Closure(Emitted({"subPropertyOf"}), names)
               IN \A n, m \in inner : <<n, m>> \in Closure(above, inner) => <<Rep(n), Rep(m)>> \in said
<1>1. IInv => Classes
  BY InputKnown, HierarchySaid DEF IInv, HierarchyKept
<1>2. IInv => Types
  BY DEF IInv, TypesKept, IsInstanceOf
<1>3. IInv => Properties
  BY InputKnown, RolesSaid DEF IInv, PropertiesKept
<1>4. Classes /\ Types /\ Properties => BufferMatchesLookups
  BY DEF BufferMatchesLookups
<1>5. IInv => BufferMatchesLookups
  BY <1>1, <1>2, <1>3, <1>4
<1> QED BY <1>5, Always, PTL

\* The loop over someValuesFrom in buildInferredTripleBuffer ends, if it does, with the least
\* closed set of types, all of which are in the buffer or in the document.
THEOREM LoopIsExact == Spec => []FixpointExact
<1>1. IInv => FixpointExact
  <2> SUFFICES ASSUME IInv, pc = "done", SvfIndex(doc) # {} PROVE FixpointExact
    BY DEF FixpointExact
  <2>1. /\ allTypes = ABoxTypes(doc) \cup TypesIn(b) /\ Fired(allTypes) \subseteq allTypes
        /\ \A C : Given \cap allTypes \subseteq C /\ Fired(C) \subseteq C => allTypes \subseteq C
    BY DEF IInv, LoopExact
  <2>2. \A s \in SUBSET (allTypes \ Given) : Fired(allTypes \ s) \subseteq allTypes \ s => s = {}
    <3> SUFFICES ASSUME NEW s \in SUBSET (allTypes \ Given), Fired(allTypes \ s) \subseteq allTypes \ s
                 PROVE  s = {}
      OBVIOUS
    <3>1. allTypes \subseteq allTypes \ s
      BY <2>1
    <3> QED BY <3>1
  <2> QED BY <2>1, <2>2 DEF FixpointExact, Given
<1> QED BY <1>1, Always, PTL

\* An entry of the explanation tables says of a subsumption what getJustificationByType says:
\* two triples share an entry only if the same tags explain both.
THEOREM ExplanationsAreShared == Spec => []ExplainedByTags
<1>1. IInv => ExplainedByTags
  <2> SUFFICES ASSUME IInv, NEW m \in b.maps
               PROVE  LET t == m[1]
                      IN CASE t[2] = "subClassOf" -> Explained(b, m) = JustificationByType(t[1], t[3], "Classification")
                           [] t[2] = "equivalentClass" ->
                                Explained(b, m) = JustificationByType(t[1], t[3], "Classification")
                                                    \cup JustificationByType(t[3], t[1], "Classification")
                           [] t[2] = "subPropertyOf" ->
                                Explained(b, m) = JustificationByType(t[1], t[3], "PropertySubsumption")
                           [] OTHER -> m[2] \in DOMAIN b.justs
    BY DEF ExplainedByTags
  <2>1. PICK roles \in BOOLEAN : Explaining(b, roles)
    BY DEF IInv, ExplanationsRight
  <2>2. m[2] \in DOMAIN b.justs /\ MappedRight(m[1], m[2], roles)
    BY <2>1 DEF Explaining, MapsRight
  <2>3. m[2][1] = "tags" => Explained(b, m) = AxiomIndices(m[2][2], roles)
    <3>1. b.justs[m[2]] \subseteq b.axioms /\ (m[2][1] = "tags" => b.justs[m[2]] = AxiomIndices(m[2][2], roles))
      BY <2>1, <2>2 DEF Explaining, TagsRight
    <3> QED BY <3>1 DEF Explained
  <2> DEFINE x == m[1][1]
             y == m[1][3]
  <2>4. CASE m[1][2] = "subClassOf"
    BY <2>2, <2>3, <2>4 DEF MappedRight, JustificationByType, Chain
  <2>5. CASE m[1][2] = "equivalentClass"
    <3>1. m[2] = <<"tags", Chain(x, y) \cup Chain(y, x)>> /\ roles = FALSE
      BY <2>2, <2>5 DEF MappedRight
    <3>2. Explained(b, m) = AxiomIndices(Chain(x, y) \cup Chain(y, x), FALSE)
      <4> DEFINE both == Chain(x, y) \cup Chain(y, x)
      <4> HIDE DEF both
      <4>1. m[2] = <<"tags", both>>
        BY <3>1 DEF both
      <4>2. Explained(b, m) = AxiomIndices(both, roles)
        BY <2>3, <4>1
      <4> QED BY <3>1, <4>2 DEF both
    <3>3. \A A, B : AxiomIndices(A \cup B, FALSE) = AxiomIndices(A, FALSE) \cup AxiomIndices(B, FALSE)
      BY DEF AxiomIndices
    <3>4. \A v, w : JustificationByType(v, w, "Classification") = AxiomIndices(Chain(v, w), FALSE)
      BY DEF JustificationByType, Chain
    <3> HIDE DEF x, y
    <3>5. AxiomIndices(Chain(x, y) \cup Chain(y, x), FALSE) = AxiomIndices(Chain(x, y), FALSE) \cup AxiomIndices(Chain(y, x), FALSE)
      BY <3>3, Zenon
    <3>6. JustificationByType(x, y, "Classification") = AxiomIndices(Chain(x, y), FALSE)
      BY <3>4, Zenon
    <3>7. JustificationByType(y, x, "Classification") = AxiomIndices(Chain(y, x), FALSE)
      BY <3>4, Zenon
    <3>8. Explained(b, m) = JustificationByType(x, y, "Classification") \cup JustificationByType(y, x, "Classification")
      BY <3>2, <3>5, <3>6, <3>7, Zenon
    <3> QED BY <2>5, <3>8 DEF x, y
  <2>6. CASE m[1][2] = "subPropertyOf"
    <3>1. m[2] = <<"tags", RoleChain(x, y)>> /\ roles = TRUE
      BY <2>2, <2>6 DEF MappedRight
    <3>2. Explained(b, m) = AxiomIndices(RoleChain(x, y), TRUE)
      BY <2>3, <3>1
    <3>3. JustificationByType(x, y, "PropertySubsumption") = AxiomIndices(RoleChain(x, y), TRUE)
      BY DEF JustificationByType, RoleChain
    <3> QED BY <2>6, <3>2, <3>3
  <2> QED BY <2>2, <2>4, <2>5, <2>6
<1> QED BY <1>1, Always, PTL

=============================================================================
