------------------------------ MODULE LoaderRules ------------------------------
(***************************************************************************)
(* What KoncludeReasoner::buildOntology reads out of a triple buffer       *)
(* besides handing it to the kernel: declarations it keeps from the kernel,*)
(* contradictions it sees itself, and the consequences the kernel misses,  *)
(* each with the justification recorded for it.                            *)
(*                                                                         *)
(* A document is the buffer: a sequence of triples <<s, p, o>>, duplicates *)
(* included (one triple in two graphs).  A term stands for its entry in    *)
(* the string table, vocabulary for its local name.  Hash maps that keep   *)
(* the last value written are LastObject; maps iterated in hash order are  *)
(* sets.  Buffers whose ids point outside the string table are left out.   *)
(***************************************************************************)
EXTENDS Integers, Sequences, FiniteSets, SequencesExt

CONSTANTS
  Blank,     \* the blank nodes
  Literal,   \* the literals
  Value,     \* Value[l]: what std::stoi makes of literal l, 0 when it throws
  NoTerm,    \* UINT32_MAX: no such term
  MaxWalk,   \* walkList gives up after this many nodes (100 in the code)
  MaskBits   \* fillers a bit mask of minCardinality covers (16 in the code)

ASSUME TermAssumption ==
  /\ IsFiniteSet(Blank) /\ Blank \cap Literal = {}
  /\ Value \in [Literal -> Int] /\ NoTerm \notin Blank \cup Literal
  /\ MaxWalk \in Nat /\ MaskBits \in Nat

\* The type tag of a term id: named node, blank node or literal.
Named(t) == t \notin Blank \cup Literal
IsLiteral(t) == t \in Literal

Triples(doc) == {doc[i] : i \in DOMAIN doc}
Facts(doc, p) == {t \in Triples(doc) : t[2] = p}

\* The object of the last triple <<s, p, o>> of doc with an acceptable o.
LastObject(doc, s, p, Accept(_)) ==
  LET i == SelectLastInSeq(doc, LAMBDA t : t[1] = s /\ t[2] = p /\ Accept(t[3]))
  IN IF i = 0 THEN NoTerm ELSE doc[i][3]

AnyTerm(t) == TRUE

\* An entry of mWorkaroundJustifications.
Justify(s, p, o, axioms) == [key |-> <<s, p, o>>, axioms |-> axioms]
Keys(js) == {j.key : j \in js}

-----------------------------------------------------------------------------
(* Functional and inverse functional properties with several fillers *)

Declarations == {"FunctionalProperty", "InverseFunctionalProperty"}
End(decl, t)   == IF decl = "FunctionalProperty" THEN t[1] ELSE t[3]
Other(decl, t) == IF decl = "FunctionalProperty" THEN t[3] ELSE t[1]

\* Which fillers of one group are paired.
ApartAdjacent(i, j) == j = i + 1
Apart(i, j) == i < j

\* Two assertions of a declared property that share the end the declaration is about.
Merges(doc) ==
  {m \in [decl : Declarations, i : DOMAIN doc, j : DOMAIN doc] :
     LET t == doc[m.i]
         u == doc[m.j]
     IN /\ Apart(m.i, m.j) /\ t[2] = u[2] /\ End(m.decl, t) = End(m.decl, u)
        /\ \A x \in {t[1], t[3], u[1], u[3]} : Named(x)
        /\ <<t[2], "type", m.decl>> \in Triples(doc)}

FpIfpSameAs(doc) ==
  UNION {LET a == Other(m.decl, doc[m.i])
             b == Other(m.decl, doc[m.j])
             axioms == {<<doc[m.i][2], "type", m.decl>>, doc[m.i], doc[m.j]}
         IN {Justify(a, "sameAs", b, axioms), Justify(b, "sameAs", a, axioms)} : m \in Merges(doc)}

\* Declarations the kernel never sees: it would not come to an end on them.
Skipped(doc) == {<<doc[m.i][2], "type", m.decl>> : m \in Merges(doc)}

\* What is inserted into the model: no triple twice, no skipped declaration.
KernelTriples(doc, forRealization) ==
  IF forRealization THEN Triples(doc) \ Skipped(doc) ELSE Triples(doc)

-----------------------------------------------------------------------------
(* Types by domain, range and restrictions *)

DomainRange(doc) ==
  LET roles == {t \in Triples(doc) : Named(t[1]) /\ t[2] # "type"}
      decls(t, p) == {d \in Facts(doc, p) : d[1] = t[2] /\ Named(d[3])}
  IN (UNION {{Justify(t[1], "type", d[3], {d, t}) : d \in decls(t, "domain")} : t \in roles})
     \cup UNION {{Justify(t[3], "type", d[3], {d, t}) : d \in decls(t, "range")} :
                   t \in {u \in roles : Named(u[3])}}

\* inverseMap: the last inverseOf that names p, read from either side.
InverseOf(doc, p) ==
  LET i == SelectLastInSeq(doc, LAMBDA t : /\ t[2] = "inverseOf" /\ p \in {t[1], t[3]}
                                           /\ Named(t[1]) /\ Named(t[3]))
  IN IF i = 0 THEN NoTerm ELSE IF doc[i][3] = p THEN doc[i][1] ELSE doc[i][3]

OnProperty(doc, r)     == LastObject(doc, r, "onProperty", Named)
HasValue(doc, r)       == LastObject(doc, r, "hasValue", AnyTerm)
AllValuesFrom(doc, r)  == LastObject(doc, r, "allValuesFrom", Named)
SomeValuesFrom(doc, r) == LastObject(doc, r, "someValuesFrom", Named)
HasSelf(doc, r)        == LastObject(doc, r, "hasSelf", AnyTerm) # NoTerm

\* classToRestr: what a class is said to be equivalent to or contained in, as far as
\* that is a restriction on a property.
ClassToRestr(doc) ==
  {t \in Facts(doc, "equivalentClass") \cup Facts(doc, "subClassOf") : OnProperty(doc, t[3]) # NoTerm}

HasValueTypes(doc, c, r) ==
  LET p == OnProperty(doc, r)
      v == HasValue(doc, r)
      inv == InverseOf(doc, p)
  IN IF v = NoTerm THEN {} ELSE
     {Justify(t[1], "type", c, {<<p, "hasValue", v>>, t}) :
        t \in {u \in Facts(doc, p) : Named(u[1]) /\ u[3] = v}}
     \cup {Justify(t[3], "type", c, {<<p, "inverseOf", inv>>, t}) :
             t \in {u \in Facts(doc, inv) : u[1] = v /\ Named(u[3])}}

HasSelfTypes(doc, c, r) ==
  {Justify(t[1], "type", c, {t}) :
     t \in {u \in Facts(doc, OnProperty(doc, r)) : HasSelf(doc, r) /\ Named(u[1]) /\ u[1] = u[3]}}

Instance(doc, x, c) == Named(x) /\ <<x, "type", c>> \in Triples(doc)

AllValuesTypes(doc, c, r) ==
  LET f == AllValuesFrom(doc, r)
  IN {Justify(t[3], "type", f, {<<t[1], "type", c>>, t}) :
        t \in {u \in Facts(doc, OnProperty(doc, r)) :
                 f # NoTerm /\ Named(u[3]) /\ Instance(doc, u[1], c)}}

SomeValuesTypes(doc, c, r) ==
  LET p == OnProperty(doc, r)
      f == SomeValuesFrom(doc, r)
      inv == InverseOf(doc, p)
      edges(q) == {t \in Facts(doc, q) : f # NoTerm /\ Named(t[1]) /\ Named(t[3])}
  IN {Justify(t[1], "type", c, {t, <<t[3], "type", f>>}) : t \in {u \in edges(p) : Instance(doc, u[3], f)}}
     \cup {Justify(t[3], "type", c, {<<p, "inverseOf", inv>>, t, <<t[1], "type", f>>}) :
             t \in {u \in edges(inv) : Instance(doc, u[1], f)}}

OverRestrictions(doc, Rule(_, _, _)) == UNION {Rule(doc, t[1], t[3]) : t \in ClassToRestr(doc)}

SelfTypes(doc) == OverRestrictions(doc, HasSelfTypes)
FillerTypes(doc) ==
  OverRestrictions(doc, HasValueTypes) \cup OverRestrictions(doc, AllValuesTypes)
    \cup OverRestrictions(doc, SomeValuesTypes)

\* walkList: follows a list without noticing that it comes round.
WalkList(doc, head) ==
  LET end(x) == x \in {"nil", NoTerm} \/ ~\E t \in Triples(doc) : t[1] = x
      walk[k \in 0..MaxWalk] ==    \* the members met in k steps, and where that leads
        IF k = 0 THEN [members |-> <<>>, at |-> head]
        ELSE LET w == walk[k - 1]
                 m == LastObject(doc, w.at, "first", AnyTerm)
             IN IF end(w.at) THEN w
                ELSE [members |-> IF m = NoTerm THEN w.members ELSE Append(w.members, m),
                      at |-> LastObject(doc, w.at, "rest", AnyTerm)]
  IN walk[MaxWalk].members

\* Who is asserted to be of every member, counted by the length of the list.
IntersectionTypes(doc) ==
  LET members(c) == WalkList(doc, LastObject(doc, c, "intersectionOf", AnyTerm))
      typed(x, c) == {m \in ToSet(members(c)) : <<x, "type", m>> \in Triples(doc)}
  IN UNION {{Justify(x, "type", c, {<<x, "type", m>> : m \in ToSet(members(c))}) :
               x \in {y \in {t[1] : t \in Facts(doc, "type")} :
                        /\ Named(y) /\ members(c) # <<>>
                        /\ Cardinality(typed(y, c)) = Len(members(c))}} :
             c \in {t[1] : t \in Facts(doc, "intersectionOf")}}

-----------------------------------------------------------------------------
(* Contradictions seen without the kernel *)

Clashes(compl, types) ==
  \E c \in compl, x \in {t[1] : t \in types} : <<x, c[1]>> \in types /\ <<x, c[2]>> \in types

\* One round of the loop over the buffer.
ScanStep(s, t) ==
  LET both == Named(t[1]) /\ Named(t[3])
  IN [clash  |-> \/ s.clash
                 \/ t[2] \in {"differentFrom", "complementOf"} /\ t[1] = t[3] /\ Named(t[1]),
      compl  |-> IF t[2] = "complementOf" /\ both /\ t[1] # t[3]
                 THEN s.compl \cup {<<t[1], t[3]>>} ELSE s.compl,
      types  |-> IF t[2] = "type" /\ both THEN s.types \cup {<<t[1], t[3]>>} ELSE s.types,
      differ |-> IF t[2] = "differentFrom" /\ both /\ t[1] # t[3]
                 THEN s.differ \cup {<<t[1], t[3]>>, <<t[3], t[1]>>} ELSE s.differ]

\* What has been collected after each round, and in the end.
Rounds(doc) ==
  LET scan[i \in 0..Len(doc)] ==
        IF i = 0 THEN [clash |-> FALSE, compl |-> {}, types |-> {}, differ |-> {}]
        ELSE ScanStep(scan[i - 1], doc[i])
  IN scan
Scan(doc) == Rounds(doc)[Len(doc)]

TriviallyInconsistentEarly(doc) ==
  \/ Scan(doc).clash
  \/ \E i \in DOMAIN doc : LET s == Rounds(doc)[i]
                           IN doc[i][2] = "complementOf" /\ Clashes(s.compl, s.types)
\* mTriviallyInconsistent
TriviallyInconsistent(doc) ==
  LET s == Scan(doc) IN s.clash \/ Clashes(s.compl, s.types)

\* mEquivPropPairs
EquivPropPairs(doc) == {<<t[1], t[3]>> : t \in {u \in Facts(doc, "equivalentProperty") : Named(u[1]) /\ Named(u[3])}}

-----------------------------------------------------------------------------
(* What the result builder needs to know *)

\* The blank nodes that are typed owl:Restriction and name their property.
Restrictions(doc) ==
  {r \in Blank : <<r, "type", "Restriction">> \in Triples(doc) /\ OnProperty(doc, r) # NoTerm}

\* <<class, restriction>>, from "C equivalentClass _:r", "C subClassOf _:r" and
\* "_:r equivalentClass C".
Named2Restr(doc) ==
  {x \in {<<t[1], t[3]>> : t \in Facts(doc, "equivalentClass") \cup Facts(doc, "subClassOf")}
         \cup {<<t[3], t[1]>> : t \in Facts(doc, "equivalentClass")} :
     Named(x[1]) /\ x[2] \in Restrictions(doc)}

\* mSvfIndex
SvfIndex(doc) ==
  {[class |-> x[1], property |-> OnProperty(doc, x[2]), filler |-> SomeValuesFrom(doc, x[2])] :
     x \in {y \in Named2Restr(doc) : SomeValuesFrom(doc, y[2]) # NoTerm}}

\* mMinCardRestrictions: minCardinality is looked at before minQualifiedCardinality.
MinCardOf(doc, r) ==
  LET lit(p) == LastObject(doc, r, p, IsLiteral)
      l == IF lit("minCardinality") # NoTerm THEN lit("minCardinality") ELSE lit("minQualifiedCardinality")
  IN IF l = NoTerm THEN 0 ELSE Value[l]

MinCardRestrictions(doc) ==
  {[class |-> x[1], property |-> OnProperty(doc, x[2]), minCard |-> MinCardOf(doc, x[2])] :
     x \in {y \in Named2Restr(doc) : MinCardOf(doc, y[2]) > 0}}

\* mSvfRoleAssertions, mMinCardRoleAssertions: the fillers in the order of the buffer.
Fillers(doc, x, p) ==
  LET ts == SelectSeq(doc, LAMBDA t : t[1] = x /\ t[2] = p /\ Named(x) /\ Named(t[3]))
  IN [i \in DOMAIN ts |-> ts[i][3]]

\* mSvfABoxTypes
ABoxTypes(doc) == {<<t[1], t[3]>> : t \in {u \in Facts(doc, "type") : Named(u[1]) /\ Named(u[3])}}

\* The members of a list of blank nodes, each node visited once; the walk ends at the
\* first node without a named member.
Members(doc, head) ==
  LET first(x) == LastObject(doc, x, "first", Named)
      next(x)  == LastObject(doc, x, "rest", AnyTerm)
      path[k \in 0..Cardinality(Blank)] ==
        IF k = 0 THEN SelectSeq(<<head>>, LAMBDA x : x \in Blank /\ first(x) # NoTerm)
        ELSE LET p == path[k - 1]
                 x == IF p = <<>> THEN NoTerm ELSE next(Last(p))
             IN IF x \in Blank \ ToSet(p) /\ first(x) # NoTerm THEN Append(p, x) ELSE p
      nodes == path[Cardinality(Blank)]
  IN [i \in DOMAIN nodes |-> first(nodes[i])]

\* mOneOfMemberships, mDisjointUnionOf: <<class, member>> with their justifications.
OneOf(doc) ==
  UNION {LET ms == ToSet(Members(doc, LastObject(doc, c, "oneOf", AnyTerm)))
         IN {Justify(m, "type", c, {<<c, "oneOf", n>> : n \in ms}) : m \in ms} :
           c \in {t[1] : t \in {u \in Facts(doc, "oneOf") : Named(u[1])}}}

DisjointUnion(doc) ==
  UNION {LET ms == ToSet(Members(doc, t[3]))
         IN {Justify(m, "subClassOf", t[1], {<<t[1], "disjointUnionOf", n>> : n \in ms}) : m \in ms} :
           t \in {u \in Facts(doc, "disjointUnionOf") : Named(u[1])}}
=============================================================================
