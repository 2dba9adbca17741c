----------------------------- MODULE ResultBuilder -----------------------------
(***************************************************************************)
(* buildInferredTripleBuffer and buildPropertyTripleBuffer: how what the   *)
(* kernel found and what LoaderRules read out of the document become the   *)
(* triples, and the explanations, that the JavaScript side decodes.        *)
(*                                                                         *)
(* kernel is what the external reasoner holds after a pipeline.  Concept   *)
(* and role tags are the names they belong to; a chain of dependency tags  *)
(* is the set of its tags.  Hash tables are walked in one fixed order,     *)
(* except where the code stops at the first hit.  An index into a section  *)
(* of the buffer stands for what it points to, a section for its entries.  *)
(***************************************************************************)
EXTENDS LoaderRules

CONSTANTS
  Cases,  \* pairs of a document and a kernel
  Rank    \* the place of each class and property in the order of strings

IsDocument(d) == d \in Seq(STRING \X STRING \X STRING)

\* A class is in one node of the taxonomy; the node of owl:Thing has no parent, the one of
\* owl:Nothing is below all others and a parent of none, and only it may have no other name.
IsTaxonomy(kn) ==
  /\ IsFiniteSet(kn.nodes) /\ kn.bottom \in kn.nodes
  /\ \A n, m \in kn.nodes : n = m \/ n \cap m = {}
  /\ kn.parents \in [kn.nodes -> SUBSET kn.nodes]
  /\ \A n \in kn.nodes : "Thing" \in n => kn.parents[n] = {}
  /\ \A n \in kn.nodes : \A m \in kn.parents[n] : m \ {"Nothing"} # {}
  /\ \A s \in (SUBSET kn.nodes) \ {{}} :
       (\A n \in kn.nodes : kn.parents[n] \cap s # {} => n \in s) => kn.bottom \in s

IsRoleTaxonomy(kn) == kn.roleParents \in [kn.roleNodes -> SUBSET kn.roleNodes]

\* No property of the ontology is a word of the vocabulary.
Vocabulary == {"type", "subClassOf", "equivalentClass", "subPropertyOf", "sameAs"}
AreRealized(kn) ==
  /\ kn.types \subseteq STRING \X STRING
  /\ \A t \in kn.roles \cup kn.data : t[2] \notin Vocabulary

ASSUME CasesAssumption ==
  \A c \in Cases : /\ IsDocument(c.doc)
                   /\ IsTaxonomy(c.kernel) /\ IsRoleTaxonomy(c.kernel) /\ AreRealized(c.kernel)
                   /\ UNION (c.kernel.nodes \cup c.kernel.roleNodes) \subseteq DOMAIN Rank
ASSUME RankAssumption == Rank \in [DOMAIN Rank -> Nat]

VARIABLES
  doc,      \* the loaded buffer
  kernel,   \* what the reasoner found
  explain,  \* withExplanations
  pc,       \* where the builder is
  b,        \* [out, axioms, justs, maps]: the four sections of the buffer; justs by hash
  recorded, \* mWorkaroundJustifications
  todo,     \* types still to be emitted
  allTypes  \* allTypes of the someValuesFrom loop

vars == <<doc, kernel, explain, pc, b, recorded, todo, allTypes>>
input == <<doc, kernel, explain>>

Empty == [out |-> {}, axioms |-> {}, justs |-> [id \in {} |-> {}], maps |-> {}]

Init ==
  /\ \E c \in Cases : doc = c.doc /\ kernel = c.kernel
  /\ explain \in BOOLEAN
  /\ pc = "load"
  /\ b = Empty /\ recorded = {} /\ todo = {} /\ allTypes = {}

-----------------------------------------------------------------------------
(* The end of buildOntology *)

\* What is there already stays; between two of one rule the hash table decides.
Unless(old, new) == old \cup {j \in new : j.key \notin Keys(old)}

\* Explanations are kept of one rule only, and oneOf overwrites.
Load ==
  /\ pc = "load"
  /\ recorded' = Unless(OneOf(doc), Unless(Unless(DomainRange(doc), SelfTypes(doc) \cup FillerTypes(doc)), IntersectionTypes(doc)))
  /\ pc' \in {"classes", "properties"}
  /\ UNCHANGED <<input, b, todo, allTypes>>

-----------------------------------------------------------------------------
(* Sections of the buffer *)

\* emitTriple, for a set of triples.
Emit(r, ts) == [r EXCEPT !.out = @ \cup ts]

TypesIn(r) == {<<t[1], t[3]>> : t \in {u \in r.out : u[2] = "type"}}

\* collectJust, emitNTriplesJust and emitWorkaroundJust, for a set of [key, id, axioms]:
\* axioms are shared by their table, justifications by their hash; id is what that depends
\* on.  Of two with one id the first is written and both triples are mapped to it.
Record(r, js) ==
  LET fresh == {j.id : j \in js} \ DOMAIN r.justs
      first(id) == (CHOOSE j \in js : j.id = id).axioms
  IN IF ~explain THEN r
     ELSE [r EXCEPT !.axioms = @ \cup UNION {first(id) : id \in fresh},
                    !.justs = [id \in DOMAIN @ \cup fresh |-> IF id \in fresh THEN first(id) ELSE @[id]],
                    !.maps = @ \cup {<<j.key, j.id>> : j \in js}]

Explained(r, m) == r.justs[m[2]] \cap r.axioms

-----------------------------------------------------------------------------
(* Axioms behind dependency tags *)

\* The class axioms the kernel files under a class, as far as both sides are named.
AxiomsForConceptTag(tag) ==
  {t \in Triples(doc) : /\ t[2] \in {"subClassOf", "equivalentClass", "disjointWith"}
                        /\ Named(t[1]) /\ Named(t[3]) /\ tag \in {t[1], t[3]}}

AxiomsForRoleTag(tag) ==
  {t \in Triples(doc) : \/ /\ t[2] \in {"subPropertyOf", "equivalentProperty"}
                           /\ Named(t[1]) /\ Named(t[3]) /\ tag \in {t[1], t[3]}
                        \/ t[2] \in {"domain", "range"} /\ Named(t[3]) /\ tag = t[1]}

AxiomIndices(tags, isRole) ==
  UNION {IF isRole THEN AxiomsForRoleTag(tag) ELSE AxiomsForConceptTag(tag) : tag \in tags}

TagsIdOfOne(tags) == <<"tags", {CHOOSE t \in tags : \A u \in tags : Rank[t] <= Rank[u]}>>
\* hashDepTags
TagsId(tags) == <<"tags", tags>>
ByTags(t, tags, isRole) == [key |-> t, id |-> TagsId(tags), axioms |-> AxiomIndices(tags, isRole)]

\* A term that comes an even number of times in one place cancels out of the hash.
XorId(axioms) ==
  <<"xor", {x \in UNION {{<<i, a[i]>> : i \in 1..3} : a \in axioms} :
              Cardinality({a \in axioms : a[x[1]] = x[2]}) % 2 = 1}>>

\* parseNTriplesToAxiomIndices reads names only.
Parsed(axioms) == {a \in axioms : ~IsLiteral(a[3])}
ByText(t, axioms) == [key |-> t, id |-> XorId(Parsed(axioms)), axioms |-> Parsed(axioms)]

\* JustificationCache, a set of [type, sub, sup, tags]; an empty chain is like none.
Lookup(type, x, y) == UNION {e.tags : e \in {f \in kernel.cache : f.type = type /\ f.sub = x /\ f.sup = y}}
Chain(c, d)     == Lookup("Classification", c, d)
RealChain(c)    == Lookup("Realization", c, c)
RoleChain(p, q) == Lookup("PropertySubsumption", p, q)

\* Triples with the chains found for them.
EmitWithTags(r, tags, isRole) ==
  Record(Emit(r, DOMAIN tags), {ByTags(t, tags[t], isRole) : t \in {u \in DOMAIN tags : tags[u] # {}}})

-----------------------------------------------------------------------------
(* Class hierarchy, and the lookups that read it *)

\* mConceptByIri
Concepts == UNION kernel.nodes
Node(c) == CHOOSE n \in kernel.nodes : c \in n

\* Near(m)[k]: the nodes at most k steps below m.
Near(m) ==
  LET near[k \in 0..Cardinality(kernel.nodes)] ==
        IF k = 0 THEN {m}
        ELSE LET w == near[k - 1] IN w \cup {n \in kernel.nodes : kernel.parents[n] \cap w # {}}
  IN near

Below(n, m) == n \in Near(m)[Cardinality(kernel.nodes)]

IsSubClassOf(c, d) == c \in Concepts /\ d \in Concepts /\ Below(Node(c), Node(d))

IsSatisfiableClass(c) == c \in Concepts => Node(c) # kernel.bottom

UnsatisfiableClasses == (kernel.bottom \cap Concepts) \ {"Nothing"}

IsInstanceOf(x, c) == kernel.realized /\ <<x, c>> \in kernel.types

\* One shortest way up the taxonomy, told in the names of the nodes' first concepts.
SubClassJustification(c, d) ==
  LET near == Near(Node(d))
      dist == Min({k \in DOMAIN near : Node(c) \in near[k]})
      up[k \in 0..dist] ==
        IF k = 0 THEN Node(c) ELSE CHOOSE p \in kernel.parents[up[k - 1]] : p \in near[dist - k]
      first(n) == CHOOSE e \in n : TRUE
  IN IF ~IsSubClassOf(c, d) THEN {}
     ELSE IF Chain(c, d) # {} THEN {<<c, "subClassOf", d>>}
     ELSE {<<first(up[k - 1]), "subClassOf", first(up[k])>> : k \in 1..dist}

\* getJustificationByType for classes and for properties
JustificationByType(x, y, type) == AxiomIndices(Lookup(type, x, y), type = "PropertySubsumption")

NamesButThing(n) == n \ {"Thing", "Nothing"}
\* nodeToIris
Names(n) == n \ {"Nothing"}
Known == {n \in kernel.nodes : Names(n) # {}}

\* The lexically first name stands for its node.
Rep(names) == CHOOSE c \in names : \A d \in names : Rank[c] <= Rank[d]

Equivalences ==
  (UNION {{<<c, "equivalentClass", d>> : c \in Names(n), d \in Names(n)} : n \in Known})
    \ {<<c, "equivalentClass", c>> : c \in Concepts}

Edges ==
  UNION {{<<Rep(Names(n)), "subClassOf", Rep(Names(m))>> : m \in kernel.parents[n] \cap Known} :
           n \in {k \in Known : Rep(Names(k)) # "Thing"}}

BuildTBox ==
  /\ pc = "classes"
  /\ LET equivalences == [t \in Equivalences |-> Chain(t[1], t[3]) \cup Chain(t[3], t[1])]
         edges == [t \in Edges |-> Chain(t[1], t[3])]
     IN b' = EmitWithTags(EmitWithTags(b, equivalences, FALSE), edges, FALSE)
  /\ todo' = IF kernel.realized THEN kernel.types ELSE {}
  /\ pc' = IF kernel.realized THEN "types" ELSE "post"
  /\ UNCHANGED <<input, recorded, allTypes>>

-----------------------------------------------------------------------------
(* Types of individuals *)

\* What explains that x is a c, as far as it can be read back.
Recorded(x, c) ==
  {j.axioms : j \in {i \in recorded : i.key = <<x, "type", c>> /\ Parsed(i.axioms) # {}}}

\* The ways visitType explains that x is a c: the first that is not empty is taken, and
\* within it whatever the hash table shows first.
TypeExplanations(t) ==
  LET x == t[1]
      c == t[3]
      others == Concepts \ {c}
      partners == (UNION {g \in kernel.same : x \in g}) \ {x}
      ways == << {ByTags(t, tags, FALSE) : tags \in {RealChain(c)} \ {{}}},
                 {ByTags(t, tags, FALSE) : tags \in {Chain(d, c) : d \in others} \ {{}}},
                 {ByText(t, axioms) : axioms \in Recorded(x, c)},
                 {ByText(t, SubClassJustification(d, c) \cup {<<x, "type", d>>}) :
                    d \in {e \in others : SubClassJustification(e, c) # {}}},
                 {ByText(t, {<<x, "sameAs", y>>, <<y, "type", c>>}) : y \in partners} >>
      found == {i \in DOMAIN ways : ways[i] # {}}
  IN IF found = {} THEN {} ELSE ways[Min(found)]

EmitType ==
  /\ pc = "types" /\ todo # {}
  /\ LET next == CHOOSE e \in todo : TRUE
         t == <<next[1], "type", next[2]>>
         ways == TypeExplanations(t)
     IN IF t[3] \in {"Thing", "Nothing"} THEN b' = b
        ELSE IF ways = {} THEN b' = Emit(b, {t})
        ELSE \E just \in ways : b' = Record(Emit(b, {t}), {just})
  /\ todo' = todo \ {CHOOSE e \in todo : TRUE}
  /\ UNCHANGED <<input, recorded, pc, allTypes>>

\* Object properties, groups of the same individuals, asserted data values.
EmitAssertions ==
  /\ pc = "types" /\ todo = {}
  /\ LET roles == {t \in kernel.roles : t[2] \notin {"topObjectProperty", "bottomObjectProperty"}}
         pairs == UNION {g \X g : g \in kernel.same}
         same == {<<p[1], "sameAs", p[2]>> : p \in {q \in pairs : q[1] # q[2]}}
     IN b' = Emit(b, roles \cup same \cup kernel.data)
  /\ pc' = "workarounds"
  /\ UNCHANGED <<input, recorded, todo, allTypes>>

-----------------------------------------------------------------------------
(* Consequences the kernel misses *)

\* Pairwise different fillers enough for the restriction, looked for among the first ones.
MinCardMet(x, r) ==
  LET f == Fillers(doc, x, r.property)
      first == 1..Min({Len(f), MaskBits})
      differ == Scan(doc).differ
  IN /\ Len(f) >= r.minCard
     /\ \/ r.minCard = 1
        \/ \E s \in SUBSET first : /\ Cardinality(s) = r.minCard
                                   /\ \A i, j \in s : i < j => <<f[i], f[j]>> \in differ

MinCardTypes ==
  UNION {{<<x, "type", r.class>> : x \in {y \in kernel.individuals : MinCardMet(y, r)}} :
           r \in MinCardRestrictions(doc)}

\* mIntersectionOfTypes and mHasSelfTypes list what no other rule had a justification for;
\* between two restrictions of a class the hash table decides.
EmitWorkarounds ==
  /\ pc = "workarounds"
  /\ LET earlier == Keys(DomainRange(doc))
         self == {j \in SelfTypes(doc) : j.key \notin earlier}
         rivals == Keys(FillerTypes(doc))
         sections == {j \in IntersectionTypes(doc) : j.key \notin earlier \cup Keys(SelfTypes(doc)) \cup rivals}
     IN \E lost \in SUBSET {j \in self : j.key \in rivals} :
          LET js == OneOf(doc) \cup sections \cup (self \ lost)
              text(j) == [key |-> j.key, id |-> <<"text", Parsed(j.axioms)>>, axioms |-> Parsed(j.axioms)]
              explained == Record(Emit(b, Keys(js)), {text(j) : j \in {k \in js : Parsed(k.axioms) # {}}})
          IN b' = Emit(explained, MinCardTypes)
  /\ pc' = "post"
  /\ UNCHANGED <<input, recorded, todo, allTypes>>

StartFromOutput(r) == TypesIn(r)
\* What the loop over someValuesFrom starts from.
Start(r) == ABoxTypes(doc) \cup TypesIn(r)

EmitPost ==
  /\ pc = "post"
  /\ LET same == IF kernel.forRealization THEN Keys(FpIfpSameAs(doc)) ELSE {}
         r == Emit(b, Keys(DisjointUnion(doc)) \cup same)
     IN b' = r /\ allTypes' = IF SvfIndex(doc) = {} THEN allTypes ELSE Start(r)
  /\ pc' = IF SvfIndex(doc) = {} THEN "done" ELSE "loop"
  /\ UNCHANGED <<input, recorded, todo>>

\* The fillers of an individual of the class are of the class of fillers.
Fired(types) ==
  UNION {UNION {{<<y, e.filler>> : y \in ToSet(Fillers(doc, t[1], e.property))} :
                  e \in {f \in SvfIndex(doc) : f.class = t[2]}} : t \in types}

Changed(types) == ~ Fired(types) \subseteq types

Pass ==
  /\ pc = "loop"
  /\ allTypes' = allTypes \cup Fired(allTypes)
  /\ b' = Emit(b, {<<t[1], "type", t[2]>> : t \in Fired(allTypes) \ allTypes})
  /\ pc' = IF Changed(allTypes) THEN "loop" ELSE "done"
  /\ UNCHANGED <<input, recorded, todo>>

-----------------------------------------------------------------------------
(* Property hierarchy *)

\* Nodes are found from the top, so that every node and edge below it is.
RoleEdges ==
  LET inner == {n \in kernel.roleNodes : n # {} /\ n \notin {kernel.roleTop, kernel.roleBottom}}
  IN UNION {{<<Rep(n), "subPropertyOf", Rep(m)>> :
               m \in {k \in kernel.roleParents[n] : k # {} /\ k # kernel.roleBottom}} : n \in inner}

BuildProperties ==
  /\ pc = "properties"
  /\ LET equiv == EquivPropPairs(doc)
         both == {<<e[1], "subPropertyOf", e[2]>> : e \in equiv} \cup {<<e[2], "subPropertyOf", e[1]>> : e \in equiv}
         edges == [t \in RoleEdges |-> RoleChain(t[1], t[3])]
     IN b' = Emit(EmitWithTags(b, edges, TRUE), both)
  /\ pc' = "propertiesDone"
  /\ UNCHANGED <<input, recorded, todo, allTypes>>

Next == Load \/ BuildTBox \/ EmitType \/ EmitAssertions \/ EmitWorkarounds \/ EmitPost \/ Pass \/ BuildProperties

Spec == Init /\ [][Next]_vars

-----------------------------------------------------------------------------
(* Properties *)

\* The reflexive and transitive closure of a relation on s: <<x, y>> is in it when y is in
\* every subset of s that holds x and all that its members are related to.
Closure(rel, s) ==
  {z \in s \X s : \A t \in SUBSET s :
     z[1] \in t /\ (\A r \in rel : r[1] \in t /\ r[2] \in s => r[2] \in t) => z[2] \in t}

Emitted(ps) == {<<t[1], t[3]>> : t \in {u \in b.out : u[2] \in ps}}

\* The verdict given without the kernel does not depend on the order of the buffer: it is
\* INCONSISTENT exactly when two declared complements share an individual or something is
\* its own opposite (the check used to be made while the types were still being collected).
VerdictExact ==
  TriviallyInconsistent(doc) <=>
    \E t \in Triples(doc) :
      \/ t[2] \in {"differentFrom", "complementOf"} /\ t[1] = t[3] /\ Named(t[1])
      \/ /\ t[2] = "complementOf" /\ Named(t[1]) /\ Named(t[3])
         /\ \E u \in Facts(doc, "type") : Named(u[1]) /\ u[3] = t[1] /\ <<u[1], "type", t[3]>> \in Triples(doc)

\* A declaration kept from the kernel is made up for: any two fillers it would have made
\* the same come out as the same (buildOntology skips the triple, the builder adds sameAs).
SkipsAreReplaced ==
  pc = "done" /\ kernel.forRealization =>
    \A d \in Triples(doc) \ KernelTriples(doc, TRUE) : \A t, u \in Facts(doc, d[1]) :
      LET x == Other(d[3], t)
          y == Other(d[3], u)
      IN End(d[3], t) = End(d[3], u) /\ x # y /\ {x, y, End(d[3], t)} \cap (Blank \cup Literal) = {}
           => <<x, "sameAs", y>> \in b.out

\* What the buffer says of two classes, after closure, is what isSubClassOf answers; the same
\* for isInstanceOf and the unsatisfiable classes; and of properties for one name of every
\* node.  The buffer has only the edges between representatives and skips owl:Thing,
\* owl:Nothing and empty nodes.
BufferMatchesLookups ==
  /\ pc = "post" =>
       LET names == Concepts \ {"Nothing"}
           said == Closure(Emitted({"subClassOf", "equivalentClass"}), names)
       IN /\ \A c, d \in names : IsSubClassOf(c, d) <=> <<c, d>> \in said
          /\ \A c \in UnsatisfiableClasses : ~IsSatisfiableClass(c) /\ \A d \in names : <<c, d>> \in said
  /\ pc = "done" => \A t \in kernel.types :
       t[2] \notin {"Thing", "Nothing"} /\ IsInstanceOf(t[1], t[2]) => t \in TypesIn(b)
  /\ pc = "propertiesDone" =>
       LET inner == kernel.roleNodes \ {kernel.roleTop, kernel.roleBottom, {}}
           above == {z \in inner \X inner : z[2] \in kernel.roleParents[z[1]]}
           names == UNION inner
           said == Closure(Emitted({"subPropertyOf"}), names)
       IN \A n, m \in inner : <<n, m>> \in Closure(above, inner) => <<Rep(n), Rep(m)>> \in said

\* The loop over someValuesFrom computes the least set of types that holds what is asserted
\* or was emitted and is closed under the rule, and emits all it adds.
FixpointExact ==
  pc = "done" /\ SvfIndex(doc) # {} =>
    /\ Fired(allTypes) \subseteq allTypes
    /\ ABoxTypes(doc) \cup TypesIn(b) \subseteq allTypes
    /\ allTypes \subseteq ABoxTypes(doc) \cup TypesIn(b)
    /\ LET given == ABoxTypes(doc) \cup {t \in kernel.types : kernel.realized /\ t[2] \notin {"Thing", "Nothing"}}
                      \cup {<<j.key[1], j.key[3]>> : j \in OneOf(doc) \cup IntersectionTypes(doc) \cup SelfTypes(doc)}
                      \cup {<<t[1], t[3]>> : t \in MinCardTypes}
       IN \A s \in SUBSET (allTypes \ given) : Fired(allTypes \ s) \subseteq allTypes \ s => s = {}

\* An explanation decoded through the tables of the buffer is the one the lookups give for
\* the same subsumption: sharing entries by hash mixes nothing up where the hash is of tags.
ExplainedByTags ==
  \A m \in b.maps :
    LET t == m[1]
    IN CASE t[2] = "subClassOf" -> Explained(b, m) = JustificationByType(t[1], t[3], "Classification")
         [] t[2] = "equivalentClass" ->
              Explained(b, m) = JustificationByType(t[1], t[3], "Classification")
                                  \cup JustificationByType(t[3], t[1], "Classification")
         [] t[2] = "subPropertyOf" -> Explained(b, m) = JustificationByType(t[1], t[3], "PropertySubsumption")
         [] OTHER -> m[2] \in DOMAIN b.justs
=============================================================================
