--------------------------- MODULE MCResultBuilder ---------------------------
(* Small documents around each rule of the loader, each with a kernel that knows *)
(* what is asserted and no more, and one document with every taxonomy of two     *)
(* classes and several contents of the justification cache.                      *)
EXTENDS ResultBuilder

MCBlank == {"_r", "_s", "_1", "_2", "_3"}
MCLiteral == {"1", "2", "many"}
MCValue == [l \in MCLiteral |-> CASE l = "1" -> 1 [] l = "2" -> 2 [] OTHER -> 0]
MCRank == [x \in {"A", "B", "C", "D", "Nothing", "Thing", "p", "q", "r", "s"} |->
             CASE x = "A" -> 1 [] x = "B" -> 2 [] x = "C" -> 3 [] x = "D" -> 4 [] x = "Nothing" -> 5
               [] x = "Thing" -> 6 [] x = "p" -> 7 [] x = "q" -> 8 [] x = "r" -> 9 [] OTHER -> 10]

List(c, rel, first, second) ==
  <<<<c, rel, "_1">>, <<"_1", "first", first>>, <<"_1", "rest", "_2">>, <<"_2", "first", second>>>>
Nil == <<<<"_2", "rest", "nil">>>>
Restriction(p) == <<<<"_r", "type", "Restriction">>, <<"_r", "onProperty", p>>>>
TypesOf(x, cs) == [i \in DOMAIN cs |-> <<x, "type", cs[i]>>]
Told(c) == <<<<c, "equivalentClass", "_r">>>>

Merging == { <<<<"p", "type", d>>, <<"i", "p", "j">>, <<"i", "p", "k">>, <<"i", "p", "l">>, <<"j", "p", "k">>, <<"i", "p", "1">>>> :
               d \in {"FunctionalProperty", "InverseFunctionalProperty"} }
Clashing == { <<"A", "complementOf", "B">>, <<"i", "type", "A">>, <<"i", "type", "B">>, <<"j", "differentFrom", "k">> }
Orders == {d \in [1..3 -> Clashing] : Cardinality({d[i] : i \in 1..3}) = 3}
            \cup { <<<<"i", "differentFrom", "i">>>>, <<<<"A", "complementOf", "A">>>>, <<<<"_1", "differentFrom", "_1">>>> }
Filling ==
  { Restriction("p") \o <<<<"_r", "someValuesFrom", "C">>, <<c, rel, "_r">>>> \o rest :
      c \in {"A", "C"}, rel \in {"subClassOf", "equivalentClass"},
      rest \in { TypesOf("i", <<"C", "A">>) \o <<<<"i", "p", "j">>, <<"j", "p", "k">>, <<"k", "p", "i">>>>,
                 <<<<"i", "p", "j">>, <<"j", "p", "i">>, <<"k", "p", "j">>>> \o TypesOf("k", <<"A">>) } }
Counting ==
  { Restriction("p") \o <<<<"_r", q, l>>, <<"A", "equivalentClass", "_r">>, <<"i", "p", "j">>, <<"i", "p", "k">>,
      <<"j", "differentFrom", x>>>> :
      q \in {"minCardinality", "minQualifiedCardinality"}, l \in MCLiteral, x \in {"k", "l"} }
Listing ==
  { List("A", "intersectionOf", "B", "C") \o Nil \o TypesOf("i", <<"B", "C">>) \o TypesOf("j", <<"B">>) }
    \cup { List("A", rel, "i", "j") \o end : rel \in {"oneOf", "disjointUnionOf"}, end \in {Nil, <<<<"_2", "rest", "_1">>>>} }
Restricting ==
  { Restriction("p") \o Told("A") \o rest :
      rest \in { <<<<"_r", "hasValue", v>>, <<"i", "p", v>>, <<v, "q", "k">>, <<"p", "inverseOf", "q">>>> : v \in {"j", "1"} }
               \cup { <<<<"_r", "hasSelf", "1">>, <<"i", "p", "i">>, <<"_r", "hasValue", "i">>, <<"j", "p", "j">>>>,
                      <<<<"_r", "allValuesFrom", "B">>, <<"i", "p", "j">>, <<"k", "p", "j">>>> \o TypesOf("i", <<"A">>),
                      <<<<"p", "domain", "B">>, <<"p", "range", "A">>, <<"i", "p", "j">>, <<"_r", "hasSelf", "1">>, <<"j", "p", "j">>>> } }

\* A kernel that knows the classes to be unrelated and the individuals to be of the classes
\* they are asserted to be of, and given, and of owl:Thing.
Classes == {"A", "B", "C", "D"}
Flat == {{c} : c \in Classes \cup {"Thing", "Nothing"}}
Plain(d, given, same, real) ==
  LET asserted == {<<t[1], t[3]>> : t \in {u \in Facts(d, "type") : Named(u[1]) /\ u[3] \in Classes}}
      known == asserted \cup given
  IN [nodes |-> Flat, bottom |-> {"Nothing"},
      parents |-> [n \in Flat |-> IF n = {"Thing"} THEN {} ELSE IF n = {"Nothing"} THEN {{c} : c \in Classes} ELSE {{"Thing"}}],
      individuals |-> {"i", "j", "k", "l"},
      types |-> known \cup {<<x, "Thing">> : x \in {"i", "j"}},
      roles |-> {t \in Facts(d, "p") : Named(t[3])} \cup {<<"i", "topObjectProperty", "j">>},
      same |-> same, data |-> {t \in Facts(d, "p") : IsLiteral(t[3])},
      cache |-> {},
      roleNodes |-> {{"p", "q"}, {"r"}, {"s"}, {}}, roleTop |-> {"s"}, roleBottom |-> {},
      roleParents |-> [n \in {{"p", "q"}, {"r"}, {"s"}, {}} |->
                         CASE n = {"p", "q"} -> {{"r"}} [] n = {"r"} -> {{"s"}} [] n = {} -> {{"p", "q"}} [] OTHER -> {}],
      realized |-> real, forRealization |-> real]

Documents == Merging \cup Orders \cup Filling \cup Counting \cup Listing \cup Restricting
PlainCases ==
  {[doc |-> d, kernel |-> Plain(d, {}, {}, TRUE)] : d \in Documents}
    \cup {[doc |-> d, kernel |-> Plain(d, {}, {}, FALSE)] : d \in Merging \cup Filling}
    \cup {[doc |-> d, kernel |-> Plain(d, {<<"i", "A">>, <<"j", "A">>}, {{"i", "j"}}, TRUE)] : d \in Listing \cup Restricting}

\* Every preorder of two classes between owl:Nothing and owl:Thing.
Two == {"A", "B", "Thing", "Nothing"}
Preorders ==
  {le \in { {<<x, x>> : x \in Two} \cup {<<"Nothing", x>> : x \in Two} \cup {<<x, "Thing">> : x \in Two} \cup s :
              s \in SUBSET {<<"A", "B">>, <<"B", "A">>, <<"Thing", "A">>, <<"Thing", "B">>, <<"A", "Nothing">>, <<"B", "Nothing">>} } :
     /\ \A x, y, z \in Two : <<x, y>> \in le /\ <<y, z>> \in le => <<x, z>> \in le
     /\ <<"Thing", "Nothing">> \notin le}

Ontology == <<<<"A", "subClassOf", "B">>, <<"B", "subClassOf", "A">>, <<"B", "disjointWith", "C">>, <<"i", "type", "A">>,
              <<"p", "equivalentProperty", "q">>, <<"p", "domain", "A">>, <<"p", "subPropertyOf", "r">>>>

Entry(type, x, y, tags) == [type |-> type, sub |-> x, sup |-> y, tags |-> tags]
WithTaxonomy(le, cache) ==
  LET node(x) == {y \in Two : <<x, y>> \in le /\ <<y, x>> \in le}
      nodes == {node(x) : x \in Two}
      leq(n, m) == \E x \in n, y \in m : <<x, y>> \in le
      covers(m, n) == m # n /\ leq(n, m) /\ ~\E k \in nodes \ {n, m} : leq(n, k) /\ leq(k, m)
  IN [Plain(Ontology, {}, {}, TRUE) EXCEPT
        !.nodes = nodes, !.bottom = node("Nothing"), !.parents = [n \in nodes |-> {m \in nodes : covers(m, n)}],
        !.types = {<<"i", x>> : x \in {y \in Two : <<"A", y>> \in le}},
        !.cache = cache \cup {Entry("PropertySubsumption", "p", "r", {"p", "r"})}]

Both(tagsAB, tagsBA) == {Entry("Classification", "A", "B", tagsAB), Entry("Classification", "B", "A", tagsBA)}
Caches == { {}, Both({"A"}, {"B"}), Both({"A", "B"}, {"A", "B"}) \cup {Entry("Classification", "B", "Thing", {"A"})},
            {Entry("Realization", "B", "B", {"A"})} }
Taxonomies == {[doc |-> Ontology, kernel |-> WithTaxonomy(le, c)] : le \in Preorders, c \in Caches}

MCCases == PlainCases \cup Taxonomies

\* A class contained in a restriction.
MCSubClass ==
  LET d == Restriction("p") \o <<<<"_r", "minCardinality", "1">>, <<"A", "subClassOf", "_r">>, <<"i", "p", "j">>>>
      pad == {[doc |-> o, kernel |-> Plain(o, {}, {}, TRUE)] : o \in Orders}
  IN pad \cup {[doc |-> d, kernel |-> Plain(d, {}, {}, TRUE)]}
=============================================================================
