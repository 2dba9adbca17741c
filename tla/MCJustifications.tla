--------------------------- MODULE MCJustifications ---------------------------
(* Four axioms, two of which are one triple in two graphs, every oracle on     *)
(* them (the families of sets none of which contains another), and edits that  *)
(* add and take away either end or everything.                                 *)
EXTENDS Justifications

CONSTANTS k1, k2, k3

MCAxiom == 1..4
MCContents == {{}, 1..3, 2..4, 1..4}
MCKeyOf == <<k1, k2, k3, k3>>
MCOracles ==
  {F \in SUBSET SUBSET MCAxiom : \A s, t \in F : s \subseteq t => s = t}
=============================================================================
