--------------------------- MODULE MCKernelContent ---------------------------
(* Two triples: a clash the loader sees, and one only the reasoner finds. *)
EXTENDS KernelContent

CONSTANTS t1, t2

MCTriple == {t1, t2}
MCTrivial == {{t1}}
MCInconsistent == {{t1}, {t1, t2}}
=============================================================================
