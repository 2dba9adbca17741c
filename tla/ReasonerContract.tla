-------------------------- MODULE ReasonerContract --------------------------
(***************************************************************************)
(* What the self-invalidating reasoner promises its caller, without any of *)
(* the bookkeeping that keeps the promise.  The caller hands over content  *)
(* and asks for results; whatever may be read describes the content handed *)
(* over last, in the load variant of the verb that produced it, and a      *)
(* result that is already there is served without running the reasoner.    *)
(***************************************************************************)
EXTENDS Integers

CONSTANT Content        \* what a caller may hand over; {} is no content

VARIABLES
  content,   \* the content handed over last
  handed,    \* something was handed over since the start or the last Forget
  gen,       \* the generation number of that content
  shown,     \* the results that may be read: at most one
  runs       \* how often the reasoning pipeline was run

vars == <<content, handed, gen, shown, runs>>

ResultOf(c, real) == [content |-> c, real |-> real]

Init == content = {} /\ handed = FALSE /\ gen = 0 /\ shown = {} /\ runs = 0

\* Content equal to what is held changes nothing; other content is a new
\* generation and hides every result.
HandOver(c) ==
  \/ handed /\ c = content /\ UNCHANGED vars
  \/ /\ ~handed \/ c # content
     /\ content' = c /\ handed' = TRUE /\ gen' = gen + 1 /\ shown' = {}
     /\ UNCHANGED runs

\* A verb: the result that is shown already is kept as it is and costs nothing;
\* otherwise the attempt shows the result for this content, or none.
Serve(real) ==
  \/ shown = {ResultOf(content, real)} /\ UNCHANGED vars
  \/ /\ shown # {ResultOf(content, real)}
     /\ shown' \in {{}, {ResultOf(content, real)}}
     /\ runs' \in {runs, runs + 1}
     /\ UNCHANGED <<content, handed, gen>>

Forget ==
  /\ content' = {} /\ handed' = FALSE /\ gen' = gen + 1 /\ shown' = {}
  /\ UNCHANGED runs

Next == \/ \E c \in Content : HandOver(c)
        \/ \E real \in BOOLEAN : Serve(real)
        \/ Forget

Spec == Init /\ [][Next]_vars
=============================================================================
