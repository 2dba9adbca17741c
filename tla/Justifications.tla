---------------------------- MODULE Justifications ----------------------------
(***************************************************************************)
(* The search for minimal justifications that explain, explainEntailment,    *)
(* explainInconsistency, explainInconsistencyLaconic and validate of        *)
(* ts/index.ts each carry a copy of: halve the axioms while one half has    *)
(* the consequence, drop one axiom at a time, and look for further          *)
(* justifications without the ones found by a hitting-set tree.  One step   *)
(* is one call of the reasoner, between which the operation awaits.         *)
(*                                                                         *)
(* The reasoner is an oracle: Mus are the smallest sets of axioms that have *)
(* the consequence (the clash, the entailment), and exactly their supersets *)
(* have it.                                                                *)
(*                                                                         *)
(* The store is the user's, who may edit it while an operation awaits.  The *)
(* operations on inconsistency ask whether the store clashes and read it    *)
(* once more for the axioms to search.                                     *)
(***************************************************************************)
EXTENDS Integers, Sequences, FiniteSets

CONSTANTS
  Axiom,        \* what the store may hold, numbered in its order
  Contents,     \* the contents of the store considered
  Key, KeyOf,   \* KeyOf[a]: the triple of a, without its graph
  Method,       \* explainInconsistency stands for Laconic
  Oracles,      \* the Mus considered
  Stale,        \* what the cache of verdicts may say besides the truth, after a failed run
  Limits        \* the maxJustifications considered: with 0 nothing is searched

ASSUME JustificationsAssumption ==
  /\ Axiom \subseteq Nat /\ IsFiniteSet(Axiom) /\ KeyOf \in [Axiom -> Key]
  /\ Contents \subseteq SUBSET Axiom
  /\ Method \subseteq {"explain", "explainEntailment", "explainInconsistency", "validate"}
  /\ Oracles \subseteq SUBSET SUBSET Axiom /\ Stale \subseteq BOOLEAN
  /\ Limits \subseteq Nat \ {0}

VARIABLES
  method, mus, max,
  filtered,  \* an axiomFilter was given
  candidates, \* the axioms of the store, and once it has been read those that are searched
  confirmed, \* a history variable: the reasoner was asked about them, and was right
  pc,
  working,   \* what findOneJustification has narrowed the candidates down to
  kept,      \* those of them the deletion pass found necessary
  excluding, \* the keys its candidates leave out
  node,      \* the node of the tree being expanded
  rest,      \* the axioms of the node's justification still to exclude
  hsQueue, explored, found,
  expired,   \* the deadline has passed
  cut        \* a history variable: some call was given up

call   == <<method, mus, max, filtered>>
input  == <<call, candidates, confirmed>>
search == <<working, kept, excluding>>
tree   == <<node, rest, hsQueue, explored>>
vars   == <<input, pc, search, tree, found, expired, cut>>

-----------------------------------------------------------------------------
Has(M, S)  == \E m \in M : m \subseteq S
Entails(S) == Has(mus, S)

\* Only the operations on inconsistency have a deadline and a timer for each call.
HasDeadline == method = "explainInconsistency"

\* Does the store clash?  Only then there is something to explain.
Judges == method \in {"explainInconsistency", "validate"}

\* Without a filter explainInconsistency goes by that verdict.
TestsAll == filtered \/ method # "explainInconsistency"

\* Only explainEntailment tries to do without the last axiom.
KeepsLast == method # "explainEntailment"

First(S) == CHOOSE a \in S : \A b \in S : a <= b

FirstHalf(S) == {a \in S : Cardinality({b \in S : b < a}) < Cardinality(S) \div 2}

SeveralOrOne(S) == S # {}

Several(S) == \E a, b \in S : a # b

Without(keys) == {a \in candidates : KeyOf[a] \notin keys}

\* jKey: the sorted triples of a justification.
JKey(j) == [k \in Key |-> Cardinality({a \in j : KeyOf[a] = k})]

AlreadyFoundLast(j) == found # <<>> /\ JKey(found[Len(found)]) = JKey(j)

AlreadyFound(j) == \E i \in DOMAIN found : JKey(found[i]) = JKey(j)

NoNode == [excluded |-> {}, justification |-> {}]

Init ==
  /\ method \in Method /\ mus \in Oracles /\ max \in Limits /\ filtered \in BOOLEAN
  /\ candidates \in Contents /\ confirmed = FALSE
  /\ pc = "begin" /\ working = {} /\ kept = {} /\ excluding = {}
  /\ node = NoNode /\ rest = {} /\ hsQueue = <<>> /\ explored = {} /\ found = <<>>
  /\ expired = FALSE /\ cut = FALSE

-----------------------------------------------------------------------------
\* The question is about the store as it is now.
Judge ==
  /\ pc = "begin" /\ Judges
  /\ \E clash \in {Entails(candidates)} \cup Stale :
       pc' = (IF clash THEN "judged" ELSE "done") /\ confirmed' = (clash = Entails(candidates))
  /\ UNCHANGED <<call, candidates, search, tree, found, expired, cut>>

\* The user edits the store while the verdict is awaited.  The store is not read after the
\* candidates have been.
Edit ==
  /\ pc = "judged" /\ candidates' \in Contents \ {candidates} /\ confirmed' = FALSE
  /\ UNCHANGED <<call, pc, search, tree, found, expired, cut>>

\* The filter is a predicate of the user's.
ReadCandidates ==
  /\ pc = IF Judges THEN "judged" ELSE "begin"
  /\ candidates' \in IF filtered THEN SUBSET candidates ELSE {candidates}
  /\ working' = candidates' /\ pc' = IF TestsAll THEN "all" ELSE "first"
  /\ UNCHANGED <<call, confirmed, kept, excluding, tree, found, expired, cut>>

\* Nothing to explain, or the deadline passed before the filtered axioms were tried.
CheckAll ==
  /\ pc = "all"
  /\ pc' = IF Entails(candidates) /\ ~expired THEN "first" ELSE "done"
  /\ confirmed' = ~expired /\ cut' = (cut \/ expired)
  /\ UNCHANGED <<call, candidates, search, tree, found, expired>>

Narrow(half) == working' = half /\ pc' = "first" /\ UNCHANGED <<kept, excluding>>

CheckFirstHalf ==
  /\ pc = "first" /\ Several(working) /\ ~expired
  /\ IF Entails(FirstHalf(working))
     THEN Narrow(FirstHalf(working))
     ELSE pc' = "second" /\ UNCHANGED search
  /\ UNCHANGED <<input, tree, found, expired, cut>>

StartDeleting == pc' = "delete" /\ kept' = {} /\ UNCHANGED <<working, excluding>>

TakeSecondHalf ==
  /\ pc = "second" /\ ~expired
  /\ Narrow(working \ FirstHalf(working))
  /\ UNCHANGED <<input, tree, found, expired, cut>>

CheckSecondHalf ==
  /\ pc = "second" /\ ~expired
  /\ IF Entails(working \ FirstHalf(working))
     THEN Narrow(working \ FirstHalf(working))
     ELSE StartDeleting
  /\ UNCHANGED <<input, tree, found, expired, cut>>

Shrunk ==
  /\ pc = "first" /\ ~Several(working)
  /\ StartDeleting
  /\ UNCHANGED <<input, tree, found, expired, cut>>

Needed == working = kept \/ (KeepsLast /\ ~Several(working))

CheckWithoutSkips ==
  /\ pc = "delete" /\ ~Needed /\ ~expired
  /\ LET a == First(working \ kept)
     IN IF Entails(working \ {a})
        THEN /\ working' = working \ {a}
             /\ kept' = IF working = kept \cup {a} THEN kept
                        ELSE kept \cup {First(working \ (kept \cup {a}))}
        ELSE kept' = kept \cup {a} /\ UNCHANGED working
  /\ UNCHANGED <<input, pc, excluding, tree, found, expired, cut>>

\* Does the consequence survive without the next axiom?
CheckWithout ==
  /\ pc = "delete" /\ ~Needed /\ ~expired
  /\ LET a == First(working \ kept)
     IN IF Entails(working \ {a})
        THEN working' = working \ {a} /\ UNCHANGED kept
        ELSE kept' = kept \cup {a} /\ UNCHANGED working
  /\ UNCHANGED <<input, pc, excluding, tree, found, expired, cut>>

\* What is done with a justification: the first one becomes the root of the tree, a
\* new one a node of it, and an empty or a known one is dropped.
Take(j) ==
  \/ /\ j = {} /\ pc' = (IF found = <<>> THEN "done" ELSE "expand")
     /\ UNCHANGED <<found, hsQueue>>
  \/ /\ j # {} /\ AlreadyFound(j) /\ pc' = "expand"
     /\ UNCHANGED <<found, hsQueue>>
  \/ /\ j # {} /\ ~AlreadyFound(j) /\ found' = Append(found, j)
     /\ IF Len(found) + 1 < max
        THEN /\ hsQueue' = Append(hsQueue, [excluded |-> excluding, justification |-> j])
             /\ pc' = IF found = <<>> THEN "pop" ELSE "expand"
        ELSE UNCHANGED hsQueue /\ pc' = "done"

Found ==
  /\ pc = "delete" /\ Needed
  /\ Take(working)
  /\ UNCHANGED <<input, search, node, rest, explored, expired, cut>>

\* The deadline, or the timer of the call: what is left of the axioms is returned.
GiveUp ==
  /\ HasDeadline
  /\ \/ pc = "first" /\ Several(working)
     \/ pc = "second"
     \/ pc = "delete" /\ ~Needed
  /\ cut' = TRUE /\ Take(working)
  /\ UNCHANGED <<input, search, node, rest, explored, expired>>

-----------------------------------------------------------------------------
Pop ==
  /\ pc = "pop"
  /\ \/ /\ hsQueue = <<>> \/ expired
        /\ pc' = "done" /\ cut' = (cut \/ hsQueue # <<>>)
        /\ UNCHANGED tree
     \/ /\ hsQueue # <<>> /\ ~expired
        /\ hsQueue' = Tail(hsQueue) /\ UNCHANGED cut
        /\ IF Head(hsQueue).excluded \in explored
           THEN UNCHANGED <<pc, node, rest, explored>>
           ELSE /\ node' = Head(hsQueue) /\ rest' = Head(hsQueue).justification
                /\ explored' = explored \cup {Head(hsQueue).excluded}
                /\ pc' = "expand"
  /\ UNCHANGED <<input, search, found, expired>>

\* The children of the node are made: on to the next one.
Expanded ==
  /\ pc = "expand" /\ (rest = {} \/ expired)
  /\ pc' = "pop" /\ cut' = (cut \/ rest # {})
  /\ UNCHANGED <<input, search, tree, found, expired>>

ExpandUntilNeeded ==
  /\ pc = "expand" /\ rest # {} /\ ~expired
  /\ LET a == First(rest)
         excluded == node.excluded \cup {KeyOf[a]}
     IN IF excluded \notin explored /\ Entails(Without(excluded))
        THEN /\ rest' = rest \ {a} /\ working' = Without(excluded) /\ excluding' = excluded
             /\ pc' = "first" /\ UNCHANGED <<kept, cut>>
        ELSE rest' = {} /\ UNCHANGED <<search, pc, cut>>
  /\ UNCHANGED <<input, node, hsQueue, explored, found, expired>>

\* Are there justifications without the next axiom, and what the node leaves out?
Expand ==
  /\ pc = "expand" /\ rest # {} /\ ~expired
  /\ LET a == First(rest)
         excluded == node.excluded \cup {KeyOf[a]}
     IN /\ rest' = rest \ {a}
        /\ \/ /\ excluded \notin explored /\ Entails(Without(excluded))
              /\ working' = Without(excluded) /\ excluding' = excluded
              /\ pc' = "first" /\ UNCHANGED <<kept, cut>>
           \/ /\ excluded \in explored \/ ~Entails(Without(excluded))
              /\ UNCHANGED <<search, pc, cut>>
           \/ /\ HasDeadline /\ excluded \notin explored   \* the timer of the call
              /\ cut' = TRUE /\ UNCHANGED <<search, pc>>
  /\ UNCHANGED <<input, node, hsQueue, explored, found, expired>>

Expire ==
  /\ HasDeadline /\ pc \notin {"begin", "judged", "done"} /\ ~expired /\ expired' = TRUE
  /\ UNCHANGED <<input, pc, search, tree, found, cut>>

Step ==
  \/ Judge \/ ReadCandidates \/ CheckAll \/ CheckFirstHalf \/ CheckSecondHalf \/ Shrunk \/ CheckWithout
  \/ Found \/ GiveUp \/ Pop \/ Expanded \/ Expand

Next == Step \/ Edit \/ Expire

Spec == Init /\ [][Next]_vars

\* The reasoner answers every call or, where there is a timer, is given up.
FairSpec == Spec /\ WF_vars(Step)

-----------------------------------------------------------------------------
Place == {"begin", "judged", "all", "first", "second", "delete", "pop", "expand", "done"}
Node  == [excluded : SUBSET Key, justification : SUBSET Axiom]

TypeOK ==
  /\ method \in Method /\ mus \in Oracles /\ max \in Limits /\ filtered \in BOOLEAN
  /\ candidates \subseteq Axiom /\ confirmed \in BOOLEAN /\ pc \in Place
  /\ working \subseteq Axiom /\ (pc = "delete" => kept \subseteq working)
  /\ excluding \subseteq Key /\ node \in Node /\ rest \subseteq node.justification
  /\ hsQueue \in Seq(Node) /\ explored \subseteq SUBSET Key
  /\ found \in Seq(SUBSET Axiom) /\ Len(found) <= max
  /\ expired \in BOOLEAN /\ cut \in BOOLEAN

\* Whatever is given up, what is returned does have the consequence.  A wrong verdict or an
\* edit after a right one changes nothing of that where the axioms are tested.  Where they are
\* not, the search may run over axioms that do not clash, and drops none ("we already confirmed
\* inconsistency above", index.ts:1703).
Untested == method = "explainInconsistency" /\ ~filtered /\ ~Entails(candidates)
Sound == (Untested /\ ~confirmed) \/ \A i \in DOMAIN found : Entails(found[i])

\* A consequence of no axiom at all is given one by the operations that keep the last.
Proper == {} \in mus => ~KeepsLast

\* Halving and one pass of deletions are enough: unless some call was given up, each
\* justification is a smallest one.
Minimal ==
  ~cut /\ Proper =>
    \A i \in DOMAIN found : \A a \in found[i] : ~Entails(found[i] \ {a})

\* No justification is returned twice, as a set of triples.
Distinct == \A i, j \in DOMAIN found : i # j => JKey(found[i]) # JKey(found[j])

\* When the search ends by itself and some justification does without a triple of the
\* first one, it has found a second one.
FindsAnother ==
  /\ pc = "done" /\ ~cut /\ max > 1 /\ Proper /\ Len(found) > 0
  /\ \E a \in found[1] : Entails(Without({KeyOf[a]}))
  => Len(found) > 1

\* The search ends, however large the tree: the operation does not hold the queue.
Terminates == <>(pc = "done")
=============================================================================
