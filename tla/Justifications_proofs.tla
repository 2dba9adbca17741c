------------------------- MODULE Justifications_proofs -------------------------
(***************************************************************************)
(* The search is right for any number of axioms, any triples shared between *)
(* graphs, any limit and every oracle.                                      *)
(*                                                                         *)
(* The strengthening says what each phase knows.  While axioms are being    *)
(* dropped, those left have the consequence, unless those of the store never *)
(* had it and were never asked about (Reached); of those already            *)
(* tried, none can be spared (Tested), which survives further deletions     *)
(* because an oracle is monotone; and all avoid what the node leaves out    *)
(* (Avoiding).  So what is taken is sound and minimal, and differs from the *)
(* first justification, of which it avoids a triple (Root).  Where the       *)
(* axioms of the store were never asked about as they are searched, the      *)
(* verdict speaks for them if it was right and nothing was edited since      *)
(* (Confirmed).                                                             *)
(***************************************************************************)
EXTENDS Justifications, FiniteSetTheorems, SequenceTheorems, WellFoundedInduction, TLAPS

Searching == pc \in {"first", "second", "delete"}

Open     == pc # "done" => Len(found) < max
Reached  == Searching => Entails(working) \/ (Untested /\ excluding = {})
Tested   == pc = "delete" => \A a \in kept : ~Entails(working \ {a})
Avoiding == Searching => working \subseteq Without(excluding)
Filled   == \A i \in DOMAIN found : found[i] # {}

\* What is found has the consequence, if the axioms searched have it or were asked about.
SoundIfTested == Untested \/ \A i \in DOMAIN found : Entails(found[i])

\* Without a filter a verdict that was right still is when the axioms are searched.
Confirmed ==
  /\ confirmed /\ method = "explainInconsistency" /\ ~filtered
  /\ pc # "begin" /\ (pc = "done" => found # <<>>)
  => Entails(candidates)

\* Nothing of the tree exists before the first justification does.
Untouched ==
  /\ found = <<>> =>
       /\ hsQueue = <<>> /\ explored = {} /\ excluding = {}
       /\ Searching \/ pc \in {"begin", "judged", "all", "done"}
  /\ pc \in {"begin", "judged", "all"} => found = <<>>
  /\ pc = "all" => working = candidates

\* No justification does without the triple of a.
Essential(a) == ~Entails(Without({KeyOf[a]}))

RootNode == [excluded |-> {}, justification |-> found[1]]

\* As long as there is one justification its axioms are excluded in turn.
Root ==
  Len(found) = 1 /\ ~cut /\ Proper /\ max > 1 =>
    \/ pc = "pop" /\ hsQueue = <<RootNode>> /\ explored = {}
    \/ /\ pc = "expand" /\ node = RootNode /\ hsQueue = <<>> /\ explored = {{}}
       /\ \A a \in found[1] \ rest : Essential(a)
    \/ Searching /\ \E a \in found[1] : KeyOf[a] \in excluding
    \/ pc \in {"pop", "done"} /\ hsQueue = <<>> /\ \A a \in found[1] : Essential(a)

IInv ==
  /\ TypeOK /\ Open /\ Reached /\ Tested /\ Avoiding /\ Filled /\ Untouched
  /\ SoundIfTested /\ Confirmed /\ Minimal /\ Distinct /\ Root

-----------------------------------------------------------------------------
\* What the operators give: there is a first axiom in any set of them.
LEMMA FirstIsIn ==
  ASSUME NEW S, S \subseteq Axiom, S # {}
  PROVE  First(S) \in S
<1> DEFINE R == {p \in Nat \X Nat : p[1] < p[2]}
<1>1. S \subseteq Nat
  BY JustificationsAssumption
<1>2. IsWellFoundedOn(R, Nat)
  BY NatLessThanWellFounded DEF OpToRel
<1>3. PICK x \in S : \A y \in S : ~(<<y, x>> \in R)
  BY <1>1, <1>2, WFMin
<1>4. \A y \in S : x <= y
  <2> SUFFICES ASSUME NEW y \in S, y < x PROVE FALSE
    BY <1>1
  <2>1. <<y, x>> \in Nat \X Nat /\ <<y, x>>[1] < <<y, x>>[2]
    BY <1>1
  <2>2. <<y, x>> \in R
    BY <2>1
  <2> QED
    BY <1>3, <2>2
<1> QED
  BY <1>4 DEF First

\* The first half of the axioms is a part of them.
LEMMA HalfIsPart == \A S : FirstHalf(S) \subseteq S
BY DEF FirstHalf

\* A justification that avoids a triple of another one is not the same set of triples.
LEMMA KeysDiffer ==
  ASSUME NEW i \in SUBSET Axiom, NEW j \in SUBSET Axiom, NEW a \in i,
         \A b \in j : KeyOf[b] # KeyOf[a]
  PROVE  JKey(i) # JKey(j)
<1> DEFINE of(s) == {b \in s : KeyOf[b] = KeyOf[a]}
<1>1. KeyOf[a] \in Key /\ IsFiniteSet(of(i))
  BY JustificationsAssumption, FS_Subset
<1>2. of(j) = {} /\ of(i) # {}
  OBVIOUS
<1>3. Cardinality(of(j)) = 0
  BY <1>2, FS_EmptySet
<1>4. Cardinality(of(i)) # 0
  BY <1>1, <1>2, FS_EmptySet
<1>5. JKey(i)[KeyOf[a]] = Cardinality(of(i)) /\ JKey(j)[KeyOf[a]] = Cardinality(of(j))
  BY <1>1 DEF JKey
<1> QED
  BY <1>3, <1>4, <1>5

-----------------------------------------------------------------------------
\* The initial state satisfies the invariant.
LEMMA Starts == Init => IInv
<1> SUFFICES ASSUME Init PROVE IInv
  OBVIOUS
<1>1. found = <<>> /\ Len(found) = 0 /\ DOMAIN found = {} /\ max \in Nat \ {0}
  BY JustificationsAssumption DEF Init
<1>2. TypeOK
  <2>1. hsQueue \in Seq(Node) /\ found \in Seq(SUBSET Axiom)
    BY DEF Init
  <2>2. node \in Node /\ rest \subseteq node.justification
    BY DEF Init, Node, NoNode
  <2>3. method \in Method /\ mus \in Oracles /\ max \in Limits /\ pc \in Place
    BY DEF Init, Place
  <2>6. filtered \in BOOLEAN /\ confirmed \in BOOLEAN /\ candidates \subseteq Axiom
    BY JustificationsAssumption DEF Init
  <2>4. /\ working \subseteq Axiom /\ pc # "delete" /\ excluding \subseteq Key
        /\ explored \subseteq SUBSET Key
    BY DEF Init
  <2>5. expired \in BOOLEAN /\ cut \in BOOLEAN
    BY DEF Init
  <2> QED
    BY <1>1, <2>1, <2>2, <2>3, <2>4, <2>5, <2>6 DEF TypeOK
<1>3. Open /\ Reached /\ Tested /\ Avoiding /\ Filled /\ Untouched
  BY <1>1 DEF Init, Open, Reached, Tested, Avoiding, Filled, Untouched, Searching
<1>4. SoundIfTested /\ Confirmed /\ Minimal /\ Distinct /\ Root
  BY <1>1 DEF Init, SoundIfTested, Confirmed, Minimal, Distinct, Root
<1> QED
  BY <1>2, <1>3, <1>4 DEF IInv

\* What is taken is appended: nothing found before changes.
LEMMA TakeAppends ==
  ASSUME TypeOK, Open, pc # "done", Take(working)
  PROVE  \/ /\ found' = found /\ hsQueue' = hsQueue
            /\ pc' = IF found = <<>> THEN "done" ELSE "expand"
         \/ /\ working # {} /\ ~AlreadyFound(working)
            /\ found' = Append(found, working) /\ found' \in Seq(SUBSET Axiom)
            /\ Len(found') = Len(found) + 1 /\ Len(found') <= max
            /\ \A i \in DOMAIN found : found'[i] = found[i]
            /\ found'[Len(found')] = working
            /\ DOMAIN found' = DOMAIN found \cup {Len(found')}
            /\ \/ pc' = "done" /\ hsQueue' = hsQueue /\ Len(found') = max
               \/ /\ pc' = IF found = <<>> THEN "pop" ELSE "expand"
                  /\ Len(found') < max
                  /\ hsQueue' = Append(hsQueue, [excluded |-> excluding, justification |-> working])
<1>1. working \in SUBSET Axiom /\ found \in Seq(SUBSET Axiom) /\ Len(found) \in Nat
      /\ max \in Nat /\ Len(found) < max
  BY JustificationsAssumption DEF TypeOK, Open
<1>2. /\ Append(found, working) \in Seq(SUBSET Axiom)
      /\ Len(Append(found, working)) = Len(found) + 1
      /\ DOMAIN Append(found, working) = DOMAIN found \cup {Len(found) + 1}
      /\ \A i \in DOMAIN found : Append(found, working)[i] = found[i]
      /\ Append(found, working)[Len(found) + 1] = working
  BY <1>1, AppendProperties
<1>3. CASE working = {}
  BY <1>3 DEF Take
<1>4. CASE working # {} /\ AlreadyFound(working)
  <2>1. found # <<>>
    BY <1>1, <1>4, EmptySeq DEF AlreadyFound
  <2> QED
    BY <1>4, <2>1 DEF Take
<1>5. CASE working # {} /\ ~AlreadyFound(working)
  <2>1. found' = Append(found, working) /\ Len(found') = Len(found) + 1
    BY <1>2, <1>5 DEF Take
  <2>2. \/ pc' = "done" /\ hsQueue' = hsQueue /\ Len(found') = max
        \/ /\ pc' = IF found = <<>> THEN "pop" ELSE "expand"
           /\ Len(found') < max
           /\ hsQueue' = Append(hsQueue, [excluded |-> excluding, justification |-> working])
    BY <1>1, <1>5, <2>1 DEF Take
  <2> QED
    BY <1>1, <1>2, <1>5, <2>1, <2>2
<1> QED
  BY <1>3, <1>4, <1>5

\* The state stays well-formed, and only a search that has ended reaches its limit.
LEMMA TypeStep ==
  ASSUME TypeOK, Open, [Next]_vars
  PROVE  TypeOK' /\ Open'
<1> USE DEF input, call, search, tree
<1>0. /\ max \in Nat \ {0} /\ Len(found) \in Nat
      /\ \A S : FirstHalf(S) \subseteq S
      /\ \A keys : Without(keys) \subseteq Axiom
      /\ Contents \subseteq SUBSET Axiom
  <2>1. max \in Nat \ {0} /\ Contents \subseteq SUBSET Axiom
    BY JustificationsAssumption DEF TypeOK
  <2>2. Len(found) \in Nat /\ candidates \subseteq Axiom
    BY DEF TypeOK
  <2> QED
    BY <2>1, <2>2, HalfIsPart DEF Without
<1>1. CASE CheckAll
  BY <1>0, <1>1 DEF CheckAll, TypeOK, Open, Place
<1>2. CASE CheckFirstHalf
  BY <1>0, <1>2 DEF CheckFirstHalf, Narrow, TypeOK, Open, Place
<1>3. CASE CheckSecondHalf
  BY <1>0, <1>3 DEF CheckSecondHalf, Narrow, StartDeleting, TypeOK, Open, Place
<1>4. CASE Shrunk
  BY <1>0, <1>4 DEF Shrunk, StartDeleting, TypeOK, Open, Place
<1>5. CASE CheckWithout
  <2> DEFINE a == First(working \ kept)
  <2>1. a \in working \ kept
    BY <1>5, FirstIsIn DEF CheckWithout, Needed, TypeOK
  <2> HIDE DEF a
  <2>2. /\ \/ working' = working \ {a} /\ kept' = kept
           \/ working' = working /\ kept' = kept \cup {a}
        /\ pc = "delete" /\ UNCHANGED <<input, pc, excluding, tree, found, expired, cut>>
    BY <1>5 DEF CheckWithout, a
  <2> QED
    BY <2>1, <2>2 DEF TypeOK, Open
<1>6. CASE Found \/ GiveUp
  <2>1. /\ Take(working) /\ pc # "done" /\ cut' \in BOOLEAN
        /\ UNCHANGED <<input, search, node, rest, explored, expired>>
    BY <1>6 DEF Found, GiveUp, TypeOK
  <2>2. /\ found' \in Seq(SUBSET Axiom) /\ Len(found') <= max
        /\ pc' # "done" => Len(found') < max
        /\ pc' \in {"pop", "expand", "done"}
    BY <1>0, <2>1, TakeAppends DEF TypeOK, Open
  <2>3. [excluded |-> excluding, justification |-> working] \in Node
    BY DEF TypeOK, Node
  <2>4. hsQueue' \in Seq(Node)
    <3> DEFINE new == [excluded |-> excluding, justification |-> working]
    <3>1. hsQueue' = hsQueue \/ hsQueue' = Append(hsQueue, new)
      BY <2>1, TakeAppends
    <3>2. hsQueue \in Seq(Node)
      BY DEF TypeOK
    <3> HIDE DEF new
    <3>3. Append(hsQueue, new) \in Seq(Node)
      BY <2>3, <3>2, AppendProperties DEF new
    <3> QED
      BY <3>1, <3>2, <3>3
  <2> QED
    BY <2>1, <2>2, <2>4 DEF TypeOK, Open, Place
<1>7. CASE Pop
  <2>1. CASE hsQueue = <<>> \/ UNCHANGED tree
    BY <1>0, <1>7, <2>1 DEF Pop, TypeOK, Open, Place
  <2>2. CASE hsQueue # <<>> /\ ~UNCHANGED tree
    <3>1. Head(hsQueue) \in Node /\ Tail(hsQueue) \in Seq(Node)
      BY <2>2, HeadTailProperties DEF TypeOK
    <3>2. Head(hsQueue).excluded \in SUBSET Key
      BY <3>1 DEF Node
    <3>3. /\ hsQueue' = Tail(hsQueue) /\ pc = "pop" /\ pc' \in {"pop", "expand"}
          /\ UNCHANGED <<input, search, found, expired, cut>>
      BY <1>7, <2>2 DEF Pop
    <3>4. /\ node' \in Node /\ rest' \subseteq node'.justification
          /\ explored' \subseteq SUBSET Key
      BY <1>7, <2>2, <3>1, <3>2 DEF Pop, TypeOK
    <3> QED
      BY <3>1, <3>3, <3>4 DEF TypeOK, Open, Place
  <2> QED
    BY <2>1, <2>2
<1>8. CASE Expanded
  BY <1>0, <1>8 DEF Expanded, TypeOK, Open, Place
<1>9. CASE Expand
  <2> DEFINE a == First(rest)
             excluded == node.excluded \cup {KeyOf[a]}
  <2>1. a \in Axiom
    BY <1>9, FirstIsIn DEF Expand, TypeOK, Node
  <2>2. excluded \subseteq Key
    <3>1. KeyOf[a] \in Key
      BY <2>1, JustificationsAssumption
    <3>2. node.excluded \subseteq Key
      BY DEF TypeOK, Node
    <3> QED
      BY <3>1, <3>2
  <2> HIDE DEF a, excluded
  <2>3. /\ rest' = rest \ {a}
        /\ \/ /\ working' = Without(excluded) /\ excluding' = excluded
              /\ pc' = "first" /\ UNCHANGED <<kept, cut>>
           \/ UNCHANGED <<search, pc, cut>>
           \/ cut' = TRUE /\ UNCHANGED <<search, pc>>
        /\ pc = "expand"
        /\ UNCHANGED <<input, node, hsQueue, explored, found, expired>>
    BY <1>9 DEF Expand, a, excluded
  <2> QED
    BY <1>0, <2>2, <2>3 DEF TypeOK, Open, Place
<1>10. CASE Expire
  BY <1>10 DEF Expire, TypeOK, Open
<1>11. CASE UNCHANGED vars
  BY <1>11 DEF vars, TypeOK, Open
<1>12. CASE Judge
  BY <1>0, <1>12 DEF Judge, TypeOK, Open, Place
<1>13. CASE Edit
  BY <1>0, <1>13 DEF Edit, TypeOK, Open
<1>14. CASE ReadCandidates
  BY <1>0, <1>14 DEF ReadCandidates, TypeOK, Open, Place
<1> QED
  BY <1>12, <1>13, <1>14, <1>1, <1>2, <1>3, <1>4, <1>5, <1>6, <1>7, <1>8, <1>9, <1>10, <1>11 DEF Next, Step

-----------------------------------------------------------------------------
\* What entails still does when axioms are added.
LEMMA Monotone == \A M, S, T : S \subseteq T /\ Has(M, S) => Has(M, T)
BY DEF Has

\* The call stays as it is.
LEMMA CallStays == [Next]_vars => UNCHANGED call
BY DEF Next, Step, vars, input, Judge, Edit, ReadCandidates, CheckAll, CheckFirstHalf,
       CheckSecondHalf, Shrunk, CheckWithout, Found, GiveUp, Pop, Expanded, Expand, Expire

\* The axioms searched are read once, from the store as the last edit left it.
LEMMA CandidatesStay == [Next]_vars /\ ~ReadCandidates /\ ~Edit => candidates' = candidates
BY DEF Next, Step, vars, input, Judge, CheckAll, CheckFirstHalf, CheckSecondHalf, Shrunk,
       CheckWithout, Found, GiveUp, Pop, Expanded, Expand, Expire

\* Before they are read there is no justification.
LEMMA ReadFirst == Untouched /\ found # <<>> => ~ReadCandidates /\ ~Edit
BY DEF Untouched, ReadCandidates, Edit, Judges

\* Whether the axioms searched were asked about stays so from then on.
LEMMA UntestedStays ==
  ASSUME [Next]_vars, ~ReadCandidates, ~Edit
  PROVE  Untested' <=> Untested
BY CallStays, CandidatesStay DEF call, Untested, Entails

\* Each phase keeps what it knows of the axioms it works on.
LEMMA SearchStep ==
  ASSUME TypeOK, Open, Reached, Tested, Avoiding, Untouched, [Next]_vars
  PROVE  Reached' /\ Tested' /\ Avoiding'
<1> USE DEF search, Searching, Entails, Reached, Tested, Avoiding, Without
<1>0. \A S : FirstHalf(S) \subseteq S
  BY HalfIsPart
<1>r. CASE ReadCandidates
  <2>1. pc' = "first" => method = "explainInconsistency" /\ ~filtered
    BY <1>r DEF ReadCandidates, TestsAll
  <2>2. pc' \in {"all", "first"} /\ working' = candidates' /\ excluding' = excluding
        /\ UNCHANGED call
    BY <1>r DEF ReadCandidates
  <2>3. excluding = {}
    BY <1>r DEF ReadCandidates, Untouched, Judges
  <2>4. pc' = "first" => Entails(candidates)' \/ Untested'
    BY <2>1, <2>2 DEF Untested, call
  <2> QED
    BY <2>2, <2>3, <2>4
<1>e. CASE Edit
  BY <1>e DEF Edit
<1>s. SUFFICES ASSUME ~ReadCandidates, ~Edit PROVE Reached' /\ Tested' /\ Avoiding'
  BY <1>r, <1>e
<1>m. UNCHANGED mus /\ candidates' = candidates /\ (Untested' <=> Untested)
  BY <1>s, CallStays, CandidatesStay, UntestedStays DEF call
<1>1. CASE CheckAll
  <2>1. pc' = "first" => Entails(candidates) /\ pc = "all"
    BY <1>1 DEF CheckAll
  <2>2. pc = "all" => working = candidates /\ excluding = {}
    BY DEF Untouched
  <2>3. pc' # "first" => pc' = "done"
    BY <1>1 DEF CheckAll
  <2>4. working' = working /\ excluding' = excluding
    BY <1>1 DEF CheckAll
  <2> QED
    BY <2>1, <2>2, <2>3, <2>4, <1>m
<1>2. CASE CheckFirstHalf
  BY <1>0, <1>2, <1>m DEF CheckFirstHalf, Narrow
<1>3. CASE CheckSecondHalf
  BY <1>0, <1>3, <1>m DEF CheckSecondHalf, Narrow, StartDeleting
<1>4. CASE Shrunk
  BY <1>4, <1>m DEF Shrunk, StartDeleting
<1>5. CASE CheckWithout
  <2> DEFINE a == First(working \ kept)
  <2> HIDE DEF a
  <2>1. /\ \/ working' = working \ {a} /\ kept' = kept /\ Entails(working \ {a})
           \/ working' = working /\ kept' = kept \cup {a} /\ ~Entails(working \ {a})
        /\ pc = "delete" /\ pc' = pc /\ excluding' = excluding
    BY <1>5 DEF CheckWithout, a
  <2>2. Reached' /\ Avoiding'
    BY <2>1, <1>m
  <2>3. CASE working' = working \ {a} /\ kept' = kept
    <3>1. \A b \in kept : working' \ {b} \subseteq working \ {b}
      BY <2>3
    <3> QED
      BY <2>1, <2>3, <3>1, <1>m, Monotone
  <2>4. CASE working' = working /\ kept' = kept \cup {a} /\ ~Entails(working \ {a})
    BY <2>1, <2>4, <1>m
  <2> QED
    BY <2>1, <2>2, <2>3, <2>4
<1>6. CASE Found \/ GiveUp
  <2>1. Take(working) /\ pc # "done"
    BY <1>6 DEF Found, GiveUp
  <2>2. pc' \in {"pop", "expand", "done"}
    BY <2>1, TakeAppends
  <2> QED
    BY <2>2
<1>7. CASE Pop
  BY <1>7 DEF Pop
<1>8. CASE Expanded
  BY <1>8 DEF Expanded
<1>9. CASE Expand
  BY <1>9, <1>m DEF Expand
<1>10. CASE Expire
  BY <1>10, <1>m DEF Expire
<1>11. CASE UNCHANGED vars
  BY <1>11, <1>m DEF vars
<1>12. CASE Judge
  BY <1>12 DEF Judge
<1> QED
  BY <1>s, <1>12, <1>1, <1>2, <1>3, <1>4, <1>5, <1>6, <1>7, <1>8, <1>9, <1>10, <1>11 DEF Next, Step

-----------------------------------------------------------------------------
\* Only what is taken is found, and what was given up stays so.
LEMMA FoundGrows ==
  ASSUME [Next]_vars, ~(Found \/ GiveUp)
  PROVE  found' = found /\ (cut => cut')
<1>1. found' = found
  BY DEF Next, Step, vars, Judge, Edit, ReadCandidates, CheckAll, CheckFirstHalf,
         CheckSecondHalf, Shrunk, CheckWithout, Pop, Expanded, Expand, Expire
<1>2. cut => cut'
  <2>1. CASE UNCHANGED cut
    BY <2>1
  <2>2. CASE CheckAll \/ Pop \/ Expanded
    BY <2>2 DEF CheckAll, Pop, Expanded
  <2>3. CASE Expand
    BY <2>3 DEF Expand, search
  <2>4. UNCHANGED cut \/ CheckAll \/ Pop \/ Expanded \/ Expand
    BY DEF Next, Step, vars, Judge, Edit, ReadCandidates, CheckFirstHalf, CheckSecondHalf,
           Shrunk, CheckWithout, Expire
  <2> QED
    BY <2>1, <2>2, <2>3, <2>4
<1> QED
  BY <1>1, <1>2

\* What is left when the deletion pass ends is a smallest set.
LEMMA TakenIsMinimal ==
  ASSUME Tested, Found, Proper
  PROVE  \A a \in working : ~Entails(working \ {a})
<1>1. CASE working = kept
  BY <1>1 DEF Found, Tested
<1>2. CASE KeepsLast /\ ~Several(working)
  <2>1. \A a \in working : working \ {a} = {}
    BY <1>2 DEF Several
  <2>2. ~Entails({})
    BY <1>2 DEF Proper, Entails, Has
  <2> QED
    BY <2>1, <2>2
<1> QED
  BY <1>1, <1>2 DEF Found, Needed

\* What has been found keeps its virtues, and what is added has them.
LEMMA FoundStep ==
  ASSUME TypeOK, Open, Reached, Tested, Filled, Untouched, SoundIfTested, Minimal, Distinct,
         [Next]_vars
  PROVE  SoundIfTested' /\ Minimal' /\ Distinct' /\ Filled'
<1> USE DEF Entails
<1>m. mus' = mus /\ (Proper' <=> Proper)
  BY CallStays DEF call, Proper, KeepsLast
<1>1. CASE found' = found /\ (cut => cut')
  <2>1. SoundIfTested'
    <3>1. CASE ReadCandidates \/ Edit
      <4>1. found' = <<>>
        BY <1>1, <3>1, ReadFirst
      <4> QED
        BY <4>1 DEF SoundIfTested
    <3>2. CASE ~ReadCandidates /\ ~Edit
      BY <1>1, <1>m, <3>2, UntestedStays DEF SoundIfTested
    <3> QED
      BY <3>1, <3>2
  <2>2. Minimal' /\ Distinct' /\ Filled'
    BY <1>1, <1>m DEF Minimal, Distinct, Filled
  <2> QED
    BY <2>1, <2>2
<1>2. CASE Found \/ GiveUp
  <2>1. Take(working) /\ pc # "done" /\ (cut => cut') /\ Searching
    BY <1>2 DEF Found, GiveUp, Searching
  <2>2. CASE found' = found
    BY <1>1, <2>1, <2>2
  <2>3. CASE found' # found
    <3> DEFINE n == Len(found')
    <3>1. /\ working # {} /\ ~AlreadyFound(working)
          /\ \A i \in DOMAIN found : found'[i] = found[i]
          /\ found'[n] = working
          /\ DOMAIN found' = DOMAIN found \cup {n}
      BY <2>1, <2>3, TakeAppends
    <3> HIDE DEF n
    <3>2. SoundIfTested' /\ Filled'
      <4>1. ~ReadCandidates /\ ~Edit
        BY <2>1 DEF ReadCandidates, Edit, Searching
      <4>2. Untested' <=> Untested
        BY <4>1, UntestedStays
      <4>3. Entails(working) \/ Untested
        BY <2>1 DEF Reached
      <4> QED
        BY <1>m, <2>1, <3>1, <4>2, <4>3 DEF SoundIfTested, Filled
    <3>3. Distinct'
      BY <3>1 DEF Distinct, AlreadyFound
    <3>4. ASSUME ~cut', Proper PROVE \A i \in DOMAIN found' :
                                       \A a \in found'[i] : ~Entails(found'[i] \ {a})
      <4>1. Found
        BY <1>2, <3>4 DEF GiveUp
      <4>2. \A a \in working : ~Entails(working \ {a})
        BY <3>4, <4>1, TakenIsMinimal
      <4>3. \A i \in DOMAIN found : \A a \in found[i] : ~Entails(found[i] \ {a})
        BY <2>1, <3>4 DEF Minimal
      <4> QED
        BY <3>1, <4>2, <4>3
    <3>5. Minimal'
      BY <1>m, <3>4 DEF Minimal
    <3> QED
      BY <3>2, <3>3, <3>5
  <2> QED
    BY <2>2, <2>3
<1> QED
  BY <1>1, <1>2, FoundGrows

\* No edit and no wrong verdict comes between the question and the search.
LEMMA ConfirmedStep ==
  ASSUME Untouched, Confirmed, [Next]_vars
  PROVE  Confirmed'
<1> USE DEF Confirmed, Entails
<1>m. UNCHANGED <<mus, method, filtered>>
  BY CallStays DEF call
<1>1. CASE Judge
  BY <1>m, <1>1 DEF Judge, Untouched
<1>2. CASE Edit
  BY <1>2 DEF Edit
<1>3. CASE ReadCandidates
  <2>1. method = "explainInconsistency" /\ ~filtered => pc = "judged" /\ candidates' = candidates
    BY <1>3 DEF ReadCandidates, Judges
  <2>2. confirmed' = confirmed
    BY <1>3 DEF ReadCandidates
  <2> QED
    BY <1>m, <2>1, <2>2
<1>4. CASE CheckAll
  BY <1>m, <1>4 DEF CheckAll, Untouched
<1>5. CASE UNCHANGED vars
  BY <1>m, <1>5 DEF vars, input
<1>6. CASE ~(Judge \/ Edit \/ ReadCandidates \/ CheckAll \/ UNCHANGED vars)
  <2>1. UNCHANGED <<candidates, confirmed>> /\ pc \notin {"begin", "done"}
    BY <1>6 DEF Next, Step, input, CheckFirstHalf, CheckSecondHalf, Shrunk, CheckWithout, Found,
                GiveUp, Pop, Expanded, Expand, Expire
  <2> QED
    BY <1>m, <2>1
<1> QED
  BY <1>1, <1>2, <1>3, <1>4, <1>5, <1>6

-----------------------------------------------------------------------------
\* The tree is begun with the first justification.
LEMMA UntouchedStep ==
  ASSUME TypeOK, Open, Untouched, [Next]_vars
  PROVE  Untouched'
<1> USE DEF Untouched, search, tree, Searching, input
<1>j. CASE Judge
  BY <1>j DEF Judge
<1>e. CASE Edit
  BY <1>e DEF Edit
<1>r. CASE ReadCandidates
  BY <1>r DEF ReadCandidates, Judges
<1>1. CASE CheckAll
  BY <1>1 DEF CheckAll
<1>2. CASE CheckFirstHalf \/ CheckSecondHalf \/ Shrunk
  BY <1>2 DEF CheckFirstHalf, CheckSecondHalf, Shrunk, Narrow, StartDeleting
<1>3. CASE CheckWithout
  BY <1>3 DEF CheckWithout
<1>4. CASE Found \/ GiveUp
  <2>1. Take(working) /\ pc # "done" /\ UNCHANGED <<search, node, rest, explored>>
    BY <1>4 DEF Found, GiveUp
  <2>2. pc' \in {"pop", "expand", "done"}
    BY <2>1, TakeAppends
  <2>3. CASE found' = <<>>
    <3>1. found = <<>> /\ hsQueue' = hsQueue /\ pc' = "done"
      BY <2>1, <2>3, TakeAppends, AppendProperties DEF TypeOK
    <3> QED
      BY <2>1, <2>2, <3>1
  <2> QED
    BY <2>2, <2>3
<1>5. CASE Pop
  BY <1>5 DEF Pop
<1>6. CASE Expanded
  BY <1>6 DEF Expanded
<1>7. CASE Expand
  BY <1>7 DEF Expand
<1>8. CASE Expire
  BY <1>8 DEF Expire
<1>9. CASE UNCHANGED vars
  BY <1>9 DEF vars
<1> QED
  BY <1>j, <1>e, <1>r, <1>1, <1>2, <1>3, <1>4, <1>5, <1>6, <1>7, <1>8, <1>9 DEF Next, Step

\* The first search has made the root of the tree, if it may find more.
LEMMA RootIsMade ==
  ASSUME TypeOK, Open, Untouched, Found, found = <<>>, Len(found') = 1, max > 1
  PROVE  pc' = "pop" /\ hsQueue' = <<RootNode'>> /\ explored' = {}
<1>1. Take(working) /\ pc # "done" /\ explored' = explored
  BY DEF Found, tree
<1>2. hsQueue = <<>> /\ explored = {} /\ excluding = {}
  BY DEF Untouched
<1>3. found' # found /\ Len(found') # max
  BY JustificationsAssumption DEF TypeOK
<1>4. /\ pc' = "pop" /\ found'[1] = working
      /\ hsQueue' = Append(hsQueue, [excluded |-> excluding, justification |-> working])
  BY <1>1, <1>3, TakeAppends
<1> QED
  BY <1>1, <1>2, <1>4 DEF RootNode

\* A search without a triple of the only justification finds another one.
LEMMA SecondIsNew ==
  ASSUME TypeOK, Open, Reached, Avoiding, Minimal, ~cut, Proper, Found, Len(found) = 1,
         NEW a \in found[1], KeyOf[a] \in excluding
  PROVE  Len(found') = 2
<1>1. /\ Take(working) /\ pc # "done" /\ Searching /\ 1 \in DOMAIN found
      /\ found[1] \in SUBSET Axiom /\ working \in SUBSET Axiom
  <2>1. found \in Seq(SUBSET Axiom) /\ working \in SUBSET Axiom
    BY DEF TypeOK
  <2>2. 1 \in DOMAIN found /\ found[1] \in SUBSET Axiom
    BY <2>1, ElementOfSeq
  <2> QED
    BY <2>1, <2>2 DEF Found, Searching
<1>2. \A b \in working : KeyOf[b] # KeyOf[a]
  BY <1>1 DEF Avoiding, Without
<1>3. ~AlreadyFound(working)
  <2>1. JKey(found[1]) # JKey(working)
    BY <1>1, <1>2, KeysDiffer
  <2>2. DOMAIN found = {1}
    BY DEF TypeOK
  <2> QED
    BY <2>1, <2>2 DEF AlreadyFound
<1>4. working # {}
  <2>1. ~Entails(found[1] \ {a})
    BY <1>1 DEF Minimal
  <2>2. Entails(working)
    BY <1>1 DEF Reached
  <2> QED
    BY <1>1, <2>1, <2>2, Monotone DEF Entails
<1> QED
  BY <1>1, <1>3, <1>4, TakeAppends DEF Take

\* The children of the root are searched one by one.
LEMMA RootStep ==
  ASSUME IInv, [Next]_vars, TypeOK'
  PROVE  Root'
<1> SUFFICES ASSUME Len(found') = 1, ~cut', Proper, max > 1
             PROVE  Root'
  BY CallStays DEF call, Root, Proper, KeepsLast
<1> USE DEF IInv, search, tree
<1>s. ~ReadCandidates /\ ~Edit
  <2> SUFFICES ASSUME ReadCandidates \/ Edit PROVE FALSE
    OBVIOUS
  <2>1. found' = <<>>
    BY ReadFirst DEF ReadCandidates, Edit
  <2> QED
    BY <2>1
<1>m. mus' = mus /\ max' = max /\ candidates' = candidates
  BY <1>s, CallStays, CandidatesStay DEF call
<1>1. CASE Found \/ GiveUp
  <2>1. Found /\ ~cut
    BY <1>1 DEF Found, GiveUp
  <2>2. CASE found = <<>>
    BY <2>1, <2>2, RootIsMade DEF Root
  <2>3. CASE Len(found) = 1
    <3>1. PICK a \in found[1] : KeyOf[a] \in excluding
      BY <2>1, <2>3 DEF Root, Found
    <3> QED
      BY <2>1, <2>3, <3>1, SecondIsNew
  <2> QED
    <3>1. Take(working) /\ pc # "done"
      BY <2>1 DEF Found
    <3>2. Len(found') = Len(found) \/ Len(found') = Len(found) + 1
      BY <3>1, TakeAppends
    <3> QED
      BY <2>2, <2>3, <3>2, EmptySeq DEF TypeOK
<1>2. CASE ~(Found \/ GiveUp)
  <2>1. found' = found /\ ~cut /\ Len(found) = 1 /\ found # <<>>
    BY <1>2, FoundGrows
  <2>2. RootNode' = RootNode
    BY <2>1 DEF RootNode
  <2> USE DEF Root, Essential, Entails, Searching, Without
  <2>10. CASE Judge
    BY <2>1, <2>10 DEF Judge, Untouched
  <2>3. CASE CheckAll
    BY <2>1, <2>3 DEF CheckAll, Untouched
  <2>4. CASE CheckFirstHalf \/ CheckSecondHalf \/ Shrunk \/ CheckWithout
    <3>1. Searching /\ Searching' /\ excluding' = excluding
      BY <2>4 DEF CheckFirstHalf, CheckSecondHalf, Shrunk, CheckWithout, Narrow, StartDeleting
    <3> QED
      BY <2>1, <3>1
  <2>5. CASE Pop
    <3>1. CASE hsQueue = <<RootNode>> /\ explored = {}
      <4>1. Head(hsQueue) = RootNode /\ Tail(hsQueue) = <<>> /\ hsQueue # <<>>
        BY <3>1
      <4>2. Head(hsQueue).excluded = {} /\ Head(hsQueue).justification = found[1]
        BY <4>1 DEF RootNode
      <4> QED
        BY <2>1, <2>2, <2>5, <3>1, <4>1, <4>2 DEF Pop
    <3>2. CASE hsQueue = <<>> /\ \A a \in found[1] : Essential(a)
      BY <1>m, <2>1, <2>5, <3>2 DEF Pop
    <3> QED
      BY <2>1, <2>5, <3>1, <3>2 DEF Pop
  <2>6. CASE Expanded
    <3>1. rest = {} /\ pc = "expand" /\ pc' = "pop" /\ hsQueue' = hsQueue
      BY <2>6 DEF Expanded
    <3> QED
      BY <1>m, <2>1, <3>1
  <2>7. CASE Expand
    <3> DEFINE a == First(rest)
    <3>1. /\ node = RootNode /\ hsQueue = <<>> /\ explored = {{}}
          /\ \A b \in found[1] \ rest : Essential(b)
      BY <2>1, <2>7 DEF Expand
    <3>2. node.excluded \cup {KeyOf[a]} = {KeyOf[a]} /\ node.justification = found[1]
      BY <3>1 DEF RootNode
    <3>3. a \in found[1]
      BY <2>7, <3>2, FirstIsIn DEF Expand, TypeOK, Node
    <3> HIDE DEF a
    <3>4. /\ rest' = rest \ {a} /\ UNCHANGED <<node, hsQueue, explored>> /\ pc = "expand"
          /\ \/ excluding' = {KeyOf[a]} /\ pc' = "first"
             \/ Essential(a) /\ pc' = pc
      BY <2>7, <3>1, <3>2 DEF Expand, a
    <3> QED
      BY <1>m, <2>1, <2>2, <3>1, <3>3, <3>4
  <2>8. CASE Expire
    BY <1>m, <2>1, <2>2, <2>8 DEF Expire
  <2>9. CASE UNCHANGED vars
    BY <1>m, <2>1, <2>2, <2>9 DEF vars
  <2> QED
    BY <1>2, <1>s, <2>3, <2>4, <2>5, <2>6, <2>7, <2>8, <2>9, <2>10 DEF Next, Step
<1> QED
  BY <1>1, <1>2

-----------------------------------------------------------------------------
\* The strengthening is an invariant of the search.
THEOREM Inductive == Spec => []IInv
<1>1. Init => IInv
  BY Starts
<1>2. IInv /\ [Next]_vars => IInv'
  <2> SUFFICES ASSUME IInv, [Next]_vars PROVE IInv'
    OBVIOUS
  <2>1. TypeOK' /\ Open'
    BY TypeStep DEF IInv
  <2>2. Reached' /\ Tested' /\ Avoiding'
    BY SearchStep DEF IInv
  <2>3. SoundIfTested' /\ Minimal' /\ Distinct' /\ Filled'
    BY FoundStep DEF IInv
  <2>5. Confirmed'
    BY ConfirmedStep DEF IInv
  <2>4. Untouched' /\ Root'
    BY <2>1, UntouchedStep, RootStep DEF IInv
  <2> QED
    BY <2>1, <2>2, <2>3, <2>4, <2>5 DEF IInv
<1> QED
  BY <1>1, <1>2, PTL DEF Spec

\* At every step of findOneJustification and of the tree the state is well-formed.
THEOREM SearchTypeCorrect == Spec => []TypeOK
<1>1. IInv => TypeOK
  BY DEF IInv
<1> QED
  BY <1>1, Inductive, PTL

\* Every justification returned, after a timeout too, has the consequence, unless the axioms
\* searched do not have it and nobody was ever told the truth about them.
THEOREM JustificationsEntail == Spec => []Sound
<1>1. ASSUME IInv PROVE Sound
  <2>1. CASE found = <<>>
    BY <2>1 DEF Sound
  <2>2. CASE found # <<>> /\ confirmed
    <3>1. pc # "begin"
      BY <1>1, <2>2 DEF IInv, Untouched
    <3>2. ~Untested
      BY <1>1, <2>2, <3>1 DEF IInv, Confirmed, Untested
    <3> QED
      BY <1>1, <3>2 DEF IInv, SoundIfTested, Sound
  <2>3. CASE ~confirmed
    BY <1>1, <2>3 DEF IInv, SoundIfTested, Sound
  <2> QED
    BY <2>1, <2>2, <2>3
<1> QED
  BY <1>1, Inductive, PTL

\* Halving and one deletion pass make each justification a smallest one, unless a call
\* was given up.
THEOREM JustificationsAreMinimal == Spec => []Minimal
<1>1. IInv => Minimal
  BY DEF IInv
<1> QED
  BY <1>1, Inductive, PTL

\* The comparison of keys keeps a justification from being returned twice.
THEOREM JustificationsDiffer == Spec => []Distinct
<1>1. IInv => Distinct
  BY DEF IInv
<1> QED
  BY <1>1, Inductive, PTL

\* The tree misses no second justification that does without a triple of the first.
THEOREM SecondIsFound == Spec => []FindsAnother
<1>1. ASSUME IInv PROVE FindsAnother
  <2>1. SUFFICES ASSUME pc = "done", ~cut, max > 1, Proper, Len(found) > 0,
                        \E a \in found[1] : Entails(Without({KeyOf[a]}))
                 PROVE  Len(found) > 1
    BY DEF FindsAnother
  <2>2. Len(found) = 1 => \A a \in found[1] : Essential(a)
    BY <1>1, <2>1 DEF IInv, Root, Searching
  <2>3. Len(found) # 1
    BY <2>1, <2>2, Zenon DEF Essential
  <2>4. Len(found) \in Nat /\ Len(found) > 0
    BY <1>1, <2>1 DEF IInv, TypeOK
  <2>5. \A n \in Nat : n > 0 /\ n # 1 => n > 1
    OBVIOUS
  <2> QED
    BY <2>3, <2>4, <2>5, Zenon
<1> QED
  BY <1>1, Inductive, PTL
=============================================================================
