---------------------------- MODULE Kernel_proofs ----------------------------
(***************************************************************************)
(* Theorems about the kernel's content tracking, for every finite set of   *)
(* triples and every bound, and about the store operations and their       *)
(* caches above it, for every set of stores, graphs and contents and every *)
(* scenario.  First the methods, one lemma each: what a call keeps of the  *)
(* type and of KernelInv, and what it changes.  Every proof about a kernel *)
(* argues from them.                                                       *)
(***************************************************************************)
EXTENDS StoreOps, KernelContent, FiniteSetTheorems, TLAPS

-----------------------------------------------------------------------------
(* Counting differences between digests *)

\* Contents are finite, so their sizes are natural numbers.
LEMMA ContentSize ==
  ASSUME NEW c \in Content
  PROVE  IsFiniteSet(c) /\ Cardinality(c) \in Nat
  BY TripleAssumption, FS_Subset, FS_CardinalityType DEF Content

\* The counts syncBuffers derives are the sizes of the two set differences.
THEOREM CountsAreDifferences ==
  ASSUME NEW old \in Content, NEW new \in Content
  PROVE  /\ Added(old, new) = Cardinality(new \ old)
         /\ Removed(old, new) = Cardinality(old \ new)
<1>1. IsFiniteSet(old) /\ IsFiniteSet(new)
      /\ Cardinality(old) \in Nat /\ Cardinality(new) \in Nat
  BY ContentSize
<1>2. {h \in new : h \notin old} = new \ old
  OBVIOUS
<1>3. Cardinality(new \ old) = Cardinality(new) - Cardinality(new \cap old)
  BY <1>1, FS_Difference
<1>4. Cardinality(old \ new) = Cardinality(old) - Cardinality(old \cap new)
  BY <1>1, FS_Difference
<1>5. new \cap old = old \cap new
  OBVIOUS
<1>6. Cardinality(old \cap new) \in Nat
  <2>1. old \cap new \in Content
    BY DEF Content
  <2>2. QED BY <2>1, ContentSize
<1>7. QED
  BY <1>1, <1>2, <1>3, <1>4, <1>5, <1>6 DEF Added, Removed

\* The kernel calls content changed exactly when there was none or it differs.
THEOREM ChangedIsDifference ==
  ASSUME NEW s \in Kernel, NEW new \in Content
  PROVE  Changed(s, new) <=> ~s.hasContent \/ new # s.digest
<1>1. s.digest \in Content
  BY DEF Kernel
<1>2. /\ Added(s.digest, new) = Cardinality(new \ s.digest)
      /\ Removed(s.digest, new) = Cardinality(s.digest \ new)
  BY <1>1, CountsAreDifferences
<1>3. new \ s.digest \in Content /\ s.digest \ new \in Content
  BY <1>1 DEF Content
<1>4. /\ Cardinality(new \ s.digest) = 0 <=> new \ s.digest = {}
      /\ Cardinality(s.digest \ new) = 0 <=> s.digest \ new = {}
  BY <1>3, ContentSize, FS_EmptySet
<1>5. new = s.digest <=> new \ s.digest = {} /\ s.digest \ new = {}
  OBVIOUS
<1>6. QED
  BY <1>2, <1>4, <1>5 DEF Changed

-----------------------------------------------------------------------------
(* Each method keeps the type of the kernel *)

\* A fresh ontology keeps the kernel well-typed.
LEMMA ImplResetType ==
  ASSUME NEW s \in Kernel
  PROVE  ImplReset(s) \in Kernel
  BY DEF ImplReset, Kernel, Blank, Ontology, Content

\* The types of the fields, for the provers: each fact is a field of Kernel.
LEMMA Fields ==
  ASSUME NEW s \in Kernel
  PROVE  /\ s.digest \in Content /\ s.pend \in Content /\ s.builtDigest \in Content
         /\ s.hasContent \in BOOLEAN /\ s.builtDirty \in BOOLEAN /\ s.builtReal \in BOOLEAN
         /\ s.loadError \in BOOLEAN /\ s.trivial \in BOOLEAN /\ s.hidden \in BOOLEAN
         /\ s.classified \in BOOLEAN /\ s.realized \in BOOLEAN /\ s.ret \in BOOLEAN
         /\ s.hiddenClassified \in BOOLEAN /\ s.hiddenRealized \in BOOLEAN
         /\ s.gen \in Nat /\ s.builtGen \in Nat \cup {None}
         /\ s.rebuilds \in Nat /\ s.callGeneration \in Nat
         /\ s.pipeLevel \in 0..2 /\ s.consistState \in {None, 0, 1}
         /\ s.onto \in Ontology
  BY Zenon DEF Kernel

\* Hiding the results of the loaded ontology keeps the kernel well-typed.
LEMMA HideType ==
  ASSUME NEW s \in Kernel
  PROVE  Hide(s) \in Kernel
<1>1. [s EXCEPT !.hiddenClassified = s.classified, !.hiddenRealized = s.realized,
                !.classified = FALSE, !.realized = FALSE, !.hidden = TRUE] \in Kernel
  BY Fields, Zenon DEF Kernel
<1>2. QED
  BY <1>1 DEF Hide

\* Content that was taken over, before the results are hidden.
Taken(s, new) ==
  [s EXCEPT !.digest = new, !.pend = new, !.hasContent = TRUE,
            !.gen = @ + 1, !.ret = TRUE,
            !.lastAdded = Added(s.digest, new),
            !.lastRemoved = Removed(s.digest, new)]

\* Taking over new content, before the results are hidden, keeps the kernel well-typed.
LEMMA TakenType ==
  ASSUME NEW s \in Kernel, NEW new \in Content
  PROVE  Taken(s, new) \in Kernel
<1>1. Added(s.digest, new) \in Int /\ Removed(s.digest, new) \in Int
  <2>1. s.digest \in Content
    BY Fields
  <2>2. new \ s.digest \in Content /\ s.digest \ new \in Content
    BY <2>1 DEF Content
  <2>3. QED
    BY <2>1, <2>2, CountsAreDifferences, ContentSize
<1>2. s.gen + 1 \in Nat
  BY Fields
<1>3. QED
  BY <1>1, <1>2, Zenon DEF Taken, Kernel

\* syncBuffers keeps the kernel well-typed.
LEMMA SyncType ==
  ASSUME NEW s \in Kernel, NEW new \in Content
  PROVE  Sync(s, new) \in Kernel
<1>1. Hide(Taken(s, new)) \in Kernel
  BY TakenType, HideType
<1>2. [s EXCEPT !.ret = FALSE] \in Kernel
  BY Zenon DEF Kernel
<1>3. QED
  BY <1>1, <1>2, Zenon DEF Sync, Taken

\* Revalidating the loaded ontology keeps the kernel well-typed.
LEMMA ChangedBackType ==
  ASSUME NEW s \in Kernel
  PROVE  ChangedBack(s) \in Kernel
<1>1. [s EXCEPT !.builtGen = s.gen] \in Kernel
  BY Fields, Zenon DEF Kernel
<1>2. QED
  BY <1>1 DEF ChangedBack

\* Restoring hidden results keeps the kernel well-typed.
LEMMA UnhideType ==
  ASSUME NEW s \in Kernel
  PROVE  Unhide(s) \in Kernel
<1>1. [s EXCEPT !.classified = s.hiddenClassified, !.realized = s.hiddenRealized,
                !.hidden = FALSE] \in Kernel
  BY Fields, Zenon DEF Kernel
<1>2. QED
  BY <1>1 DEF Unhide

\* buildOntology keeps the kernel well-typed, loaded or not.
LEMMA BuildOntologyType ==
  ASSUME NEW s \in Kernel, NEW c \in Content, NEW real \in BOOLEAN, NEW loads \in BOOLEAN
  PROVE  BuildOntology(s, c, real, loads) \in Kernel
<1>1. [content |-> c, real |-> real] \in Ontology
  BY DEF Ontology
<1>2. (s.trivial \/ c \in Trivial) \in BOOLEAN
  OBVIOUS
<1>3. [s EXCEPT !.onto = [content |-> c, real |-> real],
                !.trivial = s.trivial \/ c \in Trivial, !.classified = FALSE] \in Kernel
  BY <1>1, <1>2, Zenon DEF Kernel
<1>4. [s EXCEPT !.loadError = TRUE] \in Kernel
  BY Zenon DEF Kernel
<1>5. QED
  BY <1>3, <1>4, Zenon DEF BuildOntology

\* The kernel on which Rebuild calls buildOntology.
Emptied(s) ==
  [(IF s.builtDirty THEN ImplReset(s) ELSE s) EXCEPT
     !.builtDirty = TRUE, !.builtGen = None, !.pipeLevel = 0,
     !.consistState = None, !.hidden = FALSE]

\* Dropping what was built, at the start of a rebuild, keeps the kernel well-typed.
LEMMA EmptiedType ==
  ASSUME NEW s \in Kernel
  PROVE  Emptied(s) \in Kernel
<1>1. ASSUME NEW f \in Kernel
      PROVE  [f EXCEPT !.builtDirty = TRUE, !.builtGen = None, !.pipeLevel = 0,
                       !.consistState = None, !.hidden = FALSE] \in Kernel
  <2>1. 0 \in 0..2 /\ None \in Nat \cup {None} /\ None \in {None, 0, 1}
    OBVIOUS
  <2>2. QED
    BY <2>1, Zenon DEF Kernel
<1>2. QED
  BY <1>1, ImplResetType, Zenon DEF Emptied

Retained(s) == IF s.hasContent THEN s.pend ELSE {}

\* A rebuild keeps the kernel well-typed.
LEMMA RebuildType ==
  ASSUME NEW s \in Kernel, NEW real \in BOOLEAN, NEW loads \in BOOLEAN
  PROVE  Rebuild(s, real, loads) \in Kernel
<1> DEFINE built == BuildOntology(Emptied(s), Retained(s), real, loads)
<1>1. Retained(s) \in Content
  BY Fields DEF Content, Retained
<1>2. built \in Kernel
  BY <1>1, EmptiedType, BuildOntologyType
<1>3. built.rebuilds + 1 \in Nat
  BY <1>2, Fields
<1>4. [built EXCEPT !.builtGen = s.gen, !.builtReal = real,
                    !.builtDigest = s.digest, !.rebuilds = @ + 1] \in Kernel
  BY <1>2, <1>3, Fields, Zenon DEF Kernel
<1>5. QED
  BY <1>2, <1>4, Zenon DEF Rebuild, Emptied, Retained

\* ensureBuilt keeps the kernel well-typed.
LEMMA EnsureBuiltType ==
  ASSUME NEW s \in Kernel, NEW real \in BOOLEAN, NEW loads \in BOOLEAN
  PROVE  EnsureBuilt(s, real, loads) \in Kernel
  BY ChangedBackType, UnhideType, RebuildType DEF EnsureBuilt

-----------------------------------------------------------------------------
(* Each step of a method keeps the inductive invariant *)

\* Revalidating the loaded ontology keeps the flags in agreement.
LEMMA ChangedBackInv ==
  ASSUME NEW s \in Kernel, KernelInv(s)
  PROVE  KernelInv(ChangedBack(s))
<1> DEFINE t == [s EXCEPT !.builtGen = s.gen]
<1>1. CASE s.builtGen >= 0 /\ s.builtGen # s.gen /\ s.digest = s.builtDigest
  <2>1. /\ t.builtGen = s.gen /\ t.gen = s.gen /\ t.pend = s.pend /\ t.digest = s.digest
        /\ t.hasContent = s.hasContent /\ t.onto = s.onto /\ t.builtDigest = s.builtDigest
        /\ t.builtReal = s.builtReal /\ t.builtDirty = s.builtDirty /\ t.loadError = s.loadError
        /\ t.trivial = s.trivial /\ t.pipeLevel = s.pipeLevel /\ t.classified = s.classified
        /\ t.realized = s.realized /\ t.hidden = s.hidden
        /\ t.hiddenClassified = s.hiddenClassified /\ t.hiddenRealized = s.hiddenRealized
        /\ t.consistState = s.consistState
    BY Zenon DEF Kernel
  <2>2. s.gen \in Nat /\ s.builtGen # None /\ s.gen # None
    BY <1>1, Fields DEF None
  <2>3. KernelInv(t)
    BY <1>1, <2>1, <2>2 DEF KernelInv, SyncedInv, BuiltInv, ShownInv, CleanInv, VerdictInv
  <2>4. QED
    BY <1>1, <2>3 DEF ChangedBack
<1>2. CASE ~(s.builtGen >= 0 /\ s.builtGen # s.gen /\ s.digest = s.builtDigest)
  BY <1>2 DEF ChangedBack
<1>3. QED
  BY <1>1, <1>2

\* Restoring hidden results keeps the flags in agreement when the ontology is reusable.
LEMMA UnhideInv ==
  ASSUME NEW s \in Kernel, KernelInv(s), s.builtGen = s.gen
  PROVE  KernelInv(Unhide(s)) /\ ~Unhide(s).hidden
<1> DEFINE t == [s EXCEPT !.classified = s.hiddenClassified, !.realized = s.hiddenRealized,
                          !.hidden = FALSE]
<1>1. CASE s.hidden
  <2>1. /\ t.builtGen = s.builtGen /\ t.gen = s.gen /\ t.pend = s.pend /\ t.digest = s.digest
        /\ t.hasContent = s.hasContent /\ t.onto = s.onto /\ t.builtDigest = s.builtDigest
        /\ t.builtReal = s.builtReal /\ t.builtDirty = s.builtDirty /\ t.loadError = s.loadError
        /\ t.trivial = s.trivial /\ t.pipeLevel = s.pipeLevel
        /\ t.classified = s.hiddenClassified /\ t.realized = s.hiddenRealized
        /\ t.hidden = FALSE /\ t.consistState = s.consistState
    BY Zenon DEF Kernel
  <2>2. KernelInv(t) /\ ~t.hidden
    BY <1>1, <2>1 DEF KernelInv, SyncedInv, BuiltInv, ShownInv, CleanInv, VerdictInv
  <2>3. QED
    BY <1>1, <2>2 DEF Unhide
<1>2. CASE ~s.hidden
  BY <1>2 DEF Unhide
<1>3. QED
  BY <1>1, <1>2

\* What a rebuild does not touch: the synced content and the run counter.
Frame(t, s) ==
  /\ t.digest = s.digest /\ t.pend = s.pend /\ t.hasContent = s.hasContent
  /\ t.gen = s.gen /\ t.callGeneration = s.callGeneration

\* What a rebuild finds once everything built before is dropped.
LEMMA EmptiedFields ==
  ASSUME NEW s \in Kernel, KernelInv(s)
  PROVE  LET t == Emptied(s)
         IN /\ Frame(t, s) /\ t.builtDirty = TRUE /\ t.builtGen = None /\ t.pipeLevel = 0
            /\ t.consistState = None /\ t.hidden = FALSE
            /\ t.classified = FALSE /\ t.realized = FALSE
            /\ t.loadError = FALSE /\ t.trivial = FALSE
<1> DEFINE f == IF s.builtDirty THEN ImplReset(s) ELSE s
<1>1. /\ f \in Kernel /\ Frame(f, s) /\ f.classified = FALSE /\ f.realized = FALSE
      /\ f.loadError = FALSE /\ f.trivial = FALSE
  <2>1. CASE s.builtDirty
    BY <2>1, ImplResetType DEF ImplReset, Kernel, Frame
  <2>2. CASE ~s.builtDirty
    BY <2>2, Fields DEF KernelInv, CleanInv, Frame
  <2>3. QED
    BY <2>1, <2>2
<1>2. ASSUME NEW g \in Kernel
      PROVE  LET t == [g EXCEPT !.builtDirty = TRUE, !.builtGen = None, !.pipeLevel = 0,
                                !.consistState = None, !.hidden = FALSE]
             IN /\ Frame(t, g) /\ t.builtDirty = TRUE /\ t.builtGen = None
                /\ t.pipeLevel = 0 /\ t.consistState = None /\ t.hidden = FALSE
                /\ t.classified = g.classified /\ t.realized = g.realized
                /\ t.loadError = g.loadError /\ t.trivial = g.trivial
  BY Zenon DEF Kernel, Frame
<1>3. QED
  BY <1>1, <1>2 DEF Emptied, Frame

\* A rebuild either fails, showing nothing, or loads exactly the synced content.
LEMMA RebuildInv ==
  ASSUME NEW s \in Kernel, KernelInv(s), NEW real \in BOOLEAN, NEW loads \in BOOLEAN
  PROVE  LET t == Rebuild(s, real, loads)
         IN /\ KernelInv(t) /\ Frame(t, s) /\ ~t.hidden /\ ~t.classified
            /\ t.pipeLevel = 0 /\ t.consistState = None
            /\ t.loadError = ~loads
            /\ t.loadError => t.builtGen = None
            /\ ~t.loadError => t.builtGen = t.gen /\ t.builtReal = real
<1> DEFINE e     == Emptied(s)
           built == BuildOntology(e, Retained(s), real, loads)
           done  == [built EXCEPT !.builtGen = s.gen, !.builtReal = real,
                                  !.builtDigest = s.digest, !.rebuilds = @ + 1]
<1>1. e \in Kernel
  BY EmptiedType
<1>2. Retained(s) = s.digest
  BY Fields DEF Retained, KernelInv, SyncedInv
<1>3. s.digest \in Content /\ s.gen \in Nat
  BY Fields
<1>0. Rebuild(s, real, loads) = IF built.loadError THEN built ELSE done
  BY Zenon DEF Rebuild, Emptied, Retained
<1>9. /\ Frame(e, s) /\ e.builtDirty = TRUE /\ e.builtGen = None /\ e.pipeLevel = 0
      /\ e.consistState = None /\ e.hidden = FALSE
      /\ e.classified = FALSE /\ e.realized = FALSE
      /\ e.loadError = FALSE /\ e.trivial = FALSE
  BY EmptiedFields, Zenon
<1> HIDE DEF e, built, done
<1>4. CASE loads
  <2>1. built = [e EXCEPT !.onto = [content |-> s.digest, real |-> real],
                          !.trivial = e.trivial \/ s.digest \in Trivial,
                          !.classified = FALSE]
    BY <1>2, <1>4 DEF BuildOntology, built
  <2>2. built \in Kernel
    BY <1>1, <1>2, <1>3, BuildOntologyType DEF built
  <2>3. /\ Frame(built, e) /\ built.onto = [content |-> s.digest, real |-> real]
        /\ built.trivial = (e.trivial \/ s.digest \in Trivial)
        /\ built.classified = FALSE /\ built.realized = e.realized
        /\ built.hidden = e.hidden /\ built.loadError = e.loadError
        /\ built.builtDirty = e.builtDirty /\ built.pipeLevel = e.pipeLevel
        /\ built.consistState = e.consistState
    BY <1>1, <2>1, Zenon DEF Kernel, Frame
  <2>4. /\ Frame(done, built) /\ done.onto = built.onto /\ done.trivial = built.trivial
        /\ done.classified = built.classified /\ done.realized = built.realized
        /\ done.hidden = built.hidden /\ done.loadError = built.loadError
        /\ done.builtDirty = built.builtDirty /\ done.pipeLevel = built.pipeLevel
        /\ done.consistState = built.consistState
        /\ done.builtGen = s.gen /\ done.builtReal = real /\ done.builtDigest = s.digest
    BY <2>2, Zenon DEF Kernel, Frame, done
  <2>5. Rebuild(s, real, loads) = done
    BY <1>0, <1>9, <2>3
  <2>6. s.digest \in Trivial => s.digest \in Inconsistent
    BY TrivialAssumption
  <2>7. /\ Frame(done, s) /\ ~done.hidden /\ ~done.classified /\ ~done.realized
        /\ done.pipeLevel = 0 /\ done.consistState = None /\ ~done.loadError
        /\ done.builtDirty /\ done.onto = [content |-> s.digest, real |-> real]
        /\ (done.trivial => s.digest \in Inconsistent)
    BY <1>9, <2>3, <2>4, <2>6 DEF Frame
  <2>8. SyncedInv(done)
    BY <2>7 DEF KernelInv, SyncedInv, Frame
  <2>9. BuiltInv(done)
    BY <1>3, <2>4, <2>7 DEF BuiltInv, Frame
  <2>10. ShownInv(done) /\ CleanInv(done) /\ VerdictInv(done)
    BY <2>7 DEF ShownInv, CleanInv, VerdictInv, None
  <2>11. KernelInv(done)
    BY <2>8, <2>9, <2>10 DEF KernelInv
  <2>12. done.loadError = FALSE /\ done.builtGen = done.gen
    BY <1>9, <2>3, <2>4 DEF Frame
  <2>13. QED
    BY <1>4, <2>4, <2>5, <2>7, <2>11, <2>12
<1>5. CASE ~loads
  <2>1. built = [e EXCEPT !.loadError = TRUE]
    BY <1>5 DEF BuildOntology, built
  <2>2. /\ Frame(built, e) /\ built.loadError = TRUE /\ built.builtGen = e.builtGen
        /\ built.classified = e.classified /\ built.realized = e.realized
        /\ built.hidden = e.hidden /\ built.builtDirty = e.builtDirty
        /\ built.consistState = e.consistState /\ built.pipeLevel = e.pipeLevel
    BY <1>1, <2>1, Zenon DEF Kernel, Frame
  <2>3. Rebuild(s, real, loads) = built
    BY <1>0, <2>2
  <2>4. KernelInv(built)
    BY <1>9, <2>2
    DEF KernelInv, SyncedInv, BuiltInv, ShownInv, CleanInv, VerdictInv, Frame, None
  <2>5. QED
    BY <1>5, <1>9, <2>2, <2>3, <2>4 DEF Frame
<1>6. QED
  BY <1>4, <1>5

\* Revalidating touches no field but the built generation.
LEMMA ChangedBackFrame ==
  ASSUME NEW s \in Kernel
  PROVE  LET t == ChangedBack(s)
         IN Frame(t, s) /\ t.builtReal = s.builtReal /\ t.loadError = s.loadError
  BY Zenon DEF ChangedBack, Kernel, Frame

\* Restoring hidden results touches no field but the result flags.
LEMMA UnhideFrame ==
  ASSUME NEW s \in Kernel
  PROVE  LET t == Unhide(s)
         IN /\ Frame(t, s) /\ t.builtReal = s.builtReal /\ t.loadError = s.loadError
            /\ t.builtGen = s.builtGen
  BY Zenon DEF Unhide, Kernel, Frame

\* ensureBuilt fails with nothing to show, or leaves the ontology of the synced
\* content in the variant asked for, its results unhidden.
LEMMA EnsureBuiltInv ==
  ASSUME NEW s \in Kernel, KernelInv(s), NEW real \in BOOLEAN, NEW loads \in BOOLEAN
  PROVE  LET t == EnsureBuilt(s, real, loads)
         IN /\ KernelInv(t) /\ Frame(t, s) /\ ~t.hidden
            /\ t.loadError => t.builtGen = None /\ ~t.classified
            /\ ~t.loadError => t.builtGen = t.gen /\ t.builtReal = real
<1> DEFINE now == ChangedBack(s)
<1>1. now \in Kernel /\ KernelInv(now) /\ Frame(now, s)
  BY ChangedBackType, ChangedBackInv, ChangedBackFrame
<1>2. CASE Reusable(now, real)
  <2>1. EnsureBuilt(s, real, loads) = Unhide(now)
    BY <1>2 DEF EnsureBuilt
  <2>2. now.builtGen = now.gen /\ now.builtReal = real /\ ~now.loadError
    BY <1>2 DEF Reusable
  <2>3. KernelInv(Unhide(now)) /\ ~Unhide(now).hidden
    BY <1>1, <2>2, UnhideInv
  <2>4. QED
    BY <1>1, <2>1, <2>2, <2>3, UnhideFrame DEF Frame
<1>3. CASE ~Reusable(now, real)
  <2>1. EnsureBuilt(s, real, loads) = Rebuild(now, real, loads)
    BY <1>3 DEF EnsureBuilt
  <2>2. QED
    BY <1>1, <2>1, RebuildInv DEF Frame
<1>4. QED
  BY <1>2, <1>3

\* What no verb touches: the synced content and its generation.
SameContent(t, s) ==
  t.digest = s.digest /\ t.pend = s.pend /\ t.hasContent = s.hasContent /\ t.gen = s.gen

\* What a call leaves alone when all it sets is its return value.
LEMMA AnswerInv ==
  ASSUME NEW s \in Kernel, KernelInv(s), NEW b \in BOOLEAN
  PROVE  LET t == [s EXCEPT !.ret = b]
         IN /\ t \in Kernel /\ KernelInv(t) /\ Frame(t, s) /\ t.ret = b
            /\ t.hidden = s.hidden /\ t.classified = s.classified /\ t.onto = s.onto
            /\ t.builtGen = s.builtGen /\ t.consistState = s.consistState
            /\ t.builtDigest = s.builtDigest
<1> DEFINE t == [s EXCEPT !.ret = b]
<1>1. t \in Kernel
  BY Zenon DEF Kernel
<1>2. /\ t.builtGen = s.builtGen /\ t.gen = s.gen /\ t.pend = s.pend /\ t.digest = s.digest
      /\ t.hasContent = s.hasContent /\ t.onto = s.onto /\ t.builtDigest = s.builtDigest
      /\ t.builtReal = s.builtReal /\ t.builtDirty = s.builtDirty /\ t.loadError = s.loadError
      /\ t.trivial = s.trivial /\ t.pipeLevel = s.pipeLevel /\ t.classified = s.classified
      /\ t.realized = s.realized /\ t.hidden = s.hidden
      /\ t.hiddenClassified = s.hiddenClassified /\ t.hiddenRealized = s.hiddenRealized
      /\ t.consistState = s.consistState /\ t.ret = b
      /\ t.callGeneration = s.callGeneration
  BY Zenon DEF Kernel
<1>3. KernelInv(t)
  BY <1>2 DEF KernelInv, SyncedInv, BuiltInv, ShownInv, CleanInv, VerdictInv
<1>4. QED
  BY <1>1, <1>2, <1>3 DEF Frame

\* The fields that say what is loaded.
SameOntology(t, s) ==
  /\ t.onto = s.onto /\ t.builtDigest = s.builtDigest /\ t.builtReal = s.builtReal
  /\ t.builtDirty = s.builtDirty /\ t.loadError = s.loadError /\ t.trivial = s.trivial
  /\ t.consistState = s.consistState /\ t.hidden = s.hidden
  /\ t.hiddenClassified = s.hiddenClassified /\ t.hiddenRealized = s.hiddenRealized

\* What a pipeline run leaves alone, and how its answer relates to the result flags.
LEMMA RunPipelineFields ==
  ASSUME NEW s \in Kernel, NEW real \in BOOLEAN, NEW outcome \in Outcome
  PROVE  LET p == RunPipeline(s, real, outcome)
         IN /\ p \in Kernel /\ SameContent(p, s) /\ SameOntology(p, s)
            /\ p.builtGen = s.builtGen /\ p.pipeLevel = s.pipeLevel
            /\ p.callGeneration = s.callGeneration + 1
            /\ p.ret = (outcome \in {"classified", "realized"})
            /\ p.ret => p.classified = TRUE /\ (p.realized => real)
            /\ ~p.ret => \/ p.classified = s.classified /\ p.realized = s.realized
                         \/ p.classified = FALSE /\ p.realized = FALSE
<1> DEFINE run == [s EXCEPT !.callGeneration = @ + 1]
<1>1. s.callGeneration + 1 \in Nat
  BY Fields
<1>2. run \in Kernel
  BY <1>1, Zenon DEF Kernel
<1>3. /\ SameContent(run, s) /\ SameOntology(run, s)
      /\ run.builtGen = s.builtGen /\ run.pipeLevel = s.pipeLevel
      /\ run.callGeneration = s.callGeneration + 1
      /\ run.classified = s.classified /\ run.realized = s.realized
  BY Zenon DEF Kernel, SameContent, SameOntology
<1> HIDE DEF run
<1>4. CASE outcome = "stall"
  <2> DEFINE p == [run EXCEPT !.stalled = TRUE, !.ret = FALSE]
  <2>1. RunPipeline(s, real, outcome) = p
    BY <1>4 DEF RunPipeline, run
  <2>2. p \in Kernel
    BY <1>2, Zenon DEF Kernel
  <2>3. /\ SameContent(p, run) /\ SameOntology(p, run)
        /\ p.builtGen = run.builtGen /\ p.pipeLevel = run.pipeLevel
        /\ p.callGeneration = run.callGeneration /\ p.ret = FALSE
        /\ p.classified = run.classified /\ p.realized = run.realized
    BY <1>2, Zenon DEF Kernel, SameContent, SameOntology
  <2> HIDE DEF p
  <2>4. (outcome \in {"classified", "realized"}) = FALSE
    BY <1>4
  <2>5. p.ret = (outcome \in {"classified", "realized"})
    BY <2>3, <2>4
  <2>6. SameContent(p, s) /\ SameOntology(p, s)
    BY <1>3, <2>3 DEF SameContent, SameOntology
  <2>7. QED
    BY <1>3, <2>1, <2>2, <2>3, <2>5, <2>6
<1>5. CASE outcome # "stall"
  <2> DEFINE c == outcome # "incomplete"
             r == real /\ outcome = "realized"
             p == [run EXCEPT !.classified = c, !.realized = r, !.ret = c]
  <2>1. RunPipeline(s, real, outcome) = p
    BY <1>5 DEF RunPipeline, run
  <2>2. c \in BOOLEAN /\ r \in BOOLEAN
    OBVIOUS
  <2>3. c = (outcome \in {"classified", "realized"})
    BY <1>5 DEF Outcome
  <2>4. (r => c) /\ (r => real)
    OBVIOUS
  <2> HIDE DEF c, r
  <2>5. p \in Kernel
    BY <1>2, <2>2, Zenon DEF Kernel
  <2>6. /\ SameContent(p, run) /\ SameOntology(p, run)
        /\ p.builtGen = run.builtGen /\ p.pipeLevel = run.pipeLevel
        /\ p.callGeneration = run.callGeneration /\ p.ret = c
        /\ p.classified = c /\ p.realized = r
    BY <1>2, Zenon DEF Kernel, SameContent, SameOntology
  <2> HIDE DEF p
  <2>7. QED
    BY <1>3, <2>1, <2>2, <2>3, <2>4, <2>5, <2>6 DEF SameContent, SameOntology
<1>6. QED
  BY <1>4, <1>5

\* What a verb of either level leaves behind.
Served(t, s, real) ==
  /\ t \in Kernel /\ KernelInv(t) /\ SameContent(t, s)
  /\ t.hidden = FALSE
  /\ t.callGeneration \in {s.callGeneration, s.callGeneration + 1}
  /\ t.ret => t.classified /\ t.builtGen = t.gen /\ t.builtReal = real
  /\ ~t.ret => t.builtGen = None

\* classification() and realization() keep the flags in agreement.
LEMMA VerbInv ==
  ASSUME NEW s \in Kernel, KernelInv(s), NEW real \in BOOLEAN, NEW loads \in BOOLEAN,
         NEW outcome \in Outcome
  PROVE  Served(Verb(s, real, loads, outcome), s, real)
<1> DEFINE level == IF real THEN 2 ELSE 1
           e == EnsureBuilt(s, real, loads)
           p == RunPipeline(e, real, outcome)
           v == Verb(s, real, loads, outcome)
<1>1. e \in Kernel
  BY EnsureBuiltType
<1>2. /\ KernelInv(e) /\ Frame(e, s) /\ e.hidden = FALSE
      /\ e.loadError => e.builtGen = None /\ ~e.classified
      /\ ~e.loadError => e.builtGen = e.gen /\ e.builtReal = real
  BY <1>1, EnsureBuiltInv, Fields
<1>3. s.callGeneration \in Nat /\ e.pipeLevel \in 0..2 /\ e.gen \in Nat
      /\ e.classified \in BOOLEAN /\ e.hidden \in BOOLEAN /\ e.realized \in BOOLEAN
  BY <1>1, Fields
<1>4. v = CASE e.loadError -> [e EXCEPT !.ret = FALSE]
            [] ~e.loadError /\ e.pipeLevel >= level -> [e EXCEPT !.ret = e.classified]
            [] ~e.loadError /\ e.pipeLevel < level ->
                 IF p.ret THEN [p EXCEPT !.pipeLevel = level]
                          ELSE [p EXCEPT !.builtGen = None]
  BY Zenon DEF Verb
<1> HIDE DEF e, p, v
<1>5. CASE e.loadError
  <2>1. v = [e EXCEPT !.ret = FALSE]
    BY <1>4, <1>5
  <2>2. /\ v \in Kernel /\ KernelInv(v) /\ Frame(v, e) /\ v.ret = FALSE
        /\ v.hidden = e.hidden /\ v.builtGen = e.builtGen
    BY <1>1, <1>2, <2>1, AnswerInv
  <2>3. QED
    BY <1>2, <1>5, <2>2 DEF Served, SameContent, Frame, v
<1>6. ASSUME ~e.loadError
      PROVE  e.pipeLevel \in {0, level} /\ (e.pipeLevel = 0 <=> ~e.classified)
  BY <1>2, <1>3, <1>6 DEF KernelInv, BuiltInv, None
<1>7. CASE ~e.loadError /\ e.pipeLevel >= level
  <2>1. v = [e EXCEPT !.ret = e.classified]
    BY <1>3, <1>4, <1>7
  <2>2. e.classified = TRUE
    BY <1>3, <1>6, <1>7
  <2>3. QED
    <3>1. v = [e EXCEPT !.ret = TRUE]
      BY <2>1, <2>2
    <3>2. /\ v \in Kernel /\ KernelInv(v) /\ Frame(v, e) /\ v.ret = TRUE
          /\ v.hidden = e.hidden /\ v.classified = e.classified
          /\ v.builtGen = e.builtGen
      BY <1>1, <1>2, <3>1, AnswerInv
    <3>3. v.builtReal = e.builtReal
      BY <1>1, <3>1, Zenon DEF Kernel
    <3>4. QED
      BY <1>2, <1>3, <1>7, <2>2, <3>2, <3>3 DEF Served, SameContent, Frame, v
<1>8. CASE ~e.loadError /\ e.pipeLevel < level
  <2>1. /\ p \in Kernel /\ SameContent(p, e) /\ SameOntology(p, e)
        /\ p.builtGen = e.builtGen /\ p.pipeLevel = e.pipeLevel
        /\ p.callGeneration = e.callGeneration + 1
        /\ p.ret => p.classified = TRUE /\ (p.realized => real)
        /\ ~p.ret => \/ p.classified = e.classified /\ p.realized = e.realized
                     \/ p.classified = FALSE /\ p.realized = FALSE
    BY <1>1, RunPipelineFields DEF p
  <2>2. ~e.classified /\ ~e.realized /\ e.pipeLevel = 0
    BY <1>2, <1>3, <1>6, <1>8 DEF KernelInv, ShownInv
  <2>3. CASE p.ret
    <3> DEFINE t == [p EXCEPT !.pipeLevel = level]
    <3>1. v = t
      BY <1>3, <1>4, <1>8, <2>3
    <3>2. t \in Kernel
      <4>1. level \in 0..2
        OBVIOUS
      <4>2. QED BY <2>1, <4>1, Zenon DEF Kernel
    <3>3. /\ SameContent(t, p) /\ SameOntology(t, p) /\ t.builtGen = p.builtGen
          /\ t.pipeLevel = level /\ t.callGeneration = p.callGeneration /\ t.ret = p.ret
          /\ t.classified = p.classified /\ t.realized = p.realized
      BY <2>1, Zenon DEF Kernel, SameContent, SameOntology
    <3> HIDE DEF t
    <3>4. SyncedInv(t) /\ CleanInv(t) /\ VerdictInv(t)
      BY <1>2, <1>3, <1>8, <2>1, <3>3
      DEF KernelInv, SyncedInv, BuiltInv, CleanInv, VerdictInv, SameContent, SameOntology, None
    <3>5. BuiltInv(t)
      BY <1>2, <1>3, <1>8, <2>1, <2>3, <3>3
      DEF KernelInv, BuiltInv, SameContent, SameOntology, None
    <3>6. ShownInv(t)
      BY <1>2, <1>3, <1>8, <2>1, <2>3, <3>3
      DEF KernelInv, ShownInv, SameContent, SameOntology, None
    <3>7. QED
      BY <1>2, <1>3, <1>8, <2>1, <2>3, <3>1, <3>2, <3>3, <3>4, <3>5, <3>6
      DEF Served, KernelInv, SameContent, SameOntology, Frame, v
  <2>4. CASE ~p.ret
    <3> DEFINE t == [p EXCEPT !.builtGen = None]
    <3>1. v = t
      BY <1>3, <1>4, <1>8, <2>4
    <3>2. t \in Kernel
      BY <2>1, Zenon DEF Kernel
    <3>3. /\ SameContent(t, p) /\ SameOntology(t, p) /\ t.builtGen = None
          /\ t.callGeneration = p.callGeneration /\ t.ret = p.ret
          /\ t.classified = p.classified /\ t.realized = p.realized
      BY <2>1, Zenon DEF Kernel, SameContent, SameOntology
    <3> HIDE DEF t
    <3>4. KernelInv(t)
      BY <1>2, <1>3, <1>8, <2>1, <2>2, <2>4, <3>3
      DEF KernelInv, SyncedInv, BuiltInv, ShownInv, CleanInv, VerdictInv, SameContent, SameOntology
    <3>5. QED
      BY <1>2, <1>3, <1>8, <2>1, <2>4, <3>1, <3>2, <3>3, <3>4
      DEF Served, SameContent, SameOntology, Frame, v
  <2>5. QED
    BY <2>3, <2>4
<1>9. QED
  BY <1>3, <1>5, <1>7, <1>8

\* Recording a verdict: the one of the content built last.
LEMMA RecordInv ==
  ASSUME NEW s \in Kernel, KernelInv(s), NEW v \in {0, 1}, NEW b \in BOOLEAN,
         v = 1 => s.builtDigest \notin Inconsistent,
         v = 0 => s.builtDigest \in Inconsistent
  PROVE  LET t == [s EXCEPT !.consistState = v, !.ret = b]
         IN /\ t \in Kernel /\ KernelInv(t) /\ Frame(t, s) /\ t.ret = b /\ t.consistState = v
            /\ t.hidden = s.hidden /\ t.classified = s.classified
            /\ t.builtGen = s.builtGen /\ t.builtReal = s.builtReal
<1> DEFINE t == [s EXCEPT !.consistState = v, !.ret = b]
<1>1. t \in Kernel
  <2>1. v \in {None, 0, 1}
    OBVIOUS
  <2>2. QED BY <2>1, Zenon DEF Kernel
<1>2. /\ t.builtGen = s.builtGen /\ t.gen = s.gen /\ t.pend = s.pend /\ t.digest = s.digest
      /\ t.hasContent = s.hasContent /\ t.onto = s.onto /\ t.builtDigest = s.builtDigest
      /\ t.builtReal = s.builtReal /\ t.builtDirty = s.builtDirty /\ t.loadError = s.loadError
      /\ t.trivial = s.trivial /\ t.pipeLevel = s.pipeLevel /\ t.classified = s.classified
      /\ t.realized = s.realized /\ t.hidden = s.hidden
      /\ t.hiddenClassified = s.hiddenClassified /\ t.hiddenRealized = s.hiddenRealized
      /\ t.consistState = v /\ t.ret = b /\ t.callGeneration = s.callGeneration
  BY Zenon DEF Kernel
<1> HIDE DEF t
<1>3. KernelInv(t)
  BY <1>2 DEF KernelInv, SyncedInv, BuiltInv, ShownInv, CleanInv, VerdictInv
<1>4. QED
  BY <1>1, <1>2, <1>3 DEF Frame, t

\* Memoising a verdict keeps the flags in agreement.
LEMMA JudgeInv ==
  ASSUME NEW s \in Kernel, KernelInv(s), s.builtGen = s.gen
  PROVE  LET t == Judge(s)
         IN /\ t \in Kernel /\ KernelInv(t) /\ Frame(t, s)
            /\ t.ret => s.digest \notin Inconsistent
            /\ t.consistState # None
            /\ t.hidden = s.hidden /\ t.classified = s.classified
            /\ t.builtGen = s.builtGen /\ t.builtReal = s.builtReal
<1>1. s.onto.content = s.builtDigest /\ s.builtDigest = s.digest
  BY Fields DEF KernelInv, BuiltInv, None
<1>2. 0 \in {0, 1} /\ 1 \in {0, 1} /\ 0 # 1 /\ 0 # None /\ 1 # None
      /\ FALSE \in BOOLEAN /\ TRUE \in BOOLEAN
  BY DEF None
<1>3. CASE s.onto.content \notin Inconsistent
  <2>1. Judge(s) = [s EXCEPT !.consistState = 1, !.ret = TRUE]
    BY <1>3, Zenon DEF Judge
  <2> DEFINE t == [s EXCEPT !.consistState = 1, !.ret = TRUE]
  <2>2. /\ t \in Kernel /\ KernelInv(t) /\ Frame(t, s) /\ t.ret = TRUE /\ t.consistState = 1
        /\ t.hidden = s.hidden /\ t.classified = s.classified
        /\ t.builtGen = s.builtGen /\ t.builtReal = s.builtReal
    <3>1. s.builtDigest \notin Inconsistent
      BY <1>1, <1>3
    <3>2. QED
      BY <1>2, <3>1, RecordInv, Zenon
  <2> HIDE DEF t
  <2>3. QED
    BY <1>1, <1>2, <1>3, <2>1, <2>2 DEF t
<1>4. CASE s.onto.content \in Inconsistent
  <2>1. Judge(s) = [s EXCEPT !.consistState = 0, !.ret = FALSE]
    BY <1>4, Zenon DEF Judge
  <2> DEFINE t == [s EXCEPT !.consistState = 0, !.ret = FALSE]
  <2>2. /\ t \in Kernel /\ KernelInv(t) /\ Frame(t, s) /\ t.ret = FALSE /\ t.consistState = 0
        /\ t.hidden = s.hidden /\ t.classified = s.classified
        /\ t.builtGen = s.builtGen /\ t.builtReal = s.builtReal
    <3>1. s.builtDigest \in Inconsistent
      BY <1>1, <1>4
    <3>2. QED
      BY <1>2, <3>1, RecordInv, Zenon
  <2> HIDE DEF t
  <2>3. QED
    BY <1>1, <1>2, <1>4, <2>1, <2>2 DEF t
<1>5. QED
  BY <1>3, <1>4

\* consistency() leaves results of the classification variant only, a TRUE only for
\* content with a model, and no ontology that counts as built after a failure.
LEMMA ConsistencyInv ==
  ASSUME NEW s \in Kernel, KernelInv(s), NEW loads \in BOOLEAN, NEW outcome \in Outcome
  PROVE  LET t == Consistency(s, loads, outcome)
         IN /\ t \in Kernel /\ KernelInv(t) /\ SameContent(t, s) /\ t.hidden = FALSE
            /\ t.callGeneration \in {s.callGeneration, s.callGeneration + 1}
            /\ t.classified => t.builtGen = t.gen /\ t.builtReal = FALSE
            /\ t.ret => t.digest \notin Inconsistent
            /\ ~t.ret /\ t.consistState = None => t.builtGen = None
<1> DEFINE e == EnsureBuilt(s, FALSE, loads)
           c == Classification(e, loads, outcome)
           t == Consistency(s, loads, outcome)
<1>1. e \in Kernel
  BY EnsureBuiltType
<1>2. /\ KernelInv(e) /\ Frame(e, s) /\ e.hidden = FALSE
      /\ e.loadError => e.builtGen = None /\ ~e.classified
      /\ ~e.loadError => e.builtGen = e.gen /\ e.builtReal = FALSE
  <2>1. e.hidden \in BOOLEAN
    BY <1>1, Fields
  <2>2. /\ KernelInv(e) /\ Frame(e, s) /\ ~e.hidden
        /\ e.loadError => e.builtGen = None /\ ~e.classified
        /\ ~e.loadError => e.builtGen = e.gen /\ e.builtReal = FALSE
    <3>1. FALSE \in BOOLEAN
      OBVIOUS
    <3>2. QED BY <3>1, EnsureBuiltInv, Zenon
  <2>3. QED BY <2>1, <2>2
<1>3. Served(c, e, FALSE)
  BY <1>1, <1>2, VerbInv DEF Classification
<1>4. s.callGeneration \in Nat /\ e.gen \in Nat /\ e.classified \in BOOLEAN
      /\ e.consistState \in {None, 0, 1}
  BY <1>1, Fields
<1>5. t = CASE e.loadError -> [e EXCEPT !.ret = FALSE]
            [] ~e.loadError /\ e.consistState # None -> [e EXCEPT !.ret = e.consistState # 0]
            [] ~e.loadError /\ e.consistState = None /\ e.trivial ->
                 [e EXCEPT !.consistState = 0, !.ret = FALSE]
            [] ~e.loadError /\ e.consistState = None /\ ~e.trivial ->
                 IF e.pipeLevel = 0
                 THEN IF c.ret THEN Judge(c) ELSE c
                 ELSE Judge(e)
  BY Zenon DEF Consistency
<1>6. ASSUME ~e.loadError
      PROVE  /\ e.builtGen # None /\ e.builtDigest = e.digest
             /\ e.trivial => e.builtDigest \in Inconsistent
  <2>1. e.builtGen # None /\ e.builtGen = e.gen
    <3>1. e.builtGen = e.gen
      BY <1>2, <1>6
    <3> HIDE DEF e
    <3>2. QED
      BY <1>4, <3>1 DEF None
  <2>2. BuiltInv(e)
    BY <1>2 DEF KernelInv
  <2> HIDE DEF e
  <2>3. QED
    BY <2>1, <2>2 DEF BuiltInv
<1> HIDE DEF e, c, t
<1>7. CASE e.loadError
  <2>1. t = [e EXCEPT !.ret = FALSE]
    BY <1>5, <1>7
  <2>2. /\ t \in Kernel /\ KernelInv(t) /\ Frame(t, e) /\ t.ret = FALSE
        /\ t.hidden = e.hidden /\ t.builtGen = e.builtGen /\ t.classified = e.classified
    BY <1>1, <1>2, <2>1, AnswerInv
  <2>3. QED
    BY <1>2, <1>7, <2>2 DEF SameContent, Frame, t
<1>8. CASE ~e.loadError /\ e.consistState # None
  <2> DEFINE b == e.consistState # 0
  <2>1. t = [e EXCEPT !.ret = b] /\ b \in BOOLEAN
    BY <1>5, <1>8
  <2>2. b => e.digest \notin Inconsistent
    BY <1>2, <1>4, <1>6, <1>8 DEF KernelInv, VerdictInv
  <2> HIDE DEF b
  <2>3. /\ t \in Kernel /\ KernelInv(t) /\ Frame(t, e) /\ t.ret = b
        /\ t.hidden = e.hidden /\ t.builtGen = e.builtGen /\ t.classified = e.classified
        /\ t.consistState = e.consistState
    BY <1>1, <1>2, <2>1, AnswerInv
  <2>4. t.builtReal = e.builtReal
    BY <1>1, <2>1, Zenon DEF Kernel
  <2>5. QED
    BY <1>2, <1>4, <1>8, <2>2, <2>3, <2>4 DEF SameContent, Frame, t
<1>9. CASE ~e.loadError /\ e.consistState = None /\ e.trivial
  <2>1. t = [e EXCEPT !.consistState = 0, !.ret = FALSE]
    BY <1>5, <1>9
  <2>2. /\ t \in Kernel /\ KernelInv(t) /\ Frame(t, e) /\ t.ret = FALSE
        /\ t.hidden = e.hidden /\ t.builtGen = e.builtGen /\ t.classified = e.classified
        /\ t.consistState = 0 /\ t.builtReal = e.builtReal
    <3>1. 0 \in {0, 1} /\ 0 # 1 /\ FALSE \in BOOLEAN
      OBVIOUS
    <3>2. e.builtDigest \in Inconsistent
      BY <1>6, <1>9
    <3>3. QED
      BY <1>1, <1>2, <2>1, <3>1, <3>2, RecordInv, Zenon
  <2>3. QED
    BY <1>2, <1>4, <1>9, <2>2 DEF SameContent, Frame, t, None
<1>10. CASE ~e.loadError /\ e.consistState = None /\ ~e.trivial
  <2>1. CASE e.pipeLevel = 0 /\ c.ret
    <3>1. t = Judge(c)
      BY <1>5, <1>10, <2>1
    <3>2. c.builtGen = c.gen /\ c.builtReal = FALSE /\ c \in Kernel /\ KernelInv(c)
      BY <1>3, <2>1 DEF Served
    <3>3. /\ t \in Kernel /\ KernelInv(t) /\ Frame(t, c)
          /\ t.ret => c.digest \notin Inconsistent
          /\ t.consistState # None
          /\ t.hidden = c.hidden /\ t.classified = c.classified
          /\ t.builtGen = c.builtGen /\ t.builtReal = c.builtReal
      BY <3>1, <3>2, JudgeInv
    <3>4. QED
      BY <1>2, <1>3, <1>4, <3>2, <3>3 DEF Served, SameContent, Frame, t
  <2>2. CASE e.pipeLevel = 0 /\ ~c.ret
    <3>1. t = c
      BY <1>5, <1>10, <2>2
    <3>2. ~c.classified
      BY <1>3, <2>2, Fields DEF Served, KernelInv, ShownInv, None
    <3>3. QED
      BY <1>2, <1>3, <1>4, <2>2, <3>1, <3>2 DEF Served, SameContent, Frame, t
  <2>3. CASE e.pipeLevel # 0
    <3>1. t = Judge(e)
      BY <1>5, <1>10, <2>3
    <3>2. /\ t \in Kernel /\ KernelInv(t) /\ Frame(t, e)
          /\ t.ret => e.digest \notin Inconsistent
          /\ t.consistState # None
          /\ t.hidden = e.hidden /\ t.classified = e.classified
          /\ t.builtGen = e.builtGen /\ t.builtReal = e.builtReal
      BY <1>1, <1>2, <1>10, <3>1, JudgeInv
    <3>3. QED
      BY <1>2, <1>4, <1>10, <3>2 DEF SameContent, Frame, t
  <2>4. QED
    BY <2>1, <2>2, <2>3
<1>11. QED
  BY <1>7, <1>8, <1>9, <1>10

\* Taking over new content hides every result and keeps what is loaded.
LEMMA SyncInv ==
  ASSUME NEW s \in Kernel, KernelInv(s), NEW new \in Content
  PROVE  LET t == Sync(s, new)
         IN /\ KernelInv(t) /\ t.callGeneration = s.callGeneration
            /\ Changed(s, new) => /\ t.digest = new /\ t.pend = new /\ t.hasContent = TRUE
                                  /\ t.gen = s.gen + 1 /\ t.classified = FALSE
                                  /\ t.ret = TRUE /\ t.lastAdded = Added(s.digest, new)
                                  /\ t.lastRemoved = Removed(s.digest, new)
            /\ ~Changed(s, new) => SameContent(t, s) /\ t.ret = FALSE
                                   /\ t.classified = s.classified /\ t.onto = s.onto
<1> DEFINE t == Taken(s, new)
           h == Hide(t)
<1>1. t \in Kernel
  BY TakenType
<1>2. /\ SameOntology(t, s) /\ t.builtGen = s.builtGen /\ t.pipeLevel = s.pipeLevel
      /\ t.classified = s.classified /\ t.realized = s.realized
      /\ t.callGeneration = s.callGeneration
      /\ t.digest = new /\ t.pend = new /\ t.hasContent = TRUE /\ t.gen = s.gen + 1
      /\ t.ret = TRUE /\ t.lastAdded = Added(s.digest, new)
      /\ t.lastRemoved = Removed(s.digest, new)
  BY Zenon DEF Kernel, Taken, SameOntology
<1>3. /\ s.gen \in Nat /\ s.builtGen \in Nat \cup {None} /\ s.classified \in BOOLEAN
      /\ s.realized \in BOOLEAN
  BY Fields
<1>4. CASE ~Changed(s, new)
  <2>1. Sync(s, new) = [s EXCEPT !.ret = FALSE]
    BY <1>4 DEF Sync
  <2>2. FALSE \in BOOLEAN
    OBVIOUS
  <2> DEFINE a == [s EXCEPT !.ret = FALSE]
  <2>3. /\ KernelInv(a) /\ Frame(a, s) /\ a.ret = FALSE
        /\ a.classified = s.classified /\ a.onto = s.onto
    BY <2>2, AnswerInv, Zenon
  <2> HIDE DEF a
  <2>4. QED
    BY <1>4, <2>1, <2>3 DEF Frame, SameContent, a
<1>5. CASE Changed(s, new)
  <2>1. Sync(s, new) = h
    BY <1>5, Zenon DEF Sync, Taken
  <2> HIDE DEF t
  <2>2. CASE ~t.hidden /\ t.builtGen >= 0
    <3> DEFINE g == [t EXCEPT !.hiddenClassified = t.classified,
                              !.hiddenRealized = t.realized,
                              !.classified = FALSE, !.realized = FALSE, !.hidden = TRUE]
    <3>1. h = g
      BY <2>2 DEF Hide
    <3>2. /\ SameContent(g, t) /\ g.onto = t.onto /\ g.builtDigest = t.builtDigest
          /\ g.builtReal = t.builtReal /\ g.builtDirty = t.builtDirty
          /\ g.loadError = t.loadError /\ g.trivial = t.trivial
          /\ g.consistState = t.consistState /\ g.hidden = TRUE
          /\ g.hiddenClassified = t.classified /\ g.hiddenRealized = t.realized
          /\ g.classified = FALSE /\ g.realized = FALSE
          /\ g.builtGen = t.builtGen /\ g.pipeLevel = t.pipeLevel
          /\ g.callGeneration = t.callGeneration /\ g.ret = t.ret
          /\ g.lastAdded = t.lastAdded /\ g.lastRemoved = t.lastRemoved
      BY <1>1, Zenon DEF Kernel, SameContent
    <3> HIDE DEF g
    <3>3. t.builtGen # None /\ ~s.hidden
      BY <1>2, <1>3, <2>2 DEF None, SameOntology
    <3>4. SyncedInv(g) /\ CleanInv(g) /\ VerdictInv(g) /\ ShownInv(g)
      BY <1>2, <3>2, <3>3
      DEF KernelInv, SyncedInv, CleanInv, VerdictInv, ShownInv, SameContent, SameOntology
    <3>5. BuiltInv(g)
      BY <1>2, <1>3, <3>2, <3>3
      DEF KernelInv, BuiltInv, SameContent, SameOntology, None
    <3>6. QED
      BY <1>2, <1>5, <2>1, <3>1, <3>2, <3>4, <3>5 DEF KernelInv, SameContent
  <2>3. CASE ~(~t.hidden /\ t.builtGen >= 0)
    <3>1. h = t
      BY <2>3 DEF Hide
    <3>2. s.classified = FALSE
      BY <1>2, <1>3, <2>3 DEF KernelInv, ShownInv, SameOntology
    <3>3. SyncedInv(t) /\ CleanInv(t) /\ VerdictInv(t) /\ ShownInv(t)
      BY <1>2, <1>3, <3>2
      DEF KernelInv, SyncedInv, CleanInv, VerdictInv, ShownInv, SameOntology
    <3>4. BuiltInv(t)
      BY <1>2, <1>3, <2>3
      DEF KernelInv, BuiltInv, SameOntology, None
    <3>5. QED
      BY <1>2, <1>5, <2>1, <3>1, <3>2, <3>3, <3>4 DEF KernelInv
  <2>4. QED
    BY <2>2, <2>3
<1>6. QED
  BY <1>4, <1>5

\* Writing a result buffer keeps the flags in agreement.
LEMMA BuildBufferInv ==
  ASSUME NEW s \in Kernel, KernelInv(s)
  PROVE  LET t == BuildBuffer(s)
         IN /\ t \in Kernel /\ KernelInv(t) /\ SameContent(t, s)
            /\ t.callGeneration = s.callGeneration
            /\ t.classified = s.classified /\ t.onto = s.onto
<1>1. CASE s.classified
  <2> DEFINE t == [s EXCEPT !.buffer = s.onto, !.ret = TRUE]
  <2>1. BuildBuffer(s) = t
    BY <1>1 DEF BuildBuffer
  <2>2. t \in Kernel
    <3>1. s.onto \in {Blank} \cup Ontology
      BY Fields
    <3>2. QED BY <3>1, Zenon DEF Kernel
  <2>3. /\ SameContent(t, s) /\ SameOntology(t, s) /\ t.builtGen = s.builtGen
        /\ t.pipeLevel = s.pipeLevel /\ t.callGeneration = s.callGeneration
        /\ t.classified = s.classified /\ t.realized = s.realized
    BY Zenon DEF Kernel, SameContent, SameOntology
  <2> HIDE DEF t
  <2>4. KernelInv(t)
    BY <2>3
    DEF KernelInv, SyncedInv, BuiltInv, ShownInv, CleanInv, VerdictInv, SameContent, SameOntology
  <2>5. QED
    BY <2>1, <2>2, <2>3, <2>4 DEF SameOntology
<1>2. CASE ~s.classified
  <2>1. BuildBuffer(s) = [s EXCEPT !.ret = FALSE]
    BY <1>2 DEF BuildBuffer
  <2>2. FALSE \in BOOLEAN
    OBVIOUS
  <2> DEFINE a == [s EXCEPT !.ret = FALSE]
  <2>3. /\ a \in Kernel /\ KernelInv(a) /\ Frame(a, s)
        /\ a.classified = s.classified /\ a.onto = s.onto
    BY <2>2, AnswerInv, Zenon
  <2> HIDE DEF a
  <2>4. QED
    BY <2>1, <2>3 DEF Frame, SameContent, a
<1>3. QED
  BY <1>1, <1>2

\* reset() leaves the flags in agreement.
LEMMA ResetInv ==
  ASSUME NEW s \in Kernel
  PROVE  LET t == Reset(s)
         IN /\ t \in Kernel /\ KernelInv(t)
            /\ t.digest = {} /\ t.pend = {} /\ t.hasContent = FALSE /\ t.gen = s.gen + 1
            /\ t.classified = FALSE /\ t.callGeneration = s.callGeneration
<1> DEFINE i == ImplReset(s)
           t == [i EXCEPT !.digest = {}, !.builtDigest = {}, !.pend = {}, !.hasContent = FALSE,
                          !.gen = @ + 1, !.builtGen = None, !.builtDirty = FALSE,
                          !.pipeLevel = 0, !.consistState = None, !.hidden = FALSE,
                          !.lastAdded = 0, !.lastRemoved = 0]
<1>1. Reset(s) = t
  BY Zenon DEF Reset
<1>2. i \in Kernel
  BY ImplResetType
<1>3. /\ i.gen = s.gen /\ i.classified = FALSE /\ i.realized = FALSE /\ i.trivial = FALSE
      /\ i.loadError = FALSE /\ i.callGeneration = s.callGeneration
  BY Zenon DEF ImplReset, Kernel
<1> HIDE DEF i
<1>4. t \in Kernel
  <2>1. /\ {} \in Content /\ i.gen + 1 \in Nat /\ None \in Nat \cup {None} /\ 0 \in 0..2
        /\ None \in {None, 0, 1} /\ 0 \in Int
    BY <1>2, Fields DEF Content
  <2>2. QED BY <1>2, <2>1, ZenonT(90) DEF Kernel
<1>5. /\ t.digest = {} /\ t.pend = {} /\ t.hasContent = FALSE /\ t.gen = i.gen + 1
      /\ t.builtGen = None /\ t.builtDirty = FALSE /\ t.consistState = None /\ t.hidden = FALSE
      /\ t.classified = i.classified /\ t.realized = i.realized /\ t.trivial = i.trivial
      /\ t.loadError = i.loadError /\ t.callGeneration = i.callGeneration
  BY <1>2, Zenon DEF Kernel
<1> HIDE DEF t
<1>6. KernelInv(t)
  BY <1>3, <1>5
  DEF KernelInv, SyncedInv, BuiltInv, ShownInv, CleanInv, VerdictInv, None
<1>7. QED
  BY <1>1, <1>3, <1>4, <1>5, <1>6

\* The loaded ontology behind results that may be read.
LEMMA ShownOntology ==
  ASSUME NEW s \in Kernel, KernelInv(s), s.classified
  PROVE  /\ s.onto = [content |-> s.digest, real |-> s.builtReal]
         /\ s.builtGen = s.gen /\ ~s.hidden /\ ~s.loadError
  BY Fields DEF KernelInv, ShownInv, BuiltInv, None

-----------------------------------------------------------------------------
(* Asking again for what is shown *)

\* Results of the present content, readable or hidden, in the variant on record.
Reusables(s) ==
  s.classified \/ (s.hidden /\ s.hiddenClassified /\ s.digest = s.builtDigest)

\* Such results are not computed again: the next verb finds them readable.
LEMMA EnsureBuiltFree ==
  ASSUME NEW s \in Kernel, KernelInv(s), Reusables(s), NEW loads \in BOOLEAN
  PROVE  LET e == EnsureBuilt(s, s.builtReal, loads)
         IN /\ Frame(e, s) /\ e.rebuilds = s.rebuilds /\ e.onto = s.onto
            /\ e.classified = TRUE /\ e.loadError = FALSE
<1> DEFINE now == ChangedBack(s)
<1>1. /\ s.gen \in Nat /\ s.builtGen \in Nat \cup {None} /\ s.classified \in BOOLEAN
      /\ s.hidden \in BOOLEAN /\ s.hiddenClassified \in BOOLEAN /\ s.loadError \in BOOLEAN
  BY Fields
<1>2. s.builtGen # None /\ s.loadError = FALSE
      /\ (s.builtGen # s.gen => s.hidden /\ s.digest = s.builtDigest)
      /\ (s.classified \/ (s.hidden /\ s.hiddenClassified))
      /\ (s.classified => ~s.hidden)
  BY <1>1 DEF Reusables, KernelInv, ShownInv, BuiltInv, None
<1>3. now \in Kernel
  BY ChangedBackType
<1>4. /\ Frame(now, s) /\ now.builtReal = s.builtReal /\ now.loadError = FALSE
      /\ now.rebuilds = s.rebuilds /\ now.onto = s.onto /\ now.classified = s.classified
      /\ now.hidden = s.hidden /\ now.hiddenClassified = s.hiddenClassified
  BY <1>2, Zenon DEF ChangedBack, Kernel, Frame
<1>5. now.builtGen = now.gen
  <2>1. CASE s.builtGen >= 0 /\ s.builtGen # s.gen /\ s.digest = s.builtDigest
    <3>1. now = [s EXCEPT !.builtGen = s.gen]
      BY <2>1 DEF ChangedBack
    <3>2. QED
      BY <3>1, Zenon DEF Kernel
  <2>2. CASE ~(s.builtGen >= 0 /\ s.builtGen # s.gen /\ s.digest = s.builtDigest)
    <3>1. now = s
      BY <2>2 DEF ChangedBack
    <3>2. s.builtGen >= 0
      BY <1>1, <1>2 DEF None
    <3>3. QED
      BY <1>2, <2>2, <3>1, <3>2
  <2>3. QED
    BY <2>1, <2>2
<1>6. EnsureBuilt(s, s.builtReal, loads) = Unhide(now)
  BY <1>4, <1>5 DEF EnsureBuilt, Reusable
<1> HIDE DEF now
<1>7. CASE now.hidden
  <2> DEFINE t == [now EXCEPT !.classified = now.hiddenClassified,
                              !.realized = now.hiddenRealized, !.hidden = FALSE]
  <2>1. Unhide(now) = t
    BY <1>7 DEF Unhide
  <2>2. /\ Frame(t, now) /\ t.rebuilds = now.rebuilds /\ t.onto = now.onto
        /\ t.classified = now.hiddenClassified /\ t.loadError = now.loadError
    BY <1>3, Zenon DEF Kernel, Frame
  <2> HIDE DEF t
  <2>3. QED
    BY <1>1, <1>2, <1>4, <1>6, <1>7, <2>1, <2>2 DEF Frame
<1>8. CASE ~now.hidden
  <2>1. Unhide(now) = now
    BY <1>8 DEF Unhide
  <2>2. QED
    BY <1>1, <1>2, <1>4, <1>6, <1>8, <2>1
<1>9. QED
  BY <1>7, <1>8

\* What a verb leaves untouched when its result is there already.
Untouched(t, s) ==
  /\ SameContent(t, s) /\ t.callGeneration = s.callGeneration
  /\ t.rebuilds = s.rebuilds /\ t.onto = s.onto /\ t.classified = TRUE

\* A verb whose result may be read already runs no pipeline and rebuilds nothing.
LEMMA VerbFree ==
  ASSUME NEW s \in Kernel, KernelInv(s), Reusables(s), NEW loads \in BOOLEAN,
         NEW outcome \in Outcome
  PROVE  LET v == Verb(s, s.builtReal, loads, outcome) IN Untouched(v, s) /\ v.ret = TRUE
<1> DEFINE level == IF s.builtReal THEN 2 ELSE 1
           e == EnsureBuilt(s, s.builtReal, loads)
           v == Verb(s, s.builtReal, loads, outcome)
<1>1. s.builtReal \in BOOLEAN
  BY Fields
<1>2. e \in Kernel /\ KernelInv(e)
  BY <1>1, EnsureBuiltType, EnsureBuiltInv
<1>3. /\ Frame(e, s) /\ e.rebuilds = s.rebuilds /\ e.onto = s.onto
      /\ e.classified = TRUE /\ e.loadError = FALSE
  BY EnsureBuiltFree
<1>4. e.builtGen = e.gen /\ e.builtReal = s.builtReal
  BY <1>1, <1>3, EnsureBuiltInv
<1>5. e.pipeLevel \in {0, level} /\ e.pipeLevel # 0
  <2>1. e.gen \in Nat
    BY <1>2, Fields
  <2> HIDE DEF e
  <2>2. QED
    BY <1>2, <1>3, <1>4, <2>1 DEF KernelInv, BuiltInv, None
<1>6. v = [e EXCEPT !.ret = TRUE]
  <2> DEFINE p == RunPipeline(e, s.builtReal, outcome)
  <2>1. v = CASE e.loadError -> [e EXCEPT !.ret = FALSE]
              [] ~e.loadError /\ e.pipeLevel >= level -> [e EXCEPT !.ret = e.classified]
              [] ~e.loadError /\ e.pipeLevel < level ->
                   IF p.ret THEN [p EXCEPT !.pipeLevel = level]
                            ELSE [p EXCEPT !.builtGen = None]
    BY Zenon DEF Verb
  <2> HIDE DEF e, p, v
  <2>2. e.pipeLevel >= level /\ ~(e.pipeLevel < level)
    BY <1>5
  <2>3. v = [e EXCEPT !.ret = e.classified]
    BY <1>3, <2>1, <2>2
  <2>4. QED
    BY <1>3, <2>3
<1> HIDE DEF e, v
<1>7. /\ SameContent(v, e) /\ v.callGeneration = e.callGeneration
      /\ v.rebuilds = e.rebuilds /\ v.onto = e.onto
      /\ v.classified = e.classified /\ v.ret = TRUE
  BY <1>2, <1>6, Zenon DEF Kernel, SameContent
<1>8. QED
  BY <1>3, <1>7 DEF Untouched, SameContent, Frame, v

\* consistency() on readable results keeps what is shown and costs nothing.
LEMMA ConsistencyFree ==
  ASSUME NEW s \in Kernel, KernelInv(s), Reusables(s), s.builtReal = FALSE,
         NEW loads \in BOOLEAN, NEW outcome \in Outcome
  PROVE  Untouched(Consistency(s, loads, outcome), s)
<1> DEFINE e == EnsureBuilt(s, FALSE, loads)
           c == Classification(e, loads, outcome)
           t == Consistency(s, loads, outcome)
<1>1. e \in Kernel /\ KernelInv(e) /\ (~e.loadError => e.builtGen = e.gen)
  <2>1. FALSE \in BOOLEAN
    OBVIOUS
  <2>2. KernelInv(e) /\ (~e.loadError => e.builtGen = e.gen)
    BY <2>1, EnsureBuiltInv, Zenon
  <2>3. QED
    BY <2>2, EnsureBuiltType
<1>2. /\ Frame(e, s) /\ e.rebuilds = s.rebuilds /\ e.onto = s.onto
      /\ e.classified = TRUE /\ e.loadError = FALSE
  BY EnsureBuiltFree
<1>3. e.pipeLevel # 0
  <2>1. e.gen \in Nat
    BY <1>1, Fields
  <2> HIDE DEF e
  <2>2. QED
    BY <1>1, <1>2, <2>1 DEF KernelInv, BuiltInv, None
<1>4. \/ \E b \in BOOLEAN : t = [e EXCEPT !.ret = b]
      \/ \E x \in {0, 1}, b \in BOOLEAN : t = [e EXCEPT !.consistState = x, !.ret = b]
  <2>1. t = CASE e.loadError -> [e EXCEPT !.ret = FALSE]
              [] ~e.loadError /\ e.consistState # None -> [e EXCEPT !.ret = e.consistState # 0]
              [] ~e.loadError /\ e.consistState = None /\ e.trivial ->
                   [e EXCEPT !.consistState = 0, !.ret = FALSE]
              [] ~e.loadError /\ e.consistState = None /\ ~e.trivial ->
                   IF e.pipeLevel = 0
                   THEN IF c.ret THEN Judge(c) ELSE c
                   ELSE Judge(e)
    BY Zenon DEF Consistency
  <2>2. Judge(e) = [e EXCEPT
                      !.consistState = IF e.onto.content \notin Inconsistent THEN 1 ELSE 0,
                      !.ret = e.onto.content \notin Inconsistent]
    BY Zenon DEF Judge
  <2>3. e.trivial \in BOOLEAN
    BY <1>1, Fields
  <2> HIDE DEF e, c, t
  <2>4. \/ t = [e EXCEPT !.ret = e.consistState # 0]
        \/ t = [e EXCEPT !.consistState = 0, !.ret = FALSE]
        \/ t = Judge(e)
    BY <1>2, <1>3, <2>1, <2>3
  <2>5. QED
    BY <2>2, <2>4
<1> HIDE DEF e, t
<1>5. /\ SameContent(t, e) /\ t.callGeneration = e.callGeneration
      /\ t.rebuilds = e.rebuilds /\ t.onto = e.onto /\ t.classified = e.classified
  BY <1>1, <1>4, Zenon DEF Kernel, SameContent
<1>6. QED
  BY <1>2, <1>5 DEF Untouched, SameContent, Frame, t


-----------------------------------------------------------------------------
(* Calls that do not fail *)

\* A new kernel: nothing synced, nothing loaded, nothing to read.
LEMMA NewKernelInv ==
  /\ NewKernel \in Kernel /\ KernelInv(NewKernel)
  /\ NewKernel.digest = {} /\ NewKernel.classified = FALSE /\ NewKernel.hidden = FALSE
<1>1. NewKernel \in Kernel
  BY DEF NewKernel, Kernel, Content, Blank, Ontology, None
<1>2. /\ NewKernel.digest = {} /\ NewKernel.pend = {} /\ NewKernel.builtGen = None
      /\ NewKernel.hidden = FALSE /\ NewKernel.classified = FALSE
      /\ NewKernel.realized = FALSE /\ NewKernel.trivial = FALSE
      /\ NewKernel.loadError = FALSE /\ NewKernel.consistState = None
  BY DEF NewKernel
<1>3. KernelInv(NewKernel)
  BY <1>2 DEF KernelInv, SyncedInv, BuiltInv, ShownInv, CleanInv, VerdictInv, None
<1>4. QED
  BY <1>1, <1>2, <1>3

\* After a sync the kernel holds the new content; the generation says whether that
\* is the content it held before, and then what may be read is the same.
LEMMA SyncHolds ==
  ASSUME NEW s \in Kernel, KernelInv(s), NEW new \in Content
  PROVE  LET t == Sync(s, new)
         IN /\ t \in Kernel /\ KernelInv(t) /\ t.digest = new
            /\ t.gen >= s.gen
            /\ t.gen = s.gen => t.digest = s.digest /\ t.classified = s.classified
<1> DEFINE t == Sync(s, new)
<1>1. t \in Kernel /\ s.gen \in Nat
  BY SyncType, Fields
<1>2. /\ KernelInv(t)
      /\ Changed(s, new) => t.digest = new /\ t.gen = s.gen + 1
      /\ ~Changed(s, new) => SameContent(t, s) /\ t.classified = s.classified
  BY SyncInv
<1> HIDE DEF t
<1>3. CASE Changed(s, new)
  BY <1>1, <1>2, <1>3 DEF t
<1>4. CASE ~Changed(s, new)
  <2>1. new = s.digest
    BY <1>4, ChangedIsDifference
  <2>2. QED
    BY <1>1, <1>2, <1>4, <2>1 DEF SameContent, t
<1>5. QED
  BY <1>3, <1>4

\* While no realization stops short: whatever results of the realization variant
\* are loaded, readable or hidden, include the individuals.
RealizedInv(s) ==
  /\ s.classified /\ s.builtReal => s.realized
  /\ s.hidden /\ s.hiddenClassified /\ s.builtReal => s.hiddenRealized

\* Hiding keeps the results complete, and so does syncing.
LEMMA SyncRealized ==
  ASSUME NEW s \in Kernel, KernelInv(s), RealizedInv(s), NEW new \in Content
  PROVE  RealizedInv(Sync(s, new))
<1> DEFINE t == Taken(s, new)
<1>1. t \in Kernel
  BY TakenType
<1>2. /\ t.classified = s.classified /\ t.realized = s.realized /\ t.builtReal = s.builtReal
      /\ t.hidden = s.hidden /\ t.hiddenClassified = s.hiddenClassified
      /\ t.hiddenRealized = s.hiddenRealized
  BY Zenon DEF Taken, Kernel
<1>3. Sync(s, new) = IF Changed(s, new) THEN Hide(t) ELSE [s EXCEPT !.ret = FALSE]
  BY Zenon DEF Sync, Taken
<1> HIDE DEF t
<1>4. RealizedInv(t)
  BY <1>2 DEF RealizedInv
<1>5. RealizedInv(Hide(t))
  <2>1. CASE ~t.hidden /\ t.builtGen >= 0
    <3> DEFINE h == [t EXCEPT !.hiddenClassified = t.classified,
                              !.hiddenRealized = t.realized,
                              !.classified = FALSE, !.realized = FALSE, !.hidden = TRUE]
    <3>1. Hide(t) = h
      BY <2>1 DEF Hide
    <3>2. /\ h.hiddenClassified = t.classified /\ h.hiddenRealized = t.realized
          /\ h.classified = FALSE /\ h.builtReal = t.builtReal
      BY <1>1, Zenon DEF Kernel
    <3> HIDE DEF h
    <3>3. QED
      BY <1>4, <3>1, <3>2 DEF RealizedInv
  <2>2. CASE ~(~t.hidden /\ t.builtGen >= 0)
    BY <1>4, <2>2 DEF Hide
  <2>3. QED
    BY <2>1, <2>2
<1>6. RealizedInv([s EXCEPT !.ret = FALSE])
  <2> DEFINE u == [s EXCEPT !.ret = FALSE]
  <2>1. /\ u.classified = s.classified /\ u.realized = s.realized
        /\ u.builtReal = s.builtReal /\ u.hidden = s.hidden
        /\ u.hiddenClassified = s.hiddenClassified /\ u.hiddenRealized = s.hiddenRealized
    BY Zenon DEF Kernel
  <2> HIDE DEF u
  <2>2. RealizedInv(u)
    BY <2>1 DEF RealizedInv
  <2>3. QED
    BY <2>2 DEF u
<1>7. QED
  BY <1>3, <1>5, <1>6

\* ensureBuilt with a load that succeeds reports no error and keeps results complete.
LEMMA EnsureBuiltLoads ==
  ASSUME NEW s \in Kernel, KernelInv(s), RealizedInv(s), NEW real \in BOOLEAN
  PROVE  LET e == EnsureBuilt(s, real, TRUE) IN e.loadError = FALSE /\ RealizedInv(e)
<1> DEFINE now == ChangedBack(s)
<1>1. now \in Kernel /\ KernelInv(now)
  BY ChangedBackType, ChangedBackInv
<1>2. /\ now.classified = s.classified /\ now.realized = s.realized
      /\ now.builtReal = s.builtReal /\ now.hidden = s.hidden
      /\ now.hiddenClassified = s.hiddenClassified /\ now.hiddenRealized = s.hiddenRealized
  BY Zenon DEF ChangedBack, Kernel
<1>3. RealizedInv(now)
  BY <1>2 DEF RealizedInv
<1> HIDE DEF now
<1>4. CASE Reusable(now, real)
  <2>1. EnsureBuilt(s, real, TRUE) = Unhide(now)
    BY <1>4 DEF EnsureBuilt, now
  <2>2. now.loadError = FALSE
    BY <1>1, <1>4, Fields DEF Reusable
  <2>3. CASE now.hidden
    <3> DEFINE t == [now EXCEPT !.classified = now.hiddenClassified,
                                !.realized = now.hiddenRealized, !.hidden = FALSE]
    <3>1. Unhide(now) = t
      BY <2>3 DEF Unhide
    <3>2. /\ t.classified = now.hiddenClassified /\ t.realized = now.hiddenRealized
          /\ t.hidden = FALSE /\ t.builtReal = now.builtReal /\ t.loadError = now.loadError
      BY <1>1, Zenon DEF Kernel
    <3> HIDE DEF t
    <3>3. RealizedInv(t)
      BY <1>3, <2>3, <3>2 DEF RealizedInv
    <3>4. QED
      BY <2>1, <2>2, <3>1, <3>2, <3>3
  <2>4. CASE ~now.hidden
    BY <1>3, <2>1, <2>2, <2>4 DEF Unhide
  <2>5. QED
    BY <2>3, <2>4
<1>5. CASE ~Reusable(now, real)
  <2>1. EnsureBuilt(s, real, TRUE) = Rebuild(now, real, TRUE)
    BY <1>5 DEF EnsureBuilt, now
  <2> DEFINE t == Rebuild(now, real, TRUE)
  <2>2. ~t.hidden /\ ~t.classified /\ t.loadError = FALSE
    BY <1>1, RebuildInv
  <2> HIDE DEF t
  <2>3. RealizedInv(t)
    BY <2>2 DEF RealizedInv
  <2>4. QED
    BY <2>1, <2>2, <2>3 DEF t
<1>6. QED
  BY <1>4, <1>5

\* How a verb ends when nothing stops it short.
Completed(real) == IF real THEN "realized" ELSE "classified"

\* A verb that loads and completes leaves readable results of its own variant, with
\* the individuals when it realizes; they are complete whether it computed them,
\* reused them or found them hidden.
LEMMA VerbCompletes ==
  ASSUME NEW s \in Kernel, KernelInv(s), RealizedInv(s), NEW real \in BOOLEAN
  PROVE  LET v == Verb(s, real, TRUE, Completed(real))
         IN /\ RealizedInv(v) /\ v.ret = TRUE /\ v.classified = TRUE
            /\ v.builtReal = real /\ (real => v.realized)
<1> DEFINE level == IF real THEN 2 ELSE 1
           e == EnsureBuilt(s, real, TRUE)
           p == RunPipeline(e, real, Completed(real))
           v == Verb(s, real, TRUE, Completed(real))
<1>1. e \in Kernel
  BY EnsureBuiltType
<1>2. /\ KernelInv(e) /\ e.hidden = FALSE /\ e.loadError = FALSE /\ RealizedInv(e)
      /\ e.builtGen = e.gen /\ e.builtReal = real
  <2>1. e.loadError = FALSE /\ RealizedInv(e)
    BY EnsureBuiltLoads
  <2>2. /\ KernelInv(e) /\ ~e.hidden
        /\ ~e.loadError => e.builtGen = e.gen /\ e.builtReal = real
    <3>1. TRUE \in BOOLEAN
      OBVIOUS
    <3>2. QED
      BY <3>1, EnsureBuiltInv
  <2>3. e.hidden \in BOOLEAN
    BY <1>1, Fields
  <2> HIDE DEF e
  <2>4. QED
    BY <2>1, <2>2, <2>3
<1>3. e.pipeLevel \in 0..2 /\ e.gen \in Nat /\ e.classified \in BOOLEAN
      /\ e.realized \in BOOLEAN /\ e.hidden \in BOOLEAN
  BY <1>1, Fields
<1>4. v = CASE e.loadError -> [e EXCEPT !.ret = FALSE]
            [] ~e.loadError /\ e.pipeLevel >= level -> [e EXCEPT !.ret = e.classified]
            [] ~e.loadError /\ e.pipeLevel < level ->
                 IF p.ret THEN [p EXCEPT !.pipeLevel = level]
                          ELSE [p EXCEPT !.builtGen = None]
  BY Zenon DEF Verb
<1> HIDE DEF e, p, v
<1>5. e.pipeLevel \in {0, level} /\ (e.pipeLevel = 0 <=> ~e.classified)
  BY <1>2, <1>3 DEF KernelInv, BuiltInv, None
<1>6. CASE e.pipeLevel >= level
  <2>1. v = [e EXCEPT !.ret = e.classified]
    BY <1>2, <1>3, <1>4, <1>6
  <2>2. e.classified = TRUE
    BY <1>3, <1>5, <1>6
  <2>3. /\ v.classified = e.classified /\ v.realized = e.realized
        /\ v.builtReal = e.builtReal /\ v.hidden = e.hidden /\ v.ret = e.classified
    BY <1>1, <2>1, Zenon DEF Kernel
  <2>4. RealizedInv(v)
    BY <1>2, <2>3 DEF RealizedInv
  <2>5. real => v.realized
    BY <1>2, <2>2, <2>3 DEF RealizedInv
  <2>6. QED
    BY <1>2, <2>2, <2>3, <2>4, <2>5 DEF v
<1>7. CASE ~(e.pipeLevel >= level)
  <2>1. Completed(real) \in {"classified", "realized"} /\ Completed(real) \in Outcome
    BY DEF Completed, Outcome
  <2>2. p.ret = (Completed(real) \in {"classified", "realized"})
    <3>1. \A o \in Outcome :
            RunPipeline(e, real, o).ret = (o \in {"classified", "realized"})
      BY <1>1, RunPipelineFields
    <3>2. QED
      BY <2>1, <3>1, Zenon DEF p
  <2>3. /\ p \in Kernel /\ p.ret /\ p.classified = TRUE
        /\ p.hidden = e.hidden /\ p.builtReal = e.builtReal
    BY <1>1, <2>1, <2>2, RunPipelineFields DEF p, SameOntology
  <2>4. p.realized = real
    <3> DEFINE run == [e EXCEPT !.callGeneration = @ + 1]
               c == Completed(real) # "incomplete"
               r == real /\ Completed(real) = "realized"
    <3>1. p = [run EXCEPT !.classified = c, !.realized = r, !.ret = c]
      BY <2>1 DEF p, RunPipeline
    <3>2. r = real
      BY DEF Completed
    <3>3. run.callGeneration \in Nat
      BY <1>1, Fields
    <3>4. run \in Kernel
      BY <1>1, <3>3, Zenon DEF Kernel
    <3> HIDE DEF c, r, run
    <3>5. p.realized = r
      BY <3>1, <3>4, Zenon DEF Kernel
    <3>6. QED
      BY <3>2, <3>5
  <2>5. v = [p EXCEPT !.pipeLevel = level]
    BY <1>2, <1>3, <1>4, <1>7, <2>3
  <2>6. /\ v.classified = p.classified /\ v.realized = p.realized
        /\ v.builtReal = p.builtReal /\ v.hidden = p.hidden /\ v.ret = p.ret
    BY <2>3, <2>5, Zenon DEF Kernel
  <2>7. p.ret = TRUE
    BY <2>1, <2>2
  <2>8. RealizedInv(v)
    BY <1>2, <2>3, <2>4, <2>6 DEF RealizedInv
  <2>9. QED
    BY <1>2, <2>3, <2>4, <2>6, <2>7, <2>8 DEF v
<1>8. QED
  BY <1>6, <1>7

\* A verb that finds its own result readable finds the kernel as it is.
LEMMA EnsureBuiltShown ==
  ASSUME NEW s \in Kernel, KernelInv(s), s.classified, NEW loads \in BOOLEAN
  PROVE  EnsureBuilt(s, s.builtReal, loads) = s
<1>1. s.builtGen = s.gen /\ ~s.hidden /\ ~s.loadError
  BY ShownOntology
<1>2. ChangedBack(s) = s
  BY <1>1 DEF ChangedBack
<1>3. Reusable(s, s.builtReal)
  BY <1>1 DEF Reusable
<1>4. QED
  BY <1>1, <1>2, <1>3 DEF EnsureBuilt, Unhide

\* Over readable classification results consistency() answers exactly whether the
\* content has a model, memoised, seen while loading or judged now.
LEMMA ConsistencyAnswers ==
  ASSUME NEW s \in Kernel, KernelInv(s), RealizedInv(s), s.classified, s.builtReal = FALSE,
         NEW loads \in BOOLEAN, NEW outcome \in Outcome
  PROVE  LET t == Consistency(s, loads, outcome)
         IN /\ RealizedInv(t) /\ t.classified = TRUE /\ t.builtReal = FALSE
            /\ t.ret <=> s.digest \notin Inconsistent
<1> DEFINE c == Classification(s, loads, outcome)
           t == Consistency(s, loads, outcome)
<1>1. EnsureBuilt(s, FALSE, loads) = s
  BY EnsureBuiltShown
<1>2. /\ s.onto.content = s.digest /\ s.builtGen = s.gen /\ s.hidden = FALSE
      /\ s.loadError = FALSE
  <2>1. s.onto.content = s.digest
    <3>1. s.onto = [content |-> s.digest, real |-> s.builtReal]
      BY ShownOntology
    <3>2. QED
      BY <3>1
  <2>2. s.builtGen = s.gen /\ ~s.hidden /\ ~s.loadError
    BY ShownOntology
  <2>3. s.hidden \in BOOLEAN /\ s.loadError \in BOOLEAN
    BY Fields
  <2>4. QED
    BY <2>1, <2>2, <2>3
<1>3. /\ s.gen \in Nat /\ s.pipeLevel \in 0..2 /\ s.consistState \in {None, 0, 1}
      /\ s.classified = TRUE
  BY Fields
<1>4. /\ s.builtDigest = s.digest /\ (s.trivial => s.digest \in Inconsistent)
      /\ s.pipeLevel # 0
      /\ s.consistState = 1 => s.digest \notin Inconsistent
      /\ s.consistState = 0 => s.digest \in Inconsistent
  BY <1>2, <1>3 DEF KernelInv, BuiltInv, VerdictInv, None
<1>5. t = CASE s.loadError -> [s EXCEPT !.ret = FALSE]
            [] ~s.loadError /\ s.consistState # None -> [s EXCEPT !.ret = s.consistState # 0]
            [] ~s.loadError /\ s.consistState = None /\ s.trivial ->
                 [s EXCEPT !.consistState = 0, !.ret = FALSE]
            [] ~s.loadError /\ s.consistState = None /\ ~s.trivial ->
                 IF s.pipeLevel = 0
                 THEN IF c.ret THEN Judge(c) ELSE c
                 ELSE Judge(s)
  BY <1>1, Zenon DEF Consistency
<1> HIDE DEF c, t
<1>6. ASSUME NEW v \in {None, 0, 1}, NEW b \in BOOLEAN, t = [s EXCEPT !.consistState = v, !.ret = b]
      PROVE  /\ RealizedInv(t) /\ t.classified = TRUE /\ t.builtReal = FALSE /\ t.ret = b
  <2>1. /\ t.classified = s.classified /\ t.realized = s.realized
        /\ t.builtReal = s.builtReal /\ t.hidden = s.hidden /\ t.ret = b
    BY <1>6, Zenon DEF Kernel
  <2>2. QED
    BY <1>2, <1>3, <2>1 DEF RealizedInv
<1>7. CASE s.consistState # None
  <2> DEFINE b == s.consistState # 0
  <2>1. t = [s EXCEPT !.ret = b]
    BY <1>2, <1>5, <1>7
  <2>2. b \in BOOLEAN /\ (b <=> s.digest \notin Inconsistent)
    BY <1>3, <1>4, <1>7
  <2> HIDE DEF b
  <2>3. [s EXCEPT !.ret = b] = [s EXCEPT !.consistState = s.consistState, !.ret = b]
    BY Zenon DEF Kernel
  <2>4. QED
    BY <1>3, <1>6, <2>1, <2>2, <2>3 DEF t
<1>8. CASE s.consistState = None /\ s.trivial
  <2>1. t = [s EXCEPT !.consistState = 0, !.ret = FALSE]
    BY <1>2, <1>5, <1>8
  <2>2. t.ret = FALSE /\ RealizedInv(t) /\ t.classified = TRUE /\ t.builtReal = FALSE
    BY <1>6, <2>1
  <2>3. QED
    BY <1>4, <1>8, <2>2 DEF t
<1>9. CASE s.consistState = None /\ ~s.trivial
  <2> DEFINE b == s.onto.content \notin Inconsistent
             v == IF b THEN 1 ELSE 0
  <2>1. t = Judge(s)
    BY <1>2, <1>4, <1>5, <1>9
  <2>2. t = [s EXCEPT !.consistState = v, !.ret = b]
    BY <2>1 DEF Judge
  <2>3. b \in BOOLEAN /\ v \in {None, 0, 1} /\ (b <=> s.digest \notin Inconsistent)
    BY <1>2
  <2> HIDE DEF b, v
  <2>4. QED
    BY <1>6, <2>2, <2>3 DEF t
<1>10. QED
  BY <1>7, <1>8, <1>9

\* Writing a result buffer keeps the results as they are.
LEMMA BuildBufferRealized ==
  ASSUME NEW s \in Kernel, KernelInv(s), RealizedInv(s)
  PROVE  RealizedInv(BuildBuffer(s))
<1> DEFINE t == BuildBuffer(s)
<1>1. /\ t.classified = s.classified /\ t.realized = s.realized
      /\ t.builtReal = s.builtReal /\ t.hidden = s.hidden
      /\ t.hiddenClassified = s.hiddenClassified /\ t.hiddenRealized = s.hiddenRealized
  BY Zenon DEF BuildBuffer, Kernel
<1> HIDE DEF t
<1>2. RealizedInv(t)
  BY <1>1 DEF RealizedInv
<1>3. QED
  BY <1>2 DEF t

\* The result buffer is filled exactly when results may be read, with the loaded
\* ontology, which holds the synced content.
LEMMA BuildBufferReads ==
  ASSUME NEW s \in Kernel, KernelInv(s)
  PROVE  LET t == BuildBuffer(s)
         IN /\ t.ret = s.classified
            /\ s.classified => t.buffer.content = s.digest
            /\ t.buffer.content \in Content /\ t.realized = s.realized
<1>1. s.classified \in BOOLEAN /\ s.buffer \in {Blank} \cup Ontology
  BY Fields, Zenon DEF Kernel
<1>2. CASE s.classified
  <2> DEFINE t == [s EXCEPT !.buffer = s.onto, !.ret = TRUE]
  <2>1. BuildBuffer(s) = t
    BY <1>2 DEF BuildBuffer
  <2>2. t.ret = TRUE /\ t.buffer = s.onto /\ t.realized = s.realized
    BY Zenon DEF Kernel
  <2> HIDE DEF t
  <2>3. s.onto.content = s.digest /\ s.digest \in Content
    <3>1. s.onto = [content |-> s.digest, real |-> s.builtReal]
      BY <1>2, ShownOntology
    <3>2. QED
      BY <3>1, Fields
  <2>4. QED
    BY <1>1, <1>2, <2>1, <2>2, <2>3
<1>3. CASE ~s.classified
  <2> DEFINE t == [s EXCEPT !.ret = FALSE]
  <2>1. BuildBuffer(s) = t
    BY <1>3 DEF BuildBuffer
  <2>2. t.ret = FALSE /\ t.buffer = s.buffer /\ t.realized = s.realized
    BY Zenon DEF Kernel
  <2> HIDE DEF t
  <2>3. s.buffer.content \in Content
    BY <1>1 DEF Blank, Ontology, Content
  <2>4. QED
    BY <1>1, <1>3, <2>1, <2>2, <2>3
<1>4. QED
  BY <1>2, <1>3
-----------------------------------------------------------------------------
(* The specification *)

\* What the calls answer, next to how the flags hang together.
Answers == VerbServesItsVariant /\ VerdictSound /\ FailureIsRetried

IInv == KernelTypeOK /\ Bookkeeping /\ Answers

\* A new kernel is well-typed and its flags agree.
LEMMA InitIInv == KernelInit => IInv
<1> SUFFICES ASSUME KernelInit PROVE IInv
  OBVIOUS
<1>1. impl \in Kernel /\ call = "new"
  BY DEF KernelInit, NewKernel, Kernel, Content, Blank, Ontology, None
<1>2. /\ impl.digest = {} /\ impl.pend = {} /\ impl.builtGen = None /\ ~impl.hidden /\ ~impl.classified
      /\ ~impl.realized /\ ~impl.trivial /\ ~impl.loadError /\ impl.consistState = None /\ ~impl.ret
  BY DEF KernelInit, NewKernel
<1>3. KernelTypeOK
  BY <1>1 DEF KernelTypeOK, Methods
<1>4. Bookkeeping
  BY <1>2
  DEF Bookkeeping, KernelInv, SyncedInv, BuiltInv, ShownInv, CleanInv, VerdictInv, None
<1>5. Answers
  BY <1>1, <1>2 DEF Answers, VerbServesItsVariant, VerdictSound, FailureIsRetried, None
<1>6. QED
  BY <1>3, <1>4, <1>5 DEF IInv

\* Every call keeps the invariant.
LEMMA NextIInv == IInv /\ [KernelNext]_kernelVars => IInv'
<1> SUFFICES ASSUME IInv, [KernelNext]_kernelVars PROVE IInv'
  OBVIOUS
<1>1. impl \in Kernel /\ call \in Methods /\ KernelInv(impl)
  BY DEF IInv, KernelTypeOK, Bookkeeping
<1>2. ASSUME impl' \in Kernel, call' \in Methods, KernelInv(impl'),
             call' = "classification" /\ impl'.ret =>
               impl'.classified /\ impl'.builtReal = FALSE,
             call' = "realization" /\ impl'.ret =>
               impl'.classified /\ impl'.builtReal = TRUE,
             call' = "consistency" /\ impl'.ret => impl'.digest \notin Inconsistent,
             FailureIsRetried'
      PROVE  IInv'
  <2>1. KernelTypeOK' /\ Bookkeeping'
    BY <1>2 DEF KernelTypeOK, Bookkeeping
  <2>2. VerbServesItsVariant'
    BY <1>2, ShownOntology DEF VerbServesItsVariant
  <2>3. VerdictSound'
    BY <1>2 DEF VerdictSound, KernelInv, VerdictInv
  <2>4. QED
    BY <1>2, <2>1, <2>2, <2>3 DEF IInv, Answers
<1>3. ASSUME NEW new \in Content, SyncCall(new)
      PROVE  IInv'
  <2>1. impl' = Sync(impl, new) /\ call' = "sync"
    BY <1>3 DEF SyncCall
  <2>2. impl' \in Kernel /\ KernelInv(impl')
    BY <1>1, <2>1, SyncType, SyncInv
  <2>3. QED
    BY <1>2, <2>1, <2>2 DEF Methods, FailureIsRetried
<1>4. ASSUME NEW loads \in BOOLEAN, NEW outcome \in Outcome,
             ClassificationCall(loads, outcome)
      PROVE  IInv'
  <2>1. impl' = Verb(impl, FALSE, loads, outcome) /\ call' = "classification"
    BY <1>4 DEF ClassificationCall, Classification
  <2>2. Served(impl', impl, FALSE)
    BY <1>1, <2>1, VerbInv
  <2>3. QED
    BY <1>2, <2>1, <2>2 DEF Served, Methods, FailureIsRetried
<1>5. ASSUME NEW loads \in BOOLEAN, NEW outcome \in Outcome,
             RealizationCall(loads, outcome)
      PROVE  IInv'
  <2>1. impl' = Verb(impl, TRUE, loads, outcome) /\ call' = "realization"
    BY <1>5 DEF RealizationCall, Realization
  <2>2. Served(impl', impl, TRUE)
    BY <1>1, <2>1, VerbInv
  <2>3. QED
    BY <1>2, <2>1, <2>2 DEF Served, Methods, FailureIsRetried
<1>6. ASSUME NEW loads \in BOOLEAN, NEW outcome \in Outcome,
             ConsistencyCall(loads, outcome)
      PROVE  IInv'
  <2>1. impl' = Consistency(impl, loads, outcome) /\ call' = "consistency"
    BY <1>6 DEF ConsistencyCall
  <2>2. /\ impl' \in Kernel /\ KernelInv(impl')
        /\ impl'.ret => impl'.digest \notin Inconsistent
        /\ ~impl'.ret /\ impl'.consistState = None => impl'.builtGen = None
    BY <1>1, <2>1, ConsistencyInv
  <2>3. QED
    BY <1>2, <2>1, <2>2 DEF Methods, FailureIsRetried
<1>7. CASE BuildBufferCall
  <2>1. impl' = BuildBuffer(impl) /\ call' = "buildBuffer"
    BY <1>7 DEF BuildBufferCall
  <2>2. impl' \in Kernel /\ KernelInv(impl')
    BY <1>1, <2>1, BuildBufferInv
  <2>3. QED
    BY <1>2, <2>1, <2>2 DEF Methods, FailureIsRetried
<1>8. CASE ResetCall
  <2>1. impl' = Reset(impl) /\ call' = "reset"
    BY <1>8 DEF ResetCall
  <2>2. impl' \in Kernel /\ KernelInv(impl')
    BY <1>1, <2>1, ResetInv
  <2>3. QED
    BY <1>2, <2>1, <2>2 DEF Methods, FailureIsRetried
<1>9. CASE UNCHANGED kernelVars
  BY <1>9 DEF kernelVars, IInv, KernelTypeOK, Bookkeeping, Answers, VerbServesItsVariant,
              VerdictSound, FailureIsRetried
<1>10. QED
  BY <1>3, <1>4, <1>5, <1>6, <1>7, <1>8, <1>9 DEF KernelNext

\* The invariant holds in every state of the specification.
THEOREM IInvInvariant == KernelSpec => []IInv
  BY InitIInv, NextIInv, PTL DEF KernelSpec

\* The kernel's fields keep their types.
THEOREM KernelTypeCorrect == KernelSpec => []KernelTypeOK
<1>1. IInv => KernelTypeOK
  BY DEF IInv
<1>2. QED
  BY <1>1, IInvInvariant, PTL

\* The flags that decide about rebuilding and reading results always agree with
\* what is loaded: the strengthening the other invariants follow from.
THEOREM BookkeepingHolds == KernelSpec => []Bookkeeping
<1>1. IInv => Bookkeeping
  BY DEF IInv
<1>2. QED
  BY <1>1, IInvInvariant, PTL

\* For any triples, whatever the order of calls and failures, results that may be
\* read describe the content synced last.
THEOREM NeverStale == KernelSpec => []ShownIsCurrent
<1>1. IInv => ShownIsCurrent
  <2>1. ASSUME IInv, impl.classified
        PROVE  impl.onto.content = impl.digest
    <3>1. impl \in Kernel /\ KernelInv(impl)
      BY <2>1 DEF IInv, KernelTypeOK, Bookkeeping
    <3>2. impl.onto = [content |-> impl.digest, real |-> impl.builtReal]
      BY <2>1, <3>1, ShownOntology
    <3>3. QED
      BY <3>2
  <2>2. QED
    BY <2>1 DEF ShownIsCurrent
<1>2. QED
  BY <1>1, IInvInvariant, PTL

\* Realization results are readable only over the realization variant.
THEOREM VariantRespected == KernelSpec => []RealizedVariant
<1>1. IInv => RealizedVariant
  <2>1. ASSUME IInv, impl.realized
        PROVE  impl.classified /\ impl.onto.real
    <3>1. impl \in Kernel /\ KernelInv(impl)
      BY <2>1 DEF IInv, KernelTypeOK, Bookkeeping
    <3>2. impl.classified /\ impl.builtReal
      BY <2>1, <3>1 DEF KernelInv, ShownInv
    <3>3. impl.onto = [content |-> impl.digest, real |-> impl.builtReal]
      BY <3>1, <3>2, ShownOntology
    <3>4. QED
      BY <3>2, <3>3
  <2>2. QED
    BY <2>1 DEF RealizedVariant
<1>2. QED
  BY <1>1, IInvInvariant, PTL

\* A verb that reports success has served its own variant of the synced content.
THEOREM VerbsServe == KernelSpec => []VerbServesItsVariant
<1>1. IInv => VerbServesItsVariant
  BY DEF IInv, Answers
<1>2. QED
  BY <1>1, IInvInvariant, PTL

\* TRUE from consistency() means the content has a model; memoised verdicts too.
THEOREM VerdictsSound == KernelSpec => []VerdictSound
<1>1. IInv => VerdictSound
  BY DEF IInv, Answers
<1>2. QED
  BY <1>1, IInvInvariant, PTL

\* No failure is memoised.
THEOREM FailuresRetried == KernelSpec => []FailureIsRetried
<1>1. IInv => FailureIsRetried
  BY DEF IInv, Answers
<1>2. QED
  BY <1>1, IInvInvariant, PTL

-----------------------------------------------------------------------------
(* What a step may do *)

\* How each action relates the synced content before and after it.
LEMMA ContentSteps ==
  ASSUME IInv, KernelNext
  PROVE  \/ \E new \in Content : impl' = Sync(impl, new) /\ call' = "sync"
         \/ SameContent(impl', impl) /\ call' \notin {"sync", "reset"}
         \/ impl' = Reset(impl) /\ call' = "reset"
<1>1. impl \in Kernel /\ KernelInv(impl)
  BY DEF IInv, KernelTypeOK, Bookkeeping
<1>2. ASSUME NEW new \in Content, SyncCall(new)
      PROVE  impl' = Sync(impl, new) /\ call' = "sync"
  BY <1>2 DEF SyncCall
<1>3. ASSUME NEW loads \in BOOLEAN, NEW outcome \in Outcome,
             \/ ClassificationCall(loads, outcome)
             \/ RealizationCall(loads, outcome)
             \/ ConsistencyCall(loads, outcome)
      PROVE  SameContent(impl', impl) /\ call' \notin {"sync", "reset"}
  <2>1. CASE ClassificationCall(loads, outcome)
    BY <1>1, <2>1, VerbInv DEF ClassificationCall, Classification, Served
  <2>2. CASE RealizationCall(loads, outcome)
    BY <1>1, <2>2, VerbInv DEF RealizationCall, Realization, Served
  <2>3. CASE ConsistencyCall(loads, outcome)
    BY <1>1, <2>3, ConsistencyInv DEF ConsistencyCall
  <2>4. QED
    BY <1>3, <2>1, <2>2, <2>3
<1>4. CASE BuildBufferCall
  BY <1>1, <1>4, BuildBufferInv DEF BuildBufferCall
<1>5. CASE ResetCall
  BY <1>5 DEF ResetCall
<1>6. QED
  BY <1>2, <1>3, <1>4, <1>5 DEF KernelNext

\* For any triples and bounds: a generation never names two contents.
THEOREM GenerationsNameContents == KernelSpec => GenerationNamesContent
<1> DEFINE A == /\ impl'.gen >= impl.gen
                /\ impl'.gen = impl.gen => impl'.digest = impl.digest /\ impl'.pend = impl.pend
<1>1. ASSUME IInv, [KernelNext]_kernelVars
      PROVE  [A]_kernelVars
  <2>1. impl \in Kernel /\ KernelInv(impl) /\ impl.gen \in Nat
    BY <1>1, Fields DEF IInv, KernelTypeOK, Bookkeeping
  <2>2. CASE \E new \in Content : impl' = Sync(impl, new) /\ call' = "sync"
    <3>1. PICK new \in Content : impl' = Sync(impl, new)
      BY <2>2
    <3>2. (Changed(impl, new) => impl'.gen = impl.gen + 1) /\ (~Changed(impl, new) => SameContent(impl', impl))
      BY <2>1, <3>1, SyncInv
    <3>3. QED
      BY <2>1, <3>2 DEF SameContent
  <2>3. CASE SameContent(impl', impl)
    BY <2>1, <2>3 DEF SameContent
  <2>4. CASE impl' = Reset(impl)
    <3>1. impl'.gen = impl.gen + 1
      BY <2>1, <2>4, ResetInv
    <3>2. QED
      BY <2>1, <3>1
  <2>5. CASE UNCHANGED kernelVars
    BY <2>5
  <2>6. QED
    BY <1>1, <2>2, <2>3, <2>4, <2>5, ContentSteps
<1>2. QED
  BY <1>1, IInvInvariant, PTL DEF KernelSpec, GenerationNamesContent

\* The counts a changing sync reports are the sizes of the two differences.
THEOREM SyncReportsDifferences == KernelSpec => SyncCountsDifference
<1> DEFINE A == call' = "sync" /\ impl'.ret
                => /\ impl'.lastAdded   = Cardinality(impl'.digest \ impl.digest)
                   /\ impl'.lastRemoved = Cardinality(impl.digest \ impl'.digest)
<1>1. ASSUME IInv, [KernelNext]_kernelVars
      PROVE  [A]_kernelVars
  <2>1. impl \in Kernel /\ KernelInv(impl) /\ impl.digest \in Content
    BY <1>1, Fields DEF IInv, KernelTypeOK, Bookkeeping
  <2>2. CASE \E new \in Content : impl' = Sync(impl, new) /\ call' = "sync"
    <3>1. PICK new \in Content : impl' = Sync(impl, new)
      BY <2>2
    <3>2. CASE Changed(impl, new)
      <4>1. /\ impl'.digest = new /\ impl'.lastAdded = Added(impl.digest, new)
            /\ impl'.lastRemoved = Removed(impl.digest, new)
        BY <2>1, <3>1, <3>2, SyncInv
      <4>2. QED
        BY <2>1, <4>1, CountsAreDifferences
    <3>3. CASE ~Changed(impl, new)
      BY <2>1, <3>1, <3>3, SyncInv
    <3>4. QED
      BY <3>2, <3>3
  <2>3. CASE call' \notin {"sync", "reset"} \/ call' = "reset"
    BY <2>3
  <2>4. CASE UNCHANGED kernelVars
    BY <2>4
  <2>5. QED
    BY <1>1, <2>2, <2>3, <2>4, ContentSteps
<1>2. QED
  BY <1>1, IInvInvariant, PTL DEF KernelSpec, SyncCountsDifference

\* What may be read is there already, so a verb of its variant is free.
LEMMA ShownReusable ==
  ASSUME IInv, impl.classified
  PROVE  /\ impl \in Kernel /\ KernelInv(impl) /\ Reusables(impl)
         /\ impl.onto = [content |-> impl.digest, real |-> impl.builtReal]
         /\ impl.builtReal \in BOOLEAN
<1>1. impl \in Kernel /\ KernelInv(impl)
  BY DEF IInv, KernelTypeOK, Bookkeeping
<1>2. QED
  BY <1>1, ShownOntology, Fields DEF Reusables

\* Which action a call names.
LEMMA VerbSteps ==
  ASSUME KernelNext
  PROVE  /\ call' = "classification" =>
               \E loads \in BOOLEAN, outcome \in Outcome : impl' = Verb(impl, FALSE, loads, outcome)
         /\ call' = "realization" =>
               \E loads \in BOOLEAN, outcome \in Outcome : impl' = Verb(impl, TRUE, loads, outcome)
  BY DEF KernelNext, SyncCall, ClassificationCall, RealizationCall, ConsistencyCall,
         BuildBufferCall, ResetCall, Classification, Realization

\* Asking again for what may be read costs nothing, for any triples and bounds.
THEOREM Idempotent == KernelSpec => IdempotentPerGeneration
<1> DEFINE A == /\ impl.classified
                /\ call' = IF impl.onto.real THEN "realization" ELSE "classification"
                => /\ impl'.ret
                   /\ impl'.callGeneration = impl.callGeneration
                   /\ impl'.rebuilds = impl.rebuilds
                   /\ impl'.onto = impl.onto /\ impl'.classified
<1>1. ASSUME IInv, KernelNext, impl.classified,
             call' = IF impl.onto.real THEN "realization" ELSE "classification"
      PROVE  /\ impl'.ret /\ impl'.callGeneration = impl.callGeneration
             /\ impl'.rebuilds = impl.rebuilds /\ impl'.onto = impl.onto /\ impl'.classified
  <2>1. /\ impl \in Kernel /\ KernelInv(impl) /\ Reusables(impl)
        /\ impl.onto.real = impl.builtReal /\ impl.builtReal \in BOOLEAN
    BY <1>1, ShownReusable
  <2>2. PICK loads \in BOOLEAN, outcome \in Outcome :
               impl' = Verb(impl, impl.builtReal, loads, outcome)
    BY <1>1, <2>1, VerbSteps
  <2>3. Untouched(impl', impl) /\ impl'.ret = TRUE
    BY <2>1, <2>2, VerbFree
  <2>4. QED
    BY <2>3 DEF Untouched
<1>2. IInv /\ [KernelNext]_kernelVars => [A]_kernelVars
  BY <1>1
<1>3. QED
  BY <1>2, IInvInvariant, PTL DEF KernelSpec, IdempotentPerGeneration

\* Content that changed and changed back is served from what is loaded.
THEOREM ChangeBackFree == KernelSpec => ChangeBackIsFree
<1> DEFINE A == /\ impl.hidden /\ impl.hiddenClassified /\ impl.digest = impl.builtDigest
                /\ call' = IF impl.builtReal THEN "realization" ELSE "classification"
                => /\ impl'.ret
                   /\ impl'.callGeneration = impl.callGeneration
                   /\ impl'.rebuilds = impl.rebuilds
<1>1. ASSUME IInv, KernelNext, impl.hidden, impl.hiddenClassified, impl.digest = impl.builtDigest,
             call' = IF impl.builtReal THEN "realization" ELSE "classification"
      PROVE  impl'.ret /\ impl'.callGeneration = impl.callGeneration /\ impl'.rebuilds = impl.rebuilds
  <2>1. impl \in Kernel /\ KernelInv(impl) /\ Reusables(impl) /\ impl.builtReal \in BOOLEAN
    BY <1>1, Fields DEF IInv, KernelTypeOK, Bookkeeping, Reusables
  <2>2. PICK loads \in BOOLEAN, outcome \in Outcome :
               impl' = Verb(impl, impl.builtReal, loads, outcome)
    BY <1>1, <2>1, VerbSteps
  <2>3. Untouched(impl', impl) /\ impl'.ret = TRUE
    BY <2>1, <2>2, VerbFree
  <2>4. QED
    BY <2>3 DEF Untouched
<1>2. IInv /\ [KernelNext]_kernelVars => [A]_kernelVars
  BY <1>1
<1>3. QED
  BY <1>2, IInvInvariant, PTL DEF KernelSpec, ChangeBackIsFree

-----------------------------------------------------------------------------
(* The kernel implements ReasonerContract *)

\* The results a kernel shows, as the contract sees them.
Shown(s) == IF s.classified THEN {s.onto} ELSE {}

Result(c, real) == [content |-> c, real |-> real]

\* A verb shows the result asked for, or none; one that is shown already it keeps,
\* at no cost.
ServesContract(t, s, real) ==
  /\ SameContent(t, s)
  /\ \/ /\ Shown(s) = {Result(s.digest, real)}
        /\ Shown(t) = Shown(s) /\ t.callGeneration = s.callGeneration
     \/ /\ Shown(s) # {Result(s.digest, real)}
        /\ Shown(t) \in {{}, {Result(s.digest, real)}}
        /\ t.callGeneration \in {s.callGeneration, s.callGeneration + 1}

\* What a step has to show about a verb of either kind.
LEMMA ServesWhen ==
  ASSUME NEW s \in Kernel, KernelInv(s), NEW t \in Kernel, KernelInv(t),
         NEW real \in BOOLEAN, SameContent(t, s),
         t.callGeneration \in {s.callGeneration, s.callGeneration + 1},
         t.classified => t.builtReal = real,
         s.classified /\ s.builtReal = real => Untouched(t, s)
  PROVE  ServesContract(t, s, real)
<1>1. t.classified \in BOOLEAN /\ s.classified \in BOOLEAN /\ s.builtReal \in BOOLEAN
  BY Fields
<1>2. t.classified => t.onto = [content |-> t.digest, real |-> t.builtReal]
  BY ShownOntology
<1>3. s.classified => s.onto = [content |-> s.digest, real |-> s.builtReal]
  BY ShownOntology
<1>4. Shown(t) \in {{}, {Result(s.digest, real)}}
  BY <1>2 DEF Shown, Result, SameContent
<1>5. CASE Shown(s) = {Result(s.digest, real)}
  <2>1. s.classified /\ s.onto = Result(s.digest, real)
    BY <1>5 DEF Shown
  <2>2. s.builtReal = real
    BY <1>3, <2>1 DEF Result
  <2>3. t.onto = s.onto /\ t.classified = TRUE /\ t.callGeneration = s.callGeneration
    BY <2>1, <2>2 DEF Untouched
  <2>4. QED
    BY <1>5, <2>1, <2>3 DEF ServesContract, Shown
<1>6. CASE Shown(s) # {Result(s.digest, real)}
  BY <1>4, <1>6 DEF ServesContract
<1>7. QED
  BY <1>5, <1>6

\* A verb is a Serve step of ReasonerContract, or changes nothing it sees.
LEMMA VerbServesContract ==
  ASSUME NEW s \in Kernel, KernelInv(s), NEW real \in BOOLEAN, NEW loads \in BOOLEAN,
         NEW outcome \in Outcome
  PROVE  ServesContract(Verb(s, real, loads, outcome), s, real)
<1> DEFINE t == Verb(s, real, loads, outcome)
<1>1. Served(t, s, real)
  BY VerbInv
<1>2. s.classified /\ s.builtReal = real => Untouched(t, s)
  BY VerbFree DEF Reusables
<1>3. t.classified => t.builtReal = real
  BY <1>1, Fields DEF Served, KernelInv, ShownInv, None
<1> HIDE DEF t
<1>4. QED
  BY <1>1, <1>2, <1>3, ServesWhen DEF Served, t

\* consistency() is a Serve step of ReasonerContract, or changes nothing it sees.
LEMMA ConsistencyServesContract ==
  ASSUME NEW s \in Kernel, KernelInv(s), NEW loads \in BOOLEAN, NEW outcome \in Outcome
  PROVE  ServesContract(Consistency(s, loads, outcome), s, FALSE)
<1> DEFINE t == Consistency(s, loads, outcome)
<1>1. /\ t \in Kernel /\ KernelInv(t) /\ SameContent(t, s)
      /\ t.callGeneration \in {s.callGeneration, s.callGeneration + 1}
      /\ t.classified => t.builtReal = FALSE
  BY ConsistencyInv
<1>2. s.classified /\ s.builtReal = FALSE => Untouched(t, s)
  BY ConsistencyFree DEF Reusables
<1> HIDE DEF t
<1>3. QED
  BY <1>1, <1>2, ServesWhen DEF t

\* For any triples and bounds, the kernel with all its flags implements the
\* contract: content handed over, results shown for it or none, nothing run twice.
THEOREM KernelImplementsContract == KernelSpec => ImplementsContract
<1>1. KernelInit => Contract!Init
  BY DEF KernelInit, NewKernel, Contract!Init
<1>2. ASSUME IInv, KernelNext
      PROVE  Contract!Next \/ UNCHANGED Contract!vars
  <2>1. impl \in Kernel /\ KernelInv(impl)
    BY <1>2 DEF IInv, KernelTypeOK, Bookkeeping
  <2>2. ASSUME NEW new \in Content, SyncCall(new)
        PROVE  Contract!HandOver(new)
    <3>1. impl' = Sync(impl, new)
      BY <2>2 DEF SyncCall
    <3>2. CASE Changed(impl, new)
      <4>1. /\ impl'.digest = new /\ impl'.hasContent = TRUE /\ impl'.gen = impl.gen + 1
            /\ impl'.classified = FALSE /\ impl'.callGeneration = impl.callGeneration
        BY <2>1, <3>1, <3>2, SyncInv
      <4>2. ~impl.hasContent \/ new # impl.digest
        BY <2>1, <3>2, ChangedIsDifference
      <4>3. QED
        BY <4>1, <4>2 DEF Contract!HandOver
    <3>3. CASE ~Changed(impl, new)
      <4>1. /\ SameContent(impl', impl) /\ impl'.classified = impl.classified /\ impl'.onto = impl.onto
            /\ impl'.callGeneration = impl.callGeneration
        BY <2>1, <3>1, <3>3, SyncInv
      <4>2. impl.hasContent /\ new = impl.digest
        BY <2>1, <3>3, ChangedIsDifference
      <4>3. QED
        BY <4>1, <4>2 DEF Contract!HandOver, Contract!vars, SameContent
    <3>4. QED
      BY <3>2, <3>3
  <2>3. ASSUME NEW real \in BOOLEAN, ServesContract(impl', impl, real)
        PROVE  Contract!Serve(real)
    BY <2>3
    DEF ServesContract, Shown, Result, SameContent, Contract!Serve, Contract!ResultOf,
        Contract!vars
  <2>4. ASSUME NEW loads \in BOOLEAN, NEW outcome \in Outcome,
               \/ ClassificationCall(loads, outcome)
               \/ RealizationCall(loads, outcome)
               \/ ConsistencyCall(loads, outcome)
        PROVE  \E real \in BOOLEAN : Contract!Serve(real)
    <3>1. CASE ClassificationCall(loads, outcome)
      <4>1. ServesContract(impl', impl, FALSE)
        BY <2>1, <3>1, VerbServesContract DEF ClassificationCall, Classification
      <4>2. QED BY <2>3, <4>1
    <3>2. CASE RealizationCall(loads, outcome)
      <4>1. ServesContract(impl', impl, TRUE)
        BY <2>1, <3>2, VerbServesContract DEF RealizationCall, Realization
      <4>2. QED BY <2>3, <4>1
    <3>3. CASE ConsistencyCall(loads, outcome)
      <4>1. ServesContract(impl', impl, FALSE)
        BY <2>1, <3>3, ConsistencyServesContract DEF ConsistencyCall
      <4>2. QED BY <2>3, <4>1
    <3>4. QED
      BY <2>4, <3>1, <3>2, <3>3
  <2>5. CASE BuildBufferCall
    <3>1. /\ SameContent(impl', impl) /\ impl'.callGeneration = impl.callGeneration
          /\ impl'.classified = impl.classified /\ impl'.onto = impl.onto
      BY <2>1, <2>5, BuildBufferInv DEF BuildBufferCall
    <3>2. QED
      BY <3>1 DEF Contract!vars, SameContent
  <2>6. CASE ResetCall
    <3>1. /\ impl'.digest = {} /\ impl'.hasContent = FALSE /\ impl'.gen = impl.gen + 1
          /\ impl'.classified = FALSE /\ impl'.callGeneration = impl.callGeneration
      BY <2>1, <2>6, ResetInv DEF ResetCall
    <3>2. Contract!Forget
      BY <3>1 DEF Contract!Forget
    <3>3. QED
      BY <3>2 DEF Contract!Next
  <2>7. QED
    BY <1>2, <2>2, <2>4, <2>5, <2>6 DEF KernelNext, Contract!Next
<1>3. ASSUME UNCHANGED kernelVars
      PROVE  UNCHANGED Contract!vars
  BY <1>3 DEF kernelVars, Contract!vars
<1>4. IInv /\ [KernelNext]_kernelVars => [Contract!Next]_(Contract!vars)
  BY <1>2, <1>3
<1>5. QED
  BY <1>1, <1>4, IInvInvariant, PTL DEF KernelSpec, ImplementsContract, Contract!Spec

-----------------------------------------------------------------------------
(* The types of the state *)

AtMostOne(S) == \A x, y \in S : x = y

GraphType(f) ==
  /\ f \in [Store -> [Graph -> SUBSET Written]]
  /\ \A s \in Store, g \in Graph : AtMostOne(f[s][g])
CacheType(c) ==
  c \in [Slot -> SUBSET Entry] /\ \A slot \in Slot : AtMostOne(c[slot])
VerdictType(v) == v \subseteq Verdict /\ AtMostOne(v)
OpType(x)      == x \subseteq Running /\ AtMostOne(x)
LastType(x)    == x \subseteq Ended /\ AtMostOne(x)

\* The state of the operations is well-typed and the flags of the kernel agree.
TypeInv ==
  /\ k \in Kernel /\ KernelInv(k)
  /\ source \in [Store -> Content]
  /\ GraphType(graph) /\ CacheType(cache) /\ VerdictType(verdict)
  /\ OpType(op) /\ LastType(last)
  /\ edits \in 0..scenario.maxEdits /\ ops \in 0..scenario.maxOps /\ scenario \in Scenarios

\* A set with at most one element has a size of at most one.
LEMMA SmallSet ==
  ASSUME NEW S, AtMostOne(S)
  PROVE  Cardinality(S) <= 1
<1>1. CASE S = {}
  BY <1>1, FS_EmptySet
<1>2. CASE S # {}
  <2>1. PICK x \in S : TRUE
    BY <1>2
  <2>2. S = {x}
    BY <2>1 DEF AtMostOne
  <2>3. Cardinality(S) = 1
    BY <2>2, FS_Singleton
  <2>4. QED
    BY <2>3
<1>3. QED
  BY <1>1, <1>2

\* Putting one result, or nothing, into one graph touches no other graph.
LEMMA GraphPut ==
  ASSUME NEW f, GraphType(f), NEW s \in Store, NEW g \in Graph,
         NEW W \in SUBSET Written, AtMostOne(W)
  PROVE  LET h == [f EXCEPT ![s][g] = W]
         IN /\ GraphType(h) /\ h[s][g] = W
            /\ \A r \in Store, i \in Graph : r # s \/ i # g => h[r][i] = f[r][i]
<1> DEFINE h == [f EXCEPT ![s][g] = W]
<1>1. f \in [Store -> [Graph -> SUBSET Written]]
  BY DEF GraphType
<1>2. h \in [Store -> [Graph -> SUBSET Written]]
  BY <1>1
<1>3. h[s][g] = W
  BY <1>1
<1>4. \A r \in Store, i \in Graph : r # s \/ i # g => h[r][i] = f[r][i]
  BY <1>1
<1> HIDE DEF h
<1>5. GraphType(h)
  BY <1>2, <1>3, <1>4 DEF GraphType
<1>6. QED
  BY <1>3, <1>4, <1>5 DEF h

\* What an operation hands over is a content.
LEMMA HandedType ==
  ASSUME TypeInv, NEW s \in Store, NEW g \in Graph, NEW name \in Operation
  PROVE  Handed(name, s, g) \in Content
<1>1. source[s] \in Content
  BY DEF TypeInv
<1>2. Derived \in Triple /\ Assumed \in Triple
  BY StoreAssumption
<1>3. QED
  BY <1>1, <1>2 DEF Handed, Encoded, Content

\* A fresh Worker that was given a content again holds that content.
LEMMA ReplayedHolds ==
  ASSUME NEW c \in Content
  PROVE  Replayed(c) \in Kernel /\ KernelInv(Replayed(c)) /\ Replayed(c).digest = c
  BY NewKernelInv, SyncHolds DEF Replayed

\* A verb, however it ends, keeps the content of the kernel.
LEMMA RunVerbHolds ==
  ASSUME NEW s \in Kernel, KernelInv(s), NEW o, NEW loads \in BOOLEAN,
         NEW outcome \in Outcome
  PROVE  LET t == RunVerb(s, o, loads, outcome)
         IN t \in Kernel /\ KernelInv(t) /\ t.digest = s.digest /\ t.gen = s.gen
<1>1. \A real \in BOOLEAN : Served(Verb(s, real, loads, outcome), s, real)
  BY VerbInv
<1>2. \A real \in BOOLEAN :
        LET t == Verb(s, real, loads, outcome)
        IN t \in Kernel /\ KernelInv(t) /\ t.digest = s.digest /\ t.gen = s.gen
  BY <1>1 DEF Served, SameContent
<1>3. CASE Realizes(o)
  BY <1>2, <1>3 DEF RunVerb, Realization
<1>4. CASE ~Realizes(o)
  BY <1>2, <1>4 DEF RunVerb, Classification
<1>5. QED
  BY <1>3, <1>4

\* An operation that ends is recorded with what it was asked, and nothing runs.
LEMMA Ends ==
  ASSUME NEW o \in Running, NEW ok \in BOOLEAN, NEW answer \in BOOLEAN, End(o, ok, answer)
  PROVE  /\ op' = {} /\ OpType(op') /\ LastType(last')
         /\ \A z \in last' :
              /\ z.name = o.name /\ z.store = o.store /\ z.graph = o.graph
              /\ z.hierarchy = o.hierarchy /\ z.content = o.content
              /\ z.ok = ok /\ z.answer = answer
<1> DEFINE r == [name |-> o.name, store |-> o.store, graph |-> o.graph,
                 hierarchy |-> o.hierarchy, content |-> o.content, ok |-> ok, answer |-> answer]
<1>1. op' = {} /\ last' = {r}
  BY DEF End
<1>2. r \in Ended
  BY DEF Ended, Running
<1>3. /\ r.name = o.name /\ r.store = o.store /\ r.graph = o.graph
      /\ r.hierarchy = o.hierarchy /\ r.content = o.content
      /\ r.ok = ok /\ r.answer = answer
  OBVIOUS
<1> HIDE DEF r
<1>4. QED
  BY <1>1, <1>2, <1>3 DEF OpType, LastType, AtMostOne

Stages == {"verb", "consistency", "read", "list"}

\* An operation that goes on is the same operation at another stage.
LEMMA GoesOn ==
  ASSUME NEW o \in Running, NEW at \in Stages, Goto(o, at)
  PROVE  /\ last' = {} /\ LastType(last') /\ OpType(op') /\ op' # {}
         /\ \A p \in op' :
              /\ p.name = o.name /\ p.store = o.store /\ p.graph = o.graph
              /\ p.hierarchy = o.hierarchy /\ p.content = o.content
              /\ p.gen = o.gen /\ p.at = at
<1> DEFINE p == [o EXCEPT !.at = at]
<1>1. op' = {p} /\ last' = {}
  BY DEF Goto
<1>2. p \in Running
  BY DEF Running, Stages
<1>3. /\ p.name = o.name /\ p.store = o.store /\ p.graph = o.graph
      /\ p.hierarchy = o.hierarchy /\ p.content = o.content
      /\ p.gen = o.gen /\ p.at = at
  BY DEF Running
<1> HIDE DEF p
<1>4. QED
  BY <1>1, <1>2, <1>3 DEF OpType, LastType, AtMostOne

-----------------------------------------------------------------------------
(* What each step does *)

\* The operation that Begin starts, before its sync.
Asked(name, s, g, hierarchy) ==
  [name |-> name, store |-> s, graph |-> g, hierarchy |-> hierarchy,
   gen |-> 0, content |-> Handed(name, s, g), at |-> "verb"]

\* The operation that Begin starts is a running operation that holds its content.
LEMMA AskedFields ==
  ASSUME TypeInv, NEW name \in Operation, NEW s \in Store, NEW g \in Graph,
         NEW hierarchy \in BOOLEAN
  PROVE  LET o == Asked(name, s, g, hierarchy)
         IN /\ o \in Running /\ o.name = name /\ o.store = s /\ o.graph = g
            /\ o.hierarchy = hierarchy /\ o.content = Handed(name, s, g) /\ o.at = "verb"
            /\ o.content \in Content
<1>1. Handed(name, s, g) \in Content
  BY HandedType
<1>2. QED
  BY <1>1 DEF Asked, Running

\* A sync that succeeded: the operation answers from its cache or goes on to its verb,
\* with the graph it will write cleared.
LEMMA SyncedCases ==
  ASSUME NEW o \in Running, o.at = "verb", NEW k1, k1.gen \in Int, NEW cache1, NEW verdict1,
         VerdictType(verdict1), GraphType(graph), Synced(o, k1, cache1, verdict1)
  PROVE  /\ k' = k1 /\ cache' = cache1 /\ verdict' = verdict1
         /\ \E now \in Running :
              /\ now.name = o.name /\ now.store = o.store /\ now.graph = o.graph
              /\ now.hierarchy = o.hierarchy /\ now.content = o.content
              /\ now.gen = k1.gen /\ now.at = "verb"
              /\ \/ /\ Hit(o, k1.gen, cache1, verdict1)
                    /\ o.name = "unsatisfiable" /\ Goto(now, "list") /\ graph' = graph
                 \/ /\ Hit(o, k1.gen, cache1, verdict1)
                    /\ o.name = "checkConsistency" /\ graph' = graph
                    /\ \E v \in verdict1 : v.gen = k1.gen /\ End(now, TRUE, v.consistent)
                 \/ /\ Hit(o, k1.gen, cache1, verdict1)
                    /\ o.name \notin {"unsatisfiable", "checkConsistency"}
                    /\ End(now, TRUE, TRUE) /\ graph' = graph
                 \/ /\ Goto(now, "verb")
                    /\ graph' = IF Overwrites(o.name) THEN Cleared(o) ELSE graph
<1> DEFINE now == [o EXCEPT !.gen = k1.gen]
<1>1. /\ now \in Running
      /\ now.name = o.name /\ now.store = o.store /\ now.graph = o.graph
      /\ now.hierarchy = o.hierarchy /\ now.content = o.content
      /\ now.gen = k1.gen /\ now.at = "verb"
  BY DEF Running
<1>2. /\ k' = k1 /\ cache' = cache1 /\ verdict' = verdict1
      /\ \/ /\ Hit(o, k1.gen, cache1, verdict1)
            /\ o.name = "unsatisfiable" /\ Goto(now, "list") /\ graph' = graph
         \/ /\ Hit(o, k1.gen, cache1, verdict1) /\ o.name = "checkConsistency"
            /\ \E v \in verdict1 : End(now, TRUE, v.consistent)
            /\ graph' = graph
         \/ /\ Hit(o, k1.gen, cache1, verdict1)
            /\ o.name \notin {"unsatisfiable", "checkConsistency"}
            /\ End(now, TRUE, TRUE) /\ graph' = graph
         \/ /\ Goto(now, "verb")
            /\ graph' = IF Overwrites(o.name) THEN Cleared(o) ELSE graph
  BY Zenon DEF Synced
<1> HIDE DEF now
<1>3. ASSUME Hit(o, k1.gen, cache1, verdict1), o.name = "checkConsistency"
      PROVE  \A v \in verdict1 : v.gen = k1.gen
  BY <1>3 DEF Hit, VerdictType, AtMostOne
<1>4. QED
  BY <1>1, <1>2, <1>3

\* How an operation begins: with a sync of its content, in the same Worker or in a
\* fresh one, or with a failure.
LEMMA BeginCases ==
  ASSUME TypeInv, NEW name \in Operation, NEW s \in Store, NEW g \in Graph,
         NEW hierarchy \in BOOLEAN, Begin(name, s, g, hierarchy)
  PROVE  LET o == Asked(name, s, g, hierarchy)
         IN /\ op = {} /\ ops' \in 0..scenario.maxOps
            /\ source' = source /\ edits' = edits /\ scenario' = scenario
            /\ s \in scenario.stores /\ g \in scenario.graphs /\ hierarchy \in scenario.hierarchy
            /\ \/ Synced(o, Sync(k, o.content), cache, verdict)
               \/ /\ "recover" \in scenario.faults
                  /\ Synced(o, Replayed(o.content), NoCache, {})
               \/ /\ "throw" \in scenario.faults /\ End(o, FALSE, FALSE)
                  /\ graph' = IF name \in Writers THEN Cleared(o) ELSE graph
                  /\ \/ k' = k /\ cache' = cache /\ verdict' = verdict
                     \/ k' = NewKernel /\ cache' = NoCache /\ verdict' = {}
<1>1. ops' = ops + 1 /\ ops < scenario.maxOps
  BY DEF Begin
<1>2. ops \in Nat /\ scenario.maxOps \in Nat
  BY StoreAssumption DEF TypeInv
<1>3. ops' \in 0..scenario.maxOps
  BY <1>1, <1>2
<1>4. QED
  BY <1>3, Zenon DEF Begin, Asked, Recoverable, Dropped

\* An empty cache is well-typed.
LEMMA NoCacheType == CacheType(NoCache) /\ VerdictType({})
  BY DEF CacheType, VerdictType, NoCache, AtMostOne

\* Clearing the graph of an operation clears that graph and no other.
LEMMA ClearedFields ==
  ASSUME GraphType(graph), NEW o \in Running
  PROVE  /\ GraphType(Cleared(o)) /\ Cleared(o)[o.store][o.graph] = {}
         /\ \A r \in Store, i \in Graph :
              r # o.store \/ i # o.graph => Cleared(o)[r][i] = graph[r][i]
<1>1. o.store \in Store /\ o.graph \in Graph /\ {} \in SUBSET Written /\ AtMostOne({})
  BY DEF Running, AtMostOne
<1>2. QED
  <2>1. ASSUME NEW W \in SUBSET Written, AtMostOne(W)
        PROVE  LET h == [graph EXCEPT ![o.store][o.graph] = W]
               IN /\ GraphType(h) /\ h[o.store][o.graph] = W
                  /\ \A r \in Store, i \in Graph :
                       r # o.store \/ i # o.graph => h[r][i] = graph[r][i]
    BY <1>1, <2>1, GraphPut
  <2>2. QED
    BY <1>1, <2>1, Zenon DEF Cleared

\* A sync that succeeded leaves everything well-typed.
LEMMA SyncedType ==
  ASSUME NEW o \in Running, o.at = "verb", NEW k1 \in Kernel, NEW cache1, NEW verdict1,
         VerdictType(verdict1), GraphType(graph), Synced(o, k1, cache1, verdict1)
  PROVE  /\ k' = k1 /\ cache' = cache1 /\ verdict' = verdict1
         /\ GraphType(graph') /\ OpType(op') /\ LastType(last')
<1>1. k1.gen \in Int
  BY Fields
<1>2. /\ k' = k1 /\ cache' = cache1 /\ verdict' = verdict1
      /\ \E now \in Running :
           /\ \/ Goto(now, "list") /\ graph' = graph
              \/ graph' = graph /\ \E v \in verdict1 : End(now, TRUE, v.consistent)
              \/ End(now, TRUE, TRUE) /\ graph' = graph
              \/ /\ Goto(now, "verb")
                 /\ graph' = IF Overwrites(o.name) THEN Cleared(o) ELSE graph
  BY <1>1, SyncedCases, Zenon
<1>3. GraphType(graph')
  BY <1>2, ClearedFields
<1>4. \A v \in verdict1 : v.consistent \in BOOLEAN
  BY DEF VerdictType, Verdict
<1>5. "list" \in Stages /\ "verb" \in Stages /\ TRUE \in BOOLEAN
  BY DEF Stages
<1>6. OpType(op') /\ LastType(last')
  BY <1>2, <1>4, <1>5, GoesOn, Ends
<1>7. QED
  BY <1>2, <1>3, <1>6

\* A running operation is the one in op, and well-typed.
LEMMA TheRunning ==
  ASSUME TypeInv, NEW o \in op
  PROVE  o \in Running /\ o.content \in Content /\ (\A p \in op : p = o)
  BY DEF TypeInv, OpType, AtMostOne, Running

\* How a verb ends: the operation goes on to read, whatever the verb answered, or it
\* fails; the kernel keeps its content or was replaced by one that was given it again.
LEMMA VerbStepCases ==
  ASSUME TypeInv, NEW o \in op, VerbStep(o)
  PROVE  /\ o.at = "verb" /\ k' \in Kernel /\ KernelInv(k')
         /\ graph' = graph /\ source' = source /\ edits' = edits /\ ops' = ops
         /\ scenario' = scenario
         /\ (cache' = cache /\ verdict' = verdict) \/ (cache' = NoCache /\ verdict' = {})
         /\ k'.digest \in {k.digest, o.content}
         /\ \/ Goto(o, IF o.name = "checkConsistency" THEN "consistency" ELSE "read")
            \/ End(o, FALSE, FALSE)
<1>1. o \in Running /\ o.content \in Content /\ k \in Kernel /\ KernelInv(k)
  BY TheRunning DEF TypeInv
<1>2. Completes(o) \in Outcome /\ "incomplete" \in Outcome /\ "stall" \in Outcome
      /\ TRUE \in BOOLEAN
  BY DEF Completes, Outcome
<1> DEFINE R == Replayed(o.content)
           Fine(t) == t \in Kernel /\ KernelInv(t) /\ t.digest \in {k.digest, o.content}
<1>3. Fine(k)
  BY <1>1
<1>4. R \in Kernel /\ KernelInv(R) /\ R.digest = o.content
  BY <1>1, ReplayedHolds
<1>5. \A loads \in BOOLEAN, outcome \in Outcome : Fine(RunVerb(k, o, loads, outcome))
  BY <1>1, RunVerbHolds
<1> HIDE DEF R
<1>6. \A loads \in BOOLEAN, outcome \in Outcome : Fine(RunVerb(R, o, loads, outcome))
  BY <1>4, RunVerbHolds
<1>7. Fine(R)
  BY <1>4
<1> HIDE DEF Fine
<1>8. Fine(k')
  <2>1. \/ k' = RunVerb(k, o, TRUE, Completes(o))
        \/ \E loads \in BOOLEAN : k' = RunVerb(k, o, loads, "incomplete")
        \/ k' = RunVerb(R, o, TRUE, Completes(o))
        \/ k' = k
        \/ k' = RunVerb(k, o, TRUE, "stall")
        \/ k' \in {R, RunVerb(R, o, TRUE, "stall")}
    BY DEF VerbStep, R
  <2>2. QED
    BY <1>2, <1>3, <1>5, <1>6, <1>7, <2>1
<1>9. /\ o.at = "verb"
      /\ graph' = graph /\ source' = source /\ edits' = edits /\ ops' = ops
      /\ scenario' = scenario
      /\ (cache' = cache /\ verdict' = verdict) \/ (cache' = NoCache /\ verdict' = {})
      /\ \/ Goto(o, IF o.name = "checkConsistency" THEN "consistency" ELSE "read")
         \/ End(o, FALSE, FALSE)
  BY Zenon DEF VerbStep, AfterVerb, Dropped
<1>10. QED
  BY <1>8, <1>9 DEF Fine

\* How checkConsistency ends: with the verdict of the kernel, which it keeps, or it fails.
LEMMA ConsistencyStepCases ==
  ASSUME TypeInv, NEW o \in op, ConsistencyStep(o)
  PROVE  /\ o.at = "consistency" /\ k' \in Kernel /\ KernelInv(k')
         /\ graph' = graph /\ source' = source /\ edits' = edits /\ ops' = ops
         /\ scenario' = scenario
         /\ CacheType(cache') /\ VerdictType(verdict')
         /\ End(o, TRUE, k'.ret) \/ End(o, FALSE, FALSE)
<1>1. /\ o \in Running /\ o.content \in Content /\ k \in Kernel /\ KernelInv(k)
      /\ CacheType(cache) /\ VerdictType(verdict) /\ CacheType(NoCache)
  BY TheRunning, NoCacheType DEF TypeInv
<1>2. "classified" \in Outcome /\ "incomplete" \in Outcome /\ TRUE \in BOOLEAN
      /\ FALSE \in BOOLEAN
  BY DEF Outcome
<1> DEFINE R == Replayed(o.content)
           V == Classification(R, TRUE, "classified")
           Fine(t) == t \in Kernel /\ KernelInv(t)
<1>3. Fine(R)
  BY <1>1, ReplayedHolds
<1>4. Fine(V)
  <2>1. Served(Verb(R, FALSE, TRUE, "classified"), R, FALSE)
    BY <1>2, <1>3, VerbInv
  <2>2. QED
    BY <2>1 DEF Served, Classification
<1> HIDE DEF V
<1>5. \A s : Fine(s) => \A loads \in BOOLEAN, outcome \in Outcome :
                          Fine(Consistency(s, loads, outcome))
  BY ConsistencyInv
<1>6. Fine(k)
  BY <1>1
<1> HIDE DEF Fine
<1>7. ASSUME NEW k1, Fine(k1), NEW c, CacheType(c), Judged(o, k1, c)
      PROVE  /\ Fine(k') /\ graph' = graph /\ CacheType(cache') /\ VerdictType(verdict')
             /\ End(o, TRUE, k'.ret)
  <2>1. /\ k' = k1 /\ verdict' = {[gen |-> o.gen, consistent |-> k1.ret]}
        /\ cache' = [slot \in Slot |-> {e \in c[slot] : e.gen = o.gen}]
        /\ End(o, TRUE, k1.ret) /\ graph' = graph
    BY <1>7 DEF Judged
  <2>2. k1.ret \in BOOLEAN /\ o.gen \in Int
    BY <1>1, <1>7, Fields DEF Fine, Running
  <2>3. VerdictType(verdict')
    BY <2>1, <2>2 DEF VerdictType, Verdict, AtMostOne
  <2>4. CacheType(cache')
    BY <1>7, <2>1 DEF CacheType, AtMostOne
  <2>5. QED
    BY <1>7, <2>1, <2>3, <2>4
<1>8. \/ \E k1, c : Fine(k1) /\ CacheType(c) /\ Judged(o, k1, c)
      \/ /\ End(o, FALSE, FALSE)
         /\ k' = k /\ graph' = graph /\ cache' = cache /\ verdict' = verdict
  <2>1. \/ Judged(o, Consistency(k, TRUE, "classified"), cache)
        \/ \E loads \in BOOLEAN : Judged(o, Consistency(k, loads, "incomplete"), cache)
        \/ Judged(o, Consistency(V, TRUE, "classified"), NoCache)
        \/ /\ End(o, FALSE, FALSE)
           /\ k' = k /\ graph' = graph /\ cache' = cache /\ verdict' = verdict
    BY DEF ConsistencyStep, V
  <2>2. QED
    BY <1>1, <1>2, <1>4, <1>5, <1>6, <2>1
<1>9. Fine(k') /\ graph' = graph /\ CacheType(cache') /\ VerdictType(verdict')
      /\ (End(o, TRUE, k'.ret) \/ End(o, FALSE, FALSE))
  BY <1>1, <1>6, <1>7, <1>8
<1>10. /\ o.at = "consistency"
       /\ source' = source /\ edits' = edits /\ ops' = ops /\ scenario' = scenario
  BY DEF ConsistencyStep
<1>11. QED
  BY <1>9, <1>10 DEF Fine

\* An operation that overwrites its graph uses one of the caches.
LEMMA SlotType ==
  ASSUME NEW name \in Operation, Overwrites(name)
  PROVE  SlotOf(name) \in Slot
  BY DEF Operation, Writers, Entailed, Overwrites, Slot, SlotOf

\* What an operation writes are parts of a result.
LEMMA PartsType ==
  ASSUME NEW o \in Running, Overwrites(o.name)
  PROVE  PartsRead(o) \in SUBSET Part
<1>1. SlotOf(o.name) \in {"classify", "materialize", "classifyProperties"}
  BY SlotType DEF Slot, Writers, Running
<1> DEFINE slot == SlotOf(o.name)
<1>2. PartsRead(o) =
        CASE slot = "classifyProperties" -> {"properties"}
          [] slot = "classify"    -> {"hierarchy"}
          [] slot = "materialize" ->
               {p \in {"hierarchy", "individuals"} :
                  /\ p = "individuals" => k.realized
                  /\ p = "hierarchy"   => o.hierarchy \/ o.name = "typeEntailed"}
  BY DEF PartsRead
<1> HIDE DEF slot
<1>3. slot \in {"classify", "materialize", "classifyProperties"}
  BY <1>1 DEF slot
<1>4. QED
  BY <1>2, <1>3 DEF Part

\* What an operation keeps in its cache: its own generation and store, nothing else.
LEMMA CachedFields ==
  ASSUME NEW o \in Running, Overwrites(o.name)
  PROVE  /\ CacheType(Cached(o))
         /\ \A slot \in Slot : \A e \in Cached(o)[slot] :
              slot = SlotOf(o.name) /\ e.gen = o.gen /\ e.store = o.store
<1> DEFINE e == [gen |-> o.gen, store |-> o.store]
           c == [NoCache EXCEPT ![SlotOf(o.name)] = {e}]
<1>1. SlotOf(o.name) \in Slot
  BY SlotType DEF Running
<1>2. e \in Entry /\ e.gen = o.gen /\ e.store = o.store
  BY DEF Entry, Running
<1> HIDE DEF e
<1>3. \A slot \in Slot : c[slot] = IF slot = SlotOf(o.name) THEN {e} ELSE {}
  BY <1>1 DEF NoCache
<1>4. c \in [Slot -> SUBSET Entry]
  BY <1>1, <1>2 DEF NoCache
<1>5. Cached(o) = c
  BY DEF Cached, e
<1> HIDE DEF c
<1>6. CacheType(c)
  BY <1>3, <1>4 DEF CacheType, AtMostOne
<1>7. QED
  BY <1>2, <1>3, <1>5, <1>6

-----------------------------------------------------------------------------
(* The invariant of a running operation *)

\* A running operation that will write its graph.
Writing(o) == o.at \in {"verb", "read"} /\ Overwrites(o.name)

\* The kernel holds the content of the operation, each kind of operation has its own
\* stages, and the graph that will be written has been cleared.
OpInv ==
  \A o \in op :
    /\ k.digest = o.content
    /\ o.at = "consistency" => o.name = "checkConsistency"
    /\ o.at = "read" => o.name # "checkConsistency"
    /\ o.at = "list" => o.name = "unsatisfiable"
    /\ Writing(o) => graph[o.store][o.graph] = {}

\* How reading results ends: with the buffer of the kernel in the graph, with the
\* comparison whatIf makes, or with a failure.
LEMMA ReadStepCases ==
  ASSUME TypeInv, OpInv, NEW o \in op, ReadStep(o)
  PROVE  /\ o.at = "read" /\ o.name # "checkConsistency" /\ k.digest = o.content
         /\ k' \in Kernel /\ KernelInv(k') /\ SameContent(k', k) /\ k'.classified = k.classified
         /\ RealizedInv(k) => RealizedInv(k')
         /\ source' = source /\ edits' = edits /\ ops' = ops /\ scenario' = scenario
         /\ GraphType(graph') /\ CacheType(cache') /\ VerdictType(verdict')
         /\ \/ /\ o.name # "whatIf" /\ cache' = Cached(o) /\ verdict' = verdict
               /\ IF o.name = "unsatisfiable" THEN Goto(o, "list") ELSE End(o, TRUE, TRUE)
               /\ IF k.classified
                  THEN /\ \E w \in Written :
                            /\ w.content = k.digest /\ w.parts = PartsRead(o)
                            /\ graph'[o.store][o.graph] = {w}
                       /\ \A r \in Store, i \in Graph :
                            r # o.store \/ i # o.graph => graph'[r][i] = graph[r][i]
                  ELSE graph' = graph
            \/ /\ o.name = "whatIf" /\ cache' = NoCache /\ verdict' = {} /\ graph' = graph
               /\ \E b \in BOOLEAN : End(o, TRUE, b) /\ (k.classified => b)
            \/ /\ End(o, FALSE, FALSE)
               /\ graph' = graph /\ cache' = cache /\ verdict' = verdict
<1>1. /\ o \in Running /\ o.content \in Content /\ k \in Kernel /\ KernelInv(k)
      /\ GraphType(graph) /\ CacheType(cache) /\ VerdictType(verdict) /\ CacheType(NoCache)
      /\ VerdictType({})
  BY TheRunning, NoCacheType DEF TypeInv
<1>2. /\ o.at = "read"
      /\ source' = source /\ edits' = edits /\ ops' = ops /\ scenario' = scenario
  BY DEF ReadStep
<1>3. o.name # "checkConsistency" /\ k.digest = o.content
  BY <1>2 DEF OpInv
<1>4. CASE o.name # "whatIf" /\ ~End(o, FALSE, FALSE)
  <2> DEFINE w == [content |-> k'.buffer.content, parts |-> PartsRead(o)]
             h == [graph EXCEPT ![o.store][o.graph] = {w}]
  <2>1. /\ k' = BuildBuffer(k)
        /\ graph' = IF k'.ret THEN h ELSE graph
        /\ cache' = Cached(o) /\ verdict' = verdict
        /\ IF o.name = "unsatisfiable" THEN Goto(o, "list") ELSE End(o, TRUE, TRUE)
    BY <1>4, Zenon DEF ReadStep
  <2>2. /\ k' \in Kernel /\ KernelInv(k') /\ SameContent(k', k)
        /\ k'.classified = k.classified
        /\ k'.ret = k.classified /\ (k.classified => k'.buffer.content = k.digest)
        /\ k'.buffer.content \in Content
    BY <1>1, <2>1, BuildBufferInv, BuildBufferReads
  <2>3. RealizedInv(k) => RealizedInv(k')
    BY <1>1, <2>1, BuildBufferRealized
  <2>4. Overwrites(o.name)
    BY <1>3, <1>4 DEF Overwrites
  <2>5. PartsRead(o) \in SUBSET Part
    BY <1>1, <2>4, PartsType
  <2>6. w \in Written /\ w.content = k'.buffer.content /\ w.parts = PartsRead(o)
    BY <2>2, <2>5 DEF Written
  <2> HIDE DEF w
  <2>7. /\ GraphType(h) /\ h[o.store][o.graph] = {w}
        /\ \A r \in Store, i \in Graph :
             r # o.store \/ i # o.graph => h[r][i] = graph[r][i]
    <3>1. \A W \in SUBSET Written : AtMostOne(W) =>
            LET g == [graph EXCEPT ![o.store][o.graph] = W]
            IN /\ GraphType(g) /\ g[o.store][o.graph] = W
               /\ \A r \in Store, i \in Graph :
                    r # o.store \/ i # o.graph => g[r][i] = graph[r][i]
      <4>1. o.store \in Store /\ o.graph \in Graph
        BY <1>1 DEF Running
      <4>2. QED
        BY <1>1, <4>1, GraphPut
    <3>2. {w} \in SUBSET Written /\ AtMostOne({w})
      BY <2>6 DEF AtMostOne
    <3>3. QED
      BY <3>1, <3>2, Zenon
  <2> HIDE DEF h
  <2>8. GraphType(graph')
    BY <1>1, <2>1, <2>7
  <2>9. IF k.classified
        THEN /\ \E x \in Written :
                  /\ x.content = k.digest /\ x.parts = PartsRead(o)
                  /\ graph'[o.store][o.graph] = {x}
             /\ \A r \in Store, i \in Graph :
                  r # o.store \/ i # o.graph => graph'[r][i] = graph[r][i]
        ELSE graph' = graph
    BY <2>1, <2>2, <2>6, <2>7
  <2>10. CacheType(cache')
    BY <1>1, <2>1, <2>4, CachedFields
  <2>11. QED
    BY <1>1, <1>2, <1>3, <1>4, <2>1, <2>2, <2>3, <2>8, <2>9, <2>10
<1>5. CASE o.name = "whatIf" /\ ~End(o, FALSE, FALSE)
  <2> DEFINE b == k'.ret /\ k'.buffer.content = o.content
  <2>1. /\ k' = BuildBuffer(k) /\ cache' = NoCache /\ verdict' = {}
        /\ End(o, TRUE, b) /\ graph' = graph
    BY <1>5, Zenon DEF ReadStep, Dropped
  <2>2. /\ k' \in Kernel /\ KernelInv(k') /\ SameContent(k', k)
        /\ k'.classified = k.classified
        /\ k'.ret = k.classified /\ (k.classified => k'.buffer.content = k.digest)
    BY <1>1, <2>1, BuildBufferInv, BuildBufferReads
  <2>3. RealizedInv(k) => RealizedInv(k')
    BY <1>1, <2>1, BuildBufferRealized
  <2>4. b \in BOOLEAN /\ (k.classified => b)
    BY <1>1, <1>3, <2>2, Fields
  <2> HIDE DEF b
  <2>5. QED
    BY <1>1, <1>2, <1>3, <1>5, <2>1, <2>2, <2>3, <2>4
<1>6. CASE End(o, FALSE, FALSE)
  <2>1. ~End(o, TRUE, TRUE) /\ ~Goto(o, "list") /\ \A b : ~End(o, TRUE, b)
    <3>1. PICK z \in last' : z.ok = FALSE
      <4>1. last' # {} /\ \A z \in last' : z.ok = FALSE
        BY <1>1, <1>6, Ends DEF End
      <4>2. QED
        BY <4>1
    <3>2. \A b : ~End(o, TRUE, b)
      BY <3>1 DEF End
    <3>3. QED
      BY <3>1, <3>2 DEF Goto
  <2>2. k' = k /\ graph' = graph /\ cache' = cache /\ verdict' = verdict
    <3>1. \/ o.name = "unsatisfiable" /\ Goto(o, "list")
          \/ End(o, TRUE, TRUE)
          \/ \E b : End(o, TRUE, b)
          \/ k' = k /\ graph' = graph /\ cache' = cache /\ verdict' = verdict
      BY Zenon DEF ReadStep
    <3>2. QED
      BY <2>1, <3>1
  <2>3. QED
    BY <1>1, <1>2, <1>3, <1>6, <2>2 DEF SameContent
<1>7. QED
  BY <1>4, <1>5, <1>6

-----------------------------------------------------------------------------
(* Type correctness, and what failing operations leave *)

SafeInv == TypeInv /\ OpInv /\ FailedLeavesNothing

\* Nothing runs and nothing was written when the stores are created.
LEMMA InitSafe == Init => SafeInv
<1> SUFFICES ASSUME Init PROVE SafeInv
  OBVIOUS
<1>1. k \in Kernel /\ KernelInv(k)
  BY NewKernelInv DEF Init
<1>2. source \in [Store -> Content]
  BY StoreAssumption DEF Init, Content
<1>3. GraphType(graph)
  BY DEF Init, GraphType, AtMostOne
<1>4. CacheType(cache) /\ VerdictType(verdict)
  BY NoCacheType DEF Init
<1>5. OpType(op) /\ LastType(last) /\ OpInv /\ FailedLeavesNothing
  BY DEF Init, OpType, LastType, AtMostOne, OpInv, FailedLeavesNothing
<1>6. edits \in 0..scenario.maxEdits /\ ops \in 0..scenario.maxOps /\ scenario \in Scenarios
  BY StoreAssumption DEF Init
<1>7. QED
  BY <1>1, <1>2, <1>3, <1>4, <1>5, <1>6 DEF SafeInv, TypeInv

\* An edit changes what a store holds and nothing an operation relies on.
LEMMA EditSafe ==
  ASSUME SafeInv, NEW s \in Store, Edit(s)
  PROVE  SafeInv'
<1>1. /\ edits < scenario.maxEdits /\ edits' = edits + 1
      /\ \E c \in Edits : source' = [source EXCEPT ![s] = c]
      /\ k' = k /\ graph' = graph /\ cache' = cache /\ verdict' = verdict /\ op' = op
      /\ last' = last /\ ops' = ops /\ scenario' = scenario
  BY DEF Edit
<1>2. source' \in [Store -> Content]
  BY <1>1, StoreAssumption DEF SafeInv, TypeInv, Content
<1>3. edits' \in 0..scenario.maxEdits
  BY <1>1, StoreAssumption DEF SafeInv, TypeInv
<1>4. TypeInv'
  BY <1>1, <1>2, <1>3 DEF SafeInv, TypeInv
<1>5. OpInv'
  BY <1>1 DEF SafeInv, OpInv, Writing
<1>6. FailedLeavesNothing'
  BY <1>1 DEF SafeInv, FailedLeavesNothing
<1>7. QED
  BY <1>4, <1>5, <1>6 DEF SafeInv

\* An operation that begins syncs its content and clears the graph it will write, or
\* fails with that graph cleared.
LEMMA BeginSafe ==
  ASSUME SafeInv, NEW name \in Operation, NEW s \in Store, NEW g \in Graph,
         NEW hierarchy \in BOOLEAN, Begin(name, s, g, hierarchy)
  PROVE  SafeInv'
<1> DEFINE o == Asked(name, s, g, hierarchy)
<1>1. TypeInv
  BY DEF SafeInv
<1>2. /\ o \in Running /\ o.name = name /\ o.store = s /\ o.graph = g
      /\ o.content \in Content /\ o.at = "verb"
  BY <1>1, AskedFields
<1>3. /\ ops' \in 0..scenario.maxOps
      /\ source' = source /\ edits' = edits /\ scenario' = scenario
      /\ \/ Synced(o, Sync(k, o.content), cache, verdict)
         \/ Synced(o, Replayed(o.content), NoCache, {})
         \/ /\ End(o, FALSE, FALSE)
            /\ graph' = IF name \in Writers THEN Cleared(o) ELSE graph
            /\ \/ k' = k /\ cache' = cache /\ verdict' = verdict
               \/ k' = NewKernel /\ cache' = NoCache /\ verdict' = {}
  BY <1>1, BeginCases
<1>4. /\ k \in Kernel /\ KernelInv(k) /\ GraphType(graph)
      /\ CacheType(cache) /\ VerdictType(verdict) /\ CacheType(NoCache) /\ VerdictType({})
      /\ source \in [Store -> Content] /\ edits \in 0..scenario.maxEdits
      /\ scenario \in Scenarios
  BY <1>1, NoCacheType DEF TypeInv
<1> HIDE DEF o
<1>5. ASSUME NEW k1 \in Kernel, KernelInv(k1), k1.digest = o.content,
             NEW cache1, CacheType(cache1), NEW verdict1, VerdictType(verdict1),
             Synced(o, k1, cache1, verdict1)
      PROVE  SafeInv'
  <2>1. /\ k' = k1 /\ cache' = cache1 /\ verdict' = verdict1
        /\ GraphType(graph') /\ OpType(op') /\ LastType(last')
    BY <1>2, <1>4, <1>5, SyncedType
  <2>2. TypeInv'
    BY <1>3, <1>4, <1>5, <2>1 DEF TypeInv
  <2>3. PICK now \in Running :
          /\ now.name = o.name /\ now.store = o.store /\ now.graph = o.graph
          /\ now.content = o.content
          /\ \/ o.name = "unsatisfiable" /\ Goto(now, "list")
             \/ \E v \in verdict1 : End(now, TRUE, v.consistent)
             \/ End(now, TRUE, TRUE)
             \/ /\ Goto(now, "verb")
                /\ graph' = IF Overwrites(o.name) THEN Cleared(o) ELSE graph
    <3>1. k1.gen \in Int
      BY <1>5, Fields
    <3>2. QED
      BY <1>2, <1>4, <1>5, <3>1, SyncedCases, Zenon
  <2>4. /\ "list" \in Stages /\ "verb" \in Stages /\ TRUE \in BOOLEAN
        /\ \A v \in verdict1 : v.consistent \in BOOLEAN
    BY <1>5 DEF Stages, VerdictType, Verdict
  <2>5. CASE o.name = "unsatisfiable" /\ Goto(now, "list")
    <3>1. /\ last' = {}
          /\ \A p \in op' : p.name = o.name /\ p.content = o.content /\ p.at = "list"
      BY <2>3, <2>4, <2>5, GoesOn
    <3>2. OpInv'
      BY <1>5, <2>1, <2>5, <3>1 DEF OpInv, Writing
    <3>3. QED
      BY <2>2, <3>1, <3>2 DEF SafeInv, FailedLeavesNothing
  <2>6. CASE End(now, TRUE, TRUE) \/ \E v \in verdict1 : End(now, TRUE, v.consistent)
    <3>1. op' = {} /\ \A z \in last' : z.ok = TRUE
      BY <2>4, <2>6, Ends
    <3>2. QED
      BY <2>2, <3>1 DEF SafeInv, OpInv, FailedLeavesNothing
  <2>7. CASE /\ Goto(now, "verb")
             /\ graph' = IF Overwrites(o.name) THEN Cleared(o) ELSE graph
    <3>1. /\ last' = {}
          /\ \A p \in op' : /\ p.name = o.name /\ p.store = o.store /\ p.graph = o.graph
                            /\ p.content = o.content /\ p.at = "verb"
      BY <2>3, <2>4, <2>7, GoesOn
    <3>2. Overwrites(o.name) => graph'[o.store][o.graph] = {}
      BY <1>2, <1>4, <2>7, ClearedFields
    <3>3. OpInv'
      BY <1>5, <2>1, <3>1, <3>2 DEF OpInv, Writing
    <3>4. QED
      BY <2>2, <3>1, <3>3 DEF SafeInv, FailedLeavesNothing
  <2>8. QED
    BY <2>3, <2>5, <2>6, <2>7
<1>6. CASE Synced(o, Sync(k, o.content), cache, verdict)
  <2>1. /\ Sync(k, o.content) \in Kernel /\ KernelInv(Sync(k, o.content))
        /\ Sync(k, o.content).digest = o.content
    BY <1>2, <1>4, SyncHolds
  <2>2. QED
    BY <1>4, <1>5, <1>6, <2>1
<1>7. CASE Synced(o, Replayed(o.content), NoCache, {})
  BY <1>2, <1>4, <1>5, <1>7, ReplayedHolds
<1>8. CASE /\ End(o, FALSE, FALSE)
           /\ graph' = IF name \in Writers THEN Cleared(o) ELSE graph
           /\ \/ k' = k /\ cache' = cache /\ verdict' = verdict
              \/ k' = NewKernel /\ cache' = NoCache /\ verdict' = {}
  <2>1. k' \in Kernel /\ KernelInv(k') /\ CacheType(cache') /\ VerdictType(verdict')
    BY <1>4, <1>8, NewKernelInv
  <2>2. /\ op' = {} /\ OpType(op') /\ LastType(last')
        /\ \A z \in last' : z.name = name /\ z.store = o.store /\ z.graph = o.graph
    BY <1>2, <1>8, Ends
  <2>3. GraphType(graph') /\ (name \in Writers => graph'[o.store][o.graph] = {})
    BY <1>2, <1>4, <1>8, ClearedFields
  <2>4. TypeInv'
    BY <1>3, <1>4, <2>1, <2>2, <2>3 DEF TypeInv
  <2>5. FailedLeavesNothing'
    BY <2>2, <2>3 DEF FailedLeavesNothing
  <2>6. QED
    BY <2>2, <2>4, <2>5 DEF SafeInv, OpInv
<1>9. QED
  BY <1>3, <1>6, <1>7, <1>8

\* A verb reads and keeps the content; if it fails the graph stays as it was cleared.
LEMMA VerbSafe ==
  ASSUME SafeInv, NEW o \in op, VerbStep(o)
  PROVE  SafeInv'
<1>1. TypeInv /\ OpInv
  BY DEF SafeInv
<1>2. o \in Running /\ k.digest = o.content
  BY <1>1, TheRunning DEF OpInv
<1> DEFINE at == IF o.name = "checkConsistency" THEN "consistency" ELSE "read"
<1>3. /\ o.at = "verb" /\ k' \in Kernel /\ KernelInv(k')
      /\ graph' = graph /\ source' = source /\ edits' = edits /\ ops' = ops
      /\ scenario' = scenario
      /\ (cache' = cache /\ verdict' = verdict) \/ (cache' = NoCache /\ verdict' = {})
      /\ k'.digest \in {k.digest, o.content}
      /\ Goto(o, at) \/ End(o, FALSE, FALSE)
  BY <1>1, VerbStepCases
<1>4. at \in Stages
  BY DEF Stages
<1>5. Overwrites(o.name) => graph[o.store][o.graph] = {}
  BY <1>1, <1>3 DEF OpInv, Writing
<1>6. CASE Goto(o, at)
  <2>1. /\ OpType(op') /\ LastType(last') /\ last' = {}
        /\ \A p \in op' : /\ p.name = o.name /\ p.store = o.store /\ p.graph = o.graph
                          /\ p.content = o.content /\ p.at = at
    BY <1>2, <1>4, <1>6, GoesOn
  <2>2. TypeInv'
    BY <1>1, <1>3, <2>1, NoCacheType DEF TypeInv
  <2>3. OpInv'
    BY <1>2, <1>3, <1>5, <2>1 DEF OpInv, Writing
  <2>4. QED
    BY <2>1, <2>2, <2>3 DEF SafeInv, FailedLeavesNothing
<1>7. CASE End(o, FALSE, FALSE)
  <2>1. /\ op' = {} /\ OpType(op') /\ LastType(last')
        /\ \A z \in last' : z.name = o.name /\ z.store = o.store /\ z.graph = o.graph
    BY <1>2, <1>7, Ends
  <2>2. TypeInv'
    BY <1>1, <1>3, <2>1, NoCacheType DEF TypeInv
  <2>3. FailedLeavesNothing'
    BY <1>3, <1>5, <2>1 DEF FailedLeavesNothing, Overwrites, Writers
  <2>4. QED
    BY <2>1, <2>2, <2>3 DEF SafeInv, OpInv
<1>8. QED
  BY <1>3, <1>6, <1>7

\* checkConsistency writes no graph.
LEMMA ConsistencySafe ==
  ASSUME SafeInv, NEW o \in op, ConsistencyStep(o)
  PROVE  SafeInv'
<1>1. TypeInv /\ OpInv /\ o \in Running
  BY TheRunning DEF SafeInv
<1>2. /\ o.at = "consistency" /\ k' \in Kernel /\ KernelInv(k')
      /\ graph' = graph /\ source' = source /\ edits' = edits /\ ops' = ops
      /\ scenario' = scenario
      /\ CacheType(cache') /\ VerdictType(verdict')
      /\ End(o, TRUE, k'.ret) \/ End(o, FALSE, FALSE)
  BY <1>1, ConsistencyStepCases
<1>3. o.name = "checkConsistency" /\ k'.ret \in BOOLEAN
  BY <1>1, <1>2, Fields DEF OpInv
<1>4. /\ op' = {} /\ OpType(op') /\ LastType(last') /\ \A z \in last' : z.name = o.name
  BY <1>1, <1>2, <1>3, Ends
<1>5. TypeInv'
  BY <1>1, <1>2, <1>4 DEF TypeInv
<1>6. FailedLeavesNothing'
  BY <1>3, <1>4 DEF FailedLeavesNothing, Writers
<1>7. QED
  BY <1>4, <1>5, <1>6 DEF SafeInv, OpInv

\* Reading writes the graph and succeeds, or fails and leaves it as it was cleared.
LEMMA ReadSafe ==
  ASSUME SafeInv, NEW o \in op, ReadStep(o)
  PROVE  SafeInv'
<1>1. TypeInv /\ OpInv /\ o \in Running
  BY TheRunning DEF SafeInv
<1>2. /\ o.at = "read" /\ k.digest = o.content
      /\ k' \in Kernel /\ KernelInv(k') /\ SameContent(k', k)
      /\ source' = source /\ edits' = edits /\ ops' = ops /\ scenario' = scenario
      /\ GraphType(graph') /\ CacheType(cache') /\ VerdictType(verdict')
      /\ \/ o.name = "unsatisfiable" /\ Goto(o, "list")
         \/ End(o, TRUE, TRUE)
         \/ \E b \in BOOLEAN : End(o, TRUE, b)
         \/ End(o, FALSE, FALSE) /\ graph' = graph
  BY <1>1, ReadStepCases, Zenon
<1>3. CASE o.name = "unsatisfiable" /\ Goto(o, "list")
  <2>1. /\ OpType(op') /\ LastType(last') /\ last' = {}
        /\ \A p \in op' : p.name = o.name /\ p.content = o.content /\ p.at = "list"
    BY <1>1, <1>3, GoesOn DEF Stages
  <2>2. TypeInv'
    BY <1>1, <1>2, <2>1 DEF TypeInv
  <2>3. OpInv'
    BY <1>2, <1>3, <2>1 DEF OpInv, Writing, SameContent
  <2>4. QED
    BY <2>1, <2>2, <2>3 DEF SafeInv, FailedLeavesNothing
<1>4. CASE \E b \in BOOLEAN : End(o, TRUE, b)
  <2>1. op' = {} /\ OpType(op') /\ LastType(last') /\ \A z \in last' : z.ok = TRUE
    BY <1>1, <1>4, Ends
  <2>2. TypeInv'
    BY <1>1, <1>2, <2>1 DEF TypeInv
  <2>3. QED
    BY <2>1, <2>2 DEF SafeInv, OpInv, FailedLeavesNothing
<1>5. CASE End(o, FALSE, FALSE) /\ graph' = graph
  <2>1. /\ op' = {} /\ OpType(op') /\ LastType(last')
        /\ \A z \in last' : z.name = o.name /\ z.store = o.store /\ z.graph = o.graph
    BY <1>1, <1>5, Ends
  <2>2. Overwrites(o.name) => graph[o.store][o.graph] = {}
    BY <1>1, <1>2 DEF OpInv, Writing
  <2>3. TypeInv'
    BY <1>1, <1>2, <2>1 DEF TypeInv
  <2>4. FailedLeavesNothing'
    BY <1>5, <2>1, <2>2 DEF FailedLeavesNothing, Overwrites, Writers
  <2>5. QED
    BY <2>1, <2>3, <2>4 DEF SafeInv, OpInv
<1>6. QED
  BY <1>2, <1>3, <1>4, <1>5

\* Listing the unsatisfiable classes touches no graph.
LEMMA ListSafe ==
  ASSUME SafeInv, NEW o \in op, ListStep(o)
  PROVE  SafeInv'
<1>1. TypeInv /\ OpInv /\ o \in Running
  BY TheRunning DEF SafeInv
<1> DEFINE b == k.classified /\ k.onto.content = o.content
<1>2. /\ o.at = "list" /\ (End(o, TRUE, b) \/ End(o, FALSE, FALSE))
      /\ k' = k /\ source' = source /\ graph' = graph /\ cache' = cache
      /\ verdict' = verdict /\ edits' = edits /\ ops' = ops /\ scenario' = scenario
  BY Zenon DEF ListStep
<1>3. o.name = "unsatisfiable" /\ b \in BOOLEAN
  BY <1>1, <1>2 DEF OpInv
<1> HIDE DEF b
<1>4. op' = {} /\ OpType(op') /\ LastType(last') /\ \A z \in last' : z.name = o.name
  BY <1>1, <1>2, <1>3, Ends
<1>5. TypeInv'
  BY <1>1, <1>2, <1>4 DEF TypeInv
<1>6. FailedLeavesNothing'
  BY <1>3, <1>4 DEF FailedLeavesNothing, Writers
<1>7. QED
  BY <1>4, <1>5, <1>6 DEF SafeInv, OpInv

\* Every step keeps the invariant.
LEMMA NextSafe == SafeInv /\ [Next]_vars => SafeInv'
<1> SUFFICES ASSUME SafeInv, [Next]_vars PROVE SafeInv'
  OBVIOUS
<1>1. CASE UNCHANGED vars
  <2>1. /\ k' = k /\ source' = source /\ graph' = graph /\ cache' = cache
        /\ verdict' = verdict /\ op' = op /\ last' = last /\ edits' = edits /\ ops' = ops
        /\ scenario' = scenario
    BY <1>1 DEF vars
  <2>2. QED
    BY <2>1 DEF SafeInv, TypeInv, OpInv, Writing, FailedLeavesNothing
<1>2. CASE Next
  BY <1>2, EditSafe, BeginSafe, VerbSafe, ConsistencySafe, ReadSafe, ListSafe, Zenon DEF Next
<1>3. QED
  BY <1>1, <1>2

\* Every reachable state satisfies the invariant.
LEMMA SafeInvariant == Spec => []SafeInv
  BY InitSafe, NextSafe, PTL DEF Spec

\* The state is always well-typed: every graph, cache entry, verdict and running
\* operation is one, and the bounds on edits and operations are kept.
THEOREM TypeCorrect == Spec => []TypeOK
<1>1. SafeInv => TypeOK
  <2> SUFFICES ASSUME SafeInv PROVE TypeOK
    OBVIOUS
  <2>1. /\ GraphType(graph) /\ CacheType(cache) /\ VerdictType(verdict)
        /\ OpType(op) /\ LastType(last)
    BY DEF SafeInv, TypeInv
  <2>2. \A s \in Store, g \in Graph : Cardinality(graph[s][g]) <= 1 /\ graph[s][g] \subseteq Written
    BY <2>1, SmallSet DEF GraphType
  <2>3. \A slot \in Slot : Cardinality(cache[slot]) <= 1 /\ cache[slot] \subseteq Entry
    BY <2>1, SmallSet DEF CacheType
  <2>4. /\ Cardinality(verdict) <= 1 /\ verdict \subseteq Verdict
        /\ Cardinality(op) <= 1 /\ op \subseteq Running
        /\ Cardinality(last) <= 1 /\ last \subseteq Ended
    BY <2>1, SmallSet DEF VerdictType, OpType, LastType
  <2>5. QED
    BY <2>2, <2>3, <2>4 DEF SafeInv, TypeInv, TypeOK
<1>2. QED
  BY <1>1, SafeInvariant, PTL

\* Whatever goes wrong, an operation that fails never leaves older results in the
\* graph it was to write.
THEOREM FailuresLeaveNothing == Spec => []FailedLeavesNothing
<1>1. SafeInv => FailedLeavesNothing
  BY DEF SafeInv
<1>2. QED
  BY <1>1, SafeInvariant, PTL

\* Whatever goes wrong, what an operation writes was inferred from the content that it
\* synced itself.
THEOREM OwnContentWritten == Spec => WritesOwnContent
<1> DEFINE A == \A o \in op : o.at = "read" /\ Overwrites(o.name)
                  => \A w \in graph'[o.store][o.graph] : w.content = o.content
<1>1. SafeInv /\ [Next]_vars => [A]_vars
  <2> SUFFICES ASSUME SafeInv, Next, NEW o \in op, o.at = "read", Overwrites(o.name),
                      NEW w \in graph'[o.store][o.graph]
               PROVE  w.content = o.content
    BY DEF A
  <2>1. /\ TypeInv /\ OpInv /\ k.digest = o.content /\ graph[o.store][o.graph] = {}
        /\ o \in Running /\ \A p \in op : p = o
    BY TheRunning DEF SafeInv, OpInv, Writing
  <2>2. CASE \E s \in Store : Edit(s)
    BY <2>1, <2>2 DEF Edit
  <2>3. CASE \E name \in Operation, s \in Store, g \in Graph, hierarchy \in BOOLEAN :
               Begin(name, s, g, hierarchy)
    BY <2>1, <2>3 DEF Begin
  <2>4. CASE ReadStep(o)
    <3>1. \/ o.name = "whatIf" \/ graph' = graph
          \/ \E x \in Written : x.content = k.digest /\ graph'[o.store][o.graph] = {x}
      BY <2>1, <2>4, ReadStepCases, Zenon
    <3>2. QED
      BY <2>1, <3>1 DEF Overwrites
  <2>5. ~VerbStep(o) /\ ~ConsistencyStep(o) /\ ~ListStep(o)
    BY DEF VerbStep, ConsistencyStep, ListStep
  <2>6. QED
    BY <2>1, <2>2, <2>3, <2>4, <2>5, Zenon DEF Next
<1>2. QED
  BY <1>1, SafeInvariant, PTL DEF Spec, WritesOwnContent

-----------------------------------------------------------------------------
(* Operations that nothing disturbs *)

\* What the results cached in a slot are sure to contain.
SlotParts(slot) ==
  CASE slot = "classify"    -> {"hierarchy"}
    [] slot = "materialize" ->
         {"individuals"} \cup IF TRUE \in scenario.hierarchy THEN {"hierarchy"} ELSE {}
    [] slot = "classifyProperties" -> {"properties"}

\* A running operation keeps the generation of its sync, and what its verb computed.
RunCalm ==
  \A o \in op :
    /\ o.gen = k.gen /\ o.graph \in scenario.graphs /\ o.hierarchy \in scenario.hierarchy
    /\ o.at # "verb" => k.classified
    /\ o.at = "read" /\ Realizes(o) => k.realized
    /\ o.at = "consistency" => k.builtReal = FALSE

\* A cache entry of the present generation stands for results that may still be read,
\* written from the present content into the one graph there is.  While an operation
\* has that graph cleared the entries are not looked at.
EntryCalm(e, slot, s, f) ==
  /\ e.gen <= s.gen
  /\ e.gen = s.gen =>
       /\ s.classified
       /\ \A g \in scenario.graphs :
            \E w \in f[e.store][g] : w.content = s.digest /\ SlotParts(slot) \subseteq w.parts
CacheCalm ==
  (\A o \in op : ~Writing(o))
  => \A slot \in Slot : \A e \in cache[slot] : EntryCalm(e, slot, k, graph)

\* The memoised verdict of the present generation is that of the present content.
VerdictCalm ==
  \A v \in verdict :
    /\ v.gen <= k.gen
    /\ v.gen = k.gen => (v.consistent <=> k.digest \notin Inconsistent)

\* An operation that ended well answered right.
RightAlways ==
  \A o \in last : o.ok =>
    /\ o.name = "checkConsistency" => (o.answer <=> o.content \notin Inconsistent)
    /\ o.name \in {"unsatisfiable", "whatIf"} => o.answer

Calm == /\ RealizedInv(k) /\ RunCalm /\ CacheCalm /\ VerdictCalm
        /\ DeliversAlways /\ RightAlways

\* What is promised is what the slot holds.
LEMMA PromisedParts ==
  ASSUME NEW z, z.name \in Writers \cup Entailed, z.hierarchy \in scenario.hierarchy,
         z.hierarchy \in BOOLEAN
  PROVE  Promised(z) \subseteq SlotParts(SlotOf(z.name))
<1>1. CASE z.name \in {"classify", "subClassEntailed"}
  BY <1>1 DEF Promised, SlotParts, SlotOf
<1>2. CASE z.name = "typeEntailed"
  BY <1>2 DEF Promised, SlotParts, SlotOf
<1>3. CASE z.name = "materialize"
  <2>1. SlotOf(z.name) = "materialize"
    BY <1>3 DEF SlotOf
  <2>2. Promised(z) = IF z.hierarchy THEN {"individuals", "hierarchy"} ELSE {"individuals"}
    BY <1>3 DEF Promised
  <2>3. z.hierarchy => TRUE \in scenario.hierarchy
    <3>1. z.hierarchy => z.hierarchy = TRUE
      OBVIOUS
    <3>2. QED
      BY <3>1
  <2>4. QED
    BY <2>1, <2>2, <2>3 DEF SlotParts
<1>4. CASE z.name \in {"classifyProperties", "propertyEntailed"}
  BY <1>4 DEF Promised, SlotParts, SlotOf
<1>5. QED
  BY <1>1, <1>2, <1>3, <1>4 DEF Writers, Entailed

\* While one choice of options is in use, what an operation writes is what its slot holds.
LEMMA PartsComplete ==
  ASSUME NEW o \in Running, Overwrites(o.name), Realizes(o) => k.realized,
         scenario.hierarchy = {o.hierarchy}
  PROVE  SlotParts(SlotOf(o.name)) \subseteq PartsRead(o)
<1> DEFINE slot == SlotOf(o.name)
<1>1. slot \in {"classify", "materialize", "classifyProperties"}
  BY SlotType DEF Slot, Writers, Running
<1>2. slot = "materialize" => k.realized
  <2>1. slot = "materialize" => o.name \in {"materialize", "typeEntailed"}
    BY DEF SlotOf, Running, Operation, Overwrites, Writers, Entailed
  <2>2. QED
    BY <2>1 DEF Realizes
<1>3. TRUE \in scenario.hierarchy => o.hierarchy
  OBVIOUS
<1>4. PartsRead(o) =
        CASE slot = "classifyProperties" -> {"properties"}
          [] slot = "classify"    -> {"hierarchy"}
          [] slot = "materialize" ->
               {p \in {"hierarchy", "individuals"} :
                  /\ p = "individuals" => k.realized
                  /\ p = "hierarchy"   => o.hierarchy \/ o.name = "typeEntailed"}
  BY DEF PartsRead
<1> HIDE DEF slot
<1>5. CASE slot = "classify"
  BY <1>4, <1>5 DEF SlotParts, slot
<1>6. CASE slot = "classifyProperties"
  BY <1>4, <1>6 DEF SlotParts, slot
<1>7. CASE slot = "materialize"
  <2>1. SlotParts(slot) = {"individuals"} \cup IF TRUE \in scenario.hierarchy THEN {"hierarchy"} ELSE {}
    BY <1>7 DEF SlotParts
  <2>2. PartsRead(o) = {p \in {"hierarchy", "individuals"} :
                  /\ p = "individuals" => k.realized
                  /\ p = "hierarchy"   => o.hierarchy \/ o.name = "typeEntailed"}
    BY <1>4, <1>7
  <2>3. QED
    BY <1>2, <1>3, <1>7, <2>1, <2>2 DEF slot
<1>8. QED
  BY <1>1, <1>5, <1>6, <1>7

\* An entry stays good while the kernel keeps its content and its results, or moves on
\* to another generation.
LEMMA EntryStays ==
  ASSUME NEW e \in Entry, NEW slot, NEW s \in Kernel, NEW t \in Kernel, NEW f,
         EntryCalm(e, slot, s, f), t.gen >= s.gen,
         t.gen = s.gen => t.digest = s.digest /\ (s.classified => t.classified)
  PROVE  EntryCalm(e, slot, t, f)
<1>1. s.gen \in Nat /\ t.gen \in Nat /\ e.gen \in Int
  BY Fields DEF Entry
<1>2. t.gen = e.gen => s.gen = e.gen
  BY <1>1 DEF EntryCalm
<1>3. e.gen <= t.gen
  BY <1>1 DEF EntryCalm
<1>4. QED
  BY <1>2, <1>3 DEF EntryCalm

\* Nothing runs, nothing is cached and nothing was answered when the stores are created.
LEMMA InitCalm == Init => Calm
<1> SUFFICES ASSUME Init PROVE Calm
  OBVIOUS
<1>1. RealizedInv(k)
  BY NewKernelInv DEF Init, RealizedInv
<1>2. RunCalm /\ VerdictCalm /\ DeliversAlways /\ RightAlways
  BY DEF Init, RunCalm, VerdictCalm, DeliversAlways, RightAlways
<1>3. CacheCalm
  BY DEF Init, CacheCalm, NoCache
<1>4. QED
  BY <1>1, <1>2, <1>3 DEF Calm

\* An edit changes no kernel, no graph and no cache.
LEMMA EditCalm ==
  ASSUME Calm, NEW s \in Store, Edit(s)
  PROVE  Calm'
<1>1. /\ k' = k /\ graph' = graph /\ cache' = cache /\ verdict' = verdict /\ op' = op
      /\ last' = last /\ scenario' = scenario
  BY DEF Edit
<1>2. RealizedInv(k')
  BY <1>1 DEF Calm
<1>3. RunCalm' /\ VerdictCalm'
  BY <1>1 DEF Calm, RunCalm, VerdictCalm, Realizes
<1>4. CacheCalm'
  BY <1>1 DEF Calm, CacheCalm, EntryCalm, SlotParts, Writing
<1>5. DeliversAlways' /\ RightAlways'
  BY <1>1 DEF Calm, DeliversAlways, Promised, RightAlways
<1>6. QED
  BY <1>2, <1>3, <1>4, <1>5 DEF Calm

\* An undisturbed operation begins with a sync in the same Worker: what it finds in
\* its cache is right for its content.
LEMMA BeginCalm ==
  ASSUME SafeInv, Undisturbed, Calm, NEW name \in Operation, NEW s \in Store, NEW g \in Graph,
         NEW hierarchy \in BOOLEAN, Begin(name, s, g, hierarchy)
  PROVE  Calm'
<1> DEFINE o == Asked(name, s, g, hierarchy)
           k1 == Sync(k, o.content)
<1>1. TypeInv /\ scenario.faults = {}
  BY DEF SafeInv, Undisturbed
<1>2. /\ o \in Running /\ o.name = name /\ o.store = s /\ o.graph = g
      /\ o.hierarchy = hierarchy /\ o.content \in Content /\ o.at = "verb"
  BY <1>1, AskedFields
<1>3. /\ op = {} /\ scenario' = scenario
      /\ s \in scenario.stores /\ g \in scenario.graphs /\ hierarchy \in scenario.hierarchy
      /\ Synced(o, k1, cache, verdict)
  BY <1>1, BeginCases
<1>4. /\ k \in Kernel /\ KernelInv(k) /\ GraphType(graph)
      /\ CacheType(cache) /\ VerdictType(verdict)
  BY <1>1 DEF TypeInv
<1> HIDE DEF o
<1>5. /\ k1 \in Kernel /\ KernelInv(k1) /\ k1.digest = o.content /\ k1.gen >= k.gen
      /\ k1.gen = k.gen => k1.digest = k.digest /\ k1.classified = k.classified
      /\ RealizedInv(k1)
  BY <1>2, <1>4, SyncHolds, SyncRealized DEF Calm
<1> HIDE DEF k1
<1>6. k.gen \in Nat /\ k1.gen \in Nat /\ k1.classified \in BOOLEAN /\ k1.gen \in Int
  BY <1>4, <1>5, Fields
<1>7. \A slot \in Slot : \A e \in cache[slot] : e \in Entry /\ EntryCalm(e, slot, k1, graph)
  <2>1. \A slot \in Slot : \A e \in cache[slot] : e \in Entry
    BY <1>4 DEF CacheType
  <2>2. \A slot \in Slot : \A e \in cache[slot] : EntryCalm(e, slot, k, graph)
    BY <1>3 DEF Calm, CacheCalm
  <2>3. QED
    BY <1>4, <1>5, <2>1, <2>2, EntryStays
<1>8. \A v \in verdict : /\ v.gen <= k1.gen
                         /\ v.gen = k1.gen => (v.consistent <=> k1.digest \notin Inconsistent)
  <2>1. \A v \in verdict : v.gen \in Int
    BY <1>4 DEF VerdictType, Verdict
  <2>2. QED
    BY <1>5, <1>6, <2>1 DEF Calm, VerdictCalm
<1>9. PICK now \in Running :
        /\ k' = k1 /\ cache' = cache /\ verdict' = verdict
        /\ now.name = o.name /\ now.store = o.store /\ now.graph = o.graph
        /\ now.hierarchy = o.hierarchy /\ now.content = o.content
        /\ now.gen = k1.gen /\ now.at = "verb"
        /\ \/ /\ Hit(o, k1.gen, cache, verdict)
              /\ o.name = "unsatisfiable" /\ Goto(now, "list") /\ graph' = graph
           \/ /\ Hit(o, k1.gen, cache, verdict)
              /\ o.name = "checkConsistency" /\ graph' = graph
              /\ \E v \in verdict : v.gen = k1.gen /\ End(now, TRUE, v.consistent)
           \/ /\ Hit(o, k1.gen, cache, verdict)
              /\ o.name \notin {"unsatisfiable", "checkConsistency"}
              /\ End(now, TRUE, TRUE) /\ graph' = graph
           \/ /\ Goto(now, "verb")
              /\ graph' = IF Overwrites(o.name) THEN Cleared(o) ELSE graph
  BY <1>2, <1>3, <1>4, <1>6, SyncedCases, Zenon
<1>10. RealizedInv(k') /\ VerdictCalm'
  BY <1>5, <1>8, <1>9 DEF VerdictCalm
<1>11. /\ "list" \in Stages /\ "verb" \in Stages /\ TRUE \in BOOLEAN
       /\ \A v \in verdict : v.consistent \in BOOLEAN
  BY <1>4 DEF Stages, VerdictType, Verdict
<1>12. ASSUME graph' = graph
       PROVE  CacheCalm'
  <2>1. \A slot \in Slot : \A e \in cache'[slot] : EntryCalm(e, slot, k', graph')
    BY <1>7, <1>9, <1>12
  <2>2. QED
    BY <1>3, <2>1 DEF CacheCalm, EntryCalm, SlotParts
<1>13. ASSUME Hit(o, k1.gen, cache, verdict), o.name # "checkConsistency"
       PROVE  /\ o.name # "whatIf" /\ k1.classified
              /\ \E w \in graph[o.store][o.graph] :
                   w.content = o.content /\ SlotParts(SlotOf(o.name)) \subseteq w.parts
  <2>1. /\ o.name # "whatIf"
        /\ \E e \in cache[SlotOf(o.name)] : e.gen = k1.gen /\ e.store = o.store
    BY <1>13 DEF Hit
  <2>2. SlotOf(o.name) \in Slot
    BY <1>2, <1>13, <2>1, SlotType DEF Overwrites
  <2>3. o.graph \in scenario.graphs
    BY <1>2, <1>3
  <2>4. QED
    BY <1>5, <1>7, <2>1, <2>2, <2>3 DEF EntryCalm
<1>14. CASE /\ Hit(o, k1.gen, cache, verdict)
            /\ o.name = "unsatisfiable" /\ Goto(now, "list") /\ graph' = graph
  <2>1. /\ last' = {}
        /\ \A p \in op' : /\ p.gen = now.gen /\ p.graph = now.graph
                          /\ p.hierarchy = now.hierarchy /\ p.at = "list"
    BY <1>11, <1>14, GoesOn
  <2>2. RunCalm'
    BY <1>2, <1>3, <1>9, <1>13, <1>14, <2>1 DEF RunCalm
  <2>3. QED
    BY <1>10, <1>12, <1>14, <2>1, <2>2 DEF Calm, DeliversAlways, RightAlways
<1>15. CASE /\ Hit(o, k1.gen, cache, verdict)
            /\ o.name = "checkConsistency" /\ graph' = graph
            /\ \E v \in verdict : v.gen = k1.gen /\ End(now, TRUE, v.consistent)
  <2>1. PICK v \in verdict : v.gen = k1.gen /\ End(now, TRUE, v.consistent)
    BY <1>15
  <2>2. /\ op' = {}
        /\ \A z \in last' : z.name = now.name /\ z.content = now.content
                            /\ z.answer = v.consistent
    BY <1>11, <2>1, Ends
  <2>3. v.consistent <=> o.content \notin Inconsistent
    BY <1>5, <1>8, <2>1
  <2>4. RightAlways'
    BY <1>9, <1>15, <2>2, <2>3 DEF RightAlways
  <2>5. DeliversAlways'
    BY <1>9, <1>15, <2>2 DEF DeliversAlways, Writers, Entailed
  <2>6. QED
    BY <1>10, <1>12, <1>15, <2>2, <2>4, <2>5 DEF Calm, RunCalm
<1>16. CASE /\ Hit(o, k1.gen, cache, verdict)
            /\ o.name \notin {"unsatisfiable", "checkConsistency"}
            /\ End(now, TRUE, TRUE) /\ graph' = graph
  <2>1. /\ op' = {}
        /\ \A z \in last' : /\ z.name = now.name /\ z.store = now.store
                            /\ z.graph = now.graph /\ z.content = now.content
                            /\ z.hierarchy = now.hierarchy
    BY <1>11, <1>16, Ends
  <2>2. RightAlways'
    BY <1>9, <1>13, <1>16, <2>1 DEF RightAlways
  <2>3. DeliversAlways'
    <3> SUFFICES ASSUME NEW z \in last', z.name \in Writers \cup Entailed
                 PROVE  \E w \in graph'[z.store][z.graph] :
                          w.content = z.content /\ Promised(z) \subseteq w.parts
      BY DEF DeliversAlways, Promised
    <3>1. /\ z.name = o.name /\ z.store = o.store /\ z.graph = o.graph
          /\ z.content = o.content /\ z.hierarchy = o.hierarchy
      BY <1>9, <2>1
    <3>2. Promised(z) \subseteq SlotParts(SlotOf(o.name))
      BY <1>2, <1>3, <3>1, PromisedParts
    <3>3. QED
      BY <1>13, <1>16, <3>1, <3>2
  <2>4. QED
    BY <1>10, <1>12, <1>16, <2>1, <2>2, <2>3 DEF Calm, RunCalm
<1>17. CASE /\ Goto(now, "verb")
            /\ graph' = IF Overwrites(o.name) THEN Cleared(o) ELSE graph
  <2>1. /\ last' = {} /\ op' # {}
        /\ \A p \in op' : /\ p.name = now.name /\ p.gen = now.gen /\ p.graph = now.graph
                          /\ p.hierarchy = now.hierarchy /\ p.at = "verb"
    BY <1>11, <1>17, GoesOn
  <2>2. RunCalm'
    BY <1>2, <1>3, <1>9, <2>1 DEF RunCalm
  <2>3. CacheCalm'
    <3>1. CASE Overwrites(o.name)
      BY <1>9, <2>1, <3>1 DEF CacheCalm, Writing
    <3>2. CASE ~Overwrites(o.name)
      BY <1>12, <1>17, <3>2
    <3>3. QED
      BY <3>1, <3>2
  <2>4. QED
    BY <1>10, <2>1, <2>2, <2>3 DEF Calm, DeliversAlways, RightAlways
<1>18. QED
  BY <1>9, <1>14, <1>15, <1>16, <1>17

\* What is cached stays good while nothing runs that cleared the graph, as long as the
\* step writes no graph and keeps what may be read.
LEMMA CacheStays ==
  ASSUME TypeInv, \A p \in op : ~Writing(p), CacheCalm, k' \in Kernel,
         k'.digest = k.digest, k'.gen = k.gen, k.classified => k'.classified,
         graph' = graph, scenario' = scenario,
         \A slot \in Slot : cache'[slot] \subseteq cache[slot]
  PROVE  CacheCalm'
<1>1. \A slot \in Slot : \A e \in cache'[slot] : e \in Entry /\ EntryCalm(e, slot, k, graph)
  BY DEF CacheCalm, TypeInv, CacheType
<1>2. k \in Kernel /\ k.gen \in Nat
  BY Fields DEF TypeInv
<1>3. \A slot \in Slot : \A e \in cache'[slot] : EntryCalm(e, slot, k', graph')
  BY <1>1, <1>2, EntryStays
<1>4. QED
  BY <1>3, ZenonT(60) DEF CacheCalm, EntryCalm, SlotParts

\* An undisturbed verb completes: its results may be read.
LEMMA VerbCalm ==
  ASSUME SafeInv, Undisturbed, Calm, NEW o \in op, VerbStep(o)
  PROVE  Calm'
<1> DEFINE at == IF o.name = "checkConsistency" THEN "consistency" ELSE "read"
<1>1. /\ TypeInv /\ o \in Running /\ (\A p \in op : p = o) /\ k \in Kernel /\ KernelInv(k)
      /\ scenario.faults = {} /\ RealizedInv(k)
  BY TheRunning DEF SafeInv, TypeInv, Undisturbed, Calm
<1>2. /\ o.at = "verb" /\ k' = RunVerb(k, o, TRUE, Completes(o)) /\ Goto(o, at)
      /\ graph' = graph /\ cache' = cache /\ verdict' = verdict /\ scenario' = scenario
  BY <1>1, Zenon DEF VerbStep, AfterVerb, Recoverable
<1>3. /\ k' \in Kernel /\ k'.digest = k.digest /\ k'.gen = k.gen
  <2>1. Completes(o) \in Outcome /\ TRUE \in BOOLEAN
    BY DEF Completes, Outcome
  <2>2. \A outcome \in Outcome :
          LET t == RunVerb(k, o, TRUE, outcome)
          IN t \in Kernel /\ t.digest = k.digest /\ t.gen = k.gen
    BY <1>1, <2>1, RunVerbHolds
  <2>3. QED
    BY <1>2, <2>1, <2>2, Zenon
<1>4. /\ RealizedInv(k') /\ k'.classified = TRUE
      /\ (Realizes(o) => k'.realized) /\ (~Realizes(o) => k'.builtReal = FALSE)
  <2>1. \A real \in BOOLEAN :
          LET v == Verb(k, real, TRUE, Completed(real))
          IN RealizedInv(v) /\ v.classified = TRUE /\ v.builtReal = real /\ (real => v.realized)
    BY <1>1, VerbCompletes
  <2>2. CASE Realizes(o)
    <3>1. k' = Verb(k, TRUE, TRUE, Completed(TRUE))
      BY <1>2, <2>2 DEF RunVerb, Realization, Completes, Completed
    <3>2. QED
      BY <2>1, <2>2, <3>1
  <2>3. CASE ~Realizes(o)
    <3>1. k' = Verb(k, FALSE, TRUE, Completed(FALSE))
      BY <1>2, <2>3 DEF RunVerb, Classification, Completes, Completed
    <3>2. QED
      BY <2>1, <2>3, <3>1
  <2>4. QED
    BY <2>2, <2>3
<1>5. /\ last' = {} /\ op' # {}
      /\ \A p \in op' : /\ p.name = o.name /\ p.gen = o.gen /\ p.graph = o.graph
                        /\ p.hierarchy = o.hierarchy /\ p.at = at
  BY <1>1, <1>2, GoesOn DEF Stages
<1>6. RunCalm'
  BY <1>2, <1>3, <1>4, <1>5 DEF Calm, RunCalm, Realizes
<1>7. CacheCalm'
  <2>1. CASE Writing(o)
    BY <1>5, <2>1 DEF CacheCalm, Writing, Overwrites
  <2>2. CASE ~Writing(o)
    BY <1>1, <1>2, <1>3, <1>4, <2>2, CacheStays DEF Calm
  <2>3. QED
    BY <2>1, <2>2
<1>8. VerdictCalm'
  BY <1>2, <1>3 DEF Calm, VerdictCalm
<1>9. QED
  BY <1>4, <1>5, <1>6, <1>7, <1>8 DEF Calm, DeliversAlways, RightAlways

\* An undisturbed checkConsistency answers for its content and remembers the answer
\* under the present generation.
LEMMA ConsistencyCalm ==
  ASSUME SafeInv, Undisturbed, Calm, NEW o \in op, ConsistencyStep(o)
  PROVE  Calm'
<1>1. /\ TypeInv /\ o \in Running /\ (\A p \in op : p = o) /\ k \in Kernel /\ KernelInv(k)
      /\ scenario.faults = {} /\ RealizedInv(k)
  BY TheRunning DEF SafeInv, TypeInv, Undisturbed, Calm
<1>2. /\ o.at = "consistency" /\ Judged(o, Consistency(k, TRUE, "classified"), cache)
      /\ scenario' = scenario
  BY <1>1, Zenon DEF ConsistencyStep, Recoverable
<1>3. /\ k' = Consistency(k, TRUE, "classified") /\ graph' = graph
      /\ verdict' = {[gen |-> o.gen, consistent |-> k'.ret]}
      /\ cache' = [slot \in Slot |-> {e \in cache[slot] : e.gen = o.gen}]
      /\ End(o, TRUE, k'.ret)
  BY <1>2, Zenon DEF Judged
<1>4. /\ o.name = "checkConsistency" /\ k.digest = o.content /\ o.gen = k.gen
      /\ k.classified /\ k.builtReal = FALSE /\ ~Writing(o)
  BY <1>2 DEF SafeInv, OpInv, Calm, RunCalm, Writing
<1>5. /\ k' \in Kernel /\ SameContent(k', k) /\ RealizedInv(k') /\ k'.classified = TRUE
      /\ (k'.ret <=> k.digest \notin Inconsistent) /\ k'.ret \in BOOLEAN
  <2>1. "classified" \in Outcome /\ TRUE \in BOOLEAN
    BY DEF Outcome
  <2>2. k' \in Kernel /\ SameContent(k', k)
    BY <1>1, <1>3, <2>1, ConsistencyInv
  <2>3. /\ RealizedInv(k') /\ k'.classified = TRUE
        /\ (k'.ret <=> k.digest \notin Inconsistent)
    BY <1>1, <1>3, <1>4, <2>1, ConsistencyAnswers
  <2>4. QED
    BY <2>2, <2>3, Fields
<1>6. /\ op' = {}
      /\ \A z \in last' : /\ z.name = o.name /\ z.content = o.content
                          /\ z.answer = k'.ret
  BY <1>1, <1>3, <1>5, Ends
<1>7. CacheCalm'
  <2>1. \A slot \in Slot : cache'[slot] \subseteq cache[slot]
    BY <1>3
  <2>2. QED
    BY <1>1, <1>2, <1>3, <1>4, <1>5, <2>1, CacheStays DEF Calm, SameContent
<1>8. VerdictCalm'
  <2>1. k.gen \in Nat
    BY <1>1, Fields
  <2> DEFINE b == k'.ret
  <2>2. \A v \in verdict' : v.gen = o.gen /\ v.consistent = b
    <3> HIDE DEF b
    <3>1. verdict' = {[gen |-> o.gen, consistent |-> b]}
      BY <1>3 DEF b
    <3>2. QED
      BY <3>1
  <2>3. \A v \in verdict' : v.gen <= k'.gen /\ (v.consistent <=> k'.digest \notin Inconsistent)
    BY <1>4, <1>5, <2>1, <2>2 DEF SameContent
  <2>4. QED
    BY <2>3 DEF VerdictCalm
<1>9. RightAlways'
  BY <1>4, <1>5, <1>6 DEF RightAlways
<1>10. DeliversAlways'
  BY <1>4, <1>6 DEF DeliversAlways, Writers, Entailed
<1>11. QED
  BY <1>5, <1>6, <1>7, <1>8, <1>9, <1>10 DEF Calm, RunCalm

\* An undisturbed operation reads results of its content and leaves in its graph what
\* it was asked for; the cache entry it makes says so.
LEMMA ReadCalm ==
  ASSUME SafeInv, Undisturbed, Calm, NEW o \in op, ReadStep(o), ~End(o, FALSE, FALSE)
  PROVE  Calm'
<1>1. /\ TypeInv /\ OpInv /\ o \in Running /\ (\A p \in op : p = o)
      /\ k \in Kernel /\ KernelInv(k) /\ RealizedInv(k)
  BY TheRunning DEF SafeInv, TypeInv, Calm
<1>2. /\ o.at = "read" /\ o.name # "checkConsistency" /\ k.digest = o.content
      /\ k' \in Kernel /\ SameContent(k', k) /\ k'.classified = k.classified
      /\ RealizedInv(k') /\ scenario' = scenario
  BY <1>1, ReadStepCases, Zenon
<1>3. /\ k.classified /\ (Realizes(o) => k.realized) /\ o.gen = k.gen
      /\ o.graph \in scenario.graphs /\ o.hierarchy \in scenario.hierarchy
  BY <1>2 DEF Calm, RunCalm
<1>4. k'.gen = k.gen /\ k'.digest = k.digest /\ k.gen \in Nat
  BY <1>1, <1>2, Fields DEF SameContent
<1>5. CASE o.name # "whatIf"
  <2>1. /\ cache' = Cached(o) /\ verdict' = verdict
        /\ IF o.name = "unsatisfiable" THEN Goto(o, "list") ELSE End(o, TRUE, TRUE)
        /\ \E w \in Written : /\ w.content = k.digest /\ w.parts = PartsRead(o)
                              /\ graph'[o.store][o.graph] = {w}
    BY <1>1, <1>3, <1>5, ReadStepCases, Zenon
  <2>2. Overwrites(o.name) /\ scenario.graphs = {o.graph} /\ scenario.hierarchy = {o.hierarchy}
    BY <1>2, <1>3, <1>5 DEF Overwrites, Undisturbed
  <2>3. SlotParts(SlotOf(o.name)) \subseteq PartsRead(o)
    BY <1>1, <1>3, <2>2, PartsComplete
  <2>4. \E w \in graph'[o.store][o.graph] :
          w.content = o.content /\ SlotParts(SlotOf(o.name)) \subseteq w.parts
    BY <1>2, <2>1, <2>3
  <2>5. CacheCalm'
    <3>1. ASSUME NEW slot \in Slot, NEW e \in cache'[slot]
          PROVE  EntryCalm(e, slot, k', graph')
      <4>1. slot = SlotOf(o.name) /\ e.gen = o.gen /\ e.store = o.store
        BY <1>1, <2>1, <2>2, <3>1, CachedFields
      <4>2. QED
        BY <1>2, <1>3, <1>4, <2>2, <2>4, <4>1 DEF EntryCalm
    <3>2. QED
      BY <1>2, <3>1 DEF CacheCalm, EntryCalm, SlotParts
  <2>6. VerdictCalm'
    BY <1>4, <2>1 DEF Calm, VerdictCalm
  <2>7. CASE o.name = "unsatisfiable"
    <3>1. /\ last' = {}
          /\ \A p \in op' : /\ p.gen = o.gen /\ p.graph = o.graph
                            /\ p.hierarchy = o.hierarchy /\ p.at = "list"
      <4>1. "list" \in Stages /\ Goto(o, "list")
        BY <2>1, <2>7 DEF Stages
      <4>2. QED
        BY <1>1, <4>1, GoesOn
    <3>2. RunCalm'
      BY <1>2, <1>3, <1>4, <3>1 DEF RunCalm
    <3>3. QED
      BY <1>2, <2>5, <2>6, <3>1, <3>2 DEF Calm, DeliversAlways, RightAlways
  <2>8. CASE o.name # "unsatisfiable"
    <3>1. /\ op' = {}
          /\ \A z \in last' : /\ z.name = o.name /\ z.store = o.store
                              /\ z.graph = o.graph /\ z.content = o.content
                              /\ z.hierarchy = o.hierarchy
      BY <1>1, <2>1, <2>8, Ends
    <3>2. RightAlways'
      BY <1>2, <1>5, <2>8, <3>1 DEF RightAlways
    <3>3. DeliversAlways'
      <4> SUFFICES ASSUME NEW z \in last', z.name \in Writers \cup Entailed
                   PROVE  \E w \in graph'[z.store][z.graph] :
                            w.content = z.content /\ Promised(z) \subseteq w.parts
        BY DEF DeliversAlways, Promised
      <4>1. /\ z.name = o.name /\ z.store = o.store /\ z.graph = o.graph
            /\ z.content = o.content /\ z.hierarchy = o.hierarchy
            /\ o.hierarchy \in BOOLEAN
        BY <1>1, <3>1 DEF Running
      <4>2. Promised(z) \subseteq SlotParts(SlotOf(o.name))
        BY <1>3, <4>1, PromisedParts
      <4>3. QED
        BY <2>4, <4>1, <4>2
    <3>4. QED
      BY <1>2, <2>5, <2>6, <3>1, <3>2, <3>3 DEF Calm, RunCalm
  <2>9. QED
    BY <2>7, <2>8
<1>6. CASE o.name = "whatIf"
  <2>1. /\ cache' = NoCache /\ verdict' = {}
        /\ \E b \in BOOLEAN : End(o, TRUE, b) /\ b
    BY <1>1, <1>3, <1>6, ReadStepCases, Zenon
  <2>2. op' = {} /\ \A z \in last' : z.name = "whatIf" /\ z.answer
    BY <1>1, <1>6, <2>1, Ends
  <2>3. CacheCalm' /\ VerdictCalm'
    BY <2>1 DEF CacheCalm, VerdictCalm, NoCache
  <2>4. RightAlways' /\ DeliversAlways'
    BY <2>2 DEF RightAlways, DeliversAlways, Writers, Entailed
  <2>5. QED
    BY <1>2, <2>2, <2>3, <2>4 DEF Calm, RunCalm
<1>7. QED
  BY <1>5, <1>6

\* An undisturbed list is read off results of the content of the operation.
LEMMA ListCalm ==
  ASSUME SafeInv, Undisturbed, Calm, NEW o \in op, ListStep(o)
  PROVE  Calm'
<1>1. /\ TypeInv /\ OpInv /\ o \in Running /\ (\A p \in op : p = o)
      /\ k \in Kernel /\ KernelInv(k) /\ scenario.faults = {}
  BY TheRunning DEF SafeInv, TypeInv, Undisturbed
<1> DEFINE b == k.classified /\ k.onto.content = o.content
<1>2. /\ o.at = "list" /\ End(o, TRUE, b)
      /\ k' = k /\ graph' = graph /\ cache' = cache /\ verdict' = verdict
      /\ scenario' = scenario
  BY <1>1, Zenon DEF ListStep
<1>3. o.name = "unsatisfiable" /\ k.digest = o.content /\ k.classified /\ ~Writing(o)
  BY <1>1, <1>2 DEF OpInv, Calm, RunCalm, Writing
<1>4. b = TRUE
  <2>1. k.onto = [content |-> k.digest, real |-> k.builtReal]
    BY <1>1, <1>3, ShownOntology
  <2>2. QED
    BY <1>3, <2>1
<1> HIDE DEF b
<1>5. op' = {} /\ \A z \in last' : z.name = "unsatisfiable" /\ z.answer = TRUE
  BY <1>1, <1>2, <1>3, <1>4, Ends
<1>6. RealizedInv(k') /\ VerdictCalm'
  BY <1>2 DEF Calm, VerdictCalm
<1>7. CacheCalm'
  BY <1>1, <1>2, <1>3, CacheStays DEF Calm
<1>8. RightAlways' /\ DeliversAlways'
  BY <1>5 DEF RightAlways, DeliversAlways, Writers, Entailed
<1>9. QED
  BY <1>5, <1>6, <1>7, <1>8 DEF Calm, RunCalm

CalmInv == SafeInv /\ (Undisturbed => Calm)

\* Every step keeps the invariant of undisturbed operations.
LEMMA NextCalm == CalmInv /\ [Next]_vars => CalmInv'
<1> SUFFICES ASSUME CalmInv, [Next]_vars PROVE CalmInv'
  OBVIOUS
<1>0. scenario' = scenario
  <2>1. CASE UNCHANGED vars
    BY <2>1 DEF vars
  <2>2. CASE \E s \in Store : Edit(s)
    BY <2>2 DEF Edit
  <2>3. CASE \E name \in Operation, s \in Store, g \in Graph, hierarchy \in BOOLEAN :
               Begin(name, s, g, hierarchy)
    BY <2>3, BeginCases DEF CalmInv, SafeInv
  <2>4. ASSUME NEW o \in op, VerbStep(o) \/ ConsistencyStep(o) \/ ReadStep(o) \/ ListStep(o)
        PROVE  scenario' = scenario
    BY <2>4, Zenon DEF VerbStep, ConsistencyStep, ReadStep, ListStep
  <2>5. QED
    BY <2>1, <2>2, <2>3, <2>4, Zenon DEF Next
<1> SUFFICES ASSUME Undisturbed PROVE Calm'
  BY <1>0, NextSafe DEF CalmInv, Undisturbed
<1>1. SafeInv /\ Calm
  BY DEF CalmInv
<1>2. CASE UNCHANGED vars
  <2>1. /\ k' = k /\ graph' = graph /\ cache' = cache /\ verdict' = verdict /\ op' = op
        /\ last' = last /\ scenario' = scenario
    BY <1>2 DEF vars
  <2>2. RunCalm' /\ VerdictCalm'
    BY <1>1, <2>1 DEF Calm, RunCalm, VerdictCalm, Realizes
  <2>3. CacheCalm'
    BY <1>1, <2>1 DEF Calm, CacheCalm, EntryCalm, SlotParts, Writing
  <2>4. DeliversAlways' /\ RightAlways'
    BY <1>1, <2>1 DEF Calm, DeliversAlways, Promised, RightAlways
  <2>5. QED
    BY <1>1, <2>1, <2>2, <2>3, <2>4 DEF Calm
<1>3. CASE Next
  <2>1. ASSUME NEW o \in op, ReadStep(o) PROVE Calm'
    <3>1. CASE ~End(o, FALSE, FALSE)
      BY <1>1, <2>1, <3>1, ReadCalm
    <3>2. CASE End(o, FALSE, FALSE)
      <4>1. o \in Running /\ scenario.faults = {}
        BY <1>1, TheRunning DEF SafeInv, Undisturbed
      <4>2. \A z \in last' : z.ok = FALSE
        BY <3>2, <4>1, Ends
      <4>3. last' # {}
        BY <3>2 DEF End
      <4>4. \/ Goto(o, "list")
            \/ \E b : End(o, TRUE, b)
        BY <2>1, <4>1, Zenon DEF ReadStep
      <4>5. last' = {} \/ \E z \in last' : z.ok = TRUE
        BY <4>4 DEF Goto, End
      <4>6. QED
        BY <4>2, <4>3, <4>5
    <3>3. QED
      BY <3>1, <3>2
  <2>2. QED
    BY <1>1, <1>3, <2>1, EditCalm, BeginCalm, VerbCalm, ConsistencyCalm, ListCalm, Zenon DEF Next
<1>4. QED
  BY <1>2, <1>3

\* Every reachable state satisfies the invariant of undisturbed operations.
LEMMA CalmInvariant == Spec => []CalmInv
<1>1. Init => CalmInv
  BY InitSafe, InitCalm DEF CalmInv
<1>2. QED
  BY <1>1, NextCalm, PTL DEF Spec

\* While nothing disturbs the operations, one that succeeds leaves in its graph what it
\* was asked for, for the content its store had, computed now or found in a cache.
THEOREM OperationsDeliver == Spec => []Delivers
<1>1. CalmInv => Delivers
  BY DEF CalmInv, Calm, Delivers
<1>2. QED
  BY <1>1, CalmInvariant, PTL

\* While nothing disturbs the operations, verdicts, lists of unsatisfiable classes and
\* comparisons are those of the content asked about, whatever the caches held.
THEOREM AnswersAreRight == Spec => []AnswersRight
<1>1. CalmInv => AnswersRight
  BY DEF CalmInv, Calm, RightAlways, AnswersRight
<1>2. QED
  BY <1>1, CalmInvariant, PTL
=============================================================================
