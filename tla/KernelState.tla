----------------------------- MODULE KernelState -----------------------------
(***************************************************************************)
(* The content tracking of the C++ kernel (src/src/KoncludeReasoner.cpp)   *)
(* as operators on one record, the fields of KoncludeReasoner::Impl that   *)
(* decide when an ontology is (re)built and which results may be read.     *)
(* Each operator is a method: it takes the kernel before the call and      *)
(* returns the kernel after it, the return value of the call in `ret'.     *)
(* Modules that own a kernel (KernelContent, StoreOps) share them.         *)
(*                                                                         *)
(* A 128-bit triple hash is the triple itself: collisions are not          *)
(* modelled.  The knowledge base is abstracted to the set of its triples.  *)
(***************************************************************************)
EXTENDS Integers, FiniteSets

CONSTANTS
  Triple,        \* the distinct triples a store may hold
  Trivial,       \* contents whose clash buildOntology sees while it scans them
  Inconsistent   \* contents that have no model

ASSUME TripleAssumption  == IsFiniteSet(Triple)
ASSUME TrivialAssumption == Trivial \subseteq Inconsistent
ASSUME InconsistentAssumption == Inconsistent \subseteq SUBSET Triple

Content == SUBSET Triple

\* What mOntology was loaded with: the triples and the load variant.
Ontology == [content : Content, real : BOOLEAN]
Blank    == [content |-> {}, real |-> FALSE]

\* How runPipeline may end: the scheduler gave up, class classification did not
\* complete, it completed, or concept realization completed as well.
Outcome == {"stall", "incomplete", "classified", "realized"}

None    == -1   \* no ontology loaded (builtGen), no verdict yet (consistState)

Kernel == [
  digest  : Content,   hasContent : BOOLEAN,  pend : Content,
  gen     : Nat,       lastAdded  : Int,      lastRemoved : Int,
  onto    : Ontology,  builtGen   : Nat \cup {None},  builtDigest : Content,
  builtDirty : BOOLEAN, builtReal : BOOLEAN,  loadError : BOOLEAN,
  trivial : BOOLEAN,   pipeLevel  : 0..2,     consistState : {None, 0, 1},
  classified : BOOLEAN, realized  : BOOLEAN,
  hidden  : BOOLEAN,   hiddenClassified : BOOLEAN, hiddenRealized : BOOLEAN,
  buffer  : {Blank} \cup Ontology,  stalled : BOOLEAN,
  rebuilds : Nat,      callGeneration : Nat,  ret : BOOLEAN ]

NewKernel == [
  digest  |-> {},      hasContent |-> FALSE,  pend |-> {},
  gen     |-> 0,       lastAdded  |-> 0,      lastRemoved |-> 0,
  onto    |-> Blank,   builtGen   |-> None,   builtDigest |-> {},
  builtDirty |-> FALSE, builtReal |-> FALSE,  loadError |-> FALSE,
  trivial |-> FALSE,   pipeLevel  |-> 0,      consistState |-> None,
  classified |-> FALSE, realized  |-> FALSE,
  hidden  |-> FALSE,   hiddenClassified |-> FALSE, hiddenRealized |-> FALSE,
  buffer  |-> Blank,   stalled |-> FALSE,
  rebuilds |-> 0,      callGeneration |-> 0,  ret |-> FALSE ]

-----------------------------------------------------------------------------
\* Variants of the operators below, each with one plausible slip, named for it;
\* each slip breaks one of the properties of KernelContent and StoreOps.

(* Impl::reset: a fresh empty ontology; the synced content stays. *)
ImplReset(k) ==
  [k EXCEPT !.onto = Blank, !.classified = FALSE, !.realized = FALSE,
            !.loadError = FALSE, !.trivial = FALSE, !.buffer = Blank]

(* syncBuffers with valid buffers.  The code counts what the new digest set  *)
(* adds, derives the number removed from the three sizes, and calls the      *)
(* content changed when either is not zero.                                  *)
Added(old, new)   == Cardinality({h \in new : h \notin old})
Removed(old, new) == Cardinality(old) - (Cardinality(new) - Added(old, new))
Changed(k, new)   == \/ ~k.hasContent
                     \/ Added(k.digest, new) # 0
                     \/ Removed(k.digest, new) # 0

HideKeepsFlags(k) ==
  IF ~k.hidden /\ k.builtGen >= 0
  THEN [k EXCEPT !.hiddenClassified = k.classified, !.hiddenRealized = k.realized,
                 !.hidden = TRUE]
  ELSE k

(* The results of the loaded ontology are hidden until the next verb. *)
Hide(k) ==
  IF ~k.hidden /\ k.builtGen >= 0
  THEN [k EXCEPT !.hiddenClassified = k.classified, !.hiddenRealized = k.realized,
                 !.classified = FALSE, !.realized = FALSE, !.hidden = TRUE]
  ELSE k

Sync(k, new) ==
  IF Changed(k, new)
  THEN Hide([k EXCEPT !.digest = new, !.pend = new, !.hasContent = TRUE,
                      !.gen = @ + 1, !.ret = TRUE,
                      !.lastAdded = Added(k.digest, new),
                      !.lastRemoved = Removed(k.digest, new)])
  ELSE [k EXCEPT !.ret = FALSE]

-----------------------------------------------------------------------------
(* buildOntology into the (fresh) ontology of k.  It returns early, with    *)
(* nothing mapped, when the triple model cannot be created (loads = FALSE). *)
BuildOntology(k, triples, real, loads) ==
  IF loads
  THEN [k EXCEPT !.onto = [content |-> triples, real |-> real],
                 !.trivial = @ \/ triples \in Trivial, !.classified = FALSE]
  ELSE [k EXCEPT !.loadError = TRUE]

(* Content that changed and changed back before any verb: the loaded        *)
(* ontology is valid again for the present generation.                      *)
ChangedBack(k) ==
  IF k.builtGen >= 0 /\ k.builtGen # k.gen /\ k.digest = k.builtDigest
  THEN [k EXCEPT !.builtGen = k.gen] ELSE k

Unhide(k) ==
  IF k.hidden
  THEN [k EXCEPT !.classified = k.hiddenClassified, !.realized = k.hiddenRealized,
                 !.hidden = FALSE]
  ELSE k

ReusableInAnyVariant(k, real) == k.builtGen = k.gen /\ ~k.loadError
Reusable(k, real) == k.builtGen = k.gen /\ k.builtReal = real /\ ~k.loadError

RebuildKeepsVerdict(k, real, loads) ==
  LET fresh == IF k.builtDirty THEN ImplReset(k) ELSE k
      blank == [fresh EXCEPT !.builtDirty = TRUE, !.builtGen = None, !.pipeLevel = 0,
                             !.hidden = FALSE]
      built == BuildOntology(blank, IF k.hasContent THEN k.pend ELSE {}, real, loads)
  IN IF built.loadError
     THEN built
     ELSE [built EXCEPT !.builtGen = k.gen, !.builtReal = real,
                        !.builtDigest = k.digest, !.rebuilds = @ + 1]

Rebuild(k, real, loads) ==
  LET fresh == IF k.builtDirty THEN ImplReset(k) ELSE k
      blank == [fresh EXCEPT !.builtDirty = TRUE, !.builtGen = None, !.pipeLevel = 0,
                             !.consistState = None, !.hidden = FALSE]
      built == BuildOntology(blank, IF k.hasContent THEN k.pend ELSE {}, real, loads)
  IN IF built.loadError
     THEN built
     ELSE [built EXCEPT !.builtGen = k.gen, !.builtReal = real,
                        !.builtDigest = k.digest, !.rebuilds = @ + 1]

(* ensureBuilt returns FALSE exactly when it leaves loadError set. *)
EnsureBuilt(k, real, loads) ==
  LET now == ChangedBack(k)
  IN IF Reusable(now, real) THEN Unhide(now) ELSE Rebuild(now, real, loads)

-----------------------------------------------------------------------------
(* runPipeline: prepareOntology submits the requirements and waits; when    *)
(* the scheduler shows no activity it gives up and the flags stay as they   *)
(* are.  Otherwise the flags are read off the completed processing steps.   *)
RunPipeline(k, withRealization, outcome) ==
  LET run == [k EXCEPT !.callGeneration = @ + 1]
  IN IF outcome = "stall"
     THEN [run EXCEPT !.stalled = TRUE, !.ret = FALSE]
     ELSE [run EXCEPT !.classified = outcome # "incomplete",
                      !.realized = withRealization /\ outcome = "realized",
                      !.ret = outcome # "incomplete"]

VerbForgetsFailure(k, real, loads, outcome) ==
  LET level == IF real THEN 2 ELSE 1
      e == EnsureBuilt(k, real, loads)
      p == RunPipeline(e, real, outcome)
  IN CASE e.loadError          -> [e EXCEPT !.ret = FALSE]
       [] ~e.loadError /\ e.pipeLevel >= level -> [e EXCEPT !.ret = e.classified]
       [] ~e.loadError /\ e.pipeLevel < level  ->
            IF p.ret THEN [p EXCEPT !.pipeLevel = level] ELSE p

(* The common shape of classification() (level 1) and realization()         *)
(* (level 2): a result of that level is returned as it stands, a failed run *)
(* marks the loaded ontology so that the next verb builds it again.         *)
Verb(k, real, loads, outcome) ==
  LET level == IF real THEN 2 ELSE 1
      e == EnsureBuilt(k, real, loads)
      p == RunPipeline(e, real, outcome)
  IN CASE e.loadError          -> [e EXCEPT !.ret = FALSE]
       [] ~e.loadError /\ e.pipeLevel >= level -> [e EXCEPT !.ret = e.classified]
       [] ~e.loadError /\ e.pipeLevel < level  ->
            IF p.ret THEN [p EXCEPT !.pipeLevel = level]
                     ELSE [p EXCEPT !.builtGen = None]

Classification(k, loads, outcome) == Verb(k, FALSE, loads, outcome)
Realization(k, loads, outcome)    == Verb(k, TRUE, loads, outcome)

(* consistency(): a verdict is memoised only when it was computed; a load   *)
(* or pipeline failure returns FALSE and leaves no verdict behind.          *)
Judge(k) ==
  LET consistent == k.onto.content \notin Inconsistent
  IN [k EXCEPT !.consistState = IF consistent THEN 1 ELSE 0, !.ret = consistent]

Consistency(k, loads, outcome) ==
  LET e == EnsureBuilt(k, FALSE, loads)
      c == Classification(e, loads, outcome)
  IN CASE e.loadError -> [e EXCEPT !.ret = FALSE]
       [] ~e.loadError /\ e.consistState # None -> [e EXCEPT !.ret = e.consistState # 0]
       [] ~e.loadError /\ e.consistState = None /\ e.trivial ->
            [e EXCEPT !.consistState = 0, !.ret = FALSE]
       [] ~e.loadError /\ e.consistState = None /\ ~e.trivial ->
            IF e.pipeLevel = 0
            THEN IF c.ret THEN Judge(c) ELSE c
            ELSE Judge(e)

(* buildInferredTripleBuffer / buildPropertyTripleBuffer: nothing is        *)
(* written, and 0 returned, while no result may be read.                    *)
BuildBuffer(k) ==
  IF k.classified THEN [k EXCEPT !.buffer = k.onto, !.ret = TRUE]
                  ELSE [k EXCEPT !.ret = FALSE]

ResetKeepsOntology(k) ==
  [k EXCEPT
     !.digest = {}, !.builtDigest = {}, !.pend = {}, !.hasContent = FALSE,
     !.gen = @ + 1, !.builtGen = None, !.builtDirty = FALSE, !.pipeLevel = 0,
     !.consistState = None, !.hidden = FALSE,
     !.lastAdded = 0, !.lastRemoved = 0]
ResetRestartsGenerations(k) ==
  [ImplReset(k) EXCEPT
     !.digest = {}, !.builtDigest = {}, !.pend = {}, !.hasContent = FALSE,
     !.gen = 0, !.builtGen = None, !.builtDirty = FALSE, !.pipeLevel = 0,
     !.consistState = None, !.hidden = FALSE,
     !.lastAdded = 0, !.lastRemoved = 0]

(* reset(): forget the synced content and drop the loaded ontology. *)
Reset(k) ==
  [ImplReset(k) EXCEPT
     !.digest = {}, !.builtDigest = {}, !.pend = {}, !.hasContent = FALSE,
     !.gen = @ + 1, !.builtGen = None, !.builtDirty = FALSE, !.pipeLevel = 0,
     !.consistState = None, !.hidden = FALSE,
     !.lastAdded = 0, !.lastRemoved = 0]

-----------------------------------------------------------------------------
(* The inductive invariant: how the flags of Impl hang together.  Stated of *)
(* any kernel s, because the proofs follow it through each step of a method. *)

\* The retained wire buffers hold the synced content.
SyncedInv(s) == s.pend = s.digest /\ (~s.hasContent => s.digest = {})

\* A loaded ontology that counts as built was mapped completely from the content
\* and for the variant on record; its generation, once it is the present one,
\* stands for the present content; its pipeline level says whether it has results.
BuiltInv(s) ==
  s.builtGen # None =>
    /\ s.onto = [content |-> s.builtDigest, real |-> s.builtReal]
    /\ s.builtDirty /\ ~s.loadError
    /\ s.builtGen <= s.gen
    /\ s.builtGen = s.gen => s.builtDigest = s.digest
    /\ s.trivial => s.builtDigest \in Inconsistent
    /\ s.pipeLevel \in {0, IF s.builtReal THEN 2 ELSE 1}
    /\ s.pipeLevel # 0 <=> (s.classified \/ (s.hidden /\ s.hiddenClassified))

\* Results are shown only for the present generation and never while hidden.
ShownInv(s) ==
  /\ s.classified => ~s.hidden /\ s.builtGen = s.gen
  /\ s.hidden => ~s.classified /\ s.builtGen # None
  /\ s.realized => s.classified /\ s.builtReal
  /\ s.hidden /\ s.hiddenRealized => s.hiddenClassified /\ s.builtReal

\* Before the first load there is nothing that reset() would have to drop.
CleanInv(s) ==
  ~s.builtDirty => ~s.trivial /\ ~s.loadError /\ ~s.classified /\ ~s.realized

\* The memoised verdict is the one of the content built last.
VerdictInv(s) ==
  /\ s.consistState = 1 => s.builtDigest \notin Inconsistent
  /\ s.consistState = 0 => s.builtDigest \in Inconsistent

\* The flags of a kernel agree with each other and with what is loaded.
KernelInv(s) ==
  SyncedInv(s) /\ BuiltInv(s) /\ ShownInv(s) /\ CleanInv(s) /\ VerdictInv(s)
=============================================================================
