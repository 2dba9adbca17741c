---------------------------- MODULE KernelContent ----------------------------
(***************************************************************************)
(* One KoncludeReasoner instance driven by any sequence of its public      *)
(* calls: every content a caller may sync, every verb in every order, with *)
(* loads that fail and pipelines that stall or stop short.                 *)
(***************************************************************************)
EXTENDS KernelState

CONSTANTS
  MaxGen,    \* bound on content generations
  MaxRuns,   \* bound on pipeline runs
  MaxBuilds  \* bound on ontology builds

ASSUME BoundsAssumption == MaxGen \in Nat /\ MaxRuns \in Nat /\ MaxBuilds \in Nat

VARIABLES
  impl,  \* the kernel: KoncludeReasoner::Impl
  call   \* the method called last

kernelVars == <<impl, call>>

Methods == {"new", "sync", "classification", "realization", "consistency",
            "buildBuffer", "reset"}

KernelTypeOK == impl \in Kernel /\ call \in Methods

KernelInit == impl = NewKernel /\ call = "new"

SyncCall(new) ==
  /\ impl.gen < MaxGen
  /\ impl' = Sync(impl, new) /\ call' = "sync"

\* The bounds on verbs.
MayRun == impl.callGeneration < MaxRuns /\ impl.rebuilds < MaxBuilds

ClassificationCall(loads, outcome) ==
  /\ MayRun
  /\ outcome # "realized"           \* no realization step was requested
  /\ impl' = Classification(impl, loads, outcome) /\ call' = "classification"

RealizationCall(loads, outcome) ==
  /\ MayRun
  /\ impl' = Realization(impl, loads, outcome) /\ call' = "realization"

ConsistencyCall(loads, outcome) ==
  /\ MayRun
  /\ outcome # "realized"
  /\ impl' = Consistency(impl, loads, outcome) /\ call' = "consistency"

BuildBufferCall == impl' = BuildBuffer(impl) /\ call' = "buildBuffer"

ResetCall ==
  /\ impl.gen < MaxGen
  /\ impl' = Reset(impl) /\ call' = "reset"

KernelNext ==
  \/ \E new \in Content : SyncCall(new)
  \/ \E loads \in BOOLEAN, outcome \in Outcome :
       \/ ClassificationCall(loads, outcome)
       \/ RealizationCall(loads, outcome)
       \/ ConsistencyCall(loads, outcome)
  \/ BuildBufferCall
  \/ ResetCall

KernelSpec == KernelInit /\ [][KernelNext]_kernelVars

-----------------------------------------------------------------------------
(* Properties *)

\* Results that may be read describe the content synced last: after a changing
\* sync, a failed load or a failed pipeline nothing of an older content shows.
ShownIsCurrent == impl.classified => impl.onto.content = impl.digest

\* Realization results are readable only over an ontology loaded in the
\* realization variant and only together with classification results.
RealizedVariant == impl.realized => impl.classified /\ impl.onto.real

\* A verb that reports success leaves readable results of its own variant for
\* the synced content, however the kernel got there (rebuilt, reused, unhidden).
VerbServesItsVariant ==
  /\ call = "classification" /\ impl.ret =>
       impl.classified /\ impl.onto = [content |-> impl.digest, real |-> FALSE]
  /\ call = "realization" /\ impl.ret =>
       impl.classified /\ impl.onto = [content |-> impl.digest, real |-> TRUE]

\* consistency() answers TRUE only for a content that has a model, and the
\* memoised verdict of the loaded ontology is never that of another content.
VerdictSound ==
  /\ call = "consistency" /\ impl.ret => impl.digest \notin Inconsistent
  /\ impl.consistState = 1 => impl.builtDigest \notin Inconsistent
  /\ impl.consistState = 0 => impl.builtDigest \in Inconsistent

\* A failure is never memoised: after a verb reported failure without a verdict
\* no ontology counts as built, so the next verb loads the retained content again.
FailureIsRetried ==
  /\ call \in {"classification", "realization"} /\ ~impl.ret => impl.builtGen = None
  /\ call = "consistency" /\ ~impl.ret /\ impl.consistState = None => impl.builtGen = None

\* Idempotent per generation: asking again for a result that may be read runs no
\* pipeline, rebuilds nothing and keeps the result.
IdempotentPerGeneration ==
  [][/\ impl.classified
     /\ call' = IF impl.onto.real THEN "realization" ELSE "classification"
     => /\ impl'.ret
        /\ impl'.callGeneration = impl.callGeneration
        /\ impl'.rebuilds = impl.rebuilds
        /\ impl'.onto = impl.onto /\ impl'.classified]_kernelVars

\* Content that changed and changed back before a verb is served from the loaded
\* ontology: no rebuild, no pipeline run.
ChangeBackIsFree ==
  [][/\ impl.hidden /\ impl.hiddenClassified /\ impl.digest = impl.builtDigest
     /\ call' = IF impl.builtReal THEN "realization" ELSE "classification"
     => /\ impl'.ret
        /\ impl'.callGeneration = impl.callGeneration
        /\ impl'.rebuilds = impl.rebuilds]_kernelVars

\* A generation names one content: the caches of RdfReasoner compare generations
\* and never contents, so equal numbers must mean equal content.
GenerationNamesContent ==
  [][/\ impl'.gen >= impl.gen
     /\ impl'.gen = impl.gen => impl'.digest = impl.digest /\ impl'.pend = impl.pend]_kernelVars

\* The removed-triple count, computed from three sizes without looking at the old
\* triples again, is the number of triples the new content really lacks.
SyncCountsDifference ==
  [][call' = "sync" /\ impl'.ret
     => /\ impl'.lastAdded   = Cardinality(impl'.digest \ impl.digest)
        /\ impl'.lastRemoved = Cardinality(impl.digest \ impl'.digest)]_kernelVars

\* The flags of the kernel agree with each other and with what is loaded.
Bookkeeping == KernelInv(impl)

-----------------------------------------------------------------------------
\* The kernel implements the contract its callers rely on.
Contract == INSTANCE ReasonerContract WITH
  content <- impl.digest, handed <- impl.hasContent, gen <- impl.gen,
  shown   <- IF impl.classified THEN {impl.onto} ELSE {},
  runs    <- impl.callGeneration

ImplementsContract == Contract!Spec
=============================================================================
