-------------------------------- MODULE Pipeline --------------------------------
(***************************************************************************)
(* One kernel (KoncludeReasoner::Impl) and the threads that reason for it, *)
(* over many calls: runPipeline hands the ontology to the manager thread,  *)
(* which has it worked on step by step by a thread per step, and waits     *)
(* until it is called back or the run looks stalled.  Ontologies are freed *)
(* and their addresses used again; realizers are found by address.         *)
(*                                                                         *)
(* The vendored threads are modelled by what the patched calls ask of them:*)
(* on an ontology it has not seen a thread frees what it kept of earlier   *)
(* ones (touching those ontologies), makes an item, works in tasks, and    *)
(* keeps the item when it is done.  Items are keyed by address and call    *)
(* generation; an item is done before its ontology goes, so the keys never *)
(* collide and an item is named by its ontology here.                      *)
(***************************************************************************)
EXTENDS KonStall, Sequences, FiniteSets

CONSTANTS
  Address,     \* where the allocator may put an ontology
  None,        \* no ontology
  MaxTasks,    \* tasks started in one wait
  Scenarios    \* [faults, resets]: what may go wrong, and how often reset() is called

ASSUME PipelineAssumption ==
  /\ Address # {} /\ None \notin [at : Address, number : Nat]
  /\ MaxTasks \in Nat
  /\ \A s \in Scenarios : s.resets \in Nat /\ s.faults \subseteq {"load", "short", "hang"}

VARIABLES
  scenario,
  heap,        \* per address: the number of the ontology that lives there, 0 if none
  born,        \* ontologies made so far
  ontology, previous,  \* mOntology, mPreviousOntology: [at, number] or None
  dirty,       \* mBuiltDirty: mOntology received a load
  caller,      \* where the calling thread is
  limit,       \* the threshold stallDetected has read
  k,           \* the atomics of KonStall
  job,         \* the run in the threads: steps to do, where the first of them is, whether it is over
  created,     \* per step: threads made for it
  other,       \* a second thread that asks for the thread of a step: the step it found nothing for
  stale,       \* per step: ontologies its thread keeps finished items of
  realizers,   \* sequence of [running, items]; those stopped are mStoppedRealizers
  hash,        \* mOntoRealizerHash: the realizer of an address, 0 if none
  hung,        \* a handler or a task that never returns
  quiet,       \* ticks since an event began or ended or a task ended
  dangling     \* ontologies used after they were freed

call == <<ontology, previous, dirty, heap, born>>
threads == <<created, other, stale, realizers, hash>>
vars == <<scenario, call, caller, limit, k, job, threads, hung, quiet, dangling>>

-----------------------------------------------------------------------------
Kinds == {"preprocess", "precompute", "classify", "objectProperties", "dataProperties"}

\* The requirements of a run: buildBaseRequirements, then those of realization.
Base == <<"preprocess", "precompute", "classify", "objectProperties", "dataProperties">>
Steps(realize) == IF realize THEN Append(Base, "realize") ELSE Base

NoJob == [todo |-> <<>>, at |-> "none", worker |-> 0, task |-> "none", done |-> FALSE]

Alive(onts) == {o \in onts : o # None /\ heap[o.at] = o.number}
Uses(onts) == dangling' = dangling \cup (onts \ Alive(onts))

Free(h, o) == IF o = None THEN h ELSE [h EXCEPT ![o.at] = 0]

Init ==
  /\ scenario \in Scenarios
  /\ ontology = [at |-> CHOOSE a \in Address : TRUE, number |-> 1]
  /\ heap = [a \in Address |-> IF a = ontology.at THEN 1 ELSE 0]
  /\ born = 1 /\ previous = None /\ dirty = FALSE
  /\ caller = "idle" /\ limit = 0 /\ k = Quiet /\ job = NoJob
  /\ created = [s \in Kinds |-> 0] /\ other = "none"
  /\ stale = [s \in Kinds |-> {}]
  /\ realizers = <<>> /\ hash = [a \in Address |-> 0]
  /\ hung = FALSE /\ quiet = 0 /\ dangling = {}

-----------------------------------------------------------------------------
(* The calling thread: load, run, wait *)

\* releaseStoppedRealizerItems: what stopped realizers kept of earlier calls is freed.
StoppedItems == UNION {realizers[i].items : i \in {j \in DOMAIN realizers : ~realizers[j].running}}
ReleaseStopped == [i \in DOMAIN realizers |-> IF realizers[i].running THEN realizers[i]
                                              ELSE [realizers[i] EXCEPT !.items = {}]]

ResetFreesAtOnce(a) ==
  /\ Uses(StoppedItems)
  /\ realizers' = ReleaseStopped
  /\ heap' = [Free(Free(heap, previous), ontology) EXCEPT ![a] = born + 1]
  /\ previous' = None
  /\ ontology' = [at |-> a, number |-> born + 1]
  /\ born' = born + 1

\* reset(): the ontology before the last one goes, the last one stays until the next run is over.
Reset(a) ==
  /\ Uses(StoppedItems)
  /\ realizers' = ReleaseStopped
  /\ heap' = [Free(heap, previous) EXCEPT ![a] = born + 1]
  /\ previous' = ontology
  /\ ontology' = [at |-> a, number |-> born + 1]
  /\ born' = born + 1

\* ensureBuilt: an ontology that received a load makes room for a fresh one.  A failed load
\* ends the call; the next one loads again.
Load(fails) ==
  /\ caller = "idle"
  /\ fails => "load" \in scenario.faults
  /\ \/ dirty /\ born <= scenario.resets /\ \E a \in {b \in Address : Free(heap, previous)[b] = 0} : Reset(a)
     \/ ~dirty /\ UNCHANGED <<heap, previous, ontology, born, realizers, dangling>>
  /\ dirty' = TRUE
  /\ caller' = IF fails THEN "idle" ELSE "loaded"
  /\ UNCHANGED <<scenario, limit, k, job, created, other, stale, hash, hung, quiet>>

\* prepareOntology posts the ontology to the manager thread and starts to wait.
Prepare(realize) ==
  /\ caller = "loaded"
  /\ k' = BeginWait(k) /\ quiet' = 0
  /\ job' = [NoJob EXCEPT !.todo = Steps(realize), !.at = "look"]
  /\ caller' = "waiting"
  /\ UNCHANGED <<scenario, call, limit, threads, hung, dangling>>

\* waitForCallback(1000): called back, or a second has passed.
CalledBack ==
  /\ caller = "waiting" /\ job.done
  /\ caller' = "prepared"
  /\ UNCHANGED <<scenario, call, limit, k, job, threads, hung, quiet, dangling>>

TimedOut ==
  /\ caller = "waiting" /\ ~job.done
  /\ caller' = "suspicious"
  /\ UNCHANGED <<scenario, call, limit, k, job, threads, hung, quiet, dangling>>

\* stallDetected reads one atomic after the other while the threads go on.
LookAtTasks ==
  /\ caller = "suspicious"
  /\ caller' = IF MayStall(k) THEN "choosing" ELSE "waiting"
  /\ UNCHANGED <<scenario, call, limit, k, job, threads, hung, quiet, dangling>>

ChooseThreshold ==
  /\ caller = "choosing"
  /\ limit' = Threshold(k)
  /\ caller' = "measuring"
  /\ UNCHANGED <<scenario, call, k, job, threads, hung, quiet, dangling>>

\* A stalled run is given up: runPipeline answers FALSE, the instance is discarded.
LookAtClock ==
  /\ caller = "measuring"
  /\ \/ Overdue(k, limit) /\ k' = Declare(k) /\ caller' = "stalled"
     \/ ~Overdue(k, limit) /\ caller' = "waiting" /\ UNCHANGED k
  /\ limit' = 0
  /\ UNCHANGED <<scenario, call, job, threads, hung, quiet, dangling>>

\* stopAndClearRealizers: join each, keep it until the end, and forget who it worked for.
StopKeepsHash ==
  /\ realizers' = [i \in DOMAIN realizers |-> [realizers[i] EXCEPT !.running = FALSE]]
  /\ UNCHANGED hash
StopRealizers ==
  /\ realizers' = [i \in DOMAIN realizers |-> [realizers[i] EXCEPT !.running = FALSE]]
  /\ hash' = [a \in Address |-> 0]

\* runPipeline after waitSynchronization: the realizers of this run are stopped, the ontology
\* before this one goes.
Finish ==
  /\ caller = "prepared"
  /\ \/ job.worker # 0 /\ StopRealizers
     \/ job.worker = 0 /\ UNCHANGED <<realizers, hash>>
  /\ heap' = Free(heap, previous) /\ previous' = None
  /\ caller' = "idle" /\ job' = NoJob /\ quiet' = 0
  /\ UNCHANGED <<scenario, ontology, born, dirty, limit, k, created, other, stale, hung, dangling>>

\* ~Impl: the manager first, which joins and frees all threads with what they keep.
DeleteManager ==
  /\ caller = "idle"
  /\ Uses((UNION {stale[s] : s \in Kinds}) \cup UNION {realizers[i].items : i \in DOMAIN realizers})
  /\ stale' = [s \in Kinds |-> {}] /\ realizers' = <<>> /\ hash' = [a \in Address |-> 0]
  /\ caller' = "joined"
  /\ UNCHANGED <<scenario, call, limit, k, job, created, other, hung, quiet>>

DeleteOntologies ==
  /\ caller = "joined"
  /\ heap' = Free(Free(heap, previous), ontology)
  /\ ontology' = None /\ previous' = None
  /\ caller' = "gone"
  /\ UNCHANGED <<scenario, born, dirty, limit, k, job, threads, hung, quiet, dangling>>

-----------------------------------------------------------------------------
(* The threads *)

Step == Head(job.todo)
Going == ~hung /\ job.todo # <<>>

\* The managers of the steps: look for the one thread of a step under the read lock, make it
\* under the write lock unless somebody else has meanwhile.
Found(s) == created[s] > 0
Make(s) == created' = [created EXCEPT ![s] = IF Found(s) THEN @ ELSE @ + 1]

ManagerAsks(s) ==
  /\ Going /\ Step = s
  /\ \/ job.at = "look" /\ job' = [job EXCEPT !.at = IF Found(s) THEN "posted" ELSE "make"] /\ UNCHANGED created
     \/ job.at = "make" /\ Make(s) /\ job' = [job EXCEPT !.at = "posted"]
  /\ UNCHANGED other

OtherAsks(s) ==
  /\ caller = "waiting"
  /\ \/ other = "none" /\ ~Found(s) /\ other' = s /\ UNCHANGED created
     \/ other = s /\ Make(s) /\ other' = "none"
  /\ UNCHANGED job

Asked(s) ==
  /\ ManagerAsks(s) \/ OtherAsks(s)
  /\ UNCHANGED <<scenario, call, caller, limit, k, stale, realizers, hash, hung, quiet, dangling>>

GetPreprocessor == Asked("preprocess")
GetPrecomputator == Asked("precompute")
GetClassClassifier == Asked("classify")
GetObjectPropertyClassifier == Asked("objectProperties")
GetDataPropertyClassifier == Asked("dataProperties")

\* The realizer of an ontology is looked up by its address; a new one is started if there is none.
GetRealizer ==
  /\ Going /\ Step = "realize" /\ job.at = "look"
  /\ \/ hash[ontology.at] # 0 /\ job' = [job EXCEPT !.at = "posted", !.worker = hash[ontology.at]]
        /\ UNCHANGED <<realizers, hash>>
     \/ /\ hash[ontology.at] = 0
        /\ realizers' = Append(realizers, [running |-> TRUE, items |-> {}])
        /\ hash' = [hash EXCEPT ![ontology.at] = Len(realizers')]
        /\ job' = [job EXCEPT !.at = "posted", !.worker = Len(realizers')]
  /\ UNCHANGED <<scenario, call, caller, limit, k, created, other, stale, hung, quiet, dangling>>

\* The thread of the step handles the event: what it kept of other ontologies is freed now.
Begin ==
  /\ Going /\ job.at = "posted"
  /\ Step = "realize" => realizers[job.worker].running
  /\ k' = Touch(k) /\ quiet' = 0
  /\ \/ /\ Step = "realize" /\ UNCHANGED stale
        /\ realizers' = [realizers EXCEPT ![job.worker].items = @ \cup {ontology}]
        /\ Uses({ontology})
     \/ /\ Step # "realize" /\ UNCHANGED realizers
        /\ Uses(stale[Step] \cup {ontology})
        /\ stale' = [stale EXCEPT ![Step] = {}]
  /\ job' = [job EXCEPT !.at = "working"]
  /\ UNCHANGED <<scenario, call, caller, limit, created, other, hash, hung>>

StartTask ==
  /\ Going /\ job.at = "working" /\ job.task = "none" /\ k.tasks < MaxTasks
  /\ k' = Enter(k)
  /\ job' = [job EXCEPT !.task = "running"]
  /\ UNCHANGED <<scenario, call, caller, limit, threads, hung, quiet, dangling>>

EndTaskLate ==
  \/ job.task = "running" /\ k' = Leave(k) /\ quiet' = 0 /\ job' = [job EXCEPT !.task = "ending"]
  \/ job.task = "ending" /\ k' = Touch(k) /\ UNCHANGED quiet /\ job' = [job EXCEPT !.task = "none"]
\* ~Scope
EndTask ==
  \/ job.task = "running" /\ k' = Touch(k) /\ quiet' = 0 /\ job' = [job EXCEPT !.task = "ending"]
  \/ job.task = "ending" /\ k' = Leave(k) /\ UNCHANGED quiet /\ job' = [job EXCEPT !.task = "none"]

TaskEnds ==
  /\ Going /\ EndTask
  /\ UNCHANGED <<scenario, call, caller, limit, threads, hung, dangling>>

\* The step is over and its item is kept.  An inconsistent ontology is not classified.
End(short) ==
  /\ Going /\ job.at = "working" /\ job.task = "none"
  /\ short => Step = "precompute" /\ "short" \in scenario.faults
  /\ k' = Touch(k) /\ quiet' = 0
  /\ stale' = IF Step = "realize" THEN stale ELSE [stale EXCEPT ![Step] = @ \cup {ontology}]
  /\ job' = IF short \/ Len(job.todo) = 1 THEN [job EXCEPT !.todo = <<>>, !.at = "none", !.done = TRUE]
            ELSE [job EXCEPT !.todo = Tail(@), !.at = "look"]
  /\ UNCHANGED <<scenario, call, caller, limit, created, other, realizers, hash, hung, dangling>>

\* A handler, a task or a wake-up goes wrong for good.
Hang ==
  /\ "hang" \in scenario.faults /\ Going /\ job.task # "ending"
  /\ hung' = TRUE
  /\ UNCHANGED <<scenario, call, caller, limit, k, job, threads, quiet, dangling>>

Tick ==
  /\ caller \in {"waiting", "suspicious", "choosing", "measuring"}
  /\ k' = [k EXCEPT !.idle = Age(@)]
  /\ quiet' = Age(quiet)
  /\ UNCHANGED <<scenario, call, caller, limit, job, threads, hung, dangling>>

Caller ==
  \/ CalledBack \/ TimedOut \/ LookAtTasks \/ ChooseThreshold \/ LookAtClock \/ Finish
Workers ==
  \/ GetPreprocessor \/ GetPrecomputator \/ GetClassClassifier \/ GetObjectPropertyClassifier
  \/ GetDataPropertyClassifier \/ GetRealizer
  \/ Begin \/ StartTask \/ TaskEnds \/ \E short \in BOOLEAN : End(short)
Next ==
  \/ \E fails \in BOOLEAN : Load(fails)
  \/ \E realize \in BOOLEAN : Prepare(realize)
  \/ Caller \/ Workers \/ Hang \/ Tick
  \/ DeleteManager \/ DeleteOntologies

\* The scheduler runs every thread that can go on, and time passes.
Fairness == WF_vars(Caller) /\ WF_vars(Workers) /\ WF_vars(Tick)
Spec == Init /\ [][Next]_vars /\ Fairness

-----------------------------------------------------------------------------
(* Properties *)

\* A run is declared stalled only when no event has begun or ended and no task has ended for
\* longer than the short threshold, or the long one while no task has been started (KonStall.h:9).
AlarmMeansQuiet ==
  [][k.stalled' /\ ~k.stalled =>
       quiet > (IF Fast < Slow THEN Fast ELSE Slow) /\ (k.tasks = 0 => quiet > Slow)]_vars

\* What is to be realized is with a thread that runs, whatever was freed and allocated
\* since (KoncludeReasoner.cpp:170-174).
RealizerRuns == job.worker # 0 /\ caller # "idle" /\ job.todo # <<>> => realizers[job.worker].running

\* Nobody uses an ontology after it was freed, as long as each run visits every step: an
\* ontology goes only when all threads have seen its successor (KoncludeReasoner.cpp:2134).
FreedInTime == scenario.faults \cap {"load", "short"} = {} => dangling = {}

\* Every run comes back, called back or declared stalled, unless a task never ends.
CallReturns == (caller = "waiting") ~> (caller \in {"idle", "stalled", "joined", "gone"} \/ (hung /\ job.task = "running"))
=============================================================================
