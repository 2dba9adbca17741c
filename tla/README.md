# Verification of rdf-reasoner-konclude

This directory holds TLA+ models of the reasoner's own logic: what the C++
class around the Konclude kernel, the Web Worker and the TypeScript class
`RdfReasoner` do between a call and its result. TLC checks the models on small
instances; TLAPS proves theorems about most of them for every value of the
constants. Source paths are relative to the repository.

Contents: 1 the system, 2 inventory of components, 3 the modules and how they
correspond to the code, 4 the runs, 5 fairness, 6 what is proved, 7 what is only
model-checked and what is not modelled, 8 disagreements found, 9 plan, 10 how to
run.

## 1. The system

A user calls methods of `RdfReasoner` (`ts/index.ts`) with an N3 store. Each
method is an *operation*: it queues behind the operations asked for before it,
encodes the store (`ts/n3Inject.ts`) and makes several *calls* to a Worker
(`ts/worker.ts`), one at a time: `sync` hands the content over, a *verb*
(`classification`, `realization`, `consistency`) computes, a read
(`getInferredTripleBuffer`, ...) copies results out. In the Worker a
`KoncludeReasoner` (`src/KoncludeReasoner.cpp`) keeps the content, decides when
its ontology is stale, loads it again, and drives the vendored Konclude kernel
on the threads that `src/compat` replaces Qt's with.

    store -> RdfReasoner -(queue)-> operation -(postMessage, ids)-> worker.ts
                 ^  caches by generation           |
                 |                                 v
                 +---- results, generation -- KoncludeReasoner (content, flags)
                                                   |
                                   vendored kernel on CThread / task unit
                                   (managers, realizers, task analyser, stall detection)

Three kinds of concurrency meet here. On the main thread promises interleave:
the code after an `await` runs when a reply, a timer or a Worker event settles
its promise. The Worker runs beside it and can hang, crash or be replaced. In
the Worker's WASM memory the kernel's own threads exchange events and tasks.

## 2. Inventory

Each component: state; operations; interactions; what is hard; what makes it
correct.

**Kernel content tracking** (`src/KoncludeReasoner.cpp` 410-633, 2050-2370,
3545-3749).
State: the synced triples as a digest set, a content generation, the loaded
ontology with the generation, digest and load variant it was built from, flags
`classified`/`realized`, their hidden copies, the memoised verdict, the result
buffer, the stall flag. Operations: `syncBuffers`, `ensureBuilt`, the verbs,
`buildInferredTripleBuffer`, `reset`. Hard: content that changes and changes
back; two load variants; loads and pipelines that fail halfway. Correct when
what may be read always describes the content synced last, and nothing is
computed twice.

**Ontology loader** (same file, 1100-2050). State: what it reads out of the triples
besides handing them to the kernel: trivial clashes, functional and inverse
functional declarations it keeps from the kernel, restrictions, lists,
cardinalities, and the justifications of what they imply. One operation,
`buildOntology`. Hard: scans whose maps keep the last value written, in a buffer
whose order nobody promises. Correct when its own verdict does not depend on the
order, and what it keeps from the kernel is made up for.

**Result builders and lookups** (same file, 634-1030 and 2400-3840). State: the
sections of the buffer and the tables that share their entries. Operations:
`buildInferredTripleBuffer`, `buildPropertyTripleBuffer`, `isSubClassOf`,
`isInstanceOf`, `getUnsatisfiableClasses`, `getSubClassJustification` and their
like. Hard: the buffer reduces the hierarchy to edges between representatives
and the lookups walk the nodes; explanations are shared by hash. Correct when
buffer and lookups say the same, and an explanation is that of its triple.

**Worker call layer** (`ts/index.ts` 116-432, 2915-2935). State: the promise
queue, the map of pending calls, the current Worker, the last load and the
state calls since it, the watchdog timers. Operations: `_enqueue`,
`_call`, `_callOnce`, `_reinitForBisection`, the Worker listeners,
`terminate`. Hard: late replies, a watchdog that fires early, a second failure
during recovery, recycling in the middle of an operation. Correct when
operations do not overlap, resolve with results of their own content, and are
all answered.

**Worker message handler** (`ts/worker.ts`). State: the module instance.
Yields to the event loop before blocking calls, so messages may overtake each
other. Correct when each reply carries the id and the results of its request.

**Store operations and caches** (`ts/index.ts` 425-1117). State: one cache
entry per kind of operation, the verdict cache, the graphs written in the
user's stores. Hard: values read before an `await` and used as keys after it,
user edits in between, failures after the graph was cleared. Correct when an
operation leaves or returns the inferences of its own store, cached or not.

**Search for justifications** (`ts/index.ts` 1153-1803, 2628-2863). State: working set,
chunk, index, the queue of the hitting-set tree, the justifications found.
Every step asks the oracle (sync and consistency) about a subset of the axioms.
Hard: a deadline or a call given up in mid-search. Correct when what is returned
entails, is minimal and comes once.

**Task processor unit** (`src/compat/overrides/CSingleThreadTaskProcessorUnit.cpp`).
State: event queue, plain flags, a semaphore, task queues, active-subtask
counts. Operations: posting, the processing loop, completion, start, stop,
destruction. Hard: a sender and the loop each look at a flag of the other.
Correct when no wake-up is lost and every task is completed once.

**Threads and synchronisation** (`src/compat/overrides/CThread.cpp`,
`src/compat/QtCompat.h`, `src/compat/DetSched.h`). State: the queue and the flags of
an event thread, mutexes, read-write locks, semaphores; in serial builds the baton
of the scheduler, who is blocked on what and until when. Operations: start, post,
`waitSynchronization`, stop, join, deletion; lock, unlock, acquire, release. Hard:
a wake-up that comes before the sleep, a timeout that comes with it, a stop that
overtakes a post. Correct when locks exclude, a barrier is one, and whoever sleeps
has a reason to.

**Stall detection** (`src/compat/KonStall.h`). State: four atomics, updated by
tasks and events, read one after the other by the caller that polls. Correct when
an alarm means silence and every wait ends.

**Realization and reasoner managers, classification managers**
(`src/KoncludeReasoner.cpp` 138-410 and 2050-2230, the manager overrides). State:
two ontologies, a thread per step and the items it keeps to free later, realizers
by the address of their ontology, those stopped. Operations: the load and the run
of a call, the steps, `stopAndClearRealizers`, `reset`, the destructor. Hard:
items are freed lazily by the next event, long after; addresses are used again.
Correct when nobody touches a freed ontology and no work is posted to a stopped
thread.

**Task analyser** (`src/compat/overrides/CSatisfiableTaskClassificationMessageAnalyser.cpp`).
State: the possible subsumers of each concept, the justification cache, the lists
collected for a message. One operation per completed satisfiability test; the
classifier takes its messages later, on a thread of its own. Hard: other tasks prune
the same maps meanwhile; equivalences are ruled out by merging what saturation has left
of other concepts. Correct when no subsumer is pruned, what is reported
as a subsumer is one, and a recorded chain lacks nothing.

**Canonical hierarchy** (`ts/canonicalHierarchy.ts`), **laconic justifications,
explanation codecs** (`ts/laconicJustification.ts`, `ts/explanationSerializer.ts`),
**wire codecs** (`ts/n3Inject.ts`, `ts/intern.ts`): sequential transformations of
data, without state of their own.

Not components of a model: the parsers of the native build, Qt containers,
tracing, the command line and bindings, build scripts and tests, and the
vendored reasoner itself, a git submodule.

`PROJECT.json` lists the components with their state, and the hazards of the
code line by line with the properties that cover each.

## 3. Modules

### KernelState, KernelContent, ReasonerContract

`KernelState` holds the kernel as a record `k`, field by field the members of
`KoncludeReasoner::Impl` and `KoncludeReasoner` that decide what may be read,
and one operator per method from state to state: `Sync` (the digest
difference, `Hide`, `ChangedBack`), `Rebuild` (ensureBuilt), `Verb`,
`Consistency`, `BuildBuffer`, `Reset`. A load is given its outcome (`loads`)
and a pipeline its own (done, stopped short, stalled): these are the vendored
parts. Derived triples are abstracted to *which content and which load variant
they were computed from*.

`KernelContent` makes a state machine of it (`KernelSpec`), with the kernel in the
variable `impl`: any call with any argument at any time. `ReasonerContract` is what the
kernel promises: content and its
generation, the results shown for it, a count of pipeline runs that grows only
when results are not there yet. `KernelContent` implements it under
`content <- impl.digest`, `shown <- ` the results readable.

### OpQueue, WorkerCalls

`WorkerCalls` models the main thread and any number of Workers. An operation
is a record with the promise it waits for, its position in its sequence of
calls (`Calls`) and the id it waits for. Actions of the main thread: `Issue`
(`_enqueue`), `Start`, `Resume` with the branches of `_call` (`CallReturns`,
`Recycle`, `Reload`, `Recover`, `Replay`, `CallThrows`), `Terminate`; event-loop
tasks: `Deliver`, `DeliverInit`, `DeliverCrash`, `Watchdog`; of a Worker:
`WorkerInit`, `HandleMessage` (`Execute`, `Misbehave`, `Refuse`), `Crash`. A task
runs only when no microtask is runnable (`Quiet`). `Executable` says which
message a Worker may handle next: the yield before a blocking call lets others
overtake it.

`OpQueue` is the promise of the layer: operations are served in the order asked
for, each answered with its own result or a failure, and all are, unless
the queue is closed by `terminate()`. `WorkerCalls` implements it
(`ImplementsQueue`, including liveness).

### StoreOps

The operations on stores, over the same `KernelState`. An operation in
progress is a record of what it captured (`gen`, `content`) and where it awaits;
`Begin` is `_syncForOp` up to the first await, followed by `VerbStep`,
`ConsistencyStep`, `ReadStep`, `ListStep`. `WorkerCalls` shows that operations do
not overlap and that a recovery replays the content, so here a call is one step
that succeeds, throws, answers FALSE, or is recovered in a fresh Worker
(`Replayed`, `Dropped`). Users edit stores at any await. What is handed over (`Handed`) leaves
out the graph written and the reserved ones; `whatIf` leaves out only the graph it is given.

### TaskUnit

The processing loop with one action per access to a flag shared with other
threads (`Enter` ... `Drained`), posting threads (`Enqueue`, `Signal`, `Check`,
`Release`: `postEvent` and `signalizeEvent`), start, stop and the destructor. What
processing a task computes is left out: it may be interrupted or finish, and
then its subtasks exist. The order among queued tasks (priorities) is any
order. The event queue is the vendored `CQueuedLinkedEventHandler`: first in,
first out, taken as a whole.

### Justifications

The verdict on the store (`Judge`), edits of the store while it is awaited (`Edit`), the
axioms read after that (`ReadCandidates`) and the test of all of them (`CheckAll`), which
`explainInconsistency` makes only if it was given a filter (`TestsAll`); then the bisection
(`Several`, `CheckFirstHalf`, `CheckSecondHalf`), the deletion pass
(`StartDeleting`, `CheckWithout`), the hitting-set tree (`Pop`, `Expand`,
`AlreadyFound`), deadlines and calls given up. The
oracle is a constant of the search: a family `mus` of minimal sets, a subset
has the consequence when it includes one of them. That is every monotone
oracle. The verdict may also be a wrong one (`Stale`), for the cache may hold that of a failed
run; within the search every answer is that of the oracle or none. Four methods stand for
five: `explainInconsistency` for `explainInconsistencyLaconic`, which goes by its verdict
and searches alike and differs in what it does afterwards.

### LoaderRules, ResultBuilder

`LoaderRules` has one operator per scan of `buildOntology`, from a document (the
sequence of triples in the buffer) to what the scan finds: `TriviallyInconsistent`,
`FpIfpSameAs` with `Skipped`, `DomainRange`, the rules for restrictions, `WalkList`,
`IntersectionTypes`, `SvfIndex`, `MinCardRestrictions`, `OneOf`, `DisjointUnion`. A map
that keeps the last value written is `LastObject`; where the order of a hash
table decides, so does a `\E`.

`ResultBuilder` is the state machine of one load and one reading: `Load`, then
`BuildTBox`, `EmitType`, `EmitAssertions`, `EmitWorkarounds`, `EmitPost` and `Pass` (a round
of the loop over someValuesFrom), or `BuildProperties`. `b` is the buffer with its four
sections, triples, axioms, justifications and the map between them, each the set of its
entries: an index into a section stands for the entry it points to, and a justification
is filed under what its hash depends on (`TagsId`, `XorId`). `Record` is `collectJust`, where
of two justifications with one hash the first is written and both triples share it.
What the kernel found is the record `kernel`.

### KonStall, Pipeline

`KonStall` is `KonStall.h` operator by operator. `Pipeline` is one kernel over many
calls: the caller (`Load`, `Prepare`, `CalledBack`, `TimedOut`, the three looks of
`stallDetected`, `Finish`, the destructor in two steps), the thread of each step
(`GetX` with the look under the read lock and the one under the write lock,
`Begin`, `StartTask`, `TaskEnds`, `End`), a second thread that asks at the same time, and
the clock. An ontology is an address with a number; `dangling` collects those used
after they were freed.

### Threads

Users run programs of operations; the event thread is the service. Sections under
the mutex of a queue or a semaphore are one step. `Serial` scenarios run on
`Block`, `WakeAll`, `WakeFirst` and `Schedule` of `DetSched.h`, where one thread holds the
baton and may lose it at an unlock, a lock, a release or a post; the others run on
pthreads, each at its own pace. What a thread is blocked on is a `Key`, in the code the
address of a lock, a queue or a thread; the sequence numbers of `DetSched::block` are the
relation `before` between those that are blocked, for `wake` only compares them. Programs
are any sequences of operations that unlock only what they have locked (`Disciplined`). On
pthreads `StartThread` may fail to create the thread, which leaves a queue that nobody serves,
and the thread may end by a trap in a handler (`Crash`), which leaves its queue as it is.

### TaskAnalyser

`Start` takes a finished completion graph; `RootConcept` and `RootDone` read the tested
node, `TakeNode`, `NodeConcept` and `NodeDone` the others, concept by concept, and put
a message together on the way, which `Tell` sends; `Receive` is the
classifier, which may take it at any later time. Labels, candidate lists and maps
are sorted by tag in the code and merged; here a merge is a statement about sets.
Chains of dependencies (`Chain`) are walked as in the code, step by step on a stack
(`Walk`) and with its limit. With
`mode.pseudo` a message is followed by the pseudo model of its concept
(`PseudoModels`): for the nodes near the root what their labels and links say without
a choice, and what they might say with one.

Which equivalences stay possible for the concepts of a node is a field of the node,
`mergeable`, that the instance computes with `SaturatedMerging!StaysPossible`: each
disjunct of the negated equivalence is tried, the label, the neighbours and the
successors of its saturated model merged with the node's (`LabelsMerge`,
`NeighboursMerge`, `SuccessorsMerge`), and successors recursively with all they receive
(`Tests`). These are pure operators, recursive as the code is, so only the MC modules
take them in. `MCSaturation` is their ontology: each of its equivalences is entailed by
one concept and would be ruled out by a test that lacks one of its parts.

### Proof and MC modules

`X_proofs` holds the theorems about `X`, and `Kernel_proofs` those about `KernelState`,
`KernelContent` and `StoreOps`, which all rest on what the kernel's methods keep; `MCX` gives constants their values.
Operators whose names end in what they do wrong (`HideKeepsFlags`,
`DrainedOnce`) are variants of the operator they precede, one slip each; no
specification uses them. They serve to show that a property would notice
the slip.

## 4. Runs

All bounds are constants of the MC modules or named in guards.

| run | instance | shows |
|---|---|---|
| kernel_content | two triples; a clash the loader sees, another that only a pipeline finds; 4 generations, 3 pipeline runs, 4 rebuilds | nothing stale is readable, a verb serves its variant, verdicts are those of the content, failures are retried; refinement of ReasonerContract |
| worker_calls | three operations asked for at any time on two stores, one fault, `terminate()` at any time, the first Worker may crash; or two awaited ones, two faults, recycling | no overlap, own results, replay restores the content, refinement of OpQueue with liveness |
| recycle_serialized | three operations, no fault, recycling on | *violation*: operations overlap after a recycling |
| store_ops | two stores, two edits, no fault; or one store, two graphs, both hierarchy options, every fault; three operations | every operation delivers its own inferences and verdict from every cache state; failures leave no old results |
| task_unit | two posted tasks, one with two subtasks, one sent to be scheduled; stop or destruction at any time | no lost wake-up, tasks completed once, in order, and eventually |
| destructor_returns | the same | *violation*: a destructor that comes while a signal is unseen never returns |
| recovered_hit | one store, one graph, calls recovered in a fresh Worker | *violation*: a result cached under a generation of the old Worker answers for other content |
| justifications | four axioms, two of which are one triple in two graphs; all 168 monotone oracles; limits 1, 2, 4; any filter; edits before the search and wrong verdicts; deadline or failing call anywhere | justifications entail (but see section 7), are minimal unless something was given up, differ, a second one is found, the search ends |
| results | 56 documents around the rules of the loader, with and without realization; every preorder of two classes with four contents of the justification cache | the loader's verdict is exact, skipped declarations are made up for, buffer and lookups agree, the loop is the least fixpoint, explanations are those of their triples |
| pipeline | three ontologies at two addresses; a handler or task that never returns, or loads that fail and runs that stop short | no use after free, realizers found are running, an alarm means silence, every call returns |
| threads | ten scenarios: a service started, stopped, restarted or deleted under two users; a mutex, a semaphore, a read-write lock with three; each on pthreads, where the service may fail to start or crash, and serially | barriers, locks, sleepers have a reason, joins come back, and barriers of a thread that serves its queue |
| task_analyser | eight completion graphs, twelve named concepts, eight of them equivalences that merging tests rule out or keep; four settings of the flags, two tasks | no subsumer is pruned, reported subsumers and pseudo models hold, recorded chains are complete |

Why these bounds suffice. *Kernel*: the state compares the current content with the
one built before, so two triples (four contents) give every relation of old, new and
newer content; four generations admit a change, a change back and another change;
three pipeline runs admit a failure, a retry in the other variant and a third. The
proofs remove the bounds for all of its properties. *Worker calls*: overlap needs one
running and one queued operation and a third asked for later; a stall needs the old
Worker, the replacement, and one more for a second fault; the proofs cover any number.
*Store operations*: a cache entry needs an operation that fills it, one that
invalidates and one that hits: three; each of two stores can be edited and edited
back; the proofs cover any number of both. *Task unit*: lost wake-ups need two senders
and a loop about to block; early completion needs a task with two subtasks. The proofs
cover any number. *Justifications*: four axioms let bisection halve twice and give up
to six justifications at once; the proofs cover any finite set. *Results*: each rule
appears with what triggers it, with what nearly does, and with another that competes
for the same triple; a list has two members, or comes round. Bit masks cover three
fillers instead of 16, list walks four nodes instead of 100, both reached. *Pipeline*:
an address is used again when the third ontology is made; the proofs cover any number
of addresses, calls and tasks and any thresholds. *Threads*: two users and a service
give every order of post, stop, sync and restart, three users a waiter that is
overtaken; the proofs cover any users and programs. *Task analyser*: the graphs have
every kind of node, a walk of more than `MaxWalk` visits included; a second task
prunes what the messages of the first still speak of. Pseudo models end at depth 2 and
four nodes instead of 3 and 30, both reached; merging ends at the code's depth of 5,
which equivalence 37 reaches by a concept that asks for itself. 100 tests are not
reached.

`store_ops` gives operations one graph and `includeClassHierarchy` FALSE because
the caches are keyed by neither: see the limits in section 8.

## 5. Fairness

`WorkerCalls!FairSpec`: weak fairness of starting and resuming (promises that
are settled run their continuations), of the watchdog's true alarm on a call
that is not answered, of delivering replies and Worker events, and of a
live Worker that loads or handles a message. Nothing is assumed of a hung or
crashed Worker, and a fault never has to happen. `OpQueue` assumes that an open
queue with work settles it, which is what `WorkerCalls` is shown to do.

`TaskUnit!FairSpec`: weak fairness of the unit's thread, of a post that has begun
and of a destructor that has begun: threads are scheduled. No thread has to
post, stop or destroy.

`Justifications!FairSpec`: weak fairness of `Step`: every oracle call is answered
or given up. That is what `worker_calls` shows of the call layer, and the code
gives each such call a timer of its own.

`Pipeline!Spec`: weak fairness of the caller, of the threads taken together and of
the clock. They are scheduled and time passes; a handler that hangs is excepted by
`hung`. `Threads!Spec`: weak fairness of `Next`: somebody who can run does. Programs are
finite, so nobody can keep another from running for ever. `ResultBuilder` and
`TaskAnalyser` state no fairness: they have safety properties only.

## 6. Proofs

**Kernel_proofs, the kernel.** For every set of triples, every choice of trivial and
inconsistent contents and every bound: every property of `kernel_content`, safety,
action properties and the refinement of ReasonerContract (which states no
fairness). The properties are not inductive. `IInv` adds to `KernelTypeOK` the named
parts of `KernelInv`: `SyncedInv` (the retained buffers hold the synced content),
`BuiltInv` (an ontology that counts as built was loaded completely from the
digest and for the variant on record, and if its generation is the present one
the digest is the present content; the pipeline level says whether it has
results), `ShownInv` (results are shown only for the present generation, never
while hidden; hidden flags describe the loaded ontology), `CleanInv` (before the
first load there is nothing to drop), `VerdictInv` (the memoised verdict is that
of the content built last). Each method preserves each part, which is one lemma a
method, at the beginning of the module, for any kernel whatever drives it: the state
machine of `KernelContent` and the operations of `StoreOps` argue from the same lemmas.
`Sync` needs most of the parts at once when content changes back. `Bookkeeping` is this
invariant as a property. From `IInv` readable results are current (`NeverStale`), and each
step maps to a step of the contract or a stutter. Proved besides, and no longer checked by
a run of their own: the counts a sync reports (`SyncReportsDifferences`), which
`syncBuffers` derives from sizes and which are those of the set differences, no run is
repeated (`Idempotent`), a change back is free (`ChangeBackFree`).

**WorkerCalls_proofs.** For any number of operations, Workers, faults and replies on
their way: types, `Serialized`, `OwnResults`, `ReplayRestores`, and that every step of the
call layer is a step of `OpQueue` or a stutter. The last four suppose `Awaited`: where
Workers are recycled, users await each answer. Without that they are false, which is
disagreement 1. `IInv` has two arguments. `QueueInv`: whoever waits does so for the
operation asked for before it, or all before it have settled; whoever has begun has only
settled ones before it. So one operation is busy, and `CallInv` is about it: the request it
waits for has the newest id (`IdInv`); a Worker serves in order where it matters, so a
request that is not a sync is alone in the inbox and meets the content and the results the
calls before have left (`Prepared`), and its reply finds what it has left itself (`Served`),
with the inbox empty; a recovery begins with an empty Worker and knows the content and the
verb to replay (`MemoryInv`). What a replaced Worker still answers carries an older id and
settles nothing.

**Kernel_proofs, the store operations.** For any stores, triples and graphs, edits at any await and every
failure: types, `FailedLeavesNothing`, `WritesOwnContent`. `SafeInv` adds to the types
`KernelInv` of the kernel and `OpInv`, which says what an operation at each await has
captured, and that the kernel holds its content. For undisturbed instances (no fault, one
graph, one setting of the hierarchy) `Delivers` and `AnswersRight`
follow from `CalmInv`: what is realized was loaded for realization (`RealizedInv`); an
entry of the present generation stands for results that can still be read, and its graph
holds them unless an operation has cleared it on the way (`CacheCalm`); a verdict of
the present generation is that of the present content (`VerdictCalm`); and an operation
past its verb finds the results of its verb (`RunCalm`). The
argument is that generations only grow, so an entry of an older one is never hit again,
and an entry of the present one is about the present content.

**TaskUnit_proofs.** For any finite tree of tasks: types, `NoLostWakeUp`,
`WaitsOnlyWhenIdle`, `CompletedOnce`. For wake-ups `IInv` adds to `TypeOK`:
`SignalSeen` (an event in the queue whose sender has signalized it is still
signalized, or the thread is about to look into the queue, or the unit is
stopped), `WakeUpDue` (while the thread waits or is about to, an event whose
sender is done has left a count on the semaphore), `LocalQueues` (which queues are
empty at which points of the loop). `CompletedOnce` needs an invariant of its own,
`Tree`: the task being completed is not done yet (`Completing`), the active count of
a handled task is the number of its subtasks that are not done (`Counting`), and a
task that waits in a queue has not been handled and waits in one only (`QueuedOnce`). Cardinalities of finite sets carry the
argument from a count of zero to no subtask left.

**Justifications_proofs.** For any finite set of axioms, any limit and any monotone
oracle, with any filter, edits before the search, wrong verdicts, deadlines and aborted calls
anywhere: types, `Sound`, `Minimal`, `Distinct`, `FindsAnother`. `IInv` adds: the working set
has the consequence, and so has what was found, unless the axioms read never had it and
nobody tested them (`Reached`, `SoundIfTested`); without a filter axioms about which the
verdict was right, and still is when they are read, do have it (`Confirmed`); the working set
avoids the triples its node excludes (`Avoiding`); each axiom the
deletion pass has kept was needed (`Tested`), and by monotonicity still is after
later deletions, which makes the last set minimal; the search goes on only below the
limit (`Open`); justifications have axioms (`Filled`); nothing of the tree exists before
the first justification (`Untouched`); and, as long as there is one, its axioms are
excluded in turn, those tried being in every justification (`Root`). When all
have been tried none does without any of them, which is `FindsAnother`.

**Pipeline_proofs.** For any number of addresses, calls and tasks and any two
thresholds: types, `RealizerRuns`, `FreedInTime`, `AlarmMeansQuiet`, and that no step gets
a second thread (`OneThreadPerStep`). `IInv` adds to `TypeOK`: `HeapInv` (the ontology and
the one before it live at two addresses), `JobInv` (there is a run only while the caller is
in one, and it is over when the caller has been called back), `RealizerInv` (every address
leads to the realizer of this run or to none, and no other runs), `KeptInv` (what a thread
keeps is of the present ontology, or of the one before if the thread has still to see
the present one in this run) and `ClockInv` (the clock is never ahead of the silence; the
short threshold was chosen because a task had started). `KeptInv` is the argument of
the comment at `KoncludeReasoner.cpp` 2134: at the end of a run no step is pending, so
nobody keeps anything of the ontology that goes. It needs that every load completes
and every run visits every step, which is the hypothesis of `FreedInTime`.

**Threads_proofs.** For any users, any disciplined programs, on pthreads and serially:
types, `SyncIsBarrier`, `LocksExclude`, `SleepsForAReason`. `SafeInv` adds to the types
`BarrierInv`, `MutexInv` and `RwInv`. The first: the event of a barrier is the last of its
user in the queue, its user waits and its semaphore is empty, and the semaphore is full
only when the thread has nothing left of its user (`UserInv`, `QueuedInv`, `HandledInv`);
posts go to the end of the queue and the thread takes from its head. The second: the
owner holds the mutex as often as it has locked more than unlocked, and all others have
locked as often as unlocked. The third counts readers: `Holders` is the set of all reads
in progress, and `rw.readers` is its cardinality. `ThreadsInv` adds the scheduler
(`SchedInv`): whoever is blocked lives and is blocked on the key of the operation it is at
(`BlockedInv`), and among any threads that are blocked one was the first (`OrderInv`), so
that `WakeFirst` wakes somebody if anybody waits. Waking and passing the baton only let
threads go (`Loosened`), so a step takes away the reason of a sleeper only where it
changes what the sleeper waits for, and there the operation wakes its key. An unlock wakes one
waiter only; that one is about to lock, which is the reason of the others.

**ResultBuilder_proofs.** For any document, any taxonomy of classes and of properties,
any types and any cache of dependency chains: the five properties of `results`. The scans
and walks of `LoaderRules` are recursive functions over the buffer; that such a
function has the value of its defining equation is shown once (`Recursion`, a value for
each number from the one before, with `SetInduction` in place of the induction theorem of
the library, which takes an operator). `IInv` has the input (`Input`) and, for each phase,
what the buffer holds so far. For `VerdictExact` the scan is the argument alone: after any
number of triples it has collected what these say (`RoundsStep`), and a contradiction is
noticed at the later of the two triples that make it, whichever that is.
`SkipsAreReplaced` needs `SameKept` (what the rule for functional properties found is in
the buffer when the individuals are done). `BufferMatchesLookups` needs `EmptyBefore` (the
hierarchy is written into an empty buffer and once), `HierarchyKept` (the subclass and
equivalence triples of the buffer are the reduced hierarchy, which no later rule adds to)
and `TypesKept` (of the types of the kernel those not emitted are still to be); the rest is
about the taxonomy: a path of edges between representatives exists exactly where the nodes
are reachable from each other, and so does the closure of what is written. `FixpointExact`
needs `TypesAreGiven` and `LoopExact`: the types collected are those of the document and of
the buffer, and are included in every set with the given ones that is closed under the rule.
`ExplainedByTags` needs `ExplanationsRight`: what the map of the buffer says of an entry is
right for its hash, which is the state two triples of one hash must find.

**TaskAnalyser_proofs.** For any named concepts, any completion graphs that are models of
the ontology, any settings of the flags, and messages taken whenever the classifier comes
to it: the three properties of `task_analyser`. `IInv` adds to the types `PlaceInv` (where
the analysis is in the graph, and that it reads labels of nodes that are not blocked) and:

- `KeptInv`, for `SubsumersStayPossible`: a list that has been made or announced in a message
  (`ListInv`), a message (`OutInv`), a batch on its way (`InboxInv`) and the map (`MapInv`)
  lack no primitive subsumer, no equivalence that is not a candidate concept, and of the
  others not the candidate. A list may be pruned after its message was put together and
  before that is sent, and the map while a batch about it waits; each of these takes away
  only what a label without the concept's subsumers would. The theorem supposes
  `MergingKeepsSubsumers`: the merging test rules out no equivalence that follows from a
  concept the node holds. Whether it does is computed by the recursive operators of
  `SaturatedMerging`, so it is beyond the prover; the graphs of the run satisfy it, and the
  mutant of `LabelsMerge` breaks it and with it the property.
- `SubsInv` and `ReportInv`, for `ReportedSubsumersHold`: what is collected in the tested
  node is a subsumer of the tested concept, and what is collected later is for a concept
  that has been done and is never reported again, so a list that a branching error left
  over can only be sent under another name. A pseudo model is sent as it was made of the
  graph, and `BuildInv` holds while it is made: every number below the next one was given
  once, to a model or to an item that is still to be taken (`IdsInv`); a model with roles has
  valid concepts, its bounds are in order and no other model names the items it names
  (`EntryInv`, `OwnerInv`); the base says what the tested node holds (`BaseInv`); and an item
  gives out numbers only while there is room (`CountInv`), so after `PseudoItems` steps there
  are no more models to make than were made and the stack is empty. `PseudoRoleFacts` is
  about the bounds of one role over the nodes of an item.
- `ChainInv`, for `ChainsComplete`: a chain recorded is that of an entry of the tested node.
  The rest is about the walk (`ChainRests`): what it has met and what the dependencies on
  its stack rest on are, at every step, all that the first one rests on; and the steps made
  and the visits that are left are its visits in all (`Walked`). So the stack is empty at
  the end unless there are more visits than `MaxWalk`. Dependencies are numbered in the
  order they were made in, on which the recursions are founded (`Numbered`).

Assumptions are the ASSUMEs of the modules: constants have their types, sets of
model values are finite where they are counted, a task is not its own parent, a
bound is a natural number, and programs of `Threads` unlock only what they have locked,
which is what the Qt classes that the code replaces ask of their users. Of the vendored
reasoner: a taxonomy is a partition of its names with a reachability that is a
preorder (`CasesAssumption`), the order of names is given by numbers (`RankAssumption`), and
completion graphs are models whose labels hold what follows, whose links satisfy the number
restrictions of expanded nodes and whose dependencies are right (`GraphsAssumption`). TLC
evaluates all of them.

## 7. Only model-checked, and not modelled

TLC alone checks: liveness (`EveryTaskCompleted`, `QuietDestructorReturns`,
`Terminates`, `CallReturns`, `StopReturns`, `SyncReturns`, the liveness of
`ImplementsQueue`), which with fairness and ENABLED is out of the prover's reach; that the
loop over someValuesFrom ends; and what the merging test computes
(`SaturatedMerging`, which is recursive as the code is), where induction over data would be
needed. All other properties of the passing runs are proved.

Abstractions with a consequence:

- The vendored reasoner: a pipeline ends in one of three ways and its results are
  those of the content loaded. Likewise parsing: a triple is a value.
- Plain `bool` fields of the task unit are read and written in program order; a weak
  memory is not modelled.
- A unit is not destroyed while another thread is inside one of its methods, and
  not started twice before its thread runs. `mLastProcessingStartedTag` is never
  incremented, so the reset of a stopped unit (297-324) is dead code and is left out.
- `explain` asks an oracle that reads the reduced hierarchy; an entailment found
  there by a direct edge only is not monotone, which the search does not notice. The model
  and the proofs assume monotone oracles.
- `Sound` excepts one case. Without a filter `explainInconsistency` (and Laconic) does not test
  the axioms it searches (`Untested`), but goes by the verdict, which may be about a store that
  was edited at an `await` since (`ts/index.ts` 1663, 1683; Laconic 1841, 1856), or a wrong one
  of the cache (1660). If they do not clash and no right verdict was given about them
  (`confirmed`), no half clashes and no axiom can be dropped, and all of them are returned as
  the inconsistent set. With a filter, in the other operations, and after a right verdict
  and no edit the theorem holds whatever else happens; in the excepted case too if the
  axioms clash. Answers of the reasoner within the search are taken to be right.
- A consequence of the empty set gets a justification of one unrelated axiom, except in
  `explainEntailment`; `Minimal` excludes it (`Proper`).
- The hitting-set tree does not expand a node whose justification is known, so some
  justifications are never found; `FindsAnother` states what remains true.
- The explanations option, deltas, batches of axioms and native explanations of the
  operations are not modelled, nor is the weak identity of stores collected meanwhile.
- Loader and builder: terms are abstract, so text that is parsed back loses its literals
  (`Parsed`) and nothing else. Hash tables are walked in any order only where the code
  stops at the first hit. The byte layout is not modelled, nor are `has*Justification`
  lookups, which answer TRUE for an empty chain.
- `Pipeline`: a step keeps its item when it is done, so keys of address and call generation
  never collide and items are named by their ontology. Nothing is claimed of an
  ontology freed after a load that failed twice or a run that stopped short: a
  classifier may then still keep its item. The callback data of the reasoner manager
  is not modelled.
- `Threads`: `QWaitCondition` is not modelled (in serial mode it unlocks, which may hand the
  baton on, before it blocks), nor are the timers, which never fire. The native
  `waitSynchronization` aborts the process after `Tries` slices; the scenarios have it.
  `SyncReturns` excepts a thread that has ended or does not run. If `pthread_create` failed
  (`CThread.cpp` 291-305), a handler trapped, or a stop dropped the event, then a
  `waitSynchronization` on pthreads never returns: nothing in the code prevents that, and
  `stopAndClearRealizers` does without it for this reason (`KoncludeReasoner.cpp` 159-165). A
  failed creation under the serial scheduler, which would leave it a thread that never runs,
  is not modelled, nor is a trap there, which ends the process.
- `TaskAnalyser`: what is remembered of earlier merging tests at a node is left out, it
  repeats their answers; `verifySubsumptionPossibleWithModel` (1362-1533) is called by
  nobody. That an entry without a branch follows from
  the ontology is an assumption on the graphs (`RootDependencies`), and so is that an expanded
  node has the links its number restrictions ask for (`RestrictionsHold`). After a branching
  error the list of subsumers is not cleared, so what was collected for one concept is
  sent for the next; `ReportedSubsumersHold` speaks of a message's own entries.

Not modelled at all: the canonical hierarchy and the codecs of explanations, pure
functions compared with references by the unit tests; the laconic splitting of
axioms, a text transformation; the file parsers of the native build; Qt containers;
`JustificationCache::lookup`, which returns a pointer after releasing its lock
(a reader that keeps it over a `clear` reads freed memory; the code clears only
between runs); closing memory pools and the status updates of the task unit; tracing;
the command line; the vendored reasoner.

## 8. Disagreements found

Three runs are expected to find a violation; `PROJECT.json` quotes the line each
contradicts.

1. `recycle_serialized`: recycling resets the operation queue (`ts/index.ts` 333).
2. `destructor_returns`: a stopped unit never clears its signal, and the loop that waits for
   that is joined (`CSingleThreadTaskProcessorUnit.cpp` 421, 455, 593).
3. `recovered_hit`: a result computed in a replacement Worker is cached under the generation
   of the old one, a number that other content gets later (`ts/index.ts` 481, 517).

Known limits met while modelling, kept out of the instances of the passing runs:

- A cache hit compares generation and store, not the graph asked for, nor
  `includeClassHierarchy` (`ts/index.ts` 483, 624).
- A verb that answers FALSE leaves an entry for an empty result (496), and an operation whose
  sync fails clears its graph but keeps the entry, so the next call finds nothing to do
  (439, 483). For both and for 3 above `store_ops` checks what disturbed operations leave,
  not what later hits find.
- `explainInconsistency` reads the store again after the verdict (1683, 1704; Laconic 1856,
  1874): see `Sound` in section 7.
- Who has enough fillers is put into a class that is only contained in a minCardinality
  restriction (`KoncludeReasoner.cpp` 1932, 3310). `ResultBuilder` emits the same triples
  (`MinCardTypes`); its properties do not say that they follow.
- A replacement Worker has no error listener, so its crash is noticed only by the
  watchdog of a call, and outside one not at all (283). In `worker_calls` the first Worker
  crashes only.
- A failed load or run can be taken for an inconsistency and cached as a
  verdict (561): `AnswersRight` speaks of operations that were not disturbed.
- The explanation of a type falls back on a subclass the individual need not be in
  (`KoncludeReasoner.cpp` 2976-2995), and the hash of explanations given as text is an
  exclusive or, in which a term that comes twice cancels out (2908-2912): `ExplainedByTags`
  speaks of hierarchies only.
- The rule for someValuesFrom puts fillers into the class (3429-3450), which is what allValuesFrom
  would imply; `FixpointExact` states what the loop computes, not that it should.
- Equivalent properties are reported for one name of each node; declarations of functional
  properties are skipped for realization only.
- A caller that looks at the count of running tasks before one starts and at the count of
  started ones after takes the short threshold with a task in progress (`KonStall.h` 48-54).
  `AlarmMeansQuiet` holds all the same: nothing has ended for that long.
- A task that never ends is never declared stalled: `CallReturns` excepts it.
- Merging a saturated model with a node (`CSatisfiableTaskClassificationMessageAnalyser.cpp`),
  in each case a clash is overlooked and a subsumption may be ruled out. A neighbour is
  searched for the operands of a universal without negation, for `negation` and
  `isNegated()` cancel out (269). A concept without a saturated node that is given for a
  super role is looked up under that role and dropped because it is not the role itself
  (877-879). The model does the same, and `SubsumersStayPossible` fails when the ontology
  has such concepts; `MCSaturation` has none.
- There too an operand without a saturated node gets a null pointer on the list of
  successors (936), and a successor that saturation has not made is followed; `NoNulls`
  excludes both.
- A negated, qualified at-least restriction bounds the number of neighbours in a pseudo model
  as if it were not qualified (2094-2143); `PseudoModelHolds` excepts it.
- `terminate()` while a replacement Worker loads hangs the queued operations, and an
  operation queued at `terminate()` that finds its Worker dead starts a new one (2927, 366).
  `OpQueue` closes at `terminate()` for this reason.
- After a deadline the justification search returns the working set as it is, not
  minimal, where `ts/types.ts` 26 speaks of justifications found so far.

## 9. Plan

Done: all modules above. What is left, in this order:

1. The merging test as recursive functions on the depth, so that `MergingKeepsSubsumers` can
   be proved from what saturation guarantees of a node.
2. `QWaitCondition` in both modes, and the events of the task unit that carry memory pools.
3. The canonical hierarchy against a reference definition (the reduction keeps the closure).
4. The operations around the search: probes of `explainEntailment`, `validate`, and what a
   `whatIf` leaves behind.

## 10. Running

    tlc -workers 2 -config KernelContent.cfg MCKernelContent
    tlapm Kernel_proofs.tla

`PROJECT.json` names the module and configuration of every run. The longest
passing run takes about two minutes with two workers, the longest proof about six.
