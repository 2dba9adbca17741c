----------------------------- MODULE WorkerCalls -----------------------------
(***************************************************************************)
(* How RdfReasoner (ts/index.ts) drives its Worker: the operation queue,   *)
(* the map of pending calls, the stall watchdog, the one recovery attempt  *)
(* that replays the state into a fresh Worker, the recycling of a Worker   *)
(* whose heap has grown, crashes of a Worker, and terminate().             *)
(*                                                                         *)
(* The main thread is one JavaScript event loop: a reply, a timer or a     *)
(* Worker event is a task that settles a promise; the code after an await  *)
(* runs as a microtask, before the next task.  Workers run beside it.      *)
(* A Worker's kernel is what ReasonerContract promises: one content and    *)
(* the results shown for it.                                               *)
(***************************************************************************)
EXTENDS Integers, Sequences, FiniteSets

CONSTANTS
  Op,          \* the operations users ask for, each at most once
  Kind,        \* Kind[o]: the method of RdfReasoner that o is a call of
  Store,       \* Store[o]: the content of the store handed to o
  NoOp,        \* no operation: the settled promise the queue starts with
  NoContent,   \* a kernel that holds nothing yet, a load that does not exist
  MaxWorkers,  \* the most Workers any scenario has
  Scenarios    \* what users and Workers may do

ASSUME RolesAssumption ==
  /\ IsFiniteSet(Op) /\ NoOp \notin Op
  /\ Kind \in [Op -> {"classify", "materialize", "checkConsistency"}]
  /\ \A o \in Op : Store[o] # NoContent
  /\ MaxWorkers \in Nat
  /\ \A x \in Scenarios :
       /\ x.ops \subseteq Op               \* what they ask for
       /\ x.workers \in 1..MaxWorkers      \* bound on the Workers created
       /\ x.crashable \subseteq 1..MaxWorkers
       /\ x.maxFaults \in Nat              \* bound on stalls, slow or failing calls, crashes
       /\ x.recycling \in BOOLEAN          \* recycleHeapBytes > 0
       /\ x.patient \in BOOLEAN            \* they await each answer before they ask again
       /\ x.terminable \in BOOLEAN         \* they may call terminate()

Workers == 1..MaxWorkers

VARIABLES
  op,         \* where each operation stands
  tail,       \* _queue: the operation whose settling the next one waits for
  issued,     \* the operations in the order users asked for them
  nextId, cur,            \* the next request id; this.worker
  lastLoad, stateCalls,   \* what a recovery replays
  heapBig,    \* _lastHeapBytes > _recycleHeapBytes
  worker,     \* the Workers
  faults,     \* faults so far
  terminated, \* terminate() was called
  scenario    \* which scenario this is

main == <<tail, issued, nextId, cur, lastLoad, stateCalls, heapBig>>
vars == <<op, main, worker, faults, terminated, scenario>>

\* The calls an operation makes when it misses its cache.
Calls == [classify         |-> <<"sync", "classification", "get">>,
          materialize      |-> <<"sync", "realization", "get">>,
          checkConsistency |-> <<"sync", "classification", "consistency">>]

Blocking == {"sync", "classification", "realization", "consistency"}
IsLoad(m) == m = "sync"
Methods == Blocking \cup {"get"}

Content == {Store[o] : o \in Op} \cup {NoContent}
Result  == [content : Content, of : {"none", "class", "real", "verdict"}]
NoResult == [content |-> NoContent, of |-> "none"]

\* What o resolves with when all goes well.
Own(o) ==
  [content |-> Store[o],
   of |-> CASE Kind[o] = "classify"         -> "class"
            [] Kind[o] = "materialize"      -> "real"
            [] Kind[o] = "checkConsistency" -> "verdict"]

Outcome == {"ok", "stalled", "error"}
Request == [id : Nat, method : Methods, load : Content]
Reply   == [id : Nat, out : Outcome, changed : BOOLEAN,
            heap : {"unsaid", "small", "big"}, result : Result]

\* idle, queued behind `prev', awaiting a call (id) or the ready message of
\* Worker `on', resumed with the outcome of that await, or settled.
OpState == [
  st    : {"idle", "queued", "awaitCall", "awaitReady", "resumed", "done", "failed"},
  prev  : Op \cup {NoOp},
  pc    : 0..3,                 \* which of its calls
  phase : {"call", "recycle", "recycled", "recover", "replaySync", "replay", "retry"},
  saved : Content,              \* the load copied before recycling
  todo  : Seq(Blocking),        \* the state calls still to be replayed
  id    : Nat, watched : BOOLEAN, on : Workers,
  out   : Outcome, changed : BOOLEAN, result : Result ]

WorkerState == [
  phase  : {"none", "init", "ready", "broken", "hung", "crashed", "terminated"},
  inbox  : Seq(Request), outbox : Seq(Reply),
  told   : {"", "ready", "error"},  \* the init message on its way to the page
  died   : BOOLEAN,                  \* its error event is on the way to the page
  content : Content, shown : {"none", "class", "real"},
  stalled : BOOLEAN,                 \* the kernel gave up once: it says so for good
  big : BOOLEAN ]                    \* the heap has outgrown the limit

TypeOK ==
  /\ op \in [Op -> OpState] /\ worker \in [Workers -> WorkerState]
  /\ tail \in Op \cup {NoOp} /\ issued \in Seq(Op)
  /\ nextId \in Nat /\ cur \in Workers
  /\ lastLoad \in Content /\ stateCalls \in Seq(Blocking)
  /\ heapBig \in BOOLEAN /\ faults \in 0..scenario.maxFaults /\ terminated \in BOOLEAN
  /\ scenario \in Scenarios

Absent == [phase |-> "none", inbox |-> <<>>, outbox |-> <<>>, told |-> "", died |-> FALSE,
           content |-> NoContent, shown |-> "none", stalled |-> FALSE, big |-> FALSE]
Fresh  == [Absent EXCEPT !.phase = "init"]

Init ==
  /\ op = [o \in Op |->
       [st |-> "idle", prev |-> NoOp, pc |-> 0, phase |-> "call",
        saved |-> NoContent, todo |-> <<>>, id |-> 0,
        watched |-> FALSE, on |-> 1, out |-> "ok", changed |-> FALSE, result |-> NoResult]]
  /\ tail = NoOp /\ issued = <<>> /\ nextId = 1 /\ cur = 1
  /\ lastLoad = NoContent /\ stateCalls = <<>> /\ heapBig = FALSE
  /\ worker = [w \in Workers |-> IF w = 1 THEN Fresh ELSE Absent]
  /\ faults = 0 /\ terminated = FALSE /\ scenario \in Scenarios

Settled(o) == op[o].st \in {"done", "failed"}
Busy(o)    == op[o].st \in {"awaitCall", "awaitReady", "resumed"}
MethodOf(o) == Calls[Kind[o]][op[o].pc]

\* Variants with one plausible slip, named for it, precede what they vary: each slip
\* breaks one of the properties.
FreeToStartAtOnce(o) == op[o].prev \in Op \cup {NoOp}

\* What o was chained onto has settled.
FreeToStart(o) == op[o].prev \in {NoOp} \cup {p \in Op : Settled(p)}

\* Code that is scheduled to run before the next task of the event loop.
Runnable(o) == op[o].st = "resumed" \/ (op[o].st = "queued" /\ FreeToStart(o))
Quiet == \A o \in Op : ~Runnable(o)

Live(w) == worker[w].phase \in {"init", "ready", "broken", "hung"}

Fault == faults < scenario.maxFaults /\ faults' = faults + 1

-----------------------------------------------------------------------------
(* Posting calls, settling operations *)

\* _callOnce: register the call and post it; a dead Worker never reads it.
Post(o, was, m, load, phase) ==
  /\ op' = [op EXCEPT ![o] = [was EXCEPT !.st = "awaitCall", !.phase = phase,
                                         !.id = nextId, !.watched = m \in Blocking]]
  /\ nextId' = nextId + 1
  /\ worker' = [worker EXCEPT ![cur].inbox =
                  IF Live(cur) THEN Append(@, [id |-> nextId, method |-> m, load |-> load])
                               ELSE @]

BeginCallKeepsLoad(o, was, pc) ==
  LET m == Calls[Kind[o]][pc]
  IN /\ Post(o, [was EXCEPT !.pc = pc], m, IF IsLoad(m) THEN Store[o] ELSE NoContent, "call")
     /\ UNCHANGED lastLoad
     /\ IF IsLoad(m) THEN stateCalls' = <<>> ELSE UNCHANGED stateCalls

\* _call, up to its first await.
BeginCall(o, was, pc) ==
  LET m == Calls[Kind[o]][pc]
  IN /\ Post(o, [was EXCEPT !.pc = pc], m, IF IsLoad(m) THEN Store[o] ELSE NoContent, "call")
     /\ IF IsLoad(m) THEN lastLoad' = Store[o] /\ stateCalls' = <<>>
                     ELSE UNCHANGED <<lastLoad, stateCalls>>

\* The state calls a recovery replays once a call of method m has returned.
Remembered(m) ==
  IF m \in Blocking /\ ~IsLoad(m) /\ m \notin {stateCalls[i] : i \in DOMAIN stateCalls}
  THEN Append(stateCalls, m) ELSE stateCalls

\* A call returned to the operation: it makes its next call or resolves.
Return(o) ==
  /\ stateCalls' = Remembered(MethodOf(o))
  /\ UNCHANGED lastLoad
  /\ IF op[o].pc = Len(Calls[Kind[o]])
     THEN op' = [op EXCEPT ![o].st = "done"] /\ UNCHANGED <<nextId, worker>>
     ELSE Post(o, [op[o] EXCEPT !.pc = @ + 1], Calls[Kind[o]][op[o].pc + 1], NoContent, "call")

Stopped(w) == IF Live(w) THEN "terminated" ELSE worker[w].phase

RejectedNever(o) == op[o]
Rejected(o) ==
  IF op[o].st = "awaitCall" THEN [op[o] EXCEPT !.st = "resumed", !.out = "error"] ELSE op[o]

\* _reinitForBisection, up to its await: every pending call is rejected, the
\* Worker terminated and replaced.
Reinit(o, was, phase) ==
  LET new == cur + 1
  IN /\ new <= scenario.workers
     /\ op' = [p \in Op |->
          IF p = o THEN [was EXCEPT !.st = "awaitReady", !.phase = phase, !.on = new]
                   ELSE Rejected(p)]
     /\ cur' = new
     /\ worker' = [worker EXCEPT ![cur].phase = Stopped(cur),
                                 ![new] = Fresh]

-----------------------------------------------------------------------------
(* The main thread: user code and microtasks *)

\* An operation is asked for: it queues behind the one asked for before it.
Issue(o) ==
  /\ o \in scenario.ops /\ op[o].st = "idle" /\ ~terminated
  /\ scenario.patient => \A p \in Op : op[p].st = "idle" \/ Settled(p)
  /\ op' = [op EXCEPT ![o].st = "queued", ![o].prev = tail]
  /\ tail' = o /\ issued' = Append(issued, o)
  /\ UNCHANGED <<nextId, cur, lastLoad, stateCalls, heapBig, worker, faults, terminated, scenario>>

Start(o) ==
  /\ op[o].st = "queued" /\ FreeToStart(o)
  /\ BeginCall(o, op[o], 1)
  /\ UNCHANGED <<tail, issued, cur, heapBig, faults, terminated, scenario>>

\* The try block of _call: a reply to the call, or to the sync after recycling.
MustRecycle(o) ==
  /\ scenario.recycling /\ heapBig
  /\ op[o].phase = "call" /\ IsLoad(MethodOf(o)) /\ op[o].changed

CallReturns(o) ==
  /\ op[o].st = "resumed" /\ op[o].out = "ok"
  /\ op[o].phase \in {"call", "recycled", "retry"} /\ ~MustRecycle(o)
  /\ Return(o)
  /\ UNCHANGED <<tail, issued, cur, heapBig, faults, terminated, scenario>>

Recycle(o) ==
  /\ op[o].st = "resumed" /\ op[o].out = "ok" /\ MustRecycle(o)
  /\ Reinit(o, [op[o] EXCEPT !.saved = lastLoad], "recycle")
  /\ UNCHANGED <<tail, issued, nextId, lastLoad, stateCalls, heapBig, faults, terminated, scenario>>

\* The fresh Worker is ready: _reinitForBisection clears its state, the queue
\* with it, and _call loads the content again.
Reload(o) ==
  /\ op[o].st = "resumed" /\ op[o].out = "ok" /\ op[o].phase = "recycle"
  /\ tail' = NoOp /\ heapBig' = FALSE
  /\ lastLoad' = op[o].saved /\ stateCalls' = <<>>
  /\ Post(o, op[o], "sync", op[o].saved, "recycled")
  /\ UNCHANGED <<issued, cur, faults, terminated, scenario>>

\* The catch block of _call: a stalled call is tried once more in a fresh Worker.
Recover(o) ==
  /\ op[o].st = "resumed" /\ op[o].out = "stalled"
  /\ op[o].phase \in {"call", "recycled"}
  /\ Reinit(o, op[o], "recover")
  /\ UNCHANGED <<tail, issued, nextId, lastLoad, stateCalls, heapBig, faults, terminated, scenario>>

\* What follows a step of the recovery: the content, the state calls, the call.
Replay(o) ==
  LET m    == MethodOf(o)
      todo == IF op[o].phase = "replaySync" THEN stateCalls ELSE op[o].todo
  IN /\ op[o].st = "resumed" /\ op[o].out = "ok"
     /\ op[o].phase \in {"recover", "replaySync", "replay"}
     /\ \/ /\ op[o].phase = "recover" /\ ~IsLoad(m)
           /\ Post(o, op[o], "sync", lastLoad, "replaySync")
        \/ /\ op[o].phase # "recover" /\ todo # <<>>
           /\ Post(o, [op[o] EXCEPT !.todo = Tail(todo)], Head(todo), NoContent, "replay")
        \/ /\ IF op[o].phase = "recover" THEN IsLoad(m) ELSE todo = <<>>
           /\ Post(o, op[o], m, IF IsLoad(m) THEN lastLoad ELSE NoContent, "retry")
     /\ UNCHANGED <<tail, issued, cur, lastLoad, stateCalls, heapBig, faults, terminated, scenario>>

\* Any other rejection leaves the operation.
CallThrows(o) ==
  /\ op[o].st = "resumed"
  /\ \/ op[o].out = "error"
     \/ op[o].out = "stalled" /\ op[o].phase \notin {"call", "recycled"}
  /\ op' = [op EXCEPT ![o].st = "failed"]
  /\ UNCHANGED <<main, worker, faults, terminated, scenario>>

Resume(o) == CallReturns(o) \/ Recycle(o) \/ Reload(o) \/ Recover(o) \/ Replay(o) \/ CallThrows(o)

Terminate ==
  /\ Quiet /\ scenario.terminable /\ ~terminated /\ terminated' = TRUE
  /\ worker' = [worker EXCEPT ![cur].phase = Stopped(cur)]
  /\ op' = [o \in Op |-> Rejected(o)]
  /\ UNCHANGED <<main, faults, scenario>>

-----------------------------------------------------------------------------
(* The main thread: tasks *)

AnswersAnyone(r, o) == op[o].st = "awaitCall"

\* Reply r settles the pending call with its id; nobody waits for a late one.
Answers(r, o) == op[o].st = "awaitCall" /\ op[o].id = r.id

Deliver(w) ==
  /\ Quiet /\ worker[w].told = "" /\ worker[w].outbox # <<>>
  /\ LET r == Head(worker[w].outbox)
     IN /\ heapBig' = IF r.heap = "unsaid" THEN heapBig ELSE r.heap = "big"
        /\ op' = [o \in Op |->
             IF Answers(r, o)
             THEN [op[o] EXCEPT !.st = "resumed", !.out = r.out,
                                !.changed = r.changed, !.result = r.result]
             ELSE op[o]]
  /\ worker' = [worker EXCEPT ![w].outbox = Tail(@)]
  /\ UNCHANGED <<tail, issued, nextId, cur, lastLoad, stateCalls, faults, terminated, scenario>>

\* The init message of a replacement ends the wait of _reinitForBisection.
DeliverInit(w) ==
  /\ Quiet /\ worker[w].told # ""
  /\ op' = [o \in Op |->
       IF op[o].st = "awaitReady" /\ op[o].on = w
       THEN [op[o] EXCEPT !.st = "resumed", !.out = IF worker[w].told = "ready" THEN "ok" ELSE "error"]
       ELSE op[o]]
  /\ worker' = [worker EXCEPT ![w].told = ""]
  /\ UNCHANGED <<main, faults, terminated, scenario>>

\* Only the constructor listens for a Worker's error event.
DeliverCrash(w) ==
  /\ Quiet /\ worker[w].died
  /\ op' = IF w = 1 THEN [o \in Op |-> Rejected(o)] ELSE op
  /\ worker' = [worker EXCEPT ![w].died = FALSE]
  /\ UNCHANGED <<main, faults, terminated, scenario>>

\* No sign of life for stallTimeoutMs.  Certain for a Worker that hangs or is
\* gone, possible (a fault) for one that is merely slow.
Watchdog(o) ==
  /\ Quiet /\ op[o].st = "awaitCall" /\ op[o].watched
  /\ IF worker[cur].phase \in {"init", "ready", "broken"} THEN Fault ELSE UNCHANGED faults
  /\ op' = [op EXCEPT ![o].st = "resumed", ![o].out = "stalled"]
  /\ UNCHANGED <<main, worker, terminated, scenario>>

-----------------------------------------------------------------------------
(* A Worker *)

WorkerInit(w) ==
  /\ worker[w].phase = "init"
  /\ \/ worker' = [worker EXCEPT ![w].phase = "ready", ![w].told = "ready"] /\ UNCHANGED faults
     \/ worker' = [worker EXCEPT ![w].phase = "broken", ![w].told = "error"] /\ Fault
  /\ UNCHANGED <<op, main, terminated, scenario>>

\* handleMessage is asynchronous: a blocking call first yields to the event loop,
\* so a call that does not block overtakes the blocking ones before it.
Executable(w, i) ==
  i = 1 \/ /\ worker[w].inbox[i].method \notin Blocking
           /\ \A j \in 1..(i - 1) : worker[w].inbox[j].method \in Blocking

Without(q, i) == SubSeq(q, 1, i - 1) \o SubSeq(q, i + 1, Len(q))

Answer(r, out, changed, heap, result) ==
  [id |-> r.id, out |-> out, changed |-> changed, heap |-> heap, result |-> result]
Done(r)     == Answer(r, "ok", FALSE, "unsaid", NoResult)
Error(r)    == Answer(r, "error", FALSE, "unsaid", NoResult)
Stalled(r)  == Answer(r, "stalled", FALSE, "unsaid", NoResult)
Read(r, c, of) == Answer(r, "ok", FALSE, "unsaid", [content |-> c, of |-> of])

\* Worker w leaves request i answered, its kernel being k now.
Answered(w, i, k, reply) ==
  worker' = [worker EXCEPT ![w] = [k EXCEPT !.inbox = Without(@, i), !.outbox = Append(@, reply)]]

Verbs == {"classification", "realization"}

\* The kernel serves a request as ReasonerContract says.
Execute(w, i) ==
  LET k == worker[w]
      r == k.inbox[i]
      changed == r.load # k.content
  IN /\ k.phase = "ready" /\ UNCHANGED faults
     /\ \/ /\ r.method = "sync"
           /\ Answered(w, i, IF changed THEN [k EXCEPT !.content = r.load, !.shown = "none"] ELSE k,
                       [Done(r) EXCEPT !.changed = changed])
        \/ /\ r.method \in Verbs
           /\ \E big \in IF scenario.recycling THEN {k.big, TRUE} ELSE {FALSE} :
                Answered(w, i,
                  [k EXCEPT !.shown = IF r.method = "realization" THEN "real" ELSE "class",
                            !.big = big],
                  IF k.stalled THEN Stalled(r)
                  ELSE [Done(r) EXCEPT !.heap = IF big THEN "big" ELSE "small"])
        \/ /\ r.method = "consistency"
           /\ Answered(w, i, [k EXCEPT !.shown = "class"], Read(r, k.content, "verdict"))
        \/ /\ r.method = "get"
           /\ Answered(w, i, k, Read(r, k.content, k.shown))

\* The call throws; the scheduler gives up; the Worker's thread blocks for good.
Misbehave(w, i) ==
  LET k == worker[w]
      r == k.inbox[i]
      lost == [k EXCEPT !.shown = IF r.method \in Verbs THEN "none" ELSE @]
  IN /\ k.phase = "ready" /\ Fault
     /\ \/ Answered(w, i, lost, Error(r))
        \/ r.method \in Verbs /\ Answered(w, i, [lost EXCEPT !.stalled = TRUE], Stalled(r))
        \/ r.method \in Blocking /\ worker' = [worker EXCEPT ![w].phase = "hung"]

\* The module failed to load: every call is answered with that error.
Refuse(w, i) ==
  LET k == worker[w]
  IN k.phase = "broken" /\ UNCHANGED faults /\ Answered(w, i, k, Error(k.inbox[i]))

HandleMessage(w) ==
  /\ \E i \in DOMAIN worker[w].inbox :
       Executable(w, i) /\ (Execute(w, i) \/ Misbehave(w, i) \/ Refuse(w, i))
  /\ UNCHANGED <<op, main, terminated, scenario>>

Crash(w) ==
  /\ w \in scenario.crashable /\ Live(w) /\ Fault
  /\ worker' = [worker EXCEPT ![w].phase = "crashed", ![w].died = TRUE]
  /\ UNCHANGED <<op, main, terminated, scenario>>

-----------------------------------------------------------------------------
Next ==
  \/ \E o \in Op : Issue(o) \/ Start(o) \/ Resume(o) \/ Watchdog(o)
  \/ Terminate
  \/ \E w \in Workers :
       \/ Deliver(w) \/ DeliverInit(w) \/ DeliverCrash(w)
       \/ WorkerInit(w) \/ HandleMessage(w) \/ Crash(w)

Spec == Init /\ [][Next]_vars

\* The event loop runs what is scheduled and live Workers go on: nothing is
\* assumed of a Worker that hangs or crashed, nor of faults.
Fairness ==
  /\ \A o \in Op : WF_vars(Start(o)) /\ WF_vars(Resume(o))
  /\ \A o \in Op : WF_vars(Watchdog(o) /\ faults' = faults)
  /\ \A w \in Workers :
       /\ WF_vars(Deliver(w)) /\ WF_vars(DeliverInit(w)) /\ WF_vars(DeliverCrash(w))
       /\ WF_vars(WorkerInit(w)) /\ WF_vars(HandleMessage(w))

FairSpec == Spec /\ Fairness

-----------------------------------------------------------------------------
(* Properties *)

\* Concurrent calls are serialized: while an operation runs no other one does, so
\* no call of another operation comes between its sync and its last read.
Serialized == \A o, p \in Op : Busy(o) /\ Busy(p) => o = p

\* An operation that succeeds resolves with results of its own store and of its own
\* kind, through any stall, replay or late reply on the way.
OwnResults == \A o \in Op : op[o].st = "done" => op[o].result = Own(o)

\* Whatever stalled and was replayed on the way, a call that follows the sync of its
\* operation meets a kernel that holds the operation's content and, when it reads,
\* the results of the operation's verb.
ReplayRestores ==
  \A o \in Op, r \in {worker[cur].inbox[i] : i \in DOMAIN worker[cur].inbox} :
    /\ op[o].st = "awaitCall" /\ op[o].id = r.id /\ op[o].phase \in {"call", "retry"}
    /\ ~IsLoad(r.method) /\ worker[cur].phase = "ready"
    => /\ worker[cur].content = Store[o]
       /\ r.method = "get" => worker[cur].shown = Own(o).of

\* The operations as a queue served one at a time in the order asked for, an answer
\* once given staying, and everyone answered unless terminate() comes first (OpQueue).
Queue == INSTANCE OpQueue WITH
  Promised <- [o \in Op |-> Own(o)], Nothing <- NoResult, closed <- terminated,
  settled <- {o \in Op : Settled(o)},
  answer  <- [o \in Op |-> IF op[o].st = "done" THEN op[o].result ELSE NoResult]

ImplementsQueue == Queue!Spec
=============================================================================
