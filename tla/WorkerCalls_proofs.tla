-------------------------- MODULE WorkerCalls_proofs --------------------------
(***************************************************************************)
(* Proofs about WorkerCalls for any operations, scenarios and bounds.      *)
(*                                                                         *)
(* Two arguments.  The queue (QueueInv): an operation begins when the one  *)
(* before it has settled, so whatever has begun has only settled           *)
(* operations before it.  Recycling forgets the tail of the queue          *)
(* (ts/index.ts 333); it does no harm to users who await each answer, and  *)
(* Awaited is the condition of all theorems here.                          *)
(*                                                                         *)
(* The calls (CallInv): there is one busy operation, its request is the    *)
(* newest one, and requests are served in order.  So when a call has       *)
(* returned nothing is left in front of the next one, and the kernel stays *)
(* as that call left it; what an earlier operation left behind in a Worker *)
(* is handled before the sync that the operation begins with.  A recovery  *)
(* starts from an empty Worker, and what it replays is what the calls so   *)
(* far have asked for.                                                     *)
(***************************************************************************)
EXTENDS WorkerCalls, SequenceTheorems, TLAPS

\* Users of a Worker that is recycled await each answer before they ask again.
Awaited == scenario.recycling => scenario.patient

Begun(o) == Busy(o) \/ Settled(o)

-----------------------------------------------------------------------------
(* The inductive invariant *)

QueueInv ==
  /\ \A i, j \in DOMAIN issued : issued[i] = issued[j] => i = j
  /\ \A o \in Op : op[o].st # "idle" <=> \E i \in DOMAIN issued : issued[i] = o
  \* whoever has begun has only settled operations before it
  /\ \A i, j \in DOMAIN issued : i < j /\ Begun(issued[j]) => Settled(issued[i])
  \* whoever waits does so for the one before it, or those before it have settled
  /\ \A j \in DOMAIN issued : op[issued[j]].st = "queued" =>
       \/ j > 1 /\ op[issued[j]].prev = issued[j - 1]
       \/ \A i \in 1..(j - 1) : Settled(issued[i])
  /\ issued # <<>> => tail = issued[Len(issued)] \/ (scenario.patient /\ tail = NoOp)

\* Only where Workers are recycled is an operation on the way to a recycled one.
RecycleInv ==
  \A o \in Op : Busy(o) /\ op[o].phase \in {"recycle", "recycled"} => scenario.recycling

\* Identifiers are given once, in the order of the posts.
IdInv ==
  \A w \in Workers :
    /\ \A i \in DOMAIN worker[w].inbox : worker[w].inbox[i].id < nextId
    /\ \A i, j \in DOMAIN worker[w].inbox : i < j => worker[w].inbox[i].id < worker[w].inbox[j].id
    /\ \A i \in DOMAIN worker[w].outbox : worker[w].outbox[i].id < nextId

\* The verb of o, and what it shows.
VerbOf(o) == Calls[Kind[o]][2]
Shows(o) == IF Kind[o] = "materialize" THEN "real" ELSE "class"

\* The method o has posted last, for itself or to recover.
Posted(o) ==
  CASE op[o].phase \in {"call", "retry"} -> MethodOf(o)
    [] op[o].phase = "replay" -> VerbOf(o)
    [] OTHER -> "sync"
Reads(o) == Posted(o) \in {"get", "consistency"}

\* What a call of o finds in the kernel, and what it leaves there.
Prepared(o) ==
  /\ Posted(o) # "sync" => worker[cur].content = Store[o] /\ Len(worker[cur].inbox) = 1
  /\ Reads(o) => worker[cur].shown = Shows(o)
Served(o) ==
  /\ worker[cur].inbox = <<>> /\ worker[cur].content = Store[o]
  /\ Posted(o) # "sync" => worker[cur].shown = Shows(o)

\* What a recovery of o replays.
MemoryInv(o) ==
  /\ lastLoad = Store[o]
  /\ stateCalls = IF op[o].pc = 3 THEN <<VerbOf(o)>> ELSE <<>>
  /\ op[o].phase \in {"recycle", "recycled"} => op[o].pc = 1
  /\ op[o].phase = "recycle" => op[o].saved = Store[o]
  /\ op[o].phase = "replaySync" => op[o].pc # 1
  /\ op[o].phase = "replay" => op[o].pc = 3 /\ op[o].todo = <<>>

\* A request of o, and a reply to it.
RequestInv(o) ==
  \A w \in Workers : \A i \in DOMAIN worker[w].inbox : worker[w].inbox[i].id = op[o].id =>
    /\ w = cur /\ worker[w].inbox[i].method = Posted(o)
    /\ Posted(o) = "sync" => worker[w].inbox[i].load = Store[o]
    /\ Prepared(o)
ReplyInv(o) ==
  \A w \in Workers : \A i \in DOMAIN worker[w].outbox :
    worker[w].outbox[i].id = op[o].id /\ worker[w].outbox[i].out = "ok" =>
      Served(o) /\ (Reads(o) => worker[w].outbox[i].result = Own(o))

AwaitCallInv(o) ==
  op[o].st = "awaitCall" =>
    /\ op[o].phase \notin {"recycle", "recover"} /\ op[o].id = nextId - 1
    /\ RequestInv(o) /\ ReplyInv(o)
AwaitReadyInv(o) ==
  op[o].st = "awaitReady" =>
    op[o].phase \in {"recycle", "recover"} /\ op[o].on = cur /\ worker[cur].inbox = <<>>
ResumedInv(o) ==
  op[o].st = "resumed" /\ op[o].out = "ok" =>
    /\ worker[cur].inbox = <<>>
    /\ op[o].phase \notin {"recycle", "recover"} =>
         Served(o) /\ (Reads(o) => op[o].result = Own(o))

CallInv(o) == MemoryInv(o) /\ AwaitCallInv(o) /\ AwaitReadyInv(o) /\ ResumedInv(o)
BusyInv == \A o \in Op : Busy(o) => CallInv(o)

\* Whoever runs makes one of its calls.
PcInv == \A o \in Op : Busy(o) => op[o].pc \in 1..3

SafeInv == QueueInv /\ RecycleInv /\ IdInv /\ BusyInv /\ OwnResults
TypeInv == TypeOK /\ PcInv
IInv == TypeInv /\ (Awaited => SafeInv)

-----------------------------------------------------------------------------
(* Types *)

\* What an operation calls: sync, a verb, a read.
LEMMA CallsOf ==
  ASSUME NEW o \in Op
  PROVE  /\ Len(Calls[Kind[o]]) = 3
         /\ Calls[Kind[o]][1] = "sync"
         /\ Calls[Kind[o]][2] = IF Kind[o] = "materialize" THEN "realization" ELSE "classification"
         /\ Calls[Kind[o]][3] = IF Kind[o] = "checkConsistency" THEN "consistency" ELSE "get"
BY RolesAssumption DEF Calls

LEMMA CallTyped ==
  ASSUME NEW o \in Op, NEW i \in 1..3
  PROVE  Calls[Kind[o]][i] \in Methods
BY CallsOf DEF Methods, Blocking

\* A post keeps the types.
LEMMA PostTyped ==
  ASSUME TypeOK, NEW o \in Op, NEW was \in OpState, NEW m \in Methods, NEW load \in Content,
         NEW phase \in {"call", "recycled", "replaySync", "replay", "retry"},
         Post(o, was, m, load, phase)
  PROVE  op' \in [Op -> OpState] /\ worker' \in [Workers -> WorkerState] /\ nextId' \in Nat
<1>1. op' \in [Op -> OpState]
  <2> DEFINE watched == m \in Blocking
             new == [was EXCEPT !.st = "awaitCall", !.phase = phase, !.id = nextId, !.watched = watched]
  <2>1. nextId \in Nat /\ watched \in BOOLEAN
    BY DEF TypeOK
  <2> HIDE DEF watched
  <2>2. new \in OpState
    BY <2>1 DEF OpState
  <2>3. op' = [op EXCEPT ![o] = new]
    BY DEF Post, watched
  <2> HIDE DEF new
  <2>4. QED
    BY <2>2, <2>3 DEF TypeOK
<1>2. nextId' \in Nat
  BY DEF TypeOK, Post
<1>3. worker' \in [Workers -> WorkerState]
  <2> DEFINE r == [id |-> nextId, method |-> m, load |-> load]
  <2>1. r \in Request
    BY DEF TypeOK, Request
  <2>2. Append(worker[cur].inbox, r) \in Seq(Request)
    BY <2>1, AppendProperties DEF TypeOK, WorkerState
  <2> HIDE DEF r
  <2>3. worker' = [worker EXCEPT ![cur].inbox = IF Live(cur) THEN Append(@, r) ELSE @]
    BY DEF Post, r
  <2> DEFINE k == [worker[cur] EXCEPT !.inbox = IF Live(cur) THEN Append(@, r) ELSE @]
  <2>4. worker[cur] \in WorkerState /\ cur \in Workers
    BY DEF TypeOK
  <2>5. k \in WorkerState
    BY <2>2, <2>4 DEF WorkerState
  <2>6. worker' = [worker EXCEPT ![cur] = k]
    BY <2>3, <2>4 DEF TypeOK, WorkerState
  <2> HIDE DEF k
  <2>7. QED
    BY <2>5, <2>6 DEF TypeOK
<1>4. QED
  BY <1>1, <1>2, <1>3

\* What a post, a replacement of the Worker and a rejection make of the operations.
LEMMA PostOp ==
  ASSUME TypeOK, NEW o \in Op, NEW was \in OpState, NEW m, NEW load, NEW phase,
         Post(o, was, m, load, phase)
  PROVE  /\ op'[o].st = "awaitCall" /\ op'[o].phase = phase /\ op'[o].id = nextId
         /\ op'[o].pc = was.pc /\ op'[o].saved = was.saved /\ op'[o].todo = was.todo
         /\ \A p \in Op : p # o => op'[p] = op[p]
<1> DEFINE watched == m \in Blocking
           new == [was EXCEPT !.st = "awaitCall", !.phase = phase, !.id = nextId, !.watched = watched]
<1>1. op' = [op EXCEPT ![o] = new] /\ op \in [Op -> OpState]
  BY DEF Post, TypeOK
<1> HIDE DEF watched
<1>2. /\ new.st = "awaitCall" /\ new.phase = phase /\ new.id = nextId
      /\ new.pc = was.pc /\ new.saved = was.saved /\ new.todo = was.todo
  BY DEF OpState
<1> HIDE DEF new
<1>3. QED
  BY <1>1, <1>2

LEMMA RejectedOp ==
  ASSUME TypeOK, NEW p \in Op
  PROVE  \/ op[p].st # "awaitCall" /\ Rejected(p) = op[p]
         \/ /\ op[p].st = "awaitCall" /\ Rejected(p).st = "resumed" /\ Rejected(p).out = "error"
            /\ Rejected(p).pc = op[p].pc /\ Rejected(p).phase = op[p].phase
            /\ Rejected(p).saved = op[p].saved /\ Rejected(p).todo = op[p].todo
            /\ Rejected(p).prev = op[p].prev /\ Rejected(p).result = op[p].result
<1>1. op[p] \in OpState
  BY DEF TypeOK
<1>2. QED
  BY <1>1 DEF Rejected, OpState

LEMMA ReinitOp ==
  ASSUME TypeOK, NEW o \in Op, NEW was \in OpState, NEW phase, Reinit(o, was, phase)
  PROVE  /\ op'[o].st = "awaitReady" /\ op'[o].phase = phase /\ op'[o].on = cur + 1
         /\ op'[o].pc = was.pc /\ op'[o].saved = was.saved
         /\ \A p \in Op : p # o => op'[p] = Rejected(p)
BY DEF Reinit, OpState

LEMMA RejectedTyped ==
  ASSUME TypeOK, NEW o \in Op
  PROVE  Rejected(o) \in OpState
<1>1. op[o] \in OpState
  BY DEF TypeOK
<1>2. QED
  BY <1>1 DEF Rejected, OpState, Outcome

LEMMA FreshTyped == Absent \in WorkerState /\ Fresh \in WorkerState
<1>1. <<>> \in Seq(Request) /\ <<>> \in Seq(Reply)
  BY EmptySeq
<1>2. QED
  BY <1>1 DEF Fresh, Absent, WorkerState, Content

LEMMA StoppedTyped ==
  ASSUME TypeOK, NEW w \in Workers
  PROVE  [worker[w] EXCEPT !.phase = Stopped(w)] \in WorkerState
<1>1. worker[w] \in WorkerState
  BY DEF TypeOK
<1>2. QED
  BY <1>1 DEF Stopped, WorkerState

LEMMA ReinitTyped ==
  ASSUME TypeOK, NEW o \in Op, NEW was \in OpState, NEW phase \in {"recycle", "recover"},
         Reinit(o, was, phase)
  PROVE  op' \in [Op -> OpState] /\ worker' \in [Workers -> WorkerState] /\ cur' \in Workers
<1>1. cur + 1 \in Workers /\ cur' = cur + 1
  BY RolesAssumption DEF TypeOK, Reinit, Workers
<1>2. op' \in [Op -> OpState]
  <2>1. [was EXCEPT !.st = "awaitReady", !.phase = phase, !.on = cur + 1] \in OpState
    BY <1>1 DEF OpState
  <2>2. \A p \in Op : Rejected(p) \in OpState
    BY RejectedTyped
  <2>3. QED
    BY <2>1, <2>2 DEF Reinit
<1>3. Fresh \in WorkerState
  BY FreshTyped
<1>4. worker' \in [Workers -> WorkerState]
  <2>1. [worker[cur] EXCEPT !.phase = Stopped(cur)] \in WorkerState
    BY StoppedTyped DEF TypeOK
  <2>2. worker' = [worker EXCEPT ![cur] = [worker[cur] EXCEPT !.phase = Stopped(cur)], ![cur + 1] = Fresh]
    BY DEF Reinit
  <2>3. QED
    BY <1>1, <1>3, <2>1, <2>2 DEF TypeOK
<1>5. QED
  BY <1>1, <1>2, <1>4

\* What remains of an inbox.
LEMMA WithoutTyped ==
  ASSUME NEW S, NEW q \in Seq(S), NEW i \in 1..Len(q)
  PROVE  /\ Without(q, i) \in Seq(S)
         /\ Len(Without(q, i)) = Len(q) - 1
         /\ \A j \in 1..(Len(q) - 1) : Without(q, i)[j] = IF j < i THEN q[j] ELSE q[j + 1]
<1> DEFINE a == SubSeq(q, 1, i - 1)
           b == SubSeq(q, i + 1, Len(q))
<1>0. Len(q) \in Nat
  BY LenProperties
<1>1. a \in Seq(S) /\ Len(a) = i - 1 /\ \A j \in 1..(i - 1) : a[j] = q[j]
  <2>1. \A j \in 1..(i - 1) : q[j] \in S
    BY <1>0, ElementOfSeq
  <2>2. /\ a \in Seq(S) /\ Len(a) = IF 1 <= i - 1 THEN (i - 1) - 1 + 1 ELSE 0
        /\ \A j \in 1..((i - 1) - 1 + 1) : a[j] = q[1 + j - 1]
    BY <1>0, <2>1, SubSeqProperties
  <2> HIDE DEF a
  <2>3. \A j \in 1..(i - 1) : 1 + j - 1 = j /\ j \in 1..((i - 1) - 1 + 1)
    BY <1>0
  <2>4. QED
    BY <1>0, <2>2, <2>3
<1>2. b \in Seq(S) /\ Len(b) = Len(q) - i /\ \A j \in 1..(Len(q) - i) : b[j] = q[j + i]
  <2>1. \A j \in (i + 1)..Len(q) : q[j] \in S
    BY <1>0, ElementOfSeq
  <2>2. /\ b \in Seq(S) /\ Len(b) = IF i + 1 <= Len(q) THEN Len(q) - (i + 1) + 1 ELSE 0
        /\ \A j \in 1..(Len(q) - (i + 1) + 1) : b[j] = q[(i + 1) + j - 1]
    BY <1>0, <2>1, SubSeqProperties
  <2> HIDE DEF b
  <2>3. \A j \in 1..(Len(q) - i) : (i + 1) + j - 1 = j + i /\ j \in 1..(Len(q) - (i + 1) + 1)
    BY <1>0
  <2>4. QED
    BY <1>0, <2>2, <2>3
<1> HIDE DEF a, b
<1>3. /\ a \o b \in Seq(S) /\ Len(a \o b) = Len(q) - 1
      /\ \A j \in 1..(Len(q) - 1) : (a \o b)[j] = IF j <= i - 1 THEN a[j] ELSE b[j - (i - 1)]
  <2>1. Len(a) + Len(b) = Len(q) - 1 /\ Len(a) = i - 1
    BY <1>0, <1>1, <1>2
  <2>2. /\ a \o b \in Seq(S) /\ Len(a \o b) = Len(a) + Len(b)
        /\ \A j \in 1..(Len(a) + Len(b)) : (a \o b)[j] = IF j <= Len(a) THEN a[j] ELSE b[j - Len(a)]
    BY <1>1, <1>2, ConcatProperties
  <2>3. QED
    BY <2>1, <2>2
<1>4. Without(q, i) = a \o b
  BY DEF Without, a, b
<1>5. ASSUME NEW j \in 1..(Len(q) - 1)
      PROVE  (a \o b)[j] = IF j < i THEN q[j] ELSE q[j + 1]
  <2>1. CASE j < i
    <3>1. j <= i - 1 /\ j \in 1..(i - 1)
      BY <1>0, <2>1
    <3>2. QED
      BY <1>1, <1>3, <2>1, <3>1
  <2>2. CASE ~(j < i)
    <3>0. ~(j <= i - 1)
      BY <1>0, <2>2
    <3>1. (a \o b)[j] = b[j - (i - 1)]
      BY <1>3, <3>0
    <3>2. j - (i - 1) \in 1..(Len(q) - i) /\ (j - (i - 1)) + i = j + 1
      BY <1>0, <2>2
    <3>3. QED
      BY <1>2, <2>2, <3>1, <3>2
  <2>3. QED
    BY <2>1, <2>2
<1>6. QED
  BY <1>3, <1>4, <1>5

\* A Worker that answers keeps its types.
LEMMA AnsweredTyped ==
  ASSUME TypeOK, NEW w \in Workers, NEW i \in DOMAIN worker[w].inbox, NEW k \in WorkerState,
         k.inbox = worker[w].inbox, NEW reply \in Reply, Answered(w, i, k, reply)
  PROVE  worker' \in [Workers -> WorkerState]
<1>1. k.inbox \in Seq(Request) /\ k.outbox \in Seq(Reply) /\ i \in 1..Len(k.inbox)
  BY LenProperties DEF WorkerState
<1>2. Without(k.inbox, i) \in Seq(Request)
  BY <1>1, WithoutTyped
<1>3. Append(k.outbox, reply) \in Seq(Reply)
  BY <1>1, AppendProperties
<1> DEFINE new == [k EXCEPT !.inbox = Without(@, i), !.outbox = Append(@, reply)]
<1>4. new \in WorkerState
  BY <1>2, <1>3 DEF WorkerState
<1>5. worker' = [worker EXCEPT ![w] = new]
  BY DEF Answered
<1> HIDE DEF new
<1>6. QED
  BY <1>4, <1>5 DEF TypeOK

LEMMA FaultTyped ==
  ASSUME TypeOK, UNCHANGED faults \/ Fault
  PROVE  faults' \in 0..scenario.maxFaults
<1>1. faults \in 0..scenario.maxFaults /\ scenario.maxFaults \in Nat
  BY RolesAssumption DEF TypeOK
<1>2. QED
  BY <1>1 DEF Fault

LEMMA HandleTyped ==
  ASSUME TypeOK, NEW w \in Workers, HandleMessage(w)
  PROVE  worker' \in [Workers -> WorkerState] /\ faults' \in 0..scenario.maxFaults
<1> PICK i \in DOMAIN worker[w].inbox : Execute(w, i) \/ Misbehave(w, i) \/ Refuse(w, i)
  BY DEF HandleMessage
<1> DEFINE k == worker[w]
           r == k.inbox[i]
<1>1. k \in WorkerState /\ r \in Request
  <2>1. k \in WorkerState
    BY DEF TypeOK
  <2>2. QED
    BY <2>1, LenProperties, ElementOfSeq DEF WorkerState
<1>2. NoResult \in Result /\ [content |-> k.content, of |-> k.shown] \in Result
      /\ [content |-> k.content, of |-> "verdict"] \in Result
  BY <1>1 DEF WorkerState, NoResult, Result, Content
<1>3. \A out \in Outcome, changed \in BOOLEAN, heap \in {"unsaid", "small", "big"}, result \in Result :
        Answer(r, out, changed, heap, result) \in Reply
  BY <1>1 DEF Answer, Reply, Request
<1>4. faults' \in 0..scenario.maxFaults
  <2>1. UNCHANGED faults \/ Fault
    BY DEF Execute, Misbehave, Refuse
  <2>2. QED
    BY <2>1, FaultTyped
<1>5. k.inbox = worker[w].inbox /\ w \in Workers /\ i \in DOMAIN worker[w].inbox
  OBVIOUS
<1> HIDE DEF k, r
<1>6. CASE Execute(w, i)
  <2> DEFINE changed == r.load # k.content
  <2>1. changed \in BOOLEAN
    OBVIOUS
  <2>2. \/ /\ r.method = "sync"
           /\ Answered(w, i, IF changed THEN [k EXCEPT !.content = r.load, !.shown = "none"] ELSE k,
                       [Done(r) EXCEPT !.changed = changed])
        \/ \E big \in BOOLEAN, shown \in {"class", "real"} :
             Answered(w, i, [k EXCEPT !.shown = shown, !.big = big],
                      IF k.stalled THEN Stalled(r) ELSE [Done(r) EXCEPT !.heap = IF big THEN "big" ELSE "small"])
        \/ Answered(w, i, [k EXCEPT !.shown = "class"], Read(r, k.content, "verdict"))
        \/ Answered(w, i, k, Read(r, k.content, k.shown))
    <3>1. k.big \in BOOLEAN
      BY <1>1 DEF WorkerState
    <3>2. QED
      BY <1>6, <3>1 DEF Execute, k, r
  <2> HIDE DEF changed
  <2>3. CASE Answered(w, i, IF changed THEN [k EXCEPT !.content = r.load, !.shown = "none"] ELSE k,
                      [Done(r) EXCEPT !.changed = changed])
    <3> DEFINE k1 == IF changed THEN [k EXCEPT !.content = r.load, !.shown = "none"] ELSE k
    <3>1. k1 \in WorkerState /\ k1.inbox = k.inbox
      BY <1>1 DEF WorkerState, Request
    <3>2. [Done(r) EXCEPT !.changed = changed] = Answer(r, "ok", changed, "unsaid", NoResult)
      BY DEF Done, Answer
    <3>3. Answer(r, "ok", changed, "unsaid", NoResult) \in Reply
      BY <1>2, <1>3, <2>1 DEF Outcome
    <3> HIDE DEF k1
    <3>4. QED
      BY <1>4, <1>5, <2>3, <3>1, <3>2, <3>3, AnsweredTyped DEF k1
  <2>4. ASSUME NEW big \in BOOLEAN, NEW shown \in {"class", "real"},
               Answered(w, i, [k EXCEPT !.shown = shown, !.big = big],
                        IF k.stalled THEN Stalled(r) ELSE [Done(r) EXCEPT !.heap = IF big THEN "big" ELSE "small"])
        PROVE  worker' \in [Workers -> WorkerState]
    <3> DEFINE k1 == [k EXCEPT !.shown = shown, !.big = big]
               heap == IF big THEN "big" ELSE "small"
               reply == IF k.stalled THEN Stalled(r) ELSE [Done(r) EXCEPT !.heap = heap]
    <3>1. k1 \in WorkerState /\ k1.inbox = k.inbox
      BY <1>1 DEF WorkerState
    <3>2. heap \in {"big", "small"}
      OBVIOUS
    <3> HIDE DEF heap, k1
    <3>3. [Done(r) EXCEPT !.heap = heap] = Answer(r, "ok", FALSE, heap, NoResult)
      <4>1. ASSUME NEW b PROVE [Answer(r, "ok", b, "unsaid", NoResult) EXCEPT !.heap = heap]
                               = Answer(r, "ok", b, heap, NoResult)
        BY DEF Answer
      <4>2. QED
        BY <4>1 DEF Done
    <3>4. reply \in Reply
      <4>1. Answer(r, "ok", FALSE, heap, NoResult) \in Reply /\ Answer(r, "stalled", FALSE, "unsaid", NoResult) \in Reply
        BY <1>2, <1>3, <3>2 DEF Outcome
      <4>2. QED
        BY <3>3, <4>1 DEF Stalled
    <3> HIDE DEF reply
    <3>5. Answered(w, i, k1, reply)
      BY <2>4 DEF k1, reply, heap
    <3>6. QED
      BY <1>5, <3>1, <3>4, <3>5, AnsweredTyped
  <2>5. CASE Answered(w, i, [k EXCEPT !.shown = "class"], Read(r, k.content, "verdict"))
    <3>1. [k EXCEPT !.shown = "class"] \in WorkerState /\ [k EXCEPT !.shown = "class"].inbox = k.inbox
      BY <1>1 DEF WorkerState
    <3>2. Read(r, k.content, "verdict") \in Reply
      BY <1>2, <1>3 DEF Read, Outcome
    <3>3. QED
      BY <1>4, <1>5, <2>5, <3>1, <3>2, AnsweredTyped
  <2>6. CASE Answered(w, i, k, Read(r, k.content, k.shown))
    <3>1. Read(r, k.content, k.shown) \in Reply
      BY <1>2, <1>3 DEF Read, Outcome
    <3>2. QED
      BY <1>1, <1>4, <1>5, <2>6, <3>1, AnsweredTyped
  <2>7. QED
    BY <1>4, <2>2, <2>3, <2>4, <2>5, <2>6
<1>7. CASE Misbehave(w, i)
  <2> DEFINE lost == [k EXCEPT !.shown = IF r.method \in Verbs THEN "none" ELSE @]
  <2>1. lost \in WorkerState /\ [lost EXCEPT !.stalled = TRUE] \in WorkerState
        /\ lost.inbox = k.inbox /\ [lost EXCEPT !.stalled = TRUE].inbox = k.inbox
    BY <1>1 DEF WorkerState
  <2>2. Error(r) \in Reply /\ Stalled(r) \in Reply
    BY <1>2, <1>3 DEF Error, Stalled, Outcome
  <2>3. \/ Answered(w, i, lost, Error(r))
        \/ Answered(w, i, [lost EXCEPT !.stalled = TRUE], Stalled(r))
        \/ worker' = [worker EXCEPT ![w] = [worker[w] EXCEPT !.phase = "hung"]]
    BY <1>7 DEF Misbehave, k, r
  <2> HIDE DEF lost
  <2>4. [worker[w] EXCEPT !.phase = "hung"] \in WorkerState
    BY <1>1 DEF WorkerState, k
  <2>5. QED
    BY <1>4, <1>5, <2>1, <2>2, <2>3, <2>4, AnsweredTyped DEF TypeOK
<1>8. CASE Refuse(w, i)
  <2>1. Error(r) \in Reply
    BY <1>2, <1>3 DEF Error, Outcome
  <2>2. Answered(w, i, k, Error(r))
    BY <1>8 DEF Refuse, k, r
  <2>3. QED
    BY <1>1, <1>4, <1>5, <2>1, <2>2, AnsweredTyped
<1>9. QED
  BY <1>4, <1>6, <1>7, <1>8

\* Every step keeps the types.
LEMMA TypeStep == TypeInv /\ [Next]_vars => TypeInv'
<1> SUFFICES ASSUME TypeInv, [Next]_vars PROVE TypeInv'
  OBVIOUS
<1>a. TypeOK /\ PcInv
  BY DEF TypeInv
<1>b. \A o \in Op : op[o] \in OpState /\ Store[o] \in Content
  BY <1>a DEF TypeOK, Content
<1>c. NoContent \in Content
  BY DEF Content
<1>1. ASSUME NEW o \in Op, Issue(o) PROVE TypeInv'
  <2>1. [op[o] EXCEPT !.st = "queued", !.prev = tail] \in OpState
    BY <1>a, <1>b DEF TypeOK, OpState
  <2>2. op' = [op EXCEPT ![o] = [op[o] EXCEPT !.st = "queued", !.prev = tail]]
    BY <1>1, <1>a DEF Issue, TypeOK
  <2>3. op' \in [Op -> OpState] /\ \A p \in Op : p # o => op'[p] = op[p]
    BY <1>a, <2>1, <2>2 DEF TypeOK
  <2>4. op'[o].st = "queued"
    BY <1>a, <1>b, <2>2 DEF TypeOK, OpState
  <2>5. issued' \in Seq(Op)
    BY <1>1, <1>a, AppendProperties DEF Issue, TypeOK
  <2>6. QED
    BY <1>1, <1>a, <2>3, <2>4, <2>5 DEF Issue, TypeInv, TypeOK, PcInv, Busy
<1>2. ASSUME NEW o \in Op, Start(o) PROVE TypeInv'
  <2> DEFINE m == Calls[Kind[o]][1]
             was == [op[o] EXCEPT !.pc = 1]
             load == IF IsLoad(m) THEN Store[o] ELSE NoContent
  <2>1. was \in OpState /\ was.pc = 1
    BY <1>b DEF OpState
  <2>2. m \in Methods /\ load \in Content
    BY <1>b, <1>c, CallTyped
  <2>3. Post(o, was, m, load, "call")
    BY <1>2 DEF Start, BeginCall
  <2>4. lastLoad' \in Content /\ stateCalls' \in Seq(Blocking)
    BY <1>2, <1>a, <1>b, EmptySeq DEF Start, BeginCall, TypeOK
  <2> HIDE DEF m, was, load
  <2>5. op' \in [Op -> OpState] /\ worker' \in [Workers -> WorkerState] /\ nextId' \in Nat
    BY <1>a, <2>1, <2>2, <2>3, PostTyped
  <2>6. op'[o].pc = 1 /\ \A p \in Op : p # o => op'[p] = op[p]
    BY <1>a, <2>1, <2>3, PostOp
  <2>7. QED
    BY <1>2, <1>a, <2>4, <2>5, <2>6 DEF Start, TypeInv, TypeOK, PcInv, Busy
<1>3. ASSUME NEW o \in Op, CallReturns(o) PROVE TypeInv'
  <2>1. op[o].pc \in 1..3
    BY <1>3, <1>a DEF PcInv, Busy, CallReturns
  <2>2. stateCalls' \in Seq(Blocking)
    BY <1>3, <1>a, AppendProperties DEF CallReturns, Return, Remembered, TypeOK
  <2>3. CASE op[o].pc = 3
    <3>1. op' = [op EXCEPT ![o].st = "done"] /\ UNCHANGED <<nextId, worker>>
      BY <1>3, <2>3, CallsOf DEF CallReturns, Return
    <3>2. op' \in [Op -> OpState] /\ \A p \in Op : op'[p].pc = op[p].pc /\ (op'[p] = op[p] \/ op'[p].st = "done")
      <4>1. [op[o] EXCEPT !.st = "done"] \in OpState /\ [op[o] EXCEPT !.st = "done"].pc = op[o].pc
            /\ [op[o] EXCEPT !.st = "done"].st = "done"
        BY <1>b DEF OpState
      <4>2. op' = [op EXCEPT ![o] = [op[o] EXCEPT !.st = "done"]] /\ op \in [Op -> OpState]
        BY <1>a, <3>1 DEF TypeOK
      <4>3. QED
        BY <4>1, <4>2
    <3>3. QED
      BY <1>3, <1>a, <2>2, <3>1, <3>2 DEF CallReturns, Return, TypeInv, TypeOK, PcInv, Busy
  <2>4. CASE op[o].pc # 3
    <3> DEFINE was == [op[o] EXCEPT !.pc = @ + 1]
               m == Calls[Kind[o]][op[o].pc + 1]
    <3>1. Post(o, was, m, NoContent, "call")
      BY <1>3, <2>4, CallsOf DEF CallReturns, Return
    <3>2. was \in OpState /\ was.pc = op[o].pc + 1 /\ op[o].pc + 1 \in 1..3
      BY <1>b, <2>1, <2>4 DEF OpState
    <3>3. m \in Methods
      BY <3>2, CallTyped
    <3> HIDE DEF was, m
    <3>4. op' \in [Op -> OpState] /\ worker' \in [Workers -> WorkerState] /\ nextId' \in Nat
      BY <1>a, <1>c, <3>1, <3>2, <3>3, PostTyped
    <3>5. op'[o].pc \in 1..3 /\ \A p \in Op : p # o => op'[p] = op[p]
      BY <1>a, <3>1, <3>2, PostOp
    <3>6. QED
      BY <1>3, <1>a, <2>2, <3>4, <3>5 DEF CallReturns, Return, TypeInv, TypeOK, PcInv, Busy
  <2>5. QED
    BY <2>3, <2>4
<1>4. ASSUME NEW o \in Op, Recycle(o) \/ Recover(o) PROVE TypeInv'
  <2>1. PICK was \in OpState, phase \in {"recycle", "recover"} : Reinit(o, was, phase) /\ was.pc = op[o].pc
    <3>1. [op[o] EXCEPT !.saved = lastLoad] \in OpState /\ [op[o] EXCEPT !.saved = lastLoad].pc = op[o].pc
      BY <1>a, <1>b DEF TypeOK, OpState
    <3>2. QED
      BY <1>4, <1>b, <3>1 DEF Recycle, Recover
  <2>2. op' \in [Op -> OpState] /\ worker' \in [Workers -> WorkerState] /\ cur' \in Workers
    BY <1>a, <2>1, ReinitTyped
  <2>3. op'[o].pc = op[o].pc /\ \A p \in Op : p # o => op'[p] = Rejected(p)
    BY <1>a, <2>1, ReinitOp
  <2>4. op[o].pc \in 1..3
    BY <1>4, <1>a DEF PcInv, Busy, Recycle, Recover
  <2>5. PcInv'
    BY <1>a, <2>3, <2>4, RejectedOp DEF PcInv, Busy
  <2>6. UNCHANGED <<tail, issued, nextId, lastLoad, stateCalls, heapBig, faults, terminated, scenario>>
    BY <1>4 DEF Recycle, Recover
  <2>7. QED
    BY <1>a, <2>2, <2>5, <2>6 DEF TypeInv, TypeOK
<1>5. ASSUME NEW o \in Op, Reload(o) PROVE TypeInv'
  <2>1. Post(o, op[o], "sync", op[o].saved, "recycled") /\ op[o].saved \in Content
    BY <1>5, <1>b DEF Reload, OpState
  <2>2. op' \in [Op -> OpState] /\ worker' \in [Workers -> WorkerState] /\ nextId' \in Nat
    BY <1>a, <1>b, <2>1, PostTyped DEF Methods, Blocking
  <2>3. op'[o].pc = op[o].pc /\ \A p \in Op : p # o => op'[p] = op[p]
    BY <1>a, <1>b, <2>1, PostOp
  <2>4. op[o].pc \in 1..3
    BY <1>5, <1>a DEF PcInv, Busy, Reload
  <2>5. PcInv'
    BY <1>a, <2>3, <2>4 DEF PcInv, Busy
  <2>6. QED
    BY <1>5, <1>a, <2>1, <2>2, <2>5, EmptySeq DEF Reload, TypeInv, TypeOK
<1>6. ASSUME NEW o \in Op, Replay(o) PROVE TypeInv'
  <2>1. op[o].pc \in 1..3
    BY <1>6, <1>a DEF PcInv, Busy, Replay
  <2>2. PICK was \in OpState, m \in Methods, load \in Content, phase \in {"replaySync", "replay", "retry"} :
          Post(o, was, m, load, phase) /\ was.pc = op[o].pc
    <3> DEFINE todo == IF op[o].phase = "replaySync" THEN stateCalls ELSE op[o].todo
    <3>1. todo \in Seq(Blocking)
      BY <1>a, <1>b DEF TypeOK, OpState
    <3>2. MethodOf(o) \in Methods /\ lastLoad \in Content
      BY <1>a, <2>1, CallTyped DEF MethodOf, TypeOK
    <3>3. \/ Post(o, op[o], "sync", lastLoad, "replaySync")
          \/ todo # <<>> /\ Post(o, [op[o] EXCEPT !.todo = Tail(todo)], Head(todo), NoContent, "replay")
          \/ Post(o, op[o], MethodOf(o), IF IsLoad(MethodOf(o)) THEN lastLoad ELSE NoContent, "retry")
      BY <1>6 DEF Replay
    <3> HIDE DEF todo
    <3>4. ASSUME todo # <<>>
          PROVE  /\ [op[o] EXCEPT !.todo = Tail(todo)] \in OpState /\ Head(todo) \in Methods
                 /\ [op[o] EXCEPT !.todo = Tail(todo)].pc = op[o].pc
      <4>1. Tail(todo) \in Seq(Blocking) /\ Head(todo) \in Blocking
        BY <3>1, <3>4, HeadTailProperties
      <4>2. QED
        BY <1>b, <4>1 DEF OpState, Methods
    <3>5. "sync" \in Methods
      BY DEF Methods, Blocking
    <3>6. QED
      BY <1>b, <1>c, <3>2, <3>3, <3>4, <3>5
  <2>3. op' \in [Op -> OpState] /\ worker' \in [Workers -> WorkerState] /\ nextId' \in Nat
    BY <1>a, <2>2, PostTyped
  <2>4. op'[o].pc = op[o].pc /\ \A p \in Op : p # o => op'[p] = op[p]
    BY <1>a, <2>2, PostOp
  <2>5. PcInv'
    BY <1>a, <2>1, <2>4 DEF PcInv, Busy
  <2>6. UNCHANGED <<tail, issued, cur, lastLoad, stateCalls, heapBig, faults, terminated, scenario>>
    BY <1>6 DEF Replay
  <2>7. QED
    BY <1>a, <2>3, <2>5, <2>6 DEF TypeInv, TypeOK
<1>7. ASSUME NEW o \in Op, CallThrows(o) \/ Watchdog(o) PROVE TypeInv'
  <2>1. op' \in [Op -> OpState] /\ \A p \in Op : op'[p].pc = op[p].pc /\ (Busy(p)' => Busy(p))
    <3>1. /\ [op[o] EXCEPT !.st = "failed"] \in OpState /\ [op[o] EXCEPT !.st = "failed"].pc = op[o].pc
          /\ [op[o] EXCEPT !.st = "resumed", !.out = "stalled"] \in OpState
          /\ [op[o] EXCEPT !.st = "resumed", !.out = "stalled"].pc = op[o].pc
      BY <1>b DEF OpState, Outcome
    <3>2. /\ op \in [Op -> OpState] /\ Busy(o)
          /\ \/ op' = [op EXCEPT ![o] = [op[o] EXCEPT !.st = "failed"]]
             \/ op' = [op EXCEPT ![o] = [op[o] EXCEPT !.st = "resumed", !.out = "stalled"]]
      BY <1>7, <1>a DEF CallThrows, Watchdog, TypeOK, Busy
    <3>3. QED
      BY <3>1, <3>2 DEF Busy
  <2>2. faults' \in 0..scenario.maxFaults
    BY <1>7, <1>a, FaultTyped DEF CallThrows, Watchdog, TypeOK
  <2>3. UNCHANGED <<main, worker, terminated, scenario>>
    BY <1>7 DEF CallThrows, Watchdog
  <2>4. QED
    BY <1>a, <2>1, <2>2, <2>3 DEF TypeInv, TypeOK, PcInv, main
<1>8. ASSUME Terminate PROVE TypeInv'
  <2>1. op' \in [Op -> OpState] /\ \A p \in Op : op'[p].pc = op[p].pc /\ (Busy(p)' => Busy(p))
    BY <1>8, <1>a, RejectedTyped, RejectedOp DEF Terminate, Busy
  <2>2. worker' \in [Workers -> WorkerState]
    BY <1>8, <1>a, StoppedTyped DEF Terminate, TypeOK
  <2>3. QED
    BY <1>8, <1>a, <2>1, <2>2 DEF Terminate, TypeInv, TypeOK, PcInv, main
<1>9. ASSUME NEW w \in Workers, Deliver(w) PROVE TypeInv'
  <2>1. worker[w] \in WorkerState
    BY <1>a DEF TypeOK
  <2>2. worker[w].outbox \in Seq(Reply) /\ worker[w].outbox # <<>>
    BY <1>9, <2>1 DEF Deliver, WorkerState
  <2> DEFINE r == Head(worker[w].outbox)
  <2>3. r \in Reply /\ Tail(worker[w].outbox) \in Seq(Reply)
    BY <2>2, HeadTailProperties
  <2>4. worker' \in [Workers -> WorkerState]
    <3>1. [worker[w] EXCEPT !.outbox = Tail(@)] \in WorkerState
      BY <2>1, <2>3 DEF WorkerState
    <3>2. worker' = [worker EXCEPT ![w] = [worker[w] EXCEPT !.outbox = Tail(@)]]
      BY <1>9, <1>a DEF Deliver, TypeOK
    <3>3. QED
      BY <1>a, <3>1, <3>2 DEF TypeOK
  <2>5. /\ heapBig' = IF r.heap = "unsaid" THEN heapBig ELSE r.heap = "big"
        /\ op' = [o \in Op |->
             IF Answers(r, o)
             THEN [op[o] EXCEPT !.st = "resumed", !.out = r.out, !.changed = r.changed, !.result = r.result]
             ELSE op[o]]
    BY <1>9 DEF Deliver
  <2> HIDE DEF r
  <2>6. \A o \in Op : LET new == [op[o] EXCEPT !.st = "resumed", !.out = r.out, !.changed = r.changed, !.result = r.result]
                      IN new \in OpState /\ new.pc = op[o].pc
    <3>1. r.out \in Outcome /\ r.changed \in BOOLEAN /\ r.result \in Result
      BY <2>3 DEF Reply
    <3>2. QED
      BY <1>b, <3>1 DEF OpState
  <2>7. op' \in [Op -> OpState] /\ \A p \in Op : op'[p].pc = op[p].pc /\ (Busy(p)' => Busy(p))
    BY <2>5, <2>6, <1>b DEF Busy, Answers
  <2>8. heapBig' \in BOOLEAN
    BY <2>5, <1>a DEF TypeOK
  <2>9. QED
    BY <1>9, <1>a, <2>4, <2>7, <2>8 DEF Deliver, TypeInv, TypeOK, PcInv
<1>10. ASSUME NEW w \in Workers, DeliverInit(w) \/ DeliverCrash(w) PROVE TypeInv'
  <2>1. op' \in [Op -> OpState] /\ \A p \in Op : op'[p].pc = op[p].pc /\ (Busy(p)' => Busy(p))
    <3>1. CASE DeliverInit(w)
      <4> DEFINE out == IF worker[w].told = "ready" THEN "ok" ELSE "error"
      <4>1. op' = [o \in Op |-> IF op[o].st = "awaitReady" /\ op[o].on = w
                                THEN [op[o] EXCEPT !.st = "resumed", !.out = out] ELSE op[o]]
        BY <3>1 DEF DeliverInit
      <4>2. out \in Outcome
        BY DEF Outcome
      <4> HIDE DEF out
      <4>3. \A o \in Op : LET new == [op[o] EXCEPT !.st = "resumed", !.out = out]
                          IN new \in OpState /\ new.pc = op[o].pc
        BY <1>b, <4>2 DEF OpState
      <4>4. QED
        BY <4>1, <4>3, <1>b DEF Busy
    <3>2. CASE DeliverCrash(w)
      BY <3>2, <1>a, RejectedTyped, RejectedOp DEF DeliverCrash, Busy, TypeOK
    <3>3. QED
      BY <1>10, <3>1, <3>2
  <2>2. worker' \in [Workers -> WorkerState]
    <3>1. [worker[w] EXCEPT !.told = ""] \in WorkerState /\ [worker[w] EXCEPT !.died = FALSE] \in WorkerState
      BY <1>a DEF TypeOK, WorkerState
    <3>2. QED
      BY <1>10, <1>a, <3>1 DEF DeliverInit, DeliverCrash, TypeOK
  <2>3. UNCHANGED <<main, faults, terminated, scenario>>
    BY <1>10 DEF DeliverInit, DeliverCrash
  <2>4. QED
    BY <1>a, <2>1, <2>2, <2>3 DEF TypeInv, TypeOK, PcInv, main
<1>11. ASSUME NEW w \in Workers, WorkerInit(w) \/ Crash(w) PROVE TypeInv'
  <2>1. /\ [worker[w] EXCEPT !.phase = "ready", !.told = "ready"] \in WorkerState
        /\ [worker[w] EXCEPT !.phase = "broken", !.told = "error"] \in WorkerState
        /\ [worker[w] EXCEPT !.phase = "crashed", !.died = TRUE] \in WorkerState
    BY <1>a DEF TypeOK, WorkerState
  <2>2. worker' \in [Workers -> WorkerState]
    BY <1>11, <1>a, <2>1 DEF WorkerInit, Crash, TypeOK
  <2>3. faults' \in 0..scenario.maxFaults
    BY <1>11, <1>a, FaultTyped DEF WorkerInit, Crash, TypeOK
  <2>4. UNCHANGED <<op, main, terminated, scenario>>
    BY <1>11 DEF WorkerInit, Crash
  <2>5. QED
    BY <1>a, <2>2, <2>3, <2>4 DEF TypeInv, TypeOK, PcInv, main, Busy
<1>12. ASSUME NEW w \in Workers, HandleMessage(w) PROVE TypeInv'
  <2>1. worker' \in [Workers -> WorkerState] /\ faults' \in 0..scenario.maxFaults
    BY <1>12, <1>a, HandleTyped
  <2>2. UNCHANGED <<op, main, terminated, scenario>>
    BY <1>12 DEF HandleMessage
  <2>3. QED
    BY <1>a, <2>1, <2>2 DEF TypeInv, TypeOK, PcInv, main, Busy
<1>13. CASE UNCHANGED vars
  BY <1>13, <1>a DEF vars, main, TypeInv, TypeOK, PcInv, Busy
<1>14. QED
  BY <1>1, <1>2, <1>3, <1>4, <1>5, <1>6, <1>7, <1>8, <1>9, <1>10, <1>11, <1>12, <1>13 DEF Next, Resume

LEMMA InitTyped == Init => TypeInv
<1> SUFFICES ASSUME Init PROVE TypeInv
  OBVIOUS
<1>0. scenario \in Scenarios /\ scenario.workers \in 1..MaxWorkers /\ scenario.maxFaults \in Nat /\ MaxWorkers \in Nat
  BY RolesAssumption DEF Init
<1>1. 1 \in Workers
  BY <1>0 DEF Workers
<1>2. NoContent \in Content /\ <<>> \in Seq(Blocking) /\ <<>> \in Seq(Op)
  BY EmptySeq DEF Content
<1>3. [st |-> "idle", prev |-> NoOp, pc |-> 0, phase |-> "call",
       saved |-> NoContent, todo |-> <<>>, id |-> 0,
       watched |-> FALSE, on |-> 1, out |-> "ok", changed |-> FALSE, result |-> NoResult] \in OpState
  BY <1>1, <1>2 DEF OpState, Outcome, Result, NoResult
<1> DEFINE idle == [st |-> "idle", prev |-> NoOp, pc |-> 0, phase |-> "call",
                   saved |-> NoContent, todo |-> <<>>, id |-> 0,
                   watched |-> FALSE, on |-> 1, out |-> "ok", changed |-> FALSE, result |-> NoResult]
<1>7. op = [o \in Op |-> idle] /\ idle.st = "idle"
  BY DEF Init
<1> HIDE DEF idle
<1>4. op \in [Op -> OpState] /\ \A o \in Op : op[o].st = "idle"
  BY <1>3, <1>7 DEF idle
<1>5. worker \in [Workers -> WorkerState]
  BY FreshTyped DEF Init
<1>6. TypeOK
  <2>1. heapBig \in BOOLEAN /\ terminated \in BOOLEAN
    BY DEF Init
  <2>2. tail \in Op \cup {NoOp} /\ issued \in Seq(Op) /\ lastLoad \in Content /\ stateCalls \in Seq(Blocking)
        /\ cur \in Workers
    BY <1>1, <1>2 DEF Init
  <2>3. nextId \in Nat /\ faults \in 0..scenario.maxFaults
    BY <1>0 DEF Init
  <2>4. QED
    BY <1>0, <1>4, <1>5, <2>1, <2>2, <2>3 DEF TypeOK
<1>8. PcInv
  BY <1>4 DEF PcInv, Busy
<1>9. QED
  BY <1>6, <1>8 DEF TypeInv

\* Every variable keeps its type, whatever users and Workers do.
THEOREM TypeCorrect == Spec => []TypeOK
<1>1. TypeInv => TypeOK
  BY DEF TypeInv
<1>2. QED
  BY <1>1, InitTyped, TypeStep, PTL DEF Spec

-----------------------------------------------------------------------------
(* The queue *)

\* While one runs the others do not.
LEMMA OneBusy ==
  ASSUME TypeOK, QueueInv, NEW o \in Op, NEW p \in Op, Busy(o), Busy(p)
  PROVE  o = p
<1>1. op[o].st # "idle" /\ op[p].st # "idle" /\ ~Settled(o) /\ ~Settled(p)
  BY DEF Busy, Settled
<1>2. PICK i, j \in DOMAIN issued : issued[i] = o /\ issued[j] = p
  BY <1>1 DEF QueueInv
<1>3. i \in Nat /\ j \in Nat
  BY LenProperties DEF TypeOK
<1>4. ~(i < j) /\ ~(j < i)
  BY <1>1, <1>2 DEF QueueInv, Begun
<1>5. QED
  BY <1>2, <1>3, <1>4

\* Whoever may start finds those before it settled, and nobody running.
LEMMA StartsAlone ==
  ASSUME TypeOK, QueueInv, NEW o \in Op, op[o].st = "queued", FreeToStart(o),
         NEW j \in DOMAIN issued, issued[j] = o
  PROVE  /\ \A i \in 1..(j - 1) : Settled(issued[i])
         /\ \A p \in Op : ~Busy(p)
<1>0. issued \in Seq(Op) /\ j \in 1..Len(issued) /\ DOMAIN issued = 1..Len(issued) /\ Len(issued) \in Nat
  BY LenProperties DEF TypeOK
<1>1. \A i \in 1..(j - 1) : Settled(issued[i])
  <2>1. CASE j > 1 /\ op[o].prev = issued[j - 1]
    <3>1. j - 1 \in DOMAIN issued /\ issued[j - 1] \in Op
      BY <1>0, <2>1, ElementOfSeq
    <3>2. Settled(issued[j - 1])
      BY <2>1, <3>1, RolesAssumption DEF FreeToStart
    <3>3. \A i \in DOMAIN issued : i < j - 1 => Settled(issued[i])
      BY <3>1, <3>2 DEF QueueInv, Begun
    <3>4. ASSUME NEW i \in 1..(j - 1) PROVE Settled(issued[i])
      <4>1. i \in DOMAIN issued /\ (i = j - 1 \/ i < j - 1)
        BY <1>0
      <4>2. QED
        BY <3>2, <3>3, <4>1
    <3>5. QED
      BY <3>4
  <2>2. QED
    BY <2>1 DEF QueueInv
<1>2. ASSUME NEW p \in Op, Busy(p) PROVE FALSE
  <2>1. op[p].st # "idle" /\ ~Settled(p) /\ Begun(p)
    BY <1>2 DEF Busy, Settled, Begun
  <2>2. PICK i \in DOMAIN issued : issued[i] = p
    BY <2>1 DEF QueueInv
  <2>3. ~Settled(o) /\ ~Busy(o)
    BY DEF Settled, Busy
  <2>4. ~(j < i)
    BY <2>1, <2>2, <2>3 DEF QueueInv
  <2>5. i \in 1..(j - 1) \/ i = j
    BY <1>0, <2>4
  <2>6. QED
    BY <1>1, <1>2, <2>1, <2>2, <2>3, <2>5
<1>3. QED
  BY <1>1, <1>2

\* A step that asks for nothing keeps the queue in order when what it moves on was
\* running or free to start.
LEMMA QueueKept ==
  ASSUME TypeOK, QueueInv, issued' = issued, scenario' = scenario,
         tail' = tail \/ (scenario.patient /\ tail' = NoOp),
         \A p \in Op : \/ op'[p].st = op[p].st /\ op'[p].prev = op[p].prev
                       \/ Busy(p) /\ Begun(p)'
                       \/ op[p].st = "queued" /\ FreeToStart(p) /\ Busy(p)'
  PROVE  QueueInv'
<1>0. issued \in Seq(Op) /\ DOMAIN issued = 1..Len(issued) /\ Len(issued) \in Nat
  BY LenProperties DEF TypeOK
<1>1. \A i \in DOMAIN issued : issued[i] \in Op
  BY <1>0, ElementOfSeq
<1>2. \A p \in Op : /\ Settled(p) => Settled(p)'
                    /\ (op[p].st # "idle") = (op'[p].st # "idle")
                    /\ op'[p].st = "queued" => op[p].st = "queued" /\ op'[p].prev = op[p].prev
                    /\ Begun(p)' => Begun(p) \/ (op[p].st = "queued" /\ FreeToStart(p))
  BY DEF Begun, Busy, Settled
<1>3. \A o \in Op : op'[o].st # "idle" <=> \E i \in DOMAIN issued' : issued'[i] = o
  BY <1>2 DEF QueueInv
<1>4. ASSUME NEW i \in DOMAIN issued, NEW j \in DOMAIN issued, i < j, Begun(issued[j])'
      PROVE  Settled(issued[i])'
  <2>0. Begun(issued[j]) \/ (op[issued[j]].st = "queued" /\ FreeToStart(issued[j]))
    BY <1>1, <1>2, <1>4
  <2>1. CASE Begun(issued[j])
    BY <1>1, <1>2, <1>4, <2>1 DEF QueueInv
  <2>2. CASE op[issued[j]].st = "queued" /\ FreeToStart(issued[j])
    <3>1. i \in 1..(j - 1)
      BY <1>0, <1>4
    <3>2. Settled(issued[i])
      BY <1>1, <2>2, <3>1, StartsAlone
    <3>3. QED
      BY <1>1, <1>2, <3>2
  <2>3. QED
    BY <2>0, <2>1, <2>2
<1>5. ASSUME NEW j \in DOMAIN issued, op'[issued[j]].st = "queued"
      PROVE  \/ j > 1 /\ op'[issued[j]].prev = issued[j - 1]
             \/ \A i \in 1..(j - 1) : Settled(issued[i])'
  <2>1. op[issued[j]].st = "queued" /\ op'[issued[j]].prev = op[issued[j]].prev
    BY <1>1, <1>2, <1>5
  <2>2. \A i \in 1..(j - 1) : i \in DOMAIN issued
    BY <1>0
  <2>3. \A i \in 1..(j - 1) : Settled(issued[i]) => Settled(issued[i])'
    BY <1>1, <1>2, <2>2
  <2>4. QED
    BY <2>1, <2>3 DEF QueueInv
<1>6. (issued # <<>> => tail = issued[Len(issued)] \/ (scenario.patient /\ tail = NoOp))'
  BY DEF QueueInv
<1>7. (\A i, j \in DOMAIN issued : issued[i] = issued[j] => i = j)'
  BY DEF QueueInv
<1>8. (\A i, j \in DOMAIN issued : i < j /\ Begun(issued[j]) => Settled(issued[i]))'
  <2>1. \A i, j \in DOMAIN issued : i < j /\ Begun(issued[j])' => Settled(issued[i])'
    BY <1>4
  <2>2. QED
    BY <2>1 DEF Begun, Busy, Settled
<1>9. (\A j \in DOMAIN issued : op[issued[j]].st = "queued" =>
        \/ j > 1 /\ op[issued[j]].prev = issued[j - 1]
        \/ \A i \in 1..(j - 1) : Settled(issued[i]))'
  <2>1. \A j \in DOMAIN issued : op'[issued[j]].st = "queued" =>
          \/ j > 1 /\ op'[issued[j]].prev = issued[j - 1]
          \/ \A i \in 1..(j - 1) : Settled(issued[i])'
    BY <1>5
  <2>2. QED
    BY <2>1 DEF Settled
<1>10. QED
  BY <1>3, <1>6, <1>7, <1>8, <1>9 DEF QueueInv

-----------------------------------------------------------------------------
(* The calls: what a step leaves alone *)

SameCall(p) ==
  /\ op'[p].pc = op[p].pc /\ op'[p].phase = op[p].phase
  /\ op'[p].saved = op[p].saved /\ op'[p].todo = op[p].todo
SameMemory == lastLoad' = lastLoad /\ stateCalls' = stateCalls
SameKernel(w) == worker'[w].content = worker[w].content /\ worker'[w].shown = worker[w].shown
SameMail(w) == worker'[w].inbox = worker[w].inbox /\ worker'[w].outbox = worker[w].outbox

LEMMA PostedKept ==
  ASSUME NEW p \in Op, SameCall(p)
  PROVE  /\ Posted(p)' = Posted(p) /\ Reads(p)' = Reads(p)
         /\ SameMemory => MemoryInv(p)' = MemoryInv(p)
<1>1. MethodOf(p)' = MethodOf(p)
  BY DEF SameCall, MethodOf
<1>2. Posted(p)' = Posted(p)
  BY <1>1 DEF SameCall, Posted, VerbOf
<1>3. SameMemory => MemoryInv(p)' = MemoryInv(p)
  BY DEF SameCall, SameMemory, MemoryInv, VerbOf
<1>4. QED
  BY <1>2, <1>3 DEF Reads

\* What the methods of an operation's calls tell of it.
LEMMA PostedKinds ==
  ASSUME NEW p \in Op, op[p].pc \in 1..3
  PROVE  /\ Posted(p) \in {"sync", "classification", "realization", "consistency", "get"}
         /\ Posted(p) \in Verbs => Shows(p) = IF Posted(p) = "realization" THEN "real" ELSE "class"
         /\ Posted(p) = "consistency" => Shows(p) = "class" /\ Own(p).of = "verdict"
         /\ Posted(p) = "get" => Own(p).of = Shows(p)
         /\ op[p].phase \in {"call", "retry"} => Posted(p) = MethodOf(p)
         /\ op[p].phase = "replay" => Posted(p) = VerbOf(p)
         /\ op[p].phase \notin {"call", "retry", "replay"} => Posted(p) = "sync"
<1>1. Kind[p] \in {"classify", "materialize", "checkConsistency"}
  BY RolesAssumption
<1>2. op[p].phase \in {"call", "retry"} => Posted(p) = MethodOf(p)
  BY DEF Posted
<1>3. op[p].phase = "replay" => Posted(p) = VerbOf(p)
  BY DEF Posted
<1>4. op[p].phase \notin {"call", "retry", "replay"} => Posted(p) = "sync"
  BY DEF Posted
<1>5. Posted(p) \in {"sync", VerbOf(p), Calls[Kind[p]][3]}
  BY <1>2, <1>3, <1>4, CallsOf DEF MethodOf, VerbOf
<1>6. /\ VerbOf(p) = IF Kind[p] = "materialize" THEN "realization" ELSE "classification"
      /\ Calls[Kind[p]][3] = IF Kind[p] = "checkConsistency" THEN "consistency" ELSE "get"
  BY CallsOf DEF VerbOf
<1>7. QED
  BY <1>1, <1>2, <1>3, <1>4, <1>5, <1>6 DEF Verbs, Shows, Own

\* A Worker that neither reads nor answers, and keeps its results.
LEMMA CallKept ==
  ASSUME TypeOK, NEW p \in Op, CallInv(p), op'[p] = op[p],
         nextId' = nextId, cur' = cur, SameMemory,
         \A w \in Workers : SameKernel(w) /\ SameMail(w)
  PROVE  CallInv(p)'
<1>1. Posted(p)' = Posted(p) /\ Reads(p)' = Reads(p) /\ MemoryInv(p)' = MemoryInv(p)
  BY PostedKept DEF SameCall
<1>2. cur \in Workers
  BY DEF TypeOK
<1>3. Prepared(p)' = Prepared(p) /\ Served(p)' = Served(p)
  BY <1>1, <1>2 DEF Prepared, Served, SameKernel, SameMail, Shows
<1>4. AwaitReadyInv(p)' = AwaitReadyInv(p)
  BY <1>2 DEF AwaitReadyInv, SameMail
<1>5. ResumedInv(p)' = ResumedInv(p)
  BY <1>1, <1>2, <1>3 DEF ResumedInv, SameMail, Own
<1>6. RequestInv(p) => RequestInv(p)'
  BY <1>1, <1>2, <1>3 DEF RequestInv, SameMail
<1>7. ReplyInv(p) => ReplyInv(p)'
  BY <1>1, <1>3 DEF ReplyInv, SameMail, Own
<1>8. AwaitCallInv(p) => AwaitCallInv(p)'
  BY <1>6, <1>7 DEF AwaitCallInv
<1>9. QED
  BY <1>1, <1>4, <1>5, <1>8 DEF CallInv

\* A call that has not returned well asks for nothing.
LEMMA NotReturned ==
  ASSUME NEW p \in Op, CallInv(p), SameCall(p), SameMemory,
         op'[p].st = "resumed", op'[p].out # "ok"
  PROVE  CallInv(p)'
<1>1. MemoryInv(p)'
  BY PostedKept DEF CallInv
<1>2. QED
  BY <1>1 DEF CallInv, AwaitCallInv, AwaitReadyInv, ResumedInv

\* Mail as it is, or less of it.
LEMMA IdKept ==
  ASSUME IdInv, nextId' = nextId, \A w \in Workers : SameMail(w)
  PROVE  IdInv'
BY DEF IdInv, SameMail

-----------------------------------------------------------------------------
(* The calls: posting one *)

\* After a post by o the newest request is that of o.
LEMMA PostCall ==
  ASSUME TypeOK, IdInv, NEW o \in Op, NEW was \in OpState, NEW m \in Methods, NEW load \in Content,
         NEW phase \in {"call", "recycled", "replaySync", "replay", "retry"},
         Post(o, was, m, load, phase), cur' = cur, Posted(o)' = m,
         m = "sync" => load = Store[o],
         m # "sync" => worker[cur].inbox = <<>> /\ worker[cur].content = Store[o],
         m \in {"get", "consistency"} => worker[cur].shown = Shows(o)
  PROVE  IdInv' /\ AwaitCallInv(o)' /\ AwaitReadyInv(o)' /\ ResumedInv(o)'
<1> DEFINE r == [id |-> nextId, method |-> m, load |-> load]
<1>0. nextId \in Nat /\ nextId' = nextId + 1 /\ cur \in Workers
  BY DEF TypeOK, Post
<1>1. op'[o].st = "awaitCall" /\ op'[o].phase = phase /\ op'[o].id = nextId
  BY PostOp
<1>2. r \in Request /\ r.id = nextId /\ r.method = m /\ r.load = load
  BY <1>0 DEF Request
<1>3. worker[cur].inbox \in Seq(Request) /\ Len(worker[cur].inbox) \in Nat
      /\ DOMAIN worker[cur].inbox = 1..Len(worker[cur].inbox)
  BY <1>0, LenProperties DEF TypeOK, WorkerState
<1> DEFINE k == [worker[cur] EXCEPT !.inbox = IF Live(cur) THEN Append(@, r) ELSE @]
<1>4. worker' = [worker EXCEPT ![cur] = k] /\ worker \in [Workers -> WorkerState]
  BY DEF Post, TypeOK
<1>5. /\ k.outbox = worker[cur].outbox /\ k.content = worker[cur].content /\ k.shown = worker[cur].shown
      /\ k.inbox = IF Live(cur) THEN Append(worker[cur].inbox, r) ELSE worker[cur].inbox
  BY <1>0 DEF TypeOK, WorkerState
<1>6. /\ \A w \in Workers : worker'[w] = IF w = cur THEN k ELSE worker[w]
  BY <1>0, <1>4
<1> HIDE DEF k, r
<1>7. /\ Len(Append(worker[cur].inbox, r)) = Len(worker[cur].inbox) + 1
      /\ DOMAIN Append(worker[cur].inbox, r) = 1..(Len(worker[cur].inbox) + 1)
      /\ \A i \in 1..Len(worker[cur].inbox) : Append(worker[cur].inbox, r)[i] = worker[cur].inbox[i]
      /\ Append(worker[cur].inbox, r)[Len(worker[cur].inbox) + 1] = r
  BY <1>2, <1>3, AppendProperties, LenProperties
\* Every request is an earlier one, or the one posted.
<1>8. ASSUME NEW w \in Workers, NEW i \in DOMAIN worker'[w].inbox
      PROVE  \/ i \in DOMAIN worker[w].inbox /\ worker'[w].inbox[i] = worker[w].inbox[i]
             \/ /\ w = cur /\ i = Len(worker[cur].inbox) + 1 /\ worker'[w].inbox[i] = r
                /\ k.inbox = Append(worker[cur].inbox, r)
  <2>1. CASE w = cur /\ Live(cur)
    <3>1. worker'[w].inbox = Append(worker[cur].inbox, r)
      BY <1>5, <1>6, <2>1
    <3>2. i \in 1..Len(worker[cur].inbox) \/ i = Len(worker[cur].inbox) + 1
      BY <1>3, <1>7, <1>8, <3>1
    <3>3. QED
      BY <1>3, <1>5, <1>7, <2>1, <3>1, <3>2
  <2>2. CASE ~(w = cur /\ Live(cur))
    BY <1>5, <1>6, <1>8, <2>2
  <2>3. QED
    BY <2>1, <2>2
<1>9. \A w \in Workers : worker'[w].outbox = worker[w].outbox
  BY <1>5, <1>6
<1>10. \A w \in Workers : \A i \in DOMAIN worker[w].inbox : worker[w].inbox[i].id < nextId /\ worker[w].inbox[i].id \in Nat
  <2>1. ASSUME NEW w \in Workers, NEW i \in DOMAIN worker[w].inbox PROVE worker[w].inbox[i] \in Request
    BY LenProperties, ElementOfSeq DEF TypeOK, WorkerState
  <2>2. QED
    BY <2>1 DEF IdInv, Request
<1>11. \A w \in Workers : \A i \in DOMAIN worker[w].outbox : worker[w].outbox[i].id < nextId /\ worker[w].outbox[i].id \in Nat
  <2>1. ASSUME NEW w \in Workers, NEW i \in DOMAIN worker[w].outbox PROVE worker[w].outbox[i] \in Reply
    BY LenProperties, ElementOfSeq DEF TypeOK, WorkerState
  <2>2. QED
    BY <2>1 DEF IdInv, Reply
<1>12. IdInv'
  <2>1. ASSUME NEW w \in Workers, NEW i \in DOMAIN worker'[w].inbox PROVE worker'[w].inbox[i].id < nextId'
    BY <1>0, <1>2, <1>8, <1>10
  <2>2. ASSUME NEW w \in Workers, NEW i \in DOMAIN worker'[w].inbox, NEW j \in DOMAIN worker'[w].inbox, i < j
        PROVE  worker'[w].inbox[i].id < worker'[w].inbox[j].id
    <3>1. CASE w # cur
      BY <1>6, <2>2, <3>1 DEF IdInv
    <3>2. CASE w = cur
      <4>1. i \in Nat /\ j \in Nat
        BY <1>3, <1>8, <2>2, <3>2
      <4>2. j \in DOMAIN worker[w].inbox => i \in DOMAIN worker[w].inbox
        BY <1>3, <1>8, <2>2, <3>2, <4>1
      <4>3. CASE j \in DOMAIN worker[w].inbox
        <5>1. i # Len(worker[cur].inbox) + 1 /\ j # Len(worker[cur].inbox) + 1
          BY <1>3, <3>2, <4>2, <4>3
        <5>2. worker'[w].inbox[i] = worker[w].inbox[i] /\ worker'[w].inbox[j] = worker[w].inbox[j]
          BY <1>8, <5>1
        <5>3. QED
          BY <2>2, <4>2, <4>3, <5>2 DEF IdInv
      <4>4. CASE j \notin DOMAIN worker[w].inbox
        <5>1. j = Len(worker[cur].inbox) + 1 /\ worker'[w].inbox[j] = r
          BY <1>8, <4>4
        <5>2. i \in DOMAIN worker[w].inbox /\ worker'[w].inbox[i] = worker[w].inbox[i]
          BY <1>8, <2>2, <4>1, <5>1
        <5>3. QED
          BY <1>2, <1>10, <5>1, <5>2
      <4>5. QED
        BY <4>3, <4>4
    <3>3. QED
      BY <3>1, <3>2
  <2>3. ASSUME NEW w \in Workers, NEW i \in DOMAIN worker'[w].outbox PROVE worker'[w].outbox[i].id < nextId'
    BY <1>0, <1>9, <1>11
  <2>4. QED
    BY <2>1, <2>2, <2>3 DEF IdInv
<1>13. RequestInv(o)'
  <2>1. SUFFICES ASSUME NEW w \in Workers, NEW i \in DOMAIN worker'[w].inbox, worker'[w].inbox[i].id = op'[o].id
                 PROVE  /\ w = cur' /\ worker'[w].inbox[i].method = Posted(o)'
                        /\ Posted(o)' = "sync" => worker'[w].inbox[i].load = Store[o]
                        /\ Prepared(o)'
    BY DEF RequestInv
  <2>2. w = cur /\ worker'[w].inbox[i] = r /\ k.inbox = Append(worker[cur].inbox, r)
    BY <1>0, <1>1, <1>8, <1>10, <2>1
  <2>3. worker'[cur] = k
    BY <1>0, <1>6
  <2>4. m # "sync" => Len(k.inbox) = 1
    <3>1. m # "sync" => Len(worker[cur].inbox) = 0
      BY EmptySeq
    <3>2. QED
      BY <1>7, <2>2, <3>1
  <2>5. Prepared(o)'
    BY <1>5, <2>3, <2>4 DEF Prepared, Reads, Shows
  <2>6. QED
    BY <1>2, <2>2, <2>5
<1>14. ReplyInv(o)'
  BY <1>0, <1>1, <1>9, <1>11 DEF ReplyInv
<1>15. QED
  BY <1>0, <1>1, <1>12, <1>13, <1>14 DEF AwaitCallInv, AwaitReadyInv, ResumedInv

-----------------------------------------------------------------------------
(* The calls: a fresh Worker *)

\* The Worker that replaces another one has nothing to read and nothing to tell.
LEMMA ReinitMail ==
  ASSUME TypeOK, NEW o \in Op, NEW was, NEW phase, Reinit(o, was, phase)
  PROVE  /\ cur' = cur + 1 /\ worker'[cur'].inbox = <<>>
         /\ \A w \in Workers : SameMail(w) \/ (worker'[w].inbox = <<>> /\ worker'[w].outbox = <<>>)
<1>1. cur \in 1..MaxWorkers /\ cur' = cur + 1 /\ cur' \in 1..MaxWorkers /\ MaxWorkers \in Nat
  BY RolesAssumption DEF TypeOK, Reinit, Workers
<1> DEFINE k == [worker[cur] EXCEPT !.phase = Stopped(cur)]
<1>2. worker' = [worker EXCEPT ![cur] = k, ![cur + 1] = Fresh] /\ worker \in [Workers -> WorkerState]
  BY DEF Reinit, TypeOK
<1>3. k.inbox = worker[cur].inbox /\ k.outbox = worker[cur].outbox
  BY <1>1 DEF TypeOK, WorkerState, Workers
<1>4. Fresh.inbox = <<>> /\ Fresh.outbox = <<>>
  BY DEF Fresh, Absent
<1> HIDE DEF k
<1>5. \A w \in Workers : worker'[w] = IF w = cur + 1 THEN Fresh ELSE IF w = cur THEN k ELSE worker[w]
  BY <1>1, <1>2 DEF Workers
<1>6. QED
  BY <1>1, <1>3, <1>4, <1>5 DEF SameMail, Workers

LEMMA ReinitCall ==
  ASSUME TypeOK, IdInv, NEW o \in Op, NEW was \in OpState, NEW phase \in {"recycle", "recover"},
         Reinit(o, was, phase), nextId' = nextId
  PROVE  IdInv' /\ AwaitCallInv(o)' /\ AwaitReadyInv(o)' /\ ResumedInv(o)'
<1>1. op'[o].st = "awaitReady" /\ op'[o].phase = phase /\ op'[o].on = cur + 1
  BY ReinitOp
<1>2. /\ cur' = cur + 1 /\ worker'[cur'].inbox = <<>>
      /\ \A w \in Workers : SameMail(w) \/ (worker'[w].inbox = <<>> /\ worker'[w].outbox = <<>>)
  BY ReinitMail
<1>3. IdInv'
  <2>1. ASSUME NEW w \in Workers
        PROVE  /\ \A i \in DOMAIN worker'[w].inbox : worker'[w].inbox[i].id < nextId
               /\ \A i, j \in DOMAIN worker'[w].inbox : i < j => worker'[w].inbox[i].id < worker'[w].inbox[j].id
               /\ \A i \in DOMAIN worker'[w].outbox : worker'[w].outbox[i].id < nextId
    <3>1. CASE SameMail(w)
      BY <3>1 DEF SameMail, IdInv
    <3>2. CASE worker'[w].inbox = <<>> /\ worker'[w].outbox = <<>>
      <4>1. DOMAIN worker'[w].inbox = {} /\ DOMAIN worker'[w].outbox = {}
        BY <3>2
      <4>2. QED
        BY <4>1
    <3>3. QED
      BY <1>2, <3>1, <3>2
  <2>2. QED
    BY <2>1 DEF IdInv
<1>4. QED
  BY <1>1, <1>2, <1>3 DEF AwaitCallInv, AwaitReadyInv, ResumedInv

-----------------------------------------------------------------------------
(* The calls: a Worker answers one *)

\* What a Worker that answers r with success, k being its kernel then, has done.
Serves(w, r, k, reply) ==
  /\ k.content = IF r.method = "sync" THEN r.load ELSE worker[w].content
  /\ r.method \in Verbs => k.shown = IF r.method = "realization" THEN "real" ELSE "class"
  /\ r.method = "consistency" =>
       k.shown = "class" /\ reply.result = [content |-> k.content, of |-> "verdict"]
  /\ r.method = "get" =>
       k.shown = worker[w].shown /\ reply.result = [content |-> k.content, of |-> k.shown]

\* Executed or not, a request is answered under its identifier.
LEMMA HandleAnswers ==
  ASSUME TypeOK, NEW w \in Workers, NEW i \in DOMAIN worker[w].inbox,
         Execute(w, i) \/ Misbehave(w, i) \/ Refuse(w, i)
  PROVE  \/ \A v \in Workers : SameKernel(v) /\ SameMail(v)
         \/ \E k \in WorkerState, reply \in Reply :
              /\ k.inbox = worker[w].inbox /\ k.outbox = worker[w].outbox
              /\ Answered(w, i, k, reply) /\ reply.id = worker[w].inbox[i].id
              /\ reply.out = "ok" => Serves(w, worker[w].inbox[i], k, reply)
              /\ \A v \in Workers : v # w => worker'[v] = worker[v]
<1> DEFINE k == worker[w]
           r == k.inbox[i]
<1>1. k \in WorkerState /\ r \in Request
  <2>1. k \in WorkerState
    BY DEF TypeOK
  <2>2. QED
    BY <2>1, LenProperties, ElementOfSeq DEF WorkerState
<1>2. NoResult \in Result /\ [content |-> k.content, of |-> k.shown] \in Result
      /\ [content |-> k.content, of |-> "verdict"] \in Result
  BY <1>1 DEF WorkerState, NoResult, Result, Content
<1>3. \A out \in Outcome, changed \in BOOLEAN, heap \in {"unsaid", "small", "big"}, result \in Result :
        /\ Answer(r, out, changed, heap, result) \in Reply
        /\ Answer(r, out, changed, heap, result).id = r.id
        /\ Answer(r, out, changed, heap, result).out = out
        /\ Answer(r, out, changed, heap, result).result = result
  BY <1>1 DEF Answer, Reply, Request
<1>4. worker \in [Workers -> WorkerState]
  BY DEF TypeOK
<1>5. k = worker[w] /\ r = worker[w].inbox[i]
  OBVIOUS
<1> HIDE DEF k, r
\* It is enough to name the kernel and the reply.
<1>6. ASSUME NEW k1 \in WorkerState, k1.inbox = k.inbox, k1.outbox = k.outbox,
             NEW reply \in Reply, Answered(w, i, k1, reply), reply.id = r.id,
             reply.out = "ok" => Serves(w, r, k1, reply)
      PROVE  \E kk \in WorkerState, rr \in Reply :
              /\ kk.inbox = worker[w].inbox /\ kk.outbox = worker[w].outbox
              /\ Answered(w, i, kk, rr) /\ rr.id = worker[w].inbox[i].id
              /\ rr.out = "ok" => Serves(w, worker[w].inbox[i], kk, rr)
              /\ \A v \in Workers : v # w => worker'[v] = worker[v]
  <2>1. \A v \in Workers : v # w => worker'[v] = worker[v]
    BY <1>4, <1>6 DEF Answered
  <2>2. QED
    BY <1>5, <1>6, <2>1
<1>7. Error(r) \in Reply /\ Stalled(r) \in Reply /\ Error(r).id = r.id /\ Stalled(r).id = r.id
      /\ Error(r).out # "ok" /\ Stalled(r).out # "ok"
  BY <1>2, <1>3 DEF Error, Stalled, Outcome
<1>8. CASE Execute(w, i)
  <2> DEFINE changed == r.load # k.content
  <2>1. changed \in BOOLEAN
    OBVIOUS
  <2>2. \/ /\ r.method = "sync"
           /\ Answered(w, i, IF changed THEN [k EXCEPT !.content = r.load, !.shown = "none"] ELSE k,
                       [Done(r) EXCEPT !.changed = changed])
        \/ /\ r.method \in Verbs
           /\ \E big \in BOOLEAN :
                Answered(w, i, [k EXCEPT !.shown = IF r.method = "realization" THEN "real" ELSE "class", !.big = big],
                         IF k.stalled THEN Stalled(r) ELSE [Done(r) EXCEPT !.heap = IF big THEN "big" ELSE "small"])
        \/ r.method = "consistency" /\ Answered(w, i, [k EXCEPT !.shown = "class"], Read(r, k.content, "verdict"))
        \/ r.method = "get" /\ Answered(w, i, k, Read(r, k.content, k.shown))
    <3>1. k.big \in BOOLEAN
      BY <1>1 DEF WorkerState
    <3>2. QED
      BY <1>8, <3>1 DEF Execute, k, r
  <2>3. ASSUME r.method = "sync",
               Answered(w, i, IF changed THEN [k EXCEPT !.content = r.load, !.shown = "none"] ELSE k,
                        [Done(r) EXCEPT !.changed = changed])
        PROVE  \E k1 \in WorkerState, reply \in Reply :
                 /\ k1.inbox = k.inbox /\ k1.outbox = k.outbox /\ Answered(w, i, k1, reply)
                 /\ reply.id = r.id /\ (reply.out = "ok" => Serves(w, r, k1, reply))
    <3> DEFINE k1 == IF changed THEN [k EXCEPT !.content = r.load, !.shown = "none"] ELSE k
    <3>1. k1 \in WorkerState /\ k1.inbox = k.inbox /\ k1.outbox = k.outbox /\ k1.content = r.load
      BY <1>1 DEF WorkerState, Request
    <3> HIDE DEF k1, changed
    <3>2. [Done(r) EXCEPT !.changed = changed] = Answer(r, "ok", changed, "unsaid", NoResult)
      BY DEF Done, Answer
    <3>3. Answer(r, "ok", changed, "unsaid", NoResult) \in Reply /\ Answer(r, "ok", changed, "unsaid", NoResult).id = r.id
      BY <1>2, <1>3, <2>1 DEF Outcome
    <3>4. Serves(w, r, k1, Answer(r, "ok", changed, "unsaid", NoResult))
      BY <2>3, <3>1 DEF Serves, Verbs
    <3>5. Answered(w, i, k1, Answer(r, "ok", changed, "unsaid", NoResult))
      BY <2>3, <3>2 DEF k1
    <3>6. QED
      BY <3>1, <3>3, <3>4, <3>5
  <2> HIDE DEF changed
  <2>4. ASSUME r.method \in Verbs, NEW big \in BOOLEAN,
               Answered(w, i, [k EXCEPT !.shown = IF r.method = "realization" THEN "real" ELSE "class", !.big = big],
                        IF k.stalled THEN Stalled(r) ELSE [Done(r) EXCEPT !.heap = IF big THEN "big" ELSE "small"])
        PROVE  \E k1 \in WorkerState, reply \in Reply :
                 /\ k1.inbox = k.inbox /\ k1.outbox = k.outbox /\ Answered(w, i, k1, reply)
                 /\ reply.id = r.id /\ (reply.out = "ok" => Serves(w, r, k1, reply))
    <3> DEFINE shown == IF r.method = "realization" THEN "real" ELSE "class"
               heap == IF big THEN "big" ELSE "small"
               k1 == [k EXCEPT !.shown = shown, !.big = big]
               reply == IF k.stalled THEN Stalled(r) ELSE [Done(r) EXCEPT !.heap = heap]
    <3>1. shown \in {"real", "class"} /\ heap \in {"big", "small"}
      OBVIOUS
    <3>2. Answered(w, i, k1, reply)
      BY <2>4
    <3>3. shown = IF r.method = "realization" THEN "real" ELSE "class"
      OBVIOUS
    <3> HIDE DEF shown, heap
    <3>4. k1 \in WorkerState /\ k1.inbox = k.inbox /\ k1.outbox = k.outbox /\ k1.content = k.content /\ k1.shown = shown
      BY <1>1, <3>1 DEF WorkerState
    <3> HIDE DEF k1
    <3>5. [Done(r) EXCEPT !.heap = heap] = Answer(r, "ok", FALSE, heap, NoResult)
      <4>1. ASSUME NEW b PROVE [Answer(r, "ok", b, "unsaid", NoResult) EXCEPT !.heap = heap]
                               = Answer(r, "ok", b, heap, NoResult)
        BY DEF Answer
      <4>2. QED
        BY <4>1 DEF Done
    <3>6. Answer(r, "ok", FALSE, heap, NoResult) \in Reply /\ Answer(r, "ok", FALSE, heap, NoResult).id = r.id
      <4>1. Answer(r, "ok", FALSE, heap, NoResult) \in Reply
        BY <1>2, <1>3, <3>1 DEF Outcome
      <4>2. Answer(r, "ok", FALSE, heap, NoResult).id = r.id
        BY DEF Answer
      <4>3. QED
        BY <4>1, <4>2, Zenon
    <3>7. reply \in Reply /\ reply.id = r.id
      BY <1>7, <3>5, <3>6
    <3> HIDE DEF reply
    <3>8. Serves(w, r, k1, reply)
      BY <1>5, <2>4, <3>3, <3>4 DEF Serves, Verbs
    <3>9. QED
      BY <3>2, <3>4, <3>7, <3>8
  <2>5. ASSUME r.method = "consistency", Answered(w, i, [k EXCEPT !.shown = "class"], Read(r, k.content, "verdict"))
        PROVE  \E k1 \in WorkerState, reply \in Reply :
                 /\ k1.inbox = k.inbox /\ k1.outbox = k.outbox /\ Answered(w, i, k1, reply)
                 /\ reply.id = r.id /\ (reply.out = "ok" => Serves(w, r, k1, reply))
    <3> DEFINE k1 == [k EXCEPT !.shown = "class"]
               reply == Read(r, k.content, "verdict")
    <3>1. k1 \in WorkerState /\ k1.inbox = k.inbox /\ k1.outbox = k.outbox /\ k1.content = k.content /\ k1.shown = "class"
      BY <1>1 DEF WorkerState
    <3>2. reply \in Reply /\ reply.id = r.id /\ reply.result = [content |-> k.content, of |-> "verdict"]
      <4>1. reply \in Reply
        BY <1>2, <1>3 DEF Read, Outcome
      <4>2. QED
        BY <4>1 DEF Read, Answer
    <3>3. Answered(w, i, k1, reply)
      BY <2>5
    <3> HIDE DEF k1, reply
    <3>4. Serves(w, r, k1, reply)
      BY <1>5, <2>5, <3>1, <3>2 DEF Serves, Verbs
    <3>5. QED
      BY <3>1, <3>2, <3>3, <3>4
  <2>6. ASSUME r.method = "get", Answered(w, i, k, Read(r, k.content, k.shown))
        PROVE  \E k1 \in WorkerState, reply \in Reply :
                 /\ k1.inbox = k.inbox /\ k1.outbox = k.outbox /\ Answered(w, i, k1, reply)
                 /\ reply.id = r.id /\ (reply.out = "ok" => Serves(w, r, k1, reply))
    <3> DEFINE reply == Read(r, k.content, k.shown)
    <3>1. reply \in Reply /\ reply.id = r.id /\ reply.result = [content |-> k.content, of |-> k.shown]
      <4>1. reply \in Reply
        BY <1>2, <1>3 DEF Read, Outcome
      <4>2. QED
        BY <4>1 DEF Read, Answer
    <3>2. Answered(w, i, k, reply)
      BY <2>6
    <3> HIDE DEF reply
    <3>3. Serves(w, r, k, reply)
      BY <1>5, <2>6, <3>1 DEF Serves, Verbs
    <3>4. QED
      BY <1>1, <3>1, <3>2, <3>3
  <2>7. \E k1 \in WorkerState, reply \in Reply :
           /\ k1.inbox = k.inbox /\ k1.outbox = k.outbox /\ Answered(w, i, k1, reply)
           /\ reply.id = r.id /\ (reply.out = "ok" => Serves(w, r, k1, reply))
    BY <2>2, <2>3, <2>4, <2>5, <2>6
  <2>8. QED
    BY <1>6, <2>7
<1>9. CASE Misbehave(w, i)
  <2> DEFINE lost == [k EXCEPT !.shown = IF r.method \in Verbs THEN "none" ELSE @]
             hung == [k EXCEPT !.phase = "hung"]
  <2>1. \/ Answered(w, i, lost, Error(r))
        \/ Answered(w, i, [lost EXCEPT !.stalled = TRUE], Stalled(r))
        \/ worker' = [worker EXCEPT ![w] = hung]
    BY <1>9 DEF Misbehave, k, r
  <2>2. /\ lost \in WorkerState /\ [lost EXCEPT !.stalled = TRUE] \in WorkerState
        /\ lost.inbox = k.inbox /\ lost.outbox = k.outbox
        /\ [lost EXCEPT !.stalled = TRUE].inbox = k.inbox /\ [lost EXCEPT !.stalled = TRUE].outbox = k.outbox
    BY <1>1 DEF WorkerState
  <2> HIDE DEF lost
  <2>3. hung.inbox = k.inbox /\ hung.outbox = k.outbox /\ hung.content = k.content /\ hung.shown = k.shown
    BY <1>1 DEF WorkerState
  <2> HIDE DEF hung
  <2>4. CASE worker' = [worker EXCEPT ![w] = hung]
    BY <1>4, <1>5, <2>3, <2>4 DEF SameKernel, SameMail
  <2>5. QED
    BY <1>6, <1>7, <2>1, <2>2, <2>4
<1>10. CASE Refuse(w, i)
  <2>1. Answered(w, i, k, Error(r))
    BY <1>10 DEF Refuse, k, r
  <2>2. QED
    BY <1>1, <1>6, <1>7, <2>1
<1>11. QED
  BY <1>8, <1>9, <1>10

\* What Worker w has answered leaves its inbox, and its reply is the last one.
LEMMA AnsweredMail ==
  ASSUME TypeOK, NEW w \in Workers, NEW i \in DOMAIN worker[w].inbox, NEW k \in WorkerState, NEW reply \in Reply,
         k.inbox = worker[w].inbox, k.outbox = worker[w].outbox, Answered(w, i, k, reply)
  PROVE  /\ worker'[w].content = k.content /\ worker'[w].shown = k.shown
         /\ Len(worker[w].inbox) \in Nat /\ i \in 1..Len(worker[w].inbox)
         /\ Len(worker'[w].inbox) = Len(worker[w].inbox) - 1
         /\ DOMAIN worker'[w].inbox = 1..(Len(worker[w].inbox) - 1)
         /\ Len(worker[w].inbox) = 1 => worker'[w].inbox = <<>>
         /\ \A j \in DOMAIN worker'[w].inbox :
              worker'[w].inbox[j] = IF j < i THEN worker[w].inbox[j] ELSE worker[w].inbox[j + 1]
         /\ \A j \in DOMAIN worker'[w].outbox :
              \/ worker'[w].outbox[j] = reply
              \/ j \in DOMAIN worker[w].outbox /\ worker'[w].outbox[j] = worker[w].outbox[j]
<1> DEFINE q == worker[w].inbox
           new == [k EXCEPT !.inbox = Without(@, i), !.outbox = Append(@, reply)]
<1>1. q \in Seq(Request) /\ k.outbox \in Seq(Reply) /\ Len(q) \in Nat /\ i \in 1..Len(q)
      /\ Len(k.outbox) \in Nat /\ DOMAIN k.outbox = 1..Len(k.outbox)
  BY LenProperties DEF TypeOK, WorkerState
<1>2. worker' = [worker EXCEPT ![w] = new] /\ worker \in [Workers -> WorkerState]
  BY DEF Answered, TypeOK
<1>3. /\ new.content = k.content /\ new.shown = k.shown
      /\ new.inbox = Without(q, i) /\ new.outbox = Append(k.outbox, reply)
  BY DEF WorkerState
<1> HIDE DEF new
<1>4. worker'[w] = new
  BY <1>2
<1>5. /\ Without(q, i) \in Seq(Request) /\ Len(Without(q, i)) = Len(q) - 1
      /\ \A j \in 1..(Len(q) - 1) : Without(q, i)[j] = IF j < i THEN q[j] ELSE q[j + 1]
  BY <1>1, WithoutTyped
<1>6. DOMAIN Without(q, i) = 1..(Len(q) - 1)
  BY <1>5, LenProperties
<1>7. Len(q) = 1 => Without(q, i) = <<>>
  BY <1>5, EmptySeq
<1>8. /\ DOMAIN Append(k.outbox, reply) = 1..(Len(k.outbox) + 1)
      /\ \A j \in 1..Len(k.outbox) : Append(k.outbox, reply)[j] = k.outbox[j]
      /\ Append(k.outbox, reply)[Len(k.outbox) + 1] = reply
  BY <1>1, AppendProperties, LenProperties
<1>9. \A j \in DOMAIN Append(k.outbox, reply) :
        \/ Append(k.outbox, reply)[j] = reply
        \/ j \in DOMAIN k.outbox /\ Append(k.outbox, reply)[j] = k.outbox[j]
  <2>1. ASSUME NEW j \in 1..(Len(k.outbox) + 1) PROVE j \in 1..Len(k.outbox) \/ j = Len(k.outbox) + 1
    BY <1>1
  <2>2. QED
    BY <1>1, <1>8, <2>1
<1>10. QED
  BY <1>1, <1>3, <1>4, <1>5, <1>6, <1>7, <1>9

\* Identifiers stay in order when one of them is answered.
LEMMA AnsweredIds ==
  ASSUME TypeOK, IdInv, nextId' = nextId,
         NEW w \in Workers, NEW i \in DOMAIN worker[w].inbox, NEW k \in WorkerState, NEW reply \in Reply,
         k.inbox = worker[w].inbox, k.outbox = worker[w].outbox, Answered(w, i, k, reply),
         reply.id = worker[w].inbox[i].id, \A v \in Workers : v # w => worker'[v] = worker[v]
  PROVE  IdInv'
<1>1. /\ Len(worker[w].inbox) \in Nat /\ i \in 1..Len(worker[w].inbox)
      /\ DOMAIN worker'[w].inbox = 1..(Len(worker[w].inbox) - 1)
      /\ \A j \in DOMAIN worker'[w].inbox :
           worker'[w].inbox[j] = IF j < i THEN worker[w].inbox[j] ELSE worker[w].inbox[j + 1]
      /\ \A j \in DOMAIN worker'[w].outbox :
           \/ worker'[w].outbox[j] = reply
           \/ j \in DOMAIN worker[w].outbox /\ worker'[w].outbox[j] = worker[w].outbox[j]
  BY AnsweredMail
<1>2. DOMAIN worker[w].inbox = 1..Len(worker[w].inbox)
  BY LenProperties DEF TypeOK, WorkerState
<1>3. \A j \in DOMAIN worker'[w].inbox : worker'[w].inbox[j].id < nextId
  <2>1. \A j \in DOMAIN worker'[w].inbox : j \in DOMAIN worker[w].inbox /\ j + 1 \in DOMAIN worker[w].inbox
    BY <1>1, <1>2
  <2>2. QED
    BY <1>1, <2>1 DEF IdInv
<1>4. ASSUME NEW j \in DOMAIN worker'[w].inbox, NEW l \in DOMAIN worker'[w].inbox, j < l
      PROVE  worker'[w].inbox[j].id < worker'[w].inbox[l].id
  <2> DEFINE a == IF j < i THEN j ELSE j + 1
             b == IF l < i THEN l ELSE l + 1
  <2>1. a \in DOMAIN worker[w].inbox /\ b \in DOMAIN worker[w].inbox /\ a < b
    BY <1>1, <1>2, <1>4
  <2>2. worker'[w].inbox[j] = worker[w].inbox[a] /\ worker'[w].inbox[l] = worker[w].inbox[b]
    BY <1>1
  <2> HIDE DEF a, b
  <2>3. QED
    BY <2>1, <2>2 DEF IdInv
<1>5. \A j \in DOMAIN worker'[w].outbox : worker'[w].outbox[j].id < nextId
  BY <1>1 DEF IdInv
<1>6. ASSUME NEW v \in Workers
      PROVE  /\ \A j \in DOMAIN worker'[v].inbox : worker'[v].inbox[j].id < nextId'
             /\ \A j, l \in DOMAIN worker'[v].inbox : j < l => worker'[v].inbox[j].id < worker'[v].inbox[l].id
             /\ \A j \in DOMAIN worker'[v].outbox : worker'[v].outbox[j].id < nextId'
  <2>1. CASE v = w
    BY <1>3, <1>4, <1>5, <2>1
  <2>2. CASE v # w
    BY <2>2 DEF IdInv
  <2>3. QED
    BY <2>1, <2>2
<1>7. QED
  BY <1>6 DEF IdInv

\* A Worker that answers leaves whoever runs with a call it can rely on.
LEMMA HandleCall ==
  ASSUME TypeOK, IdInv, NEW p \in Op, op[p].pc \in 1..3, Busy(p), CallInv(p),
         op' = op, nextId' = nextId, cur' = cur, SameMemory,
         NEW w \in Workers, NEW i \in DOMAIN worker[w].inbox, NEW k \in WorkerState, NEW reply \in Reply,
         Executable(w, i), k.inbox = worker[w].inbox, k.outbox = worker[w].outbox, Answered(w, i, k, reply),
         reply.id = worker[w].inbox[i].id,
         reply.out = "ok" => Serves(w, worker[w].inbox[i], k, reply),
         \A v \in Workers : v # w => worker'[v] = worker[v]
  PROVE  CallInv(p)'
<1> DEFINE r == worker[w].inbox[i]
           n == Len(worker[w].inbox)
<1>1. /\ worker'[w].content = k.content /\ worker'[w].shown = k.shown
      /\ n \in Nat /\ i \in 1..n /\ Len(worker'[w].inbox) = n - 1 /\ DOMAIN worker'[w].inbox = 1..(n - 1)
      /\ n = 1 => worker'[w].inbox = <<>>
      /\ \A j \in DOMAIN worker'[w].inbox :
           worker'[w].inbox[j] = IF j < i THEN worker[w].inbox[j] ELSE worker[w].inbox[j + 1]
      /\ \A j \in DOMAIN worker'[w].outbox :
           \/ worker'[w].outbox[j] = reply
           \/ j \in DOMAIN worker[w].outbox /\ worker'[w].outbox[j] = worker[w].outbox[j]
  BY AnsweredMail
<1>2. Posted(p)' = Posted(p) /\ Reads(p)' = Reads(p) /\ MemoryInv(p)' = MemoryInv(p)
  BY PostedKept DEF SameCall
<1>3. cur \in Workers /\ nextId \in Nat
  BY DEF TypeOK
<1>4. DOMAIN worker[w].inbox = 1..n
  BY LenProperties DEF TypeOK, WorkerState
<1>5. r \in Request
  BY <1>1, LenProperties, ElementOfSeq DEF TypeOK, WorkerState
<1>6. worker[cur].inbox = <<>> => w # cur
  <2>1. Len(<<>>) = 0
    BY EmptySeq
  <2>2. QED
    BY <1>1, <2>1
\* A request that stays was there before; if it is that of p, it is the newest.
<1>7. ASSUME NEW v \in Workers, NEW j \in DOMAIN worker'[v].inbox
      PROVE  /\ \E l \in DOMAIN worker[v].inbox : worker'[v].inbox[j] = worker[v].inbox[l]
             /\ v = w => n > 1
  <2>1. CASE v = w
    <3>1. j \in DOMAIN worker[w].inbox /\ j + 1 \in DOMAIN worker[w].inbox /\ n > 1
      BY <1>1, <1>4, <2>1
    <3>2. QED
      BY <1>1, <2>1, <3>1
  <2>2. CASE v # w
    BY <2>2
  <2>3. QED
    BY <2>1, <2>2
\* A Worker that was to be empty was left alone.
<1>8. worker[cur].inbox = <<>> => worker'[cur] = worker[cur]
  BY <1>3, <1>6
<1>9. Served(p) => Served(p)'
  BY <1>2, <1>8 DEF Served, Shows
<1>10. ASSUME op[p].st = "awaitCall" PROVE RequestInv(p)'
  <2>1. SUFFICES ASSUME NEW v \in Workers, NEW j \in DOMAIN worker'[v].inbox, worker'[v].inbox[j].id = op[p].id
                 PROVE  /\ v = cur /\ worker'[v].inbox[j].method = Posted(p)
                        /\ Posted(p) = "sync" => worker'[v].inbox[j].load = Store[p]
                        /\ Prepared(p)'
    BY <1>2 DEF RequestInv
  <2>2. PICK l \in DOMAIN worker[v].inbox : worker'[v].inbox[j] = worker[v].inbox[l]
    BY <1>7
  <2>3. /\ v = cur /\ worker[v].inbox[l].method = Posted(p)
        /\ Posted(p) = "sync" => worker[v].inbox[l].load = Store[p]
        /\ Prepared(p)
    BY <1>10, <2>1, <2>2 DEF CallInv, AwaitCallInv, RequestInv
  <2>4. Prepared(p)'
    <3>1. CASE v = w
      <4>1. Posted(p) = "sync"
        BY <1>1, <1>7, <2>3, <3>1 DEF Prepared
      <4>2. QED
        BY <1>2, <4>1 DEF Prepared, Reads
    <3>2. CASE v # w
      BY <1>2, <2>3, <3>2 DEF Prepared, Shows
    <3>3. QED
      BY <3>1, <3>2
  <2>5. QED
    BY <2>2, <2>3, <2>4
<1>11. ASSUME op[p].st = "awaitCall" PROVE ReplyInv(p)'
  <2>1. SUFFICES ASSUME NEW v \in Workers, NEW j \in DOMAIN worker'[v].outbox,
                        worker'[v].outbox[j].id = op[p].id, worker'[v].outbox[j].out = "ok"
                 PROVE  Served(p)' /\ (Reads(p) => worker'[v].outbox[j].result = Own(p))
    BY <1>2 DEF ReplyInv, Own
  <2>2. CASE j \in DOMAIN worker[v].outbox /\ worker'[v].outbox[j] = worker[v].outbox[j]
    <3>1. Served(p) /\ (Reads(p) => worker[v].outbox[j].result = Own(p))
      BY <1>11, <2>1, <2>2 DEF CallInv, AwaitCallInv, ReplyInv
    <3>2. QED
      BY <1>9, <2>2, <3>1
  <2>3. CASE v = w /\ worker'[v].outbox[j] = reply
    <3>1. r.id = op[p].id /\ reply.out = "ok" /\ Serves(w, r, k, reply)
      BY <2>1, <2>3
    <3>2. /\ w = cur /\ r.method = Posted(p) /\ (Posted(p) = "sync" => r.load = Store[p]) /\ Prepared(p)
          /\ op[p].id = nextId - 1
      BY <1>11, <3>1 DEF CallInv, AwaitCallInv, RequestInv
    <3>3. i = n
      <4>1. SUFFICES ASSUME i # n PROVE FALSE
        OBVIOUS
      <4>2. n \in DOMAIN worker[w].inbox /\ i < n
        BY <1>1, <1>4, <4>1
      <4>3. worker[w].inbox[i].id < worker[w].inbox[n].id /\ worker[w].inbox[n].id < nextId
        BY <4>2 DEF IdInv
      <4>4. worker[w].inbox[n] \in Request
        <5>1. worker[w].inbox \in Seq(Request)
          BY DEF TypeOK, WorkerState
        <5>2. QED
          BY <1>1, <4>2, <5>1, ElementOfSeq
      <4>5. QED
        BY <1>3, <3>1, <3>2, <4>3, <4>4 DEF Request
    <3>4. n = 1
      <4>1. CASE Posted(p) = "sync"
        BY <1>1, <3>2, <3>3, <4>1 DEF Executable, Blocking
      <4>2. CASE Posted(p) # "sync"
        BY <3>2, <4>2 DEF Prepared
      <4>3. QED
        BY <4>1, <4>2
    <3>5. worker'[cur].inbox = <<>> /\ worker'[cur].content = k.content /\ worker'[cur].shown = k.shown
      BY <1>1, <3>2, <3>4
    <3>6. k.content = Store[p]
      BY <3>1, <3>2 DEF Serves, Prepared
    <3>7. /\ Posted(p) \in {"sync", "classification", "realization", "consistency", "get"}
          /\ Posted(p) \in Verbs => Shows(p) = IF Posted(p) = "realization" THEN "real" ELSE "class"
          /\ Posted(p) = "consistency" => Shows(p) = "class" /\ Own(p).of = "verdict"
          /\ Posted(p) = "get" => Own(p).of = Shows(p)
      BY PostedKinds
    <3>8. Reads(p) => worker[w].shown = Shows(p)
      BY <3>2 DEF Prepared
    <3>9. Posted(p) # "sync" => k.shown = Shows(p)
      BY <3>1, <3>2, <3>7, <3>8 DEF Serves, Verbs, Reads
    <3>10. Served(p)'
      BY <1>2, <3>5, <3>6, <3>9 DEF Served, Shows
    <3>11. Own(p) = [content |-> Store[p], of |-> Own(p).of]
      <4> DEFINE of == CASE Kind[p] = "classify"         -> "class"
                         [] Kind[p] = "materialize"      -> "real"
                         [] Kind[p] = "checkConsistency" -> "verdict"
      <4>1. Own(p) = [content |-> Store[p], of |-> of]
        BY DEF Own
      <4> HIDE DEF of
      <4>2. QED
        BY <4>1
    <3>12. Reads(p) => reply.result = Own(p)
      <4>1. CASE Posted(p) = "consistency"
        BY <3>1, <3>2, <3>6, <3>7, <3>11, <4>1 DEF Serves
      <4>2. CASE Posted(p) = "get"
        BY <3>1, <3>2, <3>6, <3>7, <3>8, <3>11, <4>2 DEF Serves, Reads
      <4>3. QED
        BY <4>1, <4>2 DEF Reads
    <3>13. QED
      BY <2>3, <3>10, <3>12
  <2>4. QED
    BY <1>1, <2>2, <2>3
<1>12. AwaitCallInv(p)'
  BY <1>10, <1>11 DEF CallInv, AwaitCallInv
<1>13. AwaitReadyInv(p)'
  BY <1>8 DEF CallInv, AwaitReadyInv
<1>14. ResumedInv(p)'
  BY <1>2, <1>8, <1>9 DEF CallInv, ResumedInv, Own
<1>15. QED
  BY <1>2, <1>12, <1>13, <1>14 DEF CallInv

-----------------------------------------------------------------------------
(* Every step keeps the invariant *)

\* Whoever runs or starts to run does so alone.
LEMMA ActsAlone ==
  ASSUME TypeOK, QueueInv, NEW o \in Op, Busy(o) \/ (op[o].st = "queued" /\ FreeToStart(o)),
         NEW p \in Op, p # o
  PROVE  ~Busy(p)
<1>1. CASE Busy(o)
  BY <1>1, OneBusy
<1>2. CASE op[o].st = "queued" /\ FreeToStart(o)
  <2>1. PICK j \in DOMAIN issued : issued[j] = o
    BY <1>2 DEF QueueInv
  <2>2. QED
    BY <1>2, <2>1, StartsAlone
<1>3. QED
  BY <1>1, <1>2

\* A step of o alone keeps what is said of the others.
LEMMA OthersKept ==
  ASSUME TypeOK, SafeInv, NEW o \in Op, Busy(o) \/ (op[o].st = "queued" /\ FreeToStart(o)),
         \A p \in Op : p # o => op'[p] = op[p], Begun(o)', op[o].st = "queued" => Busy(o)',
         issued' = issued, scenario' = scenario, tail' = tail \/ (scenario.patient /\ tail' = NoOp),
         Busy(o)' => CallInv(o)',
         Busy(o)' /\ op'[o].phase \in {"recycle", "recycled"} => scenario.recycling,
         op'[o].st = "done" => op'[o].result = Own(o), IdInv'
  PROVE  SafeInv'
<1>0. \A p \in Op : p # o => ~Busy(p) /\ ~Busy(p)'
  BY ActsAlone DEF SafeInv, Busy
<1>1. QueueInv'
  <2>1. \A p \in Op : \/ op'[p].st = op[p].st /\ op'[p].prev = op[p].prev
                      \/ Busy(p) /\ Begun(p)'
                      \/ op[p].st = "queued" /\ FreeToStart(p) /\ Busy(p)'
    BY DEF Busy
  <2>2. QED
    BY <2>1, QueueKept DEF SafeInv
<1>2. RecycleInv'
  BY <1>0 DEF RecycleInv
<1>3. BusyInv'
  BY <1>0 DEF BusyInv
<1>4. OwnResults'
  <2>1. \A p \in Op : op'[p].st = "done" => op'[p].result = Own(p)
    BY DEF SafeInv, OwnResults
  <2>2. QED
    BY <2>1 DEF OwnResults, Own
<1>5. QED
  BY <1>1, <1>2, <1>3, <1>4 DEF SafeInv

\* A step of o that posts a call.
LEMMA PostStep ==
  ASSUME TypeInv, SafeInv, NEW o \in Op, Busy(o) \/ (op[o].st = "queued" /\ FreeToStart(o)),
         NEW was \in OpState, NEW m \in Methods, NEW load \in Content,
         NEW phase \in {"call", "recycled", "replaySync", "replay", "retry"},
         Post(o, was, m, load, phase), cur' = cur, issued' = issued, scenario' = scenario,
         tail' = tail \/ (scenario.patient /\ tail' = NoOp),
         phase = "recycled" => scenario.recycling,
         Posted(o)' = m, MemoryInv(o)',
         m = "sync" => load = Store[o],
         m # "sync" => worker[cur].inbox = <<>> /\ worker[cur].content = Store[o],
         m \in {"get", "consistency"} => worker[cur].shown = Shows(o)
  PROVE  SafeInv'
<1>0. TypeOK /\ IdInv
  BY DEF TypeInv, SafeInv
<1>1. IdInv' /\ AwaitCallInv(o)' /\ AwaitReadyInv(o)' /\ ResumedInv(o)'
  BY <1>0, PostCall
<1>2. op'[o].st = "awaitCall" /\ op'[o].phase = phase /\ \A p \in Op : p # o => op'[p] = op[p]
  BY <1>0, PostOp
<1>3. CallInv(o)'
  BY <1>1 DEF CallInv
<1>4. Busy(o)' /\ Begun(o)' /\ op'[o].st # "done"
  BY <1>2 DEF Busy, Begun
<1>5. phase \in {"recycle", "recycled"} => scenario.recycling
  OBVIOUS
<1>6. QED
  BY <1>0, <1>1, <1>2, <1>3, <1>4, <1>5, OthersKept

\* A step of o that replaces the Worker.
LEMMA ReinitStep ==
  ASSUME TypeInv, SafeInv, NEW o \in Op, Busy(o), NEW was \in OpState, NEW phase \in {"recycle", "recover"},
         Reinit(o, was, phase), UNCHANGED <<tail, issued, nextId, scenario>>,
         MemoryInv(o)', phase = "recycle" => scenario.recycling
  PROVE  SafeInv'
<1>0. TypeOK /\ IdInv /\ QueueInv
  BY DEF TypeInv, SafeInv
<1>1. IdInv' /\ AwaitCallInv(o)' /\ AwaitReadyInv(o)' /\ ResumedInv(o)'
  BY <1>0, ReinitCall
<1>2. op'[o].st = "awaitReady" /\ op'[o].phase = phase /\ \A p \in Op : p # o => op'[p] = Rejected(p)
  BY <1>0, ReinitOp
<1>3. \A p \in Op : p # o => op'[p] = op[p]
  BY <1>0, <1>2, ActsAlone, RejectedOp DEF Busy
<1>4. CallInv(o)'
  BY <1>1 DEF CallInv
<1>5. Busy(o)' /\ Begun(o)' /\ op'[o].st # "done" /\ op[o].st # "queued"
  BY <1>2 DEF Busy, Begun
<1>6. QED
  BY <1>0, <1>1, <1>2, <1>3, <1>4, <1>5, OthersKept

\* A step that at most ends calls without success.
LEMMA PassiveStep ==
  ASSUME TypeInv, SafeInv, UNCHANGED <<issued, tail, scenario, nextId, cur>>, SameMemory,
         \A w \in Workers : SameKernel(w) /\ SameMail(w),
         \A p \in Op : \/ op'[p] = op[p]
                       \/ Busy(p) /\ SameCall(p) /\ op'[p].st = "resumed" /\ op'[p].out # "ok"
                       \/ Busy(p) /\ op'[p].st = "failed"
  PROVE  SafeInv'
<1>0. TypeOK /\ IdInv /\ QueueInv /\ BusyInv
  BY DEF TypeInv, SafeInv
<1>1. QueueInv'
  <2>1. \A p \in Op : \/ op'[p].st = op[p].st /\ op'[p].prev = op[p].prev
                      \/ Busy(p) /\ Begun(p)'
                      \/ op[p].st = "queued" /\ FreeToStart(p) /\ Busy(p)'
    BY DEF Busy, Begun, Settled
  <2>2. QED
    BY <1>0, <2>1, QueueKept
<1>2. IdInv'
  BY <1>0, IdKept
<1>3. RecycleInv'
  BY DEF SafeInv, RecycleInv, Busy, SameCall
<1>4. BusyInv'
  <2>1. ASSUME NEW p \in Op, Busy(p)' PROVE CallInv(p)'
    <3>1. CASE op'[p] = op[p]
      <4>1. CallInv(p)
        BY <1>0, <2>1, <3>1 DEF BusyInv, Busy
      <4>2. QED
        BY <1>0, <3>1, <4>1, CallKept
    <3>2. CASE Busy(p) /\ SameCall(p) /\ op'[p].st = "resumed" /\ op'[p].out # "ok"
      BY <1>0, <3>2, NotReturned DEF BusyInv
    <3>3. CASE op'[p].st = "failed"
      BY <2>1, <3>3 DEF Busy
    <3>4. QED
      BY <3>1, <3>2, <3>3
  <2>2. QED
    BY <2>1 DEF BusyInv
<1>5. OwnResults'
  <2>1. \A p \in Op : op'[p].st = "done" => op'[p].result = Own(p)
    BY DEF SafeInv, OwnResults
  <2>2. QED
    BY <2>1 DEF OwnResults, Own
<1>6. QED
  BY <1>1, <1>2, <1>3, <1>4, <1>5 DEF SafeInv

\* A reply, and the init message of a Worker, find whoever waits for them.
LEMMA DeliverOp ==
  ASSUME TypeOK, NEW w \in Workers, Deliver(w), NEW p \in Op
  PROVE  LET r == Head(worker[w].outbox)
         IN \/ op'[p] = op[p]
            \/ /\ op[p].st = "awaitCall" /\ op[p].id = r.id
               /\ op'[p].st = "resumed" /\ op'[p].out = r.out /\ op'[p].result = r.result
               /\ SameCall(p)
<1> DEFINE r == Head(worker[w].outbox)
           new == [op[p] EXCEPT !.st = "resumed", !.out = r.out, !.changed = r.changed, !.result = r.result]
<1>1. op'[p] = IF Answers(r, p) THEN new ELSE op[p]
  BY DEF Deliver
<1>2. op[p] \in OpState
  BY DEF TypeOK
<1> HIDE DEF r
<1>3. /\ new.st = "resumed" /\ new.out = r.out /\ new.result = r.result
      /\ new.pc = op[p].pc /\ new.phase = op[p].phase /\ new.saved = op[p].saved /\ new.todo = op[p].todo
  BY <1>2 DEF OpState
<1> HIDE DEF new
<1>4. \/ op'[p] = op[p]
      \/ /\ op[p].st = "awaitCall" /\ op[p].id = r.id
         /\ op'[p].st = "resumed" /\ op'[p].out = r.out /\ op'[p].result = r.result
         /\ SameCall(p)
  BY <1>1, <1>3 DEF Answers, SameCall
<1>5. QED
  BY <1>4 DEF r

LEMMA DeliverInitOp ==
  ASSUME TypeOK, NEW w \in Workers, DeliverInit(w), NEW p \in Op
  PROVE  \/ op'[p] = op[p]
         \/ op[p].st = "awaitReady" /\ op'[p].st = "resumed" /\ SameCall(p)
<1> DEFINE out == IF worker[w].told = "ready" THEN "ok" ELSE "error"
           new == [op[p] EXCEPT !.st = "resumed", !.out = out]
<1>1. op'[p] = IF op[p].st = "awaitReady" /\ op[p].on = w THEN new ELSE op[p]
  BY DEF DeliverInit
<1> HIDE DEF out
<1>2. /\ new.st = "resumed"
      /\ new.pc = op[p].pc /\ new.phase = op[p].phase /\ new.saved = op[p].saved /\ new.todo = op[p].todo
  BY DEF OpState, TypeOK
<1> HIDE DEF new
<1>3. QED
  BY <1>1, <1>2 DEF SameCall

LEMMA DeliverStep ==
  ASSUME TypeInv, SafeInv, NEW w \in Workers, Deliver(w)
  PROVE  SafeInv'
<1>0. TypeOK /\ IdInv /\ QueueInv /\ BusyInv
  BY DEF TypeInv, SafeInv
<1>1. UNCHANGED <<tail, issued, nextId, cur, lastLoad, stateCalls, scenario>>
  BY DEF Deliver
<1> DEFINE r == Head(worker[w].outbox)
<1>2. worker[w].outbox \in Seq(Reply) /\ worker[w].outbox # <<>> /\ worker \in [Workers -> WorkerState]
  BY <1>0 DEF Deliver, TypeOK, WorkerState
<1>3. /\ worker' = [worker EXCEPT ![w] = [worker[w] EXCEPT !.outbox = Tail(worker[w].outbox)]]
  BY <1>2 DEF Deliver
<1> DEFINE k == [worker[w] EXCEPT !.outbox = Tail(worker[w].outbox)]
<1>4. /\ k.outbox = Tail(worker[w].outbox) /\ k.inbox = worker[w].inbox
      /\ k.content = worker[w].content /\ k.shown = worker[w].shown
  BY <1>2 DEF WorkerState
<1> HIDE DEF k
<1>5. \A v \in Workers : /\ SameKernel(v) /\ worker'[v].inbox = worker[v].inbox
                         /\ worker'[v].outbox = IF v = w THEN Tail(worker[v].outbox) ELSE worker[v].outbox
  BY <1>2, <1>3, <1>4 DEF SameKernel, k
<1>6. /\ 1 \in DOMAIN worker[w].outbox /\ r = worker[w].outbox[1] /\ r \in Reply
      /\ \A j \in DOMAIN Tail(worker[w].outbox) :
           j + 1 \in DOMAIN worker[w].outbox /\ Tail(worker[w].outbox)[j] = worker[w].outbox[j + 1]
  <2>1. /\ Len(worker[w].outbox) \in Nat /\ DOMAIN worker[w].outbox = 1..Len(worker[w].outbox)
        /\ Len(worker[w].outbox) # 0
    BY <1>2, LenProperties, EmptySeq
  <2>2. /\ Head(worker[w].outbox) \in Reply /\ Tail(worker[w].outbox) \in Seq(Reply)
        /\ Len(Tail(worker[w].outbox)) = Len(worker[w].outbox) - 1
        /\ \A j \in 1..Len(Tail(worker[w].outbox)) : Tail(worker[w].outbox)[j] = worker[w].outbox[j + 1]
    BY <1>2, HeadTailProperties
  <2>3. DOMAIN Tail(worker[w].outbox) = 1..Len(Tail(worker[w].outbox))
    BY <2>2, LenProperties
  <2>4. Head(worker[w].outbox) = worker[w].outbox[1]
    BY <1>2
  <2>5. \A j \in 1..(Len(worker[w].outbox) - 1) : j + 1 \in 1..Len(worker[w].outbox)
    BY <2>1
  <2>6. 1 \in 1..Len(worker[w].outbox)
    BY <2>1
  <2>7. QED
    BY <2>1, <2>2, <2>3, <2>4, <2>5, <2>6
<1>7. \A v \in Workers : \A j \in DOMAIN worker'[v].outbox :
        \E l \in DOMAIN worker[v].outbox : worker'[v].outbox[j] = worker[v].outbox[l]
  <2>1. ASSUME NEW v \in Workers, NEW j \in DOMAIN worker'[v].outbox
        PROVE  \E l \in DOMAIN worker[v].outbox : worker'[v].outbox[j] = worker[v].outbox[l]
    <3>1. CASE v = w
      <4>1. worker'[v].outbox = Tail(worker[w].outbox)
        BY <1>5, <3>1
      <4>2. QED
        BY <1>6, <3>1, <4>1
    <3>2. CASE v # w
      <4>1. worker'[v].outbox = worker[v].outbox
        BY <1>5, <3>2
      <4>2. QED
        BY <4>1
    <3>3. QED
      BY <3>1, <3>2
  <2>2. QED
    BY <2>1
<1>9. \A p \in Op : \/ op'[p] = op[p]
                    \/ /\ op[p].st = "awaitCall" /\ op[p].id = r.id
                       /\ op'[p].st = "resumed" /\ op'[p].out = r.out /\ op'[p].result = r.result
                       /\ SameCall(p)
  BY <1>0, DeliverOp
<1>10. QueueInv'
  <2>1. \A p \in Op : \/ op'[p].st = op[p].st /\ op'[p].prev = op[p].prev
                      \/ Busy(p) /\ Begun(p)'
                      \/ op[p].st = "queued" /\ FreeToStart(p) /\ Busy(p)'
    BY <1>9 DEF Busy, Begun
  <2>2. QED
    BY <1>0, <1>1, <2>1, QueueKept
<1>11. IdInv'
  BY <1>0, <1>1, <1>5, <1>7 DEF IdInv
<1>12. RecycleInv'
  BY <1>1, <1>9 DEF SafeInv, RecycleInv, Busy, SameCall
<1>13. OwnResults'
  <2>1. \A p \in Op : op'[p].st = "done" => op'[p].result = Own(p)
    BY <1>9 DEF SafeInv, OwnResults
  <2>2. QED
    BY <2>1 DEF OwnResults, Own
<1>14. ASSUME NEW p \in Op, Busy(p)' PROVE CallInv(p)'
  <2>0. cur \in Workers /\ SameMemory
    BY <1>0, <1>1 DEF TypeOK, SameMemory
  <2>1. Busy(p) /\ CallInv(p) /\ SameCall(p)
    BY <1>0, <1>9, <1>14 DEF BusyInv, Busy, SameCall
  <2>2. Posted(p)' = Posted(p) /\ Reads(p)' = Reads(p) /\ MemoryInv(p)' = MemoryInv(p)
    BY <2>0, <2>1, PostedKept
  <2>3. Prepared(p)' = Prepared(p) /\ Served(p)' = Served(p)
    BY <1>1, <1>5, <2>0, <2>2 DEF Prepared, Served, SameKernel, Shows
  <2>4. CASE op'[p] = op[p]
    <3>1. RequestInv(p) => RequestInv(p)'
      BY <1>1, <1>5, <2>2, <2>3, <2>4 DEF RequestInv
    <3>2. ReplyInv(p) => ReplyInv(p)'
      <4>1. SUFFICES ASSUME ReplyInv(p), NEW v \in Workers, NEW j \in DOMAIN worker'[v].outbox,
                            worker'[v].outbox[j].id = op[p].id, worker'[v].outbox[j].out = "ok"
                     PROVE  Served(p) /\ (Reads(p) => worker'[v].outbox[j].result = Own(p))
        BY <2>2, <2>3, <2>4 DEF ReplyInv, Own
      <4>2. PICK l \in DOMAIN worker[v].outbox : worker'[v].outbox[j] = worker[v].outbox[l]
        BY <1>7
      <4>3. QED
        BY <4>1, <4>2 DEF ReplyInv
    <3>3. AwaitCallInv(p)'
      BY <1>1, <2>1, <2>4, <3>1, <3>2 DEF CallInv, AwaitCallInv
    <3>4. AwaitReadyInv(p)'
      BY <1>1, <1>5, <2>0, <2>1, <2>4 DEF CallInv, AwaitReadyInv
    <3>5. ResumedInv(p)'
      BY <1>1, <1>5, <2>0, <2>1, <2>2, <2>3, <2>4 DEF CallInv, ResumedInv, Own
    <3>6. QED
      BY <2>1, <2>2, <3>3, <3>4, <3>5 DEF CallInv
  <2>5. CASE /\ op[p].st = "awaitCall" /\ op[p].id = r.id
             /\ op'[p].st = "resumed" /\ op'[p].out = r.out /\ op'[p].result = r.result
    <3>1. op'[p].out = "ok" => Served(p) /\ (Reads(p) => op'[p].result = Own(p))
      BY <1>6, <2>1, <2>5 DEF CallInv, AwaitCallInv, ReplyInv
    <3>2. worker'[cur].inbox = worker[cur].inbox
      BY <1>5, <2>0
    <3>3. ResumedInv(p)'
      BY <1>1, <2>2, <2>3, <3>1, <3>2 DEF ResumedInv, Served, Own
    <3>4. QED
      BY <2>1, <2>2, <2>5, <3>3 DEF CallInv, AwaitCallInv, AwaitReadyInv
  <2>6. QED
    BY <1>9, <2>4, <2>5
<1>15. QED
  BY <1>10, <1>11, <1>12, <1>13, <1>14 DEF SafeInv, BusyInv

LEMMA DeliverInitStep ==
  ASSUME TypeInv, SafeInv, NEW w \in Workers, DeliverInit(w)
  PROVE  SafeInv'
<1>0. TypeOK /\ IdInv /\ QueueInv /\ BusyInv
  BY DEF TypeInv, SafeInv
<1>1. UNCHANGED <<tail, issued, nextId, cur, lastLoad, stateCalls, scenario>>
  BY DEF DeliverInit, main
<1>2. \A v \in Workers : SameKernel(v) /\ SameMail(v)
  <2>1. worker' = [worker EXCEPT ![w] = [worker[w] EXCEPT !.told = ""]] /\ worker \in [Workers -> WorkerState]
    BY <1>0 DEF DeliverInit, TypeOK
  <2> DEFINE k == [worker[w] EXCEPT !.told = ""]
  <2>2. k.outbox = worker[w].outbox /\ k.inbox = worker[w].inbox /\ k.content = worker[w].content /\ k.shown = worker[w].shown
    BY <2>1 DEF WorkerState
  <2> HIDE DEF k
  <2>3. QED
    BY <2>1, <2>2 DEF SameKernel, SameMail, k
<1>3. \A p \in Op : \/ op'[p] = op[p]
                    \/ op[p].st = "awaitReady" /\ op'[p].st = "resumed" /\ SameCall(p)
  BY <1>0, DeliverInitOp
<1>4. QueueInv'
  <2>1. \A p \in Op : \/ op'[p].st = op[p].st /\ op'[p].prev = op[p].prev
                      \/ Busy(p) /\ Begun(p)'
                      \/ op[p].st = "queued" /\ FreeToStart(p) /\ Busy(p)'
    BY <1>3 DEF Busy, Begun
  <2>2. QED
    BY <1>0, <1>1, <2>1, QueueKept
<1>5. IdInv'
  BY <1>0, <1>1, <1>2, IdKept
<1>6. RecycleInv'
  BY <1>1, <1>3 DEF SafeInv, RecycleInv, Busy, SameCall
<1>7. OwnResults'
  <2>1. \A p \in Op : op'[p].st = "done" => op'[p].result = Own(p)
    BY <1>3 DEF SafeInv, OwnResults
  <2>2. QED
    BY <2>1 DEF OwnResults, Own
<1>8. ASSUME NEW p \in Op, Busy(p)' PROVE CallInv(p)'
  <2>0. cur \in Workers /\ SameMemory
    BY <1>0, <1>1 DEF TypeOK, SameMemory
  <2>1. Busy(p) /\ CallInv(p)
    BY <1>0, <1>3, <1>8 DEF BusyInv, Busy
  <2>2. CASE op'[p] = op[p]
    BY <1>0, <1>1, <1>2, <2>0, <2>1, <2>2, CallKept
  <2>3. CASE op[p].st = "awaitReady" /\ op'[p].st = "resumed" /\ SameCall(p)
    <3>1. MemoryInv(p)'
      BY <2>0, <2>1, <2>3, PostedKept DEF CallInv
    <3>2. op'[p].phase \in {"recycle", "recover"} /\ worker'[cur'].inbox = <<>>
      BY <1>1, <1>2, <2>0, <2>1, <2>3 DEF CallInv, AwaitReadyInv, SameCall, SameMail
    <3>3. QED
      BY <2>3, <3>1, <3>2 DEF CallInv, AwaitCallInv, AwaitReadyInv, ResumedInv
  <2>4. QED
    BY <1>3, <2>2, <2>3
<1>9. QED
  BY <1>4, <1>5, <1>6, <1>7, <1>8 DEF SafeInv, BusyInv

\* A Worker handles a request.
LEMMA HandleStep ==
  ASSUME TypeInv, SafeInv, NEW w \in Workers, HandleMessage(w)
  PROVE  SafeInv'
<1>0. TypeOK /\ IdInv /\ QueueInv /\ BusyInv
  BY DEF TypeInv, SafeInv
<1>1. op' = op /\ UNCHANGED <<tail, issued, nextId, cur, lastLoad, stateCalls, scenario>> /\ SameMemory
  BY DEF HandleMessage, main, SameMemory
<1>2. PICK i \in DOMAIN worker[w].inbox : Executable(w, i) /\ (Execute(w, i) \/ Misbehave(w, i) \/ Refuse(w, i))
  BY DEF HandleMessage
<1>3. CASE \A v \in Workers : SameKernel(v) /\ SameMail(v)
  BY <1>1, <1>3, PassiveStep
<1>4. ASSUME NEW k \in WorkerState, NEW reply \in Reply,
             k.inbox = worker[w].inbox, k.outbox = worker[w].outbox, Answered(w, i, k, reply),
             reply.id = worker[w].inbox[i].id,
             reply.out = "ok" => Serves(w, worker[w].inbox[i], k, reply),
             \A v \in Workers : v # w => worker'[v] = worker[v]
      PROVE  SafeInv'
  <2>1. QueueInv'
    BY <1>0, <1>1, QueueKept
  <2>2. IdInv'
    BY <1>0, <1>1, <1>4, AnsweredIds
  <2>3. RecycleInv' /\ OwnResults'
    BY <1>1 DEF SafeInv, RecycleInv, OwnResults, Busy, Own
  <2>4. ASSUME NEW p \in Op, Busy(p)' PROVE CallInv(p)'
    <3>1. Busy(p) /\ CallInv(p) /\ op[p].pc \in 1..3
      BY <1>0, <1>1, <2>4 DEF BusyInv, Busy, TypeInv, PcInv
    <3>2. QED
      BY <1>0, <1>1, <1>2, <1>4, <3>1, HandleCall
  <2>5. QED
    BY <2>1, <2>2, <2>3, <2>4 DEF SafeInv, BusyInv
<1>5. QED
  BY <1>0, <1>2, <1>3, <1>4, HandleAnswers

\* An operation is asked for.
LEMMA IssueStep ==
  ASSUME TypeInv, SafeInv, NEW o \in Op, Issue(o)
  PROVE  SafeInv'
<1>0. TypeOK /\ IdInv /\ QueueInv /\ BusyInv
  BY DEF TypeInv, SafeInv
<1> DEFINE n == Len(issued)
<1>1. issued \in Seq(Op) /\ n \in Nat /\ DOMAIN issued = 1..n /\ \A i \in 1..n : issued[i] \in Op
  BY <1>0, LenProperties, ElementOfSeq DEF TypeOK
<1>2. /\ issued' = Append(issued, o) /\ tail' = o /\ op[o].st = "idle"
      /\ UNCHANGED <<nextId, cur, lastLoad, stateCalls, worker, scenario>>
      /\ scenario.patient => \A p \in Op : op[p].st = "idle" \/ Settled(p)
  BY DEF Issue
<1>3. /\ op'[o].st = "queued" /\ op'[o].prev = tail
      /\ \A p \in Op : p # o => op'[p] = op[p]
  <2> DEFINE new == [op[o] EXCEPT !.st = "queued", !.prev = tail]
  <2>1. op' = [op EXCEPT ![o] = new] /\ op \in [Op -> OpState]
    BY <1>0 DEF Issue, TypeOK
  <2>2. new.st = "queued" /\ new.prev = tail
    BY <2>1 DEF OpState
  <2> HIDE DEF new
  <2>3. QED
    BY <2>1, <2>2
<1>4. /\ issued' \in Seq(Op) /\ Len(issued') = n + 1 /\ DOMAIN issued' = 1..(n + 1)
      /\ \A i \in 1..n : issued'[i] = issued[i]
      /\ issued'[n + 1] = o
  BY <1>1, <1>2, AppendProperties, LenProperties
<1>5. \A i \in 1..(n + 1) : i \in 1..n \/ i = n + 1
  BY <1>1
<1>6. \A i \in 1..n : issued[i] # o
  BY <1>0, <1>1, <1>2 DEF QueueInv
<1>7. \A i \in 1..n : op'[issued[i]] = op[issued[i]]
  BY <1>1, <1>3, <1>6
<1>8. QueueInv'
  <2>1. (\A i, j \in DOMAIN issued : issued[i] = issued[j] => i = j)'
    BY <1>0, <1>1, <1>4, <1>5, <1>6 DEF QueueInv
  <2>2. (\A p \in Op : op[p].st # "idle" <=> \E i \in DOMAIN issued : issued[i] = p)'
    <3>1. ASSUME NEW p \in Op PROVE op'[p].st # "idle" <=> \E i \in 1..(n + 1) : issued'[i] = p
      <4>1. CASE p = o
        <5>1. n + 1 \in 1..(n + 1)
          BY <1>1
        <5>2. QED
          BY <1>3, <1>4, <4>1, <5>1
      <4>2. CASE p # o
        <5>1. op'[p].st # "idle" <=> \E i \in 1..n : issued[i] = p
          BY <1>0, <1>1, <1>3, <4>2 DEF QueueInv
        <5>2. (\E i \in 1..(n + 1) : issued'[i] = p) <=> \E i \in 1..n : issued[i] = p
          <6>1. \A i \in 1..n : i \in 1..(n + 1)
            BY <1>1
          <6>2. QED
            BY <1>4, <1>5, <4>2, <6>1
        <5>3. QED
          BY <5>1, <5>2
      <4>3. QED
        BY <4>1, <4>2
    <3>2. QED
      BY <1>4, <3>1
  <2>3. (\A i, j \in DOMAIN issued : i < j /\ Begun(issued[j]) => Settled(issued[i]))'
    <3>1. ASSUME NEW i \in 1..(n + 1), NEW j \in 1..(n + 1), i < j, Begun(issued[j])'
          PROVE  Settled(issued[i])'
      <4>1. j \in 1..n
        <5>1. j # n + 1
          BY <1>3, <1>4, <3>1 DEF Begun, Busy, Settled
        <5>2. QED
          BY <1>5, <5>1
      <4>2. i \in 1..n
        BY <1>1, <3>1, <4>1
      <4>3. Begun(issued[j])
        BY <1>4, <1>7, <3>1, <4>1 DEF Begun, Busy, Settled
      <4>4. Settled(issued[i])
        BY <1>0, <1>1, <3>1, <4>1, <4>2, <4>3 DEF QueueInv
      <4>5. QED
        BY <1>4, <1>7, <4>2, <4>4 DEF Settled
    <3>2. QED
      BY <1>4, <3>1
  <2>4. (\A j \in DOMAIN issued : op[issued[j]].st = "queued" =>
          \/ j > 1 /\ op[issued[j]].prev = issued[j - 1]
          \/ \A i \in 1..(j - 1) : Settled(issued[i]))'
    <3>1. ASSUME NEW j \in 1..(n + 1), op'[issued'[j]].st = "queued"
          PROVE  \/ j > 1 /\ op'[issued'[j]].prev = issued'[j - 1]
                 \/ \A i \in 1..(j - 1) : op'[issued'[i]].st \in {"done", "failed"}
      <4>1. CASE j \in 1..n
        <5>1. \A i \in 1..(j - 1) : i \in 1..n
          BY <1>1, <4>1
        <5>2. j > 1 => j - 1 \in 1..n
          BY <1>1, <4>1
        <5>3. op[issued[j]].st = "queued" /\ op'[issued'[j]].prev = op[issued[j]].prev
          BY <1>4, <1>7, <3>1, <4>1
        <5>4. \/ j > 1 /\ op[issued[j]].prev = issued[j - 1]
              \/ \A i \in 1..(j - 1) : Settled(issued[i])
          BY <1>0, <1>1, <4>1, <5>3 DEF QueueInv
        <5>5. QED
          BY <1>4, <1>7, <5>1, <5>2, <5>3, <5>4 DEF Settled
      <4>2. CASE j = n + 1
        <5>1. CASE issued = <<>>
          <6>1. j = 1
            BY <4>2, <5>1, EmptySeq
          <6>2. \A i \in 1..(j - 1) : FALSE
            BY <6>1
          <6>3. QED
            BY <6>2
        <5>2. CASE issued # <<>> /\ tail = issued[n]
          <6>1. n # 0
            BY <1>1, <5>2, EmptySeq
          <6>2. n \in 1..n /\ j > 1 /\ j - 1 = n
            BY <1>1, <4>2, <6>1
          <6>3. QED
            BY <1>3, <1>4, <4>2, <5>2, <6>2
        <5>3. CASE scenario.patient
          <6>1. ASSUME NEW i \in 1..(j - 1) PROVE op'[issued'[i]].st \in {"done", "failed"}
            <7>1. i \in 1..n
              BY <1>1, <4>2
            <7>2. op[issued[i]].st # "idle"
              BY <1>0, <1>1, <7>1 DEF QueueInv
            <7>3. QED
              BY <1>1, <1>2, <1>4, <1>7, <5>3, <7>1, <7>2 DEF Settled
          <6>2. QED
            BY <6>1
        <5>4. QED
          BY <1>0, <5>1, <5>2, <5>3 DEF QueueInv
      <4>3. QED
        BY <1>5, <4>1, <4>2
    <3>2. QED
      BY <1>4, <3>1 DEF Settled
  <2>5. (issued # <<>> => tail = issued[Len(issued)] \/ (scenario.patient /\ tail = NoOp))'
    BY <1>2, <1>4
  <2>6. QED
    BY <2>1, <2>2, <2>3, <2>4, <2>5 DEF QueueInv
<1>9. IdInv'
  BY <1>0, <1>2, IdKept DEF SameMail
<1>10. ASSUME NEW p \in Op PROVE p # o => op'[p] = op[p]
  BY <1>3
<1>11. RecycleInv'
  BY <1>2, <1>3 DEF SafeInv, RecycleInv, Busy
<1>12. BusyInv'
  <2>1. ASSUME NEW p \in Op, Busy(p)' PROVE CallInv(p)'
    <3>1. op'[p] = op[p] /\ Busy(p)
      BY <1>3, <2>1 DEF Busy
    <3>2. CallInv(p)
      BY <1>0, <3>1 DEF BusyInv
    <3>3. QED
      BY <1>0, <1>2, <3>1, <3>2, CallKept DEF SameMemory, SameKernel, SameMail
  <2>2. QED
    BY <2>1 DEF BusyInv
<1>13. OwnResults'
  <2>1. \A p \in Op : op'[p].st = "done" => op'[p].result = Own(p)
    BY <1>3 DEF SafeInv, OwnResults
  <2>2. QED
    BY <2>1 DEF OwnResults, Own
<1>14. QED
  BY <1>8, <1>9, <1>11, <1>12, <1>13 DEF SafeInv

\* An operation begins with the sync of its own store.
LEMMA StartStep ==
  ASSUME TypeInv, SafeInv, NEW o \in Op, Start(o)
  PROVE  SafeInv'
<1>0. TypeOK /\ op[o] \in OpState
  BY DEF TypeInv, TypeOK
<1>1. UNCHANGED <<tail, issued, cur, scenario>> /\ op[o].st = "queued" /\ FreeToStart(o)
  BY DEF Start
<1> DEFINE was == [op[o] EXCEPT !.pc = 1]
<1>2. Post(o, was, "sync", Store[o], "call") /\ lastLoad' = Store[o] /\ stateCalls' = <<>>
  BY CallsOf DEF Start, BeginCall, IsLoad
<1>3. was \in OpState /\ was.pc = 1
  BY <1>0 DEF OpState
<1>4. "sync" \in Methods /\ Store[o] \in Content
  BY DEF Methods, Blocking, Content
<1> HIDE DEF was
<1>5. op'[o].pc = 1 /\ op'[o].phase = "call"
  BY <1>0, <1>2, <1>3, PostOp
<1>6. Posted(o)' = "sync"
  BY <1>5, CallsOf DEF Posted, MethodOf
<1>7. MemoryInv(o)'
  BY <1>2, <1>5 DEF MemoryInv
<1>8. QED
  BY <1>1, <1>2, <1>3, <1>4, <1>6, <1>7, PostStep

\* The sync after recycling loads what was loaded before.
LEMMA ReloadStep ==
  ASSUME TypeInv, SafeInv, Awaited, NEW o \in Op, Reload(o)
  PROVE  SafeInv'
<1>0. TypeOK /\ op[o] \in OpState
  BY DEF TypeInv, TypeOK
<1>1. /\ UNCHANGED <<issued, cur, scenario>> /\ tail' = NoOp /\ op[o].st = "resumed" /\ op[o].phase = "recycle"
      /\ lastLoad' = op[o].saved /\ stateCalls' = <<>> /\ Post(o, op[o], "sync", op[o].saved, "recycled")
  BY DEF Reload
<1>2. Busy(o) /\ MemoryInv(o)
  BY <1>1 DEF Busy, SafeInv, BusyInv, CallInv
<1>3. op[o].pc = 1 /\ op[o].saved = Store[o]
  BY <1>1, <1>2 DEF MemoryInv
<1>4. scenario.recycling /\ scenario.patient
  BY <1>1, <1>2 DEF SafeInv, RecycleInv, Awaited
<1>5. "sync" \in Methods /\ Store[o] \in Content
  BY DEF Methods, Blocking, Content
<1>6. op'[o].pc = 1 /\ op'[o].phase = "recycled"
  BY <1>0, <1>1, <1>3, PostOp
<1>7. Posted(o)' = "sync"
  BY <1>6 DEF Posted
<1>8. MemoryInv(o)'
  BY <1>1, <1>3, <1>6 DEF MemoryInv
<1>9. QED
  BY <1>0, <1>1, <1>2, <1>3, <1>4, <1>5, <1>7, <1>8, PostStep

\* A call returns: the next one is made, or the operation resolves.
LEMMA ReturnsStep ==
  ASSUME TypeInv, SafeInv, NEW o \in Op, CallReturns(o)
  PROVE  SafeInv'
<1>0. TypeOK /\ op[o] \in OpState /\ IdInv
  BY DEF TypeInv, TypeOK, SafeInv
<1>1. /\ UNCHANGED <<tail, issued, cur, lastLoad, scenario>>
      /\ op[o].st = "resumed" /\ op[o].out = "ok" /\ op[o].phase \in {"call", "recycled", "retry"}
      /\ stateCalls' = Remembered(MethodOf(o))
      /\ IF op[o].pc = Len(Calls[Kind[o]])
         THEN op' = [op EXCEPT ![o].st = "done"] /\ UNCHANGED <<nextId, worker>>
         ELSE Post(o, [op[o] EXCEPT !.pc = @ + 1], Calls[Kind[o]][op[o].pc + 1], NoContent, "call")
  BY DEF CallReturns, Return
<1>2. Busy(o) /\ CallInv(o)
  BY <1>1 DEF Busy, SafeInv, BusyInv
<1>3. op[o].pc \in 1..3
  BY <1>2 DEF TypeInv, PcInv
<1>4. MemoryInv(o) /\ Served(o) /\ (Reads(o) => op[o].result = Own(o)) /\ worker[cur].inbox = <<>>
  BY <1>1, <1>2 DEF CallInv, ResumedInv
<1>5. op[o].phase = "recycled" => op[o].pc = 1
  BY <1>4 DEF MemoryInv
<1>6. op[o].pc # 1 => Posted(o) = Calls[Kind[o]][op[o].pc]
  BY <1>1, <1>5 DEF Posted, MethodOf
<1>7. CASE op[o].pc = 3
  <2>1. op' = [op EXCEPT ![o].st = "done"] /\ UNCHANGED <<nextId, worker>>
    BY <1>1, <1>7, CallsOf
  <2> DEFINE new == [op[o] EXCEPT !.st = "done"]
  <2>2. new.st = "done" /\ new.result = op[o].result
    BY <1>0 DEF OpState
  <2>3. op' = [op EXCEPT ![o] = new] /\ op \in [Op -> OpState]
    BY <1>0, <2>1 DEF TypeOK
  <2> HIDE DEF new
  <2>4. op'[o].st = "done" /\ op'[o].result = op[o].result /\ \A p \in Op : p # o => op'[p] = op[p]
    BY <2>2, <2>3
  <2>5. Reads(o)
    BY <1>6, <1>7, CallsOf DEF Reads
  <2>6. IdInv'
    BY <1>0, <2>1, IdKept DEF SameMail
  <2>7. ~Busy(o)' /\ Begun(o)' /\ op[o].st # "queued"
    BY <1>1, <2>4 DEF Busy, Begun, Settled
  <2>8. QED
    BY <1>0, <1>1, <1>2, <1>4, <2>4, <2>5, <2>6, <2>7, OthersKept
<1>8. CASE op[o].pc # 3
  <2> DEFINE was == [op[o] EXCEPT !.pc = @ + 1]
             m == Calls[Kind[o]][op[o].pc + 1]
  <2>1. Post(o, was, m, NoContent, "call")
    BY <1>1, <1>8, CallsOf
  <2>2. was \in OpState /\ was.pc = op[o].pc + 1 /\ op[o].pc + 1 \in {2, 3} /\ op[o].pc + 1 \in 1..3
    BY <1>0, <1>3, <1>8 DEF OpState
  <2>3. m \in Methods /\ m # "sync" /\ NoContent \in Content
    BY <2>2, CallTyped, CallsOf DEF Content
  <2>4. m \in {"get", "consistency"} => op[o].pc = 2
    BY <1>3, <1>8, CallsOf
  <2> HIDE DEF was
  <2>5. op'[o].pc = op[o].pc + 1 /\ op'[o].phase = "call"
    BY <1>0, <2>1, <2>2, <2>3, PostOp
  <2>6. Posted(o)' = m
    BY <2>5 DEF Posted, MethodOf
  <2> HIDE DEF m
  <2>7. MemoryInv(o)'
    <3>1. lastLoad' = Store[o]
      BY <1>1, <1>4 DEF MemoryInv
    <3>2. stateCalls = <<>>
      BY <1>4, <1>8 DEF MemoryInv
    <3>3. CASE op[o].pc = 1
      <4>1. stateCalls' = <<>>
        BY <1>1, <3>2, <3>3, CallsOf DEF Remembered, MethodOf, IsLoad
      <4>2. QED
        BY <2>5, <3>1, <3>3, <4>1 DEF MemoryInv
    <3>4. CASE op[o].pc = 2
      <4>1. MethodOf(o) = VerbOf(o) /\ MethodOf(o) \in Blocking /\ MethodOf(o) # "sync"
        BY <3>4, CallsOf DEF MethodOf, VerbOf, Blocking
      <4>2. {stateCalls[i] : i \in DOMAIN stateCalls} = {}
        BY <3>2
      <4>3. stateCalls' = <<VerbOf(o)>>
        BY <1>1, <3>2, <4>1, <4>2 DEF Remembered, IsLoad
      <4>4. QED
        BY <2>5, <3>1, <3>4, <4>3 DEF MemoryInv, VerbOf
    <3>5. QED
      BY <1>3, <1>8, <3>3, <3>4
  <2>8. m \in {"get", "consistency"} => worker[cur].shown = Shows(o)
    <3>1. op[o].pc = 2 => Posted(o) # "sync"
      BY <1>6, CallsOf
    <3>2. QED
      BY <1>4, <2>4, <3>1 DEF Served
  <2>9. worker[cur].content = Store[o]
    BY <1>4 DEF Served
  <2>10. QED
    BY <1>1, <1>2, <1>4, <2>1, <2>2, <2>3, <2>6, <2>7, <2>8, <2>9, PostStep
<1>9. QED
  BY <1>7, <1>8

\* A step of a recovery: the content, the verb asked for since, the call that stalled.
LEMMA ReplayStep ==
  ASSUME TypeInv, SafeInv, NEW o \in Op, Replay(o)
  PROVE  SafeInv'
<1>0. TypeOK /\ op[o] \in OpState
  BY DEF TypeInv, TypeOK
<1> DEFINE m == MethodOf(o)
           todo == IF op[o].phase = "replaySync" THEN stateCalls ELSE op[o].todo
<1>1. /\ UNCHANGED <<tail, issued, cur, lastLoad, stateCalls, scenario>>
      /\ op[o].st = "resumed" /\ op[o].out = "ok" /\ op[o].phase \in {"recover", "replaySync", "replay"}
      /\ \/ op[o].phase = "recover" /\ ~IsLoad(m) /\ Post(o, op[o], "sync", lastLoad, "replaySync")
         \/ /\ op[o].phase # "recover" /\ todo # <<>>
            /\ Post(o, [op[o] EXCEPT !.todo = Tail(todo)], Head(todo), NoContent, "replay")
         \/ /\ IF op[o].phase = "recover" THEN IsLoad(m) ELSE todo = <<>>
            /\ Post(o, op[o], m, IF IsLoad(m) THEN lastLoad ELSE NoContent, "retry")
  BY DEF Replay
<1>2. Busy(o) /\ CallInv(o)
  BY <1>1 DEF Busy, SafeInv, BusyInv
<1>3. op[o].pc \in 1..3
  BY <1>2 DEF TypeInv, PcInv
<1>4. MemoryInv(o) /\ worker[cur].inbox = <<>> /\ (op[o].phase # "recover" => Served(o))
  BY <1>1, <1>2 DEF CallInv, ResumedInv
<1>5. lastLoad = Store[o] /\ Store[o] \in Content /\ NoContent \in Content
  BY <1>4 DEF MemoryInv, Content
<1>6. /\ m = Calls[Kind[o]][op[o].pc] /\ m \in Methods
      /\ (m = "sync") = (op[o].pc = 1) /\ (m \in {"get", "consistency"} => op[o].pc = 3)
  BY <1>3, CallsOf, CallTyped DEF MethodOf
<1>7. /\ op[o].phase = "replaySync" => todo = IF op[o].pc = 3 THEN <<VerbOf(o)>> ELSE <<>>
      /\ op[o].phase = "replaySync" => op[o].pc # 1
      /\ op[o].phase = "replay" => op[o].pc = 3 /\ todo = <<>>
  BY <1>4 DEF MemoryInv
<1>8. "sync" \in Methods /\ VerbOf(o) \in Methods /\ VerbOf(o) \in Verbs
  BY CallsOf DEF VerbOf, Methods, Blocking, Verbs
<1> HIDE DEF m, todo
\* What is remembered stays so.
<1>9. ASSUME op'[o].pc = op[o].pc, op'[o].phase \in {"replaySync", "replay", "retry"},
             op'[o].phase = "replaySync" => op[o].pc # 1,
             op'[o].phase = "replay" => op[o].pc = 3 /\ op'[o].todo = <<>>
      PROVE  MemoryInv(o)'
  BY <1>1, <1>4, <1>9 DEF MemoryInv, VerbOf
<1>10. CASE op[o].phase = "recover" /\ ~IsLoad(m) /\ Post(o, op[o], "sync", lastLoad, "replaySync")
  <2>1. op'[o].pc = op[o].pc /\ op'[o].phase = "replaySync" /\ op[o].pc # 1
    BY <1>0, <1>6, <1>10, PostOp DEF IsLoad
  <2>2. Posted(o)' = "sync" /\ MemoryInv(o)'
    BY <1>9, <2>1 DEF Posted
  <2>3. QED
    BY <1>0, <1>1, <1>2, <1>5, <1>8, <1>10, <2>2, PostStep
<1>11. CASE /\ op[o].phase # "recover" /\ todo # <<>>
            /\ Post(o, [op[o] EXCEPT !.todo = Tail(todo)], Head(todo), NoContent, "replay")
  <2> DEFINE was == [op[o] EXCEPT !.todo = Tail(todo)]
  <2>1. op[o].phase = "replaySync" /\ op[o].pc = 3 /\ todo = <<VerbOf(o)>>
    BY <1>1, <1>7, <1>11
  <2>2. Head(todo) = VerbOf(o) /\ Tail(todo) = <<>> /\ <<>> \in Seq(Blocking)
    BY <2>1, EmptySeq
  <2>3. was \in OpState /\ was.pc = op[o].pc /\ was.todo = <<>>
    BY <1>0, <2>2 DEF OpState
  <2>4. Post(o, was, VerbOf(o), NoContent, "replay")
    BY <1>11, <2>2
  <2> HIDE DEF was
  <2>5. op'[o].pc = 3 /\ op'[o].phase = "replay" /\ op'[o].todo = <<>>
    BY <1>0, <2>1, <2>3, <2>4, PostOp
  <2>6. Posted(o)' = VerbOf(o) /\ MemoryInv(o)'
    BY <1>9, <2>1, <2>5 DEF Posted, VerbOf
  <2>7. VerbOf(o) # "sync" /\ VerbOf(o) \notin {"get", "consistency"}
    BY <1>8 DEF Verbs
  <2>8. worker[cur].content = Store[o]
    BY <1>4, <1>11 DEF Served
  <2>9. QED
    BY <1>1, <1>2, <1>4, <1>5, <1>8, <2>3, <2>4, <2>6, <2>7, <2>8, PostStep
<1>12. CASE /\ IF op[o].phase = "recover" THEN IsLoad(m) ELSE todo = <<>>
            /\ Post(o, op[o], m, IF IsLoad(m) THEN lastLoad ELSE NoContent, "retry")
  <2> DEFINE load == IF IsLoad(m) THEN lastLoad ELSE NoContent
  <2>1. load \in Content /\ (m = "sync" => load = Store[o])
    BY <1>5 DEF IsLoad
  <2>2. Post(o, op[o], m, load, "retry")
    BY <1>12
  <2> HIDE DEF load
  <2>3. op'[o].pc = op[o].pc /\ op'[o].phase = "retry"
    BY <1>0, <1>6, <2>1, <2>2, PostOp
  <2>4. Posted(o)' = m /\ MemoryInv(o)'
    BY <1>6, <1>9, <2>3 DEF Posted, MethodOf
  <2>5. m # "sync" => op[o].phase # "recover"
    BY <1>12 DEF IsLoad
  <2>6. m # "sync" => worker[cur].inbox = <<>> /\ worker[cur].content = Store[o]
    BY <1>4, <2>5 DEF Served
  <2>7. m \in {"get", "consistency"} => worker[cur].shown = Shows(o)
    <3>1. SUFFICES ASSUME m \in {"get", "consistency"} PROVE worker[cur].shown = Shows(o)
      OBVIOUS
    <3>2. op[o].pc = 3 /\ op[o].phase = "replay"
      <4>1. op[o].phase = "replaySync" => todo = <<>> /\ op[o].pc = 3
        BY <1>6, <1>12, <3>1
      <4>2. <<VerbOf(o)>> # <<>>
        OBVIOUS
      <4>3. QED
        BY <1>1, <1>6, <1>7, <2>5, <3>1, <4>1, <4>2
    <3>3. Posted(o) # "sync"
      BY <1>8, <3>2 DEF Posted, Verbs
    <3>4. QED
      BY <1>4, <3>2, <3>3 DEF Served
  <2>8. QED
    BY <1>0, <1>1, <1>2, <1>6, <2>1, <2>2, <2>4, <2>6, <2>7, PostStep
<1>13. QED
  BY <1>1, <1>10, <1>11, <1>12

LEMMA SafeStep == TypeInv /\ SafeInv /\ Awaited /\ [Next]_vars => SafeInv'
<1> SUFFICES ASSUME TypeInv, SafeInv, Awaited, [Next]_vars PROVE SafeInv'
  OBVIOUS
<1>0. TypeOK /\ \A p \in Op : op[p] \in OpState
  BY DEF TypeInv, TypeOK
<1>1. ASSUME NEW o \in Op, Recycle(o) PROVE SafeInv'
  <2> DEFINE was == [op[o] EXCEPT !.saved = lastLoad]
  <2>1. /\ UNCHANGED <<tail, issued, nextId, lastLoad, stateCalls, scenario>>
        /\ op[o].st = "resumed" /\ scenario.recycling /\ IsLoad(MethodOf(o)) /\ Reinit(o, was, "recycle")
    BY <1>1 DEF Recycle, MustRecycle
  <2>2. was \in OpState /\ was.pc = op[o].pc /\ was.saved = lastLoad
    BY <1>0 DEF OpState, TypeOK
  <2> HIDE DEF was
  <2>3. Busy(o) /\ MemoryInv(o) /\ op[o].pc \in 1..3
    BY <2>1 DEF Busy, SafeInv, BusyInv, CallInv, TypeInv, PcInv
  <2>4. op[o].pc = 1
    BY <2>1, <2>3, CallsOf DEF IsLoad, MethodOf
  <2>5. op'[o].pc = 1 /\ op'[o].phase = "recycle" /\ op'[o].saved = lastLoad
    BY <1>0, <2>1, <2>2, <2>4, ReinitOp
  <2>6. MemoryInv(o)'
    BY <2>1, <2>3, <2>4, <2>5 DEF MemoryInv
  <2>7. QED
    BY <2>1, <2>2, <2>3, <2>6, ReinitStep
<1>2. ASSUME NEW o \in Op, Recover(o) PROVE SafeInv'
  <2>1. /\ UNCHANGED <<tail, issued, nextId, lastLoad, stateCalls, scenario>>
        /\ op[o].st = "resumed" /\ Reinit(o, op[o], "recover")
    BY <1>2 DEF Recover
  <2>2. Busy(o) /\ MemoryInv(o)
    BY <2>1 DEF Busy, SafeInv, BusyInv, CallInv
  <2>3. op'[o].pc = op[o].pc /\ op'[o].phase = "recover"
    BY <1>0, <2>1, ReinitOp
  <2>4. MemoryInv(o)'
    BY <2>1, <2>2, <2>3 DEF MemoryInv, VerbOf
  <2>5. QED
    BY <1>0, <2>1, <2>2, <2>4, ReinitStep
<1>3. ASSUME NEW o \in Op, CallThrows(o) \/ Watchdog(o) PROVE SafeInv'
  <2>1. UNCHANGED <<issued, tail, scenario, nextId, cur, worker>> /\ SameMemory
    BY <1>3 DEF CallThrows, Watchdog, main, SameMemory
  <2> DEFINE failed == [op[o] EXCEPT !.st = "failed"]
             stalled == [op[o] EXCEPT !.st = "resumed", !.out = "stalled"]
  <2>2. Busy(o) /\ op \in [Op -> OpState] /\ (op' = [op EXCEPT ![o] = failed] \/ op' = [op EXCEPT ![o] = stalled])
    BY <1>0, <1>3 DEF CallThrows, Watchdog, TypeOK, Busy
  <2>3. /\ failed.st = "failed" /\ stalled.st = "resumed" /\ stalled.out = "stalled"
        /\ stalled.pc = op[o].pc /\ stalled.phase = op[o].phase
        /\ stalled.saved = op[o].saved /\ stalled.todo = op[o].todo
    BY <1>0 DEF OpState
  <2> HIDE DEF failed, stalled
  <2>4. \A p \in Op : \/ op'[p] = op[p]
                      \/ Busy(p) /\ SameCall(p) /\ op'[p].st = "resumed" /\ op'[p].out # "ok"
                      \/ Busy(p) /\ op'[p].st = "failed"
    BY <2>2, <2>3 DEF SameCall
  <2>5. QED
    BY <2>1, <2>4, PassiveStep DEF SameKernel, SameMail
\* Rejected calls, and Workers that stop or start, keep what is in them.
<1>4. ASSUME NEW w \in Workers, NEW k, worker' = [worker EXCEPT ![w] = k],
             k.inbox = worker[w].inbox, k.outbox = worker[w].outbox,
             k.content = worker[w].content, k.shown = worker[w].shown,
             UNCHANGED <<main, scenario>>, \A p \in Op : op'[p] \in {op[p], Rejected(p)}
      PROVE  SafeInv'
  <2>1. UNCHANGED <<issued, tail, scenario, nextId, cur>> /\ SameMemory
    BY <1>4 DEF main, SameMemory
  <2>2. \A v \in Workers : SameKernel(v) /\ SameMail(v)
    BY <1>0, <1>4 DEF SameKernel, SameMail, TypeOK
  <2>3. \A p \in Op : \/ op'[p] = op[p]
                      \/ Busy(p) /\ SameCall(p) /\ op'[p].st = "resumed" /\ op'[p].out # "ok"
                      \/ Busy(p) /\ op'[p].st = "failed"
    BY <1>0, <1>4, RejectedOp DEF Busy, SameCall
  <2>4. QED
    BY <2>1, <2>2, <2>3, PassiveStep
<1>5. \A w \in Workers : worker[w] \in WorkerState
  BY <1>0 DEF TypeOK
<1>6. CASE Terminate
  <2> DEFINE k == [worker[cur] EXCEPT !.phase = Stopped(cur)]
  <2>1. cur \in Workers /\ worker' = [worker EXCEPT ![cur] = k]
    BY <1>0, <1>6 DEF Terminate, TypeOK
  <2>2. k.inbox = worker[cur].inbox /\ k.outbox = worker[cur].outbox /\ k.content = worker[cur].content /\ k.shown = worker[cur].shown
    BY <1>5, <2>1 DEF WorkerState
  <2> HIDE DEF k
  <2>3. \A p \in Op : op'[p] \in {op[p], Rejected(p)}
    BY <1>6 DEF Terminate
  <2>4. QED
    BY <1>4, <1>6, <2>1, <2>2, <2>3 DEF Terminate
<1>7. ASSUME NEW w \in Workers, DeliverCrash(w) PROVE SafeInv'
  <2> DEFINE k == [worker[w] EXCEPT !.died = FALSE]
  <2>1. worker' = [worker EXCEPT ![w] = k]
    BY <1>0, <1>7 DEF DeliverCrash, TypeOK
  <2>2. k.inbox = worker[w].inbox /\ k.outbox = worker[w].outbox /\ k.content = worker[w].content /\ k.shown = worker[w].shown
    BY <1>5 DEF WorkerState
  <2> HIDE DEF k
  <2>3. \A p \in Op : op'[p] \in {op[p], Rejected(p)}
    BY <1>7 DEF DeliverCrash
  <2>4. QED
    BY <1>4, <1>7, <2>1, <2>2, <2>3 DEF DeliverCrash
<1>8. ASSUME NEW w \in Workers, WorkerInit(w) \/ Crash(w) PROVE SafeInv'
  <2> DEFINE ready == [worker[w] EXCEPT !.phase = "ready", !.told = "ready"]
             broken == [worker[w] EXCEPT !.phase = "broken", !.told = "error"]
             crashed == [worker[w] EXCEPT !.phase = "crashed", !.died = TRUE]
  <2>1. \/ worker' = [worker EXCEPT ![w] = ready]
        \/ worker' = [worker EXCEPT ![w] = broken]
        \/ worker' = [worker EXCEPT ![w] = crashed]
    BY <1>0, <1>8 DEF WorkerInit, Crash, TypeOK
  <2>2. \A k \in {ready, broken, crashed} :
          /\ k.inbox = worker[w].inbox /\ k.outbox = worker[w].outbox
          /\ k.content = worker[w].content /\ k.shown = worker[w].shown
    BY <1>5 DEF WorkerState
  <2> HIDE DEF ready, broken, crashed
  <2>3. PICK k \in {ready, broken, crashed} : worker' = [worker EXCEPT ![w] = k]
    BY <2>1
  <2>4. \A p \in Op : op'[p] \in {op[p], Rejected(p)}
    BY <1>8 DEF WorkerInit, Crash
  <2>5. UNCHANGED <<main, scenario>>
    BY <1>8 DEF WorkerInit, Crash
  <2>6. QED
    BY <1>4, <2>2, <2>3, <2>4, <2>5
<1>9. CASE UNCHANGED vars
  BY <1>9, PassiveStep DEF vars, main, SameMemory, SameKernel, SameMail
<1>10. QED
  BY <1>1, <1>2, <1>3, <1>6, <1>7, <1>8, <1>9, IssueStep, StartStep, ReturnsStep, ReloadStep, ReplayStep,
     DeliverStep, DeliverInitStep, HandleStep DEF Next, Resume

-----------------------------------------------------------------------------
(* What follows *)

\* What a behaviour is asked to serve does not change.
LEMMA AwaitedKept == [Next]_vars => (Awaited' <=> Awaited)
<1>1. [Next]_vars => scenario' = scenario
  BY DEF Next, Issue, Start, Resume, CallReturns, Recycle, Reload, Recover, Replay, CallThrows, Watchdog, Terminate,
         Deliver, DeliverInit, DeliverCrash, WorkerInit, HandleMessage, Crash, vars
<1>2. QED
  BY <1>1 DEF Awaited

LEMMA InitSafe == Init => SafeInv
<1> SUFFICES ASSUME Init PROVE SafeInv
  OBVIOUS
<1>1. \A o \in Op : op[o].st = "idle"
  <2> DEFINE idle == [st |-> "idle", prev |-> NoOp, pc |-> 0, phase |-> "call",
                     saved |-> NoContent, todo |-> <<>>, id |-> 0,
                     watched |-> FALSE, on |-> 1, out |-> "ok", changed |-> FALSE, result |-> NoResult]
  <2>1. op = [o \in Op |-> idle] /\ idle.st = "idle"
    BY DEF Init
  <2> HIDE DEF idle
  <2>2. QED
    BY <2>1
<1>2. DOMAIN issued = {} /\ issued = <<>>
  BY DEF Init
<1>3. QueueInv
  BY <1>1, <1>2 DEF QueueInv
<1>4. RecycleInv /\ BusyInv /\ OwnResults
  BY <1>1 DEF RecycleInv, BusyInv, OwnResults, Busy
<1>5. IdInv
  <2>1. \A w \in Workers : worker[w].inbox = <<>> /\ worker[w].outbox = <<>>
    BY DEF Init, Fresh, Absent
  <2>2. \A w \in Workers : DOMAIN worker[w].inbox = {} /\ DOMAIN worker[w].outbox = {}
    BY <2>1
  <2>3. QED
    BY <2>2 DEF IdInv
<1>6. QED
  BY <1>3, <1>4, <1>5 DEF SafeInv

\* The types hold for all users, the rest for those who await each answer.
LEMMA Inductive == Spec => []IInv
<1>1. Init => IInv
  BY InitSafe, InitTyped DEF IInv
<1>2. IInv /\ [Next]_vars => IInv'
  <2>1. IInv /\ [Next]_vars => TypeInv'
    BY TypeStep DEF IInv
  <2>2. IInv /\ [Next]_vars /\ Awaited' => SafeInv'
    BY SafeStep, AwaitedKept DEF IInv
  <2>3. QED
    BY <2>1, <2>2 DEF IInv
<1>3. QED
  BY <1>1, <1>2, PTL DEF Spec

\* Concurrent calls of users who await each answer, or of a Worker that is not
\* recycled (ts/index.ts, _enqueue), never run two at a time.
THEOREM OneAtATime == Spec => [](Awaited => Serialized)
<1>1. IInv => (Awaited => Serialized)
  <2>1. SUFFICES ASSUME TypeOK, QueueInv PROVE Serialized
    BY DEF IInv, TypeInv, SafeInv
  <2>2. QED
    BY <2>1, OneBusy DEF Serialized
<1>2. QED
  BY <1>1, Inductive, PTL

\* Whatever stalls, crashes, is recycled, replayed or late, an operation resolves with
\* the results of its own store (ts/index.ts, _call).
THEOREM ResultsAreOwn == Spec => [](Awaited => OwnResults)
<1>1. IInv => (Awaited => OwnResults)
  BY DEF IInv, SafeInv
<1>2. QED
  BY <1>1, Inductive, PTL

\* A call after the sync of its operation, in the first Worker or in one that a recovery
\* has filled, meets the operation's content and the results of its verb.
THEOREM RecoveryRestores == Spec => [](Awaited => ReplayRestores)
<1>1. IInv => (Awaited => ReplayRestores)
  <2> SUFFICES ASSUME TypeInv, SafeInv, NEW o \in Op, NEW i \in DOMAIN worker[cur].inbox,
                      op[o].st = "awaitCall", op[o].id = worker[cur].inbox[i].id, op[o].phase \in {"call", "retry"},
                      ~IsLoad(worker[cur].inbox[i].method)
               PROVE  /\ worker[cur].content = Store[o]
                      /\ worker[cur].inbox[i].method = "get" => worker[cur].shown = Own(o).of
    BY DEF IInv, ReplayRestores
  <2>0. cur \in Workers /\ op[o].pc \in 1..3
    BY DEF TypeInv, TypeOK, PcInv, Busy
  <2>1. worker[cur].inbox[i].method = Posted(o) /\ Prepared(o)
    BY <2>0 DEF SafeInv, BusyInv, Busy, CallInv, AwaitCallInv, RequestInv
  <2>2. Posted(o) # "sync"
    BY <2>1 DEF IsLoad
  <2>3. Posted(o) = "get" => Own(o).of = Shows(o)
    BY <2>0, PostedKinds
  <2>4. QED
    BY <2>1, <2>2, <2>3 DEF Prepared, Reads
<1>2. QED
  BY <1>1, Inductive, PTL

-----------------------------------------------------------------------------
(* The queue as OpQueue has it *)

\* Whoever is not answered by a step stays as the queue sees it.
LEMMA NobodyAnswered ==
  ASSUME UNCHANGED <<issued, terminated>>,
         \A p \in Op : \/ op'[p] = op[p]
                       \/ ~Settled(p) /\ ~Settled(p)'
                       \/ op'[p].st = op[p].st /\ op'[p].result = op[p].result
  PROVE  UNCHANGED Queue!vars
<1>1. \A p \in Op : (Settled(p)' <=> Settled(p)) /\ (op'[p].st = "done" <=> op[p].st = "done")
  BY DEF Settled
<1>2. {p \in Op : Settled(p)'} = {p \in Op : Settled(p)}
  BY <1>1
<1>3. \A p \in Op : (IF op'[p].st = "done" THEN op'[p].result ELSE NoResult)
                    = IF op[p].st = "done" THEN op[p].result ELSE NoResult
  BY DEF Settled
<1>4. [p \in Op |-> IF op'[p].st = "done" THEN op'[p].result ELSE NoResult]
      = [p \in Op |-> IF op[p].st = "done" THEN op[p].result ELSE NoResult]
  BY <1>3
<1>5. QED
  BY <1>2, <1>4 DEF Queue!vars

\* Whoever runs is the first of those not answered yet.
LEMMA AnswerNext ==
  ASSUME TypeOK, QueueInv, NEW o \in Op, Busy(o), UNCHANGED <<issued, terminated>>,
         \A p \in Op : p # o => op'[p] = op[p],
         op'[o].st = "failed" \/ (op'[o].st = "done" /\ op'[o].result = Own(o))
  PROVE  Queue!Settle
<1>0. ~Settled(o) /\ op[o].st # "idle" /\ Settled(o)'
  BY DEF Busy, Settled
<1>1. PICK i \in DOMAIN issued : issued[i] = o
  BY <1>0 DEF QueueInv
<1>2. DOMAIN issued = 1..Len(issued) /\ Len(issued) \in Nat /\ issued \in Seq(Op)
  BY LenProperties DEF TypeOK
<1>3. \A j \in 1..(i - 1) : issued[j] \in {p \in Op : Settled(p)}
  <2>1. ASSUME NEW j \in 1..(i - 1) PROVE issued[j] \in Op /\ Settled(issued[j])
    <3>1. j \in DOMAIN issued /\ j < i
      BY <1>2
    <3>2. Settled(issued[j])
      BY <1>1, <3>1 DEF QueueInv, Begun
    <3>3. QED
      BY <1>2, <3>1, <3>2, ElementOfSeq
  <2>2. QED
    BY <2>1
<1>4. {p \in Op : Settled(p)'} = {p \in Op : Settled(p)} \cup {issued[i]}
  <2>1. \A p \in Op : p # o => Settled(p)' = Settled(p)
    BY DEF Settled
  <2>2. QED
    BY <1>0, <1>1, <2>1
<1> DEFINE Answer1 == [p \in Op |-> IF op[p].st = "done" THEN op[p].result ELSE NoResult]
           Answer2 == [p \in Op |-> IF op'[p].st = "done" THEN op'[p].result ELSE NoResult]
           Promise == [p \in Op |-> Own(p)]
<1>5. \E a \in {NoResult, Promise[issued[i]]} : Answer2 = [Answer1 EXCEPT ![issued[i]] = a]
  <2>1. Promise[issued[i]] = Own(o)
    BY <1>1
  <2>2. CASE op'[o].st = "failed"
    <3>1. Answer2 = [Answer1 EXCEPT ![o] = NoResult]
      BY <2>2
    <3>2. QED
      BY <1>1, <3>1
  <2>3. CASE op'[o].st = "done" /\ op'[o].result = Own(o)
    <3>1. Answer2 = [Answer1 EXCEPT ![o] = Own(o)]
      BY <2>3
    <3>2. QED
      BY <1>1, <2>1, <3>1
  <2>4. QED
    BY <2>2, <2>3
<1>6. issued[i] \notin {p \in Op : Settled(p)}
  BY <1>0, <1>1
<1>7. QED
  BY <1>3, <1>4, <1>5, <1>6 DEF Queue!Settle

LEMMA QueueStep == TypeInv /\ SafeInv /\ [Next]_vars => [Queue!Next]_(Queue!vars)
<1> SUFFICES ASSUME TypeInv, SafeInv, [Next]_vars PROVE Queue!Next \/ UNCHANGED Queue!vars
  OBVIOUS
<1>0. TypeOK /\ QueueInv /\ \A p \in Op : op[p] \in OpState
  BY DEF TypeInv, SafeInv, TypeOK
<1>1. ASSUME NEW o \in Op, Issue(o) PROVE Queue!Issue(o)
  <2> DEFINE new == [op[o] EXCEPT !.st = "queued", !.prev = tail]
  <2>1. op' = [op EXCEPT ![o] = new] /\ op[o].st = "idle" /\ ~terminated
        /\ issued' = Append(issued, o) /\ terminated' = terminated
    BY <1>0, <1>1 DEF Issue, TypeOK
  <2>2. new.st = "queued"
    BY <1>0 DEF OpState
  <2> HIDE DEF new
  <2>3. op'[o].st = "queued" /\ \A p \in Op : p # o => op'[p] = op[p]
    BY <1>0, <2>1, <2>2 DEF TypeOK
  <2>4. {p \in Op : Settled(p)'} = {p \in Op : Settled(p)}
    BY <2>1, <2>3 DEF Settled
  <2>5. [p \in Op |-> IF op'[p].st = "done" THEN op'[p].result ELSE NoResult]
        = [p \in Op |-> IF op[p].st = "done" THEN op[p].result ELSE NoResult]
    BY <2>1, <2>3
  <2>6. o \notin {issued[i] : i \in DOMAIN issued}
    BY <1>0, <2>1 DEF QueueInv
  <2>7. QED
    BY <2>1, <2>4, <2>5, <2>6 DEF Queue!Issue
<1>2. ASSUME NEW o \in Op, ~Settled(o), ~Settled(o)', \A p \in Op : p # o => op'[p] = op[p],
             UNCHANGED <<issued, terminated>>
      PROVE  UNCHANGED Queue!vars
  BY <1>2, NobodyAnswered
<1>3. ASSUME NEW o \in Op, NEW was \in OpState, NEW m, NEW load, NEW phase, Post(o, was, m, load, phase),
             ~Settled(o), UNCHANGED <<issued, terminated>>
      PROVE  UNCHANGED Queue!vars
  <2>1. ~Settled(o)' /\ \A p \in Op : p # o => op'[p] = op[p]
    BY <1>0, <1>3, PostOp DEF Settled
  <2>2. QED
    BY <1>2, <1>3, <2>1
<1>4. ASSUME NEW o \in Op, Start(o) PROVE UNCHANGED Queue!vars
  <2> DEFINE was == [op[o] EXCEPT !.pc = 1]
  <2>1. was \in OpState
    BY <1>0 DEF OpState
  <2>2. \E m, load : Post(o, was, m, load, "call")
    BY <1>4 DEF Start, BeginCall
  <2> HIDE DEF was
  <2>3. ~Settled(o) /\ UNCHANGED <<issued, terminated>>
    BY <1>4 DEF Start, Settled
  <2>4. QED
    BY <1>3, <2>1, <2>2, <2>3
<1>5. ASSUME NEW o \in Op, CallReturns(o) PROVE Queue!Next \/ UNCHANGED Queue!vars
  <2>1. /\ Busy(o) /\ ~Settled(o) /\ UNCHANGED <<issued, terminated>> /\ op[o].pc \in 1..3
        /\ op[o].st = "resumed" /\ op[o].out = "ok" /\ op[o].phase \in {"call", "recycled", "retry"}
        /\ IF op[o].pc = Len(Calls[Kind[o]])
           THEN op' = [op EXCEPT ![o].st = "done"]
           ELSE Post(o, [op[o] EXCEPT !.pc = @ + 1], Calls[Kind[o]][op[o].pc + 1], NoContent, "call")
    BY <1>5 DEF CallReturns, Return, Busy, Settled, TypeInv, PcInv
  <2>2. CASE op[o].pc = 3
    <3> DEFINE new == [op[o] EXCEPT !.st = "done"]
    <3>1. new.st = "done" /\ new.result = op[o].result
      BY <1>0 DEF OpState
    <3>2. op' = [op EXCEPT ![o] = new] /\ op \in [Op -> OpState]
      BY <1>0, <2>1, <2>2, CallsOf DEF TypeOK
    <3> HIDE DEF new
    <3>3. op'[o].st = "done" /\ op'[o].result = op[o].result /\ \A p \in Op : p # o => op'[p] = op[p]
      BY <3>1, <3>2
    <3>4. CallInv(o)
      BY <2>1 DEF SafeInv, BusyInv
    <3>5. Posted(o) = MethodOf(o) /\ MethodOf(o) \in {"get", "consistency"}
      BY <2>1, <2>2, <3>4, CallsOf DEF CallInv, MemoryInv, Posted, MethodOf
    <3>6. op[o].result = Own(o)
      BY <2>1, <3>4, <3>5 DEF CallInv, ResumedInv, Reads
    <3>7. Queue!Settle
      BY <1>0, <2>1, <3>3, <3>6, AnswerNext
    <3>8. QED
      BY <3>7 DEF Queue!Next
  <2>3. CASE op[o].pc # 3
    <3>1. [op[o] EXCEPT !.pc = @ + 1] \in OpState
      BY <1>0, <2>1, <2>3 DEF OpState
    <3>2. Post(o, [op[o] EXCEPT !.pc = @ + 1], Calls[Kind[o]][op[o].pc + 1], NoContent, "call")
      BY <2>1, <2>3, CallsOf
    <3>3. QED
      BY <1>3, <2>1, <3>1, <3>2
  <2>4. QED
    BY <2>2, <2>3
<1>6. ASSUME NEW o \in Op, Recycle(o) \/ Recover(o) PROVE UNCHANGED Queue!vars
  <2>1. PICK was \in OpState : \E phase \in {"recycle", "recover"} : Reinit(o, was, phase)
    <3>1. [op[o] EXCEPT !.saved = lastLoad] \in OpState
      BY <1>0 DEF TypeOK, OpState
    <3>2. QED
      BY <1>0, <1>6, <3>1 DEF Recycle, Recover
  <2>2. Busy(o) /\ UNCHANGED <<issued, terminated>>
    BY <1>6 DEF Recycle, Recover, Busy
  <2>3. op'[o].st = "awaitReady" /\ \A p \in Op : p # o => op'[p] = Rejected(p)
    BY <1>0, <2>1, ReinitOp
  <2>4. \A p \in Op : p # o => op'[p] = op[p]
    BY <1>0, <2>2, <2>3, ActsAlone, RejectedOp DEF Busy
  <2>5. QED
    BY <1>2, <2>2, <2>3, <2>4 DEF Busy, Settled
<1>7. ASSUME NEW o \in Op, Reload(o) PROVE UNCHANGED Queue!vars
  <2>1. Post(o, op[o], "sync", op[o].saved, "recycled") /\ ~Settled(o) /\ UNCHANGED <<issued, terminated>>
    BY <1>7 DEF Reload, Settled
  <2>2. QED
    BY <1>0, <1>3, <2>1
<1>8. ASSUME NEW o \in Op, Replay(o) PROVE UNCHANGED Queue!vars
  <2> DEFINE todo == IF op[o].phase = "replaySync" THEN stateCalls ELSE op[o].todo
             was == [op[o] EXCEPT !.todo = Tail(todo)]
  <2>1. ~Settled(o) /\ UNCHANGED <<issued, terminated>>
    BY <1>8 DEF Replay, Settled
  <2>2. \/ Post(o, op[o], "sync", lastLoad, "replaySync")
        \/ todo # <<>> /\ Post(o, was, Head(todo), NoContent, "replay")
        \/ \E load : Post(o, op[o], MethodOf(o), load, "retry")
    BY <1>8 DEF Replay
  <2>3. todo # <<>> => was \in OpState
    <3>1. todo \in Seq(Blocking)
      BY <1>0 DEF TypeOK, OpState
    <3> HIDE DEF todo
    <3>2. todo # <<>> => Tail(todo) \in Seq(Blocking)
      BY <3>1, HeadTailProperties
    <3>3. QED
      BY <1>0, <3>2 DEF OpState
  <2> HIDE DEF todo, was
  <2>4. QED
    BY <1>0, <1>3, <2>1, <2>2, <2>3
<1>9. ASSUME NEW o \in Op, CallThrows(o) PROVE Queue!Next
  <2> DEFINE failed == [op[o] EXCEPT !.st = "failed"]
  <2>1. Busy(o) /\ op \in [Op -> OpState] /\ op' = [op EXCEPT ![o] = failed] /\ UNCHANGED <<issued, terminated>>
    BY <1>0, <1>9 DEF CallThrows, TypeOK, Busy, main
  <2>2. failed.st = "failed"
    BY <1>0 DEF OpState
  <2> HIDE DEF failed
  <2>3. op'[o].st = "failed" /\ \A p \in Op : p # o => op'[p] = op[p]
    BY <2>1, <2>2
  <2>4. Queue!Settle
    BY <1>0, <2>1, <2>3, AnswerNext
  <2>5. QED
    BY <2>4 DEF Queue!Next
<1>10. ASSUME NEW o \in Op, Watchdog(o) PROVE UNCHANGED Queue!vars
  <2> DEFINE stalled == [op[o] EXCEPT !.st = "resumed", !.out = "stalled"]
  <2>1. Busy(o) /\ op \in [Op -> OpState] /\ op' = [op EXCEPT ![o] = stalled] /\ UNCHANGED <<issued, terminated>>
    BY <1>0, <1>10 DEF Watchdog, TypeOK, Busy, main
  <2>2. stalled.st = "resumed"
    BY <1>0 DEF OpState
  <2> HIDE DEF stalled
  <2>3. QED
    BY <1>2, <2>1, <2>2 DEF Busy, Settled
<1>11. \A p \in Op : (~Settled(p) /\ Rejected(p).st \notin {"done", "failed"}) \/ Rejected(p) = op[p]
  BY <1>0, RejectedOp DEF Settled
<1>12. CASE Terminate
  <2>1. ~terminated /\ terminated' = TRUE /\ issued' = issued /\ \A p \in Op : op'[p] = Rejected(p)
    BY <1>12 DEF Terminate, main
  <2>2. \A p \in Op : op'[p] = op[p] \/ (~Settled(p) /\ ~Settled(p)')
    BY <1>11, <2>1 DEF Settled
  <2>3. {p \in Op : Settled(p)'} = {p \in Op : Settled(p)}
    BY <2>2 DEF Settled
  <2>4. [p \in Op |-> IF op'[p].st = "done" THEN op'[p].result ELSE NoResult]
        = [p \in Op |-> IF op[p].st = "done" THEN op[p].result ELSE NoResult]
    <3>1. \A p \in Op : (IF op'[p].st = "done" THEN op'[p].result ELSE NoResult)
                        = IF op[p].st = "done" THEN op[p].result ELSE NoResult
      BY <2>2 DEF Settled
    <3>2. QED
      BY <3>1
  <2>5. Queue!Close
    BY <2>1, <2>3, <2>4 DEF Queue!Close
  <2>6. QED
    BY <2>5 DEF Queue!Next
<1>13. ASSUME NEW w \in Workers, Deliver(w) \/ DeliverInit(w) \/ DeliverCrash(w) PROVE UNCHANGED Queue!vars
  <2>1. UNCHANGED <<issued, terminated>>
    BY <1>13 DEF Deliver, DeliverInit, DeliverCrash, main
  <2>2. CASE Deliver(w)
    <3>1. \A p \in Op : op'[p] = op[p] \/ (op[p].st = "awaitCall" /\ op'[p].st = "resumed")
      BY <1>0, <2>2, DeliverOp
    <3>2. QED
      BY <2>1, <3>1, NobodyAnswered DEF Settled
  <2>3. CASE DeliverInit(w)
    <3>1. \A p \in Op : op'[p] = op[p] \/ (op[p].st = "awaitReady" /\ op'[p].st = "resumed")
      BY <1>0, <2>3, DeliverInitOp
    <3>2. QED
      BY <2>1, <3>1, NobodyAnswered DEF Settled
  <2>4. CASE DeliverCrash(w)
    <3>1. \A p \in Op : op'[p] = op[p] \/ op'[p] = Rejected(p)
      BY <2>4 DEF DeliverCrash
    <3>2. \A p \in Op : op'[p] = op[p] \/ (~Settled(p) /\ ~Settled(p)')
      BY <1>11, <3>1 DEF Settled
    <3>3. QED
      BY <2>1, <3>2, NobodyAnswered
  <2>5. QED
    BY <1>13, <2>2, <2>3, <2>4
<1>14. ASSUME NEW w \in Workers, WorkerInit(w) \/ HandleMessage(w) \/ Crash(w) PROVE UNCHANGED Queue!vars
  BY <1>14 DEF WorkerInit, HandleMessage, Crash, main, Queue!vars, Settled
<1>15. CASE UNCHANGED vars
  BY <1>15 DEF vars, main, Queue!vars, Settled
<1>16. QED
  BY <1>1, <1>4, <1>5, <1>6, <1>7, <1>8, <1>9, <1>10, <1>12, <1>13, <1>14, <1>15 DEF Next, Resume, Queue!Next

\* The operations are a queue: of the abstract specification everything but the promise
\* that each is answered in the end.
THEOREM CallsAreAQueue == Spec /\ Awaited => Queue!Init /\ [][Queue!Next]_(Queue!vars)
<1>1. Init => Queue!Init
  <2> SUFFICES ASSUME Init PROVE Queue!Init
    OBVIOUS
  <2>1. \A o \in Op : op[o].st = "idle"
    <3> DEFINE idle == [st |-> "idle", prev |-> NoOp, pc |-> 0, phase |-> "call",
                       saved |-> NoContent, todo |-> <<>>, id |-> 0,
                       watched |-> FALSE, on |-> 1, out |-> "ok", changed |-> FALSE, result |-> NoResult]
    <3>1. op = [o \in Op |-> idle] /\ idle.st = "idle"
      BY DEF Init
    <3> HIDE DEF idle
    <3>2. QED
      BY <3>1
  <2>2. issued = <<>> /\ terminated = FALSE
    BY DEF Init
  <2>3. {o \in Op : Settled(o)} = {}
    BY <2>1 DEF Settled
  <2>4. [p \in Op |-> IF op[p].st = "done" THEN op[p].result ELSE NoResult] = [p \in Op |-> NoResult]
    BY <2>1
  <2>5. QED
    BY <2>2, <2>3, <2>4 DEF Queue!Init
<1>2. IInv /\ Awaited /\ [Next]_vars => [Queue!Next]_(Queue!vars)
  BY QueueStep DEF IInv
<1>3. QED
  BY <1>1, <1>2, Inductive, AwaitedKept, PTL DEF Spec
=============================================================================
