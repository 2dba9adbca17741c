------------------------------ MODULE Threads_proofs ------------------------------
(***************************************************************************)
(* Proofs about Threads for any users and any programs that unlock only    *)
(* what they have locked, on pthreads and on the serial scheduler.         *)
(*                                                                         *)
(* Three arguments that do not need each other.  Barriers: the queue is in *)
(* order, so the event of a waitSynchronization is the last its user has   *)
(* there, and its semaphore is released when nothing of the user is left   *)
(* (BarrierInv).  Locks: the counts of a lock are those of the operations  *)
(* the users have done (MutexInv, RwInv).  Sleep: who is blocked is        *)
(* blocked on the key of its operation, and whoever takes the reason away  *)
(* wakes that key (SchedInv, ReasonInv).                                   *)
(***************************************************************************)
EXTENDS Threads, FiniteSetTheorems, TLAPS

Event == [by : Users, at : Nat, kind : {"plain", "sync"}]
Thread == Users \cup {Service}

-----------------------------------------------------------------------------
(* The inductive invariant *)

LoopInv ==
  /\ loop \in {"none", "loop", "handle", "ended"}
  /\ q \in [exists : BOOLEAN, queue : Seq(Event), shouldStop : BOOLEAN, started : BOOLEAN]
  /\ loop = "handle" => event \in Event
  /\ loop # "handle" => event = None

TypeInv ==
  /\ scenario \in Scenarios
  /\ pc \in [Users -> Nat \ {0}]
  /\ phase \in [Users -> {"new", "again", "yielded", "posted", "joining"}]
  /\ mutex \in [owner : Users \cup {None}, count : Int]
  /\ sem \in [Users \cup {"shared"} -> Int]
  /\ rw \in [writer : Users \cup {None}, readers : Int]
  /\ LoopInv

\* Between the position of e and where its user is now there is no barrier.
Clear(e) == \A i \in e.at .. pc[e.by] - 1 : Program(e.by)[i].op # "sync"

QueuedBy(u) == {i \in DOMAIN q.queue : q.queue[i].by = u}
Handled(u) == loop = "handle" /\ event.by = u

\* u waits for its barrier and has not been let go.
AtBarrier(u) == phase[u] = "posted" /\ sem[u] = 0

\* Whoever is let go has nothing left with the thread.
UserInv(u) ==
  /\ phase[u] = "posted" => pc[u] <= Len(Program(u)) /\ At(u).op = "sync"
  /\ sem[u] \in {0, 1}
  /\ sem[u] = 1 => phase[u] = "posted" /\ QueuedBy(u) = {} /\ ~Handled(u)

\* The event of a barrier is the last of its user.
QueuedInv(i) ==
  /\ Clear(q.queue[i])
  /\ q.queue[i].kind = "sync" =>
       AtBarrier(q.queue[i].by) /\ \A j \in QueuedBy(q.queue[i].by) : j <= i
HandledInv ==
  loop = "handle" =>
    /\ Clear(event)
    /\ event.kind = "sync" => AtBarrier(event.by) /\ QueuedBy(event.by) = {}

BarrierInv ==
  /\ \A u \in Users : UserInv(u)
  /\ \A i \in DOMAIN q.queue : QueuedInv(i)
  /\ HandledInv

MutexInv ==
  /\ mutex.owner = None => mutex.count = 0
  /\ \A u \in Users :
       IF mutex.owner = u
       THEN mutex.count > 0 /\ mutex.count = Did(u, {"lock"}) - Did(u, {"unlock"})
       ELSE Did(u, {"lock"}) = Did(u, {"unlock"})

\* How often u is in under the read-write lock, and all who are, each as often as it is.
Holds(u) == Did(u, {"read", "write"}) - Did(u, {"unlockRW"})
Holders == {h \in Users \X Nat : 1 <= h[2] /\ h[2] <= Holds(h[1])}

RwInv ==
  /\ IsFiniteSet(Holders)
  /\ \A u \in Users : Holds(u) >= 0
  /\ rw.writer = None => rw.readers = Cardinality(Holders)
  /\ rw.writer # None =>
       rw.readers = 0 /\ \A u \in Users : Holds(u) = IF u = rw.writer THEN 1 ELSE 0
  /\ \A u \in Users : InAsWriter(u) => rw.writer = u

-----------------------------------------------------------------------------
(* Programs and how far users are *)

\* A program is a sequence of operations that gives back only what it holds.
LEMMA ProgramType ==
  ASSUME TypeInv, NEW u \in Users
  PROVE  Program(u) \in Seq(Operation) /\ Disciplined(Program(u)) /\ pc[u] \in Nat \ {0}
  BY ThreadsAssumption DEF TypeInv, Program

\* What comes before a position grows by the operation at it.
LEMMA BeforeNext ==
  ASSUME NEW program, NEW n \in Nat \ {0}, NEW ops
  PROVE  /\ Before(program, n, ops) \in Nat
         /\ Before(program, n + 1, ops)
              = Before(program, n, ops) + IF program[n].op \in ops THEN 1 ELSE 0
<1> DEFINE S(m) == {i \in 1 .. m : program[i].op \in ops}
<1>1. Before(program, n, ops) = Cardinality(S(n - 1))
  BY DEF Before
<1>2. Before(program, n + 1, ops) = Cardinality(S(n))
  <2>1. (n + 1) - 1 = n
    OBVIOUS
  <2>2. QED
    BY <2>1 DEF Before
<1>3. IsFiniteSet(S(n - 1))
  <2>1. IsFiniteSet(1 .. n - 1)
    BY FS_Interval
  <2>2. S(n - 1) \subseteq 1 .. n - 1
    OBVIOUS
  <2>3. QED
    BY <2>1, <2>2, FS_Subset
<1>4. Cardinality(S(n - 1)) \in Nat
  BY <1>3, FS_CardinalityType
<1>5. S(n) = IF program[n].op \in ops THEN S(n - 1) \cup {n} ELSE S(n - 1)
  <2>1. 1 .. n = (1 .. n - 1) \cup {n}
    OBVIOUS
  <2>2. \A i : i \in S(n) <=> i \in S(n - 1) \/ (i = n /\ program[n].op \in ops)
    BY <2>1, Zenon
  <2>3. QED
    BY <2>2
<1>6. n \notin S(n - 1)
  <2>1. n \notin 1 .. n - 1
    OBVIOUS
  <2>2. QED
    BY <2>1, Zenon
<1> HIDE DEF S
<1>7. Cardinality(S(n)) = Cardinality(S(n - 1)) + IF program[n].op \in ops THEN 1 ELSE 0
  <2>1. \A T, x : IsFiniteSet(T) /\ x \notin T => Cardinality(T \cup {x}) = Cardinality(T) + 1
    BY FS_AddElement
  <2>2. Cardinality(S(n - 1) \cup {n}) = Cardinality(S(n - 1)) + 1
    BY <1>3, <1>6, <2>1, Zenon
  <2>3. CASE program[n].op \in ops
    BY <1>5, <2>2, <2>3
  <2>4. CASE program[n].op \notin ops
    <3>1. S(n) = S(n - 1)
      BY <1>5, <2>4
    <3>2. QED
      BY <1>4, <2>4, <3>1
  <2>5. QED
    BY <2>3, <2>4
<1>8. QED
  BY <1>1, <1>2, <1>4, <1>7

\* Users are at the same operation as before, or u has done its own and is at the next.
Advances(u) ==
  /\ pc' = [pc EXCEPT ![u] = @ + 1] /\ phase' = [phase EXCEPT ![u] = "new"]
Remains(u) ==
  /\ pc' = pc
  /\ \E p \in {"new", "again", "yielded", "posted", "joining"} : phase' = [phase EXCEPT ![u] = p]
  /\ phase'[u] = "posted" => At(u).op = "sync"

\* What a step of a user leaves alone: the locks are changed by operations on them only,
\* as are the semaphores, and what the thread handles by nobody.
LEMMA StepFrame ==
  ASSUME TypeInv, NEW u \in Users, Step(u)
  PROVE  /\ scenario' = scenario /\ pc[u] <= Len(Program(u)) /\ Turn(u)
         /\ Advances(u) \/ Remains(u)
         /\ At(u).op \notin {"lock", "unlock"} => mutex' = mutex
         /\ At(u).op \notin {"read", "write", "unlockRW"} => rw' = rw
         /\ event' = event
         /\ loop' = loop \/ At(u).op \in {"start", "stop"}
         /\ At(u).op \notin {"start", "stop", "post", "sync", "delete"} => q' = q
         /\ At(u).op \notin {"release", "acquire", "try", "sync"} => sem' = sem
<1> USE DEF Advances, Remains, Next1, Stay
<1>1. phase \in [Users -> {"new", "again", "yielded", "posted", "joining"}]
  BY DEF TypeInv
<1>2. scenario' = scenario /\ pc[u] <= Len(Program(u)) /\ Turn(u)
  BY DEF Step, Lock, Unlock, ReadLock, WriteLock, UnlockRW, ReleaseSemaphore, Acquire, TryAcquire,
         StartThread, PostEvent, PostSync, WaitSynchronization, Stop, Join, Delete
<1>3. CASE Lock(u)
  <2>1. Remains(u) \/ Advances(u)
    <3>1. CASE YieldFirst(u)
      BY <1>1, <1>3, <3>1 DEF Lock, YieldFirst
    <3>2. CASE Next1(u)
      BY <3>2
    <3>3. CASE Wait(u, Key("mutex", None))
      BY <1>1, <1>3, <3>3 DEF Wait
    <3>4. QED
      BY <1>3, <3>1, <3>2, <3>3 DEF Lock
  <2>2. At(u).op = "lock" /\ rw' = rw /\ q' = q /\ loop' = loop /\ event' = event /\ sem' = sem
    BY <1>3 DEF Lock, YieldFirst, service, locks
  <2>3. QED
    BY <1>2, <2>1, <2>2
<1>4. CASE Unlock(u)
  BY <1>1, <1>2, <1>4 DEF Unlock, service
<1>5. CASE ReadLock(u) \/ WriteLock(u)
  BY <1>1, <1>2, <1>5 DEF ReadLock, WriteLock, Wait, service
<1>6. CASE UnlockRW(u)
  BY <1>1, <1>2, <1>6 DEF UnlockRW, service
<1>7. CASE ReleaseSemaphore(u) \/ Acquire(u) \/ TryAcquire(u)
  BY <1>1, <1>2, <1>7 DEF ReleaseSemaphore, Acquire, TryAcquire, locks, service
<1>8. CASE StartThread(u)
  BY <1>1, <1>2, <1>8 DEF StartThread, locks
<1>9. CASE PostEvent(u) \/ PostSync(u)
  BY <1>1, <1>2, <1>9 DEF PostEvent, PostSync, locks
<1>10. CASE WaitSynchronization(u)
  BY <1>1, <1>2, <1>10 DEF WaitSynchronization, locks, service
<1>11. CASE Stop(u) \/ Join(u)
  BY <1>1, <1>2, <1>11 DEF Stop, Join, locks
<1>12. CASE Delete(u)
  BY <1>1, <1>2, <1>12 DEF Delete, locks
<1>13. QED
  BY <1>3, <1>4, <1>5, <1>6, <1>7, <1>8, <1>9, <1>10, <1>11, <1>12 DEF Step

\* The operations on locks and on the thread are the only ones of their names.
LEMMA StepOf ==
  ASSUME NEW u \in Users, Step(u)
  PROVE  /\ At(u).op = "lock" => Lock(u)
         /\ At(u).op = "unlock" => Unlock(u)
         /\ At(u).op = "read" => ReadLock(u)
         /\ At(u).op = "write" => WriteLock(u)
         /\ At(u).op = "unlockRW" => UnlockRW(u)
         /\ At(u).op = "sync" => PostSync(u) \/ WaitSynchronization(u)
         /\ At(u).op = "post" => PostEvent(u)
         /\ At(u).op = "start" => StartThread(u)
         /\ At(u).op = "stop" => Stop(u) \/ Join(u)
         /\ At(u).op = "delete" => Delete(u)
         /\ At(u).op \in {"lock", "unlock", "read", "write", "unlockRW", "sync", "post", "start",
                          "stop", "delete", "release", "acquire", "try"}
  BY DEF Step, Lock, Unlock, ReadLock, WriteLock, UnlockRW, ReleaseSemaphore, Acquire, TryAcquire,
         StartThread, PostEvent, PostSync, WaitSynchronization, Stop, Join, Delete

\* A step of the thread, the end of a user and a stutter leave the users where they are,
\* and the locks as they are.
Idles ==
  Sleep \/ Take \/ Handle \/ EndLoop \/ Crash \/ (\E u \in Users : Finish(u)) \/ UNCHANGED vars
LEMMA IdlesFrame ==
  ASSUME Idles
  PROVE  scenario' = scenario /\ pc' = pc /\ phase' = phase /\ mutex' = mutex /\ rw' = rw
  BY DEF Idles, Sleep, Take, Handle, EndLoop, Crash, Finish, vars, locks, service

LEMMA NextCases ==
  ASSUME [Next]_vars
  PROVE  Idles \/ \E u \in Users : Step(u)
  BY DEF Next, Idles

\* What users have done grows with each operation they finish.
LEMMA DidStep ==
  ASSUME TypeInv, NEW u \in Users, Step(u), NEW v \in Users, NEW ops
  PROVE  /\ Did(v, ops) \in Nat
         /\ v # u \/ Remains(u) => Did(v, ops)' = Did(v, ops)
         /\ v = u /\ Advances(u) =>
              Did(v, ops)' = Did(v, ops) + IF At(u).op \in ops THEN 1 ELSE 0
<1>1. scenario' = scenario /\ (Advances(u) \/ Remains(u))
  BY StepFrame
<1>2. pc \in [Users -> Nat \ {0}]
  BY DEF TypeInv
<1>3. Did(v, ops)' = Before(Program(v), pc'[v], ops)
  BY <1>1 DEF Did, Program
<1>4. v # u \/ Remains(u) => pc'[v] = pc[v]
  BY <1>1, <1>2 DEF Advances, Remains
<1>5. Advances(u) => pc'[u] = pc[u] + 1
  BY <1>2 DEF Advances
<1>6. /\ Before(Program(v), pc[v], ops) \in Nat
      /\ Before(Program(v), pc[v] + 1, ops)
           = Before(Program(v), pc[v], ops) + IF Program(v)[pc[v]].op \in ops THEN 1 ELSE 0
  BY <1>2, BeforeNext
<1>7. QED
  BY <1>3, <1>4, <1>5, <1>6 DEF Did, At

LEMMA DidIdles ==
  ASSUME Idles, NEW v, NEW ops
  PROVE  Did(v, ops)' = Did(v, ops)
  BY IdlesFrame DEF Did, Program

\* Whoever is about to unlock has locked more often than unlocked.
LEMMA UnlocksHeld ==
  ASSUME TypeInv, NEW u \in Users, Step(u)
  PROVE  /\ At(u).op = "unlock" => Did(u, {"unlock"}) < Did(u, {"lock"})
         /\ At(u).op = "unlockRW" => Did(u, {"unlockRW"}) < Did(u, {"read", "write"})
<1>1. /\ Program(u) \in Seq(Operation) /\ Disciplined(Program(u)) /\ pc[u] \in Nat \ {0}
      /\ pc[u] <= Len(Program(u))
  BY ProgramType, StepFrame
<1>2. pc[u] \in DOMAIN Program(u)
  BY <1>1
<1>3. QED
  BY <1>1, <1>2 DEF Disciplined, Did, At

-----------------------------------------------------------------------------
(* Locks *)

LEMMA MutexStep ==
  ASSUME TypeInv, MutexInv, NEW u \in Users, Step(u)
  PROVE  MutexInv'
<1>1. \A v \in Users :
        /\ Did(v, {"lock"}) \in Nat /\ Did(v, {"unlock"}) \in Nat
        /\ v # u \/ Remains(u) =>
             Did(v, {"lock"})' = Did(v, {"lock"}) /\ Did(v, {"unlock"})' = Did(v, {"unlock"})
        /\ v = u /\ Advances(u) =>
             /\ Did(v, {"lock"})' = Did(v, {"lock"}) + IF At(u).op \in {"lock"} THEN 1 ELSE 0
             /\ Did(v, {"unlock"})' = Did(v, {"unlock"}) + IF At(u).op \in {"unlock"} THEN 1 ELSE 0
  BY DidStep
<1>2. Advances(u) \/ Remains(u)
  BY StepFrame
<1>3. mutex \in [owner : Users \cup {None}, count : Int] /\ u # None
  BY ThreadsAssumption DEF TypeInv
<1>4. CASE At(u).op \notin {"lock", "unlock"}
  <2>1. mutex' = mutex
    BY <1>4, StepFrame
  <2>2. QED
    BY <1>1, <1>2, <1>4, <2>1 DEF MutexInv
<1>5. CASE At(u).op = "lock"
  <2>1. Lock(u)
    BY <1>5, StepOf
  <2>2. CASE Remains(u)
    <3>1. ~Next1(u)
      BY <2>2 DEF Remains, Next1, TypeInv
    <3>2. mutex' = mutex
      BY <2>1, <3>1 DEF Lock, YieldFirst, locks
    <3>3. QED
      BY <1>1, <2>2, <3>2 DEF MutexInv
  <2>3. CASE Advances(u)
    <3>1. pc' # pc
      BY <2>3 DEF Advances, TypeInv
    <3>2. FreeFor(u) /\ mutex' = [owner |-> u, count |-> mutex.count + 1]
      BY <2>1, <3>1 DEF Lock, YieldFirst, Wait, Stay
    <3>3. mutex'.owner = u /\ mutex'.count = mutex.count + 1
      BY <3>2
    <3>4. \A v \in Users : v # u => mutex.owner # v
      BY <1>3, <3>2, ThreadsAssumption DEF FreeFor
    <3>5. /\ mutex.count = Did(u, {"lock"}) - Did(u, {"unlock"}) /\ mutex.count >= 0
      BY <1>1, <1>3, <3>2 DEF FreeFor, MutexInv
    <3>6. QED
      BY <1>1, <1>3, <1>5, <2>3, <3>3, <3>4, <3>5 DEF MutexInv
  <2>4. QED
    BY <1>2, <2>2, <2>3
<1>6. CASE At(u).op = "unlock"
  <2>1. Unlock(u)
    BY <1>6, StepOf
  <2>2. mutex.owner = u
    BY <1>1, <1>6, UnlocksHeld DEF MutexInv
  <2>3. Advances(u)
    BY <2>1 DEF Unlock, Next1, Advances
  <2>4. CASE mutex.count = 1
    <3>1. mutex'.owner = None /\ mutex'.count = 0
      BY <2>1, <2>4 DEF Unlock
    <3>2. QED
      BY <1>1, <1>3, <1>6, <2>2, <2>3, <2>4, <3>1, ThreadsAssumption DEF MutexInv
  <2>5. CASE mutex.count # 1
    <3>1. mutex'.owner = u /\ mutex'.count = mutex.count - 1
      BY <1>3, <2>1, <2>2, <2>5 DEF Unlock
    <3>2. QED
      BY <1>1, <1>3, <1>6, <2>2, <2>3, <2>5, <3>1, ThreadsAssumption DEF MutexInv
  <2>6. QED
    BY <2>4, <2>5
<1>7. QED
  BY <1>4, <1>5, <1>6

\* How often users are in after a step, and whether as a writer.
LEMMA HoldsStep ==
  ASSUME TypeInv, NEW u \in Users, Step(u), NEW v \in Users
  PROVE  /\ Holds(v) \in Int
         /\ v # u \/ Remains(u) => Holds(v)' = Holds(v)
         /\ v = u /\ Advances(u) =>
              Holds(v)' = CASE At(u).op \in {"read", "write"} -> Holds(v) + 1
                            [] At(u).op = "unlockRW" -> Holds(v) - 1
                            [] OTHER -> Holds(v)
<1>1. /\ Did(v, {"read", "write"}) \in Nat /\ Did(v, {"unlockRW"}) \in Nat
      /\ v # u \/ Remains(u) =>
           /\ Did(v, {"read", "write"})' = Did(v, {"read", "write"})
           /\ Did(v, {"unlockRW"})' = Did(v, {"unlockRW"})
      /\ v = u /\ Advances(u) =>
           /\ Did(v, {"read", "write"})' = Did(v, {"read", "write"})
                + IF At(u).op \in {"read", "write"} THEN 1 ELSE 0
           /\ Did(v, {"unlockRW"})' = Did(v, {"unlockRW"}) + IF At(u).op \in {"unlockRW"} THEN 1 ELSE 0
  BY DidStep
<1>2. Holds(v)' = Did(v, {"read", "write"})' - Did(v, {"unlockRW"})'
  BY DEF Holds
<1>3. QED
  BY <1>1, <1>2 DEF Holds

LEMMA WriterStep ==
  ASSUME TypeInv, NEW u \in Users, Step(u), NEW v \in Users, InAsWriter(v)'
  PROVE  /\ InAsWriter(v) \/ (v = u /\ Advances(u) /\ At(u).op = "write")
         /\ v = u /\ Advances(u) => At(u).op # "unlockRW"
<1>1. scenario' = scenario /\ (Advances(u) \/ Remains(u)) /\ pc \in [Users -> Nat \ {0}]
  BY StepFrame DEF TypeInv
<1>2. PICK i \in 1 .. pc'[v] - 1 :
        Program(v)[i].op = "write" /\ \A j \in i .. pc'[v] - 1 : Program(v)[j].op # "unlockRW"
  BY <1>1 DEF InAsWriter, Program
<1>3. CASE pc'[v] = pc[v]
  <2>1. InAsWriter(v)
    BY <1>2, <1>3 DEF InAsWriter
  <2>2. ~(v = u /\ Advances(u))
    BY <1>1, <1>3 DEF Advances
  <2>3. QED
    BY <2>1, <2>2
<1>4. CASE pc'[v] # pc[v]
  <2>1. v = u /\ Advances(u) /\ pc'[v] = pc[v] + 1
    BY <1>1, <1>4 DEF Advances, Remains
  <2>2. pc[v] \in Nat \ {0} /\ pc'[v] - 1 = pc[v]
    BY <1>1, <2>1
  <2>3. pc[v] \in i .. pc'[v] - 1
    BY <1>2, <2>2
  <2>4. At(u).op # "unlockRW"
    BY <1>2, <2>1, <2>3 DEF At
  <2>5. CASE i = pc[v]
    BY <1>2, <2>1, <2>4, <2>5 DEF At
  <2>6. CASE i # pc[v]
    <3>1. i \in 1 .. pc[v] - 1
      BY <1>2, <2>2, <2>6
    <3>2. \A j \in i .. pc[v] - 1 : Program(v)[j].op # "unlockRW"
      BY <1>2, <2>2
    <3>3. InAsWriter(v)
      BY <1>2, <3>1, <3>2 DEF InAsWriter
    <3>4. QED
      BY <2>4, <3>3
  <2>7. QED
    BY <2>5, <2>6
<1>5. QED
  BY <1>3, <1>4

\* Whoever is in as a writer holds the lock, so it is in once.
LEMMA HoldersMembers ==
  ASSUME NEW h
  PROVE  h \in Holders <=> h \in Users \X Nat /\ 1 <= h[2] /\ h[2] <= Holds(h[1])
  BY DEF Holders

LEMMA RwStep ==
  ASSUME TypeInv, RwInv, NEW u \in Users, Step(u)
  PROVE  RwInv'
<1>1. \A v \in Users :
        /\ Holds(v) \in Int
        /\ v # u \/ Remains(u) => Holds(v)' = Holds(v)
        /\ v = u /\ Advances(u) =>
             Holds(v)' = CASE At(u).op \in {"read", "write"} -> Holds(v) + 1
                           [] At(u).op = "unlockRW" -> Holds(v) - 1
                           [] OTHER -> Holds(v)
  BY HoldsStep
<1>2. \A v \in Users : InAsWriter(v)' =>
        /\ InAsWriter(v) \/ (v = u /\ Advances(u) /\ At(u).op = "write")
        /\ v = u /\ Advances(u) => At(u).op # "unlockRW"
  BY WriterStep
<1>3. Advances(u) \/ Remains(u)
  BY StepFrame
<1>4. rw \in [writer : Users \cup {None}, readers : Int] /\ u # None /\ None \notin Users
  BY ThreadsAssumption DEF TypeInv
<1>5. \A H : IsFiniteSet(H) => Cardinality(H) \in Nat /\ (Cardinality(H) = 0 <=> H = {})
  BY FS_CardinalityType, FS_EmptySet
<1>6. Holders' = {h \in Users \X Nat : 1 <= h[2] /\ h[2] <= Holds(h[1])'}
  BY DEF Holders
<1>7. ASSUME \A v \in Users : Holds(v)' = Holds(v), rw' = rw,
             At(u).op # "write" \/ ~Advances(u)
      PROVE  RwInv'
  <2>1. Holders' = Holders
    BY <1>6, <1>7 DEF Holders
  <2>2. QED
    BY <1>2, <1>7, <2>1 DEF RwInv
<1>8. CASE At(u).op \notin {"read", "write", "unlockRW"}
  <2>1. rw' = rw
    BY <1>8, StepFrame
  <2>2. \A v \in Users : Holds(v)' = Holds(v)
    BY <1>1, <1>3, <1>8
  <2>3. QED
    BY <1>7, <1>8, <2>1, <2>2
<1>9. CASE At(u).op \in {"read", "write"} /\ Remains(u)
  <2>1. ~Next1(u)
    BY <1>9 DEF Remains, Next1, TypeInv
  <2>2. rw' = rw
    BY <1>9, <2>1, StepOf DEF ReadLock, WriteLock
  <2>3. ~Advances(u)
    BY <1>9 DEF Remains, Advances, TypeInv
  <2>4. QED
    BY <1>1, <1>7, <1>9, <2>2, <2>3
<1>10. CASE At(u).op \in {"read", "write"} /\ Advances(u)
  <2>1. pc' # pc
    BY <1>10 DEF Advances, TypeInv
  <2>2. rw.writer = None
    BY <1>10, <2>1, StepOf DEF ReadLock, WriteLock, Wait, Stay
  <2>3. rw.readers = Cardinality(Holders) /\ \A v \in Users : ~InAsWriter(v)
    BY <1>4, <2>2 DEF RwInv
  <2>4. Holds(u)' = Holds(u) + 1 /\ Holds(u) \in Nat /\ \A v \in Users \ {u} : Holds(v)' = Holds(v)
    BY <1>1, <1>10 DEF RwInv
  <2>5. Holders' = Holders \cup {<<u, Holds(u) + 1>>}
    <3>1. \A h \in Users \X Nat :
            (1 <= h[2] /\ h[2] <= Holds(h[1])')
            <=> (1 <= h[2] /\ h[2] <= Holds(h[1])) \/ h = <<u, Holds(u) + 1>>
      <4>1. SUFFICES ASSUME NEW v \in Users, NEW n \in Nat
                     PROVE  (1 <= n /\ n <= Holds(v)')
                            <=> (1 <= n /\ n <= Holds(v)) \/ <<v, n>> = <<u, Holds(u) + 1>>
        OBVIOUS
      <4>2. CASE v = u
        BY <2>4, <4>2
      <4>3. CASE v # u
        BY <2>4, <4>3
      <4>4. QED
        BY <4>2, <4>3
    <3>2. <<u, Holds(u) + 1>> \in Users \X Nat
      BY <2>4
    <3>3. QED
      BY <1>6, <3>1, <3>2 DEF Holders
  <2>6. <<u, Holds(u) + 1>> \notin Holders
    BY <2>4, HoldersMembers
  <2>7. IsFiniteSet(Holders') /\ Cardinality(Holders') = Cardinality(Holders) + 1
    BY <2>5, <2>6, FS_AddElement DEF RwInv
  <2>8. \A v \in Users : Holds(v)' >= 0
    BY <1>1, <2>4 DEF RwInv
  <2>9. CASE At(u).op = "read"
    <3>1. rw'.writer = None /\ rw'.readers = rw.readers + 1
      BY <1>4, <2>1, <2>2, <2>9, StepOf DEF ReadLock, Wait, Stay
    <3>2. \A v \in Users : ~InAsWriter(v)'
      BY <1>2, <2>3, <2>9
    <3>3. QED
      BY <2>3, <2>7, <2>8, <3>1, <3>2 DEF RwInv
  <2>10. CASE At(u).op = "write"
    <3>1. rw'.writer = u /\ rw'.readers = 0 /\ rw.readers = 0
      BY <1>4, <2>1, <2>2, <2>10, StepOf DEF WriteLock, Wait, Stay
    <3>2. Holders = {}
      BY <1>5, <2>3, <3>1 DEF RwInv
    <3>3. \A v \in Users : Holds(v) = 0
      <4>1. SUFFICES ASSUME NEW v \in Users, Holds(v) # 0
                     PROVE  FALSE
        OBVIOUS
      <4>2. <<v, 1>> \in Holders
        BY <1>1, <4>1, HoldersMembers DEF RwInv
      <4>3. QED
        BY <3>2, <4>2
    <3>4. \A v \in Users : Holds(v)' = IF v = u THEN 1 ELSE 0
      BY <2>4, <3>3
    <3>5. \A v \in Users : InAsWriter(v)' => v = u
      BY <1>2, <2>3
    <3>6. QED
      BY <1>4, <2>7, <2>8, <3>1, <3>4, <3>5 DEF RwInv
  <2>11. QED
    BY <1>10, <2>9, <2>10
<1>11. CASE At(u).op = "unlockRW"
  <2>1. UnlockRW(u) /\ Advances(u)
    BY <1>11, StepOf DEF UnlockRW, Next1, Advances
  <2>2. Holds(u) > 0
    <3>1. Did(u, {"read", "write"}) \in Nat /\ Did(u, {"unlockRW"}) \in Nat
      BY DidStep
    <3>2. QED
      BY <1>11, <3>1, UnlocksHeld DEF Holds
  <2>3. Holds(u)' = Holds(u) - 1 /\ Holds(u) \in Nat /\ \A v \in Users \ {u} : Holds(v)' = Holds(v)
    BY <1>1, <1>11, <2>1, <2>2
  <2>4. \A v \in Users : Holds(v)' >= 0
    BY <1>1, <2>2, <2>3 DEF RwInv
  <2>5. CASE rw.writer = None
    <3>1. Holders' = Holders \ {<<u, Holds(u)>>}
      <4>1. \A h \in Users \X Nat :
              (1 <= h[2] /\ h[2] <= Holds(h[1])')
              <=> (1 <= h[2] /\ h[2] <= Holds(h[1])) /\ h # <<u, Holds(u)>>
        <5>1. SUFFICES ASSUME NEW v \in Users, NEW n \in Nat
                       PROVE  (1 <= n /\ n <= Holds(v)')
                              <=> (1 <= n /\ n <= Holds(v)) /\ <<v, n>> # <<u, Holds(u)>>
          OBVIOUS
        <5>2. CASE v = u
          BY <2>3, <5>2
        <5>3. CASE v # u
          BY <2>3, <5>3
        <5>4. QED
          BY <5>2, <5>3
      <4>2. QED
        BY <1>6, <4>1 DEF Holders
    <3>2. <<u, Holds(u)>> \in Holders
      BY <2>2, <2>3, HoldersMembers
    <3>3. IsFiniteSet(Holders') /\ Cardinality(Holders') = Cardinality(Holders) - 1
      BY <3>1, <3>2, FS_RemoveElement DEF RwInv
    <3>4. rw'.writer = None /\ rw'.readers = rw.readers - 1
      BY <1>4, <2>1, <2>5 DEF UnlockRW
    <3>5. \A v \in Users : ~InAsWriter(v)'
      BY <1>2, <1>4, <1>11, <2>5 DEF RwInv
    <3>6. QED
      BY <2>4, <2>5, <3>3, <3>4, <3>5 DEF RwInv
  <2>6. CASE rw.writer # None
    <3>1. u = rw.writer /\ Holds(u) = 1 /\ \A v \in Users : Holds(v)' = 0
      BY <1>1, <2>2, <2>3, <2>6 DEF RwInv
    <3>2. Holders' = {}
      BY <1>6, <3>1
    <3>3. rw'.writer = None /\ rw'.readers = 0
      BY <1>4, <2>1, <2>6 DEF UnlockRW, RwInv
    <3>4. \A v \in Users : ~InAsWriter(v)'
      BY <1>2, <1>11, <2>1, <3>1 DEF RwInv
    <3>5. QED
      BY <2>4, <3>2, <3>3, <3>4, FS_EmptySet DEF RwInv
  <2>7. QED
    BY <2>5, <2>6
<1>12. QED
  BY <1>3, <1>8, <1>9, <1>10, <1>11

LEMMA LocksIdle ==
  ASSUME Idles, MutexInv, RwInv
  PROVE  MutexInv' /\ RwInv'
<1>1. \A v, ops : Did(v, ops)' = Did(v, ops)
  BY DidIdles
<1>2. scenario' = scenario /\ pc' = pc /\ mutex' = mutex /\ rw' = rw
  BY IdlesFrame
<1>3. \A v : Holds(v)' = Holds(v)
  BY <1>2 DEF Holds, Did, Program
<1>4. Holders' = Holders
  BY <1>3 DEF Holders
<1>5. \A v : InAsWriter(v)' = InAsWriter(v)
  BY <1>2 DEF InAsWriter, Program
<1>6. MutexInv'
  BY <1>2 DEF MutexInv, Did, Program
<1>7. RwInv'
  BY <1>2, <1>3, <1>4, <1>5 DEF RwInv
<1>8. QED
  BY <1>6, <1>7

-----------------------------------------------------------------------------
(* Types *)

LEMMA InitType == Init => TypeInv
  BY ThreadsAssumption DEF Init, TypeInv, LoopInv

LEMMA AtType ==
  ASSUME TypeInv, NEW u \in Users, pc[u] <= Len(Program(u))
  PROVE  At(u) \in Operation
<1>1. Program(u) \in Seq(Operation) /\ pc[u] \in 1 .. Len(Program(u))
  BY ProgramType
<1>2. QED
  BY <1>1 DEF At

\* What a thread that is asked to stop, started or posted to keeps of its state.
LEMMA ServiceType ==
  ASSUME TypeInv, NEW u \in Users, Step(u)
  PROVE  LoopInv'
<1>1. LoopInv /\ event' = event /\ pc[u] \in Nat
  BY StepFrame DEF TypeInv
<1>2. CASE q' = q /\ loop' = loop
  BY <1>1, <1>2 DEF LoopInv
<1>3. CASE PostEvent(u) \/ PostSync(u)
  <2>1. PICK kind \in {"plain", "sync"} : Push([by |-> u, at |-> pc[u], kind |-> kind])
    BY <1>3 DEF PostEvent, PostSync
  <2>2. [by |-> u, at |-> pc[u], kind |-> kind] \in Event
    BY <1>1 DEF Event
  <2>3. loop' = loop
    BY <1>3 DEF PostEvent, PostSync
  <2>4. CASE q' = q
    BY <1>1, <2>3, <2>4 DEF LoopInv
  <2>5. CASE q' = [q EXCEPT !.queue = Append(@, [by |-> u, at |-> pc[u], kind |-> kind])]
    <3> DEFINE e == [by |-> u, at |-> pc[u], kind |-> kind]
    <3>1. Append(q.queue, e) \in Seq(Event)
      BY <1>1, <2>2 DEF LoopInv
    <3> HIDE DEF e
    <3>2. q' = [q EXCEPT !.queue = Append(q.queue, e)]
      BY <2>5 DEF e
    <3>3. QED
      BY <1>1, <2>3, <3>1, <3>2 DEF LoopInv
  <2>6. QED
    BY <2>1, <2>4, <2>5 DEF Push, Insert
<1>4. CASE StartThread(u)
  BY <1>1, <1>4 DEF StartThread, LoopInv
<1>5. CASE Stop(u)
  BY <1>1, <1>5 DEF Stop, StopThread, LoopInv
<1>6. CASE Join(u)
  BY <1>1, <1>6 DEF Join, LoopInv
<1>7. CASE Delete(u)
  BY <1>1, <1>7 DEF Delete, LoopInv
<1>8. CASE WaitSynchronization(u)
  BY <1>2, <1>8 DEF WaitSynchronization, service
<1>9. QED
  BY <1>2, <1>3, <1>4, <1>5, <1>6, <1>7, <1>8, StepFrame, StepOf

LEMMA StepType ==
  ASSUME TypeInv, NEW u \in Users, Step(u)
  PROVE  TypeInv'
<1>1. scenario' = scenario /\ (Advances(u) \/ Remains(u)) /\ pc[u] <= Len(Program(u))
  BY StepFrame
<1>2. /\ pc' \in [Users -> Nat \ {0}]
      /\ phase' \in [Users -> {"new", "again", "yielded", "posted", "joining"}]
  <2>1. /\ pc \in [Users -> Nat \ {0}]
        /\ phase \in [Users -> {"new", "again", "yielded", "posted", "joining"}]
    BY DEF TypeInv
  <2>2. CASE Advances(u)
    BY <2>1, <2>2 DEF Advances
  <2>3. CASE Remains(u)
    BY <2>1, <2>3 DEF Remains
  <2>4. QED
    BY <1>1, <2>2, <2>3
<1>3. mutex' \in [owner : Users \cup {None}, count : Int]
  <2>1. mutex \in [owner : Users \cup {None}, count : Int]
    BY DEF TypeInv
  <2>2. CASE Lock(u)
    BY <2>1, <2>2 DEF Lock, YieldFirst, locks
  <2>3. CASE Unlock(u)
    BY <2>1, <2>3 DEF Unlock
  <2>4. QED
    BY <2>1, <2>2, <2>3, StepFrame, StepOf
<1>4. rw' \in [writer : Users \cup {None}, readers : Int]
  BY StepFrame, StepOf DEF TypeInv, ReadLock, WriteLock, UnlockRW
<1>5. sem' \in [Users \cup {"shared"} -> Int]
  <2>1. At(u).n \in Int
    BY <1>1, AtType DEF Operation
  <2>2. sem \in [Users \cup {"shared"} -> Int]
    BY DEF TypeInv
  <2>3. CASE ReleaseSemaphore(u)
    <3>1. sem' = [sem EXCEPT !["shared"] = sem["shared"] + At(u).n]
      BY <2>3 DEF ReleaseSemaphore, Put
    <3>2. sem["shared"] + At(u).n \in Int
      BY <2>1, <2>2
    <3>3. QED
      BY <2>2, <3>1, <3>2
  <2>4. CASE Acquire(u) \/ TryAcquire(u)
    <3>1. sem' = sem \/ sem' = [sem EXCEPT !["shared"] = sem["shared"] - At(u).n]
      BY <2>4 DEF Acquire, TryAcquire
    <3>2. sem["shared"] - At(u).n \in Int
      BY <2>1, <2>2
    <3>3. QED
      BY <2>2, <3>1, <3>2
  <2>5. CASE WaitSynchronization(u)
    BY <2>2, <2>5 DEF WaitSynchronization
  <2>6. CASE PostSync(u)
    BY <2>2, <2>6 DEF PostSync
  <2>7. QED
    BY <2>2, <2>3, <2>4, <2>5, <2>6, StepFrame, StepOf
         DEF Step, Lock, Unlock, ReadLock, WriteLock, UnlockRW, StartThread, PostEvent, Stop, Join, Delete
<1>6. QED
  BY <1>1, <1>2, <1>3, <1>4, <1>5, ServiceType DEF TypeInv

LEMMA IdlesType ==
  ASSUME TypeInv, Idles
  PROVE  TypeInv'
<1>1. scenario' = scenario /\ pc' = pc /\ phase' = phase /\ mutex' = mutex /\ rw' = rw
  BY IdlesFrame
<1>2. LoopInv /\ sem \in [Users \cup {"shared"} -> Int]
  BY DEF TypeInv
<1>3. CASE Sleep \/ (\E u \in Users : Finish(u)) \/ UNCHANGED vars
  BY <1>1, <1>3 DEF TypeInv, LoopInv, Sleep, Finish, vars, service
<1>4. CASE Take
  <2>1. Head(q.queue) \in Event /\ Tail(q.queue) \in Seq(Event)
    BY <1>2, <1>4 DEF Take, LoopInv
  <2>2. LoopInv' /\ sem' = sem
    BY <1>2, <1>4, <2>1 DEF Take, LoopInv
  <2>3. QED
    BY <1>1, <2>2 DEF TypeInv
<1>5. CASE Handle
  <2>1. LoopInv'
    BY <1>2, <1>5 DEF Handle, LoopInv
  <2>2. sem' \in [Users \cup {"shared"} -> Int]
    BY <1>2, <1>5 DEF Handle, Put
  <2>3. QED
    BY <1>1, <2>1, <2>2 DEF TypeInv
<1>6. CASE EndLoop
  <2>1. <<>> \in Seq(Event)
    OBVIOUS
  <2>2. q' = [q EXCEPT !.queue = <<>>] /\ loop' = "ended" /\ sem' = sem /\ event' = event
        /\ loop = "loop"
    BY <1>6 DEF EndLoop, End
  <2>3. LoopInv'
    BY <1>2, <2>1, <2>2 DEF LoopInv
  <2>4. QED
    BY <1>1, <1>2, <2>2, <2>3 DEF TypeInv
<1>7. CASE Crash
  <2>1. q' = q /\ loop' = "ended" /\ sem' = sem /\ event' = None
    BY <1>7 DEF Crash, End
  <2>2. QED
    BY <1>1, <1>2, <2>1 DEF LoopInv, TypeInv
<1>8. QED
  BY <1>3, <1>4, <1>5, <1>6, <1>7 DEF Idles

LEMMA NextType == TypeInv /\ [Next]_vars => TypeInv'
  BY NextCases, StepType, IdlesType

-----------------------------------------------------------------------------
(* Barriers *)

\* A user that does anything but come back from its barrier leaves no barrier behind.
LEMMA ClearStep ==
  ASSUME TypeInv, NEW u \in Users, Step(u), NEW e \in Event, Clear(e),
         e.by = u /\ Advances(u) => At(u).op # "sync"
  PROVE  Clear(e)'
<1>1. scenario' = scenario /\ (Advances(u) \/ Remains(u)) /\ pc \in [Users -> Nat \ {0}]
  BY StepFrame DEF TypeInv
<1>2. e.at \in Nat /\ e.by \in Users
  BY DEF Event
<1>3. Clear(e)' <=> \A i \in e.at .. pc'[e.by] - 1 : Program(e.by)[i].op # "sync"
  BY <1>1 DEF Clear, Program
<1>4. CASE pc'[e.by] = pc[e.by]
  BY <1>3, <1>4 DEF Clear
<1>5. CASE pc'[e.by] # pc[e.by]
  <2>1. e.by = u /\ Advances(u) /\ pc'[e.by] - 1 = pc[e.by] /\ pc[e.by] \in Nat
    BY <1>1, <1>2, <1>5 DEF Advances, Remains
  <2>2. Program(e.by)[pc[e.by]].op # "sync"
    BY <2>1 DEF At
  <2>3. \A i \in e.at .. pc[e.by] : i = pc[e.by] \/ i \in e.at .. pc[e.by] - 1
    BY <1>2, <2>1
  <2>4. QED
    BY <1>3, <2>1, <2>2, <2>3 DEF Clear
<1>6. QED
  BY <1>4, <1>5

\* Nobody but the thread and its own user touches the semaphore of a barrier.
LEMMA OwnSemaphore ==
  ASSUME TypeInv, NEW u \in Users, Step(u), NEW v \in Users, v # u \/ ~WaitSynchronization(u)
  PROVE  sem'[v] = sem[v]
<1>1. sem \in [Users \cup {"shared"} -> Int] /\ v # "shared"
  BY ThreadsAssumption DEF TypeInv
<1>2. CASE WaitSynchronization(u)
  BY <1>1, <1>2 DEF WaitSynchronization
<1>3. CASE ReleaseSemaphore(u) \/ Acquire(u) \/ TryAcquire(u)
  BY <1>1, <1>3 DEF ReleaseSemaphore, Acquire, TryAcquire, Put
<1>4. CASE ~WaitSynchronization(u) /\ ~(ReleaseSemaphore(u) \/ Acquire(u) \/ TryAcquire(u))
  BY <1>4 DEF Step, Lock, Unlock, ReadLock, WriteLock, UnlockRW, StartThread, PostEvent, PostSync,
              Stop, Join, Delete
<1>5. QED
  BY <1>2, <1>3, <1>4

\* The queue and what is handled stay, except that Delete empties the queue.
LEMMA QueueStays ==
  ASSUME TypeInv, NEW u \in Users, Step(u), At(u).op \notin {"sync", "post"}
  PROVE  /\ q'.queue = q.queue \/ q'.queue = <<>>
         /\ loop' = "handle" <=> loop = "handle"
         /\ event' = event
<1>1. q \in [exists : BOOLEAN, queue : Seq(Event), shouldStop : BOOLEAN, started : BOOLEAN]
  BY DEF TypeInv, LoopInv
<1>2. CASE StartThread(u)
  BY <1>1, <1>2, StepFrame DEF StartThread
<1>3. CASE Stop(u)
  BY <1>1, <1>3, StepFrame DEF Stop, StopThread
<1>4. CASE Join(u)
  BY <1>1, <1>4, StepFrame DEF Join
<1>5. CASE Delete(u)
  BY <1>1, <1>5, StepFrame DEF Delete
<1>6. CASE At(u).op \notin {"start", "stop", "post", "sync", "delete"}
  BY <1>6, StepFrame
<1>7. QED
  BY <1>2, <1>3, <1>4, <1>5, <1>6, StepOf

\* What the invariant says of an event after a step.
LEMMA EventPrime ==
  ASSUME NEW e
  PROVE  /\ \A i : q'.queue[i] = e =>
              (QueuedInv(i)' <=>
                 /\ Clear(e)'
                 /\ e.kind = "sync" => AtBarrier(e.by)' /\ \A j \in QueuedBy(e.by)' : j <= i)
         /\ event' = e =>
              (HandledInv' <=>
                 (loop' = "handle" =>
                    /\ Clear(e)'
                    /\ e.kind = "sync" => AtBarrier(e.by)' /\ QueuedBy(e.by)' = {}))
  BY DEF QueuedInv, HandledInv, Clear, AtBarrier, QueuedBy, Program

\* Others than the actor are where they were.
LEMMA OthersStay ==
  ASSUME TypeInv, NEW u \in Users, Step(u), NEW v \in Users, v # u
  PROVE  /\ phase'[v] = phase[v] /\ pc'[v] = pc[v] /\ sem'[v] = sem[v]
         /\ Program(v)' = Program(v) /\ At(v)' = At(v) /\ (AtBarrier(v)' <=> AtBarrier(v))
<1>1. phase'[v] = phase[v] /\ pc'[v] = pc[v] /\ scenario' = scenario
  BY StepFrame DEF Advances, Remains, TypeInv
<1>2. sem'[v] = sem[v]
  BY OwnSemaphore
<1>3. QED
  BY <1>1, <1>2 DEF Program, At, AtBarrier

\* A step of u that adds nothing to the queue and leaves u outside a barrier.
LEMMA BarrierElsewhere ==
  ASSUME TypeInv, BarrierInv, NEW u \in Users, Step(u), At(u).op \notin {"sync", "post"}
  PROVE  BarrierInv'
<1>1. /\ q'.queue = q.queue \/ q'.queue = <<>>
      /\ loop' = "handle" <=> loop = "handle"
      /\ event' = event
  BY QueueStays
<1>2. q.queue \in Seq(Event) /\ (loop = "handle" => event \in Event)
  BY DEF TypeInv, LoopInv
<1>3. phase[u] # "posted" /\ phase'[u] # "posted" /\ sem'[u] = sem[u]
  <2>1. phase[u] # "posted"
    BY DEF BarrierInv, UserInv
  <2>2. Advances(u) => phase'[u] = "new"
    BY DEF Advances, TypeInv
  <2>3. sem'[u] = sem[u]
    BY OwnSemaphore DEF WaitSynchronization
  <2>4. QED
    BY <2>1, <2>2, <2>3, StepFrame DEF Remains
<1>4. \A e \in Event : Clear(e) => Clear(e)'
  BY ClearStep
<1>5. \A i \in DOMAIN q'.queue : i \in DOMAIN q.queue /\ q'.queue[i] = q.queue[i]
  BY <1>1, <1>2
<1>6. \A v \in Users : QueuedBy(v)' \subseteq QueuedBy(v)
  BY <1>5 DEF QueuedBy
<1>7. \A v \in Users : AtBarrier(v) => AtBarrier(v)'
  BY <1>3, OthersStay DEF AtBarrier
<1>8. ASSUME NEW v \in Users
      PROVE  UserInv(v)'
  <2>1. CASE v = u
    <3>1. sem[u] = 0
      BY <1>3 DEF BarrierInv, UserInv
    <3>2. QED
      BY <1>3, <2>1, <3>1 DEF UserInv
  <2>2. CASE v # u
    <3>1. UserInv(v)
      BY DEF BarrierInv
    <3>2. Handled(v)' <=> Handled(v)
      BY <1>1 DEF Handled
    <3>3. QED
      BY <1>6, <2>2, <3>1, <3>2, OthersStay DEF UserInv
  <2>3. QED
    BY <2>1, <2>2
<1>9. ASSUME NEW i \in DOMAIN q'.queue
      PROVE  QueuedInv(i)'
  <2>1. PICK e \in Event : q'.queue[i] = e /\ q.queue[i] = e /\ i \in DOMAIN q.queue
    BY <1>2, <1>5
  <2>2. Clear(e) /\ (e.kind = "sync" => AtBarrier(e.by) /\ \A j \in QueuedBy(e.by) : j <= i)
    BY <2>1 DEF BarrierInv, QueuedInv
  <2>3. e.by \in Users
    BY DEF Event
  <2>4. QED
    BY <1>4, <1>6, <1>7, <2>1, <2>2, <2>3, EventPrime
<1>10. HandledInv'
  <2>1. CASE loop' # "handle"
    BY <2>1 DEF HandledInv
  <2>2. CASE loop' = "handle"
    <3>1. PICK e \in Event : event' = e /\ event = e
      BY <1>1, <1>2, <2>2
    <3>2. Clear(e) /\ (e.kind = "sync" => AtBarrier(e.by) /\ QueuedBy(e.by) = {})
      BY <1>1, <2>2, <3>1 DEF BarrierInv, HandledInv
    <3>3. e.by \in Users
      BY DEF Event
    <3>4. QED
      BY <1>4, <1>6, <1>7, <3>1, <3>2, <3>3, EventPrime
  <2>3. QED
    BY <2>1, <2>2
<1>11. QED
  BY <1>8, <1>9, <1>10 DEF BarrierInv

\* An event is appended to the queue, or thrown away when there is none.
LEMMA PushQueue ==
  ASSUME TypeInv, NEW e \in Event, Push(e)
  PROVE  \/ q' = q
         \/ /\ DOMAIN q'.queue = DOMAIN q.queue \cup {Len(q.queue) + 1}
            /\ \A i \in DOMAIN q.queue : q'.queue[i] = q.queue[i] /\ i <= Len(q.queue)
            /\ Len(q.queue) \in Nat /\ Len(q.queue) + 1 \notin DOMAIN q.queue
            /\ q'.queue[Len(q.queue) + 1] = e
<1>1. q.queue \in Seq(Event) /\ q \in [exists : BOOLEAN, queue : Seq(Event), shouldStop : BOOLEAN, started : BOOLEAN]
  BY DEF TypeInv, LoopInv
<1>2. q' = q \/ q'.queue = Append(q.queue, e)
  BY <1>1 DEF Push, Insert
<1>3. CASE q' = q
  BY <1>3
<1>4. CASE q'.queue = Append(q.queue, e)
  BY <1>1, <1>4
<1>5. QED
  BY <1>2, <1>3, <1>4

\* u posts e, to go on or to wait until the thread gets to it.
LEMMA BarrierPost ==
  ASSUME TypeInv, BarrierInv, NEW u \in Users, Step(u), PostEvent(u) \/ PostSync(u)
  PROVE  BarrierInv'
<1>1. pc[u] \in Nat /\ pc \in [Users -> Nat \ {0}]
  BY DEF TypeInv
<1>2. /\ loop' = loop /\ event' = event
      /\ phase[u] # "posted" /\ sem' = sem /\ scenario' = scenario
  BY DEF PostEvent, PostSync, BarrierInv, UserInv
<1>3. PICK e \in Event :
        Push(e) /\ e.by = u /\ e.at = pc[u] /\ (e.kind = "sync" <=> At(u).op = "sync")
  <2>1. PICK kind \in {"plain", "sync"} :
          Push([by |-> u, at |-> pc[u], kind |-> kind]) /\ (kind = "sync" <=> At(u).op = "sync")
    BY DEF PostEvent, PostSync
  <2>2. [by |-> u, at |-> pc[u], kind |-> kind] \in Event
    BY <1>1 DEF Event
  <2>3. QED
    BY <2>1, <2>2
<1>4. sem[u] = 0
  BY <1>2 DEF BarrierInv, UserInv
<1>5. phase'[u] = IF At(u).op = "sync" THEN "posted" ELSE "new"
  BY DEF PostEvent, PostSync, Next1, Stay, TypeInv
<1>6. At(u).op = "sync" => pc' = pc
  BY DEF PostEvent, PostSync, Stay
<1>7. Clear(e)'
  <2>1. Clear(e)' <=> \A i \in pc[u] .. pc'[u] - 1 : Program(u)[i].op # "sync"
    BY <1>2, <1>3 DEF Clear, Program
  <2>2. CASE At(u).op = "sync"
    BY <1>1, <1>6, <2>1, <2>2
  <2>3. CASE At(u).op # "sync"
    <3>1. pc'[u] - 1 = pc[u]
      BY <1>1, <2>3 DEF PostEvent, PostSync, Next1
    <3>2. QED
      BY <1>1, <2>1, <2>3, <3>1 DEF At
  <2>4. QED
    BY <2>2, <2>3
<1>8. \A d \in Event : Clear(d) => Clear(d)'
  <2>1. Advances(u) => At(u).op # "sync"
    BY <1>1, <1>6 DEF Advances
  <2>2. QED
    BY <2>1, ClearStep
<1>9. \A v \in Users : v # u => (AtBarrier(v)' <=> AtBarrier(v))
  BY OthersStay
<1>10. \/ q' = q
       \/ /\ DOMAIN q'.queue = DOMAIN q.queue \cup {Len(q.queue) + 1}
          /\ \A i \in DOMAIN q.queue : q'.queue[i] = q.queue[i] /\ i <= Len(q.queue)
          /\ Len(q.queue) \in Nat /\ Len(q.queue) + 1 \notin DOMAIN q.queue
          /\ q'.queue[Len(q.queue) + 1] = e
  BY <1>3, PushQueue
<1>11. \A v \in Users : v # u => QueuedBy(v)' = QueuedBy(v)
  BY <1>3, <1>10 DEF QueuedBy
<1>12. q.queue \in Seq(Event) /\ (loop = "handle" => event \in Event)
  BY DEF TypeInv, LoopInv
<1>13. ASSUME NEW v \in Users
       PROVE  UserInv(v)'
  <2>1. UserInv(v) /\ (Handled(v)' <=> Handled(v))
    BY <1>2 DEF BarrierInv, Handled
  <2>2. CASE v = u
    <3>1. phase'[u] = "posted" => pc'[u] <= Len(Program(u)') /\ At(u)'.op = "sync"
      BY <1>2, <1>5, <1>6, StepFrame DEF Program, At
    <3>2. QED
      BY <1>2, <1>4, <2>2, <3>1 DEF UserInv
  <2>3. CASE v # u
    BY <1>11, <2>1, <2>3, OthersStay DEF UserInv
  <2>4. QED
    BY <2>2, <2>3
<1>14. ASSUME NEW i \in DOMAIN q'.queue
       PROVE  QueuedInv(i)'
  <2>1. CASE i \in DOMAIN q.queue
    <3>1. PICK d \in Event : q'.queue[i] = d /\ q.queue[i] = d
      BY <1>10, <1>12, <2>1
    <3>2. Clear(d) /\ (d.kind = "sync" => AtBarrier(d.by) /\ \A j \in QueuedBy(d.by) : j <= i)
      BY <2>1, <3>1 DEF BarrierInv, QueuedInv
    <3>3. d.by \in Users
      BY DEF Event
    <3>4. d.kind = "sync" => d.by # u
      BY <1>2, <3>2 DEF AtBarrier
    <3>5. QED
      BY <1>8, <1>9, <1>11, <3>1, <3>2, <3>3, <3>4, EventPrime
  <2>2. CASE i \notin DOMAIN q.queue
    <3>1. i = Len(q.queue) + 1 /\ q'.queue[i] = e /\ Len(q.queue) \in Nat
      BY <1>10, <2>2
    <3>2. e.kind = "sync" => AtBarrier(u)'
      BY <1>2, <1>3, <1>4, <1>5 DEF AtBarrier
    <3>3. \A k \in QueuedBy(u)' : k <= i
      BY <1>10, <3>1 DEF QueuedBy
    <3>4. QED
      BY <1>3, <1>7, <3>1, <3>2, <3>3, EventPrime
  <2>3. QED
    BY <2>1, <2>2
<1>15. HandledInv'
  <2>1. CASE loop # "handle"
    BY <1>2, <2>1 DEF HandledInv
  <2>2. CASE loop = "handle"
    <3>1. PICK d \in Event : event' = d /\ event = d
      BY <1>2, <1>12, <2>2
    <3>2. Clear(d) /\ (d.kind = "sync" => AtBarrier(d.by) /\ QueuedBy(d.by) = {})
      BY <2>2, <3>1 DEF BarrierInv, HandledInv
    <3>3. d.by \in Users /\ (d.kind = "sync" => d.by # u)
      BY <1>2, <3>2 DEF Event, AtBarrier
    <3>4. QED
      BY <1>8, <1>9, <1>11, <3>1, <3>2, <3>3, EventPrime
  <2>3. QED
    BY <2>1, <2>2
<1>16. QED
  BY <1>13, <1>14, <1>15 DEF BarrierInv

\* u comes back from its barrier, or waits on.
LEMMA BarrierWait ==
  ASSUME TypeInv, BarrierInv, NEW u \in Users, Step(u), WaitSynchronization(u)
  PROVE  BarrierInv'
<1>1. q' = q /\ loop' = loop /\ event' = event /\ scenario' = scenario
  BY DEF WaitSynchronization, service
<1>2. CASE pc' = pc /\ phase' = phase /\ sem' = sem
  <2>1. \A v \in Users : UserInv(v)' <=> UserInv(v)
    BY <1>1, <1>2 DEF UserInv, At, Program, QueuedBy, Handled
  <2>2. \A i : QueuedInv(i)' <=> QueuedInv(i)
    BY <1>1, <1>2 DEF QueuedInv, Clear, AtBarrier, QueuedBy, Program
  <2>3. HandledInv' <=> HandledInv
    BY <1>1, <1>2 DEF HandledInv, Clear, AtBarrier, QueuedBy, Program
  <2>4. QED
    BY <1>1, <2>1, <2>2, <2>3 DEF BarrierInv
<1>3. CASE sem[u] > 0 /\ sem' = [sem EXCEPT ![u] = @ - 1] /\ Next1(u)
  <2>1. sem[u] = 1 /\ QueuedBy(u) = {} /\ ~Handled(u)
    BY <1>3 DEF BarrierInv, UserInv
  <2>2. sem'[u] = 0 /\ phase'[u] = "new"
    BY <1>3, <2>1 DEF TypeInv, Next1
  <2>3. \A e \in Event : Clear(e) /\ e.by # u => Clear(e)'
    BY ClearStep
  <2>4. \A v \in Users : QueuedBy(v)' = QueuedBy(v) /\ (Handled(v)' <=> Handled(v))
    BY <1>1 DEF QueuedBy, Handled
  <2>5. \A v \in Users : v # u => (AtBarrier(v)' <=> AtBarrier(v))
    BY OthersStay
  <2>6. q.queue \in Seq(Event) /\ (loop = "handle" => event \in Event)
    BY DEF TypeInv, LoopInv
  <2>7. ASSUME NEW v \in Users
        PROVE  UserInv(v)'
    <3>1. CASE v = u
      BY <2>2, <3>1 DEF UserInv
    <3>2. CASE v # u
      BY <2>4, <3>2, OthersStay DEF UserInv, BarrierInv
    <3>3. QED
      BY <3>1, <3>2
  <2>8. ASSUME NEW i \in DOMAIN q'.queue
        PROVE  QueuedInv(i)'
    <3>1. PICK e \in Event : q'.queue[i] = e /\ q.queue[i] = e
      BY <1>1, <2>6
    <3>2. Clear(e) /\ (e.kind = "sync" => AtBarrier(e.by) /\ \A j \in QueuedBy(e.by) : j <= i)
      BY <1>1, <3>1 DEF BarrierInv, QueuedInv
    <3>3. e.by \in Users /\ e.by # u
      BY <1>1, <2>1, <3>1 DEF Event, QueuedBy
    <3>4. QED
      BY <2>3, <2>4, <2>5, <3>1, <3>2, <3>3, EventPrime
  <2>9. HandledInv'
    <3>1. CASE loop # "handle"
      BY <1>1, <3>1 DEF HandledInv
    <3>2. CASE loop = "handle"
      <4>1. PICK e \in Event : event' = e /\ event = e
        BY <1>1, <2>6, <3>2
      <4>2. Clear(e) /\ (e.kind = "sync" => AtBarrier(e.by) /\ QueuedBy(e.by) = {})
        BY <3>2, <4>1 DEF BarrierInv, HandledInv
      <4>3. e.by \in Users /\ e.by # u
        BY <2>1, <3>2, <4>1 DEF Event, Handled
      <4>4. QED
        BY <2>3, <2>4, <2>5, <4>1, <4>2, <4>3, EventPrime
    <3>3. QED
      BY <3>1, <3>2
  <2>10. QED
    BY <2>7, <2>8, <2>9 DEF BarrierInv
<1>4. QED
  BY <1>2, <1>3 DEF WaitSynchronization

LEMMA BarrierStep ==
  ASSUME TypeInv, BarrierInv, NEW u \in Users, Step(u)
  PROVE  BarrierInv'
  BY BarrierElsewhere, BarrierPost, BarrierWait, StepOf

\* The thread takes events in the order of the queue, and lets go whose turn has come.
LEMMA BarrierIdles ==
  ASSUME TypeInv, BarrierInv, Idles
  PROVE  BarrierInv'
<1>1. scenario' = scenario /\ pc' = pc /\ phase' = phase
  BY IdlesFrame
<1>2. q.queue \in Seq(Event) /\ (loop = "handle" => event \in Event)
      /\ q \in [exists : BOOLEAN, queue : Seq(Event), shouldStop : BOOLEAN, started : BOOLEAN]
  BY DEF TypeInv, LoopInv
<1>3. \A e : Clear(e)' <=> Clear(e)
  BY <1>1 DEF Clear, Program
<1>4. ASSUME sem' = sem,
             \/ q'.queue = q.queue /\ (loop' = "handle" <=> loop = "handle") /\ event' = event
             \/ q'.queue = <<>> /\ loop' # "handle"
      PROVE  BarrierInv'
  <2>1. \A v \in Users : UserInv(v) => UserInv(v)'
    BY <1>1, <1>4 DEF UserInv, At, Program, QueuedBy, Handled
  <2>2. \A v : AtBarrier(v)' <=> AtBarrier(v)
    BY <1>1, <1>4 DEF AtBarrier
  <2>3. \A i \in DOMAIN q'.queue : QueuedInv(i)'
    BY <1>1, <1>4, <2>2 DEF BarrierInv, QueuedInv, Clear, Program, QueuedBy
  <2>4. HandledInv'
    BY <1>1, <1>4, <2>2 DEF BarrierInv, HandledInv, Clear, Program, QueuedBy
  <2>5. QED
    BY <2>1, <2>3, <2>4 DEF BarrierInv
<1>5. CASE Sleep \/ (\E u \in Users : Finish(u)) \/ UNCHANGED vars
  BY <1>4, <1>5 DEF Sleep, Finish, service, vars
<1>6. CASE EndLoop
  BY <1>2, <1>4, <1>6 DEF EndLoop, End
<1>7. CASE Take
  <2>1. /\ loop = "loop" /\ loop' = "handle" /\ sem' = sem
        /\ q.queue # <<>> /\ event' = Head(q.queue) /\ q'.queue = Tail(q.queue)
    BY <1>2, <1>7 DEF Take
  <2>2. /\ 1 \in DOMAIN q.queue /\ event' = q.queue[1]
        /\ \A i \in DOMAIN q'.queue :
             i \in Nat /\ i + 1 \in DOMAIN q.queue /\ q'.queue[i] = q.queue[i + 1]
        /\ \A i \in DOMAIN q.queue : i \in Nat /\ i >= 1
    BY <1>2, <2>1
  <2>3. \A v : AtBarrier(v)' <=> AtBarrier(v)
    BY <1>1, <2>1 DEF AtBarrier
  <2>4. \A v, j : j \in QueuedBy(v)' => j \in Nat /\ j + 1 \in QueuedBy(v) /\ j >= 1
    <3>1. \A i \in DOMAIN q'.queue : i >= 1
      BY <1>2, <2>1
    <3>2. QED
      BY <2>2, <3>1 DEF QueuedBy
  <2>5. ASSUME NEW v \in Users
        PROVE  UserInv(v)'
    <3>1. QueuedBy(v) = {} => QueuedBy(v)' = {} /\ ~Handled(v)'
      BY <2>1, <2>2, <2>4 DEF QueuedBy, Handled
    <3>2. QED
      BY <1>1, <2>1, <3>1 DEF BarrierInv, UserInv, At, Program
  <2>6. ASSUME NEW i \in DOMAIN q'.queue
        PROVE  QueuedInv(i)'
    <3>1. PICK e \in Event : q'.queue[i] = e /\ q.queue[i + 1] = e /\ i + 1 \in DOMAIN q.queue
      BY <1>2, <2>2
    <3>2. /\ Clear(e)
          /\ e.kind = "sync" => AtBarrier(e.by) /\ \A j \in QueuedBy(e.by) : j <= i + 1
      BY <3>1 DEF BarrierInv, QueuedInv
    <3>3. e.kind = "sync" => \A j \in QueuedBy(e.by)' : j <= i
      BY <2>2, <2>4, <3>2
    <3>4. QED
      BY <1>3, <2>3, <3>1, <3>2, <3>3, EventPrime
  <2>7. HandledInv'
    <3>1. PICK e \in Event : event' = e /\ q.queue[1] = e
      BY <1>2, <2>2
    <3>2. /\ Clear(e)
          /\ e.kind = "sync" => AtBarrier(e.by) /\ \A j \in QueuedBy(e.by) : j <= 1
      BY <2>2, <3>1 DEF BarrierInv, QueuedInv
    <3>3. e.kind = "sync" => QueuedBy(e.by)' = {}
      BY <2>4, <3>2
    <3>4. QED
      BY <1>3, <2>3, <3>1, <3>2, <3>3, EventPrime
  <2>8. QED
    BY <2>5, <2>6, <2>7 DEF BarrierInv
<1>8. CASE Handle
  <2>1. /\ loop = "handle" /\ loop' = "loop" /\ q' = q
        /\ event \in Event /\ event.by \in Users
    BY <1>2, <1>8 DEF Handle, Event
  <2>2. CASE event.kind = "plain"
    BY <1>4, <1>8, <2>1, <2>2 DEF Handle, BarrierInv, UserInv, QueuedInv, Clear, AtBarrier,
                                 QueuedBy, Program, At, HandledInv, Handled
  <2>3. CASE event.kind = "sync"
    <3>1. sem' = [sem EXCEPT ![event.by] = @ + 1]
      BY <1>8, <2>3 DEF Handle, Put
    <3>2. AtBarrier(event.by) /\ QueuedBy(event.by) = {}
      BY <2>1, <2>3 DEF BarrierInv, HandledInv
    <3>3. /\ sem'[event.by] = 1 /\ phase[event.by] = "posted"
          /\ \A v \in Users : v # event.by => sem'[v] = sem[v]
      BY <2>1, <3>1, <3>2 DEF AtBarrier, TypeInv
    <3>4. ASSUME NEW v \in Users
          PROVE  UserInv(v)'
      <4>1. UserInv(v) /\ QueuedBy(v)' = QueuedBy(v) /\ ~Handled(v)'
        BY <2>1 DEF BarrierInv, QueuedBy, Handled
      <4>2. CASE v = event.by
        BY <1>1, <3>2, <3>3, <4>1, <4>2 DEF UserInv, At, Program
      <4>3. CASE v # event.by
        BY <1>1, <3>3, <4>1, <4>3 DEF UserInv, At, Program
      <4>4. QED
        BY <4>2, <4>3
    <3>5. ASSUME NEW i \in DOMAIN q'.queue
          PROVE  QueuedInv(i)'
      <4>1. PICK e \in Event : q'.queue[i] = e /\ q.queue[i] = e
        BY <1>2, <2>1
      <4>2. /\ Clear(e)
            /\ e.kind = "sync" => AtBarrier(e.by) /\ \A j \in QueuedBy(e.by) : j <= i
        BY <2>1, <4>1 DEF BarrierInv, QueuedInv
      <4>3. e.by \in Users /\ e.by # event.by
        BY <2>1, <3>2, <4>1 DEF Event, QueuedBy
      <4>4. AtBarrier(e.by) => AtBarrier(e.by)'
        BY <1>1, <3>3, <4>3 DEF AtBarrier
      <4>5. QueuedBy(e.by)' = QueuedBy(e.by)
        BY <2>1 DEF QueuedBy
      <4>6. QED
        BY <1>3, <4>1, <4>2, <4>4, <4>5, EventPrime
    <3>6. HandledInv'
      BY <2>1 DEF HandledInv
    <3>7. QED
      BY <3>4, <3>5, <3>6 DEF BarrierInv
  <2>4. QED
    BY <1>8, <2>2, <2>3 DEF Handle
<1>9. CASE Crash
  <2>1. sem' = sem /\ q' = q /\ loop' = "ended"
    BY <1>9 DEF Crash, End
  <2>2. \A v \in Users : UserInv(v) => UserInv(v)'
    BY <1>1, <2>1 DEF UserInv, At, Program, QueuedBy, Handled
  <2>3. \A i \in DOMAIN q'.queue : QueuedInv(i)'
    BY <1>1, <2>1 DEF BarrierInv, QueuedInv, Clear, Program, QueuedBy, AtBarrier
  <2>4. HandledInv'
    BY <2>1 DEF HandledInv
  <2>5. QED
    BY <2>2, <2>3, <2>4 DEF BarrierInv
<1>10. QED
  BY <1>5, <1>6, <1>7, <1>8, <1>9 DEF Idles

-----------------------------------------------------------------------------
(* Barriers and locks hold *)

SafeInv == TypeInv /\ BarrierInv /\ MutexInv /\ RwInv

LEMMA InitSafe == Init => SafeInv
<1> SUFFICES ASSUME Init PROVE SafeInv
  OBVIOUS
<1>1. TypeInv
  BY InitType
<1>2. BarrierInv
  BY DEF Init, BarrierInv, UserInv, HandledInv
<1>3. \A v \in Users : \A ops : Did(v, ops) = 0
  <2>1. SUFFICES ASSUME NEW v \in Users, NEW ops PROVE Did(v, ops) = 0
    OBVIOUS
  <2>2. {i \in 1 .. pc[v] - 1 : Program(v)[i].op \in ops} = {}
    BY DEF Init
  <2>3. QED
    BY <2>2, FS_EmptySet DEF Did, Before
<1>4. MutexInv
  BY <1>3, ThreadsAssumption DEF Init, MutexInv
<1>5. RwInv
  <2>1. \A v \in Users : Holds(v) = 0 /\ ~InAsWriter(v)
    BY <1>3 DEF Holds, InAsWriter, Init
  <2>2. Holders = {}
    BY <2>1 DEF Holders
  <2>3. QED
    BY <2>1, <2>2, FS_EmptySet DEF RwInv, Init
<1>6. QED
  BY <1>1, <1>2, <1>4, <1>5 DEF SafeInv

LEMMA NextSafe == SafeInv /\ [Next]_vars => SafeInv'
<1> SUFFICES ASSUME SafeInv, [Next]_vars PROVE SafeInv'
  OBVIOUS
<1>1. TypeInv'
  BY NextType DEF SafeInv
<1>2. CASE Idles
  BY <1>1, <1>2, BarrierIdles, LocksIdle DEF SafeInv
<1>3. CASE \E u \in Users : Step(u)
  BY <1>1, <1>3, BarrierStep, MutexStep, RwStep DEF SafeInv
<1>4. QED
  BY <1>2, <1>3, NextCases

LEMMA SafeInvariant == Spec => []SafeInv
  BY InitSafe, NextSafe, PTL DEF Spec

\* Users, the thread, its queue and the locks have their types, whatever programs run.
THEOREM TypeCorrect == Spec => []TypeInv
  BY SafeInvariant, PTL DEF SafeInv

\* Whoever comes back from waitSynchronization finds that the thread has handled all it
\* posted before (CThread.cpp:127), through stops, restarts and posts of others.
THEOREM BarriersHold == Spec => []SyncIsBarrier
<1> DEFINE Pending == ({q.queue[i] : i \in DOMAIN q.queue} \cup {event}) \ {None}
<1>1. ASSUME SafeInv
      PROVE  SyncIsBarrier
  <2>1. SUFFICES ASSUME NEW e \in Pending
                 PROVE  Clear(e)
    BY DEF SyncIsBarrier, Clear
  <2>2. CASE \E i \in DOMAIN q.queue : e = q.queue[i]
    BY <1>1, <2>2 DEF SafeInv, BarrierInv, QueuedInv
  <2>3. CASE e = event
    BY <1>1, <2>1, <2>3 DEF SafeInv, BarrierInv, HandledInv, TypeInv, LoopInv
  <2>4. QED
    BY <2>1, <2>2, <2>3
<1>2. QED
  BY <1>1, SafeInvariant, PTL

\* A mutex has one owner, and readers and a writer are never in at once (QtCompat.h:1640,
\* 1737), for any number of users that lock again what they have locked.
THEOREM LocksHold == Spec => []LocksExclude
<1>1. SafeInv => LocksExclude
  <2> SUFFICES ASSUME SafeInv PROVE LocksExclude
    OBVIOUS
  <2>1. \A u \in Users : \A ops : Did(u, ops) \in Nat
    BY BeforeNext DEF Did, SafeInv, TypeInv
  <2>2. ASSUME NEW u \in Users, Did(u, {"lock"}) > Did(u, {"unlock"})
        PROVE  mutex.owner = u
    BY <2>1, <2>2 DEF SafeInv, MutexInv
  <2>3. ASSUME NEW u \in Users, NEW v \in Users, u # v, InAsWriter(u)
        PROVE  Did(v, {"read", "write"}) = Did(v, {"unlockRW"})
    <3>1. rw.writer = u /\ rw.writer # None
      BY <2>3, ThreadsAssumption DEF SafeInv, RwInv
    <3>2. Holds(v) = 0
      BY <2>3, <3>1 DEF SafeInv, RwInv
    <3>3. QED
      BY <2>1, <3>2 DEF Holds
  <2>4. QED
    BY <2>2, <2>3 DEF LocksExclude
<1>2. QED
  BY <1>1, SafeInvariant, PTL

-----------------------------------------------------------------------------
(* The scheduler: who is blocked, and in which order *)

Sched == [cur : Thread \cup {None}, alive : SUBSET Thread, blocked : [Thread -> Keys \cup {None}],
          before : SUBSET (Thread \X Thread), timed : SUBSET Thread, fired : SUBSET Thread,
          aborted : BOOLEAN]

\* Only blocked threads are in the order, and of any of them one was the first.
OrderInv(z) ==
  /\ \A x, y \in Thread : <<x, y>> \in z.before => z.blocked[x] # None /\ z.blocked[y] # None
  /\ \A T \in SUBSET Thread : T # {} => \E x \in T : \A y \in T : <<y, x>> \notin z.before

\* z comes from y by letting threads go.
Loosened(z, y) ==
  /\ z \in Sched /\ OrderInv(z) /\ z.alive = y.alive
  /\ \A t \in Thread : z.blocked[t] \in {None, y.blocked[t]}

LEMMA ReleaseLoosens ==
  ASSUME NEW y \in Sched, OrderInv(y), NEW ts
  PROVE  /\ Loosened(Release(y, ts), y)
         /\ \A t \in Thread : Release(y, ts).blocked[t] = IF t \in ts THEN None ELSE y.blocked[t]
<1> DEFINE b == [t \in DOMAIN y.blocked |-> IF t \in ts THEN None ELSE y.blocked[t]]
           o == {p \in y.before : p[1] \notin ts /\ p[2] \notin ts}
           z == [y EXCEPT !.blocked = b, !.before = o, !.timed = y.timed \ ts]
<1>1. Release(y, ts) = z
  BY DEF Release
<1>2. DOMAIN y.blocked = Thread /\ y.blocked \in [Thread -> Keys \cup {None}]
  BY DEF Sched
<1>3. b \in [Thread -> Keys \cup {None}] /\ \A t \in Thread : b[t] = IF t \in ts THEN None ELSE y.blocked[t]
  BY <1>2
<1>4. o \in SUBSET (Thread \X Thread) /\ o \subseteq y.before
  BY DEF Sched
<1>5. \A x1, x2 \in Thread : <<x1, x2>> \in o => x1 \notin ts /\ x2 \notin ts /\ <<x1, x2>> \in y.before
  OBVIOUS
<1> HIDE DEF b, o
<1>6. z \in Sched /\ z.blocked = b /\ z.before = o /\ z.alive = y.alive
  BY <1>3, <1>4 DEF Sched
<1> HIDE DEF z
<1>7. OrderInv(z)
  <2>1. ASSUME NEW x1 \in Thread, NEW x2 \in Thread, <<x1, x2>> \in z.before
        PROVE  z.blocked[x1] # None /\ z.blocked[x2] # None
    BY <1>3, <1>5, <1>6, <2>1 DEF OrderInv
  <2>2. ASSUME NEW T \in SUBSET Thread, T # {}
        PROVE  \E x \in T : \A x1 \in T : <<x1, x>> \notin z.before
    <3>1. PICK x \in T : \A x1 \in T : <<x1, x>> \notin y.before
      BY <2>2 DEF OrderInv
    <3>2. QED
      BY <1>4, <1>6, <3>1
  <2>3. QED
    BY <2>1, <2>2 DEF OrderInv
<1>8. QED
  BY <1>1, <1>3, <1>6, <1>7 DEF Loosened

LEMMA LoosenedTwice ==
  ASSUME NEW y, NEW z, NEW w, Loosened(z, y), Loosened(w, z)
  PROVE  Loosened(w, y)
  BY DEF Loosened

LEMMA LoosenedSelf ==
  ASSUME NEW y \in Sched, OrderInv(y)
  PROVE  Loosened(y, y)
  BY DEF Loosened

\* Passing the baton lets nobody be blocked who was not, whether or not a timeout comes due.
LEMMA ScheduleLoosens ==
  ASSUME NEW y \in Sched, OrderInv(y), NEW z \in Schedule(y)
  PROVE  Loosened(z, y)
<1>1. CASE z = y
  BY <1>1, LoosenedSelf
<1>2. CASE \E t \in Runnable(y) : z = [y EXCEPT !.cur = t]
  <2>1. PICK t \in Runnable(y) : z = [y EXCEPT !.cur = t]
    BY <1>2
  <2>2. t \in Thread
    BY DEF Runnable, Sched
  <2>3. z \in Sched /\ z.blocked = y.blocked /\ z.before = y.before /\ z.alive = y.alive
    BY <2>1, <2>2 DEF Sched
  <2>4. QED
    BY <2>3 DEF Loosened, OrderInv
<1>3. CASE \E t \in y.timed : z = [Release(y, {t}) EXCEPT !.cur = t, !.fired = {t}]
  <2>1. PICK t \in y.timed : z = [Release(y, {t}) EXCEPT !.cur = t, !.fired = {t}]
    BY <1>3
  <2>2. t \in Thread
    BY DEF Sched
  <2>3. PICK w : w = Release(y, {t})
    OBVIOUS
  <2>4. Loosened(w, y)
    BY <2>3, ReleaseLoosens
  <2>5. z = [w EXCEPT !.cur = t, !.fired = {t}]
    BY <2>1, <2>3
  <2>6. z \in Sched /\ z.blocked = w.blocked /\ z.before = w.before /\ z.alive = w.alive
    BY <2>2, <2>4, <2>5 DEF Sched, Loosened
  <2>7. QED
    BY <2>4, <2>6 DEF Loosened, OrderInv
<1>4. CASE z = [y EXCEPT !.aborted = TRUE]
  <2>1. z \in Sched /\ z.blocked = y.blocked /\ z.before = y.before /\ z.alive = y.alive
    BY <1>4 DEF Sched
  <2>2. QED
    BY <2>1 DEF Loosened, OrderInv
<1>5. QED
  BY <1>1, <1>2, <1>3, <1>4 DEF Schedule

LEMMA PreemptLoosens ==
  ASSUME NEW y \in Sched, OrderInv(y), Preemptible(y)
  PROVE  Loosened(s', y)
  BY ScheduleLoosens, LoosenedSelf DEF Preemptible

\* wake(key, true): nobody who lives stays blocked on the key.
LEMMA WakeAllWakes ==
  ASSUME NEW y \in Sched, OrderInv(y), NEW key
  PROVE  /\ Loosened(WakeAll(y, key), y)
         /\ \A t \in y.alive : y.blocked[t] = key => WakeAll(y, key).blocked[t] = None
  BY ReleaseLoosens DEF WakeAll, Waiting, Sched

\* wake(key, false): if there are threads blocked on the key, one of them goes on.
LEMMA WakeFirstWakes ==
  ASSUME NEW y \in Sched, OrderInv(y), NEW key
  PROVE  /\ Loosened(WakeFirst(y, key), y)
         /\ Waiting(y, key) # {} => \E t \in Waiting(y, key) : WakeFirst(y, key).blocked[t] = None
<1> DEFINE ts == {t \in Waiting(y, key) : \A x \in Waiting(y, key) : <<x, t>> \notin y.before}
<1>1. WakeFirst(y, key) = Release(y, ts)
  BY DEF WakeFirst
<1>2. Waiting(y, key) \in SUBSET Thread
  BY DEF Waiting, Sched
<1>3. Waiting(y, key) # {} => ts # {}
  BY <1>2 DEF OrderInv
<1> HIDE DEF ts
<1>4. QED
  <2>1. ts \subseteq Waiting(y, key)
    BY DEF ts
  <2>2. QED
    BY <1>1, <1>2, <1>3, <2>1, ReleaseLoosens

\* Whoever blocks comes last in the order.
LEMMA BlockBlocks ==
  ASSUME s \in Sched, OrderInv(s), NEW t \in Thread, s.blocked[t] = None, NEW key \in Keys,
         NEW timed \in BOOLEAN, Block(t, key, timed)
  PROVE  /\ s' \in Sched /\ OrderInv(s') /\ s'.alive = s.alive
         /\ \A x \in Thread : s'.blocked[x] \in {None, IF x = t THEN key ELSE s.blocked[x]}
<1> DEFINE b == [s.blocked EXCEPT ![t] = key]
           o == s.before \cup ({x \in DOMAIN s.blocked : s.blocked[x] # None} \X {t})
           d == IF timed THEN s.timed \cup {t} ELSE s.timed
           z == [s EXCEPT !.blocked = b, !.before = o, !.timed = d, !.fired = {}]
<1>1. s' \in Schedule(z)
  BY DEF Block
<1>2. DOMAIN s.blocked = Thread
  BY DEF Sched
<1>3. b \in [Thread -> Keys \cup {None}] /\ \A x \in Thread : b[x] = IF x = t THEN key ELSE s.blocked[x]
  BY DEF Sched
<1>4. /\ o \in SUBSET (Thread \X Thread)
      /\ \A x, y \in Thread : <<x, y>> \in o <=>
           <<x, y>> \in s.before \/ (y = t /\ s.blocked[x] # None)
  BY <1>2 DEF Sched
<1>5. d \in SUBSET Thread
  BY DEF Sched
<1> HIDE DEF b, o, d
<1>6. z \in Sched /\ z.blocked = b /\ z.before = o /\ z.alive = s.alive
  BY <1>3, <1>4, <1>5 DEF Sched
<1> HIDE DEF z
<1>7. key # None
  BY ThreadsAssumption
<1>8. \A x, y \in Thread : <<x, y>> \in s.before => s.blocked[x] # None /\ s.blocked[y] # None
  BY DEF OrderInv
<1>9. OrderInv(z)
  <2>1. ASSUME NEW x \in Thread, NEW y \in Thread, <<x, y>> \in z.before
        PROVE  z.blocked[x] # None /\ z.blocked[y] # None
    BY <1>3, <1>4, <1>6, <1>7, <1>8, <2>1
  <2>2. ASSUME NEW T \in SUBSET Thread, T # {}
        PROVE  \E x \in T : \A y \in T : <<y, x>> \notin z.before
    <3>1. CASE T = {t}
      BY <1>4, <1>6, <1>8, <3>1
    <3>2. CASE T # {t}
      <4>1. T \ {t} \in SUBSET Thread /\ T \ {t} # {}
        BY <2>2, <3>2
      <4>2. PICK x \in T \ {t} : \A y \in T \ {t} : <<y, x>> \notin s.before
        BY <4>1 DEF OrderInv
      <4>3. <<t, x>> \notin s.before
        BY <1>8, <4>2
      <4>4. \A y \in T : <<y, x>> \notin z.before
        BY <1>4, <1>6, <4>2, <4>3
      <4>5. QED
        BY <4>2, <4>4
    <3>3. QED
      BY <3>1, <3>2
  <2>3. QED
    BY <2>1, <2>2 DEF OrderInv
<1>10. Loosened(s', z)
  BY <1>1, <1>6, <1>9, ScheduleLoosens
<1>11. QED
  BY <1>3, <1>6, <1>10 DEF Loosened

-----------------------------------------------------------------------------
(* Sleep *)

Blocking == {"lock", "read", "write", "acquire", "sync", "stop"}

\* The key of the operation of u.
KeyOf(u) ==
  CASE At(u).op = "lock"    -> Key("mutex", None)
    [] At(u).op \in {"read", "write"} -> Key("rw", None)
    [] At(u).op = "acquire" -> Key("semaphore", "shared")
    [] At(u).op = "sync"    -> Key("semaphore", u)
    [] At(u).op = "stop"    -> Key("thread", Service)

\* Whoever is blocked lives, and is blocked on the key of what it does.
BlockedInv ==
  /\ \A t \in Thread : s.blocked[t] # None => t \in s.alive
  /\ s.blocked[Service] # None => loop = "loop" /\ s.blocked[Service] = Key("queue", None)
  /\ \A u \in Users : s.blocked[u] # None =>
       pc[u] <= Len(Program(u)) /\ At(u).op \in Blocking /\ s.blocked[u] = KeyOf(u)

SchedInv ==
  /\ s \in Sched /\ OrderInv(s)
  /\ Service \in s.alive <=> loop \in {"loop", "handle"}
  /\ BlockedInv

\* Why u sleeps.
Reason(u) ==
  /\ At(u).op = "lock"    => mutex.owner # None \/ \E v \in Users : AboutToLock(v)
  /\ At(u).op = "read"    => rw.writer # None
  /\ At(u).op = "write"   => rw.writer # None \/ rw.readers > 0
  /\ At(u).op = "acquire" => sem["shared"] < At(u).n
  /\ At(u).op = "sync"    => sem[u] = 0
  /\ At(u).op = "stop"    => loop # "ended"

\* Only startThread brings the thread to life.
Starts(u) == StartThread(u) /\ loop' = "loop"

\* What u does to the scheduler: it lets others go, or blocks for a reason of its own.
UserEffect(u) ==
  /\ s' \in Sched /\ OrderInv(s')
  /\ s'.alive = IF Starts(u) THEN s.alive \cup {Service} ELSE s.alive
  /\ \A t \in Thread \ {u} : s'.blocked[t] \in {None, s.blocked[t]}
  /\ s'.blocked[u] # None =>
       /\ pc' = pc /\ At(u).op \in Blocking /\ s'.blocked[u] = KeyOf(u)
       /\ mutex' = mutex /\ rw' = rw /\ sem' = sem /\ loop' = loop
       /\ At(u).op = "lock" => mutex.owner # None
       /\ At(u).op # "lock" => Reason(u)

\* Nothing a thread does breaks this.
ThreadsInv == SafeInv /\ SchedInv /\ SleepsForAReason

LEMMA Effects ==
  ASSUME SafeInv, SchedInv, NEW u \in Users, Step(u)
  PROVE  UserEffect(u)
<1>1. /\ s \in Sched /\ OrderInv(s) /\ s.blocked[u] = None /\ u \in Thread
      /\ u # Service /\ u \in s.alive
  BY StepFrame, ThreadsAssumption DEF SafeInv, SchedInv, Turn, Thread
<1>2. Loosened(s, s)
  BY <1>1, LoosenedSelf
<1>3. ASSUME Loosened(s', s), ~Starts(u)
      PROVE  UserEffect(u)
  BY <1>1, <1>3 DEF UserEffect, Loosened
<1>4. ASSUME NEW y, Loosened(y, s), Preemptible(y), ~Starts(u)
      PROVE  UserEffect(u)
  <2>1. Loosened(s', y)
    BY <1>4, PreemptLoosens DEF Loosened
  <2>2. QED
    BY <1>3, <1>4, <2>1, LoosenedTwice
<1>5. ASSUME NEW key \in Keys, NEW timed \in BOOLEAN, Block(u, key, timed), ~Starts(u),
             /\ pc' = pc /\ At(u).op \in Blocking /\ key = KeyOf(u)
             /\ mutex' = mutex /\ rw' = rw /\ sem' = sem /\ loop' = loop
             /\ At(u).op = "lock" => mutex.owner # None
             /\ At(u).op # "lock" => Reason(u)
      PROVE  UserEffect(u)
  <2>1. /\ s' \in Sched /\ OrderInv(s') /\ s'.alive = s.alive
        /\ \A x \in Thread : s'.blocked[x] \in {None, IF x = u THEN key ELSE s.blocked[x]}
    BY <1>1, <1>5, BlockBlocks
  <2>2. QED
    BY <1>1, <1>5, <2>1 DEF UserEffect
<1>6. /\ Key("mutex", None) \in Keys /\ Key("rw", None) \in Keys
      /\ Key("semaphore", "shared") \in Keys /\ Key("semaphore", u) \in Keys
      /\ Key("thread", Service) \in Keys
  BY DEF Keys, Key
<1>7. u # None
  BY ThreadsAssumption
<1>8. CASE Lock(u)
  <2>1. CASE YieldFirst(u)
    BY <1>1, <1>3, <1>8, <2>1, ScheduleLoosens DEF YieldFirst, Lock, Starts, StartThread
  <2>2. CASE s' = s
    BY <1>2, <1>3, <1>8, <2>2 DEF Lock, Starts, StartThread
  <2>3. CASE ~FreeFor(u) /\ Wait(u, Key("mutex", None)) /\ UNCHANGED locks
    BY <1>5, <1>6, <1>8, <2>3
       DEF Lock, Wait, Stay, locks, service, FreeFor, Starts, StartThread, KeyOf, Blocking
  <2>4. QED
    BY <1>8, <2>1, <2>2, <2>3 DEF Lock
<1>9. CASE Unlock(u)
  <2>1. PICK y : y = IF mutex.count = 1 THEN WakeFirst(s, Key("mutex", None)) ELSE s
    OBVIOUS
  <2>2. Loosened(y, s)
    BY <1>1, <1>2, <2>1, WakeFirstWakes
  <2>3. QED
    BY <1>4, <1>9, <2>1, <2>2 DEF Unlock, Starts, StartThread
<1>10. CASE ReadLock(u)
  <2>1. CASE s' = s
    BY <1>2, <1>3, <1>10, <2>1 DEF ReadLock, Starts, StartThread
  <2>2. CASE rw.writer # None /\ Wait(u, Key("rw", None)) /\ UNCHANGED rw
    BY <1>5, <1>6, <1>10, <2>2
       DEF ReadLock, Wait, Stay, service, Starts, StartThread, KeyOf, Blocking, Reason
  <2>3. QED
    BY <1>10, <2>1, <2>2 DEF ReadLock
<1>11. CASE WriteLock(u)
  <2>1. CASE s' = s
    BY <1>2, <1>3, <1>11, <2>1 DEF WriteLock, Starts, StartThread
  <2>2. CASE (rw.writer # None \/ rw.readers > 0) /\ Wait(u, Key("rw", None)) /\ UNCHANGED rw
    BY <1>5, <1>6, <1>11, <2>2
       DEF WriteLock, Wait, Stay, service, Starts, StartThread, KeyOf, Blocking, Reason
  <2>3. QED
    BY <1>11, <2>1, <2>2 DEF WriteLock
<1>12. CASE UnlockRW(u)
  BY <1>1, <1>3, <1>12, WakeAllWakes DEF UnlockRW, Starts, StartThread
<1>13. CASE ReleaseSemaphore(u)
  BY <1>1, <1>4, <1>13, WakeAllWakes DEF ReleaseSemaphore, Put, Starts, StartThread
<1>14. CASE Acquire(u)
  <2>1. CASE s' = s
    BY <1>2, <1>3, <1>14, <2>1 DEF Acquire, Starts, StartThread
  <2>2. CASE /\ sem["shared"] < At(u).n /\ Block(u, Key("semaphore", "shared"), FALSE)
             /\ Stay(u, "again") /\ UNCHANGED sem
    BY <1>5, <1>6, <1>14, <2>2
       DEF Acquire, Stay, locks, service, Starts, StartThread, KeyOf, Blocking, Reason
  <2>3. QED
    BY <1>14, <2>1, <2>2 DEF Acquire
<1>15. CASE TryAcquire(u)
  BY <1>2, <1>3, <1>15 DEF TryAcquire, Starts, StartThread
<1>16. CASE StartThread(u)
  <2> SUFFICES ASSUME Starts(u) PROVE UserEffect(u)
    BY <1>2, <1>3, <1>16 DEF Starts, StartThread
  <2>1. s' = [s EXCEPT !.alive = s.alive \cup {Service}]
    BY DEF Starts, StartThread, LoopInv, SafeInv, TypeInv
  <2>2. s.alive \cup {Service} \in SUBSET Thread
    BY <1>1 DEF Sched, Thread
  <2>3. /\ s' \in Sched /\ s'.alive = s.alive \cup {Service}
        /\ s'.blocked = s.blocked /\ s'.before = s.before
    BY <1>1, <2>1, <2>2 DEF Sched
  <2>4. QED
    BY <1>1, <1>16, <2>3 DEF UserEffect, OrderInv
<1>17. CASE PostEvent(u) \/ PostSync(u)
  <2>1. PICK e : Push(e)
    BY <1>17 DEF PostEvent, PostSync
  <2>2. ~Starts(u)
    BY <1>17 DEF PostEvent, PostSync, Starts, StartThread
  <2>3. QED
    BY <1>1, <1>2, <1>3, <1>4, <2>1, <2>2, WakeAllWakes DEF Push
<1>18. CASE WaitSynchronization(u)
  <2>1. ~Starts(u)
    BY <1>18 DEF WaitSynchronization, Starts, StartThread
  <2>2. CASE s' = s
    BY <1>2, <1>3, <2>1, <2>2
  <2>3. CASE s' = [s EXCEPT !.fired = {}, !.aborted = tries[u] + 1 >= Tries]
    <3> DEFINE late == tries[u] + 1 >= Tries
    <3>1. PICK a \in BOOLEAN : a = late
      <4>1. late \in BOOLEAN
        OBVIOUS
      <4> HIDE DEF late
      <4>2. QED
        BY <4>1
    <3>2. s' = [s EXCEPT !.fired = {}, !.aborted = a]
      BY <2>3, <3>1
    <3>3. s' \in Sched /\ s'.alive = s.alive /\ s'.blocked = s.blocked /\ s'.before = s.before
      BY <1>1, <3>2 DEF Sched
    <3>4. QED
      BY <1>1, <1>3, <2>1, <3>3 DEF Loosened, OrderInv
  <2>4. CASE /\ sem[u] = 0 /\ UNCHANGED <<sem, pc, phase>>
             /\ Block(u, Key("semaphore", u), Serial)
    <3>1. Serial \in BOOLEAN
      BY ThreadsAssumption DEF SafeInv, TypeInv, Serial
    <3>2. QED
      BY <1>5, <1>6, <1>18, <2>1, <2>4, <3>1
         DEF WaitSynchronization, locks, service, KeyOf, Blocking, Reason
  <2>5. QED
    BY <1>18, <2>2, <2>3, <2>4 DEF WaitSynchronization
<1>19. CASE Stop(u)
  BY <1>1, <1>2, <1>3, <1>19, WakeAllWakes DEF Stop, StopThread, Starts, StartThread
<1>20. CASE Join(u)
  <2>1. CASE s' = s
    BY <1>2, <1>3, <1>20, <2>1 DEF Join, Starts, StartThread
  <2>2. CASE /\ loop # "ended" /\ Block(u, Key("thread", Service), FALSE)
             /\ UNCHANGED <<loop, q, pc, phase>>
    BY <1>5, <1>6, <1>20, <2>2 DEF Join, locks, Starts, StartThread, KeyOf, Blocking, Reason
  <2>3. QED
    BY <1>20, <2>1, <2>2 DEF Join
<1>21. CASE Delete(u)
  BY <1>2, <1>3, <1>21 DEF Delete, Starts, StartThread
<1>22. QED
  BY <1>8, <1>9, <1>10, <1>11, <1>12, <1>13, <1>14, <1>15, <1>16, <1>17, <1>18, <1>19, <1>20,
     <1>21 DEF Step

\* After a step of u whoever is still blocked is blocked on the key of what it does.
LEMMA BlockedStep ==
  ASSUME SafeInv, SchedInv, NEW u \in Users, Step(u)
  PROVE  SchedInv'
<1>1. UserEffect(u) /\ u \in s.alive /\ u # Service /\ u \in Thread
  BY Effects, StepFrame, ThreadsAssumption DEF Turn, Thread, SafeInv
<1>2. s' \in Sched /\ OrderInv(s')
  BY <1>1 DEF UserEffect
<1>3. scenario' = scenario /\ pc[u] <= Len(Program(u))
  BY StepFrame DEF SafeInv
<1>4. Service \in s'.alive <=> loop' \in {"loop", "handle"}
  <2>1. CASE StartThread(u)
    <3>1. CASE loop' = "loop"
      BY <1>1, <2>1, <3>1 DEF UserEffect, Starts
    <3>2. CASE loop' # "loop"
      <4>1. s' = s /\ loop' = loop
        BY <2>1, <3>2 DEF StartThread
      <4> QED
        BY <4>1 DEF SchedInv
    <3> QED
      BY <3>1, <3>2
  <2>2. CASE Join(u)
    BY <1>1, <2>2 DEF UserEffect, SchedInv, Join, Starts, StartThread
  <2>3. CASE Stop(u)
    BY <1>1, <2>3 DEF UserEffect, SchedInv, Stop, Starts, StartThread
  <2>4. CASE At(u).op \notin {"start", "stop"}
    BY <1>1, <2>4, StepFrame DEF UserEffect, SchedInv, Starts, StartThread, SafeInv
  <2>5. QED
    BY <2>1, <2>2, <2>3, <2>4, StepOf
<1>5. \A t \in Thread : t # u => s'.blocked[t] \in {None, s.blocked[t]}
  BY <1>1 DEF UserEffect
<1>6. s.alive \subseteq s'.alive
  BY <1>1 DEF UserEffect
<1>7. \A t \in Thread : s'.blocked[t] # None => t \in s'.alive
  BY <1>1, <1>5, <1>6 DEF SchedInv, BlockedInv
<1>8. s'.blocked[Service] # None => loop' = "loop" /\ s'.blocked[Service] = Key("queue", None)
  <2>1. SUFFICES ASSUME s'.blocked[Service] # None
                 PROVE  loop' = "loop" /\ s'.blocked[Service] = Key("queue", None)
    OBVIOUS
  <2>2. s'.blocked[Service] = s.blocked[Service]
    BY <1>1, <1>5, <2>1 DEF Thread
  <2>3. loop = "loop" /\ s.blocked[Service] = Key("queue", None)
    BY <2>1, <2>2 DEF SchedInv, BlockedInv
  <2>4. loop' = "loop"
    BY <2>3, StepFrame, StepOf DEF Starts, StartThread, Join, Stop, SafeInv
  <2>5. QED
    BY <2>2, <2>3, <2>4
<1>9. ASSUME NEW v \in Users, s'.blocked[v] # None
      PROVE  pc'[v] <= Len(Program(v)') /\ At(v)'.op \in Blocking /\ s'.blocked[v] = KeyOf(v)'
  <2>1. pc'[v] = pc[v]
    BY <1>1, <1>9, OthersStay DEF UserEffect, SafeInv
  <2>2. Program(v)' = Program(v) /\ At(v)' = At(v) /\ KeyOf(v)' = KeyOf(v)
    BY <1>3, <2>1 DEF Program, At, KeyOf
  <2>3. CASE v = u
    BY <1>1, <1>3, <1>9, <2>1, <2>2, <2>3 DEF UserEffect
  <2>4. CASE v # u
    BY <1>5, <1>9, <2>1, <2>2, <2>4 DEF SchedInv, BlockedInv, Thread
  <2>5. QED
    BY <2>3, <2>4
<1>10. QED
  BY <1>2, <1>4, <1>7, <1>8, <1>9 DEF SchedInv, BlockedInv

\* Keys of different kinds are different.
LEMMA MutexKey ==
  ASSUME SchedInv, NEW t \in Thread, s.blocked[t] = Key("mutex", None), s.blocked[t] # None
  PROVE  t \in Users /\ At(t).op = "lock" /\ pc[t] <= Len(Program(t)) /\ t \in s.alive
<1>1. \A x, y : Key("mutex", x) # Key("queue", y) /\ Key("mutex", x) # Key("rw", y)
        /\ Key("mutex", x) # Key("semaphore", y) /\ Key("mutex", x) # Key("thread", y)
  BY DEF Key
<1>2. t \in Users
  BY <1>1 DEF SchedInv, BlockedInv, Thread
<1>3. At(t).op \in Blocking /\ KeyOf(t) = Key("mutex", None) /\ pc[t] <= Len(Program(t))
  BY <1>2 DEF SchedInv, BlockedInv
<1>4. At(t).op = "lock"
  BY <1>1, <1>3 DEF Blocking, KeyOf
<1>5. QED
  BY <1>2, <1>3, <1>4 DEF SchedInv, BlockedInv

\* Who was about to lock, and is not the actor, still is.
LEMMA StillAboutToLock ==
  ASSUME SafeInv, SchedInv, NEW u \in Users, Step(u), NEW v \in Users, v # u, AboutToLock(v)
  PROVE  AboutToLock(v)'
<1>1. UserEffect(u)
  BY Effects
<1>2. v \in s'.alive /\ s'.blocked[v] = None
  BY <1>1 DEF UserEffect, AboutToLock, Runnable, Thread
<1>3. pc'[v] = pc[v] /\ At(v)' = At(v) /\ Program(v)' = Program(v)
  BY OthersStay DEF SafeInv
<1>4. QED
  BY <1>2, <1>3 DEF AboutToLock, Runnable

\* Whoever waits for the mutex does so while it is owned or another is about to take it.
LEMMA LockReason ==
  ASSUME SafeInv, SchedInv, NEW u \in Users, Step(u), NEW v \in Users,
         s'.blocked[v] # None, v # u, s.blocked[v] = s'.blocked[v],
         At(v).op = "lock", Reason(v)
  PROVE  mutex'.owner # None \/ \E w \in Users : AboutToLock(w)'
<1>1. mutex.owner # None \/ \E w \in Users : AboutToLock(w)
  BY DEF Reason
<1>2. UserEffect(u) /\ u \in s.alive /\ s.blocked[u] = None /\ v \in Thread /\ u \in Thread
  BY Effects, StepFrame DEF Turn, Thread, SafeInv
<1>3. s.blocked[v] = Key("mutex", None) /\ v \in s.alive
  BY <1>2 DEF SchedInv, BlockedInv, KeyOf
<1>4. CASE At(u).op \notin {"lock", "unlock"}
  <2>1. mutex' = mutex
    BY <1>4, StepFrame DEF SafeInv
  <2>2. \A w \in Users : AboutToLock(w) => AboutToLock(w)'
    BY <1>4, StillAboutToLock DEF AboutToLock
  <2>3. QED
    BY <1>1, <2>1, <2>2
<1>5. CASE Lock(u)
  <2>1. CASE YieldFirst(u)
    <3>1. /\ u \in s'.alive /\ s'.blocked[u] = None /\ pc' = pc /\ scenario' = scenario
          /\ pc[u] <= Len(Program(u)) /\ At(u).op = "lock"
      <4>1. Loosened(s', s)
        BY <2>1, ScheduleLoosens DEF SchedInv, YieldFirst
      <4>2. QED
        BY <1>2, <1>5, <2>1, <4>1, StepFrame DEF Loosened, YieldFirst, Stay, Lock, SafeInv
    <3>2. AboutToLock(u)'
      BY <3>1 DEF AboutToLock, Runnable, At, Program
    <3>3. QED
      BY <3>2
  <2>2. CASE mutex' = [owner |-> u, count |-> mutex.count + 1]
    BY <2>2, ThreadsAssumption
  <2>3. CASE ~FreeFor(u) /\ UNCHANGED locks
    BY <2>3 DEF FreeFor, locks
  <2>4. QED
    BY <1>5, <2>1, <2>2, <2>3 DEF Lock
<1>6. CASE Unlock(u)
  <2>1. mutex.owner = u
    <3>1. Did(u, {"lock"}) \in Nat /\ Did(u, {"unlock"}) \in Nat
          /\ Did(u, {"unlock"}) < Did(u, {"lock"})
      BY <1>6, DidStep, UnlocksHeld DEF Unlock, SafeInv
    <3>2. QED
      BY <3>1 DEF SafeInv, MutexInv
  <2>2. CASE mutex.count = 1
    <3>1. Waiting(s, Key("mutex", None)) # {}
      BY <1>3 DEF Waiting
    <3>2. PICK y : y = WakeFirst(s, Key("mutex", None))
      OBVIOUS
    <3>3. Loosened(y, s) /\ \E t \in Waiting(s, Key("mutex", None)) : y.blocked[t] = None
      BY <3>1, <3>2, WakeFirstWakes DEF SchedInv
    <3>4. PICK t \in Waiting(s, Key("mutex", None)) : y.blocked[t] = None
      BY <3>3
    <3>5. Preemptible(y)
      BY <1>6, <2>2, <3>2 DEF Unlock
    <3>6. Loosened(s', y)
      BY <3>3, <3>5, PreemptLoosens DEF Loosened
    <3>7. t \in Thread /\ s.blocked[t] = Key("mutex", None) /\ s.blocked[t] # None
      BY <1>3, <3>4 DEF Waiting, SchedInv, Sched
    <3>8. t \in Users /\ At(t).op = "lock" /\ pc[t] <= Len(Program(t)) /\ t \in s.alive /\ t # u
      BY <1>2, <3>7, MutexKey
    <3>9. t \in s'.alive /\ s'.blocked[t] = None
      BY <3>3, <3>4, <3>6, <3>7, <3>8 DEF Loosened
    <3>10. pc'[t] = pc[t] /\ At(t)' = At(t) /\ Program(t)' = Program(t)
      BY <3>8, OthersStay DEF SafeInv
    <3>11. AboutToLock(t)'
      BY <3>8, <3>9, <3>10 DEF AboutToLock, Runnable
    <3>12. QED
      BY <3>8, <3>11
  <2>3. CASE mutex.count # 1
    <3>1. mutex'.owner = mutex.owner
      BY <1>6, <2>3 DEF Unlock, SafeInv, TypeInv
    <3>2. QED
      BY <2>1, <3>1, ThreadsAssumption
  <2>4. QED
    BY <2>2, <2>3
<1>7. QED
  BY <1>4, <1>5, <1>6, StepOf

\* What woke nobody did not take away the reason of anybody.
LEMMA OtherReasons ==
  ASSUME SafeInv, SchedInv, NEW u \in Users, Step(u), NEW v \in Users,
         s'.blocked[v] # None, v # u, s.blocked[v] = s'.blocked[v], Reason(v)
  PROVE  Reason(v)'
<1>1. UserEffect(u) /\ v \in Thread /\ At(v)' = At(v)
  BY Effects, OthersStay DEF Thread, SafeInv
<1>2. s.blocked[v] = KeyOf(v) /\ v \in s.alive /\ s \in Sched /\ OrderInv(s)
  BY <1>1 DEF SchedInv, BlockedInv
<1>3. At(v).op = "lock" => mutex'.owner # None \/ \E w \in Users : AboutToLock(w)'
  BY LockReason
<1>4. /\ At(v).op = "read" => rw'.writer # None
      /\ At(v).op = "write" => rw'.writer # None \/ rw'.readers > 0
  <2>1. CASE At(u).op \notin {"read", "write", "unlockRW"}
    <3>1. rw' = rw
      BY <2>1, StepFrame DEF SafeInv
    <3>2. QED
      BY <3>1 DEF Reason
  <2>2. CASE ReadLock(u)
    <3>1. rw.readers >= 0 /\ rw.readers \in Int
      <4>1. Cardinality(Holders) \in Nat
        BY FS_CardinalityType DEF SafeInv, RwInv
      <4>2. QED
        BY <4>1 DEF SafeInv, RwInv, TypeInv
    <3>2. QED
      BY <2>2, <3>1 DEF ReadLock, Reason, SafeInv, TypeInv
  <2>3. CASE WriteLock(u)
    BY <2>3, ThreadsAssumption DEF WriteLock, Reason, SafeInv, TypeInv
  <2>4. CASE UnlockRW(u)
    <3>1. At(v).op \notin {"read", "write"}
      <4>1. SUFFICES ASSUME At(v).op \in {"read", "write"} PROVE FALSE
        OBVIOUS
      <4>2. s.blocked[v] = Key("rw", None)
        BY <1>2, <4>1 DEF KeyOf
      <4>3. s'.blocked[v] = None
        BY <1>2, <2>4, <4>2, WakeAllWakes DEF UnlockRW
      <4>4. QED
        BY <4>3
    <3>2. QED
      BY <3>1
  <2>5. QED
    BY <2>1, <2>2, <2>3, <2>4, StepOf
<1>5. At(v).op = "acquire" => sem'["shared"] < At(v).n
  <2>1. SUFFICES ASSUME At(v).op = "acquire"
                 PROVE  sem'["shared"] < At(v).n
    OBVIOUS
  <2>2. /\ sem["shared"] < At(v).n /\ s.blocked[v] = Key("semaphore", "shared")
        /\ sem \in [Users \cup {"shared"} -> Int] /\ u # "shared"
    BY <1>2, <2>1, ThreadsAssumption DEF Reason, KeyOf, SafeInv, TypeInv
  <2>3. At(u).n \in Nat /\ At(v).n \in Nat
    <3>1. pc[v] <= Len(Program(v)) /\ pc[u] <= Len(Program(u))
      BY StepFrame DEF SchedInv, BlockedInv, SafeInv
    <3>2. QED
      BY <3>1, AtType DEF Operation, SafeInv
  <2>4. CASE ReleaseSemaphore(u)
    <3>1. PICK y : y = WakeAll(s, Key("semaphore", "shared"))
      OBVIOUS
    <3>2. Loosened(y, s) /\ y.blocked[v] = None
      BY <1>2, <2>2, <3>1, WakeAllWakes
    <3>3. Preemptible(y)
      BY <2>4, <3>1 DEF ReleaseSemaphore, Put
    <3>4. Loosened(s', y)
      BY <3>2, <3>3, PreemptLoosens DEF Loosened
    <3>5. QED
      BY <1>1, <3>2, <3>4 DEF Loosened
  <2>5. CASE Acquire(u) \/ TryAcquire(u)
    <3>1. sem' = sem \/ sem' = [sem EXCEPT !["shared"] = sem["shared"] - At(u).n]
      BY <2>5 DEF Acquire, TryAcquire
    <3>2. sem'["shared"] = sem["shared"] \/ sem'["shared"] = sem["shared"] - At(u).n
      BY <2>2, <3>1
    <3>3. QED
      BY <2>2, <2>3, <3>2
  <2>6. CASE WaitSynchronization(u)
    BY <2>2, <2>6 DEF WaitSynchronization
  <2>7. CASE PostSync(u)
    BY <2>2, <2>7 DEF PostSync
  <2>8. QED
    BY <2>2, <2>4, <2>5, <2>6, <2>7, StepFrame, StepOf
       DEF Step, Lock, Unlock, ReadLock, WriteLock, UnlockRW, StartThread, PostEvent, Stop, Join, Delete
<1>6. At(v).op = "sync" => sem'[v] = 0
  BY OwnSemaphore DEF Reason, SafeInv
<1>7. At(v).op = "stop" => loop' # "ended"
  BY StepFrame, StepOf DEF Reason, SafeInv, StartThread, Stop, Join
<1>8. QED
  BY <1>1, <1>3, <1>4, <1>5, <1>6, <1>7 DEF Reason

\* The service sleeps only while there is nothing for it to do.
ServiceReason == s.blocked[Service] # None => q.queue = <<>> /\ ~q.shouldStop

LEMMA ServiceStep ==
  ASSUME SafeInv, SchedInv, ServiceReason, NEW u \in Users, Step(u)
  PROVE  ServiceReason'
<1>1. SUFFICES ASSUME s'.blocked[Service] # None
               PROVE  q'.queue = <<>> /\ ~q'.shouldStop
  BY DEF ServiceReason
<1>2. UserEffect(u) /\ Service \in Thread /\ u # Service
  BY Effects, ThreadsAssumption DEF Thread
<1>3. s.blocked[Service] = s'.blocked[Service]
  BY <1>1, <1>2 DEF UserEffect
<1>4. /\ q.queue = <<>> /\ ~q.shouldStop /\ loop = "loop" /\ Service \in s.alive
      /\ s.blocked[Service] = Key("queue", None) /\ s \in Sched /\ OrderInv(s)
  BY <1>1, <1>2, <1>3 DEF ServiceReason, SchedInv, BlockedInv
<1>5. ASSUME NEW y, y = WakeAll(s, Key("queue", None)), Loosened(s', y)
      PROVE  FALSE
  <2>1. y.blocked[Service] = None
    BY <1>4, <1>5, WakeAllWakes
  <2>2. QED
    BY <1>1, <1>2, <1>5, <2>1 DEF Loosened
<1>6. CASE PostEvent(u) \/ PostSync(u)
  <2>1. PICK e : Push(e)
    BY <1>6 DEF PostEvent, PostSync
  <2>2. CASE q' = q
    BY <1>4, <2>2
  <2>3. CASE Preemptible(WakeAll(s, Key("queue", None)))
    <3>1. PICK y : y = WakeAll(s, Key("queue", None))
      OBVIOUS
    <3>2. Loosened(y, s)
      BY <1>4, <3>1, WakeAllWakes
    <3>3. Preemptible(y)
      BY <2>3, <3>1
    <3>4. Loosened(s', y)
      BY <3>2, <3>3, PreemptLoosens DEF Loosened
    <3>5. QED
      BY <1>5, <3>1, <3>4
  <2>4. QED
    BY <2>1, <2>2, <2>3 DEF Push
<1>7. CASE Stop(u)
  <2>1. CASE q' = q
    BY <1>4, <2>1
  <2>2. CASE s' = WakeAll(s, Key("queue", None))
    <3>1. s'.blocked[Service] = None
      BY <1>4, <2>2, WakeAllWakes
    <3>2. QED
      BY <1>1, <3>1
  <2>3. QED
    BY <1>7, <2>1, <2>2 DEF Stop, StopThread
<1>8. CASE q' = q \/ StartThread(u) \/ Join(u) \/ Delete(u)
  <2>1. q \in [exists : BOOLEAN, queue : Seq(Event), shouldStop : BOOLEAN, started : BOOLEAN]
    BY DEF SafeInv, TypeInv, LoopInv
  <2>2. CASE StartThread(u)
    BY <1>4, <2>2 DEF StartThread
  <2>3. CASE Join(u)
    BY <1>4, <2>1, <2>3 DEF Join
  <2>4. CASE Delete(u)
    BY <2>4 DEF Delete
  <2>5. QED
    BY <1>4, <1>8, <2>2, <2>3, <2>4
<1>9. CASE WaitSynchronization(u)
  BY <1>8, <1>9 DEF WaitSynchronization, service
<1>10. QED
  BY <1>6, <1>7, <1>8, <1>9, StepFrame, StepOf DEF SafeInv

\* Every sleeper has its reason, said of the threads that are blocked.
LEMMA ReasonsAre ==
  ASSUME SchedInv
  PROVE  SleepsForAReason <=>
           ServiceReason /\ \A u \in Users : s.blocked[u] # None => Reason(u)
<1>1. \A t \in Thread : Asleep(t) <=> s.blocked[t] # None
  BY DEF Asleep, SchedInv, BlockedInv
<1>2. QED
  BY <1>1 DEF SleepsForAReason, ServiceReason, Reason, Thread

LEMMA ReasonStep ==
  ASSUME ThreadsInv, NEW u \in Users, Step(u)
  PROVE  SchedInv' /\ SleepsForAReason'
<1>1. SafeInv /\ SchedInv /\ SchedInv'
  BY BlockedStep DEF ThreadsInv
<1>2. ServiceReason /\ \A v \in Users : s.blocked[v] # None => Reason(v)
  BY <1>1, ReasonsAre DEF ThreadsInv
<1>3. ServiceReason'
  BY <1>1, <1>2, ServiceStep
<1>4. UserEffect(u) /\ scenario' = scenario
  BY <1>1, Effects, StepFrame DEF SafeInv
<1>5. ASSUME NEW v \in Users, s'.blocked[v] # None
      PROVE  Reason(v)'
  <2>1. CASE v = u
    <3>1. /\ pc' = pc /\ mutex' = mutex /\ rw' = rw /\ sem' = sem /\ loop' = loop
          /\ At(u).op = "lock" => mutex.owner # None
          /\ At(u).op # "lock" => Reason(u)
      BY <1>4, <1>5, <2>1 DEF UserEffect
    <3>2. At(u)' = At(u)
      BY <1>4, <3>1 DEF At, Program
    <3>3. QED
      BY <2>1, <3>1, <3>2 DEF Reason
  <2>2. CASE v # u
    <3>1. s.blocked[v] = s'.blocked[v]
      BY <1>4, <1>5, <2>2 DEF UserEffect, Thread
    <3>2. QED
      BY <1>1, <1>2, <1>5, <2>2, <3>1, OtherReasons
  <2>3. QED
    BY <2>1, <2>2
<1>6. SleepsForAReason' <=>
        ServiceReason' /\ \A v \in Users : s'.blocked[v] # None => Reason(v)'
  <2>1. \A t \in Thread : Asleep(t)' <=> s'.blocked[t] # None
    BY <1>1 DEF Asleep, SchedInv, BlockedInv
  <2>2. QED
    BY <2>1 DEF SleepsForAReason, ServiceReason, Reason, Thread
<1>7. QED
  BY <1>1, <1>3, <1>5, <1>6

\* What the thread, or the end of a user, does to the scheduler and to what users wait for.
IdleEffect ==
  /\ s' \in Sched /\ OrderInv(s')
  /\ Service \in s'.alive <=> loop' \in {"loop", "handle"}
  /\ s'.blocked[Service] # None =>
       /\ Service \in s'.alive /\ loop' = "loop" /\ s'.blocked[Service] = Key("queue", None)
       /\ q'.queue = <<>> /\ ~q'.shouldStop
  /\ \A v \in Users : s'.blocked[v] # None =>
       /\ v \in s'.alive /\ s.blocked[v] = s'.blocked[v]
       /\ At(v).op = "sync" => sem'[v] = sem[v]
       /\ At(v).op = "acquire" => sem'["shared"] = sem["shared"]
       /\ At(v).op = "stop" => loop' # "ended"
  /\ \A v \in Users : AboutToLock(v) => v \in s'.alive /\ s'.blocked[v] = None

LEMMA IdleEffects ==
  ASSUME SafeInv, SchedInv, ServiceReason, Idles, \A u \in Users : s.blocked[u] # None => Reason(u)
  PROVE  IdleEffect
<1>1. s \in Sched /\ OrderInv(s) /\ Service \in Thread /\ Service \notin Users
  BY ThreadsAssumption DEF SchedInv, Thread
<1>2. \A v \in Users : v \in Thread /\ v # Service
  BY ThreadsAssumption DEF Thread
<1>3. \A v \in Users : s.blocked[v] # None =>
         v \in s.alive /\ s.blocked[v] = KeyOf(v) /\ pc[v] <= Len(Program(v))
           /\ (At(v).op = "stop" => loop # "ended")
  BY <1>2 DEF SchedInv, BlockedInv, Reason
<1>4. \A v \in Users : AboutToLock(v) =>
         v \in s.alive /\ s.blocked[v] = None /\ pc[v] <= Len(Program(v))
  BY DEF AboutToLock, Runnable
<1>5. CASE UNCHANGED vars
  <2>1. s' = s /\ loop' = loop /\ q' = q /\ sem' = sem
    BY <1>5 DEF vars, service
  <2>2. s.blocked[Service] # None => Service \in s.alive
    BY <1>1 DEF SchedInv, BlockedInv
  <2>3. QED
    BY <1>1, <1>3, <1>4, <2>1, <2>2 DEF IdleEffect, SchedInv, BlockedInv, ServiceReason
<1>6. CASE Take
  <2>1. s' = s /\ loop' = "handle" /\ sem' = sem /\ s.blocked[Service] = None /\ Service \in s.alive
    BY <1>6 DEF Take, Turn
  <2>2. QED
    BY <1>1, <1>3, <1>4, <2>1 DEF IdleEffect
<1>7. CASE Sleep
  <2>1. /\ s.blocked[Service] = None /\ Service \in s.alive /\ Block(Service, Key("queue", None), FALSE)
        /\ sem' = sem /\ q' = q /\ loop' = loop /\ loop = "loop" /\ q.queue = <<>> /\ ~q.shouldStop
    BY <1>7 DEF Sleep, Turn, service
  <2>2. Key("queue", None) \in Keys
    BY DEF Keys, Key
  <2>3. /\ s' \in Sched /\ OrderInv(s') /\ s'.alive = s.alive
        /\ \A x \in Thread :
             s'.blocked[x] \in {None, IF x = Service THEN Key("queue", None) ELSE s.blocked[x]}
    BY <1>1, <2>1, <2>2, BlockBlocks
  <2>4. QED
    BY <1>1, <1>2, <1>3, <1>4, <2>1, <2>3 DEF IdleEffect
<1>8. CASE Handle
  <2>1. /\ loop = "handle" /\ loop' = "loop" /\ s.blocked[Service] = None /\ Service \in s.alive
    BY <1>8 DEF Handle, Turn
  <2>2. ASSUME Loosened(s', s),
               \A v \in Users : s'.blocked[v] # None =>
                 /\ At(v).op = "sync" => sem'[v] = sem[v]
                 /\ At(v).op = "acquire" => sem'["shared"] = sem["shared"]
        PROVE  IdleEffect
    BY <1>1, <1>2, <1>3, <1>4, <2>1, <2>2 DEF IdleEffect, Loosened
  <2>3. CASE sem' = sem /\ s' = s
    BY <1>1, <2>2, <2>3, LoosenedSelf
  <2>4. CASE Put(event.by, 1)
    <3>1. event \in Event
      BY <2>1 DEF SafeInv, TypeInv, LoopInv
    <3>2. PICK x \in Users : x = event.by
      BY <3>1 DEF Event
    <3>3. sem' = [sem EXCEPT ![x] = sem[x] + 1] /\ Preemptible(WakeAll(s, Key("semaphore", x)))
      BY <2>4, <3>2 DEF Put
    <3>4. PICK y : y = WakeAll(s, Key("semaphore", x))
      OBVIOUS
    <3>5. Loosened(y, s) /\ \A t \in s.alive : s.blocked[t] = Key("semaphore", x) => y.blocked[t] = None
      BY <1>1, <3>4, WakeAllWakes
    <3>6. Loosened(s', y)
      BY <3>3, <3>4, <3>5, PreemptLoosens DEF Loosened
    <3>7. Loosened(s', s)
      BY <3>5, <3>6, LoosenedTwice
    <3>8. sem \in [Users \cup {"shared"} -> Int] /\ x # "shared"
      BY <3>2, ThreadsAssumption DEF SafeInv, TypeInv
    <3>9. sem'["shared"] = sem["shared"] /\ \A v \in Users : v # x => sem'[v] = sem[v]
      BY <3>3, <3>8
    <3>10. ASSUME NEW v \in Users, s'.blocked[v] # None, At(v).op = "sync"
           PROVE  v # x
      <4>1. s.blocked[v] = s'.blocked[v] /\ y.blocked[v] = s'.blocked[v]
        BY <1>2, <3>5, <3>6, <3>10 DEF Loosened
      <4>2. s.blocked[v] = Key("semaphore", v) /\ v \in s.alive
        BY <1>3, <3>10, <4>1 DEF KeyOf
      <4>3. QED
        BY <3>5, <3>10, <4>1, <4>2
    <3>11. QED
      BY <2>2, <3>7, <3>9, <3>10
  <2>5. QED
    BY <1>8, <2>3, <2>4 DEF Handle
<1>9. CASE EndLoop \/ Crash
  <2>1. /\ sem' = sem /\ loop' = "ended" /\ s.blocked[Service] = None /\ Service \in s.alive
        /\ s' \in Schedule(WakeAll([s EXCEPT !.alive = @ \ {Service}], Key("thread", Service)))
    BY <1>9 DEF EndLoop, Crash, End, Turn
  <2>2. PICK y : y = [s EXCEPT !.alive = s.alive \ {Service}]
    OBVIOUS
  <2>3. /\ y \in Sched /\ OrderInv(y) /\ y.alive = s.alive \ {Service} /\ y.blocked = s.blocked
    <3>1. s.alive \ {Service} \in SUBSET Thread
      BY <1>1 DEF Sched
    <3>2. y \in Sched /\ y.alive = s.alive \ {Service} /\ y.blocked = s.blocked /\ y.before = s.before
      BY <1>1, <2>2, <3>1 DEF Sched
    <3>3. QED
      BY <1>1, <3>2 DEF OrderInv
  <2>4. PICK z : z = WakeAll(y, Key("thread", Service))
    OBVIOUS
  <2>5. /\ Loosened(z, y)
        /\ \A t \in y.alive : y.blocked[t] = Key("thread", Service) => z.blocked[t] = None
    BY <2>3, <2>4, WakeAllWakes
  <2>6. s' \in Schedule(z)
    BY <2>1, <2>2, <2>4
  <2>7. Loosened(s', z)
    BY <2>5, <2>6, ScheduleLoosens DEF Loosened
  <2>8. /\ s' \in Sched /\ OrderInv(s') /\ s'.alive = s.alive \ {Service}
        /\ \A t \in Thread : s'.blocked[t] \in {None, s.blocked[t]}
    BY <2>3, <2>5, <2>7 DEF Loosened
  <2>9. ASSUME NEW v \in Users, s'.blocked[v] # None
        PROVE  At(v).op # "stop"
    <3>1. SUFFICES ASSUME At(v).op = "stop" PROVE FALSE
      OBVIOUS
    <3>2. s.blocked[v] # None
      BY <1>2, <2>8, <2>9
    <3>3. v \in y.alive /\ y.blocked[v] = Key("thread", Service)
      BY <1>2, <1>3, <2>3, <3>1, <3>2 DEF KeyOf
    <3>4. s'.blocked[v] = None
      BY <1>2, <2>5, <2>7, <3>3 DEF Loosened
    <3>5. QED
      BY <2>9, <3>4
  <2>10. QED
    BY <1>1, <1>2, <1>3, <1>4, <2>1, <2>8, <2>9 DEF IdleEffect
<1>10. CASE \E u \in Users : Finish(u)
  <2>1. PICK u \in Users : Finish(u)
    BY <1>10
  <2>2. /\ sem' = sem /\ q' = q /\ loop' = loop /\ s.blocked[u] = None /\ u \in s.alive
        /\ pc[u] > Len(Program(u)) /\ s' \in Schedule([s EXCEPT !.alive = @ \ {u}])
    BY <2>1 DEF Finish, Turn, service
  <2>3. PICK y : y = [s EXCEPT !.alive = s.alive \ {u}]
    OBVIOUS
  <2>4. /\ y \in Sched /\ OrderInv(y) /\ y.alive = s.alive \ {u} /\ y.blocked = s.blocked
    <3>1. s.alive \ {u} \in SUBSET Thread
      BY <1>1 DEF Sched
    <3>2. y \in Sched /\ y.alive = s.alive \ {u} /\ y.blocked = s.blocked /\ y.before = s.before
      BY <1>1, <2>3, <3>1 DEF Sched
    <3>3. QED
      BY <1>1, <3>2 DEF OrderInv
  <2>5. Loosened(s', y)
    BY <2>2, <2>3, <2>4, ScheduleLoosens
  <2>6. /\ s' \in Sched /\ OrderInv(s') /\ s'.alive = s.alive \ {u}
        /\ \A t \in Thread : s'.blocked[t] \in {None, s.blocked[t]}
    BY <2>4, <2>5 DEF Loosened
  <2>7. pc[u] \in Nat /\ Len(Program(u)) \in Nat
    BY ProgramType DEF SafeInv, TypeInv
  <2>8. \A v \in Users : AboutToLock(v) => v # u
    BY <1>4, <2>2, <2>7
  <2>9. u # Service
    BY <1>2
  <2>10. s'.blocked[Service] # None => s'.blocked[Service] = s.blocked[Service]
    BY <1>1, <2>6
  <2>11. s.blocked[Service] # None => Service \in s.alive
    BY <1>1 DEF SchedInv, BlockedInv
  <2>12. QED
    BY <1>1, <1>2, <1>3, <1>4, <2>2, <2>6, <2>8, <2>9, <2>10, <2>11
       DEF IdleEffect, SchedInv, BlockedInv, ServiceReason
<1>11. QED
  BY <1>5, <1>6, <1>7, <1>8, <1>9, <1>10 DEF Idles

LEMMA ReasonIdles ==
  ASSUME ThreadsInv, Idles
  PROVE  SchedInv' /\ SleepsForAReason'
<1>1. SafeInv /\ SchedInv
  BY DEF ThreadsInv
<1>2. ServiceReason /\ \A v \in Users : s.blocked[v] # None => Reason(v)
  BY <1>1, ReasonsAre DEF ThreadsInv
<1>3. IdleEffect
  BY <1>1, <1>2, IdleEffects
<1>4. scenario' = scenario /\ pc' = pc /\ mutex' = mutex /\ rw' = rw
  BY IdlesFrame
<1>5. \A v \in Users : At(v)' = At(v) /\ Program(v)' = Program(v) /\ KeyOf(v)' = KeyOf(v)
  BY <1>4 DEF At, Program, KeyOf
<1>6. \A v \in Users : s'.blocked[v] # None => s.blocked[v] # None /\ s.blocked[v] = s'.blocked[v]
  BY <1>3 DEF IdleEffect
<1>7. \A v \in Users : s'.blocked[v] # None =>
         pc[v] <= Len(Program(v)) /\ At(v).op \in Blocking /\ s'.blocked[v] = KeyOf(v)
  BY <1>1, <1>6 DEF SchedInv, BlockedInv
<1>8. \A v \in Users : s'.blocked[v] # None =>
         pc'[v] <= Len(Program(v)') /\ At(v)'.op \in Blocking /\ s'.blocked[v] = KeyOf(v)'
  BY <1>4, <1>5, <1>7
<1>9. \A t \in Thread : s'.blocked[t] # None => t \in s'.alive
  BY <1>3 DEF IdleEffect, Thread
<1>10. SchedInv'
  BY <1>3, <1>8, <1>9 DEF SchedInv, BlockedInv, IdleEffect
<1>11. \A v \in Users : AboutToLock(v) => AboutToLock(v)'
  BY <1>3, <1>4, <1>5 DEF IdleEffect, AboutToLock, Runnable
<1>12. ASSUME NEW v \in Users, s'.blocked[v] # None
       PROVE  Reason(v)'
  <2>1. Reason(v)
    BY <1>2, <1>6, <1>12
  <2>2. /\ At(v).op = "sync" => sem'[v] = sem[v]
        /\ At(v).op = "acquire" => sem'["shared"] = sem["shared"]
        /\ At(v).op = "stop" => loop' # "ended"
    BY <1>3, <1>12 DEF IdleEffect
  <2>3. QED
    BY <1>4, <1>5, <1>11, <2>1, <2>2 DEF Reason
<1>13. ServiceReason'
  BY <1>3 DEF ServiceReason, IdleEffect
<1>14. SleepsForAReason'
  BY <1>9, <1>12, <1>13 DEF SleepsForAReason, ServiceReason, Reason, Asleep, Thread
<1>15. QED
  BY <1>10, <1>14

LEMMA InitReasons ==
  ASSUME Init
  PROVE  SchedInv /\ SleepsForAReason
<1>1. PICK c \in Users \cup {None} :
        s = [cur |-> c, alive |-> Users, blocked |-> [t \in Users \cup {Service} |-> None],
             before |-> {}, timed |-> {}, fired |-> {}, aborted |-> FALSE]
  BY DEF Init
<1>2. s \in Sched
  BY <1>1, ThreadsAssumption DEF Sched, Thread
<1>3. OrderInv(s)
  BY <1>1 DEF OrderInv
<1>4. \A t \in Thread : s.blocked[t] = None
  BY <1>1 DEF Thread
<1>5. Service \notin s.alive /\ loop = "none"
  BY <1>1, ThreadsAssumption DEF Init
<1>6. SchedInv
  BY <1>2, <1>3, <1>4, <1>5 DEF SchedInv, BlockedInv, Thread
<1>7. QED
  BY <1>4, <1>6 DEF SleepsForAReason, Asleep, Thread

\* Nobody sleeps on: whoever is blocked waits for something that is not there, or one that was
\* woken for it is about to take it, so no wake-up is lost in the locks, the semaphores, the
\* queue or the end of the thread (DetSched.h:10-12).
THEOREM SleepersHaveReasons == Spec => []SleepsForAReason
<1>1. Init => ThreadsInv
  BY InitSafe, InitReasons DEF ThreadsInv
<1>2. ThreadsInv /\ [Next]_vars => ThreadsInv'
  <2> SUFFICES ASSUME ThreadsInv, [Next]_vars PROVE ThreadsInv'
    OBVIOUS
  <2>1. SafeInv'
    BY NextSafe DEF ThreadsInv
  <2>2. SchedInv' /\ SleepsForAReason'
    BY NextCases, ReasonStep, ReasonIdles
  <2>3. QED
    BY <2>1, <2>2 DEF ThreadsInv
<1>3. ThreadsInv => SleepsForAReason
  BY DEF ThreadsInv
<1>4. QED
  BY <1>1, <1>2, <1>3, PTL DEF Spec
=============================================================================
