-------------------------------- MODULE Threads --------------------------------
(***************************************************************************)
(* A thread with an event queue (CThread), the locks and semaphores around *)
(* it (QtCompat.h), and the two ways they run: on pthreads, every thread   *)
(* at its own pace, or serially on DetSched, where one thread holds the    *)
(* baton and hands it on only when it blocks, ends or is preempted at an   *)
(* unlock, a lock, a release or a post.                                    *)
(*                                                                         *)
(* Users run programs, sequences of operations [op, on, n]; the service is *)
(* the event thread.  A section under the mutex of a queue or a semaphore  *)
(* is one step; serial code has no scheduling point inside such a section. *)
(***************************************************************************)
EXTENDS Integers, Sequences, FiniteSets

CONSTANTS
  Users, Service,
  None,
  Tries,       \* slices of 5 s before waitSynchronization aborts (6 in the code, native builds)
  Scenarios    \* [serial, program]

\* What a thread is blocked on, an address in the code: a lock, the queue, a semaphore, or a
\* thread that is to end.
Keys == {"mutex", "rw", "queue", "semaphore", "thread"} \X (Users \cup {Service, None, "shared"})
Key(kind, x) == <<kind, x>>

Operation == [op : STRING, n : Nat]

\* How many of the operations ops come before the n-th of a program.
Before(program, n, ops) == Cardinality({i \in 1 .. n - 1 : program[i].op \in ops})

\* A thread unlocks only what it has locked.
Disciplined(program) ==
  \A n \in DOMAIN program :
    /\ program[n].op = "unlock" => Before(program, n, {"unlock"}) < Before(program, n, {"lock"})
    /\ program[n].op = "unlockRW" => Before(program, n, {"unlockRW"}) < Before(program, n, {"read", "write"})

ASSUME ThreadsAssumption ==
  /\ Service \notin Users /\ None \notin Users \cup {Service} \cup Keys /\ "shared" \notin Users
  /\ Tries \in Nat \ {0}
  /\ \A x \in Scenarios :
       /\ x.serial \in BOOLEAN /\ x.program \in [Users -> Seq(Operation)]
       /\ \A u \in Users : Disciplined(x.program[u])

VARIABLES
  scenario,
  pc, phase,   \* per user: the operation it is at, and how far into it
  s,           \* who runs: cur, alive, blocked (on what), before, timed, fired, aborted
  mutex,       \* [owner, count]
  sem,         \* the count of each semaphore; each user has one to wait for its own sync
  rw,          \* [writer, readers]
  q,           \* PthreadState: exists, queue, shouldStop, started
  loop, event, \* the service: "none", "loop", "handle", "ended", and what it handles
  tries        \* slices a user has waited

locks == <<mutex, rw>>
service == <<q, loop, event>>
vars == <<scenario, pc, phase, s, mutex, sem, rw, q, loop, event, tries>>

Serial == scenario.serial
Program(u) == scenario.program[u]
At(u) == Program(u)[pc[u]]

Init ==
  /\ scenario \in Scenarios
  /\ pc = [u \in Users |-> 1] /\ phase = [u \in Users |-> "new"]
  /\ \E u \in Users :
       s = [cur |-> IF scenario.serial THEN u ELSE None, alive |-> Users, blocked |-> [t \in Users \cup {Service} |-> None],
            before |-> {}, timed |-> {}, fired |-> {}, aborted |-> FALSE]
  /\ mutex = [owner |-> None, count |-> 0]
  /\ sem = [x \in Users \cup {"shared"} |-> 0]
  /\ rw = [writer |-> None, readers |-> 0]
  /\ q = [exists |-> FALSE, queue |-> <<>>, shouldStop |-> FALSE, started |-> FALSE]
  /\ loop = "none" /\ event = None
  /\ tries = [u \in Users |-> 0]

-----------------------------------------------------------------------------
(* DetSched: block, wake, schedule *)

Turn(t) == ~s.aborted /\ t \in s.alive /\ s.blocked[t] = None /\ (Serial => s.cur = t)

Runnable(z) == {t \in z.alive : z.blocked[t] = None}

Waiting(z, key) == {t \in z.alive : z.blocked[t] = key}

\* Threads of ts go on.  Of two that are blocked, before has the pair of the one that was
\* blocked first and the other.
Release(z, ts) ==
  [z EXCEPT !.blocked = [t \in DOMAIN @ |-> IF t \in ts THEN None ELSE @[t]],
            !.before = {p \in @ : p[1] \notin ts /\ p[2] \notin ts}, !.timed = @ \ ts]

WakeAll(z, key) == Release(z, Waiting(z, key))
WakeFirst(z, key) ==
  Release(z, {t \in Waiting(z, key) : \A x \in Waiting(z, key) : <<x, t>> \notin z.before})

\* The baton goes to any runnable thread.  If there is none a timeout comes due, and if there
\* is none of these either, the program is aborted as deadlocked.
Schedule(z) ==
  IF ~Serial \/ z.alive = {} THEN {z}
  ELSE IF Runnable(z) # {} THEN {[z EXCEPT !.cur = t] : t \in Runnable(z)}
  ELSE IF z.timed # {} THEN {[Release(z, {t}) EXCEPT !.cur = t, !.fired = {t}] : t \in z.timed}
  ELSE {[z EXCEPT !.aborted = TRUE]}

Block(t, key, timed) ==
  s' \in Schedule([s EXCEPT !.blocked[t] = key,
                            !.before = @ \cup ({x \in DOMAIN s.blocked : s.blocked[x] # None} \X {t}),
                            !.timed = IF timed THEN @ \cup {t} ELSE @, !.fired = {}])

\* maybePreempt: the baton may be handed on, or kept.
Preemptible(z) == s' \in Schedule(z) \cup {z}

-----------------------------------------------------------------------------
(* QMutex, QSemaphore, QReadWriteLock *)


Next1(u) == /\ pc' = [pc EXCEPT ![u] = @ + 1]
            /\ phase' = [phase EXCEPT ![u] = "new"]
Stay(u, p) == /\ phase' = [phase EXCEPT ![u] = p]
              /\ UNCHANGED pc

\* On pthreads the system wakes whoever waits for a lock; serial code blocks and looks again.
Wait(u, key) == Serial /\ Block(u, key, FALSE) /\ Stay(u, "again")

FreeOnceWoken(u) == mutex.owner \in {None, u} \/ phase[u] = "again"
FreeFor(u) == mutex.owner \in {None, u}

YieldFirst(u) ==
  /\ Serial /\ phase[u] = "new"
  /\ s' \in Schedule(s) /\ Stay(u, "yielded")
  /\ UNCHANGED locks

Lock(u) ==
  /\ At(u).op = "lock" /\ Turn(u)
  /\ \/ YieldFirst(u)
     \/ /\ FreeFor(u)
        /\ mutex' = [owner |-> u, count |-> mutex.count + 1]
        /\ Next1(u) /\ UNCHANGED <<s, rw>>
     \/ ~FreeFor(u) /\ Wait(u, Key("mutex", None)) /\ UNCHANGED locks
  /\ UNCHANGED <<scenario, sem, service, tries>>

Unlock(u) ==
  /\ At(u).op = "unlock" /\ Turn(u)
  /\ mutex' = IF mutex.count = 1 THEN [owner |-> None, count |-> 0] ELSE [mutex EXCEPT !.count = @ - 1]
  /\ Preemptible(IF mutex.count = 1 THEN WakeFirst(s, Key("mutex", None)) ELSE s)
  /\ Next1(u)
  /\ UNCHANGED <<scenario, sem, rw, service, tries>>

ReadLock(u) ==
  /\ At(u).op = "read" /\ Turn(u)
  /\ \/ rw.writer = None /\ rw' = [rw EXCEPT !.readers = @ + 1] /\ Next1(u) /\ UNCHANGED s
     \/ rw.writer # None /\ Wait(u, Key("rw", None)) /\ UNCHANGED rw
  /\ UNCHANGED <<scenario, mutex, sem, service, tries>>

WriteLock(u) ==
  /\ At(u).op = "write" /\ Turn(u)
  /\ \/ rw.writer = None /\ rw.readers = 0 /\ rw' = [rw EXCEPT !.writer = u] /\ Next1(u) /\ UNCHANGED s
     \/ (rw.writer # None \/ rw.readers > 0) /\ Wait(u, Key("rw", None)) /\ UNCHANGED rw
  /\ UNCHANGED <<scenario, mutex, sem, service, tries>>

UnlockRW(u) ==
  /\ At(u).op = "unlockRW" /\ Turn(u)
  /\ rw' = IF rw.writer # None THEN [rw EXCEPT !.writer = None] ELSE [rw EXCEPT !.readers = @ - 1]
  /\ s' = WakeAll(s, Key("rw", None))
  /\ Next1(u)
  /\ UNCHANGED <<scenario, mutex, sem, service, tries>>

PutWakesFirst(x, n) ==
  /\ sem' = [sem EXCEPT ![x] = @ + n]
  /\ Preemptible(WakeFirst(s, Key("semaphore", x)))
\* release
Put(x, n) ==
  /\ sem' = [sem EXCEPT ![x] = @ + n]
  /\ Preemptible(WakeAll(s, Key("semaphore", x)))

ReleaseSemaphore(u) ==
  /\ At(u).op = "release" /\ Turn(u)
  /\ Put("shared", At(u).n) /\ Next1(u)
  /\ UNCHANGED <<scenario, locks, service, tries>>

Acquire(u) ==
  /\ At(u).op = "acquire" /\ Turn(u)
  /\ \/ sem["shared"] >= At(u).n /\ sem' = [sem EXCEPT !["shared"] = @ - At(u).n] /\ Next1(u) /\ UNCHANGED s
     \/ sem["shared"] < At(u).n /\ Block(u, Key("semaphore", "shared"), FALSE) /\ Stay(u, "again") /\ UNCHANGED sem
  /\ UNCHANGED <<scenario, locks, service, tries>>

\* tryAcquire without waiting.
TryAcquire(u) ==
  /\ At(u).op = "try" /\ Turn(u)
  /\ sem' = IF sem["shared"] >= At(u).n THEN [sem EXCEPT !["shared"] = @ - At(u).n] ELSE sem
  /\ Next1(u)
  /\ UNCHANGED <<scenario, s, locks, service, tries>>

-----------------------------------------------------------------------------
(* CThread *)

\* startThread: flags reset, a thread created, or not; events left over from before the start
\* stay.
StartThread(u) ==
  /\ At(u).op = "start" /\ Turn(u) /\ loop = "none"
  /\ \/ loop' = "loop" /\ s' = [s EXCEPT !.alive = @ \cup {Service}]
     \/ ~Serial /\ UNCHANGED <<loop, s>>   \* pthread_create fails
  /\ q' = [q EXCEPT !.exists = TRUE, !.shouldStop = FALSE, !.started = loop' = "loop"]
  /\ Next1(u)
  /\ UNCHANGED <<scenario, locks, sem, event, tries>>

InsertFirst(queue, e) == <<e>> \o queue
Insert(queue, e) == Append(queue, e)

PushSilently(e) ==
  \/ ~q.exists /\ UNCHANGED <<q, s>>
  \/ q.exists /\ q' = [q EXCEPT !.queue = Insert(@, e)] /\ Preemptible(s)
\* postEvent; an event for a thread that was never started is deleted.
Push(e) ==
  \/ ~q.exists /\ UNCHANGED <<q, s>>
  \/ q.exists /\ q' = [q EXCEPT !.queue = Insert(@, e)] /\ Preemptible(WakeAll(s, Key("queue", None)))

PostEvent(u) ==
  /\ At(u).op = "post" /\ Turn(u)
  /\ Push([by |-> u, at |-> pc[u], kind |-> "plain"]) /\ Next1(u)
  /\ UNCHANGED <<scenario, locks, sem, loop, event, tries>>

\* waitSynchronization: an event that releases the waiter's semaphore when its turn comes.
\* Native builds wait in slices and give up.
PostSync(u) ==
  /\ At(u).op = "sync" /\ Turn(u) /\ phase[u] = "new"
  /\ Push([by |-> u, at |-> pc[u], kind |-> "sync"]) /\ Stay(u, "posted")
  /\ tries' = [tries EXCEPT ![u] = 0]
  /\ UNCHANGED <<scenario, locks, sem, loop, event>>

WaitSynchronization(u) ==
  /\ At(u).op = "sync" /\ Turn(u) /\ phase[u] = "posted"
  /\ \/ sem[u] > 0 /\ sem' = [sem EXCEPT ![u] = @ - 1] /\ Next1(u) /\ UNCHANGED <<s, tries>>
     \/ /\ sem[u] = 0 /\ UNCHANGED <<sem, pc, phase>>
        /\ IF u \in s.fired
           THEN /\ tries' = [tries EXCEPT ![u] = @ + 1]
                /\ s' = [s EXCEPT !.fired = {}, !.aborted = tries[u] + 1 >= Tries]
           ELSE Block(u, Key("semaphore", u), Serial) /\ UNCHANGED tries
  /\ UNCHANGED <<scenario, locks, service>>

StopThreadSilently(u) ==
  /\ q' = [q EXCEPT !.shouldStop = TRUE]
  /\ UNCHANGED s
StopThread(u) ==
  /\ q' = [q EXCEPT !.shouldStop = TRUE]
  /\ s' = WakeAll(s, Key("queue", None))

\* stopThread(waitStopped)
Stop(u) ==
  /\ At(u).op = "stop" /\ Turn(u) /\ phase[u] = "new"
  /\ IF q.started THEN StopThread(u) ELSE UNCHANGED <<q, s>>
  /\ IF q.started /\ At(u).n = 1 THEN Stay(u, "joining") ELSE Next1(u)
  /\ UNCHANGED <<scenario, locks, sem, loop, event, tries>>

Join(u) ==
  /\ At(u).op = "stop" /\ Turn(u) /\ phase[u] = "joining"
  /\ \/ loop = "ended" /\ loop' = "none" /\ q' = [q EXCEPT !.started = FALSE] /\ Next1(u) /\ UNCHANGED s
     \/ loop # "ended" /\ Serial /\ Block(u, Key("thread", Service), FALSE) /\ UNCHANGED <<loop, q, pc, phase>>
  /\ UNCHANGED <<scenario, locks, sem, event, tries>>

\* ~CThread after it has stopped the thread: what is still queued is deleted.
Delete(u) ==
  /\ At(u).op = "delete" /\ Turn(u) /\ ~q.started
  /\ q' = [exists |-> FALSE, queue |-> <<>>, shouldStop |-> FALSE, started |-> FALSE]
  /\ Next1(u)
  /\ UNCHANGED <<scenario, s, locks, sem, loop, event, tries>>

\* The loop of run(): sleep, take the next event, or drop what is queued and end.
Sleep ==
  /\ loop = "loop" /\ Turn(Service) /\ q.queue = <<>> /\ ~q.shouldStop
  /\ Block(Service, Key("queue", None), FALSE)
  /\ UNCHANGED <<scenario, pc, phase, locks, sem, service, tries>>

Take ==
  /\ loop = "loop" /\ Turn(Service) /\ q.queue # <<>> /\ ~q.shouldStop
  /\ event' = Head(q.queue) /\ q' = [q EXCEPT !.queue = Tail(@)]
  /\ loop' = "handle"
  /\ UNCHANGED <<scenario, pc, phase, s, locks, sem, tries>>

\* processControlEvents; whatever a handler throws is swallowed.
Handle ==
  /\ loop = "handle" /\ Turn(Service)
  /\ \/ event.kind = "sync" /\ Put(event.by, 1)
     \/ event.kind = "plain" /\ UNCHANGED <<sem, s>>
  /\ loop' = "loop" /\ event' = None
  /\ UNCHANGED <<scenario, pc, phase, locks, q, tries>>

\* The thread ends, and whoever joins it goes on.
End ==
  /\ loop' = "ended"
  /\ s' \in Schedule(WakeAll([s EXCEPT !.alive = @ \ {Service}], Key("thread", Service)))

EndLoop ==
  /\ loop = "loop" /\ Turn(Service) /\ q.shouldStop
  /\ q' = [q EXCEPT !.queue = <<>>] /\ End
  /\ UNCHANGED <<scenario, pc, phase, locks, sem, event, tries>>

\* A trap in a handler is no exception: it ends the thread and leaves its queue as it is.
Crash ==
  /\ ~Serial /\ loop = "handle" /\ Turn(Service)
  /\ event' = None /\ End
  /\ UNCHANGED <<scenario, pc, phase, locks, sem, q, tries>>

Finish(u) ==
  /\ pc[u] > Len(Program(u)) /\ Turn(u)
  /\ s' \in Schedule([s EXCEPT !.alive = @ \ {u}])
  /\ UNCHANGED <<scenario, pc, phase, locks, sem, service, tries>>

Step(u) ==
  /\ pc[u] <= Len(Program(u))
  /\ \/ Lock(u) \/ Unlock(u) \/ ReadLock(u) \/ WriteLock(u) \/ UnlockRW(u)
     \/ ReleaseSemaphore(u) \/ Acquire(u) \/ TryAcquire(u)
     \/ StartThread(u) \/ PostEvent(u) \/ PostSync(u) \/ WaitSynchronization(u)
     \/ Stop(u) \/ Join(u) \/ Delete(u)

Next ==
  \/ \E u \in Users : Step(u) \/ Finish(u)
  \/ Sleep \/ Take \/ Handle \/ EndLoop \/ Crash

\* Some thread that can go on does; programs are finite.
Spec == Init /\ [][Next]_vars /\ WF_vars(Next)

-----------------------------------------------------------------------------
(* Properties *)

\* A user that has come back from waitSynchronization has none of its earlier events left
\* unhandled (CThread.cpp:127).
SyncIsBarrier ==
  \A e \in ({q.queue[i] : i \in DOMAIN q.queue} \cup {event}) \ {None} :
    \A i \in e.at .. pc[e.by] - 1 : Program(e.by)[i].op # "sync"

\* Whoever sleeps has a reason to: what it waits for is not there, or somebody who was woken
\* for it is about to take it (DetSched.h:10-12, QtCompat.h:1624).
Asleep(t) == t \in s.alive /\ s.blocked[t] # None
AboutToLock(u) == u \in Runnable(s) /\ pc[u] <= Len(Program(u)) /\ At(u).op = "lock"
SleepsForAReason ==
  /\ Asleep(Service) => q.queue = <<>> /\ ~q.shouldStop
  /\ \A u \in Users : Asleep(u) =>
       /\ At(u).op = "lock"    => mutex.owner # None \/ \E v \in Users : AboutToLock(v)
       /\ At(u).op = "read"    => rw.writer # None
       /\ At(u).op = "write"   => rw.writer # None \/ rw.readers > 0
       /\ At(u).op = "acquire" => sem["shared"] < At(u).n
       /\ At(u).op = "sync"    => sem[u] = 0
       /\ At(u).op = "stop"    => loop # "ended"

\* Locks exclude: whoever is between lock and unlock owns the mutex alone, and readers and a
\* writer are never in at once.
Did(u, ops) == Before(Program(u), pc[u], ops)
InAsWriter(u) ==
  \E i \in 1 .. pc[u] - 1 :
    Program(u)[i].op = "write" /\ \A j \in i .. pc[u] - 1 : Program(u)[j].op # "unlockRW"
LocksExclude ==
  /\ \A u \in Users : Did(u, {"lock"}) > Did(u, {"unlock"}) => mutex.owner = u
  /\ \A u, v \in Users : u # v /\ InAsWriter(u) => Did(v, {"read", "write"}) = Did(v, {"unlockRW"})

\* stopThread(true) comes back.
StopReturns == \A u \in Users : phase[u] = "joining" ~> phase[u] # "joining"

\* waitSynchronization comes back, unless nobody serves the queue: the thread was not started
\* or could not be created, has been stopped, or has crashed (KoncludeReasoner.cpp:159-162).
QueuedSync(u) ==
  phase[u] = "posted" /\ \E i \in DOMAIN q.queue : q.queue[i].by = u /\ q.queue[i].kind = "sync"
SyncReturns ==
  \A u \in Users : QueuedSync(u) ~> (phase[u] # "posted" \/ loop \in {"none", "ended"})
=============================================================================
