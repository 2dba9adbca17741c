------------------------------- MODULE TaskUnit -------------------------------
(***************************************************************************)
(* The task processor unit (src/src/compat/overrides/                      *)
(* CSingleThreadTaskProcessorUnit.cpp): one thread that takes tableau      *)
(* tasks out of an event queue, processes and completes them, and blocks   *)
(* on a semaphore when it has nothing to do.  Threads of the reasoner post *)
(* tasks to it at any time.  The flags they share with it are plain        *)
(* fields; each access to one is a step, in program order.                 *)
(*                                                                         *)
(* What handling a task computes, and the order in which the queues of     *)
(* tasks are served, is left out: any task of a queue may be next, it may  *)
(* be interrupted or finish, and when it finishes its subtasks come into   *)
(* being.  The event queue is that of the vendored CQueuedLinkedEvent-     *)
(* Handler: first in, first out, taken as a whole.                         *)
(***************************************************************************)
EXTENDS Integers, Sequences, FiniteSets, SequencesExt

CONSTANTS
  Task,         \* the tasks
  Parent,       \* Parent[t]: the task that creates t while it is processed
  NoTask,       \* the parent of a task that another thread posts
  Scheduled     \* the posted tasks that are sent to be scheduled, not processed

ASSUME TaskAssumption ==
  /\ IsFiniteSet(Task) /\ NoTask \notin Task
  /\ Parent \in [Task -> Task \cup {NoTask}]
  /\ \A t \in Task : Parent[t] # t

Posted      == {t \in Task : Parent[t] = NoTask}
Subtasks(t) == {s \in Task : Parent[s] = t}

ASSUME ScheduledAssumption == Scheduled \subseteq Posted

VARIABLES
  post,        \* post[t]: how far the thread that posts t has come
  events,      \* the unit's event queue
  signalized, blocked, stopped,   \* mEventSignalized, mProcessingBlocked, mProcessingStopped
  wakeUps,     \* the count of mProcessingWakeUpSemaphore
  request,     \* a CHandleEventsEvent is in the queue of the thread
  pc,          \* where the thread of the unit is
  local,       \* its local variables
  processing, scheduling, completion,   \* its task queues
  active,      \* active[t]: subtasks of t not completed yet
  done,        \* done[t]: how often t was completed
  destroyer    \* how far the destructor has come

shared == <<events, signalized, blocked, stopped, wakeUps, request>>
queues == <<processing, scheduling, completion, active, done>>
vars   == <<post, shared, pc, local, queues, destroyer>>

Local == [ret : {"signals", "drained"},   \* where handleEvents returns to
          round : BOOLEAN, processed : BOOLEAN, safeguard : BOOLEAN]

\* How far a post has come, and the places in the loop of the unit's thread.
PostStep == {"idle", "signal", "check", "release", "posted"}
Label    == {"off", "idle", "top", "wait", "clear", "signals", "round", "judge", "unsignal",
             "task", "complete", "schedule", "drain", "drained", "ended"}

TypeOK ==
  /\ post \in [Posted -> PostStep]
  /\ events \in Seq(Posted) /\ wakeUps \in Nat
  /\ signalized \in BOOLEAN /\ blocked \in BOOLEAN /\ stopped \in BOOLEAN
  /\ request \in BOOLEAN
  /\ pc \in Label
  /\ local \in Local
  /\ processing \subseteq Task /\ scheduling \subseteq Posted /\ completion \in Seq(Task)
  /\ active \in [Task -> Int] /\ done \in [Task -> Nat]
  /\ destroyer \in {"none", "stop", "join", "gone"}

Init ==
  /\ post = [t \in Posted |-> "idle"] /\ events = <<>>
  /\ signalized = FALSE /\ blocked = TRUE /\ stopped = FALSE /\ wakeUps = 0 /\ request = FALSE
  /\ pc = "off"
  /\ local = [ret |-> "signals", round |-> FALSE, processed |-> FALSE, safeguard |-> FALSE]
  /\ processing = {} /\ scheduling = {} /\ completion = <<>>
  /\ active = [t \in Task |-> 0] /\ done = [t \in Task |-> 0]
  /\ destroyer = "none"

Goto(l) == pc' = l

-----------------------------------------------------------------------------
(* Other threads *)

\* startProcessing: start the thread and have it enter the processing loop.  Its
\* reset of a stopped unit depends on tags that are zero for good, so never runs.
\* Nobody starts a unit again before the thread it has started reports that it runs.
StartProcessing ==
  /\ destroyer = "none"
  /\ \/ pc = "off" /\ Goto("idle") /\ request' = TRUE
     \/ pc # "off" /\ ~signalized /\ request' = TRUE /\ UNCHANGED pc
  /\ UNCHANGED <<post, events, signalized, blocked, stopped, wakeUps, local, queues, destroyer>>

\* stopProcessing: set the flag, wake nobody.
StopProcessing ==
  /\ destroyer = "none" /\ stopped' = TRUE
  /\ UNCHANGED <<post, events, signalized, blocked, wakeUps, request, pc, local, queues, destroyer>>

\* A thread posts t: the event first, then signalizeEvent in three steps.
Enqueue(t) ==
  /\ post[t] = "idle" /\ destroyer = "none"
  /\ events' = Append(events, t) /\ post' = [post EXCEPT ![t] = "signal"]
  /\ UNCHANGED <<signalized, blocked, stopped, wakeUps, request, pc, local, queues, destroyer>>

Signal(t) ==
  /\ post[t] = "signal" /\ signalized' = TRUE
  /\ post' = [post EXCEPT ![t] = "check"]
  /\ UNCHANGED <<events, blocked, stopped, wakeUps, request, pc, local, queues, destroyer>>

Check(t) ==
  /\ post[t] = "check"
  /\ post' = [post EXCEPT ![t] = IF blocked THEN "release" ELSE "posted"]
  /\ UNCHANGED <<shared, pc, local, queues, destroyer>>

Release(t) ==
  /\ post[t] = "release" /\ wakeUps' = wakeUps + 1
  /\ post' = [post EXCEPT ![t] = "posted"]
  /\ UNCHANGED <<events, signalized, blocked, stopped, request, pc, local, queues, destroyer>>

Quiet == \A t \in Posted : post[t] \in {"idle", "posted"}

DestroyQuietly ==
  \/ /\ destroyer = "none" /\ pc # "off" /\ Quiet
     /\ stopped' = TRUE /\ destroyer' = "join"
     /\ UNCHANGED <<post, events, signalized, blocked, wakeUps, request, pc, local, queues>>
  \/ /\ destroyer = "join" /\ pc = "ended" /\ destroyer' = "gone"
     /\ UNCHANGED <<post, shared, pc, local, queues>>

\* The destructor: stop the loop, wake the thread, then ~CThread stops and joins it.
\* Nobody destroys a unit while a call of its methods is in progress.
Destroy ==
  \/ /\ destroyer = "none" /\ pc # "off" /\ Quiet
     /\ stopped' = TRUE /\ destroyer' = "stop"
     /\ UNCHANGED <<post, events, signalized, blocked, wakeUps, request, pc, local, queues>>
  \/ /\ destroyer = "stop" /\ wakeUps' = wakeUps + 1 /\ destroyer' = "join"
     /\ UNCHANGED <<post, events, signalized, blocked, stopped, request, pc, local, queues>>
  \/ /\ destroyer = "join" /\ pc = "ended" /\ destroyer' = "gone"
     /\ UNCHANGED <<post, shared, pc, local, queues>>

-----------------------------------------------------------------------------
(* The thread: CThread::run and processingLoop *)

\* The thread handles the CHandleEventsEvent, or ends once it is told to stop.
Enter ==
  /\ pc = "idle"
  /\ IF destroyer = "join"
     THEN Goto("ended") /\ UNCHANGED <<request, blocked>>
     ELSE request /\ request' = FALSE /\ blocked' = FALSE /\ Goto("top")
  /\ UNCHANGED <<post, events, signalized, stopped, wakeUps, local, queues, destroyer>>

Top ==
  /\ pc = "top"
  /\ Goto(CASE stopped -> "idle"
            [] ~stopped /\ processing = {} /\ blocked -> "wait"
            [] ~stopped /\ ~(processing = {} /\ blocked) -> "clear")
  /\ UNCHANGED <<post, shared, local, queues, destroyer>>

\* mProcessingWakeUpSemaphore.acquire(1)
Wake ==
  /\ pc = "wait" /\ wakeUps > 0 /\ wakeUps' = wakeUps - 1
  /\ Goto(IF stopped THEN "top" ELSE "clear")
  /\ UNCHANGED <<post, events, signalized, blocked, stopped, request, local, queues, destroyer>>

Clear ==
  /\ pc = "clear" /\ blocked' = FALSE /\ local' = [local EXCEPT !.safeguard = FALSE]
  /\ Goto("signals")
  /\ UNCHANGED <<post, events, signalized, stopped, wakeUps, request, queues, destroyer>>

\* Call handleEvents, which returns to the label given.
HandleEvents(ret) ==
  local' = [local EXCEPT !.ret = ret, !.round = FALSE, !.processed = FALSE] /\ Goto("round")

Signals ==
  /\ pc = "signals"
  /\ IF signalized THEN HandleEvents("signals") ELSE Goto("task") /\ UNCHANGED local
  /\ UNCHANGED <<post, shared, queues, destroyer>>

\* Of the tasks of the events es, those that wait to be scheduled: a task sent to be
\* scheduled is queued for processing at once when there is no other.
ToSchedule(es) ==
  {t \in Range(es) \cap Scheduled : processing # {} \/ t # Head(es)}
ToProcess(es) == Range(es) \ ToSchedule(es)

\* One round of handleEvents; a stopped unit handles none.
Round ==
  /\ pc = "round"
  /\ IF stopped
     THEN Goto(local.ret) /\ UNCHANGED <<events, local, processing, scheduling>>
     ELSE /\ local' = [local EXCEPT !.round = events # <<>>] /\ Goto("judge")
          /\ processing' = processing \cup ToProcess(events)
          /\ scheduling' = scheduling \cup ToSchedule(events)
          /\ events' = <<>>
  /\ UNCHANGED <<post, signalized, blocked, stopped, wakeUps, request, completion, active,
                 done, destroyer>>

Judge ==
  /\ pc = "judge"
  /\ local' = [local EXCEPT !.processed = @ \/ local.round]
  /\ Goto(IF signalized \/ local.round THEN "unsignal" ELSE local.ret)
  /\ UNCHANGED <<post, shared, queues, destroyer>>

Unsignal ==
  /\ pc = "unsignal" /\ signalized' = FALSE /\ Goto("round")
  /\ UNCHANGED <<post, events, blocked, stopped, wakeUps, request, local, queues, destroyer>>

\* Process one task: it is interrupted when an event was signalized and queued again,
\* or it creates its subtasks and finishes.
ProcessTask ==
  /\ pc = "task"
  /\ \/ processing = {} /\ Goto("schedule") /\ UNCHANGED queues
     \/ processing # {} /\ signalized /\ Goto("schedule") /\ UNCHANGED queues
     \/ \E t \in processing :
          /\ processing' = (processing \ {t}) \cup Subtasks(t)
          /\ active' = [active EXCEPT ![t] = Cardinality(Subtasks(t))]
          /\ completion' = <<t>> /\ Goto("complete")
          /\ UNCHANGED <<scheduling, done>>
  /\ UNCHANGED <<post, shared, local, destroyer>>

CompleteAnyway ==
  /\ pc = "complete" /\ completion # <<>>
  /\ LET t == Head(completion) IN
       /\ done' = [done EXCEPT ![t] = @ + 1] /\ completion' = Tail(completion)
       /\ UNCHANGED active

\* completeTask: a task with active subtasks is left to the last of them.
Complete ==
  /\ pc = "complete" /\ completion # <<>>
  /\ LET t == Head(completion)
         p == Parent[t]
     IN IF active[t] > 0
        THEN completion' = Tail(completion) /\ UNCHANGED <<active, done>>
        ELSE /\ done' = [done EXCEPT ![t] = @ + 1]
             /\ active' = IF p \in Task THEN [active EXCEPT ![p] = @ - 1] ELSE active
             /\ completion' = IF p \in Task /\ active[p] = 1 THEN <<p>> \o Tail(completion)
                                                              ELSE Tail(completion)

CompleteTask ==
  /\ \/ Complete /\ UNCHANGED pc
     \/ pc = "complete" /\ completion = <<>> /\ Goto("schedule")
        /\ UNCHANGED <<completion, active, done>>
  /\ UNCHANGED <<post, shared, local, processing, scheduling, destroyer>>

ScheduleLastNever ==
  /\ pc = "schedule"
  /\ IF processing = {} /\ Cardinality(scheduling) > 1
     THEN \E t \in scheduling : processing' = {t} /\ scheduling' = scheduling \ {t}
     ELSE UNCHANGED <<processing, scheduling>>
  /\ Goto(IF processing' = {} THEN "drain" ELSE "top")
  /\ UNCHANGED <<post, shared, local, completion, active, done, destroyer>>

Schedule ==
  /\ pc = "schedule"
  /\ IF processing = {} /\ scheduling # {}
     THEN \E t \in scheduling : processing' = {t} /\ scheduling' = scheduling \ {t}
     ELSE UNCHANGED <<processing, scheduling>>
  /\ Goto(IF processing' = {} THEN "drain" ELSE "top")
  /\ UNCHANGED <<post, shared, local, completion, active, done, destroyer>>

Drain ==
  /\ pc = "drain"
  /\ IF signalized \/ ~local.safeguard THEN HandleEvents("drained") ELSE Goto("top") /\ UNCHANGED local
  /\ UNCHANGED <<post, shared, queues, destroyer>>

DrainedOnce ==
  /\ pc = "drained" /\ Goto("top") /\ blocked' = ~local.processed /\ UNCHANGED local
  /\ UNCHANGED <<post, events, signalized, stopped, wakeUps, request, queues, destroyer>>

\* Nothing to do: block, look once more, and only then wait.
Drained ==
  /\ pc = "drained" /\ Goto("drain")
  /\ CASE local.processed -> blocked' = FALSE /\ local' = [local EXCEPT !.safeguard = FALSE]
       [] ~local.processed /\ ~blocked -> blocked' = TRUE /\ UNCHANGED local
       [] ~local.processed /\ blocked  -> local' = [local EXCEPT !.safeguard = TRUE]
                                          /\ UNCHANGED blocked
  /\ UNCHANGED <<post, events, signalized, stopped, wakeUps, request, queues, destroyer>>

ProcessingLoop ==
  \/ Enter \/ Top \/ Wake \/ Clear \/ Signals \/ Round \/ Judge \/ Unsignal
  \/ ProcessTask \/ CompleteTask \/ Schedule \/ Drain \/ Drained

-----------------------------------------------------------------------------
Posting(t) == Signal(t) \/ Check(t) \/ Release(t)

Next ==
  \/ StartProcessing \/ StopProcessing \/ Destroy \/ ProcessingLoop
  \/ \E t \in Posted : Enqueue(t) \/ Posting(t)

Spec == Init /\ [][Next]_vars

\* Threads run: the unit, a thread that has begun to post, the destructor.
Fairness == /\ WF_vars(ProcessingLoop) /\ WF_vars(Destroy /\ destroyer # "none")
            /\ \A t \in Posted : WF_vars(Posting(t))

FairSpec == Spec /\ Fairness

-----------------------------------------------------------------------------
(* Properties *)

\* No wake-up is lost: while the thread waits on a semaphore without a count, every
\* event in the queue has a sender who is still inside signalizeEvent.
NoLostWakeUp ==
  pc = "wait" /\ wakeUps = 0 /\ ~stopped =>
    \A i \in DOMAIN events : post[events[i]] \in {"signal", "check", "release"}

\* processingLoop never waits while tasks are left in one of its queues.
WaitsOnlyWhenIdle ==
  pc = "wait" => processing = {} /\ scheduling = {} /\ completion = <<>>

\* completeTask completes a task at most once, and only after all its subtasks.
CompletedOnce ==
  \A t \in Task :
    done[t] <= 1 /\ (done[t] = 1 => \A s \in Subtasks(t) : done[s] = 1)

\* Every task posted to a unit whose thread runs is completed, unless the unit is stopped.
EveryTaskCompleted ==
  \A t \in Posted : post[t] # "idle" /\ pc # "off" ~> done[t] = 1 \/ stopped

\* Destroying a unit ends its thread: the destructor wakes it so that it can observe
\* mProcessingStopped and return from processingLoop before it is joined.
DestructorReturns == destroyer # "none" ~> destroyer = "gone"

\* The same when every event signalized before has been seen by then.
QuietDestructorReturns == destroyer # "none" /\ ~signalized ~> destroyer = "gone"
=============================================================================
