--------------------------- MODULE TaskUnit_proofs ---------------------------
(***************************************************************************)
(* Proofs about TaskUnit for any set of tasks: its types, that the thread  *)
(* waits only when it has nothing to do, that no wake-up is lost, and that *)
(* a task is completed once, after its subtasks.                           *)
(*                                                                         *)
(* The argument for the wake-ups has two halves.  SignalSeen: the sender   *)
(* of an event sets the signal after the event is in the queue, and the    *)
(* thread takes the whole queue after it clears the signal, so a signal is *)
(* standing while there is an event its sender has signalized.  WakeUpDue: *)
(* the thread goes to wait only after it has found no signal while it was  *)
(* blocked; a sender who signals later sees it blocked and releases.       *)
(*                                                                         *)
(* The argument for the completions (Tree) is by counting: what a handled  *)
(* task waits for are its subtasks that are not done, so it is completed   *)
(* by the last of them; and a task reaches a queue only once, a posted one *)
(* by its sender and a subtask when its parent is handled.                 *)
(***************************************************************************)
EXTENDS TaskUnit, SequenceTheorems, FiniteSetTheorems, TLAPS

\* Who has an event in the queue.
Sent == Range(events)

\* An event whose sender has signalized it is seen by the thread.
SignalSeen ==
  \A t \in Sent :
    /\ post[t] # "idle"
    /\ post[t] \in {"check", "release", "posted"} => signalized \/ pc = "round" \/ stopped

\* The thread is blocked and about to wait, or waits.
ToWait == pc = "wait" \/ (pc = "top" /\ blocked /\ processing = {})

\* While it does, an event whose sender is done has left a wake-up.
WakeUpDue ==
  ToWait /\ ~stopped =>
    blocked /\ \A t \in Sent : post[t] = "posted" => wakeUps > 0

\* The last look of the thread found nothing, so the loop that looks ends there.
LocalQueues ==
  /\ pc = "wait" => processing = {}
  /\ pc # "complete" => completion = <<>>
  /\ pc \notin {"complete", "schedule"} /\ scheduling # {} => processing # {}

\* The inductive invariant.
IInv == TypeOK /\ SignalSeen /\ WakeUpDue /\ LocalQueues

-----------------------------------------------------------------------------
(* Types *)

\* The subtasks of a task are finitely many.
LEMMA SubtasksFinite ==
  ASSUME NEW t \in Task
  PROVE  Subtasks(t) \subseteq Task /\ Cardinality(Subtasks(t)) \in Nat
<1>1. Subtasks(t) \subseteq Task
  BY DEF Subtasks
<1>2. IsFiniteSet(Task)
  BY TaskAssumption
<1>3. QED
  BY <1>1, <1>2, FS_Subset, FS_CardinalityType

\* What a round takes out of the queue are posted tasks.
LEMMA TakenPosted ==
  ASSUME NEW es \in Seq(Posted)
  PROVE  ToSchedule(es) \subseteq Posted /\ ToProcess(es) \subseteq Task
<1>1. Range(es) \subseteq Posted
  BY DEF Range
<1>2. Posted \subseteq Task
  BY DEF Posted
<1>3. QED
  BY <1>1, <1>2 DEF ToSchedule, ToProcess

\* Every step keeps the types.
LEMMA TypeStep == TypeOK /\ [Next]_vars => TypeOK'
<1> SUFFICES ASSUME TypeOK, [Next]_vars PROVE TypeOK'
  OBVIOUS
<1>0. Posted \subseteq Task
  BY DEF Posted
<1>1. CASE StartProcessing
  BY <1>1 DEF TypeOK, StartProcessing, Goto, queues, Label
<1>2. CASE StopProcessing
  BY <1>2 DEF TypeOK, StopProcessing, queues
<1>3. CASE Destroy
  <2>1. UNCHANGED <<post, events, signalized, blocked, request, pc, local, queues>>
    BY <1>3 DEF Destroy, shared
  <2>2. destroyer' \in {"none", "stop", "join", "gone"}
    BY <1>3 DEF Destroy
  <2>3. stopped' \in BOOLEAN
    BY <1>3 DEF Destroy, shared, TypeOK
  <2>4. wakeUps' \in Nat
    BY <1>3 DEF Destroy, shared, TypeOK
  <2>5. QED
    BY <2>1, <2>2, <2>3, <2>4 DEF TypeOK, queues
<1>4. ASSUME NEW t \in Posted, Enqueue(t) PROVE TypeOK'
  BY <1>4 DEF TypeOK, Enqueue, queues, PostStep
<1>5. ASSUME NEW t \in Posted, Posting(t) PROVE TypeOK'
  <2>1. CASE Signal(t)
    BY <2>1 DEF TypeOK, Signal, queues, PostStep
  <2>2. CASE Check(t)
    BY <2>2 DEF TypeOK, Check, shared, queues, PostStep
  <2>3. CASE Release(t)
    BY <2>3 DEF TypeOK, Release, queues, PostStep
  <2>4. QED
    BY <1>5, <2>1, <2>2, <2>3 DEF Posting
<1>6. CASE Enter \/ Top \/ Wake \/ Clear \/ Signals \/ Judge \/ Unsignal \/ Drain \/ Drained
  <2>1. CASE Enter
    BY <2>1 DEF TypeOK, Enter, Goto, queues, Label
  <2>2. CASE Top
    BY <2>2 DEF TypeOK, Top, Goto, shared, queues, Label
  <2>3. CASE Wake
    BY <2>3 DEF TypeOK, Wake, Goto, queues, Label
  <2>4. CASE Clear
    BY <2>4 DEF TypeOK, Clear, Goto, queues, Label, Local
  <2>5. CASE Signals
    BY <2>5 DEF TypeOK, Signals, HandleEvents, Goto, shared, queues, Label, Local
  <2>6. CASE Judge
    BY <2>6 DEF TypeOK, Judge, Goto, shared, queues, Label, Local
  <2>7. CASE Unsignal
    BY <2>7 DEF TypeOK, Unsignal, Goto, queues, Label
  <2>8. CASE Drain
    BY <2>8 DEF TypeOK, Drain, HandleEvents, Goto, shared, queues, Label, Local
  <2>9. CASE Drained
    BY <2>9 DEF TypeOK, Drained, Goto, queues, Label, Local
  <2>10. QED
    BY <1>6, <2>1, <2>2, <2>3, <2>4, <2>5, <2>6, <2>7, <2>8, <2>9
<1>7. CASE Round
  <2>1. /\ ToSchedule(events) \subseteq Posted /\ ToProcess(events) \subseteq Task
        /\ <<>> \in Seq(Posted)
    BY TakenPosted DEF TypeOK
  <2>2. processing' \subseteq Task /\ scheduling' \subseteq Posted /\ events' \in Seq(Posted)
    BY <1>7, <2>1 DEF TypeOK, Round
  <2>3. local' \in Local /\ local.ret \in Label /\ "judge" \in Label
    BY <1>7 DEF TypeOK, Round, Local, Label
  <2>4. pc' \in Label
    BY <1>7, <2>3 DEF Round, Goto
  <2>5. QED
    BY <1>7, <2>2, <2>3, <2>4 DEF TypeOK, Round
<1>8. CASE ProcessTask
  <2>1. pc' \in Label
    BY <1>8 DEF ProcessTask, Goto, Label
  <2> DEFINE Typed == /\ processing' \subseteq Task /\ completion' \in Seq(Task)
                      /\ active' \in [Task -> Int]
                      /\ UNCHANGED <<scheduling, done>>
  <2>2. Typed
    <3>1. CASE UNCHANGED queues
      BY <3>1 DEF TypeOK, queues
    <3>2. ASSUME NEW t \in processing,
                 processing' = (processing \ {t}) \cup Subtasks(t),
                 active' = [active EXCEPT ![t] = Cardinality(Subtasks(t))],
                 completion' = <<t>>, UNCHANGED <<scheduling, done>>
          PROVE  Typed
      BY <3>2, SubtasksFinite DEF TypeOK
    <3>3. QED
      <4> HIDE DEF Typed
      <4>1. QED
        BY <1>8, <3>1, <3>2 DEF ProcessTask
  <2>3. QED
    BY <1>8, <2>1, <2>2 DEF TypeOK, ProcessTask, shared
<1>9. CASE CompleteTask
  <2>1. CASE Complete /\ UNCHANGED pc
    <3>1. PICK t \in Task : t = Head(completion) /\ Tail(completion) \in Seq(Task)
      BY <2>1 DEF TypeOK, Complete
    <3> DEFINE p == Parent[t]
    <3>2. p \in Task => <<p>> \o Tail(completion) \in Seq(Task)
      <4> SUFFICES ASSUME p \in Task PROVE <<p>> \o Tail(completion) \in Seq(Task)
        OBVIOUS
      <4>1. <<p>> \in Seq(Task)
        OBVIOUS
      <4>2. QED
        BY <3>1, <4>1, ConcatProperties
    <3>3. completion' \in Seq(Task)
      BY <2>1, <3>1, <3>2 DEF Complete
    <3>4. done' \in [Task -> Nat]
      <4>1. done \in [Task -> Nat]
        BY DEF TypeOK
      <4>2. [done EXCEPT ![t] = @ + 1] \in [Task -> Nat]
        BY <4>1
      <4>3. done' = done \/ done' = [done EXCEPT ![t] = @ + 1]
        BY <2>1, <3>1 DEF Complete
      <4>4. QED
        BY <4>1, <4>2, <4>3
    <3>5. active' \in [Task -> Int]
      <4>1. active \in [Task -> Int]
        BY DEF TypeOK
      <4>2. p \in Task => [active EXCEPT ![p] = @ - 1] \in [Task -> Int]
        BY <4>1
      <4>3. active' = active \/ (p \in Task /\ active' = [active EXCEPT ![p] = @ - 1])
        BY <2>1, <3>1 DEF Complete
      <4>4. QED
        BY <4>1, <4>2, <4>3
    <3>6. QED
      BY <1>9, <2>1, <3>3, <3>4, <3>5 DEF TypeOK, CompleteTask, shared
  <2>2. CASE ~(Complete /\ UNCHANGED pc)
    BY <1>9, <2>2 DEF TypeOK, CompleteTask, Goto, shared, Label
  <2>3. QED
    BY <2>1, <2>2
<1>10. CASE Schedule
  BY <1>0, <1>10 DEF TypeOK, Schedule, Goto, shared, Label
<1>11. CASE UNCHANGED vars
  BY <1>11 DEF TypeOK, vars, shared, queues
<1>12. QED
  BY <1>1, <1>2, <1>3, <1>4, <1>5, <1>6, <1>7, <1>8, <1>9, <1>10, <1>11
     DEF Next, ProcessingLoop

-----------------------------------------------------------------------------
(* The steps of the thread and of the senders keep the rest *)

\* Only a sender adds to the event queue, and only a round takes from it.
LEMMA SentAppend ==
  ASSUME NEW s \in Seq(Posted), NEW t \in Posted
  PROVE  Range(Append(s, t)) = Range(s) \cup {t}
<1>1. /\ DOMAIN s = 1..Len(s) /\ Len(s) \in Nat
      /\ DOMAIN Append(s, t) = 1..(Len(s) + 1)
      /\ \A i \in 1..Len(s) : Append(s, t)[i] = s[i]
      /\ Append(s, t)[Len(s) + 1] = t
  OBVIOUS
<1>2. \A x : x \in Range(Append(s, t)) => x \in Range(s) \cup {t}
  BY <1>1 DEF Range
<1>3. \A x : x \in Range(s) \cup {t} => x \in Range(Append(s, t))
  <2>1. 1..Len(s) \subseteq 1..(Len(s) + 1) /\ Len(s) + 1 \in 1..(Len(s) + 1)
    BY <1>1
  <2>2. QED
    BY <1>1, <2>1 DEF Range
<1>4. QED
  BY <1>2, <1>3

\* Every step keeps SignalSeen.
LEMMA SignalStep == TypeOK /\ SignalSeen /\ [Next]_vars => SignalSeen'
<1> SUFFICES ASSUME TypeOK, SignalSeen, [Next]_vars PROVE SignalSeen'
  OBVIOUS
<1> USE DEF SignalSeen, Sent
<1>1. CASE StartProcessing \/ StopProcessing \/ Destroy \/ UNCHANGED vars
  BY <1>1 DEF StartProcessing, StopProcessing, Destroy, vars, shared, Goto, Range
<1>2. ASSUME NEW t \in Posted, Enqueue(t) PROVE SignalSeen'
  <2>1. Range(events') = Range(events) \cup {t}
    BY <1>2, SentAppend DEF Enqueue, TypeOK
  <2>2. post' = [post EXCEPT ![t] = "signal"]
        /\ UNCHANGED <<signalized, pc, stopped>>
    BY <1>2 DEF Enqueue
  <2>3. QED
    BY <2>1, <2>2 DEF TypeOK
<1>3. ASSUME NEW t \in Posted, Posting(t) PROVE SignalSeen'
  <2>1. CASE Signal(t)
    <3>1. /\ \A u \in Posted : post'[u] = "idle" => post[u] = "idle"
          /\ signalized' /\ events' = events
      BY <2>1 DEF Signal, TypeOK
    <3>2. Range(events) \subseteq Posted
      BY DEF TypeOK, Range
    <3>3. QED
      BY <3>1, <3>2
  <2>2. CASE Check(t) \/ Release(t)
    <3>1. /\ \A u \in Posted : post'[u] \in {"check", "release", "posted"}
                                  => post[u] \in {"check", "release", "posted"}
          /\ \A u \in Posted : post'[u] = "idle" => post[u] = "idle"
      BY <2>2 DEF Check, Release, TypeOK
    <3>2. Sent \subseteq Posted
      BY DEF TypeOK, Range
    <3>3. UNCHANGED <<signalized, pc, stopped, events>>
      BY <2>2 DEF Check, Release, shared
    <3>4. QED
      BY <3>1, <3>2, <3>3
  <2>3. QED
    BY <1>3, <2>1, <2>2 DEF Posting
<1>4. CASE Round
  <2>1. CASE stopped
    BY <1>4, <2>1 DEF Round
  <2>2. CASE ~stopped
    <3>1. events' = <<>>
      BY <1>4, <2>2 DEF Round
    <3>2. QED
      BY <3>1 DEF Range
  <2>3. QED
    BY <2>1, <2>2
<1>5. CASE Unsignal
  BY <1>5 DEF Unsignal, Goto
<1>6. CASE Enter \/ Top \/ Wake \/ Clear \/ Signals \/ Judge
  BY <1>6 DEF Enter, Top, Wake, Clear, Signals, Judge, HandleEvents, Goto, shared
<1>7. CASE ProcessTask \/ CompleteTask \/ Schedule \/ Drain \/ Drained
  <2>1. UNCHANGED <<post, events, signalized, stopped>> /\ pc # "round"
    BY <1>7 DEF ProcessTask, CompleteTask, Complete, Schedule, Drain, Drained, Goto, shared
  <2>2. QED
    BY <2>1
<1>8. QED
  BY <1>1, <1>2, <1>3, <1>4, <1>5, <1>6, <1>7 DEF Next, ProcessingLoop

\* Every step keeps WakeUpDue.
LEMMA WakeUpStep ==
  TypeOK /\ SignalSeen /\ WakeUpDue /\ [Next]_vars => WakeUpDue'
<1> SUFFICES ASSUME TypeOK, SignalSeen, WakeUpDue, [Next]_vars,
                    ToWait', ~stopped'
             PROVE  blocked' /\ \A t \in Sent' : post'[t] = "posted" => wakeUps' > 0
  BY DEF WakeUpDue
<1>1. CASE StartProcessing \/ StopProcessing \/ Destroy \/ UNCHANGED vars
  <2>1. UNCHANGED <<post, events, blocked, processing>> /\ (stopped => stopped')
        /\ (pc' = pc \/ pc' = "idle")
    BY <1>1 DEF StartProcessing, StopProcessing, Destroy, vars, shared, queues, Goto
  <2>2. wakeUps' >= wakeUps /\ wakeUps \in Nat /\ wakeUps' \in Nat
    BY <1>1 DEF StartProcessing, StopProcessing, Destroy, vars, shared, TypeOK
  <2>3. QED
    BY <2>1, <2>2 DEF WakeUpDue, ToWait, Sent
<1>2. ASSUME NEW t \in Posted, Enqueue(t)
      PROVE  blocked' /\ \A u \in Sent' : post'[u] = "posted" => wakeUps' > 0
  <2>1. Sent' = Sent \cup {t}
    BY <1>2, SentAppend DEF Enqueue, TypeOK, Sent
  <2>2. /\ post' = [post EXCEPT ![t] = "signal"]
        /\ UNCHANGED <<blocked, pc, stopped, processing, wakeUps>>
    BY <1>2 DEF Enqueue, queues
  <2>3. QED
    BY <2>1, <2>2 DEF TypeOK, WakeUpDue, ToWait
<1>3. ASSUME NEW t \in Posted, Posting(t)
      PROVE  blocked' /\ \A u \in Sent' : post'[u] = "posted" => wakeUps' > 0
  <2>1. /\ UNCHANGED <<blocked, pc, stopped, processing, Sent>>
        /\ wakeUps \in Nat
    BY <1>3 DEF Posting, Signal, Check, Release, shared, queues, Sent, TypeOK
  <2>2. blocked
    BY <2>1 DEF WakeUpDue, ToWait
  <2>3. CASE Signal(t) \/ Check(t)
    <3>1. \A u \in Posted : post'[u] = "posted" => post[u] = "posted"
      BY <2>2, <2>3 DEF Signal, Check, TypeOK
    <3>2. Sent \subseteq Posted
      BY DEF TypeOK, Sent, Range
    <3>3. wakeUps' = wakeUps
      BY <2>3 DEF Signal, Check, shared
    <3>4. QED
      BY <2>1, <2>2, <3>1, <3>2, <3>3 DEF WakeUpDue, ToWait
  <2>4. CASE Release(t)
    BY <2>1, <2>2, <2>4 DEF Release
  <2>5. QED
    BY <1>3, <2>3, <2>4 DEF Posting
<1>4. CASE Top
  BY <1>4 DEF Top, Goto, shared, queues, WakeUpDue, ToWait, Sent, TypeOK
<1>5. CASE Drain
  <2>1. pc' = "top" /\ ~signalized /\ pc = "drain"
        /\ UNCHANGED <<post, shared, queues>>
    BY <1>5 DEF Drain, HandleEvents, Goto, ToWait
  <2>2. \A t \in Sent : post[t] # "posted"
    BY <2>1 DEF SignalSeen, shared
  <2>3. QED
    BY <2>1, <2>2 DEF ToWait, Sent, shared
<1>6. CASE Enter \/ Wake \/ Clear \/ Signals \/ Round \/ Judge \/ Unsignal
  BY <1>6 DEF Enter, Wake, Clear, Signals, Round, Judge, Unsignal, HandleEvents, Goto,
              shared, ToWait, TypeOK, Local
<1>7. CASE ProcessTask \/ CompleteTask \/ Schedule \/ Drained
  BY <1>7 DEF ProcessTask, CompleteTask, Complete, Schedule, Drained, Goto, ToWait
<1>8. QED
  BY <1>1, <1>2, <1>3, <1>4, <1>5, <1>6, <1>7 DEF Next, ProcessingLoop

\* The first event of a round that finds no task is processed, whatever it asks for.
LEMMA FirstIsProcessed ==
  ASSUME NEW es \in Seq(Posted), ToSchedule(es) # {}
  PROVE  processing \cup ToProcess(es) # {}
<1> SUFFICES ASSUME processing = {} PROVE ToProcess(es) # {}
  OBVIOUS
<1>1. es # <<>>
  BY DEF ToSchedule, Range
<1>2. 1 \in DOMAIN es /\ Head(es) = es[1]
  BY <1>1
<1>3. Head(es) \in Range(es)
  BY <1>2 DEF Range
<1>4. Head(es) \in ToProcess(es)
  BY <1>3 DEF ToProcess, ToSchedule
<1>5. QED
  BY <1>4

\* Every step keeps LocalQueues.
LEMMA QueuesStep == TypeOK /\ LocalQueues /\ [Next]_vars => LocalQueues'
<1> SUFFICES ASSUME TypeOK, LocalQueues, [Next]_vars PROVE LocalQueues'
  OBVIOUS
<1> USE DEF LocalQueues
<1>1. CASE StartProcessing
  BY <1>1 DEF StartProcessing, queues, Goto
<1>2. CASE StopProcessing \/ Destroy \/ UNCHANGED vars
  BY <1>2 DEF StopProcessing, Destroy, vars, shared, queues
<1>3. ASSUME NEW t \in Posted, Enqueue(t) \/ Posting(t) PROVE LocalQueues'
  BY <1>3 DEF Enqueue, Posting, Signal, Check, Release, shared, queues
<1>4. CASE Enter \/ Wake \/ Clear \/ Signals \/ Judge \/ Unsignal \/ Drain \/ Drained
  <2>1. Wake \/ (UNCHANGED queues /\ pc \notin {"complete", "schedule", "wait", "top"})
    BY <1>4 DEF Enter, Clear, Signals, Judge, Unsignal, Drain, Drained
  <2>2. pc' # "wait"
    BY <1>4 DEF TypeOK, Local, Enter, Wake, Clear, Signals, Judge, Unsignal, Drain, Drained, HandleEvents, Goto
  <2>3. QED
    BY <1>4, <2>1, <2>2 DEF Wake, queues, Goto
<1>5. CASE Top
  BY <1>5 DEF Top, Goto, queues
<1>6. CASE Round
  <2>1. CASE stopped
    BY <1>6, <2>1 DEF Round, Goto, TypeOK, Local
  <2>2. CASE ~stopped
    <3>1. /\ pc = "round" /\ pc' = "judge" /\ UNCHANGED completion
          /\ processing' = processing \cup ToProcess(events)
          /\ scheduling' = scheduling \cup ToSchedule(events)
      BY <1>6, <2>2 DEF Round, Goto
    <3>2. ToSchedule(events) # {} => processing' # {}
      BY <3>1, FirstIsProcessed DEF TypeOK
    <3>3. QED
      BY <3>1, <3>2
  <2>3. QED
    BY <2>1, <2>2
<1>7. CASE ProcessTask
  <2>1. CASE UNCHANGED queues
    BY <1>7, <2>1 DEF ProcessTask, Goto, queues
  <2>2. CASE pc' = "complete"
    BY <2>2
  <2>3. QED
    BY <1>7, <2>1, <2>2 DEF ProcessTask, Goto
<1>8. CASE CompleteTask
  BY <1>8 DEF CompleteTask, Complete, Goto
<1>9. CASE Schedule
  <2>1. pc = "schedule" /\ UNCHANGED completion
        /\ pc' = IF processing' = {} THEN "drain" ELSE "top"
    BY <1>9 DEF Schedule, Goto
  <2>2. scheduling' # {} => processing' # {}
    BY <1>9 DEF Schedule
  <2>3. QED
    BY <2>1, <2>2
<1>10. QED
  BY <1>1, <1>2, <1>3, <1>4, <1>5, <1>6, <1>7, <1>8, <1>9 DEF Next, ProcessingLoop

-----------------------------------------------------------------------------
(* Theorems *)

\* The invariant holds initially.
LEMMA InitIInv == Init => IInv
<1> SUFFICES ASSUME Init PROVE IInv
  OBVIOUS
<1>1. TypeOK
  <2>1. /\ post \in [Posted -> PostStep] /\ pc \in Label /\ local \in Local
        /\ destroyer \in {"none", "stop", "join", "gone"}
    BY DEF Init, PostStep, Label, Local
  <2>2. events \in Seq(Posted) /\ completion \in Seq(Task) /\ wakeUps \in Nat
    BY DEF Init
  <2>3. active \in [Task -> Int] /\ done \in [Task -> Nat]
    BY DEF Init
  <2>4. /\ signalized \in BOOLEAN /\ blocked \in BOOLEAN /\ stopped \in BOOLEAN
        /\ request \in BOOLEAN /\ processing \subseteq Task /\ scheduling \subseteq Posted
    BY DEF Init
  <2>5. QED
    BY <2>1, <2>2, <2>3, <2>4 DEF TypeOK
<1>2. SignalSeen /\ WakeUpDue /\ LocalQueues
  BY DEF Init, SignalSeen, WakeUpDue, ToWait, Sent, LocalQueues, Range
<1>3. QED
  BY <1>1, <1>2 DEF IInv

\* The invariant holds always.
THEOREM Inductive == Spec => []IInv
<1>1. IInv /\ [Next]_vars => IInv'
  BY TypeStep, SignalStep, WakeUpStep, QueuesStep DEF IInv
<1>2. QED
  BY <1>1, InitIInv, PTL DEF Spec

\* The types of the unit and of its senders, for any set of tasks.
THEOREM UnitTypeCorrect == Spec => []TypeOK
<1>1. IInv => TypeOK
  BY DEF IInv
<1>2. QED
  BY <1>1, Inductive, PTL

\* signalizeEvent and processingLoop together lose no wake-up: a thread that waits in
\* vain has no event whose sender is done.
THEOREM NoWakeUpLost == Spec => []NoLostWakeUp
<1>1. IInv => NoLostWakeUp
  <2> SUFFICES ASSUME IInv, pc = "wait", wakeUps = 0, ~stopped, NEW i \in DOMAIN events
               PROVE  post[events[i]] \in {"signal", "check", "release"}
    BY DEF NoLostWakeUp
  <2>1. events[i] \in Posted /\ events[i] \in Sent
    BY DEF IInv, TypeOK, Sent, Range
  <2>2. post[events[i]] # "posted"
    BY <2>1 DEF IInv, WakeUpDue, ToWait
  <2>3. QED
    <3>1. post[events[i]] \in PostStep /\ post[events[i]] # "idle"
      BY <2>1 DEF IInv, TypeOK, SignalSeen
    <3>2. QED
      BY <2>2, <3>1 DEF PostStep
<1>2. QED
  BY <1>1, Inductive, PTL

\* The thread waits only when all its queues are empty.
THEOREM IdleWhenWaiting == Spec => []WaitsOnlyWhenIdle
<1>1. IInv => WaitsOnlyWhenIdle
  BY DEF IInv, LocalQueues, WaitsOnlyWhenIdle
<1>2. QED
  BY <1>1, Inductive, PTL

-----------------------------------------------------------------------------
(* Completions *)

\* The tasks in a queue; the subtasks of t not done; t was taken out of its queue.
Queued     == processing \cup scheduling \cup Sent
Undone(t)  == {s \in Subtasks(t) : done[s] = 0}
Handled(t) == done[t] > 0 \/ active[t] > 0 \/ completion = <<t>>

Completing ==
  /\ completion = <<>> \/ \E t \in Task : completion = <<t>>
  /\ \A t \in Task : completion = <<t>> => done[t] = 0
Counting ==
  \A t \in Task :
    /\ done[t] \in {0, 1}
    /\ done[t] = 1 => Undone(t) = {}
    /\ Handled(t) => active[t] = Cardinality(Undone(t))
    /\ ~Handled(t) => active[t] = 0
QueuedOnce ==
  /\ \A t \in Queued : ~Handled(t)
  /\ \A t \in Task : Parent[t] \in Task /\ ~Handled(Parent[t]) => t \notin Queued /\ ~Handled(t)
  /\ processing \cap scheduling = {} /\ (processing \cup scheduling) \cap Sent = {}
  /\ \A t \in Posted : post[t] = "idle" => t \notin Queued /\ ~Handled(t)

Tree == Completing /\ Counting /\ QueuedOnce

\* The set of subtasks that are not done is finite; empty when its size is zero.
LEMMA UndoneFinite ==
  ASSUME NEW t \in Task
  PROVE  /\ IsFiniteSet(Undone(t)) /\ Cardinality(Undone(t)) \in Nat
         /\ Cardinality(Undone(t)) = 0 <=> Undone(t) = {}
<1>1. Undone(t) \subseteq Task /\ IsFiniteSet(Task)
  BY TaskAssumption DEF Undone, Subtasks
<1>2. QED
  BY <1>1, FS_Subset, FS_CardinalityType, FS_EmptySet

\* A step that moves no task keeps the tree.
LEMMA TreeKept ==
  ASSUME Tree, UNCHANGED <<queues, events>>,
         \A t \in Posted : post'[t] = "idle" => post[t] = "idle"
  PROVE  Tree'
<1>1. UNCHANGED <<processing, scheduling, completion, active, done, events>>
  BY DEF queues
<1>2. Queued' = Queued
  BY <1>1 DEF Queued, Sent
<1>3. \A t : Handled(t)' = Handled(t) /\ Undone(t)' = Undone(t)
  BY <1>1 DEF Handled, Undone
<1>4. Completing'
  BY <1>1 DEF Tree, Completing
<1>5. Counting'
  BY <1>1, <1>3 DEF Tree, Counting
<1>6. QueuedOnce'
  BY <1>1, <1>2, <1>3 DEF Tree, QueuedOnce, Sent
<1>7. QED
  BY <1>4, <1>5, <1>6 DEF Tree

\* A step that moves tasks from one queue to another.
LEMMA TreeMoved ==
  ASSUME Tree, UNCHANGED <<post, completion, active, done>>, Queued' = Queued,
         (processing \cap scheduling)' = {}, ((processing \cup scheduling) \cap Sent)' = {}
  PROVE  Tree'
<1>1. \A t : Handled(t)' = Handled(t) /\ Undone(t)' = Undone(t)
  BY DEF Handled, Undone
<1>2. Completing' /\ Counting'
  BY <1>1 DEF Tree, Completing, Counting
<1>3. QueuedOnce'
  BY <1>1 DEF Tree, QueuedOnce
<1>4. QED
  BY <1>2, <1>3 DEF Tree

\* A sender puts a task into the queue that was in none before.
LEMMA TreeEnqueue ==
  ASSUME TypeOK, Tree, NEW t \in Posted, Enqueue(t)
  PROVE  Tree'
<1>1. /\ UNCHANGED <<processing, scheduling, completion, active, done>>
      /\ post[t] = "idle" /\ post' = [post EXCEPT ![t] = "signal"]
      /\ events' = Append(events, t)
  BY DEF Enqueue, queues
<1>2. Sent' = Sent \cup {t} /\ Queued' = Queued \cup {t}
  BY <1>1, SentAppend DEF TypeOK, Sent, Queued
<1>3. \A u : Handled(u)' = Handled(u) /\ Undone(u)' = Undone(u)
  BY <1>1 DEF Handled, Undone
<1>4. t \notin Queued /\ ~Handled(t)
  BY <1>1 DEF Tree, QueuedOnce
<1>5. Completing' /\ Counting'
  BY <1>1, <1>3 DEF Tree, Completing, Counting
<1>6. QueuedOnce'
  <2>1. \A u \in Queued' : ~Handled(u)'
    BY <1>2, <1>3, <1>4 DEF Tree, QueuedOnce
  <2>2. Parent[t] \notin Task
    BY TaskAssumption DEF Posted
  <2>3. \A u \in Task : Parent[u] \in Task /\ ~Handled(Parent[u])'
                        => u \notin Queued' /\ ~Handled(u)'
    BY <1>2, <1>3, <2>2 DEF Tree, QueuedOnce
  <2>4. /\ (processing \cap scheduling)' = {}
        /\ ((processing \cup scheduling) \cap Sent)' = {}
    BY <1>1, <1>2, <1>4 DEF Tree, QueuedOnce, Queued
  <2>5. \A u \in Posted : post'[u] = "idle" => u \notin Queued' /\ ~Handled(u)'
    BY <1>1, <1>2, <1>3 DEF TypeOK, Tree, QueuedOnce
  <2>6. QED
    BY <2>1, <2>3, <2>4, <2>5 DEF QueuedOnce
<1>7. QED
  BY <1>5, <1>6 DEF Tree

\* A round moves the whole event queue into the two queues of tasks.
LEMMA TreeRound ==
  ASSUME TypeOK, Tree, Round
  PROVE  Tree'
<1>1. CASE stopped
  BY <1>1, TreeKept DEF Round, queues
<1>2. CASE ~stopped
  <2>1. /\ processing' = processing \cup ToProcess(events)
        /\ scheduling' = scheduling \cup ToSchedule(events)
        /\ events' = <<>> /\ UNCHANGED <<post, completion, active, done>>
    BY <1>2 DEF Round
  <2>2. /\ ToProcess(events) \cup ToSchedule(events) = Sent
        /\ ToProcess(events) \cap ToSchedule(events) = {}
    BY DEF ToProcess, ToSchedule, Sent
  <2>3. Sent' = {}
    BY <2>1 DEF Sent, Range
  <2>4. Queued' = Queued
    BY <2>1, <2>2, <2>3 DEF Queued
  <2>5. (processing \cap scheduling)' = {} /\ ((processing \cup scheduling) \cap Sent)' = {}
    BY <2>1, <2>2, <2>3 DEF Tree, QueuedOnce
  <2>6. QED
    BY <2>1, <2>4, <2>5, TreeMoved
<1>3. QED
  BY <1>1, <1>2

\* Scheduling moves one task.
LEMMA TreeSchedule ==
  ASSUME Tree, Schedule
  PROVE  Tree'
<1>1. UNCHANGED <<post, events, completion, active, done>>
  BY DEF Schedule, shared
<1>2. CASE processing = {} /\ scheduling # {}
  <2>1. PICK t \in scheduling : processing' = {t} /\ scheduling' = scheduling \ {t}
    BY <1>2 DEF Schedule
  <2>2. Queued' = Queued
    BY <1>1, <1>2, <2>1 DEF Queued, Sent
  <2>3. (processing \cap scheduling)' = {} /\ ((processing \cup scheduling) \cap Sent)' = {}
    BY <1>1, <1>2, <2>1 DEF Tree, QueuedOnce, Sent
  <2>4. QED
    BY <1>1, <2>2, <2>3, TreeMoved
<1>3. CASE ~(processing = {} /\ scheduling # {})
  <2>1. UNCHANGED <<queues, events>>
    BY <1>1, <1>3 DEF Schedule, queues
  <2>2. QED
    BY <1>1, <2>1, TreeKept
<1>4. QED
  BY <1>2, <1>3

\* Processing handles a task of the queue and puts its subtasks, which are new, there.
LEMMA TreeProcess ==
  ASSUME TypeOK, Tree, ProcessTask, pc # "complete" => completion = <<>>
  PROVE  Tree'
<1>1. UNCHANGED <<post, events>> /\ completion = <<>>
  BY DEF ProcessTask, shared
<1>2. CASE UNCHANGED queues
  BY <1>1, <1>2, TreeKept
<1>3. ASSUME NEW t \in processing,
             processing' = (processing \ {t}) \cup Subtasks(t),
             active' = [active EXCEPT ![t] = Cardinality(Subtasks(t))],
             completion' = <<t>>, UNCHANGED <<scheduling, done>>
      PROVE  Tree'
  <2>1. t \in Task /\ t \in Queued /\ ~Handled(t)
    BY DEF TypeOK, Queued, Tree, QueuedOnce
  <2>2. done[t] = 0
    BY <2>1 DEF Handled, Tree, Counting
  <2>3. \A s \in Subtasks(t) : s \in Task /\ s # t /\ s \notin Queued /\ ~Handled(s)
    BY <2>1, TaskAssumption DEF Subtasks, Tree, QueuedOnce
  <2>4. \A s \in Subtasks(t) : done[s] = 0
    BY <2>3 DEF Handled, Tree, Counting
  <2>5. \A u \in Task : Undone(u)' = Undone(u)
    BY <1>3 DEF Undone
  <2>6. Undone(t) = Subtasks(t)
    BY <2>4 DEF Undone
  <2>7. \A u \in Task : u # t => Handled(u)' = Handled(u)
    BY <1>1, <1>3, <2>1 DEF Handled, TypeOK
  <2>8. Handled(t)'
    BY <1>3 DEF Handled
  <2>9. Completing'
    BY <1>3, <2>1, <2>2 DEF Completing
  <2>10. Counting'
    <3>1. ASSUME NEW u \in Task, u # t
          PROVE  /\ done'[u] \in {0, 1} /\ (done'[u] = 1 => Undone(u)' = {})
                 /\ Handled(u)' => active'[u] = Cardinality(Undone(u)')
                 /\ ~Handled(u)' => active'[u] = 0
      BY <1>3, <2>1, <2>5, <2>7, <3>1 DEF Tree, Counting, TypeOK
    <3>2. done'[t] = 0 /\ active'[t] = Cardinality(Undone(t)')
      BY <1>3, <2>1, <2>2, <2>5, <2>6 DEF TypeOK
    <3>3. QED
      BY <2>8, <3>1, <3>2 DEF Counting
  <2>11. Queued' = (Queued \ {t}) \cup Subtasks(t)
    BY <1>1, <1>3, <2>1 DEF Queued, Sent, Tree, QueuedOnce
  <2>12. QueuedOnce'
    <3>1. \A u \in Queued' : u \in Task /\ u # t /\ ~Handled(u)'
      <4>1. Queued \subseteq Task
        BY DEF Queued, Sent, Range, TypeOK, Posted
      <4>2. \A u \in Queued' : u \in Task /\ u # t /\ ~Handled(u)
        BY <2>3, <2>11, <4>1 DEF Tree, QueuedOnce
      <4>3. QED
        BY <4>2, <2>7
    <3>2. \A u \in Task : Parent[u] \in Task /\ ~Handled(Parent[u])'
                          => u \notin Queued' /\ ~Handled(u)'
      <4> SUFFICES ASSUME NEW u \in Task, Parent[u] \in Task, ~Handled(Parent[u])'
                   PROVE  u \notin Queued' /\ ~Handled(u)'
        OBVIOUS
      <4>1. Parent[u] # t
        BY <2>8
      <4>2. u \notin Queued /\ ~Handled(u)
        BY <2>7, <4>1 DEF Tree, QueuedOnce
      <4>3. u # t /\ u \notin Subtasks(t)
        BY <2>1, <4>1, <4>2 DEF Subtasks
      <4>4. QED
        BY <2>7, <2>11, <4>2, <4>3
    <3>3. Subtasks(t) \cap Posted = {}
      BY <2>1, TaskAssumption DEF Subtasks, Posted
    <3>4. (processing \cap scheduling)' = {} /\ ((processing \cup scheduling) \cap Sent)' = {}
      <4>1. Sent \subseteq Posted /\ scheduling \subseteq Posted
        BY DEF Sent, Range, TypeOK
      <4>2. QED
        BY <1>1, <1>3, <3>3, <4>1 DEF Tree, QueuedOnce, Sent
    <3>5. \A u \in Posted : post'[u] = "idle" => u \notin Queued' /\ ~Handled(u)'
      <4> SUFFICES ASSUME NEW u \in Posted, post'[u] = "idle"
                   PROVE  u \notin Queued' /\ ~Handled(u)'
        OBVIOUS
      <4>1. u \notin Queued /\ ~Handled(u) /\ u \in Task /\ u \notin Subtasks(t)
        BY <1>1, <3>3 DEF Tree, QueuedOnce, Posted
      <4>2. QED
        BY <2>1, <2>7, <2>11, <4>1
    <3>6. QED
      BY <3>1, <3>2, <3>4, <3>5 DEF QueuedOnce
  <2>13. QED
    BY <2>9, <2>10, <2>12 DEF Tree
<1>4. QED
  BY <1>2, <1>3 DEF ProcessTask

\* Only tasks are queued.
LEMMA QueuedTasks == TypeOK => Queued \subseteq Task
  BY DEF TypeOK, Queued, Sent, Range, Posted

\* Completing a task takes it from what its parent waits for; a parent that waits for
\* nothing more is next.
LEMMA TreeComplete ==
  ASSUME TypeOK, Tree, Complete, UNCHANGED <<post, events, processing, scheduling>>
  PROVE  Tree'
<1>1. PICK t \in Task : completion = <<t>>
  BY DEF Complete, Tree, Completing
<1>2. Head(completion) = t /\ Tail(completion) = <<>>
  BY <1>1
<1> DEFINE p == Parent[t]
<1>3. done[t] = 0 /\ Handled(t) /\ active[t] = Cardinality(Undone(t))
  BY <1>1 DEF Tree, Completing, Counting, Handled
<1>4. Queued' = Queued
  BY DEF Queued, Sent
<1>5. CASE active[t] > 0
  <2>1. completion' = <<>> /\ UNCHANGED <<active, done>>
    BY <1>2, <1>5 DEF Complete
  <2>2. \A u \in Task : Handled(u)' = Handled(u) /\ Undone(u)' = Undone(u)
    BY <1>1, <1>5, <2>1 DEF Handled, Undone
  <2>3. Completing'
    BY <2>1 DEF Completing
  <2>4. Counting'
    BY <2>1, <2>2 DEF Tree, Counting
  <2>5. QueuedOnce'
    BY <1>4, <2>2, QueuedTasks DEF Tree, QueuedOnce, Sent, Posted
  <2>6. QED
    BY <2>3, <2>4, <2>5 DEF Tree
<1>6. CASE ~(active[t] > 0)
  <2>1. /\ done' = [done EXCEPT ![t] = @ + 1]
        /\ active' = IF p \in Task THEN [active EXCEPT ![p] = @ - 1] ELSE active
        /\ completion' = IF p \in Task /\ active[p] = 1 THEN <<p>> \o <<>> ELSE <<>>
    BY <1>2, <1>6 DEF Complete
  <2>2. Undone(t) = {} /\ active[t] = 0
    BY <1>3, <1>6, UndoneFinite
  <2>3. p # t
    BY TaskAssumption
  <2>4. done'[t] = 1 /\ \A u \in Task : u # t => done'[u] = done[u]
    BY <1>3, <2>1 DEF TypeOK
  <2>5. \A u \in Task : u # p => active'[u] = active[u]
    BY <2>1 DEF TypeOK
  <2>6. \A u \in Task : u # p => Undone(u)' = Undone(u)
    BY <2>4 DEF Undone, Subtasks
  <2>7. p \in Task => /\ Handled(p) /\ active[p] = Cardinality(Undone(p))
                      /\ t \in Undone(p) /\ done[p] = 0
                      /\ active[p] > 0
                      /\ active'[p] = active[p] - 1
                      /\ Undone(p)' = Undone(p) \ {t}
                      /\ Cardinality(Undone(p)') = active[p] - 1
    <3> SUFFICES ASSUME p \in Task PROVE <2>7!2
      OBVIOUS
    <3>1. Handled(p)
      BY <1>3 DEF Tree, QueuedOnce
    <3>2. t \in Undone(p)
      BY <1>3 DEF Undone, Subtasks
    <3>3. done[p] = 0 /\ active[p] = Cardinality(Undone(p))
      BY <3>1, <3>2 DEF Tree, Counting
    <3>4. active[p] > 0
      BY <3>2, <3>3, UndoneFinite
    <3>5. Undone(p)' = Undone(p) \ {t}
      BY <2>4 DEF Undone, Subtasks
    <3>6. Cardinality(Undone(p) \ {t}) = active[p] - 1
      BY <3>2, <3>3, UndoneFinite, FS_RemoveElement
    <3>7. active'[p] = active[p] - 1
      BY <2>1 DEF TypeOK
    <3>8. QED
      BY <3>1, <3>2, <3>3, <3>4, <3>5, <3>6, <3>7
  <2>8. \A u \in Task : completion' = <<u>> => u = p /\ active[p] = 1
    BY <2>1
  <2>9. p \in Task => Handled(p)'
    <3> SUFFICES ASSUME p \in Task PROVE Handled(p)'
      OBVIOUS
    <3>1. CASE active[p] = 1
      BY <2>1, <3>1 DEF Handled
    <3>2. CASE active[p] # 1
      BY <2>7, <3>2 DEF Handled, TypeOK
    <3>3. QED
      BY <3>1, <3>2
  <2>10. \A u \in Task : Handled(u)' = Handled(u)
    <3> TAKE u \in Task
    <3>1. CASE u = p
      BY <2>7, <2>9, <3>1
    <3>2. CASE u = t
      BY <1>3, <2>4, <3>2 DEF Handled
    <3>3. CASE u # p /\ u # t
      BY <1>1, <2>4, <2>5, <2>8, <3>3 DEF Handled
    <3>4. QED
      BY <3>1, <3>2, <3>3
  <2>11. Completing'
    <3>1. completion' = <<>> \/ (p \in Task /\ completion' = <<p>>)
      BY <2>1
    <3>2. \A u \in Task : completion' = <<u>> => done'[u] = 0
      BY <2>3, <2>4, <2>7, <2>8
    <3>3. QED
      BY <3>1, <3>2 DEF Completing
  <2>12. Counting'
    <3>1. ASSUME NEW u \in Task
          PROVE  /\ done'[u] \in {0, 1} /\ (done'[u] = 1 => Undone(u)' = {})
                 /\ Handled(u)' => active'[u] = Cardinality(Undone(u)')
                 /\ ~Handled(u)' => active'[u] = 0
      <4>1. CASE u = p
        BY <2>3, <2>4, <2>7, <2>9, <4>1
      <4>2. CASE u = t
        BY <2>2, <2>3, <2>4, <2>5, <2>6, <1>3, <2>10, <4>2
      <4>3. CASE u # p /\ u # t
        BY <2>4, <2>5, <2>6, <2>10, <4>3 DEF Tree, Counting
      <4>4. QED
        BY <4>1, <4>2, <4>3
    <3>2. QED
      BY <3>1 DEF Counting
  <2>13. QueuedOnce'
    BY <1>4, <2>10, QueuedTasks DEF Tree, QueuedOnce, Sent, Posted
  <2>14. QED
    BY <2>11, <2>12, <2>13 DEF Tree
<1>7. QED
  BY <1>5, <1>6

\* Every step keeps Tree.
LEMMA TreeStep ==
  TypeOK /\ LocalQueues /\ Tree /\ [Next]_vars => Tree'
<1> SUFFICES ASSUME TypeOK, LocalQueues, Tree, [Next]_vars PROVE Tree'
  OBVIOUS
<1>1. CASE StartProcessing \/ StopProcessing \/ Destroy \/ UNCHANGED vars
  BY <1>1, TreeKept DEF StartProcessing, StopProcessing, Destroy, vars, shared
<1>2. ASSUME NEW t \in Posted, Posting(t) PROVE Tree'
  <2>1. \A u \in Posted : post'[u] = "idle" => post[u] = "idle"
    BY <1>2 DEF Posting, Signal, Check, Release, TypeOK
  <2>2. UNCHANGED <<queues, events>>
    BY <1>2 DEF Posting, Signal, Check, Release, shared
  <2>3. QED
    BY <2>1, <2>2, TreeKept
<1>3. CASE Enter \/ Top \/ Wake \/ Clear \/ Signals \/ Judge \/ Unsignal \/ Drain \/ Drained
  <2>1. UNCHANGED <<queues, events, post>>
    BY <1>3 DEF Enter, Top, Wake, Clear, Signals, Judge, Unsignal, Drain, Drained, shared
  <2>2. QED
    BY <2>1, TreeKept
<1>4. CASE CompleteTask
  <2>1. CASE Complete
    BY <1>4, <2>1, TreeComplete DEF CompleteTask, shared
  <2>2. CASE ~Complete
    BY <1>4, <2>2, TreeKept DEF CompleteTask, shared, queues
  <2>3. QED
    BY <2>1, <2>2
<1>5. QED
  BY <1>1, <1>2, <1>3, <1>4, TreeEnqueue, TreeRound, TreeProcess, TreeSchedule
     DEF Next, ProcessingLoop, LocalQueues

\* Tree holds initially.
LEMMA InitTree == Init => Tree
<1> SUFFICES ASSUME Init PROVE Tree
  OBVIOUS
<1>1. Queued = {} /\ \A t \in Task : ~Handled(t)
  BY DEF Init, Queued, Sent, Range, Handled
<1>2. Completing /\ Counting
  BY <1>1 DEF Init, Completing, Counting
<1>3. QueuedOnce
  BY <1>1 DEF Init, QueuedOnce, Queued, Posted
<1>4. QED
  BY <1>2, <1>3 DEF Tree

\* completeTask completes no task twice and none before its subtasks.
THEOREM CompletesOnce == Spec => []CompletedOnce
<1>1. TypeOK /\ LocalQueues /\ Tree /\ [Next]_vars => Tree'
  BY TreeStep
<1>2. IInv => TypeOK /\ LocalQueues
  BY DEF IInv
<1>3. Tree => CompletedOnce
  <2> SUFFICES ASSUME Tree, NEW t \in Task
               PROVE  done[t] <= 1 /\ (done[t] = 1 => \A s \in Subtasks(t) : done[s] = 1)
    BY DEF CompletedOnce
  <2>1. done[t] <= 1
    BY DEF Tree, Counting
  <2>2. ASSUME done[t] = 1, NEW s \in Subtasks(t) PROVE done[s] = 1
    BY <2>2 DEF Tree, Counting, Undone, Subtasks
  <2>3. QED
    BY <2>1, <2>2
<1>4. QED
  BY <1>1, <1>2, <1>3, InitTree, Inductive, PTL DEF Spec
=============================================================================
