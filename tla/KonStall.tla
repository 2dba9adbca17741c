-------------------------------- MODULE KonStall --------------------------------
(***************************************************************************)
(* The process-wide accounting of KonStall.h: how many tableau tasks are   *)
(* in progress, how many were started in this wait, how long ago a task or *)
(* an event last ended.  A record k stands for the atomics; k.idle counts  *)
(* ticks of the clock since gLastMs, up to one more than the threshold.    *)
(***************************************************************************)
EXTENDS Integers

CONSTANTS Slow, Fast    \* gThresholdMs, gFastThresholdMs in ticks; 0 or less disables

ASSUME ThresholdAssumption == Slow \in Int /\ Fast \in Int

Quiet == [busy |-> 0, tasks |-> 0, idle |-> 0, stalled |-> FALSE]

Age(n) == IF n <= Slow THEN n + 1 ELSE n

\* touch(), at the begin and the end of an event and at the end of a task.
Touch(k) == [k EXCEPT !.idle = 0]

\* Scope: the task counts as work and as a task of this wait; when it ends the clock is set
\* before the count goes down.
Enter(k) == [k EXCEPT !.busy = @ + 1, !.tasks = @ + 1]
LeaveStaysBusy(k) == k
Leave(k) == [k EXCEPT !.busy = @ - 1]

\* Called at the start of a blocking wait.
BeginWait(k) == [k EXCEPT !.stalled = FALSE, !.tasks = 0, !.idle = 0]

\* The three looks of stallDetected: at the tasks in progress, at those of this wait, at the clock.
MayStall(k) == Slow > 0 /\ k.busy = 0
Threshold(k) == IF k.tasks > 0 /\ 0 < Fast /\ Fast < Slow THEN Fast ELSE Slow
Overdue(k, threshold) == k.idle > threshold
Declare(k) == [k EXCEPT !.stalled = TRUE]
=============================================================================
