------------------------------- MODULE OpQueue -------------------------------
(***************************************************************************)
(* What RdfReasoner promises about concurrent operations: they are served  *)
(* one after the other in the order asked for, and each one is answered,   *)
(* with the result for its own store or with a failure.  Once closed it    *)
(* takes no more of them, and owes no answer to those it has.              *)
(***************************************************************************)
EXTENDS Integers, Sequences

CONSTANTS Op, Promised, Nothing   \* Promised[o]: what o resolves with

VARIABLES
  issued,    \* the operations asked for, in order
  settled,   \* those answered
  answer,    \* answer[o]: what o resolved with, or Nothing
  closed

vars == <<issued, settled, answer, closed>>

Init ==
  issued = <<>> /\ settled = {} /\ answer = [o \in Op |-> Nothing] /\ closed = FALSE

Issue(o) ==
  /\ ~closed /\ o \notin {issued[i] : i \in DOMAIN issued}
  /\ issued' = Append(issued, o) /\ UNCHANGED <<settled, answer, closed>>

\* The first operation not answered yet is answered.
Settle ==
  \E i \in DOMAIN issued :
    /\ issued[i] \notin settled /\ \A j \in 1..(i - 1) : issued[j] \in settled
    /\ settled' = settled \cup {issued[i]}
    /\ \E a \in {Nothing, Promised[issued[i]]} : answer' = [answer EXCEPT ![issued[i]] = a]
    /\ UNCHANGED <<issued, closed>>

Close == ~closed /\ closed' = TRUE /\ UNCHANGED <<issued, settled, answer>>

Next == Settle \/ Close \/ \E o \in Op : Issue(o)

Spec == Init /\ [][Next]_vars /\ WF_vars(~closed /\ Settle)
=============================================================================
