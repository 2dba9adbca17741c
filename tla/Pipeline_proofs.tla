---------------------------- MODULE Pipeline_proofs ----------------------------
(***************************************************************************)
(* What the kernel's threads, its stall detector and its two ontologies    *)
(* owe each other, for any number of calls, addresses and tasks, and for   *)
(* any thresholds.                                                         *)
(***************************************************************************)
EXTENDS Pipeline, SequenceTheorems, TLAPS

InRun == {"waiting", "suspicious", "choosing", "measuring", "prepared", "stalled"}
Waiting == {"waiting", "suspicious", "choosing", "measuring"}
StepNames == Kinds \cup {"realize"}
Ont == [at : Address, number : Nat \ {0}]
Account == [busy : Int, tasks : Nat, idle : Nat, stalled : BOOLEAN]
Jobs == [todo : Seq(StepNames), at : {"none", "look", "make", "posted", "working"},
         worker : Nat, task : {"none", "running", "ending"}, done : BOOLEAN]

TypeOK ==
  /\ scenario \in Scenarios
  /\ heap \in [Address -> Nat] /\ born \in Nat \ {0}
  /\ ontology \in Ont \cup {None} /\ previous \in Ont \cup {None}
  /\ dirty \in BOOLEAN
  /\ caller \in InRun \cup {"idle", "loaded", "joined", "gone"}
  /\ limit \in Int
  /\ k \in Account
  /\ job \in Jobs
  /\ created \in [Kinds -> Nat] /\ other \in Kinds \cup {"none"}
  /\ stale \in [Kinds -> SUBSET (Ont \cup {None})]
  /\ realizers \in Seq([running : BOOLEAN, items : SUBSET (Ont \cup {None})])
  /\ hash \in [Address -> Nat]
  /\ hung \in BOOLEAN /\ quiet \in Nat

-----------------------------------------------------------------------------
(* The inductive invariant *)

\* The ontology of the kernel and the one before it live at two addresses.
HeapInv ==
  /\ caller # "gone" => ontology \in Ont /\ heap[ontology.at] = ontology.number
  /\ previous # None => /\ caller # "gone" /\ heap[previous.at] = previous.number
                        /\ previous.at # ontology.at

\* There is a run only while the caller is in one.
JobInv ==
  /\ caller \notin InRun => job = NoJob
  /\ job.done => job.todo = <<>>
  /\ caller = "prepared" => job.done

\* Every address leads to the realizer of this run or to none, and no other realizer runs.
RealizerInv ==
  /\ \A a \in Address : hash[a] \in {0, job.worker}
  /\ job.worker # 0 => /\ job.worker \in 1 .. Len(realizers) /\ realizers[job.worker].running
                       /\ hash[ontology.at] = job.worker
  /\ \A i \in 1 .. Len(realizers) : realizers[i].running => i = job.worker

\* The step s of this call has not seen the present ontology yet.
Pending(s) ==
  \/ caller = "loaded"
  \/ caller \in InRun /\ \E i \in 1 .. Len(job.todo) : job.todo[i] = s /\ ~(i = 1 /\ job.at = "working")

\* What the threads keep is of the present ontology, or of the one before if they are still
\* to see the present one.
KeptInv ==
  scenario.faults \cap {"load", "short"} = {} =>
    /\ dangling = {}
    /\ caller \in {"idle", "joined"} => previous = None
    /\ \A s \in Kinds : \A o \in stale[s] : o = ontology \/ (o = previous /\ o # None /\ Pending(s))
    /\ \A i \in 1 .. Len(realizers) : realizers[i].items \subseteq {ontology}
    /\ caller \in {"joined", "gone"} => realizers = <<>> /\ \A s \in Kinds : stale[s] = {}

\* The clock of the accounting is never ahead of the silence, and the short threshold was
\* chosen because of a task.
ClockInv ==
  /\ caller \in Waiting => k.idle <= quiet
  /\ caller = "measuring" => limit = Slow \/ (limit = Fast /\ Fast < Slow /\ k.tasks > 0)

\* Two threads that ask at once do not make two threads for one step
\* (CPreprocessingManager.cpp:58-69, with the double look under the write lock).
OneThreadPerStep == \A s \in Kinds : created[s] <= 1

IInv == TypeOK /\ HeapInv /\ JobInv /\ RealizerInv /\ KeptInv /\ ClockInv /\ OneThreadPerStep

-----------------------------------------------------------------------------
(* Lemmas *)

LEMMA AppendKeeps ==
  ASSUME NEW S, NEW seq \in Seq(S), NEW e \in S
  PROVE  /\ Append(seq, e) \in Seq(S) /\ Len(Append(seq, e)) = Len(seq) + 1
         /\ \A i \in 1 .. Len(seq) : Append(seq, e)[i] = seq[i]
<1>1. Append(seq, e) \in Seq(S) /\ Len(Append(seq, e)) = Len(seq) + 1
  BY AppendProperties
<1>2. ASSUME NEW i \in 1 .. Len(seq) PROVE Append(seq, e)[i] = seq[i]
  BY LenProperties
<1>3. QED
  BY <1>1, <1>2

\* A run visits every step that keeps items.
LEMMA StepsVisitAll ==
  ASSUME NEW realize \in BOOLEAN
  PROVE  /\ Steps(realize) \in Seq(StepNames)
         /\ \A s \in Kinds : \E i \in 1 .. Len(Steps(realize)) : Steps(realize)[i] = s
<1>1. Base \in Seq(StepNames) /\ Len(Base) = 5
  BY DEF Base, StepNames, Kinds
<1>2. \A s \in Kinds : \E i \in 1 .. 5 : Base[i] = s
  BY DEF Base, Kinds
<1>3. CASE realize
  <2>1. Steps(realize) = Append(Base, "realize")
    BY <1>3 DEF Steps
  <2>2. /\ Append(Base, "realize") \in Seq(StepNames) /\ Len(Append(Base, "realize")) = 6
        /\ \A i \in 1 .. 5 : Append(Base, "realize")[i] = Base[i]
    <3>1. Base \in Seq(StepNames) /\ Len(Base) = 5 /\ "realize" \in StepNames
      BY <1>1 DEF StepNames
    <3>2. /\ Append(Base, "realize") \in Seq(StepNames) /\ Len(Append(Base, "realize")) = Len(Base) + 1
          /\ \A i \in 1 .. Len(Base) : Append(Base, "realize")[i] = Base[i]
      BY <3>1, AppendKeeps, Zenon
    <3>3. QED
      BY <3>1, <3>2
  <2>3. QED
    BY <1>2, <2>1, <2>2
<1>4. CASE ~realize
  BY <1>1, <1>2, <1>4 DEF Steps
<1>5. QED
  BY <1>3, <1>4

\* What is alive and all of that is used leaves nothing dangling.
LEMMA UsesAlive ==
  ASSUME NEW onts, Uses(onts), dangling = {},
         \A o \in onts : o # None /\ heap[o.at] = o.number
  PROVE  dangling' = {}
BY DEF Uses, Alive

LEMMA FreeType ==
  ASSUME NEW h \in [Address -> Nat], NEW o
  PROVE  /\ Free(h, o) \in [Address -> Nat]
         /\ \A a \in Address : Free(h, o)[a] = IF o # None /\ o.at = a THEN 0 ELSE h[a]
BY DEF Free

LEMMA AccountKept ==
  ASSUME k \in Account
  PROVE  /\ Touch(k) \in Account /\ Enter(k) \in Account /\ Leave(k) \in Account
         /\ BeginWait(k) \in Account /\ Declare(k) \in Account /\ Threshold(k) \in Int
         /\ [k EXCEPT !.idle = Age(@)] \in Account
<1>1. k.idle \in Nat /\ Age(k.idle) \in Nat
  BY ThresholdAssumption DEF Account, Age
<1>2. k.tasks + 1 \in Nat /\ k.busy + 1 \in Int /\ k.busy - 1 \in Int
  BY DEF Account
<1>3. QED
  BY <1>1, <1>2, ThresholdAssumption DEF Account, Touch, Enter, Leave, BeginWait, Declare, Threshold

LEMMA OntIsNotNone == None \notin Ont
BY PipelineAssumption DEF Ont

\* IInv holds initially.
LEMMA InitInv == Init => IInv
<1> SUFFICES ASSUME Init PROVE IInv
  OBVIOUS
<1> USE DEF Init
<1>1. ontology \in Ont
  BY PipelineAssumption DEF Ont
<1>2. TypeOK
  <2>1. heap \in [Address -> Nat]
    OBVIOUS
  <2>2. job \in Jobs
    BY EmptySeq DEF NoJob, Jobs
  <2>3. realizers \in Seq([running : BOOLEAN, items : SUBSET (Ont \cup {None})])
    BY EmptySeq
  <2>4. k \in Account
    BY DEF Quiet, Account
  <2>5. QED
    <3>1. created \in [Kinds -> Nat] /\ stale \in [Kinds -> SUBSET (Ont \cup {None})] /\ hash \in [Address -> Nat]
      OBVIOUS
    <3>2. scenario \in Scenarios /\ previous \in Ont \cup {None} /\ dirty \in BOOLEAN
          /\ caller \in InRun \cup {"idle", "loaded", "joined", "gone"}
          /\ other \in Kinds \cup {"none"} /\ hung \in BOOLEAN
      BY Zenon
    <3>3. born = 1 /\ limit = 0 /\ quiet = 0
      BY Zenon
    <3>5. born \in Nat \ {0} /\ limit \in Int /\ quiet \in Nat
      <4> HIDE DEF Init
      <4>1. QED
        BY <3>3
    <3>4. QED
      BY <1>1, <2>1, <2>2, <2>3, <2>4, <3>1, <3>2, <3>5, Zenon DEF TypeOK
<1>3. HeapInv
  <2>1. ontology.at \in Address /\ ontology.number = 1
    BY PipelineAssumption
  <2>2. QED
    BY <1>1, <2>1 DEF HeapInv
<1>4. JobInv /\ RealizerInv /\ ClockInv /\ OneThreadPerStep
  BY <1>1 DEF JobInv, RealizerInv, ClockInv, OneThreadPerStep, NoJob, InRun, Waiting, Kinds
<1>5. KeptInv
  BY <1>1 DEF KeptInv, Kinds
<1>6. QED
  BY <1>2, <1>3, <1>4, <1>5 DEF IInv

-----------------------------------------------------------------------------
(* Types *)

LEMMA RealizersMapped ==
  ASSUME NEW R, NEW seq \in Seq(R), NEW f, DOMAIN f = DOMAIN seq,
         \A i \in 1 .. Len(seq) : f[i] \in R, f = [i \in DOMAIN f |-> f[i]]
  PROVE  f \in Seq(R) /\ Len(f) = Len(seq)
BY IsASeq, LenProperties

\* Every step keeps the types.
LEMMA TypeStep == TypeOK /\ HeapInv /\ JobInv /\ [Next]_vars => TypeOK'
<1> SUFFICES ASSUME TypeOK, HeapInv, JobInv, [Next]_vars PROVE TypeOK'
  OBVIOUS
<1> DEFINE R == [running : BOOLEAN, items : SUBSET (Ont \cup {None})]
<1>a. realizers \in Seq(R) /\ DOMAIN realizers = 1 .. Len(realizers)
  BY LenProperties DEF TypeOK
<1>b. \A i \in 1 .. Len(realizers) : realizers[i] \in R
  BY <1>a, ElementOfSeq
<1>1. ASSUME NEW fails \in BOOLEAN, Load(fails) PROVE TypeOK'
  <2>1. CASE dirty
    <3>1. PICK a \in Address : Reset(a)
      BY <1>1, <2>1 DEF Load
    <3>2. realizers' \in Seq(R)
      <4>1. DOMAIN ReleaseStopped = DOMAIN realizers
            /\ \A i \in 1 .. Len(realizers) : ReleaseStopped[i] \in R
        BY <1>a, <1>b DEF ReleaseStopped
      <4>2. QED
        BY <4>1, <1>a, <3>1, RealizersMapped DEF Reset, ReleaseStopped
    <3>3. heap' \in [Address -> Nat] /\ born' \in Nat \ {0}
      <4>1. heap \in [Address -> Nat] /\ born + 1 \in Nat \ {0}
        BY DEF TypeOK
      <4>2. Free(heap, previous) \in [Address -> Nat]
        BY <4>1, FreeType, Zenon
      <4>3. QED
        BY <3>1, <4>1, <4>2 DEF Reset
    <3>4. ontology' \in Ont /\ previous' \in Ont \cup {None}
      BY <3>1 DEF Reset, TypeOK, Ont
    <3>5. QED
      BY <1>1, <3>2, <3>3, <3>4 DEF Load, TypeOK
  <2>2. CASE ~dirty
    BY <1>1, <2>2 DEF Load, TypeOK
  <2>3. QED
    BY <2>1, <2>2 DEF TypeOK
<1>2. ASSUME NEW realize \in BOOLEAN, Prepare(realize) PROVE TypeOK'
  <2>1. k' \in Account
    BY <1>2, AccountKept DEF Prepare, TypeOK
  <2>2. job' \in Jobs
    BY <1>2, StepsVisitAll DEF Prepare, NoJob, Jobs
  <2>3. QED
    BY <1>2, <2>1, <2>2 DEF Prepare, TypeOK, call, threads, InRun
<1>3. CASE CalledBack \/ TimedOut \/ LookAtTasks
  BY <1>3 DEF CalledBack, TimedOut, LookAtTasks, TypeOK, call, threads, InRun
<1>4. CASE ChooseThreshold
  BY <1>4, AccountKept DEF ChooseThreshold, TypeOK, call, threads, InRun
<1>5. CASE LookAtClock
  <2>1. caller' \in InRun /\ limit' \in Int
    BY <1>5 DEF LookAtClock, InRun
  <2>2. k' \in Account
    BY <1>5, AccountKept DEF LookAtClock, TypeOK
  <2>3. QED
    BY <1>5, <2>1, <2>2 DEF LookAtClock, TypeOK, call, threads
<1>6. CASE Finish
  <2>1. realizers' \in Seq(R) /\ hash' \in [Address -> Nat]
    <3>1. CASE StopRealizers
      <4>1. DOMAIN realizers' = DOMAIN realizers /\ \A i \in 1 .. Len(realizers) : realizers'[i] \in R
        BY <1>a, <1>b, <3>1 DEF StopRealizers
      <4>2. realizers' = [i \in DOMAIN realizers' |-> realizers'[i]]
        BY <3>1 DEF StopRealizers
      <4>3. realizers' \in Seq(R)
        BY <4>1, <4>2, <1>a, IsASeq
      <4>4. QED
        BY <3>1, <4>3 DEF StopRealizers, TypeOK
    <3>2. CASE UNCHANGED <<realizers, hash>>
      BY <3>2 DEF TypeOK
    <3>3. QED
      BY <1>6, <3>1, <3>2 DEF Finish
  <2>2. heap' \in [Address -> Nat]
    BY <1>6, FreeType DEF Finish, TypeOK
  <2>3. job' \in Jobs
    BY <1>6, EmptySeq DEF Finish, NoJob, Jobs
  <2>4. QED
    BY <1>6, <2>1, <2>2, <2>3 DEF Finish, TypeOK
<1>7. CASE DeleteManager
  <2>1. realizers' \in Seq(R)
    BY <1>7, EmptySeq DEF DeleteManager
  <2>2. QED
    BY <1>7, <2>1 DEF DeleteManager, TypeOK, call
<1>15. CASE DeleteOntologies
  <2>1. heap' \in [Address -> Nat]
    BY <1>15, FreeType DEF DeleteOntologies, TypeOK
  <2>2. QED
    BY <1>15, <2>1 DEF DeleteOntologies, TypeOK, threads
<1>8. ASSUME NEW s \in Kinds, Asked(s) PROVE TypeOK'
  <2>1. created' \in [Kinds -> Nat]
    BY <1>8 DEF Asked, ManagerAsks, OtherAsks, Make, Found, TypeOK
  <2>2. other' \in Kinds \cup {"none"}
    BY <1>8 DEF Asked, ManagerAsks, OtherAsks, TypeOK
  <2>3. job' = job \/ \E x \in {"posted", "make"} : job' = [job EXCEPT !.at = x]
    BY <1>8 DEF Asked, ManagerAsks, OtherAsks
  <2>4. job' \in Jobs
    BY <2>3 DEF TypeOK, Jobs
  <2>5. QED
    BY <1>8, <2>1, <2>2, <2>4 DEF Asked, TypeOK, call
<1>9. CASE GetRealizer
  <2>1. CASE hash[ontology.at] # 0 /\ job' = [job EXCEPT !.at = "posted", !.worker = hash[ontology.at]]
             /\ UNCHANGED <<realizers, hash>>
    <3>1. hash[ontology.at] \in Nat
      <4>1. caller \in InRun
        BY <1>9 DEF GetRealizer, Going, JobInv, NoJob
      <4>2. ontology.at \in Address
        BY <4>1 DEF HeapInv, InRun, Ont
      <4>3. QED
        BY <4>2 DEF TypeOK
    <3>2. job' \in Jobs
      BY <2>1, <3>1 DEF TypeOK, Jobs
    <3>3. QED
      BY <1>9, <2>1, <3>2 DEF GetRealizer, TypeOK, call
  <2>2. CASE /\ hash[ontology.at] = 0
             /\ realizers' = Append(realizers, [running |-> TRUE, items |-> {}])
             /\ hash' = [hash EXCEPT ![ontology.at] = Len(realizers')]
             /\ job' = [job EXCEPT !.at = "posted", !.worker = Len(realizers')]
    <3>1. realizers' \in Seq(R) /\ Len(realizers') \in Nat
      BY <2>2, <1>a, AppendProperties, LenProperties
    <3>2. job' \in Jobs /\ hash' \in [Address -> Nat]
      BY <2>2, <3>1 DEF TypeOK, Jobs
    <3>3. QED
      BY <1>9, <2>2, <3>1, <3>2 DEF GetRealizer, TypeOK, call
  <2>3. QED
    BY <1>9, <2>1, <2>2 DEF GetRealizer
<1>10. CASE Begin
  <2>1. realizers' \in Seq(R)
    <3>1. CASE Step = "realize"
      <4>1. DOMAIN realizers' = DOMAIN realizers /\ \A i \in 1 .. Len(realizers) : realizers'[i] \in R
        <5>1. realizers' = [realizers EXCEPT ![job.worker].items = @ \cup {ontology}]
          BY <1>10, <3>1 DEF Begin
        <5>2. ontology \in Ont \cup {None}
          BY DEF TypeOK
        <5>3. QED
          BY <1>a, <1>b, <5>1, <5>2
      <4>2. realizers' = [i \in DOMAIN realizers' |-> realizers'[i]]
        BY <1>10, <3>1 DEF Begin
      <4>3. QED
        BY <4>1, <4>2, <1>a, IsASeq
    <3>2. CASE Step # "realize"
      BY <1>a, <1>10, <3>2 DEF Begin
    <3>3. QED
      BY <3>1, <3>2
  <2>2. stale' \in [Kinds -> SUBSET (Ont \cup {None})]
    BY <1>10 DEF Begin, TypeOK
  <2>3. k' \in Account
    BY <1>10, AccountKept DEF Begin, TypeOK
  <2>4. job' \in Jobs
    BY <1>10 DEF Begin, TypeOK, Jobs
  <2>5. QED
    BY <1>10, <2>1, <2>2, <2>3, <2>4 DEF Begin, TypeOK, call
<1>11. CASE StartTask
  <2>1. k' \in Account
    BY <1>11, AccountKept DEF StartTask, TypeOK
  <2>2. \E x \in {"none", "running", "ending"} : job' = [job EXCEPT !.task = x]
    BY <1>11 DEF StartTask, Enter
  <2>3. job' \in Jobs
    BY <2>2 DEF TypeOK, Jobs
  <2>4. quiet' \in Nat
    BY <1>11 DEF StartTask, Enter, TypeOK
  <2>5. QED
    BY <1>11, <2>1, <2>3, <2>4 DEF StartTask, TypeOK, call, threads
<1>16. CASE TaskEnds
  <2>1. k' \in Account
    BY <1>16, AccountKept DEF TaskEnds, EndTask, TypeOK
  <2>2. \E x \in {"none", "running", "ending"} : job' = [job EXCEPT !.task = x]
    BY <1>16 DEF TaskEnds, EndTask, Touch, Leave
  <2>3. job' \in Jobs
    BY <2>2 DEF TypeOK, Jobs
  <2>4. quiet' \in Nat
    BY <1>16 DEF TaskEnds, EndTask, Touch, Leave, TypeOK
  <2>5. QED
    BY <1>16, <2>1, <2>3, <2>4 DEF TaskEnds, TypeOK, call, threads
<1>17. CASE Hang
  BY <1>17 DEF Hang, TypeOK, call, threads
<1>18. CASE Tick
  <2>1. k' \in Account /\ quiet' \in Nat
    BY <1>18, AccountKept, ThresholdAssumption DEF Tick, Age, TypeOK
  <2>2. QED
    BY <1>18, <2>1 DEF Tick, TypeOK, call, threads
<1>12. ASSUME NEW short \in BOOLEAN, End(short) PROVE TypeOK'
  <2>1. job' \in Jobs
    <3>1. job.todo \in Seq(StepNames) /\ job.todo # <<>>
      BY <1>12 DEF End, TypeOK, Jobs, Going
    <3>2. Tail(job.todo) \in Seq(StepNames) /\ <<>> \in Seq(StepNames)
      BY <3>1, HeadTailProperties, EmptySeq, Zenon
    <3>3. \E t \in Seq(StepNames), x \in {"none", "look"}, d \in BOOLEAN :
            job' = [job EXCEPT !.todo = t, !.at = x, !.done = d]
      <4>1. CASE short \/ Len(job.todo) = 1
        <5>1. job' = [job EXCEPT !.todo = <<>>, !.at = "none", !.done = TRUE]
          BY <1>12, <4>1 DEF End
        <5>2. QED
          BY <5>1, <3>2
      <4>2. CASE ~(short \/ Len(job.todo) = 1)
        <5>1. job' = [job EXCEPT !.todo = Tail(job.todo), !.at = "look", !.done = job.done]
          BY <1>12, <4>2 DEF End, TypeOK
        <5>2. job.done \in BOOLEAN
          BY DEF TypeOK, Jobs
        <5>3. QED
          BY <5>1, <5>2, <3>2, Zenon
      <4>3. QED
        BY <4>1, <4>2
    <3>4. QED
      BY <3>3 DEF TypeOK, Jobs
  <2>2. stale' \in [Kinds -> SUBSET (Ont \cup {None})]
    BY <1>12 DEF End, TypeOK
  <2>3. k' \in Account
    BY <1>12, AccountKept DEF End, TypeOK
  <2>4. QED
    BY <1>12, <2>1, <2>2, <2>3 DEF End, TypeOK, call
<1>13. CASE UNCHANGED vars
  BY <1>13 DEF vars, call, threads, TypeOK
<1>14. QED
  BY <1>1, <1>2, <1>3, <1>4, <1>5, <1>6, <1>7, <1>8, <1>9, <1>10, <1>11, <1>12, <1>13,
     <1>15, <1>16, <1>17, <1>18
     DEF Next, Caller, Workers, GetPreprocessor, GetPrecomputator, GetClassClassifier,
         GetObjectPropertyClassifier, GetDataPropertyClassifier, Kinds

-----------------------------------------------------------------------------
(* Steps *)

\* The threads go on only in a run that is not over yet.
LEMMA WorkersOnlyInRun ==
  ASSUME TypeOK, JobInv, job.todo # <<>>
  PROVE  caller \in InRun /\ caller # "prepared" /\ ~job.done /\ Step \in StepNames
         /\ Step = job.todo[1] /\ Len(job.todo) \in Nat \ {0}
<1>1. job.todo \in Seq(StepNames)
  BY DEF TypeOK, Jobs
<1>2. Step \in StepNames /\ Step = job.todo[1] /\ Len(job.todo) \in Nat \ {0}
  BY <1>1, HeadTailProperties, LenProperties, EmptySeq DEF Step
<1>3. QED
  BY <1>2 DEF JobInv, NoJob

\* What every thread leaves alone.
LEMMA WorkersLeave ==
  ASSUME TypeOK, JobInv, Workers \/ Hang \/ Tick
  PROVE  /\ UNCHANGED <<scenario, ontology, previous, dirty, heap, born, caller, limit>>
<1>1. CASE Workers
  BY <1>1 DEF Workers, GetPreprocessor, GetPrecomputator, GetClassClassifier, GetObjectPropertyClassifier,
      GetDataPropertyClassifier, Asked, GetRealizer, Begin, StartTask, TaskEnds, End, call
<1>2. CASE Hang \/ Tick
  BY <1>2 DEF Hang, Tick, call
<1>3. QED
  BY <1>1, <1>2

\* The wait of the caller leaves the threads and the ontologies alone.
LEMMA WaitLeaves ==
  ASSUME CalledBack \/ TimedOut \/ LookAtTasks \/ ChooseThreshold \/ LookAtClock
  PROVE  /\ UNCHANGED <<scenario, call, job, threads, hung, quiet, dangling>>
         /\ caller \in Waiting /\ caller' \in InRun
         /\ caller' = "prepared" => job.done
<1>1. CASE CalledBack \/ TimedOut
  BY <1>1 DEF CalledBack, TimedOut, Waiting, InRun
<1>2. CASE LookAtTasks \/ ChooseThreshold
  BY <1>2 DEF LookAtTasks, ChooseThreshold, Waiting, InRun
<1>3. CASE LookAtClock
  BY <1>3 DEF LookAtClock, Waiting, InRun
<1>4. QED
  BY <1>1, <1>2, <1>3

LEMMA HeapStep == TypeOK /\ HeapInv /\ JobInv /\ [Next]_vars => HeapInv'
<1> SUFFICES ASSUME TypeOK, HeapInv, JobInv, [Next]_vars PROVE HeapInv'
  OBVIOUS
<1>0. heap \in [Address -> Nat] /\ born \in Nat \ {0}
  BY DEF TypeOK
<1>1. ASSUME NEW fails \in BOOLEAN, Load(fails) PROVE HeapInv'
  <2>0. caller = "idle" /\ caller' \in {"idle", "loaded"}
    BY <1>1 DEF Load
  <2>1. CASE dirty
    <3>1. PICK a \in Address : Reset(a) /\ Free(heap, previous)[a] = 0
      BY <1>1, <2>1 DEF Load
    <3>2. ontology \in Ont /\ heap[ontology.at] = ontology.number
      BY <2>0 DEF HeapInv
    <3>3. ontology.at \in Address /\ ontology.number \in Nat \ {0}
      BY <3>2 DEF Ont
    <3>4. Free(heap, previous) \in [Address -> Nat] /\ Free(heap, previous)[ontology.at] = ontology.number
      BY <1>0, <3>2, <3>3, FreeType DEF HeapInv
    <3>5. ontology.at # a
      BY <3>1, <3>3, <3>4
    <3>6. ontology'.at = a /\ ontology'.number = born + 1 /\ ontology' \in Ont /\ previous' = ontology
      BY <1>0, <3>1 DEF Reset, Ont
    <3>7. heap'[a] = born + 1 /\ heap'[ontology.at] = ontology.number
      BY <3>1, <3>3, <3>4, <3>5 DEF Reset
    <3>8. QED
      BY <2>0, <3>5, <3>6, <3>7 DEF HeapInv
  <2>2. CASE ~dirty
    BY <1>1, <2>0, <2>2 DEF Load, HeapInv
  <2>3. QED
    BY <2>1, <2>2 DEF TypeOK
<1>2. CASE Finish
  <2>1. caller # "gone" /\ ontology \in Ont /\ ontology.at \in Address /\ caller' # "gone"
    BY <1>2 DEF Finish, HeapInv, Ont
  <2>2. Free(heap, previous)[ontology.at] = heap[ontology.at]
    BY <1>0, <2>1, FreeType DEF HeapInv
  <2>3. QED
    BY <1>2, <2>1, <2>2 DEF Finish, HeapInv
<1>3. CASE DeleteManager
  BY <1>3 DEF DeleteManager, HeapInv, call
<1>4. CASE DeleteOntologies
  BY <1>4 DEF DeleteOntologies, HeapInv
<1>5. ASSUME NEW realize \in BOOLEAN, Prepare(realize) PROVE HeapInv'
  BY <1>5 DEF Prepare, HeapInv, call
<1>6. CASE CalledBack \/ TimedOut \/ LookAtTasks \/ ChooseThreshold \/ LookAtClock
  BY <1>6, WaitLeaves DEF HeapInv, call, InRun, Waiting
<1>7. CASE Workers \/ Hang \/ Tick
  BY <1>7, WorkersLeave DEF HeapInv
<1>8. CASE UNCHANGED vars
  BY <1>8 DEF HeapInv, vars, call
<1>9. QED
  BY <1>1, <1>2, <1>3, <1>4, <1>5, <1>6, <1>7, <1>8 DEF Next, Caller

LEMMA JobStep == TypeOK /\ JobInv /\ [Next]_vars => JobInv'
<1> SUFFICES ASSUME TypeOK, JobInv, [Next]_vars PROVE JobInv'
  OBVIOUS
<1>1. ASSUME NEW fails \in BOOLEAN, Load(fails) PROVE JobInv'
  BY <1>1 DEF Load, JobInv, InRun, NoJob
<1>2. ASSUME NEW realize \in BOOLEAN, Prepare(realize) PROVE JobInv'
  BY <1>2 DEF Prepare, JobInv, InRun, NoJob
<1>3. CASE Finish
  BY <1>3 DEF Finish, JobInv, NoJob
<1>4. CASE DeleteManager \/ DeleteOntologies
  BY <1>4 DEF DeleteManager, DeleteOntologies, JobInv, InRun, NoJob
<1>5. CASE CalledBack \/ TimedOut \/ LookAtTasks \/ ChooseThreshold \/ LookAtClock
  BY <1>5, WaitLeaves DEF JobInv
<1>6. CASE Workers
  <2>1. CASE job' = job
    BY <1>6, <2>1, WorkersLeave DEF JobInv
  <2>2. CASE job' # job
    <3>1. job.todo # <<>> /\ (job'.done => job'.todo = <<>>)
      <4>1. CASE \E s \in Kinds : Asked(s)
        <5>1. PICK s \in Kinds : ManagerAsks(s)
          BY <2>2, <4>1 DEF Asked, OtherAsks
        <5>2. job.todo # <<>> /\ job'.done = job.done /\ job'.todo = job.todo
          BY <5>1 DEF ManagerAsks, Going, TypeOK, Jobs
        <5>3. QED
          BY <5>2 DEF JobInv
      <4>2. CASE GetRealizer \/ Begin \/ StartTask
        <5>1. job.todo # <<>> /\ job'.done = job.done /\ job'.todo = job.todo
          BY <4>2 DEF GetRealizer, Begin, StartTask, Going, TypeOK, Jobs
        <5>2. QED
          BY <5>1 DEF JobInv
      <4>3. CASE TaskEnds
        <5>1. job.todo # <<>> /\ job'.done = job.done /\ job'.todo = job.todo
          BY <4>3 DEF TaskEnds, EndTask, Going, TypeOK, Jobs
        <5>2. QED
          BY <5>1 DEF JobInv
      <4>4. ASSUME NEW short \in BOOLEAN, End(short) PROVE job.todo # <<>> /\ (job'.done => job'.todo = <<>>)
        BY <4>4 DEF End, Going, TypeOK, Jobs, JobInv
      <4>5. QED
        BY <1>6, <4>1, <4>2, <4>3, <4>4 DEF Workers, GetPreprocessor, GetPrecomputator, GetClassClassifier,
            GetObjectPropertyClassifier, GetDataPropertyClassifier, Kinds
    <3>2. QED
      BY <1>6, <3>1, WorkersLeave, WorkersOnlyInRun DEF JobInv
  <2>3. QED
    BY <2>1, <2>2
<1>7. CASE Hang \/ Tick
  BY <1>7 DEF Hang, Tick, JobInv
<1>8. CASE UNCHANGED vars
  BY <1>8 DEF JobInv, vars
<1>9. QED
  BY <1>1, <1>2, <1>3, <1>4, <1>5, <1>6, <1>7, <1>8 DEF Next, Caller

LEMMA RealizerStep == TypeOK /\ HeapInv /\ JobInv /\ RealizerInv /\ [Next]_vars => RealizerInv'
<1> SUFFICES ASSUME TypeOK, HeapInv, JobInv, RealizerInv, [Next]_vars PROVE RealizerInv'
  OBVIOUS
<1> DEFINE R == [running : BOOLEAN, items : SUBSET (Ont \cup {None})]
<1>a. realizers \in Seq(R) /\ Len(realizers) \in Nat /\ DOMAIN realizers = 1 .. Len(realizers)
  BY LenProperties DEF TypeOK
<1>b. \A i \in 1 .. Len(realizers) : realizers[i] \in R
  BY <1>a, ElementOfSeq
<1>c. caller \notin InRun => job.worker = 0
  BY DEF JobInv, NoJob
<1>1. ASSUME NEW fails \in BOOLEAN, Load(fails) PROVE RealizerInv'
  <2>0. job.worker = 0 /\ job' = job /\ hash' = hash
    BY <1>1, <1>c DEF Load, InRun
  <2>1. CASE dirty
    <3>1. realizers' = ReleaseStopped
      BY <1>1, <2>1 DEF Load, Reset
    <3>2. DOMAIN realizers' = 1 .. Len(realizers) /\ realizers' = [i \in 1 .. Len(realizers) |-> realizers'[i]]
      BY <1>a, <3>1 DEF ReleaseStopped
    <3>3. Len(realizers') = Len(realizers)
      BY <1>a, <3>2, LenProperties, IsASeq
    <3>4. \A i \in 1 .. Len(realizers) : realizers'[i].running = realizers[i].running
      BY <1>a, <1>b, <3>1 DEF ReleaseStopped
    <3>5. QED
      BY <2>0, <3>3, <3>4 DEF RealizerInv
  <2>2. CASE ~dirty
    BY <1>1, <2>0, <2>2 DEF Load, RealizerInv
  <2>3. QED
    BY <2>1, <2>2 DEF TypeOK
<1>2. ASSUME NEW realize \in BOOLEAN, Prepare(realize) PROVE RealizerInv'
  <2>1. job.worker = 0 /\ job'.worker = 0 /\ UNCHANGED <<realizers, hash>>
    BY <1>2, <1>c DEF Prepare, NoJob, threads, InRun
  <2>2. QED
    BY <2>1 DEF RealizerInv
<1>3. CASE Finish
  <2>1. job'.worker = 0
    BY <1>3 DEF Finish, NoJob
  <2>2. CASE job.worker # 0 /\ StopRealizers
    <3>1. /\ \A a \in Address : hash'[a] = 0
          /\ realizers' = [i \in 1 .. Len(realizers) |-> [realizers[i] EXCEPT !.running = FALSE]]
      BY <1>a, <2>2 DEF StopRealizers
    <3>2. Len(realizers') = Len(realizers)
      BY <1>a, <3>1, IsASeq
    <3>3. \A i \in 1 .. Len(realizers) : ~realizers'[i].running
      BY <1>b, <3>1
    <3>4. QED
      BY <2>1, <3>1, <3>2, <3>3 DEF RealizerInv
  <2>3. CASE job.worker = 0 /\ UNCHANGED <<realizers, hash>>
    BY <2>1, <2>3 DEF RealizerInv
  <2>4. QED
    BY <1>3, <2>2, <2>3 DEF Finish
<1>4. CASE DeleteManager
  <2>1. job.worker = 0 /\ job' = job /\ realizers' = <<>> /\ \A a \in Address : hash'[a] = 0
    BY <1>4, <1>c DEF DeleteManager, InRun
  <2>2. QED
    BY <2>1, EmptySeq DEF RealizerInv
<1>5. CASE DeleteOntologies
  <2>1. job.worker = 0 /\ UNCHANGED <<job, realizers, hash>>
    BY <1>5, <1>c DEF DeleteOntologies, threads, InRun
  <2>2. QED
    BY <2>1 DEF RealizerInv
<1>6. CASE CalledBack \/ TimedOut \/ LookAtTasks \/ ChooseThreshold \/ LookAtClock
  BY <1>6, WaitLeaves DEF RealizerInv, call, threads
<1>7. CASE Workers
  <2>0. ontology' = ontology /\ (job.todo # <<>> => caller \in InRun)
    BY <1>7, WorkersLeave, WorkersOnlyInRun
  <2>1. CASE \E s \in Kinds : Asked(s)
    <3>1. job'.worker = job.worker /\ UNCHANGED <<realizers, hash>>
      BY <2>1 DEF Asked, ManagerAsks, OtherAsks, TypeOK, Jobs
    <3>2. QED
      BY <2>0, <3>1 DEF RealizerInv
  <2>2. CASE GetRealizer
    <3>0. ontology.at \in Address
      BY <2>0, <2>2 DEF GetRealizer, Going, HeapInv, InRun, Ont
    <3>1. CASE hash[ontology.at] # 0 /\ job' = [job EXCEPT !.at = "posted", !.worker = hash[ontology.at]]
               /\ UNCHANGED <<realizers, hash>>
      <4>1. job'.worker = job.worker
        BY <3>0, <3>1 DEF RealizerInv, TypeOK, Jobs
      <4>2. QED
        BY <2>0, <3>1, <4>1 DEF RealizerInv
    <3>2. CASE /\ hash[ontology.at] = 0
               /\ realizers' = Append(realizers, [running |-> TRUE, items |-> {}])
               /\ hash' = [hash EXCEPT ![ontology.at] = Len(realizers')]
               /\ job' = [job EXCEPT !.at = "posted", !.worker = Len(realizers')]
      <4> DEFINE n == Len(realizers) + 1
      <4>1. job.worker = 0
        BY <3>2 DEF RealizerInv
      <4>2. Len(realizers') = n /\ realizers'[n] = [running |-> TRUE, items |-> {}]
            /\ \A i \in 1 .. Len(realizers) : realizers'[i] = realizers[i]
        BY <1>a, <3>2, AppendProperties
      <4>3. job'.worker = n /\ hash'[ontology.at] = n /\ \A a \in Address : hash'[a] \in {0, n}
        BY <3>0, <3>2, <4>1, <4>2 DEF RealizerInv, TypeOK, Jobs
      <4>4. \A i \in 1 .. n : realizers'[i].running => i = n
        BY <1>a, <4>1, <4>2 DEF RealizerInv
      <4>5. n \in 1 .. n /\ realizers'[n].running
        BY <1>a, <4>2
      <4>6. QED
        BY <2>0, <4>2, <4>3, <4>4, <4>5 DEF RealizerInv
    <3>3. QED
      BY <2>2, <3>1, <3>2 DEF GetRealizer
  <2>3. CASE Begin
    <3>1. job'.worker = job.worker /\ hash' = hash
      BY <2>3 DEF Begin, TypeOK, Jobs
    <3>2. Len(realizers') = Len(realizers) /\ \A i \in 1 .. Len(realizers) : realizers'[i].running = realizers[i].running
      <4>1. CASE UNCHANGED realizers
        BY <4>1
      <4>2. CASE realizers' = [realizers EXCEPT ![job.worker].items = @ \cup {ontology}]
        BY <1>a, <1>b, <4>2
      <4>3. QED
        BY <2>3, <4>1, <4>2 DEF Begin
    <3>3. QED
      BY <2>0, <3>1, <3>2 DEF RealizerInv
  <2>4. CASE StartTask \/ TaskEnds
    <3>1. job'.worker = job.worker /\ UNCHANGED <<realizers, hash>>
      BY <2>4 DEF StartTask, TaskEnds, EndTask, threads, TypeOK, Jobs
    <3>2. QED
      BY <2>0, <3>1 DEF RealizerInv
  <2>5. ASSUME NEW short \in BOOLEAN, End(short) PROVE RealizerInv'
    <3>1. job'.worker = job.worker /\ UNCHANGED <<realizers, hash>>
      BY <2>5 DEF End, TypeOK, Jobs
    <3>2. QED
      BY <2>0, <3>1 DEF RealizerInv
  <2>6. QED
    BY <1>7, <2>1, <2>2, <2>3, <2>4, <2>5 DEF Workers, GetPreprocessor, GetPrecomputator, GetClassClassifier,
        GetObjectPropertyClassifier, GetDataPropertyClassifier, Kinds
<1>8. CASE Hang \/ Tick
  BY <1>8 DEF Hang, Tick, RealizerInv, call, threads
<1>9. CASE UNCHANGED vars
  BY <1>9 DEF RealizerInv, vars, call, threads
<1>10. QED
  BY <1>1, <1>2, <1>3, <1>4, <1>5, <1>6, <1>7, <1>8, <1>9 DEF Next, Caller

LEMMA ClockStep == TypeOK /\ JobInv /\ ClockInv /\ [Next]_vars => ClockInv'
<1> SUFFICES ASSUME TypeOK, JobInv, ClockInv, [Next]_vars PROVE ClockInv'
  OBVIOUS
<1>a. k \in Account /\ quiet \in Nat
  BY DEF TypeOK
<1>1. ASSUME NEW fails \in BOOLEAN, Load(fails) PROVE ClockInv'
  BY <1>1 DEF Load, ClockInv, Waiting
<1>2. ASSUME NEW realize \in BOOLEAN, Prepare(realize) PROVE ClockInv'
  BY <1>2, <1>a DEF Prepare, BeginWait, ClockInv, Waiting, Account
<1>3. CASE Finish \/ DeleteManager \/ DeleteOntologies
  BY <1>3 DEF Finish, DeleteManager, DeleteOntologies, ClockInv, Waiting
<1>4. CASE CalledBack \/ TimedOut \/ LookAtTasks
  BY <1>4 DEF CalledBack, TimedOut, LookAtTasks, ClockInv, Waiting
<1>5. CASE ChooseThreshold
  BY <1>5 DEF ChooseThreshold, Threshold, ClockInv, Waiting
<1>6. CASE LookAtClock
  BY <1>6 DEF LookAtClock, ClockInv, Waiting
<1>7. CASE Tick
  <2>1. k'.idle = Age(k.idle) /\ k'.tasks = k.tasks /\ quiet' = Age(quiet)
    BY <1>7, <1>a DEF Tick, Account
  <2>2. k.idle <= quiet => Age(k.idle) <= Age(quiet)
    BY <1>a, ThresholdAssumption DEF Age, Account
  <2>3. QED
    BY <1>7, <2>1, <2>2 DEF Tick, ClockInv
<1>8. CASE Workers
  <2>0. UNCHANGED <<caller, limit>>
    BY <1>8, WorkersLeave
  <2>1. CASE UNCHANGED <<k, quiet>>
    BY <2>0, <2>1 DEF ClockInv
  <2>2. CASE k' = Touch(k) /\ quiet' = 0
    BY <1>a, <2>0, <2>2 DEF ClockInv, Touch, Account
  <2>3. CASE k' = Enter(k) /\ quiet' = quiet
    BY <1>a, <2>0, <2>3 DEF ClockInv, Enter, Account
  <2>4. CASE k' = Leave(k) /\ quiet' = quiet
    BY <1>a, <2>0, <2>4 DEF ClockInv, Leave, Account
  <2>5. QED
    BY <1>8, <2>1, <2>2, <2>3, <2>4 DEF Workers, GetPreprocessor, GetPrecomputator, GetClassClassifier,
        GetObjectPropertyClassifier, GetDataPropertyClassifier, Asked, GetRealizer, Begin, StartTask,
        TaskEnds, EndTask, End
<1>9. CASE Hang
  BY <1>9 DEF Hang, ClockInv
<1>10. CASE UNCHANGED vars
  BY <1>10 DEF ClockInv, vars
<1>11. QED
  BY <1>1, <1>2, <1>3, <1>4, <1>5, <1>6, <1>7, <1>8, <1>9, <1>10 DEF Next, Caller

LEMMA OneThreadStep == TypeOK /\ JobInv /\ OneThreadPerStep /\ [Next]_vars => OneThreadPerStep'
<1> SUFFICES ASSUME TypeOK, JobInv, OneThreadPerStep, [Next]_vars PROVE OneThreadPerStep'
  OBVIOUS
<1>1. ASSUME NEW s \in Kinds, Asked(s) PROVE OneThreadPerStep'
  <2>1. CASE UNCHANGED created
    BY <2>1 DEF OneThreadPerStep
  <2>2. CASE Make(s)
    BY <2>2 DEF Make, Found, OneThreadPerStep, TypeOK
  <2>3. QED
    BY <1>1, <2>1, <2>2 DEF Asked, ManagerAsks, OtherAsks
<1>2. CASE UNCHANGED created
  BY <1>2 DEF OneThreadPerStep
<1>3. CASE CalledBack \/ TimedOut \/ LookAtTasks \/ ChooseThreshold \/ LookAtClock
  BY <1>3, <1>2, WaitLeaves DEF threads
<1>4. QED
  BY <1>1, <1>2, <1>3 DEF Next, Caller, Workers, GetPreprocessor, GetPrecomputator, GetClassClassifier,
      GetObjectPropertyClassifier, GetDataPropertyClassifier, Kinds, Load, Prepare, Finish, DeleteManager,
      DeleteOntologies, GetRealizer, Begin, StartTask, TaskEnds, End, Hang, Tick, threads, vars

\* A step that leaves alone what the threads keep and what they have still to see.
LEMMA KeptUnchanged ==
  ASSUME KeptInv, UNCHANGED <<scenario, ontology, previous, dangling, stale, realizers>>,
         caller' \in {"idle", "joined"} => caller' = caller,
         caller' \in {"joined", "gone"} => caller' = caller,
         \A s \in Kinds : Pending(s) => Pending(s)'
  PROVE  KeptInv'
BY DEF KeptInv

LEMMA KeptStep == TypeOK /\ HeapInv /\ JobInv /\ RealizerInv /\ KeptInv /\ [Next]_vars => KeptInv'
<1> SUFFICES ASSUME TypeOK, HeapInv, JobInv, RealizerInv, KeptInv, [Next]_vars PROVE KeptInv'
  OBVIOUS
<1> DEFINE R == [running : BOOLEAN, items : SUBSET (Ont \cup {None})]
           Whole == scenario.faults \cap {"load", "short"} = {}
<1>a. realizers \in Seq(R) /\ Len(realizers) \in Nat /\ DOMAIN realizers = 1 .. Len(realizers)
  BY LenProperties DEF TypeOK
<1>b. \A i \in 1 .. Len(realizers) : realizers[i] \in R
  BY <1>a, ElementOfSeq
<1>c. (ontology \in Ont /\ heap[ontology.at] = ontology.number /\ ontology # None) \/ caller = "gone"
  BY OntIsNotNone DEF HeapInv
<1>1. ASSUME NEW fails \in BOOLEAN, Load(fails) PROVE KeptInv'
  <2>0. caller = "idle" /\ UNCHANGED <<scenario, stale>>
    BY <1>1 DEF Load
  <2>1. SUFFICES ASSUME Whole PROVE KeptInv'
    BY <2>0 DEF KeptInv
  <2>2. caller' = "loaded" /\ dangling = {} /\ previous = None
    BY <1>1, <2>0, <2>1 DEF Load, KeptInv
  <2>3. \A s \in Kinds : \A o \in stale[s] : o = ontology
    BY <2>1, <2>2 DEF KeptInv
  <2>4. \A i \in 1 .. Len(realizers) : realizers[i].items \subseteq {ontology}
    BY <2>1 DEF KeptInv
  <2>5. CASE dirty
    <3>1. PICK a \in Address : Reset(a)
      BY <1>1, <2>5 DEF Load
    <3>2. \A i \in 1 .. Len(realizers) : ~realizers[i].running
      BY <1>a, <2>0 DEF JobInv, RealizerInv, NoJob, InRun
    <3>3. dangling' = {}
      <4>1. StoppedItems \subseteq {ontology}
        BY <1>a, <2>4 DEF StoppedItems
      <4>2. QED
        BY <1>c, <2>0, <2>2, <3>1, <4>1, UsesAlive DEF Reset
    <3>4. /\ DOMAIN realizers' = 1 .. Len(realizers)
          /\ \A i \in 1 .. Len(realizers) : realizers'[i].items = {}
      BY <1>a, <1>b, <3>1, <3>2 DEF Reset, ReleaseStopped
    <3>5. Len(realizers') = Len(realizers)
      <4>1. realizers' = [i \in 1 .. Len(realizers) |-> realizers'[i]]
        BY <1>a, <3>1 DEF Reset, ReleaseStopped
      <4>2. QED
        BY <1>a, <4>1, LenProperties, IsASeq
    <3>6. previous' = ontology
      BY <3>1 DEF Reset
    <3>7. \A s \in Kinds : Pending(s)'
      BY <2>2 DEF Pending
    <3>8. QED
      BY <1>c, <2>0, <2>2, <2>3, <3>3, <3>4, <3>5, <3>6, <3>7 DEF KeptInv
  <2>6. CASE ~dirty
    <3>1. UNCHANGED <<ontology, previous, realizers, dangling>>
      BY <1>1, <2>6 DEF Load
    <3>2. QED
      BY <2>0, <2>2, <2>3, <2>4, <3>1 DEF KeptInv
  <2>7. QED
    BY <2>5, <2>6 DEF TypeOK
<1>2. ASSUME NEW realize \in BOOLEAN, Prepare(realize) PROVE KeptInv'
  <2>1. \A s \in Kinds : Pending(s)'
    <3>1. caller' \in InRun /\ job'.todo = Steps(realize) /\ job'.at = "look"
      BY <1>2 DEF Prepare, InRun, NoJob
    <3>2. QED
      BY <3>1, StepsVisitAll DEF Pending
  <2>2. QED
    BY <1>2, <2>1, KeptUnchanged DEF Prepare, call, threads
<1>3. CASE Finish
  <2>1. caller = "prepared" /\ UNCHANGED <<scenario, ontology, stale, dangling>> /\ caller' = "idle" /\ previous' = None
    BY <1>3 DEF Finish
  <2>2. \A s \in Kinds : ~Pending(s)
    <3>1. job.todo = <<>>
      BY <2>1 DEF JobInv
    <3>2. QED
      BY <2>1, <3>1, EmptySeq DEF Pending
  <2>3. Whole => \A i \in 1 .. Len(realizers') : realizers'[i].items \subseteq {ontology}
    <3>1. CASE StopRealizers
      <4>1. realizers' = [i \in 1 .. Len(realizers) |-> [realizers[i] EXCEPT !.running = FALSE]]
        BY <1>a, <3>1 DEF StopRealizers
      <4>2. Len(realizers') = Len(realizers)
        BY <1>a, <4>1, IsASeq
      <4>3. \A i \in 1 .. Len(realizers) : realizers'[i].items = realizers[i].items
        BY <1>b, <4>1
      <4>4. QED
        BY <4>2, <4>3 DEF KeptInv
    <3>2. CASE UNCHANGED realizers
      BY <3>2 DEF KeptInv
    <3>3. QED
      BY <1>3, <3>1, <3>2 DEF Finish
  <2>4. QED
    BY <2>1, <2>2, <2>3 DEF KeptInv
<1>4. CASE DeleteManager
  <2>0. UNCHANGED <<scenario, ontology, previous>> /\ caller = "idle" /\ caller' = "joined" /\ realizers' = <<>>
    BY <1>4 DEF DeleteManager, call
  <2>1. SUFFICES ASSUME Whole PROVE KeptInv'
    BY <2>0 DEF KeptInv
  <2>2. \A s \in Kinds : stale'[s] = {}
    BY <1>4 DEF DeleteManager
  <2>3. dangling' = {}
    <3> DEFINE used == (UNION {stale[s] : s \in Kinds}) \cup UNION {realizers[i].items : i \in DOMAIN realizers}
    <3>1. used \subseteq {ontology}
      <4>1. previous = None
        BY <2>0, <2>1 DEF KeptInv
      <4>2. \A s \in Kinds : stale[s] \subseteq {ontology}
        BY <2>1, <4>1 DEF KeptInv
      <4>3. \A i \in DOMAIN realizers : realizers[i].items \subseteq {ontology}
        BY <1>a, <2>1 DEF KeptInv
      <4>4. QED
        BY <4>2, <4>3
    <3>2. Uses(used) /\ dangling = {}
      BY <1>4, <2>1 DEF DeleteManager, KeptInv
    <3> HIDE DEF used
    <3>3. QED
      BY <1>c, <2>0, <3>1, <3>2, UsesAlive
  <2>4. QED
    BY <2>0, <2>1, <2>2, <2>3, EmptySeq DEF KeptInv
<1>5. CASE DeleteOntologies
  <2>1. UNCHANGED <<scenario, stale, realizers, dangling>> /\ caller = "joined" /\ caller' = "gone"
    BY <1>5 DEF DeleteOntologies, threads
  <2>2. QED
    BY <2>1, EmptySeq DEF KeptInv
<1>6. CASE CalledBack \/ TimedOut \/ LookAtTasks \/ ChooseThreshold \/ LookAtClock
  <2>1. UNCHANGED <<scenario, call, job, threads, dangling>> /\ caller \in InRun /\ caller' \in InRun
    BY <1>6, WaitLeaves DEF Waiting, InRun
  <2>2. \A s \in Kinds : Pending(s) => Pending(s)'
    BY <2>1 DEF Pending, InRun
  <2>3. QED
    BY <2>1, <2>2, KeptUnchanged DEF call, threads, InRun
<1>7. CASE Workers
  <2>0. UNCHANGED <<scenario, ontology, previous, heap, caller>>
    BY <1>7, WorkersLeave
  <2>1. CASE \E s \in Kinds : Asked(s)
    <3>1. UNCHANGED <<stale, realizers, dangling>> /\ job'.todo = job.todo /\ (job' # job => job'.at # "working")
      BY <2>1 DEF Asked, ManagerAsks, OtherAsks, TypeOK, Jobs
    <3>2. \A s \in Kinds : Pending(s) => Pending(s)'
      BY <2>0, <3>1 DEF Pending
    <3>3. QED
      BY <2>0, <3>1, <3>2, KeptUnchanged
  <2>2. CASE GetRealizer
    <3>1. UNCHANGED <<stale, dangling>> /\ job'.todo = job.todo /\ job'.at # "working"
      BY <2>2 DEF GetRealizer, TypeOK, Jobs
    <3>2. \A s \in Kinds : Pending(s) => Pending(s)'
      BY <2>0, <3>1 DEF Pending
    <3>3. CASE UNCHANGED realizers
      BY <2>0, <3>1, <3>2, <3>3, KeptUnchanged
    <3>4. CASE realizers' = Append(realizers, [running |-> TRUE, items |-> {}])
      <4> DEFINE new == [running |-> TRUE, items |-> {}]
      <4>1. Len(realizers') = Len(realizers) + 1 /\ realizers'[Len(realizers) + 1] = new
            /\ \A i \in 1 .. Len(realizers) : realizers'[i] = realizers[i]
        BY <1>a, <3>4, AppendProperties
      <4>2. caller \in InRun
        BY <2>2, WorkersOnlyInRun DEF GetRealizer, Going
      <4>3. Whole => \A i \in 1 .. Len(realizers') : realizers'[i].items \subseteq {ontology}
        BY <1>a, <4>1 DEF KeptInv
      <4>4. QED
        BY <2>0, <3>1, <3>2, <4>2, <4>3 DEF KeptInv, InRun
    <3>5. QED
      BY <2>2, <3>3, <3>4 DEF GetRealizer
  <2>3. CASE Begin
    <3>0. caller \in InRun /\ Step \in StepNames /\ Step = job.todo[1]
      BY <2>3, WorkersOnlyInRun DEF Begin, Going
    <3>1. job'.todo = job.todo
      BY <2>3 DEF Begin, TypeOK, Jobs
    <3>2. SUFFICES ASSUME Whole PROVE KeptInv'
      BY <2>0 DEF KeptInv
    <3>3. \A s \in Kinds \ {Step} : Pending(s) => Pending(s)'
      BY <2>0, <3>0, <3>1 DEF Pending, InRun
    <3>4. CASE Step = "realize"
      <4>1. stale' = stale /\ Uses({ontology}) /\ realizers' = [realizers EXCEPT ![job.worker].items = @ \cup {ontology}]
        BY <2>3, <3>4 DEF Begin
      <4>2. dangling' = {}
        BY <1>c, <3>0, <3>2, <4>1, UsesAlive DEF KeptInv, InRun
      <4>3. Len(realizers') = Len(realizers) /\ \A i \in 1 .. Len(realizers) : realizers'[i].items \subseteq {ontology}
        BY <1>a, <1>b, <3>2, <4>1 DEF KeptInv
      <4>4. \A s \in Kinds : Pending(s) => Pending(s)'
        BY <3>3, <3>4 DEF Kinds
      <4>5. QED
        BY <2>0, <3>0, <4>1, <4>2, <4>3, <4>4 DEF KeptInv, InRun
    <3>5. CASE Step # "realize"
      <4>1. stale' = [stale EXCEPT ![Step] = {}] /\ Uses(stale[Step] \cup {ontology}) /\ UNCHANGED realizers
        BY <2>3, <3>5 DEF Begin
      <4>2. Step \in Kinds
        BY <3>0, <3>5 DEF StepNames
      <4>3. dangling' = {}
        <5>1. \A o \in stale[Step] \cup {ontology} : o # None /\ heap[o.at] = o.number
          BY <1>c, <3>0, <3>2, <4>2 DEF KeptInv, HeapInv, InRun
        <5>2. QED
          BY <3>2, <4>1, <5>1, UsesAlive DEF KeptInv
      <4>4. stale'[Step] = {} /\ \A s \in Kinds \ {Step} : stale'[s] = stale[s]
        BY <4>1, <4>2 DEF TypeOK
      <4>5. QED
        BY <2>0, <3>0, <3>2, <3>3, <4>1, <4>3, <4>4 DEF KeptInv, InRun
    <3>6. QED
      BY <3>4, <3>5
  <2>4. CASE StartTask \/ TaskEnds
    <3>1. UNCHANGED <<threads, dangling>> /\ job'.todo = job.todo /\ job'.at = job.at
      BY <2>4 DEF StartTask, TaskEnds, EndTask, TypeOK, Jobs
    <3>2. \A s \in Kinds : Pending(s) => Pending(s)'
      BY <2>0, <3>1 DEF Pending
    <3>3. QED
      BY <2>0, <3>1, <3>2, KeptUnchanged DEF threads
  <2>5. ASSUME NEW short \in BOOLEAN, End(short) PROVE KeptInv'
    <3>0. caller \in InRun /\ Step \in StepNames /\ Step = job.todo[1] /\ job.at = "working"
          /\ Len(job.todo) \in Nat \ {0} /\ job.todo \in Seq(StepNames) /\ job.todo # <<>>
      BY <2>5, WorkersOnlyInRun DEF End, Going, TypeOK, Jobs
    <3>1. SUFFICES ASSUME Whole PROVE KeptInv'
      BY <2>0 DEF KeptInv
    <3>2. ~short /\ UNCHANGED <<realizers, dangling>>
      BY <2>5, <3>1 DEF End
    <3>3. \A s \in Kinds : Pending(s) => Pending(s)'
      <4> SUFFICES ASSUME NEW s \in Kinds, Pending(s) PROVE Pending(s)'
        OBVIOUS
      <4>1. PICK i \in 1 .. Len(job.todo) : job.todo[i] = s /\ i # 1
        BY <3>0 DEF Pending, InRun
      <4>2. job'.todo = Tail(job.todo) /\ job'.at = "look"
        <5>1. ~(short \/ Len(job.todo) = 1)
          BY <3>0, <3>2, <4>1
        <5>2. job' = [job EXCEPT !.todo = Tail(@), !.at = "look"]
          BY <2>5, <5>1 DEF End
        <5>3. QED
          BY <5>2 DEF TypeOK, Jobs
      <4>3. i - 1 \in 1 .. Len(job'.todo) /\ job'.todo[i - 1] = s
        BY <3>0, <4>1, <4>2, HeadTailProperties
      <4>4. QED
        BY <2>0, <3>0, <4>2, <4>3 DEF Pending
    <3>4. \A s \in Kinds : stale'[s] \subseteq stale[s] \cup {ontology}
      BY <2>5 DEF End, TypeOK
    <3>5. QED
      BY <2>0, <3>0, <3>1, <3>2, <3>3, <3>4 DEF KeptInv, InRun
  <2>6. QED
    BY <1>7, <2>1, <2>2, <2>3, <2>4, <2>5 DEF Workers, GetPreprocessor, GetPrecomputator, GetClassClassifier,
        GetObjectPropertyClassifier, GetDataPropertyClassifier, Kinds
<1>8. CASE Hang \/ Tick
  <2>1. UNCHANGED <<scenario, call, job, threads, dangling, caller>>
    BY <1>8 DEF Hang, Tick
  <2>2. \A s \in Kinds : Pending(s) => Pending(s)'
    BY <2>1 DEF Pending
  <2>3. QED
    BY <2>1, <2>2, KeptUnchanged DEF call, threads
<1>9. CASE UNCHANGED vars
  <2>1. \A s \in Kinds : Pending(s) => Pending(s)'
    BY <1>9 DEF Pending, vars
  <2>2. QED
    BY <1>9, <2>1, KeptUnchanged DEF vars, call, threads
<1>10. QED
  BY <1>1, <1>2, <1>3, <1>4, <1>5, <1>6, <1>7, <1>8, <1>9 DEF Next, Caller

-----------------------------------------------------------------------------
(* Theorems *)

LEMMA Inductive == IInv /\ [Next]_vars => IInv'
BY TypeStep, HeapStep, JobStep, RealizerStep, KeptStep, ClockStep, OneThreadStep DEF IInv

LEMMA Invariant == Spec => []IInv
BY InitInv, Inductive, PTL DEF Spec

\* The state always has its types: the accounting, the run in the threads, what each thread
\* keeps (KonStall.h, KoncludeReasoner.cpp, the manager overrides).
THEOREM PipelineTypeCorrect == Spec => []TypeOK
BY Invariant, PTL DEF IInv

\* What is to be realized is with a thread that runs (KoncludeReasoner.cpp:170-174), for any
\* number of addresses and resets, so however often an address is used again.
THEOREM RealizerAlwaysRuns == Spec => []RealizerRuns
<1>1. IInv => RealizerRuns
  BY DEF IInv, RealizerInv, RealizerRuns
<1>2. QED
  BY <1>1, Invariant, PTL

\* As long as each run visits every step, no thread touches an ontology after it was freed
\* (KoncludeReasoner.cpp:2134).
THEOREM NothingUsedAfterFree == Spec => []FreedInTime
<1>1. IInv => FreedInTime
  BY DEF IInv, KeptInv, FreedInTime
<1>2. QED
  BY <1>1, Invariant, PTL

\* An alarm means silence for longer than the threshold that applies, for any thresholds and
\* any interleaving of the detector's looks with the tasks (KonStall.h:48-61).
THEOREM AlarmsMeanQuiet == Spec => AlarmMeansQuiet
<1> DEFINE Alarm == k.stalled' /\ ~k.stalled =>
                      quiet > (IF Fast < Slow THEN Fast ELSE Slow) /\ (k.tasks = 0 => quiet > Slow)
<1>1. TypeOK /\ ClockInv /\ [Next]_vars => [Alarm]_vars
  <2> SUFFICES ASSUME TypeOK, ClockInv, Next PROVE Alarm
    BY DEF Alarm
  <2>a. k \in Account /\ quiet \in Nat
    BY DEF TypeOK
  <2>1. CASE LookAtClock /\ Overdue(k, limit)
    <3>1. k.idle > limit /\ k.idle <= quiet
          /\ (limit = Slow \/ (limit = Fast /\ Fast < Slow /\ k.tasks > 0))
      BY <2>1 DEF LookAtClock, Overdue, ClockInv, Waiting
    <3>2. QED
      BY <2>a, <3>1, ThresholdAssumption DEF Account
  <2>2. CASE k'.stalled => k.stalled
    BY <2>2
  <2>3. ~(LookAtClock /\ Overdue(k, limit)) => (k'.stalled => k.stalled)
    <3> SUFFICES ASSUME ~(LookAtClock /\ Overdue(k, limit)) PROVE k'.stalled => k.stalled
      OBVIOUS
    <3>1. UNCHANGED k \/ k' = Touch(k) \/ k' = Enter(k) \/ k' = Leave(k) \/ k' = BeginWait(k)
            \/ k' = [k EXCEPT !.idle = Age(@)]
      BY DEF Next, Caller, Workers, GetPreprocessor, GetPrecomputator, GetClassClassifier,
        GetObjectPropertyClassifier, GetDataPropertyClassifier, Asked, Load, Prepare, CalledBack, TimedOut,
        LookAtTasks, ChooseThreshold, LookAtClock, Finish, DeleteManager, DeleteOntologies,
        GetRealizer, Begin, StartTask, TaskEnds, EndTask, End, Hang, Tick
    <3>2. QED
      BY <2>a, <3>1 DEF Account, Touch, Enter, Leave, BeginWait
  <2>4. QED
    BY <2>1, <2>2, <2>3
<1>2. Spec => [][Alarm]_vars
  BY <1>1, Invariant, PTL DEF Spec, IInv
<1>3. QED
  BY <1>2 DEF AlarmMeansQuiet

\* However the manager thread and the classification threads race for it, no step gets a
\* second thread (CPreprocessingManager.cpp:58-69).
THEOREM OneThread == Spec => []OneThreadPerStep
BY Invariant, PTL DEF IInv
=============================================================================
