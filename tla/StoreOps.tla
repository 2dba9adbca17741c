------------------------------- MODULE StoreOps -------------------------------
(***************************************************************************)
(* The operations of RdfReasoner (ts/index.ts) on stores: each hands the   *)
(* store's content to the kernel (KernelState), answers from its own cache *)
(* when the generation is the one it saw last, and otherwise clears the    *)
(* inferred graph, runs a verb and writes what it reads.                   *)
(*                                                                         *)
(* Operations run one at a time (WorkerCalls!Serialized); users edit their *)
(* stores while one awaits a call.  A call is one step: it succeeds, it    *)
(* throws, the kernel answers FALSE, or the call layer recovers it in a    *)
(* fresh Worker (WorkerCalls!Recover and Replay in one step).              *)
(***************************************************************************)
EXTENDS KernelState

CONSTANTS
  Store,      \* the Store objects
  Graph,      \* the graphs users let operations write
  Inferred,   \* INFERRED_GRAPH_IRI, the graph written by default
  Derived,    \* a triple that another custom graph's inferences add to the content
  Assumed,    \* a triple that whatIf adds
  Edits,      \* the contents users give their stores
  Scenarios   \* what users do and what may go wrong

ASSUME StoreAssumption ==
  /\ Inferred \in Graph /\ Derived \in Triple /\ Assumed \in Triple
  /\ Edits \subseteq SUBSET (Triple \ {Derived})
  /\ \A x \in Scenarios :
       /\ x.stores \subseteq Store /\ x.graphs \subseteq Graph
       /\ x.hierarchy \subseteq BOOLEAN     \* the values of includeClassHierarchy passed
       /\ x.faults \subseteq {"throw", "false", "recover"}
       /\ x.maxEdits \in Nat /\ x.maxOps \in Nat   \* bounds

\* The operations: the three that exist to write, isEntailed for an axiom of each kind,
\* getUnsatisfiableClasses (it also decides isSatisfiable), checkConsistency, whatIf.
Writers  == {"classify", "materialize", "classifyProperties"}
Entailed == {"subClassEntailed", "typeEntailed", "propertyEntailed"}
Operation == Writers \cup Entailed \cup {"unsatisfiable", "checkConsistency", "whatIf"}
\* The operations that clear the inferred graph and write it again.
Overwrites(name) == name \notin {"checkConsistency", "whatIf"}

\* The per-operation caches; isEntailed and getUnsatisfiableClasses share them.
Slot == Writers
SlotOf(name) ==
  CASE name \in {"classify", "subClassEntailed", "unsatisfiable"} -> "classify"
    [] name \in {"materialize", "typeEntailed"} -> "materialize"
    [] name \in {"classifyProperties", "propertyEntailed"} -> "classifyProperties"

\* What an inferred graph may hold: parts of the results for one content.
Part    == {"hierarchy", "individuals", "properties"}
Written == [content : Content, parts : SUBSET Part]
Entry   == [gen : Int, store : Store]
Verdict == [gen : Int, consistent : BOOLEAN]

VARIABLES
  k,          \* the kernel
  source,     \* source[s]: the triples of s outside its inferred graphs
  graph,      \* graph[s][g]: what the operations wrote there, nothing or one result
  cache,      \* cache[slot]: no entry or one
  verdict,    \* _consistencyCache: no entry or one
  op,         \* the running operation, if there is one
  last,       \* the operation that ended last, until the next one begins
  edits, ops, \* how often the stores were edited, how many operations began
  scenario    \* which scenario this is

vars == <<k, source, graph, cache, verdict, op, last, edits, ops, scenario>>

\* An operation with what it captured when it began.
Running == [name : Operation, store : Store, graph : Graph, hierarchy : BOOLEAN,
            gen : Int, content : Content, at : {"verb", "consistency", "read", "list"}]
Ended   == [name : Operation, store : Store, graph : Graph, hierarchy : BOOLEAN,
            content : Content, ok : BOOLEAN, answer : BOOLEAN]

TypeOK ==
  /\ k \in Kernel
  /\ source \in [Store -> Content]
  /\ \A s \in Store, g \in Graph : Cardinality(graph[s][g]) <= 1 /\ graph[s][g] \subseteq Written
  /\ \A slot \in Slot : Cardinality(cache[slot]) <= 1 /\ cache[slot] \subseteq Entry
  /\ Cardinality(verdict) <= 1 /\ verdict \subseteq Verdict
  /\ Cardinality(op) <= 1 /\ op \subseteq Running
  /\ Cardinality(last) <= 1 /\ last \subseteq Ended
  /\ edits \in 0..scenario.maxEdits /\ ops \in 0..scenario.maxOps /\ scenario \in Scenarios

NoCache == [slot \in Slot |-> {}]

Init ==
  /\ k = NewKernel
  /\ scenario \in Scenarios
  /\ source \in {f \in [Store -> Edits] : \A x \in Store \ scenario.stores : f[x] = {}}
  /\ graph = [s \in Store |-> [g \in Graph |-> {}]]
  /\ cache = NoCache /\ verdict = {} /\ op = {} /\ last = {} /\ edits = 0 /\ ops = 0

-----------------------------------------------------------------------------
\* encodeStoreToBuffers: everything but some graphs; inferences in another one count as
\* content.
Encoded(s, without) ==
  source[s] \cup {d \in {Derived} : \E h \in Graph \ without : graph[s][h] # {}}

\* Variants with one plausible slip, named for it, precede what they vary: each slip
\* breaks one of the properties.
ReplayedEmpty(content) == NewKernel

\* The content an operation hands over: without the graph it writes and the reserved ones.
\* whatIf adds to it, and leaves out no graph but the one it is given.
Handed(name, s, g) ==
  IF name = "whatIf" THEN Encoded(s, {g}) \cup {Assumed} ELSE Encoded(s, {Inferred, g})

\* A fresh Worker has no results and numbers its contents anew: the call layer
\* drops every cache and loads the content again.
Replayed(content) == Sync(NewKernel, content)
Dropped == cache' = NoCache /\ verdict' = {}

\* getUnsatisfiableClasses calls past the call layer, which recovers all the others.
Recoverable(o) == "recover" \in scenario.faults /\ o.name # "unsatisfiable"

ClearedNot(o) == graph
Cleared(o) == [graph EXCEPT ![o.store][o.graph] = {}]

End(o, ok, answer) ==
  /\ op' = {}
  /\ last' = {[name |-> o.name, store |-> o.store, graph |-> o.graph,
               hierarchy |-> o.hierarchy, content |-> o.content, ok |-> ok, answer |-> answer]}

Goto(o, at) == op' = {[o EXCEPT !.at = at]} /\ last' = {}

Edit(s) ==
  /\ s \in scenario.stores /\ edits < scenario.maxEdits /\ edits' = edits + 1
  /\ \E c \in Edits \ {source[s]} : source' = [source EXCEPT ![s] = c]
  /\ UNCHANGED <<k, graph, cache, verdict, op, last, ops, scenario>>

HitAnyStore(o, gen, cache1, verdict1) ==
  IF o.name = "checkConsistency"
  THEN \E v \in verdict1 : v.gen = gen
  ELSE o.name # "whatIf" /\ \E e \in cache1[SlotOf(o.name)] : e.gen = gen
HitAnyGeneration(o, gen, cache1, verdict1) ==
  IF o.name = "checkConsistency"
  THEN verdict1 # {}
  ELSE o.name # "whatIf" /\ \E e \in cache1[SlotOf(o.name)] : e.store = o.store

\* The operation may answer from its cache.
Hit(o, gen, cache1, verdict1) ==
  IF o.name = "checkConsistency"
  THEN \E v \in verdict1 : v.gen = gen
  ELSE o.name # "whatIf" /\ \E e \in cache1[SlotOf(o.name)] : e.gen = gen /\ e.store = o.store

\* The operation o, whose sync left the kernel k1 and these caches, goes on.
Synced(o, k1, cache1, verdict1) ==
  /\ k' = k1 /\ cache' = cache1 /\ verdict' = verdict1
  /\ LET now == [o EXCEPT !.gen = k1.gen]
         hit == Hit(o, k1.gen, cache1, verdict1)
     IN \/ /\ hit /\ o.name = "unsatisfiable" /\ Goto(now, "list") /\ UNCHANGED graph
        \/ /\ hit /\ o.name = "checkConsistency"
           /\ \E v \in verdict1 : End(now, TRUE, v.consistent)
           /\ UNCHANGED graph
        \/ /\ hit /\ o.name \notin {"unsatisfiable", "checkConsistency"}
           /\ End(now, TRUE, TRUE) /\ UNCHANGED graph
        \/ /\ ~hit /\ Goto(now, "verb")
           /\ graph' = IF Overwrites(o.name) THEN Cleared(o) ELSE graph

Begin(name, s, g, hierarchy) ==
  LET o == [name |-> name, store |-> s, graph |-> g, hierarchy |-> hierarchy,
            gen |-> 0, content |-> Handed(name, s, g), at |-> "verb"]
  IN /\ op = {} /\ ops < scenario.maxOps /\ ops' = ops + 1
     /\ s \in scenario.stores /\ g \in scenario.graphs /\ hierarchy \in scenario.hierarchy
     /\ name \in {"unsatisfiable", "checkConsistency"} => g = Inferred
     /\ hierarchy => name = "materialize"
     /\ \/ Synced(o, Sync(k, o.content), cache, verdict)
        \/ /\ Recoverable(o)
           /\ Synced(o, Replayed(o.content), NoCache, {})
        \/ /\ "throw" \in scenario.faults
           /\ End(o, FALSE, FALSE)
           /\ graph' = IF name \in Writers THEN Cleared(o) ELSE graph
           /\ \/ UNCHANGED <<k, cache, verdict>>
              \/ Recoverable(o) /\ k' = NewKernel /\ Dropped
     /\ UNCHANGED <<source, edits, scenario>>

\* The verb of an operation as the worker calls it; its FALSE goes unnoticed.
Realizes(o) == o.name \in {"materialize", "typeEntailed", "whatIf"}
RunVerb(kernel, o, loads, outcome) ==
  IF Realizes(o) THEN Realization(kernel, loads, outcome)
                 ELSE Classification(kernel, loads, outcome)
Completes(o) == IF Realizes(o) THEN "realized" ELSE "classified"

AfterVerb(o) ==
  /\ Goto(o, IF o.name = "checkConsistency" THEN "consistency" ELSE "read")
  /\ UNCHANGED graph

\* A kernel that gave up once reports a stall from every later verb.
VerbStep(o) ==
  /\ o.at = "verb"
  /\ \/ /\ ~k.stalled /\ k' = RunVerb(k, o, TRUE, Completes(o))
        /\ AfterVerb(o) /\ UNCHANGED <<cache, verdict>>
     \/ /\ ~k.stalled /\ "false" \in scenario.faults
        /\ \E loads \in BOOLEAN : k' = RunVerb(k, o, loads, "incomplete")
        /\ AfterVerb(o) /\ UNCHANGED <<cache, verdict>>
     \/ /\ Recoverable(o)
        /\ k' = RunVerb(Replayed(o.content), o, TRUE, Completes(o))
        /\ Dropped /\ AfterVerb(o)
     \/ /\ "throw" \in scenario.faults
        /\ \/ k' = k /\ UNCHANGED <<cache, verdict>>
           \/ /\ o.name = "unsatisfiable" /\ k' = RunVerb(k, o, TRUE, "stall")
              /\ UNCHANGED <<cache, verdict>>
           \/ /\ Recoverable(o) /\ Dropped
              /\ k' \in {Replayed(o.content), RunVerb(Replayed(o.content), o, TRUE, "stall")}
        /\ End(o, FALSE, FALSE) /\ UNCHANGED graph
  /\ UNCHANGED <<source, edits, ops, scenario>>

\* checkConsistency drops the caches of other generations and keeps the verdict.
Judged(o, k1, cache1) ==
  /\ k' = k1 /\ verdict' = {[gen |-> o.gen, consistent |-> k1.ret]}
  /\ cache' = [slot \in Slot |-> {e \in cache1[slot] : e.gen = o.gen}]
  /\ End(o, TRUE, k1.ret) /\ UNCHANGED graph

ConsistencyStep(o) ==
  /\ o.at = "consistency"
  /\ \/ Judged(o, Consistency(k, TRUE, "classified"), cache)
     \/ /\ "false" \in scenario.faults
        /\ \E loads \in BOOLEAN : Judged(o, Consistency(k, loads, "incomplete"), cache)
     \/ /\ Recoverable(o)
        /\ Judged(o, Consistency(Classification(Replayed(o.content), TRUE, "classified"),
                                 TRUE, "classified"), NoCache)
     \/ /\ "throw" \in scenario.faults
        /\ End(o, FALSE, FALSE) /\ UNCHANGED <<k, graph, cache, verdict>>
  /\ UNCHANGED <<source, edits, ops, scenario>>

\* What the result buffer holds and the operation writes of it.
PartsRead(o) ==
  CASE SlotOf(o.name) = "classifyProperties" -> {"properties"}
    [] SlotOf(o.name) = "classify"    -> {"hierarchy"}
    [] SlotOf(o.name) = "materialize" ->
         {p \in {"hierarchy", "individuals"} :
            /\ p = "individuals" => k.realized
            /\ p = "hierarchy"   => o.hierarchy \/ o.name = "typeEntailed"}

\* The graph it wrote now belongs to this operation alone.
Cached(o) == [NoCache EXCEPT ![SlotOf(o.name)] = {[gen |-> o.gen, store |-> o.store]}]

ReadStep(o) ==
  /\ o.at = "read"
  /\ \/ /\ o.name # "whatIf" /\ k' = BuildBuffer(k)
        /\ graph' = IF k'.ret
             THEN [graph EXCEPT ![o.store][o.graph] =
                     {[content |-> k'.buffer.content, parts |-> PartsRead(o)]}]
             ELSE graph
        /\ cache' = Cached(o)
        /\ IF o.name = "unsatisfiable" THEN Goto(o, "list") ELSE End(o, TRUE, TRUE)
        /\ UNCHANGED verdict
     \/ /\ o.name = "whatIf" /\ k' = BuildBuffer(k)
        /\ Dropped
        /\ End(o, TRUE, k'.ret /\ k'.buffer.content = o.content) /\ UNCHANGED graph
     \/ /\ "throw" \in scenario.faults
        /\ End(o, FALSE, FALSE) /\ UNCHANGED <<k, graph, cache, verdict>>
  /\ UNCHANGED <<source, edits, ops, scenario>>

\* buildUnsatisfiableClassBuffer: an empty list while no result may be read.  The
\* answer is right when it is read off the operation's own content.
ListStep(o) ==
  /\ o.at = "list"
  /\ \/ End(o, TRUE, k.classified /\ k.onto.content = o.content)
     \/ "throw" \in scenario.faults /\ End(o, FALSE, FALSE)
  /\ UNCHANGED <<k, source, graph, cache, verdict, edits, ops, scenario>>

Next ==
  \/ \E s \in Store : Edit(s)
  \/ \E name \in Operation, s \in Store, g \in Graph, hierarchy \in BOOLEAN :
       Begin(name, s, g, hierarchy)
  \/ \E o \in op : VerbStep(o) \/ ConsistencyStep(o) \/ ReadStep(o) \/ ListStep(o)

Spec == Init /\ [][Next]_vars

-----------------------------------------------------------------------------
(* Properties *)

\* What an operation's documentation promises to find in its graph afterwards.
Promised(o) ==
  CASE o.name \in {"classify", "subClassEntailed"} -> {"hierarchy"}
    [] o.name = "typeEntailed" -> {"individuals"}
    [] o.name = "materialize"  ->
         IF o.hierarchy THEN {"individuals", "hierarchy"} ELSE {"individuals"}
    [] o.name \in {"classifyProperties", "propertyEntailed"} -> {"properties"}

\* Nothing fails, and all operations write one graph with one choice of options: the
\* caches know neither, nor of a Worker replaced while an operation runs.
Undisturbed ==
  /\ scenario.faults = {}
  /\ \E g \in Graph   : scenario.graphs = {g}
  /\ \E h \in BOOLEAN : scenario.hierarchy = {h}

\* An operation that succeeds leaves its graph with the inferences it was asked for,
\* for the content its store had when it began, computed now or found by a cache hit.
DeliversAlways ==
  \A o \in last :
    o.ok /\ o.name \in Writers \cup Entailed
    => \E w \in graph[o.store][o.graph] : w.content = o.content /\ Promised(o) \subseteq w.parts
Delivers == Undisturbed => DeliversAlways

\* An undisturbed operation answers for its own store, cache hit or not: checkConsistency
\* resolves TRUE exactly for content that has a model, getUnsatisfiableClasses lists the
\* classes of this store, whatIf compares with the inferences of the changed content.
AnswersRight ==
  \A o \in last : Undisturbed /\ o.ok =>
    /\ o.name = "checkConsistency" => (o.answer <=> o.content \notin Inconsistent)
    /\ o.name \in {"unsatisfiable", "whatIf"} => o.answer

\* An operation that fails leaves its graph cleared, never with older results.
FailedLeavesNothing ==
  \A o \in last : ~o.ok /\ o.name \in Writers => graph[o.store][o.graph] = {}

\* What an operation writes comes from the content it synced itself: through a
\* recovery, a verb that answered FALSE, and edits made while it waited.
WritesOwnContent ==
  [][\A o \in op : o.at = "read" /\ Overwrites(o.name)
       => \A w \in graph'[o.store][o.graph] : w.content = o.content]_vars
=============================================================================
