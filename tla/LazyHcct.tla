------------------------------ MODULE LazyHcct ------------------------------
(***************************************************************************)
(* The hot calling context tree under Space Saving with a lazy priority    *)
(* queue, as built by thesis/trace_analyzer/src/lss-hcct.c from the events *)
(* of a trace, and measured against the exact tree when the trace ends.    *)
(* The scan for the next minimum stops at the sentinel behind the queue.   *)
(*                                                                         *)
(* A context never has two nodes, so that a node is the calling context it *)
(* stands for, and stack[i] is the node of the first i active calls.  The  *)
(* builds are those of LcHcct: exhaustive with COMPARE_TO_CCT, or with     *)
(* bursts, where weights are compensated.                                  *)
(***************************************************************************)
EXTENDS TraceMetrics

CONSTANTS Null,         \* no report
          Epsilon,      \* epsilon: length of the queue
          Phi,          \* phi
          Tau,          \* tau
          Increments,   \* of rtn_enter_wc: 1 and RE_ENABLING
          RootCounters, \* the values that the memory of cct.c's root may hold
          MaxWeight     \* bound: sum of the increments of a trace

\* get_epsilon_phi_tau checks phi <= epsilon.  A queue of one slot is never marked
\* full; see README.
ConstantsAssumption ==
  /\ Epsilon \in Nat \ {0, 1}
  /\ Phi \in 1 .. Epsilon
  /\ Tau \in Nat \ {0}
  /\ Increments \subseteq Nat \ {0}
  /\ RootCounters \subseteq Nat
  /\ MaxWeight \in Nat

VARIABLES
  counter,      \* node |-> node->counter; its domain is the tree
  monitored,    \* the nodes with additional_info = 1
  queue,        \* queue[0 .. num_queue_items - 1]
  queueFull,    \* queue_full
  sentinel,     \* queue[epsilon]->counter
  min,          \* min
  minIdx,       \* min_idx
  secondMinIdx, \* second_min_idx
  top,          \* stack[stack_idx]
  bursting,     \* the build: with bursts and compensation of weights, or not
  report,       \* what write_output has logged
  \* History, read by no operation of the analyzer but COMPARE_TO_CCT's cct.c:
  aux_freq,     \* how often (with increments) each context was entered
  aux_weight    \* and all of them together

queueVars == <<queue, queueFull, sentinel, min, minIdx, secondMinIdx>>
vars == <<counter, monitored, queueVars, top, bursting, report, aux_freq, aux_weight>>

Nodes    == DOMAIN counter
NumItems == Cardinality(DOMAIN queue)

-----------------------------------------------------------------------------
(* The lazy priority queue.                                                *)

QCount(i) == IF i = Epsilon THEN sentinel ELSE counter[queue[i]]

\* Where the scan stops that goes on behind the last minimum.
Stop == Min({i \in minIdx + 1 .. Epsilon : QCount(i) <= min})

\* The whole queue is searched for counters below that of the second minimum, each
\* one smaller than those before.
Records == {i \in 0 .. Epsilon - 1 :
              /\ QCount(i) < QCount(secondMinIdx)
              /\ \A j \in 0 .. i - 1 : QCount(i) < QCount(j)}

\* If no counter is below that of the second minimum, minIdx is 0, whatever
\* the counter there.
FindMin ==
  \/ /\ Stop < Epsilon
     /\ minIdx' = Stop
     /\ UNCHANGED <<min, secondMinIdx, sentinel>>
  \/ /\ Stop = Epsilon
     /\ minIdx' = Max({0} \cup Records)
     /\ min' = Min({QCount(secondMinIdx)} \cup {QCount(i) : i \in Records})
     /\ secondMinIdx' = IF Records = {} THEN secondMinIdx
                        ELSE Max({0} \cup (Records \ {Max(Records)}))
     /\ sentinel' = min'

\* Mutant of Unpruned: the ancestors of a leaf stay.
UnprunedAlone(x, T, M) == IF \E y \in T : y # Root /\ Caller(y) = x THEN T ELSE T \ {x}

\* The tree T after x has lost its slot: where x is a leaf, prune removes it, and from
\* there upwards the nodes that are not monitored and become leaves.
Unpruned(x, T, M) ==
  LET callers == {Prefix(x, i) : i \in 1 .. Len(x)}
  IN  T \ {y \in callers : \A z \in T : LeadsTo(y, z) => z \in callers \ M}

-----------------------------------------------------------------------------
(* rtn_enter, with increment 1, and rtn_enter_wc: the node is monitored.     *)

EnterMonitored(node, inc) ==
  /\ node \in Nodes \cap monitored
  /\ counter' = [counter EXCEPT ![node] = @ + inc]
  /\ UNCHANGED <<monitored, queueVars>>

\* The queue has a free slot.
EnterAdmit(node, inc) ==
  /\ node \notin monitored
  /\ ~queueFull
  /\ counter' = [x \in Nodes \cup {node} |-> IF x = node THEN inc ELSE counter[x]]
  /\ monitored' = monitored \cup {node}
  /\ queue' = [i \in 0 .. NumItems |-> IF i = NumItems THEN node ELSE queue[i]]
  /\ queueFull' = (NumItems + 1 = Epsilon)
  /\ UNCHANGED <<sentinel, min, minIdx, secondMinIdx>>

\* The node takes the slot of the minimum.
EnterEvict(node, inc) ==
  /\ node \notin monitored
  /\ queueFull
  /\ FindMin
  /\ monitored' = (monitored \ {queue[minIdx']}) \cup {node}
  /\ counter' = [x \in Unpruned(queue[minIdx'], Nodes \cup {node}, monitored') |->
                   IF x = node THEN min' + inc ELSE counter[x]]
  /\ queue' = [queue EXCEPT ![minIdx'] = node]
  /\ UNCHANGED queueFull

Enter(c, inc) ==
  LET node == Append(top, c) IN
  /\ report = Null
  /\ aux_weight + inc <= MaxWeight
  /\ Len(top) < StackMaxDepth
  /\ EnterMonitored(node, inc) \/ EnterAdmit(node, inc) \/ EnterEvict(node, inc)
  /\ top' = node
  /\ aux_freq' = [aux_freq EXCEPT ![node] = @ + inc]
  /\ aux_weight' = aux_weight + inc
  /\ UNCHANGED <<bursting, report>>

\* Without bursts, and within them.
RtnEnter(c)        == ~bursting /\ Enter(c, 1)
RtnEnterWc(c, inc) == bursting /\ Enter(c, inc)

RtnExit ==
  /\ report = Null
  /\ top # Root
  /\ top' = Caller(top)
  /\ UNCHANGED <<counter, monitored, queueVars, bursting, report, aux_freq, aux_weight>>

\* burst_start: what follows is a burst, which first enters the active contexts
\* again, from the root on.
BurstStart ==
  /\ report = Null
  /\ bursting
  /\ top # Root
  /\ top' = Root
  /\ UNCHANGED <<counter, monitored, queueVars, bursting, report, aux_freq, aux_weight>>

-----------------------------------------------------------------------------
(* write_output of an exhaustive trace, whose events all weigh 1.            *)

Threshold == aux_weight \div Phi

\* The tree of cct.c.  Its init gives the root no counter.
ExactTree(r) ==
  [x \in {y \in Contexts : y = Root \/ aux_freq[y] > 0} |->
     IF x = Root THEN r ELSE aux_freq[x]]

\* finalPrune: a cold node that prune has already freed together with its last child
\* is freed once more; the pool is not used after that.
FinalPruned == PrunedTo(LAMBDA x : x \in monitored /\ counter[x] >= Threshold, counter)

\* Where no context is missing, the mean of the missing counters divides by 0.
WriteOutput ==
  /\ report = Null
  /\ ~bursting
  /\ \E r \in RootCounters :
       LET c == ExactTree(r)
           m == MetricsOfStream(counter, FinalPruned, c, monitored, Threshold, Threshold, Tau)
       IN  report' = [root |-> r, stream |-> m, failed |-> m.missed.uncovered = 0,
                      exact |-> MetricsOfExact(c, Threshold)]
  /\ UNCHANGED <<counter, monitored, queueVars, top, bursting, aux_freq, aux_weight>>

Init ==
  /\ counter = [x \in {Root} |-> 1]
  /\ monitored = {Root}
  /\ queue = [i \in {0} |-> Root]
  /\ queueFull = FALSE
  /\ sentinel = 0
  /\ min = 0
  /\ minIdx = Epsilon - 1
  /\ secondMinIdx = 0
  /\ top = Root
  /\ bursting \in BOOLEAN
  /\ report = Null
  /\ aux_freq = [x \in Contexts |-> 0]
  /\ aux_weight = 0

Next == \/ RtnExit
        \/ BurstStart
        \/ WriteOutput
        \/ \E c \in Calls : RtnEnter(c)
        \/ \E c \in Calls, inc \in Increments \cup {1} : RtnEnterWc(c, inc)

Spec == Init /\ [][Next]_vars

-----------------------------------------------------------------------------
(* Properties.                                                             *)

\* Every variable has its type.
TypeOK ==
  /\ Nodes \subseteq Contexts /\ \A x \in Nodes : counter[x] \in Nat
  /\ monitored \subseteq Contexts
  /\ DOMAIN queue \subseteq 0 .. Epsilon - 1 /\ \A i \in DOMAIN queue : queue[i] \in Contexts
  /\ queueFull \in BOOLEAN /\ bursting \in BOOLEAN
  /\ sentinel \in Nat /\ min \in Nat
  /\ minIdx \in 0 .. Epsilon - 1 /\ secondMinIdx \in 0 .. Epsilon - 1
  /\ top \in Contexts
  /\ aux_freq \in [Contexts -> Nat] /\ aux_weight \in Nat

\* The queue holds each monitored node once, and nothing else; the scan stops at the
\* sentinel at the latest, which shows the value that no counter is below.
QueueHoldsMonitored ==
  /\ \A i, j \in DOMAIN queue : queue[i] = queue[j] => i = j
  /\ {queue[i] : i \in DOMAIN queue} = monitored
  /\ queueFull = (NumItems = Epsilon)
  /\ sentinel = min
  /\ \A x \in monitored : counter[x] >= min

\* No node of an active call is ever freed, and what is not monitored is there only
\* as an ancestor of what is.
TreeIsPruned ==
  /\ \A i \in 0 .. Len(top) : Prefix(top, i) \in Nodes
  /\ monitored \subseteq Nodes
  /\ \A x \in Nodes \ {Root} : \E y \in monitored : LeadsTo(x, y)

\* What Space Saving promises even where FindMin misses the minimum: a counter exceeds the frequency of its context by min at most, and the
\* counters, of which there are Epsilon once one was evicted, share the length of the
\* stream (and the 1 of the root).
CountersAreBounded ==
  /\ \A x \in monitored \ {Root} : counter[x] <= aux_freq[x] + min
  /\ MapThenSumSet(LAMBDA x : counter[x], monitored) <= aux_weight + 1
  /\ min * Epsilon <= aux_weight + 1

\* The numbers of a report agree with one another: hot, false and cold nodes are all
\* nodes, and what the tree shows as hot is hot or a false positive; the frequencies of
\* covered and of missed contexts add up to the length of the trace (and the root's
\* counter); the tree does not hold more hot nodes than the exact one, which holds all
\* hot contexts and their callers, once each.
MetricsAgree ==
  report # Null =>
    LET m == report.stream
        e == report.exact
        c == ExactTree(report.root)
        H == {x \in DOMAIN c : c[x] >= Threshold}
    IN  /\ m.cold >= 0 /\ m.hcct <= m.mcct
        /\ m.hot + m.false >= Cardinality({x \in monitored : counter[x] >= Threshold})
        /\ m.weight + m.missed.sum = aux_weight + report.root
        /\ m.hcct + m.missed.uncovered = Cardinality(DOMAIN c)
        /\ m.h1 = m.h2 \/ m.missed.max = m.h2
        /\ m.hot <= e.hot /\ e.hot = Cardinality(H)
        /\ e.nodes = Cardinality({Root} \cup {x \in DOMAIN c : \E y \in H : LeadsTo(x, y)})
        /\ e.nodes - e.hot <= StackMaxDepth * e.hot + 1

\* dump_hot_per_phi: to prune a tree that was pruned for a lower threshold gives what
\* pruning the exact tree gives.
PruningComposes ==
  report # Null =>
    LET c    == ExactTree(report.root)
        Alone(i) == MetricsOfExact(c, i)
    IN  HotPerPhi(c, 1, 2, 3) = <<Alone(1).nodes, Alone(1).hot, Alone(2).nodes, Alone(2).hot,
                                  Alone(3).nodes, Alone(3).hot>>
=============================================================================
