------------------------------- MODULE LcHcct -------------------------------
(***************************************************************************)
(* The hot calling context tree under Lossy Counting, as built by          *)
(* thesis/trace_analyzer/src/lc-hcct.c from the events of a trace.         *)
(*                                                                         *)
(* A context never has two nodes, so that a node is the calling context it *)
(* stands for, and stack[i] is the node of the first i active calls.       *)
(* Where rtn_enter would follow a pointer to a node that was freed, what   *)
(* happens next is undefined, and the model stops.                         *)
(***************************************************************************)
EXTENDS CallingContexts

CONSTANTS Epsilon,        \* epsilon: events in a bucket
          Phi,            \* phi
          Increments,     \* of rtn_enter_wc: 1 and RE_ENABLING
          MaxWeight       \* bound: sum of the increments of a trace

ASSUME ConstantsAssumption ==
  /\ Epsilon \in Nat \ {0, 1}
  /\ Phi \in Nat \ {0}
  /\ Increments \subseteq Nat \ {0}
  /\ MaxWeight \in Nat

VARIABLES
  counter,   \* node |-> node->counter; its domain is the tree
  delta,     \* node |-> node->delta
  monitored, \* the nodes with bit 0 of node->parent set
  list,      \* the list behind lc_root, the last node that was added first
  bucket,    \* bucket
  index,     \* index
  top,       \* stack[stack_idx]
  written,   \* has write_output run?
  bursting,  \* the build: BURSTING, with ADAPTIVE and WEIGHT_COMPENSATION, or not
  \* History, read by no operation of the analyzer:
  aux_freq,  \* how often (with increments) each context was entered
  aux_weight \* and all of them together

vars == <<counter, delta, monitored, list, bucket, index, top, written, bursting,
          aux_freq, aux_weight>>

Nodes       == DOMAIN counter
Elements(s) == {s[i] : i \in 1 .. Len(s)}

-----------------------------------------------------------------------------
\* Mutant of Sparse: delta is forgotten.
SparseByCount(cnt, dlt, l, cur) ==
  {x \in Elements(l) : cnt[x] <= bucket + 1} \ (IF l[1] = cur THEN {cur} ELSE {})

\* The nodes that lc_prune drops from the list l: all with a small counter, but
\* the current node if it is the first one.
Sparse(cnt, dlt, l, cur) ==
  {x \in Elements(l) : cnt[x] + dlt[x] <= bucket + 1} \ (IF l[1] = cur THEN {cur} ELSE {})

\* Mutant of Needed: prune does not call itself on the parent.
NeededOrInner(M) ==
  {x \in Contexts : x = Root \/ \E y \in M \cup Nodes : LeadsTo(x, y) /\ (x \in M \/ x # y)}

\* What is left of a tree once prune has removed the leaves that are not in M,
\* and the nodes that become such leaves: the nodes that lead to one in M.
Needed(M) == {x \in Contexts : x = Root \/ \E y \in M : LeadsTo(x, y)}

\* lc_prune, with the counters cnt, the monitored nodes mon and the list l.
LcPrune(cnt, dlt, mon, l, cur) ==
  LET S    == Sparse(cnt, dlt, l, cur)
      keep == Needed(mon \ S) \cap DOMAIN cnt
  IN  /\ list' = SelectSeq(l, LAMBDA x : x \notin S)
      /\ monitored' = mon \ S
      /\ counter' = [x \in keep |-> cnt[x]]
      /\ delta' = [x \in keep |-> dlt[x]]
      /\ bucket' = bucket + 1

\* Mutant of CounterAt: new nodes start at 0.
CounterFromZero(node, inc) ==
  [x \in Nodes \cup {node} |-> IF x \notin Nodes THEN 0
                               ELSE IF x = node THEN counter[x] + inc ELSE counter[x]]

\* The counters and deltas once node has been entered: a new node is given the
\* current bucket, one that had been dropped from the list keeps what it has.
CounterAt(node, inc) ==
  [x \in Nodes \cup {node} |-> IF x # node THEN counter[x]
                               ELSE IF x \in Nodes THEN counter[x] + inc ELSE inc]
DeltaAt(node) ==
  [x \in Nodes \cup {node} |-> IF x \in Nodes THEN delta[x] ELSE bucket]

\* A node that is not monitored is put in front of the list.
ListAt(node) == IF node \in monitored THEN list ELSE <<node>> \o list

\* index, when i events of the bucket have been seen.
NextIndex(i) == IF i >= Epsilon THEN i - Epsilon ELSE i

\* rtn_enter, and rtn_enter_wc with increment inc.
RtnEnter(c, inc) ==
  LET node == Append(top, c) IN
  /\ ~written
  /\ bursting \/ inc = 1
  /\ aux_weight + inc <= MaxWeight
  /\ Len(top) < StackMaxDepth
  /\ top \in Nodes
  /\ top' = node
  /\ IF index + inc >= Epsilon
     THEN LcPrune(CounterAt(node, inc), DeltaAt(node), monitored \cup {node}, ListAt(node), node)
     ELSE /\ counter' = CounterAt(node, inc)
          /\ delta' = DeltaAt(node)
          /\ monitored' = monitored \cup {node}
          /\ list' = ListAt(node)
          /\ UNCHANGED bucket
  /\ index' = NextIndex(index + inc)
  /\ aux_freq' = [aux_freq EXCEPT ![node] = @ + inc]
  /\ aux_weight' = aux_weight + inc
  /\ UNCHANGED <<written, bursting>>

RtnExit ==
  /\ ~written
  /\ top # Root
  /\ top' = Caller(top)
  /\ UNCHANGED <<counter, delta, monitored, list, bucket, index, written, bursting>>
  /\ UNCHANGED <<aux_freq, aux_weight>>

\* burst_start: what follows is a burst, which first enters the active contexts
\* again, from the root on.
BurstStart ==
  /\ bursting
  /\ ~written
  /\ top # Root
  /\ top' = Root
  /\ UNCHANGED <<counter, delta, monitored, list, bucket, index, written, bursting>>
  /\ UNCHANGED <<aux_freq, aux_weight>>

\* Mutant of Frequent: Manku and Motwani's rule, without the deltas, but phi
\* instead of phi - epsilon.
FrequentByCount == {x \in monitored : counter[x] >= aux_weight \div Phi}

\* The nodes that finalPrune keeps as leaves, for a stream of aux_weight events.
Frequent == {x \in monitored : counter[x] + delta[x] >= aux_weight \div Phi}

\* write_output of an exhaustive trace, whose events all weigh 1:
\* metrics_write_output has finalPrune remove the other leaves.  The list is not
\* used any more.
WriteOutput ==
  /\ ~written
  /\ ~bursting
  /\ written' = TRUE
  /\ LET keep == Needed(Frequent) \cap Nodes
     IN  /\ counter' = [x \in keep |-> counter[x]]
         /\ delta' = [x \in keep |-> delta[x]]
  /\ UNCHANGED <<monitored, list, bucket, index, top, bursting, aux_freq, aux_weight>>

Init ==
  /\ counter = [x \in {Root} |-> 1]
  /\ delta = [x \in {Root} |-> 0]
  /\ monitored = {Root}
  /\ list = <<Root>>
  /\ bucket = 0
  /\ index = 1
  /\ top = Root
  /\ written = FALSE
  /\ bursting \in BOOLEAN
  /\ aux_freq = [x \in Contexts |-> 0]
  /\ aux_weight = 0

Next == \/ RtnExit
        \/ BurstStart
        \/ WriteOutput
        \/ \E c \in Calls, inc \in Increments \cup {1} : RtnEnter(c, inc)

Spec == Init /\ [][Next]_vars

-----------------------------------------------------------------------------
(* Properties.                                                             *)

\* Every variable has its type.
TypeOK ==
  /\ Nodes \subseteq Contexts
  /\ \A x \in Nodes : counter[x] \in Nat \ {0}
  /\ DOMAIN delta = Nodes
  /\ \A x \in Nodes : delta[x] \in Nat
  /\ monitored \subseteq Contexts
  /\ bucket \in Nat
  /\ index \in Nat
  /\ top \in Contexts
  /\ written \in BOOLEAN
  /\ bursting \in BOOLEAN
  /\ aux_freq \in [Contexts -> Nat]
  /\ aux_weight \in Nat

\* The list holds the monitored nodes, once each; they are nodes of the tree, and
\* the tree leads to nothing else.
ListSpansTree ==
  ~written =>
    /\ Elements(list) = monitored
    /\ \A i, j \in 1 .. Len(list) : list[i] = list[j] => i = j
    /\ Nodes = Needed(monitored)

\* "N == bucket*epsilon + index" (N counts the dummy root).
StreamLength == bucket * Epsilon + index = aux_weight + 1

\* Lossy Counting: a counter never exceeds the frequency of its context and
\* falls short of it by at most delta, a context without a node was entered at
\* most once per full bucket, and so all errors are at most Epsilon of the stream.
\* That a cold ancestor which becomes monitored again keeps its old delta,
\* and that its counter survives on the way, does not break this.
LossyCounting ==
  ~written =>
    \A x \in Contexts \ {Root} :
      IF x \in Nodes
      THEN /\ counter[x] <= aux_freq[x]
           /\ aux_freq[x] <= counter[x] + delta[x]
           /\ delta[x] <= bucket
      ELSE aux_freq[x] <= bucket

\* The tree that is written has every context which makes up 1/Phi of the
\* stream, and every leaf of it makes up almost as much.
OutputIsHot ==
  written =>
    /\ \A x \in Contexts : aux_freq[x] > 0 /\ aux_freq[x] >= aux_weight \div Phi
                             /\ aux_freq[x] > bucket => x \in Nodes
    /\ \A x \in Nodes \ {Root} :
         \/ \E y \in Nodes : y # x /\ LeadsTo(x, y)
         \/ aux_freq[x] + bucket >= aux_weight \div Phi

\* No node on the stack is ever freed: lc_prune drops the current node neither
\* where it is the first of the list, and spared, nor elsewhere (the test is
\* "maybe not necessary at all").
StackIsLive == ~written => \A i \in 0 .. Len(top) : Prefix(top, i) \in Nodes
=============================================================================
