------------------------------ MODULE LssHcct ------------------------------
(***************************************************************************)
(* The online hot calling context tree of one thread, as built by          *)
(* testing/profiler/lss-hcct.c under the exhaustive front end              *)
(* (frequency.c): hcct_init, hcct_enter, hcct_exit and hcct_dump.          *)
(*                                                                         *)
(* A node of the tree is a block of the thread's pool.  The first_child /  *)
(* next_sibling lists are the inverse of "parent": a node is looked up by  *)
(* its call among the children of the node on top of the stack.  Which     *)
(* block an allocation returns is immaterial, only that it is not in use.  *)
(* The sentinel behind the queue always holds _TLS_min, so that the scan   *)
(* for the next minimum stops at index Epsilon at the latest.              *)
(***************************************************************************)
EXTENDS CallingContexts, FiniteSets

CONSTANTS Blocks,             \* bound: the blocks the pool can hand out
          Null,               \* the null pointer
          Epsilon,            \* length of the queue, from hcct_getenv
          IdxMax,             \* largest UINT16, where _TLS_stack_idx wraps around
          InlineUpdMin,       \* build option INLINE_UPD_MIN
          EventsOutsideTrace, \* do events occur before trace_begin / after trace_end?
          MaxEvents           \* bound: enter events of a trace

ASSUME ConstantsAssumption ==
  /\ Blocks # {}
  /\ Null \notin Blocks
  /\ Epsilon \in Nat \ {0}
  /\ StackMaxDepth \in Nat \ {0, 1}
  /\ IdxMax \in Nat /\ StackMaxDepth <= IdxMax
  /\ InlineUpdMin \in BOOLEAN
  /\ EventsOutsideTrace \in BOOLEAN
  /\ MaxEvents \in Nat

VARIABLES
  root,          \* _TLS_hcct_root
  live,          \* the blocks that hold nodes of the tree
  parent,        \* node->parent
  callOf,        \* node->routine_id, node->call_site
  counter,       \* node->counter
  monitored,     \* the nodes with additional_info = 1
  stack,         \* _TLS_stack
  stackIdx,      \* _TLS_stack_idx, a UINT16
  queue,         \* _TLS_queue, without the sentinel
  numItems,      \* _TLS_num_queue_items
  queueFull,     \* _TLS_queue_full
  min,           \* _TLS_min
  minIdx,        \* _TLS_min_idx
  secondMinIdx,  \* _TLS_second_min_idx
  \* History, read by no action of the profiler:
  aux_phase,     \* "before", "tracing", "ended": has hcct_init / hcct_dump run?
  aux_frames,    \* the calls that are active in the traced thread
  aux_ctx,       \* the calling context a block stands for
  aux_freq,      \* how often each calling context was entered
  aux_events     \* enter events so far

treeVars  == <<root, live, parent, callOf, counter, monitored>>
stackVars == <<stack, stackIdx>>
queueVars == <<queue, numItems, queueFull, min, minIdx, secondMinIdx>>
auxVars   == <<aux_phase, aux_frames, aux_ctx, aux_freq, aux_events>>
vars      == <<treeVars, stackVars, queueVars, auxVars>>

Slots == 0 .. Epsilon - 1

-----------------------------------------------------------------------------
(* The tree.                                                               *)

Children(p, lv, par) == {n \in lv : par[n] = p}

\* The child of p for call c: the search along the list of siblings.
Lookup(p, c) == {n \in Children(p, live, parent) : callOf[n] = c}

NewBlock == CHOOSE b \in Blocks : b \notin live

\* R contains, with a node, its parent p when p is cold and the removal of R
\* leaves p without children: the recursive call in prune.
PruneClosed(R, r, lv, par, mon) ==
  \A n \in R : LET p == par[n] IN
     (p \in lv \ (mon \cup {r}) /\ Children(p, lv, par) \subseteq R) => p \in R

\* Mutant of Pruned: hcct_enter does not ask whether v is a leaf.
PrunedInnerNode(v, r, lv, par, mon) ==
  {n \in lv : \A R \in SUBSET lv :
                (v \in R /\ PruneClosed(R, r, lv, par, mon)) => n \in R}

\* Mutant of Pruned: prune does not call itself on the parent.
PrunedAlone(v, r, lv, par, mon) ==
  IF v = r \/ Children(v, lv, par) # {} THEN {} ELSE {v}

\* The nodes that prune(v) removes from the tree lv with root r: the least
\* closed set with v in it.  A node with children is never pruned, nor the root.
Pruned(v, r, lv, par, mon) ==
  IF v = r \/ Children(v, lv, par) # {}
  THEN {}
  ELSE {n \in lv : \A R \in SUBSET lv :
                     (v \in R /\ PruneClosed(R, r, lv, par, mon)) => n \in R}

-----------------------------------------------------------------------------
(* The lazy priority queue.                                                *)

QCount(i) == counter[queue[i]]

Least(S)    == CHOOSE i \in S : \A j \in S : i <= j
Greatest(S) == CHOOSE i \in S : \A j \in S : j <= i

\* INLINE_UPD_MIN = 1, UPDATE_MIN_SENTINEL = 1.  The scan goes on behind the
\* last minimum; at the sentinel, the queue is searched for counters below
\* that of the second minimum, of which each one found replaces the minimum.
Ahead   == {i \in Slots : i > minIdx /\ QCount(i) <= min}
Records == {i \in Slots : /\ QCount(i) < QCount(secondMinIdx)
                          /\ \A j \in Slots : j < i => QCount(i) < QCount(j)}

InlineUpdateMin ==
  \/ /\ Ahead # {}
     /\ minIdx' = Least(Ahead)
     /\ UNCHANGED <<min, secondMinIdx>>
  \/ /\ Ahead = {} /\ Records = {}
     /\ minIdx' = 0
     /\ min' = QCount(secondMinIdx)
     /\ UNCHANGED secondMinIdx
  \/ /\ Ahead = {} /\ Records # {}
     /\ minIdx' = Greatest(Records)
     /\ min' = QCount(Greatest(Records))
     /\ secondMinIdx' = Greatest({0} \cup (Records \ {Greatest(Records)}))

\* INLINE_UPD_MIN = 0: update_min().
Equal  == {i \in Slots : i > minIdx /\ QCount(i) = min}
Lowest == {i \in Slots : \A j \in Slots : QCount(i) <= QCount(j)}

\* Mutant of UpdateMin: the slots are taken in turn.
UpdateMinInTurn ==
  /\ minIdx' = (minIdx + 1) % Epsilon
  /\ min' = QCount((minIdx + 1) % Epsilon)
  /\ UNCHANGED secondMinIdx

UpdateMin ==
  /\ \/ /\ Equal # {}
        /\ minIdx' = Least(Equal)
        /\ UNCHANGED min
     \/ /\ Equal = {}
        /\ minIdx' = Least(Lowest)
        /\ min' = QCount(Least(Lowest))
  /\ UNCHANGED secondMinIdx

FindVictim == IF InlineUpdMin THEN InlineUpdateMin ELSE UpdateMin

-----------------------------------------------------------------------------
(* hcct_init, called by trace_begin and aux_pthread_create.                *)

\* The dummy root r and the queue that holds only it.
FreshTree(r) ==
  /\ root' = r
  /\ min' = 0
  /\ minIdx' = Epsilon - 1
  /\ secondMinIdx' = 0

HcctInit ==
  /\ aux_phase = "before"
  /\ aux_frames = <<>>
  /\ aux_phase' = "tracing"
  /\ IF root # Null
     THEN /\ UNCHANGED treeVars /\ UNCHANGED stackVars /\ UNCHANGED queueVars
          /\ UNCHANGED <<aux_frames, aux_ctx, aux_freq, aux_events>>
     ELSE LET r == NewBlock IN
          /\ FreshTree(r)
          /\ live' = {r}
          /\ parent' = [parent EXCEPT ![r] = Null]
          /\ counter' = [counter EXCEPT ![r] = 1]
          /\ monitored' = {r}
          /\ stack' = [stack EXCEPT ![0] = r]
          /\ stackIdx' = 0
          /\ queue' = [queue EXCEPT ![0] = r]
          /\ numItems' = 1
          /\ queueFull' = FALSE
          /\ aux_ctx' = [aux_ctx EXCEPT ![r] = <<>>]
          /\ UNCHANGED <<callOf, aux_frames, aux_freq, aux_events>>

-----------------------------------------------------------------------------
(* hcct_enter.                                                             *)

\* The environment: a call c is made, and the tree can grow by a node.
CallMade(c) ==
  /\ aux_events < MaxEvents
  /\ Len(aux_frames) + 1 < StackMaxDepth
  /\ stackIdx + 1 < StackMaxDepth
  /\ aux_events' = aux_events + 1
  /\ aux_frames' = Append(aux_frames, c)
  /\ aux_freq' = [aux_freq EXCEPT ![aux_frames'] = @ + 1]
  /\ UNCHANGED aux_phase

Push(n) == /\ stackIdx' = stackIdx + 1
           /\ stack' = [stack EXCEPT ![stackIdx + 1] = n]

\* The node exists and is monitored.
EnterHot(c) ==
  /\ root # Null
  /\ CallMade(c)
  /\ \E n \in Lookup(stack[stackIdx], c) \cap monitored :
       /\ Push(n)
       /\ counter' = [counter EXCEPT ![n] = @ + 1]
  /\ UNCHANGED queueVars
  /\ UNCHANGED <<root, live, parent, callOf, monitored, aux_ctx>>

\* Mutant of ColdNode: a cold node of the tree is not found.
ColdNodeAlwaysNew(p, c, n) ==
  /\ Lookup(p, c) \cap monitored = {}
  /\ live # Blocks
  /\ n = NewBlock

\* The node for call c under p when it is not monitored: a cold node of the
\* tree, or else a new one.
ColdNode(p, c, n) ==
  \/ n \in Lookup(p, c) \ monitored
  \/ Lookup(p, c) = {} /\ live # Blocks /\ n = NewBlock

Attach(p, c, n) ==
  /\ parent' = [parent EXCEPT ![n] = p]
  /\ callOf' = [callOf EXCEPT ![n] = c]
  /\ aux_ctx' = [aux_ctx EXCEPT ![n] = Append(aux_ctx[p], c)]

\* The table is not full: the node gets a slot of its own.
EnterAdmit(c) ==
  /\ root # Null
  /\ ~queueFull
  /\ CallMade(c)
  /\ \E n \in Blocks :
       /\ ColdNode(stack[stackIdx], c, n)
       /\ Attach(stack[stackIdx], c, n)
       /\ Push(n)
       /\ live' = live \cup {n}
       /\ monitored' = monitored \cup {n}
       /\ counter' = [counter EXCEPT ![n] = 1]
       /\ queue' = [queue EXCEPT ![numItems] = n]
       /\ numItems' = numItems + 1
       /\ queueFull' = (numItems + 1 = Epsilon)
  /\ UNCHANGED <<root, min, minIdx, secondMinIdx>>

\* Mutant of TakeSlot: the index of the previous minimum is used.
TakeOldSlot(n) == queue' = [queue EXCEPT ![minIdx] = n]

TakeSlot(n) == queue' = [queue EXCEPT ![minIdx'] = n]

\* The table is full: the node takes the slot of the minimum, which becomes
\* cold and is pruned when it is a leaf.
EnterEvict(c) ==
  /\ root # Null
  /\ queueFull
  /\ CallMade(c)
  /\ FindVictim
  /\ \E n \in Blocks :
       LET victim == queue[minIdx']
           lv     == live \cup {n}
           mon    == (monitored \cup {n}) \ {victim}
       IN  /\ ColdNode(stack[stackIdx], c, n)
           /\ Attach(stack[stackIdx], c, n)
           /\ Push(n)
           /\ counter' = [counter EXCEPT ![n] = min' + 1]
           /\ monitored' = mon
           /\ live' = lv \ Pruned(victim, root, lv, parent', mon)
           /\ TakeSlot(n)
  /\ UNCHANGED <<root, numItems, queueFull>>

\* The stack is empty: hcct_init creates the tree, and resets the stack index
\* that was already incremented.  The new node goes into slot stackIdx = 0.
EnterUninitialised(c) ==
  /\ EventsOutsideTrace
  /\ root = Null
  /\ aux_phase # "tracing"
  /\ CallMade(c)
  /\ \E r, n \in Blocks :
       /\ r # n
       /\ r = NewBlock
       /\ n = CHOOSE b \in Blocks : b # r
       /\ FreshTree(r)
       /\ live' = {r, n}
       /\ monitored' = {r, n}
       /\ parent' = [parent EXCEPT ![r] = Null, ![n] = r]
       /\ callOf' = [callOf EXCEPT ![n] = c]
       /\ counter' = [counter EXCEPT ![r] = 1, ![n] = 1]
       /\ stackIdx' = 0
       /\ stack' = [stack EXCEPT ![0] = n]
       /\ queue' = [queue EXCEPT ![0] = r, ![1] = n]
       /\ numItems' = 2
       /\ queueFull' = (2 = Epsilon)
       /\ aux_ctx' = [aux_ctx EXCEPT ![r] = <<>>, ![n] = <<c>>]

HcctEnter(c) ==
  EnterHot(c) \/ EnterAdmit(c) \/ EnterEvict(c) \/ EnterUninitialised(c)

-----------------------------------------------------------------------------
(* hcct_exit: the index is decremented modulo 2^16, whatever it is.         *)

HcctExit ==
  /\ aux_frames # <<>>
  /\ aux_frames' = SubSeq(aux_frames, 1, Len(aux_frames) - 1)
  /\ stackIdx' = IF stackIdx = 0 THEN IdxMax ELSE stackIdx - 1
  /\ UNCHANGED treeVars /\ UNCHANGED queueVars
  /\ UNCHANGED <<stack, aux_phase, aux_ctx, aux_freq, aux_events>>

-----------------------------------------------------------------------------
(* hcct_dump, called by trace_end, aux_pthread_create and pthread_exit.    *)
(* The functions active at that point never return.                        *)

HcctDump ==
  /\ aux_phase = "tracing"
  /\ aux_phase' = "ended"
  /\ root' = Null
  /\ live' = {}
  /\ monitored' = {}
  /\ stackIdx' = 0
  /\ stack' = [stack EXCEPT ![0] = Null]
  /\ aux_frames' = <<>>
  /\ aux_freq' = [x \in Contexts |-> 0]
  /\ UNCHANGED queueVars
  /\ UNCHANGED <<parent, callOf, counter, aux_ctx, aux_events>>

-----------------------------------------------------------------------------
Init ==
  /\ root = Null
  /\ live = {}
  /\ parent = [b \in Blocks |-> Null]
  /\ callOf = [b \in Blocks |-> Null]
  /\ counter = [b \in Blocks |-> 0]
  /\ monitored = {}
  /\ stack = [i \in 0 .. StackMaxDepth - 1 |-> Null]
  /\ stackIdx = 0
  /\ queue = [i \in Slots |-> Null]
  /\ numItems = 0
  /\ queueFull = FALSE
  /\ min = 0
  /\ minIdx = 0
  /\ secondMinIdx = 0
  /\ aux_phase = "before"
  /\ aux_frames = <<>>
  /\ aux_ctx = [b \in Blocks |-> <<>>]
  /\ aux_freq = [x \in Contexts |-> 0]
  /\ aux_events = 0

Next == HcctInit \/ HcctExit \/ HcctDump \/ \E c \in Calls : HcctEnter(c)

Spec == Init /\ [][Next]_vars

-----------------------------------------------------------------------------
(* Properties.                                                             *)

TreeTypeOK ==
  /\ root \in Blocks \cup {Null}
  /\ live \subseteq Blocks
  /\ parent \in [Blocks -> Blocks \cup {Null}]
  /\ callOf \in [Blocks -> Calls \cup {Null}]
  /\ counter \in [Blocks -> Nat]
  /\ monitored \subseteq live

StackTypeOK ==
  /\ stack \in [0 .. StackMaxDepth - 1 -> Blocks \cup {Null}]
  /\ stackIdx \in 0 .. IdxMax

QueueTypeOK ==
  /\ queue \in [Slots -> Blocks \cup {Null}]
  /\ numItems \in Nat
  /\ queueFull \in BOOLEAN
  /\ min \in Nat
  /\ minIdx \in Slots
  /\ secondMinIdx \in Slots

HistoryTypeOK ==
  /\ aux_phase \in {"before", "tracing", "ended"}
  /\ aux_frames \in Contexts
  /\ aux_ctx \in [Blocks -> Contexts]
  /\ aux_freq \in [Contexts -> Nat]
  /\ aux_events \in Nat

TypeOK == TreeTypeOK /\ StackTypeOK /\ QueueTypeOK /\ HistoryTypeOK

\* The stack of nodes mirrors the stack of calls.  No node on it was pruned or
\* reused for another context, however often the queue evicted nodes in between:
\* at each depth it holds the live node of the context that is active there,
\* a child of the one below.
StackMirrorsCalls ==
  root # Null =>
    /\ stackIdx = Len(aux_frames)
    /\ \A i \in 0 .. stackIdx :
         /\ stack[i] \in live
         /\ aux_ctx[stack[i]] = SubSeq(aux_frames, 1, i)
         /\ i > 0 => parent[stack[i]] = stack[i - 1]

\* The queue holds each monitored node exactly once and nothing else: no slot
\* points to a node that was pruned, no monitored node is without a slot.
QueueHoldsMonitored ==
  root # Null =>
    /\ numItems \in 1 .. Epsilon
    /\ queueFull = (numItems = Epsilon)
    /\ monitored = {queue[i] : i \in 0 .. numItems - 1}
    /\ \A i, j \in 0 .. numItems - 1 : queue[i] = queue[j] => i = j

\* Pruning is complete: a node that is not monitored is kept only as long as
\* it leads to another node.
NoColdLeaf ==
  \A n \in live \ (monitored \cup {root}) : Children(n, live, parent) # {}

\* The nodes form a tree under the root, and no calling context has two nodes,
\* however often its node was pruned and created again.
TreeOfContexts ==
  root # Null =>
    /\ root \in live /\ parent[root] = Null /\ aux_ctx[root] = <<>>
    /\ \A n \in live \ {root} : /\ parent[n] \in live
                                /\ aux_ctx[n] = Append(aux_ctx[parent[n]], callOf[n])
    /\ \A m, n \in live : aux_ctx[m] = aux_ctx[n] => m = n

\* The tree exists between hcct_init and hcct_dump.
Lifecycle ==
  /\ root # Null <=> aux_phase = "tracing"
  /\ root = Null => aux_frames = <<>> /\ live = {}

\* The inductive invariant, for events inside the trace and a queue longer than 1.
IInv == /\ TypeOK /\ Lifecycle /\ StackMirrorsCalls /\ QueueHoldsMonitored
        /\ NoColdLeaf /\ TreeOfContexts

\* Space Saving, the contexts that are not: a context entered more often than
\* 1/Epsilon of the events is monitored.
HotMonitored ==
  root # Null => \A x \in Contexts :
     aux_freq[x] * Epsilon > aux_events + 1 => \E n \in monitored : aux_ctx[n] = x

-----------------------------------------------------------------------------
(* The lazy priority queue is an implementation of Space Saving.           *)

NodeOf(x) == CHOOSE n \in monitored : aux_ctx[n] = x

SS == INSTANCE SpaceSaving WITH
        Items <- Contexts,
        OpenCount <- 1,
        count <- [x \in {aux_ctx[n] : n \in monitored} |-> counter[NodeOf(x)]],
        freq  <- aux_freq

ImplementsSpaceSaving == SS!Spec
=============================================================================
