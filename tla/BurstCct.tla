------------------------------ MODULE BurstCct ------------------------------
(***************************************************************************)
(* The calling context tree of one thread (testing/profiler/cct.c) under   *)
(* adaptive bursting (testing/profiler/frequency_bursting.c).  A timer     *)
(* switches burst_on.  Every event maintains the shadow stack, but only    *)
(* those that find burst_on set update the tree, and the first one after a *)
(* pause realigns the stack of tree nodes with the shadow stack.           *)
(*                                                                         *)
(* The tree never loses a node, so a node is the calling context it stands *)
(* for.  Each handler reads burst_on once: a switch of the timer in the    *)
(* middle of a handler is one before or one after it.                      *)
(***************************************************************************)
EXTENDS CallingContexts

CONSTANTS Null,               \* the null pointer
          IdxMax,             \* largest UINT16, where _TLS_cct_stack_idx wraps around
          EventsOutsideTrace, \* do events occur before trace_begin / after trace_end?
          MaxEvents           \* bound: enter events of a trace

ASSUME ConstantsAssumption ==
  /\ Null \notin Contexts
  /\ StackMaxDepth \in Nat \ {0, 1}
  /\ IdxMax \in Nat /\ StackMaxDepth <= IdxMax
  /\ EventsOutsideTrace \in BOOLEAN
  /\ MaxEvents \in Nat

VARIABLES
  counter,      \* node |-> node->counter; its domain is the tree
  stack,        \* _TLS_cct_stack
  stackIdx,     \* _TLS_cct_stack_idx, a UINT16
  shadow,       \* _TLS_shadow_stack, up to _TLS_shadow_stack_idx
  aligned,      \* _TLS_aligned
  burstOn,      \* burst_on
  events,       \* _TLS_exhaustive_enter_events
  \* History, read by no action of the profiler:
  aux_phase,    \* "before", "tracing", "ended" and "crashed"
  aux_frames,   \* the calls that are active in the traced thread and may return
  aux_freq,     \* how often each context was entered during the trace,
  aux_sampled   \* and how often of these while burst_on was set

treeVars   == <<counter, stack, stackIdx>>
shadowVars == <<shadow, aligned, events>>
auxVars    == <<aux_phase, aux_frames, aux_freq, aux_sampled>>
vars       == <<treeVars, shadowVars, burstOn, auxVars>>

Slots    == 0 .. StackMaxDepth - 1
Nodes    == DOMAIN counter
NoTree   == [x \in {} |-> 0]

-----------------------------------------------------------------------------
(* The tree.                                                               *)

\* Mutant of Counted: new nodes start at 0.
CountedFromZero(X) ==
  [x \in Nodes \cup X |-> IF x \notin Nodes THEN 0
                          ELSE IF x \in X THEN counter[x] + 1
                          ELSE counter[x]]

\* hcct_enter once for each context of X: new nodes start at 1.
Counted(X) ==
  [x \in Nodes \cup X |-> IF x \notin Nodes THEN 1
                          ELSE IF x \in X THEN counter[x] + 1
                          ELSE counter[x]]

\* hcct_enter on an initialised tree.
EnterNode(c) ==
  LET node == Append(stack[stackIdx], c) IN
  /\ counter' = Counted({node})
  /\ stackIdx' = stackIdx + 1
  /\ stack' = [stack EXCEPT ![stackIdx + 1] = node]

\* hcct_enter without a tree: hcct_init creates the root and resets the index,
\* so that the new node takes the root's place in the stack.
EnterWithoutTree(c) ==
  /\ counter' = [x \in {Root, <<c>>} |-> 1]
  /\ stackIdx' = 0
  /\ stack' = [stack EXCEPT ![0] = <<c>>]

\* Node i of the path of the shadow stack s below the bottom of the stack.
PathNode(s, i) == stack[0] \o Prefix(s, i)

\* Mutant of PathUpdates: UPDATE_ALONG_TREE = 1.
PathUpdatesAlongTree(s) == {PathNode(s, i) : i \in 1 .. Len(s)}

\* Mutant of PathUpdates: only the current routine.
PathUpdatesTop(s) == {PathNode(s, Len(s))}

\* The contexts for which hcct_align calls hcct_enter: the current one and
\* those of its callers that are not in the tree yet.
PathUpdates(s) ==
  {PathNode(s, i) : i \in {j \in 1 .. Len(s) : j = Len(s) \/ PathNode(s, j) \notin Nodes}}

HcctAlign(s) ==
  /\ counter' = Counted(PathUpdates(s))
  /\ stackIdx' = Len(s)
  /\ stack' = [i \in Slots |-> IF i \in 1 .. Len(s) THEN PathNode(s, i) ELSE stack[i]]

-----------------------------------------------------------------------------
(* The timer thread, which init_bursting creates.                          *)

Toggle == /\ aux_phase \in {"tracing", "ended"}
          /\ burstOn' = ~burstOn
          /\ UNCHANGED treeVars /\ UNCHANGED shadowVars /\ UNCHANGED auxVars

-----------------------------------------------------------------------------
(* trace_begin, or aux_pthread_create: hcct_init and, the first time,      *)
(* init_bursting, which sets burst_on; a later thread finds it either way. *)

TraceBegin ==
  /\ aux_phase = "before"
  /\ aux_frames = <<>>
  /\ aux_phase' = "tracing"
  /\ burstOn' \in BOOLEAN
  /\ counter' = [x \in {Root} |-> 1]
  /\ stackIdx' = 0
  /\ stack' = [stack EXCEPT ![0] = Root]
  /\ shadow' = <<>>
  /\ aligned' = TRUE
  /\ events' = 0
  /\ UNCHANGED <<aux_frames, aux_freq, aux_sampled>>

-----------------------------------------------------------------------------
(* __cyg_profile_func_enter.                                               *)

\* The environment: call c is made.
CallMade(c) ==
  /\ events < MaxEvents
  /\ Len(shadow) + 1 < StackMaxDepth
  /\ aux_phase \in {"tracing"} \cup (IF EventsOutsideTrace THEN {"before", "ended"} ELSE {})
  /\ events' = events + 1
  /\ shadow' = Append(shadow, c)
  /\ aux_frames' = Append(aux_frames, c)
  /\ IF aux_phase = "tracing"
     THEN /\ aux_freq' = [aux_freq EXCEPT ![aux_frames'] = @ + 1]
          /\ aux_sampled' = IF burstOn THEN [aux_sampled EXCEPT ![aux_frames'] = @ + 1]
                                       ELSE aux_sampled
     ELSE UNCHANGED <<aux_freq, aux_sampled>>

\* burst_on is not set.
EnterUnsampled(c) ==
  /\ ~burstOn
  /\ CallMade(c)
  /\ aligned' = FALSE
  /\ UNCHANGED treeVars
  /\ UNCHANGED <<burstOn, aux_phase>>

EnterSampled(c) ==
  /\ burstOn
  /\ aligned
  /\ stackIdx + 1 < StackMaxDepth
  /\ CallMade(c)
  /\ IF stack[stackIdx] = Null THEN EnterWithoutTree(c) ELSE EnterNode(c)
  /\ UNCHANGED <<aligned, burstOn, aux_phase>>

\* The first event of a burst.
EnterAlign(c) ==
  /\ burstOn
  /\ ~aligned
  /\ stack[0] # Null
  /\ CallMade(c)
  /\ HcctAlign(shadow')
  /\ aligned' = TRUE
  /\ UNCHANGED <<burstOn, aux_phase>>

\* hcct_align without a tree: it searches for callers among the children of
\* stack[0], which is NULL; without callers it just calls hcct_enter.
EnterAlignWithoutTree(c) ==
  /\ burstOn
  /\ ~aligned
  /\ stack[0] = Null
  /\ CallMade(c)
  /\ IF Len(shadow') = 1
     THEN /\ EnterWithoutTree(c)
          /\ aligned' = TRUE
          /\ UNCHANGED aux_phase
     ELSE /\ aux_phase' = "crashed"
          /\ UNCHANGED treeVars
          /\ UNCHANGED aligned
  /\ UNCHANGED burstOn

Enter(c) == \/ EnterUnsampled(c)
            \/ EnterSampled(c)
            \/ EnterAlign(c)
            \/ EnterAlignWithoutTree(c)

-----------------------------------------------------------------------------
(* __cyg_profile_func_exit.                                                *)

\* Mutant of Realign: an exit during a pause is not noticed.
RealignNever == UNCHANGED aligned

\* What an exit makes of _TLS_aligned.
Realign == aligned' = (aligned /\ burstOn)

Exit ==
  /\ aux_phase # "crashed"
  /\ aux_frames # <<>>
  /\ aux_frames' = Caller(aux_frames)
  /\ shadow' = Caller(shadow)
  /\ Realign
  /\ stackIdx' = IF ~burstOn \/ ~aligned THEN stackIdx
                 ELSE IF stackIdx = 0 THEN IdxMax ELSE stackIdx - 1
  /\ UNCHANGED <<counter, stack, events, burstOn, aux_phase, aux_freq, aux_sampled>>

-----------------------------------------------------------------------------
(* trace_end, pthread_exit or the return of the thread: hcct_dump.  The    *)
(* functions active at that point never return, but stay on the shadow     *)
(* stack.                                                                  *)

HcctDump ==
  /\ aux_phase = "tracing"
  /\ aux_phase' = "ended"
  /\ counter' = NoTree
  /\ stackIdx' = 0
  /\ stack' = [stack EXCEPT ![0] = Null]
  /\ aux_frames' = <<>>
  /\ UNCHANGED shadowVars
  /\ UNCHANGED <<burstOn, aux_freq, aux_sampled>>

-----------------------------------------------------------------------------
Init ==
  /\ counter = NoTree
  /\ stack = [i \in Slots |-> Null]
  /\ stackIdx = 0
  /\ shadow = <<>>
  /\ aligned = FALSE
  /\ burstOn = FALSE
  /\ events = 0
  /\ aux_phase = "before"
  /\ aux_frames = <<>>
  /\ aux_freq = [x \in Contexts |-> 0]
  /\ aux_sampled = [x \in Contexts |-> 0]

Next == TraceBegin \/ Toggle \/ Exit \/ HcctDump \/ \E c \in Calls : Enter(c)

Spec == Init /\ [][Next]_vars

-----------------------------------------------------------------------------
(* Properties.                                                             *)

\* Every variable of the profiler and every history variable has its type.
TypeOK ==
  /\ Nodes \subseteq Contexts
  /\ \A x \in Nodes : counter[x] \in Nat \ {0}
  /\ stack \in [Slots -> Contexts \cup {Null}]
  /\ stackIdx \in 0 .. IdxMax
  /\ shadow \in Contexts
  /\ aligned \in BOOLEAN
  /\ burstOn \in BOOLEAN
  /\ events \in Nat
  /\ aux_phase \in {"before", "tracing", "ended", "crashed"}
  /\ aux_frames \in Contexts
  /\ aux_freq \in [Contexts -> Nat]
  /\ aux_sampled \in [Contexts -> Nat]

\* Between trace_begin and trace_end _TLS_aligned tells the truth: whatever
\* calls and returns a pause of the timer hid, an aligned stack holds the node
\* of each active context at its depth, and the shadow stack is always right.
AlignedStackMirrorsCalls ==
  aux_phase = "tracing" =>
    /\ shadow = aux_frames
    /\ aligned => /\ stackIdx = Len(shadow)
                  /\ \A i \in 0 .. stackIdx : /\ stack[i] = Prefix(shadow, i)
                                              /\ stack[i] \in Nodes

\* The tree has no gaps: hcct_align creates the callers a burst has missed.
CallersInTree ==
  \A x \in Nodes \ {Root} : Caller(x) \in Nodes

CountOf(x) == IF x \in Nodes THEN counter[x] ELSE 0

\* Sampling neither invents nor loses: a context's counter is at most the number
\* of its activations, and at least the number of those during bursts.  With
\* bursts that never pause, the tree is exact.
SampledCounts ==
  aux_phase = "tracing" =>
    \A x \in Contexts \ {Root} : aux_sampled[x] <= CountOf(x) /\ CountOf(x) <= aux_freq[x]

\* The tree is that of a sample of the calls: without gaps, with counts between
\* those of the bursts and those of the whole run.
TreeIsSampled == CallersInTree /\ SampledCounts

\* "for instance, after trace_end() some events may still occur!" (hcct_dump):
\* they are survived. They are not if one starts a burst (cct.c:173, README); where no
\* event comes outside the trace this is a theorem (Profiler_proofs).
NoNullDereference == aux_phase # "crashed"
=============================================================================
