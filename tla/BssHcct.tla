------------------------------ MODULE BssHcct ------------------------------
(***************************************************************************)
(* The hot calling context tree under Space Saving, as built by            *)
(* thesis/trace_analyzer/src/bss-hcct.c from the events of a trace.  The   *)
(* monitored nodes lie in buckets, one for each value of a counter, in     *)
(* increasing order; buckets form a doubly linked list, and so do the      *)
(* nodes of each of them.  The victim of an eviction is the first node of  *)
(* the first bucket.                                                       *)
(*                                                                         *)
(* A context never has two nodes, so that a node is the calling context it *)
(* stands for, and stack[i] is the node of the first i active calls.       *)
(***************************************************************************)
EXTENDS CallingContexts, FiniteSets

CONSTANTS Buckets,    \* bound: the buckets the pool can hand out
          Null,       \* the null pointer
          Epsilon,    \* epsilon: how many nodes may be monitored
          MaxEvents   \* bound: enter events of a trace

ConstantsAssumption ==
  /\ Null \notin Contexts \cup Buckets
  /\ Epsilon \in Nat \ {0}
  /\ MaxEvents \in Nat

VARIABLES
  hcct,       \* node |-> its bucket, bss_next and bss_prev; the domain is the tree
  bucket,     \* bucket |-> its counter, node, next and prev
  bfirst,     \* bfirst
  numc,       \* numc
  numb,       \* numb
  top,        \* stack[stack_idx]
  \* History, read by no operation of the analyzer:
  aux_freq,   \* how often each context was entered
  aux_events  \* enter events so far

vars == <<hcct, bucket, bfirst, numc, numb, top, aux_freq, aux_events>>

Nodes     == DOMAIN hcct
Monitored == {x \in Nodes : hcct[x].bucket # Null}

\* pool_alloc of a bucket.
NewBucket(B) == CHOOSE n \in Buckets : n \notin B

Children(x, T) == {y \in T : y # Root /\ Caller(y) = x}

-----------------------------------------------------------------------------
(* The tree.                                                               *)

\* The tree, with a node for x.
WithNode(x) ==
  [y \in Nodes \cup {x} |->
     IF y \in Nodes THEN hcct[y] ELSE [bucket |-> Null, next |-> Null, prev |-> Null]]

\* Mutant of Pruned: prune does not call itself on the parent.
PrunedAlone(x, h) == {x}

\* The nodes that prune(x) frees: x, and from its parent upwards those that
\* become leaves and are not monitored.
Pruned(x, h) ==
  {y \in DOMAIN h : /\ y # Root /\ LeadsTo(y, x)
                    /\ \A i \in Len(y) .. Len(x) - 1 :
                         /\ h[Prefix(x, i)].bucket = Null
                         /\ Children(Prefix(x, i), DOMAIN h) = {Prefix(x, i + 1)}}

-----------------------------------------------------------------------------
(* rtn_enter: a node becomes monitored.  q is [hcct |-> .., bucket |-> ..,   *)
(* bfirst |-> .., numc |-> .., numb |-> ..] on the way.                      *)

\* Mutant of Dropped: inner nodes are freed like leaves.
DroppedInner(r, h) == [y \in DOMAIN h \ Pruned(r, h) |-> h[y]]

\* The victim loses its place, and its node where it has no children.
Dropped(r, h) ==
  IF Children(r, DOMAIN h) # {}
  THEN [h EXCEPT ![r].bucket = Null]
  ELSE [y \in DOMAIN h \ Pruned(r, h) |-> h[y]]

\* x takes the place of the first node in the first bucket.
Replace(x, q) ==
  LET r == q.bucket[q.bfirst].node
      s == q.hcct[r].next
      h == [q.hcct EXCEPT ![x] = [bucket |-> q.bfirst, next |-> s, prev |-> Null]]
      l == IF s = Null THEN h ELSE [h EXCEPT ![s].prev = x]
  IN  [q EXCEPT !.hcct = Dropped(r, l), !.bucket[q.bfirst].node = x]

\* x is put in front of the first bucket.
Admit(x, q) ==
  LET r == q.bucket[q.bfirst].node
  IN  [q EXCEPT !.hcct = [@ EXCEPT ![x] = [bucket |-> q.bfirst, next |-> r, prev |-> Null],
                                   ![r].prev = x],
                !.bucket[q.bfirst].node = x,
                !.numc = @ + 1]

\* Mutant of Monitor: the dummy root is not counted.
MonitorOneMore(x, q) ==
  IF q.hcct[x].bucket # Null THEN q
  ELSE IF q.numc > Epsilon THEN Replace(x, q) ELSE Admit(x, q)

Monitor(x, q) ==
  IF q.hcct[x].bucket # Null THEN q
  ELSE IF q.numc = Epsilon THEN Replace(x, q) ELSE Admit(x, q)

-----------------------------------------------------------------------------
(* rtn_enter: the counter of a monitored node, that is, its bucket.          *)

\* Mutant of Detach: the next node keeps pointing back to x.
DetachForward(x, q) ==
  LET p == q.hcct[x].prev
      s == q.hcct[x].next
      h == [y \in DOMAIN q.hcct |->
              IF y = x THEN [q.hcct[x] EXCEPT !.next = Null, !.prev = Null]
              ELSE IF y = p THEN [q.hcct[y] EXCEPT !.next = s]
              ELSE q.hcct[y]]
  IN  IF p # Null THEN [q EXCEPT !.hcct = h]
      ELSE [q EXCEPT !.hcct = h, !.bucket[q.hcct[x].bucket].node = s]

\* x is taken from the list of its bucket.
Detach(x, q) ==
  LET p == q.hcct[x].prev
      s == q.hcct[x].next
      h == [y \in DOMAIN q.hcct |->
              IF y = x THEN [q.hcct[x] EXCEPT !.next = Null, !.prev = Null]
              ELSE IF y = p THEN [q.hcct[y] EXCEPT !.next = s]
              ELSE IF y = s THEN [q.hcct[y] EXCEPT !.prev = p]
              ELSE q.hcct[y]]
  IN  IF p # Null THEN [q EXCEPT !.hcct = h]
      ELSE [q EXCEPT !.hcct = h, !.bucket[q.hcct[x].bucket].node = s]

\* x gets a bucket of its own behind b.
InNewBucket(x, b, q) ==
  LET new  == NewBucket(DOMAIN q.bucket)
      succ == q.bucket[b].next
  IN  [q EXCEPT !.hcct[x].bucket = new,
                !.bucket = [n \in DOMAIN @ \cup {new} |->
                   IF n = new THEN [counter |-> @[b].counter + 1, node |-> x,
                                    next |-> succ, prev |-> b]
                   ELSE IF n = b THEN [@[n] EXCEPT !.next = new]
                   ELSE IF n = succ THEN [@[n] EXCEPT !.prev = new]
                   ELSE @[n]],
                !.numb = @ + 1]

\* x is put in front of the next bucket.
InNextBucket(x, bplus, q) ==
  LET s == q.bucket[bplus].node
  IN  [q EXCEPT !.hcct = [@ EXCEPT ![x].next = s, ![x].bucket = bplus, ![s].prev = x],
                !.bucket[bplus].node = x]

Advance(x, b, q) ==
  LET bplus == q.bucket[b].next
  IN  IF bplus = Null \/ q.bucket[bplus].counter # q.bucket[b].counter + 1
      THEN InNewBucket(x, b, q)
      ELSE InNextBucket(x, bplus, q)

\* A bucket without nodes is removed.
Vacate(b, q) ==
  IF q.bucket[b].node # Null THEN q
  ELSE LET p == q.bucket[b].prev
           s == q.bucket[b].next
       IN  [q EXCEPT !.bucket = [n \in DOMAIN @ \ {b} |->
                        IF n = p THEN [@[n] EXCEPT !.next = s]
                        ELSE IF n = s THEN [@[n] EXCEPT !.prev = p]
                        ELSE @[n]],
                     !.bfirst = IF p = Null THEN s ELSE @,
                     !.numb = @ - 1]

Increment(x, q) ==
  LET b == q.hcct[x].bucket
  IN  Vacate(b, Advance(x, b, Detach(x, q)))

-----------------------------------------------------------------------------
RtnEnter(c) ==
  LET x == Append(top, c)
      q == Increment(x, Monitor(x, [hcct |-> WithNode(x), bucket |-> bucket,
                                    bfirst |-> bfirst, numc |-> numc, numb |-> numb]))
  IN  /\ Len(top) < StackMaxDepth
      /\ aux_events < MaxEvents
      /\ bfirst # Null
      /\ top' = x
      /\ hcct' = q.hcct
      /\ bucket' = q.bucket
      /\ bfirst' = q.bfirst
      /\ numc' = q.numc
      /\ numb' = q.numb
      /\ aux_freq' = [aux_freq EXCEPT ![x] = @ + 1]
      /\ aux_events' = aux_events + 1

RtnExit ==
  /\ top # Root
  /\ top' = Caller(top)
  /\ UNCHANGED <<hcct, bucket, bfirst, numc, numb, aux_freq, aux_events>>

\* init, before the driver reads the trace.
InitTree ==
  /\ bfirst = Null
  /\ bfirst' = NewBucket({})
  /\ bucket' = [n \in {bfirst'} |-> [counter |-> 0, node |-> Root, next |-> Null, prev |-> Null]]
  /\ hcct' = [x \in {Root} |-> [bucket |-> bfirst', next |-> Null, prev |-> Null]]
  /\ numc' = 1
  /\ numb' = 1
  /\ UNCHANGED <<top, aux_freq, aux_events>>

Init ==
  /\ hcct = [x \in {} |-> Null]
  /\ bucket = [n \in {} |-> Null]
  /\ bfirst = Null
  /\ numc = 0
  /\ numb = 0
  /\ top = Root
  /\ aux_freq = [x \in Contexts |-> 0]
  /\ aux_events = 0

Next == InitTree \/ RtnExit \/ \E c \in Calls : RtnEnter(c)

Spec == Init /\ [][Next]_vars

-----------------------------------------------------------------------------
(* Properties.                                                             *)

NodeRecord   == [bucket : Buckets \cup {Null}, next : Contexts \cup {Null},
                 prev : Contexts \cup {Null}]
BucketRecord == [counter : Nat, node : Contexts, next : Buckets \cup {Null},
                 prev : Buckets \cup {Null}]

\* Every variable has its type; no bucket is empty.
TypeOK ==
  /\ Nodes \subseteq Contexts /\ \A x \in Nodes : hcct[x] \in NodeRecord
  /\ DOMAIN bucket \subseteq Buckets /\ \A b \in DOMAIN bucket : bucket[b] \in BucketRecord
  /\ bfirst \in DOMAIN bucket \cup {Null}
  /\ numc \in Nat
  /\ numb \in Nat
  /\ top \in Contexts
  /\ aux_freq \in [Contexts -> Nat]
  /\ aux_events \in Nat

\* The buckets form one doubly linked list that starts at bfirst, with counters
\* that increase, and no bucket is lost.
BucketsOrdered ==
  /\ numb = Cardinality(DOMAIN bucket)
  /\ \A b \in DOMAIN bucket :
       LET s == bucket[b].next  p == bucket[b].prev
       IN  /\ s # Null => /\ s \in DOMAIN bucket /\ bucket[s].prev = b
                          /\ bucket[b].counter < bucket[s].counter
           /\ p # Null => p \in DOMAIN bucket /\ bucket[p].next = b
           /\ p = Null <=> b = bfirst

\* The nodes on the list of bucket b, as far as numc steps lead.
Listed(b) ==
  LET walk[i \in 0 .. numc] ==
        IF i = 0 THEN bucket[b].node
        ELSE IF walk[i - 1] = Null THEN Null ELSE hcct[walk[i - 1]].next
  IN  {walk[i] : i \in 0 .. numc}

\* However nodes and buckets are unlinked and linked again: each monitored node is
\* on the list of its bucket and on no other, all links lead to nodes that still
\* exist, and numc counts them.
ListsHoldMonitored ==
  bfirst # Null =>
    /\ BucketsOrdered
    /\ numc = Cardinality(Monitored) /\ numc <= Epsilon
    /\ \A b \in DOMAIN bucket :
         Listed(b) = {x \in Monitored : hcct[x].bucket = b} \cup {Null}
    /\ \A x \in Monitored :
         /\ hcct[x].next # Null => hcct[hcct[x].next].prev = x
         /\ hcct[x].prev = Null <=> bucket[hcct[x].bucket].node = x

\* No node of an active call is ever freed, although its counter may be taken; yet
\* pruning is complete: nodes that are not monitored lead to monitored ones.
TreeIsPruned ==
  bfirst # Null =>
    /\ \A i \in 0 .. Len(top) : Prefix(top, i) \in Nodes
    /\ \A x \in Nodes \ (Monitored \cup {Root}) : Children(x, Nodes) # {}

Count(x) == bucket[hcct[x].bucket].counter

-----------------------------------------------------------------------------
(* The buckets are an implementation of Space Saving.                      *)

SS == INSTANCE SpaceSaving WITH
        Items <- Contexts,
        OpenCount <- 0,
        count <- [x \in Monitored |-> Count(x)],
        freq  <- aux_freq

ImplementsSpaceSaving == SS!Spec
=============================================================================
