-------------------------- MODULE TraceTrees_proofs --------------------------
(***************************************************************************)
(* What holds of the trees that the trace analyzer builds, for every set   *)
(* of calls, every depth of the stack, every epsilon and all increments:   *)
(*  - Lossy Counting (lc-hcct.c): what lc_prune drops is rare, and what    *)
(*    write_output leaves is not;                                          *)
(*  - bursts (burst.c): the tree is that of a sample of the trace;         *)
(*  - Space Saving with a lazy queue (lss-hcct.c): the queue holds the     *)
(*    monitored nodes, and their counters are bounded;                     *)
(*  - Space Saving with buckets (bss-hcct.c): the linked lists hold the    *)
(*    monitored nodes, and implement the abstract Space Saving.            *)
(***************************************************************************)
EXTENDS MCTraceTrees, CallingContexts_proofs, FiniteSetTheorems, WellFoundedInduction

-----------------------------------------------------------------------------
\* prune never removes a node that it is told to keep.
LEMMA NeededKeeps ==
  ASSUME NEW M, NEW x \in Contexts, x \in M
  PROVE  x \in Needed(M)
<1>1. Len(x) \in Nat
  BY ContextsAreSequences
<1>2. LeadsTo(x, x)
  BY <1>1, WholePrefix DEF LeadsTo
<1>3. QED
  BY <1>2 DEF Needed

-----------------------------------------------------------------------------
(* The invariant.                                                          *)

\* What holds of counters cnt and deltas dlt after b buckets, if the contexts
\* were entered freq times: they are as accurate as LossyCounting says.
Accurate(cnt, dlt, freq, b) ==
  \A x \in Contexts \ {Root} :
    IF x \in DOMAIN cnt
    THEN cnt[x] <= freq[x] /\ freq[x] <= cnt[x] + dlt[x] /\ dlt[x] <= b
    ELSE freq[x] <= b

\* A node that is not monitored only leads to others: it can go at any time,
\* because its context is rare enough to be forgotten.
Rare(cnt, dlt, mon, b) == \A x \in DOMAIN cnt \ mon : cnt[x] + dlt[x] <= b

\* The counters and deltas are numbers.
Numbers(cnt, dlt) ==
  /\ DOMAIN cnt \subseteq Contexts
  /\ DOMAIN dlt = DOMAIN cnt
  /\ \A x \in DOMAIN cnt : cnt[x] \in Nat \ {0} /\ dlt[x] \in Nat

\* Until the tree is written, so are the nodes that only lead to others.
ColdIsRare == ~written => Rare(counter, delta, monitored, bucket)

\* What every step of lc-hcct.c keeps.
IInv == /\ TypeOK
        /\ StreamLength
        /\ LossyCounting
        /\ ColdIsRare

-----------------------------------------------------------------------------
(* One event.                                                              *)

\* An entry keeps the counters accurate, and makes its node monitored.
LEMMA EntryIsCounted ==
  ASSUME IInv, ~written,
         NEW node \in Contexts, node # Root, NEW inc \in Nat \ {0},
         NEW freq, freq = [aux_freq EXCEPT ![node] = @ + inc]
  PROVE  /\ Numbers(CounterAt(node, inc), DeltaAt(node))
         /\ Accurate(CounterAt(node, inc), DeltaAt(node), freq, bucket)
         /\ Rare(CounterAt(node, inc), DeltaAt(node), monitored \cup {node}, bucket)
<1> DEFINE cnt == CounterAt(node, inc)
           dlt == DeltaAt(node)
<1>1. /\ Nodes \subseteq Contexts /\ DOMAIN delta = Nodes /\ bucket \in Nat
      /\ \A x \in Nodes : counter[x] \in Nat \ {0} /\ delta[x] \in Nat
      /\ aux_freq \in [Contexts -> Nat]
  BY DEF IInv, TypeOK
<1>2. /\ DOMAIN cnt = Nodes \cup {node} /\ DOMAIN dlt = Nodes \cup {node}
      /\ \A x \in Nodes \cup {node} :
           /\ cnt[x] = IF x # node THEN counter[x]
                       ELSE IF x \in Nodes THEN counter[x] + inc ELSE inc
           /\ dlt[x] = IF x \in Nodes THEN delta[x] ELSE bucket
  BY DEF CounterAt, DeltaAt
<1>3. \A x \in Contexts : freq[x] = IF x = node THEN aux_freq[x] + inc ELSE aux_freq[x]
  BY <1>1
<1>4. Accurate(counter, delta, aux_freq, bucket)
  BY DEF IInv, LossyCounting, Accurate, Nodes
<1>5. Rare(counter, delta, monitored, bucket)
  BY DEF IInv, ColdIsRare
<1> HIDE DEF cnt, dlt
<1>6. Numbers(cnt, dlt)
  BY <1>1, <1>2 DEF Numbers
<1>7. Accurate(cnt, dlt, freq, bucket)
  <2> SUFFICES ASSUME NEW x \in Contexts \ {Root}
               PROVE  IF x \in DOMAIN cnt
                      THEN cnt[x] <= freq[x] /\ freq[x] <= cnt[x] + dlt[x] /\ dlt[x] <= bucket
                      ELSE freq[x] <= bucket
    BY DEF Accurate
  <2>1. IF x \in Nodes
        THEN /\ counter[x] <= aux_freq[x] /\ aux_freq[x] <= counter[x] + delta[x]
             /\ delta[x] <= bucket
        ELSE aux_freq[x] <= bucket
    BY <1>4 DEF Accurate, Nodes
  <2>2. aux_freq[x] \in Nat
    BY <1>1
  <2>3. QED
    BY <1>1, <1>2, <1>3, <2>1, <2>2
<1>8. Rare(cnt, dlt, monitored \cup {node}, bucket)
  BY <1>2, <1>5 DEF Rare, Nodes
<1>9. QED
  BY <1>6, <1>7, <1>8 DEF cnt, dlt

\* lc_prune only drops what the end of a bucket has made rare.
LEMMA PruningIsAccurate ==
  ASSUME NEW cnt, NEW dlt, NEW mon, NEW l, NEW cur, NEW freq,
         bucket \in Nat, \A x \in Contexts : freq[x] \in Nat,
         Numbers(cnt, dlt), Accurate(cnt, dlt, freq, bucket), Rare(cnt, dlt, mon, bucket),
         LcPrune(cnt, dlt, mon, l, cur)
  PROVE  /\ Numbers(counter', delta')
         /\ monitored' \subseteq mon
         /\ Accurate(counter', delta', freq, bucket + 1)
         /\ Rare(counter', delta', monitored', bucket + 1)
<1> DEFINE S == Sparse(cnt, dlt, l, cur)
           keep == Needed(mon \ S) \cap DOMAIN cnt
<1>1. \A x \in S : cnt[x] + dlt[x] <= bucket + 1
  BY DEF Sparse
<1>2. /\ monitored' = mon \ S
      /\ counter' = [x \in keep |-> cnt[x]]
      /\ delta' = [x \in keep |-> dlt[x]]
  BY DEF LcPrune
<1>3. keep \subseteq DOMAIN cnt
  OBVIOUS
<1>4. \A x \in DOMAIN cnt : x \in Contexts /\ cnt[x] \in Nat \ {0} /\ dlt[x] \in Nat
  BY DEF Numbers
<1>5. \A x \in DOMAIN cnt \ keep : x \notin mon \ S
  BY <1>4, NeededKeeps
<1> HIDE DEF S, keep
<1>6. \A x \in DOMAIN cnt : x \notin mon \ S => cnt[x] + dlt[x] <= bucket + 1
  <2> SUFFICES ASSUME NEW x \in DOMAIN cnt, x \notin mon \ S
               PROVE  cnt[x] + dlt[x] <= bucket + 1
    OBVIOUS
  <2>1. CASE x \in S
    BY <1>1, <2>1
  <2>2. CASE x \notin mon
    <3>1. cnt[x] + dlt[x] <= bucket
      BY <2>2 DEF Rare
    <3>2. QED
      BY <1>4, <3>1
  <2>3. QED
    BY <2>1, <2>2
<1>7. DOMAIN counter' = keep /\ DOMAIN delta' = keep
  BY <1>2
<1>8. \A x \in keep : counter'[x] = cnt[x] /\ delta'[x] = dlt[x]
  BY <1>2
<1>9. Numbers(counter', delta')
  BY <1>3, <1>4, <1>7, <1>8 DEF Numbers
<1>10. Accurate(counter', delta', freq, bucket + 1)
  <2> SUFFICES ASSUME NEW x \in Contexts \ {Root}
               PROVE  IF x \in keep
                      THEN /\ cnt[x] <= freq[x] /\ freq[x] <= cnt[x] + dlt[x]
                           /\ dlt[x] <= bucket + 1
                      ELSE freq[x] <= bucket + 1
    BY <1>7, <1>8 DEF Accurate
  <2>1. IF x \in DOMAIN cnt
        THEN cnt[x] <= freq[x] /\ freq[x] <= cnt[x] + dlt[x] /\ dlt[x] <= bucket
        ELSE freq[x] <= bucket
    BY DEF Accurate
  <2>2. freq[x] \in Nat
    OBVIOUS
  <2>3. CASE x \in keep
    BY <1>3, <1>4, <2>1, <2>3
  <2>4. CASE x \in DOMAIN cnt \ keep
    <3>1. cnt[x] + dlt[x] <= bucket + 1
      BY <1>5, <1>6, <2>4
    <3>2. QED
      BY <1>4, <2>1, <2>2, <2>4, <3>1
  <2>5. CASE x \notin DOMAIN cnt
    BY <1>3, <2>1, <2>2, <2>5
  <2>6. QED
    BY <2>3, <2>4, <2>5
<1>11. Rare(counter', delta', monitored', bucket + 1)
  BY <1>2, <1>3, <1>6, <1>7, <1>8 DEF Rare
<1>12. QED
  BY <1>2, <1>9, <1>10, <1>11

\* The parts of the invariant that an entry sets.
LEMMA EnterKeeps ==
  ASSUME IInv, NEW c \in Calls, NEW inc \in Increments \cup {1}, RtnEnter(c, inc)
  PROVE  /\ Numbers(counter', delta')
         /\ monitored' \subseteq Contexts
         /\ bucket' \in Nat
         /\ Accurate(counter', delta', aux_freq', bucket')
         /\ Rare(counter', delta', monitored', bucket')
<1> DEFINE node == Append(top, c)
<1>1. inc \in Nat \ {0} /\ StackMaxDepth \in Nat
  BY ConstantsAssumption, DepthAssumption
<1>2. /\ top \in Contexts /\ monitored \subseteq Contexts /\ bucket \in Nat
      /\ aux_freq \in [Contexts -> Nat]
  BY DEF IInv, TypeOK
<1>3. Len(top) < StackMaxDepth /\ ~written /\ aux_freq' = [aux_freq EXCEPT ![node] = @ + inc]
  BY DEF RtnEnter
<1>4. node \in Contexts /\ node # Root
  <2>1. Len(top) \in Nat
    BY <1>2, ContextsAreSequences
  <2>2. Len(top) + 1 <= StackMaxDepth
    BY <1>1, <1>3, <2>1
  <2>3. QED
    BY <1>2, <2>2, AppendContext
<1>5. \/ LcPrune(CounterAt(node, inc), DeltaAt(node), monitored \cup {node}, ListAt(node), node)
      \/ /\ counter' = CounterAt(node, inc)
         /\ delta' = DeltaAt(node)
         /\ monitored' = monitored \cup {node}
         /\ bucket' = bucket
  BY DEF RtnEnter
<1> HIDE DEF node
<1>6. /\ Numbers(CounterAt(node, inc), DeltaAt(node))
      /\ Accurate(CounterAt(node, inc), DeltaAt(node), aux_freq', bucket)
      /\ Rare(CounterAt(node, inc), DeltaAt(node), monitored \cup {node}, bucket)
  BY <1>1, <1>3, <1>4, EntryIsCounted
<1>7. \A x \in Contexts : aux_freq'[x] \in Nat
  BY <1>1, <1>2, <1>3, <1>4
<1>8. CASE LcPrune(CounterAt(node, inc), DeltaAt(node), monitored \cup {node}, ListAt(node), node)
  <2>1. /\ Numbers(counter', delta')
        /\ monitored' \subseteq monitored \cup {node}
        /\ Accurate(counter', delta', aux_freq', bucket + 1)
        /\ Rare(counter', delta', monitored', bucket + 1)
    BY <1>2, <1>6, <1>7, <1>8, PruningIsAccurate
  <2>2. bucket' = bucket + 1
    BY <1>8 DEF LcPrune
  <2>3. QED
    BY <1>2, <1>4, <2>1, <2>2
<1>9. CASE /\ counter' = CounterAt(node, inc)
           /\ delta' = DeltaAt(node)
           /\ monitored' = monitored \cup {node}
           /\ bucket' = bucket
  BY <1>2, <1>4, <1>6, <1>9
<1>10. QED
  BY <1>5, <1>8, <1>9

\* An increment is spread over the end of one bucket and the start of the next.
\* (It may exceed Epsilon: index is then left beyond the end of its bucket.)
LEMMA EnterCountsStream ==
  ASSUME IInv, NEW c \in Calls, NEW inc \in Increments \cup {1}, RtnEnter(c, inc)
  PROVE  index' \in Nat /\ aux_weight' \in Nat /\ StreamLength'
<1>1. inc \in Nat /\ Epsilon \in Nat
  BY ConstantsAssumption, DepthAssumption
<1>2. /\ index \in Nat /\ bucket \in Nat /\ aux_weight \in Nat
      /\ bucket * Epsilon + index = aux_weight + 1
  BY DEF IInv, TypeOK, StreamLength
<1>3. /\ index' = IF index + inc >= Epsilon THEN index + inc - Epsilon ELSE index + inc
      /\ aux_weight' = aux_weight + inc
  <2>1. index' = NextIndex(index + inc)
    BY DEF RtnEnter
  <2>2. aux_weight' = aux_weight + inc
    BY DEF RtnEnter
  <2>3. QED
    BY <1>1, <1>2, <2>1, <2>2 DEF NextIndex
<1>4. bucket' = IF index + inc >= Epsilon THEN bucket + 1 ELSE bucket
  BY DEF RtnEnter, LcPrune
<1>5. (bucket + 1) * Epsilon = bucket * Epsilon + Epsilon /\ bucket * Epsilon \in Nat
  BY <1>1, <1>2
<1>6. index' \in Nat /\ aux_weight' \in Nat
  BY <1>1, <1>2, <1>3
<1>7. CASE index + inc >= Epsilon
  <2>1. bucket' * Epsilon = bucket * Epsilon + Epsilon
    BY <1>4, <1>5, <1>7
  <2>2. index' = index + inc - Epsilon
    BY <1>3, <1>7
  <2> DEFINE p == bucket * Epsilon
             q == bucket' * Epsilon
  <2>3. p \in Nat /\ q = p + Epsilon /\ p + index = aux_weight + 1
    BY <1>2, <1>5, <2>1
  <2> HIDE DEF p, q
  <2>4. q + index' = aux_weight' + 1
    BY <1>1, <1>2, <1>3, <2>2, <2>3
  <2>5. QED
    BY <1>6, <2>4 DEF q, StreamLength
<1>8. CASE ~ index + inc >= Epsilon
  <2> DEFINE p == bucket * Epsilon
             q == bucket' * Epsilon
  <2>1. p \in Nat /\ q = p /\ p + index = aux_weight + 1 /\ index' = index + inc
    BY <1>2, <1>3, <1>4, <1>5, <1>8
  <2> HIDE DEF p, q
  <2>2. q + index' = aux_weight' + 1
    BY <1>1, <1>2, <1>3, <2>1
  <2>3. QED
    BY <1>6, <2>2 DEF q, StreamLength
<1>9. QED
  BY <1>7, <1>8

-----------------------------------------------------------------------------
(* Every step.                                                             *)

\* initialize gives the dummy root a counter, and nothing else a node.
LEMMA InitInv == Init => IInv
<1> SUFFICES ASSUME Init PROVE IInv
  OBVIOUS
<1>1. Root \in Contexts
  BY RootContext
<1>2. Nodes = {Root} /\ monitored = {Root} /\ counter[Root] = 1 /\ delta[Root] = 0
  BY DEF Init, Nodes
<1>3. TypeOK
  <2>1. aux_freq \in [Contexts -> Nat] /\ aux_weight \in Nat /\ written \in BOOLEAN /\ bursting \in BOOLEAN
    BY DEF Init
  <2>2. DOMAIN delta = Nodes /\ bucket \in Nat /\ index \in Nat /\ top \in Contexts
    BY <1>1, <1>2 DEF Init
  <2>3. QED
    BY <1>1, <1>2, <2>1, <2>2 DEF TypeOK
<1>4. StreamLength
  BY ConstantsAssumption, DepthAssumption DEF Init, StreamLength
<1>5. LossyCounting
  BY <1>2 DEF Init, LossyCounting
<1>6. ColdIsRare
  BY <1>2 DEF Init, ColdIsRare, Rare, Nodes
<1>7. QED
  BY <1>3, <1>4, <1>5, <1>6 DEF IInv

\* Each operation of lc-hcct.c keeps the invariant.
LEMMA NextInv == IInv /\ [Next]_vars => IInv'
<1> SUFFICES ASSUME IInv, [Next]_vars PROVE IInv'
  OBVIOUS
<1>1. CASE RtnExit
  <2>1. top' \in Contexts
    BY <1>1, CallerProperties DEF IInv, TypeOK, RtnExit
  <2>2. TypeOK'
    BY <1>1, <2>1 DEF IInv, TypeOK, RtnExit, Nodes
  <2>3. StreamLength' /\ LossyCounting' /\ ColdIsRare'
    BY <1>1 DEF IInv, StreamLength, LossyCounting, ColdIsRare, RtnExit, Nodes, Rare
  <2>4. QED
    BY <2>2, <2>3 DEF IInv
<1>2. CASE BurstStart
  <2>1. Root \in Contexts
    BY RootContext
  <2>2. TypeOK'
    BY <1>2, <2>1 DEF IInv, TypeOK, BurstStart, Nodes
  <2>3. StreamLength' /\ LossyCounting' /\ ColdIsRare'
    BY <1>2 DEF IInv, StreamLength, LossyCounting, ColdIsRare, BurstStart, Nodes, Rare
  <2>4. QED
    BY <2>2, <2>3 DEF IInv
<1>3. CASE WriteOutput
  <2> DEFINE keep == Needed(Frequent) \cap Nodes
  <2>1. /\ written' = TRUE
        /\ counter' = [x \in keep |-> counter[x]]
        /\ delta' = [x \in keep |-> delta[x]]
        /\ UNCHANGED <<monitored, bucket, index, top, bursting, aux_freq, aux_weight>>
    BY <1>3 DEF WriteOutput
  <2>2. keep \subseteq Nodes
    OBVIOUS
  <2> HIDE DEF keep
  <2>3. TypeOK'
    BY <2>1, <2>2 DEF IInv, TypeOK, Nodes
  <2>4. StreamLength' /\ LossyCounting' /\ ColdIsRare'
    BY <2>1 DEF IInv, StreamLength, LossyCounting, ColdIsRare
  <2>5. QED
    BY <2>3, <2>4 DEF IInv
<1>4. ASSUME NEW c \in Calls, NEW inc \in Increments \cup {1}, RtnEnter(c, inc)
      PROVE  IInv'
  <2>1. /\ Numbers(counter', delta') /\ monitored' \subseteq Contexts /\ bucket' \in Nat
        /\ Accurate(counter', delta', aux_freq', bucket')
        /\ Rare(counter', delta', monitored', bucket')
    BY <1>4, EnterKeeps
  <2>2. index' \in Nat /\ aux_weight' \in Nat /\ StreamLength'
    BY <1>4, EnterCountsStream
  <2>3. top' \in Contexts
    <3>1. top \in Contexts /\ Len(top) \in Nat /\ StackMaxDepth \in Nat
      BY ContextsAreSequences, ConstantsAssumption, DepthAssumption DEF IInv, TypeOK
    <3>2. Len(top) + 1 <= StackMaxDepth /\ top' = Append(top, c)
      BY <1>4, <3>1 DEF RtnEnter
    <3>3. QED
      BY <3>1, <3>2, AppendContext
  <2>4. aux_freq' \in [Contexts -> Nat] /\ written' \in BOOLEAN /\ bursting' \in BOOLEAN
    <3>1. /\ aux_freq \in [Contexts -> Nat] /\ inc \in Nat
          /\ written \in BOOLEAN /\ bursting \in BOOLEAN
      BY ConstantsAssumption, DepthAssumption DEF IInv, TypeOK
    <3>2. /\ aux_freq' = [aux_freq EXCEPT ![Append(top, c)] = @ + inc]
          /\ written' = written /\ bursting' = bursting
      BY <1>4, Zenon DEF RtnEnter
    <3>3. \A x \in Contexts : aux_freq[x] + inc \in Nat
      BY <3>1
    <3>4. QED
      BY <3>1, <3>2, <3>3
  <2>5. TypeOK'
    BY <2>1, <2>2, <2>3, <2>4 DEF TypeOK, Numbers, Nodes
  <2>6. LossyCounting'
    BY <2>1 DEF LossyCounting, Accurate, Nodes
  <2>7. ColdIsRare'
    BY <2>1 DEF ColdIsRare, Rare
  <2>8. QED
    BY <2>2, <2>5, <2>6, <2>7 DEF IInv
<1>5. CASE UNCHANGED vars
  BY <1>5 DEF IInv, TypeOK, StreamLength, LossyCounting, ColdIsRare, Rare, Nodes, vars
<1>6. QED
  BY <1>1, <1>2, <1>3, <1>4, <1>5 DEF Next

-----------------------------------------------------------------------------
(* Theorems.                                                               *)

\* So it always holds.
LEMMA Invariance == Spec => []IInv
<1>1. QED
  BY InitInv, NextInv, PTL DEF Spec

\* Every variable keeps its type: counters of nodes are never 0, whatever
\* lc_prune and write_output remove.
THEOREM TypeCorrectness == Spec => []TypeOK
<1>1. IInv => TypeOK
  BY DEF IInv
<1>2. QED
  BY <1>1, Invariance, PTL

\* rtn_enter and rtn_enter_wc cut the stream into buckets of epsilon events:
\* none is lost where an increment crosses the end of a bucket.
THEOREM StreamIsCounted == Spec => []StreamLength
<1>1. IInv => StreamLength
  BY DEF IInv
<1>2. QED
  BY <1>1, Invariance, PTL

\* The guarantee of Lossy Counting survives what rtn_enter and lc_prune add to
\* the algorithm: nodes that stay in the tree for their children only, and
\* become monitored again with the counter and the delta they had.
THEOREM CountersAreAccurate == Spec => []LossyCounting
<1>1. IInv => LossyCounting
  BY DEF IInv
<1>2. QED
  BY <1>1, Invariance, PTL

-----------------------------------------------------------------------------
(* The tree that is left, and the tree that is written.                    *)

\* A context leads to itself, and leads on.
LEMMA LeadsToIsOrder ==
  /\ \A x \in Contexts : LeadsTo(x, x)
  /\ \A x, y, z \in Contexts : LeadsTo(x, y) /\ LeadsTo(y, z) => LeadsTo(x, z)
<1>1. \A x \in Contexts : Len(x) \in Nat
  BY ContextsAreSequences
<1>2. \A x \in Contexts : LeadsTo(x, x)
  BY <1>1, WholePrefix DEF LeadsTo
<1>3. ASSUME NEW x \in Contexts, NEW y \in Contexts, NEW z \in Contexts,
             LeadsTo(x, y), LeadsTo(y, z)
      PROVE  LeadsTo(x, z)
  <2> DEFINE i == Len(y)
             j == Len(x)
  <2>1. /\ i \in 0 .. Len(z) /\ j \in 0 .. i /\ j <= Len(z)
        /\ Prefix(z, i) = y /\ Prefix(y, j) = x
    BY <1>1, <1>3 DEF LeadsTo
  <2> HIDE DEF i, j
  <2>2. Prefix(Prefix(z, i), j) = Prefix(z, j)
    BY <2>1, PrefixOfPrefix
  <2>3. Prefix(z, j) = x
    BY <2>1, <2>2
  <2>4. QED
    BY <2>1, <2>3 DEF LeadsTo, j
<1>4. QED
  BY <1>2, <1>3

\* What leads to a call of s is that call, or leads to s.
LEMMA LeadsToCall ==
  ASSUME NEW s \in Contexts, NEW c \in Calls, Len(s) + 1 <= StackMaxDepth,
         NEW x \in Contexts
  PROVE  LeadsTo(x, Append(s, c)) <=> x = Append(s, c) \/ LeadsTo(x, s)
<1> DEFINE t == Append(s, c)
           j == Len(x)
<1>1. t \in Contexts /\ Len(t) = Len(s) + 1 /\ Len(s) \in Nat /\ j \in Nat
  BY AppendContext, ContextsAreSequences
<1>2. \A i \in 0 .. Len(s) : Prefix(t, i) = Prefix(s, i)
  BY PrefixOfAppend
<1> HIDE DEF t, j
<1>3. CASE j <= Len(s)
  <2>1. j \in 0 .. Len(s) /\ j <= Len(t) /\ x # t
    BY <1>1, <1>3 DEF j
  <2>2. QED
    BY <1>2, <1>3, <2>1 DEF LeadsTo, j, t
<1>4. CASE j > Len(s)
  <2>1. ~ (j <= Len(s))
    BY <1>1, <1>4
  <2>2. Prefix(t, Len(t)) = t
    BY <1>1, WholePrefix
  <2>3. LeadsTo(x, t) <=> x = t
    <3>1. ASSUME LeadsTo(x, t) PROVE x = t
      <4>1. j <= Len(t) /\ Prefix(t, j) = x
        BY <3>1 DEF LeadsTo, j
      <4>2. j = Len(t)
        BY <1>1, <1>4, <4>1
      <4>3. QED
        BY <2>2, <4>1, <4>2
    <3>2. QED
      BY <1>1, <3>1, LeadsToIsOrder
  <2>4. QED
    BY <2>1, <2>3 DEF LeadsTo, j, t
<1>5. QED
  BY <1>1, <1>3, <1>4

\* The tree has no cold leaf: it holds the root and what leads to a monitored node.
Spans(mon, nodes) == mon \subseteq Contexts /\ nodes = Needed(mon)

\* No node is there that does not lead to a monitored one.
TreeIsNeeded == ~written => Spans(monitored, Nodes)

\* An event keeps it so: the new node hangs below the current one, and prune
\* removes all that lc_prune leaves without a monitored descendant.
LEMMA EnterSpans ==
  ASSUME IInv, TreeIsNeeded,
         NEW c \in Calls, NEW inc \in Increments \cup {1}, RtnEnter(c, inc)
  PROVE  TreeIsNeeded'
<1> DEFINE node == Append(top, c)
           mon == monitored \cup {node}
           cnt == CounterAt(node, inc)
           dlt == DeltaAt(node)
<1>1. ~written /\ top \in Nodes /\ Len(top) < StackMaxDepth
  BY DEF RtnEnter
<1>2. monitored \subseteq Contexts /\ Nodes = Needed(monitored) /\ top \in Contexts
  BY <1>1 DEF TreeIsNeeded, Spans, IInv, TypeOK
<1>3. Len(top) + 1 <= StackMaxDepth
  BY <1>1, <1>2, ContextsAreSequences, DepthAssumption
<1>4. node \in Contexts /\ \A x \in Contexts : LeadsTo(x, node) <=> x = node \/ LeadsTo(x, top)
  BY <1>2, <1>3, AppendContext, LeadsToCall
<1>5. DOMAIN cnt = Nodes \cup {node}
  BY DEF CounterAt
<1>6. Spans(mon, Nodes \cup {node})
  <2>1. ASSUME NEW x \in Nodes \cup {node}
        PROVE  x \in Needed(mon)
    <3>1. CASE x = node
      BY <1>4, <3>1, LeadsToIsOrder DEF Needed
    <3>2. CASE x \in Nodes
      BY <1>2, <3>2 DEF Needed
    <3>3. QED
      BY <3>1, <3>2
  <2>2. ASSUME NEW x \in Needed(mon), x # node
        PROVE  x \in Nodes
    <3>1. x \in Contexts
      BY DEF Needed
    <3>2. CASE x = Root
      BY <1>2, <3>1, <3>2 DEF Needed
    <3>3. CASE \E y \in monitored : LeadsTo(x, y)
      BY <1>2, <3>1, <3>3 DEF Needed
    <3>4. CASE LeadsTo(x, node)
      <4>1. LeadsTo(x, top)
        BY <1>4, <2>2, <3>1, <3>4
      <4>2. CASE top = Root
        <5>1. Len(Root) = 0 /\ Len(x) \in Nat /\ Prefix(Root, 0) = Root
          BY <3>1, RootContext, WholePrefix, ContextsAreSequences DEF Root
        <5>2. Len(x) = 0
          BY <4>1, <4>2, <5>1 DEF LeadsTo
        <5>3. x = Root
          BY <4>1, <4>2, <5>1, <5>2 DEF LeadsTo
        <5>4. QED
          BY <3>2, <5>3
      <4>3. CASE top # Root
        <5>1. PICK y \in monitored : LeadsTo(top, y)
          BY <1>1, <1>2, <4>3 DEF Needed
        <5>2. LeadsTo(x, y)
          BY <1>2, <3>1, <4>1, <5>1, LeadsToIsOrder
        <5>3. QED
          BY <3>3, <5>2
      <4>4. QED
        BY <4>2, <4>3
    <3>5. QED
      BY <3>2, <3>3, <3>4 DEF Needed
  <2>3. mon \subseteq Contexts
    BY <1>2, <1>4
  <2> HIDE DEF mon
  <2>4. Nodes \cup {node} = Needed(mon)
    BY <2>1, <2>2, <1>4, LeadsToIsOrder
  <2>5. QED
    BY <2>3, <2>4 DEF Spans
<1> HIDE DEF node, mon, cnt, dlt
<1>7. \/ counter' = cnt /\ monitored' = mon
      \/ LcPrune(cnt, dlt, mon, ListAt(node), node)
  BY Zenon DEF RtnEnter, node, mon, cnt, dlt
<1>8. CASE counter' = cnt /\ monitored' = mon
  BY <1>5, <1>6, <1>8 DEF TreeIsNeeded, Nodes
<1>9. CASE LcPrune(cnt, dlt, mon, ListAt(node), node)
  <2> DEFINE S == Sparse(cnt, dlt, ListAt(node), node)
             keep == Needed(mon \ S) \cap DOMAIN cnt
  <2>1. monitored' = mon \ S /\ counter' = [x \in keep |-> cnt[x]]
    BY <1>9 DEF LcPrune
  <2> HIDE DEF S
  <2>2. Needed(mon \ S) \subseteq Needed(mon)
    BY DEF Needed
  <2>3. keep = Needed(mon \ S)
    BY <1>5, <1>6, <2>2 DEF Spans
  <2>4. DOMAIN counter' = keep
    BY <2>1
  <2> HIDE DEF keep
  <2>5. Spans(monitored', DOMAIN counter')
    BY <1>6, <2>1, <2>3, <2>4 DEF Spans
  <2>6. QED
    BY <2>5 DEF TreeIsNeeded, Nodes
<1>10. QED
  BY <1>7, <1>8, <1>9

\* finalPrune keeps what is frequent, and only that as leaves.
LEMMA WriteIsHot ==
  ASSUME IInv, TreeIsNeeded, aux_freq[Root] = 0, WriteOutput
  PROVE  OutputIsHot'
<1> DEFINE keep == Needed(Frequent) \cap Nodes
           q == aux_weight \div Phi
<1>1. ~written /\ counter' = [x \in keep |-> counter[x]]
      /\ UNCHANGED <<bucket, aux_freq, aux_weight>>
  BY DEF WriteOutput
<1>2. monitored \subseteq Contexts /\ Nodes = Needed(monitored) /\ Nodes \subseteq Contexts
  BY <1>1 DEF TreeIsNeeded, Spans, Needed
<1>3. /\ \A x \in Contexts : aux_freq[x] \in Nat
      /\ bucket \in Nat /\ q \in Int
      /\ \A x \in Nodes : counter[x] \in Nat /\ delta[x] \in Nat
  BY ConstantsAssumption DEF IInv, TypeOK
<1>4. \A x \in Contexts \ {Root} :
        IF x \in Nodes
        THEN /\ counter[x] <= aux_freq[x]
             /\ aux_freq[x] <= counter[x] + delta[x]
             /\ delta[x] <= bucket
        ELSE aux_freq[x] <= bucket
  BY <1>1 DEF IInv, LossyCounting
<1>5. \A x \in Nodes \ monitored : counter[x] + delta[x] <= bucket
  BY <1>1 DEF IInv, ColdIsRare, Rare, Nodes
<1>6. Nodes' = keep
  BY <1>1 DEF Nodes
<1>7. Frequent = {x \in monitored : counter[x] + delta[x] >= q}
  BY DEF Frequent
<1>8. monitored \subseteq Nodes
  BY <1>2, NeededKeeps
<1> HIDE DEF keep, q
<1>9. ASSUME NEW x \in Contexts, aux_freq[x] > 0, aux_freq[x] >= q, aux_freq[x] > bucket
      PROVE  x \in keep
  <2>1. x # Root
    BY <1>3, <1>9, RootContext
  <2>2. x \in Nodes /\ aux_freq[x] <= counter[x] + delta[x]
    BY <1>3, <1>4, <1>9, <2>1
  <2>3. x \in monitored
    BY <1>3, <1>5, <1>9, <2>2
  <2>4. x \in Frequent
    BY <1>3, <1>7, <1>9, <2>2, <2>3
  <2>5. QED
    BY <2>2, <2>4, NeededKeeps DEF keep
<1>10. ASSUME NEW x \in keep, x # Root, \A y \in keep : ~ (y # x /\ LeadsTo(x, y))
       PROVE  aux_freq[x] + bucket >= q
  <2>1. x \in Contexts /\ x \in Nodes
    BY <1>2, <1>10 DEF keep
  <2>2. PICK y \in Frequent : LeadsTo(x, y)
    BY <1>10 DEF keep, Needed
  <2>3. y \in Nodes /\ y \in Contexts
    BY <1>2, <1>7, <1>8, <2>2
  <2>4. y \in keep
    BY <2>2, <2>3, NeededKeeps DEF keep
  <2>5. y = x
    BY <1>10, <2>2, <2>4
  <2>6. counter[x] + delta[x] >= q
    BY <1>7, <2>2, <2>5
  <2>7. counter[x] <= aux_freq[x] /\ delta[x] <= bucket
    BY <1>4, <1>10, <2>1
  <2>8. QED
    BY <1>3, <2>1, <2>6, <2>7
<1>11. /\ \A x \in Contexts : aux_freq[x] > 0 /\ aux_freq[x] >= q /\ aux_freq[x] > bucket => x \in keep
       /\ \A x \in keep \ {Root} : \/ \E y \in keep : y # x /\ LeadsTo(x, y)
                                   \/ aux_freq[x] + bucket >= q
  BY <1>9, <1>10
<1>12. QED
  BY <1>1, <1>6, <1>11 DEF OutputIsHot, q

\* The inductive invariant of the tree and the output.
OInv == /\ IInv
        /\ TreeIsNeeded
        /\ aux_freq[Root] = 0
        /\ OutputIsHot

\* Before the first event the tree is the root.
LEMMA InitHot == Init => OInv
<1> SUFFICES ASSUME Init PROVE OInv
  OBVIOUS
<1>1. IInv
  BY InitInv
<1>2. Needed({Root}) = {Root}
  <2>1. Root \in Contexts /\ Len(Root) = 0 /\ Prefix(Root, 0) = Root
    BY RootContext, WholePrefix DEF Root
  <2>2. ASSUME NEW x \in Contexts, LeadsTo(x, Root)
        PROVE  x = Root
    <3>1. Len(x) \in Nat
      BY ContextsAreSequences
    <3>2. Len(x) = 0 /\ Prefix(Root, Len(x)) = x
      BY <2>1, <2>2, <3>1 DEF LeadsTo
    <3>3. QED
      BY <2>1, <3>2
  <2>3. QED
    BY <2>1, <2>2 DEF Needed
<1>3. TreeIsNeeded
  BY <1>2, RootContext DEF Init, TreeIsNeeded, Spans, Nodes
<1>4. aux_freq[Root] = 0 /\ ~written
  BY RootContext DEF Init
<1>5. QED
  BY <1>1, <1>3, <1>4 DEF OInv, OutputIsHot

\* Every step preserves it.
LEMMA NextHot ==
  ASSUME OInv, [Next]_vars
  PROVE  OInv'
<1>1. IInv /\ IInv' /\ TreeIsNeeded
  BY NextInv DEF OInv
<1>2. CASE RtnExit \/ BurstStart
  <2>1. UNCHANGED <<counter, monitored, written, bucket, aux_freq, aux_weight>> /\ ~written
    BY <1>2 DEF RtnExit, BurstStart
  <2>2. QED
    BY <1>1, <2>1 DEF OInv, TreeIsNeeded, OutputIsHot, Nodes
<1>3. CASE WriteOutput
  <2>1. OutputIsHot'
    BY <1>1, <1>3, WriteIsHot DEF OInv
  <2>2. aux_freq' = aux_freq /\ written'
    BY <1>3 DEF WriteOutput
  <2>3. QED
    BY <1>1, <2>1, <2>2 DEF OInv, TreeIsNeeded
<1>4. ASSUME NEW c \in Calls, NEW inc \in Increments \cup {1}, RtnEnter(c, inc)
      PROVE  OInv'
  <2>1. TreeIsNeeded'
    BY <1>1, <1>4, EnterSpans
  <2>2. ~written'
    BY <1>4, Zenon DEF RtnEnter
  <2>3. aux_freq'[Root] = 0
    <3> DEFINE node == Append(top, c)
    <3>1. Len(top) < StackMaxDepth /\ top \in Contexts
      BY <1>1, <1>4, Zenon DEF RtnEnter, IInv, TypeOK
    <3>2. Len(top) + 1 <= StackMaxDepth
      BY <3>1, ContextsAreSequences, DepthAssumption
    <3>3. node # Root
      BY <3>1, <3>2, AppendContext
    <3>4. aux_freq' = [aux_freq EXCEPT ![node] = @ + inc]
      BY <1>4, Zenon DEF RtnEnter
    <3>5. aux_freq \in [Contexts -> Nat]
      BY <1>1 DEF IInv, TypeOK
    <3> HIDE DEF node
    <3>6. QED
      BY <3>3, <3>4, <3>5, RootContext DEF OInv
  <2>4. QED
    BY <1>1, <2>1, <2>2, <2>3 DEF OInv, OutputIsHot
<1>5. CASE UNCHANGED vars
  BY <1>1, <1>5 DEF OInv, TreeIsNeeded, OutputIsHot, Nodes, vars
<1>6. QED
  BY <1>2, <1>3, <1>4, <1>5 DEF Next

\* lc_prune, with the prune of the parents that it calls, leaves exactly the
\* nodes that lead to a monitored one.
THEOREM PruningLeavesNeeded == Spec => []TreeIsNeeded
<1>1. OInv => TreeIsNeeded
  BY DEF OInv
<1>2. QED
  BY <1>1, InitHot, NextHot, PTL DEF Spec

\* The tree that write_output dumps has every context which makes up 1/Phi of
\* the stream, and no leaf that falls short of it by more than the number of buckets.
THEOREM OutputHasHotContexts == Spec => []OutputIsHot
<1>1. OInv => OutputIsHot
  BY DEF OInv
<1>2. QED
  BY <1>1, InitHot, NextHot, PTL DEF Spec

-----------------------------------------------------------------------------
(* TraceBurst: bursts are short, and the tree is that of a sample, for      *)
(* every sampling rate and every length of bursts that init_burst takes.    *)

\* A multiple leaves no remainder.
LEMMA MultipleMod ==
  ASSUME NEW d \in Nat \ {0}, NEW q \in Nat
  PROVE  (q * d) % d = 0
<1> DEFINE k == (q * d) \div d
           r == (q * d) % d
<1>1. q * d \in Nat
  OBVIOUS
<1>2. k \in Int /\ r \in 0 .. d - 1 /\ q * d = d * k + r
  BY <1>1
<1> HIDE DEF k, r
<1>3. r = d * (q - k)
  BY <1>2
<1>4. CASE q - k >= 1
  <2>1. d * (q - k) >= d
    BY <1>2, <1>4
  <2>2. QED BY <1>2, <1>3, <2>1
<1>5. CASE q - k <= -1
  <2>1. d * (q - k) <= -d
    BY <1>2, <1>5
  <2>2. QED BY <1>2, <1>3, <2>1
<1>6. CASE q - k = 0
  BY <1>3, <1>6 DEF r
<1>7. QED BY <1>2, <1>4, <1>5, <1>6

\* Where a number lies between two multiples.
LEMMA BetweenMultiples ==
  ASSUME NEW d \in Nat \ {0}, NEW t \in Nat \ {0}
  PROVE  \E q \in Nat : q * d < t /\ t <= q * d + d
<1> DEFINE q == (t - 1) \div d
           r == (t - 1) % d
<1>1. t - 1 \in Nat
  OBVIOUS
<1>2. q \in Int /\ r \in 0 .. d - 1 /\ t - 1 = d * q + r
  BY <1>1
<1>3. q \in Nat
  BY <1>1
<1> HIDE DEF q, r
<1>4. d * q = q * d
  BY <1>2
<1>5. q * d \in Nat
  BY <1>3
<1>6. QED BY <1>2, <1>3, <1>4, <1>5

-----------------------------------------------------------------------------
(* The parts of the invariant.                                             *)

\* The types of TraceBurst, and of what its specification only counts with.
BurstTypes ==
  /\ Burst!TypeOK
  /\ sampling_rate \in Nat \ {0} /\ burst_duration \in Nat \ {0}
  /\ aux_sampled \in [Contexts -> Nat]
  /\ aux_walks \in Nat /\ aux_age \in Nat

\* A burst is younger than the last multiple of burst_duration that was counted.
BurstIsYoung ==
  bursting_on = "YES" =>
    \E q \in Nat : /\ q * burst_duration + aux_age < tick_counter
                   /\ tick_counter <= q * burst_duration + burst_duration

\* There were p sampling points, and no more walks; one is still to come where a
\* burst is requested.
WalksAreRequested ==
  /\ num_bursts <= aux_walks
  /\ bursting_on = "MAYBE" => tick_counter >= 1
  /\ \E p \in Nat : /\ tick_counter <= p * sampling_rate
                    /\ p * sampling_rate < tick_counter + sampling_rate
                    /\ aux_walks <= p
                    /\ bursting_on = "MAYBE" => aux_walks + 1 <= p

\* What holds of counters cnt if bursts have seen the calls smp and there were w walks.
Sampled(cnt, smp, w) ==
  \A x \in Contexts \ {Root} :
    IF x \in DOMAIN cnt THEN smp[x] <= cnt[x] /\ cnt[x] <= smp[x] + w ELSE smp[x] = 0

\* What every step of burst.c keeps.
BurstInv == /\ BurstTypes
            /\ Burst!BurstFollowsCalls
            /\ BurstIsYoung
            /\ WalksAreRequested
            /\ Sampled(burstCounter, aux_sampled, aux_walks)

-----------------------------------------------------------------------------
(* The walk of the shadow stack.                                           *)

\* The instance of TraceBurst is about the same contexts.
LEMMA SameContexts ==
  /\ Burst!Contexts = Contexts /\ Burst!Root = Root
  /\ \A x, i : Burst!Prefix(x, i) = Prefix(x, i)
  /\ \A x : Burst!Caller(x) = Caller(x)
  BY DEF Burst!Contexts, Contexts, Burst!Root, Root, Burst!Prefix, Prefix, Burst!Caller, Caller

\* The frames of the shadow stack are contexts, each with all of its callers.
LEMMA FramesProperties ==
  ASSUME NEW s \in Contexts
  PROVE  /\ Burst!Frames(s, 0) \subseteq Contexts /\ s \in Burst!Frames(s, 0)
         /\ Burst!Frames(s, 0) = Burst!Frames(s, 1) \cup {Root}
         /\ \A x \in Burst!Frames(s, 0) : Burst!Frames(x, 0) \subseteq Burst!Frames(s, 0)
<1>1. Len(s) \in Nat
  BY ContextsAreSequences
<1>2. Burst!Frames(s, 0) = {Prefix(s, k) : k \in 0 .. Len(s)}
  BY SameContexts DEF Burst!Frames
<1>3. Burst!Frames(s, 1) = {Prefix(s, k) : k \in 1 .. Len(s)}
  BY SameContexts DEF Burst!Frames
<1>4. Burst!Frames(s, 0) \subseteq Contexts
  BY <1>2, PrefixProperties
<1>5. s \in Burst!Frames(s, 0)
  BY <1>1, <1>2, WholePrefix
<1>6. Burst!Frames(s, 0) = Burst!Frames(s, 1) \cup {Root}
  <2>1. 0 .. Len(s) = {0} \cup 1 .. Len(s)
    BY <1>1
  <2>2. Prefix(s, 0) = Root
    BY WholePrefix
  <2>3. QED BY <1>2, <1>3, <2>1, <2>2
<1>7. ASSUME NEW x \in Burst!Frames(s, 0) PROVE Burst!Frames(x, 0) \subseteq Burst!Frames(s, 0)
  <2>1. PICK k \in 0 .. Len(s) : x = Prefix(s, k)
    BY <1>2
  <2>2. Len(x) = k
    BY <2>1, PrefixProperties
  <2>3. ASSUME NEW j \in 0 .. Len(x) PROVE Prefix(x, j) \in Burst!Frames(s, 0)
    <3>1. j \in 0 .. k /\ j \in 0 .. Len(s)
      BY <1>1, <2>2
    <3>2. Prefix(x, j) = Prefix(s, j)
      BY <2>1, <3>1, PrefixOfPrefix
    <3>3. QED BY <1>2, <3>1, <3>2
  <2>4. Burst!Frames(x, 0) = {Prefix(x, j) : j \in 0 .. Len(x)}
    BY SameContexts DEF Burst!Frames
  <2>5. QED BY <2>3, <2>4
<1>8. QED BY <1>4, <1>5, <1>6, <1>7

\* A call has the frames of its caller, and its own.
LEMMA FramesOfCall ==
  ASSUME NEW s \in Contexts, NEW c \in Calls, Len(s) < StackMaxDepth
  PROVE  /\ Append(s, c) \in Contexts /\ Append(s, c) # Root
         /\ Burst!Frames(Append(s, c), 0) = Burst!Frames(s, 0) \cup {Append(s, c)}
<1> DEFINE x == Append(s, c)
<1>1. Len(s) \in Nat /\ StackMaxDepth \in Nat
  BY ContextsAreSequences, DepthAssumption
<1>2. x \in Contexts /\ x # Root /\ Len(x) = Len(s) + 1
  BY <1>1, AppendContext
<1> HIDE DEF x
<1>3. Burst!Frames(x, 0) = {Prefix(x, k) : k \in 0 .. Len(s) + 1}
  BY <1>2, SameContexts DEF Burst!Frames
<1>4. Burst!Frames(s, 0) = {Prefix(s, k) : k \in 0 .. Len(s)}
  BY SameContexts DEF Burst!Frames
<1>5. \A k \in 0 .. Len(s) : Prefix(x, k) = Prefix(s, k)
  BY PrefixOfAppend DEF x
<1>6. Prefix(x, Len(s) + 1) = x
  BY <1>2, WholePrefix
<1>7. 0 .. Len(s) + 1 = 0 .. Len(s) \cup {Len(s) + 1}
  BY <1>1
<1>8. Burst!Frames(x, 0) = Burst!Frames(s, 0) \cup {x}
  BY <1>3, <1>4, <1>5, <1>6, <1>7
<1>9. QED BY <1>2, <1>8 DEF x

\* The tree after the contexts in S were entered has what it had, and these.
LEMMA EnteredTree ==
  ASSUME BurstTypes, NEW S \in SUBSET Contexts
  PROVE  /\ DOMAIN Burst!Entered(S) = Burst!Nodes \cup S
         /\ DOMAIN Burst!Entered(S) \subseteq Contexts
         /\ \A x \in DOMAIN Burst!Entered(S) :
              /\ Burst!Entered(S)[x] \in Nat
              /\ Burst!Entered(S)[x] = (IF x \in Burst!Nodes THEN burstCounter[x] ELSE 0)
                                       + (IF x \in S THEN 1 ELSE 0)
<1>1. Burst!Nodes \subseteq Contexts /\ \A x \in Burst!Nodes : burstCounter[x] \in Nat
  BY SameContexts DEF BurstTypes, Burst!TypeOK
<1>2. /\ DOMAIN Burst!Entered(S) = Burst!Nodes \cup S
      /\ \A x \in Burst!Nodes \cup S :
           Burst!Entered(S)[x] = (IF x \in Burst!Nodes THEN burstCounter[x] ELSE 0)
                                 + (IF x \in S THEN 1 ELSE 0)
  BY DEF Burst!Entered
<1>3. QED BY <1>1, <1>2

\* A walk counts its contexts once at most.
LEMMA WalkIsSampled ==
  ASSUME BurstTypes, Sampled(burstCounter, aux_sampled, aux_walks), NEW S \in SUBSET Contexts
  PROVE  Sampled(Burst!Entered(S), aux_sampled, aux_walks + 1)
<1> DEFINE E == Burst!Entered(S)
<1>1. /\ \A x \in DOMAIN burstCounter : burstCounter[x] \in Nat
      /\ aux_sampled \in [Contexts -> Nat] /\ aux_walks \in Nat
  BY SameContexts DEF BurstTypes, Burst!TypeOK, Burst!Nodes
<1>2. /\ DOMAIN E = DOMAIN burstCounter \cup S
      /\ \A x \in DOMAIN E : E[x] = (IF x \in DOMAIN burstCounter THEN burstCounter[x] ELSE 0)
                                    + (IF x \in S THEN 1 ELSE 0)
  BY EnteredTree DEF Burst!Nodes
<1> HIDE DEF E
<1>3. SUFFICES ASSUME NEW x \in Contexts \ {Root}
               PROVE  IF x \in DOMAIN E
                      THEN aux_sampled[x] <= E[x] /\ E[x] <= aux_sampled[x] + (aux_walks + 1)
                      ELSE aux_sampled[x] = 0
  BY DEF Sampled, E
<1>4. aux_sampled[x] \in Nat
  BY <1>1
<1>5. IF x \in DOMAIN burstCounter
      THEN aux_sampled[x] <= burstCounter[x] /\ burstCounter[x] <= aux_sampled[x] + aux_walks
      ELSE aux_sampled[x] = 0
  BY DEF Sampled
<1>6. QED BY <1>1, <1>2, <1>4, <1>5

\* A tree with all callers of its nodes and of the position has those of what is
\* entered together with its callers.
LEMMA WalkKeepsTree ==
  ASSUME BurstTypes, Burst!BurstFollowsCalls, NEW s \in Contexts,
         NEW S, S \cup {Root} = Burst!Frames(s, 0)
  PROVE  \A x \in DOMAIN Burst!Entered(S) \cup {s} : Burst!Frames(x, 0) \subseteq DOMAIN Burst!Entered(S)
<1>1. Burst!Nodes \subseteq Contexts /\ burstTop \in Contexts
  BY SameContexts DEF BurstTypes, Burst!TypeOK
<1>2. \A x \in Burst!Nodes \cup {burstTop} : Burst!Frames(x, 0) \subseteq Burst!Nodes
  BY DEF Burst!BurstFollowsCalls
<1>3. Root \in Burst!Nodes
  BY <1>1, <1>2, FramesProperties
<1>4. S \in SUBSET Contexts /\ s \in S \cup {Root}
  BY FramesProperties
<1>5. DOMAIN Burst!Entered(S) = Burst!Nodes \cup S
  BY <1>4, EnteredTree
<1>6. DOMAIN Burst!Entered(S) = Burst!Nodes \cup Burst!Frames(s, 0)
  BY <1>3, <1>5
<1>7. s \in Burst!Frames(s, 0) /\ \A x \in Burst!Frames(s, 0) : Burst!Frames(x, 0) \subseteq Burst!Frames(s, 0)
  BY FramesProperties
<1>8. QED BY <1>2, <1>6, <1>7

-----------------------------------------------------------------------------
(* The events and ticks of a trace.                                        *)

\* What the invariant says, without the names of the instance.
LEMMA BurstInvMeans ==
  BurstInv <=>
    /\ bursting_on \in {"NO", "MAYBE", "YES"}
    /\ shadow_stack \in Contexts /\ burstTop \in Contexts
    /\ DOMAIN burstCounter \subseteq Contexts
    /\ \A x \in DOMAIN burstCounter : burstCounter[x] \in Nat
    /\ {num_bursts, num_rtn_enter, num_rtn_exit, tick_counter} \subseteq Nat
    /\ sampling_rate \in Nat \ {0} /\ burst_duration \in Nat \ {0}
    /\ aux_sampled \in [Contexts -> Nat] /\ aux_walks \in Nat /\ aux_age \in Nat
    /\ bursting_on = "YES" => burstTop = shadow_stack
    /\ \A x \in DOMAIN burstCounter \cup {burstTop} :
         Burst!Frames(x, 0) \subseteq DOMAIN burstCounter
    /\ BurstIsYoung /\ WalksAreRequested
    /\ Sampled(burstCounter, aux_sampled, aux_walks)
  BY SameContexts DEF BurstInv, BurstTypes, Burst!TypeOK, Burst!Nodes, Burst!BurstFollowsCalls

\* The same of the next state.
LEMMA BurstInvMeansNext ==
  BurstInv' <=>
    /\ bursting_on' \in {"NO", "MAYBE", "YES"}
    /\ shadow_stack' \in Contexts /\ burstTop' \in Contexts
    /\ DOMAIN burstCounter' \subseteq Contexts
    /\ \A x \in DOMAIN burstCounter' : burstCounter'[x] \in Nat
    /\ {num_bursts', num_rtn_enter', num_rtn_exit', tick_counter'} \subseteq Nat
    /\ sampling_rate' \in Nat \ {0} /\ burst_duration' \in Nat \ {0}
    /\ aux_sampled' \in [Contexts -> Nat] /\ aux_walks' \in Nat /\ aux_age' \in Nat
    /\ bursting_on' = "YES" => burstTop' = shadow_stack'
    /\ \A x \in DOMAIN burstCounter' \cup {burstTop'} :
         Burst!Frames(x, 0) \subseteq DOMAIN burstCounter'
    /\ BurstIsYoung' /\ WalksAreRequested'
    /\ Sampled(burstCounter', aux_sampled', aux_walks')
  BY SameContexts DEF BurstInv, BurstTypes, Burst!TypeOK, Burst!Nodes, Burst!BurstFollowsCalls

\* A routine is entered.
LEMMA PushIsCall ==
  ASSUME BurstInv, NEW c \in Calls, Burst!Push(c)
  PROVE  /\ shadow_stack' = Append(shadow_stack, c)
         /\ shadow_stack' \in Contexts /\ shadow_stack' # Root
         /\ Burst!Frames(shadow_stack', 0) = Burst!Frames(shadow_stack, 0) \cup {shadow_stack'}
         /\ UNCHANGED <<adaptive, sampling_rate, burst_duration, tick_counter, num_rtn_exit>>
<1>1. /\ shadow_stack' = Append(shadow_stack, c) /\ Len(shadow_stack) < StackMaxDepth
      /\ UNCHANGED <<adaptive, sampling_rate, burst_duration, tick_counter, num_rtn_exit>>
  BY DEF Burst!Push, Burst!settings
<1>2. shadow_stack \in Contexts
  BY BurstInvMeans
<1>3. QED BY <1>1, <1>2, FramesOfCall

\* No burst is on, and none is requested.
LEMMA EnterOutsideKeeps ==
  ASSUME BurstInv, NEW c \in Calls, Burst!EnterOutsideBurst(c)
  PROVE  BurstInv'
<1>1. /\ bursting_on = "NO" /\ Burst!Push(c)
      /\ UNCHANGED <<bursting_on, burstTop, burstCounter, num_bursts, num_rtn_enter,
                     aux_sampled, aux_walks, aux_age>>
  BY DEF Burst!EnterOutsideBurst
<1>2. /\ shadow_stack' \in Contexts
      /\ UNCHANGED <<sampling_rate, burst_duration, tick_counter, num_rtn_exit>>
  BY <1>1, PushIsCall
<1>3. BurstIsYoung' /\ WalksAreRequested'
  BY <1>1, <1>2, BurstInvMeans DEF BurstIsYoung, WalksAreRequested
<1>4. QED BY <1>1, <1>2, <1>3, BurstInvMeans, BurstInvMeansNext

\* The routine is entered in the tree, too.
LEMMA EnterInBurstKeeps ==
  ASSUME BurstInv, NEW c \in Calls, Burst!EnterInBurst(c)
  PROVE  BurstInv'
<1> DEFINE x == shadow_stack'
           E == Burst!Entered({x})
<1>1. /\ bursting_on = "YES" /\ Burst!Push(c) /\ burstTop' = Append(burstTop, c)
      /\ burstCounter' = Burst!Entered({burstTop'}) /\ num_rtn_enter' = num_rtn_enter + 1
      /\ aux_sampled' = [aux_sampled EXCEPT ![shadow_stack'] = @ + 1]
      /\ UNCHANGED <<bursting_on, num_bursts, aux_walks, aux_age>>
  BY DEF Burst!EnterInBurst
<1>2. /\ x = Append(shadow_stack, c) /\ x \in Contexts /\ x # Root
      /\ Burst!Frames(x, 0) = Burst!Frames(shadow_stack, 0) \cup {x}
      /\ UNCHANGED <<sampling_rate, burst_duration, tick_counter, num_rtn_exit>>
  BY <1>1, PushIsCall
<1> HIDE DEF x
<1>3. burstTop = shadow_stack /\ burstTop' = x /\ shadow_stack' = x /\ burstCounter' = E
  BY <1>1, <1>2, BurstInvMeans DEF x
<1>4. BurstTypes
  BY DEF BurstInv
<1>5. /\ DOMAIN E = DOMAIN burstCounter \cup {x} /\ DOMAIN E \subseteq Contexts
      /\ \A y \in DOMAIN E :
           /\ E[y] \in Nat
           /\ E[y] = (IF y \in DOMAIN burstCounter THEN burstCounter[y] ELSE 0)
                     + (IF y \in {x} THEN 1 ELSE 0)
  BY <1>2, <1>4, EnteredTree DEF Burst!Nodes
<1> HIDE DEF E
<1>6. \A y \in DOMAIN E \cup {x} : Burst!Frames(y, 0) \subseteq DOMAIN E
  BY <1>2, <1>3, <1>5, BurstInvMeans
<1>7. Sampled(burstCounter', aux_sampled', aux_walks')
  <2>1. aux_sampled \in [Contexts -> Nat] /\ aux_walks \in Nat /\ \A y \in DOMAIN burstCounter : burstCounter[y] \in Nat
    BY BurstInvMeans
  <2>2. \A y \in Contexts : aux_sampled'[y] = aux_sampled[y] + (IF y = x THEN 1 ELSE 0)
    <3>1. aux_sampled' = [aux_sampled EXCEPT ![x] = @ + 1]
      BY <1>1, <1>3
    <3>2. \A y \in Contexts : aux_sampled'[y] = IF y = x THEN aux_sampled[x] + 1 ELSE aux_sampled[y]
      BY <2>1, <3>1
    <3>3. \A y \in Contexts : aux_sampled[y] \in Nat
      BY <2>1
    <3>4. QED BY <3>2, <3>3
  <2>3. SUFFICES ASSUME NEW y \in Contexts \ {Root}
                 PROVE  IF y \in DOMAIN E
                        THEN aux_sampled'[y] <= E[y] /\ E[y] <= aux_sampled'[y] + aux_walks
                        ELSE aux_sampled'[y] = 0
    BY <1>1, <1>3 DEF Sampled
  <2>4. IF y \in DOMAIN burstCounter
        THEN aux_sampled[y] <= burstCounter[y] /\ burstCounter[y] <= aux_sampled[y] + aux_walks
        ELSE aux_sampled[y] = 0
    BY BurstInvMeans DEF Sampled
  <2>5. aux_sampled[y] \in Nat
    BY <2>1
  <2>6. QED BY <1>5, <2>1, <2>2, <2>4, <2>5
<1>8. BurstIsYoung' /\ WalksAreRequested'
  BY <1>1, <1>2, BurstInvMeans DEF BurstIsYoung, WalksAreRequested
<1>9. aux_sampled' \in [Contexts -> Nat]
  BY <1>1, <1>2, <1>3, BurstInvMeans
<1>10. /\ bursting_on' = "YES" /\ shadow_stack' = x /\ burstTop' = x /\ x \in Contexts
       /\ DOMAIN burstCounter' \subseteq Contexts
       /\ \A y \in DOMAIN burstCounter' : burstCounter'[y] \in Nat
       /\ \A y \in DOMAIN burstCounter' \cup {burstTop'} :
            Burst!Frames(y, 0) \subseteq DOMAIN burstCounter'
  BY <1>1, <1>2, <1>3, <1>5, <1>6
<1>11. /\ {num_bursts', num_rtn_enter', num_rtn_exit', tick_counter'} \subseteq Nat
       /\ sampling_rate' \in Nat \ {0} /\ burst_duration' \in Nat \ {0}
       /\ aux_walks' \in Nat /\ aux_age' \in Nat
  BY <1>1, <1>2, BurstInvMeans
<1>12. QED BY <1>7, <1>8, <1>9, <1>10, <1>11, BurstInvMeansNext

\* What a walk leaves that enters S, the frames of s.
LEMMA WalkKeeps ==
  ASSUME BurstInv, NEW c \in Calls, Burst!Push(c), bursting_on = "MAYBE",
         NEW s \in {shadow_stack, shadow_stack'},
         burstCounter' = Burst!Entered(Burst!Frames(s, 1)), burstTop' = s,
         aux_walks' = aux_walks + 1, UNCHANGED aux_sampled
  PROVE  /\ shadow_stack' \in Contexts /\ burstTop' \in Contexts
         /\ DOMAIN burstCounter' \subseteq Contexts
         /\ \A x \in DOMAIN burstCounter' : burstCounter'[x] \in Nat
         /\ \A x \in DOMAIN burstCounter' \cup {burstTop'} :
              Burst!Frames(x, 0) \subseteq DOMAIN burstCounter'
         /\ Sampled(burstCounter', aux_sampled', aux_walks')
<1>1. shadow_stack \in Contexts /\ shadow_stack' \in Contexts
  BY PushIsCall, BurstInvMeans
<1>2. BurstTypes /\ Burst!BurstFollowsCalls /\ Sampled(burstCounter, aux_sampled, aux_walks)
  BY DEF BurstInv
<1>3. Burst!Frames(s, 0) = Burst!Frames(s, 1) \cup {Root} /\ Burst!Frames(s, 1) \in SUBSET Contexts
  BY <1>1, FramesProperties
<1>4. /\ DOMAIN burstCounter' \subseteq Contexts
      /\ \A x \in DOMAIN burstCounter' : burstCounter'[x] \in Nat
  BY <1>2, <1>3, EnteredTree
<1>5. \A x \in DOMAIN burstCounter' \cup {s} : Burst!Frames(x, 0) \subseteq DOMAIN burstCounter'
  BY <1>1, <1>2, <1>3, WalkKeepsTree
<1>6. Sampled(burstCounter', aux_sampled', aux_walks')
  BY <1>2, <1>3, WalkIsSampled
<1>7. QED BY <1>1, <1>4, <1>5, <1>6

\* A walk was requested.
LEMMA WalkWasRequested ==
  ASSUME BurstInv, bursting_on = "MAYBE", bursting_on' # "MAYBE",
         aux_walks' = aux_walks + 1, num_bursts' \in {num_bursts, num_bursts + 1},
         UNCHANGED <<sampling_rate, tick_counter>>
  PROVE  WalksAreRequested' /\ tick_counter \in Nat \ {0}
<1>1. /\ num_bursts \in Nat /\ aux_walks \in Nat /\ tick_counter \in Nat
      /\ WalksAreRequested
  BY BurstInvMeans
<1>2. /\ num_bursts <= aux_walks /\ tick_counter >= 1
  BY <1>1 DEF WalksAreRequested
<1>3. PICK p \in Nat : /\ tick_counter <= p * sampling_rate
                       /\ p * sampling_rate < tick_counter + sampling_rate
                       /\ aux_walks + 1 <= p
  BY <1>1 DEF WalksAreRequested
<1>4. num_bursts' <= aux_walks' /\ aux_walks' <= p
  BY <1>1, <1>2, <1>3
<1>5. WalksAreRequested'
  BY <1>3, <1>4 DEF WalksAreRequested
<1>6. QED BY <1>1, <1>2, <1>5

\* A burst starts.
LEMMA StartKeeps ==
  ASSUME BurstInv, NEW c \in Calls, Burst!Push(c), bursting_on = "MAYBE",
         burstCounter' = Burst!Entered(Burst!Frames(shadow_stack', 1)), Burst!StartBurst,
         aux_walks' = aux_walks + 1, UNCHANGED aux_sampled
  PROVE  BurstInv'
<1>1. /\ bursting_on' = "YES" /\ burstTop' = shadow_stack' /\ num_bursts' = num_bursts + 1
      /\ num_rtn_enter' = num_rtn_enter + 1 /\ aux_age' = 0
  BY DEF Burst!StartBurst
<1>2. UNCHANGED <<sampling_rate, burst_duration, tick_counter, num_rtn_exit>>
  BY PushIsCall
<1>3. /\ shadow_stack' \in Contexts /\ burstTop' \in Contexts
      /\ DOMAIN burstCounter' \subseteq Contexts
      /\ \A x \in DOMAIN burstCounter' : burstCounter'[x] \in Nat
      /\ \A x \in DOMAIN burstCounter' \cup {burstTop'} :
           Burst!Frames(x, 0) \subseteq DOMAIN burstCounter'
      /\ Sampled(burstCounter', aux_sampled', aux_walks')
  BY <1>1, WalkKeeps
<1>4. WalksAreRequested' /\ tick_counter \in Nat \ {0}
  BY <1>1, <1>2, WalkWasRequested
<1>5. BurstIsYoung'
  <2>1. burst_duration \in Nat \ {0}
    BY BurstInvMeans
  <2>2. PICK q \in Nat : q * burst_duration < tick_counter /\ tick_counter <= q * burst_duration + burst_duration
    BY <1>4, <2>1, BetweenMultiples
  <2>3. q * burst_duration + 0 < tick_counter
    BY <2>1, <2>2
  <2>4. QED BY <1>1, <1>2, <2>2, <2>3 DEF BurstIsYoung
<1>6. QED BY <1>1, <1>2, <1>3, <1>4, <1>5, BurstInvMeans, BurstInvMeansNext

\* A requested burst takes place, or is discarded.
LEMMA EnterRequestedKeeps ==
  ASSUME BurstInv, NEW c \in Calls,
         Burst!EnterUniform(c) \/ Burst!EnterKnown(c) \/ Burst!EnterNew(c)
  PROVE  BurstInv'
<1>1. CASE Burst!EnterUniform(c)
  BY <1>1, StartKeeps DEF Burst!EnterUniform
<1>2. CASE Burst!EnterNew(c)
  BY <1>2, StartKeeps DEF Burst!EnterNew
<1>3. CASE Burst!EnterKnown(c)
  <2>1. bursting_on = "MAYBE" /\ Burst!Push(c) /\ aux_walks' = aux_walks + 1 /\ UNCHANGED aux_sampled
    BY <1>3 DEF Burst!EnterKnown
  <2>2. CASE burstCounter' = Burst!Entered(Burst!Frames(shadow_stack', 1)) /\ Burst!StartBurst
    BY <2>1, <2>2, StartKeeps
  <2>3. CASE /\ bursting_on' = "NO"
             /\ burstCounter' = Burst!Entered(Burst!Frames(shadow_stack, 1))
             /\ burstTop' = shadow_stack
             /\ UNCHANGED <<num_bursts, num_rtn_enter, aux_age>>
    <3>1. UNCHANGED <<sampling_rate, burst_duration, tick_counter, num_rtn_exit>>
      BY <2>1, PushIsCall
    <3>2. /\ shadow_stack' \in Contexts /\ burstTop' \in Contexts
          /\ DOMAIN burstCounter' \subseteq Contexts
          /\ \A x \in DOMAIN burstCounter' : burstCounter'[x] \in Nat
          /\ \A x \in DOMAIN burstCounter' \cup {burstTop'} :
               Burst!Frames(x, 0) \subseteq DOMAIN burstCounter'
          /\ Sampled(burstCounter', aux_sampled', aux_walks')
      BY <2>1, <2>3, WalkKeeps
    <3>3. WalksAreRequested'
      BY <2>1, <2>3, <3>1, WalkWasRequested
    <3>4. BurstIsYoung'
      BY <2>3 DEF BurstIsYoung
    <3>5. QED BY <2>1, <2>3, <3>1, <3>2, <3>3, <3>4, BurstInvMeans, BurstInvMeansNext
  <2>4. QED BY <1>3, <2>2, <2>3 DEF Burst!EnterKnown
<1>4. QED BY <1>1, <1>2, <1>3

\* A routine returns.
LEMMA ExitKeepsBurst ==
  ASSUME BurstInv, Burst!RtnExit
  PROVE  BurstInv'
<1>1. /\ shadow_stack # Root /\ shadow_stack' = Caller(shadow_stack)
      /\ IF bursting_on = "YES" THEN burstTop' = Caller(burstTop) /\ num_rtn_exit' = num_rtn_exit + 1
         ELSE UNCHANGED <<burstTop, num_rtn_exit>>
      /\ UNCHANGED <<sampling_rate, burst_duration, bursting_on, burstCounter, tick_counter,
                     num_bursts, num_rtn_enter, aux_sampled, aux_walks, aux_age>>
  BY SameContexts DEF Burst!RtnExit, Burst!settings
<1>2. shadow_stack' \in Contexts
  BY <1>1, BurstInvMeans, CallerProperties
<1>3. /\ burstTop' \in Contexts
      /\ bursting_on = "YES" => burstTop' = shadow_stack'
      /\ Burst!Frames(burstTop', 0) \subseteq DOMAIN burstCounter
      /\ num_rtn_exit' \in Nat
  <2>1. CASE bursting_on = "YES"
    <3>1. burstTop = shadow_stack /\ burstTop' = shadow_stack'
      BY <1>1, <2>1, BurstInvMeans
    <3>2. burstTop \in Contexts /\ Burst!Frames(burstTop, 0) \subseteq DOMAIN burstCounter
      BY BurstInvMeans
    <3>3. burstTop' \in Burst!Frames(burstTop, 0)
      <4>1. Len(burstTop) \in Nat /\ Len(burstTop) >= 1
        BY <1>1, <3>1, <3>2, ContextsAreSequences, CallerProperties
      <4>2. Len(burstTop) - 1 \in 0 .. Len(burstTop)
        BY <4>1
      <4>3. burstTop' = Prefix(burstTop, Len(burstTop) - 1)
        BY <1>1, <2>1 DEF Caller
      <4>4. QED BY <4>2, <4>3, SameContexts DEF Burst!Frames
    <3>4. Burst!Frames(burstTop', 0) \subseteq Burst!Frames(burstTop, 0)
      BY <3>2, <3>3, FramesProperties
    <3>5. QED BY <1>1, <1>2, <2>1, <3>1, <3>2, <3>4, BurstInvMeans
  <2>2. CASE bursting_on # "YES"
    BY <1>1, <2>2, BurstInvMeans
  <2>3. QED BY <2>1, <2>2
<1>4. BurstIsYoung' /\ WalksAreRequested'
  BY <1>1, BurstInvMeans DEF BurstIsYoung, WalksAreRequested
<1>5. QED BY <1>1, <1>2, <1>3, <1>4, BurstInvMeans, BurstInvMeansNext

\* At a sampling point the tick is the last of those that p sampling points allow.
LEMMA SamplingPointIsNext ==
  ASSUME NEW r \in Nat \ {0}, NEW t \in Nat, NEW p \in Nat, t <= p * r, p * r < t + r
  PROVE  t % r = 0 <=> t = p * r
<1>1. p * r \in Nat
  OBVIOUS
<1>2. ASSUME t = p * r PROVE t % r = 0
  BY <1>2, MultipleMod
<1>3. ASSUME t % r = 0 PROVE t = p * r
  <2> DEFINE k == t \div r
  <2>1. k \in Int /\ t = r * k
    BY <1>3
  <2> HIDE DEF k
  <2>2. p * r - t = r * (p - k)
    BY <2>1
  <2>3. CASE p - k >= 1
    <3>1. r * (p - k) >= r
      BY <2>1, <2>3
    <3>2. QED BY <1>1, <2>2, <3>1
  <2>4. CASE p - k <= -1
    <3>1. r * (p - k) <= -r
      BY <2>1, <2>4
    <3>2. QED BY <1>1, <2>2, <3>1
  <2>5. CASE p - k = 0
    BY <1>1, <2>2, <2>5
  <2>6. QED BY <2>1, <2>3, <2>4, <2>5
<1>4. QED BY <1>2, <1>3

\* tick_burst.
LEMMA TickKeeps ==
  ASSUME BurstInv, Burst!Tick
  PROVE  BurstInv'
<1>1. /\ bursting_on' = IF tick_counter % sampling_rate = 0 THEN "MAYBE"
                        ELSE IF bursting_on = "YES" /\ tick_counter % burst_duration = 0 THEN "NO"
                        ELSE bursting_on
      /\ tick_counter' = tick_counter + 1
      /\ aux_age' = IF bursting_on' = "YES" THEN aux_age + 1 ELSE 0
      /\ UNCHANGED <<sampling_rate, burst_duration, shadow_stack, burstTop, burstCounter, num_bursts,
                     num_rtn_enter, num_rtn_exit, aux_sampled, aux_walks>>
  BY DEF Burst!Tick, Burst!SamplingPoint, Burst!Expired, Burst!settings
<1>2. /\ sampling_rate \in Nat \ {0} /\ burst_duration \in Nat \ {0} /\ tick_counter \in Nat
      /\ aux_age \in Nat /\ aux_walks \in Nat /\ num_bursts \in Nat
      /\ bursting_on \in {"NO", "MAYBE", "YES"} /\ BurstIsYoung /\ WalksAreRequested
  BY BurstInvMeans
<1>3. BurstIsYoung'
  <2>1. SUFFICES ASSUME bursting_on' = "YES"
                 PROVE  \E q \in Nat : /\ q * burst_duration + (aux_age + 1) < tick_counter + 1
                                       /\ tick_counter + 1 <= q * burst_duration + burst_duration
    BY <1>1 DEF BurstIsYoung
  <2>2. bursting_on = "YES" /\ tick_counter % burst_duration # 0
    BY <1>1, <2>1
  <2>3. PICK q \in Nat : /\ q * burst_duration + aux_age < tick_counter
                         /\ tick_counter <= q * burst_duration + burst_duration
    BY <1>2, <2>2 DEF BurstIsYoung
  <2>4. tick_counter # q * burst_duration + burst_duration
    <3>1. ((q + 1) * burst_duration) % burst_duration = 0
      BY <1>2, MultipleMod
    <3>2. (q + 1) * burst_duration = q * burst_duration + burst_duration
      BY <1>2
    <3>3. QED BY <2>2, <3>1, <3>2
  <2>5. q * burst_duration \in Nat
    BY <1>2
  <2>6. QED BY <1>2, <2>3, <2>4, <2>5
<1>4. WalksAreRequested'
  <2>1. PICK p \in Nat : /\ tick_counter <= p * sampling_rate
                         /\ p * sampling_rate < tick_counter + sampling_rate
                         /\ aux_walks <= p
                         /\ bursting_on = "MAYBE" => aux_walks + 1 <= p
    BY <1>2 DEF WalksAreRequested
  <2>2. p * sampling_rate \in Nat
    BY <1>2
  <2>3. tick_counter % sampling_rate = 0 <=> tick_counter = p * sampling_rate
    BY <1>2, <2>1, SamplingPointIsNext
  <2>4. num_bursts' <= aux_walks' /\ tick_counter' >= 1
    BY <1>1, <1>2 DEF WalksAreRequested
  <2>5. CASE tick_counter % sampling_rate = 0
    <3>1. (p + 1) * sampling_rate = p * sampling_rate + sampling_rate
      BY <1>2
    <3>2. /\ tick_counter' <= (p + 1) * sampling_rate
          /\ (p + 1) * sampling_rate < tick_counter' + sampling_rate
          /\ aux_walks' <= p + 1 /\ aux_walks' + 1 <= p + 1
      BY <1>1, <1>2, <2>1, <2>2, <2>3, <2>5, <3>1
    <3>3. QED BY <1>1, <2>4, <3>2 DEF WalksAreRequested
  <2>6. CASE tick_counter % sampling_rate # 0
    <3>1. /\ tick_counter' <= p * sampling_rate
          /\ p * sampling_rate < tick_counter' + sampling_rate
          /\ aux_walks' <= p
      BY <1>1, <1>2, <2>1, <2>2, <2>3, <2>6
    <3>2. bursting_on' = "MAYBE" => aux_walks' + 1 <= p
      BY <1>1, <2>1, <2>6
    <3>3. QED BY <1>1, <2>4, <3>1, <3>2 DEF WalksAreRequested
  <2>7. QED BY <2>5, <2>6
<1>5. bursting_on' \in {"NO", "MAYBE", "YES"} /\ aux_age' \in Nat /\ tick_counter' \in Nat
  BY <1>1, <1>2
<1>6. bursting_on' = "YES" => burstTop' = shadow_stack'
  BY <1>1, BurstInvMeans
<1>7. QED BY <1>1, <1>3, <1>4, <1>5, <1>6, BurstInvMeans, BurstInvMeansNext

\* init_burst switches bursts off, at tick 0.
LEMMA BurstInvInit == Burst!Init => BurstInv
<1> SUFFICES ASSUME Burst!Init PROVE BurstInv
  OBVIOUS
<1>1. /\ bursting_on = "NO" /\ shadow_stack = Root /\ burstTop = Root
      /\ burstCounter = [x \in {Root} |-> 0] /\ tick_counter = 0 /\ num_bursts = 0
      /\ num_rtn_enter = 0 /\ num_rtn_exit = 0 /\ aux_sampled = [x \in Contexts |-> 0]
      /\ aux_walks = 0 /\ aux_age = 0
  BY SameContexts DEF Burst!Init
<1>2. sampling_rate \in Nat \ {0} /\ burst_duration \in Nat \ {0}
  <2>1. PICK s \in BurstSettings : sampling_rate = s[1] /\ burst_duration = s[2]
    BY DEF Burst!Init
  <2>2. s \in (Nat \ {0}) \X (Nat \ {0})
    BY BurstAssumption DEF Burst!ConstantsAssumption
  <2>3. QED BY <2>1, <2>2
<1>3. Burst!Frames(Root, 0) \subseteq {Root} /\ Root \in Contexts
  <2>1. Len(Root) = 0
    BY DEF Root
  <2>2. Burst!Frames(Root, 0) = {Prefix(Root, k) : k \in 0 .. 0}
    BY <2>1, SameContexts DEF Burst!Frames
  <2>3. Prefix(Root, 0) = Root
    BY RootContext, WholePrefix
  <2>4. QED BY <2>2, <2>3, RootContext
<1>4. BurstIsYoung
  BY <1>1 DEF BurstIsYoung
<1>5. WalksAreRequested
  <2>1. 0 \in Nat /\ 0 * sampling_rate = 0
    BY <1>2
  <2>2. /\ tick_counter <= 0 * sampling_rate /\ 0 * sampling_rate < tick_counter + sampling_rate
        /\ aux_walks <= 0
    BY <1>1, <1>2, <2>1
  <2>3. QED BY <1>1, <2>2 DEF WalksAreRequested
<1>6. Sampled(burstCounter, aux_sampled, aux_walks)
  BY <1>1, <1>3 DEF Sampled
<1>7. QED BY <1>1, <1>2, <1>3, <1>4, <1>5, <1>6, BurstInvMeans

\* So does each operation of burst.c, and what leaves its variables alone.
LEMMA BurstStepKeeps == BurstInv /\ [Burst!Next]_burstVars => BurstInv'
<1> SUFFICES ASSUME BurstInv, [Burst!Next]_burstVars PROVE BurstInv'
  OBVIOUS
<1>1. CASE UNCHANGED burstVars
  BY <1>1, BurstInvMeans, BurstInvMeansNext DEF burstVars, BurstIsYoung, WalksAreRequested
<1>2. CASE Burst!Tick
  BY <1>2, TickKeeps
<1>3. CASE Burst!RtnExit
  BY <1>3, ExitKeepsBurst
<1>4. ASSUME NEW c \in Calls, Burst!RtnEnter(c) PROVE BurstInv'
  BY <1>4, EnterOutsideKeeps, EnterInBurstKeeps, EnterRequestedKeeps DEF Burst!RtnEnter
<1>5. QED BY <1>1, <1>2, <1>3, <1>4 DEF Burst!Next

\* The invariant implies what the runs check.
LEMMA BurstInvImplies == BurstInv => Burst!TypeOK /\ Burst!BurstFollowsCalls /\ Burst!BurstsAreSamples
<1> SUFFICES ASSUME BurstInv PROVE Burst!BurstsAreSamples
  BY DEF BurstInv, BurstTypes
<1>1. /\ sampling_rate \in Nat \ {0} /\ burst_duration \in Nat \ {0} /\ tick_counter \in Nat
      /\ aux_age \in Nat /\ aux_walks \in Nat /\ num_bursts \in Nat
      /\ DOMAIN burstCounter \subseteq Contexts
      /\ BurstIsYoung /\ WalksAreRequested /\ Sampled(burstCounter, aux_sampled, aux_walks)
  BY BurstInvMeans
<1>2. bursting_on = "YES" => aux_age < burst_duration
  <2>1. SUFFICES ASSUME bursting_on = "YES" PROVE aux_age < burst_duration
    OBVIOUS
  <2>2. PICK q \in Nat : /\ q * burst_duration + aux_age < tick_counter
                         /\ tick_counter <= q * burst_duration + burst_duration
    BY <1>1, <2>1 DEF BurstIsYoung
  <2>3. q * burst_duration \in Nat
    BY <1>1
  <2>4. QED BY <1>1, <2>2, <2>3
<1>3. aux_walks * sampling_rate < tick_counter + sampling_rate
  <2>1. PICK p \in Nat : p * sampling_rate < tick_counter + sampling_rate /\ aux_walks <= p
    BY <1>1 DEF WalksAreRequested
  <2>2. aux_walks * sampling_rate <= p * sampling_rate
    BY <1>1, <2>1
  <2>3. p * sampling_rate \in Nat /\ aux_walks * sampling_rate \in Nat
    BY <1>1
  <2>4. QED BY <1>1, <2>1, <2>2, <2>3
<1>4. Burst!BurstsAreShort
  BY <1>1, <1>2, <1>3 DEF Burst!BurstsAreShort, WalksAreRequested
<1>5. Burst!CountersAreSamples
  BY <1>1, SameContexts DEF Burst!CountersAreSamples, Sampled, Burst!Nodes
<1>6. QED BY <1>4, <1>5 DEF Burst!BurstsAreSamples

\* Of all programs of the trace analyzer together, rtn_enter_burst and its like keep
\* the invariant, and the others do not touch it.
LEMMA BurstProgram == TraceTrees => [](program = "cct-burst" => BurstInv)
<1> DEFINE I == program = "cct-burst" => BurstInv
<1>1. TraceTreesInit => I
  BY BurstInvInit DEF TraceTreesInit
<1>2. I /\ [TraceTreesNext]_<<program, vars, bssVars, lssVars, burstVars>> => I'
  <2>1. SUFFICES ASSUME I, [TraceTreesNext]_<<program, vars, bssVars, lssVars, burstVars>>,
                        program' = "cct-burst"
                 PROVE  BurstInv'
    OBVIOUS
  <2>2. program = "cct-burst" /\ [Burst!Next]_burstVars
    BY <2>1 DEF TraceTreesNext
  <2>3. QED BY <2>1, <2>2, BurstStepKeeps
<1>3. QED BY <1>1, <1>2, PTL DEF TraceTrees

\* However calls, returns and ticks of the sampling counter interleave (burst.c), a
\* burst sees the calls where they are, is shorter than burst_duration, and each sampling
\* point leads to one walk of the stack at most; counters are those of the calls in
\* bursts but for one per walk.
THEOREM BurstsSampleTheTrace == TraceTrees => []BurstsAreSamples
<1>1. (program = "cct-burst" => BurstInv) => BurstsAreSamples
  BY BurstInvImplies DEF BurstsAreSamples
<1>2. QED BY <1>1, BurstProgram, PTL

-----------------------------------------------------------------------------
(* LazyHcct: the queue holds the monitored nodes, and their counters are    *)
(* bounded as Space Saving promises, for every epsilon and all increments.  *)

\* A nonempty set of numbers has a least element.
LEMMA LeastNumber ==
  ASSUME NEW S \in SUBSET Nat, S # {}
  PROVE  \E n \in S : \A m \in S : n <= m
<1>1. SUFFICES ASSUME \A n \in S : \E m \in S : ~ (n <= m) PROVE FALSE
  OBVIOUS
<1> DEFINE T == Nat \ S
<1>2. \A n \in Nat : (\A m \in 0 .. n - 1 : m \in T) => n \in T
  <2>1. SUFFICES ASSUME NEW n \in Nat, \A m \in 0 .. n - 1 : m \in T, n \in S PROVE FALSE
    OBVIOUS
  <2>2. PICK m \in S : ~ (n <= m)
    BY <1>1, <2>1
  <2>3. m \in 0 .. n - 1
    BY <2>2
  <2>4. QED BY <2>1, <2>3
<1>3. T = Nat
  <2>1. T \in SUBSET Nat
    OBVIOUS
  <2> HIDE DEF T
  <2>2. QED BY <1>2, <2>1, NatInductionBySets
<1>4. QED BY <1>3

\* And a greatest one, if it is bounded.
LEMMA GreatestNumber ==
  ASSUME NEW S \in SUBSET Nat, S # {}, NEW b \in Nat, \A s \in S : s <= b
  PROVE  \E n \in S : \A m \in S : m <= n
<1> DEFINE U == {n \in Nat : \A s \in S : s <= n}
<1>1. U \in SUBSET Nat /\ U # {}
  OBVIOUS
<1>2. PICK u \in U : \A v \in U : u <= v
  BY <1>1, LeastNumber
<1>3. u \in S
  <2>1. SUFFICES ASSUME u \notin S PROVE FALSE
    OBVIOUS
  <2>2. \A s \in S : s <= u - 1
    BY <1>2, <2>1
  <2>3. u - 1 \in U
    <3>1. PICK s \in S : TRUE
      OBVIOUS
    <3>2. u - 1 \in Nat
      BY <2>2, <3>1
    <3>3. QED BY <2>2, <3>2
  <2>4. QED BY <1>2, <2>3
<1>4. QED BY <1>2, <1>3

\* The least element, as LazyHcct writes it.
LEMMA LazyMin ==
  ASSUME NEW S \in SUBSET Nat, S # {}
  PROVE  Lss!Min(S) \in S /\ \A s \in S : Lss!Min(S) <= s
<1>1. PICK n \in S : \A m \in S : n <= m
  BY LeastNumber
<1>2. QED BY <1>1 DEF Lss!Min

\* The greatest element, as LazyHcct writes it.
LEMMA LazyMax ==
  ASSUME NEW S \in SUBSET Nat, S # {}, NEW b \in Nat, \A s \in S : s <= b
  PROVE  Lss!Max(S) \in S /\ \A s \in S : s <= Lss!Max(S)
<1>1. PICK n \in S : \A m \in S : m <= n
  BY GreatestNumber
<1>2. \A m \in S : n >= m
  BY <1>1
<1>3. Lss!Max(S) \in S /\ \A m \in S : Lss!Max(S) >= m
  BY <1>2 DEF Lss!Max
<1>4. QED BY <1>3

\* A sum is at least as many times the least summand as there are summands.
LEMMA SumAtLeast ==
  ASSUME NEW S, IsFiniteSet(S), NEW f, NEW m \in Nat, \A x \in S : f[x] \in Nat /\ m <= f[x]
  PROVE  m * Cardinality(S) <= SumOf(f, S)
<1> DEFINE Q(n) == \A s \in SUBSET S : Cardinality(s) = n => m * n <= SumOf(f, s)
           T == {n \in Nat : Q(n)}
<1>1. \A s \in SUBSET S : IsFiniteSet(s) /\ Cardinality(s) \in Nat
  BY FS_Subset, FS_CardinalityType
<1>2. ASSUME NEW n \in Nat, \A k \in 0 .. n - 1 : k \in T
      PROVE  n \in T
  <2>1. SUFFICES ASSUME NEW s \in SUBSET S, Cardinality(s) = n PROVE m * n <= SumOf(f, s)
    OBVIOUS
  <2>2. CASE s = {}
    BY <1>1, <2>1, <2>2, SumOfNone, FS_EmptySet
  <2>3. CASE s # {}
    <3>1. PICK a \in s : TRUE
      BY <2>3
    <3>2. Cardinality(s \ {a}) = n - 1 /\ n - 1 \in 0 .. n - 1
      <4>1. Cardinality(s \ {a}) = n - 1
        BY <1>1, <2>1, <3>1, FS_RemoveElement
      <4>2. Cardinality(s \ {a}) \in Nat
        BY <1>1
      <4>3. QED BY <4>1, <4>2
    <3>3. m * (n - 1) <= SumOf(f, s \ {a})
      BY <1>2, <3>2
    <3>4. SumOf(f, s) = f[a] + SumOf(f, s \ {a}) /\ SumOf(f, s \ {a}) \in Int
      <4>1. IsFiniteSet(s) /\ IsFiniteSet(s \ {a})
        BY <1>1
      <4>2. \A x \in s : f[x] \in Int
        OBVIOUS
      <4>3. SumOf(f, s) = f[a] + SumOf(f, s \ {a})
        BY <3>1, <4>1, <4>2, SumProperties
      <4>4. SumOf(f, s \ {a}) \in Int
        BY <4>1, <4>2, SumProperties
      <4>5. QED BY <4>3, <4>4
    <3>5. f[a] \in Nat /\ m <= f[a]
      BY <3>1
    <3>6. m * n = m * (n - 1) + m /\ m * (n - 1) \in Int
      BY <3>2
    <3>7. QED BY <3>3, <3>4, <3>5, <3>6
  <2>4. QED BY <2>2, <2>3
<1>3. T = Nat
  <2> HIDE DEF Q
  <2>1. QED BY <1>2, NatInductionBySets
<1>4. Cardinality(S) \in T
  BY <1>1, <1>3
<1>5. QED BY <1>4

-----------------------------------------------------------------------------
(* The parts of the invariant.                                             *)

\* The types of the variables; minIdx and secondMinIdx are slots of the array.
LazyTypes ==
  /\ DOMAIN lssCounter \subseteq Contexts /\ \A x \in DOMAIN lssCounter : lssCounter[x] \in Nat
  /\ lssMonitored \subseteq Contexts
  /\ queueFull \in BOOLEAN /\ lssBursting \in BOOLEAN
  /\ sentinel \in Nat /\ min \in Nat
  /\ minIdx \in 0 .. Counters - 1 /\ secondMinIdx \in 0 .. Counters - 1
  /\ lssTop \in Contexts
  /\ lssFreq \in [Contexts -> Nat] /\ lssWeight \in Nat

\* The queue q holds the nodes in M, once each, in its first slots.
QueueHolds(q, full, M) ==
  /\ \E n \in 1 .. Counters : DOMAIN q = 0 .. n - 1 /\ (full <=> n = Counters)
  /\ \A i, j \in DOMAIN q : q[i] = q[j] => i = j
  /\ {q[i] : i \in DOMAIN q} = M

\* What holds of counters cnt of the nodes in M, whose least value is m or more, in
\* a stream of length w.
CountersFit(cnt, M, m, freq, w) ==
  /\ \A x \in M : m <= cnt[x]
  /\ \A x \in M \ {Root} : cnt[x] <= freq[x] + m
  /\ IsFiniteSet(M) /\ SumOf(cnt, M) <= w + 1

\* The tree T holds what is active, and is spanned by the nodes in M.
PrunedTree(T, M, s) ==
  /\ \A i \in 0 .. Len(s) : Prefix(s, i) \in T
  /\ M \subseteq T
  /\ \A x \in T \ {Root} : \E y \in M : LeadsTo(x, y)

\* What every step of lss-hcct.c keeps: until the queue is full the least counter is 0.
LazyInv ==
  /\ LazyTypes
  /\ QueueHolds(queue, queueFull, lssMonitored)
  /\ sentinel = min /\ (~queueFull => min = 0)
  /\ CountersFit(lssCounter, lssMonitored, min, lssFreq, lssWeight)
  /\ PrunedTree(DOMAIN lssCounter, lssMonitored, lssTop)

\* What the constants are, without the names of the instance.
LEMMA LazyConstants ==
  /\ Counters \in Nat \ {0, 1} /\ Increments \subseteq Nat \ {0}
  /\ Lss!Contexts = Contexts /\ Lss!Root = Root
  /\ \A x, i : Lss!Prefix(x, i) = Prefix(x, i)
  /\ \A x : Lss!Caller(x) = Caller(x)
  /\ \A x, y : Lss!LeadsTo(x, y) = LeadsTo(x, y)
  BY LssAssumption DEF Lss!ConstantsAssumption, Lss!Contexts, Contexts, Lss!Root, Root, Lss!Prefix, Prefix,
     Lss!Caller, Caller, Lss!LeadsTo, LeadsTo

-----------------------------------------------------------------------------
(* The victim.                                                             *)

\* In a full queue every slot holds a monitored node.
LEMMA FullQueue ==
  ASSUME LazyInv, queueFull
  PROVE  /\ DOMAIN queue = 0 .. Counters - 1
         /\ \A i \in 0 .. Counters - 1 :
              /\ queue[i] \in lssMonitored /\ Lss!QCount(i) = lssCounter[queue[i]]
              /\ Lss!QCount(i) \in Nat /\ min <= Lss!QCount(i)
         /\ Lss!QCount(Counters) = min
<1>1. Counters \in Nat \ {0, 1}
  BY LazyConstants
<1>2. PICK n \in 1 .. Counters : DOMAIN queue = 0 .. n - 1 /\ n = Counters
  BY DEF LazyInv, QueueHolds
<1>3. {queue[i] : i \in DOMAIN queue} = lssMonitored
  BY DEF LazyInv, QueueHolds
<1>4. ASSUME NEW i \in 0 .. Counters - 1
      PROVE  /\ queue[i] \in lssMonitored /\ Lss!QCount(i) = lssCounter[queue[i]]
             /\ Lss!QCount(i) \in Nat /\ min <= Lss!QCount(i)
  <2>1. queue[i] \in lssMonitored
    BY <1>2, <1>3
  <2>2. Lss!QCount(i) = lssCounter[queue[i]]
    BY <1>1 DEF Lss!QCount
  <2>3. queue[i] \in DOMAIN lssCounter
    BY <2>1 DEF LazyInv, PrunedTree
  <2>4. QED BY <2>1, <2>2, <2>3 DEF LazyInv, LazyTypes, CountersFit
<1>5. Lss!QCount(Counters) = min
  BY DEF Lss!QCount, LazyInv
<1>6. QED BY <1>2, <1>4, <1>5

\* FindMin: the new minimum is not above any counter, nor below the old minimum, and
\* the victim is in the queue.
LEMMA FindMinProperties ==
  ASSUME LazyInv, queueFull, Lss!FindMin
  PROVE  /\ minIdx' \in 0 .. Counters - 1 /\ secondMinIdx' \in 0 .. Counters - 1
         /\ min' \in Nat /\ sentinel' = min' /\ min <= min'
         /\ \A x \in lssMonitored : min' <= lssCounter[x]
<1> DEFINE S == {i \in minIdx + 1 .. Counters : Lss!QCount(i) <= min}
           R == {i \in 0 .. Counters - 1 :
                   /\ Lss!QCount(i) < Lss!QCount(secondMinIdx)
                   /\ \A j \in 0 .. i - 1 : Lss!QCount(i) < Lss!QCount(j)}
           C == {Lss!QCount(secondMinIdx)} \cup {Lss!QCount(i) : i \in R}
<1>1. Counters \in Nat \ {0, 1}
  BY LazyConstants
<1>2. /\ min \in Nat /\ sentinel = min /\ minIdx \in 0 .. Counters - 1
      /\ secondMinIdx \in 0 .. Counters - 1
  BY DEF LazyInv, LazyTypes
<1>3. /\ \A i \in 0 .. Counters - 1 :
              /\ queue[i] \in lssMonitored /\ Lss!QCount(i) = lssCounter[queue[i]]
              /\ Lss!QCount(i) \in Nat /\ min <= Lss!QCount(i)
      /\ Lss!QCount(Counters) = min
      /\ DOMAIN queue = 0 .. Counters - 1
  BY FullQueue
<1>4. \A x \in lssMonitored : \E i \in 0 .. Counters - 1 : x = queue[i]
  BY <1>3 DEF LazyInv, QueueHolds
<1>5. Lss!Stop = Lss!Min(S) /\ Lss!Records = R
  BY DEF Lss!Stop, Lss!Records
<1>6. S \in SUBSET Nat /\ S # {}
  <2>1. Counters \in S
    BY <1>1, <1>2, <1>3
  <2>2. QED BY <1>1, <1>2, <2>1
<1>7. R \subseteq 0 .. Counters - 1
  OBVIOUS
<1>8. C \in SUBSET Nat /\ C # {}
  BY <1>2, <1>3, <1>7
<1>9. \A i \in 0 .. Counters - 1 : \E c \in C : c <= Lss!QCount(i)
  <2>1. TAKE i \in 0 .. Counters - 1
  <2>2. CASE Lss!QCount(secondMinIdx) <= Lss!QCount(i)
    BY <2>2
  <2>3. CASE Lss!QCount(i) < Lss!QCount(secondMinIdx)
    <3> DEFINE L == {j \in 0 .. Counters - 1 : Lss!QCount(j) <= Lss!QCount(i)}
    <3>1. L \in SUBSET Nat /\ i \in L
      BY <1>3
    <3>2. PICK j \in L : \A k \in L : j <= k
      <4> HIDE DEF L
      <4>1. QED BY <3>1, LeastNumber
    <3>3. j \in 0 .. Counters - 1 /\ Lss!QCount(j) <= Lss!QCount(i)
      BY <3>2
    <3>4. \A k \in 0 .. j - 1 : Lss!QCount(j) < Lss!QCount(k)
      <4>1. TAKE k \in 0 .. j - 1
      <4>2. k \in 0 .. Counters - 1 /\ ~ (j <= k)
        BY <1>1, <3>3
      <4>3. ~ (Lss!QCount(k) <= Lss!QCount(i))
        BY <3>2, <4>2
      <4>4. QED BY <1>3, <3>3, <4>2, <4>3
    <3>5. Lss!QCount(j) < Lss!QCount(secondMinIdx)
      BY <1>2, <1>3, <2>3, <3>3
    <3>6. j \in R
      BY <3>3, <3>4, <3>5
    <3>7. QED BY <3>3, <3>6
  <2>4. QED BY <1>2, <1>3, <2>2, <2>3
<1> HIDE DEF S, R, C
<1>10. CASE Lss!Stop < Counters /\ minIdx' = Lss!Stop /\ UNCHANGED <<min, secondMinIdx, sentinel>>
  <2>1. Lss!Stop \in S
    BY <1>5, <1>6, LazyMin
  <2>2. Lss!Stop \in 0 .. Counters - 1
    BY <1>1, <1>2, <1>10, <2>1 DEF S
  <2>3. \A x \in lssMonitored : min <= lssCounter[x]
    BY DEF LazyInv, CountersFit
  <2>4. QED BY <1>2, <1>10, <2>2, <2>3
<1>11. CASE /\ Lss!Stop = Counters
            /\ minIdx' = Lss!Max({0} \cup R)
            /\ min' = Lss!Min(C)
            /\ secondMinIdx' = IF R = {} THEN secondMinIdx
                               ELSE Lss!Max({0} \cup (R \ {Lss!Max(R)}))
            /\ sentinel' = min'
  <2>1. minIdx' \in 0 .. Counters - 1
    <3>1. {0} \cup R \in SUBSET Nat /\ {0} \cup R \subseteq 0 .. Counters - 1
      BY <1>1, <1>7
    <3>2. Lss!Max({0} \cup R) \in {0} \cup R
      <4>1. \A s \in {0} \cup R : s <= Counters
        BY <1>1, <3>1
      <4>2. QED BY <1>1, <3>1, <4>1, LazyMax
    <3>3. QED BY <1>11, <3>1, <3>2
  <2>2. secondMinIdx' \in 0 .. Counters - 1
    <3> DEFINE D == {0} \cup (R \ {Lss!Max(R)})
    <3>1. D \in SUBSET Nat /\ D \subseteq 0 .. Counters - 1 /\ D # {}
      <4>1. \A r : {0} \cup (R \ {r}) \subseteq 0 .. Counters - 1 /\ {0} \cup (R \ {r}) # {}
        <5>1. 0 \in 0 .. Counters - 1
          BY <1>1
        <5>2. QED BY <1>7, <5>1
      <4>2. D \subseteq 0 .. Counters - 1 /\ D # {}
        BY <4>1
      <4>3. QED BY <4>2
    <3>2. Lss!Max(D) \in D
      <4>1. \A s \in D : s <= Counters
        BY <1>1, <3>1
      <4> HIDE DEF D
      <4>2. QED BY <1>1, <3>1, <4>1, LazyMax
    <3>3. QED BY <1>2, <1>11, <3>1, <3>2
  <2>3. min' \in C /\ \A c \in C : min' <= c
    BY <1>8, <1>11, LazyMin
  <2>4. min' \in Nat /\ min <= min'
    <3>1. \A c \in C : c \in Nat /\ min <= c
      BY <1>2, <1>3, <1>7 DEF C
    <3>2. QED BY <2>3, <3>1
  <2>5. ASSUME NEW x \in lssMonitored PROVE min' <= lssCounter[x]
    <3>1. PICK i \in 0 .. Counters - 1 : x = queue[i]
      BY <1>4
    <3>2. lssCounter[x] = Lss!QCount(i) /\ Lss!QCount(i) \in Nat
      BY <1>3, <3>1
    <3>3. PICK c \in C : c <= Lss!QCount(i)
      BY <1>9
    <3>4. c \in Nat /\ min' <= c
      BY <1>8, <2>3
    <3>5. QED BY <2>4, <3>2, <3>3, <3>4
  <2>6. QED BY <1>11, <2>1, <2>2, <2>4, <2>5
<1>12. QED BY <1>5, <1>10, <1>11 DEF Lss!FindMin, C

-----------------------------------------------------------------------------
(* The events of the trace.                                                *)

\* A node that is entered is a context, whose callers are in the tree.
LEMMA EnteredNode ==
  ASSUME LazyInv, NEW c \in Calls, Len(lssTop) < StackMaxDepth,
         NEW node, node = Append(lssTop, c)
  PROVE  /\ node \in Contexts /\ node # Root
         /\ \A i \in 0 .. Len(node) : Prefix(node, i) \in DOMAIN lssCounter \cup {node}
<1>1. lssTop \in Contexts
  BY DEF LazyInv, LazyTypes
<1>2. Len(lssTop) \in Nat /\ StackMaxDepth \in Nat
  BY <1>1, ContextsAreSequences, DepthAssumption
<1>3. Len(lssTop) + 1 <= StackMaxDepth
  BY <1>2
<1>4. node \in Contexts /\ node # Root /\ Len(node) = Len(lssTop) + 1
  BY <1>1, <1>3, AppendContext
<1>5. ASSUME NEW i \in 0 .. Len(node) PROVE Prefix(node, i) \in DOMAIN lssCounter \cup {node}
  <2>1. CASE i = Len(node)
    BY <1>4, <2>1, WholePrefix
  <2>2. CASE i # Len(node)
    <3>1. i \in 0 .. Len(lssTop)
      BY <1>2, <1>4, <2>2
    <3>2. Prefix(node, i) = Prefix(lssTop, i)
      BY <1>1, <3>1, PrefixOfAppend
    <3>3. QED BY <3>1, <3>2 DEF LazyInv, PrunedTree
  <2>3. QED BY <2>1, <2>2
<1>6. QED BY <1>4, <1>5

\* What an event changes besides the tree and the queue.
Counted(node, inc) ==
  /\ lssTop' = node
  /\ lssFreq' = [lssFreq EXCEPT ![node] = @ + inc]
  /\ lssWeight' = lssWeight + inc
  /\ UNCHANGED lssBursting

\* Two functions of numbers, and the one place of a finite set where they may differ.
DiffersAt(e, f, S, a) ==
  /\ IsFiniteSet(S) /\ a \in S
  /\ \A x \in S : f[x] \in Int
  /\ \A x \in S : e[x] \in Int
  /\ Agree(f, e, S \ {a})

\* Their sums differ by what they differ there.
LEMMA SumOfDiffering ==
  ASSUME NEW e, NEW f, NEW S, NEW a, DiffersAt(e, f, S, a)
  PROVE  SumOf(e, S) = SumOf(f, S) + e[a] - f[a]
  BY SumOfChanged DEF DiffersAt

\* What the variables of the specification count keeps its type.
LEMMA CountedProperties ==
  ASSUME LazyInv, NEW node \in Contexts, NEW inc \in Nat \ {0}, Counted(node, inc)
  PROVE  /\ lssTop' \in Contexts /\ lssFreq' \in [Contexts -> Nat] /\ lssWeight' \in Nat
         /\ lssBursting' \in BOOLEAN
         /\ \A x \in Contexts : /\ lssFreq[x] \in Nat /\ lssFreq'[x] \in Nat /\ lssFreq[x] <= lssFreq'[x]
                                /\ x = node => lssFreq'[x] = lssFreq[x] + inc
<1>1. lssFreq \in [Contexts -> Nat] /\ lssWeight \in Nat /\ lssBursting \in BOOLEAN
  BY DEF LazyInv, LazyTypes
<1>2. lssTop' = node /\ lssFreq' = [lssFreq EXCEPT ![node] = @ + inc] /\ lssWeight' = lssWeight + inc
      /\ lssBursting' = lssBursting
  BY DEF Counted
<1>3. \A x \in Contexts : lssFreq'[x] = IF x = node THEN lssFreq[node] + inc ELSE lssFreq[x]
  BY <1>1, <1>2
<1>4. \A x \in Contexts : lssFreq[x] \in Nat
  BY <1>1
<1>5. lssFreq' \in [Contexts -> Nat]
  BY <1>1, <1>2
<1>6. QED BY <1>1, <1>2, <1>3, <1>4, <1>5

\* The node is monitored.
LEMMA MonitoredKeeps ==
  ASSUME LazyInv, NEW node \in Contexts, NEW inc \in Nat \ {0}, Counted(node, inc), node # Root,
         \A i \in 0 .. Len(node) : Prefix(node, i) \in DOMAIN lssCounter \cup {node},
         Lss!EnterMonitored(node, inc)
  PROVE  LazyInv'
<1> DEFINE M == lssMonitored
           f == lssCounter
           e == lssCounter'
<1>1. /\ node \in DOMAIN f /\ node \in M
      /\ e = [f EXCEPT ![node] = @ + inc]
      /\ UNCHANGED <<lssMonitored, queue, queueFull, sentinel, min, minIdx, secondMinIdx>>
  BY DEF Lss!EnterMonitored, Lss!Nodes, Lss!queueVars
<1>2. /\ DOMAIN f \subseteq Contexts /\ \A x \in DOMAIN f : f[x] \in Nat
      /\ M \subseteq DOMAIN f /\ min \in Nat /\ lssWeight \in Nat
  BY DEF LazyInv, LazyTypes, PrunedTree
<1>3. /\ lssTop' \in Contexts /\ lssFreq' \in [Contexts -> Nat] /\ lssWeight' \in Nat
      /\ lssBursting' \in BOOLEAN
      /\ \A x \in Contexts : /\ lssFreq[x] \in Nat /\ lssFreq'[x] \in Nat /\ lssFreq[x] <= lssFreq'[x]
                             /\ x = node => lssFreq'[x] = lssFreq[x] + inc
  BY CountedProperties
<1>4. DOMAIN e = DOMAIN f /\ \A x \in DOMAIN f : e[x] = IF x = node THEN f[node] + inc ELSE f[x]
  BY <1>1
<1> HIDE DEF e
<1>5. \A x \in DOMAIN e : e[x] \in Nat /\ f[x] <= e[x]
  BY <1>1, <1>2, <1>4
<1>6. LazyTypes'
  BY <1>1, <1>2, <1>3, <1>4, <1>5 DEF LazyTypes, LazyInv, e
<1>7. CountersFit(e, M, min, lssFreq', lssWeight')
  <2>1. CountersFit(f, M, min, lssFreq, lssWeight)
    BY DEF LazyInv
  <2>2. \A x \in M : min <= e[x]
    <3>1. TAKE x \in M
    <3>2. min <= f[x] /\ f[x] <= e[x] /\ f[x] \in Nat /\ e[x] \in Nat
      BY <1>2, <1>4, <1>5, <2>1 DEF CountersFit
    <3>3. QED BY <1>2, <3>2
  <2>3. \A x \in M \ {Root} : e[x] <= lssFreq'[x] + min
    <3>1. TAKE x \in M \ {Root}
    <3>2. f[x] <= lssFreq[x] + min /\ x \in DOMAIN f /\ x \in Contexts
      BY <1>2, <2>1 DEF CountersFit
    <3>3. QED BY <1>2, <1>3, <1>4, <3>2
  <2>4. IsFiniteSet(M) /\ SumOf(f, M) <= lssWeight + 1
    BY <2>1 DEF CountersFit
  <2>5. SumOf(e, M) = SumOf(f, M) + e[node] - f[node] /\ SumOf(f, M) \in Int
    <3>1. \A x \in M : f[x] \in Int
      BY <1>2
    <3>2. \A x \in M : e[x] \in Int
      BY <1>2, <1>4, <1>5
    <3>3. Agree(f, e, M \ {node})
      BY <1>2, <1>4 DEF Agree
    <3>4. SumOf(e, M) = SumOf(f, M) + e[node] - f[node]
      <4>1. DiffersAt(e, f, M, node)
        BY <1>1, <2>4, <3>1, <3>2, <3>3 DEF DiffersAt
      <4>2. QED BY <4>1, SumOfDiffering
    <3>5. SumOf(f, M) \in Int
      BY <2>4, <3>1, SumProperties
    <3>6. QED BY <3>4, <3>5
  <2>6. e[node] = f[node] + inc /\ f[node] \in Nat /\ lssWeight' = lssWeight + inc
    BY <1>1, <1>2, <1>4 DEF Counted
  <2>7. SumOf(e, M) <= lssWeight' + 1
    BY <1>2, <2>4, <2>5, <2>6
  <2>8. QED BY <2>2, <2>3, <2>4, <2>7 DEF CountersFit
<1>8. PrunedTree(DOMAIN e, M, lssTop')
  <2>1. DOMAIN lssCounter \cup {node} = DOMAIN e /\ lssTop' = node
    BY <1>1, <1>4 DEF Counted
  <2>2. QED BY <1>4, <2>1 DEF LazyInv, PrunedTree
<1>9. QED BY <1>1, <1>6, <1>7, <1>8 DEF LazyInv, e

\* The queue has a free slot.
LEMMA AdmitKeeps ==
  ASSUME LazyInv, NEW node \in Contexts, NEW inc \in Nat \ {0}, Counted(node, inc), node # Root,
         \A i \in 0 .. Len(node) : Prefix(node, i) \in DOMAIN lssCounter \cup {node},
         Lss!EnterAdmit(node, inc)
  PROVE  LazyInv'
<1> DEFINE M == lssMonitored
           f == lssCounter
           e == lssCounter'
<1>1. /\ node \notin M /\ ~queueFull
      /\ e = [x \in DOMAIN f \cup {node} |-> IF x = node THEN inc ELSE f[x]]
      /\ lssMonitored' = M \cup {node}
      /\ queue' = [i \in 0 .. Lss!NumItems |-> IF i = Lss!NumItems THEN node ELSE queue[i]]
      /\ queueFull' = (Lss!NumItems + 1 = Counters)
      /\ UNCHANGED <<sentinel, min, minIdx, secondMinIdx>>
  BY DEF Lss!EnterAdmit, Lss!Nodes
<1>2. /\ DOMAIN f \subseteq Contexts /\ \A x \in DOMAIN f : f[x] \in Nat
      /\ M \subseteq DOMAIN f /\ min = 0 /\ lssWeight \in Nat /\ Counters \in Nat \ {0, 1}
  BY <1>1, LazyConstants DEF LazyInv, LazyTypes, PrunedTree
<1>3. /\ lssTop' \in Contexts /\ lssFreq' \in [Contexts -> Nat] /\ lssWeight' \in Nat
      /\ lssBursting' \in BOOLEAN
      /\ \A x \in Contexts : /\ lssFreq[x] \in Nat /\ lssFreq'[x] \in Nat /\ lssFreq[x] <= lssFreq'[x]
                             /\ x = node => lssFreq'[x] = lssFreq[x] + inc
  BY CountedProperties
<1>4. DOMAIN e = DOMAIN f \cup {node} /\ \A x \in DOMAIN e : e[x] = IF x = node THEN inc ELSE f[x]
  BY <1>1
<1> HIDE DEF e
<1>5. \A x \in DOMAIN e : e[x] \in Nat
  BY <1>1, <1>2, <1>4
<1>6. LazyTypes'
  BY <1>1, <1>2, <1>3, <1>4, <1>5 DEF LazyTypes, LazyInv, e
<1>7. CountersFit(e, M \cup {node}, min, lssFreq', lssWeight')
  <2>1. CountersFit(f, M, min, lssFreq, lssWeight)
    BY DEF LazyInv
  <2>2. \A x \in M \cup {node} : min <= e[x]
    BY <1>2, <1>4, <1>5
  <2>3. \A x \in (M \cup {node}) \ {Root} : e[x] <= lssFreq'[x] + min
    <3>1. TAKE x \in (M \cup {node}) \ {Root}
    <3>2. x \in M => f[x] <= lssFreq[x] + min /\ x \in DOMAIN f /\ f[x] \in Nat
      BY <1>2, <2>1 DEF CountersFit
    <3>3. x \in Contexts
      BY <1>2
    <3>4. QED BY <1>2, <1>3, <1>4, <3>2, <3>3
  <2>4. IsFiniteSet(M) /\ SumOf(f, M) <= lssWeight + 1
    BY <2>1 DEF CountersFit
  <2>5. IsFiniteSet(M \cup {node})
    BY <2>4, FS_AddElement
  <2>6. SumOf(e, M \cup {node}) = inc + SumOf(f, M) /\ SumOf(f, M) \in Int
    <3> DEFINE S == M \cup {node}
    <3>1. \A x \in M : f[x] \in Int
      BY <1>2
    <3>2. \A x \in S : e[x] \in Int
      BY <1>2, <1>4, <1>5
    <3>3. S \ {node} = M /\ node \in S
      BY <1>1
    <3>4. SumOf(e, S) = e[node] + SumOf(e, S \ {node})
      <4> HIDE DEF S
      <4>1. IsFiniteSet(S)
        BY <2>5 DEF S
      <4>2. QED BY <3>2, <3>3, <4>1, SumProperties
    <3>5. SumOf(e, M) = SumOf(f, M)
      <4>1. \A x \in M : e[x] = f[x]
        BY <1>1, <1>2, <1>4
      <4>2. QED BY <2>4, <4>1, SumOfSame
    <3>6. SumOf(f, M) \in Int
      BY <2>4, <3>1, SumProperties
    <3>7. e[node] = inc
      BY <1>4
    <3> HIDE DEF S
    <3>8. QED BY <3>3, <3>4, <3>5, <3>6, <3>7 DEF S
  <2>7. lssWeight' = lssWeight + inc
    BY DEF Counted
  <2>8. SumOf(e, M \cup {node}) <= lssWeight' + 1
    BY <1>2, <2>4, <2>6, <2>7
  <2>9. QED BY <2>2, <2>3, <2>5, <2>8 DEF CountersFit
<1>8. PrunedTree(DOMAIN e, M \cup {node}, lssTop')
  <2>1. DOMAIN lssCounter \cup {node} = DOMAIN e /\ lssTop' = node
    BY <1>4 DEF Counted
  <2>2. LeadsTo(node, node)
    BY LeadsToIsOrder
  <2>3. QED BY <1>4, <2>1, <2>2 DEF LazyInv, PrunedTree
<1>9. QueueHolds(queue', queueFull', M \cup {node})
  <2>1. PICK n \in 1 .. Counters : DOMAIN queue = 0 .. n - 1 /\ (queueFull <=> n = Counters)
    BY DEF LazyInv, QueueHolds
  <2>2. n \in Nat /\ n < Counters /\ n >= 1
    BY <1>1, <1>2, <2>1
  <2>3. Lss!NumItems = n
    <3>1. Lss!NumItems = Cardinality(0 .. n - 1)
      BY <2>1 DEF Lss!NumItems, Lss!Cardinality, Cardinality
    <3>2. 0 \in Int /\ n - 1 \in Int /\ ~ (0 > n - 1) /\ n - 1 - 0 + 1 = n
      BY <2>2
    <3> DEFINE h == n - 1
    <3>3. Cardinality(0 .. h) = IF 0 > h THEN 0 ELSE h - 0 + 1
      <4>1. h \in Int
        BY <3>2
      <4> HIDE DEF h
      <4>2. QED BY <4>1, FS_Interval
    <3>4. QED BY <3>1, <3>2, <3>3
  <2>4. DOMAIN queue' = 0 .. n /\ \A i \in 0 .. n : queue'[i] = IF i = n THEN node ELSE queue[i]
    BY <1>1, <2>3
  <2>5. n + 1 \in 1 .. Counters /\ DOMAIN queue' = 0 .. n + 1 - 1 /\ (queueFull' <=> n + 1 = Counters)
    <3>1. n + 1 - 1 = n /\ n + 1 \in 1 .. Counters
      BY <1>2, <2>2
    <3>2. queueFull' <=> n + 1 = Counters
      BY <1>1, <2>3
    <3>3. QED BY <2>4, <3>1, <3>2
  <2>6. 0 .. n = DOMAIN queue \cup {n} /\ n \notin DOMAIN queue
    BY <2>1, <2>2
  <2>7. /\ \A i, j \in DOMAIN queue : queue[i] = queue[j] => i = j
        /\ {queue[i] : i \in DOMAIN queue} = M
    BY DEF LazyInv, QueueHolds
  <2>8. \A i \in DOMAIN queue : queue'[i] = queue[i] /\ queue[i] # node
    BY <1>1, <2>4, <2>6, <2>7
  <2>9. \A i, j \in DOMAIN queue' : queue'[i] = queue'[j] => i = j
    BY <2>4, <2>6, <2>7, <2>8
  <2>10. {queue'[i] : i \in DOMAIN queue'} = M \cup {node}
    BY <2>4, <2>6, <2>7, <2>8
  <2>11. \E k \in 1 .. Counters : DOMAIN queue' = 0 .. k - 1 /\ (queueFull' <=> k = Counters)
    BY <2>5
  <2>12. QED BY <2>9, <2>10, <2>11 DEF QueueHolds
<1>10. sentinel' = min' /\ min' = 0
  BY <1>1, <1>2 DEF LazyInv
<1>11. QED BY <1>1, <1>6, <1>7, <1>8, <1>9, <1>10 DEF LazyInv, e

\* What prune leaves of the tree T whose node v has lost its slot: what leads to a node
\* in M, which took the place of v with the node that was entered.
LEMMA VictimIsPruned ==
  ASSUME NEW T \in SUBSET Contexts, NEW v \in Contexts, NEW M \in SUBSET T,
         \A x \in T \ {Root} : \E y \in M \cup {v} : LeadsTo(x, y)
  PROVE  /\ Lss!Unpruned(v, T, M) \subseteq T
         /\ M \subseteq Lss!Unpruned(v, T, M)
         /\ \A x \in Lss!Unpruned(v, T, M) \ {Root} : \E y \in M : LeadsTo(x, y)
         /\ \A x \in T, y \in M : LeadsTo(x, y) => x \in Lss!Unpruned(v, T, M)
<1> DEFINE callers == {Prefix(v, i) : i \in 1 .. Len(v)}
           U == T \ {y \in callers : \A z \in T : LeadsTo(y, z) => z \in callers \ M}
<1>1. Lss!Unpruned(v, T, M) = U
  BY LazyConstants DEF Lss!Unpruned
<1>2. Len(v) \in Nat
  BY ContextsAreSequences
<1>3. callers \subseteq Contexts
  <2>1. \A i \in 1 .. Len(v) : i \in 0 .. Len(v)
    BY <1>2
  <2>2. QED BY <2>1, PrefixProperties
<1>4. \A x \in Contexts \ {Root} : LeadsTo(x, v) => x \in callers
  <2>1. SUFFICES ASSUME NEW x \in Contexts \ {Root}, LeadsTo(x, v) PROVE x \in callers
    OBVIOUS
  <2>2. Len(x) \in Nat /\ Len(x) # 0
    BY ContextsAreSequences, EmptySeq DEF Root
  <2>3. Len(x) \in 1 .. Len(v) /\ Prefix(v, Len(x)) = x
    BY <1>2, <2>1, <2>2 DEF LeadsTo
  <2>4. QED BY <2>3
<1> HIDE DEF callers
<1>5. \A x \in T, y \in M : LeadsTo(x, y) => x \in U
  OBVIOUS
<1>6. M \subseteq U
  BY LeadsToIsOrder
<1>7. ASSUME NEW x \in U \ {Root} PROVE \E y \in M : LeadsTo(x, y)
  <2>1. x \in T /\ x \in Contexts
    OBVIOUS
  <2>2. CASE x \notin callers
    <3>1. PICK y \in M \cup {v} : LeadsTo(x, y)
      BY <2>1
    <3>2. y # v
      BY <1>4, <2>1, <2>2, <3>1
    <3>3. QED BY <3>1, <3>2
  <2>3. CASE x \in callers
    <3>1. PICK z \in T : LeadsTo(x, z) /\ z \notin callers \ M
      BY <2>1, <2>3
    <3>2. CASE z \in M
      BY <3>1, <3>2
    <3>3. CASE z \notin callers
      <4>1. z \in Contexts /\ z # Root
        <5>1. Len(x) \in Nat /\ Len(x) # 0 /\ Len(x) <= Len(z)
          BY <2>1, <3>1, ContextsAreSequences, EmptySeq DEF Root, LeadsTo
        <5>2. Len(Root) = 0
          BY DEF Root
        <5>3. QED BY <5>1, <5>2
      <4>2. PICK y \in M \cup {v} : LeadsTo(z, y)
        BY <4>1
      <4>3. y # v
        BY <1>4, <3>3, <4>1, <4>2
      <4>4. LeadsTo(x, y)
        BY <2>1, <3>1, <4>1, <4>2, LeadsToIsOrder
      <4>5. QED BY <4>2, <4>3, <4>4
    <3>4. QED BY <3>1, <3>2, <3>3
  <2>4. QED BY <2>2, <2>3
<1>8. QED BY <1>1, <1>5, <1>6, <1>7

\* The node takes the slot of the minimum.
LEMMA EvictKeeps ==
  ASSUME LazyInv, NEW node \in Contexts, NEW inc \in Nat \ {0}, Counted(node, inc), node # Root,
         \A i \in 0 .. Len(node) : Prefix(node, i) \in DOMAIN lssCounter \cup {node},
         Lss!EnterEvict(node, inc)
  PROVE  LazyInv'
<1> DEFINE f == lssCounter
           e == lssCounter'
           M == lssMonitored
           v == queue[minIdx']
           N == (M \ {v}) \cup {node}
           T == DOMAIN f \cup {node}
           U == Lss!Unpruned(v, T, N)
<1>1. /\ node \notin M /\ queueFull /\ Lss!FindMin
      /\ lssMonitored' = N
      /\ e = [x \in U |-> IF x = node THEN min' + inc ELSE f[x]]
      /\ queue' = [queue EXCEPT ![minIdx'] = node]
      /\ UNCHANGED queueFull
  BY DEF Lss!EnterEvict, Lss!Nodes
<1>2. /\ DOMAIN f \subseteq Contexts /\ \A x \in DOMAIN f : f[x] \in Nat
      /\ M \subseteq DOMAIN f /\ min \in Nat /\ lssWeight \in Nat /\ Counters \in Nat \ {0, 1}
  BY <1>1, LazyConstants DEF LazyInv, LazyTypes, PrunedTree
<1>3. /\ lssTop' \in Contexts /\ lssFreq' \in [Contexts -> Nat] /\ lssWeight' \in Nat
      /\ lssBursting' \in BOOLEAN
      /\ \A x \in Contexts : /\ lssFreq[x] \in Nat /\ lssFreq'[x] \in Nat /\ lssFreq[x] <= lssFreq'[x]
                             /\ x = node => lssFreq'[x] = lssFreq[x] + inc
  BY CountedProperties
<1>4. /\ minIdx' \in 0 .. Counters - 1 /\ secondMinIdx' \in 0 .. Counters - 1
      /\ min' \in Nat /\ sentinel' = min' /\ min <= min'
      /\ \A x \in M : min' <= f[x]
  BY <1>1, FindMinProperties
<1>5. DOMAIN queue = 0 .. Counters - 1 /\ v \in M
  BY <1>1, <1>4, FullQueue
<1> HIDE DEF e, M, v, f
<1>6. /\ U \subseteq T /\ N \subseteq U
      /\ \A x \in U \ {Root} : \E y \in N : LeadsTo(x, y)
      /\ \A x \in T, y \in N : LeadsTo(x, y) => x \in U
  <2>1. T \in SUBSET Contexts /\ v \in Contexts /\ N \in SUBSET T
    BY <1>2, <1>5
  <2>2. ASSUME NEW x \in T \ {Root} PROVE \E y \in N \cup {v} : LeadsTo(x, y)
    <3>1. CASE x = node
      BY <3>1, LeadsToIsOrder
    <3>2. CASE x \in DOMAIN f
      <4>1. \E y \in M : LeadsTo(x, y)
        BY <3>2 DEF LazyInv, PrunedTree, f, M
      <4>2. QED BY <4>1
    <3>3. QED BY <3>1, <3>2
  <2> HIDE DEF T, N
  <2>3. QED BY <2>1, <2>2, VictimIsPruned
<1>7. DOMAIN e = U /\ \A x \in U : e[x] = IF x = node THEN min' + inc ELSE f[x]
  BY <1>1
<1> HIDE DEF U
<1>8. DOMAIN e \subseteq Contexts /\ \A x \in DOMAIN e : e[x] \in Nat
  BY <1>2, <1>4, <1>6, <1>7
<1>9. LazyTypes'
  <2>1. N \subseteq Contexts
    BY <1>6, <1>7, <1>8
  <2>2. queueFull' \in BOOLEAN
    BY <1>1 DEF LazyInv, LazyTypes
  <2>3. QED BY <1>1, <1>3, <1>4, <1>8, <2>1, <2>2 DEF LazyTypes, e
<1>10. CountersFit(e, N, min', lssFreq', lssWeight')
  <2>1. CountersFit(f, M, min, lssFreq, lssWeight)
    BY DEF LazyInv, f, M
  <2>2. \A x \in M : f[x] \in Nat
    BY <1>2
  <2>3. \A x \in N : e[x] = IF x = node THEN min' + inc ELSE f[x]
    BY <1>6, <1>7
  <2>4. \A x \in N : min' <= e[x]
    BY <1>4, <2>2, <2>3
  <2>5. \A x \in N \ {Root} : e[x] <= lssFreq'[x] + min'
    <3>1. TAKE x \in N \ {Root}
    <3>2. x \in Contexts
      BY <1>2
    <3>3. CASE x = node
      BY <1>3, <1>4, <2>3, <3>3
    <3>4. CASE x # node
      <4>1. x \in M /\ f[x] <= lssFreq[x] + min /\ f[x] \in Nat
        BY <2>1, <2>2, <3>4 DEF CountersFit
      <4>2. e[x] = f[x]
        BY <2>3, <3>4
      <4>3. QED BY <1>2, <1>3, <1>4, <3>2, <4>1, <4>2
    <3>5. QED BY <3>3, <3>4
  <2>6. IsFiniteSet(M) /\ SumOf(f, M) <= lssWeight + 1
    BY <2>1 DEF CountersFit
  <2>7. IsFiniteSet(M \ {v}) /\ IsFiniteSet(N)
    <3>1. IsFiniteSet(M \ {v})
      BY <2>6, FS_RemoveElement
    <3>2. IsFiniteSet((M \ {v}) \cup {node})
      BY <3>1, FS_AddElement
    <3>3. QED BY <3>1, <3>2
  <2>8. SumOf(f, M) = f[v] + SumOf(f, M \ {v}) /\ SumOf(f, M \ {v}) \in Int
    <3>1. \A x \in M : f[x] \in Int
      BY <2>2
    <3>2. SumOf(f, M) = f[v] + SumOf(f, M \ {v})
      BY <1>5, <2>6, <3>1, SumProperties
    <3> DEFINE L == M \ {v}
    <3>3. IsFiniteSet(L) /\ \A x \in L : f[x] \in Int
      BY <2>7, <3>1
    <3>4. SumOf(f, L) \in Int
      <4> HIDE DEF L
      <4>1. QED BY <3>3, SumProperties
    <3>5. QED BY <3>2, <3>4
  <2>9. SumOf(e, N) = e[node] + SumOf(e, N \ {node})
    <3>1. \A x \in N : e[x] \in Int
      BY <1>6, <1>7, <1>8
    <3>2. node \in N
      OBVIOUS
    <3> HIDE DEF N
    <3>3. QED BY <2>7, <3>1, <3>2, SumProperties
  <2>10. N \ {node} = M \ {v}
    BY <1>1 DEF M
  <2>11. SumOf(e, M \ {v}) = SumOf(f, M \ {v})
    <3> DEFINE L == M \ {v}
    <3>1. \A x \in L : e[x] = f[x]
      BY <1>1, <2>3 DEF M
    <3>2. IsFiniteSet(L)
      BY <2>7
    <3> HIDE DEF L
    <3>3. SumOf(e, L) = SumOf(f, L)
      BY <3>1, <3>2, SumOfSame
    <3>4. QED BY <3>3 DEF L
  <2>12. e[node] = min' + inc /\ f[v] \in Nat /\ min' <= f[v] /\ lssWeight' = lssWeight + inc
    BY <1>4, <1>5, <2>2, <2>3 DEF Counted
  <2>13. SumOf(e, N) <= lssWeight' + 1
    <3>1. SumOf(e, N) = (min' + inc) + SumOf(f, M \ {v})
      BY <2>9, <2>10, <2>11, <2>12
    <3>2. f[v] + SumOf(f, M \ {v}) <= lssWeight + 1
      BY <2>6, <2>8
    <3> DEFINE r == SumOf(f, M \ {v})
               s == SumOf(e, N)
               a == min'
               b == f[v]
               w == lssWeight
    <3>3. r \in Int /\ s = (a + inc) + r /\ b + r <= w + 1
      BY <2>8, <3>1, <3>2
    <3>4. /\ a \in Nat /\ b \in Nat /\ a <= b /\ w \in Nat /\ inc \in Nat
          /\ s = (a + inc) + r /\ b + r <= w + 1
      BY <1>2, <1>4, <2>12, <3>3
    <3>5. lssWeight' = w + inc
      BY <2>12
    <3> HIDE DEF r, s, a, b, w
    <3>6. s <= (w + inc) + 1
      BY <3>3, <3>4
    <3>7. QED BY <3>5, <3>6 DEF s
  <2>14. QED BY <2>4, <2>5, <2>7, <2>13 DEF CountersFit
<1>11. PrunedTree(DOMAIN e, N, lssTop')
  <2>1. lssTop' = node /\ Len(node) \in Nat
    BY ContextsAreSequences DEF Counted
  <2>2. ASSUME NEW i \in 0 .. Len(node) PROVE Prefix(node, i) \in U
    <3>1. Prefix(node, i) \in T
      BY DEF f
    <3>2. Prefix(node, i) \in Contexts /\ Len(Prefix(node, i)) = i
      BY PrefixProperties
    <3>3. LeadsTo(Prefix(node, i), node)
      BY <2>1, <3>2 DEF LeadsTo
    <3>4. QED BY <1>6, <3>1, <3>3
  <2>3. QED BY <1>6, <1>7, <2>1, <2>2 DEF PrunedTree
<1>12. QueueHolds(queue', queueFull', N)
  <2>1. /\ \E n \in 1 .. Counters : DOMAIN queue = 0 .. n - 1 /\ (queueFull <=> n = Counters)
        /\ \A i, j \in DOMAIN queue : queue[i] = queue[j] => i = j
        /\ {queue[i] : i \in DOMAIN queue} = M
    BY DEF LazyInv, QueueHolds, M
  <2>2. minIdx' \in DOMAIN queue /\ v = queue[minIdx']
    BY <1>4, <1>5 DEF v
  <2>3. /\ DOMAIN queue' = DOMAIN queue
        /\ \A i \in DOMAIN queue : queue'[i] = IF i = minIdx' THEN node ELSE queue[i]
    BY <1>1, <2>2
  <2>4. \A i \in DOMAIN queue : queue[i] # node
    BY <1>1, <2>1 DEF M
  <2>5. \A i, j \in DOMAIN queue' : queue'[i] = queue'[j] => i = j
    BY <2>1, <2>3, <2>4
  <2>6. {queue'[i] : i \in DOMAIN queue'} = N
    BY <2>1, <2>2, <2>3
  <2>7. \E n \in 1 .. Counters : DOMAIN queue' = 0 .. n - 1 /\ (queueFull' <=> n = Counters)
    BY <1>1, <2>1, <2>3
  <2>8. QED BY <2>5, <2>6, <2>7 DEF QueueHolds
<1>13. sentinel' = min' /\ (~queueFull' => min' = 0)
  BY <1>1, <1>4
<1>14. QED BY <1>1, <1>9, <1>10, <1>11, <1>12, <1>13 DEF LazyInv, e

\* One event of the trace.
LEMMA LazyEnterKeeps ==
  ASSUME LazyInv, NEW c \in Calls, NEW inc \in Nat \ {0}, Lss!Enter(c, inc)
  PROVE  LazyInv'
<1> DEFINE node == Append(lssTop, c)
<1>1. /\ Len(lssTop) < StackMaxDepth
      /\ Lss!EnterMonitored(node, inc) \/ Lss!EnterAdmit(node, inc) \/ Lss!EnterEvict(node, inc)
      /\ Counted(node, inc)
  BY DEF Lss!Enter, Counted
<1> HIDE DEF node
<1>2. /\ node \in Contexts /\ node # Root
      /\ \A i \in 0 .. Len(node) : Prefix(node, i) \in DOMAIN lssCounter \cup {node}
  BY <1>1, EnteredNode DEF node
<1>3. QED BY <1>1, <1>2, MonitoredKeeps, AdmitKeeps, EvictKeeps

\* A routine returns, a burst starts, or the output is written: the tree stays, and the
\* position is one of those above.
LEMMA LazyRestKeeps ==
  ASSUME LazyInv,
         \/ Lss!RtnExit \/ Lss!BurstStart \/ Lss!WriteOutput
         \/ UNCHANGED lssVars
  PROVE  LazyInv'
<1>1. lssTop \in Contexts /\ \A i \in 0 .. Len(lssTop) : Prefix(lssTop, i) \in DOMAIN lssCounter
  BY DEF LazyInv, LazyTypes, PrunedTree
<1>2. UNCHANGED <<lssCounter, lssMonitored, queue, queueFull, sentinel, min, minIdx, secondMinIdx,
                  lssBursting, lssFreq, lssWeight>>
  BY DEF Lss!RtnExit, Lss!BurstStart, Lss!WriteOutput, Lss!queueVars, lssVars
<1>3. \/ lssTop' = lssTop \/ lssTop' = Root
      \/ lssTop # Root /\ lssTop' = Caller(lssTop)
  BY LazyConstants DEF Lss!RtnExit, Lss!BurstStart, Lss!WriteOutput, lssVars
<1>4. lssTop' \in Contexts /\ \A i \in 0 .. Len(lssTop') : Prefix(lssTop', i) \in DOMAIN lssCounter
  <2>1. CASE lssTop' = lssTop
    BY <1>1, <2>1
  <2>2. CASE lssTop' = Root
    <3>1. Len(lssTop) \in Nat /\ Len(Root) = 0
      BY <1>1, ContextsAreSequences DEF Root
    <3>2. 0 \in 0 .. Len(lssTop) /\ Prefix(lssTop, 0) = Root /\ Prefix(Root, 0) = Root
      BY <1>1, <3>1, WholePrefix, RootContext
    <3>3. QED BY <1>1, <2>2, <3>1, <3>2, RootContext
  <2>3. CASE lssTop # Root /\ lssTop' = Caller(lssTop)
    <3>1. /\ Len(lssTop) >= 1 /\ Caller(lssTop) \in Contexts /\ Len(Caller(lssTop)) = Len(lssTop) - 1
          /\ \A i \in 0 .. Len(lssTop) - 1 : Prefix(Caller(lssTop), i) = Prefix(lssTop, i)
      BY <1>1, <2>3, CallerProperties
    <3>2. Len(lssTop) \in Nat
      BY <1>1, ContextsAreSequences
    <3>3. \A i \in 0 .. Len(lssTop) - 1 : i \in 0 .. Len(lssTop)
      BY <3>2
    <3>4. QED BY <1>1, <2>3, <3>1, <3>3
  <2>4. QED BY <1>3, <2>1, <2>2, <2>3
<1>5. LazyTypes'
  BY <1>2, <1>4 DEF LazyInv, LazyTypes
<1>6. PrunedTree(DOMAIN lssCounter', lssMonitored', lssTop')
  BY <1>2, <1>4 DEF LazyInv, PrunedTree
<1>7. QED BY <1>2, <1>5, <1>6 DEF LazyInv, CountersFit, QueueHolds

\* initialize puts the dummy root, with counter 1, in the first slot of the queue.
LEMMA LazyInit == Lss!Init => LazyInv
<1> SUFFICES ASSUME Lss!Init PROVE LazyInv
  OBVIOUS
<1>1. /\ lssCounter = [x \in {Root} |-> 1] /\ lssMonitored = {Root} /\ queue = [i \in {0} |-> Root]
      /\ queueFull = FALSE /\ sentinel = 0 /\ min = 0 /\ minIdx = Counters - 1 /\ secondMinIdx = 0
      /\ lssTop = Root /\ lssBursting \in BOOLEAN /\ lssFreq = [x \in Contexts |-> 0] /\ lssWeight = 0
  BY LazyConstants DEF Lss!Init
<1>2. Counters \in Nat \ {0, 1} /\ Root \in Contexts
  BY LazyConstants, RootContext
<1>3. LazyTypes
  <2>1. /\ DOMAIN lssCounter \subseteq Contexts /\ \A x \in DOMAIN lssCounter : lssCounter[x] \in Nat
        /\ lssFreq \in [Contexts -> Nat]
    BY <1>1, <1>2
  <2>2. minIdx \in 0 .. Counters - 1 /\ secondMinIdx \in 0 .. Counters - 1
    BY <1>1, <1>2
  <2>3. lssMonitored \subseteq Contexts /\ lssTop \in Contexts
    BY <1>1, <1>2
  <2>4. queueFull \in BOOLEAN /\ sentinel \in Nat /\ min \in Nat /\ lssWeight \in Nat
    BY <1>1
  <2>5. QED BY <1>1, <2>1, <2>2, <2>3, <2>4 DEF LazyTypes
<1>4. QueueHolds(queue, queueFull, lssMonitored)
  <2>1. 1 \in 1 .. Counters /\ DOMAIN queue = 0 .. 1 - 1 /\ (queueFull <=> 1 = Counters)
    BY <1>1, <1>2
  <2>2. \E n \in 1 .. Counters : DOMAIN queue = 0 .. n - 1 /\ (queueFull <=> n = Counters)
    BY <2>1
  <2>3. QED BY <1>1, <2>2 DEF QueueHolds
<1>5. CountersFit(lssCounter, lssMonitored, min, lssFreq, lssWeight)
  <2>1. IsFiniteSet({Root}) /\ {Root} \ {Root} = {}
    BY FS_Singleton
  <2>2. SumOf(lssCounter, {Root}) = lssCounter[Root] + SumOf(lssCounter, {Root} \ {Root})
    <3>1. \A x \in {Root} : lssCounter[x] \in Int
      BY <1>1
    <3> DEFINE S == {Root}
    <3>2. Root \in S
      OBVIOUS
    <3> HIDE DEF S
    <3>3. SumOf(lssCounter, S) = lssCounter[Root] + SumOf(lssCounter, S \ {Root})
      BY <2>1, <3>1, <3>2, SumProperties DEF S
    <3>4. QED BY <3>3 DEF S
  <2>3. SumOf(lssCounter, {Root}) = 1
    BY <1>1, <2>1, <2>2, SumOfNone
  <2>4. QED BY <1>1, <2>1, <2>3 DEF CountersFit
<1>6. PrunedTree(DOMAIN lssCounter, lssMonitored, lssTop)
  <2>1. Len(Root) = 0 /\ Prefix(Root, 0) = Root
    BY WholePrefix, RootContext DEF Root
  <2>2. QED BY <1>1, <2>1 DEF PrunedTree
<1>7. QED BY <1>1, <1>3, <1>4, <1>5, <1>6 DEF LazyInv

\* Each operation of lss-hcct.c keeps the invariant.
LEMMA LazyStepKeeps == LazyInv /\ [Lss!Next]_lssVars => LazyInv'
<1> SUFFICES ASSUME LazyInv, [Lss!Next]_lssVars PROVE LazyInv'
  OBVIOUS
<1>1. ASSUME NEW c \in Calls, Lss!RtnEnter(c) PROVE LazyInv'
  BY <1>1, LazyEnterKeeps DEF Lss!RtnEnter
<1>2. ASSUME NEW c \in Calls, NEW inc \in Increments \cup {1}, Lss!RtnEnterWc(c, inc) PROVE LazyInv'
  <2>1. inc \in Nat \ {0}
    BY LazyConstants
  <2>2. QED BY <1>2, <2>1, LazyEnterKeeps DEF Lss!RtnEnterWc
<1>3. QED BY <1>1, <1>2, LazyRestKeeps DEF Lss!Next

\* The sum of the model is that of the invariant.
LEMMA LazySum ==
  Lss!MapThenSumSet(LAMBDA x : lssCounter[x], lssMonitored) = SumOf(lssCounter, lssMonitored)
  BY DEF Lss!MapThenSumSet, Lss!MapThenFoldSet, SumOf, IsSum, Pick

\* The numbers of slots and of monitored nodes.
LEMMA LazySize ==
  ASSUME LazyInv
  PROVE  Lss!NumItems = Cardinality(lssMonitored) /\ (queueFull <=> Lss!NumItems = Counters)
<1>1. PICK n \in 1 .. Counters : DOMAIN queue = 0 .. n - 1 /\ (queueFull <=> n = Counters)
  BY DEF LazyInv, QueueHolds
<1>2. /\ \A i, j \in DOMAIN queue : queue[i] = queue[j] => i = j
      /\ {queue[i] : i \in DOMAIN queue} = lssMonitored
  BY DEF LazyInv, QueueHolds
<1>3. n \in Nat /\ n >= 1
  BY LazyConstants
<1> DEFINE I == 0 .. n - 1
           f == [i \in I |-> queue[i]]
<1>4. IsFiniteSet(I) /\ Cardinality(I) = n
  <2>1. 0 \in Int /\ n - 1 \in Int /\ ~ (0 > n - 1) /\ n - 1 - 0 + 1 = n
    BY <1>3
  <2> DEFINE h == n - 1
  <2>2. IsFiniteSet(0 .. h) /\ Cardinality(0 .. h) = IF 0 > h THEN 0 ELSE h - 0 + 1
    <3>1. h \in Int
      BY <2>1
    <3> HIDE DEF h
    <3>2. QED BY <3>1, FS_Interval
  <2>3. QED BY <2>1, <2>2
<1>5. Lss!NumItems = n
  BY <1>1, <1>4 DEF Lss!NumItems, Lss!Cardinality, Cardinality
<1>6. f \in Bijection(I, lssMonitored)
  <2>1. f \in [I -> lssMonitored]
    BY <1>1, <1>2
  <2>2. \A i, j \in I : f[i] = f[j] => i = j
    BY <1>1, <1>2
  <2>3. \A x \in lssMonitored : \E i \in I : f[i] = x
    BY <1>1, <1>2
  <2> HIDE DEF I, f
  <2>4. f \in Injection(I, lssMonitored)
    BY <2>1, <2>2 DEF Injection, IsInjective
  <2>5. f \in Surjection(I, lssMonitored)
    BY <2>1, <2>3 DEF Surjection
  <2>6. QED BY <2>4, <2>5 DEF Bijection
<1> HIDE DEF I, f
<1>7. Cardinality(lssMonitored) = n
  <2>1. ExistsBijection(I, lssMonitored)
    BY <1>6 DEF ExistsBijection
  <2>2. QED BY <1>4, <2>1, FS_Bijection
<1>8. QED BY <1>1, <1>5, <1>7

\* The invariant implies what the runs check.
LEMMA LazyInvImplies ==
  LazyInv => /\ Lss!TypeOK
             /\ Lss!QueueHoldsMonitored /\ Lss!TreeIsPruned /\ Lss!CountersAreBounded
<1> SUFFICES ASSUME LazyInv
             PROVE  /\ Lss!TypeOK
                    /\ Lss!QueueHoldsMonitored /\ Lss!TreeIsPruned /\ Lss!CountersAreBounded
  OBVIOUS
<1>1. Counters \in Nat \ {0, 1}
  BY LazyConstants
<1>2. PICK n \in 1 .. Counters : DOMAIN queue = 0 .. n - 1
  BY DEF LazyInv, QueueHolds
<1>3. /\ LazyTypes /\ QueueHolds(queue, queueFull, lssMonitored)
      /\ sentinel = min /\ (~queueFull => min = 0)
      /\ CountersFit(lssCounter, lssMonitored, min, lssFreq, lssWeight)
      /\ PrunedTree(DOMAIN lssCounter, lssMonitored, lssTop)
  BY DEF LazyInv
<1>4. DOMAIN queue \subseteq 0 .. Counters - 1
  BY <1>1, <1>2
<1>5. \A i \in DOMAIN queue : queue[i] \in Contexts
  BY <1>3 DEF QueueHolds, LazyTypes
<1>6. Lss!TypeOK
  BY <1>3, <1>4, <1>5, LazyConstants DEF Lss!TypeOK, Lss!Nodes, LazyTypes
<1>7. queueFull \in BOOLEAN /\ (queueFull <=> Lss!NumItems = Counters)
  BY <1>3, LazySize DEF LazyTypes
<1>8. Lss!QueueHoldsMonitored
  <2>1. queueFull = (Lss!NumItems = Counters)
    BY <1>7
  <2>2. \A x \in lssMonitored : lssCounter[x] >= min
    <3>1. TAKE x \in lssMonitored
    <3>2. min <= lssCounter[x]
      BY <1>3 DEF CountersFit
    <3>3. QED BY <3>2
  <2>3. QED BY <1>3, <2>1, <2>2 DEF Lss!QueueHoldsMonitored, QueueHolds
<1>9. Lss!TreeIsPruned
  BY <1>3, LazyConstants DEF Lss!TreeIsPruned, PrunedTree, Lss!Nodes
<1>10. Lss!CountersAreBounded
  <2>1. \A x \in lssMonitored \ {Root} : lssCounter[x] <= lssFreq[x] + min
    BY <1>3 DEF CountersFit
  <2>2. SumOf(lssCounter, lssMonitored) <= lssWeight + 1 /\ IsFiniteSet(lssMonitored)
    BY <1>3 DEF CountersFit
  <2>3. min \in Nat /\ lssWeight \in Nat
    BY <1>3 DEF LazyTypes
  <2>4. \A x \in lssMonitored : lssCounter[x] \in Nat /\ min <= lssCounter[x]
    BY <1>3 DEF LazyTypes, PrunedTree, CountersFit
  <2>5. min * Counters <= lssWeight + 1
    <3>1. CASE ~queueFull
      <4>1. min * Counters = 0
        BY <1>1, <1>3, <3>1
      <4>2. QED BY <2>3, <4>1
    <3>2. CASE queueFull
      <4>1. Cardinality(lssMonitored) = Counters
        BY <1>7, <3>2, LazySize
      <4>2. min * Cardinality(lssMonitored) <= SumOf(lssCounter, lssMonitored)
        BY <2>2, <2>3, <2>4, SumAtLeast
      <4>3. SumOf(lssCounter, lssMonitored) \in Int
        BY <2>2, <2>4, SumProperties
      <4>4. min * Counters \in Int /\ min * Counters <= SumOf(lssCounter, lssMonitored)
        BY <1>1, <2>3, <4>1, <4>2
      <4> DEFINE p == min * Counters
                 r == SumOf(lssCounter, lssMonitored)
      <4>5. p \in Int /\ r \in Int /\ p <= r /\ r <= lssWeight + 1
        BY <2>2, <4>3, <4>4
      <4> HIDE DEF p, r
      <4>6. p <= lssWeight + 1
        BY <2>3, <4>5
      <4>7. QED BY <4>6 DEF p
    <3>3. QED BY <3>1, <3>2
  <2>6. Lss!MapThenSumSet(LAMBDA x : lssCounter[x], lssMonitored) <= lssWeight + 1
    BY <2>2, LazySum
  <2>7. QED BY <2>1, <2>5, <2>6, LazyConstants DEF Lss!CountersAreBounded
<1>11. QED BY <1>6, <1>8, <1>9, <1>10

\* Of all programs of the trace analyzer together.
LEMMA LazyProgram == TraceTrees => [](program = "lss-hcct" => LazyInv)
<1> DEFINE I == program = "lss-hcct" => LazyInv
<1>1. TraceTreesInit => I
  BY LazyInit DEF TraceTreesInit
<1>2. I /\ [TraceTreesNext]_<<program, vars, bssVars, lssVars, burstVars>> => I'
  <2>1. SUFFICES ASSUME I, [TraceTreesNext]_<<program, vars, bssVars, lssVars, burstVars>>,
                        program' = "lss-hcct"
                 PROVE  LazyInv'
    OBVIOUS
  <2>2. program = "lss-hcct" /\ [Lss!Next]_lssVars
    BY <2>1 DEF TraceTreesNext
  <2>3. QED BY <2>1, <2>2, LazyStepKeeps
<1>3. QED BY <1>1, <1>2, PTL DEF TraceTrees

-----------------------------------------------------------------------------
(* BssHcct: the doubly linked lists of buckets and of their nodes hold the  *)
(* monitored nodes, and implement Space Saving, for every epsilon.          *)

\* On a finite set a function with numbers as values has a least value.
LEMMA LeastValue ==
  ASSUME NEW S, IsFiniteSet(S), S # {}, NEW f, \A x \in S : f[x] \in Int
  PROVE  \E x \in S : \A y \in S : f[x] <= f[y]
<1> DEFINE Q(n) == \A s \in SUBSET S :
                     Cardinality(s) = n /\ s # {} => \E x \in s : \A y \in s : f[x] <= f[y]
           T == {n \in Nat : Q(n)}
<1>1. \A s \in SUBSET S : IsFiniteSet(s) /\ Cardinality(s) \in Nat
  BY FS_Subset, FS_CardinalityType
<1>2. ASSUME NEW n \in Nat, \A k \in 0 .. n - 1 : k \in T
      PROVE  n \in T
  <2>1. SUFFICES ASSUME NEW s \in SUBSET S, Cardinality(s) = n, s # {}
                 PROVE  \E x \in s : \A y \in s : f[x] <= f[y]
    OBVIOUS
  <2>2. PICK a \in s : TRUE
    BY <2>1
  <2>3. Cardinality(s \ {a}) \in 0 .. n - 1
    <3>1. Cardinality(s \ {a}) = n - 1
      BY <1>1, <2>1, <2>2, FS_RemoveElement
    <3>2. Cardinality(s \ {a}) \in Nat
      BY <1>1
    <3>3. QED BY <3>1, <3>2
  <2>4. CASE s \ {a} = {}
    BY <2>2, <2>4
  <2>5. CASE s \ {a} # {}
    <3>1. PICK x \in s \ {a} : \A y \in s \ {a} : f[x] <= f[y]
      BY <1>2, <2>3, <2>5
    <3>2. f[x] \in Int /\ f[a] \in Int /\ \A y \in s : f[y] \in Int
      BY <2>2
    <3>3. CASE f[x] <= f[a]
      BY <3>1, <3>2, <3>3
    <3>4. CASE f[a] <= f[x]
      BY <2>2, <3>1, <3>2, <3>4
    <3>5. QED BY <3>2, <3>3, <3>4
  <2>6. QED BY <2>4, <2>5
<1>3. T = Nat
  <2> HIDE DEF Q
  <2>1. QED BY <1>2, NatInductionBySets
<1>4. Cardinality(S) \in T
  BY <1>1, <1>3
<1>5. QED BY <1>4

\* What the constants are, without the names of the instance.
LEMMA BssConstants ==
  /\ Null \notin Contexts \cup 1 .. Counters + 1 /\ Counters \in Nat \ {0} /\ MaxEvents \in Nat
  /\ Bss!Contexts = Contexts /\ Bss!Root = Root
  /\ \A x, i : Bss!Prefix(x, i) = Prefix(x, i)
  /\ \A x : Bss!Caller(x) = Caller(x)
  /\ \A x, y : Bss!LeadsTo(x, y) = LeadsTo(x, y)
  BY BssAssumption DEF Bss!ConstantsAssumption, Bss!Contexts, Contexts, Bss!Root, Root, Bss!Prefix, Prefix,
     Bss!Caller, Caller, Bss!LeadsTo, LeadsTo

-----------------------------------------------------------------------------
(* The nodes of a bucket.                                                  *)

\* The nodes in L, of h, are linked in the buckets of k, each of which has its first
\* node; r gives the nodes of a bucket an order, so that there is no cycle.
NodesLinked(h, k, L, r) ==
  /\ \A x \in L : h[x].bucket \in DOMAIN k /\ r[x] \in Int
  /\ \A x \in L : h[x].next # Null =>
       /\ h[x].next \in L /\ h[h[x].next].bucket = h[x].bucket
       /\ h[h[x].next].prev = x /\ r[x] < r[h[x].next]
  /\ \A x \in L : h[x].prev # Null =>
       /\ h[x].prev \in L /\ h[h[x].prev].bucket = h[x].bucket
       /\ h[h[x].prev].next = x
  /\ \A x \in L : h[x].prev = Null <=> k[h[x].bucket].node = x
  /\ \A b \in DOMAIN k : k[b].node # Null => k[b].node \in L /\ h[k[b].node].bucket = b

\* A node is put in front of the list of b, which may be a new bucket.
PutFirst(g, m, h, k, L, b, s, x) ==
  /\ L \subseteq Contexts /\ x \in Contexts /\ x \notin L
  /\ DOMAIN m = DOMAIN k \cup {b} /\ m[b].node = x
  /\ \A c \in DOMAIN k : c # b => m[c].node = k[c].node
  /\ \/ b \in DOMAIN k /\ s = k[b].node
     \/ b \notin DOMAIN k /\ s = Null
  /\ g[x].bucket = b /\ g[x].next = s /\ g[x].prev = Null
  /\ \A y \in L : /\ g[y].bucket = h[y].bucket /\ g[y].next = h[y].next
                  /\ g[y].prev = IF y = s THEN x ELSE h[y].prev

\* The node is then linked, as the first of its bucket.
LEMMA LinkFirst ==
  ASSUME NEW h, NEW k, NEW L, NEW r, NodesLinked(h, k, L, r),
         NEW g, NEW m, NEW b, NEW s, NEW x, PutFirst(g, m, h, k, L, b, s, x)
  PROVE  \E q : NodesLinked(g, m, L \cup {x}, q)
<1>0. /\ L \subseteq Contexts /\ x \in Contexts /\ x \notin L
      /\ DOMAIN m = DOMAIN k \cup {b} /\ m[b].node = x
      /\ \A c \in DOMAIN k : c # b => m[c].node = k[c].node
      /\ \/ b \in DOMAIN k /\ s = k[b].node
         \/ b \notin DOMAIN k /\ s = Null
      /\ g[x].bucket = b /\ g[x].next = s /\ g[x].prev = Null
      /\ \A y \in L : /\ g[y].bucket = h[y].bucket /\ g[y].next = h[y].next
                      /\ g[y].prev = IF y = s THEN x ELSE h[y].prev
  BY DEF PutFirst
<1> USE <1>0
<1>1. Null \notin Contexts
  BY BssConstants
<1>2. /\ \A y \in L : h[y].bucket \in DOMAIN k /\ r[y] \in Int
      /\ \A y \in L : h[y].next # Null =>
           /\ h[y].next \in L /\ h[h[y].next].bucket = h[y].bucket
           /\ h[h[y].next].prev = y /\ r[y] < r[h[y].next]
      /\ \A y \in L : h[y].prev # Null =>
           /\ h[y].prev \in L /\ h[h[y].prev].bucket = h[y].bucket
           /\ h[h[y].prev].next = y
      /\ \A y \in L : h[y].prev = Null <=> k[h[y].bucket].node = y
      /\ \A c \in DOMAIN k : k[c].node # Null => k[c].node \in L /\ h[k[c].node].bucket = c
  BY DEF NodesLinked
<1>3. s # Null => s \in L /\ h[s].bucket = b /\ h[s].prev = Null
  BY <1>2
<1> DEFINE q == [y \in L \cup {x} |-> IF y = x THEN (IF s = Null THEN 0 ELSE r[s] - 1) ELSE r[y]]
<1>4. q[x] = (IF s = Null THEN 0 ELSE r[s] - 1) /\ \A y \in L : q[y] = r[y]
  OBVIOUS
<1>5. \A y \in L \cup {x} : q[y] \in Int
  BY <1>2, <1>3, <1>4
<1>6. s # Null => q[x] < q[s]
  <2>1. SUFFICES ASSUME s # Null PROVE q[x] < q[s]
    OBVIOUS
  <2>2. s \in L /\ r[s] \in Int
    BY <1>2, <1>3, <2>1
  <2>3. q[x] = r[s] - 1 /\ q[s] = r[s]
    BY <1>4, <2>1, <2>2
  <2> HIDE DEF q
  <2>4. QED BY <2>2, <2>3
<1> HIDE DEF q
<1>7. \A y \in L \cup {x} : g[y].bucket \in DOMAIN m
  BY <1>2
<1>8. ASSUME NEW y \in L \cup {x}, g[y].next # Null
      PROVE  /\ g[y].next \in L \cup {x} /\ g[g[y].next].bucket = g[y].bucket
             /\ g[g[y].next].prev = y /\ q[y] < q[g[y].next]
  <2>1. CASE y = x
    BY <1>3, <1>6, <1>8, <2>1
  <2>2. CASE y # x
    <3>1. y \in L /\ g[y].next = h[y].next /\ h[y].next \in L
      BY <1>2, <1>8, <2>2
    <3>2. h[h[y].next].bucket = h[y].bucket /\ h[h[y].next].prev = y /\ r[y] < r[h[y].next]
      BY <1>2, <1>8, <3>1
    <3>3. h[y].next # s
      BY <1>1, <1>3, <3>1, <3>2
    <3>4. QED BY <1>4, <3>1, <3>2, <3>3
  <2>3. QED BY <2>1, <2>2
<1>9. ASSUME NEW y \in L \cup {x}, g[y].prev # Null
      PROVE  /\ g[y].prev \in L \cup {x} /\ g[g[y].prev].bucket = g[y].bucket
             /\ g[g[y].prev].next = y
  <2>1. y \in L
    BY <1>9
  <2>2. CASE y = s
    BY <1>1, <1>3, <2>1, <2>2
  <2>3. CASE y # s
    <3>1. g[y].prev = h[y].prev /\ h[y].prev # Null
      BY <1>9, <2>1, <2>3
    <3>2. h[y].prev \in L /\ h[h[y].prev].bucket = h[y].bucket /\ h[h[y].prev].next = y
      BY <1>2, <2>1, <3>1
    <3>3. QED BY <2>1, <3>1, <3>2
  <2>4. QED BY <2>2, <2>3
<1>10. ASSUME NEW y \in L \cup {x} PROVE g[y].prev = Null <=> m[g[y].bucket].node = y
  <2>1. CASE y = x
    BY <2>1
  <2>2. CASE y # x /\ y = s
    <3>1. y \in L /\ h[y].bucket = b
      BY <1>1, <1>3, <2>2
    <3>2. QED BY <1>1, <2>2, <3>1
  <2>3. CASE y # x /\ y # s /\ h[y].bucket = b
    <3>1. y \in L /\ b \in DOMAIN k /\ g[y].prev = h[y].prev /\ g[y].bucket = b
      BY <1>2, <2>3
    <3>2. k[b].node # y
      BY <2>3, <3>1
    <3>3. QED BY <1>2, <2>3, <3>1, <3>2
  <2>4. CASE y # x /\ y # s /\ h[y].bucket # b
    BY <1>2, <2>4
  <2>5. QED BY <2>1, <2>2, <2>3, <2>4
<1>11. \A c \in DOMAIN m : m[c].node # Null => m[c].node \in L \cup {x} /\ g[m[c].node].bucket = c
  BY <1>1, <1>2
<1>12. NodesLinked(g, m, L \cup {x}, q)
  BY <1>5, <1>7, <1>8, <1>9, <1>10, <1>11 DEF NodesLinked
<1>13. QED BY <1>12

\* A node is taken from the list of its bucket.
TakenOut(g, m, h, k, L, x) ==
  /\ L \subseteq Contexts /\ x \in L /\ DOMAIN m = DOMAIN k
  /\ \A c \in DOMAIN k :
       m[c].node = IF h[x].prev = Null /\ c = h[x].bucket THEN h[x].next ELSE k[c].node
  /\ \A y \in L \ {x} :
       /\ g[y].bucket = h[y].bucket
       /\ g[y].next = IF y = h[x].prev THEN h[x].next ELSE h[y].next
       /\ g[y].prev = IF y = h[x].next THEN h[x].prev ELSE h[y].prev

\* The other nodes stay linked as they were.
LEMMA Unlink ==
  ASSUME NEW h, NEW k, NEW L, NEW r, NodesLinked(h, k, L, r),
         NEW g, NEW m, NEW x, TakenOut(g, m, h, k, L, x)
  PROVE  NodesLinked(g, m, L \ {x}, r)
<1>0. /\ L \subseteq Contexts /\ x \in L /\ DOMAIN m = DOMAIN k
      /\ \A c \in DOMAIN k :
           m[c].node = IF h[x].prev = Null /\ c = h[x].bucket THEN h[x].next ELSE k[c].node
      /\ \A y \in L \ {x} :
           /\ g[y].bucket = h[y].bucket
           /\ g[y].next = IF y = h[x].prev THEN h[x].next ELSE h[y].next
           /\ g[y].prev = IF y = h[x].next THEN h[x].prev ELSE h[y].prev
  BY DEF TakenOut
<1> USE <1>0
<1>1. Null \notin Contexts
  BY BssConstants
<1>2. /\ \A y \in L : h[y].bucket \in DOMAIN k /\ r[y] \in Int
      /\ \A y \in L : h[y].next # Null =>
           /\ h[y].next \in L /\ h[h[y].next].bucket = h[y].bucket
           /\ h[h[y].next].prev = y /\ r[y] < r[h[y].next]
      /\ \A y \in L : h[y].prev # Null =>
           /\ h[y].prev \in L /\ h[h[y].prev].bucket = h[y].bucket
           /\ h[h[y].prev].next = y
      /\ \A y \in L : h[y].prev = Null <=> k[h[y].bucket].node = y
      /\ \A c \in DOMAIN k : k[c].node # Null => k[c].node \in L /\ h[k[c].node].bucket = c
  BY DEF NodesLinked
<1> DEFINE p == h[x].prev
           s == h[x].next
<1>3. s # Null => s \in L /\ h[s].bucket = h[x].bucket /\ h[s].prev = x /\ r[x] < r[s] /\ s # x
  BY <1>2
<1>4. p # Null => p \in L /\ h[p].bucket = h[x].bucket /\ h[p].next = x /\ p # x /\ r[p] < r[x]
  <2>1. SUFFICES ASSUME p # Null
                 PROVE  p \in L /\ h[p].bucket = h[x].bucket /\ h[p].next = x /\ p # x /\ r[p] < r[x]
    OBVIOUS
  <2>2. p \in L /\ h[p].bucket = h[x].bucket /\ h[p].next = x /\ x # Null
    BY <1>1, <1>2, <2>1
  <2>3. r[p] < r[x] /\ r[x] \in Int
    BY <1>2, <2>2
  <2>4. QED BY <2>2, <2>3
<1>5. p = s => p = Null
  BY <1>2, <1>3, <1>4
<1> HIDE DEF p, s
<1>6. \A y \in L \ {x} : g[y].bucket \in DOMAIN m /\ r[y] \in Int
  BY <1>2
<1>7. ASSUME NEW y \in L \ {x}, g[y].next # Null
      PROVE  /\ g[y].next \in L \ {x} /\ g[g[y].next].bucket = g[y].bucket
             /\ g[g[y].next].prev = y /\ r[y] < r[g[y].next]
  <2>1. CASE y = p
    <3>1. g[y].next = s /\ s # Null /\ s \in L \ {x} /\ p # Null
      BY <1>1, <1>3, <1>7, <2>1 DEF p, s
    <3>2. g[s].prev = p
      BY <3>1 DEF p, s
    <3>3. r[p] \in Int /\ r[x] \in Int /\ r[s] \in Int
      BY <1>2, <2>1, <3>1
    <3>4. r[p] < r[s]
      BY <1>3, <1>4, <3>1, <3>3
    <3>5. g[s].bucket = h[s].bucket /\ g[y].bucket = h[y].bucket
      BY <3>1
    <3>6. QED BY <1>3, <1>4, <2>1, <3>1, <3>2, <3>4, <3>5
  <2>2. CASE y # p
    <3>1. g[y].next = h[y].next
      BY <2>2 DEF p
    <3>2. /\ h[y].next \in L /\ h[h[y].next].bucket = h[y].bucket
          /\ h[h[y].next].prev = y /\ r[y] < r[h[y].next]
      BY <1>2, <1>7, <3>1
    <3>3. h[y].next # x
      BY <2>2, <3>2 DEF p
    <3>4. h[y].next # s
      BY <1>1, <1>3, <3>2
    <3>5. QED BY <3>1, <3>2, <3>3, <3>4 DEF s
  <2>3. QED BY <2>1, <2>2
<1>8. ASSUME NEW y \in L \ {x}, g[y].prev # Null
      PROVE  /\ g[y].prev \in L \ {x} /\ g[g[y].prev].bucket = g[y].bucket
             /\ g[g[y].prev].next = y
  <2>1. CASE y = s
    <3>1. g[y].prev = p /\ p # Null /\ p \in L \ {x} /\ s # Null
      BY <1>1, <1>4, <1>8, <2>1 DEF p, s
    <3>2. g[p].next = s /\ g[p].bucket = h[p].bucket /\ g[y].bucket = h[y].bucket
      BY <3>1 DEF p, s
    <3>3. QED BY <1>3, <1>4, <2>1, <3>1, <3>2
  <2>2. CASE y # s
    <3>1. g[y].prev = h[y].prev
      BY <2>2 DEF s
    <3>2. h[y].prev \in L /\ h[h[y].prev].bucket = h[y].bucket /\ h[h[y].prev].next = y
      BY <1>2, <1>8, <3>1
    <3>3. h[y].prev # x
      BY <2>2, <3>2 DEF s
    <3>4. h[y].prev # p
      BY <1>1, <1>4, <3>2
    <3>5. QED BY <3>1, <3>2, <3>3, <3>4 DEF p
  <2>3. QED BY <2>1, <2>2
<1>9. ASSUME NEW y \in L \ {x} PROVE g[y].prev = Null <=> m[g[y].bucket].node = y
  <2>1. g[y].bucket = h[y].bucket /\ h[y].bucket \in DOMAIN k
    BY <1>2
  <2>2. CASE y = s
    <3>1. g[y].prev = p /\ h[y].bucket = h[x].bucket /\ h[y].prev = x
      BY <1>1, <1>3, <2>2 DEF p, s
    <3>2. CASE p = Null
      <4>1. m[h[y].bucket].node = s
        BY <2>1, <3>1, <3>2 DEF p, s
      <4>2. QED BY <2>1, <2>2, <3>1, <3>2, <4>1
    <3>3. CASE p # Null
      <4>1. m[h[y].bucket].node = k[h[y].bucket].node
        BY <2>1, <3>3 DEF p
      <4>2. k[h[y].bucket].node # y
        BY <1>1, <1>2, <3>1
      <4>3. QED BY <2>1, <3>1, <3>3, <4>1, <4>2
    <3>4. QED BY <3>2, <3>3
  <2>3. CASE y # s
    <3>1. g[y].prev = h[y].prev /\ (h[y].prev = Null <=> k[h[y].bucket].node = y)
      BY <1>2, <2>3 DEF s
    <3>2. CASE p = Null /\ h[y].bucket = h[x].bucket
      <4>1. m[h[y].bucket].node = s /\ k[h[y].bucket].node = x
        BY <1>2, <2>1, <3>2 DEF p, s
      <4>2. QED BY <2>1, <2>3, <3>1, <4>1
    <3>3. CASE ~ (p = Null /\ h[y].bucket = h[x].bucket)
      <4>1. m[h[y].bucket].node = k[h[y].bucket].node
        BY <2>1, <3>3 DEF p
      <4>2. QED BY <2>1, <3>1, <4>1
    <3>4. QED BY <3>2, <3>3
  <2>4. QED BY <2>2, <2>3
<1>10. ASSUME NEW c \in DOMAIN m, m[c].node # Null
       PROVE  m[c].node \in L \ {x} /\ g[m[c].node].bucket = c
  <2>1. CASE p = Null /\ c = h[x].bucket
    <3>1. m[c].node = s /\ s # Null
      BY <1>10, <2>1 DEF p, s
    <3>2. QED BY <1>3, <2>1, <3>1
  <2>2. CASE ~ (p = Null /\ c = h[x].bucket)
    <3>1. m[c].node = k[c].node /\ k[c].node \in L /\ h[k[c].node].bucket = c
      BY <1>2, <1>10, <2>2 DEF p
    <3>2. k[c].node # x
      BY <1>2, <2>2, <3>1 DEF p
    <3>3. QED BY <3>1, <3>2
  <2>3. QED BY <2>1, <2>2
<1>11. QED BY <1>6, <1>7, <1>8, <1>9, <1>10 DEF NodesLinked

\* A bucket without a first node has none at all.
LEMMA EmptyBucket ==
  ASSUME NEW h, NEW k, NEW L, IsFiniteSet(L), NEW r, NodesLinked(h, k, L, r),
         NEW b \in DOMAIN k, k[b].node = Null, Null \notin L
  PROVE  \A x \in L : h[x].bucket # b
<1> DEFINE S == {x \in L : h[x].bucket = b}
<1>1. SUFFICES ASSUME S # {} PROVE FALSE
  OBVIOUS
<1>2. IsFiniteSet(S) /\ \A x \in S : r[x] \in Int
  BY FS_Subset DEF NodesLinked
<1>3. PICK x \in S : \A y \in S : r[x] <= r[y]
  <2> HIDE DEF S
  <2>1. QED BY <1>1, <1>2, LeastValue
<1>4. h[x].prev # Null
  BY DEF NodesLinked
<1>5. h[x].prev \in S /\ h[h[x].prev].next = x
  BY <1>4 DEF NodesLinked
<1>6. r[h[x].prev] < r[x]
  <2>1. h[x].prev \in L /\ h[h[x].prev].next # Null
    BY <1>5
  <2>2. QED BY <1>5, <2>1 DEF NodesLinked
<1>7. QED BY <1>2, <1>3, <1>5, <1>6

\* In full buckets there are as many nodes as buckets, or more.
LEMMA BucketsAreFew ==
  ASSUME NEW h, NEW k, NEW L, IsFiniteSet(L), NEW r, NodesLinked(h, k, L, r),
         \A b \in DOMAIN k : k[b].node # Null
  PROVE  IsFiniteSet(DOMAIN k) /\ Cardinality(DOMAIN k) <= Cardinality(L)
<1> DEFINE B == DOMAIN k
           f == [b \in B |-> k[b].node]
<1>1. f \in [B -> L] /\ \A b \in B : h[f[b]].bucket = b
  BY DEF NodesLinked
<1> HIDE DEF f, B
<1>2. f \in Injection(B, L)
  BY <1>1 DEF Injection, IsInjective
<1>3. QED BY <1>2, FS_Injection DEF B

\* So that there is always a bucket for one more.
LEMMA NewBucketProperties ==
  ASSUME NEW B \in SUBSET (1 .. Counters + 1), Cardinality(B) <= Counters
  PROVE  Bss!NewBucket(B) \in 1 .. Counters + 1 /\ Bss!NewBucket(B) \notin B
<1>1. Counters + 1 \in Int /\ ~ (1 > Counters + 1) /\ Counters \in Nat /\ Counters + 1 - 1 + 1 = Counters + 1
  BY BssConstants
<1> DEFINE n == Counters + 1
<1>2. Cardinality(1 .. n) = n
  <2>1. n \in Int /\ 1 \in Int /\ ~ (1 > n) /\ n - 1 + 1 = n
    BY <1>1
  <2> HIDE DEF n
  <2>2. QED BY <2>1, FS_Interval
<1>3. B # 1 .. n
  BY <1>1, <1>2
<1>4. \E c \in 1 .. n : c \notin B
  BY <1>3
<1>5. QED BY <1>4 DEF Bss!NewBucket

-----------------------------------------------------------------------------
(* The walk along the list of a bucket.                                    *)

\* The function w is the walk of n steps from a along the next pointers of h.
IsWalk(h, a, n, w) ==
  w = [i \in 0 .. n |-> IF i = 0 THEN a
                        ELSE IF w[i - 1] = Null THEN Null ELSE h[w[i - 1]].next]

\* There is such a walk.
LEMMA WalkExists ==
  ASSUME NEW h, NEW a, NEW n \in Nat
  PROVE  \E w : IsWalk(h, a, n, w)
<1> DEFINE T == {m \in Nat : \E w : IsWalk(h, a, m, w)}
<1>1. ASSUME NEW m \in Nat, \A j \in 0 .. m - 1 : j \in T
      PROVE  m \in T
  <2>1. CASE m = 0
    <3> DEFINE w == [i \in 0 .. 0 |-> a]
    <3>1. w = [i \in 0 .. 0 |-> IF i = 0 THEN a
                                ELSE IF w[i - 1] = Null THEN Null ELSE h[w[i - 1]].next]
      OBVIOUS
    <3> HIDE DEF w
    <3>2. IsWalk(h, a, m, w)
      BY <2>1, <3>1 DEF IsWalk
    <3>3. QED BY <3>2
  <2>2. CASE m # 0
    <3>1. m - 1 \in T
      BY <1>1, <2>2
    <3>2. PICK v : IsWalk(h, a, m - 1, v)
      BY <3>1
    <3> DEFINE w == [i \in 0 .. m |-> IF i < m THEN v[i]
                                      ELSE IF v[m - 1] = Null THEN Null ELSE h[v[m - 1]].next]
    <3>3. \A i \in 0 .. m - 1 : v[i] = IF i = 0 THEN a
                                       ELSE IF v[i - 1] = Null THEN Null ELSE h[v[i - 1]].next
      BY <3>2 DEF IsWalk
    <3>4. (\A i \in 0 .. m - 1 : w[i] = v[i])
          /\ w[m] = IF v[m - 1] = Null THEN Null ELSE h[v[m - 1]].next
      OBVIOUS
    <3>5. DOMAIN w = 0 .. m /\ w = [i \in 0 .. m |-> w[i]]
      OBVIOUS
    <3> HIDE DEF w
    <3>6. \A i \in 0 .. m : w[i] = IF i = 0 THEN a
                                   ELSE IF w[i - 1] = Null THEN Null ELSE h[w[i - 1]].next
      <4>1. TAKE i \in 0 .. m
      <4>2. CASE i = m
        <5>1. w[m - 1] = v[m - 1]
          BY <2>2, <3>4
        <5>2. QED BY <2>2, <3>4, <4>2, <5>1
      <4>3. CASE i # m
        <5>1. i \in 0 .. m - 1 /\ (i # 0 => i - 1 \in 0 .. m - 1)
          BY <4>3
        <5>2. w[i] = v[i] /\ (i # 0 => w[i - 1] = v[i - 1])
          BY <3>4, <5>1
        <5>3. QED BY <3>3, <5>1, <5>2
      <4>4. QED BY <4>2, <4>3
    <3>7. IsWalk(h, a, m, w)
      BY <3>5, <3>6 DEF IsWalk
    <3>8. QED BY <3>7
  <2>3. QED BY <2>1, <2>2
<1>2. T = Nat
  <2> HIDE DEF T
  <2>1. T \in SUBSET Nat
    BY DEF T
  <2>2. QED BY <1>1, <2>1, NatInductionBySets
<1>3. QED BY <1>2

\* The walk meets the nodes of the bucket, all of them, before it ends.
MeetsAll(w, n, h, L, b) == {w[i] : i \in 0 .. n} = {x \in L : h[x].bucket = b} \cup {Null}

\* So it does if it makes as many steps as there are monitored nodes.
LEMMA WalkMeetsAll ==
  ASSUME NEW h, NEW k, NEW L, IsFiniteSet(L), NEW r, NodesLinked(h, k, L, r), Null \notin L,
         NEW b \in DOMAIN k, k[b].node # Null,
         NEW n \in Nat, n = Cardinality(L), NEW w, IsWalk(h, k[b].node, n, w)
  PROVE  MeetsAll(w, n, h, L, b)
<1> DEFINE S == {x \in L : h[x].bucket = b}
<1>1. \A i \in 0 .. n : w[i] = IF i = 0 THEN k[b].node
                               ELSE IF w[i - 1] = Null THEN Null ELSE h[w[i - 1]].next
  BY DEF IsWalk
<1>2. k[b].node \in S
  BY DEF NodesLinked
<1>3. \A x \in S : h[x].next # Null => h[x].next \in S /\ r[x] < r[h[x].next]
  BY DEF NodesLinked
<1>4. \A x \in S : r[x] \in Int
  BY DEF NodesLinked
<1> HIDE DEF S
<1>5. \A i \in Nat : i <= n => w[i] \in S \cup {Null}
  <2> DEFINE T == {i \in Nat : i <= n => w[i] \in S \cup {Null}}
  <2>1. ASSUME NEW i \in Nat, \A j \in 0 .. i - 1 : j \in T PROVE i \in T
    <3>1. SUFFICES ASSUME i <= n PROVE w[i] \in S \cup {Null}
      OBVIOUS
    <3>2. CASE i = 0
      BY <1>1, <1>2, <3>2
    <3>3. CASE i # 0
      <4>1. i - 1 \in T /\ i - 1 <= n
        BY <2>1, <3>1, <3>3
      <4>2. w[i - 1] \in S \cup {Null}
        BY <4>1
      <4>3. w[i] = IF w[i - 1] = Null THEN Null ELSE h[w[i - 1]].next
        BY <1>1, <3>1, <3>3
      <4>4. QED BY <1>3, <4>2, <4>3
    <3>4. QED BY <3>2, <3>3
  <2>2. T = Nat
    <3> HIDE DEF T
    <3>1. T \in SUBSET Nat
      BY DEF T
    <3>2. QED BY <2>1, <3>1, NatInductionBySets
  <2>3. QED BY <2>2
\* It goes on to nodes that come later.
<1>6. \A j \in Nat : j <= n /\ w[j] # Null =>
        \A i \in 0 .. j : w[i] # Null /\ (i < j => r[w[i]] < r[w[j]])
  <2> DEFINE T == {j \in Nat : j <= n /\ w[j] # Null =>
                     \A i \in 0 .. j : w[i] # Null /\ (i < j => r[w[i]] < r[w[j]])}
  <2>1. ASSUME NEW j \in Nat, \A i \in 0 .. j - 1 : i \in T PROVE j \in T
    <3>1. SUFFICES ASSUME j <= n, w[j] # Null, NEW i \in 0 .. j
                   PROVE  w[i] # Null /\ (i < j => r[w[i]] < r[w[j]])
      OBVIOUS
    <3>2. CASE i = j
      BY <3>1, <3>2
    <3>3. CASE i # j
      <4>1. j - 1 \in 0 .. j - 1 /\ i \in 0 .. j - 1 /\ j \in 0 .. n /\ j # 0
        BY <3>1, <3>3
      <4>2. w[j] = IF w[j - 1] = Null THEN Null ELSE h[w[j - 1]].next
        BY <1>1, <4>1
      <4>3. w[j - 1] # Null /\ w[j] = h[w[j - 1]].next
        BY <3>1, <4>2
      <4>4. w[j - 1] \in S /\ w[j] \in S
        BY <1>5, <3>1, <4>1, <4>3
      <4>5. r[w[j - 1]] < r[w[j]]
        BY <1>3, <3>1, <4>3, <4>4
      <4>6. w[i] # Null /\ (i < j - 1 => r[w[i]] < r[w[j - 1]])
        BY <2>1, <3>1, <4>1, <4>3
      <4>7. w[i] \in S
        BY <1>5, <3>1, <4>1, <4>6
      <4>8. r[w[i]] \in Int /\ r[w[j]] \in Int /\ r[w[j - 1]] \in Int
        BY <1>4, <4>4, <4>7
      <4>9. CASE i < j - 1
        BY <4>5, <4>6, <4>8, <4>9
      <4>10. CASE i = j - 1
        BY <4>5, <4>6, <4>10
      <4>11. QED BY <4>1, <4>9, <4>10
    <3>4. QED BY <3>2, <3>3
  <2>2. T = Nat
    <3> HIDE DEF T
    <3>1. T \in SUBSET Nat
      BY DEF T
    <3>2. QED BY <2>1, <3>1, NatInductionBySets
  <2>3. QED BY <2>2
\* There are not enough nodes for it to go on.
<1>7. w[n] = Null
  <2>1. SUFFICES ASSUME w[n] # Null PROVE FALSE
    OBVIOUS
  <2> DEFINE I == 0 .. n
             f == [i \in I |-> w[i]]
  <2>2. \A i \in I : w[i] # Null /\ w[i] \in S
    BY <1>5, <1>6, <2>1
  <2>3. \A j \in I : \A i \in I : i < j => r[w[i]] < r[w[j]]
    BY <1>6, <2>2
  <2>4. \A i, j \in I : w[i] = w[j] => i = j
    <3>1. TAKE i, j \in I
    <3>2. r[w[i]] \in Int
      BY <1>4, <2>2
    <3>3. CASE i < j
      BY <2>3, <3>2, <3>3
    <3>4. CASE j < i
      BY <2>3, <3>2, <3>4
    <3>5. CASE i = j
      BY <3>5
    <3>6. QED BY <3>3, <3>4, <3>5
  <2>5. f \in [I -> L] /\ \A i, j \in I : f[i] = f[j] => i = j
    BY <2>2, <2>4 DEF S
  <2>6. IsFiniteSet(I) /\ Cardinality(I) = n + 1
    <3>1. 0 \in Int /\ n \in Int /\ ~ (0 > n) /\ n - 0 + 1 = n + 1
      OBVIOUS
    <3>2. QED BY <3>1, FS_Interval
  <2> HIDE DEF I, f
  <2>7. f \in Injection(I, L)
    BY <2>5 DEF Injection, IsInjective
  <2>8. n + 1 <= n
    BY <2>6, <2>7, FS_Injection
  <2>9. QED BY <2>8
\* A node that the walk misses would be preceded by another one.
<1>8. ASSUME NEW x \in S PROVE \E i \in 0 .. n : w[i] = x
  <2> DEFINE U == {y \in S : \A i \in 0 .. n : w[i] # y}
  <2>1. SUFFICES ASSUME U # {} PROVE FALSE
    OBVIOUS
  <2>2. U \in SUBSET L /\ IsFiniteSet(U) /\ \A y \in U : r[y] \in Int
    <3>1. U \in SUBSET L
      BY DEF S
    <3>2. IsFiniteSet(U)
      <4> HIDE DEF U
      <4>1. QED BY <3>1, FS_Subset
    <3>3. QED BY <1>4, <3>1, <3>2
  <2>3. PICK y \in U : \A z \in U : r[y] <= r[z]
    <3> HIDE DEF U
    <3>1. QED BY <2>1, <2>2, LeastValue
  <2>4. y # k[b].node
    BY <1>1
  <2>5. h[y].prev # Null /\ h[y].prev \in S /\ h[h[y].prev].next = y
    BY <2>4 DEF NodesLinked, S
  <2>6. r[h[y].prev] < r[y]
    <3>1. y # Null
      BY DEF S
    <3>2. QED BY <1>3, <2>5, <3>1
  <2>7. h[y].prev \notin U
    BY <1>4, <2>3, <2>5, <2>6
  <2>8. PICK i \in 0 .. n : w[i] = h[y].prev
    BY <2>5, <2>7
  <2>9. i # n /\ i + 1 \in 0 .. n
    BY <1>7, <2>5, <2>8
  <2>10. w[i + 1] = y
    BY <1>1, <2>5, <2>8, <2>9
  <2>11. QED BY <2>9, <2>10
<1>9. QED BY <1>5, <1>7, <1>8 DEF S, MeetsAll

-----------------------------------------------------------------------------
(* The chain of buckets.                                                   *)

\* The buckets of k form a list that starts with f, with counters that increase.
BucketChain(k, f) ==
  /\ f \in DOMAIN k
  /\ \A b \in DOMAIN k : k[b].counter \in Nat
  /\ \A b \in DOMAIN k : k[b].next # Null =>
       /\ k[b].next \in DOMAIN k /\ k[k[b].next].prev = b
       /\ k[b].counter < k[k[b].next].counter
  /\ \A b \in DOMAIN k : k[b].prev # Null => k[b].prev \in DOMAIN k /\ k[k[b].prev].next = b
  /\ \A b \in DOMAIN k : k[b].prev = Null <=> b = f

\* The counters grow along the chain, so that of its first bucket is the least.
LEMMA FirstIsLeast ==
  ASSUME NEW k, NEW f, BucketChain(k, f), IsFiniteSet(DOMAIN k), Null \notin DOMAIN k
  PROVE  \A b \in DOMAIN k : k[f].counter <= k[b].counter
<1> DEFINE B == DOMAIN k
           c == [b \in B |-> k[b].counter]
<1>1. IsFiniteSet(B) /\ B # {} /\ \A b \in B : c[b] \in Int
  BY DEF BucketChain
<1>2. PICK d \in B : \A b \in B : c[d] <= c[b]
  <2> HIDE DEF B, c
  <2>1. QED BY <1>1, LeastValue
<1>3. d = f
  <2>1. SUFFICES ASSUME d # f PROVE FALSE
    OBVIOUS
  <2>2. k[d].prev \in B /\ k[k[d].prev].next = d /\ d # Null
    BY <2>1 DEF BucketChain
  <2>3. k[k[d].prev].counter < k[d].counter
    BY <2>2 DEF BucketChain
  <2>4. k[k[d].prev].counter \in Nat /\ k[d].counter \in Nat
    BY <2>2 DEF BucketChain
  <2>5. QED BY <1>2, <2>2, <2>3, <2>4
<1>4. QED BY <1>2, <1>3

\* A bucket is put behind b.
BucketInserted(m, k, b, n) ==
  /\ Null \notin DOMAIN k /\ b \in DOMAIN k /\ n \notin DOMAIN k /\ n # Null
  /\ k[b].next # Null => k[k[b].next].counter # k[b].counter + 1
  /\ DOMAIN m = DOMAIN k \cup {n}
  /\ m[n].counter = k[b].counter + 1 /\ m[n].next = k[b].next /\ m[n].prev = b
  /\ \A c \in DOMAIN k : /\ m[c].counter = k[c].counter
                         /\ m[c].next = IF c = b THEN n ELSE k[c].next
                         /\ m[c].prev = IF c = k[b].next THEN n ELSE k[c].prev

\* The chain is still one, in the order of the counters.
LEMMA ChainInsert ==
  ASSUME NEW k, NEW f, BucketChain(k, f), NEW m, NEW b, NEW n, BucketInserted(m, k, b, n)
  PROVE  BucketChain(m, f)
<1>0. /\ Null \notin DOMAIN k /\ b \in DOMAIN k /\ n \notin DOMAIN k /\ n # Null
      /\ k[b].next # Null => k[k[b].next].counter # k[b].counter + 1
      /\ DOMAIN m = DOMAIN k \cup {n}
      /\ m[n].counter = k[b].counter + 1 /\ m[n].next = k[b].next /\ m[n].prev = b
      /\ \A c \in DOMAIN k : /\ m[c].counter = k[c].counter
                             /\ m[c].next = IF c = b THEN n ELSE k[c].next
                             /\ m[c].prev = IF c = k[b].next THEN n ELSE k[c].prev
  BY DEF BucketInserted
<1> USE <1>0
<1>1. /\ f \in DOMAIN k
      /\ \A c \in DOMAIN k : k[c].counter \in Nat
      /\ \A c \in DOMAIN k : k[c].next # Null =>
           /\ k[c].next \in DOMAIN k /\ k[k[c].next].prev = c
           /\ k[c].counter < k[k[c].next].counter
      /\ \A c \in DOMAIN k : k[c].prev # Null => k[c].prev \in DOMAIN k /\ k[k[c].prev].next = c
      /\ \A c \in DOMAIN k : k[c].prev = Null <=> c = f
  BY DEF BucketChain
<1> DEFINE s == k[b].next
<1>2. s # Null => s \in DOMAIN k /\ k[s].prev = b /\ k[b].counter + 1 < k[s].counter
  BY <1>1
<1> HIDE DEF s
<1>3. \A c \in DOMAIN m : m[c].counter \in Nat
  BY <1>1
<1>4. ASSUME NEW c \in DOMAIN m, m[c].next # Null
      PROVE  /\ m[c].next \in DOMAIN m /\ m[m[c].next].prev = c
             /\ m[c].counter < m[m[c].next].counter
  <2>1. CASE c = n
    <3>1. m[c].next = s /\ s # Null /\ s \in DOMAIN k
      BY <1>2, <1>4, <2>1 DEF s
    <3>2. m[s].prev = n /\ m[s].counter = k[s].counter
      BY <3>1 DEF s
    <3>3. QED BY <1>2, <2>1, <3>1, <3>2
  <2>2. CASE c = b
    BY <1>1, <2>2
  <2>3. CASE c # n /\ c # b
    <3>1. c \in DOMAIN k /\ m[c].next = k[c].next /\ k[c].next \in DOMAIN k
      BY <1>1, <1>4, <2>3
    <3>2. k[k[c].next].prev = c /\ k[c].counter < k[k[c].next].counter
      BY <1>1, <1>4, <3>1
    <3>3. k[c].next # s
      BY <1>2, <2>3, <3>1, <3>2
    <3>4. QED BY <3>1, <3>2, <3>3 DEF s
  <2>4. QED BY <2>1, <2>2, <2>3
<1>5. ASSUME NEW c \in DOMAIN m, m[c].prev # Null
      PROVE  m[c].prev \in DOMAIN m /\ m[m[c].prev].next = c
  <2>1. CASE c = n
    BY <2>1
  <2>2. CASE c # n /\ c = s
    BY <2>2 DEF s
  <2>3. CASE c # n /\ c # s
    <3>1. c \in DOMAIN k /\ m[c].prev = k[c].prev /\ k[c].prev \in DOMAIN k /\ k[k[c].prev].next = c
      BY <1>1, <1>5, <2>3 DEF s
    <3>2. k[c].prev # b
      BY <2>3, <3>1 DEF s
    <3>3. QED BY <3>1, <3>2
  <2>4. QED BY <2>1, <2>2, <2>3
<1>6. ASSUME NEW c \in DOMAIN m PROVE m[c].prev = Null <=> c = f
  <2>1. CASE c = n
    BY <1>1, <2>1
  <2>2. CASE c # n /\ c = s
    <3>1. m[c].prev = n /\ k[c].prev = b /\ b # Null
      BY <1>2, <2>2 DEF s
    <3>2. QED BY <1>1, <2>2, <3>1
  <2>3. CASE c # n /\ c # s
    BY <1>1, <2>3 DEF s
  <2>4. QED BY <2>1, <2>2, <2>3
<1>7. QED BY <1>1, <1>3, <1>4, <1>5, <1>6 DEF BucketChain

\* A bucket that is not the last one is removed.
BucketRemoved(m, k, b) ==
  /\ Null \notin DOMAIN k /\ b \in DOMAIN k /\ k[b].next # Null
  /\ DOMAIN m = DOMAIN k \ {b}
  /\ \A c \in DOMAIN m : /\ m[c].counter = k[c].counter
                         /\ m[c].next = IF c = k[b].prev THEN k[b].next ELSE k[c].next
                         /\ m[c].prev = IF c = k[b].next THEN k[b].prev ELSE k[c].prev

\* The chain is still one; its first bucket may be another.
LEMMA ChainRemove ==
  ASSUME NEW k, NEW f, BucketChain(k, f), NEW m, NEW b, BucketRemoved(m, k, b)
  PROVE  BucketChain(m, IF k[b].prev = Null THEN k[b].next ELSE f)
<1>0. /\ Null \notin DOMAIN k /\ b \in DOMAIN k /\ k[b].next # Null
      /\ DOMAIN m = DOMAIN k \ {b}
      /\ \A c \in DOMAIN m : /\ m[c].counter = k[c].counter
                             /\ m[c].next = IF c = k[b].prev THEN k[b].next ELSE k[c].next
                             /\ m[c].prev = IF c = k[b].next THEN k[b].prev ELSE k[c].prev
  BY DEF BucketRemoved
<1> USE <1>0
<1>1. /\ f \in DOMAIN k
      /\ \A c \in DOMAIN k : k[c].counter \in Nat
      /\ \A c \in DOMAIN k : k[c].next # Null =>
           /\ k[c].next \in DOMAIN k /\ k[k[c].next].prev = c
           /\ k[c].counter < k[k[c].next].counter
      /\ \A c \in DOMAIN k : k[c].prev # Null => k[c].prev \in DOMAIN k /\ k[k[c].prev].next = c
      /\ \A c \in DOMAIN k : k[c].prev = Null <=> c = f
  BY DEF BucketChain
<1> DEFINE s == k[b].next
           p == k[b].prev
           e == IF p = Null THEN s ELSE f
<1>2. s \in DOMAIN k /\ k[s].prev = b /\ k[b].counter < k[s].counter /\ s # b
  BY <1>1
<1>3. p # Null => p \in DOMAIN k /\ k[p].next = b /\ k[p].counter < k[b].counter /\ p # b
  <2>1. SUFFICES ASSUME p # Null
                 PROVE  p \in DOMAIN k /\ k[p].next = b /\ k[p].counter < k[b].counter /\ p # b
    OBVIOUS
  <2>2. p \in DOMAIN k /\ k[p].next = b /\ b # Null
    BY <1>1, <2>1
  <2>3. k[p].counter < k[b].counter /\ k[b].counter \in Nat
    BY <1>1, <2>2
  <2>4. QED BY <2>2, <2>3
<1>4. p = Null <=> b = f
  BY <1>1
<1> HIDE DEF s, p
<1>5. s # p
  <2>1. k[s].counter \in Nat /\ k[b].counter \in Nat
    BY <1>1, <1>2
  <2>2. SUFFICES ASSUME s = p PROVE FALSE
    OBVIOUS
  <2>3. p # Null
    BY <1>2, <2>2
  <2>4. QED BY <1>2, <1>3, <2>1, <2>2, <2>3
<1>6. \A c \in DOMAIN m : c \in DOMAIN k /\ c # b /\ m[c].counter \in Nat
  BY <1>1
<1>7. e \in DOMAIN m
  BY <1>1, <1>2, <1>4
<1>8. ASSUME NEW c \in DOMAIN m, m[c].next # Null
      PROVE  /\ m[c].next \in DOMAIN m /\ m[m[c].next].prev = c
             /\ m[c].counter < m[m[c].next].counter
  <2>1. CASE c = p
    <3>1. m[c].next = s /\ s \in DOMAIN m /\ m[s].prev = p /\ p # Null
      BY <1>2, <1>6, <2>1 DEF p, s
    <3>2. k[p].counter < k[s].counter
      <4>1. k[p].counter \in Nat /\ k[b].counter \in Nat /\ k[s].counter \in Nat
        BY <1>1, <1>2, <1>6, <2>1
      <4>2. QED BY <1>2, <1>3, <3>1, <4>1
    <3>3. QED BY <2>1, <3>1, <3>2
  <2>2. CASE c # p
    <3>1. m[c].next = k[c].next /\ k[c].next \in DOMAIN k
      BY <1>1, <1>6, <1>8, <2>2 DEF p
    <3>2. k[k[c].next].prev = c /\ k[c].counter < k[k[c].next].counter
      BY <1>1, <1>6, <1>8, <3>1
    <3>3. k[c].next # b
      BY <2>2, <3>2 DEF p
    <3>4. k[c].next # s
      BY <1>2, <1>6, <3>2
    <3>5. QED BY <3>1, <3>2, <3>3, <3>4 DEF s
  <2>3. QED BY <2>1, <2>2
<1>9. ASSUME NEW c \in DOMAIN m, m[c].prev # Null
      PROVE  m[c].prev \in DOMAIN m /\ m[m[c].prev].next = c
  <2>1. CASE c = s
    <3>1. m[c].prev = p /\ p # Null /\ p \in DOMAIN m
      BY <1>3, <1>9, <2>1 DEF p, s
    <3>2. QED BY <2>1, <3>1 DEF p, s
  <2>2. CASE c # s
    <3>1. m[c].prev = k[c].prev /\ k[c].prev \in DOMAIN k /\ k[k[c].prev].next = c
      BY <1>1, <1>6, <1>9, <2>2 DEF s
    <3>2. k[c].prev # b
      BY <2>2, <3>1 DEF s
    <3>3. k[c].prev # p
      BY <1>3, <1>6, <3>1, <1>9
    <3>4. QED BY <3>1, <3>2, <3>3 DEF p
  <2>3. QED BY <2>1, <2>2
<1>10. ASSUME NEW c \in DOMAIN m PROVE m[c].prev = Null <=> c = e
  <2>1. CASE c = s
    <3>1. m[c].prev = p /\ s # f
      BY <1>1, <1>2, <2>1 DEF p, s
    <3>2. QED BY <2>1, <3>1
  <2>2. CASE c # s
    <3>1. m[c].prev = k[c].prev /\ (k[c].prev = Null <=> c = f)
      BY <1>1, <1>6, <2>2 DEF s
    <3>2. QED BY <1>4, <1>6, <2>2, <3>1
  <2>3. QED BY <2>1, <2>2
<1> HIDE DEF e
<1>11. BucketChain(m, e)
  BY <1>6, <1>7, <1>8, <1>9, <1>10 DEF BucketChain
<1>12. QED BY <1>11 DEF e, p, s

-----------------------------------------------------------------------------
(* The steps of rtn_enter.                                                 *)

\* What a node has for the lists: bss_prev, bss_next and its bucket (bss_hcct_node_t).
BssNode == [bucket : (1 .. Counters + 1) \cup {Null}, next : Contexts \cup {Null},
            prev : Contexts \cup {Null}]

\* A bucket may be empty on the way.
BssBucket == [counter : Nat, node : Contexts \cup {Null},
              next : (1 .. Counters + 1) \cup {Null}, prev : (1 .. Counters + 1) \cup {Null}]

\* A record of lists has those of the nodes and of the buckets, with their types.
ListTypes(q) ==
  /\ q = [hcct |-> q.hcct, bucket |-> q.bucket, bfirst |-> q.bfirst, numc |-> q.numc,
          numb |-> q.numb]
  /\ DOMAIN q.hcct \subseteq Contexts /\ \A x \in DOMAIN q.hcct : q.hcct[x] \in BssNode
  /\ DOMAIN q.bucket \subseteq 1 .. Counters + 1
  /\ \A b \in DOMAIN q.bucket : q.bucket[b] \in BssBucket

\* What Detach does to each node and each bucket.
IsDetached(d, q, x, p, s) ==
  /\ ListTypes(d)
  /\ DOMAIN d.hcct = DOMAIN q.hcct /\ DOMAIN d.bucket = DOMAIN q.bucket
  /\ d.hcct[x].bucket = q.hcct[x].bucket /\ d.hcct[x].next = Null /\ d.hcct[x].prev = Null
  /\ \A y \in DOMAIN q.hcct \ {x} :
       /\ d.hcct[y].bucket = q.hcct[y].bucket
       /\ d.hcct[y].next = IF y = p THEN s ELSE q.hcct[y].next
       /\ d.hcct[y].prev = IF y = s THEN p ELSE q.hcct[y].prev
  /\ \A b \in DOMAIN q.bucket :
       /\ d.bucket[b].counter = q.bucket[b].counter
       /\ d.bucket[b].next = q.bucket[b].next /\ d.bucket[b].prev = q.bucket[b].prev
       /\ d.bucket[b].node = IF p = Null /\ b = q.hcct[x].bucket THEN s
                             ELSE q.bucket[b].node
  /\ d.bfirst = q.bfirst /\ d.numc = q.numc /\ d.numb = q.numb

\* Detach does just that.
LEMMA DetachProperties ==
  ASSUME NEW q, ListTypes(q), NEW x \in DOMAIN q.hcct, q.hcct[x].bucket \in DOMAIN q.bucket,
         NEW p, p = q.hcct[x].prev, NEW s, s = q.hcct[x].next, p = s => p = Null,
         p # x, s # x, NEW d, d = Bss!Detach(x, q)
  PROVE  IsDetached(d, q, x, p, s)
<1> DEFINE h == [y \in DOMAIN q.hcct |->
                   IF y = x THEN [q.hcct[x] EXCEPT !.next = Null, !.prev = Null]
                   ELSE IF y = p THEN [q.hcct[y] EXCEPT !.next = s]
                   ELSE IF y = s THEN [q.hcct[y] EXCEPT !.prev = p]
                   ELSE q.hcct[y]]
           k == IF p # Null THEN q.bucket ELSE [q.bucket EXCEPT ![q.hcct[x].bucket].node = s]
<1>1. Null \notin Contexts
  BY BssConstants
<1>2. d = [q EXCEPT !.hcct = h, !.bucket = k]
  <2>1. q = [hcct |-> q.hcct, bucket |-> q.bucket, bfirst |-> q.bfirst, numc |-> q.numc,
             numb |-> q.numb]
    BY DEF ListTypes
  <2>2. CASE p # Null
    <3>1. d = [q EXCEPT !.hcct = h]
      BY <2>2 DEF Bss!Detach
    <3> HIDE DEF h
    <3>2. QED BY <2>1, <2>2, <3>1
  <2>3. CASE p = Null
    <3>1. d = [q EXCEPT !.hcct = h, !.bucket[q.hcct[x].bucket].node = s]
      BY <2>3 DEF Bss!Detach
    <3> HIDE DEF h
    <3>2. QED BY <2>1, <2>3, <3>1
  <2>4. QED BY <2>2, <2>3
<1>3. d = [hcct |-> h, bucket |-> k, bfirst |-> q.bfirst, numc |-> q.numc, numb |-> q.numb]
  <2> HIDE DEF h, k
  <2>1. q = [hcct |-> q.hcct, bucket |-> q.bucket, bfirst |-> q.bfirst, numc |-> q.numc,
             numb |-> q.numb]
    BY DEF ListTypes
  <2>2. QED BY <1>2, <2>1
<1>4. \A y \in DOMAIN q.hcct : q.hcct[y] \in BssNode
  BY DEF ListTypes
<1>5. p \in Contexts \cup {Null} /\ s \in Contexts \cup {Null}
  BY <1>4 DEF BssNode
<1>6. /\ DOMAIN h = DOMAIN q.hcct /\ \A y \in DOMAIN h : h[y] \in BssNode
      /\ h[x].bucket = q.hcct[x].bucket /\ h[x].next = Null /\ h[x].prev = Null
      /\ \A y \in DOMAIN q.hcct \ {x} :
           /\ h[y].bucket = q.hcct[y].bucket
           /\ h[y].next = IF y = p THEN s ELSE q.hcct[y].next
           /\ h[y].prev = IF y = s THEN p ELSE q.hcct[y].prev
  <2>1. ASSUME NEW y \in DOMAIN q.hcct \ {x}
        PROVE  /\ h[y] \in BssNode
               /\ h[y].bucket = q.hcct[y].bucket
               /\ h[y].next = IF y = p THEN s ELSE q.hcct[y].next
               /\ h[y].prev = IF y = s THEN p ELSE q.hcct[y].prev
    <3>1. y \in Contexts
      BY DEF ListTypes
    <3>2. CASE y = p
      <4>1. y # s
        BY <1>1, <3>1, <3>2
      <4>2. h[y] = [q.hcct[y] EXCEPT !.next = s]
        BY <3>2
      <4> HIDE DEF h
      <4>3. QED BY <1>4, <1>5, <3>2, <4>1, <4>2 DEF BssNode
    <3>3. CASE y # p /\ y = s
      <4>1. h[y] = [q.hcct[y] EXCEPT !.prev = p]
        BY <3>3
      <4> HIDE DEF h
      <4>2. QED BY <1>4, <1>5, <3>3, <4>1 DEF BssNode
    <3>4. CASE y # p /\ y # s
      BY <1>4, <3>4
    <3>5. QED BY <3>2, <3>3, <3>4
  <2>2. h[x] \in BssNode /\ h[x].bucket = q.hcct[x].bucket /\ h[x].next = Null /\ h[x].prev = Null
    <3>1. h[x] = [q.hcct[x] EXCEPT !.next = Null, !.prev = Null]
      OBVIOUS
    <3> HIDE DEF h
    <3>2. QED BY <1>4, <3>1 DEF BssNode
  <2>3. DOMAIN h = DOMAIN q.hcct
    OBVIOUS
  <2> HIDE DEF h
  <2>4. QED BY <2>1, <2>2, <2>3
<1>7. /\ DOMAIN k = DOMAIN q.bucket /\ \A b \in DOMAIN k : k[b] \in BssBucket
      /\ \A b \in DOMAIN q.bucket :
              /\ k[b].counter = q.bucket[b].counter
              /\ k[b].next = q.bucket[b].next /\ k[b].prev = q.bucket[b].prev
              /\ k[b].node = IF p = Null /\ b = q.hcct[x].bucket THEN s
                             ELSE q.bucket[b].node
  <2>1. \A b \in DOMAIN q.bucket : q.bucket[b] \in BssBucket
    BY DEF ListTypes
  <2>2. DOMAIN k = DOMAIN q.bucket
    OBVIOUS
  <2>3. \A b \in DOMAIN q.bucket :
          k[b] = IF p = Null /\ b = q.hcct[x].bucket THEN [q.bucket[b] EXCEPT !.node = s]
                 ELSE q.bucket[b]
    OBVIOUS
  <2> HIDE DEF k
  <2>4. ASSUME NEW b \in DOMAIN q.bucket
        PROVE  /\ k[b] \in BssBucket /\ k[b].counter = q.bucket[b].counter
               /\ k[b].next = q.bucket[b].next /\ k[b].prev = q.bucket[b].prev
               /\ k[b].node = IF p = Null /\ b = q.hcct[x].bucket THEN s ELSE q.bucket[b].node
    <3>1. CASE p = Null /\ b = q.hcct[x].bucket
      <4>1. k[b] = [q.bucket[b] EXCEPT !.node = s]
        BY <2>3, <3>1
      <4>2. QED BY <1>5, <2>1, <3>1, <4>1 DEF BssBucket
    <3>2. CASE ~ (p = Null /\ b = q.hcct[x].bucket)
      BY <2>1, <2>3, <3>2
    <3>3. QED BY <3>1, <3>2
  <2>5. QED BY <2>2, <2>4
<1>8. DOMAIN q.hcct \subseteq Contexts /\ DOMAIN q.bucket \subseteq 1 .. Counters + 1
  BY DEF ListTypes
<1> HIDE DEF h, k
<1>9. /\ d.hcct = h /\ d.bucket = k /\ d.bfirst = q.bfirst /\ d.numc = q.numc /\ d.numb = q.numb
      /\ d = [hcct |-> d.hcct, bucket |-> d.bucket, bfirst |-> d.bfirst, numc |-> d.numc,
              numb |-> d.numb]
  BY <1>3
<1>10. ListTypes(d)
  BY <1>6, <1>7, <1>8, <1>9 DEF ListTypes
<1>11. QED BY <1>6, <1>7, <1>9, <1>10 DEF IsDetached

\* The record after a step.
ListsAfter(q, h, k, f, n, m) ==
  [q EXCEPT !.hcct = h, !.bucket = k, !.bfirst = f, !.numc = n, !.numb = m]

\* It is a record of lists, with the fields it was given.
LEMMA ListRecord ==
  ASSUME NEW q, ListTypes(q), NEW h, NEW k, NEW f, NEW n, NEW m,
         NEW d, d = ListsAfter(q, h, k, f, n, m),
         DOMAIN h \subseteq Contexts, \A x \in DOMAIN h : h[x] \in BssNode,
         DOMAIN k \subseteq 1 .. Counters + 1, \A b \in DOMAIN k : k[b] \in BssBucket
  PROVE  ListTypes(d) /\ d.hcct = h /\ d.bucket = k /\ d.bfirst = f /\ d.numc = n /\ d.numb = m
<1>1. q = [hcct |-> q.hcct, bucket |-> q.bucket, bfirst |-> q.bfirst, numc |-> q.numc,
           numb |-> q.numb]
  BY DEF ListTypes
<1>2. d = [hcct |-> h, bucket |-> k, bfirst |-> f, numc |-> n, numb |-> m]
  BY <1>1 DEF ListsAfter
<1>3. d.hcct = h /\ d.bucket = k /\ d.bfirst = f /\ d.numc = n /\ d.numb = m
  BY <1>2
<1>4. QED BY <1>2, <1>3 DEF ListTypes

\* What InNewBucket does: x alone is in the bucket n, next to its old one b.
IsInNewBucket(d, q, x, b, n) ==
  /\ ListTypes(d)
  /\ DOMAIN d.hcct = DOMAIN q.hcct /\ DOMAIN d.bucket = DOMAIN q.bucket \cup {n}
  /\ d.hcct[x].bucket = n /\ d.hcct[x].next = q.hcct[x].next
  /\ d.hcct[x].prev = q.hcct[x].prev
  /\ \A y \in DOMAIN q.hcct \ {x} : d.hcct[y] = q.hcct[y]
  /\ d.bucket[n].counter = q.bucket[b].counter + 1 /\ d.bucket[n].node = x
  /\ d.bucket[n].next = q.bucket[b].next /\ d.bucket[n].prev = b
  /\ \A c \in DOMAIN q.bucket :
       /\ d.bucket[c].counter = q.bucket[c].counter /\ d.bucket[c].node = q.bucket[c].node
       /\ d.bucket[c].next = IF c = b THEN n ELSE q.bucket[c].next
       /\ d.bucket[c].prev = IF c = q.bucket[b].next THEN n ELSE q.bucket[c].prev
  /\ d.bfirst = q.bfirst /\ d.numc = q.numc /\ d.numb = q.numb + 1

\* InNewBucket does just that.
LEMMA InNewBucketProperties ==
  ASSUME NEW q, ListTypes(q), NEW x \in DOMAIN q.hcct, NEW b \in DOMAIN q.bucket,
         q.bucket[b].next # b,
         NEW n \in 1 .. Counters + 1, n = Bss!NewBucket(DOMAIN q.bucket), n \notin DOMAIN q.bucket,
         NEW d, d = Bss!InNewBucket(x, b, q)
  PROVE  IsInNewBucket(d, q, x, b, n)
<1> DEFINE h == [q.hcct EXCEPT ![x].bucket = n]
           s == q.bucket[b].next
           k == [c \in DOMAIN q.bucket \cup {n} |->
                   IF c = n THEN [counter |-> q.bucket[b].counter + 1, node |-> x,
                                  next |-> s, prev |-> b]
                   ELSE IF c = b THEN [q.bucket[c] EXCEPT !.next = n]
                   ELSE IF c = s THEN [q.bucket[c] EXCEPT !.prev = n]
                   ELSE q.bucket[c]]
<1>1. q = [hcct |-> q.hcct, bucket |-> q.bucket, bfirst |-> q.bfirst, numc |-> q.numc,
           numb |-> q.numb]
  BY DEF ListTypes
<1>2. /\ \A y \in DOMAIN q.hcct : q.hcct[y] \in BssNode
      /\ \A c \in DOMAIN q.bucket : q.bucket[c] \in BssBucket
      /\ DOMAIN q.hcct \subseteq Contexts /\ DOMAIN q.bucket \subseteq 1 .. Counters + 1
  BY DEF ListTypes
<1>3. d = [q EXCEPT !.hcct = h, !.bucket = k, !.numb = q.numb + 1]
  <2>1. d = [q EXCEPT !.hcct[x].bucket = n, !.bucket = k, !.numb = @ + 1]
    BY DEF Bss!InNewBucket
  <2> HIDE DEF k
  <2>2. QED BY <1>1, <2>1
<1>4. d = ListsAfter(q, h, k, q.bfirst, q.numc, q.numb + 1)
  <2> HIDE DEF h, k
  <2>1. QED BY <1>1, <1>3 DEF ListsAfter
<1>5. /\ DOMAIN h = DOMAIN q.hcct /\ \A y \in DOMAIN h : h[y] \in BssNode
      /\ h[x].bucket = n /\ h[x].next = q.hcct[x].next /\ h[x].prev = q.hcct[x].prev
      /\ \A y \in DOMAIN q.hcct \ {x} : h[y] = q.hcct[y]
  <2>1. h[x] = [q.hcct[x] EXCEPT !.bucket = n]
    OBVIOUS
  <2>2. DOMAIN h = DOMAIN q.hcct /\ \A y \in DOMAIN q.hcct \ {x} : h[y] = q.hcct[y]
    OBVIOUS
  <2> HIDE DEF h
  <2>3. h[x] \in BssNode
    BY <1>2, <2>1 DEF BssNode
  <2>4. h[x].bucket = n /\ h[x].next = q.hcct[x].next /\ h[x].prev = q.hcct[x].prev
    BY <1>2, <2>1 DEF BssNode
  <2>5. QED BY <1>2, <2>2, <2>3, <2>4
<1>6. s \in (1 .. Counters + 1) \cup {Null} /\ q.bucket[b].counter \in Nat
  BY <1>2 DEF BssBucket
<1> DEFINE record == [counter |-> q.bucket[b].counter + 1, node |-> x, next |-> s, prev |-> b]
<1>7. record \in BssBucket /\ k[n] = record
  BY <1>2, <1>6 DEF BssBucket
<1>8. ASSUME NEW c \in DOMAIN q.bucket
      PROVE  /\ k[c] \in BssBucket
             /\ k[c].counter = q.bucket[c].counter /\ k[c].node = q.bucket[c].node
             /\ k[c].next = IF c = b THEN n ELSE q.bucket[c].next
             /\ k[c].prev = IF c = s THEN n ELSE q.bucket[c].prev
  <2>1. c # n
    OBVIOUS
  <2>2. CASE c = b
    <3>1. k[c] = [q.bucket[c] EXCEPT !.next = n]
      BY <2>1, <2>2
    <3> HIDE DEF k
    <3>2. QED BY <1>2, <2>2, <3>1 DEF BssBucket
  <2>3. CASE c # b /\ c = s
    <3>1. k[c] = [q.bucket[c] EXCEPT !.prev = n]
      BY <2>1, <2>3
    <3> HIDE DEF k
    <3>2. QED BY <1>2, <2>3, <3>1 DEF BssBucket
  <2>4. CASE c # b /\ c # s
    BY <1>2, <2>1, <2>4
  <2>5. QED BY <2>2, <2>3, <2>4
<1>9. DOMAIN k = DOMAIN q.bucket \cup {n}
  OBVIOUS
<1> HIDE DEF h, k
<1>10. \A c \in DOMAIN k : k[c] \in BssBucket
  BY <1>7, <1>8, <1>9
<1>11. /\ ListTypes(d) /\ d.hcct = h /\ d.bucket = k /\ d.bfirst = q.bfirst /\ d.numc = q.numc
       /\ d.numb = q.numb + 1
  <2>1. DOMAIN h \subseteq Contexts /\ DOMAIN k \subseteq 1 .. Counters + 1
    BY <1>2, <1>5, <1>9
  <2>2. QED BY <1>4, <1>5, <1>10, <2>1, ListRecord
<1>12. QED BY <1>5, <1>7, <1>8, <1>9, <1>11 DEF IsInNewBucket

\* What InNextBucket does: x is the first in the bucket b, before s.
IsInNextBucket(d, q, x, b, s) ==
  /\ ListTypes(d)
  /\ DOMAIN d.hcct = DOMAIN q.hcct /\ DOMAIN d.bucket = DOMAIN q.bucket
  /\ d.hcct[x].bucket = b /\ d.hcct[x].next = s /\ d.hcct[x].prev = q.hcct[x].prev
  /\ \A y \in DOMAIN q.hcct \ {x} :
       /\ d.hcct[y].bucket = q.hcct[y].bucket /\ d.hcct[y].next = q.hcct[y].next
       /\ d.hcct[y].prev = IF y = s THEN x ELSE q.hcct[y].prev
  /\ \A c \in DOMAIN q.bucket :
       /\ d.bucket[c].counter = q.bucket[c].counter
       /\ d.bucket[c].next = q.bucket[c].next /\ d.bucket[c].prev = q.bucket[c].prev
       /\ d.bucket[c].node = IF c = b THEN x ELSE q.bucket[c].node
  /\ d.bfirst = q.bfirst /\ d.numc = q.numc /\ d.numb = q.numb

\* InNextBucket does just that.
LEMMA InNextBucketProperties ==
  ASSUME NEW q, ListTypes(q), NEW x \in DOMAIN q.hcct, NEW b \in DOMAIN q.bucket,
         NEW s \in DOMAIN q.hcct, s = q.bucket[b].node, s # x,
         NEW d, d = Bss!InNextBucket(x, b, q)
  PROVE  IsInNextBucket(d, q, x, b, s)
<1> DEFINE h == [q.hcct EXCEPT ![x].next = s, ![x].bucket = b, ![s].prev = x]
           k == [q.bucket EXCEPT ![b].node = x]
<1>1. q = [hcct |-> q.hcct, bucket |-> q.bucket, bfirst |-> q.bfirst, numc |-> q.numc,
           numb |-> q.numb]
  BY DEF ListTypes
<1>2. /\ \A y \in DOMAIN q.hcct : q.hcct[y] \in BssNode
      /\ \A c \in DOMAIN q.bucket : q.bucket[c] \in BssBucket
      /\ DOMAIN q.hcct \subseteq Contexts /\ DOMAIN q.bucket \subseteq 1 .. Counters + 1
  BY DEF ListTypes
<1>3. d = ListsAfter(q, h, k, q.bfirst, q.numc, q.numb)
  <2>1. d = [q EXCEPT !.hcct = [q.hcct EXCEPT ![x].next = s, ![x].bucket = b, ![s].prev = x],
                      !.bucket[b].node = x]
    BY DEF Bss!InNextBucket
  <2>2. d = [q EXCEPT !.hcct = h, !.bucket[b].node = x]
    BY <2>1
  <2> HIDE DEF h
  <2>3. d = [q EXCEPT !.hcct = h, !.bucket = k]
    BY <1>1, <2>2
  <2> HIDE DEF k
  <2>4. QED BY <1>1, <2>3 DEF ListsAfter
<1>4. /\ DOMAIN h = DOMAIN q.hcct
      /\ h[x] = [[q.hcct[x] EXCEPT !.next = s] EXCEPT !.bucket = b]
      /\ h[s] = [q.hcct[s] EXCEPT !.prev = x]
      /\ \A y \in DOMAIN q.hcct \ {x, s} : h[y] = q.hcct[y]
  OBVIOUS
<1>5. /\ DOMAIN k = DOMAIN q.bucket /\ k[b] = [q.bucket[b] EXCEPT !.node = x]
      /\ \A c \in DOMAIN q.bucket \ {b} : k[c] = q.bucket[c]
  OBVIOUS
<1> HIDE DEF h, k
<1>6. h[x] \in BssNode /\ h[x].bucket = b /\ h[x].next = s /\ h[x].prev = q.hcct[x].prev
  BY <1>2, <1>4 DEF BssNode
<1>7. h[s] \in BssNode /\ h[s].bucket = q.hcct[s].bucket /\ h[s].next = q.hcct[s].next /\ h[s].prev = x
  BY <1>2, <1>4 DEF BssNode
<1>8. /\ k[b] \in BssBucket /\ k[b].counter = q.bucket[b].counter /\ k[b].next = q.bucket[b].next
      /\ k[b].prev = q.bucket[b].prev /\ k[b].node = x
  BY <1>2, <1>5 DEF BssBucket
<1>9. /\ ListTypes(d) /\ d.hcct = h /\ d.bucket = k /\ d.bfirst = q.bfirst /\ d.numc = q.numc
      /\ d.numb = q.numb
  <2>1. \A y \in DOMAIN h : h[y] \in BssNode
    BY <1>2, <1>4, <1>6, <1>7
  <2>2. \A c \in DOMAIN k : k[c] \in BssBucket
    BY <1>2, <1>5, <1>8
  <2>3. DOMAIN h \subseteq Contexts /\ DOMAIN k \subseteq 1 .. Counters + 1
    BY <1>2, <1>4, <1>5
  <2>4. QED BY <1>3, <2>1, <2>2, <2>3, ListRecord
<1>10. ASSUME NEW y \in DOMAIN q.hcct \ {x}
       PROVE  /\ h[y].bucket = q.hcct[y].bucket /\ h[y].next = q.hcct[y].next
              /\ h[y].prev = IF y = s THEN x ELSE q.hcct[y].prev
  <2>1. CASE y = s
    BY <1>7, <2>1
  <2>2. CASE y # s
    BY <1>4, <2>2
  <2>3. QED BY <2>1, <2>2
<1>11. ASSUME NEW c \in DOMAIN q.bucket
       PROVE  /\ k[c].counter = q.bucket[c].counter
              /\ k[c].next = q.bucket[c].next /\ k[c].prev = q.bucket[c].prev
              /\ k[c].node = IF c = b THEN x ELSE q.bucket[c].node
  BY <1>5, <1>8
<1>12. /\ DOMAIN d.hcct = DOMAIN q.hcct /\ DOMAIN d.bucket = DOMAIN q.bucket
       /\ d.hcct[x].bucket = b /\ d.hcct[x].next = s /\ d.hcct[x].prev = q.hcct[x].prev
  BY <1>4, <1>5, <1>6, <1>9
<1>13. \A y \in DOMAIN q.hcct \ {x} :
         /\ d.hcct[y].bucket = q.hcct[y].bucket /\ d.hcct[y].next = q.hcct[y].next
         /\ d.hcct[y].prev = IF y = s THEN x ELSE q.hcct[y].prev
  BY <1>9, <1>10
<1>14. \A c \in DOMAIN q.bucket :
         /\ d.bucket[c].counter = q.bucket[c].counter
         /\ d.bucket[c].next = q.bucket[c].next /\ d.bucket[c].prev = q.bucket[c].prev
         /\ d.bucket[c].node = IF c = b THEN x ELSE q.bucket[c].node
  BY <1>9, <1>11
<1>15. QED BY <1>9, <1>12, <1>13, <1>14 DEF IsInNextBucket

\* What Vacate does where b is empty: its neighbours p and s become neighbours.
IsVacated(d, q, b, p, s) ==
  /\ ListTypes(d) /\ d.hcct = q.hcct
  /\ DOMAIN d.bucket = DOMAIN q.bucket \ {b}
  /\ \A c \in DOMAIN d.bucket :
       /\ d.bucket[c].counter = q.bucket[c].counter /\ d.bucket[c].node = q.bucket[c].node
       /\ d.bucket[c].next = IF c = p THEN s ELSE q.bucket[c].next
       /\ d.bucket[c].prev = IF c = s THEN p ELSE q.bucket[c].prev
  /\ d.bfirst = (IF p = Null THEN s ELSE q.bfirst)
  /\ d.numc = q.numc /\ d.numb = q.numb - 1

\* Vacate does just that.
LEMMA VacateProperties ==
  ASSUME NEW q, ListTypes(q), NEW b \in DOMAIN q.bucket, q.bucket[b].node = Null,
         NEW p, p = q.bucket[b].prev, NEW s, s = q.bucket[b].next, p = s => p = Null,
         NEW d, d = Bss!Vacate(b, q)
  PROVE  IsVacated(d, q, b, p, s)
<1> DEFINE k == [c \in DOMAIN q.bucket \ {b} |->
                   IF c = p THEN [q.bucket[c] EXCEPT !.next = s]
                   ELSE IF c = s THEN [q.bucket[c] EXCEPT !.prev = p]
                   ELSE q.bucket[c]]
           f == IF p = Null THEN s ELSE q.bfirst
<1>1. q = [hcct |-> q.hcct, bucket |-> q.bucket, bfirst |-> q.bfirst, numc |-> q.numc,
           numb |-> q.numb]
  BY DEF ListTypes
<1>2. /\ \A y \in DOMAIN q.hcct : q.hcct[y] \in BssNode
      /\ \A c \in DOMAIN q.bucket : q.bucket[c] \in BssBucket
      /\ DOMAIN q.hcct \subseteq Contexts /\ DOMAIN q.bucket \subseteq 1 .. Counters + 1
  BY DEF ListTypes
<1>3. d = ListsAfter(q, q.hcct, k, f, q.numc, q.numb - 1)
  <2>1. d = [q EXCEPT !.bucket = k, !.bfirst = IF p = Null THEN s ELSE @, !.numb = @ - 1]
    BY DEF Bss!Vacate
  <2> HIDE DEF k
  <2>2. QED BY <1>1, <2>1 DEF ListsAfter
<1>4. s \in (1 .. Counters + 1) \cup {Null} /\ p \in (1 .. Counters + 1) \cup {Null}
  BY <1>2 DEF BssBucket
<1>5. ASSUME NEW c \in DOMAIN q.bucket \ {b}
      PROVE  /\ k[c] \in BssBucket
             /\ k[c].counter = q.bucket[c].counter /\ k[c].node = q.bucket[c].node
             /\ k[c].next = IF c = p THEN s ELSE q.bucket[c].next
             /\ k[c].prev = IF c = s THEN p ELSE q.bucket[c].prev
  <2>1. c # Null
    BY <1>2, BssConstants
  <2>2. CASE c = p
    <3>1. k[c] = [q.bucket[c] EXCEPT !.next = s] /\ c # s
      BY <2>1, <2>2
    <3> HIDE DEF k
    <3>2. QED BY <1>2, <1>4, <2>2, <3>1 DEF BssBucket
  <2>3. CASE c # p /\ c = s
    <3>1. k[c] = [q.bucket[c] EXCEPT !.prev = p]
      BY <2>3
    <3> HIDE DEF k
    <3>2. QED BY <1>2, <1>4, <2>3, <3>1 DEF BssBucket
  <2>4. CASE c # p /\ c # s
    BY <1>2, <2>4
  <2>5. QED BY <2>2, <2>3, <2>4
<1>6. DOMAIN k = DOMAIN q.bucket \ {b}
  OBVIOUS
<1> HIDE DEF k
<1>7. /\ ListTypes(d) /\ d.hcct = q.hcct /\ d.bucket = k /\ d.bfirst = f /\ d.numc = q.numc
      /\ d.numb = q.numb - 1
  <2>1. \A c \in DOMAIN k : k[c] \in BssBucket
    BY <1>5, <1>6
  <2>2. DOMAIN k \subseteq 1 .. Counters + 1
    BY <1>2, <1>6
  <2> HIDE DEF f
  <2>3. QED BY <1>2, <1>3, <2>1, <2>2, ListRecord
<1>8. QED BY <1>5, <1>6, <1>7 DEF IsVacated

\* What Admit does: x is the first in the first bucket, before s.
IsAdmitted(d, q, x, s) ==
  /\ ListTypes(d)
  /\ DOMAIN d.hcct = DOMAIN q.hcct /\ DOMAIN d.bucket = DOMAIN q.bucket
  /\ d.hcct[x].bucket = q.bfirst /\ d.hcct[x].next = s /\ d.hcct[x].prev = Null
  /\ \A y \in DOMAIN q.hcct \ {x} :
       /\ d.hcct[y].bucket = q.hcct[y].bucket /\ d.hcct[y].next = q.hcct[y].next
       /\ d.hcct[y].prev = IF y = s THEN x ELSE q.hcct[y].prev
  /\ \A c \in DOMAIN q.bucket :
       /\ d.bucket[c].counter = q.bucket[c].counter
       /\ d.bucket[c].next = q.bucket[c].next /\ d.bucket[c].prev = q.bucket[c].prev
       /\ d.bucket[c].node = IF c = q.bfirst THEN x ELSE q.bucket[c].node
  /\ d.bfirst = q.bfirst /\ d.numc = q.numc + 1 /\ d.numb = q.numb

\* Admit does just that.
LEMMA AdmitProperties ==
  ASSUME NEW q, ListTypes(q), NEW x \in DOMAIN q.hcct, q.bfirst \in DOMAIN q.bucket,
         NEW s \in DOMAIN q.hcct, s = q.bucket[q.bfirst].node, s # x,
         NEW d, d = Bss!Admit(x, q)
  PROVE  IsAdmitted(d, q, x, s)
<1> DEFINE h == [q.hcct EXCEPT ![x] = [bucket |-> q.bfirst, next |-> s, prev |-> Null],
                               ![s].prev = x]
           b == q.bfirst
           k == [q.bucket EXCEPT ![b].node = x]
<1>1. q = [hcct |-> q.hcct, bucket |-> q.bucket, bfirst |-> q.bfirst, numc |-> q.numc,
           numb |-> q.numb]
  BY DEF ListTypes
<1>2. /\ \A y \in DOMAIN q.hcct : q.hcct[y] \in BssNode
      /\ \A c \in DOMAIN q.bucket : q.bucket[c] \in BssBucket
      /\ DOMAIN q.hcct \subseteq Contexts /\ DOMAIN q.bucket \subseteq 1 .. Counters + 1
  BY DEF ListTypes
<1>3. d = ListsAfter(q, h, k, q.bfirst, q.numc + 1, q.numb)
  <2>1. d = [q EXCEPT !.hcct = [@ EXCEPT ![x] = [bucket |-> q.bfirst, next |-> s, prev |-> Null],
                                         ![s].prev = x],
                      !.bucket[q.bfirst].node = x, !.numc = @ + 1]
    BY DEF Bss!Admit
  <2>2. d = [q EXCEPT !.hcct = h, !.bucket[q.bfirst].node = x, !.numc = @ + 1]
    BY <1>1, <2>1
  <2> HIDE DEF h
  <2>3. d = [q EXCEPT !.hcct = h, !.bucket = k, !.numc = @ + 1]
    BY <1>1, <2>2
  <2> HIDE DEF k
  <2>4. QED BY <1>1, <2>3 DEF ListsAfter
<1>4. /\ DOMAIN h = DOMAIN q.hcct
      /\ h[x] = [bucket |-> b, next |-> s, prev |-> Null]
      /\ h[s] = [q.hcct[s] EXCEPT !.prev = x]
      /\ \A y \in DOMAIN q.hcct \ {x, s} : h[y] = q.hcct[y]
  OBVIOUS
<1>5. /\ DOMAIN k = DOMAIN q.bucket /\ k[b] = [q.bucket[b] EXCEPT !.node = x]
      /\ \A c \in DOMAIN q.bucket \ {b} : k[c] = q.bucket[c]
  OBVIOUS
<1>6. b \in DOMAIN q.bucket
  OBVIOUS
<1> HIDE DEF h, k, b
<1>7. h[x] \in BssNode /\ h[x].bucket = b /\ h[x].next = s /\ h[x].prev = Null
  BY <1>2, <1>4, <1>6 DEF BssNode
<1>8. h[s] \in BssNode /\ h[s].bucket = q.hcct[s].bucket /\ h[s].next = q.hcct[s].next /\ h[s].prev = x
  BY <1>2, <1>4 DEF BssNode
<1>9. /\ k[b] \in BssBucket /\ k[b].counter = q.bucket[b].counter /\ k[b].next = q.bucket[b].next
      /\ k[b].prev = q.bucket[b].prev /\ k[b].node = x
  BY <1>2, <1>5, <1>6 DEF BssBucket
<1>10. /\ ListTypes(d) /\ d.hcct = h /\ d.bucket = k /\ d.bfirst = q.bfirst /\ d.numc = q.numc + 1
       /\ d.numb = q.numb
  <2>1. \A y \in DOMAIN h : h[y] \in BssNode
    BY <1>2, <1>4, <1>7, <1>8
  <2>2. \A c \in DOMAIN k : k[c] \in BssBucket
    BY <1>2, <1>5, <1>9
  <2>3. DOMAIN h \subseteq Contexts /\ DOMAIN k \subseteq 1 .. Counters + 1
    BY <1>2, <1>4, <1>5
  <2>4. QED BY <1>3, <2>1, <2>2, <2>3, ListRecord
<1>11. QED BY <1>4, <1>5, <1>7, <1>8, <1>9, <1>10 DEF b, IsAdmitted

\* What LeadsTo says of two contexts of which one is a caller of the other.
LEMMA CallerLeadsTo ==
  ASSUME NEW c \in Contexts, NEW r \in Contexts, c # Root, LeadsTo(c, r)
  PROVE  /\ Len(c) \in 1 .. Len(r) /\ c = Prefix(r, Len(c))
         /\ Caller(c) = Prefix(r, Len(c) - 1) /\ LeadsTo(Caller(c), r)
         /\ Len(Caller(c)) = Len(c) - 1 /\ Caller(c) \in Contexts
<1>1. Len(c) <= Len(r) /\ Prefix(r, Len(c)) = c
  BY DEF LeadsTo
<1>2. Len(c) \in Nat /\ Len(r) \in Nat
  BY ContextsAreSequences
<1>3. Len(c) >= 1 /\ Caller(c) \in Contexts /\ Len(Caller(c)) = Len(c) - 1
  BY CallerProperties
<1>4. Len(c) \in 1 .. Len(r) /\ Len(c) \in 0 .. Len(r) /\ Len(c) - 1 \in 0 .. Len(c)
  BY <1>1, <1>2, <1>3
<1>5. Caller(c) = Prefix(c, Len(c) - 1)
  BY DEF Caller
<1>6. Caller(c) = Prefix(r, Len(c) - 1)
  BY <1>1, <1>4, <1>5, PrefixOfPrefix
<1>7. LeadsTo(Caller(c), r)
  BY <1>1, <1>2, <1>3, <1>6 DEF LeadsTo
<1>8. QED BY <1>1, <1>3, <1>4, <1>6, <1>7

\* What a prefix of a context is to the next longer one.
LEMMA CallerOfPrefix ==
  ASSUME NEW x \in Contexts, NEW i \in 0 .. Len(x), i # Len(x)
  PROVE  /\ i + 1 \in 0 .. Len(x) /\ Prefix(x, i + 1) # Root
         /\ Caller(Prefix(x, i + 1)) = Prefix(x, i)
<1>1. Len(x) \in Nat
  BY ContextsAreSequences
<1>2. i + 1 \in 0 .. Len(x) /\ i \in 0 .. i + 1 /\ i + 1 - 1 = i /\ i + 1 # 0
  BY <1>1
<1>3. Len(Prefix(x, i + 1)) = i + 1
  BY <1>2, PrefixProperties
<1>4. Prefix(x, i + 1) # Root
  BY <1>2, <1>3 DEF Root
<1>5. Caller(Prefix(x, i + 1)) = Prefix(Prefix(x, i + 1), i)
  BY <1>2, <1>3 DEF Caller
<1>6. QED BY <1>2, <1>4, <1>5, PrefixOfPrefix

\* Whom prune takes for the children of a node.
LEMMA ChildrenProperties ==
  ASSUME NEW x, NEW T
  PROVE  \A y : y \in Bss!Children(x, T) <=> y \in T /\ y # Root /\ Caller(y) = x
  BY BssConstants DEF Bss!Children

\* Where the victim r is a leaf, what prune frees are callers of r that are not monitored, but r
\* itself; no node of an active call is among them, nor does pruning stop too early.
LEMMA PruningKeeps ==
  ASSUME NEW l, DOMAIN l \subseteq Contexts, NEW x \in DOMAIN l, NEW r \in DOMAIN l, x # r, r # Root,
         l[x].bucket # Null, l[r].bucket # Null,
         \A i \in 0 .. Len(x) : Prefix(x, i) \in DOMAIN l,
         \A z \in DOMAIN l \ {Root} : l[z].bucket = Null => Bss!Children(z, DOMAIN l) # {},
         Bss!Children(r, DOMAIN l) = {},
         NEW P, P = Bss!Pruned(r, l)
  PROVE  /\ r \in P
         /\ \A y \in DOMAIN l : l[y].bucket # Null /\ y # r => y \notin P
         /\ \A i \in 0 .. Len(x) : Prefix(x, i) \notin P
         /\ \A z \in DOMAIN l \ P :
              z # Root /\ l[z].bucket = Null => Bss!Children(z, DOMAIN l \ P) # {}
<1> DEFINE T == DOMAIN l
           Spent(i) == /\ l[Prefix(r, i)].bucket = Null
                       /\ Bss!Children(Prefix(r, i), T) = {Prefix(r, i + 1)}
<1>1. \A y : y \in P <=> /\ y \in T /\ y # Root /\ LeadsTo(y, r)
                         /\ \A i \in Len(y) .. Len(r) - 1 : Spent(i)
  BY BssConstants DEF Bss!Pruned
<1> HIDE DEF Spent
<1>2. x \in Contexts /\ r \in Contexts /\ Len(x) \in Nat /\ Len(r) \in Nat
  BY ContextsAreSequences
<1>3. \A y \in P : y \in T /\ y \in Contexts /\ y # Root /\ LeadsTo(y, r)
                  /\ Len(y) \in 1 .. Len(r) /\ y = Prefix(r, Len(y))
  BY <1>1, <1>2, CallerLeadsTo
<1>4. r \in P
  <2>1. LeadsTo(r, r)
    BY <1>2, LeadsToIsOrder
  <2>2. Len(r) .. Len(r) - 1 = {}
    BY <1>2
  <2>3. QED BY <1>1, <2>1, <2>2
<1>5. ASSUME NEW y \in P, y # r
      PROVE  /\ Len(y) \in Len(y) .. Len(r) - 1 /\ l[y].bucket = Null
             /\ Bss!Children(y, T) = {Prefix(r, Len(y) + 1)}
  <2>1. Len(y) \in 1 .. Len(r) /\ y = Prefix(r, Len(y))
    BY <1>3
  <2>2. Len(y) # Len(r)
    BY <1>2, <1>5, <2>1, WholePrefix
  <2>3. Len(y) \in Len(y) .. Len(r) - 1
    BY <1>2, <2>1, <2>2
  <2>4. Spent(Len(y))
    BY <1>1, <2>3
  <2>5. QED BY <2>1, <2>3, <2>4 DEF Spent
<1>6. \A y \in DOMAIN l : l[y].bucket # Null /\ y # r => y \notin P
  BY <1>5
<1>7. ASSUME NEW i \in 0 .. Len(x), Prefix(x, i) \in P PROVE FALSE
  <2> DEFINE K == {j \in 0 .. Len(x) : Prefix(x, j) \in P}
  <2>1. PICK k \in K : \A j \in K : j <= k
    <3>1. K \in SUBSET Nat /\ K # {} /\ \A j \in K : j <= Len(x)
      BY <1>2, <1>7
    <3> HIDE DEF K
    <3>2. QED BY <1>2, <3>1, GreatestNumber
  <2> DEFINE y == Prefix(x, k)
  <2>2. k \in 0 .. Len(x) /\ y \in P /\ Len(y) = k
    BY <1>2, <2>1, PrefixProperties
  <2>3. k # Len(x)
    <3>1. k = Len(x) => y = x
      BY <1>2, WholePrefix
    <3>2. QED BY <1>6, <2>2, <3>1
  <2> DEFINE z == Prefix(x, k + 1)
  <2>4. k + 1 \in 0 .. Len(x) /\ z # Root /\ Caller(z) = y
    BY <1>2, <2>2, <2>3, CallerOfPrefix
  <2>5. z \in T /\ Len(z) = k + 1
    BY <1>2, <2>4, PrefixProperties
  <2> HIDE DEF y, z
  <2>6. z \in Bss!Children(y, T)
    BY <2>4, <2>5, ChildrenProperties
  <2>7. y # r
    BY <2>6
  <2>8. /\ Len(y) \in Len(y) .. Len(r) - 1 /\ Bss!Children(y, T) = {Prefix(r, k + 1)}
    BY <1>5, <2>2, <2>7
  <2>9. z = Prefix(r, k + 1)
    BY <2>6, <2>8
  <2>10. LeadsTo(z, r)
    BY <1>2, <2>2, <2>5, <2>8, <2>9 DEF LeadsTo
  <2>11. \A j \in Len(z) .. Len(r) - 1 : Spent(j)
    <3>1. \A j \in Len(z) .. Len(r) - 1 : j \in Len(y) .. Len(r) - 1
      BY <1>2, <2>2, <2>5
    <3>2. QED BY <1>1, <2>2, <3>1
  <2>12. z \in P
    BY <1>1, <2>4, <2>5, <2>10, <2>11
  <2>13. k + 1 \in K
    BY <2>4, <2>12 DEF z
  <2>14. k + 1 <= k
    BY <2>1, <2>13
  <2>15. QED BY <2>2, <2>14
<1>8. ASSUME NEW z \in T \ P, z # Root, l[z].bucket = Null, Bss!Children(z, T \ P) = {}
      PROVE  FALSE
  <2>1. PICK c : c \in Bss!Children(z, T)
    BY <1>8
  <2>2. \A d \in Bss!Children(z, T) : d \in P /\ Caller(d) = z
    BY <1>8, ChildrenProperties
  <2>3. \A d \in Bss!Children(z, T) :
          /\ Len(d) \in 1 .. Len(r) /\ d = Prefix(r, Len(d)) /\ z = Prefix(r, Len(d) - 1)
          /\ LeadsTo(z, r) /\ Len(z) = Len(d) - 1
    <3>1. TAKE d \in Bss!Children(z, T)
    <3>2. d \in P /\ Caller(d) = z /\ d \in Contexts /\ d # Root /\ LeadsTo(d, r)
      BY <1>3, <2>2
    <3>3. QED BY <1>2, <3>2, CallerLeadsTo
  <2> DEFINE i == Len(z)
  <2>4. i \in 0 .. Len(r) - 1 /\ Len(c) = i + 1 /\ c = Prefix(r, i + 1) /\ z = Prefix(r, i)
    BY <1>2, <2>1, <2>3
  <2>5. Bss!Children(z, T) = {Prefix(r, i + 1)}
    <3>1. \A d \in Bss!Children(z, T) : d = Prefix(r, i + 1)
      <4>1. TAKE d \in Bss!Children(z, T)
      <4>2. Len(d) = i + 1
        BY <1>2, <2>3
      <4>3. QED BY <2>3, <4>2
    <3>2. QED BY <2>1, <3>1
  <2>6. Spent(i)
    BY <1>8, <2>4, <2>5 DEF Spent
  <2>7. \A j \in i .. Len(r) - 1 : Spent(j)
    <3>1. TAKE j \in i .. Len(r) - 1
    <3>2. CASE j = i
      BY <2>6, <3>2
    <3>3. CASE j # i
      <4>1. j \in Len(c) .. Len(r) - 1
        BY <1>2, <2>4, <3>3
      <4>2. QED BY <1>1, <2>1, <2>2, <4>1
    <3>4. QED BY <3>2, <3>3
  <2>8. z \in P
    BY <1>1, <1>8, <2>1, <2>3, <2>7
  <2>9. QED BY <1>8, <2>8
<1>9. QED BY <1>4, <1>6, <1>7, <1>8

\* The tree t holds the calls of x, and no leaf that is not monitored, except for those in E.
TreeHolds(t, x, E) ==
  /\ DOMAIN t \subseteq Contexts /\ \A y \in DOMAIN t : t[y] \in BssNode
  /\ \A i \in 0 .. Len(x) : Prefix(x, i) \in DOMAIN t
  /\ \A z \in DOMAIN t \ E : t[z].bucket = Null => Bss!Children(z, DOMAIN t) # {}

\* What is left of the tree after the victim has lost its place.
IsDropped(g, l, x, r) ==
  /\ TreeHolds(g, x, {Root})
  /\ DOMAIN g \subseteq DOMAIN l
  /\ \A y \in DOMAIN l : l[y].bucket # Null /\ y # r => y \in DOMAIN g
  /\ \A y \in DOMAIN g : /\ g[y].bucket = IF y = r THEN Null ELSE l[y].bucket
                         /\ g[y].next = l[y].next /\ g[y].prev = l[y].prev

\* That is what Dropped does, with all the callers that prune frees.
LEMMA DroppedProperties ==
  ASSUME NEW l, NEW x, x \in DOMAIN l, NEW r, r \in DOMAIN l, x # r, x # Root,
         TreeHolds(l, x, {Root}), l[x].bucket # Null, l[r].bucket # Null,
         NEW g, g = Bss!Dropped(r, l)
  PROVE  IsDropped(g, l, x, r)
<1> DEFINE Goal == /\ DOMAIN g \subseteq DOMAIN l
                   /\ \A y \in DOMAIN l : l[y].bucket # Null /\ y # r => y \in DOMAIN g
                   /\ \A y \in DOMAIN g : /\ g[y] \in BssNode
                                          /\ g[y].bucket = IF y = r THEN Null ELSE l[y].bucket
                                          /\ g[y].next = l[y].next /\ g[y].prev = l[y].prev
                   /\ \A i \in 0 .. Len(x) : Prefix(x, i) \in DOMAIN g
                   /\ \A z \in DOMAIN g \ {Root} :
                        g[z].bucket = Null => Bss!Children(z, DOMAIN g) # {}
<1>0. /\ DOMAIN l \subseteq Contexts /\ \A y \in DOMAIN l : l[y] \in BssNode
      /\ \A i \in 0 .. Len(x) : Prefix(x, i) \in DOMAIN l
      /\ \A z \in DOMAIN l \ {Root} : l[z].bucket = Null => Bss!Children(z, DOMAIN l) # {}
  BY DEF TreeHolds
<1>1. ASSUME Bss!Children(r, DOMAIN l) # {} PROVE Goal
  <2>1. g = [l EXCEPT ![r].bucket = Null]
    BY <1>1 DEF Bss!Dropped
  <2>2. /\ DOMAIN g = DOMAIN l /\ g[r] = [l[r] EXCEPT !.bucket = Null]
        /\ \A y \in DOMAIN g : y # r => g[y] = l[y]
    BY <2>1
  <2>3. /\ g[r] \in BssNode /\ g[r].bucket = Null /\ g[r].next = l[r].next
        /\ g[r].prev = l[r].prev
    BY <1>0, <2>2 DEF BssNode
  <2>4. \A y \in DOMAIN g : /\ g[y] \in BssNode
                            /\ g[y].bucket = IF y = r THEN Null ELSE l[y].bucket
                            /\ g[y].next = l[y].next /\ g[y].prev = l[y].prev
    BY <1>0, <2>2, <2>3
  <2>5. \A z \in DOMAIN g \ {Root} : g[z].bucket = Null => Bss!Children(z, DOMAIN g) # {}
    BY <1>0, <1>1, <2>2
  <2>6. QED BY <1>0, <2>2, <2>4, <2>5
<1>2. ASSUME Bss!Children(r, DOMAIN l) = {} PROVE Goal
  <2> DEFINE P == Bss!Pruned(r, l)
  <2>1. g = [y \in DOMAIN l \ P |-> l[y]]
    BY <1>2 DEF Bss!Dropped
  <2>2. r # Root
    <3>1. x \in Contexts /\ Len(x) \in Nat /\ Len(x) # 0
      BY <1>0, ContextsAreSequences, CallerProperties
    <3>2. /\ 1 \in 0 .. Len(x) /\ Prefix(x, 1) # Root /\ Caller(Prefix(x, 1)) = Prefix(x, 0)
          /\ Prefix(x, 0) = Root
      <4>1. 0 \in 0 .. Len(x) /\ 0 # Len(x) /\ 0 + 1 = 1
        BY <3>1
      <4>2. QED BY <3>1, <4>1, CallerOfPrefix, WholePrefix
    <3>3. Prefix(x, 1) \in DOMAIN l
      BY <1>0, <3>2
    <3>4. Prefix(x, 1) \in Bss!Children(Root, DOMAIN l)
      BY <3>2, <3>3, ChildrenProperties
    <3>5. QED BY <1>2, <3>4
  <2>3. /\ r \in P
        /\ \A y \in DOMAIN l : l[y].bucket # Null /\ y # r => y \notin P
        /\ \A i \in 0 .. Len(x) : Prefix(x, i) \notin P
        /\ \A z \in DOMAIN l \ P :
             z # Root /\ l[z].bucket = Null => Bss!Children(z, DOMAIN l \ P) # {}
    BY <1>0, <1>2, <2>2, PruningKeeps
  <2> HIDE DEF P
  <2>4. DOMAIN g = DOMAIN l \ P /\ \A y \in DOMAIN g : g[y] = l[y] /\ y # r
    BY <1>0, <2>1, <2>3
  <2>5. \A z \in DOMAIN g \ {Root} : g[z].bucket = Null => Bss!Children(z, DOMAIN g) # {}
    BY <1>0, <2>3, <2>4
  <2>6. QED BY <1>0, <2>3, <2>4, <2>5
<1>3. QED BY <1>0, <1>1, <1>2 DEF IsDropped, TreeHolds

\* A node that is linked.
LEMMA NewNode ==
  ASSUME NEW b \in (1 .. Counters + 1) \cup {Null}, NEW s \in Contexts \cup {Null},
         NEW p \in Contexts \cup {Null}, NEW n, n = [bucket |-> b, next |-> s, prev |-> p]
  PROVE  n \in BssNode /\ n.bucket = b /\ n.next = s /\ n.prev = p
  BY DEF BssNode

\* A node is linked in front of s.
Linked(t, x, b, s) ==
  LET h == [t EXCEPT ![x] = [bucket |-> b, next |-> s, prev |-> Null]]
  IN  IF s = Null THEN h ELSE [h EXCEPT ![s].prev = x]

\* The nodes after the victim r is replaced.
ReplacedNodes(t, x, b, s, r) == Bss!Dropped(r, Linked(t, x, b, s))

\* The nodes have their types.
NodesTyped(t) == DOMAIN t \subseteq Contexts /\ \A y \in DOMAIN t : t[y] \in BssNode

\* What Linked does: x is the first in the bucket b, before s.
IsLinked(l, t, x, b, s) ==
  /\ DOMAIN l = DOMAIN t /\ \A y \in DOMAIN t : l[y] \in BssNode
  /\ l[x].bucket = b /\ l[x].next = s /\ l[x].prev = Null
  /\ \A y \in DOMAIN t \ {x} :
       /\ l[y].bucket = t[y].bucket /\ l[y].next = t[y].next
       /\ l[y].prev = IF y = s THEN x ELSE t[y].prev

\* Linked does just that.
LEMMA LinkedNodes ==
  ASSUME NEW t, NodesTyped(t), NEW x, x \in DOMAIN t, NEW b \in 1 .. Counters + 1,
         NEW s, s \in DOMAIN t \cup {Null}, s # x, NEW l, l = Linked(t, x, b, s)
  PROVE  IsLinked(l, t, x, b, s)
<1> DEFINE h == [t EXCEPT ![x] = [bucket |-> b, next |-> s, prev |-> Null]]
<1>0. /\ DOMAIN t \subseteq Contexts /\ \A y \in DOMAIN t : t[y] \in BssNode
      /\ l = IF s = Null THEN h ELSE [h EXCEPT ![s].prev = x]
  BY DEF NodesTyped, Linked
<1>1. Null \notin Contexts /\ Null \notin 1 .. Counters + 1
  BY BssConstants
<1>2. DOMAIN h = DOMAIN t /\ h[x] = [bucket |-> b, next |-> s, prev |-> Null]
      /\ \A y \in DOMAIN t \ {x} : h[y] = t[y]
  OBVIOUS
<1>3. /\ DOMAIN l = DOMAIN t
      /\ l[x] = [bucket |-> b, next |-> s, prev |-> Null]
      /\ s # Null => l[s] = [t[s] EXCEPT !.prev = x]
      /\ \A y \in DOMAIN t \ {x} : y # s => l[y] = t[y]
  <2>1. (s = Null => l = h) /\ (s # Null => l = [h EXCEPT ![s].prev = x])
    BY <1>0
  <2> HIDE DEF h
  <2>2. s # Null => l[s] = [h[s] EXCEPT !.prev = x]
    BY <1>2, <2>1
  <2>3. QED BY <1>2, <2>1, <2>2
<1> HIDE DEF h
<1>4. s \in Contexts \cup {Null} /\ x \in Contexts /\ b \in (1 .. Counters + 1) \cup {Null}
  BY <1>0
<1>5. l[x] \in BssNode /\ l[x].bucket = b /\ l[x].next = s /\ l[x].prev = Null
  <2>1. l[x] = [bucket |-> b, next |-> s, prev |-> Null]
    BY <1>3
  <2>2. QED BY <1>4, <2>1, NewNode
<1>6. ASSUME NEW y \in DOMAIN t \ {x}
      PROVE  /\ l[y] \in BssNode /\ l[y].bucket = t[y].bucket /\ l[y].next = t[y].next
             /\ l[y].prev = IF y = s THEN x ELSE t[y].prev
  <2>1. CASE y = s
    <3>1. l[y] = [t[y] EXCEPT !.prev = x]
      BY <1>0, <1>1, <1>3, <2>1
    <3>2. QED BY <1>0, <1>4, <2>1, <3>1 DEF BssNode
  <2>2. CASE y # s
    BY <1>0, <1>3, <2>2
  <2>3. QED BY <2>1, <2>2
<1>7. QED BY <1>3, <1>5, <1>6 DEF IsLinked

\* The nodes where x, before s, has taken the place of the victim r.
IsReplaced(g, t, x, b, s, r) ==
  /\ TreeHolds(g, x, {Root}) /\ DOMAIN g \subseteq DOMAIN t
  /\ \A y \in DOMAIN t : t[y].bucket # Null /\ y # r => y \in DOMAIN g
  /\ x \in DOMAIN g /\ g[x].bucket = b /\ g[x].next = s /\ g[x].prev = Null
  /\ \A y \in DOMAIN g \ {x} :
       /\ g[y].bucket = IF y = r THEN Null ELSE t[y].bucket
       /\ g[y].next = t[y].next
       /\ g[y].prev = IF y = s THEN x ELSE t[y].prev

\* ReplacedNodes are those.
LEMMA ReplacedNodesProperties ==
  ASSUME NEW t, NEW x, x \in DOMAIN t, x # Root, TreeHolds(t, x, {Root, x}),
         NEW b \in 1 .. Counters + 1,
         NEW r, r \in DOMAIN t, x # r, t[r].bucket # Null,
         NEW s, s \in DOMAIN t \cup {Null}, s # x,
         NEW g, g = ReplacedNodes(t, x, b, s, r)
  PROVE  IsReplaced(g, t, x, b, s, r)
<1> DEFINE l == Linked(t, x, b, s)
<1>1. Null \notin Contexts /\ Null \notin 1 .. Counters + 1
  BY BssConstants
<1>2. g = Bss!Dropped(r, l)
  BY DEF ReplacedNodes
<1>3. /\ DOMAIN t \subseteq Contexts /\ \A y \in DOMAIN t : t[y] \in BssNode
      /\ \A i \in 0 .. Len(x) : Prefix(x, i) \in DOMAIN t
      /\ \A z \in DOMAIN t \ {Root, x} : t[z].bucket = Null => Bss!Children(z, DOMAIN t) # {}
  BY DEF TreeHolds
<1>4. IsLinked(l, t, x, b, s)
  <2>1. NodesTyped(t)
    BY <1>3 DEF NodesTyped
  <2> HIDE DEF l
  <2>2. l = Linked(t, x, b, s)
    BY DEF l
  <2>3. QED BY <2>1, <2>2, LinkedNodes
<1>5. /\ DOMAIN l = DOMAIN t /\ \A y \in DOMAIN t : l[y] \in BssNode
      /\ l[x].bucket = b /\ l[x].next = s /\ l[x].prev = Null
      /\ \A y \in DOMAIN t \ {x} :
           /\ l[y].bucket = t[y].bucket /\ l[y].next = t[y].next
           /\ l[y].prev = IF y = s THEN x ELSE t[y].prev
  BY <1>4 DEF IsLinked
<1> HIDE DEF l
<1>6. \A z \in DOMAIN l \ {Root} : l[z].bucket = Null => Bss!Children(z, DOMAIN l) # {}
  BY <1>1, <1>3, <1>5
<1>7. IsDropped(g, l, x, r)
  <2>1. TreeHolds(l, x, {Root})
    BY <1>3, <1>5, <1>6 DEF TreeHolds
  <2>2. l[x].bucket # Null /\ l[r].bucket # Null /\ x \in DOMAIN l /\ r \in DOMAIN l
    BY <1>1, <1>5
  <2>3. QED BY <1>2, <2>1, <2>2, DroppedProperties
<1>8. /\ TreeHolds(g, x, {Root}) /\ DOMAIN g \subseteq DOMAIN l
      /\ \A y \in DOMAIN l : l[y].bucket # Null /\ y # r => y \in DOMAIN g
      /\ \A y \in DOMAIN g : /\ g[y].bucket = IF y = r THEN Null ELSE l[y].bucket
                             /\ g[y].next = l[y].next /\ g[y].prev = l[y].prev
  BY <1>7 DEF IsDropped
<1>9. x \in DOMAIN g /\ \A y \in DOMAIN g : y \in DOMAIN t
  BY <1>1, <1>5, <1>8
<1>10. g[x].bucket = b /\ g[x].next = s /\ g[x].prev = Null
  BY <1>5, <1>8, <1>9
<1>11. ASSUME NEW y \in DOMAIN g \ {x}
       PROVE  /\ g[y].bucket = IF y = r THEN Null ELSE t[y].bucket
              /\ g[y].next = t[y].next
              /\ g[y].prev = IF y = s THEN x ELSE t[y].prev
  BY <1>5, <1>8, <1>9
<1>12. \A y \in DOMAIN t : t[y].bucket # Null /\ y # r => y \in DOMAIN g
  BY <1>5, <1>8, <1>9
<1>13. QED BY <1>5, <1>8, <1>9, <1>10, <1>11, <1>12 DEF IsReplaced

\* What Replace does: x, before s, takes the place of the victim r in the bucket b.
IsReplacing(d, q, x, b, r, s) ==
  /\ ListTypes(d) /\ TreeHolds(d.hcct, x, {Root})
  /\ DOMAIN d.hcct \subseteq DOMAIN q.hcct /\ DOMAIN d.bucket = DOMAIN q.bucket
  /\ \A y \in DOMAIN q.hcct : q.hcct[y].bucket # Null /\ y # r => y \in DOMAIN d.hcct
  /\ x \in DOMAIN d.hcct
  /\ d.hcct[x].bucket = b /\ d.hcct[x].next = s /\ d.hcct[x].prev = Null
  /\ \A y \in DOMAIN d.hcct \ {x} :
       /\ d.hcct[y].bucket = IF y = r THEN Null ELSE q.hcct[y].bucket
       /\ d.hcct[y].next = q.hcct[y].next
       /\ d.hcct[y].prev = IF y = s THEN x ELSE q.hcct[y].prev
  /\ \A c \in DOMAIN q.bucket :
       /\ d.bucket[c].counter = q.bucket[c].counter
       /\ d.bucket[c].next = q.bucket[c].next /\ d.bucket[c].prev = q.bucket[c].prev
       /\ d.bucket[c].node = IF c = b THEN x ELSE q.bucket[c].node
  /\ d.bfirst = q.bfirst /\ d.numc = q.numc /\ d.numb = q.numb

\* Replace does just that.
LEMMA ReplaceProperties ==
  ASSUME NEW q, ListTypes(q), NEW x, x \in DOMAIN q.hcct, x # Root,
         TreeHolds(q.hcct, x, {Root, x}),
         NEW b, b \in DOMAIN q.bucket, b = q.bfirst,
         NEW r, r \in DOMAIN q.hcct, r = q.bucket[b].node, x # r, q.hcct[r].bucket # Null,
         NEW s, s \in DOMAIN q.hcct \cup {Null}, s = q.hcct[r].next, s # x,
         NEW d, d = Bss!Replace(x, q)
  PROVE  IsReplacing(d, q, x, b, r, s)
<1> DEFINE g == ReplacedNodes(q.hcct, x, b, s, r)
           k == [q.bucket EXCEPT ![b].node = x]
<1>1. q = [hcct |-> q.hcct, bucket |-> q.bucket, bfirst |-> q.bfirst, numc |-> q.numc,
           numb |-> q.numb]
  BY DEF ListTypes
<1>2. /\ \A c \in DOMAIN q.bucket : q.bucket[c] \in BssBucket
      /\ DOMAIN q.hcct \subseteq Contexts /\ DOMAIN q.bucket \subseteq 1 .. Counters + 1
  BY DEF ListTypes
<1>3. d = ListsAfter(q, g, k, q.bfirst, q.numc, q.numb)
  <2>1. d = [q EXCEPT !.hcct = g, !.bucket[b].node = x]
    BY DEF Bss!Replace, ReplacedNodes, Linked
  <2> HIDE DEF g
  <2>2. d = [q EXCEPT !.hcct = g, !.bucket = k]
    BY <1>1, <2>1
  <2> HIDE DEF k
  <2>3. QED BY <1>1, <2>2 DEF ListsAfter
<1>4. IsReplaced(g, q.hcct, x, b, s, r)
  <2>1. b \in 1 .. Counters + 1
    BY <1>2
  <2> DEFINE t == q.hcct
  <2>2. /\ x \in DOMAIN t /\ TreeHolds(t, x, {Root, x}) /\ r \in DOMAIN t /\ t[r].bucket # Null
        /\ s \in DOMAIN t \cup {Null} /\ g = ReplacedNodes(t, x, b, s, r)
    OBVIOUS
  <2> HIDE DEF g, t
  <2>3. IsReplaced(g, t, x, b, s, r)
    BY <2>1, <2>2, ReplacedNodesProperties
  <2>4. QED BY <2>3 DEF t
<1>5. /\ DOMAIN k = DOMAIN q.bucket
      /\ \A c \in DOMAIN q.bucket :
           /\ k[c] \in BssBucket /\ k[c].counter = q.bucket[c].counter
           /\ k[c].next = q.bucket[c].next /\ k[c].prev = q.bucket[c].prev
           /\ k[c].node = IF c = b THEN x ELSE q.bucket[c].node
  <2>1. /\ DOMAIN k = DOMAIN q.bucket /\ k[b] = [q.bucket[b] EXCEPT !.node = x]
        /\ \A c \in DOMAIN q.bucket \ {b} : k[c] = q.bucket[c]
    OBVIOUS
  <2> HIDE DEF k
  <2>2. /\ k[b] \in BssBucket /\ k[b].counter = q.bucket[b].counter /\ k[b].next = q.bucket[b].next
        /\ k[b].prev = q.bucket[b].prev /\ k[b].node = x
    BY <1>2, <2>1 DEF BssBucket
  <2>3. QED BY <1>2, <2>1, <2>2
<1> HIDE DEF g, k
<1>6. /\ ListTypes(d) /\ d.hcct = g /\ d.bucket = k /\ d.bfirst = q.bfirst /\ d.numc = q.numc
      /\ d.numb = q.numb
  <2>1. (\A c \in DOMAIN k : k[c] \in BssBucket) /\ \A y \in DOMAIN g : g[y] \in BssNode
    BY <1>4, <1>5 DEF IsReplaced, TreeHolds
  <2>2. DOMAIN g \subseteq Contexts /\ DOMAIN k \subseteq 1 .. Counters + 1
    BY <1>2, <1>4, <1>5 DEF IsReplaced
  <2>3. QED BY <1>3, <2>1, <2>2, ListRecord
<1>7. QED BY <1>4, <1>5, <1>6, ZenonT(60) DEF IsReplaced, IsReplacing

-----------------------------------------------------------------------------
(* What rtn_enter does to the lists.                                       *)

\* The monitored nodes: those that have a bucket.
QMon(q) == {x \in DOMAIN q.hcct : q.hcct[x].bucket # Null}

\* The counter of a monitored node is that of its bucket.
QCount(q, x) == q.bucket[q.hcct[x].bucket].counter

\* The nodes in L are linked in the buckets, the buckets in a chain.
ListsSound(q, L) ==
  /\ ListTypes(q) /\ BucketChain(q.bucket, q.bfirst)
  /\ \E r : NodesLinked(q.hcct, q.bucket, L, r)
  /\ q.numb = Cardinality(DOMAIN q.bucket)

\* Between two events no bucket is empty, and the nodes that are linked are the monitored ones.
ListsHold(q) ==
  /\ ListsSound(q, QMon(q))
  /\ \A b \in DOMAIN q.bucket : q.bucket[b].node # Null
  /\ IsFiniteSet(QMon(q)) /\ q.numc = Cardinality(QMon(q)) /\ q.numc <= Counters

\* What is said of the domains of a sound record.
LEMMA ListDomains ==
  ASSUME NEW q, ListTypes(q)
  PROVE  /\ Null \notin Contexts /\ Null \notin DOMAIN q.hcct /\ Null \notin DOMAIN q.bucket
         /\ DOMAIN q.hcct \subseteq Contexts /\ DOMAIN q.bucket \subseteq 1 .. Counters + 1
         /\ IsFiniteSet(DOMAIN q.bucket) /\ Cardinality(DOMAIN q.bucket) \in Nat
<1>1. DOMAIN q.hcct \subseteq Contexts /\ DOMAIN q.bucket \subseteq 1 .. Counters + 1
  BY DEF ListTypes
<1>2. Null \notin Contexts /\ Null \notin 1 .. Counters + 1 /\ Counters \in Nat
  BY BssConstants
<1>3. IsFiniteSet(1 .. Counters + 1)
  <2>1. 1 \in Int /\ Counters + 1 \in Int
    BY <1>2
  <2>2. QED BY <2>1, FS_Interval
<1>4. IsFiniteSet(DOMAIN q.bucket)
  BY <1>1, <1>3, FS_Subset
<1>5. Cardinality(DOMAIN q.bucket) \in Nat
  BY <1>4, FS_CardinalityType
<1>6. QED BY <1>1, <1>2, <1>4, <1>5

\* Where the links of x lead.
LEMMA LinksOfNode ==
  ASSUME NEW h, NEW k, NEW L, NEW r, NodesLinked(h, k, L, r), Null \notin L, NEW x \in L
  PROVE  /\ h[x].bucket \in DOMAIN k
         /\ h[x].prev = h[x].next => h[x].prev = Null
         /\ h[x].prev # x /\ h[x].next # x
         /\ h[x].next \in L \cup {Null} /\ h[x].prev \in L \cup {Null}
<1>1. h[x].bucket \in DOMAIN k /\ r[x] \in Int
  BY DEF NodesLinked
<1>2. h[x].next # Null =>
       /\ h[x].next \in L /\ h[h[x].next].bucket = h[x].bucket
       /\ h[h[x].next].prev = x /\ r[x] < r[h[x].next] /\ r[h[x].next] \in Int
  BY DEF NodesLinked
<1>3. h[x].prev # Null =>
       /\ h[x].prev \in L /\ h[h[x].prev].next = x /\ r[h[x].prev] < r[x] /\ r[h[x].prev] \in Int
  <2>1. SUFFICES ASSUME h[x].prev # Null
                 PROVE  /\ h[x].prev \in L /\ h[h[x].prev].next = x /\ r[h[x].prev] < r[x]
                        /\ r[h[x].prev] \in Int
    OBVIOUS
  <2>2. h[x].prev \in L /\ h[h[x].prev].next = x /\ x # Null
    BY <2>1 DEF NodesLinked
  <2>3. QED BY <2>2 DEF NodesLinked
<1>4. h[x].prev = h[x].next => h[x].prev = Null
  BY <1>1, <1>2, <1>3
<1>5. QED BY <1>1, <1>2, <1>3, <1>4

\* The links between the buckets.
LEMMA LinksOfBucket ==
  ASSUME NEW k, NEW f, BucketChain(k, f), Null \notin DOMAIN k, NEW b \in DOMAIN k
  PROVE  /\ k[b].next # b
         /\ k[b].prev = k[b].next => k[b].prev = Null
         /\ k[b].next \in DOMAIN k \cup {Null}
<1>1. k[b].counter \in Nat
  BY DEF BucketChain
<1>2. k[b].next # Null => /\ k[b].next \in DOMAIN k /\ k[k[b].next].prev = b
                          /\ k[b].counter < k[k[b].next].counter /\ k[k[b].next].counter \in Nat
  BY DEF BucketChain
<1>3. k[b].prev # Null => /\ k[b].prev \in DOMAIN k /\ k[k[b].prev].next = b
                          /\ k[k[b].prev].counter < k[b].counter
  <2>1. SUFFICES ASSUME k[b].prev # Null
                 PROVE  /\ k[b].prev \in DOMAIN k /\ k[k[b].prev].next = b
                        /\ k[k[b].prev].counter < k[b].counter
    OBVIOUS
  <2>2. k[b].prev \in DOMAIN k /\ k[k[b].prev].next = b /\ b # Null
    BY <2>1 DEF BucketChain
  <2>3. QED BY <2>2 DEF BucketChain
<1>4. QED BY <1>1, <1>2, <1>3

\* The order of the buckets does not depend on their nodes.
LEMMA SameChain ==
  ASSUME NEW k, NEW f, BucketChain(k, f), NEW m, DOMAIN m = DOMAIN k,
         \A b \in DOMAIN k : /\ m[b].counter = k[b].counter /\ m[b].next = k[b].next
                             /\ m[b].prev = k[b].prev
  PROVE  BucketChain(m, f)
<1>1. /\ f \in DOMAIN k
      /\ \A b \in DOMAIN k : k[b].counter \in Nat
      /\ \A b \in DOMAIN k : k[b].next # Null =>
           /\ k[b].next \in DOMAIN k /\ k[k[b].next].prev = b
           /\ k[b].counter < k[k[b].next].counter
      /\ \A b \in DOMAIN k : k[b].prev # Null => k[b].prev \in DOMAIN k /\ k[k[b].prev].next = b
      /\ \A b \in DOMAIN k : k[b].prev = Null <=> b = f
  BY DEF BucketChain
<1>2. \A b \in DOMAIN m : m[b].next # Null =>
        /\ m[b].next \in DOMAIN m /\ m[m[b].next].prev = b
        /\ m[b].counter < m[m[b].next].counter
  BY <1>1
<1>3. \A b \in DOMAIN m : m[b].prev # Null => m[b].prev \in DOMAIN m /\ m[m[b].prev].next = b
  BY <1>1
<1>4. QED BY <1>1, <1>2, <1>3 DEF BucketChain

\* A bucket that none of the nodes is in is removed.
Unused(m, h, k, L, b) ==
  /\ \A x \in L : h[x].bucket # b
  /\ DOMAIN m = DOMAIN k \ {b} /\ \A c \in DOMAIN m : m[c].node = k[c].node

\* The nodes stay linked.
LEMMA DropBucket ==
  ASSUME NEW h, NEW k, NEW L, NEW r, NodesLinked(h, k, L, r), NEW m, NEW b, Unused(m, h, k, L, b)
  PROVE  NodesLinked(h, m, L, r)
<1>0. /\ \A x \in L : h[x].bucket # b
      /\ DOMAIN m = DOMAIN k \ {b} /\ \A c \in DOMAIN m : m[c].node = k[c].node
  BY DEF Unused
<1> USE <1>0
<1>1. \A x \in L : h[x].bucket \in DOMAIN m /\ r[x] \in Int
  BY DEF NodesLinked
<1>2. \A x \in L : h[x].prev = Null <=> m[h[x].bucket].node = x
  BY <1>1 DEF NodesLinked
<1>3. \A c \in DOMAIN m : m[c].node # Null => m[c].node \in L /\ h[m[c].node].bucket = c
  BY DEF NodesLinked
<1>4. QED BY <1>1, <1>2, <1>3 DEF NodesLinked

-----------------------------------------------------------------------------
(* Increment: x is taken from its bucket, put into the next one, and the    *)
(* bucket goes where it is empty.                                           *)

\* After the first of these steps.
Detached(d, q, x, b) ==
  /\ ListsSound(d, QMon(q) \ {x})
  /\ DOMAIN d.hcct = DOMAIN q.hcct /\ DOMAIN d.bucket = DOMAIN q.bucket
  /\ d.hcct[x].bucket = b /\ d.hcct[x].next = Null /\ d.hcct[x].prev = Null
  /\ \A y \in DOMAIN q.hcct \ {x} : d.hcct[y].bucket = q.hcct[y].bucket
  /\ \A c \in DOMAIN q.bucket :
       /\ d.bucket[c].counter = q.bucket[c].counter /\ d.bucket[c].next = q.bucket[c].next
       /\ c # b => d.bucket[c].node # Null
  /\ d.bfirst = q.bfirst /\ d.numc = q.numc

\* Detach takes x out of its bucket, which may be empty then.
LEMMA DetachKeeps ==
  ASSUME NEW q, ListsHold(q), NEW x, x \in QMon(q), NEW b, b = q.hcct[x].bucket,
         NEW d, d = Bss!Detach(x, q)
  PROVE  Detached(d, q, x, b)
<1> DEFINE L == QMon(q)
<1>1. /\ ListTypes(q) /\ BucketChain(q.bucket, q.bfirst)
      /\ q.numb = Cardinality(DOMAIN q.bucket)
      /\ \A c \in DOMAIN q.bucket : q.bucket[c].node # Null
  BY DEF ListsHold, ListsSound
<1>2. PICK r : NodesLinked(q.hcct, q.bucket, L, r)
  BY DEF ListsHold, ListsSound
<1>3. x \in L /\ x \in DOMAIN q.hcct /\ L \subseteq DOMAIN q.hcct
  BY DEF QMon
<1>4. L \subseteq Contexts /\ Null \notin L
  BY <1>1, <1>3, ListDomains
<1> HIDE DEF L
<1> DEFINE p == q.hcct[x].prev
           s == q.hcct[x].next
<1>5. b \in DOMAIN q.bucket /\ (p = s => p = Null) /\ p # x /\ s # x
  BY <1>2, <1>3, <1>4, LinksOfNode
<1>6. IsDetached(d, q, x, p, s)
  <2>1. p = q.hcct[x].prev /\ s = q.hcct[x].next /\ q.hcct[x].bucket \in DOMAIN q.bucket
    BY <1>5
  <2> HIDE DEF p, s
  <2>2. QED BY <1>1, <1>3, <1>5, <2>1, DetachProperties
<1>7. /\ ListTypes(d)
      /\ DOMAIN d.hcct = DOMAIN q.hcct /\ DOMAIN d.bucket = DOMAIN q.bucket
      /\ d.hcct[x].bucket = b /\ d.hcct[x].next = Null /\ d.hcct[x].prev = Null
      /\ \A y \in DOMAIN q.hcct \ {x} :
           /\ d.hcct[y].bucket = q.hcct[y].bucket
           /\ d.hcct[y].next = IF y = p THEN s ELSE q.hcct[y].next
           /\ d.hcct[y].prev = IF y = s THEN p ELSE q.hcct[y].prev
      /\ \A c \in DOMAIN q.bucket :
           /\ d.bucket[c].counter = q.bucket[c].counter
           /\ d.bucket[c].next = q.bucket[c].next /\ d.bucket[c].prev = q.bucket[c].prev
           /\ d.bucket[c].node = IF p = Null /\ c = b THEN s ELSE q.bucket[c].node
      /\ d.bfirst = q.bfirst /\ d.numc = q.numc /\ d.numb = q.numb
  BY <1>6 DEF IsDetached
<1>8. TakenOut(d.hcct, d.bucket, q.hcct, q.bucket, L, x)
  BY <1>3, <1>4, <1>7 DEF TakenOut
<1>9. NodesLinked(d.hcct, d.bucket, L \ {x}, r)
  BY <1>2, <1>8, Unlink
<1>10. BucketChain(d.bucket, d.bfirst)
  <2>1. BucketChain(d.bucket, q.bfirst)
    BY <1>1, <1>7, SameChain
  <2>2. QED BY <1>7, <2>1
<1>11. ListsSound(d, L \ {x})
  BY <1>1, <1>7, <1>9, <1>10 DEF ListsSound
<1>12. ListsSound(d, QMon(q) \ {x})
  BY <1>11 DEF L
<1>13. \A c \in DOMAIN q.bucket : c # b => d.bucket[c].node # Null
  BY <1>1, <1>7
<1>14. QED BY <1>7, <1>12, <1>13 DEF Detached

\* After the second.
Advanced(d, q, x, b) ==
  /\ ListsSound(d, QMon(q))
  /\ DOMAIN d.hcct = DOMAIN q.hcct /\ DOMAIN q.bucket \subseteq DOMAIN d.bucket
  /\ d.hcct[x].bucket \in DOMAIN d.bucket /\ d.hcct[x].bucket # b
  /\ d.bucket[d.hcct[x].bucket].counter = q.bucket[b].counter + 1
  /\ \A y \in DOMAIN q.hcct \ {x} : d.hcct[y].bucket = q.hcct[y].bucket
  /\ \A c \in DOMAIN q.bucket : d.bucket[c].counter = q.bucket[c].counter
  /\ \A c \in DOMAIN d.bucket \ {b} : d.bucket[c].node # Null
  /\ d.bucket[b].next # Null
  /\ d.numc = q.numc

\* A new bucket gives x its counter if the next one counts more than that.
LEMMA NewBucketKeeps ==
  ASSUME NEW q, ListsHold(q), NEW x, x \in QMon(q), NEW b, b = q.hcct[x].bucket,
         NEW e, Detached(e, q, x, b),
         e.bucket[b].next # Null => e.bucket[e.bucket[b].next].counter # e.bucket[b].counter + 1,
         NEW d, d = Bss!InNewBucket(x, b, e)
  PROVE  Advanced(d, q, x, b)
<1> DEFINE L == QMon(q)
<1>1. /\ ListTypes(q) /\ IsFiniteSet(L) /\ Cardinality(L) <= Counters
      /\ \A c \in DOMAIN q.bucket : q.bucket[c].node # Null
  BY DEF ListsHold, ListsSound
<1>2. PICK r : NodesLinked(q.hcct, q.bucket, L, r)
  BY DEF ListsHold, ListsSound
<1>3. x \in L /\ x \in DOMAIN q.hcct /\ L \subseteq DOMAIN q.hcct
  BY DEF QMon
<1>4. /\ ListsSound(e, L \ {x})
      /\ DOMAIN e.hcct = DOMAIN q.hcct /\ DOMAIN e.bucket = DOMAIN q.bucket
      /\ e.hcct[x].bucket = b /\ e.hcct[x].next = Null /\ e.hcct[x].prev = Null
      /\ \A y \in DOMAIN q.hcct \ {x} : e.hcct[y].bucket = q.hcct[y].bucket
      /\ \A c \in DOMAIN q.bucket :
           /\ e.bucket[c].counter = q.bucket[c].counter /\ e.bucket[c].next = q.bucket[c].next
           /\ c # b => e.bucket[c].node # Null
      /\ e.bfirst = q.bfirst /\ e.numc = q.numc
  BY DEF Detached
<1> HIDE DEF L
<1>5. /\ ListTypes(e) /\ BucketChain(e.bucket, e.bfirst) /\ e.numb = Cardinality(DOMAIN e.bucket)
  BY <1>4 DEF ListsSound
<1>6. PICK v : NodesLinked(e.hcct, e.bucket, L \ {x}, v)
  BY <1>4 DEF ListsSound
<1>7. /\ Null \notin Contexts /\ Null \notin DOMAIN e.bucket /\ L \subseteq Contexts /\ Null \notin L
      /\ DOMAIN e.bucket \subseteq 1 .. Counters + 1 /\ IsFiniteSet(DOMAIN e.bucket)
      /\ Null \notin 1 .. Counters + 1 /\ Counters \in Nat
  BY <1>3, <1>4, <1>5, ListDomains, BssConstants
<1>8. b \in DOMAIN e.bucket
  BY <1>2, <1>3, <1>4, <1>7, LinksOfNode
<1> DEFINE n == Bss!NewBucket(DOMAIN e.bucket)
<1>9. n \in 1 .. Counters + 1 /\ n \notin DOMAIN e.bucket
  <2>1. IsFiniteSet(DOMAIN q.bucket) /\ Cardinality(DOMAIN q.bucket) <= Cardinality(L)
    BY <1>1, <1>2, BucketsAreFew
  <2>2. Cardinality(DOMAIN e.bucket) \in Nat /\ Cardinality(L) \in Nat
    BY <1>1, <1>7, FS_CardinalityType
  <2>3. Cardinality(DOMAIN e.bucket) <= Counters
    BY <1>1, <1>4, <1>7, <2>1, <2>2
  <2>4. QED BY <1>7, <2>3, NewBucketProperties
<1>10. IsInNewBucket(d, e, x, b, n)
  <2>1. e.bucket[b].next # b
    BY <1>5, <1>7, <1>8, LinksOfBucket
  <2>2. n = Bss!NewBucket(DOMAIN e.bucket) /\ x \in DOMAIN e.hcct
    BY <1>3, <1>4
  <2> HIDE DEF n
  <2>3. QED BY <1>5, <1>8, <1>9, <2>1, <2>2, InNewBucketProperties
<1> HIDE DEF n
<1>11. /\ ListTypes(d)
       /\ DOMAIN d.hcct = DOMAIN e.hcct /\ DOMAIN d.bucket = DOMAIN e.bucket \cup {n}
       /\ d.hcct[x].bucket = n /\ d.hcct[x].next = Null /\ d.hcct[x].prev = Null
       /\ \A y \in DOMAIN e.hcct \ {x} : d.hcct[y] = e.hcct[y]
       /\ d.bucket[n].counter = e.bucket[b].counter + 1 /\ d.bucket[n].node = x
       /\ d.bucket[n].next = e.bucket[b].next /\ d.bucket[n].prev = b
       /\ \A c \in DOMAIN e.bucket :
            /\ d.bucket[c].counter = e.bucket[c].counter /\ d.bucket[c].node = e.bucket[c].node
            /\ d.bucket[c].next = IF c = b THEN n ELSE e.bucket[c].next
            /\ d.bucket[c].prev = IF c = e.bucket[b].next THEN n ELSE e.bucket[c].prev
       /\ d.bfirst = e.bfirst /\ d.numc = e.numc /\ d.numb = e.numb + 1
  BY <1>4, <1>10 DEF IsInNewBucket
<1>12. BucketChain(d.bucket, d.bfirst)
  <2>1. BucketInserted(d.bucket, e.bucket, b, n)
    BY <1>7, <1>8, <1>9, <1>11 DEF BucketInserted
  <2>2. BucketChain(d.bucket, e.bfirst)
    BY <1>5, <2>1, ChainInsert
  <2>3. QED BY <1>11, <2>2
<1>13. \E u : NodesLinked(d.hcct, d.bucket, L, u)
  <2>1. L \ {x} \subseteq DOMAIN e.hcct \ {x} /\ (L \ {x}) \cup {x} = L
    BY <1>3, <1>4
  <2>2. PutFirst(d.hcct, d.bucket, e.hcct, e.bucket, L \ {x}, n, Null, x)
    <3>1. \A y \in L \ {x} : /\ d.hcct[y].bucket = e.hcct[y].bucket
                             /\ d.hcct[y].next = e.hcct[y].next
                             /\ d.hcct[y].prev = IF y = Null THEN x ELSE e.hcct[y].prev
      BY <1>7, <1>11, <2>1, ZenonT(60)
    <3>2. L \ {x} \subseteq Contexts /\ x \in Contexts /\ x \notin L \ {x}
      BY <1>3, <1>7
    <3>3. QED BY <1>9, <1>11, <3>1, <3>2 DEF PutFirst
  <2>3. \E u : NodesLinked(d.hcct, d.bucket, (L \ {x}) \cup {x}, u)
    BY <1>6, <2>2, LinkFirst
  <2>4. QED BY <2>1, <2>3
<1>14. d.numb = Cardinality(DOMAIN d.bucket)
  <2>1. Cardinality(DOMAIN e.bucket \cup {n}) = Cardinality(DOMAIN e.bucket) + 1
    BY <1>7, <1>9, FS_AddElement
  <2>2. QED BY <1>5, <1>11, <2>1, ZenonT(60)
<1>15. ListsSound(d, QMon(q))
  BY <1>11, <1>12, <1>13, <1>14 DEF ListsSound, L
<1>16. n # b /\ n # Null
  BY <1>7, <1>8, <1>9
<1>17. x # Null
  BY <1>3, <1>7
<1>18. ASSUME NEW c \in DOMAIN d.bucket \ {b} PROVE d.bucket[c].node # Null
  <2>1. c = n \/ c \in DOMAIN e.bucket
    BY <1>11
  <2>2. CASE c = n
    BY <1>11, <1>17, <2>2
  <2>3. CASE c \in DOMAIN e.bucket
    <3>1. e.bucket[c].node # Null
      BY <1>4, <2>3
    <3>2. QED BY <1>11, <2>3, <3>1
  <2>4. QED BY <2>1, <2>2, <2>3
<1>19. /\ DOMAIN d.hcct = DOMAIN q.hcct /\ DOMAIN q.bucket \subseteq DOMAIN d.bucket
       /\ d.hcct[x].bucket \in DOMAIN d.bucket /\ d.hcct[x].bucket # b
       /\ d.bucket[d.hcct[x].bucket].counter = q.bucket[b].counter + 1
  BY <1>4, <1>8, <1>11, <1>16
<1>20. /\ \A y \in DOMAIN q.hcct \ {x} : d.hcct[y].bucket = q.hcct[y].bucket
       /\ \A c \in DOMAIN q.bucket : d.bucket[c].counter = q.bucket[c].counter
  <2>1. \A y \in DOMAIN q.hcct \ {x} : d.hcct[y] = e.hcct[y]
    BY <1>4, <1>11
  <2>2. \A y \in DOMAIN q.hcct \ {x} : d.hcct[y].bucket = q.hcct[y].bucket
    BY <1>4, <2>1
  <2>3. \A c \in DOMAIN q.bucket : d.bucket[c].counter = e.bucket[c].counter
    BY <1>4, <1>11
  <2>4. \A c \in DOMAIN q.bucket : d.bucket[c].counter = q.bucket[c].counter
    BY <1>4, <2>3
  <2>5. QED BY <2>2, <2>4
<1>21. d.bucket[b].next # Null /\ d.numc = q.numc
  BY <1>4, <1>8, <1>11, <1>16
<1>22. QED BY <1>15, <1>18, <1>19, <1>20, <1>21 DEF Advanced

\* The next bucket takes x if it counts one more than the old one.
LEMMA NextBucketKeeps ==
  ASSUME NEW q, ListsHold(q), NEW x, x \in QMon(q), NEW b, b = q.hcct[x].bucket,
         NEW e, Detached(e, q, x, b), NEW a, a = e.bucket[b].next, a # Null,
         e.bucket[a].counter = e.bucket[b].counter + 1,
         NEW d, d = Bss!InNextBucket(x, a, e)
  PROVE  Advanced(d, q, x, b)
<1> DEFINE L == QMon(q)
<1>1. ListTypes(q)
  BY DEF ListsHold, ListsSound
<1>2. PICK r : NodesLinked(q.hcct, q.bucket, L, r)
  BY DEF ListsHold, ListsSound
<1>3. x \in L /\ x \in DOMAIN q.hcct /\ L \subseteq DOMAIN q.hcct
  BY DEF QMon
<1>4. /\ ListsSound(e, L \ {x})
      /\ DOMAIN e.hcct = DOMAIN q.hcct /\ DOMAIN e.bucket = DOMAIN q.bucket
      /\ e.hcct[x].bucket = b /\ e.hcct[x].next = Null /\ e.hcct[x].prev = Null
      /\ \A y \in DOMAIN q.hcct \ {x} : e.hcct[y].bucket = q.hcct[y].bucket
      /\ \A c \in DOMAIN q.bucket :
           /\ e.bucket[c].counter = q.bucket[c].counter /\ e.bucket[c].next = q.bucket[c].next
           /\ c # b => e.bucket[c].node # Null
      /\ e.bfirst = q.bfirst /\ e.numc = q.numc
  BY DEF Detached
<1> HIDE DEF L
<1>5. /\ ListTypes(e) /\ BucketChain(e.bucket, e.bfirst) /\ e.numb = Cardinality(DOMAIN e.bucket)
  BY <1>4 DEF ListsSound
<1>6. PICK v : NodesLinked(e.hcct, e.bucket, L \ {x}, v)
  BY <1>4 DEF ListsSound
<1>7. /\ Null \notin Contexts /\ Null \notin DOMAIN e.bucket /\ L \subseteq Contexts /\ Null \notin L
  BY <1>3, <1>4, <1>5, ListDomains
<1>8. b \in DOMAIN e.bucket
  BY <1>2, <1>3, <1>4, <1>7, LinksOfNode
<1>9. a \in DOMAIN e.bucket /\ a # b
  BY <1>5, <1>7, <1>8, LinksOfBucket
<1> DEFINE s == e.bucket[a].node
<1>10. s # Null /\ s \in L \ {x} /\ s \in DOMAIN e.hcct /\ s # x
  <2>1. s # Null
    BY <1>4, <1>9
  <2>2. s \in L \ {x}
    BY <1>6, <1>9, <2>1 DEF NodesLinked
  <2>3. QED BY <1>3, <1>4, <2>1, <2>2
<1>11. IsInNextBucket(d, e, x, a, s)
  <2>1. s = e.bucket[a].node /\ x \in DOMAIN e.hcct
    BY <1>3, <1>4
  <2> HIDE DEF s
  <2>2. QED BY <1>5, <1>9, <1>10, <2>1, InNextBucketProperties
<1> HIDE DEF s
<1>12. /\ ListTypes(d)
       /\ DOMAIN d.hcct = DOMAIN e.hcct /\ DOMAIN d.bucket = DOMAIN e.bucket
       /\ d.hcct[x].bucket = a /\ d.hcct[x].next = s /\ d.hcct[x].prev = Null
       /\ \A y \in DOMAIN e.hcct \ {x} :
            /\ d.hcct[y].bucket = e.hcct[y].bucket /\ d.hcct[y].next = e.hcct[y].next
            /\ d.hcct[y].prev = IF y = s THEN x ELSE e.hcct[y].prev
       /\ \A c \in DOMAIN e.bucket :
            /\ d.bucket[c].counter = e.bucket[c].counter
            /\ d.bucket[c].next = e.bucket[c].next /\ d.bucket[c].prev = e.bucket[c].prev
            /\ d.bucket[c].node = IF c = a THEN x ELSE e.bucket[c].node
       /\ d.bfirst = e.bfirst /\ d.numc = e.numc /\ d.numb = e.numb
  BY <1>4, <1>11 DEF IsInNextBucket
<1>13. BucketChain(d.bucket, d.bfirst)
  <2>1. DOMAIN d.bucket = DOMAIN e.bucket
        /\ \A c \in DOMAIN e.bucket : /\ d.bucket[c].counter = e.bucket[c].counter
                                      /\ d.bucket[c].next = e.bucket[c].next
                                      /\ d.bucket[c].prev = e.bucket[c].prev
    BY <1>12
  <2>2. BucketChain(d.bucket, e.bfirst)
    BY <1>5, <2>1, SameChain, ZenonT(60)
  <2>3. QED BY <1>12, <2>2
<1>14. \E u : NodesLinked(d.hcct, d.bucket, L, u)
  <2>1. L \ {x} \subseteq DOMAIN e.hcct \ {x} /\ (L \ {x}) \cup {x} = L
    BY <1>3, <1>4
  <2>2. PutFirst(d.hcct, d.bucket, e.hcct, e.bucket, L \ {x}, a, s, x)
    <3>1. \A y \in L \ {x} : /\ d.hcct[y].bucket = e.hcct[y].bucket
                             /\ d.hcct[y].next = e.hcct[y].next
                             /\ d.hcct[y].prev = IF y = s THEN x ELSE e.hcct[y].prev
      BY <1>12, <2>1, ZenonT(60)
    <3>2. L \ {x} \subseteq Contexts /\ x \in Contexts /\ x \notin L \ {x}
      BY <1>3, <1>7
    <3>3. DOMAIN d.bucket = DOMAIN e.bucket \cup {a} /\ d.bucket[a].node = x
          /\ \A c \in DOMAIN e.bucket : c # a => d.bucket[c].node = e.bucket[c].node
      BY <1>9, <1>12
    <3>4. QED BY <1>9, <1>12, <3>1, <3>2, <3>3 DEF PutFirst, s
  <2>3. \E u : NodesLinked(d.hcct, d.bucket, (L \ {x}) \cup {x}, u)
    BY <1>6, <2>2, LinkFirst
  <2>4. QED BY <2>1, <2>3
<1>15. ListsSound(d, QMon(q))
  BY <1>5, <1>12, <1>13, <1>14 DEF ListsSound, L
<1>16. x # Null
  BY <1>3, <1>7
<1>17. ASSUME NEW c \in DOMAIN d.bucket \ {b} PROVE d.bucket[c].node # Null
  <2>1. CASE c = a
    BY <1>9, <1>12, <1>16, <2>1
  <2>2. CASE c # a
    <3>1. e.bucket[c].node # Null /\ c \in DOMAIN e.bucket
      BY <1>4, <1>12
    <3>2. QED BY <1>12, <2>2, <3>1
  <2>3. QED BY <2>1, <2>2
<1>18. /\ DOMAIN d.hcct = DOMAIN q.hcct /\ DOMAIN q.bucket \subseteq DOMAIN d.bucket
       /\ d.hcct[x].bucket \in DOMAIN d.bucket /\ d.hcct[x].bucket # b
  BY <1>4, <1>9, <1>12
<1>19. d.bucket[d.hcct[x].bucket].counter = q.bucket[b].counter + 1
  <2>1. d.bucket[a].counter = e.bucket[a].counter
    BY <1>9, <1>12
  <2>2. e.bucket[b].counter = q.bucket[b].counter
    BY <1>4, <1>8
  <2>3. d.hcct[x].bucket = a /\ e.bucket[a].counter = e.bucket[b].counter + 1
    BY <1>12
  <2>4. QED BY <2>1, <2>2, <2>3, Zenon
<1>20. ASSUME NEW y \in DOMAIN q.hcct \ {x} PROVE d.hcct[y].bucket = q.hcct[y].bucket
  <2>1. y \in DOMAIN e.hcct \ {x} /\ e.hcct[y].bucket = q.hcct[y].bucket
    BY <1>4
  <2>2. QED BY <1>12, <2>1
<1>21. ASSUME NEW c \in DOMAIN q.bucket PROVE d.bucket[c].counter = q.bucket[c].counter
  <2>1. c \in DOMAIN e.bucket /\ e.bucket[c].counter = q.bucket[c].counter
    BY <1>4
  <2>2. QED BY <1>12, <2>1
<1>22. d.bucket[b].next # Null /\ d.numc = q.numc
  BY <1>4, <1>8, <1>12
<1>23. QED BY <1>15, <1>17, <1>18, <1>19, <1>20, <1>21, <1>22 DEF Advanced

\* After the last step: x counts one more, the others what they did.
Incremented(d, q, x) ==
  /\ ListsHold(d) /\ QMon(d) = QMon(q)
  /\ DOMAIN d.hcct = DOMAIN q.hcct
  /\ \A y \in DOMAIN q.hcct : d.hcct[y].bucket = Null <=> q.hcct[y].bucket = Null
  /\ \A y \in QMon(q) : QCount(d, y) = IF y = x THEN QCount(q, y) + 1 ELSE QCount(q, y)
  /\ d.numc = q.numc

\* With the old bucket gone where x was its last node, the lists hold again.
LEMMA VacateKeeps ==
  ASSUME NEW q, ListsHold(q), NEW x, x \in QMon(q), NEW b, b = q.hcct[x].bucket,
         NEW e, Advanced(e, q, x, b), NEW d, d = Bss!Vacate(b, e)
  PROVE  Incremented(d, q, x)
<1> DEFINE L == QMon(q)
<1>1. /\ ListTypes(q) /\ IsFiniteSet(L) /\ q.numc = Cardinality(L) /\ q.numc <= Counters
  BY DEF ListsHold, ListsSound
<1>2. PICK r : NodesLinked(q.hcct, q.bucket, L, r)
  BY DEF ListsHold, ListsSound
<1>3. /\ x \in L /\ x \in DOMAIN q.hcct /\ L \subseteq DOMAIN q.hcct
      /\ \A y \in DOMAIN q.hcct : y \in L <=> q.hcct[y].bucket # Null
  BY DEF QMon
<1>4. /\ ListsSound(e, L)
      /\ DOMAIN e.hcct = DOMAIN q.hcct /\ DOMAIN q.bucket \subseteq DOMAIN e.bucket
      /\ e.hcct[x].bucket \in DOMAIN e.bucket /\ e.hcct[x].bucket # b
      /\ e.bucket[e.hcct[x].bucket].counter = q.bucket[b].counter + 1
      /\ \A y \in DOMAIN q.hcct \ {x} : e.hcct[y].bucket = q.hcct[y].bucket
      /\ \A c \in DOMAIN q.bucket : e.bucket[c].counter = q.bucket[c].counter
      /\ \A c \in DOMAIN e.bucket \ {b} : e.bucket[c].node # Null
      /\ e.bucket[b].next # Null
      /\ e.numc = q.numc
  BY DEF Advanced
<1>5. QMon(e) = L
  <2>1. Null \notin DOMAIN e.bucket
    BY <1>4, ListDomains DEF ListsSound
  <2>2. \A y \in DOMAIN q.hcct : e.hcct[y].bucket # Null <=> q.hcct[y].bucket # Null
    BY <1>3, <1>4, <2>1
  <2>3. QED BY <1>4, <2>2 DEF QMon
<1> HIDE DEF L
<1>6. /\ ListTypes(e) /\ BucketChain(e.bucket, e.bfirst) /\ e.numb = Cardinality(DOMAIN e.bucket)
  BY <1>4 DEF ListsSound
<1>7. PICK v : NodesLinked(e.hcct, e.bucket, L, v)
  BY <1>4 DEF ListsSound
<1>8. /\ Null \notin Contexts /\ Null \notin DOMAIN e.bucket /\ L \subseteq Contexts /\ Null \notin L
      /\ IsFiniteSet(DOMAIN e.bucket) /\ Cardinality(DOMAIN e.bucket) \in Nat
  BY <1>3, <1>4, <1>6, ListDomains
<1>9. b \in DOMAIN q.bucket /\ b \in DOMAIN e.bucket
  BY <1>2, <1>3, <1>4, <1>8, LinksOfNode
\* What is left to show of the lists.
<1> DEFINE Goal == /\ ListsSound(d, L) /\ d.hcct = e.hcct
                   /\ \A c \in DOMAIN d.bucket : d.bucket[c].node # Null
                   /\ \A y \in L : d.bucket[e.hcct[y].bucket].counter
                                     = e.bucket[e.hcct[y].bucket].counter
                   /\ d.numc = e.numc
<1>10. ASSUME e.bucket[b].node # Null PROVE Goal
  <2>1. d = e
    BY <1>10 DEF Bss!Vacate
  <2>2. \A c \in DOMAIN d.bucket : d.bucket[c].node # Null
    BY <1>4, <1>10, <2>1
  <2>3. QED BY <1>4, <2>1, <2>2
<1>11. ASSUME e.bucket[b].node = Null PROVE Goal
  <2> DEFINE p == e.bucket[b].prev
             s == e.bucket[b].next
  <2>1. p = s => p = Null
    BY <1>6, <1>8, <1>9, LinksOfBucket
  <2>2. IsVacated(d, e, b, p, s)
    <3>1. p = e.bucket[b].prev /\ s = e.bucket[b].next
      OBVIOUS
    <3> HIDE DEF p, s
    <3>2. QED BY <1>6, <1>9, <1>11, <2>1, <3>1, VacateProperties
  <2>3. /\ ListTypes(d) /\ d.hcct = e.hcct
        /\ DOMAIN d.bucket = DOMAIN e.bucket \ {b}
        /\ \A c \in DOMAIN d.bucket :
             /\ d.bucket[c].counter = e.bucket[c].counter /\ d.bucket[c].node = e.bucket[c].node
             /\ d.bucket[c].next = IF c = p THEN s ELSE e.bucket[c].next
             /\ d.bucket[c].prev = IF c = s THEN p ELSE e.bucket[c].prev
        /\ d.bfirst = (IF p = Null THEN s ELSE e.bfirst)
        /\ d.numc = e.numc /\ d.numb = e.numb - 1
    BY <2>2 DEF IsVacated
  <2>4. BucketChain(d.bucket, d.bfirst)
    <3>1. BucketRemoved(d.bucket, e.bucket, b)
      BY <1>4, <1>8, <1>9, <2>3 DEF BucketRemoved
    <3>2. BucketChain(d.bucket, IF p = Null THEN s ELSE e.bfirst)
      BY <1>6, <3>1, ChainRemove
    <3>3. QED BY <2>3, <3>2
  <2>5. \A y \in L : e.hcct[y].bucket # b
    BY <1>1, <1>7, <1>8, <1>9, <1>11, EmptyBucket DEF L
  <2>6. NodesLinked(d.hcct, d.bucket, L, v)
    <3>1. \A c \in DOMAIN d.bucket : d.bucket[c].node = e.bucket[c].node
      BY <2>3
    <3>2. Unused(d.bucket, e.hcct, e.bucket, L, b)
      BY <2>3, <2>5, <3>1 DEF Unused
    <3>3. NodesLinked(e.hcct, d.bucket, L, v)
      BY <1>7, <3>2, DropBucket
    <3>4. QED BY <2>3, <3>3
  <2>7. d.numb = Cardinality(DOMAIN d.bucket)
    <3>1. Cardinality(DOMAIN e.bucket \ {b}) = Cardinality(DOMAIN e.bucket) - 1
      BY <1>8, <1>9, FS_RemoveElement
    <3>2. QED BY <1>6, <2>3, <3>1
  <2>8. ListsSound(d, L)
    BY <2>3, <2>4, <2>6, <2>7 DEF ListsSound
  <2>9. \A c \in DOMAIN d.bucket : d.bucket[c].node # Null
    <3>1. TAKE c \in DOMAIN d.bucket
    <3>2. c \in DOMAIN e.bucket \ {b}
      BY <2>3
    <3>3. e.bucket[c].node # Null
      BY <1>4, <3>2
    <3>4. d.bucket[c].node = e.bucket[c].node
      BY <2>3
    <3>5. QED BY <3>3, <3>4
  <2>10. \A y \in L : d.bucket[e.hcct[y].bucket].counter = e.bucket[e.hcct[y].bucket].counter
    <3>1. TAKE y \in L
    <3>2. e.hcct[y].bucket \in DOMAIN e.bucket \ {b}
      BY <1>7, <2>5 DEF NodesLinked
    <3>3. QED BY <2>3, <3>2
  <2>11. QED BY <2>3, <2>8, <2>9, <2>10
<1>12. Goal
  BY <1>10, <1>11
<1> HIDE DEF Goal
<1>13. /\ ListsSound(d, L) /\ d.hcct = e.hcct
       /\ \A c \in DOMAIN d.bucket : d.bucket[c].node # Null
       /\ \A y \in L : d.bucket[e.hcct[y].bucket].counter = e.bucket[e.hcct[y].bucket].counter
       /\ d.numc = e.numc
  BY <1>12 DEF Goal
<1>14. QMon(d) = L
  BY <1>5, <1>13 DEF QMon
<1>15. ListsHold(d)
  BY <1>1, <1>4, <1>13, <1>14 DEF ListsHold, L
<1>16. \A y \in DOMAIN q.hcct : d.hcct[y].bucket = Null <=> q.hcct[y].bucket = Null
  <2>1. \A y \in DOMAIN q.hcct : d.hcct[y].bucket = Null <=> y \notin L
    BY <1>4, <1>13, <1>14 DEF QMon
  <2>2. QED BY <1>3, <2>1
<1>17. ASSUME NEW y \in L
       PROVE  QCount(d, y) = IF y = x THEN QCount(q, y) + 1 ELSE QCount(q, y)
  <2>1. QCount(d, y) = e.bucket[e.hcct[y].bucket].counter
    BY <1>13 DEF QCount
  <2>2. CASE y = x
    BY <1>4, <2>1, <2>2 DEF QCount
  <2>3. CASE y # x
    <3>1. e.hcct[y].bucket = q.hcct[y].bucket /\ q.hcct[y].bucket \in DOMAIN q.bucket
      BY <1>2, <1>3, <1>4, <2>3 DEF NodesLinked
    <3>2. QED BY <1>4, <2>1, <2>3, <3>1 DEF QCount
  <2>4. QED BY <2>2, <2>3
<1>18. QED BY <1>4, <1>13, <1>14, <1>15, <1>16, <1>17 DEF Incremented, L

\* So the whole of an increment adds 1 to the counter of x, and to no other.
LEMMA IncrementKeeps ==
  ASSUME NEW q, ListsHold(q), NEW x, x \in QMon(q), NEW d, d = Bss!Increment(x, q)
  PROVE  Incremented(d, q, x)
<1> DEFINE b == q.hcct[x].bucket
           e == Bss!Detach(x, q)
           a == e.bucket[b].next
           m == Bss!Advance(x, b, e)
<1>1. d = Bss!Vacate(b, m)
  BY DEF Bss!Increment
<1>2. Detached(e, q, x, b)
  BY DetachKeeps
<1> HIDE DEF e
<1>3. Advanced(m, q, x, b)
  <2> HIDE DEF b
  <2>0. b = q.hcct[x].bucket
    BY DEF b
  <2>1. CASE a = Null \/ e.bucket[a].counter # e.bucket[b].counter + 1
    <3>1. m = Bss!InNewBucket(x, b, e)
      BY <2>1 DEF Bss!Advance
    <3> HIDE DEF m
    <3>2. QED BY <1>2, <2>0, <2>1, <3>1, NewBucketKeeps
  <2>2. CASE a # Null /\ e.bucket[a].counter = e.bucket[b].counter + 1
    <3>1. m = Bss!InNextBucket(x, a, e) /\ a = e.bucket[b].next
      BY <2>2 DEF Bss!Advance
    <3> HIDE DEF m, a
    <3>2. QED BY <1>2, <2>0, <2>2, <3>1, NextBucketKeeps
  <2>3. QED BY <2>1, <2>2
<1> HIDE DEF m
<1>4. b = q.hcct[x].bucket
  OBVIOUS
<1> HIDE DEF b
<1>5. QED BY <1>1, <1>3, <1>4, VacateKeeps

-----------------------------------------------------------------------------
(* Monitor: x is given a counter, if need be that of a victim.             *)

\* The counter of the first bucket is the least.
LEMMA LeastCount ==
  ASSUME NEW q, ListsHold(q)
  PROVE  /\ \A y \in QMon(q) : /\ q.hcct[y].bucket \in DOMAIN q.bucket
                               /\ q.bucket[q.bfirst].counter <= QCount(q, y)
                               /\ QCount(q, y) \in Nat
         /\ q.bfirst \in DOMAIN q.bucket /\ q.bucket[q.bfirst].counter \in Nat
<1>1. ListTypes(q) /\ BucketChain(q.bucket, q.bfirst)
  BY DEF ListsHold, ListsSound
<1>2. PICK r : NodesLinked(q.hcct, q.bucket, QMon(q), r)
  BY DEF ListsHold, ListsSound
<1>3. \A y \in QMon(q) : q.hcct[y].bucket \in DOMAIN q.bucket
  BY <1>2 DEF NodesLinked
<1>4. \A b \in DOMAIN q.bucket : q.bucket[q.bfirst].counter <= q.bucket[b].counter
  BY <1>1, ListDomains, FirstIsLeast
<1>5. q.bfirst \in DOMAIN q.bucket /\ \A b \in DOMAIN q.bucket : q.bucket[b].counter \in Nat
  BY <1>1 DEF BucketChain
<1>6. QED BY <1>3, <1>4, <1>5 DEF QCount

\* Where there is room: x joins the nodes that count least.
Joined(d, q, x) ==
  /\ q.numc # Counters
  /\ QMon(d) = QMon(q) \cup {x} /\ QCount(d, x) = q.bucket[q.bfirst].counter
  /\ \A y \in QMon(q) : QCount(d, y) = QCount(q, y)

\* Where there is none: x takes the place and the counter of one of them.
Supplanted(d, q, x) ==
  /\ q.numc = Counters /\ d.numc = Counters
  /\ \E r \in QMon(q) :
       /\ \A y \in QMon(q) : QCount(q, r) <= QCount(q, y)
       /\ QMon(d) = (QMon(q) \ {r}) \cup {x} /\ QCount(d, x) = QCount(q, r)
       /\ \A y \in QMon(q) \ {r} : QCount(d, y) = QCount(q, y)

\* What Monitor does: nothing, or x joins the monitored nodes, or supplants one.
NowMonitored(d, q, x) ==
  /\ ListsHold(d) /\ TreeHolds(d.hcct, x, {Root}) /\ x \in QMon(d)
  /\ \/ x \in QMon(q) /\ d = q
     \/ x \notin QMon(q) /\ Joined(d, q, x)
     \/ x \notin QMon(q) /\ Supplanted(d, q, x)

\* Admit does the second of these.
LEMMA JoinKeeps ==
  ASSUME NEW q, ListsHold(q), NEW x, x \in DOMAIN q.hcct, x \notin QMon(q),
         TreeHolds(q.hcct, x, {Root, x}), q.numc # Counters, NEW d, d = Bss!Admit(x, q)
  PROVE  NowMonitored(d, q, x)
<1> DEFINE L == QMon(q)
           f == q.bfirst
           s == q.bucket[f].node
<1>1. /\ ListTypes(q) /\ BucketChain(q.bucket, f) /\ q.numb = Cardinality(DOMAIN q.bucket)
      /\ \A c \in DOMAIN q.bucket : q.bucket[c].node # Null
      /\ IsFiniteSet(L) /\ q.numc = Cardinality(L) /\ q.numc <= Counters
  BY DEF ListsHold, ListsSound
<1>2. PICK r : NodesLinked(q.hcct, q.bucket, L, r)
  BY DEF ListsHold, ListsSound
<1>3. L \subseteq DOMAIN q.hcct /\ \A y \in DOMAIN q.hcct : y \in L <=> q.hcct[y].bucket # Null
  BY DEF QMon
<1>4. x \notin L
  OBVIOUS
<1> HIDE DEF L
<1>5. /\ Null \notin Contexts /\ Null \notin DOMAIN q.bucket /\ L \subseteq Contexts /\ Null \notin L
      /\ Counters \in Nat /\ x \in Contexts
  BY <1>1, <1>3, ListDomains, BssConstants
<1>6. f \in DOMAIN q.bucket
  BY <1>1 DEF BucketChain
<1>7. s \in L /\ s # Null /\ s # x /\ s \in DOMAIN q.hcct
  <2>1. s # Null
    BY <1>1, <1>6
  <2>2. s \in L
    BY <1>2, <1>6, <2>1 DEF NodesLinked
  <2>3. QED BY <1>3, <1>4, <2>1, <2>2
<1>8. IsAdmitted(d, q, x, s)
  <2>1. s = q.bucket[q.bfirst].node /\ q.bfirst \in DOMAIN q.bucket
    BY <1>6
  <2> HIDE DEF s, f
  <2>2. QED BY <1>1, <1>7, <2>1, AdmitProperties
<1>9. /\ ListTypes(d)
      /\ DOMAIN d.hcct = DOMAIN q.hcct /\ DOMAIN d.bucket = DOMAIN q.bucket
      /\ d.hcct[x].bucket = f /\ d.hcct[x].next = s /\ d.hcct[x].prev = Null
      /\ \A y \in DOMAIN q.hcct \ {x} :
           /\ d.hcct[y].bucket = q.hcct[y].bucket /\ d.hcct[y].next = q.hcct[y].next
           /\ d.hcct[y].prev = IF y = s THEN x ELSE q.hcct[y].prev
      /\ \A c \in DOMAIN q.bucket :
           /\ d.bucket[c].counter = q.bucket[c].counter
           /\ d.bucket[c].next = q.bucket[c].next /\ d.bucket[c].prev = q.bucket[c].prev
           /\ d.bucket[c].node = IF c = f THEN x ELSE q.bucket[c].node
      /\ d.bfirst = f /\ d.numc = q.numc + 1 /\ d.numb = q.numb
  BY <1>8 DEF IsAdmitted
<1> HIDE DEF s
<1>10. BucketChain(d.bucket, d.bfirst)
  <2>1. DOMAIN d.bucket = DOMAIN q.bucket
        /\ \A c \in DOMAIN q.bucket : /\ d.bucket[c].counter = q.bucket[c].counter
                                      /\ d.bucket[c].next = q.bucket[c].next
                                      /\ d.bucket[c].prev = q.bucket[c].prev
    BY <1>9
  <2>2. BucketChain(d.bucket, f)
    BY <1>1, <2>1, SameChain
  <2>3. QED BY <1>9, <2>2
<1>11. \E u : NodesLinked(d.hcct, d.bucket, L \cup {x}, u)
  <2>1. \A y \in L : y \in DOMAIN q.hcct \ {x}
    BY <1>3, <1>4
  <2>2. PutFirst(d.hcct, d.bucket, q.hcct, q.bucket, L, f, s, x)
    <3>1. \A y \in L : /\ d.hcct[y].bucket = q.hcct[y].bucket
                       /\ d.hcct[y].next = q.hcct[y].next
                       /\ d.hcct[y].prev = IF y = s THEN x ELSE q.hcct[y].prev
      BY <1>9, <2>1
    <3>2. DOMAIN d.bucket = DOMAIN q.bucket \cup {f} /\ d.bucket[f].node = x
          /\ \A c \in DOMAIN q.bucket : c # f => d.bucket[c].node = q.bucket[c].node
      BY <1>6, <1>9
    <3>3. s = q.bucket[f].node
      BY DEF s
    <3>4. QED BY <1>4, <1>5, <1>6, <1>9, <3>1, <3>2, <3>3 DEF PutFirst
  <2>3. QED BY <1>2, <2>2, LinkFirst
<1>12. QMon(d) = L \cup {x}
  <2>1. \A y \in DOMAIN q.hcct : d.hcct[y].bucket # Null <=> y \in L \cup {x}
    <3>1. f # Null
      BY <1>5, <1>6
    <3>2. QED BY <1>3, <1>9, <3>1
  <2>2. QED BY <1>3, <1>9, <2>1 DEF QMon
<1>13. IsFiniteSet(QMon(d)) /\ Cardinality(QMon(d)) = q.numc + 1 /\ q.numc + 1 <= Counters
  <2>1. IsFiniteSet(L \cup {x}) /\ Cardinality(L \cup {x}) = Cardinality(L) + 1
    BY <1>1, <1>4, FS_AddElement
  <2>2. Cardinality(L) \in Nat
    BY <1>1, FS_CardinalityType
  <2>3. QED BY <1>1, <1>5, <1>12, <2>1, <2>2
<1>14. \A c \in DOMAIN d.bucket : d.bucket[c].node # Null
  <2>1. x # Null
    BY <1>5
  <2>2. QED BY <1>1, <1>9, <2>1
<1>15. ListsHold(d)
  BY <1>1, <1>9, <1>10, <1>11, <1>12, <1>13, <1>14 DEF ListsHold, ListsSound
<1>16. TreeHolds(d.hcct, x, {Root})
  <2>1. /\ DOMAIN q.hcct \subseteq Contexts
        /\ \A i \in 0 .. Len(x) : Prefix(x, i) \in DOMAIN q.hcct
        /\ \A z \in DOMAIN q.hcct \ {Root, x} :
             q.hcct[z].bucket = Null => Bss!Children(z, DOMAIN q.hcct) # {}
    BY DEF TreeHolds
  <2>2. \A y \in DOMAIN d.hcct : d.hcct[y] \in BssNode
    BY <1>9 DEF ListTypes
  <2>3. ASSUME NEW z \in DOMAIN d.hcct \ {Root}, d.hcct[z].bucket = Null
        PROVE  Bss!Children(z, DOMAIN d.hcct) # {}
    <3>1. z # x
      BY <1>5, <1>6, <1>9, <2>3
    <3>2. z \in DOMAIN q.hcct \ {x} /\ q.hcct[z].bucket = Null
      BY <1>9, <2>3, <3>1
    <3>3. QED BY <1>9, <2>1, <3>2
  <2>4. QED BY <1>9, <2>1, <2>2, <2>3 DEF TreeHolds
<1>17. Joined(d, q, x)
  <2>1. QCount(d, x) = q.bucket[f].counter
    BY <1>6, <1>9 DEF QCount
  <2>2. ASSUME NEW y \in L PROVE QCount(d, y) = QCount(q, y)
    <3>1. y \in DOMAIN q.hcct \ {x} /\ q.hcct[y].bucket \in DOMAIN q.bucket
      BY <1>2, <1>3, <1>4 DEF NodesLinked
    <3>2. d.hcct[y].bucket = q.hcct[y].bucket
      BY <1>9, <3>1
    <3>3. QED BY <1>9, <3>1, <3>2 DEF QCount
  <2>3. QED BY <1>12, <2>1, <2>2 DEF Joined, L
<1>18. QED BY <1>12, <1>15, <1>16, <1>17 DEF NowMonitored

\* Replace does the third.
LEMMA SupplantKeeps ==
  ASSUME NEW q, ListsHold(q), NEW x, x \in DOMAIN q.hcct, x \notin QMon(q), x # Root,
         TreeHolds(q.hcct, x, {Root, x}), q.numc = Counters, NEW d, d = Bss!Replace(x, q)
  PROVE  NowMonitored(d, q, x)
<1> DEFINE L == QMon(q)
           f == q.bfirst
           v == q.bucket[f].node
           s == q.hcct[v].next
<1>1. /\ ListTypes(q) /\ BucketChain(q.bucket, f) /\ q.numb = Cardinality(DOMAIN q.bucket)
      /\ \A c \in DOMAIN q.bucket : q.bucket[c].node # Null
      /\ IsFiniteSet(L) /\ q.numc = Cardinality(L) /\ q.numc <= Counters
  BY DEF ListsHold, ListsSound
<1>2. PICK r : NodesLinked(q.hcct, q.bucket, L, r)
  BY DEF ListsHold, ListsSound
<1>3. L \subseteq DOMAIN q.hcct /\ \A y \in DOMAIN q.hcct : y \in L <=> q.hcct[y].bucket # Null
  BY DEF QMon
<1>4. x \notin L
  OBVIOUS
<1> HIDE DEF L
<1>5. /\ Null \notin Contexts /\ Null \notin DOMAIN q.bucket /\ L \subseteq Contexts /\ Null \notin L
      /\ Counters \in Nat /\ x \in Contexts
  BY <1>1, <1>3, ListDomains, BssConstants
<1>6. f \in DOMAIN q.bucket /\ f # Null
  <2>1. f \in DOMAIN q.bucket
    BY <1>1 DEF BucketChain
  <2>2. QED BY <1>5, <2>1
<1>7. v \in L /\ q.hcct[v].bucket = f /\ v # x /\ v \in DOMAIN q.hcct
  <2>1. v # Null
    BY <1>1, <1>6
  <2>2. v \in L /\ q.hcct[v].bucket = f
    BY <1>2, <1>6, <2>1 DEF NodesLinked
  <2>3. QED BY <1>3, <1>4, <2>2
<1>8. q.hcct[v].prev = Null
  BY <1>2, <1>7 DEF NodesLinked
<1>9. s \in L \cup {Null} /\ s # x /\ s \in DOMAIN q.hcct \cup {Null} /\ s # v
  <2>1. s \in L \cup {Null} /\ s # v
    <3> HIDE DEF v
    <3>1. QED BY <1>2, <1>5, <1>7, LinksOfNode
  <2>2. x # Null
    BY <1>5
  <2>3. QED BY <1>3, <1>4, <2>1, <2>2
<1>10. IsReplacing(d, q, x, f, v, s)
  <2>1. v = q.bucket[f].node /\ s = q.hcct[v].next /\ f = q.bfirst /\ q.hcct[v].bucket # Null
    BY <1>6, <1>7
  <2> HIDE DEF s, v, f
  <2>2. QED BY <1>1, <1>6, <1>7, <1>9, <2>1, ReplaceProperties
<1>11. /\ ListTypes(d) /\ TreeHolds(d.hcct, x, {Root})
       /\ DOMAIN d.hcct \subseteq DOMAIN q.hcct /\ DOMAIN d.bucket = DOMAIN q.bucket
       /\ \A y \in DOMAIN q.hcct : q.hcct[y].bucket # Null /\ y # v => y \in DOMAIN d.hcct
       /\ x \in DOMAIN d.hcct
       /\ d.hcct[x].bucket = f /\ d.hcct[x].next = s /\ d.hcct[x].prev = Null
       /\ \A y \in DOMAIN d.hcct \ {x} :
            /\ d.hcct[y].bucket = IF y = v THEN Null ELSE q.hcct[y].bucket
            /\ d.hcct[y].next = q.hcct[y].next
            /\ d.hcct[y].prev = IF y = s THEN x ELSE q.hcct[y].prev
       /\ \A c \in DOMAIN q.bucket :
            /\ d.bucket[c].counter = q.bucket[c].counter
            /\ d.bucket[c].next = q.bucket[c].next /\ d.bucket[c].prev = q.bucket[c].prev
            /\ d.bucket[c].node = IF c = f THEN x ELSE q.bucket[c].node
       /\ d.bfirst = f /\ d.numc = q.numc /\ d.numb = q.numb
  BY <1>10 DEF IsReplacing
<1>12. \A y \in L \ {v} : y \in DOMAIN d.hcct \ {x} /\ d.hcct[y].bucket = q.hcct[y].bucket
                          /\ d.hcct[y].next = q.hcct[y].next
                          /\ d.hcct[y].prev = IF y = s THEN x ELSE q.hcct[y].prev
  <2>1. TAKE y \in L \ {v}
  <2>2. y \in DOMAIN d.hcct \ {x}
    BY <1>3, <1>4, <1>11
  <2>3. QED BY <1>11, <2>2
<1> HIDE DEF s, v
<1>13. BucketChain(d.bucket, d.bfirst)
  <2>1. DOMAIN d.bucket = DOMAIN q.bucket
        /\ \A c \in DOMAIN q.bucket : /\ d.bucket[c].counter = q.bucket[c].counter
                                      /\ d.bucket[c].next = q.bucket[c].next
                                      /\ d.bucket[c].prev = q.bucket[c].prev
    BY <1>11
  <2>2. BucketChain(d.bucket, f)
    BY <1>1, <2>1, SameChain
  <2>3. QED BY <1>11, <2>2
\* The lists with v taken out and x not yet in its place.
<1>14. \E u : NodesLinked(d.hcct, d.bucket, (L \ {v}) \cup {x}, u)
  <2> DEFINE h == [y \in L |-> [bucket |-> q.hcct[y].bucket, next |-> q.hcct[y].next,
                                prev |-> IF y = s THEN Null ELSE q.hcct[y].prev]]
             k == [c \in DOMAIN q.bucket |-> [node |-> IF c = f THEN s ELSE q.bucket[c].node]]
  <2>1. \A y \in L : /\ h[y].bucket = q.hcct[y].bucket /\ h[y].next = q.hcct[y].next
                     /\ h[y].prev = IF y = s THEN Null ELSE q.hcct[y].prev
    OBVIOUS
  <2>2. /\ DOMAIN k = DOMAIN q.bucket
        /\ \A c \in DOMAIN q.bucket : k[c].node = IF c = f THEN s ELSE q.bucket[c].node
    OBVIOUS
  <2> HIDE DEF h, k
  <2>3. TakenOut(h, k, q.hcct, q.bucket, L, v)
    <3>1. \A c \in DOMAIN q.bucket :
            k[c].node = IF q.hcct[v].prev = Null /\ c = q.hcct[v].bucket THEN q.hcct[v].next
                        ELSE q.bucket[c].node
      BY <1>7, <1>8, <2>2 DEF s
    <3>2. \A y \in L \ {v} :
            /\ h[y].bucket = q.hcct[y].bucket
            /\ h[y].next = IF y = q.hcct[v].prev THEN q.hcct[v].next ELSE q.hcct[y].next
            /\ h[y].prev = IF y = q.hcct[v].next THEN q.hcct[v].prev ELSE q.hcct[y].prev
      BY <1>5, <1>8, <2>1 DEF s
    <3>3. QED BY <1>5, <1>7, <2>2, <3>1, <3>2 DEF TakenOut
  <2>4. NodesLinked(h, k, L \ {v}, r)
    BY <1>2, <2>3, Unlink
  <2>5. PutFirst(d.hcct, d.bucket, h, k, L \ {v}, f, s, x)
    <3>1. \A y \in L \ {v} : /\ d.hcct[y].bucket = h[y].bucket
                             /\ d.hcct[y].next = h[y].next
                             /\ d.hcct[y].prev = IF y = s THEN x ELSE h[y].prev
      BY <1>12, <2>1
    <3>2. DOMAIN d.bucket = DOMAIN k \cup {f} /\ d.bucket[f].node = x
          /\ \A c \in DOMAIN k : c # f => d.bucket[c].node = k[c].node
      BY <1>6, <1>11, <2>2
    <3>3. f \in DOMAIN k /\ s = k[f].node
      BY <1>6, <2>2
    <3>4. L \ {v} \subseteq Contexts /\ x \notin L \ {v}
      BY <1>4, <1>5
    <3>5. QED BY <1>5, <1>11, <3>1, <3>2, <3>3, <3>4 DEF PutFirst
  <2>6. QED BY <2>4, <2>5, LinkFirst
<1>15. QMon(d) = (L \ {v}) \cup {x}
  <2>1. \A y \in DOMAIN d.hcct : d.hcct[y].bucket # Null <=> y \in (L \ {v}) \cup {x}
    BY <1>3, <1>4, <1>6, <1>7, <1>11
  <2>2. \A y \in (L \ {v}) \cup {x} : y \in DOMAIN d.hcct
    BY <1>11, <1>12
  <2>3. QED BY <2>1, <2>2 DEF QMon
<1>16. IsFiniteSet(QMon(d)) /\ Cardinality(QMon(d)) = q.numc
  <2>1. IsFiniteSet(L \ {v}) /\ Cardinality(L \ {v}) = Cardinality(L) - 1
    BY <1>1, <1>7, FS_RemoveElement
  <2>2. /\ IsFiniteSet((L \ {v}) \cup {x})
        /\ Cardinality((L \ {v}) \cup {x}) = Cardinality(L \ {v}) + 1
    BY <1>4, <2>1, FS_AddElement
  <2>3. Cardinality(L) \in Nat
    BY <1>1, FS_CardinalityType
  <2>4. QED BY <1>1, <1>15, <2>1, <2>2, <2>3
<1>17. \A c \in DOMAIN d.bucket : d.bucket[c].node # Null
  <2>1. x # Null
    BY <1>5
  <2>2. QED BY <1>1, <1>11, <2>1
<1>18. ListsHold(d)
  BY <1>1, <1>11, <1>13, <1>14, <1>15, <1>16, <1>17 DEF ListsHold, ListsSound
<1>19. Supplanted(d, q, x)
  <2>1. QCount(d, x) = q.bucket[f].counter /\ QCount(q, v) = q.bucket[f].counter
    BY <1>6, <1>7, <1>11 DEF QCount
  <2>2. \A y \in L : QCount(q, v) <= QCount(q, y)
    BY <2>1, LeastCount DEF L
  <2>3. ASSUME NEW y \in L \ {v} PROVE QCount(d, y) = QCount(q, y)
    <3>1. d.hcct[y].bucket = q.hcct[y].bucket /\ q.hcct[y].bucket \in DOMAIN q.bucket
      BY <1>2, <1>12 DEF NodesLinked
    <3>2. QED BY <1>11, <3>1 DEF QCount
  <2>4. QED BY <1>7, <1>11, <1>15, <2>1, <2>2, <2>3 DEF Supplanted, L
<1>20. x \in QMon(d)
  BY <1>15
<1>21. QED BY <1>11, <1>18, <1>19, <1>20 DEF NowMonitored

\* Monitor does one of them.
LEMMA MonitorKeeps ==
  ASSUME NEW q, ListsHold(q), NEW x, x \in DOMAIN q.hcct, x # Root,
         TreeHolds(q.hcct, x, {Root, x}), NEW d, d = Bss!Monitor(x, q)
  PROVE  NowMonitored(d, q, x)
<1>1. CASE x \in QMon(q)
  <2>1. d = q /\ q.hcct[x].bucket # Null
    BY <1>1 DEF Bss!Monitor, QMon
  <2>2. TreeHolds(q.hcct, x, {Root})
    BY <2>1 DEF TreeHolds
  <2>3. QED BY <1>1, <2>1, <2>2 DEF NowMonitored
<1>2. CASE x \notin QMon(q) /\ q.numc = Counters
  <2>1. d = Bss!Replace(x, q)
    BY <1>2 DEF Bss!Monitor, QMon
  <2>2. QED BY <1>2, <2>1, SupplantKeeps
<1>3. CASE x \notin QMon(q) /\ q.numc # Counters
  <2>1. d = Bss!Admit(x, q)
    BY <1>3 DEF Bss!Monitor, QMon
  <2>2. QED BY <1>3, <2>1, JoinKeeps
<1>4. QED BY <1>1, <1>2, <1>3

-----------------------------------------------------------------------------
(* The invariant of bss-hcct.c.                                            *)

\* The lists of the program.
BssLists == [hcct |-> bssHcct, bucket |-> bssBucket, bfirst |-> bfirst, numc |-> numc,
             numb |-> numb]

\* Where not all counters are in use the dummy root has one, and it counts nothing.
RootIsFirst(q) == q.numc # Counters => Root \in QMon(q) /\ QCount(q, Root) = 0

\* Before init, and after it.
BssInv ==
  /\ bssTop \in Contexts /\ bssFreq \in [Contexts -> Nat] /\ bssEvents \in Nat
  /\ bfirst = Null => /\ bssHcct = [x \in {} |-> Null] /\ bssBucket = [n \in {} |-> Null]
                      /\ numc = 0 /\ numb = 0 /\ bssTop = Root
  /\ bfirst # Null => /\ ListsHold(BssLists) /\ TreeHolds(bssHcct, bssTop, {Root})
                      /\ RootIsFirst(BssLists)

\* A record of lists, by its fields.
LEMMA ListFields ==
  ASSUME NEW h, NEW k, NEW f, NEW n, NEW m, NEW q,
         q = [hcct |-> h, bucket |-> k, bfirst |-> f, numc |-> n, numb |-> m]
  PROVE  q.hcct = h /\ q.bucket = k /\ q.bfirst = f /\ q.numc = n /\ q.numb = m
  OBVIOUS

\* The nodes that are linked stay where they are.
LEMMA SameNodes ==
  ASSUME NEW h, NEW k, NEW L, NEW r, NodesLinked(h, k, L, r), NEW g, \A y \in L : g[y] = h[y]
  PROVE  NodesLinked(g, k, L, r)
<1>1. \A x \in L : g[x].bucket \in DOMAIN k /\ r[x] \in Int
  BY DEF NodesLinked
<1>2. \A x \in L : g[x].next # Null =>
       /\ g[x].next \in L /\ g[g[x].next].bucket = g[x].bucket
       /\ g[g[x].next].prev = x /\ r[x] < r[g[x].next]
  BY DEF NodesLinked
<1>3. \A x \in L : g[x].prev # Null =>
       /\ g[x].prev \in L /\ g[g[x].prev].bucket = g[x].bucket
       /\ g[g[x].prev].next = x
  BY DEF NodesLinked
<1>4. \A x \in L : g[x].prev = Null <=> k[g[x].bucket].node = x
  BY DEF NodesLinked
<1>5. \A b \in DOMAIN k : k[b].node # Null => k[b].node \in L /\ g[k[b].node].bucket = b
  BY DEF NodesLinked
<1>6. QED BY <1>1, <1>2, <1>3, <1>4, <1>5 DEF NodesLinked

\* The tree is given a node for x, where it has none.
LEMMA WithNodeKeeps ==
  ASSUME NEW x \in Contexts, ListsHold(BssLists),
         NEW w, w = [hcct |-> Bss!WithNode(x), bucket |-> bssBucket, bfirst |-> bfirst,
                     numc |-> numc, numb |-> numb]
  PROVE  /\ ListsHold(w) /\ QMon(w) = QMon(BssLists) /\ w.numc = numc
         /\ DOMAIN w.hcct = DOMAIN bssHcct \cup {x}
         /\ \A y \in QMon(w) : QCount(w, y) = QCount(BssLists, y)
         /\ \A y \in DOMAIN bssHcct : w.hcct[y] = bssHcct[y]
         /\ \A y \in DOMAIN w.hcct : w.hcct[y] \in BssNode
<1> DEFINE o == BssLists
           L == QMon(o)
<1>1. /\ ListTypes(o) /\ BucketChain(o.bucket, o.bfirst) /\ o.numb = Cardinality(DOMAIN o.bucket)
      /\ \A c \in DOMAIN o.bucket : o.bucket[c].node # Null
      /\ IsFiniteSet(L) /\ o.numc = Cardinality(L) /\ o.numc <= Counters
  BY DEF ListsHold, ListsSound
<1>2. PICK r : NodesLinked(o.hcct, o.bucket, L, r)
  BY DEF ListsHold, ListsSound
<1>3. o.hcct = bssHcct /\ o.bucket = bssBucket /\ o.bfirst = bfirst /\ o.numc = numc /\ o.numb = numb
  BY DEF BssLists
<1>4. L = {y \in DOMAIN bssHcct : bssHcct[y].bucket # Null}
  BY <1>3 DEF QMon
<1> HIDE DEF L, o
<1>5. /\ w.hcct = Bss!WithNode(x) /\ w.bucket = bssBucket /\ w.bfirst = bfirst /\ w.numc = numc
      /\ w.numb = numb
  BY ListFields
<1> DEFINE none == [bucket |-> Null, next |-> Null, prev |-> Null]
<1>6. /\ DOMAIN w.hcct = DOMAIN bssHcct \cup {x}
      /\ \A y \in DOMAIN bssHcct : w.hcct[y] = bssHcct[y]
      /\ x \notin DOMAIN bssHcct => w.hcct[x] = none
  BY <1>5 DEF Bss!WithNode, Bss!Nodes
<1>7. none \in BssNode /\ none.bucket = Null
  BY DEF BssNode
<1> HIDE DEF none
<1>8. \A y \in DOMAIN w.hcct : w.hcct[y] \in BssNode
  <2>1. \A y \in DOMAIN bssHcct : bssHcct[y] \in BssNode
    BY <1>1, <1>3 DEF ListTypes
  <2>2. QED BY <1>6, <1>7, <2>1
<1>9. QMon(w) = L
  BY <1>4, <1>6, <1>7 DEF QMon
<1>10. NodesLinked(w.hcct, w.bucket, L, r)
  <2>1. \A y \in L : w.hcct[y] = o.hcct[y]
    BY <1>3, <1>4, <1>6
  <2>2. NodesLinked(w.hcct, o.bucket, L, r)
    BY <1>2, <2>1, SameNodes
  <2>3. QED BY <1>3, <1>5, <2>2
<1>11. ListTypes(w)
  <2>1. DOMAIN bssHcct \subseteq Contexts
    BY <1>1, <1>3 DEF ListTypes
  <2>2. DOMAIN w.hcct \subseteq Contexts
    BY <1>6, <2>1
  <2>3. /\ DOMAIN w.bucket \subseteq 1 .. Counters + 1
        /\ \A b \in DOMAIN w.bucket : w.bucket[b] \in BssBucket
    BY <1>1, <1>3, <1>5 DEF ListTypes
  <2>4. w = [hcct |-> w.hcct, bucket |-> w.bucket, bfirst |-> w.bfirst, numc |-> w.numc,
             numb |-> w.numb]
    BY <1>5
  <2>5. QED BY <1>8, <2>2, <2>3, <2>4 DEF ListTypes
<1>12. ListsHold(w)
  <2>1. ListsSound(w, QMon(w))
    BY <1>1, <1>3, <1>5, <1>9, <1>10, <1>11 DEF ListsSound
  <2>2. QED BY <1>1, <1>3, <1>5, <1>9, <2>1 DEF ListsHold
<1>13. \A y \in L : QCount(w, y) = QCount(o, y)
  <2>1. \A y \in L : w.hcct[y].bucket = o.hcct[y].bucket
    BY <1>3, <1>4, <1>6
  <2>2. QED BY <1>3, <1>5, <2>1 DEF QCount
<1>14. QED BY <1>5, <1>6, <1>8, <1>9, <1>12, <1>13 DEF L, o

\* What a whole event does to the counters: it is a step of Space Saving.
CountsMore(q, o, x) ==
  /\ x \in QMon(o) /\ QMon(q) = QMon(o)
  /\ \A y \in QMon(o) : QCount(q, y) = IF y = x THEN QCount(o, y) + 1 ELSE QCount(o, y)

\* A context gets a free counter.
CountsAlso(q, o, x) ==
  /\ x \notin QMon(o) /\ o.numc # Counters
  /\ QMon(q) = QMon(o) \cup {x} /\ QCount(q, x) = 1
  /\ \A y \in QMon(o) : QCount(q, y) = QCount(o, y)

\* A context takes the counter of one that counts least.
CountsInstead(q, o, x) ==
  /\ x \notin QMon(o) /\ o.numc = Counters /\ q.numc = Counters
  /\ \E r \in QMon(o) :
       /\ \A y \in QMon(o) : QCount(o, r) <= QCount(o, y)
       /\ QMon(q) = (QMon(o) \ {r}) \cup {x} /\ QCount(q, x) = QCount(o, r) + 1
       /\ \A y \in QMon(o) \ {r} : QCount(q, y) = QCount(o, y)

\* What rtn_enter makes of the lists w when it enters x.
EventOf(q, w, x) ==
  /\ ListsHold(q) /\ TreeHolds(q.hcct, x, {Root}) /\ q.bfirst # Null /\ RootIsFirst(q)
  /\ CountsMore(q, w, x) \/ CountsAlso(q, w, x) \/ CountsInstead(q, w, x)

\* It does so where the lists held before, and they hold again.
LEMMA EventKeeps ==
  ASSUME NEW w, ListsHold(w), RootIsFirst(w), NEW x, x \in DOMAIN w.hcct, x # Root,
         TreeHolds(w.hcct, x, {Root, x}), NEW q, q = Bss!Increment(x, Bss!Monitor(x, w))
  PROVE  EventOf(q, w, x)
<1> DEFINE m == Bss!Monitor(x, w)
<1>1. NowMonitored(m, w, x)
  BY MonitorKeeps
<1>2. q = Bss!Increment(x, m)
  OBVIOUS
<1> HIDE DEF m
<1>3. /\ ListsHold(m) /\ TreeHolds(m.hcct, x, {Root}) /\ x \in QMon(m)
      /\ \/ x \in QMon(w) /\ m = w
         \/ x \notin QMon(w) /\ Joined(m, w, x)
         \/ x \notin QMon(w) /\ Supplanted(m, w, x)
  BY <1>1 DEF NowMonitored
<1>4. Incremented(q, m, x)
  BY <1>2, <1>3, IncrementKeeps
<1>5. /\ ListsHold(q) /\ QMon(q) = QMon(m)
      /\ DOMAIN q.hcct = DOMAIN m.hcct
      /\ \A y \in DOMAIN m.hcct : q.hcct[y].bucket = Null <=> m.hcct[y].bucket = Null
      /\ \A y \in QMon(m) : QCount(q, y) = IF y = x THEN QCount(m, y) + 1 ELSE QCount(m, y)
      /\ q.numc = m.numc
  BY <1>4 DEF Incremented
<1>6. ListTypes(q)
  BY <1>5 DEF ListsHold, ListsSound
<1>7. TreeHolds(q.hcct, x, {Root})
  <2>1. /\ DOMAIN m.hcct \subseteq Contexts
        /\ \A i \in 0 .. Len(x) : Prefix(x, i) \in DOMAIN m.hcct
        /\ \A z \in DOMAIN m.hcct \ {Root} :
             m.hcct[z].bucket = Null => Bss!Children(z, DOMAIN m.hcct) # {}
    BY <1>3 DEF TreeHolds
  <2>2. \A y \in DOMAIN q.hcct : q.hcct[y] \in BssNode
    BY <1>6 DEF ListTypes
  <2>3. \A z \in DOMAIN q.hcct \ {Root} :
          q.hcct[z].bucket = Null => Bss!Children(z, DOMAIN q.hcct) # {}
    BY <1>5, <2>1
  <2>4. QED BY <1>5, <2>1, <2>2, <2>3 DEF TreeHolds
<1>8. q.bfirst # Null
  <2>1. q.bfirst \in DOMAIN q.bucket
    BY <1>5, LeastCount
  <2>2. QED BY <1>6, <2>1, ListDomains
<1>9. CASE x \in QMon(w) /\ m = w
  <2>1. CountsMore(q, w, x)
    BY <1>5, <1>9 DEF CountsMore
  <2>2. RootIsFirst(q)
    BY <1>5, <1>9 DEF RootIsFirst
  <2>3. QED BY <1>5, <1>7, <1>8, <2>1, <2>2 DEF EventOf
<1>10. CASE x \notin QMon(w) /\ Joined(m, w, x)
  <2>1. /\ w.numc # Counters
        /\ QMon(m) = QMon(w) \cup {x} /\ QCount(m, x) = w.bucket[w.bfirst].counter
        /\ \A y \in QMon(w) : QCount(m, y) = QCount(w, y)
    BY <1>10 DEF Joined
  <2>2. Root \in QMon(w) /\ QCount(w, Root) = 0
    BY <2>1 DEF RootIsFirst
  <2>3. w.bucket[w.bfirst].counter = 0
    <3>1. w.bucket[w.bfirst].counter \in Nat /\ w.bucket[w.bfirst].counter <= QCount(w, Root)
      BY <2>2, LeastCount
    <3>2. QED BY <2>2, <3>1
  <2>4. QMon(q) = QMon(w) \cup {x} /\ QCount(q, x) = 1
    BY <1>5, <2>1, <2>3
  <2>5. \A y \in QMon(w) : QCount(q, y) = QCount(w, y)
    BY <1>5, <1>10, <2>1
  <2>6. CountsAlso(q, w, x)
    BY <1>10, <2>1, <2>4, <2>5 DEF CountsAlso
  <2>7. RootIsFirst(q)
    BY <2>2, <2>4, <2>5 DEF RootIsFirst
  <2>8. QED BY <1>5, <1>7, <1>8, <2>6, <2>7 DEF EventOf
<1>11. CASE x \notin QMon(w) /\ Supplanted(m, w, x)
  <2>1. w.numc = Counters /\ m.numc = Counters
    BY <1>11 DEF Supplanted
  <2>2. PICK r \in QMon(w) :
          /\ \A y \in QMon(w) : QCount(w, r) <= QCount(w, y)
          /\ QMon(m) = (QMon(w) \ {r}) \cup {x} /\ QCount(m, x) = QCount(w, r)
          /\ \A y \in QMon(w) \ {r} : QCount(m, y) = QCount(w, y)
    BY <1>11 DEF Supplanted
  <2>3. QMon(q) = (QMon(w) \ {r}) \cup {x} /\ QCount(q, x) = QCount(w, r) + 1
    BY <1>5, <2>2
  <2>4. \A y \in QMon(w) \ {r} : QCount(q, y) = QCount(w, y)
    BY <1>5, <1>11, <2>2
  <2>5. CountsInstead(q, w, x)
    BY <1>5, <1>11, <2>1, <2>2, <2>3, <2>4 DEF CountsInstead
  <2>6. RootIsFirst(q)
    BY <1>5, <2>1 DEF RootIsFirst
  <2>7. QED BY <1>5, <1>7, <1>8, <2>5, <2>6 DEF EventOf
<1>12. QED BY <1>3, <1>9, <1>10, <1>11

\* rtn_enter.
LEMMA BssEnterMeans ==
  ASSUME BssInv, NEW c \in Calls, Bss!RtnEnter(c)
  PROVE  /\ EventOf(BssLists', BssLists, bssTop') /\ bssTop' \in Contexts /\ bfirst # Null
         /\ bssFreq' = [bssFreq EXCEPT ![bssTop'] = @ + 1] /\ bssEvents' = bssEvents + 1
<1> DEFINE x == Append(bssTop, c)
           w == [hcct |-> Bss!WithNode(x), bucket |-> bssBucket, bfirst |-> bfirst,
                 numc |-> numc, numb |-> numb]
           q == Bss!Increment(x, Bss!Monitor(x, w))
<1>1. /\ Len(bssTop) < StackMaxDepth /\ bfirst # Null /\ bssTop' = x
      /\ bssHcct' = q.hcct /\ bssBucket' = q.bucket /\ bfirst' = q.bfirst /\ numc' = q.numc
      /\ numb' = q.numb
      /\ bssFreq' = [bssFreq EXCEPT ![x] = @ + 1] /\ bssEvents' = bssEvents + 1
  BY DEF Bss!RtnEnter
<1>2. bssTop \in Contexts /\ ListsHold(BssLists) /\ TreeHolds(bssHcct, bssTop, {Root})
      /\ RootIsFirst(BssLists)
  BY <1>1 DEF BssInv
<1>3. Len(bssTop) \in Nat /\ StackMaxDepth \in Nat
  BY <1>2, ContextsAreSequences, DepthAssumption
<1>4. x \in Contexts /\ x # Root /\ Len(x) = Len(bssTop) + 1
  BY <1>1, <1>2, <1>3, AppendContext
<1>5. \A i \in 0 .. Len(bssTop) : Prefix(x, i) = Prefix(bssTop, i)
  BY <1>2, PrefixOfAppend
<1>6. Prefix(x, Len(x)) = x
  BY <1>4, WholePrefix
<1>7. w = [hcct |-> Bss!WithNode(x), bucket |-> bssBucket, bfirst |-> bfirst,
           numc |-> numc, numb |-> numb]
  OBVIOUS
<1>8. q = Bss!Increment(x, Bss!Monitor(x, w))
  OBVIOUS
<1> HIDE DEF q, w, x
<1>9. /\ ListsHold(w) /\ QMon(w) = QMon(BssLists) /\ w.numc = numc
      /\ DOMAIN w.hcct = DOMAIN bssHcct \cup {x}
      /\ \A y \in QMon(w) : QCount(w, y) = QCount(BssLists, y)
      /\ \A y \in DOMAIN bssHcct : w.hcct[y] = bssHcct[y]
      /\ \A y \in DOMAIN w.hcct : w.hcct[y] \in BssNode
  BY <1>2, <1>4, <1>7, WithNodeKeeps
<1>10. BssLists.numc = numc
  BY DEF BssLists
<1>11. RootIsFirst(w)
  BY <1>2, <1>9, <1>10 DEF RootIsFirst
<1>12. TreeHolds(w.hcct, x, {Root, x})
  <2>1. /\ DOMAIN bssHcct \subseteq Contexts
        /\ \A i \in 0 .. Len(bssTop) : Prefix(bssTop, i) \in DOMAIN bssHcct
        /\ \A z \in DOMAIN bssHcct \ {Root} :
             bssHcct[z].bucket = Null => Bss!Children(z, DOMAIN bssHcct) # {}
    BY <1>2 DEF TreeHolds
  <2>2. ASSUME NEW i \in 0 .. Len(x) PROVE Prefix(x, i) \in DOMAIN w.hcct
    <3>1. CASE i = Len(x)
      BY <1>6, <1>9, <3>1
    <3>2. CASE i # Len(x)
      <4>1. i \in 0 .. Len(bssTop)
        BY <1>3, <1>4, <3>2
      <4>2. QED BY <1>5, <1>9, <2>1, <4>1
    <3>3. QED BY <3>1, <3>2
  <2>3. ASSUME NEW z \in DOMAIN w.hcct \ {Root, x}, w.hcct[z].bucket = Null
        PROVE  Bss!Children(z, DOMAIN w.hcct) # {}
    <3>1. z \in DOMAIN bssHcct \ {Root} /\ bssHcct[z].bucket = Null
      BY <1>9, <2>3
    <3>2. PICK y : y \in Bss!Children(z, DOMAIN bssHcct)
      BY <2>1, <3>1
    <3>3. y \in Bss!Children(z, DOMAIN w.hcct)
      BY <1>9, <3>2, ChildrenProperties
    <3>4. QED BY <3>3
  <2>4. DOMAIN w.hcct \subseteq Contexts
    BY <1>4, <1>9, <2>1
  <2>5. QED BY <1>9, <2>2, <2>3, <2>4 DEF TreeHolds
<1>13. EventOf(q, w, x)
  <2>1. x \in DOMAIN w.hcct
    BY <1>9
  <2>2. QED BY <1>4, <1>8, <1>9, <1>11, <1>12, <2>1, EventKeeps
<1>14. q = BssLists'
  <2>1. ListTypes(q)
    BY <1>13 DEF EventOf, ListsHold, ListsSound
  <2>2. q = [hcct |-> q.hcct, bucket |-> q.bucket, bfirst |-> q.bfirst, numc |-> q.numc,
             numb |-> q.numb]
    BY <2>1 DEF ListTypes
  <2>3. QED BY <1>1, <2>2 DEF BssLists
<1>15. EventOf(q, BssLists, x)
  <2>1. ListsHold(q) /\ TreeHolds(q.hcct, x, {Root}) /\ q.bfirst # Null /\ RootIsFirst(q)
    BY <1>13 DEF EventOf
  <2>2. CASE CountsMore(q, w, x)
    <3>1. CountsMore(q, BssLists, x)
      BY <1>9, <2>2 DEF CountsMore
    <3>2. QED BY <2>1, <3>1 DEF EventOf
  <2>3. CASE CountsAlso(q, w, x)
    <3>1. CountsAlso(q, BssLists, x)
      BY <1>9, <1>10, <2>3 DEF CountsAlso
    <3>2. QED BY <2>1, <3>1 DEF EventOf
  <2>4. CASE CountsInstead(q, w, x)
    <3>1. CountsInstead(q, BssLists, x)
      BY <1>9, <1>10, <2>4 DEF CountsInstead
    <3>2. QED BY <2>1, <3>1 DEF EventOf
  <2>5. QED BY <1>13, <2>2, <2>3, <2>4 DEF EventOf
<1>16. QED BY <1>1, <1>4, <1>14, <1>15

\* Before init there are no nodes and no buckets.
LEMMA BssInit == Bss!Init => BssInv
<1> SUFFICES ASSUME Bss!Init PROVE BssInv
  OBVIOUS
<1>1. /\ bssHcct = [x \in {} |-> Null] /\ bssBucket = [n \in {} |-> Null] /\ bfirst = Null
      /\ numc = 0 /\ numb = 0 /\ bssTop = Root /\ bssFreq = [x \in Contexts |-> 0] /\ bssEvents = 0
  BY BssConstants DEF Bss!Init
<1>2. Root \in Contexts
  BY RootContext
<1>3. bssFreq \in [Contexts -> Nat]
  BY <1>1
<1>4. QED BY <1>1, <1>2, <1>3 DEF BssInv

\* init: the first bucket, with the dummy root in it.
LEMMA InitTreeMeans ==
  ASSUME BssInv, Bss!InitTree
  PROVE  /\ bfirst = Null /\ bfirst' # Null /\ UNCHANGED <<bssTop, bssFreq, bssEvents>>
         /\ bssTop = Root
         /\ ListsHold(BssLists') /\ TreeHolds(bssHcct', Root, {Root})
         /\ QMon(BssLists') = {Root} /\ QCount(BssLists', Root) = 0
<1> DEFINE f == bfirst'
           q == BssLists'
<1>1. /\ bfirst = Null /\ f = Bss!NewBucket({})
      /\ bssBucket' = [n \in {f} |-> [counter |-> 0, node |-> Root, next |-> Null, prev |-> Null]]
      /\ bssHcct' = [x \in {Root} |-> [bucket |-> f, next |-> Null, prev |-> Null]]
      /\ numc' = 1 /\ numb' = 1 /\ UNCHANGED <<bssTop, bssFreq, bssEvents>>
  BY BssConstants DEF Bss!InitTree
<1>2. bssTop = Root
  BY <1>1 DEF BssInv
<1>3. Null \notin Contexts \cup 1 .. Counters + 1 /\ Counters \in Nat \ {0} /\ Root \in Contexts
  BY BssConstants, RootContext
<1>4. f \in 1 .. Counters + 1 /\ f # Null
  <2>1. Cardinality({}) = 0
    BY FS_EmptySet
  <2>2. {} \in SUBSET (1 .. Counters + 1) /\ Cardinality({}) <= Counters
    BY <1>3, <2>1
  <2>3. Bss!NewBucket({}) \in 1 .. Counters + 1
    BY <2>2, NewBucketProperties
  <2>4. QED BY <1>1, <1>3, <2>3
<1>5. /\ q.hcct = bssHcct' /\ q.bucket = bssBucket' /\ q.bfirst = f /\ q.numc = 1 /\ q.numb = 1
      /\ q = [hcct |-> q.hcct, bucket |-> q.bucket, bfirst |-> q.bfirst, numc |-> q.numc,
              numb |-> q.numb]
  BY <1>1 DEF BssLists
<1> HIDE DEF f, q
<1>6. /\ DOMAIN q.hcct = {Root} /\ q.hcct[Root].bucket = f /\ q.hcct[Root].next = Null
      /\ q.hcct[Root].prev = Null /\ q.hcct[Root] \in BssNode
  BY <1>1, <1>4, <1>5 DEF BssNode
<1>7. /\ DOMAIN q.bucket = {f} /\ q.bucket[f].counter = 0 /\ q.bucket[f].node = Root
      /\ q.bucket[f].next = Null /\ q.bucket[f].prev = Null /\ q.bucket[f] \in BssBucket
  BY <1>1, <1>3, <1>5 DEF BssBucket
<1>8. QMon(q) = {Root}
  BY <1>4, <1>6 DEF QMon
<1>9. ListTypes(q)
  BY <1>3, <1>4, <1>5, <1>6, <1>7 DEF ListTypes
<1>10. BucketChain(q.bucket, q.bfirst)
  BY <1>5, <1>7 DEF BucketChain
<1>11. \E r : NodesLinked(q.hcct, q.bucket, {Root}, r)
  <2> DEFINE r == [x \in {Root} |-> 0]
  <2>1. r[Root] \in Int
    OBVIOUS
  <2> HIDE DEF r
  <2>2. Root # Null
    BY <1>3
  <2>3. NodesLinked(q.hcct, q.bucket, {Root}, r)
    BY <1>6, <1>7, <2>1, <2>2 DEF NodesLinked
  <2>4. QED BY <2>3
<1>12. IsFiniteSet({Root}) /\ Cardinality({Root}) = 1 /\ Cardinality({f}) = 1
  BY FS_Singleton
<1>13. ListsHold(q)
  <2>1. ListsSound(q, QMon(q))
    BY <1>5, <1>7, <1>8, <1>9, <1>10, <1>11, <1>12 DEF ListsSound
  <2>2. 1 <= Counters /\ Root # Null
    BY <1>3
  <2>3. QED BY <1>5, <1>7, <1>8, <1>12, <2>1, <2>2 DEF ListsHold
<1>14. TreeHolds(q.hcct, Root, {Root})
  <2>1. Len(Root) = 0 /\ Prefix(Root, 0) = Root
    BY <1>3, WholePrefix DEF Root
  <2>2. QED BY <1>3, <1>6, <2>1 DEF TreeHolds
<1>15. QCount(q, Root) = 0
  BY <1>6, <1>7 DEF QCount
<1>16. QED BY <1>1, <1>2, <1>4, <1>5, <1>8, <1>13, <1>14, <1>15 DEF f, q

\* rtn_exit.
LEMMA BssExitKeeps ==
  ASSUME BssInv, Bss!RtnExit
  PROVE  BssInv' /\ UNCHANGED <<bssHcct, bssBucket, bssFreq>>
<1>1. /\ bssTop # Root /\ bssTop' = Caller(bssTop)
      /\ UNCHANGED <<bssHcct, bssBucket, bfirst, numc, numb, bssFreq, bssEvents>>
  BY BssConstants DEF Bss!RtnExit
<1>2. bssTop \in Contexts /\ ListsHold(BssLists) /\ TreeHolds(bssHcct, bssTop, {Root})
      /\ RootIsFirst(BssLists) /\ bfirst # Null
  BY <1>1 DEF BssInv
<1>3. /\ Len(bssTop) \in Nat /\ Len(bssTop) >= 1 /\ bssTop' \in Contexts
      /\ Len(bssTop') = Len(bssTop) - 1
      /\ \A i \in 0 .. Len(bssTop) - 1 : Prefix(bssTop', i) = Prefix(bssTop, i)
  BY <1>1, <1>2, CallerProperties, ContextsAreSequences
<1>4. TreeHolds(bssHcct', bssTop', {Root})
  <2>1. /\ DOMAIN bssHcct \subseteq Contexts /\ \A y \in DOMAIN bssHcct : bssHcct[y] \in BssNode
        /\ \A i \in 0 .. Len(bssTop) : Prefix(bssTop, i) \in DOMAIN bssHcct
        /\ \A z \in DOMAIN bssHcct \ {Root} :
             bssHcct[z].bucket = Null => Bss!Children(z, DOMAIN bssHcct) # {}
    BY <1>2 DEF TreeHolds
  <2>2. \A i \in 0 .. Len(bssTop') : Prefix(bssTop', i) \in DOMAIN bssHcct
    <3>1. TAKE i \in 0 .. Len(bssTop')
    <3>2. i \in 0 .. Len(bssTop) - 1 /\ i \in 0 .. Len(bssTop)
      BY <1>3
    <3>3. QED BY <1>3, <2>1, <3>2
  <2>3. bssHcct' = bssHcct
    BY <1>1
  <2>4. QED BY <2>1, <2>2, <2>3 DEF TreeHolds
<1>5. BssLists' = BssLists
  BY <1>1 DEF BssLists
<1>6. ListsHold(BssLists') /\ RootIsFirst(BssLists')
  BY <1>2, <1>5
<1>7. bssFreq' \in [Contexts -> Nat] /\ bssEvents' \in Nat
  BY <1>1 DEF BssInv
<1>8. BssInv'
  BY <1>1, <1>2, <1>3, <1>4, <1>6, <1>7 DEF BssInv
<1>9. QED BY <1>1, <1>8

\* Each operation of bss-hcct.c keeps the invariant.
LEMMA BssStepKeeps == BssInv /\ [Bss!Next]_bssVars => BssInv'
<1> SUFFICES ASSUME BssInv, [Bss!Next]_bssVars PROVE BssInv'
  OBVIOUS
<1>0. bssFreq \in [Contexts -> Nat] /\ bssEvents \in Nat
  BY DEF BssInv
<1>1. ASSUME Bss!InitTree PROVE BssInv'
  <2>1. /\ bfirst' # Null /\ UNCHANGED <<bssTop, bssFreq, bssEvents>> /\ bssTop = Root
        /\ ListsHold(BssLists') /\ TreeHolds(bssHcct', Root, {Root})
        /\ QMon(BssLists') = {Root} /\ QCount(BssLists', Root) = 0
    BY <1>1, InitTreeMeans
  <2>2. RootIsFirst(BssLists')
    BY <2>1 DEF RootIsFirst
  <2>3. QED BY <1>0, <2>1, <2>2, RootContext DEF BssInv
<1>2. ASSUME NEW c \in Calls, Bss!RtnEnter(c) PROVE BssInv'
  <2>1. /\ EventOf(BssLists', BssLists, bssTop') /\ bssTop' \in Contexts
        /\ bssFreq' = [bssFreq EXCEPT ![bssTop'] = @ + 1] /\ bssEvents' = bssEvents + 1
    BY <1>2, BssEnterMeans
  <2>2. bssFreq' \in [Contexts -> Nat] /\ bssEvents' \in Nat
    BY <1>0, <2>1
  <2>3. /\ ListsHold(BssLists') /\ TreeHolds(BssLists'.hcct, bssTop', {Root})
        /\ BssLists'.bfirst # Null /\ RootIsFirst(BssLists')
    BY <2>1 DEF EventOf
  <2>4. BssLists'.hcct = bssHcct' /\ BssLists'.bfirst = bfirst'
    BY DEF BssLists
  <2>5. QED BY <2>1, <2>2, <2>3, <2>4 DEF BssInv
<1>3. ASSUME Bss!RtnExit PROVE BssInv'
  BY <1>3, BssExitKeeps
<1>4. ASSUME UNCHANGED bssVars PROVE BssInv'
  BY <1>4 DEF BssInv, bssVars, BssLists, RootIsFirst, QMon, QCount, TreeHolds
<1>5. QED BY <1>1, <1>2, <1>3, <1>4 DEF Bss!Next

\* So the invariant always holds; the other programs do not touch these variables.
LEMMA BssProgram == TraceTrees => []BssInv
<1>1. TraceTreesInit => BssInv
  BY BssInit DEF TraceTreesInit
<1>2. BssInv /\ [TraceTreesNext]_<<program, vars, bssVars, lssVars, burstVars>> => BssInv'
  <2>1. SUFFICES ASSUME BssInv, [TraceTreesNext]_<<program, vars, bssVars, lssVars, burstVars>>
                 PROVE  BssInv'
    OBVIOUS
  <2>2. [Bss!Next]_bssVars
    BY <2>1 DEF TraceTreesNext
  <2>3. QED BY <2>1, <2>2, BssStepKeeps
<1>3. QED BY <1>1, <1>2, PTL DEF TraceTrees

\* The nodes on the list of a bucket, by the walk along it.
LEMMA ListedIsWalk ==
  ASSUME NEW b
  PROVE  Bss!Listed(b) = {(CHOOSE w : IsWalk(bssHcct, bssBucket[b].node, numc, w))[i] : i \in 0 .. numc}
  BY DEF Bss!Listed, IsWalk

\* They are the nodes that name it as their bucket, and the end of the list.
LEMMA ListedMeans ==
  ASSUME ListsHold(BssLists), NEW b \in DOMAIN bssBucket
  PROVE  Bss!Listed(b) = {x \in QMon(BssLists) : bssHcct[x].bucket = b} \cup {Null}
<1> DEFINE o == BssLists
           L == QMon(o)
           a == bssBucket[b].node
           w == CHOOSE v : IsWalk(bssHcct, a, numc, v)
<1>1. /\ ListTypes(o) /\ \A c \in DOMAIN o.bucket : o.bucket[c].node # Null
      /\ IsFiniteSet(L) /\ o.numc = Cardinality(L)
  BY DEF ListsHold, ListsSound
<1>2. PICK r : NodesLinked(o.hcct, o.bucket, L, r)
  BY DEF ListsHold, ListsSound
<1>3. o.hcct = bssHcct /\ o.bucket = bssBucket /\ o.numc = numc
  BY DEF BssLists
<1>4. L \subseteq DOMAIN o.hcct
  BY DEF QMon
<1> HIDE DEF L, o
<1>5. numc \in Nat /\ Null \notin L /\ numc = Cardinality(L)
  BY <1>1, <1>3, <1>4, ListDomains, FS_CardinalityType
<1>6. IsWalk(bssHcct, a, numc, w)
  <2>1. \E v : IsWalk(bssHcct, a, numc, v)
    BY <1>5, WalkExists
  <2> HIDE DEF a
  <2>2. QED BY <2>1
<1>7. Bss!Listed(b) = {w[i] : i \in 0 .. numc}
  BY ListedIsWalk
<1> HIDE DEF w
<1>8. MeetsAll(w, numc, bssHcct, L, b)
  <2>1. NodesLinked(bssHcct, bssBucket, L, r) /\ bssBucket[b].node # Null /\ IsFiniteSet(L)
    BY <1>1, <1>2, <1>3
  <2>2. QED BY <1>5, <1>6, <2>1, WalkMeetsAll
<1>9. QED BY <1>7, <1>8 DEF L, o, MeetsAll

\* The invariant implies what the runs check.
LEMMA BssInvImplies ==
  BssInv => Bss!TypeOK /\ Bss!ListsHoldMonitored /\ Bss!TreeIsPruned
<1> SUFFICES ASSUME BssInv PROVE Bss!TypeOK /\ Bss!ListsHoldMonitored /\ Bss!TreeIsPruned
  OBVIOUS
<1>1. CASE bfirst = Null
  <2>1. /\ bssHcct = [x \in {} |-> Null] /\ bssBucket = [n \in {} |-> Null]
        /\ numc = 0 /\ numb = 0 /\ bssTop \in Contexts /\ bssFreq \in [Contexts -> Nat]
        /\ bssEvents \in Nat
    BY <1>1 DEF BssInv
  <2>2. Bss!TypeOK
    BY <1>1, <2>1, BssConstants DEF Bss!TypeOK, Bss!Nodes
  <2>3. QED BY <1>1, <2>2 DEF Bss!ListsHoldMonitored, Bss!TreeIsPruned
<1>2. CASE bfirst # Null
  <2> DEFINE o == BssLists
             L == QMon(o)
  <2>1. /\ ListTypes(o) /\ BucketChain(o.bucket, o.bfirst) /\ o.numb = Cardinality(DOMAIN o.bucket)
        /\ \A c \in DOMAIN o.bucket : o.bucket[c].node # Null
        /\ IsFiniteSet(L) /\ o.numc = Cardinality(L) /\ o.numc <= Counters
    BY <1>2 DEF BssInv, ListsHold, ListsSound
  <2>2. PICK r : NodesLinked(o.hcct, o.bucket, L, r)
    BY <1>2 DEF BssInv, ListsHold, ListsSound
  <2>3. /\ o.hcct = bssHcct /\ o.bucket = bssBucket /\ o.bfirst = bfirst /\ o.numc = numc
        /\ o.numb = numb
    BY DEF BssLists
  <2>4. L = Bss!Monitored /\ Bss!Nodes = DOMAIN bssHcct
    BY <2>3 DEF QMon, Bss!Monitored, Bss!Nodes
  <2>5. \A b \in DOMAIN bssBucket :
          Bss!Listed(b) = {x \in Bss!Monitored : bssHcct[x].bucket = b} \cup {Null}
    BY <1>2, <2>4, ListedMeans DEF BssInv
  <2> HIDE DEF o, L
  <2>6. /\ DOMAIN bssHcct \subseteq Contexts /\ \A x \in DOMAIN bssHcct : bssHcct[x] \in BssNode
        /\ DOMAIN bssBucket \subseteq 1 .. Counters + 1
        /\ \A b \in DOMAIN bssBucket : bssBucket[b] \in BssBucket
    BY <2>1, <2>3 DEF ListTypes
  <2>7. bfirst \in DOMAIN bssBucket
    BY <2>1, <2>3 DEF BucketChain
  <2>8. numc \in Nat /\ numb \in Nat /\ numb = Cardinality(DOMAIN bssBucket) /\ numc = Cardinality(L)
        /\ numc <= Counters
    BY <2>1, <2>3, ListDomains, FS_CardinalityType
  <2>9. Bss!TypeOK
    <3>1. \A x \in DOMAIN bssHcct : bssHcct[x] \in Bss!NodeRecord
      BY <2>6, BssConstants DEF BssNode, Bss!NodeRecord
    <3>2. \A b \in DOMAIN bssBucket : bssBucket[b] \in Bss!BucketRecord
      <4>1. TAKE b \in DOMAIN bssBucket
      <4>2. bssBucket[b] \in BssBucket /\ bssBucket[b].node # Null
        BY <2>1, <2>3, <2>6
      <4>3. QED BY <4>2, BssConstants DEF BssBucket, Bss!BucketRecord
    <3>3. bssTop \in Contexts /\ bssFreq \in [Contexts -> Nat] /\ bssEvents \in Nat
      BY DEF BssInv
    <3>4. QED BY <2>6, <2>7, <2>8, <3>1, <3>2, <3>3, BssConstants DEF Bss!TypeOK, Bss!Nodes
  <2>10. Bss!BucketsOrdered
    <3>1. numb = Bss!Cardinality(DOMAIN bssBucket)
      BY <2>8 DEF Bss!Cardinality, Cardinality
    <3>2. QED BY <2>1, <2>3, <3>1 DEF Bss!BucketsOrdered, BucketChain
  <2>11. numc = Bss!Cardinality(Bss!Monitored)
    BY <2>4, <2>8 DEF Bss!Cardinality, Cardinality
  <2>12. \A x \in L : /\ bssHcct[x].next # Null => bssHcct[bssHcct[x].next].prev = x
                      /\ bssHcct[x].prev = Null <=> bssBucket[bssHcct[x].bucket].node = x
    BY <2>2, <2>3 DEF NodesLinked
  <2>13. Bss!ListsHoldMonitored
    BY <2>4, <2>5, <2>8, <2>10, <2>11, <2>12 DEF Bss!ListsHoldMonitored
  <2>14. Bss!TreeIsPruned
    <3>1. /\ \A i \in 0 .. Len(bssTop) : Prefix(bssTop, i) \in DOMAIN bssHcct
          /\ \A z \in DOMAIN bssHcct \ {Root} :
               bssHcct[z].bucket = Null => Bss!Children(z, DOMAIN bssHcct) # {}
      BY <1>2 DEF BssInv, TreeHolds
    <3>2. QED BY <3>1, BssConstants DEF Bss!TreeIsPruned, Bss!Monitored, Bss!Nodes
  <2>15. QED BY <2>9, <2>13, <2>14
<1>3. QED BY <1>1, <1>2

-----------------------------------------------------------------------------
(* The buckets implement Space Saving.                                     *)

\* The counters that Space Saving has: those of the monitored nodes.
BssCount == [x \in QMon(BssLists) |-> QCount(BssLists, x)]

\* The actions of Space Saving, by what they do to the counters of the buckets.
LEMMA BssCountMeans ==
  /\ BssCount = [x \in {} |-> 0] /\ bssFreq = [x \in Contexts |-> 0] => Bss!SS!Init
  /\ BssCount' = BssCount /\ bssFreq' = bssFreq => UNCHANGED Bss!SS!vars
  /\ DOMAIN BssCount = {} /\ BssCount' = [x \in {Root} |-> 0] /\ bssFreq' = bssFreq
       => Bss!SS!Open(Root)
  /\ \A x : /\ x \in DOMAIN BssCount /\ BssCount' = [BssCount EXCEPT ![x] = @ + 1]
            /\ bssFreq' = [bssFreq EXCEPT ![x] = @ + 1]
            => Bss!SS!Increment(x)
  /\ \A x : /\ DOMAIN BssCount # {} /\ x \notin DOMAIN BssCount
            /\ Cardinality(DOMAIN BssCount) < Counters
            /\ BssCount' = [y \in DOMAIN BssCount \cup {x} |-> IF y = x THEN 1 ELSE BssCount[y]]
            /\ bssFreq' = [bssFreq EXCEPT ![x] = @ + 1]
            => Bss!SS!Admit(x)
  /\ \A x : /\ x \notin DOMAIN BssCount /\ Cardinality(DOMAIN BssCount) = Counters
            /\ \E v \in DOMAIN BssCount :
                 /\ \A y \in DOMAIN BssCount : BssCount[v] <= BssCount[y]
                 /\ BssCount' = [y \in (DOMAIN BssCount \ {v}) \cup {x} |->
                                   IF y = x THEN BssCount[v] + 1 ELSE BssCount[y]]
            /\ bssFreq' = [bssFreq EXCEPT ![x] = @ + 1]
            => Bss!SS!Replace(x)
<1>1. BssLists.hcct = bssHcct /\ BssLists.bucket = bssBucket
  BY DEF BssLists
<1>2. [x \in Bss!Monitored |-> Bss!Count(x)] = BssCount
  BY <1>1 DEF BssCount, QMon, QCount, Bss!Monitored, Bss!Nodes, Bss!Count
<1>3. ([x \in Bss!Monitored |-> Bss!Count(x)])' = BssCount'
  BY DEF BssCount, BssLists, QMon, QCount, Bss!Monitored, Bss!Nodes, Bss!Count
<1>4. Bss!SS!Monitored = DOMAIN BssCount
  BY <1>2 DEF Bss!SS!Monitored
<1>5. BssCount = [x \in {} |-> 0] /\ bssFreq = [x \in Contexts |-> 0] => Bss!SS!Init
  BY <1>2, BssConstants DEF Bss!SS!Init
<1>6. BssCount' = BssCount /\ bssFreq' = bssFreq => UNCHANGED Bss!SS!vars
  BY <1>2, <1>3 DEF Bss!SS!vars
<1>7. DOMAIN BssCount = {} /\ BssCount' = [x \in {Root} |-> 0] /\ bssFreq' = bssFreq
        => Bss!SS!Open(Root)
  BY <1>2, <1>3, <1>4 DEF Bss!SS!Open
<1>8. ASSUME NEW x, x \in DOMAIN BssCount, BssCount' = [BssCount EXCEPT ![x] = @ + 1],
             bssFreq' = [bssFreq EXCEPT ![x] = @ + 1]
      PROVE  Bss!SS!Increment(x)
  BY <1>2, <1>3, <1>4, <1>8 DEF Bss!SS!Increment
<1>9. ASSUME NEW x, DOMAIN BssCount # {}, x \notin DOMAIN BssCount,
             Cardinality(DOMAIN BssCount) < Counters,
             BssCount' = [y \in DOMAIN BssCount \cup {x} |-> IF y = x THEN 1 ELSE BssCount[y]],
             bssFreq' = [bssFreq EXCEPT ![x] = @ + 1]
      PROVE  Bss!SS!Admit(x)
  <2>1. Bss!SS!Cardinality(DOMAIN BssCount) < Counters
    BY <1>9 DEF Bss!SS!Cardinality, Cardinality
  <2>2. QED BY <1>2, <1>3, <1>4, <1>9, <2>1 DEF Bss!SS!Admit
<1>10. ASSUME NEW x, x \notin DOMAIN BssCount, Cardinality(DOMAIN BssCount) = Counters,
              NEW v \in DOMAIN BssCount,
              \A y \in DOMAIN BssCount : BssCount[v] <= BssCount[y],
              BssCount' = [y \in (DOMAIN BssCount \ {v}) \cup {x} |->
                             IF y = x THEN BssCount[v] + 1 ELSE BssCount[y]],
              bssFreq' = [bssFreq EXCEPT ![x] = @ + 1]
       PROVE  Bss!SS!Replace(x)
  <2>1. Bss!SS!Cardinality(DOMAIN BssCount) = Counters
    BY <1>10 DEF Bss!SS!Cardinality, Cardinality
  <2>2. Bss!SS!Minimal(v)
    BY <1>2, <1>4, <1>10 DEF Bss!SS!Minimal
  <2>3. QED BY <1>2, <1>3, <1>4, <1>10, <2>1, <2>2 DEF Bss!SS!Replace
<1>11. QED BY <1>5, <1>6, <1>7, <1>8, <1>9, <1>10

\* An event is a step of Space Saving.
LEMMA EventIsStep ==
  ASSUME BssInv, NEW x, x \in Contexts, EventOf(BssLists', BssLists, x), bfirst # Null,
         bssFreq' = [bssFreq EXCEPT ![x] = @ + 1]
  PROVE  Bss!SS!Next
<1> DEFINE o == BssLists
           q == BssLists'
           C == BssCount
           D == BssCount'
<1>1. /\ ListsHold(o) /\ RootIsFirst(o)
      /\ CountsMore(q, o, x) \/ CountsAlso(q, o, x) \/ CountsInstead(q, o, x)
  BY DEF BssInv, EventOf
<1>2. IsFiniteSet(QMon(o)) /\ o.numc = Cardinality(QMon(o)) /\ o.numc <= Counters
  BY <1>1 DEF ListsHold
<1>3. C = [y \in QMon(o) |-> QCount(o, y)] /\ D = [y \in QMon(q) |-> QCount(q, y)]
  BY DEF BssCount
<1>4. DOMAIN C = QMon(o) /\ \A y \in QMon(o) : C[y] = QCount(o, y)
  BY <1>3
<1>5. Bss!SS!Increment(x) \/ Bss!SS!Admit(x) \/ Bss!SS!Replace(x) => Bss!SS!Next
  BY BssConstants DEF Bss!SS!Next
<1> HIDE DEF o, q, C, D
<1>6. CASE CountsMore(q, o, x)
  <2>1. /\ x \in QMon(o) /\ QMon(q) = QMon(o)
        /\ \A y \in QMon(o) : QCount(q, y) = IF y = x THEN QCount(o, y) + 1 ELSE QCount(o, y)
    BY <1>6 DEF CountsMore
  <2>2. D = [C EXCEPT ![x] = @ + 1]
    BY <1>3, <1>4, <2>1
  <2>3. Bss!SS!Increment(x)
    BY <1>4, <2>1, <2>2, BssCountMeans DEF C, D
  <2>4. QED BY <1>5, <2>3
<1>7. CASE CountsAlso(q, o, x)
  <2>1. /\ x \notin QMon(o) /\ o.numc # Counters
        /\ QMon(q) = QMon(o) \cup {x} /\ QCount(q, x) = 1
        /\ \A y \in QMon(o) : QCount(q, y) = QCount(o, y)
    BY <1>7 DEF CountsAlso
  <2>2. D = [y \in DOMAIN C \cup {x} |-> IF y = x THEN 1 ELSE C[y]]
    BY <1>3, <1>4, <2>1
  <2>3. Cardinality(DOMAIN C) < Counters
    <3>1. Cardinality(QMon(o)) \in Nat /\ Counters \in Nat
      BY <1>2, FS_CardinalityType, BssConstants
    <3>2. QED BY <1>2, <1>4, <2>1, <3>1
  <2>4. DOMAIN C # {}
    BY <1>1, <1>4, <2>1 DEF RootIsFirst
  <2>5. Bss!SS!Admit(x)
    BY <1>4, <2>1, <2>2, <2>3, <2>4, BssCountMeans DEF C, D
  <2>6. QED BY <1>5, <2>5
<1>8. CASE CountsInstead(q, o, x)
  <2>1. x \notin QMon(o) /\ o.numc = Counters
    BY <1>8 DEF CountsInstead
  <2>2. PICK r \in QMon(o) :
          /\ \A y \in QMon(o) : QCount(o, r) <= QCount(o, y)
          /\ QMon(q) = (QMon(o) \ {r}) \cup {x} /\ QCount(q, x) = QCount(o, r) + 1
          /\ \A y \in QMon(o) \ {r} : QCount(q, y) = QCount(o, y)
    BY <1>8 DEF CountsInstead
  <2>3. D = [y \in (DOMAIN C \ {r}) \cup {x} |-> IF y = x THEN C[r] + 1 ELSE C[y]]
    <3>1. \A y \in (DOMAIN C \ {r}) \cup {x} :
            QCount(q, y) = IF y = x THEN C[r] + 1 ELSE C[y]
      BY <1>4, <2>1, <2>2
    <3>2. QMon(q) = (DOMAIN C \ {r}) \cup {x}
      BY <1>4, <2>2
    <3>3. QED BY <1>3, <3>1, <3>2
  <2>4. \A y \in DOMAIN C : C[r] <= C[y]
    BY <1>4, <2>2
  <2>5. Cardinality(DOMAIN C) = Counters /\ r \in DOMAIN C /\ x \notin DOMAIN C
    BY <1>2, <1>4, <2>1
  <2>6. Bss!SS!Replace(x)
    BY <2>3, <2>4, <2>5, BssCountMeans DEF C, D
  <2>7. QED BY <1>5, <2>6
<1>9. QED BY <1>1, <1>6, <1>7, <1>8

\* Every step of bss-hcct.c is one of Space Saving, or does not change its counters.
LEMMA BssStepIsStep ==
  BssInv /\ [Bss!Next]_bssVars => [Bss!SS!Next]_(Bss!SS!vars)
<1> SUFFICES ASSUME BssInv, [Bss!Next]_bssVars PROVE [Bss!SS!Next]_(Bss!SS!vars)
  OBVIOUS
<1>1. ASSUME Bss!InitTree PROVE Bss!SS!Next
  <2>1. /\ bfirst = Null /\ bssFreq' = bssFreq
        /\ QMon(BssLists') = {Root} /\ QCount(BssLists', Root) = 0
    BY <1>1, InitTreeMeans
  <2>2. bssHcct = [x \in {} |-> Null]
    BY <2>1 DEF BssInv
  <2>3. DOMAIN BssCount = {}
    BY <2>2 DEF BssCount, QMon, BssLists
  <2>4. BssCount' = [x \in {Root} |-> 0]
    <3>1. BssCount' = [x \in QMon(BssLists') |-> QCount(BssLists', x)]
      BY DEF BssCount
    <3>2. QED BY <2>1, <3>1
  <2>5. Bss!SS!Open(Root)
    BY <2>1, <2>3, <2>4, BssCountMeans
  <2>6. QED BY <2>5, RootContext, BssConstants DEF Bss!SS!Next
<1>2. ASSUME NEW c \in Calls, Bss!RtnEnter(c) PROVE Bss!SS!Next
  <2>1. /\ EventOf(BssLists', BssLists, bssTop') /\ bssTop' \in Contexts /\ bfirst # Null
        /\ bssFreq' = [bssFreq EXCEPT ![bssTop'] = @ + 1]
    BY <1>2, BssEnterMeans
  <2>2. QED BY <2>1, EventIsStep
<1>3. ASSUME UNCHANGED <<bssHcct, bssBucket, bssFreq>> PROVE UNCHANGED Bss!SS!vars
  <2>1. BssCount' = BssCount
    BY <1>3 DEF BssCount, BssLists, QMon, QCount
  <2>2. QED BY <1>3, <2>1, BssCountMeans
<1>4. ASSUME Bss!RtnExit PROVE UNCHANGED Bss!SS!vars
  BY <1>3, <1>4, BssExitKeeps
<1>5. ASSUME UNCHANGED bssVars PROVE UNCHANGED Bss!SS!vars
  BY <1>3, <1>5 DEF bssVars
<1>6. QED BY <1>1, <1>2, <1>4, <1>5 DEF Bss!Next

\* The buckets of bss-hcct.c are a Space Saving summary of the contexts entered: a context that is
\* not monitored takes the place and the counter of one that counts least.
THEOREM BucketsAreSpaceSaving == TraceTrees => ImplementsSpaceSaving
<1>1. TraceTreesInit => Bss!SS!Init
  <2>1. SUFFICES ASSUME Bss!Init PROVE Bss!SS!Init
    BY DEF TraceTreesInit
  <2>2. bssHcct = [x \in {} |-> Null] /\ bssFreq = [x \in Contexts |-> 0]
    BY <2>1, BssConstants DEF Bss!Init
  <2>3. BssCount = [x \in {} |-> 0]
    BY <2>2 DEF BssCount, QMon, BssLists
  <2>4. QED BY <2>2, <2>3, BssCountMeans
<1>2. BssInv /\ [TraceTreesNext]_<<program, vars, bssVars, lssVars, burstVars>>
        => [Bss!SS!Next]_(Bss!SS!vars)
  <2>1. SUFFICES ASSUME BssInv, [TraceTreesNext]_<<program, vars, bssVars, lssVars, burstVars>>
                 PROVE  [Bss!SS!Next]_(Bss!SS!vars)
    OBVIOUS
  <2>2. [Bss!Next]_bssVars
    BY <2>1 DEF TraceTreesNext
  <2>3. QED BY <2>1, <2>2, BssStepIsStep
<1>3. TraceTrees => Bss!SS!Spec
  BY <1>1, <1>2, BssProgram, PTL DEF TraceTrees, Bss!SS!Spec
<1>4. QED BY <1>3 DEF ImplementsSpaceSaving, Bss!ImplementsSpaceSaving

-----------------------------------------------------------------------------
(* All programs of the trace analyzer together.                            *)

\* A step of lc-hcct.c keeps its invariant, and those of the others do not touch it.
LEMMA LossyProgram == TraceTrees => []IInv
<1>1. TraceTreesInit => IInv
  BY InitInv DEF TraceTreesInit
<1>2. IInv /\ [TraceTreesNext]_<<program, vars, bssVars, lssVars, burstVars>> => IInv'
  <2>1. SUFFICES ASSUME IInv, [TraceTreesNext]_<<program, vars, bssVars, lssVars, burstVars>>
                 PROVE  IInv'
    OBVIOUS
  <2>2. [Next]_vars
    BY <2>1 DEF TraceTreesNext
  <2>3. QED BY <2>1, <2>2, NextInv
<1>3. QED BY <1>1, <1>2, PTL DEF TraceTrees

\* Whichever program runs, its variables keep their types: no pointer of the lists of
\* bss-hcct.c is left to a bucket that was freed, the queue of lss-hcct.c has no hole, and
\* the shadow stack of burst.c no more calls than it can hold.
THEOREM ProgramsTypeCorrectness == TraceTrees => []TypesOK
<1> DEFINE LazyI  == program = "lss-hcct" => LazyInv
           BurstI == program = "cct-burst" => BurstInv
<1>1. IInv /\ BssInv /\ LazyI /\ BurstI => TypesOK
  <2>1. IInv => TypeOK
    BY DEF IInv
  <2>2. QED BY <2>1, BssInvImplies, LazyInvImplies, BurstInvImplies DEF TypesOK
<1>2. QED BY <1>1, LossyProgram, BssProgram, LazyProgram, BurstProgram, PTL

\* The monitored nodes are those on the lists of the buckets (bss-hcct.c) and in the queue
\* (lss-hcct.c), each once; prune leaves of the others their ancestors and the top only; and no
\* counter says more than the frequency and the least counter together.
THEOREM StructuresHoldMonitored == TraceTrees => []MonitoredHoldTree
<1> DEFINE LazyI == program = "lss-hcct" => LazyInv
<1>1. BssInv /\ LazyI => MonitoredHoldTree
  BY BssInvImplies, LazyInvImplies DEF MonitoredHoldTree
<1>2. QED BY <1>1, BssProgram, LazyProgram, PTL
=============================================================================
