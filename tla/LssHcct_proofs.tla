-------------------------- MODULE LssHcct_proofs --------------------------
(***************************************************************************)
(* Safety of the online hot calling context tree, for every queue length,  *)
(* stack depth and supply of blocks, and the guarantee of Space Saving for *)
(* its counters.                                                           *)
(***************************************************************************)
EXTENDS LssHcct, SequenceTheorems, FiniteSetTheorems, WellFoundedInduction, TLAPS

-----------------------------------------------------------------------------
(* Arithmetic: least and greatest elements.                                *)

\* A nonempty set of numbers has a least element.
LEMMA NatHasLeast ==
  ASSUME NEW S \in SUBSET Nat, S # {}
  PROVE  \E i \in S : \A j \in S : i <= j
<1>1. \E x \in S : \A y \in S : <<y, x>> \notin OpToRel(<, Nat)
  BY NatLessThanWellFounded, WFMin, Zenon
<1>2. PICK x \in S : \A y \in S : <<y, x>> \notin OpToRel(<, Nat)
  BY <1>1
<1>3. \A y \in S : ~ (y < x)
  BY <1>2 DEF OpToRel
<1>4. QED
  BY <1>3

\* Least picks it.
LEMMA LeastProperties ==
  ASSUME NEW S \in SUBSET Nat, S # {}
  PROVE  Least(S) \in S /\ \A j \in S : Least(S) <= j
BY NatHasLeast DEF Least

\* Greatest picks the largest of a nonempty bounded set.
LEMMA GreatestProperties ==
  ASSUME NEW m \in Nat, NEW S \in SUBSET (0 .. m), S # {}
  PROVE  Greatest(S) \in S /\ \A j \in S : j <= Greatest(S)
<1> DEFINE T == {t \in Nat : m - t \in S}
<1>1. T \in SUBSET Nat /\ T # {}
  <2>1. PICK i \in S : TRUE
    OBVIOUS
  <2>2. m - i \in T
    BY <2>1
  <2>3. QED
    BY <2>2
<1>2. PICK t \in T : \A u \in T : t <= u
  BY <1>1, NatHasLeast
<1>3. PICK g \in S : g = m - t
  BY <1>2
<1>4. \A j \in S : j <= g
  <2>1. TAKE j \in S
  <2>2. m - j \in T
    OBVIOUS
  <2>3. t <= m - j
    BY <1>2, <2>2
  <2>4. QED
    BY <1>3, <2>3
<1>5. QED
  BY <1>4 DEF Greatest

-----------------------------------------------------------------------------
(* Pruning.                                                                *)

\* Pruned is the smallest set with v that prune is done with, and it holds all the
\* children of its nodes.
LEMMA PrunedProperties ==
  ASSUME NEW r, NEW lv, NEW par, NEW mon, NEW v \in lv,
         v # r, Children(v, lv, par) = {},
         NEW P, P = Pruned(v, r, lv, par, mon)
  PROVE  /\ P \subseteq lv
         /\ v \in P
         /\ PruneClosed(P, r, lv, par, mon)
         /\ \A R \in SUBSET lv : (v \in R /\ PruneClosed(R, r, lv, par, mon)) => P \subseteq R
         /\ \A q \in P : Children(q, lv, par) \subseteq P
<1>1. P = {n \in lv : \A R \in SUBSET lv :
                     (v \in R /\ PruneClosed(R, r, lv, par, mon)) => n \in R}
  BY DEF Pruned
<1>2. P \subseteq lv /\ v \in P
  BY <1>1
<1>3. \A R \in SUBSET lv : (v \in R /\ PruneClosed(R, r, lv, par, mon)) => P \subseteq R
  BY <1>1
<1>4. PruneClosed(P, r, lv, par, mon)
  <2> SUFFICES ASSUME NEW n \in P,
                      par[n] \in lv \ (mon \cup {r}),
                      Children(par[n], lv, par) \subseteq P,
                      NEW R \in SUBSET lv, v \in R, PruneClosed(R, r, lv, par, mon)
               PROVE  par[n] \in R
    BY <1>1 DEF PruneClosed
  <2>1. P \subseteq R
    BY <1>3
  <2>2. n \in R /\ Children(par[n], lv, par) \subseteq R
    BY <2>1
  <2>3. QED
    BY <2>2 DEF PruneClosed
<1>5. \A q \in P : Children(q, lv, par) \subseteq P
  <2> SUFFICES ASSUME NEW q \in P, NEW x \in Children(q, lv, par), x \notin P
               PROVE  FALSE
    OBVIOUS
  <2> DEFINE R == P \ {q}
  <2>1. v \in R
    BY <1>2
  <2>2. PruneClosed(R, r, lv, par, mon)
    <3> SUFFICES ASSUME NEW n \in R,
                        par[n] \in lv \ (mon \cup {r}),
                        Children(par[n], lv, par) \subseteq R
                 PROVE  par[n] \in R
      BY DEF PruneClosed
    <3>1. par[n] \in P
      BY <1>4 DEF PruneClosed
    <3>2. par[n] # q
      OBVIOUS
    <3>3. QED
      BY <3>1, <3>2
  <2>3. P \subseteq R
    BY <1>2, <1>3, <2>1, <2>2
  <2>4. QED
    BY <2>3
<1>6. QED
  BY <1>2, <1>3, <1>4, <1>5

\* What leads to a monitored node or to the root stays in the tree.
LEMMA PruneKeeps ==
  ASSUME NEW r, NEW lv, NEW par, NEW mon, NEW v \in lv \ mon, NEW K \in SUBSET lv,
         \A k \in K : k \in mon \cup {r} \/ K \cap Children(k, lv, par) # {}
  PROVE  K \cap Pruned(v, r, lv, par, mon) = {}
<1>1. CASE v = r \/ Children(v, lv, par) # {}
  BY <1>1 DEF Pruned
<1>2. CASE v # r /\ Children(v, lv, par) = {}
  <2> DEFINE R == lv \ K
  <2>1. v \in R
    BY <1>2
  <2>2. PruneClosed(R, r, lv, par, mon)
    <3> SUFFICES ASSUME NEW n \in R,
                        par[n] \in lv \ (mon \cup {r}),
                        Children(par[n], lv, par) \subseteq R
                 PROVE  par[n] \in R
      BY DEF PruneClosed
    <3>1. K \cap Children(par[n], lv, par) = {}
      OBVIOUS
    <3>2. QED
      BY <3>1
  <2>3. Pruned(v, r, lv, par, mon) \subseteq R
    BY <1>2, <2>1, <2>2, PrunedProperties
  <2>4. QED
    BY <2>3
<1>3. QED
  BY <1>1, <1>2

IsTree(r, lv, par) == r \in lv /\ \A m \in lv \ {r} : par[m] \in lv

WithoutColdLeaf(r, lv, par, mon) ==
  \A m \in lv \ (mon \cup {r}) : Children(m, lv, par) # {}

\* When v is the only cold leaf, its pruning leaves a tree without cold leaves.
LEMMA PruneCompletes ==
  ASSUME NEW r, NEW lv, NEW par, NEW mon \in SUBSET lv, NEW v \in lv \ mon,
         IsTree(r, lv, par), WithoutColdLeaf(r, lv, par, mon \cup {v}),
         NEW lw, lw = lv \ Pruned(v, r, lv, par, mon)
  PROVE  /\ mon \subseteq lw /\ IsTree(r, lw, par)
         /\ WithoutColdLeaf(r, lw, par, mon)
<1> DEFINE P == Pruned(v, r, lv, par, mon)
<1>1. lw \subseteq lv /\ mon \subseteq lw /\ r \in lw
  <2> DEFINE K == mon \cup {r}
  <2>1. K \cap P = {}
    <3> HIDE DEF P
    <3>1. K \in SUBSET lv /\ \A k \in K : k \in mon \cup {r}
      BY DEF IsTree
    <3> HIDE DEF K
    <3>2. QED
      BY <3>1, PruneKeeps DEF P
  <2>2. lw = lv \ P
    OBVIOUS
  <2> HIDE DEF P
  <2>3. QED
    BY <2>1, <2>2 DEF IsTree
<1>2. CASE v = r \/ Children(v, lv, par) # {}
  <2>1. lw = lv
    BY <1>2 DEF Pruned
  <2>2. v = r \/ WithoutColdLeaf(r, lv, par, mon)
    BY <1>2 DEF WithoutColdLeaf
  <2>3. WithoutColdLeaf(r, lv, par, mon)
    BY <2>2 DEF WithoutColdLeaf
  <2>4. QED
    BY <1>1, <2>1, <2>3
<1>3. CASE v # r /\ Children(v, lv, par) = {}
  <2>1. /\ v \in P /\ PruneClosed(P, r, lv, par, mon)
        /\ \A q \in P : Children(q, lv, par) \subseteq P
    BY <1>3, PrunedProperties
  <2>2. lw = lv \ P
    OBVIOUS
  <2> HIDE DEF P
  <2>3. ASSUME NEW m \in lw, m # r
        PROVE  par[m] \in lw
    BY <2>1, <2>2, <2>3 DEF Children, IsTree
  <2>4. ASSUME NEW m \in lw, m \notin mon, m # r, Children(m, lw, par) = {}
        PROVE  FALSE
    <3>1. PICK x \in lv : par[x] = m
      BY <2>1, <2>2, <2>4 DEF Children, WithoutColdLeaf
    <3>2. Children(m, lv, par) \subseteq P /\ x \in P
      BY <2>2, <2>4, <3>1 DEF Children
    <3>3. QED
      BY <2>1, <2>2, <2>4, <3>1, <3>2 DEF PruneClosed
  <2>5. QED
    BY <1>1, <2>3, <2>4 DEF IsTree, WithoutColdLeaf
<1>4. QED
  BY <1>2, <1>3

-----------------------------------------------------------------------------
(* The victim.                                                             *)

\* Both ways to find the next minimum choose a slot of the full queue.
LEMMA VictimFacts ==
  ASSUME TreeTypeOK, QueueTypeOK, \A i \in Slots : queue[i] \in Blocks, FindVictim
  PROVE  minIdx' \in Slots /\ min' \in Nat /\ secondMinIdx' \in Slots
<1>1. Slots \in SUBSET Nat /\ Slots = 0 .. Epsilon - 1 /\ Epsilon - 1 \in Nat /\ 0 \in Slots
  BY ConstantsAssumption DEF Slots
<1>2. \A i \in Slots : QCount(i) \in Nat
  BY DEF TreeTypeOK, QCount
<1>3. CASE InlineUpdMin
  <2>1. InlineUpdateMin
    BY <1>3 DEF FindVictim
  <2>2. CASE Ahead # {} /\ minIdx' = Least(Ahead) /\ UNCHANGED <<min, secondMinIdx>>
    <3>1. Ahead \in SUBSET Slots /\ Ahead \in SUBSET Nat
      BY <1>1 DEF Ahead
    <3>2. Least(Ahead) \in Ahead
      BY <2>2, <3>1, LeastProperties
    <3>3. QED
      BY <2>2, <3>1, <3>2 DEF QueueTypeOK
  <2>3. CASE minIdx' = 0 /\ min' = QCount(secondMinIdx) /\ UNCHANGED secondMinIdx
    BY <1>1, <1>2, <2>3 DEF QueueTypeOK
  <2>4. CASE /\ Records # {}
             /\ minIdx' = Greatest(Records) /\ min' = QCount(Greatest(Records))
             /\ secondMinIdx' = Greatest({0} \cup (Records \ {Greatest(Records)}))
    <3> DEFINE S == {0} \cup (Records \ {Greatest(Records)})
    <3>1. Records \in SUBSET (0 .. Epsilon - 1)
      BY <1>1 DEF Records
    <3>2. Greatest(Records) \in Records
      BY <1>1, <2>4, <3>1, GreatestProperties
    <3>3. S \in SUBSET (0 .. Epsilon - 1) /\ S # {}
      BY <1>1, <3>1
    <3> HIDE DEF S
    <3>4. Greatest(S) \in S
      BY <1>1, <3>3, GreatestProperties
    <3>5. Greatest(Records) \in Slots /\ Greatest(S) \in Slots
      BY <1>1, <3>1, <3>2, <3>3, <3>4
    <3>6. QED
      BY <1>2, <2>4, <3>5 DEF S
  <2>5. QED
    BY <2>1, <2>2, <2>3, <2>4 DEF InlineUpdateMin
<1>4. CASE ~InlineUpdMin
  <2>1. UpdateMin
    BY <1>4 DEF FindVictim
  <2>2. CASE Equal # {} /\ minIdx' = Least(Equal) /\ UNCHANGED min
    <3>1. Equal \in SUBSET Slots /\ Equal \in SUBSET Nat
      BY <1>1 DEF Equal
    <3>2. Least(Equal) \in Equal
      BY <2>2, <3>1, LeastProperties
    <3>3. QED
      BY <2>1, <2>2, <3>1, <3>2 DEF QueueTypeOK, UpdateMin
  <2>3. CASE minIdx' = Least(Lowest) /\ min' = QCount(Least(Lowest))
    <3> DEFINE V == {QCount(i) : i \in Slots}
    <3>1. V \in SUBSET Nat /\ V # {}
      BY <1>1, <1>2
    <3>2. PICK w \in V : \A u \in V : w <= u
      <4> HIDE DEF V
      <4>1. QED
        BY <3>1, NatHasLeast
    <3>3. Lowest # {}
      <4>1. PICK i \in Slots : QCount(i) = w
        BY <3>2
      <4>2. i \in Lowest
        BY <3>2, <4>1 DEF Lowest
      <4>3. QED
        BY <4>2
    <3>4. Lowest \in SUBSET Slots /\ Lowest \in SUBSET Nat
      BY <1>1 DEF Lowest
    <3>5. Least(Lowest) \in Slots
      BY <3>3, <3>4, LeastProperties
    <3>6. QED
      BY <1>2, <2>1, <2>3, <3>5 DEF QueueTypeOK, UpdateMin
  <2>4. QED
    BY <2>1, <2>2, <2>3 DEF UpdateMin
<1>5. QED
  BY <1>3, <1>4

-----------------------------------------------------------------------------
(* Calling contexts.                                                       *)

\* A context is a sequence of calls that is not too long.
LEMMA ContextIsSeq ==
  \A s : s \in Contexts <=> s \in Seq(Calls) /\ Len(s) \in 0 .. StackMaxDepth
<1>1. ASSUME NEW s \in Contexts
      PROVE  s \in Seq(Calls) /\ Len(s) \in 0 .. StackMaxDepth
  <2>1. PICK d \in 0 .. StackMaxDepth : s \in [1 .. d -> Calls]
    BY <1>1 DEF Contexts
  <2>2. s \in Seq(Calls)
    BY <2>1, SeqDef
  <2>3. Len(s) = d
    BY <2>1, <2>2, LenProperties
  <2>4. QED
    BY <2>2, <2>3
<1>2. ASSUME NEW s \in Seq(Calls), Len(s) \in 0 .. StackMaxDepth
      PROVE  s \in Contexts
  BY <1>2, LenProperties DEF Contexts
<1>3. QED
  BY <1>1, <1>2

\* The root's context has no calls.
LEMMA EmptyContext == <<>> \in Contexts /\ Len(<<>>) = 0
<1>1. <<>> \in Seq(Calls) /\ Len(<<>>) = 0
  OBVIOUS
<1>2. 0 \in 0 .. StackMaxDepth
  BY ConstantsAssumption
<1>3. QED
  BY <1>1, <1>2, ContextIsSeq

\* The first i calls of a context are a context of length i.
LEMMA PrefixProperties ==
  ASSUME NEW s \in Seq(Calls), NEW k \in 0 .. Len(s)
  PROVE  /\ SubSeq(s, 1, k) \in Seq(Calls)
         /\ Len(SubSeq(s, 1, k)) = k
         /\ \A j \in 1 .. k : SubSeq(s, 1, k)[j] = s[j]
<1>1. Len(s) \in Nat /\ k \in Int /\ 1 \in Int
  BY LenProperties
<1>2. \A j \in 1 .. k : s[j] \in Calls
  BY <1>1, ElementOfSeq
<1>3. /\ SubSeq(s, 1, k) \in Seq(Calls)
      /\ Len(SubSeq(s, 1, k)) = IF 1 <= k THEN k - 1 + 1 ELSE 0
      /\ \A j \in 1 .. k - 1 + 1 : SubSeq(s, 1, k)[j] = s[1 + j - 1]
  BY <1>1, <1>2, SubSeqProperties
<1>4. QED
  BY <1>1, <1>3

\* A prefix of a prefix is a prefix.
LEMMA PrefixOfPrefix ==
  ASSUME NEW s \in Seq(Calls), NEW t \in Seq(Calls), NEW k \in 0 .. Len(s), k <= Len(t),
         \A j \in 1 .. k : s[j] = t[j]
  PROVE  SubSeq(s, 1, k) = SubSeq(t, 1, k)
<1>1. Len(s) \in Nat /\ Len(t) \in Nat
  BY LenProperties
<1>2. k \in 0 .. Len(t)
  BY <1>1
<1>3. \A j \in 1 .. k : SubSeq(s, 1, k)[j] = SubSeq(t, 1, k)[j]
  BY <1>2, PrefixProperties
<1>4. QED
  BY <1>2, <1>3, PrefixProperties, SeqEqual

\* The caller of a context with at least one call.
LEMMA FrontProperties ==
  ASSUME NEW s \in Seq(Calls), s # <<>>
  PROVE  LET f == SubSeq(s, 1, Len(s) - 1) IN
         /\ f \in Seq(Calls)
         /\ Len(f) = Len(s) - 1
         /\ \A i \in 0 .. Len(s) - 1 : SubSeq(f, 1, i) = SubSeq(s, 1, i)
<1> DEFINE f == SubSeq(s, 1, Len(s) - 1)
<1>1. Len(s) \in Nat /\ Len(s) > 0 /\ Len(s) - 1 \in 0 .. Len(s)
  BY EmptySeq, LenProperties
<1>2. f \in Seq(Calls) /\ Len(f) = Len(s) - 1 /\ \A j \in 1 .. Len(s) - 1 : f[j] = s[j]
  BY <1>1, PrefixProperties
<1>3. ASSUME NEW i \in 0 .. Len(s) - 1
      PROVE  SubSeq(f, 1, i) = SubSeq(s, 1, i)
  <2>1. i \in 0 .. Len(f) /\ i <= Len(s) /\ \A j \in 1 .. i : f[j] = s[j]
    BY <1>1, <1>2
  <2> HIDE DEF f
  <2>2. QED
    BY <1>2, <2>1, PrefixOfPrefix
<1>4. QED
  BY <1>2, <1>3

\* A call that fits on the stack leads to a context, whose caller is the old one.
LEMMA CallAppended ==
  ASSUME NEW s \in Seq(Calls), NEW c \in Calls
  PROVE  LET t == Append(s, c) IN
         /\ t \in Seq(Calls)
         /\ Len(t) = Len(s) + 1
         /\ SubSeq(t, 1, Len(t)) = t
         /\ \A i \in 0 .. Len(s) : SubSeq(t, 1, i) = SubSeq(s, 1, i)
<1> DEFINE t == Append(s, c)
<1>1. t \in Seq(Calls) /\ Len(t) = Len(s) + 1 /\ Len(s) \in Nat
      /\ \A j \in 1 .. Len(s) : t[j] = s[j]
  BY LenProperties
<1>2. SubSeq(t, 1, Len(t)) = t
  BY <1>1, SubSeqFull
<1>3. ASSUME NEW i \in 0 .. Len(s)
      PROVE  SubSeq(t, 1, i) = SubSeq(s, 1, i)
  <2> HIDE DEF t
  <2>1. i \in 0 .. Len(t) /\ i <= Len(s) /\ \A j \in 1 .. i : t[j] = s[j]
    BY <1>1
  <2>2. QED
    BY <1>1, <2>1, PrefixOfPrefix
<1>4. QED
  BY <1>1, <1>2, <1>3

\* Different callers or calls lead to different contexts.
LEMMA CallAppendedInjective ==
  ASSUME NEW s \in Seq(Calls), NEW t \in Seq(Calls), NEW c \in Calls, NEW d,
         Append(s, c) = Append(t, d)
  PROVE  s = t /\ c = d
<1>1. Len(s) \in Nat /\ Len(t) \in Nat /\ Len(s) = Len(t)
  BY LenProperties
<1>2. \A i \in 1 .. Len(s) : s[i] = t[i]
  <2> TAKE i \in 1 .. Len(s)
  <2>1. Append(s, c)[i] = s[i] /\ Append(t, d)[i] = t[i]
    BY <1>1, LenProperties
  <2> QED
    BY <2>1
<1>3. Append(s, c)[Len(s) + 1] = c /\ Append(t, d)[Len(t) + 1] = d
  BY <1>1, LenProperties
<1>4. QED
  BY <1>1, <1>2, <1>3, SeqEqual

-----------------------------------------------------------------------------
(* The invariant is inductive: the lifecycle of the tree and hcct_exit.    *)

\* Before trace_begin there is no tree.
LEMMA InitEstablishes == Init => IInv
<1> SUFFICES ASSUME Init PROVE IInv
  OBVIOUS
<1>1. <<>> \in Contexts
  BY EmptyContext
<1>2. TypeOK
  <2>1. TreeTypeOK /\ StackTypeOK
    BY ConstantsAssumption DEF Init, TreeTypeOK, StackTypeOK
  <2>2. QueueTypeOK
    <3>1. 0 \in Slots
      BY ConstantsAssumption DEF Slots
    <3>2. queue \in [Slots -> Blocks \cup {Null}]
      BY DEF Init
    <3>3. QED
      BY <3>1, <3>2 DEF Init, QueueTypeOK
  <2>3. HistoryTypeOK
    BY <1>1 DEF Init, HistoryTypeOK
  <2>4. QED
    BY <2>1, <2>2, <2>3 DEF TypeOK
<1>3. Lifecycle /\ StackMirrorsCalls /\ QueueHoldsMonitored /\ TreeOfContexts
  BY DEF Init, Lifecycle, StackMirrorsCalls, QueueHoldsMonitored, TreeOfContexts
<1>4. NoColdLeaf
  BY DEF Init, NoColdLeaf
<1>5. QED
  BY <1>2, <1>3, <1>4 DEF IInv

\* trace_begin creates a tree of one node, which is monitored.
LEMMA InitPreserves ==
  ASSUME IInv, HcctInit, Epsilon # 1
  PROVE  IInv'
<1>1. root = Null /\ live = {} /\ aux_frames = <<>>
  BY DEF IInv, Lifecycle, HcctInit
<1> DEFINE r == NewBlock
<1>2. r \in Blocks /\ r # Null
  BY <1>1, ConstantsAssumption DEF NewBlock
<1> HIDE DEF r
<1>3. /\ root' = r /\ live' = {r} /\ monitored' = {r}
      /\ parent' = [parent EXCEPT ![r] = Null]
      /\ counter' = [counter EXCEPT ![r] = 1]
      /\ callOf' = callOf
  BY <1>1 DEF HcctInit, FreshTree, r
<1>4. stack' = [stack EXCEPT ![0] = r] /\ stackIdx' = 0
  BY <1>1 DEF HcctInit, r
<1>5. /\ queue' = [queue EXCEPT ![0] = r] /\ numItems' = 1 /\ queueFull' = FALSE
      /\ min' = 0 /\ minIdx' = Epsilon - 1 /\ secondMinIdx' = 0
  BY <1>1 DEF HcctInit, FreshTree, r
<1>6. /\ aux_phase' = "tracing" /\ aux_frames' = <<>>
      /\ aux_ctx' = [aux_ctx EXCEPT ![r] = <<>>]
      /\ UNCHANGED <<aux_freq, aux_events>>
  BY <1>1 DEF HcctInit, r
<1>7. TreeTypeOK /\ StackTypeOK /\ QueueTypeOK /\ HistoryTypeOK
  BY DEF IInv, TypeOK
<1>8. 0 \in Slots /\ Epsilon - 1 \in Slots /\ 0 \in 0 .. StackMaxDepth - 1
  BY ConstantsAssumption DEF Slots
<1>9. TypeOK'
  <2>1. TreeTypeOK'
    BY <1>2, <1>3, <1>7 DEF TreeTypeOK
  <2>2. StackTypeOK'
    BY <1>2, <1>4, <1>7, ConstantsAssumption DEF StackTypeOK
  <2>3. QueueTypeOK'
    BY <1>2, <1>5, <1>7, <1>8 DEF QueueTypeOK
  <2>4. HistoryTypeOK'
    BY <1>2, <1>6, <1>7, EmptyContext DEF HistoryTypeOK
  <2>5. QED
    BY <2>1, <2>2, <2>3, <2>4 DEF TypeOK
<1>10. Lifecycle'
  BY <1>2, <1>3, <1>6 DEF Lifecycle
<1>11. StackMirrorsCalls'
  <2>1. stack'[0] = r /\ aux_ctx'[r] = <<>>
    BY <1>2, <1>4, <1>6, <1>7, <1>8 DEF StackTypeOK, HistoryTypeOK
  <2>2. SubSeq(<<>>, 1, 0) = <<>>
    <3>1. <<>> \in Seq(Calls) /\ Len(<<>>) = 0
      OBVIOUS
    <3>2. SubSeq(<<>>, 1, Len(<<>>)) = <<>>
      BY <3>1, SubSeqFull, Zenon
    <3>3. QED
      BY <3>1, <3>2, Zenon
  <2>3. stackIdx' = Len(aux_frames')
    BY <1>4, <1>6, EmptyContext
  <2>4. ASSUME NEW i \in 0 .. stackIdx'
        PROVE  /\ stack'[i] \in live'
               /\ aux_ctx'[stack'[i]] = SubSeq(aux_frames', 1, i)
               /\ ~ (i > 0)
    <3>1. i = 0
      BY <1>4
    <3>2. aux_frames' = <<>>
      BY <1>6
    <3>3. SubSeq(aux_frames', 1, i) = <<>>
      BY <2>2, <3>1, <3>2, Zenon
    <3>4. stack'[i] = r /\ aux_ctx'[stack'[i]] = <<>>
      BY <2>1, <3>1
    <3>5. QED
      BY <1>3, <3>1, <3>3, <3>4
  <2>5. QED
    BY <2>3, <2>4 DEF StackMirrorsCalls
<1>12. QueueHoldsMonitored'
  <2>1. queue'[0] = r
    BY <1>5, <1>7, <1>8 DEF QueueTypeOK
  <2>2. 0 .. numItems' - 1 = {0}
    BY <1>5
  <2>3. monitored' = {queue'[i] : i \in 0 .. numItems' - 1}
    BY <1>3, <2>1, <2>2
  <2>4. numItems' \in 1 .. Epsilon /\ numItems' # Epsilon
    BY <1>5, ConstantsAssumption
  <2>5. queueFull' = (numItems' = Epsilon)
    BY <1>5, <2>4
  <2>6. QED
    BY <2>2, <2>3, <2>4, <2>5 DEF QueueHoldsMonitored
<1>13. NoColdLeaf' /\ TreeOfContexts'
  BY <1>2, <1>3, <1>6, <1>7 DEF TreeTypeOK, HistoryTypeOK, NoColdLeaf, TreeOfContexts
<1>14. QED
  BY <1>9, <1>10, <1>11, <1>12, <1>13 DEF IInv

\* A return pops the stack.
LEMMA ExitPreserves ==
  ASSUME IInv, HcctExit
  PROVE  IInv'
<1>1. /\ aux_frames # <<>> /\ aux_frames \in Seq(Calls) /\ Len(aux_frames) \in 0 .. StackMaxDepth
      /\ root # Null
  BY ContextIsSeq DEF IInv, TypeOK, HistoryTypeOK, Lifecycle, HcctExit
<1>2. /\ aux_frames' \in Seq(Calls)
      /\ Len(aux_frames') = Len(aux_frames) - 1
      /\ \A i \in 0 .. Len(aux_frames) - 1 : SubSeq(aux_frames', 1, i) = SubSeq(aux_frames, 1, i)
  BY <1>1, FrontProperties DEF HcctExit
<1>3. Len(aux_frames) > 0
  BY <1>1, EmptySeq
<1>4. stackIdx = Len(aux_frames) /\ stackIdx' = stackIdx - 1
  BY <1>1, <1>3 DEF IInv, StackMirrorsCalls, HcctExit
<1>5. aux_frames' \in Contexts
  BY <1>1, <1>2, <1>3, ContextIsSeq, ConstantsAssumption
<1>6. TypeOK'
  <2>1. TreeTypeOK' /\ QueueTypeOK'
    BY DEF IInv, TypeOK, HcctExit, treeVars, queueVars, TreeTypeOK, QueueTypeOK
  <2>2. StackTypeOK'
    <3>1. StackTypeOK
      BY DEF IInv, TypeOK
    <3>2. stack' = stack
      BY DEF HcctExit
    <3>3. stackIdx \in 0 .. IdxMax
      BY <3>1 DEF StackTypeOK
    <3>4. stackIdx > 0 /\ stackIdx' = stackIdx - 1
      BY <1>3, <1>4
    <3>5. stackIdx' \in 0 .. IdxMax
      BY <3>3, <3>4, ConstantsAssumption
    <3>6. QED
      BY <3>1, <3>2, <3>5 DEF StackTypeOK
  <2>3. HistoryTypeOK'
    BY <1>5 DEF IInv, TypeOK, HcctExit, HistoryTypeOK
  <2>4. QED
    BY <2>1, <2>2, <2>3 DEF TypeOK
<1>7. Lifecycle' /\ QueueHoldsMonitored' /\ NoColdLeaf' /\ TreeOfContexts'
  BY <1>1 DEF IInv, HcctExit, treeVars, queueVars, Lifecycle, QueueHoldsMonitored,
              NoColdLeaf, Children, TreeOfContexts
<1>8. StackMirrorsCalls'
  <2>1. UNCHANGED <<stack, live, aux_ctx, parent, root>>
    BY DEF HcctExit, treeVars
  <2>2. \A i \in 0 .. stackIdx' : i \in 0 .. stackIdx /\ i \in 0 .. Len(aux_frames) - 1
    BY <1>1, <1>4
  <2>3. stackIdx' = Len(aux_frames')
    BY <1>2, <1>4
  <2>4. QED
    BY <1>1, <1>2, <2>1, <2>2, <2>3 DEF IInv, StackMirrorsCalls
<1>9. QED
  BY <1>6, <1>7, <1>8 DEF IInv

\* trace_end discards the tree.
LEMMA DumpPreserves ==
  ASSUME IInv, HcctDump
  PROVE  IInv'
<1>1. <<>> \in Contexts
  BY EmptyContext
<1>2. TypeOK'
  <2>1. TreeTypeOK' /\ QueueTypeOK'
    BY DEF IInv, TypeOK, HcctDump, queueVars, TreeTypeOK, QueueTypeOK
  <2>2. StackTypeOK'
    BY ConstantsAssumption DEF IInv, TypeOK, HcctDump, StackTypeOK
  <2>3. HistoryTypeOK'
    BY <1>1 DEF IInv, TypeOK, HcctDump, HistoryTypeOK
  <2>4. QED
    BY <2>1, <2>2, <2>3 DEF TypeOK
<1>3. Lifecycle' /\ StackMirrorsCalls' /\ QueueHoldsMonitored' /\ TreeOfContexts' /\ NoColdLeaf'
  BY DEF HcctDump, Lifecycle, StackMirrorsCalls, QueueHoldsMonitored, TreeOfContexts, NoColdLeaf
<1>4. QED
  BY <1>2, <1>3 DEF IInv

-----------------------------------------------------------------------------
(* The invariant is inductive: hcct_enter.                                 *)

\* What an enter event finds: the stack of the active calls.
LEMMA CallFacts ==
  ASSUME IInv, root # Null, NEW c \in Calls, CallMade(c)
  PROVE  /\ stackIdx = Len(aux_frames) /\ stackIdx \in Nat
         /\ stackIdx + 1 \in 0 .. StackMaxDepth - 1
         /\ aux_frames' = Append(aux_frames, c)
         /\ aux_frames' \in Contexts /\ Len(aux_frames') = stackIdx + 1
         /\ SubSeq(aux_frames', 1, stackIdx + 1) = aux_frames'
         /\ \A i \in 0 .. stackIdx : /\ SubSeq(aux_frames', 1, i) = SubSeq(aux_frames, 1, i)
                                     /\ Len(SubSeq(aux_frames, 1, i)) = i
         /\ stack[stackIdx] \in live /\ aux_ctx[stack[stackIdx]] = aux_frames
<1>1. aux_frames \in Seq(Calls) /\ Len(aux_frames) \in Nat
  BY ContextIsSeq, LenProperties DEF IInv, TypeOK, HistoryTypeOK
<1>2. stackIdx = Len(aux_frames)
  BY DEF IInv, StackMirrorsCalls
<1>3. stackIdx + 1 \in 0 .. StackMaxDepth - 1
  BY <1>1, <1>2, ConstantsAssumption DEF CallMade
<1>4. aux_frames' = Append(aux_frames, c)
  BY DEF CallMade
<1>5. /\ aux_frames' \in Seq(Calls) /\ Len(aux_frames') = stackIdx + 1
      /\ SubSeq(aux_frames', 1, stackIdx + 1) = aux_frames'
      /\ \A i \in 0 .. stackIdx : SubSeq(aux_frames', 1, i) = SubSeq(aux_frames, 1, i)
  BY <1>1, <1>2, <1>4, CallAppended
<1>6. aux_frames' \in Contexts
  BY <1>3, <1>5, ConstantsAssumption, ContextIsSeq
<1>7. stackIdx \in 0 .. stackIdx
  BY <1>1, <1>2
<1>8. stack[stackIdx] \in live /\ aux_ctx[stack[stackIdx]] = aux_frames
  BY <1>1, <1>2, <1>7, SubSeqFull DEF IInv, StackMirrorsCalls
<1>9. \A i \in 0 .. stackIdx : Len(SubSeq(aux_frames, 1, i)) = i
  BY <1>1, <1>2, PrefixProperties
<1>10. QED
  BY <1>1, <1>2, <1>3, <1>4, <1>5, <1>6, <1>8, <1>9

\* What an enter event does to the history.
LEMMA CallTypes ==
  ASSUME IInv, root # Null, NEW c \in Calls, CallMade(c), NEW n \in Blocks, Push(n),
         aux_ctx' \in [Blocks -> Contexts]
  PROVE  StackTypeOK' /\ HistoryTypeOK'
<1>1. StackTypeOK /\ HistoryTypeOK
  BY DEF IInv, TypeOK
<1>2. stackIdx + 1 \in 0 .. StackMaxDepth - 1 /\ aux_frames' \in Contexts
  BY CallFacts
<1>3. StackTypeOK'
  BY <1>1, <1>2, ConstantsAssumption DEF StackTypeOK, Push
<1>4. HistoryTypeOK'
  BY <1>1, <1>2 DEF HistoryTypeOK, CallMade
<1>5. QED
  BY <1>3, <1>4

\* Pushing the node of the new context keeps the stack in step with the calls,
\* as long as the nodes below it stay in the tree.
LEMMA PushMirrors ==
  ASSUME IInv, root # Null, NEW c \in Calls, CallMade(c), NEW n \in Blocks, Push(n),
         n \in live', aux_ctx'[n] = aux_frames', parent'[n] = stack[stackIdx],
         \A i \in 0 .. stackIdx : /\ stack[i] \in live'
                                  /\ aux_ctx'[stack[i]] = aux_ctx[stack[i]]
                                  /\ parent'[stack[i]] = parent[stack[i]]
  PROVE  StackMirrorsCalls'
<1>1. /\ stackIdx \in Nat /\ stackIdx + 1 \in 0 .. StackMaxDepth - 1
      /\ Len(aux_frames') = stackIdx + 1
      /\ SubSeq(aux_frames', 1, stackIdx + 1) = aux_frames'
      /\ \A i \in 0 .. stackIdx : SubSeq(aux_frames', 1, i) = SubSeq(aux_frames, 1, i)
  BY CallFacts
<1>2. stackIdx' = stackIdx + 1 /\ stackIdx' = Len(aux_frames')
  BY <1>1 DEF Push
<1>3. /\ stack'[stackIdx + 1] = n
      /\ \A i \in 0 .. stackIdx : i \in 0 .. StackMaxDepth - 1 /\ stack'[i] = stack[i]
  BY <1>1, ConstantsAssumption DEF IInv, TypeOK, StackTypeOK, Push
<1>4. ASSUME NEW i \in 0 .. stackIdx'
      PROVE  /\ stack'[i] \in live'
             /\ aux_ctx'[stack'[i]] = SubSeq(aux_frames', 1, i)
             /\ i > 0 => parent'[stack'[i]] = stack'[i - 1]
  <2>1. CASE i = stackIdx + 1
    <3>1. i - 1 = stackIdx /\ stackIdx \in 0 .. stackIdx
      BY <1>1, <2>1
    <3>2. stack'[i] = n /\ stack'[i - 1] = stack[stackIdx]
      BY <1>3, <2>1, <3>1
    <3>3. QED
      BY <1>1, <2>1, <3>2
  <2>2. CASE i # stackIdx + 1
    <3>1. i \in 0 .. stackIdx /\ (i > 0 => i - 1 \in 0 .. stackIdx)
      BY <1>1, <1>2, <2>2
    <3>2. /\ aux_ctx[stack[i]] = SubSeq(aux_frames, 1, i)
          /\ i > 0 => parent[stack[i]] = stack[i - 1]
      BY <3>1 DEF IInv, StackMirrorsCalls
    <3>3. QED
      BY <1>1, <1>3, <3>1, <3>2
  <2>3. QED
    BY <2>1, <2>2
<1>5. QED
  BY <1>2, <1>4 DEF StackMirrorsCalls

\* A call of a monitored context only counts.
LEMMA EnterHotPreserves ==
  ASSUME IInv, NEW c \in Calls, EnterHot(c)
  PROVE  IInv'
<1>1. root # Null /\ CallMade(c)
  BY DEF EnterHot
<1> DEFINE p == stack[stackIdx]
<1>2. PICK n \in Lookup(p, c) \cap monitored :
         Push(n) /\ counter' = [counter EXCEPT ![n] = @ + 1]
  BY DEF EnterHot
<1>3. /\ UNCHANGED queueVars
      /\ UNCHANGED <<root, live, parent, callOf, monitored, aux_ctx>>
  BY DEF EnterHot
<1>4. /\ p \in live /\ aux_ctx[p] = aux_frames /\ aux_frames' = Append(aux_frames, c)
  BY <1>1, CallFacts
<1>5. TreeTypeOK /\ QueueTypeOK /\ HistoryTypeOK
  BY DEF IInv, TypeOK
<1>6. n \in live /\ n \in Blocks /\ parent[n] = p /\ callOf[n] = c
  BY <1>5 DEF Lookup, Children, TreeTypeOK
<1>7. n # root
  BY <1>1, <1>4, <1>5, <1>6, ConstantsAssumption DEF IInv, TreeOfContexts, TreeTypeOK
<1>8. aux_ctx[n] = aux_frames'
  BY <1>1, <1>4, <1>6, <1>7 DEF IInv, TreeOfContexts
<1>9. TypeOK'
  <2>1. TreeTypeOK'
    BY <1>2, <1>3, <1>5, <1>6 DEF TreeTypeOK
  <2>2. QueueTypeOK'
    BY <1>3, <1>5 DEF QueueTypeOK, queueVars
  <2>3. StackTypeOK' /\ HistoryTypeOK'
    BY <1>1, <1>2, <1>3, <1>5, <1>6, CallTypes DEF HistoryTypeOK
  <2>4. QED
    BY <2>1, <2>2, <2>3 DEF TypeOK
<1>10. Lifecycle'
  BY <1>1, <1>3 DEF IInv, Lifecycle, CallMade
<1>11. StackMirrorsCalls'
  <2>1. \A i \in 0 .. stackIdx : stack[i] \in live
    BY <1>1 DEF IInv, StackMirrorsCalls
  <2>2. QED
    BY <1>1, <1>2, <1>3, <1>6, <1>8, <2>1, PushMirrors
<1>12. QueueHoldsMonitored' /\ NoColdLeaf' /\ TreeOfContexts'
  BY <1>3 DEF IInv, QueueHoldsMonitored, NoColdLeaf, TreeOfContexts, Children, queueVars
<1>13. QED
  BY <1>9, <1>10, <1>11, <1>12 DEF IInv

\* Hanging the cold node n under the top of the stack gives a tree of contexts
\* again.  n is not on the stack, and no context has a second node.
LEMMA AttachFacts ==
  ASSUME IInv, root # Null, NEW c \in Calls, CallMade(c), NEW n \in Blocks,
         ColdNode(stack[stackIdx], c, n), Attach(stack[stackIdx], c, n)
  PROVE  /\ n \notin monitored /\ n # root
         /\ \A i \in 0 .. stackIdx : stack[i] # n
         /\ parent'[n] = stack[stackIdx] /\ callOf'[n] = c /\ aux_ctx'[n] = aux_frames'
         /\ \A m \in live : /\ parent'[m] = parent[m]
                            /\ aux_ctx'[m] = aux_ctx[m]
         /\ \A m \in (live \cup {n}) \ {root} : /\ parent'[m] \in (live \cup {n})
                                   /\ aux_ctx'[m] = Append(aux_ctx'[parent'[m]], callOf'[m])
         /\ \A m, k \in (live \cup {n}) : aux_ctx'[m] = aux_ctx'[k] => m = k
         /\ \A m \in (live \cup {n}) \ (monitored \cup {root, n}) : Children(m, live \cup {n}, parent') # {}
         /\ parent' \in [Blocks -> Blocks \cup {Null}]
         /\ callOf' \in [Blocks -> Calls \cup {Null}]
         /\ aux_ctx' \in [Blocks -> Contexts]
<1> DEFINE p == stack[stackIdx]
<1> DEFINE lv == live \cup {n}
<1>1. /\ stackIdx \in Nat
      /\ aux_frames' = Append(aux_frames, c) /\ aux_frames' \in Contexts
      /\ Len(aux_frames') = stackIdx + 1
      /\ \A i \in 0 .. stackIdx : Len(SubSeq(aux_frames, 1, i)) = i
      /\ p \in live /\ aux_ctx[p] = aux_frames
  BY CallFacts
<1> HIDE DEF p
<1>2. TreeTypeOK /\ HistoryTypeOK /\ TreeOfContexts /\ Null \notin Blocks
  BY ConstantsAssumption DEF IInv, TypeOK
<1>3. /\ parent' = [parent EXCEPT ![n] = p]
      /\ callOf' = [callOf EXCEPT ![n] = c]
      /\ aux_ctx' = [aux_ctx EXCEPT ![n] = aux_frames']
  BY <1>1 DEF Attach, p
<1>4. p \in Blocks /\ p # Null /\ live \subseteq Blocks
  BY <1>1, <1>2 DEF TreeTypeOK
<1>5. \/ n \in live /\ parent[n] = p /\ callOf[n] = c /\ n \notin monitored
      \/ n \notin live /\ Lookup(p, c) = {}
  <2>1. CASE n \in Lookup(p, c) \ monitored
    BY <2>1 DEF Lookup, Children
  <2>2. CASE Lookup(p, c) = {} /\ live # Blocks /\ n = NewBlock
    BY <1>4, <2>2 DEF NewBlock
  <2>3. QED
    BY <2>1, <2>2 DEF ColdNode, p
<1>6. n \notin monitored /\ n # root
  BY <1>2, <1>4, <1>5 DEF TreeTypeOK, TreeOfContexts
<1>7. n \in live => aux_ctx[n] = aux_frames'
  BY <1>1, <1>2, <1>5, <1>6 DEF TreeOfContexts
<1>8. \A i \in 0 .. stackIdx : stack[i] # n
  <2> SUFFICES ASSUME NEW i \in 0 .. stackIdx, stack[i] = n
               PROVE  FALSE
    OBVIOUS
  <2>1. n \in live /\ aux_ctx[n] = SubSeq(aux_frames, 1, i)
    BY DEF IInv, StackMirrorsCalls
  <2>2. Len(aux_frames') = i
    BY <1>1, <1>7, <2>1
  <2>3. QED
    BY <1>1, <2>2
<1>9. parent'[n] = p /\ callOf'[n] = c /\ aux_ctx'[n] = aux_frames'
  BY <1>2, <1>3 DEF TreeTypeOK, HistoryTypeOK
<1>10. \A m \in live : /\ parent'[m] = parent[m] /\ aux_ctx'[m] = aux_ctx[m]
                       /\ callOf'[m] = callOf[m]
  BY <1>2, <1>3, <1>4, <1>5, <1>7 DEF TreeTypeOK, HistoryTypeOK
<1>11. \A m \in lv \ {root} : /\ parent'[m] \in lv
                              /\ aux_ctx'[m] = Append(aux_ctx'[parent'[m]], callOf'[m])
  <2> SUFFICES ASSUME NEW m \in lv, m # root
               PROVE  /\ parent'[m] \in live
                      /\ aux_ctx'[m] = Append(aux_ctx'[parent'[m]], callOf'[m])
    OBVIOUS
  <2>1. CASE m = n
    BY <1>1, <1>9, <1>10, <2>1
  <2>2. CASE m # n
    <3>1. m \in live
      BY <2>2
    <3>2. parent[m] \in live /\ aux_ctx[m] = Append(aux_ctx[parent[m]], callOf[m])
      BY <1>2, <3>1 DEF TreeOfContexts
    <3>3. QED
      BY <1>10, <3>1, <3>2
  <2>3. QED
    BY <2>1, <2>2
<1>12. ASSUME NEW m \in live, aux_ctx[m] = aux_frames'
       PROVE  m = n
  <2>1. CASE n \in live
    BY <1>2, <1>7, <1>12, <2>1 DEF TreeOfContexts
  <2>2. CASE n \notin live
    <3>1. aux_frames \in Seq(Calls)
      BY <1>2, ContextIsSeq DEF HistoryTypeOK
    <3>2. m # root
      <4>1. aux_ctx[root] = <<>>
        BY <1>2 DEF TreeOfContexts
      <4>2. Len(<<>>) = 0 /\ Len(aux_frames') # 0
        BY <1>1
      <4>3. QED
        BY <1>12, <4>1, <4>2
    <3>3. /\ parent[m] \in live
          /\ Append(aux_frames, c) = Append(aux_ctx[parent[m]], callOf[m])
      BY <1>1, <1>2, <1>12, <3>2 DEF TreeOfContexts
    <3>4. aux_ctx[parent[m]] \in Seq(Calls)
      BY <1>2, <1>4, <3>3, ContextIsSeq DEF HistoryTypeOK
    <3>5. aux_ctx[parent[m]] = aux_frames /\ callOf[m] = c
      BY <3>1, <3>3, <3>4, CallAppendedInjective
    <3>6. parent[m] = p
      BY <1>1, <1>2, <3>3, <3>5 DEF TreeOfContexts
    <3>7. m \in Lookup(p, c)
      BY <3>5, <3>6 DEF Lookup, Children
    <3>8. QED
      BY <1>5, <2>2, <3>7
  <2>3. QED
    BY <2>1, <2>2
<1>13. \A m, k \in lv : aux_ctx'[m] = aux_ctx'[k] => m = k
  <2> SUFFICES ASSUME NEW m \in lv, NEW k \in lv, aux_ctx'[m] = aux_ctx'[k]
               PROVE  m = k
    OBVIOUS
  <2>1. CASE m \in live /\ k \in live
    BY <1>2, <1>10, <2>1 DEF TreeOfContexts
  <2>2. CASE m = n \/ k = n
    BY <1>9, <1>10, <1>12, <2>2
  <2>3. QED
    BY <2>1, <2>2
<1>14. \A m \in lv \ (monitored \cup {root, n}) : Children(m, lv, parent') # {}
  <2> SUFFICES ASSUME NEW m \in live, m \notin monitored, m # root
               PROVE  Children(m, lv, parent') # {}
    OBVIOUS
  <2>1. PICK k \in live : parent[k] = m
    BY DEF IInv, NoColdLeaf, Children
  <2>2. parent'[k] = m
    BY <1>10, <2>1
  <2>3. QED
    BY <2>2 DEF Children
<1>15. /\ parent' \in [Blocks -> Blocks \cup {Null}]
       /\ callOf' \in [Blocks -> Calls \cup {Null}]
       /\ aux_ctx' \in [Blocks -> Contexts]
  BY <1>1, <1>2, <1>3, <1>4 DEF TreeTypeOK, HistoryTypeOK
<1>16. QED
  BY <1>6, <1>8, <1>9, <1>10, <1>11, <1>13, <1>14, <1>15 DEF p

\* A call that takes a free slot of the queue.
LEMMA EnterAdmitPreserves ==
  ASSUME IInv, NEW c \in Calls, EnterAdmit(c)
  PROVE  IInv'
<1>1. root # Null /\ CallMade(c) /\ ~queueFull
  BY DEF EnterAdmit
<1> DEFINE p == stack[stackIdx]
<1>2. PICK n \in Blocks :
        /\ ColdNode(p, c, n) /\ Attach(p, c, n) /\ Push(n)
        /\ live' = live \cup {n} /\ monitored' = monitored \cup {n}
        /\ counter' = [counter EXCEPT ![n] = 1]
        /\ queue' = [queue EXCEPT ![numItems] = n]
        /\ numItems' = numItems + 1 /\ queueFull' = (numItems + 1 = Epsilon)
  BY DEF EnterAdmit
<1>3. UNCHANGED <<root, min, minIdx, secondMinIdx>>
  BY DEF EnterAdmit
<1>4. /\ n \notin monitored /\ n # root
      /\ parent'[n] = p /\ callOf'[n] = c /\ aux_ctx'[n] = aux_frames'
      /\ \A m \in live : parent'[m] = parent[m] /\ aux_ctx'[m] = aux_ctx[m]
      /\ \A m \in live' \ {root} :
            parent'[m] \in live' /\ aux_ctx'[m] = Append(aux_ctx'[parent'[m]], callOf'[m])
      /\ \A m, k \in live' : aux_ctx'[m] = aux_ctx'[k] => m = k
      /\ \A m \in live' \ (monitored \cup {root, n}) : Children(m, live', parent') # {}
      /\ parent' \in [Blocks -> Blocks \cup {Null}]
      /\ callOf' \in [Blocks -> Calls \cup {Null}]
      /\ aux_ctx' \in [Blocks -> Contexts]
  <2> DEFINE lv == live \cup {n}
  <2>1. live' = lv
    BY <1>2
  <2>2. /\ n \notin monitored /\ n # root
        /\ parent'[n] = p /\ callOf'[n] = c /\ aux_ctx'[n] = aux_frames'
        /\ \A m \in live : parent'[m] = parent[m] /\ aux_ctx'[m] = aux_ctx[m]
        /\ \A m \in lv \ {root} :
              parent'[m] \in lv /\ aux_ctx'[m] = Append(aux_ctx'[parent'[m]], callOf'[m])
        /\ \A m, k \in lv : aux_ctx'[m] = aux_ctx'[k] => m = k
        /\ \A m \in lv \ (monitored \cup {root, n}) : Children(m, lv, parent') # {}
        /\ parent' \in [Blocks -> Blocks \cup {Null}]
        /\ callOf' \in [Blocks -> Calls \cup {Null}]
        /\ aux_ctx' \in [Blocks -> Contexts]
    BY <1>1, <1>2, AttachFacts
  <2> HIDE DEF lv
  <2>3. QED
    BY <2>1, <2>2
<1>5. TreeTypeOK /\ QueueTypeOK
  BY DEF IInv, TypeOK
<1>6. /\ numItems \in Slots /\ numItems + 1 \in 1 .. Epsilon /\ numItems \in Nat
      /\ monitored = {queue[i] : i \in 0 .. numItems - 1}
      /\ \A i, j \in 0 .. numItems - 1 : queue[i] = queue[j] => i = j
  <2>1. /\ numItems \in 1 .. Epsilon
        /\ queueFull = (numItems = Epsilon)
        /\ monitored = {queue[i] : i \in 0 .. numItems - 1}
        /\ \A i, j \in 0 .. numItems - 1 : queue[i] = queue[j] => i = j
    BY <1>1 DEF IInv, QueueHoldsMonitored
  <2>2. numItems # Epsilon
    BY <1>1, <2>1
  <2>3. QED
    BY <2>1, <2>2, ConstantsAssumption DEF Slots
<1>7. TypeOK'
  <2>1. TreeTypeOK'
    BY <1>2, <1>3, <1>4, <1>5 DEF TreeTypeOK
  <2>2. QueueTypeOK'
    <3>1. queue' \in [Slots -> Blocks \cup {Null}]
      BY <1>2, <1>5, <1>6 DEF QueueTypeOK
    <3>2. QED
      BY <1>2, <1>3, <1>5, <1>6, <3>1 DEF QueueTypeOK
  <2>3. StackTypeOK' /\ HistoryTypeOK'
    BY <1>1, <1>2, <1>4, CallTypes
  <2>4. QED
    BY <2>1, <2>2, <2>3 DEF TypeOK
<1>8. Lifecycle'
  BY <1>1, <1>3 DEF IInv, Lifecycle, CallMade
<1>9. StackMirrorsCalls'
  <2>1. \A i \in 0 .. stackIdx : stack[i] \in live
    BY <1>1 DEF IInv, StackMirrorsCalls
  <2>2. QED
    BY <1>1, <1>2, <1>4, <2>1, PushMirrors
<1>10. QueueHoldsMonitored'
  <2>1. \A i \in 0 .. numItems - 1 : i \in Slots /\ i # numItems /\ queue'[i] = queue[i]
    <3>1. \A i \in 0 .. numItems - 1 : i \in Slots /\ i # numItems
      BY <1>6, ConstantsAssumption DEF Slots
    <3>2. DOMAIN queue = Slots
      BY <1>5 DEF QueueTypeOK
    <3>3. QED
      BY <1>2, <3>1, <3>2
  <2>2. queue'[numItems] = n
    BY <1>2, <1>5, <1>6 DEF QueueTypeOK
  <2>3. 0 .. numItems' - 1 = (0 .. numItems - 1) \cup {numItems}
    BY <1>2, <1>6
  <2>4. monitored' = {queue'[i] : i \in 0 .. numItems' - 1}
    BY <1>2, <1>6, <2>1, <2>2, <2>3
  <2>5. \A i, j \in 0 .. numItems' - 1 : queue'[i] = queue'[j] => i = j
    BY <1>4, <1>6, <2>1, <2>2, <2>3
  <2>6. QED
    BY <1>2, <1>6, <2>4, <2>5 DEF QueueHoldsMonitored
<1>11. NoColdLeaf'
  BY <1>2, <1>3, <1>4 DEF NoColdLeaf
<1>12. TreeOfContexts'
  <2>1. root' \in live' /\ parent'[root'] = Null /\ aux_ctx'[root'] = <<>>
    BY <1>1, <1>2, <1>3, <1>4 DEF IInv, TreeOfContexts
  <2>2. QED
    BY <1>3, <1>4, <2>1 DEF TreeOfContexts
<1>13. QED
  BY <1>7, <1>8, <1>9, <1>10, <1>11, <1>12 DEF IInv

\* A call that takes the slot of a victim, which is pruned.
LEMMA EnterEvictPreserves ==
  ASSUME IInv, NEW c \in Calls, EnterEvict(c)
  PROVE  IInv'
<1>1. root # Null /\ CallMade(c) /\ queueFull /\ FindVictim
      /\ UNCHANGED <<root, numItems, queueFull>>
  BY DEF EnterEvict
<1> DEFINE p == stack[stackIdx]
           victim == queue[minIdx']
<1>2. PICK n \in Blocks :
        /\ ColdNode(p, c, n) /\ Attach(p, c, n) /\ Push(n)
        /\ counter' = [counter EXCEPT ![n] = min' + 1]
        /\ monitored' = (monitored \cup {n}) \ {victim}
        /\ live' = (live \cup {n}) \ Pruned(victim, root, live \cup {n}, parent',
                                            (monitored \cup {n}) \ {victim})
        /\ queue' = [queue EXCEPT ![minIdx'] = n]
  BY DEF EnterEvict, TakeSlot
<1> DEFINE lv == live \cup {n}
           mon == (monitored \cup {n}) \ {victim}
<1>3. TreeTypeOK /\ QueueTypeOK /\ HistoryTypeOK
  BY DEF IInv, TypeOK
<1>4. /\ numItems = Epsilon /\ Epsilon - 1 \in Nat
      /\ Slots = 0 .. numItems - 1
      /\ monitored = {queue[i] : i \in Slots}
      /\ \A i, j \in Slots : queue[i] = queue[j] => i = j
  <2>1. /\ queueFull = (numItems = Epsilon)
        /\ monitored = {queue[i] : i \in 0 .. numItems - 1}
        /\ \A i, j \in 0 .. numItems - 1 : queue[i] = queue[j] => i = j
    BY <1>1 DEF IInv, QueueHoldsMonitored
  <2>2. numItems = Epsilon
    BY <1>1, <2>1
  <2>3. QED
    BY <2>1, <2>2, ConstantsAssumption DEF Slots
<1>5. minIdx' \in Slots /\ min' \in Nat /\ secondMinIdx' \in Slots
  <2>1. \A i \in Slots : queue[i] \in Blocks
    BY <1>3, <1>4 DEF TreeTypeOK
  <2>2. QED
    BY <1>1, <1>3, <2>1, VictimFacts
<1>6. /\ n \notin monitored /\ n # root
      /\ parent'[n] = p /\ callOf'[n] = c /\ aux_ctx'[n] = aux_frames'
      /\ \A m \in live : parent'[m] = parent[m] /\ aux_ctx'[m] = aux_ctx[m]
      /\ \A m \in lv \ {root} :
            parent'[m] \in lv /\ aux_ctx'[m] = Append(aux_ctx'[parent'[m]], callOf'[m])
      /\ \A m, k \in lv : aux_ctx'[m] = aux_ctx'[k] => m = k
      /\ \A m \in lv \ (monitored \cup {root, n}) : Children(m, lv, parent') # {}
      /\ parent' \in [Blocks -> Blocks \cup {Null}]
      /\ callOf' \in [Blocks -> Calls \cup {Null}]
      /\ aux_ctx' \in [Blocks -> Contexts]
  BY <1>1, <1>2, AttachFacts
<1>7. victim \in monitored /\ victim # n /\ victim \in lv \ mon
  BY <1>3, <1>4, <1>5, <1>6 DEF TreeTypeOK
<1>8. mon \in SUBSET lv /\ n \in mon /\ n \in lv /\ monitored \subseteq mon \cup {victim}
  BY <1>3, <1>7 DEF TreeTypeOK
<1>9. live' = lv \ Pruned(victim, root, lv, parent', mon) /\ monitored' = mon
  BY <1>2
<1>10. root \in lv /\ lv \subseteq Blocks
  BY <1>1, <1>3 DEF TreeTypeOK, IInv, TreeOfContexts
<1> HIDE DEF p, victim, lv, mon
<1>11. /\ live' \subseteq lv /\ mon \subseteq live' /\ root \in live'
       /\ \A m \in live' \ {root} : parent'[m] \in live'
       /\ \A m \in live' \ (mon \cup {root}) : Children(m, live', parent') # {}
  <2>1. IsTree(root, lv, parent')
    BY <1>6, <1>10 DEF IsTree
  <2>2. WithoutColdLeaf(root, lv, parent', mon \cup {victim})
    BY <1>6, <1>8 DEF WithoutColdLeaf
  <2>3. mon \subseteq live' /\ IsTree(root, live', parent')
        /\ WithoutColdLeaf(root, live', parent', mon)
    BY <1>7, <1>8, <1>9, <2>1, <2>2, PruneCompletes
  <2>4. QED
    BY <1>9, <2>3 DEF IsTree, WithoutColdLeaf
<1>12. \A i \in 0 .. stackIdx : stack[i] \in live'
  <2> DEFINE K == {stack[i] : i \in 0 .. stackIdx} \cup {n}
  <2>1. stackIdx \in Nat /\ \A i \in 0 .. stackIdx : stack[i] \in live
    BY <1>1, CallFacts DEF IInv, StackMirrorsCalls
  <2>2. \A i \in 0 .. stackIdx : stack[i] \in lv
    BY <2>1 DEF lv
  <2>3. \A i \in 0 .. stackIdx : K \cap Children(stack[i], lv, parent') # {}
    <3> SUFFICES ASSUME NEW i \in 0 .. stackIdx
                 PROVE  \E k \in K : k \in lv /\ parent'[k] = stack[i]
      BY DEF Children
    <3>1. CASE i = stackIdx
      BY <1>6, <1>8, <3>1 DEF p
    <3>2. CASE i # stackIdx
      <4>1. i + 1 \in 0 .. stackIdx /\ i + 1 > 0 /\ (i + 1) - 1 = i
        BY <2>1, <3>2
      <4>2. stack[i + 1] \in live /\ parent[stack[i + 1]] = stack[(i + 1) - 1]
        BY <1>1, <4>1 DEF IInv, StackMirrorsCalls
      <4>3. parent'[stack[i + 1]] = stack[i]
        BY <1>6, <4>1, <4>2
      <4>4. QED
        BY <2>2, <4>1, <4>3
    <3>3. QED
      BY <3>1, <3>2
  <2>4. K \in SUBSET lv /\ \A k \in K : k \in mon \cup {root} \/ K \cap Children(k, lv, parent') # {}
    BY <1>8, <2>2, <2>3
  <2> HIDE DEF K
  <2>5. K \cap Pruned(victim, root, lv, parent', mon) = {}
    BY <1>7, <2>4, PruneKeeps
  <2>6. \A i \in 0 .. stackIdx : stack[i] \in K
    BY DEF K
  <2> DEFINE P == Pruned(victim, root, lv, parent', mon)
  <2>7. live' = lv \ P /\ K \cap P = {}
    BY <1>9, <2>5
  <2> HIDE DEF P
  <2>8. QED
    BY <2>2, <2>6, <2>7
<1>13. TypeOK'
  <2>1. counter' \in [Blocks -> Nat]
    <3> DEFINE w == min' + 1
    <3>1. counter' = [counter EXCEPT ![n] = w]
      BY <1>2
    <3>2. counter \in [Blocks -> Nat]
      BY <1>3 DEF TreeTypeOK
    <3>3. min' \in Nat /\ \A k \in Nat : k + 1 \in Nat
      BY <1>5
    <3>4. w \in Nat
      BY <3>3, Zenon
    <3> HIDE DEF w
    <3>5. QED
      BY <3>1, <3>2, <3>4
  <2>2. TreeTypeOK'
    BY <1>1, <1>3, <1>6, <1>9, <1>10, <1>11, <2>1 DEF TreeTypeOK
  <2>3. queue' \in [Slots -> Blocks \cup {Null}]
    BY <1>2, <1>3 DEF QueueTypeOK
  <2>4. QueueTypeOK'
    BY <1>1, <1>3, <1>5, <2>3 DEF QueueTypeOK
  <2>5. StackTypeOK' /\ HistoryTypeOK'
    BY <1>1, <1>2, <1>6, CallTypes
  <2>6. QED
    BY <2>2, <2>4, <2>5 DEF TypeOK
<1>14. Lifecycle'
  BY <1>1 DEF IInv, Lifecycle, CallMade
<1>15. StackMirrorsCalls'
  <2>1. \A i \in 0 .. stackIdx : stack[i] \in live
    BY <1>1 DEF IInv, StackMirrorsCalls
  <2>2. n \in live'
    BY <1>8, <1>11
  <2>3. QED
    BY <1>1, <1>2, <1>6, <1>12, <2>1, <2>2, PushMirrors DEF p
<1>16. QueueHoldsMonitored'
  <2>1. queue'[minIdx'] = n /\ \A i \in Slots : i # minIdx' => queue'[i] = queue[i]
    BY <1>2, <1>3, <1>5 DEF QueueTypeOK
  <2>2. \A i \in Slots : i # minIdx' => queue[i] # victim /\ queue[i] \in monitored
    BY <1>4, <1>5 DEF victim
  <2>3. monitored' = {queue'[i] : i \in Slots}
    <3>1. ASSUME NEW m \in monitored'
          PROVE  \E i \in Slots : queue'[i] = m
      <4>1. CASE m = n
        BY <1>5, <2>1, <4>1
      <4>2. CASE m # n
        <5>1. PICK i \in Slots : queue[i] = m /\ m # victim
          BY <1>4, <1>9, <3>1, <4>2 DEF mon
        <5>2. i # minIdx'
          BY <5>1 DEF victim
        <5>3. QED
          BY <2>1, <5>1, <5>2
      <4>3. QED
        BY <4>1, <4>2
    <3>2. ASSUME NEW i \in Slots
          PROVE  queue'[i] \in monitored'
      BY <1>8, <1>9, <2>1, <2>2 DEF mon
    <3>3. QED
      BY <3>1, <3>2
  <2>4. \A i, j \in Slots : queue'[i] = queue'[j] => i = j
    BY <1>4, <1>6, <2>1, <2>2
  <2>5. numItems' = Epsilon /\ numItems' \in 1 .. Epsilon /\ queueFull' = TRUE
        /\ Slots = 0 .. numItems' - 1
    BY <1>1, <1>3, <1>4, ConstantsAssumption DEF QueueTypeOK
  <2>6. QED
    BY <2>3, <2>4, <2>5 DEF QueueHoldsMonitored
<1>17. NoColdLeaf'
  BY <1>1, <1>9, <1>11 DEF NoColdLeaf
<1>18. TreeOfContexts'
  <2>1. root \in live /\ parent[root] = Null /\ aux_ctx[root] = <<>>
    BY <1>1 DEF IInv, TreeOfContexts
  <2>2. root' \in live' /\ parent'[root'] = Null /\ aux_ctx'[root'] = <<>>
    BY <1>1, <1>6, <1>11, <2>1
  <2>3. \A m \in live' \ {root'} :
            parent'[m] \in live' /\ aux_ctx'[m] = Append(aux_ctx'[parent'[m]], callOf'[m])
    BY <1>1, <1>6, <1>11
  <2>4. QED
    BY <1>6, <1>11, <2>2, <2>3 DEF TreeOfContexts
<1>19. QED
  BY <1>13, <1>14, <1>15, <1>16, <1>17, <1>18 DEF IInv

-----------------------------------------------------------------------------
(* The theorems.                                                           *)

\* Every step preserves the invariant.
LEMMA StepPreserves ==
  ASSUME ~EventsOutsideTrace, Epsilon # 1, IInv, [Next]_vars
  PROVE  IInv'
<1>1. CASE HcctInit
  BY <1>1, InitPreserves
<1>2. CASE HcctExit
  BY <1>2, ExitPreserves
<1>3. CASE HcctDump
  BY <1>3, DumpPreserves
<1>4. ASSUME NEW c \in Calls, HcctEnter(c)
      PROVE  IInv'
  <2>1. CASE EnterHot(c)
    BY <2>1, EnterHotPreserves
  <2>2. CASE EnterAdmit(c)
    BY <2>2, EnterAdmitPreserves
  <2>3. CASE EnterEvict(c)
    BY <2>3, EnterEvictPreserves
  <2>4. CASE EnterUninitialised(c)
    BY <2>4 DEF EnterUninitialised
  <2>5. QED
    BY <1>4, <2>1, <2>2, <2>3, <2>4 DEF HcctEnter
<1>5. CASE UNCHANGED vars
  <2>1. UNCHANGED treeVars /\ UNCHANGED stackVars /\ UNCHANGED queueVars /\ UNCHANGED auxVars
    BY <1>5 DEF vars
  <2>2. TypeOK'
    BY <2>1 DEF IInv, TypeOK, TreeTypeOK, StackTypeOK, QueueTypeOK, HistoryTypeOK,
                treeVars, stackVars, queueVars, auxVars
  <2>3. Lifecycle' /\ StackMirrorsCalls'
    BY <2>1 DEF IInv, Lifecycle, StackMirrorsCalls, treeVars, stackVars, auxVars
  <2>4. QueueHoldsMonitored' /\ NoColdLeaf' /\ TreeOfContexts'
    BY <2>1 DEF IInv, QueueHoldsMonitored, NoColdLeaf, TreeOfContexts, Children,
                treeVars, queueVars, auxVars
  <2>5. QED
    BY <2>2, <2>3, <2>4 DEF IInv
<1>6. QED
  BY <1>1, <1>2, <1>3, <1>4, <1>5 DEF Next

\* For every number of counters but 1 and any trace whose events lie between
\* trace_begin and trace_end, every reachable state satisfies the invariant.
THEOREM Invariance ==
  ASSUME ~EventsOutsideTrace, Epsilon # 1
  PROVE  Spec => []IInv
<1>1. Init => IInv
  BY InitEstablishes
<1>2. IInv /\ [Next]_vars => IInv'
  BY StepPreserves
<1>3. QED
  BY <1>1, <1>2, PTL DEF Spec

\* Every variable of the profiler keeps to its type: above all, the queue is
\* written inside its bounds and its minimum is one of its slots.
THEOREM TypeCorrectness ==
  ASSUME ~EventsOutsideTrace, Epsilon # 1
  PROVE  Spec => []TypeOK
<1>1. IInv => TypeOK
  BY DEF IInv
<1>2. QED
  BY <1>1, Invariance, PTL

\* hcct_enter never prunes or reuses a node on the stack, so hcct_exit and the
\* next hcct_enter work on the node of the context that is really active.
THEOREM StackIsSound ==
  ASSUME ~EventsOutsideTrace, Epsilon # 1
  PROVE  Spec => []StackMirrorsCalls
<1>1. IInv => StackMirrorsCalls
  BY DEF IInv
<1>2. QED
  BY <1>1, Invariance, PTL

\* The queue and the additional_info flags of the tree never disagree, so
\* pruning leaves no slot of the queue dangling.
THEOREM QueueIsSound ==
  ASSUME ~EventsOutsideTrace, Epsilon # 1
  PROVE  Spec => []QueueHoldsMonitored
<1>1. IInv => QueueHoldsMonitored
  BY DEF IInv
<1>2. QED
  BY <1>1, Invariance, PTL

\* prune and hcct_enter keep a tree with one node per calling context.
THEOREM TreeIsSound ==
  ASSUME ~EventsOutsideTrace, Epsilon # 1
  PROVE  Spec => []TreeOfContexts
<1>1. IInv => TreeOfContexts
  BY DEF IInv
<1>2. QED
  BY <1>1, Invariance, PTL

\* prune keeps no cold node that leads nowhere: the memory of the tree is
\* bounded by the contexts above the Epsilon monitored ones.
THEOREM PruningIsComplete ==
  ASSUME ~EventsOutsideTrace, Epsilon # 1
  PROVE  Spec => []NoColdLeaf
<1>1. IInv => NoColdLeaf
  BY DEF IInv
<1>2. QED
  BY <1>1, Invariance, PTL

-----------------------------------------------------------------------------
(* Space Saving: sums over the slots.                                      *)

\* The sum of w over the slots is at most b.  A witness of it is P[i], the sum
\* of w over the slots below i.
SumsTo(P, w) ==
  /\ P \in [0 .. Epsilon -> Nat]
  /\ P[0] = 0
  /\ \A i \in Slots : P[i + 1] = P[i] + w[i]

SumWithin(w, b) == \E P : SumsTo(P, w) /\ P[Epsilon] <= b

\* When one slot grows by 1, the sum grows by 1.
LEMMA SumGrows ==
  ASSUME NEW w \in [Slots -> Nat], NEW v \in [Slots -> Nat], NEW b \in Nat, NEW k \in Slots,
         SumWithin(w, b), v[k] = w[k] + 1, \A i \in Slots : i # k => v[i] = w[i]
  PROVE  SumWithin(v, b + 1)
<1>1. PICK P : SumsTo(P, w) /\ P[Epsilon] <= b
  BY DEF SumWithin
<1>2. /\ P \in [0 .. Epsilon -> Nat] /\ P[0] = 0
      /\ \A i \in Slots : P[i + 1] = P[i] + w[i]
  BY <1>1 DEF SumsTo
<1>3. Epsilon \in Nat \ {0} /\ Slots = 0 .. Epsilon - 1 /\ k \in 0 .. Epsilon - 1
  BY ConstantsAssumption DEF Slots
<1> DEFINE Q == [i \in 0 .. Epsilon |-> IF i <= k THEN P[i] ELSE P[i] + 1]
<1>4. Q \in [0 .. Epsilon -> Nat]
  BY <1>2
<1>5. Q[0] = 0 /\ Q[Epsilon] = P[Epsilon] + 1
  BY <1>2, <1>3
<1>6. ASSUME NEW i \in Slots
      PROVE  Q[i + 1] = Q[i] + v[i]
  <2>1. i \in 0 .. Epsilon /\ i + 1 \in 0 .. Epsilon /\ i \in Nat
    BY <1>3
  <2>2. P[i] \in Nat /\ P[i + 1] = P[i] + w[i] /\ w[i] \in Nat
    BY <1>2, <2>1
  <2>3. Q[i] = (IF i <= k THEN P[i] ELSE P[i] + 1)
    BY <2>1
  <2>4. Q[i + 1] = (IF i + 1 <= k THEN P[i + 1] ELSE P[i + 1] + 1)
    BY <2>1
  <2> HIDE DEF Q
  <2>5. CASE i = k
    BY <1>3, <2>1, <2>2, <2>3, <2>4, <2>5
  <2>6. CASE i < k
    BY <1>3, <2>1, <2>2, <2>3, <2>4, <2>6
  <2>7. CASE i > k
    BY <1>3, <2>1, <2>2, <2>3, <2>4, <2>7
  <2>8. QED
    BY <1>3, <2>1, <2>5, <2>6, <2>7
<1> HIDE DEF Q
<1>7. SumsTo(Q, v)
  BY <1>4, <1>5, <1>6 DEF SumsTo
<1>8. Q[Epsilon] <= b + 1
  <2>1. P[Epsilon] \in Nat
    BY <1>2, <1>3
  <2>2. QED
    BY <1>1, <1>5, <2>1
<1>9. QED
  BY <1>7, <1>8 DEF SumWithin

\* The sum is at least Epsilon times the smallest slot: there is no first
\* index below which the slots hold less.
LEMMA SumOfLeast ==
  ASSUME NEW w \in [Slots -> Nat], NEW b \in Nat, NEW m \in Nat,
         SumWithin(w, b), \A i \in Slots : m <= w[i]
  PROVE  m * Epsilon <= b
<1>1. PICK P : SumsTo(P, w) /\ P[Epsilon] <= b
  BY DEF SumWithin
<1>2. /\ P \in [0 .. Epsilon -> Nat] /\ P[0] = 0
      /\ \A i \in Slots : P[i + 1] = P[i] + w[i]
  BY <1>1 DEF SumsTo
<1>3. Epsilon \in Nat \ {0} /\ Slots = 0 .. Epsilon - 1
  BY ConstantsAssumption DEF Slots
<1> DEFINE S == {i \in 0 .. Epsilon : ~ (m * i <= P[i])}
<1>4. S = {}
  <2> SUFFICES ASSUME S # {} PROVE FALSE
    OBVIOUS
  <2>1. S \in SUBSET Nat
    OBVIOUS
  <2> HIDE DEF S
  <2>2. PICK i \in S : \A j \in S : i <= j
    BY <2>1, NatHasLeast
  <2>3. i \in 0 .. Epsilon /\ ~ (m * i <= P[i])
    BY DEF S
  <2>4. i # 0
    BY <1>2, <2>3
  <2> DEFINE h == i - 1
  <2>5. h \in Slots /\ h \in 0 .. Epsilon /\ i = h + 1 /\ h \in Nat /\ ~ (i <= h)
    BY <1>3, <2>3, <2>4
  <2>6. h \notin S
    BY <2>2, <2>5
  <2> HIDE DEF h
  <2>7. m * h <= P[h]
    BY <2>5, <2>6 DEF S
  <2>8. P[i] = P[h] + w[h] /\ m <= w[h] /\ w[h] \in Nat /\ P[h] \in Nat
    BY <1>2, <2>5
  <2>9. m * i = m * h + m
    BY <2>5
  <2>10. m * h \in Nat
    BY <2>5
  <2>11. m * i <= P[i]
    <3> DEFINE q == m * h
    <3>1. q \in Nat /\ q <= P[h] /\ m * i = q + m
      BY <2>7, <2>9, <2>10
    <3> HIDE DEF q
    <3>2. q + m <= P[h] + w[h]
      BY <2>8, <3>1
    <3>3. QED
      BY <2>8, <3>1, <3>2
  <2>12. QED
    BY <2>3, <2>11
<1>5. m * Epsilon <= P[Epsilon]
  BY <1>3, <1>4
<1>6. P[Epsilon] \in Nat /\ m * Epsilon \in Nat
  BY <1>2, <1>3
<1>7. QED
  BY <1>1, <1>5, <1>6

-----------------------------------------------------------------------------
(* Space Saving: what an enter event does to the slots.                    *)

\* The counters of the slots; a slot that is not in use holds 0.
Held == [i \in Slots |-> IF i < numItems THEN counter[queue[i]] ELSE 0]

\* An enter event is credited to slot k, which is left to node n of the context
\* that is entered.
CreditedTo(k, n) ==
  /\ n \in monitored' /\ aux_ctx'[n] = aux_frames' /\ counter'[n] = Held[k] + 1
  /\ Held' \in [Slots -> Nat] /\ Held'[k] = Held[k] + 1
  /\ \A i \in Slots : i # k => Held'[i] = Held[i]
  /\ \A m \in monitored' : m # n => /\ m \in monitored /\ aux_ctx'[m] = aux_ctx[m]
                                    /\ counter'[m] = counter[m]
                                    /\ aux_ctx[m] # aux_frames'

\* The slots before the event.
LEMMA SlotFacts ==
  ASSUME IInv, root # Null
  PROVE  /\ Held \in [Slots -> Nat]
         /\ numItems \in 1 .. Epsilon /\ queueFull = (numItems = Epsilon)
         /\ \A i \in Slots : i < numItems => /\ queue[i] \in monitored
                                             /\ Held[i] = counter[queue[i]]
                                             /\ Held[i] = QCount(i)
         /\ \A i \in Slots : ~ (i < numItems) => Held[i] = 0
         /\ \A i, j \in Slots : (i < numItems /\ j < numItems /\ queue[i] = queue[j]) => i = j
         /\ \A n \in monitored : \E i \in Slots : i < numItems /\ queue[i] = n
         /\ monitored \subseteq Blocks /\ \A n \in monitored : counter[n] \in Nat
         /\ \A m, n \in monitored : aux_ctx[m] = aux_ctx[n] => m = n
<1>1. TreeTypeOK /\ QueueTypeOK
  BY DEF IInv, TypeOK
<1>2. /\ numItems \in 1 .. Epsilon
      /\ queueFull = (numItems = Epsilon)
      /\ monitored = {queue[i] : i \in 0 .. numItems - 1}
      /\ \A i, j \in 0 .. numItems - 1 : queue[i] = queue[j] => i = j
  BY DEF IInv, QueueHoldsMonitored
<1>3. Epsilon \in Nat \ {0} /\ Slots = 0 .. Epsilon - 1
  BY ConstantsAssumption DEF Slots
<1>4. \A i \in Slots : i < numItems <=> i \in 0 .. numItems - 1
  BY <1>2, <1>3
<1>5. \A i \in 0 .. numItems - 1 : i \in Slots /\ i < numItems
  BY <1>2, <1>3
<1>6. monitored \subseteq Blocks /\ \A n \in monitored : counter[n] \in Nat
  BY <1>1 DEF TreeTypeOK
<1>7. \A i \in Slots : i < numItems => queue[i] \in monitored
  BY <1>2, <1>4
<1>8. Held \in [Slots -> Nat]
  BY <1>6, <1>7 DEF Held
<1>9. \A m, n \in monitored : aux_ctx[m] = aux_ctx[n] => m = n
  BY <1>1 DEF IInv, TreeOfContexts, TreeTypeOK
<1>10. \A n \in monitored : \E i \in Slots : i < numItems /\ queue[i] = n
  BY <1>2, <1>5
<1>11. \A i \in Slots : /\ i < numItems => Held[i] = counter[queue[i]] /\ Held[i] = QCount(i)
                        /\ ~ (i < numItems) => Held[i] = 0
  BY DEF Held, QCount
<1>12. \A i, j \in Slots : (i < numItems /\ j < numItems /\ queue[i] = queue[j]) => i = j
  BY <1>2, <1>4
<1>13. QED
  BY <1>2, <1>6, <1>7, <1>8, <1>9, <1>10, <1>11, <1>12

\* A call of a monitored context is credited to the slot of its node.
LEMMA HotCredits ==
  ASSUME IInv, NEW c \in Calls, EnterHot(c)
  PROVE  \E k \in Slots, n \in Blocks :
            /\ CreditedTo(k, n) /\ n \in monitored /\ aux_ctx[n] = aux_frames'
            /\ counter' = [counter EXCEPT ![n] = @ + 1]
            /\ UNCHANGED <<root, monitored, aux_ctx, queueFull, min>> /\ CallMade(c)
            /\ Held[k] = counter[n]
<1>1. root # Null /\ CallMade(c)
  BY DEF EnterHot
<1> DEFINE p == stack[stackIdx]
<1>2. PICK n \in Lookup(p, c) \cap monitored :
         Push(n) /\ counter' = [counter EXCEPT ![n] = @ + 1]
  BY DEF EnterHot
<1>3. UNCHANGED <<queue, numItems, queueFull, min, root, live, monitored, aux_ctx>>
  BY DEF EnterHot, queueVars
<1>4. /\ p \in live /\ aux_ctx[p] = aux_frames /\ aux_frames' = Append(aux_frames, c)
  BY <1>1, CallFacts
<1>5. TreeTypeOK
  BY DEF IInv, TypeOK
<1>6. n \in live /\ n \in Blocks /\ parent[n] = p /\ callOf[n] = c /\ n \in monitored
  BY <1>2, <1>5 DEF Lookup, Children, TreeTypeOK
<1>7. n # root
  BY <1>1, <1>4, <1>5, <1>6, ConstantsAssumption DEF IInv, TreeOfContexts, TreeTypeOK
<1>8. aux_ctx[n] = aux_frames'
  BY <1>1, <1>4, <1>6, <1>7 DEF IInv, TreeOfContexts
<1>9. PICK k \in Slots : k < numItems /\ queue[k] = n
  BY <1>1, <1>6, SlotFacts
<1>10. counter'[n] = counter[n] + 1 /\ \A m \in monitored : m # n => counter'[m] = counter[m]
  BY <1>2, <1>5, <1>6 DEF TreeTypeOK
<1>11. Held' = [i \in Slots |-> IF i < numItems THEN counter'[queue[i]] ELSE 0]
  BY <1>3 DEF Held
<1>12. Held[k] = counter[n] /\ counter[n] \in Nat
  BY <1>1, <1>6, <1>9, SlotFacts
<1>13. Held'[k] = Held[k] + 1
  BY <1>9, <1>10, <1>11, <1>12
<1>14. ASSUME NEW i \in Slots, i # k
       PROVE  Held'[i] = Held[i]
  <2>1. CASE i < numItems
    <3>1. queue[i] \in monitored /\ queue[i] # n /\ Held[i] = counter[queue[i]]
      BY <1>1, <1>9, <1>14, <2>1, SlotFacts
    <3>2. QED
      BY <1>10, <1>11, <2>1, <3>1
  <2>2. CASE ~ (i < numItems)
    BY <1>1, <1>11, <2>2, SlotFacts
  <2>3. QED
    BY <2>1, <2>2
<1>15. Held' \in [Slots -> Nat]
  <2>1. Held \in [Slots -> Nat]
    BY <1>1, SlotFacts
  <2>2. \A i \in Slots : Held'[i] \in Nat
    BY <1>13, <1>14, <2>1
  <2>3. QED
    BY <1>11, <2>2
<1>16. \A m \in monitored' : m # n => /\ m \in monitored /\ aux_ctx'[m] = aux_ctx[m]
                                      /\ counter'[m] = counter[m]
                                      /\ aux_ctx[m] # aux_frames'
  BY <1>1, <1>3, <1>6, <1>8, <1>10, SlotFacts
<1>17. CreditedTo(k, n)
  BY <1>3, <1>6, <1>8, <1>10, <1>12, <1>13, <1>14, <1>15, <1>16 DEF CreditedTo
<1>18. QED
  BY <1>1, <1>2, <1>3, <1>6, <1>8, <1>12, <1>17

\* The node that an admitted or replacing context gets is not monitored, and no
\* monitored node stands for that context.
LEMMA NewContext ==
  ASSUME IInv, root # Null, NEW c \in Calls, CallMade(c), NEW n \in Blocks,
         ColdNode(stack[stackIdx], c, n), Attach(stack[stackIdx], c, n)
  PROVE  /\ n \notin monitored /\ aux_ctx'[n] = aux_frames'
         /\ \A m \in monitored : aux_ctx'[m] = aux_ctx[m] /\ aux_ctx[m] # aux_frames'
<1>1. monitored \subseteq live
  BY DEF IInv, TypeOK, TreeTypeOK
<1>2. /\ n \notin monitored /\ aux_ctx'[n] = aux_frames'
      /\ \A m \in live : aux_ctx'[m] = aux_ctx[m]
      /\ \A m, k \in (live \cup {n}) : aux_ctx'[m] = aux_ctx'[k] => m = k
  BY AttachFacts
<1>3. ASSUME NEW m \in monitored
      PROVE  aux_ctx'[m] = aux_ctx[m] /\ aux_ctx[m] # aux_frames'
  <2>1. m \in live /\ m # n
    BY <1>1, <1>2
  <2>2. aux_ctx'[m] # aux_ctx'[n]
    BY <1>2, <2>1
  <2>3. QED
    BY <1>2, <2>1, <2>2
<1>4. QED
  BY <1>2, <1>3

\* A context that is admitted is credited to the first free slot.
LEMMA AdmitCredits ==
  ASSUME IInv, NEW c \in Calls, EnterAdmit(c)
  PROVE  \E k \in Slots, n \in Blocks :
            /\ CreditedTo(k, n) /\ n \notin monitored
            /\ monitored' = monitored \cup {n} /\ counter' = [counter EXCEPT ![n] = 1]
            /\ \A m \in monitored : aux_ctx'[m] = aux_ctx[m] /\ aux_ctx[m] # aux_frames'
            /\ UNCHANGED <<root, min>> /\ CallMade(c) /\ ~queueFull
            /\ Held[k] = 0 /\ k = numItems
<1>1. root # Null /\ CallMade(c) /\ ~queueFull /\ UNCHANGED <<root, min>>
  BY DEF EnterAdmit
<1> DEFINE p == stack[stackIdx]
<1>2. PICK n \in Blocks :
        /\ ColdNode(p, c, n) /\ Attach(p, c, n)
        /\ monitored' = monitored \cup {n}
        /\ counter' = [counter EXCEPT ![n] = 1]
        /\ queue' = [queue EXCEPT ![numItems] = n]
        /\ numItems' = numItems + 1
  BY DEF EnterAdmit
<1>3. /\ n \notin monitored /\ aux_ctx'[n] = aux_frames'
      /\ \A m \in monitored : aux_ctx'[m] = aux_ctx[m] /\ aux_ctx[m] # aux_frames'
  BY <1>1, <1>2, NewContext
<1>4. TreeTypeOK /\ QueueTypeOK
  BY DEF IInv, TypeOK
<1>5. numItems \in Slots /\ numItems \in Nat /\ ~ (numItems < numItems)
  <2>1. numItems \in 1 .. Epsilon /\ queueFull = (numItems = Epsilon)
    BY <1>1, SlotFacts
  <2>2. numItems # Epsilon /\ Epsilon \in Nat
    BY <1>1, <2>1, ConstantsAssumption
  <2>3. QED
    BY <2>1, <2>2 DEF Slots
<1>6. Held[numItems] = 0
  BY <1>1, <1>5, SlotFacts
<1>7. counter'[n] = 1 /\ \A m \in monitored : m # n /\ counter'[m] = counter[m]
  BY <1>2, <1>3, <1>4 DEF TreeTypeOK
<1>8. queue'[numItems] = n /\ \A i \in Slots : i # numItems => queue'[i] = queue[i]
  BY <1>2, <1>4, <1>5 DEF QueueTypeOK
<1>9. Held' = [i \in Slots |-> IF i < numItems + 1 THEN counter'[queue'[i]] ELSE 0]
  BY <1>2 DEF Held
<1>10. Held'[numItems] = 1
  BY <1>5, <1>7, <1>8, <1>9
<1>11. ASSUME NEW i \in Slots, i # numItems
       PROVE  Held'[i] = Held[i]
  <2>1. i \in Nat
    BY ConstantsAssumption DEF Slots
  <2>2. CASE i < numItems
    <3>1. queue[i] \in monitored /\ Held[i] = counter[queue[i]]
      BY <1>1, <2>2, SlotFacts
    <3>2. i < numItems + 1
      BY <1>5, <2>1, <2>2
    <3>3. Held'[i] = counter'[queue'[i]]
      BY <1>9, <3>2
    <3>4. QED
      BY <1>7, <1>8, <1>11, <3>1, <3>3
  <2>3. CASE ~ (i < numItems)
    <3>1. ~ (i < numItems + 1)
      BY <1>5, <1>11, <2>1, <2>3
    <3>2. QED
      BY <1>1, <1>9, <2>3, <3>1, SlotFacts
  <2>4. QED
    BY <2>2, <2>3
<1>12. Held' \in [Slots -> Nat]
  <2>1. Held \in [Slots -> Nat]
    BY <1>1, SlotFacts
  <2>2. \A i \in Slots : Held'[i] \in Nat
    BY <1>10, <1>11, <2>1
  <2>3. QED
    BY <1>9, <2>2
<1>13. CreditedTo(numItems, n)
  <2>1. Held'[numItems] = Held[numItems] + 1 /\ counter'[n] = Held[numItems] + 1
    BY <1>6, <1>7, <1>10
  <2>2. \A m \in monitored' : m # n => m \in monitored
    BY <1>2
  <2>3. n \in monitored'
    BY <1>2
  <2>4. QED
    BY <1>3, <1>7, <1>11, <1>12, <2>1, <2>2, <2>3 DEF CreditedTo
<1>14. QED
  BY <1>1, <1>2, <1>3, <1>5, <1>6, <1>13

\* The victim that update_min finds has the smallest counter of the queue.
LEMMA VictimIsLeast ==
  ASSUME ~InlineUpdMin, IInv, root # Null, queueFull, UpdateMin,
         \A i \in Slots : min <= Held[i]
  PROVE  /\ minIdx' \in Slots /\ min' \in Nat
         /\ Held[minIdx'] = min' /\ \A i \in Slots : min' <= Held[i]
<1>1. Slots = 0 .. Epsilon - 1 /\ Epsilon \in Nat \ {0} /\ Slots \in SUBSET Nat
  BY ConstantsAssumption DEF Slots
<1>2. numItems = Epsilon
  BY SlotFacts
<1>3. \A i \in Slots : i < numItems
  BY <1>1, <1>2
<1>4. \A i \in Slots : Held[i] = QCount(i) /\ queue[i] \in monitored
  BY <1>3, SlotFacts
<1>5. minIdx' \in Slots /\ min' \in Nat
  <2>1. TreeTypeOK /\ QueueTypeOK
    BY DEF IInv, TypeOK
  <2>2. \A i \in Slots : queue[i] \in Blocks
    BY <1>4, SlotFacts
  <2>3. FindVictim
    BY DEF FindVictim
  <2>4. QED
    BY <2>1, <2>2, <2>3, VictimFacts
<1>6. CASE Equal # {} /\ minIdx' = Least(Equal) /\ UNCHANGED min
  <2>1. Equal \in SUBSET Nat
    BY <1>1 DEF Equal
  <2>2. Least(Equal) \in Equal
    BY <1>6, <2>1, LeastProperties
  <2>3. QCount(minIdx') = min
    BY <1>6, <2>2 DEF Equal
  <2>4. QED
    BY <1>4, <1>5, <1>6, <2>3
<1>7. CASE minIdx' = Least(Lowest) /\ min' = QCount(Least(Lowest))
  <2> DEFINE V == {QCount(i) : i \in Slots}
  <2>1. V \in SUBSET Nat /\ V # {}
    <3>1. \A i \in Slots : QCount(i) \in Nat
      BY <1>4, SlotFacts
    <3>2. 0 \in Slots
      BY <1>1
    <3>3. QED
      BY <3>1, <3>2
  <2>2. PICK w \in V : \A u \in V : w <= u
    <3> HIDE DEF V
    <3>1. QED
      BY <2>1, NatHasLeast
  <2>3. Lowest # {}
    <3>1. PICK i \in Slots : QCount(i) = w
      BY <2>2
    <3>2. i \in Lowest
      BY <2>2, <3>1 DEF Lowest
    <3>3. QED
      BY <3>2
  <2>4. Lowest \in SUBSET Nat
    BY <1>1 DEF Lowest
  <2>5. Least(Lowest) \in Lowest
    BY <2>3, <2>4, LeastProperties
  <2>6. QCount(minIdx') = min' /\ \A i \in Slots : QCount(minIdx') <= QCount(i)
    BY <1>7, <2>5 DEF Lowest
  <2>7. QED
    BY <1>4, <1>5, <2>6
<1>8. QED
  BY <1>6, <1>7 DEF UpdateMin

\* A context that replaces another one is credited to the slot of the victim,
\* whose counter is the smallest.
LEMMA EvictCredits ==
  ASSUME ~InlineUpdMin, IInv, \A i \in Slots : min <= Held[i], NEW c \in Calls, EnterEvict(c)
  PROVE  \E k \in Slots, n \in Blocks :
            /\ CreditedTo(k, n) /\ n \notin monitored /\ queue[k] \in monitored
            /\ monitored' = (monitored \cup {n}) \ {queue[k]}
            /\ counter' = [counter EXCEPT ![n] = counter[queue[k]] + 1]
            /\ \A m \in monitored : aux_ctx'[m] = aux_ctx[m] /\ aux_ctx[m] # aux_frames'
            /\ UNCHANGED root /\ CallMade(c) /\ queueFull
            /\ counter[queue[k]] = Held[k] /\ min' = Held[k]
            /\ \A i \in Slots : Held[k] <= Held[i]
<1>1. root # Null /\ CallMade(c) /\ queueFull /\ UpdateMin
      /\ UNCHANGED <<root, numItems, queueFull>>
  BY DEF EnterEvict, FindVictim
<1> DEFINE p == stack[stackIdx]
           k == minIdx'
           victim == queue[minIdx']
<1>2. PICK n \in Blocks :
        /\ ColdNode(p, c, n) /\ Attach(p, c, n)
        /\ counter' = [counter EXCEPT ![n] = min' + 1]
        /\ monitored' = (monitored \cup {n}) \ {victim}
        /\ queue' = [queue EXCEPT ![minIdx'] = n]
  BY DEF EnterEvict, TakeSlot
<1>3. /\ n \notin monitored /\ aux_ctx'[n] = aux_frames'
      /\ \A m \in monitored : aux_ctx'[m] = aux_ctx[m] /\ aux_ctx[m] # aux_frames'
  BY <1>1, <1>2, NewContext
<1>4. TreeTypeOK /\ QueueTypeOK
  BY DEF IInv, TypeOK
<1>5. k \in Slots /\ min' \in Nat /\ Held[k] = min' /\ \A i \in Slots : min' <= Held[i]
  BY <1>1, VictimIsLeast
<1>6. \A i \in Slots : i < numItems
  <2>1. numItems = Epsilon
    BY <1>1, SlotFacts
  <2>2. QED
    BY <2>1, ConstantsAssumption DEF Slots
<1>7. queue'[k] = n /\ \A i \in Slots : i # k => queue'[i] = queue[i]
  BY <1>2, <1>4, <1>5 DEF QueueTypeOK
<1>8. Held' = [i \in Slots |-> IF i < numItems THEN counter'[queue'[i]] ELSE 0]
  BY <1>1 DEF Held
<1> HIDE DEF k
<1>9. victim \in monitored /\ victim = queue[k] /\ counter[victim] = Held[k] /\ victim # n
  BY <1>1, <1>3, <1>5, <1>6, SlotFacts DEF k
<1>10. counter'[n] = min' + 1 /\ \A m \in monitored : m # n /\ counter'[m] = counter[m]
  BY <1>2, <1>3, <1>4 DEF TreeTypeOK
<1>11. Held'[k] = min' + 1
  BY <1>5, <1>6, <1>7, <1>8, <1>10
<1>12. ASSUME NEW i \in Slots, i # k
       PROVE  Held'[i] = Held[i]
  <2>1. queue[i] \in monitored /\ Held[i] = counter[queue[i]]
    BY <1>1, <1>6, SlotFacts
  <2>2. QED
    BY <1>6, <1>7, <1>8, <1>10, <1>12, <2>1
<1>13. Held' \in [Slots -> Nat]
  <2>1. Held \in [Slots -> Nat]
    BY <1>1, SlotFacts
  <2>2. min' + 1 \in Nat
    <3>1. min' \in Nat /\ \A j \in Nat : j + 1 \in Nat
      BY <1>5
    <3>2. QED
      BY <3>1, Zenon
  <2>3. \A i \in Slots : Held'[i] \in Nat
    BY <1>11, <1>12, <2>1, <2>2
  <2>4. QED
    BY <1>8, <2>3
<1> HIDE DEF victim
<1>14. CreditedTo(k, n)
  <2>1. Held'[k] = Held[k] + 1 /\ counter'[n] = Held[k] + 1
    BY <1>5, <1>10, <1>11
  <2>2. \A m \in monitored' : m # n => m \in monitored
    BY <1>2
  <2>3. n \in monitored'
    BY <1>2, <1>9
  <2>4. QED
    BY <1>3, <1>10, <1>12, <1>13, <2>1, <2>2, <2>3 DEF CreditedTo
<1>15. /\ monitored' = (monitored \cup {n}) \ {queue[k]}
       /\ counter' = [counter EXCEPT ![n] = counter[queue[k]] + 1]
  BY <1>2, <1>5, <1>9
<1>16. QED
  BY <1>1, <1>3, <1>5, <1>9, <1>14, <1>15

-----------------------------------------------------------------------------
(* Space Saving: the guarantee.                                            *)

\* The counters add up to the enter events and the one count of the root.  No
\* counter is below the number of times that its context was entered, nor is
\* any of them below that of a context that is not monitored.  _TLS_min is a
\* lower bound of the queue, which is why update_min may stop at the first slot
\* that holds it.
CountersAccount ==
  /\ SumWithin(Held, aux_events + 1)
  /\ \A n \in monitored : aux_freq[aux_ctx[n]] <= counter[n]
  /\ \A x \in Contexts : (\A n \in monitored : aux_ctx[n] # x) =>
                            \A i \in Slots : aux_freq[x] <= Held[i]
  /\ \A i \in Slots : min <= Held[i]

\* The inductive invariant of the counters.
CInv == /\ IInv
        /\ root = Null => \A x \in Contexts : aux_freq[x] = 0
        /\ root # Null => CountersAccount

\* Crediting an event to a slot keeps the account, when the context entered and
\* those that lose their node were not entered more often than the slots hold.
LEMMA CreditPreserves ==
  ASSUME IInv, root # Null, IInv', root' # Null, CountersAccount,
         NEW c \in Calls, CallMade(c),
         NEW k \in Slots, NEW n, CreditedTo(k, n),
         aux_freq[aux_frames'] <= Held[k],
         \A i \in Slots : min' <= Held[i],
         \A y \in Contexts : (y # aux_frames' /\ \A m \in monitored' : aux_ctx'[m] # y) =>
                                \A i \in Slots : aux_freq[y] <= Held[i]
  PROVE  CountersAccount'
<1>1. Held \in [Slots -> Nat] /\ Held' \in [Slots -> Nat]
  BY SlotFacts DEF CreditedTo
<1>2. aux_frames' \in Contexts
  BY CallFacts
<1>3. aux_freq \in [Contexts -> Nat] /\ aux_events \in Nat /\ min' \in Nat
  BY DEF IInv, TypeOK, HistoryTypeOK, QueueTypeOK
<1>4. /\ aux_freq'[aux_frames'] = aux_freq[aux_frames'] + 1
      /\ \A y \in Contexts : y # aux_frames' => aux_freq'[y] = aux_freq[y]
      /\ aux_events' = aux_events + 1
  <2> DEFINE x == aux_frames'
  <2>1. aux_freq' = [aux_freq EXCEPT ![x] = @ + 1] /\ x \in Contexts /\ aux_events' = aux_events + 1
    BY <1>2 DEF CallMade
  <2> HIDE DEF x
  <2>2. aux_freq'[x] = aux_freq[x] + 1 /\ \A y \in Contexts : y # x => aux_freq'[y] = aux_freq[y]
    BY <1>3, <2>1
  <2>3. QED
    BY <2>1, <2>2 DEF x
<1>5. /\ n \in monitored' /\ aux_ctx'[n] = aux_frames' /\ counter'[n] = Held[k] + 1
      /\ Held'[k] = Held[k] + 1
      /\ \A i \in Slots : i # k => Held'[i] = Held[i]
      /\ \A m \in monitored' : m # n => /\ m \in monitored /\ aux_ctx'[m] = aux_ctx[m]
                                        /\ counter'[m] = counter[m]
                                        /\ aux_ctx[m] # aux_frames'
  BY DEF CreditedTo
<1>6. \A i \in Slots : Held[i] <= Held'[i] /\ Held[i] \in Nat /\ Held'[i] \in Nat
  BY <1>1, <1>5
<1>7. SumWithin(Held', aux_events' + 1)
  <2> DEFINE w == Held
             v == Held'
             b == aux_events + 1
  <2>1. SumWithin(w, b)
    BY DEF CountersAccount
  <2>2. w \in [Slots -> Nat] /\ v \in [Slots -> Nat] /\ b \in Nat /\ aux_events' + 1 = b + 1
    BY <1>1, <1>3, <1>4
  <2>3. v[k] = w[k] + 1 /\ \A i \in Slots : i # k => v[i] = w[i]
    BY <1>5
  <2> HIDE DEF w, v, b
  <2>4. SumWithin(v, b + 1)
    BY <2>1, <2>2, <2>3, SumGrows
  <2>5. QED
    BY <2>2, <2>4 DEF v
<1>8. ASSUME NEW m \in monitored'
      PROVE  aux_freq'[aux_ctx'[m]] <= counter'[m]
  <2>1. CASE m = n
    <3>1. Held[k] \in Nat /\ aux_freq[aux_frames'] \in Nat
      BY <1>2, <1>3, <1>6
    <3>2. QED
      BY <1>4, <1>5, <2>1, <3>1
  <2>2. CASE m # n
    <3>1. /\ m \in monitored /\ aux_ctx'[m] = aux_ctx[m] /\ counter'[m] = counter[m]
          /\ aux_ctx[m] # aux_frames'
      BY <1>5, <1>8, <2>2
    <3>2. aux_ctx[m] \in Contexts
      BY <3>1 DEF IInv, TypeOK, TreeTypeOK, HistoryTypeOK
    <3>3. aux_freq[aux_ctx[m]] <= counter[m]
      BY <3>1 DEF CountersAccount
    <3>4. aux_freq'[aux_ctx[m]] = aux_freq[aux_ctx[m]]
      BY <1>4, <3>1, <3>2
    <3>5. QED
      BY <3>1, <3>3, <3>4
  <2>3. QED
    BY <2>1, <2>2
<1>9. ASSUME NEW y \in Contexts, \A m \in monitored' : aux_ctx'[m] # y, NEW i \in Slots
      PROVE  aux_freq'[y] <= Held'[i]
  <2>1. y # aux_frames'
    BY <1>5, <1>9
  <2>2. aux_freq[y] <= Held[i] /\ aux_freq'[y] = aux_freq[y] /\ aux_freq[y] \in Nat
    BY <1>3, <1>4, <1>9, <2>1
  <2>3. QED
    BY <1>6, <2>2
<1>10. ASSUME NEW i \in Slots
       PROVE  min' <= Held'[i]
  BY <1>3, <1>6
<1>11. QED
  BY <1>7, <1>8, <1>9, <1>10 DEF CountersAccount

\* An enter event inside the trace keeps the account.
LEMMA EnterAccounts ==
  ASSUME ~InlineUpdMin, CInv, IInv', NEW c \in Calls,
         EnterHot(c) \/ EnterAdmit(c) \/ EnterEvict(c)
  PROVE  root' # Null /\ CountersAccount'
<1>1. root # Null /\ CallMade(c) /\ UNCHANGED root
  BY DEF EnterHot, EnterAdmit, EnterEvict
<1>2. /\ IInv
      /\ CountersAccount
      /\ \A n \in monitored : aux_freq[aux_ctx[n]] <= counter[n]
      /\ \A x \in Contexts : (\A n \in monitored : aux_ctx[n] # x) =>
                                \A i \in Slots : aux_freq[x] <= Held[i]
      /\ \A i \in Slots : min <= Held[i]
  BY <1>1 DEF CInv, CountersAccount
<1>3. aux_frames' \in Contexts
  BY <1>1, <1>2, CallFacts
<1>4. CASE EnterHot(c)
  <2>1. PICK k \in Slots, n \in Blocks :
            /\ CreditedTo(k, n) /\ n \in monitored /\ aux_ctx[n] = aux_frames'
            /\ UNCHANGED <<monitored, aux_ctx, min>>
            /\ Held[k] = counter[n]
    BY <1>2, <1>4, HotCredits
  <2>2. aux_freq[aux_frames'] <= Held[k]
    BY <1>2, <2>1
  <2>3. \A i \in Slots : min' <= Held[i]
    BY <1>2, <2>1
  <2>4. \A y \in Contexts : (y # aux_frames' /\ \A m \in monitored' : aux_ctx'[m] # y) =>
                                \A i \in Slots : aux_freq[y] <= Held[i]
    BY <1>2, <2>1
  <2>5. QED
    BY <1>1, <1>2, <2>1, <2>2, <2>3, <2>4, CreditPreserves
<1>5. CASE EnterAdmit(c)
  <2>1. PICK k \in Slots, n \in Blocks :
            /\ CreditedTo(k, n) /\ monitored' = monitored \cup {n}
            /\ \A m \in monitored : aux_ctx'[m] = aux_ctx[m] /\ aux_ctx[m] # aux_frames'
            /\ UNCHANGED min
    BY <1>2, <1>5, AdmitCredits
  <2>2. aux_freq[aux_frames'] <= Held[k]
    BY <1>2, <1>3, <2>1
  <2>3. \A i \in Slots : min' <= Held[i]
    BY <1>2, <2>1
  <2>4. \A y \in Contexts : (y # aux_frames' /\ \A m \in monitored' : aux_ctx'[m] # y) =>
                                \A i \in Slots : aux_freq[y] <= Held[i]
    BY <1>2, <2>1
  <2>5. QED
    BY <1>1, <1>2, <2>1, <2>2, <2>3, <2>4, CreditPreserves
<1>6. CASE EnterEvict(c)
  <2>1. PICK k \in Slots, n \in Blocks :
            /\ CreditedTo(k, n) /\ queue[k] \in monitored
            /\ monitored' = (monitored \cup {n}) \ {queue[k]}
            /\ \A m \in monitored : aux_ctx'[m] = aux_ctx[m] /\ aux_ctx[m] # aux_frames'
            /\ counter[queue[k]] = Held[k] /\ min' = Held[k]
            /\ \A i \in Slots : Held[k] <= Held[i]
    BY <1>2, <1>6, EvictCredits
  <2>2. aux_freq[aux_frames'] <= Held[k]
    BY <1>2, <1>3, <2>1
  <2>3. \A i \in Slots : min' <= Held[i]
    BY <2>1
  <2>4. ASSUME NEW y \in Contexts, y # aux_frames', \A m \in monitored' : aux_ctx'[m] # y,
               NEW i \in Slots
        PROVE  aux_freq[y] <= Held[i]
    <3>1. CASE y = aux_ctx[queue[k]]
      <4>1. aux_freq[y] <= Held[k] /\ Held[k] <= Held[i]
        BY <1>2, <2>1, <3>1
      <4>2. aux_freq[y] \in Nat /\ Held[k] \in Nat /\ Held[i] \in Nat
        <5>1. Held \in [Slots -> Nat]
          BY <1>1, <1>2, SlotFacts
        <5>2. aux_freq \in [Contexts -> Nat]
          BY <1>2 DEF IInv, TypeOK, HistoryTypeOK
        <5>3. QED
          BY <5>1, <5>2
      <4>3. QED
        BY <4>1, <4>2
    <3>2. CASE y # aux_ctx[queue[k]]
      <4>1. \A m \in monitored : aux_ctx[m] # y
        BY <2>1, <2>4, <3>2
      <4>2. QED
        BY <1>2, <4>1
    <3>3. QED
      BY <3>1, <3>2
  <2>5. QED
    BY <1>1, <1>2, <2>1, <2>2, <2>3, <2>4, CreditPreserves
<1>7. QED
  BY <1>1, <1>4, <1>5, <1>6

\* A fresh queue accounts for the one count of the root.
LEMMA FreshAccounts ==
  ASSUME CInv, HcctInit, Epsilon # 1, IInv'
  PROVE  root' # Null /\ CountersAccount'
<1>1. root = Null /\ aux_phase' = "tracing"
  BY DEF CInv, IInv, Lifecycle, HcctInit
<1> DEFINE r == NewBlock
<1>2. /\ monitored' = {r} /\ counter' = [counter EXCEPT ![r] = 1]
      /\ queue' = [queue EXCEPT ![0] = r] /\ numItems' = 1 /\ min' = 0
      /\ aux_ctx' = [aux_ctx EXCEPT ![r] = <<>>] /\ UNCHANGED <<aux_freq, aux_events>>
  BY <1>1 DEF HcctInit, FreshTree
<1> HIDE DEF r
<1>3. root' # Null
  BY <1>1 DEF IInv, Lifecycle
<1>4. /\ TreeTypeOK' /\ QueueTypeOK' /\ TreeTypeOK /\ QueueTypeOK /\ HistoryTypeOK
      /\ HistoryTypeOK'
  BY DEF CInv, IInv, TypeOK
<1>5. r \in Blocks
  BY <1>2, <1>4 DEF TreeTypeOK
<1>6. Epsilon \in Nat \ {0} /\ Slots = 0 .. Epsilon - 1 /\ 0 \in Slots
  BY ConstantsAssumption DEF Slots
<1>7. queue'[0] = r /\ counter'[r] = 1
  BY <1>2, <1>4, <1>5, <1>6 DEF QueueTypeOK, TreeTypeOK
<1>8. Held' = [i \in Slots |-> IF i < 1 THEN counter'[queue'[i]] ELSE 0]
  BY <1>2 DEF Held
<1>9. \A i \in Slots : Held'[i] = IF i = 0 THEN 1 ELSE 0
  BY <1>6, <1>7, <1>8
<1>10. \A x \in Contexts : aux_freq'[x] = 0
  BY <1>1, <1>2 DEF CInv
<1>11. SumWithin(Held', aux_events' + 1)
  <2> DEFINE P == [i \in 0 .. Epsilon |-> IF i = 0 THEN 0 ELSE 1]
             w == Held'
             b == aux_events' + 1
  <2>1. P \in [0 .. Epsilon -> Nat] /\ P[0] = 0 /\ P[Epsilon] = 1
    BY <1>6
  <2>2. \A i \in Slots : P[i + 1] = P[i] + w[i]
    <3> SUFFICES ASSUME NEW i \in Slots PROVE P[i + 1] = P[i] + w[i]
      OBVIOUS
    <3>1. i \in 0 .. Epsilon /\ i + 1 \in 0 .. Epsilon /\ i + 1 # 0
      BY <1>6
    <3>2. P[i + 1] = 1 /\ P[i] = (IF i = 0 THEN 0 ELSE 1) /\ w[i] = (IF i = 0 THEN 1 ELSE 0)
      BY <1>9, <3>1
    <3> HIDE DEF P, w
    <3>3. QED
      BY <3>2
  <2>3. 1 <= b
    <3>1. b = aux_events + 1 /\ aux_events \in Nat
      BY <1>2, <1>4 DEF HistoryTypeOK
    <3> HIDE DEF b
    <3>2. QED
      BY <3>1
  <2> HIDE DEF P, w, b
  <2>4. SumsTo(P, w)
    BY <2>1, <2>2 DEF SumsTo
  <2>5. SumWithin(w, b)
    BY <2>1, <2>3, <2>4 DEF SumWithin
  <2>6. QED
    BY <2>5 DEF w, b
<1>12. \A i \in Slots : min' <= Held'[i] /\ 0 <= Held'[i]
  BY <1>2, <1>9
<1>13. \A n \in monitored' : aux_freq'[aux_ctx'[n]] <= counter'[n]
  <2>1. aux_ctx'[r] \in Contexts
    BY <1>4, <1>5 DEF HistoryTypeOK
  <2>2. aux_freq'[aux_ctx'[r]] = 0
    BY <1>10, <2>1
  <2>3. QED
    BY <1>2, <1>7, <2>2
<1>14. \A x \in Contexts : \A i \in Slots : aux_freq'[x] <= Held'[i]
  BY <1>10, <1>12
<1>15. QED
  BY <1>3, <1>11, <1>12, <1>13, <1>14 DEF CountersAccount

\* Every step preserves the account of the counters.
LEMMA StepAccounts ==
  ASSUME ~EventsOutsideTrace, ~InlineUpdMin, Epsilon # 1, CInv, [Next]_vars
  PROVE  CInv'
<1>1. IInv'
  BY StepPreserves DEF CInv
<1>2. CASE HcctInit
  BY <1>1, <1>2, FreshAccounts DEF CInv
<1>3. CASE HcctExit
  <2>1. UNCHANGED <<root, monitored, counter, queue, numItems, min, aux_ctx, aux_freq, aux_events>>
    BY <1>3 DEF HcctExit, treeVars, queueVars
  <2>2. Held' = Held
    BY <2>1 DEF Held
  <2>3. QED
    BY <1>1, <2>1, <2>2 DEF CInv, CountersAccount
<1>4. CASE HcctDump
  BY <1>1, <1>4 DEF CInv, HcctDump
<1>5. ASSUME NEW c \in Calls, HcctEnter(c)
      PROVE  CInv'
  <2>1. EnterHot(c) \/ EnterAdmit(c) \/ EnterEvict(c)
    BY <1>5 DEF HcctEnter, EnterUninitialised
  <2>2. QED
    BY <1>1, <2>1, EnterAccounts DEF CInv
<1>6. CASE UNCHANGED vars
  <2>1. UNCHANGED <<root, monitored, counter, queue, numItems, min, aux_ctx, aux_freq, aux_events>>
    BY <1>6 DEF vars, treeVars, queueVars, auxVars
  <2>2. Held' = Held
    BY <2>1 DEF Held
  <2>3. QED
    BY <1>1, <2>1, <2>2 DEF CInv, CountersAccount
<1>7. QED
  BY <1>2, <1>3, <1>4, <1>5, <1>6 DEF Next

\* A context that the queue does not hold was entered at most as often as the
\* smallest counter says, and Epsilon counters add up to the events.
LEMMA AccountsImplyHot == CInv => HotMonitored
<1> SUFFICES ASSUME CInv, root # Null, NEW x \in Contexts,
                    aux_freq[x] * Epsilon > aux_events + 1,
                    \A n \in monitored : aux_ctx[n] # x
             PROVE  FALSE
  BY DEF HotMonitored
<1>1. IInv /\ CountersAccount
  BY DEF CInv
<1>2. Held \in [Slots -> Nat]
  BY <1>1, SlotFacts
<1> DEFINE m == aux_freq[x]
           b == aux_events + 1
           w == Held
<1>3. m \in Nat /\ b \in Nat /\ Epsilon \in Nat
  BY <1>1, ConstantsAssumption DEF IInv, TypeOK, HistoryTypeOK
<1>4. SumWithin(w, b) /\ \A i \in Slots : m <= w[i]
  BY <1>1 DEF CountersAccount
<1>5. m * Epsilon > b
  OBVIOUS
<1>6. w \in [Slots -> Nat]
  BY <1>2
<1> HIDE DEF m, b, w
<1>7. m * Epsilon <= b
  BY <1>3, <1>4, <1>6, SumOfLeast
<1>8. m * Epsilon \in Nat
  BY <1>3
<1>9. QED
  BY <1>3, <1>5, <1>7, <1>8

\* Space Saving, with update_min instead of its inlined form: a context that
\* makes up more than 1/Epsilon of the enter events has a monitored node, and
\* with it a place in the dumped tree.
THEOREM HotContextsAreMonitored ==
  ASSUME ~EventsOutsideTrace, ~InlineUpdMin, Epsilon # 1
  PROVE  Spec => []HotMonitored
<1>1. Init => CInv
  <2>1. Init => IInv
    BY InitEstablishes
  <2>2. QED
    BY <2>1 DEF Init, CInv
<1>2. CInv /\ [Next]_vars => CInv'
  BY StepAccounts
<1>3. CInv => HotMonitored
  BY AccountsImplyHot
<1>4. QED
  BY <1>1, <1>2, <1>3, PTL DEF Spec

-----------------------------------------------------------------------------
(* The queue implements Space Saving.                                      *)

\* The summary that a set of monitored nodes stands for.
SummaryOf(mon, ctx, cnt) ==
  [x \in {ctx[n] : n \in mon} |-> cnt[CHOOSE n \in mon : ctx[n] = x]]

Summary == SummaryOf(monitored, aux_ctx, counter)

\* When no context has two nodes, a summary holds the counter of each node.
LEMMA SummaryProperties ==
  ASSUME NEW mon, NEW ctx, NEW cnt, \A m, n \in mon : ctx[m] = ctx[n] => m = n,
         NEW s, s = SummaryOf(mon, ctx, cnt)
  PROVE  /\ DOMAIN s = {ctx[n] : n \in mon}
         /\ \A n \in mon : s[ctx[n]] = cnt[n]
         /\ s = [x \in DOMAIN s |-> s[x]]
<1>1. DOMAIN s = {ctx[n] : n \in mon} /\ s = [x \in DOMAIN s |-> s[x]]
  BY DEF SummaryOf
<1>2. ASSUME NEW n \in mon
      PROVE  s[ctx[n]] = cnt[n]
  <2> DEFINE m == CHOOSE h \in mon : ctx[h] = ctx[n]
  <2>1. m \in mon /\ ctx[m] = ctx[n]
    OBVIOUS
  <2>2. m = n
    BY <2>1
  <2>3. s[ctx[n]] = cnt[m]
    BY DEF SummaryOf
  <2> HIDE DEF m
  <2>4. QED
    BY <2>2, <2>3
<1>3. QED
  BY <1>1, <1>2

\* The summary has an entry for each slot in use.
LEMMA SummarySize ==
  ASSUME IInv, root # Null
  PROVE  /\ Cardinality({aux_ctx[n] : n \in monitored}) = numItems
         /\ {aux_ctx[n] : n \in monitored} # {}
<1>1. /\ numItems \in 1 .. Epsilon /\ numItems \in Nat
      /\ monitored = {queue[i] : i \in 0 .. numItems - 1}
      /\ \A i, j \in 0 .. numItems - 1 : queue[i] = queue[j] => i = j
  BY ConstantsAssumption DEF IInv, QueueHoldsMonitored
<1>2. \A m, n \in monitored : aux_ctx[m] = aux_ctx[n] => m = n
  BY SlotFacts
<1> DEFINE I == 0 .. numItems - 1
           T == {aux_ctx[n] : n \in monitored}
           f == [i \in I |-> aux_ctx[queue[i]]]
<1>3. \A i \in I : queue[i] \in monitored
  BY <1>1
<1>4. f \in [I -> T] /\ \A i \in I : f[i] = aux_ctx[queue[i]]
  BY <1>3
<1>5. \A i, j \in I : f[i] = f[j] => i = j
  BY <1>1, <1>2, <1>3, <1>4
<1>6. \A t \in T : \E i \in I : f[i] = t
  BY <1>1, <1>4
<1>7. IsFiniteSet(I) /\ Cardinality(I) = numItems
  <2>1. 0 \in Int /\ numItems - 1 \in Int /\ ~ (0 > numItems - 1) /\ numItems - 1 - 0 + 1 = numItems
    BY <1>1
  <2> DEFINE h == numItems - 1
  <2>2. IsFiniteSet(0 .. h) /\ Cardinality(0 .. h) = IF 0 > h THEN 0 ELSE h - 0 + 1
    <3>1. h \in Int
      BY <2>1
    <3> HIDE DEF h
    <3>2. QED
      BY <3>1, FS_Interval
  <2>3. QED
    BY <2>1, <2>2
<1>8. 0 \in I
  BY <1>1
<1> HIDE DEF I, T, f
<1>9. f \in Bijection(I, T)
  <2>1. f \in Injection(I, T)
    <3>1. f \in [I -> T]
      BY <1>4
    <3>2. QED
      BY <1>5, <3>1 DEF Injection, IsInjective
  <2>2. f \in Surjection(I, T)
    BY <1>4, <1>6 DEF Surjection
  <2>3. QED
    BY <2>1, <2>2 DEF Bijection
<1>10. ExistsBijection(I, T)
  BY <1>9 DEF ExistsBijection
<1>11. Cardinality(T) = numItems
  BY <1>7, <1>10, FS_Bijection
<1>12. T # {}
  BY <1>4, <1>8
<1>13. QED
  BY <1>11, <1>12 DEF T

\* What the refinement mapping shows of a state: the substituted count is the summary.
LEMMA SummaryIsCount ==
  Summary = [x \in {aux_ctx[n] : n \in monitored} |-> counter[NodeOf(x)]]
BY DEF Summary, SummaryOf, NodeOf

\* The summary of a state with a tree.
LEMMA SummaryFacts ==
  ASSUME IInv, root # Null
  PROVE  /\ DOMAIN Summary = {aux_ctx[n] : n \in monitored}
         /\ \A n \in monitored : Summary[aux_ctx[n]] = counter[n]
         /\ Cardinality(DOMAIN Summary) = numItems /\ DOMAIN Summary # {}
<1>1. \A m, n \in monitored : aux_ctx[m] = aux_ctx[n] => m = n
  BY SlotFacts
<1> DEFINE s == Summary
<1>2. s = SummaryOf(monitored, aux_ctx, counter)
  BY DEF Summary
<1> HIDE DEF s
<1>3. /\ DOMAIN s = {aux_ctx[n] : n \in monitored}
      /\ \A n \in monitored : s[aux_ctx[n]] = counter[n]
  BY <1>1, <1>2, SummaryProperties
<1>4. QED
  BY <1>3, SummarySize DEF s

\* The summary after an event that is credited to slot k: the context entered has
\* the new count, the others keep theirs.
LEMMA SummaryCredited ==
  ASSUME IInv, root # Null, NEW k \in Slots, NEW n, CreditedTo(k, n),
         \A m1, m2 \in monitored' : aux_ctx'[m1] = aux_ctx'[m2] => m1 = m2
  PROVE  /\ DOMAIN Summary' = {aux_ctx'[m] : m \in monitored'}
         /\ aux_frames' \in DOMAIN Summary'
         /\ Summary'[aux_frames'] = Held[k] + 1
         /\ \A x \in DOMAIN Summary' : x # aux_frames' => x \in DOMAIN Summary /\ Summary'[x] = Summary[x]
         /\ Summary' = [x \in DOMAIN Summary' |-> Summary'[x]]
<1>1. /\ n \in monitored' /\ aux_ctx'[n] = aux_frames' /\ counter'[n] = Held[k] + 1
      /\ \A m \in monitored' : m # n => /\ m \in monitored /\ aux_ctx'[m] = aux_ctx[m]
                                        /\ counter'[m] = counter[m]
  BY DEF CreditedTo
<1> DEFINE t == Summary'
           s == Summary
<1>2. t = SummaryOf(monitored', aux_ctx', counter')
  BY DEF Summary
<1>3. /\ DOMAIN s = {aux_ctx[m] : m \in monitored}
      /\ \A m \in monitored : s[aux_ctx[m]] = counter[m]
  BY SummaryFacts
<1> HIDE DEF s, t
<1>4. /\ DOMAIN t = {aux_ctx'[m] : m \in monitored'}
      /\ \A m \in monitored' : t[aux_ctx'[m]] = counter'[m]
      /\ t = [x \in DOMAIN t |-> t[x]]
  BY <1>2, SummaryProperties
<1>5. aux_frames' \in DOMAIN t /\ t[aux_frames'] = Held[k] + 1
  BY <1>1, <1>4
<1>6. ASSUME NEW x \in DOMAIN t, x # aux_frames'
      PROVE  x \in DOMAIN s /\ t[x] = s[x]
  <2>1. PICK m \in monitored' : aux_ctx'[m] = x
    BY <1>4
  <2>2. m # n
    BY <1>1, <1>6, <2>1
  <2>3. m \in monitored /\ aux_ctx[m] = x /\ counter'[m] = counter[m]
    BY <1>1, <2>1, <2>2
  <2>4. QED
    BY <1>3, <1>4, <2>1, <2>3
<1>7. QED
  BY <1>4, <1>5, <1>6 DEF s, t

\* A call of a monitored context increments its counter.
LEMMA HotRefines ==
  ASSUME IInv, IInv', NEW c \in Calls, EnterHot(c)
  PROVE  \E x \in Contexts : /\ x \in DOMAIN Summary
                             /\ Summary' = [Summary EXCEPT ![x] = @ + 1]
                             /\ aux_freq' = [aux_freq EXCEPT ![x] = @ + 1]
<1>1. root # Null /\ root' = root /\ CallMade(c)
  BY DEF EnterHot
<1>2. PICK k \in Slots, n \in Blocks :
            /\ CreditedTo(k, n) /\ n \in monitored /\ aux_ctx[n] = aux_frames'
            /\ UNCHANGED <<monitored, aux_ctx>>
            /\ Held[k] = counter[n]
  BY HotCredits
<1> DEFINE x == aux_frames'
           s == Summary
           t == Summary'
<1>3. \A m1, m2 \in monitored' : aux_ctx'[m1] = aux_ctx'[m2] => m1 = m2
  BY <1>1, <1>2, SlotFacts
<1>4. /\ DOMAIN t = {aux_ctx'[m] : m \in monitored'} /\ x \in DOMAIN t /\ t[x] = Held[k] + 1
      /\ \A y \in DOMAIN t : y # x => y \in DOMAIN s /\ t[y] = s[y]
      /\ t = [y \in DOMAIN t |-> t[y]]
  BY <1>1, <1>2, <1>3, SummaryCredited
<1>5. DOMAIN s = {aux_ctx[m] : m \in monitored} /\ \A m \in monitored : s[aux_ctx[m]] = counter[m]
  BY <1>1, SummaryFacts
<1>6. x \in Contexts /\ aux_freq' = [aux_freq EXCEPT ![x] = @ + 1]
  BY <1>1, CallFacts DEF CallMade
<1> HIDE DEF s, t, x
<1>7. DOMAIN t = DOMAIN s
  BY <1>2, <1>4, <1>5
<1>8. s[x] = Held[k]
  BY <1>2, <1>5 DEF x
<1>9. t = [s EXCEPT ![x] = @ + 1]
  <2>1. \A y \in DOMAIN t : t[y] = [s EXCEPT ![x] = @ + 1][y]
    BY <1>4, <1>7, <1>8
  <2> DEFINE u == [s EXCEPT ![x] = @ + 1]
  <2>2. DOMAIN u = DOMAIN s /\ u = [y \in DOMAIN u |-> u[y]]
    OBVIOUS
  <2>3. \A y \in DOMAIN t : t[y] = u[y]
    BY <2>1
  <2> HIDE DEF u
  <2>4. t = u
    BY <1>4, <1>7, <2>2, <2>3
  <2>5. QED
    BY <2>4 DEF u
<1>10. QED
  BY <1>4, <1>6, <1>7, <1>9 DEF s, t

\* A call that takes a free slot admits its context.
LEMMA AdmitRefines ==
  ASSUME IInv, IInv', NEW c \in Calls, EnterAdmit(c)
  PROVE  \E x \in Contexts :
           /\ DOMAIN Summary # {} /\ x \notin DOMAIN Summary
           /\ Cardinality(DOMAIN Summary) < Epsilon
           /\ Summary' = [y \in DOMAIN Summary \cup {x} |-> IF y = x THEN 1 ELSE Summary[y]]
           /\ aux_freq' = [aux_freq EXCEPT ![x] = @ + 1]
<1>1. root # Null /\ root' = root /\ CallMade(c)
  BY DEF EnterAdmit
<1>2. PICK k \in Slots, n \in Blocks :
            /\ CreditedTo(k, n) /\ monitored' = monitored \cup {n}
            /\ \A m \in monitored : aux_ctx'[m] = aux_ctx[m] /\ aux_ctx[m] # aux_frames'
            /\ ~queueFull /\ Held[k] = 0
  BY AdmitCredits
<1> DEFINE x == aux_frames'
           s == Summary
           t == Summary'
<1>3. \A m1, m2 \in monitored' : aux_ctx'[m1] = aux_ctx'[m2] => m1 = m2
  BY <1>1 DEF IInv, TypeOK, TreeTypeOK, TreeOfContexts
<1>4. /\ DOMAIN t = {aux_ctx'[m] : m \in monitored'} /\ x \in DOMAIN t /\ t[x] = Held[k] + 1
      /\ \A y \in DOMAIN t : y # x => y \in DOMAIN s /\ t[y] = s[y]
      /\ t = [y \in DOMAIN t |-> t[y]]
  BY <1>1, <1>2, <1>3, SummaryCredited
<1>5. /\ DOMAIN s = {aux_ctx[m] : m \in monitored}
      /\ Cardinality(DOMAIN s) = numItems /\ DOMAIN s # {}
  BY <1>1, SummaryFacts
<1>6. x \in Contexts /\ aux_freq' = [aux_freq EXCEPT ![x] = @ + 1]
  BY <1>1, CallFacts DEF CallMade
<1>7. aux_ctx'[n] = x
  BY <1>2 DEF CreditedTo
<1>8. numItems < Epsilon
  <2>1. numItems \in 1 .. Epsilon /\ queueFull = (numItems = Epsilon)
    BY <1>1, SlotFacts
  <2>2. numItems # Epsilon /\ Epsilon \in Nat
    BY <1>2, <2>1, ConstantsAssumption
  <2>3. QED
    BY <2>1, <2>2
<1> HIDE DEF s, t
<1>9. x \notin DOMAIN s
  BY <1>2, <1>5
<1> HIDE DEF x
<1>10. DOMAIN t = DOMAIN s \cup {x}
  <2>1. \A y \in DOMAIN s : y \in DOMAIN t
    BY <1>2, <1>4, <1>5
  <2>2. \A y \in DOMAIN t : y \in DOMAIN s \cup {x}
    BY <1>4
  <2>3. QED
    BY <1>4, <2>1, <2>2
<1>11. t = [y \in DOMAIN s \cup {x} |-> IF y = x THEN 1 ELSE s[y]]
  BY <1>2, <1>4, <1>10
<1>12. QED
  BY <1>5, <1>6, <1>8, <1>9, <1>11 DEF s, t

\* A call that takes the slot of a victim replaces an item whose counter is the smallest.
LEMMA EvictRefines ==
  ASSUME ~InlineUpdMin, IInv, IInv', \A i \in Slots : min <= Held[i],
         NEW c \in Calls, EnterEvict(c)
  PROVE  \E x \in Contexts :
           /\ x \notin DOMAIN Summary
           /\ Cardinality(DOMAIN Summary) = Epsilon
           /\ \E v \in DOMAIN Summary :
                /\ \A y \in DOMAIN Summary : Summary[v] <= Summary[y]
                /\ Summary' = [y \in (DOMAIN Summary \ {v}) \cup {x} |->
                                 IF y = x THEN Summary[v] + 1 ELSE Summary[y]]
           /\ aux_freq' = [aux_freq EXCEPT ![x] = @ + 1]
<1>1. root # Null /\ root' = root /\ CallMade(c)
  BY DEF EnterEvict
<1>2. PICK k \in Slots, n \in Blocks :
            /\ CreditedTo(k, n) /\ n \notin monitored /\ queue[k] \in monitored
            /\ monitored' = (monitored \cup {n}) \ {queue[k]}
            /\ \A m \in monitored : aux_ctx'[m] = aux_ctx[m] /\ aux_ctx[m] # aux_frames'
            /\ queueFull /\ counter[queue[k]] = Held[k]
            /\ \A i \in Slots : Held[k] <= Held[i]
  BY EvictCredits
<1> DEFINE x == aux_frames'
           s == Summary
           t == Summary'
           victim == queue[k]
           v == aux_ctx[queue[k]]
<1>3. \A m1, m2 \in monitored' : aux_ctx'[m1] = aux_ctx'[m2] => m1 = m2
  BY <1>1 DEF IInv, TypeOK, TreeTypeOK, TreeOfContexts
<1>4. /\ DOMAIN t = {aux_ctx'[m] : m \in monitored'} /\ x \in DOMAIN t /\ t[x] = Held[k] + 1
      /\ \A y \in DOMAIN t : y # x => y \in DOMAIN s /\ t[y] = s[y]
      /\ t = [y \in DOMAIN t |-> t[y]]
  BY <1>1, <1>2, <1>3, SummaryCredited
<1>5. /\ DOMAIN s = {aux_ctx[m] : m \in monitored}
      /\ \A m \in monitored : s[aux_ctx[m]] = counter[m]
      /\ Cardinality(DOMAIN s) = numItems
  BY <1>1, SummaryFacts
<1>6. x \in Contexts /\ aux_freq' = [aux_freq EXCEPT ![x] = @ + 1]
  BY <1>1, CallFacts DEF CallMade
<1>7. aux_ctx'[n] = x
  BY <1>2 DEF CreditedTo
<1>8. numItems = Epsilon
  BY <1>1, <1>2, SlotFacts
<1>9. /\ \A m1, m2 \in monitored : aux_ctx[m1] = aux_ctx[m2] => m1 = m2
      /\ \A m \in monitored : \E i \in Slots : queue[i] = m /\ Held[i] = counter[m]
  BY <1>1, SlotFacts
<1> HIDE DEF s, t
<1>10. x \notin DOMAIN s
  BY <1>2, <1>5
<1>11. v \in DOMAIN s /\ s[v] = Held[k]
  BY <1>2, <1>5
<1>12. ASSUME NEW y \in DOMAIN s
       PROVE  s[v] <= s[y]
  <2>1. PICK m \in monitored : aux_ctx[m] = y
    BY <1>5
  <2>2. PICK i \in Slots : queue[i] = m /\ Held[i] = counter[m]
    BY <1>9
  <2>3. s[y] = Held[i] /\ Held[k] <= Held[i]
    BY <1>2, <1>5, <2>1, <2>2
  <2>4. QED
    BY <1>11, <2>3
<1>13. DOMAIN t = (DOMAIN s \ {v}) \cup {x}
  <2>1. ASSUME NEW y \in DOMAIN s, y # v
        PROVE  y \in DOMAIN t
    <3>1. PICK m \in monitored : aux_ctx[m] = y
      BY <1>5
    <3>2. m # queue[k]
      BY <2>1, <3>1
    <3>3. m \in monitored' /\ aux_ctx'[m] = y
      BY <1>2, <3>1, <3>2
    <3>4. QED
      BY <1>4, <3>3
  <2>2. ASSUME NEW y \in DOMAIN t, y # x
        PROVE  y \in DOMAIN s /\ y # v
    <3>1. y \in DOMAIN s
      BY <1>4, <2>2
    <3>2. PICK m \in monitored' : aux_ctx'[m] = y
      BY <1>4
    <3>3. m # n
      BY <1>7, <2>2, <3>2
    <3>4. m \in monitored /\ m # queue[k] /\ aux_ctx[m] = y
      BY <1>2, <3>2, <3>3
    <3>5. y # v
      BY <1>2, <1>9, <3>4
    <3>6. QED
      BY <3>1, <3>5
  <2> HIDE DEF x, v
  <2>3. QED
    BY <1>4, <2>1, <2>2
<1> HIDE DEF x, v
<1>14. t = [y \in (DOMAIN s \ {v}) \cup {x} |-> IF y = x THEN s[v] + 1 ELSE s[y]]
  BY <1>4, <1>11, <1>13
<1>15. QED
  BY <1>5, <1>6, <1>8, <1>10, <1>11, <1>12, <1>14 DEF s, t

\* Both modules count the elements of a set in the same way.
LEMMA SameCardinality == \A S : SS!Cardinality(S) = Cardinality(S)
BY DEF SS!Cardinality, Cardinality

\* Every step of hcct_init, hcct_enter, hcct_exit and hcct_dump is one of Space
\* Saving, or changes nothing it shows.
LEMMA StepRefines ==
  ASSUME ~EventsOutsideTrace, ~InlineUpdMin, Epsilon # 1, CInv, CInv', [Next]_vars
  PROVE  [SS!Next]_SS!vars
<1> DEFINE count == [x \in {aux_ctx[n] : n \in monitored} |-> counter[NodeOf(x)]]
<1>1. count = Summary /\ count' = Summary'
  BY SummaryIsCount DEF Summary, SummaryOf, NodeOf
<1>2. IInv /\ IInv'
  BY DEF CInv
<1> HIDE DEF count
<1>3. CASE HcctInit
  <2>1. root = Null /\ aux_phase' = "tracing"
    BY <1>2, <1>3 DEF IInv, Lifecycle, HcctInit
  <2> DEFINE r == NewBlock
  <2>2. /\ monitored' = {r} /\ counter' = [counter EXCEPT ![r] = 1]
        /\ aux_ctx' = [aux_ctx EXCEPT ![r] = <<>>] /\ UNCHANGED aux_freq
    BY <1>3, <2>1 DEF HcctInit, FreshTree
  <2> HIDE DEF r
  <2>3. TreeTypeOK /\ TreeTypeOK' /\ HistoryTypeOK /\ monitored = {}
    BY <1>2, <2>1 DEF IInv, TypeOK, TreeTypeOK, Lifecycle
  <2>4. r \in Blocks
    BY <2>2, <2>3 DEF TreeTypeOK
  <2>5. counter'[r] = 1 /\ aux_ctx'[r] = <<>>
    BY <2>2, <2>3, <2>4 DEF TreeTypeOK, HistoryTypeOK
  <2>6. {aux_ctx'[n] : n \in monitored'} = {<<>>}
    BY <2>2, <2>5
  <2>7. \A x \in {<<>>} : (CHOOSE n \in monitored' : aux_ctx'[n] = x) = r
    BY <2>2, <2>5
  <2>8. Summary' = [x \in {<<>>} |-> 1]
    BY <2>5, <2>6, <2>7 DEF Summary, SummaryOf
  <2>9. DOMAIN Summary = {}
    BY <2>3 DEF Summary, SummaryOf
  <2>10. SS!Open(<<>>)
    BY <1>1, <2>2, <2>8, <2>9 DEF SS!Open, SS!Monitored, count
  <2>11. QED
    BY <2>10, EmptyContext DEF SS!Next
<1>4. CASE HcctExit
  BY <1>4 DEF HcctExit, treeVars, SS!vars, NodeOf
<1>5. CASE HcctDump
  <2>1. root # Null
    BY <1>2, <1>5 DEF IInv, Lifecycle, HcctDump
  <2>2. DOMAIN Summary # {}
    BY <1>2, <2>1, SummaryFacts
  <2>3. Summary' = [x \in {} |-> 0]
    BY <1>5 DEF HcctDump, Summary, SummaryOf
  <2>4. aux_freq' = [x \in Contexts |-> 0]
    BY <1>5 DEF HcctDump
  <2>5. SS!Close
    BY <1>1, <2>2, <2>3, <2>4 DEF SS!Close, SS!Monitored, count
  <2>6. QED
    BY <2>5 DEF SS!Next
<1>6. ASSUME NEW c \in Calls, HcctEnter(c)
      PROVE  SS!Next
  <2>1. CASE EnterHot(c)
    <3>1. PICK x \in Contexts : /\ x \in DOMAIN Summary
                                /\ Summary' = [Summary EXCEPT ![x] = @ + 1]
                                /\ aux_freq' = [aux_freq EXCEPT ![x] = @ + 1]
      BY <1>2, <2>1, HotRefines
    <3>2. SS!Increment(x)
      <4>1. x \in DOMAIN count /\ count' = [count EXCEPT ![x] = @ + 1]
        BY <1>1, <3>1
      <4>2. QED
        BY <3>1, <4>1 DEF SS!Increment, SS!Monitored, count
    <3>3. QED
      BY <3>2 DEF SS!Next
  <2>2. CASE EnterAdmit(c)
    <3>1. PICK x \in Contexts :
             /\ DOMAIN Summary # {} /\ x \notin DOMAIN Summary
             /\ Cardinality(DOMAIN Summary) < Epsilon
             /\ Summary' = [y \in DOMAIN Summary \cup {x} |-> IF y = x THEN 1 ELSE Summary[y]]
             /\ aux_freq' = [aux_freq EXCEPT ![x] = @ + 1]
      BY <1>2, <2>2, AdmitRefines
    <3>2. SS!Admit(x)
      <4>1. /\ DOMAIN count # {} /\ x \notin DOMAIN count /\ Cardinality(DOMAIN count) < Epsilon
            /\ count' = [y \in DOMAIN count \cup {x} |-> IF y = x THEN 1 ELSE count[y]]
        BY <1>1, <3>1
      <4>2. QED
        BY <3>1, <4>1, SameCardinality, Zenon DEF SS!Admit, SS!Monitored, count
    <3>3. QED
      BY <3>2 DEF SS!Next
  <2>3. CASE EnterEvict(c)
    <3>1. \A i \in Slots : min <= Held[i]
      BY <2>3 DEF EnterEvict, CInv, CountersAccount
    <3>2. PICK x \in Contexts :
             /\ x \notin DOMAIN Summary
             /\ Cardinality(DOMAIN Summary) = Epsilon
             /\ \E v \in DOMAIN Summary :
                  /\ \A y \in DOMAIN Summary : Summary[v] <= Summary[y]
                  /\ Summary' = [y \in (DOMAIN Summary \ {v}) \cup {x} |->
                                   IF y = x THEN Summary[v] + 1 ELSE Summary[y]]
             /\ aux_freq' = [aux_freq EXCEPT ![x] = @ + 1]
      BY <1>2, <2>3, <3>1, EvictRefines
    <3>3. SS!Replace(x)
      <4>1. /\ x \notin DOMAIN count /\ Cardinality(DOMAIN count) = Epsilon
            /\ \E v \in DOMAIN count :
                 /\ \A y \in DOMAIN count : count[v] <= count[y]
                 /\ count' = [y \in (DOMAIN count \ {v}) \cup {x} |->
                                IF y = x THEN count[v] + 1 ELSE count[y]]
        BY <1>1, <3>2
      <4>2. QED
        BY <3>2, <4>1, SameCardinality, Zenon DEF SS!Replace, SS!Minimal, SS!Monitored, count
    <3>4. QED
      BY <3>3 DEF SS!Next
  <2>4. QED
    BY <1>6, <2>1, <2>2, <2>3 DEF HcctEnter, EnterUninitialised
<1>7. CASE UNCHANGED vars
  BY <1>7 DEF vars, treeVars, auxVars, SS!vars, NodeOf
<1>8. QED
  BY <1>3, <1>4, <1>5, <1>6, <1>7 DEF Next

\* The queue with its lazy minimum, pruning and reuse of nodes is an implementation
\* of Space Saving: what it replaces is always an item with the smallest counter.
THEOREM QueueIsSpaceSaving ==
  ASSUME ~EventsOutsideTrace, ~InlineUpdMin, Epsilon # 1
  PROVE  Spec => ImplementsSpaceSaving
<1>1. Init => CInv
  <2>1. Init => IInv
    BY InitEstablishes
  <2>2. QED
    BY <2>1 DEF Init, CInv
<1>2. CInv /\ [Next]_vars => CInv'
  BY StepAccounts
<1>3. Init => SS!Init
  <2> SUFFICES ASSUME Init PROVE SS!Init
    OBVIOUS
  <2>1. monitored = {} /\ aux_freq = [x \in Contexts |-> 0]
    BY DEF Init
  <2>2. QED
    BY <2>1 DEF SS!Init
<1>4. CInv /\ CInv' /\ [Next]_vars => [SS!Next]_SS!vars
  BY StepRefines
<1>5. QED
  BY <1>1, <1>2, <1>3, <1>4, PTL DEF Spec, ImplementsSpaceSaving, SS!Spec
=============================================================================
