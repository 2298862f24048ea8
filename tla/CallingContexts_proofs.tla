----------------------- MODULE CallingContexts_proofs -----------------------
(***************************************************************************)
(* What the proofs about calling context trees need to know of contexts,   *)
(* and of sums over finite sets.                                           *)
(***************************************************************************)
EXTENDS CallingContexts, SequenceTheorems, FiniteSetTheorems, WellFoundedInduction, TLAPS

\* A context is a sequence of calls that is not too long.
LEMMA ContextsAreSequences ==
  ASSUME NEW x
  PROVE  x \in Contexts <=> x \in Seq(Calls) /\ Len(x) <= StackMaxDepth
<1>1. StackMaxDepth \in Nat
  BY DepthAssumption
<1>2. ASSUME x \in Contexts PROVE x \in Seq(Calls) /\ Len(x) <= StackMaxDepth
  BY <1>1, <1>2 DEF Contexts
<1>3. ASSUME x \in Seq(Calls), Len(x) <= StackMaxDepth PROVE x \in Contexts
  <2>1. Len(x) \in 0 .. StackMaxDepth /\ x \in [1 .. Len(x) -> Calls]
    BY <1>1, <1>3
  <2>2. QED
    BY <2>1 DEF Contexts
<1>4. QED
  BY <1>2, <1>3

\* The first i calls of a context are a context of length i.
LEMMA PrefixProperties ==
  ASSUME NEW s \in Contexts, NEW i \in 0 .. Len(s)
  PROVE  /\ Prefix(s, i) \in Contexts
         /\ Len(Prefix(s, i)) = i
         /\ \A j \in 1 .. i : Prefix(s, i)[j] = s[j]
<1>1. s \in Seq(Calls) /\ Len(s) <= StackMaxDepth /\ Len(s) \in Nat /\ StackMaxDepth \in Nat
  BY ContextsAreSequences, DepthAssumption
<1>2. /\ Prefix(s, i) \in Seq(Calls)
      /\ Len(Prefix(s, i)) = i
      /\ \A j \in 1 .. i : Prefix(s, i)[j] = s[j]
  BY <1>1 DEF Prefix
<1>3. QED
  BY <1>1, <1>2, ContextsAreSequences

\* A prefix of a prefix is a prefix.
LEMMA PrefixOfPrefix ==
  ASSUME NEW s \in Contexts, NEW i \in 0 .. Len(s), NEW j \in 0 .. i
  PROVE  Prefix(Prefix(s, i), j) = Prefix(s, j)
<1>1. s \in Seq(Calls) /\ Len(s) \in Nat
  BY ContextsAreSequences
<1>2. QED
  BY <1>1 DEF Prefix

\* A new call does not change the prefixes below it.
LEMMA PrefixOfAppend ==
  ASSUME NEW s \in Contexts, NEW c \in Calls, NEW i \in 0 .. Len(s)
  PROVE  Prefix(Append(s, c), i) = Prefix(s, i)
<1>1. s \in Seq(Calls) /\ Len(s) \in Nat
  BY ContextsAreSequences
<1>2. QED
  BY <1>1 DEF Prefix

\* The longest and the shortest prefix of a context.
LEMMA WholePrefix ==
  ASSUME NEW s \in Contexts
  PROVE  Prefix(s, Len(s)) = s /\ Prefix(s, 0) = Root
<1>1. s \in Seq(Calls) /\ Len(s) \in Nat
  BY ContextsAreSequences
<1>2. QED
  BY <1>1 DEF Prefix, Root

\* A call that fits on the stack leads to a context, whose caller is the old one.
LEMMA AppendContext ==
  ASSUME NEW s \in Contexts, NEW c \in Calls, Len(s) + 1 <= StackMaxDepth
  PROVE  /\ Append(s, c) \in Contexts /\ Append(s, c) # Root
         /\ Len(Append(s, c)) = Len(s) + 1
         /\ Caller(Append(s, c)) = s
<1>1. s \in Seq(Calls) /\ Len(s) \in Nat
  BY ContextsAreSequences
<1>2. Append(s, c) \in Seq(Calls) /\ Len(Append(s, c)) = Len(s) + 1 /\ Append(s, c) # Root
  BY <1>1 DEF Root
<1>3. Append(s, c) \in Contexts
  BY <1>2, ContextsAreSequences
<1>4. Caller(Append(s, c)) = Prefix(Append(s, c), Len(s))
  BY <1>1, <1>2 DEF Caller
<1>5. QED
  BY <1>1, <1>2, <1>3, <1>4, PrefixOfAppend, WholePrefix

\* The caller of a context that is not the root.
LEMMA CallerProperties ==
  ASSUME NEW s \in Contexts, s # Root
  PROVE  /\ Len(s) >= 1 /\ Caller(s) \in Contexts /\ Len(Caller(s)) = Len(s) - 1
         /\ \A i \in 0 .. Len(s) - 1 : Prefix(Caller(s), i) = Prefix(s, i)
<1>1. s \in Seq(Calls) /\ Len(s) \in Nat /\ Len(s) >= 1
  BY ContextsAreSequences DEF Root
<1>2. Len(s) - 1 \in 0 .. Len(s)
  BY <1>1
<1>3. QED
  BY <1>1, <1>2, PrefixProperties, PrefixOfPrefix DEF Caller

\* The root is the context without calls.
LEMMA RootContext == Root \in Contexts
<1>1. Root \in Seq(Calls) /\ Len(Root) <= StackMaxDepth
  BY DepthAssumption DEF Root
<1>2. QED
  BY <1>1, ContextsAreSequences

-----------------------------------------------------------------------------
(* Sums over finite sets.                                                  *)

\* A set of numbers is all of them if it has each that all smaller ones lead to.
LEMMA NatInductionBySets ==
  ASSUME NEW S \in SUBSET Nat,
         \A n \in Nat : (\A m \in 0 .. n - 1 : m \in S) => n \in S
  PROVE  S = Nat
<1>1. SUFFICES ASSUME Nat \ S # {} PROVE FALSE
  OBVIOUS
<1>2. \E x \in Nat \ S : \A y \in Nat \ S : <<y, x>> \notin OpToRel(<, Nat)
  BY <1>1, NatLessThanWellFounded, WFMin, Zenon
<1>3. PICK n \in Nat \ S : \A y \in Nat \ S : <<y, n>> \notin OpToRel(<, Nat)
  BY <1>2
<1>4. \A y \in Nat \ S : ~ (y < n)
  BY <1>3 DEF OpToRel
<1>5. \A m \in 0 .. n - 1 : m \in S
  BY <1>4
<1>6. QED
  BY <1>3, <1>5

\* The element of a set that a fold takes first.
Pick(s) == CHOOSE x \in s : TRUE

\* g sums f over every subset of S as MapThenFoldSet does.
IsSum(f, S, g) ==
  g = [s \in SUBSET S |-> IF s = {} THEN 0 ELSE f[Pick(s)] + g[s \ {Pick(s)}]]

\* The sum of f over S.
SumOf(f, S) == (CHOOSE g : IsSum(f, S, g))[S]

\* What is taken from a set is in it, and leaves a smaller set.
LEMMA PickProperties ==
  ASSUME NEW s, IsFiniteSet(s), s # {}
  PROVE  /\ Pick(s) \in s
         /\ IsFiniteSet(s \ {Pick(s)})
         /\ Cardinality(s) \in Nat \ {0}
         /\ Cardinality(s \ {Pick(s)}) = Cardinality(s) - 1
<1>1. Pick(s) \in s
  BY DEF Pick
<1>2. Cardinality(s) \in Nat /\ Cardinality(s) # 0
  BY FS_CardinalityType, FS_EmptySet
<1>3. QED
  BY <1>1, <1>2, FS_RemoveElement

\* There is such a function: it is made for one size of sets after the other.
LEMMA SumFunctionExists ==
  ASSUME NEW S, IsFiniteSet(S), NEW f
  PROVE  \E g : IsSum(f, S, g)
<1> DEFINE Sized(n) == {s \in SUBSET S : Cardinality(s) <= n}
           Sums(g, n) == g = [s \in Sized(n) |-> IF s = {} THEN 0 ELSE f[Pick(s)] + g[s \ {Pick(s)}]]
           Q(n) == \E g : Sums(g, n)
           T == {n \in Nat : Q(n)}
<1>1. \A s \in SUBSET S : IsFiniteSet(s) /\ Cardinality(s) \in Nat /\ Cardinality(s) <= Cardinality(S)
  BY FS_Subset, FS_CardinalityType
<1>2. ASSUME NEW n \in Nat, \A m \in 0 .. n - 1 : m \in T
      PROVE  n \in T
  <2>1. CASE n = 0
    <3>1. \A s \in Sized(0) : s = {}
      BY <1>1, FS_EmptySet
    <3>2. Sums([s \in Sized(0) |-> 0], 0)
      BY <3>1
    <3>3. QED
      BY <2>1, <3>2
  <2>2. CASE n # 0
    <3>1. n - 1 \in T /\ n - 1 \in Nat
      <4>1. n - 1 \in 0 .. n - 1
        BY <2>2
      <4>2. QED
        BY <1>2, <4>1
    <3>2. PICK h : Sums(h, n - 1)
      BY <3>1
    <3> DEFINE g == [s \in Sized(n) |-> IF s = {} THEN 0 ELSE f[Pick(s)] + h[s \ {Pick(s)}]]
    <3>3. ASSUME NEW s \in Sized(n), s # {}
          PROVE  s \ {Pick(s)} \in Sized(n - 1)
      BY <1>1, <3>1, <3>3, PickProperties
    <3>4. ASSUME NEW s \in Sized(n - 1)
          PROVE  s \in Sized(n) /\ g[s] = h[s]
      <4>1. s \in Sized(n)
        BY <1>1, <3>1
      <4>2. QED
        BY <3>2, <4>1
    <3>5. \A s \in Sized(n) : g[s] = IF s = {} THEN 0 ELSE f[Pick(s)] + g[s \ {Pick(s)}]
      <4>1. TAKE s \in Sized(n)
      <4>2. CASE s = {}
        BY <4>2
      <4>3. CASE s # {}
        <5>1. g[s \ {Pick(s)}] = h[s \ {Pick(s)}]
          BY <3>3, <3>4, <4>3
        <5>2. g[s] = f[Pick(s)] + h[s \ {Pick(s)}]
          BY <4>3
        <5>. HIDE DEF g
        <5>3. QED
          BY <5>1, <5>2, <4>3
      <4>4. QED
        BY <4>2, <4>3
    <3>6. Sums(g, n)
      BY <3>5
    <3>7. QED
      BY <3>6
  <2>3. QED
    BY <2>1, <2>2
<1>3. T = Nat
  <2>. HIDE DEF Q
  <2>. QED BY <1>2, NatInductionBySets
<1>4. PICK g : Sums(g, Cardinality(S))
  <2>1. Cardinality(S) \in T
    BY <1>3, FS_CardinalityType
  <2>. QED BY <2>1
<1>5. Sized(Cardinality(S)) = SUBSET S
  BY <1>1
<1>6. QED
  BY <1>4, <1>5 DEF IsSum

\* Two functions agree on a set.
Agree(f, e, U) == \A x \in U : f[x] = e[x]

\* Sums of functions that agree are the same, also over subsets of what each sums.
LEMMA SumFunctionIsUnique ==
  ASSUME NEW S, NEW R, IsFiniteSet(S), NEW f, NEW e, NEW g, NEW h,
         IsSum(f, S, g), IsSum(e, R, h),
         NEW U \in SUBSET S, U \subseteq R, Agree(f, e, U)
  PROVE  g[U] = h[U]
<1> DEFINE Q(n) == \A s \in SUBSET U : Cardinality(s) = n => g[s] = h[s]
           T == {n \in Nat : Q(n)}
<1>1. \A s \in SUBSET U : IsFiniteSet(s) /\ Cardinality(s) \in Nat
  BY FS_Subset, FS_CardinalityType
<1>2. ASSUME NEW n \in Nat, \A m \in 0 .. n - 1 : m \in T
      PROVE  n \in T
  <2>1. SUFFICES ASSUME NEW s \in SUBSET U, Cardinality(s) = n PROVE g[s] = h[s]
    OBVIOUS
  <2>2. CASE s = {}
    BY <2>2 DEF IsSum
  <2>3. CASE s # {}
    <3> DEFINE r == s \ {Pick(s)}
    <3>1. /\ Pick(s) \in s /\ r \in SUBSET U
          /\ n \in Nat \ {0} /\ Cardinality(r) = n - 1
      BY <1>1, <2>1, <2>3, PickProperties
    <3>2. n - 1 \in T
      BY <1>2, <3>1
    <3>3. g[r] = h[r]
      BY <3>1, <3>2
    <3>4. s \in SUBSET S /\ s \in SUBSET R
      OBVIOUS
    <3>5. g[s] = f[Pick(s)] + g[r]
      BY <2>3, <3>4 DEF IsSum
    <3>6. h[s] = e[Pick(s)] + h[r]
      BY <2>3, <3>4 DEF IsSum
    <3>7. f[Pick(s)] = e[Pick(s)]
      BY <3>1 DEF Agree
    <3>8. QED
      BY <3>3, <3>5, <3>6, <3>7
  <2>4. QED
    BY <2>2, <2>3
<1>3. T = Nat
  <2>. HIDE DEF Q
  <2>. QED BY <1>2, NatInductionBySets
<1>4. Cardinality(U) \in T
  BY <1>1, <1>3
<1>5. QED
  BY <1>4

\* Any such function gives the sum, of S and of its subsets.
LEMMA SumIsSumOf ==
  ASSUME NEW S, IsFiniteSet(S), NEW f, NEW g, IsSum(f, S, g), NEW U \in SUBSET S
  PROVE  g[U] = SumOf(f, U)
<1>1. IsFiniteSet(U)
  BY FS_Subset
<1>2. \E h : IsSum(f, U, h)
  BY <1>1, SumFunctionExists
<1> DEFINE h == CHOOSE k : IsSum(f, U, k)
<1>3. IsSum(f, U, h)
  BY <1>2
<1>4. SumOf(f, U) = h[U]
  BY DEF SumOf
<1>. HIDE DEF h
<1>5. Agree(f, f, U)
  BY DEF Agree
<1>6. g[U] = h[U]
  BY <1>3, <1>5, SumFunctionIsUnique
<1>7. QED
  BY <1>4, <1>6

\* Nothing sums up to 0.
LEMMA SumOfNone ==
  ASSUME NEW f
  PROVE  SumOf(f, {}) = 0
<1>1. IsFiniteSet({})
  BY FS_EmptySet
<1>2. PICK g : IsSum(f, {}, g)
  BY <1>1, SumFunctionExists
<1>3. g[{}] = SumOf(f, {})
  BY <1>1, <1>2, SumIsSumOf
<1>4. g[{}] = 0
  BY <1>2 DEF IsSum
<1>5. QED
  BY <1>3, <1>4

\* A sum of numbers is a number, and any of them can be taken out first.
LEMMA SumProperties ==
  ASSUME NEW S, IsFiniteSet(S), NEW f, \A x \in S : f[x] \in Int
  PROVE  /\ SumOf(f, S) \in Int
         /\ \A a \in S : SumOf(f, S) = f[a] + SumOf(f, S \ {a})
<1>1. PICK g : IsSum(f, S, g)
  BY SumFunctionExists
<1>2. \A s \in SUBSET S : IsFiniteSet(s) /\ Cardinality(s) \in Nat
  BY FS_Subset, FS_CardinalityType
<1> DEFINE Q(n) == \A s \in SUBSET S : Cardinality(s) = n =>
                     g[s] \in Int /\ \A a \in s : g[s] = f[a] + g[s \ {a}]
           T == {n \in Nat : Q(n)}
<1>3. ASSUME NEW n \in Nat, \A m \in 0 .. n - 1 : m \in T
      PROVE  n \in T
  <2>1. SUFFICES ASSUME NEW s \in SUBSET S, Cardinality(s) = n
                 PROVE  g[s] \in Int /\ \A a \in s : g[s] = f[a] + g[s \ {a}]
    OBVIOUS
  <2>2. CASE s = {}
    <3>1. g[s] = 0
      BY <1>1, <2>2 DEF IsSum
    <3>2. QED
      BY <2>2, <3>1
  <2>3. CASE s # {}
    <3> DEFINE p == Pick(s)
    <3>1. /\ p \in s /\ s \ {p} \in SUBSET S
          /\ n \in Nat \ {0}
      BY <1>2, <2>1, <2>3, PickProperties
    <3>2. n - 1 \in T /\ n - 1 \in Nat
      <4>1. n - 1 \in 0 .. n - 1
        BY <3>1
      <4>2. QED
        BY <1>3, <4>1
    <3>3. ASSUME NEW a \in s
          PROVE  /\ Cardinality(s \ {a}) = n - 1
                 /\ s \ {a} \in SUBSET S
                 /\ g[s \ {a}] \in Int
                 /\ \A b \in s \ {a} : g[s \ {a}] = f[b] + g[(s \ {a}) \ {b}]
      <4>1. Cardinality(s \ {a}) = n - 1
        BY <1>2, <2>1, FS_RemoveElement
      <4>2. QED
        BY <3>2, <4>1
    <3>. HIDE DEF T, p
    <3>4. g[s] = f[p] + g[s \ {p}]
      BY <1>1, <2>3 DEF IsSum, p
    <3>5. g[s] \in Int
      <4>1. g[s \ {p}] \in Int /\ f[p] \in Int
        BY <3>1, <3>3
      <4>2. QED
        BY <3>4, <4>1
    <3>6. ASSUME NEW a \in s, a # p
          PROVE  g[s] = f[a] + g[s \ {a}]
      <4>1. g[s \ {p}] = f[a] + g[(s \ {p}) \ {a}]
        BY <3>1, <3>3, <3>6
      <4>2. g[s \ {a}] = f[p] + g[(s \ {a}) \ {p}]
        BY <3>1, <3>3, <3>6
      <4>3. (s \ {p}) \ {a} = (s \ {a}) \ {p}
        OBVIOUS
      <4>4. f[a] \in Int /\ f[p] \in Int
        BY <3>1
      <4>5. g[(s \ {a}) \ {p}] \in Int
        <5>1. (s \ {a}) \ {p} \in SUBSET S
          OBVIOUS
        <5>2. Cardinality((s \ {a}) \ {p}) \in 0 .. n - 1
          <6>1. IsFiniteSet(s \ {a}) /\ p \in s \ {a} /\ Cardinality(s \ {a}) = n - 1 /\ Cardinality(s \ {a}) \in Nat
            BY <1>2, <3>1, <3>3, <3>6
          <6>2. Cardinality((s \ {a}) \ {p}) = n - 1 - 1
            <7> DEFINE r == s \ {a}
            <7>. HIDE DEF r
            <7>1. Cardinality(r \ {p}) = Cardinality(r) - 1
              BY <6>1, FS_RemoveElement DEF r
            <7>2. QED
              BY <6>1, <7>1 DEF r
          <6>3. Cardinality((s \ {a}) \ {p}) \in Nat
            BY <1>2, <5>1
          <6>4. QED
            BY <3>1, <6>2, <6>3
        <5>3. Cardinality((s \ {a}) \ {p}) \in T
          BY <1>3, <5>2
        <5>4. QED
          BY <5>1, <5>3 DEF T
      <4>6. g[s] = f[p] + (f[a] + g[(s \ {a}) \ {p}])
        BY <3>4, <4>1, <4>3
      <4> DEFINE u == g[(s \ {a}) \ {p}]
                 v == g[s \ {a}]
                 w == g[s]
      <4>7. u \in Int /\ v = f[p] + u /\ w = f[p] + (f[a] + u)
        BY <4>2, <4>5, <4>6
      <4>. HIDE DEF u, v, w
      <4>8. w = f[a] + v
        BY <4>4, <4>7
      <4>9. QED
        BY <4>8 DEF v, w
    <3>7. QED
      BY <3>4, <3>5, <3>6
  <2>4. QED
    BY <2>2, <2>3
<1>4. T = Nat
  <2>. HIDE DEF Q
  <2>. QED BY <1>3, NatInductionBySets
<1>5. Cardinality(S) \in T
  BY <1>2, <1>4
<1>6. g[S] \in Int /\ \A a \in S : g[S] = f[a] + g[S \ {a}]
  BY <1>5
<1>7. \A s \in SUBSET S : g[s] = SumOf(f, s)
  BY <1>1, SumIsSumOf
<1>8. QED
  BY <1>6, <1>7

\* The sum of what is equal is equal.
LEMMA SumOfSame ==
  ASSUME NEW S, IsFiniteSet(S), NEW f, NEW e, \A x \in S : f[x] = e[x]
  PROVE  SumOf(f, S) = SumOf(e, S)
<1>1. PICK g : IsSum(f, S, g)
  BY SumFunctionExists
<1>2. PICK h : IsSum(e, S, h)
  BY SumFunctionExists
<1> DEFINE U == S
<1>3. U \in SUBSET S /\ Agree(f, e, U)
  BY DEF Agree
<1>. HIDE DEF U
<1>4. g[U] = h[U]
  BY <1>1, <1>2, <1>3, SumFunctionIsUnique
<1>5. g[U] = SumOf(f, U) /\ h[U] = SumOf(e, U)
  BY <1>1, <1>2, <1>3, SumIsSumOf
<1>6. QED
  BY <1>4, <1>5 DEF U

\* If one summand changes, the sum changes by as much.
LEMMA SumOfChanged ==
  ASSUME NEW S, IsFiniteSet(S), NEW f, NEW e, NEW a \in S,
         \A x \in S : f[x] \in Int, \A x \in S : e[x] \in Int,
         Agree(f, e, S \ {a})
  PROVE  SumOf(e, S) = SumOf(f, S) + e[a] - f[a]
<1>1. IsFiniteSet(S \ {a})
  BY FS_RemoveElement
<1>2. SumOf(f, S \ {a}) = SumOf(e, S \ {a})
  BY <1>1, SumOfSame DEF Agree
<1>3. SumOf(f, S) = f[a] + SumOf(f, S \ {a})
  BY SumProperties
<1>4. SumOf(e, S) = e[a] + SumOf(e, S \ {a})
  BY SumProperties
<1>5. f[a] \in Int /\ e[a] \in Int /\ SumOf(f, S \ {a}) \in Int
  BY <1>1, SumProperties
<1>6. QED
  BY <1>2, <1>3, <1>4, <1>5

\* More summands, all of them 0, leave the sum what it is.
LEMMA SumOfMore ==
  ASSUME NEW S, NEW R, IsFiniteSet(R), S \subseteq R, NEW f,
         \A x \in R : f[x] \in Int, \A x \in R \ S : f[x] = 0
  PROVE  SumOf(f, R) = SumOf(f, S)
<1> DEFINE Q(n) == \A s \in SUBSET R : S \subseteq s /\ Cardinality(s) = n => SumOf(f, s) = SumOf(f, S)
           T == {n \in Nat : Q(n)}
<1>1. \A s \in SUBSET R : IsFiniteSet(s) /\ Cardinality(s) \in Nat
  BY FS_Subset, FS_CardinalityType
<1>2. ASSUME NEW n \in Nat, \A m \in 0 .. n - 1 : m \in T
      PROVE  n \in T
  <2>1. SUFFICES ASSUME NEW s \in SUBSET R, S \subseteq s, Cardinality(s) = n
                 PROVE  SumOf(f, s) = SumOf(f, S)
    OBVIOUS
  <2>2. CASE s = S
    BY <2>2
  <2>3. CASE s # S
    <3>1. PICK a \in s : a \notin S
      BY <2>1, <2>3
    <3>2. Cardinality(s \ {a}) = n - 1 /\ n - 1 \in 0 .. n - 1
      <4>1. Cardinality(s \ {a}) = n - 1
        BY <1>1, <2>1, <3>1, FS_RemoveElement
      <4>2. Cardinality(s \ {a}) \in Nat
        BY <1>1
      <4>3. QED
        BY <4>1, <4>2
    <3>3. s \ {a} \in SUBSET R /\ S \subseteq s \ {a}
      BY <2>1, <3>1
    <3>4. SumOf(f, s \ {a}) = SumOf(f, S)
      BY <1>2, <3>2, <3>3
    <3>5. SumOf(f, s) = f[a] + SumOf(f, s \ {a}) /\ SumOf(f, s \ {a}) \in Int
      <4>1. IsFiniteSet(s) /\ IsFiniteSet(s \ {a})
        BY <1>1
      <4>2. \A x \in s : f[x] \in Int
        OBVIOUS
      <4>3. SumOf(f, s) = f[a] + SumOf(f, s \ {a})
        BY <3>1, <4>1, <4>2, SumProperties
      <4>4. SumOf(f, s \ {a}) \in Int
        BY <4>1, <4>2, SumProperties
      <4>5. QED
        BY <4>3, <4>4
    <3>6. f[a] = 0
      BY <3>1
    <3>7. QED
      BY <3>4, <3>5, <3>6
  <2>4. QED
    BY <2>2, <2>3
<1>3. T = Nat
  <2>. HIDE DEF Q
  <2>. QED BY <1>2, NatInductionBySets
<1>4. Cardinality(R) \in T
  BY <1>1, <1>3
<1>5. QED
  BY <1>4
=============================================================================
