-------------------------- MODULE Containers_proofs --------------------------
(* Proofs about the containers of the Leonardo library: the heap is a        *)
(* priority queue whose slots stay where they are, the circular array is a   *)
(* queue, the stack on disk is a stack, and data stores and archives keep    *)
(* the blocks that callers put into them.                                    *)
EXTENDS MCContainers, SequenceTheorems, FiniteSetTheorems, NaturalsInduction, WellFoundedInduction, TLAPS

\* A nonempty set of numbers has a least element.
LEMMA NatHasLeast ==
  ASSUME NEW S \in SUBSET Nat, S # {}
  PROVE  \E i \in S : \A j \in S : i <= j
<1>1. \E x \in S : \A y \in S : <<y, x>> \notin OpToRel(<, Nat)
  BY NatLessThanWellFounded, WFMin, Zenon
<1>2. PICK x \in S : \A y \in S : <<y, x>> \notin OpToRel(<, Nat)
  BY <1>1
<1>3. \A y \in S : ~ (y < x)
  BY <1>2 DEF OpToRel
<1>. QED BY <1>3

\* LFile_Write at an offset that is in the file: what was in front stays, the
\* new cells follow, and so does what lies behind them.
LEMMA WrittenCells ==
  ASSUME NEW f \in Seq(Nat), NEW o \in 0 .. Len(f), NEW s \in Seq(Nat)
  PROVE  /\ WrittenAt(f, o, s) \in Seq(Nat)
         /\ Len(WrittenAt(f, o, s)) = Larger(Len(f), o + Len(s))
         /\ \A i \in 1 .. Len(s) : WrittenAt(f, o, s)[o + i] = s[i]
         /\ \A i \in 1 .. Len(f) : i \notin o + 1 .. o + Len(s) => WrittenAt(f, o, s)[i] = f[i]
<1>. DEFINE n == Larger(Len(f), o + Len(s))
            w == WrittenAt(f, o, s)
<1>1. /\ n \in Nat /\ Len(f) \in Nat /\ Len(s) \in Nat /\ o \in Nat
      /\ n >= Len(f) /\ n >= o + Len(s) /\ (n = Len(f) \/ n = o + Len(s))
  BY DEF Larger
<1>2. \A i \in 1 .. n : (IF i \in o + 1 .. o + Len(s) THEN s[i - o]
                         ELSE IF i <= Len(f) THEN f[i] ELSE 0) \in Nat
  BY <1>1
<1>3. w = [i \in 1 .. n |-> IF i \in o + 1 .. o + Len(s) THEN s[i - o]
                            ELSE IF i <= Len(f) THEN f[i] ELSE 0]
  BY DEF WrittenAt
<1>4. w \in [1 .. n -> Nat]
  BY <1>2, <1>3
<1>5. w \in Seq(Nat) /\ Len(w) = n
  <2>. HIDE DEF w, n
  <2>1. w \in Seq(Nat)
    BY <1>1, <1>4, IsASeq
  <2>2. DOMAIN w = 1 .. Len(w) /\ Len(w) \in Nat
    BY <2>1, LenProperties
  <2>. QED BY <1>1, <1>4, <2>1, <2>2
<1>6. \A i \in 1 .. Len(s) : w[o + i] = s[i]
  BY <1>1, <1>3
<1>7. \A i \in 1 .. Len(f) : i \notin o + 1 .. o + Len(s) => w[i] = f[i]
  BY <1>1, <1>3
<1>. QED BY <1>5, <1>6, <1>7

\* The part of a file up to the end of what was written.
LEMMA WrittenPrefix ==
  ASSUME NEW f \in Seq(Nat), NEW o \in 0 .. Len(f), NEW s \in Seq(Nat)
  PROVE  /\ o + Len(s) <= Len(WrittenAt(f, o, s))
         /\ SubSeq(WrittenAt(f, o, s), 1, o + Len(s)) = SubSeq(f, 1, o) \o s
<1>. DEFINE w == WrittenAt(f, o, s)
            left == SubSeq(w, 1, o + Len(s))
            right == SubSeq(f, 1, o) \o s
<1>1. /\ w \in Seq(Nat) /\ Len(w) >= o + Len(s) /\ Len(w) >= Len(f)
      /\ \A i \in 1 .. Len(s) : w[o + i] = s[i]
      /\ \A i \in 1 .. Len(f) : i \notin o + 1 .. o + Len(s) => w[i] = f[i]
  BY WrittenCells DEF Larger
<1>2. Len(s) \in Nat /\ Len(f) \in Nat /\ Len(w) \in Nat /\ o \in Nat
  BY <1>1
<1>. HIDE DEF w
<1>3. /\ left \in Seq(Nat) /\ Len(left) = o + Len(s)
      /\ \A i \in 1 .. o + Len(s) : left[i] = w[i]
  BY <1>1, <1>2, SubSeqProperties
<1>4. /\ SubSeq(f, 1, o) \in Seq(Nat) /\ Len(SubSeq(f, 1, o)) = o
      /\ \A i \in 1 .. o : SubSeq(f, 1, o)[i] = f[i]
  BY <1>2, SubSeqProperties
<1>5. /\ right \in Seq(Nat) /\ Len(right) = o + Len(s)
      /\ \A i \in 1 .. o : right[i] = f[i]
      /\ \A i \in o + 1 .. o + Len(s) : right[i] = s[i - o]
  BY <1>2, <1>4, ConcatProperties
<1>6. \A i \in 1 .. o + Len(s) : w[i] = IF i <= o THEN f[i] ELSE s[i - o]
  <2>. TAKE i \in 1 .. o + Len(s)
  <2>1. CASE i <= o
    BY <1>1, <1>2, <2>1
  <2>2. CASE i > o
    <3>1. i - o \in 1 .. Len(s) /\ o + (i - o) = i
      BY <1>2, <2>2
    <3>. QED BY <1>1, <1>2, <2>2, <3>1
  <2>. QED BY <1>2, <2>1, <2>2
<1>7. \A i \in 1 .. o + Len(s) : left[i] = right[i]
  BY <1>2, <1>3, <1>5, <1>6
<1>. HIDE DEF left, right
<1>8. left = right
  BY <1>2, <1>3, <1>5, <1>7, SeqEqual
<1>. QED BY <1>1, <1>8 DEF left, right, w

----------------------------------------------------------------------------
\* Three sequences, one after the other.
LEMMA ConcatCells ==
  ASSUME NEW s \in Seq(Nat), NEW t \in Seq(Nat), NEW u \in Seq(Nat)
  PROVE  (s \o t) \o u = s \o (t \o u) /\ s \o t \in Seq(Nat) /\ Len(s \o t) = Len(s) + Len(t)
<1>1. (s \o t) \o u = s \o (t \o u)
  BY ConcatAssociative
<1>2. s \o t \in Seq(Nat) /\ Len(s \o t) = Len(s) + Len(t)
  BY ConcatProperties
<1>. QED BY <1>1, <1>2

\* A sequence is cut in two.
LEMMA CutCells ==
  ASSUME NEW s \in Seq(Nat), NEW n \in Nat, NEW m \in Nat, m <= n, n <= Len(s)
  PROVE  /\ SubSeq(s, 1, m) \in Seq(Nat) /\ Len(SubSeq(s, 1, m)) = m
         /\ SubSeq(s, m + 1, n) \in Seq(Nat) /\ Len(SubSeq(s, m + 1, n)) = n - m
         /\ SubSeq(s, 1, n) = SubSeq(s, 1, m) \o SubSeq(s, m + 1, n)
<1>1. SubSeq(s, 1, m) \in Seq(Nat) /\ Len(SubSeq(s, 1, m)) = m
  BY SubSeqProperties
<1>2. SubSeq(s, m + 1, n) \in Seq(Nat) /\ Len(SubSeq(s, m + 1, n)) = n - m
  BY SubSeqProperties
<1>3. SubSeq(s, 1, m) \o SubSeq(s, m + 1, n) = SubSeq(s, 1, n)
  <2>1. 1 \in 1 .. Len(s) + 1 /\ m \in 1 - 1 .. Len(s) /\ n \in m .. Len(s)
    OBVIOUS
  <2>. QED BY <2>1, ConcatAdjacentSubSeq
<1>. QED BY <1>1, <1>2, <1>3

\* The parts of the stack are sequences, and the file holds what is counted.
StackInv ==
  /\ MemBuffer \in Seq(Nat) /\ FileBuffer \in Seq(Nat)
  /\ FileBufferSize \in 0 .. Len(FileBuffer)

\* What a call of LDiskStack_Push or LDiskStack_Pop does to the stack as a whole.
StackStep ==
  \/ \E cells \in BlockWrites : Stacked' = Stacked \o cells
  \/ Stacked = Stacked' \o popped'

\* A push keeps the parts in shape and adds its cells at the end.
LEMMA PushAppends ==
  ASSUME StackInv, NEW cells \in BlockWrites, Push(cells)
  PROVE  StackInv' /\ Stacked' = Stacked \o cells
<1>. DEFINE below == SubSeq(FileBuffer, 1, FileBufferSize)
<1>1. cells \in Seq(Nat)
  BY BlocksAssumption
<1>2. below \in Seq(Nat)
  BY CutCells DEF StackInv
<1>3. CASE Len(cells) >= MemBufferSize - Len(MemBuffer)
  <2>. DEFINE out == MemBuffer \o cells
              w == WrittenAt(FileBuffer, FileBufferSize, out)
  <2>1. /\ FileBuffer' = w /\ FileBufferSize' = FileBufferSize + Len(cells) + Len(MemBuffer)
        /\ MemBuffer' = <<>>
    BY <1>3 DEF Push, Flushed
  <2>2. out \in Seq(Nat) /\ Len(out) = Len(MemBuffer) + Len(cells)
    BY <1>1, ConcatCells DEF StackInv
  <2>. HIDE DEF out
  <2>3. /\ w \in Seq(Nat)
        /\ FileBufferSize + Len(out) <= Len(w)
        /\ SubSeq(w, 1, FileBufferSize + Len(out)) = below \o out
    BY <2>2, WrittenCells, WrittenPrefix DEF StackInv
  <2>. HIDE DEF w
  <2>4. FileBufferSize' = FileBufferSize + Len(out)
    BY <1>1, <2>1, <2>2 DEF StackInv
  <2>5. StackInv'
    BY <2>1, <2>2, <2>3, <2>4 DEF StackInv
  <2>. HIDE DEF below
  <2>6. below \o out \in Seq(Nat)
    BY <1>2, <2>2, ConcatCells
  <2>7. Stacked' = (below \o out) \o <<>>
    BY <2>1, <2>3, <2>4 DEF Stacked
  <2>8. (below \o out) \o <<>> = below \o out
    BY <2>6, ConcatEmptySeq
  <2>9. below \o out = (below \o MemBuffer) \o cells
    BY <1>1, <1>2, ConcatCells DEF StackInv, out
  <2>. QED BY <2>5, <2>7, <2>8, <2>9 DEF Stacked, below
<1>4. CASE ~ (Len(cells) >= MemBufferSize - Len(MemBuffer))
  <2>1. MemBuffer' = MemBuffer \o cells /\ UNCHANGED <<FileBuffer, FileBufferSize>>
    BY <1>4 DEF Push
  <2>2. StackInv'
    BY <1>1, <2>1, ConcatCells DEF StackInv
  <2>. HIDE DEF below
  <2>3. Stacked' = below \o (MemBuffer \o cells)
    BY <2>1 DEF Stacked, below
  <2>4. below \o (MemBuffer \o cells) = (below \o MemBuffer) \o cells
    BY <1>1, <1>2, ConcatCells DEF StackInv
  <2>. QED BY <2>2, <2>3, <2>4 DEF Stacked, below
<1>. QED BY <1>3, <1>4

\* A pop keeps the parts in shape and returns the end of the stack.
LEMMA PopReturnsEnd ==
  ASSUME StackInv, NEW size \in Nat, Pop(size)
  PROVE  StackInv' /\ Stacked = Stacked' \o popped'
<1>. DEFINE rest == size - Len(MemBuffer)
            below == SubSeq(FileBuffer, 1, FileBufferSize)
<1>1. rest \in Int /\ rest <= FileBufferSize /\ FileBuffer' = FileBuffer /\ Len(MemBuffer) \in Nat
  BY DEF Pop, StackInv
<1>2. CASE rest > 0
  <2>. DEFINE keep == SubSeq(FileBuffer, 1, FileBufferSize - rest)
              out == SubSeq(FileBuffer, FileBufferSize - rest + 1, FileBufferSize)
  <2>1. /\ popped' = out \o MemBuffer /\ FileBufferSize' = FileBufferSize - rest
        /\ MemBuffer' = <<>>
    BY <1>2 DEF Pop
  <2>2. FileBufferSize - rest \in Nat /\ FileBufferSize \in Nat
        /\ FileBufferSize - rest <= FileBufferSize /\ FileBufferSize <= Len(FileBuffer)
    BY <1>1, <1>2 DEF StackInv
  <2>3. keep \in Seq(Nat) /\ out \in Seq(Nat) /\ below = keep \o out
    BY <2>2, CutCells DEF StackInv
  <2>4. StackInv'
    BY <1>1, <2>1, <2>2 DEF StackInv
  <2>5. Stacked' = keep \o <<>>
    BY <1>1, <2>1 DEF Stacked
  <2>. HIDE DEF keep, out, below
  <2>6. keep \o <<>> = keep
    BY <2>3, ConcatEmptySeq
  <2>7. (keep \o out) \o MemBuffer = keep \o (out \o MemBuffer)
    BY <2>3, ConcatCells DEF StackInv
  <2>8. Stacked = below \o MemBuffer
    BY DEF Stacked, below
  <2>. QED BY <2>1, <2>3, <2>4, <2>5, <2>6, <2>7, <2>8
<1>3. CASE ~ (rest > 0)
  <2>. DEFINE m == Len(MemBuffer) - size
              keep == SubSeq(MemBuffer, 1, m)
              out == SubSeq(MemBuffer, m + 1, Len(MemBuffer))
  <2>1. popped' = out /\ MemBuffer' = keep /\ UNCHANGED <<FileBuffer, FileBufferSize>>
    BY <1>3 DEF Pop
  <2>2. m \in Nat /\ m <= Len(MemBuffer)
    BY <1>1, <1>3
  <2>. HIDE DEF m
  <2>3. keep \in Seq(Nat) /\ out \in Seq(Nat) /\ SubSeq(MemBuffer, 1, Len(MemBuffer)) = keep \o out
    <3>1. MemBuffer \in Seq(Nat) /\ Len(MemBuffer) \in Nat /\ Len(MemBuffer) <= Len(MemBuffer)
      BY <1>1 DEF StackInv
    <3>. QED BY <2>2, <3>1, CutCells
  <2>4. MemBuffer = keep \o out
    BY <2>3, SubSeqFull DEF StackInv
  <2>5. StackInv'
    BY <2>1, <2>3 DEF StackInv
  <2>6. below \in Seq(Nat)
    BY CutCells DEF StackInv
  <2>. HIDE DEF keep, out
  <2>7. Stacked' = below \o keep
    BY <2>1 DEF Stacked
  <2>8. Stacked = below \o (keep \o out)
    BY <2>4 DEF Stacked
  <2>. HIDE DEF below
  <2>9. (below \o keep) \o out = below \o (keep \o out)
    BY <2>3, <2>6, ConcatCells
  <2>. QED BY <2>1, <2>5, <2>7, <2>8, <2>9
<1>. QED BY <1>2, <1>3

\* Each call keeps the parts and is one of a stack.
LEMMA DiskCallKeeps ==
  ASSUME StackInv, [DiskNext]_blocksVars
  PROVE  StackInv' /\ [StackStep]_diskVars
<1>1. ASSUME NEW cells \in BlockWrites, Push(cells) PROVE StackInv' /\ [StackStep]_diskVars
  BY <1>1, PushAppends DEF StackStep
<1>2. ASSUME NEW size \in 0 .. MaxBlockCells, Pop(size) PROVE StackInv' /\ [StackStep]_diskVars
  <2>1. size \in Nat
    BY BlocksAssumption
  <2>. QED BY <1>2, <2>1, PopReturnsEnd DEF StackStep
<1>3. CASE UNCHANGED blocksVars
  BY <1>3 DEF blocksVars, diskVars, StackInv
<1>. QED BY <1>1, <1>2, <1>3 DEF DiskNext

\* Nothing is on it at first.
LEMMA StackInvInit == BlocksInit => StackInv
  BY EmptySeq DEF BlocksInit, StackInv

\* LDiskStack is a stack: a push adds its cells at the end of all that is in
\* file and memory, and what a pop returns was there.
THEOREM DiskStackIsStack == DiskSpec => IsStack
<1>1. DiskSpec => [][StackStep]_diskVars
  BY StackInvInit, DiskCallKeeps, PTL DEF DiskSpec
<1>. QED BY <1>1 DEF IsStack, StackStep

----------------------------------------------------------------------------
\* What is in a sequence that is made of two.
LEMMA ConcatItems ==
  ASSUME NEW S, NEW s \in Seq(S), NEW t \in Seq(S)
  PROVE  /\ s \o t \in Seq(S) /\ Len(s \o t) = Len(s) + Len(t)
         /\ \A i \in 1 .. Len(s) : (s \o t)[i] = s[i]
         /\ \A i \in 1 .. Len(t) : (s \o t)[Len(s) + i] = t[i]
<1>. DEFINE u == s \o t
<1>1. /\ u \in Seq(S) /\ Len(u) = Len(s) + Len(t)
      /\ \A i \in 1 .. Len(s) + Len(t) : u[i] = IF i <= Len(s) THEN s[i] ELSE t[i - Len(s)]
  BY ConcatProperties
<1>2. Len(s) \in Nat /\ Len(t) \in Nat
  OBVIOUS
<1>. HIDE DEF u
<1>3. \A i \in 1 .. Len(s) : u[i] = s[i]
  BY <1>1, <1>2
<1>4. ASSUME NEW i \in 1 .. Len(t) PROVE u[Len(s) + i] = t[i]
  <2>1. Len(s) + i \in 1 .. Len(s) + Len(t) /\ ~ (Len(s) + i <= Len(s))
        /\ (Len(s) + i) - Len(s) = i
    BY <1>2
  <2>. QED BY <1>1, <2>1
<1>. QED BY <1>1, <1>3, <1>4 DEF u

\* A part of a sequence.
LEMMA PartItems ==
  ASSUME NEW S, NEW s \in Seq(S), NEW m \in Nat, NEW n \in Nat, m + n <= Len(s)
  PROVE  /\ SubSeq(s, m + 1, m + n) \in Seq(S) /\ Len(SubSeq(s, m + 1, m + n)) = n
         /\ \A i \in 1 .. n : SubSeq(s, m + 1, m + n)[i] = s[m + i]
<1>. DEFINE u == SubSeq(s, m + 1, m + n)
<1>1. \A i \in m + 1 .. m + n : s[i] \in S
  OBVIOUS
<1>2. m + 1 \in Int /\ m + n \in Int /\ (m + n) - (m + 1) + 1 = n
  OBVIOUS
<1>3. /\ u \in Seq(S) /\ Len(u) = IF m + 1 <= m + n THEN (m + n) - (m + 1) + 1 ELSE 0
      /\ \A i \in 1 .. (m + n) - (m + 1) + 1 : u[i] = s[(m + 1) + i - 1]
  BY <1>1, <1>2, SubSeqProperties
<1>4. Len(u) = n
  BY <1>3
<1>5. ASSUME NEW i \in 1 .. n PROVE u[i] = s[m + i]
  <2>1. (m + 1) + i - 1 = m + i
    OBVIOUS
  <2>. QED BY <1>2, <1>3, <2>1
<1>. QED BY <1>3, <1>4, <1>5

\* LArray_InsertItemAt: an item is put at a place of a sequence.
LEMMA InsertProperties ==
  ASSUME NEW S, NEW s \in Seq(S), NEW k \in 1 .. Len(s) + 1, NEW e \in S
  PROVE  /\ InsertAt(s, k, e) \in Seq(S) /\ Len(InsertAt(s, k, e)) = Len(s) + 1
         /\ \A i \in 1 .. k - 1 : InsertAt(s, k, e)[i] = s[i]
         /\ InsertAt(s, k, e)[k] = e
         /\ \A i \in k .. Len(s) : InsertAt(s, k, e)[i + 1] = s[i]
<1>. DEFINE a == SubSeq(s, 1, k - 1)
            b == SubSeq(s, k, Len(s))
            u == <<e>>
            v == a \o u
<1>1. Len(s) \in Nat /\ k \in Nat /\ k - 1 \in Nat
  OBVIOUS
<1>2. a \in Seq(S) /\ Len(a) = k - 1 /\ \A i \in 1 .. k - 1 : a[i] = s[i]
  BY <1>1, SubSeqProperties
<1>3. b \in Seq(S) /\ Len(b) = Len(s) - k + 1 /\ \A i \in 1 .. Len(s) - k + 1 : b[i] = s[k - 1 + i]
  <2>1. (k - 1) + 1 = k /\ (k - 1) + (Len(s) - k + 1) = Len(s) /\ Len(s) - k + 1 \in Nat
        /\ (k - 1) + (Len(s) - k + 1) <= Len(s)
    BY <1>1
  <2>2. b = SubSeq(s, (k - 1) + 1, (k - 1) + (Len(s) - k + 1))
    BY <2>1
  <2>. HIDE DEF b
  <2>. QED BY <1>1, <2>1, <2>2, PartItems
<1>4. u \in Seq(S) /\ Len(u) = 1 /\ u[1] = e
  OBVIOUS
<1>5. InsertAt(s, k, e) = v \o b
  BY DEF InsertAt
<1>. HIDE DEF a, b, u
<1>6. /\ v \in Seq(S) /\ Len(v) = Len(a) + Len(u)
      /\ \A i \in 1 .. Len(a) : v[i] = a[i]
      /\ \A i \in 1 .. Len(u) : v[Len(a) + i] = u[i]
  <2>1. a \in Seq(S)
    BY <1>2
  <2>2. u \in Seq(S)
    BY <1>4
  <2>. QED BY <2>1, <2>2, ConcatItems
<1>7. Len(v) = k /\ (\A i \in 1 .. k - 1 : v[i] = s[i]) /\ v[k] = e
  <2>1. 1 \in 1 .. Len(u) /\ Len(a) + 1 = k /\ Len(a) + Len(u) = k
    BY <1>1, <1>2, <1>4
  <2>2. v[Len(a) + 1] = u[1]
    BY <1>6, <2>1
  <2>. QED BY <1>2, <1>4, <1>6, <2>1, <2>2
<1>. HIDE DEF v
<1>. DEFINE w == v \o b
<1>8. /\ w \in Seq(S) /\ Len(w) = Len(v) + Len(b)
      /\ \A i \in 1 .. Len(v) : w[i] = v[i]
      /\ \A i \in 1 .. Len(b) : w[Len(v) + i] = b[i]
  <2>1. v \in Seq(S)
    BY <1>6
  <2>2. b \in Seq(S)
    BY <1>3
  <2>. QED BY <2>1, <2>2, ConcatItems
<1>. HIDE DEF w
<1>9. Len(w) = Len(s) + 1 /\ w[k] = e /\ \A i \in 1 .. k - 1 : w[i] = s[i]
  BY <1>1, <1>3, <1>7, <1>8
<1>10. ASSUME NEW i \in k .. Len(s) PROVE w[i + 1] = s[i]
  <2>1. i - k + 1 \in 1 .. Len(s) - k + 1 /\ k - 1 + (i - k + 1) = i /\ k + (i - k + 1) = i + 1
    BY <1>1
  <2>2. w[k + (i - k + 1)] = b[i - k + 1]
    BY <1>3, <1>7, <1>8, <2>1
  <2>. QED BY <1>3, <2>1, <2>2
<1>. QED BY <1>5, <1>8, <1>9, <1>10 DEF w

\* LArray_RemoveItemAt: an item is taken from a sequence.
LEMMA RemoveProperties ==
  ASSUME NEW S, NEW s \in Seq(S), NEW k \in 1 .. Len(s)
  PROVE  /\ RemoveAt(s, k) \in Seq(S) /\ Len(RemoveAt(s, k)) = Len(s) - 1
         /\ \A i \in 1 .. k - 1 : RemoveAt(s, k)[i] = s[i]
         /\ \A i \in k + 1 .. Len(s) : RemoveAt(s, k)[i - 1] = s[i]
<1>. DEFINE a == SubSeq(s, 1, k - 1)
            b == SubSeq(s, k + 1, Len(s))
<1>1. Len(s) \in Nat /\ k \in Nat /\ k - 1 \in Nat
  OBVIOUS
<1>2. a \in Seq(S) /\ Len(a) = k - 1 /\ \A i \in 1 .. k - 1 : a[i] = s[i]
  BY <1>1, SubSeqProperties
<1>3. b \in Seq(S) /\ Len(b) = Len(s) - k /\ \A i \in 1 .. Len(s) - k : b[i] = s[k + i]
  <2>1. k + (Len(s) - k) = Len(s) /\ Len(s) - k \in Nat /\ k + (Len(s) - k) <= Len(s)
    BY <1>1
  <2>2. b = SubSeq(s, k + 1, k + (Len(s) - k))
    BY <2>1
  <2>. DEFINE n == Len(s) - k
  <2>3. n \in Nat /\ k + n <= Len(s) /\ b = SubSeq(s, k + 1, k + n)
    BY <2>1, <2>2
  <2>. HIDE DEF b, n
  <2>4. b \in Seq(S) /\ Len(b) = n /\ \A i \in 1 .. n : b[i] = s[k + i]
    BY <1>1, <2>3, PartItems
  <2>. QED BY <2>4 DEF n
<1>4. RemoveAt(s, k) = a \o b
  BY DEF RemoveAt
<1>. HIDE DEF a, b
<1>. DEFINE w == a \o b
<1>5. /\ w \in Seq(S) /\ Len(w) = Len(a) + Len(b)
      /\ \A i \in 1 .. Len(a) : w[i] = a[i]
      /\ \A i \in 1 .. Len(b) : w[Len(a) + i] = b[i]
  <2>1. a \in Seq(S)
    BY <1>2
  <2>2. b \in Seq(S)
    BY <1>3
  <2>. QED BY <2>1, <2>2, ConcatItems
<1>. HIDE DEF w
<1>6. Len(w) = Len(s) - 1 /\ \A i \in 1 .. k - 1 : w[i] = s[i]
  BY <1>1, <1>2, <1>3, <1>5
<1>7. ASSUME NEW i \in k + 1 .. Len(s) PROVE w[i - 1] = s[i]
  <2>1. i - k \in 1 .. Len(s) - k /\ k + (i - k) = i /\ (k - 1) + (i - k) = i - 1
    BY <1>1
  <2>2. w[(k - 1) + (i - k)] = b[i - k]
    BY <1>2, <1>3, <1>5, <2>1
  <2>. QED BY <1>3, <2>1, <2>2
<1>. QED BY <1>4, <1>5, <1>6, <1>7 DEF w

----------------------------------------------------------------------------
\* Where a block ends.
BlockEnd(map, k) == map[k].Offset + HeaderSize + map[k].BlockSize

\* Blocks follow the header of the file and each other, with or without holes.
Laid(map) ==
  /\ \A k \in DOMAIN map : map[k].Offset >= FirstValid
  /\ \A j, k \in DOMAIN map : j < k => BlockEnd(map, j) <= map[k].Offset

\* The file has this block, and the offset of the next one.
Entry(file, header, next, item) ==
  /\ header.Offset + HeaderSize + header.BlockSize <= Len(file)
  /\ file[header.Offset + 1] = header.Tag
  /\ file[header.Offset + 2] = next
  /\ file[header.Offset + 3] = header.BlockSize
  /\ item[1] = header.Tag
  /\ Len(item[2]) = header.BlockSize
  /\ \A i \in 1 .. header.BlockSize : file[header.Offset + HeaderSize + i] = item[2][i]

\* The file has the blocks of the map, and they are these.
Stored(file, map, blocks) ==
  /\ Len(map) = Len(blocks)
  /\ Laid(map)
  /\ Len(file) >= FirstValid
  /\ file[1] = MagicNumber /\ file[2] = Version
  /\ file[FirstTagOffset + 1] = OffsetOf(map, 1)
  /\ \A k \in DOMAIN map : Entry(file, map[k], OffsetOf(map, k + 1), blocks[k])

\* The file has the first m blocks of the map, each with the offset of the next
\* one but the last of them.
Kept(file, map, blocks, m) ==
  /\ Len(map) = Len(blocks)
  /\ Laid(map)
  /\ m \in Nat /\ m <= Len(map)
  /\ m > 0 => /\ Len(file) >= FirstValid
              /\ file[1] = MagicNumber /\ file[2] = Version
              /\ file[FirstTagOffset + 1] = OffsetOf(map, 1)
  /\ \A k \in 1 .. m :
       /\ Entry(file, map[k], file[map[k].Offset + 2], blocks[k])
       /\ k < m => file[map[k].Offset + 2] = OffsetOf(map, k + 1)

Blocks == Nat \X Seq(Nat)

\* The types of what a map says about a block.
LEMMA HeaderTypes ==
  ASSUME NEW map \in Seq(Headers), NEW k \in DOMAIN map
  PROVE  /\ k \in Nat /\ k \in 1 .. Len(map) /\ Len(map) \in Nat
         /\ map[k] \in Headers
         /\ map[k].Tag \in Nat /\ map[k].Offset \in Nat /\ map[k].BlockSize \in Nat
         /\ BlockEnd(map, k) \in Nat /\ map[k].Offset + HeaderSize <= BlockEnd(map, k)
<1>1. k \in Nat /\ k \in 1 .. Len(map) /\ Len(map) \in Nat /\ map[k] \in Headers
  OBVIOUS
<1>2. map[k].Tag \in Nat /\ map[k].Offset \in Nat /\ map[k].BlockSize \in Nat
  BY <1>1 DEF Headers
<1>3. BlockEnd(map, k) \in Nat /\ map[k].Offset + HeaderSize <= BlockEnd(map, k)
  BY <1>2 DEF BlockEnd, HeaderSize
<1>. QED BY <1>1, <1>2, <1>3

\* A block that is in the file is read as it was stored.
LEMMA EntryRead ==
  ASSUME NEW file \in Seq(Nat), NEW map \in Seq(Headers), NEW k \in DOMAIN map,
         NEW item \in Blocks, NEW next, Entry(file, map[k], next, item)
  PROVE  BlockAt(file, map, k) = item
<1>. DEFINE m == map[k].Offset + HeaderSize
            n == map[k].BlockSize
            data == SubSeq(file, m + 1, m + n)
            tag == item[1]
            d == item[2]
<1>1. m \in Nat /\ n \in Nat /\ k \in 1 .. Len(map)
  BY HeaderTypes DEF HeaderSize
<1>2. m + n <= Len(file)
  BY DEF Entry
<1>3. tag = map[k].Tag /\ Len(d) = n /\ \A i \in 1 .. n : file[m + i] = d[i]
  BY DEF Entry
<1>4. item = <<tag, d>> /\ d \in Seq(Nat)
  BY DEF Blocks
<1>5. BlockAt(file, map, k) = <<map[k].Tag, data>>
  BY DEF BlockAt
<1>. HIDE DEF m, n, tag, d
<1>6. data \in Seq(Nat) /\ Len(data) = n /\ \A i \in 1 .. n : data[i] = file[m + i]
  BY <1>1, <1>2, PartItems
<1>. HIDE DEF data
<1>7. data = d
  BY <1>1, <1>3, <1>4, <1>6, SeqEqual
<1>. QED BY <1>3, <1>4, <1>5, <1>7

\* An archive has the blocks that it keeps: the first ones, or all.
LEMMA KeptHolds ==
  ASSUME NEW file \in Seq(Nat), NEW map \in Seq(Headers), NEW blocks \in Seq(Blocks), NEW m,
         Kept(file, map, blocks, m)
  PROVE  Holds(file, map, blocks, m)
<1>1. m \in Nat /\ m <= Len(map) /\ Len(map) = Len(blocks) /\ Len(map) \in Nat
  BY DEF Kept
<1>2. ASSUME NEW k \in 1 .. m PROVE BlockAt(file, map, k) = blocks[k]
  <2>1. k \in DOMAIN map /\ k \in 1 .. Len(blocks)
    BY <1>1
  <2>2. blocks[k] \in Blocks
    BY <2>1
  <2>3. Entry(file, map[k], file[map[k].Offset + 2], blocks[k])
    BY DEF Kept
  <2>4. k \in DOMAIN map
    BY <2>1
  <2>. QED BY <2>2, <2>3, <2>4, EntryRead
<1>. QED BY <1>1, <1>2 DEF Holds

LEMMA StoredHolds ==
  ASSUME NEW file \in Seq(Nat), NEW map \in Seq(Headers), NEW blocks \in Seq(Blocks),
         Stored(file, map, blocks)
  PROVE  HoldsAll(file, map, blocks)
<1>1. Len(map) = Len(blocks) /\ Len(map) \in Nat
  BY DEF Stored
<1>2. ASSUME NEW k \in 1 .. Len(blocks) PROVE BlockAt(file, map, k) = blocks[k]
  <2>1. k \in DOMAIN map
    BY <1>1
  <2>2. blocks[k] \in Blocks
    OBVIOUS
  <2>3. Entry(file, map[k], OffsetOf(map, k + 1), blocks[k])
    BY <2>1 DEF Stored
  <2>. QED BY <2>1, <2>2, <2>3, EntryRead
<1>. QED BY <1>1, <1>2 DEF Holds, HoldsAll

\* The place _FetchHoleOffset finds is behind the blocks in front of it, and
\* leaves room enough for the one behind it.
LEMMA HoleFits ==
  ASSUME NEW map \in Seq(Headers), Laid(map), NEW size \in Nat
  PROVE  LET k == FetchHole(map, size) IN
         /\ k \in 1 .. Len(map) + 1
         /\ \A i \in DOMAIN map : i >= k => HoleOffset(map, k) + size <= map[i].Offset
<1>. DEFINE holes == HolesFor(map, size)
<1>1. Len(map) \in Nat /\ DOMAIN map = 1 .. Len(map)
  OBVIOUS
<1>2. CASE holes = {}
  BY <1>1, <1>2 DEF FetchHole
<1>3. CASE holes # {}
  <2>. DEFINE k == Min(holes)
  <2>1. holes \in SUBSET Nat /\ holes \subseteq DOMAIN map
    BY <1>1 DEF HolesFor
  <2>2. \E x \in holes : \A y \in holes : x <= y
    BY <1>3, <2>1, NatHasLeast
  <2>3. k \in holes
    BY <2>2 DEF Min
  <2>4. FetchHole(map, size) = k
    BY <1>3 DEF FetchHole
  <2>. HIDE DEF k
  <2>5. k \in DOMAIN map /\ map[k].Offset - HoleOffset(map, k) >= size
    BY <2>3 DEF HolesFor
  <2>6. HoleOffset(map, k) \in Nat /\ map[k].Offset \in Nat
    <3>1. CASE k = 1
      BY <2>5, <3>1, HeaderTypes DEF HoleOffset, FirstValid
    <3>2. CASE k # 1
      <4>1. k - 1 \in DOMAIN map
        BY <1>1, <2>5, <3>2
      <4>2. HoleOffset(map, k) = BlockEnd(map, k - 1)
        BY <3>2 DEF HoleOffset, BlockEnd
      <4>. QED BY <2>5, <4>1, <4>2, HeaderTypes
    <3>. QED BY <3>1, <3>2
  <2>7. ASSUME NEW i \in DOMAIN map, i >= k PROVE HoleOffset(map, k) + size <= map[i].Offset
    <3>1. HoleOffset(map, k) + size <= map[k].Offset
      BY <2>5, <2>6
    <3>2. CASE i = k
      BY <3>1, <3>2
    <3>3. CASE i # k
      <4>1. k < i
        BY <1>1, <2>5, <2>7, <3>3
      <4>2. BlockEnd(map, k) <= map[i].Offset
        BY <2>5, <4>1 DEF Laid
      <4>3. BlockEnd(map, k) \in Nat /\ map[k].Offset + HeaderSize <= BlockEnd(map, k) /\ map[i].Offset \in Nat
        BY <2>5, HeaderTypes
      <4>. QED BY <2>6, <3>1, <4>2, <4>3 DEF HeaderSize
    <3>. QED BY <3>2, <3>3
  <2>. QED BY <1>1, <2>4, <2>5, <2>7
<1>. QED BY <1>2, <1>3

\* Where the link and the block go, for any place of the list.
LEMMA HolePlace ==
  ASSUME NEW map \in Seq(Headers), Laid(map), NEW k \in 1 .. Len(map) + 1
  PROVE  /\ HoleOffset(map, k) \in Nat /\ HoleOffset(map, k) >= FirstValid
         /\ LinkOffset(map, k) \in Nat /\ LinkOffset(map, k) + 1 <= HoleOffset(map, k)
         /\ k = 1 => HoleOffset(map, k) = FirstValid /\ LinkOffset(map, k) = FirstTagOffset
         /\ k > 1 => /\ k - 1 \in DOMAIN map
                     /\ HoleOffset(map, k) = BlockEnd(map, k - 1)
                     /\ LinkOffset(map, k) = map[k - 1].Offset + 1
         /\ \A j \in 1 .. k - 1 : j \in DOMAIN map /\ BlockEnd(map, j) <= HoleOffset(map, k)
         /\ \A j \in 1 .. k - 2 : BlockEnd(map, j) < LinkOffset(map, k)
<1>1. Len(map) \in Nat /\ DOMAIN map = 1 .. Len(map)
  OBVIOUS
<1>2. CASE k = 1
  BY <1>2 DEF HoleOffset, LinkOffset, FirstValid, FirstTagOffset
<1>3. CASE k # 1
  <2>1. k - 1 \in DOMAIN map /\ k > 1
    BY <1>1, <1>3
  <2>. DEFINE p == k - 1
  <2>2. HoleOffset(map, k) = BlockEnd(map, p) /\ LinkOffset(map, k) = map[p].Offset + 1
    BY <1>3 DEF HoleOffset, LinkOffset, BlockEnd
  <2>3. p \in DOMAIN map /\ p \in Nat /\ k = p + 1
    BY <1>1, <2>1
  <2>. HIDE DEF p
  <2>4. /\ map[p].Offset \in Nat /\ BlockEnd(map, p) \in Nat /\ map[p].Offset + HeaderSize <= BlockEnd(map, p)
        /\ map[p].Offset >= FirstValid
    BY <2>3, HeaderTypes DEF Laid
  <2>5. ASSUME NEW j \in 1 .. p - 1
        PROVE  j \in DOMAIN map /\ BlockEnd(map, j) \in Nat /\ BlockEnd(map, j) <= map[p].Offset
    <3>1. j \in DOMAIN map /\ j < p
      BY <1>1, <2>3
    <3>. QED BY <2>3, <3>1, HeaderTypes DEF Laid
  <2>6. ASSUME NEW j \in 1 .. k - 1 PROVE j \in DOMAIN map /\ BlockEnd(map, j) <= BlockEnd(map, p)
    <3>1. CASE j = p
      BY <2>3, <2>4, <3>1
    <3>2. CASE j # p
      <4>1. j \in 1 .. p - 1
        BY <2>3, <3>2
      <4>. QED BY <2>4, <2>5, <4>1 DEF HeaderSize
    <3>. QED BY <3>1, <3>2
  <2>7. \A j \in 1 .. k - 2 : BlockEnd(map, j) < map[p].Offset + 1
    <3>1. k - 2 = p - 1
      BY <2>3
    <3>2. \A j \in 1 .. p - 1 : BlockEnd(map, j) < map[p].Offset + 1
      BY <2>4, <2>5
    <3>. QED BY <3>1, <3>2
  <2>8. /\ BlockEnd(map, p) \in Nat /\ BlockEnd(map, p) >= FirstValid
        /\ map[p].Offset + 1 \in Nat /\ map[p].Offset + 1 + 1 <= BlockEnd(map, p)
    BY <2>4 DEF FirstValid, HeaderSize
  <2>. QED BY <1>3, <2>1, <2>2, <2>6, <2>7, <2>8 DEF p
<1>. QED BY <1>2, <1>3

\* The cells of the file after LArchiveFile_AddBlock has written link and block.
LEMMA AddedCells ==
  ASSUME NEW f \in Seq(Nat), NEW map \in Seq(Headers), Laid(map),
         NEW k \in 1 .. Len(map) + 1, HoleOffset(map, k) <= Len(f), NEW tag \in Nat, NEW data \in Seq(Nat)
  PROVE  LET g == WithBlock(f, map, k, tag, data)
             h == HoleOffset(map, k)
             l == LinkOffset(map, k)
         IN  /\ g \in Seq(Nat) /\ Len(g) >= Len(f) /\ Len(g) >= h + HeaderSize + Len(data)
             /\ g[h + 1] = tag /\ g[h + 2] = OffsetOf(map, k) /\ g[h + 3] = Len(data)
             /\ \A i \in 1 .. Len(data) : g[h + HeaderSize + i] = data[i]
             /\ g[l + 1] = h
             /\ \A i \in 1 .. Len(f) : i # l + 1 /\ (i <= h \/ i > h + HeaderSize + Len(data)) => g[i] = f[i]
<1>. DEFINE h == HoleOffset(map, k)
            l == LinkOffset(map, k)
            e == WrittenAt(f, l, <<h>>)
            next == OffsetOf(map, k)
            head == <<tag, next, Len(data)>>
            new == head \o data
            g == WrittenAt(e, h, new)
<1>1. /\ h \in Nat /\ l \in Nat /\ l + 1 <= h /\ Len(f) \in Nat /\ Len(data) \in Nat
      /\ h <= Len(f)
  <2>1. h <= Len(f)
    OBVIOUS
  <2>2. h \in Nat /\ l \in Nat /\ l + 1 <= h
    BY HolePlace
  <2>. QED BY <2>1, <2>2
<1>2. next \in Nat
  BY HeaderTypes DEF OffsetOf
<1>3. WithBlock(f, map, k, tag, data) = g
  BY DEF WithBlock, WithLink, BlockWords
<1>. HIDE DEF h, l, next
<1>4. /\ e \in Seq(Nat) /\ Len(e) = Len(f) /\ e[l + 1] = h
      /\ \A i \in 1 .. Len(f) : i # l + 1 => e[i] = f[i]
  <2>. DEFINE one == <<h>>
  <2>1. one \in Seq(Nat) /\ Len(one) = 1 /\ one[1] = h /\ l \in 0 .. Len(f)
    BY <1>1
  <2>. HIDE DEF one
  <2>2. /\ WrittenAt(f, l, one) \in Seq(Nat)
        /\ Len(WrittenAt(f, l, one)) = Larger(Len(f), l + Len(one))
        /\ \A i \in 1 .. Len(one) : WrittenAt(f, l, one)[l + i] = one[i]
        /\ \A i \in 1 .. Len(f) : i \notin l + 1 .. l + Len(one) => WrittenAt(f, l, one)[i] = f[i]
    BY <2>1, WrittenCells
  <2>. DEFINE x == WrittenAt(f, l, one)
  <2>. HIDE DEF x
  <2>3. /\ x \in Seq(Nat) /\ Len(x) = Larger(Len(f), l + 1)
        /\ \A i \in 1 .. 1 : x[l + i] = one[i]
        /\ \A i \in 1 .. Len(f) : i \notin l + 1 .. l + 1 => x[i] = f[i]
    BY <2>1, <2>2 DEF x
  <2>4. Larger(Len(f), l + 1) = Len(f)
    BY <1>1 DEF Larger
  <2>5. x[l + 1] = h
    BY <2>1, <2>3
  <2>6. \A i \in 1 .. Len(f) : i # l + 1 => x[i] = f[i]
    BY <1>1, <2>3
  <2>. QED BY <2>3, <2>4, <2>5, <2>6 DEF x, one
<1>5. /\ new \in Seq(Nat) /\ Len(new) = 3 + Len(data)
      /\ new[1] = tag /\ new[2] = next /\ new[3] = Len(data)
      /\ \A i \in 1 .. Len(data) : new[3 + i] = data[i]
  <2>1. head \in Seq(Nat) /\ Len(head) = 3 /\ head[1] = tag /\ head[2] = next /\ head[3] = Len(data)
    BY <1>1, <1>2
  <2>. HIDE DEF head
  <2>2. head \in Seq(Nat)
    BY <2>1
  <2>3. /\ new \in Seq(Nat) /\ Len(new) = Len(head) + Len(data)
        /\ \A i \in 1 .. Len(head) : new[i] = head[i]
        /\ \A i \in 1 .. Len(data) : new[Len(head) + i] = data[i]
    BY <2>2, ConcatItems
  <2>. HIDE DEF new
  <2>4. \A i \in 1 .. 3 : new[i] = head[i]
    BY <2>1, <2>3
  <2>5. new[1] = head[1] /\ new[2] = head[2] /\ new[3] = head[3]
    BY <2>4
  <2>. QED BY <2>1, <2>3, <2>5
<1>. HIDE DEF e, new
<1>6. /\ g \in Seq(Nat) /\ Len(g) = Larger(Len(e), h + Len(new))
      /\ \A i \in 1 .. Len(new) : g[h + i] = new[i]
      /\ \A i \in 1 .. Len(e) : i \notin h + 1 .. h + Len(new) => g[i] = e[i]
  <2>1. e \in Seq(Nat)
    BY <1>4
  <2>2. new \in Seq(Nat)
    BY <1>5
  <2>3. h \in 0 .. Len(e)
    BY <1>1, <1>4
  <2>. QED BY <2>1, <2>2, <2>3, WrittenCells
<1>. HIDE DEF g
<1>7. Len(g) >= Len(f) /\ Len(g) >= h + 3 + Len(data)
  <2>1. h + Len(new) = h + 3 + Len(data) /\ h + 3 + Len(data) \in Nat /\ Len(f) \in Nat
    BY <1>1, <1>5
  <2>2. Len(g) = Larger(Len(f), h + 3 + Len(data))
    BY <1>4, <1>6, <2>1
  <2>. QED BY <2>1, <2>2 DEF Larger
<1>8. \A i \in 1 .. 3 + Len(data) : g[h + i] = new[i]
  BY <1>5, <1>6
<1>9. g[h + 1] = tag /\ g[h + 2] = next /\ g[h + 3] = Len(data)
  <2>1. 1 \in 1 .. 3 + Len(data) /\ 2 \in 1 .. 3 + Len(data) /\ 3 \in 1 .. 3 + Len(data)
    BY <1>1
  <2>2. g[h + 1] = new[1] /\ g[h + 2] = new[2] /\ g[h + 3] = new[3]
    BY <1>8, <2>1
  <2>. QED BY <1>5, <2>2
<1>10. ASSUME NEW i \in 1 .. Len(data) PROVE g[h + 3 + i] = data[i]
  <2>1. 3 + i \in 1 .. 3 + Len(data) /\ h + (3 + i) = h + 3 + i
    BY <1>1
  <2>2. g[h + (3 + i)] = new[3 + i]
    BY <1>8, <2>1
  <2>. QED BY <1>5, <2>1, <2>2
<1>11. ASSUME NEW i \in 1 .. Len(f), i <= h \/ i > h + 3 + Len(data)
       PROVE  g[i] = e[i]
  <2>1. i \in 1 .. Len(e) /\ i \notin h + 1 .. h + Len(new)
    BY <1>1, <1>4, <1>5, <1>11
  <2>. QED BY <1>6, <2>1
<1>12. g[l + 1] = h
  <2>1. l + 1 \in 1 .. Len(f) /\ l + 1 <= h
    BY <1>1
  <2>. QED BY <1>4, <1>11, <2>1
<1>13. \A i \in 1 .. Len(f) : i # l + 1 /\ (i <= h \/ i > h + 3 + Len(data)) => g[i] = f[i]
  BY <1>4, <1>11
<1>14. HeaderSize = 3
  BY DEF HeaderSize
<1>15. \A i \in 1 .. Len(data) : g[h + 3 + i] = data[i]
  BY <1>10
<1>. QED BY <1>3, <1>6, <1>7, <1>9, <1>12, <1>13, <1>14, <1>15 DEF h, l, next

\* A block whose cells a write leaves alone is still there; the offset of the
\* next block may be another one.
LEMMA EntryKept ==
  ASSUME NEW f \in Seq(Nat), NEW g \in Seq(Nat), Len(g) >= Len(f),
         NEW header \in Headers, NEW next, NEW next2, NEW item,
         Entry(f, header, next, item),
         g[header.Offset + 2] = next2,
         \A c \in 1 .. Len(f) :
           /\ header.Offset < c /\ c <= header.Offset + HeaderSize + header.BlockSize
           /\ c # header.Offset + 2
           => g[c] = f[c]
  PROVE  Entry(g, header, next2, item)
<1>. DEFINE o == header.Offset
            z == header.BlockSize
<1>1. o \in Nat /\ z \in Nat /\ Len(f) \in Nat /\ Len(g) \in Nat
  BY DEF Headers
<1>2. /\ o + 3 + z <= Len(f) /\ f[o + 1] = header.Tag /\ f[o + 3] = z
      /\ item[1] = header.Tag /\ Len(item[2]) = z
      /\ \A i \in 1 .. z : f[o + 3 + i] = item[2][i]
  BY DEF Entry, HeaderSize
<1>3. \A c \in 1 .. Len(f) : o < c /\ c <= o + 3 + z /\ c # o + 2 => g[c] = f[c]
  BY DEF HeaderSize
<1>4. g[o + 2] = next2
  OBVIOUS
<1>. HIDE DEF o, z
<1>5. g[o + 1] = f[o + 1] /\ g[o + 3] = f[o + 3]
  <2>1. o + 1 \in 1 .. Len(f) /\ o < o + 1 /\ o + 1 <= o + 3 + z /\ o + 1 # o + 2
    <3>1. o + 3 + z <= Len(f)
      BY <1>2
    <3>2. o + 1 <= Len(f) /\ o + 1 <= o + 3 + z
      BY <1>1, <3>1
    <3>. QED BY <1>1, <3>2
  <2>2. o + 3 \in 1 .. Len(f) /\ o < o + 3 /\ o + 3 <= o + 3 + z /\ o + 3 # o + 2
    BY <1>1, <1>2
  <2>. QED BY <1>3, <2>1, <2>2
<1>6. ASSUME NEW i \in 1 .. z PROVE g[o + 3 + i] = f[o + 3 + i]
  <2>1. o + 3 + i \in 1 .. Len(f) /\ o < o + 3 + i /\ o + 3 + i <= o + 3 + z /\ o + 3 + i # o + 2
    BY <1>1, <1>2
  <2>. QED BY <1>3, <2>1
<1>7. o + 3 + z <= Len(g)
  BY <1>1, <1>2
<1>. QED BY <1>2, <1>4, <1>5, <1>6, <1>7 DEF Entry, HeaderSize, o, z

\* What a map says of its blocks.
LEMMA LaidOffsets ==
  ASSUME NEW map \in Seq(Headers), Laid(map), NEW j \in 1 .. Len(map)
  PROVE  /\ map[j] \in Headers /\ map[j].Offset \in Nat /\ map[j].BlockSize \in Nat
         /\ map[j].Offset >= 3
         /\ BlockEnd(map, j) = map[j].Offset + 3 + map[j].BlockSize
         /\ \A i \in 1 .. Len(map) : j < i => map[j].Offset + 3 + map[j].BlockSize <= map[i].Offset
<1>1. j \in DOMAIN map /\ DOMAIN map = 1 .. Len(map)
  OBVIOUS
<1>2. BlockEnd(map, j) = map[j].Offset + 3 + map[j].BlockSize
  BY DEF BlockEnd, HeaderSize
<1>3. map[j].Offset >= 3 /\ \A i \in 1 .. Len(map) : j < i => BlockEnd(map, j) <= map[i].Offset
  BY <1>1 DEF Laid, FirstValid
<1>. QED BY <1>1, <1>2, <1>3, HeaderTypes

\* A map that has a block between others keeps them apart.
LEMMA InsertedLaid ==
  ASSUME NEW map \in Seq(Headers), Laid(map), NEW k \in 1 .. Len(map) + 1,
         NEW header \in Headers, header.Offset >= 3,
         \A j \in 1 .. k - 1 : BlockEnd(map, j) <= header.Offset,
         \A j \in k .. Len(map) : header.Offset + 3 + header.BlockSize <= map[j].Offset
  PROVE  Laid(InsertAt(map, k, header))
<1>. DEFINE n == Len(map)
            m2 == InsertAt(map, k, header)
            O(j) == map[j].Offset
            E(j) == map[j].Offset + 3 + map[j].BlockSize
            P(j) == m2[j].Offset
            Q(j) == m2[j].Offset + 3 + m2[j].BlockSize
            h == header.Offset
            e == header.Offset + 3 + header.BlockSize
<1>1. n \in Nat /\ k \in Nat /\ k >= 1 /\ k <= n + 1
  OBVIOUS
<1>2. /\ m2 \in Seq(Headers) /\ Len(m2) = n + 1
      /\ \A i \in 1 .. k - 1 : m2[i] = map[i]
      /\ m2[k] = header
      /\ \A i \in k .. n : m2[i + 1] = map[i]
  <2>. HIDE DEF n, m2, O, E, P, Q, h, e
  <2>1. /\ InsertAt(map, k, header) \in Seq(Headers)
        /\ Len(InsertAt(map, k, header)) = Len(map) + 1
        /\ \A i \in 1 .. k - 1 : InsertAt(map, k, header)[i] = map[i]
        /\ InsertAt(map, k, header)[k] = header
        /\ \A i \in k .. Len(map) : InsertAt(map, k, header)[i + 1] = map[i]
    BY InsertProperties
  <2>. QED BY <2>1 DEF n, m2
<1>3. \A j \in 1 .. n : /\ O(j) \in Nat /\ E(j) \in Nat /\ O(j) >= 3
                        /\ \A i \in 1 .. n : j < i => E(j) <= O(i)
  BY LaidOffsets
<1>4. h \in Nat /\ e \in Nat /\ h >= 3
  BY DEF Headers
<1>5. \A j \in 1 .. k - 1 : E(j) <= h
  BY <1>1 DEF BlockEnd, HeaderSize
<1>6. \A j \in k .. n : e <= O(j)
  OBVIOUS
<1>. HIDE DEF m2
<1>7. /\ \A i \in 1 .. k - 1 : P(i) = O(i) /\ Q(i) = E(i)
      /\ P(k) = h /\ Q(k) = e
      /\ \A i \in k .. n : P(i + 1) = O(i) /\ Q(i + 1) = E(i)
  BY <1>2
<1>8. DOMAIN m2 = 1 .. n + 1
  BY <1>1, <1>2
<1>9. Laid(m2) <=> /\ \A j \in 1 .. n + 1 : P(j) >= 3
                   /\ \A i, j \in 1 .. n + 1 : i < j => Q(i) <= P(j)
  BY <1>8 DEF Laid, BlockEnd, HeaderSize, FirstValid
<1>. HIDE DEF O, E, P, Q, h, e, n
\* The places of the new list: in front of the new block, its own, behind it.
<1>10. \A j \in 1 .. n + 1 : j \in 1 .. k - 1 \/ j = k \/ (j - 1 \in k .. n /\ (j - 1) + 1 = j)
  BY <1>1
<1>11. \A j \in k .. n : P(j + 1) = O(j) /\ Q(j + 1) = E(j) /\ j \in 1 .. n
  BY <1>1, <1>7
<1>12. \A j \in 1 .. k - 1 : P(j) = O(j) /\ Q(j) = E(j) /\ j \in 1 .. n
  BY <1>1, <1>7
<1>13. ASSUME NEW j \in 1 .. n + 1 PROVE P(j) >= 3
  <2>1. CASE j \in 1 .. k - 1
    BY <1>3, <1>12, <2>1
  <2>2. CASE j = k
    BY <1>4, <1>7, <2>2
  <2>3. CASE j - 1 \in k .. n /\ (j - 1) + 1 = j
    BY <1>3, <1>11, <2>3
  <2>. QED BY <1>10, <2>1, <2>2, <2>3
<1>14. ASSUME NEW i \in 1 .. n + 1, NEW j \in 1 .. n + 1, i < j PROVE Q(i) <= P(j)
  <2>1. CASE i \in 1 .. k - 1
    <3>1. Q(i) = E(i) /\ i \in 1 .. n /\ E(i) <= h
      BY <1>5, <1>12, <2>1
    <3>2. CASE j \in 1 .. k - 1
      BY <1>3, <1>12, <1>14, <3>1, <3>2
    <3>3. CASE j = k
      BY <1>7, <3>1, <3>3
    <3>4. CASE j - 1 \in k .. n /\ (j - 1) + 1 = j
      <4>1. P(j) = O(j - 1) /\ j - 1 \in 1 .. n /\ i < j - 1
        BY <1>1, <1>11, <2>1, <3>4
      <4>. QED BY <1>3, <3>1, <4>1
    <3>. QED BY <1>10, <3>2, <3>3, <3>4
  <2>2. CASE i = k
    <3>1. j - 1 \in k .. n /\ (j - 1) + 1 = j
      BY <1>1, <1>14, <2>2
    <3>. QED BY <1>6, <1>7, <1>11, <2>2, <3>1
  <2>3. CASE i - 1 \in k .. n /\ (i - 1) + 1 = i
    <3>1. j - 1 \in k .. n /\ (j - 1) + 1 = j /\ i - 1 < j - 1
      BY <1>1, <1>14, <2>3
    <3>2. Q(i) = E(i - 1) /\ P(j) = O(j - 1) /\ i - 1 \in 1 .. n /\ j - 1 \in 1 .. n
      BY <1>11, <2>3, <3>1
    <3>. QED BY <1>3, <3>1, <3>2
  <2>. QED BY <1>10, <2>1, <2>2, <2>3
<1>. QED BY <1>9, <1>13, <1>14 DEF m2

\* So does one from which a block is taken.
LEMMA RemovedLaid ==
  ASSUME NEW map \in Seq(Headers), Laid(map), NEW k \in 1 .. Len(map)
  PROVE  Laid(RemoveAt(map, k))
<1>. DEFINE n == Len(map)
            m2 == RemoveAt(map, k)
            O(j) == map[j].Offset
            E(j) == map[j].Offset + 3 + map[j].BlockSize
            P(j) == m2[j].Offset
            Q(j) == m2[j].Offset + 3 + m2[j].BlockSize
<1>1. n \in Nat /\ k \in Nat /\ k >= 1 /\ k <= n
  OBVIOUS
<1>2. /\ m2 \in Seq(Headers) /\ Len(m2) = n - 1
      /\ \A i \in 1 .. k - 1 : m2[i] = map[i]
      /\ \A i \in k + 1 .. n : m2[i - 1] = map[i]
  BY RemoveProperties
<1>3. \A j \in 1 .. n : O(j) >= 3 /\ \A i \in 1 .. n : j < i => E(j) <= O(i)
  BY LaidOffsets
<1>. HIDE DEF m2
<1>4. /\ \A i \in 1 .. k - 1 : P(i) = O(i) /\ Q(i) = E(i)
      /\ \A i \in k + 1 .. n : P(i - 1) = O(i) /\ Q(i - 1) = E(i)
  BY <1>2
<1>5. DOMAIN m2 = 1 .. n - 1
  BY <1>1, <1>2
<1>6. Laid(m2) <=> /\ \A j \in 1 .. n - 1 : P(j) >= 3
                   /\ \A i, j \in 1 .. n - 1 : i < j => Q(i) <= P(j)
  BY <1>5 DEF Laid, BlockEnd, HeaderSize, FirstValid
<1>. HIDE DEF O, E, P, Q, n
<1>. DEFINE old(j) == IF j < k THEN j ELSE j + 1
<1>7. \A j \in 1 .. n - 1 : old(j) \in 1 .. n /\ P(j) = O(old(j)) /\ Q(j) = E(old(j))
  <2>. TAKE j \in 1 .. n - 1
  <2>1. CASE j < k
    BY <1>1, <1>4, <2>1
  <2>2. CASE ~ (j < k)
    <3>1. j + 1 \in k + 1 .. n /\ (j + 1) - 1 = j /\ j + 1 \in 1 .. n
      BY <1>1, <2>2
    <3>2. P((j + 1) - 1) = O(j + 1) /\ Q((j + 1) - 1) = E(j + 1)
      BY <1>4, <3>1
    <3>. QED BY <2>2, <3>1, <3>2
  <2>. QED BY <2>1, <2>2
<1>8. \A i, j \in 1 .. n - 1 : i < j => old(i) < old(j)
  BY <1>1
<1>. QED BY <1>3, <1>6, <1>7, <1>8 DEF m2

\* LArchiveFile_AddBlock leaves the blocks there are where they are, and puts
\* the new one between them, in the file and in the list.
LEMMA AddStored ==
  ASSUME NEW f \in Seq(Nat), NEW map \in Seq(Headers), NEW blocks \in Seq(Blocks),
         Stored(f, map, blocks), NEW tag \in Nat, NEW data \in Seq(Nat),
         NEW k \in 1 .. Len(map) + 1,
         \A i \in DOMAIN map : i >= k => HoleOffset(map, k) + (HeaderSize + Len(data)) <= map[i].Offset
  PROVE  /\ WithBlock(f, map, k, tag, data) \in Seq(Nat)
         /\ InsertAt(map, k, BlockHeader(map, k, tag, data)) \in Seq(Headers)
         /\ InsertAt(blocks, k, <<tag, data>>) \in Seq(Blocks)
         /\ Len(InsertAt(map, k, BlockHeader(map, k, tag, data))) = Len(map) + 1
         /\ Stored(WithBlock(f, map, k, tag, data), InsertAt(map, k, BlockHeader(map, k, tag, data)),
                   InsertAt(blocks, k, <<tag, data>>))
<1>. DEFINE n == Len(map)
            h == HoleOffset(map, k)
            l == LinkOffset(map, k)
            z == Len(data)
            g == WithBlock(f, map, k, tag, data)
            header == BlockHeader(map, k, tag, data)
            m2 == InsertAt(map, k, header)
            new == <<tag, data>>
            b2 == InsertAt(blocks, k, new)
<1>1. n \in Nat /\ z \in Nat /\ k \in Nat /\ k >= 1 /\ k <= n + 1 /\ DOMAIN map = 1 .. n
      /\ Len(blocks) = n
  BY DEF Stored
<1>2. Laid(map)
  BY DEF Stored
<1>3. /\ h \in Nat /\ h >= 3 /\ l \in Nat /\ l + 1 <= h
      /\ k = 1 => h = 3 /\ l = 2
      /\ k > 1 => h = BlockEnd(map, k - 1) /\ l = map[k - 1].Offset + 1
      /\ \A j \in 1 .. k - 1 : BlockEnd(map, j) <= h
      /\ \A j \in 1 .. k - 2 : BlockEnd(map, j) < l
  BY <1>2, HolePlace DEF FirstValid, FirstTagOffset
<1>4. /\ header \in Headers
      /\ header.Tag = tag /\ header.Offset = h /\ header.BlockSize = z
  BY <1>1, <1>3 DEF BlockHeader, Headers
<1>5. new \in Blocks /\ new[1] = tag /\ new[2] = data
  BY DEF Blocks
<1>6. \A i \in k .. n : h + 3 + z <= map[i].Offset
  <2>1. \A i \in DOMAIN map : i >= k => h + (3 + z) <= map[i].Offset
    BY DEF HeaderSize
  <2>2. \A i \in k .. n : i \in DOMAIN map /\ i >= k /\ map[i].Offset \in Nat
    <3>. TAKE i \in k .. n
    <3>1. i \in DOMAIN map /\ i >= k
      BY <1>1
    <3>. QED BY <3>1, HeaderTypes
  <2>3. h + (3 + z) = h + 3 + z
    BY <1>1, <1>3
  <2>. HIDE DEF h, z, n
  <2>. QED BY <2>1, <2>2, <2>3
<1>7. /\ \A j \in 1 .. n : Entry(f, map[j], OffsetOf(map, j + 1), blocks[j])
      /\ Len(f) \in Nat /\ Len(f) >= 3 /\ f[1] = MagicNumber /\ f[2] = Version /\ f[3] = OffsetOf(map, 1)
  <2>1. \A j \in DOMAIN map : Entry(f, map[j], OffsetOf(map, j + 1), blocks[j])
    BY DEF Stored
  <2>2. Len(f) >= FirstValid /\ f[1] = MagicNumber /\ f[2] = Version
        /\ f[FirstTagOffset + 1] = OffsetOf(map, 1)
    BY DEF Stored
  <2>3. FirstValid = 3 /\ FirstTagOffset + 1 = 3
    BY DEF FirstValid, FirstTagOffset
  <2>4. DOMAIN map = 1 .. n
    BY <1>1
  <2>. HIDE DEF n
  <2>5. \A j \in 1 .. n : Entry(f, map[j], OffsetOf(map, j + 1), blocks[j])
    BY <2>1, <2>4
  <2>6. Len(f) \in Nat /\ Len(f) >= 3 /\ f[3] = OffsetOf(map, 1)
    BY <2>2, <2>3
  <2>. QED BY <2>2, <2>5, <2>6
<1>8. \A j \in 1 .. n : /\ map[j] \in Headers /\ map[j].Offset \in Nat /\ map[j].BlockSize \in Nat
                        /\ map[j].Offset >= 3
                        /\ BlockEnd(map, j) = map[j].Offset + 3 + map[j].BlockSize
  BY <1>2, LaidOffsets
<1>9. h <= Len(f)
  <2>1. CASE k = 1
    BY <1>3, <1>7, <2>1
  <2>2. CASE k # 1
    <3>1. k - 1 \in 1 .. n /\ k > 1
      BY <1>1, <2>2
    <3>2. Entry(f, map[k - 1], OffsetOf(map, (k - 1) + 1), blocks[k - 1]) /\ h = BlockEnd(map, k - 1)
      BY <1>3, <1>7, <3>1
    <3>. QED BY <3>2 DEF Entry, BlockEnd
  <2>. QED BY <2>1, <2>2
<1>10. HeaderSize = 3
  BY DEF HeaderSize
<1>11. /\ g \in Seq(Nat) /\ Len(g) >= Len(f) /\ Len(g) >= h + 3 + z
       /\ g[h + 1] = tag /\ g[h + 2] = OffsetOf(map, k) /\ g[h + 3] = z
       /\ \A i \in 1 .. z : g[h + 3 + i] = data[i]
       /\ g[l + 1] = h
       /\ \A i \in 1 .. Len(f) : i # l + 1 /\ (i <= h \/ i > h + 3 + z) => g[i] = f[i]
  <2>1. /\ g \in Seq(Nat) /\ Len(g) >= Len(f) /\ Len(g) >= h + HeaderSize + Len(data)
        /\ g[h + 1] = tag /\ g[h + 2] = OffsetOf(map, k) /\ g[h + 3] = Len(data)
        /\ \A i \in 1 .. Len(data) : g[h + HeaderSize + i] = data[i]
        /\ g[l + 1] = h
        /\ \A i \in 1 .. Len(f) : i # l + 1 /\ (i <= h \/ i > h + HeaderSize + Len(data)) => g[i] = f[i]
    <3>1. HoleOffset(map, k) <= Len(f)
      BY <1>9
    <3>. HIDE DEF h
    <3>. QED BY <1>2, <3>1, AddedCells DEF h
  <2>. HIDE DEF g, h, l
  <2>. QED BY <1>10, <2>1
<1>12. Laid(m2)
  <2>1. header.Offset >= 3 /\ (\A j \in 1 .. k - 1 : BlockEnd(map, j) <= header.Offset)
        /\ \A j \in k .. Len(map) : header.Offset + 3 + header.BlockSize <= map[j].Offset
    BY <1>3, <1>4, <1>6
  <2>2. header \in Headers
    BY <1>4
  <2>. HIDE DEF header
  <2>. QED BY <1>2, <2>1, <2>2, InsertedLaid
<1>13. n = Len(map) /\ z = Len(data)
  OBVIOUS
<1>. HIDE DEF h, l, g, header, new, z
<1>14. /\ m2 \in Seq(Headers) /\ Len(m2) = n + 1
       /\ \A i \in 1 .. k - 1 : m2[i] = map[i]
       /\ m2[k] = header
       /\ \A i \in k .. n : m2[i + 1] = map[i]
  <2>1. header \in Headers
    BY <1>4
  <2>. HIDE DEF m2, n
  <2>2. /\ InsertAt(map, k, header) \in Seq(Headers)
        /\ Len(InsertAt(map, k, header)) = Len(map) + 1
        /\ \A i \in 1 .. k - 1 : InsertAt(map, k, header)[i] = map[i]
        /\ InsertAt(map, k, header)[k] = header
        /\ \A i \in k .. Len(map) : InsertAt(map, k, header)[i + 1] = map[i]
    BY <2>1, InsertProperties
  <2>. QED BY <2>2 DEF m2, n
<1>15. /\ b2 \in Seq(Blocks) /\ Len(b2) = n + 1
       /\ \A i \in 1 .. k - 1 : b2[i] = blocks[i]
       /\ b2[k] = new
       /\ \A i \in k .. n : b2[i + 1] = blocks[i]
  <2>1. k \in 1 .. Len(blocks) + 1
    BY <1>1
  <2>2. new \in Blocks
    BY <1>5
  <2>3. /\ b2 \in Seq(Blocks) /\ Len(b2) = Len(blocks) + 1
        /\ \A i \in 1 .. k - 1 : b2[i] = blocks[i]
        /\ b2[k] = new
        /\ \A i \in k .. Len(blocks) : b2[i + 1] = blocks[i]
    BY <2>1, <2>2, InsertProperties
  <2>. HIDE DEF b2, n
  <2>4. Len(blocks) = n
    BY <1>1
  <2>. QED BY <2>3, <2>4
<1>. HIDE DEF m2, b2, n
<1>16. DOMAIN m2 = 1 .. n + 1
  BY <1>1, <1>14
\* The places of the new list: in front of the new block, its own, behind it.
<1>17. \A j \in 1 .. n + 1 : j \in 1 .. k - 1 \/ j = k \/ (j - 1 \in k .. n /\ (j - 1) + 1 = j)
  BY <1>1
\* Where the next block is, seen from each of them.
<1>18. \A j \in 1 .. k - 2 : OffsetOf(m2, j + 1) = OffsetOf(map, j + 1)
  <2>. TAKE j \in 1 .. k - 2
  <2>1. j + 1 \in 1 .. k - 1 /\ j + 1 \in 1 .. n /\ j + 1 \in 1 .. n + 1
    BY <1>1
  <2>2. m2[j + 1] = map[j + 1]
    BY <1>14, <2>1
  <2>. QED BY <1>1, <1>16, <2>1, <2>2 DEF OffsetOf
<1>19. OffsetOf(m2, k) = h
  <2>1. k \in 1 .. n + 1
    BY <1>1
  <2>. QED BY <1>4, <1>14, <1>16, <2>1 DEF OffsetOf
<1>20. \A j \in k .. n + 1 : OffsetOf(m2, j + 1) = OffsetOf(map, j)
  <2>. TAKE j \in k .. n + 1
  <2>1. CASE j = n + 1
    <3>1. j \notin 1 .. n /\ j + 1 \notin 1 .. n + 1
      BY <1>1, <2>1
    <3>. QED BY <1>1, <1>16, <3>1 DEF OffsetOf
  <2>2. CASE j # n + 1
    <3>1. j \in k .. n /\ j \in 1 .. n /\ j + 1 \in 1 .. n + 1
      BY <1>1, <2>2
    <3>. QED BY <1>1, <1>14, <1>16, <3>1 DEF OffsetOf
  <2>. QED BY <2>1, <2>2
<1>21. ASSUME NEW j \in 1 .. k - 1 PROVE Entry(g, m2[j], OffsetOf(m2, j + 1), b2[j])
  <2>. DEFINE hd == map[j]
              o == hd.Offset
              next == OffsetOf(map, j + 1)
              next2 == OffsetOf(m2, j + 1)
              item == blocks[j]
  <2>1. j \in 1 .. n /\ m2[j] = hd /\ b2[j] = item
    BY <1>1, <1>14, <1>15
  <2>2. hd \in Headers /\ o \in Nat /\ hd.BlockSize \in Nat /\ o + 3 + hd.BlockSize <= h
    BY <1>3, <1>8, <2>1
  <2>3. Entry(f, hd, next, item)
    BY <1>7, <2>1
  <2>4. f[o + 2] = next /\ o + 2 \in 1 .. Len(f) /\ o + 2 <= h
    <3>1. f[o + 2] = next
      BY <2>3 DEF Entry
    <3>2. hd.BlockSize \in Nat /\ o \in Nat /\ o + 3 + hd.BlockSize <= h
      BY <2>2
    <3>. DEFINE w == hd.BlockSize
    <3>3. w \in Nat /\ o + 3 + w <= h
      BY <3>2
    <3>. HIDE DEF o, w
    <3>4. o + 2 <= h
      BY <1>3, <3>2, <3>3
    <3>. QED BY <1>3, <1>7, <1>9, <3>1, <3>2, <3>4
  <2>5. g[o + 2] = next2 /\ (l = o + 1 \/ o + 3 + hd.BlockSize < l)
    <3>1. CASE j = k - 1
      <4>1. k > 1 /\ j + 1 = k
        BY <1>1, <3>1
      <4>2. l = o + 1
        BY <1>3, <3>1, <4>1
      <4>3. l + 1 = o + 2
        BY <2>2, <4>2
      <4>. QED BY <1>11, <1>19, <4>1, <4>2, <4>3
    <3>2. CASE j # k - 1
      <4>1. j \in 1 .. k - 2
        BY <1>1, <3>2
      <4>2. o + 3 + hd.BlockSize < l
        BY <1>3, <1>8, <2>1, <4>1
      <4>3. o + 2 # l + 1
        <5>. DEFINE w == hd.BlockSize
        <5>1. w \in Nat /\ o + 3 + w < l /\ o \in Nat
          BY <2>2, <4>2
        <5>. HIDE DEF o, w
        <5>. QED BY <1>3, <5>1
      <4>4. g[o + 2] = f[o + 2]
        BY <1>11, <2>4, <4>3
      <4>. QED BY <1>18, <2>4, <4>1, <4>2, <4>4
    <3>. QED BY <3>1, <3>2
  <2>6. /\ g \in Seq(Nat) /\ Len(g) >= Len(f)
        /\ \A c \in 1 .. Len(f) : c # l + 1 /\ c <= h => g[c] = f[c]
    BY <1>11
  <2>. HIDE DEF hd, next, next2, item
  <2>7. ASSUME NEW c \in 1 .. Len(f), o < c, c <= o + HeaderSize + hd.BlockSize, c # o + 2
        PROVE  g[c] = f[c]
    <3>1. o < c /\ c <= o + 3 + hd.BlockSize /\ c # o + 2 /\ c \in Nat
      BY <1>10, <2>7
    <3>. HIDE DEF o
    <3>2. c <= h
      BY <1>3, <2>2, <3>1
    <3>3. c # l + 1
      <4>. DEFINE w == hd.BlockSize
      <4>1. w \in Nat /\ o \in Nat /\ (l = o + 1 \/ o + 3 + w < l) /\ c <= o + 3 + w
        BY <2>2, <2>5, <3>1
      <4>. HIDE DEF w
      <4>2. CASE l = o + 1
        BY <3>1, <4>1, <4>2
      <4>3. CASE o + 3 + w < l
        BY <1>3, <3>1, <4>1, <4>3
      <4>. QED BY <4>1, <4>2, <4>3
    <3>. QED BY <2>6, <3>2, <3>3
  <2>8. g[hd.Offset + 2] = next2 /\ hd \in Headers
    BY <2>2, <2>5
  <2>9. \A c \in 1 .. Len(f) :
          hd.Offset < c /\ c <= hd.Offset + HeaderSize + hd.BlockSize /\ c # hd.Offset + 2 => g[c] = f[c]
    BY <2>7
  <2>10. g \in Seq(Nat)
    BY <2>6
  <2>11. Entry(g, hd, next2, item)
    <3>1. Len(g) >= Len(f)
      BY <2>6
    <3>2. hd \in Headers
      BY <2>2
    <3>3. g[hd.Offset + 2] = next2
      BY <2>8
    <3>. QED BY <2>3, <2>9, <2>10, <3>1, <3>2, <3>3, EntryKept, ZenonT(30)
  <2>. QED BY <2>1, <2>11 DEF next2
<1>22. Entry(g, m2[k], OffsetOf(m2, k + 1), b2[k])
  <2>1. k \in k .. n + 1
    BY <1>1
  <2>2. OffsetOf(m2, k + 1) = OffsetOf(map, k)
    BY <1>20, <2>1
  <2>3. \A i \in 1 .. z : g[h + HeaderSize + i] = data[i]
    BY <1>10, <1>11
  <2>4. h + HeaderSize + z <= Len(g) /\ Len(data) = z
    BY <1>10, <1>11, <1>13
  <2>5. Entry(g, header, OffsetOf(map, k), new)
    BY <1>4, <1>5, <1>11, <2>3, <2>4 DEF Entry
  <2>. QED BY <1>14, <1>15, <2>2, <2>5
<1>23. ASSUME NEW p \in k .. n PROVE Entry(g, m2[p + 1], OffsetOf(m2, (p + 1) + 1), b2[p + 1])
  <2>. DEFINE hd == map[p]
              o == hd.Offset
              next == OffsetOf(map, p + 1)
              next2 == OffsetOf(m2, (p + 1) + 1)
              item == blocks[p]
  <2>1. p \in 1 .. n /\ m2[p + 1] = hd /\ b2[p + 1] = item /\ p + 1 \in k .. n + 1
    BY <1>1, <1>14, <1>15
  <2>2. hd \in Headers /\ o \in Nat /\ hd.BlockSize \in Nat /\ h + 3 + z <= o
    BY <1>6, <1>8, <2>1
  <2>3. Entry(f, hd, next, item)
    BY <1>7, <2>1
  <2>4. next2 = next
    BY <1>20, <2>1
  <2>5. f[o + 2] = next /\ o + 3 + hd.BlockSize <= Len(f)
    BY <1>10, <2>3 DEF Entry
  <2>6. /\ g \in Seq(Nat) /\ Len(g) >= Len(f)
        /\ \A c \in 1 .. Len(f) : c # l + 1 /\ c > h + 3 + z => g[c] = f[c]
    BY <1>11
  <2>. HIDE DEF hd, next, next2, item
  <2>7. ASSUME NEW c \in 1 .. Len(f), o < c
        PROVE  g[c] = f[c]
    <3>1. o < c /\ c \in Nat
      BY <2>7
    <3>. HIDE DEF o
    <3>2. c > h + 3 + z /\ c # l + 1
      BY <1>1, <1>3, <2>2, <3>1
    <3>. QED BY <2>6, <3>2
  <2>8. g[o + 2] = next2
    <3>1. o + 2 \in 1 .. Len(f) /\ o < o + 2
      <4>. HIDE DEF o
      <4>. QED BY <1>7, <2>2, <2>5
    <3>. QED BY <2>4, <2>5, <2>7, <3>1
  <2>9. g[hd.Offset + 2] = next2 /\ hd \in Headers
    BY <2>2, <2>8
  <2>10. \A c \in 1 .. Len(f) :
          hd.Offset < c /\ c <= hd.Offset + HeaderSize + hd.BlockSize /\ c # hd.Offset + 2 => g[c] = f[c]
    BY <2>7
  <2>11. g \in Seq(Nat)
    BY <2>6
  <2>12. Entry(g, hd, next2, item)
    <3>1. Len(g) >= Len(f)
      BY <2>6
    <3>2. hd \in Headers
      BY <2>2
    <3>3. g[hd.Offset + 2] = next2
      BY <2>9
    <3>. QED BY <2>3, <2>10, <2>11, <3>1, <3>2, <3>3, EntryKept, ZenonT(30)
  <2>. QED BY <2>1, <2>12 DEF next2
<1>24. \A j \in 1 .. n + 1 : Entry(g, m2[j], OffsetOf(m2, j + 1), b2[j])
  <2>. TAKE j \in 1 .. n + 1
  <2>1. CASE j \in 1 .. k - 1
    BY <1>21, <2>1
  <2>2. CASE j = k
    BY <1>22, <2>2
  <2>3. CASE j - 1 \in k .. n /\ (j - 1) + 1 = j
    <3>1. Entry(g, m2[(j - 1) + 1], OffsetOf(m2, ((j - 1) + 1) + 1), b2[(j - 1) + 1])
      BY <1>23, <2>3
    <3>. QED BY <2>3, <3>1
  <2>. QED BY <1>17, <2>1, <2>2, <2>3
\* The header of the file, which has the offset of the first block.
<1>25. /\ Len(g) >= 3 /\ g[1] = MagicNumber /\ g[2] = Version /\ g[3] = OffsetOf(m2, 1)
  <2>1. CASE k = 1
    <3>1. g[1] = f[1] /\ g[2] = f[2]
      <4>1. 1 \in 1 .. Len(f) /\ 2 \in 1 .. Len(f)
        BY <1>7
      <4>2. l + 1 = 3 /\ h = 3
        BY <1>3, <2>1
      <4>3. 1 # l + 1 /\ 2 # l + 1 /\ 1 <= h /\ 2 <= h
        BY <4>2
      <4>. QED BY <1>11, <4>1, <4>3
    <3>2. g[3] = h
      BY <1>3, <1>11, <2>1
    <3>. QED BY <1>7, <1>11, <1>19, <2>1, <3>1, <3>2
  <2>2. CASE k # 1
    <3>1. k - 1 \in 1 .. n /\ k > 1 /\ 1 \in 1 .. k - 1 /\ 1 \in 1 .. n /\ 1 \in 1 .. n + 1
      BY <1>1, <2>2
    <3>2. l >= 4
      <4>1. l = map[k - 1].Offset + 1 /\ map[k - 1].Offset \in Nat /\ map[k - 1].Offset >= 3
        BY <1>3, <1>8, <3>1
      <4>. QED BY <4>1
    <3>3. g[1] = f[1] /\ g[2] = f[2] /\ g[3] = f[3]
      <4>1. 1 \in 1 .. Len(f) /\ 2 \in 1 .. Len(f) /\ 3 \in 1 .. Len(f)
        BY <1>7
      <4>2. 1 # l + 1 /\ 2 # l + 1 /\ 3 # l + 1 /\ 1 <= h /\ 2 <= h /\ 3 <= h
        BY <1>3, <3>2
      <4>. QED BY <1>11, <4>1, <4>2
    <3>4. OffsetOf(m2, 1) = OffsetOf(map, 1)
      <4>1. m2[1] = map[1]
        BY <1>14, <3>1
      <4>. QED BY <1>1, <1>16, <3>1, <4>1 DEF OffsetOf
    <3>. QED BY <1>7, <1>11, <3>3, <3>4
  <2>. QED BY <2>1, <2>2
<1>26. Stored(g, m2, b2)
  BY <1>12, <1>14, <1>15, <1>16, <1>24, <1>25 DEF Stored, FirstValid, FirstTagOffset
<1>27. g \in Seq(Nat) /\ m2 \in Seq(Headers) /\ b2 \in Seq(Blocks) /\ Len(m2) = n + 1
  BY <1>11, <1>14, <1>15
<1>. QED BY <1>26, <1>27 DEF g, m2, b2, header, new, n

\* LArchiveFile_RemoveBlock leaves the other blocks where they are, in the file
\* and in the list.
LEMMA RemoveStored ==
  ASSUME NEW f \in Seq(Nat), NEW map \in Seq(Headers), NEW blocks \in Seq(Blocks),
         Stored(f, map, blocks), NEW k \in 1 .. Len(map)
  PROVE  /\ WithLink(f, map, k, OffsetOf(map, k + 1)) \in Seq(Nat)
         /\ RemoveAt(map, k) \in Seq(Headers) /\ RemoveAt(blocks, k) \in Seq(Blocks)
         /\ Stored(WithLink(f, map, k, OffsetOf(map, k + 1)), RemoveAt(map, k), RemoveAt(blocks, k))
<1>. DEFINE n == Len(map)
            h == HoleOffset(map, k)
            l == LinkOffset(map, k)
            x == OffsetOf(map, k + 1)
            one == <<x>>
            g == WithLink(f, map, k, x)
            m2 == RemoveAt(map, k)
            b2 == RemoveAt(blocks, k)
<1>1. n \in Nat /\ k \in Nat /\ k >= 1 /\ k <= n /\ DOMAIN map = 1 .. n /\ Len(blocks) = n
      /\ k \in 1 .. n + 1 /\ n = Len(map)
  BY DEF Stored
<1>2. Laid(map) /\ Laid(m2)
  BY RemovedLaid DEF Stored
<1>3. /\ h \in Nat /\ h >= 3 /\ l \in Nat /\ l + 1 <= h
      /\ k = 1 => h = 3 /\ l = 2
      /\ k > 1 => h = BlockEnd(map, k - 1) /\ l = map[k - 1].Offset + 1
      /\ \A j \in 1 .. k - 1 : BlockEnd(map, j) <= h
      /\ \A j \in 1 .. k - 2 : BlockEnd(map, j) < l
  BY <1>1, <1>2, HolePlace DEF FirstValid, FirstTagOffset
<1>4. /\ \A j \in 1 .. n : Entry(f, map[j], OffsetOf(map, j + 1), blocks[j])
      /\ Len(f) \in Nat /\ Len(f) >= 3 /\ f[1] = MagicNumber /\ f[2] = Version /\ f[3] = OffsetOf(map, 1)
  <2>1. \A j \in DOMAIN map : Entry(f, map[j], OffsetOf(map, j + 1), blocks[j])
    BY DEF Stored
  <2>2. Len(f) >= FirstValid /\ f[1] = MagicNumber /\ f[2] = Version
        /\ f[FirstTagOffset + 1] = OffsetOf(map, 1)
    BY DEF Stored
  <2>3. FirstValid = 3 /\ FirstTagOffset + 1 = 3
    BY DEF FirstValid, FirstTagOffset
  <2>4. DOMAIN map = 1 .. n
    BY <1>1
  <2>. HIDE DEF n
  <2>5. \A j \in 1 .. n : Entry(f, map[j], OffsetOf(map, j + 1), blocks[j])
    BY <2>1, <2>4
  <2>6. Len(f) \in Nat /\ Len(f) >= 3 /\ f[3] = OffsetOf(map, 1)
    BY <2>2, <2>3
  <2>. QED BY <2>2, <2>5, <2>6
<1>5. \A j \in 1 .. n : /\ map[j] \in Headers /\ map[j].Offset \in Nat /\ map[j].BlockSize \in Nat
                        /\ map[j].Offset >= 3
                        /\ BlockEnd(map, j) = map[j].Offset + 3 + map[j].BlockSize
                        /\ \A i \in 1 .. n : j < i => BlockEnd(map, j) <= map[i].Offset
  BY <1>2, LaidOffsets
<1>6. HeaderSize = 3
  BY DEF HeaderSize
<1>7. h <= map[k].Offset /\ h <= Len(f)
  <2>1. h <= map[k].Offset
    <3>1. CASE k = 1
      BY <1>1, <1>3, <1>5, <3>1
    <3>2. CASE k # 1
      <4>1. k - 1 \in 1 .. n /\ k > 1 /\ k - 1 < k /\ k \in 1 .. n
        BY <1>1, <3>2
      <4>. QED BY <1>3, <1>5, <4>1
    <3>. QED BY <3>1, <3>2
  <2>2. map[k].Offset + 3 + map[k].BlockSize <= Len(f)
    <3>1. Entry(f, map[k], OffsetOf(map, k + 1), blocks[k])
      BY <1>4
    <3>. QED BY <1>6, <3>1 DEF Entry
  <2>3. map[k].Offset \in Nat /\ map[k].BlockSize \in Nat
    BY <1>5
  <2>. DEFINE o == map[k].Offset
              w == map[k].BlockSize
  <2>4. o \in Nat /\ w \in Nat /\ o + 3 + w <= Len(f) /\ h <= o
    BY <2>1, <2>2, <2>3
  <2>. HIDE DEF o, w, h
  <2>5. h <= Len(f)
    BY <1>3, <1>4, <2>4
  <2>. QED BY <2>4, <2>5 DEF o
<1>8. x \in Nat
  BY HeaderTypes DEF OffsetOf
<1>9. g = WrittenAt(f, l, one) /\ Len(one) = 1 /\ one[1] = x
  BY DEF WithLink
<1>10. one \in Seq(Nat) /\ l \in 0 .. Len(f)
  <2>1. l <= Len(f)
    <3>. HIDE DEF l, h
    <3>. QED BY <1>3, <1>4, <1>7
  <2>. QED BY <1>3, <1>8, <2>1
<1>. HIDE DEF h, l, x, g, one
<1>11. /\ g \in Seq(Nat) /\ Len(g) >= Len(f)
       /\ g[l + 1] = x
       /\ \A i \in 1 .. Len(f) : i # l + 1 => g[i] = f[i]
  <2>1. one \in Seq(Nat)
    BY <1>10
  <2>2. l \in 0 .. Len(f)
    BY <1>10
  <2>. DEFINE w == WrittenAt(f, l, one)
  <2>3. /\ w \in Seq(Nat)
        /\ Len(w) = Larger(Len(f), l + Len(one))
        /\ \A i \in 1 .. Len(one) : w[l + i] = one[i]
        /\ \A i \in 1 .. Len(f) : i \notin l + 1 .. l + Len(one) => w[i] = f[i]
    BY <2>1, <2>2, WrittenCells
  <2>4. g = w
    BY <1>9
  <2>. HIDE DEF w
  <2>5. Len(w) = Larger(Len(f), l + 1) /\ l + 1 \in Nat
    BY <1>3, <1>9, <2>3
  <2>6. w[l + 1] = x
    BY <1>9, <2>3
  <2>7. \A i \in 1 .. Len(f) : i # l + 1 => w[i] = f[i]
    BY <1>3, <1>9, <2>3
  <2>8. Len(w) >= Len(f)
    BY <1>4, <2>5 DEF Larger
  <2>. QED BY <2>3, <2>4, <2>6, <2>7, <2>8
<1>12. /\ m2 \in Seq(Headers) /\ Len(m2) = n - 1
       /\ \A i \in 1 .. k - 1 : m2[i] = map[i]
       /\ \A i \in k + 1 .. n : m2[i - 1] = map[i]
  BY RemoveProperties
<1>13. /\ b2 \in Seq(Blocks) /\ Len(b2) = n - 1
       /\ \A i \in 1 .. k - 1 : b2[i] = blocks[i]
       /\ \A i \in k + 1 .. n : b2[i - 1] = blocks[i]
  <2>1. k \in 1 .. Len(blocks)
    BY <1>1
  <2>2. /\ b2 \in Seq(Blocks) /\ Len(b2) = Len(blocks) - 1
        /\ \A i \in 1 .. k - 1 : b2[i] = blocks[i]
        /\ \A i \in k + 1 .. Len(blocks) : b2[i - 1] = blocks[i]
    BY <2>1, RemoveProperties
  <2>. HIDE DEF b2, n
  <2>3. Len(blocks) = n
    BY <1>1
  <2>. QED BY <2>2, <2>3
<1>. HIDE DEF m2, b2, n
<1>14. DOMAIN m2 = 1 .. n - 1
  BY <1>1, <1>12
\* The places of the new list: in front of the removed block, and behind it.
<1>15. \A j \in 1 .. n - 1 : j \in 1 .. k - 1 \/ (j + 1 \in k + 1 .. n /\ (j + 1) - 1 = j)
  BY <1>1
\* Where the next block is, seen from each of them.
<1>16. \A j \in 1 .. k - 1 : OffsetOf(m2, j) = OffsetOf(map, j)
  <2>. TAKE j \in 1 .. k - 1
  <2>1. j \in 1 .. n /\ j \in 1 .. n - 1 /\ m2[j] = map[j]
    BY <1>1, <1>12
  <2>. QED BY <1>1, <1>14, <2>1 DEF OffsetOf
<1>17. \A j \in k .. n : OffsetOf(m2, j) = OffsetOf(map, j + 1)
  <2>. TAKE j \in k .. n
  <2>1. CASE j = n
    <3>1. j + 1 \notin 1 .. n /\ j \notin 1 .. n - 1
      BY <1>1, <2>1
    <3>. QED BY <1>1, <1>14, <3>1 DEF OffsetOf
  <2>2. CASE j # n
    <3>1. j + 1 \in k + 1 .. n /\ (j + 1) - 1 = j /\ j + 1 \in 1 .. n /\ j \in 1 .. n - 1
      <4>1. j \in Nat /\ k <= j /\ j <= n
        BY <1>1
      <4>2. n \in Nat
        BY <1>1
      <4>3. j < n
        BY <2>2, <4>1, <4>2
      <4>. QED BY <1>1, <4>1, <4>3
    <3>2. m2[(j + 1) - 1] = map[j + 1]
      BY <1>12, <3>1
    <3>3. m2[j] = map[j + 1]
      BY <3>1, <3>2
    <3>. QED BY <1>1, <1>14, <3>1, <3>3 DEF OffsetOf
  <2>. QED BY <2>1, <2>2
<1>18. OffsetOf(m2, k) = x
  <2>1. k \in k .. n
    BY <1>1
  <2>. QED BY <1>17, <2>1 DEF x
<1>19. ASSUME NEW j \in 1 .. k - 1 PROVE Entry(g, m2[j], OffsetOf(m2, j + 1), b2[j])
  <2>. DEFINE hd == map[j]
              o == hd.Offset
              w == hd.BlockSize
              next == OffsetOf(map, j + 1)
              next2 == OffsetOf(m2, j + 1)
              item == blocks[j]
  <2>1. j \in 1 .. n /\ m2[j] = hd /\ b2[j] = item
    BY <1>1, <1>12, <1>13
  <2>2. hd \in Headers /\ o \in Nat /\ w \in Nat /\ o + 3 + w = BlockEnd(map, j)
    BY <1>5, <2>1
  <2>3. Entry(f, hd, next, item)
    BY <1>4, <2>1
  <2>4. f[o + 2] = next /\ o + 3 + w <= Len(f)
    BY <1>6, <2>3 DEF Entry
  <2>5. g[o + 2] = next2 /\ (l = o + 1 \/ o + 3 + w < l)
    <3>1. CASE j = k - 1
      <4>1. k > 1 /\ j + 1 = k
        BY <1>1, <3>1
      <4>2. l = o + 1
        BY <1>3, <3>1, <4>1
      <4>3. l + 1 = o + 2
        BY <2>2, <4>2
      <4>. QED BY <1>11, <1>18, <4>1, <4>2, <4>3
    <3>2. CASE j # k - 1
      <4>1. j \in 1 .. k - 2 /\ j + 1 \in 1 .. k - 1
        BY <1>1, <3>2
      <4>2. o + 3 + w < l
        BY <1>3, <2>2, <4>1
      <4>3. o + 2 # l + 1 /\ o + 2 \in 1 .. Len(f)
        <5>1. Len(f) \in Nat /\ l \in Nat /\ o \in Nat /\ w \in Nat /\ o + 3 + w <= Len(f)
          BY <1>3, <1>4, <2>2, <2>4
        <5>. HIDE DEF o, w
        <5>2. o + 2 # l + 1
          BY <4>2, <5>1
        <5>3. o + 2 <= Len(f)
          BY <5>1
        <5>. QED BY <5>1, <5>2, <5>3
      <4>4. g[o + 2] = f[o + 2]
        BY <1>11, <4>3
      <4>. QED BY <1>16, <2>4, <4>1, <4>2, <4>4
    <3>. QED BY <3>1, <3>2
  <2>6. /\ g \in Seq(Nat) /\ Len(g) >= Len(f)
        /\ \A c \in 1 .. Len(f) : c # l + 1 => g[c] = f[c]
    BY <1>11
  <2>. HIDE DEF hd, next, next2, item
  <2>7. ASSUME NEW c \in 1 .. Len(f), o < c, c <= o + HeaderSize + w, c # o + 2
        PROVE  g[c] = f[c]
    <3>1. o < c /\ c <= o + 3 + w /\ c # o + 2 /\ c \in Nat
      BY <1>6, <2>7
    <3>. HIDE DEF o, w
    <3>2. c # l + 1
      <4>1. CASE l = o + 1
        BY <2>2, <3>1, <4>1
      <4>2. CASE o + 3 + w < l
        BY <1>3, <2>2, <3>1, <4>2
      <4>. QED BY <2>5, <4>1, <4>2
    <3>. QED BY <2>6, <3>2
  <2>8. g[hd.Offset + 2] = next2
    BY <2>5
  <2>9. \A c \in 1 .. Len(f) :
          hd.Offset < c /\ c <= hd.Offset + HeaderSize + hd.BlockSize /\ c # hd.Offset + 2 => g[c] = f[c]
    BY <2>7
  <2>10. g \in Seq(Nat)
    BY <2>6
  <2>11. Len(g) >= Len(f)
    BY <2>6
  <2>12. hd \in Headers
    BY <2>2
  <2>13. Entry(g, hd, next2, item)
    BY <2>3, <2>8, <2>9, <2>10, <2>11, <2>12, EntryKept, ZenonT(30)
  <2>. QED BY <2>1, <2>13 DEF next2
<1>20. ASSUME NEW p \in k + 1 .. n PROVE Entry(g, m2[p - 1], OffsetOf(m2, p), b2[p - 1])
  <2>. DEFINE hd == map[p]
              o == hd.Offset
              w == hd.BlockSize
              next == OffsetOf(map, p + 1)
              next2 == OffsetOf(m2, p)
              item == blocks[p]
  <2>1. p \in 1 .. n /\ m2[p - 1] = hd /\ b2[p - 1] = item /\ p \in k .. n /\ k < p
    BY <1>1, <1>12, <1>13
  <2>2. hd \in Headers /\ o \in Nat /\ w \in Nat
    BY <1>5, <2>1
  <2>3. l + 1 < o
    <3>1. k \in 1 .. n
      BY <1>1
    <3>2. /\ map[k].Offset \in Nat /\ map[k].BlockSize \in Nat
          /\ BlockEnd(map, k) = map[k].Offset + 3 + map[k].BlockSize /\ BlockEnd(map, k) <= o
      BY <1>5, <2>1, <3>1
    <3>. DEFINE ok == map[k].Offset
                wk == map[k].BlockSize
    <3>3. ok \in Nat /\ wk \in Nat /\ ok + 3 + wk <= o /\ h <= ok
      BY <1>7, <3>2
    <3>. HIDE DEF o, ok, wk
    <3>. QED BY <1>3, <2>2, <3>3
  <2>4. Entry(f, hd, next, item)
    BY <1>4, <2>1
  <2>5. next2 = next
    BY <1>17, <2>1
  <2>6. f[o + 2] = next /\ o + 3 + w <= Len(f)
    BY <1>6, <2>4 DEF Entry
  <2>7. /\ g \in Seq(Nat) /\ Len(g) >= Len(f)
        /\ \A c \in 1 .. Len(f) : c # l + 1 => g[c] = f[c]
    BY <1>11
  <2>. HIDE DEF hd, next, next2, item
  <2>8. ASSUME NEW c \in 1 .. Len(f), o < c PROVE g[c] = f[c]
    <3>1. o < c /\ c \in Nat
      BY <2>8
    <3>. HIDE DEF o
    <3>2. c # l + 1
      BY <1>3, <2>2, <2>3, <3>1
    <3>. QED BY <2>7, <3>2
  <2>9. g[hd.Offset + 2] = next2
    <3>1. o + 2 \in 1 .. Len(f) /\ o < o + 2
      <4>. HIDE DEF o, w
      <4>. QED BY <1>4, <2>2, <2>6
    <3>. QED BY <2>5, <2>6, <2>8, <3>1
  <2>10. \A c \in 1 .. Len(f) :
          hd.Offset < c /\ c <= hd.Offset + HeaderSize + hd.BlockSize /\ c # hd.Offset + 2 => g[c] = f[c]
    BY <2>8
  <2>11. g \in Seq(Nat)
    BY <2>7
  <2>12. Len(g) >= Len(f)
    BY <2>7
  <2>13. hd \in Headers
    BY <2>2
  <2>14. Entry(g, hd, next2, item)
    BY <2>4, <2>9, <2>10, <2>11, <2>12, <2>13, EntryKept, ZenonT(30)
  <2>. QED BY <2>1, <2>14 DEF next2
<1>21. \A j \in 1 .. n - 1 : Entry(g, m2[j], OffsetOf(m2, j + 1), b2[j])
  <2>. TAKE j \in 1 .. n - 1
  <2>1. CASE j \in 1 .. k - 1
    BY <1>19, <2>1
  <2>2. CASE j + 1 \in k + 1 .. n /\ (j + 1) - 1 = j
    <3>1. Entry(g, m2[(j + 1) - 1], OffsetOf(m2, j + 1), b2[(j + 1) - 1])
      BY <1>20, <2>2
    <3>. QED BY <2>2, <3>1
  <2>. QED BY <1>15, <2>1, <2>2
\* The header of the file, which has the offset of the first block.
<1>22. Len(g) >= 3 /\ g[1] = MagicNumber /\ g[2] = Version /\ g[3] = OffsetOf(m2, 1)
  <2>1. 1 \in 1 .. Len(f) /\ 2 \in 1 .. Len(f) /\ 3 \in 1 .. Len(f) /\ Len(g) >= 3
    <3>1. Len(g) \in Nat /\ Len(g) >= Len(f)
      BY <1>11
    <3>2. Len(f) \in Nat /\ Len(f) >= 3
      BY <1>4
    <3>. QED BY <3>1, <3>2
  <2>2. CASE k = 1
    <3>1. l + 1 = 3 /\ 1 # l + 1 /\ 2 # l + 1
      BY <1>3, <2>2
    <3>2. g[1] = f[1] /\ g[2] = f[2] /\ g[3] = x
      BY <1>11, <2>1, <3>1
    <3>. QED BY <1>4, <1>18, <2>1, <2>2, <3>2
  <2>3. CASE k # 1
    <3>1. k - 1 \in 1 .. n /\ k > 1 /\ 1 \in 1 .. k - 1
      BY <1>1, <2>3
    <3>2. l >= 4
      <4>1. l = map[k - 1].Offset + 1 /\ map[k - 1].Offset \in Nat /\ map[k - 1].Offset >= 3
        BY <1>3, <1>5, <3>1
      <4>. QED BY <4>1
    <3>3. 1 # l + 1 /\ 2 # l + 1 /\ 3 # l + 1
      BY <1>3, <3>2
    <3>4. g[1] = f[1] /\ g[2] = f[2] /\ g[3] = f[3]
      BY <1>11, <2>1, <3>3
    <3>5. OffsetOf(m2, 1) = OffsetOf(map, 1)
      BY <1>16, <3>1
    <3>. QED BY <1>4, <2>1, <3>4, <3>5
  <2>. QED BY <2>2, <2>3
<1>23. Stored(g, m2, b2)
  BY <1>2, <1>12, <1>13, <1>14, <1>21, <1>22 DEF Stored, FirstValid, FirstTagOffset
<1>24. g \in Seq(Nat) /\ m2 \in Seq(Headers) /\ b2 \in Seq(Blocks)
  BY <1>11, <1>12, <1>13
<1>. QED BY <1>23, <1>24 DEF g, m2, b2, x

\* A block is put inside the file or at its end.
LEMMA PlaceInFile ==
  ASSUME NEW f \in Seq(Nat), NEW map \in Seq(Headers), NEW blocks, Stored(f, map, blocks),
         NEW k \in 1 .. Len(map) + 1
  PROVE  /\ HoleOffset(map, k) \in Nat /\ HoleOffset(map, k) <= Len(f)
         /\ LinkOffset(map, k) \in 0 .. Len(f) /\ LinkOffset(map, k) + 1 <= HoleOffset(map, k)
<1>. DEFINE h == HoleOffset(map, k)
            l == LinkOffset(map, k)
<1>1. Laid(map) /\ Len(f) >= 3 /\ Len(f) \in Nat /\ Len(map) \in Nat
  BY DEF Stored, FirstValid
<1>2. h \in Nat /\ l \in Nat /\ l + 1 <= h /\ (k = 1 => h = 3) /\ (k > 1 => k - 1 \in DOMAIN map /\ h = BlockEnd(map, k - 1))
  BY <1>1, HolePlace DEF FirstValid
<1>3. h <= Len(f)
  <2>1. CASE k = 1
    BY <1>1, <1>2, <2>1
  <2>2. CASE k # 1
    <3>1. k > 1
      BY <1>1, <2>2
    <3>2. Entry(f, map[k - 1], OffsetOf(map, (k - 1) + 1), blocks[k - 1])
      BY <1>2, <3>1 DEF Stored
    <3>. QED BY <1>2, <3>1, <3>2 DEF Entry, BlockEnd
  <2>. QED BY <2>1, <2>2
<1>. HIDE DEF h, l
<1>4. l \in 0 .. Len(f)
  BY <1>1, <1>2, <1>3
<1>. QED BY <1>2, <1>3, <1>4 DEF h, l

\* A write that changes nothing in front of place k but the offset of its block
\* leaves the blocks in front of it, also in a new list that has them too.
LEMMA CutKeeps ==
  ASSUME NEW f \in Seq(Nat), NEW map \in Seq(Headers), NEW blocks \in Seq(Blocks),
         Stored(f, map, blocks), NEW k \in 1 .. Len(map) + 1,
         NEW g \in Seq(Nat), Len(g) >= Len(f),
         \A i \in 1 .. Len(f) : i # LinkOffset(map, k) + 1 /\ i <= HoleOffset(map, k) => g[i] = f[i],
         NEW m2 \in Seq(Headers), NEW b2 \in Seq(Blocks),
         Len(m2) = Len(b2), Laid(m2), k - 1 <= Len(m2),
         \A j \in 1 .. k - 1 : m2[j] = map[j],
         \A j \in 1 .. k - 1 : b2[j] = blocks[j]
  PROVE  Kept(g, m2, b2, k - 1)
<1>. DEFINE n == Len(map)
            h == HoleOffset(map, k)
            l == LinkOffset(map, k)
<1>1. n \in Nat /\ k \in Nat /\ k >= 1 /\ k <= n + 1 /\ DOMAIN map = 1 .. n
      /\ DOMAIN m2 = 1 .. Len(m2) /\ Len(m2) \in Nat /\ Len(g) \in Nat
  OBVIOUS
<1>2. Laid(map)
  BY DEF Stored
<1>3. /\ h \in Nat /\ h >= 3 /\ l \in Nat /\ l + 1 <= h /\ h <= Len(f)
      /\ k > 1 => h = BlockEnd(map, k - 1) /\ l = map[k - 1].Offset + 1
      /\ \A j \in 1 .. k - 1 : BlockEnd(map, j) <= h
      /\ \A j \in 1 .. k - 2 : BlockEnd(map, j) < l
  <2>1. h <= Len(f)
    BY PlaceInFile
  <2>. QED BY <1>2, <2>1, HolePlace DEF FirstValid
<1>4. /\ \A j \in 1 .. n : Entry(f, map[j], OffsetOf(map, j + 1), blocks[j])
      /\ Len(f) \in Nat /\ Len(f) >= 3 /\ f[1] = MagicNumber /\ f[2] = Version /\ f[3] = OffsetOf(map, 1)
  <2>1. \A j \in DOMAIN map : Entry(f, map[j], OffsetOf(map, j + 1), blocks[j])
    BY DEF Stored
  <2>2. Len(f) >= FirstValid /\ f[1] = MagicNumber /\ f[2] = Version
        /\ f[FirstTagOffset + 1] = OffsetOf(map, 1)
    BY DEF Stored
  <2>3. FirstValid = 3 /\ FirstTagOffset + 1 = 3
    BY DEF FirstValid, FirstTagOffset
  <2>4. DOMAIN map = 1 .. n
    BY <1>1
  <2>. HIDE DEF n
  <2>5. \A j \in 1 .. n : Entry(f, map[j], OffsetOf(map, j + 1), blocks[j])
    BY <2>1, <2>4
  <2>6. Len(f) \in Nat /\ Len(f) >= 3 /\ f[3] = OffsetOf(map, 1)
    BY <2>2, <2>3
  <2>. QED BY <2>2, <2>5, <2>6
<1>5. \A j \in 1 .. n : /\ map[j] \in Headers /\ map[j].Offset \in Nat /\ map[j].BlockSize \in Nat
                        /\ map[j].Offset >= 3
                        /\ BlockEnd(map, j) = map[j].Offset + 3 + map[j].BlockSize
  BY <1>2, LaidOffsets
<1>6. HeaderSize = 3
  BY DEF HeaderSize
<1>7. /\ g \in Seq(Nat) /\ Len(g) >= Len(f)
      /\ \A c \in 1 .. Len(f) : c # l + 1 /\ c <= h => g[c] = f[c]
  OBVIOUS
<1>8. /\ \A j \in 1 .. k - 1 : m2[j] = map[j]
      /\ \A j \in 1 .. k - 1 : b2[j] = blocks[j]
      /\ k - 1 <= Len(m2)
  OBVIOUS
<1>. HIDE DEF n, h, l
<1>9. \A j \in 1 .. k - 1 : j \in 1 .. n /\ j \in 1 .. Len(m2)
  BY <1>1, <1>8
<1>10. \A j \in 1 .. k - 1 : OffsetOf(m2, j) = OffsetOf(map, j)
  <2>. TAKE j \in 1 .. k - 1
  <2>. QED BY <1>1, <1>8, <1>9 DEF OffsetOf
\* Of a block in front of the last one the offset of the next is also the same.
<1>11. ASSUME NEW j \in 1 .. k - 1
       PROVE  /\ Entry(g, m2[j], g[m2[j].Offset + 2], b2[j])
              /\ j < k - 1 => g[m2[j].Offset + 2] = OffsetOf(m2, j + 1)
  <2>. DEFINE hd == map[j]
              o == hd.Offset
              w == hd.BlockSize
              next == OffsetOf(map, j + 1)
              next2 == g[hd.Offset + 2]
              item == blocks[j]
  <2>1. j \in 1 .. n /\ m2[j] = hd /\ b2[j] = item
    BY <1>8, <1>9
  <2>2. hd \in Headers /\ o \in Nat /\ w \in Nat /\ o + 3 + w = BlockEnd(map, j) /\ o + 3 + w <= h
    BY <1>3, <1>5, <2>1
  <2>3. Entry(f, hd, next, item)
    BY <1>4, <2>1
  <2>4. f[o + 2] = next
    BY <2>3 DEF Entry
  <2>5. l = o + 1 \/ o + 3 + w < l
    <3>1. CASE j = k - 1
      <4>1. k > 1
        BY <1>1, <3>1
      <4>. QED BY <1>3, <3>1, <4>1
    <3>2. CASE j # k - 1
      <4>1. j \in 1 .. k - 2
        BY <1>1, <3>2
      <4>. QED BY <1>3, <2>2, <4>1
    <3>. QED BY <3>1, <3>2
  <2>6. ASSUME j < k - 1 PROVE g[o + 2] = OffsetOf(m2, j + 1)
    <3>1. j \in 1 .. k - 2 /\ j + 1 \in 1 .. k - 1
      BY <1>1, <2>6
    <3>2. o + 3 + w < l
      BY <1>3, <2>2, <3>1
    <3>3. o + 2 # l + 1 /\ o + 2 \in 1 .. Len(f) /\ o + 2 <= h
      <4>1. o \in Nat /\ w \in Nat /\ o + 3 + w < l /\ o + 3 + w <= h
        BY <2>2, <3>2
      <4>. HIDE DEF o, w
      <4>2. o + 2 # l + 1
        BY <1>3, <4>1
      <4>3. o + 2 <= h
        BY <1>3, <4>1
      <4>. QED BY <1>3, <1>4, <4>1, <4>2, <4>3
    <3>4. g[o + 2] = f[o + 2]
      BY <1>7, <3>3
    <3>. QED BY <1>10, <2>4, <3>1, <3>4
  <2>. HIDE DEF hd, next, next2, item
  <2>7. ASSUME NEW c \in 1 .. Len(f), o < c, c <= o + HeaderSize + w, c # o + 2
        PROVE  g[c] = f[c]
    <3>1. o < c /\ c <= o + 3 + w /\ c # o + 2 /\ c \in Nat
      BY <1>6, <2>7
    <3>. HIDE DEF o, w
    <3>2. c # l + 1
      <4>1. CASE l = o + 1
        BY <2>2, <3>1, <4>1
      <4>2. CASE o + 3 + w < l
        BY <1>3, <2>2, <3>1, <4>2
      <4>. QED BY <2>5, <4>1, <4>2
    <3>3. c <= h
      BY <1>3, <2>2, <3>1
    <3>. QED BY <1>7, <3>2, <3>3
  <2>8. \A c \in 1 .. Len(f) :
          hd.Offset < c /\ c <= hd.Offset + HeaderSize + hd.BlockSize /\ c # hd.Offset + 2 => g[c] = f[c]
    BY <2>7
  <2>9. g[hd.Offset + 2] = next2 /\ hd \in Headers /\ Len(g) >= Len(f) /\ g \in Seq(Nat)
    BY <1>7, <2>2 DEF next2
  <2>10. hd \in Headers
    BY <2>9
  <2>11. g \in Seq(Nat)
    BY <2>9
  <2>12. Len(g) >= Len(f)
    BY <2>9
  <2>13. g[hd.Offset + 2] = next2
    BY <2>9
  <2>14. Entry(g, hd, next2, item)
    <3>1. f \in Seq(Nat)
      OBVIOUS
    <3>. QED BY ONLY <2>3, <2>8, <2>10, <2>11, <2>12, <2>13, <3>1, EntryKept, ZenonT(30)
  <2>. QED BY <2>1, <2>6, <2>14 DEF next2
\* The header of the file, which has the offset of the first block.
<1>12. ASSUME k - 1 > 0
       PROVE  Len(g) >= 3 /\ g[1] = MagicNumber /\ g[2] = Version /\ g[3] = OffsetOf(m2, 1)
  <2>1. k - 1 \in 1 .. n /\ k > 1 /\ 1 \in 1 .. k - 1
    BY <1>1, <1>12
  <2>2. l >= 4
    <3>1. l = map[k - 1].Offset + 1 /\ map[k - 1].Offset \in Nat /\ map[k - 1].Offset >= 3
      BY <1>3, <1>5, <2>1
    <3>. QED BY <3>1
  <2>3. 1 \in 1 .. Len(f) /\ 2 \in 1 .. Len(f) /\ 3 \in 1 .. Len(f) /\ Len(g) >= 3
    <3>1. Len(f) \in Nat /\ Len(f) >= 3 /\ Len(g) \in Nat /\ Len(g) >= Len(f)
      BY <1>1, <1>4, <1>7
    <3>. QED BY ONLY <3>1
  <2>4. 1 # l + 1 /\ 2 # l + 1 /\ 3 # l + 1 /\ 1 <= h /\ 2 <= h /\ 3 <= h
    <3>1. l \in Nat /\ l >= 4 /\ h \in Nat /\ h >= 3
      BY <1>3, <2>2
    <3>. QED BY ONLY <3>1
  <2>5. g[1] = f[1] /\ g[2] = f[2] /\ g[3] = f[3]
    BY <1>7, <2>3, <2>4
  <2>6. OffsetOf(m2, 1) = OffsetOf(map, 1)
    BY <1>10, <2>1
  <2>. QED BY <1>4, <2>3, <2>5, <2>6
<1>13. k - 1 \in Nat
  BY <1>1
<1>14. FirstValid = 3 /\ FirstTagOffset + 1 = 3
  BY DEF FirstValid, FirstTagOffset
<1>. QED BY <1>8, <1>11, <1>12, <1>13, <1>14 DEF Kept

\* What a kill leaves of LArchiveFile_AddBlock, when n of the words it put into
\* the buffer are written: the link, and the block up to there.
LEMMA AddCut ==
  ASSUME NEW f \in Seq(Nat), NEW map \in Seq(Headers), NEW blocks, Stored(f, map, blocks),
         NEW k \in 1 .. Len(map) + 1, NEW words \in Seq(Nat), NEW n \in 0 .. Len(words)
  PROVE  LET h == HoleOffset(map, k)
             e == WithLink(f, map, k, h)
             g == WrittenAt(e, h, SubSeq(words, 1, n))
         IN  /\ e \in Seq(Nat) /\ g \in Seq(Nat) /\ Len(g) >= Len(f)
             /\ \A i \in 1 .. Len(f) : i # LinkOffset(map, k) + 1 /\ i <= h => g[i] = f[i]
<1>. DEFINE h == HoleOffset(map, k)
            l == LinkOffset(map, k)
            e == WithLink(f, map, k, h)
            part == SubSeq(words, 1, n)
            g == WrittenAt(e, h, part)
            one == <<h>>
<1>1. h \in Nat /\ h <= Len(f) /\ l \in 0 .. Len(f) /\ l + 1 <= h /\ Len(f) \in Nat /\ l \in Nat
  BY PlaceInFile
<1>2. part \in Seq(Nat)
  BY SubSeqProperties
<1>3. e = WrittenAt(f, l, one) /\ one \in Seq(Nat) /\ Len(one) = 1
  BY <1>1 DEF WithLink
<1>. HIDE DEF h, l, e, part, one
<1>4. /\ e \in Seq(Nat) /\ Len(e) = Larger(Len(f), l + 1)
      /\ \A i \in 1 .. Len(f) : i \notin l + 1 .. l + 1 => e[i] = f[i]
  <2>1. one \in Seq(Nat)
    BY <1>3
  <2>2. l \in 0 .. Len(f)
    BY <1>1
  <2>. DEFINE x == WrittenAt(f, l, one)
  <2>3. /\ x \in Seq(Nat) /\ Len(x) = Larger(Len(f), l + Len(one))
        /\ \A i \in 1 .. Len(f) : i \notin l + 1 .. l + Len(one) => x[i] = f[i]
    BY <2>1, <2>2, WrittenCells
  <2>4. e = x
    BY <1>3
  <2>. HIDE DEF x
  <2>. QED BY <1>3, <2>3, <2>4
<1>5. Len(e) = Len(f) /\ \A i \in 1 .. Len(f) : i # l + 1 => e[i] = f[i]
  <2>1. Len(e) = Len(f)
    BY <1>1, <1>4 DEF Larger
  <2>2. ASSUME NEW i \in 1 .. Len(f), i # l + 1 PROVE e[i] = f[i]
    <3>1. i \notin l + 1 .. l + 1
      BY <1>1, <2>2
    <3>. QED BY <1>4, <3>1
  <2>. QED BY <2>1, <2>2
<1>6. /\ g \in Seq(Nat) /\ Len(g) = Larger(Len(e), h + Len(part))
      /\ \A i \in 1 .. Len(e) : i \notin h + 1 .. h + Len(part) => g[i] = e[i]
  <2>1. e \in Seq(Nat)
    BY <1>4
  <2>2. h \in 0 .. Len(e)
    BY <1>1, <1>5
  <2>. QED BY <1>2, <2>1, <2>2, WrittenCells
<1>. HIDE DEF g
<1>7. Len(g) >= Len(f)
  <2>1. Len(part) \in Nat
    BY <1>2
  <2>. QED BY <1>1, <1>5, <1>6, <2>1 DEF Larger
<1>8. ASSUME NEW i \in 1 .. Len(f), i # l + 1, i <= h PROVE g[i] = f[i]
  <2>1. i \in 1 .. Len(e) /\ i \notin h + 1 .. h + Len(part)
    BY <1>1, <1>5, <1>8
  <2>. QED BY <1>5, <1>6, <1>8, <2>1
<1>. QED BY <1>4, <1>6, <1>7, <1>8 DEF g, e, part, h, l

\* A file is not the value in place of one.
LEMMA IsAFile == \A f \in Seq(Nat) : f # NoFile
  BY ArchiveAssumption

\* LArchiveFile_Open makes an archive of no blocks.
LEMMA EmptyStored == EmptyArchive \in Seq(Nat) /\ Stored(EmptyArchive, <<>>, <<>>)
<1>. DEFINE e == EmptyArchive
<1>1. e \in Seq(Nat) /\ Len(e) = 3 /\ e[1] = MagicNumber /\ e[2] = Version /\ e[3] = 0
  BY DEF EmptyArchive, MagicNumber, Version
<1>2. DOMAIN <<>> = {}
  OBVIOUS
<1>3. OffsetOf(<<>>, 1) = 0
  BY <1>2 DEF OffsetOf
<1>4. Laid(<<>>)
  BY <1>2 DEF Laid
<1>5. FirstTagOffset + 1 = 3 /\ FirstValid = 3
  BY DEF FirstTagOffset, FirstValid
<1>. HIDE DEF e
<1>. DEFINE none == <<>>
<1>6. none = <<>> /\ Len(none) = 0 /\ DOMAIN none = {}
  BY <1>2
<1>7. Laid(none) /\ OffsetOf(none, 1) = 0
  BY <1>3, <1>4
<1>. HIDE DEF none
<1>8. Stored(e, none, none)
  BY <1>1, <1>5, <1>6, <1>7 DEF Stored
<1>. QED BY <1>1, <1>8 DEF e, none

\* The first items of a sequence, and the next one.
LEMMA PrefixGrows ==
  ASSUME NEW S, NEW s \in Seq(S), NEW n \in Nat, n + 1 <= Len(s)
  PROVE  /\ SubSeq(s, 1, n) \in Seq(S) /\ Len(SubSeq(s, 1, n)) = n
         /\ s[n + 1] \in S
         /\ SubSeq(s, 1, n + 1) \in Seq(S) /\ Len(SubSeq(s, 1, n + 1)) = n + 1
         /\ Append(SubSeq(s, 1, n), s[n + 1]) = SubSeq(s, 1, n + 1)
         /\ InsertAt(SubSeq(s, 1, n), n + 1, s[n + 1]) = SubSeq(s, 1, n + 1)
<1>. DEFINE p == SubSeq(s, 1, n)
            q == SubSeq(s, 1, n + 1)
            e == s[n + 1]
            a == Append(p, e)
            b == InsertAt(p, n + 1, e)
<1>1. Len(s) \in Nat /\ n + 1 \in Nat /\ n <= Len(s) /\ e \in S
  OBVIOUS
<1>2. p \in Seq(S) /\ Len(p) = n /\ \A i \in 1 .. n : p[i] = s[i]
  BY <1>1, SubSeqProperties
<1>3. q \in Seq(S) /\ Len(q) = n + 1 /\ \A i \in 1 .. n + 1 : q[i] = s[i]
  BY <1>1, SubSeqProperties
<1>. HIDE DEF p, q
<1>4. a \in Seq(S) /\ Len(a) = n + 1 /\ (\A i \in 1 .. n : a[i] = p[i]) /\ a[n + 1] = e
  BY <1>1, <1>2, AppendProperties
<1>5. b \in Seq(S) /\ Len(b) = n + 1 /\ (\A i \in 1 .. n : b[i] = p[i]) /\ b[n + 1] = e
  <2>1. p \in Seq(S)
    BY <1>2
  <2>2. e \in S
    BY <1>1
  <2>3. n + 1 \in 1 .. Len(p) + 1 /\ (n + 1) - 1 = n
    BY <1>2
  <2>. DEFINE k == n + 1
  <2>4. k \in 1 .. Len(p) + 1 /\ k - 1 = n /\ b = InsertAt(p, k, e) /\ k = n + 1
    BY <2>3
  <2>. HIDE DEF e, b, k
  <2>5. /\ InsertAt(p, k, e) \in Seq(S) /\ Len(InsertAt(p, k, e)) = Len(p) + 1
        /\ \A i \in 1 .. k - 1 : InsertAt(p, k, e)[i] = p[i]
        /\ InsertAt(p, k, e)[k] = e
    BY <2>1, <2>2, <2>4, InsertProperties
  <2>. QED BY <1>2, <2>4, <2>5
<1>. HIDE DEF a, b
<1>6. \A i \in 1 .. n + 1 : i \in 1 .. n \/ i = n + 1
  OBVIOUS
<1>7. (\A i \in 1 .. n + 1 : a[i] = q[i]) /\ (\A i \in 1 .. n + 1 : b[i] = q[i])
  BY <1>2, <1>3, <1>4, <1>5, <1>6
<1>8. a = q
  <2>1. Len(a) = Len(q) /\ \A i \in 1 .. Len(a) : a[i] = q[i]
    BY <1>3, <1>4, <1>7
  <2>. QED BY <1>3, <1>4, <2>1, SeqEqual
<1>9. b = q
  <2>1. Len(b) = Len(q) /\ \A i \in 1 .. Len(b) : b[i] = q[i]
    BY <1>3, <1>5, <1>7
  <2>. QED BY <1>3, <1>5, <2>1, SeqEqual
<1>. QED BY <1>1, <1>2, <1>3, <1>8, <1>9 DEF a, b, p, q

\* The blocks of the map leave no space between them.
NoHoles(map) == \A k \in DOMAIN map : map[k].Offset = HoleOffset(map, k)

\* In an archive with no holes a block is put at the end, and leaves no hole.
LEMMA PutAtTheEnd ==
  ASSUME NEW map \in Seq(Headers), NoHoles(map), Laid(map), NEW size \in Nat, size > 0,
         NEW tag \in Nat, NEW data \in Seq(Nat)
  PROVE  /\ FetchHole(map, size) = Len(map) + 1
         /\ NoHoles(InsertAt(map, Len(map) + 1, BlockHeader(map, Len(map) + 1, tag, data)))
<1>. DEFINE n == Len(map)
            header == BlockHeader(map, n + 1, tag, data)
            m2 == InsertAt(map, n + 1, header)
<1>1. n \in Nat /\ DOMAIN map = 1 .. n /\ n + 1 \in 1 .. n + 1
  OBVIOUS
<1>2. \A k \in DOMAIN map : map[k].Offset \in Nat
  BY HeaderTypes
<1>3. HolesFor(map, size) = {}
  <2>1. \A k \in DOMAIN map : ~ (map[k].Offset - HoleOffset(map, k) >= size)
    BY <1>2 DEF NoHoles
  <2>. QED BY <2>1 DEF HolesFor
<1>4. FetchHole(map, size) = n + 1
  BY <1>3 DEF FetchHole
<1>5. HoleOffset(map, n + 1) \in Nat
  <2>1. n + 1 \in 1 .. Len(map) + 1
    BY <1>1
  <2>. QED BY <2>1, HolePlace
<1>6. header \in Headers /\ header.Offset = HoleOffset(map, n + 1)
  BY <1>5 DEF BlockHeader, Headers
<1>. HIDE DEF header
<1>7. /\ m2 \in Seq(Headers) /\ Len(m2) = n + 1
      /\ \A i \in 1 .. n : m2[i] = map[i]
      /\ m2[n + 1] = header
  <2>1. header \in Headers
    BY <1>6
  <2>2. n + 1 \in 1 .. Len(map) + 1 /\ (n + 1) - 1 = n
    BY <1>1
  <2>. DEFINE k == n + 1
              m == InsertAt(map, k, header)
  <2>3. k \in 1 .. Len(map) + 1 /\ k - 1 = n /\ m2 = m /\ k = n + 1 /\ Len(map) = n
    BY <2>2
  <2>. HIDE DEF k, n, m2
  <2>4. /\ m \in Seq(Headers) /\ Len(m) = Len(map) + 1
        /\ \A i \in 1 .. k - 1 : m[i] = map[i]
        /\ m[k] = header
    BY <2>1, <2>3, InsertProperties
  <2>. HIDE DEF m
  <2>. QED BY <2>3, <2>4
<1>. HIDE DEF m2, n
<1>8. DOMAIN m2 = 1 .. n + 1
  BY <1>1, <1>7
<1>9. \A k \in 1 .. n + 1 : HoleOffset(m2, k) = HoleOffset(map, k)
  <2>. TAKE k \in 1 .. n + 1
  <2>1. CASE k = 1
    BY <2>1 DEF HoleOffset
  <2>2. CASE k # 1
    <3>1. k - 1 \in 1 .. n
      BY <1>1, <2>2
    <3>2. m2[k - 1] = map[k - 1]
      BY <1>7, <3>1
    <3>. QED BY <2>2, <3>2 DEF HoleOffset
  <2>. QED BY <2>1, <2>2
<1>10. \A k \in 1 .. n + 1 : m2[k].Offset = HoleOffset(map, k)
  <2>. TAKE k \in 1 .. n + 1
  <2>1. CASE k = n + 1
    BY <1>6, <1>7, <2>1
  <2>2. CASE k # n + 1
    <3>1. k \in 1 .. n
      BY <1>1, <2>2
    <3>. QED BY <1>1, <1>7, <3>1 DEF NoHoles
  <2>. QED BY <2>1, <2>2
<1>11. NoHoles(m2)
  BY <1>8, <1>9, <1>10 DEF NoHoles
<1>. QED BY <1>4, <1>11 DEF n, m2, header

----------------------------------------------------------------------------
\* What is in the files: all blocks, or those in front of the place where the
\* process was killed.
IsWhole == aux_end.How = "whole"
Sure == aux_end.Place - 1
OnDisk ==
  /\ IsWhole =>
       /\ archive # NoFile => Stored(archive, aux_layout, aux_blocks)
       /\ archive = NoFile => /\ phase \in {"closed", "renaming"}
                              /\ phase = "closed" => aux_layout = <<>> /\ aux_blocks = <<>>
  /\ aux_end.How = "cut" =>
       /\ archive # NoFile /\ Kept(archive, aux_layout, aux_blocks, Sure)
       /\ phase \in {"closed", "scanning", "open"} /\ Mode = "READ" /\ ~compacting
  /\ aux_end.How = "unnamed" =>
       phase = "closed" /\ archive = NoFile /\ temp # NoFile /\ Stored(temp, aux_layout, aux_blocks)

\* What the file will be if the process is killed when n words of its buffer are written.
Cut(n) == WrittenAt(stream.File, stream.Offset, SubSeq(stream.Words, 1, n))
Buffered ==
  /\ phase # "open" => stream.Words = <<>>
  /\ \A n \in 0 .. Len(stream.Words) - 1 :
       Cut(n) \in Seq(Nat) /\ Kept(Cut(n), aux_layout, aux_blocks, stream.Place - 1)

\* How much of the file the process has read or copied.
Reading ==
  phase = "scanning" =>
    /\ IsWhole => /\ Len(BlocksMap) <= Len(aux_layout)
                  /\ BlocksMap = SubSeq(aux_layout, 1, Len(BlocksMap))
                  /\ theOffset = OffsetOf(aux_layout, Len(BlocksMap) + 1)
    /\ ~IsWhole => /\ \A k \in DOMAIN BlocksMap : k <= Sure => BlocksMap[k] = aux_layout[k]
                   /\ Len(BlocksMap) < Sure => theOffset = OffsetOf(aux_layout, Len(BlocksMap) + 1)
ReadAll ==
  phase \in {"open", "copying"} =>
    /\ IsWhole => BlocksMap = aux_layout
    /\ ~IsWhole => /\ Sure <= Len(BlocksMap)
                   /\ \A k \in 1 .. Sure : BlocksMap[k] = aux_layout[k]
Copying ==
  phase = "copying" => /\ temp # NoFile
                       /\ Len(tempMap) <= Len(aux_blocks)
                       /\ NoHoles(tempMap)
                       /\ Stored(temp, tempMap, SubSeq(aux_blocks, 1, Len(tempMap)))
CopiedAll ==
  phase = "renaming" => archive = NoFile /\ temp # NoFile /\ Stored(temp, tempMap, aux_blocks)

ArchiveInv == ArchiveTypeOK /\ OnDisk /\ Buffered /\ Reading /\ ReadAll /\ Copying /\ CopiedAll

LEMMA ArchiveTypes ==
  ASSUME ArchiveTypeOK
  PROVE  /\ archive # NoFile => archive \in Seq(Nat)
         /\ temp # NoFile => temp \in Seq(Nat)
         /\ {archive, temp} \subseteq Seq(Nat) \cup {NoFile}
         /\ stream \in Streams
         /\ BlocksMap \in Seq(Headers) /\ tempMap \in Seq(Headers) /\ aux_layout \in Seq(Headers)
         /\ aux_blocks \in Seq(Blocks)
         /\ theOffset \in Nat
         /\ aux_end \in [How : {"whole", "cut", "unnamed"}, Place : Nat]
         /\ aux_end.How \in {"whole", "cut", "unnamed"}
<1>1. /\ {archive, temp} \subseteq Seq(Nat) \cup {NoFile} /\ stream \in Streams
      /\ BlocksMap \in Seq(Headers) /\ tempMap \in Seq(Headers) /\ aux_layout \in Seq(Headers)
      /\ aux_blocks \in Seq(Blocks) /\ theOffset \in Nat
      /\ aux_end \in [How : {"whole", "cut", "unnamed"}, Place : Nat]
  BY DEF ArchiveTypeOK, Blocks
<1>. QED BY <1>1

\* An archive that is open, or being opened or copied, has its file: the whole
\* one, if it is written or copied.
LEMMA FileWhileOpen ==
  ASSUME ArchiveInv, phase \in {"scanning", "open", "copying"}
  PROVE  /\ archive # NoFile /\ archive \in Seq(Nat)
         /\ IsWhole \/ aux_end.How = "cut"
         /\ phase = "copying" \/ Mode # "READ" \/ compacting => IsWhole
<1>1. archive # NoFile /\ (IsWhole \/ aux_end.How = "cut")
  <2>1. aux_end.How \in {"whole", "cut", "unnamed"}
    BY ArchiveTypes DEF ArchiveInv
  <2>. QED BY <2>1 DEF ArchiveInv, OnDisk, IsWhole
<1>2. archive \in Seq(Nat)
  BY <1>1, ArchiveTypes DEF ArchiveInv
<1>3. phase = "copying" \/ Mode # "READ" \/ compacting => IsWhole
  BY <1>1 DEF ArchiveInv, OnDisk
<1>. QED BY <1>1, <1>2, <1>3

\* What is in no buffer is not lost.
LEMMA EmptyBuffer == ASSUME stream'.Words = <<>> PROVE Buffered'
<1>. DEFINE none == <<>>
<1>1. Len(none) = 0 /\ 0 .. Len(none) - 1 = {}
  OBVIOUS
<1>2. stream'.Words = none
  OBVIOUS
<1>. HIDE DEF none
<1>. QED BY <1>1, <1>2 DEF Buffered

LEMMA NothingBuffered ==
  ASSUME NEW f \in Seq(Nat), stream' = AllWritten(f)
  PROVE  stream' \in Streams /\ Buffered'
<1>1. stream' = [File |-> f, Offset |-> 0, Words |-> <<>>, Place |-> 1]
  BY DEF AllWritten
<1>2. <<>> \in Seq(Nat)
  OBVIOUS
<1>3. stream' \in Streams
  BY <1>1, <1>2 DEF Streams
<1>4. stream'.Words = <<>>
  BY <1>1
<1>. QED BY <1>3, <1>4, EmptyBuffer

\* No archive, no blocks.
LEMMA ArchiveInvInit == ArchiveInit => ArchiveInv
<1>. SUFFICES ASSUME ArchiveInit PROVE ArchiveInv
  OBVIOUS
<1>1. stream = [File |-> <<>>, Offset |-> 0, Words |-> <<>>, Place |-> 1]
      /\ aux_end = [How |-> "whole", Place |-> 1]
  BY DEF ArchiveInit, AllWritten, Whole
<1>2. ArchiveTypeOK
  <2>1. <<>> \in Seq(Nat) /\ <<>> \in Seq(Headers) /\ <<>> \in Seq(Nat \X Seq(Nat)) /\ 0 \in Nat
    OBVIOUS
  <2>2. stream \in Streams
    BY <1>1, <2>1 DEF Streams
  <2>3. {archive, temp} \subseteq Seq(Nat) \cup {NoFile}
    BY DEF ArchiveInit
  <2>4. aux_end \in [How : {"whole", "cut", "unnamed"}, Place : Nat]
    BY <1>1
  <2>5. /\ BlocksMap \in Seq(Headers) /\ tempMap \in Seq(Headers) /\ aux_layout \in Seq(Headers)
        /\ aux_blocks \in Seq(Nat \X Seq(Nat))
    BY <2>1 DEF ArchiveInit
  <2>6. /\ Mode \in {"READ", "WRITE", "READ_WRITE"}
        /\ phase \in {"closed", "scanning", "open", "copying", "renaming"}
        /\ compacting \in BOOLEAN /\ theOffset \in Nat
    BY DEF ArchiveInit
  <2>. QED BY <2>2, <2>3, <2>4, <2>5, <2>6 DEF ArchiveTypeOK
<1>3. OnDisk
  BY <1>1 DEF ArchiveInit, OnDisk
<1>4. Buffered
  <2>. DEFINE none == <<>>
  <2>1. Len(none) = 0 /\ 0 .. Len(none) - 1 = {} /\ stream.Words = none
    BY <1>1
  <2>. HIDE DEF none
  <2>. QED BY <1>1, <2>1 DEF Buffered
<1>. QED BY <1>2, <1>3, <1>4 DEF ArchiveInit, ArchiveInv, Reading, ReadAll, Copying, CopiedAll

\* LArchiveFile_Open of a new archive. There is nothing in it to be lost.
LEMMA OpenNewKeeps == ASSUME ArchiveInv, NEW mode \in {"READ", "WRITE", "READ_WRITE"}, OpenNew(mode) PROVE ArchiveInv'
<1>1. /\ archive' = EmptyArchive /\ aux_layout' = <<>> /\ aux_blocks' = <<>> /\ temp' = NoFile
      /\ aux_end' = [How |-> "whole", Place |-> 1] /\ BlocksMap' = <<>>
      /\ phase' = "open" /\ Mode' = mode
      /\ stream' = [File |-> <<>>, Offset |-> 0, Words |-> EmptyArchive, Place |-> 1]
      /\ UNCHANGED <<tempMap, compacting, theOffset>>
  BY DEF OpenNew, Whole, Buffering
<1>2. archive' \in Seq(Nat) /\ Stored(archive', aux_layout', aux_blocks') /\ archive' # NoFile
  BY <1>1, EmptyStored, IsAFile
<1>3. EmptyArchive \in Seq(Nat) /\ <<>> \in Seq(Nat) /\ Len(<<>>) = 0
  BY EmptyStored
<1>4. ArchiveTypeOK'
  <2>1. <<>> \in Seq(Headers) /\ <<>> \in Seq(Nat \X Seq(Nat))
    OBVIOUS
  <2>2. stream' \in Streams
    BY <1>1, <1>3 DEF Streams
  <2>. QED BY <1>1, <1>2, <2>1, <2>2 DEF ArchiveInv, ArchiveTypeOK
<1>5. OnDisk'
  BY <1>1, <1>2 DEF OnDisk
<1>6. Buffered'
  <2>. DEFINE none == <<>>
              cut(n) == WrittenAt(none, 0, SubSeq(EmptyArchive, 1, n))
  <2>1. /\ none \in Seq(Nat) /\ Len(none) = 0 /\ 0 \in 0 .. Len(none)
        /\ none = <<>> /\ DOMAIN none = {}
    OBVIOUS
  <2>. HIDE DEF none
  <2>2. Len(EmptyArchive) \in Nat
    BY <1>3
  <2>3. ASSUME NEW n \in 0 .. Len(EmptyArchive) - 1 PROVE cut(n) \in Seq(Nat)
    <3>1. n \in 0 .. Len(EmptyArchive)
      BY <2>2
    <3>. DEFINE part == SubSeq(EmptyArchive, 1, n)
    <3>2. part \in Seq(Nat)
      BY <1>3, <3>1, SubSeqProperties
    <3>. HIDE DEF part
    <3>3. WrittenAt(none, 0, part) \in Seq(Nat)
      BY <2>1, <3>2, WrittenCells
    <3>. QED BY <3>3 DEF part
  <2>4. Laid(none)
    BY <2>1 DEF Laid
  <2>5. \A g : Kept(g, none, none, 0)
    BY <2>1, <2>4 DEF Kept
  <2>6. stream'.File = none /\ stream'.Offset = 0 /\ stream'.Words = EmptyArchive /\ stream'.Place - 1 = 0
        /\ aux_layout' = none /\ aux_blocks' = none
    BY <1>1, <2>1
  <2>7. \A n \in 0 .. Len(stream'.Words) - 1 :
          Cut(n)' \in Seq(Nat) /\ Kept(Cut(n)', aux_layout', aux_blocks', stream'.Place - 1)
    BY <2>3, <2>5, <2>6 DEF Cut
  <2>. QED BY <1>1, <2>7 DEF Buffered
<1>. QED BY <1>1, <1>4, <1>5, <1>6 DEF ArchiveInv, Reading, ReadAll, Copying, CopiedAll, IsWhole

\* LArchiveFile_Open of an archive that is there, up to its loop: what it reads
\* is where the first block is, if that is kept.
LEMMA StartScanReads ==
  ASSUME ArchiveTypeOK, OnDisk, archive # NoFile, StartScan, UNCHANGED <<aux_layout, aux_end>>
  PROVE  /\ Reading' /\ theOffset' \in Nat /\ BlocksMap' \in Seq(Headers) /\ phase' = "scanning"
         /\ stream' \in Streams /\ Buffered'
<1>1. /\ archive \in Seq(Nat) /\ aux_layout \in Seq(Headers)
      /\ aux_end.How \in {"whole", "cut", "unnamed"}
  BY ArchiveTypes
<1>2. theOffset' = archive[3] /\ BlocksMap' = <<>> /\ phase' = "scanning" /\ Len(archive) >= 3
      /\ stream' = AllWritten(archive)
  BY DEF StartScan, FirstTagOffset, FirstValid
<1>3. theOffset' \in Nat
  <2>1. 3 \in 1 .. Len(archive)
    BY <1>1, <1>2
  <2>. QED BY <1>1, <1>2, <2>1
<1>4. Len(BlocksMap') = 0 /\ DOMAIN BlocksMap' = {} /\ BlocksMap' = SubSeq(aux_layout, 1, 0) /\ Len(aux_layout) \in Nat
  BY <1>1, <1>2
<1>5. IsWhole => archive[3] = OffsetOf(aux_layout, 1)
  BY DEF OnDisk, Stored, FirstTagOffset
<1>6. ~IsWhole /\ 0 < Sure => archive[3] = OffsetOf(aux_layout, 1)
  BY <1>1 DEF OnDisk, IsWhole, Kept, FirstTagOffset
<1>7. Len(BlocksMap') <= Len(aux_layout) /\ Len(BlocksMap') + 1 = 1
  BY <1>4
<1>8. Reading'
  <2>1. /\ IsWhole' => /\ Len(BlocksMap') <= Len(aux_layout')
                       /\ BlocksMap' = SubSeq(aux_layout', 1, Len(BlocksMap'))
                       /\ theOffset' = OffsetOf(aux_layout', Len(BlocksMap') + 1)
    BY <1>2, <1>4, <1>5, <1>7 DEF IsWhole
  <2>2. ~IsWhole' /\ Len(BlocksMap') < Sure' => theOffset' = OffsetOf(aux_layout', Len(BlocksMap') + 1)
    BY <1>2, <1>4, <1>6, <1>7 DEF IsWhole, Sure
  <2>3. \A k \in DOMAIN BlocksMap' : k <= Sure' => BlocksMap'[k] = aux_layout'[k]
    BY <1>4
  <2>. QED BY <2>1, <2>2, <2>3 DEF Reading
<1>9. BlocksMap' \in Seq(Headers)
  BY <1>2
<1>10. stream' \in Streams /\ Buffered'
  BY <1>1, <1>2, NothingBuffered
<1>. QED BY <1>2, <1>3, <1>8, <1>9, <1>10

\* LArchiveFile_Open of an archive that is there.
LEMMA OpenOldKeeps == ASSUME ArchiveInv, NEW mode \in {"READ", "WRITE", "READ_WRITE"}, OpenOld(mode) PROVE ArchiveInv'
<1>1. /\ archive # NoFile /\ StartScan
      /\ UNCHANGED <<archive, temp, tempMap, aux_blocks, aux_layout, aux_end>>
      /\ Mode' = mode /\ compacting' = FALSE /\ (aux_end.How = "cut" => mode = "READ")
  BY DEF OpenOld
<1>2. /\ Reading' /\ theOffset' \in Nat /\ BlocksMap' \in Seq(Headers) /\ phase' = "scanning"
      /\ stream' \in Streams /\ Buffered'
  <2>1. ArchiveTypeOK /\ OnDisk
    BY DEF ArchiveInv
  <2>. QED BY <1>1, <2>1, StartScanReads
<1>3. ArchiveTypeOK'
  BY <1>1, <1>2 DEF ArchiveInv, ArchiveTypeOK
<1>4. OnDisk'
  BY <1>1, <1>2 DEF ArchiveInv, OnDisk, IsWhole, Sure
<1>. QED BY <1>2, <1>3, <1>4 DEF ArchiveInv, ReadAll, Copying, CopiedAll

\* One turn of the loop reads the next block of the list, if it is kept.
LEMMA ScanBlockKeeps == ASSUME ArchiveInv, ScanBlock PROVE ArchiveInv'
<1>. DEFINE n == Len(BlocksMap)
            hd == aux_layout[n + 1]
            read == [Tag |-> archive[theOffset + 1], Offset |-> theOffset, BlockSize |-> archive[theOffset + 3]]
<1>1. /\ BlocksMap \in Seq(Headers) /\ aux_layout \in Seq(Headers) /\ aux_blocks \in Seq(Blocks)
      /\ theOffset \in Nat /\ n \in Nat
      /\ phase = "scanning" /\ theOffset # 0 /\ theOffset + 3 <= Len(archive)
      /\ BlocksMap' = Append(BlocksMap, read) /\ theOffset' = archive[theOffset + 2]
      /\ UNCHANGED <<archive, temp, stream, tempMap, Mode, phase, compacting, aux_blocks, aux_layout, aux_end>>
  BY ArchiveTypes DEF ArchiveInv, ScanBlock, HeaderThere, HeaderSize
<1>2. archive # NoFile /\ archive \in Seq(Nat) /\ (IsWhole \/ aux_end.How = "cut")
  BY <1>1, FileWhileOpen
<1>3. /\ archive[theOffset + 1] \in Nat /\ archive[theOffset + 2] \in Nat /\ archive[theOffset + 3] \in Nat
  <2>1. Len(archive) \in Nat
    BY <1>2
  <2>2. /\ theOffset + 1 \in 1 .. Len(archive) /\ theOffset + 2 \in 1 .. Len(archive)
        /\ theOffset + 3 \in 1 .. Len(archive)
    BY <1>1, <2>1
  <2>. QED BY <1>2, <2>2
<1>4. read \in Headers
  BY <1>1, <1>3 DEF Headers
<1>. HIDE DEF read
<1>5. /\ BlocksMap' \in Seq(Headers) /\ Len(BlocksMap') = n + 1 /\ BlocksMap'[n + 1] = read
      /\ \A k \in 1 .. n : BlocksMap'[k] = BlocksMap[k]
  BY <1>1, <1>4, AppendProperties
<1>6. ArchiveTypeOK'
  BY <1>1, <1>3, <1>5 DEF ArchiveInv, ArchiveTypeOK
<1>. HIDE DEF n, hd
\* What is read if the next block is in the file.
<1>7. ASSUME n + 1 \in 1 .. Len(aux_layout), theOffset = OffsetOf(aux_layout, n + 1), NEW next, NEW item,
             Entry(archive, hd, next, item)
      PROVE  read = hd /\ theOffset' = next
  <2>1. theOffset = hd.Offset
    BY <1>7 DEF OffsetOf, hd
  <2>2. hd \in Headers
    BY <1>1, <1>7 DEF hd
  <2>3. hd = [Tag |-> hd.Tag, Offset |-> hd.Offset, BlockSize |-> hd.BlockSize]
    BY <2>2 DEF Headers
  <2>4. /\ archive[theOffset + 1] = hd.Tag /\ archive[theOffset + 3] = hd.BlockSize
        /\ archive[theOffset + 2] = next
    BY <1>7, <2>1 DEF Entry
  <2>. QED BY <1>1, <2>1, <2>3, <2>4 DEF read
<1>8. ASSUME IsWhole PROVE Reading'
  <2>1. /\ n <= Len(aux_layout) /\ BlocksMap = SubSeq(aux_layout, 1, n)
        /\ theOffset = OffsetOf(aux_layout, n + 1) /\ Stored(archive, aux_layout, aux_blocks)
    BY <1>1, <1>2, <1>8 DEF ArchiveInv, OnDisk, Reading, n, IsWhole
  <2>2. n + 1 \in 1 .. Len(aux_layout) /\ n + 1 \in DOMAIN aux_layout /\ n + 1 <= Len(aux_layout)
    BY <1>1, <2>1 DEF OffsetOf
  <2>3. Entry(archive, hd, OffsetOf(aux_layout, (n + 1) + 1), aux_blocks[n + 1])
    BY <2>1, <2>2 DEF Stored, hd
  <2>4. read = hd /\ theOffset' = OffsetOf(aux_layout, (n + 1) + 1)
    BY <1>7, <2>1, <2>2, <2>3
  <2>5. BlocksMap' = SubSeq(aux_layout, 1, n + 1)
    BY <1>1, <2>1, <2>2, <2>4, PrefixGrows DEF hd
  <2>6. Len(BlocksMap') = n + 1 /\ IsWhole'
    BY <1>1, <1>5, <1>8 DEF IsWhole
  <2>. QED BY <1>1, <2>2, <2>4, <2>5, <2>6 DEF Reading
<1>9. ASSUME ~IsWhole PROVE Reading'
  <2>1. /\ \A k \in DOMAIN BlocksMap : k <= Sure => BlocksMap[k] = aux_layout[k]
        /\ n < Sure => theOffset = OffsetOf(aux_layout, n + 1)
        /\ Kept(archive, aux_layout, aux_blocks, Sure)
    BY <1>1, <1>2, <1>9 DEF ArchiveInv, OnDisk, Reading, n
  <2>2. Sure \in Nat /\ Sure <= Len(aux_layout) /\ Len(aux_layout) \in Nat
    BY <1>1, <2>1 DEF Kept
  <2>3. ASSUME n < Sure
        PROVE  read = hd /\ (n + 1 < Sure => theOffset' = OffsetOf(aux_layout, (n + 1) + 1))
    <3>1. n + 1 \in 1 .. Sure /\ n + 1 \in 1 .. Len(aux_layout)
      BY <1>1, <2>2, <2>3
    <3>2. /\ Entry(archive, hd, archive[hd.Offset + 2], aux_blocks[n + 1])
          /\ n + 1 < Sure => archive[hd.Offset + 2] = OffsetOf(aux_layout, (n + 1) + 1)
      BY <2>1, <3>1 DEF Kept, hd
    <3>. QED BY <1>7, <2>1, <2>3, <3>1, <3>2
  <2>4. ASSUME NEW k \in DOMAIN BlocksMap', k <= Sure PROVE BlocksMap'[k] = aux_layout[k]
    <3>1. k \in 1 .. n + 1
      BY <1>1, <1>5
    <3>2. CASE k \in 1 .. n
      <4>1. k \in DOMAIN BlocksMap
        BY <1>1, <3>2 DEF n
      <4>. QED BY <1>5, <2>1, <2>4, <3>2, <4>1
    <3>3. CASE k = n + 1
      <4>1. n < Sure
        BY <1>1, <2>2, <2>4, <3>3
      <4>. QED BY <1>5, <2>3, <3>3, <4>1 DEF hd
    <3>. QED BY <1>1, <3>1, <3>2, <3>3
  <2>5. n + 1 < Sure => theOffset' = OffsetOf(aux_layout, (n + 1) + 1)
    BY <1>1, <2>2, <2>3
  <2>6. Len(BlocksMap') = n + 1 /\ ~IsWhole' /\ Sure' = Sure
    BY <1>1, <1>5, <1>9 DEF IsWhole, Sure
  <2>. QED BY <1>1, <2>4, <2>5, <2>6 DEF Reading
<1>10. OnDisk' /\ Buffered'
  <2>1. OnDisk'
    BY <1>1 DEF ArchiveInv, OnDisk, IsWhole, Sure
  <2>2. Buffered'
    BY <1>1, EmptyBuffer DEF ArchiveInv, Buffered
  <2>. QED BY <2>1, <2>2
<1>11. Reading'
  BY <1>8, <1>9
<1>. QED BY <1>1, <1>6, <1>10, <1>11 DEF ArchiveInv, ReadAll, Copying, CopiedAll

\* The loop ends when it has read the blocks that are kept; _Compact then has no
\* block copied.
LEMMA ScannedKeeps == ASSUME ArchiveInv, Scanned PROVE ArchiveInv'
<1>. DEFINE n == Len(BlocksMap)
<1>1. /\ ArchiveTypeOK /\ BlocksMap \in Seq(Headers) /\ aux_layout \in Seq(Headers) /\ n \in Nat
      /\ Len(aux_layout) \in Nat /\ DOMAIN aux_layout = 1 .. Len(aux_layout)
      /\ phase = "scanning" /\ theOffset = 0
      /\ UNCHANGED <<archive, stream, BlocksMap, Mode, compacting, theOffset, aux_blocks, aux_layout, aux_end>>
  BY ArchiveTypes DEF ArchiveInv, Scanned
<1>2. archive # NoFile /\ (IsWhole \/ aux_end.How = "cut") /\ (compacting => IsWhole)
  BY <1>1, FileWhileOpen
\* There is no block at offset 0.
<1>3. ASSUME Laid(aux_layout), theOffset = OffsetOf(aux_layout, n + 1) PROVE n + 1 \notin 1 .. Len(aux_layout)
  <2>1. ASSUME n + 1 \in 1 .. Len(aux_layout) PROVE aux_layout[n + 1].Offset >= 3 /\ aux_layout[n + 1].Offset \in Nat
    <3>. HIDE DEF n
    <3>. QED BY <1>1, <1>3, <2>1, LaidOffsets
  <2>. QED BY <1>1, <1>3, <2>1 DEF OffsetOf
<1>4. IsWhole => BlocksMap = aux_layout
  <2>. SUFFICES ASSUME IsWhole PROVE BlocksMap = aux_layout
    OBVIOUS
  <2>1. /\ n <= Len(aux_layout) /\ BlocksMap = SubSeq(aux_layout, 1, n) /\ theOffset = OffsetOf(aux_layout, n + 1)
        /\ Laid(aux_layout)
    BY <1>1, <1>2 DEF ArchiveInv, OnDisk, Reading, IsWhole, Stored
  <2>. DEFINE m == Len(aux_layout)
  <2>2. m \in Nat /\ n \in Nat /\ n <= m /\ n + 1 \notin 1 .. m
    BY <1>1, <1>3, <2>1
  <2>. HIDE DEF m, n
  <2>3. m = n
    BY <2>2
  <2>4. SubSeq(aux_layout, 1, m) = aux_layout
    BY <1>1 DEF m
  <2>. QED BY <2>1, <2>3, <2>4
<1>5. ~IsWhole => Sure <= Len(BlocksMap) /\ \A k \in 1 .. Sure : BlocksMap[k] = aux_layout[k]
  <2>. SUFFICES ASSUME ~IsWhole
                PROVE  Sure <= n /\ \A k \in 1 .. Sure : BlocksMap[k] = aux_layout[k]
    OBVIOUS
  <2>1. /\ \A k \in DOMAIN BlocksMap : k <= Sure => BlocksMap[k] = aux_layout[k]
        /\ n < Sure => theOffset = OffsetOf(aux_layout, n + 1)
        /\ Laid(aux_layout) /\ Sure \in Nat /\ Sure <= Len(aux_layout)
    BY <1>1, <1>2 DEF ArchiveInv, OnDisk, Reading, Kept
  <2>2. Sure <= n
    <3>1. ASSUME n < Sure PROVE FALSE
      <4>1. n + 1 \in 1 .. Len(aux_layout)
        BY <1>1, <2>1, <3>1
      <4>. QED BY <1>3, <2>1, <3>1, <4>1
    <3>. QED BY <1>1, <2>1, <3>1
  <2>3. \A k \in 1 .. Sure : k \in DOMAIN BlocksMap /\ k <= Sure
    <3>1. DOMAIN BlocksMap = 1 .. n
      BY <1>1
    <3>. HIDE DEF n
    <3>. QED BY <1>1, <2>1, <2>2, <3>1
  <2>. QED BY <2>1, <2>2, <2>3
<1>6. OnDisk' /\ Buffered'
  <2>1. phase' \in {"open", "copying"} /\ (compacting \/ phase' = "open")
    BY DEF Scanned
  <2>2. OnDisk'
    BY <1>1, <1>2, <2>1 DEF ArchiveInv, OnDisk, IsWhole, Sure
  <2>3. Buffered'
    BY <1>1, EmptyBuffer DEF ArchiveInv, Buffered
  <2>. QED BY <2>2, <2>3
<1>7. ReadAll'
  BY <1>1, <1>4, <1>5 DEF ReadAll, IsWhole, Sure
<1>8. CASE ~ compacting
  <2>1. phase' = "open" /\ UNCHANGED <<temp, tempMap>>
    BY <1>8 DEF Scanned
  <2>2. ArchiveTypeOK'
    BY <1>1, <2>1 DEF ArchiveTypeOK
  <2>. QED BY <1>6, <1>7, <2>1, <2>2 DEF ArchiveInv, Reading, Copying, CopiedAll
<1>9. CASE compacting
  <2>1. phase' = "copying" /\ temp' = EmptyArchive /\ tempMap' = <<>>
    BY <1>9 DEF Scanned
  <2>2. ArchiveTypeOK'
    <3>1. temp' \in Seq(Nat) /\ tempMap' \in Seq(Headers)
      BY <2>1, EmptyStored
    <3>. QED BY <1>1, <2>1, <3>1 DEF ArchiveTypeOK
  <2>3. Copying'
    <3>1. aux_blocks \in Seq(Blocks)
      BY <1>1, ArchiveTypes
    <3>2. Len(tempMap') = 0 /\ DOMAIN tempMap' = {} /\ SubSeq(aux_blocks, 1, 0) = <<>> /\ Len(aux_blocks) \in Nat
      BY <2>1, <3>1
    <3>3. NoHoles(tempMap')
      BY <3>2 DEF NoHoles
    <3>4. Stored(temp', tempMap', SubSeq(aux_blocks', 1, Len(tempMap')))
      BY <1>1, <2>1, <3>2, EmptyStored
    <3>5. temp' # NoFile
      BY <2>1, EmptyStored, IsAFile
    <3>. QED BY <1>1, <3>2, <3>3, <3>4, <3>5 DEF Copying
  <2>. QED BY <1>6, <1>7, <2>1, <2>2, <2>3 DEF ArchiveInv, Reading, CopiedAll
<1>. QED BY <1>8, <1>9

\* LArchiveFile_AddBlock. A kill may cut the block and what it overwrites, none
\* of the blocks in front of it.
LEMMA AddBlockKeeps ==
  ASSUME ArchiveInv, NEW tag \in ArchiveTags, NEW data \in ArchiveData, AddBlock(tag, data) PROVE ArchiveInv'
<1>. DEFINE size == HeaderSize + Len(data)
            k == FetchHole(BlocksMap, size)
            hole == HoleOffset(BlocksMap, k)
            e == WithLink(archive, BlocksMap, k, hole)
            words == BlockWords(BlocksMap, k, tag, data)
            header == BlockHeader(BlocksMap, k, tag, data)
            new == <<tag, data>>
<1>1. tag \in Nat /\ data \in Seq(Nat) /\ size \in Nat
  BY ArchiveAssumption DEF HeaderSize
<1>2. /\ ArchiveTypeOK /\ BlocksMap \in Seq(Headers) /\ aux_blocks \in Seq(Blocks)
      /\ phase = "open" /\ Mode # "READ"
      /\ archive' = WithBlock(archive, BlocksMap, k, tag, data)
      /\ stream' = [File |-> e, Offset |-> hole, Words |-> words, Place |-> k]
      /\ BlocksMap' = InsertAt(BlocksMap, k, header)
      /\ aux_blocks' = InsertAt(aux_blocks, k, new)
      /\ aux_layout' = BlocksMap'
      /\ UNCHANGED <<temp, tempMap, Mode, phase, compacting, theOffset, aux_end>>
  BY ArchiveTypes DEF ArchiveInv, AddBlock, Buffering
<1>3. archive # NoFile /\ archive \in Seq(Nat) /\ IsWhole
  BY <1>2, FileWhileOpen
<1>4. Stored(archive, BlocksMap, aux_blocks)
  BY <1>2, <1>3 DEF ArchiveInv, OnDisk, ReadAll
<1>5. /\ k \in 1 .. Len(BlocksMap) + 1
      /\ \A i \in DOMAIN BlocksMap : i >= k => HoleOffset(BlocksMap, k) + size <= BlocksMap[i].Offset
  <2>1. Laid(BlocksMap)
    BY <1>4 DEF Stored
  <2>. HIDE DEF size
  <2>. QED BY <1>1, <1>2, <2>1, HoleFits
<1>6. k \in 1 .. Len(BlocksMap) + 1
  BY <1>5
<1>7. \A i \in DOMAIN BlocksMap : i >= k => HoleOffset(BlocksMap, k) + (HeaderSize + Len(data)) <= BlocksMap[i].Offset
  BY <1>5
<1>. HIDE DEF k
<1>8. tag \in Nat
  BY <1>1
<1>9. data \in Seq(Nat)
  BY <1>1
<1>10. archive \in Seq(Nat)
  BY <1>3
<1>11. BlocksMap \in Seq(Headers)
  BY <1>2
<1>12. aux_blocks \in Seq(Blocks)
  BY <1>2
<1>13. archive' \in Seq(Nat) /\ BlocksMap' \in Seq(Headers) /\ aux_blocks' \in Seq(Blocks)
       /\ Stored(archive', BlocksMap', aux_blocks')
  BY <1>2, <1>4, <1>6, <1>7, <1>8, <1>9, <1>10, <1>11, <1>12, AddStored
<1>14. archive' # NoFile
  BY <1>13, IsAFile
<1>15. hole \in Nat /\ Len(data) \in Nat
  BY <1>4, <1>6, <1>9, <1>10, <1>11, PlaceInFile
<1>16. header \in Headers /\ new \in Blocks
  BY <1>8, <1>9, <1>15 DEF BlockHeader, Headers, Blocks
<1>17. words \in Seq(Nat)
  <2>1. OffsetOf(BlocksMap, k) \in Nat
    BY <1>11, HeaderTypes DEF OffsetOf
  <2>. DEFINE head == <<tag, OffsetOf(BlocksMap, k), Len(data)>>
  <2>2. head \in Seq(Nat)
    BY <1>8, <1>15, <2>1
  <2>. HIDE DEF head
  <2>3. head \o data \in Seq(Nat)
    BY <1>9, <2>2, ConcatItems
  <2>. QED BY <2>3 DEF BlockWords, head
<1>. HIDE DEF hole, words, header, new
<1>18. Len(words) \in Nat
  BY <1>17
<1>19. e \in Seq(Nat)
  <2>1. 0 \in 0 .. Len(words)
    BY <1>18
  <2>. QED BY <1>4, <1>6, <1>10, <1>11, <1>17, <2>1, AddCut DEF hole
<1>20. stream' \in Streams
  <2>1. k \in Nat
    BY <1>6
  <2>. QED BY <1>2, <1>15, <1>17, <1>19, <2>1 DEF Streams
<1>21. /\ \A j \in 1 .. k - 1 : BlocksMap'[j] = BlocksMap[j]
       /\ \A j \in 1 .. k - 1 : aux_blocks'[j] = aux_blocks[j]
       /\ Len(BlocksMap') = Len(aux_blocks') /\ Laid(BlocksMap') /\ k - 1 <= Len(BlocksMap')
  <2>1. (\A j \in 1 .. k - 1 : BlocksMap'[j] = BlocksMap[j]) /\ Len(BlocksMap') = Len(BlocksMap) + 1
    BY <1>2, <1>6, <1>11, <1>16, InsertProperties
  <2>2. k \in 1 .. Len(aux_blocks) + 1
    BY <1>4, <1>6 DEF Stored
  <2>3. \A j \in 1 .. k - 1 : aux_blocks'[j] = aux_blocks[j]
    BY <1>2, <1>12, <1>16, <2>2, InsertProperties
  <2>4. Len(BlocksMap') = Len(aux_blocks') /\ Laid(BlocksMap')
    BY <1>13 DEF Stored
  <2>5. Len(BlocksMap) \in Nat
    BY <1>11
  <2>6. k - 1 <= Len(BlocksMap) + 1
    BY <1>6, <2>5
  <2>. QED BY <2>1, <2>3, <2>4, <2>6
<1>22. ASSUME NEW n \in 0 .. Len(words) - 1
       PROVE  /\ WrittenAt(e, hole, SubSeq(words, 1, n)) \in Seq(Nat)
              /\ Kept(WrittenAt(e, hole, SubSeq(words, 1, n)), BlocksMap', aux_blocks', k - 1)
  <2>. DEFINE g == WrittenAt(e, hole, SubSeq(words, 1, n))
  <2>1. n \in 0 .. Len(words)
    BY <1>18
  <2>2. /\ g \in Seq(Nat) /\ Len(g) >= Len(archive)
        /\ \A i \in 1 .. Len(archive) :
             i # LinkOffset(BlocksMap, k) + 1 /\ i <= HoleOffset(BlocksMap, k) => g[i] = archive[i]
    BY <1>4, <1>6, <1>10, <1>11, <1>17, <2>1, AddCut DEF hole
  <2>3. g \in Seq(Nat)
    BY <2>2
  <2>4. BlocksMap' \in Seq(Headers)
    BY <1>13
  <2>5. aux_blocks' \in Seq(Blocks)
    BY <1>13
  <2>. HIDE DEF g
  <2>6. Kept(g, BlocksMap', aux_blocks', k - 1)
    BY <1>4, <1>6, <1>10, <1>11, <1>12, <1>21, <2>2, <2>3, <2>4, <2>5, CutKeeps
  <2>. QED BY <2>3, <2>6 DEF g
<1>23. Buffered'
  <2>1. stream'.Words = words /\ stream'.Place = k
        /\ \A n : Cut(n)' = WrittenAt(e, hole, SubSeq(words, 1, n))
    BY <1>2 DEF Cut
  <2>. HIDE DEF e
  <2>2. \A n \in 0 .. Len(stream'.Words) - 1 :
          Cut(n)' \in Seq(Nat) /\ Kept(Cut(n)', aux_layout', aux_blocks', stream'.Place - 1)
    BY <1>2, <1>22, <2>1
  <2>. QED BY <1>2, <2>2 DEF Buffered
<1>24. ArchiveTypeOK'
  <2>1. {archive', temp'} \subseteq Seq(Nat) \cup {NoFile}
    BY <1>2, <1>13, ArchiveTypes
  <2>. QED BY <1>2, <1>13, <1>20, <2>1 DEF ArchiveTypeOK, Blocks
<1>25. OnDisk'
  BY <1>2, <1>3, <1>13, <1>14 DEF OnDisk, IsWhole
<1>26. IsWhole'
  BY <1>2, <1>3 DEF IsWhole
<1>. QED BY <1>2, <1>23, <1>24, <1>25, <1>26 DEF ArchiveInv, Reading, ReadAll, Copying, CopiedAll

\* LArchiveFile_RemoveBlock. A kill leaves the block where it was, or not.
LEMMA RemoveBlockKeeps == ASSUME ArchiveInv, NEW k \in DOMAIN BlocksMap, RemoveBlock(k) PROVE ArchiveInv'
<1>. DEFINE x == OffsetOf(BlocksMap, k + 1)
            l == LinkOffset(BlocksMap, k)
            one == <<x>>
<1>1. /\ ArchiveTypeOK /\ BlocksMap \in Seq(Headers) /\ aux_blocks \in Seq(Blocks)
      /\ phase = "open" /\ Mode # "READ"
      /\ archive' = WithLink(archive, BlocksMap, k, OffsetOf(BlocksMap, k + 1))
      /\ stream' = [File |-> archive, Offset |-> l, Words |-> one, Place |-> k]
      /\ aux_blocks' = RemoveAt(aux_blocks, k)
      /\ aux_layout' = BlocksMap'
      /\ UNCHANGED <<temp, tempMap, Mode, phase, compacting, theOffset, aux_end>>
  BY ArchiveTypes DEF ArchiveInv, RemoveBlock, Buffering
<1>2. BlocksMap' = RemoveAt(BlocksMap, k)
  <2>1. k \in Nat
    BY <1>1
  <2>2. (k - 1) + 1 = k
    BY <2>1
  <2>. QED BY <2>2 DEF RemoveBlock, RemovedItemAt
<1>3. archive # NoFile /\ archive \in Seq(Nat) /\ IsWhole
  BY <1>1, FileWhileOpen
<1>4. Stored(archive, BlocksMap, aux_blocks)
  BY <1>1, <1>3 DEF ArchiveInv, OnDisk, ReadAll
<1>5. k \in 1 .. Len(BlocksMap)
  BY <1>1
<1>6. archive \in Seq(Nat)
  BY <1>3
<1>7. BlocksMap \in Seq(Headers)
  BY <1>1
<1>8. aux_blocks \in Seq(Blocks)
  BY <1>1
<1>9. archive' \in Seq(Nat) /\ BlocksMap' \in Seq(Headers) /\ aux_blocks' \in Seq(Blocks)
      /\ Stored(archive', BlocksMap', aux_blocks')
  BY <1>1, <1>2, <1>4, <1>5, <1>6, <1>7, <1>8, RemoveStored
<1>10. archive' # NoFile
  BY <1>9, IsAFile
<1>11. k \in 1 .. Len(BlocksMap) + 1 /\ k \in Nat /\ Len(BlocksMap) \in Nat
  BY <1>5
<1>12. l \in 0 .. Len(archive)
  BY <1>4, <1>6, <1>7, <1>11, PlaceInFile
<1>13. x \in Nat
  BY <1>7, HeaderTypes DEF OffsetOf
<1>14. one \in Seq(Nat) /\ Len(one) = 1 /\ SubSeq(one, 1, 0) = <<>>
  BY <1>13
<1>. HIDE DEF x, l, one
<1>15. stream' \in Streams
  <2>1. l \in Nat
    BY <1>12
  <2>. QED BY <1>1, <1>6, <1>11, <1>14, <2>1 DEF Streams
<1>16. /\ \A j \in 1 .. k - 1 : BlocksMap'[j] = BlocksMap[j]
       /\ \A j \in 1 .. k - 1 : aux_blocks'[j] = aux_blocks[j]
       /\ Len(BlocksMap') = Len(aux_blocks') /\ Laid(BlocksMap') /\ k - 1 <= Len(BlocksMap')
  <2>1. (\A j \in 1 .. k - 1 : BlocksMap'[j] = BlocksMap[j]) /\ Len(BlocksMap') = Len(BlocksMap) - 1
    BY <1>2, <1>5, <1>7, RemoveProperties
  <2>2. k \in 1 .. Len(aux_blocks)
    BY <1>4, <1>5 DEF Stored
  <2>3. \A j \in 1 .. k - 1 : aux_blocks'[j] = aux_blocks[j]
    BY <1>1, <1>8, <2>2, RemoveProperties
  <2>4. Len(BlocksMap') = Len(aux_blocks') /\ Laid(BlocksMap')
    BY <1>9 DEF Stored
  <2>5. k - 1 <= Len(BlocksMap) - 1
    BY <1>5, <1>11
  <2>. QED BY <2>1, <2>3, <2>4, <2>5
<1>. DEFINE none == SubSeq(one, 1, 0)
            g == WrittenAt(archive, l, none)
<1>17. g \in Seq(Nat) /\ Len(g) >= Len(archive) /\ \A i \in 1 .. Len(archive) : g[i] = archive[i]
  <2>1. none \in Seq(Nat) /\ Len(none) = 0 /\ Len(archive) \in Nat
    BY <1>6, <1>14
  <2>2. /\ g \in Seq(Nat) /\ Len(g) = Larger(Len(archive), l + Len(none))
        /\ \A i \in 1 .. Len(archive) : i \notin l + 1 .. l + Len(none) => g[i] = archive[i]
    <3>1. none \in Seq(Nat)
      BY <2>1
    <3>. HIDE DEF none
    <3>. QED BY <1>6, <1>12, <3>1, WrittenCells
  <2>. HIDE DEF none, g
  <2>3. Len(g) >= Len(archive)
    BY <1>12, <2>1, <2>2 DEF Larger
  <2>4. l + 1 .. l + Len(none) = {}
    BY <1>12, <2>1
  <2>. QED BY <2>2, <2>3, <2>4
<1>. HIDE DEF none, g
<1>18. Kept(g, BlocksMap', aux_blocks', k - 1)
  <2>1. g \in Seq(Nat)
    BY <1>17
  <2>2. BlocksMap' \in Seq(Headers)
    BY <1>9
  <2>3. aux_blocks' \in Seq(Blocks)
    BY <1>9
  <2>4. k \in 1 .. Len(BlocksMap) + 1
    BY <1>11
  <2>. QED BY <1>4, <1>6, <1>7, <1>8, <1>16, <1>17, <2>1, <2>2, <2>3, <2>4, CutKeeps
<1>19. Buffered'
  <2>1. stream'.Words = one /\ stream'.Place = k /\ Cut(0)' = g
    BY <1>1 DEF Cut, g, none
  <2>2. 0 .. Len(stream'.Words) - 1 = {0}
    <3>1. Len(stream'.Words) = 1
      BY <1>14, <2>1
    <3>2. 0 .. 1 - 1 = {0}
      OBVIOUS
    <3>. QED BY <3>1, <3>2
  <2>3. \A n \in 0 .. Len(stream'.Words) - 1 :
          Cut(n)' \in Seq(Nat) /\ Kept(Cut(n)', aux_layout', aux_blocks', stream'.Place - 1)
    <3>1. Cut(0)' \in Seq(Nat) /\ Kept(Cut(0)', aux_layout', aux_blocks', stream'.Place - 1)
      BY <1>1, <1>17, <1>18, <2>1
    <3>. QED BY <2>2, <3>1
  <2>. QED BY <1>1, <2>3 DEF Buffered
<1>20. ArchiveTypeOK'
  <2>1. {archive', temp'} \subseteq Seq(Nat) \cup {NoFile}
    BY <1>1, <1>9, ArchiveTypes
  <2>. QED BY <1>1, <1>9, <1>15, <2>1 DEF ArchiveTypeOK, Blocks
<1>21. OnDisk' /\ IsWhole'
  BY <1>1, <1>3, <1>9, <1>10 DEF OnDisk, IsWhole
<1>. QED BY <1>1, <1>19, <1>20, <1>21 DEF ArchiveInv, Reading, ReadAll, Copying, CopiedAll

\* LArchiveFile_GetXPBlock writes what is in the buffer.
LEMMA GetXPBlockKeeps == ASSUME ArchiveInv, GetXPBlock PROVE ArchiveInv'
<1>1. /\ ArchiveTypeOK /\ phase = "open" /\ stream' = AllWritten(archive)
      /\ UNCHANGED <<archive, temp, BlocksMap, tempMap, Mode, phase, compacting, theOffset,
                     aux_blocks, aux_layout, aux_end>>
  BY DEF ArchiveInv, GetXPBlock
<1>2. stream' \in Streams /\ Buffered'
  BY <1>1, FileWhileOpen, NothingBuffered
<1>3. ArchiveTypeOK'
  BY <1>1, <1>2 DEF ArchiveTypeOK
<1>. QED BY <1>1, <1>2, <1>3 DEF ArchiveInv, OnDisk, Reading, ReadAll, Copying, CopiedAll, IsWhole, Sure

\* What is closed is on disk.
LEMMA ClosedKeeps ==
  ASSUME ArchiveTypeOK, Closed, {archive', temp'} \subseteq Seq(Nat) \cup {NoFile},
         aux_layout' \in Seq(Headers), aux_blocks' \in Seq(Blocks),
         aux_end' \in [How : {"whole", "cut", "unnamed"}, Place : Nat], OnDisk'
  PROVE  ArchiveInv'
<1>1. /\ phase' = "closed" /\ stream' = AllWritten(<<>>) /\ BlocksMap' = <<>> /\ tempMap' = <<>>
      /\ Mode' = "READ" /\ compacting' = FALSE /\ theOffset' = 0
  BY DEF Closed
<1>2. stream' \in Streams /\ Buffered'
  <2>. DEFINE none == <<>>
  <2>1. none \in Seq(Nat) /\ stream' = AllWritten(none)
    BY <1>1
  <2>. HIDE DEF none
  <2>. QED BY <2>1, NothingBuffered
<1>3. ArchiveTypeOK'
  <2>1. <<>> \in Seq(Headers) /\ 0 \in Nat
    OBVIOUS
  <2>. QED BY <1>1, <1>2, <2>1 DEF ArchiveTypeOK, Blocks
<1>. QED BY <1>1, <1>2, <1>3 DEF ArchiveInv, Reading, ReadAll, Copying, CopiedAll

\* LArchiveFile_Open throws at the end of the file.
LEMMA ScanFailsKeeps == ASSUME ArchiveInv, ScanFails PROVE ArchiveInv'
<1>1. /\ ArchiveTypeOK /\ phase = "scanning" /\ Closed /\ phase' = "closed" /\ Mode' = "READ" /\ compacting' = FALSE
      /\ UNCHANGED <<archive, temp, aux_blocks, aux_layout, aux_end>>
  BY DEF ArchiveInv, ScanFails, Closed
<1>2. archive # NoFile
  BY <1>1, FileWhileOpen
<1>3. OnDisk'
  BY <1>1, <1>2 DEF ArchiveInv, OnDisk, IsWhole, Sure
<1>4. /\ {archive', temp'} \subseteq Seq(Nat) \cup {NoFile} /\ aux_layout' \in Seq(Headers)
      /\ aux_blocks' \in Seq(Blocks) /\ aux_end' \in [How : {"whole", "cut", "unnamed"}, Place : Nat]
  BY <1>1, ArchiveTypes
<1>. QED BY <1>1, <1>3, <1>4, ClosedKeeps

\* LArchiveFile_Close, which goes on to _Compact if too much of the file is holes.
LEMMA CloseKeeps == ASSUME ArchiveInv, Close PROVE ArchiveInv'
<1>1. /\ ArchiveTypeOK /\ OnDisk /\ phase = "open" /\ IsWhole
      /\ UNCHANGED <<archive, temp, aux_blocks, aux_layout, aux_end>>
  BY DEF ArchiveInv, Close, IsWhole
<1>2. archive # NoFile /\ Stored(archive, aux_layout, aux_blocks)
  BY <1>1 DEF OnDisk
<1>3. OnDisk'
  BY <1>1, <1>2 DEF OnDisk, IsWhole
<1>4. CASE IsFragmented
  <2>1. StartScan /\ Mode' = "READ" /\ compacting' = TRUE /\ UNCHANGED tempMap
    BY <1>4 DEF Close
  <2>2. /\ Reading' /\ theOffset' \in Nat /\ BlocksMap' \in Seq(Headers) /\ phase' = "scanning"
        /\ stream' \in Streams /\ Buffered'
    BY <1>1, <1>2, <2>1, StartScanReads
  <2>3. ArchiveTypeOK'
    BY <1>1, <2>1, <2>2 DEF ArchiveTypeOK
  <2>. QED BY <1>3, <2>2, <2>3 DEF ArchiveInv, ReadAll, Copying, CopiedAll
<1>5. CASE ~ IsFragmented
  <2>1. Closed
    BY <1>5 DEF Close
  <2>2. /\ {archive', temp'} \subseteq Seq(Nat) \cup {NoFile} /\ aux_layout' \in Seq(Headers)
        /\ aux_blocks' \in Seq(Blocks) /\ aux_end' \in [How : {"whole", "cut", "unnamed"}, Place : Nat]
    BY <1>1, ArchiveTypes
  <2>. QED BY <1>1, <1>3, <2>1, <2>2, ClosedKeeps
<1>. QED BY <1>4, <1>5

\* One turn of the loop of _Compact puts the next block at the end.
LEMMA CopyBlockKeeps == ASSUME ArchiveInv, CopyBlock PROVE ArchiveInv'
<1>. DEFINE n == Len(tempMap)
            copied == BlockAt(archive, BlocksMap, n + 1)
            tag == copied[1]
            data == copied[2]
            size == HeaderSize + Len(data)
            k == FetchHole(tempMap, size)
            prefix == SubSeq(aux_blocks, 1, n)
<1>1. /\ ArchiveTypeOK /\ BlocksMap \in Seq(Headers) /\ aux_blocks \in Seq(Blocks) /\ tempMap \in Seq(Headers)
      /\ phase = "copying" /\ n < Len(BlocksMap)
      /\ temp' = WithBlock(temp, tempMap, k, tag, data)
      /\ tempMap' = InsertAt(tempMap, k, BlockHeader(tempMap, k, tag, data))
      /\ UNCHANGED <<archive, stream, BlocksMap, Mode, phase, compacting, theOffset,
                     aux_blocks, aux_layout, aux_end>>
  BY ArchiveTypes DEF ArchiveInv, CopyBlock
<1>2. archive # NoFile /\ archive \in Seq(Nat) /\ IsWhole
  BY <1>1, FileWhileOpen
<1>3. BlocksMap = aux_layout /\ Stored(archive, BlocksMap, aux_blocks)
  BY <1>1, <1>2 DEF ArchiveInv, OnDisk, ReadAll
<1>4. temp # NoFile /\ temp \in Seq(Nat) /\ NoHoles(tempMap) /\ Stored(temp, tempMap, prefix)
  BY <1>1, ArchiveTypes DEF ArchiveInv, Copying
<1>5. n \in Nat /\ n + 1 <= Len(aux_blocks) /\ n + 1 \in 1 .. Len(aux_blocks)
  <2>1. Len(BlocksMap) = Len(aux_blocks)
    BY <1>3 DEF Stored
  <2>2. n \in Nat /\ Len(BlocksMap) \in Nat
    BY <1>1
  <2>. DEFINE m == Len(BlocksMap)
  <2>3. m \in Nat /\ n \in Nat /\ n < m
    BY <1>1, <2>2
  <2>. HIDE DEF m, n
  <2>4. n + 1 <= m /\ n + 1 \in 1 .. m
    BY <2>3
  <2>. QED BY <2>1, <2>2, <2>4 DEF m
<1>6. copied = aux_blocks[n + 1]
  <2>1. HoldsAll(archive, BlocksMap, aux_blocks)
    BY <1>1, <1>2, <1>3, StoredHolds
  <2>. HIDE DEF n
  <2>. QED BY <1>5, <2>1 DEF HoldsAll, Holds
<1>7. aux_blocks \in Seq(Blocks)
  BY <1>1
<1>. HIDE DEF n, copied, prefix
<1>8. /\ prefix \in Seq(Blocks) /\ Len(prefix) = n /\ copied \in Blocks
      /\ Len(SubSeq(aux_blocks, 1, n + 1)) = n + 1
      /\ InsertAt(prefix, n + 1, copied) = SubSeq(aux_blocks, 1, n + 1)
  BY <1>5, <1>6, <1>7, PrefixGrows DEF prefix
<1>9. tag \in Nat /\ data \in Seq(Nat) /\ copied = <<tag, data>>
  BY <1>8 DEF Blocks
<1>. HIDE DEF tag, data
<1>10. size \in Nat /\ size > 0
  <2>1. Len(data) \in Nat
    BY <1>9
  <2>. QED BY <2>1 DEF HeaderSize
<1>11. tempMap \in Seq(Headers)
  BY <1>1
<1>12. Laid(tempMap) /\ NoHoles(tempMap)
  BY <1>4 DEF Stored
<1>13. tag \in Nat
  BY <1>9
<1>14. data \in Seq(Nat)
  BY <1>9
<1>. HIDE DEF size
<1>15. k = Len(tempMap) + 1
       /\ NoHoles(InsertAt(tempMap, Len(tempMap) + 1, BlockHeader(tempMap, Len(tempMap) + 1, tag, data)))
  BY <1>10, <1>11, <1>12, <1>13, <1>14, PutAtTheEnd
<1>16. /\ k \in 1 .. Len(tempMap) + 1
       /\ \A i \in DOMAIN tempMap : i >= k => HoleOffset(tempMap, k) + size <= tempMap[i].Offset
  BY <1>10, <1>11, <1>12, HoleFits
<1>17. NoHoles(tempMap')
  BY <1>1, <1>15
<1>18. k \in 1 .. Len(tempMap) + 1 /\ k = n + 1
  BY <1>15, <1>16 DEF n
<1>19. \A i \in DOMAIN tempMap : i >= k => HoleOffset(tempMap, k) + (HeaderSize + Len(data)) <= tempMap[i].Offset
  BY <1>16 DEF size
<1>. HIDE DEF k
<1>20. temp \in Seq(Nat)
  BY <1>4
<1>21. prefix \in Seq(Blocks)
  BY <1>8
<1>22. Stored(temp, tempMap, prefix)
  BY <1>4
<1>23. k \in 1 .. Len(tempMap) + 1
  BY <1>18
<1>24. /\ temp' \in Seq(Nat) /\ tempMap' \in Seq(Headers) /\ Len(tempMap') = Len(tempMap) + 1
       /\ Stored(temp', tempMap', InsertAt(prefix, k, <<tag, data>>))
  <2>1. temp' = WithBlock(temp, tempMap, k, tag, data)
        /\ tempMap' = InsertAt(tempMap, k, BlockHeader(tempMap, k, tag, data))
    BY <1>1
  <2>. QED BY <1>11, <1>13, <1>14, <1>19, <1>20, <1>21, <1>22, <1>23, <2>1, AddStored
<1>25. InsertAt(prefix, k, <<tag, data>>) = SubSeq(aux_blocks, 1, n + 1) /\ Len(tempMap') = n + 1
  <2>1. Len(tempMap') = n + 1
    BY <1>24 DEF n
  <2>. QED BY <1>8, <1>9, <1>18, <2>1
<1>26. Copying'
  <2>1. aux_blocks' = aux_blocks /\ Len(tempMap') = n + 1
    BY <1>1, <1>25
  <2>2. Len(tempMap') <= Len(aux_blocks')
    BY <1>5, <2>1
  <2>3. Stored(temp', tempMap', SubSeq(aux_blocks', 1, Len(tempMap')))
    BY <1>24, <1>25, <2>1
  <2>4. temp' # NoFile
    BY <1>24, IsAFile
  <2>. QED BY <1>17, <2>2, <2>3, <2>4 DEF Copying
<1>27. ArchiveTypeOK'
  <2>1. {archive', temp'} \subseteq Seq(Nat) \cup {NoFile}
    BY <1>1, <1>24, ArchiveTypes
  <2>. QED BY <1>1, <1>24, <2>1 DEF ArchiveTypeOK
<1>28. OnDisk' /\ IsWhole' /\ Buffered'
  <2>1. OnDisk' /\ IsWhole'
    BY <1>1, <1>2, <1>3 DEF OnDisk, IsWhole
  <2>2. Buffered'
    BY <1>1, EmptyBuffer DEF ArchiveInv, Buffered
  <2>. QED BY <2>1, <2>2
<1>. QED BY <1>1, <1>3, <1>26, <1>27, <1>28 DEF ArchiveInv, Reading, ReadAll, CopiedAll

\* _Compact: when all blocks are copied the old file is removed.
LEMMA RemoveFileKeeps == ASSUME ArchiveInv, RemoveFile PROVE ArchiveInv'
<1>1. /\ ArchiveTypeOK /\ phase = "copying" /\ phase' = "renaming" /\ archive' = NoFile
      /\ Len(tempMap) = Len(BlocksMap)
      /\ UNCHANGED <<temp, stream, BlocksMap, tempMap, Mode, compacting, theOffset, aux_blocks, aux_layout, aux_end>>
  BY DEF ArchiveInv, RemoveFile
<1>2. archive # NoFile /\ IsWhole
  BY <1>1, FileWhileOpen
<1>3. BlocksMap = aux_layout /\ Stored(archive, BlocksMap, aux_blocks)
  BY <1>1, <1>2 DEF ArchiveInv, OnDisk, ReadAll
<1>4. Len(tempMap) = Len(aux_blocks) /\ aux_blocks \in Seq(Blocks)
  BY <1>1, <1>3, ArchiveTypes DEF Stored
<1>5. SubSeq(aux_blocks, 1, Len(aux_blocks)) = aux_blocks
  BY <1>4
<1>6. Stored(temp, tempMap, aux_blocks) /\ temp # NoFile
  <2>1. Stored(temp, tempMap, SubSeq(aux_blocks, 1, Len(tempMap))) /\ temp # NoFile
    BY <1>1 DEF ArchiveInv, Copying
  <2>. QED BY <1>4, <1>5, <2>1
<1>7. CopiedAll'
  BY <1>1, <1>6 DEF CopiedAll
<1>8. ArchiveTypeOK'
  <2>1. {archive', temp'} \subseteq Seq(Nat) \cup {NoFile}
    BY <1>1, ArchiveTypes
  <2>. QED BY <1>1, <2>1 DEF ArchiveTypeOK
<1>9. OnDisk' /\ Buffered'
  <2>1. OnDisk'
    BY <1>1, <1>2 DEF OnDisk, IsWhole
  <2>2. Buffered'
    BY <1>1, EmptyBuffer DEF ArchiveInv, Buffered
  <2>. QED BY <2>1, <2>2
<1>. QED BY <1>1, <1>7, <1>8, <1>9 DEF ArchiveInv, Reading, ReadAll, Copying

\* _Compact: the temporary file gets the name of the archive.
LEMMA RenameFileKeeps == ASSUME ArchiveInv, RenameFile PROVE ArchiveInv'
<1>1. /\ ArchiveTypeOK /\ Closed /\ phase = "renaming" /\ phase' = "closed"
      /\ archive' = temp /\ temp' = NoFile /\ aux_layout' = tempMap /\ UNCHANGED <<aux_blocks, aux_end>>
      /\ temp # NoFile /\ Stored(temp, tempMap, aux_blocks)
  BY DEF ArchiveInv, CopiedAll, RenameFile, Closed
<1>2. IsWhole
  <2>1. aux_end.How \in {"whole", "cut", "unnamed"}
    BY <1>1, ArchiveTypes
  <2>. QED BY <1>1, <2>1 DEF ArchiveInv, OnDisk, IsWhole
<1>3. /\ {archive', temp'} \subseteq Seq(Nat) \cup {NoFile} /\ aux_layout' \in Seq(Headers)
      /\ aux_blocks' \in Seq(Blocks) /\ aux_end' \in [How : {"whole", "cut", "unnamed"}, Place : Nat]
  BY <1>1, ArchiveTypes
<1>4. OnDisk'
  BY <1>1, <1>2 DEF OnDisk, IsWhole
<1>. QED BY <1>1, <1>3, <1>4, ClosedKeeps

\* The end of the process: what is in the buffer is written, or part of it.
LEMMA ExitKeeps == ASSUME ArchiveInv, NEW n \in 0 .. Len(stream.Words), Exit(n) PROVE ArchiveInv'
<1>1. /\ ArchiveTypeOK /\ Closed /\ phase # "closed" /\ phase # "renaming"
      /\ phase' = "closed" /\ Mode' = "READ" /\ compacting' = FALSE
      /\ temp' = NoFile /\ UNCHANGED <<aux_blocks, aux_layout>>
      /\ aux_layout \in Seq(Headers) /\ aux_blocks \in Seq(Blocks) /\ stream \in Streams
  BY ArchiveTypes DEF ArchiveInv, Exit, Closed
<1>2. archive # NoFile /\ archive \in Seq(Nat)
  <2>1. phase \in {"scanning", "open", "copying"}
    BY <1>1 DEF ArchiveTypeOK
  <2>. QED BY <2>1, FileWhileOpen
<1>3. CASE n = Len(stream.Words)
  <2>1. UNCHANGED <<archive, aux_end>>
    BY <1>3 DEF Exit
  <2>2. {archive', temp'} \subseteq Seq(Nat) \cup {NoFile}
        /\ aux_end' \in [How : {"whole", "cut", "unnamed"}, Place : Nat]
    BY <1>1, <1>2, <2>1, ArchiveTypes
  <2>3. OnDisk'
    BY <1>1, <1>2, <2>1 DEF ArchiveInv, OnDisk, IsWhole, Sure
  <2>. QED BY <1>1, <2>2, <2>3, ClosedKeeps
<1>4. CASE n # Len(stream.Words)
  <2>1. archive' = Cut(n) /\ aux_end' = [How |-> "cut", Place |-> stream.Place]
    BY <1>4 DEF Exit, Cut
  <2>2. n \in 0 .. Len(stream.Words) - 1
    <3>1. stream.Words \in Seq(Nat)
      BY <1>1 DEF Streams
    <3>2. Len(stream.Words) \in Nat
      BY <3>1
    <3>. QED BY <1>4, <3>2
  <2>3. Cut(n) \in Seq(Nat) /\ Kept(Cut(n), aux_layout, aux_blocks, stream.Place - 1)
    BY <2>2 DEF ArchiveInv, Buffered
  <2>4. archive' \in Seq(Nat) /\ archive' # NoFile
    BY <2>1, <2>3, IsAFile
  <2>5. {archive', temp'} \subseteq Seq(Nat) \cup {NoFile}
    BY <1>1, <2>4
  <2>6. aux_end' \in [How : {"whole", "cut", "unnamed"}, Place : Nat]
    BY <1>1, <2>1 DEF Streams
  <2>7. OnDisk'
    <3>1. ~IsWhole' /\ aux_end'.How = "cut" /\ Sure' = stream.Place - 1
      BY <2>1 DEF IsWhole, Sure
    <3>. QED BY <1>1, <2>1, <2>3, <2>4, <3>1 DEF OnDisk
  <2>. QED BY <1>1, <2>5, <2>6, <2>7, ClosedKeeps
<1>. QED BY <1>3, <1>4

\* If the old file is removed and the temporary one has not its name yet, that
\* one has all blocks.
LEMMA ExitUnnamedKeeps == ASSUME ArchiveInv, ExitUnnamed PROVE ArchiveInv'
<1>1. /\ ArchiveTypeOK /\ Closed /\ phase' = "closed"
      /\ UNCHANGED <<archive, temp, aux_blocks>> /\ aux_layout' = tempMap
      /\ aux_end' = [How |-> "unnamed", Place |-> 1]
      /\ archive = NoFile /\ temp # NoFile /\ Stored(temp, tempMap, aux_blocks)
  BY DEF ArchiveInv, CopiedAll, ExitUnnamed, Closed
<1>2. /\ {archive', temp'} \subseteq Seq(Nat) \cup {NoFile} /\ aux_layout' \in Seq(Headers)
      /\ aux_blocks' \in Seq(Blocks)
  BY <1>1, ArchiveTypes
<1>3. aux_end' \in [How : {"whole", "cut", "unnamed"}, Place : Nat]
  BY <1>1
<1>4. OnDisk'
  BY <1>1 DEF OnDisk, IsWhole
<1>. QED BY <1>1, <1>2, <1>3, <1>4, ClosedKeeps

\* Every step of the archive keeps its blocks.
LEMMA ArchiveInvInductive == ArchiveInv /\ [ArchiveNext]_archiveVars => ArchiveInv'
<1>. SUFFICES ASSUME ArchiveInv, [ArchiveNext]_archiveVars PROVE ArchiveInv'
  OBVIOUS
<1>1. ASSUME NEW mode \in {"READ", "WRITE", "READ_WRITE"}, OpenNew(mode) PROVE ArchiveInv'
  BY <1>1, OpenNewKeeps
<1>2. ASSUME NEW mode \in {"READ", "WRITE", "READ_WRITE"}, OpenOld(mode) PROVE ArchiveInv'
  BY <1>2, OpenOldKeeps
<1>3. CASE ScanBlock
  BY <1>3, ScanBlockKeeps
<1>4. CASE ScanFails
  BY <1>4, ScanFailsKeeps
<1>5. CASE Scanned
  BY <1>5, ScannedKeeps
<1>6. ASSUME NEW tag \in ArchiveTags, NEW data \in ArchiveData, AddBlock(tag, data) PROVE ArchiveInv'
  BY <1>6, AddBlockKeeps
<1>7. ASSUME NEW k \in DOMAIN BlocksMap, RemoveBlock(k) PROVE ArchiveInv'
  BY <1>7, RemoveBlockKeeps
<1>8. CASE GetXPBlock
  BY <1>8, GetXPBlockKeeps
<1>9. CASE Close
  BY <1>9, CloseKeeps
<1>10. CASE CopyBlock
  BY <1>10, CopyBlockKeeps
<1>11. CASE RemoveFile
  BY <1>11, RemoveFileKeeps
<1>12. CASE RenameFile
  BY <1>12, RenameFileKeeps
<1>13. ASSUME NEW n \in 0 .. Len(stream.Words), Exit(n) PROVE ArchiveInv'
  BY <1>13, ExitKeeps
<1>14. CASE ExitUnnamed
  BY <1>14, ExitUnnamedKeeps
<1>15. CASE UNCHANGED archiveVars
  BY <1>15 DEF archiveVars, ArchiveInv, ArchiveTypeOK, OnDisk, Buffered, Cut, Reading, ReadAll,
               Copying, CopiedAll, IsWhole, Sure
<1>. QED BY <1>1, <1>2, <1>3, <1>4, <1>5, <1>6, <1>7, <1>8, <1>9, <1>10, <1>11, <1>12, <1>13, <1>14, <1>15
         DEF ArchiveNext

\* What callers see of it.
LEMMA ArchiveInvImplies == ArchiveInv => ArchiveKeepsBlocks
<1>. SUFFICES ASSUME ArchiveInv PROVE ArchiveKeepsBlocks
  OBVIOUS
<1>1. /\ archive # NoFile => archive \in Seq(Nat)
      /\ temp # NoFile => temp \in Seq(Nat)
      /\ BlocksMap \in Seq(Headers) /\ aux_layout \in Seq(Headers) /\ tempMap \in Seq(Headers)
      /\ aux_blocks \in Seq(Blocks)
  BY ArchiveTypes DEF ArchiveInv
<1>2. ASSUME IsWhole, archive # NoFile PROVE HoldsAll(archive, aux_layout, aux_blocks)
  <2>1. Stored(archive, aux_layout, aux_blocks)
    BY <1>2 DEF ArchiveInv, OnDisk
  <2>. QED BY <1>1, <1>2, <2>1, StoredHolds
<1>3. ASSUME IsWhole, phase \in {"open", "copying"} PROVE HoldsAll(archive, BlocksMap, aux_blocks)
  <2>1. archive # NoFile /\ BlocksMap = aux_layout
    BY <1>3 DEF ArchiveInv, OnDisk, ReadAll
  <2>. QED BY <1>2, <1>3, <2>1
<1>4. ASSUME phase = "copying" PROVE Holds(temp, tempMap, aux_blocks, Len(tempMap))
  <2>. DEFINE n == Len(tempMap)
              prefix == SubSeq(aux_blocks, 1, n)
  <2>1. n <= Len(aux_blocks) /\ Stored(temp, tempMap, prefix) /\ n \in Nat /\ temp \in Seq(Nat)
    BY <1>1, <1>4 DEF ArchiveInv, Copying
  <2>. HIDE DEF n
  <2>2. prefix \in Seq(Blocks) /\ Len(prefix) = n /\ \A i \in 1 .. n : prefix[i] = aux_blocks[i]
    BY <1>1, <2>1, SubSeqProperties
  <2>. HIDE DEF prefix
  <2>3. HoldsAll(temp, tempMap, prefix)
    BY <1>1, <2>1, <2>2, StoredHolds
  <2>. QED BY <2>1, <2>2, <2>3 DEF HoldsAll, Holds, n
<1>5. ASSUME phase = "renaming" PROVE HoldsAll(temp, tempMap, aux_blocks)
  <2>1. Stored(temp, tempMap, aux_blocks) /\ temp \in Seq(Nat)
    BY <1>1, <1>5 DEF ArchiveInv, CopiedAll
  <2>. QED BY <1>1, <2>1, StoredHolds
<1>6. ASSUME IsWhole, phase = "closed", archive = NoFile PROVE aux_blocks = <<>>
  BY <1>6 DEF ArchiveInv, OnDisk
<1>7. ASSUME aux_end.How = "cut" PROVE Holds(archive, aux_layout, aux_blocks, Sure)
  <2>1. archive \in Seq(Nat) /\ Kept(archive, aux_layout, aux_blocks, Sure)
    BY <1>1, <1>7 DEF ArchiveInv, OnDisk
  <2>. QED BY <1>1, <2>1, KeptHolds
<1>8. ASSUME aux_end.How = "cut", phase = "open" PROVE Holds(archive, BlocksMap, aux_blocks, Sure)
  <2>1. Sure <= Len(BlocksMap) /\ \A k \in 1 .. Sure : BlocksMap[k] = aux_layout[k]
    BY <1>8 DEF ArchiveInv, ReadAll, IsWhole
  <2>2. \A k \in 1 .. Sure : BlockAt(archive, BlocksMap, k) = BlockAt(archive, aux_layout, k)
    BY <2>1 DEF BlockAt
  <2>. QED BY <1>7, <1>8, <2>1, <2>2 DEF Holds
<1>9. ASSUME aux_end.How = "unnamed" PROVE phase = "closed" /\ HoldsAll(temp, aux_layout, aux_blocks)
  <2>1. phase = "closed" /\ temp \in Seq(Nat) /\ Stored(temp, aux_layout, aux_blocks)
    BY <1>1, <1>9 DEF ArchiveInv, OnDisk
  <2>. QED BY <1>1, <2>1, StoredHolds
<1>. QED BY <1>2, <1>3, <1>4, <1>5, <1>6, <1>7, <1>8, <1>9 DEF ArchiveKeepsBlocks, IsWhole, Sure

\* ArchiveTypeOK and ArchiveKeepsBlocks hold in every state: all blocks are there
\* if the process closed the archive or called exit, and also, in the file that
\* has no name, if it ended between LFile_Remove and LFile_Rename; if it was
\* killed with words of a call in its buffer, those in front of the place of
\* that call.
THEOREM ArchiveHasItsBlocks == ArchiveSpec => [](ArchiveTypeOK /\ ArchiveKeepsBlocks)
<1>1. ArchiveInit => ArchiveInv
  BY ArchiveInvInit
<1>2. ArchiveInv /\ [ArchiveNext]_archiveVars => ArchiveInv'
  BY ArchiveInvInductive
<1>3. ArchiveInv => ArchiveTypeOK /\ ArchiveKeepsBlocks
  BY ArchiveInvImplies DEF ArchiveInv
<1>. QED BY <1>1, <1>2, <1>3, PTL DEF ArchiveSpec

----------------------------------------------------------------------------
\* Positions in a circular array of n items.
LEMMA CircularPositions ==
  ASSUME NEW n \in Nat, n > 0
  PROVE  /\ \A x \in 0 .. n - 1 : x % n = x
         /\ \A x \in n .. 2 * n - 1 : x % n = x - n
         /\ \A x \in 1 - n .. -1 : x % n = x + n
OBVIOUS

QueueCells == QueueItems \cup {Unset}

\* How many items a queue has, and where in the array the k-th of them is.
Used(n, front, rear) == IF front < rear THEN front - rear + n ELSE front - rear
PlaceOf(n, rear, k) == IF rear + k - 1 < n THEN rear + k - 1 ELSE rear + k - 1 - n

\* Queued, of an array and two places in it.
QueuedIn(a, front, rear) ==
  [k \in 1 .. (front - rear) % Len(a) |-> a[((rear + k - 1) % Len(a)) + 1]]

\* The items of a queue, without the remainders.
LEMMA QueuedItems ==
  ASSUME NEW a \in Seq(QueueCells), NEW front \in 0 .. Len(a) - 1, NEW rear \in 0 .. Len(a) - 1
  PROVE  /\ QueuedIn(a, front, rear) \in Seq(QueueCells)
         /\ Len(QueuedIn(a, front, rear)) = Used(Len(a), front, rear)
         /\ Used(Len(a), front, rear) \in 0 .. Len(a) - 1
         /\ \A k \in 1 .. Used(Len(a), front, rear) :
              /\ PlaceOf(Len(a), rear, k) \in 0 .. Len(a) - 1
              /\ QueuedIn(a, front, rear)[k] = a[PlaceOf(Len(a), rear, k) + 1]
<1>. DEFINE n == Len(a)
            c == Used(n, front, rear)
            q == QueuedIn(a, front, rear)
<1>1. n \in Nat /\ n > 0 /\ front \in 0 .. n - 1 /\ rear \in 0 .. n - 1
  OBVIOUS
<1>. HIDE DEF n
<1>2. c \in 0 .. n - 1 /\ (front - rear) % n = c
  <2>1. CASE front < rear
    <3>1. front - rear \in 1 - n .. -1
      BY <1>1, <2>1
    <3>2. (front - rear) % n = front - rear + n
      BY <1>1, <3>1, CircularPositions
    <3>. QED BY <1>1, <2>1, <3>2 DEF Used
  <2>2. CASE ~ (front < rear)
    <3>1. front - rear \in 0 .. n - 1
      BY <1>1, <2>2
    <3>2. (front - rear) % n = front - rear
      BY <1>1, <3>1, CircularPositions
    <3>. QED BY <1>1, <2>2, <3>1, <3>2 DEF Used
  <2>. QED BY <2>1, <2>2
<1>. HIDE DEF c
<1>3. ASSUME NEW k \in 1 .. c
      PROVE  PlaceOf(n, rear, k) \in 0 .. n - 1 /\ (rear + k - 1) % n = PlaceOf(n, rear, k)
  <2>1. CASE rear + k - 1 < n
    <3>1. rear + k - 1 \in 0 .. n - 1
      BY <1>1, <1>2, <2>1
    <3>2. (rear + k - 1) % n = rear + k - 1
      BY <1>1, <3>1, CircularPositions
    <3>. QED BY <2>1, <3>1, <3>2 DEF PlaceOf
  <2>2. CASE ~ (rear + k - 1 < n)
    <3>1. rear + k - 1 \in n .. 2 * n - 1 /\ rear + k - 1 - n \in 0 .. n - 1
      BY <1>1, <1>2, <2>2
    <3>2. (rear + k - 1) % n = rear + k - 1 - n
      BY <1>1, <3>1, CircularPositions
    <3>. QED BY <2>2, <3>1, <3>2 DEF PlaceOf
  <2>. QED BY <2>1, <2>2
<1>4. q = [k \in 1 .. c |-> a[((rear + k - 1) % n) + 1]]
  BY <1>2 DEF QueuedIn, n
<1>5. \A k \in 1 .. c : a[((rear + k - 1) % n) + 1] = a[PlaceOf(n, rear, k) + 1] /\ a[PlaceOf(n, rear, k) + 1] \in QueueCells
  <2>. TAKE k \in 1 .. c
  <2>. DEFINE p == PlaceOf(n, rear, k)
  <2>1. p \in 0 .. n - 1 /\ (rear + k - 1) % n = p
    BY <1>3
  <2>. HIDE DEF p
  <2>2. p + 1 \in 1 .. Len(a)
    BY <2>1 DEF n
  <2>. QED BY <2>1, <2>2 DEF p
<1>. HIDE DEF q
<1>6. q \in [1 .. c -> QueueCells]
  BY <1>4, <1>5
<1>7. c \in Nat
  BY <1>1, <1>2
<1>8. q \in Seq(QueueCells)
  BY <1>6, <1>7, IsASeq
<1>9. Len(q) = c
  <2>1. DOMAIN q = 1 .. c
    BY <1>6
  <2>. QED BY <1>7, <1>8, <2>1, LenProperties
<1>. QED BY <1>2, <1>3, <1>4, <1>5, <1>8, <1>9 DEF n, c, q

\* LArray_ResizeBy, by so many new items.
LEMMA ResizedItems ==
  ASSUME NEW a \in Seq(QueueCells), NEW d \in Nat
  PROVE  /\ ResizedBy(a, d) \in Seq(QueueCells) /\ Len(ResizedBy(a, d)) = Len(a) + d
         /\ \A i \in 1 .. Len(a) : ResizedBy(a, d)[i] = a[i]
<1>. DEFINE new == [i \in 1 .. d |-> Unset]
<1>1. new \in [1 .. d -> QueueCells]
  BY DEF QueueCells
<1>2. new \in Seq(QueueCells)
  BY <1>1, IsASeq
<1>3. Len(new) = d
  BY <1>1, <1>2, LenProperties
<1>4. ResizedBy(a, d) = a \o new
  BY DEF ResizedBy
<1>. HIDE DEF new
<1>5. /\ a \o new \in Seq(QueueCells) /\ Len(a \o new) = Len(a) + Len(new)
      /\ \A i \in 1 .. Len(a) : (a \o new)[i] = a[i]
  BY <1>2, ConcatItems
<1>. QED BY <1>3, <1>4, <1>5

QueueInv == QueueTypeOK

\* LQueue_New makes an array that has nothing in it yet.
LEMMA QueueInvInit == QueueInit => QueueInv
<1>. SUFFICES ASSUME QueueInit PROVE QueueTypeOK
  BY DEF QueueInv
<1>1. QueueInitSize \in Nat /\ QueueInitSize > 0
  BY QueueAssumption
<1>. DEFINE none == <<>>
            size == QueueInitSize
<1>2. none \in Seq(QueueCells) /\ Len(none) = 0 /\ size \in Nat /\ mQueueArray = ResizedBy(none, size)
  BY <1>1 DEF QueueInit
<1>3. mQueueArray \in Seq(QueueCells) /\ Len(mQueueArray) = QueueInitSize
  <2>. HIDE DEF none, size
  <2>1. none \in Seq(QueueCells) /\ size \in Nat
    BY <1>2
  <2>2. ResizedBy(none, size) \in Seq(QueueCells) /\ Len(ResizedBy(none, size)) = Len(none) + size
    BY <2>1, ResizedItems
  <2>. QED BY <1>2, <2>2 DEF size
<1>. QED BY <1>1, <1>3 DEF QueueInit, QueueTypeOK, ItemsCount, QueueCells

\* _Dequeue takes the oldest item.
LEMMA DequeueTakesFirst ==
  ASSUME QueueInv, Dequeue
  PROVE  QueueInv' /\ Queued # <<>> /\ Queued' = Tail(Queued)
<1>. DEFINE n == Len(mQueueArray)
            c == Used(n, mFront, mRear)
            c2 == Used(n, mFront, mRear')
            q == Queued
            q2 == Queued'
<1>1. /\ mQueueArray \in Seq(QueueCells) /\ n \in Nat /\ mFront \in 0 .. n - 1 /\ mRear \in 0 .. n - 1
      /\ mFront # mRear /\ mRear' = (mRear + 1) % n /\ n > 0
      /\ UNCHANGED <<mQueueArray, mFront, mDataCurrent>> /\ mDataCurrent \in BOOLEAN
  BY DEF QueueInv, QueueTypeOK, Dequeue, ItemsCount, QueueCells
<1>. HIDE DEF n
<1>2. /\ mRear + 1 < n => mRear' = mRear + 1
      /\ mRear + 1 >= n => mRear' = 0 /\ mRear + 1 = n
  <2>1. CASE mRear + 1 < n
    <3>1. mRear + 1 \in 0 .. n - 1
      BY <1>1, <2>1
    <3>. QED BY <1>1, <2>1, <3>1, CircularPositions
  <2>2. CASE mRear + 1 >= n
    <3>1. mRear + 1 \in n .. 2 * n - 1 /\ mRear + 1 = n
      BY <1>1, <2>2
    <3>. QED BY <1>1, <2>2, <3>1, CircularPositions
  <2>. QED BY <1>1, <2>1, <2>2
<1>3. mRear' \in 0 .. n - 1
  BY <1>1, <1>2
<1>4. QueueInv'
  <2>1. Len(mQueueArray') = n
    BY <1>1 DEF n
  <2>. QED BY <1>1, <1>3, <2>1 DEF QueueInv, QueueTypeOK, ItemsCount, QueueCells
<1>. HIDE DEF c, c2
<1>5. /\ q \in Seq(QueueCells) /\ Len(q) = c /\ c \in 0 .. n - 1
      /\ \A k \in 1 .. c : q[k] = mQueueArray[PlaceOf(n, mRear, k) + 1]
  <2>1. q = QueuedIn(mQueueArray, mFront, mRear)
    BY DEF Queued, QueuedIn, ItemsCount, ItemAt
  <2>. HIDE DEF q
  <2>. QED BY <1>1, <2>1, QueuedItems DEF n, c
<1>6. /\ q2 \in Seq(QueueCells) /\ Len(q2) = c2 /\ c2 \in 0 .. n - 1
      /\ \A k \in 1 .. c2 : q2[k] = mQueueArray[PlaceOf(n, mRear', k) + 1]
  <2>1. q2 = QueuedIn(mQueueArray, mFront, mRear')
    BY <1>1 DEF Queued, QueuedIn, ItemsCount, ItemAt
  <2>. HIDE DEF q2
  <2>. QED BY <1>1, <1>3, <2>1, QueuedItems DEF n, c2
<1>7. c > 0 /\ c2 = c - 1
  BY <1>1, <1>2 DEF Used, c, c2
<1>8. \A k \in 1 .. c2 : PlaceOf(n, mRear', k) = PlaceOf(n, mRear, k + 1) /\ k + 1 \in 1 .. c
  <2>. TAKE k \in 1 .. c2
  <2>1. k \in Nat /\ k <= c2
    BY <1>6
  <2>2. k + 1 \in 1 .. c
    BY <1>5, <1>7, <2>1
  <2>. QED BY <1>1, <1>2, <1>5, <2>1, <2>2 DEF PlaceOf
<1>. HIDE DEF q, q2
<1>9. \A k \in 1 .. c2 : q2[k] = q[k + 1]
  BY <1>5, <1>6, <1>8
<1>10. q # <<>> /\ Tail(q) \in Seq(QueueCells) /\ Len(Tail(q)) = c - 1
       /\ \A k \in 1 .. c - 1 : Tail(q)[k] = q[k + 1]
  <2>1. q # <<>>
    BY <1>5, <1>7
  <2>. QED BY <1>5, <1>7, <2>1, HeadTailProperties
<1>11. q2 = Tail(q)
  BY <1>6, <1>7, <1>9, <1>10, SeqEqual
<1>. QED BY <1>4, <1>10, <1>11 DEF q, q2

\* _Enqueue doubles a full array: the queue is the same in the new one, and its
\* items do not go around the end of it.
LEMMA DoubledItems ==
  ASSUME NEW a \in Seq(QueueCells), NEW front \in 0 .. Len(a) - 1, NEW rear \in 0 .. Len(a) - 1,
         rear = front + 1 \/ (rear = 0 /\ front = Len(a) - 1),
         NEW front2, front2 = IF front < rear THEN front + Len(a) ELSE front
  PROVE  LET b == Doubled(a, front, rear) IN
         /\ b \in Seq(QueueCells) /\ Len(b) = 2 * Len(a)
         /\ front2 \in 0 .. Len(b) - 2
         /\ Used(Len(b), front2, rear) = Used(Len(a), front, rear)
         /\ front2 = rear + Used(Len(a), front, rear)
         /\ \A k \in 1 .. Used(Len(a), front, rear) : b[rear + k] = a[PlaceOf(Len(a), rear, k) + 1]
<1>. DEFINE n == Len(a)
            twice == ResizedBy(a, n)
            b == Doubled(a, front, rear)
            c == Used(n, front, rear)
<1>1. n \in Nat /\ n > 0 /\ front \in 0 .. n - 1 /\ rear \in 0 .. n - 1
      /\ (rear = front + 1 \/ (rear = 0 /\ front = n - 1))
  OBVIOUS
<1>2. twice \in Seq(QueueCells) /\ Len(twice) = 2 * n /\ \A i \in 1 .. n : twice[i] = a[i]
  <2>1. n \in Nat
    BY <1>1
  <2>2. n = Len(a)
    OBVIOUS
  <2>. HIDE DEF n
  <2>3. /\ ResizedBy(a, n) \in Seq(QueueCells) /\ Len(ResizedBy(a, n)) = Len(a) + n
        /\ \A i \in 1 .. Len(a) : ResizedBy(a, n)[i] = a[i]
    BY <2>1, ResizedItems
  <2>4. Len(a) + n = 2 * n
    BY <2>1, <2>2
  <2>. QED BY <2>2, <2>3, <2>4
<1>3. b = IF front < rear
          THEN [i \in 1 .. 2 * n |-> IF i \in n + 1 .. n + front THEN a[i - n] ELSE twice[i]]
          ELSE twice
  BY DEF Doubled
<1>4. \A i \in 1 .. n : a[i] \in QueueCells
  OBVIOUS
<1>. HIDE DEF n, twice, b
<1>5. CASE front < rear
  <2>1. rear = front + 1 /\ c = n - 1 /\ front2 = front + n
    BY <1>1, <1>5 DEF Used, n
  <2>2. b = [i \in 1 .. 2 * n |-> IF i \in n + 1 .. n + front THEN a[i - n] ELSE twice[i]]
    BY <1>3, <1>5
  <2>3. \A i \in 1 .. 2 * n : (IF i \in n + 1 .. n + front THEN a[i - n] ELSE twice[i]) \in QueueCells
    <3>. TAKE i \in 1 .. 2 * n
    <3>1. ASSUME i \in n + 1 .. n + front PROVE a[i - n] \in QueueCells
      <4>1. i - n \in 1 .. n
        BY <1>1, <3>1
      <4>. QED BY <1>4, <4>1
    <3>2. twice[i] \in QueueCells
      BY <1>1, <1>2
    <3>. QED BY <3>1, <3>2
  <2>4. b \in [1 .. 2 * n -> QueueCells] /\ 2 * n \in Nat
    BY <1>1, <2>2, <2>3
  <2>5. b \in Seq(QueueCells)
    BY <2>4, IsASeq
  <2>6. Len(b) = 2 * n
    BY <2>4, <2>5, LenProperties
  <2>7. front2 \in 0 .. 2 * n - 2 /\ Used(2 * n, front2, rear) = c /\ front2 = rear + c
    BY <1>1, <1>5, <2>1 DEF Used
  <2>8. ASSUME NEW k \in 1 .. c PROVE b[rear + k] = a[PlaceOf(n, rear, k) + 1]
    <3>1. CASE rear + k - 1 < n
      <4>1. rear + k \in 1 .. n /\ rear + k \in 1 .. 2 * n /\ rear + k \notin n + 1 .. n + front
            /\ PlaceOf(n, rear, k) + 1 = rear + k
        BY <1>1, <2>1, <3>1 DEF PlaceOf
      <4>. QED BY <1>2, <2>2, <4>1
    <3>2. CASE ~ (rear + k - 1 < n)
      <4>1. rear + k \in 1 .. 2 * n /\ rear + k \in n + 1 .. n + front
            /\ PlaceOf(n, rear, k) + 1 = (rear + k) - n
        BY <1>1, <2>1, <3>2 DEF PlaceOf
      <4>. QED BY <2>2, <4>1
    <3>. QED BY <3>1, <3>2
  <2>. QED BY <2>5, <2>6, <2>7, <2>8 DEF n, b
<1>6. CASE ~ (front < rear)
  <2>1. rear = 0 /\ front = n - 1 /\ c = n - 1 /\ front2 = front /\ b = twice
    BY <1>1, <1>3, <1>6 DEF Used
  <2>2. front2 \in 0 .. 2 * n - 2 /\ Used(2 * n, front2, rear) = c /\ front2 = rear + c
    <3>1. front2 = n - 1 /\ rear = 0 /\ c = n - 1 /\ ~ (front2 < rear)
      BY <1>1, <2>1
    <3>2. Used(2 * n, front2, rear) = front2 - rear
      BY <3>1 DEF Used
    <3>. HIDE DEF c
    <3>. QED BY <1>1, <3>1, <3>2
  <2>3. ASSUME NEW k \in 1 .. c PROVE b[rear + k] = a[PlaceOf(n, rear, k) + 1]
    <3>1. rear + k \in 1 .. n /\ PlaceOf(n, rear, k) + 1 = rear + k
      BY <1>1, <2>1 DEF PlaceOf
    <3>. QED BY <1>2, <2>1, <3>1
  <2>. QED BY <1>2, <2>1, <2>2, <2>3 DEF n, b
<1>. QED BY <1>5, <1>6

\* An item is put where the queue ends, and the queue is not full.
LEMMA PutItem ==
  ASSUME NEW a \in Seq(QueueCells), NEW front \in 0 .. Len(a) - 1, NEW rear \in 0 .. Len(a) - 1,
         (front + 1) % Len(a) # rear, NEW item \in QueueCells
  PROVE  LET a2 == [a EXCEPT ![front + 1] = item]
             front2 == (front + 1) % Len(a)
         IN  /\ a2 \in Seq(QueueCells) /\ Len(a2) = Len(a) /\ front2 \in 0 .. Len(a) - 1
             /\ QueuedIn(a2, front2, rear) = Append(QueuedIn(a, front, rear), item)
<1>. DEFINE n == Len(a)
            a2 == [a EXCEPT ![front + 1] = item]
            front2 == (front + 1) % n
            c == Used(n, front, rear)
            c2 == Used(n, front2, rear)
            q == QueuedIn(a, front, rear)
            q2 == QueuedIn(a2, front2, rear)
            qa == Append(q, item)
<1>1. n \in Nat /\ n > 0 /\ front \in 0 .. n - 1 /\ rear \in 0 .. n - 1 /\ front2 # rear
      /\ front + 1 \in 1 .. n
  OBVIOUS
<1>2. a2 \in Seq(QueueCells) /\ Len(a2) = n /\ a2[front + 1] = item
      /\ \A i \in 1 .. n : i # front + 1 => a2[i] = a[i]
  BY <1>1
<1>3. /\ q \in Seq(QueueCells) /\ Len(q) = c /\ c \in 0 .. n - 1
      /\ \A k \in 1 .. c : PlaceOf(n, rear, k) \in 0 .. n - 1 /\ q[k] = a[PlaceOf(n, rear, k) + 1]
  BY QueuedItems
<1>. HIDE DEF n, a2
<1>4. /\ front + 1 < n => front2 = front + 1
      /\ front + 1 >= n => front2 = 0 /\ front + 1 = n
  <2>1. CASE front + 1 < n
    <3>1. front + 1 \in 0 .. n - 1
      BY <1>1, <2>1
    <3>. QED BY <1>1, <2>1, <3>1, CircularPositions
  <2>2. CASE front + 1 >= n
    <3>1. front + 1 \in n .. 2 * n - 1 /\ front + 1 = n
      BY <1>1, <2>2
    <3>. QED BY <1>1, <2>2, <3>1, CircularPositions
  <2>. QED BY <1>1, <2>1, <2>2
<1>. HIDE DEF front2
<1>5. front2 \in 0 .. n - 1
  BY <1>1, <1>4
<1>6. /\ q2 \in Seq(QueueCells) /\ Len(q2) = c2
      /\ \A k \in 1 .. c2 : q2[k] = a2[PlaceOf(n, rear, k) + 1]
  <2>1. a2 \in Seq(QueueCells)
    BY <1>2
  <2>2. Len(a2) = n
    BY <1>2
  <2>3. front2 \in 0 .. Len(a2) - 1 /\ rear \in 0 .. Len(a2) - 1
    BY <1>1, <1>5, <2>2
  <2>. QED BY <2>1, <2>2, <2>3, QueuedItems
<1>7. c2 = c + 1
  BY <1>1, <1>4 DEF Used
<1>8. PlaceOf(n, rear, c + 1) = front
  BY <1>1, <1>4 DEF Used, PlaceOf
<1>9. \A k \in 1 .. c : PlaceOf(n, rear, k) # front
  BY <1>1, <1>4 DEF Used, PlaceOf
<1>. HIDE DEF c, c2, q, q2
<1>10. qa \in Seq(QueueCells) /\ Len(qa) = c + 1 /\ (\A k \in 1 .. c : qa[k] = q[k]) /\ qa[c + 1] = item
  BY <1>3, AppendProperties
<1>11. ASSUME NEW k \in 1 .. c + 1 PROVE q2[k] = qa[k]
  <2>1. CASE k = c + 1
    BY <1>2, <1>3, <1>6, <1>7, <1>8, <1>10, <2>1
  <2>2. CASE k # c + 1
    <3>1. k \in 1 .. c /\ k \in 1 .. c2
      BY <1>3, <1>7, <2>2
    <3>. DEFINE p == PlaceOf(n, rear, k)
    <3>2. p \in 0 .. n - 1 /\ p # front /\ q[k] = a[p + 1] /\ q2[k] = a2[p + 1]
      BY <1>3, <1>6, <1>9, <3>1
    <3>. HIDE DEF p
    <3>3. p + 1 \in 1 .. n /\ p + 1 # front + 1
      BY <1>1, <3>2
    <3>. QED BY <1>2, <1>10, <3>1, <3>2, <3>3
  <2>. QED BY <2>1, <2>2
<1>. HIDE DEF qa
<1>12. q2 = qa
  BY <1>3, <1>6, <1>7, <1>10, <1>11, SeqEqual
<1>. QED BY <1>2, <1>5, <1>12 DEF n, a2, front2, q, q2, qa

\* _Enqueue puts its item behind the newest.
LEMMA EnqueueAppends ==
  ASSUME QueueInv, NEW item \in QueueItems, Enqueue(item)
  PROVE  QueueInv' /\ Queued' = Append(Queued, item)
<1>. DEFINE n == Len(mQueueArray)
            full == (mFront + 1) % n = mRear
            a == IF full THEN Doubled(mQueueArray, mFront, mRear) ELSE mQueueArray
            front == IF full /\ mFront < mRear THEN mFront + n ELSE mFront
            rear == mRear
            q == QueuedIn(mQueueArray, mFront, mRear)
<1>1. /\ mQueueArray \in Seq(QueueCells) /\ n \in Nat /\ mFront \in 0 .. n - 1 /\ rear \in 0 .. n - 1 /\ n > 0
      /\ mQueueArray' = [a EXCEPT ![front + 1] = item]
      /\ mFront' = (front + 1) % Len(a)
      /\ mRear' = mRear /\ mDataCurrent' \in BOOLEAN
  <2>1. /\ mQueueArray \in Seq(QueueCells) /\ n \in Nat /\ mFront \in 0 .. n - 1 /\ rear \in 0 .. n - 1
        /\ mDataCurrent \in BOOLEAN
    BY DEF QueueInv, QueueTypeOK, ItemsCount, QueueCells
  <2>2. n > 0
    <3>. HIDE DEF n
    <3>. QED BY <2>1
  <2>3. /\ mQueueArray' = [a EXCEPT ![front + 1] = item]
        /\ mFront' = (front + 1) % Len(a) /\ mRear' = mRear
    BY DEF Enqueue, ItemsCount
  <2>4. mDataCurrent' \in BOOLEAN
    <3>1. mDataCurrent' = mDataCurrent \/ \E moves \in ReallocMoves : mDataCurrent' = ~moves
      BY DEF Enqueue
    <3>. QED BY <2>1, <3>1, QueueAssumption
  <2>. QED BY <2>1, <2>2, <2>3, <2>4
<1>2. item \in QueueCells
  BY DEF QueueCells
<1>. HIDE DEF n
<1>3. /\ a \in Seq(QueueCells) /\ front \in 0 .. Len(a) - 1 /\ rear \in 0 .. Len(a) - 1
      /\ (front + 1) % Len(a) # rear /\ QueuedIn(a, front, rear) = q
  <2>1. CASE ~ full
    BY <1>1, <2>1 DEF n
  <2>2. CASE full
    <3>1. rear = mFront + 1 \/ (rear = 0 /\ mFront = n - 1)
      <4>1. CASE mFront + 1 < n
        <5>1. mFront + 1 \in 0 .. n - 1
          BY <1>1, <4>1
        <5>. QED BY <1>1, <2>2, <5>1, CircularPositions
      <4>2. CASE ~ (mFront + 1 < n)
        <5>1. mFront + 1 \in n .. 2 * n - 1 /\ mFront + 1 - n = 0
          BY <1>1, <4>2
        <5>2. (mFront + 1) % n = mFront + 1 - n
          BY <1>1, <5>1, CircularPositions
        <5>. QED BY <1>1, <2>2, <5>1, <5>2
      <4>. QED BY <4>1, <4>2
    <3>. DEFINE c == Used(n, mFront, mRear)
                b == Doubled(mQueueArray, mFront, mRear)
    <3>2. front = (IF mFront < rear THEN mFront + Len(mQueueArray) ELSE mFront) /\ a = b
      BY <2>2 DEF n
    <3>. HIDE DEF front, a
    <3>3. /\ b \in Seq(QueueCells) /\ Len(b) = 2 * n /\ front \in 0 .. Len(b) - 2
          /\ Used(Len(b), front, rear) = c /\ front = rear + c
          /\ \A k \in 1 .. c : b[rear + k] = mQueueArray[PlaceOf(n, rear, k) + 1]
      BY <1>1, <3>1, <3>2, DoubledItems DEF n
    <3>4. /\ q \in Seq(QueueCells) /\ Len(q) = c /\ c \in 0 .. n - 1
          /\ \A k \in 1 .. c : q[k] = mQueueArray[PlaceOf(n, rear, k) + 1]
      BY <1>1, QueuedItems DEF n
    <3>. HIDE DEF b, c
    <3>5. front \in 0 .. Len(b) - 1 /\ rear \in 0 .. Len(b) - 1 /\ front + 1 \in 0 .. Len(b) - 1
          /\ front + 1 # rear /\ Len(b) \in Nat /\ Len(b) > 0
      <4>1. n \in Nat /\ rear \in 0 .. n - 1
        BY <1>1
      <4>2. Len(b) = 2 * n /\ front = rear + c /\ front \in 0 .. Len(b) - 2
        BY <3>3
      <4>3. c \in 0 .. n - 1
        BY <3>4
      <4>4. n > 0 /\ Len(b) \in Nat /\ Len(b) > 0 /\ Len(b) >= n
        BY <4>1, <4>2
      <4>. HIDE DEF rear
      <4>5. front + 1 # rear
        BY <4>1, <4>2, <4>3
      <4>. QED BY <4>1, <4>2, <4>4, <4>5
    <3>6. (front + 1) % Len(b) # rear
      BY <3>5, CircularPositions
    <3>. DEFINE q2 == QueuedIn(b, front, rear)
    <3>7. /\ q2 \in Seq(QueueCells) /\ Len(q2) = c
          /\ \A k \in 1 .. c : q2[k] = b[PlaceOf(Len(b), rear, k) + 1]
      <4>1. b \in Seq(QueueCells)
        BY <3>3
      <4>. QED BY <3>3, <3>5, <4>1, QueuedItems
    <3>8. \A k \in 1 .. c : PlaceOf(Len(b), rear, k) + 1 = rear + k
      BY <1>1, <3>3, <3>4, <3>5 DEF PlaceOf
    <3>9. \A k \in 1 .. c : q2[k] = q[k]
      BY <3>3, <3>4, <3>7, <3>8
    <3>. HIDE DEF q, q2
    <3>10. q2 = q
      BY <3>4, <3>7, <3>9, SeqEqual
    <3>. QED BY <3>2, <3>3, <3>5, <3>6, <3>10 DEF q2
  <2>. QED BY <2>1, <2>2
<1>4. Queued = q
  BY DEF Queued, QueuedIn, ItemsCount, ItemAt
<1>. HIDE DEF a, front, q
<1>5. /\ mQueueArray' \in Seq(QueueCells) /\ Len(mQueueArray') = Len(a) /\ mFront' \in 0 .. Len(a) - 1
      /\ QueuedIn(mQueueArray', mFront', mRear') = Append(q, item)
  <2>1. a \in Seq(QueueCells)
    BY <1>3
  <2>2. front \in 0 .. Len(a) - 1 /\ rear \in 0 .. Len(a) - 1 /\ (front + 1) % Len(a) # rear
    BY <1>3
  <2>. QED BY <1>1, <1>2, <1>3, <2>1, <2>2, PutItem
<1>6. QueueInv'
  BY <1>1, <1>3, <1>5 DEF QueueInv, QueueTypeOK, ItemsCount, QueueCells
<1>7. Queued' = QueuedIn(mQueueArray', mFront', mRear')
  BY DEF Queued, QueuedIn, ItemsCount, ItemAt
<1>. QED BY <1>4, <1>5, <1>6, <1>7

\* What IsQueue says of a step.
QueueStep ==
  \/ \E item \in QueueItems : Queued' = Append(Queued, item)
  \/ Queued # <<>> /\ Queued' = Tail(Queued)

\* Each call keeps the array and is one of a queue.
LEMMA QueueCallKeeps ==
  ASSUME QueueInv, [QueueNext]_queueVars
  PROVE  QueueInv' /\ [QueueStep]_queueVars
<1>1. CASE Dequeue
  BY <1>1, DequeueTakesFirst DEF QueueStep
<1>2. ASSUME NEW item \in QueueItems, Enqueue(item) PROVE QueueInv' /\ [QueueStep]_queueVars
  BY <1>2, EnqueueAppends DEF QueueStep
<1>3. CASE UNCHANGED queueVars
  BY <1>3 DEF queueVars, QueueInv, QueueTypeOK, ItemsCount
<1>. QED BY <1>1, <1>2, <1>3 DEF QueueNext

\* LQueue is a queue, for every size it begins with, through every doubling.
THEOREM CircularArrayIsQueue == QueueSpec => IsQueue
<1>1. QueueSpec => [][QueueStep]_queueVars
  BY QueueCallKeeps, QueueInvInit, PTL DEF QueueSpec
<1>. QED BY <1>1 DEF IsQueue, QueueStep

-----------------------------------------------------------------------------
(* LHeap.                                                                  *)

\* A set of numbers is all of them if it has each that all smaller ones lead to.
LEMMA NatInductionBySets ==
  ASSUME NEW S \in SUBSET Nat,
         \A n \in Nat : (\A m \in 0 .. n - 1 : m \in S) => n \in S
  PROVE  S = Nat
<1>1. SUFFICES ASSUME Nat \ S # {} PROVE FALSE
  OBVIOUS
<1>2. PICK n \in Nat \ S : \A m \in Nat \ S : n <= m
  BY <1>1, NatHasLeast
<1>3. \A m \in 0 .. n - 1 : m \in S
  BY <1>2
<1>4. QED
  BY <1>2, <1>3

\* A bounded nonempty set of numbers has a greatest element.
LEMMA NatHasGreatest ==
  ASSUME NEW S \in SUBSET Nat, S # {}, NEW b \in Nat, \A s \in S : s <= b
  PROVE  Max(S) \in S /\ \A s \in S : s <= Max(S)
<1> DEFINE U == {b - s : s \in S}
<1>1. U \in SUBSET Nat /\ U # {}
  <2>1. \A s \in S : b - s \in Nat
    OBVIOUS
  <2>2. QED
    BY <2>1
<1>2. PICK u \in U : \A v \in U : u <= v
  BY <1>1, NatHasLeast
<1>3. PICK x \in S : u = b - x
  BY <1>2
<1>4. \A y \in S : x >= y
  <2>1. TAKE y \in S
  <2>2. b - y \in U
    OBVIOUS
  <2>3. b - x <= b - y
    BY <1>2, <1>3, <2>2
  <2>4. QED
    BY <2>3
<1>5. QED
  BY <1>3, <1>4 DEF Max

(* The way up from a position. *)

\* A set that has i and half of each of its numbers.
Halved(S, i) == i \in S /\ \A b \in S : b > 1 => b \div 2 \in S

\* The recursion has a solution, and Way is it.
LEMMA WayDef ==
  \A i \in Nat : Way[i] = IF i = 0 THEN {} ELSE {i} \cup Way[i \div 2]
<1> DEFINE W(i) == {a \in 1 .. i : \A S \in SUBSET Nat : Halved(S, i) => a \in S}
           w == [i \in Nat |-> W(i)]
<1>1. \A i \in Nat : W(i) = IF i = 0 THEN {} ELSE {i} \cup W(i \div 2)
  <2>1. TAKE i \in Nat
  <2>2. CASE i = 0
    BY <2>2
  <2>3. CASE i # 0
    <3>1. i \div 2 \in Nat /\ i \div 2 <= i /\ (i > 1 => i \div 2 >= 1) /\ (i = 1 => i \div 2 = 0) /\ i \in 1 .. i
      BY <2>3
    <3>2. i \in W(i)
      BY <3>1 DEF Halved
    <3>3. W(i \div 2) \subseteq W(i)
      <4>1. SUFFICES ASSUME NEW a \in W(i \div 2), NEW S \in SUBSET Nat, Halved(S, i) PROVE a \in 1 .. i /\ a \in S
        OBVIOUS
      <4>2. a \in 1 .. i \div 2
        OBVIOUS
      <4>3. i > 1
        BY <3>1, <4>2
      <4>4. Halved(S, i \div 2)
        BY <4>1, <4>3 DEF Halved
      <4>5. QED
        BY <3>1, <4>2, <4>4
    <3>4. W(i) \subseteq {i} \cup W(i \div 2)
      <4> DEFINE T == {i} \cup W(i \div 2)
      <4>1. T \in SUBSET Nat
        BY <3>1
      <4>2. \A b \in T : b > 1 => b \div 2 \in T
        <5>1. SUFFICES ASSUME NEW b \in T, b > 1 PROVE b \div 2 \in T
          OBVIOUS
        <5>2. CASE b = i
          <6>1. i \div 2 \in W(i \div 2)
            <7>1. i \div 2 \in 1 .. i \div 2
              BY <3>1, <5>1, <5>2
            <7>2. QED
              BY <7>1 DEF Halved
          <6>2. QED
            BY <5>2, <6>1
        <5>3. CASE b \in W(i \div 2)
          <6>1. b \in 1 .. i \div 2 /\ b \in Nat
            BY <3>1, <5>3
          <6>2. b \div 2 \in 1 .. i \div 2
            BY <3>1, <5>1, <6>1
          <6>3. \A S \in SUBSET Nat : Halved(S, i \div 2) => b \div 2 \in S
            BY <5>1, <5>3 DEF Halved
          <6>4. QED
            BY <6>2, <6>3
        <5>4. QED
          BY <5>2, <5>3
      <4>3. Halved(T, i)
        BY <4>2 DEF Halved
      <4>4. QED
        BY <4>1, <4>3
    <3>5. W(i) = {i} \cup W(i \div 2)
      BY <3>2, <3>3, <3>4
    <3>6. QED
      BY <2>3, <3>5
  <2>4. QED
    BY <2>2, <2>3
<1>2. w = [i \in Nat |-> IF i = 0 THEN {} ELSE {i} \cup w[i \div 2]]
  <2>1. \A i \in Nat : i \div 2 \in Nat
    OBVIOUS
  <2>2. \A i \in Nat : w[i] = W(i) /\ w[i \div 2] = W(i \div 2)
    BY <2>1
  <2> HIDE DEF W
  <2>3. \A i \in Nat : W(i) = IF i = 0 THEN {} ELSE {i} \cup w[i \div 2]
    BY <1>1, <2>2
  <2>4. QED
    BY <2>3
<1> HIDE DEF w
<1>3. Way = [i \in Nat |-> IF i = 0 THEN {} ELSE {i} \cup Way[i \div 2]]
  BY <1>2 DEF Way
<1>4. QED
  BY <1>3

\* One step of the way.
LEMMA WayStep ==
  /\ Way[0] = {}
  /\ \A i \in Nat \ {0} :
       /\ i \div 2 \in Nat /\ i \div 2 \in 0 .. i - 1 /\ i \div 2 < i /\ (i > 1 => i \div 2 > 0)
       /\ Way[i] = {i} \cup Way[i \div 2]
<1>1. Way[0] = {}
  BY WayDef
<1>2. ASSUME NEW i \in Nat \ {0}
      PROVE  /\ i \div 2 \in Nat /\ i \div 2 \in 0 .. i - 1 /\ i \div 2 < i /\ (i > 1 => i \div 2 > 0)
             /\ Way[i] = {i} \cup Way[i \div 2]
  <2>1. i \div 2 \in Nat /\ i \div 2 \in 0 .. i - 1 /\ i \div 2 < i /\ (i > 1 => i \div 2 > 0)
    OBVIOUS
  <2>2. i \in Nat /\ i # 0
    OBVIOUS
  <2>3. Way[i] = {i} \cup Way[i \div 2]
    BY <2>2, WayDef
  <2>4. QED
    BY <2>1, <2>3
<1>3. QED
  BY <1>1, <1>2

\* It goes from i to the root.
LEMMA WayRange ==
  \A i \in Nat : Way[i] \subseteq 1 .. i /\ (i > 0 => i \in Way[i] /\ 1 \in Way[i])
<1> DEFINE P(i) == Way[i] \subseteq 1 .. i /\ (i > 0 => i \in Way[i] /\ 1 \in Way[i])
           S == {i \in Nat : P(i)}
<1>1. ASSUME NEW i \in Nat, \A m \in 0 .. i - 1 : P(m) PROVE P(i)
  <2>1. CASE i = 0
    BY <2>1, WayStep
  <2>2. CASE i # 0
    <3>1. i \div 2 \in 0 .. i - 1 /\ Way[i] = {i} \cup Way[i \div 2]
      BY <2>2, WayStep
    <3>2. P(i \div 2)
      BY <1>1, <3>1
    <3>3. i > 1 => 1 \in Way[i]
      <4>1. i \in Nat \ {0}
        BY <2>2
      <4>2. QED
        BY <3>1, <3>2, <4>1, WayStep
    <3>4. QED
      BY <2>2, <3>1, <3>2, <3>3
  <2>3. QED
    BY <2>1, <2>2
<1> HIDE DEF P
<1>2. \A n \in Nat : (\A m \in 0 .. n - 1 : m \in S) => n \in S
  BY <1>1
<1>3. S = Nat
  BY <1>2, NatInductionBySets
<1>4. QED
  BY <1>3 DEF P

\* From a position on the way the rest of it is the way of that position.
LEMMA WayTransitive ==
  \A c \in Nat : \A b \in Way[c] : b \in Nat /\ Way[b] \subseteq Way[c]
<1> DEFINE P(c) == \A b \in Way[c] : b \in Nat /\ Way[b] \subseteq Way[c]
           S == {c \in Nat : P(c)}
<1>1. ASSUME NEW c \in Nat, \A m \in 0 .. c - 1 : P(m) PROVE P(c)
  <2>1. SUFFICES ASSUME NEW b \in Way[c] PROVE b \in Nat /\ Way[b] \subseteq Way[c]
    OBVIOUS
  <2>2. c # 0 /\ c \div 2 \in 0 .. c - 1 /\ Way[c] = {c} \cup Way[c \div 2]
    <3>1. c # 0
      BY WayStep
    <3>2. QED
      BY <3>1, WayStep
  <2>3. P(c \div 2)
    BY <1>1, <2>2
  <2>4. QED
    BY <2>2, <2>3
<1> HIDE DEF P
<1>2. \A n \in Nat : (\A m \in 0 .. n - 1 : m \in S) => n \in S
  BY <1>1
<1>3. S = Nat
  BY <1>2, NatInductionBySets
<1>4. QED
  BY <1>3 DEF P

\* Of two positions on a way the upper one is on the way of the lower one.
LEMMA WayTotal ==
  \A c \in Nat : \A a, b \in Way[c] : a <= b => a \in Way[b]
<1> DEFINE P(c) == \A a, b \in Way[c] : a <= b => a \in Way[b]
           S == {c \in Nat : P(c)}
<1>1. ASSUME NEW c \in Nat, \A m \in 0 .. c - 1 : P(m) PROVE P(c)
  <2>1. SUFFICES ASSUME NEW a \in Way[c], NEW b \in Way[c], a <= b PROVE a \in Way[b]
    OBVIOUS
  <2>2. c # 0 /\ c \div 2 \in 0 .. c - 1 /\ Way[c] = {c} \cup Way[c \div 2]
    <3>1. c # 0
      BY WayStep
    <3>2. QED
      BY <3>1, WayStep
  <2>3. P(c \div 2)
    BY <1>1, <2>2
  <2>4. CASE b = c
    BY <2>4
  <2>5. CASE b # c
    <3>1. b \in Way[c \div 2]
      BY <2>2, <2>5
    <3>2. b <= c \div 2 /\ b \in Nat /\ c \div 2 \in Nat
      BY <2>2, <3>1, WayRange
    <3>3. a # c
      BY <2>1, <2>2, <3>2
    <3>4. QED
      BY <2>1, <2>2, <2>3, <3>1, <3>3
  <2>6. QED
    BY <2>4, <2>5
<1> HIDE DEF P
<1>2. \A n \in Nat : (\A m \in 0 .. n - 1 : m \in S) => n \in S
  BY <1>1
<1>3. S = Nat
  BY <1>2, NatInductionBySets
<1>4. QED
  BY <1>3 DEF P

\* The parent of a position, seen from one further up.
LEMMA WayParent ==
  ASSUME NEW b \in Nat, NEW a \in Way[b], a # b
  PROVE  b > 1 /\ b \div 2 \in Nat /\ a \in Way[b \div 2] /\ a <= b \div 2 /\ b \div 2 \in Way[b]
<1>1. b # 0
  BY WayStep
<1>2. Way[b] = {b} \cup Way[b \div 2] /\ a \in Way[b \div 2] /\ b \div 2 \in Nat
  BY <1>1, WayStep
<1>3. a \in 1 .. b \div 2
  BY <1>2, WayRange
<1>4. b \div 2 > 0
  BY <1>2, <1>3
<1>5. b \div 2 \in Way[b \div 2]
  BY <1>2, <1>4, WayRange
<1>6. QED
  BY <1>1, <1>2, <1>3, <1>4, <1>5

\* The parent of a position on a way is on it.
LEMMA WayUp ==
  ASSUME NEW b \in Nat, NEW p \in Way[b], p > 1
  PROVE  p \div 2 \in Way[b] /\ p \div 2 \in Nat /\ p \div 2 < p /\ p \div 2 >= 1
<1>1. p \in Nat
  BY WayRange
<1>2. p \div 2 \in Nat /\ p \div 2 < p /\ p \div 2 > 0 /\ Way[p] = {p} \cup Way[p \div 2]
  <2>1. p \in Nat \ {0}
    BY <1>1
  <2>2. QED
    BY <2>1, WayStep
<1>3. p \div 2 \in Way[p]
  BY <1>2, WayRange
<1>4. QED
  BY <1>2, <1>3, WayTransitive

\* The child of a position on the way down to another: there is one.
LEMMA WayChild ==
  \A b \in Nat : \A a \in Way[b] : a # b =>
     /\ \E c \in {2 * a, 2 * a + 1} : c \in Way[b]
     /\ ~(2 * a \in Way[b] /\ 2 * a + 1 \in Way[b])
<1> DEFINE P(b) == \A a \in Way[b] : a # b => \E c \in {2 * a, 2 * a + 1} : c \in Way[b]
           S == {b \in Nat : P(b)}
<1>1. ASSUME NEW b \in Nat, \A m \in 0 .. b - 1 : P(m) PROVE P(b)
  <2>1. SUFFICES ASSUME NEW a \in Way[b], a # b PROVE \E c \in {2 * a, 2 * a + 1} : c \in Way[b]
    OBVIOUS
  <2>2. b > 1 /\ b \div 2 \in 0 .. b - 1 /\ Way[b] = {b} \cup Way[b \div 2] /\ a \in Way[b \div 2] /\ a \in Nat
    <3>1. b > 1 /\ a \in Way[b \div 2]
      BY <2>1, WayParent
    <3>2. b \in Nat \ {0}
      BY <3>1
    <3>3. QED
      BY <3>1, <3>2, WayStep, WayRange
  <2>3. P(b \div 2)
    BY <1>1, <2>2
  <2>4. CASE a = b \div 2
    <3>1. b \in {2 * a, 2 * a + 1}
      BY <2>2, <2>4
    <3>2. QED
      BY <2>2, <3>1
  <2>5. CASE a # b \div 2
    BY <2>2, <2>3, <2>5
  <2>6. QED
    BY <2>4, <2>5
<1> HIDE DEF P
<1>2. \A n \in Nat : (\A m \in 0 .. n - 1 : m \in S) => n \in S
  BY <1>1
<1>3. S = Nat
  BY <1>2, NatInductionBySets
<1>4. ASSUME NEW b \in Nat, NEW a \in Way[b], 2 * a \in Way[b], 2 * a + 1 \in Way[b] PROVE FALSE
  <2>1. a \in Nat /\ a >= 1
    BY WayRange
  <2>2. 2 * a \in Way[2 * a + 1]
    BY <1>4, <2>1, WayTotal
  <2>3. 2 * a + 1 \in Nat /\ (2 * a + 1) \div 2 = a
    BY <2>1
  <2>4. Way[2 * a + 1] = {2 * a + 1} \cup Way[a]
    <3>1. 2 * a + 1 \in Nat \ {0}
      BY <2>1
    <3>2. QED
      BY <2>3, <3>1, WayStep
  <2>5. 2 * a \in 1 .. a
    BY <2>1, <2>2, <2>4, WayRange
  <2>6. QED
    BY <2>1, <2>5
<1>5. QED
  BY <1>3, <1>4 DEF P

-----------------------------------------------------------------------------
(* The positions between one and another below it.                         *)

Chain(a, b)   == {p \in Way[b] : a \in Way[p]}
Toward(p, b)  == CHOOSE c \in {2 * p, 2 * p + 1} : c \in Way[b]

\* Where the item at a position comes from that moves down, and up.
FromAbove(a, b, p) == IF p = a THEN b ELSE IF p \in Chain(a, b) THEN p \div 2 ELSE p
FromBelow(a, b, p) == IF p = b THEN a ELSE IF p \in Chain(a, b) THEN Toward(p, b) ELSE p

\* A chain goes from parent to child.
LEMMA ChainProperties ==
  ASSUME NEW b \in Nat, NEW a \in Way[b]
  PROVE  /\ a \in Nat /\ a >= 1 /\ a <= b /\ a \in Chain(a, b) /\ b \in Chain(a, b)
         /\ \A p \in Chain(a, b) :
              /\ p \in Nat /\ a <= p /\ p <= b
              /\ p # a => p > 1 /\ p \div 2 \in Nat /\ p \div 2 \in Chain(a, b) /\ p \div 2 < p /\ p \div 2 # b
              /\ p # a => Toward(p \div 2, b) = p
              /\ p # b => /\ Toward(p, b) \in Chain(a, b) /\ Toward(p, b) \div 2 = p /\ Toward(p, b) > p
                          /\ Toward(p, b) \in {2 * p, 2 * p + 1}
<1>1. a \in Nat /\ a >= 1 /\ a <= b
  BY WayRange
<1>2. a \in Chain(a, b) /\ b \in Chain(a, b)
  BY <1>1, WayRange DEF Chain
<1>3. ASSUME NEW p \in Chain(a, b) PROVE p \in Way[b] /\ a \in Way[p] /\ p \in Nat /\ a <= p /\ p <= b
  <2>1. p \in Way[b] /\ a \in Way[p]
    BY DEF Chain
  <2>2. p \in Nat /\ p <= b
    BY <2>1, WayRange
  <2>3. QED
    BY <2>1, <2>2, WayRange
<1>4. ASSUME NEW p \in Chain(a, b), p # a
      PROVE  p > 1 /\ p \div 2 \in Nat /\ p \div 2 \in Chain(a, b) /\ p \div 2 < p /\ p \div 2 # b
  <2>1. p \in Way[b] /\ a \in Way[p] /\ p \in Nat /\ p <= b
    BY <1>3
  <2>2. p > 1 /\ p \div 2 \in Nat /\ a \in Way[p \div 2]
    BY <1>4, <2>1, WayParent
  <2>3. p \div 2 \in Way[b] /\ p \div 2 < p
    BY <2>1, <2>2, WayUp
  <2>4. p \div 2 \in Chain(a, b)
    BY <2>2, <2>3 DEF Chain
  <2>5. QED
    BY <2>1, <2>2, <2>3, <2>4
<1>5. ASSUME NEW p \in Chain(a, b), p # b
      PROVE  /\ Toward(p, b) \in Chain(a, b) /\ Toward(p, b) \div 2 = p /\ Toward(p, b) > p
             /\ Toward(p, b) \in {2 * p, 2 * p + 1}
  <2>1. p \in Way[b] /\ a \in Way[p] /\ p \in Nat /\ p >= 1
    BY <1>1, <1>3
  <2>2. \E c \in {2 * p, 2 * p + 1} : c \in Way[b]
    BY <1>5, <2>1, WayChild
  <2>3. Toward(p, b) \in {2 * p, 2 * p + 1} /\ Toward(p, b) \in Way[b]
    BY <2>2 DEF Toward
  <2>4. Toward(p, b) \div 2 = p /\ Toward(p, b) > p /\ Toward(p, b) \in Nat
    BY <2>1, <2>3
  <2>5. Toward(p, b) \in Nat \ {0} /\ p \in Way[p]
    BY <2>1, <2>4, WayRange
  <2>6. Way[Toward(p, b)] = {Toward(p, b)} \cup Way[p]
    BY <2>4, <2>5, WayStep
  <2>7. Toward(p, b) \in Chain(a, b)
    BY <2>1, <2>3, <2>6 DEF Chain
  <2>8. QED
    BY <2>3, <2>4, <2>7
<1>6. ASSUME NEW p \in Chain(a, b), p # a PROVE Toward(p \div 2, b) = p
  <2>1. p \div 2 \in Chain(a, b) /\ p \div 2 # b /\ p \div 2 \in Nat /\ p \in Nat /\ p > 1
    BY <1>3, <1>4, <1>6
  <2>2. p \div 2 \in Way[b] /\ p \in Way[b]
    BY <1>3, <2>1
  <2>3. ~(2 * (p \div 2) \in Way[b] /\ 2 * (p \div 2) + 1 \in Way[b])
    BY <2>1, <2>2, WayChild
  <2>4. p \in {2 * (p \div 2), 2 * (p \div 2) + 1}
    BY <2>1
  <2>5. Toward(p \div 2, b) \in {2 * (p \div 2), 2 * (p \div 2) + 1} /\ Toward(p \div 2, b) \in Way[b]
    BY <2>2, <2>4 DEF Toward
  <2>6. QED
    BY <2>2, <2>3, <2>4, <2>5
<1>7. QED
  BY <1>1, <1>2, <1>3, <1>4, <1>5, <1>6

\* The two moves undo each other.
LEMMA MovesAreInverse ==
  ASSUME NEW b \in Nat, NEW a \in Way[b], NEW p
  PROVE  /\ FromAbove(a, b, FromBelow(a, b, p)) = p
         /\ FromBelow(a, b, FromAbove(a, b, p)) = p
<1> USE ChainProperties
<1>1. a \in Chain(a, b) /\ b \in Chain(a, b) /\ a \in Nat
  OBVIOUS
<1>2. FromAbove(a, b, FromBelow(a, b, p)) = p
  <2>1. CASE p = b
    BY <1>1, <2>1 DEF FromAbove, FromBelow
  <2>2. CASE p # b /\ p \in Chain(a, b)
    <3>1. FromBelow(a, b, p) = Toward(p, b)
      BY <2>2 DEF FromBelow
    <3>2. /\ Toward(p, b) \in Chain(a, b) /\ Toward(p, b) \div 2 = p /\ Toward(p, b) > p
          /\ p \in Nat /\ a <= p
      BY <2>2
    <3>3. Toward(p, b) # a
      BY <1>1, <3>2
    <3>4. QED
      BY <3>1, <3>2, <3>3 DEF FromAbove
  <2>3. CASE p # b /\ p \notin Chain(a, b)
    BY <1>1, <2>3 DEF FromAbove, FromBelow
  <2>4. QED
    BY <2>1, <2>2, <2>3
<1>3. FromBelow(a, b, FromAbove(a, b, p)) = p
  <2>1. CASE p = a
    BY <1>1, <2>1 DEF FromAbove, FromBelow
  <2>2. CASE p # a /\ p \in Chain(a, b)
    <3>1. FromAbove(a, b, p) = p \div 2
      BY <2>2 DEF FromAbove
    <3>2. p \div 2 \in Chain(a, b) /\ p \div 2 # b /\ Toward(p \div 2, b) = p
      BY <2>2
    <3>3. QED
      BY <3>1, <3>2 DEF FromBelow
  <2>3. CASE p # a /\ p \notin Chain(a, b)
    BY <1>1, <2>3 DEF FromAbove, FromBelow
  <2>4. QED
    BY <2>1, <2>2, <2>3
<1>4. QED
  BY <1>2, <1>3

\* Where the item at position p comes from when one goes from i to j.
Source(i, j, p) == IF j \in Way[i] THEN FromAbove(j, i, p) ELSE FromBelow(i, j, p)
Goal(i, j, p)   == IF j \in Way[i] THEN FromBelow(j, i, p) ELSE FromAbove(i, j, p)

\* Positions are exchanged among those that are in the heap.
LEMMA SourceProperties ==
  ASSUME NEW n \in Nat, NEW i \in 1 .. n, NEW j \in 1 .. n, j \in Way[i] \/ i \in Way[j]
  PROVE  \A p : /\ p \in 1 .. n => Source(i, j, p) \in 1 .. n /\ Goal(i, j, p) \in 1 .. n
                /\ Source(i, j, Goal(i, j, p)) = p /\ Goal(i, j, Source(i, j, p)) = p
<1>1. i \in Nat /\ j \in Nat
  OBVIOUS
<1>2. TAKE p
<1>3. ASSUME NEW b \in 1 .. n, NEW a \in Way[b], p \in 1 .. n
      PROVE  FromAbove(a, b, p) \in 1 .. n /\ FromBelow(a, b, p) \in 1 .. n
  <2>1. b \in Nat
    OBVIOUS
  <2>2. a \in Nat /\ a >= 1 /\ a <= b
    BY <2>1, ChainProperties
  <2>3. \A q \in Chain(a, b) : q \in 1 .. n
    <3>1. \A q \in Chain(a, b) : q \in Nat /\ a <= q /\ q <= b
      BY <2>1, ChainProperties
    <3>2. QED
      BY <2>2, <3>1
  <2>4. p \in Chain(a, b) /\ p # a => p \div 2 \in Chain(a, b)
    BY <2>1, ChainProperties
  <2>5. p \in Chain(a, b) /\ p # b => Toward(p, b) \in Chain(a, b)
    BY <2>1, ChainProperties
  <2>6. FromAbove(a, b, p) \in 1 .. n
    BY <1>3, <2>3, <2>4 DEF FromAbove
  <2>7. FromBelow(a, b, p) \in 1 .. n
    BY <1>3, <2>2, <2>3, <2>5 DEF FromBelow
  <2>8. QED
    BY <2>6, <2>7
<1>4. CASE j \in Way[i]
  BY <1>1, <1>3, <1>4, MovesAreInverse DEF Source, Goal
<1>5. CASE j \notin Way[i]
  BY <1>1, <1>3, <1>5, MovesAreInverse DEF Source, Goal
<1>6. QED
  BY <1>4, <1>5

\* The heap after a move is the one with the item in its place, rearranged.
LEMMA ShiftedIs ==
  ASSUME NEW m \in Nat, NEW heap \in [1 .. m -> Nat], NEW slot,
         NEW i \in 1 .. m, NEW j \in 1 .. m, j \in Way[i] \/ i \in Way[j], NEW p \in 1 .. m
  PROVE  Shifted(heap, slot, i, j)[p] = LET q == Source(i, j, p) IN IF q = i THEN slot ELSE heap[q]
<1>1. i \in Nat /\ j \in Nat
  OBVIOUS
<1>2. Shifted(heap, slot, i, j)[p] = LET q == Source(i, j, p) IN IF q = i THEN slot ELSE heap[q]
  <2>0. p \in Nat
    OBVIOUS
  <2>1. CASE p = j
    <3>1. Shifted(heap, slot, i, j)[p] = slot
      BY <2>1 DEF Shifted
    <3>2. Source(i, j, p) = i
      BY <2>1 DEF Source, FromAbove, FromBelow
    <3>3. QED
      BY <3>1, <3>2
  <2>2. CASE p # j /\ j \in Way[p] /\ p \in Way[i]
    <3>1. Shifted(heap, slot, i, j)[p] = heap[p \div 2]
      <4>1. p \notin Way[j]
        BY <1>1, <2>0, <2>2, WayRange
      <4>2. QED
        BY <2>2, <4>1 DEF Shifted
    <3>2. j \in Way[i] /\ p \in Chain(j, i)
      BY <1>1, <2>2, WayTransitive DEF Chain
    <3>3. Source(i, j, p) = p \div 2
      BY <2>2, <3>2 DEF Source, FromAbove
    <3>4. p \div 2 # i
      BY <1>1, <2>2, <3>2, ChainProperties
    <3>5. QED
      BY <3>1, <3>3, <3>4
  <2>3. CASE p # j /\ ~(j \in Way[p] /\ p \in Way[i]) /\ i \in Way[p] /\ p \in Way[j]
    <3>1. Shifted(heap, slot, i, j)[p] = heap[Toward(p, j)]
      BY <2>3 DEF Shifted, Toward
    <3>2. i \in Way[j] /\ p \in Chain(i, j)
      BY <1>1, <2>3, WayTransitive DEF Chain
    <3>3. j \notin Way[i]
      <4>1. SUFFICES ASSUME j \in Way[i] PROVE FALSE
        OBVIOUS
      <4>2. j <= i /\ i <= p /\ p <= j
        BY <1>1, <2>0, <2>3, <4>1, WayRange
      <4>3. QED
        BY <1>1, <2>0, <2>3, <4>2
    <3>4. Source(i, j, p) = Toward(p, j)
      BY <2>3, <3>2, <3>3 DEF Source, FromBelow
    <3>5. Toward(p, j) > p /\ i <= p
      BY <1>1, <2>3, <3>2, ChainProperties
    <3>6. Toward(p, j) # i
      BY <1>1, <2>0, <3>5
    <3>7. QED
      BY <3>1, <3>4, <3>6
  <2>4. CASE p # j /\ ~(j \in Way[p] /\ p \in Way[i]) /\ ~(i \in Way[p] /\ p \in Way[j])
    <3>1. Shifted(heap, slot, i, j)[p] = heap[p]
      BY <2>4 DEF Shifted
    <3>2. p \notin Chain(j, i) /\ p \notin Chain(i, j)
      BY <2>4 DEF Chain
    <3>3. Source(i, j, p) = p
      BY <2>4, <3>2 DEF Source, FromAbove, FromBelow
    <3>4. p # i
      <4>1. i \in Way[i]
        BY <1>1, WayRange
      <4>2. QED
        BY <2>4, <4>1
    <3>5. QED
      BY <3>1, <3>3, <3>4
  <2>5. QED
    BY <2>1, <2>2, <2>3, <2>4
<1>3. QED
  BY <1>2

\* Where nothing moves.
LEMMA StaysPut ==
  ASSUME NEW i \in Nat \ {0}, NEW j \in Nat \ {0}, j \in Way[i] \/ i \in Way[j],
         NEW p, p \notin {q \in Way[i] \cup Way[j] : {i, j} \cap Way[q] # {}}
  PROVE  Source(i, j, p) = p /\ p # i
<1>1. i \in Way[i] /\ j \in Way[j] /\ i \in Nat /\ j \in Nat
  BY WayRange
<1>2. p # i /\ p # j
  BY <1>1
<1>3. p \notin Chain(i, j) /\ p \notin Chain(j, i)
  BY DEF Chain
<1>4. QED
  BY <1>2, <1>3 DEF Source, FromAbove, FromBelow

\* A slot can be put at position i of the first n and go to j: those that are at
\* the other positions know where they are, and the slot is not one of them.
CanMove(m, n, heap, slot, i, j, idx) ==
  /\ m \in Nat /\ n \in 0 .. m /\ heap \in [1 .. m -> Nat] /\ slot \in Nat
  /\ i \in 1 .. n /\ j \in 1 .. n /\ (j \in Way[i] \/ i \in Way[j]) /\ slot \in DOMAIN idx
  /\ \A p \in 1 .. n : p # i => heap[p] \in DOMAIN idx
  /\ \A p \in 1 .. n : p # i => idx[heap[p]] = p
  /\ \A p \in 1 .. n : p # i => heap[p] # slot

\* The heap h after that: no slot is lost, and each is told where it is.
HasMoved(m, n, heap, slot, i, j, idx, h) ==
  /\ h \in [1 .. m -> Nat]
  /\ \A p \in 1 .. n : h[p] = IF Source(i, j, p) = i THEN slot ELSE heap[Source(i, j, p)]
  /\ \A p \in 1 .. n, q \in 1 .. n : h[p] = h[q] => p = q
  /\ {h[p] : p \in 1 .. n} = {slot} \cup {heap[p] : p \in (1 .. n) \ {i}}
  /\ DOMAIN Told(idx, h, i, j) = DOMAIN idx
  /\ \A p \in 1 .. n : Told(idx, h, i, j)[h[p]] = p

\* What Shifted and Told do together.
LEMMA MovedHeap ==
  ASSUME NEW m, NEW n, NEW heap, NEW slot, NEW i, NEW j, NEW idx, CanMove(m, n, heap, slot, i, j, idx)
  PROVE  HasMoved(m, n, heap, slot, i, j, idx, Shifted(heap, slot, i, j))
<1> DEFINE h == Shifted(heap, slot, i, j)
<1>0. /\ m \in Nat /\ n \in 0 .. m /\ heap \in [1 .. m -> Nat] /\ slot \in Nat
      /\ i \in 1 .. n /\ j \in 1 .. n /\ (j \in Way[i] \/ i \in Way[j]) /\ slot \in DOMAIN idx
      /\ \A p \in 1 .. n : p # i => heap[p] \in DOMAIN idx
      /\ \A p \in 1 .. n : p # i => idx[heap[p]] = p
      /\ \A p \in 1 .. n : p # i => heap[p] # slot
  BY DEF CanMove
<1> USE <1>0
<1> DEFINE at(q) == IF q = i THEN slot ELSE heap[q]
<1>1. i \in Nat \ {0} /\ j \in Nat \ {0} /\ i \in Nat /\ j \in Nat /\ i \in 1 .. m /\ j \in 1 .. m /\ DOMAIN heap = 1 .. m
  OBVIOUS
<1>2. \A p \in 1 .. m : h[p] = at(Source(i, j, p)) 
  <2>1. m \in Nat /\ heap \in [1 .. m -> Nat] /\ i \in 1 .. m /\ j \in 1 .. m
    BY <1>1
  <2>2. j \in Way[i] \/ i \in Way[j]
    OBVIOUS
  <2>3. \A p \in 1 .. m : Shifted(heap, slot, i, j)[p] = LET q == Source(i, j, p) IN IF q = i THEN slot ELSE heap[q]
    <3>1. TAKE p \in 1 .. m
    <3>2. QED
      BY <2>1, <2>2, ShiftedIs
  <2>4. QED
    BY <2>3
<1>3. DOMAIN h = 1 .. m /\ h = [p \in 1 .. m |-> h[p]]
  <2>1. DOMAIN h = 1 .. m
    BY <1>1 DEF Shifted
  <2>2. QED
    BY <1>1, <2>1 DEF Shifted
<1>4. \A p \in 1 .. m : Source(i, j, p) \in 1 .. m /\ Goal(i, j, p) \in 1 .. m
  BY <1>1, SourceProperties
<1>5. \A p \in 1 .. n : Source(i, j, p) \in 1 .. n /\ Goal(i, j, p) \in 1 .. n
  <2>1. n \in Nat
    OBVIOUS
  <2>2. QED
    BY <2>1, SourceProperties
<1>6. \A p : Source(i, j, Goal(i, j, p)) = p /\ Goal(i, j, Source(i, j, p)) = p
  BY SourceProperties
<1>7. \A p \in 1 .. m : h[p] \in Nat
  BY <1>2, <1>4
<1>8. h \in [1 .. m -> Nat]
  BY <1>3, <1>7
<1>9. \A p \in 1 .. n : p \in 1 .. m
  OBVIOUS
<1>10. \A p \in 1 .. n : h[p] = at(Source(i, j, p))
  BY <1>2, <1>9
<1>11. \A p \in 1 .. n, q \in 1 .. n : at(p) = at(q) => p = q
  OBVIOUS
<1>12. ASSUME NEW p \in 1 .. n, NEW q \in 1 .. n, h[p] = h[q] PROVE p = q
  <2>1. Source(i, j, p) = Source(i, j, q)
    <3>1. at(Source(i, j, p)) = at(Source(i, j, q))
      BY <1>10, <1>12
    <3>2. Source(i, j, p) \in 1 .. n /\ Source(i, j, q) \in 1 .. n
      BY <1>5
    <3> HIDE DEF at
    <3>3. QED
      BY <1>11, <3>1, <3>2
  <2>2. QED
    BY <1>6, <2>1
<1>13. {h[p] : p \in 1 .. n} = {at(q) : q \in 1 .. n}
  <2> HIDE DEF at
  <2>1. ASSUME NEW p \in 1 .. n PROVE h[p] \in {at(q) : q \in 1 .. n}
    BY <1>5, <1>10
  <2>2. ASSUME NEW q \in 1 .. n PROVE at(q) \in {h[p] : p \in 1 .. n}
    <3>1. Goal(i, j, q) \in 1 .. n /\ Source(i, j, Goal(i, j, q)) = q
      BY <1>5, <1>6
    <3>2. h[Goal(i, j, q)] = at(q)
      BY <1>10, <3>1
    <3>3. QED
      BY <3>1, <3>2
  <2>3. QED
    BY <2>1, <2>2
<1>14. {at(q) : q \in 1 .. n} = {slot} \cup {heap[p] : p \in (1 .. n) \ {i}}
  OBVIOUS
<1> DEFINE moved == {p \in Way[i] \cup Way[j] : {i, j} \cap Way[p] # {}}
           to(s) == {p \in moved : h[p] = s}
<1>15. Told(idx, h, i, j) = [s \in DOMAIN idx |-> IF to(s) = {} THEN idx[s] ELSE CHOOSE p \in to(s) : TRUE]
  BY DEF Told
<1>16. moved \subseteq 1 .. n
  <2>1. Way[i] \subseteq 1 .. i /\ Way[j] \subseteq 1 .. j
    BY <1>1, WayRange
  <2>2. QED
    BY <2>1
<1>17. \A p \in 1 .. n : h[p] \in DOMAIN idx
  BY <1>5, <1>10
<1>18. ASSUME NEW p \in 1 .. n PROVE Told(idx, h, i, j)[h[p]] = p
  <2>1. CASE p \in moved
    <3>1. to(h[p]) = {p}
      BY <1>12, <1>16, <2>1
    <3>2. (CHOOSE q \in to(h[p]) : TRUE) \in to(h[p])
      BY <3>1
    <3> HIDE DEF to, moved
    <3>3. QED
      BY <1>15, <1>17, <3>1, <3>2
  <2>2. CASE p \notin moved
    <3>1. to(h[p]) = {}
      BY <1>12, <1>16, <2>2
    <3>2. Source(i, j, p) = p /\ p # i
      BY <1>1, <2>2, StaysPut
    <3>3. h[p] = heap[p]
      BY <1>10, <3>2
    <3> HIDE DEF to, moved
    <3>4. Told(idx, h, i, j)[h[p]] = idx[h[p]]
      BY <1>15, <1>17, <3>1
    <3>5. QED
      BY <3>2, <3>3, <3>4
  <2>3. QED
    BY <2>1, <2>2
<1>19. DOMAIN Told(idx, h, i, j) = DOMAIN idx
  BY <1>15
<1>20. QED
  BY <1>8, <1>10, <1>12, <1>13, <1>14, <1>18, <1>19 DEF HasMoved

-----------------------------------------------------------------------------
(* Moves keep the order.                                                   *)

\* All but what stands at position i are in order.
OrderedBut(k, n, i) ==
  /\ \A p \in 2 .. n : p # i /\ p \div 2 # i => k[p \div 2] <= k[p]
  /\ \A p \in 2 .. n : p \div 2 = i /\ i > 1 => k[i \div 2] <= k[p]

\* The key at a position after the move.
KeyOfSource(k, key, i, j, p) ==
  LET q == Source(i, j, p) IN IF q = i THEN key ELSE k[q]

\* A position and its parent.
LEMMA HalfOf ==
  ASSUME NEW n \in Nat, NEW p \in 2 .. n
  PROVE  p \in Nat /\ p \div 2 \in Nat /\ p \div 2 \in 1 .. n /\ p \div 2 < p /\ p > 1
OBVIOUS

\* An item that rises until its parent has no larger key is in order.
LEMMA RiseOrder ==
  ASSUME NEW n \in Nat, NEW i \in 1 .. n, NEW j \in Way[i], NEW k \in [1 .. n -> Int], NEW key \in Int,
         OrderedBut(k, n, i),
         \A p \in 2 .. n : p \div 2 = i => key <= k[p],
         j > 1 => k[j \div 2] <= key,
         \A p \in Chain(j, i) : p # j => key < k[p \div 2]
  PROVE  \A p \in 2 .. n : KeyOfSource(k, key, i, j, p \div 2) <= KeyOfSource(k, key, i, j, p)
<1> DEFINE K(p) == KeyOfSource(k, key, i, j, p)
<1>1. i \in Nat /\ j \in Nat /\ j >= 1 /\ j <= i /\ j \in Chain(j, i) /\ i \in Chain(j, i)
  BY ChainProperties
<1>2. K(j) = key
  BY DEF KeyOfSource, Source, FromAbove
<1>3. ASSUME NEW p \in Chain(j, i), p # j
      PROVE  /\ K(p) = k[p \div 2] /\ p \div 2 \in Chain(j, i) /\ p \div 2 # i /\ p \in Nat /\ p <= i
             /\ p > 1 /\ p \div 2 \in Nat
  <2>1. /\ p \div 2 \in Chain(j, i) /\ p \div 2 # i /\ p \in Nat /\ p <= i
        /\ p > 1 /\ p \div 2 \in Nat
    BY <1>1, <1>3, ChainProperties
  <2>2. K(p) = k[p \div 2]
    BY <1>3, <2>1 DEF KeyOfSource, Source, FromAbove
  <2>3. QED
    BY <2>1, <2>2
<1>4. ASSUME NEW p, p \notin Chain(j, i) PROVE K(p) = k[p] /\ p # i /\ p # j
  BY <1>1, <1>4 DEF KeyOfSource, Source, FromAbove
<1>5. \A p \in 1 .. n : k[p] \in Int
  OBVIOUS
<1>6. \A p \in 2 .. n : p # i /\ p \div 2 # i => k[p \div 2] <= k[p]
  BY DEF OrderedBut
<1>7. \A p \in 2 .. n : p \div 2 = i /\ i > 1 => k[i \div 2] <= k[p]
  BY DEF OrderedBut
<1> HIDE DEF K
<1>8. SUFFICES ASSUME NEW p \in 2 .. n PROVE K(p \div 2) <= K(p)
  BY DEF K
<1> DEFINE q == p \div 2
<1>9. p \in Nat /\ q \in Nat /\ q \in 1 .. n /\ q < p /\ p > 1 /\ p \in 1 .. n
  BY HalfOf
<1>10. CASE p = j
  <2>1. q \notin Chain(j, i)
    <3>1. \A r \in Chain(j, i) : j <= r
      BY <1>1, ChainProperties
    <3>2. QED
      BY <1>9, <1>10, <1>1, <3>1
  <2>2. K(q) = k[q]
    BY <1>4, <2>1
  <2>3. QED
    BY <1>2, <1>9, <1>10, <2>2
<1>11. CASE p # j /\ p \in Chain(j, i)
  <2>1. K(p) = k[q] /\ q \in Chain(j, i) /\ q # i /\ key < k[q]
    BY <1>3, <1>11
  <2>2. CASE q = j
    BY <1>2, <1>5, <1>9, <2>1, <2>2
  <2>3. CASE q # j
    <3>1. K(q) = k[q \div 2] /\ q > 1 /\ q \div 2 # i
      BY <1>3, <2>1, <2>3
    <3>2. q \in 2 .. n
      BY <1>9, <3>1
    <3>3. k[q \div 2] <= k[q]
      BY <1>6, <2>1, <3>1, <3>2
    <3>4. QED
      BY <2>1, <3>1, <3>3
  <2>4. QED
    BY <2>2, <2>3
<1>12. CASE p \notin Chain(j, i)
  <2>1. K(p) = k[p] /\ p # i
    BY <1>4, <1>12
  <2>2. CASE q = j
    <3>1. CASE j = i
      BY <1>2, <2>1, <2>2, <3>1
    <3>2. CASE j # i
      <4>1. Toward(j, i) \in Chain(j, i) /\ Toward(j, i) \div 2 = j /\ Toward(j, i) > j
        BY <1>1, <3>2, ChainProperties
      <4>2. key < k[j]
        BY <1>1, <4>1
      <4>3. k[j] <= k[p]
        BY <1>6, <2>1, <2>2, <3>2
      <4>4. k[j] \in Int /\ k[p] \in Int
        BY <1>5, <1>9, <2>2
      <4>5. QED
        BY <1>2, <2>1, <2>2, <4>2, <4>3, <4>4
    <3>3. QED
      BY <3>1, <3>2
  <2>3. CASE q # j /\ q \in Chain(j, i)
    <3>1. K(q) = k[q \div 2] /\ q > 1 /\ q \div 2 # i /\ q \in 2 .. n
      BY <1>3, <1>9, <2>3
    <3>2. CASE q = i
      <4>1. k[q \div 2] <= k[p]
        BY <1>7, <3>1, <3>2
      <4>2. QED
        BY <2>1, <3>1, <4>1
    <3>3. CASE q # i
      <4>1. k[q \div 2] <= k[q] /\ k[q] <= k[p]
        BY <1>6, <2>1, <3>1, <3>3
      <4>2. q \div 2 \in 1 .. n
        BY <3>1, HalfOf
      <4>3. k[q \div 2] \in Int /\ k[q] \in Int /\ k[p] \in Int
        BY <1>5, <1>9, <4>2
      <4>4. QED
        BY <2>1, <3>1, <4>1, <4>3
    <3>4. QED
      BY <3>2, <3>3
  <2>4. CASE q \notin Chain(j, i)
    <3>1. K(q) = k[q] /\ q # i
      BY <1>4, <2>4
    <3>2. QED
      BY <1>6, <2>1, <3>1
  <2>5. QED
    BY <2>2, <2>3, <2>4
<1>13. QED
  BY <1>10, <1>11, <1>12

\* An item that sinks past smaller children is in order.
LEMMA SinkOrder ==
  ASSUME NEW n \in Nat, NEW i \in 1 .. n, NEW j \in 1 .. n, i \in Way[j], NEW k \in [1 .. n -> Int], NEW key \in Int,
         OrderedBut(k, n, i),
         i > 1 => k[i \div 2] <= key,
         \A p \in Chain(i, j) : p # i => k[p] < key,
         \A p \in Chain(i, j) : p # i => \A r \in 2 .. n : r \div 2 = p \div 2 => k[p] <= k[r],
         \A p \in 2 .. n : p \div 2 = j => key <= k[p]
  PROVE  \A p \in 2 .. n : KeyOfSource(k, key, i, j, p \div 2) <= KeyOfSource(k, key, i, j, p)
<1> DEFINE K(p) == KeyOfSource(k, key, i, j, p)
<1>1. i \in Nat /\ j \in Nat /\ i >= 1 /\ i <= j /\ j <= n /\ j \in Chain(i, j) /\ i \in Chain(i, j)
  BY ChainProperties
<1>2. i # j => j \notin Way[i]
  BY <1>1, WayRange
<1>3. \A p : Source(i, j, p) = FromBelow(i, j, p)
  <2>1. CASE i = j
    <3>1. \A p \in Chain(i, i) : p = i
      <4>1. i \in Way[i]
        BY <1>1, WayRange
      <4>2. \A p \in Chain(i, i) : p \in Nat /\ i <= p /\ p <= i
        BY <1>1, <4>1, ChainProperties
      <4>3. QED
        BY <1>1, <4>2
    <3>2. QED
      BY <1>1, <2>1, <3>1 DEF Source, FromAbove, FromBelow
  <2>2. CASE i # j
    BY <1>2, <2>2 DEF Source
  <2>3. QED
    BY <2>1, <2>2
<1>4. K(j) = key
  BY <1>3 DEF KeyOfSource, FromBelow
<1>5. ASSUME NEW p \in Chain(i, j), p # j
      PROVE  /\ K(p) = k[Toward(p, j)] /\ Toward(p, j) \in Chain(i, j) /\ Toward(p, j) # i
             /\ Toward(p, j) \div 2 = p /\ Toward(p, j) \in 2 .. n
  <2>1. p \in Nat /\ i <= p
    BY <1>1, ChainProperties
  <2>2. Toward(p, j) \in Chain(i, j) /\ Toward(p, j) \div 2 = p /\ Toward(p, j) > p
    BY <1>1, <1>5, ChainProperties
  <2>3. Toward(p, j) \in Nat /\ Toward(p, j) <= j
    BY <1>1, <2>2, ChainProperties
  <2>4. Toward(p, j) # i /\ Toward(p, j) \in 2 .. n
    BY <1>1, <2>1, <2>2, <2>3
  <2>5. K(p) = k[Toward(p, j)]
    BY <1>3, <1>5, <2>4 DEF KeyOfSource, FromBelow
  <2>6. QED
    BY <2>2, <2>4, <2>5
<1>6. ASSUME NEW p, p \notin Chain(i, j) PROVE K(p) = k[p] /\ p # i /\ p # j
  BY <1>1, <1>3, <1>6 DEF KeyOfSource, FromBelow
<1>7. \A p \in 1 .. n : k[p] \in Int
  OBVIOUS
<1>8. \A p \in 2 .. n : p # i /\ p \div 2 # i => k[p \div 2] <= k[p]
  BY DEF OrderedBut
<1>9. \A p \in 2 .. n : p \div 2 = i /\ i > 1 => k[i \div 2] <= k[p]
  BY DEF OrderedBut
<1> HIDE DEF K
<1>10. SUFFICES ASSUME NEW p \in 2 .. n PROVE K(p \div 2) <= K(p)
  BY DEF K
<1> DEFINE q == p \div 2
<1>11. p \in Nat /\ q \in Nat /\ q \in 1 .. n /\ q < p /\ p > 1 /\ p \in 1 .. n
  BY HalfOf
<1>12. CASE p \in Chain(i, j) /\ p = i
  <2>1. q \notin Chain(i, j)
    <3>1. \A r \in Chain(i, j) : i <= r
      BY <1>1, ChainProperties
    <3>2. QED
      BY <1>1, <1>11, <1>12, <3>1
  <2>2. K(q) = k[q]
    BY <1>6, <2>1
  <2>3. CASE i = j
    BY <1>4, <1>11, <1>12, <2>2, <2>3
  <2>4. CASE i # j
    <3>1. K(p) = k[Toward(p, j)] /\ Toward(p, j) \div 2 = i /\ Toward(p, j) \in 2 .. n
      BY <1>5, <1>12, <2>4
    <3>2. k[i \div 2] <= k[Toward(p, j)]
      BY <1>9, <1>11, <1>12, <3>1
    <3>3. QED
      BY <1>12, <2>2, <3>1, <3>2
  <2>5. QED
    BY <2>3, <2>4
<1>13. CASE p \in Chain(i, j) /\ p # i
  <2>1. q \in Chain(i, j) /\ q # j /\ Toward(q, j) = p
    BY <1>1, <1>13, ChainProperties
  <2>2. K(q) = k[p]
    BY <1>5, <2>1
  <2>3. CASE p = j
    BY <1>4, <1>7, <1>11, <1>13, <2>2, <2>3
  <2>4. CASE p # j
    <3>1. /\ K(p) = k[Toward(p, j)] /\ Toward(p, j) # i
          /\ Toward(p, j) \div 2 = p /\ Toward(p, j) \in 2 .. n
      BY <1>5, <1>13, <2>4
    <3>2. k[p] <= k[Toward(p, j)]
      BY <1>8, <1>13, <3>1
    <3>3. QED
      BY <2>2, <3>1, <3>2
  <2>5. QED
    BY <2>3, <2>4
<1>14. CASE p \notin Chain(i, j)
  <2>1. K(p) = k[p] /\ p # i
    BY <1>6, <1>14
  <2>2. CASE q = j
    BY <1>4, <2>1, <2>2
  <2>3. CASE q # j /\ q \in Chain(i, j)
    <3>1. /\ K(q) = k[Toward(q, j)] /\ Toward(q, j) \in Chain(i, j) /\ Toward(q, j) # i
          /\ Toward(q, j) \div 2 = q
      BY <1>5, <2>3
    <3>2. k[Toward(q, j)] <= k[p]
      BY <3>1
    <3>3. QED
      BY <2>1, <3>1, <3>2
  <2>4. CASE q \notin Chain(i, j)
    <3>1. K(q) = k[q] /\ q # i
      BY <1>6, <2>4
    <3>2. QED
      BY <1>8, <2>1, <3>1
  <2>5. QED
    BY <2>2, <2>3, <2>4
<1>15. QED
  BY <1>12, <1>13, <1>14

-----------------------------------------------------------------------------
(* The heap.                                                               *)

HeapInv ==
  /\ mSize \in Nat /\ mSize > 1 /\ mHolesSize \in Nat /\ mHolesSize > 1 /\ mCount \in Nat
  /\ mHoles \in Seq(Nat) /\ Len(mHoles) <= mHolesSize
  /\ mHeap \in [Positions(mSize) -> Nat]
  /\ mKey \in [Slots(mSize) -> Int]
  /\ DOMAIN mIdx = Slots(mSize)
  /\ mCount + Len(mHoles) <= mSize
  /\ SlotsAccountedFor
  /\ HeapOrdered

\* The slots that are in use are those of the arrays.
LEMMA UsedSlots ==
  ASSUME HeapInv
  PROVE  /\ mCount \in 0 .. mSize /\ Len(mHoles) \in Nat
         /\ \A p \in 1 .. mCount : /\ mHeap[p] \in Nat /\ mHeap[p] \in Slots(mSize) /\ KeyAt(p) \in Int
                                   /\ mHeap[p] \in 0 .. mCount + Len(mHoles) - 1
                                   /\ mIdx[mHeap[p]] = p
         /\ \A p \in 1 .. mCount, q \in 1 .. mCount : mHeap[p] = mHeap[q] => p = q
<1>1. mSize \in Nat /\ mCount \in Nat /\ mHoles \in Seq(Nat) /\ mCount + Len(mHoles) <= mSize
      /\ mHeap \in [Positions(mSize) -> Nat] /\ mKey \in [Slots(mSize) -> Int]
  BY DEF HeapInv
<1>2. Len(mHoles) \in Nat
  BY <1>1, LenProperties
<1>3. mCount \in 0 .. mSize
  BY <1>1, <1>2
<1>4. Live \subseteq 0 .. mCount + Len(mHoles) - 1
  BY DEF HeapInv, SlotsAccountedFor
<1>5. \A p \in 1 .. mCount : mIdx[mHeap[p]] = p
  BY DEF HeapInv, SlotsAccountedFor
<1>6. ASSUME NEW p \in 1 .. mCount
      PROVE  /\ mHeap[p] \in Nat /\ mHeap[p] \in Slots(mSize) /\ KeyAt(p) \in Int
             /\ mHeap[p] \in 0 .. mCount + Len(mHoles) - 1
  <2>1. mHeap[p] \in 0 .. mCount + Len(mHoles) - 1
    BY <1>4 DEF Live
  <2>2. mHeap[p] \in Slots(mSize) /\ mHeap[p] \in Nat
    BY <1>1, <1>2, <2>1 DEF Slots
  <2>3. KeyAt(p) \in Int
    BY <1>1, <2>2 DEF KeyAt
  <2>4. QED
    BY <2>1, <2>2, <2>3
<1>7. \A p \in 1 .. mCount, q \in 1 .. mCount : mHeap[p] = mHeap[q] => p = q
  BY <1>5
<1>8. QED
  BY <1>2, <1>3, <1>5, <1>6, <1>7

\* An item rises past all that have larger keys, and stops below one that does not.
LEMMA RisenIs ==
  ASSUME NEW n \in Nat, NEW i \in 1 .. n, NEW key \in Int, \A p \in 1 .. n : p < i => KeyAt(p) \in Int
  PROVE  /\ Risen(i, key) \in Way[i] /\ Risen(i, key) \in 1 .. i
         /\ Risen(i, key) > 1 => KeyAt(Risen(i, key) \div 2) <= key
         /\ \A p \in Chain(Risen(i, key), i) : p # Risen(i, key) => key < KeyAt(p \div 2)
<1> DEFINE S == {j \in Way[i] : j > 1 => KeyAt(j \div 2) <= key}
           j == Max(S)
<1>1. Risen(i, key) = j
  BY DEF Risen
<1>2. i \in Nat /\ Way[i] \subseteq 1 .. i /\ 1 \in Way[i]
  BY WayRange
<1>3. S \in SUBSET Nat /\ 1 \in S /\ S # {} /\ \A s \in S : s <= i
  BY <1>2
<1>4. j \in S /\ \A s \in S : s <= j
  <2> HIDE DEF S
  <2>1. QED
    BY <1>2, <1>3, NatHasGreatest
<1>5. j \in Way[i] /\ (j > 1 => KeyAt(j \div 2) <= key) /\ j \in 1 .. i
  BY <1>2, <1>4
<1>6. ASSUME NEW p \in Chain(j, i), p # j PROVE key < KeyAt(p \div 2)
  <2>1. p \in Way[i] /\ p \in Nat /\ j <= p /\ p <= i /\ p > 1 /\ p \div 2 \in Nat /\ p \div 2 \in Chain(j, i)
    <3>1. p \in Way[i]
      BY DEF Chain
    <3> HIDE DEF j
    <3>2. QED
      BY <1>2, <1>5, <1>6, <3>1, ChainProperties
  <2>2. p \notin S
    <3> HIDE DEF S, j
    <3>1. QED
      BY <1>4, <1>5, <1>6, <2>1
  <2>3. ~(KeyAt(p \div 2) <= key)
    BY <2>1, <2>2
  <2>4. p \div 2 \in 1 .. n /\ p \div 2 < i
    BY <2>1
  <2>5. KeyAt(p \div 2) \in Int
    BY <2>4
  <2>6. QED
    BY <2>3, <2>5
<1> HIDE DEF j
<1>7. QED
  BY <1>1, <1>5, <1>6

\* The smaller child is a child and its key is not above that of any.
LEMMA SmallerChildIs ==
  ASSUME mCount \in Nat, \A p \in 1 .. mCount : KeyAt(p) \in Int,
         NEW j \in Nat \ {0}, NEW c \in 2 .. mCount, c \div 2 = j
  PROVE  /\ SmallerChild(j) \in 2 .. mCount /\ SmallerChild(j) \div 2 = j
         /\ KeyAt(SmallerChild(j)) <= KeyAt(c)
<1>1. c = 2 * j \/ c = 2 * j + 1
  OBVIOUS
<1>2. 2 * j \in 2 .. mCount /\ (2 * j) \div 2 = j /\ (2 * j + 1) \div 2 = j /\ 2 * j \in 1 .. mCount
  BY <1>1
<1>3. KeyAt(2 * j) \in Int
  BY <1>2
<1>4. CASE 2 * j < mCount
  <2>1. 2 * j + 1 \in 2 .. mCount /\ 2 * j + 1 \in 1 .. mCount
    BY <1>2, <1>4
  <2>2. KeyAt(2 * j + 1) \in Int
    BY <2>1
  <2>3. CASE KeyAt(2 * j + 1) < KeyAt(2 * j)
    <3>1. SmallerChild(j) = 2 * j + 1
      BY <1>4, <2>3 DEF SmallerChild
    <3>2. KeyAt(2 * j + 1) <= KeyAt(c)
      BY <1>1, <1>3, <2>2, <2>3
    <3>3. QED
      BY <1>2, <2>1, <3>1, <3>2
  <2>4. CASE ~(KeyAt(2 * j + 1) < KeyAt(2 * j))
    <3>1. SmallerChild(j) = 2 * j
      BY <2>4 DEF SmallerChild
    <3>2. KeyAt(2 * j) <= KeyAt(c)
      BY <1>1, <1>3, <2>2, <2>4
    <3>3. QED
      BY <1>2, <3>1, <3>2
  <2>5. QED
    BY <2>3, <2>4
<1>5. CASE ~(2 * j < mCount)
  <2>1. SmallerChild(j) = 2 * j
    BY <1>5 DEF SmallerChild
  <2>2. c = 2 * j
    BY <1>1, <1>2, <1>5
  <2>3. QED
    BY <1>2, <1>3, <2>1, <2>2
<1>6. QED
  BY <1>4, <1>5

\* An item sinks past smaller children below its key, and stops when there is none.
LEMMA SunkIs ==
  ASSUME mCount \in Nat, \A p \in 1 .. mCount : KeyAt(p) \in Int,
         NEW i \in 1 .. mCount, NEW key \in Int
  PROVE  /\ Sunk(i, key) \in 1 .. mCount /\ i \in Way[Sunk(i, key)]
         /\ \A p \in Chain(i, Sunk(i, key)) : p # i => KeyAt(p) < key
         /\ \A p \in Chain(i, Sunk(i, key)) : p # i =>
              \A r \in 2 .. mCount : r \div 2 = p \div 2 => KeyAt(p) <= KeyAt(r)
         /\ \A p \in 2 .. mCount : p \div 2 = Sunk(i, key) => key <= KeyAt(p)
<1> DEFINE Passed(j) == \A p \in Way[j] : p > i => p = SmallerChild(p \div 2) /\ KeyAt(p) < key
           S == {j \in 1 .. mCount : i \in Way[j] /\ Passed(j)}
           j == Max(S)
<1>1. Sunk(i, key) = j
  BY DEF Sunk
<1>2. i \in Nat /\ i \in Way[i] /\ Way[i] \subseteq 1 .. i
  BY WayRange
<1>3. i \in S
  <2>1. \A p \in Way[i] : ~(p > i)
    BY <1>2
  <2>2. QED
    BY <1>2, <2>1
<1>4. S \in SUBSET Nat /\ S # {} /\ \A s \in S : s <= mCount
  BY <1>3
<1>5. j \in S /\ \A s \in S : s <= j
  <2> HIDE DEF S
  <2>1. QED
    BY <1>4, NatHasGreatest
<1> HIDE DEF j
<1>6. j \in 1 .. mCount /\ i \in Way[j] /\ Passed(j)
  BY <1>5
<1>7. j \in Nat /\ j \in Nat \ {0}
  BY <1>6
<1>8. ASSUME NEW p \in Chain(i, j), p # i
      PROVE  /\ KeyAt(p) < key
             /\ \A r \in 2 .. mCount : r \div 2 = p \div 2 => KeyAt(p) <= KeyAt(r)
  <2>1. p \in Way[j] /\ p \in Nat /\ i <= p /\ p <= j /\ p \div 2 \in Nat /\ p > 1
    <3>1. p \in Way[j]
      BY DEF Chain
    <3>2. QED
      BY <1>6, <1>7, <1>8, <3>1, ChainProperties
  <2>2. p > i
    BY <1>2, <1>8, <2>1
  <2>3. p = SmallerChild(p \div 2) /\ KeyAt(p) < key
    BY <1>6, <2>1, <2>2
  <2>4. p \div 2 \in Nat \ {0}
    BY <2>1
  <2>5. ASSUME NEW r \in 2 .. mCount, r \div 2 = p \div 2 PROVE KeyAt(p) <= KeyAt(r)
    <3>1. KeyAt(SmallerChild(p \div 2)) <= KeyAt(r)
      BY <2>4, <2>5, SmallerChildIs
    <3>2. QED
      BY <2>3, <3>1
  <2>6. QED
    BY <2>3, <2>5
<1>9. ASSUME NEW p \in 2 .. mCount, p \div 2 = j PROVE key <= KeyAt(p)
  <2>1. SUFFICES ASSUME ~(key <= KeyAt(p)) PROVE FALSE
    OBVIOUS
  <2>2. KeyAt(p) < key /\ KeyAt(p) \in Int
    BY <2>1
  <2> DEFINE d == SmallerChild(j)
  <2>3. d \in 2 .. mCount /\ d \div 2 = j /\ KeyAt(d) <= KeyAt(p)
    BY <1>7, <1>9, SmallerChildIs
  <2> HIDE DEF d
  <2>4. d \in Nat \ {0} /\ d \in 1 .. mCount /\ d > j
    BY <1>7, <2>3
  <2>5. Way[d] = {d} \cup Way[j]
    BY <2>3, <2>4, WayStep
  <2>6. KeyAt(d) \in Int /\ KeyAt(d) < key
    BY <2>2, <2>3, <2>4
  <2>7. d = SmallerChild(d \div 2)
    BY <2>3 DEF d
  <2>8. Passed(d)
    <3>1. TAKE x \in Way[d]
    <3>2. CASE x = d
      BY <2>6, <2>7, <3>2
    <3>3. CASE x \in Way[j]
      BY <1>6, <3>3
    <3>4. QED
      BY <2>5, <3>2, <3>3
  <2>9. d \in S
    <3> HIDE DEF Passed
    <3>1. QED
      BY <1>6, <2>4, <2>5, <2>8
  <2>10. QED
    BY <1>5, <1>7, <2>4, <2>9
<1>10. QED
  BY <1>1, <1>6, <1>8, <1>9

\* The heap of the keys: what KeyAt is on the positions that are in use.
KeysTo(n) == [p \in 1 .. n |-> KeyAt(p)]

\* Where an item comes to rest in the part of the heap that stays, and that it
\* is in order there.
LEMMA RestKeepsOrder ==
  ASSUME HeapInv, NEW n \in 0 .. mCount, NEW i \in 1 .. n, NEW key \in Int,
         NEW j, j = Rest(i, KeyAt(i), key),
         n = mCount \/ (n = mCount - 1 /\ key = KeyAt(mCount))
  PROVE  /\ j \in 1 .. n /\ (j \in Way[i] \/ i \in Way[j])
         /\ \A p \in 2 .. n : KeyOfSource(KeysTo(n), key, i, j, p \div 2) <= KeyOfSource(KeysTo(n), key, i, j, p)
<1> DEFINE k == KeysTo(n)
<1>1. mCount \in Nat /\ n \in Nat /\ n <= mCount /\ \A p \in 1 .. mCount : KeyAt(p) \in Int
  BY UsedSlots DEF HeapInv
<1>2. \A p \in 1 .. n : k[p] = KeyAt(p) /\ k[p] \in Int
  BY <1>1 DEF KeysTo
<1>3. k \in [1 .. n -> Int]
  BY <1>1 DEF KeysTo
<1>4. \A p \in 2 .. n : k[p \div 2] <= k[p]
  <2>1. TAKE p \in 2 .. n
  <2>2. p \div 2 \in 1 .. n /\ p \in 1 .. n /\ p \in 2 .. mCount
    BY <1>1
  <2>3. KeyAt(p \div 2) <= KeyAt(p)
    BY <2>2 DEF HeapInv, HeapOrdered
  <2>4. QED
    BY <1>2, <2>2, <2>3
<1> HIDE DEF k
<1>5. OrderedBut(k, n, i)
  <2>1. ASSUME NEW p \in 2 .. n, p \div 2 = i, i > 1 PROVE k[i \div 2] <= k[p]
    <3>1. k[i] <= k[p] /\ k[i \div 2] <= k[i]
      BY <1>4, <2>1
    <3>2. i \div 2 \in 1 .. n /\ p \in 1 .. n
      BY <2>1
    <3>3. k[i \div 2] \in Int /\ k[i] \in Int /\ k[p] \in Int
      BY <1>2, <3>2
    <3>4. QED
      BY <3>1, <3>3
  <2>2. QED
    BY <1>4, <2>1 DEF OrderedBut
<1>6. k[i] \in Int /\ k[i] = KeyAt(i)
  BY <1>2
<1>7. CASE key < KeyAt(i)
  <2>1. j = Risen(i, key)
    BY <1>7 DEF Rest
  <2>2. \A p \in 1 .. n : p < i => KeyAt(p) \in Int
    BY <1>2
  <2>3. /\ j \in Way[i] /\ j \in 1 .. i
        /\ j > 1 => KeyAt(j \div 2) <= key
        /\ \A p \in Chain(j, i) : p # j => key < KeyAt(p \div 2)
    BY <1>1, <2>1, <2>2, RisenIs
  <2>4. j \in 1 .. n
    BY <2>3
  <2>5. j > 1 => k[j \div 2] <= key
    <3>1. SUFFICES ASSUME j > 1 PROVE k[j \div 2] <= key
      OBVIOUS
    <3>2. j \div 2 \in 1 .. n
      BY <2>4, <3>1
    <3>3. QED
      BY <1>2, <2>3, <3>1, <3>2
  <2>6. \A p \in Chain(j, i) : p # j => key < k[p \div 2]
    <3>1. SUFFICES ASSUME NEW p \in Chain(j, i), p # j PROVE key < k[p \div 2]
      OBVIOUS
    <3>2. i \in Nat
      OBVIOUS
    <3>3. p \div 2 \in Chain(j, i)
      BY <2>3, <3>1, <3>2, ChainProperties
    <3>4. p \div 2 \in Nat /\ j <= p \div 2 /\ p \div 2 <= i
      BY <2>3, <3>2, <3>3, ChainProperties
    <3>5. p \div 2 \in 1 .. n
      BY <2>4, <3>4
    <3>6. k[p \div 2] = KeyAt(p \div 2)
      BY <1>2, <3>5
    <3>7. QED
      BY <2>3, <3>1, <3>6
  <2>7. \A p \in 2 .. n : p \div 2 = i => key <= k[p]
    <3>1. SUFFICES ASSUME NEW p \in 2 .. n, p \div 2 = i PROVE key <= k[p]
      OBVIOUS
    <3>2. k[i] <= k[p] /\ k[p] \in Int
      BY <1>2, <1>4, <3>1
    <3>3. QED
      BY <1>6, <1>7, <3>2
  <2>8. \A p \in 2 .. n : KeyOfSource(k, key, i, j, p \div 2) <= KeyOfSource(k, key, i, j, p)
    BY <1>1, <1>3, <1>5, <2>3, <2>5, <2>6, <2>7, RiseOrder
  <2>9. QED
    BY <2>3, <2>4, <2>8 DEF k
<1>8. CASE ~(key < KeyAt(i))
  <2>1. j = Sunk(i, key)
    BY <1>8 DEF Rest
  <2>2. i \in 1 .. mCount
    BY <1>1
  <2>3. /\ j \in 1 .. mCount /\ i \in Way[j]
        /\ \A p \in Chain(i, j) : p # i => KeyAt(p) < key
        /\ \A p \in Chain(i, j) : p # i => \A r \in 2 .. mCount : r \div 2 = p \div 2 => KeyAt(p) <= KeyAt(r)
        /\ \A p \in 2 .. mCount : p \div 2 = j => key <= KeyAt(p)
    BY <1>1, <2>1, <2>2, SunkIs
  <2>4. j \in 1 .. n
    <3>1. j \in Chain(i, j)
      <4>1. j \in Nat
        BY <2>3
      <4>2. QED
        BY <2>3, <4>1, ChainProperties
    <3>2. j # i => KeyAt(j) < key
      BY <2>3, <3>1
    <3>3. j = mCount /\ n = mCount - 1 => FALSE
      <4>1. SUFFICES ASSUME j = mCount, n = mCount - 1 PROVE FALSE
        OBVIOUS
      <4>2. j # i /\ key = KeyAt(mCount) /\ KeyAt(j) = KeyAt(mCount)
        BY <1>1, <4>1
      <4>3. QED
        BY <3>2, <4>2
    <3>4. QED
      BY <1>1, <2>3, <3>3
  <2>5. \A p \in Chain(i, j) : p \in 1 .. n
    <3>1. TAKE p \in Chain(i, j)
    <3>2. j \in Nat
      BY <2>4
    <3>3. p \in Nat /\ i <= p /\ p <= j
      BY <2>3, <3>2, ChainProperties
    <3>4. QED
      BY <2>4, <3>3
  <2>6. \A p \in Chain(i, j) : p # i => k[p] < key
    BY <1>2, <2>3, <2>5
  <2>7. \A p \in Chain(i, j) : p # i => \A r \in 2 .. n : r \div 2 = p \div 2 => k[p] <= k[r]
    <3>1. \A r \in 2 .. n : r \in 1 .. n /\ r \in 2 .. mCount
      BY <1>1
    <3>2. QED
      BY <1>2, <2>3, <2>5, <3>1
  <2>8. \A p \in 2 .. n : p \div 2 = j => key <= k[p]
    <3>1. \A r \in 2 .. n : r \in 1 .. n /\ r \in 2 .. mCount
      BY <1>1
    <3>2. QED
      BY <1>2, <2>3, <3>1
  <2>9. i > 1 => k[i \div 2] <= key
    <3>1. SUFFICES ASSUME i > 1 PROVE k[i \div 2] <= key
      OBVIOUS
    <3>2. i \div 2 \in 1 .. n
      BY <3>1
    <3>3. k[i \div 2] <= k[i] /\ k[i \div 2] \in Int
      BY <1>2, <1>4, <3>1, <3>2
    <3>4. QED
      BY <1>6, <1>8, <3>3
  <2>10. \A p \in 2 .. n : KeyOfSource(k, key, i, j, p \div 2) <= KeyOfSource(k, key, i, j, p)
    BY <1>1, <1>3, <1>5, <2>3, <2>4, <2>6, <2>7, <2>8, <2>9, SinkOrder
  <2>11. QED
    BY <2>3, <2>4, <2>10 DEF k
<1>9. QED
  BY <1>7, <1>8

\* A key comes to position i of the first n, with the slot that it names: the slot
\* there gets the key, or the last slot takes its place with the key that it has.
Moves(n, i, key, slot, idx) ==
  /\ HeapInv
  /\ n \in 0 .. mCount /\ i \in 1 .. n /\ key \in Int
  /\ \/ n = mCount /\ slot = mHeap[i]
     \/ n = mCount - 1 /\ slot = mHeap[mCount] /\ key = KeyAt(mCount)
  /\ DOMAIN idx = Slots(mSize)
  /\ \A p \in 1 .. n : p # i => idx[mHeap[p]] = p

\* What that leaves: the slots, where they are told to be, and the order.
Moved(n, i, key, slot, idx, j, h) ==
  /\ j \in 1 .. n
  /\ h \in [Positions(mSize) -> Nat]
  /\ \A p \in 1 .. n, q \in 1 .. n : h[p] = h[q] => p = q
  /\ {h[p] : p \in 1 .. n} = {slot} \cup {mHeap[p] : p \in (1 .. n) \ {i}}
  /\ DOMAIN Told(idx, h, i, j) = Slots(mSize)
  /\ \A p \in 1 .. n : Told(idx, h, i, j)[h[p]] = p
  /\ \A K : K[slot] = key /\ (\A p \in 1 .. n : p # i => K[mHeap[p]] = KeyAt(p))
              => \A p \in 2 .. n : K[h[p \div 2]] <= K[h[p]]

\* A move within the heap.
LEMMA MoveInHeap ==
  ASSUME NEW n, NEW i, NEW key, NEW slot, NEW idx, Moves(n, i, key, slot, idx)
  PROVE  Moved(n, i, key, slot, idx, Rest(i, KeyAt(i), key), Shifted(mHeap, slot, i, Rest(i, KeyAt(i), key)))
<1> DEFINE j == Rest(i, KeyAt(i), key)
           h == Shifted(mHeap, slot, i, j)
<1>0. /\ HeapInv
      /\ n \in 0 .. mCount /\ i \in 1 .. n /\ key \in Int
      /\ (n = mCount /\ slot = mHeap[i]) \/ (n = mCount - 1 /\ slot = mHeap[mCount] /\ key = KeyAt(mCount))
      /\ DOMAIN idx = Slots(mSize)
      /\ \A p \in 1 .. n : p # i => idx[mHeap[p]] = p
  BY DEF Moves
<1> USE <1>0
<1> HIDE DEF j
<1>1. mSize \in Nat /\ mCount \in 0 .. mSize /\ mCount \in Nat /\ n \in 0 .. mSize /\ n \in Nat
      /\ mHeap \in [1 .. mSize -> Nat]
  BY UsedSlots DEF HeapInv, Positions
<1>2. \A p \in 1 .. n : p \in 1 .. mCount
  BY <1>1
<1>3. \A p \in 1 .. n : mHeap[p] \in Slots(mSize)
  BY <1>2, UsedSlots
<1>4. n = mCount \/ (n = mCount - 1 /\ key = KeyAt(mCount))
  OBVIOUS
<1>5. /\ j \in 1 .. n /\ (j \in Way[i] \/ i \in Way[j])
      /\ \A p \in 2 .. n : KeyOfSource(KeysTo(n), key, i, j, p \div 2) <= KeyOfSource(KeysTo(n), key, i, j, p)
  BY <1>4, RestKeepsOrder DEF j
<1>6. slot \in Slots(mSize) /\ slot \in Nat /\ \A p \in 1 .. n : p # i => mHeap[p] # slot
  <2>1. CASE n = mCount /\ slot = mHeap[i]
    BY <1>2, <2>1, UsedSlots
  <2>2. CASE n = mCount - 1 /\ slot = mHeap[mCount]
    <3>1. mCount \in 1 .. mCount /\ \A p \in 1 .. n : p # mCount
      BY <1>1, <2>2
    <3>2. QED
      BY <1>2, <2>2, <3>1, UsedSlots
  <2>3. QED
    BY <2>1, <2>2
<1>7. \A p \in 1 .. n : p # i => mHeap[p] \in DOMAIN idx
  BY <1>3
<1>8. slot \in DOMAIN idx
  BY <1>6
<1>9. /\ h \in [1 .. mSize -> Nat]
      /\ \A p \in 1 .. n : h[p] = IF Source(i, j, p) = i THEN slot ELSE mHeap[Source(i, j, p)]
      /\ \A p \in 1 .. n, q \in 1 .. n : h[p] = h[q] => p = q
      /\ {h[p] : p \in 1 .. n} = {slot} \cup {mHeap[p] : p \in (1 .. n) \ {i}}
      /\ DOMAIN Told(idx, h, i, j) = DOMAIN idx
      /\ \A p \in 1 .. n : Told(idx, h, i, j)[h[p]] = p
  <2>1. /\ \A p \in 1 .. n : p # i => mHeap[p] \in DOMAIN idx
        /\ \A p \in 1 .. n : p # i => mHeap[p] # slot
    BY <1>6, <1>7
  <2>2. mSize \in Nat /\ n \in 0 .. mSize /\ mHeap \in [1 .. mSize -> Nat] /\ slot \in Nat
        /\ i \in 1 .. n /\ j \in 1 .. n /\ (j \in Way[i] \/ i \in Way[j]) /\ slot \in DOMAIN idx
    BY <1>1, <1>5, <1>6, <1>8
  <2>3. CanMove(mSize, n, mHeap, slot, i, j, idx)
    BY <2>1, <2>2 DEF CanMove
  <2>4. HasMoved(mSize, n, mHeap, slot, i, j, idx, h)
    BY <2>3, MovedHeap
  <2>5. QED
    BY <2>4 DEF HasMoved
<1>10. ASSUME NEW K, K[slot] = key, \A p \in 1 .. n : p # i => K[mHeap[p]] = KeyAt(p)
       PROVE  \A p \in 2 .. n : K[h[p \div 2]] <= K[h[p]]
  <2>1. \A p \in 1 .. n : Source(i, j, p) \in 1 .. n
    BY <1>1, <1>5, SourceProperties
  <2>2. ASSUME NEW p \in 1 .. n PROVE K[h[p]] = KeyOfSource(KeysTo(n), key, i, j, p)
    <3>1. CASE Source(i, j, p) = i
      <4>1. h[p] = slot
        BY <1>9, <3>1
      <4>2. QED
        BY <1>10, <3>1, <4>1 DEF KeyOfSource
    <3>2. CASE Source(i, j, p) # i
      <4>1. h[p] = mHeap[Source(i, j, p)] /\ Source(i, j, p) \in 1 .. n
        BY <1>9, <2>1, <3>2
      <4>2. K[h[p]] = KeyAt(Source(i, j, p))
        BY <1>10, <3>2, <4>1
      <4>3. KeysTo(n)[Source(i, j, p)] = KeyAt(Source(i, j, p))
        BY <4>1 DEF KeysTo
      <4>4. QED
        BY <3>2, <4>2, <4>3 DEF KeyOfSource
    <3>3. QED
      BY <3>1, <3>2
  <2>3. TAKE p \in 2 .. n
  <2>4. p \in 1 .. n /\ p \div 2 \in 1 .. n
    BY <1>1
  <2>5. QED
    BY <1>5, <2>2, <2>4
<1>11. Moved(n, i, key, slot, idx, j, h)
  <2> HIDE DEF h
  <2>1. QED
    BY <1>5, <1>9, <1>10 DEF Positions, Moved
<1>12. QED
  BY <1>11 DEF h, j

\* LHeap_Update keeps the heap.
LEMMA UpdateKeeps ==
  ASSUME HeapInv, NEW slot \in Live, NEW key \in HeapKeys, HeapUpdate(slot, key)
  PROVE  HeapInv' /\ Live' = Live
<1> DEFINE i == mIdx[slot]
           j == Rest(i, mKey[slot], key)
           h == Shifted(mHeap, slot, i, j)
<1>1. /\ mHeap' = h /\ mIdx' = Told(mIdx, h, i, j) /\ mKey' = [mKey EXCEPT ![slot] = key]
      /\ mHoles' = mHoles /\ mCount' = mCount /\ mSize' = mSize /\ mHolesSize' = mHolesSize
  BY DEF HeapUpdate
<1>2. i \in 1 .. mCount /\ slot = mHeap[i] /\ mKey[slot] = KeyAt(i) /\ slot \in Slots(mSize)
  <2>1. PICK x \in 1 .. mCount : slot = mHeap[x]
    BY DEF Live
  <2>2. i = x
    BY <2>1, UsedSlots
  <2>3. QED
    BY <2>1, <2>2, UsedSlots DEF KeyAt
<1>3. key \in Int
  BY HeapAssumption
<1>4. mCount \in 0 .. mCount /\ mKey \in [Slots(mSize) -> Int] /\ DOMAIN mIdx = Slots(mSize)
  BY DEF HeapInv
<1>5. \A p \in 1 .. mCount : mIdx[mHeap[p]] = p
  BY UsedSlots
<1>6. j = Rest(i, KeyAt(i), key) /\ h = Shifted(mHeap, slot, i, j)
  BY <1>2
<1> HIDE DEF i, j, h
<1>7. /\ h \in [Positions(mSize) -> Nat]
      /\ {h[p] : p \in 1 .. mCount} = {slot} \cup {mHeap[p] : p \in (1 .. mCount) \ {i}}
      /\ DOMAIN Told(mIdx, h, i, j) = Slots(mSize)
      /\ \A p \in 1 .. mCount : Told(mIdx, h, i, j)[h[p]] = p
      /\ \A K : K[slot] = key /\ (\A p \in 1 .. mCount : p # i => K[mHeap[p]] = KeyAt(p))
                  => \A p \in 2 .. mCount : K[h[p \div 2]] <= K[h[p]]
  <2>1. Moves(mCount, i, key, slot, mIdx)
    BY <1>2, <1>3, <1>4, <1>5 DEF Moves
  <2>2. Moved(mCount, i, key, slot, mIdx, j, h)
    BY <1>6, <2>1, MoveInHeap
  <2>3. QED
    BY <2>2 DEF Moved
<1>8. Live' = Live
  <2>1. Live' = {h[p] : p \in 1 .. mCount}
    BY <1>1 DEF Live
  <2>2. QED
    BY <1>2, <1>7, <2>1 DEF Live
<1>9. mKey' \in [Slots(mSize) -> Int] /\ mKey'[slot] = key
  BY <1>1, <1>2, <1>3, <1>4
<1>10. \A p \in 1 .. mCount : p # i => mKey'[mHeap[p]] = KeyAt(p)
  <2>1. ASSUME NEW p \in 1 .. mCount, p # i PROVE mHeap[p] # slot /\ mHeap[p] \in Slots(mSize)
    BY <1>2, <2>1, UsedSlots
  <2>2. QED
    BY <1>1, <1>4, <2>1 DEF KeyAt
<1>11. \A p \in 2 .. mCount : mKey'[h[p \div 2]] <= mKey'[h[p]]
  BY <1>7, <1>9, <1>10
<1>12. HeapOrdered'
  BY <1>1, <1>11 DEF HeapOrdered, KeyAt
<1>13. SlotsAccountedFor'
  BY <1>1, <1>7, <1>8 DEF SlotsAccountedFor, HeapInv
<1>14. QED
  BY <1>1, <1>7, <1>8, <1>9, <1>12, <1>13 DEF HeapInv

\* The smallest key is at the root.
LEMMA RootIsSmallest ==
  ASSUME HeapInv
  PROVE  \A p \in 1 .. mCount : KeyAt(1) <= KeyAt(p)
<1> DEFINE P(p) == p \in 1 .. mCount => KeyAt(1) <= KeyAt(p)
           S == {p \in Nat : P(p)}
<1>1. \A p \in 1 .. mCount : KeyAt(p) \in Int
  BY UsedSlots
<1>2. \A p \in 2 .. mCount : KeyAt(p \div 2) <= KeyAt(p)
  BY DEF HeapInv, HeapOrdered
<1>3. ASSUME NEW p \in Nat, \A m \in 0 .. p - 1 : P(m) PROVE P(p)
  <2>1. SUFFICES ASSUME p \in 1 .. mCount PROVE KeyAt(1) <= KeyAt(p)
    OBVIOUS
  <2>2. CASE p = 1
    BY <1>1, <2>1, <2>2
  <2>3. CASE p # 1
    <3>1. p \in 2 .. mCount /\ p \div 2 \in 0 .. p - 1 /\ p \div 2 \in 1 .. mCount /\ 1 \in 1 .. mCount /\ mCount \in Nat
      BY <2>1, <2>3 DEF HeapInv
    <3>2. KeyAt(1) <= KeyAt(p \div 2) /\ KeyAt(p \div 2) <= KeyAt(p)
      BY <1>2, <1>3, <3>1
    <3>3. KeyAt(1) \in Int /\ KeyAt(p \div 2) \in Int /\ KeyAt(p) \in Int
      BY <1>1, <2>1, <3>1
    <3>4. QED
      BY <3>2, <3>3
  <2>4. QED
    BY <2>2, <2>3
<1> HIDE DEF P
<1>4. \A p \in Nat : (\A m \in 0 .. p - 1 : m \in S) => p \in S
  BY <1>3
<1>5. S = Nat
  BY <1>4, NatInductionBySets
<1>6. QED
  BY <1>5 DEF P

\* A hole that is put on the list.
LEMMA PutHole ==
  ASSUME NEW s \in Seq(Nat), NEW x \in Nat, x \notin ToSet(s), IsInjective(s)
  PROVE  /\ Append(s, x) \in Seq(Nat) /\ Len(Append(s, x)) = Len(s) + 1 /\ Len(s) \in Nat
         /\ ToSet(Append(s, x)) = ToSet(s) \cup {x} /\ IsInjective(Append(s, x))
<1> DEFINE t == Append(s, x)
<1>1. /\ t \in Seq(Nat) /\ Len(t) = Len(s) + 1 /\ Len(s) \in Nat
      /\ \A i \in 1 .. Len(s) : t[i] = s[i]
      /\ t[Len(s) + 1] = x
  BY AppendProperties, LenProperties
<1> HIDE DEF t
<1>2. DOMAIN t = 1 .. Len(s) + 1 /\ DOMAIN s = 1 .. Len(s)
  BY <1>1, LenProperties
<1>3. \A i \in 1 .. Len(s) + 1 : i \in 1 .. Len(s) \/ i = Len(s) + 1
  BY <1>1
<1>4. Len(s) + 1 \in 1 .. Len(s) + 1 /\ \A i \in 1 .. Len(s) : i \in 1 .. Len(s) + 1
  BY <1>1
<1>5. ToSet(t) = ToSet(s) \cup {x}
  <2>1. ASSUME NEW y \in ToSet(t) PROVE y \in ToSet(s) \cup {x}
    BY <1>1, <1>2, <1>3, <2>1 DEF ToSet
  <2>2. ASSUME NEW y \in ToSet(s) PROVE y \in ToSet(t)
    BY <1>1, <1>2, <1>4, <2>2 DEF ToSet
  <2>3. x \in ToSet(t)
    BY <1>1, <1>2, <1>4 DEF ToSet
  <2>4. QED
    BY <2>1, <2>2, <2>3
<1>6. IsInjective(t)
  <2>1. \A i \in 1 .. Len(s) : s[i] # x
    BY <1>2 DEF ToSet
  <2>2. \A i, k \in 1 .. Len(s) : s[i] = s[k] => i = k
    BY <1>2 DEF IsInjective
  <2>3. ASSUME NEW i \in 1 .. Len(s) + 1, NEW k \in 1 .. Len(s) + 1, t[i] = t[k] PROVE i = k
    <3>1. CASE i \in 1 .. Len(s) /\ k \in 1 .. Len(s)
      BY <1>1, <2>2, <2>3, <3>1
    <3>2. CASE i \notin 1 .. Len(s) \/ k \notin 1 .. Len(s)
      BY <1>1, <1>3, <2>1, <2>3, <3>2
    <3>3. QED
      BY <3>1, <3>2
  <2>4. QED
    BY <1>2, <2>3 DEF IsInjective
<1>7. QED
  BY <1>1, <1>5, <1>6 DEF t

\* A hole that is taken from the list.
LEMMA TakeHole ==
  ASSUME NEW s \in Seq(Nat), s # <<>>, IsInjective(s)
  PROVE  /\ Front(s) \in Seq(Nat) /\ Len(Front(s)) = Len(s) - 1 /\ Len(s) \in Nat /\ Len(s) >= 1
         /\ Last(s) \in Nat /\ Last(s) \notin ToSet(Front(s))
         /\ ToSet(s) = ToSet(Front(s)) \cup {Last(s)} /\ IsInjective(Front(s))
<1> DEFINE f == Front(s)
           n == Len(s)
<1>1. n \in Nat /\ n >= 1 /\ DOMAIN s = 1 .. n /\ n \in 1 .. n
  BY LenProperties, EmptySeq
<1>2. f \in Seq(Nat) /\ Len(f) = n - 1 /\ \A i \in 1 .. n - 1 : f[i] = s[i]
  <2>1. 1 \in 1 .. n + 1 /\ n - 1 \in 0 .. n
    BY <1>1
  <2>2. /\ SubSeq(s, 1, n - 1) \in Seq(Nat)
        /\ Len(SubSeq(s, 1, n - 1)) = n - 1
        /\ \A i \in 1 .. n - 1 : SubSeq(s, 1, n - 1)[i] = s[i]
    BY <1>1
  <2>3. QED
    BY <2>2 DEF Front
<1> HIDE DEF f
<1>3. DOMAIN f = 1 .. n - 1
  BY <1>2, LenProperties
<1>4. Last(s) = s[n] /\ Last(s) \in Nat
  BY <1>1 DEF Last
<1>5. \A i, k \in 1 .. n : s[i] = s[k] => i = k
  BY <1>1 DEF IsInjective
<1> HIDE DEF n
<1>6. Last(s) \notin ToSet(f)
  <2>1. \A i \in 1 .. n - 1 : i \in 1 .. n /\ i # n
    BY <1>1
  <2>2. \A i \in 1 .. n - 1 : f[i] # s[n]
    BY <1>1, <1>2, <1>5, <2>1
  <2>3. QED
    BY <1>3, <1>4, <2>2 DEF ToSet
<1>7. ToSet(s) = ToSet(f) \cup {Last(s)}
  <2>1. \A i \in 1 .. n : i \in 1 .. n - 1 \/ i = n
    BY <1>1
  <2>2. \A i \in 1 .. n - 1 : i \in 1 .. n
    BY <1>1
  <2>3. ASSUME NEW y \in ToSet(s) PROVE y \in ToSet(f) \cup {Last(s)}
    BY <1>1, <1>2, <1>3, <1>4, <2>1, <2>3 DEF ToSet
  <2>4. ASSUME NEW y \in ToSet(f) PROVE y \in ToSet(s)
    BY <1>1, <1>2, <1>3, <2>2, <2>4 DEF ToSet
  <2>5. Last(s) \in ToSet(s)
    BY <1>1, <1>4 DEF ToSet
  <2>6. QED
    BY <2>3, <2>4, <2>5
<1>8. IsInjective(f)
  <2>1. \A i \in 1 .. n - 1 : i \in 1 .. n
    BY <1>1
  <2>2. QED
    BY <1>2, <1>3, <1>5, <2>1 DEF IsInjective
<1>9. QED
  BY <1>1, <1>2, <1>4, <1>6, <1>7, <1>8 DEF f, n

\* A slot that leaves the heap becomes a hole.
LEMMA SlotGivenUp ==
  ASSUME HeapInv, NEW slot \in Live, GrowHoles,
         mHoles' = Append(mHoles, slot), mCount' = mCount - 1, mKey' = mKey, mSize' = mSize,
         mHeap' \in [Positions(mSize) -> Nat], DOMAIN mIdx' = Slots(mSize),
         {mHeap'[p] : p \in 1 .. mCount - 1} = Live \ {slot},
         \A p \in 1 .. mCount - 1 : mIdx'[mHeap'[p]] = p,
         \A p \in 2 .. mCount - 1 : mKey[mHeap'[p \div 2]] <= mKey[mHeap'[p]]
  PROVE  HeapInv'
<1>1. /\ mCount \in Nat /\ mHoles \in Seq(Nat) /\ Len(mHoles) <= mHolesSize
      /\ mHolesSize \in Nat /\ mHolesSize > 1 /\ mSize \in Nat /\ mSize > 1
      /\ mCount + Len(mHoles) <= mSize /\ mKey \in [Slots(mSize) -> Int]
  BY DEF HeapInv
<1>2. /\ Live \cap ToSet(mHoles) = {} /\ IsInjective(mHoles)
      /\ Live \cup ToSet(mHoles) = 0 .. mCount + Len(mHoles) - 1
  BY DEF HeapInv, SlotsAccountedFor
<1>3. slot \in Nat /\ slot \notin ToSet(mHoles) /\ mCount >= 1
  <2>1. PICK p \in 1 .. mCount : slot = mHeap[p]
    BY DEF Live
  <2>2. QED
    BY <1>1, <1>2, <2>1, UsedSlots
<1>4. /\ mHoles' \in Seq(Nat) /\ Len(mHoles') = Len(mHoles) + 1 /\ Len(mHoles) \in Nat
      /\ ToSet(mHoles') = ToSet(mHoles) \cup {slot} /\ IsInjective(mHoles')
  BY <1>1, <1>2, <1>3, PutHole
<1>5. mHolesSize' \in Nat /\ mHolesSize' > 1 /\ Len(mHoles') <= mHolesSize'
  <2>1. CASE Len(mHoles) = mHolesSize
    <3>1. mHolesSize' = mHolesSize + mHolesSize \div 2
      BY <2>1 DEF GrowHoles, Grown
    <3>2. mHolesSize \div 2 \in Nat /\ mHolesSize \div 2 >= 1
      BY <1>1
    <3>3. QED
      BY <1>1, <1>4, <2>1, <3>1, <3>2
  <2>2. CASE Len(mHoles) # mHolesSize
    <3>1. mHolesSize' = mHolesSize
      BY <2>2 DEF GrowHoles
    <3>2. QED
      BY <1>1, <1>4, <2>2, <3>1
  <2>3. QED
    BY <2>1, <2>2
<1>6. Live' = Live \ {slot}
  BY DEF Live
<1>7. /\ mCount' \in Nat /\ mCount' + Len(mHoles') = mCount + Len(mHoles)
      /\ mCount' + Len(mHoles') - 1 = mCount + Len(mHoles) - 1
  BY <1>1, <1>3, <1>4
<1>8. SlotsAccountedFor'
  <2>1. Live' \cap ToSet(mHoles') = {}
    BY <1>2, <1>4, <1>6
  <2>2. Live' \cup ToSet(mHoles') = 0 .. mCount' + Len(mHoles') - 1
    <3>1. Live' \cup ToSet(mHoles') = Live \cup ToSet(mHoles)
      BY <1>4, <1>6
    <3>2. QED
      BY <1>2, <1>7, <3>1, Zenon
  <2>3. \A i \in 1 .. mCount' : mIdx'[mHeap'[i]] = i
    OBVIOUS
  <2>4. QED
    BY <1>4, <2>1, <2>2, <2>3 DEF SlotsAccountedFor
<1>9. HeapOrdered'
  BY DEF HeapOrdered, KeyAt
<1>10. QED
  BY <1>1, <1>4, <1>5, <1>7, <1>8, <1>9 DEF HeapInv

\* The slots but one.
LEMMA LiveButOne ==
  ASSUME HeapInv, NEW i \in 1 .. mCount
  PROVE  /\ mHeap[i] \in Live
         /\ Live \ {mHeap[i]} = {mHeap[p] : p \in (1 .. mCount) \ {i}}
         /\ i # mCount => Live \ {mHeap[i]} = {mHeap[mCount]} \cup {mHeap[p] : p \in (1 .. mCount - 1) \ {i}}
<1>1. \A p \in 1 .. mCount, q \in 1 .. mCount : mHeap[p] = mHeap[q] => p = q
  BY UsedSlots
<1>2. mHeap[i] \in Live /\ Live \ {mHeap[i]} = {mHeap[p] : p \in (1 .. mCount) \ {i}}
  BY <1>1 DEF Live
<1>3. mCount \in Nat
  BY DEF HeapInv
<1>4. i # mCount => (1 .. mCount) \ {i} = {mCount} \cup ((1 .. mCount - 1) \ {i})
  BY <1>3
<1>5. i # mCount => {mHeap[p] : p \in (1 .. mCount) \ {i}} = {mHeap[mCount]} \cup {mHeap[p] : p \in (1 .. mCount - 1) \ {i}}
  <2>1. SUFFICES ASSUME i # mCount
                 PROVE  {mHeap[p] : p \in (1 .. mCount) \ {i}} = {mHeap[mCount]} \cup {mHeap[p] : p \in (1 .. mCount - 1) \ {i}}
    OBVIOUS
  <2>2. \A p : p \in (1 .. mCount) \ {i} <=> p = mCount \/ p \in (1 .. mCount - 1) \ {i}
    BY <1>3, <2>1
  <2>3. QED
    BY <2>2
<1>6. QED
  BY <1>2, <1>5

\* An item that is taken out, when the last one takes its place or it is the last.
LEMMA TakenOut ==
  ASSUME HeapInv, NEW i \in 1 .. mCount, NEW idx, DOMAIN idx = Slots(mSize),
         \A p \in 1 .. mCount : p # i => idx[mHeap[p]] = p,
         NEW j, j = Rest(i, KeyAt(i), KeyAt(mCount)),
         NEW h, h = Shifted(mHeap, mHeap[mCount], i, j)
  PROVE  /\ h \in [Positions(mSize) -> Nat]
         /\ {h[p] : p \in 1 .. mCount - 1} = Live \ {mHeap[i]}
         /\ DOMAIN Told(idx, h, i, j) = Slots(mSize)
         /\ \A p \in 1 .. mCount - 1 : Told(idx, h, i, j)[h[p]] = p
         /\ \A p \in 2 .. mCount - 1 : mKey[h[p \div 2]] <= mKey[h[p]]
<1> DEFINE key == KeyAt(mCount)
           slot == mHeap[mCount]
<1>1. mCount \in Nat /\ mCount \in 1 .. mCount /\ i \in Nat
  BY DEF HeapInv
<1>2. key \in Int /\ KeyAt(i) \in Int /\ mKey[slot] = key
  BY <1>1, UsedSlots DEF KeyAt
<1> HIDE DEF key, slot
<1>3. CASE i = mCount
  <2>1. Moves(mCount, i, key, slot, idx)
    BY <1>1, <1>2, <1>3 DEF Moves, slot
  <2>2. Moved(mCount, i, key, slot, idx, j, h)
    BY <2>1, MoveInHeap DEF key, slot
  <2>3. /\ j \in 1 .. mCount
        /\ h \in [Positions(mSize) -> Nat]
        /\ \A p \in 1 .. mCount, q \in 1 .. mCount : h[p] = h[q] => p = q
        /\ {h[p] : p \in 1 .. mCount} = {slot} \cup {mHeap[p] : p \in (1 .. mCount) \ {i}}
        /\ DOMAIN Told(idx, h, i, j) = Slots(mSize)
        /\ \A p \in 1 .. mCount : Told(idx, h, i, j)[h[p]] = p
        /\ \A K : K[slot] = key /\ (\A p \in 1 .. mCount : p # i => K[mHeap[p]] = KeyAt(p))
                    => \A p \in 2 .. mCount : K[h[p \div 2]] <= K[h[p]]
    BY <2>2 DEF Moved
  <2>4. j = mCount
    <3>1. ~(KeyAt(mCount) < KeyAt(i))
      BY <1>2, <1>3
    <3>2. j = Sunk(i, KeyAt(mCount))
      BY <3>1 DEF Rest
    <3>3. i \in Way[j]
      <4>1. KeyAt(mCount) \in Int /\ \A p \in 1 .. mCount : KeyAt(p) \in Int
        BY <1>1, UsedSlots
      <4>2. QED
        BY <1>1, <3>2, <4>1, SunkIs
    <3>4. i <= j
      <4>1. j \in Nat
        BY <2>3
      <4>2. QED
        BY <1>1, <3>3, <4>1, WayRange
    <3>5. QED
      BY <1>1, <1>3, <2>3, <3>4
  <2>5. h[mCount] = slot
    <3>1. mCount \in DOMAIN mHeap
      BY <1>1, UsedSlots DEF HeapInv, Positions
    <3>2. QED
      BY <2>4, <3>1 DEF Shifted, slot
  <2>6. \A p : p \in 1 .. mCount - 1 <=> p \in 1 .. mCount /\ p # mCount
    BY <1>1
  <2>7. {h[p] : p \in 1 .. mCount - 1} = {h[p] : p \in 1 .. mCount} \ {slot}
    BY <1>1, <2>3, <2>5, <2>6
  <2>8. {h[p] : p \in 1 .. mCount - 1} = Live \ {mHeap[i]}
    <3>1. slot \notin {mHeap[p] : p \in (1 .. mCount) \ {i}}
      BY <1>1, <1>3, UsedSlots DEF slot
    <3>2. Live \ {mHeap[i]} = {mHeap[p] : p \in (1 .. mCount) \ {i}}
      BY LiveButOne
    <3>3. {h[p] : p \in 1 .. mCount} = {slot} \cup {mHeap[p] : p \in (1 .. mCount) \ {i}}
      BY <2>3
    <3>4. QED
      BY <2>7, <3>1, <3>2, <3>3
  <2>9. \A p \in 2 .. mCount : mKey[h[p \div 2]] <= mKey[h[p]]
    BY <1>2, <2>3 DEF KeyAt
  <2>10. \A p \in 2 .. mCount - 1 : p \in 2 .. mCount
    BY <1>1
  <2>11. QED
    BY <2>3, <2>6, <2>8, <2>9, <2>10
<1>4. CASE i # mCount
  <2> DEFINE n == mCount - 1
  <2>1. n \in 0 .. mCount /\ i \in 1 .. n /\ \A p \in 1 .. n : p \in 1 .. mCount
    BY <1>1, <1>4
  <2>2. Moves(n, i, key, slot, idx)
    <3>1. n = mCount - 1 /\ slot = mHeap[mCount] /\ key = KeyAt(mCount)
      BY DEF slot, key
    <3> HIDE DEF n
    <3>2. QED
      BY <1>2, <2>1, <3>1 DEF Moves
  <2>3. Moved(n, i, key, slot, idx, j, h)
    BY <2>2, MoveInHeap DEF key, slot
  <2>4. /\ h \in [Positions(mSize) -> Nat]
        /\ {h[p] : p \in 1 .. n} = {slot} \cup {mHeap[p] : p \in (1 .. n) \ {i}}
        /\ DOMAIN Told(idx, h, i, j) = Slots(mSize)
        /\ \A p \in 1 .. n : Told(idx, h, i, j)[h[p]] = p
        /\ \A K : K[slot] = key /\ (\A p \in 1 .. n : p # i => K[mHeap[p]] = KeyAt(p))
                    => \A p \in 2 .. n : K[h[p \div 2]] <= K[h[p]]
    BY <2>3 DEF Moved
  <2>5. {h[p] : p \in 1 .. n} = Live \ {mHeap[i]}
    BY <1>4, <2>4, LiveButOne DEF slot
  <2>6. \A p \in 2 .. n : mKey[h[p \div 2]] <= mKey[h[p]]
    BY <1>2, <2>4 DEF KeyAt
  <2>7. QED
    BY <2>4, <2>5, <2>6
<1>5. QED
  BY <1>3, <1>4

\* LHeap_Remove keeps the heap.
LEMMA RemoveKeeps ==
  ASSUME HeapInv, NEW slot \in Live, HeapRemove(slot)
  PROVE  HeapInv' /\ Live' = Live \ {slot}
<1> DEFINE i == mIdx[slot]
           last == mHeap[mCount]
           j == Rest(i, mKey[slot], mKey[last])
           h == Shifted(mHeap, last, i, j)
<1>1. /\ mHeap' = h /\ mIdx' = [Told(mIdx, h, i, j) EXCEPT ![slot] = HeapEmptySlot]
      /\ GrowHoles /\ mHoles' = Append(mHoles, slot) /\ mCount' = mCount - 1
      /\ mKey' = mKey /\ mSize' = mSize
  BY DEF HeapRemove
<1>2. i \in 1 .. mCount /\ slot = mHeap[i] /\ mKey[slot] = KeyAt(i) /\ mKey[last] = KeyAt(mCount)
  <2>1. PICK x \in 1 .. mCount : slot = mHeap[x]
    BY DEF Live
  <2>2. i = x
    BY <2>1, UsedSlots
  <2>3. QED
    BY <2>1, <2>2 DEF KeyAt
<1>3. DOMAIN mIdx = Slots(mSize) /\ \A p \in 1 .. mCount : p # i => mIdx[mHeap[p]] = p
  BY UsedSlots DEF HeapInv
<1>4. j = Rest(i, KeyAt(i), KeyAt(mCount)) /\ h = Shifted(mHeap, mHeap[mCount], i, j)
  BY <1>2
<1> HIDE DEF i, last, j, h
<1>5. /\ h \in [Positions(mSize) -> Nat]
      /\ {h[p] : p \in 1 .. mCount - 1} = Live \ {mHeap[i]}
      /\ DOMAIN Told(mIdx, h, i, j) = Slots(mSize)
      /\ \A p \in 1 .. mCount - 1 : Told(mIdx, h, i, j)[h[p]] = p
      /\ \A p \in 2 .. mCount - 1 : mKey[h[p \div 2]] <= mKey[h[p]]
  BY <1>2, <1>3, <1>4, TakenOut
<1>6. DOMAIN mIdx' = Slots(mSize)
  BY <1>1, <1>5
<1>7. \A p \in 1 .. mCount - 1 : mIdx'[h[p]] = p
  <2>1. \A p \in 1 .. mCount - 1 : h[p] # slot
    BY <1>2, <1>5
  <2>2. \A p \in 1 .. mCount - 1 : h[p] \in Slots(mSize)
    <3>1. \A p \in 1 .. mCount - 1 : h[p] \in Live
      BY <1>5
    <3>2. QED
      BY <3>1, UsedSlots DEF Live
  <2>3. QED
    BY <1>1, <1>5, <2>1, <2>2
<1>8. Live' = Live \ {slot}
  BY <1>1, <1>2, <1>5 DEF Live
<1>9. QED
  BY <1>1, <1>2, <1>5, <1>6, <1>7, <1>8, SlotGivenUp

\* LHeap_ExtractMin keeps the heap.
LEMMA ExtractMinKeeps ==
  ASSUME HeapInv, HeapExtractMin
  PROVE  HeapInv' /\ mHeap[1] \in Live /\ Live' = Live \ {mHeap[1]}
<1> DEFINE last == mHeap[mCount]
           j == Sunk(1, mKey[last])
           h == Shifted(mHeap, last, 1, j)
           idx == [mIdx EXCEPT ![mHeap[1]] = HeapEmptySlot]
<1>1. /\ mCount > 0 /\ mHeap' = h /\ mIdx' = Told(idx, h, 1, j)
      /\ GrowHoles /\ mHoles' = Append(mHoles, mHeap[1]) /\ mCount' = mCount - 1
      /\ mKey' = mKey /\ mSize' = mSize
  BY DEF HeapExtractMin
<1>2. 1 \in 1 .. mCount /\ mCount \in Nat /\ mCount \in 1 .. mCount /\ mKey[last] = KeyAt(mCount)
  BY <1>1 DEF HeapInv, KeyAt
<1>3. DOMAIN idx = Slots(mSize) /\ \A p \in 1 .. mCount : p # 1 => idx[mHeap[p]] = p
  <2>1. DOMAIN mIdx = Slots(mSize)
    BY DEF HeapInv
  <2>2. \A p \in 1 .. mCount : p # 1 => mHeap[p] # mHeap[1] /\ mIdx[mHeap[p]] = p /\ mHeap[p] \in Slots(mSize)
    BY <1>2, UsedSlots
  <2>3. QED
    BY <2>1, <2>2
<1>4. j = Rest(1, KeyAt(1), KeyAt(mCount)) /\ h = Shifted(mHeap, mHeap[mCount], 1, j)
  <2>1. KeyAt(1) <= KeyAt(mCount) /\ KeyAt(1) \in Int /\ KeyAt(mCount) \in Int
    BY <1>2, RootIsSmallest, UsedSlots
  <2>2. ~(KeyAt(mCount) < KeyAt(1))
    BY <2>1
  <2>3. QED
    BY <1>2, <2>2 DEF Rest
<1> HIDE DEF last, j, h, idx
<1>5. /\ h \in [Positions(mSize) -> Nat]
      /\ {h[p] : p \in 1 .. mCount - 1} = Live \ {mHeap[1]}
      /\ DOMAIN Told(idx, h, 1, j) = Slots(mSize)
      /\ \A p \in 1 .. mCount - 1 : Told(idx, h, 1, j)[h[p]] = p
      /\ \A p \in 2 .. mCount - 1 : mKey[h[p \div 2]] <= mKey[h[p]]
  BY <1>2, <1>3, <1>4, TakenOut
<1>6. mHeap[1] \in Live
  BY <1>2, LiveButOne
<1>7. Live' = Live \ {mHeap[1]}
  BY <1>1, <1>5 DEF Live
<1>8. HeapInv'
  BY <1>1, <1>5, <1>6, SlotGivenUp
<1>9. QED
  BY <1>6, <1>7, <1>8

\* The slot that LHeap_Add takes and the holes that it leaves.
SlotTaken == IF mHoles # <<>> THEN Last(mHoles) ELSE mCount
HolesLeft == IF mHoles = <<>> THEN <<>> ELSE Front(mHoles)
SizeAfter == IF mCount = mSize THEN Grown(mSize) ELSE mSize

\* There is room for one more, and the slot is nobody's.
LEMMA TakesSlot ==
  ASSUME HeapInv
  PROVE  /\ SizeAfter \in Nat /\ SizeAfter > 1 /\ SizeAfter >= mSize /\ mCount + 1 \in 1 .. SizeAfter
         /\ SlotTaken \in Slots(SizeAfter) /\ SlotTaken \in Nat /\ SlotTaken \notin Live
         /\ HolesLeft \in Seq(Nat) /\ Len(HolesLeft) \in Nat /\ Len(HolesLeft) <= mHolesSize
         /\ mCount + 1 + Len(HolesLeft) <= SizeAfter
         /\ IsInjective(HolesLeft)
         /\ (Live \cup {SlotTaken}) \cap ToSet(HolesLeft) = {}
         /\ (Live \cup {SlotTaken}) \cup ToSet(HolesLeft) = 0 .. mCount + 1 + Len(HolesLeft) - 1
<1>1. /\ mCount \in Nat /\ mHoles \in Seq(Nat) /\ Len(mHoles) <= mHolesSize
      /\ mHolesSize \in Nat /\ mSize \in Nat /\ mSize > 1
      /\ mCount + Len(mHoles) <= mSize /\ Len(mHoles) \in Nat
  BY LenProperties DEF HeapInv
<1>2. /\ Live \cap ToSet(mHoles) = {} /\ IsInjective(mHoles)
      /\ Live \cup ToSet(mHoles) = 0 .. mCount + Len(mHoles) - 1
  BY DEF HeapInv, SlotsAccountedFor
<1>3. SizeAfter \in Nat /\ SizeAfter > 1 /\ SizeAfter >= mSize /\ mCount + 1 \in 1 .. SizeAfter
  <2>1. mSize \div 2 \in Nat /\ mSize \div 2 >= 1
    BY <1>1
  <2>2. SizeAfter = mSize + mSize \div 2 \/ (SizeAfter = mSize /\ mCount # mSize)
    BY DEF SizeAfter, Grown
  <2>3. QED
    BY <1>1, <2>1, <2>2
<1>4. CASE mHoles = <<>>
  <2>1. HolesLeft = <<>> /\ SlotTaken = mCount
    BY <1>4 DEF HolesLeft, SlotTaken
  <2>2. Len(mHoles) = 0 /\ ToSet(mHoles) = {} /\ Live = 0 .. mCount - 1
    <3>1. Len(mHoles) = 0
      BY <1>4
    <3>2. ToSet(mHoles) = {}
      BY <1>4 DEF ToSet
    <3>3. mCount + Len(mHoles) - 1 = mCount - 1
      BY <1>1, <3>1
    <3>4. QED
      BY <1>2, <3>1, <3>2, <3>3
  <2>3. SlotTaken \notin Live /\ SlotTaken \in Slots(SizeAfter) /\ SlotTaken \in Nat
    BY <1>1, <1>3, <2>1, <2>2 DEF Slots
  <2>4. Live \cup {SlotTaken} = 0 .. mCount
    BY <1>1, <2>1, <2>2
  <2>5. ToSet(HolesLeft) = {} /\ Len(HolesLeft) = 0 /\ HolesLeft \in Seq(Nat) /\ IsInjective(HolesLeft)
    BY <1>1, <1>2, <1>4, <2>1, <2>2
  <2>6. mCount + 1 + Len(HolesLeft) - 1 = mCount
    BY <1>1, <2>5
  <2>7. mCount + 1 + Len(HolesLeft) <= SizeAfter /\ Len(HolesLeft) <= mHolesSize
    BY <1>1, <1>3, <2>5
  <2>8. QED
    BY <1>3, <2>3, <2>4, <2>5, <2>6, <2>7
<1>5. CASE mHoles # <<>>
  <2>1. HolesLeft = Front(mHoles) /\ SlotTaken = Last(mHoles)
    BY <1>5 DEF HolesLeft, SlotTaken
  <2>2. /\ HolesLeft \in Seq(Nat) /\ Len(HolesLeft) = Len(mHoles) - 1 /\ Len(mHoles) >= 1
        /\ SlotTaken \in Nat /\ SlotTaken \notin ToSet(HolesLeft)
        /\ ToSet(mHoles) = ToSet(HolesLeft) \cup {SlotTaken} /\ IsInjective(HolesLeft)
    BY <1>1, <1>2, <1>5, <2>1, TakeHole
  <2>3. SlotTaken \notin Live
    BY <1>2, <2>2
  <2>4. SlotTaken \in 0 .. mCount + Len(mHoles) - 1
    BY <1>2, <2>2
  <2>5. SlotTaken \in Slots(SizeAfter)
    BY <1>1, <1>3, <2>4 DEF Slots
  <2>6. Len(HolesLeft) \in Nat /\ Len(HolesLeft) <= mHolesSize /\ mCount + 1 + Len(HolesLeft) <= SizeAfter
        /\ mCount + 1 + Len(HolesLeft) - 1 = mCount + Len(mHoles) - 1
    BY <1>1, <1>3, <2>2
  <2>7. (Live \cup {SlotTaken}) \cup ToSet(HolesLeft) = Live \cup ToSet(mHoles)
    BY <2>2
  <2>8. (Live \cup {SlotTaken}) \cap ToSet(HolesLeft) = {}
    BY <1>2, <2>2
  <2>9. QED
    BY <1>2, <1>3, <2>2, <2>3, <2>5, <2>6, <2>7, <2>8
<1>6. QED
  BY <1>4, <1>5

\* LHeap_Add keeps the heap, and changes no other entry.
LEMMA AddKeeps ==
  ASSUME HeapInv, NEW key \in HeapKeys, HeapAdd(key)
  PROVE  /\ HeapInv' /\ SlotTaken \notin Live /\ Live' = Live \cup {SlotTaken}
         /\ \A s \in Live : mKey'[s] = mKey[s]
<1> DEFINE size == SizeAfter
           slot == SlotTaken
           i == mCount + 1
           j == Risen(i, key)
           R == Resized(mHeap, Positions(size))
           idx == Resized(mIdx, Slots(size))
           h == Shifted(R, slot, i, j)
<1>1. /\ mSize' = size /\ mCount' = i /\ mHoles' = HolesLeft /\ mHeap' = h
      /\ mIdx' = Told(idx, h, i, j) /\ mKey' = [Resized(mKey, Slots(size)) EXCEPT ![slot] = key]
      /\ mHolesSize' = mHolesSize
  BY DEF HeapAdd, SizeAfter, SlotTaken, HolesLeft
<1>2. /\ mCount \in Nat /\ mHolesSize \in Nat /\ mHolesSize > 1 /\ mSize \in Nat
      /\ mHeap \in [1 .. mSize -> Nat] /\ mKey \in [Slots(mSize) -> Int] /\ DOMAIN mIdx = Slots(mSize)
      /\ mCount \in 0 .. mSize
  BY UsedSlots DEF HeapInv, Positions
<1>3. /\ size \in Nat /\ size > 1 /\ size >= mSize /\ i \in 1 .. size
      /\ slot \in Slots(size) /\ slot \in Nat /\ slot \notin Live
      /\ HolesLeft \in Seq(Nat) /\ Len(HolesLeft) \in Nat /\ Len(HolesLeft) <= mHolesSize
      /\ i + Len(HolesLeft) <= size
      /\ IsInjective(HolesLeft)
      /\ (Live \cup {slot}) \cap ToSet(HolesLeft) = {}
      /\ (Live \cup {slot}) \cup ToSet(HolesLeft) = 0 .. i + Len(HolesLeft) - 1
  BY TakesSlot
<1>4. key \in Int /\ Garbage \in Nat
  BY HeapAssumption DEF Garbage
<1> HIDE DEF size, slot
<1>5. R \in [1 .. size -> Nat] /\ \A p \in 1 .. mCount : R[p] = mHeap[p]
  <2>1. R = [x \in 1 .. size |-> IF x \in 1 .. mSize THEN mHeap[x] ELSE Garbage]
    BY <1>2 DEF Resized, Positions
  <2>2. \A p \in 1 .. mCount : p \in 1 .. mSize /\ p \in 1 .. size
    BY <1>2, <1>3
  <2> HIDE DEF R
  <2>3. QED
    BY <1>2, <1>4, <2>1, <2>2
<1>6. \A s \in Slots(mSize) : s \in Slots(size)
  BY <1>2, <1>3 DEF Slots
<1>7. DOMAIN idx = Slots(size) /\ \A p \in 1 .. mCount : idx[mHeap[p]] = p /\ mHeap[p] \in Slots(size)
  <2>1. \A p \in 1 .. mCount : mHeap[p] \in Slots(mSize) /\ mIdx[mHeap[p]] = p
    BY UsedSlots
  <2>2. QED
    BY <1>2, <1>6, <2>1 DEF Resized
<1>8. /\ mKey' \in [Slots(size) -> Int] /\ mKey'[slot] = key
      /\ \A s \in Live : mKey'[s] = mKey[s]
  <2> DEFINE K == Resized(mKey, Slots(size))
  <2>1. K \in [Slots(size) -> Int]
    BY <1>2, <1>4 DEF Resized
  <2>2. \A s \in Live : s \in Slots(mSize)
    BY UsedSlots DEF Live
  <2>3. \A s \in Slots(mSize) : K[s] = mKey[s]
    BY <1>2, <1>6 DEF Resized
  <2> HIDE DEF K
  <2>4. mKey' = [K EXCEPT ![slot] = key]
    BY <1>1 DEF K
  <2>5. QED
    BY <1>3, <1>4, <1>6, <2>1, <2>2, <2>3, <2>4
<1>9. i \in Nat /\ i \in 1 .. i /\ (\A p \in 1 .. i : p # i <=> p \in 1 .. mCount) /\ \A p \in 1 .. mCount : KeyAt(p) \in Int
  BY <1>2, UsedSlots
<1>10. /\ j \in Way[i] /\ j \in 1 .. i
       /\ j > 1 => KeyAt(j \div 2) <= key
       /\ \A p \in Chain(j, i) : p # j => key < KeyAt(p \div 2)
  <2>1. \A p \in 1 .. i : p < i => KeyAt(p) \in Int
    BY <1>2, <1>9
  <2> HIDE DEF i
  <2>2. QED
    BY <1>4, <1>9, <2>1, RisenIs
<1> HIDE DEF j, R, idx
<1>11. CanMove(size, i, R, slot, i, j, idx)
  <2>1. \A p \in 1 .. mCount : R[p] \in DOMAIN idx /\ idx[R[p]] = p /\ R[p] # slot
    BY <1>3, <1>5, <1>7 DEF Live
  <2>2. i \in 0 .. size
    BY <1>3
  <2> HIDE DEF i
  <2>3. QED
    BY <1>3, <1>5, <1>7, <1>9, <1>10, <2>1, <2>2 DEF CanMove
<1>12. HasMoved(size, i, R, slot, i, j, idx, h)
  BY <1>11, MovedHeap
<1> HIDE DEF h, i
<1>13. /\ h \in [1 .. size -> Nat]
       /\ \A p \in 1 .. i : h[p] = IF Source(i, j, p) = i THEN slot ELSE R[Source(i, j, p)]
       /\ {h[p] : p \in 1 .. i} = {slot} \cup {R[p] : p \in (1 .. i) \ {i}}
       /\ DOMAIN Told(idx, h, i, j) = DOMAIN idx
       /\ \A p \in 1 .. i : Told(idx, h, i, j)[h[p]] = p
  BY <1>12 DEF HasMoved
<1>14. Live' = Live \cup {slot}
  <2>1. {R[p] : p \in (1 .. i) \ {i}} = Live
    <3>1. \A p : p \in (1 .. i) \ {i} <=> p \in 1 .. mCount
      BY <1>2 DEF i
    <3>2. QED
      BY <1>5, <3>1 DEF Live
  <2>2. Live' = {h[p] : p \in 1 .. i}
    BY <1>1 DEF Live
  <2>3. QED
    BY <1>13, <2>1, <2>2
<1> DEFINE k == [p \in 1 .. i |-> IF p = i THEN key ELSE KeyAt(p)]
<1>15. k \in [1 .. i -> Int] /\ \A p \in 1 .. i : p # i => k[p] = KeyAt(p)
  BY <1>4, <1>9
<1> HIDE DEF k
<1>16. \A p \in 2 .. i : KeyOfSource(k, key, i, j, p \div 2) <= KeyOfSource(k, key, i, j, p)
  <2>1. \A p \in 2 .. i : p \div 2 # i
    BY <1>9
  <2>2. ASSUME NEW p \in 2 .. i, p # i PROVE k[p \div 2] <= k[p]
    <3>1. p \in 2 .. mCount /\ p \in 1 .. i /\ p \div 2 \in 1 .. i /\ p \div 2 # i
      BY <1>2, <1>9, <2>2 DEF i
    <3>2. KeyAt(p \div 2) <= KeyAt(p)
      BY <3>1 DEF HeapInv, HeapOrdered
    <3>3. QED
      BY <1>15, <2>2, <3>1, <3>2
  <2>3. OrderedBut(k, i, i)
    BY <2>1, <2>2 DEF OrderedBut
  <2>4. j > 1 => k[j \div 2] <= key
    <3>1. SUFFICES ASSUME j > 1 PROVE k[j \div 2] <= key
      OBVIOUS
    <3>2. j \div 2 \in 1 .. i /\ j \div 2 # i
      BY <1>9, <1>10, <3>1
    <3>3. QED
      BY <1>10, <1>15, <3>1, <3>2
  <2>5. \A p \in Chain(j, i) : p # j => key < k[p \div 2]
    <3>1. SUFFICES ASSUME NEW p \in Chain(j, i), p # j PROVE key < k[p \div 2]
      OBVIOUS
    <3>2. p \div 2 \in Chain(j, i) /\ p \div 2 # i
      BY <1>9, <1>10, <3>1, ChainProperties
    <3>3. p \div 2 \in Nat /\ j <= p \div 2 /\ p \div 2 <= i
      BY <1>9, <1>10, <3>2, ChainProperties
    <3>4. p \div 2 \in 1 .. i
      BY <1>9, <1>10, <3>3
    <3>5. QED
      BY <1>10, <1>15, <3>1, <3>2, <3>4
  <2>6. \A p \in 2 .. i : p \div 2 = i => key <= k[p]
    BY <2>1
  <2>7. QED
    BY <1>4, <1>9, <1>10, <1>15, <2>3, <2>4, <2>5, <2>6, RiseOrder
<1>17. \A p \in 1 .. i : mKey'[h[p]] = KeyOfSource(k, key, i, j, p)
  <2>1. TAKE p \in 1 .. i
  <2>2. Source(i, j, p) \in 1 .. i
    BY <1>9, <1>10, SourceProperties
  <2>3. CASE Source(i, j, p) = i
    <3>1. h[p] = slot
      BY <1>13, <2>3
    <3>2. QED
      BY <1>8, <2>3, <3>1 DEF KeyOfSource
  <2>4. CASE Source(i, j, p) # i
    <3> DEFINE q == Source(i, j, p)
    <3>1. q \in 1 .. mCount /\ q \in 1 .. i /\ q # i
      BY <1>9, <2>2, <2>4
    <3>2. h[p] = R[q]
      BY <1>13, <2>4
    <3>3. KeyOfSource(k, key, i, j, p) = k[q]
      BY <2>4 DEF KeyOfSource
    <3> HIDE DEF q
    <3>4. h[p] = mHeap[q] /\ mHeap[q] \in Live
      BY <1>5, <3>1, <3>2 DEF Live
    <3>5. mKey'[h[p]] = KeyAt(q)
      BY <1>8, <3>4 DEF KeyAt
    <3>6. QED
      BY <1>15, <3>1, <3>3, <3>5
  <2>5. QED
    BY <2>3, <2>4
<1>18. \A p \in 2 .. i : mKey'[h[p \div 2]] <= mKey'[h[p]]
  <2>1. TAKE p \in 2 .. i
  <2>2. p \in 1 .. i /\ p \div 2 \in 1 .. i
    BY <1>9
  <2>3. QED
    BY <1>16, <1>17, <2>2
<1>19. HeapOrdered'
  BY <1>1, <1>18 DEF HeapOrdered, KeyAt
<1>20. SlotsAccountedFor'
  BY <1>1, <1>3, <1>13, <1>14 DEF SlotsAccountedFor
<1>21. HeapInv'
  BY <1>1, <1>2, <1>3, <1>7, <1>8, <1>9, <1>13, <1>19, <1>20 DEF HeapInv, Positions
<1>22. QED
  BY <1>3, <1>8, <1>14, <1>21 DEF slot

\* The heap begins empty.
LEMMA HeapInvInit == HeapInit => HeapInv
<1>1. SUFFICES ASSUME HeapInit PROVE HeapInv
  OBVIOUS
<1>2. /\ mCount = 0 /\ mHoles = <<>> /\ mSize = HeapInitSize /\ mHolesSize = HeapInitSize
      /\ HeapInitSize \in Nat /\ HeapInitSize > 1 /\ Garbage \in Nat
      /\ mHeap = [i \in Positions(mSize) |-> Garbage]
      /\ mKey = [s \in Slots(mSize) |-> Garbage]
      /\ mIdx = [s \in Slots(mSize) |-> Garbage]
  BY <1>1, HeapAssumption DEF HeapInit, Garbage
<1>3. Live = {} /\ ToSet(mHoles) = {} /\ Len(mHoles) = 0 /\ mHoles \in Seq(Nat) /\ IsInjective(mHoles)
  <2>1. Live = {}
    BY <1>2 DEF Live
  <2>2. Len(mHoles) = 0 /\ mHoles \in Seq(Nat)
    BY <1>2
  <2>3. DOMAIN mHoles = {}
    BY <1>2
  <2>4. QED
    BY <2>1, <2>2, <2>3 DEF ToSet, IsInjective
<1>4. 0 .. mCount + Len(mHoles) - 1 = {}
  BY <1>2, <1>3
<1>5. SlotsAccountedFor
  BY <1>2, <1>3, <1>4 DEF SlotsAccountedFor
<1>6. HeapOrdered
  BY <1>2 DEF HeapOrdered
<1>7. mHeap \in [Positions(mSize) -> Nat] /\ mKey \in [Slots(mSize) -> Int] /\ DOMAIN mIdx = Slots(mSize)
  BY <1>2
<1>8. mCount + Len(mHoles) <= mSize /\ Len(mHoles) <= mHolesSize
  BY <1>2, <1>3
<1>9. QED
  BY <1>2, <1>3, <1>5, <1>6, <1>7, <1>8 DEF HeapInv

\* What one call does to the entries.
PriorityQueueStep ==
  \/ /\ DOMAIN Entries \subseteq DOMAIN Entries'
     /\ Cardinality(DOMAIN Entries') = Cardinality(DOMAIN Entries) + 1
     /\ \A s \in DOMAIN Entries : Entries'[s] = Entries[s]
  \/ \E s \in DOMAIN Entries, key \in HeapKeys : Entries' = [Entries EXCEPT ![s] = key]
  \/ \E s \in DOMAIN Entries :
       /\ Entries' = [t \in DOMAIN Entries \ {s} |-> Entries[t]]
       /\ HeapExtractMin => \A t \in DOMAIN Entries : Entries[s] <= Entries[t]

\* The entry at the root has a smallest key.
LEMMA RootEntry ==
  ASSUME HeapInv, mHeap[1] \in Live
  PROVE  \A t \in DOMAIN Entries : Entries[mHeap[1]] <= Entries[t]
<1>1. \A p \in 1 .. mCount : mKey[mHeap[1]] <= mKey[mHeap[p]]
  BY RootIsSmallest DEF KeyAt
<1>2. \A t \in Live : mKey[mHeap[1]] <= mKey[t]
  BY <1>1 DEF Live
<1>3. QED
  BY <1>2 DEF Entries

\* Each call keeps the heap and is one of a priority queue.
LEMMA HeapCallKeeps ==
  ASSUME HeapInv, HeapNext
  PROVE  HeapInv' /\ PriorityQueueStep
<1>1. DOMAIN Entries = Live /\ DOMAIN Entries' = Live' /\ \A s \in Live : Entries[s] = mKey[s]
  BY DEF Entries
<1>2. \A s \in Live' : Entries'[s] = mKey'[s]
  BY DEF Entries
<1>3. ASSUME NEW key \in HeapKeys, HeapAdd(key) PROVE HeapInv' /\ PriorityQueueStep
  <2>1. /\ HeapInv' /\ SlotTaken \notin Live /\ Live' = Live \cup {SlotTaken}
        /\ \A s \in Live : mKey'[s] = mKey[s]
    BY <1>3, AddKeeps
  <2>2. IsFiniteSet(Live)
    <3>1. mCount \in Nat /\ Len(mHoles) \in Nat
      BY LenProperties DEF HeapInv
    <3>2. mCount + Len(mHoles) - 1 \in Int /\ 0 \in Int
      BY <3>1
    <3>3. IsFiniteSet(0 .. mCount + Len(mHoles) - 1)
      BY <3>2, FS_Interval
    <3>4. Live \subseteq 0 .. mCount + Len(mHoles) - 1
      BY DEF HeapInv, SlotsAccountedFor
    <3>5. QED
      BY <3>3, <3>4, FS_Subset
  <2>3. Cardinality(Live') = Cardinality(Live) + 1
    BY <2>1, <2>2, FS_AddElement
  <2>4. \A s \in Live : Entries'[s] = Entries[s]
    BY <1>1, <1>2, <2>1
  <2>5. PriorityQueueStep
    BY <1>1, <2>1, <2>3, <2>4 DEF PriorityQueueStep
  <2>6. QED
    BY <2>1, <2>5
<1>4. ASSUME NEW slot \in Live, HeapRemove(slot) PROVE HeapInv' /\ PriorityQueueStep
  <2>1. HeapInv' /\ Live' = Live \ {slot}
    BY <1>4, RemoveKeeps
  <2>2. mKey' = mKey /\ mHoles' = Append(mHoles, slot)
    BY <1>4 DEF HeapRemove
  <2>3. Entries' = [t \in DOMAIN Entries \ {slot} |-> Entries[t]]
    BY <1>1, <2>1, <2>2 DEF Entries
  <2>4. HeapExtractMin => slot = mHeap[1]
    <3>1. SUFFICES ASSUME HeapExtractMin PROVE slot = mHeap[1]
      OBVIOUS
    <3>2. mHoles' = Append(mHoles, mHeap[1])
      BY <3>1 DEF HeapExtractMin
    <3>3. mHoles \in Seq(Nat) /\ slot \in Nat /\ mHeap[1] \in Nat
      <4>1. mHeap[1] \in Live
        BY <3>1, ExtractMinKeeps
      <4>2. \A s \in Live : s \in Nat
        BY UsedSlots DEF Live
      <4>3. QED
        BY <4>1, <4>2 DEF HeapInv
    <3>4. Append(mHoles, slot) = Append(mHoles, mHeap[1])
      BY <2>2, <3>2
    <3>5. QED
      BY <3>3, <3>4, AppendInjective
  <2>5. HeapExtractMin => \A t \in DOMAIN Entries : Entries[slot] <= Entries[t]
    BY <2>4, RootEntry
  <2>6. PriorityQueueStep
    BY <1>1, <2>3, <2>5 DEF PriorityQueueStep
  <2>7. QED
    BY <2>1, <2>6
<1>5. ASSUME NEW slot \in Live, NEW key \in HeapKeys, HeapUpdate(slot, key) PROVE HeapInv' /\ PriorityQueueStep
  <2>1. HeapInv' /\ Live' = Live
    BY <1>5, UpdateKeeps
  <2>2. mKey' = [mKey EXCEPT ![slot] = key]
    BY <1>5 DEF HeapUpdate
  <2>3. \A s \in Live : s \in DOMAIN mKey
    BY UsedSlots DEF Live, HeapInv
  <2>4. Entries' = [Entries EXCEPT ![slot] = key]
    BY <2>1, <2>2, <2>3 DEF Entries
  <2>5. PriorityQueueStep
    BY <1>1, <2>4 DEF PriorityQueueStep
  <2>6. QED
    BY <2>1, <2>5
<1>6. ASSUME HeapExtractMin PROVE HeapInv' /\ PriorityQueueStep
  <2>1. HeapInv' /\ mHeap[1] \in Live /\ Live' = Live \ {mHeap[1]}
    BY <1>6, ExtractMinKeeps
  <2>2. mKey' = mKey
    BY <1>6 DEF HeapExtractMin
  <2>3. Entries' = [t \in DOMAIN Entries \ {mHeap[1]} |-> Entries[t]]
    BY <1>1, <2>1, <2>2 DEF Entries
  <2>4. \A t \in DOMAIN Entries : Entries[mHeap[1]] <= Entries[t]
    BY <2>1, RootEntry
  <2>5. PriorityQueueStep
    BY <1>1, <2>1, <2>3, <2>4 DEF PriorityQueueStep
  <2>6. QED
    BY <2>1, <2>5
<1>7. QED
  BY <1>3, <1>4, <1>5, <1>6 DEF HeapNext

\* What the invariant says of the state.
LEMMA HeapInvImplies == HeapInv => HeapTypeOK /\ SlotsAccountedFor /\ HeapOrdered
  BY UsedSlots DEF HeapInv, HeapTypeOK

\* A step keeps the heap.
LEMMA HeapStepKeeps ==
  ASSUME HeapInv, [HeapNext]_heapVars
  PROVE  HeapInv' /\ [PriorityQueueStep]_heapVars
<1>1. CASE UNCHANGED heapVars
  BY <1>1 DEF HeapInv, heapVars, SlotsAccountedFor, HeapOrdered, Live, KeyAt
<1>2. QED
  BY <1>1, HeapCallKeeps

\* LHeap: every slot is in the heap or a hole and knows its place, and no key is
\* below that of its parent.
THEOREM HeapKeepsItsSlots == HeapSpec => [](HeapTypeOK /\ SlotsAccountedFor /\ HeapOrdered)
  BY HeapStepKeeps, HeapInvInit, HeapInvImplies, PTL DEF HeapSpec

\* LHeap is a priority queue: what LHeap_ExtractMin takes has a smallest key, and no
\* call changes another entry than the one that it names.
THEOREM HeapIsPriorityQueue == HeapSpec => IsPriorityQueue
<1>1. HeapSpec => [][PriorityQueueStep]_heapVars
  BY HeapStepKeeps, HeapInvInit, PTL DEF HeapSpec
<1>2. QED
  BY <1>1 DEF IsPriorityQueue, PriorityQueueStep

-----------------------------------------------------------------------------
(* The containers side by side.                                            *)

QueuesInv == HeapInv /\ QueueInv /\ StackInv

\* A step of one of them.
LEMMA QueuesStep ==
  ASSUME QueuesInv, [ContainersNext \/ BlocksNext]_containersVars
  PROVE  QueuesInv' /\ [PriorityQueueStep]_heapVars /\ [QueueStep]_queueVars /\ [StackStep]_diskVars
<1>1. [HeapNext]_heapVars
  BY DEF ContainersNext, BlocksNext, containersVars
<1>2. [QueueNext]_queueVars
  BY DEF ContainersNext, BlocksNext, containersVars
<1>3. CASE [DiskNext]_blocksVars
  BY <1>1, <1>2, <1>3, HeapStepKeeps, QueueCallKeeps, DiskCallKeeps DEF QueuesInv
<1>4. CASE UNCHANGED diskVars
  <2>1. StackInv' /\ [StackStep]_diskVars
    BY <1>4 DEF QueuesInv, StackInv, diskVars
  <2>2. QED
    BY <1>1, <1>2, <2>1, HeapStepKeeps, QueueCallKeeps DEF QueuesInv
<1>5. [DiskNext]_blocksVars \/ UNCHANGED diskVars
  BY DEF ContainersNext, BlocksNext, BlockNext, StoreNext, containersVars, blocksVars
<1>6. QED
  BY <1>3, <1>4, <1>5

\* Of the containers of the run: the heap is a priority queue, the circular array a
\* queue and the disk stack a stack, and every slot of the heap is accounted for.
THEOREM QueuesHoldTogether == Containers => QueuesKeepOrder /\ []SlotsAccountedFor
<1>1. ContainersInit => QueuesInv
  BY HeapInvInit, QueueInvInit, StackInvInit DEF ContainersInit, QueuesInv
<1>2. QueuesInv => SlotsAccountedFor
  BY HeapInvImplies DEF QueuesInv
<1>3. Containers => [][PriorityQueueStep]_heapVars /\ [][QueueStep]_queueVars /\ [][StackStep]_diskVars /\ []SlotsAccountedFor
  BY <1>1, <1>2, QueuesStep, PTL DEF Containers
<1>4. QED
  BY <1>3 DEF QueuesKeepOrder, IsPriorityQueue, PriorityQueueStep, IsQueue, QueueStep, IsStack, StackStep


-----------------------------------------------------------------------------
(* LXPBlock and LDataStore.                                                *)

\* A block has its types, its position is not behind its end, and what is in front of
\* the end are numbers.
BlockHolds(b) ==
  /\ b \in [Block : Seq(Nat \cup {Unset}), CurrPos : Nat, BlockSize : Nat]
  /\ b.CurrPos <= b.BlockSize /\ b.BlockSize <= Len(b.Block)
  /\ \A i \in 1 .. b.BlockSize : b.Block[i] \in Nat

\* The cells of memory that is made larger before it is written.
LEMMA GrownCells ==
  ASSUME NEW f \in Seq(Nat \cup {Unset}), NEW d \in Nat
  PROVE  /\ ResizedBy(f, d) \in Seq(Nat \cup {Unset}) /\ Len(ResizedBy(f, d)) = Len(f) + d
         /\ \A i \in 1 .. Len(f) : ResizedBy(f, d)[i] = f[i]
<1> DEFINE u == [i \in 1 .. d |-> Unset]
<1>1. u \in Seq(Nat \cup {Unset}) /\ Len(u) = d
  <2>1. u \in [1 .. d -> Nat \cup {Unset}]
    OBVIOUS
  <2>2. u \in Seq(Nat \cup {Unset})
    BY <2>1, IsASeq
  <2>3. DOMAIN u = 1 .. Len(u) /\ Len(u) \in Nat
    BY <2>2, LenProperties
  <2>4. QED BY <2>1, <2>2, <2>3
<1>2. ResizedBy(f, d) = f \o u
  BY DEF ResizedBy
<1> HIDE DEF u
<1>3. f \o u \in Seq(Nat \cup {Unset}) /\ Len(f \o u) = Len(f) + Len(u)
      /\ \A i \in 1 .. Len(f) : (f \o u)[i] = f[i]
  BY <1>1, ConcatProperties
<1>4. QED BY <1>1, <1>2, <1>3

\* What is copied to the position is there, what was elsewhere stays.
LEMMA CopiedCells ==
  ASSUME NEW f \in Seq(Nat \cup {Unset}), NEW s \in Seq(Nat), NEW o \in Nat, o + Len(s) <= Len(f)
  PROVE  /\ WrittenAt(f, o, s) \in Seq(Nat \cup {Unset}) /\ Len(WrittenAt(f, o, s)) = Len(f)
         /\ \A i \in 1 .. Len(f) :
              WrittenAt(f, o, s)[i] = IF i \in o + 1 .. o + Len(s) THEN s[i - o] ELSE f[i]
<1> DEFINE w == WrittenAt(f, o, s)
<1>1. Len(f) \in Nat /\ Len(s) \in Nat
  OBVIOUS
<1>2. Larger(Len(f), o + Len(s)) = Len(f)
  BY <1>1 DEF Larger
<1>3. w = [i \in 1 .. Len(f) |-> IF i \in o + 1 .. o + Len(s) THEN s[i - o]
                                 ELSE IF i <= Len(f) THEN f[i] ELSE 0]
  BY <1>2 DEF WrittenAt
<1>4. \A i \in 1 .. Len(f) : i \in o + 1 .. o + Len(s) => s[i - o] \in Nat
  BY <1>1
<1>5. w \in [1 .. Len(f) -> Nat \cup {Unset}]
  BY <1>1, <1>3, <1>4
<1>6. \A i \in 1 .. Len(f) : w[i] = IF i \in o + 1 .. o + Len(s) THEN s[i - o] ELSE f[i]
  BY <1>1, <1>3
<1> HIDE DEF w
<1>7. w \in Seq(Nat \cup {Unset})
  BY <1>1, <1>5, IsASeq
<1>8. DOMAIN w = 1 .. Len(w) /\ Len(w) \in Nat
  BY <1>7, LenProperties
<1>9. Len(w) = Len(f)
  BY <1>1, <1>5, <1>8
<1>10. QED BY <1>6, <1>7, <1>9 DEF w

\* LXPBlock_Write puts the data at the position, with memory made larger if need be.
LEMMA WrittenBlock ==
  ASSUME NEW b, BlockHolds(b), NEW s \in Seq(Nat)
  PROVE  /\ BlockHolds(Written(b, s))
         /\ Written(b, s).CurrPos = b.CurrPos + Len(s)
         /\ Written(b, s).BlockSize = Larger(b.BlockSize, b.CurrPos + Len(s))
         /\ \A i \in 1 .. b.BlockSize :
              i \notin b.CurrPos + 1 .. b.CurrPos + Len(s) => Written(b, s).Block[i] = b.Block[i]
         /\ \A i \in 1 .. Len(s) : Written(b, s).Block[b.CurrPos + i] = s[i]
<1> DEFINE end == b.CurrPos + Len(s)
           bytes == IF end > Len(b.Block) THEN ResizedBy(b.Block, 2 * end - Len(b.Block)) ELSE b.Block
           w == WrittenAt(bytes, b.CurrPos, s)
<1>1. /\ b.Block \in Seq(Nat \cup {Unset}) /\ b.CurrPos \in Nat /\ b.BlockSize \in Nat
      /\ b.CurrPos <= b.BlockSize /\ b.BlockSize <= Len(b.Block) /\ Len(b.Block) \in Nat
      /\ Len(s) \in Nat /\ end \in Nat
      /\ \A i \in 1 .. b.BlockSize : b.Block[i] \in Nat
  BY DEF BlockHolds
<1>2. /\ bytes \in Seq(Nat \cup {Unset}) /\ end <= Len(bytes) /\ Len(b.Block) <= Len(bytes)
      /\ \A i \in 1 .. Len(b.Block) : bytes[i] = b.Block[i]
  <2>1. CASE end > Len(b.Block)
    <3> DEFINE d == 2 * end - Len(b.Block)
    <3>1. d \in Nat /\ end <= Len(b.Block) + d
      BY <1>1, <2>1
    <3> HIDE DEF d
    <3>2. /\ ResizedBy(b.Block, d) \in Seq(Nat \cup {Unset}) /\ Len(ResizedBy(b.Block, d)) = Len(b.Block) + d
          /\ \A i \in 1 .. Len(b.Block) : ResizedBy(b.Block, d)[i] = b.Block[i]
      BY <1>1, <3>1, GrownCells
    <3>3. bytes = ResizedBy(b.Block, d)
      BY <2>1 DEF d
    <3> HIDE DEF bytes, end
    <3>4. QED BY <1>1, <3>1, <3>2, <3>3
  <2>2. CASE ~ (end > Len(b.Block))
    BY <1>1, <2>2
  <2>3. QED BY <2>1, <2>2
<1>3. Written(b, s) = [Block |-> w, CurrPos |-> end, BlockSize |-> Larger(b.BlockSize, end)]
  BY DEF Written
<1> HIDE DEF bytes
<1>4. /\ w \in Seq(Nat \cup {Unset}) /\ Len(w) = Len(bytes)
      /\ \A i \in 1 .. Len(bytes) :
           w[i] = IF i \in b.CurrPos + 1 .. b.CurrPos + Len(s) THEN s[i - b.CurrPos] ELSE bytes[i]
  BY <1>1, <1>2, CopiedCells
<1>5. Len(bytes) \in Nat
  BY <1>2
<1> DEFINE z == Larger(b.BlockSize, end)
<1>6. z \in Nat /\ z <= Len(w) /\ end <= z /\ b.BlockSize <= z /\ (z = b.BlockSize \/ z = end)
  BY <1>1, <1>2, <1>4, <1>5 DEF Larger
<1> HIDE DEF w
<1>7. \A i \in 1 .. Len(s) : w[b.CurrPos + i] = s[i]
  <2>1. TAKE i \in 1 .. Len(s)
  <2>2. /\ b.CurrPos + i \in 1 .. Len(bytes) /\ b.CurrPos + i \in b.CurrPos + 1 .. b.CurrPos + Len(s)
        /\ (b.CurrPos + i) - b.CurrPos = i
    BY <1>1, <1>2, <1>5
  <2>3. w[b.CurrPos + i] = s[(b.CurrPos + i) - b.CurrPos]
    BY <1>4, <2>2
  <2>4. QED BY <2>2, <2>3
<1>8. \A i \in 1 .. b.BlockSize :
        i \notin b.CurrPos + 1 .. b.CurrPos + Len(s) => w[i] = b.Block[i]
  <2>1. TAKE i \in 1 .. b.BlockSize
  <2>2. i \in 1 .. Len(bytes) /\ i \in 1 .. Len(b.Block)
    BY <1>1, <1>2, <1>5
  <2>3. QED BY <1>2, <1>4, <2>2
<1>9. \A i \in 1 .. z : w[i] \in Nat
  <2>1. TAKE i \in 1 .. z
  <2>2. CASE i \in b.CurrPos + 1 .. b.CurrPos + Len(s)
    <3>1. i - b.CurrPos \in 1 .. Len(s) /\ b.CurrPos + (i - b.CurrPos) = i
      BY <1>1, <2>2
    <3>2. QED BY <1>7, <3>1
  <2>3. CASE i \notin b.CurrPos + 1 .. b.CurrPos + Len(s)
    <3>1. i \in 1 .. b.BlockSize
      BY <1>1, <1>6, <2>3
    <3>2. QED BY <1>1, <1>8, <2>3, <3>1
  <2>4. QED BY <2>2, <2>3
<1> HIDE DEF z, end
<1>10. BlockHolds(Written(b, s))
  BY <1>1, <1>3, <1>4, <1>6, <1>9 DEF BlockHolds, z
<1>11. QED BY <1>3, <1>7, <1>8, <1>10 DEF end

\* The part of a block that a reader gets.
LEMMA ReadCells ==
  ASSUME NEW b, BlockHolds(b), NEW size \in Nat, CanRead(b, size)
  PROVE  /\ b.CurrPos + size <= b.BlockSize
         /\ ReadFrom(b, size) \in Seq(Nat) /\ Len(ReadFrom(b, size)) = size
         /\ \A i \in 1 .. size : ReadFrom(b, size)[i] = b.Block[b.CurrPos + i]
         /\ BlockHolds(PositionAfter(b, size))
         /\ PositionAfter(b, size).Block = b.Block /\ PositionAfter(b, size).BlockSize = b.BlockSize
         /\ PositionAfter(b, size).CurrPos = b.CurrPos + size
<1> DEFINE f == b.Block
           o == b.CurrPos
           r == ReadFrom(b, size)
           p == PositionAfter(b, size)
<1>1. /\ f \in Seq(Nat \cup {Unset}) /\ o \in Nat /\ b.BlockSize \in Nat /\ Len(f) \in Nat
      /\ o <= b.BlockSize /\ b.BlockSize <= Len(f)
      /\ \A i \in 1 .. b.BlockSize : f[i] \in Nat
  BY DEF BlockHolds
<1>2. o + size <= b.BlockSize
  BY <1>1 DEF CanRead
<1>3. r = SubSeq(f, o + 1, o + size)
  BY DEF ReadFrom
<1>4. r \in Seq(Nat \cup {Unset}) /\ Len(r) = size /\ \A i \in 1 .. size : r[i] = f[o + i]
  <2>1. f \in Seq(Nat \cup {Unset}) /\ o \in Nat /\ size \in Nat /\ o + size <= Len(f)
    <3>1. o \in Nat /\ b.BlockSize \in Nat /\ Len(f) \in Nat /\ b.BlockSize <= Len(f)
      BY <1>1
    <3>2. QED BY <1>1, <1>2, <3>1
  <2> DEFINE T == Nat \cup {Unset}
             u == SubSeq(f, o + 1, o + size)
  <2>2. f \in Seq(T) /\ r = u
    BY <1>3, <2>1
  <2> HIDE DEF f, o, r, p, T
  <2>3. u \in Seq(T) /\ Len(u) = size /\ \A i \in 1 .. size : u[i] = f[o + i]
    BY <2>1, <2>2, PartItems
  <2> HIDE DEF u
  <2>4. QED BY <2>2, <2>3 DEF T
<1>5. \A i \in 1 .. size : r[i] \in Nat
  <2>1. TAKE i \in 1 .. size
  <2>2. o + i \in 1 .. b.BlockSize
    BY <1>1, <1>2
  <2>3. f[o + i] \in Nat
    BY <1>1, <2>2
  <2>4. QED BY <1>4, <2>3
<1> HIDE DEF r
<1>6. r \in Seq(Nat)
  BY <1>4, <1>5
<1>7. p = [b EXCEPT !.CurrPos = @ + size]
  BY DEF PositionAfter
<1>8. p.Block = f /\ p.BlockSize = b.BlockSize /\ p.CurrPos = o + size
      /\ p \in [Block : Seq(Nat \cup {Unset}), CurrPos : Nat, BlockSize : Nat]
  BY <1>1, <1>7 DEF BlockHolds
<1>9. BlockHolds(p)
  BY <1>1, <1>2, <1>8 DEF BlockHolds
<1>10. QED BY <1>2, <1>4, <1>6, <1>8, <1>9 DEF r


\* LXPBlock_Seek leaves the contents, and its position is in the block.
LEMMA SoughtBlock ==
  ASSUME NEW b, BlockHolds(b), NEW base \in Int, NEW offset \in Int
  PROVE  /\ BlockHolds(Sought(b, base, offset))
         /\ Sought(b, base, offset).Block = b.Block
         /\ Sought(b, base, offset).BlockSize = b.BlockSize
         /\ base + offset = 0 => Sought(b, base, offset).CurrPos = 0
<1> DEFINE pos == Larger(0, base + offset)
           c == IF pos > b.BlockSize THEN b.BlockSize ELSE pos
           s == Sought(b, base, offset)
<1>1. /\ b.BlockSize \in Nat /\ b \in [Block : Seq(Nat \cup {Unset}), CurrPos : Nat, BlockSize : Nat]
      /\ b.BlockSize <= Len(b.Block) /\ \A i \in 1 .. b.BlockSize : b.Block[i] \in Nat
  BY DEF BlockHolds
<1>2. pos \in Nat /\ (base + offset = 0 => pos = 0)
  BY DEF Larger
<1> HIDE DEF pos
<1>3. c \in Nat /\ c <= b.BlockSize /\ (base + offset = 0 => c = 0)
  BY <1>1, <1>2
<1>4. s = [b EXCEPT !.CurrPos = c]
  BY DEF Sought, pos
<1> HIDE DEF c
<1>5. /\ s \in [Block : Seq(Nat \cup {Unset}), CurrPos : Nat, BlockSize : Nat]
      /\ s.Block = b.Block /\ s.BlockSize = b.BlockSize /\ s.CurrPos = c
  BY <1>1, <1>3, <1>4
<1>6. QED BY <1>1, <1>3, <1>5 DEF BlockHolds

\* LXPBlock_New.
LEMMA NewBlockHolds == BlockHolds(NewBlock) /\ NewBlock.BlockSize = 0 /\ NewBlock.CurrPos = 0
<1>1. <<>> \in Seq(Nat \cup {Unset}) /\ Len(<<>>) = 0 /\ BlockBaseSize \in Nat
  BY BlocksAssumption
<1> DEFINE f == ResizedBy(<<>>, BlockBaseSize)
<1>2. f \in Seq(Nat \cup {Unset})
  BY <1>1, GrownCells
<1>3. Len(f) \in Nat
  BY <1>2
<1>4. NewBlock = [Block |-> f, CurrPos |-> 0, BlockSize |-> 0]
  BY DEF NewBlock
<1> HIDE DEF f
<1>5. QED BY <1>2, <1>3, <1>4 DEF BlockHolds

\* The map of a store says where each block begins and ends.
MapFits(d, p) ==
  /\ d \in Seq(Nat) /\ p \in Seq(Nat)
  /\ 1 <= Len(p) /\ p[Len(p)] = Len(d)
  /\ \A i, j \in 1 .. Len(p) : i <= j => p[i] <= p[j]

\* What a caller was told is where the map says.
ToldTrue(d, p, told) ==
  /\ told \in Nat \X BlockWrites
  /\ told[1] + 2 <= Len(p)
  /\ p[told[1] + 2] = p[told[1] + 1] + Len(told[2])
  /\ \A i \in 1 .. Len(told[2]) : d[p[told[1] + 1] + i] = told[2][i]

\* The block holds the store as it was when its map had m entries.
SavedAs(b, d, p, m) ==
  /\ b.BlockSize = (4 + p[m]) + m
  /\ b.CurrPos \in {0, b.BlockSize}
  /\ b.Block[3] = p[m] /\ b.Block[4] = m
  /\ \A i \in 1 .. p[m] : b.Block[4 + i] = d[i]
  /\ \A i \in 1 .. m : b.Block[(4 + p[m]) + i] = p[i]

\* Nothing is saved yet, or what is there now begins with what is saved.
SavedOrNew(b, d, p) == b.BlockSize = 0 \/ \E m \in 1 .. Len(p) : SavedAs(b, d, p, m)

\* The block and the store. Callers of LXPBlock itself may write anything.
BlocksInv ==
  /\ BlockHolds(block) /\ MapFits(mData, mMap)
  /\ \A told \in aux_told : ToldTrue(mData, mMap, told)
  /\ container # "block" => SavedOrNew(block, mData, mMap)

\* Two stores that begin alike hold the same in that part.
LEMMA ToldInPart ==
  ASSUME NEW d, NEW p, MapFits(d, p), NEW e, NEW q, MapFits(e, q),
         NEW m \in 1 .. Len(p), m <= Len(q),
         \A i \in 1 .. m : p[i] = q[i],
         \A i \in 1 .. p[m] : d[i] = e[i],
         NEW told, ToldTrue(d, p, told), told[1] + 2 <= m
  PROVE  ToldTrue(e, q, told)
<1>0. /\ Len(p) \in Nat /\ Len(q) \in Nat /\ m \in Nat
      /\ \A i \in 1 .. Len(p) : p[i] \in Nat
      /\ \A i, j \in 1 .. Len(p) : i <= j => p[i] <= p[j]
  BY DEF MapFits
<1> DEFINE k == told[1]
           x == told[2]
<1>1. k \in Nat /\ x \in BlockWrites /\ Len(x) \in Nat
  BY BlocksAssumption DEF ToldTrue
<1>2. /\ p[k + 2] = p[k + 1] + Len(x) /\ k + 2 <= m
      /\ \A i \in 1 .. Len(x) : d[p[k + 1] + i] = x[i]
  BY DEF ToldTrue
<1>3. told \in Nat \X BlockWrites
  BY DEF ToldTrue
<1> HIDE DEF k, x
<1>4. k + 1 \in 1 .. m /\ k + 2 \in 1 .. m /\ k + 1 \in 1 .. Len(p) /\ k + 2 \in 1 .. Len(p) /\ k + 2 <= Len(q)
  BY <1>0, <1>1, <1>2
<1>5. p[k + 1] = q[k + 1] /\ p[k + 2] = q[k + 2] /\ p[k + 2] <= p[m] /\ p[k + 1] \in Nat /\ p[m] \in Nat
  BY <1>0, <1>2, <1>4
<1>6. ASSUME NEW i \in 1 .. Len(x) PROVE e[q[k + 1] + i] = x[i]
  <2>1. p[k + 1] + i \in 1 .. p[m]
    BY <1>1, <1>2, <1>5
  <2>2. QED BY <1>2, <1>5, <2>1
<1>7. QED BY <1>2, <1>3, <1>4, <1>5, <1>6 DEF ToldTrue, k, x

\* The same of a block that the part was saved in.
LEMMA SavedInPart ==
  ASSUME NEW d, NEW p, MapFits(d, p), NEW e, NEW q, MapFits(e, q),
         NEW m \in 1 .. Len(p), m <= Len(q),
         \A i \in 1 .. m : p[i] = q[i],
         \A i \in 1 .. p[m] : d[i] = e[i],
         NEW b, NEW n \in 1 .. m, SavedAs(b, d, p, n)
  PROVE  SavedAs(b, e, q, n)
<1>0. /\ Len(p) \in Nat /\ Len(q) \in Nat /\ m \in Nat
      /\ \A i \in 1 .. Len(p) : p[i] \in Nat
      /\ \A i, j \in 1 .. Len(p) : i <= j => p[i] <= p[j]
  <2>1. p \in Seq(Nat) /\ q \in Seq(Nat) /\ \A i, j \in 1 .. Len(p) : i <= j => p[i] <= p[j]
    BY DEF MapFits
  <2>2. Len(p) \in Nat /\ Len(q) \in Nat /\ \A i \in 1 .. Len(p) : p[i] \in Nat
    BY <2>1
  <2>3. m \in Nat
    BY <2>2
  <2>. QED BY <2>1, <2>2, <2>3
<1>1. n \in 1 .. Len(p) /\ p[n] = q[n] /\ p[n] <= p[m] /\ p[n] \in Nat /\ p[m] \in Nat /\ n \in Nat
  BY <1>0
<1>2. \A i \in 1 .. p[n] : d[i] = e[i]
  BY <1>1
<1>3. \A i \in 1 .. n : p[i] = q[i]
  BY <1>0, <1>1
<1>4. QED BY <1>1, <1>2, <1>3 DEF SavedAs

\* A store to which blocks were added.
GrownFrom(d, p, e, q) ==
  /\ MapFits(d, p) /\ MapFits(e, q) /\ Len(p) <= Len(q)
  /\ \A i \in 1 .. Len(p) : p[i] = q[i]
  /\ \A i \in 1 .. p[Len(p)] : d[i] = e[i]

\* It holds what callers were told.
LEMMA GrownTold ==
  ASSUME NEW d, NEW p, NEW e, NEW q, GrownFrom(d, p, e, q), NEW told, ToldTrue(d, p, told)
  PROVE  ToldTrue(e, q, told)
<1> DEFINE m == Len(p)
<1>1. /\ MapFits(d, p) /\ MapFits(e, q) /\ m \in 1 .. Len(p) /\ m <= Len(q)
      /\ \A i \in 1 .. m : p[i] = q[i]
      /\ \A i \in 1 .. p[m] : d[i] = e[i]
  BY DEF GrownFrom, MapFits
<1>2. told[1] + 2 <= m
  BY DEF ToldTrue
<1> HIDE DEF m
<1>3. QED BY <1>1, <1>2, ToldInPart

\* It begins with what a block was saved from.
LEMMA GrownSaved ==
  ASSUME NEW d, NEW p, NEW e, NEW q, GrownFrom(d, p, e, q), NEW b, SavedOrNew(b, d, p)
  PROVE  SavedOrNew(b, e, q)
<1> DEFINE m == Len(p)
<1>1. /\ MapFits(d, p) /\ MapFits(e, q) /\ m \in 1 .. Len(p) /\ m <= Len(q) /\ m \in Nat /\ Len(q) \in Nat
      /\ \A i \in 1 .. m : p[i] = q[i]
      /\ \A i \in 1 .. p[m] : d[i] = e[i]
  BY DEF GrownFrom, MapFits
<1>2. b.BlockSize = 0 \/ \E n \in 1 .. m : SavedAs(b, d, p, n)
  BY DEF SavedOrNew
<1> HIDE DEF m
<1>3. ASSUME NEW n \in 1 .. m, SavedAs(b, d, p, n) PROVE SavedOrNew(b, e, q)
  <2>1. SavedAs(b, e, q, n)
    BY <1>1, <1>3, SavedInPart
  <2>2. n \in 1 .. Len(q)
    BY <1>1
  <2>3. QED BY <2>1, <2>2 DEF SavedOrNew
<1>4. CASE b.BlockSize = 0
  BY <1>4 DEF SavedOrNew
<1>5. QED BY <1>2, <1>3, <1>4

\* LDataStore_AddBlock puts the block behind all others.
LEMMA BlockAdded ==
  ASSUME NEW d, NEW p, MapFits(d, p), NEW item \in BlockWrites,
         NEW e, e = d \o item, NEW q, q = Append(p, p[Len(p)] + Len(item))
  PROVE  /\ GrownFrom(d, p, e, q)
         /\ ToldTrue(e, q, <<Len(p) - 1, item>>)
<1>1. /\ d \in Seq(Nat) /\ p \in Seq(Nat) /\ Len(d) \in Nat /\ Len(p) \in Nat /\ 1 <= Len(p)
      /\ p[Len(p)] = Len(d)
      /\ \A i, j \in 1 .. Len(p) : i <= j => p[i] <= p[j]
      /\ \A i \in 1 .. Len(p) : p[i] \in Nat
  BY DEF MapFits
<1>2. item \in Seq(Nat) /\ Len(item) \in Nat
  BY BlocksAssumption
<1>3. /\ e \in Seq(Nat) /\ Len(e) = Len(d) + Len(item)
      /\ \A i \in 1 .. Len(d) : e[i] = d[i]
      /\ \A i \in 1 .. Len(item) : e[Len(d) + i] = item[i]
  BY <1>1, <1>2, ConcatItems
<1>4. Len(d) + Len(item) \in Nat /\ q = Append(p, Len(d) + Len(item))
  BY <1>1, <1>2
<1>5. /\ q \in Seq(Nat) /\ Len(q) = Len(p) + 1 /\ q[Len(p) + 1] = Len(d) + Len(item)
      /\ \A i \in 1 .. Len(p) : q[i] = p[i]
  BY <1>1, <1>4, AppendProperties
<1>6. MapFits(e, q)
  <2>1. ASSUME NEW i \in 1 .. Len(q), NEW j \in 1 .. Len(q), i <= j PROVE q[i] <= q[j]
    <3>1. CASE j \in 1 .. Len(p)
      <4>1. i \in 1 .. Len(p)
        BY <1>1, <2>1, <3>1
      <4>2. QED BY <1>1, <1>5, <2>1, <3>1, <4>1
    <3>2. CASE j = Len(p) + 1
      <4>1. CASE i = Len(p) + 1
        BY <1>1, <1>2, <1>5, <3>2, <4>1
      <4>2. CASE i \in 1 .. Len(p)
        <5>1. Len(p) \in 1 .. Len(p) /\ i <= Len(p)
          BY <1>1, <4>2
        <5>2. q[i] = p[i] /\ p[i] \in Nat /\ p[i] <= p[Len(p)]
          BY <1>1, <1>5, <4>2, <5>1
        <5>3. q[i] <= Len(d) + Len(item)
          BY <1>1, <1>2, <5>2
        <5>4. QED BY <1>5, <3>2, <5>3
      <4>3. QED BY <1>1, <1>5, <4>1, <4>2
    <3>3. QED BY <1>1, <1>5, <3>1, <3>2
  <2>2. QED BY <1>1, <1>3, <1>5, <2>1 DEF MapFits
<1>7. Len(p) \in 1 .. Len(p) /\ Len(p) <= Len(q)
  BY <1>1, <1>5
<1>8. \A i \in 1 .. p[Len(p)] : d[i] = e[i]
  BY <1>1, <1>3
<1>9. GrownFrom(d, p, e, q)
  BY <1>5, <1>6, <1>7, <1>8 DEF GrownFrom
<1>10. ToldTrue(e, q, <<Len(p) - 1, item>>)
  <2> DEFINE k == Len(p) - 1
  <2>1. k \in Nat /\ k + 2 = Len(p) + 1 /\ k + 1 = Len(p)
    BY <1>1
  <2> HIDE DEF k
  <2>2. q[k + 2] = q[k + 1] + Len(item) /\ q[k + 1] = Len(d) /\ k + 2 <= Len(q)
    <3>1. q[Len(p) + 1] = Len(d) + Len(item) /\ q[Len(p)] = Len(d) /\ Len(p) + 1 <= Len(q)
      BY <1>1, <1>5, <1>7
    <3>2. QED BY <2>1, <3>1
  <2>3. <<k, item>> \in Nat \X BlockWrites
    BY <2>1
  <2>4. ToldTrue(e, q, <<k, item>>)
    BY <1>3, <2>2, <2>3 DEF ToldTrue
  <2>5. QED BY <2>4 DEF k
<1>11. QED BY <1>9, <1>10


\* LDataStore_GetBlockIndex returns an index of the block, if there is one.
LEMMA BlockFound ==
  ASSUME MapFits(mData, mMap), NEW item \in BlockWrites, BlockIndices(item) # {}
  PROVE  ToldTrue(mData, mMap, <<Min(BlockIndices(item)), item>>)
<1> DEFINE k == Min(BlockIndices(item))
<1>1. /\ Len(mMap) \in Nat /\ Len(mData) \in Nat /\ mData \in Seq(Nat) /\ 1 <= Len(mMap)
      /\ mMap[Len(mMap)] = Len(mData)
      /\ \A i, j \in 1 .. Len(mMap) : i <= j => mMap[i] <= mMap[j]
      /\ \A i \in 1 .. Len(mMap) : mMap[i] \in Nat
  BY DEF MapFits
<1>2. BlockIndices(item) \subseteq Nat
  BY <1>1 DEF BlockIndices, BlocksCount
<1>3. k \in BlockIndices(item)
  <2>1. PICK i \in BlockIndices(item) : \A j \in BlockIndices(item) : i <= j
    BY <1>2, NatHasLeast
  <2>2. QED BY <2>1 DEF Min
<1> HIDE DEF k
<1>4. k \in 0 .. Len(mMap) - 2 /\ BlockByIndex(k) = item
  BY <1>1, <1>3 DEF BlockIndices, BlocksCount
<1>5. k \in Nat /\ k + 1 \in 1 .. Len(mMap) /\ k + 2 \in 1 .. Len(mMap) /\ Len(mMap) \in 1 .. Len(mMap) /\ (k + 1) + 1 = k + 2
  BY <1>1, <1>4
<1> DEFINE x == mMap[k + 1]
           y == mMap[k + 2]
<1>6. x \in Nat /\ y \in Nat /\ x <= y /\ y <= Len(mData)
  <2>1. k + 1 <= k + 2 /\ k + 2 <= Len(mMap)
    BY <1>5
  <2>2. QED BY <1>1, <1>5, <2>1
<1>7. item = SubSeq(mData, x + 1, x + (y - x))
  BY <1>4, <1>5 DEF BlockByIndex, OffsetByIndex, SizeByIndex, ItemAt
<1> HIDE DEF x, y
<1>8. y - x \in Nat /\ x + (y - x) <= Len(mData)
  BY <1>1, <1>6
<1>9. Len(item) = y - x /\ \A i \in 1 .. y - x : item[i] = mData[x + i]
  BY <1>1, <1>6, <1>7, <1>8, PartItems
<1>10. <<k, item>> \in Nat \X BlockWrites /\ k + 2 <= Len(mMap)
  BY <1>5
<1>11. y = x + Len(item)
  BY <1>6, <1>9
<1>12. ToldTrue(mData, mMap, <<k, item>>)
  BY <1>9, <1>10, <1>11 DEF ToldTrue, x, y
<1>13. QED BY <1>12 DEF k

\* LDataStore_AddBlock and LDataStore_AddUniqueBlock.
LEMMA AddBlockStores ==
  ASSUME BlocksInv, NEW item \in BlockWrites, DataStore_AddBlock(item) \/ AddUniqueBlock(item),
         UNCHANGED <<block, container>>
  PROVE  BlocksInv'
<1>1. /\ BlockHolds(block) /\ MapFits(mData, mMap)
      /\ \A told \in aux_told : ToldTrue(mData, mMap, told)
      /\ container # "block" => SavedOrNew(block, mData, mMap)
  BY DEF BlocksInv
<1>2. CASE DataStore_AddBlock(item)
  <2>1. Len(mMap) \in Nat /\ 1 <= Len(mMap)
    BY <1>1 DEF MapFits
  <2>2. OffsetByIndex(BlocksCount) = mMap[Len(mMap)] /\ BlocksCount = Len(mMap) - 1
    BY <2>1 DEF OffsetByIndex, BlocksCount, ItemAt
  <2>3. /\ mData' = mData \o item
        /\ mMap' = Append(mMap, mMap[Len(mMap)] + Len(item))
        /\ aux_told' = aux_told \cup {<<Len(mMap) - 1, item>>}
    BY <1>2, <2>2 DEF DataStore_AddBlock
  <2>4. /\ GrownFrom(mData, mMap, mData', mMap')
        /\ ToldTrue(mData', mMap', <<Len(mMap) - 1, item>>)
    <3> DEFINE e == mData \o item
               q == Append(mMap, mMap[Len(mMap)] + Len(item))
    <3>1. mData' = e /\ mMap' = q
      BY <2>3
    <3>2. e = mData \o item /\ q = Append(mMap, mMap[Len(mMap)] + Len(item))
      OBVIOUS
    <3> HIDE DEF e, q
    <3>3. GrownFrom(mData, mMap, e, q) /\ ToldTrue(e, q, <<Len(mMap) - 1, item>>)
      BY <1>1, <3>2, BlockAdded
    <3>4. QED BY <3>1, <3>3
  <2>5. \A told \in aux_told' : ToldTrue(mData', mMap', told)
    BY <1>1, <2>3, <2>4, GrownTold
  <2>6. container # "block" => SavedOrNew(block, mData', mMap')
    BY <1>1, <2>4, GrownSaved
  <2>7. QED BY <1>1, <2>4, <2>5, <2>6 DEF BlocksInv, GrownFrom
<1>3. CASE BlockIndices(item) # {} /\ AddUniqueBlock(item)
  <2>1. UNCHANGED <<mData, mMap>> /\ aux_told' = aux_told \cup {<<Min(BlockIndices(item)), item>>}
    BY <1>3 DEF AddUniqueBlock
  <2>2. ToldTrue(mData, mMap, <<Min(BlockIndices(item)), item>>)
    BY <1>1, <1>3, BlockFound
  <2>3. \A told \in aux_told' : ToldTrue(mData, mMap, told)
    BY <1>1, <2>1, <2>2
  <2>4. QED BY <1>1, <2>1, <2>3 DEF BlocksInv
<1>4. QED BY <1>2, <1>3 DEF AddUniqueBlock

\* LDataStore_GetXPBlock: the block holds the store as it is.
LEMMA SaveStoreSaves ==
  ASSUME BlocksInv, SaveStore, UNCHANGED container
  PROVE  BlocksInv'
<1> DEFINE n == Len(mData)
           m == Len(mMap)
           header == <<StoreMagic, StoreVersion, n, m>>
           first == Written(NewBlock, header)
           second == Written(first, mData)
           third == Written(second, mMap)
<1>1. /\ MapFits(mData, mMap) /\ \A told \in aux_told : ToldTrue(mData, mMap, told)
      /\ mData \in Seq(Nat) /\ mMap \in Seq(Nat) /\ n \in Nat /\ m \in Nat /\ m \in 1 .. m /\ mMap[m] = n
  BY DEF BlocksInv, MapFits
<1>2. /\ header \in Seq(Nat) /\ Len(header) = 4
      /\ header[1] = 1 /\ header[2] = 0 /\ header[3] = n /\ header[4] = m
  BY <1>1 DEF StoreMagic, StoreVersion
<1>3. block' = Sought(third, 0, 0) /\ UNCHANGED <<mData, mMap, aux_told>>
  BY DEF SaveStore, storeVars
<1> HIDE DEF header
<1>4. /\ BlockHolds(first) /\ first.CurrPos = 4 /\ first.BlockSize = 4
      /\ first.Block[3] = n /\ first.Block[4] = m
  <2>1. /\ BlockHolds(first) /\ first.CurrPos = 0 + 4 /\ first.BlockSize = Larger(0, 0 + 4)
        /\ \A i \in 1 .. 4 : first.Block[0 + i] = header[i]
    <3>1. /\ BlockHolds(first)
          /\ first.CurrPos = NewBlock.CurrPos + Len(header)
          /\ first.BlockSize = Larger(NewBlock.BlockSize, NewBlock.CurrPos + Len(header))
      BY <1>2, NewBlockHolds, WrittenBlock
    <3>2. \A i \in 1 .. NewBlock.BlockSize :
            i \notin NewBlock.CurrPos + 1 .. NewBlock.CurrPos + Len(header) => first.Block[i] = NewBlock.Block[i]
      BY <1>2, NewBlockHolds, WrittenBlock
    <3>3. \A i \in 1 .. Len(header) : first.Block[NewBlock.CurrPos + i] = header[i]
      BY <1>2, NewBlockHolds, WrittenBlock
    <3> HIDE DEF first
    <3>4. QED BY <1>2, <3>1, <3>3, NewBlockHolds
  <2>2. 3 \in 1 .. 4 /\ 4 \in 1 .. 4 /\ 0 + 3 = 3 /\ 0 + 4 = 4 /\ Larger(0, 4) = 4
    BY DEF Larger
  <2> HIDE DEF first
  <2>3. first.Block[0 + 3] = header[3] /\ first.Block[0 + 4] = header[4]
    BY <2>1, <2>2
  <2>4. QED BY <1>2, <2>1, <2>2, <2>3
<1> HIDE DEF first
<1>5. /\ BlockHolds(second) /\ second.CurrPos = 4 + n /\ second.BlockSize = 4 + n
      /\ second.Block[3] = n /\ second.Block[4] = m
      /\ \A i \in 1 .. n : second.Block[4 + i] = mData[i]
  <2>1. /\ BlockHolds(second) /\ second.CurrPos = 4 + n /\ second.BlockSize = Larger(4, 4 + n)
        /\ \A i \in 1 .. 4 : i \notin 4 + 1 .. 4 + n => second.Block[i] = first.Block[i]
        /\ \A i \in 1 .. n : second.Block[4 + i] = mData[i]
    <3>1. /\ BlockHolds(second)
          /\ second.CurrPos = first.CurrPos + Len(mData)
          /\ second.BlockSize = Larger(first.BlockSize, first.CurrPos + Len(mData))
      BY <1>1, <1>4, WrittenBlock
    <3>2. \A i \in 1 .. first.BlockSize :
            i \notin first.CurrPos + 1 .. first.CurrPos + Len(mData) => second.Block[i] = first.Block[i]
      BY <1>1, <1>4, WrittenBlock
    <3>3. \A i \in 1 .. Len(mData) : second.Block[first.CurrPos + i] = mData[i]
      BY <1>1, <1>4, WrittenBlock
    <3> HIDE DEF second
    <3>4. QED BY <1>4, <3>1, <3>2, <3>3
  <2>2. 3 \in 1 .. 4 /\ 4 \in 1 .. 4 /\ 3 \notin 4 + 1 .. 4 + n /\ 4 \notin 4 + 1 .. 4 + n /\ Larger(4, 4 + n) = 4 + n
    BY <1>1 DEF Larger
  <2> HIDE DEF second
  <2>3. QED BY <1>4, <2>1, <2>2
<1> HIDE DEF second
<1>6. /\ BlockHolds(third) /\ third.BlockSize = (4 + n) + m
      /\ third.Block[3] = n /\ third.Block[4] = m
      /\ \A i \in 1 .. n : third.Block[4 + i] = mData[i]
      /\ \A i \in 1 .. m : third.Block[(4 + n) + i] = mMap[i]
  <2>1. /\ BlockHolds(third) /\ third.BlockSize = Larger(4 + n, (4 + n) + m)
        /\ \A i \in 1 .. 4 + n : i \notin (4 + n) + 1 .. (4 + n) + m => third.Block[i] = second.Block[i]
        /\ \A i \in 1 .. m : third.Block[(4 + n) + i] = mMap[i]
    <3>1. /\ BlockHolds(third)
          /\ third.CurrPos = second.CurrPos + Len(mMap)
          /\ third.BlockSize = Larger(second.BlockSize, second.CurrPos + Len(mMap))
      BY <1>1, <1>5, WrittenBlock
    <3>2. \A i \in 1 .. second.BlockSize :
            i \notin second.CurrPos + 1 .. second.CurrPos + Len(mMap) => third.Block[i] = second.Block[i]
      BY <1>1, <1>5, WrittenBlock
    <3>3. \A i \in 1 .. Len(mMap) : third.Block[second.CurrPos + i] = mMap[i]
      BY <1>1, <1>5, WrittenBlock
    <3> HIDE DEF third
    <3>4. QED BY <1>5, <3>1, <3>2, <3>3
  <2>2. Larger(4 + n, (4 + n) + m) = (4 + n) + m
    BY <1>1 DEF Larger
  <2>3. \A i \in 1 .. 4 + n : i \notin (4 + n) + 1 .. (4 + n) + m
    BY <1>1
  <2>4. 3 \in 1 .. 4 + n /\ 4 \in 1 .. 4 + n /\ \A i \in 1 .. n : 4 + i \in 1 .. 4 + n
    BY <1>1
  <2> HIDE DEF third
  <2>5. QED BY <1>5, <2>1, <2>2, <2>3, <2>4
<1> HIDE DEF third
<1>7. /\ BlockHolds(block') /\ block'.Block = third.Block
      /\ block'.BlockSize = third.BlockSize /\ block'.CurrPos = 0
  <2>1. 0 \in Int /\ 0 + 0 = 0
    OBVIOUS
  <2>2. QED BY <1>3, <1>6, <2>1, SoughtBlock
<1>8. SavedAs(block', mData, mMap, m)
  BY <1>1, <1>6, <1>7 DEF SavedAs
<1>9. SavedOrNew(block', mData, mMap)
  BY <1>1, <1>8 DEF SavedOrNew
<1>10. QED BY <1>1, <1>3, <1>7, <1>9 DEF BlocksInv

\* LDataStore_NewFromData: the store is what the block holds, of which callers keep
\* what they were told.
LEMMA RestoreStoreRestores ==
  ASSUME BlocksInv, RestoreStore, container # "block", UNCHANGED container
  PROVE  BlocksInv'
<1> DEFINE header == ReadFrom(block, 4)
           data == PositionAfter(block, 4)
           map == PositionAfter(data, header[3])
<1>1. /\ CanRead(block, 4) /\ CanRead(data, header[3]) /\ CanRead(map, header[4])
      /\ mData' = ReadFrom(data, header[3]) /\ mMap' = ReadFrom(map, header[4])
      /\ block' = PositionAfter(map, header[4])
      /\ aux_told' = {told \in aux_told : told[1] < header[4] - 1}
  BY DEF RestoreStore
<1>2. /\ BlockHolds(block) /\ MapFits(mData, mMap)
      /\ \A told \in aux_told : ToldTrue(mData, mMap, told)
      /\ SavedOrNew(block, mData, mMap)
      /\ block.BlockSize \in Nat /\ block.CurrPos \in Nat
  BY DEF BlocksInv, BlockHolds
<1>3. PICK m \in 1 .. Len(mMap) : SavedAs(block, mData, mMap, m)
  BY <1>1, <1>2 DEF SavedOrNew, CanRead
<1> DEFINE n == mMap[m]
<1>4. /\ Len(mMap) \in Nat /\ Len(mData) \in Nat /\ m \in Nat /\ m <= Len(mMap) /\ 1 <= m
      /\ n \in Nat /\ n <= Len(mData)
      /\ mMap \in Seq(Nat) /\ mData \in Seq(Nat)
      /\ \A i, j \in 1 .. Len(mMap) : i <= j => mMap[i] <= mMap[j]
  <2>1. Len(mMap) \in Nat /\ m <= Len(mMap) /\ Len(mMap) \in 1 .. Len(mMap) /\ mMap[Len(mMap)] = Len(mData)
    BY <1>2 DEF MapFits
  <2>2. QED BY <1>2, <2>1 DEF MapFits
<1> HIDE DEF n
<1>5. /\ block.BlockSize = (4 + n) + m /\ block.CurrPos = 0
      /\ block.Block[3] = n /\ block.Block[4] = m
      /\ \A i \in 1 .. n : block.Block[4 + i] = mData[i]
      /\ \A i \in 1 .. m : block.Block[(4 + n) + i] = mMap[i]
  BY <1>1, <1>2, <1>3 DEF SavedAs, CanRead, n
<1>6. /\ header[3] = n /\ header[4] = m
      /\ BlockHolds(data) /\ data.Block = block.Block /\ data.BlockSize = block.BlockSize /\ data.CurrPos = 4
  <2>1. /\ \A i \in 1 .. 4 : header[i] = block.Block[0 + i]
        /\ BlockHolds(data) /\ data.Block = block.Block /\ data.BlockSize = block.BlockSize
        /\ data.CurrPos = 0 + 4
    BY <1>1, <1>2, <1>5, ReadCells
  <2> HIDE DEF header, data
  <2>2. 3 \in 1 .. 4 /\ 4 \in 1 .. 4 /\ 0 + 3 = 3 /\ 0 + 4 = 4
    OBVIOUS
  <2>3. header[3] = block.Block[0 + 3] /\ header[4] = block.Block[0 + 4]
    BY <2>1, <2>2
  <2>4. QED BY <1>5, <2>1, <2>2, <2>3
<1> HIDE DEF header, data
<1>7. /\ mData' \in Seq(Nat) /\ Len(mData') = n
      /\ \A i \in 1 .. n : mData'[i] = mData[i]
      /\ BlockHolds(map) /\ map.Block = block.Block /\ map.BlockSize = block.BlockSize /\ map.CurrPos = 4 + n
  <2>1. /\ mData' \in Seq(Nat) /\ Len(mData') = n
        /\ \A i \in 1 .. n : mData'[i] = data.Block[4 + i]
        /\ BlockHolds(map) /\ map.Block = data.Block /\ map.BlockSize = data.BlockSize /\ map.CurrPos = 4 + n
    <3>1. CanRead(data, n) /\ n \in Nat /\ BlockHolds(data)
      BY <1>1, <1>4, <1>6
    <3>2. /\ mData' = ReadFrom(data, n) /\ map = PositionAfter(data, n)
      BY <1>1, <1>4, <1>6 DEF map
    <3> HIDE DEF map
    <3>3. /\ mData' \in Seq(Nat) /\ Len(mData') = n
          /\ \A i \in 1 .. n : mData'[i] = data.Block[data.CurrPos + i]
      BY <3>1, <3>2, ReadCells
    <3>4. /\ BlockHolds(map) /\ map.Block = data.Block /\ map.BlockSize = data.BlockSize
          /\ map.CurrPos = data.CurrPos + n
      BY <3>1, <3>2, ReadCells
    <3>5. data.CurrPos = 4
      BY <1>6
    <3>6. QED BY <3>3, <3>4, <3>5
  <2> HIDE DEF map
  <2>2. \A i \in 1 .. n : mData'[i] = mData[i]
    <3>1. TAKE i \in 1 .. n
    <3>2. mData'[i] = data.Block[4 + i] /\ data.Block = block.Block /\ block.Block[4 + i] = mData[i]
      BY <1>5, <1>6, <2>1
    <3>3. QED BY <3>2
  <2>3. QED BY <1>6, <2>1, <2>2
<1> HIDE DEF map
<1>8. /\ mMap' \in Seq(Nat) /\ Len(mMap') = m
      /\ \A i \in 1 .. m : mMap'[i] = mMap[i]
      /\ BlockHolds(block') /\ block'.Block = block.Block /\ block'.BlockSize = block.BlockSize
      /\ block'.CurrPos = (4 + n) + m
  <2>1. /\ mMap' \in Seq(Nat) /\ Len(mMap') = m
        /\ \A i \in 1 .. m : mMap'[i] = map.Block[(4 + n) + i]
        /\ BlockHolds(block') /\ block'.Block = map.Block /\ block'.BlockSize = map.BlockSize
        /\ block'.CurrPos = (4 + n) + m
    <3>1. CanRead(map, m) /\ m \in Nat /\ BlockHolds(map)
      BY <1>1, <1>4, <1>6, <1>7
    <3>2. /\ mMap' = ReadFrom(map, m) /\ block' = PositionAfter(map, m)
      BY <1>1, <1>4, <1>6, <1>7
    <3>3. /\ mMap' \in Seq(Nat) /\ Len(mMap') = m
          /\ \A i \in 1 .. m : mMap'[i] = map.Block[map.CurrPos + i]
      BY <3>1, <3>2, ReadCells
    <3>4. /\ BlockHolds(block') /\ block'.Block = map.Block /\ block'.BlockSize = map.BlockSize
          /\ block'.CurrPos = map.CurrPos + m
      BY <3>1, <3>2, ReadCells
    <3>5. QED BY <1>1, <1>4, <1>6, <1>7, <3>3, <3>4
  <2>2. QED BY <1>5, <1>7, <2>1
<1>9. MapFits(mData', mMap')
  <2>1. 1 .. m \subseteq 1 .. Len(mMap) /\ m \in 1 .. m
    BY <1>4
  <2>2. mMap'[m] = n
    BY <1>8, <2>1 DEF n
  <2>3. \A i, j \in 1 .. m : i <= j => mMap'[i] <= mMap'[j]
    BY <1>4, <1>8, <2>1
  <2>4. QED BY <1>4, <1>7, <1>8, <2>2, <2>3 DEF MapFits
<1>10. /\ m \in 1 .. Len(mMap) /\ m <= Len(mMap') /\ m \in 1 .. Len(mMap')
       /\ \A i \in 1 .. m : mMap[i] = mMap'[i]
       /\ \A i \in 1 .. mMap[m] : mData[i] = mData'[i]
  BY <1>4, <1>7, <1>8 DEF n
<1>11. ASSUME NEW told \in aux_told' PROVE ToldTrue(mData', mMap', told)
  <2>1. told \in aux_told /\ told[1] < m - 1
    BY <1>1, <1>6
  <2>2. ToldTrue(mData, mMap, told) /\ told[1] \in Nat
    BY <1>2, <2>1 DEF ToldTrue
  <2>3. told[1] + 2 <= m
    BY <1>4, <2>1, <2>2
  <2>4. QED BY <1>2, <1>9, <1>10, <2>2, <2>3, ToldInPart
<1>12. SavedAs(block', mData', mMap', m)
  <2>1. m \in 1 .. m
    BY <1>4
  <2>2. SavedAs(block, mData', mMap', m)
    BY <1>2, <1>3, <1>9, <1>10, <2>1, SavedInPart
  <2>3. mMap'[m] = n
    BY <1>8, <2>1 DEF n
  <2>4. QED BY <1>5, <1>8, <2>2, <2>3 DEF SavedAs
<1>13. SavedOrNew(block', mData', mMap')
  BY <1>10, <1>12 DEF SavedOrNew
<1>14. QED BY <1>8, <1>9, <1>11, <1>13 DEF BlocksInv

\* LXPBlock_Write, LXPBlock_Read and LXPBlock_Seek by callers.
LEMMA BlockCallKeeps ==
  ASSUME BlocksInv, BlockNext, container = "block", UNCHANGED container
  PROVE  BlocksInv'
<1>1. BlockHolds(block) /\ block.CurrPos \in Nat /\ block.BlockSize \in Nat
  BY DEF BlocksInv, BlockHolds
<1>2. UNCHANGED <<mData, mMap, aux_told>>
  BY DEF BlockNext, storeVars
<1>3. ASSUME NEW s \in BlockWrites, block' = Written(block, s) PROVE BlockHolds(block')
  <2>1. s \in Seq(Nat)
    BY BlocksAssumption
  <2>2. QED BY <1>1, <1>3, <2>1, WrittenBlock
<1>4. ASSUME NEW size \in 1 .. MaxBlockCells, CanRead(block, size), block' = PositionAfter(block, size)
      PROVE  BlockHolds(block')
  <2>1. size \in Nat
    BY BlocksAssumption
  <2>2. QED BY <1>1, <1>4, <2>1, ReadCells
<1>5. ASSUME NEW base \in {0, block.CurrPos, block.BlockSize}, NEW offset \in BlockSeeks,
             block' = Sought(block, base, offset)
      PROVE  BlockHolds(block')
  <2>1. base \in Int /\ offset \in Int
    BY <1>1, BlocksAssumption
  <2>2. QED BY <1>1, <1>5, <2>1, SoughtBlock
<1>6. BlockHolds(block')
  BY <1>3, <1>4, <1>5 DEF BlockNext
<1>7. QED BY <1>2, <1>6 DEF BlocksInv

\* Callers have no reason to doubt what they were told.
LEMMA BlocksInvImplies == BlocksInv => BlockIsWritten /\ StoreKeepsBlocks
<1> SUFFICES ASSUME BlocksInv PROVE BlockIsWritten /\ StoreKeepsBlocks
  OBVIOUS
<1>1. BlockIsWritten
  BY BlocksAssumption DEF BlocksInv, BlockHolds, BlockIsWritten
<1>2. /\ Len(mMap) \in Nat /\ Len(mData) \in Nat /\ mData \in Seq(Nat) /\ 1 <= Len(mMap)
      /\ mMap[Len(mMap)] = Len(mData)
      /\ \A i, j \in 1 .. Len(mMap) : i <= j => mMap[i] <= mMap[j]
      /\ \A i \in 1 .. Len(mMap) : mMap[i] \in Nat
  BY DEF BlocksInv, MapFits
<1>3. ASSUME NEW told \in aux_told PROVE told[1] < BlocksCount /\ BlockByIndex(told[1]) = told[2]
  <2> DEFINE k == told[1]
             item == told[2]
             x == mMap[k + 1]
             y == mMap[k + 2]
  <2>1. /\ k \in Nat /\ item \in Seq(Nat) /\ Len(item) \in Nat /\ k + 2 <= Len(mMap)
        /\ y = x + Len(item) /\ \A i \in 1 .. Len(item) : mData[x + i] = item[i]
    <3>1. ToldTrue(mData, mMap, told)
      BY DEF BlocksInv
    <3>2. item \in BlockWrites /\ k \in Nat
      BY <3>1 DEF ToldTrue
    <3>3. /\ k + 2 <= Len(mMap) /\ y = x + Len(item)
          /\ \A i \in 1 .. Len(item) : mData[x + i] = item[i]
      BY <3>1 DEF ToldTrue
    <3> HIDE DEF k, item
    <3>4. QED BY <3>2, <3>3, BlocksAssumption
  <2> HIDE DEF k, item
  <2>2. k + 1 \in 1 .. Len(mMap) /\ k + 2 \in 1 .. Len(mMap) /\ Len(mMap) \in 1 .. Len(mMap) /\ (k + 1) + 1 = k + 2
    BY <1>2, <2>1
  <2>3. x \in Nat /\ y \in Nat /\ y <= Len(mData)
    BY <1>2, <2>1, <2>2
  <2>4. BlockByIndex(k) = SubSeq(mData, x + 1, x + (y - x))
    BY <2>2 DEF BlockByIndex, OffsetByIndex, SizeByIndex, ItemAt
  <2> HIDE DEF x, y
  <2>5. y - x = Len(item) /\ x + Len(item) <= Len(mData)
    BY <2>1, <2>3
  <2> DEFINE r == SubSeq(mData, x + 1, x + Len(item))
  <2>6. r \in Seq(Nat) /\ Len(r) = Len(item) /\ \A i \in 1 .. Len(item) : r[i] = mData[x + i]
    BY <1>2, <2>1, <2>3, <2>5, PartItems
  <2>7. BlockByIndex(k) = r
    BY <2>4, <2>5
  <2> HIDE DEF r
  <2>8. r = item
    BY <2>1, <2>6, SeqEqual
  <2>9. k < BlocksCount
    BY <1>2, <2>1 DEF BlocksCount
  <2>10. QED BY <2>7, <2>8, <2>9 DEF k, item
<1>4. QED BY <1>1, <1>3 DEF StoreKeepsBlocks

\* Nothing is in the block or in the store at first.
LEMMA BlocksInvInit == BlocksInit => BlocksInv
<1> SUFFICES ASSUME BlocksInit PROVE BlocksInv
  OBVIOUS
<1>1. block = NewBlock /\ mData = <<>> /\ mMap = <<0>> /\ aux_told = {}
  BY DEF BlocksInit
<1>2. MapFits(mData, mMap)
  <2>1. mData \in Seq(Nat) /\ Len(mData) = 0 /\ mMap \in Seq(Nat) /\ Len(mMap) = 1 /\ mMap[1] = 0
    BY <1>1
  <2>2. \A i \in 1 .. 1 : i = 1
    OBVIOUS
  <2>3. QED BY <2>1, <2>2 DEF MapFits
<1>3. QED BY <1>1, <1>2, NewBlockHolds DEF BlocksInv, SavedOrNew

\* What the stack on disk returns are cells, and its buffer has room.
DiskTypes == StackInv /\ popped \in Seq(Nat) /\ Len(MemBuffer) <= MemBufferSize

\* A call of the stack keeps them.
LEMMA DiskTypesKept ==
  ASSUME DiskTypes, [DiskNext]_blocksVars
  PROVE  DiskTypes'
<1>1. StackInv /\ StackInv'
  BY DiskCallKeeps DEF DiskTypes
<1>2. /\ MemBuffer \in Seq(Nat) /\ FileBuffer \in Seq(Nat) /\ FileBufferSize \in 0 .. Len(FileBuffer)
      /\ Len(MemBuffer) \in Nat /\ Len(FileBuffer) \in Nat /\ FileBufferSize \in Nat
      /\ popped \in Seq(Nat) /\ Len(MemBuffer) <= MemBufferSize /\ MemBufferSize \in Nat
  BY <1>1, BlocksAssumption DEF DiskTypes, StackInv
<1>3. ASSUME NEW cells \in BlockWrites, Push(cells) PROVE DiskTypes'
  <2>1. cells \in Seq(Nat) /\ Len(cells) \in Nat /\ popped' = popped
    BY <1>3, BlocksAssumption DEF Push
  <2>2. CASE Len(cells) >= MemBufferSize - Len(MemBuffer)
    <3>1. MemBuffer' = <<>> /\ Len(<<>>) = 0
      BY <1>3, <2>2 DEF Push
    <3>2. QED BY <1>1, <1>2, <2>1, <3>1 DEF DiskTypes
  <2>3. CASE ~ (Len(cells) >= MemBufferSize - Len(MemBuffer))
    <3>1. MemBuffer' = MemBuffer \o cells
      BY <1>3, <2>3 DEF Push
    <3>2. Len(MemBuffer') = Len(MemBuffer) + Len(cells)
      BY <1>2, <2>1, <3>1, ConcatItems
    <3>3. Len(MemBuffer') <= MemBufferSize
      BY <1>2, <2>1, <2>3, <3>2
    <3>4. QED BY <1>1, <1>2, <2>1, <3>3 DEF DiskTypes
  <2>4. QED BY <2>2, <2>3
<1>4. ASSUME NEW size \in 0 .. MaxBlockCells, Pop(size) PROVE DiskTypes'
  <2> DEFINE rest == size - Len(MemBuffer)
  <2>1. size \in Nat /\ rest \in Int /\ rest <= FileBufferSize
    BY <1>2, <1>4, BlocksAssumption DEF Pop
  <2>2. CASE rest > 0
    <3> DEFINE r == SubSeq(FileBuffer, FileBufferSize - rest + 1, FileBufferSize)
    <3>1. popped' = r \o MemBuffer /\ MemBuffer' = <<>> /\ Len(<<>>) = 0
      BY <1>4, <2>2 DEF Pop
    <3>2. r \in Seq(Nat)
      <4>1. FileBufferSize - rest \in Nat /\ FileBufferSize - rest <= FileBufferSize /\ FileBufferSize <= Len(FileBuffer)
        BY <1>2, <2>1, <2>2
      <4>2. QED BY <1>2, <4>1, CutCells
    <3> HIDE DEF r
    <3>3. popped' \in Seq(Nat)
      BY <1>2, <3>1, <3>2, ConcatItems
    <3>4. QED BY <1>1, <1>2, <3>1, <3>3 DEF DiskTypes
  <2>3. CASE ~ (rest > 0)
    <3> DEFINE n == Len(MemBuffer) - size
               r == SubSeq(MemBuffer, n + 1, Len(MemBuffer))
               s == SubSeq(MemBuffer, 1, n)
    <3>1. popped' = r /\ MemBuffer' = s
      BY <1>4, <2>3 DEF Pop
    <3>2. n \in Nat /\ n <= Len(MemBuffer)
      BY <1>2, <2>1, <2>3
    <3> HIDE DEF n
    <3>3. r \in Seq(Nat) /\ Len(s) = n
      BY <1>2, <3>2, CutCells
    <3> HIDE DEF r, s
    <3>4. QED BY <1>1, <1>2, <3>1, <3>2, <3>3 DEF DiskTypes
  <2>4. QED BY <2>2, <2>3
<1>5. CASE UNCHANGED blocksVars
  BY <1>1, <1>2, <1>5 DEF DiskTypes, blocksVars, diskVars
<1>6. QED BY <1>3, <1>4, <1>5 DEF DiskNext

BlocksHold == BlocksInv /\ DiskTypes

\* The types of the three.
LEMMA BlocksTypes == BlocksHold => BlocksTypeOK
<1> SUFFICES ASSUME BlocksHold PROVE BlocksTypeOK
  OBVIOUS
<1>1. block \in [Block : Seq(Nat \cup {Unset}), CurrPos : Nat, BlockSize : Nat]
  BY DEF BlocksHold, BlocksInv, BlockHolds
<1>2. mData \in Seq(Nat) /\ mMap \in Seq(Nat) /\ mMap # <<>>
  <2>1. mData \in Seq(Nat) /\ mMap \in Seq(Nat) /\ 1 <= Len(mMap)
    BY DEF BlocksHold, BlocksInv, MapFits
  <2>2. mMap # <<>>
    BY <2>1
  <2>3. QED BY <2>1, <2>2
<1>3. aux_told \subseteq Nat \X BlockWrites
  BY DEF BlocksHold, BlocksInv, ToldTrue
<1>4. QED BY <1>1, <1>2, <1>3 DEF BlocksTypeOK, BlocksHold, DiskTypes, StackInv

\* A step of any container.
LEMMA BlocksStep ==
  ASSUME BlocksHold, [ContainersNext \/ BlocksNext]_containersVars
  PROVE  BlocksHold'
<1>1. CASE UNCHANGED <<container, blocksVars>>
  <2>1. UNCHANGED <<block, mData, mMap, aux_told, container>>
    BY <1>1 DEF blocksVars, storeVars
  <2>2. UNCHANGED <<MemBuffer, FileBuffer, FileBufferSize, popped>>
    BY <1>1 DEF blocksVars, diskVars
  <2>3. BlocksInv'
    BY <2>1 DEF BlocksHold, BlocksInv
  <2>4. DiskTypes'
    BY <2>2 DEF BlocksHold, DiskTypes, StackInv
  <2>5. QED BY <2>3, <2>4 DEF BlocksHold
<1>2. CASE UNCHANGED container /\ container = "disk stack" /\ DiskNext
  <2>1. UNCHANGED <<block, mData, mMap, aux_told, container>>
    BY <1>2 DEF DiskNext, storeVars
  <2>2. BlocksInv'
    BY <2>1 DEF BlocksHold, BlocksInv
  <2>3. DiskTypes'
    BY <1>2, DiskTypesKept DEF BlocksHold
  <2>4. QED BY <2>2, <2>3 DEF BlocksHold
<1>3. CASE UNCHANGED <<container, diskVars>> /\ ((container = "block" /\ BlockNext) \/ (container = "store" /\ StoreNext))
  <2>1. UNCHANGED <<MemBuffer, FileBuffer, FileBufferSize, popped>>
    BY <1>3 DEF diskVars
  <2>2. DiskTypes'
    BY <2>1 DEF BlocksHold, DiskTypes, StackInv
  <2>3. CASE container = "block" /\ BlockNext
    BY <1>3, <2>2, <2>3, BlockCallKeeps DEF BlocksHold
  <2>4. CASE container = "store" /\ StoreNext
    <3>1. container # "block"
      BY <2>4
    <3>2. CASE SaveStore
      BY <1>3, <2>2, <3>2, SaveStoreSaves DEF BlocksHold
    <3>3. CASE RestoreStore
      BY <1>3, <2>2, <3>1, <3>3, RestoreStoreRestores DEF BlocksHold
    <3>4. ASSUME NEW item \in BlockWrites, DataStore_AddBlock(item) \/ AddUniqueBlock(item), UNCHANGED block
          PROVE  BlocksHold'
      BY <1>3, <2>2, <3>4, AddBlockStores DEF BlocksHold
    <3>5. QED BY <2>4, <3>2, <3>3, <3>4 DEF StoreNext
  <2>5. QED BY <1>3, <2>3, <2>4
<1>4. CASE ContainersNext
  BY <1>1, <1>4 DEF ContainersNext
<1>5. CASE BlocksNext
  <2>1. UNCHANGED container
    BY <1>5 DEF BlocksNext
  <2>2. CASE container = "block" /\ BlockNext
    <3>1. UNCHANGED diskVars
      BY <2>2 DEF BlockNext
    <3>2. QED BY <1>3, <2>1, <2>2, <3>1
  <2>3. CASE container = "store" /\ StoreNext
    <3>1. UNCHANGED diskVars
      BY <2>3 DEF StoreNext
    <3>2. QED BY <1>3, <2>1, <2>3, <3>1
  <2>4. CASE container = "archive" /\ UNCHANGED blocksVars
    BY <1>1, <2>1, <2>4
  <2>5. QED BY <1>2, <1>5, <2>1, <2>2, <2>3, <2>4 DEF BlocksNext
<1>6. CASE UNCHANGED containersVars
  BY <1>1, <1>6 DEF containersVars
<1>7. QED
  BY <1>4, <1>5, <1>6

\* What callers put into a data store they find under its index, also when it was
\* saved and made again while callers added to it; a block that is read holds nothing
\* but what was written; and block, store and stack on disk keep their types.
THEOREM StoredBlocksAreFound == Containers => [](BlocksTypeOK /\ BlockIsWritten /\ StoreKeepsBlocks)
<1>1. ContainersInit => BlocksHold
  <2>1. BlocksInit => DiskTypes
    <3>1. <<>> \in Seq(Nat) /\ Len(<<>>) = 0 /\ 0 <= MemBufferSize
      BY BlocksAssumption
    <3>2. QED BY <3>1, StackInvInit DEF BlocksInit, DiskTypes
  <2>2. QED BY <2>1, BlocksInvInit DEF ContainersInit, BlocksHold
<1>2. BlocksHold => BlocksTypeOK /\ BlockIsWritten /\ StoreKeepsBlocks
  BY BlocksTypes, BlocksInvImplies DEF BlocksHold
<1>3. QED
  BY <1>1, <1>2, BlocksStep, PTL DEF Containers
=============================================================================
