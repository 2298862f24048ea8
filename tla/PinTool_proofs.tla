--------------------------- MODULE PinTool_proofs ---------------------------
(***************************************************************************)
(* Proofs about the Pin tracer: no recorded event is lost on its way to    *)
(* the trace file (TraceWriter), the shadow stack reports the calls of     *)
(* the program (ShadowStack), and the algorithms of the trace analyzer are *)
(* called with what was recorded (TraceDriver), for every size of the      *)
(* buffers and any number of events, calls and accesses.                   *)
(***************************************************************************)
EXTENDS MCPinTool, SequenceTheorems, FiniteSetTheorems, WellFoundedInduction, TLAPS

\* A nonempty set of numbers has a least element.
LEMMA NatHasLeast ==
  ASSUME NEW S \in SUBSET Nat, S # {}
  PROVE  \E i \in S : \A j \in S : i <= j
<1>1. \E x \in S : \A y \in S : <<y, x>> \notin OpToRel(<, Nat)
  BY NatLessThanWellFounded, WFMin, Zenon
<1>2. PICK x \in S : \A y \in S : <<y, x>> \notin OpToRel(<, Nat)
  BY <1>1
<1>3. \A y \in S : ~ (y < x)
  BY <1>2 DEF OpToRel
<1>4. QED
  BY <1>3

\* A function on 1 .. n is a sequence.
LEMMA FunctionIsSeq ==
  ASSUME NEW S, NEW n \in Nat, NEW f \in [1 .. n -> S]
  PROVE  f \in Seq(S) /\ Len(f) = n
OBVIOUS

\* Nothing in a row is nothing.
LEMMA FlatEmpty == FlattenSeq(<<>>) = <<>>
  BY DEF FlattenSeq

\* One step of the recursion of FlattenSeq.
FlattenStep(s, f, i) == IF i = 1 THEN s[i] ELSE f[i - 1] \o s[i]

\* The recursive function in FlattenSeq exists.
LEMMA FlattenFunction ==
  ASSUME NEW s, NEW n \in Nat
  PROVE  \E f : f = [i \in 1 .. n |-> FlattenStep(s, f, i)]
<1> DEFINE Bad == {m \in Nat : ~ \E f : f = [i \in 1 .. m |-> FlattenStep(s, f, i)]}
<1> SUFFICES ASSUME Bad # {} PROVE FALSE
  OBVIOUS
<1>1. PICK m \in Bad : \A j \in Bad : m <= j
  BY NatHasLeast
<1>2. CASE m = 0
  <2>1. [i \in 1 .. 0 |-> 0] = [i \in 1 .. 0 |-> FlattenStep(s, [k \in 1 .. 0 |-> 0], i)]
    OBVIOUS
  <2>2. QED BY <1>1, <1>2, <2>1
<1>3. CASE m # 0
  <2>1. m - 1 \in Nat /\ m - 1 \notin Bad
    BY <1>1, <1>3
  <2>2. PICK f : f = [i \in 1 .. m - 1 |-> FlattenStep(s, f, i)]
    BY <2>1
  <2> DEFINE g == [i \in 1 .. m |-> IF i = m THEN FlattenStep(s, f, m) ELSE f[i]]
  <2>3. ASSUME NEW i \in 1 .. m PROVE g[i] = FlattenStep(s, g, i)
    <3>1. CASE i = m
      <4>1. i # 1 => g[i - 1] = f[i - 1]
        BY <3>1
      <4>2. QED BY <3>1, <4>1 DEF FlattenStep
    <3>2. CASE i # m
      <4>1. i \in 1 .. m - 1
        BY <3>2
      <4>2. f[i] = FlattenStep(s, f, i)
        BY <2>2, <4>1
      <4>3. i # 1 => g[i - 1] = f[i - 1]
        BY <4>1
      <4>4. QED BY <3>2, <4>2, <4>3 DEF FlattenStep
    <3>3. QED BY <3>1, <3>2
  <2>4. g = [i \in 1 .. m |-> FlattenStep(s, g, i)]
    BY <2>3
  <2>5. QED BY <1>1, <2>4
<1>4. QED BY <1>2, <1>3

\* There is a function that says what FlattenSeq makes of the first i elements.
LEMMA FlattenIsFunction ==
  ASSUME NEW s, Len(s) \in Nat \ {0}
  PROVE  \E f : /\ \A i \in 1 .. Len(s) : f[i] = FlattenStep(s, f, i)
                /\ FlattenSeq(s) = f[Len(s)]
<1> DEFINE flat == CHOOSE f : f = [i \in 1 .. Len(s) |-> FlattenStep(s, f, i)]
<1>1. flat = [i \in 1 .. Len(s) |-> FlattenStep(s, flat, i)]
  <2>1. \E f : f = [i \in 1 .. Len(s) |-> FlattenStep(s, f, i)]
    BY FlattenFunction
  <2>2. QED BY <2>1
<1>2. FlattenSeq(s) = flat[Len(s)]
  BY DEF FlattenSeq, FlattenStep
<1>3. \A i \in 1 .. Len(s) : flat[i] = FlattenStep(s, flat, i)
  <2> DEFINE rhs == [i \in 1 .. Len(s) |-> FlattenStep(s, flat, i)]
  <2>1. flat = rhs
    BY <1>1
  <2>2. \A i \in 1 .. Len(s) : rhs[i] = FlattenStep(s, flat, i)
    OBVIOUS
  <2> HIDE DEF rhs, flat
  <2>3. QED BY <2>1, <2>2
<1> HIDE DEF flat
<1>4. QED BY <1>2, <1>3

\* FlattenSeq of a longer sequence.
LEMMA FlattenAppend ==
  ASSUME NEW S, NEW s \in Seq(S), NEW x \in S
  PROVE  /\ FlattenSeq(<<x>>) = x
         /\ s # <<>> => FlattenSeq(Append(s, x)) = FlattenSeq(s) \o x
<1>1. FlattenSeq(<<x>>) = x
  <2>0. Len(<<x>>) = 1 /\ 1 \in Nat \ {0}
    OBVIOUS
  <2>1. PICK f : /\ \A i \in 1 .. Len(<<x>>) : f[i] = FlattenStep(<<x>>, f, i)
                 /\ FlattenSeq(<<x>>) = f[Len(<<x>>)]
    BY <2>0, FlattenIsFunction
  <2>2. QED BY <2>0, <2>1 DEF FlattenStep
<1>2. ASSUME s # <<>> PROVE FlattenSeq(Append(s, x)) = FlattenSeq(s) \o x
  <2> DEFINE t == Append(s, x)
  <2>1. /\ Len(s) \in Nat \ {0} /\ Len(t) = Len(s) + 1
        /\ \A i \in 1 .. Len(s) : s[i] = t[i]
        /\ t[Len(t)] = x
    BY <1>2, AppendProperties
  <2> HIDE DEF t
  <2>2. PICK f : /\ \A i \in 1 .. Len(s) : f[i] = FlattenStep(s, f, i)
                 /\ FlattenSeq(s) = f[Len(s)]
    BY <2>1, FlattenIsFunction
  <2>3. PICK g : /\ \A i \in 1 .. Len(t) : g[i] = FlattenStep(t, g, i)
                 /\ FlattenSeq(t) = g[Len(t)]
    BY <2>1, FlattenIsFunction
  <2>4. f[Len(s)] = g[Len(s)]
    <3> DEFINE Bad == {i \in 1 .. Len(s) : f[i] # g[i]}
    <3>1. ASSUME Bad # {} PROVE FALSE
      <4>1. Bad \in SUBSET Nat
        OBVIOUS
      <4>2. PICK b \in Bad : \A j \in Bad : b <= j
        BY <3>1, <4>1, NatHasLeast
      <4>3. b \in 1 .. Len(s) /\ b \in 1 .. Len(t) /\ s[b] = t[b]
        BY <2>1
      <4>4. f[b] = FlattenStep(s, f, b) /\ g[b] = FlattenStep(t, g, b)
        BY <2>2, <2>3, <4>3
      <4>5. b # 1 => f[b - 1] = g[b - 1]
        <5>1. b # 1 => b - 1 \in 1 .. Len(s) /\ b - 1 \notin Bad
          BY <2>1, <4>2
        <5>2. QED BY <5>1
      <4>6. QED BY <4>2, <4>3, <4>4, <4>5 DEF FlattenStep
    <3>2. Len(s) \in 1 .. Len(s)
      BY <2>1
    <3>3. QED BY <3>1, <3>2
  <2>5. g[Len(t)] = FlattenStep(t, g, Len(t))
    <3>1. Len(t) \in 1 .. Len(t)
      BY <2>1
    <3>2. QED BY <2>3, <3>1
  <2>6. QED BY <2>1, <2>2, <2>3, <2>4, <2>5 DEF FlattenStep, t
<1>3. QED BY <1>1, <1>2

\* It is a sequence of the elements of the elements, and empty only if they are.
LEMMA FlattenType ==
  ASSUME NEW S, NEW s \in Seq(Seq(S))
  PROVE  FlattenSeq(s) \in Seq(S)
<1>1. CASE s = <<>>
  BY <1>1, FlatEmpty, EmptySeq
<1>2. CASE s # <<>>
  <2>1. Len(s) \in Nat \ {0}
    BY <1>2, EmptySeq
  <2>2. PICK f : /\ \A i \in 1 .. Len(s) : f[i] = FlattenStep(s, f, i)
                 /\ FlattenSeq(s) = f[Len(s)]
    BY <2>1, FlattenIsFunction
  <2> DEFINE Bad == {i \in 1 .. Len(s) : f[i] \notin Seq(S)}
  <2>3. ASSUME Bad # {} PROVE FALSE
    <3>0. Bad \in SUBSET Nat
      BY <2>1
    <3>1. PICK b \in Bad : \A j \in Bad : b <= j
      BY <2>3, <3>0, NatHasLeast
    <3>2. b # 1 => f[b - 1] \in Seq(S)
      <4>1. b # 1 => b - 1 \in 1 .. Len(s) /\ b - 1 \notin Bad
        BY <2>1, <3>1
      <4>2. QED BY <4>1
    <3>3. f[b] = FlattenStep(s, f, b) /\ s[b] \in Seq(S)
      BY <2>2, <3>1
    <3>4. FlattenStep(s, f, b) \in Seq(S)
      BY <3>2, <3>3 DEF FlattenStep
    <3>5. QED BY <3>1, <3>3, <3>4
  <2>4. Len(s) \in 1 .. Len(s)
    BY <2>1
  <2>5. QED BY <2>2, <2>3, <2>4
<1>3. QED BY <1>1, <1>2

\* With types, the empty sequence is no exception.
LEMMA FlattenStepwise ==
  ASSUME NEW S, NEW s \in Seq(Seq(S)), NEW x \in Seq(S)
  PROVE  FlattenSeq(Append(s, x)) = FlattenSeq(s) \o x
<1>1. CASE s = <<>>
  <2>1. Append(s, x) = <<x>> /\ FlattenSeq(s) = <<>> /\ <<>> \o x = x
    BY <1>1, FlatEmpty, ConcatEmptySeq
  <2>2. QED BY <2>1, FlattenAppend
<1>2. CASE s # <<>>
  BY <1>2, FlattenAppend
<1>3. QED BY <1>1, <1>2

\* FlattenSeq distributes over concatenation.
LEMMA FlattenConcat ==
  ASSUME NEW S, NEW s \in Seq(Seq(S)), NEW t \in Seq(Seq(S))
  PROVE  FlattenSeq(s \o t) = FlattenSeq(s) \o FlattenSeq(t)
<1> DEFINE Bad == {n \in Nat : \E u \in Seq(Seq(S)) :
                     Len(u) = n /\ FlattenSeq(s \o u) # FlattenSeq(s) \o FlattenSeq(u)}
<1>1. ASSUME Bad # {} PROVE FALSE
  <2>1. PICK b \in Bad : \A j \in Bad : b <= j
    BY <1>1, NatHasLeast
  <2>2. PICK u \in Seq(Seq(S)) :
          Len(u) = b /\ FlattenSeq(s \o u) # FlattenSeq(s) \o FlattenSeq(u)
    BY <2>1
  <2>3. FlattenSeq(s) \in Seq(S)
    BY FlattenType
  <2>4. u # <<>>
    <3>1. s \o <<>> = s /\ FlattenSeq(s) \o <<>> = FlattenSeq(s)
      BY <2>3, ConcatEmptySeq
    <3>2. QED BY <2>2, <3>1, FlatEmpty
  <2>5. PICK v \in Seq(Seq(S)), x \in Seq(S) : u = Append(v, x)
    BY <2>4, SequenceEmptyOrAppend
  <2>6. Len(v) \in Nat /\ Len(v) < b
    BY <2>2, <2>5
  <2>7. FlattenSeq(s \o v) = FlattenSeq(s) \o FlattenSeq(v)
    BY <2>1, <2>6
  <2>8. s \o u = Append(s \o v, x) /\ s \o v \in Seq(Seq(S))
    BY <2>5
  <2>9. FlattenSeq(s \o u) = (FlattenSeq(s) \o FlattenSeq(v)) \o x
    BY <2>7, <2>8, FlattenStepwise
  <2>10. FlattenSeq(u) = FlattenSeq(v) \o x
    BY <2>5, FlattenStepwise
  <2>11. FlattenSeq(v) \in Seq(S)
    BY FlattenType
  <2>12. (FlattenSeq(s) \o FlattenSeq(v)) \o x = FlattenSeq(s) \o (FlattenSeq(v) \o x)
    <3> DEFINE a == FlattenSeq(s)
               c == FlattenSeq(v)
    <3>1. a \in Seq(S) /\ c \in Seq(S) /\ x \in Seq(S)
      BY <2>3, <2>11
    <3> HIDE DEF a, c, Bad
    <3>2. (a \o c) \o x = a \o (c \o x)
      BY <3>1, ConcatAssociative
    <3>3. QED BY <3>2 DEF a, c
  <2>13. QED BY <2>2, <2>9, <2>10, <2>12
<1>2. Len(t) \in Nat
  BY LenProperties
<1>3. Len(t) \notin Bad
  BY <1>1
<1>4. QED BY <1>2, <1>3

\* FlattenSeq of all the parts is FlattenSeq of what each of them makes.
LEMMA FlattenTwice ==
  ASSUME NEW S, NEW s \in Seq(Seq(Seq(S)))
  PROVE  FlattenSeq(FlattenSeq(s)) = FlattenSeq([i \in DOMAIN s |-> FlattenSeq(s[i])])
<1> DEFINE Each(u) == [i \in DOMAIN u |-> FlattenSeq(u[i])]
           Bad == {n \in Nat : \E u \in Seq(Seq(Seq(S))) :
                     Len(u) = n /\ FlattenSeq(FlattenSeq(u)) # FlattenSeq(Each(u))}
<1> HIDE DEF Each
<1>1. ASSUME Bad # {} PROVE FALSE
  <2>1. PICK b \in Bad : \A j \in Bad : b <= j
    BY <1>1, NatHasLeast
  <2>2. PICK u \in Seq(Seq(Seq(S))) :
          Len(u) = b /\ FlattenSeq(FlattenSeq(u)) # FlattenSeq(Each(u))
    BY <2>1
  <2>4. u # <<>>
    <3>1. Each(<<>>) = <<>>
      BY DEF Each
    <3>2. QED BY <2>2, <3>1, FlatEmpty
  <2>5. PICK v \in Seq(Seq(Seq(S))), x \in Seq(Seq(S)) : u = Append(v, x)
    BY <2>4, SequenceEmptyOrAppend
  <2>6. Len(v) \in Nat /\ Len(v) < b
    BY <2>2, <2>5
  <2>7. FlattenSeq(FlattenSeq(v)) = FlattenSeq(Each(v))
    BY <2>1, <2>6
  <2>8. /\ FlattenSeq(x) \in Seq(S)
        /\ FlattenSeq(v) \in Seq(Seq(S))
        /\ \A i \in 1 .. Len(v) : FlattenSeq(v[i]) \in Seq(S)
    BY FlattenType
  <2>9. Each(v) \in Seq(Seq(S)) /\ Len(Each(v)) = Len(v)
    <3>1. Each(v) \in [1 .. Len(v) -> Seq(S)]
      BY <2>8 DEF Each
    <3>2. QED BY <2>6, <3>1, FunctionIsSeq
  <2>15. Each(u) \in Seq(Seq(S)) /\ Len(Each(u)) = Len(u)
    <3>1. Each(u) \in [1 .. Len(u) -> Seq(S)]
      <4>1. \A i \in 1 .. Len(u) : FlattenSeq(u[i]) \in Seq(S)
        BY FlattenType
      <4>2. QED BY <4>1 DEF Each
    <3>2. QED BY <2>2, <3>1, FunctionIsSeq
  <2>14. Each(u) = Append(Each(v), FlattenSeq(x))
    <3>1. /\ DOMAIN u = 1 .. Len(v) + 1
          /\ \A i \in 1 .. Len(v) : u[i] = v[i]
          /\ u[Len(v) + 1] = x
      BY <2>5
    <3>2. \A i \in 1 .. Len(v) : Each(v)[i] = FlattenSeq(v[i])
      BY DEF Each
    <3>3. \A i \in 1 .. Len(v) + 1 : Each(u)[i] = FlattenSeq(u[i])
      BY <3>1 DEF Each
    <3> DEFINE y == FlattenSeq(x)
               ev == Each(v)
               w == Append(ev, y)
    <3>4. w \in Seq(Seq(S)) /\ Len(w) = Len(v) + 1
      BY <2>8, <2>9, AppendProperties
    <3>6. \A i \in 1 .. Len(v) + 1 : w[i] = IF i = Len(v) + 1 THEN FlattenSeq(x) ELSE Each(v)[i]
      <4>1. ev \in Seq(Seq(S)) /\ y \in Seq(S) /\ Len(ev) = Len(v)
        BY <2>8, <2>9
      <4> HIDE DEF ev, y, Bad
      <4>2. \A i \in 1 .. Len(v) + 1 : w[i] = IF i = Len(v) + 1 THEN y ELSE ev[i]
        BY <4>1, AppendProperties
      <4>3. QED BY <4>2 DEF ev, y
    <3>7. Len(Each(u)) = Len(w) /\ \A i \in 1 .. Len(w) : Each(u)[i] = w[i]
      BY <2>15, <3>1, <3>2, <3>3, <3>4, <3>6
    <3> HIDE DEF w
    <3>8. Each(u) = w
      BY <2>15, <3>4, <3>7, SeqEqual
    <3>9. QED BY <3>8 DEF w
  <2>10. FlattenSeq(Each(u)) = FlattenSeq(Each(v)) \o FlattenSeq(x)
    BY <2>8, <2>9, <2>14, FlattenStepwise
  <2>11. FlattenSeq(u) = FlattenSeq(v) \o x
    BY <2>5, FlattenStepwise
  <2>12. FlattenSeq(FlattenSeq(u)) = FlattenSeq(FlattenSeq(v)) \o FlattenSeq(x)
    BY <2>8, <2>11, FlattenConcat
  <2>13. QED BY <2>2, <2>7, <2>10, <2>12
<1>2. Len(s) \in Nat
  BY LenProperties
<1>3. Len(s) \notin Bad
  BY <1>1
<1>4. QED BY <1>2, <1>3 DEF Each

-----------------------------------------------------------------------------
(* What is recorded of events.                                             *)

\* What is recorded.
Event == {"RTN_ENTER", "RTN_ENTER_CS", "RTN_EXIT", "TIMER_TICK"} \X Nat

\* What is written at once: no longer than a word.
Piece == {p \in Seq(Byte) : Len(p) \in 1 .. Word}

\* The pieces of an event are short and not empty, as are those of the header.
LEMMA PiecesType ==
  ASSUME ConstantsAssumption
  PROVE  /\ \A e \in Event : Pieces(e) \in Seq(Piece)
         /\ HeaderPieces \in Seq(Piece)
<1>1. Word \in {2, 4} /\ HeaderWords \in Nat
  BY DEF ConstantsAssumption, WordAssumption
<1>2. ASSUME NEW e, NEW i \in Nat, NEW j \in Nat, j - i + 1 \in 1 .. Word,
             e[1] \in {"HEADER", "RTN_ENTER", "RTN_ENTER_CS", "RTN_EXIT", "TIMER_TICK"},
             e[2] \in Nat
      PROVE  EventBytes(e, i, j) \in Piece
  <2> DEFINE n == j - i + 1
             b == EventBytes(e, i, j)
  <2>1. n \in 1 .. Word /\ n \in Nat
    BY <1>1, <1>2
  <2>2. b \in [1 .. n -> Byte]
    BY <1>2 DEF EventBytes, Byte
  <2> HIDE DEF n, b
  <2>3. b \in Seq(Byte) /\ Len(b) = n
    BY <2>1, <2>2, FunctionIsSeq
  <2>4. QED BY <2>1, <2>3 DEF b, Piece
<1>3. ASSUME NEW e \in Event PROVE Pieces(e) \in Seq(Piece)
  <2>1. e[1] \in {"HEADER", "RTN_ENTER", "RTN_ENTER_CS", "RTN_EXIT", "TIMER_TICK"} /\ e[2] \in Nat
    BY DEF Event
  <2> DEFINE p1 == EventBytes(e, 0, 0)
             p2 == EventBytes(e, 1, Word)
             p3 == EventBytes(e, Word + 1, Word + Word \div 2)
  <2>2. p1 \in Piece
    BY <1>1, <1>2, <2>1
  <2>3. p2 \in Piece
    BY <1>1, <1>2, <2>1
  <2>4. p3 \in Piece
    <3>1. /\ Word + 1 \in Nat /\ Word + Word \div 2 \in Nat
          /\ (Word + Word \div 2) - (Word + 1) + 1 \in 1 .. Word
      BY <1>1
    <3>2. QED BY <1>2, <2>1, <3>1
  <2>5. Pieces(e) = <<p1, p2, p3>> \/ Pieces(e) = <<p1, p2>> \/ Pieces(e) = <<p1>>
    BY DEF Pieces
  <2> HIDE DEF p1, p2, p3
  <2>6. <<p1, p2, p3>> \in Seq(Piece) /\ <<p1, p2>> \in Seq(Piece) /\ <<p1>> \in Seq(Piece)
    BY <2>2, <2>3, <2>4
  <2>7. QED BY <2>5, <2>6
<1>4. HeaderPieces \in Seq(Piece)
  <2>1. ASSUME NEW w \in 1 .. HeaderWords
        PROVE  EventBytes(<<"HEADER", w>>, 1, Word) \in Piece
    <3>1. <<"HEADER", w>>[1] = "HEADER" /\ <<"HEADER", w>>[2] \in Nat
      OBVIOUS
    <3>2. 1 \in Nat /\ Word \in Nat /\ Word - 1 + 1 \in 1 .. Word
      BY <1>1
    <3>3. QED BY <1>2, <3>1, <3>2
  <2>2. HeaderPieces \in [1 .. HeaderWords -> Piece]
    BY <2>1 DEF HeaderPieces
  <2>3. QED BY <1>1, <2>2, FunctionIsSeq
<1>5. QED BY <1>3, <1>4

\* A sequence of pieces is one of sequences of bytes.
LEMMA PiecesAreSeqs ==
  ASSUME NEW p \in Seq(Piece)
  PROVE  p \in Seq(Seq(Byte))
<1>1. Piece \subseteq Seq(Byte)
  BY DEF Piece
<1>2. QED BY <1>1, SeqMonotonic

\* What each event of a sequence is recorded as.
LEMMA EachType ==
  ASSUME ConstantsAssumption, NEW s \in Seq(Event)
  PROVE  /\ [i \in DOMAIN s |-> Pieces(s[i])] \in Seq(Seq(Piece))
         /\ [i \in DOMAIN s |-> FlattenSeq(Pieces(s[i]))] \in Seq(Seq(Byte))
<1>1. \A i \in 1 .. Len(s) : Pieces(s[i]) \in Seq(Piece) /\ Pieces(s[i]) \in Seq(Seq(Byte))
  <2>1. \A i \in 1 .. Len(s) : Pieces(s[i]) \in Seq(Piece)
    BY PiecesType
  <2>2. QED BY <2>1, PiecesAreSeqs
<1>2. \A i \in 1 .. Len(s) : FlattenSeq(Pieces(s[i])) \in Seq(Byte)
  BY <1>1, FlattenType
<1> DEFINE p == [i \in DOMAIN s |-> Pieces(s[i])]
           q == [i \in DOMAIN s |-> FlattenSeq(Pieces(s[i]))]
           n == Len(s)
<1>3. p \in [1 .. n -> Seq(Piece)] /\ q \in [1 .. n -> Seq(Byte)] /\ n \in Nat
  BY <1>1, <1>2
<1> HIDE DEF p, q, n
<1>4. p \in Seq(Seq(Piece)) /\ q \in Seq(Seq(Byte))
  BY <1>3, FunctionIsSeq
<1>5. QED BY <1>4 DEF p, q

\* The pieces that Record leaves to be written are those of the events.
LEMMA RecordedPieces ==
  ASSUME ConstantsAssumption, NEW s \in Seq(Event),
         NEW p, p = FlattenSeq([i \in DOMAIN s |-> Pieces(s[i])])
  PROVE  p \in Seq(Piece) /\ FlattenSeq(p) = StreamOf(s)
<1> DEFINE pp == [i \in DOMAIN s |-> Pieces(s[i])]
<1>1. pp \in Seq(Seq(Piece))
  BY EachType
<1>2. pp \in Seq(Seq(Seq(Byte)))
  <2>1. Seq(Piece) \subseteq Seq(Seq(Byte))
    BY PiecesAreSeqs
  <2> HIDE DEF pp
  <2>2. QED BY <1>1, <2>1, SeqMonotonic
<1>3. [i \in DOMAIN pp |-> FlattenSeq(pp[i])] = [i \in DOMAIN s |-> FlattenSeq(Pieces(s[i]))]
  OBVIOUS
<1> HIDE DEF pp
<1>4. p \in Seq(Piece)
  BY <1>1, FlattenType DEF pp
<1>5. FlattenSeq(FlattenSeq(pp)) = FlattenSeq([i \in DOMAIN pp |-> FlattenSeq(pp[i])])
  BY <1>2, FlattenTwice
<1>6. QED BY <1>3, <1>4, <1>5 DEF StreamOf, pp

\* The stream grows by what is recorded of the new events.
LEMMA StreamConcat ==
  ASSUME ConstantsAssumption, NEW s \in Seq(Event), NEW t \in Seq(Event)
  PROVE  StreamOf(s \o t) = StreamOf(s) \o StreamOf(t) /\ StreamOf(s) \in Seq(Byte)
<1> DEFINE Each(u) == [i \in DOMAIN u |-> FlattenSeq(Pieces(u[i]))]
<1>1. ASSUME NEW u \in Seq(Event)
      PROVE  Each(u) \in Seq(Seq(Byte)) /\ Len(Each(u)) = Len(u)
  <2>1. Each(u) \in Seq(Seq(Byte))
    BY EachType
  <2>2. DOMAIN Each(u) = 1 .. Len(u) /\ Len(u) \in Nat
    OBVIOUS
  <2> HIDE DEF Each
  <2>3. DOMAIN Each(u) = 1 .. Len(Each(u)) /\ Len(Each(u)) \in Nat
    BY <2>1, LenProperties
  <2>4. QED BY <2>1, <2>2, <2>3
<1>2. s \o t \in Seq(Event) /\ Len(s \o t) = Len(s) + Len(t)
  BY ConcatProperties
<1>3. Each(s \o t) = Each(s) \o Each(t)
  <2> DEFINE a == Each(s)
             b == Each(t)
             c == Each(s \o t)
  <2>1. /\ a \in Seq(Seq(Byte)) /\ b \in Seq(Seq(Byte)) /\ c \in Seq(Seq(Byte))
        /\ Len(a) = Len(s) /\ Len(b) = Len(t) /\ Len(c) = Len(s) + Len(t)
    BY <1>1, <1>2
  <2>2. \A i \in 1 .. Len(s) : a[i] = FlattenSeq(Pieces(s[i]))
    OBVIOUS
  <2>3. \A i \in 1 .. Len(t) : b[i] = FlattenSeq(Pieces(t[i]))
    OBVIOUS
  <2>4. \A i \in 1 .. Len(s) + Len(t) : c[i] = FlattenSeq(Pieces((s \o t)[i]))
    BY <1>2
  <2>5. \A i \in 1 .. Len(s) + Len(t) :
          (s \o t)[i] = IF i <= Len(s) THEN s[i] ELSE t[i - Len(s)]
    BY ConcatProperties
  <2> HIDE DEF a, b, c
  <2>6. /\ a \o b \in Seq(Seq(Byte)) /\ Len(a \o b) = Len(s) + Len(t)
        /\ \A i \in 1 .. Len(s) + Len(t) :
             (a \o b)[i] = IF i <= Len(s) THEN a[i] ELSE b[i - Len(s)]
    <3> DEFINE m == Len(s)
               n == Len(t)
    <3>1. m = Len(a) /\ n = Len(b)
      BY <2>1
    <3> HIDE DEF m, n
    <3>2. /\ a \o b \in Seq(Seq(Byte)) /\ Len(a \o b) = m + n
          /\ \A i \in 1 .. m + n : (a \o b)[i] = IF i <= m THEN a[i] ELSE b[i - m]
      BY <2>1, <3>1, ConcatProperties
    <3>3. QED BY <3>2 DEF m, n
  <2>7. \A i \in 1 .. Len(s) + Len(t) : c[i] = (a \o b)[i]
    <3>1. TAKE i \in 1 .. Len(s) + Len(t)
    <3>2. CASE i <= Len(s)
      <4>1. i \in 1 .. Len(s)
        BY <3>2
      <4>2. c[i] = FlattenSeq(Pieces(s[i])) /\ (a \o b)[i] = a[i]
        BY <2>4, <2>5, <2>6, <3>2
      <4>3. QED BY <2>2, <4>1, <4>2
    <3>3. CASE ~ (i <= Len(s))
      <4>1. i - Len(s) \in 1 .. Len(t)
        BY <3>3
      <4>2. c[i] = FlattenSeq(Pieces(t[i - Len(s)])) /\ (a \o b)[i] = b[i - Len(s)]
        BY <2>4, <2>5, <2>6, <3>3
      <4>3. QED BY <2>3, <4>1, <4>2
    <3>4. QED BY <3>2, <3>3
  <2>8. c = a \o b
    BY <2>1, <2>6, <2>7, SeqEqual
  <2>9. QED BY <2>8 DEF a, b, c
<1>4. Each(s) \in Seq(Seq(Byte)) /\ Each(t) \in Seq(Seq(Byte))
  BY <1>1
<1>5. \A u : StreamOf(u) = FlattenSeq(Each(u))
  BY DEF StreamOf
<1> HIDE DEF Each
<1>6. QED BY <1>3, <1>4, <1>5, FlattenConcat, FlattenType

-----------------------------------------------------------------------------
(* How many of the events are of a kind.                                   *)

\* Occurrences of one more event.
LEMMA OccurrencesAppend ==
  ASSUME NEW s \in Seq(Event), NEW e \in Event, NEW kinds
  PROVE  /\ Occurrences(s, kinds) \in Nat
         /\ Occurrences(<<>>, kinds) = 0
         /\ Occurrences(Append(s, e), kinds) =
              Occurrences(s, kinds) + IF e[1] \in kinds THEN 1 ELSE 0
<1> DEFINE Set(u) == {i \in DOMAIN u : u[i][1] \in kinds}
           n == Len(s)
           new == Append(s, e)
<1>1. n \in Nat /\ Len(new) = n + 1 /\ new[n + 1] = e /\ \A i \in 1 .. n : new[i] = s[i]
  BY AppendProperties
<1>2. IsFiniteSet(1 .. n)
  BY <1>1, FS_Interval
<1>3. Set(s) \subseteq 1 .. n
  OBVIOUS
<1>4. IsFiniteSet(Set(s)) /\ Cardinality(Set(s)) \in Nat
  BY <1>2, <1>3, FS_Subset, FS_CardinalityType
<1>5. Set(<<>>) = {}
  OBVIOUS
<1>6. Set(new) = IF e[1] \in kinds THEN Set(s) \cup {n + 1} ELSE Set(s)
  <2>1. DOMAIN new = 1 .. n + 1 /\ DOMAIN s = 1 .. n
    BY <1>1
  <2> HIDE DEF new
  <2>2. QED BY <1>1, <2>1
<1>7. n + 1 \notin Set(s)
  BY <1>1, <1>3
<1>8. Cardinality(Set(s) \cup {n + 1}) = Cardinality(Set(s)) + 1
  BY <1>4, <1>7, FS_AddElement
<1>9. \A u : Occurrences(u, kinds) = Cardinality(Set(u))
  BY DEF Occurrences
<1> HIDE DEF Set, new, n
<1>10. Occurrences(new, kinds) = Occurrences(s, kinds) + IF e[1] \in kinds THEN 1 ELSE 0
  <2>1. CASE e[1] \in kinds
    BY <1>4, <1>6, <1>8, <1>9, <2>1
  <2>2. CASE e[1] \notin kinds
    BY <1>4, <1>6, <1>9, <2>2
  <2>3. QED BY <2>1, <2>2
<1>11. QED BY <1>4, <1>5, <1>9, <1>10, FS_EmptySet DEF new

\* n ticks are n occurrences of a tick.
LEMMA OccurrencesTicks ==
  ASSUME NEW s \in Seq(Event), NEW n \in Nat, NEW kinds,
         NEW t, t = [i \in 1 .. n |-> TimerTickEvent]
  PROVE  /\ t \in Seq(Event)
         /\ Occurrences(s \o t, kinds) =
              Occurrences(s, kinds) + IF "TIMER_TICK" \in kinds THEN n ELSE 0
<1> DEFINE Ticks(k) == [i \in 1 .. k |-> TimerTickEvent]
           Add(k) == IF "TIMER_TICK" \in kinds THEN k ELSE 0
           Bad == {k \in Nat : Occurrences(s \o Ticks(k), kinds) # Occurrences(s, kinds) + Add(k)}
<1>1. TimerTickEvent \in Event /\ TimerTickEvent[1] = "TIMER_TICK"
  BY DEF TimerTickEvent, Event
<1>2. ASSUME NEW k \in Nat
      PROVE  Ticks(k) \in Seq(Event) /\ Len(Ticks(k)) = k /\ \A i \in 1 .. k : Ticks(k)[i] = TimerTickEvent
  BY <1>1, FunctionIsSeq
<1>3. ASSUME Bad # {} PROVE FALSE
  <2>1. PICK b \in Bad : \A j \in Bad : b <= j
    BY <1>3, NatHasLeast
  <2>2. b # 0
    <3>1. s \o Ticks(0) = s
      <4>1. Ticks(0) = <<>>
        OBVIOUS
      <4>2. QED BY <4>1, ConcatEmptySeq
    <3>2. Occurrences(s, kinds) \in Nat
      BY <1>1, OccurrencesAppend
    <3>3. Add(0) = 0
      OBVIOUS
    <3> HIDE DEF Ticks, Add
    <3>4. 0 \notin Bad
      <4>1. Occurrences(s \o Ticks(0), kinds) = Occurrences(s, kinds)
        BY <3>1
      <4>2. Occurrences(s, kinds) + Add(0) = Occurrences(s, kinds)
        BY <3>2, <3>3
      <4>3. QED BY <4>1, <4>2
    <3>5. QED BY <2>1, <3>4
  <2>3. b - 1 \in Nat /\ b - 1 \notin Bad
    BY <2>1, <2>2
  <2>4. Occurrences(s \o Ticks(b - 1), kinds) = Occurrences(s, kinds) + Add(b - 1)
    BY <2>3
  <2>5. s \o Ticks(b) = Append(s \o Ticks(b - 1), TimerTickEvent)
    <3> DEFINE p == Ticks(b - 1)
               q == Ticks(b)
    <3>1. p \in Seq(Event) /\ q \in Seq(Event) /\ Len(p) = b - 1 /\ Len(q) = b
      BY <1>2, <2>1, <2>3
    <3>2. (\A i \in 1 .. b - 1 : p[i] = TimerTickEvent) /\ (\A i \in 1 .. b : q[i] = TimerTickEvent)
      OBVIOUS
    <3> HIDE DEF p, q, Ticks
    <3>3. Append(p, TimerTickEvent) = q
      <4> DEFINE w == Append(p, TimerTickEvent)
      <4>1. /\ w \in Seq(Event) /\ Len(w) = b
            /\ \A i \in 1 .. b : w[i] = TimerTickEvent
        BY <1>1, <2>1, <3>1, <3>2, AppendProperties
      <4> HIDE DEF w
      <4>2. w = q
        BY <3>1, <3>2, <4>1, SeqEqual
      <4>3. QED BY <4>2 DEF w
    <3>4. s \o Append(p, TimerTickEvent) = Append(s \o p, TimerTickEvent)
      BY <1>1, <3>1
    <3>5. QED BY <3>3, <3>4 DEF p, q
  <2>6. s \o Ticks(b - 1) \in Seq(Event)
    BY <1>2, <2>3, ConcatProperties
  <2>7. Occurrences(s \o Ticks(b), kinds) =
          Occurrences(s \o Ticks(b - 1), kinds) + IF "TIMER_TICK" \in kinds THEN 1 ELSE 0
    <3> DEFINE p == s \o Ticks(b - 1)
    <3>1. p \in Seq(Event) /\ s \o Ticks(b) = Append(p, TimerTickEvent)
      BY <2>5, <2>6
    <3> HIDE DEF p, Ticks
    <3>2. Occurrences(Append(p, TimerTickEvent), kinds) =
            Occurrences(p, kinds) + IF TimerTickEvent[1] \in kinds THEN 1 ELSE 0
      BY <1>1, <3>1, OccurrencesAppend
    <3>3. QED BY <1>1, <3>1, <3>2 DEF p
  <2>8. Occurrences(s, kinds) \in Nat
    BY <1>1, OccurrencesAppend
  <2>9. QED BY <2>1, <2>3, <2>4, <2>7, <2>8
<1>4. QED BY <1>2, <1>3

-----------------------------------------------------------------------------
(* The inductive invariant of a writer.                                    *)

\* The buffer that is not being filled.
Other == 1 - Current

\* What is in the file and in the buffers, and the waiting pieces, is what was
\* recorded; the other buffer is full only while it is dumped; the counters of the
\* writer agree with the events.
Accounted ==
  /\ aux_events \in Seq(Event)
  /\ pending \in Seq(Piece)
  /\ index = 0 <=> dumper = "none"
  /\ dumper \in {"writing", "written"} => dumped = Other
  /\ phase = "new" => /\ index = 0 /\ buffer[0] = <<>> /\ buffer[1] = <<>>
                      /\ pending = <<>> /\ file = <<>> /\ aux_events = <<>>
                      /\ rtnEvents = <<0, 0>> /\ ticks = 0 /\ firstTick = 0
  /\ phase = "open" =>
       /\ dumper \in {"none", "ended"} => buffer[Other] = <<>>
       /\ rtnEvents[1] = Recordings({"RTN_ENTER", "RTN_ENTER_CS"})
       /\ rtnEvents[2] = Recordings({"RTN_EXIT"})
       /\ ticks - firstTick = Recordings({"TIMER_TICK"})

\* The inductive invariant of a writer.
WriterInv == TypeOK /\ Accounted /\ NothingLost

\* One buffer is filled and the other one written.
LEMMA Parity ==
  ASSUME index \in Nat
  PROVE  /\ Current \in 0 .. 1 /\ Other \in 0 .. 1 /\ Other # Current
         /\ (index - 1) % 2 = Other /\ (index + 1) % 2 = Other
         /\ (index + 1 - 1) % 2 = Current
BY DEF Current, Other

\* The stream and its parts are sequences of bytes.
LEMMA StreamTypes ==
  ASSUME ConstantsAssumption, WriterInv
  PROVE  /\ FlattenSeq(HeaderPieces) \in Seq(Byte)
         /\ Recorded \in Seq(Byte)
         /\ Unsaved \in Seq(Byte) /\ buffer[Current] \in Seq(Byte)
         /\ FlattenSeq(pending) \in Seq(Byte)
<1>1. FlattenSeq(HeaderPieces) \in Seq(Byte)
  BY PiecesType, PiecesAreSeqs, FlattenType
<1>2. aux_events \in Seq(Event) /\ pending \in Seq(Piece) /\ index \in Nat /\ buffer \in [0 .. 1 -> Seq(Byte)]
  BY DEF WriterInv, Accounted, TypeOK
<1>3. StreamOf(aux_events) \in Seq(Byte)
  BY <1>2, StreamConcat
<1>4. Recorded \in Seq(Byte)
  BY <1>1, <1>3, ConcatProperties DEF Recorded
<1>5. FlattenSeq(pending) \in Seq(Byte)
  BY <1>2, PiecesAreSeqs, FlattenType
<1>6. Unsaved \in Seq(Byte) /\ buffer[Current] \in Seq(Byte)
  BY <1>2, Parity, EmptySeq DEF Unsaved
<1>7. QED BY <1>1, <1>4, <1>5, <1>6

\* What waits starts with its first piece.
LEMMA FirstPiece ==
  ASSUME ConstantsAssumption, NEW p \in Seq(Piece), p # <<>>
  PROVE  /\ Head(p) \in Piece /\ Tail(p) \in Seq(Piece)
         /\ FlattenSeq(p) = Head(p) \o FlattenSeq(Tail(p))
<1> DEFINE h == Head(p)
           t == Tail(p)
<1>1. h \in Piece /\ t \in Seq(Piece) /\ p = <<h>> \o t
  OBVIOUS
<1> HIDE DEF h, t
<1>2. h \in Seq(Byte) /\ t \in Seq(Seq(Byte)) /\ <<h>> \in Seq(Seq(Byte))
  BY <1>1, PiecesAreSeqs DEF Piece
<1>3. FlattenSeq(<<h>> \o t) = FlattenSeq(<<h>>) \o FlattenSeq(t)
  BY <1>2, FlattenConcat
<1>4. FlattenSeq(<<h>>) = h
  BY <1>1, FlattenAppend
<1>5. QED BY <1>1, <1>3, <1>4 DEF h, t

-----------------------------------------------------------------------------
(* Every action keeps the invariant.                                       *)

\* A new process.
LEMMA InitWriter == ASSUME ConstantsAssumption, Init PROVE WriterInv
<1>1. TypeOK
  BY EmptySeq DEF Init, TypeOK, BuffersFit, ConstantsAssumption
<1>2. Accounted
  BY EmptySeq DEF Init, Accounted, Other, Current
<1>3. NothingLost
  BY DEF Init, NothingLost
<1>4. QED BY <1>1, <1>2, <1>3 DEF WriterInv

\* A step that leaves the writer alone.
LEMMA StutterStep == ASSUME WriterInv, UNCHANGED vars PROVE WriterInv'
  BY DEF WriterInv, TypeOK, BuffersFit, Accounted, Other, Current, NothingLost, Unsaved,
         Recorded, Recordings, vars, threadVars

\* The timer counts.
LEMMA TimerTickStep == ASSUME WriterInv, TimerTick PROVE WriterInv'
<1>1. TypeOK'
  BY DEF WriterInv, TypeOK, BuffersFit, TimerTick, threadVars
<1>2. Accounted' /\ NothingLost'
  BY DEF WriterInv, Accounted, Other, Current, NothingLost, Unsaved, Recorded, Recordings,
         TimerTick, threadVars
<1>3. QED BY <1>1, <1>2 DEF WriterInv

\* The thread starts: the header waits to be written.
LEMMA OpenStep == ASSUME ConstantsAssumption, WriterInv, Open PROVE WriterInv'
<1>1. TypeOK'
  <2>1. pending' \in Seq(Seq(Byte))
    BY PiecesType, PiecesAreSeqs DEF Open
  <2>2. QED BY <2>1 DEF WriterInv, TypeOK, BuffersFit, Open
<1>2. /\ index = 0 /\ dumper = "none" /\ buffer[0] = <<>> /\ buffer[1] = <<>> /\ file = <<>>
      /\ aux_events = <<>> /\ rtnEvents = <<0, 0>>
  BY DEF WriterInv, Accounted, Open
<1>3. \A kinds : Recordings(kinds) = 0
  <2>1. <<>> \in Seq(Event) /\ <<"RTN_EXIT", 0>> \in Event
    BY DEF Event
  <2>2. QED BY <1>2, <2>1, OccurrencesAppend DEF Recordings
<1>4. (\A kinds : Recordings(kinds)' = Recordings(kinds)) /\ Recorded' = Recorded
  BY DEF Open, Recordings, Recorded
<1>5. Accounted'
  BY <1>2, <1>3, <1>4, PiecesType
  DEF WriterInv, Accounted, Other, Current, Open, TypeOK
<1>6. NothingLost'
  <2> DEFINE h == FlattenSeq(HeaderPieces)
  <2>1. h \in Seq(Byte)
    BY StreamTypes
  <2>2. Recorded = h
    <3>1. StreamOf(<<>>) = <<>>
      BY FlatEmpty DEF StreamOf
    <3>2. h \o <<>> = h
      BY <2>1, ConcatEmptySeq
    <3>3. QED BY <1>2, <3>1, <3>2 DEF Recorded
  <2>3. Unsaved' = <<>> /\ (buffer[Current])' = <<>> /\ file' = <<>> /\ pending' = HeaderPieces
        /\ phase' = "open"
    BY <1>2 DEF Unsaved, Current, Open
  <2> HIDE DEF h
  <2>4. <<>> \o <<>> \o <<>> \o h = h
    BY <2>1
  <2>5. QED BY <1>4, <2>2, <2>3, <2>4 DEF NothingLost, h
<1>7. QED BY <1>1, <1>5, <1>6 DEF WriterInv

\* Record leaves the pieces of the new events to be written.
LEMMA RecordStep ==
  ASSUME ConstantsAssumption, WriterInv, phase = "open", pending = <<>>,
         NEW e \in Event, Record(e),
         UNCHANGED <<callSite, timer, buffer, dumper, dumped, file, phase, index, firstTick, header>>
  PROVE  /\ pending' \in Seq(Piece) /\ aux_events' \in Seq(Event) /\ ticks' = timer
         /\ \A kinds : /\ Recordings(kinds) \in Nat
                       /\ Recordings(kinds)' = Recordings(kinds)
                            + (IF "TIMER_TICK" \in kinds THEN timer - ticks ELSE 0)
                            + (IF e[1] \in kinds THEN 1 ELSE 0)
         /\ NothingLost'
<1> DEFINE tk == [i \in 1 .. timer - ticks |-> TimerTickEvent]
           new == tk \o <<e>>
<1>1. /\ aux_events \in Seq(Event) /\ timer - ticks \in Nat
  BY DEF WriterInv, Accounted, TypeOK
<1>2. tk \in Seq(Event) /\ \A kinds : Occurrences(aux_events \o tk, kinds) =
        Occurrences(aux_events, kinds) + IF "TIMER_TICK" \in kinds THEN timer - ticks ELSE 0
  <2> DEFINE n == timer - ticks
  <2>1. n \in Nat
    BY <1>1
  <2> HIDE DEF n
  <2>2. [i \in 1 .. n |-> TimerTickEvent] \in Seq(Event)
        /\ \A kinds : Occurrences(aux_events \o [i \in 1 .. n |-> TimerTickEvent], kinds) =
             Occurrences(aux_events, kinds) + IF "TIMER_TICK" \in kinds THEN n ELSE 0
    <3> DEFINE u == [i \in 1 .. n |-> TimerTickEvent]
    <3>1. u = [i \in 1 .. n |-> TimerTickEvent]
      OBVIOUS
    <3> HIDE DEF u
    <3>2. u \in Seq(Event)
      BY <1>1, <2>1, <3>1, OccurrencesTicks
    <3>3. \A kinds : Occurrences(aux_events \o u, kinds) =
             Occurrences(aux_events, kinds) + IF "TIMER_TICK" \in kinds THEN n ELSE 0
      BY <1>1, <2>1, <3>1, OccurrencesTicks
    <3>4. QED BY <3>2, <3>3 DEF u
  <2>3. QED BY <2>2 DEF n
<1>3. /\ ticks' = timer /\ aux_events' = aux_events \o new
      /\ pending' = FlattenSeq([i \in DOMAIN new |-> Pieces(new[i])])
  BY DEF Record
<1> HIDE DEF tk
<1>4. /\ new \in Seq(Event)
      /\ aux_events \o tk \in Seq(Event)
      /\ aux_events \o new = Append(aux_events \o tk, e)
  BY <1>1, <1>2
<1> HIDE DEF new
<1>5. aux_events' \in Seq(Event)
  BY <1>3, <1>4, AppendProperties
<1>6. pending' \in Seq(Piece) /\ FlattenSeq(pending') = StreamOf(new)
  BY <1>3, <1>4, RecordedPieces
<1>7. ASSUME NEW kinds
      PROVE  /\ Recordings(kinds) \in Nat
             /\ Recordings(kinds)' = Recordings(kinds)
                  + (IF "TIMER_TICK" \in kinds THEN timer - ticks ELSE 0)
                  + (IF e[1] \in kinds THEN 1 ELSE 0)
  <2> DEFINE a == aux_events \o tk
  <2>1. a \in Seq(Event) /\ aux_events' = Append(a, e)
    BY <1>3, <1>4
  <2> HIDE DEF a
  <2>2. Occurrences(Append(a, e), kinds) = Occurrences(a, kinds) + IF e[1] \in kinds THEN 1 ELSE 0
    BY <2>1, OccurrencesAppend
  <2>3. Occurrences(aux_events, kinds) \in Nat
    BY <1>1, OccurrencesAppend
  <2>4. Occurrences(a, kinds) =
          Occurrences(aux_events, kinds) + IF "TIMER_TICK" \in kinds THEN timer - ticks ELSE 0
    BY <1>2 DEF a
  <2>5. QED BY <2>1, <2>2, <2>3, <2>4 DEF Recordings
<1>8. NothingLost'
  <2> DEFINE all == file \o Unsaved \o buffer[Current]
             h == FlattenSeq(HeaderPieces)
             s == StreamOf(aux_events)
             n == StreamOf(new)
  <2>1. all \in Seq(Byte) /\ h \in Seq(Byte) /\ s \in Seq(Byte) /\ n \in Seq(Byte)
    <3>1. all \in Seq(Byte)
      BY StreamTypes DEF WriterInv, TypeOK
    <3>2. QED BY <1>1, <1>4, <3>1, StreamConcat, StreamTypes
  <2>2. all = h \o s
    <3>1. all \o <<>> = h \o s
      BY FlatEmpty DEF WriterInv, NothingLost, Recorded
    <3>2. QED BY <2>1, <3>1, ConcatEmptySeq
  <2>3. Recorded' = h \o (s \o n)
    BY <1>1, <1>3, <1>4, StreamConcat DEF Recorded
  <2>4. all' = all /\ phase' = "open"
    BY DEF Unsaved, Current
  <2> HIDE DEF all, h, s, n
  <2>5. (h \o s) \o n = h \o (s \o n)
    BY <2>1, ConcatAssociative
  <2>6. (all \o FlattenSeq(pending))' = Recorded'
    BY <1>6, <2>2, <2>3, <2>4, <2>5 DEF n
  <2>7. QED BY <2>4, <2>6 DEF NothingLost, all
<1>9. QED BY <1>3, <1>5, <1>6, <1>7, <1>8

\* A routine is entered.
LEMMA RtnEnterStep ==
  ASSUME ConstantsAssumption, WriterInv, NEW n \in Nat, RtnEnter(n)
  PROVE  WriterInv'
<1> DEFINE e == <<IF callSite THEN "RTN_ENTER_CS" ELSE "RTN_ENTER", n>>
<1>1. /\ phase = "open" /\ pending = <<>> /\ Record(e)
      /\ rtnEvents' = [rtnEvents EXCEPT ![1] = @ + 1]
      /\ UNCHANGED <<callSite, timer, buffer, dumper, dumped, file, phase, index, firstTick, header>>
  BY DEF RtnEnter
<1>2. e \in Event /\ e[1] \in {"RTN_ENTER", "RTN_ENTER_CS"}
  BY DEF Event
<1> HIDE DEF e
<1>3. /\ pending' \in Seq(Piece) /\ aux_events' \in Seq(Event) /\ ticks' = timer
      /\ \A kinds : /\ Recordings(kinds) \in Nat
                    /\ Recordings(kinds)' = Recordings(kinds)
                         + (IF "TIMER_TICK" \in kinds THEN timer - ticks ELSE 0)
                         + (IF e[1] \in kinds THEN 1 ELSE 0)
      /\ NothingLost'
  BY <1>1, <1>2, RecordStep
<1>4. TypeOK'
  <2>1. pending' \in Seq(Seq(Byte))
    BY <1>3, PiecesAreSeqs
  <2>2. rtnEvents' \in Nat \X Nat
    BY <1>1 DEF WriterInv, TypeOK
  <2>3. QED BY <1>1, <1>3, <2>1, <2>2 DEF WriterInv, TypeOK, BuffersFit
<1>5. /\ Recordings({"RTN_ENTER", "RTN_ENTER_CS"})' = Recordings({"RTN_ENTER", "RTN_ENTER_CS"}) + 1
      /\ Recordings({"RTN_EXIT"})' = Recordings({"RTN_EXIT"})
      /\ Recordings({"TIMER_TICK"})' = Recordings({"TIMER_TICK"}) + (timer - ticks)
  <2>1. timer - ticks \in Nat
    BY DEF WriterInv, TypeOK
  <2>2. QED BY <1>2, <1>3, <2>1
<1>6. rtnEvents'[1] = rtnEvents[1] + 1 /\ rtnEvents'[2] = rtnEvents[2]
  BY <1>1 DEF WriterInv, TypeOK
<1>7. Accounted'
  BY <1>1, <1>3, <1>5, <1>6 DEF WriterInv, TypeOK, Accounted, Other, Current
<1>8. QED BY <1>3, <1>4, <1>7 DEF WriterInv

\* A routine is left.
LEMMA RtnExitStep == ASSUME ConstantsAssumption, WriterInv, RtnExit PROVE WriterInv'
<1> DEFINE e == RtnExitEvent
<1>1. /\ phase = "open" /\ pending = <<>> /\ Record(e)
      /\ rtnEvents' = [rtnEvents EXCEPT ![2] = @ + 1]
      /\ UNCHANGED <<callSite, timer, buffer, dumper, dumped, file, phase, index, firstTick, header>>
  BY DEF RtnExit
<1>2. e \in Event /\ e[1] = "RTN_EXIT"
  BY DEF Event, RtnExitEvent
<1> HIDE DEF e
<1>3. /\ pending' \in Seq(Piece) /\ aux_events' \in Seq(Event) /\ ticks' = timer
      /\ \A kinds : /\ Recordings(kinds) \in Nat
                    /\ Recordings(kinds)' = Recordings(kinds)
                         + (IF "TIMER_TICK" \in kinds THEN timer - ticks ELSE 0)
                         + (IF e[1] \in kinds THEN 1 ELSE 0)
      /\ NothingLost'
  BY <1>1, <1>2, RecordStep
<1>4. TypeOK'
  <2>1. pending' \in Seq(Seq(Byte))
    BY <1>3, PiecesAreSeqs
  <2>2. rtnEvents' \in Nat \X Nat
    <3>1. PICK x \in Nat, y \in Nat : rtnEvents = <<x, y>>
      BY DEF WriterInv, TypeOK
    <3>2. rtnEvents' = <<x, y + 1>>
      BY <1>1, <3>1
    <3>3. QED BY <3>2
  <2>3. QED BY <1>1, <1>3, <2>1, <2>2 DEF WriterInv, TypeOK, BuffersFit
<1>5. /\ Recordings({"RTN_ENTER", "RTN_ENTER_CS"})' = Recordings({"RTN_ENTER", "RTN_ENTER_CS"})
      /\ Recordings({"RTN_EXIT"})' = Recordings({"RTN_EXIT"}) + 1
      /\ Recordings({"TIMER_TICK"})' = Recordings({"TIMER_TICK"}) + (timer - ticks)
  <2>1. timer - ticks \in Nat
    BY DEF WriterInv, TypeOK
  <2>2. QED BY <1>2, <1>3, <2>1
<1>6. rtnEvents'[1] = rtnEvents[1] /\ rtnEvents'[2] = rtnEvents[2] + 1
  BY <1>1 DEF WriterInv, TypeOK
<1>7. Accounted'
  BY <1>1, <1>3, <1>5, <1>6 DEF WriterInv, TypeOK, Accounted, Other, Current
<1>8. QED BY <1>3, <1>4, <1>7 DEF WriterInv

\* A piece goes to the buffer.
LEMMA WriteStep == ASSUME ConstantsAssumption, WriterInv, Write PROVE WriterInv'
<1> DEFINE h == Head(pending)
           t == Tail(pending)
<1>1. /\ phase = "open" /\ pending # <<>> /\ Len(h) + Len(buffer[Current]) <= BufferSize
      /\ buffer' = [buffer EXCEPT ![Current] = @ \o h] /\ pending' = t
      /\ UNCHANGED <<callSite, timer, phase, index, dumper, dumped, ticks, firstTick, rtnEvents,
                     file, header, aux_events>>
  BY DEF Write, Fits
<1>2. index \in Nat /\ buffer \in [0 .. 1 -> Seq(Byte)] /\ file \in Seq(Byte) /\ pending \in Seq(Piece)
  BY DEF WriterInv, TypeOK, Accounted
<1>3. h \in Piece /\ t \in Seq(Piece) /\ FlattenSeq(pending) = h \o FlattenSeq(t)
  BY <1>1, <1>2, FirstPiece
<1>4. Current \in 0 .. 1 /\ Other \in 0 .. 1 /\ Other # Current /\ (index - 1) % 2 = Other
  BY <1>2, Parity
<1>5. Current' = Current /\ Other' = Other
  BY <1>1 DEF Current, Other
<1> HIDE DEF h, t
<1>6. h \in Seq(Byte) /\ Len(h) \in Nat
  BY <1>3 DEF Piece
<1>7. /\ buffer' \in [0 .. 1 -> Seq(Byte)]
      /\ buffer'[Current] = buffer[Current] \o h /\ buffer'[Other] = buffer[Other]
      /\ Len(buffer'[Current]) <= BufferSize
  BY <1>1, <1>2, <1>4, <1>6
<1>8. TypeOK'
  <2>1. pending' \in Seq(Seq(Byte))
    BY <1>1, <1>3, PiecesAreSeqs
  <2>2. \A i \in 0 .. 1 : Len(buffer'[i]) <= BufferSize
    BY <1>4, <1>7 DEF WriterInv, TypeOK, BuffersFit
  <2>3. BuffersFit'
    BY <1>1, <1>4, <1>7, <2>2 DEF WriterInv, TypeOK, BuffersFit
  <2>4. QED BY <1>1, <1>7, <2>1, <2>3 DEF WriterInv, TypeOK
<1>9. Accounted'
  BY <1>1, <1>3, <1>4, <1>5, <1>7 DEF WriterInv, Accounted, Recordings
<1>10. NothingLost'
  <2> DEFINE a == file \o Unsaved
             b == buffer[Current]
             f == FlattenSeq(t)
  <2>1. a \in Seq(Byte) /\ b \in Seq(Byte) /\ f \in Seq(Byte)
    BY <1>2, <1>3, StreamTypes, PiecesAreSeqs, FlattenType
  <2>2. (a \o b) \o (h \o f) = Recorded
    BY <1>1, <1>3 DEF WriterInv, NothingLost
  <2>3. a' = a /\ (buffer[Current])' = b \o h /\ Recorded' = Recorded /\ FlattenSeq(pending') = f
    BY <1>1, <1>4, <1>5, <1>7 DEF Unsaved, Recorded
  <2> HIDE DEF a, b, f
  <2>4. (a \o (b \o h)) \o f = (a \o b) \o (h \o f)
    <3>1. (a \o b) \o h = a \o (b \o h)
      BY <1>6, <2>1, ConcatAssociative
    <3> DEFINE c == a \o b
    <3>2. c \in Seq(Byte)
      BY <2>1, ConcatProperties
    <3> HIDE DEF c
    <3>3. (c \o h) \o f = c \o (h \o f)
      BY <1>6, <2>1, <3>2, ConcatAssociative
    <3>4. QED BY <3>1, <3>3 DEF c
  <2>5. QED BY <1>1, <2>2, <2>3, <2>4 DEF NothingLost, a
<1>11. QED BY <1>8, <1>9, <1>10 DEF WriterInv

\* A piece that does not fit shows that the current buffer is not empty, and the
\* other one is when the dumper is idle.
LEMMA SwapAndWriteStep ==
  ASSUME ConstantsAssumption, WriterInv, SwapAndWrite PROVE WriterInv'
<1> DEFINE h == Head(pending)
           t == Tail(pending)
<1>1. /\ phase = "open" /\ pending # <<>> /\ ~ (Len(h) + Len(buffer[Current]) <= BufferSize)
      /\ index > 0 => dumper = "ended"
      /\ index' = index + 1 /\ dumper' = "started"
      /\ buffer' = [buffer EXCEPT ![(index + 1) % 2] = @ \o h] /\ pending' = t
      /\ UNCHANGED <<callSite, timer, phase, dumped, ticks, firstTick, rtnEvents, file, header,
                     aux_events>>
  BY DEF SwapAndWrite, Fits, DumperIsIdle
<1>2. index \in Nat /\ buffer \in [0 .. 1 -> Seq(Byte)] /\ file \in Seq(Byte) /\ pending \in Seq(Piece)
  BY DEF WriterInv, TypeOK, Accounted
<1>3. h \in Piece /\ t \in Seq(Piece) /\ FlattenSeq(pending) = h \o FlattenSeq(t)
  BY <1>1, <1>2, FirstPiece
<1>4. /\ Current \in 0 .. 1 /\ Other \in 0 .. 1 /\ Other # Current
      /\ (index - 1) % 2 = Other /\ (index + 1) % 2 = Other /\ (index + 1 - 1) % 2 = Current
  BY <1>2, Parity
<1>5. Current' = Other /\ Other' = Current
  BY <1>1, <1>4 DEF Current, Other
<1> HIDE DEF h, t
<1>6. h \in Seq(Byte) /\ Len(h) \in 1 .. Word
  BY <1>3 DEF Piece
<1>7. dumper \in {"none", "ended"} /\ buffer[Other] = <<>>
  BY <1>1, <1>2 DEF WriterInv, Accounted, TypeOK
<1>8. /\ buffer' \in [0 .. 1 -> Seq(Byte)]
      /\ buffer'[Current] = buffer[Current] /\ buffer'[Other] = h
      /\ buffer[Current] # <<>>
  <2>1. Word \in {2, 4} /\ BufferSize \in Nat /\ BufferSize >= Word
    BY DEF ConstantsAssumption, WordAssumption
  <2>2. <<>> \o h = h
    BY <1>6, ConcatEmptySeq
  <2>3. buffer'[Other] = buffer[Other] \o h /\ buffer'[Current] = buffer[Current]
    BY <1>1, <1>2, <1>4
  <2>4. buffer[Current] # <<>>
    BY <1>1, <1>2, <1>4, <1>6, <2>1
  <2>5. buffer' \in [0 .. 1 -> Seq(Byte)]
    BY <1>1, <1>2, <1>4, <1>6, <1>7, <2>2
  <2>6. QED BY <1>7, <2>2, <2>3, <2>4, <2>5
<1>13. (index' - 1) % 2 = Current
  BY <1>1, <1>4
<1>9. TypeOK'
  <2>1. pending' \in Seq(Seq(Byte))
    BY <1>1, <1>3, PiecesAreSeqs
  <2>2. \A i \in 0 .. 1 : Len(buffer'[i]) <= BufferSize
    <3>1. Word \in {2, 4} /\ BufferSize \in Nat /\ BufferSize >= Word
      BY DEF ConstantsAssumption, WordAssumption
    <3>2. Len(buffer'[Current]) <= BufferSize
      BY <1>4, <1>8 DEF WriterInv, TypeOK, BuffersFit
    <3>3. Len(buffer'[Other]) <= BufferSize
      BY <1>6, <1>8, <3>1
    <3>4. \A i \in 0 .. 1 : i = Current \/ i = Other
      BY <1>4
    <3>5. QED BY <3>2, <3>3, <3>4
  <2>3. BuffersFit'
    BY <1>1, <1>8, <1>13, <2>2 DEF BuffersFit
  <2>4. QED BY <1>1, <1>2, <1>8, <2>1, <2>3 DEF WriterInv, TypeOK
<1>10. Accounted'
  BY <1>1, <1>2, <1>3, <1>5, <1>8 DEF WriterInv, Accounted, Recordings
<1>11. NothingLost'
  <2> DEFINE b == buffer[Current]
             f == FlattenSeq(t)
  <2>1. b \in Seq(Byte) /\ f \in Seq(Byte)
    BY <1>2, <1>3, <1>4, PiecesAreSeqs, FlattenType
  <2>2. Unsaved = <<>> /\ file \o <<>> = file
    BY <1>2, <1>7, ConcatEmptySeq DEF Unsaved
  <2>3. (file \o b) \o (h \o f) = Recorded
    BY <1>1, <1>3, <2>2 DEF WriterInv, NothingLost
  <2>4. /\ Unsaved' = b /\ (buffer[Current])' = h /\ file' = file
        /\ Recorded' = Recorded /\ FlattenSeq(pending') = f
    <3>1. Unsaved' = b
      BY <1>1, <1>8, <1>13 DEF Unsaved
    <3>2. (buffer[Current])' = h
      BY <1>5, <1>8
    <3>3. QED BY <1>1, <3>1, <3>2 DEF Recorded
  <2> DEFINE c == file \o b
  <2>5. c \in Seq(Byte) /\ h \in Seq(Byte) /\ f \in Seq(Byte)
    BY <1>2, <1>6, <2>1, ConcatProperties
  <2> HIDE DEF b, f, c
  <2>6. (c \o h) \o f = c \o (h \o f)
    BY <2>5, ConcatAssociative
  <2>7. QED BY <1>1, <2>3, <2>4, <2>6 DEF NothingLost, c
<1>12. QED BY <1>9, <1>10, <1>11 DEF WriterInv

\* The dumper starts.
LEMMA DumpStartStep == ASSUME ConstantsAssumption, WriterInv, DumpStart PROVE WriterInv'
<1>1. index \in Nat
  BY DEF WriterInv, TypeOK
<1>2. /\ dumper = "started" /\ phase = "open" /\ dumper' = "writing" /\ dumped' = Other
      /\ UNCHANGED <<callSite, timer, buffer, file, threadVars>>
  BY <1>1, Parity DEF DumpStart
<1>3. TypeOK'
  BY <1>1, <1>2, Parity DEF WriterInv, TypeOK, BuffersFit, threadVars
<1>4. Other' = Other
  BY <1>2 DEF Other, Current, threadVars
<1>5. Accounted'
  BY <1>2, <1>4 DEF WriterInv, Accounted, Recordings, threadVars
<1>6. NothingLost'
  BY <1>2 DEF WriterInv, NothingLost, Unsaved, Current, Recorded, threadVars
<1>7. QED BY <1>3, <1>5, <1>6 DEF WriterInv

\* The dumper writes its buffer to the end of the file.
LEMMA DumpWriteStep == ASSUME ConstantsAssumption, WriterInv, DumpWrite PROVE WriterInv'
<1>1. index \in Nat /\ buffer \in [0 .. 1 -> Seq(Byte)] /\ file \in Seq(Byte)
  BY DEF WriterInv, TypeOK
<1>2. /\ dumper = "writing" /\ phase = "open" /\ dumper' = "written" /\ dumped = Other
      /\ file' = file \o buffer[Other] /\ Other = (index - 1) % 2 /\ Other \in 0 .. 1
      /\ UNCHANGED <<callSite, timer, buffer, dumped, threadVars>>
  BY <1>1, Parity DEF DumpWrite, WriterInv, Accounted
<1>3. file' \in Seq(Byte)
  BY <1>1, <1>2, ConcatProperties
<1>4. TypeOK'
  BY <1>2, <1>3 DEF WriterInv, TypeOK, BuffersFit, threadVars
<1>5. Other' = Other
  BY <1>2 DEF Other, Current, threadVars
<1>6. Accounted'
  BY <1>2, <1>5 DEF WriterInv, Accounted, Recordings, threadVars
<1>7. NothingLost'
  <2>1. Unsaved = buffer[Other] /\ Unsaved' = <<>>
    BY <1>2 DEF Unsaved
  <2>2. file' \o <<>> = file'
    BY <1>3, ConcatEmptySeq
  <2>3. QED BY <1>2, <2>1, <2>2 DEF WriterInv, NothingLost, Current, Recorded, threadVars
<1>8. QED BY <1>4, <1>6, <1>7 DEF WriterInv

\* The dumper ends.
LEMMA DumpEndStep == ASSUME ConstantsAssumption, WriterInv, DumpEnd PROVE WriterInv'
<1>1. index \in Nat /\ buffer \in [0 .. 1 -> Seq(Byte)] /\ BufferSize \in Nat
  BY DEF WriterInv, TypeOK, ConstantsAssumption
<1>2. /\ dumper = "written" /\ phase = "open" /\ dumper' = "ended" /\ dumped = Other
      /\ buffer' = [buffer EXCEPT ![Other] = <<>>]
      /\ UNCHANGED <<callSite, timer, dumped, file, threadVars>>
  BY DEF DumpEnd, WriterInv, Accounted
<1>3. Other \in 0 .. 1 /\ Current \in 0 .. 1 /\ Other # Current
  BY <1>1, Parity
<1>4. /\ buffer' \in [0 .. 1 -> Seq(Byte)]
      /\ buffer'[Other] = <<>> /\ buffer'[Current] = buffer[Current]
  BY <1>1, <1>2, <1>3, EmptySeq
<1>5. \A i \in 0 .. 1 : Len(buffer'[i]) <= BufferSize
  BY <1>1, <1>3, <1>4 DEF WriterInv, TypeOK, BuffersFit
<1>6. TypeOK'
  BY <1>2, <1>4, <1>5 DEF WriterInv, TypeOK, BuffersFit, threadVars
<1>7. Other' = Other /\ Current' = Current
  BY <1>2 DEF Other, Current, threadVars
<1>8. Accounted'
  BY <1>2, <1>4, <1>7 DEF WriterInv, Accounted, Recordings, threadVars
<1>9. NothingLost'
  BY <1>2, <1>4, <1>7 DEF WriterInv, NothingLost, Unsaved, Recorded, threadVars
<1>10. QED BY <1>6, <1>8, <1>9 DEF WriterInv

\* Without pending pieces and with an idle dumper, the file lacks the current
\* buffer only.
LEMMA IdleFile ==
  ASSUME ConstantsAssumption, WriterInv, phase = "open", pending = <<>>, DumperIsIdle
  PROVE  file \o buffer[Current] = Recorded /\ dumper \in {"none", "ended"}
<1>1. dumper \in {"none", "ended"}
  BY DEF WriterInv, Accounted, TypeOK, DumperIsIdle
<1>2. Unsaved = <<>> /\ FlattenSeq(pending) = <<>> /\ file \o <<>> = file
  BY <1>1, FlatEmpty, ConcatEmptySeq DEF Unsaved, WriterInv, TypeOK
<1>3. (file \o buffer[Current]) \o <<>> = file \o buffer[Current]
  <2>1. file \o buffer[Current] \in Seq(Byte)
    BY StreamTypes, ConcatProperties DEF WriterInv, TypeOK
  <2>2. QED BY <2>1, ConcatEmptySeq
<1>4. QED BY <1>1, <1>2, <1>3 DEF WriterInv, NothingLost

\* The thread ends: the file gets what is left, and its header.
LEMMA CloseStep == ASSUME ConstantsAssumption, WriterInv, Close PROVE WriterInv'
<1>1. /\ phase = "open" /\ pending = <<>> /\ DumperIsIdle /\ phase' = "closed"
      /\ file' = file \o buffer[Current] /\ buffer' = [buffer EXCEPT ![Current] = <<>>]
      /\ header' = [rtnEvents |-> rtnEvents, ticks |-> ticks - firstTick]
      /\ UNCHANGED <<callSite, timer, dumper, dumped, index, ticks, firstTick, rtnEvents, pending,
                     aux_events>>
  BY DEF Close
<1>2. file' = Recorded /\ dumper \in {"none", "ended"}
  BY <1>1, IdleFile
<1>3. index \in Nat /\ buffer \in [0 .. 1 -> Seq(Byte)] /\ BufferSize \in Nat /\ Current \in 0 .. 1
  BY Parity DEF WriterInv, TypeOK, ConstantsAssumption
<1>4. buffer' \in [0 .. 1 -> Seq(Byte)] /\ \A i \in 0 .. 1 : Len(buffer'[i]) <= BufferSize
  <2>1. \A i \in 0 .. 1 : buffer'[i] = IF i = Current THEN <<>> ELSE buffer[i]
    BY <1>1, <1>3
  <2>2. QED BY <1>1, <1>3, <2>1, EmptySeq DEF WriterInv, TypeOK, BuffersFit
<1>5. TypeOK'
  <2>1. file' \in Seq(Byte)
    BY <1>2, StreamTypes
  <2>2. header' \in [rtnEvents : Nat \X Nat, ticks : Nat]
    BY <1>1 DEF WriterInv, TypeOK
  <2>3. BuffersFit'
    BY <1>1, <1>2, <1>4 DEF BuffersFit
  <2>4. QED BY <1>1, <1>2, <1>4, <2>1, <2>2, <2>3 DEF WriterInv, TypeOK
<1>6. Accounted'
  BY <1>1, <1>2 DEF WriterInv, Accounted
<1>7. NothingLost'
  BY <1>1, <1>2 DEF WriterInv, Accounted, NothingLost, Recorded, Recordings
<1>8. QED BY <1>5, <1>6, <1>7 DEF WriterInv

\* A part of what starts a sequence starts it.
LEMMA PartIsPrefix ==
  ASSUME NEW S, NEW s \in Seq(S), NEW t \in Seq(S), NEW n \in 0 .. Len(s)
  PROVE  SubSeq(s, 1, n) \in Seq(S) /\ IsPrefix(SubSeq(s, 1, n), s \o t)
<1> DEFINE p == SubSeq(s, 1, n)
           st == s \o t
<1>1. Len(s) \in Nat /\ Len(t) \in Nat /\ n \in Nat /\ n <= Len(s)
  OBVIOUS
<1>2. p \in Seq(S) /\ Len(p) = n /\ \A i \in 1 .. n : p[i] = s[i]
  BY <1>1
<1>3. st \in Seq(S) /\ Len(st) = Len(s) + Len(t) /\ \A i \in 1 .. Len(s) : st[i] = s[i]
  BY <1>1, ConcatProperties
<1> HIDE DEF p, st
<1>4. SubSeq(p, 1, n) = SubSeq(st, 1, n)
  <2> DEFINE a == SubSeq(p, 1, n)
             b == SubSeq(st, 1, n)
  <2>1. a \in Seq(S) /\ Len(a) = n /\ \A i \in 1 .. n : a[i] = p[i]
    BY <1>1, <1>2
  <2>2. b \in Seq(S) /\ Len(b) = n /\ \A i \in 1 .. n : b[i] = st[i]
    BY <1>1, <1>3
  <2>3. \A i \in 1 .. n : a[i] = b[i]
    BY <1>1, <1>2, <1>3, <2>1, <2>2
  <2> HIDE DEF a, b
  <2>4. a = b
    BY <2>1, <2>2, <2>3, SeqEqual
  <2>5. QED BY <2>4 DEF a, b
<1>5. IsPrefix(p, st)
  BY <1>1, <1>2, <1>3, <1>4 DEF IsPrefix
<1>6. QED BY <1>2, <1>5 DEF p, st

\* The process is killed: the file has the header and a first part of the rest.
LEMMA KillStep == ASSUME ConstantsAssumption, WriterInv, Kill PROVE WriterInv'
<1> DEFINE all == IF dumper = "writing" THEN file \o buffer[dumped]
                  ELSE IF pending = <<>> /\ DumperIsIdle THEN file \o buffer[Current]
                  ELSE file
<1>1. /\ phase = "open" /\ phase' = "killed" /\ \E n \in 0 .. Len(all) : file' = SubSeq(all, 1, n)
      /\ UNCHANGED <<callSite, timer, buffer, dumper, dumped, index, ticks, firstTick, rtnEvents,
                     pending, header, aux_events>>
  BY DEF Kill
<1>2. /\ file \in Seq(Byte) /\ Unsaved \in Seq(Byte) /\ buffer[Current] \in Seq(Byte)
      /\ FlattenSeq(pending) \in Seq(Byte) /\ Recorded \in Seq(Byte)
      /\ index \in Nat
  BY StreamTypes DEF WriterInv, TypeOK
<1>3. \E rest \in Seq(Byte) : all \in Seq(Byte) /\ all \o rest = Recorded
  <2> DEFINE u == Unsaved
             b == buffer[Current]
             f == FlattenSeq(pending)
  <2>1. ((file \o u) \o b) \o f = Recorded /\ u \in Seq(Byte) /\ b \in Seq(Byte) /\ f \in Seq(Byte)
    BY <1>1, <1>2 DEF WriterInv, NothingLost
  <2>2. CASE dumper = "writing"
    <3>1. all = file \o u
      BY <1>2, <2>2, Parity DEF WriterInv, Accounted, Unsaved
    <3> HIDE DEF u, b, f, all
    <3>2. (all \o b) \o f = all \o (b \o f) /\ all \in Seq(Byte) /\ b \o f \in Seq(Byte)
      <4>1. all \in Seq(Byte) /\ b \o f \in Seq(Byte)
        BY <1>2, <2>1, <3>1, ConcatProperties
      <4>2. QED BY <2>1, <4>1, ConcatAssociative
    <3>3. QED BY <2>1, <3>1, <3>2
  <2>3. CASE dumper # "writing" /\ pending = <<>> /\ DumperIsIdle
    <3>1. all = Recorded
      BY <1>1, <2>3, IdleFile
    <3>2. Recorded \o <<>> = Recorded /\ <<>> \in Seq(Byte)
      BY <1>2, ConcatEmptySeq, EmptySeq
    <3>3. QED BY <1>2, <3>1, <3>2
  <2>4. CASE dumper # "writing" /\ ~ (pending = <<>> /\ DumperIsIdle)
    <3>1. all = file
      BY <2>4
    <3> HIDE DEF u, b, f, all
    <3> DEFINE c == u \o b
    <3>2. c \in Seq(Byte) /\ file \in Seq(Byte)
      BY <1>2, <2>1, ConcatProperties
    <3>3. (file \o u) \o b = file \o c
      BY <2>1, <3>2, ConcatAssociative
    <3> HIDE DEF c
    <3>4. (file \o c) \o f = file \o (c \o f)
      <4>1. file \in Seq(Byte) /\ c \in Seq(Byte) /\ f \in Seq(Byte)
        BY <2>1, <3>2
      <4>2. QED BY <4>1, ConcatAssociative
    <3>5. c \o f \in Seq(Byte)
      BY <2>1, <3>2, ConcatProperties
    <3>6. QED BY <2>1, <3>1, <3>2, <3>3, <3>4, <3>5
  <2>5. QED BY <2>2, <2>3, <2>4
<1>4. file' \in Seq(Byte) /\ IsPrefix(file', Recorded)
  <2>1. PICK n \in 0 .. Len(all) : file' = SubSeq(all, 1, n)
    BY <1>1
  <2>2. PICK rest \in Seq(Byte) : all \in Seq(Byte) /\ all \o rest = Recorded
    BY <1>3
  <2> HIDE DEF all
  <2>3. SubSeq(all, 1, n) \in Seq(Byte) /\ IsPrefix(SubSeq(all, 1, n), all \o rest)
    BY <2>2, PartIsPrefix
  <2>4. QED BY <2>1, <2>2, <2>3
<1> HIDE DEF all
<1>5. TypeOK'
  BY <1>1, <1>4 DEF WriterInv, TypeOK, BuffersFit
<1>6. Accounted'
  BY <1>1 DEF WriterInv, Accounted, Other, Current
<1>7. NothingLost'
  BY <1>1, <1>4 DEF NothingLost, Recorded
<1>8. QED BY <1>5, <1>6, <1>7 DEF WriterInv

-----------------------------------------------------------------------------
\* The invariant of a writer, for a step.
LEMMA WriterKeeps ==
  ASSUME ConstantsAssumption, WriterInv, Next
  PROVE  WriterInv'
<1>1. CASE RtnEnter(rtnEvents[1] + 1)
  <2>1. rtnEvents[1] + 1 \in Nat
    BY DEF WriterInv, TypeOK
  <2>2. QED BY <1>1, <2>1, RtnEnterStep
<1>2. QED
  BY <1>1, TimerTickStep, OpenStep, RtnExitStep, WriteStep, SwapAndWriteStep, DumpStartStep,
     DumpWriteStep, DumpEndStep, CloseStep, KillStep DEF Next

\* Every step keeps the invariant of the writer.
THEOREM WriterInvariance == Spec => []WriterInv
<1>1. Init => WriterInv
  BY InitWriter, ConstantsAssumption
<1>2. WriterInv /\ [Next]_vars => WriterInv'
  BY ConstantsAssumption, WriterKeeps, StutterStep
<1>3. QED
  BY <1>1, <1>2, PTL DEF Spec

\* Every variable of a writer has its type, and neither buffer ever overflows.
THEOREM WriterTypeCorrectness == Spec => []TypeOK
<1>1. WriterInv => TypeOK
  BY DEF WriterInv
<1>2. QED
  BY <1>1, WriterInvariance, PTL

\* TraceWriter.cpp: whatever the order in which the thread, the dumper and the timer
\* run, and wherever the process is killed, no byte of the trace is lost, written
\* twice or misplaced, and the header of a closed trace counts its events.
THEOREM RecordedEventsAreKept == Spec => []NothingLost
<1>1. WriterInv => NothingLost
  BY DEF WriterInv
<1>2. QED
  BY <1>1, WriterInvariance, PTL

-----------------------------------------------------------------------------
(* The shadow stack: its order.                                            *)

\* Later activations have lower stack pointers.
Decreasing(act) == \A i \in DOMAIN act, j \in DOMAIN act :
                     i < j => act[j].currentSP < act[i].currentSP

\* The activations of a stack.
SetOf(act) == {act[i] : i \in DOMAIN act}

\* The stack pointers of activations are numbers.
LEMMA Pointers ==
  ASSUME NEW act \in Seq(Activation), NEW i \in 1 .. Len(act)
  PROVE  act[i] \in Activation /\ act[i].currentSP \in Nat /\ act[i].currentSP <= StackBase
<1>1. act[i] \in Activation
  BY ElementOfSeq
<1>2. act[i].currentSP \in 0 .. StackBase /\ StackBase \in Nat
  BY <1>1, StackAssumption DEF Activation
<1>3. QED BY <1>1, <1>2

\* On a stack that decreases, AdjustStack keeps what lies above the stack pointer.
LEMMA AdjustIsPrefix ==
  ASSUME NEW act \in Seq(Activation), Decreasing(act), NEW sp \in Nat
  PROVE  \E n \in 0 .. Len(act) :
           /\ AdjustStack(act, sp) = SubSeq(act, 1, n)
           /\ \A i \in 1 .. n : sp < act[i].currentSP
           /\ \A i \in n + 1 .. Len(act) : act[i].currentSP <= sp
<1> DEFINE Cut == {n \in 0 .. Len(act) : \A i \in n + 1 .. Len(act) : Outlived(act[i], sp)}
           kept(n) == /\ \A i \in n + 1 .. Len(act) : Outlived(act[i], sp)
                      /\ n > 0 => ~Outlived(act[n], sp)
           top == CHOOSE n \in 0 .. Len(act) : kept(n)
<1>1. Len(act) \in Nat
  OBVIOUS
<1>2. \E n \in 0 .. Len(act) : kept(n)
  <2>1. Cut \in SUBSET Nat /\ Len(act) \in Cut
    BY <1>1
  <2>2. PICK n \in Cut : \A j \in Cut : n <= j
    BY <2>1, NatHasLeast
  <2>3. n > 0 => ~Outlived(act[n], sp)
    <3>1. SUFFICES ASSUME n > 0, Outlived(act[n], sp) PROVE FALSE
      OBVIOUS
    <3>2. n - 1 \in Cut
      <4>1. \A i \in (n - 1) + 1 .. Len(act) : i = n \/ i \in n + 1 .. Len(act)
        BY <1>1, <2>1
      <4>2. QED BY <1>1, <2>1, <3>1, <4>1
    <3>3. n \in Nat /\ n <= n - 1
      BY <2>1, <2>2, <3>2
    <3>4. QED BY <3>3
  <2>4. QED BY <2>2, <2>3
<1>3. top \in 0 .. Len(act) /\ kept(top)
  BY <1>2
<1>4. AdjustStack(act, sp) = SubSeq(act, 1, top)
  BY DEF AdjustStack
<1> HIDE DEF top
<1>5. \A i \in top + 1 .. Len(act) : act[i].currentSP <= sp
  BY <1>1, <1>3 DEF Outlived, Activation
<1>6. \A i \in 1 .. top : sp < act[i].currentSP
  <2>1. TAKE i \in 1 .. top
  <2>2. top \in 1 .. Len(act) /\ i \in 1 .. Len(act) /\ act[top] \in Activation /\ act[i] \in Activation
    BY <1>1, <1>3
  <2>3. sp < act[top].currentSP
    BY <1>3, <2>2, StackAssumption DEF Outlived, Activation
  <2>4. act[top].currentSP <= act[i].currentSP
    BY <2>2, StackAssumption DEF Decreasing, Activation
  <2>5. QED BY <2>2, <2>3, <2>4, StackAssumption DEF Activation
<1>7. QED BY <1>3, <1>4, <1>5, <1>6

\* The same in terms of sets.
LEMMA AdjustKeeps ==
  ASSUME NEW act \in Seq(Activation), Decreasing(act), NEW sp \in Nat,
         NEW kept, kept = AdjustStack(act, sp)
  PROVE  /\ kept \in Seq(Activation) /\ Len(kept) <= Len(act) /\ Decreasing(kept)
         /\ SetOf(kept) = {r \in SetOf(act) : sp < r.currentSP}
         /\ kept = act <=> \A r \in SetOf(act) : sp < r.currentSP
<1>1. PICK n \in 0 .. Len(act) :
        /\ kept = SubSeq(act, 1, n)
        /\ \A i \in 1 .. n : sp < act[i].currentSP
        /\ \A i \in n + 1 .. Len(act) : act[i].currentSP <= sp
  BY AdjustIsPrefix
<1>2. Len(act) \in Nat /\ n \in Nat /\ n <= Len(act)
  BY <1>1
<1>3. kept \in Seq(Activation) /\ Len(kept) = n /\ DOMAIN kept = 1 .. n
      /\ \A i \in 1 .. n : kept[i] = act[i]
  BY <1>1, <1>2
<1>4. Decreasing(kept)
  BY <1>2, <1>3 DEF Decreasing
<1>5. SetOf(kept) = {r \in SetOf(act) : sp < r.currentSP}
  <2>1. ASSUME NEW r \in SetOf(kept) PROVE r \in SetOf(act) /\ sp < r.currentSP
    BY <1>1, <1>2, <1>3 DEF SetOf
  <2>2. ASSUME NEW r \in SetOf(act), sp < r.currentSP PROVE r \in SetOf(kept)
    <3>1. PICK i \in 1 .. Len(act) : r = act[i]
      BY DEF SetOf
    <3>2. i \in 1 .. n
      <4>1. act[i].currentSP \in Nat
        BY Pointers
      <4>2. i \notin n + 1 .. Len(act)
        BY <1>1, <2>2, <3>1, <4>1
      <4>3. QED BY <1>2, <4>2
    <3>3. QED BY <1>3, <3>1, <3>2 DEF SetOf
  <2>3. QED BY <2>1, <2>2
<1>6. kept = act <=> \A r \in SetOf(act) : sp < r.currentSP
  <2>1. ASSUME kept = act PROVE \A r \in SetOf(act) : sp < r.currentSP
    BY <1>5, <2>1
  <2>2. ASSUME \A r \in SetOf(act) : sp < r.currentSP PROVE kept = act
    <3>1. n = Len(act)
      <4>1. SUFFICES ASSUME n # Len(act) PROVE FALSE
        OBVIOUS
      <4>2. Len(act) \in n + 1 .. Len(act) /\ Len(act) \in 1 .. Len(act)
        BY <1>2, <4>1
      <4>3. act[Len(act)].currentSP <= sp /\ act[Len(act)] \in SetOf(act)
        BY <1>1, <4>2 DEF SetOf
      <4>4. act[Len(act)].currentSP \in Nat
        BY <4>2, Pointers
      <4>5. QED BY <2>2, <4>3, <4>4
    <3>2. QED BY <1>1, <3>1
  <2>3. QED BY <2>1, <2>2
<1>7. QED BY <1>2, <1>3, <1>4, <1>5, <1>6

\* Pushing below all others.
LEMMA PushedBelow ==
  ASSUME NEW act \in Seq(Activation), Decreasing(act), NEW sp \in 0 .. StackBase,
         NEW target \in Routines \cup {Stub},
         \A r \in SetOf(act) : sp < r.currentSP
  PROVE  /\ Pushed(act, target, sp) \in Seq(Activation)
         /\ Len(Pushed(act, target, sp)) = Len(act) + 1
         /\ Decreasing(Pushed(act, target, sp))
         /\ SetOf(Pushed(act, target, sp)) =
              SetOf(act) \cup {[currentSP |-> sp, target |-> target]}
<1> DEFINE r == [currentSP |-> sp, target |-> target]
           p == Append(act, r)
<1>1. r \in Activation /\ r.currentSP = sp
  BY DEF Activation
<1> HIDE DEF r
<1>2. /\ p \in Seq(Activation) /\ Len(act) \in Nat /\ Len(p) = Len(act) + 1
      /\ DOMAIN p = 1 .. Len(act) + 1
      /\ \A i \in 1 .. Len(act) : p[i] = act[i]
      /\ p[Len(act) + 1] = r
  BY <1>1
<1> HIDE DEF p
<1>3. Decreasing(p)
  <2> SUFFICES ASSUME NEW i \in DOMAIN p, NEW j \in DOMAIN p, i < j
               PROVE  p[j].currentSP < p[i].currentSP
    BY DEF Decreasing
  <2>1. i \in 1 .. Len(act) /\ p[i] = act[i] /\ act[i] \in SetOf(act)
    BY <1>2 DEF SetOf
  <2>2. CASE j = Len(act) + 1
    BY <1>1, <1>2, <2>1, <2>2
  <2>3. CASE j \in 1 .. Len(act)
    BY <1>2, <2>1, <2>3 DEF Decreasing
  <2>4. QED BY <1>2, <2>2, <2>3
<1>4. SetOf(p) = SetOf(act) \cup {r}
  <2>1. \A i \in 1 .. Len(act) + 1 : i \in 1 .. Len(act) \/ i = Len(act) + 1
    BY <1>2
  <2>2. QED BY <1>2, <2>1 DEF SetOf
<1>5. QED BY <1>2, <1>3, <1>4 DEF Pushed, p, r

\* Popping takes away the least.
LEMMA PoppedLeast ==
  ASSUME NEW act \in Seq(Activation), Decreasing(act), act # <<>>
  PROVE  /\ act[Len(act)] \in SetOf(act)
         /\ \A r \in SetOf(act) : r = act[Len(act)] \/ act[Len(act)].currentSP < r.currentSP
         /\ Popped(act) \in Seq(Activation)
         /\ Len(Popped(act)) < Len(act)
         /\ Decreasing(Popped(act))
         /\ SetOf(Popped(act)) = SetOf(act) \ {act[Len(act)]}
<1> DEFINE n == Len(act)
           p == Popped(act)
<1>1. n \in Nat /\ n >= 1 /\ n \in 1 .. n /\ DOMAIN act = 1 .. n
  OBVIOUS
<1>2. p \in Seq(Activation) /\ Len(p) = n - 1 /\ DOMAIN p = 1 .. n - 1
      /\ \A i \in 1 .. n - 1 : p[i] = act[i]
  BY <1>1 DEF Popped
<1>3. \A i \in 1 .. n - 1 : act[n].currentSP < act[i].currentSP
  BY <1>1 DEF Decreasing
<1>5. \A i \in 1 .. n : act[i].currentSP \in Nat
  BY Pointers
<1> HIDE DEF n, p
<1>4. \A i \in 1 .. n : i = n \/ i \in 1 .. n - 1
  BY <1>1
<1>6. Decreasing(p)
  BY <1>1, <1>2 DEF Decreasing
<1>7. \A r \in SetOf(act) : r = act[n] \/ act[n].currentSP < r.currentSP
  BY <1>1, <1>3, <1>4 DEF SetOf
<1>8. SetOf(p) = SetOf(act) \ {act[n]}
  <2>1. \A i \in 1 .. n - 1 : i \in 1 .. n /\ act[i] # act[n]
    BY <1>1, <1>3, <1>5
  <2>2. QED BY <1>1, <1>2, <1>4, <2>1 DEF SetOf
<1>9. act[n] \in SetOf(act) /\ Len(p) < n
  BY <1>1, <1>2 DEF SetOf
<1>10. QED BY <1>2, <1>6, <1>7, <1>8, <1>9 DEF n, p

-----------------------------------------------------------------------------
(* The inductive invariant.                                                *)

\* The lowest stack pointer that is recorded for frame f.
LeastSP(f) == IF f.plt THEN f.sp - 1 ELSE f.sp

\* The stack pointer at calls of the n-th frame, if fixed.
Out(n) == IF n = 0 THEN StackBase ELSE frames[n].out

\* Each frame lies below those of its callers.
FramesNested ==
  /\ \A i \in DOMAIN frames : frames[i].routine = Stub => frames[i].plt
  /\ \A i \in DOMAIN frames, j \in DOMAIN frames : i < j => frames[j].sp < LeastSP(frames[i])
  /\ fixed => \A i \in DOMAIN frames :
                /\ frames[i].sp = Out(i - 1)
                /\ frames[i].out >= 1 /\ frames[i].out < LeastSP(frames[i])

\* What longjmp leaves on the shadow stack lies where it will be rolled back, and so
\* do the activations whose accesses still wait.
LeftBehind ==
  fixed => /\ \A r \in OnStack : r \in Active \/ r.currentSP <= Out(Len(frames))
           /\ (\E i \in DOMAIN Waiting : Waiting[i] > Len(frames)) =>
                \E r \in OnStack : r.currentSP <= Out(Len(frames))

\* The inductive invariant of a thread.
StackInv ==
  /\ StackTypeOK
  /\ stackMaxSize >= 1
  /\ Decreasing(activationStack)
  /\ FramesNested
  /\ LeftBehind
  /\ ActiveCallsAreReported
  /\ LongjmpIsRolledBack
  /\ aux_handed \o Waiting = aux_accesses

-----------------------------------------------------------------------------
(* Frames and their activations.                                           *)

\* What a frame is recorded as.
LEMMA RecordsOfFrame ==
  ASSUME NEW f \in Frame, f.routine = Stub => f.plt
  PROVE  /\ f.sp \in 1 .. StackBase /\ StackBase \in Nat /\ LeastSP(f) \in Nat /\ LeastSP(f) <= f.sp
         /\ f.out \in 0 .. StackBase /\ f.routine \in Routines \cup {Stub}
         /\ \A r \in RecordsOf(f) : /\ LeastSP(f) <= r.currentSP /\ r.currentSP <= f.sp
                                    /\ r.currentSP \in Nat
         /\ [currentSP |-> f.sp, target |-> IF f.plt THEN Stub ELSE f.routine] \in RecordsOf(f)
<1>1. f.sp \in 1 .. StackBase /\ f.plt \in BOOLEAN /\ StackBase \in Nat
      /\ f.out \in 0 .. StackBase /\ f.routine \in Routines \cup {Stub}
  BY StackAssumption DEF Frame
<1>2. LeastSP(f) \in Nat /\ LeastSP(f) <= f.sp
  BY <1>1 DEF LeastSP
<1>3. CASE f.plt
  BY <1>1, <1>2, <1>3 DEF RecordsOf, LeastSP
<1>4. CASE ~f.plt
  BY <1>1, <1>2, <1>4 DEF RecordsOf, LeastSP
<1>5. QED BY <1>1, <1>2, <1>3, <1>4

\* The frames, one below the other.
LEMMA FrameFacts ==
  ASSUME StackInv
  PROVE  /\ Len(frames) \in Nat /\ DOMAIN frames = 1 .. Len(frames)
         /\ \A i \in 1 .. Len(frames) :
              /\ frames[i] \in Frame
              /\ frames[i].routine = Stub => frames[i].plt
              /\ frames[i].sp \in 1 .. StackBase
              /\ LeastSP(frames[i]) \in Nat /\ LeastSP(frames[i]) <= frames[i].sp
              /\ LeastSP(frames[Len(frames)]) <= LeastSP(frames[i])
              /\ i # Len(frames) => frames[Len(frames)].sp < LeastSP(frames[i])
         /\ \A r \in Active : \E i \in 1 .. Len(frames) : r \in RecordsOf(frames[i])
         /\ \A i \in 1 .. Len(frames) : RecordsOf(frames[i]) \subseteq Active
<1>1. frames \in Seq(Frame)
  BY DEF StackInv, StackTypeOK
<1>2. Len(frames) \in Nat /\ DOMAIN frames = 1 .. Len(frames)
  BY <1>1
<1>3. ASSUME NEW i \in 1 .. Len(frames)
      PROVE  /\ frames[i] \in Frame
             /\ frames[i].routine = Stub => frames[i].plt
             /\ frames[i].sp \in 1 .. StackBase
             /\ LeastSP(frames[i]) \in Nat /\ LeastSP(frames[i]) <= frames[i].sp
             /\ LeastSP(frames[Len(frames)]) <= LeastSP(frames[i])
             /\ i # Len(frames) => frames[Len(frames)].sp < LeastSP(frames[i])
  <2> DEFINE n == Len(frames)
  <2>0. DOMAIN frames = 1 .. n /\ n \in Nat
    BY <1>2
  <2> HIDE DEF n
  <2>1. \A j \in 1 .. n : frames[j] \in Frame /\ (frames[j].routine = Stub => frames[j].plt)
    <3>1. \A j \in 1 .. n : frames[j] \in Frame
      BY <1>1 DEF n
    <3>2. QED BY <2>0, <3>1 DEF StackInv, FramesNested
  <2>2. \A j \in 1 .. n : /\ frames[j].sp \in 1 .. StackBase
                          /\ LeastSP(frames[j]) \in Nat /\ LeastSP(frames[j]) <= frames[j].sp
    BY <2>1, RecordsOfFrame
  <2>3. n \in 1 .. n /\ i \in 1 .. n
    BY <2>0 DEF n
  <2>4. i # n => frames[n].sp < LeastSP(frames[i])
    <3>1. i # n => i < n
      BY <2>0, <2>3
    <3>2. QED BY <2>0, <2>3, <3>1 DEF StackInv, FramesNested
  <2>5. LeastSP(frames[n]) <= LeastSP(frames[i])
    BY <2>2, <2>3, <2>4, StackAssumption
  <2>6. QED BY <2>1, <2>2, <2>3, <2>4, <2>5 DEF n
<1>4. QED BY <1>2, <1>3 DEF Active

\* Below its lowest frame no active call has an activation.
LEMMA ActiveAbove ==
  ASSUME StackInv, NEW sp \in Nat,
         frames # <<>> => sp < LeastSP(frames[Len(frames)])
  PROVE  \A r \in Active : sp < r.currentSP /\ r.currentSP \in Nat
<1> SUFFICES ASSUME NEW r \in Active PROVE sp < r.currentSP /\ r.currentSP \in Nat
  OBVIOUS
<1>1. PICK i \in 1 .. Len(frames) : r \in RecordsOf(frames[i])
  BY FrameFacts
<1>2. frames[i] \in Frame /\ (frames[i].routine = Stub => frames[i].plt)
      /\ LeastSP(frames[Len(frames)]) <= LeastSP(frames[i])
      /\ LeastSP(frames[i]) \in Nat
  BY FrameFacts
<1>3. LeastSP(frames[i]) <= r.currentSP /\ r.currentSP \in Nat
  BY <1>1, <1>2, RecordsOfFrame
<1>4. frames # <<>> /\ Len(frames) \in 1 .. Len(frames)
  <2>1. Len(frames) \in Nat
    BY FrameFacts
  <2>2. QED BY <1>1, <2>1
<1>5. LeastSP(frames[Len(frames)]) \in Nat
  BY <1>4, FrameFacts
<1>6. QED BY <1>2, <1>3, <1>4, <1>5

\* Where the calls of the top frame are made.
LEMMA CallFacts ==
  ASSUME LibrariesPush, StackInv, ~InStub, NEW sp \in CallPointers
  PROVE  /\ sp \in 1 .. StackBase
         /\ frames # <<>> => sp < LeastSP(frames[Len(frames)])
         /\ fixed => sp = Out(Len(frames))
<1>1. CASE frames = <<>>
  BY <1>1, StackAssumption DEF CallPointers, Out
<1>2. CASE frames # <<>>
  <2>0. frames \in Seq(Frame)
    BY DEF StackInv, StackTypeOK
  <2>1. Len(frames) \in 1 .. Len(frames) /\ Len(frames) # 0 /\ frames[Len(frames)] \in Frame
    BY <1>2, <2>0
  <2>2. Top.sp \in 1 .. StackBase /\ Top.plt \in BOOLEAN /\ Top.out \in 0 .. StackBase
        /\ Top = frames[Len(frames)] /\ StackBase \in Nat
    BY <2>1, StackAssumption DEF Top, Frame
  <2>3. CASE fixed
    <3>1. sp = Top.out
      BY <1>2, <2>3 DEF CallPointers
    <3>2. Top.out >= 1 /\ Top.out < LeastSP(Top)
      BY <2>1, <2>2, <2>3, FrameFacts DEF StackInv, FramesNested
    <3>3. QED BY <2>1, <2>2, <3>1, <3>2 DEF Out
  <2>4. CASE ~fixed
    <3>1. sp \in Below(Top.sp, Top.plt)
      BY <1>2, <2>4 DEF CallPointers
    <3>2. QED BY <2>2, <2>4, <3>1 DEF Below, LeastSP
  <2>5. QED BY <2>3, <2>4
<1>3. QED BY <1>1, <1>2

-----------------------------------------------------------------------------
(* Memory accesses.                                                        *)

\* What is known of the accesses.
AccessesOK ==
  /\ memBuffer \in Seq(Nat) /\ Len(memBuffer) <= BufElements
  /\ buf_addr \in 0 .. Len(memBuffer)
  /\ aux_accesses \in Seq(Nat) /\ aux_handed \in Seq(Nat)
  /\ aux_handed \o Waiting = aux_accesses

\* The accesses that wait are a sequence.
LEMMA WaitingIsSeq ==
  ASSUME AccessesOK
  PROVE  Waiting \in Seq(Nat)
<1>1. memBuffer \in Seq(Nat) /\ Len(memBuffer) \in Nat /\ buf_addr \in 0 .. Len(memBuffer)
  BY DEF AccessesOK
<1>2. QED BY <1>1 DEF Waiting

\* What is handed over is no longer waiting.
LEMMA HandOverStep ==
  ASSUME AccessesOK, HandOver
  PROVE  AccessesOK' /\ Waiting' = <<>>
<1>1. /\ memBuffer \in Seq(Nat) /\ Len(memBuffer) \in Nat /\ buf_addr \in 0 .. Len(memBuffer)
      /\ aux_handed \in Seq(Nat)
  BY DEF AccessesOK
<1>2. Waiting \in Seq(Nat)
  BY <1>1 DEF Waiting
<1>3. /\ aux_handed' = aux_handed \o Waiting /\ buf_addr' = Len(memBuffer)
      /\ memBuffer' = memBuffer /\ aux_accesses' = aux_accesses
  BY DEF HandOver
<1>4. Waiting' = <<>>
  BY <1>1, <1>3 DEF Waiting
<1>5. aux_handed' \in Seq(Nat) /\ aux_handed' \o <<>> = aux_handed'
  BY <1>1, <1>2, <1>3
<1>6. QED BY <1>1, <1>3, <1>4, <1>5 DEF AccessesOK

\* The rest of a sequence that has grown.
LEMMA RestOfAppend ==
  ASSUME NEW b \in Seq(Nat), NEW a \in 0 .. Len(b), NEW d \in Nat
  PROVE  SubSeq(Append(b, d), a + 1, Len(b) + 1) = Append(SubSeq(b, a + 1, Len(b)), d)
<1> DEFINE n == Len(b)
           ad == Append(b, d)
           s == SubSeq(b, a + 1, n)
           V == SubSeq(ad, a + 1, n + 1)
           W == Append(s, d)
<1>1. n \in Nat /\ a \in 0 .. n
  OBVIOUS
<1>2. /\ ad \in Seq(Nat) /\ Len(ad) = n + 1 /\ ad[n + 1] = d
      /\ \A i \in 1 .. n : ad[i] = b[i]
  OBVIOUS
<1>3. s \in Seq(Nat) /\ Len(s) = n - a /\ \A i \in 1 .. n - a : s[i] = b[a + i]
  OBVIOUS
<1> HIDE DEF n, ad, s
<1>4. W \in Seq(Nat) /\ Len(W) = n - a + 1 /\ W[n - a + 1] = d /\ \A i \in 1 .. n - a : W[i] = s[i]
  <2> DEFINE m == n - a
  <2>1. m \in Nat /\ Len(s) = m
    BY <1>1, <1>3
  <2> HIDE DEF m
  <2>2. W \in Seq(Nat) /\ Len(W) = m + 1 /\ W[m + 1] = d /\ \A i \in 1 .. m : W[i] = s[i]
    BY <1>3, <2>1, AppendProperties
  <2>3. QED BY <2>2 DEF m
<1>5. V \in Seq(Nat) /\ Len(V) = n - a + 1 /\ \A i \in 1 .. n - a + 1 : V[i] = ad[a + i]
  <2>1. \A i \in a + 1 .. n + 1 : ad[i] \in Nat
    BY <1>1, <1>2
  <2>2. a + 1 \in Int /\ n + 1 \in Int /\ a + 1 <= n + 1 /\ (n + 1) - (a + 1) + 1 = n - a + 1
    BY <1>1
  <2>3. /\ V \in Seq(Nat) /\ Len(V) = (n + 1) - (a + 1) + 1
        /\ \A i \in 1 .. (n + 1) - (a + 1) + 1 : V[i] = ad[(a + 1) + i - 1]
    BY <2>1, <2>2, SubSeqProperties
  <2>4. \A i \in 1 .. n - a + 1 : (a + 1) + i - 1 = a + i
    BY <1>1
  <2>5. QED BY <2>2, <2>3, <2>4
<1> HIDE DEF V, W
<1>6. \A i \in 1 .. n - a + 1 : V[i] = W[i]
  <2>1. TAKE i \in 1 .. n - a + 1
  <2>2. CASE i = n - a + 1
    <3>1. a + i = n + 1
      BY <1>1, <2>2
    <3>2. QED BY <1>2, <1>4, <1>5, <2>2, <3>1
  <2>3. CASE i # n - a + 1
    <3>1. i \in 1 .. n - a /\ a + i \in 1 .. n
      BY <1>1, <2>3
    <3>2. V[i] = b[a + i] /\ W[i] = b[a + i]
      BY <1>2, <1>3, <1>4, <1>5, <3>1
    <3>3. QED BY <3>2
  <2>4. QED BY <2>2, <2>3
<1>7. V = W
  BY <1>4, <1>5, <1>6, SeqEqual
<1>8. QED BY <1>7 DEF V, W, ad, s, n

\* Numbers are concatenated in any order.
LEMMA ConcatNumbers ==
  ASSUME NEW s \in Seq(Nat), NEW w \in Seq(Nat), NEW e \in Seq(Nat)
  PROVE  (s \o w) \o e = s \o (w \o e)
BY ConcatAssociative

\* Appending to what was added.
LEMMA AppendToConcat ==
  ASSUME NEW s \in Seq(Nat), NEW w \in Seq(Nat), NEW d \in Nat
  PROVE  /\ s \o Append(w, d) = Append(s \o w, d)
         /\ (s \o w) \o <<d>> = Append(s \o w, d)
         /\ s \o w \in Seq(Nat)
<1> DEFINE e == <<d>>
           sw == s \o w
<1>1. e \in Seq(Nat) /\ s \in Seq(Nat) /\ w \in Seq(Nat)
  OBVIOUS
<1>2. sw \in Seq(Nat)
  BY ConcatProperties
<1>3. Append(w, d) = w \o e
  BY AppendIsConcat
<1>4. Append(sw, d) = sw \o e
  BY <1>2, AppendIsConcat
<1> HIDE DEF e, sw
<1>5. (s \o w) \o e = s \o (w \o e)
  BY <1>1, ConcatNumbers
<1>6. QED BY <1>2, <1>3, <1>4, <1>5 DEF e, sw

\* Waiting after one more access.
LEMMA AccessStep ==
  ASSUME AccessesOK, Access, NEW d \in Nat, d = Len(frames)
  PROVE  AccessesOK' /\ (Waiting' = Append(Waiting, d) \/ Waiting' = <<d>>)
<1> DEFINE n == Len(memBuffer)
<1>1. /\ memBuffer \in Seq(Nat) /\ n \in Nat /\ n <= BufElements /\ BufElements \in Nat \ {0}
      /\ buf_addr \in 0 .. n /\ aux_handed \in Seq(Nat) /\ aux_accesses \in Seq(Nat)
      /\ aux_handed \o Waiting = aux_accesses
  BY StackAssumption DEF AccessesOK
<1>2. Waiting \in Seq(Nat) /\ Waiting = SubSeq(memBuffer, buf_addr + 1, n)
  BY WaitingIsSeq DEF Waiting
<1>3. aux_accesses' = Append(aux_accesses, d) /\ aux_accesses' \in Seq(Nat)
  BY <1>1 DEF Access
<1> DEFINE w == Waiting
<1>4. w \in Seq(Nat) /\ aux_handed \in Seq(Nat) /\ aux_handed \o w = aux_accesses
  BY <1>1, <1>2
<1> HIDE DEF w
<1>5. aux_accesses' = aux_handed \o Append(w, d)
  <2>1. aux_handed \o Append(w, d) = Append(aux_handed \o w, d)
    BY <1>4, AppendToConcat
  <2>2. QED BY <1>3, <1>4, <2>1
<1>6. CASE n < BufElements
  <2>1. memBuffer' = Append(memBuffer, d) /\ buf_addr' = buf_addr /\ aux_handed' = aux_handed
    BY <1>6 DEF Access
  <2>2. memBuffer' \in Seq(Nat) /\ Len(memBuffer') = n + 1
    BY <1>1, <2>1
  <2>3. Waiting' = SubSeq(memBuffer', buf_addr' + 1, n + 1)
    BY <2>2 DEF Waiting
  <2>4. Waiting' = Append(w, d)
    BY <1>1, <1>2, <2>1, <2>3, RestOfAppend DEF w
  <2>5. AccessesOK'
    BY <1>1, <1>3, <1>5, <1>6, <2>1, <2>2, <2>4 DEF AccessesOK
  <2>6. QED BY <2>4, <2>5 DEF w
<1>7. CASE ~ (n < BufElements)
  <2>1. memBuffer' = <<d>> /\ buf_addr' = 0 /\ aux_handed' = aux_handed \o w
    BY <1>7 DEF Access, BufferOverflow, w
  <2>2. Waiting' = <<d>>
    <3>1. Waiting' = SubSeq(<<d>>, 1, 1)
      BY <2>1 DEF Waiting
    <3>2. SubSeq(<<d>>, 1, 1) = <<d>>
      <4> DEFINE e == <<d>>
      <4>1. e \in Seq(Nat) /\ Len(e) = 1
        OBVIOUS
      <4> HIDE DEF e
      <4>2. SubSeq(e, 1, Len(e)) = e
        BY <4>1, SubSeqFull
      <4>3. QED BY <4>1, <4>2 DEF e
    <3>3. QED BY <3>1, <3>2
  <2>3. aux_handed' \in Seq(Nat) /\ aux_handed' \o <<d>> = Append(aux_handed \o w, d)
    <3>1. aux_handed \o w \in Seq(Nat) /\ (aux_handed \o w) \o <<d>> = Append(aux_handed \o w, d)
      BY <1>4, AppendToConcat
    <3>2. QED BY <2>1, <3>1
  <2>4. memBuffer' \in Seq(Nat) /\ Len(memBuffer') = 1
    BY <2>1
  <2>5. AccessesOK'
    BY <1>1, <1>3, <1>4, <2>1, <2>2, <2>3, <2>4 DEF AccessesOK
  <2>6. QED BY <2>2, <2>5
<1>8. QED BY <1>6, <1>7

-----------------------------------------------------------------------------
(* What a call reports.                                                    *)

\* A call at stack pointer sp, below all active calls and not above those of the top
\* frame, where it adds one activation to the active ones.
LEMMA ReportedCall ==
  ASSUME StackInv, NEW sp \in 0 .. StackBase, NEW target \in Routines \cup {Stub},
         NEW new, new = [currentSP |-> sp, target |-> target],
         \A r \in Active : sp < r.currentSP,
         fixed => Out(Len(frames)) <= sp,
         ProcessCall(target, sp),
         Active' = Active \cup {new}, fixed' = fixed,
         Len(frames') \in Nat, Len(frames') >= Len(frames)
  PROVE  /\ activationStack' \in Seq(Activation)
         /\ stackMaxSize' \in Nat /\ stackMaxSize' >= 1
         /\ Len(activationStack') <= stackMaxSize'
         /\ Decreasing(activationStack')
         /\ AccessesOK'
         /\ LeftBehind' /\ ActiveCallsAreReported'
         /\ fixed => OnStack' = Active'
<1> DEFINE act == activationStack
           kept == AdjustStack(act, sp)
           on == OnStack
           n == Len(frames)
<1>1. /\ act \in Seq(Activation) /\ Decreasing(act) /\ sp \in Nat /\ StackBase \in Nat
      /\ stackMaxSize \in Nat /\ stackMaxSize >= 1 /\ Len(act) <= stackMaxSize
      /\ Len(act) \in Nat
  BY StackAssumption DEF StackInv, StackTypeOK
<1>2. on = SetOf(act) /\ OnStack' = SetOf(act')
  BY DEF OnStack, SetOf
<1>3. /\ kept \in Seq(Activation) /\ Len(kept) <= Len(act) /\ Decreasing(kept)
      /\ SetOf(kept) = {r \in SetOf(act) : sp < r.currentSP}
      /\ kept = act <=> \A r \in SetOf(act) : sp < r.currentSP
  BY <1>1, AdjustKeeps
<1>4. /\ act' = Pushed(kept, target, sp)
      /\ stackMaxSize' = Grow(kept)
      /\ IF kept = act THEN UNCHANGED memVars ELSE HandOver
  BY DEF ProcessCall
<1> HIDE DEF kept, on
<1>5. \A r \in SetOf(kept) : sp < r.currentSP
  BY <1>3
<1>6. /\ act' \in Seq(Activation) /\ Len(act') = Len(kept) + 1 /\ Decreasing(act')
      /\ SetOf(act') = SetOf(kept) \cup {new}
  BY <1>3, <1>4, <1>5, PushedBelow
<1>7. /\ stackMaxSize' \in Nat /\ stackMaxSize' >= 1 /\ Len(act') <= stackMaxSize'
  <2>1. Len(kept) \in Nat /\ Len(kept) <= stackMaxSize
    BY <1>1, <1>3
  <2>2. CASE Len(kept) >= stackMaxSize
    BY <1>1, <1>4, <1>6, <2>1, <2>2 DEF Grow
  <2>3. CASE ~ (Len(kept) >= stackMaxSize)
    BY <1>1, <1>4, <1>6, <2>1, <2>3 DEF Grow
  <2>4. QED BY <2>2, <2>3
<1>8. AccessesOK
  BY DEF StackInv, StackTypeOK, AccessesOK
<1>9. AccessesOK' /\ (Waiting' = <<>> \/ (Waiting' = Waiting /\ kept = act))
  <2>1. CASE kept = act
    <3>1. UNCHANGED memVars
      BY <1>4, <2>1
    <3>2. Waiting' = Waiting
      BY <3>1 DEF memVars, Waiting
    <3>3. AccessesOK'
      BY <1>8, <3>1, <3>2 DEF memVars, AccessesOK
    <3>4. QED BY <2>1, <3>2, <3>3
  <2>2. CASE kept # act
    BY <1>4, <1>8, <2>2, HandOverStep
  <2>3. QED BY <2>1, <2>2
<1>10. ActiveCallsAreReported'
  <2>1. Active \subseteq on
    BY DEF StackInv, ActiveCallsAreReported, on
  <2>2. Active \subseteq SetOf(kept)
    BY <1>2, <1>3, <2>1
  <2>3. QED BY <1>2, <1>6, <2>2 DEF ActiveCallsAreReported
<1>11. fixed => Out(n) \in Nat
  <2>1. CASE n = 0
    BY <1>1, <2>1 DEF Out
  <2>2. CASE n # 0
    <3>1. n \in 1 .. n /\ frames[n] \in Frame
      <4>1. n \in Nat
        BY FrameFacts
      <4>2. n \in 1 .. n
        BY <2>2, <4>1
      <4>3. QED BY <4>2, FrameFacts
    <3>2. frames[n].out \in Nat
      BY <3>1, StackAssumption DEF Frame
    <3>3. QED BY <2>2, <3>2 DEF Out
  <2>3. QED BY <2>1, <2>2
<1>12. \A r \in SetOf(act) : r.currentSP \in Nat
  BY Pointers, <1>1 DEF SetOf
<1>13. fixed => SetOf(kept) \subseteq Active
  <2>1. SUFFICES ASSUME fixed, NEW r \in SetOf(kept) PROVE r \in Active
    OBVIOUS
  <2>2. r \in on /\ sp < r.currentSP /\ r.currentSP \in Nat
    BY <1>2, <1>3, <1>12
  <2>3. r \in Active \/ r.currentSP <= Out(n)
    BY <2>1, <2>2 DEF StackInv, LeftBehind, on
  <2>4. QED BY <1>1, <1>11, <2>1, <2>2, <2>3
<1>14. fixed => OnStack' = Active'
  BY <1>2, <1>6, <1>10, <1>13 DEF ActiveCallsAreReported
<1>15. LeftBehind'
  <2>1. SUFFICES ASSUME fixed, NEW i \in DOMAIN Waiting', Waiting'[i] > Len(frames') PROVE FALSE
    BY <1>14 DEF LeftBehind
  <2>2. Waiting' # <<>>
    BY <2>1
  <2>3. Waiting' = Waiting /\ \A r \in on : sp < r.currentSP
    BY <1>2, <1>3, <1>9, <2>2
  <2>4. Waiting \in Seq(Nat) /\ n \in Nat
    <3>1. Waiting \in Seq(Nat)
      <4>1. memBuffer \in Seq(Nat) /\ Len(memBuffer) \in Nat /\ buf_addr \in 0 .. Len(memBuffer)
        BY <1>8 DEF AccessesOK
      <4>2. QED BY <4>1 DEF Waiting
    <3>2. QED BY <3>1, FrameFacts
  <2>5. Waiting[i] > n
    BY <2>1, <2>3, <2>4
  <2>6. PICK r \in on : r.currentSP <= Out(n)
    BY <2>1, <2>3, <2>5 DEF StackInv, LeftBehind, on
  <2>7. QED BY <1>1, <1>2, <1>11, <1>12, <2>1, <2>3, <2>6
<1>16. QED BY <1>6, <1>7, <1>9, <1>10, <1>14, <1>15

-----------------------------------------------------------------------------
(* The steps.                                                              *)

\* A call instruction.
LEMMA CallStep ==
  ASSUME LibrariesPush, StackInv, NEW routine \in Routines \cup {Stub}, Call(routine)
  PROVE  StackInv'
<1> DEFINE n == Len(frames)
<1>0. PICK sp \in CallPointers : \E out \in IF fixed THEN Below(sp, routine = Stub) ELSE {0} :
        /\ ProcessCall(routine, sp)
        /\ frames' = Append(frames, [routine |-> routine, sp |-> sp, out |-> out,
                                     plt |-> routine = Stub])
  BY DEF Call
<1>1. PICK out \in IF fixed THEN Below(sp, routine = Stub) ELSE {0} :
        /\ ProcessCall(routine, sp)
        /\ frames' = Append(frames, [routine |-> routine, sp |-> sp, out |-> out,
                                     plt |-> routine = Stub])
  BY <1>0
<1>2. ~InStub /\ aux_jumped' = FALSE /\ fixed' = fixed /\ fixed \in BOOLEAN
  BY DEF Call, StackInv, StackTypeOK
<1>3. /\ sp \in 1 .. StackBase
      /\ frames # <<>> => sp < LeastSP(frames[n])
      /\ fixed => sp = Out(n)
  BY <1>2, CallFacts
<1> DEFINE g == [routine |-> routine, sp |-> sp, out |-> out, plt |-> routine = Stub]
           new == [currentSP |-> sp, target |-> routine]
<1>4. out \in 0 .. StackBase /\ StackBase \in Nat
  BY <1>1, <1>3, StackAssumption DEF Below
<1>5. /\ g \in Frame /\ g.sp = sp /\ g.out = out /\ g.routine = routine
      /\ g.routine = Stub => g.plt
      /\ RecordsOf(g) = {new}
  <2>1. CASE routine = Stub
    BY <1>3, <1>4, <2>1 DEF Frame, RecordsOf
  <2>2. CASE routine # Stub
    BY <1>3, <1>4, <2>2 DEF Frame, RecordsOf
  <2>3. QED BY <2>1, <2>2
<1>6. fixed => out >= 1 /\ out < LeastSP(g)
  <2>1. CASE routine = Stub
    <3>1. fixed => out \in Below(sp, TRUE) /\ g.plt
      BY <1>1, <2>1
    <3>2. QED BY <1>3, <1>5, <3>1 DEF Below, LeastSP
  <2>2. CASE routine # Stub
    <3>1. fixed => out \in Below(sp, FALSE) /\ ~g.plt
      BY <1>1, <2>2
    <3>2. QED BY <1>3, <1>5, <3>1 DEF Below, LeastSP
  <2>3. QED BY <2>1, <2>2
<1> HIDE DEF g
<1>7. frames \in Seq(Frame) /\ n \in Nat /\ frames' = Append(frames, g)
  <2>1. frames' = Append(frames, g)
    BY <1>1 DEF g
  <2>2. QED BY <2>1 DEF StackInv, StackTypeOK
<1> HIDE DEF n
<1>8. /\ frames' \in Seq(Frame) /\ Len(frames') = n + 1 /\ DOMAIN frames' = 1 .. n + 1
      /\ \A i \in 1 .. n : frames'[i] = frames[i]
      /\ frames'[n + 1] = g
  BY <1>5, <1>7 DEF n
<1>9. /\ \A i \in 1 .. n + 1 : i \in 1 .. n \/ i = n + 1
      /\ DOMAIN frames = 1 .. n
  BY <1>7 DEF n
<1>10. Active' = Active \cup {new}
  <2>1. Active' = UNION {RecordsOf(frames'[i]) : i \in 1 .. n + 1}
    BY <1>8 DEF Active
  <2>2. Active = UNION {RecordsOf(frames[i]) : i \in 1 .. n}
    BY <1>9 DEF Active
  <2>3. QED BY <1>5, <1>7, <1>8, <1>9, <2>1, <2>2
<1>11. \A r \in Active : sp < r.currentSP
  BY <1>3, ActiveAbove DEF n
<1>12. fixed => Out(n) <= sp
  BY <1>3
<1>13. sp \in 0 .. StackBase /\ Len(frames') \in Nat /\ Len(frames') >= n
  BY <1>3, <1>7, <1>8
<1>14. /\ activationStack' \in Seq(Activation)
       /\ stackMaxSize' \in Nat /\ stackMaxSize' >= 1
       /\ Len(activationStack') <= stackMaxSize'
       /\ Decreasing(activationStack')
       /\ AccessesOK'
       /\ LeftBehind' /\ ActiveCallsAreReported'
       /\ fixed => OnStack' = Active'
  BY <1>1, <1>2, <1>10, <1>11, <1>12, <1>13, ReportedCall DEF n
<1>15. StackTypeOK'
  BY <1>2, <1>8, <1>14 DEF StackTypeOK, AccessesOK
<1>16. FramesNested'
  <2>1. \A i \in 1 .. n + 1 : frames'[i].routine = Stub => frames'[i].plt
    BY <1>5, <1>8, <1>9 DEF StackInv, FramesNested
  <2>2. ASSUME NEW i \in 1 .. n + 1, NEW j \in 1 .. n + 1, i < j
        PROVE  frames'[j].sp < LeastSP(frames'[i])
    <3>1. i \in 1 .. n
      BY <1>7, <2>2
    <3>2. CASE j \in 1 .. n
      BY <1>8, <1>9, <2>2, <3>1, <3>2 DEF StackInv, FramesNested
    <3>3. CASE j = n + 1
      <4>1. frames # <<>>
        BY <3>1, <1>7 DEF n
      <4>2. /\ LeastSP(frames[n]) <= LeastSP(frames[i]) /\ LeastSP(frames[i]) \in Nat
        BY <3>1, FrameFacts DEF n
      <4>3. n \in 1 .. n
        BY <1>7, <3>1
      <4>4. LeastSP(frames[n]) \in Nat
        BY <4>3, FrameFacts DEF n
      <4>5. QED BY <1>3, <1>5, <1>8, <3>1, <3>3, <4>1, <4>2, <4>4 DEF n
    <3>4. QED BY <1>9, <3>2, <3>3
  <2>3. ASSUME fixed, NEW i \in 1 .. n + 1
        PROVE  /\ frames'[i].sp = Out(i - 1)'
               /\ frames'[i].out >= 1 /\ frames'[i].out < LeastSP(frames'[i])
    <3>1. Out(i - 1)' = Out(i - 1)
      <4>1. i - 1 = 0 \/ i - 1 \in 1 .. n
        BY <1>7
      <4>2. QED BY <1>8, <4>1 DEF Out
    <3>2. CASE i \in 1 .. n
      BY <1>8, <1>9, <2>3, <3>1, <3>2 DEF StackInv, FramesNested
    <3>3. CASE i = n + 1
      <4>1. i - 1 = n
        BY <1>7, <3>3
      <4>2. QED BY <1>3, <1>5, <1>6, <1>8, <2>3, <3>1, <3>3, <4>1
    <3>4. QED BY <1>9, <3>2, <3>3
  <2>4. QED BY <1>2, <1>8, <2>1, <2>2, <2>3 DEF FramesNested
<1>17. LongjmpIsRolledBack'
  BY <1>2, <1>14 DEF LongjmpIsRolledBack
<1>18. QED BY <1>14, <1>15, <1>16, <1>17 DEF StackInv, AccessesOK

\* The stub's jump to a routine: its frame gets a second activation.
LEMMA StubJumpStep ==
  ASSUME StackInv, NEW routine \in Routines, StubJump(routine)
  PROVE  StackInv'
<1> DEFINE n == Len(frames)
           sp == Top.sp - 1
           new == [currentSP |-> sp, target |-> routine]
<1>1. /\ InStub /\ frames # <<>> /\ Top.routine = Stub
      /\ ProcessCall(routine, sp)
      /\ frames' = [frames EXCEPT ![n].routine = routine]
      /\ aux_jumped' = FALSE /\ fixed' = fixed /\ fixed \in BOOLEAN
  BY DEF StubJump, InStub, StackInv, StackTypeOK
<1>2. frames \in Seq(Frame) /\ n \in Nat /\ n \in 1 .. n
  BY <1>1 DEF StackInv, StackTypeOK
<1>3. Top = frames[n] /\ frames[n] \in Frame /\ frames[n].plt
      /\ frames[n].sp \in 1 .. StackBase
      /\ frames[n].routine = Stub
  BY <1>1, <1>2, FrameFacts DEF Top
<1>4. LeastSP(frames[n]) = sp /\ sp \in 0 .. StackBase /\ sp + 1 = frames[n].sp
      /\ StackBase \in Nat
  BY <1>3, StackAssumption DEF LeastSP
<1> DEFINE g == [frames[n] EXCEPT !.routine = routine]
<1>5. /\ g \in Frame /\ g.sp = frames[n].sp /\ g.out = frames[n].out /\ g.plt = frames[n].plt
      /\ g.routine = routine
  BY <1>3 DEF Frame
<1>6. routine # Stub
  BY StackAssumption
<1>7. RecordsOf(g) = RecordsOf(frames[n]) \cup {new} /\ LeastSP(g) = LeastSP(frames[n])
  BY <1>3, <1>4, <1>5, <1>6 DEF RecordsOf, LeastSP
<1>8. /\ frames' \in Seq(Frame) /\ Len(frames') = n /\ DOMAIN frames' = 1 .. n
      /\ \A i \in 1 .. n : frames'[i] = IF i = n THEN g ELSE frames[i]
  <2>1. frames' = [frames EXCEPT ![n] = g]
    BY <1>1
  <2> HIDE DEF g
  <2>2. QED BY <1>2, <1>5, <2>1
<1> HIDE DEF g, sp, n
<1>9. DOMAIN frames = 1 .. n
  BY <1>2 DEF n
<1>10. Active' = Active \cup {new}
  <2>1. Active' = UNION {RecordsOf(frames'[i]) : i \in 1 .. n}
    BY <1>8 DEF Active
  <2>2. Active = UNION {RecordsOf(frames[i]) : i \in 1 .. n}
    BY <1>9 DEF Active
  <2> HIDE DEF new
  <2>3. \A i \in 1 .. n : RecordsOf(frames'[i]) =
                          IF i = n THEN RecordsOf(frames[n]) \cup {new} ELSE RecordsOf(frames[i])
    BY <1>7, <1>8
  <2>4. QED BY <1>2, <2>1, <2>2, <2>3
<1>11. \A r \in Active : sp < r.currentSP
  <2>1. SUFFICES ASSUME NEW r \in Active PROVE sp < r.currentSP
    OBVIOUS
  <2>2. PICK i \in 1 .. n : r \in RecordsOf(frames[i])
    BY FrameFacts DEF n
  <2>3. CASE i = n
    <3>1. r.currentSP = frames[n].sp
      BY <1>3, <2>2, <2>3 DEF RecordsOf
    <3>2. QED BY <1>3, <1>4, <3>1
  <2>4. CASE i # n
    <3>1. frames[n].sp < LeastSP(frames[i]) /\ LeastSP(frames[i]) \in Nat
          /\ frames[i] \in Frame /\ (frames[i].routine = Stub => frames[i].plt)
      BY <2>4, FrameFacts DEF n
    <3>2. LeastSP(frames[i]) <= r.currentSP /\ r.currentSP \in Nat
      BY <2>2, <3>1, RecordsOfFrame
    <3>3. QED BY <1>3, <1>4, <3>1, <3>2
  <2>5. QED BY <2>3, <2>4
<1>12. fixed => Out(n) <= sp
  <2>1. SUFFICES ASSUME fixed PROVE frames[n].out <= sp
    BY <1>2 DEF Out
  <2>2. frames[n].out < LeastSP(frames[n]) /\ frames[n].out \in Nat
    BY <1>2, <1>3, <1>9, <2>1 DEF StackInv, FramesNested, Frame
  <2>3. QED BY <1>4, <2>2
<1>13. Len(frames') \in Nat /\ Len(frames') >= n
  BY <1>2, <1>8
<1>14. /\ activationStack' \in Seq(Activation)
       /\ stackMaxSize' \in Nat /\ stackMaxSize' >= 1
       /\ Len(activationStack') <= stackMaxSize'
       /\ Decreasing(activationStack')
       /\ AccessesOK'
       /\ LeftBehind' /\ ActiveCallsAreReported'
       /\ fixed => OnStack' = Active'
  BY <1>1, <1>4, <1>10, <1>11, <1>12, <1>13, ReportedCall DEF n
<1>15. StackTypeOK'
  BY <1>1, <1>8, <1>14 DEF StackTypeOK, AccessesOK
<1>16. FramesNested'
  <2>1. \A i \in 1 .. n : /\ frames'[i].sp = frames[i].sp /\ frames'[i].out = frames[i].out
                          /\ LeastSP(frames'[i]) = LeastSP(frames[i])
                          /\ frames'[i].routine = Stub => frames'[i].plt
    BY <1>5, <1>7, <1>8, <1>9, <1>3 DEF StackInv, FramesNested
  <2>2. \A i \in 1 .. n : Out(i - 1)' = Out(i - 1)
    <3>1. TAKE i \in 1 .. n
    <3>2. i - 1 = 0 \/ i - 1 \in 1 .. n
      BY <1>2
    <3>3. QED BY <2>1, <3>2 DEF Out
  <2>3. QED BY <1>1, <1>8, <1>9, <2>1, <2>2 DEF StackInv, FramesNested
<1>17. LongjmpIsRolledBack'
  BY <1>1, <1>14 DEF LongjmpIsRolledBack
<1>18. QED BY <1>14, <1>15, <1>16, <1>17 DEF StackInv, AccessesOK

\* A return finds the first activation of the top frame above all others.
LEMMA ReturnFindsItsOwn ==
  ASSUME StackInv, frames # <<>>, ~InStub,
         NEW kept, kept = AdjustStack(activationStack, Top.sp - 1),
         NEW own, own = [currentSP |-> Top.sp, target |-> IF Top.plt THEN Stub ELSE Top.routine]
  PROVE  /\ kept \in Seq(Activation) /\ Decreasing(kept) /\ kept # <<>>
         /\ Len(kept) <= Len(activationStack)
         /\ kept[Len(kept)] = own
         /\ SetOf(kept) = {r \in OnStack : Top.sp - 1 < r.currentSP}
<1> DEFINE act == activationStack
           n == Len(frames)
           sp == Top.sp - 1
<1>1. /\ act \in Seq(Activation) /\ Decreasing(act) /\ frames \in Seq(Frame) /\ n \in Nat
      /\ SetOf(act) = OnStack
  BY DEF StackInv, StackTypeOK, SetOf, OnStack
<1>2. n \in 1 .. n
  BY <1>1
<1>3. /\ Top = frames[n] /\ frames[n] \in Frame /\ (frames[n].routine = Stub => frames[n].plt)
      /\ Top.sp \in 1 .. StackBase /\ RecordsOf(frames[n]) \subseteq Active
  BY <1>2, FrameFacts DEF Top
<1>4. sp \in Nat /\ sp + 1 = Top.sp
  BY <1>3
<1> HIDE DEF sp
<1>5. /\ kept \in Seq(Activation) /\ Len(kept) <= Len(act) /\ Decreasing(kept)
      /\ SetOf(kept) = {r \in SetOf(act) : sp < r.currentSP}
  <2>1. kept = AdjustStack(act, sp)
    BY DEF sp
  <2>2. QED BY <1>1, <1>4, <2>1, AdjustKeeps
<1>6. own \in OnStack
  <2>1. own \in RecordsOf(frames[n])
    BY <1>3, RecordsOfFrame
  <2>2. QED BY <1>3, <2>1 DEF StackInv, ActiveCallsAreReported
<1>7. own.currentSP = Top.sp
  OBVIOUS
<1>8. own \in SetOf(kept)
  BY <1>1, <1>3, <1>4, <1>5, <1>6, <1>7
<1>9. kept # <<>>
  BY <1>8 DEF SetOf
<1> DEFINE last == kept[Len(kept)]
<1>10. /\ last \in SetOf(kept)
       /\ \A r \in SetOf(kept) : r = last \/ last.currentSP < r.currentSP
  BY <1>5, <1>9, PoppedLeast
<1> HIDE DEF last
<1>11. last.currentSP \in Nat
  BY <1>5, <1>10, Pointers DEF SetOf
<1>12. sp < last.currentSP
  BY <1>5, <1>10
<1>13. last = own
  BY <1>3, <1>4, <1>7, <1>8, <1>10, <1>11, <1>12
<1>14. QED BY <1>1, <1>5, <1>9, <1>13 DEF last, sp

\* A subset of the frames, from the outermost.
LEMMA FramesCut ==
  ASSUME StackInv, NEW m \in 0 .. Len(frames) - 1, frames' = SubSeq(frames, 1, m), fixed' = fixed
  PROVE  /\ frames' \in Seq(Frame) /\ Len(frames') = m /\ DOMAIN frames' = 1 .. m
         /\ \A i \in 1 .. m : frames'[i] = frames[i]
         /\ FramesNested'
         /\ Out(m)' = Out(m)
         /\ Active' = UNION {RecordsOf(frames[i]) : i \in 1 .. m}
<1>1. frames \in Seq(Frame) /\ Len(frames) \in Nat /\ DOMAIN frames = 1 .. Len(frames)
      /\ m \in Nat /\ m <= Len(frames)
  BY DEF StackInv, StackTypeOK
<1>2. /\ frames' \in Seq(Frame) /\ Len(frames') = m /\ DOMAIN frames' = 1 .. m
      /\ \A i \in 1 .. m : frames'[i] = frames[i]
  BY <1>1
<1>3. \A i \in 0 .. m : Out(i)' = Out(i)
  <2>1. \A i \in 0 .. m : i = 0 \/ i \in 1 .. m
    BY <1>1
  <2>2. QED BY <1>2, <2>1 DEF Out
<1>4. FramesNested'
  <2>1. \A i \in 1 .. m : i \in 1 .. Len(frames) /\ i - 1 \in 0 .. m
    BY <1>1
  <2>2. \A i \in 1 .. m : frames'[i].routine = Stub => frames'[i].plt
    BY <1>1, <1>2, <2>1 DEF StackInv, FramesNested
  <2>3. \A i \in 1 .. m, j \in 1 .. m : i < j => frames'[j].sp < LeastSP(frames'[i])
    BY <1>1, <1>2, <2>1 DEF StackInv, FramesNested
  <2>4. fixed => \A i \in 1 .. m :
          /\ frames'[i].sp = Out(i - 1)'
          /\ frames'[i].out >= 1 /\ frames'[i].out < LeastSP(frames'[i])
    BY <1>1, <1>2, <1>3, <2>1 DEF StackInv, FramesNested
  <2>5. QED BY <1>2, <2>2, <2>3, <2>4 DEF FramesNested
<1>5. Active' = UNION {RecordsOf(frames[i]) : i \in 1 .. m}
  BY <1>2 DEF Active
<1>6. m \in 0 .. m
  BY <1>1
<1>7. QED BY <1>2, <1>3, <1>4, <1>5, <1>6

\* A return.
LEMMA ReturnStep ==
  ASSUME StackInv, Return
  PROVE  StackInv'
<1> DEFINE n == Len(frames)
           kept == AdjustStack(activationStack, Top.sp - 1)
           own == [currentSP |-> Top.sp, target |-> IF Top.plt THEN Stub ELSE Top.routine]
<1>1. /\ ~InStub /\ frames # <<>>
      /\ activationStack' = Popped(kept) /\ HandOver /\ stackMaxSize' = stackMaxSize
      /\ frames' = SubSeq(frames, 1, n - 1)
      /\ aux_jumped' = FALSE /\ fixed' = fixed
  BY DEF Return, ProcessReturn
<1>2. /\ kept \in Seq(Activation) /\ Decreasing(kept) /\ kept # <<>>
      /\ Len(kept) <= Len(activationStack)
      /\ kept[Len(kept)] = own
      /\ SetOf(kept) = {r \in OnStack : Top.sp - 1 < r.currentSP}
  BY <1>1, ReturnFindsItsOwn
<1> HIDE DEF kept
<1>3. own.currentSP = Top.sp
  OBVIOUS
<1> HIDE DEF own
<1>4. /\ \A r \in SetOf(kept) : r = own \/ Top.sp < r.currentSP
      /\ activationStack' \in Seq(Activation)
      /\ Len(activationStack') < Len(kept)
      /\ Decreasing(activationStack')
      /\ OnStack' = SetOf(kept) \ {own}
  <2>1. OnStack' = SetOf(activationStack')
    BY DEF OnStack, SetOf
  <2>2. QED BY <1>1, <1>2, <1>3, <2>1, PoppedLeast
<1>5. /\ n \in Nat /\ n \in 1 .. n /\ n - 1 \in 0 .. n - 1
      /\ frames[n] = Top /\ frames[n] \in Frame /\ (Top.routine = Stub => Top.plt)
      /\ Top.sp \in 1 .. StackBase /\ LeastSP(Top) \in Nat /\ LeastSP(Top) <= Top.sp
  <2>1. n \in Nat /\ n \in 1 .. n
    BY <1>1 DEF StackInv, StackTypeOK
  <2>2. n - 1 \in 0 .. n - 1
    BY <2>1
  <2>3. /\ frames[n] \in Frame /\ (frames[n].routine = Stub => frames[n].plt)
        /\ frames[n].sp \in 1 .. StackBase
        /\ LeastSP(frames[n]) \in Nat /\ LeastSP(frames[n]) <= frames[n].sp
    BY <2>1, FrameFacts
  <2>4. QED BY <2>1, <2>2, <2>3 DEF Top
<1>6. /\ frames' \in Seq(Frame) /\ Len(frames') = n - 1
      /\ FramesNested'
      /\ Active' = UNION {RecordsOf(frames[i]) : i \in 1 .. n - 1}
  BY <1>1, <1>5, FramesCut
<1>7. /\ \A i \in 1 .. n : i = n \/ i \in 1 .. n - 1
      /\ \A i \in 1 .. n - 1 : i \in 1 .. n /\ i # n
  BY <1>5
<1>8. \A r \in Active : r \in Active' \/ r.currentSP <= Top.sp
  <2>1. SUFFICES ASSUME NEW r \in Active PROVE r \in Active' \/ r.currentSP <= Top.sp
    OBVIOUS
  <2>2. PICK i \in 1 .. n : r \in RecordsOf(frames[i])
    BY FrameFacts
  <2>3. CASE i = n
    BY <1>5, <2>2, <2>3, RecordsOfFrame
  <2>4. CASE i \in 1 .. n - 1
    BY <1>6, <2>2, <2>4
  <2>5. QED BY <1>7, <2>3, <2>4
<1>9. \A r \in Active' : r \in Active /\ Top.sp < r.currentSP
  <2>1. SUFFICES ASSUME NEW r \in Active' PROVE r \in Active /\ Top.sp < r.currentSP
    OBVIOUS
  <2>2. PICK i \in 1 .. n - 1 : r \in RecordsOf(frames[i])
    BY <1>6
  <2>3. i \in 1 .. n /\ i # n
    BY <1>7
  <2>4. /\ Top.sp < LeastSP(frames[i]) /\ LeastSP(frames[i]) \in Nat /\ frames[i] \in Frame
        /\ (frames[i].routine = Stub => frames[i].plt)
        /\ RecordsOf(frames[i]) \subseteq Active
    BY <1>5, <2>3, FrameFacts
  <2>5. LeastSP(frames[i]) <= r.currentSP /\ r.currentSP \in Nat
    BY <2>2, <2>4, RecordsOfFrame
  <2>6. QED BY <1>5, <2>2, <2>4, <2>5
<1>10. ActiveCallsAreReported'
  <2>1. ASSUME NEW r \in Active' PROVE r \in OnStack'
    <3>1. r \in OnStack /\ Top.sp < r.currentSP
      BY <1>9, <2>1 DEF StackInv, ActiveCallsAreReported
    <3>2. r \in Active
      BY <1>9, <2>1
    <3>3. r.currentSP \in Nat
      <4>1. activationStack \in Seq(Activation)
        BY DEF StackInv, StackTypeOK
      <4>2. QED BY <3>1, <4>1, Pointers DEF OnStack
    <3>4. r \in SetOf(kept) /\ r # own
      BY <1>2, <1>3, <1>5, <3>1, <3>3
    <3>5. QED BY <1>4, <3>4
  <2>2. QED BY <2>1 DEF ActiveCallsAreReported
<1>11. fixed => OnStack' = Active'
  <2>1. SUFFICES ASSUME fixed, NEW r \in OnStack' PROVE r \in Active'
    BY <1>10 DEF ActiveCallsAreReported
  <2>2. r \in OnStack /\ Top.sp < r.currentSP
    BY <1>2, <1>4, <2>1
  <2>3. r \in Active \/ r.currentSP <= Out(n)
    BY <2>1, <2>2 DEF StackInv, LeftBehind
  <2>4. Out(n) = Top.out /\ Top.out \in Nat /\ Top.out < LeastSP(Top)
    BY <1>5, <2>1, FrameFacts, StackAssumption DEF StackInv, FramesNested, Out, Frame
  <2>5. r.currentSP \in Nat
    <3>1. activationStack \in Seq(Activation)
      BY DEF StackInv, StackTypeOK
    <3>2. QED BY <2>2, <3>1, Pointers DEF OnStack
  <2>6. r \in Active
    BY <1>5, <2>2, <2>3, <2>4, <2>5
  <2>7. QED BY <1>5, <1>8, <2>2, <2>5, <2>6
<1>12. AccessesOK' /\ Waiting' = <<>>
  <2>1. AccessesOK
    BY DEF StackInv, StackTypeOK, AccessesOK
  <2>2. QED BY <1>1, <2>1, HandOverStep
<1>13. LeftBehind'
  BY <1>1, <1>11, <1>12 DEF LeftBehind
<1>14. StackTypeOK' /\ (stackMaxSize >= 1)'
  <2>1. /\ Len(activationStack) \in Nat /\ Len(activationStack) <= stackMaxSize
        /\ stackMaxSize \in Nat /\ stackMaxSize >= 1 /\ fixed \in BOOLEAN
    BY DEF StackInv, StackTypeOK
  <2>2. Len(activationStack') <= stackMaxSize'
    BY <1>1, <1>2, <1>4, <2>1
  <2>3. QED BY <1>1, <1>4, <1>6, <1>12, <2>1, <2>2 DEF StackTypeOK, AccessesOK
<1>15. LongjmpIsRolledBack'
  BY <1>1, <1>11 DEF LongjmpIsRolledBack
<1>16. QED BY <1>4, <1>6, <1>10, <1>12, <1>13, <1>14, <1>15 DEF StackInv, AccessesOK

\* longjmp.
LEMMA LongjmpStep ==
  ASSUME StackInv, Longjmp
  PROVE  StackInv'
<1> DEFINE n == Len(frames)
<1>1. PICK m \in 0 .. n - 1 : frames' = SubSeq(frames, 1, m)
  BY DEF Longjmp
<1>2. /\ activationStack' = activationStack /\ stackMaxSize' = stackMaxSize /\ fixed' = fixed
      /\ aux_jumped' = TRUE /\ UNCHANGED memVars
  BY DEF Longjmp
<1>3. /\ frames' \in Seq(Frame) /\ Len(frames') = m
      /\ FramesNested'
      /\ Out(m)' = Out(m)
      /\ Active' = UNION {RecordsOf(frames[i]) : i \in 1 .. m}
  BY <1>1, <1>2, FramesCut
<1>4. n \in Nat /\ m \in Nat /\ m + 1 \in 1 .. n /\ n \in 1 .. n /\ (m + 1) - 1 = m
  <2>1. n \in Nat
    BY FrameFacts
  <2>2. QED BY <1>1, <2>1
<1> DEFINE f == frames[m + 1]
<1>5. /\ f \in Frame /\ (f.routine = Stub => f.plt) /\ f.sp \in 1 .. StackBase
      /\ RecordsOf(f) \subseteq Active
      /\ frames[n] \in Frame /\ LeastSP(frames[n]) <= LeastSP(f)
      /\ LeastSP(f) <= f.sp /\ LeastSP(f) \in Nat /\ LeastSP(frames[n]) \in Nat
  BY <1>4, FrameFacts
<1> DEFINE own == [currentSP |-> f.sp, target |-> IF f.plt THEN Stub ELSE f.routine]
<1>6. own \in OnStack /\ own.currentSP = f.sp
  <2>1. own \in RecordsOf(f)
    BY <1>5, RecordsOfFrame
  <2>2. QED BY <1>5, <2>1 DEF StackInv, ActiveCallsAreReported
<1> HIDE DEF own
<1>7. fixed => Out(m) = f.sp
  BY <1>4, FrameFacts DEF StackInv, FramesNested
<1>8. fixed => Out(n) <= f.sp
  <2>1. SUFFICES ASSUME fixed PROVE frames[n].out <= f.sp
    BY <1>4 DEF Out
  <2>2. frames[n].out \in Nat /\ frames[n].out < LeastSP(frames[n])
    BY <1>4, <1>5, <2>1, FrameFacts, StackAssumption DEF StackInv, FramesNested, Frame
  <2>3. QED BY <1>5, <2>2
<1>9. OnStack' = OnStack /\ Waiting' = Waiting
  BY <1>2 DEF OnStack, Waiting, memVars
<1>10. \A r \in Active : r \in Active' \/ r.currentSP <= f.sp
  <2>1. SUFFICES ASSUME NEW r \in Active PROVE r \in Active' \/ r.currentSP <= f.sp
    OBVIOUS
  <2>2. PICK i \in 1 .. n : r \in RecordsOf(frames[i])
    BY FrameFacts
  <2>3. CASE i \in 1 .. m
    BY <1>3, <2>2, <2>3
  <2>4. CASE i \in m + 1 .. n
    <3>1. /\ frames[i] \in Frame /\ (frames[i].routine = Stub => frames[i].plt)
          /\ frames[i].sp \in 1 .. StackBase
      BY <2>2, FrameFacts
    <3>2. r.currentSP <= frames[i].sp /\ r.currentSP \in Nat
      BY <2>2, <3>1, RecordsOfFrame
    <3>3. frames[i].sp <= f.sp
      <4>1. CASE i = m + 1
        BY <3>1, <4>1
      <4>2. CASE i # m + 1
        <5>0. m + 1 < i
          BY <1>4, <2>4, <4>2
        <5>1. m + 1 < i /\ i \in DOMAIN frames /\ m + 1 \in DOMAIN frames
          BY <1>4, <5>0, FrameFacts
        <5>2. frames[i].sp < LeastSP(f)
          BY <5>1 DEF StackInv, FramesNested
        <5>3. QED BY <1>5, <3>1, <5>2
      <4>3. QED BY <4>1, <4>2
    <3>4. QED BY <1>5, <3>1, <3>2, <3>3
  <2>5. i \in 1 .. m \/ i \in m + 1 .. n
    BY <1>4
  <2>6. QED BY <2>3, <2>4, <2>5
<1> HIDE DEF f, n
<1>11. \A r \in OnStack : r.currentSP \in Nat
  <2>1. activationStack \in Seq(Activation)
    BY DEF StackInv, StackTypeOK
  <2>2. QED BY <2>1, Pointers DEF OnStack
<1>12. LeftBehind'
  <2>1. SUFFICES ASSUME fixed
                 PROVE  /\ \A r \in OnStack : r \in Active' \/ r.currentSP <= Out(m)
                        /\ \E r \in OnStack : r.currentSP <= Out(m)
    BY <1>2, <1>3, <1>9 DEF LeftBehind
  <2>2. \E r \in OnStack : r.currentSP <= Out(m)
    BY <1>5, <1>6, <1>7, <2>1
  <2>3. ASSUME NEW r \in OnStack PROVE r \in Active' \/ r.currentSP <= Out(m)
    <3>1. r \in Active \/ r.currentSP <= Out(n)
      BY <2>1 DEF StackInv, LeftBehind, n
    <3>2. Out(n) \in Nat
      <4>1. frames[n].out \in Nat
        BY <1>5, StackAssumption DEF Frame
      <4>2. n # 0
        BY <1>4
      <4>3. QED BY <4>1, <4>2 DEF Out
    <3>3. QED BY <1>5, <1>7, <1>8, <1>10, <1>11, <2>1, <3>1, <3>2
  <2>4. QED BY <2>2, <2>3
<1>13. ActiveCallsAreReported'
  <2>1. Active' \subseteq Active
    <3>1. \A i \in 1 .. m : i \in 1 .. n
      BY <1>4
    <3>2. \A i \in 1 .. m : RecordsOf(frames[i]) \subseteq Active
      BY <3>1, FrameFacts DEF n
    <3>3. QED BY <1>3, <3>2
  <2>2. QED BY <1>9, <2>1 DEF StackInv, ActiveCallsAreReported
<1>14. StackTypeOK'
  BY <1>2, <1>3 DEF StackInv, StackTypeOK, memVars
<1>15. QED BY <1>2, <1>3, <1>9, <1>12, <1>13, <1>14
           DEF StackInv, Decreasing, LongjmpIsRolledBack, memVars

\* A memory access.
LEMMA AccessKeepsStack ==
  ASSUME StackInv, Access
  PROVE  StackInv'
<1> DEFINE n == Len(frames)
           w == Waiting
<1>1. UNCHANGED <<activationStack, stackMaxSize, frames, fixed, aux_jumped>>
  BY DEF Access
<1>2. AccessesOK /\ n \in Nat
  BY FrameFacts DEF StackInv, StackTypeOK, AccessesOK
<1>3. AccessesOK' /\ (Waiting' = Append(w, n) \/ Waiting' = <<n>>)
  BY <1>2, AccessStep
<1>4. w \in Seq(Nat)
  <2>1. memBuffer \in Seq(Nat) /\ Len(memBuffer) \in Nat /\ buf_addr \in 0 .. Len(memBuffer)
    BY <1>2 DEF AccessesOK
  <2>2. QED BY <2>1 DEF Waiting
<1> HIDE DEF w, n
<1>5. ASSUME NEW i \in DOMAIN Waiting', Waiting'[i] > n
      PROVE  i \in DOMAIN w /\ w[i] > n
  <2>1. CASE Waiting' = <<n>>
    <3>1. i = 1 /\ Waiting'[i] = n
      BY <1>5, <2>1
    <3>2. QED BY <1>2, <1>5, <3>1
  <2>2. CASE Waiting' = Append(w, n)
    <3>1. /\ Len(w) \in Nat /\ DOMAIN w = 1 .. Len(w) /\ DOMAIN Append(w, n) = 1 .. Len(w) + 1
          /\ \A j \in 1 .. Len(w) : Append(w, n)[j] = w[j]
          /\ Append(w, n)[Len(w) + 1] = n
      BY <1>2, <1>4
    <3>2. i = Len(w) + 1 \/ i \in 1 .. Len(w)
      BY <2>2, <3>1
    <3>3. QED BY <1>2, <1>5, <2>2, <3>1, <3>2
  <2>3. QED BY <1>3, <2>1, <2>2
<1>6. OnStack' = OnStack /\ Active' = Active /\ Out(n)' = Out(n) /\ Len(frames') = n /\ Len(frames) = n
  BY <1>1 DEF OnStack, Active, Out, n
<1>7. LeftBehind'
  <2>1. SUFFICES ASSUME fixed
                 PROVE  /\ \A r \in OnStack : r \in Active \/ r.currentSP <= Out(n)
                        /\ (\E i \in DOMAIN Waiting' : Waiting'[i] > n) =>
                             \E r \in OnStack : r.currentSP <= Out(n)
    <3>1. fixed' = fixed /\ OnStack' = OnStack /\ Active' = Active /\ Out(Len(frames))' = Out(n)
      BY <1>1, <1>6 DEF Out
    <3>2. Len(frames') = n
      BY <1>6
    <3> HIDE DEF Out
    <3>3. QED BY <3>1, <3>2 DEF LeftBehind
  <2>2. QED BY <1>5, <1>6, <2>1 DEF StackInv, LeftBehind, w
<1>8. FramesNested'
  BY <1>1 DEF StackInv, FramesNested, Out
<1>9. StackTypeOK'
  BY <1>1, <1>3 DEF StackInv, StackTypeOK, AccessesOK
<1>10. ActiveCallsAreReported' /\ LongjmpIsRolledBack'
  BY <1>1, <1>6 DEF StackInv, ActiveCallsAreReported, LongjmpIsRolledBack
<1>11. QED BY <1>1, <1>3, <1>7, <1>8, <1>9, <1>10 DEF StackInv, Decreasing, AccessesOK

\* A step that leaves the thread alone.
LEMMA StackStutter ==
  ASSUME StackInv, UNCHANGED stackVars
  PROVE  StackInv'
<1>1. UNCHANGED <<activationStack, stackMaxSize, frames, fixed, aux_jumped>>
  BY DEF stackVars
<1>2. UNCHANGED <<memBuffer, buf_addr, aux_accesses, aux_handed>>
  BY DEF stackVars, memVars
<1>3. OnStack' = OnStack /\ Active' = Active /\ Waiting' = Waiting
  BY <1>1, <1>2 DEF OnStack, Active, Waiting
<1>4. StackTypeOK' /\ FramesNested'
  BY <1>1, <1>2 DEF StackInv, StackTypeOK, FramesNested, Out
<1>5. LeftBehind'
  <2>1. Out(Len(frames))' = Out(Len(frames)) /\ Len(frames)' = Len(frames)
    BY <1>1 DEF Out
  <2>2. QED BY <1>1, <1>3, <2>1 DEF StackInv, LeftBehind
<1>6. QED BY <1>1, <1>2, <1>3, <1>4, <1>5
          DEF StackInv, Decreasing, ActiveCallsAreReported, LongjmpIsRolledBack

\* Every step keeps the invariant.
LEMMA StackStep ==
  ASSUME LibrariesPush, StackInv, [StackNext]_stackVars
  PROVE  StackInv'
<1>1. CASE Return
  BY <1>1, ReturnStep
<1>2. CASE Longjmp
  BY <1>2, LongjmpStep
<1>3. CASE Access
  BY <1>3, AccessKeepsStack
<1>4. CASE Call(Stub)
  BY <1>4, CallStep
<1>5. ASSUME NEW r \in Routines, Call(r) PROVE StackInv'
  BY <1>5, CallStep
<1>6. ASSUME NEW r \in Routines, StubJump(r) PROVE StackInv'
  BY <1>6, StubJumpStep
<1>7. CASE UNCHANGED stackVars
  BY <1>7, StackStutter
<1>8. QED BY <1>1, <1>2, <1>3, <1>4, <1>5, <1>6, <1>7 DEF StackNext

\* A new thread.
LEMMA StackStart ==
  ASSUME StackInit
  PROVE  StackInv
<1>1. /\ activationStack = <<>> /\ frames = <<>> /\ memBuffer = <<>> /\ buf_addr = 0
      /\ aux_accesses = <<>> /\ aux_handed = <<>> /\ stackMaxSize = InitStack
      /\ fixed \in BOOLEAN /\ aux_jumped = FALSE
  BY DEF StackInit
<1>2. Waiting = <<>> /\ OnStack = {} /\ Active = {}
  BY <1>1 DEF Waiting, OnStack, Active
<1>3. StackTypeOK /\ stackMaxSize >= 1
  <2>1. <<>> \in Seq(Activation) /\ <<>> \in Seq(Frame) /\ <<>> \in Seq(Nat) /\ Len(<<>>) = 0
    OBVIOUS
  <2>2. stackMaxSize \in Nat /\ stackMaxSize >= 1 /\ BufElements \in Nat
    BY <1>1, StackAssumption
  <2>3. Len(activationStack) <= stackMaxSize /\ Len(memBuffer) <= BufElements
        /\ buf_addr \in 0 .. Len(memBuffer)
    BY <1>1, <2>1, <2>2
  <2>4. QED BY <1>1, <2>1, <2>2, <2>3 DEF StackTypeOK
<1>4. aux_handed \o Waiting = aux_accesses
  BY <1>1, <1>2
<1>5. FramesNested /\ LeftBehind
  BY <1>1, <1>2 DEF FramesNested, LeftBehind
<1>6. QED BY <1>1, <1>2, <1>3, <1>4, <1>5
          DEF StackInv, Decreasing, ActiveCallsAreReported, LongjmpIsRolledBack

\* What the invariant is for.
LEMMA StackInvReports ==
  ASSUME StackInv
  PROVE  CallsAreReported
<1>1. ReturnEndsItsCall
  <2>1. SUFFICES ASSUME frames # <<>>, ~InStub
                 PROVE  LET act == AdjustStack(activationStack, Top.sp - 1)
                        IN  /\ act # <<>>
                            /\ act[Len(act)].currentSP = Top.sp
                            /\ act[Len(act)].target = IF Top.plt THEN Stub ELSE Top.routine
    BY DEF ReturnEndsItsCall
  <2> DEFINE act == AdjustStack(activationStack, Top.sp - 1)
  <2>2. act # <<>> /\ act[Len(act)] =
          [currentSP |-> Top.sp, target |-> IF Top.plt THEN Stub ELSE Top.routine]
    BY <2>1, ReturnFindsItsOwn
  <2> HIDE DEF act
  <2>3. /\ act # <<>> /\ act[Len(act)].currentSP = Top.sp
        /\ act[Len(act)].target = IF Top.plt THEN Stub ELSE Top.routine
    BY <2>2
  <2>4. QED BY <2>3 DEF act
<1>2. AccessesAreHandedOver
  <2> DEFINE n == Len(frames)
  <2>1. SUFFICES ASSUME fixed, ~aux_jumped, NEW i \in DOMAIN Waiting, ~ (Waiting[i] <= n)
                 PROVE  FALSE
    BY DEF AccessesAreHandedOver, StackInv
  <2>2. Waiting[i] > n
    <3>1. memBuffer \in Seq(Nat) /\ Len(memBuffer) \in Nat /\ buf_addr \in 0 .. Len(memBuffer)
      BY DEF StackInv, StackTypeOK
    <3>2. Waiting \in Seq(Nat)
      BY <3>1 DEF Waiting
    <3> HIDE DEF n
    <3>3. n \in Nat
      BY FrameFacts DEF n
    <3>4. QED BY <2>1, <3>2, <3>3
  <2>3. PICK r \in OnStack : r.currentSP <= Out(n)
    BY <2>1, <2>2 DEF StackInv, LeftBehind
  <2>4. r \in Active
    BY <2>1 DEF StackInv, LongjmpIsRolledBack
  <2>5. frames # <<>> /\ n \in Nat /\ n \in 1 .. n /\ n # 0
    BY <2>4, FrameFacts DEF Active
  <2>6. Out(n) \in Nat /\ Out(n) < LeastSP(frames[n])
    BY <2>1, <2>5, FrameFacts, StackAssumption DEF StackInv, FramesNested, Out, Frame
  <2>7. Out(n) < r.currentSP /\ r.currentSP \in Nat
    BY <2>4, <2>6, ActiveAbove
  <2>8. QED BY <2>3, <2>6, <2>7
<1>3. QED BY <1>1, <1>2 DEF StackInv, CallsAreReported

\* Every step keeps the invariant of the thread.
THEOREM StackInvariance == LibrariesPush => (StackSpec => []StackInv)
<1> SUFFICES ASSUME LibrariesPush PROVE StackSpec => []StackInv
  OBVIOUS
<1>1. StackInit => StackInv
  BY StackStart
<1>2. StackInv /\ [StackNext]_stackVars => StackInv'
  BY StackStep
<1>3. QED
  BY <1>1, <1>2, PTL DEF StackSpec

\* The shadow stack agrees with the calls of the program, which longjmp unwinds
\* unseen, if routines behind stubs push something before they call: no activation of
\* an active call is popped, a return ends its own call, what longjmp leaves behind
\* is gone at the next event, and accesses are handed over once, in order and in time.
THEOREM ShadowStackReportsCalls == LibrariesPush => (StackSpec => []CallsAreReported)
<1> SUFFICES ASSUME LibrariesPush PROVE StackSpec => []CallsAreReported
  OBVIOUS
<1>1. StackInv => CallsAreReported
  BY StackInvReports
<1>2. StackSpec => []StackInv
  BY StackInvariance
<1>3. QED
  BY <1>1, <1>2, PTL

-----------------------------------------------------------------------------
(* Where the recorded events lie in the trace.                             *)

\* What a concatenation has where.
LEMMA ConcatElements ==
  ASSUME NEW S, NEW u \in Seq(S), NEW v \in Seq(S)
  PROVE  /\ u \o v \in Seq(S) /\ Len(u \o v) = Len(u) + Len(v)
         /\ \A j \in 1 .. Len(u) : (u \o v)[j] = u[j]
         /\ \A j \in 1 .. Len(v) : (u \o v)[Len(u) + j] = v[j]
<1>1. /\ u \o v \in Seq(S) /\ Len(u \o v) = Len(u) + Len(v)
      /\ \A j \in 1 .. Len(u) + Len(v) :
           (u \o v)[j] = IF j <= Len(u) THEN u[j] ELSE v[j - Len(u)]
  BY ConcatProperties
<1>2. Len(u) \in Nat /\ Len(v) \in Nat
  BY LenProperties
<1>3. ASSUME NEW j \in 1 .. Len(u) PROVE (u \o v)[j] = u[j]
  BY <1>1, <1>2
<1>4. ASSUME NEW j \in 1 .. Len(v) PROVE (u \o v)[Len(u) + j] = v[j]
  <2>1. Len(u) + j \in 1 .. Len(u) + Len(v) /\ ~ (Len(u) + j <= Len(u)) /\ Len(u) + j - Len(u) = j
    BY <1>2
  <2>2. QED BY <1>1, <2>1
<1>5. QED BY <1>1, <1>3, <1>4

\* What three sequences in a row have where.
LEMMA ConcatThree ==
  ASSUME NEW S, NEW h \in Seq(S), NEW d \in Seq(S), NEW c \in Seq(S)
  PROVE  /\ h \o (d \o c) \in Seq(S) /\ Len(h \o (d \o c)) = Len(h) + Len(d) + Len(c)
         /\ \A j \in 1 .. Len(d) : (h \o (d \o c))[Len(h) + j] = d[j]
         /\ \A j \in 1 .. Len(c) : (h \o (d \o c))[Len(h) + Len(d) + j] = c[j]
<1>1. Len(h) \in Nat /\ Len(d) \in Nat /\ Len(c) \in Nat
  BY LenProperties
<1>2. PICK e \in Seq(S) : e = d \o c
  BY ConcatProperties
<1>3. /\ Len(e) = Len(d) + Len(c)
      /\ \A j \in 1 .. Len(d) : e[j] = d[j]
      /\ \A j \in 1 .. Len(c) : e[Len(d) + j] = c[j]
  BY <1>2, ConcatElements
<1>4. PICK a \in Seq(S) : a = h \o e
  BY ConcatProperties
<1>5. Len(a) = Len(h) + Len(e) /\ \A j \in 1 .. Len(e) : a[Len(h) + j] = e[j]
  BY <1>4, ConcatElements
<1>6. ASSUME NEW j \in 1 .. Len(d) PROVE a[Len(h) + j] = d[j]
  <2>1. j \in 1 .. Len(e)
    BY <1>1, <1>3
  <2>2. QED BY <1>3, <1>5, <2>1
<1>7. ASSUME NEW j \in 1 .. Len(c) PROVE a[Len(h) + Len(d) + j] = c[j]
  <2>1. Len(d) + j \in 1 .. Len(e) /\ Len(h) + Len(d) + j = Len(h) + (Len(d) + j)
    BY <1>1, <1>3
  <2>2. a[Len(h) + (Len(d) + j)] = e[Len(d) + j] /\ e[Len(d) + j] = c[j]
    BY <1>3, <1>5, <2>1
  <2>3. QED BY <2>1, <2>2
<1>8. a = h \o (d \o c) /\ Len(a) = Len(h) + Len(d) + Len(c)
  BY <1>1, <1>2, <1>3, <1>4, <1>5
<1>9. QED BY <1>6, <1>7, <1>8

\* In all, h is followed by d, and d by the next element of s, if there is one.
Follows(h, d, all, s, k) ==
  /\ Len(h) + Len(d) <= Len(all)
  /\ \A j \in 1 .. Len(d) : all[Len(h) + j] = d[j]
  /\ k = Len(s) => Len(h) + Len(d) = Len(all)
  /\ k < Len(s) =>
       /\ Len(h) + Len(d) + Len(s[k + 1]) <= Len(all)
       /\ \A j \in 1 .. Len(s[k + 1]) : all[Len(h) + Len(d) + j] = s[k + 1][j]

\* What follows the first k elements in FlattenSeq(s), behind h.
LEMMA WhereEventsLie ==
  ASSUME NEW S, NEW h \in Seq(S), NEW s \in Seq(Seq(S)), NEW k \in 0 .. Len(s),
         NEW d, d = FlattenSeq(SubSeq(s, 1, k)),
         NEW all, all = h \o FlattenSeq(s)
  PROVE  d \in Seq(S) /\ all \in Seq(S) /\ Follows(h, d, all, s, k)
<1> DEFINE a == SubSeq(s, 1, k)
           b == SubSeq(s, k + 1, Len(s))
           c == FlattenSeq(b)
<1>1. a \in Seq(Seq(S)) /\ b \in Seq(Seq(S)) /\ s = a \o b
  <2>0. Len(s) \in Nat /\ k \in Nat /\ k <= Len(s)
    OBVIOUS
  <2>1. a \in Seq(Seq(S)) /\ Len(a) = k /\ \A i \in 1 .. k : a[i] = s[i]
    BY <2>0
  <2>2. /\ b \in Seq(Seq(S)) /\ Len(b) = Len(s) - k
        /\ \A i \in 1 .. Len(s) - k : b[i] = s[k + i]
    BY <2>0
  <2> HIDE DEF a, b
  <2>3. /\ a \o b \in Seq(Seq(S)) /\ Len(a \o b) = Len(s)
        /\ \A i \in 1 .. Len(s) : (a \o b)[i] = s[i]
    <3>1. /\ a \o b \in Seq(Seq(S)) /\ Len(a \o b) = Len(a) + Len(b)
          /\ \A i \in 1 .. Len(a) + Len(b) :
               (a \o b)[i] = IF i <= Len(a) THEN a[i] ELSE b[i - Len(a)]
      BY <2>1, <2>2, ConcatProperties
    <3>2. Len(a) = k /\ Len(b) = Len(s) - k /\ Len(a) + Len(b) = Len(s)
      BY <2>0, <2>1, <2>2
    <3>3. ASSUME NEW i \in 1 .. Len(s) PROVE (a \o b)[i] = s[i]
      <4>1. CASE i <= k
        BY <2>0, <2>1, <3>1, <3>2, <4>1
      <4>2. CASE ~ (i <= k)
        <5>1. i - k \in 1 .. Len(s) - k /\ k + (i - k) = i
          BY <2>0, <4>2
        <5>2. b[i - k] = s[k + (i - k)]
          BY <2>2, <5>1
        <5>3. QED BY <3>1, <3>2, <4>2, <5>1, <5>2
      <4>3. QED BY <4>1, <4>2
    <3>4. QED BY <3>1, <3>2, <3>3
  <2>4. QED BY <2>1, <2>2, <2>3, SeqEqual
<1>2. d \in Seq(S) /\ c \in Seq(S)
  <2>1. a \in Seq(Seq(S)) /\ b \in Seq(Seq(S)) /\ d = FlattenSeq(a)
    BY <1>1
  <2> HIDE DEF a, b
  <2>2. QED BY <2>1, FlattenType
<1>3. FlattenSeq(s) = d \o c
  <2>1. a \in Seq(Seq(S)) /\ b \in Seq(Seq(S)) /\ s = a \o b /\ d = FlattenSeq(a)
    BY <1>1
  <2> HIDE DEF a, b
  <2>2. FlattenSeq(a \o b) = FlattenSeq(a) \o FlattenSeq(b)
    BY <2>1, FlattenConcat
  <2>3. QED BY <2>1, <2>2
<1>4. all = h \o (d \o c)
  BY <1>3
<1> HIDE DEF c
<1>5. /\ all \in Seq(S) /\ Len(all) = Len(h) + Len(d) + Len(c)
      /\ \A j \in 1 .. Len(d) : all[Len(h) + j] = d[j]
      /\ \A j \in 1 .. Len(c) : all[Len(h) + Len(d) + j] = c[j]
  BY <1>2, <1>4, ConcatThree
<1>6. CASE k = Len(s)
  <2>1. b = <<>>
    BY <1>6
  <2>2. c = <<>>
    <3> HIDE DEF b
    <3>1. QED BY <2>1, FlatEmpty DEF c
  <2>3. QED BY <1>2, <1>5, <1>6, <2>2 DEF Follows
<1>7. CASE k < Len(s)
  <2> DEFINE x == s[k + 1]
             t == SubSeq(s, k + 2, Len(s))
             u == FlattenSeq(t)
  <2>1. x \in Seq(S) /\ t \in Seq(Seq(S)) /\ b = <<x>> \o t /\ <<x>> \in Seq(Seq(S))
    BY <1>7
  <2> HIDE DEF b, x, t
  <2>2. FlattenSeq(<<x>>) = x /\ u \in Seq(S)
    BY <2>1, FlattenAppend, FlattenType
  <2>3. FlattenSeq(<<x>> \o t) = FlattenSeq(<<x>>) \o FlattenSeq(t)
    BY <2>1, FlattenConcat
  <2>4. c = x \o u
    BY <2>1, <2>2, <2>3 DEF c
  <2> HIDE DEF u
  <2>5. Len(x) <= Len(c) /\ \A j \in 1 .. Len(x) : j \in 1 .. Len(c) /\ c[j] = x[j]
    BY <2>1, <2>2, <2>4
  <2>6. Len(h) \in Nat /\ Len(d) \in Nat /\ Len(c) \in Nat /\ Len(x) \in Nat
    BY <1>2, <2>1, LenProperties
  <2>7. \A j \in 1 .. Len(x) : all[Len(h) + Len(d) + j] = x[j]
    BY <1>5, <2>5
  <2>8. Len(h) + Len(d) + Len(x) <= Len(all)
    BY <1>5, <2>5, <2>6
  <2>9. /\ d \in Seq(S) /\ all \in Seq(S) /\ Len(h) + Len(d) <= Len(all)
        /\ \A j \in 1 .. Len(d) : all[Len(h) + j] = d[j]
    BY <1>2, <1>5, <2>6
  <2>10. k # Len(s)
    BY <1>7
  <2>11. QED BY <2>7, <2>8, <2>9, <2>10 DEF x, Follows
<1>8. k = Len(s) \/ k < Len(s)
  OBVIOUS
<1>9. QED BY <1>6, <1>7, <1>8

\* Pieces of one length.
LEMMA FlattenLength ==
  ASSUME NEW S, NEW w \in {2, 4}, NEW s \in Seq(Seq(S)), \A i \in 1 .. Len(s) : Len(s[i]) = w
  PROVE  Len(FlattenSeq(s)) = Len(s) * w
<1> DEFINE Short(u) == \A i \in 1 .. Len(u) : Len(u[i]) = w
           Bad == {n \in Nat : \E u \in Seq(Seq(S)) :
                     Len(u) = n /\ Short(u) /\ Len(FlattenSeq(u)) # Len(u) * w}
<1>1. ASSUME Bad # {} PROVE FALSE
  <2>1. PICK b \in Bad : \A j \in Bad : b <= j
    BY <1>1, NatHasLeast
  <2>2. PICK u \in Seq(Seq(S)) : Len(u) = b /\ Short(u) /\ Len(FlattenSeq(u)) # Len(u) * w
    BY <2>1
  <2>3. u # <<>>
    BY <2>2, FlatEmpty
  <2>4. PICK v \in Seq(Seq(S)), x \in Seq(S) : u = Append(v, x)
    BY <2>3, SequenceEmptyOrAppend
  <2>5. Len(v) \in Nat /\ Len(u) = Len(v) + 1 /\ Len(v) < b
    BY <2>2, <2>4
  <2>6. Short(v) /\ Len(x) = w
    <3>1. \A i \in 1 .. Len(v) : i \in 1 .. Len(u) /\ u[i] = v[i]
      BY <2>4
    <3>2. Len(u) \in 1 .. Len(u) /\ u[Len(u)] = x
      BY <2>4, <2>5
    <3>3. QED BY <2>2, <3>1, <3>2
  <2>7. Len(FlattenSeq(v)) = Len(v) * w
    <3>1. Len(v) \notin Bad
      BY <2>1, <2>5
    <3>2. QED BY <2>5, <2>6, <3>1
  <2>8. FlattenSeq(u) = FlattenSeq(v) \o x /\ FlattenSeq(v) \in Seq(S)
    BY <2>4, FlattenStepwise, FlattenType
  <2>9. Len(FlattenSeq(u)) = Len(FlattenSeq(v)) + w
    BY <2>6, <2>8
  <2> HIDE DEF Short, Bad
  <2>10. Len(u) * w = Len(v) * w + w
    BY <2>5
  <2>11. QED BY <2>2, <2>7, <2>9, <2>10
<1>2. Len(s) \in Nat
  BY LenProperties
<1>3. Len(s) \notin Bad
  BY <1>1
<1>4. QED BY <1>2, <1>3

\* The header has its length.
LEMMA HeaderHasLength ==
  ASSUME ConstantsAssumption
  PROVE  Len(FlattenSeq(HeaderPieces)) = HeaderLen /\ HeaderLen \in Nat /\ HeaderLen >= Word
<1>1. Word \in {2, 4} /\ HeaderWords \in Nat \ {0}
  BY DEF ConstantsAssumption, WordAssumption
<1>2. HeaderPieces \in Seq(Seq(Byte))
  BY PiecesType, PiecesAreSeqs
<1>3. Len(HeaderPieces) = HeaderWords
  <2>1. DOMAIN HeaderPieces = 1 .. HeaderWords
    BY DEF HeaderPieces
  <2>2. QED BY <1>1, <1>2, <2>1
<1>4. ASSUME NEW i \in 1 .. Len(HeaderPieces) PROVE Len(HeaderPieces[i]) = Word
  <2>1. HeaderPieces[i] = [k \in 1 .. Word - 1 + 1 |-> <<"HEADER", i, 1 + k - 1>>]
    BY <1>3, <1>4 DEF HeaderPieces, EventBytes
  <2>2. DOMAIN HeaderPieces[i] = 1 .. Word
    BY <1>1, <2>1
  <2>3. HeaderPieces[i] \in Seq(Byte)
    BY <1>2, <1>4
  <2>4. QED BY <1>1, <2>2, <2>3
<1>5. Len(FlattenSeq(HeaderPieces)) = Len(HeaderPieces) * Word
  BY <1>1, <1>2, <1>4, FlattenLength
<1>6. HeaderWords * Word \in Nat /\ HeaderWords * Word >= Word
  BY <1>1
<1>7. QED BY <1>3, <1>5, <1>6 DEF HeaderLen

\* The bytes of an event are numbered.
LEMMA BytesOfEvent ==
  ASSUME NEW e \in Event, NEW i \in Nat, NEW j \in Nat, j - i + 1 \in Nat
  PROVE  /\ EventBytes(e, i, j) \in Seq(Byte) /\ Len(EventBytes(e, i, j)) = j - i + 1
         /\ \A k \in 1 .. j - i + 1 : EventBytes(e, i, j)[k] = <<e[1], e[2], i + k - 1>>
<1> DEFINE n == j - i + 1
           p == [k \in 1 .. n |-> <<e[1], e[2], i + k - 1>>]
<1>1. EventBytes(e, i, j) = p
  BY DEF EventBytes
<1>2. e[1] \in {"RTN_ENTER", "RTN_ENTER_CS", "RTN_EXIT", "TIMER_TICK"} /\ e[2] \in Nat
  BY DEF Event
<1>3. p \in [1 .. n -> Byte]
  BY <1>2 DEF Byte
<1>4. \A k \in 1 .. n : p[k] = <<e[1], e[2], i + k - 1>>
  OBVIOUS
<1>5. n \in Nat
  OBVIOUS
<1> HIDE DEF p, n
<1>6. p \in Seq(Byte) /\ Len(p) = n
  BY <1>3, <1>5, FunctionIsSeq
<1>7. QED BY <1>1, <1>4, <1>6 DEF n

\* What is recorded of an event: its type byte, and as many bytes as the analyzer expects.
LEMMA EventHasLength ==
  ASSUME ConstantsAssumption, NEW e \in Event, NEW b, b = FlattenSeq(Pieces(e))
  PROVE  /\ b \in Seq(Byte) /\ Len(b) = EventLen(e[1]) /\ EventLen(e[1]) \in Nat \ {0}
         /\ EventLen(e[1]) <= EventLen("RTN_ENTER_CS")
         /\ b[1] = <<e[1], e[2], 0>>
<1>1. Word \in {2, 4}
  BY DEF ConstantsAssumption, WordAssumption
<1> DEFINE p1 == EventBytes(e, 0, 0)
           p2 == EventBytes(e, 1, Word)
           p3 == EventBytes(e, Word + 1, Word + Word \div 2)
<1>4. p1 \in Seq(Byte) /\ Len(p1) = 1 /\ p1[1] = <<e[1], e[2], 0>>
  <2>1. 0 \in Nat /\ 0 - 0 + 1 \in Nat /\ 0 - 0 + 1 = 1 /\ 1 \in 1 .. 1 /\ 0 + 1 - 1 = 0
    OBVIOUS
  <2>2. /\ EventBytes(e, 0, 0) \in Seq(Byte) /\ Len(EventBytes(e, 0, 0)) = 0 - 0 + 1
        /\ \A k \in 1 .. 0 - 0 + 1 : EventBytes(e, 0, 0)[k] = <<e[1], e[2], 0 + k - 1>>
    BY <2>1, BytesOfEvent
  <2>3. QED BY <2>1, <2>2
<1>5. p2 \in Seq(Byte) /\ Len(p2) = Word
  <2>1. 1 \in Nat /\ Word \in Nat /\ Word - 1 + 1 \in Nat /\ Word - 1 + 1 = Word
    BY <1>1
  <2>2. p2 \in Seq(Byte) /\ Len(p2) = Word - 1 + 1
    BY <2>1, BytesOfEvent
  <2>3. QED BY <2>1, <2>2
<1>6. p3 \in Seq(Byte) /\ Len(p3) = Word \div 2 /\ Word \div 2 \in {1, 2}
  <2> DEFINE i == Word + 1
             j == Word + Word \div 2
             n == Word \div 2
  <2>1. i \in Nat /\ j \in Nat /\ n \in {1, 2} /\ j - i + 1 \in Nat /\ j - i + 1 = n
    BY <1>1
  <2> HIDE DEF i, j, n
  <2>2. EventBytes(e, i, j) \in Seq(Byte) /\ Len(EventBytes(e, i, j)) = j - i + 1
    BY <2>1, BytesOfEvent
  <2>3. QED BY <2>1, <2>2 DEF i, j, n
<1>7. /\ e[1] = "RTN_ENTER_CS" => Pieces(e) = <<p1, p2, p3>>
      /\ e[1] = "RTN_ENTER" => Pieces(e) = <<p1, p2>>
      /\ e[1] \notin {"RTN_ENTER_CS", "RTN_ENTER"} => Pieces(e) = <<p1>>
  BY DEF Pieces
<1> HIDE DEF p1, p2, p3
<1>8. FlattenSeq(<<p1>>) = p1
  <2>1. <<>> \in Seq(Seq(Byte)) /\ p1 \in Seq(Byte)
    BY <1>4, EmptySeq
  <2>2. QED BY <2>1, FlattenAppend
<1>9. FlattenSeq(<<p1, p2>>) = p1 \o p2
  <2>1. <<p1>> \in Seq(Seq(Byte)) /\ <<p1, p2>> = Append(<<p1>>, p2)
    BY <1>4
  <2>2. FlattenSeq(Append(<<p1>>, p2)) = FlattenSeq(<<p1>>) \o p2
    BY <1>5, <2>1, FlattenStepwise
  <2>3. QED BY <1>8, <2>1, <2>2
<1>10. FlattenSeq(<<p1, p2, p3>>) = (p1 \o p2) \o p3
  <2>1. <<p1, p2>> \in Seq(Seq(Byte)) /\ <<p1, p2, p3>> = Append(<<p1, p2>>, p3)
    BY <1>4, <1>5
  <2>2. FlattenSeq(Append(<<p1, p2>>, p3)) = FlattenSeq(<<p1, p2>>) \o p3
    BY <1>6, <2>1, FlattenStepwise
  <2>3. QED BY <1>9, <2>1, <2>2
<1>11. /\ EventLen("RTN_ENTER_CS") = 1 + Word + Word \div 2 /\ EventLen("RTN_ENTER") = 1 + Word
       /\ e[1] \notin {"RTN_ENTER_CS", "RTN_ENTER"} => EventLen(e[1]) = 1
  BY DEF EventLen
<1>12. /\ p1 \o p2 \in Seq(Byte) /\ Len(p1 \o p2) = 1 + Word /\ (p1 \o p2)[1] = p1[1]
  <2>1. Word \in Nat /\ 1 \in 1 .. 1
    BY <1>1
  <2>2. /\ p1 \o p2 \in Seq(Byte) /\ Len(p1 \o p2) = Len(p1) + Len(p2)
        /\ \A i \in 1 .. Len(p1) + Len(p2) :
             (p1 \o p2)[i] = IF i <= Len(p1) THEN p1[i] ELSE p2[i - Len(p1)]
    BY <1>4, <1>5, ConcatProperties
  <2>3. QED BY <1>4, <1>5, <2>1, <2>2
<1>13. CASE e[1] = "RTN_ENTER_CS"
  <2> DEFINE q == p1 \o p2
             n == Word \div 2
  <2>1. b = q \o p3 /\ q \in Seq(Byte) /\ Len(q) = 1 + Word /\ q[1] = <<e[1], e[2], 0>>
    BY <1>4, <1>7, <1>10, <1>12, <1>13
  <2>2. Len(p3) = n /\ n \in {1, 2} /\ EventLen(e[1]) = 1 + Word + n
    BY <1>6, <1>11, <1>13
  <2>3. EventLen("RTN_ENTER_CS") = 1 + Word + n
    BY <1>11
  <2> HIDE DEF q, n
  <2>4. b \in Seq(Byte) /\ Len(b) = 1 + Word + n /\ b[1] = q[1]
    BY <1>1, <1>6, <2>1, <2>2
  <2>5. QED BY <1>1, <2>1, <2>2, <2>3, <2>4
<1>14. CASE e[1] = "RTN_ENTER"
  <2> DEFINE n == Word \div 2
  <2>1. b = p1 \o p2
    BY <1>7, <1>9, <1>14
  <2>2. n \in {1, 2} /\ EventLen("RTN_ENTER_CS") = 1 + Word + n
    BY <1>6, <1>11
  <2> HIDE DEF n
  <2>3. QED BY <1>1, <1>4, <1>11, <1>12, <1>14, <2>1, <2>2
<1>15. CASE e[1] \notin {"RTN_ENTER_CS", "RTN_ENTER"}
  <2> DEFINE n == Word \div 2
  <2>1. b = p1
    BY <1>7, <1>8, <1>15
  <2>2. n \in {1, 2} /\ EventLen("RTN_ENTER_CS") = 1 + Word + n
    BY <1>6, <1>11
  <2> HIDE DEF n
  <2>3. QED BY <1>1, <1>4, <1>11, <1>15, <2>1, <2>2
<1>16. QED BY <1>13, <1>14, <1>15

-----------------------------------------------------------------------------
(* The inductive invariant of the driver.                                  *)

\* What was recorded of each event.
AsRecorded == [i \in DOMAIN aux_events |-> FlattenSeq(Pieces(aux_events[i]))]

\* What of the buffer was not yet analyzed, and where in the file it starts.
Left  == IF mode = "scanning" THEN SubSeq(buf, at, Len(buf)) ELSE buf
Start == HeaderLen + Len(FlattenSeq(aux_delivered))

\* Behind the header, the first events were delivered; the buffer has the next bytes.
EventsInOrder ==
  /\ Len(aux_delivered) \in 0 .. Len(AsRecorded)
  /\ aux_delivered = SubSeq(AsRecorded, 1, Len(aux_delivered))
  /\ Start <= pos
  /\ Left = SubSeq(file, Start + 1, pos)

\* Without a whole header there is nothing to read.
NothingToRead ==
  mode # "scanning" /\ pos = Len(file) /\ buf = <<>> /\ aux_delivered = <<>>

\* The inductive invariant of a driver whose trace is complete, or cut off.  Between
\* two reads the buffer has less than an event.
DriverInv ==
  /\ mode \in {"new", "refused", "reading", "scanning", "done"}
  /\ pos \in 0 .. Len(file)
  /\ buf \in Seq(Byte) /\ Len(buf) <= BufSize
  /\ mode = "scanning" => at \in 1 .. Len(buf) + 1
  /\ rtn_enter_events \in Nat \cup {Unknown}
  /\ mode # "new" => phase \in {"closed", "killed"}
  /\ mode = "new" => pos = 0
  /\ mode \in {"new", "refused"} => buf = <<>> /\ aux_delivered = <<>>
  /\ mode \in {"reading", "scanning", "done"} =>
       /\ IF Len(file) < HeaderLen THEN NothingToRead ELSE EventsInOrder
       /\ Len(file) >= HeaderLen => rtn_enter_events = header.rtnEvents[1]
  /\ mode \in {"reading", "done"} /\ buf # <<>> => Len(buf) < EventLen(buf[1][1])
  /\ mode = "done" => pos = Len(file)

\* The driver measures events as the tracer does.
LEMMA DriverWords ==
  /\ Driver!HeaderLen = HeaderLen
  /\ \A k : Driver!EventLen(k) = EventLen(k)
  /\ \A s : Driver!FlattenSeq(s) = FlattenSeq(s)
  /\ Driver!Kind = buf[at][1]
  /\ BufSize \in Nat /\ BufSize >= EventLen("RTN_ENTER_CS")
  BY DriverAssumption
     DEF Driver!ConstantsAssumption, Driver!HeaderLen, HeaderLen, Driver!EventLen, EventLen,
         Driver!FlattenSeq, FlattenSeq, Driver!Kind

\* The lesser of two numbers.
LEMMA DriverMin ==
  ASSUME NEW a \in Int, NEW b \in Int
  PROVE  Driver!Min({a, b}) = IF a <= b THEN a ELSE b
<1> DEFINE c == IF a <= b THEN a ELSE b
<1>1. c \in {a, b} /\ \A y \in {a, b} : c <= y
  OBVIOUS
<1>2. \A x \in {a, b} : (\A y \in {a, b} : x <= y) => x = c
  OBVIOUS
<1>3. QED BY <1>1, <1>2 DEF Driver!Min

\* The file is the beginning of what was recorded, and all of it when it was closed.
LEMMA FileStarts ==
  ASSUME ConstantsAssumption, WriterInv, phase \in {"closed", "killed"}
  PROVE  /\ file \in Seq(Byte) /\ Recorded \in Seq(Byte) /\ Len(file) <= Len(Recorded)
         /\ \A j \in 1 .. Len(file) : file[j] = Recorded[j]
         /\ phase = "closed" => file = Recorded
<1>1. file \in Seq(Byte) /\ Recorded \in Seq(Byte)
  BY StreamTypes DEF WriterInv, TypeOK
<1>2. CASE phase = "closed"
  BY <1>1, <1>2 DEF WriterInv, NothingLost
<1>3. CASE phase = "killed"
  <2>1. Len(file) <= Len(Recorded) /\ SubSeq(file, 1, Len(file)) = SubSeq(Recorded, 1, Len(file))
    BY <1>3 DEF WriterInv, NothingLost, IsPrefix
  <2>2. ASSUME NEW j \in 1 .. Len(file) PROVE file[j] = Recorded[j]
    <3>1. Len(file) \in Nat /\ Len(Recorded) \in Nat
      BY <1>1
    <3>2. SubSeq(file, 1, Len(file))[j] = file[j]
      BY <1>1, <3>1
    <3>3. SubSeq(Recorded, 1, Len(file))[j] = Recorded[j]
      BY <1>1, <2>1, <3>1
    <3>4. QED BY <2>1, <3>2, <3>3
  <2>3. QED BY <1>1, <1>3, <2>1, <2>2
<1>4. QED BY <1>2, <1>3

\* The recorded events are sequences of bytes.
LEMMA RecordedTypes ==
  ASSUME ConstantsAssumption, WriterInv
  PROVE  /\ AsRecorded \in Seq(Seq(Byte)) /\ Len(AsRecorded) = Len(aux_events)
         /\ Recorded = FlattenSeq(HeaderPieces) \o FlattenSeq(AsRecorded)
         /\ FlattenSeq(HeaderPieces) \in Seq(Byte)
         /\ \A i \in 1 .. Len(AsRecorded) :
              aux_events[i] \in Event /\ AsRecorded[i] = FlattenSeq(Pieces(aux_events[i]))
<1>1. aux_events \in Seq(Event)
  BY DEF WriterInv, Accounted
<1>2. AsRecorded \in Seq(Seq(Byte))
  BY <1>1, EachType DEF AsRecorded
<1>3. DOMAIN AsRecorded = 1 .. Len(aux_events) /\ Len(aux_events) \in Nat
  BY <1>1 DEF AsRecorded
<1>4. Len(AsRecorded) = Len(aux_events)
  <2>1. DOMAIN AsRecorded = 1 .. Len(AsRecorded) /\ Len(AsRecorded) \in Nat
    BY <1>2, LenProperties
  <2>2. QED BY <1>3, <2>1
<1>5. \A i \in 1 .. Len(AsRecorded) :
        aux_events[i] \in Event /\ AsRecorded[i] = FlattenSeq(Pieces(aux_events[i]))
  BY <1>1, <1>4 DEF AsRecorded
<1>6. Recorded = FlattenSeq(HeaderPieces) \o FlattenSeq(AsRecorded)
  BY DEF Recorded, StreamOf, AsRecorded
<1>7. QED BY <1>2, <1>4, <1>5, <1>6, StreamTypes

\* An event b of the trace starts behind the first d bytes of the file; its end may be
\* cut off.
EventAt(d, b) ==
  /\ b \in Seq(Byte) /\ Len(b) \in Nat \ {0} /\ Len(b) <= EventLen("RTN_ENTER_CS")
  /\ Len(b) = EventLen(file[d + 1][1]) /\ file[d + 1][3] = 0
  /\ \A j \in 1 .. Len(b) : d + j <= Len(file) => file[d + j] = b[j]

\* Behind k events that were delivered is the next one.
LEMMA NextEvent ==
  ASSUME ConstantsAssumption, WriterInv, phase \in {"closed", "killed"},
         NEW k \in 0 .. Len(AsRecorded), NEW f, f = FlattenSeq(SubSeq(AsRecorded, 1, k)),
         NEW d, d = HeaderLen + Len(f)
  PROVE  /\ f \in Seq(Byte) /\ d \in Nat
         /\ \A j \in 1 .. Len(f) : HeaderLen + j <= Len(file) => file[HeaderLen + j] = f[j]
         /\ d < Len(file) => k < Len(AsRecorded) /\ EventAt(d, AsRecorded[k + 1])
         /\ phase = "closed" /\ k < Len(AsRecorded) => d + Len(AsRecorded[k + 1]) <= Len(file)
<1> DEFINE h == FlattenSeq(HeaderPieces)
           n == Len(AsRecorded)
           b == AsRecorded[k + 1]
<1>1. /\ h \in Seq(Byte) /\ Len(h) = HeaderLen /\ HeaderLen \in Nat
      /\ AsRecorded \in Seq(Seq(Byte)) /\ n \in Nat /\ Recorded = h \o FlattenSeq(AsRecorded)
  BY RecordedTypes, HeaderHasLength, LenProperties
<1>2. /\ file \in Seq(Byte) /\ Recorded \in Seq(Byte) /\ Len(file) <= Len(Recorded)
      /\ \A j \in 1 .. Len(file) : file[j] = Recorded[j]
      /\ phase = "closed" => file = Recorded
  BY FileStarts
<1> HIDE DEF h
<1>0. f \in Seq(Byte) /\ Recorded \in Seq(Byte) /\ Follows(h, f, Recorded, AsRecorded, k)
  <2>1. /\ h \in Seq(Byte) /\ AsRecorded \in Seq(Seq(Byte)) /\ k \in 0 .. Len(AsRecorded)
        /\ f = FlattenSeq(SubSeq(AsRecorded, 1, k)) /\ Recorded = h \o FlattenSeq(AsRecorded)
    BY <1>1
  <2>2. QED BY <2>1, WhereEventsLie
<1>3. /\ f \in Seq(Byte) /\ Recorded \in Seq(Byte) /\ Len(h) + Len(f) <= Len(Recorded)
      /\ \A j \in 1 .. Len(f) : Recorded[Len(h) + j] = f[j]
      /\ k = n => Len(h) + Len(f) = Len(Recorded)
      /\ k < n => /\ Len(h) + Len(f) + Len(b) <= Len(Recorded)
                  /\ \A j \in 1 .. Len(b) : Recorded[Len(h) + Len(f) + j] = b[j]
  BY <1>0 DEF Follows
<1>4. Len(file) \in Nat /\ Len(Recorded) \in Nat /\ Len(f) \in Nat /\ k \in Nat /\ k <= n /\ d \in Nat
  BY <1>1, <1>2, <1>3
<1>5. \A j \in 1 .. Len(f) : HeaderLen + j <= Len(file) => file[HeaderLen + j] = f[j]
  <2> SUFFICES ASSUME NEW j \in 1 .. Len(f), HeaderLen + j <= Len(file)
               PROVE  file[HeaderLen + j] = f[j]
    OBVIOUS
  <2>1. HeaderLen + j \in 1 .. Len(file) /\ HeaderLen + j = Len(h) + j
    BY <1>1, <1>4
  <2>2. QED BY <1>2, <1>3, <2>1
<1>6. ASSUME d < Len(file) PROVE k < n /\ EventAt(d, b)
  <2>1. k < n
    BY <1>1, <1>2, <1>3, <1>4, <1>6
  <2>2. k + 1 \in 1 .. n
    BY <1>1, <1>4, <2>1
  <2> DEFINE e == aux_events[k + 1]
  <2>3. e \in Event /\ b = FlattenSeq(Pieces(e))
    BY <2>2, RecordedTypes
  <2> HIDE DEF b, e
  <2>4. /\ b \in Seq(Byte) /\ Len(b) = EventLen(e[1]) /\ EventLen(e[1]) \in Nat \ {0}
        /\ EventLen(e[1]) <= EventLen("RTN_ENTER_CS")
        /\ b[1] = <<e[1], e[2], 0>>
    BY <2>3, EventHasLength
  <2>5. \A j \in 1 .. Len(b) : d + j <= Len(file) => file[d + j] = b[j]
    <3> SUFFICES ASSUME NEW j \in 1 .. Len(b), d + j <= Len(file) PROVE file[d + j] = b[j]
      OBVIOUS
    <3>1. d + j \in 1 .. Len(file)
      BY <1>4
    <3>2. d + j = Len(h) + Len(f) + j
      BY <1>1, <1>4
    <3>3. QED BY <1>2, <1>3, <2>1, <3>1, <3>2
  <2>6. file[d + 1] = b[1]
    <3>1. 1 \in 1 .. Len(b) /\ d + 1 <= Len(file)
      BY <1>4, <1>6, <2>4
    <3>2. QED BY <2>5, <3>1
  <2>7. file[d + 1][1] = e[1] /\ file[d + 1][3] = 0
    BY <2>4, <2>6
  <2>8. EventAt(d, b)
    BY <2>4, <2>5, <2>7 DEF EventAt
  <2>9. QED BY <2>1, <2>8
<1>7. ASSUME phase = "closed", k < n PROVE d + Len(b) <= Len(file)
  <2>1. file = Recorded
    BY <1>2, <1>7
  <2>2. d = Len(h) + Len(f)
    BY <1>1
  <2>3. QED BY <1>3, <1>7, <2>1, <2>2
<1>8. QED BY <1>3, <1>4, <1>5, <1>6, <1>7

\* The bytes of a part of a sequence.
LEMMA PartOfSeq ==
  ASSUME NEW S, NEW s \in Seq(S), NEW a \in Nat \ {0}, NEW b \in Nat, a <= b + 1, b <= Len(s)
  PROVE  /\ SubSeq(s, a, b) \in Seq(S) /\ Len(SubSeq(s, a, b)) = b - a + 1
         /\ \A j \in 1 .. b - a + 1 : SubSeq(s, a, b)[j] = s[a + j - 1]
<1> DEFINE p == SubSeq(s, a, b)
           n == b - a + 1
<1>1. n \in Nat /\ Len(s) \in Nat
  OBVIOUS
<1>2. \A j \in 1 .. n : a + j - 1 \in 1 .. Len(s) /\ s[a + j - 1] \in S
  OBVIOUS
<1>3. p = [j \in 1 .. n |-> s[a + j - 1]]
  OBVIOUS
<1> HIDE DEF n
<1>4. p \in [1 .. n -> S] /\ \A j \in 1 .. n : p[j] = s[a + j - 1]
  BY <1>2, <1>3
<1> HIDE DEF p
<1>5. p \in Seq(S) /\ Len(p) = n
  BY <1>1, <1>4, FunctionIsSeq
<1>6. QED BY <1>4, <1>5 DEF p, n

\* Two parts of a sequence that meet are one.
LEMMA PartsMeet ==
  ASSUME NEW S, NEW s \in Seq(S), NEW a \in Nat \ {0}, NEW b \in Nat, NEW c \in Nat,
         a <= b + 1, b <= c, c <= Len(s)
  PROVE  SubSeq(s, a, b) \o SubSeq(s, b + 1, c) = SubSeq(s, a, c)
<1> DEFINE p == SubSeq(s, a, b)
           q == SubSeq(s, b + 1, c)
           r == SubSeq(s, a, c)
<1>0. Len(s) \in Nat
  OBVIOUS
<1>1. /\ p \in Seq(S) /\ Len(p) = b - a + 1
      /\ \A j \in 1 .. b - a + 1 : p[j] = s[a + j - 1]
  <2>1. a <= b + 1 /\ b <= Len(s)
    BY <1>0
  <2>2. QED BY <2>1, PartOfSeq
<1>2. /\ q \in Seq(S) /\ Len(q) = c - b
      /\ \A j \in 1 .. c - b : q[j] = s[b + j]
  <2> DEFINE e == b + 1
  <2>1. e \in Nat \ {0} /\ e <= c + 1 /\ c <= Len(s) /\ c - e + 1 = c - b
    BY <1>0
  <2>2. \A j \in 1 .. c - b : e + j - 1 = b + j
    OBVIOUS
  <2> HIDE DEF e
  <2>3. /\ SubSeq(s, e, c) \in Seq(S) /\ Len(SubSeq(s, e, c)) = c - e + 1
        /\ \A j \in 1 .. c - e + 1 : SubSeq(s, e, c)[j] = s[e + j - 1]
    BY <2>1, PartOfSeq
  <2>4. QED BY <2>1, <2>2, <2>3 DEF e
<1>3. /\ r \in Seq(S) /\ Len(r) = c - a + 1
      /\ \A j \in 1 .. c - a + 1 : r[j] = s[a + j - 1]
  <2>1. a <= c + 1 /\ c <= Len(s)
    BY <1>0
  <2>2. QED BY <2>1, PartOfSeq
<1> HIDE DEF p, q, r
<1>4. /\ p \o q \in Seq(S) /\ Len(p \o q) = Len(p) + Len(q)
      /\ \A j \in 1 .. Len(p) + Len(q) :
           (p \o q)[j] = IF j <= Len(p) THEN p[j] ELSE q[j - Len(p)]
  BY <1>1, <1>2, ConcatProperties
<1>5. Len(p) + Len(q) = c - a + 1 /\ Len(p) = b - a + 1
  BY <1>1, <1>2
<1>6. ASSUME NEW j \in 1 .. c - a + 1 PROVE (p \o q)[j] = r[j]
  <2>1. CASE j <= b - a + 1
    BY <1>1, <1>3, <1>4, <1>5, <2>1
  <2>2. CASE ~ (j <= b - a + 1)
    <3> DEFINE i == j - (b - a + 1)
    <3>1. i \in 1 .. c - b /\ b + i = a + j - 1
      BY <2>2
    <3>2. (p \o q)[j] = q[i]
      BY <1>4, <1>5, <2>2
    <3> HIDE DEF i
    <3>3. QED BY <1>2, <1>3, <3>1, <3>2
  <2>3. QED BY <2>1, <2>2
<1>7. Len(p \o q) = Len(r) /\ \A j \in 1 .. Len(r) : (p \o q)[j] = r[j]
  BY <1>3, <1>4, <1>5, <1>6
<1> DEFINE u == p \o q
<1>8. u \in Seq(S) /\ Len(u) = Len(r) /\ \A j \in 1 .. Len(r) : u[j] = r[j]
  BY <1>4, <1>7
<1> HIDE DEF u
<1>9. u = r
  BY <1>3, <1>8, SeqEqual
<1>10. QED BY <1>9 DEF u, p, q, r

\* What waits in the buffer of a trace with a header.
LEMMA LeftBytes ==
  ASSUME ConstantsAssumption, WriterInv, DriverInv, mode \in {"reading", "scanning", "done"},
         Len(file) >= HeaderLen
  PROVE  /\ EventsInOrder /\ Start \in Nat /\ pos \in Nat /\ pos <= Len(file) /\ Start <= pos
         /\ file \in Seq(Byte) /\ Len(file) \in Nat /\ HeaderLen \in Nat
         /\ Left \in Seq(Byte) /\ Len(Left) = pos - Start
         /\ \A j \in 1 .. pos - Start : Left[j] = file[Start + j]
         /\ FlattenSeq(aux_delivered) \in Seq(Byte)
         /\ \A j \in 1 .. Len(FlattenSeq(aux_delivered)) :
              file[HeaderLen + j] = FlattenSeq(aux_delivered)[j]
         /\ Start < Len(file) => /\ Len(aux_delivered) < Len(AsRecorded)
                                 /\ EventAt(Start, AsRecorded[Len(aux_delivered) + 1])
         /\ phase = "closed" /\ Len(aux_delivered) < Len(AsRecorded) =>
              Start + Len(AsRecorded[Len(aux_delivered) + 1]) <= Len(file)
<1>0. phase \in {"closed", "killed"} /\ file \in Seq(Byte) /\ Len(file) \in Nat /\ HeaderLen \in Nat
  <2>1. phase \in {"closed", "killed"}
    BY DEF DriverInv
  <2>2. QED BY <2>1, FileStarts, HeaderHasLength, LenProperties
<1>1. ~ (Len(file) < HeaderLen)
  BY <1>0
<1>2. EventsInOrder /\ pos \in 0 .. Len(file)
  BY <1>1 DEF DriverInv
<1> DEFINE k == Len(aux_delivered)
           f == FlattenSeq(aux_delivered)
           b == AsRecorded[k + 1]
<1>3. k \in 0 .. Len(AsRecorded) /\ aux_delivered = SubSeq(AsRecorded, 1, k)
  BY <1>2 DEF EventsInOrder
<1>4. Start = HeaderLen + Len(f) /\ Start <= pos /\ Left = SubSeq(file, Start + 1, pos)
  BY <1>2 DEF EventsInOrder, Start
<1>5. /\ f \in Seq(Byte) /\ Start \in Nat
      /\ \A j \in 1 .. Len(f) : HeaderLen + j <= Len(file) => file[HeaderLen + j] = f[j]
      /\ Start < Len(file) => k < Len(AsRecorded) /\ EventAt(Start, b)
      /\ phase = "closed" /\ k < Len(AsRecorded) => Start + Len(b) <= Len(file)
  <2> HIDE DEF k
  <2>1. f = FlattenSeq(SubSeq(AsRecorded, 1, k))
    BY <1>3
  <2> HIDE DEF f
  <2>2. QED BY <1>0, <1>3, <1>4, <2>1, NextEvent
<1>6. \A j \in 1 .. Len(f) : file[HeaderLen + j] = f[j]
  <2>1. \A j \in 1 .. Len(f) : HeaderLen + j <= Len(file)
    BY <1>0, <1>2, <1>4, <1>5
  <2>2. QED BY <1>5, <2>1
<1>7. /\ Left \in Seq(Byte) /\ Len(Left) = pos - Start
      /\ \A j \in 1 .. pos - Start : Left[j] = file[Start + j]
  <2> DEFINE a == Start + 1
             n == pos - Start
  <2>1. a \in Nat \ {0} /\ pos \in Nat /\ a <= pos + 1 /\ pos <= Len(file) /\ pos - a + 1 = n
    BY <1>0, <1>2, <1>4, <1>5
  <2>2. \A j \in 1 .. n : a + j - 1 = Start + j
    BY <1>5
  <2>3. Left = SubSeq(file, a, pos)
    BY <1>4
  <2> HIDE DEF a, n
  <2>4. /\ SubSeq(file, a, pos) \in Seq(Byte) /\ Len(SubSeq(file, a, pos)) = pos - a + 1
        /\ \A j \in 1 .. pos - a + 1 : SubSeq(file, a, pos)[j] = file[a + j - 1]
    BY <1>0, <2>1, PartOfSeq
  <2>5. QED BY <2>1, <2>2, <2>3, <2>4 DEF n
<1>8. pos \in Nat /\ pos <= Len(file)
  BY <1>0, <1>2
<1>9. QED BY <1>0, <1>2, <1>4, <1>5, <1>6, <1>7, <1>8, Zenon

\* The driver leaves the trace alone.
LEMMA TraceIsRead ==
  ASSUME UNCHANGED vars
  PROVE  file' = file /\ header' = header /\ phase' = phase /\ AsRecorded' = AsRecorded
  BY DEF vars, threadVars, AsRecorded

\* Before the driver has opened the trace.
LEMMA DriverStarts ==
  ASSUME ConstantsAssumption, Init, Driver!Init
  PROVE  DriverInv
<1>1. file = <<>> /\ mode = "new" /\ pos = 0 /\ buf = <<>> /\ rtn_enter_events = Unknown
      /\ aux_delivered = <<>>
  BY DEF Init, Driver!Init
<1>2. BufSize \in Nat
  BY DriverWords
<1>3. QED BY <1>1, <1>2, EmptySeq DEF DriverInv

\* What the driver reads from a new trace.
LEMMA NothingReadYet ==
  ASSUME DriverInv, mode = "new", UNCHANGED driverVars, file' \in Seq(Byte)
  PROVE  DriverInv'
<1>1. /\ mode' = "new" /\ pos' = 0 /\ buf' = <<>> /\ aux_delivered' = <<>>
      /\ rtn_enter_events' \in Nat \cup {Unknown} /\ BufSize \in Nat
  BY DriverWords DEF DriverInv, driverVars
<1>2. Len(file') \in Nat
  OBVIOUS
<1>3. QED BY <1>1, <1>2, EmptySeq DEF DriverInv

\* driver_open.
LEMMA DriverOpenKeeps ==
  ASSUME ConstantsAssumption, WriterInv, DriverInv, phase \in {"closed", "killed"},
         Driver!Open, UNCHANGED vars
  PROVE  DriverInv'
<1>1. /\ file' = file /\ header' = header /\ phase' = phase /\ AsRecorded' = AsRecorded
  BY TraceIsRead
<1>2. file \in Seq(Byte) /\ Len(file) \in Nat /\ HeaderLen \in Nat
  BY FileStarts, HeaderHasLength, LenProperties
<1>3. /\ mode = "new" /\ mode' \in {"reading", "refused"} /\ buf' = buf /\ at' = at
      /\ aux_delivered' = aux_delivered
      /\ pos' = Driver!Min({Len(file), HeaderLen})
      /\ rtn_enter_events' = IF pos' = HeaderLen THEN header.rtnEvents[1] ELSE Unknown
  BY DriverWords DEF Driver!Open
<1>4. buf = <<>> /\ aux_delivered = <<>> /\ Len(buf) = 0 /\ BufSize \in Nat
  BY <1>3, DriverWords DEF DriverInv
<1>5. pos' = IF Len(file) <= HeaderLen THEN Len(file) ELSE HeaderLen
  <2> DEFINE a == Len(file)
  <2>1. a \in Int /\ HeaderLen \in Int
    BY <1>2
  <2> HIDE DEF a
  <2>2. Driver!Min({a, HeaderLen}) = IF a <= HeaderLen THEN a ELSE HeaderLen
    BY <2>1, DriverMin
  <2>3. QED BY <1>3, <2>2 DEF a
<1>6. header.rtnEvents[1] \in Nat
  BY DEF WriterInv, TypeOK
<1>7. ASSUME Len(file) >= HeaderLen PROVE EventsInOrder'
  <2>1. pos' = HeaderLen
    BY <1>2, <1>5, <1>7
  <2>2. Len(<<>>) = 0 /\ FlattenSeq(<<>>) = <<>>
    BY FlatEmpty
  <2>3. Start' = HeaderLen
    BY <1>2, <1>3, <1>4, <2>2 DEF Start
  <2>4. Left' = <<>>
    BY <1>3, <1>4 DEF Left
  <2>5. SubSeq(file, HeaderLen + 1, HeaderLen) = <<>>
    BY <1>2
  <2>6. AsRecorded \in Seq(Seq(Byte)) /\ Len(AsRecorded) \in Nat
    BY RecordedTypes, LenProperties
  <2>7. SubSeq(AsRecorded, 1, 0) = <<>>
    BY <2>6
  <2>8. /\ Len(aux_delivered') \in 0 .. Len(AsRecorded')
        /\ aux_delivered' = SubSeq(AsRecorded', 1, Len(aux_delivered'))
    BY <1>1, <1>3, <1>4, <2>2, <2>6, <2>7
  <2>9. Start' <= pos' /\ Left' = SubSeq(file', Start' + 1, pos')
    BY <1>1, <1>2, <2>1, <2>3, <2>4, <2>5
  <2>10. QED BY <2>8, <2>9 DEF EventsInOrder
<1>8. ASSUME Len(file) < HeaderLen PROVE NothingToRead'
  BY <1>1, <1>2, <1>3, <1>4, <1>5, <1>8 DEF NothingToRead
<1>9. pos' \in 0 .. Len(file) /\ (Len(file) >= HeaderLen => pos' = HeaderLen)
  BY <1>2, <1>5
<1>10. rtn_enter_events' \in Nat \cup {Unknown}
  BY <1>3, <1>6
<1>11. Len(file) >= HeaderLen => rtn_enter_events' = header.rtnEvents[1]
  BY <1>3, <1>9
<1>12. buf' = <<>> /\ buf' \in Seq(Byte) /\ Len(buf') <= BufSize
  BY <1>3, <1>4, EmptySeq
<1>13. IF Len(file') < HeaderLen THEN NothingToRead' ELSE EventsInOrder'
  BY <1>1, <1>2, <1>7, <1>8
<1>14. QED
  BY <1>1, <1>3, <1>4, <1>9, <1>10, <1>11, <1>12, <1>13 DEF DriverInv

\* driver_run_experiment: a read, which may return less than is asked for.
LEMMA DriverReadKeeps ==
  ASSUME ConstantsAssumption, WriterInv, DriverInv, phase \in {"closed", "killed"},
         Driver!Read, UNCHANGED vars
  PROVE  DriverInv'
<1>1. file' = file /\ header' = header /\ phase' = phase /\ AsRecorded' = AsRecorded
  BY TraceIsRead
<1>2. /\ mode = "reading" /\ mode' = "scanning" /\ at' = 1
      /\ rtn_enter_events' = rtn_enter_events /\ aux_delivered' = aux_delivered
  BY DEF Driver!Read
<1>3. PICK n \in 1 .. Driver!Min({BufSize - Len(buf), Len(file) - pos}) :
        buf' = buf \o SubSeq(file, pos + 1, pos + n) /\ pos' = pos + n
  BY DEF Driver!Read
<1>4. /\ file \in Seq(Byte) /\ Len(file) \in Nat /\ HeaderLen \in Nat /\ BufSize \in Nat
      /\ buf \in Seq(Byte) /\ Len(buf) \in Nat /\ pos \in 0 .. Len(file)
  BY FileStarts, HeaderHasLength, LenProperties, DriverWords DEF DriverInv
<1>5. n \in Nat \ {0} /\ Len(buf) + n <= BufSize /\ pos + n <= Len(file)
  <2> DEFINE a == BufSize - Len(buf)
             b == Len(file) - pos
  <2>1. a \in Int /\ b \in Int
    BY <1>4
  <2> HIDE DEF a, b
  <2>2. Driver!Min({a, b}) = IF a <= b THEN a ELSE b
    BY <2>1, DriverMin
  <2>3. n \in 1 .. Driver!Min({a, b})
    BY <1>3 DEF a, b
  <2>4. n \in Nat \ {0} /\ n <= a /\ n <= b
    BY <2>1, <2>2, <2>3
  <2>5. QED BY <1>4, <2>4 DEF a, b
<1>6. Len(file) >= HeaderLen
  BY <1>2, <1>4, <1>5 DEF DriverInv, NothingToRead
<1>7. /\ EventsInOrder /\ Start \in Nat /\ Start <= pos
      /\ Left \in Seq(Byte) /\ Len(Left) = pos - Start
  BY <1>2, <1>6, LeftBytes
<1>8. buf = SubSeq(file, Start + 1, pos)
  BY <1>2, <1>7 DEF EventsInOrder, Left
<1>9. buf' = SubSeq(file, Start + 1, pos + n)
  <2> DEFINE a == Start + 1
             c == pos + n
  <2>1. a \in Nat \ {0} /\ pos \in Nat /\ c \in Nat /\ a <= pos + 1 /\ pos <= c /\ c <= Len(file)
    BY <1>4, <1>5, <1>7
  <2>2. buf' = SubSeq(file, a, pos) \o SubSeq(file, pos + 1, c)
    BY <1>3, <1>8
  <2> HIDE DEF a, c
  <2>3. SubSeq(file, a, pos) \o SubSeq(file, pos + 1, c) = SubSeq(file, a, c)
    BY <1>4, <2>1, PartsMeet
  <2>4. QED BY <2>2, <2>3 DEF a, c
<1>10. buf' \in Seq(Byte) /\ Len(buf') = Len(buf) + n
  <2> DEFINE q == SubSeq(file, pos + 1, pos + n)
             a == pos + 1
             c == pos + n
  <2>1. a \in Nat \ {0} /\ c \in Nat /\ a <= c + 1 /\ c <= Len(file) /\ c - a + 1 = n
    BY <1>4, <1>5
  <2>2. q = SubSeq(file, a, c)
    OBVIOUS
  <2> HIDE DEF q, a, c
  <2>3. q \in Seq(Byte) /\ Len(q) = n
    BY <1>4, <2>1, <2>2, PartOfSeq
  <2>4. buf' = buf \o q
    BY <1>3 DEF q
  <2>5. buf \o q \in Seq(Byte) /\ Len(buf \o q) = Len(buf) + Len(q)
    BY <1>4, <2>3, ConcatProperties
  <2>6. QED BY <2>3, <2>4, <2>5
<1>11. Left' = buf'
  <2> DEFINE b == buf'
  <2>1. b \in Seq(Byte)
    BY <1>10
  <2> HIDE DEF b
  <2>2. SubSeq(b, 1, Len(b)) = b
    BY <2>1
  <2>3. QED BY <1>2, <2>2 DEF Left, b
<1>12. Start' = Start
  BY <1>2 DEF Start
<1>13. EventsInOrder'
  <2>1. Start' <= pos' /\ Left' = SubSeq(file', Start' + 1, pos')
    BY <1>1, <1>3, <1>4, <1>5, <1>7, <1>9, <1>11, <1>12
  <2>2. QED BY <1>1, <1>2, <1>7, <2>1 DEF EventsInOrder
<1>14. pos' \in 0 .. Len(file) /\ Len(buf') <= BufSize /\ at' \in 1 .. Len(buf') + 1
  BY <1>2, <1>3, <1>4, <1>5, <1>10
<1>15. ~ (Len(file') < HeaderLen)
  BY <1>1, <1>4, <1>6
<1>16. QED
  BY <1>1, <1>2, <1>6, <1>10, <1>13, <1>14, <1>15 DEF DriverInv

\* Where analyze_buffer stands, an event of the trace starts.
LEMMA EventIsScanned ==
  ASSUME ConstantsAssumption, WriterInv, DriverInv, mode = "scanning", at <= Len(buf)
  PROVE  /\ Len(file) >= HeaderLen /\ Start < Len(file)
         /\ Len(buf) \in Nat /\ at \in Nat \ {0} /\ Len(Left) = Len(buf) - at + 1
         /\ \A j \in 1 .. Len(buf) - at + 1 : Left[j] = buf[at + j - 1]
         /\ buf[at] = file[Start + 1] /\ Left[1] = buf[at]
         /\ EventAt(Start, AsRecorded[Len(aux_delivered) + 1])
<1>1. /\ buf \in Seq(Byte) /\ Len(buf) \in Nat /\ at \in Nat \ {0}
  <2>1. buf \in Seq(Byte) /\ at \in 1 .. Len(buf) + 1
    BY DEF DriverInv
  <2>2. Len(buf) \in Nat
    BY <2>1
  <2>3. QED BY <2>1, <2>2
<1>2. /\ Left \in Seq(Byte) /\ Len(Left) = Len(buf) - at + 1
      /\ \A j \in 1 .. Len(buf) - at + 1 : Left[j] = buf[at + j - 1]
  <2> DEFINE n == Len(buf)
  <2>1. n \in Nat /\ at <= n + 1 /\ n <= Len(buf) /\ Left = SubSeq(buf, at, n)
    BY <1>1 DEF Left
  <2>2. /\ SubSeq(buf, at, n) \in Seq(Byte) /\ Len(SubSeq(buf, at, n)) = n - at + 1
        /\ \A j \in 1 .. n - at + 1 : SubSeq(buf, at, n)[j] = buf[at + j - 1]
    <3> HIDE DEF n
    <3>1. QED BY <1>1, <2>1, PartOfSeq
  <2>3. QED BY <2>1, <2>2
<1>3. Len(file) >= HeaderLen
  <2>1. Len(file) \in Nat /\ HeaderLen \in Nat
    BY FileStarts, HeaderHasLength, LenProperties DEF DriverInv
  <2>2. QED BY <2>1 DEF DriverInv, NothingToRead
<1>4. /\ Start \in Nat /\ pos \in Nat /\ pos <= Len(file) /\ Len(file) \in Nat /\ Len(Left) = pos - Start
      /\ \A j \in 1 .. pos - Start : Left[j] = file[Start + j]
      /\ Start < Len(file) => EventAt(Start, AsRecorded[Len(aux_delivered) + 1])
  BY <1>3, LeftBytes
<1>5. Start < Len(file) /\ 1 \in 1 .. pos - Start /\ 1 \in 1 .. Len(buf) - at + 1
  BY <1>1, <1>2, <1>4
<1>6. Left[1] = file[Start + 1]
  BY <1>4, <1>5
<1>7. Left[1] = buf[at]
  <2>1. at + 1 - 1 = at
    BY <1>1
  <2>2. QED BY <1>2, <1>5, <2>1
<1>8. QED BY <1>1, <1>2, <1>3, <1>4, <1>5, <1>6, <1>7

\* read returns 0: with less than an event in the buffer, it has room.
LEMMA DriverEndKeeps ==
  ASSUME ConstantsAssumption, WriterInv, DriverInv, phase \in {"closed", "killed"},
         Driver!EndOfFile, UNCHANGED vars
  PROVE  DriverInv'
<1>1. file' = file /\ header' = header /\ phase' = phase /\ AsRecorded' = AsRecorded
  BY TraceIsRead
<1>2. /\ mode = "reading" /\ mode' = "done" /\ buf' = buf /\ pos' = pos /\ at' = at
      /\ rtn_enter_events' = rtn_enter_events /\ aux_delivered' = aux_delivered
      /\ pos = Len(file) \/ Len(buf) = BufSize
  BY DEF Driver!EndOfFile
<1>3. /\ file \in Seq(Byte) /\ Len(file) \in Nat /\ HeaderLen \in Nat
      /\ BufSize \in Nat /\ BufSize >= EventLen("RTN_ENTER_CS")
      /\ buf \in Seq(Byte) /\ Len(buf) \in Nat
  BY FileStarts, HeaderHasLength, LenProperties, DriverWords DEF DriverInv
<1>4. pos = Len(file)
  <2> SUFFICES ASSUME Len(buf) = BufSize, pos # Len(file) PROVE FALSE
    BY <1>2
  <2>1. Len(file) >= HeaderLen
    BY <1>2, <1>3 DEF DriverInv, NothingToRead
  <2>2. /\ Start \in Nat /\ pos \in Nat /\ pos <= Len(file) /\ Start <= pos /\ Len(Left) = pos - Start
        /\ \A j \in 1 .. pos - Start : Left[j] = file[Start + j]
        /\ Start < Len(file) => EventAt(Start, AsRecorded[Len(aux_delivered) + 1])
    BY <1>2, <2>1, LeftBytes
  <2>3. Left = buf
    BY <1>2 DEF Left
  <2>4. EventAt(Start, AsRecorded[Len(aux_delivered) + 1])
    BY <1>3, <2>2
  <2>5. EventLen(file[Start + 1][1]) \in Nat \ {0} /\ EventLen(file[Start + 1][1]) <= BufSize
    <3> DEFINE n == EventLen(file[Start + 1][1])
               m == EventLen("RTN_ENTER_CS")
    <3>1. n \in Nat \ {0} /\ n <= m /\ m <= BufSize
      BY <1>3, <2>4 DEF EventAt
    <3>2. m \in Nat
      BY DEF EventLen, ConstantsAssumption, WordAssumption
    <3> HIDE DEF n, m
    <3>3. n <= BufSize
      BY <1>3, <3>1, <3>2
    <3>4. QED BY <3>1, <3>3 DEF n
  <2>6. Len(buf) # 0
    BY <1>3, <2>5
  <2>7. buf # <<>> /\ 1 \in 1 .. pos - Start
    BY <1>3, <2>2, <2>3, <2>6
  <2>8. buf[1] = file[Start + 1]
    BY <2>2, <2>3, <2>7
  <2>9. Len(buf) < EventLen(file[Start + 1][1])
    BY <1>2, <2>7, <2>8 DEF DriverInv
  <2> DEFINE n == EventLen(file[Start + 1][1])
  <2> HIDE DEF n
  <2>10. n \in Nat /\ n <= BufSize /\ Len(buf) < n
    BY <2>5, <2>9 DEF n
  <2>11. QED BY <1>3, <2>10
<1>5. Left' = Left /\ Start' = Start
  BY <1>2 DEF Left, Start
<1>6. EventsInOrder => EventsInOrder'
  BY <1>1, <1>2, <1>5 DEF EventsInOrder
<1>7. NothingToRead => NothingToRead'
  BY <1>1, <1>2 DEF NothingToRead
<1>8. QED
  BY <1>1, <1>2, <1>4, <1>6, <1>7 DEF DriverInv

\* analyze_buffer, when the whole buffer was analyzed.
LEMMA DriverAnalyzedKeeps ==
  ASSUME ConstantsAssumption, WriterInv, DriverInv, phase \in {"closed", "killed"},
         Driver!Analyzed, UNCHANGED vars
  PROVE  DriverInv'
<1>1. file' = file /\ header' = header /\ phase' = phase /\ AsRecorded' = AsRecorded
  BY TraceIsRead
<1>2. /\ mode = "scanning" /\ at > Len(buf) /\ mode' = "reading" /\ buf' = <<>> /\ pos' = pos
      /\ rtn_enter_events' = rtn_enter_events /\ aux_delivered' = aux_delivered
  BY DEF Driver!Analyzed
<1>3. Left' = Left /\ Start' = Start
  <2>1. buf \in Seq(Byte) /\ at \in 1 .. Len(buf) + 1
    BY <1>2 DEF DriverInv
  <2>2. Len(buf) \in Nat
    BY <2>1
  <2>3. at \in Nat \ {0} /\ at = Len(buf) + 1
    BY <1>2, <2>1, <2>2
  <2>4. SubSeq(buf, at, Len(buf)) = <<>>
    BY <2>1, <2>2, <2>3
  <2>5. QED BY <1>2, <2>4 DEF Left, Start
<1>4. EventsInOrder'
  <2>1. Len(file) >= HeaderLen /\ EventsInOrder
    <3>1. Len(file) \in Nat /\ HeaderLen \in Nat
      BY FileStarts, HeaderHasLength, LenProperties
    <3>2. QED BY <1>2, <3>1 DEF DriverInv, NothingToRead
  <2>2. QED BY <1>1, <1>2, <1>3, <2>1 DEF EventsInOrder
<1>5. Len(<<>>) = 0 /\ BufSize \in Nat
  BY DriverWords
<1>6. ~ (Len(file) < HeaderLen)
  BY <1>2 DEF DriverInv, NothingToRead
<1>7. QED
  BY <1>1, <1>2, <1>4, <1>5, <1>6, EmptySeq DEF DriverInv

\* analyze_buffer, when the end of the buffer cuts an event.
LEMMA DriverCarryKeeps ==
  ASSUME ConstantsAssumption, WriterInv, DriverInv, phase \in {"closed", "killed"},
         Driver!Carry, UNCHANGED vars
  PROVE  DriverInv'
<1>1. file' = file /\ header' = header /\ phase' = phase /\ AsRecorded' = AsRecorded
  BY TraceIsRead
<1>2. /\ mode = "scanning" /\ at <= Len(buf) /\ mode' = "reading" /\ buf' = SubSeq(buf, at, Len(buf))
      /\ pos' = pos
      /\ rtn_enter_events' = rtn_enter_events /\ aux_delivered' = aux_delivered
      /\ ~ (Len(buf) - at >= EventLen(buf[at][1]) - 1)
  BY DriverWords DEF Driver!Carry, Driver!Whole
<1>3. /\ Len(file) >= HeaderLen /\ Len(buf) \in Nat /\ at \in Nat \ {0}
      /\ Len(Left) = Len(buf) - at + 1 /\ Left[1] = buf[at] /\ buf[at] = file[Start + 1]
      /\ EventAt(Start, AsRecorded[Len(aux_delivered) + 1])
  BY <1>2, EventIsScanned
<1>4. Left \in Seq(Byte) /\ EventsInOrder
  BY <1>2, <1>3, LeftBytes
<1>5. buf' = Left /\ Left' = Left /\ Start' = Start
  BY <1>2 DEF Left, Start
<1>6. EventsInOrder'
  BY <1>1, <1>2, <1>4, <1>5 DEF EventsInOrder
<1>7. Len(Left) < EventLen(Left[1][1])
  <2> DEFINE n == EventLen(buf[at][1])
  <2>1. n \in Nat
    BY <1>3 DEF EventAt
  <2>2. ~ (Len(buf) - at >= n - 1)
    BY <1>2
  <2> HIDE DEF n
  <2>3. Len(Left) < n
    BY <1>3, <2>1, <2>2
  <2>4. QED BY <1>3, <2>3 DEF n
<1>8. Len(Left) <= BufSize
  <2>1. Len(buf) <= BufSize /\ BufSize \in Nat
    BY DriverWords DEF DriverInv
  <2>2. QED BY <1>3, <2>1
<1>9. ~ (Len(file) < HeaderLen)
  BY <1>2 DEF DriverInv, NothingToRead
<1>10. QED
  BY <1>1, <1>2, <1>4, <1>5, <1>6, <1>7, <1>8, <1>9 DEF DriverInv

\* analyze_buffer hands over a whole event.
LEMMA DriverDeliverKeeps ==
  ASSUME ConstantsAssumption, WriterInv, DriverInv, phase \in {"closed", "killed"},
         Driver!Deliver, UNCHANGED vars
  PROVE  DriverInv'
<1> DEFINE k == Len(aux_delivered)
           b == AsRecorded[k + 1]
           n == EventLen(buf[at][1])
<1>1. file' = file /\ header' = header /\ phase' = phase /\ AsRecorded' = AsRecorded
  BY TraceIsRead
<1>2. /\ mode = "scanning" /\ at <= Len(buf) /\ mode' = mode /\ buf' = buf /\ pos' = pos
      /\ Len(buf) - at >= n - 1
      /\ aux_delivered' = Append(aux_delivered, SubSeq(buf, at, at + n - 1))
      /\ at' = at + n
      /\ rtn_enter_events' = rtn_enter_events
  BY DriverWords DEF Driver!Deliver, Driver!Whole
<1>3. /\ Len(file) >= HeaderLen /\ Len(buf) \in Nat /\ at \in Nat \ {0} /\ Start < Len(file)
      /\ Len(Left) = Len(buf) - at + 1
      /\ \A j \in 1 .. Len(buf) - at + 1 : Left[j] = buf[at + j - 1]
      /\ buf[at] = file[Start + 1] /\ EventAt(Start, b)
  BY <1>2, EventIsScanned
<1>4. /\ EventsInOrder /\ Start \in Nat /\ pos \in Nat /\ pos <= Len(file) /\ Len(file) \in Nat
      /\ file \in Seq(Byte) /\ HeaderLen \in Nat
      /\ Len(Left) = pos - Start /\ \A j \in 1 .. pos - Start : Left[j] = file[Start + j]
      /\ k < Len(AsRecorded)
  BY <1>2, <1>3, LeftBytes
<1>5. /\ b \in Seq(Byte) /\ Len(b) = n /\ n \in Nat \ {0}
      /\ \A j \in 1 .. n : Start + j <= Len(file) => file[Start + j] = b[j]
  BY <1>3 DEF EventAt
<1>6. buf \in Seq(Byte)
  BY DEF DriverInv
<1>7. k \in Nat /\ aux_delivered = SubSeq(AsRecorded, 1, k) /\ AsRecorded \in Seq(Seq(Byte))
      /\ Len(AsRecorded) \in Nat
  <2>1. AsRecorded \in Seq(Seq(Byte)) /\ Len(AsRecorded) \in Nat
    BY RecordedTypes, LenProperties
  <2>2. QED BY <1>4, <2>1 DEF EventsInOrder
<1> HIDE DEF k, b, n
<1>8. /\ pos \in Nat /\ Start \in Nat /\ Len(buf) \in Nat /\ at \in Nat \ {0}
      /\ n \in Nat \ {0} /\ Len(file) \in Nat /\ pos <= Len(file)
      /\ pos - Start = Len(buf) - at + 1 /\ at + n <= Len(buf) + 1 /\ Start + n <= pos
  <2>1. /\ pos \in Nat /\ Start \in Nat /\ Len(buf) \in Nat /\ at \in Nat \ {0}
        /\ n \in Nat \ {0} /\ Len(file) \in Nat /\ pos <= Len(file)
    BY <1>3, <1>4, <1>5, Zenon
  <2>2. Len(buf) - at >= n - 1
    BY <1>2, Zenon
  <2>3. pos - Start = Len(buf) - at + 1
    BY <1>3, <1>4, Zenon
  <2> DEFINE l == Len(buf)
             m == Len(file)
  <2> HIDE DEF l, m
  <2>4. /\ pos \in Nat /\ Start \in Nat /\ l \in Nat /\ at \in Nat \ {0} /\ n \in Nat \ {0}
        /\ l - at >= n - 1 /\ pos - Start = l - at + 1
    BY <2>1, <2>2, <2>3 DEF l
  <2>5. at + n <= l + 1 /\ Start + n <= pos
    BY <2>4
  <2>6. QED BY <2>1, <2>3, <2>5 DEF l
<1>9. SubSeq(buf, at, at + n - 1) = b
  <2> DEFINE c == at + n - 1
             p == SubSeq(buf, at, c)
  <2>1. c \in Nat /\ at <= c + 1 /\ c <= Len(buf) /\ c - at + 1 = n
    BY <1>8
  <2> HIDE DEF c
  <2>2. /\ p \in Seq(Byte) /\ Len(p) = c - at + 1
        /\ \A j \in 1 .. c - at + 1 : p[j] = buf[at + j - 1]
    BY <1>3, <1>6, <2>1, PartOfSeq
  <2> HIDE DEF p
  <2>3. ASSUME NEW j \in 1 .. n PROVE p[j] = b[j]
    <3>1. j \in 1 .. pos - Start /\ j \in 1 .. Len(buf) - at + 1 /\ Start + j <= Len(file)
      BY <1>8
    <3>2. p[j] = Left[j]
      BY <1>3, <2>1, <2>2, <3>1
    <3>3. Left[j] = b[j]
      BY <1>4, <1>5, <3>1
    <3>4. QED BY <3>2, <3>3
  <2>4. p = b
    BY <1>5, <2>1, <2>2, <2>3, SeqEqual
  <2>5. QED BY <2>4 DEF p, c
<1>10. /\ Len(aux_delivered') = k + 1
       /\ aux_delivered' = SubSeq(AsRecorded, 1, k + 1)
  <2>1. b = AsRecorded[k + 1] /\ aux_delivered' = Append(aux_delivered, b)
    BY <1>2, <1>9 DEF b
  <2>2. 1 <= k + 1 /\ k + 1 \in 1 .. Len(AsRecorded)
    BY <1>4, <1>7
  <2>3. SubSeq(AsRecorded, 1, k + 1) = Append(SubSeq(AsRecorded, 1, k), AsRecorded[k + 1])
    <3> DEFINE u == SubSeq(AsRecorded, 1, k)
               v == SubSeq(AsRecorded, 1, k + 1)
               w == AsRecorded[k + 1]
    <3>1. u \in Seq(Seq(Byte)) /\ Len(u) = k /\ \A i \in 1 .. k : u[i] = AsRecorded[i]
      BY <1>4, <1>7
    <3>2. v \in Seq(Seq(Byte)) /\ Len(v) = k + 1 /\ \A i \in 1 .. k + 1 : v[i] = AsRecorded[i]
      BY <1>4, <1>7
    <3>3. w \in Seq(Byte)
      BY <1>7, <2>2
    <3> HIDE DEF u, v
    <3>4. Append(u, w) \in Seq(Seq(Byte)) /\ Len(Append(u, w)) = k + 1
          /\ \A i \in 1 .. k + 1 : Append(u, w)[i] = IF i = k + 1 THEN w ELSE u[i]
      BY <1>7, <3>1, <3>3
    <3>5. \A i \in 1 .. k + 1 : Append(u, w)[i] = v[i]
      <4>1. TAKE i \in 1 .. k + 1
      <4>2. i = k + 1 \/ i \in 1 .. k
        BY <1>7
      <4>3. QED BY <1>7, <3>1, <3>2, <3>4, <4>2
    <3> DEFINE x == Append(u, w)
    <3>6. x \in Seq(Seq(Byte)) /\ Len(x) = Len(v) /\ \A i \in 1 .. Len(v) : x[i] = v[i]
      BY <3>2, <3>4, <3>5
    <3> HIDE DEF x, w
    <3>7. x = v
      BY <3>2, <3>6, SeqEqual
    <3>8. QED BY <3>7 DEF x, u, v, w
  <2>4. aux_delivered' = SubSeq(AsRecorded, 1, k + 1)
    BY <1>7, <2>1, <2>3
  <2>5. Len(SubSeq(AsRecorded, 1, k + 1)) = k + 1
    BY <1>7, <2>2
  <2>6. QED BY <2>4, <2>5
<1>11. Start' = Start + n
  <2>1. aux_delivered \in Seq(Seq(Byte)) /\ aux_delivered' = Append(aux_delivered, b)
    BY <1>2, <1>4, <1>7, <1>9
  <2>2. FlattenSeq(aux_delivered') = FlattenSeq(aux_delivered) \o b
        /\ FlattenSeq(aux_delivered) \in Seq(Byte)
    BY <1>5, <2>1, FlattenStepwise, FlattenType
  <2>3. Len(FlattenSeq(aux_delivered')) = Len(FlattenSeq(aux_delivered)) + n
        /\ Len(FlattenSeq(aux_delivered)) \in Nat
    BY <1>5, <2>2, ConcatProperties, LenProperties
  <2>4. HeaderLen' = HeaderLen
    BY DEF HeaderLen
  <2>5. QED BY <1>4, <1>5, <2>3, <2>4 DEF Start
<1>12. Left' = SubSeq(file, Start + n + 1, pos)
  <2> DEFINE a == at + n
             m == Len(buf)
             l == SubSeq(buf, a, m)
             d == Start + n + 1
             r == SubSeq(file, d, pos)
             z == m - a + 1
  <2>1. Left' = l
    BY <1>2 DEF Left
  <2>2. a \in Nat \ {0} /\ m \in Nat /\ a <= m + 1 /\ m <= Len(buf) /\ z \in Nat
    BY <1>8
  <2>3. d \in Nat \ {0} /\ d <= pos + 1 /\ pos - d + 1 = z
    BY <1>8
  <2>4. \A j \in 1 .. z : /\ j + n \in 1 .. pos - Start /\ j + n \in 1 .. Len(buf) - at + 1
                          /\ a + j - 1 = at + (j + n) - 1 /\ d + j - 1 = Start + (j + n)
    BY <1>8
  <2> HIDE DEF a, m, d
  <2>5. l \in Seq(Byte) /\ Len(l) = z /\ \A j \in 1 .. z : l[j] = buf[a + j - 1]
    BY <1>6, <2>2, PartOfSeq
  <2>6. /\ r \in Seq(Byte) /\ Len(r) = pos - d + 1
        /\ \A j \in 1 .. pos - d + 1 : r[j] = file[d + j - 1]
    BY <1>4, <2>3, PartOfSeq
  <2> HIDE DEF l, r, z
  <2>7. ASSUME NEW j \in 1 .. z PROVE l[j] = r[j]
    <3>1. l[j] = buf[at + (j + n) - 1] /\ r[j] = file[Start + (j + n)]
      BY <2>3, <2>4, <2>5, <2>6
    <3>2. Left[j + n] = buf[at + (j + n) - 1]
      BY <1>3, <2>4
    <3>3. Left[j + n] = file[Start + (j + n)]
      BY <1>4, <2>4
    <3>4. QED BY <3>1, <3>2, <3>3
  <2>8. l = r
    BY <2>3, <2>5, <2>6, <2>7, SeqEqual
  <2>9. QED BY <2>1, <2>8 DEF r, d
<1>13. EventsInOrder'
  <2>1. Len(aux_delivered') \in 0 .. Len(AsRecorded')
    BY <1>1, <1>4, <1>7, <1>10
  <2>2. aux_delivered' = SubSeq(AsRecorded', 1, Len(aux_delivered'))
    BY <1>1, <1>10
  <2>3. Start' <= pos' /\ Left' = SubSeq(file', Start' + 1, pos')
    BY <1>1, <1>2, <1>8, <1>11, <1>12
  <2>4. QED BY <2>1, <2>2, <2>3 DEF EventsInOrder
<1>14. at' \in 1 .. Len(buf') + 1
  <2>1. at' = at + n /\ Len(buf') = Len(buf)
    BY <1>2
  <2>2. at + n \in 1 .. Len(buf) + 1
    BY <1>8
  <2>3. QED BY <2>1, <2>2
<1>15. ~ (Len(file) < HeaderLen)
  BY <1>3, <1>4
<1>16. QED
  BY <1>1, <1>2, <1>3, <1>6, <1>13, <1>14, <1>15 DEF DriverInv

-----------------------------------------------------------------------------
(* The program under Pin, its trace and the driver.                        *)

\* The header says what the writer counted.
PinToolInv ==
  /\ WriterInv /\ DriverInv
  /\ phase = "closed" => header.rtnEvents = rtnEvents
  /\ LibrariesPush => StackInv

\* The invariant of the driver gives what is promised of a trace.
LEMMA DriverInvMeans ==
  ASSUME ConstantsAssumption, WriterInv, DriverInv, phase = "closed" => header.rtnEvents = rtnEvents
  PROVE  Driver!TypeOK /\ RecordedIsDelivered
<1> DEFINE k == Len(aux_delivered)
<1>1. file \in Seq(Byte) /\ Len(file) \in Nat /\ HeaderLen \in Nat
  BY HeaderHasLength, LenProperties DEF WriterInv, TypeOK
<1>2. Driver!TypeOK
  BY DEF DriverInv, Driver!TypeOK
<1>3. Driver!TypeByteFirst
  <2> SUFFICES ASSUME mode = "scanning", at <= Len(buf) PROVE buf[at][3] = 0
    BY DEF Driver!TypeByteFirst
  <2>1. buf[at] = file[Start + 1] /\ EventAt(Start, AsRecorded[k + 1])
    BY EventIsScanned
  <2>2. QED BY <2>1 DEF EventAt
<1> DEFINE head == SubSeq(file, 1, Driver!Min({Len(file), Driver!HeaderLen}))
           rest == SubSeq(file, pos + 1, Len(file))
           flat == FlattenSeq(aux_delivered)
<1>4. ASSUME mode \in {"reading", "scanning", "done"}
      PROVE  ((head \o flat) \o Left) \o rest = file
  <2>1. Driver!Min({Len(file), Driver!HeaderLen}) = IF Len(file) <= HeaderLen THEN Len(file) ELSE HeaderLen
    <3> DEFINE a == Len(file)
    <3>1. a \in Int /\ HeaderLen \in Int
      BY <1>1
    <3> HIDE DEF a
    <3>2. Driver!Min({a, HeaderLen}) = IF a <= HeaderLen THEN a ELSE HeaderLen
      BY <3>1, DriverMin
    <3>3. QED BY <3>2, DriverWords DEF a
  <2>2. CASE Len(file) < HeaderLen
    <3>1. pos = Len(file) /\ Left = <<>> /\ flat = <<>>
      BY <1>4, <2>2, FlatEmpty DEF DriverInv, NothingToRead, Left
    <3>2. head = file /\ rest = <<>>
      BY <1>1, <2>1, <2>2, <3>1
    <3> HIDE DEF head, rest, flat
    <3>3. file \o <<>> = file
      BY <1>1, ConcatEmptySeq
    <3>4. QED BY <3>1, <3>2, <3>3
  <2>3. CASE ~ (Len(file) < HeaderLen)
    <3>1. /\ EventsInOrder /\ Start \in Nat /\ pos \in Nat /\ pos <= Len(file) /\ Start <= pos
          /\ flat \in Seq(Byte) /\ \A j \in 1 .. Len(flat) : file[HeaderLen + j] = flat[j]
      <4>1. Len(file) >= HeaderLen
        BY <1>1, <2>3
      <4>2. QED BY <1>4, <4>1, LeftBytes, Zenon
    <3>2. Start = HeaderLen + Len(flat) /\ Left = SubSeq(file, Start + 1, pos)
      BY <3>1 DEF EventsInOrder, Start
    <3>3. head = SubSeq(file, 1, HeaderLen)
      <4>1. Driver!Min({Len(file), Driver!HeaderLen}) = HeaderLen
        <5> DEFINE a == Len(file)
        <5>1. a \in Nat /\ ~ (a < HeaderLen) /\ HeaderLen \in Nat
          BY <1>1, <2>3
        <5> HIDE DEF a
        <5>2. (IF a <= HeaderLen THEN a ELSE HeaderLen) = HeaderLen
          BY <5>1
        <5>3. QED BY <2>1, <5>2 DEF a
      <4>2. QED BY <4>1
    <3>4. flat = SubSeq(file, HeaderLen + 1, Start)
      <4> DEFINE a == HeaderLen + 1
                 p == SubSeq(file, a, Start)
      <4>1. a \in Nat \ {0} /\ a <= Start + 1 /\ Start <= Len(file) /\ Start - a + 1 = Len(flat)
        BY <1>1, <3>1, <3>2
      <4>2. \A j \in 1 .. Len(flat) : a + j - 1 = HeaderLen + j
        BY <1>1
      <4> HIDE DEF a, flat
      <4>3. /\ p \in Seq(Byte) /\ Len(p) = Start - a + 1
            /\ \A j \in 1 .. Start - a + 1 : p[j] = file[a + j - 1]
        BY <1>1, <3>1, <4>1, PartOfSeq
      <4> HIDE DEF p
      <4>4. Len(p) = Len(flat) /\ \A j \in 1 .. Len(flat) : p[j] = flat[j]
        BY <3>1, <4>1, <4>2, <4>3
      <4>5. p = flat
        BY <3>1, <4>3, <4>4, SeqEqual
      <4>6. QED BY <4>5 DEF p, a
    <3>5. head \o flat = SubSeq(file, 1, Start)
      <4>1. 1 \in Nat \ {0} /\ 1 <= HeaderLen + 1 /\ HeaderLen <= Start /\ Start <= Len(file)
        BY <1>1, <3>1, <3>2
      <4>2. SubSeq(file, 1, HeaderLen) \o SubSeq(file, HeaderLen + 1, Start) = SubSeq(file, 1, Start)
        BY <1>1, <3>1, <4>1, PartsMeet
      <4>3. QED BY <3>3, <3>4, <4>2
    <3>6. (head \o flat) \o Left = SubSeq(file, 1, pos)
      <4>1. 1 \in Nat \ {0} /\ 1 <= Start + 1
        BY <3>1
      <4>2. SubSeq(file, 1, Start) \o SubSeq(file, Start + 1, pos) = SubSeq(file, 1, pos)
        BY <1>1, <3>1, <4>1, PartsMeet
      <4>3. QED BY <3>2, <3>5, <4>2
    <3>7. SubSeq(file, 1, pos) \o rest = file
      <4> DEFINE n == Len(file)
      <4>1. 1 \in Nat \ {0} /\ 1 <= pos + 1 /\ n \in Nat /\ pos <= n /\ n <= Len(file)
        BY <1>1, <3>1
      <4>2. SubSeq(file, 1, n) = file
        BY <1>1
      <4> HIDE DEF n
      <4>3. SubSeq(file, 1, pos) \o SubSeq(file, pos + 1, n) = SubSeq(file, 1, n)
        BY <1>1, <3>1, <4>1, PartsMeet
      <4>4. QED BY <4>2, <4>3 DEF n
    <3>8. QED BY <3>6, <3>7
  <2>4. QED BY <2>2, <2>3
<1>5. mode = "done" => pos = Len(file) /\ (buf # <<>> => Len(buf) < EventLen(buf[1][1]))
  BY DEF DriverInv
<1>6. Driver!NothingSkipped
  <2>1. Driver!FlattenSeq(aux_delivered) = FlattenSeq(aux_delivered)
        /\ Driver!EventLen(buf[1][1]) = EventLen(buf[1][1])
    BY DriverWords
  <2>2. QED BY <1>4, <1>5, <2>1 DEF Driver!NothingSkipped, Left
<1>7. Driver!ScanIsInStep
  BY <1>3, <1>6 DEF Driver!ScanIsInStep
<1>8. AsRecorded \in Seq(Seq(Byte)) /\ Len(AsRecorded) \in Nat
  BY RecordedTypes, LenProperties
<1>9. k \in 0 .. Len(AsRecorded) /\ aux_delivered = SubSeq(AsRecorded, 1, k)
  <2>1. CASE mode \in {"reading", "scanning", "done"} /\ ~ (Len(file) < HeaderLen)
    BY <2>1 DEF DriverInv, EventsInOrder
  <2>2. CASE ~ (mode \in {"reading", "scanning", "done"} /\ ~ (Len(file) < HeaderLen))
    <3>1. aux_delivered = <<>>
      BY <2>2 DEF DriverInv, NothingToRead
    <3>2. QED BY <1>8, <3>1
  <2>3. QED BY <2>1, <2>2
<1>10. IsPrefix(aux_delivered, AsRecorded)
  <2>1. k \in Nat /\ k <= Len(AsRecorded)
    BY <1>8, <1>9
  <2>2. SubSeq(aux_delivered, 1, k) = aux_delivered
    <3>1. aux_delivered \in Seq(Seq(Byte))
      <4>1. SubSeq(AsRecorded, 1, k) \in Seq(Seq(Byte))
        <5> HIDE DEF k
        <5>1. k \in Nat /\ 1 <= k + 1 /\ 1 \in Nat \ {0}
          BY <2>1
        <5>2. QED BY <1>8, <2>1, <5>1, PartOfSeq
      <4>2. QED BY <1>9, <4>1
    <3>2. QED BY <3>1
  <2>3. QED BY <1>9, <2>1, <2>2 DEF IsPrefix
<1>11. ASSUME mode = "done", phase = "closed"
       PROVE  aux_delivered = AsRecorded /\ rtn_enter_events = rtnEvents[1]
  <2>1. Len(file) >= HeaderLen
    <3>1. k \in Nat /\ 0 \in 0 .. Len(AsRecorded) /\ HeaderLen + 0 = HeaderLen
      BY <1>1, <1>8, <1>9
    <3>2. file = FlattenSeq(HeaderPieces) \o FlattenSeq(AsRecorded)
      BY <1>11, FileStarts, RecordedTypes
    <3>3. FlattenSeq(HeaderPieces) \in Seq(Byte) /\ FlattenSeq(AsRecorded) \in Seq(Byte)
          /\ Len(FlattenSeq(HeaderPieces)) = HeaderLen
      BY <1>8, RecordedTypes, HeaderHasLength, FlattenType
    <3>4. Len(file) = HeaderLen + Len(FlattenSeq(AsRecorded)) /\ Len(FlattenSeq(AsRecorded)) \in Nat
      BY <3>2, <3>3, ConcatProperties, LenProperties
    <3>5. QED BY <1>1, <3>4
  <2>2. rtn_enter_events = rtnEvents[1]
    BY <1>11, <2>1 DEF DriverInv
  <2>3. k = Len(AsRecorded)
    <3> SUFFICES ASSUME k # Len(AsRecorded) PROVE FALSE
      OBVIOUS
    <3> DEFINE b == AsRecorded[k + 1]
    <3>1. k < Len(AsRecorded)
      BY <1>8, <1>9
    <3>2. /\ Start \in Nat /\ Len(Left) = pos - Start /\ pos = Len(file)
          /\ \A j \in 1 .. pos - Start : Left[j] = file[Start + j]
          /\ Start < Len(file) => EventAt(Start, b)
          /\ Start + Len(b) <= Len(file)
      BY <1>5, <1>11, <2>1, <3>1, LeftBytes
    <3>3. Len(b) \in Nat \ {0}
      <4>1. k + 1 \in 1 .. Len(AsRecorded)
        BY <1>8, <1>9, <3>1
      <4> DEFINE e == aux_events[k + 1]
      <4>2. e \in Event /\ b = FlattenSeq(Pieces(e))
        BY <4>1, RecordedTypes
      <4> HIDE DEF e, b
      <4>3. Len(b) = EventLen(e[1]) /\ EventLen(e[1]) \in Nat \ {0}
        BY <4>2, EventHasLength
      <4>4. QED BY <4>3
    <3> HIDE DEF b
    <3>4. Start < Len(file)
      BY <1>1, <3>2, <3>3
    <3>5. Len(b) = EventLen(file[Start + 1][1])
      BY <3>2, <3>4 DEF EventAt
    <3>6. Left = buf /\ 1 \in 1 .. pos - Start
      BY <1>1, <1>11, <3>2, <3>4 DEF Left
    <3>7. buf[1] = file[Start + 1] /\ Len(buf) = Len(file) - Start
      BY <3>2, <3>6
    <3>8. buf # <<>>
      BY <1>1, <3>2, <3>4, <3>7
    <3>9. Len(buf) < Len(b)
      BY <1>5, <1>11, <3>5, <3>7, <3>8
    <3>10. QED BY <1>1, <3>2, <3>3, <3>7, <3>9
  <2>4. SubSeq(AsRecorded, 1, Len(AsRecorded)) = AsRecorded
    BY <1>8
  <2>5. QED BY <1>9, <2>2, <2>3, <2>4
<1>12. QED BY <1>2, <1>7, <1>10, <1>11 DEF RecordedIsDelivered, AsRecorded

\* Nothing is recorded after the end, and the header has the counts of the writer.
LEMMA AfterTheEnd ==
  ASSUME Next, phase = "closed" => header.rtnEvents = rtnEvents
  PROVE  /\ phase \in {"closed", "killed"} =>
              UNCHANGED <<phase, file, header, rtnEvents, aux_events>>
         /\ phase' = "closed" => header'.rtnEvents = rtnEvents'
<1>1. CASE TimerTick
  BY <1>1 DEF TimerTick, threadVars
<1>2. CASE Open
  BY <1>2 DEF Open
<1>3. CASE RtnEnter(rtnEvents[1] + 1)
  BY <1>3 DEF RtnEnter
<1>4. CASE RtnExit
  BY <1>4 DEF RtnExit
<1>5. CASE Write
  BY <1>5 DEF Write
<1>6. CASE SwapAndWrite
  BY <1>6 DEF SwapAndWrite
<1>7. CASE DumpStart
  BY <1>7 DEF DumpStart, threadVars
<1>8. CASE DumpWrite
  BY <1>8 DEF DumpWrite, threadVars
<1>9. CASE DumpEnd
  BY <1>9 DEF DumpEnd, threadVars
<1>10. CASE Close
  BY <1>10 DEF Close
<1>11. CASE Kill
  BY <1>11 DEF Kill
<1>12. QED
  BY <1>1, <1>2, <1>3, <1>4, <1>5, <1>6, <1>7, <1>8, <1>9, <1>10, <1>11 DEF Next

\* What the invariant of the driver is about.
LEMMA DriverStutter ==
  ASSUME DriverInv, UNCHANGED <<driverVars, phase, file, header, aux_events>>
  PROVE  DriverInv'
<1>1. /\ mode' = mode /\ pos' = pos /\ buf' = buf /\ at' = at
      /\ rtn_enter_events' = rtn_enter_events /\ aux_delivered' = aux_delivered
      /\ phase' = phase /\ file' = file /\ header' = header /\ AsRecorded' = AsRecorded
  BY DEF driverVars, AsRecorded
<1>2. Left' = Left /\ Start' = Start
  BY <1>1 DEF Left, Start
<1>3. EventsInOrder' <=> EventsInOrder
  BY <1>1, <1>2 DEF EventsInOrder
<1>4. NothingToRead' <=> NothingToRead
  BY <1>1 DEF NothingToRead
<1>5. QED BY <1>1, <1>3, <1>4 DEF DriverInv

\* Every step keeps the invariant.
LEMMA PinToolStep ==
  ASSUME ConstantsAssumption, PinToolInv, [PinToolNext]_<<part, vars, driverVars, stackVars>>
  PROVE  PinToolInv'
<1>0. /\ WriterInv /\ DriverInv /\ (phase = "closed" => header.rtnEvents = rtnEvents)
      /\ (LibrariesPush => StackInv)
  BY DEF PinToolInv
<1>1. CASE Next /\ Recording
  <2>1. WriterInv'
    BY <1>0, <1>1, WriterKeeps
  <2>2. UNCHANGED driverVars /\ UNCHANGED stackVars
    BY <1>1 DEF Recording
  <2>3. /\ phase \in {"closed", "killed"} =>
             UNCHANGED <<phase, file, header, rtnEvents, aux_events>>
        /\ phase' = "closed" => header'.rtnEvents = rtnEvents'
    BY <1>0, <1>1, AfterTheEnd
  <2>4. DriverInv'
    <3>1. CASE mode = "new"
      <4>1. file' \in Seq(Byte)
        BY <2>1 DEF WriterInv, TypeOK
      <4>2. QED BY <1>0, <2>2, <3>1, <4>1, NothingReadYet
    <3>2. CASE mode # "new"
      <4>1. phase \in {"closed", "killed"}
        BY <1>0, <3>2 DEF DriverInv
      <4>2. UNCHANGED <<driverVars, phase, file, header, aux_events>>
        BY <2>2, <2>3, <4>1
      <4>3. QED BY <1>0, <4>2, DriverStutter
    <3>3. QED BY <3>1, <3>2
  <2>5. LibrariesPush => StackInv'
    BY <1>0, <2>2, StackStutter
  <2>6. QED BY <2>1, <2>3, <2>4, <2>5 DEF PinToolInv
<1>2. CASE phase \in {"closed", "killed"} /\ Driver!Next /\ UNCHANGED <<part, vars, stackVars>>
  <2>1. UNCHANGED vars /\ UNCHANGED stackVars
    BY <1>2
  <2>2. WriterInv'
    BY <1>0, <2>1, StutterStep
  <2>3. DriverInv'
    <3>1. phase \in {"closed", "killed"} /\ UNCHANGED vars
      BY <1>2
    <3>2. CASE Driver!Open
      BY <1>0, <3>1, <3>2, DriverOpenKeeps
    <3>3. CASE Driver!Read
      BY <1>0, <3>1, <3>3, DriverReadKeeps
    <3>4. CASE Driver!EndOfFile
      BY <1>0, <3>1, <3>4, DriverEndKeeps
    <3>5. CASE Driver!Deliver
      BY <1>0, <3>1, <3>5, DriverDeliverKeeps
    <3>6. CASE Driver!Carry
      BY <1>0, <3>1, <3>6, DriverCarryKeeps
    <3>7. CASE Driver!Analyzed
      BY <1>0, <3>1, <3>7, DriverAnalyzedKeeps
    <3>8. QED BY <1>2, <3>2, <3>3, <3>4, <3>5, <3>6, <3>7 DEF Driver!Next
  <2>4. LibrariesPush => StackInv'
    BY <1>0, <2>1, StackStutter
  <2>5. phase' = phase /\ header' = header /\ rtnEvents' = rtnEvents
    BY <2>1 DEF vars, threadVars
  <2>6. QED BY <1>0, <2>2, <2>3, <2>4, <2>5 DEF PinToolInv
<1>3. ASSUME [StackNext]_stackVars, UNCHANGED vars, UNCHANGED driverVars PROVE PinToolInv'
  <2>1. WriterInv'
    BY <1>0, <1>3, StutterStep
  <2>2. phase' = phase /\ header' = header /\ rtnEvents' = rtnEvents /\ file' = file
        /\ aux_events' = aux_events
    BY <1>3 DEF vars, threadVars
  <2>3. DriverInv'
    <3>1. UNCHANGED <<driverVars, phase, file, header, aux_events>>
      BY <1>3, <2>2
    <3>2. QED BY <1>0, <3>1, DriverStutter
  <2>4. LibrariesPush => StackInv'
    BY <1>0, <1>3, StackStep
  <2>5. QED BY <1>0, <2>1, <2>2, <2>3, <2>4 DEF PinToolInv
<1>4. CASE StackNext /\ UNCHANGED <<part, vars, driverVars>>
  <2>1. UNCHANGED vars /\ UNCHANGED driverVars /\ [StackNext]_stackVars
    BY <1>4
  <2>2. QED BY <1>3, <2>1
<1>5. CASE UNCHANGED <<part, vars, driverVars, stackVars>>
  <2>1. UNCHANGED vars /\ UNCHANGED driverVars /\ [StackNext]_stackVars
    BY <1>5
  <2>2. QED BY <1>3, <2>1
<1>6. QED BY <1>1, <1>2, <1>4, <1>5 DEF PinToolNext

\* The invariant holds in every state of the tool, its trace and the driver.
THEOREM PinToolInvariance == PinTool => []PinToolInv
<1>1. PinToolInit => PinToolInv
  <2> SUFFICES ASSUME PinToolInit PROVE PinToolInv
    OBVIOUS
  <2>1. Init /\ Driver!Init /\ StackInit
    BY DEF PinToolInit
  <2>2. WriterInv /\ DriverInv /\ StackInv
    BY <2>1, ConstantsAssumption, InitWriter, DriverStarts, StackStart
  <2>3. phase # "closed"
    BY <2>1 DEF Init
  <2>4. QED BY <2>2, <2>3 DEF PinToolInv
<1>2. PinToolInv /\ [PinToolNext]_<<part, vars, driverVars, stackVars>> => PinToolInv'
  BY ConstantsAssumption, PinToolStep
<1>3. QED
  BY <1>1, <1>2, PTL DEF PinTool

\* TraceWriter.cpp and driver.c: what the algorithm is called with is what was
\* recorded, event by event and in order, however the reads cut the trace and wherever
\* the traced process was killed; of a closed trace it is all that was recorded, and
\* the number of routines entered that it was told is right.
THEOREM TraceIsDelivered == PinTool => []RecordedIsDelivered
<1>1. PinToolInv => RecordedIsDelivered
  BY ConstantsAssumption, DriverInvMeans DEF PinToolInv
<1>2. QED
  BY <1>1, PinToolInvariance, PTL

\* Every variable of the tool and of the driver has its type, and no buffer overflows.
THEOREM ToolTypeCorrectness == LibrariesPush => (PinTool => []TypesOK)
<1> SUFFICES ASSUME LibrariesPush PROVE PinTool => []TypesOK
  OBVIOUS
<1>1. PinToolInv => TypesOK
  BY ConstantsAssumption, DriverInvMeans DEF PinToolInv, TypesOK, WriterInv, StackInv
<1>2. QED
  BY <1>1, PinToolInvariance, PTL
=============================================================================
