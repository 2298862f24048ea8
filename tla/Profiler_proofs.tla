-------------------------- MODULE Profiler_proofs --------------------------
(***************************************************************************)
(* Proofs about the profiler in a process, for every number of threads,    *)
(* blocks and calls: the pool of blocks is an allocator, no dump destroys  *)
(* another, the tree under adaptive bursting is sound whatever the timer   *)
(* does, threads that keep their trees behind a key dump them, and the     *)
(* trees of the time profiler account for the time.                        *)
(***************************************************************************)
EXTENDS MCProfiler, CallingContexts_proofs, FiniteSetTheorems, NaturalsInduction

(* Pool: the free list is sound, and the pool is an Allocator, for every   *)
(* page size and any number of pages.                                      *)

PoolInv == PoolTypeOK /\ FreeOrHeld /\ PagesBounded

-----------------------------------------------------------------------------
(* Pages and blocks.                                                       *)

\* A block that was carved belongs to one of the pages of the chain.
LEMMA CarvedBlocks ==
  ASSUME PoolTypeOK, NEW b
  PROVE  b \in Carved <=> \E k \in 1 .. pages, i \in 0 .. PageSize - 1 : b = <<k, i>>
  BY DEF Carved, Page

\* Every carved block is a block, and NullBlock is none.
LEMMA CarvedAreBlocks ==
  ASSUME PoolTypeOK
  PROVE  Carved \subseteq Block /\ NullBlock \notin Block
<1>1. NullBlock \notin Block
  BY PoolAssumption DEF Block
<1>2. pages \in Nat /\ pages <= MaxPages
  BY PoolAssumption DEF PoolTypeOK
<1>3. ASSUME NEW b \in Carved PROVE b \in Block
  BY <1>2, <1>3, CarvedBlocks, PoolAssumption DEF Block
<1>4. QED BY <1>1, <1>3

\* The page AddPage adds: its first block, and the rest in the order of the list.
LEMMA NewPage ==
  ASSUME PoolTypeOK, NEW k \in Nat, k = pages + 1
  PROVE  /\ Carved \cap Page(k) = {}
         /\ <<k, 0>> \in Page(k)
         /\ \A b \in Page(k) \ {<<k, 0>>} : b[1] = k /\ b[2] \in 1 .. PageSize - 1 /\ b = <<k, b[2]>>
         /\ \A i \in 1 .. PageSize - 1 : <<k, i>> \in Page(k) \ {<<k, 0>>}
<1>1. pages \in Nat
  BY PoolAssumption DEF PoolTypeOK
<1>2. Carved \cap Page(k) = {}
  BY <1>1, CarvedBlocks DEF Page
<1>3. PageSize \in Nat \ {0, 1}
  BY PoolAssumption
<1>4. QED BY <1>2, <1>3 DEF Page

\* A list without free blocks is empty, and otherwise its head is free.
LEMMA HeadOfList ==
  ASSUME PoolInv
  PROVE  /\ freeList = NullBlock <=> aux_free = <<>>
         /\ freeList # NullBlock => /\ Len(aux_free) >= 1
                               /\ freeList = aux_free[1]
                               /\ freeList \in Carved \ allocated
<1>1. aux_free \in Seq(Block) /\ NullBlock \notin Block
  BY CarvedAreBlocks DEF PoolInv, PoolTypeOK
<1>2. freeList = IF 1 \in 1 .. Len(aux_free) THEN aux_free[1] ELSE NullBlock
  BY DEF PoolInv, FreeOrHeld, Linked
<1>3. CASE aux_free = <<>>
  BY <1>1, <1>2, <1>3
<1>4. CASE aux_free # <<>>
  <2>1. 1 \in 1 .. Len(aux_free) /\ aux_free[1] \in Block
    BY <1>1, <1>4
  <2>2. aux_free[1] \in Carved \ allocated
    BY <2>1 DEF PoolInv, FreeOrHeld
  <2>3. QED BY <1>1, <1>2, <1>4, <2>1, <2>2
<1>5. QED BY <1>3, <1>4

\* Taking a block keeps aux_peak a number, which is at least the blocks in use.
LEMMA TakeProperties ==
  ASSUME PoolTypeOK, NEW b \in Block, Take(b)
  PROVE  /\ IsFiniteSet(Carved) /\ Cardinality(Carved) = pages * PageSize
         /\ IsFiniteSet(allocated')
         /\ aux_peak' \in Nat /\ aux_peak' >= aux_peak
         /\ aux_peak' >= Cardinality(allocated')
<1>1. pages \in Nat /\ PageSize \in Nat /\ PageSize >= 2
  BY PoolAssumption DEF PoolTypeOK
<1>2. Carved = (1 .. pages) \X (0 .. PageSize - 1)
  BY CarvedBlocks
<1>3. /\ IsFiniteSet(1 .. pages) /\ Cardinality(1 .. pages) = pages
      /\ IsFiniteSet(0 .. PageSize - 1) /\ Cardinality(0 .. PageSize - 1) = PageSize
  <2>1. IsFiniteSet(1 .. pages) /\ Cardinality(1 .. pages) = IF 1 > pages THEN 0 ELSE pages - 1 + 1
    <3>1. 1 \in Int /\ pages \in Int
      BY <1>1
    <3>2. QED
      BY <3>1, FS_Interval, Zenon
  <2>2. /\ IsFiniteSet(0 .. PageSize - 1)
        /\ Cardinality(0 .. PageSize - 1) = IF 0 > PageSize - 1 THEN 0 ELSE PageSize - 1 - 0 + 1
    <3>1. PageSize - 1 \in Int /\ 0 \in Int
      BY <1>1
    <3>2. QED
      BY <3>1, FS_Interval, Zenon
  <2>3. QED
    BY <1>1, <2>1, <2>2
<1>4. IsFiniteSet(Carved) /\ Cardinality(Carved) = pages * PageSize
  <2> DEFINE A == 1 .. pages
             B == 0 .. PageSize - 1
  <2>1. IsFiniteSet(A \X B) /\ Cardinality(A \X B) = Cardinality(A) * Cardinality(B)
    <3>1. IsFiniteSet(A) /\ IsFiniteSet(B)
      BY <1>3
    <3> HIDE DEF A, B
    <3>2. QED
      BY <3>1, FS_Product, Zenon
  <2>2. QED
    BY <1>2, <1>3, <2>1, Zenon
<1>5. IsFiniteSet(allocated)
  BY <1>4, FS_Subset DEF PoolTypeOK
<1>6. allocated' = allocated \cup {b}
  BY DEF Take
<1>7. IsFiniteSet(allocated') /\ Cardinality(allocated') \in Nat
  BY <1>5, <1>6, FS_AddElement, FS_CardinalityType
<1>8. aux_peak' = IF Cardinality(allocated') > aux_peak THEN Cardinality(allocated') ELSE aux_peak
  BY <1>6 DEF Take
<1>9. QED
  BY <1>4, <1>7, <1>8 DEF PoolTypeOK

-----------------------------------------------------------------------------
(* The invariant.                                                          *)

\* An empty pool has no pages.
LEMMA PoolInitInvariant == PoolInit => PoolInv
<1>1. SUFFICES ASSUME PoolInit PROVE PoolInv
  OBVIOUS
<1>2. Carved = {}
  BY <1>1 DEF PoolInit, Carved
<1>3. PoolTypeOK
  BY <1>1, <1>2, PoolAssumption DEF PoolInit, PoolTypeOK
<1>4. FreeOrHeld /\ PagesBounded
  BY <1>1, <1>2 DEF PoolInit, FreeOrHeld, Linked, PagesBounded
<1>5. QED
  BY <1>3, <1>4 DEF PoolInv

\* Taking the head of the list.
LEMMA PopFreeInvariant ==
  ASSUME PoolInv, freeList # NullBlock, PopFree
  PROVE  PoolInv'
<1> DEFINE n == Len(aux_free)
<1>1. /\ aux_free \in Seq(Block) /\ n \in Nat /\ n >= 1
      /\ freeList = aux_free[1] /\ freeList \in Carved \ allocated
      /\ NullBlock \notin Block /\ Carved \subseteq Block
  BY HeadOfList, CarvedAreBlocks DEF PoolInv, PoolTypeOK
<1>2. /\ aux_free' \in Seq(Block)
      /\ Len(aux_free') = n - 1
      /\ \A i \in 1 .. n - 1 : aux_free'[i] = aux_free[i + 1]
  <2>1. aux_free' = [i \in 1 .. n - 1 |-> aux_free[i + 1]]
    BY DEF PopFree
  <2>2. n - 1 \in Nat /\ \A i \in 1 .. n - 1 : aux_free[i + 1] \in Block
    BY <1>1
  <2>3. QED
    BY <2>1, <2>2
<1>3. Carved' = Carved
  BY DEF PopFree, Carved, Page
<1>4. allocated' = allocated \cup {freeList} /\ out' = freeList
  BY DEF PopFree, Take
<1>5. aux_peak' \in Nat /\ aux_peak' >= aux_peak
  BY <1>1, TakeProperties DEF PoolInv, PopFree
<1>6. PoolTypeOK'
  BY <1>1, <1>2, <1>3, <1>4, <1>5 DEF PoolInv, PoolTypeOK, PopFree
<1>7. Linked(aux_free)'
  <2>1. freeList' = IF 1 \in 1 .. n - 1 THEN aux_free'[1] ELSE NullBlock
    <3>1. freeList' = link[aux_free[1]] /\ 1 \in 1 .. n
      BY <1>1 DEF PopFree
    <3>2. freeList' = IF 2 \in 1 .. n THEN aux_free[2] ELSE NullBlock
      BY <3>1 DEF PoolInv, FreeOrHeld, Linked
    <3>3. QED
      BY <1>1, <1>2, <3>2
  <2>2. ASSUME NEW i \in 1 .. n - 1
        PROVE  link'[aux_free'[i]] = IF i + 1 \in 1 .. n - 1 THEN aux_free'[i + 1] ELSE NullBlock
    <3>1. i + 1 \in 1 .. n /\ 1 \in 1 .. n /\ i + 1 # 1 /\ aux_free'[i] = aux_free[i + 1]
      BY <1>1, <1>2
    <3>2. aux_free[i + 1] # freeList /\ aux_free[i + 1] \in Block
      BY <1>1, <3>1 DEF PoolInv, FreeOrHeld
    <3>3. link'[aux_free[i + 1]] = link[aux_free[i + 1]]
      BY <3>2 DEF PoolInv, PoolTypeOK, PopFree
    <3>4. link[aux_free[i + 1]] = IF i + 1 + 1 \in 1 .. n THEN aux_free[i + 1 + 1] ELSE NullBlock
      BY <3>1 DEF PoolInv, FreeOrHeld, Linked
    <3>5. QED
      BY <1>1, <1>2, <3>1, <3>3, <3>4
  <2>3. QED
    BY <1>2, <2>1, <2>2 DEF Linked
<1>8. \A i, j \in 1 .. Len(aux_free') : aux_free'[i] = aux_free'[j] => i = j
  <2>1. SUFFICES ASSUME NEW i \in 1 .. n - 1, NEW j \in 1 .. n - 1, aux_free'[i] = aux_free'[j]
                 PROVE  i = j
    BY <1>2
  <2>2. i + 1 \in 1 .. n /\ j + 1 \in 1 .. n /\ aux_free[i + 1] = aux_free[j + 1]
    BY <1>1, <1>2, <2>1
  <2>3. i + 1 = j + 1
    BY <2>2 DEF PoolInv, FreeOrHeld
  <2>4. QED
    BY <2>3
<1>9. {aux_free'[i] : i \in 1 .. Len(aux_free')} = Carved' \ allocated'
  <2>1. ASSUME NEW x \in Carved' \ allocated'
        PROVE  \E i \in 1 .. n - 1 : x = aux_free'[i]
    <3>1. PICK j \in 1 .. n : x = aux_free[j]
      BY <1>3, <1>4, <2>1 DEF PoolInv, FreeOrHeld
    <3>2. j # 1
      BY <1>1, <1>4, <2>1, <3>1
    <3>3. j - 1 \in 1 .. n - 1 /\ aux_free'[j - 1] = x
      BY <1>1, <1>2, <3>1, <3>2
    <3>4. QED
      BY <3>3
  <2>2. ASSUME NEW i \in 1 .. n - 1
        PROVE  aux_free'[i] \in Carved' \ allocated'
    <3>1. i + 1 \in 1 .. n /\ 1 \in 1 .. n /\ i + 1 # 1
      BY <1>1
    <3>2. aux_free[i + 1] \in Carved \ allocated /\ aux_free[i + 1] # aux_free[1]
      BY <3>1 DEF PoolInv, FreeOrHeld
    <3>3. QED
      BY <1>1, <1>2, <1>3, <1>4, <3>2
  <2>3. QED
    BY <1>2, <2>1, <2>2
<1>10. PagesBounded'
  <2>1. pages \in Nat /\ PageSize \in Nat /\ aux_peak \in Nat
    BY PoolAssumption DEF PoolInv, PoolTypeOK
  <2>2. (pages - 1) * PageSize \in Int
    BY <2>1
  <2>3. QED
    BY <1>5, <2>1, <2>2 DEF PoolInv, PagesBounded, PopFree
<1>11. QED
  BY <1>6, <1>7, <1>8, <1>9, <1>10 DEF PoolInv, FreeOrHeld

\* Carving a page when the list is empty.
LEMMA AddPageInvariant ==
  ASSUME PoolInv, freeList = NullBlock, AddPage
  PROVE  PoolInv'
<1> DEFINE k == pages + 1
           new == [i \in 1 .. PageSize - 1 |-> <<k, PageSize - i>>]
<1>1. /\ pages \in Nat /\ MaxPages \in Nat /\ k \in 1 .. MaxPages /\ k \in Nat
      /\ PageSize \in Nat \ {0, 1}
      /\ NullBlock \notin Block /\ Carved \subseteq Block
  BY CarvedAreBlocks, PoolAssumption DEF PoolInv, PoolTypeOK, AddPage
<1>2. aux_free = <<>>
  BY HeadOfList
<1>3. allocated = Carved
  <2>1. 1 .. Len(aux_free) = {}
    BY <1>2
  <2>2. Carved \ allocated = {}
    BY <2>1, Zenon DEF PoolInv, FreeOrHeld
  <2>3. QED
    BY <2>2 DEF PoolInv, PoolTypeOK
<1>4. Page(k) \subseteq Block
  BY <1>1 DEF Page, Block
<1>5. new \in Seq(Block) /\ Len(new) = PageSize - 1
  <2>1. \A i \in 1 .. PageSize - 1 : <<k, PageSize - i>> \in Block
    BY <1>1 DEF Block
  <2>2. QED
    BY <1>1, <2>1
<1>6. aux_free' = new
  BY <1>2, <1>5 DEF AddPage
<1>7. Carved' = Carved \cup Page(k)
  BY <1>1 DEF Carved, Page, AddPage
<1>8. allocated' = Carved \cup {<<k, 0>>} /\ out' = <<k, 0>>
  BY <1>3 DEF AddPage, Take
<1>9. /\ Carved \cap Page(k) = {}
      /\ <<k, 0>> \in Page(k)
      /\ \A b \in Page(k) \ {<<k, 0>>} : b[1] = k /\ b[2] \in 1 .. PageSize - 1 /\ b = <<k, b[2]>>
      /\ \A i \in 1 .. PageSize - 1 : <<k, i>> \in Page(k) \ {<<k, 0>>}
  BY <1>1, NewPage DEF PoolInv
<1>10. Carved' \ allocated' = Page(k) \ {<<k, 0>>}
  BY <1>7, <1>8, <1>9
<1>11. <<k, 0>> \in Block
  BY <1>4, <1>9
<1>12. /\ aux_peak' \in Nat /\ aux_peak' > pages * PageSize
  <2>1. /\ IsFiniteSet(Carved) /\ Cardinality(Carved) = pages * PageSize
        /\ aux_peak' \in Nat /\ aux_peak' >= Cardinality(allocated')
    BY <1>11, TakeProperties DEF PoolInv, AddPage
  <2>2. <<k, 0>> \notin Carved
    BY <1>9
  <2>3. Cardinality(allocated') = pages * PageSize + 1
    BY <1>8, <2>1, <2>2, FS_AddElement
  <2>4. pages * PageSize \in Nat
    BY <2>1, FS_CardinalityType
  <2>5. QED
    BY <2>1, <2>3, <2>4
<1>13. link' \in [Block -> Block \cup {NullBlock}]
  <2>1. ASSUME NEW b \in Page(k) \ {<<k, 0>>}
        PROVE  <<k, b[2] - 1>> \in Block
    BY <1>1, <1>9, <2>1 DEF Block
  <2>2. link' = [b \in Block |-> IF b = <<k, 1>> THEN freeList
                                 ELSE IF b \in Page(k) \ {<<k, 0>>} THEN <<k, b[2] - 1>>
                                 ELSE link[b]]
    BY DEF AddPage, Carve
  <2>3. QED
    BY <2>1, <2>2 DEF PoolInv, PoolTypeOK
<1>14. freeList' \in Block
  BY <1>1 DEF AddPage, Block
<1>15. PoolTypeOK'
  <2>1. pages' \in 0 .. MaxPages
    BY <1>1 DEF AddPage
  <2>2. allocated' \subseteq Carved'
    BY <1>7, <1>8, <1>9
  <2>3. aux_free' \in Seq(Block)
    BY <1>5, <1>6
  <2>4. QED
    BY <1>8, <1>11, <1>12, <1>13, <1>14, <2>1, <2>2, <2>3 DEF PoolTypeOK
<1>16. Linked(aux_free)'
  <2>1. \A i \in 1 .. PageSize - 1 : aux_free'[i] = <<k, PageSize - i>>
    BY <1>6
  <2>2. Len(aux_free') = PageSize - 1
    BY <1>5, <1>6
  <2>3. freeList' = aux_free'[1] /\ 1 \in 1 .. Len(aux_free')
    BY <1>1, <2>1, <2>2 DEF AddPage
  <2>4. \A b \in Block : link'[b] = IF b = <<k, 1>> THEN NullBlock
                                    ELSE IF b \in Page(k) \ {<<k, 0>>} THEN <<k, b[2] - 1>>
                                    ELSE link[b]
    BY DEF AddPage, Carve
  <2>5. ASSUME NEW i \in 1 .. PageSize - 1
        PROVE  link'[aux_free'[i]] = IF i + 1 \in 1 .. PageSize - 1 THEN aux_free'[i + 1] ELSE NullBlock
    <3>1. PageSize - i \in 1 .. PageSize - 1
      BY <1>1
    <3>2. <<k, PageSize - i>> \in Page(k) \ {<<k, 0>>} /\ <<k, PageSize - i>> \in Block
      BY <1>4, <1>9, <3>1
    <3>3. CASE i = PageSize - 1
      <4>1. PageSize - i = 1 /\ i + 1 \notin 1 .. PageSize - 1
        BY <1>1, <3>3
      <4>2. aux_free'[i] = <<k, 1>>
        BY <2>1, <4>1
      <4>3. <<k, 1>> \in Block
        BY <3>2, <4>1
      <4>4. link'[<<k, 1>>] = NullBlock
        BY <2>4, <4>3
      <4>5. QED
        BY <4>1, <4>2, <4>4
    <3>4. CASE i # PageSize - 1
      <4>1. i + 1 \in 1 .. PageSize - 1 /\ PageSize - i # 1
        BY <1>1, <3>4
      <4>2. link'[aux_free'[i]] = <<k, PageSize - i - 1>>
        BY <2>1, <2>4, <3>2, <4>1
      <4>3. aux_free'[i + 1] = <<k, PageSize - (i + 1)>>
        BY <2>1, <4>1
      <4>4. QED
        BY <1>1, <4>1, <4>2, <4>3
    <3>5. QED
      BY <3>3, <3>4
  <2>6. QED
    BY <2>2, <2>3, <2>5 DEF Linked
<1>17. \A i, j \in 1 .. Len(aux_free') : aux_free'[i] = aux_free'[j] => i = j
  BY <1>1, <1>5, <1>6
<1>18. {aux_free'[i] : i \in 1 .. Len(aux_free')} = Carved' \ allocated'
  <2>1. ASSUME NEW b \in Page(k) \ {<<k, 0>>}
        PROVE  \E i \in 1 .. PageSize - 1 : b = <<k, PageSize - i>>
    <3>1. b = <<k, b[2]>> /\ b[2] \in 1 .. PageSize - 1
      BY <1>9
    <3>2. PageSize - b[2] \in 1 .. PageSize - 1 /\ PageSize - (PageSize - b[2]) = b[2]
      BY <1>1, <3>1
    <3>3. QED
      BY <3>1, <3>2
  <2>2. ASSUME NEW i \in 1 .. PageSize - 1
        PROVE  <<k, PageSize - i>> \in Page(k) \ {<<k, 0>>}
    BY <1>1, <1>9
  <2>3. QED
    <3>1. {aux_free'[i] : i \in 1 .. Len(aux_free')} = {<<k, PageSize - i>> : i \in 1 .. PageSize - 1}
      BY <1>5, <1>6
    <3>2. QED
      BY <1>10, <2>1, <2>2, <3>1
<1>19. PagesBounded'
  BY <1>1, <1>12 DEF PagesBounded, AddPage
<1>20. QED
  BY <1>15, <1>16, <1>17, <1>18, <1>19 DEF PoolInv, FreeOrHeld

\* Putting a block back at the head of the list.
LEMMA PoolFreeInvariant ==
  ASSUME PoolInv, NEW b \in allocated, PoolFree(b)
  PROVE  PoolInv'
<1> DEFINE n == Len(aux_free)
<1>1. /\ aux_free \in Seq(Block) /\ n \in Nat /\ b \in Block /\ b \in Carved
      /\ NullBlock \notin Block /\ Carved \subseteq Block
  BY CarvedAreBlocks DEF PoolInv, PoolTypeOK
<1>2. /\ aux_free' \in Seq(Block) /\ Len(aux_free') = n + 1
      /\ aux_free'[1] = b
      /\ \A i \in 1 .. n : aux_free'[i + 1] = aux_free[i]
      /\ \A i \in 2 .. n + 1 : aux_free'[i] = aux_free[i - 1]
  BY <1>1 DEF PoolFree
<1>3. Carved' = Carved /\ allocated' = allocated \ {b}
  BY DEF PoolFree, Carved, Page
<1>4. \A i \in 1 .. n : aux_free[i] \in Block /\ aux_free[i] # b
  BY <1>1 DEF PoolInv, FreeOrHeld
<1>5. link' = [link EXCEPT ![b] = freeList] /\ freeList' = b
  BY DEF PoolFree
<1>6. PoolTypeOK'
  BY <1>1, <1>2, <1>3, <1>5 DEF PoolInv, PoolTypeOK, PoolFree
<1>7. Linked(aux_free)'
  <2>1. freeList' = aux_free'[1] /\ 1 \in 1 .. n + 1
    BY <1>1, <1>2, <1>5
  <2>2. link'[b] = IF 1 \in 1 .. n THEN aux_free[1] ELSE NullBlock
    BY <1>1, <1>5 DEF PoolInv, PoolTypeOK, FreeOrHeld, Linked
  <2>3. ASSUME NEW i \in 1 .. n
        PROVE  link'[aux_free[i]] = IF i + 1 \in 1 .. n THEN aux_free[i + 1] ELSE NullBlock
    <3>1. link'[aux_free[i]] = link[aux_free[i]]
      BY <1>4, <1>5 DEF PoolInv, PoolTypeOK
    <3>2. QED
      BY <3>1 DEF PoolInv, FreeOrHeld, Linked
  <2>4. ASSUME NEW i \in 1 .. n + 1
        PROVE  link'[aux_free'[i]] = IF i + 1 \in 1 .. n + 1 THEN aux_free'[i + 1] ELSE NullBlock
    <3>1. CASE i = 1
      BY <1>1, <1>2, <2>2, <3>1
    <3>2. CASE i # 1
      <4>1. i - 1 \in 1 .. n /\ aux_free'[i] = aux_free[i - 1]
        BY <1>1, <1>2, <3>2
      <4>2. link'[aux_free'[i]] = IF i - 1 + 1 \in 1 .. n THEN aux_free[i - 1 + 1] ELSE NullBlock
        BY <2>3, <4>1
      <4>3. QED
        BY <1>1, <1>2, <4>1, <4>2
    <3>3. QED
      BY <3>1, <3>2
  <2>5. QED
    BY <1>2, <2>1, <2>4 DEF Linked
<1>8. \A i, j \in 1 .. n + 1 : aux_free'[i] = aux_free'[j] => i = j
  <2>1. ASSUME NEW i \in 1 .. n + 1, NEW j \in 1 .. n + 1, aux_free'[i] = aux_free'[j], i < j
        PROVE  FALSE
    <3>1. j - 1 \in 1 .. n /\ aux_free'[j] = aux_free[j - 1]
      BY <1>1, <1>2, <2>1
    <3>2. i # 1
      BY <1>2, <1>4, <2>1, <3>1
    <3>3. i - 1 \in 1 .. n /\ aux_free'[i] = aux_free[i - 1]
      BY <1>1, <1>2, <3>2
    <3>4. i - 1 = j - 1
      BY <2>1, <3>1, <3>3 DEF PoolInv, FreeOrHeld
    <3>5. QED
      BY <1>1, <2>1, <3>4
  <2>2. \A i, j \in 1 .. n + 1 : i < j \/ j < i \/ i = j
    BY <1>1
  <2>3. QED
    BY <2>1, <2>2
<1>9. {aux_free'[i] : i \in 1 .. n + 1} = Carved' \ allocated'
  <2>1. ASSUME NEW x \in Carved' \ allocated'
        PROVE  \E i \in 1 .. n + 1 : x = aux_free'[i]
    <3>1. CASE x = b
      BY <1>1, <1>2, <3>1
    <3>2. CASE x # b
      <4>1. PICK j \in 1 .. n : x = aux_free[j]
        BY <1>3, <2>1, <3>2 DEF PoolInv, FreeOrHeld
      <4>2. j + 1 \in 1 .. n + 1 /\ aux_free'[j + 1] = x
        BY <1>1, <1>2, <4>1
      <4>3. QED
        BY <4>2
    <3>3. QED
      BY <3>1, <3>2
  <2>2. ASSUME NEW i \in 1 .. n + 1
        PROVE  aux_free'[i] \in Carved' \ allocated'
    <3>1. CASE i = 1
      BY <1>1, <1>2, <1>3, <3>1
    <3>2. CASE i # 1
      <4>1. i - 1 \in 1 .. n /\ aux_free'[i] = aux_free[i - 1]
        BY <1>1, <1>2, <3>2
      <4>2. aux_free[i - 1] \in Carved \ allocated
        BY <4>1 DEF PoolInv, FreeOrHeld
      <4>3. QED
        BY <1>3, <4>1, <4>2
    <3>3. QED
      BY <3>1, <3>2
  <2>3. QED
    BY <2>1, <2>2
<1>10. PagesBounded'
  BY DEF PoolInv, PagesBounded, PoolFree
<1>11. QED
  BY <1>2, <1>6, <1>7, <1>8, <1>9, <1>10 DEF PoolInv, FreeOrHeld

\* Disposing of all the pages.
LEMMA PoolRenewInvariant ==
  ASSUME PoolInv, PoolRenew
  PROVE  PoolInv'
<1>1. Carved' = {}
  BY DEF PoolRenew, Carved
<1>2. PoolTypeOK'
  BY <1>1, PoolAssumption DEF PoolInv, PoolTypeOK, PoolRenew
<1>3. FreeOrHeld' /\ PagesBounded'
  BY <1>1 DEF PoolRenew, FreeOrHeld, Linked, PagesBounded
<1>4. QED
  BY <1>2, <1>3 DEF PoolInv

\* Steps that change nothing but the result.
LEMMA PoolUnchangedInvariant ==
  ASSUME PoolInv, UNCHANGED <<pages, link, freeList, allocated, aux_free, aux_peak>>,
         out' \in Block \cup {NullBlock}
  PROVE  PoolInv'
<1>1. Carved' = Carved
  BY DEF Carved, Page
<1>2. PoolTypeOK'
  BY <1>1 DEF PoolInv, PoolTypeOK
<1>3. FreeOrHeld' /\ PagesBounded'
  BY <1>1 DEF PoolInv, FreeOrHeld, Linked, PagesBounded
<1>4. QED
  BY <1>2, <1>3 DEF PoolInv

\* Every step preserves the invariant.
LEMMA PoolNextInvariant == PoolInv /\ [PoolNext]_poolVars => PoolInv'
<1>1. SUFFICES ASSUME PoolInv, [PoolNext]_poolVars PROVE PoolInv'
  OBVIOUS
<1>2. CASE PoolAlloc
  <2>1. CASE freeList # NullBlock /\ PopFree
    BY <1>1, <2>1, PopFreeInvariant
  <2>2. CASE freeList = NullBlock /\ AddPage
    BY <1>1, <2>2, AddPageInvariant
  <2>3. CASE freeList = NullBlock /\ OutOfMemory
    BY <1>1, <2>3, PoolUnchangedInvariant DEF OutOfMemory
  <2>4. QED
    BY <1>2, <2>1, <2>2, <2>3 DEF PoolAlloc
<1>3. CASE PoolRenew
  BY <1>1, <1>3, PoolRenewInvariant
<1>4. CASE \E b \in allocated : PoolFree(b)
  BY <1>1, <1>4, PoolFreeInvariant
<1>5. CASE UNCHANGED poolVars
  BY <1>1, <1>5, PoolUnchangedInvariant DEF poolVars, PoolInv, PoolTypeOK
<1>6. QED
  BY <1>1, <1>2, <1>3, <1>4, <1>5 DEF PoolNext

\* The invariant of the pool.
THEOREM PoolInvariance == PoolSpec => []PoolInv
  BY PoolInitInvariant, PoolNextInvariant, PTL DEF PoolSpec

\* The free list, and the pages behind it, keep to their types.
THEOREM PoolTypeCorrectness == PoolSpec => []PoolTypeOK
<1>1. PoolInv => PoolTypeOK
  BY DEF PoolInv
<1>2. QED
  BY PoolInvariance, <1>1, PTL

\* Each carved block is either held by the client or on the free list, once.
THEOREM FreeListIsSound == PoolSpec => []FreeOrHeld
<1>1. PoolInv => FreeOrHeld
  BY DEF PoolInv
<1>2. QED
  BY PoolInvariance, <1>1, PTL

\* The pool asks for a page only when its client holds all the blocks there are.
THEOREM MemoryIsReused == PoolSpec => []PagesBounded
<1>1. PoolInv => PagesBounded
  BY DEF PoolInv
<1>2. QED
  BY PoolInvariance, <1>1, PTL

-----------------------------------------------------------------------------
(* Refinement.                                                             *)

\* Every step of the pool is one of Allocator, or changes nothing it shows.
LEMMA StepRefinement == PoolInv /\ [PoolNext]_poolVars => [Abstract!Next]_Abstract!vars
<1>1. SUFFICES ASSUME PoolInv, PoolNext PROVE Abstract!Next \/ UNCHANGED Abstract!vars
  BY DEF poolVars, Abstract!vars
<1>2. Carved \subseteq Block /\ allocated \subseteq Block
  BY <1>1, CarvedAreBlocks DEF PoolInv, PoolTypeOK
<1>3. ASSUME freeList # NullBlock, PopFree
      PROVE  Abstract!Next
  <2>1. freeList \in Block /\ freeList \notin allocated
    BY <1>1, <1>2, <1>3, HeadOfList
  <2>2. Abstract!Alloc(freeList)
    BY <1>3, <2>1 DEF PopFree, Take, Abstract!Alloc
  <2>3. QED
    BY <2>1, <2>2 DEF Abstract!Next
<1>4. ASSUME AddPage
      PROVE  Abstract!Next
  <2> DEFINE b == <<pages + 1, 0>>
  <2>1. pages \in Nat /\ pages + 1 \in Nat /\ allocated \subseteq Carved
    BY <1>1, PoolAssumption DEF PoolInv, PoolTypeOK
  <2>2. b \notin allocated
    BY <1>1, <2>1, NewPage DEF PoolInv
  <2>3. b \in Block
    BY <1>4, <2>1, PoolAssumption DEF AddPage, Block
  <2>4. Abstract!Alloc(b)
    BY <1>4, <2>2 DEF AddPage, Take, Abstract!Alloc
  <2>5. QED
    BY <2>3, <2>4 DEF Abstract!Next
<1>5. ASSUME OutOfMemory
      PROVE  Abstract!Next
  BY <1>5 DEF OutOfMemory, Abstract!Next, Abstract!Fail
<1>6. ASSUME NEW b \in allocated, PoolFree(b)
      PROVE  Abstract!Next
  BY <1>2, <1>6 DEF PoolFree, Abstract!Next, Abstract!Free
<1>7. ASSUME PoolRenew
      PROVE  Abstract!Next
  BY <1>7 DEF PoolRenew, Abstract!Next, Abstract!Renew
<1>8. QED
  BY <1>1, <1>3, <1>4, <1>5, <1>6, <1>7 DEF PoolNext, PoolAlloc

\* pool_alloc never hands out a block that is in use.
THEOREM PoolIsAllocator == PoolSpec => ImplementsAllocator
<1>1. PoolInit => Abstract!Init
  BY DEF PoolInit, Abstract!Init
<1>2. QED
  BY <1>1, PoolInvariance, StepRefinement, PTL DEF PoolSpec, ImplementsAllocator, Abstract!Spec

-----------------------------------------------------------------------------
(* ProfiledProcess: no dump destroys another, for any number of threads    *)
(* and ids.                                                                *)

\* Every thread that was created has an id.
ThreadsHaveIds ==
  \A t \in Threads : tstate[t] # "unborn" => tidOf[t] \in Tids

\* The inductive invariant.
ProcessInv == ProcessTypeOK /\ ThreadsHaveIds /\ EndedThreadsHaveTrees

\* A dump leaves the tree of its thread, and those of all others, or fails.
LEMMA DumpProperties ==
  ASSUME ProcessTypeOK, NEW t \in Threads, tidOf[t] \in Tids,
         NEW next \in {"running", "exiting"}, Dump(t, next)
  PROVE  /\ process' \in {"running", "exiting", "failed"}
         /\ file' \in [Tids -> Threads \cup {Nobody}]
         /\ process' # "failed" => /\ HasTree(t)'
                                   /\ \A u \in Threads : HasTree(u) => HasTree(u)'
<1>1. Nobody \notin Threads
  BY ProcessAssumption
<1>2. CASE file[tidOf[t]] = Nobody
  <2>1. file' = [file EXCEPT ![tidOf[t]] = t] /\ process' = next
    BY <1>2 DEF Dump
  <2>2. file'[tidOf[t]] = t /\ \A id \in Tids \ {tidOf[t]} : file'[id] = file[id]
    BY <2>1 DEF ProcessTypeOK
  <2>3. QED
    BY <1>1, <1>2, <2>1, <2>2 DEF ProcessTypeOK, HasTree
<1>3. CASE file[tidOf[t]] # Nobody
  BY <1>3 DEF Dump, ProcessTypeOK
<1>4. QED
  BY <1>2, <1>3

\* At first there is one thread and no file.
LEMMA ProcessInitInvariant == ProcessInit => ProcessInv
  BY ProcessAssumption DEF ProcessInit, ProcessInv, ProcessTypeOK, ThreadsHaveIds, EndedThreadsHaveTrees

\* A dump of thread t, which ends it or finds it ended already.
LEMMA EndingInvariant ==
  ASSUME ProcessInv, NEW t \in Threads, tstate[t] \in {"running", "dumped"},
         process \in {"running", "exiting"},
         NEW next \in {"running", "exiting"}, Dump(t, next),
         tstate' = [tstate EXCEPT ![t] = "dumped"], tidOf' = tidOf
  PROVE  ProcessInv'
<1>1. tidOf[t] \in Tids
  BY DEF ProcessInv, ThreadsHaveIds
<1>2. /\ process' \in {"running", "exiting", "failed"}
      /\ file' \in [Tids -> Threads \cup {Nobody}]
      /\ process' # "failed" => /\ HasTree(t)'
                                /\ \A u \in Threads : HasTree(u) => HasTree(u)'
  BY <1>1, DumpProperties DEF ProcessInv
<1>3. ProcessTypeOK'
  BY <1>2 DEF ProcessInv, ProcessTypeOK
<1>4. ThreadsHaveIds'
  BY <1>1 DEF ProcessInv, ProcessTypeOK, ThreadsHaveIds
<1>5. ASSUME process' # "failed", NEW u \in Threads, tstate'[u] \in {"dumped", "gone"}
      PROVE  HasTree(u)'
  <2>1. CASE u = t
    BY <1>2, <1>5, <2>1
  <2>2. CASE u # t
    <3>1. tstate'[u] = tstate[u]
      BY <2>2 DEF ProcessInv, ProcessTypeOK
    <3>2. process # "failed"
      OBVIOUS
    <3>3. HasTree(u)
      BY <1>5, <3>1, <3>2 DEF ProcessInv, EndedThreadsHaveTrees
    <3>4. QED
      BY <1>2, <1>5, <3>3
  <2>3. QED
    BY <2>1, <2>2
<1>6. QED
  BY <1>3, <1>4, <1>5 DEF ProcessInv, EndedThreadsHaveTrees

\* Every step preserves the invariant.
LEMMA ProcessNextInvariant == ProcessInv /\ [ProcessNext]_processVars => ProcessInv'
<1>1. SUFFICES ASSUME ProcessInv, [ProcessNext]_processVars PROVE ProcessInv'
  OBVIOUS
<1>2. ASSUME NEW t \in Threads, Return(t)
      PROVE  ProcessInv'
  BY <1>1, <1>2, EndingInvariant DEF Return
<1>3. ASSUME NEW t \in Threads, PthreadExit(t)
      PROVE  ProcessInv'
  BY <1>1, <1>3, EndingInvariant DEF PthreadExit
<1>4. ASSUME NEW t \in Threads, TraceEnd(t)
      PROVE  ProcessInv'
  BY <1>1, <1>4, EndingInvariant DEF TraceEnd
<1>5. ASSUME NEW t \in Threads, LastThreadEnds(t)
      PROVE  ProcessInv'
  <2>1. tstate' = [tstate EXCEPT ![t] = "dumped"] /\ tidOf' = tidOf
    BY <1>1, <1>5 DEF LastThreadEnds, ProcessInv, ProcessTypeOK
  <2>2. QED
    BY <1>1, <1>5, <2>1, EndingInvariant DEF LastThreadEnds
<1>6. ASSUME NEW t \in Threads, ThreadEnds(t)
      PROVE  ProcessInv'
  <2>1. ProcessTypeOK' /\ ThreadsHaveIds'
    BY <1>1, <1>6 DEF ThreadEnds, ProcessInv, ProcessTypeOK, ThreadsHaveIds
  <2>2. \A u \in Threads : tstate'[u] \in {"dumped", "gone"} => tstate[u] \in {"dumped", "gone"}
    BY <1>1, <1>6 DEF ThreadEnds, ProcessInv, ProcessTypeOK
  <2>3. QED
    BY <1>1, <1>6, <2>1, <2>2 DEF ThreadEnds, ProcessInv, EndedThreadsHaveTrees, HasTree
<1>7. ASSUME NEW t \in Threads, NEW u \in Threads, NEW id \in Tids, Create(t, u, id)
      PROVE  ProcessInv'
  <2>1. ProcessTypeOK' /\ ThreadsHaveIds'
    BY <1>1, <1>7 DEF Create, ProcessInv, ProcessTypeOK, ThreadsHaveIds
  <2>2. \A v \in Threads : tstate'[v] \in {"dumped", "gone"} => tstate[v] \in {"dumped", "gone"}
    BY <1>1, <1>7 DEF Create, ProcessInv, ProcessTypeOK
  <2>3. QED
    BY <1>1, <1>7, <2>1, <2>2 DEF Create, ProcessInv, EndedThreadsHaveTrees, HasTree
<1>8. CASE ProcessEnds
  BY <1>1, <1>8 DEF ProcessEnds, ProcessInv, ProcessTypeOK, ThreadsHaveIds, EndedThreadsHaveTrees, HasTree
<1>9. CASE UNCHANGED processVars
  BY <1>1, <1>9 DEF processVars, ProcessInv, ProcessTypeOK, ThreadsHaveIds, EndedThreadsHaveTrees, HasTree
<1>10. QED
  BY <1>1, <1>2, <1>3, <1>4, <1>5, <1>6, <1>7, <1>8, <1>9 DEF ProcessNext

\* The state of threads, files and process keeps to its types.
THEOREM ProcessTypeCorrectness == ProcessSpec => []ProcessTypeOK
<1>1. ProcessInv => ProcessTypeOK
  BY DEF ProcessInv
<1>2. QED
  BY <1>1, ProcessInitInvariant, ProcessNextInvariant, PTL DEF ProcessSpec

\* O_EXCL protects the trees of ended threads from those that reuse their ids.
THEOREM TreesAreKept == ProcessSpec => []EndedThreadsHaveTrees
<1>1. ProcessInv => EndedThreadsHaveTrees
  BY DEF ProcessInv
<1>2. QED
  BY <1>1, ProcessInitInvariant, ProcessNextInvariant, PTL DEF ProcessSpec

-----------------------------------------------------------------------------
(* BurstCct: the tree under bursts, for every set of calls and every depth *)
(* of the stack. All events occur between trace_begin and trace_end.       *)

(* Counting.                                                               *)

\* Counted adds the contexts of X to the tree, and 1 to the count of each.
LEMMA CountedProperties ==
  ASSUME TypeOK, NEW X \in SUBSET Contexts, counter' = Counted(X)
  PROVE  /\ Nodes' = Nodes \cup X
         /\ \A x \in Nodes' : counter'[x] \in Nat \ {0}
         /\ \A x : CountOf(x)' = IF x \in X THEN CountOf(x) + 1 ELSE CountOf(x)
<1>1. Nodes' = Nodes \cup X
  BY DEF Counted, Nodes
<1>2. \A x \in Nodes' : counter'[x] = IF x \notin Nodes THEN 1
                                      ELSE IF x \in X THEN counter[x] + 1
                                      ELSE counter[x]
  BY <1>1 DEF Counted
<1>3. \A x \in Nodes : counter[x] \in Nat \ {0}
  BY DEF TypeOK
<1>4. QED
  BY <1>1, <1>2, <1>3 DEF CountOf

-----------------------------------------------------------------------------
(* The invariant.                                                          *)

\* Calls are only active during the trace, and were entered in it.  Before the
\* trace nothing was counted.
ActiveCallsCounted ==
  /\ aux_phase # "tracing" => aux_frames = Root
  /\ aux_phase = "before" => \A x \in Contexts : aux_freq[x] = 0 /\ aux_sampled[x] = 0
  /\ aux_phase = "tracing" => \A i \in 1 .. Len(shadow) : aux_freq[Prefix(shadow, i)] >= 1

\* During the trace the stack is on the root, which hcct_align relies on.
RootAtBottom ==
  aux_phase = "tracing" => stack[0] = Root /\ Root \in Nodes

ShadowInBounds == Len(shadow) < StackMaxDepth

IInv == /\ TypeOK
        /\ AlignedStackMirrorsCalls
        /\ CallersInTree
        /\ SampledCounts
        /\ ActiveCallsCounted
        /\ RootAtBottom
        /\ ShadowInBounds

\* The root is the context without calls; the bounds of the stack.
LEMMA RootProperties ==
  /\ Root \in Contexts /\ Len(Root) = 0
  /\ StackMaxDepth \in Nat \ {0, 1} /\ IdxMax \in Nat
<1>1. StackMaxDepth \in Nat \ {0, 1} /\ IdxMax \in Nat
  BY ConstantsAssumption
<1>2. Root \in Seq(Calls) /\ Len(Root) = 0
  BY DEF Root
<1>3. Len(Root) <= StackMaxDepth
  BY <1>1, <1>2
<1>4. Root \in Contexts
  BY <1>2, <1>3, ContextsAreSequences, Zenon
<1>5. QED
  BY <1>1, <1>2, <1>4

\* Before any event there is no tree.
LEMMA InitInvariant == Init => IInv
<1>1. SUFFICES ASSUME Init PROVE IInv
  OBVIOUS
<1>2. Root \in Contexts /\ Len(Root) = 0 /\ StackMaxDepth \in Nat \ {0, 1} /\ IdxMax \in Nat
  BY RootProperties
<1>3. Nodes = {} /\ shadow = Root /\ aux_frames = Root
  BY <1>1 DEF Init, Nodes, NoTree, Root
<1>4. TypeOK
  <2>1. stack \in [Slots -> Contexts \cup {Null}]
    BY <1>1 DEF Init
  <2>2. aux_freq \in [Contexts -> Nat] /\ aux_sampled \in [Contexts -> Nat]
    BY <1>1 DEF Init
  <2>3. stackIdx \in 0 .. IdxMax /\ events \in Nat
    BY <1>1, <1>2 DEF Init
  <2>4. aligned \in BOOLEAN /\ burstOn \in BOOLEAN /\ aux_phase = "before"
    BY <1>1 DEF Init
  <2>5. QED
    BY <1>2, <1>3, <2>1, <2>2, <2>3, <2>4 DEF TypeOK
<1>5. AlignedStackMirrorsCalls /\ CallersInTree /\ SampledCounts
  BY <1>1, <1>3 DEF Init, AlignedStackMirrorsCalls, CallersInTree, SampledCounts
<1>6. ActiveCallsCounted /\ RootAtBottom /\ ShadowInBounds
  BY <1>1, <1>2, <1>3 DEF Init, ActiveCallsCounted, RootAtBottom, ShadowInBounds
<1>7. QED
  BY <1>4, <1>5, <1>6 DEF IInv

\* hcct_init creates the root; nothing was counted before.
LEMMA TraceBeginInvariant ==
  ASSUME IInv, TraceBegin
  PROVE  IInv'
<1>1. Root \in Contexts /\ Len(Root) = 0 /\ StackMaxDepth \in Nat \ {0, 1} /\ IdxMax \in Nat
  BY RootProperties
<1>2. /\ Nodes' = {Root} /\ counter'[Root] = 1 /\ shadow' = Root /\ aux_frames' = Root
      /\ aux_phase' = "tracing" /\ stackIdx' = 0 /\ aligned' = TRUE /\ events' = 0
      /\ burstOn' \in BOOLEAN /\ aux_freq' = aux_freq /\ aux_sampled' = aux_sampled
  BY DEF TraceBegin, Nodes, Root
<1>3. stack' \in [Slots -> Contexts \cup {Null}] /\ stack'[0] = Root
  BY <1>1 DEF TraceBegin, IInv, TypeOK, Slots
<1>4. TypeOK'
  BY <1>1, <1>2, <1>3 DEF IInv, TypeOK
<1>5. AlignedStackMirrorsCalls'
  <2>1. Prefix(Root, 0) = Root
    BY <1>1, WholePrefix
  <2>2. QED
    BY <1>1, <1>2, <1>3, <2>1 DEF AlignedStackMirrorsCalls
<1>6. CallersInTree'
  BY <1>2 DEF CallersInTree
<1>7. SampledCounts'
  <2>1. \A x \in Contexts : aux_freq[x] = 0 /\ aux_sampled[x] = 0
    BY DEF TraceBegin, IInv, ActiveCallsCounted
  <2>2. QED
    BY <1>2, <2>1 DEF SampledCounts, CountOf
<1>8. ActiveCallsCounted' /\ RootAtBottom' /\ ShadowInBounds'
  BY <1>1, <1>2, <1>3 DEF ActiveCallsCounted, RootAtBottom, ShadowInBounds
<1>9. QED
  BY <1>4, <1>5, <1>6, <1>7, <1>8 DEF IInv

\* After the dump there is no tree again.
LEMMA HcctDumpInvariant ==
  ASSUME IInv, HcctDump
  PROVE  IInv'
<1>1. Root \in Contexts /\ Len(Root) = 0 /\ StackMaxDepth \in Nat \ {0, 1} /\ IdxMax \in Nat
  BY RootProperties
<1>2. /\ Nodes' = {} /\ aux_frames' = Root /\ aux_phase' = "ended" /\ stackIdx' = 0
      /\ UNCHANGED <<shadow, aligned, events, burstOn, aux_freq, aux_sampled>>
  BY DEF HcctDump, Nodes, NoTree, Root, shadowVars
<1>3. stack' \in [Slots -> Contexts \cup {Null}]
  BY DEF HcctDump, IInv, TypeOK
<1>4. TypeOK'
  BY <1>1, <1>2, <1>3 DEF IInv, TypeOK
<1>5. AlignedStackMirrorsCalls' /\ CallersInTree' /\ SampledCounts'
  BY <1>2 DEF AlignedStackMirrorsCalls, CallersInTree, SampledCounts
<1>6. ActiveCallsCounted' /\ RootAtBottom' /\ ShadowInBounds'
  BY <1>2 DEF IInv, ActiveCallsCounted, RootAtBottom, ShadowInBounds
<1>7. QED
  BY <1>4, <1>5, <1>6 DEF IInv

\* The timer, and steps that only change burst_on.
LEMMA ToggleInvariant ==
  ASSUME IInv, UNCHANGED treeVars, UNCHANGED shadowVars, UNCHANGED auxVars,
         burstOn' \in BOOLEAN
  PROVE  IInv'
<1>1. /\ UNCHANGED <<counter, stack, stackIdx, shadow, aligned, events>>
      /\ UNCHANGED <<aux_phase, aux_frames, aux_freq, aux_sampled>>
      /\ Nodes' = Nodes
  BY DEF treeVars, shadowVars, auxVars, Nodes
<1>2. TypeOK'
  BY <1>1 DEF IInv, TypeOK
<1>3. AlignedStackMirrorsCalls' /\ CallersInTree' /\ SampledCounts'
  BY <1>1 DEF IInv, AlignedStackMirrorsCalls, CallersInTree, SampledCounts, CountOf
<1>4. ActiveCallsCounted' /\ RootAtBottom' /\ ShadowInBounds'
  BY <1>1 DEF IInv, ActiveCallsCounted, RootAtBottom, ShadowInBounds
<1>5. QED
  BY <1>2, <1>3, <1>4 DEF IInv

\* A return pops both stacks, or ends the alignment.
LEMMA ExitInvariant ==
  ASSUME IInv, ~EventsOutsideTrace, Exit
  PROVE  IInv'
<1>1. /\ aux_phase = "tracing" /\ aux_phase' = "tracing"
      /\ shadow = aux_frames /\ shadow # Root /\ shadow \in Contexts
      /\ shadow' = Caller(shadow) /\ aux_frames' = Caller(shadow)
  BY DEF Exit, IInv, TypeOK, ActiveCallsCounted, AlignedStackMirrorsCalls, Root
<1>2. /\ Len(shadow) >= 1 /\ Len(shadow) \in Nat
      /\ shadow' \in Contexts /\ Len(shadow') = Len(shadow) - 1
      /\ \A i \in 0 .. Len(shadow) - 1 : Prefix(shadow', i) = Prefix(shadow, i)
  BY <1>1, CallerProperties, ContextsAreSequences
<1>3. /\ UNCHANGED <<counter, stack, events, burstOn, aux_freq, aux_sampled>>
      /\ Nodes' = Nodes
      /\ aligned' = (aligned /\ burstOn)
  BY DEF Exit, Realign, Nodes
<1>4. stackIdx' = IF ~burstOn \/ ~aligned THEN stackIdx
                  ELSE IF stackIdx = 0 THEN IdxMax ELSE stackIdx - 1
  BY DEF Exit
<1>5. TypeOK'
  <2>1. stackIdx' \in 0 .. IdxMax
    BY <1>4, ConstantsAssumption DEF IInv, TypeOK
  <2>2. aligned' \in BOOLEAN
    BY <1>3
  <2>3. QED
    BY <1>1, <1>2, <1>3, <2>1, <2>2 DEF IInv, TypeOK
<1>6. AlignedStackMirrorsCalls'
  <2>1. CASE aligned'
    <3>1. aligned /\ burstOn
      BY <1>3, <2>1
    <3>2. /\ stackIdx = Len(shadow)
          /\ \A i \in 0 .. stackIdx : stack[i] = Prefix(shadow, i) /\ stack[i] \in Nodes
      BY <1>1, <3>1 DEF IInv, AlignedStackMirrorsCalls
    <3>3. stackIdx' = Len(shadow')
      BY <1>2, <1>4, <3>1, <3>2
    <3>4. \A i \in 0 .. stackIdx' : stack'[i] = Prefix(shadow', i) /\ stack'[i] \in Nodes'
      BY <1>2, <1>3, <3>2, <3>3
    <3>5. QED
      BY <1>1, <3>3, <3>4 DEF AlignedStackMirrorsCalls
  <2>2. CASE ~aligned'
    BY <1>1, <2>2 DEF AlignedStackMirrorsCalls
  <2>3. QED
    BY <2>1, <2>2
<1>7. CallersInTree' /\ SampledCounts'
  BY <1>1, <1>3 DEF IInv, CallersInTree, SampledCounts, CountOf
<1>8. ActiveCallsCounted' /\ RootAtBottom' /\ ShadowInBounds'
  BY <1>1, <1>2, <1>3, ConstantsAssumption DEF IInv, ActiveCallsCounted, RootAtBottom, ShadowInBounds
<1>9. QED
  BY <1>5, <1>6, <1>7, <1>8 DEF IInv

\* What an enter event does besides the tree: the shadow stack and the history.
LEMMA CallMadeProperties ==
  ASSUME IInv, ~EventsOutsideTrace, NEW c \in Calls, CallMade(c)
  PROVE  /\ aux_phase = "tracing" /\ shadow = aux_frames /\ shadow \in Contexts
         /\ shadow' = Append(shadow, c) /\ aux_frames' = shadow'
         /\ shadow' \in Contexts /\ shadow' # Root /\ Caller(shadow') = shadow
         /\ Len(shadow) \in Nat /\ Len(shadow') = Len(shadow) + 1 /\ Len(shadow') < StackMaxDepth
         /\ \A i \in 0 .. Len(shadow) : Prefix(shadow', i) = Prefix(shadow, i)
         /\ Prefix(shadow', Len(shadow')) = shadow'
         /\ events' \in Nat
         /\ aux_freq' \in [Contexts -> Nat] /\ aux_sampled' \in [Contexts -> Nat]
         /\ \A x \in Contexts :
              /\ aux_freq'[x] = IF x = shadow' THEN aux_freq[x] + 1 ELSE aux_freq[x]
              /\ aux_sampled'[x] = IF burstOn /\ x = shadow' THEN aux_sampled[x] + 1
                                                            ELSE aux_sampled[x]
         /\ \A i \in 1 .. Len(shadow') : aux_freq'[Prefix(shadow', i)] >= 1
<1>1. aux_phase = "tracing"
  BY DEF CallMade
<1>2. shadow = aux_frames /\ shadow \in Contexts /\ StackMaxDepth \in Nat
  BY <1>1, RootProperties DEF IInv, TypeOK, AlignedStackMirrorsCalls
<1>3. shadow' = Append(shadow, c) /\ aux_frames' = shadow' /\ Len(shadow) + 1 < StackMaxDepth
  BY <1>2 DEF CallMade
<1>4. Len(shadow) \in Nat
  BY <1>2, ContextsAreSequences
<1>5. /\ shadow' \in Contexts /\ shadow' # Root /\ Caller(shadow') = shadow
      /\ Len(shadow') = Len(shadow) + 1 /\ Len(shadow') < StackMaxDepth
  BY <1>2, <1>3, <1>4, AppendContext
<1>6. /\ \A i \in 0 .. Len(shadow) : Prefix(shadow', i) = Prefix(shadow, i)
      /\ Prefix(shadow', Len(shadow')) = shadow'
  BY <1>2, <1>3, <1>5, PrefixOfAppend, WholePrefix
<1>7. events' \in Nat
  BY DEF CallMade, IInv, TypeOK
<1>8. /\ aux_freq' = [aux_freq EXCEPT ![shadow'] = @ + 1]
      /\ aux_sampled' = IF burstOn THEN [aux_sampled EXCEPT ![shadow'] = @ + 1] ELSE aux_sampled
  BY <1>1, <1>3 DEF CallMade
<1>9. aux_freq \in [Contexts -> Nat] /\ aux_sampled \in [Contexts -> Nat]
  BY DEF IInv, TypeOK
<1>10. /\ aux_freq' \in [Contexts -> Nat] /\ aux_sampled' \in [Contexts -> Nat]
       /\ \A x \in Contexts :
            /\ aux_freq'[x] = IF x = shadow' THEN aux_freq[x] + 1 ELSE aux_freq[x]
            /\ aux_sampled'[x] = IF burstOn /\ x = shadow' THEN aux_sampled[x] + 1
                                                          ELSE aux_sampled[x]
  BY <1>5, <1>8, <1>9
<1>11. ASSUME NEW i \in 1 .. Len(shadow')
       PROVE  aux_freq'[Prefix(shadow', i)] >= 1
  <2>1. CASE i = Len(shadow')
    BY <1>5, <1>6, <1>9, <1>10, <2>1
  <2>2. CASE i # Len(shadow')
    <3>1. i \in 1 .. Len(shadow) /\ i \in 0 .. Len(shadow)
      BY <1>4, <1>5, <2>2
    <3>2. Prefix(shadow', i) = Prefix(shadow, i) /\ Prefix(shadow, i) \in Contexts
      BY <1>2, <1>6, <3>1, PrefixProperties
    <3>3. aux_freq[Prefix(shadow, i)] >= 1 /\ aux_freq[Prefix(shadow, i)] \in Nat
      BY <1>1, <1>9, <3>1, <3>2 DEF IInv, ActiveCallsCounted
    <3>4. QED
      BY <1>10, <3>2, <3>3
  <2>3. QED
    BY <2>1, <2>2
<1>12. QED
  BY <1>1, <1>2, <1>3, <1>4, <1>5, <1>6, <1>7, <1>10, <1>11

\* A call during a pause grows the shadow stack only.
LEMMA EnterUnsampledInvariant ==
  ASSUME IInv, ~EventsOutsideTrace, NEW c \in Calls, EnterUnsampled(c)
  PROVE  IInv'
<1>1. CallMade(c) /\ ~burstOn
  BY DEF EnterUnsampled
<1>2. /\ UNCHANGED <<counter, stack, stackIdx, burstOn, aux_phase>>
      /\ aligned' = FALSE /\ Nodes' = Nodes
  BY DEF EnterUnsampled, treeVars, Nodes
<1>3. TypeOK'
  BY <1>1, <1>2, CallMadeProperties DEF IInv, TypeOK
<1>4. AlignedStackMirrorsCalls' /\ CallersInTree'
  BY <1>1, <1>2, CallMadeProperties DEF IInv, AlignedStackMirrorsCalls, CallersInTree
<1>5. SampledCounts'
  <2>1. \A x \in Contexts : aux_sampled'[x] = aux_sampled[x]
    BY <1>1, CallMadeProperties
  <2>2. \A x \in Contexts : aux_freq[x] \in Nat /\ aux_freq'[x] \in Nat /\ aux_freq'[x] >= aux_freq[x]
    <3>1. aux_freq \in [Contexts -> Nat] /\ shadow' \in Contexts
      BY <1>1, CallMadeProperties DEF IInv, TypeOK
    <3>2. \A x \in Contexts : aux_freq'[x] = IF x = shadow' THEN aux_freq[x] + 1 ELSE aux_freq[x]
      BY <1>1, CallMadeProperties
    <3>3. QED
      BY <3>1, <3>2
  <2>3. aux_phase = "tracing" /\ \A x : CountOf(x)' = CountOf(x) /\ CountOf(x) \in Nat
    BY <1>1, <1>2, CallMadeProperties DEF CountOf, IInv, TypeOK
  <2>4. \A x \in Contexts \ {Root} : aux_sampled[x] <= CountOf(x) /\ CountOf(x) <= aux_freq[x]
    BY <2>3 DEF IInv, SampledCounts
  <2>5. \A x \in Contexts \ {Root} : aux_sampled'[x] <= CountOf(x)' /\ CountOf(x)' <= aux_freq'[x]
    BY <2>1, <2>2, <2>3, <2>4
  <2>6. QED
    BY <2>5 DEF SampledCounts
<1>6. ActiveCallsCounted' /\ RootAtBottom' /\ ShadowInBounds'
  BY <1>1, <1>2, CallMadeProperties DEF IInv, ActiveCallsCounted, RootAtBottom, ShadowInBounds
<1>7. QED
  BY <1>3, <1>4, <1>5, <1>6 DEF IInv

\* Sampled events count X, the current context and missing callers.
LEMMA SampledCountsKept ==
  ASSUME IInv, ~EventsOutsideTrace, NEW c \in Calls, CallMade(c), burstOn,
         NEW X \in SUBSET Contexts, counter' = Counted(X), shadow' \in X,
         \A x \in X \ {shadow'} : x \notin Nodes /\ aux_freq'[x] >= 1
  PROVE  SampledCounts'
<1>1. aux_phase = "tracing" /\ \A x \in Contexts :
         /\ aux_freq'[x] = IF x = shadow' THEN aux_freq[x] + 1 ELSE aux_freq[x]
         /\ aux_sampled'[x] = IF x = shadow' THEN aux_sampled[x] + 1 ELSE aux_sampled[x]
  BY CallMadeProperties
<1>2. \A x : CountOf(x)' = IF x \in X THEN CountOf(x) + 1 ELSE CountOf(x)
  BY CountedProperties DEF IInv
<1>3. \A x : CountOf(x) \in Nat /\ (x \notin Nodes => CountOf(x) = 0)
  BY DEF CountOf, IInv, TypeOK
<1>4. ASSUME NEW x \in Contexts \ {Root}
      PROVE  aux_sampled'[x] <= CountOf(x)' /\ CountOf(x)' <= aux_freq'[x]
  <2>1. /\ aux_freq[x] \in Nat /\ aux_sampled[x] \in Nat
        /\ aux_sampled[x] <= CountOf(x) /\ CountOf(x) <= aux_freq[x]
    BY <1>1 DEF IInv, TypeOK, SampledCounts
  <2>2. CASE x = shadow'
    BY <1>1, <1>2, <1>3, <2>1, <2>2
  <2>3. CASE x # shadow' /\ x \in X
    BY <1>1, <1>2, <1>3, <2>1, <2>3
  <2>4. CASE x \notin X
    <3>1. x # shadow'
      BY <2>4
    <3>2. CountOf(x)' = CountOf(x) /\ aux_freq'[x] = aux_freq[x] /\ aux_sampled'[x] = aux_sampled[x]
      BY <1>1, <1>2, <2>4, <3>1
    <3>3. QED
      BY <2>1, <3>2
  <2>5. QED
    BY <2>2, <2>3, <2>4
<1>5. QED
  BY <1>4 DEF SampledCounts

\* Null is no context, so during the trace stack[0] is not Null.
LEMMA NullIsNoContext == Null \notin Contexts
  BY ConstantsAssumption DEF Contexts

\* A call in a burst extends an aligned stack by its node.
LEMMA EnterSampledInvariant ==
  ASSUME IInv, ~EventsOutsideTrace, NEW c \in Calls, EnterSampled(c)
  PROVE  IInv'
<1>1. CallMade(c) /\ burstOn /\ aligned /\ stackIdx + 1 < StackMaxDepth
  BY DEF EnterSampled
<1>2. aux_phase = "tracing" /\ shadow \in Contexts /\ shadow' = Append(shadow, c)
  BY <1>1, CallMadeProperties
<1>3. /\ stackIdx = Len(shadow) /\ stackIdx \in Nat
      /\ \A i \in 0 .. stackIdx : stack[i] = Prefix(shadow, i) /\ stack[i] \in Nodes
  BY <1>1, <1>2, CallMadeProperties DEF IInv, AlignedStackMirrorsCalls
<1>4. stack[stackIdx] = shadow /\ shadow \in Nodes
  <2>1. stackIdx \in 0 .. stackIdx
    BY <1>3
  <2>2. QED
    BY <1>2, <1>3, <2>1, WholePrefix
<1>5. EnterNode(c)
  BY <1>2, <1>4, NullIsNoContext DEF EnterSampled
<1>6. /\ counter' = Counted({shadow'}) /\ stackIdx' = stackIdx + 1
      /\ stack' = [stack EXCEPT ![stackIdx + 1] = shadow']
  BY <1>2, <1>4, <1>5 DEF EnterNode
<1>7. /\ UNCHANGED <<aligned, burstOn, aux_phase>>
      /\ shadow' \in Contexts /\ aux_frames' = shadow'
  BY <1>1, CallMadeProperties DEF EnterSampled
<1>8. /\ Nodes' = Nodes \cup {shadow'}
      /\ \A x \in Nodes' : counter'[x] \in Nat \ {0}
  BY <1>6, <1>7, CountedProperties DEF IInv
<1>9. /\ stack \in [Slots -> Contexts \cup {Null}]
      /\ stackIdx + 1 \in Slots
      /\ StackMaxDepth \in Nat /\ IdxMax \in Nat /\ StackMaxDepth <= IdxMax
  BY <1>1, <1>3, ConstantsAssumption DEF IInv, TypeOK, Slots
<1>10. TypeOK'
  <2>1. Nodes' \subseteq Contexts
    BY <1>7, <1>8 DEF IInv, TypeOK
  <2>2. stack' \in [Slots -> Contexts \cup {Null}]
    BY <1>6, <1>7, <1>9
  <2>3. stackIdx' \in 0 .. IdxMax
    BY <1>1, <1>3, <1>6, <1>9
  <2>4. events' \in Nat /\ aux_freq' \in [Contexts -> Nat] /\ aux_sampled' \in [Contexts -> Nat]
    BY <1>1, CallMadeProperties
  <2>5. QED
    BY <1>7, <1>8, <2>1, <2>2, <2>3, <2>4 DEF IInv, TypeOK
<1>11. AlignedStackMirrorsCalls'
  <2>1. stackIdx' = Len(shadow')
    BY <1>1, <1>3, <1>6, CallMadeProperties
  <2>2. ASSUME NEW i \in 0 .. stackIdx'
        PROVE  stack'[i] = Prefix(shadow', i) /\ stack'[i] \in Nodes'
    <3>1. CASE i = stackIdx + 1
      <4>1. stack'[i] = shadow' /\ i = Len(shadow')
        BY <1>6, <1>9, <2>1, <3>1
      <4>2. QED
        BY <1>1, <1>8, <4>1, CallMadeProperties
    <3>2. CASE i # stackIdx + 1
      <4>1. i \in 0 .. stackIdx /\ i \in Slots
        BY <1>1, <1>3, <1>6, <1>9, <3>2 DEF Slots
      <4>2. stack'[i] = stack[i]
        BY <1>6, <1>9, <3>2, <4>1
      <4>3. Prefix(shadow', i) = Prefix(shadow, i)
        BY <1>1, <1>3, <4>1, CallMadeProperties
      <4>4. QED
        BY <1>3, <1>8, <4>1, <4>2, <4>3
    <3>3. QED
      BY <3>1, <3>2
  <2>3. QED
    BY <1>7, <2>1, <2>2 DEF AlignedStackMirrorsCalls
<1>12. CallersInTree'
  BY <1>1, <1>4, <1>8, CallMadeProperties DEF IInv, CallersInTree
<1>13. SampledCounts'
  BY <1>1, <1>6, <1>7, SampledCountsKept
<1>14. ActiveCallsCounted' /\ ShadowInBounds'
  BY <1>1, <1>2, <1>7, CallMadeProperties DEF ActiveCallsCounted, ShadowInBounds
<1>15. RootAtBottom'
  BY <1>2, <1>3, <1>6, <1>8, <1>9 DEF IInv, RootAtBottom, Slots
<1>16. QED
  BY <1>10, <1>11, <1>12, <1>13, <1>14, <1>15 DEF IInv

\* The first call of a burst rebuilds the stack from the shadow stack.
LEMMA EnterAlignInvariant ==
  ASSUME IInv, ~EventsOutsideTrace, NEW c \in Calls, EnterAlign(c)
  PROVE  IInv'
<1> DEFINE n == Len(shadow')
           X == PathUpdates(shadow')
<1>1. CallMade(c) /\ burstOn /\ HcctAlign(shadow')
  BY DEF EnterAlign
<1>2. aux_phase = "tracing" /\ stack[0] = Root /\ Root \in Nodes
  BY <1>1, CallMadeProperties DEF IInv, RootAtBottom
<1>3. /\ shadow' \in Contexts /\ shadow' # Root /\ aux_frames' = shadow'
      /\ n \in Nat /\ n >= 1 /\ n < StackMaxDepth /\ Prefix(shadow', n) = shadow'
  BY <1>1, CallMadeProperties
<1>4. \A i \in 0 .. n : /\ Prefix(shadow', i) \in Contexts /\ Len(Prefix(shadow', i)) = i
                        /\ PathNode(shadow', i) = Prefix(shadow', i)
  <2>1. ASSUME NEW i \in 0 .. n
        PROVE  /\ Prefix(shadow', i) \in Contexts /\ Len(Prefix(shadow', i)) = i
               /\ PathNode(shadow', i) = Prefix(shadow', i)
    <3>1. Prefix(shadow', i) \in Contexts /\ Len(Prefix(shadow', i)) = i
      BY <1>3, PrefixProperties
    <3>2. Prefix(shadow', i) \in Seq(Calls)
      BY <3>1, ContextsAreSequences
    <3>3. <<>> \o Prefix(shadow', i) = Prefix(shadow', i)
      BY <3>2
    <3>4. QED
      BY <1>2, <3>1, <3>3 DEF PathNode, Root
  <2>2. QED
    BY <2>1
<1>5. X = {Prefix(shadow', i) : i \in {j \in 1 .. n : j = n \/ Prefix(shadow', j) \notin Nodes}}
  BY <1>3, <1>4 DEF PathUpdates
<1>6. /\ X \in SUBSET Contexts /\ shadow' \in X
      /\ \A i \in 1 .. n : Prefix(shadow', i) \in Nodes \cup X
      /\ \A x \in X : \E i \in 1 .. n : x = Prefix(shadow', i) /\ (i = n \/ x \notin Nodes)
  BY <1>3, <1>4, <1>5
<1>7. /\ counter' = Counted(X) /\ stackIdx' = n
      /\ stack' = [i \in Slots |-> IF i \in 1 .. n THEN PathNode(shadow', i) ELSE stack[i]]
  BY <1>1 DEF HcctAlign
<1>8. /\ Nodes' = Nodes \cup X
      /\ \A x \in Nodes' : counter'[x] \in Nat \ {0}
  BY <1>6, <1>7, CountedProperties DEF IInv
<1>9. UNCHANGED <<burstOn, aux_phase>> /\ aligned' = TRUE
  BY DEF EnterAlign
<1>10. /\ stack \in [Slots -> Contexts \cup {Null}]
       /\ StackMaxDepth \in Nat /\ IdxMax \in Nat /\ StackMaxDepth <= IdxMax
  BY ConstantsAssumption DEF IInv, TypeOK
<1>11. TypeOK'
  <2>1. Nodes' \subseteq Contexts
    BY <1>6, <1>8 DEF IInv, TypeOK
  <2>2. stack' \in [Slots -> Contexts \cup {Null}]
    BY <1>4, <1>7, <1>10
  <2>3. stackIdx' \in 0 .. IdxMax
    BY <1>3, <1>7, <1>10
  <2>4. events' \in Nat /\ aux_freq' \in [Contexts -> Nat] /\ aux_sampled' \in [Contexts -> Nat]
    BY <1>1, CallMadeProperties
  <2>5. QED
    BY <1>3, <1>8, <1>9, <2>1, <2>2, <2>3, <2>4 DEF IInv, TypeOK
<1>12. stack'[0] = Root /\ Root \in Nodes'
  <2>1. 0 \in Slots /\ 0 \notin 1 .. n
    BY <1>3, <1>10 DEF Slots
  <2>2. QED
    BY <1>2, <1>7, <1>8, <2>1
<1>13. AlignedStackMirrorsCalls'
  <2>1. ASSUME NEW i \in 0 .. n
        PROVE  stack'[i] = Prefix(shadow', i) /\ stack'[i] \in Nodes'
    <3>1. CASE i = 0
      BY <1>3, <1>12, <3>1, WholePrefix
    <3>2. CASE i # 0
      <4>1. i \in 1 .. n /\ i \in Slots
        BY <1>3, <1>10, <3>2 DEF Slots
      <4>2. stack'[i] = Prefix(shadow', i)
        BY <1>4, <1>7, <4>1
      <4>3. QED
        BY <1>6, <1>8, <4>1, <4>2
    <3>3. QED
      BY <3>1, <3>2
  <2>2. QED
    BY <1>3, <1>7, <2>1 DEF AlignedStackMirrorsCalls
<1>14. CallersInTree'
  <2>1. ASSUME NEW x \in X
        PROVE  Caller(x) \in Nodes'
    <3>1. PICK i \in 1 .. n : x = Prefix(shadow', i)
      BY <1>6
    <3>2. i - 1 \in 0 .. n /\ i \in 0 .. n /\ i - 1 \in 0 .. i
      BY <1>3
    <3>3. Caller(x) = Prefix(shadow', i - 1)
      BY <1>3, <1>4, <3>1, <3>2, PrefixOfPrefix DEF Caller
    <3>4. CASE i = 1
      BY <1>3, <1>12, <3>3, <3>4, WholePrefix
    <3>5. CASE i # 1
      <4>1. i - 1 \in 1 .. n
        BY <1>3, <3>5
      <4>2. QED
        BY <1>6, <1>8, <3>3, <4>1
    <3>6. QED
      BY <3>4, <3>5
  <2>2. QED
    BY <1>8, <2>1 DEF IInv, CallersInTree
<1>15. SampledCounts'
  <2>1. \A x \in X \ {shadow'} : x \notin Nodes /\ aux_freq'[x] >= 1
    BY <1>1, <1>3, <1>6, CallMadeProperties
  <2>2. QED
    BY <1>1, <1>6, <1>7, <2>1, SampledCountsKept
<1>16. ActiveCallsCounted' /\ ShadowInBounds'
  BY <1>1, <1>2, <1>9, CallMadeProperties DEF ActiveCallsCounted, ShadowInBounds
<1>17. RootAtBottom'
  BY <1>12 DEF RootAtBottom
<1>18. QED
  BY <1>11, <1>13, <1>14, <1>15, <1>16, <1>17 DEF IInv

\* A pause never ends without a tree.
LEMMA AlignFindsTree ==
  ASSUME IInv, ~EventsOutsideTrace, NEW c \in Calls
  PROVE  ~EnterAlignWithoutTree(c)
<1>1. SUFFICES ASSUME EnterAlignWithoutTree(c) PROVE FALSE
  OBVIOUS
<1>2. CallMade(c) /\ stack[0] = Null
  BY <1>1 DEF EnterAlignWithoutTree
<1>3. stack[0] = Root
  BY <1>2, CallMadeProperties DEF IInv, RootAtBottom
<1>4. QED
  BY <1>2, <1>3, RootProperties, NullIsNoContext

\* Every step preserves the invariant.
LEMMA NextInvariant ==
  ASSUME ~EventsOutsideTrace, IInv, [Next]_vars
  PROVE  IInv'
<1>1. CASE TraceBegin
  BY <1>1, TraceBeginInvariant
<1>2. CASE Toggle
  BY <1>2, ToggleInvariant DEF Toggle, IInv, TypeOK
<1>3. CASE Exit
  BY <1>3, ExitInvariant
<1>4. CASE HcctDump
  BY <1>4, HcctDumpInvariant
<1>5. ASSUME NEW c \in Calls, Enter(c)
      PROVE  IInv'
  BY <1>5, EnterUnsampledInvariant, EnterSampledInvariant, EnterAlignInvariant, AlignFindsTree
     DEF Enter
<1>6. CASE UNCHANGED vars
  BY <1>6, ToggleInvariant DEF vars, IInv, TypeOK
<1>7. QED
  BY <1>1, <1>2, <1>3, <1>4, <1>5, <1>6 DEF Next

\* The invariant of a traced thread.
THEOREM Invariance ==
  ASSUME ~EventsOutsideTrace
  PROVE  Spec => []IInv
<1>1. IInv /\ [Next]_vars => IInv'
  BY NextInvariant
<1>2. QED
  BY <1>1, InitInvariant, PTL DEF Spec

\* Tree, stacks and counters keep to their types.
THEOREM TypeCorrectness ==
  ASSUME ~EventsOutsideTrace
  PROVE  Spec => []TypeOK
<1>1. IInv => TypeOK
  BY DEF IInv
<1>2. QED
  BY <1>1, Invariance, PTL

\* Whatever the pauses of the timer hide, an aligned stack is the right one.
THEOREM AlignmentIsSound ==
  ASSUME ~EventsOutsideTrace
  PROVE  Spec => []AlignedStackMirrorsCalls
<1>1. IInv => AlignedStackMirrorsCalls
  BY DEF IInv
<1>2. QED
  BY <1>1, Invariance, PTL

\* hcct_align leaves no gap between the current context and the tree, and counters
\* lie between the sampled and the true frequencies.
THEOREM TreeIsSound ==
  ASSUME ~EventsOutsideTrace
  PROVE  Spec => []TreeIsSampled
<1>1. IInv => TreeIsSampled
  BY DEF IInv, TreeIsSampled
<1>2. QED
  BY <1>1, Invariance, PTL

\* hcct_align dereferences NULL only if events occur outside the trace.
THEOREM AlignmentIsSafe ==
  ASSUME ~EventsOutsideTrace
  PROVE  Spec => []NoNullDereference
<1>1. Init => NoNullDereference
  BY DEF Init, NoNullDereference
<1>2. ASSUME IInv, NoNullDereference, [Next]_vars
      PROVE  NoNullDereference'
  <2>1. \A c \in Calls : Enter(c) => aux_phase' = aux_phase
    BY <1>2, AlignFindsTree DEF Enter, EnterUnsampled, EnterSampled, EnterAlign
  <2>2. TraceBegin \/ HcctDump => aux_phase' # "crashed"
    BY DEF TraceBegin, HcctDump
  <2>3. Toggle \/ Exit \/ UNCHANGED vars => aux_phase' = aux_phase
    BY DEF Toggle, Exit, vars, auxVars
  <2>4. QED
    BY <1>2, <2>1, <2>2, <2>3 DEF Next, NoNullDereference
<1>3. QED
  BY <1>1, <1>2, Invariance, PTL DEF Spec

-----------------------------------------------------------------------------
(* The trees behind a key of the pthread library (PthreadKeys), for any    *)
(* number of threads: several may make a key before the flag is set, but   *)
(* never more than one each, and what a key holds is a tree of its thread. *)

\* An object of tls, and what the variables hold besides.
TlsObject ==
  [owner : KeyThreads, cct_stack_idx : Int, entered : Nat, freed : BOOLEAN, base : Int]

KeyTypes ==
  /\ KeysTypeOK
  /\ tls \in Seq(TlsObject)
  /\ files \in [KeyThreads -> Seq(Nat)]
  /\ aux_depth \in [KeyThreads -> Nat] /\ aux_calls \in [KeyThreads -> Nat]

\* The threads at one place of hcct_enter.
In(where) == {t \in KeyThreads : doing[t] = where}

\* Keys are numbered, and only what was made has values.
KeysInOrder ==
  /\ \E n \in Nat : keys = 1 .. n
  /\ tlsKey \in keys \/ (keys = {} /\ tlsKey = Unmade)
  /\ \A t \in KeyThreads, k \in AllKeys : specific[t][k] # 0 => k \in keys

\* No thread makes two keys: those that are about to make one looked at
\* tlsKey_active before any thread had set it.
KeysAreFew ==
  /\ Cardinality(keys) + Cardinality(In("create")) <= Cardinality(KeyThreads)
  /\ tlsKey_active = 0 => Cardinality(keys) = Cardinality(In("activate"))

\* Before that no thread has got further than to make a key.
NothingYet ==
  tlsKey_active = 0 =>
    /\ \A t \in KeyThreads :
         /\ doing[t] \in {"application", "create", "activate"}
         /\ doing[t] = "application" => aux_calls[t] = 0 /\ aux_depth[t] = 0
    /\ \A t \in KeyThreads, k \in AllKeys : specific[t][k] = 0

\* Where a key is needed there is one.
KeyIsMade ==
  /\ tlsKey_active = 1 => keys # {}
  /\ \A t \in KeyThreads : doing[t] \in {"activate", "init", "record"} => keys # {}

\* trace_begin runs in the initial thread, which has not called anything.
Beginning ==
  /\ program \in {"loading", "beginning"} => thread[KeyMain] = "running"
  /\ program = "beginning" => doing[KeyMain] \in {"create", "activate"} /\ aux_depth[KeyMain] = 0

\* No tree is the value of two keys.
TreesHaveOneKey ==
  \A t \in KeyThreads, u \in KeyThreads, k \in AllKeys, l \in AllKeys :
     specific[t][k] # 0 /\ specific[t][k] = specific[u][l] => t = u /\ k = l

\* As long as there is one key: the tree of a thread, the event that it does
\* not have yet, and what is true of it.
Tree(t) == specific[t][1]

Started(t) ==
  IF doing[t] \in {"create", "activate", "init"} /\ ~(program = "beginning" /\ t = KeyMain)
  THEN 1 ELSE 0

Missing(t) == IF doing[t] = "record" THEN 1 ELSE 0

TreeWhere(t) ==
  /\ doing[t] \in {"create", "activate", "init"} => Tree(t) = 0
  /\ doing[t] = "record" => Tree(t) # 0
  /\ doing[t] = "application" /\ aux_depth[t] > 0 => Tree(t) # 0
  /\ thread[t] \in {"new", "ended"} => Tree(t) = 0 /\ doing[t] = "application"
  /\ thread[t] = "new" => aux_calls[t] = 0 /\ aux_depth[t] = 0

\* The stack of a tree has what was entered since it was made.
StackFits(t) ==
  Tree(t) # 0 /\ thread[t] = "running" =>
    tls[Tree(t)].cct_stack_idx = aux_depth[t] - tls[Tree(t)].base - Missing(t)

\* A thread has freed all trees but the one it holds.
OthersFreed(t) ==
  \A v \in DOMAIN tls : tls[v].owner = t /\ ~tls[v].freed => v = Tree(t)

\* Before the dump the tree has all the calls, after it the file.
CallsAreKept(t) ==
  /\ files[t] = <<>> =>
       aux_calls[t] = IF Tree(t) = 0 THEN Started(t) ELSE tls[Tree(t)].entered + Missing(t)
  /\ files[t] # <<>> =>
       /\ thread[t] \in {"destructors", "ended"}
       /\ Tree(t) = 0 /\ doing[t] = "application" => files[t] = <<aux_calls[t]>>

Sound(t) == TreeWhere(t) /\ StackFits(t) /\ OthersFreed(t) /\ CallsAreKept(t)

AllSound == OneKey /\ Going => \A t \in KeyThreads : Sound(t)

\* What holds however many keys there are, and the inductive invariant.
KeyShape == KeyTypes /\ KeysInOrder /\ KeyIsMade /\ NothingYet /\ Beginning

KeyInv == KeyShape /\ KeysAreFew /\ TreesHaveOneKey /\ NoTreeIsStale /\ AllSound

\* The threads are some, and there are as many keys as threads.
LEMMA KeyFacts ==
  /\ IsFiniteSet(KeyThreads) /\ KeyMain \in KeyThreads
  /\ Cardinality(KeyThreads) \in Nat /\ Cardinality(KeyThreads) >= 1
  /\ AllKeys = 1 .. Cardinality(KeyThreads)
  /\ 1 \in AllKeys /\ Unmade \notin AllKeys
<1>1. IsFiniteSet(KeyThreads) /\ KeyMain \in KeyThreads /\ Unmade \notin AllKeys
  BY KeysAssumption DEF AllKeys
<1>2. Cardinality(KeyThreads) \in Nat
  BY <1>1, FS_CardinalityType
<1>3. Cardinality(KeyThreads) # 0
  BY <1>1, FS_EmptySet
<1>4. QED
  BY <1>1, <1>2, <1>3 DEF AllKeys

\* The number of keys is the last key.
LEMMA OneKeyMeans ==
  ASSUME KeysInOrder
  PROVE  /\ IsFiniteSet(keys) /\ Cardinality(keys) \in Nat
         /\ keys = 1 .. Cardinality(keys)
         /\ OneKey <=> Cardinality(keys) <= 1
<1>1. PICK n \in Nat : keys = 1 .. n
  BY DEF KeysInOrder
<1>2. IsFiniteSet(1 .. n) /\ Cardinality(1 .. n) = IF 1 > n THEN 0 ELSE n - 1 + 1
  BY FS_Interval
<1>3. Cardinality(keys) = n
  BY <1>1, <1>2
<1>4. QED
  BY <1>1, <1>2, <1>3 DEF OneKey

\* Replacing one object of tls.
LEMMA ItemReplaced ==
  ASSUME NEW s \in Seq(TlsObject), NEW v \in 1 .. Len(s), NEW o \in TlsObject
  PROVE  LET r == [s EXCEPT ![v] = o] IN
         r \in Seq(TlsObject) /\ Len(r) = Len(s) /\ \A w \in 1 .. Len(s) : r[w] = IF w = v THEN o ELSE s[w]
OBVIOUS

\* An enter event changes one object.
LEMMA EventRecorded ==
  ASSUME NEW s \in Seq(TlsObject), NEW v \in 1 .. Len(s),
         NEW r, r = [s EXCEPT ![v].cct_stack_idx = @ + 1, ![v].entered = @ + 1]
  PROVE  /\ r \in Seq(TlsObject) /\ Len(r) = Len(s)
         /\ \A w \in 1 .. Len(s) : r[w].owner = s[w].owner /\ r[w].freed = s[w].freed /\ r[w].base = s[w].base
         /\ \A w \in 1 .. Len(s) : w # v => r[w] = s[w]
         /\ r[v].cct_stack_idx = s[v].cct_stack_idx + 1 /\ r[v].entered = s[v].entered + 1
<1> DEFINE o == [s[v] EXCEPT !.cct_stack_idx = @ + 1, !.entered = @ + 1]
<1>1. s[v] \in TlsObject
  OBVIOUS
<1>2. o \in TlsObject /\ o.owner = s[v].owner /\ o.freed = s[v].freed /\ o.base = s[v].base /\ o.cct_stack_idx = s[v].cct_stack_idx + 1 /\ o.entered = s[v].entered + 1
  <2>1. s[v].cct_stack_idx \in Int /\ s[v].entered \in Nat
    BY <1>1 DEF TlsObject
  <2>2. s[v].cct_stack_idx + 1 \in Int /\ s[v].entered + 1 \in Nat /\ s[v].cct_stack_idx - 1 \in Int
    BY <2>1
  <2>3. QED
    BY <1>1, <2>2 DEF TlsObject
<1>3. r = [s EXCEPT ![v] = o]
  OBVIOUS
<1> HIDE DEF o
<1>4. r \in Seq(TlsObject) /\ Len(r) = Len(s) /\ \A w \in 1 .. Len(s) : r[w] = IF w = v THEN o ELSE s[w]
  <2>1. o \in TlsObject
    BY <1>2
  <2>2. LET q == [s EXCEPT ![v] = o] IN
        q \in Seq(TlsObject) /\ Len(q) = Len(s) /\ \A w \in 1 .. Len(s) : q[w] = IF w = v THEN o ELSE s[w]
    BY ONLY <2>1, s \in Seq(TlsObject), v \in 1 .. Len(s)
  <2>3. QED
    BY <1>3, <2>2, Zenon
<1>5. QED
  BY <1>2, <1>4

\* An exit event changes one object.
LEMMA CallLeft ==
  ASSUME NEW s \in Seq(TlsObject), NEW v \in 1 .. Len(s),
         NEW r, r = [s EXCEPT ![v].cct_stack_idx = @ - 1]
  PROVE  /\ r \in Seq(TlsObject) /\ Len(r) = Len(s)
         /\ \A w \in 1 .. Len(s) : r[w].owner = s[w].owner /\ r[w].freed = s[w].freed /\ r[w].base = s[w].base /\ r[w].entered = s[w].entered
         /\ \A w \in 1 .. Len(s) : w # v => r[w] = s[w]
         /\ r[v].cct_stack_idx = s[v].cct_stack_idx - 1
<1> DEFINE o == [s[v] EXCEPT !.cct_stack_idx = @ - 1]
<1>1. s[v] \in TlsObject
  OBVIOUS
<1>2. o \in TlsObject /\ o.owner = s[v].owner /\ o.freed = s[v].freed /\ o.base = s[v].base /\ o.entered = s[v].entered /\ o.cct_stack_idx = s[v].cct_stack_idx - 1
  <2>1. s[v].cct_stack_idx \in Int /\ s[v].entered \in Nat
    BY <1>1 DEF TlsObject
  <2>2. s[v].cct_stack_idx + 1 \in Int /\ s[v].entered + 1 \in Nat /\ s[v].cct_stack_idx - 1 \in Int
    BY <2>1
  <2>3. QED
    BY <1>1, <2>2 DEF TlsObject
<1>3. r = [s EXCEPT ![v] = o]
  OBVIOUS
<1> HIDE DEF o
<1>4. r \in Seq(TlsObject) /\ Len(r) = Len(s) /\ \A w \in 1 .. Len(s) : r[w] = IF w = v THEN o ELSE s[w]
  <2>1. o \in TlsObject
    BY <1>2
  <2>2. LET q == [s EXCEPT ![v] = o] IN
        q \in Seq(TlsObject) /\ Len(q) = Len(s) /\ \A w \in 1 .. Len(s) : q[w] = IF w = v THEN o ELSE s[w]
    BY ONLY <2>1, s \in Seq(TlsObject), v \in 1 .. Len(s)
  <2>3. QED
    BY <1>3, <2>2, Zenon
<1>5. QED
  BY <1>2, <1>4

\* tlsDestructor frees a tree.
Freed(s, v) == [s EXCEPT ![v].freed = TRUE]

\* The release of a tree changes one object.
LEMMA TreeFreed ==
  ASSUME NEW s \in Seq(TlsObject), NEW v \in 1 .. Len(s)
  PROVE  /\ Freed(s, v) \in Seq(TlsObject) /\ Len(Freed(s, v)) = Len(s)
         /\ \A w \in 1 .. Len(s) : Freed(s, v)[w].owner = s[w].owner
         /\ \A w \in 1 .. Len(s) : w # v => Freed(s, v)[w] = s[w]
         /\ Freed(s, v)[v].freed = TRUE
<1> DEFINE r == Freed(s, v)
           o == [s[v] EXCEPT !.freed = TRUE]
<1>1. s[v] \in TlsObject
  OBVIOUS
<1>2. o \in TlsObject /\ o.owner = s[v].owner /\ o.freed = TRUE
  BY <1>1 DEF TlsObject
<1>3. r = [s EXCEPT ![v] = o]
  BY DEF Freed
<1> HIDE DEF o, r
<1>4. r \in Seq(TlsObject) /\ Len(r) = Len(s) /\ \A w \in 1 .. Len(s) : r[w] = IF w = v THEN o ELSE s[w]
  <2>1. o \in TlsObject
    BY <1>2
  <2>2. LET q == [s EXCEPT ![v] = o] IN
        q \in Seq(TlsObject) /\ Len(q) = Len(s) /\ \A w \in 1 .. Len(s) : q[w] = IF w = v THEN o ELSE s[w]
    BY ONLY <2>1, s \in Seq(TlsObject), v \in 1 .. Len(s)
  <2>3. QED
    BY <1>3, <2>2, Zenon
<1>5. QED
  BY <1>2, <1>4 DEF r

\* hcct_init adds an object.
LEMMA TreeMade ==
  ASSUME NEW s \in Seq(TlsObject), NEW t \in KeyThreads, NEW b \in Int
  PROVE  /\ Append(s, NewTls(t, b)) \in Seq(TlsObject)
         /\ Len(Append(s, NewTls(t, b))) = Len(s) + 1
         /\ \A w \in 1 .. Len(s) : Append(s, NewTls(t, b))[w] = s[w]
         /\ Append(s, NewTls(t, b))[Len(s) + 1] = NewTls(t, b)
<1>1. NewTls(t, b) \in TlsObject
  BY DEF NewTls, TlsObject
<1>2. QED
  BY <1>1

\* What GetSpecific returns.
LEMMA SpecificTree ==
  ASSUME KeyTypes, KeysInOrder, NoTreeIsStale, NEW t \in KeyThreads
  PROVE  /\ GetSpecific(t) # 0 =>
              /\ tlsKey \in keys /\ tlsKey \in AllKeys
              /\ GetSpecific(t) = specific[t][tlsKey]
              /\ GetSpecific(t) \in 1 .. Len(tls)
              /\ tls[GetSpecific(t)].owner = t /\ ~tls[GetSpecific(t)].freed
         /\ OneKey => GetSpecific(t) = Tree(t)
         /\ tlsKey \in keys => tlsKey \in AllKeys /\ GetSpecific(t) = specific[t][tlsKey]
         /\ OneKey /\ keys # {} => tlsKey = 1
<1>1. tlsKey \in keys => tlsKey \in AllKeys /\ GetSpecific(t) = specific[t][tlsKey]
  BY DEF KeyTypes, KeysTypeOK, GetSpecific
<1>2. ASSUME GetSpecific(t) # 0
      PROVE  /\ tlsKey \in keys /\ tlsKey \in AllKeys
             /\ GetSpecific(t) = specific[t][tlsKey]
             /\ GetSpecific(t) \in 1 .. Len(tls)
             /\ tls[GetSpecific(t)].owner = t /\ ~tls[GetSpecific(t)].freed
  <2>1. tlsKey \in keys
    BY <1>2 DEF GetSpecific
  <2>2. specific[t][tlsKey] \in 0 .. Len(tls)
    BY <1>1, <2>1 DEF KeyTypes, KeysTypeOK
  <2>3. Len(tls) \in Nat
    BY DEF KeyTypes
  <2>4. QED
    BY <1>1, <1>2, <2>1, <2>2, <2>3 DEF NoTreeIsStale
<1>3. ASSUME OneKey, keys # {}
      PROVE  tlsKey = 1
  <2>1. tlsKey \in keys /\ keys = 1 .. Cardinality(keys) /\ Cardinality(keys) \in Nat /\ Cardinality(keys) <= 1
    BY <1>3, OneKeyMeans DEF KeysInOrder
  <2>2. QED
    BY <2>1
<1>4. ASSUME OneKey
      PROVE  GetSpecific(t) = Tree(t)
  <2>1. CASE keys # {}
    BY <1>1, <1>3, <1>4, <2>1 DEF KeysInOrder, Tree
  <2>2. CASE keys = {}
    <3>1. specific[t][1] = 0
      BY <2>2, KeyFacts DEF KeysInOrder
    <3>2. QED
      BY <2>2, <3>1 DEF Tree, GetSpecific
  <2>3. QED
    BY <2>1, <2>2
<1>5. QED
  BY <1>1, <1>2, <1>3, <1>4

\* What a step of thread t leaves alone.
KeepsOthers(t) ==
  /\ \A u \in KeyThreads \ {t} :
       /\ specific'[u] = specific[u] /\ doing'[u] = doing[u] /\ files'[u] = files[u]
       /\ thread'[u] = thread[u] /\ aux_depth'[u] = aux_depth[u] /\ aux_calls'[u] = aux_calls[u]
       /\ (program' = "beginning" /\ u = KeyMain) <=> (program = "beginning" /\ u = KeyMain)
  /\ \A v \in 1 .. Len(tls) : tls[v].owner # t => v \in 1 .. Len(tls') /\ tls'[v] = tls[v]
  /\ \A v \in 1 .. Len(tls') : tls'[v].owner # t => v \in 1 .. Len(tls) /\ tls'[v] = tls[v]

\* A step of a thread leaves the others as they were.
LEMMA OthersSound ==
  ASSUME KeyTypes, KeyTypes', NoTreeIsStale,
         NEW t \in KeyThreads, KeepsOthers(t), NEW u \in KeyThreads \ {t}, Sound(u)
  PROVE  Sound(u)'
<1>1. /\ specific'[u] = specific[u] /\ doing'[u] = doing[u] /\ files'[u] = files[u]
      /\ thread'[u] = thread[u] /\ aux_depth'[u] = aux_depth[u] /\ aux_calls'[u] = aux_calls[u]
      /\ (program' = "beginning" /\ u = KeyMain) <=> (program = "beginning" /\ u = KeyMain)
  BY DEF KeepsOthers
<1>2. Tree(u)' = Tree(u) /\ Started(u)' = Started(u) /\ Missing(u)' = Missing(u)
  BY <1>1 DEF Tree, Started, Missing
<1>3. Tree(u) # 0 => Tree(u) \in 1 .. Len(tls) /\ tls[Tree(u)].owner = u
  <2>1. 1 \in AllKeys
    BY KeyFacts
  <2>2. Tree(u) \in 0 .. Len(tls)
    BY <2>1 DEF Tree, KeyTypes, KeysTypeOK
  <2>3. Len(tls) \in Nat
    BY DEF KeyTypes
  <2>4. Tree(u) # 0 => tls[Tree(u)].owner = u
    BY <2>1 DEF Tree, NoTreeIsStale
  <2>5. QED
    BY <2>2, <2>3, <2>4
<1>4. Tree(u) # 0 => tls'[Tree(u)] = tls[Tree(u)]
  BY <1>3 DEF KeepsOthers
<1>5. TreeWhere(u)'
  BY <1>1, <1>2 DEF TreeWhere, Sound
<1>6. StackFits(u)'
  BY <1>1, <1>2, <1>4 DEF StackFits, Sound
<1>7. CallsAreKept(u)'
  BY <1>1, <1>2, <1>4 DEF CallsAreKept, Sound
<1>8. DOMAIN tls = 1 .. Len(tls) /\ DOMAIN tls' = 1 .. Len(tls')
  BY DEF KeyTypes
<1>9. OthersFreed(u)'
  <2>1. SUFFICES ASSUME NEW v \in DOMAIN tls', tls'[v].owner = u, ~tls'[v].freed
                 PROVE  v = Tree(u)'
    BY DEF OthersFreed
  <2>2. v \in DOMAIN tls
    BY <1>8, <2>1 DEF KeepsOthers
  <2>3. tls'[v] = tls[v]
    BY <1>8, <2>1 DEF KeepsOthers
  <2>4. QED
    BY <1>2, <2>1, <2>2, <2>3 DEF OthersFreed, Sound
<1>10. QED
  BY <1>5, <1>6, <1>7, <1>9 DEF Sound

\* A thread that goes to another place of hcct_enter.
LEMMA Moved ==
  ASSUME KeyTypes, NEW t \in KeyThreads, NEW w, doing' = [doing EXCEPT ![t] = w]
  PROVE  \A x : In(x)' = IF x = w THEN In(x) \cup {t} ELSE In(x) \ {t}
<1>1. doing \in [KeyThreads -> {"application", "create", "activate", "init", "record"}]
  BY DEF KeyTypes, KeysTypeOK
<1>2. \A u \in KeyThreads : doing'[u] = IF u = t THEN w ELSE doing[u]
  BY <1>1
<1>3. QED
  BY <1>2 DEF In

\* The threads at one place are finitely many.
LEMMA SubsetsAreFinite ==
  \A x : /\ IsFiniteSet(In(x)) /\ Cardinality(In(x)) \in Nat
                /\ In(x) \subseteq KeyThreads
<1>1. \A x : In(x) \subseteq KeyThreads
  BY DEF In
<1>2. QED
  BY <1>1, KeyFacts, FS_Subset, FS_CardinalityType

\* A thread that finds tlsKey_active unset has not made a key, nor is it about to.
LEMMA RoomForAKey ==
  ASSUME KeyTypes, KeysInOrder, KeysAreFew, NEW t \in KeyThreads,
         doing[t] = "application", tlsKey_active = 0
  PROVE  /\ Cardinality(In("create") \cup {t}) = Cardinality(In("create")) + 1
         /\ Cardinality(keys) + Cardinality(In("create") \cup {t}) <= Cardinality(KeyThreads)
<1> DEFINE C == In("create")
           A == In("activate")
           CT == C \cup {t}
<1>1. /\ C \subseteq KeyThreads /\ A \subseteq KeyThreads /\ C \cap A = {}
      /\ t \notin C /\ t \notin A
  BY DEF In
<1>2. /\ IsFiniteSet(C) /\ IsFiniteSet(A) /\ Cardinality(C) \in Nat /\ Cardinality(A) \in Nat
  BY SubsetsAreFinite
<1> HIDE DEF C, A
<1>3. IsFiniteSet(CT) /\ Cardinality(CT) = Cardinality(C) + 1
  BY <1>1, <1>2, FS_AddElement
<1>4. CT \cap A = {} /\ CT \cup A \subseteq KeyThreads
  BY <1>1
<1> HIDE DEF CT
<1>5. /\ IsFiniteSet(CT \cup A)
      /\ Cardinality(CT \cup A) = Cardinality(CT) + Cardinality(A) - Cardinality(CT \cap A)
  BY <1>2, <1>3, FS_Union
<1>6. Cardinality(CT \cap A) = 0
  BY <1>4, FS_EmptySet
<1>7. Cardinality(CT \cup A) <= Cardinality(KeyThreads)
  BY <1>4, KeyFacts, FS_Subset
<1>8. Cardinality(keys) = Cardinality(A)
  BY DEF KeysAreFew, A
<1>9. QED
  BY <1>2, <1>3, <1>5, <1>6, <1>7, <1>8 DEF CT, C

\* __cyg_profile_func_enter, up to the key or the event.
LEMMA EnterKeeps ==
  ASSUME KeyInv, NEW t \in KeyThreads, KeyEnter(t)
  PROVE  KeyInv'
<1> DEFINE v == GetSpecific(t)
           w == IF tlsKey_active = 0 THEN "create" ELSE "init"
<1>1. /\ doing[t] = "application" /\ thread[t] \in {"running", "destructors"}
      /\ program \in {"loading", "beginning", "running"}
      /\ program = "beginning" => t # KeyMain
      /\ aux_depth' = [aux_depth EXCEPT ![t] = @ + 1]
      /\ aux_calls' = [aux_calls EXCEPT ![t] = @ + 1]
      /\ UNCHANGED <<program, tlsKey, tlsKey_active, keys, specific, thread, files>>
  BY DEF KeyEnter, Instrumented, shared
<1>2. \/ /\ v # 0 /\ doing' = doing
         /\ tls' = [tls EXCEPT ![v].cct_stack_idx = @ + 1, ![v].entered = @ + 1]
      \/ v = 0 /\ tls' = tls /\ doing' = [doing EXCEPT ![t] = w]
  BY DEF KeyEnter, Recorded
<1>3. KeyTypes /\ KeysInOrder /\ KeyIsMade /\ NothingYet /\ Beginning /\ KeysAreFew /\ TreesHaveOneKey
      /\ NoTreeIsStale /\ AllSound
  BY DEF KeyInv, KeyShape
<1>4. /\ v # 0 => /\ tlsKey \in keys /\ tlsKey \in AllKeys /\ v = specific[t][tlsKey]
                  /\ v \in 1 .. Len(tls) /\ tls[v].owner = t /\ ~tls[v].freed
      /\ OneKey => v = Tree(t)
  BY <1>3, SpecificTree
<1> HIDE DEF v
<1>5. /\ tls \in Seq(TlsObject) /\ tls' \in Seq(TlsObject) /\ Len(tls') = Len(tls)
      /\ \A x \in 1 .. Len(tls) : tls'[x].owner = tls[x].owner /\ tls'[x].freed = tls[x].freed /\ tls'[x].base = tls[x].base
      /\ \A x \in 1 .. Len(tls) : x # v => tls'[x] = tls[x]
      /\ v # 0 => /\ tls'[v].cct_stack_idx = tls[v].cct_stack_idx + 1
                  /\ tls'[v].entered = tls[v].entered + 1
  <2>1. tls \in Seq(TlsObject)
    BY <1>3 DEF KeyTypes
  <2>2. CASE v # 0
    BY <1>2, <1>4, <2>1, <2>2, EventRecorded
  <2>3. CASE v = 0
    BY <1>2, <2>1, <2>3
  <2>4. QED
    BY <2>2, <2>3
<1>6. /\ aux_depth \in [KeyThreads -> Nat] /\ aux_calls \in [KeyThreads -> Nat]
      /\ doing \in [KeyThreads -> {"application", "create", "activate", "init", "record"}]
  BY <1>3 DEF KeyTypes, KeysTypeOK
<1>7. KeyTypes'
  <2>1. doing' \in [KeyThreads -> {"application", "create", "activate", "init", "record"}]
    BY <1>2, <1>6
  <2>2. aux_depth' \in [KeyThreads -> Nat] /\ aux_calls' \in [KeyThreads -> Nat]
    BY <1>1, <1>6
  <2>3. KeysTypeOK'
    BY <1>1, <1>3, <1>5, <2>1 DEF KeyTypes, KeysTypeOK
  <2>4. files' \in [KeyThreads -> Seq(Nat)]
    BY <1>1, <1>3 DEF KeyTypes
  <2>5. QED
    BY <1>5, <2>2, <2>3, <2>4 DEF KeyTypes
<1>8. KeysInOrder' /\ TreesHaveOneKey'
  BY <1>1, <1>3 DEF KeysInOrder, TreesHaveOneKey
<1>9. NoTreeIsStale'
  <2>1. SUFFICES ASSUME NEW u \in KeyThreads, NEW k \in AllKeys, specific[u][k] # 0
                 PROVE  tls'[specific[u][k]].owner = u /\ ~tls'[specific[u][k]].freed
    BY <1>1 DEF NoTreeIsStale
  <2>2. specific[u][k] \in 1 .. Len(tls)
    BY <1>3, <2>1 DEF KeyTypes, KeysTypeOK
  <2>3. tls[specific[u][k]].owner = u /\ ~tls[specific[u][k]].freed
    BY <1>3, <2>1 DEF NoTreeIsStale
  <2>4. QED
    BY <1>5, <2>2, <2>3
<1>10. doing'[t] \in {"application", "create", "init"} /\ (doing'[t] = "init" => tlsKey_active # 0)
       /\ (doing'[t] = "application" <=> v # 0)
       /\ \A u \in KeyThreads \ {t} : doing'[u] = doing[u]
  BY <1>1, <1>2, <1>6
<1>11. KeyIsMade'
  BY <1>1, <1>3, <1>10 DEF KeyIsMade, KeyTypes, KeysTypeOK
<1>12. NothingYet'
  <2>1. tlsKey_active = 0 => v = 0
    BY <1>3, <1>4 DEF NothingYet
  <2>2. QED
    BY <1>1, <1>3, <1>6, <1>10, <2>1 DEF NothingYet
<1>13. Beginning'
  BY <1>1, <1>3, <1>6, <1>10, KeyFacts DEF Beginning
<1>14. KeysAreFew'
  <2>1. CASE v = 0 /\ tlsKey_active = 0
    <3>1. doing' = [doing EXCEPT ![t] = "create"]
      BY <1>2, <2>1
    <3>2. In("create")' = In("create") \cup {t} /\ In("activate")' = In("activate") \ {t}
      BY <1>3, <3>1, Moved
    <3>3. t \notin In("activate")
      BY <1>1 DEF In
    <3>4. Cardinality(keys) + Cardinality(In("create") \cup {t}) <= Cardinality(KeyThreads)
      BY <1>1, <1>3, <2>1, RoomForAKey
    <3>5. In("activate")' = In("activate")
      BY <3>2, <3>3
    <3>6. QED
      BY <1>1, <1>3, <3>2, <3>4, <3>5 DEF KeysAreFew
  <2>2. CASE ~(v = 0 /\ tlsKey_active = 0)
    <3>1. In("create")' = In("create") /\ In("activate")' = In("activate")
      BY <1>1, <1>6, <1>10, <1>2, <2>2 DEF In
    <3>2. QED
      BY <1>1, <1>3, <3>1 DEF KeysAreFew
  <2>3. QED
    BY <2>1, <2>2
<1>15. KeepsOthers(t)
  <2>1. \A u \in KeyThreads \ {t} :
          /\ specific'[u] = specific[u] /\ doing'[u] = doing[u] /\ files'[u] = files[u]
          /\ thread'[u] = thread[u] /\ aux_depth'[u] = aux_depth[u] /\ aux_calls'[u] = aux_calls[u]
          /\ (program' = "beginning" /\ u = KeyMain) <=> (program = "beginning" /\ u = KeyMain)
    BY <1>1, <1>10
  <2>2. \A x \in 1 .. Len(tls) : tls[x].owner # t => x # v
    BY <1>4
  <2>3. \A x \in 1 .. Len(tls) : tls[x].owner # t => tls'[x] = tls[x]
    BY <1>5, <2>2
  <2>4. \A x \in 1 .. Len(tls) : tls'[x].owner # t => tls'[x] = tls[x]
    BY <1>5, <2>3
  <2>5. QED
    BY <1>5, <2>1, <2>3, <2>4 DEF KeepsOthers
<1>16. ASSUME OneKey', Going', NEW u \in KeyThreads
       PROVE  Sound(u)'
  <2>1. OneKey /\ Going
    BY <1>1, <1>16 DEF OneKey, Going
  <2>2. Sound(u) /\ Sound(t)
    BY <1>3, <1>16, <2>1 DEF AllSound
  <2>3. CASE u # t
    BY <1>3, <1>7, <1>15, <2>2, <2>3, OthersSound
  <2>4. CASE u = t
    <3>1. v = Tree(t) /\ Tree(t)' = Tree(t)
      BY <1>1, <1>4, <2>1 DEF Tree
    <3>2. aux_depth'[t] = aux_depth[t] + 1 /\ aux_calls'[t] = aux_calls[t] + 1
          /\ aux_depth[t] \in Nat /\ aux_calls[t] \in Nat
      BY <1>1, <1>6
    <3>3. thread'[t] = thread[t] /\ files'[t] = files[t]
      BY <1>1
    <3>4. Missing(t) = 0 /\ Missing(t)' = 0 /\ Started(t) = 0 /\ (v = 0 => Started(t)' = 1)
      BY <1>1, <1>10 DEF Missing, Started
    <3>5. TreeWhere(t)'
      BY <1>1, <1>10, <2>2, <3>1, <3>2, <3>3 DEF TreeWhere, Sound
    <3>6. v # 0 => /\ tls[v] \in TlsObject /\ tls'[v].base = tls[v].base
                   /\ tls'[v].cct_stack_idx = tls[v].cct_stack_idx + 1
                   /\ tls'[v].entered = tls[v].entered + 1
      <4>1. v # 0 => v \in 1 .. Len(tls)
        BY <1>4
      <4>2. v # 0 => tls[v] \in TlsObject /\ tls'[v].base = tls[v].base
        BY <1>5, <4>1
      <4>3. QED
        BY <1>5, <4>2
    <3>7. v # 0 => tls[v].base \in Int /\ tls[v].cct_stack_idx \in Int /\ tls[v].entered \in Nat
      BY <3>6 DEF TlsObject
    <3>8. StackFits(t)'
      BY <2>2, <3>1, <3>2, <3>3, <3>4, <3>6, <3>7 DEF StackFits, Sound
    <3>9. OthersFreed(t)'
      <4>1. DOMAIN tls = 1 .. Len(tls) /\ DOMAIN tls' = 1 .. Len(tls)
        BY <1>5
      <4>2. \A x \in 1 .. Len(tls) : tls'[x].owner = tls[x].owner /\ tls'[x].freed = tls[x].freed
        BY <1>5
      <4>3. QED
        BY <2>2, <3>1, <4>1, <4>2 DEF OthersFreed, Sound
    <3>10. CallsAreKept(t)'
      BY <1>1, <1>10, <2>2, <3>1, <3>2, <3>3, <3>4, <3>6, <3>7 DEF CallsAreKept, Sound
    <3>11. QED
      BY <2>4, <3>5, <3>8, <3>9, <3>10 DEF Sound
  <2>5. QED
    BY <2>3, <2>4
<1>17. QED
  BY <1>7, <1>8, <1>9, <1>11, <1>12, <1>13, <1>14, <1>16 DEF KeyInv, KeyShape, AllSound

\* One key of one thread gets a value.
LEMMA ValueSet ==
  ASSUME NEW S, NEW f \in [KeyThreads -> [AllKeys -> S]], NEW t \in KeyThreads,
         NEW k \in AllKeys, NEW x \in S
  PROVE  /\ [f EXCEPT ![t][k] = x] \in [KeyThreads -> [AllKeys -> S]]
         /\ \A u \in KeyThreads : \A l \in AllKeys :
              [f EXCEPT ![t][k] = x][u][l] = IF u = t /\ l = k THEN x ELSE f[u][l]
         /\ \A u \in KeyThreads \ {t} : [f EXCEPT ![t][k] = x][u] = f[u]
OBVIOUS

\* Steps by which keys and places stay what they are.
LEMMA KeysStay ==
  ASSUME KeysAreFew, UNCHANGED <<keys, tlsKey_active>>,
         \A u \in KeyThreads : doing'[u] # doing[u] =>
            doing[u] \notin {"create", "activate"} /\ doing'[u] \notin {"create", "activate"}
  PROVE  KeysAreFew'
<1>1. In("create")' = In("create") /\ In("activate")' = In("activate")
  BY DEF In
<1>2. QED
  BY <1>1 DEF KeysAreFew

\* All threads are as they should be when the one that took a step is.
LEMMA ConcludeSound ==
  ASSUME KeyInv, KeyTypes', NEW t \in KeyThreads, KeepsOthers(t),
         OneKey' /\ Going' => OneKey /\ Going,
         OneKey' /\ Going' /\ Sound(t) => Sound(t)'
  PROVE  AllSound'
<1>1. SUFFICES ASSUME OneKey', Going', NEW u \in KeyThreads
               PROVE  Sound(u)'
  BY DEF AllSound
<1>2. Sound(u) /\ Sound(t)
  BY <1>1 DEF KeyInv, AllSound
<1>3. CASE u # t
  BY <1>2, <1>3, OthersSound DEF KeyInv, KeyShape
<1>4. CASE u = t
  BY <1>1, <1>2, <1>4
<1>5. QED
  BY <1>3, <1>4

\* trace_begin.
LEMMA TraceBeginKeeps ==
  ASSUME KeyInv, KeyTraceBegin
  PROVE  KeyInv'
<1> DEFINE t == KeyMain
<1>1. /\ program = "loading" /\ doing[t] = "application" /\ t \in KeyThreads
      /\ UNCHANGED <<tlsKey, tlsKey_active, keys, specific, tls, thread, files, aux_depth, aux_calls>>
  BY KeyFacts DEF KeyTraceBegin
<1>2. IF tlsKey_active = 0 THEN program' = "beginning" /\ doing' = [doing EXCEPT ![t] = "create"]
      ELSE program' = "running" /\ doing' = doing
  BY DEF KeyTraceBegin
<1>3. KeyTypes /\ KeysInOrder /\ KeyIsMade /\ NothingYet /\ Beginning /\ KeysAreFew /\ TreesHaveOneKey
      /\ NoTreeIsStale /\ AllSound
  BY DEF KeyInv, KeyShape
<1>4. doing \in [KeyThreads -> {"application", "create", "activate", "init", "record"}]
  BY <1>3 DEF KeyTypes, KeysTypeOK
<1> HIDE DEF t
<1>5. /\ \A u \in KeyThreads \ {t} : doing'[u] = doing[u]
      /\ doing'[t] = IF tlsKey_active = 0 THEN "create" ELSE "application"
      /\ doing' \in [KeyThreads -> {"application", "create", "activate", "init", "record"}]
  BY <1>1, <1>2, <1>4
<1>6. KeyTypes'
  BY <1>1, <1>2, <1>3, <1>5 DEF KeyTypes, KeysTypeOK
<1>7. KeysInOrder' /\ TreesHaveOneKey' /\ NoTreeIsStale'
  BY <1>1, <1>3 DEF KeysInOrder, TreesHaveOneKey, NoTreeIsStale
<1>8. KeyIsMade' /\ NothingYet'
  BY <1>1, <1>3, <1>5 DEF KeyIsMade, NothingYet
<1>9. Beginning'
  <2>1. tlsKey_active = 0 => aux_depth[t] = 0
    BY <1>1, <1>3 DEF NothingYet
  <2>2. QED
    BY <1>1, <1>2, <1>3, <1>5, <2>1 DEF Beginning, t
<1>10. KeysAreFew'
  <2>1. CASE tlsKey_active = 0
    <3>1. doing' = [doing EXCEPT ![t] = "create"]
      BY <1>2, <2>1
    <3>2. In("create")' = In("create") \cup {t} /\ In("activate")' = In("activate") \ {t}
      BY <1>1, <1>3, <3>1, Moved
    <3>3. t \notin In("activate")
      BY <1>1 DEF In
    <3>4. Cardinality(keys) + Cardinality(In("create") \cup {t}) <= Cardinality(KeyThreads)
      BY <1>1, <1>3, <2>1, RoomForAKey
    <3>5. In("activate")' = In("activate")
      BY <3>2, <3>3
    <3>6. QED
      BY <1>1, <1>3, <3>2, <3>4, <3>5 DEF KeysAreFew
  <2>2. CASE tlsKey_active # 0
    BY <1>1, <1>2, <1>3, <2>2, KeysStay
  <2>3. QED
    BY <2>1, <2>2
<1>11. KeepsOthers(t)
  BY <1>1, <1>5 DEF KeepsOthers, t
<1>12. ASSUME Sound(t)
       PROVE  Sound(t)'
  <2>1. Tree(t)' = Tree(t) /\ (tlsKey_active = 0 => Tree(t) = 0 /\ aux_calls[t] = 0)
    BY <1>1, <1>3, KeyFacts DEF Tree, NothingYet
  <2>2. Started(t) = 0 /\ Started(t)' = 0 /\ Missing(t) = 0 /\ Missing(t)' = 0
    BY <1>1, <1>2, <1>5 DEF Started, Missing, t
  <2>3. thread[t] = "running"
    BY <1>1, <1>3 DEF Beginning, t
  <2>4. TreeWhere(t)' /\ StackFits(t)' /\ OthersFreed(t)'
    BY <1>1, <1>5, <1>12, <2>1, <2>2, <2>3 DEF TreeWhere, StackFits, OthersFreed, Sound
  <2>5. CallsAreKept(t)'
    BY <1>1, <1>5, <1>12, <2>1, <2>2, <2>3 DEF CallsAreKept, Sound
  <2>6. QED
    BY <2>4, <2>5 DEF Sound
<1>13. AllSound'
  <2>1. OneKey' /\ Going' => OneKey /\ Going
    BY <1>1 DEF OneKey, Going
  <2>2. QED
    BY <1>1, <1>6, <1>11, <1>12, <2>1, ConcludeSound
<1>14. QED
  BY <1>6, <1>7, <1>8, <1>9, <1>10, <1>13 DEF KeyInv, KeyShape

\* pthread_key_create.
LEMMA CreateKeyKeeps ==
  ASSUME KeyInv, NEW t \in KeyThreads, CreateKey(t)
  PROVE  KeyInv'
<1> DEFINE n == Cardinality(keys)
           k == n + 1
<1>1. /\ doing[t] = "create" /\ Going
      /\ doing' = [doing EXCEPT ![t] = "activate"]
      /\ tlsKey' = k /\ keys' = keys \cup {k}
      /\ UNCHANGED <<program, tlsKey_active, specific, tls, thread, files, aux_depth, aux_calls>>
  BY DEF CreateKey
<1>2. KeyTypes /\ KeysInOrder /\ KeyIsMade /\ NothingYet /\ Beginning /\ KeysAreFew /\ TreesHaveOneKey
      /\ NoTreeIsStale /\ AllSound
  BY DEF KeyInv, KeyShape
<1>3. doing \in [KeyThreads -> {"application", "create", "activate", "init", "record"}]
  BY <1>2 DEF KeyTypes, KeysTypeOK
<1>4. /\ \A u \in KeyThreads \ {t} : doing'[u] = doing[u]
      /\ doing'[t] = "activate"
      /\ doing' \in [KeyThreads -> {"application", "create", "activate", "init", "record"}]
  BY <1>1, <1>3
<1>5. IsFiniteSet(keys) /\ n \in Nat /\ keys = 1 .. n /\ (OneKey <=> n <= 1)
  BY <1>2, OneKeyMeans
<1> HIDE DEF n
<1>6. keys' = 1 .. k /\ k \in Nat /\ Cardinality(keys') = k /\ k >= 1
  <2>1. k \notin keys /\ k \in Nat /\ keys \cup {k} = 1 .. k
    BY <1>5
  <2>2. Cardinality(keys \cup {k}) = Cardinality(keys) + 1
    BY <1>5, <2>1, FS_AddElement
  <2>3. Cardinality(keys) = n
    BY DEF n
  <2>4. QED
    BY <1>1, <1>5, <2>1, <2>2, <2>3
<1>7. /\ In("create")' = In("create") \ {t} /\ In("activate")' = In("activate") \cup {t}
      /\ t \in In("create") /\ t \notin In("activate")
  <2>1. \A x : In(x)' = IF x = "activate" THEN In(x) \cup {t} ELSE In(x) \ {t}
    BY <1>1, <1>2, Moved
  <2>2. t \in In("create") /\ t \notin In("activate")
    BY <1>1 DEF In
  <2>3. QED
    BY <2>1, <2>2
<1>8. /\ IsFiniteSet(In("create")) /\ IsFiniteSet(In("activate"))
      /\ Cardinality(In("create")) \in Nat /\ Cardinality(In("activate")) \in Nat
  BY SubsetsAreFinite
<1>9. /\ Cardinality(In("create") \ {t}) = Cardinality(In("create")) - 1
      /\ Cardinality(In("activate") \cup {t}) = Cardinality(In("activate")) + 1
  BY <1>7, <1>8, FS_RemoveElement, FS_AddElement
<1>10. KeysAreFew'
  <2>1. /\ n + Cardinality(In("create")) <= Cardinality(KeyThreads)
        /\ tlsKey_active = 0 => n = Cardinality(In("activate"))
    BY <1>2 DEF KeysAreFew, n
  <2>2. /\ Cardinality(keys') = n + 1
        /\ Cardinality(In("create")') = Cardinality(In("create")) - 1
        /\ Cardinality(In("activate")') = Cardinality(In("activate")) + 1
    BY <1>6, <1>7, <1>9
  <2>3. Cardinality(keys)' = Cardinality(keys') /\ Cardinality(KeyThreads) \in Nat
    BY KeyFacts
  <2>4. QED
    BY <1>1, <1>5, <1>8, <2>1, <2>2, <2>3 DEF KeysAreFew
<1>11. k \in AllKeys
  <2>1. Cardinality(In("create") \ {t}) \in Nat
    BY <1>8, FS_RemoveElement, FS_CardinalityType
  <2>2. n + Cardinality(In("create")) <= Cardinality(KeyThreads)
    BY <1>2 DEF KeysAreFew, n
  <2>3. QED
    BY <1>5, <1>6, <1>8, <1>9, <2>1, <2>2, KeyFacts
<1>12. KeyTypes'
  BY <1>1, <1>2, <1>4, <1>11 DEF KeyTypes, KeysTypeOK
<1>13. KeysInOrder'
  <2>1. /\ \E m \in Nat : keys' = 1 .. m
        /\ tlsKey' \in keys'
    BY <1>1, <1>6
  <2>2. \A u \in KeyThreads, l \in AllKeys : specific'[u][l] # 0 => l \in keys'
    BY <1>1, <1>2 DEF KeysInOrder
  <2>3. QED
    BY <2>1, <2>2 DEF KeysInOrder
<1>14. TreesHaveOneKey' /\ NoTreeIsStale'
  BY <1>1, <1>2 DEF TreesHaveOneKey, NoTreeIsStale
<1>15. KeyIsMade' /\ NothingYet' /\ Beginning'
  BY <1>1, <1>2, <1>4, KeyFacts DEF KeyIsMade, NothingYet, Beginning
<1>16. KeepsOthers(t)
  BY <1>1, <1>4 DEF KeepsOthers
<1>17. ASSUME Sound(t)
       PROVE  Sound(t)'
  <2>1. Tree(t)' = Tree(t) /\ Started(t)' = Started(t) /\ Missing(t)' = Missing(t)
    BY <1>1, <1>4 DEF Tree, Started, Missing
  <2>2. QED
    BY <1>1, <1>4, <1>17, <2>1 DEF TreeWhere, StackFits, OthersFreed, CallsAreKept, Sound
<1>18. AllSound'
  <2>1. OneKey' => k <= 1
    BY <1>6 DEF OneKey
  <2>2. OneKey' /\ Going' => OneKey /\ Going
    BY <1>1, <1>5, <2>1
  <2>3. QED
    BY <1>12, <1>16, <1>17, <2>2, ConcludeSound
<1>19. QED
  BY <1>10, <1>12, <1>13, <1>14, <1>15, <1>18 DEF KeyInv, KeyShape

\* The flag that there is a key.
LEMMA ActivateKeyKeeps ==
  ASSUME KeyInv, NEW t \in KeyThreads, ActivateKey(t)
  PROVE  KeyInv'
<1>1. /\ doing[t] = "activate" /\ Going /\ tlsKey_active' = 1
      /\ UNCHANGED <<tlsKey, keys, specific, tls, thread, files, aux_depth, aux_calls>>
      /\ IF program = "beginning" /\ t = KeyMain
         THEN program' = "running" /\ doing' = [doing EXCEPT ![t] = "application"]
         ELSE program' = program /\ doing' = [doing EXCEPT ![t] = "init"]
  BY DEF ActivateKey
<1>2. KeyTypes /\ KeysInOrder /\ KeyIsMade /\ NothingYet /\ Beginning /\ KeysAreFew /\ TreesHaveOneKey
      /\ NoTreeIsStale /\ AllSound
  BY DEF KeyInv, KeyShape
<1>3. /\ doing \in [KeyThreads -> {"application", "create", "activate", "init", "record"}]
      /\ tls \in Seq(TlsObject) /\ aux_depth \in [KeyThreads -> Nat]
      /\ aux_calls \in [KeyThreads -> Nat]
  BY <1>2 DEF KeyTypes, KeysTypeOK
<1>4. /\ \A u \in KeyThreads \ {t} : doing'[u] = doing[u]
      /\ doing'[t] = IF program = "beginning" /\ t = KeyMain THEN "application" ELSE "init"
      /\ doing' \in [KeyThreads -> {"application", "create", "activate", "init", "record"}]
  BY <1>1, <1>3
<1>5. KeyTypes'
  BY <1>1, <1>2, <1>4 DEF KeyTypes, KeysTypeOK
<1>6. KeysInOrder' /\ TreesHaveOneKey' /\ NoTreeIsStale'
  BY <1>1, <1>2 DEF KeysInOrder, TreesHaveOneKey, NoTreeIsStale
<1>7. KeyIsMade' /\ NothingYet' /\ Beginning'
  BY <1>1, <1>2, <1>4, KeyFacts DEF KeyIsMade, NothingYet, Beginning
<1>8. KeysAreFew'
  <2>1. In("create")' = In("create")
    BY <1>1, <1>4 DEF In
  <2>2. QED
    BY <1>1, <1>2, <2>1 DEF KeysAreFew
<1>9. KeepsOthers(t)
  BY <1>1, <1>4 DEF KeepsOthers
<1>10. ASSUME Sound(t)
       PROVE  Sound(t)'
  <2>1. Tree(t)' = Tree(t) /\ Missing(t)' = 0 /\ Missing(t) = 0
    BY <1>1, <1>4 DEF Tree, Missing
  <2>2. Started(t)' = Started(t)
    BY <1>1, <1>4 DEF Started
  <2>3. /\ Tree(t) = 0 /\ thread[t] \notin {"new", "ended"}
        /\ thread'[t] = thread[t] /\ files'[t] = files[t]
        /\ aux_depth'[t] = aux_depth[t] /\ aux_calls'[t] = aux_calls[t]
    BY <1>1, <1>10 DEF Sound, TreeWhere
  <2>4. doing'[t] = "application" => aux_depth[t] = 0 /\ thread[t] = "running"
    BY <1>2, <1>4 DEF Beginning
  <2>5. TreeWhere(t)'
    BY <1>4, <2>1, <2>3, <2>4 DEF TreeWhere
  <2>6. StackFits(t)' /\ OthersFreed(t)'
    BY <1>1, <1>10, <2>1, <2>3 DEF StackFits, OthersFreed, Sound
  <2>7. CallsAreKept(t)'
    BY <1>10, <2>1, <2>2, <2>3, <2>4 DEF CallsAreKept, Sound
  <2>8. QED
    BY <2>5, <2>6, <2>7 DEF Sound
<1>11. AllSound'
  <2>1. OneKey' => OneKey
    BY <1>1 DEF OneKey
  <2>2. QED
    BY <1>1, <1>5, <1>9, <1>10, <2>1, ConcludeSound
<1>12. QED
  BY <1>5, <1>6, <1>7, <1>8, <1>11 DEF KeyInv, KeyShape

\* pthread_setspecific gives a new tree to the thread.
LEMMA InitEffects ==
  ASSUME KeyTypes, KeysInOrder, TreesHaveOneKey, NoTreeIsStale,
         NEW t \in KeyThreads, NEW b \in Int, InitTls(t, b),
         UNCHANGED <<tlsKey, keys>>
  PROVE  /\ tls' \in Seq(TlsObject) /\ Len(tls') = Len(tls) + 1
         /\ \A v \in 1 .. Len(tls) : tls'[v] = tls[v]
         /\ tls'[Len(tls) + 1] = NewTls(t, b)
         /\ specific' \in [KeyThreads -> [AllKeys -> 0 .. Len(tls')]]
         /\ \A u \in KeyThreads \ {t} : specific'[u] = specific[u]
         /\ tlsKey \in keys => specific'[t][tlsKey] = Len(tls) + 1
         /\ KeysInOrder' /\ TreesHaveOneKey' /\ NoTreeIsStale'
<1> DEFINE new == Len(tls) + 1
<1>1. /\ tls' = Append(tls, NewTls(t, b))
      /\ specific' = IF tlsKey \in keys THEN [specific EXCEPT ![t][tlsKey] = new] ELSE specific
  BY DEF InitTls
<1>2. tls \in Seq(TlsObject) /\ b \in Int /\ Len(tls) \in Nat
  BY DEF KeyTypes
<1>3. /\ tls' \in Seq(TlsObject) /\ Len(tls') = new
      /\ \A v \in 1 .. Len(tls) : tls'[v] = tls[v]
      /\ tls'[new] = NewTls(t, b)
  BY <1>1, <1>2, TreeMade
<1>4. specific \in [KeyThreads -> [AllKeys -> 0 .. Len(tls)]] /\ keys \subseteq AllKeys
  BY DEF KeyTypes, KeysTypeOK
<1>5. new \in 0 .. Len(tls')
  BY <1>2, <1>3
<1>6. specific \in [KeyThreads -> [AllKeys -> 0 .. Len(tls')]]
  BY <1>2, <1>3, <1>4
<1> HIDE DEF new
<1>7. /\ specific' \in [KeyThreads -> [AllKeys -> 0 .. Len(tls')]]
      /\ \A u \in KeyThreads : \A l \in AllKeys :
           specific'[u][l] = IF tlsKey \in keys /\ u = t /\ l = tlsKey THEN new ELSE specific[u][l]
      /\ \A u \in KeyThreads \ {t} : specific'[u] = specific[u]
  <2>1. CASE tlsKey \in keys
    <3>1. tlsKey \in AllKeys /\ specific' = [specific EXCEPT ![t][tlsKey] = new]
      BY <1>1, <1>4, <2>1
    <3>2. /\ [specific EXCEPT ![t][tlsKey] = new] \in [KeyThreads -> [AllKeys -> 0 .. Len(tls')]]
          /\ \A u \in KeyThreads : \A l \in AllKeys :
               [specific EXCEPT ![t][tlsKey] = new][u][l] = IF u = t /\ l = tlsKey THEN new ELSE specific[u][l]
          /\ \A u \in KeyThreads \ {t} : [specific EXCEPT ![t][tlsKey] = new][u] = specific[u]
      BY <1>5, <1>6, <3>1, ValueSet
    <3>3. QED
      BY <2>1, <3>1, <3>2
  <2>2. CASE tlsKey \notin keys
    BY <1>1, <1>6, <2>2
  <2>3. QED
    BY <2>1, <2>2
<1>8. tlsKey \in keys => specific'[t][tlsKey] = new
  BY <1>4, <1>7
<1>9. KeysInOrder'
  <2>1. (\E n \in Nat : keys' = 1 .. n) /\ (tlsKey' \in keys' \/ (keys' = {} /\ tlsKey' = Unmade))
    BY DEF KeysInOrder
  <2>2. \A u \in KeyThreads, l \in AllKeys : specific'[u][l] # 0 => l \in keys'
    BY <1>7 DEF KeysInOrder
  <2>3. QED
    BY <2>1, <2>2 DEF KeysInOrder
<1>10. \A u \in KeyThreads, l \in AllKeys : specific[u][l] # new
  BY <1>2, <1>4 DEF new
<1>11. TreesHaveOneKey'
  <2>1. SUFFICES ASSUME NEW u1 \in KeyThreads, NEW u2 \in KeyThreads,
                        NEW k1 \in AllKeys, NEW k2 \in AllKeys,
                        specific'[u1][k1] # 0, specific'[u1][k1] = specific'[u2][k2]
                 PROVE  u1 = u2 /\ k1 = k2
    BY DEF TreesHaveOneKey
  <2>2. QED
    BY <1>7, <1>10, <2>1 DEF TreesHaveOneKey
<1>12. NoTreeIsStale'
  <2>1. SUFFICES ASSUME NEW u \in KeyThreads, NEW k \in AllKeys, specific'[u][k] # 0
                 PROVE  /\ tls'[specific'[u][k]].owner = u
                        /\ ~tls'[specific'[u][k]].freed
    BY DEF NoTreeIsStale
  <2>2. CASE specific'[u][k] = specific[u][k]
    <3>1. specific[u][k] \in 1 .. Len(tls)
      BY <1>2, <1>4, <2>1, <2>2
    <3>2. tls'[specific[u][k]] = tls[specific[u][k]]
      BY <1>3, <3>1
    <3>3. QED
      BY <2>1, <2>2, <3>2 DEF NoTreeIsStale
  <2>3. CASE u = t /\ specific'[u][k] = new
    BY <1>3, <2>3 DEF NewTls
  <2>4. QED
    BY <1>7, <2>2, <2>3
<1>13. QED
  BY <1>3, <1>7, <1>8, <1>9, <1>11, <1>12 DEF new

\* hcct_init inside hcct_enter.
LEMMA EnterInitKeeps ==
  ASSUME KeyInv, NEW t \in KeyThreads, EnterInit(t)
  PROVE  KeyInv'
<1> DEFINE new == Len(tls) + 1
           b == aux_depth[t] - 1
<1>1. /\ doing[t] = "init" /\ Going /\ InitTls(t, b)
      /\ doing' = [doing EXCEPT ![t] = "record"]
      /\ UNCHANGED <<program, tlsKey, tlsKey_active, keys, thread, files, aux_depth, aux_calls>>
  BY DEF EnterInit, shared
<1>2. KeyTypes /\ KeysInOrder /\ KeyIsMade /\ NothingYet /\ Beginning /\ KeysAreFew /\ TreesHaveOneKey
      /\ NoTreeIsStale /\ AllSound
  BY DEF KeyInv, KeyShape
<1>3. /\ doing \in [KeyThreads -> {"application", "create", "activate", "init", "record"}]
      /\ tls \in Seq(TlsObject) /\ aux_depth \in [KeyThreads -> Nat]
      /\ aux_calls \in [KeyThreads -> Nat]
  BY <1>2 DEF KeyTypes, KeysTypeOK
<1>4. /\ \A u \in KeyThreads \ {t} : doing'[u] = doing[u]
      /\ doing'[t] = "record"
      /\ doing' \in [KeyThreads -> {"application", "create", "activate", "init", "record"}]
  BY <1>1, <1>3
<1>5. b \in Int
  BY <1>3
<1>6. InitTls(t, b) /\ UNCHANGED <<tlsKey, keys>>
  BY <1>1
<1> HIDE DEF b
<1>7. /\ tls' \in Seq(TlsObject) /\ Len(tls') = new
      /\ \A v \in 1 .. Len(tls) : tls'[v] = tls[v]
      /\ tls'[new] = NewTls(t, b)
      /\ specific' \in [KeyThreads -> [AllKeys -> 0 .. Len(tls')]]
      /\ \A u \in KeyThreads \ {t} : specific'[u] = specific[u]
      /\ tlsKey \in keys => specific'[t][tlsKey] = new
      /\ KeysInOrder' /\ TreesHaveOneKey' /\ NoTreeIsStale'
  BY <1>2, <1>5, <1>6, InitEffects
<1>8. KeyTypes'
  BY <1>1, <1>2, <1>4, <1>7 DEF KeyTypes, KeysTypeOK
<1>9. tlsKey_active # 0
  BY <1>1, <1>2 DEF NothingYet
<1>10. KeyIsMade' /\ NothingYet' /\ Beginning'
  BY <1>1, <1>2, <1>4, <1>9 DEF KeyIsMade, NothingYet, Beginning
<1>11. KeysAreFew'
  BY <1>1, <1>2, <1>4, KeysStay
<1>12. Len(tls) \in Nat /\ tls'[new].owner = t
  BY <1>3, <1>7 DEF NewTls
<1> HIDE DEF new
<1>13. KeepsOthers(t)
  <2>1. new = Len(tls) + 1
    BY DEF new
  <2>2. QED
    BY <1>1, <1>4, <1>7, <1>12, <2>1 DEF KeepsOthers
<1>14. ASSUME OneKey', Going', Sound(t)
       PROVE  Sound(t)'
  <2>1. OneKey /\ keys # {}
    BY <1>1, <1>2, <1>14 DEF OneKey, KeyIsMade
  <2>2. tlsKey = 1 /\ tlsKey \in keys
    BY <1>2, <2>1, SpecificTree DEF KeysInOrder
  <2>3. Tree(t)' = new /\ Tree(t) = 0 /\ new # 0
    BY <1>1, <1>7, <1>12, <1>14, <2>2 DEF Tree, Sound, TreeWhere, new
  <2>4. thread'[t] = thread[t] /\ files'[t] = files[t]
        /\ aux_depth'[t] = aux_depth[t] /\ aux_calls'[t] = aux_calls[t]
        /\ aux_depth[t] \in Nat
    BY <1>1, <1>3
  <2>5. Started(t) = 1 /\ Missing(t)' = 1
    BY <1>1, <1>2, <1>4 DEF Started, Missing, Beginning
  <2>6. tls'[new].cct_stack_idx = 0 /\ tls'[new].entered = 0 /\ tls'[new].base = b
        /\ tls'[new].owner = t
    BY <1>7 DEF NewTls
  <2>7. TreeWhere(t)'
    BY <1>1, <1>4, <1>14, <2>3, <2>4 DEF TreeWhere, Sound
  <2>8. StackFits(t)'
    BY <2>3, <2>4, <2>5, <2>6 DEF StackFits, b
  <2>9. OthersFreed(t)'
    <3>1. SUFFICES ASSUME NEW v \in DOMAIN tls', tls'[v].owner = t, ~tls'[v].freed, v # new
                   PROVE  FALSE
      BY <2>3 DEF OthersFreed
    <3>2. v \in DOMAIN tls /\ tls'[v] = tls[v]
      <4>1. DOMAIN tls = 1 .. Len(tls) /\ DOMAIN tls' = 1 .. new
        BY <1>3, <1>7
      <4>2. new = Len(tls) + 1
        BY DEF new
      <4>3. v \in 1 .. Len(tls)
        BY <1>12, <3>1, <4>1, <4>2
      <4>4. QED
        BY <1>7, <4>1, <4>3
    <3>3. v = Tree(t)
      BY <1>14, <3>1, <3>2 DEF OthersFreed, Sound
    <3>4. QED
      BY <1>3, <2>3, <3>2, <3>3
  <2>10. CallsAreKept(t)'
    BY <1>1, <1>4, <1>14, <2>3, <2>4, <2>5, <2>6 DEF CallsAreKept, Sound
  <2>11. QED
    BY <2>7, <2>8, <2>9, <2>10 DEF Sound
<1>15. AllSound'
  <2>1. OneKey' => OneKey
    BY <1>1 DEF OneKey
  <2>2. QED
    BY <1>1, <1>8, <1>13, <1>14, <2>1, ConcludeSound
<1>16. QED
  BY <1>7, <1>8, <1>10, <1>11, <1>15 DEF KeyInv, KeyShape

\* The event that brought the tree.
LEMMA EnterRecordKeeps ==
  ASSUME KeyInv, NEW t \in KeyThreads, EnterRecord(t)
  PROVE  KeyInv'
<1> DEFINE v == GetSpecific(t)
<1>1. /\ doing[t] = "record" /\ Going
      /\ doing' = [doing EXCEPT ![t] = "application"]
      /\ tls' = IF v = 0 THEN tls
                 ELSE [tls EXCEPT ![v].cct_stack_idx = @ + 1, ![v].entered = @ + 1]
      /\ UNCHANGED <<program, tlsKey, tlsKey_active, keys, specific, thread, files, aux_depth, aux_calls>>
  BY DEF EnterRecord, shared, Recorded
<1>2. KeyTypes /\ KeysInOrder /\ KeyIsMade /\ NothingYet /\ Beginning /\ KeysAreFew /\ TreesHaveOneKey
      /\ NoTreeIsStale /\ AllSound
  BY DEF KeyInv, KeyShape
<1>3. /\ doing \in [KeyThreads -> {"application", "create", "activate", "init", "record"}]
      /\ tls \in Seq(TlsObject) /\ aux_depth \in [KeyThreads -> Nat]
      /\ aux_calls \in [KeyThreads -> Nat]
  BY <1>2 DEF KeyTypes, KeysTypeOK
<1>4. /\ v # 0 => /\ v \in 1 .. Len(tls) /\ tls[v].owner = t
      /\ OneKey => v = Tree(t)
  BY <1>2, SpecificTree
<1> HIDE DEF v
<1>5. /\ tls' \in Seq(TlsObject) /\ Len(tls') = Len(tls)
      /\ \A w \in 1 .. Len(tls) : tls'[w].owner = tls[w].owner /\ tls'[w].freed = tls[w].freed /\ tls'[w].base = tls[w].base
      /\ \A w \in 1 .. Len(tls) : w # v => tls'[w] = tls[w]
      /\ v # 0 => /\ tls'[v].cct_stack_idx = tls[v].cct_stack_idx + 1
                  /\ tls'[v].entered = tls[v].entered + 1
  <2>1. CASE v # 0
    <3>1. v = 0 \/ tls' = [tls EXCEPT ![v].cct_stack_idx = @ + 1, ![v].entered = @ + 1]
      BY <1>1
    <3>2. tls \in Seq(TlsObject) /\ v \in 1 .. Len(tls)
      BY <1>3, <1>4, <2>1
    <3>3. /\ tls' \in Seq(TlsObject) /\ Len(tls') = Len(tls)
          /\ \A w \in 1 .. Len(tls) : tls'[w].owner = tls[w].owner /\ tls'[w].freed = tls[w].freed /\ tls'[w].base = tls[w].base
          /\ \A w \in 1 .. Len(tls) : w # v => tls'[w] = tls[w]
          /\ tls'[v].cct_stack_idx = tls[v].cct_stack_idx + 1 /\ tls'[v].entered = tls[v].entered + 1
      BY <2>1, <3>1, <3>2, EventRecorded
    <3>4. QED
      BY <1>3, <3>3
  <2>2. CASE v = 0
    BY <1>1, <1>3, <2>2
  <2>3. QED
    BY <2>1, <2>2
<1>6. /\ \A u \in KeyThreads \ {t} : doing'[u] = doing[u]
      /\ doing'[t] = "application"
      /\ doing' \in [KeyThreads -> {"application", "create", "activate", "init", "record"}]
  BY <1>1, <1>3
<1>7. KeyTypes'
  BY <1>1, <1>2, <1>5, <1>6 DEF KeyTypes, KeysTypeOK
<1>8. KeysInOrder' /\ TreesHaveOneKey'
  BY <1>1, <1>2 DEF KeysInOrder, TreesHaveOneKey
<1>9. NoTreeIsStale'
  <2>1. specific' = specific
    BY <1>1
  <2>2. SUFFICES ASSUME NEW u \in KeyThreads, NEW k \in AllKeys, specific[u][k] # 0
                 PROVE  tls'[specific[u][k]].owner = u /\ ~tls'[specific[u][k]].freed
    BY <2>1 DEF NoTreeIsStale
  <2>3. specific[u][k] \in 1 .. Len(tls)
    BY <1>2, <2>2 DEF KeyTypes, KeysTypeOK
  <2>4. tls[specific[u][k]].owner = u /\ ~tls[specific[u][k]].freed
    BY <1>2, <2>2 DEF NoTreeIsStale
  <2>5. QED
    BY <1>5, <2>3, <2>4
<1>10. tlsKey_active # 0
  BY <1>1, <1>2 DEF NothingYet
<1>11. KeyIsMade' /\ NothingYet' /\ Beginning'
  BY <1>1, <1>2, <1>6, <1>10 DEF KeyIsMade, NothingYet, Beginning
<1>12. KeysAreFew'
  BY <1>1, <1>2, <1>6, KeysStay
<1>13. KeepsOthers(t)
  <2>1. \A u \in KeyThreads \ {t} :
          /\ specific'[u] = specific[u] /\ doing'[u] = doing[u] /\ files'[u] = files[u]
          /\ thread'[u] = thread[u] /\ aux_depth'[u] = aux_depth[u] /\ aux_calls'[u] = aux_calls[u]
          /\ (program' = "beginning" /\ u = KeyMain) <=> (program = "beginning" /\ u = KeyMain)
    BY <1>1, <1>6
  <2>2. \A x \in 1 .. Len(tls) : tls[x].owner # t => x # v
    BY <1>4
  <2>3. \A x \in 1 .. Len(tls) : tls[x].owner # t => tls'[x] = tls[x]
    BY <1>5, <2>2
  <2>4. \A x \in 1 .. Len(tls) : tls'[x].owner # t => tls'[x] = tls[x]
    BY <1>5, <2>3
  <2>5. QED
    BY <1>5, <2>1, <2>3, <2>4 DEF KeepsOthers
<1>14. ASSUME OneKey', Going', Sound(t)
       PROVE  Sound(t)'
  <2>1. OneKey
    BY <1>1, <1>14 DEF OneKey
  <2>2. v = Tree(t) /\ Tree(t)' = Tree(t) /\ v # 0
    BY <1>1, <1>4, <1>14, <2>1 DEF Tree, Sound, TreeWhere
  <2>3. thread'[t] = thread[t] /\ files'[t] = files[t]
        /\ aux_depth'[t] = aux_depth[t] /\ aux_calls'[t] = aux_calls[t]
        /\ aux_depth[t] \in Nat /\ aux_calls[t] \in Nat
    BY <1>1, <1>3
  <2>4. Missing(t) = 1 /\ Missing(t)' = 0
    BY <1>1, <1>6 DEF Missing
  <2>5. /\ tls'[v].cct_stack_idx = tls[v].cct_stack_idx + 1
        /\ tls'[v].entered = tls[v].entered + 1 /\ tls'[v].base = tls[v].base
        /\ tls[v] \in TlsObject
    <3>1. v \in 1 .. Len(tls)
      BY <1>4, <2>2
    <3>2. QED
      BY <1>3, <1>5, <2>2, <3>1
  <2>6. tls[v].base \in Int /\ tls[v].cct_stack_idx \in Int /\ tls[v].entered \in Nat
    BY <2>5 DEF TlsObject
  <2>7. TreeWhere(t)'
    BY <1>1, <1>6, <1>14, <2>2, <2>3 DEF TreeWhere, Sound
  <2>8. StackFits(t)'
    BY <1>14, <2>2, <2>3, <2>4, <2>5, <2>6 DEF StackFits, Sound
  <2>9. OthersFreed(t)'
    <3>1. DOMAIN tls = 1 .. Len(tls) /\ DOMAIN tls' = 1 .. Len(tls)
      BY <1>3, <1>5
    <3>2. \A u \in 1 .. Len(tls) : tls'[u].owner = tls[u].owner /\ tls'[u].freed = tls[u].freed
      BY <1>5
    <3>3. QED
      BY <1>14, <2>2, <3>1, <3>2 DEF OthersFreed, Sound
  <2>10. CallsAreKept(t)'
    BY <1>1, <1>6, <1>14, <2>2, <2>3, <2>4, <2>5, <2>6 DEF CallsAreKept, Sound
  <2>11. QED
    BY <2>7, <2>8, <2>9, <2>10 DEF Sound
<1>15. AllSound'
  <2>1. OneKey' => OneKey
    BY <1>1 DEF OneKey
  <2>2. QED
    BY <1>1, <1>7, <1>13, <1>14, <2>1, ConcludeSound
<1>16. QED
  BY <1>7, <1>8, <1>9, <1>11, <1>12, <1>15 DEF KeyInv, KeyShape

\* A call is left, or a tree is made when the thread has none.
LEMMA ExitKeeps ==
  ASSUME KeyInv, NEW t \in KeyThreads, KeyExit(t)
  PROVE  KeyInv'
<1> DEFINE v == GetSpecific(t)
           b == aux_depth[t] - 1
<1>1. /\ doing[t] = "application" /\ thread[t] \in {"running", "destructors"} /\ aux_depth[t] > 0
      /\ program = "beginning" => t # KeyMain
      /\ aux_depth' = [aux_depth EXCEPT ![t] = @ - 1]
      /\ UNCHANGED <<program, tlsKey, tlsKey_active, keys, thread, doing, files, aux_calls>>
  BY DEF KeyExit, Instrumented, shared
<1>2. \/ v # 0 /\ tls' = [tls EXCEPT ![v].cct_stack_idx = @ - 1] /\ specific' = specific
      \/ v = 0 /\ InitTls(t, b)
  BY DEF KeyExit
<1>3. KeyTypes /\ KeysInOrder /\ KeyIsMade /\ NothingYet /\ Beginning /\ KeysAreFew /\ TreesHaveOneKey
      /\ NoTreeIsStale /\ AllSound
  BY DEF KeyInv, KeyShape
<1>4. /\ v # 0 => v \in 1 .. Len(tls) /\ tls[v].owner = t
      /\ OneKey => v = Tree(t)
  BY <1>3, SpecificTree
<1>5. /\ tls \in Seq(TlsObject) /\ aux_depth \in [KeyThreads -> Nat] /\ aux_calls \in [KeyThreads -> Nat]
  BY <1>3 DEF KeyTypes
<1>6. b \in Nat /\ b \in Int /\ aux_depth'[t] = b
  BY <1>1, <1>5
<1>7. /\ aux_depth' \in [KeyThreads -> Nat]
      /\ \A u \in KeyThreads \ {t} : aux_depth'[u] = aux_depth[u]
  BY <1>1, <1>5, <1>6
<1> HIDE DEF v, b
<1>8. /\ tls' \in Seq(TlsObject)
      /\ specific' \in [KeyThreads -> [AllKeys -> 0 .. Len(tls')]]
      /\ \A u \in KeyThreads \ {t} : specific'[u] = specific[u]
      /\ KeysInOrder' /\ TreesHaveOneKey' /\ NoTreeIsStale'
      /\ \A u \in 1 .. Len(tls) : u # v => u \in 1 .. Len(tls') /\ tls'[u] = tls[u]
      /\ \A u \in 1 .. Len(tls') : tls'[u].owner # t => u \in 1 .. Len(tls)
      /\ v # 0 => /\ specific' = specific /\ Len(tls') = Len(tls)
                  /\ tls'[v].owner = t /\ tls'[v].freed = tls[v].freed
                  /\ tls'[v].base = tls[v].base /\ tls'[v].entered = tls[v].entered
                  /\ tls'[v].cct_stack_idx = tls[v].cct_stack_idx - 1
  <2>1. CASE v # 0
    <3>1. v \in 1 .. Len(tls)
      BY <1>4, <2>1
    <3>2. /\ tls' \in Seq(TlsObject) /\ Len(tls') = Len(tls)
          /\ \A w \in 1 .. Len(tls) : tls'[w].owner = tls[w].owner /\ tls'[w].freed = tls[w].freed
                                       /\ tls'[w].base = tls[w].base /\ tls'[w].entered = tls[w].entered
          /\ \A w \in 1 .. Len(tls) : w # v => tls'[w] = tls[w]
          /\ tls'[v].cct_stack_idx = tls[v].cct_stack_idx - 1
      BY <1>2, <1>5, <2>1, <3>1, CallLeft
    <3>3. specific' = specific
      BY <1>2, <2>1
    <3>4. specific' \in [KeyThreads -> [AllKeys -> 0 .. Len(tls')]]
      BY <1>3, <3>2, <3>3 DEF KeyTypes, KeysTypeOK
    <3>5. KeysInOrder' /\ TreesHaveOneKey'
      BY <1>1, <1>3, <3>3 DEF KeysInOrder, TreesHaveOneKey
    <3>6. NoTreeIsStale'
      BY <1>3, <3>2, <3>3 DEF NoTreeIsStale, KeyTypes, KeysTypeOK
    <3>7. QED
      BY <1>4, <2>1, <3>1, <3>2, <3>3, <3>4, <3>5, <3>6
  <2>2. CASE v = 0
    <3>1. InitTls(t, b) /\ UNCHANGED <<tlsKey, keys>>
      BY <1>1, <1>2, <2>2
    <3>2. /\ tls' \in Seq(TlsObject) /\ Len(tls') = Len(tls) + 1
          /\ \A w \in 1 .. Len(tls) : tls'[w] = tls[w]
          /\ tls'[Len(tls) + 1] = NewTls(t, b)
          /\ specific' \in [KeyThreads -> [AllKeys -> 0 .. Len(tls')]]
          /\ \A u \in KeyThreads \ {t} : specific'[u] = specific[u]
          /\ KeysInOrder' /\ TreesHaveOneKey' /\ NoTreeIsStale'
      BY <1>3, <1>6, <3>1, InitEffects
    <3>3. tls'[Len(tls) + 1].owner = t /\ Len(tls) \in Nat
      BY <1>5, <3>2 DEF NewTls
    <3>4. QED
      BY <2>2, <3>2, <3>3
  <2>3. QED
    BY <2>1, <2>2
<1>9. KeyTypes'
  BY <1>1, <1>3, <1>7, <1>8 DEF KeyTypes, KeysTypeOK
<1>10. tlsKey_active # 0
  BY <1>1, <1>3 DEF NothingYet
<1>11. KeyIsMade' /\ NothingYet' /\ Beginning'
  BY <1>1, <1>3, <1>7, <1>10 DEF KeyIsMade, NothingYet, Beginning
<1>12. KeysAreFew'
  BY <1>1, <1>3, KeysStay
<1>13. KeepsOthers(t)
  <2>1. \A u \in 1 .. Len(tls) : tls[u].owner # t => u # v
    BY <1>4, <1>5
  <2>2. \A u \in 1 .. Len(tls') : tls'[u].owner # t => u # v
    BY <1>4, <1>5, <1>8
  <2>3. QED
    BY <1>1, <1>7, <1>8, <2>1, <2>2 DEF KeepsOthers
<1>14. ASSUME OneKey', Going', Sound(t)
       PROVE  Sound(t)'
  <2>1. OneKey
    BY <1>1, <1>14 DEF OneKey
  <2>2. v = Tree(t) /\ v # 0
    BY <1>1, <1>4, <1>14, <2>1 DEF Sound, TreeWhere
  <2>3. Tree(t)' = v
    BY <1>8, <2>2 DEF Tree
  <2>4. thread'[t] = thread[t] /\ files'[t] = files[t] /\ doing'[t] = doing[t]
        /\ aux_calls'[t] = aux_calls[t] /\ aux_depth[t] \in Nat /\ aux_depth'[t] = aux_depth[t] - 1
    BY <1>1, <1>5
  <2>5. Missing(t)' = Missing(t) /\ Missing(t) = 0 /\ Started(t)' = Started(t)
    BY <1>1 DEF Missing, Started
  <2>6. tls[v] \in TlsObject /\ v \in 1 .. Len(tls) /\ tls[v].owner = t
    BY <1>4, <1>5, <2>2
  <2>7. tls[v].base \in Int /\ tls[v].cct_stack_idx \in Int /\ tls[v].entered \in Nat
    BY <2>6 DEF TlsObject
  <2>8. TreeWhere(t)'
    BY <1>1, <1>14, <2>2, <2>3, <2>4 DEF TreeWhere, Sound
  <2>9. StackFits(t)'
    <3>1. /\ tls'[v].cct_stack_idx = tls[v].cct_stack_idx - 1
          /\ tls'[v].base = tls[v].base
      BY <1>8, <2>2
    <3>2. thread[t] = "running" => tls[v].cct_stack_idx = aux_depth[t] - tls[v].base
      BY <1>14, <2>2, <2>4, <2>5, <2>7 DEF StackFits, Sound
    <3>3. thread'[t] = "running" => tls'[v].cct_stack_idx = aux_depth'[t] - tls'[v].base
      BY <2>4, <2>7, <3>1, <3>2
    <3>4. aux_depth'[t] \in Int /\ tls'[v].base \in Int
      BY <2>4, <2>7, <3>1
    <3>5. QED
      BY <2>3, <2>5, <3>3, <3>4 DEF StackFits
  <2>10. OthersFreed(t)'
    <3>1. DOMAIN tls = 1 .. Len(tls) /\ DOMAIN tls' = 1 .. Len(tls)
      BY <1>5, <1>8, <2>2
    <3>2. SUFFICES ASSUME NEW u \in 1 .. Len(tls), tls'[u].owner = t, ~tls'[u].freed, u # v
                   PROVE  FALSE
      BY <2>3, <3>1 DEF OthersFreed
    <3>3. tls'[u] = tls[u]
      BY <1>8, <3>2
    <3>4. QED
      BY <1>14, <2>2, <3>1, <3>2, <3>3 DEF OthersFreed, Sound
  <2>11. CallsAreKept(t)'
    BY <1>8, <1>14, <2>2, <2>3, <2>4, <2>5, <2>7 DEF CallsAreKept, Sound
  <2>12. QED
    BY <2>8, <2>9, <2>10, <2>11 DEF Sound
<1>15. AllSound'
  <2>1. OneKey' /\ Going' => OneKey /\ Going
    BY <1>1 DEF OneKey, Going
  <2>2. QED
    BY <1>9, <1>13, <1>14, <2>1, ConcludeSound
<1>16. QED
  BY <1>8, <1>9, <1>11, <1>12, <1>15 DEF KeyInv, KeyShape

\* What all steps of the life of a thread leave alone.
LEMMA LifeStepKeeps ==
  ASSUME KeyInv, NEW t \in KeyThreads,
         UNCHANGED <<program, tlsKey, tlsKey_active, keys, specific, tls, doing, files, aux_calls>>,
         NEW s \in {"running", "destructors", "ended"}, thread' = [thread EXCEPT ![t] = s],
         NEW d \in {0, aux_depth[t]}, aux_depth' = [aux_depth EXCEPT ![t] = d],
         program \in {"loading", "beginning"} /\ t = KeyMain => s = "running",
         Sound(t) => Sound(t)'
  PROVE  KeyInv'
<1>1. KeyTypes /\ KeysInOrder /\ KeyIsMade /\ NothingYet /\ Beginning /\ KeysAreFew /\ TreesHaveOneKey
      /\ NoTreeIsStale /\ AllSound
  BY DEF KeyInv, KeyShape
<1>2. /\ aux_depth \in [KeyThreads -> Nat]
      /\ thread \in [KeyThreads -> {"new", "running", "destructors", "ended"}]
  BY <1>1 DEF KeyTypes, KeysTypeOK
<1>3. /\ aux_depth' \in [KeyThreads -> Nat]
      /\ thread' \in [KeyThreads -> {"new", "running", "destructors", "ended"}]
      /\ \A u \in KeyThreads \ {t} : aux_depth'[u] = aux_depth[u] /\ thread'[u] = thread[u]
      /\ aux_depth'[t] = d /\ thread'[t] = s
  BY <1>2
<1>4. KeyTypes'
  BY <1>1, <1>3 DEF KeyTypes, KeysTypeOK
<1>5. KeysInOrder' /\ TreesHaveOneKey' /\ NoTreeIsStale' /\ KeyIsMade'
  BY <1>1 DEF KeysInOrder, TreesHaveOneKey, NoTreeIsStale, KeyIsMade
<1>6. NothingYet'
  <2>1. \A u \in KeyThreads : aux_depth'[u] \in {0, aux_depth[u]}
    BY <1>3
  <2>2. QED
    BY <1>1, <2>1 DEF NothingYet
<1>7. Beginning'
  <2>1. aux_depth'[KeyMain] \in {0, aux_depth[KeyMain]}
    BY <1>3, KeyFacts
  <2>2. program \in {"loading", "beginning"} => thread'[KeyMain] = "running"
    BY <1>1, <1>3, KeyFacts DEF Beginning
  <2>3. QED
    BY <1>1, <2>1, <2>2 DEF Beginning
<1>8. KeysAreFew'
  BY <1>1, KeysStay
<1>9. KeepsOthers(t)
  BY <1>3 DEF KeepsOthers
<1>10. AllSound'
  <2>1. OneKey' /\ Going' => OneKey /\ Going
    BY DEF OneKey, Going
  <2>2. QED
    BY <1>4, <1>9, <2>1, ConcludeSound
<1>11. QED
  BY <1>4, <1>5, <1>6, <1>7, <1>8, <1>10 DEF KeyInv, KeyShape

\* __wrap_pthread_create.
LEMMA CreateThreadKeeps ==
  ASSUME KeyInv, NEW t \in KeyThreads, CreateThread(t)
  PROVE  KeyInv'
<1>1. /\ thread[t] = "new" /\ thread' = [thread EXCEPT ![t] = "running"]
      /\ UNCHANGED <<program, tlsKey, tlsKey_active, keys, specific, tls, doing, files, aux_depth, aux_calls>>
  BY DEF CreateThread, shared
<1>2. aux_depth \in [KeyThreads -> Nat] /\ thread \in [KeyThreads -> {"new", "running", "destructors", "ended"}]
  BY DEF KeyInv, KeyShape, KeyTypes, KeysTypeOK
<1>3. aux_depth' = [aux_depth EXCEPT ![t] = aux_depth[t]] /\ thread'[t] = "running"
  BY <1>1, <1>2
<1>4. ASSUME Sound(t)
      PROVE  Sound(t)'
  <2>1. Tree(t)' = Tree(t) /\ Tree(t) = 0 /\ Started(t)' = Started(t) /\ Missing(t)' = Missing(t)
    BY <1>1, <1>4 DEF Tree, Started, Missing, Sound, TreeWhere
  <2>2. TreeWhere(t)' /\ StackFits(t)' /\ OthersFreed(t)'
    BY <1>1, <1>3, <1>4, <2>1 DEF TreeWhere, StackFits, OthersFreed, Sound
  <2>3. CallsAreKept(t)'
    BY <1>1, <1>4, <2>1 DEF CallsAreKept, Sound
  <2>4. QED
    BY <2>2, <2>3 DEF Sound
<1>5. QED
  BY <1>1, <1>3, <1>4, LifeStepKeeps

\* A thread returns, or calls pthread_exit.
LEMMA EndThreadKeeps ==
  ASSUME KeyInv, NEW t \in KeyThreads, EndThread(t)
  PROVE  KeyInv'
<1>1. /\ thread[t] = "running" /\ thread' = [thread EXCEPT ![t] = "destructors"]
      /\ program = "running" /\ doing[t] = "application"
      /\ aux_depth' = [aux_depth EXCEPT ![t] = 0]
      /\ UNCHANGED <<program, tlsKey, tlsKey_active, keys, specific, tls, doing, files, aux_calls>>
  BY DEF EndThread, shared
<1>2. aux_depth \in [KeyThreads -> Nat] /\ thread \in [KeyThreads -> {"new", "running", "destructors", "ended"}]
  BY DEF KeyInv, KeyShape, KeyTypes, KeysTypeOK
<1>3. aux_depth'[t] = 0 /\ thread'[t] = "destructors"
  BY <1>1, <1>2
<1>4. ASSUME Sound(t)
      PROVE  Sound(t)'
  <2>1. Tree(t)' = Tree(t) /\ Started(t)' = Started(t) /\ Missing(t)' = Missing(t)
    BY <1>1 DEF Tree, Started, Missing
  <2>2. TreeWhere(t)' /\ StackFits(t)' /\ OthersFreed(t)'
    BY <1>1, <1>3, <1>4, <2>1 DEF TreeWhere, StackFits, OthersFreed, Sound
  <2>3. CallsAreKept(t)'
    BY <1>1, <1>4, <2>1 DEF CallsAreKept, Sound
  <2>4. QED
    BY <2>2, <2>3 DEF Sound
<1>5. QED
  BY <1>1, <1>4, LifeStepKeeps

\* The destructors have nothing left to do.
LEMMA ThreadEndsKeeps ==
  ASSUME KeyInv, NEW t \in KeyThreads, KeyThreadEnds(t)
  PROVE  KeyInv'
<1>1. /\ thread[t] = "destructors" /\ thread' = [thread EXCEPT ![t] = "ended"]
      /\ program = "running" /\ doing[t] = "application"
      /\ \A k \in keys : specific[t][k] = 0
      /\ UNCHANGED <<program, tlsKey, tlsKey_active, keys, specific, tls, doing, files, aux_depth, aux_calls>>
  BY DEF KeyThreadEnds, shared
<1>2. aux_depth \in [KeyThreads -> Nat] /\ thread \in [KeyThreads -> {"new", "running", "destructors", "ended"}]
  BY DEF KeyInv, KeyShape, KeyTypes, KeysTypeOK
<1>3. aux_depth' = [aux_depth EXCEPT ![t] = aux_depth[t]] /\ thread'[t] = "ended"
  BY <1>1, <1>2
<1>4. Tree(t) = 0
  BY <1>1, KeyFacts DEF Tree, KeyInv, KeyShape, KeysInOrder
<1>5. ASSUME Sound(t)
      PROVE  Sound(t)'
  <2>1. Tree(t)' = 0 /\ Started(t)' = Started(t) /\ Missing(t)' = Missing(t)
    BY <1>1, <1>4 DEF Tree, Started, Missing
  <2>2. TreeWhere(t)' /\ StackFits(t)' /\ OthersFreed(t)'
    BY <1>1, <1>3, <1>4, <1>5, <2>1 DEF TreeWhere, StackFits, OthersFreed, Sound
  <2>3. CallsAreKept(t)'
    BY <1>1, <1>3, <1>4, <1>5, <2>1 DEF CallsAreKept, Sound
  <2>4. QED
    BY <2>2, <2>3 DEF Sound
<1>6. QED
  BY <1>1, <1>3, <1>5, LifeStepKeeps

\* Values that are cleared leave the keys in order.
LEMMA ValuesCleared ==
  ASSUME KeyTypes, KeysInOrder, TreesHaveOneKey, UNCHANGED <<tlsKey, keys>>,
         specific' \in [KeyThreads -> [AllKeys -> 0 .. Len(tls)]],
         \A u \in KeyThreads : \A l \in AllKeys : specific'[u][l] \in {0, specific[u][l]}
  PROVE  KeysInOrder' /\ TreesHaveOneKey'
<1>1. KeysInOrder'
  <2>1. (\E n \in Nat : keys' = 1 .. n) /\ (tlsKey' \in keys' \/ (keys' = {} /\ tlsKey' = Unmade))
    BY DEF KeysInOrder
  <2>2. \A u \in KeyThreads, l \in AllKeys : specific'[u][l] # 0 => l \in keys'
    BY DEF KeysInOrder
  <2>3. QED
    BY <2>1, <2>2 DEF KeysInOrder
<1>2. TreesHaveOneKey'
  <2>1. SUFFICES ASSUME NEW u1 \in KeyThreads, NEW u2 \in KeyThreads,
                        NEW k1 \in AllKeys, NEW k2 \in AllKeys,
                        specific'[u1][k1] # 0, specific'[u1][k1] = specific'[u2][k2]
                 PROVE  u1 = u2 /\ k1 = k2
    BY DEF TreesHaveOneKey
  <2>2. specific[u1][k1] = specific'[u1][k1] /\ specific[u2][k2] = specific'[u2][k2]
    BY <2>1
  <2>3. QED
    BY <2>1, <2>2 DEF TreesHaveOneKey
<1>3. QED
  BY <1>1, <1>2

\* A value of a key is set to NULL.
Cleared(values, t, k) == [values EXCEPT ![t][k] = 0]

\* Tree v, the value of key k of thread t, is dumped.
DumpOf(t, k, v, values, next) ==
  /\ v = specific[t][k] /\ v # 0
  /\ values = Cleared(specific, t, k) \/ (values = specific /\ k = tlsKey)
  /\ Destroyed(t, v, values, next) /\ program = "running" /\ tlsKey \in AllKeys
  /\ UNCHANGED <<tlsKey, tlsKey_active, keys, thread, doing, aux_depth, aux_calls>>

\* What is left then.
Dumped(t, v, next) ==
  /\ program' = next /\ files[t] = <<>> /\ files'[t] = <<tls[v].entered>>
  /\ specific'[t][tlsKey] = 0 /\ Len(tls') = Len(tls)
  /\ \A w \in 1 .. Len(tls) : w # v => tls'[w] = tls[w]
  /\ tls'[v].freed = TRUE

\* hcct_dump and tlsDestructor, with the value of its key cleared before the
\* call or, in trace_end, after it.
LEMMA DestroyedKeeps ==
  ASSUME KeyInv, NEW t \in KeyThreads, NEW k \in AllKeys,
         NEW v, NEW values, NEW next \in {"running", "ended"}, DumpOf(t, k, v, values, next)
  PROVE  /\ KeyShape' /\ KeysAreFew' /\ TreesHaveOneKey' /\ NoTreeIsStale' /\ KeepsOthers(t)
         /\ program' # "aborted" => Dumped(t, v, next)
<1>0. /\ v = specific[t][k] /\ v # 0
      /\ values = Cleared(specific, t, k) \/ (values = specific /\ k = tlsKey)
      /\ Destroyed(t, v, values, next) /\ program = "running" /\ tlsKey \in AllKeys
      /\ UNCHANGED <<tlsKey, tlsKey_active, keys, thread, doing, aux_depth, aux_calls>>
  BY DEF DumpOf
<1>1. KeyTypes /\ KeysInOrder /\ KeyIsMade /\ NothingYet /\ Beginning /\ KeysAreFew /\ TreesHaveOneKey
      /\ NoTreeIsStale
  BY DEF KeyInv, KeyShape
<1>2. /\ specific \in [KeyThreads -> [AllKeys -> 0 .. Len(tls)]]
      /\ tls \in Seq(TlsObject) /\ Len(tls) \in Nat /\ files \in [KeyThreads -> Seq(Nat)]
      /\ 0 \in 0 .. Len(tls)
  BY <1>0, <1>1 DEF KeyTypes, KeysTypeOK
<1>3. v \in 1 .. Len(tls) /\ tls[v].owner = t /\ tls[v].entered \in Nat
  <2>1. v \in 1 .. Len(tls)
    BY <1>0, <1>2
  <2>2. tls[v] \in TlsObject
    BY <1>0, <1>2, <2>1
  <2>3. tls[v].owner = t
    BY <1>0, <1>1 DEF NoTreeIsStale
  <2>4. QED
    BY <1>0, <2>1, <2>2, <2>3 DEF TlsObject
<1> DEFINE cleared == Cleared(specific, t, k)
<1>4. /\ values \in [KeyThreads -> [AllKeys -> 0 .. Len(tls)]]
      /\ \A u \in KeyThreads : \A l \in AllKeys :
           /\ values[u][l] \in {0, specific[u][l]}
           /\ u = t /\ l = k /\ k # tlsKey => values[u][l] = 0
      /\ \A u \in KeyThreads \ {t} : values[u] = specific[u]
  <2>1. /\ cleared \in [KeyThreads -> [AllKeys -> 0 .. Len(tls)]]
        /\ \A u \in KeyThreads : \A l \in AllKeys :
             cleared[u][l] = IF u = t /\ l = k THEN 0 ELSE specific[u][l]
        /\ \A u \in KeyThreads \ {t} : cleared[u] = specific[u]
    BY <1>0, <1>2 DEF Cleared
  <2>2. values = cleared \/ (values = specific /\ k = tlsKey)
    BY <1>0
  <2> HIDE DEF cleared
  <2>3. CASE values = cleared
    BY <1>0, <2>1, <2>3
  <2>4. CASE values = specific /\ k = tlsKey
    BY <1>0, <1>2, <2>4
  <2>5. QED
    BY <1>0, <2>2, <2>3, <2>4
<1> HIDE DEF cleared
<1> DEFINE later == Cleared(values, t, tlsKey)
<1>5. /\ later \in [KeyThreads -> [AllKeys -> 0 .. Len(tls)]]
      /\ \A u \in KeyThreads : \A l \in AllKeys : later[u][l] = IF u = t /\ l = tlsKey THEN 0 ELSE values[u][l]
      /\ \A u \in KeyThreads \ {t} : later[u] = values[u]
  BY <1>0, <1>2, <1>4 DEF Cleared
<1>6. /\ \A u \in KeyThreads : \A l \in AllKeys :
           /\ later[u][l] \in {0, specific[u][l]}
           /\ u = t /\ l = k => later[u][l] = 0
      /\ \A u \in KeyThreads \ {t} : later[u] = specific[u]
      /\ later[t][tlsKey] = 0
  BY <1>0, <1>4, <1>5
<1>7. \/ /\ program' = "aborted" /\ specific' = values /\ files' = files /\ tls' = tls
      \/ /\ files[t] = <<>> /\ files' = [files EXCEPT ![t] = <<tls[v].entered>>]
         /\ tls' = [tls EXCEPT ![v].freed = TRUE] /\ specific' = later
         /\ program' \in {next, "aborted"}
  BY <1>0 DEF Destroyed, Cleared
<1> HIDE DEF later
<1>8. \/ tls' = tls /\ specific' = values
      \/ /\ tls' \in Seq(TlsObject) /\ Len(tls') = Len(tls)
         /\ \A w \in 1 .. Len(tls) : tls'[w].owner = tls[w].owner
         /\ \A w \in 1 .. Len(tls) : w # v => tls'[w] = tls[w]
         /\ tls'[v].freed = TRUE
         /\ specific' = later
  <2>1. (tls' = tls /\ specific' = values) \/ (tls' = Freed(tls, v) /\ specific' = later)
    BY <1>0, <1>7 DEF Freed
  <2>2. \/ tls' = tls /\ specific' = values
        \/ /\ specific' = later
           /\ tls' \in Seq(TlsObject) /\ Len(tls') = Len(tls)
           /\ \A w \in 1 .. Len(tls) : tls'[w].owner = tls[w].owner
           /\ \A w \in 1 .. Len(tls) : w # v => tls'[w] = tls[w]
           /\ tls'[v].freed = TRUE
    <3>1. /\ Freed(tls, v) \in Seq(TlsObject) /\ Len(Freed(tls, v)) = Len(tls)
          /\ \A w \in 1 .. Len(tls) : Freed(tls, v)[w].owner = tls[w].owner
          /\ \A w \in 1 .. Len(tls) : w # v => Freed(tls, v)[w] = tls[w]
          /\ Freed(tls, v)[v].freed = TRUE
      BY <1>0, <1>2, <1>3, TreeFreed
    <3>2. CASE tls' = Freed(tls, v) /\ specific' = later
      BY <1>0, <3>1, <3>2
    <3>3. QED
      BY <1>0, <2>1, <3>2
  <2>3. QED
    BY <1>0, <2>2
<1>9. tls' \in Seq(TlsObject) /\ Len(tls') = Len(tls)
      /\ \A w \in 1 .. Len(tls) : tls'[w].owner = tls[w].owner /\ (w # v => tls'[w] = tls[w])
  BY <1>0, <1>2, <1>8
<1>10. /\ specific' \in [KeyThreads -> [AllKeys -> 0 .. Len(tls)]]
       /\ \A u \in KeyThreads : \A l \in AllKeys : specific'[u][l] \in {0, specific[u][l]}
       /\ \A u \in KeyThreads \ {t} : specific'[u] = specific[u]
  BY <1>0, <1>4, <1>5, <1>6, <1>8
<1>11. KeysInOrder' /\ TreesHaveOneKey'
  BY <1>0, <1>1, <1>10, ValuesCleared
<1>12. files' \in [KeyThreads -> Seq(Nat)] /\ \A u \in KeyThreads \ {t} : files'[u] = files[u]
  <2>1. <<tls[v].entered>> \in Seq(Nat)
    BY <1>0, <1>3
  <2>2. QED
    BY <1>0, <1>2, <1>7, <2>1
<1>13. program' \in {"running", "ended", "aborted"}
  BY <1>0, <1>7
<1>14. KeyTypes'
  <2>1. KeysTypeOK'
    BY <1>0, <1>1, <1>9, <1>10, <1>13 DEF KeyTypes, KeysTypeOK
  <2>2. QED
    BY <1>0, <1>1, <1>9, <1>12, <2>1 DEF KeyTypes
<1>15. KeyIsMade' /\ Beginning'
  BY <1>0, <1>1, <1>13 DEF KeyIsMade, Beginning
<1>16. NothingYet'
  BY <1>0, <1>1, <1>10 DEF NothingYet
<1>17. KeysAreFew'
  BY <1>0, <1>1, KeysStay
<1>18. NoTreeIsStale'
  <2>1. SUFFICES ASSUME NEW u \in KeyThreads, NEW l \in AllKeys, specific'[u][l] # 0
                 PROVE  /\ tls'[specific'[u][l]].owner = u
                        /\ ~tls'[specific'[u][l]].freed
    BY DEF NoTreeIsStale
  <2>2. specific'[u][l] = specific[u][l] /\ specific[u][l] \in 1 .. Len(tls)
    BY <1>0, <1>2, <1>10, <2>1
  <2>3. tls[specific[u][l]].owner = u /\ ~tls[specific[u][l]].freed
    BY <1>0, <1>1, <2>1, <2>2 DEF NoTreeIsStale
  <2>4. CASE tls' = tls
    BY <1>0, <2>2, <2>3, <2>4
  <2>5. CASE specific' = later
    <3>1. ~(u = t /\ l = k)
      BY <1>0, <1>6, <2>1, <2>5
    <3>2. specific[u][l] # v
      BY <1>0, <1>1, <2>1, <2>2, <3>1 DEF TreesHaveOneKey
    <3>3. QED
      BY <1>0, <1>9, <2>2, <2>3, <3>2
  <2>6. QED
    BY <1>0, <1>8, <2>4, <2>5
<1>19. KeepsOthers(t)
  BY <1>0, <1>3, <1>9, <1>10, <1>12, <1>13 DEF KeepsOthers
<1>20. ASSUME program' # "aborted"
       PROVE  Dumped(t, v, next)
  <2>1. program' = next /\ files[t] = <<>> /\ files' = [files EXCEPT ![t] = <<tls[v].entered>>]
        /\ specific' = later
    BY <1>0, <1>7, <1>20
  <2>2. files'[t] = <<tls[v].entered>>
    BY <1>0, <1>2, <2>1
  <2>3. tls'[v].freed = TRUE
    BY <1>0, <1>2, <1>3, <1>7, <1>20, TreeFreed DEF Freed
  <2>4. QED
    BY <1>0, <1>6, <1>9, <2>1, <2>2, <2>3 DEF Dumped
<1>21. QED
  BY <1>0, <1>11, <1>14, <1>15, <1>16, <1>17, <1>18, <1>19, <1>20 DEF KeyShape

\* A destructor of the pthread library.
LEMMA DestroyKeeps ==
  ASSUME KeyInv, NEW t \in KeyThreads, NEW k \in AllKeys, Destroy(t, k)
  PROVE  KeyInv'
<1> DEFINE v == specific[t][k]
           values == [specific EXCEPT ![t][k] = 0]
<1>1. /\ program = "running" /\ thread[t] = "destructors" /\ doing[t] = "application" /\ aux_depth[t] = 0
      /\ k \in keys /\ v # 0
      /\ Destroyed(t, v, values, "running")
      /\ UNCHANGED <<tlsKey, tlsKey_active, keys, thread, doing, aux_depth, aux_calls>>
  BY DEF Destroy
<1>2. v = specific[t][k] /\ values = Cleared(specific, t, k)
  BY DEF Cleared
<1> HIDE DEF v, values
<1>3. KeyTypes /\ KeysInOrder /\ NoTreeIsStale /\ AllSound
  BY DEF KeyInv, KeyShape
<1>4. tlsKey \in keys /\ tlsKey \in AllKeys
  BY <1>1, <1>3, SpecificTree DEF KeysInOrder
<1>5. /\ KeyShape' /\ KeysAreFew' /\ TreesHaveOneKey' /\ NoTreeIsStale' /\ KeepsOthers(t)
      /\ program' # "aborted" => Dumped(t, v, "running")
  <2>1. "running" \in {"running", "ended"}
    OBVIOUS
  <2>2. DumpOf(t, k, v, values, "running")
    BY <1>1, <1>2, <1>4 DEF DumpOf
  <2>3. QED
    BY <2>1, <2>2, DestroyedKeeps
<1>6. ASSUME OneKey', Going', Sound(t)
      PROVE  Sound(t)'
  <2>1. program' # "aborted" /\ OneKey
    BY <1>1, <1>6 DEF Going, OneKey
  <2>2. k = 1 /\ tlsKey = 1
    <3>1. keys = 1 .. Cardinality(keys) /\ Cardinality(keys) \in Nat /\ Cardinality(keys) <= 1
      BY <1>3, <2>1, OneKeyMeans
    <3>2. QED
      BY <1>1, <1>4, <3>1
  <2>3. v = Tree(t) /\ Tree(t)' = 0
    BY <1>2, <1>5, <2>1, <2>2 DEF Tree, Dumped
  <2>4. thread'[t] = "destructors" /\ doing'[t] = "application" /\ aux_depth'[t] = 0
        /\ aux_calls'[t] = aux_calls[t]
    BY <1>1
  <2>5. Missing(t) = 0
    BY <1>1 DEF Missing
  <2>6. TreeWhere(t)' /\ StackFits(t)'
    BY <2>3, <2>4 DEF TreeWhere, StackFits
  <2>7. OthersFreed(t)'
    <3>1. DOMAIN tls = 1 .. Len(tls) /\ DOMAIN tls' = 1 .. Len(tls)
      BY <1>3, <1>5, <2>1 DEF KeyTypes, KeyShape, Dumped
    <3>2. SUFFICES ASSUME NEW u \in 1 .. Len(tls), tls'[u].owner = t, ~tls'[u].freed
                   PROVE  FALSE
      BY <3>1 DEF OthersFreed
    <3>3. u # v
      BY <1>5, <2>1, <3>2 DEF Dumped
    <3>4. tls'[u] = tls[u]
      BY <1>5, <2>1, <3>3 DEF Dumped
    <3>5. QED
      BY <1>6, <2>3, <3>1, <3>2, <3>3, <3>4 DEF OthersFreed, Sound
  <2>8. CallsAreKept(t)'
    <3>1. files[t] = <<>> /\ files'[t] = <<tls[v].entered>>
      BY <1>5, <2>1 DEF Dumped
    <3>2. aux_calls[t] = tls[v].entered + 0
      BY <1>1, <1>6, <2>3, <2>5, <3>1 DEF CallsAreKept, Sound
    <3>3. v \in 1 .. Len(tls)
      <4>1. specific[t][k] \in 0 .. Len(tls) /\ Len(tls) \in Nat
        BY <1>3 DEF KeyTypes, KeysTypeOK
      <4>2. QED
        BY <1>1, <1>2, <4>1
    <3>4. tls[v] \in TlsObject
      BY <1>3, <3>3 DEF KeyTypes
    <3>5. aux_calls[t] = tls[v].entered
      BY <3>2, <3>4 DEF TlsObject
    <3>6. files'[t] # <<>> /\ files'[t] = <<aux_calls'[t]>>
      BY <2>4, <3>1, <3>5
    <3>7. QED
      BY <2>4, <3>6 DEF CallsAreKept
  <2>9. QED
    BY <2>6, <2>7, <2>8 DEF Sound
<1>7. AllSound'
  <2>1. OneKey' /\ Going' => OneKey /\ Going
    BY <1>1 DEF OneKey, Going
  <2>2. KeyTypes'
    BY <1>5 DEF KeyShape
  <2>3. QED
    BY <1>5, <1>6, <2>1, <2>2, ConcludeSound
<1>8. QED
  BY <1>5, <1>7 DEF KeyInv

\* trace_end, after which nothing goes on.
LEMMA TraceEndKeeps ==
  ASSUME KeyInv, NEW t \in KeyThreads, KeyTraceEnd(t)
  PROVE  KeyInv'
<1> DEFINE v == GetSpecific(t)
<1>1. /\ program = "running"
      /\ UNCHANGED <<tlsKey, tlsKey_active, keys, thread, doing, aux_depth, aux_calls>>
  BY DEF KeyTraceEnd
<1>2. \/ v = 0 /\ program' = "ended" /\ UNCHANGED <<specific, tls, files>>
      \/ v # 0 /\ Destroyed(t, v, specific, "ended")
  BY DEF KeyTraceEnd
<1>3. KeyTypes /\ KeysInOrder /\ KeyIsMade /\ NothingYet /\ Beginning /\ KeysAreFew /\ TreesHaveOneKey
      /\ NoTreeIsStale
  BY DEF KeyInv, KeyShape
<1>4. v # 0 => tlsKey \in AllKeys /\ v = specific[t][tlsKey]
  BY <1>3, SpecificTree
<1> HIDE DEF v
<1>5. CASE v = 0
  <2>1. program' = "ended" /\ UNCHANGED <<specific, tls, files>>
    BY <1>2, <1>5
  <2>2. KeyTypes'
    BY <1>1, <1>3, <2>1 DEF KeyTypes, KeysTypeOK
  <2>3. KeysInOrder' /\ KeyIsMade' /\ NothingYet' /\ Beginning'
    BY <1>1, <1>3, <2>1 DEF KeysInOrder, KeyIsMade, NothingYet, Beginning
  <2>4. KeysAreFew'
    BY <1>1, <1>3, KeysStay
  <2>5. TreesHaveOneKey' /\ NoTreeIsStale'
    BY <1>3, <2>1 DEF TreesHaveOneKey, NoTreeIsStale
  <2>6. AllSound'
    BY <2>1 DEF AllSound, Going
  <2>7. QED
    BY <2>2, <2>3, <2>4, <2>5, <2>6 DEF KeyInv, KeyShape
<1>6. CASE v # 0
  <2>1. /\ KeyShape' /\ KeysAreFew' /\ TreesHaveOneKey' /\ NoTreeIsStale'
        /\ program' # "aborted" => program' = "ended"
    <3>1. "ended" \in {"running", "ended"} /\ tlsKey \in AllKeys
      BY <1>4, <1>6
    <3>2. DumpOf(t, tlsKey, v, specific, "ended")
      BY <1>1, <1>2, <1>4, <1>6 DEF DumpOf
    <3>3. QED
      BY <3>1, <3>2, DestroyedKeeps DEF Dumped
  <2>2. AllSound'
    BY <2>1 DEF AllSound, Going
  <2>3. QED
    BY <2>1, <2>2 DEF KeyInv
<1>7. QED
  BY <1>5, <1>6

\* Before anything has run.
LEMMA KeysBegin ==
  ASSUME KeysInit
  PROVE  KeyInv
<1>1. /\ program = "loading" /\ tlsKey = Unmade /\ tlsKey_active = 0 /\ keys = {}
      /\ specific = [t \in KeyThreads |-> [k \in AllKeys |-> 0]] /\ tls = <<>>
      /\ thread = [t \in KeyThreads |-> IF t = KeyMain THEN "running" ELSE "new"]
      /\ doing = [t \in KeyThreads |-> "application"]
      /\ files = [t \in KeyThreads |-> <<>>]
      /\ aux_depth = [t \in KeyThreads |-> 0] /\ aux_calls = [t \in KeyThreads |-> 0]
  BY DEF KeysInit
<1>2. \A t \in KeyThreads : \A k \in AllKeys : specific[t][k] = 0
  BY <1>1
<1>3. KeyTypes
  <2>1. specific \in [KeyThreads -> [AllKeys -> 0 .. Len(tls)]] /\ tls \in Seq(TlsObject)
    BY <1>1
  <2>2. files \in [KeyThreads -> Seq(Nat)] /\ aux_depth \in [KeyThreads -> Nat] /\ aux_calls \in [KeyThreads -> Nat]
    BY <1>1
  <2>3. QED
    BY <1>1, <2>1, <2>2 DEF KeyTypes, KeysTypeOK
<1>4. KeysInOrder /\ TreesHaveOneKey /\ NoTreeIsStale
  <2>1. keys = 1 .. 0 /\ 0 \in Nat
    BY <1>1
  <2>2. KeysInOrder
    BY <1>1, <1>2, <2>1 DEF KeysInOrder
  <2>3. QED
    BY <1>2, <2>2 DEF TreesHaveOneKey, NoTreeIsStale
<1>5. KeyIsMade /\ NothingYet /\ Beginning
  BY <1>1, <1>2, KeyFacts DEF KeyIsMade, NothingYet, Beginning
<1>6. KeysAreFew
  <2>1. In("create") = {} /\ In("activate") = {}
    BY <1>1 DEF In
  <2>2. Cardinality({}) = 0
    BY FS_EmptySet
  <2>3. Cardinality(keys) + Cardinality(In("create")) <= Cardinality(KeyThreads)
    <3>1. Cardinality(keys) = 0 /\ Cardinality(In("create")) = 0
      BY <1>1, <2>1, <2>2
    <3>2. QED
      BY <3>1, KeyFacts
  <2>4. Cardinality(keys) = Cardinality(In("activate"))
    BY <1>1, <2>1
  <2>5. QED
    BY <2>3, <2>4 DEF KeysAreFew
<1>7. ASSUME NEW t \in KeyThreads
      PROVE  Sound(t)
  <2>1. Tree(t) = 0 /\ doing[t] = "application" /\ aux_depth[t] = 0 /\ aux_calls[t] = 0 /\ files[t] = <<>>
    BY <1>1, <1>2, KeyFacts DEF Tree
  <2>2. DOMAIN tls = {}
    BY <1>1
  <2>3. QED
    BY <2>1, <2>2 DEF Sound, TreeWhere, StackFits, OthersFreed, CallsAreKept, Started
<1>8. QED
  BY <1>3, <1>4, <1>5, <1>6, <1>7 DEF KeyInv, KeyShape, AllSound

\* All steps.
LEMMA KeysStep ==
  ASSUME KeyInv, [KeysNext]_(keyVars)
  PROVE  KeyInv'
<1>1. CASE KeyTraceBegin
  BY <1>1, TraceBeginKeeps
<1>2. ASSUME NEW t \in KeyThreads,
             \/ KeyEnter(t) \/ KeyExit(t) \/ CreateKey(t) \/ ActivateKey(t)
             \/ EnterInit(t) \/ EnterRecord(t) \/ CreateThread(t) \/ EndThread(t)
             \/ KeyThreadEnds(t) \/ KeyTraceEnd(t)
             \/ \E k \in AllKeys : Destroy(t, k)
      PROVE  KeyInv'
  <2>1. CASE KeyEnter(t)
    BY <2>1, EnterKeeps
  <2>2. CASE KeyExit(t)
    BY <2>2, ExitKeeps
  <2>3. CASE CreateKey(t)
    BY <2>3, CreateKeyKeeps
  <2>4. CASE ActivateKey(t)
    BY <2>4, ActivateKeyKeeps
  <2>5. CASE EnterInit(t)
    BY <2>5, EnterInitKeeps
  <2>6. CASE EnterRecord(t)
    BY <2>6, EnterRecordKeeps
  <2>7. CASE CreateThread(t)
    BY <2>7, CreateThreadKeeps
  <2>8. CASE EndThread(t)
    BY <2>8, EndThreadKeeps
  <2>9. CASE KeyThreadEnds(t)
    BY <2>9, ThreadEndsKeeps
  <2>10. CASE KeyTraceEnd(t)
    BY <2>10, TraceEndKeeps
  <2>11. ASSUME NEW k \in AllKeys, Destroy(t, k)
         PROVE  KeyInv'
    BY <2>11, DestroyKeeps
  <2>12. QED
    BY <1>2, <2>1, <2>2, <2>3, <2>4, <2>5, <2>6, <2>7, <2>8, <2>9, <2>10, <2>11
<1>3. CASE UNCHANGED keyVars
  <2>1. UNCHANGED <<program, tlsKey, tlsKey_active, keys, specific, tls, thread, doing, files, aux_depth, aux_calls>>
    BY <1>3 DEF keyVars
  <2>2. KeyTypes' /\ KeysInOrder'
    BY <2>1 DEF KeyInv, KeyShape, KeyTypes, KeysTypeOK, KeysInOrder
  <2>3. KeyIsMade' /\ NothingYet' /\ Beginning'
    BY <2>1 DEF KeyInv, KeyShape, KeyIsMade, NothingYet, Beginning
  <2>4. KeysAreFew'
    BY <2>1, KeysStay DEF KeyInv
  <2>5. TreesHaveOneKey' /\ NoTreeIsStale'
    BY <2>1 DEF KeyInv, TreesHaveOneKey, NoTreeIsStale
  <2>6. AllSound'
    BY <2>1 DEF KeyInv, AllSound, OneKey, Going, Sound, TreeWhere, StackFits, OthersFreed,
                CallsAreKept, Tree, Started, Missing
  <2>7. QED
    BY <2>2, <2>3, <2>4, <2>5, <2>6 DEF KeyInv, KeyShape
<1>4. QED
  BY <1>1, <1>2, <1>3 DEF KeysNext

\* The invariant implies what the runs check.
LEMMA KeyInvMeans ==
  ASSUME KeyInv
  PROVE  KeysTypeOK /\ KeyedTreesAreDumped
<1>1. KeyTypes /\ KeysInOrder /\ NoTreeIsStale /\ AllSound
  BY DEF KeyInv, KeyShape
<1>2. StacksMatchCalls
  <2>1. SUFFICES ASSUME OneKey, Going, NEW t \in KeyThreads, GetSpecific(t) # 0,
                        doing[t] = "application", thread[t] = "running"
                 PROVE  tls[GetSpecific(t)].cct_stack_idx
                          = aux_depth[t] - tls[GetSpecific(t)].base
    BY DEF StacksMatchCalls
  <2>2. GetSpecific(t) = Tree(t) /\ Tree(t) # 0
    BY <1>1, <2>1, SpecificTree
  <2>3. Tree(t) \in 1 .. Len(tls)
    BY <1>1, <2>1, <2>2, SpecificTree
  <2>4. tls[Tree(t)] \in TlsObject /\ aux_depth[t] \in Nat
    BY <1>1, <2>3 DEF KeyTypes
  <2>5. tls[Tree(t)].base \in Int
    BY <2>4 DEF TlsObject
  <2>6. tls[Tree(t)].cct_stack_idx = aux_depth[t] - tls[Tree(t)].base - Missing(t)
    BY <1>1, <2>1, <2>2 DEF AllSound, Sound, StackFits
  <2>7. Missing(t) = 0
    BY <2>1 DEF Missing
  <2>8. tls[Tree(t)].cct_stack_idx = aux_depth[t] - tls[Tree(t)].base
    BY <2>4, <2>5, <2>6, <2>7
  <2>9. QED
    BY <2>2, <2>8
<1>3. EndedThreadsAreDumped
  <2>1. SUFFICES ASSUME OneKey, Going, NEW t \in KeyThreads, thread[t] = "ended"
                 PROVE  /\ aux_calls[t] > 0 => files[t] = <<aux_calls[t]>>
                        /\ \A v \in DOMAIN tls : tls[v].owner = t => tls[v].freed
    BY DEF EndedThreadsAreDumped
  <2>2. Sound(t)
    BY <1>1, <2>1 DEF AllSound
  <2>3. Tree(t) = 0 /\ doing[t] = "application"
    BY <2>1, <2>2 DEF Sound, TreeWhere
  <2>4. Started(t) = 0
    BY <2>3 DEF Started
  <2>5. aux_calls[t] > 0 => files[t] = <<aux_calls[t]>>
    BY <2>2, <2>3, <2>4 DEF Sound, CallsAreKept
  <2>6. \A v \in DOMAIN tls : tls[v].owner = t => tls[v].freed
    <3>1. SUFFICES ASSUME NEW v \in DOMAIN tls, tls[v].owner = t, ~tls[v].freed
                   PROVE  FALSE
      OBVIOUS
    <3>2. v = 0
      BY <2>2, <2>3, <3>1 DEF Sound, OthersFreed
    <3>3. DOMAIN tls = 1 .. Len(tls)
      BY <1>1 DEF KeyTypes
    <3>4. QED
      BY <3>2, <3>3
  <2>7. QED
    BY <2>5, <2>6
<1>4. QED
  BY <1>1, <1>2, <1>3 DEF KeyedTreesAreDumped, KeyTypes

\* The threads of a process that keeps its trees behind a key: a key never
\* holds a tree that was freed, or another thread's; and as long as only one
\* key was made, the stack of a tree has the calls that its thread has open,
\* and a thread that has ended has in its file all the calls it made.
THEOREM KeyedTreesAreKept ==
  KeysSpec => [](KeysTypeOK /\ KeyedTreesAreDumped)
<1>1. KeysInit => KeyInv
  BY KeysBegin
<1>2. KeyInv /\ [KeysNext]_(keyVars) => KeyInv'
  BY KeysStep
<1>3. KeyInv => KeysTypeOK /\ KeyedTreesAreDumped
  BY KeyInvMeans
<1>4. QED
  BY <1>1, <1>2, <1>3, PTL DEF KeysSpec

-----------------------------------------------------------------------------
(* TimeProfiler.                                                           *)

\* Contexts of one call, and of the call that stands for none.
Singles == {x \in Timed!Places : Len(x) = 1}

\* The counter of a node of a tree; the tics that wait to be charged to x; and what
\* x has, with them, beyond the time that was spent in it.
Count(tree, x)        == IF x \in DOMAIN tree THEN tree[x] ELSE 0
Wait(g, tics, sh, x)  == IF x = sh THEN g - tics ELSE 0
Spent(spent, x)       == IF x \in Timed!Contexts THEN spent[x] ELSE 0
Excess(g, tree, tics, sh, spent) ==
  [x \in Singles |-> Count(tree, x) + Wait(g, tics, sh, x) - Spent(spent, x)]

\* What belongs to a thread has its type, at g tics of the timer.
Typed(g, tree, tics, sh, b, begin, spent) ==
  /\ g \in Nat /\ tics \in 0 .. g /\ begin \in Nat
  /\ sh \in Timed!Contexts
  /\ b \in Calls \cup {Null} /\ <<b>> \in Timed!Places
  /\ spent \in [Timed!Contexts -> Nat]
  /\ DOMAIN tree \subseteq Timed!Places /\ IsFiniteSet(DOMAIN tree)
  /\ \A x \in DOMAIN tree : tree[x] \in Nat

\* The tree accounts for the time.
EachItsOwn(g, tree, tics, sh, spent) ==
  \A x \in Timed!Contexts \ {Timed!Root} :
    /\ Count(tree, x) + Wait(g, tics, sh, x) >= spent[x]
    /\ Len(x) > 1 => Count(tree, x) + Wait(g, tics, sh, x) = spent[x]

Accounts(g, tree, tics, sh, begin, spent) ==
  /\ SumOf(tree, DOMAIN tree \ {Timed!Root}) = tics
  /\ EachItsOwn(g, tree, tics, sh, spent)
  /\ SumOf(Excess(g, tree, tics, sh, spent), Singles)
       = begin + spent[Timed!Root] - Wait(g, tics, sh, Timed!Root)

\* What a context is.
LEMMA TimedContexts ==
  /\ TimeDepth \in Nat
  /\ \A x : x \in Timed!Contexts <=> x \in Seq(Calls) /\ Len(x) <= TimeDepth
<1>1. TimeDepth \in Nat
  BY TimeAssumption DEF Timed!ConstantsAssumption
<1>2. ASSUME NEW x, x \in Timed!Contexts PROVE x \in Seq(Calls) /\ Len(x) <= TimeDepth
  BY <1>1, <1>2 DEF Timed!Contexts
<1>3. ASSUME NEW x, x \in Seq(Calls), Len(x) <= TimeDepth PROVE x \in Timed!Contexts
  <2>1. Len(x) \in 0 .. TimeDepth /\ x \in [1 .. Len(x) -> Calls]
    BY <1>1, <1>3
  <2>2. QED
    BY <2>1 DEF Timed!Contexts
<1>4. QED
  BY <1>1, <1>2, <1>3

\* The context without calls, and places.
LEMMA TimedRoot ==
  /\ Timed!Root \in Timed!Contexts /\ Len(Timed!Root) = 0
  /\ \A x \in Timed!Places : Len(x) \in Nat /\ (x \in Timed!Contexts \/ x = <<Null>>)
  /\ \A x \in Timed!Contexts : Len(x) = 0 <=> x = Timed!Root
<1>1. Timed!Root \in Seq(Calls) /\ Len(Timed!Root) = 0
  BY DEF Timed!Root
<1>2. Timed!Root \in Timed!Contexts
  <2>1. Len(Timed!Root) <= TimeDepth
    BY <1>1, TimedContexts
  <2>2. QED
    BY <1>1, <2>1, TimedContexts, Zenon
<1>3. \A x \in Timed!Contexts : x \in Seq(Calls)
  BY TimedContexts
<1>4. \A x \in Seq(Calls) : Len(x) \in Nat /\ (Len(x) = 0 <=> x = << >>)
  OBVIOUS
<1>5. Len(<<Null>>) = 1
  OBVIOUS
<1>6. QED
  BY <1>1, <1>2, <1>3, <1>4, <1>5 DEF Timed!Root, Timed!Places

\* There are finitely many contexts of one call.
LEMMA SinglesAreFinite == IsFiniteSet(Singles)
<1> DEFINE C == Calls \cup {Null}
           T == {<<c>> : c \in C}
           f == [c \in C |-> <<c>>]
<1>1. IsFiniteSet(C)
  <2>1. IsFiniteSet(Calls)
    BY TimeAssumption DEF Timed!ConstantsAssumption, Timed!IsFiniteSet, IsFiniteSet
  <2>2. QED
    BY <2>1, FS_AddElement
<1>2. f \in Surjection(C, T)
  BY DEF Surjection
<1>3. IsFiniteSet(T)
  <2>. HIDE DEF f, C, T
  <2>. QED BY <1>1, <1>2, FS_Surjection
<1>4. \A x \in Singles : x \in T
  <2>1. SUFFICES ASSUME NEW x \in Singles PROVE x \in T
    OBVIOUS
  <2>2. CASE x = <<Null>>
    BY <2>2
  <2>3. CASE x # <<Null>>
    <3>1. x \in Seq(Calls) /\ Len(x) = 1
      BY <2>1, <2>3, TimedRoot, TimedContexts DEF Singles
    <3>2. x[1] \in Calls
      BY <3>1
    <3>3. <<x[1]>> \in Seq(Calls) /\ Len(<<x[1]>>) = 1 /\ <<x[1]>>[1] = x[1]
      BY <3>2
    <3>4. x = <<x[1]>>
      <4> DEFINE y == <<x[1]>>
      <4>1. y \in Seq(Calls) /\ Len(y) = 1 /\ y[1] = x[1]
        BY <3>3
      <4>. HIDE DEF y
      <4>2. x = y
        BY <3>1, <4>1
      <4>3. QED
        BY <4>2 DEF y
    <3>5. QED
      BY <3>2, <3>4
  <2>4. QED
    BY <2>2, <2>3
<1>5. Singles \in SUBSET T
  BY <1>4
<1>6. QED
  <2>. HIDE DEF T
  <2>. QED BY <1>3, <1>5, FS_Subset

\* Numbers.
LEMMA NumbersOfThread ==
  ASSUME NEW g, NEW tree, NEW tics, NEW sh, NEW b, NEW begin, NEW spent,
         Typed(g, tree, tics, sh, b, begin, spent)
  PROVE  /\ \A x : Count(tree, x) \in Nat /\ Wait(g, tics, sh, x) \in Nat /\ Spent(spent, x) \in Nat
         /\ \A x \in Singles : Excess(g, tree, tics, sh, spent)[x] \in Int
<1>1. \A x : Count(tree, x) \in Nat /\ Wait(g, tics, sh, x) \in Nat /\ Spent(spent, x) \in Nat
  BY DEF Typed, Count, Wait, Spent
<1>2. QED
  BY <1>1 DEF Excess

\* The nodes that are entered again, and the tree with tics charged to the last of them.
PathNodes(path) == {Timed!Prefix(path, i) : i \in 1 .. Len(path)}
ChargedTo(tree, path, tics) ==
  [x \in DOMAIN tree \cup PathNodes(path) |-> Count(tree, x) + (IF x = path THEN tics ELSE 0)]

\* The nodes of a path are places with calls, finitely many; the last one is its end.
LEMMA PathProperties ==
  ASSUME NEW path \in Timed!Places, path # Timed!Root
  PROVE  /\ PathNodes(path) \subseteq Timed!Places /\ Timed!Root \notin PathNodes(path)
         /\ path \in PathNodes(path)
         /\ IsFiniteSet(PathNodes(path))
<1>1. path \in Seq(Calls \cup {Null}) /\ Len(path) \in Nat /\ Len(path) >= 1
  <2>1. CASE path \in Timed!Contexts
    <3>1. path \in Seq(Calls)
      BY <2>1, TimedContexts
    <3>2. path \in Seq(Calls \cup {Null})
      BY <3>1
    <3>3. Len(path) \in Nat /\ Len(path) # 0
      BY <2>1, <3>1, TimedRoot
    <3>4. QED
      BY <3>2, <3>3
  <2>2. CASE path = <<Null>>
    BY <2>2
  <2>3. QED
    BY <2>1, <2>2, TimedRoot
<1>2. ASSUME NEW i \in 1 .. Len(path)
      PROVE  /\ Timed!Prefix(path, i) \in Timed!Places
             /\ Timed!Prefix(path, i) # Timed!Root
  <2>1. Timed!Prefix(path, i) \in Seq(Calls \cup {Null}) /\ Len(Timed!Prefix(path, i)) = i
    BY <1>1 DEF Timed!Prefix
  <2>2. Timed!Prefix(path, i) # Timed!Root
    BY <2>1 DEF Timed!Root
  <2>3. CASE path \in Timed!Contexts
    <3>1. path \in Seq(Calls) /\ Len(path) <= TimeDepth /\ TimeDepth \in Nat
      BY <2>3, TimedContexts
    <3>2. Timed!Prefix(path, i) \in Seq(Calls)
      BY <3>1 DEF Timed!Prefix
    <3>3. Len(Timed!Prefix(path, i)) <= TimeDepth
      BY <1>1, <2>1, <3>1
    <3>4. Timed!Prefix(path, i) \in Timed!Contexts
      BY <3>2, <3>3, TimedContexts
    <3>5. QED
      BY <2>2, <3>4 DEF Timed!Places
  <2>4. CASE path = <<Null>>
    <3>1. i = 1 /\ Timed!Prefix(path, i) = <<Null>>
      <4>1. Len(<<Null>>) = 1 /\ i = 1
        BY <2>4
      <4>2. SubSeq(<<Null>>, 1, 1) = <<Null>>
        <5> DEFINE s == <<Null>>
        <5>1. s \in Seq({Null}) /\ Len(s) = 1
          OBVIOUS
        <5>. HIDE DEF s
        <5>2. SubSeq(s, 1, 1) = s
          BY <5>1
        <5>3. QED
          BY <5>2 DEF s
      <4>3. QED
        BY <2>4, <4>1, <4>2 DEF Timed!Prefix
    <3>2. QED
      BY <2>2, <3>1 DEF Timed!Places
  <2>5. QED
    BY <2>3, <2>4, TimedRoot
<1>3. path \in PathNodes(path)
  <2>1. Timed!Prefix(path, Len(path)) = path /\ Len(path) \in 1 .. Len(path)
    BY <1>1 DEF Timed!Prefix
  <2>2. QED
    BY <2>1 DEF PathNodes
<1>4. IsFiniteSet(PathNodes(path))
  <2> DEFINE I == 1 .. Len(path)
             f == [i \in I |-> Timed!Prefix(path, i)]
             T == PathNodes(path)
  <2>1. f \in Surjection(I, T)
    BY DEF Surjection, PathNodes
  <2>2. IsFiniteSet(I)
    BY <1>1, FS_Interval
  <2>3. QED
    <3>. HIDE DEF f, I
    <3>. QED BY <2>1, <2>2, FS_Surjection
<1>5. QED
  BY <1>2, <1>3, <1>4 DEF PathNodes

\* What is charged to a place is added to its counter, and to no other.
LEMMA ChargedCounts ==
  ASSUME NEW tree, NEW path \in Timed!Places, NEW tics \in Nat, path # Timed!Root, NEW x,
         Count(tree, x) \in Nat
  PROVE  Count(ChargedTo(tree, path, tics), x) = Count(tree, x) + (IF x = path THEN tics ELSE 0)
<1>1. path \in PathNodes(path)
  BY PathProperties
<1>2. CASE x \in DOMAIN tree \cup PathNodes(path)
  BY <1>2 DEF Count, ChargedTo
<1>3. CASE x \notin DOMAIN tree \cup PathNodes(path)
  <2>1. Count(tree, x) = 0 /\ x # path
    BY <1>1, <1>3 DEF Count
  <2>2. Count(ChargedTo(tree, path, tics), x) = 0
    BY <1>3 DEF Count, ChargedTo
  <2>3. QED
    BY <2>1, <2>2
<1>4. QED
  BY <1>2, <1>3

\* The sum of the counters grows by what is charged.
LEMMA ChargedSum ==
  ASSUME NEW tree, IsFiniteSet(DOMAIN tree), \A x \in DOMAIN tree : tree[x] \in Nat,
         NEW path \in Timed!Places, NEW tics \in Nat, path # Timed!Root
  PROVE  LET new == ChargedTo(tree, path, tics)
         IN  SumOf(new, DOMAIN new \ {Timed!Root}) = SumOf(tree, DOMAIN tree \ {Timed!Root}) + tics
<1> DEFINE new == ChargedTo(tree, path, tics)
           S   == DOMAIN tree \ {Timed!Root}
           R   == DOMAIN new \ {Timed!Root}
           f   == [x \in R |-> Count(tree, x)]
<1>1. DOMAIN new = DOMAIN tree \cup PathNodes(path)
  BY DEF ChargedTo
<1>2. \A x : Count(tree, x) \in Nat
  BY DEF Count
<1>3. IsFiniteSet(R) /\ IsFiniteSet(S) /\ S \subseteq R /\ path \in R
  <2>1. IsFiniteSet(DOMAIN tree \cup PathNodes(path))
    BY PathProperties, FS_Union
  <2>2. IsFiniteSet(R) /\ IsFiniteSet(S)
    BY <1>1, <2>1, FS_RemoveElement
  <2>3. QED
    BY <1>1, <2>2, PathProperties
<1>4. (\A x \in R : f[x] \in Int) /\ (\A x \in R : new[x] \in Int)
  BY <1>1, <1>2 DEF ChargedTo
<1>5. \A x \in S : f[x] = tree[x]
  BY <1>3 DEF Count
<1>6. \A x \in R \ S : f[x] = 0
  BY DEF Count
<1>7. Agree(f, new, R \ {path})
  BY <1>1, <1>2 DEF ChargedTo, Agree
<1>8. new[path] = f[path] + tics
  BY <1>1, <1>3 DEF ChargedTo
<1>. HIDE DEF new, S, R, f
<1>9. SumOf(f, R) = SumOf(f, S)
  BY <1>3, <1>4, <1>6, SumOfMore
<1>10. SumOf(f, S) = SumOf(tree, S)
  BY <1>3, <1>5, SumOfSame
<1>11. SumOf(new, R) = SumOf(f, R) + new[path] - f[path]
  BY <1>3, <1>4, <1>7, SumOfChanged
<1>12. SumOf(f, R) \in Int /\ f[path] \in Int
  BY <1>3, <1>4, SumProperties
<1>13. SumOf(new, R) = SumOf(tree, S) + tics
  BY <1>8, <1>9, <1>10, <1>11, <1>12
<1>14. QED
  BY <1>13 DEF new, R, S

\* Charging all tics leaves none to wait, and the tree accounts for the time.
LEMMA ChargedAccounts ==
  ASSUME NEW g, NEW tree, NEW tics, NEW sh, NEW b, NEW begin, NEW spent,
         Typed(g, tree, tics, sh, b, begin, spent),
         Accounts(g, tree, tics, sh, begin, spent),
         NEW path, path = IF sh = Timed!Root THEN <<b>> ELSE sh
  PROVE  LET new == ChargedTo(tree, path, g - tics)
         IN  /\ Typed(g, new, g, sh, b, begin, spent)
             /\ Accounts(g, new, g, sh, begin, spent)
<1> DEFINE new == ChargedTo(tree, path, g - tics)
<1>1. /\ g \in Nat /\ tics \in Nat /\ tics <= g /\ g - tics \in Nat /\ begin \in Nat
      /\ sh \in Timed!Contexts /\ <<b>> \in Timed!Places
      /\ IsFiniteSet(DOMAIN tree) /\ DOMAIN tree \subseteq Timed!Places
      /\ \A x \in DOMAIN tree : tree[x] \in Nat
      /\ spent \in [Timed!Contexts -> Nat]
  BY DEF Typed
<1>2. path \in Timed!Places /\ path # Timed!Root /\ (sh = Timed!Root => path = <<b>>) /\ (sh # Timed!Root => path = sh)
  BY <1>1 DEF Timed!Places, Timed!Root
<1>3. \A x : /\ Count(tree, x) \in Nat /\ Wait(g, tics, sh, x) \in Nat /\ Spent(spent, x) \in Nat
             /\ Count(new, x) = Count(tree, x) + (IF x = path THEN g - tics ELSE 0)
             /\ Wait(g, g, sh, x) = 0
  <2>1. TAKE x
  <2>2. Count(tree, x) \in Nat /\ Wait(g, tics, sh, x) \in Nat /\ Spent(spent, x) \in Nat
    BY NumbersOfThread
  <2>3. Count(new, x) = Count(tree, x) + (IF x = path THEN g - tics ELSE 0)
    BY <1>1, <1>2, <2>2, ChargedCounts
  <2>4. Wait(g, g, sh, x) = 0
    BY <1>1 DEF Wait
  <2>5. QED
    BY <2>2, <2>3, <2>4
<1>4. Typed(g, new, g, sh, b, begin, spent)
  <2>1. DOMAIN new = DOMAIN tree \cup PathNodes(path)
    BY DEF ChargedTo
  <2>2. DOMAIN new \subseteq Timed!Places /\ IsFiniteSet(DOMAIN new)
    <3>1. PathNodes(path) \subseteq Timed!Places /\ IsFiniteSet(PathNodes(path))
      BY <1>2, PathProperties
    <3>2. IsFiniteSet(DOMAIN tree \cup PathNodes(path))
      BY <1>1, <3>1, FS_Union
    <3>3. QED
      BY <1>1, <2>1, <3>1, <3>2
  <2>3. \A x \in DOMAIN new : new[x] \in Nat
    <3>1. \A x \in DOMAIN new : new[x] = Count(new, x)
      BY DEF Count
    <3>2. \A x : Count(new, x) \in Nat
      BY <1>1, <1>3
    <3>3. QED
      BY <3>1, <3>2
  <2>4. QED
    BY <1>1, <2>2, <2>3 DEF Typed
<1>5. SumOf(new, DOMAIN new \ {Timed!Root}) = g
  <2>1. SumOf(tree, DOMAIN tree \ {Timed!Root}) = tics
    BY DEF Accounts
  <2>2. SumOf(new, DOMAIN new \ {Timed!Root}) = SumOf(tree, DOMAIN tree \ {Timed!Root}) + (g - tics)
    BY <1>1, <1>2, ChargedSum
  <2>3. QED
    BY <1>1, <2>1, <2>2
<1>. HIDE DEF new
<1>6. EachItsOwn(g, new, g, sh, spent)
  <2>1. SUFFICES ASSUME NEW x \in Timed!Contexts \ {Timed!Root}
                 PROVE  /\ Count(new, x) + Wait(g, g, sh, x) >= spent[x]
                        /\ Len(x) > 1 => Count(new, x) + Wait(g, g, sh, x) = spent[x]
    BY DEF EachItsOwn
  <2>2. /\ Count(tree, x) + Wait(g, tics, sh, x) >= spent[x]
        /\ Len(x) > 1 => Count(tree, x) + Wait(g, tics, sh, x) = spent[x]
        /\ spent[x] \in Nat
    BY <1>1 DEF Accounts, EachItsOwn
  <2>3. CASE sh = Timed!Root
    <3>1. Wait(g, tics, sh, x) = 0
      BY <2>1, <2>3 DEF Wait
    <3>2. Len(x) > 1 => x # path
      <4>1. Len(<<b>>) = 1
        OBVIOUS
      <4>2. Len(path) = 1
        BY <1>2, <2>3, <4>1
      <4>3. x = path => Len(x) = Len(path)
        BY Zenon
      <4>4. Len(x) = 1 => ~ (Len(x) > 1)
        OBVIOUS
      <4>5. QED
        BY <4>2, <4>3, <4>4, Zenon
    <3>3. QED
      BY <1>1, <1>3, <2>2, <3>1, <3>2
  <2>4. CASE sh # Timed!Root
    <3>1. Wait(g, tics, sh, x) = IF x = path THEN g - tics ELSE 0
      BY <1>2, <2>4 DEF Wait
    <3>2. QED
      BY <1>1, <1>3, <2>2, <3>1
  <2>5. QED
    BY <2>3, <2>4
<1> DEFINE f == Excess(g, tree, tics, sh, spent)
           e == Excess(g, new, g, sh, spent)
<1>7. (\A x \in Singles : f[x] \in Int) /\ (\A x \in Singles : e[x] \in Int)
  BY <1>4, NumbersOfThread
<1>8. \A x \in Singles : e[x] = f[x] + (IF x = path THEN g - tics ELSE 0) - Wait(g, tics, sh, x)
  <2>1. TAKE x \in Singles
  <2>2. e[x] = Count(new, x) + 0 - Spent(spent, x)
    BY <1>3 DEF Excess
  <2>3. f[x] = Count(tree, x) + Wait(g, tics, sh, x) - Spent(spent, x)
    BY DEF Excess
  <2>4. QED
    BY <1>1, <1>3, <2>2, <2>3
<1>9. SumOf(f, Singles) = begin + spent[Timed!Root] - Wait(g, tics, sh, Timed!Root)
  BY DEF Accounts
<1>10. spent[Timed!Root] \in Nat
  BY <1>1, TimedRoot
<1>11. SumOf(e, Singles) = begin + spent[Timed!Root] - 0
  <2>. HIDE DEF f, e
  <2>1. CASE sh = Timed!Root
    <3>1. path \in Singles
      BY <1>2, <2>1 DEF Singles
    <3>2. \A x \in Singles : Wait(g, tics, sh, x) = 0
      BY <2>1, TimedRoot DEF Wait, Singles
    <3>3. Agree(f, e, Singles \ {path}) /\ e[path] = f[path] + (g - tics)
      BY <1>1, <1>7, <1>8, <3>1, <3>2 DEF Agree
    <3>4. SumOf(e, Singles) = SumOf(f, Singles) + e[path] - f[path]
      <4>1. PICK q \in Singles : q = path
        BY <3>1
      <4>2. Agree(f, e, Singles \ {q})
        BY <3>3, <4>1
      <4>3. SumOf(e, Singles) = SumOf(f, Singles) + e[q] - f[q]
        BY <1>7, <4>2, SinglesAreFinite, SumOfChanged
      <4>4. QED
        BY <4>1, <4>3
    <3>5. SumOf(f, Singles) \in Int
      BY <1>7, SinglesAreFinite, SumProperties
    <3>6. Wait(g, tics, sh, Timed!Root) = g - tics
      BY <2>1 DEF Wait
    <3>7. f[path] \in Int
      BY <1>7, <3>1
    <3>8. QED
      BY <1>1, <1>9, <1>10, <3>3, <3>4, <3>5, <3>6, <3>7
  <2>2. CASE sh # Timed!Root
    <3>1. \A x \in Singles : e[x] = f[x]
      <4>1. TAKE x \in Singles
      <4>2. Wait(g, tics, sh, x) = IF x = path THEN g - tics ELSE 0
        BY <1>2, <2>2 DEF Wait
      <4>3. f[x] \in Int
        BY <1>7
      <4>4. QED
        BY <1>1, <1>8, <4>2, <4>3
    <3>2. SumOf(e, Singles) = SumOf(f, Singles)
      BY <3>1, SinglesAreFinite, SumOfSame
    <3>3. Wait(g, tics, sh, Timed!Root) = 0
      BY <2>2 DEF Wait
    <3>4. QED
      BY <1>9, <3>2, <3>3
  <2>3. QED
    BY <2>1, <2>2
<1>12. Accounts(g, new, g, sh, begin, spent)
  BY <1>3, <1>5, <1>6, <1>11 DEF Accounts
<1>13. QED
  BY <1>4, <1>12 DEF new

\* When no tics wait, it does not matter where the thread goes.
LEMMA MovedAccounts ==
  ASSUME NEW g \in Nat, NEW tree, NEW sh, NEW begin, NEW spent, NEW to,
         Accounts(g, tree, g, sh, begin, spent)
  PROVE  Accounts(g, tree, g, to, begin, spent)
<1>1. \A x : Wait(g, g, sh, x) = 0 /\ Wait(g, g, to, x) = 0
  BY DEF Wait
<1>2. EachItsOwn(g, tree, g, to, spent)
  BY <1>1 DEF Accounts, EachItsOwn
<1>3. Excess(g, tree, g, to, spent) = Excess(g, tree, g, sh, spent)
  BY <1>1 DEF Excess
<1>4. QED
  BY <1>1, <1>2, <1>3 DEF Accounts

\* A tic waits for the active context, in which it was spent.
LEMMA TickAccounts ==
  ASSUME NEW g, NEW tree, NEW tics, NEW sh, NEW b, NEW begin, NEW spent,
         Typed(g, tree, tics, sh, b, begin, spent),
         Accounts(g, tree, tics, sh, begin, spent)
  PROVE  Accounts(g + 1, tree, tics, sh, begin, [spent EXCEPT ![sh] = @ + 1])
<1> DEFINE later == [spent EXCEPT ![sh] = @ + 1]
<1>1. /\ g \in Nat /\ tics \in Nat /\ tics <= g /\ begin \in Nat
      /\ sh \in Timed!Contexts
      /\ spent \in [Timed!Contexts -> Nat]
  BY DEF Typed
<1>2. \A x : /\ Count(tree, x) \in Nat /\ Wait(g, tics, sh, x) \in Nat /\ Spent(spent, x) \in Nat
             /\ Wait(g + 1, tics, sh, x) = Wait(g, tics, sh, x) + (IF x = sh THEN 1 ELSE 0)
  BY <1>1, NumbersOfThread DEF Wait
<1>3. \A x \in Timed!Contexts : later[x] = spent[x] + (IF x = sh THEN 1 ELSE 0)
  BY <1>1
<1>4. \A x : Spent(later, x) = Spent(spent, x) + (IF x = sh THEN 1 ELSE 0)
  BY <1>1, <1>3 DEF Spent
<1>. HIDE DEF later
<1>5. EachItsOwn(g + 1, tree, tics, sh, later)
  <2>1. SUFFICES ASSUME NEW x \in Timed!Contexts \ {Timed!Root}
                 PROVE  /\ Count(tree, x) + Wait(g + 1, tics, sh, x) >= later[x]
                        /\ Len(x) > 1 => Count(tree, x) + Wait(g + 1, tics, sh, x) = later[x]
    BY DEF EachItsOwn
  <2>2. /\ Count(tree, x) + Wait(g, tics, sh, x) >= spent[x]
        /\ Len(x) > 1 => Count(tree, x) + Wait(g, tics, sh, x) = spent[x]
        /\ spent[x] \in Nat
    BY <1>1 DEF Accounts, EachItsOwn
  <2>3. QED
    BY <1>2, <1>3, <2>2
<1>6. Excess(g + 1, tree, tics, sh, later) = Excess(g, tree, tics, sh, spent)
  <2>1. \A x \in Singles : Count(tree, x) + Wait(g + 1, tics, sh, x) - Spent(later, x)
                             = Count(tree, x) + Wait(g, tics, sh, x) - Spent(spent, x)
    BY <1>2, <1>4
  <2>2. QED
    BY <2>1 DEF Excess
<1>7. begin + later[Timed!Root] - Wait(g + 1, tics, sh, Timed!Root)
        = begin + spent[Timed!Root] - Wait(g, tics, sh, Timed!Root)
  <2>1. later[Timed!Root] = spent[Timed!Root] + (IF Timed!Root = sh THEN 1 ELSE 0) /\ spent[Timed!Root] \in Nat
    BY <1>1, <1>3, TimedRoot
  <2>2. QED
    BY <1>1, <1>2, <2>1
<1>8. Accounts(g + 1, tree, tics, sh, begin, later)
  BY <1>5, <1>6, <1>7 DEF Accounts
<1>9. QED
  BY <1>8 DEF later

\* A new tree accounts for the time of its thread: all that was before it waits.
LEMMA NewAccounts ==
  ASSUME NEW g \in Nat
  PROVE  LET tree  == [x \in {Timed!Root} |-> 1]
             spent == [x \in Timed!Contexts |-> 0]
         IN  /\ Typed(g, tree, 0, Timed!Root, Null, g, spent)
             /\ Accounts(g, tree, 0, Timed!Root, g, spent)
<1> DEFINE tree  == [x \in {Timed!Root} |-> 1]
           spent == [x \in Timed!Contexts |-> 0]
<1>1. DOMAIN tree = {Timed!Root} /\ DOMAIN tree \ {Timed!Root} = {}
  OBVIOUS
<1>2. Typed(g, tree, 0, Timed!Root, Null, g, spent)
  <2>1. IsFiniteSet({Timed!Root})
    BY FS_Singleton
  <2>2. Timed!Root \in Timed!Contexts
    BY TimedRoot
  <2>3. QED
    BY <1>1, <2>1, <2>2 DEF Typed, Timed!Places
<1>3. SumOf(tree, DOMAIN tree \ {Timed!Root}) = 0
  BY <1>1, SumOfNone
<1>4. \A x : x # Timed!Root => Count(tree, x) = 0 /\ Wait(g, 0, Timed!Root, x) = 0 /\ Spent(spent, x) = 0
  BY DEF Count, Wait, Spent
<1>5. EachItsOwn(g, tree, 0, Timed!Root, spent)
  BY <1>4 DEF EachItsOwn
<1> DEFINE f == Excess(g, tree, 0, Timed!Root, spent)
<1>6. \A x \in Singles : f[x] = 0
  <2>1. \A x \in Singles : x # Timed!Root
    <3>1. Len(Timed!Root) = 0
      BY TimedRoot
    <3>2. \A x \in Singles : Len(x) = 1
      BY DEF Singles
    <3>3. QED
      BY <3>1, <3>2
  <2>2. QED
    BY <1>4, <2>1 DEF Excess
<1>7. SumOf(f, Singles) = 0
  <2>. HIDE DEF f
  <2>1. \A x \in Singles : f[x] \in Int
    BY <1>6
  <2>2. SumOf(f, Singles) = SumOf(f, {})
    BY <1>6, <2>1, SinglesAreFinite, SumOfMore
  <2>3. QED
    BY <2>2, SumOfNone
<1>8. spent[Timed!Root] = 0 /\ Wait(g, 0, Timed!Root, Timed!Root) = g
  BY TimedRoot DEF Wait
<1>9. Accounts(g, tree, 0, Timed!Root, g, spent)
  BY <1>3, <1>5, <1>7, <1>8 DEF Accounts
<1>10. QED
  BY <1>2, <1>9

\* The inductive invariant of TimeProfiler.
TimedThread(t) ==
  /\ Typed(globalTics, time[t], threadTics[t], timeShadow[t], bottom[t], aux_begin[t], aux_time[t])
  /\ DOMAIN time[t] # {} =>
       Accounts(globalTics, time[t], threadTics[t], timeShadow[t], aux_begin[t], aux_time[t])

PerThread(f) == f = [t \in TimedThreads |-> f[t]]

TimedInv ==
  /\ PerThread(threadTics) /\ PerThread(timeShadow) /\ PerThread(bottom)
  /\ PerThread(time) /\ PerThread(aux_begin) /\ PerThread(aux_time)
  /\ globalTics \in Nat
  /\ \A t \in TimedThreads : TimedThread(t)

\* The first state: trace_begin has made the tree of the initial thread.
LEMMA TimedInvInit ==
  ASSUME Timed!Init
  PROVE  TimedInv
<1>1. /\ globalTics = 0 /\ 0 \in Nat
      /\ threadTics = [t \in TimedThreads |-> 0]
      /\ timeShadow = [t \in TimedThreads |-> Timed!Root]
      /\ bottom = [t \in TimedThreads |-> Null]
      /\ time = [t \in TimedThreads |-> [x \in (IF t = Main THEN {Timed!Root} ELSE {}) |-> 1]]
      /\ aux_begin = [t \in TimedThreads |-> 0]
      /\ aux_time = [t \in TimedThreads |-> [x \in Timed!Contexts |-> 0]]
  BY DEF Timed!Init
<1>2. ASSUME NEW t \in TimedThreads
      PROVE  TimedThread(t)
  <2>1. /\ threadTics[t] = 0 /\ timeShadow[t] = Timed!Root /\ bottom[t] = Null /\ aux_begin[t] = 0
        /\ aux_time[t] = [x \in Timed!Contexts |-> 0]
    BY <1>1
  <2>2. CASE t = Main
    <3>1. time[t] = [x \in {Timed!Root} |-> 1]
      BY <1>1, <2>2
    <3>2. QED
      BY <1>1, <2>1, <3>1, NewAccounts DEF TimedThread
  <2>3. CASE t # Main
    <3>1. time[t] = [x \in {} |-> 1]
      BY <1>1, <2>3
    <3>2. DOMAIN time[t] = {}
      BY <3>1
    <3>3. Typed(0, [x \in {Timed!Root} |-> 1], 0, Timed!Root, Null, 0, [x \in Timed!Contexts |-> 0])
      BY <1>1, NewAccounts
    <3>4. Typed(0, time[t], 0, Timed!Root, Null, 0, [x \in Timed!Contexts |-> 0])
      BY <3>2, <3>3, FS_EmptySet DEF Typed
    <3>5. QED
      BY <1>1, <2>1, <3>2, <3>4 DEF TimedThread
  <2>4. QED
    BY <2>2, <2>3
<1>3. PerThread(threadTics) /\ PerThread(timeShadow) /\ PerThread(bottom)
  BY <1>1 DEF PerThread
<1>4. PerThread(time) /\ PerThread(aux_begin) /\ PerThread(aux_time)
  BY <1>1 DEF PerThread
<1>5. QED
  BY <1>1, <1>2, <1>3, <1>4 DEF TimedInv

\* timerThread.
LEMMA TickKeeps ==
  ASSUME TimedInv, Timed!Tick
  PROVE  TimedInv'
<1>1. /\ globalTics' = globalTics + 1 /\ globalTics \in Nat
      /\ aux_time' = [t \in TimedThreads |->
                        IF DOMAIN time[t] # {} THEN [aux_time[t] EXCEPT ![timeShadow[t]] = @ + 1] ELSE aux_time[t]]
      /\ UNCHANGED <<threadTics, timeShadow, time, bottom, aux_begin>>
  BY DEF Timed!Tick, Timed!Running, Timed!Nodes, TimedInv
<1>2. ASSUME NEW t \in TimedThreads
      PROVE  TimedThread(t)'
  <2>1. TimedThread(t)
    BY DEF TimedInv
  <2>2. /\ timeShadow[t] \in Timed!Contexts /\ aux_time[t] \in [Timed!Contexts -> Nat]
        /\ threadTics[t] \in 0 .. globalTics
    BY <2>1 DEF TimedThread, Typed
  <2>3. aux_time'[t] = IF DOMAIN time[t] # {} THEN [aux_time[t] EXCEPT ![timeShadow[t]] = @ + 1] ELSE aux_time[t]
    BY <1>1
  <2>4. aux_time'[t] \in [Timed!Contexts -> Nat]
    BY <2>2, <2>3
  <2>5. Typed(globalTics + 1, time[t], threadTics[t], timeShadow[t], bottom[t], aux_begin[t], aux_time'[t])
    BY <1>1, <2>1, <2>4 DEF TimedThread, Typed
  <2>6. ASSUME DOMAIN time[t] # {}
        PROVE  Accounts(globalTics + 1, time[t], threadTics[t], timeShadow[t], aux_begin[t], aux_time'[t])
    <3>1. aux_time'[t] = [aux_time[t] EXCEPT ![timeShadow[t]] = @ + 1]
      BY <2>3, <2>6
    <3>2. /\ Typed(globalTics, time[t], threadTics[t], timeShadow[t], bottom[t], aux_begin[t], aux_time[t])
          /\ Accounts(globalTics, time[t], threadTics[t], timeShadow[t], aux_begin[t], aux_time[t])
      BY <2>1, <2>6 DEF TimedThread
    <3>3. QED
      BY <3>1, <3>2, TickAccounts
  <2>7. QED
    BY <1>1, <2>5, <2>6 DEF TimedThread
<1>3. PerThread(aux_time')
  BY <1>1 DEF PerThread
<1>4. QED
  BY <1>1, <1>2, <1>3 DEF TimedInv

\* Steps of one thread: the others keep what they have.
LEMMA OtherThreadsKeep ==
  ASSUME TimedInv, globalTics' = globalTics, NEW t \in TimedThreads,
         \A u \in TimedThreads \ {t} :
           /\ threadTics'[u] = threadTics[u] /\ timeShadow'[u] = timeShadow[u] /\ bottom'[u] = bottom[u]
           /\ time'[u] = time[u] /\ aux_begin'[u] = aux_begin[u] /\ aux_time'[u] = aux_time[u]
  PROVE  \A u \in TimedThreads \ {t} : TimedThread(u)'
BY DEF TimedInv, TimedThread

\* aux_pthread_create.
LEMMA StartKeeps ==
  ASSUME TimedInv, NEW t \in TimedThreads, Timed!Start(t)
  PROVE  TimedInv'
<1>1. /\ threadTics' = [threadTics EXCEPT ![t] = 0]
      /\ timeShadow' = [timeShadow EXCEPT ![t] = Timed!Root]
      /\ bottom' = [bottom EXCEPT ![t] = Null]
      /\ time' = [time EXCEPT ![t] = [x \in {Timed!Root} |-> 1]]
      /\ aux_begin' = [aux_begin EXCEPT ![t] = globalTics]
      /\ aux_time' = [aux_time EXCEPT ![t] = [x \in Timed!Contexts |-> 0]]
      /\ globalTics' = globalTics /\ globalTics \in Nat
  BY DEF Timed!Start, TimedInv
<1>2. /\ PerThread(threadTics) /\ PerThread(timeShadow) /\ PerThread(bottom)
      /\ PerThread(time) /\ PerThread(aux_begin) /\ PerThread(aux_time)
  BY DEF TimedInv
<1>3. /\ PerThread(threadTics') /\ PerThread(timeShadow') /\ PerThread(bottom')
      /\ PerThread(time') /\ PerThread(aux_begin') /\ PerThread(aux_time')
  BY <1>1, <1>2 DEF PerThread
<1>4. /\ threadTics'[t] = 0 /\ timeShadow'[t] = Timed!Root /\ bottom'[t] = Null
      /\ time'[t] = [x \in {Timed!Root} |-> 1]
      /\ aux_begin'[t] = globalTics /\ aux_time'[t] = [x \in Timed!Contexts |-> 0]
  <2>1. threadTics'[t] = 0 /\ timeShadow'[t] = Timed!Root /\ bottom'[t] = Null
    BY <1>1, <1>2 DEF PerThread
  <2>2. time'[t] = [x \in {Timed!Root} |-> 1]
    BY <1>1, <1>2 DEF PerThread
  <2>3. aux_begin'[t] = globalTics
    BY <1>1, <1>2 DEF PerThread
  <2>4. aux_time'[t] = [x \in Timed!Contexts |-> 0]
    BY <1>1, <1>2 DEF PerThread
  <2>5. QED
    BY <2>1, <2>2, <2>3, <2>4
<1>5. \A u \in TimedThreads \ {t} :
        /\ threadTics'[u] = threadTics[u] /\ timeShadow'[u] = timeShadow[u] /\ bottom'[u] = bottom[u]
        /\ time'[u] = time[u] /\ aux_begin'[u] = aux_begin[u] /\ aux_time'[u] = aux_time[u]
  BY <1>1, <1>2 DEF PerThread
<1>6. TimedThread(t)'
  BY <1>1, <1>4, NewAccounts DEF TimedThread
<1>7. \A u \in TimedThreads \ {t} : TimedThread(u)'
  BY <1>1, <1>5, OtherThreadsKeep
<1>8. QED
  BY <1>1, <1>3, <1>6, <1>7 DEF TimedInv

\* hcct_dump: the thread has no tree any more.
LEMMA DumpKeeps ==
  ASSUME TimedInv, NEW t \in TimedThreads, Timed!Dump(t)
  PROVE  TimedInv'
<1>1. /\ time' = [time EXCEPT ![t] = [x \in {} |-> 0]]
      /\ UNCHANGED <<globalTics, threadTics, timeShadow, bottom, aux_begin, aux_time>>
      /\ PerThread(time)
  BY DEF Timed!Dump, TimedInv
<1>2. PerThread(time') /\ time'[t] = [x \in {} |-> 0] /\ \A u \in TimedThreads \ {t} : time'[u] = time[u]
  <2>1. PerThread(time') /\ \A u \in TimedThreads \ {t} : time'[u] = time[u]
    BY <1>1 DEF PerThread
  <2>2. time'[t] = [x \in {} |-> 0]
    BY <1>1 DEF PerThread
  <2>3. QED
    BY <2>1, <2>2
<1>3. TimedThread(t)'
  <2>1. Typed(globalTics, time[t], threadTics[t], timeShadow[t], bottom[t], aux_begin[t], aux_time[t])
    BY DEF TimedInv, TimedThread
  <2>2. DOMAIN time'[t] = {}
    BY <1>2
  <2>3. Typed(globalTics, time'[t], threadTics[t], timeShadow[t], bottom[t], aux_begin[t], aux_time[t])
    BY <2>1, <2>2, FS_EmptySet DEF Typed
  <2>4. QED
    BY <1>1, <2>2, <2>3 DEF TimedThread
<1>4. \A u \in TimedThreads \ {t} : TimedThread(u)'
  BY <1>1, <1>2, OtherThreadsKeep
<1>5. QED
  BY <1>1, <1>2, <1>3, <1>4 DEF TimedInv

\* An event charges the tics that wait to the path of the thread.
LEMMA AccountEffect ==
  ASSUME TimedInv, NEW t \in TimedThreads, DOMAIN time[t] # {}, Timed!Account(t)
  PROVE  /\ PerThread(threadTics') /\ PerThread(time')
         /\ threadTics'[t] = globalTics
         /\ Typed(globalTics, time'[t], globalTics, timeShadow[t], bottom[t], aux_begin[t], aux_time[t])
         /\ Accounts(globalTics, time'[t], globalTics, timeShadow[t], aux_begin[t], aux_time[t])
         /\ \A u \in TimedThreads \ {t} : threadTics'[u] = threadTics[u] /\ time'[u] = time[u]
<1>1. /\ Typed(globalTics, time[t], threadTics[t], timeShadow[t], bottom[t], aux_begin[t], aux_time[t])
      /\ Accounts(globalTics, time[t], threadTics[t], timeShadow[t], aux_begin[t], aux_time[t])
  BY DEF TimedInv, TimedThread
<1>2. globalTics \in Nat /\ threadTics[t] \in 0 .. globalTics
  BY <1>1 DEF Typed
<1>3. PerThread(threadTics) /\ PerThread(time)
  BY DEF TimedInv
<1>4. CASE globalTics > threadTics[t]
  <2> DEFINE path == Timed!Path(t)
             new  == ChargedTo(time[t], path, globalTics - threadTics[t])
  <2>1. path = IF timeShadow[t] = Timed!Root THEN <<bottom[t]>> ELSE timeShadow[t]
    BY DEF Timed!Path
  <2>2. Timed!Charged(t, globalTics - threadTics[t]) = new
    BY DEF Timed!Charged, ChargedTo, PathNodes, Count, Timed!Nodes
  <2>3. /\ threadTics' = [threadTics EXCEPT ![t] = globalTics]
        /\ time' = [time EXCEPT ![t] = new]
    BY <1>4, <2>2 DEF Timed!Account
  <2>4. /\ Typed(globalTics, new, globalTics, timeShadow[t], bottom[t], aux_begin[t], aux_time[t])
        /\ Accounts(globalTics, new, globalTics, timeShadow[t], aux_begin[t], aux_time[t])
    <3>. HIDE DEF path
    <3>. QED BY <1>1, <2>1, ChargedAccounts
  <2>5. time'[t] = new
    <3>. HIDE DEF new
    <3>. QED BY <1>3, <2>3 DEF PerThread
  <2>6. /\ PerThread(threadTics') /\ PerThread(time')
        /\ threadTics'[t] = globalTics
        /\ \A u \in TimedThreads \ {t} : threadTics'[u] = threadTics[u] /\ time'[u] = time[u]
    <3>. HIDE DEF new
    <3>. QED BY <1>3, <2>3 DEF PerThread
  <2>7. QED
    BY <2>4, <2>5, <2>6
<1>5. CASE ~ (globalTics > threadTics[t])
  <2>1. threadTics' = threadTics /\ time' = time
    BY <1>5 DEF Timed!Account
  <2>2. threadTics[t] = globalTics
    BY <1>2, <1>5
  <2>3. QED
    BY <1>1, <1>3, <2>1, <2>2
<1>6. QED
  BY <1>4, <1>5

\* Whatever a handler does with the stack of the thread then, the tree accounts for the time.
LEMMA EventKeeps ==
  ASSUME TimedInv, NEW t \in TimedThreads, DOMAIN time[t] # {}, Timed!Account(t),
         UNCHANGED <<globalTics, aux_begin, aux_time>>,
         NEW to \in Timed!Contexts, timeShadow' = [timeShadow EXCEPT ![t] = to],
         PerThread(bottom'), bottom'[t] \in Calls \cup {Null}, <<bottom'[t]>> \in Timed!Places,
         \A u \in TimedThreads \ {t} : bottom'[u] = bottom[u]
  PROVE  TimedInv'
<1>1. /\ PerThread(threadTics') /\ PerThread(time')
      /\ threadTics'[t] = globalTics
      /\ Typed(globalTics, time'[t], globalTics, timeShadow[t], bottom[t], aux_begin[t], aux_time[t])
      /\ Accounts(globalTics, time'[t], globalTics, timeShadow[t], aux_begin[t], aux_time[t])
      /\ \A u \in TimedThreads \ {t} : threadTics'[u] = threadTics[u] /\ time'[u] = time[u]
  BY AccountEffect
<1>2. PerThread(timeShadow)
  BY DEF TimedInv
<1>3. PerThread(timeShadow') /\ timeShadow'[t] = to /\ \A u \in TimedThreads \ {t} : timeShadow'[u] = timeShadow[u]
  BY <1>2 DEF PerThread
<1>4. globalTics \in Nat /\ globalTics' = globalTics /\ aux_begin' = aux_begin /\ aux_time' = aux_time
  BY DEF TimedInv
<1>5. Accounts(globalTics, time'[t], globalTics, to, aux_begin[t], aux_time[t])
  BY <1>1, <1>4, MovedAccounts
<1>6. Typed(globalTics, time'[t], globalTics, to, bottom'[t], aux_begin[t], aux_time[t])
  BY <1>1 DEF Typed
<1>7. TimedThread(t)'
  BY <1>1, <1>3, <1>4, <1>5, <1>6 DEF TimedThread
<1>8. \A u \in TimedThreads \ {t} : TimedThread(u)'
  BY <1>1, <1>3, <1>4, OtherThreadsKeep
<1>9. PerThread(aux_begin) /\ PerThread(aux_time)
  BY DEF TimedInv
<1>10. QED
  BY <1>1, <1>3, <1>4, <1>7, <1>8, <1>9 DEF TimedInv

\* __cyg_profile_func_enter.
LEMMA TimedEnterKeeps ==
  ASSUME TimedInv, NEW t \in TimedThreads, NEW c \in Calls, Timed!Enter(t, c)
  PROVE  TimedInv'
<1>1. /\ DOMAIN time[t] # {} /\ Timed!Account(t)
      /\ Len(timeShadow[t]) < TimeDepth
      /\ timeShadow' = [timeShadow EXCEPT ![t] = Append(@, c)]
      /\ bottom' = IF timeShadow[t] = Timed!Root THEN [bottom EXCEPT ![t] = c] ELSE bottom
      /\ UNCHANGED <<globalTics, aux_begin, aux_time>>
  BY DEF Timed!Enter, Timed!Running, Timed!Nodes
<1>2. /\ timeShadow[t] \in Timed!Contexts
      /\ bottom[t] \in Calls \cup {Null} /\ <<bottom[t]>> \in Timed!Places
      /\ PerThread(bottom) /\ PerThread(timeShadow)
  BY DEF TimedInv, TimedThread, Typed
<1>3. timeShadow[t] \in Seq(Calls) /\ TimeDepth \in Nat /\ Len(timeShadow[t]) \in Nat
  BY <1>2, TimedContexts
<1>4. Append(timeShadow[t], c) \in Timed!Contexts
  <2>1. Append(timeShadow[t], c) \in Seq(Calls) /\ Len(Append(timeShadow[t], c)) <= TimeDepth
    BY <1>1, <1>3
  <2>2. QED
    BY <2>1, TimedContexts
<1>5. timeShadow' = [timeShadow EXCEPT ![t] = Append(timeShadow[t], c)]
  BY <1>1
<1>6. <<c>> \in Timed!Places
  <2>1. <<c>> \in Seq(Calls) /\ Len(<<c>>) <= TimeDepth
    BY <1>1, <1>3
  <2>2. QED
    BY <2>1, TimedContexts DEF Timed!Places
<1>7. /\ PerThread(bottom') /\ bottom'[t] \in Calls \cup {Null} /\ <<bottom'[t]>> \in Timed!Places
      /\ \A u \in TimedThreads \ {t} : bottom'[u] = bottom[u]
  <2>1. CASE timeShadow[t] = Timed!Root
    <3>1. bottom' = [bottom EXCEPT ![t] = c]
      BY <1>1, <2>1
    <3>2. PerThread(bottom') /\ bottom'[t] = c /\ \A u \in TimedThreads \ {t} : bottom'[u] = bottom[u]
      BY <1>2, <3>1 DEF PerThread
    <3>3. QED
      BY <1>6, <3>2
  <2>2. CASE timeShadow[t] # Timed!Root
    BY <1>1, <1>2, <2>2
  <2>3. QED
    BY <2>1, <2>2
<1>8. QED
  BY <1>1, <1>4, <1>5, <1>7, EventKeeps

\* __cyg_profile_func_exit.
LEMMA TimedExitKeeps ==
  ASSUME TimedInv, NEW t \in TimedThreads, Timed!Exit(t)
  PROVE  TimedInv'
<1>1. /\ DOMAIN time[t] # {} /\ Timed!Account(t)
      /\ timeShadow[t] # Timed!Root
      /\ timeShadow' = [timeShadow EXCEPT ![t] = Timed!Caller(@)]
      /\ bottom' = bottom
      /\ UNCHANGED <<globalTics, aux_begin, aux_time>>
  BY DEF Timed!Exit, Timed!Running, Timed!Nodes
<1>2. /\ timeShadow[t] \in Timed!Contexts
      /\ bottom[t] \in Calls \cup {Null} /\ <<bottom[t]>> \in Timed!Places
      /\ PerThread(bottom) /\ PerThread(timeShadow)
  BY DEF TimedInv, TimedThread, Typed
<1>3. timeShadow[t] \in Seq(Calls) /\ TimeDepth \in Nat /\ Len(timeShadow[t]) <= TimeDepth
  BY <1>2, TimedContexts
<1>4. Len(timeShadow[t]) \in Nat /\ Len(timeShadow[t]) # 0
  BY <1>1, <1>2, <1>3, TimedRoot
<1>5. Timed!Caller(timeShadow[t]) \in Timed!Contexts
  <2>1. /\ Timed!Caller(timeShadow[t]) \in Seq(Calls)
        /\ Len(Timed!Caller(timeShadow[t])) = Len(timeShadow[t]) - 1
    BY <1>3, <1>4 DEF Timed!Caller, Timed!Prefix
  <2>2. Len(Timed!Caller(timeShadow[t])) <= TimeDepth
    BY <1>3, <1>4, <2>1
  <2>3. QED
    BY <2>1, <2>2, TimedContexts
<1>6. timeShadow' = [timeShadow EXCEPT ![t] = Timed!Caller(timeShadow[t])]
  BY <1>1
<1>7. PerThread(bottom') /\ bottom'[t] = bottom[t] /\ \A u \in TimedThreads \ {t} : bottom'[u] = bottom[u]
  BY <1>1, <1>2
<1>8. QED
  BY <1>1, <1>2, <1>5, <1>6, <1>7, EventKeeps

\* Every step preserves the invariant.
LEMMA TimedInvInductive ==
  ASSUME TimedInv, [Timed!Next]_timeVars
  PROVE  TimedInv'
<1>1. CASE Timed!Tick
  BY <1>1, TickKeeps
<1>2. ASSUME NEW t \in TimedThreads, Timed!Start(t) \/ Timed!Exit(t) \/ Timed!Dump(t)
      PROVE  TimedInv'
  BY <1>2, StartKeeps, TimedExitKeeps, DumpKeeps
<1>3. ASSUME NEW t \in TimedThreads, NEW c \in Calls, Timed!Enter(t, c)
      PROVE  TimedInv'
  BY <1>3, TimedEnterKeeps
<1>4. CASE UNCHANGED timeVars
  BY <1>4 DEF timeVars, TimedInv, TimedThread
<1>5. QED
  BY <1>1, <1>2, <1>3, <1>4 DEF Timed!Next

\* The sums of the model are those of the invariant.
LEMMA SumsOfModel ==
  ASSUME NEW t
  PROVE  /\ Timed!TicsChargedOnce <=>
              \A u \in Timed!Running : SumOf(time[u], DOMAIN time[u] \ {Timed!Root}) = threadTics[u]
         /\ Timed!IdleTime(t) =
              SumOf(Excess(globalTics, time[t], threadTics[t], timeShadow[t], aux_time[t]), Singles)
<1>1. Timed!TicsChargedOnce <=>
        \A u \in Timed!Running : SumOf(time[u], DOMAIN time[u] \ {Timed!Root}) = threadTics[u]
  BY DEF Timed!TicsChargedOnce, Timed!MapThenSumSet, Timed!MapThenFoldSet, SumOf, IsSum, Pick, Timed!Nodes
<1> DEFINE f == Excess(globalTics, time[t], threadTics[t], timeShadow[t], aux_time[t])
           F(g) == g = [s \in SUBSET Singles |->
                          IF s = {} THEN 0
                          ELSE LET x == CHOOSE x \in s : TRUE
                               IN  (Timed!CountOf(t, x) + Timed!Pending(t, x) -
                                      IF x \in Timed!Contexts THEN aux_time[t][x] ELSE 0) + g[s \ {x}]]
<1>2. Timed!IdleTime(t) = (CHOOSE g : F(g))[Singles]
  BY DEF Timed!IdleTime, Timed!MapThenSumSet, Timed!MapThenFoldSet, Singles
<1>3. \A x \in Singles : f[x] = Timed!CountOf(t, x) + Timed!Pending(t, x) -
                                  IF x \in Timed!Contexts THEN aux_time[t][x] ELSE 0
  BY DEF Excess, Count, Wait, Spent, Timed!CountOf, Timed!Pending, Timed!Nodes
<1>4. \A g : F(g) <=> IsSum(f, Singles, g)
  <2>1. TAKE g
  <2>2. \A s \in SUBSET Singles : s # {} => Pick(s) \in Singles
    BY DEF Pick
  <2>. HIDE DEF f
  <2>3. ASSUME NEW s \in SUBSET Singles
        PROVE  (IF s = {} THEN 0
                ELSE LET x == CHOOSE x \in s : TRUE
                     IN  (Timed!CountOf(t, x) + Timed!Pending(t, x) -
                            IF x \in Timed!Contexts THEN aux_time[t][x] ELSE 0) + g[s \ {x}])
                 = (IF s = {} THEN 0 ELSE f[Pick(s)] + g[s \ {Pick(s)}])
    BY <1>3, <2>2 DEF Pick
  <2>4. QED
    BY <2>3 DEF IsSum
<1>. HIDE DEF f, F
<1>5. \E g : F(g)
  BY <1>4, SinglesAreFinite, SumFunctionExists
<1> DEFINE h == CHOOSE g : F(g)
<1>6. F(h)
  BY <1>5
<1>. HIDE DEF h
<1>7. IsSum(f, Singles, h)
  BY <1>4, <1>6
<1>8. h[Singles] = SumOf(f, Singles)
  BY <1>7, SinglesAreFinite, SumIsSumOf
<1>9. QED
  BY <1>1, <1>2, <1>8 DEF h, f

\* The invariant implies what the run checks.
LEMMA TimedInvMeans ==
  ASSUME TimedInv
  PROVE  Timed!TypeOK /\ TimeIsAccounted
<1>1. \A t \in TimedThreads :
        /\ globalTics \in Nat /\ threadTics[t] \in 0 .. globalTics
        /\ timeShadow[t] \in Timed!Contexts /\ bottom[t] \in Calls \cup {Null}
        /\ aux_time[t] \in [Timed!Contexts -> Nat]
        /\ DOMAIN time[t] \subseteq Timed!Places /\ \A x \in DOMAIN time[t] : time[t][x] \in Nat
  BY DEF TimedInv, TimedThread, Typed
<1>2. \A t \in TimedThreads :
        DOMAIN time[t] # {} => Accounts(globalTics, time[t], threadTics[t], timeShadow[t], aux_begin[t], aux_time[t])
  BY DEF TimedInv, TimedThread
<1>3. Timed!TypeOK
  <2>1. globalTics \in Nat
    BY DEF TimedInv
  <2>2. threadTics \in [TimedThreads -> 0 .. globalTics] /\ timeShadow \in [TimedThreads -> Timed!Contexts]
    BY <1>1 DEF TimedInv, PerThread
  <2>3. bottom \in [TimedThreads -> Calls \cup {Null}]
    BY <1>1 DEF TimedInv, PerThread
  <2>4. aux_time \in [TimedThreads -> [Timed!Contexts -> Nat]]
    BY <1>1 DEF TimedInv, PerThread
  <2>5. QED
    BY <1>1, <2>1, <2>2, <2>3, <2>4 DEF Timed!TypeOK, Timed!Nodes
<1>4. Timed!TicsChargedOnce
  BY <1>2, SumsOfModel DEF Accounts, Timed!Running, Timed!Nodes
<1>5. Timed!TimeGoesToActiveContext
  <2>1. SUFFICES ASSUME NEW t \in Timed!Running
                 PROVE  /\ \A x \in Timed!Contexts \ {Timed!Root} : Timed!OwnTime(t, x)
                        /\ Timed!IdleTime(t) = aux_begin[t] + aux_time[t][Timed!Root] - Timed!Pending(t, Timed!Root)
    BY DEF Timed!TimeGoesToActiveContext
  <2>2. Accounts(globalTics, time[t], threadTics[t], timeShadow[t], aux_begin[t], aux_time[t])
    BY <1>2 DEF Timed!Running, Timed!Nodes
  <2>3. \A x : /\ Timed!CountOf(t, x) = Count(time[t], x)
               /\ Timed!Pending(t, x) = Wait(globalTics, threadTics[t], timeShadow[t], x)
    BY DEF Timed!CountOf, Timed!Pending, Timed!Nodes, Count, Wait
  <2>4. \A x \in Timed!Contexts \ {Timed!Root} : Timed!OwnTime(t, x)
    BY <2>2, <2>3 DEF Accounts, EachItsOwn, Timed!OwnTime
  <2>5. Timed!IdleTime(t) = aux_begin[t] + aux_time[t][Timed!Root] - Timed!Pending(t, Timed!Root)
    BY <2>2, <2>3, SumsOfModel DEF Accounts
  <2>6. QED
    BY <2>4, <2>5
<1>6. QED
  BY <1>3, <1>4, <1>5 DEF TimeIsAccounted, Timed!TimeIsAccounted

\* For any number of threads, and whenever the timer tics: the counters of a tree add
\* up to the tics of its thread, each context gets the time in which it was active, and
\* what contexts of one call get beyond that is the time without active calls.
THEOREM TimeIsKept == ProfilerSpec => [](Timed!TypeOK /\ TimeIsAccounted)
<1>1. ProfilerInit => TimedInv
  BY TimedInvInit DEF ProfilerInit
<1>2. TimedInv /\ [ProfilerNext]_<<part, vars, timeVars, poolVars, processVars, keyVars, dumpVars>> => TimedInv'
  <2>1. SUFFICES ASSUME TimedInv, [ProfilerNext]_<<part, vars, timeVars, poolVars, processVars, keyVars, dumpVars>>
                 PROVE  TimedInv'
    OBVIOUS
  <2>2. Timed!Next \/ UNCHANGED timeVars
    BY <2>1 DEF ProfilerNext
  <2>3. QED
    BY <2>1, <2>2, TimedInvInductive
<1>3. TimedInv => Timed!TypeOK /\ TimeIsAccounted
  BY TimedInvMeans
<1>4. QED
  BY <1>1, <1>2, <1>3, PTL DEF ProfilerSpec
=============================================================================
