-------------------------------- MODULE Pool --------------------------------
(***************************************************************************)
(* The allocator of tree nodes (testing/profiler/pool.c and pool.h):       *)
(* pages of PageSize blocks, and a list of free blocks linked through      *)
(* their first word.  The client is one thread, which frees a block only   *)
(* once and only after it was allocated (hcct_enter and prune).            *)
(***************************************************************************)
EXTENDS Integers, Sequences, FiniteSets

CONSTANTS PageSize,   \* blocks in a page, page_size
          MaxPages,   \* bound: pages malloc can provide
          NullBlock

\* pool.h: "number (>= 2) of blocks in each page".
ASSUME PoolAssumption ==
  /\ PageSize \in Nat \ {0, 1}
  /\ MaxPages \in Nat
  /\ NullBlock \notin (1 .. MaxPages) \X (0 .. PageSize - 1)

VARIABLES
  pages,      \* number of pages in the chain p->first_page
  link,       \* the first word of a free block: the next free block
  freeList,   \* the head of the list, *free_list_ref
  allocated,  \* the blocks the client holds
  out,        \* result of the last pool_alloc
  \* History, read by no operation of the pool:
  aux_free,   \* the free blocks, in the order of the list
  aux_peak    \* how many blocks the client ever held at once

poolVars == <<pages, link, freeList, allocated, out, aux_free, aux_peak>>

Block   == (1 .. MaxPages) \X (0 .. PageSize - 1)
Page(k) == {<<k, i>> : i \in 0 .. PageSize - 1}
Carved  == UNION {Page(k) : k \in 1 .. pages}

-----------------------------------------------------------------------------
\* The client takes block b.
Take(b) == /\ out' = b
           /\ allocated' = allocated \cup {b}
           /\ aux_peak' = LET n == Cardinality(allocated \cup {b})
                          IN  IF n > aux_peak THEN n ELSE aux_peak

\* Mutant of Carve: the first block is put on the list as well.
CarveAll(k) ==
  link' = [b \in Block |-> IF b = <<k, 0>> THEN freeList
                           ELSE IF b \in Page(k) THEN <<k, b[2] - 1>>
                           ELSE link[b]]

\* The blocks of page k but the first, each linked to the one before it.
Carve(k) ==
  link' = [b \in Block |-> IF b = <<k, 1>> THEN freeList
                           ELSE IF b \in Page(k) \ {<<k, 0>>} THEN <<k, b[2] - 1>>
                           ELSE link[b]]

\* _pool_add_page: the first block of the new page is the one allocated.
AddPage ==
  /\ pages < MaxPages
  /\ pages' = pages + 1
  /\ Carve(pages + 1)
  /\ freeList' = <<pages + 1, PageSize - 1>>
  /\ Take(<<pages + 1, 0>>)
  /\ aux_free' = [i \in 1 .. PageSize - 1 |-> <<pages + 1, PageSize - i>>] \o aux_free

\* _pool_add_page when malloc returns NULL.
OutOfMemory ==
  /\ out' = NullBlock
  /\ UNCHANGED <<pages, link, freeList, allocated, aux_free, aux_peak>>

\* The data of the client, here NullBlock, will overwrite the link.
PopFree ==
  /\ freeList' = link[freeList]
  /\ link' = [link EXCEPT ![freeList] = NullBlock]
  /\ Take(freeList)
  /\ aux_free' = [i \in 1 .. Len(aux_free) - 1 |-> aux_free[i + 1]]
  /\ UNCHANGED pages

\* Mutant of PoolAlloc: a page is added although blocks are free.
PoolAllocEager == AddPage \/ (freeList # NullBlock /\ PopFree)

\* pool_alloc.
PoolAlloc == \/ freeList # NullBlock /\ PopFree
             \/ freeList = NullBlock /\ (AddPage \/ OutOfMemory)

\* Mutant of PoolFree: the old list is not linked behind the block.
PoolFreeDropping(b) ==
  /\ link' = [link EXCEPT ![b] = NullBlock]
  /\ freeList' = b
  /\ allocated' = allocated \ {b}
  /\ aux_free' = <<b>> \o aux_free
  /\ UNCHANGED <<pages, out, aux_peak>>

\* pool_free.
PoolFree(b) ==
  /\ link' = [link EXCEPT ![b] = freeList]
  /\ freeList' = b
  /\ allocated' = allocated \ {b}
  /\ aux_free' = <<b>> \o aux_free
  /\ UNCHANGED <<pages, out, aux_peak>>

\* pool_cleanup, and pool_init of the next tree.
PoolRenew ==
  /\ pages' = 0
  /\ freeList' = NullBlock
  /\ allocated' = {}
  /\ out' = NullBlock
  /\ aux_free' = <<>>
  /\ aux_peak' = 0
  /\ link' = [b \in Block |-> NullBlock]

PoolInit ==
  /\ pages = 0
  /\ link = [b \in Block |-> NullBlock]
  /\ freeList = NullBlock
  /\ allocated = {}
  /\ out = NullBlock
  /\ aux_free = <<>>
  /\ aux_peak = 0

PoolNext == PoolAlloc \/ PoolRenew \/ \E b \in allocated : PoolFree(b)

PoolSpec == PoolInit /\ [][PoolNext]_poolVars

-----------------------------------------------------------------------------
(* Properties.                                                             *)

\* Every variable has its type.
PoolTypeOK ==
  /\ pages \in 0 .. MaxPages
  /\ link \in [Block -> Block \cup {NullBlock}]
  /\ freeList \in Block \cup {NullBlock}
  /\ allocated \subseteq Carved
  /\ out \in Block \cup {NullBlock}
  /\ aux_free \in Seq(Block)
  /\ aux_peak \in Nat

\* The links form the list s: from the head, through each free block, to NULL.
Linked(s) ==
  LET Nth(i) == IF i \in 1 .. Len(s) THEN s[i] ELSE NullBlock
  IN  /\ freeList = Nth(1)
      /\ \A i \in 1 .. Len(s) : link[s[i]] = Nth(i + 1)

\* Carving pages, allocating and freeing never lose a block, put one on the list
\* twice, or list one that the client holds.
FreeOrHeld ==
  /\ Linked(aux_free)
  /\ {aux_free[i] : i \in 1 .. Len(aux_free)} = Carved \ allocated
  /\ \A i, j \in 1 .. Len(aux_free) : aux_free[i] = aux_free[j] => i = j

\* Memory is reused before malloc is called: the tree occupies at most one page
\* more than it ever needed.
PagesBounded == pages > 0 => (pages - 1) * PageSize < aux_peak

\* The client of the pool can rely on Allocator.
Abstract == INSTANCE Allocator WITH Null <- NullBlock
ImplementsAllocator == Abstract!Spec
=============================================================================
