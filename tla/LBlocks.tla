------------------------------- MODULE LBlocks -------------------------------
(* LXPBlock.c, LDataStore.c and LDiskStack.c: a block of cells with a        *)
(* position, a pool of blocks that is saved into such a block and made again *)
(* from it, and a stack whose lower part is in a file. A cell is a byte of   *)
(* the data or a number of four: the byte order in which a number is written *)
(* is undone when it is read.                                                *)
EXTENDS LArray, FiniteSetsExt

CONSTANTS BlockBaseSize,  \* BASE_SIZE
          BlockWrites,    \* what callers write, put into the store or push
          BlockSeeks,     \* offsets that callers seek, from any of the ends
          MaxBlockCells,  \* bound: cells of the block, the store and the stack
          MemBufferSize   \* of the disk stack

ASSUME BlocksAssumption ==
  /\ BlockBaseSize \in Nat \ {0} /\ MaxBlockCells \in Nat /\ MemBufferSize \in Nat
  /\ BlockWrites \subseteq Seq(Nat)
  /\ BlockSeeks \subseteq Int
  /\ Unset \notin Nat

VARIABLES block,           \* LXPBlock
          mData, mMap,     \* of the store
          aux_told,        \* the indices that the store gave to callers
          MemBuffer,       \* the used part of the memory buffer
          FileBuffer, FileBufferSize,
          popped           \* what the last call of Pop returned

storeVars == <<mData, mMap, aux_told>>
diskVars == <<MemBuffer, FileBuffer, FileBufferSize, popped>>
blocksVars == <<block, storeVars, diskVars>>

Larger(m, n) == IF m < n THEN n ELSE m

\* LMemory_Copy into memory and LFile_Seek with LFile_Write: the cells behind
\* the offset get new values, and a file grows if it has to.
WrittenAt(cells, offset, new) ==
  [i \in 1 .. Larger(Len(cells), offset + Len(new)) |->
     IF i \in offset + 1 .. offset + Len(new) THEN new[i - offset]
     ELSE IF i <= Len(cells) THEN cells[i] ELSE 0]

----------------------------------------------------------------------------
\* LXPBlock_New, LXPBlock_NewFromData.
NewBlock == [Block |-> ResizedBy(<<>>, BlockBaseSize), CurrPos |-> 0, BlockSize |-> 0]
BlockFromData(data) == [Block |-> data, CurrPos |-> 0, BlockSize |-> Len(data)]

\* LXPBlock_Write, and LXPBlock_WriteN1 to LXPBlock_WriteN8 over it.
Written(b, data) ==
  LET end   == b.CurrPos + Len(data)
      bytes == IF end > Len(b.Block) THEN ResizedBy(b.Block, 2 * end - Len(b.Block)) ELSE b.Block
  IN  [Block |-> WrittenAt(bytes, b.CurrPos, data),
       CurrPos |-> end,
       BlockSize |-> Larger(b.BlockSize, end)]

\* LXPBlock_Read, LXPBlock_ReadN1 to LXPBlock_ReadN8: it throws at the end.
CanRead(b, size) == size <= b.BlockSize - b.CurrPos
ReadFrom(b, size) == SubSeq(b.Block, b.CurrPos + 1, b.CurrPos + size)
PositionAfter(b, size) == [b EXCEPT !.CurrPos = @ + size]

\* Mutant: a position behind the end stays.
SeekAnywhere(b, base, offset) == [b EXCEPT !.CurrPos = Larger(0, base + offset)]

\* LXPBlock_Seek, from the start, the position or the end.
Sought(b, base, offset) ==
  LET pos == Larger(0, base + offset)
  IN  [b EXCEPT !.CurrPos = IF pos > b.BlockSize THEN b.BlockSize ELSE pos]

BlockNext ==
  /\ \/ \E data \in BlockWrites :
          /\ Len(data) # 0 /\ block.CurrPos + Len(data) <= MaxBlockCells
          /\ block' = Written(block, data)
     \/ \E size \in 1 .. MaxBlockCells :
          CanRead(block, size) /\ block' = PositionAfter(block, size)
     \/ \E base \in {0, block.CurrPos, block.BlockSize}, offset \in BlockSeeks :
          block' = Sought(block, base, offset)
  /\ UNCHANGED <<storeVars, diskVars>>

----------------------------------------------------------------------------
\* LDataStore_GetBlocksCount, LDataStore_GetOffsetByIndex,
\* LDataStore_GetSizeByIndex, LDataStore_FetchBlockByIndex.
BlocksCount == Len(mMap) - 1
OffsetByIndex(i) == ItemAt(mMap, i)
SizeByIndex(i) == ItemAt(mMap, i + 1) - ItemAt(mMap, i)
BlockByIndex(i) == SubSeq(mData, OffsetByIndex(i) + 1, OffsetByIndex(i) + SizeByIndex(i))

\* LDataStore_AddBlock. An empty block has no cell in the pool: LArray_ItemAt
\* throws, and the store is as before.
DataStore_AddBlock(item) ==
  /\ Len(item) # 0
  /\ mData' = mData \o item
  /\ mMap' = Append(mMap, OffsetByIndex(BlocksCount) + Len(item))
  /\ aux_told' = aux_told \cup {<<BlocksCount, item>>}

\* Mutant: a block is the one that is looked for if it begins like it.
IndicesOfPrefix(item) ==
  {i \in 0 .. BlocksCount - 1 :
     OffsetByIndex(i) + Len(item) <= Len(mData)
     /\ SubSeq(mData, OffsetByIndex(i) + 1, OffsetByIndex(i) + Len(item)) = item}

\* LDataStore_GetBlockIndex: the first of them is returned.
BlockIndices(item) == {i \in 0 .. BlocksCount - 1 : BlockByIndex(i) = item}

\* LDataStore_AddUniqueBlock.
AddUniqueBlock(item) ==
  IF BlockIndices(item) # {}
  THEN /\ aux_told' = aux_told \cup {<<Min(BlockIndices(item)), item>>}
       /\ UNCHANGED <<mData, mMap>>
  ELSE DataStore_AddBlock(item)

StoreMagic == 1
StoreVersion == 0

\* LDataStore_GetXPBlock: the sizes and the contents of both arrays.
SaveStore ==
  LET header == <<StoreMagic, StoreVersion, Len(mData), Len(mMap)>>
  IN  /\ block' = Sought(Written(Written(Written(NewBlock, header), mData), mMap), 0, 0)
      /\ UNCHANGED storeVars

\* LDataStore_NewFromData, of a block that LDataStore_GetXPBlock made. What was
\* put into the store after that is not in it.
RestoreStore ==
  LET header == ReadFrom(block, 4)
      data   == PositionAfter(block, 4)
      map    == PositionAfter(data, header[3])
  IN  /\ CanRead(block, 4)
      /\ header[1] = StoreMagic /\ header[2] <= StoreVersion
      /\ CanRead(data, header[3]) /\ CanRead(map, header[4])
      /\ mData' = ReadFrom(data, header[3])
      /\ mMap' = ReadFrom(map, header[4])
      /\ block' = PositionAfter(map, header[4])
      /\ aux_told' = {told \in aux_told : told[1] < header[4] - 1}

StoreNext ==
  /\ \/ \E item \in BlockWrites :
          /\ Len(mData) + Len(item) <= MaxBlockCells
          /\ DataStore_AddBlock(item) \/ AddUniqueBlock(item)
          /\ UNCHANGED block
     \/ SaveStore
     \/ RestoreStore
  /\ UNCHANGED diskVars

----------------------------------------------------------------------------
\* Mutant: the block is written in front of what the buffer held.
PushedFirst(cells) == cells \o MemBuffer

\* LDiskStack_Push: what goes to the end of the file when the buffer is full.
Flushed(cells) == MemBuffer \o cells

Push(cells) ==
  /\ IF Len(cells) >= MemBufferSize - Len(MemBuffer)
     THEN /\ FileBuffer' = WrittenAt(FileBuffer, FileBufferSize, Flushed(cells))
          /\ FileBufferSize' = FileBufferSize + Len(cells) + Len(MemBuffer)
          /\ MemBuffer' = <<>>
     ELSE MemBuffer' = MemBuffer \o cells /\ UNCHANGED <<FileBuffer, FileBufferSize>>
  /\ UNCHANGED popped

\* LDiskStack_Pop, which throws when the stack holds less. The file keeps its
\* length.
Pop(size) ==
  LET rest == size - Len(MemBuffer)
  IN  /\ rest <= FileBufferSize
      /\ IF rest > 0
         THEN /\ popped' = SubSeq(FileBuffer, FileBufferSize - rest + 1, FileBufferSize) \o MemBuffer
              /\ FileBufferSize' = FileBufferSize - rest
              /\ MemBuffer' = <<>>
         ELSE /\ popped' = SubSeq(MemBuffer, Len(MemBuffer) - size + 1, Len(MemBuffer))
              /\ MemBuffer' = SubSeq(MemBuffer, 1, Len(MemBuffer) - size)
              /\ UNCHANGED FileBufferSize
      /\ UNCHANGED FileBuffer

DiskNext ==
  /\ \/ \E cells \in BlockWrites :
          FileBufferSize + Len(MemBuffer) + Len(cells) <= MaxBlockCells /\ Push(cells)
     \/ \E size \in 0 .. MaxBlockCells : Pop(size)
  /\ UNCHANGED <<block, storeVars>>

BlocksInit ==
  /\ block = NewBlock
  /\ mData = <<>> /\ mMap = <<0>> /\ aux_told = {}
  /\ MemBuffer = <<>> /\ FileBuffer = <<>> /\ FileBufferSize = 0 /\ popped = <<>>

DiskSpec == BlocksInit /\ [][DiskNext]_blocksVars

----------------------------------------------------------------------------
BlocksTypeOK ==
  /\ block \in [Block : Seq(Nat \cup {Unset}), CurrPos : Nat, BlockSize : Nat]
  /\ mData \in Seq(Nat) /\ mMap \in Seq(Nat) /\ mMap # <<>>
  /\ aux_told \subseteq Nat \X BlockWrites
  /\ MemBuffer \in Seq(Nat) /\ FileBuffer \in Seq(Nat) /\ popped \in Seq(Nat)
  /\ FileBufferSize \in 0 .. Len(FileBuffer)
  /\ Len(MemBuffer) <= MemBufferSize

\* Whatever is sought, what a block holds has been written: nothing that
\* LXPBlock_Read returns is memory as it was allocated.
BlockIsWritten ==
  /\ block.CurrPos <= block.BlockSize /\ block.BlockSize <= Len(block.Block)
  /\ \A i \in 1 .. block.BlockSize : block.Block[i] # Unset

\* The store holds under each index the block that the caller was told is
\* there, also when it is made again from the block it was saved in.
StoreKeepsBlocks ==
  \A told \in aux_told : told[1] < BlocksCount /\ BlockByIndex(told[1]) = told[2]

\* What the stack holds, the oldest cell first.
Stacked == SubSeq(FileBuffer, 1, FileBufferSize) \o MemBuffer

\* Last in, first out, whatever is in memory and what is in the file: a call
\* puts cells at the end, or takes from the end those that it returns.
IsStack ==
  [][\/ \E cells \in BlockWrites : Stacked' = Stacked \o cells
     \/ Stacked = Stacked' \o popped']_diskVars
=============================================================================
