---------------------------- MODULE LArchiveFile ----------------------------
(* LArchiveFile.c: a file that holds a list of tagged blocks. The blocks are *)
(* linked through the file, a map of them is kept in memory, the holes that  *)
(* removed blocks leave are used again, and Close copies the blocks to a new *)
(* file if too much of the old one is holes. Offsets and sizes are in words  *)
(* of four bytes. The file is written through stdio (LFile_posix.c): what a  *)
(* call has written since its last fseek is still in the buffer of the       *)
(* process. The process may end between any two calls and at any step of     *)
(* Close, and be killed with any part of the buffer unwritten.               *)
EXTENDS LBlocks

CONSTANTS ArchiveTags, ArchiveData, \* what callers put into an archive
          NoFile,                   \* in place of a file that is not there
          MaxArchiveBlocks,         \* bound, also of what Open reads of a damaged file
          MaxArchiveLength          \* bound: the file does not grow beyond it

ASSUME ArchiveAssumption ==
  /\ ArchiveTags \subseteq Nat
  /\ ArchiveData \subseteq Seq(Nat)
  /\ NoFile \notin Seq(Nat)
  /\ MaxArchiveBlocks \in Nat /\ MaxArchiveLength \in Nat

VARIABLES archive, temp,   \* the files under the archive's name and the temporary one
                           \* as the process sees them: with what is in the buffer
          stream,          \* what of archive is on disk, and what in the buffer
          BlocksMap,       \* the headers of the blocks of the open archive
          tempMap,         \* BlocksMap of the temporary archive
          Mode, phase,
          compacting,      \* LArchiveFile_Open was called by _Compact
          theOffset,       \* of LArchiveFile_Open
          aux_blocks,      \* the blocks the callers have put into the archive
          aux_layout,      \* where the archive has them
          aux_end          \* how the process left it, and what is sure to be there

archiveVars ==
  <<archive, temp, stream, BlocksMap, tempMap, Mode, phase, compacting, theOffset,
    aux_blocks, aux_layout, aux_end>>

MagicNumber == 7
Version == 0
EmptyArchive == <<MagicNumber, Version, 0>>
FirstTagOffset == 2  \* FIRST_TAG_OFFSET_OFFSET
FirstValid == 3      \* FIRST_VALID_OFFSET
HeaderSize == 3      \* BLOCK_HEADER_SIZE: tag, offset of the next block, size

\* A stream that has written all it was given, and one that holds words to be
\* written at an offset: those of the block at place k.
AllWritten(file) == [File |-> file, Offset |-> 0, Words |-> <<>>, Place |-> 1]
Buffering(file, offset, words, k) == [File |-> file, Offset |-> offset, Words |-> words, Place |-> k]

\* "whole"; "cut" at a place, with the blocks in front of it; "unnamed", a file
\* whose name nobody knows.
Whole == [How |-> "whole", Place |-> 1]

ArchiveInit ==
  /\ archive = NoFile /\ temp = NoFile
  /\ stream = AllWritten(<<>>) /\ aux_end = Whole
  /\ BlocksMap = <<>> /\ tempMap = <<>>
  /\ Mode = "READ" /\ phase = "closed" /\ compacting = FALSE
  /\ theOffset = 0
  /\ aux_blocks = <<>> /\ aux_layout = <<>>

----------------------------------------------------------------------------
\* Where block k begins, and where the space in front of it begins.
OffsetOf(map, k) == IF k \in DOMAIN map THEN map[k].Offset ELSE 0
HoleOffset(map, k) ==
  IF k = 1 THEN FirstValid ELSE map[k - 1].Offset + HeaderSize + map[k - 1].BlockSize

\* Where the offset of block k is written.
LinkOffset(map, k) == IF k = 1 THEN FirstTagOffset ELSE map[k - 1].Offset + 1

\* Mutant: the header is not counted.
HolesForData(map, size) ==
  {k \in DOMAIN map : map[k].Offset - HoleOffset(map, k) >= size - HeaderSize}

\* _FetchHoleOffset: the first hole that is large enough, or the end.
HolesFor(map, size) == {k \in DOMAIN map : map[k].Offset - HoleOffset(map, k) >= size}
FetchHole(map, size) ==
  LET holes == HolesFor(map, size)
  IN  IF holes = {} THEN Len(map) + 1 ELSE Min(holes)

\* LArchiveFile_AddBlock, at place k of the list: what it makes of the file and
\* of the map.
WithLink(file, map, k, offset) == WrittenAt(file, LinkOffset(map, k), <<offset>>)
BlockWords(map, k, tag, data) == <<tag, OffsetOf(map, k), Len(data)>> \o data
WithBlock(file, map, k, tag, data) ==
  WrittenAt(WithLink(file, map, k, HoleOffset(map, k)), HoleOffset(map, k),
            BlockWords(map, k, tag, data))
BlockHeader(map, k, tag, data) ==
  [Tag |-> tag, Offset |-> HoleOffset(map, k), BlockSize |-> Len(data)]

\* LArchiveFile_GetBlockTag and LArchiveFile_GetXPBlock.
BlockAt(file, map, k) ==
  <<map[k].Tag, SubSeq(file, map[k].Offset + HeaderSize + 1,
                             map[k].Offset + HeaderSize + map[k].BlockSize)>>

\* _GetFragmentation, greater than DEFRAG_THRESHOLD.
BlankSpace(map) ==
  MapThenSumSet(LAMBDA k : map[k].Offset - HoleOffset(map, k), DOMAIN map)
IsFragmented == 5 * BlankSpace(BlocksMap) > Len(archive)

----------------------------------------------------------------------------
\* The archive is closed, its buffer written, and its object deallocated.
Closed ==
  /\ phase' = "closed"
  /\ stream' = AllWritten(<<>>)
  /\ BlocksMap' = <<>> /\ tempMap' = <<>>
  /\ Mode' = "READ" /\ compacting' = FALSE /\ theOffset' = 0

\* LArchiveFile_Open: a new archive. Reading what is not there throws.
OpenNew(mode) ==
  /\ phase = "closed"
  /\ mode = "WRITE" \/ (mode = "READ_WRITE" /\ archive = NoFile)
  /\ archive' = EmptyArchive
  /\ stream' = Buffering(<<>>, 0, EmptyArchive, 1)
  /\ temp' = NoFile
  /\ BlocksMap' = <<>>
  /\ Mode' = mode /\ phase' = "open"
  /\ aux_blocks' = <<>> /\ aux_layout' = <<>> /\ aux_end' = Whole
  /\ UNCHANGED <<tempMap, compacting, theOffset>>

\* LArchiveFile_Open: an archive that is there, up to the loop. It throws where
\* the file is too short.
StartScan ==
  /\ Len(archive) >= FirstValid
  /\ archive[1] = MagicNumber /\ archive[2] <= Version
  /\ theOffset' = archive[FirstTagOffset + 1]
  /\ stream' = AllWritten(archive)
  /\ BlocksMap' = <<>>
  /\ phase' = "scanning"

\* An archive that was cut is opened to be read.
OpenOld(mode) ==
  /\ phase = "closed" /\ archive # NoFile /\ mode # "WRITE"
  /\ aux_end.How = "cut" => mode = "READ"
  /\ StartScan
  /\ Mode' = mode /\ compacting' = FALSE
  /\ UNCHANGED <<archive, temp, tempMap, aux_blocks, aux_layout, aux_end>>

\* One turn of the loop: it throws at the end of the file, and only there.
HeaderThere == theOffset + HeaderSize <= Len(archive)
ScanBlock ==
  /\ phase = "scanning" /\ theOffset # 0 /\ HeaderThere
  /\ Len(BlocksMap) <= MaxArchiveBlocks
  /\ BlocksMap' = Append(BlocksMap, [Tag |-> archive[theOffset + 1], Offset |-> theOffset,
                                     BlockSize |-> archive[theOffset + 3]])
  /\ theOffset' = archive[theOffset + 2]
  /\ UNCHANGED <<archive, temp, stream, tempMap, Mode, phase, compacting,
                 aux_blocks, aux_layout, aux_end>>
ScanFails ==
  /\ phase = "scanning" /\ theOffset # 0 /\ ~HeaderThere
  /\ Closed
  /\ UNCHANGED <<archive, temp, aux_blocks, aux_layout, aux_end>>

\* LArchiveFile_Open returns; _Compact goes on and makes the temporary archive.
Scanned ==
  /\ phase = "scanning" /\ theOffset = 0
  /\ IF compacting
     THEN phase' = "copying" /\ temp' = EmptyArchive /\ tempMap' = <<>>
     ELSE phase' = "open" /\ UNCHANGED <<temp, tempMap>>
  /\ UNCHANGED <<archive, stream, BlocksMap, Mode, compacting, theOffset,
                 aux_blocks, aux_layout, aux_end>>

\* LArchiveFile_AddBlock, which throws if the archive is only read. Its seeks
\* write what was in the buffer, and the link; header and data stay in it.
AddBlock(tag, data) ==
  LET k == FetchHole(BlocksMap, HeaderSize + Len(data))
      hole == HoleOffset(BlocksMap, k)
  IN  /\ phase = "open" /\ Mode # "READ"
      /\ Len(BlocksMap) < MaxArchiveBlocks
      /\ archive' = WithBlock(archive, BlocksMap, k, tag, data)
      /\ Len(archive') <= MaxArchiveLength
      /\ stream' = Buffering(WithLink(archive, BlocksMap, k, hole), hole,
                             BlockWords(BlocksMap, k, tag, data), k)
      /\ BlocksMap' = InsertAt(BlocksMap, k, BlockHeader(BlocksMap, k, tag, data))
      /\ aux_blocks' = InsertAt(aux_blocks, k, <<tag, data>>)
      /\ aux_layout' = BlocksMap'
      /\ UNCHANGED <<temp, tempMap, Mode, phase, compacting, theOffset, aux_end>>

\* LArchiveFile_RemoveBlock: the block in front points to the one behind, as soon
\* as the buffer is written.
RemoveBlock(k) ==
  LET next == OffsetOf(BlocksMap, k + 1)
  IN  /\ phase = "open" /\ Mode # "READ"
      /\ k \in DOMAIN BlocksMap
      /\ archive' = WithLink(archive, BlocksMap, k, next)
      /\ stream' = Buffering(archive, LinkOffset(BlocksMap, k), <<next>>, k)
      /\ BlocksMap' = RemovedItemAt(BlocksMap, k - 1)
      /\ aux_blocks' = RemoveAt(aux_blocks, k)
      /\ aux_layout' = BlocksMap'
      /\ UNCHANGED <<temp, tempMap, Mode, phase, compacting, theOffset, aux_end>>

\* LArchiveFile_GetXPBlock, of any block: its seek writes what is in the buffer.
GetXPBlock ==
  /\ phase = "open" /\ Mode # "WRITE" /\ BlocksMap # <<>>
  /\ stream' = AllWritten(archive)
  /\ UNCHANGED <<archive, temp, BlocksMap, tempMap, Mode, phase, compacting, theOffset,
                 aux_blocks, aux_layout, aux_end>>

\* LArchiveFile_Close, which may go on to _Compact.
Close ==
  /\ phase = "open" /\ aux_end.How = "whole"
  /\ IF IsFragmented
     THEN StartScan /\ Mode' = "READ" /\ compacting' = TRUE /\ UNCHANGED tempMap
     ELSE Closed
  /\ UNCHANGED <<archive, temp, aux_blocks, aux_layout, aux_end>>

\* _Compact: one turn of its loop, which adds a block to the temporary archive.
CopyBlock ==
  LET block_k == BlockAt(archive, BlocksMap, Len(tempMap) + 1)
      k == FetchHole(tempMap, HeaderSize + Len(block_k[2]))
  IN  /\ phase = "copying" /\ Len(tempMap) < Len(BlocksMap)
      /\ temp' = WithBlock(temp, tempMap, k, block_k[1], block_k[2])
      /\ tempMap' = InsertAt(tempMap, k, BlockHeader(tempMap, k, block_k[1], block_k[2]))
      /\ UNCHANGED <<archive, stream, BlocksMap, Mode, phase, compacting, theOffset,
                     aux_blocks, aux_layout, aux_end>>

\* _Compact: both files are closed, then LFile_Remove and LFile_Rename.
RemoveFile ==
  /\ phase = "copying" /\ Len(tempMap) = Len(BlocksMap)
  /\ archive' = NoFile
  /\ phase' = "renaming"
  /\ UNCHANGED <<temp, stream, BlocksMap, tempMap, Mode, compacting, theOffset,
                 aux_blocks, aux_layout, aux_end>>

RenameFile ==
  /\ phase = "renaming"
  /\ archive' = temp /\ temp' = NoFile
  /\ Closed
  /\ aux_layout' = tempMap
  /\ UNCHANGED <<aux_blocks, aux_end>>

\* The process ends, when n words of its buffer are written: all, if it calls
\* exit. A temporary file has a name that nobody knows.
Exit(n) ==
  /\ phase # "closed" /\ phase # "renaming"
  /\ Closed
  /\ temp' = NoFile
  /\ IF n = Len(stream.Words)
     THEN UNCHANGED <<archive, aux_end>>
     ELSE /\ archive' = WrittenAt(stream.File, stream.Offset, SubSeq(stream.Words, 1, n))
          /\ aux_end' = [How |-> "cut", Place |-> stream.Place]
  /\ UNCHANGED <<aux_blocks, aux_layout>>

\* Between LFile_Remove and LFile_Rename that file is the only one.
ExitUnnamed ==
  /\ phase = "renaming"
  /\ Closed
  /\ aux_layout' = tempMap
  /\ aux_end' = [How |-> "unnamed", Place |-> 1]
  /\ UNCHANGED <<archive, temp, aux_blocks>>

ArchiveNext ==
  \/ \E mode \in {"READ", "WRITE", "READ_WRITE"} : OpenNew(mode) \/ OpenOld(mode)
  \/ ScanBlock \/ ScanFails \/ Scanned
  \/ \E tag \in ArchiveTags, data \in ArchiveData : AddBlock(tag, data)
  \/ \E k \in DOMAIN BlocksMap : RemoveBlock(k)
  \/ GetXPBlock \/ Close \/ CopyBlock \/ RemoveFile \/ RenameFile
  \/ (\E n \in 0 .. Len(stream.Words) : Exit(n)) \/ ExitUnnamed

ArchiveSpec == ArchiveInit /\ [][ArchiveNext]_archiveVars

----------------------------------------------------------------------------
Headers == [Tag : Nat, Offset : Nat, BlockSize : Nat]
Streams == [File : Seq(Nat), Offset : Nat, Words : Seq(Nat), Place : Nat]

ArchiveTypeOK ==
  /\ {archive, temp} \subseteq Seq(Nat) \cup {NoFile}
  /\ stream \in Streams
  /\ BlocksMap \in Seq(Headers) /\ tempMap \in Seq(Headers) /\ aux_layout \in Seq(Headers)
  /\ Mode \in {"READ", "WRITE", "READ_WRITE"}
  /\ phase \in {"closed", "scanning", "open", "copying", "renaming"}
  /\ compacting \in BOOLEAN
  /\ theOffset \in Nat
  /\ aux_blocks \in Seq(Nat \X Seq(Nat))
  /\ aux_end \in [How : {"whole", "cut", "unnamed"}, Place : Nat]

\* The file, read through the map, has the first n of the blocks.
Holds(file, map, blocks, n) ==
  /\ n <= Len(map) /\ n <= Len(blocks)
  /\ \A k \in 1 .. n : BlockAt(file, map, k) = blocks[k]
HoldsAll(file, map, blocks) == Holds(file, map, blocks, Len(blocks)) /\ Len(map) = Len(blocks)

\* Callers find the blocks that they have put into the archive and not removed,
\* in the order of the indices that they know, whatever was added and removed,
\* and however often the archive was closed, compacted and opened again. If the
\* process is killed while words of the last call are in its buffer, the blocks
\* in front of the place of that call are in the file, and who can open it finds
\* them there; if it ends before the new file has its name, that file has all.
ArchiveKeepsBlocks ==
  /\ aux_end.How = "whole" =>
       /\ phase = "open" => HoldsAll(archive, BlocksMap, aux_blocks)
       /\ phase = "copying" => /\ HoldsAll(archive, BlocksMap, aux_blocks)
                               /\ Holds(temp, tempMap, aux_blocks, Len(tempMap))
       /\ phase = "renaming" => HoldsAll(temp, tempMap, aux_blocks)
       /\ phase = "closed" /\ archive # NoFile => HoldsAll(archive, aux_layout, aux_blocks)
       /\ phase = "closed" /\ archive = NoFile => aux_blocks = <<>>
  /\ aux_end.How = "cut" =>
       /\ phase = "closed" => Holds(archive, aux_layout, aux_blocks, aux_end.Place - 1)
       /\ phase = "open" => Holds(archive, BlocksMap, aux_blocks, aux_end.Place - 1)
  /\ aux_end.How = "unnamed" => phase = "closed" /\ HoldsAll(temp, aux_layout, aux_blocks)
=============================================================================
