------------------------------- MODULE LHash -------------------------------
(* LHash.c: a hash table whose entries hold an item and a list of those that *)
(* collide with it. It doubles when many entries have a list and halves when *)
(* few are used. The memory it says it uses is left out.                     *)
EXTENDS LArray, FiniteSets

CONSTANTS HashKeys, HashItems,
          WordBits,        \* bits of the product that is hashed (32)
          BaseHashLength,  \* BASE_HASH_LENGTH
          CollisionKT,     \* COLLISION_KT, in entries of four
          LowUsageT,       \* LOW_USAGE_T, as one entry of this many
          MaxHashLength,   \* bound
          HashCalls        \* calls that callers make: an item is replaced, and then
                           \* the table may shrink; all are removed, wherever they lie

ASSUME HashAssumption ==
  /\ HashKeys \subseteq 0 .. 2 ^ WordBits - 1
  /\ BaseHashLength \in 1 .. MaxHashLength /\ MaxHashLength <= WordBits
  /\ CollisionKT \in Nat /\ LowUsageT \in Nat
  /\ HashCalls \subseteq {"insert", "remove", "replace", "replace and shrink", "removeAll"}

VARIABLES mRandomOdd,  \* the factor of the hash function
          table,       \* mData, mHashLength, mItemsCount, mCollisionKeys
          aux_map      \* what callers have put into the table

hashVars == <<mRandomOdd, table, aux_map>>

EmptyEntry == [mUsed |-> FALSE, mKey |-> Unset, mItemRef |-> Unset, mCollisionList |-> <<>>]
EmptyTable(length) ==
  [mData |-> [i \in 0 .. 2 ^ length - 1 |-> EmptyEntry],
   mHashLength |-> length, mItemsCount |-> 0, mCollisionKeys |-> 0]

HashInit ==
  /\ mRandomOdd \in {n \in 1 .. 2 ^ WordBits - 1 : n % 2 = 1}
  /\ table = EmptyTable(BaseHashLength)
  /\ aux_map = <<>>

\* Hash_: the leading bits of the product.
Hash(key, length) == ((mRandomOdd * key) % 2 ^ WordBits) \div 2 ^ (WordBits - length)

EntriesCount(t) == Cardinality(DOMAIN t.mData)
EntryOf(t, key) == t.mData[Hash(key, t.mHashLength)]

\* LHash_IsInTable, LHash_GetItemByKey.
InList(list, key) == {i \in DOMAIN list : list[i].mKey = key}
IsInTable(t, key) ==
  LET entry == EntryOf(t, key)
  IN  entry.mUsed /\ (entry.mKey = key \/ InList(entry.mCollisionList, key) # {})
ItemByKey(t, key) ==
  LET entry == EntryOf(t, key)
  IN  IF entry.mKey = key THEN entry.mItemRef
      ELSE entry.mCollisionList[CHOOSE i \in InList(entry.mCollisionList, key) : TRUE].mItemRef

\* _InsertItem, and the same lines of LHash_InsertItem: into an entry.
InsertedAt(t, i, key, item) ==
  LET entry == t.mData[i]
      first == entry.mUsed /\ entry.mCollisionList = <<>>
      full  == [entry EXCEPT !.mUsed = TRUE, !.mKey = key, !.mItemRef = item]
      longer == [entry EXCEPT !.mCollisionList = Append(@, [mKey |-> key, mItemRef |-> item])]
  IN  [t EXCEPT !.mData[i] = IF entry.mUsed THEN longer ELSE full,
                !.mItemsCount = @ + 1,
                !.mCollisionKeys = IF first THEN @ + 1 ELSE @]

\* The items in the order of the loop of _Resize.
ItemsInOrder(t) ==
  FlattenSeq([i \in 1 .. EntriesCount(t) |->
    LET entry == t.mData[i - 1]
    IN  IF entry.mUsed
        THEN <<[mKey |-> entry.mKey, mItemRef |-> entry.mItemRef]>> \o entry.mCollisionList
        ELSE <<>>])

\* _Resize: all items move to a table of another size.
Resize(t, length) ==
  FoldLeft(LAMBDA new, entry : InsertedAt(new, Hash(entry.mKey, length), entry.mKey, entry.mItemRef),
           EmptyTable(length), ItemsInOrder(t))

\* Both are tested in floating point; no quotient of these is between.
OverUsed(t)  == 4 * t.mCollisionKeys > CollisionKT * EntriesCount(t)
UnderUsed(t) == t.mItemsCount * LowUsageT < EntriesCount(t) /\ t.mHashLength > BaseHashLength

\* Mutant: the list goes with the item of the entry.
WithoutList(t, key) ==
  LET i == Hash(key, t.mHashLength)
  IN  IF t.mData[i].mKey = key
      THEN [t EXCEPT !.mData[i] = EmptyEntry, !.mItemsCount = @ - 1]
      ELSE t

\* LHash_RemoveItem up to the test of the usage: the first of the list takes
\* the place of the item of the entry.
Without(t, key) ==
  LET i     == Hash(key, t.mHashLength)
      entry == t.mData[i]
      list  == entry.mCollisionList
      rest  == IF entry.mKey = key THEN Tail(list)
               ELSE RemovedItemAt(list, (CHOOSE j \in InList(list, key) : TRUE) - 1)
      left  == CASE entry.mKey = key /\ list = <<>> -> [entry EXCEPT !.mUsed = FALSE]
                 [] entry.mKey = key /\ list # <<>> ->
                      [entry EXCEPT !.mKey = Head(list).mKey, !.mItemRef = Head(list).mItemRef,
                                    !.mCollisionList = rest]
                 [] OTHER -> [entry EXCEPT !.mCollisionList = rest]
  IN  [t EXCEPT !.mData[i] = left,
                !.mItemsCount = @ - 1,
                !.mCollisionKeys = IF list # <<>> /\ left.mCollisionList = <<>> THEN @ - 1 ELSE @]

\* What LHash_RemoveItem may leave: _Resize does nothing if malloc fails.
AfterRemove(t, key) ==
  LET less == Without(t, key)
  IN  CASE ~IsInTable(t, key) -> {t}
        [] IsInTable(t, key) /\ UnderUsed(less) -> {less, Resize(less, t.mHashLength - 1)}
        [] OTHER -> {less}

----------------------------------------------------------------------------
\* LHash_InsertItem: an item with the same key is removed first, which may
\* shrink the table; the entry was chosen before.
InsertItem(key, item) ==
  LET i == Hash(key, table.mHashLength)
  IN  \E t \in AfterRemove(table, key) :
        LET more == InsertedAt(t, i, key, item)
        IN  /\ IF key \in DOMAIN aux_map
               THEN \/ "replace" \in HashCalls /\ t.mHashLength = table.mHashLength
                    \/ "replace and shrink" \in HashCalls
               ELSE "insert" \in HashCalls
            \* Beyond the table, there is no telling what is overwritten: left out.
            /\ i \in DOMAIN t.mData
            /\ OverUsed(more) => more.mHashLength < MaxHashLength
            /\ table' \in IF OverUsed(more) THEN {more, Resize(more, more.mHashLength + 1)} ELSE {more}
            /\ aux_map' = [k \in DOMAIN aux_map \cup {key} |-> IF k = key THEN item ELSE aux_map[k]]
            /\ UNCHANGED mRandomOdd

RemoveItem(key) ==
  /\ "remove" \in HashCalls
  /\ table' \in AfterRemove(table, key)
  /\ aux_map' = [k \in DOMAIN aux_map \ {key} |-> aux_map[k]]
  /\ UNCHANGED mRandomOdd

\* LHash_RemoveAllItems clears as many entries as there are items, and cuts
\* the table to its first size. Without "removeAll" callers call it only where that
\* clears all.
RemoveAllItems ==
  LET cleared(i) == IF i < table.mItemsCount
                    THEN [table.mData[i] EXCEPT !.mUsed = FALSE, !.mItemRef = Unset, !.mCollisionList = <<>>]
                    ELSE table.mData[i]
  IN  /\ \/ "removeAll" \in HashCalls
         \/ \A i \in DOMAIN table.mData : table.mData[i].mUsed => i < table.mItemsCount
      /\ table.mItemsCount \in 1 .. EntriesCount(table)
      /\ table' = [EmptyTable(BaseHashLength) EXCEPT
                     !.mData = [i \in 0 .. 2 ^ BaseHashLength - 1 |-> cleared(i)]]
      /\ aux_map' = <<>>
      /\ UNCHANGED mRandomOdd

HashNext ==
  \/ \E key \in HashKeys, item \in HashItems : InsertItem(key, item)
  \/ \E key \in HashKeys : RemoveItem(key)
  \/ RemoveAllItems

HashSpec == HashInit /\ [][HashNext]_hashVars

----------------------------------------------------------------------------
HashTypeOK ==
  /\ mRandomOdd % 2 = 1
  /\ table.mHashLength \in BaseHashLength .. MaxHashLength
  /\ DOMAIN table.mData = 0 .. 2 ^ table.mHashLength - 1
  /\ {table.mItemsCount, table.mCollisionKeys} \subseteq Nat
  /\ \A i \in DOMAIN table.mData : ~table.mData[i].mUsed => table.mData[i].mCollisionList = <<>>

\* The table holds the items that were put into it under their keys and not removed,
\* and nothing else ("Returns TRUE <=> item with key inKey is in the table"), after the
\* expansions and shrinkings of the calls that HashCalls has. It does not once an item is
\* replaced and its removal shrinks the table, nor after RemoveAllItems where items lie
\* behind the first mItemsCount entries.
HoldsItsItems ==
  \A key \in HashKeys :
    /\ IsInTable(table, key) <=> key \in DOMAIN aux_map
    /\ key \in DOMAIN aux_map => ItemByKey(table, key) = aux_map[key]

\* The counts on which its size depends are those of the items and the lists.
CountsAreRight ==
  /\ table.mItemsCount = Cardinality(DOMAIN aux_map)
  /\ table.mCollisionKeys =
       Cardinality({i \in DOMAIN table.mData : table.mData[i].mCollisionList # <<>>})
=============================================================================
