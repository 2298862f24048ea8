------------------------------- MODULE LHeap -------------------------------
(* LHeap.c: a binary heap of slots, which stay where they are in mMap so     *)
(* that a caller can name an item while it moves in the heap. A slot that    *)
(* is given up is a hole, and is used again. Items are left out: the heap    *)
(* never looks at them, it compares keys.                                    *)
EXTENDS Integers, FiniteSets, SequencesExt

CONSTANTS HeapKeys,     \* keys; the comparator is <
          HeapInitSize, \* _INIT_SIZE
          HeapEmptySlot,\* _EMPTY_SLOT
          MaxHeapItems  \* bound

ASSUME HeapAssumption ==
  /\ HeapKeys \subseteq Int
  /\ HeapInitSize \in Nat /\ HeapInitSize > 1
  /\ HeapEmptySlot \in Nat /\ HeapEmptySlot > MaxHeapItems
  /\ MaxHeapItems \in Nat \ {0}

VARIABLES mHeap,       \* position -> slot; the root is at 1
          mKey, mIdx,  \* slot -> key, and position in the heap
          mHoles,      \* slots that can be used again, the next one last
          mCount, mSize, mHolesSize

heapVars == <<mHeap, mKey, mIdx, mHoles, mCount, mSize, mHolesSize>>

\* Arrays grow by _GROW_FACTOR, a half.
Grown(size) == size + size \div 2

Positions(size) == 1 .. size
Slots(size)     == 0 .. size - 1

\* Memory that malloc or realloc has not filled: nothing may depend on it.
Garbage == HeapEmptySlot

HeapInit ==
  /\ mCount = 0 /\ mHoles = <<>>
  /\ mSize = HeapInitSize /\ mHolesSize = HeapInitSize
  /\ mHeap = [i \in Positions(mSize) |-> Garbage]
  /\ mKey = [s \in Slots(mSize) |-> Garbage]
  /\ mIdx = [s \in Slots(mSize) |-> Garbage]

----------------------------------------------------------------------------
\* Positions on the way from i up to the root.
Way[i \in Nat] == IF i = 0 THEN {} ELSE {i} \cup Way[i \div 2]

KeyAt(i) == mKey[mHeap[i]]

\* Where an item with a key comes to rest that rises from position i: the first
\* position on its way whose parent has no larger key.
Risen(i, key) == Max({j \in Way[i] : j > 1 => KeyAt(j \div 2) <= key})

\* Mutant: the left child moves up.
LeftChild(j) == 2 * j

\* The child that moves up when an item sinks.
SmallerChild(j) ==
  IF 2 * j < mCount /\ KeyAt(2 * j + 1) < KeyAt(2 * j) THEN 2 * j + 1 ELSE 2 * j

\* Where an item with a key comes to rest that sinks from position i: as far down
\* as all that it passes are the smaller children of their parents, and below key.
Sunk(i, key) ==
  Max({j \in 1 .. mCount :
         /\ i \in Way[j]
         /\ \A p \in Way[j] : p > i => p = SmallerChild(p \div 2) /\ KeyAt(p) < key})

\* Where the item at position i comes to rest when its key becomes key.
Rest(i, old, key) == IF key < old THEN Risen(i, key) ELSE Sunk(i, key)

\* The heap after slot has gone from position i to position j: those on the
\* way have moved towards i, each by one.
Shifted(heap, slot, i, j) ==
  [p \in DOMAIN heap |->
     CASE p = j -> slot
       [] p # j /\ j \in Way[p] /\ p \in Way[i] -> heap[p \div 2]
       [] p # j /\ i \in Way[p] /\ p \in Way[j] ->
            heap[CHOOSE c \in {2 * p, 2 * p + 1} : c \in Way[j]]
       [] OTHER -> heap[p]]

\* Mutant: the items that move on the way keep their old positions.
ToldOne(idx, heap, i, j) == [idx EXCEPT ![heap[j]] = j]

\* The positions of slots after that.
Told(idx, heap, i, j) ==
  LET moved == {p \in Way[i] \cup Way[j] : {i, j} \cap Way[p] # {}}
      to(s) == {p \in moved : heap[p] = s}
  IN  [s \in DOMAIN idx |-> IF to(s) = {} THEN idx[s] ELSE CHOOSE p \in to(s) : TRUE]

\* An array of a new size.
Resized(array, domain) ==
  [x \in domain |-> IF x \in DOMAIN array THEN array[x] ELSE Garbage]

\* Mutant: the room of the list of holes stays as it is.
GrowHolesNever == mHolesSize' = mHolesSize

\* The room of the list of holes grows before a hole is put on it.
GrowHoles == mHolesSize' = IF Len(mHoles) = mHolesSize THEN Grown(mHolesSize) ELSE mHolesSize

----------------------------------------------------------------------------
\* LHeap_Add: the slot is a hole, or the one behind all that are in use.
HeapAdd(key) ==
  LET size == IF mCount = mSize THEN Grown(mSize) ELSE mSize
      slot == IF mHoles # <<>> THEN Last(mHoles) ELSE mCount
      i    == mCount + 1
      j    == Risen(i, key)
      heap == Shifted(Resized(mHeap, Positions(size)), slot, i, j)
  IN  /\ mCount < MaxHeapItems
      /\ mSize' = size
      /\ mCount' = i
      /\ mHoles' = IF mHoles = <<>> THEN <<>> ELSE Front(mHoles)
      /\ mHeap' = heap
      /\ mIdx' = Told(Resized(mIdx, Slots(size)), heap, i, j)
      /\ mKey' = [Resized(mKey, Slots(size)) EXCEPT ![slot] = key]
      /\ UNCHANGED mHolesSize

\* The slots that are in the heap: those that a caller may name.
Live == {mHeap[i] : i \in 1 .. mCount}

\* LHeap_Remove: the last item takes the place of the one that goes.
HeapRemove(slot) ==
  LET last == mHeap[mCount]
      i    == mIdx[slot]
      j    == Rest(i, mKey[slot], mKey[last])
      heap == Shifted(mHeap, last, i, j)
  IN  /\ slot \in Live /\ mIdx[slot] # HeapEmptySlot
      /\ mHeap' = heap
      /\ mIdx' = [Told(mIdx, heap, i, j) EXCEPT ![slot] = HeapEmptySlot]
      /\ GrowHoles
      /\ mHoles' = Append(mHoles, slot)
      /\ mCount' = mCount - 1
      /\ UNCHANGED <<mKey, mSize>>

\* LHeap_Update: decrease or increase of a key.
HeapUpdate(slot, key) ==
  LET i    == mIdx[slot]
      j    == Rest(i, mKey[slot], key)
      heap == Shifted(mHeap, slot, i, j)
  IN  /\ slot \in Live /\ mIdx[slot] # HeapEmptySlot
      /\ mHeap' = heap
      /\ mIdx' = Told(mIdx, heap, i, j)
      /\ mKey' = [mKey EXCEPT ![slot] = key]
      /\ UNCHANGED <<mHoles, mCount, mSize, mHolesSize>>

\* LHeap_ExtractMin: the last item sinks from the root. When it is the only
\* one, its slot is marked empty and then told that it is at position 1.
HeapExtractMin ==
  LET last == mHeap[mCount]
      j    == Sunk(1, mKey[last])
      heap == Shifted(mHeap, last, 1, j)
  IN  /\ mCount > 0
      /\ GrowHoles
      /\ mHoles' = Append(mHoles, mHeap[1])
      /\ mHeap' = heap
      /\ mIdx' = Told([mIdx EXCEPT ![mHeap[1]] = HeapEmptySlot], heap, 1, j)
      /\ mCount' = mCount - 1
      /\ UNCHANGED <<mKey, mSize>>

HeapNext ==
  \/ \E key \in HeapKeys : HeapAdd(key)
  \/ \E slot \in Live : HeapRemove(slot)
  \/ \E slot \in Live, key \in HeapKeys : HeapUpdate(slot, key)
  \/ HeapExtractMin

HeapSpec == HeapInit /\ [][HeapNext]_heapVars

----------------------------------------------------------------------------
HeapTypeOK ==
  /\ mSize \in Nat /\ mHolesSize \in Nat /\ mCount \in 0 .. mSize
  /\ Len(mHoles) <= mHolesSize
  /\ DOMAIN mHeap = Positions(mSize)
  /\ DOMAIN mKey = Slots(mSize) /\ DOMAIN mIdx = Slots(mSize)

\* Every slot below the highest that was used is in the heap or a hole, and
\* once: Add takes mCount for a new slot when there are no holes.
SlotsAccountedFor ==
  /\ Live \cap ToSet(mHoles) = {}
  /\ Live \cup ToSet(mHoles) = 0 .. mCount + Len(mHoles) - 1
  /\ IsInjective(mHoles)
  /\ \A i \in 1 .. mCount : mIdx[mHeap[i]] = i

\* The smallest key is at the root of every part of the heap.
HeapOrdered == \A i \in 2 .. mCount : KeyAt(i \div 2) <= KeyAt(i)

\* What callers see: the keys of the slots they hold.
Entries == [s \in Live |-> mKey[s]]

\* The heap is a priority queue: a call changes the entry it names, a new
\* entry gets a slot that nobody holds, and LHeap_ExtractMin takes a smallest key.
IsPriorityQueue ==
  [][\/ /\ DOMAIN Entries \subseteq DOMAIN Entries'
        /\ Cardinality(DOMAIN Entries') = Cardinality(DOMAIN Entries) + 1
        /\ \A s \in DOMAIN Entries : Entries'[s] = Entries[s]
     \/ \E s \in DOMAIN Entries, key \in HeapKeys : Entries' = [Entries EXCEPT ![s] = key]
     \/ \E s \in DOMAIN Entries : 
          /\ Entries' = [t \in DOMAIN Entries \ {s} |-> Entries[t]]
          /\ HeapExtractMin => \A t \in DOMAIN Entries : Entries[s] <= Entries[t]]_heapVars
=============================================================================
