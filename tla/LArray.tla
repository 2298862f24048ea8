------------------------------- MODULE LArray -------------------------------
(* LArray.c: the resizable array on which the other containers rest, as      *)
(* operators on sequences. An index of the code is one less than the one of  *)
(* the sequence. Sizes in bytes and the spare room at the end are left out.  *)
EXTENDS Integers, Sequences, SequencesExt

\* Memory that nobody has written since it was allocated.
CONSTANT Unset

\* LArray_ItemAt, for an item that is there.
ItemAt(array, index) == array[index + 1]

\* LArray_RemoveItemAt: the items behind it move up.
RemovedItemAt(array, index) == RemoveAt(array, index + 1)

\* LArray_ResizeBy: the array loses its last items, or gets new ones that are
\* not initialised.
ResizedBy(array, delta) ==
  IF delta < 0
  THEN SubSeq(array, 1, Len(array) + delta)
  ELSE array \o [i \in 1 .. delta |-> Unset]
=============================================================================
