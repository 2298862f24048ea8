------------------------------- MODULE LQueue -------------------------------
(* LQueue.c: a queue in a circular array that doubles when it is full. The   *)
(* queue reads the array through a pointer of its own, which the array keeps *)
(* up to date where LArray_InstallSyncPtr says. LQueue_New says it before    *)
(* the object is moved to its place (LMemory_NewObject): the pointer that    *)
(* the array writes is one of a stack frame that is gone.                    *)
EXTENDS LArray

CONSTANTS QueueItems,
          QueueInitSize,  \* INIT_QUEUE_SIZE
          QueueMaxSize,   \* bound: the array does not grow beyond it
          ReallocMoves    \* what realloc may do: TRUE, the data get a new place

ASSUME QueueAssumption ==
  /\ QueueInitSize \in Nat \ {0}
  /\ ReallocMoves \subseteq BOOLEAN
  /\ Unset \notin QueueItems

VARIABLES mQueueArray,  \* the items of mArray
          mFront,       \* where the next item is put
          mRear,        \* where the oldest item is
          mDataCurrent  \* mData of the queue is the data of the array

queueVars == <<mQueueArray, mFront, mRear, mDataCurrent>>

QueueInit ==
  /\ mQueueArray = ResizedBy(<<>>, QueueInitSize)
  /\ mFront = 0 /\ mRear = 0
  /\ mDataCurrent = TRUE

ItemsCount == Len(mQueueArray)

\* Mutant: those items stay where they are.
DoubledInPlace(array, front, rear) == ResizedBy(array, Len(array))

\* _Enqueue when the array is full: the items that have gone around the end
\* follow the others in the second half.
Doubled(array, front, rear) ==
  LET count == Len(array)
      twice == ResizedBy(array, count)
  IN  IF front < rear
      THEN [i \in 1 .. 2 * count |->
              IF i \in count + 1 .. count + front THEN array[i - count] ELSE twice[i]]
      ELSE twice

\* The typed LQueue_Enqueue functions, over _Enqueue.
Enqueue(item) ==
  LET full  == (mFront + 1) % ItemsCount = mRear
      array == IF full THEN Doubled(mQueueArray, mFront, mRear) ELSE mQueueArray
      front == IF full /\ mFront < mRear THEN mFront + ItemsCount ELSE mFront
  IN  /\ mDataCurrent
      /\ Len(array) <= QueueMaxSize
      /\ mQueueArray' = [array EXCEPT ![front + 1] = item]
      /\ mFront' = (front + 1) % Len(array)
      /\ IF full THEN \E moves \in ReallocMoves : mDataCurrent' = ~moves
                 ELSE UNCHANGED mDataCurrent
      /\ UNCHANGED mRear

\* The typed LQueue_Dequeue functions, over _Dequeue, which throws when empty.
Dequeue ==
  /\ mDataCurrent = TRUE
  /\ mFront # mRear
  /\ mRear' = (mRear + 1) % ItemsCount
  /\ UNCHANGED <<mQueueArray, mFront, mDataCurrent>>

QueueNext == Dequeue \/ \E item \in QueueItems : Enqueue(item)

QueueSpec == QueueInit /\ [][QueueNext]_queueVars

----------------------------------------------------------------------------
QueueTypeOK ==
  /\ mQueueArray \in Seq(QueueItems \cup {Unset})
  /\ {mFront, mRear} \subseteq 0 .. ItemsCount - 1
  /\ mDataCurrent \in BOOLEAN

\* The items from the oldest to the newest.
Queued ==
  [k \in 1 .. (mFront - mRear) % ItemsCount |-> ItemAt(mQueueArray, (mRear + k - 1) % ItemsCount)]

\* First in, first out, however often the array is full: a call adds its item
\* at the end or takes the first one, and no item is memory that was never
\* written.
IsQueue ==
  [][\/ \E item \in QueueItems : Queued' = Append(Queued, item)
     \/ Queued # <<>> /\ Queued' = Tail(Queued)]_queueVars

\* "(*inDataPtr) will always be equal to the value returned by GetData()"
\* (LArray.c): the queue reads the data of its array.
SyncPtrIsCurrent == mDataCurrent
=============================================================================
