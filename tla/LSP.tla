---------------------------------- MODULE LSP ----------------------------------
(* All-pairs shortest paths from nothing: LSP.c of src/dsp. It finds the     *)
(* uniform paths, all of whose parts are shortest paths, in order of weight; *)
(* a path is the edge to its second vertex l followed by a shortest path,    *)
(* and a shortest path to its last but one vertex r followed by an edge.     *)
EXTENDS ShortestPaths

CONSTANTS Graphs  \* sets of edges with their weights: functions on parts of Pairs

VARIABLES mMatrix,        \* what is known of each pair of vertices
          mHeap,          \* the pairs whose mHeapIdx is not 0xFFFFFFFF
          listL, listR,   \* the lists that begin with mFirstL and mFirstR
          aux_graph, aux_extracted

vars == <<mMatrix, mHeap, listL, listR, aux_graph, aux_extracted>>

N        == Cardinality(Vertices)
NoVertex == N   \* 0xFFFF

ConstantsAssumption ==
  /\ N >= 1 /\ Vertices = 0 .. N - 1
  /\ Infinity \in Nat /\ Infinity >= N * N
  /\ \A g \in Graphs : /\ DOMAIN g \subseteq Pairs
                        /\ \A e \in DOMAIN g : g[e] \in 0 .. Infinity

Pack(x, y) == x * N + y   \* 2^16 in place of N: only the order matters

\* LSP_New: the edges of the graph are the first paths. A pair without an
\* edge has the same weight in the matrix as one with an edge of weight
\* Infinity, but is not in the heap.
Init ==
  /\ aux_graph \in Graphs
  /\ mMatrix = [p \in Pairs |->
       IF p \in DOMAIN aux_graph
         THEN [mW |-> aux_graph[p], mDist |-> aux_graph[p], mTB |-> Pack(p[1], p[2]),
               mL |-> p[2], mR |-> p[1]]
         ELSE [mW |-> Infinity, mDist |-> Infinity, mTB |-> Infinity,
               mL |-> NoVertex, mR |-> NoVertex]]
  /\ mHeap = DOMAIN aux_graph
  /\ listL = [p \in Vertices \X Vertices |-> {}]
  /\ listR = [p \in Vertices \X Vertices |-> {}]
  /\ aux_extracted = {}

\* _Comparator, which the relaxation uses as well.
Better(a, b) == a.mDist < b.mDist \/ (a.mDist = b.mDist /\ a.mTB < b.mTB)

Later(s, t) == IF s > t THEN s ELSE t

\* The extension of the path p by the edge e, in 32-bit arithmetic.
Extension(p, e, l, r) ==
  [mW    |-> Infinity,
   mDist |-> (mMatrix[e].mW + mMatrix[p].mDist) % (Infinity + 1),
   mTB   |-> Later(mMatrix[e].mTB, mMatrix[p].mTB),
   mL    |-> l, mR |-> r]

\* Mutant of Requeued: keys are decreased, but no pair is added.
RequeuedIfThere(p, relaxed) == mHeap \ {p}

\* p leaves the heap; what is relaxed is there with its new key.
Requeued(p, relaxed) == (mHeap \ {p}) \cup relaxed

\* One round of _Compute. Ties of the heap are broken by its layout.
Compute ==
  \E p \in {q \in mHeap : \A o \in mHeap : ~Better(mMatrix[o], mMatrix[q])} :
    LET x     == p[1]
        y     == p[2]
        l     == mMatrix[p].mL
        r     == mMatrix[p].mR
        left  == {<<v, y>> : v \in listL'[<<x, r>>] \ {y}}
        right == {<<x, v>> : v \in listR'[<<l, y>>] \ {x}}
        path  == [q \in left \cup right |->
                    IF q \in left THEN Extension(p, <<q[1], x>>, x, r)
                    ELSE Extension(p, <<y, q[2]>>, l, y)]
        relaxed == {q \in left \cup right : Better(path[q], mMatrix[q])}
    IN  /\ listL' = [listL EXCEPT ![<<l, y>>] = @ \cup {x}]
        /\ listR' = [listR EXCEPT ![<<x, r>>] = @ \cup {y}]
        /\ mMatrix' = [q \in Pairs |->
             IF q \in relaxed THEN [path[q] EXCEPT !.mW = mMatrix[q].mW] ELSE mMatrix[q]]
        /\ mHeap' = Requeued(p, relaxed)
        /\ aux_extracted' = aux_extracted \cup {p}
        /\ UNCHANGED aux_graph

Spec     == Init /\ [][Compute]_vars
FairSpec == Spec /\ WF_vars(Compute)
----------------------------------------------------------------------------
TypeOK ==
  /\ mMatrix \in [Pairs -> [mW : 0 .. Infinity, mDist : 0 .. Infinity, mTB : 0 .. Infinity,
                            mL : 0 .. N, mR : 0 .. N]]
  /\ mHeap \subseteq Pairs
  /\ listL \in [Vertices \X Vertices -> SUBSET Vertices]
  /\ listR \in [Vertices \X Vertices -> SUBSET Vertices]

Done == mHeap = {}

GetDist(x, y) == IF x = y THEN 0 ELSE mMatrix[<<x, y>>].mDist

\* When LSP_New returns, LSP_GetDist returns the distances of the graph.
DistancesFound ==
  Done => LET weight == [p \in Pairs |-> mMatrix[p].mW] IN
          \A x \in Vertices : [y \in Vertices |-> GetDist(x, y)] = Distances(weight, x)

\* A pair that has left the heap never comes back: its path is final, so
\* it is in one list of each kind and the lists are not relinked while
\* paths that are in them are extended.
ExtractedOnce == aux_extracted \cap mHeap = {}

\* Each pair gets its distance, once.
PairsAreSettled == DistancesFound /\ ExtractedOnce
=============================================================================
