------------------------------- MODULE CDAPSP_DE -------------------------------
(* All-pairs shortest paths under updates of edges: CDAPSP_DE.c of src/dsp,  *)
(* with its parts CDSSSP.c and CSSSP.c. There is a tree of shortest paths    *)
(* for each source. An update repairs the trees one after the other: it      *)
(* finds the vertices below the edge a new parent each, then runs Dijkstra's *)
(* algorithm from these. The trees share the graph and the queue.            *)
(*                                                                           *)
(* A graph has no loops and no parallel edges. An undirected edge is named   *)
(* by one of its two orders. A value that is used more than once is bound by *)
(* \E x \in {value}.                                                         *)
EXTENDS ShortestPaths, TLC
LOCAL INSTANCE FiniteSetsExt

CONSTANTS Graphs,     \* records of mDirected, edges and their cost
          Weights,    \* what an edge may be updated to, Infinity included
          MaxCalls    \* bound: calls of UpdateEdge and DeleteEdge

VARIABLES mGraph,     \* mDirected and edges
          mEdgeCost,  \* weight of each edge
          tree,       \* mSPTree of each source: parents
          mDist,      \* distances from each source
          mSubTreeNode, \* marks of each source
          call,       \* what runs: "New", "Increase", "Decrease", "Delete" or "none"
          edge, at,   \* its edge, and the source whose tree it works on
          pc,         \* "begin", "setup" or "modify"
          mList1,     \* the vertices that __SetupPQueue has still to see
          mQ,         \* the queue: vertices to their keys
          mParent,    \* their best parents
          aux_deleted, aux_calls

calling == <<call, edge, at, pc>>
trees   == <<tree, mDist, mSubTreeNode>>
vars    == <<mGraph, mEdgeCost, trees, calling, mList1, mQ, mParent, aux_deleted, aux_calls>>

N    == Cardinality(Vertices)
None == N   \* NULL

ConstantsAssumption ==
  /\ N >= 1 /\ Vertices = 0 .. N - 1
  /\ Infinity \in Nat
  /\ Weights \subseteq 0 .. Infinity
  /\ \A w \in Weights \ {Infinity} : N * w < Infinity
  /\ \A g \in Graphs : /\ g.mDirected \in BOOLEAN /\ g.edges \subseteq Pairs
                        /\ g.cost \in [g.edges -> Weights]
                        /\ ~g.mDirected => \A e \in g.edges : <<e[2], e[1]>> \notin g.edges

----------------------------------------------------------------------------
\* Weights of the pairs: of an undirected graph in both directions.
Weight(graph, cost) ==
  [p \in Pairs |->
     IF p \in graph.edges THEN cost[p]
     ELSE IF ~graph.mDirected /\ <<p[2], p[1]>> \in graph.edges THEN cost[<<p[2], p[1]>>]
     ELSE Infinity]

weight == Weight(mGraph, mEdgeCost)

Adjacent(x, y) == x # y /\ (<<x, y>> \in mGraph.edges \/ (~mGraph.mDirected /\ <<y, x>> \in mGraph.edges))

\* The vertices below x in the tree, and x.
Subtree(parent, x) ==
  LET below[n \in Nat] == IF n = 0 THEN {x}
                          ELSE LET found == below[n - 1] IN
                               found \cup {v \in Vertices : parent[v] \in found}
  IN  below[N]

\* The edge uv as the tree of s has it, if it does: __GetEdge.
TreeEdge(s, uv) ==
  {e \in {uv} \cup (IF mGraph.mDirected THEN {} ELSE {<<uv[2], uv[1]>>}) : tree[s][e[2]] = e[1]}

----------------------------------------------------------------------------
NoParents == [v \in Vertices |-> None]

\* CDAPSP_DE_New of a graph.
Init ==
  /\ \E g \in Graphs : /\ mGraph = [mDirected |-> g.mDirected, edges |-> g.edges]
                       /\ mEdgeCost = g.cost
  /\ tree = [s \in Vertices |-> NoParents]
  /\ mDist = [s \in Vertices |-> [v \in Vertices |-> Infinity]]
  /\ mSubTreeNode = [s \in Vertices |-> [v \in Vertices |-> FALSE]]
  /\ call = "New" /\ edge = <<>> /\ at = 0 /\ pc = "begin"
  /\ mList1 = {} /\ mQ = <<>> /\ mParent = NoParents
  /\ aux_deleted = {} /\ aux_calls = 0

Idle == call = "none"

\* On to the tree of the next source, or back to the caller.
Continue ==
  /\ pc' = "begin"
  /\ IF at = N - 1 THEN call' = "none" /\ edge' = <<>> /\ at' = 0
     ELSE at' = at + 1 /\ UNCHANGED <<call, edge>>

\* CSSSP_UI4 enqueues the source.
NewTree ==
  /\ call = "New" /\ pc = "begin"
  /\ mQ' = at :> 0
  /\ mDist' = [mDist EXCEPT ![at][at] = 0]
  /\ pc' = "modify"
  /\ UNCHANGED <<mGraph, mEdgeCost, tree, mSubTreeNode, call, edge, at, mList1, mParent,
                 aux_deleted, aux_calls>>

\* CDAPSP_DE_UpdateEdge. A new weight of Infinity is an increase.
UpdateEdge(e, w) ==
  /\ Idle /\ aux_calls < MaxCalls /\ e \notin aux_deleted
  /\ w # mEdgeCost[e]
  /\ mEdgeCost' = [mEdgeCost EXCEPT ![e] = w]
  /\ call' = IF w > mEdgeCost[e] THEN "Increase" ELSE "Decrease"
  /\ edge' = e /\ at' = 0 /\ pc' = "begin"
  /\ aux_calls' = aux_calls + 1
  /\ UNCHANGED <<mGraph, trees, mList1, mQ, mParent, aux_deleted>>

\* CDAPSP_DE_DeleteEdge: CDSSSP_DeleteEdge leaves the shared graph as it is.
DeleteEdge(e) ==
  /\ Idle /\ aux_calls < MaxCalls /\ e \notin aux_deleted
  /\ call' = "Delete" /\ edge' = e /\ at' = 0 /\ pc' = "begin"
  /\ aux_deleted' = aux_deleted \cup {e} /\ aux_calls' = aux_calls + 1
  /\ UNCHANGED <<mGraph, mEdgeCost, trees, mList1, mQ, mParent>>

\* CDSSSP_IncreaseEdge and CDSSSP_DeleteEdge when the edge is in the tree.
\* __MarkSubTreeNodes inverts the marks of all vertices below it.
MarkSubTreeNodes ==
  /\ call \in {"Increase", "Delete"} /\ pc = "begin"
  /\ \E e \in TreeEdge(at, edge) :
       /\ tree' = IF call = "Delete" THEN [tree EXCEPT ![at][e[2]] = None] ELSE tree
       /\ \E below \in {Subtree(tree'[at], e[2])} :
            mSubTreeNode' = [mSubTreeNode EXCEPT ![at] =
                               [v \in Vertices |-> IF v \in below THEN ~@[v] ELSE @[v]]]
       /\ mList1' = {e[2]}
  /\ pc' = "setup"
  /\ UNCHANGED <<mGraph, mEdgeCost, mDist, call, edge, at, mQ, mParent, aux_deleted, aux_calls>>

NotATreeEdge ==
  /\ call \in {"Increase", "Delete"} /\ pc = "begin"
  /\ TreeEdge(at, edge) = {}
  /\ Continue
  /\ UNCHANGED <<mGraph, mEdgeCost, trees, mList1, mQ, mParent, aux_deleted, aux_calls>>

\* One round of __SetupPQueue: the best parent outside the marked part. One
\* with the least distance is the first in the list of edges. A vertex
\* without one stays marked and, in the tree, below its old parent.
SetupPQueue ==
  /\ pc = "setup"
  /\ \E v \in mList1 :
     \E from \in {{u \in Vertices : Adjacent(u, v) /\ ~mSubTreeNode[at][u]}} :
     \E key \in {[u \in from |-> Plus(mDist[at][u], weight[<<u, v>>])]} :
     \E min \in {Min({key[u] : u \in from} \cup {Infinity})} :
       /\ mDist' = [mDist EXCEPT ![at][v] = min]
       /\ mList1' = (mList1 \ {v}) \cup {c \in Vertices : tree[at][c] = v}
       /\ IF min = Infinity THEN UNCHANGED <<mParent, mQ, mSubTreeNode>>
          ELSE /\ \E u \in from : key[u] = min /\ mParent' = [mParent EXCEPT ![v] = u]
               /\ mQ' = (v :> min) @@ mQ
               /\ mSubTreeNode' = [mSubTreeNode EXCEPT ![at][v] = FALSE]
  /\ pc' = IF mList1' = {} THEN "modify" ELSE "setup"
  /\ UNCHANGED <<mGraph, mEdgeCost, tree, call, edge, at, aux_deleted, aux_calls>>

\* Mutant of DecreaseEdge: the edge is only used in its own direction.
DecreaseEdgeDirected ==
  /\ call = "Decrease" /\ pc = "begin"
  /\ LET key == Plus(mDist[at][edge[1]], mEdgeCost[edge])
     IN  IF key >= mDist[at][edge[2]]
           THEN Continue /\ UNCHANGED <<mQ, mParent>>
           ELSE /\ mQ' = edge[2] :> key
                /\ mParent' = [mParent EXCEPT ![edge[2]] = edge[1]]
                /\ pc' = "modify" /\ UNCHANGED <<call, edge, at>>
  /\ UNCHANGED <<mGraph, mEdgeCost, trees, mList1, aux_deleted, aux_calls>>

\* CDSSSP_DecreaseEdge: the nearer end of an undirected edge comes first.
DecreaseEdge ==
  /\ call = "Decrease" /\ pc = "begin"
  /\ LET swap == ~mGraph.mDirected /\ mDist[at][edge[1]] > mDist[at][edge[2]]
         u    == IF swap THEN edge[2] ELSE edge[1]
         v    == IF swap THEN edge[1] ELSE edge[2]
         key  == Plus(mDist[at][u], mEdgeCost[edge])
     IN  IF key >= mDist[at][v]
           THEN Continue /\ UNCHANGED <<mQ, mParent>>
           ELSE /\ mQ' = v :> key
                /\ mParent' = [mParent EXCEPT ![v] = u]
                /\ pc' = "modify" /\ UNCHANGED <<call, edge, at>>
  /\ UNCHANGED <<mGraph, mEdgeCost, trees, mList1, aux_deleted, aux_calls>>

\* One round of __ModifySPTree, or of the loop of CSSSP_UI4, whose list of
\* predecessors is made into the tree in the end. Ties are up to the heap.
ModifySPTree ==
  /\ pc = "modify"
  /\ \E v \in {x \in DOMAIN mQ : \A y \in DOMAIN mQ : mQ[x] <= mQ[y]} :
     \E adj \in {[x \in Vertices |-> IF Adjacent(v, x) THEN Plus(mQ[v], weight[<<v, x>>])
                                     ELSE Infinity]} :
     \E relaxed \in {{x \in Vertices : adj[x] < mDist[at][x]}} :
       /\ mDist' = [mDist EXCEPT ![at] =
                       [x \in Vertices |-> IF x \in relaxed THEN adj[x]
                                           ELSE IF x = v THEN mQ[v] ELSE @[x]]]
       /\ tree' = [tree EXCEPT ![at][v] = mParent[v]]
       /\ mParent' = [x \in Vertices |-> IF x \in relaxed THEN v
                                         ELSE IF x = v THEN None ELSE mParent[x]]
       /\ mSubTreeNode' = [mSubTreeNode EXCEPT ![at][v] = FALSE]
       /\ mQ' = [x \in (DOMAIN mQ \ {v}) \cup relaxed |-> IF x \in relaxed THEN adj[x] ELSE mQ[x]]
  /\ UNCHANGED <<mGraph, mEdgeCost, calling, mList1, aux_deleted, aux_calls>>

TreeDone ==
  /\ pc = "modify" /\ mQ = <<>>
  /\ Continue
  /\ UNCHANGED <<mGraph, mEdgeCost, trees, mList1, mQ, mParent, aux_deleted, aux_calls>>

Run == \/ NewTree \/ MarkSubTreeNodes \/ NotATreeEdge \/ SetupPQueue \/ DecreaseEdge
       \/ ModifySPTree \/ TreeDone

Next == Run \/ \E e \in mGraph.edges : DeleteEdge(e) \/ \E w \in Weights : UpdateEdge(e, w)

Spec     == Init /\ [][Next]_vars
FairSpec == Spec /\ WF_vars(Run)
----------------------------------------------------------------------------
TypeOK ==
  /\ mEdgeCost \in [mGraph.edges -> Weights]
  /\ tree \in [Vertices -> [Vertices -> Vertices \cup {None}]]
  /\ mDist \in [Vertices -> [Vertices -> 0 .. Infinity]]
  /\ mSubTreeNode \in [Vertices -> [Vertices -> BOOLEAN]]
  /\ call \in {"New", "Increase", "Decrease", "Delete", "none"}
  /\ edge \in Pairs \cup {<<>>} /\ at \in Vertices /\ pc \in {"begin", "setup", "modify"}
  /\ mList1 \subseteq Vertices /\ DOMAIN mQ \subseteq Vertices
  /\ mParent \in [Vertices -> Vertices \cup {None}]

\* Between calls CDAPSP_DE_GetDistance returns the distances of the graph with
\* its weights of now, whatever the updates before.
DistancesKept ==
  Idle => \A s \in Vertices : mDist[s] = Distances(weight, s)

\* Between calls each tree is a tree of shortest paths: what the next increase
\* takes for the vertices below an edge are those whose distance depends on it.
\* Vertices out of reach may hang in the tree and may be marked, but no cycle
\* comes of it, which would keep __MarkSubTreeNodes busy for ever.
TreesAreShortest ==
  Idle => \A s, v \in Vertices :
    /\ v # s /\ mDist[s][v] # Infinity =>
         tree[s][v] # None /\ mDist[s][v] = Plus(mDist[s][tree[s][v]], weight[<<tree[s][v], v>>])
    /\ mSubTreeNode[s][v] => mDist[s][v] = Infinity
    /\ tree[s][v] # None => tree[s][v] \notin Subtree(tree[s], v)

\* Distances and trees survive every update.
TreesAreKept == DistancesKept /\ TreesAreShortest

\* CDAPSP_DE_DeleteEdge "Deletes inEdgeUV from the graph" (docs/CDAPSP_DE.html):
\* between calls no distance relies on a deleted edge. The code leaves the edge where
\* it is (CDSSSP.c:211), so that this does not hold.
DeletedEdgesUnused ==
  Idle => LET kept == [mGraph EXCEPT !.edges = @ \ aux_deleted] IN
          \A s \in Vertices : mDist[s] = Distances(Weight(kept, mEdgeCost), s)
=============================================================================
