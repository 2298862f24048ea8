------------------------------- MODULE LGraph -------------------------------
(* LGraph.c: a graph whose nodes and edges are linked by pointers, and what   *)
(* follows its changes: an LNodeInfo, an LEdgeInfo (arrays of data, by index  *)
(* of node and edge) and an LEdgeMap (a hash table per node, from index of    *)
(* target to edge; see LHash). A node or edge that is deleted gives its index *)
(* to the last one. The caller stores in the data of a node or an edge, once  *)
(* it is made, the node or edge itself, so that misplaced data show.          *)
EXTENDS LArray, FiniteSets

CONSTANTS MaxNodes, MaxEdges,  \* bounds: nodes and edges at a time
          MaxDelNodes,         \* bound: deletions of nodes
          GraphNull,
          GraphCalls           \* calls that callers make, beside the common ones

ASSUME GraphAssumption ==
  /\ MaxNodes \in Nat \ {0} /\ MaxEdges \in Nat \ {0} /\ MaxDelNodes \in Nat
  /\ GraphNull \notin (1 .. MaxNodes) \cup (1 .. MaxEdges)
  /\ GraphCalls \subseteq {"undirected", "loop", "undirected loop", "parallel", "delete only node"}

VARIABLES graph,         \* the graph and the arrays that follow it
          aux_lost,      \* edges that the LEdgeMap may have lost: of parallel ones one
                         \* was deleted, or a node with edges got another index
          aux_deleted    \* deletions of nodes so far

graphVars == <<graph, aux_lost, aux_deleted>>

NullNode == [mIndex |-> 0, mInDeg |-> 0, mOutDeg |-> 0, mFirstOut |-> GraphNull,
             mLastOut |-> GraphNull, mFirstIn |-> GraphNull, mLastIn |-> GraphNull,
             mNext |-> GraphNull, mPrev |-> GraphNull]
NullEdge == [mIndex |-> 0, mSource |-> GraphNull, mTarget |-> GraphNull,
             mNext |-> GraphNull, mPrev |-> GraphNull,
             mNextSource |-> GraphNull, mPrevSource |-> GraphNull,
             mNextTarget |-> GraphNull, mPrevTarget |-> GraphNull]

\* LGraph_New.
NewGraph(directed) ==
  [mDirected |-> directed, node |-> <<>>, edge |-> <<>>,
   mNodesCount |-> 0, mFirstNode |-> GraphNull, mLastNode |-> GraphNull,
   mEdgesCount |-> 0, mFirstEdge |-> GraphNull, mLastEdge |-> GraphNull,
   nodeData |-> <<>>, edgeData |-> <<>>, edgeMap |-> <<>>]

GraphInit ==
  /\ \E directed \in IF "undirected" \in GraphCalls THEN BOOLEAN ELSE {TRUE} : graph = NewGraph(directed)
  /\ aux_lost = FALSE
  /\ aux_deleted = 0

\* The allocator's choice: the first place that is free.
Place(taken) == CHOOSE x \in 1 .. Cardinality(taken) + 1 : x \notin taken /\ 1 .. x - 1 \subseteq taken

Put(f, x, value)  == [y \in DOMAIN f \cup {x} |-> IF y = x THEN value ELSE f[y]]
Freed(f, x)       == [y \in DOMAIN f \ {x} |-> f[y]]

----------------------------------------------------------------------------
(* The list of all nodes and the list of all edges.                          *)

\* x at the end of a list of records that begins at first.
Appended(records, x, record, last) ==
  IF last = GraphNull THEN Put(records, x, record)
  ELSE Put([records EXCEPT ![last].mNext = x], x, [record EXCEPT !.mPrev = last])

\* x out of the list, the last one into its place and with its index: the
\* writes in the order of the code.
SwappedOut(records, x, first, last) ==
  LET next == records[x].mNext
      prev == records[x].mPrev
      before == records[last].mPrev
      top    == LET a == [records EXCEPT ![last].mPrev = GraphNull]
                    b == [a EXCEPT ![last].mNext = next]
                    c == [b EXCEPT ![next].mPrev = last]
                IN  [c EXCEPT ![before].mNext = GraphNull]
      middle == LET a == [records EXCEPT ![next].mPrev = last]
                    b == [a EXCEPT ![prev].mNext = last]
                    c == [b EXCEPT ![last].mPrev = prev]
                    d == [c EXCEPT ![last].mNext = c[x].mNext]
                IN  [d EXCEPT ![before].mNext = GraphNull]
      moved  == CASE x = first -> top
                  [] x # first /\ x = last -> [records EXCEPT ![before].mNext = GraphNull]
                  [] OTHER -> middle
      first2 == IF x = first THEN last ELSE first
      last2  == IF moved[last].mNext = last THEN last ELSE before
      closed == [moved EXCEPT ![first2].mPrev = GraphNull]
      ended  == [closed EXCEPT ![last2].mNext = GraphNull]
  IN  [records |-> Freed([ended EXCEPT ![last].mIndex = ended[x].mIndex], x),
       first |-> first2, last |-> last2]

----------------------------------------------------------------------------
(* The lists of the edges at a node. In an undirected graph an edge is in     *)
(* the out-lists of both its ends, linked by the fields of that end.          *)

Next(side) == IF side = "Source" THEN "mNextSource" ELSE "mNextTarget"
Prev(side) == IF side = "Source" THEN "mPrevSource" ELSE "mPrevTarget"

End(e, side) == IF side = "Source" THEN e.mSource ELSE e.mTarget

First(g, side) == IF g.mDirected /\ side = "Target" THEN "mFirstIn" ELSE "mFirstOut"
Final(g, side) == IF g.mDirected /\ side = "Target" THEN "mLastIn" ELSE "mLastOut"

\* Mutant: an edge is always in a list by the same end as its neighbours.
SameSide(g, x, v, side) == side

\* Mutant: which end it is is read off the edge, as LGraph_ForAllOut does, also of loops.
SourceFirst(g, x, v, side) == IF g.edge[x].mSource = v THEN "Source" ELSE "Target"

\* By which of its ends the edge x is in the list of v, when the edge next to
\* it is there by side.
SideOf(g, x, v, side) ==
  CASE End(g.edge[x], side) = v -> side
    [] End(g.edge[x], side) # v /\ side = "Source" -> "Target"
    [] OTHER -> "Source"

\* LGraph_NewEdge: e at the end of the list of one of its ends.
LinkedAt(g, e, side) ==
  LET v    == End(g.edge[e], side)
      last == g.node[v][Final(g, side)]
      by   == SideOf(g, last, v, side)
  IN  IF g.node[v][First(g, side)] = GraphNull
      THEN [g EXCEPT !.node[v][First(g, side)] = e, !.node[v][Final(g, side)] = e]
      ELSE [g EXCEPT !.edge[e][Prev(side)] = last,
                     !.edge[last][Next(by)] = e,
                     !.node[v][Final(g, side)] = e]

\* LGraph_DelEdge: e out of the list of one of its ends.
UnlinkedAt(g, e, side) ==
  LET v    == End(g.edge[e], side)
      next == g.edge[e][Next(side)]
      prev == g.edge[e][Prev(side)]
  IN  CASE g.node[v][First(g, side)] = e /\ next # GraphNull ->
             [g EXCEPT !.edge[next][Prev(SideOf(g, next, v, side))] = GraphNull,
                       !.node[v][First(g, side)] = next]
        [] g.node[v][First(g, side)] = e /\ next = GraphNull ->
             [g EXCEPT !.node[v][First(g, side)] = GraphNull, !.node[v][Final(g, side)] = GraphNull]
        [] g.node[v][First(g, side)] # e /\ g.node[v][Final(g, side)] = e ->
             [g EXCEPT !.edge[prev][Next(SideOf(g, prev, v, side))] = GraphNull,
                       !.node[v][Final(g, side)] = prev]
        [] OTHER ->
             LET h == [g EXCEPT !.edge[next][Prev(SideOf(g, next, v, side))] = prev]
             IN  [h EXCEPT !.edge[prev][Next(SideOf(g, prev, v, side))] = next]

\* The edges that follow one another from first on.
Walk(g, first, After(_)) ==
  LET walk[n \in 0 .. g.mEdgesCount + 1] ==
        LET so_far == walk[n - 1]
            e      == IF n = 1 THEN first ELSE After(so_far[n - 1])
        IN  IF n = 0 THEN <<>>
            ELSE IF Len(so_far) < n - 1 \/ e = GraphNull THEN so_far
            ELSE Append(so_far, e)
  IN  walk[g.mEdgesCount + 1]

\* LGraph_ForAllOut.
OutEdges(g, v) ==
  Walk(g, g.node[v].mFirstOut,
       LAMBDA e : IF g.edge[e].mSource = v THEN g.edge[e].mNextSource ELSE g.edge[e].mNextTarget)

\* The in-list, as LGraph_DelNode reads it. LGraph_ForAllIn reads it in another
\* way: as LGraph_ForAllOut does, by the source of an edge if that is v.
InEdges(g, v) == Walk(g, g.node[v].mFirstIn, LAMBDA e : g.edge[e].mNextTarget)
ForAllIn(g, v) ==
  Walk(g, g.node[v].mFirstIn,
       LAMBDA e : IF g.edge[e].mSource = v THEN g.edge[e].mNextSource ELSE g.edge[e].mNextTarget)

----------------------------------------------------------------------------
(* What follows the graph.                                                    *)

\* Mutant of DataWithout: the items behind move up.
DataMovedUp(data, index) == RemoveAt(data, index + 1)

\* _LNodeInfo_DeleteItemAt, _LEdgeInfo_DeleteItemAt: the last item into the
\* place of the one that goes.
DataWithout(data, index) ==
  ResizedBy([data EXCEPT ![index + 1] = Last(data)], -1)

\* _LEdgeMap_AddEdge, _LEdgeMap_DeleteEdge: in the table of the source.
MapIndex(g, e) == g.node[g.edge[e].mSource].mIndex + 1
MapKey(g, e)   == g.node[g.edge[e].mTarget].mIndex
\* Mutant of MapWithout: the map is not told.
MapKept(g, e)    == g
MapWith(g, e)    == [g EXCEPT !.edgeMap[MapIndex(g, e)] = Put(@, MapKey(g, e), e)]
MapWithout(g, e) == [g EXCEPT !.edgeMap[MapIndex(g, e)] = Freed(@, MapKey(g, e))]

\* LEdgeMap_EdgeExists, LEdgeMap_GetEdge.
MapEdge(g, u, v) ==
  LET at(w)   == g.edgeMap[g.node[w].mIndex + 1]
      find(x, y) == IF g.node[y].mIndex \in DOMAIN at(x) THEN at(x)[g.node[y].mIndex] ELSE GraphNull
  IN  IF ~g.mDirected /\ find(u, v) = GraphNull THEN find(v, u) ELSE find(u, v)

\* _Sync of LEdgeMap: the table of a node has all edges of its out-list.
Synced(g) ==
  [g EXCEPT !.edgeMap = [i \in 1 .. g.mNodesCount |->
     LET v == CHOOSE x \in DOMAIN g.node : g.node[x].mIndex = i - 1
         far(e) == IF g.edge[e].mSource = v THEN g.edge[e].mTarget ELSE g.edge[e].mSource
     IN  FoldLeft(LAMBDA table, e : Put(table, g.node[far(e)].mIndex, e), <<>>, OutEdges(g, v))]]

----------------------------------------------------------------------------
(* The operations.                                                           *)

\* LGraph_NewNode, with _LNodeInfo_AddInfo and the table of the LEdgeMap.
NodeAdded(g) ==
  LET x == Place(DOMAIN g.node)
  IN  [g EXCEPT !.node = Appended(@, x, [NullNode EXCEPT !.mIndex = g.mNodesCount], g.mLastNode),
                !.mNodesCount = @ + 1, !.mLastNode = x,
                !.mFirstNode = IF g.mNodesCount = 0 THEN x ELSE @,
                !.nodeData = ResizedBy(@, 1), !.edgeMap = Append(@, <<>>)]

\* LGraph_NewEdge, with _LEdgeInfo_AddInfo and _LEdgeMap_AddEdge. An
\* undirected edge counts at both ends, an undirected loop once.
EdgeAdded(g, u, v) ==
  LET x == Place(DOMAIN g.edge)
      new == [NullEdge EXCEPT !.mIndex = g.mEdgesCount, !.mSource = u, !.mTarget = v]
      h == [g EXCEPT !.edge = Appended(@, x, new, g.mLastEdge),
                     !.mEdgesCount = @ + 1, !.mLastEdge = x,
                     !.mFirstEdge = IF g.mEdgesCount = 0 THEN x ELSE @,
                     !.edgeData = ResizedBy(@, 1)]
      far    == IF g.mDirected \/ u # v THEN LinkedAt(h, x, "Target") ELSE h
      linked == LinkedAt(far, x, "Source")
      counted == CASE g.mDirected -> [linked EXCEPT !.node[v].mInDeg = @ + 1]
                   [] ~g.mDirected /\ u # v -> [linked EXCEPT !.node[v].mOutDeg = @ + 1]
                   [] OTHER -> linked
  IN  MapWith([counted EXCEPT !.node[u].mOutDeg = @ + 1], x)

\* LGraph_DelEdge.
EdgeDeleted(g, e) ==
  LET lists == IF g.mDirected
               THEN UnlinkedAt(UnlinkedAt(g, e, "Target"), e, "Source")
               ELSE LET h == UnlinkedAt(g, e, "Source")
                    IN  IF g.edge[e].mSource # g.edge[e].mTarget THEN UnlinkedAt(h, e, "Target") ELSE h
      told  == MapWithout(lists, e)
      u     == g.edge[e].mSource
      v     == g.edge[e].mTarget
      less  == [told EXCEPT !.node[u].mOutDeg = @ - 1, !.mEdgesCount = @ - 1,
                            !.edgeData = DataWithout(@, g.edge[e].mIndex)]
      fewer == IF g.mDirected THEN [less EXCEPT !.node[v].mInDeg = @ - 1]
                              ELSE [less EXCEPT !.node[v].mOutDeg = @ - 1]
      swap  == SwappedOut(fewer.edge, e, g.mFirstEdge, g.mLastEdge)
  IN  IF g.mEdgesCount = 1
      THEN [fewer EXCEPT !.edge = <<>>, !.mFirstEdge = GraphNull, !.mLastEdge = GraphNull]
      ELSE [fewer EXCEPT !.edge = swap.records, !.mFirstEdge = swap.first, !.mLastEdge = swap.last]

\* The edges at a node, in the order in which LGraph_DelNode deletes them: a
\* loop of a directed graph is gone with the in-list.
EdgesOf(g, v) == InEdges(g, v) \o SelectSeq(OutEdges(g, v), LAMBDA e : e \notin ToSet(InEdges(g, v)))

\* LGraph_DelNode: the last node gets the index before the edges are deleted,
\* the arrays follow after that. The edges of the only node are freed with it,
\* but stay counted, and nothing that follows the graph is told.
NodeDeleted(g, v) ==
  LET swap  == SwappedOut(g.node, v, g.mFirstNode, g.mLastNode)
      index == g.node[v].mIndex
      h     == [g EXCEPT !.node = Put(swap.records, v, g.node[v]),
                         !.mFirstNode = swap.first, !.mLastNode = swap.last]
      bare  == FoldLeft(EdgeDeleted, h, EdgesOf(g, v))
  IN  IF g.mNodesCount = 1
      THEN [g EXCEPT !.node = <<>>, !.mNodesCount = 0, !.edge = <<>>,
                     !.mFirstNode = GraphNull, !.mLastNode = GraphNull]
      ELSE [bare EXCEPT !.node = Freed(@, v), !.mNodesCount = @ - 1,
                        !.nodeData = DataWithout(@, index), !.edgeMap = DataWithout(@, index)]

----------------------------------------------------------------------------
NodeIds == DOMAIN graph.node
EdgeIds == DOMAIN graph.edge

NewNode ==
  LET g == NodeAdded(graph)
  IN  /\ Cardinality(NodeIds) < MaxNodes
      /\ graph' = [g EXCEPT !.nodeData[g.mNodesCount] = g.mLastNode]
      /\ UNCHANGED <<aux_lost, aux_deleted>>

NewEdge(u, v) ==
  LET g == EdgeAdded(graph, u, v)
      parallel == \E e \in EdgeIds : {graph.edge[e].mSource, graph.edge[e].mTarget} = {u, v}
  IN  /\ Cardinality(EdgeIds) < MaxEdges
      /\ u = v => (IF graph.mDirected THEN "loop" ELSE "undirected loop") \in GraphCalls
      /\ parallel => "parallel" \in GraphCalls
      /\ graph' = [g EXCEPT !.edgeData[g.mEdgesCount] = g.mLastEdge]
      /\ UNCHANGED <<aux_lost, aux_deleted>>

EndsOf(e) == <<graph.edge[e].mSource, graph.edge[e].mTarget>>

DelEdge(e) ==
  /\ graph' = EdgeDeleted(graph, e)
  /\ aux_lost' = (aux_lost \/ \E f \in EdgeIds \ {e} : EndsOf(f) = EndsOf(e))
  /\ UNCHANGED aux_deleted

DelNode(v) ==
  /\ aux_deleted < MaxDelNodes
  /\ graph.mNodesCount = 1 => "delete only node" \in GraphCalls
  /\ graph' = NodeDeleted(graph, v)
  /\ aux_deleted' = aux_deleted + 1
  /\ aux_lost' = \/ aux_lost
                 \/ v # graph.mLastNode /\ \E e \in EdgeIds : graph.mLastNode \in ToSet(EndsOf(e))

GraphNext ==
  \/ NewNode
  \/ \E u, v \in NodeIds : NewEdge(u, v)
  \/ \E e \in EdgeIds : DelEdge(e)
  \/ \E v \in NodeIds : DelNode(v)

GraphSpec == GraphInit /\ [][GraphNext]_graphVars

----------------------------------------------------------------------------
GraphTypeOK ==
  /\ NodeIds \subseteq 1 .. MaxNodes /\ EdgeIds \subseteq 1 .. MaxEdges
  /\ \A e \in EdgeIds : {graph.edge[e].mSource, graph.edge[e].mTarget} \subseteq NodeIds
  /\ Len(graph.edgeMap) = Len(graph.nodeData)

\* A list of all: from first to last and back, with each record once, and
\* the records numbered.
IsListOfAll(records, count, first, last) ==
  LET n == Cardinality(DOMAIN records)
      list[i \in 1 .. n] == IF i = 1 THEN first ELSE records[list[i - 1]].mNext
  IN  /\ count = n
      /\ n = 0 => first = GraphNull /\ last = GraphNull
      /\ n > 0 =>
           /\ {list[i] : i \in 1 .. n} = DOMAIN records
           /\ list[n] = last /\ records[last].mNext = GraphNull
           /\ \A i \in 1 .. n : records[list[i]].mPrev = IF i = 1 THEN GraphNull ELSE list[i - 1]
      /\ {records[x].mIndex : x \in DOMAIN records} = 0 .. n - 1

\* The nodes and edges of g are linked, and numbered from 0 on; an edge is in
\* the lists of its ends, once, and the degrees count it.
IsLinked(g) ==
  /\ IsListOfAll(g.node, g.mNodesCount, g.mFirstNode, g.mLastNode)
  /\ IsListOfAll(g.edge, g.mEdgesCount, g.mFirstEdge, g.mLastEdge)
  /\ \A v \in DOMAIN g.node :
       LET out == OutEdges(g, v)
           in  == InEdges(g, v)
       IN  /\ IsInjective(out) /\ IsInjective(in)
           /\ ToSet(out) = {e \in DOMAIN g.edge :
                           v = g.edge[e].mSource \/ (~g.mDirected /\ v = g.edge[e].mTarget)}
           /\ ToSet(in) = {e \in DOMAIN g.edge : g.mDirected /\ g.edge[e].mTarget = v}
           /\ g.node[v].mOutDeg = Len(out) /\ g.node[v].mInDeg = Len(in)

\* The lists of the graph, its numbers and its degrees ("fan-out of the node", LGraph.h)
\* survive the insertions and deletions of nodes and edges that GraphCalls has: loops
\* and parallel edges, but not undirected loops, which are counted once and taken off
\* the count twice, and not the deletion of the only node, whose edges stay counted.
GraphIsLinked == IsLinked(graph)

\* The data of a node or an edge stay its data, whichever index it gets when
\* others are deleted ("now we must remove the node info", LGraph.c). The data of the
\* only node stay when it is deleted: GraphCalls says whether it is.
DataFollow ==
  /\ \A v \in NodeIds : graph.nodeData[graph.node[v].mIndex + 1] = v
  /\ \A e \in EdgeIds : graph.edgeData[graph.edge[e].mIndex + 1] = e

\* "Returns TRUE <-> there's an edge from inSrc to inDst" (LEdgeMap.c).
MapFindsEdges ==
  \A u, v \in NodeIds :
    MapEdge(graph, u, v) # GraphNull <=>
      \E e \in EdgeIds : \/ graph.edge[e].mSource = u /\ graph.edge[e].mTarget = v
                         \/ ~graph.mDirected /\ graph.edge[e].mSource = v /\ graph.edge[e].mTarget = u

\* The same, with loops, parallel edges and nodes deleted, until one of parallel edges
\* is deleted, which takes the entry of all, or a node with edges gets another
\* index, under which the map does not have them.
MapFollows == ~aux_lost => MapFindsEdges
=============================================================================
