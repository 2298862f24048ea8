------------------------------ MODULE LGraphGen ------------------------------
(* LGraphGen.c: graphs drawn at random, regular ones, and those made from     *)
(* another graph or from a file. A random number is any in its range, a       *)
(* probability that is neither 0 nor 1 any choice. The graph that is made is  *)
(* the one of LGraph. A file is a sequence of lines that have been read.      *)
EXTENDS LGraph

CONSTANTS GenTasks,    \* <<generator, nodes, edges or clusters>>
          GenWeights,  \* sequences of weights that may be drawn
          ShortBits,   \* bits of a ui2 (16)
          GenFiles     \* files written by others

ASSUME GenAssumption ==
  /\ \A task \in GenTasks :
       /\ task[1] \in {"NM", "UNM", "NP", "UNP", "Grid", "Clustered", "LoadDimacs"}
       /\ task[2] \in Nat \ {0} /\ task[3] \in Nat
       /\ task[1] = "Grid" => task[2] * task[2] < 2 ^ ShortBits
  /\ \A file \in GenFiles : \A i \in DOMAIN file :
       file[i][1] = "a" => \E j \in 1 .. i : file[j][1] = "n"

VARIABLES task,      \* what is to be made
          theCount,  \* the number of the last cell that can still be drawn
          theTable,  \* theHashList: the cells that stand for others
          cell,      \* the next number of an edge or of a pair of nodes
          made,      \* "building", "built", or what has been made from the graph
          copy       \* the graph that has been made from it, or its edges before

genVars == <<task, theCount, theTable, cell, made, copy>>

NodesOnly(n, directed) == FoldLeft(LAMBDA g, i : NodeAdded(g), NewGraph(directed), [i \in 1 .. n |-> i])

NodeAt(g, index) == CHOOSE v \in DOMAIN g.node : g.node[v].mIndex = index

\* An edge between the nodes of theNodesList.
Joined(g, pair) == EdgeAdded(g, NodeAt(g, pair[1]), NodeAt(g, pair[2]))

\* The pairs of nodes of the edges, in the order of LGraph_ForAllEdges.
EdgeList(g) ==
  LET list[i \in 1 .. g.mEdgesCount] == IF i = 1 THEN g.mFirstEdge ELSE g.edge[list[i - 1]].mNext
  IN  [i \in 1 .. g.mEdgesCount |-> list[i]]
Pair(g, e) == <<g.node[g.edge[e].mSource].mIndex, g.node[g.edge[e].mTarget].mIndex>>
Pairs(g)   == [i \in 1 .. g.mEdgesCount |-> Pair(g, EdgeList(g)[i])]

Kind == task[1]
N    == task[2]
M    == task[3]

\* Cells of LGraphGen_RandomNM, and of the triangle of LGraphGen_RandomUNM,
\* whose rows get shorter.
Square(n, r) == <<r \div n, r % n>>
Triangle(n, r) ==
  LET row == CHOOSE s \in 0 .. n - 1 : s * (2 * n + 1 - s) <= 2 * r
                                       /\ 2 * r < (s + 1) * (2 * n - s)
  IN  <<row, r - (row * (2 * n - 1 - row)) \div 2>>
Cell(r) == IF Kind = "UNM" THEN Triangle(N, r) ELSE Square(N, r)

AllCells(kind, n) == IF kind = "NM" THEN n * n ELSE (n * (n - 1)) \div 2 + n

GenInit ==
  /\ task \in GenTasks
  /\ theCount = AllCells(Kind, N) - 1
  /\ theTable = <<>> /\ cell = 0 /\ copy = <<>>
  /\ made = "building"

\* The graph before its edges are made.
GenGraph(t) ==
  CASE t[1] = "Grid" -> NodesOnly(t[2] * t[2], t[3] = 1)
    [] t[1] = "LoadDimacs" -> NewGraph(TRUE)
    [] OTHER -> NodesOnly(t[2], t[1] \notin {"UNM", "UNP"})

----------------------------------------------------------------------------
(* LGraphGen_RandomNM, LGraphGen_RandomUNM and LGraphGen_RandomUNP draw cells *)
(* without putting them back: the last cell takes the place of the one drawn. *)

\* The number of turns: as many as edges, or one for each possible edge.
Turns == IF Kind = "UNP" \/ M > AllCells(Kind, N) THEN AllCells(Kind, N) ELSE M

\* Mutant: the last cell may have been drawn before.
AlwaysLast(table) == theCount

\* The cell that the last one stands for.
LastCell(table) == IF theCount \in DOMAIN table THEN table[theCount] ELSE theCount

DrawEdge(r) ==
  LET drawn == IF r \in DOMAIN theTable THEN theTable[r] ELSE r
      less  == Freed(theTable, r)
  IN  /\ made = "building" /\ cell < Turns
      /\ r \in 0 .. theCount
      /\ graph' = Joined(graph, Cell(drawn))
      /\ theTable' = Put(less, r, LastCell(less))
      /\ theCount' = theCount - 1
      /\ cell' = cell + 1
      /\ UNCHANGED <<task, made, copy>>

RandomNM(r)  == Kind = "NM" /\ DrawEdge(r)
RandomUNM(r) == Kind = "UNM" /\ DrawEdge(r)

\* The probability says no, or yes.
SkipEdge ==
  /\ made = "building" /\ cell < Turns
  /\ cell' = cell + 1
  /\ UNCHANGED <<graph, task, theCount, theTable, made, copy>>
RandomUNP(r) == Kind = "UNP" /\ (SkipEdge \/ DrawEdge(r))

----------------------------------------------------------------------------
(* LGraphGen_RandomNP and LGraphGen_RandomClustered go through all pairs.     *)

ClusterSize ==
  LET c == IF M = 0 THEN 1 ELSE IF M > N THEN N ELSE M
  IN  N \div c

\* Always an edge: from a node to the next one of its cluster.
OnCycle(i, j) ==
  /\ i \div ClusterSize = j \div ClusterSize
  /\ (i + 1) % ClusterSize = j % ClusterSize

NextPair(chosen) ==
  /\ made = "building" /\ cell < N * N
  /\ graph' = IF chosen THEN Joined(graph, Square(N, cell)) ELSE graph
  /\ cell' = cell + 1
  /\ UNCHANGED <<task, theCount, theTable, made, copy>>

RandomNP(chosen) == Kind = "NP" /\ NextPair(chosen)

RandomClustered(chosen) ==
  LET pair == Square(N, cell)
      loop == pair[1] = pair[2]
  IN  /\ Kind = "Clustered"
      /\ (loop => ~chosen) /\ (OnCycle(pair[1], pair[2]) /\ ~loop => chosen)
      /\ NextPair(chosen)

----------------------------------------------------------------------------
\* LGraphGen_Grid: from each node to the next of its column and of its row.
GridPairs(n) ==
  FlattenSeq([k \in 1 .. n * n |->
    LET x == (k - 1) \div n
        y == (k - 1) % n
    IN  (IF x < n - 1 THEN << <<k - 1, k - 1 + n>> >> ELSE <<>>)
        \o (IF y < n - 1 THEN << <<k - 1, k>> >> ELSE <<>>)])

Grid ==
  /\ made = "building" /\ Kind = "Grid"
  /\ graph' = FoldLeft(Joined, graph, GridPairs(N))
  /\ made' = "built"
  /\ UNCHANGED <<task, theCount, theTable, cell, copy>>

\* The loops have ended. LGraphGen_RndEdgeInfoUI4 gives each edge a weight.
Weigh(weights) ==
  /\ made = "building"
  /\ \/ Kind \in {"NM", "UNM", "UNP"} /\ cell = Turns
     \/ Kind \in {"NP", "Clustered"} /\ cell = N * N
  /\ graph' = [graph EXCEPT !.edgeData = SubSeq(weights, 1, graph.mEdgesCount)]
  /\ made' = "built" /\ theTable' = <<>>
  /\ UNCHANGED <<task, theCount, cell, copy>>

----------------------------------------------------------------------------
(* Files. A line of DIMACS is <<"c">>, <<"n", nodes>>, <<"a", source, target,  *)
(* weight>>; XML has <<"GRAPH", nodes>> and <<"EDGE", source, target, weight>>.*)
(* The weight may be missing.                                                 *)

\* The lines of the edges: LGraph_ForAllEdges in LGraphGen_SaveDimacs, LGraphGen_SaveXML.
EdgeLines(g, tag, withWeights) ==
  [i \in 1 .. g.mEdgesCount |->
     <<tag>> \o Pairs(g)[i] \o
     (IF withWeights THEN <<g.edgeData[g.edge[EdgeList(g)[i]].mIndex + 1]>> ELSE <<>>)]

SaveDimacs(g, withWeights) == << <<"c">>, <<"n", g.mNodesCount>> >> \o EdgeLines(g, "a", withWeights)
SaveXML(g, withWeights)    == << <<"GRAPH", g.mNodesCount>> >> \o EdgeLines(g, "EDGE", withWeights)

\* An edge that is there is left out. The weight that a line lacks is what the
\* buffer, or the variable, held.
WithLine(g, line) ==
  IF MapEdge(g, NodeAt(g, line[2]), NodeAt(g, line[3])) # GraphNull THEN g
  ELSE LET h == Joined(g, <<line[2], line[3]>>)
       IN  [h EXCEPT !.edgeData[h.mEdgesCount] = IF Len(line) = 4 THEN line[4] ELSE Unset]

\* LGraphGen_LoadDimacs: so is a node that is not there; a second line of nodes
\* ends it without a graph.
WithArc(g, line) ==
  IF line[2] >= g.mNodesCount \/ line[3] >= g.mNodesCount THEN g ELSE WithLine(g, line)

LoadDimacs(file, directed) ==
  LET ns == {i \in DOMAIN file : file[i][1] = "n"}
      read(g, line) == CASE line[1] = "n" -> NodesOnly(line[2], directed)
                         [] line[1] = "a" -> WithArc(g, line)
                         [] OTHER -> g
  IN  IF Cardinality(ns) > 1 THEN NewGraph(FALSE) ELSE FoldLeft(read, NewGraph(directed), file)

\* LGraphGen_LoadXML: trusts the numbers of nodes.
LoadXML(file, directed) ==
  LET read(g, line) == IF line[1] = "GRAPH" THEN NodesOnly(line[2], directed) ELSE WithLine(g, line)
  IN  FoldLeft(read, NewGraph(directed), file)

LoadFile(file) ==
  /\ made = "building" /\ Kind = "LoadDimacs"
  /\ graph' = LoadDimacs(file, TRUE)
  /\ made' = "built" /\ copy' = file
  /\ UNCHANGED <<task, theCount, theTable, cell>>

SaveAndLoad(format, withWeights) ==
  /\ made = "built"
  /\ copy' = IF format = "XML" THEN LoadXML(SaveXML(graph, withWeights), graph.mDirected)
                               ELSE LoadDimacs(SaveDimacs(graph, withWeights), graph.mDirected)
  /\ made' = IF withWeights THEN "loaded" ELSE "loaded without weights"
  /\ UNCHANGED <<graph, task, theCount, theTable, cell>>

----------------------------------------------------------------------------
(* What is made from a graph.                                                 *)

\* LGraphGen_CopyGraph with LGraphGen_CopyEdgeInfo, LGraphGen_ReverseGraph.
CopyGraph ==
  /\ made = "built"
  /\ copy' = LET g == FoldLeft(Joined, NodesOnly(graph.mNodesCount, graph.mDirected), Pairs(graph))
             IN  [g EXCEPT !.edgeData = graph.edgeData]
  /\ made' = "copied"
  /\ UNCHANGED <<graph, task, theCount, theTable, cell>>

ReverseGraph ==
  /\ made = "built" /\ graph.mDirected
  /\ copy' = FoldLeft(LAMBDA g, pair : Joined(g, <<pair[2], pair[1]>>),
                      NodesOnly(graph.mNodesCount, TRUE), Pairs(graph))
  /\ made' = "reversed"
  /\ UNCHANGED <<graph, task, theCount, theTable, cell>>

\* LGraphGen_AddCycle, with an LEdgeMap of its own.
AddCycle ==
  LET n == graph.mNodesCount
      link(g, i) == LET pair == <<i - 1, i % n>>
                    IN  IF MapEdge(g, NodeAt(g, pair[1]), NodeAt(g, pair[2])) = GraphNull
                        THEN Joined(g, pair) ELSE g
  IN  /\ made = "built" /\ n > 0
      /\ graph' = FoldLeft(link, Synced(graph), [i \in 1 .. n |-> i])
      /\ made' = "cycle added" /\ copy' = Pairs(graph)
      /\ UNCHANGED <<task, theCount, theTable, cell>>

\* LGraphGen_RemoveSelfLoops: of the edges that there were when it began.
IsLoop(g, e) == g.edge[e].mSource = g.edge[e].mTarget
RemoveSelfLoops ==
  /\ made = "built"
  /\ graph' = FoldLeft(EdgeDeleted, graph, SelectSeq(EdgeList(graph), LAMBDA e : IsLoop(graph, e)))
  /\ made' = "loops removed" /\ copy' = Pairs(graph)
  /\ UNCHANGED <<task, theCount, theTable, cell>>

\* LGraphGen_RemoveRandomNodes: each of them is left in the array just once.
RemoveRandomNodes(nodes) ==
  /\ made = "built"
  /\ Len(nodes) < graph.mNodesCount
  /\ graph' = FoldLeft(NodeDeleted, graph, nodes)
  /\ made' = "nodes removed"
  /\ copy' = [g |-> graph, gone |-> ToSet(nodes)]
  /\ UNCHANGED <<task, theCount, theTable, cell>>

\* An undirected graph with loops has broken lists (see LGraph): it is not
\* changed any more.
Undamaged == graph.mDirected \/ \A e \in EdgeIds : ~IsLoop(graph, e)

GenNext ==
  \/ \E r \in 0 .. theCount : RandomNM(r) \/ RandomUNM(r) \/ RandomUNP(r)
  \/ \E chosen \in BOOLEAN : RandomNP(chosen) \/ RandomClustered(chosen)
  \/ Grid
  \/ \E weights \in GenWeights : Weigh(weights)
  \/ \E file \in GenFiles : LoadFile(file)
  \/ \E format \in {"DIMACS", "XML"}, withWeights \in BOOLEAN : SaveAndLoad(format, withWeights)
  \/ CopyGraph
  \/ ReverseGraph
  \/ Undamaged /\ AddCycle
  \/ Undamaged /\ RemoveSelfLoops
  \/ Undamaged /\ \E u, v \in NodeIds : RemoveRandomNodes(IF u = v THEN <<u>> ELSE <<u, v>>)

----------------------------------------------------------------------------
\* No two edges join the same nodes.
IsSimple(g) ==
  \A e, f \in DOMAIN g.edge :
    \/ e = f
    \/ Pair(g, e) # Pair(g, f) /\ (g.mDirected \/ Pair(g, e) # <<Pair(g, f)[2], Pair(g, f)[1]>>)

WeightOf(g, e) == g.edgeData[g.edge[e].mIndex + 1]

\* LGraphGen_RandomNM and LGraphGen_RandomUNM draw as many edges as asked, no
\* two alike; a grid has an edge between neighbours; the nodes of a cluster are
\* on a cycle, if all clusters have the same size; a file is read up to the
\* edges that are there and the nodes that are not.
MadeAsAsked ==
  made = "built" =>
    CASE Kind \in {"NM", "UNM"} -> IsSimple(graph) /\ graph.mEdgesCount = Turns
      [] Kind \in {"NP", "UNP"} -> IsInjective(Pairs(graph))
      [] Kind = "Grid" ->
           /\ IsInjective(Pairs(graph))
           /\ ToSet(Pairs(graph)) =
                {p \in (0 .. N * N - 1) \X (0 .. N * N - 1) :
                   \/ p[2] = p[1] + N
                   \/ p[2] = p[1] + 1 /\ p[2] % N # 0}
      [] Kind = "Clustered" ->
           /\ IsSimple(graph) /\ \A e \in EdgeIds : ~IsLoop(graph, e)
           /\ N % ClusterSize = 0 /\ ClusterSize > 1 =>
                \A i \in 0 .. N - 1 : LET k == i \div ClusterSize
                                     IN  <<i, k * ClusterSize + ((i + 1) % ClusterSize)>> \in ToSet(Pairs(graph))
      [] Kind = "LoadDimacs" /\ graph.mNodesCount > 0 ->
           LET arcs == SelectSeq(copy, LAMBDA line : line[1] = "a")
           IN  /\ IsSimple(graph)
               /\ \A i \in DOMAIN arcs :
                    LET first == CHOOSE j \in 1 .. i : /\ SubSeq(arcs[j], 2, 3) = SubSeq(arcs[i], 2, 3)
                                                     /\ \A k \in 1 .. j - 1 : SubSeq(arcs[k], 2, 3) # SubSeq(arcs[i], 2, 3)
                    IN  {arcs[i][2], arcs[i][3]} \subseteq 0 .. graph.mNodesCount - 1 =>
                          \E e \in EdgeIds : /\ Pair(graph, e) = SubSeq(arcs[i], 2, 3)
                                            /\ WeightOf(graph, e) = arcs[first][4]
      [] OTHER -> TRUE

\* What is made of a graph: a file and a copy give back its edges and their
\* weights, in their order; a cycle is added without parallel edges; edges and
\* nodes that are removed take nothing else with them, and the weights follow.
MadeFromGraph ==
  CASE made = "loaded" /\ IsSimple(graph) -> Pairs(copy) = Pairs(graph) /\ copy.edgeData = graph.edgeData
    [] made = "loaded without weights" /\ IsSimple(graph) -> Pairs(copy) = Pairs(graph)
    [] made = "copied" -> Pairs(copy) = Pairs(graph) /\ copy.edgeData = graph.edgeData
    [] made = "reversed" -> Pairs(copy) = [i \in DOMAIN Pairs(graph) |-> <<Pairs(graph)[i][2], Pairs(graph)[i][1]>>]
    [] made = "cycle added" ->
         /\ IsPrefix(copy, Pairs(graph))
         /\ IsInjective(copy) => IsInjective(Pairs(graph))
         /\ \A i \in 0 .. N - 1 : \/ <<i, (i + 1) % graph.mNodesCount>> \in ToSet(Pairs(graph))
                                \/ ~graph.mDirected
    [] made = "loops removed" ->
         /\ IsInjective(copy) => IsInjective(Pairs(graph))
         /\ ToSet(Pairs(graph)) = {p \in ToSet(copy) : p[1] # p[2]}
    [] made = "nodes removed" ->
         /\ NodeIds = DOMAIN copy.g.node \ copy.gone
         /\ EdgeIds = {e \in DOMAIN copy.g.edge :
                         {copy.g.edge[e].mSource, copy.g.edge[e].mTarget} \cap copy.gone = {}}
         /\ \A e \in EdgeIds : WeightOf(graph, e) = WeightOf(copy.g, e)
    [] OTHER -> TRUE

\* The lists of what is made hold together, but for undirected loops.
GeneratedIsLinked ==
  /\ Undamaged => IsLinked(graph)
  /\ made \in {"loaded", "copied", "reversed"} /\ Undamaged => IsLinked(copy)
=============================================================================
