---------------------------- MODULE MCContainers ----------------------------
(* Small instances for TLC of the containers of the Leonardo library: heap,  *)
(* hash table, queue, graph, and the generators of graphs; blocks, data      *)
(* stores, stacks and archives on disk. The initial state says which of them *)
(* is used.                                                                  *)
EXTENDS LHeap, LHash, LQueue, LGraphGen, LArchiveFile

CONSTANTS MultiNodes, MultiEdges, MultiDelNodes, MultiCalls

VARIABLE container

\* A smaller graph, with loops and parallel edges.
Multi == INSTANCE LGraph WITH MaxNodes <- MultiNodes, MaxEdges <- MultiEdges,
                              MaxDelNodes <- MultiDelNodes, GraphCalls <- MultiCalls

ASSUME MultiAssumption == Multi!GraphAssumption

graphsVars == <<graphVars, genVars>>
containersVars ==
  <<container, heapVars, hashVars, queueVars, graphsVars, blocksVars, archiveVars>>

\* The choices of the initial state matter to their own container only.
ContainersInit ==
  /\ container \in {"heap", "hash", "queue", "graph", "multigraph", "generator",
                    "block", "store", "disk stack", "archive"}
  /\ HeapInit /\ HashInit /\ QueueInit /\ GenInit /\ BlocksInit /\ ArchiveInit
  /\ IF container = "generator"
     THEN graph = GenGraph(task) /\ aux_lost = FALSE /\ aux_deleted = 0
     ELSE (IF container = "multigraph" THEN Multi!GraphInit ELSE GraphInit)
          /\ task = CHOOSE t \in GenTasks : TRUE
  /\ container # "hash" => mRandomOdd = 1
  /\ container \notin {"graph", "multigraph", "generator"} => graph.mDirected

ContainersNext ==
  /\ \/ container = "heap" /\ HeapNext /\ UNCHANGED <<hashVars, queueVars, graphsVars>>
     \/ container = "hash" /\ HashNext /\ UNCHANGED <<heapVars, queueVars, graphsVars>>
     \/ container = "queue" /\ QueueNext /\ UNCHANGED <<heapVars, hashVars, graphsVars>>
     \/ container = "graph" /\ GraphNext /\ UNCHANGED <<heapVars, hashVars, queueVars, genVars>>
     \/ container = "multigraph" /\ Multi!GraphNext
        /\ UNCHANGED <<heapVars, hashVars, queueVars, genVars>>
     \/ container = "generator" /\ GenNext
        /\ UNCHANGED <<heapVars, hashVars, queueVars, aux_lost, aux_deleted>>
  /\ UNCHANGED <<container, blocksVars, archiveVars>>

BlocksNext ==
  /\ \/ container = "block" /\ BlockNext /\ UNCHANGED archiveVars
     \/ container = "store" /\ StoreNext /\ UNCHANGED archiveVars
     \/ container = "disk stack" /\ DiskNext /\ UNCHANGED archiveVars
     \/ container = "archive" /\ ArchiveNext /\ UNCHANGED blocksVars
  /\ UNCHANGED <<container, heapVars, hashVars, queueVars, graphsVars>>

Containers == ContainersInit /\ [][ContainersNext \/ BlocksNext]_containersVars

\* Files with a comment, an edge twice, a node that is not there, and with
\* two lines of nodes.
MCFiles ==
  { << <<"c">>, <<"n", 2>>, <<"a", 0, 1, 5>>, <<"a", 0, 2, 5>>, <<"a", 0, 1, 6>>, <<"a", 1, 1, 7>> >>,
    << <<"n", 1>>, <<"n", 2>>, <<"a", 0, 1, 5>> >> }

MCTasks ==
  { <<"NM", 2, 3>>, <<"NM", 2, 9>>, <<"UNM", 3, 3>>, <<"UNP", 2, 0>>, <<"NP", 2, 0>>,
    <<"Grid", 3, 0>>, <<"Grid", 2, 1>>, <<"Clustered", 4, 2>>, <<"Clustered", 3, 1>>,
    <<"Clustered", 3, 0>>, <<"LoadDimacs", 1, 0>> }

\* All weights are different, or two alternate.
MCWeights == {[i \in 1 .. 12 |-> i], [i \in 1 .. 12 |-> i % 2]}

\* Empty and short blocks, two that begin alike, and one longer than a buffer.
MCWrites == {<<>>, <<1>>, <<2, 1>>, <<1, 2, 3>>}
\* Backward, and behind the end.
MCSeeks == {-2, 3}

\* What an archive holds.
MCData == {<<>>, <<5>>, <<5, 5, 5>>}

\* Every variable of each container has its type.
TypesOK ==
  /\ HeapTypeOK /\ HashTypeOK /\ QueueTypeOK /\ BlocksTypeOK /\ ArchiveTypeOK
  /\ container = "graph" => GraphTypeOK
  /\ container = "multigraph" => Multi!GraphTypeOK

\* The lists of a graph hold together, its arrays follow it, and its edge map until one
\* of parallel edges is deleted or a node with edges gets another index; and a graph that a generator makes is
\* linked, of the size that was asked for, and made from the graph that it was given.
GraphsHold ==
  /\ container \in {"graph", "multigraph"} => GraphIsLinked /\ DataFollow /\ MapFollows
  /\ container = "generator" => GeneratedIsLinked /\ MadeAsAsked /\ MadeFromGraph

\* What callers have put into a hash table, by the calls of HashCalls, or into a data
\* store they find under its key or index, the table knows when to grow, and a block
\* that is read holds nothing that was not written.
ItemsAreFound == HoldsItsItems /\ CountsAreRight /\ StoreKeepsBlocks /\ BlockIsWritten

\* Every call of LHeap is one of a priority queue, every call of LQueue one of a
\* queue, and every call of LDiskStack one of a stack, through holes, growth,
\* the wrapping of the circular array and what is in a file.
QueuesKeepOrder == IsPriorityQueue /\ IsQueue /\ IsStack
=============================================================================
