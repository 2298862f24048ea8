--------------------------- MODULE MCShortestPaths ---------------------------
(* Small instances for TLC of algorithms for all-pairs shortest paths: LDSP, *)
(* CDAPSP_DE and CDAPSP under updates, and LSP; of the program that compares *)
(* them; and of D*. The initial state says which of them runs.               *)
EXTENDS Naturals

CONSTANTS Programs,   \* those that are checked
          LdspInfinity, Step, Ratio, MaxUpdates,
          LspInfinity, LspWeights,
          DeInfinity, MaxCalls,
          KingInfinity, KingUpdates,
          MaxChanges,
          MAIN_INFINITY, Lengths, MaxCommands, MaxMaking, Verbose, Deletions

VARIABLES program,
          mTime, mW, mT, arena, mSP, mH, mSH, todo, caller, ldspEdge, aux_updates,
          mMatrix, mHeap, listL, listR, aux_graph, aux_extracted,
          mGraph, mEdgeCost, tree, mDist, mSubTreeNode, call, edge, at, pc,
          mList1, mQ, mParent, aux_deleted, aux_calls,
          kGraph, mDValue, mCValue, mBlockList, kEdgeCost, mREdgeCost, mInV, mOutV, mList, mDistD,
          kDist, mBlockEdgeCost, kTodo, kEdge, kPc, mDelta, mInMod, mOutMod, aux_kupdates,
          mBase, mCost, mTag, mBackPtr, mHOf, mK, mStart, mGoal, mCurrent, mFinished,
          mNodes_processed_since_last, dPc, left, aux_changes, aux_returned, aux_astray,
          session, sGraph, mEdgeWeights, mMinGraphW, mMaxGraphW, mSequence, mMinSeqW, mMaxSeqW,
          mIncCount, mDecCount, setup, making, running, logged, aux_weights, aux_commands

ldspVars == <<mTime, mW, mT, arena, mSP, mH, mSH, todo, caller, ldspEdge, aux_updates>>
lspVars  == <<mMatrix, mHeap, listL, listR, aux_graph, aux_extracted>>
deVars   == <<mGraph, mEdgeCost, tree, mDist, mSubTreeNode, call, edge, at, pc,
              mList1, mQ, mParent, aux_deleted, aux_calls>>
kingVars == <<kGraph, mDValue, mCValue, mBlockList, kEdgeCost, mREdgeCost, mInV, mOutV, mList, mDistD,
              kDist, mBlockEdgeCost, kTodo, kEdge, kPc, mDelta, mInMod, mOutMod, aux_kupdates>>
dstarVars == <<mBase, mCost, mTag, mBackPtr, mHOf, mK, mStart, mGoal, mCurrent, mFinished,
               mNodes_processed_since_last, dPc, left, aux_changes, aux_returned, aux_astray>>
mainVars == <<session, sGraph, mEdgeWeights, mMinGraphW, mMaxGraphW, mSequence, mMinSeqW, mMaxSeqW,
              mIncCount, mDecCount, setup, making, running, logged, aux_weights, aux_commands>>

FourVertices == 0 .. 3

\* A graph with edges on and off the cycle 0, 1, 2, 3, and two ways from 0 to
\* 2 and from 1 to 3 of equal weight.
E(u, v, weight) == [edge |-> <<u, v>>, w |-> weight]
LdspGraph == <<E(0, 1, 1), E(1, 2, 1), E(0, 2, 2), E(2, 3, 1), E(1, 3, 2)>>

\* All graphs of some of these edges.
LspEdges  == {<<0, 1>>, <<1, 2>>, <<0, 2>>, <<2, 3>>, <<1, 3>>, <<2, 1>>}
LspGraphs == UNION {[edges -> LspWeights] : edges \in SUBSET LspEdges}

\* A graph, read as a directed one and as an undirected one.
DeEdges  == {<<0, 1>>, <<1, 2>>, <<0, 2>>, <<2, 3>>, <<3, 1>>}
DeCost   == [e \in DeEdges |-> IF e = <<0, 2>> THEN DeInfinity ELSE 1]
DeGraphs == {[mDirected |-> d, edges |-> DeEdges, cost |-> DeCost] : d \in BOOLEAN}

\* Even weights and an odd limit: no distance is the limit itself.
KingEdges  == {<<0, 1>>, <<1, 2>>, <<0, 2>>, <<2, 3>>, <<3, 1>>, <<1, 3>>}
KingGraphs == {[cost |-> [e \in KingEdges |-> IF e[1] = 0 THEN c ELSE 2], mDValue |-> 5, mCValue |-> 4] : c \in {2, 4}}

\* A graph without loops, one with a loop and one without edges.
MainGraphs == {[nodes |-> 3, edges |-> << <<0, 1>>, <<1, 2>> >>]}
MainFiles  == {[nodes |-> 2, edges |-> << <<0, 1>>, <<1, 1>> >>, weights |-> <<1, MAIN_INFINITY>>],
               [nodes |-> 2, edges |-> <<>>, weights |-> <<>>]}

\* Small grids with all costs, and a larger one that leaves states unreached.
Grid(n) == {e \in SUBSET (0 .. n * n - 1) :
              \E x, y \in e : e = {x, y} /\ (y = x + n \/ (y = x + 1 /\ y % n # 0))}
DMaps == {[base |-> 2, start |-> 0, goal |-> g, cost |-> c] : g \in {1, 3}, c \in [Grid(2) -> {1, 5}]}
         \cup {[base |-> 3, start |-> s, goal |-> 0, cost |-> [e \in Grid(3) |-> 1]] : s \in {1, 2}}

Ldsp == INSTANCE LDSP WITH
          Vertices <- FourVertices, Infinity <- LdspInfinity, Graphs <- {LdspGraph},
          Weights <- {1, 2, LdspInfinity}, edge <- ldspEdge

Lsp == INSTANCE LSP WITH
         Vertices <- FourVertices, Infinity <- LspInfinity, Graphs <- LspGraphs

De == INSTANCE CDAPSP_DE WITH
        Vertices <- FourVertices, Infinity <- DeInfinity, Graphs <- DeGraphs,
        Weights <- {1, 2, DeInfinity}

King == INSTANCE CDAPSP WITH
          Vertices <- FourVertices, Infinity <- KingInfinity, Graphs <- KingGraphs,
          Blockers <- {{1}, FourVertices}, Weights <- {2, 4}, MaxUpdates <- KingUpdates,
          mGraph <- kGraph, mEdgeCost <- kEdgeCost, mDist <- kDist, edge <- kEdge, todo <- kTodo,
          pc <- kPc, aux_updates <- aux_kupdates

Main == INSTANCE Experiments WITH
          mGraph <- sGraph, RandomGraphs <- MainGraphs, Files <- MainFiles,
          Bottlenecks <- {<<9, TRUE>>, <<6, FALSE>>}, Clusters <- {<<4, 2>>, <<2, 3>>, <<2, 0>>}, Ranges <- {<<1, 2>>}

DStar == INSTANCE LDStar WITH
           Maps <- DMaps, Costs <- {1, 5}, Moves <- {1, 2}, mH <- mHOf, pc <- dPc

ASSUME LdspAssumption == Ldsp!ConstantsAssumption
ASSUME LspAssumption  == Lsp!ConstantsAssumption
ASSUME DeAssumption   == De!ConstantsAssumption
ASSUME KingAssumption == King!KingAssumption
ASSUME DStarAssumption == DStar!DStarAssumption
ASSUME MainAssumption == Main!ExperimentsAssumption

NoKing ==
  /\ kGraph = {} /\ mDValue = 0 /\ mCValue = 0 /\ mBlockList = {} /\ kEdgeCost = <<>> /\ mREdgeCost = <<>>
  /\ mInV = <<>> /\ mOutV = <<>> /\ mList = <<>> /\ mDistD = <<>> /\ kDist = <<>> /\ mBlockEdgeCost = <<>>
  /\ kTodo = <<>> /\ kEdge = <<>> /\ kPc = "idle" /\ mDelta = 0 /\ mInMod = {} /\ mOutMod = {} /\ aux_kupdates = 0

NoDStar ==
  /\ mBase = 0 /\ mCost = <<>> /\ mTag = <<>> /\ mBackPtr = <<>> /\ mHOf = <<>> /\ mK = <<>>
  /\ mStart = 0 /\ mGoal = 0 /\ mCurrent = 0 /\ mFinished = FALSE /\ mNodes_processed_since_last = 0
  /\ dPc = "idle" /\ left = 0 /\ aux_changes = 0 /\ aux_returned = FALSE /\ aux_astray = FALSE

\* The graphs matter to their own program only.
Init ==
  /\ program \in Programs
  /\ \/ program = "CDAPSP" /\ King!Init
     \/ program # "CDAPSP" /\ NoKing
  /\ \/ program = "LDStar" /\ DStar!Init
     \/ program # "LDStar" /\ NoDStar
  /\ Main!Init
  /\ De!Init /\ (program # "CDAPSP_DE" => mGraph.mDirected)
  /\ Ldsp!Init /\ (program # "LDSP" => todo = <<>>)
  /\ Lsp!Init /\ (program # "LSP" => DOMAIN aux_graph = {})

Next ==
  /\ \/ program = "LDSP" /\ Ldsp!Next /\ UNCHANGED <<lspVars, deVars, kingVars, dstarVars, mainVars>>
     \/ program = "LSP" /\ Lsp!Compute /\ UNCHANGED <<ldspVars, deVars, kingVars, dstarVars, mainVars>>
     \/ program = "CDAPSP_DE" /\ De!Next /\ UNCHANGED <<ldspVars, lspVars, kingVars, dstarVars, mainVars>>
     \/ program = "CDAPSP" /\ King!Next /\ UNCHANGED <<ldspVars, lspVars, deVars, dstarVars, mainVars>>
     \/ program = "main" /\ Main!Next /\ UNCHANGED <<ldspVars, lspVars, deVars, kingVars, dstarVars>>
     \/ program = "LDStar" /\ DStar!Next /\ UNCHANGED <<ldspVars, lspVars, deVars, kingVars, mainVars>>
  /\ UNCHANGED program

\* A step of a call that has been made. CDAPSP is not among them: its calls
\* are a few steps in a row, without loops.
Run ==
  /\ \/ program = "LDSP" /\ Ldsp!Run /\ UNCHANGED <<lspVars, deVars, kingVars, dstarVars, mainVars>>
     \/ program = "LSP" /\ Lsp!Compute /\ UNCHANGED <<ldspVars, deVars, kingVars, dstarVars, mainVars>>
     \/ program = "CDAPSP_DE" /\ De!Run /\ UNCHANGED <<ldspVars, lspVars, kingVars, dstarVars, mainVars>>
     \/ program = "main" /\ Main!Run /\ UNCHANGED <<ldspVars, lspVars, deVars, kingVars, dstarVars>>
     \/ program = "LDStar" /\ DStar!Run /\ UNCHANGED <<ldspVars, lspVars, deVars, kingVars, mainVars>>
  /\ UNCHANGED program

vars == <<program, ldspVars, lspVars, deVars, kingVars, dstarVars, mainVars>>

KeepUpdate == /\ program = "main" /\ Main!KeepUpdate
              /\ UNCHANGED <<program, ldspVars, lspVars, deVars, kingVars, dstarVars>>

\* A call, once made, runs to its end; random numbers do not name loops only.
Spec == Init /\ [][Next]_vars /\ WF_vars(Run) /\ WF_vars(KeepUpdate)

\* Every variable has its type; no sum of weights wraps around.
TypesOK ==
  /\ program = "LDSP" => Ldsp!TypeOK
  /\ program = "LSP" => Lsp!TypeOK
  /\ program = "CDAPSP_DE" => De!TypeOK
  /\ program = "CDAPSP" => King!KingTypeOK
  /\ program = "LDStar" => DStar!DStarTypeOK
  /\ program = "main" => Main!MainTypeOK

\* LDSP answers with distances and witnesses, and CDAPSP with distances; an
\* agent that D* leads is about to step on a shortest path, as long as no
\* state took one that was never reached for its successor.
ShortestPathsFound ==
  /\ program = "LDSP" => Ldsp!ShortestPathsFound
  /\ program = "CDAPSP" => King!DistancesAreExact
  /\ program = "LDStar" => DStar!PlanIsShortest

\* What each algorithm keeps between its steps is what it needs for the next
\* one: lists of paths, settled pairs, trees of shortest paths, witnesses, an
\* open list.
StructuresAreKept ==
  /\ program = "LDSP" => Ldsp!PathsAreKept
  /\ program = "LSP" => Lsp!PairsAreSettled
  /\ program = "CDAPSP_DE" => De!TreesAreKept
  /\ program = "CDAPSP" => King!PairsAreWitnessed
  /\ program = "LDStar" => DStar!OpenListIsSound

\* All algorithms are run from the same weights by the same updates, and the
\* results say so.
ExperimentsAreComparable == program = "main" => Main!ExperimentsAreComparable

\* CDAPSP_DE_DeleteEdge "Deletes inEdgeUV from the graph" (CDAPSP_DE.html). It does not,
\* and TLC finds this violated.
DeletedEdgesUnused == program = "CDAPSP_DE" => De!DeletedEdgesUnused

\* Every call of LDSP, LSP, CDAPSP_DE and D* returns, and so does every command of
\* main.
CallsEnd == []<>(CASE program = "LDSP" -> Ldsp!Idle
                   [] program = "LSP" -> Lsp!Done
                   [] program = "CDAPSP_DE" -> De!Idle
                   [] program = "LDStar" -> DStar!Idle
                   [] program = "main" -> Main!AtRest
                   [] OTHER -> TRUE)
=============================================================================
