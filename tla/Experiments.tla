------------------------------ MODULE Experiments ------------------------------
(* main.c of src/dsp: a session in which a user makes a graph with weights,  *)
(* then a sequence of updates of its edges, and lets six algorithms run on   *)
(* them. What an algorithm computes is left out; what it has been told of    *)
(* the weights is kept. A step of making or of running is one turn of the    *)
(* loop; an exception may end both after any turn. An edge is a pointer into *)
(* the graph with its number. A random number is any in its range.           *)
EXTENDS Naturals, Sequences, FiniteSets
LOCAL INSTANCE SequencesExt
LOCAL INSTANCE FiniteSetsExt

CONSTANTS MAIN_INFINITY,
          RandomGraphs,  \* graphs without loops that LGraphGen_RandomNM may make
          Files,         \* graphs in files, with their weights
          Bottlenecks,   \* <<nodes, whether all edges are drawn>> that are asked for
          Clusters,      \* <<nodes, clusters>> that are asked for
          Ranges,        \* <<minimum, maximum>> that are entered for weights
          Lengths,       \* of sequences that are asked for
          MaxCommands,   \* bound: commands in a session, besides its setup
          MaxMaking,     \* bound: commands of which one may make a sequence
          Verbose,       \* the verbose mode is used
          Deletions      \* CDAPSP is run on sequences that delete edges

VARIABLES session,       \* "main", "making", "running", "crashed" or "hung"
          mGraph, mEdgeWeights, mMinGraphW, mMaxGraphW,
          mSequence,     \* of edges and their new weights; <<>>: NULL
          mMinSeqW, mMaxSeqW, mIncCount, mDecCount,
          setup,         \* mCheckerStatus, mVerboseStatus and mAdjustSeq
          making,        \* the sequence that is made
          running,       \* the algorithm that runs
          logged,        \* the last line of the files of results
          aux_weights,   \* the weights that the graph was made with
          aux_commands

graphVars    == <<mGraph, mEdgeWeights, mMinGraphW, mMaxGraphW, aux_weights>>
sequenceVars == <<mSequence, mMinSeqW, mMaxSeqW, mIncCount, mDecCount>>
mainVars     == <<session, graphVars, sequenceVars, setup, making, running, logged, aux_commands>>

Loops(edges)   == {i \in DOMAIN edges : edges[i][1] = edges[i][2]}
Shape(g)       == [nodes |-> g.nodes, edges |-> g.edges]

ExperimentsAssumption ==
  /\ MAIN_INFINITY \in Nat /\ Lengths \subseteq Nat \ {0} /\ MaxCommands \in Nat /\ MaxMaking \in Nat
  /\ \A g \in RandomGraphs : Loops(g.edges) = {}
  /\ \A f \in Files : Len(f.weights) = Len(f.edges)
  /\ \A r \in Ranges : r[1] \in Nat /\ r[2] \in r[1] .. MAIN_INFINITY \div 3
  /\ Verbose \in BOOLEAN /\ Deletions \in BOOLEAN

NoGraph   == [id |-> 0, nodes |-> 0, edges |-> <<>>]   \* NULL
NotMaking == [kind |-> "none", left |-> 0, min |-> 0, max |-> 0, copy |-> <<>>]
NoLine    == [mIncCount |-> 0, mDecCount |-> 0, inc |-> 0, dec |-> 0]
NotRunning == [algorithm |-> "none", i |-> 0, told |-> <<>>, copy |-> <<>>, inc |-> 0, dec |-> 0]

Algorithms == {"CAPSP_C", "LDSP", "CDAPSP_DE", "CDAPSP", "CDAPSP_D", "LSP"}

\* _Init, and sData as the C language initialises it.
Init ==
  /\ session = "main"
  /\ mGraph = NoGraph /\ mEdgeWeights = <<>> /\ aux_weights = <<>>
  /\ mSequence = <<>>
  /\ mMinGraphW = 0 /\ mMaxGraphW = 0 /\ mMinSeqW = 0 /\ mMaxSeqW = 0
  /\ mIncCount = 0 /\ mDecCount = 0
  /\ setup = [checker |-> FALSE, verbose |-> FALSE, adjust |-> FALSE]
  /\ making = NotMaking /\ running = NotRunning
  /\ logged = NoLine /\ aux_commands = 0

\* The user enters a command of a menu.
Command ==
  /\ session = "main" /\ aux_commands < MaxCommands
  /\ aux_commands' = aux_commands + 1

MakeCommand == Command /\ aux_commands < MaxMaking

----------------------------------------------------------------------------
\* _SetupSwitch. Bound: before the other commands, which do not change setup.
Setup ==
  /\ session = "main" /\ aux_commands = 0
  /\ \/ setup' = [setup EXCEPT !.checker = ~@]
     \/ Verbose /\ setup' = [setup EXCEPT !.verbose = ~@]
     \/ setup' = [setup EXCEPT !.adjust = ~@]
  /\ UNCHANGED <<session, graphVars, sequenceVars, making, running, logged, aux_commands>>

NewGraph(shape) == [id |-> aux_commands + 1, nodes |-> shape.nodes, edges |-> shape.edges]

GraphMade(shape, weights) ==
  /\ mGraph' = NewGraph(shape)
  /\ mEdgeWeights' = weights /\ aux_weights' = weights

\* CatchAny: no graph and no weights; mMinGraphW and mMaxGraphW stay.
GraphFails ==
  /\ mGraph' = NoGraph /\ mEdgeWeights' = <<>> /\ aux_weights' = <<>>
  /\ UNCHANGED <<mMinGraphW, mMaxGraphW>>

\* _AskRandomGraph and _MakeRandomGraph. The verbose mode dumps the graph that
\* is not there.
MakeRandomGraph(shape, range) ==
  /\ Command
  /\ mSequence' = <<>>
  /\ \/ /\ \E weights \in [DOMAIN shape.edges -> range[1] .. range[2]] : GraphMade(shape, weights)
        /\ mMinGraphW' = range[1] /\ mMaxGraphW' = range[2]
        /\ session' = "main"
     \/ GraphFails /\ session' = IF setup.verbose THEN "crashed" ELSE "main"
  /\ UNCHANGED <<mMinSeqW, mMaxSeqW, mIncCount, mDecCount, setup, making, running, logged>>

\* _FindMinMaxGraphWeight
LeastWeight(weights)    == Min(ToSet(weights) \cup {MAIN_INFINITY})
GreatestWeight(weights) == Max(ToSet(weights) \cup {0})

\* Mutant: a graph is loaded and the sequence is kept.
LoadGraphOnly(file, format) ==
  /\ Command
  /\ GraphMade(Shape(file), file.weights)
  /\ mMinGraphW' = LeastWeight(file.weights) /\ mMaxGraphW' = GreatestWeight(file.weights)
  /\ UNCHANGED <<session, sequenceVars, setup, making, running, logged>>

\* _AskXMLGraph and _LoadXMLGraph, _AskDIMACSGraph and _LoadDIMACSGraph.
LoadGraph(file, format) ==
  /\ Command
  /\ mSequence' = <<>>
  /\ \/ /\ GraphMade(Shape(file), file.weights)
        /\ mMinGraphW' = LeastWeight(file.weights) /\ mMaxGraphW' = GreatestWeight(file.weights)
        /\ session' = "main"
     \/ GraphFails /\ session' = IF setup.verbose /\ format = "DIMACS" THEN "crashed" ELSE "main"
  /\ UNCHANGED <<mMinSeqW, mMaxSeqW, mIncCount, mDecCount, setup, making, running, logged>>

----------------------------------------------------------------------------
\* The start of a sequence: the old one is deleted.
Start(kind, length, min, max) ==
  /\ making' = [kind |-> kind, left |-> length, min |-> min, max |-> max, copy |-> mEdgeWeights]
  /\ session' = "making"

\* _AskRandomSequence. With mAdjustSeq it asks no one, and asks again for ever
\* when the maximum of the graph is less than its minimum.
AskRandomSequence(length, range) ==
  /\ MakeCommand /\ mGraph # NoGraph
  /\ LET limits == IF setup.adjust THEN <<mMinGraphW, mMaxGraphW>> ELSE range
     IN  IF limits[1] <= limits[2]
           THEN mSequence' = <<>> /\ Start("random", length, limits[1], limits[2])
           ELSE setup.adjust /\ session' = "hung" /\ UNCHANGED <<mSequence, making>>
  /\ UNCHANGED <<graphVars, mMinSeqW, mMaxSeqW, mIncCount, mDecCount, setup, running, logged>>

\* _AskInsDelSequence
AskInsDelSequence(length) ==
  /\ MakeCommand /\ mGraph # NoGraph
  /\ mSequence' = <<>> /\ Start("insdel", length, 1, 1)
  /\ UNCHANGED <<graphVars, mMinSeqW, mMaxSeqW, mIncCount, mDecCount, setup, running, logged>>

\* _MakeBottleNeckTestSet: the number of nodes is adjusted by
\* (inN-2) & (0xFFFC + 2). Two bipartite graphs, the ends of the bottleneck.
Adjusted(n) == LET more == (IF n < 6 THEN 6 ELSE n) - 2 IN more - (more % 2)
Bottleneck(n, dense) ==
  LET l == (n - 2) \div 4
      Row(k) == [i \in 1 .. l |-> k * l + i - 1]
      All(from, to) == IF dense THEN FlattenSeq([i \in 1 .. l |-> [j \in 1 .. l |-> <<from[i], to[j]>>]])
                       ELSE <<>>
  IN  [nodes |-> n,
       edges |-> All(Row(0), Row(1)) \o All(Row(2), Row(3))
                 \o [i \in 1 .. l |-> <<Row(1)[i], n - 2>>] \o [i \in 1 .. l |-> <<n - 1, Row(2)[i]>>]
                 \o << <<n - 2, n - 1>> >>]

\* LGraphGen_RandomClustered with a cycle in each cluster; here with at most
\* one edge between clusters, from the first node.
ClusterSize(n, c) == n \div Max({1, Min({n, c})})
Cycles(n, c) ==
  LET size == ClusterSize(n, c)
      next(i) == (i \div size) * size + ((i + 1) % size)
  IN  IF size = 1 THEN <<>> ELSE [i \in 1 .. n |-> <<i - 1, next(i - 1)>>]
Clustered(n, c) ==
  {[nodes |-> n, edges |-> Cycles(n, c) \o more] :
     more \in {<<>>} \cup {<< e >> : e \in {p \in {0} \X (0 .. n - 1) :
                              p[1] \div ClusterSize(n, c) # p[2] \div ClusterSize(n, c)}}}

\* The edges of which the sequence consists.
Between(edges, size) == {i \in DOMAIN edges : edges[i][1] \div size # edges[i][2] \div size}
Candidates ==
  CASE making.kind \in {"random", "insdel"} -> DOMAIN mGraph.edges
    [] making.kind = "bottleneck" -> {Len(mGraph.edges)}
    [] making.kind = "clustered"  -> Between(mGraph.edges, making.copy[1])

\* _AskBottleNeckTestSet and _MakeBottleNeckTestSet, up to the sequence. The
\* edges of a test set all have one weight here.
AskBottleNeckTestSet(n, dense, range, length) ==
  /\ MakeCommand
  /\ mSequence' = <<>>
  /\ LET shape == Bottleneck(Adjusted(n), dense)
     IN  \E w \in range[1] .. range[2] : GraphMade(shape, [i \in DOMAIN shape.edges |-> w])
  /\ making' = [kind |-> "bottleneck", left |-> length, min |-> range[1], max |-> range[2], copy |-> <<>>]
  /\ session' = "making"
  /\ UNCHANGED <<mMinGraphW, mMaxGraphW, mMinSeqW, mMaxSeqW, mIncCount, mDecCount, setup, running, logged>>

\* _AskClusteredTestSet and _MakeClusteredTestSet, up to the sequence: inN is
\* divided by inC, and a number of a node by the result.
AskClusteredTestSet(n, c, range, length) ==
  /\ MakeCommand
  /\ mSequence' = <<>>
  /\ \E shape \in Clustered(n, c) :
       /\ \E w \in range[1] .. range[2] : GraphMade(shape, [i \in DOMAIN shape.edges |-> w])
       /\ IF c = 0 \/ (c > n /\ shape.edges # <<>>)
            THEN session' = "crashed" /\ UNCHANGED making
            ELSE /\ making' = [kind |-> "clustered", left |-> length, min |-> range[1], max |-> range[2],
                               copy |-> <<Max({1, n \div c})>>]
                 /\ session' = "making"
  /\ UNCHANGED <<mMinGraphW, mMaxGraphW, mMinSeqW, mMaxSeqW, mIncCount, mDecCount, setup, running, logged>>

----------------------------------------------------------------------------
Clamped(w) == Max({making.min, Min({making.max, w})})

\* Weights of an update: of a random sequence up or down from the weight of
\* now, a deletion or an insertion, or any.
NewWeights(e) ==
  CASE making.kind = "random" -> (Clamped(mEdgeWeights[e]) .. making.max)
                                 \cup (making.min .. Clamped(mEdgeWeights[e]))
    [] making.kind = "insdel" -> {1, MAIN_INFINITY}
    [] OTHER -> making.min .. making.max

\* One turn of the loop. An update of a loop is not counted. Without an edge
\* the one before the first is taken.
MakeUpdate(e, w) ==
  /\ session = "making" /\ making.left > 0
  /\ e \in Candidates /\ w \in NewWeights(e)
  /\ mEdgeWeights' = IF making.kind = "random" THEN [mEdgeWeights EXCEPT ![e] = w] ELSE mEdgeWeights
  /\ IF e \in Loops(mGraph.edges) THEN UNCHANGED <<mSequence, making>>
     ELSE /\ mSequence' = Append(mSequence, [edge |-> <<mGraph.id, e>>, mWeight |-> w])
          /\ making' = [making EXCEPT !.left = @ - 1]
  /\ UNCHANGED <<session, mGraph, mMinGraphW, mMaxGraphW, aux_weights, mMinSeqW, mMaxSeqW, mIncCount,
                 mDecCount, setup, running, logged, aux_commands>>

KeepUpdate == \E e \in DOMAIN mGraph.edges \ Loops(mGraph.edges) :
                \E w \in NewWeights(e) : MakeUpdate(e, w)

NoCandidate ==
  /\ session = "making" /\ making.left > 0
  /\ Candidates = {}
  /\ session' = "crashed"
  /\ UNCHANGED <<graphVars, sequenceVars, setup, making, running, logged, aux_commands>>

\* Weights after some updates.
Replayed(weights, updates) ==
  FoldLeft(LAMBDA ws, u : [ws EXCEPT ![u.edge[2]] = u.mWeight], weights, updates)

\* _CountIncreaseDecrease
Counted(weights, updates) ==
  LET before(i) == Replayed(weights, SubSeq(updates, 1, i - 1))[updates[i].edge[2]]
  IN  /\ mIncCount' = Cardinality({i \in DOMAIN updates : updates[i].mWeight > before(i)})
      /\ mDecCount' = Cardinality({i \in DOMAIN updates : updates[i].mWeight < before(i)})

Restored == IF making.kind = "random" THEN making.copy ELSE mEdgeWeights

\* Mutant: the updates are counted before the weights are restored.
MakingEndsCounted ==
  /\ session = "making" /\ making.left = 0
  /\ mMinSeqW' = making.min /\ mMaxSeqW' = making.max
  /\ mEdgeWeights' = Restored
  /\ Counted(mEdgeWeights, mSequence)
  /\ making' = NotMaking /\ session' = "main"
  /\ UNCHANGED <<mGraph, mMinGraphW, mMaxGraphW, aux_weights, mSequence, setup, running, logged, aux_commands>>

\* The ends of _MakeRandomSequence and _MakeInsDelSequence, and of the makers
\* of test sets.
MakingEnds ==
  /\ session = "making" /\ making.left = 0
  /\ mMinSeqW' = making.min /\ mMaxSeqW' = making.max
  /\ IF making.kind \in {"bottleneck", "clustered"}
       THEN mMinGraphW' = making.min /\ mMaxGraphW' = making.max
       ELSE UNCHANGED <<mMinGraphW, mMaxGraphW>>
  /\ mEdgeWeights' = Restored
  /\ Counted(Restored, mSequence)
  /\ making' = NotMaking /\ session' = "main"
  /\ UNCHANGED <<mGraph, aux_weights, mSequence, setup, running, logged, aux_commands>>

\* CatchAny: no sequence; a test set loses its graph, but not the part of the
\* sequence that has been made.
MakingFails ==
  /\ session = "making"
  /\ IF making.kind \in {"bottleneck", "clustered"}
       THEN GraphFails /\ UNCHANGED mSequence
       ELSE /\ mSequence' = <<>> /\ mEdgeWeights' = Restored
            /\ UNCHANGED <<mGraph, mMinGraphW, mMaxGraphW, aux_weights>>
  /\ making' = NotMaking /\ session' = "main"
  /\ UNCHANGED <<mMinSeqW, mMaxSeqW, mIncCount, mDecCount, setup, running, logged, aux_commands>>

----------------------------------------------------------------------------
\* _RunCAPSP_C, _RunLDSP, _RunCDAPSP_DE, _RunCDAPSP, _RunCDAPSP_D, _RunLSP.
\* CDAPSP_New refuses a maximal weight of 0, which _RunCDAPSP does not notice.
RunAlgorithm(a) ==
  /\ Command
  /\ mGraph # NoGraph /\ mSequence # <<>>
  /\ a = "CDAPSP" /\ ~Deletions => \A i \in DOMAIN mSequence : mSequence[i].mWeight # MAIN_INFINITY
  /\ IF a = "CDAPSP" /\ mMaxSeqW < 1 THEN session' = "crashed" /\ UNCHANGED running
     ELSE /\ running' = [algorithm |-> a, i |-> 0, told |-> mEdgeWeights, copy |-> mEdgeWeights,
                         inc |-> 0, dec |-> 0]
          /\ session' = "running"
  /\ UNCHANGED <<graphVars, sequenceVars, setup, making, logged>>

\* What CDAPSP_UpdateEdge makes of a new weight: a deletion is followed by an
\* increase, which ends at the maximal weight.
Kings(old, w) ==
  IF w = MAIN_INFINITY THEN IF old \in {0, MAIN_INFINITY} THEN w ELSE mMaxSeqW
  ELSE IF w > old THEN Min({w, mMaxSeqW}) ELSE w

\* What _RunCDAPSP_D adds to the weight it has told: the difference of two
\* weights, modulo MAIN_INFINITY + 1.
ByDifference(told, old, w) ==
  IF w = MAIN_INFINITY THEN w ELSE (told + (MAIN_INFINITY + 1 - old) + w) % (MAIN_INFINITY + 1)

\* Mutant: LDSP is checked against the weights before the updates.
WeightsAfterUnchecked(e, w) ==
  IF running.algorithm = "LDSP" THEN mEdgeWeights ELSE [mEdgeWeights EXCEPT ![e] = w]

\* The weights that the next update leaves in mEdgeWeights. LDSP has weights
\* of its own: the checker alone needs those of the graph.
WeightsAfter(e, w) ==
  CASE running.algorithm = "LDSP"   -> IF setup.checker THEN [mEdgeWeights EXCEPT ![e] = w] ELSE mEdgeWeights
    [] running.algorithm = "CDAPSP" -> [mEdgeWeights EXCEPT ![e] = Kings(@, w)]
    [] OTHER -> [mEdgeWeights EXCEPT ![e] = w]

ToldAfter(e, w) ==
  CASE running.algorithm = "LDSP"     -> [running.told EXCEPT ![e] = w]
    [] running.algorithm = "CDAPSP_D" -> [running.told EXCEPT ![e] = ByDifference(@, mEdgeWeights[e], w)]
    [] OTHER -> WeightsAfter(e, w)

\* One turn of the loop over the updates.
Update ==
  /\ session = "running" /\ running.i < Len(mSequence)
  /\ LET u == mSequence[running.i + 1]
         e == u.edge[2]
     IN  /\ mEdgeWeights' = WeightsAfter(e, u.mWeight)
         /\ running' = [running EXCEPT
              !.i = @ + 1, !.told = ToldAfter(e, u.mWeight),
              !.inc = @ + (IF u.mWeight > running.told[e] THEN 1 ELSE 0),
              !.dec = @ + (IF u.mWeight < running.told[e] THEN 1 ELSE 0)]
  /\ UNCHANGED <<session, mGraph, mMinGraphW, mMaxGraphW, aux_weights, sequenceVars, setup, making,
                 logged, aux_commands>>

\* What the six functions that log results append to a file: _LogInputData.
Line == [mIncCount |-> mIncCount, mDecCount |-> mDecCount, inc |-> running.inc, dec |-> running.dec]

RunReturns ==
  /\ mEdgeWeights' = running.copy
  /\ running' = NotRunning /\ session' = "main"
  /\ UNCHANGED <<mGraph, mMinGraphW, mMaxGraphW, aux_weights, sequenceVars, setup, making, aux_commands>>

RunEnds ==
  /\ session = "running" /\ running.i = Len(mSequence)
  /\ logged' \in {Line, logged}   \* if the file cannot be opened, nothing is
  /\ RunReturns

\* Mutant: weights are restored only by a run that succeeds.
RunFailsUnrestored ==
  /\ session = "running"
  /\ running' = NotRunning /\ session' = "main"
  /\ UNCHANGED <<graphVars, sequenceVars, setup, making, logged, aux_commands>>

RunFails ==
  /\ session = "running"
  /\ UNCHANGED logged
  /\ RunReturns

\* 'q': _Cleanup.
Quit ==
  /\ session = "main" /\ aux_commands = MaxCommands
  /\ session' = "quit"
  /\ mGraph' = NoGraph /\ mEdgeWeights' = <<>> /\ aux_weights' = <<>> /\ mSequence' = <<>>
  /\ UNCHANGED <<mMinGraphW, mMaxGraphW, mMinSeqW, mMaxSeqW, mIncCount, mDecCount, setup, making,
                 running, logged, aux_commands>>

Run == \/ \E e \in DOMAIN mGraph.edges : \E w \in 0 .. MAIN_INFINITY : MakeUpdate(e, w)
       \/ NoCandidate \/ MakingEnds \/ MakingFails \/ Update \/ RunEnds \/ RunFails

Next ==
  \/ Setup \/ Run \/ Quit
  \/ \E shape \in RandomGraphs, range \in Ranges : MakeRandomGraph(shape, range)
  \/ \E file \in Files, format \in {"XML", "DIMACS"} : LoadGraph(file, format)
  \/ \E length \in Lengths :
       \/ AskInsDelSequence(length)
       \/ \E range \in Ranges : AskRandomSequence(length, range)
       \/ \E b \in Bottlenecks, range \in Ranges : AskBottleNeckTestSet(b[1], b[2], range, length)
       \/ \E c \in Clusters, range \in Ranges : AskClusteredTestSet(c[1], c[2], range, length)
  \/ \E a \in Algorithms : RunAlgorithm(a)
----------------------------------------------------------------------------
MainTypeOK ==
  /\ session \in {"main", "making", "running", "crashed", "hung", "quit"}
  /\ Len(mEdgeWeights) = Len(mGraph.edges) /\ Len(aux_weights) = Len(mGraph.edges)
  /\ \A i \in DOMAIN mEdgeWeights : mEdgeWeights[i] \in 0 .. MAIN_INFINITY
  /\ making.left \in Nat /\ (session = "making" => making.left + Len(mSequence) \in Lengths)
  /\ running.algorithm \in Algorithms \cup {"none"} /\ running.i \in 0 .. Len(mSequence)
  /\ mIncCount \in Nat /\ mDecCount \in Nat

\* A sequence speaks of edges of the graph of now only, and never of loops:
\* edges are pointers, and the graph may have been made anew.
SequenceFitsGraph ==
  mGraph # NoGraph => \A i \in DOMAIN mSequence :
    /\ mSequence[i].edge[1] = mGraph.id
    /\ mSequence[i].edge[2] \in DOMAIN mGraph.edges \ Loops(mGraph.edges)
    /\ session = "main" => mSequence[i].mWeight \in (mMinSeqW .. mMaxSeqW) \cup {MAIN_INFINITY}

\* Whatever is made or run, and wherever it fails, the graph has the weights
\* again that it was made with: all algorithms start from the same ones.
WeightsRestored == session = "main" => mEdgeWeights = aux_weights

\* After each update the algorithm knows the weights that the updates so far
\* give, and the checker compares with the distances for these.
AlgorithmsAreToldAll ==
  session = "running" =>
    LET now == Replayed(aux_weights, SubSeq(mSequence, 1, running.i))
    IN  running.told = now /\ (setup.checker => mEdgeWeights = now)

\* The numbers of increases and decreases that are logged are those that the
\* algorithm has met.
ResultsDescribeRuns ==
  logged.inc = logged.mIncCount /\ logged.dec = logged.mDecCount

\* The experiments compare what can be compared.
ExperimentsAreComparable ==
  SequenceFitsGraph /\ WeightsRestored /\ AlgorithmsAreToldAll /\ ResultsDescribeRuns

\* No command is being carried out: an update of loops only would take for ever.
AtRest == session \notin {"making", "running"} \/ Loops(mGraph.edges) = DOMAIN mGraph.edges
=============================================================================
