------------------------------ MODULE MCProfiler ------------------------------
(* Small instances for TLC of five parts of the profiler: the front ends of  *)
(* BurstCct and TimeProfiler, the pool, the threads of ProfiledProcess, and  *)
(* those of PthreadKeys; and of the tools that read what it dumps. The       *)
(* initial state says which of them runs.                                    *)
EXTENDS BurstCct, Pool, ProfiledProcess, PthreadKeys, TLC

CONSTANTS TimedThreads, TimeDepth, MaxTics, MaxTimedEvents,
          Images, NoSymbol, PhiInverse, Radix, Leftovers, ScoreUnit

VARIABLES part,
          globalTics, threadTics, timeShadow, bottom, time, aux_begin, aux_time, aux_events,
          mode, prunes, heuristic_threshold, dumped, dumpFile, phase, tree_1, tree_2, weights,
          matched_node, status, score, fifo, report

dumpVars == <<mode, prunes, heuristic_threshold, dumped, dumpFile, phase, tree_1, tree_2, weights,
              matched_node, status, score, fifo, report>>

timeVars == <<globalTics, threadTics, timeShadow, bottom, time, aux_begin, aux_time, aux_events>>

Timed == INSTANCE TimeProfiler WITH
           Threads <- TimedThreads, StackMaxDepth <- TimeDepth, NoCall <- Null,
           MaxEvents <- MaxTimedEvents, shadow <- timeShadow, counter <- time

Dumps == INSTANCE DumpedTrees WITH Symbols <- UNION Images

\* All trees with one or two calls and counters 1 and 2, and some in which a node has
\* three children.
Small == Dumps!Trees(2, {1, 2}) \cup Dumps!Trees(3, {1, 2})
Wide  ==
  {t \in Dumps!Trees(4, {1, 2, 3}) : t.parent = <<0, 1, 1, 1>> /\ t.counter = <<1, 1, 2, 3>>}
    \cup {t \in Dumps!Trees(5, {1, 2, 3}) : /\ t.parent = <<0, 1, 1, 1, 3>>
                                            /\ t.counter = <<1, 1, 1, 2, 3>>}

\* Of symbols of one image either may come first in the first tree.
Pairs ==
  {p \in (Small \X Small) \cup (Wide \X (Wide \cup Small)) :
     p[1].symbol[2] \in {CHOOSE f \in I : TRUE : I \in Images}}

Compare == INSTANCE TreeComparison WITH
             Symbols <- UNION Images, Analysed <- Small \cup Wide, Compared <- Pairs,
             queue <- fifo, file <- dumpFile

ASSUME DumpsAssumption == Compare!CompareAssumption
ASSUME TimeAssumption == Timed!ConstantsAssumption

ProfilerInit ==
  /\ part \in {"bursting", "time", "pool", "process", "keys", "dumps"}
  /\ Init /\ Timed!Init /\ KeysInit /\ PoolInit
  \* The id of the initial thread matters to its own part only.
  /\ ProcessInit
  /\ IF part = "dumps" THEN Compare!CompareInit
     ELSE /\ mode = << >> /\ prunes = << >> /\ heuristic_threshold = << >> /\ dumped = << >>
          /\ dumpFile = << >> /\ phase = << >> /\ tree_1 = << >> /\ tree_2 = << >> /\ weights = << >>
          /\ matched_node = << >> /\ status = << >> /\ score = << >> /\ fifo = << >> /\ report = << >>
  /\ part # "process" => tidOf[Main] = CHOOSE id \in Tids : TRUE

ProfilerNext ==
  /\ \/ part = "bursting" /\ Next /\ UNCHANGED <<timeVars, poolVars, processVars, keyVars, dumpVars>>
     \/ part = "time" /\ Timed!Next /\ UNCHANGED <<vars, poolVars, processVars, keyVars, dumpVars>>
     \/ part = "pool" /\ PoolNext /\ UNCHANGED <<vars, timeVars, processVars, keyVars, dumpVars>>
     \/ part = "process" /\ ProcessNext /\ UNCHANGED <<vars, timeVars, poolVars, keyVars, dumpVars>>
     \/ part = "keys" /\ KeysNext /\ UNCHANGED <<vars, timeVars, poolVars, processVars, dumpVars>>
     \/ part = "dumps" /\ Compare!CompareNext
        /\ UNCHANGED <<vars, timeVars, poolVars, processVars, keyVars>>
  /\ UNCHANGED part

ProfilerSpec ==
  ProfilerInit /\ [][ProfilerNext]_<<part, vars, timeVars, poolVars, processVars, keyVars, dumpVars>>

\* Every variable of each part has its type.
TypesOK ==
  /\ TypeOK /\ Timed!TypeOK /\ PoolTypeOK /\ ProcessTypeOK /\ KeysTypeOK
  /\ part = "dumps" => Compare!CompareTypeOK

\* The property of TimeProfiler.
TimeIsAccounted == Timed!TimeIsAccounted

\* The enumeration of comb.c, for up to four children.
EnumerationsAreComplete == \A n \in 1 .. 4 : \A k \in 1 .. n : Compare!EnumerationIsComplete(n, k)

\* What is dumped is loaded, pruned to what is hot, compared node by node without a
\* node being matched twice or forgotten, and counted the same from all sides. Of what
\* is damaged only a file cut inside its last number is taken for another tree, which
\* has the same nodes.
DumpsAreAnalysed == part = "dumps" => Compare!DumpsAreAnalysed /\ EnumerationsAreComplete

\* No action distinguishes one call from another.
CallSymmetry == Permutations(Calls)
=============================================================================
