---------------------------- MODULE MCTraceTrees ----------------------------
(* Small instances for TLC of four programs of the trace analyzer: Lossy    *)
(* Counting, Space Saving with buckets and with a lazy queue, and the full  *)
(* tree from bursts.  The initial state says which of them runs.            *)
EXTENDS LcHcct, TLC, SequencesExt

CONSTANTS Null, Counters, MaxEvents, BurstSettings, MaxBurstEvents, MaxTicks, Tau, RootCounters,
          LazyWeight

VARIABLES program,
          lssCounter, lssMonitored, queue, queueFull, sentinel, min, minIdx, secondMinIdx,
          lssTop, lssBursting, report, lssFreq, lssWeight,
          bssHcct, bssBucket, bfirst, numc, numb, bssTop, bssFreq, bssEvents,
          adaptive, sampling_rate, burst_duration, bursting_on, shadow_stack, burstTop,
          burstCounter, tick_counter, num_bursts, num_rtn_enter, num_rtn_exit,
          aux_events, aux_sampled, aux_walks, aux_age

lssVars   == <<lssCounter, lssMonitored, queue, queueFull, sentinel, min, minIdx,
               secondMinIdx, lssTop, lssBursting, report, lssFreq, lssWeight>>
bssVars   == <<bssHcct, bssBucket, bfirst, numc, numb, bssTop, bssFreq, bssEvents>>
burstVars == <<adaptive, sampling_rate, burst_duration, bursting_on, shadow_stack, burstTop,
               burstCounter, tick_counter, num_bursts, num_rtn_enter, num_rtn_exit,
               aux_events, aux_sampled, aux_walks, aux_age>>

\* One bucket more than counters: the old one of a node is freed last.
Bss == INSTANCE BssHcct WITH
         Buckets <- 1 .. Counters + 1, Epsilon <- Counters, hcct <- bssHcct,
         bucket <- bssBucket, top <- bssTop, aux_freq <- bssFreq, aux_events <- bssEvents

Lss == INSTANCE LazyHcct WITH
         Epsilon <- Counters, MaxWeight <- LazyWeight, counter <- lssCounter,
         monitored <- lssMonitored, top <- lssTop, bursting <- lssBursting,
         aux_freq <- lssFreq, aux_weight <- lssWeight

Burst == INSTANCE TraceBurst WITH
           Settings <- BurstSettings, MaxEvents <- MaxBurstEvents,
           top <- burstTop, counter <- burstCounter

\* Long and short distances between sampling points, and none between bursts.
MCSettings == {<<4, 2>>, <<2, 2>>, <<2, 1>>}

ASSUME BssAssumption   == Bss!ConstantsAssumption
ASSUME LssAssumption   == Lss!ConstantsAssumption
ASSUME BurstAssumption == Burst!ConstantsAssumption

\* The builds and settings matter to their own program only.
TraceTreesInit ==
  /\ program \in {"lc-hcct", "bss-hcct", "lss-hcct", "cct-burst"}
  /\ Init /\ Bss!Init /\ Lss!Init /\ Burst!Init
  /\ program # "lc-hcct" => bursting
  /\ program # "lss-hcct" => lssBursting
  /\ program # "cct-burst" =>
       adaptive /\ <<sampling_rate, burst_duration>> = CHOOSE s \in BurstSettings : TRUE

TraceTreesNext ==
  /\ \/ program = "lc-hcct" /\ Next /\ UNCHANGED <<bssVars, lssVars, burstVars>>
     \/ program = "bss-hcct" /\ Bss!Next /\ UNCHANGED <<vars, lssVars, burstVars>>
     \/ program = "lss-hcct" /\ Lss!Next /\ UNCHANGED <<vars, bssVars, burstVars>>
     \/ program = "cct-burst" /\ Burst!Next /\ UNCHANGED <<vars, bssVars, lssVars>>
  /\ UNCHANGED program

TraceTrees == TraceTreesInit /\ [][TraceTreesNext]_<<program, vars, bssVars, lssVars, burstVars>>

\* No action distinguishes one call from another.
CallSymmetry == Permutations(Calls)

-----------------------------------------------------------------------------
(* lc_prune as it is written: along the list, with the recursion of prune. *)

IsLeaf(x, T) == ~ \E y \in T : y # x /\ LeadsTo(x, y)

\* prune(x) of the tree T: x and, from its parent upwards, the nodes that are
\* not monitored and become leaves.
PruneFrom(x, T, M) ==
  LET Dead(i) == \A j \in i .. Len(x) - 1 :
                    /\ Prefix(x, j) \notin M
                    /\ IsLeaf(Prefix(x, j), T \ {Prefix(x, k) : k \in j + 1 .. Len(x)})
  IN  IF x = Root THEN T
      ELSE T \ {Prefix(x, i) : i \in {j \in 1 .. Len(x) : Dead(j)}}

\* One round of the loop of lc_prune: s is <<tree, monitored nodes>>.
Round(s, x, spared) ==
  IF x = spared \/ counter[x] + delta[x] > bucket + 1 THEN s
  ELSE LET M == s[2] \ {x}
       IN  <<IF IsLeaf(x, s[1]) THEN PruneFrom(x, s[1], M) ELSE s[1], M>>

InOrder(cur) ==
  LET spared == IF list # <<>> /\ list[1] = cur THEN cur ELSE <<cur>>
  IN  FoldLeft(LAMBDA s, x : Round(s, x, spared), <<Nodes, monitored>>, list)

\* Whatever the order of the list, lc_prune leaves what Sparse and Needed say:
\* a node visited before its children goes when the last of them does.
PruningInAnyOrder ==
  list # <<>> /\ ~written =>
    \A cur \in Nodes :
      LET S == Sparse(counter, delta, list, cur)
      IN  InOrder(cur) = <<Needed(monitored \ S) \cap Nodes, monitored \ S>>

-----------------------------------------------------------------------------
\* Every variable of each program has its type.
TypesOK ==
  /\ program = "lc-hcct" => TypeOK
  /\ program = "bss-hcct" => Bss!TypeOK
  /\ program = "lss-hcct" => Lss!TypeOK
  /\ program = "cct-burst" => Burst!TypeOK

\* lc_prune leaves the tree spanned by the list, in whichever order it goes
\* through it.
TreeIsSpanned == program = "lc-hcct" => ListSpansTree /\ PruningInAnyOrder

\* The buckets of bss-hcct.c and the queue of lss-hcct.c hold the monitored nodes,
\* and the others are there only as their ancestors.
MonitoredHoldTree ==
  /\ program = "bss-hcct" => Bss!ListsHoldMonitored /\ Bss!TreeIsPruned
  /\ program = "lss-hcct" =>
       Lss!QueueHoldsMonitored /\ Lss!TreeIsPruned /\ Lss!CountersAreBounded

\* What metrics.c reports of a tree and of the exact one agrees.
MetricsAgree == program = "lss-hcct" => Lss!MetricsAgree /\ Lss!PruningComposes
ImplementsSpaceSaving == Bss!ImplementsSpaceSaving

\* A burst is a sample of the trace, at the position that the calls have.
BurstsAreSamples ==
  program = "cct-burst" => Burst!BurstFollowsCalls /\ Burst!BurstsAreSamples
=============================================================================
