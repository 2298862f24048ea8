----------------------------- MODULE TraceMetrics -----------------------------
(***************************************************************************)
(* How the trace analyzer compares a hot calling context tree with the     *)
(* exact one: metrics.c, and cctPrune of cct.c.  A tree is the function    *)
(* from its nodes, each named by its calling context, to their counters.   *)
(* The recursions of the code are recursive functions over the nodes;      *)
(* ratios are left to the reader of the numbers.  Counters do not reach    *)
(* 2^32 here, where tau times a counter would wrap around.                 *)
(***************************************************************************)
EXTENDS CallingContexts, FiniteSetsExt

\* The children of x.
Below(x, t) == {Append(x, c) : c \in Calls} \cap DOMAIN t

\* The sum of Own over the tree, from the leaves up to the root.
OverTree(Own(_), t) ==
  LET total[x \in DOMAIN t] == Own(x) + MapThenSumSet(LAMBDA y : total[y], Below(x, t))
  IN  total[Root]

nodes(t)                 == OverTree(LAMBDA x : 1, t)
sum(t)                   == OverTree(LAMBDA x : t[x], t)
hotNodes(t, threshold, M) ==
  OverTree(LAMBDA x : IF x \in M /\ t[x] >= threshold THEN 1 ELSE 0, t)
larger_than_hottest(t, tau, h2) == OverTree(LAMBDA x : IF t[x] * tau >= h2 THEN 1 ELSE 0, t)

hottest(t) ==
  LET most[x \in DOMAIN t] == Max({t[x]} \cup {most[y] : y \in Below(x, t)})
  IN  most[Root]

\* Mutant of uncoveredFrequency: below a context that is missing nothing is counted.
uncoveredTopmost(t, c) ==
  LET U == {x \in DOMAIN c \ DOMAIN t : Caller(x) \in DOMAIN t}
  IN  [sum |-> MapThenSumSet(LAMBDA x : c[x], U), max |-> Max({0} \cup {c[x] : x \in U}),
       uncovered |-> Cardinality(U)]

\* The contexts of c without a node in t: their number, and the sum and the largest
\* of their counters.
uncoveredFrequency(t, c) ==
  LET u[x \in DOMAIN c] ==
        LET own  == IF x \in DOMAIN t THEN 0 ELSE c[x]
            subs == Below(x, c)
        IN  [sum |-> own + MapThenSumSet(LAMBDA y : u[y].sum, subs),
             max |-> Max({own} \cup {u[y].max : y \in subs}),
             uncovered |-> (IF x \in DOMAIN t THEN 0 ELSE 1)
                             + MapThenSumSet(LAMBDA y : u[y].uncovered, subs)]
  IN  u[Root]

-----------------------------------------------------------------------------
(* exactCounters, for a tree t whose monitored nodes are M; its contexts are *)
(* nodes of c, or else it panics.                                            *)

Exact(t, c) == [x \in DOMAIN t |-> c[x]]

FalsePositives(t, c, M, stream, threshold) ==
  OverTree(LAMBDA x : IF x \in M /\ c[x] < threshold /\ t[x] >= stream THEN 1 ELSE 0, t)

\* The errors of the counters of hot contexts in percent, rounded down; a counter
\* of 0 has an infinite one, which is left out.
Errors(t, c, M, threshold) ==
  {(100 * (IF c[x] > t[x] THEN c[x] - t[x] ELSE t[x] - c[x])) \div c[x] :
     x \in {y \in M \cap DOMAIN t : c[y] >= threshold /\ c[y] > 0}}

-----------------------------------------------------------------------------
\* The tree t without the subtrees that have no node for which Keep holds; the root
\* is never removed.
PrunedTo(Keep(_), t) ==
  LET kept[x \in DOMAIN t] == Keep(x) \/ \E y \in Below(x, t) : kept[y]
  IN  [x \in {y \in DOMAIN t : y = Root \/ kept[y]} |-> t[x]]

\* cctPrune
cctPrune(t, threshold) == PrunedTo(LAMBDA x : t[x] >= threshold, t)

\* Mutant of MetricsOfStream: false positives are counted once the counters are exact.
MetricsOfStreamLate(t, pruned, c, M, stream, threshold, tau) ==
  LET exact == Exact(pruned, c)
      hot   == hotNodes(exact, threshold, M)
      false == FalsePositives(exact, c, M, stream, threshold)
  IN  [mcct |-> nodes(t), hcct |-> nodes(pruned), hot |-> hot, false |-> false,
       cold |-> nodes(pruned) - hot - false, weight |-> sum(exact),
       missed |-> uncoveredFrequency(exact, c), h1 |-> hottest(exact), h2 |-> hottest(c),
       covered |-> larger_than_hottest(exact, tau, hottest(c)),
       coverable |-> larger_than_hottest(c, tau, hottest(c)),
       maxError |-> Max({0} \cup Errors(pruned, c, M, threshold))]

\* metrics_write_output, up to the exact tree: t is the tree, pruned the tree after
\* finalPrune, c the exact tree.
MetricsOfStream(t, pruned, c, M, stream, threshold, tau) ==
  LET exact == Exact(pruned, c)
      hot   == hotNodes(exact, threshold, M)
      false == FalsePositives(pruned, c, M, stream, threshold)
  IN  [mcct |-> nodes(t), hcct |-> nodes(pruned), hot |-> hot, false |-> false,
       cold |-> nodes(pruned) - hot - false, weight |-> sum(exact),
       missed |-> uncoveredFrequency(exact, c), h1 |-> hottest(exact), h2 |-> hottest(c),
       covered |-> larger_than_hottest(exact, tau, hottest(c)),
       coverable |-> larger_than_hottest(c, tau, hottest(c)),
       maxError |-> Max({0} \cup Errors(pruned, c, M, threshold))]

\* ... and from there on: how many nodes the exact tree keeps, how many of them are
\* hot, and the sum of their counters.
MetricsOfExact(c, threshold) ==
  LET e == cctPrune(c, threshold)
  IN  [nodes |-> nodes(e), hot |-> hotNodes(e, threshold, DOMAIN e), weight |-> sum(e)]

\* dump_hot_per_phi: the tree is pruned for a growing threshold after the other, and
\* measured each time.
HotPerPhi(c, low, medium, high) ==
  LET c1 == cctPrune(c, low)
      c2 == cctPrune(c1, medium)
      c3 == cctPrune(c2, high)
  IN  <<nodes(c1), hotNodes(c1, low, DOMAIN c1), nodes(c2), hotNodes(c2, medium, DOMAIN c2),
        nodes(c3), hotNodes(c3, high, DOMAIN c3)>>
=============================================================================
