---------------------------- MODULE TreeComparison ----------------------------
(***************************************************************************)
(* The tools over dumped trees: analysis.c, which looks at one tree, and   *)
(* compare.c, which looks for the nodes of a first tree in a second one    *)
(* (matchTrees, a breadth-first visit of the pairs that were matched) and  *)
(* then counts what was found (compare_metrics.c), with comb.c, which      *)
(* enumerates the ways to match the children of two nodes.                 *)
(*                                                                         *)
(* Scores are numbers of 1/(100 * ScoreUnit), so that the fractions of the *)
(* code are exact; doubles may break a tie in another way.                 *)
(***************************************************************************)
EXTENDS DumpedTrees

CONSTANTS Images,             \* the symbols of each image
          ScoreUnit,          \* divided by all counters and weights
          Analysed,           \* the trees that analysis gets
          Compared            \* the pairs of trees that compare gets

VARIABLES mode,               \* "analysis", or compare's "full" or "quick"
          prunes,             \* the (second) tree is of lss-hcct, not of cct
          heuristic_threshold,
          dumped, file,       \* the trees dumped, and the first one's file
          phase, tree_1, tree_2, weights,
          matched_node, status, score,  \* compare_info_s of the nodes of tree_1
          queue, report

CompareAssumption == DumpsAssumption /\ UNION Images = Symbols /\ ScoreUnit \in Nat \ {0}

compareVars == <<mode, prunes, heuristic_threshold, dumped, file, phase, tree_1, tree_2, weights,
                 matched_node, status, score, queue, report>>

-----------------------------------------------------------------------------
(* comb.c: arrays of k numbers below n, with an answer whether there is more. *)

\* Behind the last ascent the array decreases: it is turned around, and the number
\* before it replaced with the next larger one.  Without an ascent all is turned.
NextPermutation(ar, k) ==
  LET ascents == {i \in 1 .. k - 1 : ar[i] < ar[i + 1]}
      i1      == Max(ascents)
      i2      == Max({i \in i1 + 1 .. k : ar[i] > ar[i1]})
      swapped == [ar EXCEPT ![i1] = ar[i2], ![i2] = ar[i1]]
  IN  IF ascents = {} THEN [ar |-> Reverse(ar), more |-> FALSE]
      ELSE [ar   |-> SubSeq(swapped, 1, i1) \o Reverse(SubSeq(swapped, i1 + 1, k)),
            more |-> TRUE]

\* Mutant of NextCombination: the last number never becomes n - 1.
NextCombinationShort(ar, n, k) ==
  LET movable == {i \in 1 .. k : ar[i] < n - 1 - k + i - 1}
      at      == Max(movable)
  IN  IF movable = {} THEN [ar |-> [i \in 1 .. k |-> i - 1], more |-> FALSE]
      ELSE [ar |-> [i \in 1 .. k |-> IF i < at THEN ar[i] ELSE ar[at] + 1 + i - at], more |-> TRUE]

\* The last number that can is incremented, and those behind it follow it.
NextCombination(ar, n, k) ==
  LET movable == {i \in 1 .. k : ar[i] < n - 1 - k + i}
      at      == Max(movable)
  IN  IF movable = {} THEN [ar |-> [i \in 1 .. k |-> i - 1], more |-> FALSE]
      ELSE [ar |-> [i \in 1 .. k |-> IF i < at THEN ar[i] ELSE ar[at] + 1 + i - at], more |-> TRUE]

\* next_k_permutation; for k = 1 its caller takes next_combination itself.
NextKPermutation(ar, n, k) ==
  LET p == NextPermutation(ar, k)
  IN  IF k > 1 /\ p.more THEN p ELSE NextCombination(p.ar, n, k)

\* The arrays in the order in which matchTrees meets them.
KPermutations(n, k) ==
  LET from[ar \in [1 .. k -> 0 .. n - 1]] ==
        LET next == NextKPermutation(ar, n, k)
        IN  <<ar>> \o (IF next.more THEN from[next.ar] ELSE << >>)
  IN  from[[i \in 1 .. k |-> i - 1]]

-----------------------------------------------------------------------------
(* compare.c *)

AbsDiff(a, b) == IF a > b THEN a - b ELSE b - a

\* compareSym, for routine and call site: the same, another one of the image, or none.
CompareSym(a, b) ==
  CASE a = b                            -> 80
    [] a # b /\ \E I \in Images : {a, b} \subseteq I -> 20
    [] OTHER                            -> 0

\* compareNodesLocally: x is a node of the first tree and y of the second.  The
\* difference of the counters, y's adjusted to the length of x's stream, is truncated.
Score(x, y) ==
  LET c    == tree_1.counter[x]
      diff == AbsDiff(c * tree_2.events, tree_2.counter[y] * tree_1.events) \div tree_2.events
  IN  ScoreUnit * CompareSym(tree_1.symbol[x], tree_2.symbol[y])
        + (IF diff < c THEN (20 * ScoreUnit * (c - diff)) \div c ELSE 0)

\* The part of bestEffortMatching's scores that looks at the subtrees.
Heuristic(x, y) ==
  LET w    == weights[1][x]
      diff == AbsDiff(w, (tree_1.events * weights[2][y]) \div tree_2.events)
  IN  IF diff < w THEN (15 * ScoreUnit * (w - diff)) \div w ELSE 0

\* Of the ways to give k things different ones of n things, the first of those
\* with the largest sum of values, as pairs without those of value 0.
ExactPairs(k, n, value) ==
  LET all      == KPermutations(n, k)
      Total(p) == FoldLeft(LAMBDA s, i : s + value[<<i, p[i] + 1>>], 0, [i \in 1 .. k |-> i])
      totals   == [q \in DOMAIN all |-> Total(all[q])]
      best     == Max({totals[q] : q \in DOMAIN all})
      chosen   == all[Min({q \in DOMAIN all : totals[q] = best})]
  IN  SelectSeq([i \in 1 .. k |-> <<i, chosen[i] + 1>>], LAMBDA m : value[m] > 0)

\* Each of the k things in turn takes the first one of those with the largest
\* value that is left.
GreedyPairs(k, n, value) ==
  FoldLeft(LAMBDA pairs, i :
             LET free == {j \in 1 .. n : /\ value[<<i, j>>] > 0
                                         /\ \A q \in DOMAIN pairs : pairs[q][2] # j}
                 best == {j \in free : \A h \in free : value[<<i, j>>] >= value[<<i, h>>]}
             IN  IF free = {} THEN pairs ELSE Append(pairs, <<i, Min(best)>>),
           << >>, [i \in 1 .. k |-> i])

IsExact(F, G) == Len(F) <= heuristic_threshold /\ Len(G) <= heuristic_threshold

\* The children F of a node that are matched with the children G of its partner: the
\* shorter list is matched with the longer one.
MatchedChildren(F, G) ==
  LET direct == Len(F) <= Len(G)
      k == IF direct THEN Len(F) ELSE Len(G)
      n == IF direct THEN Len(G) ELSE Len(F)
      f(m) == IF direct THEN F[m[1]] ELSE F[m[2]]
      g(m) == IF direct THEN G[m[2]] ELSE G[m[1]]
      local == [m \in (1 .. k) \X (1 .. n) |-> Score(f(m), g(m))]
      value == [m \in (1 .. k) \X (1 .. n) |-> local[m] + Heuristic(f(m), g(m))]
      pairs == IF IsExact(F, G) THEN ExactPairs(k, n, local) ELSE GreedyPairs(k, n, value)
  IN  [q \in DOMAIN pairs |-> <<f(pairs[q]), g(pairs[q])>>]

-----------------------------------------------------------------------------
(* The programs, from the files to their reports.                            *)

Degrees(t) == {Len(t.children[x]) : x \in NodeIds(t)}

\* A file may be damaged, for analysis.  The threshold, in the code 9 or 12 whatever the
\* trees, is here the largest degree, so that all is exact, or less by one.
CompareInit ==
  /\ mode \in {"analysis", "full", "quick"} /\ prunes \in BOOLEAN
  /\ mode = "quick" => prunes
  /\ IF mode = "analysis"
     THEN /\ dumped \in {<<t>> : t \in Analysed}
          /\ file \in {Dump(dumped[1])} \cup Damaged(Dump(dumped[1]))
          /\ heuristic_threshold = 0
     ELSE /\ dumped \in Compared
          /\ file = Dump(dumped[1])
          /\ heuristic_threshold \in
               LET d == Max(Degrees(dumped[1]) \cup Degrees(dumped[2])) IN {d, d - 1}
  /\ phase = "start"
  /\ tree_1 = << >> /\ tree_2 = << >> /\ weights = << >>
  /\ matched_node = << >> /\ status = << >> /\ score = << >> /\ queue = << >> /\ report = << >>

PrunedIf(b, t) == IF b THEN pruneTreeAboveCounter(t, getMinThreshold(t)) ELSE t

inputs == <<mode, prunes, heuristic_threshold, dumped, file>>

\* analysis: the tree is loaded, and pruned if it is one of lss-hcct.
Analyse ==
  /\ mode = "analysis" /\ phase = "start"
  /\ LET loaded == loadTree(file)
         t      == PrunedIf(prunes, loaded.tree)
     IN  IF loaded.result = "broken"
         THEN phase' = "exit" /\ UNCHANGED <<tree_1, report>>
         ELSE /\ phase' = "done" /\ tree_1' = t
              /\ report' = [nodes |-> t.nodes, hot |-> hotNodes(t, getMinThreshold(t)),
                            sum |-> sumCounters(t), hottest |-> hottestCounter(t)]
  /\ UNCHANGED <<inputs, tree_2, weights, matched_node, status, score, queue>>

\* compare, up to the visit.  In quick mode both trees are pruned before the weights
\* are collected, in full mode the second one after that, if it is one of lss-hcct.
\* With a root that has no children the enumeration, if there is one, reads an array at -1.
LoadTrees ==
  /\ mode # "analysis" /\ phase = "start"
  /\ LET t1 == PrunedIf(mode = "quick", loadTree(file).tree)
         t2 == loadTree(Dump(dumped[2])).tree
         p2 == PrunedIf(mode = "quick" \/ prunes, t2)
     IN  /\ tree_1' = sortChildrenByDecreasingFrequency(t1)
         /\ tree_2' = sortChildrenByDecreasingFrequency(p2)
         /\ weights' = <<SubtreeWeights(t1), SubtreeWeights(IF mode = "quick" THEN p2 ELSE t2)>>
         /\ phase' = IF /\ t1.children[Root] = << >> \/ p2.children[Root] = << >>
                        /\ IsExact(t1.children[Root], p2.children[Root])
                     THEN "undefined" ELSE "matching"
         /\ matched_node' = [x \in NodeIds(t1) |-> IF x = Root THEN Root ELSE 0]
         /\ status' = [x \in NodeIds(t1) |-> IF x = Root THEN "matched" ELSE "not evaluated"]
         /\ score' = [x \in NodeIds(t1) |-> IF x = Root THEN 100 * ScoreUnit ELSE 0]
         /\ queue' = <<Root>>
  /\ UNCHANGED <<inputs, report>>

Subtree(t, x) == {y \in NodeIds(t) : x \in Ancestors(t, y)}

Inner(t, x) == t.children[x] # << >>

\* One round of the visit: the children of the next pair are matched.  What is below
\* a child without a partner, or with one that is a leaf, has none either; the
\* program ends if that was already said of a part of it.
MatchChildren ==
  /\ phase = "matching" /\ queue # << >>
  /\ LET F == tree_1.children[Head(queue)]
         G == tree_2.children[matched_node[Head(queue)]]
     IN  \E pairs \in {MatchedChildren(F, G)} :
       LET partner == [f \in {m[1] : m \in ToSet(pairs)} |->
                         (CHOOSE m \in ToSet(pairs) : m[1] = f)[2]]
           ended   == {f \in DOMAIN partner : ~Inner(tree_2, partner[f])}
           lost    == UNION ({Subtree(tree_1, f) : f \in ToSet(F) \ DOMAIN partner}
                               \cup {Subtree(tree_1, f) \ {f} : f \in ended})
           visited == IF IsExact(F, G) THEN [q \in DOMAIN pairs |-> pairs[q][1]]
                      ELSE SelectSeq(F, LAMBDA f : f \in DOMAIN partner)
       IN  /\ phase' = IF \A y \in lost : status[y] = "not evaluated" THEN phase ELSE "exit"
           /\ matched_node' = partner @@ matched_node
           /\ status' = [y \in DOMAIN status |->
                IF y \in DOMAIN partner THEN (IF IsExact(F, G) THEN "matched" ELSE "apx matched")
                ELSE IF y \in lost THEN "not matched" ELSE status[y]]
           /\ score' = [f \in DOMAIN partner |-> Score(f, partner[f])] @@ score
           /\ queue' = Tail(queue)
                         \o SelectSeq(visited, LAMBDA f : Inner(tree_1, f) /\ f \notin ended)
  /\ UNCHANGED <<inputs, tree_1, tree_2, weights, report>>

-----------------------------------------------------------------------------
(* compare_metrics.c *)

HasPartner(x) == matched_node[x] # 0

\* checkNodesForFlag
NodesWith(flags) == Cardinality({x \in NodeIds(tree_1) : status[x] \in flags})

\* computeUncoveredFrequencyAux
Uncovered ==
  LET U == {x \in NodeIds(tree_1) : ~HasPartner(x)}
  IN  [nodes |-> Cardinality(U), sum |-> SumOver(U, tree_1.counter),
       max   |-> Max({0} \cup {tree_1.counter[x] : x \in U})]

\* computeHotEdgeCoverageAux: how many counters reach the threshold, and of how many
\* of them the node is in the second tree.
HotEdgeCoverage(threshold) ==
  LET H == {x \in NodeIds(tree_1) : tree_1.counter[x] >= threshold}
  IN  [nodes |-> Cardinality(H), matched |-> Cardinality({x \in H : HasPartner(x)})]

\* computeCounterAccuracyAux: the nodes of which the error is taken.
AccurateNodes == {x \in NodeIds(tree_1) : tree_1.counter[x] > getMinThreshold(tree_1) /\ HasPartner(x)}

\* Mutant of NodePartitioning: the threshold of the second tree is taken for the first.
NodePartitioningByOther(t) ==
  LET cct(y)  == {x \in NodeIds(t) : matched_node[x] = y}
      hot     == {y \in NodeIds(tree_2) : \E x \in cct(y) : t.counter[x] > getMinThreshold(tree_2)}
      false   == {y \in NodeIds(tree_2) : cct(y) = {} /\ tree_2.counter[y] > getMinThreshold(tree_2)}
      missing == {x \in NodeIds(t) : t.counter[x] > getMinThreshold(t) /\ ~HasPartner(x)}
  IN  [hot |-> Cardinality(hot), false_positives |-> Cardinality(false),
       cold |-> Cardinality(NodeIds(tree_2) \ (hot \cup false)),
       false_negatives |-> Cardinality(missing)]

\* computeNodePartitioning, of tree_2 with respect to the nodes that t still has.
NodePartitioning(t) ==
  LET cct(y)  == {x \in NodeIds(t) : matched_node[x] = y}
      hot     == {y \in NodeIds(tree_2) : \E x \in cct(y) : t.counter[x] > getMinThreshold(t)}
      false   == {y \in NodeIds(tree_2) : cct(y) = {} /\ tree_2.counter[y] > getMinThreshold(tree_2)}
      missing == {x \in NodeIds(t) : t.counter[x] > getMinThreshold(t) /\ ~HasPartner(x)}
  IN  [hot |-> Cardinality(hot), false_positives |-> Cardinality(false),
       cold |-> Cardinality(NodeIds(tree_2) \ (hot \cup false)),
       false_negatives |-> Cardinality(missing)]

\* The statistics of compare, two of them in full mode only; for the last of them
\* tree_1 is pruned, unless it was.
Report ==
  /\ phase = "matching" /\ queue = << >>
  /\ LET t       == PrunedIf(mode = "full", tree_1)
         matched == NodesWith({"matched", "apx matched"})
     IN  /\ report' = [nodes     |-> tree_1.nodes,
                       matched   |-> matched,
                       unmatched |-> <<NodesWith({"not matched"}), tree_2.nodes - matched>>,
                       full      |-> IF mode = "full"
                                     THEN << [uncovered |-> Uncovered,
                                              coverage  |-> HotEdgeCoverage(getMinThreshold(tree_1) + 1)] >>
                                     ELSE << >>,
                       accurate  |-> Cardinality(AccurateNodes),
                       partition |-> NodePartitioning(t),
                       exact     |-> [nodes |-> t.nodes, hot |-> hotNodes(t, getMinThreshold(t))]]
         /\ tree_1' = t
  /\ phase' = "done"
  /\ UNCHANGED <<inputs, tree_2, weights, matched_node, status, score, queue>>

CompareNext == Analyse \/ LoadTrees \/ MatchChildren \/ Report

-----------------------------------------------------------------------------
CompareTypeOK ==
  /\ phase \in {"start", "matching", "exit", "undefined", "done"}
  /\ DOMAIN status = DOMAIN matched_node /\ DOMAIN score = DOMAIN matched_node
  /\ Range(status) \subseteq {"not evaluated", "matched", "apx matched", "not matched"}

\* loadTree rebuilds the tree that was dumped, children in order, and pruning leaves
\* what is hot or leads to it. A file that lost a line or its end is never taken for
\* a tree, but for one that was cut inside the last line; one with two lines in the
\* wrong order only if the tree is the same up to the order of children. Nodes and
\* counters are those of the tree that was dumped, and so is the number of events,
\* on which all thresholds depend, unless the file was cut inside that number.
DumpIsRebuilt ==
  LET loaded == loadTree(file)
      t      == dumped[1]
  IN  phase = "start" =>
        IF file = Dump(t)
        THEN /\ loaded.result = "loaded" /\ IsSameTree(loaded.tree, t) /\ IsLinked(loaded.tree)
             /\ loaded.tree.events + 1 = sumCounters(t)
             /\ IsPruned(t, PrunedIf(TRUE, loaded.tree), getMinThreshold(loaded.tree))
        ELSE loaded.result = "loaded" =>
               /\ Len(file) = Len(Dump(t))
               /\ IsLinked(loaded.tree) /\ loaded.tree.parent = t.parent
               /\ loaded.tree.counter = t.counter
               /\ Last(file) = Last(Dump(t)) => loaded.tree.events + 1 = sumCounters(t)

\* All ways to choose k of n things in an order, each of them once.
EnumerationIsComplete(n, k) ==
  LET all == KPermutations(n, k)
  IN  /\ Cardinality(ToSet(all)) = Len(all)
      /\ ToSet(all) = {ar \in [1 .. k -> 0 .. n - 1] : IsInjective(ar)}

\* A node has at most one partner and is the partner of at most one node; the parents
\* of partners are partners. No part of the tree is decided about twice, and at the
\* end each node is decided about.
PartnersAreUnique ==
  phase \in {"matching", "exit", "done"} /\ mode # "analysis" =>
    /\ phase # "exit"
    /\ \A x \in NodeIds(tree_1) : HasPartner(x) =>
         /\ matched_node[x] \in NodeIds(tree_2)
         /\ \A y \in NodeIds(tree_1) : matched_node[y] = matched_node[x] => x = y
         /\ x # Root => matched_node[tree_1.parent[x]] = tree_2.parent[matched_node[x]]
         /\ status[x] \in {"matched", "apx matched"}
    /\ queue = << >> => \A x \in DOMAIN status : status[x] # "not evaluated"

\* Where all ways to match the children of two partners were tried, none has a larger
\* sum of scores than the one that was taken.
MatchesAreBest ==
  phase = "matching" =>
    \A x \in NodeIds(tree_1) :
      LET F == tree_1.children[x]
          G == tree_2.children[matched_node[x]]
          Value(f, y) == IF y = 0 THEN 0 ELSE Score(f, y)
      IN  (HasPartner(x) /\ F # << >> /\ (\A i \in DOMAIN F : status[F[i]] # "not evaluated")
             /\ IsExact(F, G)) =>
            \A m \in [ToSet(F) -> ToSet(G) \cup {0}] :
              (\A f, g \in ToSet(F) : m[f] = m[g] /\ m[f] # 0 => f = g) =>
                SumOver(ToSet(F), [f \in ToSet(F) |-> Value(f, m[f])])
                  <= SumOver(ToSet(F), [f \in ToSet(F) |-> score[f]])

\* A tree is compared with itself, pruned or not: each node is matched with itself.
SameIsFound ==
  phase = "matching" /\ queue = << >> /\ dumped[1] = dumped[2] =>
    \A x \in NodeIds(tree_1) \cap NodeIds(tree_2) :
      matched_node[x] = x /\ score[x] = 100 * ScoreUnit

\* The numbers of the report agree with each other although they are counted over
\* different trees, from either side, and before or after pruning.
ReportAgrees ==
  phase = "done" /\ mode # "analysis" =>
    LET p == report.partition
    IN  /\ report.matched + report.unmatched[1] = report.nodes
        /\ report.unmatched[2] >= 0
        /\ p.hot + p.cold + p.false_positives = tree_2.nodes
        /\ p.hot = report.accurate
        /\ p.hot + p.false_negatives = report.exact.hot
        /\ \A f \in ToSet(report.full) :
             /\ f.uncovered.nodes = report.unmatched[1]
             /\ f.coverage.matched = p.hot /\ f.coverage.nodes = report.exact.hot
        /\ IsLinked(tree_1) /\ IsLinked(tree_2)

DumpsAreAnalysed ==
  DumpIsRebuilt /\ PartnersAreUnique /\ MatchesAreBest /\ SameIsFound /\ ReportAgrees
=============================================================================
