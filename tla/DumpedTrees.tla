----------------------------- MODULE DumpedTrees -----------------------------
(***************************************************************************)
(* The trees that the profiler dumps, as src/testing/analysis works on     *)
(* them: how hcct_dump writes one, how loadTree of tree.c rebuilds it from *)
(* the file, how it is pruned and its children are sorted, and what        *)
(* metrics.c counts.  Addresses of nodes are numbers, that of the root is  *)
(* Root; a symbol stands for routine and call site; the headers of a file  *)
(* are left out.  The operators are used by TreeComparison.                *)
(***************************************************************************)
EXTENDS Integers, FiniteSets, Sequences, SequencesExt

CONSTANTS Symbols,     \* routines with their call sites
          NoSymbol,    \* routine and call site of the root: 0
          PhiInverse,  \* phi is 1 / PhiInverse
          Radix,       \* of the numbers in a file (10)
          Leftovers    \* numbers that a line may leave in the buffer, for the next one

DumpsAssumption ==
  NoSymbol \notin Symbols /\ {PhiInverse, Radix} \subseteq Nat \ {0, 1} /\ Leftovers \subseteq Nat

Root == 1

NodeIds(t) == DOMAIN t.children

\* The trees with n nodes: siblings have different symbols, and parents lower addresses.
Trees(n, Counters) ==
  LET parents  == {p \in [1 .. n -> 0 .. n - 1] : \A x \in 1 .. n : IF x = Root THEN p[x] = 0
                                                                ELSE p[x] \in 1 .. x - 1}
      counters == {c \in [1 .. n -> Counters \cup {1}] : c[Root] = 1}
      symbols  == {s \in [1 .. n -> Symbols \cup {NoSymbol}] :
                     \A x \in 1 .. n : s[x] = NoSymbol <=> x = Root}
      tree(p, c, s) ==
        [nodes |-> n, events |-> 0, parent |-> p, counter |-> c, symbol |-> s,
         children |-> [x \in 1 .. n |-> SelectSeq([y \in 1 .. n |-> y], LAMBDA y : p[y] = x)]]
  IN  {tree(q[1], q[2], q[3]) :
         q \in {r \in parents \X counters \X symbols :
                  \A x, y \in 2 .. n : r[1][x] = r[1][y] /\ r[3][x] = r[3][y] => x = y}}

SumOver(S, f) == MapThenSumSet(LAMBDA x : f[x], S)

\* The nodes in the order of hcct_dump_aux, and with the children first.
Preorder(t) ==
  LET visit[x \in NodeIds(t)] ==
        <<x>> \o FlattenSeq([i \in DOMAIN t.children[x] |-> visit[t.children[x][i]]])
  IN  visit[Root]

Postorder(t) ==
  LET visit[x \in NodeIds(t)] ==
        FlattenSeq([i \in DOMAIN t.children[x] |-> visit[t.children[x][i]]]) \o <<x>>
  IN  visit[Root]

-----------------------------------------------------------------------------
(* The file: a line for each node, and a last line with two sums.            *)

NodeLine(t, x) ==
  [kind |-> "v", id |-> x, parent |-> t.parent[x], counter |-> t.counter[x],
   symbol |-> t.symbol[x]]

\* hcct_dump: the root, a dummy node with counter 1, is not counted as an event.
Dump(t) ==
  LET order == Preorder(t)
  IN  [i \in DOMAIN order |-> NodeLine(t, order[i])]
        \o << [kind |-> "p", nodes |-> Len(order),
               events |-> SumOver(NodeIds(t), t.counter) - 1] >>

\* Mutant of WithChild: a node becomes the first child, as in the profiler.
WithFirstChild(cs, x) == <<x>> \o cs

\* A node becomes the rightmost child.
WithChild(cs, x) == Append(cs, x)

\* The node of the line becomes the last child of entry `at' of the stack, and the
\* new top of the stack.
Attached(s, line, at) ==
  LET p == s.stack[at]
  IN  [s EXCEPT !.stack = Append(SubSeq(@, 1, at), line.id),
                !.tree = [nodes    |-> @.nodes + 1,
                          events   |-> 0,
                          parent   |-> (line.id :> p) @@ @.parent,
                          counter  |-> (line.id :> line.counter) @@ @.counter,
                          symbol   |-> (line.id :> line.symbol) @@ @.symbol,
                          children |-> (line.id :> << >>)
                                         @@ [@.children EXCEPT ![p] = WithChild(@, line.id)]]]

\* The root has no parent, and the data of a dummy node.
ReadRoot(s, line) ==
  IF line.kind = "v" /\ line.parent = 0 /\ line.counter = 1 /\ line.symbol = NoSymbol
  THEN [result |-> "reading", stack |-> <<line.id>>,
        tree |-> [nodes |-> 1, events |-> 0, parent |-> (line.id :> 0),
                  counter |-> (line.id :> 1), symbol |-> (line.id :> NoSymbol),
                  children |-> (line.id :> << >>)]]
  ELSE [s EXCEPT !.result = "broken"]

\* The stack is unwound to the parent.  Without one the code also reads the entry
\* below the stack, twice, before it gives up.
ReadNode(s, line) ==
  LET entries == {i \in DOMAIN s.stack : s.stack[i] = line.parent}
  IN  IF entries = {} THEN [s EXCEPT !.result = "broken"]
                      ELSE Attached(s, line, Max(entries))

ReadEnd(s, line) ==
  [s EXCEPT !.result = IF line.nodes = s.tree.nodes THEN "loaded" ELSE "broken",
            !.tree.events = line.events]

ReadLine(s, line) ==
  CASE s.result = "start"                          -> ReadRoot(s, line)
    [] s.result = "reading" /\ line.kind = "v"     -> ReadNode(s, line)
    [] s.result = "reading" /\ line.kind = "p"     -> ReadEnd(s, line)
    [] OTHER                                       -> s

\* loadTree: its result is "broken" where the code calls exit.
loadTree(file) ==
  LET s == FoldLeft(ReadLine, [result |-> "start", stack |-> << >>, tree |-> << >>], file)
  IN  IF s.result = "loaded" THEN s ELSE [s EXCEPT !.result = "broken"]

\* What the last line says where it is cut: numbers lose their last digits, and of
\* none strtoul makes 0. Where the line ends in front of the blank before a number,
\* what is left of the line before in the buffer is read.
CutNumbers(n) == {n \div Radix ^ k : k \in 0 .. n}
CutEnd(line) ==
  {[line EXCEPT !.events = e] : e \in CutNumbers(line.events) \cup Leftovers}
    \cup {[line EXCEPT !.nodes = n, !.events = e] :
             n \in CutNumbers(line.nodes) \cup Leftovers, e \in Leftovers}

\* Files that lost a line or their end, cut at any byte, or have two lines in the wrong
\* order. After a cut inside a line of a node there is no other line, so that it is
\* refused like one at the end of that line.
Damaged(file) ==
  {RemoveAt(file, i) : i \in DOMAIN file} \cup {SubSeq(file, 1, i) : i \in 0 .. Len(file) - 1}
    \cup {Append(Front(file), line) : line \in CutEnd(Last(file))}
    \cup {[file EXCEPT ![i] = file[i + 1], ![i + 1] = file[i]] : i \in 1 .. Len(file) - 1}

-----------------------------------------------------------------------------
(* Pruning, sorting, and the counts of metrics.c.                            *)

getMinThreshold(t) == t.events \div PhiInverse

\* The nodes in S of t; the lists of children are relinked.
Restricted(t, S) ==
  [nodes |-> t.nodes - Cardinality(NodeIds(t) \ S), events |-> t.events,
   parent |-> Restrict(t.parent, S), counter |-> Restrict(t.counter, S),
   symbol |-> Restrict(t.symbol, S),
   children |-> [x \in S |-> SelectSeq(t.children[x], LAMBDA y : y \in S)]]

\* A cold node is removed if it is a leaf of what is left, but not the root.
PruneNode(t, min_counter, left, x) ==
  IF t.counter[x] <= min_counter /\ ToSet(t.children[x]) \cap left = {} /\ t.symbol[x] # NoSymbol
  THEN left \ {x} ELSE left

\* Mutant of pruneTreeAboveCounter: nodes are visited before their children.
pruneTreeTopDown(t, min_counter) ==
  Restricted(t, FoldLeft(LAMBDA left, x : PruneNode(t, min_counter, left, x),
                         NodeIds(t), Preorder(t)))

\* The children of a node are pruned before the node itself.
pruneTreeAboveCounter(t, min_counter) ==
  Restricted(t, FoldLeft(LAMBDA left, x : PruneNode(t, min_counter, left, x),
                         NodeIds(t), Postorder(t)))

\* Insertion into a list in increasing order, behind equal counters.
Inserted(c, s, x) ==
  SelectSeq(s, LAMBDA y : c[y] <= c[x]) \o <<x>> \o SelectSeq(s, LAMBDA y : c[y] > c[x])

\* A list that does not decrease anywhere passes for sorted.
Sorted(c, s) ==
  IF \E i \in 1 .. Len(s) - 1 : c[s[i + 1]] < c[s[i]]
  THEN Reverse(FoldLeft(LAMBDA r, x : Inserted(c, r, x), << >>, s))
  ELSE s

sortChildrenByDecreasingFrequency(t) ==
  [t EXCEPT !.children = [x \in NodeIds(t) |-> Sorted(t.counter, @[x])]]

hotNodes(t, threshold) == Cardinality({x \in NodeIds(t) : t.counter[x] > threshold})
sumCounters(t)         == SumOver(NodeIds(t), t.counter)
hottestCounter(t)      == Max({t.counter[x] : x \in NodeIds(t)})

\* The sums of counters below each node, without its own.
SubtreeWeights(t) ==
  LET w[x \in NodeIds(t)] ==
        FoldLeft(LAMBDA s, y : s + w[y] + t.counter[y], 0, t.children[x])
  IN  w

-----------------------------------------------------------------------------
(* What these promise.                                                       *)

Ancestors(t, x) == LET up[y \in NodeIds(t)] == {y} \cup (IF y = Root THEN {} ELSE up[t.parent[y]])
                   IN  up[x]

\* The same nodes with the same data below the same parents, in the same order.
IsSameTree(t, u) ==
  /\ NodeIds(t) = NodeIds(u)
  /\ \A x \in NodeIds(t) : /\ t.counter[x] = u.counter[x] /\ t.symbol[x] = u.symbol[x]
                           /\ t.parent[x] = u.parent[x] /\ t.children[x] = u.children[x]

\* Each node but the root is once among the children of its parent, and in no other list.
IsLinked(t) ==
  /\ t.nodes = Cardinality(NodeIds(t))
  /\ \A x \in NodeIds(t), p \in NodeIds(t) :
       Cardinality({i \in DOMAIN t.children[p] : t.children[p][i] = x})
         = IF x # Root /\ t.parent[x] = p THEN 1 ELSE 0

\* u is t pruned: what is left is hot or leads to what is hot.
IsPruned(t, u, min_counter) ==
  /\ IsLinked(u)
  /\ NodeIds(u) =
       {Root} \cup UNION {Ancestors(t, x) : x \in {y \in NodeIds(t) : t.counter[y] > min_counter}}
=============================================================================
