-------------------------------- MODULE CDAPSP --------------------------------
(* King's algorithm for all-pairs shortest paths under updates: CDAPSP.c of   *)
(* src/dsp with its parts CDAPSP_D.c, the paths of weight up to mDValue, and  *)
(* CDSSSP_D.c, a tree of such paths. Longer paths are stitched from these at  *)
(* some vertices, the blockers. The graph is directed, has no loops and no    *)
(* parallel edges; an edge that is not in it is one of weight Infinity.       *)
(* A tree is repaired in one step, for with positive weights the order in     *)
(* the queue does not matter. Arithmetic is modulo Infinity + 1.              *)
EXTENDS ShortestPaths
LOCAL INSTANCE FiniteSetsExt

CONSTANTS Graphs,     \* records of the edges with their cost, mDValue and mCValue
          Blockers,   \* sets of vertices that may be chosen as blockers
          Weights,    \* what an edge may be updated to
          MaxUpdates  \* bound: calls of CDAPSP_UpdateEdge

VARIABLES mGraph, mDValue, mCValue, mBlockList,
          mEdgeCost, mREdgeCost,  \* weights, and those of the reversed graph
          mInV, mOutV,            \* trees to and from each vertex
          mList,                  \* witnesses of each pair and weight
          mDistD, mDist,          \* mDist of CDAPSP_D, and of CDAPSP
          mBlockEdgeCost,
          todo, edge,             \* the calls that CDAPSP_UpdateEdge makes, and their edge
          pc, mDelta, mInMod, mOutMod,
          aux_updates

kingVars == <<mGraph, mDValue, mCValue, mBlockList, mEdgeCost, mREdgeCost, mInV, mOutV, mList,
              mDistD, mDist, mBlockEdgeCost, todo, edge, pc, mDelta, mInMod, mOutMod, aux_updates>>
fixed    == <<mGraph, mDValue, mCValue, mBlockList>>
counting == <<todo, edge, aux_updates>>

N      == Cardinality(Vertices)
None   == N          \* NULL
AllPairs == Vertices \X Vertices

KingAssumption ==
  /\ N >= 1 /\ Vertices = 0 .. N - 1
  /\ Infinity \in Nat
  /\ Weights \subseteq 1 .. Infinity
  /\ Blockers \subseteq SUBSET Vertices
  /\ MaxUpdates \in Nat
  /\ \A g \in Graphs :
       /\ DOMAIN g.cost \subseteq Pairs /\ g.mCValue \in 1 .. Infinity /\ g.mDValue \in Nat
       /\ \A e \in DOMAIN g.cost : g.cost[e] \in 1 .. Infinity
       /\ N * g.mCValue + g.mDValue < Infinity

Modulo(n) == n % (Infinity + 1)

\* Weights of all pairs, in the graph and in the reversed one.
Cost(cost)    == [p \in Pairs |-> IF p \in DOMAIN cost THEN cost[p] ELSE Infinity]
Reversed(cost) == [p \in Pairs |-> LET r == <<p[2], p[1]>> IN IF r \in DOMAIN cost THEN cost[r] ELSE Infinity]
Turned(e)     == <<e[2], e[1]>>

----------------------------------------------------------------------------
(* CDSSSP_D.c                                                               *)

\* CDSSSP_D_New: CSSSP_UI4, then what is farther than mDValue is cut off. The
\* predecessor is the first that gives the distance.
NewTree(weight, s, d) ==
  LET dist == Distances(weight, s)
      from(v) == {u \in Vertices \ {v} : dist[u] # Infinity /\ Plus(dist[u], weight[<<u, v>>]) = dist[v]}
      first(v) == LET least == Min({dist[u] : u \in from(v)})
                  IN  Min({u \in from(v) : dist[u] = least})
  IN  [l |-> [v \in Vertices |-> IF dist[v] <= d THEN dist[v] ELSE Infinity],
       parent |-> [v \in Vertices |-> IF v # s /\ dist[v] <= d THEN first(v) ELSE None],
       mUnsettled |-> [v \in Vertices |-> FALSE]]

Children(t, x) == {v \in Vertices : t.parent[v] = x}

\* _GetWitness: a settled vertex from which x is at distance i. The first in
\* the list of edges is the least one here.
Witnesses(t, weight, x, i) ==
  {u \in Vertices \ {x} : /\ t.l[u] <= i /\ ~t.mUnsettled[u]
                          /\ weight[<<u, x>>] < Infinity /\ t.l[u] + weight[<<u, x>>] = i}

\* One round of _ModifySPTree. The vertices of the queue at distance i lose
\* their children to the queue, and find a witness or move away by one.
Round(r, weight, i) ==
  LET now     == {x \in r.mQ : r.tree.l[x] = i}
      cut     == UNION {Children(r.tree, x) : x \in now}
      open    == [v \in Vertices |-> r.tree.mUnsettled[v] \/ v \in cut]
      found   == {x \in now : Witnesses([r.tree EXCEPT !.mUnsettled = open], weight, x, i) # {}}
      witness(x) == Min(Witnesses([r.tree EXCEPT !.mUnsettled = open], weight, x, i))
  IN  [tree |-> [l |-> [v \in Vertices |-> r.tree.l[v] + (IF v \in now \ found THEN 1 ELSE 0)],
                 parent |-> [v \in Vertices |-> IF v \in found THEN witness(v)
                                                ELSE IF v \in cut THEN None ELSE r.tree.parent[v]],
                 mUnsettled |-> [v \in Vertices |-> open[v] /\ v \notin found]],
       mQ  |-> (r.mQ \cup cut) \ found,
       mod |-> r.mod \cup found]

\* _ModifySPTree and _DropsNodesLeft: what is still in the queue at mDValue is
\* out of reach. All that left the queue has been modified.
Modified(t, weight, v, d) ==
  LET from == t.l[v]
      upTo[i \in Nat] ==
        IF i <= from
          THEN [tree |-> [t EXCEPT !.parent[v] = None, !.mUnsettled[v] = TRUE],
                mQ |-> IF from < Infinity THEN {v} ELSE {}, mod |-> {}]
          ELSE Round(upTo[i - 1], weight, i - 1)
      last == upTo[IF from < Infinity THEN Max({d, from}) ELSE 0]
  IN  [tree |-> [last.tree EXCEPT !.l = [x \in Vertices |-> IF x \in last.mQ THEN Infinity ELSE @[x]]],
       mod  |-> last.mod \cup last.mQ]

\* CDSSSP_D_IncreaseEdge
TreeIncreased(t, weight, e, d) ==
  IF t.parent[e[2]] = e[1] THEN Modified(t, weight, e[2], d) ELSE [tree |-> t, mod |-> {}]

----------------------------------------------------------------------------
(* CDAPSP_D.c                                                               *)

NoTree == [l |-> <<>>]   \* NULL: there are no trees to a vertex at first

\* Distances from u to v and from v to w, as their trees have them.
KeyU(in, out, u, v) == IF in[v] # NoTree THEN in[v].l[u] ELSE out[u].l[v]
KeyW(out, v, w)     == out[v].l[w]

\* _GetNewWitness: a vertex on a path from u to w of weight i.
NewWitness(in, out, u, w, i) ==
  LET on == {v \in Vertices : /\ KeyU(in, out, u, v) < Infinity /\ KeyW(out, v, w) < Infinity
                              /\ KeyU(in, out, u, v) + KeyW(out, v, w) = i}
  IN  IF on = {} THEN None ELSE Min(on)

\* _IncreaseUpdate of a pair whose witness may have been lost: the next weight
\* that has a witness, up to what the increase can have added.
PairUpdated(in, out, u, w, p) ==
  LET i     == p.dist
      v     == p.list[i]
      ku    == KeyU(in, out, u, v)
      kw    == KeyW(out, v, w)
      end   == IF mDelta = Infinity THEN mDValue ELSE Min({mDValue, Modulo(mDelta + i)})
      found == {k \in i .. end : NewWitness(in, out, u, w, k) # None}
      until == IF found = {} THEN end ELSE Min(found)
  IN  IF i = Infinity \/ v = None THEN p
      ELSE IF ku = Infinity \/ kw = Infinity
        THEN [dist |-> Infinity, list |-> [p.list EXCEPT ![i] = None]]
      ELSE IF ku + kw <= i THEN p
      ELSE [dist |-> IF found = {} THEN Infinity ELSE until,
            list |-> [k \in DOMAIN p.list |-> IF k \in i .. until THEN NewWitness(in, out, u, w, k)
                                              ELSE p.list[k]]]

Pair(p) == [dist |-> mDistD[p], list |-> mList[p]]

\* A mutant: mOutMod is not looked at.
FromSources(p) ==
  IF p[1] \in mInMod THEN PairUpdated(mInV, mOutV, p[1], p[2], Pair(p)) ELSE Pair(p)

\* The pairs from mInMod, then those to mOutMod.
IncreaseUpdate(p) ==
  LET u     == p[1]
      w     == p[2]
      first == IF u \in mInMod THEN PairUpdated(mInV, mOutV, u, w, Pair(p)) ELSE Pair(p)
  IN  IF w \in mOutMod THEN PairUpdated(mInV, mOutV, u, w, first) ELSE first

\* _DecreaseUpdate: v, the trees of which are new, becomes a witness where
\* there is none.
DecreaseUpdate(in, out, v, p) ==
  LET ku  == KeyU(in, out, p[1], v)
      kw  == KeyW(out, v, p[2])
      key == ku + kw
  IN  IF ku = Infinity \/ kw = Infinity \/ key > mDValue \/ mList[p][key] # None THEN Pair(p)
      ELSE [dist |-> Min({key, mDistD[p]}), list |-> [mList[p] EXCEPT ![key] = v]]

----------------------------------------------------------------------------
(* CDAPSP.c                                                                 *)

BlockPairs == {p \in Pairs : p[1] \in mBlockList /\ p[2] \in mBlockList}

\* _BuildGs and _UpdateDecGs make the graph of the blockers anew, _UpdateIncGs
\* only takes edges from it.
AllGs(dist, pairs) == [p \in {q \in pairs : dist[q] < Infinity} |-> dist[p]]

\* _Stitch with _GetMinDistXtoS and _GetMinDistXtoY.
Stitched(dist, blockers, gs) ==
  LET weight == [p \in Pairs |-> IF p \in DOMAIN gs THEN gs[p] ELSE Infinity]
      mBlockDist == [s \in blockers |-> Distances(weight, s)]
      XtoS(x, s) == Min({dist[<<x, s>>]} \cup {Plus(dist[<<x, r>>], mBlockDist[r][s]) : r \in blockers})
      XtoY(x, y) == Min({Infinity} \cup {Plus(XtoS(x, s), dist[<<s, y>>]) : s \in blockers})
  IN  [p \in AllPairs |-> IF p[1] = p[2] THEN 0 ELSE Min({dist[p], XtoY(p[1], p[2])})]

\* CDAPSP_New, with CDAPSP_D_New: _BuildReversedEdgeCost, _ComputeInOutTrees
\* and _BuildDistMatrix. mSValue and the choice of the blockers are left open.
Init ==
  /\ \E g \in Graphs, blockers \in Blockers :
       /\ mGraph = DOMAIN g.cost /\ mDValue = g.mDValue /\ mCValue = g.mCValue
       /\ mBlockList = blockers
       /\ mEdgeCost = g.cost /\ mREdgeCost = g.cost
       /\ mInV = [v \in Vertices |-> NoTree]
       /\ mOutV = [v \in Vertices |-> NewTree(Cost(g.cost), v, g.mDValue)]
  /\ mDistD = [p \in AllPairs |-> mOutV[p[1]].l[p[2]]]
  /\ mList = [p \in AllPairs |-> [i \in 0 .. mDValue |-> IF i = mDistD[p] THEN p[1] ELSE None]]
  /\ mBlockEdgeCost = AllGs(mDistD, BlockPairs)
  /\ mDist = Stitched(mDistD, mBlockList, mBlockEdgeCost)
  /\ todo = <<>> /\ edge = <<>> /\ pc = "idle" /\ mDelta = 0
  /\ mInMod = {} /\ mOutMod = {} /\ aux_updates = 0

KingIdle == pc = "idle" /\ todo = <<>>

\* CDAPSP_UpdateEdge: a deletion is one increase, and then another one by the
\* difference to the weight before.
UpdateEdge(e, w) ==
  /\ KingIdle /\ aux_updates < MaxUpdates
  /\ edge' = e
  /\ LET old == mEdgeCost[e]
     IN  todo' = (IF w = Infinity THEN << <<"Increase", w>> >> ELSE <<>>)
                 \o (CASE old > w -> << <<"Decrease", old - w>> >>
                       [] old < w -> << <<"Increase", w - old>> >>
                       [] OTHER   -> <<>>)
  /\ todo' # <<>>
  /\ aux_updates' = aux_updates + 1
  /\ UNCHANGED <<fixed, mEdgeCost, mREdgeCost, mInV, mOutV, mList, mDistD, mDist, mBlockEdgeCost,
                 pc, mDelta, mInMod, mOutMod>>

\* CDAPSP_Increase keeps the weight at mCValue; a deletion is an increase by
\* Infinity. The difference may wrap around.
Increase ==
  /\ pc = "idle" /\ todo # <<>> /\ todo[1][1] = "Increase"
  /\ LET old   == mEdgeCost[edge]
         asked == todo[1][2]
         delta == IF asked < Infinity /\ Modulo(old + asked) > mCValue
                    THEN Modulo(mCValue + Infinity + 1 - old) ELSE asked
     IN  IF delta = 0 THEN UNCHANGED <<mEdgeCost, mREdgeCost, mDelta, pc>>
         ELSE /\ mEdgeCost'  = [mEdgeCost EXCEPT ![edge] = IF asked = Infinity THEN Infinity ELSE Modulo(@ + delta)]
              /\ mREdgeCost' = [mREdgeCost EXCEPT ![edge] = IF delta = Infinity THEN Infinity ELSE Modulo(@ + delta)]
              /\ mDelta' = delta /\ pc' = "trees"
  /\ todo' = Tail(todo)
  /\ UNCHANGED <<fixed, mInV, mOutV, mList, mDistD, mDist, mBlockEdgeCost, edge, mInMod, mOutMod, aux_updates>>

\* CDAPSP_D_Increase: all trees, and _KeepModified for each vertex.
IncreaseTrees ==
  /\ pc = "trees"
  /\ LET in(v)  == IF mInV[v] = NoTree THEN [tree |-> NoTree, mod |-> {}]
                   ELSE TreeIncreased(mInV[v], Reversed(mREdgeCost), Turned(edge), mDValue)
         out(v) == TreeIncreased(mOutV[v], Cost(mEdgeCost), edge, mDValue)
     IN  /\ mInV'   = [v \in Vertices |-> in(v).tree]
         /\ mOutV'  = [v \in Vertices |-> out(v).tree]
         /\ mInMod' = UNION {in(v).mod : v \in Vertices}
         /\ mOutMod' = UNION {out(v).mod : v \in Vertices}
  /\ pc' = "pairs"
  /\ UNCHANGED <<fixed, mEdgeCost, mREdgeCost, mList, mDistD, mDist, mBlockEdgeCost, counting, mDelta>>

IncreasePairs ==
  /\ pc = "pairs"
  /\ mDistD' = [p \in AllPairs |-> IncreaseUpdate(p).dist]
  /\ mList'  = [p \in AllPairs |-> IncreaseUpdate(p).list]
  /\ mInMod' = {} /\ mOutMod' = {}
  /\ pc' = "less"
  /\ UNCHANGED <<fixed, mEdgeCost, mREdgeCost, mInV, mOutV, mDist, mBlockEdgeCost, counting, mDelta>>

\* CDAPSP_Decrease and CDAPSP_D_Decrease: the trees of the source of the edge
\* are made anew; the others stay.
Decrease ==
  /\ pc = "idle" /\ todo # <<>> /\ todo[1][1] = "Decrease"
  /\ LET delta == Min({todo[1][2], mEdgeCost[edge]})
         v     == edge[1]
     IN  /\ mEdgeCost'  = [mEdgeCost EXCEPT ![edge] = @ - delta]
         /\ mREdgeCost' = [mREdgeCost EXCEPT ![edge] = Modulo(@ + Infinity + 1 - delta)]
         /\ mInV'  = [mInV EXCEPT ![v] = NewTree(Reversed(mREdgeCost'), v, mDValue)]
         /\ mOutV' = [mOutV EXCEPT ![v] = NewTree(Cost(mEdgeCost'), v, mDValue)]
         /\ mDistD' = [p \in AllPairs |-> DecreaseUpdate(mInV', mOutV', v, p).dist]
         /\ mList'  = [p \in AllPairs |-> DecreaseUpdate(mInV', mOutV', v, p).list]
  /\ pc' = "more"
  /\ todo' = Tail(todo)
  /\ UNCHANGED <<fixed, mDist, mBlockEdgeCost, edge, mDelta, mInMod, mOutMod, aux_updates>>

\* The graph of the blockers, and _Stitch.
Stitch ==
  /\ pc \in {"less", "more"}
  /\ mBlockEdgeCost' = AllGs(mDistD, IF pc = "less" THEN DOMAIN mBlockEdgeCost ELSE BlockPairs)
  /\ mDist' = Stitched(mDistD, mBlockList, mBlockEdgeCost')
  /\ pc' = "idle"
  /\ UNCHANGED <<fixed, mEdgeCost, mREdgeCost, mInV, mOutV, mList, mDistD, counting, mDelta, mInMod, mOutMod>>

Run  == Increase \/ IncreaseTrees \/ IncreasePairs \/ Decrease \/ Stitch
Next == Run \/ \E e \in mGraph, w \in Weights : UpdateEdge(e, w)
----------------------------------------------------------------------------
KingTypeOK ==
  /\ mEdgeCost \in [mGraph -> 0 .. Infinity] /\ mREdgeCost \in [mGraph -> 0 .. Infinity]
  /\ mDistD \in [AllPairs -> 0 .. Infinity] /\ mDist \in [AllPairs -> 0 .. Infinity]
  /\ mList \in [AllPairs -> [0 .. mDValue -> Vertices \cup {None}]]
  /\ pc \in {"idle", "trees", "pairs", "less", "more"}

InGraph(p) == Distances(Cost(mEdgeCost), p[1])[p[2]]

\* A pair at some distance has a witness of it: the increase of an edge looks
\* at the witnesses only.
PairsAreWitnessed == \A p \in AllPairs : mDistD[p] < Infinity => mList[p][mDistD[p]] # None

\* After each update of an edge, whatever was increased and decreased before,
\* CDAPSP_D has the distances up to mDValue and no others, stitching never
\* gives too short a distance, and gives all of them where every vertex is a
\* blocker. Holds for weights such that no distance is mDValue itself, which
\* CDSSSP_D loses, and as long as no edge is deleted.
DistancesAreExact ==
  KingIdle =>
    \A p \in AllPairs :
      /\ mDistD[p] = IF InGraph(p) <= mDValue THEN InGraph(p) ELSE Infinity
      /\ mDist[p] >= InGraph(p)
      /\ mBlockList = Vertices => mDist[p] = InGraph(p)
=============================================================================
