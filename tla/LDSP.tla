--------------------------------- MODULE LDSP ---------------------------------
(* All-pairs shortest paths under updates of edges: LDSP.c of src/dsp. The   *)
(* structure keeps every potentially uniform path: one whose two maximal     *)
(* subpaths are or have been shortest. An update deletes all paths through   *)
(* the edge and rebuilds them in order of weight. Paths of equal weight are  *)
(* told apart by a tag, the time of the latest update of one of their edges. *)
(*                                                                           *)
(* A path is the sequence of its vertices, which stands for its slot in      *)
(* mPathArena; its subpaths l and r are the sequence without its last and    *)
(* without its first vertex. The intrusive lists of paths are sets. A value  *)
(* that is used more than once is bound by \E x \in {value}.                 *)
EXTENDS ShortestPaths, TLC
LOCAL INSTANCE FiniteSetsExt
LOCAL INSTANCE SequencesExt
LOCAL INSTANCE Functions

CONSTANTS Graphs,      \* initial graphs: sequences of edges with weights
          Weights,     \* what an edge may be updated to, Infinity included
          Step, Ratio, \* mConfig.mStep, mConfig.mRatio
          MaxUpdates   \* bound: calls of LDSP_UpdateEdge

VARIABLES mTime,       \* number of updates
          mW, mT,      \* weight of each edge, and the time of its last update
          arena,       \* mPathArena: live paths to their fields
          mSP,         \* shortest path of each pair
          mH,          \* the queue of an update
          mSH,         \* scheduled edges to the times of their smoothing
          todo,        \* the updates that LDSP_New has still to make
          caller,      \* who has called _UnSmoothedUpdate
          edge,        \* the edge that is updated
          aux_updates

vars == <<mTime, mW, mT, arena, mSP, mH, mSH, todo, caller, edge, aux_updates>>

Nil  == <<>>                       \* _LDSP_NIL
N    == Cardinality(Vertices)
Live == DOMAIN arena

\* LDSP_New of a graph of one vertex makes an edge from it to itself, and
\* with other values of Step and Ratio the loop of the smoothing does not end.
ConstantsAssumption ==
  /\ N >= 2 /\ Vertices = 0 .. N - 1
  /\ Infinity \in Nat \ {0}
  /\ Weights \subseteq 0 .. Infinity
  /\ \A g \in Graphs : /\ g \in Seq([edge : Pairs, w : Weights])
                        /\ \A i, j \in DOMAIN g : g[i].edge = g[j].edge => i = j
  /\ \A w \in Weights \ {Infinity} : (N - 1) * w < Infinity
  /\ Step \in Nat \ {0} /\ Ratio \in Nat \ {0, 1}

----------------------------------------------------------------------------
\* _HComparator: by weight, then by tag.
Before(a, b) == a.mW < b.mW \/ (a.mW = b.mW /\ a.mTB < b.mTB)

\* Those of the paths ps of the arena that no other one goes before.
Minima(ar, ps) == {p \in ps : \A q \in ps : ~Before(ar[q], ar[p])}

\* P_xy, the paths from x to y.
P(ar, xy) == {p \in DOMAIN ar : Len(p) > 1 /\ Source(p) = xy[1] /\ Target(p) = xy[2]}

\* Of several minima the code takes the one that is first in its list:
\* TiesAreBroken says that there is at most one.
GetMinPath(ar, xy) ==
  IF P(ar, xy) = {} THEN Nil ELSE CHOOSE p \in Minima(ar, P(ar, xy)) : TRUE

----------------------------------------------------------------------------
NewPath == [mW |-> 0, mTB |-> 0, mZ |-> FALSE, mL |-> {}, mR |-> {}, mLS |-> {}, mRS |-> {}]

\* An edge takes its tag from its own update, another path from its parts.
NewPUP(ar, weight, time, p) ==
  LET l == Front(p)
      r == Tail(p)
  IN  [NewPath EXCEPT
         !.mW  = ar[l].mW + weight[<<Target(l), Target(r)>>],
         !.mTB = IF Len(l) > 1 THEN Max({ar[l].mTB, ar[r].mTB}) ELSE time[p]]

Extensions(ar, ps) == UNION {ar[p].mL \cup ar[p].mR : p \in ps}

\* What the loop of _Delete finds: the edge and, along the lists of
\* extensions, the paths that contain it.
Through(ar, uv) ==
  LET reach[n \in Nat] == IF n = 0 THEN {uv} \cap DOMAIN ar
                          ELSE LET found == reach[n - 1] IN found \cup Extensions(ar, found)
  IN  reach[N]

\* Mutant of Without: historical paths are not unlinked as such.
WithoutHistory(ar, ps, uv) ==
  LET first == {p \in ps : Source(p) = uv[1]}
      last  == {p \in ps : Target(p) = uv[2]}
  IN  [q \in DOMAIN ar \ ps |-> [ar[q] EXCEPT !.mL = @ \ first, !.mR = @ \ last]]

\* _DelPUP for each of the paths: one that begins or ends with the edge is
\* unlinked from its subpath, which stays. For another one, both subpaths go.
Without(ar, ps, uv) ==
  LET first == {p \in ps : Source(p) = uv[1]}
      last  == {p \in ps : Target(p) = uv[2]}
      historical == {p \in ps : ar[p].mZ}
  IN  [q \in DOMAIN ar \ ps |->
         [ar[q] EXCEPT !.mL  = @ \ first, !.mLS = @ \ (first \cap historical),
                       !.mR  = @ \ last,  !.mRS = @ \ (last \cap historical)]]

\* Mutant of Improved: the pair is affected only when it has no path.
ImprovedFromNothing(kept, uv, w) == GetMinPath(kept, uv) = Nil

\* The edge beats the paths of its own pair. Where it has been the shortest
\* one, _Delete has found the pair already.
Improved(kept, uv, w) ==
  LET best == GetMinPath(kept, uv)
  IN  mSP[uv] # uv /\ (best = Nil \/ w < kept[best].mW)

\* Mutant of Inserted: an edge of weight Infinity is a path as well.
InsertedAlways(kept, weight, time, uv) == kept @@ (uv :> NewPUP(kept, weight, time, uv))

\* The new edge is a path.
Inserted(kept, weight, time, uv) ==
  IF weight[uv] < Infinity THEN kept @@ (uv :> NewPUP(kept, weight, time, uv)) ELSE kept

\* _UnSmoothedUpdate up to the propagation loop of _Insert.
UnSmoothedUpdate(uv, w, time) ==
  \E deleted \in {Through(arena, uv)} :
  \E kept \in {Without(arena, deleted, uv)} :
  \E weight \in {[mW EXCEPT ![uv] = w]} :
  \E all \in {Inserted(kept, weight, time, uv)} :
  LET lost     == {xy \in Pairs : mSP[xy] \in deleted}
      affected == IF w < Infinity /\ Improved(kept, uv, w) THEN lost \cup {uv} ELSE lost
  IN  /\ mW' = weight
      /\ arena' = all
      /\ mSP' = [xy \in Pairs |-> IF xy \in affected THEN Nil ELSE mSP[xy]]
      /\ mH' = {GetMinPath(all, xy) : xy \in affected} \ {Nil}
      /\ edge' = uv

----------------------------------------------------------------------------
\* The extensions of p by an edge on its left and on its right, made of p
\* and another historical path.
LeftExtensions(ar, p)  == {<<Source(e)>> \o p : e \in {q \in ar[Front(p)].mLS : Source(q) # Target(p)}}
RightExtensions(ar, p) == {Append(p, Target(e)) : e \in {q \in ar[Tail(p)].mRS : Target(q) # Source(p)}}

\* p becomes historical.
Promoted(ar, p) ==
  [ar EXCEPT ![p].mZ = TRUE, ![Front(p)].mRS = @ \cup {p}, ![Tail(p)].mLS = @ \cup {p}]

\* The arena with the new paths, linked with their subpaths.
Extended(ar, new) ==
  [q \in DOMAIN ar \cup new |->
     IF q \in new THEN NewPUP(ar, mW, mT, q)
     ELSE [ar[q] EXCEPT !.mL = @ \cup {n \in new : Tail(n) = q},
                        !.mR = @ \cup {n \in new : Front(n) = q}]]

\* One round of the propagation loop of _Insert. Which one of several minimal
\* paths of different pairs comes first is up to the heap.
Propagate ==
  \E p \in Minima(arena, mH) :
  \E promoted \in {Promoted(arena, p)} :
  \E new \in {LeftExtensions(promoted, p) \cup RightExtensions(promoted, p)} :
    LET pair     == <<Source(p), Target(p)>>
        shortest == p = GetMinPath(arena, pair)
        first    == shortest /\ ~arena[p].mZ
    IN  /\ mSP' = IF shortest THEN [mSP EXCEPT ![pair] = p] ELSE mSP
        /\ arena' = IF first THEN Extended(promoted, new) ELSE arena
        /\ mH' = (mH \ {p}) \cup (IF first THEN new ELSE {})
        /\ UNCHANGED <<mTime, mW, mT, mSH, todo, caller, edge, aux_updates>>

----------------------------------------------------------------------------
\* LDSP_New: a cycle of weight 0 through all vertices, then the edges outside
\* the cycle, and at last the true weights of the cycle.
CycleEdge(i) == <<i, (i + 1) % N>>
Cycle        == {CycleEdge(i) : i \in Vertices}
WeightIn(graph, e) ==
  IF \E x \in Range(graph) : x.edge = e
    THEN (CHOOSE x \in Range(graph) : x.edge = e).w ELSE Infinity

LoadSteps(graph) ==
  LET cycle(weight(_)) ==
        [i \in 1 .. N |-> [edge |-> CycleEdge(i - 1), w |-> weight(CycleEdge(i - 1))]]
  IN  cycle(LAMBDA e : 0)
        \o SelectSeq(graph, LAMBDA x : x.edge \notin Cycle)
        \o cycle(LAMBDA e : WeightIn(graph, e))

Trivial == [p \in {<<v>> : v \in Vertices} |-> [NewPath EXCEPT !.mZ = TRUE]]

\* LDSP_NewEmpty, alone or called by LDSP_New.
Init ==
  /\ mTime = 0
  /\ mW = [xy \in Pairs |-> Infinity] /\ mT = [xy \in Pairs |-> Infinity]
  /\ arena = Trivial
  /\ mSP = [xy \in Pairs |-> Nil]
  /\ mH = {} /\ mSH = <<>>
  /\ todo \in {<<>>} \cup {LoadSteps(g) : g \in Graphs}
  /\ caller = "none" /\ edge = Nil /\ aux_updates = 0

Idle == mH = {} /\ caller = "none" /\ todo = <<>>

Load ==
  /\ mH = {} /\ todo # <<>>
  /\ LET e == Head(todo).edge IN
       /\ mTime' = mTime + 1 /\ mT' = [mT EXCEPT ![e] = mTime']
       /\ UnSmoothedUpdate(e, Head(todo).w, mT')
  /\ todo' = Tail(todo)
  /\ UNCHANGED <<mSH, caller, aux_updates>>

UpdateEdge(uv, w) ==
  /\ Idle /\ aux_updates < MaxUpdates
  /\ mTime' = mTime + 1 /\ mT' = [mT EXCEPT ![uv] = mTime']
  /\ UnSmoothedUpdate(uv, w, mT')
  /\ caller' = "LDSP_UpdateEdge" /\ aux_updates' = aux_updates + 1
  /\ UNCHANGED <<mSH, todo>>

Unscheduled(e) == [d \in DOMAIN mSH \ {e} |-> mSH[d]]

\* An edge of the graph is scheduled for smoothing.
Schedule ==
  /\ mH = {} /\ caller = "LDSP_UpdateEdge"
  /\ mSH' = IF mW[edge] # Infinity THEN (edge :> mTime + Step) @@ mSH ELSE Unscheduled(edge)
  /\ caller' = "smoothing"
  /\ UNCHANGED <<mTime, mW, mT, arena, mSP, mH, todo, edge, aux_updates>>

Due == {e \in DOMAIN mSH : mSH[e] <= mTime /\ \A d \in DOMAIN mSH : mSH[e] <= mSH[d]}

\* Mutant of Rescheduled: as with a ratio of 1.
RescheduledToNow(e) == [mSH EXCEPT ![e] = mT[e] + (mTime - mT[e])]

Rescheduled(e) == [mSH EXCEPT ![e] = mT[e] + (mTime - mT[e]) * Ratio]

\* A dummy update, when the smoothing rate is below its threshold. The rate
\* is a floating-point average that is not modelled: both may happen.
Smooth ==
  /\ caller = "smoothing"
  /\ \E e \in Due : UnSmoothedUpdate(e, mW[e], mT)
  /\ caller' = "dummy update"
  /\ UNCHANGED <<mTime, mT, mSH, todo, aux_updates>>

Reschedule ==
  /\ mH = {} /\ caller = "dummy update"
  /\ mSH' = Rescheduled(edge)
  /\ caller' = "smoothing"
  /\ UNCHANGED <<mTime, mW, mT, arena, mSP, mH, todo, edge, aux_updates>>

SkipSmoothing ==
  /\ caller = "smoothing"
  /\ \E e \in Due : mSH' = Rescheduled(e)
  /\ UNCHANGED <<mTime, mW, mT, arena, mSP, mH, todo, caller, edge, aux_updates>>

Return ==
  /\ caller = "smoothing" /\ Due = {}
  /\ caller' = "none" /\ edge' = Nil
  /\ UNCHANGED <<mTime, mW, mT, arena, mSP, mH, mSH, todo, aux_updates>>

\* A call of the library, from its first step to its last one.
Run == Propagate \/ Load \/ Schedule \/ Smooth \/ Reschedule \/ SkipSmoothing \/ Return

Next == Run \/ \E uv \in Pairs, w \in Weights : UpdateEdge(uv, w)

Spec     == Init /\ [][Next]_vars
FairSpec == Spec /\ WF_vars(Run)
----------------------------------------------------------------------------
TypeOK ==
  /\ mTime \in Nat /\ mW \in [Pairs -> Weights \cup {0}] /\ mT \in [Pairs -> 0 .. mTime \cup {Infinity}]
  /\ \A p \in Live :
       /\ IsPath(p)
       /\ arena[p] \in [mW : 0 .. Infinity - 1, mTB : 0 .. mTime, mZ : BOOLEAN,
                        mL : SUBSET Live, mR : SUBSET Live, mLS : SUBSET Live, mRS : SUBSET Live]
  /\ DOMAIN mSP = Pairs /\ \A xy \in Pairs : mSP[xy] = Nil \/ mSP[xy] \in P(arena, xy)
  /\ mH \subseteq Live
  /\ DOMAIN mSH \subseteq Pairs /\ \A e \in DOMAIN mSH : mSH[e] \in Nat
  /\ todo \in Seq([edge : Pairs, w : Weights \cup {0}])
  /\ caller \in {"none", "LDSP_UpdateEdge", "smoothing", "dummy update"}
  /\ edge \in Pairs \cup {Nil}

GetDist(x, y) == IF x = y THEN 0 ELSE IF mSP[<<x, y>>] = Nil THEN Infinity ELSE arena[mSP[<<x, y>>]].mW

\* Between calls LDSP_GetDist returns the distances of the graph as it is
\* now, and the vertices that LDSP_GetLWit and LDSP_GetRWit return lie on a
\* shortest path, since both maximal parts of a shortest path are the
\* shortest ones of their own pairs.
ShortestPathsFound ==
  Idle =>
    /\ \A x \in Vertices : [y \in Vertices |-> GetDist(x, y)] = Distances(mW, x)
    /\ \A xy \in Pairs :
         LET p == mSP[xy] IN
         p # Nil => /\ PathWeight(mW, p) = arena[p].mW
                    /\ Len(p) > 2 => /\ mSP[<<Source(p), Target(Front(p))>>] = Front(p)
                                     /\ mSP[<<Source(Tail(p)), Target(p)>>] = Tail(p)

\* No list names a path that has been deleted, and each path is in the lists
\* of its parts: what _Delete follows is all there is. A historical path is
\* in the lists of historical extensions as well. Weights and tags that are
\* stored with a path are those of its edges today.
ListsAreExact ==
  \A p \in Live :
    /\ arena[p].mL  = {q \in Live : Len(q) > 2 /\ Tail(q) = p}
    /\ arena[p].mR  = {q \in Live : Len(q) > 2 /\ Front(q) = p}
    /\ arena[p].mLS = {q \in Live : Len(q) > 1 /\ arena[q].mZ /\ Tail(q) = p}
    /\ arena[p].mRS = {q \in Live : Len(q) > 1 /\ arena[q].mZ /\ Front(q) = p}
    /\ Len(p) > 1 => /\ arena[p].mW = PathWeight(mW, p)
                     /\ arena[p].mTB = Max({mT[<<p[i], p[i + 1]>>] : i \in 1 .. Len(p) - 1})

\* The tags tell the lightest paths of a pair apart, so that nothing depends
\* on the order of a list, and no path is made that is there already.
TiesAreBroken ==
  /\ \A xy \in Pairs : P(arena, xy) = {} \/ \E p \in P(arena, xy) : Minima(arena, P(arena, xy)) = {p}
  /\ \A p \in Minima(arena, mH) :
       ~arena[p].mZ => Live \cap (LeftExtensions(Promoted(arena, p), p)
                                    \cup RightExtensions(Promoted(arena, p), p)) = {}

\* Every edge in the schedule is in the graph, and every edge that has been
\* given a weight by LDSP_UpdateEdge is in the schedule, for a later time.
ScheduleIsFuture ==
  Idle => \A e \in DOMAIN mSH : mW[e] # Infinity /\ mSH[e] > mTime

\* What an update leaves to the next one.
PathsAreKept == ListsAreExact /\ TiesAreBroken /\ ScheduleIsFuture
=============================================================================
