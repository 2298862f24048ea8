-------------------------------- MODULE LDStar --------------------------------
(* D* on a grid: LDStar.c of the Leonardo library. An agent moves to a goal   *)
(* along back pointers; when the cost of an edge changes, ProcessState mends  *)
(* the plan until it is right for the agent. States are the vertices of a     *)
(* grid. Of states of one key the heap may return any; a state looks at its   *)
(* edges in any order.                                                        *)
EXTENDS Naturals, FiniteSets
LOCAL INSTANCE FiniteSetsExt

CONSTANTS Maps,       \* records: base of the grid, start, goal, costs of the edges
          Costs,      \* what an edge may be set to
          Moves,      \* numbers of steps asked for in one call
          MaxChanges  \* bound: calls of SetEdge that change a cost

VARIABLES mBase,       \* side of the grid
          mCost, mTag, mBackPtr, mH,
          mK,          \* the open list: the keys of the states in it
          mStart, mGoal, mCurrent, mFinished, mNodes_processed_since_last,
          pc, left,    \* what is being done, and the steps left to move
          \* History:
          aux_changes,
          aux_returned,\* the agent has come back to its start
          aux_astray   \* a state has taken one that was never reached for its successor

dstarVars == <<mBase, mCost, mTag, mBackPtr, mH, mK, mStart, mGoal, mCurrent, mFinished,
               mNodes_processed_since_last, pc, left, aux_changes, aux_returned, aux_astray>>
plan  == <<mTag, mBackPtr, mH, mK, mNodes_processed_since_last, aux_astray>>
fixed == <<mBase, mStart, mGoal>>
agent == <<mCurrent, mFinished, left, aux_returned>>

Vertices == 0 .. mBase * mBase - 1
EdgesOf(base) == {{x, y} : <<x, y>> \in
                    {p \in (0 .. base * base - 1) \X (0 .. base * base - 1) :
                       p[2] = p[1] + base \/ (p[2] = p[1] + 1 /\ p[2] % base # 0)}}
Neighbours(x) == {y \in Vertices : {x, y} \in DOMAIN mCost}
NoState == mBase * mBase

DStarAssumption ==
  /\ Costs \subseteq Nat \ {0} /\ Moves \subseteq Nat \ {0} /\ MaxChanges \in Nat
  /\ \A m \in Maps : /\ m.base \in Nat \ {0} /\ {m.start, m.goal} \subseteq 0 .. m.base * m.base - 1
                     /\ m.cost \in [EdgesOf(m.base) -> Costs]

-----------------------------------------------------------------------------
KMin == Min({mK[x] : x \in DOMAIN mK})

\* Mutant of Key: the key of an open state follows its distance.
KeyOfNow(x, h) == IF mTag[x] = "closed" THEN Min({mH[x], h}) ELSE h

\* Insert: the key that x gets when it is opened with distance h.
Key(x, h) == CASE mTag[x] = "new" -> h
               [] mTag[x] = "open" -> Min({mK[x], h})
               [] mTag[x] = "closed" -> Min({mH[x], h})

\* A state whose distance was raised first tries its neighbours at distance at
\* most its key k. One that was never reached has distance 0.
Successors(x, k) ==
  LET via(y)  == mH[y] + mCost[{x, y}]
      closer  == {y \in Neighbours(x) : k < mH[x] /\ mH[y] <= k /\ via(y) < mH[x]}
      closest == {y \in closer : \A z \in closer : via(y) <= via(z)}
  IN  IF closer = {} THEN {[h |-> mH[x], b |-> mBackPtr[x]]}
                     ELSE {[h |-> via(y), b |-> y] : y \in closest}

\* ProcessState with x as the state of least key k, after it has chosen s: the
\* states below x are opened; if x may still be raised, so is x itself where it
\* helps a neighbour, and a neighbour where that helps x.
Expand(x, k, s) ==
  LET via(y) == s.h + mCost[{x, y}]
      lower  == k = s.h
      below  == {y \in Neighbours(x) :
                   \/ mTag[y] = "new"
                   \/ mBackPtr[y] = x /\ mH[y] # via(y)
                   \/ lower /\ mBackPtr[y] # x /\ mH[y] > via(y)}
      others == {y \in Neighbours(x) \ below : ~lower /\ mBackPtr[y] # x}
      again  == {z \in {x} : \E y \in others : mH[y] > via(y)}
      ready  == {y \in others : /\ ~(mH[y] > via(y)) /\ s.h > mH[y] + mCost[{x, y}]
                                /\ mTag[y] = "closed" /\ mH[y] > k}
      open   == ((DOMAIN mK) \ {x}) \cup below \cup again \cup ready
  IN  /\ mH'       = [y \in Vertices |-> IF y = x THEN s.h ELSE IF y \in below THEN via(y) ELSE mH[y]]
      /\ mBackPtr' = [y \in Vertices |-> IF y = x THEN s.b ELSE IF y \in below THEN x ELSE mBackPtr[y]]
      /\ mK'       = [y \in open |-> CASE y = x -> s.h
                                       [] y \in below -> Key(y, via(y))
                                       [] y \in ready -> Key(y, mH[y])
                                       [] OTHER -> mK[y]]
      /\ mTag'     = [y \in Vertices |-> IF y \in open THEN "open" ELSE IF y = x THEN "closed" ELSE mTag[y]]
      /\ aux_astray' = (aux_astray \/ (s.b # mBackPtr[x] /\ mTag[s.b] = "new"))

\* mProcessedNodes has a place for each state of the grid, and a replanning may
\* process more: what is written behind its end is anyone's.
ProcessState ==
  /\ \E x \in {y \in DOMAIN mK : mK[y] = KMin} : \E s \in Successors(x, mK[x]) : Expand(x, mK[x], s)
  /\ \/ mCurrent = mStart /\ UNCHANGED <<mNodes_processed_since_last, pc>>
     \/ /\ mCurrent # mStart
        /\ mNodes_processed_since_last' = mNodes_processed_since_last + 1
        /\ pc' = IF mNodes_processed_since_last = mBase * mBase THEN "undefined" ELSE pc
  /\ UNCHANGED agent

-----------------------------------------------------------------------------
\* LDStar_New, and the calls of LDStar_SetEdge that give all edges their costs.
Init ==
  /\ \E m \in Maps : mBase = m.base /\ mCost = m.cost /\ mStart = m.start /\ mGoal = m.goal
  /\ mTag = [x \in Vertices |-> "new"] /\ mBackPtr = [x \in Vertices |-> NoState]
  /\ mH = [x \in Vertices |-> 0] /\ mK = <<>>
  /\ mCurrent = mStart /\ mFinished = FALSE /\ mNodes_processed_since_last = 0
  /\ pc = "idle" /\ left = 0
  /\ aux_changes = 0 /\ aux_returned = FALSE /\ aux_astray = FALSE

\* LDStar_SetEdge up to its loop. The end with the smaller distance is opened;
\* an agent that has not moved has no plan yet.
SetEdge(e, value) ==
  /\ pc = "idle" /\ mCurrent # mGoal /\ ~aux_returned
  /\ aux_changes < MaxChanges /\ mCost[e] # value
  /\ mCost' = [mCost EXCEPT ![e] = value]
  /\ aux_changes' = aux_changes + 1
  /\ \/ mCurrent = mStart /\ UNCHANGED <<plan, pc>>
     \/ /\ mCurrent # mStart
        /\ \E x \in {y \in e : \A z \in e : mH[y] <= mH[z]} :
             IF mTag[x] = "closed"
             THEN /\ mK' = [y \in DOMAIN mK \cup {x} |-> IF y = x THEN mH[x] ELSE mK[y]]
                  /\ mTag' = [mTag EXCEPT ![x] = "open"]
             ELSE UNCHANGED <<mK, mTag>>
        /\ mNodes_processed_since_last' = 0
        /\ pc' = "replan"
        /\ UNCHANGED <<mH, mBackPtr, aux_astray>>
  /\ UNCHANGED <<fixed, agent>>

\* A round of the loop of LDStar_SetEdge, until the agent's distance is final.
Replan ==
  /\ pc = "replan"
  /\ \/ mK # <<>> /\ KMin < mH[mCurrent] /\ ProcessState
     \/ ~(mK # <<>> /\ KMin < mH[mCurrent]) /\ pc' = "idle" /\ UNCHANGED <<plan, agent>>
  /\ UNCHANGED <<fixed, mCost, aux_changes>>

\* LDStar_MoveAgent: the first call finds a plan. The goal is not tagged as
\* open. An agent back at its start would plan again over an open list that is
\* not empty: it is not moved any more.
MoveAgent(n) ==
  /\ pc = "idle" /\ ~mFinished /\ ~aux_returned
  /\ left' = n
  /\ \/ mCurrent = mStart /\ pc' = "plan" /\ mK' = [x \in {mGoal} |-> 0]
     \/ mCurrent # mStart /\ pc' = "move" /\ UNCHANGED mK
  /\ UNCHANGED <<fixed, mCost, mTag, mBackPtr, mH, mCurrent, mFinished,
                 mNodes_processed_since_last, aux_changes, aux_returned, aux_astray>>

\* A round of its first loop. All states of a grid are connected.
Plan ==
  /\ pc = "plan"
  /\ \/ mTag[mCurrent] # "closed" /\ ProcessState
     \/ mTag[mCurrent] = "closed" /\ pc' = "move" /\ UNCHANGED <<plan, agent>>
  /\ UNCHANGED <<fixed, mCost, aux_changes>>

\* A step of the agent. Without a back pointer it is nowhere.
Move ==
  /\ pc = "move"
  /\ \/ mCurrent = mGoal /\ mFinished' = TRUE /\ pc' = "idle" /\ UNCHANGED <<mCurrent, left, aux_returned>>
     \/ /\ mCurrent # mGoal
        /\ mCurrent' = mBackPtr[mCurrent]
        /\ left' = left - 1
        /\ aux_returned' = (aux_returned \/ mCurrent' = mStart)
        /\ pc' = IF mCurrent' = NoState THEN "undefined" ELSE IF left' = 0 THEN "idle" ELSE "move"
        /\ UNCHANGED mFinished
  /\ UNCHANGED <<fixed, mCost, plan, aux_changes>>

Run  == Plan \/ Replan \/ Move
Next == Run \/ (\E n \in Moves : MoveAgent(n)) \/ (\E e \in DOMAIN mCost, c \in Costs : SetEdge(e, c))
Idle == pc \in {"idle", "undefined"}
Spec == Init /\ [][Next]_dstarVars

-----------------------------------------------------------------------------
DStarTypeOK ==
  /\ mBase \in Nat /\ mCost \in [EdgesOf(mBase) -> Costs] /\ mTag \in [Vertices -> {"new", "open", "closed"}]
  /\ mBackPtr \in [Vertices -> Vertices \cup {NoState}] /\ mH \in [Vertices -> Nat]
  /\ DOMAIN mK \subseteq Vertices /\ \A x \in DOMAIN mK : mK[x] \in Nat
  /\ mStart \in Vertices /\ mGoal \in Vertices /\ mCurrent \in Vertices \cup {NoState} /\ mFinished \in BOOLEAN
  /\ mNodes_processed_since_last \in 0 .. mBase * mBase + 1
  /\ pc \in {"idle", "plan", "replan", "move", "undefined"} /\ left \in Nat
  /\ aux_changes \in 0 .. MaxChanges /\ aux_returned \in BOOLEAN /\ aux_astray \in BOOLEAN

\* All states with their distances to the goal, by the lengths of walks.
Distances ==
  LET within[n \in Nat] ==
        IF n = 0 THEN {<<mGoal, 0>>}
        ELSE LET less == within[n - 1]
                 all  == less \cup UNION {{<<y, p[2] + mCost[{y, p[1]}]>> : y \in Neighbours(p[1])} : p \in less}
             IN  {p \in all : \A q \in all : q[1] = p[1] => p[2] <= q[2]}
  IN  within[mBase * mBase - 1]

\* Whenever the agent is about to move, it knows its distance to the goal under
\* the costs of now, and its next step is one on a shortest path, as long as no
\* raised state has taken one that was never reached for its successor.
PlanIsShortest ==
  pc \in {"idle", "move"} /\ (pc = "idle" => mCurrent # mStart) /\ ~aux_returned /\ ~aux_astray =>
    \E dist \in {Distances} :
      LET b == mBackPtr[mCurrent] IN
      /\ <<mCurrent, mH[mCurrent]>> \in dist
      /\ mCurrent # mGoal => b # NoState /\ <<b, mH[mCurrent] - mCost[{b, mCurrent}]>> \in dist

\* The open states are those in the open list, with keys that are distances they
\* had; a closed state is as far as its successor says, unless that is open.
OpenListIsSound ==
  pc \notin {"plan", "undefined"} /\ ~aux_astray => 
    /\ DOMAIN mK = {x \in Vertices : mTag[x] = "open"}
    /\ \A x \in DOMAIN mK : mK[x] <= mH[x]
    /\ \A x \in Vertices \ {mGoal} : mTag[x] = "closed" =>
         LET b == mBackPtr[x] IN b # NoState /\ (mTag[b] = "closed" => mH[x] = mH[b] + mCost[{x, b}])

=============================================================================
