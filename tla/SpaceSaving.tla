---------------------------- MODULE SpaceSaving ----------------------------
(***************************************************************************)
(* What the lazy priority queue of lss-hcct.c and the buckets of           *)
(* bss-hcct.c promise, without a queue or buckets:                         *)
(* the Space Saving summary of a stream of items.  At most Epsilon items   *)
(* are monitored, each with a counter; an item that is not monitored takes *)
(* the place of one whose counter is the smallest and inherits it.         *)
(* A summary is opened with one item (the dummy root of the calling        *)
(* context tree, which no event of the stream ever names).                 *)
(***************************************************************************)
EXTENDS Integers, FiniteSets

CONSTANTS Items,       \* calling contexts
          Epsilon,     \* size of the summary: ceil(1 / EPSILON)
          OpenCount    \* the counter that a summary is opened with

VARIABLES count,       \* monitored item |-> its counter
          freq         \* item |-> how often the stream has named it

vars == <<count, freq>>

Monitored == DOMAIN count

TypeOK == /\ Monitored \subseteq Items
          /\ \A x \in Monitored : count[x] \in Nat
          /\ freq \in [Items -> Nat]

Init == /\ count = [x \in {} |-> 0]
        /\ freq = [x \in Items |-> 0]

Minimal(v) == \A x \in Monitored : count[v] <= count[x]

\* A summary with the one item r in it.
Open(r) == /\ Monitored = {}
           /\ count' = [x \in {r} |-> OpenCount]
           /\ UNCHANGED freq

\* A stream that was not announced: the summary is opened with r by its first item.
OpenWith(r, x) == /\ Monitored = {}
                  /\ r # x
                  /\ count' = [y \in {r, x} |-> IF y = r THEN OpenCount ELSE 1]
                  /\ freq' = [freq EXCEPT ![x] = @ + 1]

Increment(x) == /\ x \in Monitored
                /\ count' = [count EXCEPT ![x] = @ + 1]
                /\ freq' = [freq EXCEPT ![x] = @ + 1]

Admit(x) == /\ Monitored # {}
            /\ x \notin Monitored
            /\ Cardinality(Monitored) < Epsilon
            /\ count' = [y \in Monitored \cup {x} |-> IF y = x THEN 1 ELSE count[y]]
            /\ freq' = [freq EXCEPT ![x] = @ + 1]

Replace(x) == /\ x \notin Monitored
              /\ Cardinality(Monitored) = Epsilon
              /\ \E v \in Monitored :
                   /\ Minimal(v)
                   /\ count' = [y \in (Monitored \ {v}) \cup {x} |->
                                  IF y = x THEN count[v] + 1 ELSE count[y]]
              /\ freq' = [freq EXCEPT ![x] = @ + 1]

\* The summary is written out and disposed of.
Close == /\ Monitored # {}
         /\ count' = [x \in {} |-> 0]
         /\ freq' = [x \in Items |-> 0]

Next == \/ Close
        \/ \E r, x \in Items : OpenWith(r, x)
        \/ \E x \in Items : Open(x) \/ Increment(x) \/ Admit(x) \/ Replace(x)

Spec == Init /\ [][Next]_vars
=============================================================================
