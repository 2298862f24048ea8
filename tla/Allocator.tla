----------------------------- MODULE Allocator -----------------------------
(***************************************************************************)
(* What the pool promises its client: a block it hands out is not in use.  *)
(***************************************************************************)
CONSTANTS Block, Null

VARIABLES allocated,  \* the blocks in use
          out         \* result of the last allocation

vars == <<allocated, out>>

Init == allocated = {} /\ out = Null

Alloc(b) == /\ b \notin allocated
            /\ allocated' = allocated \cup {b}
            /\ out' = b

Fail == out' = Null /\ UNCHANGED allocated

Free(b) == /\ b \in allocated
           /\ allocated' = allocated \ {b}
           /\ UNCHANGED out

Renew == allocated' = {} /\ out' = Null

Next == Fail \/ Renew \/ \E b \in Block : Alloc(b) \/ Free(b)

Spec == Init /\ [][Next]_vars
=============================================================================
