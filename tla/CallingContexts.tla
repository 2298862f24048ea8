-------------------------- MODULE CallingContexts --------------------------
(***************************************************************************)
(* Calling contexts: the sequences of active calls, the outermost first.   *)
(* All trees of the profilers and of the trace analyzer have a node per    *)
(* calling context, below a dummy root for the context without calls.      *)
(***************************************************************************)
EXTENDS Integers, Sequences

CONSTANTS Calls,          \* the <<routine_id, call_site>> pairs of events
          StackMaxDepth   \* STACK_MAX_DEPTH

ASSUME DepthAssumption == StackMaxDepth \in Nat

Contexts == UNION {[1 .. d -> Calls] : d \in 0 .. StackMaxDepth}
Root     == <<>>

\* The context of the first i active calls, and the one that made the last call.
Prefix(s, i) == SubSeq(s, 1, i)
Caller(s)    == Prefix(s, Len(s) - 1)

\* x is y or one of its callers.
LeadsTo(x, y) == Len(x) <= Len(y) /\ Prefix(y, Len(x)) = x
=============================================================================
