----------------------------- MODULE TraceBurst -----------------------------
(***************************************************************************)
(* Sampling over a trace: trace_analyzer/src/burst.c in front of cct.c.    *)
(* At a sampling point a burst is requested; the next routine that is      *)
(* entered starts it, with a walk of the shadow stack that brings the      *)
(* position in the tree back to the active calls.  A build with ADAPTIVE   *)
(* starts a burst for a known context only now and then.                   *)
(*                                                                         *)
(* The tree never loses a node, so that a node is the calling context it   *)
(* stands for.  rand() is any choice.  WEIGHT_COMPENSATION, which the      *)
(* Makefile never sets, is 0.                                              *)
(***************************************************************************)
EXTENDS CallingContexts, FiniteSetsExt

CONSTANTS Settings,   \* pairs of sampling_rate and burst_duration
          MaxEvents,  \* bound: enter events of a trace
          MaxTicks    \* bound: ticks of a trace

\* What init_burst checks.
ConstantsAssumption ==
  /\ \A s \in Settings : /\ s \in (Nat \ {0}) \X (Nat \ {0})
                         /\ s[1] >= s[2] /\ s[1] % s[2] = 0
  /\ MaxEvents \in Nat /\ MaxTicks \in Nat

VARIABLES
  adaptive,       \* ADAPTIVE: the build
  sampling_rate,  \* sampling_rate
  burst_duration, \* burst_duration
  bursting_on,    \* bursting_on: "NO", "MAYBE" or "YES"
  shadow_stack,   \* shadow_stack up to curr_frame_idx
  top,            \* cct_stack[cct_stack_idx]
  counter,        \* node |-> node->counter; the domain is the tree
  tick_counter,   \* tick_counter
  num_bursts,     \* num_bursts
  num_rtn_enter,  \* num_rtn_enter
  num_rtn_exit,   \* num_rtn_exit
  \* History, read by no operation:
  aux_events,     \* <<enter, exit events>> of the trace
  aux_sampled,    \* context |-> how often it was entered while a burst was on
  aux_walks,      \* how often the shadow stack was walked
  aux_age         \* ticks since the burst has started

settings == <<adaptive, sampling_rate, burst_duration>>
vars == <<settings, bursting_on, shadow_stack, top, counter, tick_counter, num_bursts,
          num_rtn_enter, num_rtn_exit, aux_events, aux_sampled, aux_walks, aux_age>>

Nodes == DOMAIN counter

\* Mutant of Entered: only a new node is counted.
EnteredNewOnly(S) ==
  [x \in Nodes \cup S |-> IF x \in Nodes THEN counter[x] ELSE 1]

\* The tree after rtn_enter of each context in S; none is entered twice.
Entered(S) ==
  [x \in Nodes \cup S |-> (IF x \in Nodes THEN counter[x] ELSE 0) + (IF x \in S THEN 1 ELSE 0)]

\* The frames of the shadow stack, from the i-th on, as contexts.
Frames(x, i) == {Prefix(x, k) : k \in i .. Len(x)}

-----------------------------------------------------------------------------
(* rtn_enter_burst.                                                        *)

Push(c) ==
  /\ Len(shadow_stack) < StackMaxDepth
  /\ aux_events[1] < MaxEvents
  /\ shadow_stack' = Append(shadow_stack, c)
  /\ aux_events' = [aux_events EXCEPT ![1] = @ + 1]
  /\ UNCHANGED <<settings, tick_counter, num_rtn_exit>>

EnterOutsideBurst(c) ==
  /\ bursting_on = "NO"
  /\ Push(c)
  /\ UNCHANGED <<bursting_on, top, counter, num_bursts, num_rtn_enter, aux_sampled, aux_walks,
                 aux_age>>

EnterInBurst(c) ==
  /\ bursting_on = "YES"
  /\ Push(c)
  /\ top' = Append(top, c)
  /\ counter' = Entered({top'})
  /\ num_rtn_enter' = num_rtn_enter + 1
  /\ aux_sampled' = [aux_sampled EXCEPT ![shadow_stack'] = @ + 1]
  /\ UNCHANGED <<bursting_on, num_bursts, aux_walks, aux_age>>

\* A burst begins.  The whole walk counts as one event.
StartBurst ==
  /\ bursting_on' = "YES"
  /\ top' = shadow_stack'
  /\ num_bursts' = num_bursts + 1
  /\ num_rtn_enter' = num_rtn_enter + 1
  /\ aux_age' = 0

\* burst_start, where each burst that is requested takes place.
EnterUniform(c) ==
  /\ bursting_on = "MAYBE"
  /\ ~adaptive
  /\ Push(c)
  /\ counter' = Entered(Frames(shadow_stack', 1))
  /\ StartBurst
  /\ aux_walks' = aux_walks + 1
  /\ UNCHANGED aux_sampled

\* burst_start with ADAPTIVE: the callers are entered in any case; a context that
\* is in the tree is entered if the burst is enabled again, and else discarded.
EnterKnown(c) ==
  /\ bursting_on = "MAYBE"
  /\ adaptive
  /\ Append(shadow_stack, c) \in Nodes
  /\ Push(c)
  /\ \/ /\ counter' = Entered(Frames(shadow_stack', 1))
        /\ StartBurst
     \/ /\ bursting_on' = "NO"
        /\ counter' = Entered(Frames(shadow_stack, 1))
        /\ top' = shadow_stack
        /\ UNCHANGED <<num_bursts, num_rtn_enter, aux_age>>
  /\ aux_walks' = aux_walks + 1
  /\ UNCHANGED aux_sampled

EnterNew(c) ==
  /\ bursting_on = "MAYBE"
  /\ adaptive
  /\ Append(shadow_stack, c) \notin Nodes
  /\ Push(c)
  /\ counter' = Entered(Frames(shadow_stack', 1))
  /\ StartBurst
  /\ aux_walks' = aux_walks + 1
  /\ UNCHANGED aux_sampled

-----------------------------------------------------------------------------
\* Mutant of RtnExit: returns are not forwarded to the tree.
RtnExitUnforwarded ==
  /\ shadow_stack # Root
  /\ shadow_stack' = Caller(shadow_stack)
  /\ num_rtn_exit' = IF bursting_on = "YES" THEN num_rtn_exit + 1 ELSE num_rtn_exit
  /\ aux_events' = [aux_events EXCEPT ![2] = @ + 1]
  /\ UNCHANGED <<settings, bursting_on, top, counter, tick_counter, num_bursts, num_rtn_enter,
                 aux_sampled, aux_walks, aux_age>>

\* rtn_exit_burst: a trace is well nested.
RtnExit ==
  /\ shadow_stack # Root
  /\ shadow_stack' = Caller(shadow_stack)
  /\ IF bursting_on = "YES"
     THEN top' = Caller(top) /\ num_rtn_exit' = num_rtn_exit + 1
     ELSE UNCHANGED <<top, num_rtn_exit>>
  /\ aux_events' = [aux_events EXCEPT ![2] = @ + 1]
  /\ UNCHANGED <<settings, bursting_on, counter, tick_counter, num_bursts, num_rtn_enter,
                 aux_sampled, aux_walks, aux_age>>

SamplingPoint == tick_counter % sampling_rate = 0

\* Mutant of Expired: the counter is not compared.
ExpiredNever == FALSE

Expired == tick_counter % burst_duration = 0

\* tick_burst.
Tick ==
  /\ tick_counter < MaxTicks
  /\ bursting_on' = IF SamplingPoint THEN "MAYBE"
                    ELSE IF bursting_on = "YES" /\ Expired THEN "NO"
                    ELSE bursting_on
  /\ tick_counter' = tick_counter + 1
  /\ aux_age' = IF bursting_on' = "YES" THEN aux_age + 1 ELSE 0
  /\ UNCHANGED <<settings, shadow_stack, top, counter, num_bursts, num_rtn_enter, num_rtn_exit,
                 aux_events, aux_sampled, aux_walks>>

\* init_burst, and init of cct.c.
Init ==
  /\ adaptive \in BOOLEAN
  /\ \E s \in Settings : sampling_rate = s[1] /\ burst_duration = s[2]
  /\ bursting_on = "NO"
  /\ shadow_stack = Root
  /\ top = Root
  /\ counter = [x \in {Root} |-> 0]
  /\ tick_counter = 0
  /\ num_bursts = 0
  /\ num_rtn_enter = 0
  /\ num_rtn_exit = 0
  /\ aux_events = <<0, 0>>
  /\ aux_sampled = [x \in Contexts |-> 0]
  /\ aux_walks = 0
  /\ aux_age = 0

RtnEnter(c) ==
  EnterOutsideBurst(c) \/ EnterInBurst(c) \/ EnterUniform(c) \/ EnterKnown(c) \/ EnterNew(c)

Next == Tick \/ RtnExit \/ \E c \in Calls : RtnEnter(c)

Spec == Init /\ [][Next]_vars

-----------------------------------------------------------------------------
(* Properties.                                                             *)

\* Every variable has its type.
TypeOK ==
  /\ bursting_on \in {"NO", "MAYBE", "YES"}
  /\ shadow_stack \in Contexts
  /\ top \in Contexts
  /\ Nodes \subseteq Contexts
  /\ \A x \in Nodes : counter[x] \in Nat
  /\ {num_bursts, num_rtn_enter, num_rtn_exit, tick_counter} \subseteq Nat

\* Whatever happened between two bursts: during a burst the position in the tree
\* is that of the active calls, and all of them are in the tree.
BurstFollowsCalls ==
  /\ bursting_on = "YES" => top = shadow_stack
  /\ \A x \in Nodes \cup {top} : Frames(x, 0) \subseteq Nodes

\* A burst ends before it has seen burst_duration ticks, also where the next
\* sampling point coincides with its end, and each sampling point leads to one
\* walk of the stack at most.
BurstsAreShort ==
  /\ bursting_on = "YES" => aux_age < burst_duration
  /\ num_bursts <= aux_walks
  /\ aux_walks * sampling_rate < tick_counter + sampling_rate

\* A counter is the number of calls that bursts have seen, but for walks of the
\* stack: each of them counts an active call at most once.
CountersAreSamples ==
  \A x \in Nodes \ {Root} :
    /\ aux_sampled[x] <= counter[x]
    /\ counter[x] <= aux_sampled[x] + aux_walks

\* The tree is that of a sample: short bursts, whose walks of the stack add at most
\* one to a counter.
BurstsAreSamples == BurstsAreShort /\ CountersAreSamples

=============================================================================
