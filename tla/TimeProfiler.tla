---------------------------- MODULE TimeProfiler ----------------------------
(***************************************************************************)
(* The time profiler: testing/profiler/time.c over the trees of cct.c.  A  *)
(* timer thread counts tics.  Threads keep shadow stacks of active calls;  *)
(* at an event that finds new tics, a thread charges them to the context   *)
(* that has been active since its last event.                              *)
(*                                                                         *)
(* A handler reads global_tics twice: a tic in between is as good as one   *)
(* before the handler.  A tree never loses a node, so that a node is the   *)
(* calling context it stands for.  All events of a thread occur before its *)
(* tree is dumped.                                                         *)
(***************************************************************************)
EXTENDS CallingContexts, FiniteSetsExt

CONSTANTS Threads,
          Main,       \* the initial thread
          NoCall,     \* routine_id = call_site = 0: thread-local storage at first
          MaxTics,    \* bound: tics of the timer
          MaxEvents   \* bound: enter events of all threads

\* Assumed by MCProfiler.
ConstantsAssumption ==
  /\ Main \in Threads
  /\ IsFiniteSet(Calls)      \* addresses are machine words
  /\ NoCall \notin Calls
  /\ StackMaxDepth \in Nat
  /\ MaxTics \in Nat
  /\ MaxEvents \in Nat

VARIABLES
  globalTics,   \* global_tics
  threadTics,   \* thread |-> _TLS_thread_tics
  shadow,       \* thread |-> _TLS_shadow_stack up to _TLS_shadow_stack_idx
  bottom,       \* thread |-> _TLS_shadow_stack[0], which outlives its call
  counter,      \* thread |-> node |-> node->counter; no nodes: no tree
  \* History, read by no handler:
  aux_begin,    \* thread |-> global_tics when it started
  aux_time,     \* thread |-> context |-> tics while it was the active one
  aux_events    \* enter events so far

vars == <<globalTics, threadTics, shadow, bottom, counter, aux_begin, aux_time, aux_events>>

\* A node of a thread that was without calls at an event stands for NoCall.
Places   == Contexts \cup {<<NoCall>>}
Nodes(t) == DOMAIN counter[t]
Running  == {t \in Threads : Nodes(t) # {}}

-----------------------------------------------------------------------------
\* timerThread.
Tick ==
  /\ globalTics < MaxTics
  /\ globalTics' = globalTics + 1
  /\ aux_time' = [t \in Threads |->
                    IF t \in Running THEN [aux_time[t] EXCEPT ![shadow[t]] = @ + 1]
                    ELSE aux_time[t]]
  /\ UNCHANGED <<threadTics, shadow, bottom, counter, aux_begin, aux_events>>

\* aux_pthread_create of a new thread, with hcct_init.
Start(t) ==
  /\ t \notin Running
  /\ t # Main
  /\ Running # {}
  /\ threadTics' = [threadTics EXCEPT ![t] = 0]
  /\ shadow' = [shadow EXCEPT ![t] = Root]
  /\ bottom' = [bottom EXCEPT ![t] = NoCall]
  /\ counter' = [counter EXCEPT ![t] = [x \in {Root} |-> 1]]
  /\ aux_begin' = [aux_begin EXCEPT ![t] = globalTics]
  /\ aux_time' = [aux_time EXCEPT ![t] = [x \in Contexts |-> 0]]
  /\ UNCHANGED <<globalTics, aux_events>>

-----------------------------------------------------------------------------
(* hcct_align: the contexts of the shadow stack s are entered again from   *)
(* the root on, the last one with the tics.  The loop enters at least one: *)
(* without active calls, what lies at the bottom of the stack.             *)

Path(t) == IF shadow[t] = Root THEN <<bottom[t]>> ELSE shadow[t]

Charged(t, tics) ==
  [x \in Nodes(t) \cup {Prefix(Path(t), i) : i \in 1 .. Len(Path(t))} |->
     (IF x \in Nodes(t) THEN counter[t][x] ELSE 0) + (IF x = Path(t) THEN tics ELSE 0)]

\* Mutant of Account: the tics of the thread are not brought up to date.
AccountOneTic(t) ==
  IF globalTics > threadTics[t]
  THEN /\ threadTics' = [threadTics EXCEPT ![t] = @ + 1]
       /\ counter' = [counter EXCEPT ![t] = Charged(t, globalTics - threadTics[t])]
  ELSE UNCHANGED <<threadTics, counter>>

\* What both handlers do first.
Account(t) ==
  IF globalTics > threadTics[t]
  THEN /\ threadTics' = [threadTics EXCEPT ![t] = globalTics]
       /\ counter' = [counter EXCEPT ![t] = Charged(t, globalTics - threadTics[t])]
  ELSE UNCHANGED <<threadTics, counter>>

\* __cyg_profile_func_enter.
Enter(t, c) ==
  /\ t \in Running
  /\ Len(shadow[t]) < StackMaxDepth
  /\ aux_events < MaxEvents
  /\ Account(t)
  /\ shadow' = [shadow EXCEPT ![t] = Append(@, c)]
  /\ bottom' = IF shadow[t] = Root THEN [bottom EXCEPT ![t] = c] ELSE bottom
  /\ aux_events' = aux_events + 1
  /\ UNCHANGED <<globalTics, aux_begin, aux_time>>

\* Mutant of Exit: tics are only charged at calls.
ExitUncharged(t) ==
  /\ t \in Running
  /\ shadow[t] # Root
  /\ shadow' = [shadow EXCEPT ![t] = Caller(@)]
  /\ UNCHANGED <<globalTics, threadTics, counter, bottom, aux_begin, aux_time, aux_events>>

\* __cyg_profile_func_exit.
Exit(t) ==
  /\ t \in Running
  /\ shadow[t] # Root
  /\ Account(t)
  /\ shadow' = [shadow EXCEPT ![t] = Caller(@)]
  /\ UNCHANGED <<globalTics, bottom, aux_begin, aux_time, aux_events>>

\* hcct_dump, in trace_end, aux_pthread_create or pthread_exit: new tics are lost.
Dump(t) ==
  /\ t \in Running
  /\ counter' = [counter EXCEPT ![t] = [x \in {} |-> 0]]
  /\ UNCHANGED <<globalTics, threadTics, shadow, bottom, aux_begin, aux_time, aux_events>>

\* trace_begin has called hcct_init, and so init_sampling.
Init ==
  /\ globalTics = 0
  /\ threadTics = [t \in Threads |-> 0]
  /\ shadow = [t \in Threads |-> Root]
  /\ bottom = [t \in Threads |-> NoCall]
  /\ counter = [t \in Threads |-> [x \in (IF t = Main THEN {Root} ELSE {}) |-> 1]]
  /\ aux_begin = [t \in Threads |-> 0]
  /\ aux_time = [t \in Threads |-> [x \in Contexts |-> 0]]
  /\ aux_events = 0

Next == \/ Tick
        \/ \E t \in Threads : \/ Start(t) \/ Exit(t) \/ Dump(t)
                              \/ \E c \in Calls : Enter(t, c)

Spec == Init /\ [][Next]_vars

-----------------------------------------------------------------------------
(* Properties.                                                             *)

\* Every variable has its type.
TypeOK ==
  /\ globalTics \in Nat
  /\ threadTics \in [Threads -> 0 .. globalTics]
  /\ shadow \in [Threads -> Contexts]
  /\ bottom \in [Threads -> Calls \cup {NoCall}]
  /\ \A t \in Threads : /\ Nodes(t) \subseteq Places
                        /\ \A x \in Nodes(t) : counter[t][x] \in Nat
  /\ aux_time \in [Threads -> [Contexts -> Nat]]

CountOf(t, x) == IF x \in Nodes(t) THEN counter[t][x] ELSE 0

\* The two numbers of a dump agree, <thread_tics> and the sum of the counters:
\* no tic is lost between two events, nor charged twice, in any interleaving of
\* timer and threads.
TicsChargedOnce ==
  \A t \in Running :
    MapThenSumSet(LAMBDA x : counter[t][x], Nodes(t) \ {Root}) = threadTics[t]

\* Tics since the last event of t, if x has been active since.
Pending(t, x) == IF x = shadow[t] THEN globalTics - threadTics[t] ELSE 0

\* A context gets its own time.
OwnTime(t, x) ==
  /\ CountOf(t, x) + Pending(t, x) >= aux_time[t][x]
  /\ Len(x) > 1 => CountOf(t, x) + Pending(t, x) = aux_time[t][x]

\* What contexts of one call get beyond that.
IdleTime(t) ==
  MapThenSumSet(LAMBDA x : CountOf(t, x) + Pending(t, x) -
                           IF x \in Contexts THEN aux_time[t][x] ELSE 0,
                {x \in Places : Len(x) = 1})

\* In any interleaving each context gets its own time.  Only a context of one call
\* gets more: together, to the tic, the time without active calls and the time
\* before the thread began.
TimeGoesToActiveContext ==
  \A t \in Running :
    /\ \A x \in Contexts \ {Root} : OwnTime(t, x)
    /\ IdleTime(t) = aux_begin[t] + aux_time[t][Root] - Pending(t, Root)

\* A tree accounts for the time of its thread, tic by tic.
TimeIsAccounted == TicsChargedOnce /\ TimeGoesToActiveContext
=============================================================================
