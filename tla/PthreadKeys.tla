------------------------------ MODULE PthreadKeys ------------------------------
(* cct_pthread.c of src/testing/profiler: the trees of the threads hang on a *)
(* key of the pthread library, which is made by whoever comes first, and are *)
(* dumped by the destructor of the key. A tree is counted, not kept: what    *)
(* grows in it is in CallingContexts. A file has one tree of one thread.     *)
(* Calls of pthread and of the system are atomic; what another thread may do *)
(* between two of them is what the actions are cut for.                      *)
EXTENDS Integers, Sequences, FiniteSets

CONSTANTS KeyThreads, KeyMain,
          Unmade,        \* tlsKey before any key is made
          Early,         \* there are events, and threads, before trace_begin
          OthersKeys,    \* destructors of other keys call instrumented functions
          DumpPath,      \* the environment has DUMPPATH
          MaxKeyEvents   \* bound: calls that a thread makes

VARIABLES program,     \* "loading", "beginning", "running", "ended" or "aborted"
          tlsKey, tlsKey_active, keys,
          specific,    \* of each thread, by key: an index of tls, 0 for NULL
          tls,         \* the objects that hcct_init made
          thread,      \* "new", "running", "destructors" or "ended"
          doing,       \* where a thread is in hcct_enter or hcct_exit
          files,       \* of each thread: enter events of the tree it dumped
          aux_depth,   \* calls that are open
          aux_calls

keyVars == <<program, tlsKey, tlsKey_active, keys, specific, tls, thread, doing, files, aux_depth, aux_calls>>

ASSUME KeysAssumption ==
  /\ IsFiniteSet(KeyThreads) /\ KeyMain \in KeyThreads /\ Unmade \notin 1 .. Cardinality(KeyThreads)
  /\ Early \in BOOLEAN /\ OthersKeys \in BOOLEAN /\ DumpPath \in BOOLEAN /\ MaxKeyEvents \in Nat

AllKeys == 1 .. Cardinality(KeyThreads)

\* pthread_getspecific: NULL for a key that was not made.
GetSpecific(t) == IF tlsKey \in keys THEN specific[t][tlsKey] ELSE 0

\* hcct_init, with what its thread has open as the base of the stack.
NewTls(t, base) == [owner |-> t, cct_stack_idx |-> 0, entered |-> 0, freed |-> FALSE, base |-> base]

KeysInit ==
  /\ program = "loading"
  /\ tlsKey = Unmade /\ tlsKey_active = 0 /\ keys = {}
  /\ specific = [t \in KeyThreads |-> [k \in AllKeys |-> 0]]
  /\ tls = <<>>
  /\ thread = [t \in KeyThreads |-> IF t = KeyMain THEN "running" ELSE "new"]
  /\ doing = [t \in KeyThreads |-> "application"]
  /\ files = [t \in KeyThreads |-> <<>>]
  /\ aux_depth = [t \in KeyThreads |-> 0] /\ aux_calls = [t \in KeyThreads |-> 0]

Going      == program \in {"loading", "beginning", "running"}
Instrumented(t) ==
  /\ \/ program = "running"
     \/ Early /\ program \in IF t = KeyMain THEN {"loading"} ELSE {"loading", "beginning"}
  /\ \/ thread[t] = "running"
     \/ thread[t] = "destructors" /\ OthersKeys
  /\ doing[t] = "application"

\* What the threads share and what they have but for the tree.
shared == <<program, tlsKey, tlsKey_active, keys>>

----------------------------------------------------------------------------
\* A node of the tree, and one more on the stack. A tree may be missing still:
\* the key is another one by now.
Recorded(t, objects, v) ==
  tls' = IF v = 0 THEN objects
         ELSE [objects EXCEPT ![v].cct_stack_idx = @ + 1, ![v].entered = @ + 1]

\* hcct_enter. Without a tree the thread looks at tlsKey_active.
KeyEnter(t) ==
  /\ Instrumented(t) /\ aux_calls[t] < MaxKeyEvents
  /\ aux_depth' = [aux_depth EXCEPT ![t] = @ + 1]
  /\ aux_calls' = [aux_calls EXCEPT ![t] = @ + 1]
  /\ \/ GetSpecific(t) # 0 /\ Recorded(t, tls, GetSpecific(t)) /\ UNCHANGED doing
     \/ GetSpecific(t) = 0 /\ doing' = [doing EXCEPT ![t] = IF tlsKey_active = 0 THEN "create" ELSE "init"]
                           /\ UNCHANGED tls
  /\ UNCHANGED <<shared, specific, thread, files>>

\* trace_begin, a constructor that may not be the first one to run.
KeyTraceBegin ==
  /\ program = "loading" /\ doing[KeyMain] = "application"
  /\ IF tlsKey_active = 0 THEN program' = "beginning" /\ doing' = [doing EXCEPT ![KeyMain] = "create"]
     ELSE program' = "running" /\ UNCHANGED doing
  /\ UNCHANGED <<tlsKey, tlsKey_active, keys, specific, tls, thread, files, aux_depth, aux_calls>>

\* pthread_key_create, in hcct_enter and in trace_begin.
CreateKey(t) ==
  /\ Going /\ doing[t] = "create"
  /\ LET k == Cardinality(keys) + 1 IN tlsKey' = k /\ keys' = keys \cup {k}
  /\ doing' = [doing EXCEPT ![t] = "activate"]
  /\ UNCHANGED <<program, tlsKey_active, specific, tls, thread, files, aux_depth, aux_calls>>

ActivateKey(t) ==
  /\ Going /\ doing[t] = "activate"
  /\ tlsKey_active' = 1
  /\ IF program = "beginning" /\ t = KeyMain
       THEN program' = "running" /\ doing' = [doing EXCEPT ![t] = "application"]
       ELSE doing' = [doing EXCEPT ![t] = "init"] /\ UNCHANGED program
  /\ UNCHANGED <<tlsKey, keys, specific, tls, thread, files, aux_depth, aux_calls>>

\* pthread_setspecific(tlsKey, hcct_init()); the tree is lost if there is no
\* such key.
InitTls(t, base) ==
  /\ tls' = Append(tls, NewTls(t, base))
  /\ specific' = IF tlsKey \in keys THEN [specific EXCEPT ![t][tlsKey] = Len(tls) + 1] ELSE specific

EnterInit(t) ==
  /\ Going /\ doing[t] = "init"
  /\ InitTls(t, aux_depth[t] - 1)
  /\ doing' = [doing EXCEPT ![t] = "record"]
  /\ UNCHANGED <<shared, thread, files, aux_depth, aux_calls>>

EnterRecord(t) ==
  /\ Going /\ doing[t] = "record"
  /\ Recorded(t, tls, GetSpecific(t))
  /\ doing' = [doing EXCEPT ![t] = "application"]
  /\ UNCHANGED <<shared, specific, thread, files, aux_depth, aux_calls>>

\* hcct_exit. Without a tree it makes one, on the stack of which the call that
\* ends is not.
KeyExit(t) ==
  /\ Instrumented(t) /\ aux_depth[t] > 0
  /\ aux_depth' = [aux_depth EXCEPT ![t] = @ - 1]
  /\ LET v == GetSpecific(t)
     IN  \/ v # 0 /\ tls' = [tls EXCEPT ![v].cct_stack_idx = @ - 1] /\ UNCHANGED specific
         \/ v = 0 /\ InitTls(t, aux_depth[t] - 1)
  /\ UNCHANGED <<shared, thread, doing, files, aux_calls>>

----------------------------------------------------------------------------
\* __wrap_pthread_create
CreateThread(t) ==
  /\ program = "running" \/ (Early /\ Going)
  /\ \E creator \in KeyThreads : thread[creator] = "running" /\ doing[creator] = "application"
  /\ thread[t] = "new"
  /\ thread' = [thread EXCEPT ![t] = "running"]
  /\ UNCHANGED <<shared, specific, tls, doing, files, aux_depth, aux_calls>>

\* A thread returns, or calls pthread_exit somewhere: no exits follow.
EndThread(t) ==
  /\ program = "running" /\ thread[t] = "running" /\ doing[t] = "application"
  /\ thread' = [thread EXCEPT ![t] = "destructors"]
  /\ aux_depth' = [aux_depth EXCEPT ![t] = 0]
  /\ UNCHANGED <<shared, specific, tls, doing, files, aux_calls>>

\* Mutant: the tree is dumped, and not freed.
DestroyedLater(t, v, values, next) ==
  /\ files' = [files EXCEPT ![t] = <<tls[v].entered>>]
  /\ specific' = values
  /\ program' = next
  /\ UNCHANGED tls

\* hcct_dump and the rest of tlsDestructor, of tree v. A file that is there
\* ends the process, and so may the release of a string of the environment.
\* The value of tlsKey, which may be another key by now, is cleared.
Destroyed(t, v, values, next) ==
  \/ /\ files[t] # <<>>
     /\ program' = "aborted" /\ specific' = values
     /\ UNCHANGED <<files, tls>>
  \/ /\ files[t] = <<>>
     /\ files' = [files EXCEPT ![t] = <<tls[v].entered>>]
     /\ tls' = [tls EXCEPT ![v].freed = TRUE]
     /\ specific' = [values EXCEPT ![t][tlsKey] = 0]
     /\ program' \in {next} \cup (IF DumpPath THEN {"aborted"} ELSE {})

\* The pthread library calls the destructor of a key with its value, which is
\* NULL by then, for one key after the other.
Destroy(t, k) ==
  /\ program = "running" /\ thread[t] = "destructors" /\ doing[t] = "application" /\ aux_depth[t] = 0
  /\ k \in keys /\ specific[t][k] # 0
  /\ \A other \in 1 .. k - 1 : specific[t][other] = 0
  /\ Destroyed(t, specific[t][k], [specific EXCEPT ![t][k] = 0], program)
  /\ UNCHANGED <<tlsKey, tlsKey_active, keys, thread, doing, aux_depth, aux_calls>>

KeyThreadEnds(t) ==
  /\ program = "running" /\ thread[t] = "destructors" /\ doing[t] = "application" /\ aux_depth[t] = 0
  /\ \A k \in keys : specific[t][k] = 0
  /\ thread' = [thread EXCEPT ![t] = "ended"]
  /\ UNCHANGED <<shared, specific, tls, doing, files, aux_depth, aux_calls>>

\* trace_end: main returns, a thread calls exit, or the last thread has ended.
\* The thread in which it runs dumps its tree; what others have is lost.
KeyTraceEnd(t) ==
  /\ program = "running" /\ doing[t] = "application"
  /\ \/ thread[t] = "running"
     \/ thread[t] = "ended" /\ \A other \in KeyThreads : thread[other] \in {"new", "ended"}
  /\ \/ GetSpecific(t) = 0 /\ program' = "ended" /\ UNCHANGED <<specific, tls, files>>
     \/ GetSpecific(t) # 0 /\ Destroyed(t, GetSpecific(t), specific, "ended")
  /\ UNCHANGED <<tlsKey, tlsKey_active, keys, thread, doing, aux_depth, aux_calls>>

KeysNext ==
  \/ KeyTraceBegin
  \/ \E t \in KeyThreads :
       \/ KeyEnter(t) \/ KeyExit(t) \/ CreateKey(t) \/ ActivateKey(t) \/ EnterInit(t) \/ EnterRecord(t)
       \/ CreateThread(t) \/ EndThread(t) \/ KeyThreadEnds(t) \/ KeyTraceEnd(t)
       \/ \E k \in AllKeys : Destroy(t, k)

KeysSpec == KeysInit /\ [][KeysNext]_keyVars
----------------------------------------------------------------------------
KeysTypeOK ==
  /\ program \in {"loading", "beginning", "running", "ended", "aborted"}
  /\ tlsKey \in AllKeys \cup {Unmade} /\ keys \subseteq AllKeys /\ tlsKey_active \in {0, 1}
  /\ specific \in [KeyThreads -> [AllKeys -> 0 .. Len(tls)]]
  /\ thread \in [KeyThreads -> {"new", "running", "destructors", "ended"}]
  /\ doing \in [KeyThreads -> {"application", "create", "activate", "init", "record"}]

OneKey == Cardinality(keys) <= 1

\* A value that a key holds is a tree of that thread, and was not freed.
NoTreeIsStale ==
  \A t \in KeyThreads, k \in AllKeys :
    LET v == specific[t][k] IN v # 0 => tls[v].owner = t /\ ~tls[v].freed

\* As long as one key was made, the stack of a tree has the calls that its
\* thread has open: no exit is taken from an empty stack.
StacksMatchCalls ==
  OneKey /\ Going =>
    \A t \in KeyThreads :
      LET v == GetSpecific(t)
      IN  v # 0 /\ doing[t] = "application" /\ thread[t] = "running"
            => tls[v].cct_stack_idx = aux_depth[t] - tls[v].base

\* As long as one key was made, a thread that has ended has all it entered in
\* its file, and has freed what it held. With several, the destructor of one
\* key takes the tree of another away.
EndedThreadsAreDumped ==
  OneKey /\ Going =>
    \A t \in KeyThreads : thread[t] = "ended" =>
      /\ aux_calls[t] > 0 => files[t] = <<aux_calls[t]>>
      /\ \A v \in DOMAIN tls : tls[v].owner = t => tls[v].freed

KeyedTreesAreDumped == NoTreeIsStale /\ StacksMatchCalls /\ EndedThreadsAreDumped
=============================================================================
