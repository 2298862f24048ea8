--------------------------- MODULE ProfiledProcess ---------------------------
(***************************************************************************)
(* The threads of a profiled process and the files of their trees: the     *)
(* wrappers and the constructor / destructor of                            *)
(* testing/profiler/frequency.c, and how hcct_dump opens its file.  Each   *)
(* thread has a tree of its own in thread-local storage; the threads meet  *)
(* in the directory of dump files, whose names only tell the thread ids    *)
(* apart, and in the end of the process.                                   *)
(***************************************************************************)
EXTENDS FiniteSets

CONSTANTS Threads,   \* bound: the threads a process creates
          Main,      \* the initial thread
          Tids,      \* thread ids; the kernel reuses those of ended threads
          Nobody

ASSUME ProcessAssumption ==
  /\ Main \in Threads
  /\ Tids # {}
  /\ Nobody \notin Tids \cup Threads

VARIABLES
  tstate,   \* "unborn", "running" (with a tree), "dumped" or "gone"
  tidOf,    \* the id of a thread
  file,     \* id |-> the thread whose tree is in <program>-<id>.tree
  process   \* "running", "exiting" (behind trace_end), "exited" or "failed"

processVars == <<tstate, tidOf, file, process>>

Alive == {t \in Threads : tstate[t] \in {"running", "dumped"}}

-----------------------------------------------------------------------------
\* Mutant of Dump: the file is opened with O_TRUNC instead of O_EXCL.
DumpOver(t, next) ==
  /\ file' = [file EXCEPT ![tidOf[t]] = t]
  /\ process' = next

\* hcct_dump of thread t.  A file that exists already is an error: exit(1).
Dump(t, next) ==
  IF file[tidOf[t]] = Nobody
  THEN /\ file' = [file EXCEPT ![tidOf[t]] = t]
       /\ process' = next
  ELSE /\ process' = "failed"
       /\ UNCHANGED file

\* __wrap_pthread_create, and hcct_init in aux_pthread_create of the new thread.
Create(t, u, id) ==
  /\ process \in {"running", "exiting"}
  /\ tstate[t] = "running"
  /\ tstate[u] = "unborn"
  /\ \A v \in Alive : tidOf[v] # id
  /\ tstate' = [tstate EXCEPT ![u] = "running"]
  /\ tidOf' = [tidOf EXCEPT ![u] = id]
  /\ UNCHANGED <<file, process>>

\* start_routine returns to aux_pthread_create.
Return(t) ==
  /\ process \in {"running", "exiting"}
  /\ t # Main
  /\ tstate[t] = "running"
  /\ Dump(t, process)
  /\ tstate' = [tstate EXCEPT ![t] = "dumped"]
  /\ UNCHANGED tidOf

\* __wrap_pthread_exit, in the initial thread too.
PthreadExit(t) ==
  /\ process \in {"running", "exiting"}
  /\ tstate[t] = "running"
  /\ Dump(t, process)
  /\ tstate' = [tstate EXCEPT ![t] = "dumped"]
  /\ UNCHANGED tidOf

\* The system ends thread t, which frees its id.
ThreadEnds(t) ==
  /\ process \in {"running", "exiting"}
  /\ tstate[t] = "dumped"
  /\ Alive # {t}
  /\ tstate' = [tstate EXCEPT ![t] = "gone"]
  /\ UNCHANGED <<tidOf, file, process>>

\* The last thread ends: the system calls exit(0) in it, and so trace_end.
LastThreadEnds(t) ==
  /\ process = "running"
  /\ tstate[t] = "dumped"
  /\ Alive = {t}
  /\ Dump(t, "exiting")
  /\ UNCHANGED <<tstate, tidOf>>

\* main returns, or thread t calls exit: trace_end in thread t.  Meanwhile the
\* other threads go on.
TraceEnd(t) ==
  /\ process = "running"
  /\ tstate[t] = "running"
  /\ Dump(t, "exiting")
  /\ tstate' = [tstate EXCEPT ![t] = "dumped"]
  /\ UNCHANGED tidOf

\* The process is over, with all its threads.
ProcessEnds ==
  /\ process = "exiting"
  /\ process' = "exited"
  /\ UNCHANGED <<tstate, tidOf, file>>

ProcessInit ==
  /\ tstate = [t \in Threads |-> IF t = Main THEN "running" ELSE "unborn"]
  /\ \E id \in Tids : tidOf = [t \in Threads |-> IF t = Main THEN id ELSE Nobody]
  /\ file = [id \in Tids |-> Nobody]
  /\ process = "running"

ProcessNext ==
  \/ ProcessEnds
  \/ \E t \in Threads : \/ Return(t)
                        \/ PthreadExit(t)
                        \/ ThreadEnds(t)
                        \/ LastThreadEnds(t)
                        \/ TraceEnd(t)
                        \/ \E u \in Threads, id \in Tids : Create(t, u, id)

ProcessSpec == ProcessInit /\ [][ProcessNext]_processVars

-----------------------------------------------------------------------------
(* Properties.                                                             *)

\* Every variable has its type.
ProcessTypeOK ==
  /\ tstate \in [Threads -> {"unborn", "running", "dumped", "gone"}]
  /\ tidOf \in [Threads -> Tids \cup {Nobody}]
  /\ file \in [Tids -> Threads \cup {Nobody}]
  /\ process \in {"running", "exiting", "exited", "failed"}

HasTree(t) == \E id \in Tids : file[id] = t

\* A thread that ended has left its tree, and no thread that took over its id
\* destroys it.  The one exception is the dump that ends the process.
EndedThreadsHaveTrees ==
  process # "failed" => \A t \in Threads : tstate[t] \in {"dumped", "gone"} => HasTree(t)

\* "several foo-<TID>.tree are created (one per thread)" (README): no dump fails.
DumpsSucceed == process # "failed"
=============================================================================
