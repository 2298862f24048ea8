---------------------------- MODULE TraceWriter ----------------------------
(***************************************************************************)
(* pin_tracer/stool/TraceWriter.cpp with OPTIMIZE_IO, as rectrace.cpp uses *)
(* it: one writer for each thread of the traced program.  The thread fills *)
(* one of two buffers; when a piece does not fit, an internal thread of    *)
(* Pin dumps that buffer to the file, and the other one is filled.  A      *)
(* timer thread counts ticks, which are recorded before the next event.    *)
(*                                                                         *)
(* The file of a killed process is any prefix of what was written: stdio   *)
(* holds back the rest.  A failing fwrite ends the process likewise.       *)
(***************************************************************************)
EXTENDS TraceFormat

CONSTANTS BufferSize,   \* bufferSize
          MaxEvents,    \* bound: events of the thread
          MaxTicks      \* bound: ticks of the timer

ASSUME ConstantsAssumption ==
  /\ WordAssumption
  /\ BufferSize \in Nat /\ BufferSize >= Word
  /\ MaxEvents \in Nat /\ MaxTicks \in Nat

VARIABLES
  callSite,     \* CALL_SITE: the build
  timer,        \* timer of rectrace.cpp
  phase,        \* "new", "open", "closed", or "killed"
  index,        \* index
  buffer,       \* buffer[0 .. 1], each up to used
  dumper,       \* dumpThread: "none", "started", "writing", "written" or "ended"
  dumped,       \* the buffer it dumps
  ticks,        \* ticks
  firstTick,    \* firstTick
  rtnEvents,    \* <<rtnEnterEvents, rtnExitEvents>>
  pending,      \* the pieces that the current call has yet to write
  file,         \* bytes of the file
  header,       \* what the words behind the magic number say
  \* History:
  aux_events    \* the events recorded

threadVars == <<phase, index, ticks, firstTick, rtnEvents, pending, header, aux_events>>
vars == <<callSite, timer, buffer, dumper, dumped, file, threadVars>>

Current == index % 2

-----------------------------------------------------------------------------
\* timerThread.
TimerTick ==
  /\ timer < MaxTicks
  /\ timer' = timer + 1
  /\ UNCHANGED <<callSite, buffer, dumper, dumped, file, threadVars>>

\* TraceWriter_Open.
Open ==
  /\ phase = "new"
  /\ phase' = "open"
  /\ ticks' = timer
  /\ firstTick' = timer
  /\ pending' = HeaderPieces
  /\ UNCHANGED <<callSite, timer, buffer, dumper, dumped, file, index, rtnEvents, header,
                 aux_events>>

\* checkTimer, then e: the rest of TraceWriter_RtnEnter and _RtnExit.
Record(e) ==
  LET new == [i \in 1 .. timer - ticks |-> TimerTickEvent] \o <<e>>
  IN  /\ pending' = FlattenSeq([i \in DOMAIN new |-> Pieces(new[i])])
      /\ ticks' = timer
      /\ aux_events' = aux_events \o new

\* TraceWriter_RtnEnter; n stands for the routine and the call site.
RtnEnter(n) ==
  /\ phase = "open"
  /\ pending = <<>>
  /\ rtnEvents[1] + rtnEvents[2] < MaxEvents
  /\ rtnEvents' = [rtnEvents EXCEPT ![1] = @ + 1]
  /\ Record(<<IF callSite THEN "RTN_ENTER_CS" ELSE "RTN_ENTER", n>>)
  /\ UNCHANGED <<callSite, timer, buffer, dumper, dumped, file, phase, index, firstTick, header>>

\* TraceWriter_RtnExit: the shadow stack of the tool only pops what was pushed.
RtnExit ==
  /\ phase = "open"
  /\ pending = <<>>
  /\ rtnEvents[2] < rtnEvents[1]
  /\ rtnEvents[1] + rtnEvents[2] < MaxEvents
  /\ rtnEvents' = [rtnEvents EXCEPT ![2] = @ + 1]
  /\ Record(RtnExitEvent)
  /\ UNCHANGED <<callSite, timer, buffer, dumper, dumped, file, phase, index, firstTick, header>>

-----------------------------------------------------------------------------
(* myWrite.                                                                *)

\* Mutant of Fits: off by one.
FitsOneMore == Len(Head(pending)) + Len(buffer[Current]) <= BufferSize + 1

Fits == Len(Head(pending)) + Len(buffer[Current]) <= BufferSize

Write ==
  /\ phase = "open"
  /\ pending # <<>>
  /\ Fits
  /\ buffer' = [buffer EXCEPT ![Current] = @ \o Head(pending)]
  /\ pending' = Tail(pending)
  /\ UNCHANGED <<callSite, timer, phase, index, dumper, dumped, ticks, firstTick, rtnEvents,
                 file, header, aux_events>>

\* Mutant of DumperIsIdle: the last dump is not awaited.
DumperIsNotAwaited == TRUE

\* Mutant of DumperIsIdle: also the first call waits.
DumperIsAwaitedAlways == dumper = "ended"

\* PIN_WaitForThreadTermination, from the second dump on.
DumperIsIdle == index > 0 => dumper = "ended"

\* A piece that does not fit goes to the other buffer.
SwapAndWrite ==
  /\ phase = "open"
  /\ pending # <<>>
  /\ ~Fits
  /\ DumperIsIdle
  /\ index' = index + 1
  /\ dumper' = "started"
  /\ buffer' = [buffer EXCEPT ![index' % 2] = @ \o Head(pending)]
  /\ pending' = Tail(pending)
  /\ UNCHANGED <<callSite, timer, phase, dumped, ticks, firstTick, rtnEvents, file, header,
                 aux_events>>

-----------------------------------------------------------------------------
(* dumpToFile.                                                             *)

\* The index was incremented before the thread was spawned.
DumpStart ==
  /\ dumper = "started"
  /\ phase = "open"
  /\ dumper' = "writing"
  /\ dumped' = (index - 1) % 2
  /\ UNCHANGED <<callSite, timer, buffer, file, threadVars>>

DumpWrite ==
  /\ dumper = "writing"
  /\ phase = "open"
  /\ dumper' = "written"
  /\ file' = file \o buffer[dumped]
  /\ UNCHANGED <<callSite, timer, buffer, dumped, threadVars>>

DumpEnd ==
  /\ dumper = "written"
  /\ phase = "open"
  /\ dumper' = "ended"
  /\ buffer' = [buffer EXCEPT ![dumped] = <<>>]
  /\ UNCHANGED <<callSite, timer, dumped, file, threadVars>>

-----------------------------------------------------------------------------
\* Mutant of Close: the dump is not awaited.
CloseAtOnce ==
  /\ phase = "open"
  /\ pending = <<>>
  /\ phase' = "closed"
  /\ file' = file \o buffer[Current]
  /\ buffer' = [buffer EXCEPT ![Current] = <<>>]
  /\ header' = [rtnEvents |-> rtnEvents, ticks |-> ticks - firstTick]
  /\ UNCHANGED <<callSite, timer, dumper, dumped, index, ticks, firstTick, rtnEvents, pending,
                 aux_events>>

\* TraceWriter_Close: mySync, and the counts behind the magic number.
Close ==
  /\ phase = "open"
  /\ pending = <<>>
  /\ DumperIsIdle
  /\ phase' = "closed"
  /\ file' = file \o buffer[Current]
  /\ buffer' = [buffer EXCEPT ![Current] = <<>>]
  /\ header' = [rtnEvents |-> rtnEvents, ticks |-> ticks - firstTick]
  /\ UNCHANGED <<callSite, timer, dumper, dumped, index, ticks, firstTick, rtnEvents, pending,
                 aux_events>>

\* The process is killed, or exits on an error, possibly while it dumps or in
\* TraceWriter_Close; a part of the file survives.
Kill ==
  /\ phase = "open"
  /\ phase' = "killed"
  /\ LET all == IF dumper = "writing" THEN file \o buffer[dumped]
                ELSE IF pending = <<>> /\ DumperIsIdle THEN file \o buffer[Current]
                ELSE file
     IN  \E n \in 0 .. Len(all) : file' = SubSeq(all, 1, n)
  /\ UNCHANGED <<callSite, timer, buffer, dumper, dumped, index, ticks, firstTick, rtnEvents,
                 pending, header, aux_events>>

Init ==
  /\ callSite \in BOOLEAN
  /\ timer = 0
  /\ phase = "new"
  /\ index = 0
  /\ buffer = [i \in 0 .. 1 |-> <<>>]
  /\ dumper = "none"
  /\ dumped = 0
  /\ ticks = 0
  /\ firstTick = 0
  /\ rtnEvents = <<0, 0>>
  /\ pending = <<>>
  /\ file = <<>>
  /\ header = [rtnEvents |-> <<0, 0>>, ticks |-> 0]
  /\ aux_events = <<>>

Next ==
  \/ TimerTick \/ Open \/ RtnEnter(rtnEvents[1] + 1) \/ RtnExit
  \/ Write \/ SwapAndWrite
  \/ DumpStart \/ DumpWrite \/ DumpEnd
  \/ Close \/ Kill

\* The traced thread leaves a call of the writer, and an internal thread ends.
Fairness == WF_vars(Write \/ SwapAndWrite) /\ WF_vars(DumpStart \/ DumpWrite \/ DumpEnd)

Spec == Init /\ [][Next]_vars /\ Fairness

-----------------------------------------------------------------------------
(* Properties.                                                             *)

Byte == {"HEADER", "RTN_ENTER", "RTN_ENTER_CS", "RTN_EXIT", "TIMER_TICK"} \X Nat \X Nat

\* A buffer is never filled beyond its size, though the other one is emptied at
\* any time, and what is dumped is not empty: fwrite would report an error.
BuffersFit ==
  /\ \A i \in 0 .. 1 : Len(buffer[i]) <= BufferSize
  /\ dumper \in {"started", "writing"} => buffer[(index - 1) % 2] # <<>>

\* Every variable has its type, and the buffers their size.
TypeOK ==
  /\ callSite \in BOOLEAN
  /\ timer \in Nat
  /\ phase \in {"new", "open", "closed", "killed"}
  /\ index \in Nat
  /\ buffer \in [0 .. 1 -> Seq(Byte)]
  /\ dumper \in {"none", "started", "writing", "written", "ended"}
  /\ dumped \in 0 .. 1
  /\ ticks \in Nat /\ firstTick \in 0 .. ticks /\ ticks <= timer
  /\ rtnEvents \in Nat \X Nat
  /\ pending \in Seq(Seq(Byte))
  /\ file \in Seq(Byte)
  /\ BuffersFit
  /\ header \in [rtnEvents : Nat \X Nat, ticks : Nat]

\* What lies in the other buffer and is not in the file.
Unsaved == IF dumper \in {"started", "writing"} THEN buffer[(index - 1) % 2] ELSE <<>>

Recorded == FlattenSeq(HeaderPieces) \o StreamOf(aux_events)

\* How many of the recorded events are of one of these kinds.
Occurrences(events, kinds) == Cardinality({i \in DOMAIN events : events[i][1] \in kinds})

Recordings(kinds) == Occurrences(aux_events, kinds)

\* No byte is lost, written twice or out of order, at any time.  A closed trace is
\* complete and its header counts its events; one that was cut off is a part.
NothingLost ==
  /\ phase = "open" =>
       file \o Unsaved \o buffer[Current] \o FlattenSeq(pending) = Recorded
  /\ phase = "closed" =>
       /\ file = Recorded
       /\ header.rtnEvents[1] = Recordings({"RTN_ENTER", "RTN_ENTER_CS"})
       /\ header.rtnEvents[2] = Recordings({"RTN_EXIT"})
       /\ header.ticks = Recordings({"TIMER_TICK"})
  /\ phase = "killed" => IsPrefix(file, Recorded)

\* No event holds up the traced thread for ever: the waits for the dumper end.
CallsReturn == (phase = "open" /\ pending # <<>>) ~> (pending = <<>> \/ phase # "open")
=============================================================================
