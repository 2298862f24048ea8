---------------------------- MODULE TraceDriver ----------------------------
(***************************************************************************)
(* trace_analyzer/src/driver.c: a trace is read in parts into a buffer,    *)
(* and each event in it is handed to the algorithm of the program.  The    *)
(* part of an event that is cut by the end of the buffer is moved to the   *)
(* front, and the next part is read behind it.  A read may return less     *)
(* than is asked for.                                                      *)
(*                                                                         *)
(* panic("illegal stream event") is not an action: that it is not reached  *)
(* is a property.  The header is read into the same buffer, which is       *)
(* larger than the header.                                                 *)
(***************************************************************************)
EXTENDS TraceFormat, FiniteSetsExt

CONSTANTS BufSize,   \* buf_size
          Unknown    \* what a header that is cut off says

ConstantsAssumption ==
  /\ WordAssumption
  /\ BufSize \in Nat /\ BufSize >= EventLen("RTN_ENTER_CS")

VARIABLES
  file,              \* the trace
  header,            \* what the words behind its magic number say
  mode,              \* "new", "refused", "reading", "scanning" or "done"
  pos,               \* bytes of the file read so far
  buf,               \* buffer
  at,                \* buf in analyze_buffer, from 1
  rtn_enter_events,  \* rtn_enter_events, from the header
  \* History:
  aux_delivered      \* what rtn_enter, rtn_exit and tick were called with

driverVars == <<mode, pos, buf, at, rtn_enter_events, aux_delivered>>
vars == <<file, header, driverVars>>

-----------------------------------------------------------------------------
\* driver_open.  Without a whole magic number, memory that was never written is
\* compared to it.
Open ==
  /\ mode = "new"
  /\ pos' = Min({Len(file), HeaderLen})
  /\ rtn_enter_events' = IF pos' = HeaderLen THEN header.rtnEvents[1] ELSE Unknown
  /\ mode' \in IF pos' >= Word THEN {"reading"} ELSE {"reading", "refused"}
  /\ UNCHANGED <<file, header, buf, at, aux_delivered>>

\* driver_run_experiment: the next part of the file.
Read ==
  /\ mode = "reading"
  /\ \E n \in 1 .. Min({BufSize - Len(buf), Len(file) - pos}) :
       /\ buf' = buf \o SubSeq(file, pos + 1, pos + n)
       /\ pos' = pos + n
  /\ at' = 1
  /\ mode' = "scanning"
  /\ UNCHANGED <<file, header, rtn_enter_events, aux_delivered>>

\* read returns 0: at the end of the file, or without room in the buffer.
EndOfFile ==
  /\ mode = "reading"
  /\ pos = Len(file) \/ Len(buf) = BufSize
  /\ mode' = "done"
  /\ UNCHANGED <<file, header, pos, buf, at, rtn_enter_events, aux_delivered>>

-----------------------------------------------------------------------------
(* analyze_buffer.                                                         *)

Kind == buf[at][1]

\* limit - buf >= LEN - 1; an event of one byte always fits.
Whole == Len(buf) - at >= EventLen(Kind) - 1

Deliver ==
  /\ mode = "scanning"
  /\ at <= Len(buf)
  /\ Whole
  /\ aux_delivered' = Append(aux_delivered, SubSeq(buf, at, at + EventLen(Kind) - 1))
  /\ at' = at + EventLen(Kind)
  /\ UNCHANGED <<file, header, mode, pos, buf, rtn_enter_events>>

\* Mutant of Carry: left is one too small.
CarryOneLess ==
  /\ mode = "scanning"
  /\ at <= Len(buf)
  /\ ~Whole
  /\ buf' = SubSeq(buf, at, Len(buf) - 1)
  /\ mode' = "reading"
  /\ UNCHANGED <<file, header, pos, at, rtn_enter_events, aux_delivered>>

\* An event that is cut stays in the buffer.
Carry ==
  /\ mode = "scanning"
  /\ at <= Len(buf)
  /\ ~Whole
  /\ buf' = SubSeq(buf, at, Len(buf))
  /\ mode' = "reading"
  /\ UNCHANGED <<file, header, pos, at, rtn_enter_events, aux_delivered>>

\* left is 0.
Analyzed ==
  /\ mode = "scanning"
  /\ at > Len(buf)
  /\ buf' = <<>>
  /\ mode' = "reading"
  /\ UNCHANGED <<file, header, pos, at, rtn_enter_events, aux_delivered>>

Init ==
  /\ mode = "new"
  /\ pos = 0
  /\ buf = <<>>
  /\ at = 1
  /\ rtn_enter_events = Unknown
  /\ aux_delivered = <<>>

Next == Open \/ Read \/ EndOfFile \/ Deliver \/ Carry \/ Analyzed

-----------------------------------------------------------------------------
(* Properties.                                                             *)

\* Every variable has its type; the buffer does not overflow.
TypeOK ==
  /\ mode \in {"new", "refused", "reading", "scanning", "done"}
  /\ pos \in 0 .. Len(file)
  /\ Len(buf) <= BufSize
  /\ at \in 1 .. Len(buf) + 1 \/ mode # "scanning"
  /\ rtn_enter_events \in Nat \cup {Unknown}

\* However the reads cut the file, the driver meets a type byte where it expects
\* one, and never panics.
TypeByteFirst == mode = "scanning" /\ at <= Len(buf) => buf[at][3] = 0

\* Nothing of the file is skipped or delivered twice: what was delivered, what is
\* in the buffer and what was not read make up the file.  At the end at most the
\* beginning of one event is left.
NothingSkipped ==
  LET open == IF mode = "scanning" THEN SubSeq(buf, at, Len(buf)) ELSE buf
  IN  /\ mode \in {"reading", "scanning", "done"} =>
           SubSeq(file, 1, Min({Len(file), HeaderLen})) \o FlattenSeq(aux_delivered)
             \o open \o SubSeq(file, pos + 1, Len(file)) = file
      /\ mode = "done" => pos = Len(file) /\ (buf # <<>> => Len(buf) < EventLen(buf[1][1]))

\* analyze_buffer and the reads behind it stay in step with the events of the file.
ScanIsInStep == TypeByteFirst /\ NothingSkipped

=============================================================================
