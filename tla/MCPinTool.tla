----------------------------- MODULE MCPinTool -----------------------------
(* Small instances for TLC of what stands between a program under Pin and   *)
(* the algorithms of the trace analyzer: either the shadow stack, or the    *)
(* trace file, with TraceDriver reading it when the program has ended.      *)
EXTENDS TraceWriter, ShadowStack, TLC

CONSTANTS BufSize, Unknown

VARIABLES part,
          mode, pos, buf, at, rtn_enter_events, aux_delivered

driverVars == <<mode, pos, buf, at, rtn_enter_events, aux_delivered>>

Driver == INSTANCE TraceDriver

ASSUME DriverAssumption == Driver!ConstantsAssumption

PinToolInit ==
  /\ part \in {"file", "stack"}
  /\ Init /\ Driver!Init /\ StackInit
  /\ IF part = "file" THEN fixed ELSE callSite

Recording == part = "file" /\ UNCHANGED <<part, driverVars, stackVars>>

PinToolNext ==
  \/ Next /\ Recording
  \/ part = "file" /\ phase \in {"closed", "killed"} /\ Driver!Next
     /\ UNCHANGED <<part, vars, stackVars>>
  \/ part = "stack" /\ StackNext /\ UNCHANGED <<part, vars, driverVars>>

PinTool ==
  /\ PinToolInit
  /\ [][PinToolNext]_<<part, vars, driverVars, stackVars>>
  /\ WF_vars((Write \/ SwapAndWrite) /\ Recording)
  /\ WF_vars((DumpStart \/ DumpWrite \/ DumpEnd) /\ Recording)

\* Every variable has its type, and no buffer or stack overflows.
TypesOK == TypeOK /\ Driver!TypeOK /\ StackTypeOK

\* From the calls of the tool to the calls of the algorithm: the scan never
\* takes an operand for an event; a trace that was closed is delivered event by
\* event, and the algorithm knows their number; of one that was cut off, a
\* beginning is delivered.
RecordedIsDelivered ==
  LET recorded == [i \in DOMAIN aux_events |-> FlattenSeq(Pieces(aux_events[i]))]
  IN  /\ Driver!ScanIsInStep
      /\ IsPrefix(aux_delivered, recorded)
      /\ mode = "done" /\ phase = "closed" =>
           /\ aux_delivered = recorded
           /\ rtn_enter_events = rtnEvents[1]
=============================================================================
