---------------------------- MODULE TraceFormat ----------------------------
(***************************************************************************)
(* The stream of bytes that the Pin tool rectrace records and the trace    *)
(* analyzer reads: TraceWriter.cpp writes it, driver.c reads it.  A byte   *)
(* is named by what it belongs to: <<kind, number of the event, position   *)
(* in the event>>; the byte at position 0 is the type byte.                *)
(***************************************************************************)
EXTENDS Integers, SequencesExt

CONSTANTS Word,         \* sizeof(ADDRINT) and sizeof(unsigned long): 4
          HeaderWords   \* words of the header, the magic number first: 10

WordAssumption == Word \in {2, 4} /\ HeaderWords \in Nat \ {0, 1}

\* An event is <<kind, number>>.  The number of an enter event stands for the
\* address of the routine and the call site.
RtnExitEvent   == <<"RTN_EXIT", 0>>
TimerTickEvent == <<"TIMER_TICK", 0>>

\* RTN_ENTER_CS_LEN, RTN_ENTER_LEN, and the length of the others.
EventLen(kind) ==
  CASE kind = "RTN_ENTER_CS" -> 1 + Word + Word \div 2
    [] kind = "RTN_ENTER"    -> 1 + Word
    [] OTHER                 -> 1

\* Bytes i to j of an event.
EventBytes(e, i, j) == [k \in 1 .. j - i + 1 |-> <<e[1], e[2], i + k - 1>>]

\* What is recorded of e, in the pieces that are written at once: the type, the
\* address, the low half of the call site.
Pieces(e) ==
  CASE e[1] = "RTN_ENTER_CS" -> <<EventBytes(e, 0, 0), EventBytes(e, 1, Word),
                                  EventBytes(e, Word + 1, Word + Word \div 2)>>
    [] e[1] = "RTN_ENTER"    -> <<EventBytes(e, 0, 0), EventBytes(e, 1, Word)>>
    [] OTHER                 -> <<EventBytes(e, 0, 0)>>

\* The magic number, and room for the counts of events.
HeaderPieces == [w \in 1 .. HeaderWords |-> EventBytes(<<"HEADER", w>>, 1, Word)]

HeaderLen == HeaderWords * Word

StreamOf(events) == FlattenSeq([i \in DOMAIN events |-> FlattenSeq(Pieces(events[i]))])
=============================================================================
