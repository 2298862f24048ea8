---------------------------- MODULE ShadowStack ----------------------------
(***************************************************************************)
(* pin_tracer/stool/STool_PIN.cpp: one thread of a program under Pin.  The *)
(* tool sees call and return instructions with the value of the stack      *)
(* pointer, and keeps a shadow stack of activations, which it reports to   *)
(* the analysis: a push as a routine that is entered, a pop as an exit.    *)
(* It does not see longjmp: activations that are gone are found later, by  *)
(* their stack pointers.                                                   *)
(*                                                                         *)
(* The program is external: it calls, returns and jumps.  Its stack grows  *)
(* downwards.                                                              *)
(*                                                                         *)
(* With memBuf, as here, Pin collects the memory accesses of the thread in *)
(* a buffer, which the variants with the suffix Buf hand over before they  *)
(* report an exit.  Those with CS report the call site, too.               *)
(***************************************************************************)
EXTENDS Integers, Sequences

CONSTANTS Routines,     \* target addresses
          Stub,         \* an entry of a procedure linkage table
          StackBase,    \* bound: the stack pointer of a new thread
          InitStack,    \* INIT_STACK
          LibrariesPush,\* routines behind stubs push something before they call
          BufElements,  \* accesses that Pin's buffer holds: BUF_SIZE pages
          MaxAccesses   \* bound: accesses of the thread

ASSUME StackAssumption ==
  /\ Stub \notin Routines
  /\ StackBase \in Nat \ {0}
  /\ InitStack \in Nat \ {0}
  /\ LibrariesPush \in BOOLEAN
  /\ BufElements \in Nat \ {0}
  /\ MaxAccesses \in Nat

VARIABLES
  activationStack,  \* activationStack up to stackTop
  stackMaxSize,     \* stackMaxSize
  memBuffer,        \* Pin's buffer buf_id up to PIN_GetBufferPointer; an access is
                    \* the number of frames when it was made
  buf_addr,         \* buf_addr, from the start of the buffer
  \* The program, external:
  frames,           \* active calls: routine, stack pointer at the call, whether
                    \* through a stub, and (if fixed) stack pointer of its calls
  fixed,            \* each frame makes all its calls at that stack pointer
  \* History:
  aux_jumped,       \* longjmp since the last call or return
  aux_accesses,     \* all accesses
  aux_handed        \* what the analysis was given of them

memVars   == <<memBuffer, buf_addr, aux_accesses, aux_handed>>
stackVars == <<activationStack, stackMaxSize, frames, fixed, aux_jumped, memVars>>

Top == frames[Len(frames)]

\* The stack pointer at calls in a routine that was called at sp: the call has
\* pushed the address to return to, and the routine may push more.
Below(sp, plt) == 1 .. (IF plt /\ LibrariesPush THEN sp - 2 ELSE sp - 1)

CallPointers ==
  IF frames = <<>> THEN (IF fixed THEN {StackBase} ELSE 1 .. StackBase)
  ELSE IF fixed THEN {Top.out} ELSE Below(Top.sp, Top.plt)

-----------------------------------------------------------------------------
\* Mutant of Outlived: an activation just above the stack pointer goes.
OutlivedBelow(r, sp) == sp + 1 >= r.currentSP

\* Mutant of Outlived: nothing is rolled back.
OutlivedNever(r, sp) == FALSE

Outlived(r, sp) == sp >= r.currentSP

\* AdjustStack: activations are popped as long as the one on top has outlived
\* its call.
AdjustStack(act, sp) ==
  LET kept(n) == /\ \A i \in n + 1 .. Len(act) : Outlived(act[i], sp)
                 /\ n > 0 => ~Outlived(act[n], sp)
  IN  SubSeq(act, 1, CHOOSE n \in 0 .. Len(act) : kept(n))

\* The stack is doubled when it is full.
Grow(act) == IF Len(act) >= stackMaxSize THEN 2 * stackMaxSize ELSE stackMaxSize

\* The accesses that have not been handed over.
Waiting == SubSeq(memBuffer, buf_addr + 1, Len(memBuffer))

\* Mutant of HandOver: the buffer is not reset.
HandOverAgain ==
  /\ aux_handed' = aux_handed \o Waiting
  /\ UNCHANGED <<memBuffer, buf_addr, aux_accesses>>

\* memBuf, before an exit is reported.
HandOver ==
  /\ aux_handed' = aux_handed \o Waiting
  /\ buf_addr' = Len(memBuffer)
  /\ UNCHANGED <<memBuffer, aux_accesses>>

\* A_ProcessDirectCall pushes an activation, A_ProcessReturn pops one.
Pushed(act, target, sp) == Append(act, [currentSP |-> sp, target |-> target])

Popped(act) == SubSeq(act, 1, Len(act) - 1)

\* A_ProcessDirectCallBuf, and A_ProcessIndirectCallBuf.
ProcessCall(target, sp) ==
  LET act == AdjustStack(activationStack, sp)
  IN  /\ activationStack' = Pushed(act, target, sp)
      /\ stackMaxSize' = Grow(act)
      /\ IF act = activationStack THEN UNCHANGED memVars ELSE HandOver

\* A_ProcessReturnBuf: it ends the program if the stack has bottomed out.
ProcessReturn(sp) ==
  LET act == AdjustStack(activationStack, sp)
  IN  /\ act # <<>>
      /\ activationStack' = Popped(act)
      /\ HandOver
      /\ UNCHANGED stackMaxSize

\* BufferOverflow: Pin goes on at the start of the buffer.
BufferOverflow ==
  /\ aux_handed' = aux_handed \o Waiting
  /\ buf_addr' = 0
  /\ memBuffer' = <<Len(frames)>>

\* Instruction: Pin stores an access, if there is room.
Access ==
  /\ Len(aux_accesses) < MaxAccesses
  /\ aux_accesses' = Append(aux_accesses, Len(frames))
  /\ IF Len(memBuffer) < BufElements
     THEN /\ memBuffer' = Append(memBuffer, Len(frames))
          /\ UNCHANGED <<buf_addr, aux_handed>>
     ELSE BufferOverflow
  /\ UNCHANGED <<activationStack, stackMaxSize, frames, fixed, aux_jumped>>

-----------------------------------------------------------------------------
InStub == frames # <<>> /\ Top.routine = Stub

\* A call instruction.
Call(routine) ==
  /\ ~InStub
  /\ \E sp \in CallPointers : \E out \in IF fixed THEN Below(sp, routine = Stub) ELSE {0} :
       /\ ProcessCall(routine, sp)
       /\ frames' = Append(frames, [routine |-> routine, sp |-> sp, out |-> out,
                                    plt |-> routine = Stub])
  /\ aux_jumped' = FALSE
  /\ UNCHANGED fixed

\* The stub jumps to a routine of a library, which is taken for a call.
StubJump(routine) ==
  /\ InStub
  /\ ProcessCall(routine, Top.sp - 1)
  /\ frames' = [frames EXCEPT ![Len(frames)].routine = routine]
  /\ aux_jumped' = FALSE
  /\ UNCHANGED fixed

\* A return instruction finds the address to return to on top of the stack.
Return ==
  /\ ~InStub
  /\ frames # <<>>
  /\ ProcessReturn(Top.sp - 1)
  /\ frames' = SubSeq(frames, 1, Len(frames) - 1)
  /\ aux_jumped' = FALSE
  /\ UNCHANGED fixed

\* longjmp to one of the callers.
Longjmp ==
  /\ ~InStub
  /\ \E n \in 0 .. Len(frames) - 1 : frames' = SubSeq(frames, 1, n)
  /\ aux_jumped' = TRUE
  /\ UNCHANGED <<activationStack, stackMaxSize, fixed, memVars>>

\* ThreadStart.
StackInit ==
  /\ activationStack = <<>>
  /\ stackMaxSize = InitStack
  /\ frames = <<>>
  /\ fixed \in BOOLEAN
  /\ aux_jumped = FALSE
  /\ memBuffer = <<>>
  /\ buf_addr = 0
  /\ aux_accesses = <<>>
  /\ aux_handed = <<>>

StackNext ==
  \/ Return \/ Longjmp \/ Access
  \/ Call(Stub) \/ \E r \in Routines : Call(r) \/ StubJump(r)

StackSpec == StackInit /\ [][StackNext]_stackVars

-----------------------------------------------------------------------------
(* Properties.                                                             *)

Activation == [currentSP : 0 .. StackBase, target : Routines \cup {Stub}]

Frame == [routine : Routines \cup {Stub}, sp : 1 .. StackBase, out : 0 .. StackBase,
          plt : BOOLEAN]

\* Every variable has its type; the stack has room for what was pushed, and so has
\* the buffer for the accesses.
StackTypeOK ==
  /\ activationStack \in Seq(Activation)
  /\ stackMaxSize \in Nat
  /\ Len(activationStack) <= stackMaxSize
  /\ frames \in Seq(Frame)
  /\ fixed \in BOOLEAN /\ aux_jumped \in BOOLEAN
  /\ memBuffer \in Seq(Nat) /\ Len(memBuffer) <= BufElements
  /\ buf_addr \in 0 .. Len(memBuffer)
  /\ aux_accesses \in Seq(Nat) /\ aux_handed \in Seq(Nat)

\* What should be on the stack for frame f: two activations, if through a stub.
RecordsOf(f) ==
  (IF f.plt THEN {[currentSP |-> f.sp, target |-> Stub]} ELSE {}) \cup
  (IF f.routine = Stub THEN {}
   ELSE {[currentSP |-> IF f.plt THEN f.sp - 1 ELSE f.sp, target |-> f.routine]})

OnStack == {activationStack[i] : i \in DOMAIN activationStack}
Active  == UNION {RecordsOf(frames[i]) : i \in DOMAIN frames}

\* No activation of a call that is still active is ever popped.
ActiveCallsAreReported == Active \subseteq OnStack

\* A return ends its own call, whatever longjmp has left above it; the stack never
\* bottoms out.
ReturnEndsItsCall ==
  frames # <<>> /\ ~InStub =>
    LET act == AdjustStack(activationStack, Top.sp - 1)
    IN  /\ act # <<>>
        /\ act[Len(act)].currentSP = Top.sp
        /\ act[Len(act)].target = IF Top.plt THEN Stub ELSE Top.routine

\* Calls that longjmp has ended are rolled back at the next call or return, in
\* programs whose frames make all their calls at one stack pointer.
LongjmpIsRolledBack == fixed /\ ~aux_jumped => OnStack = Active

\* Accesses are handed over once and in order, and those of a call no later than
\* its exit is reported, at the next call or return if by longjmp.
AccessesAreHandedOver ==
  /\ aux_handed \o Waiting = aux_accesses
  /\ fixed /\ ~aux_jumped => \A i \in DOMAIN Waiting : Waiting[i] <= Len(frames)

\* The shadow stack holds the active calls: none of them is popped early, a
\* return pops its own, and what longjmp leaves is gone at the next event, after
\* its accesses.
CallsAreReported ==
  /\ ActiveCallsAreReported /\ ReturnEndsItsCall /\ LongjmpIsRolledBack
  /\ AccessesAreHandedOver
=============================================================================
