-------------------------- MODULE InterruptsProofs --------------------------
(***************************************************************************)
(* Handlers are not interrupted and every interrupt in service is ended,   *)
(* for any devices, exceptions and number of signals.                      *)
(***************************************************************************)
EXTENDS Interrupts, TLAPS

(* The main code, at the bottom, is the only context that is no stub.      *)
MainBelow ==
    /\ stack \in Seq(Contexts) /\ Len(stack) >= 1
    /\ stack[1].vector = None /\ ~ stack[1].hardware

(* A stub of a device's vector, from a device or from int, was entered by  *)
(* the main code; those above it are of exceptions (isr.c:156).            *)
DevicesFirst ==
    \A i \in DOMAIN stack :
        /\ stack[i].vector \in 32 .. 47 => i = 2
        /\ stack[i].hardware => stack[i].vector \in 32 .. 47

(* Only the stub that the main code entered may return to code that is     *)
(* interrupted: the flag that the others restore is clear.                 *)
FlagsClear ==
    /\ enabled \in BOOLEAN
    /\ \A i \in DOMAIN stack : i > 2 => ~ stack[i].flag

(* The inductive invariant: that interrupts are off keeps devices from     *)
(* being delivered above another stub, and that in turn makes the last     *)
(* vector in service the one that irq_handler ends.                        *)
StubsInv ==
    /\ MainBelow
    /\ DevicesFirst
    /\ FlagsClear
    /\ HandlersUninterrupted
    /\ ServiceHasItsHandler

-----------------------------------------------------------------------------
(* What stays true when a stub is entered and when one returns.            *)

(* The vectors of a stack that devices' stubs are in.                      *)
Delivered(s) == {s[i].vector : i \in {j \in DOMAIN s : s[j].hardware}}

(* At first there is only the main code. *)
LEMMA StubsInvInit == Init => StubsInv
<1> SUFFICES ASSUME Init PROVE StubsInv
  OBVIOUS
<1> DEFINE main == [vector |-> None, hardware |-> FALSE, flag |-> FALSE,
                    fault |-> None]
<1>1. stack = <<main>> /\ main \in Contexts
  BY DEF Init, Contexts
<1>2. stack \in Seq(Contexts) /\ Len(stack) = 1 /\ stack[1] = main
         /\ DOMAIN stack = {1}
  BY <1>1
<1>3. None \notin 32 .. 47
  BY InterruptsAssumption
<1>4. ServiceHasItsHandler
  BY <1>2 DEF Init, ServiceHasItsHandler
<1>5. MainBelow
  BY <1>2 DEF MainBelow
<1>6. DevicesFirst
  BY <1>2, <1>3 DEF DevicesFirst
<1>7. FlagsClear /\ HandlersUninterrupted
  <2>1. enabled = FALSE
    BY DEF Init
  <2>2. \A i \in DOMAIN stack : ~ (i > 2)
    BY <1>2
  <2>3. QED BY <1>2, <2>1, <2>2 DEF FlagsClear, HandlersUninterrupted
<1>8. QED
  BY <1>4, <1>5, <1>6, <1>7 DEF StubsInv

(* A stub entered above the running context, when it is of an exception or *)
(* the main code runs.                                                     *)
LEMMA EnterKeeps ==
    ASSUME StubsInv, NEW c \in Contexts, NEW base \in Seq(Contexts),
           Len(base) = Len(stack),
           \A i \in DOMAIN stack :
                /\ base[i].vector = stack[i].vector
                /\ base[i].hardware = stack[i].hardware
                /\ base[i].flag = stack[i].flag,
           stack' = Append(base, c), c.flag = enabled, enabled' = FALSE,
           c.vector \in 32 .. 47 => Len(stack) = 1,
           c.hardware => c.vector \in 32 .. 47
    PROVE  /\ MainBelow' /\ DevicesFirst' /\ FlagsClear'
           /\ HandlersUninterrupted'
           /\ Delivered(stack') = Delivered(stack) \cup
                    (IF c.hardware THEN {c.vector} ELSE {})
<1> USE DEF StubsInv
<1>1. /\ stack \in Seq(Contexts) /\ Len(stack) \in Nat /\ Len(stack) >= 1
      /\ DOMAIN stack = 1 .. Len(stack)
  BY DEF MainBelow
<1>2. /\ stack' \in Seq(Contexts) /\ Len(stack') = Len(stack) + 1
      /\ DOMAIN stack' = 1 .. Len(stack) + 1
      /\ stack'[Len(stack) + 1] = c
      /\ \A i \in DOMAIN stack : stack'[i] = base[i]
  BY <1>1
<1>3. \A i \in DOMAIN stack :
            /\ stack'[i].vector = stack[i].vector
            /\ stack'[i].hardware = stack[i].hardware
            /\ stack'[i].flag = stack[i].flag
  BY <1>2
<1>4. MainBelow'
  <2>1. stack[1].vector = None /\ ~ stack[1].hardware /\ 1 \in DOMAIN stack
    BY <1>1 DEF MainBelow
  <2>2. stack'[1].vector = None /\ ~ stack'[1].hardware
    BY <1>3, <2>1
  <2>3. QED BY <1>1, <1>2, <2>2 DEF MainBelow
<1>5. DevicesFirst'
  <2> SUFFICES ASSUME NEW i \in DOMAIN stack'
               PROVE  /\ stack'[i].vector \in 32 .. 47 => i = 2
                      /\ stack'[i].hardware => stack'[i].vector \in 32 .. 47
    BY DEF DevicesFirst
  <2>1. CASE i \in DOMAIN stack
    BY <1>3, <2>1 DEF DevicesFirst
  <2>2. CASE i = Len(stack) + 1
    BY <1>1, <1>2, <2>2
  <2>3. QED BY <1>1, <1>2, <2>1, <2>2
<1>6. FlagsClear'
  <2>1. ASSUME NEW i \in DOMAIN stack', i > 2 PROVE ~ stack'[i].flag
    <3>1. CASE i \in DOMAIN stack
      BY <1>3, <2>1, <3>1 DEF FlagsClear
    <3>2. CASE i = Len(stack) + 1
      BY <1>1, <1>2, <2>1, <3>2 DEF HandlersUninterrupted
    <3>3. QED BY <1>1, <1>2, <3>1, <3>2
  <2>2. QED BY <2>1 DEF FlagsClear
<1>7. Delivered(stack') = Delivered(stack) \cup
            (IF c.hardware THEN {c.vector} ELSE {})
  <2>1. {j \in DOMAIN stack' : stack'[j].hardware} =
            {j \in DOMAIN stack : stack[j].hardware} \cup
                (IF c.hardware THEN {Len(stack) + 1} ELSE {})
    BY <1>1, <1>2, <1>3, SMTT(30)
  <2>2. CASE c.hardware
    <3> DEFINE on == {j \in DOMAIN stack : stack[j].hardware}
               top == Len(stack) + 1
    <3>1. {j \in DOMAIN stack' : stack'[j].hardware} = on \cup {top}
      BY <2>1, <2>2
    <3>2. stack'[top].vector = c.vector
            /\ \A i \in on : stack'[i].vector = stack[i].vector
      BY <1>2, <1>3
    <3> HIDE DEF on, top
    <3>3. {stack'[i].vector : i \in on \cup {top}}
            = {stack[i].vector : i \in on} \cup {c.vector}
      <4>1. ASSUME NEW i \in on \cup {top}
            PROVE  stack'[i].vector \in
                        {stack[j].vector : j \in on} \cup {c.vector}
        BY <3>2
      <4>2. c.vector \in {stack'[i].vector : i \in on \cup {top}}
        BY <3>2
      <4>3. ASSUME NEW i \in on
            PROVE  stack[i].vector \in
                        {stack'[j].vector : j \in on \cup {top}}
        BY <3>2
      <4>4. QED BY <4>1, <4>2, <4>3
    <3>4. QED BY <2>2, <3>1, <3>3 DEF Delivered, on
  <2>3. CASE ~ c.hardware
    <3>1. {j \in DOMAIN stack' : stack'[j].hardware} =
                {j \in DOMAIN stack : stack[j].hardware}
      BY <2>1, <2>3
    <3>2. Delivered(stack') = Delivered(stack)
      BY <1>3, <3>1, ZenonT(30) DEF Delivered
    <3>3. QED BY <2>3, <3>2
  <2>4. QED BY <2>2, <2>3
<1>8. QED BY <1>4, <1>5, <1>6, <1>7 DEF HandlersUninterrupted

(* A stub that returns is not the main code, and what runs then is the     *)
(* main code, or interrupts stay off (idt_table.asm:210).                  *)
LEMMA ReturnKeeps ==
    ASSUME StubsInv, Top.vector # None, return_stub
    PROVE  /\ Len(stack) > 1
           /\ MainBelow' /\ DevicesFirst' /\ FlagsClear'
           /\ HandlersUninterrupted'
           /\ Top.hardware => Delivered(stack') = {} /\ inService = {Top.vector}
           /\ ~ Top.hardware => Delivered(stack') = Delivered(stack)
<1> USE DEF StubsInv
<1>1. /\ stack \in Seq(Contexts) /\ Len(stack) \in Nat /\ Len(stack) > 1
      /\ DOMAIN stack = 1 .. Len(stack)
      /\ stack[1].vector = None /\ ~ stack[1].hardware
      /\ Len(stack) \in DOMAIN stack
  BY DEF MainBelow, Top
<1>2. /\ stack' \in Seq(Contexts) /\ Len(stack') = Len(stack) - 1
      /\ DOMAIN stack' = 1 .. Len(stack) - 1
      /\ \A i \in 1 .. Len(stack) - 1 : stack'[i] = stack[i]
  BY <1>1 DEF return_stub
<1>3. MainBelow'
  BY <1>1, <1>2 DEF MainBelow
<1>4. DevicesFirst'
  <2>1. ASSUME NEW i \in DOMAIN stack'
        PROVE  /\ stack'[i].vector \in 32 .. 47 => i = 2
               /\ stack'[i].hardware => stack'[i].vector \in 32 .. 47
    <3>1. i \in DOMAIN stack /\ stack'[i] = stack[i]
      BY <1>1, <1>2
    <3>2. QED BY <3>1 DEF DevicesFirst
  <2>2. QED BY <2>1 DEF DevicesFirst
<1>5. enabled' \in BOOLEAN /\ (Len(stack) > 2 => ~ enabled')
  <2>1. stack[Len(stack)] \in Contexts /\ enabled' = stack[Len(stack)].flag
    BY <1>1 DEF return_stub, Top
  <2>2. enabled' \in BOOLEAN
    BY <2>1 DEF Contexts
  <2>3. QED BY <1>1, <2>1, <2>2 DEF FlagsClear
<1>6. FlagsClear' /\ HandlersUninterrupted'
  BY <1>1, <1>2, <1>5 DEF FlagsClear, HandlersUninterrupted
<1>7. ASSUME Top.hardware
      PROVE  Delivered(stack') = {} /\ inService = {Top.vector}
  <2>1. Len(stack) = 2
    BY <1>1, <1>7 DEF DevicesFirst, Top
  <2>2. {j \in DOMAIN stack : stack[j].hardware} = {2}
    BY <1>1, <1>7, <2>1 DEF Top
  <2>3. {j \in DOMAIN stack' : stack'[j].hardware} = {}
    BY <1>1, <1>2, <2>1
  <2>4. QED
    BY <2>1, <2>2, <2>3 DEF ServiceHasItsHandler, Delivered, Top
<1>8. ASSUME ~ Top.hardware PROVE Delivered(stack') = Delivered(stack)
  <2>1. {j \in DOMAIN stack' : stack'[j].hardware} =
            {j \in DOMAIN stack : stack[j].hardware}
    BY <1>1, <1>2, <1>8 DEF Top
  <2>2. QED BY <1>1, <1>2, <2>1 DEF Delivered
<1>9. QED BY <1>1, <1>3, <1>4, <1>6, <1>7, <1>8

-----------------------------------------------------------------------------
(* The steps. *)

(* A stub is entered for a vector that has a gate, or for the general      *)
(* protection fault; its context is one of Contexts.                       *)
LEMMA ContextType ==
    ASSUME StubsInv, NEW v \in 0 .. 47, NEW h \in BOOLEAN
    PROVE  /\ Context(v, h) \in Contexts
           /\ Context(v, h).vector = v /\ Context(v, h).hardware = h
           /\ Context(v, h).flag = enabled
<1>1. enabled \in BOOLEAN
  BY DEF StubsInv, FlagsClear
<1>2. v \in 0 .. 255
  OBVIOUS
<1>3. QED BY <1>1, <1>2 DEF Context, Contexts

(* Everything that enters a stub for v: a device, int, or an exception.    *)
LEMMA StubEntered ==
    ASSUME StubsInv, NEW v \in 0 .. 47, NEW h \in BOOLEAN,
           NEW base \in Seq(Contexts), Len(base) = Len(stack),
           \A i \in DOMAIN stack :
                /\ base[i].vector = stack[i].vector
                /\ base[i].hardware = stack[i].hardware
                /\ base[i].flag = stack[i].flag,
           stack' = Append(base, Context(v, h)), enabled' = FALSE,
           v \in 32 .. 47 => Len(stack) = 1,
           h => v \in 32 .. 47,
           inService' = inService \cup (IF h THEN {v} ELSE {})
    PROVE  StubsInv'
<1>1. PICK c \in Contexts : c = Context(v, h) /\ c.vector = v
                             /\ c.hardware = h /\ c.flag = enabled
  BY ContextType
<1>2. /\ MainBelow' /\ DevicesFirst' /\ FlagsClear' /\ HandlersUninterrupted'
      /\ Delivered(stack') = Delivered(stack) \cup (IF h THEN {v} ELSE {})
  <2>1. /\ stack' = Append(base, c) /\ c.flag = enabled
        /\ c.vector \in 32 .. 47 => Len(stack) = 1
        /\ c.hardware => c.vector \in 32 .. 47
    BY <1>1
  <2>2. /\ MainBelow' /\ DevicesFirst' /\ FlagsClear'
        /\ HandlersUninterrupted'
        /\ Delivered(stack') = Delivered(stack) \cup
                (IF c.hardware THEN {c.vector} ELSE {})
    BY <2>1, EnterKeeps
  <2>3. QED BY <1>1, <2>2
<1>3. inService = Delivered(stack)
  BY DEF StubsInv, ServiceHasItsHandler, Delivered
<1>4. ServiceHasItsHandler'
  BY <1>2, <1>3 DEF ServiceHasItsHandler, Delivered
<1>5. QED BY <1>2, <1>4 DEF StubsInv

(* A context that meets an exception, or is about to raise a trap, is the  *)
(* same but for that.                                                      *)
FaultNoted(s) ==
    /\ s \in Seq(Contexts) /\ Len(s) = Len(stack)
    /\ \A i \in DOMAIN stack :
            /\ s[i].vector = stack[i].vector
            /\ s[i].hardware = stack[i].hardware
            /\ s[i].flag = stack[i].flag
LEMMA NoteFault ==
    ASSUME stack \in Seq(Contexts), Len(stack) >= 1,
           NEW fault \in Traps \cup Faults \cup {None}
    PROVE  FaultNoted([stack EXCEPT ![Len(stack)].fault = fault])
<1>1. /\ Len(stack) \in DOMAIN stack /\ DOMAIN stack = 1 .. Len(stack)
      /\ stack[Len(stack)] \in Contexts
  OBVIOUS
<1>2. PICK c : c = [stack[Len(stack)] EXCEPT !.fault = fault]
  OBVIOUS
<1>3. /\ c \in Contexts /\ c.vector = stack[Len(stack)].vector
      /\ c.hardware = stack[Len(stack)].hardware
      /\ c.flag = stack[Len(stack)].flag
  BY <1>1, <1>2 DEF Contexts
<1>4. PICK s : s = [stack EXCEPT ![Len(stack)] = c]
  OBVIOUS
<1>5. /\ s \in Seq(Contexts) /\ Len(s) = Len(stack)
      /\ \A i \in DOMAIN stack : s[i] = IF i = Len(stack) THEN c ELSE stack[i]
  BY <1>1, <1>3, <1>4
<1>6. FaultNoted(s)
  BY <1>3, <1>5 DEF FaultNoted
<1>7. QED BY <1>2, <1>4, <1>6

(* Each step keeps the order of the stubs. *)
LEMMA StubsInvStep == StubsInv /\ [Next]_vars => StubsInv'
<1> SUFFICES ASSUME StubsInv, [Next]_vars PROVE StubsInv'
  OBVIOUS
<1>1. /\ stack \in Seq(Contexts) /\ Len(stack) \in Nat /\ Len(stack) >= 1
      /\ DOMAIN stack = 1 .. Len(stack) /\ Len(stack) \in DOMAIN stack
      /\ Top \in Contexts
  BY DEF StubsInv, MainBelow, Top
<1>2. /\ Irqs \subseteq 32 .. 47 /\ Traps \cup Faults \subseteq 0 .. 31
      /\ None \notin Nat
  BY InterruptsAssumption
<1>3. ASSUME stack' = stack, enabled' \in BOOLEAN, inService' = inService,
             enabled' = enabled \/ Len(stack) = 1
      PROVE  StubsInv'
  BY <1>3 DEF StubsInv, MainBelow, DevicesFirst, FlagsClear,
        HandlersUninterrupted, ServiceHasItsHandler
<1>4. ASSUME NEW v \in 0 .. 31, Top.vector = v, inService' = inService,
             \/ return_stub
             \/ UNCHANGED <<stack, enabled>>
      PROVE  StubsInv'
  <2>1. CASE return_stub
    <3>1. v # None /\ v \notin 32 .. 47
      BY <1>2
    <3>2. ~ Top.hardware
      BY <1>1, <1>4, <3>1 DEF StubsInv, DevicesFirst, Top
    <3>3. QED
      BY <1>4, <2>1, <3>1, <3>2, ReturnKeeps
      DEF StubsInv, ServiceHasItsHandler, Delivered
  <2>2. CASE UNCHANGED <<stack, enabled>>
    BY <1>3, <1>4, <2>2 DEF StubsInv, FlagsClear
  <2>3. QED BY <1>4, <2>1, <2>2
<1>5. ASSUME NEW v \in Irqs \cup {SpuriousInt}, register_interupt_handler(v)
      PROVE  StubsInv'
  BY <1>3, <1>5 DEF register_interupt_handler, state, StubsInv, FlagsClear
<1>6. CASE enable_interupts
  BY <1>3, <1>6 DEF enable_interupts, InMain
<1>7. ASSUME NEW v \in Irqs, int(v) PROVE StubsInv'
  <2>1. stack' = Append(stack, Context(v, FALSE)) /\ Len(stack) = 1
    <3>1. v \in Gates
      BY <1>2 DEF Gates
    <3>2. QED BY <1>7, <3>1 DEF int, enter, InMain
  <2>2. v \in 0 .. 47 /\ enabled' = FALSE /\ inService' = inService
    BY <1>2, <1>7 DEF int, enter
  <2>3. QED BY <1>1, <2>1, <2>2, StubEntered
<1>8. ASSUME NEW exception \in Traps \cup Faults, meet(exception)
      PROVE  StubsInv'
  <2>1. /\ stack' = [stack EXCEPT ![Len(stack)].fault = exception]
        /\ enabled' = enabled /\ inService' = inService
    BY <1>8 DEF meet
  <2>2. FaultNoted(stack')
    BY <1>1, <2>1, NoteFault
  <2>3. /\ stack' \in Seq(Contexts) /\ Len(stack') = Len(stack)
        /\ DOMAIN stack' = DOMAIN stack
    BY <1>1, <2>2 DEF FaultNoted
  <2>4. MainBelow' /\ DevicesFirst' /\ FlagsClear' /\ HandlersUninterrupted'
    BY <1>1, <2>1, <2>2, <2>3, SMTT(30)
    DEF StubsInv, MainBelow, DevicesFirst, FlagsClear, HandlersUninterrupted,
        FaultNoted
  <2>5. {stack'[i].vector : i \in {j \in DOMAIN stack' : stack'[j].hardware}}
        = {stack[i].vector : i \in {j \in DOMAIN stack : stack[j].hardware}}
    BY <2>2, <2>3 DEF FaultNoted
  <2>6. QED BY <2>1, <2>4, <2>5 DEF StubsInv, ServiceHasItsHandler
<1>9. CASE raise
  <2> DEFINE base == IF Top.fault \in Traps
                     THEN [stack EXCEPT ![Len(stack)].fault = None] ELSE stack
  <2>1. /\ stack' = Append(base, Context(Top.fault, FALSE))
        /\ enabled' = FALSE /\ inService' = inService /\ Top.fault # None
    BY <1>9 DEF raise, AtFault
  <2>2. Top.fault \in 0 .. 31
    BY <1>1, <1>2, <2>1 DEF Contexts
  <2>3. /\ base \in Seq(Contexts) /\ Len(base) = Len(stack)
        /\ \A i \in DOMAIN stack :
                /\ base[i].vector = stack[i].vector
                /\ base[i].hardware = stack[i].hardware
                /\ base[i].flag = stack[i].flag
    BY <1>1, NoteFault DEF FaultNoted
  <2>4. Top.fault \in 0 .. 47 /\ Top.fault \notin 32 .. 47
    BY <2>2
  <2> HIDE DEF base
  <2>5. QED BY <2>1, <2>3, <2>4, StubEntered
<1>10. ASSUME NEW v \in Irqs, signal(v) PROVE StubsInv'
  BY <1>3, <1>10 DEF signal, StubsInv, FlagsClear
<1>11. ASSUME NEW v \in Irqs, deliver(v) PROVE StubsInv'
  <2>1. stack' = Append(stack, Context(v, TRUE))
    <3>1. v \in Gates
      BY <1>2 DEF Gates
    <3>2. QED BY <1>11, <3>1 DEF deliver, enter
  <2>2. Len(stack) = 1
    BY <1>1, <1>11 DEF deliver, StubsInv, HandlersUninterrupted
  <2>3. v \in 32 .. 47 /\ v \in 0 .. 47 /\ enabled' = FALSE
            /\ inService' = inService \cup {v}
    BY <1>2, <1>11 DEF deliver, enter
  <2>4. QED BY <1>1, <2>1, <2>2, <2>3, StubEntered
<1>12. ASSUME NEW v \in Irqs, deliver_spurious(v) PROVE StubsInv'
  <2>1. stack' = Append(stack, Context(GeneralProtection, FALSE))
    <3>1. SpuriousInt \notin Gates
      BY DEF Gates, SpuriousInt
    <3>2. QED BY <1>12, <3>1 DEF deliver_spurious, enter
  <2>2. GeneralProtection \in 0 .. 47 /\ GeneralProtection \notin 32 .. 47
            /\ enabled' = FALSE /\ inService' = inService
    BY <1>12 DEF deliver_spurious, enter, GeneralProtection
  <2>3. QED BY <1>1, <2>1, <2>2, StubEntered
<1>13. CASE irq_handler
  <2>1. Top.vector \in 32 .. 47 /\ return_stub /\ inService' = AfterEOI
    BY <1>13 DEF irq_handler
  <2>2. Top.vector # None
    BY <1>2, <2>1
  <2>3. inService = Delivered(stack)
    BY DEF StubsInv, ServiceHasItsHandler, Delivered
  <2>4. inService' = Delivered(stack')
    <3>1. CASE Top.hardware
      BY <2>1, <2>2, <3>1, ReturnKeeps DEF AfterEOI, Highest
    <3>2. CASE ~ Top.hardware
      <4>1. Len(stack) = 2
        BY <1>1, <2>1 DEF StubsInv, DevicesFirst, Top
      <4>2. {j \in DOMAIN stack : stack[j].hardware} = {}
        BY <1>1, <3>2, <4>1 DEF StubsInv, MainBelow, Top
      <4>3. inService = {}
        BY <2>3, <4>2 DEF Delivered
      <4>4. QED
        BY <2>1, <2>2, <2>3, <3>2, <4>3, ReturnKeeps DEF AfterEOI
    <3>3. QED BY <3>1, <3>2
  <2>5. QED
    BY <2>1, <2>2, <2>4, ReturnKeeps
    DEF StubsInv, ServiceHasItsHandler, Delivered
<1>14. CASE isr_handler
  <2>1. Top.vector \in 0 .. 31 /\ inService' = inService
    BY <1>14
    DEF isr_handler, handle_pagefault, handle_gpf, handle_error_generic,
        return_or_panic
  <2>2. return_stub \/ UNCHANGED <<stack, enabled>>
    BY <1>14
    DEF isr_handler, handle_pagefault, handle_gpf, handle_error_generic,
        return_or_panic
  <2>3. QED BY <1>4, <2>1, <2>2
<1>15. CASE UNCHANGED vars
  BY <1>3, <1>15 DEF vars, state, StubsInv, FlagsClear
<1>16. QED
  BY <1>5, <1>6, <1>7, <1>8, <1>9, <1>10, <1>11, <1>12, <1>13, <1>14, <1>15
  DEF Next

(* Whatever devices and exceptions come in whatever order, interrupts stay *)
(* off until every stub has returned (idt.c:25, idt_table.asm:210).        *)
THEOREM NoHandlerIsInterrupted == Spec => []HandlersUninterrupted
<1>1. StubsInv => HandlersUninterrupted
  BY DEF StubsInv
<1>2. QED BY StubsInvInit, StubsInvStep, <1>1, PTL DEF Spec

(* No end of interrupt is lost and none ends another's interrupt: what is  *)
(* in service is what a stub on the stack will end (isr.c:163).            *)
THEOREM EveryInterruptIsEnded == Spec => []ServiceHasItsHandler
<1>1. StubsInv => ServiceHasItsHandler
  BY DEF StubsInv
<1>2. QED BY StubsInvInit, StubsInvStep, <1>1, PTL DEF Spec
=============================================================================
