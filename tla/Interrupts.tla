----------------------------- MODULE Interrupts -----------------------------
(***************************************************************************)
(* Interrupts and exceptions: the gates of src/kernel/isr/idt.c, the stubs *)
(* of src/kernel/asm/idt_table.asm, the handlers of src/kernel/isr/isr.c,  *)
(* and the end of interrupt of include/kernel/apic/apic.h, on a processor  *)
(* whose local APIC holds what the devices signal.                         *)
(*                                                                         *)
(* The stack holds a context for the kernel's main code, at the bottom,    *)
(* and one for each stub that has not returned.  The code of a context may *)
(* be at an instruction that faults; returning from a fault retries it.    *)
(***************************************************************************)
EXTENDS Naturals, Sequences, FiniteSets

CONSTANTS
    Irqs,       \* vectors of device interrupts
    Traps,      \* exceptions after which the instruction is over
    Faults,     \* exceptions after which the instruction is retried
    MaxSignals, \* a bound: how often devices signal and software traps
    None

GeneralProtection == 13
PageFault == 14
InvalidOpcode == 6
SpuriousInt == 255

ASSUME InterruptsAssumption ==
    /\ Irqs \subseteq 32 .. 47
    /\ Traps \cup Faults \subseteq 0 .. 31 /\ Traps \cap Faults = {}
    /\ MaxSignals \in Nat
    /\ None \notin Nat

VARIABLES
    stack,      \* what each unfinished context is, the running one last
    enabled,    \* IF: the processor takes interrupts
    irr,        \* vectors the local APIC will deliver
    inService,  \* vectors delivered and not ended
    handlers,   \* vectors with an entry in interupt_handlers
    last_num, num_pfs, num_gpfs,
    signals,
    status      \* "running" or "panic"

state == <<stack, enabled, irr, inService, status>>
counts == <<last_num, num_pfs, num_gpfs>>
vars == <<state, handlers, counts, signals>>

Running == status = "running"
Top == stack[Len(stack)]
AtFault == Top.fault # None

(* idt_init: the limit leaves out the last gate, and the gates after 47    *)
(* are not present.                                                        *)
Gates == 0 .. 47

(* A context, and the flag its return restores. *)
Context(vector, hardware) ==
    [vector |-> vector, hardware |-> hardware, flag |-> enabled, fault |-> None]

(* The processor enters a stub through an interrupt gate, which clears IF; *)
(* without a gate it is a general protection fault instead.                *)
enter(vector, hardware) ==
    /\ stack' = Append(stack, IF vector \in Gates
                              THEN Context(vector, hardware)
                              ELSE Context(GeneralProtection, FALSE))
    /\ enabled' = FALSE

return_stub_Sti ==
    /\ stack' = SubSeq(stack, 1, Len(stack) - 1)
    /\ enabled' = TRUE
return_stub ==
    /\ stack' = SubSeq(stack, 1, Len(stack) - 1)
    /\ enabled' = Top.flag

Init ==
    /\ stack = <<[vector |-> None, hardware |-> FALSE,
                  flag |-> FALSE, fault |-> None]>>
    /\ enabled = FALSE
    /\ irr = {}
    /\ inService = {}
    /\ handlers = {}
    /\ last_num = None
    /\ num_pfs = 0
    /\ num_gpfs = 0
    /\ signals = 0
    /\ status = "running"

-----------------------------------------------------------------------------
(* The main code. *)
InMain == Running /\ Len(stack) = 1 /\ ~ AtFault

register_interupt_handler(vector) ==
    /\ InMain /\ vector \notin handlers
    /\ handlers' = handlers \cup {vector}
    /\ UNCHANGED <<state, counts, signals>>

enable_interupts ==
    /\ InMain /\ ~ enabled
    /\ enabled' = TRUE
    /\ UNCHANGED <<stack, irr, inService, handlers, counts, signals,
                   status>>

(* int n with n a device's vector: no APIC is involved. *)
int(vector) ==
    /\ InMain /\ signals < MaxSignals
    /\ signals' = signals + 1
    /\ enter(vector, FALSE)
    /\ UNCHANGED <<irr, inService, handlers, counts, status>>

(* The main code, or a handler called by irq_handler, meets an instruction *)
(* that raises an exception.                                               *)
MayFault == \/ Len(stack) = 1
            \/ Top.vector \in Irqs \cap handlers
meet(exception) ==
    /\ Running /\ MayFault /\ ~ AtFault /\ signals < MaxSignals
    /\ signals' = signals + 1
    /\ stack' = [stack EXCEPT ![Len(stack)].fault = exception]
    /\ UNCHANGED <<enabled, irr, inService, handlers, counts, status>>

raise ==
    /\ Running /\ AtFault
    /\ stack' = Append(
            IF Top.fault \in Traps
            THEN [stack EXCEPT ![Len(stack)].fault = None] ELSE stack,
            Context(Top.fault, FALSE))
    /\ enabled' = FALSE
    /\ UNCHANGED <<irr, inService, handlers, counts, signals, status>>

-----------------------------------------------------------------------------
(* The local APIC.  All vectors of devices are of one priority class, so   *)
(* it delivers none while another is in service.                           *)
signal(vector) ==
    /\ Running /\ signals < MaxSignals /\ vector \notin irr
    /\ signals' = signals + 1
    /\ irr' = irr \cup {vector}
    /\ UNCHANGED <<stack, enabled, inService, handlers, counts, status>>

deliver(vector) ==
    /\ Running /\ enabled /\ vector \in irr /\ inService = {}
    /\ irr' = irr \ {vector}
    /\ inService' = {vector}
    /\ enter(vector, TRUE)
    /\ UNCHANGED <<handlers, counts, signals, status>>

(* An interrupt that goes away before it is taken: the spurious vector is  *)
(* delivered and nothing is in service.                                    *)
deliver_spurious(vector) ==
    /\ Running /\ enabled /\ vector \in irr /\ inService = {}
    /\ irr' = irr \ {vector}
    /\ enter(SpuriousInt, FALSE)
    /\ UNCHANGED <<inService, handlers, counts, signals, status>>

(* Writing the end of interrupt ends the highest vector in service. *)
Highest(vectors) == {v \in vectors : \A w \in vectors : w <= v}
AfterEOI == inService \ Highest(inService)

-----------------------------------------------------------------------------
(* irq_handler, after the handler of the vector has run, and its stub. *)
irq_handler_OnlyHandled ==
    /\ Running /\ Top.vector \in 32 .. 47 /\ ~ AtFault
    /\ inService' = IF Top.vector \in handlers THEN AfterEOI ELSE inService
    /\ return_stub
    /\ UNCHANGED <<irr, handlers, counts, signals, status>>
irq_handler ==
    /\ Running /\ Top.vector \in 32 .. 47 /\ ~ AtFault
    /\ inService' = AfterEOI
    /\ return_stub
    /\ UNCHANGED <<irr, handlers, counts, signals, status>>

return_or_panic(panics) ==
    /\ IF panics THEN status' = "panic" /\ UNCHANGED <<stack, enabled>>
                 ELSE status' = status /\ return_stub
    /\ UNCHANGED <<irr, inService, handlers, signals>>

handle_pagefault ==
    /\ num_pfs' = IF num_pfs > 3 THEN num_pfs ELSE num_pfs + 1
    /\ return_or_panic(num_pfs > 3)
    /\ UNCHANGED <<last_num, num_gpfs>>

handle_gpf ==
    /\ num_gpfs' = num_gpfs + 1
    /\ return_or_panic(num_gpfs' > 1)
    /\ UNCHANGED <<last_num, num_pfs>>

handle_error_generic_NotKept(num, recover) ==
    /\ last_num' = last_num
    /\ return_or_panic(num = last_num \/ ~ recover)
    /\ UNCHANGED <<num_pfs, num_gpfs>>
handle_error_generic(num, recover) ==
    LET panics == num = last_num \/ ~ recover
    IN  /\ last_num' = IF panics THEN last_num ELSE num
        /\ return_or_panic(panics)
        /\ UNCHANGED <<num_pfs, num_gpfs>>

isr_handler ==
    /\ Running /\ Top.vector \in 0 .. 31 /\ ~ AtFault
    /\ CASE Top.vector = PageFault         -> handle_pagefault
         [] Top.vector = GeneralProtection -> handle_gpf
         [] OTHER -> handle_error_generic(Top.vector,
                                          Top.vector # InvalidOpcode)

Next ==
    \/ \E vector \in Irqs \cup {SpuriousInt} : register_interupt_handler(vector)
    \/ enable_interupts
    \/ \E vector \in Irqs : int(vector)
    \/ \E exception \in Traps \cup Faults : meet(exception)
    \/ raise
    \/ \E vector \in Irqs :
          signal(vector) \/ deliver(vector) \/ deliver_spurious(vector)
    \/ irq_handler
    \/ isr_handler

(* The processor goes on: it raises what it met, handlers return, and the  *)
(* local APIC delivers what it can.                                        *)
Fairness ==
    /\ WF_vars(raise) /\ WF_vars(irq_handler) /\ WF_vars(isr_handler)
    /\ \A vector \in Irqs : WF_vars(deliver(vector))

Spec == Init /\ [][Next]_vars /\ Fairness
-----------------------------------------------------------------------------
(* Properties. *)

Contexts == [vector : (0 .. 255) \cup {None}, hardware : BOOLEAN,
             flag : BOOLEAN, fault : Traps \cup Faults \cup {None}]

(* What the local APIC has in service is what a stub on the stack is going *)
(* to end: no end is lost, and the one that int 47 sends ends nothing of   *)
(* another's (isr.c:163, kernel.c:162).                                    *)
ServiceHasItsHandler ==
    inService = {stack[i].vector :
                    i \in {j \in DOMAIN stack : stack[j].hardware}}

(* Interrupts are off until every stub has returned, although the stub of  *)
(* an exception that a handler met executes sti (idt_table.asm:210).       *)
HandlersUninterrupted == Len(stack) > 1 => ~ enabled

(* No handler fixes a fault, so its instruction is retried: the kernel     *)
(* panics in the end and does not retry for ever (isr.c:65, 95, 122).      *)
FaultsEnd ==
    (\E i \in DOMAIN stack : stack[i].fault \in Faults) ~> status = "panic"

(* Once interrupts are enabled, what a device signals is delivered, whether *)
(* or not the vectors before it had a handler (isr.c:156-163).             *)
SignalsDelivered ==
    \A vector \in Irqs :
        enabled /\ vector \in irr ~> vector \notin irr \/ status = "panic"

(* apic.c:61 registers spurious_handler, which says "SPURIOUS INTERUPT",   *)
(* for SPURIOUS_INT: a spurious interrupt is not an exception.             *)
SpuriousIsNoFault ==
    GeneralProtection \notin Faults =>
        \A i \in DOMAIN stack : stack[i].vector # GeneralProtection
=============================================================================
