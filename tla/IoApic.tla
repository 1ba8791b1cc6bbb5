------------------------------- MODULE IoApic -------------------------------
(***************************************************************************)
(* The I/O APIC and its driver, src/kernel/apic/ioapic.c.  Each line that  *)
(* a device can signal, a GSI, has an entry in the redirection table with  *)
(* a vector and a mask bit.  An IRQ of the ISA bus has the GSI of the same *)
(* number unless the MADT holds an override for it.                        *)
(***************************************************************************)
EXTENDS Naturals, Sequences, FiniteSets

IDT_EXCEPTIONS == 32
NUM_IRQ == 16
IRQs == 0 .. NUM_IRQ - 1

VARIABLES
    redtbl,     \* the redirection table, a function from entry numbers
    max_redir,  \* ioapic.max_redir
    wanted,     \* IRQs whose last request, a call for all included, was
                \* to unmask them
    loose       \* IRQs that a call for all was to change, and that no
                \* request has named since

ioapicVars == <<redtbl, max_redir, wanted, loose>>

(* The entry that a number given as uint8_t reaches: registers have 8-bit  *)
(* numbers, and an entry has two of them from 16 on.  Registers that do    *)
(* not exist ignore writes.  The fields of an entry other than these two   *)
(* are kept or, the destination, set to the first processor.               *)
IOAPICREDTBL(n) == (16 + 2 * (n % 256)) % 256
Entries(n) == {e \in DOMAIN redtbl : 16 + 2 * e = IOAPICREDTBL(n)}

(* What the firmware left: entries for some vector, masked or not.         *)
Init(entries, bit) ==
    /\ redtbl = [e \in 0 .. entries - 1 |-> [vector |-> 8, masked |-> bit]]
    /\ max_redir = 0
    /\ wanted = {} /\ loose = {}

-----------------------------------------------------------------------------
(* The helpers, on a redirection table rt of as many entries.              *)
SetMask(rt, n, bit) ==
    IF n > max_redir THEN rt
    ELSE LET hit == Entries(n)
         IN  [e \in DOMAIN rt |-> IF e \in hit THEN [rt[e] EXCEPT !.masked = bit]
                                  ELSE rt[e]]

(* ioapic_mask and ioapic_unmask look for an override, but not for IRQ 0.  *)
OverrideOf(overrides, irq) ==
    {o \in 1 .. Len(overrides) : overrides[o].irq = irq /\
        \A p \in 1 .. o - 1 : overrides[p].irq # irq}
Line_NoOverrides(overrides, irq) == irq
Line(overrides, irq) ==
    IF irq = 0 \/ OverrideOf(overrides, irq) = {} THEN irq
    ELSE overrides[CHOOSE o \in OverrideOf(overrides, irq) : TRUE].gsi % 256

map_redtbl_entry_Unmasks(rt, n, irq) ==
    [e \in DOMAIN rt |->
        IF e \in Entries(n)
        THEN [vector |-> irq + IDT_EXCEPTIONS, masked |-> FALSE] ELSE rt[e]]
map_redtbl_entry(rt, n, irq) ==
    [e \in DOMAIN rt |->
        IF e \in Entries(n)
        THEN [vector |-> irq + IDT_EXCEPTIONS, masked |-> TRUE] ELSE rt[e]]

-----------------------------------------------------------------------------
(* ioapic_init: all entries are masked, those of the overrides are mapped, *)
(* and then those of the IRQs whose number no override has as its GSI.     *)
mask_entries(rt) ==
    [e \in DOMAIN rt |-> [rt[e] EXCEPT !.masked = @ \/ e <= max_redir']]

(* The last override of a GSI decides.                                     *)
map_overrides(rt, overrides) ==
    LET after[i \in 0 .. Len(overrides)] ==
            IF i = 0 THEN rt
            ELSE map_redtbl_entry(after[i - 1], overrides[i].gsi,
                                  overrides[i].irq)
    IN  after[Len(overrides)]

irq_map_Empty(overrides) == {}
irq_map(overrides) == {overrides[i].gsi : i \in 1 .. Len(overrides)} \cap IRQs

map_irqs(rt, overrides) ==
    [e \in DOMAIN rt |->
        IF e \in IRQs \ irq_map(overrides)
        THEN [vector |-> e + IDT_EXCEPTIONS, masked |-> TRUE] ELSE rt[e]]

ioapic_init(overrides) ==
    /\ max_redir' = Cardinality(DOMAIN redtbl) % 256
    /\ redtbl' = map_irqs(map_overrides(mask_entries(redtbl), overrides),
                          overrides)
    /\ wanted' = {} /\ loose' = {}

ioapic_mask(overrides, irq) ==
    /\ redtbl' = SetMask(redtbl, Line(overrides, irq), TRUE)
    /\ wanted' = wanted \ {irq} /\ loose' = loose \ {irq}
    /\ UNCHANGED max_redir

ioapic_unmask(overrides, irq) ==
    /\ redtbl' = SetMask(redtbl, Line(overrides, irq), FALSE)
    /\ wanted' = wanted \cup {irq} /\ loose' = loose \ {irq}
    /\ UNCHANGED max_redir

(* ioapic_mask_all and ioapic_unmask_all ask for all IRQs, but pass vectors *)
(* where IRQs are expected.                                                *)
SetAll(overrides, bit) ==
    LET irqs == IDT_EXCEPTIONS .. IDT_EXCEPTIONS + NUM_IRQ - 1
        lines == {Line(overrides, v) : v \in irqs} \cap 0 .. max_redir
        hit == UNION {Entries(n) : n \in lines}
    IN  [e \in DOMAIN redtbl |->
            IF e \in hit THEN [redtbl[e] EXCEPT !.masked = bit] ELSE redtbl[e]]
ioapic_mask_all(overrides) ==
    /\ redtbl' = SetAll(overrides, TRUE)
    /\ wanted' = {} /\ loose' = loose \cup wanted
    /\ UNCHANGED max_redir
ioapic_unmask_all(overrides) ==
    /\ redtbl' = SetAll(overrides, FALSE)
    /\ wanted' = IRQs \cup wanted /\ loose' = loose \cup (IRQs \ wanted)
    /\ UNCHANGED max_redir
=============================================================================
