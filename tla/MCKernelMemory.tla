--------------------------- MODULE MCKernelMemory ---------------------------
(* Small instances of KernelMemory: 9 pages behind KERNEL_VADDR, a bitmap  *)
(* of 16 pages, devices from page 16 on.                                   *)
EXTENDS KernelMemory

Region(from, to, isAvail) ==
    [addr |-> from * PageSize, len |-> (to - from) * PageSize,
     avail |-> isAvail]

(* Available, reserved and available memory. *)
Maps == {<<Region(0, x[1], TRUE), Region(x[1], x[2], FALSE),
           Region(x[2], 16, TRUE)>> :
            x \in {y \in {0, 2, 4, 6, 8, 12} \X {0, 4, 7, 8, 12, 16} :
                    y[1] <= y[2]}}
        \cup {<<Region(14, 16, FALSE), Region(0, 12, TRUE)>>}  \* not in order

Tables(apic, hpet) == <<[sig |-> "FACP", page |-> apic],
                        [sig |-> "APIC", page |-> apic],
                        [sig |-> "HPET", page |-> hpet]>>

AllTags == {"mmap", "framebuffer", "acpi_old", "acpi_new"}

(* Every map with one set of devices, and every set with one map. *)
SmallMachines ==
    [map : Maps, tags : {AllTags},
     fb : {[addr |-> 80, size |-> 7]},
     xsdt : {11}, tables : {Tables(11, 11)},
     lapic : {30}, ioapic : {28}, hpet : {28}]
    \cup
    [map : {<<Region(0, 16, TRUE)>>}, tags : {AllTags \ {"acpi_old"}},
     fb : {[addr |-> 80, size |-> 7], [addr |-> 82, size |-> 7],
           [addr |-> 80, size |-> 8]},
     xsdt : {11}, tables : {Tables(11, 11), Tables(11, 12), Tables(12, 11)},
     lapic : {30}, ioapic : {28, 10}, hpet : {28, 30, 31}]
    \cup
    [map : {<<Region(0, 16, TRUE)>>}, tags : SUBSET AllTags,
     fb : {[addr |-> 80, size |-> 7]},
     xsdt : {11}, tables : {Tables(11, 11), SubSeq(Tables(11, 11), 1, 2)},
     lapic : {30}, ioapic : {28}, hpet : {28}]

(* What the theorems about KernelMemory assume of its page tables. *)
ASSUME TablesAreEnough == PT!Enough
=============================================================================
