-------------------------------- MODULE Madt --------------------------------
(***************************************************************************)
(* acpi_init_madt of src/kernel/acpi/acpi.c: the walk through the entries  *)
(* of the MADT, which sorts pointers to them into seven arrays from        *)
(* kmalloc.  An entry names its own length, and the walk goes on behind    *)
(* it.                                                                     *)
(*                                                                         *)
(* The MADT is the sequence of its entries, a pointer to an entry its      *)
(* position.  An entry of length zero is one the walk does not leave.      *)
(***************************************************************************)
EXTENDS Naturals, Sequences

CONSTANT Room   \* pointers in ACPI_APIC_TBL_SIZE bytes (32)

(* The types of entries the kernel knows, named as its arrays are. *)
EntryTypes == {"proc_apic", "io_apic", "ioso_apic", "ionmi_apic",
               "nmi_lapic", "addro_lapic", "procx2_lapic"}

VARIABLES
    at,     \* ptr, the entry to look at
    tbl,    \* acpi.tbl; acpi.idx is the length of each array
    walk    \* "no", "walking", "done", or "overrun" of an array

madtVars == <<at, tbl, walk>>

Init ==
    /\ at = 1
    /\ tbl = [t \in EntryTypes |-> << >>]
    /\ walk = "no"

acpi_init_madt ==
    /\ walk = "no"
    /\ walk' = "walking"
    /\ UNCHANGED <<at, tbl>>

Stored_SharedIndex(madt) ==
    IF madt[at].type \in EntryTypes
    THEN [tbl EXCEPT !["proc_apic"] = Append(@, at)] ELSE tbl
Stored(madt) ==
    IF madt[at].type \in EntryTypes
    THEN [tbl EXCEPT ![madt[at].type] = Append(@, at)] ELSE tbl

(* ptr += length. *)
Behind_KnownOnly(madt) == IF madt[at].type \in EntryTypes THEN at + 1 ELSE at
Behind(madt) == IF madt[at].length = 0 THEN at ELSE at + 1

walk_entry(madt) ==
    /\ walk = "walking" /\ at <= Len(madt)
    /\ IF /\ madt[at].type \in EntryTypes
          /\ Len(tbl[madt[at].type]) = Room
       THEN walk' = "overrun" /\ UNCHANGED <<at, tbl>>
       ELSE /\ tbl' = Stored(madt)
            /\ at' = Behind(madt)
            /\ UNCHANGED walk

walk_end(madt) ==
    /\ walk = "walking" /\ at > Len(madt)
    /\ walk' = "done"
    /\ UNCHANGED <<at, tbl>>

Walk(madt) == acpi_init_madt \/ walk_entry(madt) \/ walk_end(madt)
=============================================================================
