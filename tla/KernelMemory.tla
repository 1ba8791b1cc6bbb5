---------------------------- MODULE KernelMemory ----------------------------
(***************************************************************************)
(* How kmain (src/kernel/kernel.c) puts the memory management together:    *)
(* the boot loader's tags in any order, then virtmem_init, the heap, and   *)
(* the drivers, each of which maps what it goes on to use.  The physical   *)
(* allocator is PhysMem and the page tables are PageTables, whose blocks   *)
(* are pages of PhysMem.                                                   *)
(*                                                                         *)
(* An init function is the sequence of the steps of it that concern        *)
(* memory.  Devices are mapped where they are: a page of them has the same *)
(* number as virtual and as physical page.  The processor's cache is left  *)
(* to PageTables.                                                          *)
(***************************************************************************)
EXTENDS Naturals, Sequences, FiniteSets

CONSTANTS
    PageSize, WordBits, IntBits, ByteBits, PmmSize, LowPages,   \* PhysMem
    Index, Dirs, KernelP4, KernelP3, PageDefault, TableBlocks,  \* PageTables
    FbPages,        \* pages mapped for the framebuffer (4)
    ScratchPages,   \* pages virtmem_init asks for (64)
    HeapPages,      \* pages of the heap, at HEAP_VIRT - KERNEL_VADDR
    Machines,       \* what the boot loader and the firmware may hand over
    None

NumIndex == Cardinality(Index)
KernelSize == NumIndex  \* pages behind KERNEL_VADDR (1 GiB)

(* Devices and tables of ACPI are where a pointer reaches them.             *)
Addressable == 0 .. KernelP4 * NumIndex * NumIndex - 1

ASSUME KernelMemoryAssumption ==
    /\ IsFiniteSet(Index) /\ Index = 0 .. NumIndex - 1
    /\ HeapPages # {}
    /\ HeapPages \subseteq LowPages + ScratchPages + 1 .. KernelSize - 1
    /\ 0 \notin TableBlocks
    /\ LowPages < IntBits
    /\ FbPages \in Nat /\ ScratchPages \in Nat \ {0}

ASSUME MachinesAssumption ==
    \A m \in Machines :
        /\ m.tags \subseteq {"mmap", "framebuffer", "acpi_old", "acpi_new"}
        /\ m.fb \in [addr : Nat, size : Nat]
        /\ (m.fb.addr + m.fb.size) \div PageSize + FbPages \in Addressable
        /\ m.tables \in Seq([sig : STRING, page : Addressable])
        /\ {m.xsdt, m.lapic, m.ioapic, m.hpet} \subseteq Addressable

VARIABLES
    pmm, mm_end, mmaps, pmStatus, held,         \* PhysMem
    mem, cur, call, flushed, tlb, ptStatus,     \* PageTables
    machine,
    tags,       \* the boot loader's tags that kmain has not read
    fb,         \* kboot.fb
    rsdp,       \* the revision of the RSDP chosen, or None
    todo,       \* the steps kmain has yet to take
    stage       \* "tags", "init", "run", or why the kernel stopped

physVars == <<pmm, mm_end, mmaps, pmStatus, held>>
tableVars == <<mem, cur, call, flushed, tlb, ptStatus>>
bootVars == <<machine, fb, rsdp>>
vars == <<physVars, tableVars, bootVars, tags, todo, stage>>

-----------------------------------------------------------------------------
(* The steps of the init functions. *)
Map(page) == <<[do |-> "map", page |-> page]>>
Use(pages) == <<[do |-> "use", pages |-> pages]>>
Malloc(size) == <<[do |-> "malloc", size |-> size]>>
Must(holds) == <<[do |-> "must", holds |-> holds]>>     \* assert, or panic
UseHeap == <<[do |-> "heap"]>>

PageOf(addr) == addr \div PageSize
FbUsed(f) == {PageOf(addr) : addr \in f.addr .. f.addr + f.size - 1}

virtmem_init(f) ==
    Malloc(ScratchPages * PageSize)
    \o Must(f.size < FbPages * PageSize)
    \o [i \in 1 .. FbPages |-> Map(PageOf(f.addr) + i - 1)[1]]

(* The tables are read one after the other until one has the signature.    *)
(* Steps behind a Must that does not hold are not reached.                 *)
Found(m, sig) == {i \in DOMAIN m.tables :
                    /\ m.tables[i].sig = sig
                    /\ \A j \in 1 .. i - 1 : m.tables[j].sig # sig}
acpi_find_tbl(m, sig) ==
    Use({m.tables[i].page : i \in {j \in DOMAIN m.tables :
                                    \A k \in Found(m, sig) : j <= k}})
    \o Must(Found(m, sig) # {})

acpi_init(m, revision) ==
    Must(revision # None) \o Map(m.xsdt) \o Use({m.xsdt})
    \o Must(revision = 2) \o acpi_find_tbl(m, "APIC") \o UseHeap

(* The entries of the MADT are looked up in the arrays that acpi_init made *)
(* of the heap.                                                            *)
apic_init(m) == UseHeap \o Map(m.lapic) \o Use({m.lapic})

(* base + KERNEL_VADDR wraps for a base from 2 GiB on, and the assertion   *)
(* holds for it.                                                           *)
ioapic_init_MappedLater(m) ==
    UseHeap \o Must(m.ioapic \notin KernelSize .. 2 * KernelSize - 1)
    \o Use({m.ioapic}) \o Map(m.ioapic)
ioapic_init(m) ==
    UseHeap \o Must(m.ioapic \notin KernelSize .. 2 * KernelSize - 1)
    \o Map(m.ioapic) \o Use({m.ioapic})

(* It maps the page of its ACPI table, and uses its registers. *)
hpet_init(m) ==
    acpi_find_tbl(m, "HPET")
    \o (IF Found(m, "HPET") = {} THEN << >>
        ELSE Map(m.tables[CHOOSE i \in Found(m, "HPET") : TRUE].page))
    \o Use({m.hpet})

(* kmain tries the heap with a kmalloc and a kfree before all else.        *)
kmain(m, f, revision) ==
    virtmem_init(f) \o UseHeap \o Use(FbUsed(f)) \o acpi_init(m, revision)
    \o apic_init(m) \o ioapic_init(m) \o hpet_init(m)

NoFb == [addr |-> 0, size |-> 0]    \* kboot.fb without a tag

-----------------------------------------------------------------------------
VirtOf_TwoLevels(page) ==
    <<page \div (NumIndex * NumIndex), 0, page % NumIndex>>
VirtOf(page) == <<page \div (NumIndex * NumIndex),
                  (page \div NumIndex) % NumIndex, page % NumIndex>>

(* The pages that some init function may map. *)
MayMap(m) ==
    {m.xsdt, m.lapic, m.ioapic} \cup {m.tables[i].page : i \in DOMAIN m.tables}
    \cup {PageOf(f.addr) + i - 1 : f \in {NoFb, m.fb}, i \in 1 .. FbPages}
MappedPages == UNION {MayMap(m) : m \in Machines}

Scratch == 0    \* the client of PhysMem that is virtmem_init

(* PhysMem and PageTables, with what is proved of them.                     *)
PM == INSTANCE PhysMemProofs WITH
        status <- pmStatus, NoBlock <- None,
        Clients <- {Scratch} \cup TableBlocks,
        Sizes <- {PageSize, ScratchPages * PageSize},
        MemMaps <- {m.map : m \in Machines}
PT == INSTANCE PageTablesProofs WITH
        status <- ptStatus, NotMapped <- None, NoCall <- None, TlbSize <- 0,
        IdPages <- {},
        Blocks <- TableBlocks, Phys <- MappedPages,
        Virt <- {VirtOf(page) : page \in MappedPages}

ASSUME ComponentsAssumption ==
    PM!ConstantsAssumption /\ PM!MemMapsAssumption /\ PT!PageTablesAssumption

-----------------------------------------------------------------------------
Init ==
    /\ PM!Init
    /\ PT!Init
    /\ machine \in Machines
    /\ tags = machine.tags
    /\ fb = NoFb
    /\ rsdp = None
    /\ todo = << >>
    /\ stage = "tags"

(* physmem_init returns how much memory is available. *)
NoMemory(m) == \A i \in DOMAIN m : m[i].avail => m[i].len = 0
mmap_tag ==
    /\ "mmap" \in tags
    /\ PM!physmem_init(machine.map)
    /\ tags' = tags \ {"mmap"}
    /\ stage' = IF pmStatus' = "halted" THEN "division by zero"
                ELSE IF NoMemory(machine.map) THEN "panic" ELSE stage
    /\ UNCHANGED <<tableVars, bootVars, todo>>

framebuffer_tag ==
    /\ "framebuffer" \in tags
    /\ fb' = machine.fb
    /\ tags' = tags \ {"framebuffer"}
    /\ UNCHANGED <<physVars, tableVars, machine, rsdp, todo, stage>>

(* The root pointer of a later tag is taken unless it is of an older       *)
(* revision.                                                               *)
Revision(tag) == IF tag = "acpi_new" THEN 2 ELSE 0
acpi_tag_TakesLast(tag) ==
    /\ tag \in tags
    /\ rsdp' = Revision(tag)
    /\ tags' = tags \ {tag}
    /\ UNCHANGED <<physVars, tableVars, machine, fb, todo, stage>>
acpi_tag(tag) ==
    /\ tag \in tags
    /\ rsdp' = IF rsdp # None /\ rsdp > Revision(tag) THEN rsdp
                                                       ELSE Revision(tag)
    /\ tags' = tags \ {tag}
    /\ UNCHANGED <<physVars, tableVars, machine, fb, todo, stage>>

read_tag ==
    /\ stage = "tags"
    /\ \/ mmap_tag
       \/ framebuffer_tag
       \/ \E tag \in {"acpi_old", "acpi_new"} : acpi_tag(tag)

(* With no memory map, kmain panics. *)
tags_end ==
    /\ stage = "tags" /\ tags = {}
    /\ IF pmStatus = "running"
       THEN stage' = "init" /\ todo' = kmain(machine, fb, rsdp)
       ELSE stage' = "no memory map" /\ todo' = todo
    /\ UNCHANGED <<physVars, tableVars, bootVars, tags>>

-----------------------------------------------------------------------------
Doing(what) == stage = "init" /\ todo # << >> /\ todo[1].do = what
Done == todo' = Tail(todo) /\ stage' = stage
StopIf(stops, why) == IF stops THEN stage' = why /\ todo' = todo ELSE Done

must ==
    /\ Doing("must")
    /\ StopIf(~ todo[1].holds, "panic")
    /\ UNCHANGED <<physVars, tableVars, bootVars, tags>>

(* What virtmem_init gets is not looked at. *)
malloc ==
    /\ Doing("malloc")
    /\ \/ PM!phys_malloc(Scratch, todo[1].size)
       \/ PM!phys_malloc_failed(Scratch, todo[1].size)
    /\ Done
    /\ UNCHANGED <<tableVars, bootVars, tags>>

(* The page for a new block is cleared through the kernel's own mapping;   *)
(* behind its end nothing is mapped.                                       *)
map ==
    /\ Doing("map") /\ flushed
    /\ LET virt == VirtOf(todo[1].page)
           new == PT!Reach(virt).cur # cur
           noPage == PM!Starts(1) = {}
           beyond == PM!FirstStart(1) >= KernelSize
       IN  IF new /\ (noPage \/ beyond)
           THEN /\ stage' = IF noPage THEN "panic" ELSE "page fault"
                /\ UNCHANGED <<physVars, tableVars, todo>>
           ELSE /\ PT!virt_map_page(virt, todo[1].page)
                /\ IF new THEN PM!phys_malloc(cur', PageSize)
                          ELSE UNCHANGED physVars
                /\ UNCHANGED <<todo, stage>>
    /\ UNCHANGED <<bootVars, tags>>

flush ==
    /\ Doing("map")
    /\ PT!flush_tlb
    /\ Done
    /\ UNCHANGED <<physVars, bootVars, tags>>

Reachable(pages) == \A p \in pages : PT!Translate(VirtOf(p)) = p

use ==
    /\ Doing("use")
    /\ StopIf(~ Reachable(todo[1].pages), "page fault")
    /\ UNCHANGED <<physVars, tableVars, bootVars, tags>>

(* kalloc_init, kmalloc and kfree work on the heap's own pages, behind     *)
(* KERNEL_VADDR, and ask no allocator for them: Heap has what they do in   *)
(* memory of their own.  Where there is none, or the tables are in it too, *)
(* an assertion may fail, an address be wild or a table be written over:   *)
(* kmain stops, or goes on if what it reads and writes happens to do.      *)
HeapInMemory == HeapPages \subseteq PM!AvailablePages(machine.map)
HeapIsIntact ==
    /\ HeapInMemory
    /\ \A block \in TableBlocks : PM!HeldPages(block) \cap HeapPages = {}
heap ==
    /\ Doing("heap")
    /\ \/ Done
       \/ /\ ~ HeapIsIntact
          /\ stage' \in {"panic", "page fault"} /\ todo' = todo
    /\ UNCHANGED <<physVars, tableVars, bootVars, tags>>

main_loop ==
    /\ stage = "init" /\ todo = << >>
    /\ stage' = "run"
    /\ UNCHANGED <<physVars, tableVars, bootVars, tags, todo>>

Next == read_tag \/ tags_end \/ must \/ malloc \/ map \/ flush \/ use
        \/ heap \/ main_loop

Spec == Init /\ [][Next]_vars /\ WF_vars(Next)
-----------------------------------------------------------------------------
(* Properties. *)

(* What the kernel counts on: behind the low pages, available memory for   *)
(* the scratch block and a block of tables, up to the end of the word of   *)
(* pmm where they end, as a page that is reserved marks others of its word *)
(* (physmem.c:34).                                                         *)
Roomy ==
    /\ PM!TidyMap(machine.map)
    /\ UNION {PM!WordPages(p) : p \in LowPages .. LowPages + ScratchPages}
            \subseteq PM!AvailablePages(machine.map) \cup 0 .. LowPages - 1

(* And of the devices: all tags are there, the framebuffer starts at a     *)
(* page and is as small as asserted, the ACPI tables are in one page, and  *)
(* the registers of the HPET share a page with those of an APIC.           *)
Usual ==
    /\ {"mmap", "acpi_new"} \subseteq machine.tags
    /\ machine.fb.addr % PageSize = 0
    /\ machine.fb.size < FbPages * PageSize
    /\ {"APIC", "HPET"} \subseteq {machine.tables[i].sig :
                                    i \in DOMAIN machine.tables}
    /\ \A i \in DOMAIN machine.tables : machine.tables[i].page = machine.xsdt
    /\ machine.hpet \in {machine.ioapic, machine.lapic}
    /\ machine.ioapic >= 2 * KernelSize

(* The kernel image, the heap, which no allocator knows of (kalloc.h:8),   *)
(* the scratch block and the blocks of tables share no page, and tables    *)
(* are where the kernel reaches them (virtmem.c:36).                       *)
Uses == [c \in {Scratch} \cup TableBlocks |-> PM!HeldPages(c)]
OneUse ==
    Roomy =>
        /\ PM!Exclusive
        /\ \A c \in DOMAIN Uses :
              Uses[c] \cap (HeapPages \cup 0 .. LowPages - 1) = {}
        /\ cur # 0 => PM!HeldPages(cur) # {}
        /\ \A block \in TableBlocks :
              PM!HeldPages(block) \subseteq 0 .. KernelSize - 1

(* In the main loop, everything that the loop and the handlers use is      *)
(* mapped: no driver's mapping, and not the kernel's own, was lost to that *)
(* of a later driver (kernel.c:165, apic.h:43).                            *)
DriversStayMapped ==
    stage = "run" =>
        /\ Reachable(FbUsed(fb) \cup
                        {machine.lapic, machine.ioapic, machine.hpet})
        /\ \A p \in 0 .. KernelSize - 1 :
              PT!Translate(<<KernelP4, KernelP3, p>>) = p

(* On such a machine, and if there is memory where the heap is, kmain      *)
(* reaches its main loop: no assertion, panic or page fault on the way,    *)
(* although nobody keeps the heap's pages from other uses (kalloc.h:8) and *)
(* hpet_init relies on a mapping that an earlier driver made (hpet.c:31).  *)
BootCompletes == (Roomy /\ Usual /\ HeapInMemory) ~> stage = "run"
=============================================================================
