------------------------------ MODULE PhysMem ------------------------------
(***************************************************************************)
(* The physical page allocator, src/kernel/mem/physmem.c: the bitmap pmm   *)
(* with one bit per 2 MiB page, built from the boot loader's memory map by *)
(* physmem_init, searched by phys_malloc and cleared by phys_free.         *)
(*                                                                         *)
(* A page is its number.  The bitmap is the set of the pages whose bit is  *)
(* set (PHYS_USED): bit b of the word pmm[w] is page w * WordBits + b.     *)
(***************************************************************************)
EXTENDS Naturals, Sequences, FiniteSets

CONSTANTS
    PageSize,   \* bytes of a page (0x200000)
    WordBits,   \* bits of a uint64_t of pmm (64)
    IntBits,    \* bits of an int, the type of the 1 in 1 << bit (32)
    ByteBits,   \* bits of a byte, the unit of memset (8)
    PmmSize,    \* words of pmm (512)
    LowPages,   \* pages always kept by physmem_init (16)
    MemMaps,    \* the memory maps the boot loader may hand over
    Sizes,      \* the sizes asked of phys_malloc
    Clients,    \* callers, each keeping at most one block
    NoBlock

Pages == 0 .. PmmSize * WordBits - 1
RoundUp(a) == (a + PageSize - 1) \div PageSize  \* round_up_to_page, in pages

(* Only the low 64 GiB have a bit in pmm: memory maps beyond are excluded. *)
ASSUME ConstantsAssumption ==
    /\ PageSize \in Nat \ {0}
    /\ IntBits \in Nat \ {0} /\ WordBits = 2 * IntBits
    /\ ByteBits \in Nat \ {0} /\ PmmSize \in Nat \ {0}
    /\ LowPages \in 1 .. IntBits
    /\ Sizes \subseteq Nat
    /\ NoBlock \notin [page : Nat, n : Nat]

ASSUME MemMapsAssumption ==
    \A m \in MemMaps :
        /\ m \in Seq([addr : Nat, len : Nat, avail : BOOLEAN])
        /\ \A i \in DOMAIN m :
              RoundUp(m[i].addr + m[i].len) <= PmmSize * WordBits

(* Names with an underscore after the source's name, as LastWrite_FirstWins, *)
(* are plausible mistakes in that code; no definition uses them.            *)

VARIABLES
    pmm,        \* the pages whose bit is set
    mm_end,     \* physmem.mm_end, the number of words phys_malloc searches
    mmaps,      \* physmem.mb.mmaps; the empty sequence before physmem_init
    status,     \* "reset", "running", or "halted" by a division by zero
    held        \* the block each client got and has not given back

vars == <<pmm, mm_end, mmaps, status, held>>

PageRun(blk) == blk.page .. blk.page + blk.n - 1
HeldPages(c) == IF held[c] = NoBlock THEN {} ELSE PageRun(held[c])
Blocks == [page : Pages, n : Nat]
Running == status = "running"

-----------------------------------------------------------------------------
(* What happens to the bitmap. *)

(* The bits of the mask of a page, as pages of the same word: 1 << bit is  *)
(* computed in int, so the count is taken modulo IntBits, and the sign bit *)
(* of the result is extended over the upper half of the uint64_t.          *)
MaskPages(p) ==
    LET bit == p % WordBits
        base == p - bit
        shift == bit % IntBits
    IN  base + shift .. IF shift = IntBits - 1 THEN base + WordBits - 1
                                               ELSE base + shift

WordPages(p) == LET base == p - (p % WordBits) IN base .. base + WordBits - 1
InFullWord(bits, p) == WordPages(p) \subseteq bits

(* physmem_init: the last write to reach a bit decides. *)
(* The end of the highest available region, rounded up: the number of      *)
(* pages that lie below the end of some available region.                  *)
HighestAvail(m) ==
    Cardinality({p \in Pages : \E i \in DOMAIN m :
                    m[i].avail /\ p < RoundUp(m[i].addr + m[i].len)})

RegionPages(r) == RoundUp(r.addr) .. RoundUp(r.addr + r.len) - 1
Processed(m) == {i \in DOMAIN m :
                    \A j \in 1 .. i : m[j].addr <= HighestAvail(m) * PageSize}
SetsBit(m, w) == ~ m[w[1]].avail \/ w[2] = 0

Writes(m, q) == {w \in Processed(m) \X WordPages(q) :
                    w[2] \in RegionPages(m[w[1]]) /\ q \in MaskPages(w[2])}
LastWrite_FirstWins(ws) == CHOOSE w \in ws : \A v \in ws :
                    w[1] < v[1] \/ (w[1] = v[1] /\ w[2] <= v[2])
LastWrite(ws) == CHOOSE w \in ws : \A v \in ws :
                    v[1] < w[1] \/ (v[1] = w[1] /\ v[2] <= w[2])

InitialBits_NotFilled(end) == {q \in Pages : q % ByteBits = 0}
InitialBits(end) == {q \in Pages : q < end * WordBits \/ q % ByteBits = 0}
BootBits_NoLowPages(m) ==
    {q \in Pages : IF Writes(m, q) = {}
                   THEN q \in InitialBits(HighestAvail(m) \div WordBits)
                   ELSE SetsBit(m, LastWrite(Writes(m, q)))}
BootBits(m) ==
    {q \in Pages : \/ \E p \in 0 .. LowPages - 1 : q \in MaskPages(p)
                   \/ IF Writes(m, q) = {}
                      THEN q \in InitialBits(HighestAvail(m) \div WordBits)
                      ELSE SetsBit(m, LastWrite(Writes(m, q)))}

(* phys_malloc reads the pages of the words below mm_end that are not full *)
(* and counts free ones in a row; a full word is skipped without resetting *)
(* the count, so a run may go on behind it.                                *)
PagesFor(size) == RoundUp(size)
Scanned_WordMore ==
    {p \in 0 .. (mm_end + 1) * WordBits - 1 : ~ InFullWord(pmm, p)}
Scanned_WordLess ==
    {p \in 0 .. (mm_end - 1) * WordBits - 1 : ~ InFullWord(pmm, p)}
Scanned == {p \in 0 .. mm_end * WordBits - 1 : ~ InFullWord(pmm, p)}
IsRun_NoReset(s, e, n) == /\ {s, e} \cap pmm = {}
                          /\ Cardinality((Scanned \cap (s .. e)) \ pmm) = n
IsRun(s, e, n) == LET run == Scanned \cap (s .. e)
                  IN  run \cap pmm = {} /\ Cardinality(run) = n
Starts(n) == {s \in Scanned : \E e \in Scanned : s <= e /\ IsRun(s, e, n)}
FirstStart(n) == CHOOSE s \in Starts(n) : \A t \in Starts(n) : s <= t

-----------------------------------------------------------------------------
Init ==
    /\ pmm = {}
    /\ mm_end = 0
    /\ mmaps = << >>
    /\ status = "reset"
    /\ held = [c \in Clients |-> NoBlock]

physmem_init_RoundsUp(m) ==
    /\ status = "reset"
    /\ mmaps' = m
    /\ mm_end' = (HighestAvail(m) + WordBits - 1) \div WordBits
    /\ pmm' = BootBits(m)
    /\ status' = "running"
    /\ UNCHANGED held

(* Its debug line calls get_phys, which divides by mm_end. *)
physmem_init(m) ==
    /\ status = "reset"
    /\ mmaps' = m
    /\ mm_end' = HighestAvail(m) \div WordBits
    /\ pmm' = BootBits(m)
    /\ status' = IF mm_end' = 0 THEN "halted" ELSE "running"
    /\ UNCHANGED held

phys_malloc_MarksOneLess(c, size) ==
    LET n == PagesFor(size)
        s == FirstStart(n)
    IN  /\ Running /\ held[c] = NoBlock
        /\ Starts(n) # {}
        /\ pmm' = pmm \cup (s + 1 .. s + n - 1)
        /\ held' = [held EXCEPT ![c] =
                        IF s = 0 THEN NoBlock ELSE [page |-> s, n |-> n]]
        /\ UNCHANGED <<mm_end, mmaps, status>>

(* A caller takes the address 0 for a failure. *)
phys_malloc(c, size) ==
    LET n == PagesFor(size)
        s == FirstStart(n)
    IN  /\ Running /\ held[c] = NoBlock
        /\ Starts(n) # {}
        /\ pmm' = pmm \cup (s .. s + n - 1)
        /\ held' = [held EXCEPT ![c] =
                        IF s = 0 THEN NoBlock ELSE [page |-> s, n |-> n]]
        /\ UNCHANGED <<mm_end, mmaps, status>>

phys_malloc_failed(c, size) ==
    /\ Running /\ held[c] = NoBlock
    /\ Starts(PagesFor(size)) = {}
    /\ UNCHANGED vars

phys_free_PageMore(c) ==
    /\ held[c] # NoBlock
    /\ pmm' = pmm \ UNION {MaskPages(p) :
                    p \in held[c].page .. held[c].page + held[c].n}
    /\ held' = [held EXCEPT ![c] = NoBlock]
    /\ UNCHANGED <<mm_end, mmaps, status>>

phys_free(c) ==
    /\ held[c] # NoBlock
    /\ pmm' = pmm \ UNION {MaskPages(p) : p \in PageRun(held[c])}
    /\ held' = [held EXCEPT ![c] = NoBlock]
    /\ UNCHANGED <<mm_end, mmaps, status>>

(* The kernel calls physmem_init and phys_malloc; nothing calls phys_free. *)
Next ==
    \/ \E m \in MemMaps : physmem_init(m)
    \/ \E c \in Clients, size \in Sizes :
          phys_malloc(c, size) \/ phys_malloc_failed(c, size)

NextWithFree == Next \/ \E c \in Clients : phys_free(c)

Spec == Init /\ [][Next]_vars
SpecWithFree == Init /\ [][NextWithFree]_vars

-----------------------------------------------------------------------------
(* Properties. *)

(* Every variable holds a value of its kind; every bit set is a bit of pmm *)
(* (physmem.c:8), so phys_malloc never writes past the array.              *)
TypeOK ==
    /\ pmm \subseteq Pages
    /\ mm_end \in 0 .. PmmSize
    /\ mmaps \in MemMaps \cup {<< >>}
    /\ status \in {"reset", "running", "halted"}
    /\ held \in [Clients -> Blocks \cup {NoBlock}]

(* "Mark the pages as allocated" (physmem.c:125): every page of a block    *)
(* that was handed out stays marked, the pages of a run that phys_malloc   *)
(* joined over a full word included.                                       *)
HeldMarked == \A c \in Clients : HeldPages(c) \subseteq pmm

(* The low pages (physmem.c:90), where the kernel image and the boot page  *)
(* tables are, are never free after physmem_init, so none is handed out    *)
(* and the address 0 only ever means that phys_malloc failed.              *)
LowMemoryKept ==
    /\ Running => (0 .. LowPages - 1) \subseteq pmm
    /\ \A c \in Clients : HeldPages(c) \cap (0 .. LowPages - 1) = {}

(* No block reaches past the last page of available memory, although the   *)
(* sign-extended mask frees bits above it (physmem.c:34, 74, 111).         *)
HeldInRam ==
    \A c \in Clients : \A p \in HeldPages(c) : p < HighestAvail(mmaps)

(* phys_malloc fails only when no run of enough free pages exists.  This   *)
(* is about the cross-word search (physmem.c:111-138).                     *)
MallocComplete ==
    \A n \in {PagesFor(size) : size \in Sizes} \ {0} :
        (\E s \in 0 .. mm_end * WordBits :
            /\ s + n <= mm_end * WordBits
            /\ (s .. s + n - 1) \cap pmm = {}) => Starts(n) # {}

(* Two clients never hold the same page.                                   *)
Exclusive ==
    \A c, d \in Clients : c # d => HeldPages(c) \cap HeldPages(d) = {}

(* Asked for single pages only, as alloc_pt_block does (virtmem.c:34), it  *)
(* is an allocator: a page goes to one client.                             *)
Allocator == INSTANCE PageAllocator
                WITH Lengths <- {PagesFor(size) : size \in Sizes} \ {0}
IsAllocator == Allocator!Spec

(* A page that phys_malloc hands out was free, or belongs to a word that   *)
(* was full and that the search skipped (physmem.c:114): the only way in   *)
(* which a page can be handed out twice.                                   *)
GrantsFreeOrSkipped ==
    [][\A c \in Clients : held[c] = NoBlock =>
          \A p \in HeldPages(c)' : p \notin pmm \/ InFullWord(pmm, p)]_vars

(* When every region starts and ends at a word of pmm, and behind the end  *)
(* of the one before it, physmem_init leaves free exactly the available    *)
(* pages above the low ones, holes of the memory map not included          *)
(* (physmem.c:75-91).                                                      *)
AvailablePages(m) ==
    {p \in Pages : \E i \in DOMAIN m :
        /\ m[i].avail
        /\ m[i].addr <= p * PageSize
        /\ (p + 1) * PageSize <= m[i].addr + m[i].len}
InWords(m) ==
    \A i \in DOMAIN m : {m[i].addr, m[i].len} \subseteq
                            {w * WordBits * PageSize : w \in 0 .. PmmSize}
TidyMap(m) ==
    \A i, j \in DOMAIN m : i < j => m[i].addr + m[i].len <= m[j].addr
BootExact ==
    [][status = "reset" /\ Running' /\ InWords(mmaps') /\ TidyMap(mmaps') =>
          (0 .. mm_end' * WordBits - 1) \ pmm'
              = AvailablePages(mmaps') \ (0 .. LowPages - 1)]_vars

(* phys_free changes bits of the words of the block only.                  *)
FreeConfined ==
    [][\A c \in Clients : held[c] # NoBlock /\ held'[c] = NoBlock =>
          \A p \in pmm \ pmm' : WordPages(p) \cap HeldPages(c) # {}]_vars

(* The memory map is logged with its regions that are not available as     *)
(* "USED" (physmem.c:67): no page that such a region touches is left free. *)
ReservedNotFree ==
    [][status = "reset" /\ Running' =>
          \A p \in 0 .. mm_end' * WordBits - 1, i \in DOMAIN mmaps' :
              /\ ~ mmaps'[i].avail /\ mmaps'[i].len > 0
              /\ mmaps'[i].addr < (p + 1) * PageSize
              /\ p * PageSize < mmaps'[i].addr + mmaps'[i].len
              => p \in pmm']_vars
=============================================================================
