----------------------------- MODULE MCPhysMem -----------------------------
(* Small instances of PhysMem: words of 4 bits, an int of 2 bits, pages of *)
(* 2 bytes, a bitmap of 3 or 4 words.                                      *)
EXTENDS PhysMemLoops, TLC

CONSTANTS c1, c2, c3

Callers == Permutations(Clients)

Region(from, to, isAvail) ==
    [addr |-> from, len |-> to - from, avail |-> isAvail]

Bytes == PmmSize * WordBits * PageSize

(* Available, reserved, available memory with the borders at multiples of  *)
(* step; more memory that is reserved above it.                            *)
ThreeRegions(step) ==
    {<<Region(0, x[1] * step, TRUE),
       Region(x[1] * step, x[2] * step, FALSE),
       Region(x[2] * step, x[3] * step, TRUE)>> :
        x \in {y \in (0 .. Bytes \div step) \X (0 .. Bytes \div step)
                                            \X (0 .. Bytes \div step) :
                  y[1] <= y[2] /\ y[2] <= y[3]}}

WithTop(maps) ==
    {Append(m, Region(m[3].addr + m[3].len, Bytes, FALSE)) : m \in maps}

(* The same with a hole instead of the reserved memory in the middle.      *)
WithHole(maps) == {<<m[1], m[3]>> : m \in maps}

UnalignedMaps == WithTop(ThreeRegions(1))
PageMaps == ThreeRegions(PageSize)
WordMaps == LET maps == ThreeRegions(PageSize * WordBits)
            IN  WithTop(maps) \cup WithHole(maps)

(* Everything is available. *)
WholeMap == {<<Region(0, Bytes, TRUE)>>}

ClientMaps == PageMaps \cup WordMaps
AllMaps == UnalignedMaps \cup WholeMap \cup ClientMaps

OnePage == {1, PageSize}
FewPages == {1, PageSize, 3 * PageSize}
ManyPages == {0, 1, PageSize + 1, 3 * PageSize}

(* Every bitmap with the low pages marked; or the last word is not to be   *)
(* searched, and is free.  Whatever other clients did is some bitmap, so   *)
(* one client at a time is enough: it asks for a block of any size, and    *)
(* gives it back if it lies behind the first word (a free there may free   *)
(* the low pages).                                                         *)
AnyBitmap ==
    /\ pmm \in {used \cup (0 .. LowPages - 1) : used \in SUBSET Pages}
    /\ mm_end \in {PmmSize - 1, PmmSize}
    /\ mm_end < PmmSize => pmm \subseteq 0 .. mm_end * WordBits - 1
    /\ mmaps \in WholeMap
    /\ status = "running"
    /\ held = [c \in Clients |-> NoBlock]

NobodyElse(c) == \A d \in Clients \ {c} : held[d] = NoBlock

OneClient(c) ==
    /\ mmaps \in WholeMap /\ NobodyElse(c)
    /\ \/ \E size \in Sizes : phys_malloc(c, size) \/ phys_malloc_failed(c, size)
       \/ HeldPages(c) \cap WordPages(0) = {} /\ phys_free(c)

(* From the maps of ClientMaps, all clients ask for single pages.          *)
ManyClients(c) ==
    /\ mmaps \in ClientMaps
    /\ \E size \in OnePage : phys_malloc(c, size) \/ phys_malloc_failed(c, size)

MCNext ==
    \/ \E m \in MemMaps : physmem_init(m)
    \/ \E c \in Clients : OneClient(c) \/ ManyClients(c)

MCSpec == (Init \/ AnyBitmap) /\ [][MCNext]_vars
=============================================================================
