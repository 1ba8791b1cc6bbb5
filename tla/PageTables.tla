----------------------------- MODULE PageTables -----------------------------
(***************************************************************************)
(* The virtual memory manager, src/kernel/mem/virtmem.c: three levels of   *)
(* page tables, the blocks they are allocated from (pt_alloc_t), and the   *)
(* processor's cache of translations.                                      *)
(*                                                                         *)
(* A block is one 2 MiB page: Dirs tables, and in the table-sized rest of  *)
(* it the words idx, prev and next.  That rest is the table <<block,       *)
(* Dirs>>, and the three words are its entries 0, 1 and 2: new_page_table  *)
(* takes two indexes at a call, and Dirs is odd.                           *)
(***************************************************************************)
EXTENDS Naturals, FiniteSets

CONSTANTS
    Index,      \* entries of a table (0 .. 511)
    Dirs,       \* tables of a block (511)
    KernelP4, KernelP3, \* entries of the kernel's own mapping (511, 510)
    IdPages,    \* pages of the boot code's identity map (0 .. 15)
    Virt,       \* pages asked for, as <<i4, i3, i2>>
    Phys,       \* frames asked for
    PageDefault,    \* PAGE_DEFAULT as a number (131): what maps frame 0
    Blocks,     \* 1 .. the number of blocks phys_malloc has
    TlbSize,    \* how many translations the processor caches
    NotMapped,
    NoCall

ASSUME PageTablesAssumption ==
    /\ {0, 1, 2} \subseteq Index /\ Index \subseteq Nat /\ IsFiniteSet(Index)
    /\ Dirs \in Nat \ 0 .. 2 /\ Dirs % 2 = 1
    /\ KernelP4 \in Index /\ KernelP3 \in Index
    /\ IdPages \subseteq Index
    /\ Virt \subseteq (Index \ {KernelP4}) \X Index \X Index
    /\ Phys \subseteq Nat
    /\ PageDefault \in Nat /\ PageDefault % 2 = 1
    /\ Blocks \subseteq Nat \ {0}
    /\ TlbSize \in Nat
    /\ NotMapped \notin Nat
    /\ NoCall \notin Virt \X (Nat \cup {NotMapped})

VARIABLES
    mem,        \* the words of every table
    cur,        \* new_page_table's block, 0 before the first call
    call,       \* the page and frame of the last call
    flushed,    \* no call has yet to flush
    tlb,        \* the translations the processor holds
    status      \* "running", or why the kernel stopped

vars == <<mem, cur, call, flushed, tlb, status>>

-----------------------------------------------------------------------------
(* The words of a table. *)
Zero == [to |-> "zero"]
Number(n) == [to |-> "number", n |-> n]     \* an idx
Link == [to |-> "block"]                    \* a prev or next: not present
Table(t) == [to |-> "table", table |-> t]   \* a table | present | write
Page(p) == [to |-> "page", frame |-> p]     \* a frame | PAGE_DEFAULT

P4 == <<0, 3>>
P3Higher == <<0, 2>>
P2Higher == <<0, 1>>
BootTables == {P4, P3Higher, P2Higher}
BlockTables(block) == {block} \X (0 .. Dirs)
Tables == BootTables \cup (Blocks \X (0 .. Dirs))
Meta(block) == <<block, Dirs>>
Wild == <<0, 0>>    \* not a table: memory of something else
NoBlock == <<0, 4>> \* not a table: no memory for one

Running == status = "running"

(* A table or a page, or an odd number where an entry should be. *)
Present(word) == \/ word.to \in {"table", "page"}
                 \/ word.to = "number" /\ word.n % 2 = 1

(* A word read as cur->idx: an address is greater than any index. *)
AsIdx(word) ==
    CASE word.to = "zero"   -> 0
      [] word.to = "number" -> word.n
      [] word = Page(0)     -> PageDefault
      [] OTHER              -> Dirs

-----------------------------------------------------------------------------
(* What a call has reached: the memory it leaves, the block, a table. *)
Walk(m, c, t) == [mem |-> m, cur |-> c, table |-> t]

(* The next block of phys_malloc, all zero, becomes the current one. *)
alloc_pt_block_NoMemset(w) ==
    [w EXCEPT !.mem[Meta(w.cur + 1)][0] = Zero, !.cur = w.cur + 1]
alloc_pt_block(w) ==
    [w EXCEPT !.mem = [t \in Tables |-> IF t \in BlockTables(w.cur + 1)
                                        THEN [i \in Index |-> Zero]
                                        ELSE w.mem[t]],
              !.cur = w.cur + 1]

(* The table after the one idx names is taken and idx grows by two: the    *)
(* argument of debugf increments it, and the return does again.            *)
take_table_IdxKept(w) ==
    LET idx == AsIdx(w.mem[Meta(w.cur)][0])
    IN  [w EXCEPT !.table = <<w.cur, idx + 1>>,
                  !.mem[Meta(w.cur)][0] = Number(idx)]
take_table(w) ==
    LET idx == AsIdx(w.mem[Meta(w.cur)][0])
    IN  [w EXCEPT !.table = <<w.cur, idx + 1>>,
                  !.mem[Meta(w.cur)][0] = Number(idx + 2)]

new_page_table(w) ==
    IF w.cur # 0 /\ AsIdx(w.mem[Meta(w.cur)][0]) < Dirs THEN take_table(w)
    ELSE IF w.cur + 1 \notin Blocks THEN [w EXCEPT !.table = NoBlock]
    ELSE IF w.cur = 0 THEN take_table(alloc_pt_block(w))
    ELSE take_table([alloc_pt_block(w) EXCEPT
                        !.mem[Meta(w.cur)][2] = Link,
                        !.mem[Meta(w.cur + 1)][1] = Link])

(* virt_get_next_map_level; a walk that has left the tables goes no further. *)
next_level_NoEntry(w, index) ==
    LET word == w.mem[w.table][index]
    IN  IF w.table \notin Tables THEN w
        ELSE IF Present(word)
             THEN [w EXCEPT !.table = IF word.to = "table" THEN word.table
                                                           ELSE Wild]
             ELSE new_page_table(w)
next_level(w, index) ==
    LET word == w.mem[w.table][index]
        new == new_page_table(w)
    IN  IF w.table \notin Tables THEN w
        ELSE IF Present(word)
             THEN [w EXCEPT !.table = IF word.to = "table" THEN word.table
                                                           ELSE Wild]
             ELSE IF new.table = NoBlock THEN new
             ELSE [new EXCEPT !.mem[w.table][index] = Table(new.table)]

(* The table of the last level: the code goes through no other. *)
Reach(virt) == next_level(next_level(Walk(mem, cur, P4), virt[1]), virt[2])

-----------------------------------------------------------------------------
(* What the processor may have kept of the identity map, through which it  *)
(* ran the boot code: clearing P4[0] reaches only the tables, invlpg only  *)
(* page 0, and the write to cr3 that would do the rest is commented out.   *)
IdentityMap == {<<<<0, 0, i>>, i>> : i \in IdPages \ {0}}
StaleTlbs == {t \in SUBSET IdentityMap : Cardinality(t) <= TlbSize}

(* multiboot.asm: the kernel's half is mapped, frame by frame, and P4 no   *)
(* longer holds the identity map.  The memory of the blocks is what it was.*)
Init ==
    /\ mem = [t \in Tables |-> [i \in Index |->
                CASE t = P4 /\ i = KernelP4       -> Table(P3Higher)
                  [] t = P3Higher /\ i = KernelP3 -> Table(P2Higher)
                  [] t = P2Higher                 -> Page(i)
                  [] t \notin BootTables          -> Page(0)
                  [] OTHER                        -> Zero]]
    /\ cur = 0
    /\ call = NoCall
    /\ flushed = TRUE
    /\ tlb \in StaleTlbs
    /\ status = "running"

(* The call up to and with its last write; with no frame it is             *)
(* virt_unmap_page, which makes the tables it does not find.               *)
set_entry(virt, frame) ==
    LET w == Reach(virt)
    IN  /\ Running /\ flushed
        /\ cur' = w.cur
        /\ IF w.table \in Tables
           THEN /\ mem' = [w.mem EXCEPT ![w.table][virt[3]] =
                            IF frame = NotMapped THEN Zero ELSE Page(frame)]
                /\ call' = <<virt, frame>>
                /\ flushed' = FALSE
                /\ status' = status
           ELSE /\ mem' = w.mem
                /\ status' = IF w.table = Wild THEN "wild table" ELSE "no block"
                /\ UNCHANGED <<call, flushed>>
        /\ UNCHANGED tlb

virt_map_page(virt, frame) == set_entry(virt, frame)
virt_unmap_page(virt) == set_entry(virt, NotMapped)

(* The end of the call: cr3 is written, and the whole cache is empty. *)
flush_tlb_NoReload ==
    /\ Running /\ ~ flushed
    /\ flushed' = TRUE
    /\ UNCHANGED <<mem, cur, call, tlb, status>>
flush_tlb ==
    /\ Running /\ ~ flushed
    /\ flushed' = TRUE
    /\ tlb' = {}
    /\ UNCHANGED <<mem, cur, call, status>>

(* The processor's own walk. *)
Entry(table, index) == mem[table][index]
Translate(virt) ==
    LET p3 == Entry(P4, virt[1])
        p2 == Entry(p3.table, virt[2])
        page == Entry(p2.table, virt[3])
    IN  IF p3.to = "table" /\ p2.to = "table" /\ page.to = "page"
        THEN page.frame ELSE NotMapped

KernelPages == {<<KernelP4, KernelP3, i>> : i \in Index}

(* At any time it may keep a translation, in the place of another. *)
cache(virt) ==
    /\ Running /\ Translate(virt) # NotMapped
    /\ \E kept \in SUBSET tlb :
          /\ Cardinality(kept) < TlbSize
          /\ tlb' = kept \cup {<<virt, Translate(virt)>>}
    /\ UNCHANGED <<mem, cur, call, flushed, status>>

Next ==
    \/ \E virt \in Virt :
          \/ \E frame \in Phys : virt_map_page(virt, frame)
          \/ virt_unmap_page(virt)
          \/ cache(virt)
    \/ flush_tlb

Spec == Init /\ [][Next]_vars
-----------------------------------------------------------------------------
(* Properties. *)

(* The kernel maps few enough pages for the tables before the metadata. *)
Needed == {<<v[1]>> : v \in Virt} \cup {<<v[1], v[2]>> : v \in Virt}
FewTables == 2 * Cardinality(Needed) < Dirs

Words == {Zero, Link} \cup [to : {"number"}, n : Nat]
         \cup [to : {"table"}, table : Tables]
         \cup [to : {"page"}, frame : Nat]

(* Between calls the processor uses no translation that the tables do not  *)
(* hold, whatever it kept while a call was under way (virtmem.c:126-130).  *)
(* Until the first call it may still hold what is left of the identity map *)
(* (multiboot.asm:201-207), and nothing else.                              *)
TlbFollowsTables ==
    flushed => \A e \in tlb : \/ e[2] = Translate(e[1])
                              \/ call = NoCall /\ e \in IdentityMap

(* No table hangs in two places: a write for one page reaches no other     *)
(* (virtmem.c:60, 78).                                                     *)
TablesOwned ==
    \A d, e \in {p \in Tables \X Index : mem[p[1]][p[2]].to = "table"} :
        mem[d[1]][d[2]].table = mem[e[1]][e[2]].table => d = e

(* For the pages the kernel maps, the first block is enough: the assertion *)
(* of alloc_pt_block is not reached, no other memory is taken for a table, *)
(* and no table is made of idx, prev and next (virtmem.c:31, 35, 53).      *)
OneBlockSuffices ==
    FewTables =>
        /\ status = "running" /\ cur <= 1
        /\ \A t \in Tables, i \in Index :
              mem[t][i].to = "table" => mem[t][i].table[2] < Dirs

(* A call changes the translation of its own page to its own frame, and no *)
(* other translation of the kernel's or of a caller's: the tables          *)
(* implement the abstract map (virtmem.c:104-140).                         *)
A == INSTANCE AddressSpace WITH
        Pages <- Virt \cup KernelPages,
        Frames <- Phys \cup Index,
        mapping <- [page \in Virt \cup KernelPages |-> Translate(page)]
IsAddressSpace == A!Spec
=============================================================================
