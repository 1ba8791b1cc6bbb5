-------------------------------- MODULE Heap --------------------------------
(***************************************************************************)
(* The kernel heap, src/kernel/mem/kalloc.c, with the ordered array of     *)
(* include/kernel/types/orderedarray.h that lists its blocks.              *)
(*                                                                         *)
(* A block is  header | payload | footer, packed, and is named by the      *)
(* address of its header.  New blocks are made at heap.addr, the top of    *)
(* the heap, which never goes down; kfree marks a block available and      *)
(* kmalloc takes the first available block of the array that is large      *)
(* enough.  The array is meant to be ordered by block_size.                *)
(***************************************************************************)
EXTENDS Naturals, Sequences, FiniteSets

CONSTANTS
    HeapStart,  \* HEAP_VIRT
    HeapSize,   \* HEAP_SIZE
    ArraySize,  \* bytes of the ordered array (PAGE_SIZE)
    Sizes,      \* the sizes asked of kmalloc
    Garbage,    \* what overwriting the upper bytes of a block_size adds to it
    Clients,
    NoPtr

HeaderSize == 13        \* sizeof(heap_header_t), packed
FooterSize == 12        \* sizeof(heap_footer_t), packed
PtrSize == 8            \* sizeof(header), a pointer
MaxElements == (ArraySize - 48) \div 8
HeapEnd == HeapStart + HeapSize

(* The array, which is taken from the start of the heap, has room for more *)
(* blocks than the rest of the heap: 262138 of at least 25 bytes.          *)
ASSUME HeapAssumption ==
    /\ HeapStart \in Nat \ {0} /\ HeapSize \in Nat /\ Sizes \subseteq Nat
    /\ ArraySize \in 48 .. HeapSize
    /\ HeapSize - ArraySize < (HeaderSize + FooterSize) * (MaxElements + 1)
    /\ Garbage \in Nat /\ Garbage > HeapSize
    /\ NoPtr \notin [header : Nat, ptr : Nat, size : Nat]

VARIABLES
    heap_addr,  \* heap.addr
    blocks,     \* by header address: where its footer is, block_size, available
    allocs,     \* heap.allocs, header addresses
    held,       \* what each client got from kmalloc and has not freed
    status      \* "running", or why the kernel stopped

vars == <<heap_addr, blocks, allocs, held, status>>

Running == status = "running"
Free == HeapEnd - heap_addr

(* Names with an underscore after the source's name, as                    *)
(* find_best_free_space_NoFooter, are plausible mistakes in that code; no  *)
(* definition uses them.                                                   *)

get_total_block_size_NoFooter(size) == HeaderSize + size
get_total_block_size(size) == FooterSize + HeaderSize + size

-----------------------------------------------------------------------------
(* The ordered array. *)

(* oarray_insert stops before the first element that is greater, or before *)
(* any earlier one: alloc_greater returns uint8_t and is called through a  *)
(* pointer to a function that returns a pointer, so the upper bytes of a 0 *)
(* are whatever the register held.                                         *)
InsertPositions(size) ==
    {p \in 1 .. Len(allocs) + 1 :
        \A j \in 1 .. p - 1 : ~ (blocks[allocs[j]].block_size > size)}

oarray_insert_Overwrites(p, header) ==
    [j \in 1 .. Len(allocs) + 1 |-> IF j <= p - 1 THEN allocs[j]
                                    ELSE IF j <= p + 1 THEN header
                                    ELSE allocs[j - 1]]
oarray_insert(p, header) ==
    [j \in 1 .. Len(allocs) + 1 |-> IF j < p THEN allocs[j]
                                    ELSE IF j = p THEN header
                                    ELSE allocs[j - 1]]

(* The indexes of the blocks find_best_free_space may return. *)
find_best_free_space_NoFooter(size) ==
    {i \in DOMAIN allocs :
        /\ blocks[allocs[i]].available
        /\ blocks[allocs[i]].block_size >= size}
find_best_free_space(size) ==
    {i \in DOMAIN allocs :
        /\ blocks[allocs[i]].available
        /\ blocks[allocs[i]].block_size - FooterSize >= size}

First(indexes) == CHOOSE i \in indexes : \A j \in indexes : i <= j

-----------------------------------------------------------------------------
(* kalloc_init: the array is taken from the heap by kmalloc_bootstrap. *)
Init ==
    /\ heap_addr = HeapStart + ArraySize
    /\ blocks = [h \in {} |-> 0]
    /\ allocs = << >>
    /\ held = [c \in Clients |-> NoPtr]
    /\ status = "running"

create_heap_block_Available(header, size) ==
    [footer |-> header + size + HeaderSize,
     block_size |-> size + FooterSize,
     available |-> TRUE]
create_heap_block(header, size) ==
    [footer |-> header + size + HeaderSize,
     block_size |-> size + FooterSize,
     available |-> FALSE]

kmalloc_new_NoFooter(c, size) ==
    LET block == create_heap_block(heap_addr, size)
    IN  /\ Running /\ held[c] = NoPtr
        /\ find_best_free_space(size) = {}
        /\ get_total_block_size(size) <= Free
        /\ blocks' = [h \in DOMAIN blocks \cup {heap_addr} |->
                        IF h = heap_addr THEN block ELSE blocks[h]]
        /\ heap_addr' = block.footer
        /\ \E p \in InsertPositions(block.block_size) :
              allocs' = oarray_insert(p, heap_addr)
        /\ status' = status
        /\ held' = [held EXCEPT ![c] = [header |-> heap_addr,
                                        ptr |-> heap_addr + HeaderSize,
                                        size |-> size]]

(* A new block, with the assertion of create_heap_block and the panic when *)
(* the array is full.                                                      *)
kmalloc_new(c, size) ==
    LET block == create_heap_block(heap_addr, size)
        full == Len(allocs) >= MaxElements
        past == block.footer >= HeapEnd
    IN  /\ Running /\ held[c] = NoPtr
        /\ find_best_free_space(size) = {}
        /\ get_total_block_size(size) <= Free
        /\ blocks' = [h \in DOMAIN blocks \cup {heap_addr} |->
                        IF h = heap_addr THEN block ELSE blocks[h]]
        /\ heap_addr' = block.footer + FooterSize
        /\ \E p \in InsertPositions(block.block_size) :
              allocs' = IF full \/ past THEN allocs
                                        ELSE oarray_insert(p, heap_addr)
        /\ status' = IF past THEN "footer past the end"
                     ELSE IF full THEN "array full" ELSE "running"
        /\ held' = IF full \/ past THEN held
                   ELSE [held EXCEPT ![c] = [header |-> heap_addr,
                                             ptr |-> heap_addr + HeaderSize,
                                             size |-> size]]

(* expand_heap returns 0. *)
kmalloc_heap_full(c, size) ==
    /\ Running /\ held[c] = NoPtr
    /\ find_best_free_space(size) = {}
    /\ get_total_block_size(size) > Free
    /\ status' = "heap full"
    /\ UNCHANGED <<heap_addr, blocks, allocs, held>>

kmalloc_reuse_StaysAvailable(c, size) ==
    LET header == allocs[First(find_best_free_space(size))]
    IN  /\ Running /\ held[c] = NoPtr
        /\ find_best_free_space(size) # {}
        /\ held' = [held EXCEPT ![c] = [header |-> header,
                                        ptr |-> header + PtrSize,
                                        size |-> size]]
        /\ UNCHANGED <<heap_addr, blocks, allocs, status>>

(* The pointer returned is 8 and not 13 bytes behind the header's start:   *)
(* sizeof(header) is the size of a pointer.                                *)
kmalloc_reuse(c, size) ==
    LET header == allocs[First(find_best_free_space(size))]
    IN  /\ Running /\ held[c] = NoPtr
        /\ find_best_free_space(size) # {}
        /\ blocks' = [blocks EXCEPT ![header].available = FALSE]
        /\ held' = [held EXCEPT ![c] = [header |-> header,
                                        ptr |-> header + PtrSize,
                                        size |-> size]]
        /\ UNCHANGED <<heap_addr, allocs, status>>

kmalloc(c, size) ==
    \/ kmalloc_new(c, size)
    \/ kmalloc_heap_full(c, size)
    \/ kmalloc_reuse(c, size)

(* The client writes into its bytes.  Behind a pointer of kmalloc_reuse,   *)
(* these are also the upper five bytes of block_size.                      *)
OverSize(a) == a.size > 0 /\ a.ptr < a.header + HeaderSize
write(c) ==
    /\ Running /\ held[c] # NoPtr /\ OverSize(held[c])
    /\ \E extra \in {0, Garbage} :
          LET h == held[c].header
          IN  blocks' = [blocks EXCEPT ![h].block_size =
                  blocks[h].footer + FooterSize - (h + HeaderSize) + extra]
    /\ UNCHANGED <<heap_addr, allocs, held, status>>

(* The header is looked for 13 bytes before the pointer, and the footer at *)
(* the end that header's block_size gives: when these are not a header and *)
(* its footer, an assertion or a page fault stops the kernel.              *)
ValidBlock(ptr) ==
    \E h \in DOMAIN blocks :
        /\ h + HeaderSize = ptr
        /\ ptr + blocks[h].block_size - FooterSize = blocks[h].footer
kfree(c) ==
    /\ Running /\ held[c] # NoPtr
    /\ IF ValidBlock(held[c].ptr)
       THEN /\ blocks' = [blocks EXCEPT
                            ![held[c].ptr - HeaderSize].available = TRUE]
            /\ held' = [held EXCEPT ![c] = NoPtr]
            /\ status' = status
       ELSE /\ status' = "bad free"
            /\ UNCHANGED <<blocks, held>>
    /\ UNCHANGED <<heap_addr, allocs>>

Next == \E c \in Clients :
    \/ \E size \in Sizes : kmalloc(c, size)
    \/ write(c)
    \/ kfree(c)

Spec == Init /\ [][Next]_vars
-----------------------------------------------------------------------------
(* Properties. *)

Pointers == [header : Nat, ptr : Nat, size : Nat]
Bytes(a) == a.ptr .. a.ptr + a.size - 1
HeaderBytes(h) == h .. h + HeaderSize - 1
FooterBytes(h) == blocks[h].footer .. blocks[h].footer + FooterSize - 1
TrueSize(h) == blocks[h].footer + FooterSize - (h + HeaderSize)

(* Values of the right kind; the top of the heap is in the heap.           *)
TypeOK ==
    /\ heap_addr \in HeapStart + ArraySize .. HeapEnd
    /\ DOMAIN blocks \subseteq HeapStart + ArraySize .. HeapEnd
    /\ \A h \in DOMAIN blocks :
          blocks[h] \in [footer : Nat, block_size : Nat, available : BOOLEAN]
    /\ allocs \in Seq(DOMAIN blocks)
    /\ held \in [Clients -> Pointers \cup {NoPtr}]
    /\ status \in {"running", "heap full", "array full",
                   "footer past the end", "bad free"}

(* The blocks follow each other without a gap or an overlap up to          *)
(* heap.addr (kalloc.c:76-88, 144-147).                                    *)
BlocksTile ==
    \A h \in DOMAIN blocks :
        /\ h + HeaderSize <= blocks[h].footer
        /\ LET end == blocks[h].footer + FooterSize
           IN  /\ end <= heap_addr
               /\ \A g \in DOMAIN blocks : g > h => g >= end

(* What the clients write never meets: the bytes of two of them, or the    *)
(* header of another block, or a footer (kalloc.c:101, 145, 169).          *)
PayloadsApart ==
    \A c \in {d \in Clients : held[d] # NoPtr} :
        /\ \A d \in Clients \ {c} :
              held[d] # NoPtr => Bytes(held[c]) \cap Bytes(held[d]) = {}
        /\ \A h \in DOMAIN blocks :
              /\ Bytes(held[c]) \cap FooterBytes(h) = {}
              /\ h # held[c].header => Bytes(held[c]) \cap HeaderBytes(h) = {}

(* The search trusts block_size only where it is right: a block whose      *)
(* block_size was written over never becomes available (kalloc.c:101).     *)
FreeSizesIntact ==
    \A h \in DOMAIN blocks :
        blocks[h].available => blocks[h].block_size = TrueSize(h)

(* While the kernel runs, a block is available or has one holder           *)
(* (kalloc.c:69, 167, 186): nothing leaks and nothing is handed out twice. *)
OneHolder ==
    /\ \A c, d \in Clients :
          held[c] # NoPtr /\ held[d] # NoPtr /\ c # d
              => held[c].header # held[d].header
    /\ Running => \A h \in DOMAIN blocks :
          blocks[h].available <=>
              ~ \E c \in Clients : held[c] # NoPtr /\ held[c].header = h

(* The array lists every block once, wherever an element was inserted      *)
(* (orderedarray.h:50-77).                                                 *)
ArrayListsBlocks ==
    Running =>
        /\ \A h \in DOMAIN blocks : \E i \in DOMAIN allocs : allocs[i] = h
        /\ \A i, j \in DOMAIN allocs : i # j => allocs[i] # allocs[j]

(* The assertion of create_heap_block (kalloc.c:82) and the panic for a    *)
(* full array (kalloc.c:154) are never reached: the heap is full before.   *)
NoInternalFailure == status \notin {"footer past the end", "array full"}

(* "lets make sure we ok" (kalloc.c:180): what kfree asserts of a block    *)
(* that came from kmalloc holds.                                           *)
FreeSucceeds == status # "bad free"
=============================================================================
