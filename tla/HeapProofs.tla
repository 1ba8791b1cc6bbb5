----------------------------- MODULE HeapProofs -----------------------------
(***************************************************************************)
(* The heap's invariants for every heap size and every number of clients.  *)
(***************************************************************************)
EXTENDS Heap, NatLemmas, TLAPS

(* What kmalloc knows of the bytes a client holds: they lie between the    *)
(* start or the end of a header's block_size and the block's footer, and   *)
(* the block is not available.                                             *)
HolderInBlock ==
    \A c \in Clients : held[c] # NoPtr =>
        LET a == held[c]
        IN  /\ a.header \in DOMAIN blocks
            /\ ~ blocks[a.header].available
            /\ a.ptr \in {a.header + PtrSize, a.header + HeaderSize}
            /\ a.ptr + a.size <= blocks[a.header].footer

(* Every element of the array stands for at least 25 bytes of heap.        *)
ArrayPaidFor ==
    /\ (HeaderSize + FooterSize) * Len(allocs) + HeapStart + ArraySize
          <= heap_addr
    /\ NoInternalFailure

IInv ==
    /\ TypeOK
    /\ BlocksTile
    /\ FreeSizesIntact
    /\ OneHolder
    /\ ArrayListsBlocks
    /\ HolderInBlock
    /\ ArrayPaidFor

(* The constants and the sizes computed from them are natural numbers.     *)
LEMMA Sizes_are_Nat ==
    /\ HeapStart \in Nat /\ HeapSize \in Nat /\ ArraySize \in Nat
    /\ MaxElements \in Nat /\ HeapEnd = HeapStart + HeapSize
    /\ HeapSize - ArraySize < 25 * (MaxElements + 1) /\ ArraySize <= HeapSize
    /\ HeaderSize = 13 /\ FooterSize = 12 /\ PtrSize = 8
<1>1. HeapSize \in Nat /\ ArraySize \in 48 .. HeapSize
  BY HeapAssumption
<1>2. ArraySize - 48 \in Nat /\ 8 \in Nat \ {0}
  BY <1>1
<1>3. MaxElements \in Nat
  BY <1>2, DivMod DEF MaxElements
<1>4. QED BY <1>1, <1>3, HeapAssumption DEF HeapEnd, HeaderSize, FooterSize, PtrSize

(* kalloc_init leaves a heap of no blocks behind the array (kalloc.c:223). *)
LEMMA InitIInv == Init => IInv
<1> SUFFICES ASSUME Init PROVE IInv
  OBVIOUS
<1>1. DOMAIN blocks = {} /\ allocs = << >> /\ Len(allocs) = 0
  BY DEF Init
<1>2. TypeOK
  BY <1>1, Sizes_are_Nat DEF Init, TypeOK
<1>3. QED
  BY <1>1, <1>2, Sizes_are_Nat
  DEF Init, IInv, BlocksTile, FreeSizesIntact, OneHolder, ArrayListsBlocks,
      HolderInBlock, ArrayPaidFor, NoInternalFailure, Running

-----------------------------------------------------------------------------
(* The array is a sequence of headers.                                     *)
LEMMA ArrayType ==
    ASSUME IInv
    PROVE  /\ allocs \in Seq(DOMAIN blocks)
           /\ Len(allocs) \in Nat /\ DOMAIN allocs = 1 .. Len(allocs)
           /\ \A i \in 1 .. Len(allocs) : allocs[i] \in DOMAIN blocks
<1>1. allocs \in Seq(DOMAIN blocks)
  BY DEF IInv, TypeOK
<1> DEFINE S == DOMAIN blocks
<1>2. allocs \in Seq(S)
  BY <1>1
<1> HIDE DEF S
<1>3. /\ Len(allocs) \in Nat /\ DOMAIN allocs = 1 .. Len(allocs)
      /\ \A i \in 1 .. Len(allocs) : allocs[i] \in S
  BY <1>2
<1>4. QED BY <1>1, <1>3 DEF S

(* Where a block lies (kalloc.c:76-88).                                    *)
LEMMA BlockBounds ==
    ASSUME IInv, NEW g \in DOMAIN blocks
    PROVE  /\ g \in Nat /\ heap_addr \in Nat /\ g >= HeapStart + ArraySize
           /\ blocks[g] \in [footer : Nat, block_size : Nat, available : BOOLEAN]
           /\ blocks[g].footer \in Nat
           /\ g + 13 <= blocks[g].footer
           /\ blocks[g].footer + 12 <= heap_addr
           /\ \A f \in DOMAIN blocks : f > g => f >= blocks[g].footer + 12
<1>1. /\ g \in HeapStart + ArraySize .. HeapEnd
      /\ heap_addr \in HeapStart + ArraySize .. HeapEnd
      /\ blocks[g] \in [footer : Nat, block_size : Nat, available : BOOLEAN]
  BY DEF IInv, TypeOK
<1>2. g \in Nat /\ heap_addr \in Nat /\ g >= HeapStart + ArraySize
  BY <1>1, Sizes_are_Nat
<1>3. QED BY <1>1, <1>2, Sizes_are_Nat DEF IInv, BlocksTile

(* A block that find_best_free_space returns is available, its size is     *)
(* right and the request fits in front of its footer (kalloc.c:94-117).    *)
LEMMA FoundBlock ==
    ASSUME IInv, NEW size \in Sizes, find_best_free_space(size) # {},
           NEW h, h = allocs[First(find_best_free_space(size))]
    PROVE  /\ h \in DOMAIN blocks
           /\ blocks[h].available
           /\ h + HeaderSize + size <= blocks[h].footer
<1> DEFINE F == find_best_free_space(size)
<1>1. F \in SUBSET Nat /\ F # {}
  BY ArrayType DEF find_best_free_space
<1>2. \E i \in F : \A j \in F : i <= j
  <2> HIDE DEF F
  <2>1. QED BY <1>1, LeastElement
<1>3. First(F) \in F
  BY <1>2 DEF First
<1>4. PICK i \in DOMAIN allocs :
          /\ h = allocs[i] /\ blocks[h].available
          /\ blocks[h].block_size - FooterSize >= size
  BY <1>3 DEF find_best_free_space
<1>5. h \in DOMAIN blocks
  BY <1>4, ArrayType
<1>6. blocks[h].block_size = TrueSize(h)
  BY <1>4, <1>5 DEF IInv, FreeSizesIntact
<1>7. blocks[h].footer \in Nat /\ h \in Nat /\ size \in Nat
  BY <1>5, BlockBounds, HeapAssumption
<1>8. QED BY <1>4, <1>5, <1>6, <1>7, Sizes_are_Nat DEF TrueSize

(* kmalloc of a new block.                                                 *)
LEMMA NewStep ==
    ASSUME IInv, NEW c \in Clients, NEW size \in Sizes, kmalloc_new(c, size)
    PROVE  IInv'
<1> DEFINE h == heap_addr
           block == create_heap_block(h, size)
<1>1. /\ Running /\ held[c] = NoPtr
      /\ get_total_block_size(size) <= Free
      /\ heap_addr' = block.footer + FooterSize
  BY DEF kmalloc_new
<1>2. size \in Nat /\ h \in Nat /\ h >= HeapStart + ArraySize /\ h <= HeapEnd
  <2>1. heap_addr \in HeapStart + ArraySize .. HeapEnd
    BY DEF IInv, TypeOK
  <2>2. QED BY <2>1, HeapAssumption, Sizes_are_Nat
<1>3. /\ block.footer = h + size + 13
      /\ block.block_size = size + 12 /\ block.available = FALSE
      /\ block \in [footer : Nat, block_size : Nat, available : BOOLEAN]
  BY <1>2, Sizes_are_Nat DEF create_heap_block
<1>4. h + size + 25 <= HeapEnd
  BY <1>1, <1>2, Sizes_are_Nat DEF get_total_block_size, Free
<1>5. /\ Len(allocs) \in Nat /\ DOMAIN allocs = 1 .. Len(allocs)
      /\ \A i \in 1 .. Len(allocs) : allocs[i] \in DOMAIN blocks
  BY ArrayType
<1>6. Len(allocs) < MaxElements
  BY <1>2, <1>4, <1>5, Sizes_are_Nat DEF IInv, ArrayPaidFor
<1>7. ~ (Len(allocs) >= MaxElements) /\ ~ (block.footer >= HeapEnd)
  BY <1>2, <1>3, <1>4, <1>5, <1>6, Sizes_are_Nat
<1> DEFINE a == [header |-> h, ptr |-> h + HeaderSize, size |-> size]
<1>8. /\ heap_addr' = h + size + 25
      /\ blocks' = [g \in DOMAIN blocks \cup {h} |->
                        IF g = h THEN block ELSE blocks[g]]
      /\ status' = "running"
      /\ held' = [held EXCEPT ![c] = a]
  BY <1>1, <1>2, <1>3, <1>7, Sizes_are_Nat DEF kmalloc_new
<1>9. PICK p \in 1 .. Len(allocs) + 1 : allocs' = oarray_insert(p, h)
  BY <1>7 DEF kmalloc_new, InsertPositions
<1> HIDE DEF block
<1>10. ASSUME NEW g \in DOMAIN blocks
       PROVE  /\ g \in Nat /\ blocks[g].footer \in Nat
              /\ g < h /\ blocks[g].footer + 12 <= h
  BY <1>2, <1>10, BlockBounds
<1>11. /\ DOMAIN blocks' = DOMAIN blocks \cup {h} /\ h \notin DOMAIN blocks
       /\ blocks'[h] = block
       /\ \A g \in DOMAIN blocks : blocks'[g] = blocks[g]
  BY <1>2, <1>8, <1>10
<1>12. /\ a # NoPtr /\ a \in Pointers
       /\ held'[c] = a /\ \A d \in Clients \ {c} : held'[d] = held[d]
  <2>1. h + HeaderSize \in Nat
    BY <1>2, Sizes_are_Nat
  <2>2. a \in [header : Nat, ptr : Nat, size : Nat]
    BY <1>2, <2>1
  <2>3. DOMAIN held = Clients
    BY DEF IInv, TypeOK
  <2> HIDE DEF a
  <2>4. QED BY <1>8, <2>2, <2>3, HeapAssumption DEF Pointers
<1>13. /\ allocs' \in Seq(DOMAIN blocks') /\ Len(allocs') = Len(allocs) + 1
       /\ DOMAIN allocs' = 1 .. Len(allocs) + 1
       /\ \A i \in 1 .. Len(allocs) + 1 :
             allocs'[i] = IF i < p THEN allocs[i]
                          ELSE IF i = p THEN h ELSE allocs[i - 1]
  <2>1. \A i \in 1 .. Len(allocs) : allocs[i] \in DOMAIN blocks
    BY <1>5
  <2>2. \A i \in 1 .. Len(allocs) + 1 :
            (IF i < p THEN allocs[i] ELSE IF i = p THEN h ELSE allocs[i - 1])
               \in DOMAIN blocks'
    BY <1>5, <1>9, <1>11, <2>1
  <2>3. Len(allocs) + 1 \in Nat
    BY <1>5
  <2>4. QED BY <1>9, <2>2, <2>3 DEF oarray_insert
<1>14. TypeOK'
  <2>1. heap_addr' \in HeapStart + ArraySize .. HeapEnd
    BY <1>2, <1>4, <1>8, Sizes_are_Nat
  <2>2. DOMAIN blocks' \subseteq HeapStart + ArraySize .. HeapEnd
    BY <1>2, <1>11, Sizes_are_Nat DEF IInv, TypeOK
  <2>3. QED BY <1>3, <1>8, <1>11, <1>12, <1>13, <2>1, <2>2 DEF IInv, TypeOK
<1>15. BlocksTile'
  <2> SUFFICES ASSUME NEW g \in DOMAIN blocks'
               PROVE  /\ g + 13 <= blocks'[g].footer
                      /\ blocks'[g].footer + 12 <= heap_addr'
                      /\ \A f \in DOMAIN blocks' :
                            f > g => f >= blocks'[g].footer + 12
    BY Sizes_are_Nat DEF BlocksTile
  <2>1. CASE g = h
    BY <1>2, <1>3, <1>8, <1>10, <1>11, <2>1, SMTT(30)
  <2>2. CASE g \in DOMAIN blocks
    <3>1. \A f \in DOMAIN blocks : f > g => f >= blocks[g].footer + 12
      BY <2>2, BlockBounds
    <3>2. g + 13 <= blocks[g].footer /\ blocks[g].footer + 12 <= h
      BY <2>2, BlockBounds
    <3>3. blocks[g].footer \in Nat
      BY <1>10, <2>2
    <3> HIDE DEF h
    <3>4. QED BY <1>2, <1>8, <1>11, <2>2, <3>1, <3>2, <3>3
  <2>3. QED BY <1>11, <2>1, <2>2
<1>16. FreeSizesIntact'
  BY <1>3, <1>11 DEF IInv, FreeSizesIntact, TrueSize
<1>17. \A d \in Clients : held[d] # NoPtr => held[d].header \in DOMAIN blocks
  BY DEF IInv, HolderInBlock
<1>18. OneHolder'
  <2>1. \A d \in Clients \ {c} : held'[d] # NoPtr => held'[d].header # h
    BY <1>11, <1>12, <1>17
  <2>2. a.header = h
    OBVIOUS
  <2> HIDE DEF a, h
  <2>3. \A g \in DOMAIN blocks :
           (\E d \in Clients : held'[d] # NoPtr /\ held'[d].header = g)
              <=> \E d \in Clients : held[d] # NoPtr /\ held[d].header = g
    BY <1>1, <1>11, <1>12, <2>2
  <2>4. \A d, e \in Clients : held'[d] # NoPtr /\ held'[e] # NoPtr /\ d # e
           => held'[d].header # held'[e].header
    BY <1>12, <2>1, <2>2 DEF IInv, OneHolder
  <2>5. \A g \in DOMAIN blocks' : blocks'[g].available <=>
           ~ \E d \in Clients : held'[d] # NoPtr /\ held'[d].header = g
    BY <1>1, <1>3, <1>11, <1>12, <2>2, <2>3 DEF IInv, OneHolder
  <2>6. QED BY <2>4, <2>5 DEF OneHolder
<1>19. ArrayListsBlocks'
  <2>1. \A i \in 1 .. Len(allocs) : allocs[i] \in DOMAIN blocks
    BY <1>5
  <2>2. ASSUME NEW g \in DOMAIN blocks'
        PROVE  \E i \in DOMAIN allocs' : allocs'[i] = g
    <3>1. CASE g = h
      BY <1>9, <1>13, <3>1
    <3>2. CASE g # h
      <4>1. PICK i \in DOMAIN allocs : allocs[i] = g
        BY <1>1, <1>11, <2>2, <3>2 DEF IInv, ArrayListsBlocks
      <4>2. i \in 1 .. Len(allocs)
        BY <1>5, <4>1
      <4>3. CASE i < p
        BY <1>5, <1>13, <4>1, <4>2, <4>3
      <4>4. CASE i >= p
        <5>1. i + 1 \in 1 .. Len(allocs) + 1 /\ ~ (i + 1 < p) /\ i + 1 # p
          BY <1>5, <1>9, <4>2, <4>4
        <5>2. allocs'[i + 1] = allocs[i]
          BY <1>13, <4>2, <5>1
        <5>3. QED BY <1>13, <4>1, <5>1, <5>2
      <4>5. QED BY <1>9, <4>2, <4>3, <4>4
    <3>3. QED BY <3>1, <3>2
  <2>3. ASSUME NEW i \in DOMAIN allocs', NEW j \in DOMAIN allocs', i < j
        PROVE  allocs'[i] # allocs'[j]
    <3>1. \A k, l \in 1 .. Len(allocs) : k # l => allocs[k] # allocs[l]
      BY <1>1, <1>5 DEF IInv, ArrayListsBlocks
    <3>2. \A k \in 1 .. Len(allocs) : allocs[k] # h
      BY <1>11, <2>1
    <3>3. i \in 1 .. Len(allocs) + 1 /\ j \in 1 .. Len(allocs) + 1
      BY <1>13, <2>3
    <3> HIDE DEF h
    <3>4. CASE j < p
      BY <1>5, <1>9, <1>13, <2>3, <3>1, <3>3, <3>4
    <3>5. CASE j = p
      <4>1. i \in 1 .. Len(allocs) /\ allocs'[i] = allocs[i] /\ allocs'[j] = h
        BY <1>5, <1>9, <1>13, <2>3, <3>3, <3>5
      <4>2. QED BY <3>2, <4>1
    <3>6. CASE j > p
      <4>1. j - 1 \in 1 .. Len(allocs) /\ allocs'[j] = allocs[j - 1]
        BY <1>5, <1>9, <1>13, <3>3, <3>6
      <4>2. CASE i < p
        <5>1. i \in 1 .. Len(allocs) /\ allocs'[i] = allocs[i] /\ i # j - 1
          BY <1>5, <1>9, <1>13, <2>3, <3>3, <3>6, <4>2
        <5>2. QED BY <3>1, <4>1, <5>1
      <4>3. CASE i = p
        <5>1. allocs'[i] = h
          BY <1>13, <3>3, <4>3
        <5>2. QED BY <3>2, <4>1, <5>1
      <4>4. CASE i > p
        <5>1. i - 1 \in 1 .. Len(allocs) /\ allocs'[i] = allocs[i - 1]
              /\ i - 1 # j - 1
          BY <1>5, <1>9, <1>13, <2>3, <3>3, <4>4
        <5>2. QED BY <3>1, <4>1, <5>1
      <4>5. QED BY <1>9, <3>3, <4>2, <4>3, <4>4
    <3>7. QED BY <1>9, <3>3, <3>4, <3>5, <3>6
  <2>4. \A i, j \in DOMAIN allocs' : i # j => i < j \/ j < i
    BY <1>5, <1>13
  <2>5. QED BY <2>2, <2>3, <2>4 DEF ArrayListsBlocks
<1>20. HolderInBlock'
  BY <1>2, <1>3, <1>11, <1>12, <1>17, Sizes_are_Nat DEF IInv, HolderInBlock
<1>21. ArrayPaidFor'
  <2>1. 25 * Len(allocs) + HeapStart + ArraySize <= h
    BY Sizes_are_Nat DEF IInv, ArrayPaidFor
  <2> HIDE DEF h
  <2>2. 25 * Len(allocs') + HeapStart + ArraySize <= heap_addr'
    BY <1>2, <1>5, <1>8, <1>13, <2>1, Sizes_are_Nat
  <2>3. QED BY <1>8, <2>2, Sizes_are_Nat DEF ArrayPaidFor, NoInternalFailure
<1>22. QED BY <1>14, <1>15, <1>16, <1>18, <1>19, <1>20, <1>21 DEF IInv

(* The steps that only change the bits of headers keep where blocks lie.   *)
SameBlocks ==
    /\ DOMAIN blocks' = DOMAIN blocks
    /\ \A h \in DOMAIN blocks :
          /\ blocks'[h] \in [footer : Nat, block_size : Nat, available : BOOLEAN]
          /\ blocks'[h].footer = blocks[h].footer
    /\ heap_addr' = heap_addr /\ allocs' = allocs

(* A step that leaves the blocks alone keeps what is said of them. *)
LEMMA SameBlocksStep ==
    ASSUME IInv, SameBlocks, Running,
           status' \in {"running", "heap full", "bad free"},
           held' \in [Clients -> Pointers \cup {NoPtr}]
    PROVE  TypeOK' /\ BlocksTile' /\ ArrayListsBlocks' /\ ArrayPaidFor'
<1>1. TypeOK'
  BY DEF IInv, TypeOK, SameBlocks
<1>2. BlocksTile'
  BY DEF IInv, BlocksTile, SameBlocks
<1>3. ArrayListsBlocks'
  BY DEF IInv, ArrayListsBlocks, SameBlocks
<1>4. ArrayPaidFor'
  BY DEF IInv, ArrayPaidFor, NoInternalFailure, SameBlocks
<1>5. QED BY <1>1, <1>2, <1>3, <1>4

(* kmalloc of an available block.                                          *)
LEMMA ReuseStep ==
    ASSUME IInv, NEW c \in Clients, NEW size \in Sizes, kmalloc_reuse(c, size)
    PROVE  IInv'
<1> DEFINE h == allocs[First(find_best_free_space(size))]
           a == [header |-> h, ptr |-> h + PtrSize, size |-> size]
<1>1. /\ Running /\ held[c] = NoPtr /\ find_best_free_space(size) # {}
      /\ blocks' = [blocks EXCEPT ![h].available = FALSE]
      /\ held' = [held EXCEPT ![c] = a]
      /\ heap_addr' = heap_addr /\ allocs' = allocs /\ status' = status
  BY DEF kmalloc_reuse
<1>2. /\ h \in DOMAIN blocks /\ blocks[h].available
      /\ h + HeaderSize + size <= blocks[h].footer
  BY <1>1, FoundBlock
<1> HIDE DEF h
<1>3. h \in Nat /\ size \in Nat /\ blocks[h].footer \in Nat
  BY <1>2, BlockBounds, HeapAssumption
<1>4. \A g \in DOMAIN blocks :
         blocks[g] \in [footer : Nat, block_size : Nat, available : BOOLEAN]
  BY BlockBounds
<1>5. /\ DOMAIN blocks' = DOMAIN blocks
      /\ \A g \in DOMAIN blocks \ {h} : blocks'[g] = blocks[g]
      /\ blocks'[h].footer = blocks[h].footer
      /\ blocks'[h].block_size = blocks[h].block_size
      /\ blocks'[h].available = FALSE
      /\ blocks'[h] \in [footer : Nat, block_size : Nat, available : BOOLEAN]
  BY <1>1, <1>2, <1>4
<1>6. SameBlocks
  BY <1>1, <1>4, <1>5 DEF SameBlocks
<1>7. a # NoPtr /\ a \in Pointers
  <2>1. a \in [header : Nat, ptr : Nat, size : Nat]
    BY <1>3, Sizes_are_Nat
  <2> HIDE DEF a
  <2>2. QED BY <2>1, HeapAssumption DEF Pointers
<1>8. held'[c] = a /\ \A d \in Clients \ {c} : held'[d] = held[d]
  BY <1>1 DEF IInv, TypeOK
<1>9. TypeOK' /\ BlocksTile' /\ ArrayListsBlocks' /\ ArrayPaidFor'
  <2>1. held' \in [Clients -> Pointers \cup {NoPtr}]
    BY <1>1, <1>7 DEF IInv, TypeOK
  <2>2. QED BY <1>1, <1>6, <2>1, SameBlocksStep DEF Running
<1>10. FreeSizesIntact'
  BY <1>2, <1>5 DEF IInv, FreeSizesIntact, TrueSize
<1>11. \A d \in Clients : held[d] # NoPtr => held[d].header # h
  BY <1>1, <1>2 DEF IInv, OneHolder
<1>12. a.header = h /\ a.ptr = h + PtrSize /\ a.size = size
  OBVIOUS
<1> HIDE DEF a
<1>13. OneHolder'
  <2>1. \A g \in DOMAIN blocks \ {h} :
           (\E d \in Clients : held'[d] # NoPtr /\ held'[d].header = g)
              <=> \E d \in Clients : held[d] # NoPtr /\ held[d].header = g
    BY <1>1, <1>8, <1>12
  <2>2. \A d, e \in Clients : held'[d] # NoPtr /\ held'[e] # NoPtr /\ d # e
           => held'[d].header # held'[e].header
    BY <1>8, <1>11, <1>12 DEF IInv, OneHolder
  <2>3. \A g \in DOMAIN blocks' : blocks'[g].available <=>
           ~ \E d \in Clients : held'[d] # NoPtr /\ held'[d].header = g
    BY <1>1, <1>5, <1>7, <1>8, <1>12, <2>1 DEF IInv, OneHolder
  <2>4. QED BY <2>2, <2>3 DEF OneHolder
<1>14. HolderInBlock'
  BY <1>2, <1>3, <1>5, <1>7, <1>8, <1>11, <1>12, Sizes_are_Nat
  DEF IInv, HolderInBlock
<1>15. QED BY <1>9, <1>10, <1>13, <1>14 DEF IInv

(* A client's write.                                                       *)
LEMMA WriteStep ==
    ASSUME IInv, NEW c \in Clients, write(c)
    PROVE  IInv'
<1> DEFINE h == held[c].header
<1>1. PICK extra \in {0, Garbage} :
          blocks' = [blocks EXCEPT ![h].block_size =
                blocks[h].footer + FooterSize - (h + HeaderSize) + extra]
  BY DEF write
<1>2. /\ Running /\ held[c] # NoPtr
      /\ heap_addr' = heap_addr /\ allocs' = allocs
      /\ held' = held /\ status' = status
  BY DEF write
<1>3. h \in DOMAIN blocks /\ ~ blocks[h].available
  BY <1>2 DEF IInv, HolderInBlock
<1> HIDE DEF h
<1>4. /\ h \in Nat /\ blocks[h].footer \in Nat /\ h + 13 <= blocks[h].footer
  BY <1>3, BlockBounds
<1>5. extra \in Nat
  BY HeapAssumption
<1>6. blocks[h].footer + FooterSize - (h + HeaderSize) + extra \in Nat
  BY <1>4, <1>5, Sizes_are_Nat
<1>7. \A g \in DOMAIN blocks :
         blocks[g] \in [footer : Nat, block_size : Nat, available : BOOLEAN]
  BY BlockBounds
<1>8. /\ DOMAIN blocks' = DOMAIN blocks
      /\ \A g \in DOMAIN blocks \ {h} : blocks'[g] = blocks[g]
      /\ blocks'[h].footer = blocks[h].footer
      /\ blocks'[h].available = blocks[h].available
      /\ blocks'[h] \in [footer : Nat, block_size : Nat, available : BOOLEAN]
  BY <1>1, <1>3, <1>6, <1>7
<1>9. SameBlocks
  BY <1>2, <1>7, <1>8 DEF SameBlocks
<1>10. TypeOK' /\ BlocksTile' /\ ArrayListsBlocks' /\ ArrayPaidFor'
  <2>1. held' \in [Clients -> Pointers \cup {NoPtr}]
    BY <1>2 DEF IInv, TypeOK
  <2>2. QED BY <1>2, <1>9, <2>1, SameBlocksStep DEF Running
<1>11. FreeSizesIntact'
  BY <1>3, <1>8 DEF IInv, FreeSizesIntact, TrueSize
<1>12. OneHolder'
  BY <1>2, <1>3, <1>8 DEF IInv, OneHolder, Running
<1>13. HolderInBlock'
  BY <1>2, <1>3, <1>8 DEF IInv, HolderInBlock
<1>14. QED BY <1>10, <1>11, <1>12, <1>13 DEF IInv

(* kfree: when the assertions hold, the block that is marked is the one of *)
(* the client, and its size is right.                                      *)
LEMMA FreeStep ==
    ASSUME IInv, NEW c \in Clients, kfree(c)
    PROVE  IInv'
<1> DEFINE a == held[c]
           h == a.header
<1>1. /\ Running /\ a # NoPtr /\ heap_addr' = heap_addr /\ allocs' = allocs
  BY DEF kfree
<1>2. /\ h \in DOMAIN blocks /\ a.ptr \in {h + PtrSize, h + HeaderSize}
  BY <1>1 DEF IInv, HolderInBlock
<1>3. CASE ~ ValidBlock(a.ptr)
  <2>1. status' = "bad free" /\ blocks' = blocks /\ held' = held
    BY <1>3 DEF kfree
  <2>2. SameBlocks
    BY <1>1, <2>1, BlockBounds DEF SameBlocks
  <2>3. TypeOK' /\ BlocksTile' /\ ArrayListsBlocks' /\ ArrayPaidFor'
    <3>1. held' \in [Clients -> Pointers \cup {NoPtr}]
      BY <2>1 DEF IInv, TypeOK
    <3>2. QED BY <1>1, <2>1, <2>2, <3>1, SameBlocksStep
  <2>4. FreeSizesIntact' /\ OneHolder' /\ HolderInBlock'
    BY <2>1 DEF IInv, FreeSizesIntact, TrueSize, OneHolder, HolderInBlock,
                Running
  <2>5. QED BY <2>3, <2>4 DEF IInv
<1>4. CASE ValidBlock(a.ptr)
  <2>1. PICK g \in DOMAIN blocks :
            /\ g + HeaderSize = a.ptr
            /\ a.ptr + blocks[g].block_size - FooterSize = blocks[g].footer
    BY <1>4 DEF ValidBlock
  <2>2. g = h
    <3>1. g \in Nat /\ h \in Nat
      BY <1>2, <2>1, BlockBounds
    <3>2. CASE a.ptr = h + HeaderSize
      BY <2>1, <3>1, <3>2, Sizes_are_Nat
    <3>3. CASE a.ptr = h + PtrSize
      <4>1. h > g /\ h < g + 25
        BY <2>1, <3>1, <3>3, Sizes_are_Nat
      <4>2. /\ blocks[g].footer \in Nat
            /\ g + 13 <= blocks[g].footer /\ h >= blocks[g].footer + 12
        BY <1>2, <2>1, <4>1, BlockBounds
      <4>3. QED BY <3>1, <4>1, <4>2
    <3>4. QED BY <1>2, <3>2, <3>3
  <2>3. /\ h \in Nat /\ blocks[h].footer \in Nat /\ blocks[h].block_size \in Nat
        /\ \A f \in DOMAIN blocks :
              blocks[f] \in [footer : Nat, block_size : Nat, available : BOOLEAN]
    BY <1>2, BlockBounds
  <2>4. blocks[h].block_size = TrueSize(h) /\ a.ptr - HeaderSize = h
    BY <2>1, <2>2, <2>3, Sizes_are_Nat DEF TrueSize
  <2>5. /\ blocks' = [blocks EXCEPT ![h].available = TRUE]
        /\ held' = [held EXCEPT ![c] = NoPtr] /\ status' = status
    BY <1>4, <2>4 DEF kfree
  <2>6. /\ held'[c] = NoPtr /\ \A d \in Clients \ {c} : held'[d] = held[d]
        /\ held' \in [Clients -> Pointers \cup {NoPtr}]
    BY <2>5 DEF IInv, TypeOK
  <2>7. \A d \in Clients \ {c} : held[d] # NoPtr => held[d].header # h
    BY <1>1 DEF IInv, OneHolder
  <2> HIDE DEF h
  <2>8. /\ DOMAIN blocks' = DOMAIN blocks
        /\ \A f \in DOMAIN blocks \ {h} : blocks'[f] = blocks[f]
        /\ blocks'[h].footer = blocks[h].footer
        /\ blocks'[h].block_size = blocks[h].block_size
        /\ blocks'[h].available = TRUE
        /\ blocks'[h] \in [footer : Nat, block_size : Nat, available : BOOLEAN]
    BY <1>2, <2>3, <2>5
  <2>9. SameBlocks
    BY <1>1, <2>3, <2>8 DEF SameBlocks
  <2>10. TypeOK' /\ BlocksTile' /\ ArrayListsBlocks' /\ ArrayPaidFor'
    BY <1>1, <2>5, <2>6, <2>9, SameBlocksStep DEF Running
  <2>11. FreeSizesIntact'
    BY <2>4, <2>8 DEF IInv, FreeSizesIntact, TrueSize
  <2>12. OneHolder'
    <3>1. \A d, e \in Clients : held'[d] # NoPtr /\ held'[e] # NoPtr /\ d # e
             => held'[d].header # held'[e].header
      BY <2>6 DEF IInv, OneHolder
    <3>2. a = held[c] /\ a.header = h
      BY DEF h
    <3> HIDE DEF a
    <3>3. \A f \in DOMAIN blocks \ {h} :
             (\E d \in Clients : held'[d] # NoPtr /\ held'[d].header = f)
                <=> \E d \in Clients : held[d] # NoPtr /\ held[d].header = f
      BY <2>6, <3>2
    <3>4. ~ \E d \in Clients : held'[d] # NoPtr /\ held'[d].header = h
      BY <2>6, <2>7
    <3>5. \A f \in DOMAIN blocks' : blocks'[f].available <=>
             ~ \E d \in Clients : held'[d] # NoPtr /\ held'[d].header = f
      BY <1>1, <2>8, <3>3, <3>4 DEF IInv, OneHolder
    <3>6. QED BY <3>1, <3>5 DEF OneHolder
  <2>13. HolderInBlock'
    BY <2>6, <2>7, <2>8 DEF IInv, HolderInBlock
  <2>14. QED BY <2>10, <2>11, <2>12, <2>13 DEF IInv
<1>5. QED BY <1>3, <1>4

(* The panic of a full heap changes nothing but the status.                *)
LEMMA FullStep ==
    ASSUME IInv, NEW c \in Clients, NEW size \in Sizes,
           kmalloc_heap_full(c, size)
    PROVE  IInv'
<1>1. /\ Running /\ status' = "heap full" /\ held' = held
      /\ heap_addr' = heap_addr /\ blocks' = blocks /\ allocs' = allocs
  BY DEF kmalloc_heap_full
<1>2. SameBlocks
  BY <1>1, BlockBounds DEF SameBlocks
<1>3. TypeOK' /\ BlocksTile' /\ ArrayListsBlocks' /\ ArrayPaidFor'
  <2>1. held' \in [Clients -> Pointers \cup {NoPtr}]
    BY <1>1 DEF IInv, TypeOK
  <2>2. QED BY <1>1, <1>2, <2>1, SameBlocksStep
<1>4. FreeSizesIntact' /\ OneHolder' /\ HolderInBlock'
  BY <1>1 DEF IInv, FreeSizesIntact, TrueSize, OneHolder, HolderInBlock, Running
<1>5. QED BY <1>3, <1>4 DEF IInv

(* kmalloc in each of its cases, a client's write and kfree keep the       *)
(* invariant (kalloc.c:121-218).                                           *)
LEMMA NextIInv == IInv /\ [Next]_vars => IInv'
<1> SUFFICES ASSUME IInv, [Next]_vars PROVE IInv'
  OBVIOUS
<1>1. CASE UNCHANGED vars
  BY <1>1 DEF vars, IInv, TypeOK, BlocksTile, FreeSizesIntact, TrueSize,
              OneHolder, ArrayListsBlocks, HolderInBlock, ArrayPaidFor,
              NoInternalFailure, Running
<1>2. CASE Next
  <2>1. PICK c \in Clients :
            (\E size \in Sizes : kmalloc(c, size)) \/ write(c) \/ kfree(c)
    BY <1>2 DEF Next
  <2>2. ASSUME NEW size \in Sizes, kmalloc(c, size) PROVE IInv'
    <3>1. CASE kmalloc_new(c, size)
      BY <3>1, NewStep
    <3>2. CASE kmalloc_heap_full(c, size)
      BY <3>2, FullStep
    <3>3. CASE kmalloc_reuse(c, size)
      BY <3>3, ReuseStep
    <3>4. QED BY <2>2, <3>1, <3>2, <3>3 DEF kmalloc
  <2>3. CASE write(c)
    BY <2>3, WriteStep
  <2>4. CASE kfree(c)
    BY <2>4, FreeStep
  <2>5. QED BY <2>1, <2>2, <2>3, <2>4
<1>3. QED BY <1>1, <1>2

-----------------------------------------------------------------------------
(* The inductive invariant holds of every behaviour of the heap.           *)
THEOREM Inductive == Spec => []IInv
  BY InitIInv, NextIInv, PTL DEF Spec

(* Type correctness: the top of the heap never passes its end.             *)
THEOREM TypeCorrect == Spec => []TypeOK
<1>1. IInv => TypeOK
  BY DEF IInv
<1>2. QED BY <1>1, Inductive, PTL

(* The blocks follow each other up to heap.addr.                           *)
THEOREM BlocksAlwaysTile == Spec => []BlocksTile
<1>1. IInv => BlocksTile
  BY DEF IInv
<1>2. QED BY <1>1, Inductive, PTL

(* An available block's block_size is right, whatever clients wrote.       *)
THEOREM SearchTrustsIntactSizes == Spec => []FreeSizesIntact
<1>1. IInv => FreeSizesIntact
  BY DEF IInv
<1>2. QED BY <1>1, Inductive, PTL

(* Each block is available or has one holder.                              *)
THEOREM EachBlockHasOneHolder == Spec => []OneHolder
<1>1. IInv => OneHolder
  BY DEF IInv
<1>2. QED BY <1>1, Inductive, PTL

(* The array lists each block once, wherever the comparison, called with   *)
(* the wrong type, makes the insertion stop.                               *)
THEOREM ArrayIsComplete == Spec => []ArrayListsBlocks
<1>1. IInv => ArrayListsBlocks
  BY DEF IInv
<1>2. QED BY <1>1, Inductive, PTL

(* The array of blocks is never full before the heap is, and the footer    *)
(* assertion never fails.                                                  *)
THEOREM InternalFailuresUnreachable == Spec => []NoInternalFailure
<1>1. IInv => NoInternalFailure
  BY DEF IInv, ArrayPaidFor
<1>2. QED BY <1>1, Inductive, PTL

(* What clients write stays apart from each other's bytes, from footers    *)
(* and from other blocks' headers, although reused blocks are handed out   *)
(* five bytes too low.                                                     *)
THEOREM PayloadsStayApart == Spec => []PayloadsApart
<1>1. IInv => PayloadsApart
  <2> SUFFICES ASSUME IInv, NEW c \in Clients, held[c] # NoPtr
               PROVE  /\ \A d \in Clients \ {c} : held[d] # NoPtr =>
                            Bytes(held[c]) \cap Bytes(held[d]) = {}
                      /\ \A g \in DOMAIN blocks :
                            /\ Bytes(held[c]) \cap FooterBytes(g) = {}
                            /\ g # held[c].header =>
                                  Bytes(held[c]) \cap HeaderBytes(g) = {}
    BY DEF PayloadsApart
  <2>1. ASSUME NEW d \in Clients, held[d] # NoPtr
        PROVE  LET h == held[d].header
               IN  /\ h \in DOMAIN blocks /\ h \in Nat
                   /\ blocks[h].footer \in Nat
                   /\ \A b \in Bytes(held[d]) :
                         b \in Int /\ b >= h + 8 /\ b < blocks[h].footer
    <3> DEFINE h == held[d].header
    <3>1. /\ h \in DOMAIN blocks
          /\ held[d].ptr \in {h + PtrSize, h + HeaderSize}
          /\ held[d].ptr + held[d].size <= blocks[h].footer
      BY <2>1 DEF IInv, HolderInBlock
    <3>2. held[d].ptr \in Nat /\ held[d].size \in Nat
      BY <2>1 DEF IInv, TypeOK, Pointers
    <3> HIDE DEF h
    <3>3. h \in Nat /\ blocks[h].footer \in Nat
      BY <3>1, BlockBounds
    <3>4. \A b \in Bytes(held[d]) :
             b \in Int /\ b >= h + 8 /\ b < blocks[h].footer
      BY <3>1, <3>2, <3>3, Sizes_are_Nat DEF Bytes
    <3>5. QED BY <3>1, <3>3, <3>4 DEF h
  <2> DEFINE h == held[c].header
  <2>2. /\ h \in DOMAIN blocks /\ h \in Nat /\ blocks[h].footer \in Nat
        /\ \A b \in Bytes(held[c]) :
              b \in Int /\ b >= h + 8 /\ b < blocks[h].footer
    BY <2>1
  <2>3. ASSUME NEW g \in DOMAIN blocks, g # h
        PROVE  blocks[g].footer + 12 <= h \/ blocks[h].footer + 12 <= g
    <3>1. /\ g \in Nat
          /\ \A f \in DOMAIN blocks : f > g => f >= blocks[g].footer + 12
          /\ \A f \in DOMAIN blocks : f > h => f >= blocks[h].footer + 12
      BY <2>2, <2>3, BlockBounds
    <3> HIDE DEF h
    <3>2. QED BY <2>2, <2>3, <3>1
  <2>4. \A d \in Clients \ {c} : held[d] # NoPtr => held[d].header # h
    BY DEF IInv, OneHolder
  <2> HIDE DEF h
  <2>5. ASSUME NEW d \in Clients \ {c}, held[d] # NoPtr,
               NEW b \in Bytes(held[c]), b \in Bytes(held[d])
        PROVE  FALSE
    <3> DEFINE g == held[d].header
    <3>1. /\ g \in DOMAIN blocks /\ g \in Nat /\ blocks[g].footer \in Nat
          /\ b >= g + 8 /\ b < blocks[g].footer
      BY <2>1, <2>5
    <3>2. g # h
      BY <2>4, <2>5
    <3> HIDE DEF g
    <3>3. QED BY <2>2, <2>3, <3>1, <3>2
  <2>6. ASSUME NEW g \in DOMAIN blocks
        PROVE  /\ Bytes(held[c]) \cap FooterBytes(g) = {}
               /\ g # h => Bytes(held[c]) \cap HeaderBytes(g) = {}
    <3>1. /\ g \in Nat /\ blocks[g].footer \in Nat
          /\ g + 13 <= blocks[g].footer
      BY BlockBounds
    <3>2. CASE g = h
      BY <2>2, <3>1, <3>2, Sizes_are_Nat DEF FooterBytes
    <3>3. CASE g # h
      BY <2>2, <2>3, <3>1, <3>3, Sizes_are_Nat DEF FooterBytes, HeaderBytes
    <3>4. QED BY <3>2, <3>3
  <2>7. QED BY <2>5, <2>6 DEF h
<1>2. QED BY <1>1, Inductive, PTL
=============================================================================
