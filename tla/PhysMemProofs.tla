--------------------------- MODULE PhysMemProofs ---------------------------
(***************************************************************************)
(* Invariants of PhysMem for every bitmap size and every memory map, and   *)
(* that its closed forms are what the loops of the code compute.           *)
(***************************************************************************)
EXTENDS PhysMemLoops, NatLemmas, FiniteSetTheorems, TLAPS

-----------------------------------------------------------------------------
(* Facts about the operators of PhysMem. *)

(* The number of pages of a request is a natural number.                   *)
LEMMA RoundUpType == \A a \in Nat : RoundUp(a) \in Nat
<1>1. ASSUME NEW a \in Nat PROVE RoundUp(a) \in Nat
  <2>1. a + PageSize - 1 \in Nat /\ PageSize \in Nat \ {0}
    BY <1>1, ConstantsAssumption
  <2>2. (a + PageSize - 1) \div PageSize \in Nat
    BY <2>1, DivMod
  <2>3. QED BY <2>2 DEF RoundUp
<1>2. QED BY <1>1

(* No more pages are below the end of available memory than pmm has bits,  *)
(* and mm_end words of pmm do not go past that end (physmem.c:74).         *)
LEMMA EndOfMemory ==
    ASSUME NEW m
    PROVE  /\ HighestAvail(m) \in Nat
           /\ HighestAvail(m) \div WordBits \in 0 .. PmmSize
           /\ (HighestAvail(m) \div WordBits) * WordBits <= HighestAvail(m)
<1> DEFINE below == {p \in Pages : \E i \in DOMAIN m :
                        m[i].avail /\ p < RoundUp(m[i].addr + m[i].len)}
           size == PmmSize * WordBits
<1>0. WordBits \in Nat \ {0} /\ PmmSize \in Nat \ {0}
  BY ConstantsAssumption
<1>1. size \in Nat \ {0} /\ Pages = 0 .. size - 1
  BY <1>0 DEF Pages
<1>2. HighestAvail(m) \in 0 .. size
  <2>0. HighestAvail(m) = Cardinality(below)
    BY DEF HighestAvail
  <2>1. below \in SUBSET (0 .. size - 1)
    BY <1>1
  <2>2. 0 \in Nat /\ size - 1 \in Nat /\ 0 <= size - 1
    BY <1>1
  <2> HIDE DEF size, below
  <2>3. Cardinality(below) \in 0 .. (size - 1) - 0 + 1
    BY <2>1, <2>2, BoundedRun
  <2>4. QED BY <1>1, <2>0, <2>3
<1> HIDE DEF below
<1>3. /\ HighestAvail(m) \div WordBits \in Nat
      /\ (HighestAvail(m) \div WordBits) * WordBits <= HighestAvail(m)
  <2> DEFINE h == HighestAvail(m)
  <2>1. h \in Nat
    BY <1>1, <1>2
  <2> HIDE DEF h
  <2>2. h \div WordBits \in Nat /\ (h \div WordBits) * WordBits <= h
    BY <1>0, <2>1, DivMod
  <2>3. QED BY <2>2 DEF h
<1>4. HighestAvail(m) \div WordBits <= PmmSize
  <2> DEFINE k == HighestAvail(m) \div WordBits
  <2>1. SUFFICES ASSUME k >= PmmSize + 1 PROVE FALSE
    BY <1>0, <1>3
  <2>2. (PmmSize + 1) * WordBits <= k * WordBits
    <3>1. k \in Nat /\ PmmSize + 1 \in Nat /\ PmmSize + 1 <= k
      BY <1>0, <1>3, <2>1
    <3> HIDE DEF k
    <3>2. QED BY <1>0, <3>1, WordsMonotone
  <2>3. (PmmSize + 1) * WordBits = size + WordBits
    BY <1>0
  <2>4. QED BY <1>0, <1>2, <1>3, <2>2, <2>3
<1>5. QED BY <1>2, <1>3, <1>4

(* set_phys on a low page marks that page: its bit is below the sign bit   *)
(* of an int, or it is the sign bit (physmem.c:34, 91).                    *)
LEMMA LowPageMask ==
    ASSUME NEW p \in 0 .. LowPages - 1
    PROVE  p \in Pages /\ p \in MaskPages(p)
<1>1. /\ p \in Nat /\ IntBits \in Nat \ {0} /\ WordBits \in Nat \ {0}
      /\ p < IntBits /\ p < WordBits /\ PmmSize \in Nat \ {0}
      /\ WordBits = 2 * IntBits
  BY ConstantsAssumption
<1>2. p % WordBits = p /\ p % IntBits = p
  BY <1>1, DivMod
<1>3. p \in MaskPages(p)
  BY <1>1, <1>2 DEF MaskPages
<1>4. 1 * WordBits <= PmmSize * WordBits /\ PmmSize * WordBits \in Nat
  BY <1>1, WordsMonotone
<1>5. QED BY <1>1, <1>3, <1>4 DEF Pages

-----------------------------------------------------------------------------
(* What phys_malloc returns. *)

(* The run that phys_malloc finds starts at a free page and ends before    *)
(* the words that are not searched; each of its pages is free or lies in a *)
(* full word that the search skipped.                                      *)
LEMMA GrantedRun ==
    ASSUME TypeOK, NEW n \in Nat, Starts(n) # {},
           NEW s, s = FirstStart(n)
    PROVE  /\ s \in Nat /\ s \notin pmm /\ n >= 1
           /\ s + n - 1 < mm_end * WordBits
           /\ \A p \in s .. s + n - 1 : p \in Pages
           /\ \A p \in s .. s + n - 1 : p \notin pmm \/ InFullWord(pmm, p)
<1> DEFINE top == mm_end * WordBits
<1>0. WordBits \in Nat \ {0} /\ PmmSize \in Nat \ {0} /\ mm_end \in 0 .. PmmSize
  BY ConstantsAssumption DEF TypeOK
<1>1. top \in Nat /\ top <= PmmSize * WordBits /\ PmmSize * WordBits \in Nat
  BY <1>0, WordsMonotone
<1>2. /\ Scanned = {p \in 0 .. top - 1 : ~ InFullWord(pmm, p)}
      /\ Pages = 0 .. PmmSize * WordBits - 1
  BY DEF Scanned, Pages
<1> HIDE DEF top
<1>3. Starts(n) \in SUBSET Nat
  BY <1>1, <1>2 DEF Starts
<1>4. s \in Starts(n)
  <2>1. \E t \in Starts(n) : \A u \in Starts(n) : t <= u
    BY <1>3, LeastElement
  <2>2. QED BY <2>1 DEF FirstStart
<1>5. PICK e \in Scanned : s \in Scanned /\ s <= e /\ IsRun(s, e, n)
  BY <1>4 DEF Starts
<1>6. s \in Nat /\ e \in Nat /\ e < top
  BY <1>1, <1>2, <1>5
<1> DEFINE run == Scanned \cap (s .. e)
<1>7. run \cap pmm = {} /\ Cardinality(run) = n
  BY <1>5 DEF IsRun
<1>8. s \in run
  BY <1>5, <1>6
<1>9. n \in 0 .. e - s + 1
  <2>1. run \in SUBSET (s .. e)
    OBVIOUS
  <2> HIDE DEF run
  <2>2. QED BY <1>5, <1>6, <1>7, <2>1, BoundedRun
<1>10. n >= 1
  <2>0. IsFiniteSet(s .. e) /\ run \subseteq s .. e
    BY <1>6, FS_Interval
  <2>1. IsFiniteSet(run)
    BY <2>0, FS_Subset
  <2>2. n # 0
    BY <1>7, <1>8, <2>1, FS_EmptySet
  <2>3. QED BY <2>2
<1>11. ASSUME NEW p \in s .. s + n - 1
       PROVE  p \in Pages /\ (p \notin pmm \/ InFullWord(pmm, p))
  <2>1. p \in s .. e /\ p \in 0 .. top - 1
    BY <1>1, <1>6, <1>9, <1>11
  <2>2. CASE p \in Scanned
    BY <1>1, <1>2, <1>7, <2>1, <2>2
  <2>3. CASE p \notin Scanned
    BY <1>1, <1>2, <2>1, <2>3
  <2>4. QED BY <2>2, <2>3
<1>12. s + n - 1 < top
  BY <1>1, <1>6, <1>9
<1>13. QED BY <1>6, <1>7, <1>8, <1>10, <1>11, <1>12 DEF top

(* PhysMem's inductive invariant.  mm_end is tied to the memory map so     *)
(* that the end of the search bounds the pages handed out.                 *)
SearchEndsInRam ==
    /\ status # "reset" => mm_end * WordBits <= HighestAvail(mmaps)
    /\ status = "reset" => held = [c \in Clients |-> NoBlock]
    /\ \A c \in Clients : \A p \in HeldPages(c) : p < mm_end * WordBits

IInv == TypeOK /\ HeldMarked /\ LowMemoryKept /\ SearchEndsInRam

(* Before physmem_init the bitmap is empty and nothing is held             *)
(* (physmem.c:7-18).                                                       *)
LEMMA InitIInv == Init => IInv
<1> SUFFICES ASSUME Init PROVE IInv
  OBVIOUS
<1>1. TypeOK
  BY ConstantsAssumption DEF Init, TypeOK
<1>2. \A c \in Clients : HeldPages(c) = {}
  BY DEF Init, HeldPages
<1>3. QED BY <1>1, <1>2 DEF Init, IInv, HeldMarked, LowMemoryKept, Running, SearchEndsInRam

(* physmem_init marks the low pages, whatever the memory map says, and     *)
(* mm_end does not go past available memory (physmem.c:74, 90-91).         *)
LEMMA BootStep ==
    ASSUME IInv, NEW m \in MemMaps, physmem_init(m)
    PROVE  IInv'
<1>1. TypeOK'
  <2>1. mm_end' \in 0 .. PmmSize
    BY EndOfMemory DEF physmem_init
  <2>2. pmm' \subseteq Pages
    BY DEF physmem_init, BootBits
  <2>3. QED BY <2>1, <2>2 DEF IInv, TypeOK, physmem_init
<1>2. \A c \in Clients : HeldPages(c)' = {}
  BY DEF IInv, SearchEndsInRam, physmem_init, HeldPages
<1>3. (0 .. LowPages - 1) \subseteq pmm'
  BY LowPageMask DEF physmem_init, BootBits
<1>4. mm_end' * WordBits <= HighestAvail(mmaps')
  BY EndOfMemory DEF physmem_init
<1>5. status' # "reset"
  BY DEF physmem_init
<1>6. QED BY <1>1, <1>2, <1>3, <1>4, <1>5 DEF IInv, HeldMarked, LowMemoryKept, SearchEndsInRam

(* phys_malloc keeps the invariant, a run joined over a full word          *)
(* included.                                                               *)
LEMMA MallocStep ==
    ASSUME IInv, NEW c \in Clients, NEW size \in Sizes, phys_malloc(c, size)
    PROVE  IInv'
<1> DEFINE n == PagesFor(size)
           s == FirstStart(n)
<1>1. n \in Nat
  BY ConstantsAssumption, RoundUpType DEF PagesFor
<1>2. /\ Running /\ held[c] = NoBlock /\ Starts(n) # {}
      /\ pmm' = pmm \cup (s .. s + n - 1)
      /\ held' = [held EXCEPT ![c] =
                     IF s = 0 THEN NoBlock ELSE [page |-> s, n |-> n]]
      /\ mm_end' = mm_end /\ mmaps' = mmaps /\ status' = status
  BY DEF phys_malloc
<1>3. /\ s \in Nat /\ s \notin pmm /\ n >= 1
      /\ s + n - 1 < mm_end * WordBits
      /\ \A p \in s .. s + n - 1 : p \in Pages
  <2> HIDE DEF n
  <2>1. TypeOK
    BY DEF IInv
  <2>2. QED BY <1>1, <1>2, <2>1, GrantedRun
<1> HIDE DEF n, s
<1>4. s >= LowPages
  BY <1>2, <1>3, ConstantsAssumption DEF IInv, LowMemoryKept
<1>5. s # 0
  BY <1>4, ConstantsAssumption
<1>6. [page |-> s, n |-> n] \in Blocks /\ [page |-> s, n |-> n] # NoBlock
  <2>1. s \in s .. s + n - 1
    BY <1>1, <1>3
  <2>2. QED BY <1>1, <1>3, <2>1, ConstantsAssumption DEF Blocks, Pages
<1>7. held' = [held EXCEPT ![c] = [page |-> s, n |-> n]]
  BY <1>2, <1>5
<1>8. /\ HeldPages(c)' = s .. s + n - 1
      /\ \A d \in Clients \ {c} : HeldPages(d)' = HeldPages(d)
  BY <1>6, <1>7 DEF IInv, TypeOK, HeldPages, PageRun
<1>9. TypeOK'
  BY <1>2, <1>3, <1>6, <1>7 DEF IInv, TypeOK
<1>10. HeldMarked'
  BY <1>2, <1>8 DEF IInv, HeldMarked
<1>11. LowMemoryKept'
  <2>1. (s .. s + n - 1) \cap (0 .. LowPages - 1) = {}
    BY <1>1, <1>3, <1>4, ConstantsAssumption
  <2>2. QED BY <1>2, <1>8, <2>1 DEF IInv, LowMemoryKept, Running
<1>12. SearchEndsInRam'
  <2>1. \A p \in s .. s + n - 1 : p < mm_end * WordBits
    <3>1. mm_end * WordBits \in Nat
      BY ConstantsAssumption, WordsMonotone DEF IInv, TypeOK
    <3>2. QED BY <1>1, <1>3, <3>1
  <2>2. QED BY <1>2, <1>8, <2>1 DEF IInv, SearchEndsInRam, Running
<1>13. QED BY <1>9, <1>10, <1>11, <1>12 DEF IInv

(* physmem_init and phys_malloc are the only operations the kernel calls,  *)
(* and both keep the invariant (physmem.c:51-141).                         *)
LEMMA NextIInv == IInv /\ [Next]_vars => IInv'
<1> SUFFICES ASSUME IInv, [Next]_vars PROVE IInv'
  OBVIOUS
<1>1. CASE UNCHANGED vars
  BY <1>1 DEF vars, IInv, TypeOK, HeldMarked, LowMemoryKept, SearchEndsInRam,
              HeldPages, Running
<1>2. ASSUME NEW m \in MemMaps, physmem_init(m) PROVE IInv'
  BY <1>2, BootStep
<1>3. ASSUME NEW c \in Clients, NEW size \in Sizes, phys_malloc(c, size)
      PROVE  IInv'
  BY <1>3, MallocStep
<1>4. ASSUME NEW c \in Clients, NEW size \in Sizes, phys_malloc_failed(c, size)
      PROVE  IInv'
  BY <1>1, <1>4 DEF phys_malloc_failed
<1>5. QED BY <1>1, <1>2, <1>3, <1>4 DEF Next

(* The inductive invariant holds of every behaviour of the allocator.      *)
THEOREM Inductive == Spec => []IInv
  BY InitIInv, NextIInv, PTL DEF Spec

-----------------------------------------------------------------------------
(* Type correctness: phys_malloc never marks past the end of pmm.          *)
THEOREM TypeCorrect == Spec => []TypeOK
<1>1. IInv => TypeOK
  BY DEF IInv
<1>2. QED BY <1>1, Inductive, PTL

(* Every page of a block that was handed out stays marked.                 *)
THEOREM AllocatedStaysMarked == Spec => []HeldMarked
<1>1. IInv => HeldMarked
  BY DEF IInv
<1>2. QED BY <1>1, Inductive, PTL

(* The pages of the kernel image are never free and never handed out.      *)
THEOREM LowMemoryIsKept == Spec => []LowMemoryKept
<1>1. IInv => LowMemoryKept
  BY DEF IInv
<1>2. QED BY <1>1, Inductive, PTL

(* No block reaches past the end of available memory.                      *)
THEOREM BlocksInRam == Spec => []HeldInRam
<1>1. IInv => HeldInRam
  <2> SUFFICES ASSUME IInv, NEW c \in Clients, NEW p \in HeldPages(c)
               PROVE  p < HighestAvail(mmaps)
    BY DEF HeldInRam
  <2>1. held[c] # NoBlock
    BY DEF HeldPages
  <2>2. status # "reset"
    BY <2>1 DEF IInv, SearchEndsInRam
  <2>3. p < mm_end * WordBits /\ mm_end * WordBits <= HighestAvail(mmaps)
    BY <2>2 DEF IInv, SearchEndsInRam
  <2>4. /\ p \in Nat /\ HighestAvail(mmaps) \in Nat
        /\ mm_end * WordBits \in Nat
    <3>1. held[c] \in Blocks
      BY <2>1 DEF IInv, TypeOK
    <3>2. p \in held[c].page .. held[c].page + held[c].n - 1
      BY <2>1 DEF HeldPages, PageRun
    <3>3. held[c].page \in Nat /\ held[c].n \in Nat
      BY <3>1, ConstantsAssumption DEF Blocks, Pages
    <3>4. mm_end * WordBits \in Nat
      BY ConstantsAssumption, WordsMonotone DEF IInv, TypeOK
    <3>5. QED BY <3>2, <3>3, <3>4, EndOfMemory
  <2>5. QED BY <2>3, <2>4
<1>2. QED BY <1>1, Inductive, PTL

(* A page is handed out only if it is free, or in a word that was skipped  *)
(* as full.                                                                *)
THEOREM GrantsAreFreeOrSkipped == Spec => GrantsFreeOrSkipped
<1> DEFINE Fresh == \A c \in Clients : held[c] = NoBlock =>
                \A p \in HeldPages(c)' : p \notin pmm \/ InFullWord(pmm, p)
<1>1. IInv /\ [Next]_vars => [Fresh]_vars
  <2> SUFFICES ASSUME IInv, Next PROVE Fresh
    OBVIOUS
  <2>1. ASSUME held' = held PROVE Fresh
    BY <2>1 DEF HeldPages
  <2>2. ASSUME NEW m \in MemMaps, physmem_init(m) PROVE Fresh
    BY <2>1, <2>2 DEF physmem_init
  <2>3. ASSUME NEW c \in Clients, NEW size \in Sizes,
               phys_malloc_failed(c, size)
        PROVE  Fresh
    BY <2>1, <2>3 DEF phys_malloc_failed, vars
  <2>4. ASSUME NEW c \in Clients, NEW size \in Sizes, phys_malloc(c, size)
        PROVE  Fresh
    <3> DEFINE n == PagesFor(size)
               s == FirstStart(n)
    <3>1. n \in Nat
      BY ConstantsAssumption, RoundUpType DEF PagesFor
    <3>2. /\ held[c] = NoBlock /\ Starts(n) # {}
          /\ held' = [held EXCEPT ![c] =
                         IF s = 0 THEN NoBlock ELSE [page |-> s, n |-> n]]
      BY <2>4 DEF phys_malloc
    <3>3. \A p \in s .. s + n - 1 : p \notin pmm \/ InFullWord(pmm, p)
      <4> HIDE DEF n
      <4>1. TypeOK
        BY DEF IInv
      <4>2. QED BY <3>1, <3>2, <4>1, GrantedRun
    <3> HIDE DEF n, s
    <3>4. HeldPages(c)' \subseteq s .. s + n - 1
      BY <3>2 DEF HeldPages, PageRun, IInv, TypeOK
    <3>5. \A d \in Clients \ {c} : HeldPages(d)' = HeldPages(d)
      BY <3>2 DEF HeldPages, IInv, TypeOK
    <3>6. \A d \in Clients : held[d] = NoBlock => HeldPages(d) = {}
      BY DEF HeldPages
    <3>7. QED BY <3>3, <3>4, <3>5, <3>6
  <2>5. QED BY <2>2, <2>3, <2>4 DEF Next
<1>2. QED BY <1>1, Inductive, PTL DEF Spec, GrantsFreeOrSkipped

-----------------------------------------------------------------------------
(* Requests of one page, as alloc_pt_block makes them (virtmem.c:34), are  *)
(* not hit by the skipped words: a run of one page is a free page.         *)

SinglePage == \A size \in Sizes : PagesFor(size) <= 1

(* A request of one page is given one page, which was free. *)
LEMMA SingleGrant ==
    ASSUME SinglePage, IInv,
           NEW c \in Clients, NEW size \in Sizes, phys_malloc(c, size)
    PROVE  \E s \in Pages :
              /\ PagesFor(size) = 1 /\ held[c] = NoBlock
              /\ held' = [held EXCEPT ![c] = [page |-> s, n |-> 1]]
              /\ [page |-> s, n |-> 1] # NoBlock
              /\ s \notin pmm
              /\ \A d \in Clients : s \notin HeldPages(d)
<1> DEFINE n == PagesFor(size)
           s == FirstStart(n)
<1>1. n \in Nat /\ n <= 1
  BY ConstantsAssumption, RoundUpType DEF PagesFor, SinglePage
<1>2. /\ held[c] = NoBlock /\ Starts(n) # {} /\ Running
      /\ held' = [held EXCEPT ![c] =
                     IF s = 0 THEN NoBlock ELSE [page |-> s, n |-> n]]
  BY DEF phys_malloc
<1>3. /\ s \in Nat /\ s \notin pmm /\ n >= 1
      /\ \A p \in s .. s + n - 1 : p \in Pages
  <2> HIDE DEF n
  <2>1. TypeOK
    BY DEF IInv
  <2>2. QED BY <1>1, <1>2, <2>1, GrantedRun
<1>4. n = 1 /\ PagesFor(size) = 1
  BY <1>1, <1>3
<1> HIDE DEF n, s
<1>5. s \in Pages
  BY <1>3, <1>4
<1>6. s # 0
  BY <1>2, <1>3, ConstantsAssumption DEF IInv, LowMemoryKept
<1>7. [page |-> s, n |-> 1] # NoBlock
  BY <1>3, ConstantsAssumption
<1>8. \A d \in Clients : s \notin HeldPages(d)
  BY <1>3 DEF IInv, HeldMarked
<1>9. QED BY <1>2, <1>3, <1>4, <1>5, <1>6, <1>7, <1>8

(* Two clients never hold the same page.                                   *)
THEOREM SinglePagesAreExclusive ==
    ASSUME SinglePage
    PROVE  Spec => []Exclusive
<1>1. Init => Exclusive
  BY DEF Init, Exclusive, HeldPages
<1>2. IInv /\ Exclusive /\ [Next]_vars => Exclusive'
  <2> SUFFICES ASSUME IInv, Exclusive, [Next]_vars PROVE Exclusive'
    OBVIOUS
  <2>1. ASSUME held' = held PROVE Exclusive'
    BY <2>1 DEF Exclusive, HeldPages
  <2>2. ASSUME NEW c \in Clients, NEW size \in Sizes, phys_malloc(c, size)
        PROVE  Exclusive'
    <3>1. PICK s \in Pages :
              /\ held' = [held EXCEPT ![c] = [page |-> s, n |-> 1]]
              /\ [page |-> s, n |-> 1] # NoBlock
              /\ \A d \in Clients : s \notin HeldPages(d)
      BY <2>2, SinglePage, SingleGrant
    <3>2. s \in Nat
      BY <3>1, ConstantsAssumption DEF Pages
    <3>3. HeldPages(c)' = {s}
      BY <3>1, <3>2 DEF IInv, TypeOK, HeldPages, PageRun
    <3>4. \A d \in Clients \ {c} : HeldPages(d)' = HeldPages(d)
      BY <3>1 DEF IInv, TypeOK, HeldPages
    <3>5. QED BY <3>1, <3>3, <3>4 DEF Exclusive
  <2>3. QED BY <2>1, <2>2 DEF Next, physmem_init, phys_malloc_failed, vars
<1>3. QED BY <1>1, <1>2, Inductive, PTL DEF Spec

(* The bitmap allocator implements the abstract one.                       *)
THEOREM ImplementsAllocator ==
    ASSUME SinglePage
    PROVE  Spec => IsAllocator
<1>1. Init => Allocator!Init
  BY DEF Init, Allocator!Init
<1>2. IInv /\ [Next]_vars => [Allocator!Next]_held
  <2> SUFFICES ASSUME IInv, Next, held' # held PROVE Allocator!Next
    BY DEF vars
  <2>1. PICK c \in Clients, size \in Sizes : phys_malloc(c, size)
    BY DEF Next, physmem_init, phys_malloc_failed, vars
  <2>2. PICK s \in Pages :
            /\ PagesFor(size) = 1 /\ held[c] = NoBlock
            /\ held' = [held EXCEPT ![c] = [page |-> s, n |-> 1]]
            /\ \A d \in Clients : s \notin HeldPages(d)
    BY <2>1, SinglePage, SingleGrant
  <2> DEFINE blk == [page |-> s, n |-> 1]
  <2>3. blk \in [page : Pages, n : {PagesFor(z) : z \in Sizes} \ {0}]
    BY <2>1, <2>2
  <2>4. Allocator!PageRun(blk) \subseteq Pages \ Allocator!Owned
    <3>1. s \in Nat
      BY <2>2, ConstantsAssumption DEF Pages
    <3>2. Allocator!PageRun(blk) = {s}
      BY <3>1 DEF Allocator!PageRun
    <3>3. s \notin Allocator!Owned
      BY <2>2 DEF Allocator!Owned, Allocator!PageRun, HeldPages, PageRun
    <3>4. QED BY <3>2, <3>3
  <2>5. Allocator!Alloc(c)
    BY <2>2, <2>3, <2>4 DEF Allocator!Alloc
  <2>6. QED BY <2>5 DEF Allocator!Next
<1>3. QED BY <1>1, <1>2, Inductive, PTL DEF Spec, IsAllocator, Allocator!Spec

-----------------------------------------------------------------------------
(* What holds with phys_free as well.                                      *)

(* set_phys changes bits of the word of its page only, those that the sign *)
(* of the mask reaches included (physmem.c:34).                            *)
LEMMA MaskInWord ==
    ASSUME NEW p \in Nat, NEW q \in MaskPages(p)
    PROVE  q \in Nat /\ p \in WordPages(q)
<1>1. WordBits \in Nat \ {0} /\ IntBits \in Nat \ {0} /\ WordBits = 2 * IntBits
  BY ConstantsAssumption
<1>2. PICK d \in Nat, bit \in 0 .. WordBits - 1 :
            p % WordBits = bit /\ p = d * WordBits + bit
  <2>1. PICK w \in Nat \ {0} : w = WordBits
    BY <1>1
  <2>2. p \div w \in Nat /\ p % w \in 0 .. w - 1 /\ p = (p \div w) * w + (p % w)
    BY DivMod
  <2>3. QED BY <2>1, <2>2
<1>3. PICK base \in Nat : base = d * WordBits /\ base = p - (p % WordBits)
  BY <1>1, <1>2, WordsMonotone
<1>4. bit % IntBits \in 0 .. IntBits - 1
  BY <1>1, DivMod
<1>5. q \in base .. base + WordBits - 1
  BY <1>1, <1>2, <1>3, <1>4 DEF MaskPages
<1>6. q % WordBits = q - base
  <2>1. q - base \in 0 .. WordBits - 1 /\ d * WordBits + (q - base) = q
    BY <1>1, <1>3, <1>5
  <2>2. (d * WordBits + (q - base)) % WordBits = q - base
    BY <1>1, <2>1, DivModUnique
  <2>3. QED BY <2>1, <2>2
<1>7. WordPages(q) = base .. base + WordBits - 1
  <2>1. q - (q - base) = base
    BY <1>3, <1>5
  <2>2. QED BY <1>6, <2>1 DEF WordPages
<1>8. QED BY <1>1, <1>2, <1>3, <1>5, <1>7

(* The types do not depend on who frees what.                              *)
LEMMA TypeWithFree == TypeOK /\ [NextWithFree]_vars => TypeOK'
<1> SUFFICES ASSUME TypeOK, [NextWithFree]_vars PROVE TypeOK'
  OBVIOUS
<1>1. CASE UNCHANGED vars
  BY <1>1 DEF vars, TypeOK
<1>2. ASSUME NEW m \in MemMaps, physmem_init(m) PROVE TypeOK'
  <2>1. mm_end' \in 0 .. PmmSize /\ pmm' \subseteq Pages
    BY <1>2, EndOfMemory DEF physmem_init, BootBits
  <2>2. QED BY <1>2, <2>1 DEF TypeOK, physmem_init
<1>3. ASSUME NEW c \in Clients, NEW size \in Sizes, phys_malloc(c, size)
      PROVE  TypeOK'
  <2> DEFINE n == PagesFor(size)
             s == FirstStart(n)
  <2>1. n \in Nat
    BY ConstantsAssumption, RoundUpType DEF PagesFor
  <2>2. /\ Starts(n) # {} /\ pmm' = pmm \cup (s .. s + n - 1)
        /\ held' = [held EXCEPT ![c] =
                       IF s = 0 THEN NoBlock ELSE [page |-> s, n |-> n]]
        /\ mm_end' = mm_end /\ mmaps' = mmaps /\ status' = status
    BY <1>3 DEF phys_malloc
  <2>3. s \in Nat /\ n >= 1 /\ \A p \in s .. s + n - 1 : p \in Pages
    <3> HIDE DEF n
    <3>1. QED BY <2>1, <2>2, GrantedRun
  <2> HIDE DEF n, s
  <2>4. [page |-> s, n |-> n] \in Blocks
    <3>1. s \in s .. s + n - 1
      BY <2>1, <2>3
    <3>2. QED BY <2>1, <2>3, <3>1 DEF Blocks
  <2>5. QED BY <2>2, <2>3, <2>4 DEF TypeOK
<1>4. ASSUME NEW c \in Clients, phys_free(c) PROVE TypeOK'
  BY <1>4 DEF TypeOK, phys_free
<1>5. QED BY <1>1, <1>2, <1>3, <1>4 DEF NextWithFree, Next, phys_malloc_failed

(* phys_malloc fails only when no run of enough free pages exists below    *)
(* the end of the search, whatever was allocated and freed before: words   *)
(* that are full are the only ones it skips (physmem.c:111-138).           *)
THEOREM FreeRunsAreFound == SpecWithFree => []MallocComplete
<1>1. TypeOK => MallocComplete
  <2> SUFFICES ASSUME TypeOK,
                      NEW n \in {PagesFor(size) : size \in Sizes} \ {0},
                      NEW s \in 0 .. mm_end * WordBits,
                      s + n <= mm_end * WordBits,
                      (s .. s + n - 1) \cap pmm = {}
               PROVE  Starts(n) # {}
    BY DEF MallocComplete
  <2>1. n \in Nat \ {0}
    BY ConstantsAssumption, RoundUpType DEF PagesFor
  <2>2. PICK top \in Nat : top = mm_end * WordBits
    BY ConstantsAssumption, WordsMonotone DEF TypeOK
  <2>3. s \in Nat /\ s + n <= top
    BY <2>2
  <2> DEFINE run == s .. s + n - 1
  <2>4. ASSUME NEW p \in run PROVE p \in Scanned
    <3>1. p \in Nat /\ p \in 0 .. top - 1 /\ p \notin pmm
      BY <2>1, <2>2, <2>3
    <3>2. p \in WordPages(p)
      <4>1. /\ WordBits \in Nat \ {0} /\ p % WordBits \in 0 .. WordBits - 1
            /\ p - (p % WordBits) \in Int
        BY <3>1, ConstantsAssumption, DivMod
      <4>2. QED BY <3>1, <4>1 DEF WordPages
    <3>3. QED BY <2>2, <3>1, <3>2 DEF Scanned, InFullWord
  <2>5. Scanned \cap run = run
    BY <2>4
  <2>6. Cardinality(run) = n
    <3>1. s + n - 1 \in Int /\ s <= s + n - 1
      BY <2>1, <2>3
    <3>2. Cardinality(run) = (s + n - 1) - s + 1
      BY <2>3, <3>1, FS_Interval
    <3>3. QED BY <2>1, <2>3, <3>2
  <2>7. IsRun(s, s + n - 1, n)
    BY <2>5, <2>6 DEF IsRun
  <2>8. s \in run /\ s + n - 1 \in run /\ s <= s + n - 1
    BY <2>1, <2>3
  <2>9. s \in Starts(n)
    BY <2>4, <2>7, <2>8 DEF Starts
  <2>10. QED BY <2>9
<1>2. Init => TypeOK
  BY InitIInv DEF IInv
<1>3. QED BY <1>1, <1>2, TypeWithFree, PTL DEF SpecWithFree

(* phys_free clears bits in the words of the block it gives back and in no *)
(* other, although it clears half a word by the sign of a mask             *)
(* (physmem.c:34, 143-150).                                                *)
THEOREM FreeStaysInItsWords == SpecWithFree => FreeConfined
<1> DEFINE Confined == \A c \in Clients : held[c] # NoBlock /\ held'[c] = NoBlock =>
                \A p \in pmm \ pmm' : WordPages(p) \cap HeldPages(c) # {}
<1>1. TypeOK /\ [NextWithFree]_vars => [Confined]_vars
  <2> SUFFICES ASSUME TypeOK, NextWithFree,
                      NEW c \in Clients, held[c] # NoBlock, held'[c] = NoBlock,
                      NEW q \in pmm \ pmm'
               PROVE  WordPages(q) \cap HeldPages(c) # {}
    OBVIOUS
  <2>1. ASSUME NEW d \in Clients, phys_free(d)
        PROVE  WordPages(q) \cap HeldPages(c) # {}
    <3>1. d = c
      BY <2>1 DEF TypeOK, phys_free
    <3>2. PICK p \in PageRun(held[c]) : q \in MaskPages(p)
      BY <2>1, <3>1 DEF phys_free
    <3>3. p \in Nat
      BY ConstantsAssumption DEF TypeOK, Blocks, Pages, PageRun
    <3>4. p \in HeldPages(c)
      BY DEF HeldPages
    <3>5. QED BY <3>2, <3>3, <3>4, MaskInWord
  <2>2. ASSUME NEW d \in Clients, NEW size \in Sizes, phys_malloc(d, size)
        PROVE  FALSE
    BY <2>2 DEF TypeOK, phys_malloc
  <2>3. ASSUME held' = held PROVE FALSE
    BY <2>3
  <2>4. QED
    BY <2>1, <2>2, <2>3
    DEF NextWithFree, Next, physmem_init, phys_malloc_failed, vars
<1>2. Init => TypeOK
  BY InitIInv DEF IInv
<1>3. QED BY <1>1, <1>2, TypeWithFree, PTL DEF SpecWithFree, FreeConfined

-----------------------------------------------------------------------------
(* What physmem_init leaves.                                               *)

(* A page is reached by a region from the first byte of the page on.       *)
LEMMA RoundUpIs ==
    ASSUME NEW a \in Nat, NEW p \in Nat
    PROVE  RoundUp(a) <= p <=> a <= p * PageSize
<1>1. PICK ps \in Nat \ {0} : ps = PageSize
  BY ConstantsAssumption
<1>2. PICK r \in Nat, m \in 0 .. ps - 1 :
            r = RoundUp(a) /\ a + ps - 1 = r * ps + m
  <2>1. PICK b \in Nat : b = a + ps - 1
    BY <1>1
  <2>2. b \div ps \in Nat /\ b % ps \in 0 .. ps - 1
        /\ b = (b \div ps) * ps + (b % ps)
    BY DivMod
  <2>3. RoundUp(a) = b \div ps
    BY <1>1, <2>1 DEF RoundUp
  <2>4. QED BY <2>1, <2>2, <2>3
<1>3. r * ps \in Nat /\ p * ps \in Nat
  BY WordsMonotone
<1>4. ASSUME r <= p PROVE a <= p * ps
  <2>1. r * ps <= p * ps
    BY <1>4, WordsMonotone
  <2>2. QED BY <1>2, <1>3, <2>1
<1>5. ASSUME a <= p * ps PROVE r <= p
  <2>1. SUFFICES ASSUME p + 1 <= r PROVE FALSE
    OBVIOUS
  <2>2. (p + 1) * ps <= r * ps
    BY <2>1, WordsMonotone
  <2>3. (p + 1) * ps = p * ps + ps
    OBVIOUS
  <2>4. QED BY <1>2, <1>3, <1>5, <2>2, <2>3
<1>6. QED BY <1>1, <1>2, <1>4, <1>5

(* The pages of a region are those whose first byte is in it. *)
LEMMA RegionIs ==
    ASSUME NEW r \in [addr : Nat, len : Nat, avail : BOOLEAN], NEW p \in Nat
    PROVE  p \in RegionPages(r) <=>
                r.addr <= p * PageSize /\ p * PageSize < r.addr + r.len
<1>1. /\ r.addr \in Nat /\ r.addr + r.len \in Nat
      /\ RoundUp(r.addr) \in Nat /\ RoundUp(r.addr + r.len) \in Nat
  BY RoundUpType
<1>2. p * PageSize \in Nat
  BY ConstantsAssumption, WordsMonotone
<1>3. /\ RoundUp(r.addr) <= p <=> r.addr <= p * PageSize
      /\ RoundUp(r.addr + r.len) <= p <=> r.addr + r.len <= p * PageSize
  BY <1>1, RoundUpIs
<1>4. p \in RegionPages(r) <=>
        RoundUp(r.addr) <= p /\ ~ (RoundUp(r.addr + r.len) <= p)
  BY <1>1 DEF RegionPages
<1>5. QED BY <1>1, <1>2, <1>3, <1>4

(* The word of a page.                                                     *)
LEMMA WordOf ==
    ASSUME NEW q \in Nat
    PROVE  \E d \in Nat, b \in Nat :
            /\ b = d * WordBits /\ q \in b .. b + WordBits - 1
            /\ q % WordBits = q - b /\ d = q \div WordBits
            /\ WordPages(q) = b .. b + WordBits - 1
<1>1. PICK w \in Nat \ {0} : w = WordBits
  BY ConstantsAssumption
<1>2. q \div w \in Nat /\ q % w \in 0 .. w - 1 /\ q = (q \div w) * w + (q % w)
  BY DivMod
<1>3. PICK d \in Nat, b \in Nat, r \in 0 .. w - 1 :
            d = q \div w /\ b = d * w /\ r = q % w /\ q = b + r
  <2>1. (q \div w) * w \in Nat
    BY <1>2, WordsMonotone
  <2>2. QED BY <1>2, <2>1
<1>4. q - r = b /\ q - b = r /\ q \in b .. b + w - 1
  BY <1>3
<1>5. WordPages(q) = b .. b + w - 1
  BY <1>1, <1>3, <1>4 DEF WordPages
<1>6. b = d * WordBits /\ q % WordBits = q - b /\ d = q \div WordBits
  BY <1>1, <1>3, <1>4
<1>7. QED BY <1>1, <1>3, <1>4, <1>5, <1>6

(* The mask of a page in the lower half of a word is its bit, but for the  *)
(* sign bit; the mask of the last page is the sign and all above it.       *)
LEMMA MaskOf ==
    ASSUME NEW p \in Nat, NEW d \in Nat, NEW b \in Nat, b = d * WordBits,
           p \in b .. b + WordBits - 1
    PROVE  /\ p < b + IntBits - 1 => MaskPages(p) = {p}
           /\ p = b + IntBits - 1 => MaskPages(p) = p .. b + WordBits - 1
           /\ p = b + WordBits - 1 =>
                MaskPages(p) = b + IntBits - 1 .. b + WordBits - 1
<1>1. PICK i \in Nat \ {0}, w \in Nat \ {0} :
            i = IntBits /\ w = WordBits /\ w = 2 * i
  BY ConstantsAssumption
<1>2. PICK bit \in 0 .. w - 1 : bit = p - b /\ p = b + bit
  BY <1>1
<1>3. p % w = bit
  <2>1. (d * w + bit) % w = bit
    BY DivModUnique
  <2>2. QED BY <1>1, <1>2, <2>1
<1>4. PICK shift \in Nat : shift = bit % i
  BY <1>2, DivMod
<1>5. MaskPages(p) = b + shift .. IF shift = i - 1 THEN b + w - 1
                                                   ELSE b + shift
  <2>1. p - bit = b
    BY <1>2
  <2>2. QED BY <1>1, <1>3, <1>4, <2>1 DEF MaskPages
<1>6. bit < i => shift = bit
  BY <1>2, <1>4, DivMod
<1>7. bit = w - 1 => shift = i - 1
  <2>1. (1 * i + (i - 1)) % i = i - 1
    <3>1. i - 1 \in 0 .. i - 1
      OBVIOUS
    <3>2. QED BY <3>1, DivModUnique
  <2>2. 1 * i + (i - 1) = w - 1
    BY <1>1
  <2>3. QED BY <1>4, <2>1, <2>2
<1>8. ASSUME p < b + i - 1 PROVE MaskPages(p) = {p}
  <2>1. shift = bit /\ shift # i - 1
    BY <1>2, <1>6, <1>8
  <2>2. QED BY <1>2, <1>5, <2>1
<1>9. ASSUME p = b + i - 1 PROVE MaskPages(p) = p .. b + w - 1
  <2>1. shift = bit /\ shift = i - 1
    BY <1>2, <1>6, <1>9
  <2>2. QED BY <1>2, <1>5, <2>1
<1>10. ASSUME p = b + w - 1 PROVE MaskPages(p) = b + i - 1 .. b + w - 1
  <2>1. shift = i - 1
    BY <1>2, <1>7, <1>10
  <2>2. QED BY <1>2, <1>5, <2>1
<1>11. QED BY <1>1, <1>8, <1>9, <1>10

(* A region that consists of words and has a page of a word has the word.  *)
LEMMA WordInRegion ==
    ASSUME NEW r \in [addr : Nat, len : Nat, avail : BOOLEAN],
           {r.addr, r.len} \subseteq
                {w * WordBits * PageSize : w \in 0 .. PmmSize},
           NEW q \in Nat, NEW p \in WordPages(q), NEW o \in WordPages(q),
           p \in RegionPages(r)
    PROVE  /\ o \in RegionPages(r)
           /\ r.addr <= o * PageSize /\ (o + 1) * PageSize <= r.addr + r.len
<1>1. PICK w \in Nat \ {0}, ps \in Nat \ {0} : w = WordBits /\ ps = PageSize
  BY ConstantsAssumption
<1>2. PICK a \in Nat, l \in Nat : r.addr = (a * w) * ps /\ r.len = (l * w) * ps
  BY <1>1, ConstantsAssumption, SMTT(30)
<1>3. PICK d \in Nat, b \in Nat :
            b = d * w /\ WordPages(q) = b .. b + w - 1
  BY <1>1, WordOf
<1>4. PICK A \in Nat, E \in Nat :
            /\ A = a * w /\ E = (a + l) * w
            /\ r.addr = A * ps /\ r.addr + r.len = E * ps
  <2>1. a * w \in Nat /\ l * w \in Nat /\ (a + l) * w = a * w + l * w
    BY WordsMonotone
  <2>2. (a * w + l * w) * ps = (a * w) * ps + (l * w) * ps
    <3>1. \A x, y \in Nat : (x + y) * ps = x * ps + y * ps
      OBVIOUS
    <3>2. QED BY <2>1, <3>1
  <2>3. QED BY <1>2, <2>1, <2>2
<1>5. p \in Nat /\ o \in Nat /\ b <= p /\ p < b + w /\ b <= o /\ o + 1 <= b + w
  BY <1>3
<1>6. A * ps <= p * ps /\ p * ps < E * ps
  BY <1>1, <1>4, <1>5, RegionIs
<1>7. p * ps \in Nat /\ o * ps \in Nat /\ A * ps \in Nat /\ E * ps \in Nat
  BY <1>5, WordsMonotone
<1>8. A <= p
  <2>1. SUFFICES ASSUME p + 1 <= A PROVE FALSE
    BY <1>5
  <2>2. (p + 1) * ps <= A * ps /\ (p + 1) * ps = p * ps + ps
    BY <1>5, <2>1, WordsMonotone
  <2>3. QED BY <1>6, <1>7, <2>2
<1>9. p < E
  <2>1. SUFFICES ASSUME E <= p PROVE FALSE
    BY <1>5
  <2>2. E * ps <= p * ps
    BY <1>5, <2>1, WordsMonotone
  <2>3. QED BY <1>6, <1>7, <2>2
<1>10. A <= b
  <2>1. SUFFICES ASSUME d + 1 <= a PROVE FALSE
    <3>1. a <= d => a * w <= d * w
      BY WordsMonotone
    <3>2. QED BY <1>3, <1>4, <3>1
  <2>2. (d + 1) * w <= a * w /\ (d + 1) * w = d * w + w
    BY <2>1, WordsMonotone
  <2>3. QED BY <1>3, <1>4, <1>5, <1>8, <2>2
<1>11. b + w <= E
  <2>1. SUFFICES ASSUME a + l <= d PROVE FALSE
    <3>1. d + 1 <= a + l => (d + 1) * w <= (a + l) * w
      BY WordsMonotone
    <3>2. (d + 1) * w = d * w + w
      OBVIOUS
    <3>3. QED BY <1>3, <1>4, <3>1, <3>2
  <2>2. (a + l) * w <= d * w
    BY <2>1, WordsMonotone
  <2>3. QED BY <1>3, <1>4, <1>5, <1>9, <2>2
<1>12. A * ps <= o * ps /\ (o + 1) * ps <= E * ps
  BY <1>5, <1>10, <1>11, WordsMonotone
<1>13. o * ps < E * ps
  <2>1. (o + 1) * ps = o * ps + ps
    BY <1>5
  <2>2. QED BY <1>7, <1>12, <2>1
<1>14. QED BY <1>1, <1>4, <1>5, <1>12, <1>13, RegionIs

(* A memory map is a sequence of regions.                                  *)
LEMMA MapFacts ==
    ASSUME NEW m \in MemMaps
    PROVE  /\ Len(m) \in Nat /\ DOMAIN m = 1 .. Len(m)
           /\ \A r \in DOMAIN m :
                /\ m[r] \in [addr : Nat, len : Nat, avail : BOOLEAN]
                /\ m[r].addr \in Nat /\ m[r].len \in Nat
                /\ RoundUp(m[r].addr + m[r].len) <= PmmSize * WordBits
<1> DEFINE Region == [addr : Nat, len : Nat, avail : BOOLEAN]
<1>1. /\ m \in Seq(Region)
      /\ \A i \in DOMAIN m :
            RoundUp(m[i].addr + m[i].len) <= PmmSize * WordBits
  BY MemMapsAssumption
<1>2. \A r \in Region : r.addr \in Nat /\ r.len \in Nat
  OBVIOUS
<1> HIDE DEF Region
<1>3. Len(m) \in Nat /\ DOMAIN m = 1 .. Len(m) /\ \A r \in DOMAIN m : m[r] \in Region
  BY <1>1
<1>4. QED BY <1>1, <1>2, <1>3 DEF Region

(* A write that reaches a bit comes from a page of the bit's word; the     *)
(* word has a page whose mask has the bit (physmem.c:34).                  *)
LEMMA WriteReaches ==
    ASSUME NEW q \in Nat
    PROVE  \E p \in WordPages(q) : q \in MaskPages(p)
<1>1. PICK i \in Nat \ {0}, w \in Nat \ {0} :
            i = IntBits /\ w = WordBits /\ w = 2 * i
  BY ConstantsAssumption
<1>2. PICK d \in Nat, b \in Nat :
            /\ b = d * w /\ q \in b .. b + w - 1
            /\ WordPages(q) = b .. b + w - 1
  BY <1>1, WordOf
<1>3. CASE q < b + i
  <2>1. q \in WordPages(q) /\ q \in MaskPages(q)
    BY <1>1, <1>2, <1>3, MaskOf
  <2>2. QED BY <2>1
<1>4. CASE q >= b + i
  <2>1. PICK p \in b .. b + w - 1 : p = b + w - 1
    BY <1>1, <1>2
  <2>2. MaskPages(p) = b + i - 1 .. b + w - 1
    BY <1>1, <1>2, <2>1, MaskOf
  <2>3. QED BY <1>1, <1>2, <1>4, <2>1, <2>2
<1>5. QED BY <1>1, <1>2, <1>3, <1>4

(* The mask of a low page is that page, below the sign bit (physmem.c:91). *)
LEMMA LowMask ==
    ASSUME LowPages < IntBits, NEW p \in 0 .. LowPages - 1
    PROVE  MaskPages(p) = {p}
<1>1. PICK i \in Nat \ {0}, w \in Nat \ {0} :
            i = IntBits /\ w = WordBits /\ w = 2 * i
  BY ConstantsAssumption
<1>2. p \in Nat /\ p < 0 + i - 1 /\ p \in 0 .. 0 + w - 1
  BY <1>1, ConstantsAssumption
<1>3. 0 = 0 * WordBits
  BY ConstantsAssumption
<1>4. QED BY <1>1, <1>2, <1>3, MaskOf

(* One of the writes that reach a bit is the last.                         *)
LEMMA LastWriteIs ==
    ASSUME NEW m, Len(m) \in Nat, DOMAIN m = 1 .. Len(m),
           NEW q \in Nat, Writes(m, q) # {}
    PROVE  LastWrite(Writes(m, q)) \in Writes(m, q)
<1>1. PICK ws : ws = Writes(m, q)
  OBVIOUS
<1>2. PICK n \in Nat, e \in Nat : ws \subseteq (1 .. n) \X (0 .. e)
  <2>1. PICK w \in Nat \ {0} : w = WordBits
    BY ConstantsAssumption
  <2>2. PICK b \in Nat : WordPages(q) = b .. b + w - 1
    BY <2>1, WordOf
  <2>3. PICK e \in Nat : WordPages(q) \subseteq 0 .. e
    <3>1. b + w \in Nat /\ WordPages(q) \subseteq 0 .. b + w
      BY <2>2
    <3>2. QED BY <3>1
  <2>4. ws \subseteq (1 .. Len(m)) \X WordPages(q)
    BY <1>1 DEF Writes, Processed
  <2>5. ws \subseteq (1 .. Len(m)) \X (0 .. e)
    BY <2>3, <2>4
  <2>6. QED BY <2>5
<1> DEFINE rounds == {w[1] : w \in ws}
<1>3. PICK r \in rounds : \A x \in rounds : x <= r
  <2>1. rounds \in SUBSET Nat /\ rounds # {} /\ \A x \in rounds : x <= n
    BY <1>1, <1>2
  <2> HIDE DEF rounds
  <2>2. QED BY <2>1, GreatestElement
<1> DEFINE pages == {w[2] : w \in {v \in ws : v[1] = r}}
<1>4. PICK o \in pages : \A x \in pages : x <= o
  <2>1. pages \in SUBSET Nat /\ pages # {} /\ \A x \in pages : x <= e
    BY <1>2, <1>3
  <2> HIDE DEF pages, rounds
  <2>2. QED BY <2>1, GreatestElement
<1>5. PICK w \in ws : w[1] = r /\ w[2] = o
  BY <1>4
<1>6. \A v \in ws : v[1] < w[1] \/ (v[1] = w[1] /\ v[2] <= w[2])
  <2>1. ASSUME NEW v \in ws
        PROVE  v[1] < w[1] \/ (v[1] = w[1] /\ v[2] <= w[2])
    <3>1. v[1] \in Nat /\ r \in Nat /\ v[1] <= r
      BY <1>2, <1>3
    <3>2. CASE v[1] = r
      <4>1. v[2] \in pages
        BY <3>2
      <4>2. QED BY <1>4, <1>5, <3>2, <4>1
    <3>3. QED BY <1>5, <3>1, <3>2
  <2>2. QED BY <2>1
<1> HIDE DEF rounds, pages
<1>7. LastWrite(ws) \in ws
  <2>1. \E x \in ws : \A v \in ws :
            v[1] < x[1] \/ (v[1] = x[1] /\ v[2] <= x[2])
    BY <1>5, <1>6
  <2>2. QED BY <2>1 DEF LastWrite
<1>8. QED BY <1>1, <1>7

(* The pages of an available region are below the end of the highest one   *)
(* (physmem.c:62-66).                                                      *)
LEMMA RegionIsBelow ==
    ASSUME NEW m \in MemMaps, NEW r \in DOMAIN m, m[r].avail,
           NEW p \in RegionPages(m[r])
    PROVE  p < HighestAvail(m)
<1> DEFINE below == {x \in Pages : \E i \in DOMAIN m :
                        m[i].avail /\ x < RoundUp(m[i].addr + m[i].len)}
<1>1. PICK top \in Nat : top = PmmSize * WordBits /\ Pages = 0 .. top - 1
  BY ConstantsAssumption, WordsMonotone DEF Pages
<1>2. PICK first \in Nat, end \in Nat :
            /\ first = RoundUp(m[r].addr) /\ end = RoundUp(m[r].addr + m[r].len)
            /\ end <= top
  <2>1. m[r].addr \in Nat /\ m[r].len \in Nat
    BY MapFacts
  <2>2. RoundUp(m[r].addr) \in Nat /\ RoundUp(m[r].addr + m[r].len) \in Nat
    BY <2>1, RoundUpType
  <2>3. QED BY <1>1, <2>2, MapFacts
<1>3. p \in Nat /\ p < end
  BY <1>2 DEF RegionPages
<1>4. 0 .. p \subseteq below
  BY <1>1, <1>2, <1>3
<1>5. IsFiniteSet(below)
  <2>1. below \subseteq 0 .. top - 1 /\ IsFiniteSet(0 .. top - 1)
    BY <1>1, FS_Interval
  <2> HIDE DEF below
  <2>2. QED BY <2>1, FS_Subset
<1>6. Cardinality(0 .. p) = p + 1
  BY <1>3, FS_Interval
<1>7. Cardinality(0 .. p) <= Cardinality(below)
  <2> HIDE DEF below
  <2>1. QED BY <1>4, <1>5, FS_Subset
<1>8. HighestAvail(m) = Cardinality(below)
  BY DEF HighestAvail
<1> HIDE DEF below
<1>9. QED BY <1>3, <1>6, <1>7, <1>8, EndOfMemory

(* An available page is one of an available region.                        *)
LEMMA AvailableRegion ==
    ASSUME NEW m \in MemMaps, NEW p \in AvailablePages(m)
    PROVE  /\ p \in Nat
           /\ \E r \in DOMAIN m :
                /\ m[r].avail /\ p \in RegionPages(m[r])
                /\ m[r].addr <= p * PageSize
<1>1. PICK ps \in Nat \ {0} : ps = PageSize
  BY ConstantsAssumption
<1>2. p \in Nat /\ p * ps \in Nat
  BY ConstantsAssumption, WordsMonotone DEF AvailablePages, Pages
<1>3. PICK r \in DOMAIN m :
            /\ m[r].avail /\ m[r].addr <= p * ps
            /\ (p + 1) * ps <= m[r].addr + m[r].len
  BY <1>1 DEF AvailablePages
<1>4. m[r] \in [addr : Nat, len : Nat, avail : BOOLEAN]
      /\ m[r].addr \in Nat /\ m[r].len \in Nat
  BY MapFacts
<1>5. (p + 1) * ps = p * ps + ps
  BY <1>2
<1>6. p * ps < m[r].addr + m[r].len
  BY <1>2, <1>3, <1>4, <1>5
<1>7. p \in RegionPages(m[r])
  BY <1>1, <1>2, <1>3, <1>4, <1>6, RegionIs
<1>8. QED BY <1>1, <1>2, <1>3, <1>7

(* Where regions consist of words, all pages of the word of an available   *)
(* page are available.                                                     *)
LEMMA WordIsAvailable ==
    ASSUME NEW m \in MemMaps, InWords(m), NEW q \in AvailablePages(m)
    PROVE  WordPages(q) \subseteq AvailablePages(m)
<1>1. PICK r \in DOMAIN m : m[r].avail /\ q \in RegionPages(m[r])
  BY AvailableRegion
<1>2. /\ m[r] \in [addr : Nat, len : Nat, avail : BOOLEAN]
      /\ {m[r].addr, m[r].len} \subseteq
                {x * WordBits * PageSize : x \in 0 .. PmmSize}
      /\ m[r].addr + m[r].len \in Nat
      /\ RoundUp(m[r].addr + m[r].len) <= PmmSize * WordBits
  BY MapFacts DEF InWords
<1>3. q \in Nat
  BY AvailableRegion
<1>4. q \in WordPages(q)
  BY <1>3, WordOf
<1>5. ASSUME NEW o \in WordPages(q)
      PROVE  o \in AvailablePages(m)
  <2>1. /\ o \in RegionPages(m[r])
        /\ m[r].addr <= o * PageSize
        /\ (o + 1) * PageSize <= m[r].addr + m[r].len
    BY <1>1, <1>2, <1>3, <1>4, WordInRegion
  <2>2. o \in Pages
    <3>1. PICK size \in Nat : size = PmmSize * WordBits /\ Pages = 0 .. size - 1
      BY ConstantsAssumption, WordsMonotone DEF Pages
    <3>2. PICK from \in Nat, to \in Nat :
                /\ from = RoundUp(m[r].addr)
                /\ to = RoundUp(m[r].addr + m[r].len)
      BY <1>2, RoundUpType
    <3>3. o \in from .. to - 1 /\ to <= size
      BY <1>2, <2>1, <3>1, <3>2 DEF RegionPages
    <3>4. QED BY <3>1, <3>3
  <2>3. QED BY <1>1, <2>1, <2>2 DEF AvailablePages
<1>6. QED BY <1>5

(* phys_malloc searches each word whose pages, but for the low ones, are   *)
(* available (physmem.c:74, 111).                                          *)
LEMMA AvailableIsSearched ==
    ASSUME NEW m \in MemMaps, NEW q \in Nat, q >= LowPages,
           WordPages(q) \subseteq AvailablePages(m) \cup 0 .. LowPages - 1
    PROVE  q < (HighestAvail(m) \div WordBits) * WordBits
<1>1. PICK w \in Nat \ {0} : w = WordBits
  BY ConstantsAssumption
<1>2. PICK d \in Nat, b \in Nat :
            /\ b = d * w /\ q \in b .. b + w - 1
            /\ WordPages(q) = b .. b + w - 1
  BY <1>1, WordOf
<1>3. PICK p \in WordPages(q) : p = b + w - 1
  BY <1>2
<1>4. p \in AvailablePages(m)
  BY <1>2, <1>3, ConstantsAssumption
<1>5. p < HighestAvail(m)
  BY <1>4, AvailableRegion, RegionIsBelow
<1>6. PICK h \in Nat, k \in Nat, o \in 0 .. w - 1 :
            h = HighestAvail(m) /\ k = h \div w /\ h = k * w + o
  <2>1. PICK h \in Nat : h = HighestAvail(m)
    BY EndOfMemory
  <2>2. h \div w \in Nat /\ h % w \in 0 .. w - 1
        /\ h = (h \div w) * w + (h % w)
    BY DivMod
  <2>3. QED BY <2>1, <2>2
<1>7. d + 1 <= k
  <2>1. SUFFICES ASSUME k <= d PROVE FALSE
    OBVIOUS
  <2>2. k * w <= d * w /\ k * w \in Nat
    BY <2>1, WordsMonotone
  <2>3. QED BY <1>2, <1>3, <1>5, <1>6, <2>2, SMTT(30)
<1>8. (d + 1) * w <= k * w /\ (d + 1) * w = d * w + w /\ k * w \in Nat
  BY <1>7, WordsMonotone
<1>9. QED BY <1>1, <1>2, <1>6, <1>8

(* A page that is not low is left free when its word is available: each    *)
(* write that reaches its bit is one of a page of the word, and so of an   *)
(* available region (physmem.c:75-88).                                     *)
LEMMA AvailableIsFree ==
    ASSUME LowPages < IntBits, NEW m \in MemMaps, TidyMap(m),
           NEW q \in Nat, q >= LowPages,
           WordPages(q) \subseteq AvailablePages(m) \cup 0 .. LowPages - 1
    PROVE  q \notin BootBits(m)
<1>1. /\ \A r \in DOMAIN m :
            /\ m[r] \in [addr : Nat, len : Nat, avail : BOOLEAN]
            /\ m[r].addr \in Nat /\ m[r].len \in Nat
      /\ Len(m) \in Nat /\ DOMAIN m = 1 .. Len(m)
  BY MapFacts
<1>2. /\ PageSize \in Nat \ {0} /\ LowPages \in Nat /\ LowPages >= 1
      /\ \A x \in Nat : x * PageSize \in Nat
  BY ConstantsAssumption, WordsMonotone
<1>3. ASSUME NEW p \in WordPages(q)
      PROVE  p \in Nat
  <2>1. PICK b \in Nat : WordPages(q) = b .. b + WordBits - 1
    BY WordOf
  <2>2. QED BY <2>1, ConstantsAssumption
<1>4. ASSUME NEW p \in WordPages(q), q \in MaskPages(p)
      PROVE  p \in AvailablePages(m) /\ p # 0
  <2>1. ASSUME p \in 0 .. LowPages - 1 PROVE FALSE
    <3>1. MaskPages(p) = {p}
      BY <2>1, LowMask
    <3>2. QED BY <1>2, <1>4, <2>1, <3>1
  <2>2. QED BY <1>2, <2>1
<1>5. ASSUME NEW p \in WordPages(q), NEW k \in DOMAIN m,
             p \in AvailablePages(m), p \in RegionPages(m[k])
      PROVE  m[k].avail
  <2>1. PICK r \in DOMAIN m : m[r].avail /\ p \in RegionPages(m[r])
    BY <1>5, AvailableRegion
  <2>2. /\ m[k].addr <= p * PageSize /\ p * PageSize < m[k].addr + m[k].len
        /\ m[r].addr <= p * PageSize /\ p * PageSize < m[r].addr + m[r].len
    BY <1>1, <1>3, <1>5, <2>1, RegionIs
  <2>3. p * PageSize \in Nat
    BY <1>2, <1>3
  <2>4. /\ k < r => m[k].addr + m[k].len <= m[r].addr
        /\ r < k => m[r].addr + m[r].len <= m[k].addr
    BY DEF TidyMap
  <2>5. ~ (k < r) /\ ~ (r < k)
    BY <1>1, <2>2, <2>3, <2>4
  <2>6. k = r
    BY <1>1, <2>5
  <2>7. QED BY <2>1, <2>6
<1>6. Writes(m, q) # {}
  <2>1. PICK p \in WordPages(q) : q \in MaskPages(p)
    BY WriteReaches
  <2>2. PICK r \in DOMAIN m : /\ m[r].avail /\ p \in RegionPages(m[r])
                              /\ m[r].addr <= p * PageSize
    BY <1>4, <2>1, AvailableRegion
  <2>3. r \in Processed(m)
    <3>1. ASSUME NEW j \in 1 .. r
          PROVE  m[j].addr <= HighestAvail(m) * PageSize
      <4>1. j \in DOMAIN m /\ r \in Nat /\ m[j].addr \in Nat
            /\ m[j].len \in Nat /\ m[r].addr \in Nat
        BY <1>1
      <4>2. m[j].addr <= m[r].addr
        <5>1. CASE j = r
          BY <4>1, <5>1
        <5>2. CASE j < r
          <6>1. m[j].addr + m[j].len <= m[r].addr
            BY <4>1, <5>2 DEF TidyMap
          <6>2. QED BY <4>1, <6>1
        <5>3. QED BY <4>1, <5>1, <5>2
      <4>3. p * PageSize <= HighestAvail(m) * PageSize
            /\ HighestAvail(m) * PageSize \in Nat /\ p * PageSize \in Nat
        <5>1. p < HighestAvail(m)
          BY <2>2, RegionIsBelow
        <5>2. HighestAvail(m) \in Nat /\ p \in Nat
          BY <1>3, EndOfMemory
        <5>3. QED BY <1>2, <5>1, <5>2, WordsMonotone
      <4>4. QED BY <2>2, <4>1, <4>2, <4>3
    <3>2. QED BY <3>1 DEF Processed
  <2>4. <<r, p>> \in Writes(m, q)
    BY <2>1, <2>2, <2>3 DEF Writes
  <2>5. QED BY <2>4
<1>7. ASSUME NEW v \in Writes(m, q)
      PROVE  ~ SetsBit(m, v)
  <2>1. PICK k \in Processed(m), p \in WordPages(q) :
            v[1] = k /\ v[2] = p /\ p \in RegionPages(m[k])
            /\ q \in MaskPages(p)
    BY <1>7 DEF Writes
  <2>2. k \in DOMAIN m
    BY <2>1 DEF Processed
  <2>3. p # 0 /\ m[k].avail
    BY <1>4, <1>5, <2>1, <2>2
  <2>4. QED BY <2>1, <2>3 DEF SetsBit
<1>8. ~ SetsBit(m, LastWrite(Writes(m, q)))
  BY <1>1, <1>6, <1>7, LastWriteIs
<1>9. ASSUME NEW p \in 0 .. LowPages - 1 PROVE q \notin MaskPages(p)
  BY <1>2, LowMask
<1>10. QED BY <1>6, <1>8, <1>9 DEF BootBits

(* A page that is not available keeps its bit: the bits start set, and no  *)
(* region that reaches its word is available (physmem.c:74-88).            *)
LEMMA ReservedIsKept ==
    ASSUME NEW m \in MemMaps, InWords(m), NEW q \in Pages,
           q \notin AvailablePages(m),
           q < (HighestAvail(m) \div WordBits) * WordBits
    PROVE  q \in BootBits(m)
<1>1. /\ \A r \in DOMAIN m :
            /\ m[r] \in [addr : Nat, len : Nat, avail : BOOLEAN]
            /\ {m[r].addr, m[r].len} \subseteq
                    {w * WordBits * PageSize : w \in 0 .. PmmSize}
      /\ Len(m) \in Nat /\ DOMAIN m = 1 .. Len(m)
  BY MapFacts DEF InWords
<1>2. q \in Nat /\ q \in WordPages(q)
  <2>1. q \in Nat
    BY DEF Pages
  <2>2. QED BY <2>1, WordOf
<1>3. ASSUME Writes(m, q) # {}
      PROVE  SetsBit(m, LastWrite(Writes(m, q)))
  <2>1. PICK k \in Processed(m), p \in WordPages(q) :
            LastWrite(Writes(m, q))[1] = k /\ p \in RegionPages(m[k])
    BY <1>1, <1>2, <1>3, LastWriteIs DEF Writes
  <2>2. k \in DOMAIN m
    BY <2>1 DEF Processed
  <2>3. /\ m[k].addr <= q * PageSize
        /\ (q + 1) * PageSize <= m[k].addr + m[k].len
    BY <1>1, <1>2, <2>1, <2>2, WordInRegion
  <2>4. ~ m[k].avail
    BY <2>2, <2>3 DEF AvailablePages
  <2>5. QED BY <2>1, <2>4 DEF SetsBit
<1>4. QED BY <1>3 DEF BootBits, InitialBits

(* On a memory map whose regions are words of pmm and follow one another,  *)
(* what physmem_init leaves free is exactly the available memory above the *)
(* low pages, which have to end before the sign bit of an int              *)
(* (physmem.c:34, 75-91).                                                  *)
THEOREM BootFreesAvailable ==
    ASSUME LowPages < IntBits
    PROVE  Spec => BootExact
<1> DEFINE Exact == status = "reset" /\ Running'
                        /\ InWords(mmaps') /\ TidyMap(mmaps') =>
                (0 .. mm_end' * WordBits - 1) \ pmm'
                    = AvailablePages(mmaps') \ (0 .. LowPages - 1)
<1>1. ASSUME NEW m \in MemMaps, physmem_init(m), InWords(m), TidyMap(m)
      PROVE  (0 .. mm_end' * WordBits - 1) \ pmm'
                = AvailablePages(m) \ (0 .. LowPages - 1)
  <2>1. PICK end \in 0 .. PmmSize * WordBits :
            end = mm_end' * WordBits
            /\ end = (HighestAvail(m) \div WordBits) * WordBits
            /\ end <= HighestAvail(m) /\ Pages = 0 .. PmmSize * WordBits - 1
    <3>1. PICK k \in 0 .. PmmSize : k = HighestAvail(m) \div WordBits
      BY EndOfMemory
    <3>2. k * WordBits <= PmmSize * WordBits /\ k * WordBits \in Nat
          /\ PmmSize * WordBits \in Nat
      BY ConstantsAssumption, WordsMonotone
    <3>3. mm_end' = k
      BY <1>1, <3>1 DEF physmem_init
    <3>4. QED BY <3>1, <3>2, <3>3, EndOfMemory DEF Pages
  <2>2. pmm' = BootBits(m)
    BY <1>1 DEF physmem_init
  <2>3. ASSUME NEW q \in 0 .. end - 1, q \notin BootBits(m)
        PROVE  q \in AvailablePages(m) \ (0 .. LowPages - 1)
    <3>1. q \in Pages /\ q < end
      <4>1. PICK size \in Nat : size = PmmSize * WordBits
        BY ConstantsAssumption, WordsMonotone
      <4>2. end \in 0 .. size /\ Pages = 0 .. size - 1
        BY <2>1, <4>1
      <4>3. QED BY <4>1, <4>2
    <3>2. q \in AvailablePages(m)
      BY <1>1, <2>1, <2>3, <3>1, ReservedIsKept
    <3>3. q \notin 0 .. LowPages - 1
      BY <2>3, LowPageMask DEF BootBits
    <3>4. QED BY <3>2, <3>3
  <2>4. ASSUME NEW q \in AvailablePages(m) \ (0 .. LowPages - 1)
        PROVE  q \in 0 .. end - 1 /\ q \notin BootBits(m)
    <3>1. q \in Nat /\ q >= LowPages
      BY <2>4, ConstantsAssumption DEF AvailablePages, Pages
    <3>2. WordPages(q) \subseteq AvailablePages(m)
      BY <1>1, <2>4, WordIsAvailable
    <3>3. q < end
      BY <2>1, <3>1, <3>2, AvailableIsSearched
    <3>4. q \notin BootBits(m)
      BY <1>1, <3>1, <3>2, AvailableIsFree
    <3>5. QED BY <2>1, <3>1, <3>3, <3>4
  <2>5. QED BY <2>1, <2>2, <2>3, <2>4
<1>2. [Next]_vars => [Exact]_vars
  <2> SUFFICES ASSUME Next, status = "reset", Running', InWords(mmaps'),
                      TidyMap(mmaps')
               PROVE  (0 .. mm_end' * WordBits - 1) \ pmm'
                        = AvailablePages(mmaps') \ (0 .. LowPages - 1)
    OBVIOUS
  <2>1. PICK m \in MemMaps : physmem_init(m)
    BY DEF Next, Running, phys_malloc, phys_malloc_failed
  <2>2. mmaps' = m
    BY <2>1 DEF physmem_init
  <2>3. QED BY <1>1, <2>1, <2>2
<1>3. QED BY <1>2, PTL DEF Spec, BootExact

(* phys_malloc takes the first pages that are free, when enough follow     *)
(* each other there (physmem.c:111-138).                                   *)
LEMMA FirstRun ==
    ASSUME TypeOK, NEW s \in Nat, NEW n \in Nat \ {0},
           s + n <= mm_end * WordBits,
           (s .. s + n - 1) \cap pmm = {}, 0 .. s - 1 \subseteq pmm
    PROVE  Starts(n) # {} /\ FirstStart(n) = s
<1>1. PICK top \in Nat : top = mm_end * WordBits
  BY ConstantsAssumption, WordsMonotone DEF TypeOK
<1>2. \A p \in s .. s + n - 1 : p \in Scanned /\ p \notin pmm
  <2>1. ASSUME NEW p \in s .. s + n - 1
        PROVE  p \in Scanned /\ p \notin pmm
    <3>1. p \in 0 .. top - 1 /\ p \in Nat /\ p \notin pmm
      BY <1>1
    <3>2. p \in WordPages(p)
      BY <3>1, WordOf
    <3>3. QED BY <1>1, <3>1, <3>2 DEF Scanned, InFullWord
  <2>2. QED BY <2>1
<1>3. s \in Starts(n)
  <2>1. PICK e \in s .. s + n - 1 : e = s + n - 1
    OBVIOUS
  <2>2. Scanned \cap (s .. e) = s .. e
    BY <1>2, <2>1
  <2>3. Cardinality(s .. e) = n
    BY <2>1, FS_Interval
  <2>4. IsRun(s, e, n)
    BY <1>2, <2>1, <2>2, <2>3 DEF IsRun
  <2>5. s \in Scanned /\ e \in Scanned /\ s <= e
    BY <1>2, <2>1
  <2>6. QED BY <2>4, <2>5 DEF Starts
<1>4. \A t \in Starts(n) : t \in Nat /\ s <= t
  <2>1. ASSUME NEW t \in Starts(n) PROVE t \in Nat /\ s <= t
    <3>1. PICK e \in Scanned : t \in Scanned /\ t <= e /\ IsRun(t, e, n)
      BY DEF Starts
    <3>2. t \in Nat /\ e \in Nat
      BY <1>1, <3>1 DEF Scanned
    <3>3. t \notin pmm
      BY <3>1, <3>2 DEF IsRun
    <3>4. QED BY <3>2, <3>3
  <2>2. QED BY <2>1
<1>5. FirstStart(n) = s
  <2>1. \A t \in Starts(n) : (\A u \in Starts(n) : t <= u) => t = s
    BY <1>3, <1>4
  <2>2. FirstStart(n) \in Starts(n) /\ \A u \in Starts(n) : FirstStart(n) <= u
    BY <1>3, <1>4 DEF FirstStart
  <2>3. QED BY <2>1, <2>2
<1>6. QED BY <1>3, <1>5

(* A size that is a whole number of pages needs that many.                 *)
LEMMA WholePages ==
    ASSUME NEW n \in Nat
    PROVE  PagesFor(n * PageSize) = n
<1>1. PICK ps \in Nat \ {0} : ps = PageSize
  BY ConstantsAssumption
<1>2. PICK a \in Nat : a = n * ps
  BY <1>1, WordsMonotone
<1>3. (a + ps - 1) = n * ps + (ps - 1) /\ ps - 1 \in 0 .. ps - 1
  BY <1>1, <1>2
<1>4. (n * ps + (ps - 1)) \div ps = n
  BY <1>1, <1>3, DivModUnique
<1>5. QED BY <1>1, <1>2, <1>3, <1>4 DEF PagesFor, RoundUp

(* A page that is not low and whose word is available is free after        *)
(* physmem_init, and phys_malloc searches it (physmem.c:74-91).            *)
LEMMA BootGives ==
    ASSUME LowPages < IntBits, NEW m \in MemMaps, TidyMap(m), physmem_init(m),
           NEW q \in Nat, q >= LowPages,
           WordPages(q) \subseteq AvailablePages(m) \cup 0 .. LowPages - 1
    PROVE  q < mm_end' * WordBits /\ q \notin pmm' /\ held' = held
  BY AvailableIsSearched, AvailableIsFree DEF physmem_init

(* The first free pages are what phys_malloc hands out, when they are      *)
(* enough, and it does not fail then (physmem.c:111-138).                  *)
LEMMA FirstGrant ==
    ASSUME TypeOK, NEW c \in Clients, NEW size, NEW s \in Nat \ {0},
           NEW n \in Nat \ {0}, n = PagesFor(size),
           s + n <= mm_end * WordBits,
           (s .. s + n - 1) \cap pmm = {}, 0 .. s - 1 \subseteq pmm
    PROVE  /\ ~ phys_malloc_failed(c, size)
           /\ phys_malloc(c, size) =>
                /\ held' = [held EXCEPT ![c] = [page |-> s, n |-> n]]
                /\ pmm' = pmm \cup (s .. s + n - 1)
                /\ mm_end' = mm_end /\ status' = status
  BY FirstRun DEF phys_malloc, phys_malloc_failed

-----------------------------------------------------------------------------
(* The closed forms of PhysMem are what the loops of the code compute. *)

(* set_phys on a page of pmm changes bits of pmm only (physmem.c:30-43).   *)
LEMMA MaskInPages ==
    ASSUME NEW p \in Pages
    PROVE  MaskPages(p) \subseteq Pages
<1>1. PICK w \in Nat \ {0}, top \in Nat :
            w = WordBits /\ top = PmmSize * w /\ Pages = 0 .. top - 1
  BY ConstantsAssumption, WordsMonotone DEF Pages
<1>2. ASSUME NEW q \in MaskPages(p) PROVE q \in 0 .. top - 1
  <2>1. q \in Nat /\ p \in WordPages(q) /\ p \in Nat /\ p < top
    BY <1>1, MaskInWord
  <2>2. PICK d \in Nat, b \in Nat :
            b = d * w /\ q \in b .. b + w - 1 /\ p \in b .. b + w - 1
    BY <1>1, <2>1, WordOf
  <2>3. d + 1 <= PmmSize
    <3>1. SUFFICES ASSUME PmmSize <= d PROVE FALSE
      BY ConstantsAssumption
    <3>2. top <= d * w
      BY <1>1, <3>1, ConstantsAssumption, WordsMonotone
    <3>3. QED BY <1>1, <2>1, <2>2, <3>2
  <2>4. (d + 1) * w <= top
    BY <1>1, <2>3, ConstantsAssumption, WordsMonotone
  <2>5. (d + 1) * w = b + w
    BY <2>2
  <2>6. QED BY <1>1, <2>2, <2>4, <2>5
<1>3. QED BY <1>1, <1>2

(* After a loop of set_phys over the pages first .. end - 1, a bit is what *)
(* the last page whose mask has that bit made it.                          *)
SetBits(new, old, first, end, used) ==
    /\ new \in SUBSET Pages
    /\ \A q \in Pages :
        \/ /\ \A p \in first .. end - 1 : q \notin MaskPages(p)
           /\ q \in new <=> q \in old
        \/ \E p \in first .. end - 1 :
            /\ q \in MaskPages(p)
            /\ \A r \in first .. end - 1 : q \in MaskPages(r) => r <= p
            /\ q \in new <=> used \/ p = 0

(* That is what the loops over pages of physmem_init do, whatever the      *)
(* masks of the pages have in common (physmem.c:86-91).                    *)
LEMMA SetPagesIs ==
    ASSUME NEW bits \in SUBSET Pages, NEW first \in Nat, NEW end \in Nat,
           first <= end, end <= PmmSize * WordBits, NEW used \in BOOLEAN
    PROVE  SetBits(SetPages(bits, first, end, used), bits, first, end, used)
<1> DEFINE n == end - first
           R == SUBSET Pages
           Page(i) == first + i - 1
           Set(x, i) == set_phys(x, Page(i), used \/ Page(i) = 0)
           step == [p \in (1 .. n) \X R |-> Set(p[2], p[1])]
           after == CHOOSE f : f = [i \in 0 .. n |-> IF i = 0 THEN bits
                                                     ELSE Set(f[i - 1], i)]
<1>1. SetPages(bits, first, end, used) = after[n]
  BY DEF SetPages
<1>2. n \in Nat /\ \A i \in 1 .. n : Page(i) \in Pages /\ Page(i) \in first .. end - 1
  <2>1. PICK top \in Nat : top = PmmSize * WordBits /\ Pages = 0 .. top - 1
    BY ConstantsAssumption, WordsMonotone DEF Pages
  <2>2. QED BY <2>1
<1>3. \A x \in R, i \in 1 .. n : Set(x, i) \in R
  BY <1>2, MaskInPages DEF set_phys
<1>4. \A i \in 1 .. n, x \in R : step[<<i, x>>] = Set(x, i)
  BY DEF step
<1>5. \A x, i : Set(x, i) = set_phys(x, Page(i), used \/ Page(i) = 0)
  BY DEF Set
<1>6. \A i \in 1 .. n : Page(i) = first + i - 1
  BY DEF Page
<1>7. step \in [(1 .. n) \X R -> R]
  <2> HIDE DEF Set, R, n
  <2>1. QED BY <1>3 DEF step
<1> HIDE DEF Set, step, R, n, after, Page
<1>8. PICK f : IsLoop(f, R, bits, n, step)
  BY <1>2, <1>7, LoopExists DEF R
<1>9. f = [i \in 0 .. n |-> IF i = 0 THEN bits ELSE Set(f[i - 1], i)]
  <2>1. ASSUME NEW i \in 1 .. n
        PROVE  f[i] = Set(f[i - 1], i)
    <3>1. f[i - 1] \in R
      BY <1>2, <1>8 DEF IsLoop
    <3>2. QED BY <1>4, <1>8, <3>1 DEF IsLoop
  <2>2. QED BY <1>2, <1>8, <2>1 DEF IsLoop
<1>10. after = [i \in 0 .. n |-> IF i = 0 THEN bits ELSE Set(after[i - 1], i)]
  BY <1>9 DEF after
<1> DEFINE Kept(k, q) == /\ \A p \in first .. first + k - 1 : q \notin MaskPages(p)
                         /\ q \in after[k] <=> q \in bits
           Last(k, q, p) ==
                /\ q \in MaskPages(p)
                /\ \A r \in first .. first + k - 1 : q \in MaskPages(r) => r <= p
                /\ q \in after[k] <=> used \/ p = 0
           Good(k) == /\ after[k] \in R
                      /\ \A q \in Pages :
                            \/ Kept(k, q)
                            \/ \E p \in first .. first + k - 1 : Last(k, q, p)
<1>11. Good(0)
  <2>1. after[0] = bits /\ bits \in R
    BY <1>2, <1>10 DEF R
  <2>2. QED BY <2>1
<1>12. ASSUME NEW k \in 1 .. n, Good(k - 1)
       PROVE  Good(k)
  <2>1. PICK p \in Pages : p = Page(k) /\ p = first + k - 1
    BY <1>2, <1>6
  <2>2. after[k] = set_phys(after[k - 1], p, used \/ p = 0)
    <3>1. k \in 0 .. n /\ k # 0
      BY <1>2
    <3> HIDE DEF Good
    <3>2. after[k] = Set(after[k - 1], k)
      BY <1>10, <3>1
    <3>3. QED BY <1>5, <2>1, <3>2
  <2>3. after[k] \in R
    BY <1>3, <1>5, <1>12, <2>1, <2>2
  <2>4. /\ first .. first + k - 1 = (first .. first + (k - 1) - 1) \cup {p}
        /\ \A r \in first .. first + (k - 1) - 1 : r <= p
        /\ p \in first .. first + k - 1 /\ p <= p
    BY <1>2, <2>1
  <2>5. ASSUME NEW q \in Pages
        PROVE  Kept(k, q) \/ \E o \in first .. first + k - 1 : Last(k, q, o)
    <3>1. CASE q \in MaskPages(p)
      <4>1. q \in after[k] <=> used \/ p = 0
        BY <2>2, <3>1 DEF set_phys
      <4>2. Last(k, q, p)
        BY <2>4, <3>1, <4>1
      <4>3. QED BY <2>4, <4>2
    <3>2. CASE q \notin MaskPages(p)
      <4>1. q \in after[k] <=> q \in after[k - 1]
        BY <2>2, <3>2 DEF set_phys
      <4>2. CASE Kept(k - 1, q)
        BY <2>4, <3>2, <4>1, <4>2
      <4>3. ASSUME NEW o \in first .. first + (k - 1) - 1, Last(k - 1, q, o)
            PROVE  Last(k, q, o) /\ o \in first .. first + k - 1
        BY <2>4, <3>2, <4>1, <4>3
      <4>4. QED BY <1>12, <4>2, <4>3
    <3>3. QED BY <3>1, <3>2
  <2>6. QED BY <2>3, <2>5
<1> DEFINE S == {k \in 0 .. n : Good(k)}
<1>13. Good(n)
  <2>1. 0 \in S
    BY <1>2, <1>11
  <2>2. \A k \in 1 .. n : k - 1 \in S => k \in S
    BY <1>2, <1>12
  <2> HIDE DEF Good
  <2>3. S \in SUBSET (0 .. n)
    OBVIOUS
  <2> HIDE DEF S
  <2>4. n \in S
    BY <1>2, <2>1, <2>2, <2>3, AllRounds
  <2>5. QED BY <2>4 DEF S
<1>14. first + n - 1 = end - 1
  BY DEF n
<1>15. QED BY <1>1, <1>13, <1>14 DEF R, SetBits

(* What the i-th region of the memory map does to the bits: each bit it    *)
(* reaches is as its last page leaves it.                                  *)
RegionSet(new, old, m, i) ==
    /\ new \in [bits : SUBSET Pages, broke : BOOLEAN]
    /\ new.broke <=> old.broke \/ m[i].addr > HighestAvail(m) * PageSize
    /\ new.broke => new.bits = old.bits
    /\ ~ new.broke => \A q \in Pages :
        \/ /\ \A p \in RegionPages(m[i]) : q \notin MaskPages(p)
           /\ q \in new.bits <=> q \in old.bits
        \/ \E p \in RegionPages(m[i]) :
            /\ q \in MaskPages(p)
            /\ \A r \in RegionPages(m[i]) : q \in MaskPages(r) => r <= p
            /\ q \in new.bits <=> SetsBit(m, <<i, p>>)

(* A round of the loop over the memory map does that, or ends the loop     *)
(* (physmem.c:77-89).                                                      *)
LEMMA SetRegionIs ==
    ASSUME NEW m \in MemMaps, NEW i \in DOMAIN m,
           NEW acc \in [bits : SUBSET Pages, broke : BOOLEAN]
    PROVE  RegionSet(SetRegion(acc, m, i), acc, m, i)
<1>1. PICK first \in Nat, end \in Nat :
            /\ first = RoundUp(m[i].addr) /\ end = RoundUp(m[i].addr + m[i].len)
            /\ first <= end /\ end <= PmmSize * WordBits
  <2>1. m[i].addr \in Nat /\ m[i].len \in Nat
    BY MapFacts
  <2>2. PICK first \in Nat, end \in Nat :
            first = RoundUp(m[i].addr) /\ end = RoundUp(m[i].addr + m[i].len)
    BY <2>1, RoundUpType
  <2>3. m[i].addr + m[i].len <= end * PageSize /\ end * PageSize \in Nat
    <3>1. PageSize \in Nat
      BY ConstantsAssumption
    <3>2. QED BY <2>1, <2>2, <3>1, RoundUpIs, WordsMonotone
  <2>4. m[i].addr <= end * PageSize
    BY <2>1, <2>3
  <2>5. first <= end
    BY <2>1, <2>2, <2>4, RoundUpIs
  <2>6. QED BY <2>2, <2>5, MapFacts
<1>2. m[i].avail \in BOOLEAN /\ RegionPages(m[i]) = first .. end - 1
  BY <1>1, MapFacts DEF RegionPages
<1> DEFINE stops == acc.broke \/ m[i].addr > HighestAvail(m) * PageSize
           bits == SetPages(acc.bits, first, end, ~ m[i].avail)
<1>3. /\ bits \in SUBSET Pages
      /\ \A q \in Pages :
            \/ /\ \A p \in first .. end - 1 : q \notin MaskPages(p)
               /\ q \in bits <=> q \in acc.bits
            \/ \E p \in first .. end - 1 :
                /\ q \in MaskPages(p)
                /\ \A r \in first .. end - 1 : q \in MaskPages(r) => r <= p
                /\ q \in bits <=> ~ m[i].avail \/ p = 0
  <2>1. acc.bits \in SUBSET Pages /\ (~ m[i].avail) \in BOOLEAN
    BY <1>2
  <2>2. PICK used \in BOOLEAN : used = ~ m[i].avail
    BY <2>1
  <2>3. PICK old \in SUBSET Pages : old = acc.bits
    BY <2>1
  <2>4. bits = SetPages(old, first, end, used)
    BY <2>2, <2>3
  <2> HIDE DEF bits
  <2>5. SetBits(SetPages(old, first, end, used), old, first, end, used)
    BY <1>1, SetPagesIs
  <2>6. QED BY <2>2, <2>3, <2>4, <2>5 DEF SetBits
<1> HIDE DEF bits
<1>4. CASE stops
  <2>1. SetRegion(acc, m, i) = [acc EXCEPT !.broke = TRUE]
    BY <1>4 DEF SetRegion
  <2>2. QED BY <1>4, <2>1 DEF RegionSet
<1>5. CASE ~ stops
  <2>1. SetRegion(acc, m, i) = [acc EXCEPT !.bits = bits]
    BY <1>1, <1>5 DEF SetRegion, bits
  <2>2. /\ SetRegion(acc, m, i) \in [bits : SUBSET Pages, broke : BOOLEAN]
        /\ SetRegion(acc, m, i).bits = bits
        /\ SetRegion(acc, m, i).broke = acc.broke
    BY <1>3, <2>1
  <2>3. ~ acc.broke
    BY <1>5
  <2>4. \A p : SetsBit(m, <<i, p>>) <=> ~ m[i].avail \/ p = 0
    BY DEF SetsBit
  <2>5. QED BY <1>2, <1>3, <1>5, <2>2, <2>3, <2>4 DEF RegionSet
<1>6. QED BY <1>4, <1>5

(* A write that comes after all others is the last one.                    *)
LEMMA LastWriteIsGreatest ==
    ASSUME NEW m, NEW q \in Nat, Len(m) \in Nat, DOMAIN m = 1 .. Len(m),
           NEW w \in Writes(m, q),
           \A v \in Writes(m, q) : v[1] < w[1] \/ (v[1] = w[1] /\ v[2] <= w[2])
    PROVE  LastWrite(Writes(m, q)) = w
<1>1. PICK b \in Nat : WordPages(q) = b .. b + WordBits - 1
  BY WordOf
<1>2. Writes(m, q) \subseteq (1 .. Len(m)) \X (b .. b + WordBits - 1)
  BY <1>1 DEF Writes, Processed
<1>3. WordBits \in Nat
  BY ConstantsAssumption
<1>4. PICK x \in Writes(m, q) :
            /\ x = LastWrite(Writes(m, q))
            /\ \A v \in Writes(m, q) :
                    v[1] < x[1] \/ (v[1] = x[1] /\ v[2] <= x[2])
  BY DEF LastWrite
<1>5. /\ x \in (1 .. Len(m)) \X (b .. b + WordBits - 1)
      /\ w \in (1 .. Len(m)) \X (b .. b + WordBits - 1)
  BY <1>2
<1>6. /\ x[1] \in Nat /\ w[1] \in Nat /\ x[2] \in Nat /\ w[2] \in Nat
      /\ x = <<x[1], x[2]>> /\ w = <<w[1], w[2]>>
  BY <1>1, <1>3, <1>5
<1>7. x[1] = w[1] /\ x[2] = w[2]
  BY <1>4, <1>6
<1>8. QED BY <1>4, <1>6, <1>7

(* The bitmap that physmem_init leaves has the bits that BootBits says,    *)
(* for every memory map (physmem.c:52-91).                                 *)
LEMMA BootIsLoop ==
    ASSUME NEW m \in MemMaps
    PROVE  BootLoop(m) = BootBits(m)
<1> DEFINE n == Len(m)
           words == HighestAvail(m) \div WordBits
           filled == {q \in Pages : q % ByteBits = 0} \cup (0 .. words * WordBits - 1)
           R == [bits : SUBSET Pages, broke : BOOLEAN]
           none == [bits |-> filled, broke |-> FALSE]
           step == [p \in (1 .. n) \X R |-> SetRegion(p[2], m, p[1])]
           after == CHOOSE f : f = [i \in 0 .. n |-> IF i = 0 THEN none
                                        ELSE SetRegion(f[i - 1], m, i)]
           top == PmmSize * WordBits
<1>1. BootLoop(m) = SetPages(after[n].bits, 0, LowPages, TRUE)
  BY DEF BootLoop
<1>2. n \in Nat /\ DOMAIN m = 1 .. n
  BY MapFacts
<1>3. top \in Nat /\ Pages = 0 .. top - 1
  BY ConstantsAssumption, WordsMonotone DEF Pages
<1>4. filled = InitialBits(words)
  <2>1. words * WordBits \in Nat /\ words * WordBits <= top
    <3>1. words \in 0 .. PmmSize /\ PmmSize \in Nat /\ WordBits \in Nat
      BY EndOfMemory, ConstantsAssumption
    <3> HIDE DEF words
    <3>2. QED BY <3>1, WordsMonotone
  <2> HIDE DEF words, top
  <2>2. \A q \in Pages : q < words * WordBits <=> q \in 0 .. words * WordBits - 1
    BY <1>3, <2>1
  <2>3. 0 .. words * WordBits - 1 \subseteq Pages
    BY <1>3, <2>1
  <2>4. QED BY <2>2, <2>3 DEF InitialBits
<1>5. none \in R /\ none.bits = InitialBits(words) /\ ~ none.broke
  <2>1. InitialBits(words) \subseteq Pages
    BY DEF InitialBits
  <2>2. QED BY <1>4, <2>1
<1>6. \A i \in 1 .. n, x \in R : step[<<i, x>>] = SetRegion(x, m, i)
  BY DEF step
<1>7. \A i \in 1 .. n, x \in R : SetRegion(x, m, i) \in R
  BY <1>2, SetRegionIs DEF RegionSet
<1>8. step \in [(1 .. n) \X R -> R]
  <2> HIDE DEF R, n
  <2>1. QED BY <1>7 DEF step
<1> HIDE DEF step, n, after, none, words, filled, top
<1>9. PICK f : IsLoop(f, R, none, n, step)
  BY <1>2, <1>5, <1>8, LoopExists
<1>10. f = [i \in 0 .. n |-> IF i = 0 THEN none ELSE SetRegion(f[i - 1], m, i)]
  <2> HIDE DEF R
  <2>1. ASSUME NEW i \in 1 .. n
        PROVE  f[i] = SetRegion(f[i - 1], m, i)
    <3>1. f[i - 1] \in R
      BY <1>2, <1>9 DEF IsLoop
    <3>2. QED BY <1>6, <1>9, <3>1 DEF IsLoop
  <2>2. QED BY <1>2, <1>9, <2>1 DEF IsLoop
<1>11. after = [i \in 0 .. n |-> IF i = 0 THEN none ELSE SetRegion(after[i - 1], m, i)]
  BY <1>10 DEF after
<1> DEFINE Before(k, q) == {w \in Writes(m, q) : w[1] <= k}
           Greatest(w, ws) == \A v \in ws :
                v[1] < w[1] \/ (v[1] = w[1] /\ v[2] <= w[2])
           Right(k, q) ==
                \/ /\ Before(k, q) = {}
                   /\ q \in after[k].bits <=> q \in InitialBits(words)
                \/ \E w \in Before(k, q) :
                    /\ Greatest(w, Before(k, q))
                    /\ q \in after[k].bits <=> SetsBit(m, w)
           Good(k) == /\ after[k] \in R
                      /\ after[k].broke <=> \E j \in 1 .. k :
                            m[j].addr > HighestAvail(m) * PageSize
                      /\ \A q \in Pages : Right(k, q)
<1>12. Good(0)
  <2>1. after[0] = none
    BY <1>2, <1>11
  <2>2. ASSUME NEW q \in Pages PROVE Before(0, q) = {}
    BY <1>2 DEF Writes, Processed
  <2>3. QED BY <1>5, <2>1, <2>2
<1>13. ASSUME NEW k \in 1 .. n, Good(k - 1)
       PROVE  Good(k)
  <2>0. m[k].addr \in Nat /\ m[k].addr + m[k].len \in Nat
    <3>1. k \in DOMAIN m
      BY <1>2
    <3>2. m[k].addr \in Nat /\ m[k].len \in Nat
      BY <3>1, MapFacts
    <3>3. QED BY <3>2
  <2>1. after[k] = SetRegion(after[k - 1], m, k) /\ after[k - 1] \in R
    <3>1. after[k - 1] \in R
      BY <1>13
    <3> HIDE DEF Good, R
    <3>2. QED BY <1>2, <1>11, <3>1
  <2>2. /\ after[k] \in R
        /\ after[k].broke <=>
                after[k - 1].broke \/ m[k].addr > HighestAvail(m) * PageSize
        /\ after[k].broke => after[k].bits = after[k - 1].bits
        /\ ~ after[k].broke => \A q \in Pages :
                \/ /\ \A p \in RegionPages(m[k]) : q \notin MaskPages(p)
                   /\ q \in after[k].bits <=> q \in after[k - 1].bits
                \/ \E p \in RegionPages(m[k]) :
                    /\ q \in MaskPages(p)
                    /\ \A r \in RegionPages(m[k]) : q \in MaskPages(r) => r <= p
                    /\ q \in after[k].bits <=> SetsBit(m, <<k, p>>)
    <3>1. PICK acc \in R : acc = after[k - 1]
      BY <2>1
    <3>2. after[k] = SetRegion(acc, m, k) /\ k \in DOMAIN m
      BY <1>2, <2>1, <3>1
    <3> HIDE DEF Good
    <3>3. RegionSet(SetRegion(acc, m, k), acc, m, k)
      BY <3>2, SetRegionIs
    <3>4. QED BY <3>1, <3>2, <3>3 DEF RegionSet
  <2>3. 1 .. k = (1 .. k - 1) \cup {k}
    BY <1>2
  <2>4. after[k].broke <=> \E j \in 1 .. k :
                            m[j].addr > HighestAvail(m) * PageSize
    BY <1>13, <2>2, <2>3
  <2>5. k \in Processed(m) <=> ~ after[k].broke
    <3>1. k \in DOMAIN m
      BY <1>2
    <3>2. \A j \in 1 .. k : m[j].addr \in Nat
      BY <1>2, MapFacts
    <3>3. HighestAvail(m) * PageSize \in Nat
      BY EndOfMemory, ConstantsAssumption, WordsMonotone
    <3>4. QED BY <2>4, <3>1, <3>2, <3>3 DEF Processed
  <2>6. ASSUME NEW q \in Pages
        PROVE  Right(k, q)
    <3>1. Before(k, q) = Before(k - 1, q) \cup {w \in Writes(m, q) : w[1] = k}
      <4>1. \A w \in Writes(m, q) : w[1] \in 1 .. n
        BY <1>2 DEF Writes, Processed
      <4>2. \A w \in Writes(m, q) : w[1] <= k <=> w[1] <= k - 1 \/ w[1] = k
        BY <1>2, <4>1
      <4>3. QED BY <4>2
    <3>2. CASE {w \in Writes(m, q) : w[1] = k} = {}
      <4>1. Before(k, q) = Before(k - 1, q)
        BY <3>1, <3>2
      <4>2. q \in after[k].bits <=> q \in after[k - 1].bits
        <5>1. CASE after[k].broke
          BY <2>2, <5>1
        <5>2. ASSUME ~ after[k].broke, NEW p \in RegionPages(m[k]),
                     q \in MaskPages(p)
              PROVE  FALSE
          <6>1. p \in Nat
            <7>1. PICK a \in Nat, b \in Nat : a = RoundUp(m[k].addr)
                            /\ b = RoundUp(m[k].addr + m[k].len)
              BY <2>0, RoundUpType
            <7>2. QED BY <7>1 DEF RegionPages
          <6>2. <<k, p>> \in Writes(m, q)
            BY <2>5, <5>2, <6>1, MaskInWord DEF Writes
          <6>3. QED BY <3>2, <6>2
        <5>3. QED BY <2>2, <5>1, <5>2
      <4>3. QED BY <1>13, <4>1, <4>2
    <3>3. CASE {w \in Writes(m, q) : w[1] = k} # {}
      <4>1. PICK o \in RegionPages(m[k]) : <<k, o>> \in Writes(m, q)
        BY <3>3 DEF Writes
      <4>2. k \in Processed(m) /\ q \in MaskPages(o)
        BY <4>1 DEF Writes
      <4>3. PICK p \in RegionPages(m[k]) :
                /\ q \in MaskPages(p)
                /\ \A r \in RegionPages(m[k]) : q \in MaskPages(r) => r <= p
                /\ q \in after[k].bits <=> SetsBit(m, <<k, p>>)
        BY <2>2, <2>5, <4>2
      <4>4. p \in Nat
        <5>1. PICK a \in Nat, b \in Nat : a = RoundUp(m[k].addr)
                        /\ b = RoundUp(m[k].addr + m[k].len)
          BY <2>0, RoundUpType
        <5>2. QED BY <5>1 DEF RegionPages
      <4>5. <<k, p>> \in Before(k, q)
        <5>1. <<k, p>> \in Writes(m, q)
          BY <4>2, <4>3, <4>4, MaskInWord DEF Writes
        <5>2. QED BY <3>1, <5>1
      <4>6. ASSUME NEW v \in Before(k, q)
            PROVE  v[1] < k \/ (v[1] = k /\ v[2] <= p)
        <5>1. CASE v \in Before(k - 1, q)
          <6>1. v[1] \in 1 .. n /\ v[1] <= k - 1
            BY <1>2, <5>1 DEF Writes, Processed
          <6>2. QED BY <1>2, <6>1
        <5>2. CASE v[1] = k
          <6>1. v[2] \in RegionPages(m[k]) /\ q \in MaskPages(v[2])
            BY <5>2 DEF Writes
          <6>2. QED BY <4>3, <5>2, <6>1
        <5>3. QED BY <3>1, <5>1, <5>2
      <4>7. Greatest(<<k, p>>, Before(k, q))
        BY <4>6
      <4> HIDE DEF Before, Greatest
      <4>8. QED BY <4>3, <4>5, <4>7
    <3>4. QED BY <3>2, <3>3
  <2>7. QED BY <2>2, <2>4, <2>6
<1> DEFINE S == {k \in 0 .. n : Good(k)}
<1>14. Good(n)
  <2>1. 0 \in S
    BY <1>2, <1>12
  <2>2. \A k \in 1 .. n : k - 1 \in S => k \in S
    BY <1>2, <1>13
  <2> HIDE DEF Good
  <2>3. S \in SUBSET (0 .. n)
    OBVIOUS
  <2> HIDE DEF S
  <2>4. n \in S
    BY <1>2, <2>1, <2>2, <2>3, AllRounds
  <2>5. QED BY <2>4 DEF S
<1>15. ASSUME NEW q \in Pages
       PROVE  q \in after[n].bits <=>
                IF Writes(m, q) = {} THEN q \in InitialBits(words)
                                     ELSE SetsBit(m, LastWrite(Writes(m, q)))
  <2>1. Before(n, q) = Writes(m, q)
    <3>1. \A w \in Writes(m, q) : w[1] <= n
      BY <1>2 DEF Writes, Processed
    <3>2. QED BY <3>1
  <2>2. CASE Writes(m, q) = {}
    BY <1>14, <2>1, <2>2
  <2>3. ASSUME NEW w \in Before(n, q), Greatest(w, Before(n, q)),
               q \in after[n].bits <=> SetsBit(m, w)
        PROVE  /\ Writes(m, q) # {}
               /\ q \in after[n].bits <=> SetsBit(m, LastWrite(Writes(m, q)))
    <3>1. q \in Nat
      BY DEF Pages
    <3>2. LastWrite(Writes(m, q)) = w
      BY <1>2, <2>1, <2>3, <3>1, LastWriteIsGreatest DEF n
    <3>3. QED BY <2>1, <2>3, <3>2
  <2>4. QED BY <1>14, <2>1, <2>2, <2>3
<1>16. LowPages \in Nat /\ LowPages <= top
  <2>1. PICK i \in Nat \ {0}, s \in Nat \ {0} :
            i = IntBits /\ s = PmmSize /\ WordBits = 2 * i /\ LowPages \in 1 .. i
    BY ConstantsAssumption
  <2>2. 1 * WordBits <= s * WordBits
    BY <2>1, WordsMonotone
  <2>3. QED BY <2>1, <2>2 DEF top
<1>17. /\ BootLoop(m) \in SUBSET Pages
       /\ \A q \in Pages :
            \/ /\ \A p \in 0 .. LowPages - 1 : q \notin MaskPages(p)
               /\ q \in BootLoop(m) <=> q \in after[n].bits
            \/ \E p \in 0 .. LowPages - 1 :
                /\ q \in MaskPages(p)
                /\ q \in BootLoop(m)
  <2>1. after[n].bits \in SUBSET Pages
    BY <1>14
  <2> HIDE DEF Good
  <2>2. PICK bits \in SUBSET Pages : bits = after[n].bits
    BY <2>1
  <2>3. PICK used \in BOOLEAN : used = TRUE
    OBVIOUS
  <2>4. BootLoop(m) = SetPages(bits, 0, LowPages, used)
    BY <1>1, <2>2, <2>3
  <2>5. 0 \in Nat /\ 0 <= LowPages /\ LowPages <= PmmSize * WordBits
    BY <1>16 DEF top
  <2>6. SetBits(SetPages(bits, 0, LowPages, used), bits, 0, LowPages, used)
    BY <1>16, <2>5, SetPagesIs
  <2>7. QED BY <2>2, <2>3, <2>4, <2>6 DEF SetBits
<1>18. QED BY <1>15, <1>17 DEF BootBits, words

(* The loop over the memory map and the closed form agree at every         *)
(* physmem_init, and nothing else leaves the reset state (physmem.c:51-91). *)
THEOREM BootIsAsCoded == SpecWithFree => BootAgrees
<1>1. NextWithFree /\ status = "reset" /\ status' # "reset"
        => pmm' = BootLoop(mmaps')
  <2> SUFFICES ASSUME NextWithFree, status = "reset", status' # "reset"
               PROVE  pmm' = BootLoop(mmaps')
    OBVIOUS
  <2>1. PICK m \in MemMaps : physmem_init(m)
    BY DEF NextWithFree, Next, Running, phys_malloc, phys_malloc_failed, phys_free
  <2>2. QED BY <2>1, BootIsLoop DEF physmem_init
<1>2. [NextWithFree]_vars =>
        [status = "reset" /\ status' # "reset" => pmm' = BootLoop(mmaps')]_vars
  BY <1>1
<1>3. QED BY <1>2, PTL DEF SpecWithFree, BootAgrees

-----------------------------------------------------------------------------
(* The search of phys_malloc, page by page. *)

(* What the search knows before page p: the first run of n free pages, if  *)
(* one ends before p; else how many scanned pages are free in a row before *)
(* p, from which one on, and that a page that is not free keeps any run    *)
(* from starting earlier and going on (physmem.c:107-137).                 *)
Found(acc, n) == acc.ret \in Starts(n) /\ \A t \in Starts(n) : acc.ret <= t
Counting(acc, first, p, n) ==
    /\ first \in 0 .. p
    /\ acc.contiguous = 0 => first = p
    /\ acc.contiguous # 0 => first = acc.start /\ first \in Scanned
    /\ \A q \in Scanned : first <= q /\ q < p => q \notin pmm
    /\ Cardinality(Scanned \cap (first .. p - 1)) = acc.contiguous
    /\ \A s \in Scanned : s < first =>
            \E q \in Scanned : s <= q /\ q < first /\ q \in pmm
    /\ \A s, e \in Scanned : s <= e /\ e < p => ~ IsRun(s, e, n)
    /\ n = 0 \/ acc.contiguous < n
Accs == [contiguous : Nat, start : Nat, ret : Nat]
Searched(acc, p, n) ==
    /\ acc \in Accs
    /\ \/ acc.ret # NoPage /\ Found(acc, n)
       \/ acc.ret = NoPage /\ \E first \in Nat : Counting(acc, first, p, n)

(* The pages scanned are pages below the end of the search.                *)
LEMMA ScannedPages ==
    ASSUME TypeOK
    PROVE  /\ NoPage \in Nat /\ mm_end * WordBits \in Nat
           /\ mm_end * WordBits <= NoPage
           /\ \A p \in Scanned : p \in Nat /\ p < mm_end * WordBits
           /\ \A a, b \in Nat : IsFiniteSet(Scanned \cap (a .. b))
                    /\ Cardinality(Scanned \cap (a .. b)) \in Nat
<1>1. /\ NoPage \in Nat /\ mm_end * WordBits \in Nat
      /\ mm_end * WordBits <= NoPage
  BY ConstantsAssumption, WordsMonotone DEF TypeOK, NoPage
<1>2. \A p \in Scanned : p \in Nat /\ p < mm_end * WordBits
  BY <1>1 DEF Scanned
<1>3. ASSUME NEW a \in Nat, NEW b \in Nat
      PROVE  /\ IsFiniteSet(Scanned \cap (a .. b))
             /\ Cardinality(Scanned \cap (a .. b)) \in Nat
  <2>1. IsFiniteSet(a .. b)
    BY FS_Interval
  <2>2. IsFiniteSet(Scanned \cap (a .. b))
    BY <2>1, FS_Subset
  <2>3. QED BY <2>2, FS_CardinalityType
<1>4. QED BY <1>1, <1>2, <1>3

(* A page that is read, free or not, keeps what the search knows           *)
(* (physmem.c:117-136).                                                    *)
LEMMA BitSearched ==
    ASSUME TypeOK, NEW n \in Nat, NEW p \in Scanned, NEW acc,
           Searched(acc, p, n)
    PROVE  Searched(SearchBit(n, acc, p), p + 1, n)
<1>1. p \in Nat /\ p < NoPage /\ NoPage \in Nat
  BY ScannedPages
<1>2. acc \in Accs /\ acc.contiguous \in Nat /\ acc.start \in Nat /\ acc.ret \in Nat
  BY DEF Searched, Accs
<1>3. CASE acc.ret # NoPage
  BY <1>3 DEF Searched, SearchBit
<1>4. ASSUME acc.ret = NoPage, NEW first \in Nat, Counting(acc, first, p, n)
      PROVE  Searched(SearchBit(n, acc, p), p + 1, n)
  <2>1. CASE p \in pmm
    <3>1. PICK new : new = SearchBit(n, acc, p)
      OBVIOUS
    <3>2. new = [acc EXCEPT !.contiguous = 0]
      BY <1>4, <2>1, <3>1 DEF SearchBit
    <3>3. new \in Accs /\ new.contiguous = 0 /\ new.ret = NoPage
      BY <1>2, <1>4, <3>2 DEF Accs
    <3>4. Cardinality(Scanned \cap (p + 1 .. (p + 1) - 1)) = 0
      <4>1. p + 1 .. (p + 1) - 1 = {}
        BY <1>1
      <4>2. Scanned \cap (p + 1 .. (p + 1) - 1) = {}
        BY <4>1
      <4>3. QED BY <4>2, FS_EmptySet
    <3>5. ASSUME NEW s \in Scanned, s < p + 1
          PROVE  \E q \in Scanned : s <= q /\ q < p + 1 /\ q \in pmm
      <4>1. s \in Nat /\ s <= p /\ p < p + 1
        BY <1>1, <3>5, ScannedPages
      <4>2. QED BY <2>1, <4>1
    <3>6. ASSUME NEW s \in Scanned, NEW e \in Scanned, s <= e, e < p + 1
          PROVE  ~ IsRun(s, e, n)
      <4>1. s \in Nat /\ e \in Nat
        BY ScannedPages
      <4>2. CASE e < p
        BY <1>4, <3>6, <4>2 DEF Counting
      <4>3. CASE e = p
        <5>1. p \in Scanned \cap (s .. e)
          BY <1>1, <3>6, <4>1, <4>3
        <5>2. QED BY <2>1, <5>1 DEF IsRun
      <4>4. QED BY <1>1, <3>6, <4>1, <4>2, <4>3
    <3>7. n = 0 \/ 0 < n
      OBVIOUS
    <3>8. Counting(new, p + 1, p + 1, n)
      BY <1>1, <3>3, <3>4, <3>5, <3>6, <3>7, ScannedPages DEF Counting
    <3>9. QED BY <1>1, <3>1, <3>3, <3>8 DEF Searched
  <2>2. CASE p \notin pmm
    <3> DEFINE count == acc.contiguous + 1
    <3>1. PICK new : new = SearchBit(n, acc, p)
      OBVIOUS
    <3>2. first \in 0 .. p /\ first = IF acc.contiguous = 0 THEN p ELSE acc.start
      BY <1>4 DEF Counting
    <3>3. new = [contiguous |-> count, start |-> first,
                 ret |-> IF count = n THEN first ELSE NoPage]
      BY <1>4, <2>2, <3>1, <3>2 DEF SearchBit
    <3>4. /\ new \in Accs /\ new.contiguous = count /\ new.start = first
          /\ new.ret = IF count = n THEN first ELSE NoPage
      BY <1>1, <1>2, <3>3 DEF Accs
    <3>5. /\ Cardinality(Scanned \cap (first .. p)) = count
          /\ first \in Scanned /\ first <= p
      <4>1. first .. p = (first .. p - 1) \cup {p} /\ p \notin first .. p - 1
        BY <1>1, <3>2
      <4>2. Scanned \cap (first .. p) = (Scanned \cap (first .. p - 1)) \cup {p}
        BY <4>1
      <4>3. IsFiniteSet(Scanned \cap (first .. p - 1))
        <5>1. CASE p = 0
          <6>1. first .. p - 1 = {}
            BY <3>2, <5>1
          <6>2. Scanned \cap (first .. p - 1) = {}
            BY <6>1
          <6>3. QED BY <6>2, FS_EmptySet
        <5>2. CASE p # 0
          <6>1. p - 1 \in Nat
            BY <1>1, <5>2
          <6>2. QED BY <6>1, ScannedPages
        <5>3. QED BY <5>1, <5>2
      <4>4. Cardinality((Scanned \cap (first .. p - 1)) \cup {p})
                = Cardinality(Scanned \cap (first .. p - 1)) + 1
        BY <4>1, <4>3, FS_AddElement
      <4>5. Cardinality(Scanned \cap (first .. p - 1)) = acc.contiguous
        BY <1>4 DEF Counting
      <4>6. first \in Scanned
        BY <1>4, <3>2 DEF Counting
      <4>7. Cardinality(Scanned \cap (first .. p)) = count
        BY <4>2, <4>4, <4>5
      <4>8. QED BY <1>1, <3>2, <4>6, <4>7
    <3>6. \A q \in Scanned : first <= q /\ q < p + 1 => q \notin pmm
      <4>1. ASSUME NEW q \in Scanned, first <= q, q < p + 1 PROVE q \notin pmm
        <5>1. q \in Nat /\ (q < p \/ q = p)
          BY <1>1, <4>1, ScannedPages
        <5>2. QED BY <1>4, <2>2, <4>1, <5>1 DEF Counting
      <4>2. QED BY <4>1
    <3>7. ASSUME NEW s \in Scanned, NEW e \in Scanned, s <= e, s < first,
                 first <= e
          PROVE  ~ IsRun(s, e, n)
      <4>1. PICK q \in Scanned : s <= q /\ q < first /\ q \in pmm
        BY <1>4, <3>7 DEF Counting
      <4>2. q \in Scanned \cap (s .. e)
        <5>1. q \in Nat /\ s \in Nat /\ e \in Nat
          BY ScannedPages
        <5>2. QED BY <3>2, <3>7, <4>1, <5>1
      <4>3. QED BY <4>1, <4>2 DEF IsRun
    <3>8. ASSUME NEW s \in Scanned, NEW e \in Scanned, s <= e, s < first
          PROVE  ~ IsRun(s, e, n)
      <4>1. s \in Nat /\ e \in Nat
        BY ScannedPages
      <4>2. CASE e < p
        BY <1>4, <3>8, <4>2 DEF Counting
      <4>3. CASE ~ (e < p)
        BY <1>1, <3>2, <3>7, <3>8, <4>1, <4>3
      <4>4. QED BY <4>2, <4>3
    <3>9. CASE count = n
      <4>1. IsRun(first, p, n)
        <5>1. Scanned \cap (first .. p) \cap pmm = {}
          BY <1>1, <3>2, <3>6
        <5>2. QED BY <3>5, <3>9, <5>1 DEF IsRun
      <4>2. first \in Starts(n)
        BY <3>5, <4>1 DEF Starts
      <4>3. ASSUME NEW t \in Starts(n) PROVE first <= t
        <5>1. PICK e \in Scanned : t \in Scanned /\ t <= e /\ IsRun(t, e, n)
          BY DEF Starts
        <5>2. ~ (t < first) /\ t \in Nat
          BY <3>8, <5>1, ScannedPages
        <5>3. QED BY <3>2, <5>2
      <4>4. new.ret = first /\ first # NoPage
        BY <1>1, <3>2, <3>4, <3>9
      <4>5. QED BY <3>1, <3>4, <4>2, <4>3, <4>4 DEF Searched, Found
    <3>10. CASE count # n
      <4>1. n = 0 \/ count < n
        BY <1>2, <1>4, <3>10 DEF Counting
      <4>2. ASSUME NEW s \in Scanned, NEW e \in Scanned, s <= e, e < p + 1
            PROVE  ~ IsRun(s, e, n)
        <5>1. s \in Nat /\ e \in Nat
          BY ScannedPages
        <5>2. CASE e < p
          BY <1>4, <4>2, <5>2 DEF Counting
        <5>3. CASE s < first
          BY <3>8, <4>2, <5>3
        <5>4. CASE e = p /\ first <= s
          <6> DEFINE run == Scanned \cap (s .. e)
                     all == Scanned \cap (first .. p)
          <6>1. run \subseteq all /\ s \in run
            BY <1>1, <3>2, <4>2, <5>1, <5>4
          <6>2. IsFiniteSet(all) /\ IsFiniteSet(run) /\ Cardinality(run) \in Nat
            BY <1>1, <5>1, ScannedPages
          <6>3. Cardinality(all) = count
            BY <3>5
          <6>4. Cardinality(run) # 0 /\ Cardinality(run) <= count
            <7> HIDE DEF run, all
            <7>1. Cardinality(run) # 0
              BY <6>1, <6>2, FS_EmptySet
            <7>2. Cardinality(run) <= Cardinality(all)
              BY <6>1, <6>2, FS_Subset
            <7>3. QED BY <6>3, <7>1, <7>2
          <6>5. Cardinality(run) # n
            <7> HIDE DEF run
            <7>1. QED BY <1>2, <4>1, <6>2, <6>4
          <6>6. QED BY <6>5 DEF IsRun
        <5>5. QED BY <1>1, <3>2, <4>2, <5>1, <5>2, <5>3, <5>4
      <4>3. Counting(new, first, p + 1, n)
        <5>1. (p + 1) - 1 = p /\ first \in 0 .. p + 1
          BY <1>1, <3>2
        <5>2. new.contiguous # 0
          BY <1>2, <3>4
        <5>3. \A s \in Scanned : s < first =>
                \E q \in Scanned : s <= q /\ q < first /\ q \in pmm
          BY <1>4 DEF Counting
        <5>4. QED BY <3>4, <3>5, <3>6, <4>1, <4>2, <5>1, <5>2, <5>3 DEF Counting
      <4>4. new.ret = NoPage
        BY <3>4, <3>10
      <4>5. QED BY <3>1, <3>4, <4>3, <4>4 DEF Searched
    <3>11. QED BY <3>9, <3>10
  <2>3. QED BY <2>1, <2>2
<1>5. QED BY <1>3, <1>4 DEF Searched

(* Pages that are not read, those of a full word, change nothing but where *)
(* a run that has not begun may begin (physmem.c:114).                     *)
LEMMA SkipSearched ==
    ASSUME TypeOK, NEW n \in Nat, NEW p \in Nat, NEW next \in Nat, p <= next,
           \A x \in p .. next - 1 : x \notin Scanned,
           NEW acc, Searched(acc, p, n)
    PROVE  Searched(acc, next, n)
<1>1. CASE acc.ret # NoPage
  BY <1>1 DEF Searched
<1>2. ASSUME acc.ret = NoPage, NEW first \in Nat, Counting(acc, first, p, n)
      PROVE  Searched(acc, next, n)
  <2>1. PICK from \in Nat :
            from = IF acc.contiguous = 0 THEN next ELSE first
    OBVIOUS
  <2>2. first \in 0 .. p /\ from \in 0 .. next
    BY <1>2, <2>1 DEF Counting
  <2>3. ASSUME NEW x \in Scanned, x < next
        PROVE  x \in Nat /\ x < p
    BY <2>3, ScannedPages
  <2>4. \A q \in Scanned : from <= q /\ q < next => q \notin pmm
    <3>1. ASSUME NEW q \in Scanned, from <= q, q < next
          PROVE  q \notin pmm
      <4>1. first <= q /\ q < p
        <5>1. acc.contiguous = 0 => next <= q
          BY <2>1, <3>1
        <5>2. QED BY <2>1, <2>3, <3>1, <5>1
      <4>2. QED BY <1>2, <4>1 DEF Counting
    <3>2. QED BY <3>1
  <2>5. Cardinality(Scanned \cap (from .. next - 1)) = acc.contiguous
    <3>1. CASE acc.contiguous = 0
      <4>1. next .. next - 1 = {}
        OBVIOUS
      <4>2. Scanned \cap (from .. next - 1) = {}
        BY <2>1, <3>1, <4>1
      <4>3. QED BY <3>1, <4>2, FS_EmptySet
    <3>2. CASE acc.contiguous # 0
      <4>1. Scanned \cap (from .. next - 1) = Scanned \cap (first .. p - 1)
        <5>1. ASSUME NEW x \in Scanned
              PROVE  x \in from .. next - 1 <=> x \in first .. p - 1
          BY <2>1, <2>2, <2>3, <3>2, ScannedPages
        <5>2. QED BY <5>1
      <4>2. QED BY <1>2, <4>1 DEF Counting
    <3>3. QED BY <3>1, <3>2
  <2>6. ASSUME NEW s \in Scanned, s < from
        PROVE  \E q \in Scanned : s <= q /\ q < from /\ q \in pmm
    <3>1. CASE acc.contiguous = 0
      <4>1. s < first /\ first = p
        BY <1>2, <2>1, <2>3, <2>6, <3>1 DEF Counting
      <4>2. PICK q \in Scanned : s <= q /\ q < first /\ q \in pmm
        BY <1>2, <4>1 DEF Counting
      <4>3. q < from
        BY <2>1, <3>1, <4>1, <4>2, ScannedPages
      <4>4. QED BY <4>2, <4>3
    <3>2. CASE acc.contiguous # 0
      BY <1>2, <2>1, <2>6, <3>2 DEF Counting
    <3>3. QED BY <3>1, <3>2
  <2>7. \A s, e \in Scanned : s <= e /\ e < next => ~ IsRun(s, e, n)
    BY <1>2, <2>3 DEF Counting
  <2>8. Counting(acc, from, next, n)
    BY <1>2, <2>1, <2>2, <2>4, <2>5, <2>6, <2>7 DEF Counting
  <2>9. QED BY <1>2, <2>8 DEF Searched
<1>3. QED BY <1>1, <1>2 DEF Searched

(* The loop over the bits of a word goes round once for each bit, from     *)
(* whatever was counted before (physmem.c:116).                            *)
LEMMA WordLoop ==
    ASSUME TypeOK, NEW n \in Nat, NEW i \in Nat, NEW acc \in Accs
    PROVE  \E after \in [0 .. WordBits -> Accs] :
                /\ after[0] = acc
                /\ \A b \in 1 .. WordBits : after[b] =
                        SearchBit(n, after[b - 1], i * WordBits + b - 1)
                /\ SearchWord(n, acc, i) =
                        IF InFullWord(pmm, i * WordBits) THEN acc
                                                         ELSE after[WordBits]
<1>1. PICK w \in Nat \ {0}, base \in Nat : w = WordBits /\ base = i * w
  BY ConstantsAssumption, WordsMonotone
<1> DEFINE Bit(x, b) == SearchBit(n, x, base + b - 1)
           step == [r \in (1 .. w) \X Accs |-> Bit(r[2], r[1])]
           after == CHOOSE f : f = [b \in 0 .. w |->
                        IF b = 0 THEN acc ELSE Bit(f[b - 1], b)]
<1>2. SearchWord(n, acc, i) = IF InFullWord(pmm, base) THEN acc ELSE after[w]
  BY <1>1 DEF SearchWord
<1>3. \A b \in 1 .. w, x \in Accs : step[<<b, x>>] = Bit(x, b)
  BY DEF step
<1>4. ASSUME NEW b \in 1 .. w, NEW x \in Accs PROVE Bit(x, b) \in Accs
  <2>1. base + b - 1 \in Nat /\ NoPage \in Nat
    BY <1>1, ScannedPages
  <2>2. x.contiguous \in Nat /\ x.start \in Nat /\ x.ret \in Nat
    BY DEF Accs
  <2>3. QED BY <2>1, <2>2 DEF SearchBit, Accs
<1>5. step \in [(1 .. w) \X Accs -> Accs]
  <2> HIDE DEF Bit
  <2>1. QED BY <1>4 DEF step
<1>6. \A b, x : Bit(x, b) = SearchBit(n, x, base + b - 1)
  BY DEF Bit
<1> HIDE DEF Bit, step, after
<1>7. PICK f : IsLoop(f, Accs, acc, w, step)
  BY <1>1, <1>5, LoopExists
<1>8. f = [b \in 0 .. w |-> IF b = 0 THEN acc ELSE Bit(f[b - 1], b)]
  <2>1. ASSUME NEW b \in 1 .. w
        PROVE  f[b] = Bit(f[b - 1], b)
    <3>1. f[b - 1] \in Accs
      BY <1>1, <1>7 DEF IsLoop
    <3>2. QED BY <1>3, <1>7, <3>1 DEF IsLoop
  <2>2. QED BY <1>1, <1>7, <2>1 DEF IsLoop
<1>9. after = [b \in 0 .. w |-> IF b = 0 THEN acc ELSE Bit(after[b - 1], b)]
  BY <1>8 DEF after
<1> DEFINE S == {b \in 0 .. w : after[b] \in Accs}
<1>10. \A b \in 1 .. w : /\ b \in 0 .. w /\ b # 0 /\ b - 1 \in 0 .. w
                         /\ after[b] = Bit(after[b - 1], b)
  BY <1>9
<1>11. after[0] = acc
  BY <1>1, <1>9
<1>12. \A b \in 0 .. w : after[b] \in Accs
  <2>1. ASSUME NEW b \in 0 .. w PROVE after[b] \in Accs
    <3> DEFINE T == S \cap 0 .. b
    <3>1. T \in SUBSET (0 .. b) /\ 0 \in T /\ b \in Nat
      BY <1>11
    <3>2. \A k \in 1 .. b : k - 1 \in T => k \in T
      BY <1>4, <1>10
    <3>3. b \in T
      <4> HIDE DEF T
      <4>1. QED BY <3>1, <3>2, AllRounds
    <3>4. QED BY <3>3
  <2>2. QED BY <2>1
<1>13. after \in [0 .. w -> Accs]
  BY <1>9, <1>12
<1>14. QED BY <1>1, <1>2, <1>6, <1>10, <1>11, <1>13

(* The pages of a word are searched as its bits are, in order, or skipped  *)
(* together (physmem.c:112-137).                                           *)
LEMMA WordSearched ==
    ASSUME TypeOK, NEW n \in Nat, NEW i \in 0 .. mm_end - 1, NEW acc,
           Searched(acc, i * WordBits, n)
    PROVE  Searched(SearchWord(n, acc, i), (i + 1) * WordBits, n)
<1>1. PICK w \in Nat \ {0}, base \in Nat :
            w = WordBits /\ base = i * w /\ (i + 1) * w = base + w
            /\ base + w <= mm_end * w /\ mm_end * w \in Nat
  <2>1. PICK w \in Nat \ {0} : w = WordBits
    BY ConstantsAssumption
  <2>2. i \in Nat /\ mm_end \in Nat /\ i + 1 <= mm_end
    BY ConstantsAssumption DEF TypeOK
  <2>3. (i + 1) * w <= mm_end * w /\ i * w \in Nat /\ mm_end * w \in Nat
    BY <2>2, WordsMonotone
  <2>4. (i + 1) * w = i * w + w
    BY <2>2
  <2>5. QED BY <2>1, <2>3, <2>4
<1>2. ASSUME NEW x \in base .. base + w - 1
      PROVE  x \in Nat /\ (x \in Scanned <=> ~ InFullWord(pmm, base))
  <2>1. x \in Nat /\ x \in 0 .. mm_end * w - 1 /\ base \in base .. base + w - 1
    BY <1>1
  <2>2. PICK d \in Nat, b \in Nat :
            /\ b = d * WordBits /\ d = x \div WordBits
            /\ WordPages(x) = b .. b + WordBits - 1
    BY <2>1, WordOf
  <2>3. PICK d2 \in Nat, b2 \in Nat :
            /\ b2 = d2 * WordBits /\ d2 = base \div WordBits
            /\ WordPages(base) = b2 .. b2 + WordBits - 1
    BY WordOf
  <2>4. x \div w = i /\ base \div w = i
    <3>1. i \in Nat /\ 0 \in 0 .. w - 1 /\ x - base \in 0 .. w - 1
      BY <1>1
    <3>2. i * w + (x - base) = x /\ i * w + 0 = base
      BY <1>1, <2>1
    <3>3. QED BY <3>1, <3>2, DivModUnique
  <2>5. WordPages(x) = WordPages(base)
    BY <1>1, <2>2, <2>3, <2>4
  <2>6. QED BY <1>1, <2>1, <2>5 DEF Scanned, InFullWord
<1>3. CASE InFullWord(pmm, base)
  <2>1. SearchWord(n, acc, i) = acc
    BY <1>1, <1>3 DEF SearchWord
  <2>2. \A x \in base .. base + w - 1 : x \notin Scanned
    BY <1>2, <1>3
  <2>3. Searched(acc, base, n) /\ base + w \in Nat /\ base <= base + w
    BY <1>1
  <2>4. Searched(acc, base + w, n)
    BY <2>2, <2>3, SkipSearched
  <2>5. QED BY <1>1, <2>1, <2>4
<1>4. CASE ~ InFullWord(pmm, base)
  <2>1. acc \in Accs /\ Searched(acc, base, n)
    BY <1>1 DEF Searched
  <2>2. PICK after \in [0 .. w -> Accs] :
            /\ after[0] = acc
            /\ \A b \in 1 .. w :
                    after[b] = SearchBit(n, after[b - 1], base + b - 1)
            /\ SearchWord(n, acc, i) = after[w]
    <3>1. i \in Nat
      OBVIOUS
    <3>2. PICK after \in [0 .. WordBits -> Accs] :
            /\ after[0] = acc
            /\ \A b \in 1 .. WordBits : after[b] =
                    SearchBit(n, after[b - 1], i * WordBits + b - 1)
            /\ SearchWord(n, acc, i) =
                    IF InFullWord(pmm, i * WordBits) THEN acc
                                                     ELSE after[WordBits]
      BY <2>1, <3>1, WordLoop
    <3>3. QED BY <1>1, <1>4, <3>2
  <2> DEFINE S == {b \in 0 .. w : Searched(after[b], base + b, n)}
  <2>3. 0 \in S
    BY <1>1, <2>1, <2>2
  <2>4. ASSUME NEW b \in 1 .. w, b - 1 \in S
        PROVE  b \in S
    <3>1. b \in 0 .. w /\ base + b - 1 = base + (b - 1)
          /\ (base + b - 1) + 1 = base + b /\ base + b - 1 \in base .. base + w - 1
      BY <1>1
    <3>2. Searched(after[b - 1], base + b - 1, n)
      BY <2>4, <3>1
    <3>3. base + b - 1 \in Scanned
      BY <1>2, <1>4, <3>1
    <3>4. Searched(after[b], (base + b - 1) + 1, n)
      BY <2>2, <3>2, <3>3, BitSearched
    <3>5. QED BY <3>1, <3>4
  <2>5. w \in S
    <3>1. S \in SUBSET (0 .. w)
      OBVIOUS
    <3> HIDE DEF S
    <3>2. QED BY <1>1, <2>3, <2>4, <3>1, AllRounds
  <2>6. QED BY <1>1, <2>2, <2>5
<1>5. QED BY <1>3, <1>4

(* The loop of phys_malloc returns the first start of a run of n pages, or *)
(* nothing when there is no run, from any bitmap (physmem.c:105-141).      *)
LEMMA SearchIsLoop ==
    ASSUME TypeOK, NEW n \in Nat
    PROVE  SearchLoop(n) = IF Starts(n) = {} THEN NoPage ELSE FirstStart(n)
<1> DEFINE none == [contiguous |-> 0, start |-> 0, ret |-> NoPage]
           Word(x, i) == SearchWord(n, x, i - 1)
           step == [r \in (1 .. mm_end) \X Accs |-> Word(r[2], r[1])]
           after == CHOOSE f : f = [i \in 0 .. mm_end |->
                        IF i = 0 THEN none ELSE Word(f[i - 1], i)]
<1>1. SearchLoop(n) = after[mm_end].ret
  BY DEF SearchLoop
<1>2. PICK words \in Nat, top \in Nat, w \in Nat \ {0} :
            words = mm_end /\ w = WordBits /\ top = words * w
  BY ConstantsAssumption, WordsMonotone DEF TypeOK
<1>3. NoPage \in Nat /\ \A p \in Scanned : p \in Nat /\ p < top /\ p < NoPage
  BY <1>2, ScannedPages
<1>4. \A i \in 1 .. words, x \in Accs : step[<<i, x>>] = Word(x, i)
  BY <1>2 DEF step
<1>5. ASSUME NEW i \in 1 .. words, NEW x \in Accs PROVE Word(x, i) \in Accs
  <2>1. i - 1 \in Nat /\ w \in 0 .. w
    BY <1>2
  <2>2. PICK j \in Nat : j = i - 1
    BY <2>1
  <2>3. PICK f \in [0 .. WordBits -> Accs] : SearchWord(n, x, j) =
                IF InFullWord(pmm, j * WordBits) THEN x ELSE f[WordBits]
    BY WordLoop
  <2>4. QED BY <1>2, <2>1, <2>2, <2>3
<1>6. step \in [(1 .. words) \X Accs -> Accs]
  <2> HIDE DEF Word
  <2>1. QED BY <1>2, <1>5 DEF step
<1>7. \A i, x : Word(x, i) = SearchWord(n, x, i - 1)
  BY DEF Word
<1>8. Searched(none, 0, n)
  <2>1. none \in Accs /\ none.contiguous = 0 /\ none.ret = NoPage
    BY <1>3 DEF Accs
  <2>2. Cardinality(Scanned \cap (0 .. 0 - 1)) = 0
    <3>1. Scanned \cap (0 .. 0 - 1) = {}
      OBVIOUS
    <3>2. QED BY <3>1, FS_EmptySet
  <2> HIDE DEF none
  <2>3. Counting(none, 0, 0, n)
    BY <1>3, <2>1, <2>2 DEF Counting
  <2>4. QED BY <2>1, <2>3 DEF Searched
<1>9. after = CHOOSE f : f = [i \in 0 .. words |->
                        IF i = 0 THEN none ELSE Word(f[i - 1], i)]
  BY <1>2 DEF after
<1> HIDE DEF none, Word, step, after
<1>10. none \in Accs
  BY <1>8 DEF Searched
<1>11. PICK f : IsLoop(f, Accs, none, words, step)
  BY <1>6, <1>10, LoopExists
<1>12. f = [i \in 0 .. words |-> IF i = 0 THEN none ELSE Word(f[i - 1], i)]
  <2>1. ASSUME NEW i \in 1 .. words
        PROVE  f[i] = Word(f[i - 1], i)
    <3>1. f[i - 1] \in Accs
      BY <1>11 DEF IsLoop
    <3>2. QED BY <1>4, <1>11, <3>1 DEF IsLoop
  <2>2. QED BY <1>11, <2>1 DEF IsLoop
<1>13. after = [i \in 0 .. words |-> IF i = 0 THEN none ELSE Word(after[i - 1], i)]
  BY <1>9, <1>12
<1> DEFINE S == {i \in 0 .. words : Searched(after[i], i * w, n)}
<1>14. 0 \in S
  BY <1>8, <1>13
<1>15. ASSUME NEW i \in 1 .. words, i - 1 \in S
       PROVE  i \in S
  <2>1. i \in 0 .. words /\ i # 0 /\ i - 1 \in 0 .. words - 1 /\ (i - 1) + 1 = i
    OBVIOUS
  <2>2. after[i] = SearchWord(n, after[i - 1], i - 1)
    BY <1>7, <1>13, <2>1
  <2>3. Searched(after[i - 1], (i - 1) * w, n)
    BY <1>15
  <2>4. PICK j \in 0 .. mm_end - 1 : j = i - 1
    BY <1>2, <2>1
  <2>5. Searched(after[i], (j + 1) * w, n)
    BY <1>2, <2>2, <2>3, <2>4, WordSearched
  <2>6. QED BY <2>1, <2>4, <2>5
<1>16. words \in S
  <2>1. S \in SUBSET (0 .. words)
    OBVIOUS
  <2> HIDE DEF S
  <2>2. QED BY <1>14, <1>15, <2>1, AllRounds
<1>17. PICK acc : acc = after[words] /\ Searched(acc, top, n)
  BY <1>2, <1>16
<1>18. CASE acc.ret # NoPage
  <2>1. acc.ret \in Starts(n) /\ acc.ret \in Nat
        /\ \A t \in Starts(n) : acc.ret <= t
    BY <1>17, <1>18 DEF Searched, Found, Accs
  <2>2. \A t \in Starts(n) : t \in Nat
    BY <1>3 DEF Starts
  <2>3. FirstStart(n) \in Starts(n) /\ \A t \in Starts(n) : FirstStart(n) <= t
    BY <2>1 DEF FirstStart
  <2>4. FirstStart(n) = acc.ret
    BY <2>1, <2>2, <2>3
  <2>5. QED BY <1>1, <1>2, <1>17, <2>1, <2>4
<1>19. CASE acc.ret = NoPage
  <2>1. PICK first \in Nat : Counting(acc, first, top, n)
    BY <1>17, <1>19 DEF Searched
  <2>2. \A s, e \in Scanned : s <= e => ~ IsRun(s, e, n)
    BY <1>3, <2>1 DEF Counting
  <2>3. Starts(n) = {}
    BY <2>2 DEF Starts
  <2>4. QED BY <1>1, <1>2, <1>17, <1>19, <2>3
<1>20. QED BY <1>18, <1>19

(* The closed form of the search, on which the other theorems and modules  *)
(* rest, is what the loop of phys_malloc computes in every state, blocks   *)
(* given back included, whatever number of pages is asked for              *)
(* (physmem.c:105-141).                                                    *)
THEOREM SearchIsAsCoded == SpecWithFree => []SearchAgrees
<1>1. TypeOK => SearchAgrees
  <2> SUFFICES ASSUME TypeOK, NEW n \in 0 .. NoPage
               PROVE  SearchLoop(n) =
                        IF Starts(n) = {} THEN NoPage ELSE FirstStart(n)
    BY DEF SearchAgrees
  <2>1. n \in Nat
    BY ScannedPages
  <2>2. QED BY <2>1, SearchIsLoop
<1>2. Init => TypeOK
  BY InitIInv DEF IInv
<1>3. QED BY <1>1, <1>2, TypeWithFree, PTL DEF SpecWithFree
=============================================================================
