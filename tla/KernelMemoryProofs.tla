------------------------- MODULE KernelMemoryProofs -------------------------
(***************************************************************************)
(* kmain's memory management for every memory map, every set of devices    *)
(* and every size of a word, a table and the scratch block.                *)
(***************************************************************************)
EXTENDS KernelMemory, NatLemmas, TLAPS

-----------------------------------------------------------------------------
(* The steps of kmain. *)

StepsOf(q) == {q[i] : i \in DOMAIN q}

UseOf(pages) == [do |-> "use", pages |-> pages]
MallocOf(size) == [do |-> "malloc", size |-> size]

Step == [do : {"map"}, page : MappedPages]
        \cup [do : {"use"}, pages : SUBSET Addressable]
        \cup [do : {"malloc"}, size : {ScratchPages * PageSize}]
        \cup [do : {"must"}, holds : BOOLEAN]
        \cup [do : {"heap"}]

(* Steps behind virtmem_init's phys_malloc, and all steps of kmain.        *)
Late(q) == q \in Seq(Step) /\ \A s \in StepsOf(q) : s.do # "malloc"
Early(q) == /\ q \in Seq(Step) /\ q # << >>
            /\ q[1] = MallocOf(ScratchPages * PageSize)
            /\ Late(Tail(q))

(* What the assumptions say of the constants, in one place. *)
LEMMA Constants ==
    /\ NumIndex \in Nat \ {0} /\ Index = 0 .. NumIndex - 1
    /\ KernelP4 \in Index /\ KernelP3 \in Index /\ KernelSize = NumIndex
    /\ PageSize \in Nat \ {0} /\ LowPages \in Nat \ {0} /\ LowPages < IntBits
    /\ ScratchPages \in Nat \ {0} /\ FbPages \in Nat
    /\ WordBits \in Nat \ {0}
    /\ None \notin [page : Nat, n : Nat] /\ None \notin Nat
<1>1. KernelP4 \in Index /\ KernelP3 \in Index /\ None \notin Nat
  BY ComponentsAssumption DEF PT!PageTablesAssumption
<1>2. NumIndex \in Nat
  BY KernelMemoryAssumption, FS_CardinalityType DEF NumIndex
<1>3. Index = 0 .. NumIndex - 1
  BY KernelMemoryAssumption
<1>4. NumIndex # 0
  BY <1>1, <1>2, <1>3
<1>5. /\ PageSize \in Nat \ {0} /\ LowPages \in Nat \ {0}
      /\ WordBits \in Nat \ {0}
      /\ None \notin [page : Nat, n : Nat]
  BY ComponentsAssumption DEF PM!ConstantsAssumption
<1>6. QED BY <1>1, <1>2, <1>3, <1>4, <1>5, KernelMemoryAssumption DEF KernelSize

(* An init function that goes on with another one has the steps of the     *)
(* first and then those of the second.                                     *)
LEMMA ConcatOf ==
    ASSUME NEW a \in Seq(Step), NEW b \in Seq(Step)
    PROVE  /\ a \o b \in Seq(Step) /\ Len(a \o b) = Len(a) + Len(b)
           /\ \A i \in 1 .. Len(a) + Len(b) : (a \o b)[i] =
                IF i <= Len(a) THEN a[i] ELSE b[i - Len(a)]
  OBVIOUS

(* Two init functions that ask for no pages, one after the other, ask for  *)
(* none, and take the steps of both.                                       *)
LEMMA ConcatLate ==
    ASSUME NEW a, NEW b, Late(a), Late(b)
    PROVE  Late(a \o b) /\ StepsOf(a \o b) = StepsOf(a) \cup StepsOf(b)
<1> DEFINE c == a \o b
<1>1. a \in Seq(Step) /\ b \in Seq(Step)
  BY DEF Late
<1>2. /\ c \in Seq(Step) /\ Len(c) = Len(a) + Len(b)
      /\ \A i \in 1 .. Len(a) : c[i] = a[i]
      /\ \A i \in 1 .. Len(b) : c[Len(a) + i] = b[i]
      /\ Len(a) \in Nat /\ Len(b) \in Nat
      /\ DOMAIN a = 1 .. Len(a) /\ DOMAIN b = 1 .. Len(b)
      /\ DOMAIN c = 1 .. Len(a) + Len(b)
  BY <1>1
<1> HIDE DEF c
<1>3. StepsOf(c) \subseteq StepsOf(a) \cup StepsOf(b)
  <2>1. ASSUME NEW i \in 1 .. Len(a) + Len(b)
        PROVE  c[i] \in StepsOf(a) \cup StepsOf(b)
    <3>1. CASE i <= Len(a)
      BY <1>2, <3>1 DEF StepsOf
    <3>2. CASE i > Len(a)
      <4>1. PICK j \in 1 .. Len(b) : i = Len(a) + j
        <5>1. i - Len(a) \in 1 .. Len(b) /\ i = Len(a) + (i - Len(a))
          BY <1>2, <3>2
        <5>2. QED BY <5>1
      <4>2. QED BY <1>2, <4>1 DEF StepsOf
    <3>3. QED BY <1>2, <3>1, <3>2
  <2>2. QED BY <1>2, <2>1 DEF StepsOf
<1>4. StepsOf(a) \subseteq StepsOf(c)
  <2>1. \A i \in 1 .. Len(a) : i \in 1 .. Len(a) + Len(b)
    BY <1>2
  <2>2. QED BY <1>2, <2>1 DEF StepsOf
<1>5. StepsOf(b) \subseteq StepsOf(c)
  <2>1. \A i \in 1 .. Len(b) : Len(a) + i \in 1 .. Len(a) + Len(b)
    BY <1>2
  <2>2. QED BY <1>2, <2>1 DEF StepsOf
<1>6. QED BY <1>2, <1>3, <1>4, <1>5 DEF Late, c

(* A step taken is off todo, and all others are still there. *)
LEMMA TailSteps ==
    ASSUME NEW q \in Seq(Step), q # << >>
    PROVE  /\ Tail(q) \in Seq(Step) /\ q[1] \in Step /\ q[1] \in StepsOf(q)
           /\ StepsOf(q) = {q[1]} \cup StepsOf(Tail(q))
<1> DEFINE t == Tail(q)
<1>1. /\ t \in Seq(Step) /\ Len(q) \in Nat \ {0} /\ Len(t) = Len(q) - 1
      /\ \A i \in 1 .. Len(q) - 1 : t[i] = q[i + 1]
      /\ DOMAIN q = 1 .. Len(q) /\ DOMAIN t = 1 .. Len(q) - 1
      /\ q[1] \in Step
  OBVIOUS
<1> HIDE DEF t
<1>2. ASSUME NEW i \in 1 .. Len(q) PROVE q[i] \in {q[1]} \cup StepsOf(t)
  <2>1. CASE i = 1
    BY <2>1
  <2>2. CASE i # 1
    <3>1. i - 1 \in 1 .. Len(q) - 1 /\ (i - 1) + 1 = i
      BY <1>1, <2>2
    <3>2. t[i - 1] = q[i]
      BY <1>1, <3>1
    <3>3. QED BY <1>1, <3>1, <3>2 DEF StepsOf
  <2>3. QED BY <2>1, <2>2
<1>3. ASSUME NEW i \in 1 .. Len(q) - 1 PROVE t[i] \in StepsOf(q)
  <2>1. i + 1 \in 1 .. Len(q) /\ t[i] = q[i + 1]
    BY <1>1
  <2>2. QED BY <1>1, <2>1 DEF StepsOf
<1>4. 1 \in 1 .. Len(q)
  BY <1>1
<1>5. q[1] \in StepsOf(q)
  BY <1>1, <1>4 DEF StepsOf
<1>6. QED BY <1>1, <1>2, <1>3, <1>5 DEF StepsOf, t

(* Init functions with the same steps in the same order are the same.      *)
LEMMA SeqEqualOf ==
    ASSUME NEW a \in Seq(Step), NEW b \in Seq(Step), Len(a) = Len(b),
           \A i \in 1 .. Len(a) : a[i] = b[i]
    PROVE  a = b
  OBVIOUS

(* What follows virtmem_init leaves its phys_malloc the first and only one *)
(* (virtmem.c:157).                                                        *)
LEMMA ConcatEarly ==
    ASSUME NEW a, NEW b, Early(a), Late(b)
    PROVE  Early(a \o b) /\ StepsOf(a \o b) = StepsOf(a) \cup StepsOf(b)
<1> DEFINE t == Tail(a)
           c == a \o b
<1>1. /\ a \in Seq(Step) /\ b \in Seq(Step) /\ a # << >> /\ Late(t)
      /\ a[1] = MallocOf(ScratchPages * PageSize)
  BY DEF Early, Late
<1>2. Late(t \o b) /\ StepsOf(t \o b) = StepsOf(t) \cup StepsOf(b)
  BY <1>1, ConcatLate DEF Early
<1>3. /\ c \in Seq(Step) /\ Len(a) \in Nat \ {0} /\ Len(b) \in Nat
      /\ Len(c) = Len(a) + Len(b) /\ c[1] = a[1] /\ c # << >>
  BY <1>1
<1>4. Tail(c) = t \o b
  <2>1. /\ Tail(c) \in Seq(Step) /\ Len(Tail(c)) = Len(a) + Len(b) - 1
        /\ \A i \in 1 .. Len(a) + Len(b) - 1 : Tail(c)[i] = c[i + 1]
    BY <1>3
  <2>2. /\ t \in Seq(Step) /\ Len(t) = Len(a) - 1
        /\ \A i \in 1 .. Len(a) - 1 : t[i] = a[i + 1]
    BY <1>1, <1>3
  <2>3. \A i \in 1 .. Len(a) + Len(b) : c[i] =
            IF i <= Len(a) THEN a[i] ELSE b[i - Len(a)]
    BY <1>1
  <2> HIDE DEF c, t
  <2>4. /\ t \o b \in Seq(Step) /\ Len(t \o b) = Len(a) - 1 + Len(b)
        /\ \A i \in 1 .. Len(a) - 1 + Len(b) : (t \o b)[i] =
            IF i <= Len(a) - 1 THEN t[i] ELSE b[i - (Len(a) - 1)]
    <3>1. /\ t \o b \in Seq(Step) /\ Len(t \o b) = Len(t) + Len(b)
          /\ \A i \in 1 .. Len(t) + Len(b) : (t \o b)[i] =
                IF i <= Len(t) THEN t[i] ELSE b[i - Len(t)]
      BY <1>1, <2>2, ConcatOf
    <3>2. QED BY <2>2, <3>1
  <2>5. ASSUME NEW i \in 1 .. Len(a) + Len(b) - 1
        PROVE  Tail(c)[i] = (t \o b)[i]
    <3>1. /\ i + 1 \in 1 .. Len(a) + Len(b) /\ i \in 1 .. Len(a) - 1 + Len(b)
          /\ i - (Len(a) - 1) = (i + 1) - Len(a)
          /\ i <= Len(a) - 1 <=> i + 1 <= Len(a)
      BY <1>3
    <3>2. i <= Len(a) - 1 => i \in 1 .. Len(a) - 1
      BY <1>3
    <3>3. QED BY <2>1, <2>2, <2>3, <2>4, <3>1, <3>2
  <2>6. Len(Tail(c)) = Len(t \o b) /\ Len(Tail(c)) = Len(a) + Len(b) - 1
    BY <1>3, <2>1, <2>4
  <2>7. QED BY <2>1, <2>4, <2>5, <2>6, SeqEqualOf
<1>5. Early(c)
  BY <1>1, <1>2, <1>3, <1>4 DEF Early
<1>6. StepsOf(c) = StepsOf(a) \cup StepsOf(b)
  <2>1. /\ StepsOf(a) = {a[1]} \cup StepsOf(t)
        /\ StepsOf(c) = {c[1]} \cup StepsOf(Tail(c))
    BY <1>1, <1>3, TailSteps
  <2>2. QED BY <1>2, <1>3, <1>4, <2>1
<1>7. QED BY <1>5, <1>6

(* An init function of one step.                                           *)
LEMMA Single ==
    ASSUME NEW s \in Step, s.do # "malloc"
    PROVE  Late(<<s>>) /\ StepsOf(<<s>>) = {s}
<1>1. <<s>> \in Seq(Step) /\ DOMAIN <<s>> = {1} /\ <<s>>[1] = s
  OBVIOUS
<1>2. StepsOf(<<s>>) = {s}
  BY <1>1 DEF StepsOf
<1>3. QED BY <1>1, <1>2 DEF Late

(* Reading or writing pages is one step, that asks for none. *)
LEMMA UseStep ==
    ASSUME NEW pages \in SUBSET Addressable
    PROVE  Late(Use(pages)) /\ StepsOf(Use(pages)) = {UseOf(pages)}
  BY Single DEF Use, UseOf, Step

(* A call of virt_map_page is one step here, its block of tables aside.    *)
LEMMA MapStep ==
    ASSUME NEW page \in MappedPages
    PROVE  /\ Late(Map(page))
           /\ StepsOf(Map(page)) = {[do |-> "map", page |-> page]}
  BY Single DEF Map, Step

(* An assertion is one step, that asks for no page. *)
LEMMA MustStep ==
    ASSUME NEW holds \in BOOLEAN
    PROVE  Late(Must(holds))
  BY Single DEF Must, Step

(* Nor does the heap.                                                      *)
LEMMA HeapStep == Late(UseHeap)
  BY Single DEF UseHeap, Step

(* Every page that kmain maps or uses is one that a pointer reaches.       *)
LEMMA Pages ==
    ASSUME NEW m \in Machines
    PROVE  /\ {m.xsdt, m.lapic, m.ioapic, m.hpet} \subseteq Addressable
           /\ {m.xsdt, m.lapic, m.ioapic} \subseteq MappedPages
           /\ Len(m.tables) \in Nat /\ DOMAIN m.tables = 1 .. Len(m.tables)
           /\ \A i \in DOMAIN m.tables :
                m.tables[i].page \in MappedPages \cap Addressable
           /\ \A f \in {NoFb, m.fb} :
                /\ f.addr \in Nat /\ f.size \in Nat
                /\ FbUsed(f) \subseteq Addressable
                /\ \A i \in 1 .. FbPages :
                    PageOf(f.addr) + i - 1 \in MappedPages \cap Addressable
<1>1. MayMap(m) \subseteq MappedPages
  BY DEF MappedPages
<1>2. /\ m.fb \in [addr : Nat, size : Nat]
      /\ (m.fb.addr + m.fb.size) \div PageSize + FbPages \in Addressable
      /\ m.tables \in Seq([sig : STRING, page : Addressable])
      /\ {m.xsdt, m.lapic, m.ioapic, m.hpet} \subseteq Addressable
  BY MachinesAssumption
<1>3. {m.xsdt, m.lapic, m.ioapic} \subseteq MappedPages
  BY <1>1 DEF MayMap
<1>4. /\ Len(m.tables) \in Nat /\ DOMAIN m.tables = 1 .. Len(m.tables)
      /\ \A i \in DOMAIN m.tables :
            m.tables[i].page \in MappedPages \cap Addressable
  <2> DEFINE T == [sig : STRING, page : Addressable]
  <2>1. \A t \in T : t.page \in Addressable
    OBVIOUS
  <2> HIDE DEF T
  <2>2. /\ Len(m.tables) \in Nat /\ DOMAIN m.tables = 1 .. Len(m.tables)
        /\ \A i \in DOMAIN m.tables : m.tables[i] \in T
    <3>1. m.tables \in Seq(T)
      BY <1>2 DEF T
    <3>2. QED BY <3>1
  <2>3. \A i \in DOMAIN m.tables : m.tables[i].page \in MayMap(m)
    BY DEF MayMap
  <2>4. QED BY <1>1, <2>1, <2>2, <2>3
<1>5. PICK top \in Nat, ps \in Nat \ {0} :
            /\ ps = PageSize
            /\ top = (m.fb.addr + m.fb.size) \div ps
            /\ top + FbPages \in Addressable
  <2>1. PICK ps \in Nat \ {0} : ps = PageSize
    BY Constants
  <2>2. m.fb.addr + m.fb.size \in Nat
    BY <1>2
  <2>3. (m.fb.addr + m.fb.size) \div ps \in Nat
    BY <2>2, DivMod
  <2>4. QED BY <1>2, <2>1, <2>3
<1>6. \A p \in Nat : p <= top + FbPages => p \in Addressable
  <2>1. PICK a : a = KernelP4 * NumIndex * NumIndex
    OBVIOUS
  <2>2. a \in Nat
    <3>1. KernelP4 \in Nat /\ NumIndex \in Nat
      BY Constants
    <3>2. KernelP4 * NumIndex \in Nat
      BY <3>1, WordsMonotone
    <3>3. QED BY <2>1, <3>1, <3>2, WordsMonotone
  <2>3. Addressable = 0 .. a - 1
    BY <2>1 DEF Addressable
  <2>4. top + FbPages \in 0 .. a - 1 /\ FbPages \in Nat
    BY <1>5, <2>3, Constants
  <2>5. QED BY <2>2, <2>3, <2>4
<1>7. ASSUME NEW f \in {NoFb, m.fb}
      PROVE  /\ f.addr \in Nat /\ f.size \in Nat
             /\ \A addr \in f.addr .. f.addr + f.size - 1 :
                    addr \in Nat /\ addr \div ps \in Nat /\ addr \div ps <= top
             /\ PageOf(f.addr) \in Nat /\ PageOf(f.addr) <= top
  <2>1. CASE f = NoFb
    <3>1. f.addr = 0 /\ f.size = 0
      BY <2>1 DEF NoFb
    <3>2. 0 \div ps = 0
      OBVIOUS
    <3>3. QED BY <1>5, <3>1, <3>2 DEF PageOf
  <2>2. CASE f = m.fb
    <3>1. f.addr \in Nat /\ f.size \in Nat
      BY <1>2, <2>2
    <3>2. ASSUME NEW addr \in Nat, addr <= f.addr + f.size
          PROVE  addr \div ps \in Nat /\ addr \div ps <= top
      <4>1. f.addr + f.size \in Nat
        BY <3>1
      <4>2. addr \div ps <= (f.addr + f.size) \div ps
        BY <3>2, <4>1, DivMonotone
      <4>3. QED BY <1>5, <2>2, <4>2, DivMod
    <3>3. \A addr \in f.addr .. f.addr + f.size - 1 :
                addr \in Nat /\ addr <= f.addr + f.size
      BY <3>1
    <3>4. f.addr <= f.addr + f.size
      BY <3>1
    <3>5. PageOf(f.addr) = f.addr \div ps
      BY <1>5 DEF PageOf
    <3>6. QED BY <3>1, <3>2, <3>3, <3>4, <3>5
  <2>3. QED BY <2>1, <2>2
<1>8. ASSUME NEW f \in {NoFb, m.fb}
      PROVE  /\ FbUsed(f) \subseteq Addressable
             /\ \A i \in 1 .. FbPages :
                    PageOf(f.addr) + i - 1 \in MappedPages \cap Addressable
  <2>1. FbUsed(f) \subseteq Addressable
    <3>1. ASSUME NEW addr \in f.addr .. f.addr + f.size - 1
          PROVE  PageOf(addr) \in Addressable
      <4>1. addr \div ps \in Nat /\ addr \div ps <= top + FbPages
        <5>1. addr \div ps \in Nat /\ addr \div ps <= top
          BY <1>7
        <5>2. \A u \in Nat : u <= top => u <= top + FbPages
          BY Constants
        <5>3. QED BY <5>1, <5>2
      <4>2. QED BY <1>5, <1>6, <4>1 DEF PageOf
    <3>2. QED BY <3>1 DEF FbUsed
  <2>2. ASSUME NEW i \in 1 .. FbPages
        PROVE  PageOf(f.addr) + i - 1 \in MappedPages \cap Addressable
    <3>1. PageOf(f.addr) + i - 1 \in Nat
          /\ PageOf(f.addr) + i - 1 <= top + FbPages
      <4>1. PICK u \in Nat : u = PageOf(f.addr) /\ u <= top
        BY <1>7
      <4>2. u + i - 1 \in Nat /\ u + i - 1 <= top + FbPages
        BY <4>1, Constants
      <4>3. QED BY <4>1, <4>2
    <3>2. PageOf(f.addr) + i - 1 \in MayMap(m)
      BY DEF MayMap
    <3>3. QED BY <1>1, <1>6, <3>1, <3>2
  <2>3. QED BY <2>1, <2>2
<1>9. QED BY <1>2, <1>3, <1>4, <1>7, <1>8

(* What virtmem_init takes first, before it maps the framebuffer.          *)
LEMMA VirtmemSteps ==
    ASSUME NEW m \in Machines, NEW f \in {NoFb, m.fb}
    PROVE  Early(virtmem_init(f))
<1>1. Early(Malloc(ScratchPages * PageSize))
  <2> DEFINE s == MallocOf(ScratchPages * PageSize)
  <2>1. s \in Step
    BY DEF Step, MallocOf
  <2> HIDE DEF s
  <2>2. /\ <<s>> \in Seq(Step) /\ <<s>> # << >>
        /\ <<s>>[1] = s /\ Tail(<<s>>) = << >>
    BY <2>1
  <2>3. Late(<< >>)
    BY DEF Late, StepsOf
  <2>4. Early(<<s>>)
    BY <2>2, <2>3 DEF Early, s
  <2>5. Malloc(ScratchPages * PageSize) = <<s>>
    BY DEF Malloc, MallocOf, s
  <2>6. QED BY <2>4, <2>5
<1> DEFINE maps == [i \in 1 .. FbPages |-> Map(PageOf(f.addr) + i - 1)[1]]
<1>2. Late(maps)
  <2>1. ASSUME NEW i \in 1 .. FbPages
        PROVE  maps[i] \in Step /\ maps[i].do # "malloc"
    <3>1. PICK p \in MappedPages : p = PageOf(f.addr) + i - 1
      BY Pages
    <3>2. maps[i] = [do |-> "map", page |-> p]
      BY <3>1 DEF Map
    <3>3. [do |-> "map", page |-> p] \in Step
      BY DEF Step
    <3>4. QED BY <3>2, <3>3
  <2>2. DOMAIN maps = 1 .. FbPages /\ FbPages \in Nat
    BY Constants
  <2>3. maps \in Seq(Step)
    <3>1. maps \in [1 .. FbPages -> Step]
      BY <2>1
    <3> HIDE DEF maps
    <3>2. QED BY <2>2, <3>1
  <2>4. QED BY <2>1, <2>2, <2>3 DEF Late, StepsOf
<1>3. Late(Must(f.size < FbPages * PageSize))
  <2> DEFINE holds == f.size < FbPages * PageSize
  <2>1. holds \in BOOLEAN
    OBVIOUS
  <2> HIDE DEF holds
  <2>2. Late(Must(holds))
    BY <2>1, MustStep
  <2>3. QED BY <2>2 DEF holds
<1>4. QED BY <1>1, <1>2, <1>3, ConcatEarly DEF virtmem_init

(* A search for a table of ACPI takes nothing.                             *)
LEMMA FindSteps ==
    ASSUME NEW m \in Machines, NEW sig
    PROVE  Late(acpi_find_tbl(m, sig))
<1> DEFINE pages == {m.tables[i].page : i \in {j \in DOMAIN m.tables :
                                    \A k \in Found(m, sig) : j <= k}}
<1>1. pages \in SUBSET Addressable
  BY Pages
<1>2. Late(Must(Found(m, sig) # {}))
  BY MustStep
<1> HIDE DEF pages
<1>3. Late(Use(pages))
  BY <1>1, UseStep
<1>4. QED BY <1>2, <1>3, ConcatLate DEF acpi_find_tbl, pages

(* The HPET's driver uses its registers, whatever it maps before.          *)
LEMMA HpetSteps ==
    ASSUME NEW m \in Machines
    PROVE  Late(hpet_init(m)) /\ UseOf({m.hpet}) \in StepsOf(hpet_init(m))
<1> DEFINE maps == IF Found(m, "HPET") = {} THEN << >>
                   ELSE Map(m.tables[CHOOSE i \in Found(m, "HPET") : TRUE].page)
<1>1. Late(maps)
  <2>1. CASE Found(m, "HPET") = {}
    BY <2>1 DEF Late, StepsOf
  <2>2. CASE Found(m, "HPET") # {}
    <3>1. PICK i \in DOMAIN m.tables : i = CHOOSE j \in Found(m, "HPET") : TRUE
      BY <2>2 DEF Found
    <3>2. m.tables[i].page \in MappedPages
      BY Pages
    <3>3. maps = Map(m.tables[i].page)
      BY <2>2, <3>1
    <3>4. QED BY <3>2, <3>3, MapStep
  <2>3. QED BY <2>1, <2>2
<1>2. Late(acpi_find_tbl(m, "HPET"))
  BY FindSteps
<1>3. Late(Use({m.hpet})) /\ StepsOf(Use({m.hpet})) = {UseOf({m.hpet})}
  BY Pages, UseStep
<1> HIDE DEF maps
<1>4. Late(acpi_find_tbl(m, "HPET") \o maps)
  BY <1>1, <1>2, ConcatLate
<1>5. /\ Late(acpi_find_tbl(m, "HPET") \o maps \o Use({m.hpet}))
      /\ UseOf({m.hpet}) \in StepsOf(acpi_find_tbl(m, "HPET") \o maps
                                        \o Use({m.hpet}))
  BY <1>3, <1>4, ConcatLate
<1>6. QED BY <1>5 DEF hpet_init, maps

(* The drivers use their devices only after they have mapped something.    *)
LEMMA DriverSteps ==
    ASSUME NEW m \in Machines, NEW revision \in {None, 0, 2}
    PROVE  /\ Late(acpi_init(m, revision))
           /\ Late(apic_init(m)) /\ UseOf({m.lapic}) \in StepsOf(apic_init(m))
           /\ Late(ioapic_init(m))
           /\ UseOf({m.ioapic}) \in StepsOf(ioapic_init(m))
<1>1. /\ {m.xsdt} \in SUBSET Addressable /\ {m.lapic} \in SUBSET Addressable
      /\ {m.ioapic} \in SUBSET Addressable
      /\ m.xsdt \in MappedPages /\ m.lapic \in MappedPages
      /\ m.ioapic \in MappedPages
  BY Pages
<1>2. /\ Late(Use({m.xsdt})) /\ Late(Use({m.lapic})) /\ Late(Use({m.ioapic}))
      /\ StepsOf(Use({m.lapic})) = {UseOf({m.lapic})}
      /\ StepsOf(Use({m.ioapic})) = {UseOf({m.ioapic})}
      /\ Late(Map(m.xsdt)) /\ Late(Map(m.lapic)) /\ Late(Map(m.ioapic))
  BY <1>1, UseStep, MapStep
<1>3. Late(acpi_init(m, revision))
  <2>1. Late(Must(revision # None)) /\ Late(Must(revision = 2))
    BY MustStep
  <2>2. Late(acpi_find_tbl(m, "APIC"))
    BY FindSteps
  <2>3. Late(Must(revision # None) \o Map(m.xsdt))
    BY <1>2, <2>1, ConcatLate
  <2>4. Late(Must(revision # None) \o Map(m.xsdt) \o Use({m.xsdt}))
    BY <1>2, <2>3, ConcatLate
  <2>5. Late(Must(revision # None) \o Map(m.xsdt) \o Use({m.xsdt})
                \o Must(revision = 2))
    BY <2>1, <2>4, ConcatLate
  <2>6. Late(Must(revision # None) \o Map(m.xsdt) \o Use({m.xsdt})
                \o Must(revision = 2) \o acpi_find_tbl(m, "APIC"))
    BY <2>2, <2>5, ConcatLate
  <2>7. QED BY <2>6, HeapStep, ConcatLate DEF acpi_init
<1>4. Late(apic_init(m)) /\ UseOf({m.lapic}) \in StepsOf(apic_init(m))
  <2>1. Late(UseHeap \o Map(m.lapic))
    BY <1>2, HeapStep, ConcatLate
  <2>2. QED BY <1>2, <2>1, ConcatLate, SMTT(20) DEF apic_init
<1>5. Late(ioapic_init(m)) /\ UseOf({m.ioapic}) \in StepsOf(ioapic_init(m))
  <2> DEFINE holds == m.ioapic \notin KernelSize .. 2 * KernelSize - 1
  <2>1. Late(Must(holds))
    BY MustStep
  <2> HIDE DEF holds
  <2>2. Late(UseHeap \o Must(holds))
    BY <2>1, HeapStep, ConcatLate
  <2>3. Late(UseHeap \o Must(holds) \o Map(m.ioapic))
    BY <1>2, <2>2, ConcatLate
  <2>4. /\ Late(UseHeap \o Must(holds) \o Map(m.ioapic) \o Use({m.ioapic}))
        /\ UseOf({m.ioapic}) \in StepsOf(UseHeap \o Must(holds)
                                    \o Map(m.ioapic) \o Use({m.ioapic}))
    BY <1>2, <2>3, ConcatLate
  <2>5. QED BY <2>4 DEF ioapic_init, holds
<1>6. QED BY <1>3, <1>4, <1>5

(* What the main loop and the handlers use, some step of kmain has used.   *)
LEMMA KmainSteps ==
    ASSUME NEW m \in Machines, NEW f \in {NoFb, m.fb},
           NEW revision \in {None, 0, 2}
    PROVE  /\ Early(kmain(m, f, revision))
           /\ {UseOf(FbUsed(f)), UseOf({m.lapic}), UseOf({m.ioapic}),
               UseOf({m.hpet})} \subseteq StepsOf(kmain(m, f, revision))
<1> DEFINE q0 == virtmem_init(f) \o UseHeap
           q1 == q0 \o Use(FbUsed(f))
           q2 == q1 \o acpi_init(m, revision)
           q3 == q2 \o apic_init(m)
           q4 == q3 \o ioapic_init(m)
           q5 == q4 \o hpet_init(m)
<1>1. Early(q1) /\ UseOf(FbUsed(f)) \in StepsOf(q1)
  <2>1. Late(Use(FbUsed(f))) /\ StepsOf(Use(FbUsed(f))) = {UseOf(FbUsed(f))}
    BY Pages, UseStep
  <2>2. Early(q0)
    BY VirtmemSteps, HeapStep, ConcatEarly
  <2> HIDE DEF q0
  <2>3. QED BY <2>1, <2>2, ConcatEarly
<1> HIDE DEF q1
<1>2. Early(q2) /\ StepsOf(q1) \subseteq StepsOf(q2)
  BY <1>1, DriverSteps, ConcatEarly
<1> HIDE DEF q2
<1>3. /\ Early(q3) /\ StepsOf(q2) \subseteq StepsOf(q3)
      /\ UseOf({m.lapic}) \in StepsOf(q3)
  BY <1>2, DriverSteps, ConcatEarly
<1> HIDE DEF q3
<1>4. /\ Early(q4) /\ StepsOf(q3) \subseteq StepsOf(q4)
      /\ UseOf({m.ioapic}) \in StepsOf(q4)
  BY <1>3, DriverSteps, ConcatEarly
<1> HIDE DEF q4
<1>5. /\ Early(q5) /\ StepsOf(q4) \subseteq StepsOf(q5)
      /\ UseOf({m.hpet}) \in StepsOf(q5)
  BY <1>4, HpetSteps, ConcatEarly
<1>6. q5 = kmain(m, f, revision)
  BY DEF kmain, q0, q1, q2, q3, q4
<1> HIDE DEF q5
<1>7. QED BY <1>1, <1>2, <1>3, <1>4, <1>5, <1>6

-----------------------------------------------------------------------------
(* Where the page tables have a device. *)

(* No two pages that a pointer reaches have the same indexes               *)
(* (virtmem.c:107-110).                                                    *)
LEMMA VirtOfPage ==
    ASSUME NEW p \in Addressable
    PROVE  /\ VirtOf(p) \in (Index \ {KernelP4}) \X Index \X Index
           /\ p = (VirtOf(p)[1] * NumIndex + VirtOf(p)[2]) * NumIndex
                    + VirtOf(p)[3]
<1>1. PICK n \in Nat \ {0}, k \in Nat :
            n = NumIndex /\ k = KernelP4 /\ k \in Index /\ Index = 0 .. n - 1
  BY Constants
<1>2. PICK d \in Nat, r \in 0 .. n - 1 :
            p \div n = d /\ p % n = r /\ p = d * n + r
  <2>1. p \in Nat
    BY DEF Addressable
  <2>2. p \div n \in Nat /\ p % n \in 0 .. n - 1
        /\ p = (p \div n) * n + (p % n)
    BY <2>1, DivMod
  <2>3. QED BY <2>2
<1>3. PICK e \in Nat, s \in 0 .. n - 1 :
            d \div n = e /\ d % n = s /\ d = e * n + s
  <2>1. d \div n \in Nat /\ d % n \in 0 .. n - 1
        /\ d = (d \div n) * n + (d % n)
    BY DivMod
  <2>2. QED BY <2>1
<1>4. PICK en \in Nat, nn \in Nat \ {0}, rest \in Nat :
            /\ en = e * n /\ nn = n * n /\ rest = s * n + r /\ rest < nn
            /\ p = e * nn + rest
  <2>1. s * n \in Nat /\ (s + 1) * n <= n * n /\ n * n \in Nat /\ e * n \in Nat
    BY WordsMonotone
  <2>2. s * n + r < n * n
    <3>1. (s + 1) * n = s * n + n
      OBVIOUS
    <3>2. QED BY <2>1, <3>1
  <2>3. p = (e * n + s) * n + r
    BY <1>2, <1>3
  <2>4. (e * n + s) * n = e * (n * n) + s * n
    OBVIOUS
  <2>5. n * n # 0
    BY <2>1
  <2>6. QED BY <2>1, <2>2, <2>3, <2>4, <2>5
<1>5. p \div nn = e
  <2>1. rest \in 0 .. nn - 1
    BY <1>4
  <2>2. QED BY <1>4, <2>1, DivModUnique
<1>6. e < k
  <2>1. p < k * nn
    <3>1. Addressable = 0 .. k * n * n - 1
      BY <1>1 DEF Addressable
    <3>2. k * n * n = k * nn /\ k * nn \in Nat
      <4>1. k * n * n = k * (n * n)
        OBVIOUS
      <4>2. QED BY <1>4, <4>1, WordsMonotone
    <3>3. QED BY <3>1, <3>2
  <2>2. SUFFICES ASSUME k <= e PROVE FALSE
    OBVIOUS
  <2>3. k * nn <= e * nn /\ e * nn \in Nat /\ k * nn \in Nat
    BY <2>2, WordsMonotone
  <2>4. QED BY <1>4, <2>1, <2>3
<1>7. VirtOf(p) = <<e, s, r>>
  BY <1>1, <1>2, <1>3, <1>4, <1>5 DEF VirtOf
<1>8. e \in Index \ {KernelP4} /\ s \in Index /\ r \in Index
  BY <1>1, <1>6
<1>9. p = (e * n + s) * n + r
  BY <1>2, <1>3
<1>10. QED BY <1>1, <1>7, <1>8, <1>9

(* So two devices are mapped by two entries of the tables                  *)
(* (virtmem.c:107-110).                                                    *)
LEMMA VirtOfInjective ==
    ASSUME NEW p \in Addressable, NEW q \in Addressable, VirtOf(p) = VirtOf(q)
    PROVE  p = q
  BY VirtOfPage

(* All that an init function maps has such indexes (virtmem.c:157-175).    *)
LEMMA MappedAddressable == MappedPages \subseteq Addressable
<1>1. ASSUME NEW m \in Machines PROVE MayMap(m) \subseteq Addressable
  BY Pages DEF MayMap
<1>2. QED BY <1>1 DEF MappedPages

-----------------------------------------------------------------------------
(* The inductive invariant: the allocator's and the page tables' own, and  *)
(* each thing that the main loop and the handlers use is mapped, or a step *)
(* that kmain has yet to take uses it.                                     *)

UsesLater(m, f) ==
    {UseOf(FbUsed(f)), UseOf({m.lapic}), UseOf({m.ioapic}), UseOf({m.hpet})}

Covered == \A s \in UsesLater(machine, fb) :
                s \in StepsOf(todo) \/ Reachable(s.pages)

BootInv ==
    /\ machine \in Machines
    /\ fb \in {NoFb, machine.fb}
    /\ rsdp \in {None, 0, 2}
    /\ todo \in Seq(Step)
    /\ stage \in {"init", "run"} => Covered
    /\ stage = "run" => todo = << >>
    /\ PM!IInv
    /\ PT!TablesInv

(* What is reached stays so when every page keeps its translation, or gets *)
(* that of the device there.                                               *)
LEMMA ReachableStays ==
    ASSUME NEW pages \in SUBSET Addressable, Reachable(pages),
           \A p \in Addressable :
                PT!Translate(VirtOf(p))' \in {p, PT!Translate(VirtOf(p))}
    PROVE  Reachable(pages)'
<1>1. ASSUME NEW p \in pages PROVE PT!Translate(VirtOf(p))' = p
  BY DEF Reachable
<1>2. QED BY <1>1 DEF Reachable

(* All that is used later is where a pointer reaches it.                   *)
LEMMA UsesAddressable ==
    ASSUME NEW m \in Machines, NEW f \in {NoFb, m.fb}, NEW s \in UsesLater(m, f)
    PROVE  s.pages \in SUBSET Addressable
<1>1. /\ FbUsed(f) \in SUBSET Addressable /\ {m.lapic} \in SUBSET Addressable
      /\ {m.ioapic} \in SUBSET Addressable /\ {m.hpet} \in SUBSET Addressable
  BY Pages
<1>2. \A pages : UseOf(pages).pages = pages
  BY DEF UseOf
<1>3. QED BY <1>1, <1>2 DEF UsesLater

(* What the loop and the handlers need stays mapped, or ahead, through a   *)
(* step that leaves the other uses on todo (kernel.c:165).                 *)
LEMMA CoveredStays ==
    ASSUME BootInv, Covered, UNCHANGED <<machine, fb>>,
           \A s \in UsesLater(machine, fb) :
                s \in StepsOf(todo)
                    => s \in StepsOf(todo)' \/ Reachable(s.pages)',
           \A p \in Addressable :
                PT!Translate(VirtOf(p))' \in {p, PT!Translate(VirtOf(p))}
    PROVE  Covered'
<1>1. ASSUME NEW s \in UsesLater(machine, fb)
      PROVE  s \in StepsOf(todo') \/ Reachable(s.pages)'
  <2>1. s.pages \in SUBSET Addressable
    BY UsesAddressable DEF BootInv
  <2>2. CASE s \in StepsOf(todo)
    BY <2>2 DEF StepsOf
  <2>3. CASE Reachable(s.pages)
    BY <2>1, <2>3, ReachableStays
  <2>4. QED BY <2>2, <2>3 DEF Covered
<1>2. UsesLater(machine', fb') = UsesLater(machine, fb)
  OBVIOUS
<1>3. QED BY <1>1, <1>2 DEF Covered

(* The allocator and the page tables take steps of their own.              *)
LEMMA PhysStep ==
    ASSUME PM!IInv, [PM!Next]_(PM!vars)
    PROVE  PM!IInv'
  BY PM!NextIInv, ComponentsAssumption

(* A step without the allocator leaves its invariant alone. *)
LEMMA PhysStays ==
    ASSUME PM!IInv, UNCHANGED physVars
    PROVE  PM!IInv'
  BY PhysStep DEF PM!vars, physVars

(* A step without the page tables changes no translation. *)
LEMMA TablesStay ==
    ASSUME PT!Enough, PT!TablesInv, UNCHANGED tableVars
    PROVE  /\ PT!TablesInv' /\ cur' = cur
           /\ \A p \in Addressable :
                PT!Translate(VirtOf(p))' = PT!Translate(VirtOf(p))
<1>1. UNCHANGED PT!vars
  BY DEF PT!vars, tableVars
<1>2. PT!TablesInv' /\ cur' = cur
      /\ \A q : PT!Translate(q)' = PT!Translate(q)
  BY <1>1, PT!Undisturbed, ComponentsAssumption
<1>3. QED BY <1>2

(* Each phys_malloc of kmain is one that PhysMem allows (virtmem.c:34,     *)
(* 157).                                                                   *)
LEMMA PhysMalloc ==
    ASSUME PM!IInv, NEW c \in {Scratch} \cup TableBlocks,
           NEW size \in {PageSize, ScratchPages * PageSize},
           PM!phys_malloc(c, size) \/ PM!phys_malloc_failed(c, size)
    PROVE  PM!IInv'
  BY PhysStep DEF PM!Next

(* So is its physmem_init (kernel.c:89). *)
LEMMA PhysBoot ==
    ASSUME PM!IInv, machine \in Machines, PM!physmem_init(machine.map)
    PROVE  PM!IInv'
  BY PhysStep DEF PM!Next

(* The map of a device's page changes no other device's.                   *)
LEMMA MapOne ==
    ASSUME PT!Enough, PT!TablesInv, NEW page \in MappedPages,
           PT!virt_map_page(VirtOf(page), page)
    PROVE  /\ PT!TablesInv'
           /\ cur' = PT!Reach(VirtOf(page)).cur /\ cur' \in {0, 1}
           /\ cur' \in {cur, 1} /\ 1 \in TableBlocks
           /\ \A p \in Addressable :
                PT!Translate(VirtOf(p))' \in {p, PT!Translate(VirtOf(p))}
<1>1. VirtOf(page) \in {VirtOf(q) : q \in MappedPages}
  OBVIOUS
<1>2. /\ PT!TablesInv'
      /\ cur' = PT!Reach(VirtOf(page)).cur /\ cur' \in {cur, 1}
      /\ PT!Translate(VirtOf(page))' = page
      /\ \A q \in Index \X Index \X Index :
            q # VirtOf(page) => PT!Translate(q)' = PT!Translate(q)
  BY <1>1, PT!MapCall, ComponentsAssumption
<1>3. cur \in {0, 1} /\ 1 \in TableBlocks
  BY PT!KernelStays, ComponentsAssumption
<1>4. ASSUME NEW p \in Addressable
      PROVE  PT!Translate(VirtOf(p))' \in {p, PT!Translate(VirtOf(p))}
  <2>1. page \in Addressable
    BY MappedAddressable
  <2>2. VirtOf(p) \in Index \X Index \X Index
    BY VirtOfPage
  <2>3. CASE VirtOf(p) = VirtOf(page)
    <3>1. p = page
      BY <2>1, <2>3, VirtOfInjective
    <3>2. QED BY <1>2, <3>1
  <2>4. CASE VirtOf(p) # VirtOf(page)
    BY <1>2, <2>2, <2>4
  <2>5. QED BY <2>3, <2>4
<1>5. QED BY <1>2, <1>3, <1>4

(* The invariant holds when kmain starts. *)
LEMMA InitBoot ==
    ASSUME PT!Enough, Init
    PROVE  BootInv
<1>1. PM!IInv
  BY PM!InitIInv, ComponentsAssumption DEF Init
<1>2. PT!TablesInv
  BY PT!InitTables, ComponentsAssumption DEF Init
<1>3. << >> \in Seq(Step)
  OBVIOUS
<1>4. QED BY <1>1, <1>2, <1>3 DEF Init, BootInv

(* The first step of todo is taken, or kmain stops.                        *)
LEMMA StepTaken ==
    ASSUME BootInv, NEW what, Doing(what)
    PROVE  /\ stage = "init" /\ todo # << >>
           /\ todo[1] \in Step /\ todo[1].do = what
           /\ Tail(todo) \in Seq(Step)
           /\ StepsOf(todo) = {todo[1]} \cup StepsOf(Tail(todo))
  BY TailSteps DEF BootInv, Doing

(* It holds after a step that is taken off todo, when a use that was taken *)
(* found its pages.                                                        *)
LEMMA DoneBoot ==
    ASSUME BootInv, NEW what, Doing(what), Done, UNCHANGED <<bootVars, tags>>,
           PM!IInv', PT!TablesInv',
           \A p \in Addressable :
                PT!Translate(VirtOf(p))' \in {p, PT!Translate(VirtOf(p))},
           what = "use" => \A pages \in SUBSET Addressable :
                                todo[1] = UseOf(pages) => Reachable(pages)'
    PROVE  BootInv'
<1>1. /\ stage = "init" /\ todo[1].do = what
      /\ Tail(todo) \in Seq(Step)
      /\ StepsOf(todo) = {todo[1]} \cup StepsOf(Tail(todo))
      /\ todo' = Tail(todo) /\ stage' = "init"
      /\ machine' = machine /\ fb' = fb /\ rsdp' = rsdp
  BY StepTaken DEF Done, Doing, bootVars
<1>2. ASSUME NEW s \in UsesLater(machine, fb), s \in StepsOf(todo)
      PROVE  s \in StepsOf(todo)' \/ Reachable(s.pages)'
  <2>1. s = UseOf(s.pages) /\ s.pages \in SUBSET Addressable
    <3>1. \A pages : UseOf(pages).pages = pages
      BY DEF UseOf
    <3>2. s = UseOf(s.pages)
      BY <3>1 DEF UsesLater
    <3>3. QED BY <3>2, UsesAddressable DEF BootInv
  <2>2. CASE s = todo[1]
    <3>1. what = "use"
      BY <1>1, <2>1, <2>2 DEF UseOf
    <3>2. QED BY <2>1, <2>2, <3>1
  <2>3. CASE s \in StepsOf(Tail(todo))
    BY <1>1, <2>3
  <2>4. QED BY <1>1, <1>2, <2>2, <2>3
<1>3. Covered'
  BY <1>1, <1>2, CoveredStays DEF BootInv
<1>4. QED BY <1>1, <1>3 DEF BootInv

(* Nothing is taken off todo, and the translations stay.                   *)
LEMMA KeepBoot ==
    ASSUME BootInv, UNCHANGED <<bootVars, tags, todo>>,
           stage' = "init" => stage = "init",
           stage' = "run" => stage \in {"init", "run"} /\ todo = << >>,
           PM!IInv', PT!TablesInv',
           \A p \in Addressable :
                PT!Translate(VirtOf(p))' \in {p, PT!Translate(VirtOf(p))}
    PROVE  BootInv'
<1>1. machine' = machine /\ fb' = fb /\ rsdp' = rsdp /\ todo' = todo
  BY DEF bootVars
<1>2. stage' \in {"init", "run"} => Covered'
  BY <1>1, CoveredStays DEF BootInv
<1>3. QED BY <1>1, <1>2 DEF BootInv

(* While tags are read and kmain's steps are not known, no use is promised.*)
LEMMA TagBoot ==
    ASSUME BootInv, machine' = machine, fb' \in {NoFb, machine.fb},
           rsdp' \in {None, 0, 2}, todo' = todo, stage' \notin {"init", "run"},
           PM!IInv', PT!TablesInv'
    PROVE  BootInv'
  BY DEF BootInv

(* Each step of kmain keeps the invariant: reading a tag, each step of an  *)
(* init function, and the main loop (kernel.c:27-187).                     *)
LEMMA NextBoot ==
    ASSUME PT!Enough, BootInv, [Next]_vars
    PROVE  BootInv'
<1> USE DEF BootInv
<1>1. CASE UNCHANGED vars
  <2>1. UNCHANGED physVars /\ UNCHANGED tableVars
        /\ UNCHANGED <<bootVars, tags, todo, stage>>
    BY <1>1 DEF vars
  <2>2. QED BY <2>1, PhysStays, TablesStay, KeepBoot
<1>2. CASE read_tag
  <2>1. stage = "tags"
    BY <1>2 DEF read_tag
  <2>2. CASE mmap_tag
    <3>1. PM!IInv'
      BY <2>2, PhysBoot DEF mmap_tag
    <3>2. PT!TablesInv'
      BY <2>2, TablesStay DEF mmap_tag
    <3>3. stage' \notin {"init", "run"} /\ todo' = todo
          /\ machine' = machine /\ fb' = fb /\ rsdp' = rsdp
      BY <2>1, <2>2 DEF mmap_tag, bootVars
    <3>4. QED BY <3>1, <3>2, <3>3, TagBoot
  <2>3. CASE framebuffer_tag
    BY <2>1, <2>3, PhysStays, TablesStay, TagBoot DEF framebuffer_tag
  <2>4. ASSUME NEW tag \in {"acpi_old", "acpi_new"}, acpi_tag(tag)
        PROVE  BootInv'
    <3>1. rsdp' \in {None, 0, 2}
      BY <2>4 DEF acpi_tag, Revision
    <3>2. QED BY <2>1, <2>4, <3>1, PhysStays, TablesStay, TagBoot DEF acpi_tag
  <2>5. QED BY <1>2, <2>2, <2>3, <2>4 DEF read_tag
<1>3. CASE tags_end
  <2>1. PM!IInv' /\ PT!TablesInv'
    BY <1>3, PhysStays, TablesStay DEF tags_end
  <2>2. machine' = machine /\ fb' = fb /\ rsdp' = rsdp
    BY <1>3 DEF tags_end, bootVars
  <2>3. CASE pmStatus = "running"
    <3>1. todo' = kmain(machine, fb, rsdp) /\ stage' = "init"
      BY <1>3, <2>3 DEF tags_end
    <3>2. todo' \in Seq(Step) /\ UsesLater(machine, fb) \subseteq StepsOf(todo')
      BY <3>1, KmainSteps DEF Early, UsesLater
    <3>3. Covered'
      BY <2>2, <3>2 DEF Covered
    <3>4. QED BY <2>1, <2>2, <3>1, <3>2, <3>3
  <2>4. CASE pmStatus # "running"
    BY <1>3, <2>1, <2>2, <2>4, TagBoot DEF tags_end
  <2>5. QED BY <2>3, <2>4
<1>4. CASE must
  <2>1. Doing("must") /\ UNCHANGED <<bootVars, tags>>
        /\ UNCHANGED physVars /\ UNCHANGED tableVars
    BY <1>4 DEF must
  <2>2. CASE Done
    BY <2>1, <2>2, PhysStays, TablesStay, DoneBoot
  <2>3. CASE ~ Done
    <3>1. stage' = "panic" /\ todo' = todo
      BY <1>4, <2>3 DEF must, StopIf
    <3>2. QED BY <2>1, <3>1, PhysStays, TablesStay, KeepBoot
  <2>4. QED BY <2>2, <2>3
<1>5. CASE malloc
  <2>1. Doing("malloc") /\ Done /\ UNCHANGED <<bootVars, tags>>
        /\ UNCHANGED tableVars
    BY <1>5 DEF malloc
  <2>2. todo[1].size = ScratchPages * PageSize
    BY <2>1, StepTaken DEF Step
  <2>3. PM!IInv'
    BY <1>5, <2>2, PhysMalloc DEF malloc
  <2>4. QED BY <2>1, <2>3, TablesStay, DoneBoot
<1>6. CASE map
  <2>1. Doing("map") /\ UNCHANGED <<bootVars, tags>>
    BY <1>6 DEF map
  <2>2. PICK page \in MappedPages : todo[1].page = page
    BY <2>1, StepTaken DEF Step
  <2>3. CASE UNCHANGED <<physVars, tableVars, todo>>
                /\ stage' \in {"panic", "page fault"}
    BY <2>1, <2>3, PhysStays, TablesStay, KeepBoot
  <2>4. CASE /\ PT!virt_map_page(VirtOf(page), page)
             /\ IF PT!Reach(VirtOf(page)).cur # cur
                THEN PM!phys_malloc(cur', PageSize) ELSE UNCHANGED physVars
             /\ UNCHANGED <<todo, stage>>
    <3>1. /\ PT!TablesInv' /\ cur' \in {cur, 1} /\ 1 \in TableBlocks
          /\ cur' = PT!Reach(VirtOf(page)).cur
          /\ \A p \in Addressable :
                PT!Translate(VirtOf(p))' \in {p, PT!Translate(VirtOf(p))}
      BY <2>4, MapOne
    <3>2. PM!IInv'
      <4>1. CASE UNCHANGED physVars
        BY <4>1, PhysStays
      <4>2. CASE cur' # cur /\ PM!phys_malloc(cur', PageSize)
        BY <3>1, <4>2, PhysMalloc
      <4>3. QED BY <2>4, <3>1, <4>1, <4>2
    <3>3. QED BY <2>1, <2>4, <3>1, <3>2, KeepBoot
  <2>5. QED BY <1>6, <2>2, <2>3, <2>4 DEF map
<1>7. CASE flush
  <2>1. Doing("map") /\ Done /\ PT!flush_tlb
        /\ UNCHANGED physVars /\ UNCHANGED <<bootVars, tags>>
    BY <1>7 DEF flush
  <2>2. PT!TablesInv' /\ \A q : PT!Translate(q)' = PT!Translate(q)
    BY <2>1, PT!FlushCall, ComponentsAssumption
  <2>3. QED BY <2>1, <2>2, PhysStays, DoneBoot
<1>8. CASE use
  <2>1. Doing("use") /\ UNCHANGED <<bootVars, tags>>
        /\ UNCHANGED physVars /\ UNCHANGED tableVars
    BY <1>8 DEF use
  <2>2. CASE Done
    <3>1. PICK pages \in SUBSET Addressable : todo[1] = UseOf(pages)
      <4>1. todo[1] \in Step /\ todo[1].do = "use"
        BY <2>1, StepTaken
      <4>2. QED BY <4>1 DEF Step, UseOf
    <3>2. CASE Reachable(pages)
      <4>1. Reachable(pages)'
        BY <2>1, <3>2, TablesStay, ReachableStays
      <4>2. \A ps \in SUBSET Addressable :
                todo[1] = UseOf(ps) => Reachable(ps)'
        <5>1. UseOf(pages).pages = pages
          BY DEF UseOf
        <5>2. ASSUME NEW ps, todo[1] = UseOf(ps) PROVE ps = pages
          <6>1. UseOf(ps).pages = ps
            BY DEF UseOf
          <6>2. QED BY <3>1, <5>1, <5>2, <6>1
        <5>3. QED BY <4>1, <5>2
      <4>3. QED BY <2>1, <2>2, <4>2, PhysStays, TablesStay, DoneBoot
    <3>3. CASE ~ Reachable(pages)
      <4>1. stage' = "page fault" /\ stage = "init"
        <5>1. todo[1].pages = pages
          BY <3>1 DEF UseOf
        <5>2. QED BY <1>8, <2>1, <3>3, <5>1 DEF use, StopIf, Doing
      <4>2. QED BY <2>2, <4>1 DEF Done
    <3>4. QED BY <3>2, <3>3
  <2>3. CASE ~ Done
    <3>1. stage' = "page fault" /\ todo' = todo
      BY <1>8, <2>3 DEF use, StopIf
    <3>2. QED BY <2>1, <3>1, PhysStays, TablesStay, KeepBoot
  <2>4. QED BY <2>2, <2>3
<1>9. CASE main_loop
  <2>1. /\ stage = "init" /\ todo = << >> /\ stage' = "run"
        /\ UNCHANGED <<bootVars, tags, todo>>
        /\ UNCHANGED physVars /\ UNCHANGED tableVars
    BY <1>9 DEF main_loop
  <2>2. QED BY <2>1, PhysStays, TablesStay, KeepBoot
<1>10. CASE heap
  <2>1. Doing("heap") /\ UNCHANGED <<bootVars, tags>>
        /\ UNCHANGED physVars /\ UNCHANGED tableVars
    BY <1>10 DEF heap
  <2>2. CASE Done
    BY <2>1, <2>2, PhysStays, TablesStay, DoneBoot
  <2>3. CASE stage' \in {"panic", "page fault"} /\ todo' = todo
    BY <2>1, <2>3, PhysStays, TablesStay, KeepBoot
  <2>4. QED BY <1>10, <2>2, <2>3 DEF heap
<1>11. QED
  BY <1>1, <1>2, <1>3, <1>4, <1>5, <1>6, <1>7, <1>8, <1>9, <1>10 DEF Next

(* It holds of every boot. *)
LEMMA BootInductive ==
    ASSUME PT!Enough
    PROVE  Spec => []BootInv
<1>1. Init => BootInv
  BY InitBoot
<1>2. BootInv /\ [Next]_vars => BootInv'
  BY NextBoot
<1>3. QED BY <1>1, <1>2, PTL DEF Spec

(* In the main loop, the framebuffer, both APICs and the HPET are mapped,  *)
(* and so is the kernel: each was when kmain used it, and no later call    *)
(* took it away (kernel.c:165, apic.h:43).                                 *)
THEOREM MappingsLast ==
    ASSUME PT!Enough
    PROVE  Spec => []DriversStayMapped
<1>1. BootInv => DriversStayMapped
  <2>1. SUFFICES ASSUME BootInv, stage = "run" PROVE DriversStayMapped
    BY DEF DriversStayMapped
  <2>2. Covered /\ StepsOf(todo) = {}
    BY <2>1 DEF BootInv, StepsOf
  <2>3. \A pages : UseOf(pages).pages = pages
    BY DEF UseOf
  <2>4. /\ Reachable(FbUsed(fb)) /\ Reachable({machine.lapic})
        /\ Reachable({machine.ioapic}) /\ Reachable({machine.hpet})
    <3>1. \A s \in UsesLater(machine, fb) : Reachable(s.pages)
      BY <2>2 DEF Covered
    <3>2. QED BY <2>3, <3>1 DEF UsesLater
  <2>5. Reachable(FbUsed(fb) \cup
                    {machine.lapic, machine.ioapic, machine.hpet})
    BY <2>4 DEF Reachable
  <2>6. \A p \in 0 .. KernelSize - 1 :
            PT!Translate(<<KernelP4, KernelP3, p>>) = p
    <3>1. \A p \in Index : PT!Translate(<<KernelP4, KernelP3, p>>) = p
      BY <2>1, PT!KernelStays, ComponentsAssumption DEF BootInv
    <3>2. QED BY <3>1, Constants
  <2>7. QED BY <2>5, <2>6 DEF DriversStayMapped
<1>2. QED BY <1>1, BootInductive, PTL

-----------------------------------------------------------------------------
(* Who holds which pages, on a machine with enough memory: the scratch     *)
(* block is right behind the low pages, and the only block of tables right *)
(* behind it, as both were free when kmain asked for them.                 *)

Top == LowPages + ScratchPages
ScratchBlock == [page |-> LowPages, n |-> ScratchPages]
TableBlock == [page |-> Top, n |-> 1]

Placed ==
    /\ \A c \in TableBlocks \ {1} : held[c] = None
    /\ held[Scratch] \in {None, ScratchBlock}
    /\ cur = 0 => held[1] = None
    /\ cur = 1 => /\ held[1] = TableBlock /\ Top < KernelSize
                  /\ held[Scratch] = ScratchBlock
    /\ cur = 0 /\ pmStatus = "running" =>
            /\ Top + 1 <= mm_end * WordBits /\ Top \notin pmm
            /\ held[Scratch] = None => (LowPages .. Top - 1) \cap pmm = {}
    /\ stage = "tags" => held[Scratch] = None /\ cur = 0
    /\ stage = "init" =>
            /\ pmStatus = "running"
            /\ IF held[Scratch] = None THEN Early(todo) ELSE Late(todo)

(* Blocks placed so share no page with each other, the kernel image or the *)
(* heap, and tables are where the kernel reaches them (kalloc.h:8,         *)
(* virtmem.c:36).                                                          *)
LEMMA PlacedOneUse ==
    ASSUME Placed, cur \in {0, 1}
    PROVE  OneUse
<1>1. /\ LowPages \in Nat \ {0} /\ ScratchPages \in Nat \ {0}
      /\ Top = LowPages + ScratchPages /\ KernelSize \in Nat
      /\ None \notin [page : Nat, n : Nat]
      /\ HeapPages \subseteq Top + 1 .. KernelSize - 1
      /\ 0 \notin TableBlocks
  BY Constants, KernelMemoryAssumption DEF Top
<1>2. ASSUME NEW c \in {Scratch} \cup TableBlocks
      PROVE  \/ PM!HeldPages(c) = {}
             \/ c = Scratch /\ PM!HeldPages(c) = LowPages .. Top - 1
             \/ /\ c = 1 /\ PM!HeldPages(c) = Top .. Top /\ Top < KernelSize
  <2>1. \/ held[c] = None
        \/ c = Scratch /\ held[c] = ScratchBlock
        \/ c = 1 /\ held[c] = TableBlock /\ Top < KernelSize
    BY DEF Placed
  <2>2. CASE held[c] = None
    BY <2>2 DEF PM!HeldPages
  <2>3. CASE c = Scratch /\ held[c] = ScratchBlock
    <3>1. ScratchBlock # None
      BY <1>1 DEF ScratchBlock
    <3>2. PM!PageRun(ScratchBlock) = LowPages .. Top - 1
      BY <1>1 DEF PM!PageRun, ScratchBlock
    <3>3. QED BY <2>3, <3>1, <3>2 DEF PM!HeldPages
  <2>4. CASE c = 1 /\ held[c] = TableBlock /\ Top < KernelSize
    <3>1. TableBlock # None
      BY <1>1 DEF TableBlock
    <3>2. PM!PageRun(TableBlock) = Top .. Top
      BY <1>1 DEF PM!PageRun, TableBlock
    <3>3. QED BY <2>4, <3>1, <3>2 DEF PM!HeldPages
  <2>5. QED BY <2>1, <2>2, <2>3, <2>4
<1>3. Scratch # 1
  BY DEF Scratch
<1>4. PM!Exclusive
  <2>1. SUFFICES ASSUME NEW c \in {Scratch} \cup TableBlocks,
                        NEW d \in {Scratch} \cup TableBlocks, c # d
                 PROVE  PM!HeldPages(c) \cap PM!HeldPages(d) = {}
    BY DEF PM!Exclusive
  <2>2. (LowPages .. Top - 1) \cap (Top .. Top) = {}
    BY <1>1
  <2>3. QED BY <1>2, <2>1, <2>2
<1>5. ASSUME NEW c \in {Scratch} \cup TableBlocks
      PROVE  PM!HeldPages(c) \cap (HeapPages \cup 0 .. LowPages - 1) = {}
  BY <1>1, <1>2
<1>6. cur # 0 => PM!HeldPages(cur) # {}
  <2>1. SUFFICES ASSUME cur = 1 PROVE PM!HeldPages(1) # {}
    OBVIOUS
  <2>2. held[1] = TableBlock /\ TableBlock # None
    BY <1>1, <2>1 DEF Placed, TableBlock
  <2>3. PM!HeldPages(1) = Top .. Top
    BY <1>1, <2>2 DEF PM!HeldPages, PM!PageRun, TableBlock
  <2>4. QED BY <1>1, <2>3
<1>7. ASSUME NEW c \in TableBlocks
      PROVE  PM!HeldPages(c) \subseteq 0 .. KernelSize - 1
  <2>1. c # Scratch
    BY <1>1 DEF Scratch
  <2>2. QED BY <1>1, <1>2, <2>1
<1>8. QED BY <1>4, <1>5, <1>6, <1>7 DEF OneUse, Uses

(* What the allocator's invariant says here.                               *)
LEMMA PhysFacts ==
    ASSUME PM!IInv
    PROVE  /\ held \in [{Scratch} \cup TableBlocks -> PM!Blocks \cup {None}]
           /\ pmStatus = "running" => 0 .. LowPages - 1 \subseteq pmm
           /\ PM!HeldPages(Scratch) \subseteq pmm
           /\ PM!TypeOK
  BY DEF PM!IInv, PM!TypeOK, PM!LowMemoryKept, PM!HeldMarked, PM!Running

(* virtmem_init gets the pages right behind the low ones (virtmem.c:157).  *)
LEMMA ScratchFirst ==
    ASSUME PM!IInv, pmStatus = "running", Top + 1 <= mm_end * WordBits,
           (LowPages .. Top - 1) \cap pmm = {}
    PROVE  LET size == ScratchPages * PageSize
           IN  /\ ~ PM!phys_malloc_failed(Scratch, size)
               /\ PM!phys_malloc(Scratch, size) =>
                    /\ held' = [held EXCEPT ![Scratch] = ScratchBlock]
                    /\ pmm' = pmm \cup (LowPages .. Top - 1)
                    /\ mm_end' = mm_end /\ pmStatus' = pmStatus
<1> DEFINE size == ScratchPages * PageSize
<1>1. /\ LowPages \in Nat \ {0} /\ ScratchPages \in Nat \ {0}
      /\ WordBits \in Nat \ {0}
  BY Constants
<1>2. ScratchPages = PM!PagesFor(size)
  BY <1>1, PM!WholePages, ComponentsAssumption
<1> HIDE DEF size
<1>3. PM!TypeOK /\ 0 .. LowPages - 1 \subseteq pmm
  BY PhysFacts
<1>4. LowPages + ScratchPages <= mm_end * WordBits
  <2>1. mm_end \in Nat
    BY <1>3 DEF PM!TypeOK
  <2>2. PICK x \in Nat : x = mm_end * WordBits
    BY <1>1, <2>1, WordsMonotone
  <2>3. QED BY <1>1, <2>2 DEF Top
<1>5. LowPages + ScratchPages - 1 = Top - 1
  BY <1>1 DEF Top
<1>6. Scratch \in {Scratch} \cup TableBlocks
  OBVIOUS
<1>7. /\ ~ PM!phys_malloc_failed(Scratch, size)
      /\ PM!phys_malloc(Scratch, size) =>
            /\ held' = [held EXCEPT ![Scratch] =
                            [page |-> LowPages, n |-> ScratchPages]]
            /\ pmm' = pmm \cup (LowPages .. LowPages + ScratchPages - 1)
            /\ mm_end' = mm_end /\ pmStatus' = pmStatus
  <2>1. (LowPages .. LowPages + ScratchPages - 1) \cap pmm = {}
    BY <1>5
  <2>2. QED BY <1>1, <1>2, <1>3, <1>4, <1>6, <2>1, PM!FirstGrant,
               ComponentsAssumption
<1>8. /\ ~ PM!phys_malloc_failed(Scratch, size)
      /\ PM!phys_malloc(Scratch, size) =>
            /\ held' = [held EXCEPT ![Scratch] = ScratchBlock]
            /\ pmm' = pmm \cup (LowPages .. Top - 1)
            /\ mm_end' = mm_end /\ pmStatus' = pmStatus
  BY <1>5, <1>7 DEF ScratchBlock
<1>9. QED BY <1>8 DEF size

(* The first block of tables gets the page right behind that block, and    *)
(* nothing before it is free (virtmem.c:34).                               *)
LEMMA TablesBehind ==
    ASSUME PM!IInv, pmStatus = "running", Top + 1 <= mm_end * WordBits,
           Top \notin pmm, held[Scratch] = ScratchBlock, 1 \in TableBlocks
    PROVE  /\ PM!Starts(1) # {} /\ PM!FirstStart(1) = Top
           /\ PM!phys_malloc(1, PageSize) =>
                /\ held' = [held EXCEPT ![1] = TableBlock]
                /\ mm_end' = mm_end /\ pmStatus' = pmStatus
<1>1. /\ LowPages \in Nat \ {0} /\ ScratchPages \in Nat \ {0}
      /\ WordBits \in Nat \ {0} /\ PageSize \in Nat \ {0}
      /\ Top = LowPages + ScratchPages
      /\ None \notin [page : Nat, n : Nat]
  BY Constants DEF Top
<1>2. 1 = PM!PagesFor(PageSize)
  <2>1. PM!PagesFor(1 * PageSize) = 1
    BY PM!WholePages, ComponentsAssumption
  <2>2. 1 * PageSize = PageSize
    BY <1>1
  <2>3. QED BY <2>1, <2>2
<1>3. PM!TypeOK /\ 0 .. LowPages - 1 \subseteq pmm
  BY PhysFacts
<1>4. LowPages .. Top - 1 \subseteq pmm
  <2>1. held[Scratch] # None
    BY <1>1 DEF ScratchBlock
  <2>2. PM!HeldPages(Scratch) = LowPages .. Top - 1
    BY <1>1, <2>1 DEF PM!HeldPages, PM!PageRun, ScratchBlock
  <2>3. QED BY <2>2, PhysFacts
<1>5. 0 .. Top - 1 \subseteq pmm /\ (Top .. Top + 1 - 1) \cap pmm = {}
  <2>1. \A p \in 0 .. Top - 1 :
            p \in 0 .. LowPages - 1 \/ p \in LowPages .. Top - 1
    BY <1>1
  <2>2. QED BY <1>1, <1>3, <1>4, <2>1
<1>6. Top \in Nat \ {0} /\ 1 \in Nat \ {0}
  BY <1>1
<1> HIDE DEF Top
<1>7. PM!Starts(1) # {} /\ PM!FirstStart(1) = Top
  BY <1>3, <1>5, <1>6, PM!FirstRun, ComponentsAssumption
<1>8. PM!phys_malloc(1, PageSize) =>
            /\ held' = [held EXCEPT ![1] = [page |-> Top, n |-> 1]]
            /\ mm_end' = mm_end /\ pmStatus' = pmStatus
  <2>1. 1 \in {Scratch} \cup TableBlocks
    OBVIOUS
  <2>2. QED
    BY <1>2, <1>3, <1>5, <1>6, <2>1, PM!FirstGrant, ComponentsAssumption
<1>9. QED BY <1>7, <1>8 DEF TableBlock

(* The memory map leaves these pages free.                                 *)
LEMMA BootLeavesFree ==
    ASSUME machine \in Machines, Roomy, PM!physmem_init(machine.map)
    PROVE  /\ \A q \in LowPages .. Top : q \notin pmm'
           /\ pmStatus' = "running" => Top + 1 <= mm_end' * WordBits
           /\ held' = held
<1>1. machine.map \in {m.map : m \in Machines} /\ LowPages < IntBits
  BY Constants
<1>2. LowPages \in Nat /\ ScratchPages \in Nat /\ Top = LowPages + ScratchPages
  BY Constants DEF Top
<1>3. ASSUME NEW q \in LowPages .. Top
      PROVE  q < mm_end' * WordBits /\ q \notin pmm' /\ held' = held
  <2>1. q \in Nat /\ q >= LowPages
    BY <1>2
  <2>2. /\ PM!TidyMap(machine.map)
        /\ PM!WordPages(q) \subseteq
                PM!AvailablePages(machine.map) \cup 0 .. LowPages - 1
    BY <1>2 DEF Roomy
  <2>3. QED BY <1>1, <2>1, <2>2, PM!BootGives, ComponentsAssumption
<1>4. Top \in LowPages .. Top
  BY <1>2
<1>5. Top < mm_end' * WordBits
  BY <1>3, <1>4
<1>6. mm_end' * WordBits \in Nat
  <2>1. mm_end' \in Nat
    <3>1. PM!HighestAvail(machine.map) \div WordBits \in 0 .. PmmSize
      BY PM!EndOfMemory, ComponentsAssumption
    <3>2. QED BY <3>1, ComponentsAssumption
                 DEF PM!physmem_init, PM!ConstantsAssumption
  <2>2. PICK w \in Nat : w = WordBits
    BY Constants
  <2>3. PICK e \in Nat : e = mm_end'
    BY <2>1
  <2>4. e * w \in Nat
    BY WordsMonotone
  <2>5. QED BY <2>2, <2>3, <2>4
<1>7. QED BY <1>2, <1>3, <1>4, <1>5, <1>6

(* A step that gives nobody a page and takes none off todo, or only a step *)
(* that is behind the scratch block's.                                     *)
LEMMA PlacedStays ==
    ASSUME Placed, UNCHANGED <<physVars, cur>>,
           stage' = "tags" => stage = "tags",
           stage' = "init" => stage = "init" /\
                \/ todo' = todo
                \/ /\ todo # << >> /\ todo[1].do # "malloc"
                   /\ todo' = Tail(todo)
    PROVE  Placed'
<1>1. /\ pmm' = pmm /\ mm_end' = mm_end /\ pmStatus' = pmStatus
      /\ held' = held /\ cur' = cur
  BY DEF physVars
<1>2. ASSUME stage' = "init"
      PROVE  IF held[Scratch] = None THEN Early(todo') ELSE Late(todo')
  <2>1. IF held[Scratch] = None THEN Early(todo) ELSE Late(todo)
    BY <1>2 DEF Placed
  <2>2. CASE todo' = todo
    BY <2>1, <2>2
  <2>3. CASE todo # << >> /\ todo[1].do # "malloc" /\ todo' = Tail(todo)
    <3>1. ~ Early(todo)
      BY <2>3 DEF Early, MallocOf
    <3>2. Late(todo) /\ held[Scratch] # None
      BY <2>1, <3>1
    <3>3. Late(Tail(todo))
      BY <2>3, <3>2, TailSteps DEF Late
    <3>4. QED BY <2>3, <3>2, <3>3
  <2>4. QED BY <1>2, <2>2, <2>3
<1>3. QED BY <1>1, <1>2 DEF Placed, Top, ScratchBlock, TableBlock, KernelSize,
                            NumIndex

(* The step of virtmem_init places the scratch block (virtmem.c:157).      *)
LEMMA MallocPlaced ==
    ASSUME BootInv, Placed, PT!Enough, malloc
    PROVE  Placed'
<1>1. /\ Doing("malloc") /\ Done /\ UNCHANGED tableVars
      /\ stage = "init" /\ todo # << >> /\ todo[1].do = "malloc"
      /\ todo' = Tail(todo) /\ stage' = "init" /\ cur' = cur
  BY DEF malloc, Doing, Done, tableVars
<1>2. PM!IInv /\ cur \in {0, 1}
  BY PT!KernelStays, ComponentsAssumption DEF BootInv
<1>3. Early(todo) /\ held[Scratch] = None
  <2>1. ~ Late(todo)
    <3>1. todo \in Seq(Step)
      BY DEF BootInv
    <3>2. todo[1] \in StepsOf(todo)
      BY <1>1, <3>1, TailSteps
    <3>3. QED BY <1>1, <3>2 DEF Late
  <2>2. QED BY <1>1, <2>1 DEF Placed
<1>4. todo[1].size = ScratchPages * PageSize /\ Late(todo')
  BY <1>1, <1>3 DEF Early, MallocOf
<1>5. ScratchBlock # None
  BY Constants DEF ScratchBlock
<1>6. /\ cur = 0 /\ pmStatus = "running"
      /\ Top + 1 <= mm_end * WordBits /\ Top \notin pmm
      /\ (LowPages .. Top - 1) \cap pmm = {}
  <2>1. cur # 1
    BY <1>3, <1>5 DEF Placed
  <2>2. QED BY <1>1, <1>2, <1>3, <2>1 DEF Placed
<1>7. /\ held' = [held EXCEPT ![Scratch] = ScratchBlock]
      /\ pmm' = pmm \cup (LowPages .. Top - 1)
      /\ mm_end' = mm_end /\ pmStatus' = pmStatus
  <2>1. \/ PM!phys_malloc(Scratch, ScratchPages * PageSize)
        \/ PM!phys_malloc_failed(Scratch, ScratchPages * PageSize)
    BY <1>4 DEF malloc
  <2>2. QED BY <1>2, <1>6, <2>1, ScratchFirst
<1>8. /\ held'[Scratch] = ScratchBlock
      /\ \A c \in TableBlocks : held'[c] = held[c]
  <2>1. held \in [{Scratch} \cup TableBlocks -> PM!Blocks \cup {None}]
    BY <1>2, PhysFacts
  <2>2. \A c \in TableBlocks : c # Scratch
    BY KernelMemoryAssumption DEF Scratch
  <2>3. QED BY <1>7, <2>1, <2>2
<1>9. Top \notin pmm'
  <2>1. Top \notin LowPages .. Top - 1
    BY Constants DEF Top
  <2>2. QED BY <1>6, <1>7, <2>1
<1>10. held'[1] = None
  <2>1. 1 \in TableBlocks
    BY PT!KernelStays, ComponentsAssumption DEF BootInv
  <2>2. QED BY <1>6, <1>8, <2>1 DEF Placed
<1>11. /\ \A c \in TableBlocks \ {1} : held'[c] = None
       /\ Top + 1 <= mm_end' * WordBits
  BY <1>6, <1>7, <1>8 DEF Placed
<1>12. QED
  BY <1>1, <1>4, <1>5, <1>6, <1>7, <1>8, <1>9, <1>10, <1>11
     DEF Placed, Top, ScratchBlock, TableBlock

(* A call of virt_map_page places the first block of tables, or asks for no*)
(* page (virtmem.c:34, 104-130).                                           *)
LEMMA MapPlaced ==
    ASSUME BootInv, Placed, PT!Enough, map
    PROVE  Placed'
<1>1. Doing("map") /\ stage = "init" /\ todo # << >> /\ todo[1].do = "map"
  BY DEF map, Doing
<1>2. PICK page \in MappedPages : todo[1].page = page
  BY <1>1, StepTaken DEF Step
<1>3. PM!IInv /\ PT!TablesInv /\ cur \in {0, 1} /\ 1 \in TableBlocks
  BY PT!KernelStays, ComponentsAssumption DEF BootInv
<1>4. CASE UNCHANGED <<physVars, tableVars, todo>>
                /\ stage' \in {"panic", "page fault"}
  BY <1>4, PlacedStays DEF tableVars
<1>5. CASE /\ PT!virt_map_page(VirtOf(page), page)
           /\ PT!Reach(VirtOf(page)).cur # cur
                => ~ (PM!FirstStart(1) >= KernelSize)
           /\ IF PT!Reach(VirtOf(page)).cur # cur
              THEN PM!phys_malloc(cur', PageSize) ELSE UNCHANGED physVars
           /\ UNCHANGED <<todo, stage>>
  <2>1. cur' = PT!Reach(VirtOf(page)).cur /\ cur' \in {cur, 1}
    BY <1>3, <1>5, MapOne
  <2>2. CASE cur' = cur
    BY <1>5, <2>1, <2>2, PlacedStays
  <2>3. CASE cur' # cur
    <3>1. cur = 0 /\ cur' = 1
      BY <1>3, <2>1, <2>3
    <3>2. ~ Early(todo)
      BY <1>1 DEF Early, MallocOf
    <3>3. /\ held[Scratch] = ScratchBlock /\ ScratchBlock # None /\ Late(todo)
          /\ pmStatus = "running"
          /\ Top + 1 <= mm_end * WordBits /\ Top \notin pmm
      <4>1. ScratchBlock # None
        BY Constants DEF ScratchBlock
      <4>2. QED BY <1>1, <3>1, <3>2, <4>1 DEF Placed
    <3>4. /\ held' = [held EXCEPT ![1] = TableBlock]
          /\ mm_end' = mm_end /\ pmStatus' = pmStatus
          /\ Top < KernelSize
      <4>1. Top \in Nat /\ KernelSize \in Nat
        BY Constants DEF Top
      <4>2. ~ (Top >= KernelSize)
        BY <1>3, <1>5, <2>1, <2>3, <3>3, TablesBehind
      <4>3. Top < KernelSize
        BY <4>1, <4>2
      <4>4. QED BY <1>3, <1>5, <2>1, <2>3, <3>1, <3>3, <4>3, TablesBehind
    <3>5. /\ held'[1] = TableBlock /\ held'[Scratch] = held[Scratch]
          /\ \A c \in TableBlocks \ {1} : held'[c] = held[c]
      <4>1. held \in [{Scratch} \cup TableBlocks -> PM!Blocks \cup {None}]
        BY <1>3, PhysFacts
      <4>2. Scratch # 1
        BY DEF Scratch
      <4>3. QED BY <1>3, <3>4, <4>1, <4>2
    <3>6. \A c \in TableBlocks \ {1} : held'[c] = None
      BY <3>5 DEF Placed
    <3>7. QED
      BY <1>1, <1>5, <3>1, <3>3, <3>4, <3>5, <3>6
         DEF Placed, Top, ScratchBlock, TableBlock, KernelSize, NumIndex
  <2>4. QED BY <2>2, <2>3
<1>6. QED BY <1>2, <1>4, <1>5 DEF map

OneInv == BootInv /\ (Roomy => Placed)

(* Nobody holds a page when kmain starts. *)
LEMMA InitOne ==
    ASSUME PT!Enough, Init
    PROVE  OneInv
<1>1. BootInv
  BY InitBoot
<1>2. /\ held = [c \in {Scratch} \cup TableBlocks |-> None]
      /\ pmStatus = "reset" /\ cur = 0 /\ stage = "tags"
  BY DEF Init, PM!Init, PT!Init
<1>3. 1 \in TableBlocks
  BY <1>1, PT!KernelStays, ComponentsAssumption DEF BootInv
<1>4. Placed
  BY <1>2, <1>3 DEF Placed
<1>5. QED BY <1>1, <1>4 DEF OneInv

(* Each step of kmain keeps the blocks where they were placed. *)
LEMMA NextOne ==
    ASSUME PT!Enough, OneInv, [Next]_vars
    PROVE  OneInv'
<1>1. BootInv /\ BootInv'
  BY NextBoot DEF OneInv
<1>2. machine' = machine
  BY DEF Next, vars, bootVars, read_tag, mmap_tag, framebuffer_tag, acpi_tag,
         tags_end, must, malloc, map, flush, use, heap, main_loop
<1>3. Roomy' => Roomy
  BY <1>2 DEF Roomy, PM!TidyMap, PM!WordPages, PM!AvailablePages, PM!Pages
<1>4. SUFFICES ASSUME Roomy, Placed PROVE Placed'
  BY <1>1, <1>3 DEF OneInv
<1>5. CASE UNCHANGED vars
  <2>1. UNCHANGED <<physVars, cur>> /\ UNCHANGED <<todo, stage>>
    BY <1>5 DEF vars, tableVars
  <2>2. QED BY <1>4, <2>1, PlacedStays
<1>6. CASE read_tag
  <2>1. stage = "tags" /\ held[Scratch] = None /\ cur = 0
    BY <1>4, <1>6 DEF read_tag, Placed
  <2>2. CASE mmap_tag
    <3>1. /\ PM!physmem_init(machine.map) /\ cur' = cur
          /\ stage' # "init" /\ machine \in Machines
      BY <1>1, <2>1, <2>2 DEF mmap_tag, tableVars, BootInv
    <3>2. /\ \A q \in LowPages .. Top : q \notin pmm'
          /\ pmStatus' = "running" => Top + 1 <= mm_end' * WordBits
          /\ held' = held
      BY <1>4, <3>1, BootLeavesFree
    <3>3. /\ Top \in LowPages .. Top
          /\ LowPages .. Top - 1 \subseteq LowPages .. Top
      BY Constants DEF Top
    <3>4. /\ Top \notin pmm' /\ (LowPages .. Top - 1) \cap pmm' = {}
      BY <3>2, <3>3
    <3>5. \A c \in TableBlocks \ {1} : held'[c] = None
      BY <1>4, <3>2 DEF Placed
    <3>6. held'[1] = None /\ held'[Scratch] = None /\ cur' = 0
      BY <1>4, <2>1, <3>1, <3>2 DEF Placed
    <3>7. QED
      BY <3>1, <3>2, <3>4, <3>5, <3>6
         DEF Placed, Top, ScratchBlock, TableBlock, KernelSize, NumIndex
  <2>3. CASE \/ framebuffer_tag
             \/ \E tag \in {"acpi_old", "acpi_new"} : acpi_tag(tag)
    <3>1. UNCHANGED <<physVars, cur>> /\ stage' = stage
      BY <2>3 DEF framebuffer_tag, acpi_tag, tableVars
    <3>2. QED BY <1>4, <2>1, <3>1, PlacedStays
  <2>4. QED BY <1>6, <2>2, <2>3 DEF read_tag
<1>7. CASE tags_end
  <2>1. /\ stage = "tags" /\ held[Scratch] = None /\ cur = 0
        /\ UNCHANGED <<physVars, cur>>
    BY <1>4, <1>7 DEF tags_end, Placed, tableVars
  <2>2. CASE pmStatus = "running"
    <3>1. stage' = "init" /\ todo' = kmain(machine, fb, rsdp)
      BY <1>7, <2>2 DEF tags_end
    <3>2. Early(todo')
      BY <1>1, <3>1, KmainSteps DEF BootInv
    <3>3. /\ pmm' = pmm /\ mm_end' = mm_end /\ pmStatus' = pmStatus
          /\ held' = held /\ cur' = cur
      BY <2>1 DEF physVars
    <3>4. QED
      BY <1>4, <2>1, <2>2, <3>1, <3>2, <3>3
         DEF Placed, Top, ScratchBlock, TableBlock, KernelSize, NumIndex
  <2>3. CASE pmStatus # "running"
    <3>1. stage' = "no memory map"
      BY <1>7, <2>3 DEF tags_end
    <3>2. QED BY <1>4, <2>1, <3>1, PlacedStays
  <2>4. QED BY <2>2, <2>3
<1>8. ASSUME NEW what, Doing(what), what # "malloc",
             UNCHANGED <<physVars, cur>>,
             Done \/ (todo' = todo /\ stage' \in {"panic", "page fault"})
      PROVE  Placed'
  <2>1. stage = "init" /\ todo # << >> /\ todo[1].do # "malloc"
    BY <1>8 DEF Doing
  <2>2. CASE Done
    <3>1. todo' = Tail(todo) /\ stage' = stage
      BY <2>2 DEF Done
    <3>2. QED BY <1>4, <1>8, <2>1, <3>1, PlacedStays
  <2>3. CASE todo' = todo /\ stage' \in {"panic", "page fault"}
    BY <1>4, <1>8, <2>3, PlacedStays
  <2>4. QED BY <1>8, <2>2, <2>3
<1>9. CASE must
  <2>1. /\ Doing("must") /\ UNCHANGED <<physVars, cur>>
        /\ Done \/ (todo' = todo /\ stage' \in {"panic", "page fault"})
    BY <1>9 DEF must, StopIf, tableVars
  <2>2. QED BY <1>8, <2>1
<1>10. CASE malloc
  BY <1>1, <1>4, <1>10, MallocPlaced
<1>11. CASE map
  BY <1>1, <1>4, <1>11, MapPlaced
<1>12. CASE flush
  <2>1. Doing("map") /\ Done /\ UNCHANGED <<physVars, cur>>
    BY <1>12 DEF flush, PT!flush_tlb
  <2>2. QED BY <1>8, <2>1
<1>13. CASE use
  <2>1. /\ Doing("use") /\ UNCHANGED <<physVars, cur>>
        /\ Done \/ (todo' = todo /\ stage' \in {"panic", "page fault"})
    BY <1>13 DEF use, StopIf, tableVars
  <2>2. QED BY <1>8, <2>1
<1>14. CASE main_loop
  <2>1. UNCHANGED <<physVars, cur>> /\ stage' = "run"
    BY <1>14 DEF main_loop, tableVars
  <2>2. QED BY <1>4, <2>1, PlacedStays
<1>15. CASE heap
  <2>1. /\ Doing("heap") /\ UNCHANGED <<physVars, cur>>
        /\ Done \/ (todo' = todo /\ stage' \in {"panic", "page fault"})
    BY <1>15 DEF heap, tableVars
  <2>2. QED BY <1>8, <2>1
<1>16. QED
  BY <1>5, <1>6, <1>7, <1>9, <1>10, <1>11, <1>12, <1>13, <1>14, <1>15 DEF Next

(* With enough memory behind the low pages, kernel image, heap, scratch    *)
(* block and page tables share no page, and the kernel reaches the tables  *)
(* (kalloc.h:8, virtmem.c:36, 157).                                        *)
THEOREM PagesHaveOneUse ==
    ASSUME PT!Enough
    PROVE  Spec => []OneUse
<1>1. Init => OneInv
  BY InitOne
<1>2. OneInv /\ [Next]_vars => OneInv'
  BY NextOne
<1>3. OneInv => OneUse
  <2>1. CASE Roomy
    <3>1. OneInv => Placed /\ PT!TablesInv
      BY <2>1 DEF OneInv, BootInv
    <3>2. PT!TablesInv => cur \in {0, 1}
      BY PT!KernelStays, ComponentsAssumption
    <3>3. QED BY <3>1, <3>2, PlacedOneUse
  <2>2. CASE ~ Roomy
    BY <2>2 DEF OneUse
  <2>3. QED BY <2>1, <2>2
<1>4. QED BY <1>1, <1>2, <1>3, PTL DEF Spec

(* The kernel uses the allocator and the page tables as PhysMem and        *)
(* PageTables say: what is proved of these holds of it (kernel.c:89,       *)
(* virtmem.c:34, 157-175).                                                 *)
THEOREM UsesItsComponents ==
    ASSUME PT!Enough
    PROVE  Spec => PM!Spec /\ PT!Spec
<1>1. Init => PM!Init /\ PT!Init
  BY DEF Init
<1>2. BootInv /\ [Next]_vars => [PM!Next]_(PM!vars)
  <2>1. SUFFICES ASSUME BootInv, [Next]_vars PROVE [PM!Next]_(PM!vars)
    OBVIOUS
  <2>2. CASE UNCHANGED physVars
    BY <2>2 DEF physVars, PM!vars
  <2>3. CASE mmap_tag
    <3>1. /\ PM!physmem_init(machine.map)
          /\ machine.map \in {m.map : m \in Machines}
      BY <2>1, <2>3 DEF mmap_tag, BootInv
    <3>2. QED BY <3>1 DEF PM!Next
  <2>4. CASE malloc
    <3>1. todo[1].size = ScratchPages * PageSize
      BY <2>1, <2>4, StepTaken DEF malloc, Step
    <3>2. QED BY <2>4, <3>1 DEF malloc, PM!Next
  <2>5. CASE map
    <3>1. PICK page \in MappedPages : todo[1].page = page
      <4>1. Doing("map")
        BY <2>5 DEF map
      <4>2. QED BY <2>1, <4>1, StepTaken DEF Step
    <3>2. CASE ~ UNCHANGED physVars
      <4>1. /\ PT!virt_map_page(VirtOf(page), page)
            /\ PT!Reach(VirtOf(page)).cur # cur
            /\ PM!phys_malloc(cur', PageSize)
        BY <2>5, <3>1, <3>2 DEF map
      <4>2. cur' \in {cur, 1} /\ 1 \in TableBlocks
            /\ cur' = PT!Reach(VirtOf(page)).cur
        BY <2>1, <4>1, MapOne DEF BootInv
      <4>3. cur' \in {Scratch} \cup TableBlocks
        BY <4>1, <4>2
      <4>4. QED BY <4>1, <4>3 DEF PM!Next
    <3>3. QED BY <2>2, <3>2
  <2>6. QED
    BY <2>1, <2>2, <2>3, <2>4, <2>5
       DEF Next, vars, read_tag, framebuffer_tag, acpi_tag, tags_end, must,
           flush, use, heap, main_loop
<1>3. BootInv /\ [Next]_vars => [PT!Next]_(PT!vars)
  <2>1. SUFFICES ASSUME BootInv, [Next]_vars PROVE [PT!Next]_(PT!vars)
    OBVIOUS
  <2>2. CASE UNCHANGED tableVars
    BY <2>2 DEF tableVars, PT!vars
  <2>3. CASE map
    <3>1. PICK page \in MappedPages : todo[1].page = page
      <4>1. Doing("map")
        BY <2>3 DEF map
      <4>2. QED BY <2>1, <4>1, StepTaken DEF Step
    <3>2. CASE ~ UNCHANGED tableVars
      <4>1. PT!virt_map_page(VirtOf(page), page)
        BY <2>3, <3>1, <3>2 DEF map
      <4>2. VirtOf(page) \in {VirtOf(p) : p \in MappedPages}
        OBVIOUS
      <4>3. QED BY <4>1, <4>2 DEF PT!Next
    <3>3. QED BY <2>2, <3>2
  <2>4. CASE flush
    BY <2>4 DEF flush, PT!Next
  <2>5. QED
    BY <2>1, <2>2, <2>3, <2>4
       DEF Next, vars, read_tag, mmap_tag, framebuffer_tag, acpi_tag, tags_end,
           must, malloc, use, heap, main_loop
<1>4. Spec => []BootInv
  BY BootInductive
<1>5. QED BY <1>1, <1>2, <1>3, <1>4, PTL DEF Spec, PM!Spec, PT!Spec
-----------------------------------------------------------------------------
(* No assertion, panic or page fault on the way to the main loop, on a     *)
(* machine that is Roomy and Usual and has memory for the heap: each       *)
(* assertion of kmain holds, and each use is of pages that are mapped, or  *)
(* comes behind their map.                                                 *)

MapOf(page) == [do |-> "map", page |-> page]
MustOf(holds) == [do |-> "must", holds |-> holds]

(* The pages that steps of q map. *)
Mapped(q) == {p \in Addressable : MapOf(p) \in StepsOf(q)}

(* The steps of q can be taken where the pages of known are mapped. *)
Fits(q, known) ==
    \A i \in DOMAIN q :
        /\ q[i] # MustOf(FALSE)
        /\ \A pages \in SUBSET Addressable : q[i] = UseOf(pages) =>
              \A p \in pages :
                    p \in known \/ \E j \in 1 .. i - 1 : q[j] = MapOf(p)

(* More pages that are mapped do no harm. *)
LEMMA FitsMore ==
    ASSUME NEW q, NEW known, NEW more, known \subseteq more, Fits(q, known)
    PROVE  Fits(q, more)
  BY DEF Fits

(* Two init functions one after the other: the second may use what the     *)
(* first maps (kernel.c:165-187).                                          *)
LEMMA FitsThen ==
    ASSUME NEW a \in Seq(Step), NEW b \in Seq(Step), NEW known,
           Fits(a, known), Fits(b, known \cup Mapped(a))
    PROVE  Fits(a \o b, known) /\ Mapped(a \o b) = Mapped(a) \cup Mapped(b)
<1>1. /\ Len(a) \in Nat /\ Len(b) \in Nat
      /\ DOMAIN a = 1 .. Len(a) /\ DOMAIN b = 1 .. Len(b)
      /\ DOMAIN (a \o b) = 1 .. Len(a) + Len(b)
      /\ \A i \in 1 .. Len(a) + Len(b) : (a \o b)[i] =
                IF i <= Len(a) THEN a[i] ELSE b[i - Len(a)]
  BY ConcatOf
<1> DEFINE ab == a \o b
<1>2. /\ \A i \in 1 .. Len(a) : i \in DOMAIN ab /\ ab[i] = a[i]
      /\ \A i \in 1 .. Len(b) : i + Len(a) \in DOMAIN ab /\ ab[i + Len(a)] = b[i]
      /\ \A i \in DOMAIN ab : i \in 1 .. Len(a) \/ i - Len(a) \in 1 .. Len(b)
  BY <1>1
<1> HIDE DEF ab
<1>3. StepsOf(ab) = StepsOf(a) \cup StepsOf(b)
  <2>1. StepsOf(a) \subseteq StepsOf(ab)
    BY <1>1, <1>2 DEF StepsOf
  <2>2. StepsOf(b) \subseteq StepsOf(ab)
    BY <1>1, <1>2 DEF StepsOf
  <2>3. ASSUME NEW i \in DOMAIN ab PROVE ab[i] \in StepsOf(a) \cup StepsOf(b)
    <3>1. CASE i \in 1 .. Len(a)
      BY <1>1, <1>2, <3>1 DEF StepsOf
    <3>2. CASE i - Len(a) \in 1 .. Len(b)
      <4>1. ab[i - Len(a) + Len(a)] = b[i - Len(a)]
        BY <1>2, <3>2
      <4>2. i - Len(a) + Len(a) = i
        BY <1>1, <2>3, <1>2, <3>2 DEF ab
      <4>3. QED BY <1>1, <3>2, <4>1, <4>2 DEF StepsOf
    <3>3. QED BY <1>2, <3>1, <3>2
  <2>4. QED BY <2>1, <2>2, <2>3 DEF StepsOf
<1>4. Mapped(ab) = Mapped(a) \cup Mapped(b)
  BY <1>3 DEF Mapped
<1>5. ASSUME NEW i \in DOMAIN ab
      PROVE  /\ ab[i] # MustOf(FALSE)
             /\ \A pages \in SUBSET Addressable : ab[i] = UseOf(pages) =>
                   \A p \in pages :
                        p \in known \/ \E j \in 1 .. i - 1 : ab[j] = MapOf(p)
  <2>1. CASE i \in 1 .. Len(a)
    <3>1. \A j \in 1 .. i - 1 : ab[j] = a[j]
      BY <1>1, <1>2, <2>1
    <3>2. i \in DOMAIN a /\ ab[i] = a[i]
      BY <1>1, <1>2, <2>1
    <3>3. a[i] # MustOf(FALSE)
      BY <3>2 DEF Fits
    <3>4. ASSUME NEW pages \in SUBSET Addressable, ab[i] = UseOf(pages),
                 NEW p \in pages
          PROVE  p \in known \/ \E j \in 1 .. i - 1 : ab[j] = MapOf(p)
      <4>1. p \in known \/ \E j \in 1 .. i - 1 : a[j] = MapOf(p)
        BY <3>2, <3>4 DEF Fits
      <4>2. QED BY <3>1, <4>1
    <3>5. QED BY <3>2, <3>3, <3>4
  <2>2. CASE i - Len(a) \in 1 .. Len(b)
    <3>1. PICK k \in 1 .. Len(b) : k = i - Len(a) /\ i = k + Len(a)
      BY <1>1, <2>2, <1>5 DEF ab
    <3>2. k \in DOMAIN b /\ ab[i] = b[k]
      BY <1>1, <1>2, <3>1
    <3>3. b[k] # MustOf(FALSE)
      BY <3>2 DEF Fits
    <3>4. ASSUME NEW pages \in SUBSET Addressable, ab[i] = UseOf(pages),
                 NEW p \in pages, p \notin known
          PROVE  \E j \in 1 .. i - 1 : ab[j] = MapOf(p)
      <4>1. CASE p \in Mapped(a)
        <5>1. PICK j \in 1 .. Len(a) : a[j] = MapOf(p)
          BY <1>1, <4>1 DEF Mapped, StepsOf
        <5>2. j \in 1 .. i - 1 /\ ab[j] = MapOf(p)
          BY <1>1, <1>2, <3>1, <5>1
        <5>3. QED BY <5>2
      <4>2. CASE p \notin Mapped(a)
        <5>1. PICK j \in 1 .. k - 1 : b[j] = MapOf(p)
          BY <3>2, <3>4, <4>2 DEF Fits
        <5>2. j + Len(a) \in 1 .. i - 1 /\ ab[j + Len(a)] = MapOf(p)
          BY <1>1, <1>2, <3>1, <5>1
        <5>3. QED BY <5>2
      <4>3. QED BY <4>1, <4>2
    <3>5. QED BY <3>2, <3>3, <3>4
  <2>3. QED BY <1>2, <2>1, <2>2
<1>6. Fits(ab, known)
  BY <1>5 DEF Fits
<1>7. QED BY <1>4, <1>6 DEF ab

(* Once a step is taken, the rest may use what it mapped. *)
LEMMA FitsTail ==
    ASSUME NEW q \in Seq(Step), q # << >>, NEW known, Fits(q, known)
    PROVE  Fits(Tail(q), known \cup {p \in Addressable : q[1] = MapOf(p)})
<1>1. /\ Len(q) \in Nat \ {0} /\ DOMAIN q = 1 .. Len(q)
      /\ DOMAIN Tail(q) = 1 .. Len(q) - 1
      /\ \A i \in 1 .. Len(q) - 1 : Tail(q)[i] = q[i + 1]
  OBVIOUS
<1> DEFINE t == Tail(q)
<1> HIDE DEF t
<1>2. /\ DOMAIN t = 1 .. Len(q) - 1
      /\ \A i \in 1 .. Len(q) - 1 : t[i] = q[i + 1]
  BY <1>1 DEF t
<1>3. ASSUME NEW i \in DOMAIN t
      PROVE  /\ t[i] # MustOf(FALSE)
             /\ \A pages \in SUBSET Addressable : t[i] = UseOf(pages) =>
                   \A p \in pages :
                     \/ p \in known \cup {r \in Addressable : q[1] = MapOf(r)}
                     \/ \E j \in 1 .. i - 1 : t[j] = MapOf(p)
  <2>1. i + 1 \in DOMAIN q /\ t[i] = q[i + 1] /\ i \in Nat
    BY <1>1, <1>2
  <2>2. q[i + 1] # MustOf(FALSE)
    BY <2>1 DEF Fits
  <2>3. ASSUME NEW pages \in SUBSET Addressable, t[i] = UseOf(pages),
               NEW p \in pages, p \notin known, q[1] # MapOf(p)
        PROVE  \E j \in 1 .. i - 1 : t[j] = MapOf(p)
    <3>1. PICK j \in 1 .. (i + 1) - 1 : q[j] = MapOf(p)
      BY <2>1, <2>3 DEF Fits
    <3>2. j - 1 \in 1 .. i - 1 /\ t[j - 1] = q[j]
      <4>1. j # 1
        BY <2>3, <3>1
      <4>2. j - 1 \in 1 .. i - 1 /\ j - 1 + 1 = j /\ j - 1 \in 1 .. Len(q) - 1
        BY <1>1, <1>2, <2>1, <3>1, <4>1
      <4>3. QED BY <1>2, <4>2
    <3>3. QED BY <3>1, <3>2
  <2>4. QED BY <2>1, <2>2, <2>3
<1>4. Fits(t, known \cup {p \in Addressable : q[1] = MapOf(p)})
  BY <1>3 DEF Fits
<1>5. QED BY <1>4 DEF t

(* Steps that can be taken where known is mapped, and that map pages.      *)
Goes(q, known, pages) ==
    q \in Seq(Step) /\ Fits(q, known) /\ pages \subseteq Mapped(q)

(* Steps that go on, and behind them others that rely on what those mapped. *)
LEMMA GoesThen ==
    ASSUME NEW a, NEW b, NEW known, NEW first, NEW second,
           Goes(a, known, first), Goes(b, known \cup first, second)
    PROVE  Goes(a \o b, known, first \cup second)
<1>1. a \in Seq(Step) /\ b \in Seq(Step) /\ Fits(a, known)
      /\ first \subseteq Mapped(a) /\ second \subseteq Mapped(b)
  BY DEF Goes
<1>2. Fits(b, known \cup Mapped(a))
  <2>1. Fits(b, known \cup first)
    BY DEF Goes
  <2>2. known \cup first \subseteq known \cup Mapped(a)
    BY <1>1
  <2>3. QED BY <2>1, <2>2, FitsMore
<1>3. Fits(a \o b, known) /\ Mapped(a \o b) = Mapped(a) \cup Mapped(b)
  BY <1>1, <1>2, FitsThen
<1>4. a \o b \in Seq(Step)
  BY <1>1, ConcatOf
<1>5. QED BY <1>1, <1>3, <1>4 DEF Goes

(* The single steps: an assertion that holds, a use of what is mapped, a   *)
(* map, and a call of phys_malloc, which kmain does not look at.           *)
LEMMA GoesOne ==
    ASSUME NEW s \in Step, NEW known,
           s # MustOf(FALSE),
           \A pages \in SUBSET Addressable :
                s = UseOf(pages) => pages \subseteq known
    PROVE  /\ Goes(<<s>>, known, {})
           /\ \A page \in Addressable :
                s = MapOf(page) => Goes(<<s>>, known, {page})
<1> DEFINE q == <<s>>
<1>1. q \in Seq(Step) /\ DOMAIN q = 1 .. 1 /\ q[1] = s /\ Len(q) = 1
  OBVIOUS
<1> HIDE DEF q
<1>2. Fits(q, known)
  <2>1. ASSUME NEW i \in DOMAIN q PROVE q[i] = s
    BY <1>1
  <2>2. QED BY <2>1 DEF Fits
<1>3. StepsOf(q) = {s}
  BY <1>1 DEF StepsOf
<1>4. \A page \in Addressable : s = MapOf(page) => page \in Mapped(q)
  BY <1>3 DEF Mapped
<1>5. QED BY <1>1, <1>2, <1>4 DEF Goes, q

(* An assertion that holds goes on. *)
LEMMA MustGoes ==
    ASSUME NEW holds \in BOOLEAN, holds, NEW known
    PROVE  Goes(Must(holds), known, {})
<1> DEFINE s == MustOf(holds)
<1>1. s \in Step
  BY DEF Step, MustOf
<1>2. s # MustOf(FALSE)
  <2>1. MustOf(holds).holds = holds /\ MustOf(FALSE).holds = FALSE
    BY DEF MustOf
  <2>2. holds # FALSE
    OBVIOUS
  <2>3. QED BY <2>1, <2>2, Zenon
<1>3. \A pages : s # UseOf(pages)
  BY DEF MustOf, UseOf
<1> HIDE DEF s
<1>4. Goes(<<s>>, known, {})
  BY <1>1, <1>2, <1>3, GoesOne
<1>5. Must(holds) = <<s>>
  BY DEF Must, MustOf, s
<1>6. QED BY <1>4, <1>5

(* An access to pages that are known to be mapped goes on. *)
LEMMA UseGoes ==
    ASSUME NEW pages \in SUBSET Addressable, NEW known, pages \subseteq known
    PROVE  Goes(Use(pages), known, {})
<1> DEFINE s == UseOf(pages)
<1>1. s \in Step
  BY DEF Step, UseOf
<1>2. s # MustOf(FALSE)
  BY DEF MustOf, UseOf
<1>3. \A others \in SUBSET Addressable : s = UseOf(others) => others \subseteq known
  <2>1. \A others : UseOf(others).pages = others
    BY DEF UseOf
  <2>2. QED BY <2>1
<1> HIDE DEF s
<1>4. Goes(<<s>>, known, {})
  BY <1>1, <1>2, <1>3, GoesOne
<1>5. Use(pages) = <<s>>
  BY DEF Use, UseOf, s
<1>6. QED BY <1>4, <1>5

(* A step of the heap goes on too, where it is intact (see NextSmooth).    *)
LEMMA HeapGoes ==
    ASSUME NEW known
    PROVE  Goes(UseHeap, known, {})
<1> DEFINE s == [do |-> "heap"]
<1>1. s \in Step
  BY DEF Step
<1>2. s # MustOf(FALSE) /\ \A pages : s # UseOf(pages)
  BY DEF MustOf, UseOf
<1> HIDE DEF s
<1>3. Goes(<<s>>, known, {})
  BY <1>1, <1>2, GoesOne
<1>4. QED BY <1>3 DEF UseHeap, s

(* A mapping goes on, and its page is known from then on. *)
LEMMA MapGoes ==
    ASSUME NEW page \in MappedPages, NEW known
    PROVE  Goes(Map(page), known, {page})
<1> DEFINE s == MapOf(page)
<1>1. s \in Step
  BY DEF Step, MapOf
<1>2. s # MustOf(FALSE) /\ \A pages : s # UseOf(pages)
  BY DEF MustOf, UseOf, MapOf
<1> HIDE DEF s
<1>3. page \in Addressable
  BY MappedAddressable
<1>4. Goes(<<s>>, known, {page})
  BY <1>1, <1>2, <1>3, GoesOne DEF s
<1>5. Map(page) = <<s>>
  BY DEF Map, MapOf, s
<1>6. QED BY <1>4, <1>5

(* A framebuffer that starts at a page and is as small as asserted lies in *)
(* the pages that virtmem_init maps for it (virtmem.c:163-170).            *)
LEMMA FbIsMapped ==
    ASSUME NEW addr \in Nat, NEW size \in Nat, addr % PageSize = 0,
           size < FbPages * PageSize, NEW a \in addr .. addr + size - 1
    PROVE  \E i \in 1 .. FbPages : PageOf(a) = PageOf(addr) + i - 1
<1>1. PICK P \in Nat \ {0}, n \in Nat : P = PageSize /\ n = FbPages
  BY Constants
<1>2. PICK d \in Nat : d = addr \div P /\ addr = d * P
  <2>1. addr \div P \in Nat /\ addr = (addr \div P) * P + (addr % P)
    BY DivMod
  <2>2. PICK x \in Nat : x = addr \div P
    BY <2>1
  <2>3. addr % P = 0
    BY <1>1
  <2>4. x * P + 0 = x * P
    OBVIOUS
  <2>5. QED BY <2>1, <2>2, <2>3, <2>4
<1>3. PICK e \in Nat : e = a \div P /\ e * P <= a
  <2>1. a \in Nat
    OBVIOUS
  <2>2. QED BY <2>1, DivMod
<1>4. d <= e
  <2>1. a \in Nat /\ addr <= a
    OBVIOUS
  <2>2. addr \div P <= a \div P
    BY <2>1, DivMonotone
  <2>3. QED BY <1>2, <1>3, <2>2
<1>5. e < d + n
  <2>1. SUFFICES ASSUME d + n <= e PROVE FALSE
    BY <1>1, <1>2, <1>3
  <2>2. (d + n) * P <= e * P /\ (d + n) * P \in Nat
    BY <2>1, WordsMonotone
  <2>3. (d + n) * P = d * P + n * P /\ d * P \in Nat /\ n * P \in Nat
        /\ e * P \in Nat
    OBVIOUS
  <2>4. size < n * P
    BY <1>1
  <2>5. QED BY <1>2, <1>3, <2>2, <2>3, <2>4
<1>6. e - d + 1 \in 1 .. n /\ e = d + (e - d + 1) - 1
  BY <1>4, <1>5
<1>7. PageOf(a) = e /\ PageOf(addr) = d
  BY <1>1, <1>2, <1>3 DEF PageOf
<1>8. QED BY <1>1, <1>6, <1>7

(* virtmem_init maps the framebuffer it then clears (virtmem.c:157-175).   *)
LEMMA VirtmemGoes ==
    ASSUME NEW m \in Machines, NEW f \in {NoFb, m.fb},
           f.addr % PageSize = 0, f.size < FbPages * PageSize
    PROVE  Goes(virtmem_init(f), {}, FbUsed(f))
<1> DEFINE fbPages == {PageOf(f.addr) + i - 1 : i \in 1 .. FbPages}
           maps == [i \in 1 .. FbPages |-> Map(PageOf(f.addr) + i - 1)[1]]
           holds == f.size < FbPages * PageSize
           s == MallocOf(ScratchPages * PageSize)
<1>1. FbUsed(f) \subseteq fbPages
  <2>1. f.addr \in Nat /\ f.size \in Nat
    BY Pages
  <2>2. ASSUME NEW a \in f.addr .. f.addr + f.size - 1
        PROVE  PageOf(a) \in fbPages
    BY <2>1, FbIsMapped
  <2>3. QED BY <2>2 DEF FbUsed
<1>2. Goes(maps, {}, fbPages)
  <2>1. ASSUME NEW i \in 1 .. FbPages
        PROVE  /\ maps[i] \in Step /\ maps[i] = MapOf(PageOf(f.addr) + i - 1)
               /\ PageOf(f.addr) + i - 1 \in Addressable
               /\ maps[i] # MustOf(FALSE)
               /\ \A pages : maps[i] # UseOf(pages)
    <3>1. PICK p \in MappedPages \cap Addressable : p = PageOf(f.addr) + i - 1
      BY Pages
    <3>2. maps[i] = MapOf(p)
      BY <3>1 DEF Map, MapOf
    <3>3. MapOf(p) \in Step
      BY DEF Step, MapOf
    <3>4. MapOf(p) # MustOf(FALSE) /\ \A pages : MapOf(p) # UseOf(pages)
      BY DEF MapOf, MustOf, UseOf
    <3>5. QED BY <3>1, <3>2, <3>3, <3>4
  <2>2. DOMAIN maps = 1 .. FbPages /\ FbPages \in Nat
    BY Constants
  <2>3. maps \in Seq(Step)
    <3>1. maps \in [1 .. FbPages -> Step]
      BY <2>1
    <3> HIDE DEF maps
    <3>2. QED BY <2>2, <3>1
  <2> HIDE DEF maps
  <2>4. Fits(maps, {})
    BY <2>1, <2>2 DEF Fits
  <2>5. fbPages \subseteq Mapped(maps)
    BY <2>1, <2>2 DEF Mapped, StepsOf
  <2>6. QED BY <2>3, <2>4, <2>5 DEF Goes
<1>3. Goes(Must(holds), {}, {})
  <2>1. holds \in BOOLEAN /\ holds
    OBVIOUS
  <2> HIDE DEF holds
  <2>2. QED BY <2>1, MustGoes
<1>4. Goes(Malloc(ScratchPages * PageSize), {}, {})
  <2>1. s \in Step
    BY DEF Step, MallocOf
  <2>2. s # MustOf(FALSE) /\ \A pages : s # UseOf(pages)
    BY DEF MallocOf, MustOf, UseOf
  <2>3. Malloc(ScratchPages * PageSize) = <<s>>
    BY DEF Malloc, MallocOf
  <2> HIDE DEF s
  <2>4. Goes(<<s>>, {}, {})
    BY <2>1, <2>2, GoesOne
  <2>5. QED BY <2>3, <2>4
<1> HIDE DEF maps, holds, fbPages
<1>5. Goes(Malloc(ScratchPages * PageSize) \o Must(holds), {}, {})
  <2>1. {} \cup {} = {}
    OBVIOUS
  <2>2. Goes(Malloc(ScratchPages * PageSize) \o Must(holds), {}, {} \cup {})
    BY <1>3, <1>4, <2>1, GoesThen
  <2>3. QED BY <2>1, <2>2
<1>6. Goes(Malloc(ScratchPages * PageSize) \o Must(holds) \o maps, {},
           {} \cup fbPages)
  <2>1. {} \cup {} = {}
    OBVIOUS
  <2>2. QED BY <1>2, <1>5, <2>1, GoesThen
<1>7. QED BY <1>1, <1>6 DEF virtmem_init, maps, holds, Goes

(* A signature that some table has is found, and all tables that are read  *)
(* on the way are in one page (acpi.c).                                    *)
LEMMA FindGoes ==
    ASSUME NEW m \in Machines, NEW sig, NEW known, m.xsdt \in known,
           sig \in {m.tables[i].sig : i \in DOMAIN m.tables},
           \A i \in DOMAIN m.tables : m.tables[i].page = m.xsdt
    PROVE  Found(m, sig) # {} /\ Goes(acpi_find_tbl(m, sig), known, {})
<1> DEFINE with == {i \in DOMAIN m.tables : m.tables[i].sig = sig}
           pages == {m.tables[i].page : i \in {j \in DOMAIN m.tables :
                                    \A k \in Found(m, sig) : j <= k}}
<1>1. DOMAIN m.tables = 1 .. Len(m.tables) /\ Len(m.tables) \in Nat
  BY Pages
<1>2. PICK i \in with : \A j \in with : i <= j
  <2>1. with # {} /\ with \in SUBSET Nat
    BY <1>1
  <2> HIDE DEF with
  <2>2. QED BY <2>1, LeastElement
<1>3. i \in Found(m, sig)
  <2>1. \A j \in 1 .. i - 1 : j \in DOMAIN m.tables /\ j \notin with
    BY <1>1, <1>2
  <2>2. QED BY <1>2, <2>1 DEF Found
<1>4. pages \in SUBSET Addressable /\ pages \subseteq known
  <2>1. \A x \in pages : x = m.xsdt
    OBVIOUS
  <2>2. m.xsdt \in Addressable
    BY Pages
  <2>3. QED BY <2>1, <2>2
<1> HIDE DEF pages
<1>5. Goes(Use(pages), known, {})
  BY <1>4, UseGoes
<1>6. Goes(Must(Found(m, sig) # {}), known \cup {}, {})
  BY <1>3, MustGoes
<1>7. Goes(Use(pages) \o Must(Found(m, sig) # {}), known, {} \cup {})
  BY <1>5, <1>6, GoesThen
<1>8. {} \cup {} = {}
  OBVIOUS
<1>9. QED BY <1>3, <1>7, <1>8 DEF acpi_find_tbl, pages

(* Each driver uses its registers behind their map (acpi.c, apic.c,        *)
(* ioapic.c).                                                              *)
LEMMA DriversGo ==
    ASSUME NEW m \in Machines, NEW known, m.ioapic >= 2 * KernelSize,
           "APIC" \in {m.tables[i].sig : i \in DOMAIN m.tables},
           \A i \in DOMAIN m.tables : m.tables[i].page = m.xsdt
    PROVE  /\ Goes(acpi_init(m, 2), known, {m.xsdt})
           /\ Goes(apic_init(m), known, {m.lapic})
           /\ Goes(ioapic_init(m), known, {m.ioapic})
<1>1. /\ {m.xsdt} \in SUBSET Addressable /\ {m.lapic} \in SUBSET Addressable
      /\ {m.ioapic} \in SUBSET Addressable
      /\ m.xsdt \in MappedPages /\ m.lapic \in MappedPages
      /\ m.ioapic \in MappedPages
  BY Pages
<1>2. Goes(acpi_init(m, 2), known, {m.xsdt})
  <2>1. Goes(Must(2 # None), known, {})
    <3>1. (2 # None) \in BOOLEAN /\ 2 # None
      BY Constants
    <3>2. QED BY <3>1, MustGoes
  <2>2. Goes(Map(m.xsdt), known \cup {}, {m.xsdt})
    BY <1>1, MapGoes
  <2>3. Goes(Must(2 # None) \o Map(m.xsdt), known, {} \cup {m.xsdt})
    BY <2>1, <2>2, GoesThen
  <2>4. Goes(Use({m.xsdt}), known \cup ({} \cup {m.xsdt}), {})
    BY <1>1, UseGoes
  <2>5. Goes(Must(2 # None) \o Map(m.xsdt) \o Use({m.xsdt}), known,
             {} \cup {m.xsdt} \cup {})
    BY <2>3, <2>4, GoesThen
  <2>6. Goes(Must(2 = 2), known \cup ({} \cup {m.xsdt} \cup {}), {})
    BY MustGoes
  <2>7. Goes(Must(2 # None) \o Map(m.xsdt) \o Use({m.xsdt}) \o Must(2 = 2),
             known, {} \cup {m.xsdt} \cup {} \cup {})
    BY <2>5, <2>6, GoesThen
  <2>8. Goes(acpi_find_tbl(m, "APIC"),
             known \cup ({} \cup {m.xsdt} \cup {} \cup {}), {})
    BY FindGoes
  <2>9. Goes(Must(2 # None) \o Map(m.xsdt) \o Use({m.xsdt}) \o Must(2 = 2)
                \o acpi_find_tbl(m, "APIC"), known, {m.xsdt})
    <3>1. {} \cup {m.xsdt} \cup {} \cup {} \cup {} = {m.xsdt}
      OBVIOUS
    <3>2. QED BY <2>7, <2>8, <3>1, GoesThen
  <2>10. Goes(UseHeap, known \cup {m.xsdt}, {})
    BY HeapGoes
  <2>11. Goes(acpi_init(m, 2), known, {m.xsdt} \cup {})
    BY <2>9, <2>10, GoesThen DEF acpi_init
  <2>12. {m.xsdt} \cup {} = {m.xsdt}
    OBVIOUS
  <2>13. QED BY <2>11, <2>12
<1>3. Goes(apic_init(m), known, {m.lapic})
  <2>1. Goes(UseHeap, known, {})
    BY HeapGoes
  <2>2. Goes(Map(m.lapic), known \cup {}, {m.lapic})
    BY <1>1, MapGoes
  <2>3. Goes(UseHeap \o Map(m.lapic), known, {} \cup {m.lapic})
    BY <2>1, <2>2, GoesThen
  <2>4. Goes(Use({m.lapic}), known \cup ({} \cup {m.lapic}), {})
    BY <1>1, UseGoes
  <2>5. Goes(apic_init(m), known, {} \cup {m.lapic} \cup {})
    BY <2>3, <2>4, GoesThen DEF apic_init
  <2>6. {} \cup {m.lapic} \cup {} = {m.lapic}
    OBVIOUS
  <2>7. QED BY <2>5, <2>6
<1>4. Goes(ioapic_init(m), known, {m.ioapic})
  <2> DEFINE holds == m.ioapic \notin KernelSize .. 2 * KernelSize - 1
  <2>1. holds \in BOOLEAN /\ holds
    <3>1. PICK k \in Nat, p \in Nat : k = KernelSize /\ p = m.ioapic
      <4>1. PICK top : Addressable = 0 .. top
        BY DEF Addressable
      <4>2. m.ioapic \in Nat
        BY <1>1, <4>1
      <4>3. KernelSize \in Nat
        BY Constants
      <4>4. QED BY <4>2, <4>3
    <3>2. p \notin k .. 2 * k - 1
      BY <3>1
    <3>3. QED BY <3>1, <3>2
  <2> HIDE DEF holds
  <2>2. Goes(Must(holds), known \cup {}, {})
    BY <2>1, MustGoes
  <2>3. Goes(UseHeap \o Must(holds), known, {} \cup {})
    BY <2>2, HeapGoes, GoesThen
  <2>4. Goes(Map(m.ioapic), known \cup ({} \cup {}), {m.ioapic})
    BY <1>1, MapGoes
  <2>5. Goes(UseHeap \o Must(holds) \o Map(m.ioapic), known,
             {} \cup {} \cup {m.ioapic})
    BY <2>3, <2>4, GoesThen
  <2>6. Goes(Use({m.ioapic}), known \cup ({} \cup {} \cup {m.ioapic}), {})
    BY <1>1, UseGoes
  <2>7. Goes(UseHeap \o Must(holds) \o Map(m.ioapic) \o Use({m.ioapic}),
             known, {} \cup {} \cup {m.ioapic} \cup {})
    BY <2>5, <2>6, GoesThen
  <2>8. {} \cup {} \cup {m.ioapic} \cup {} = {m.ioapic}
    OBVIOUS
  <2>9. QED BY <2>7, <2>8 DEF ioapic_init, holds
<1>5. QED BY <1>2, <1>3, <1>4

(* The HPET's driver uses its registers where the driver of an APIC mapped *)
(* them (hpet.c:31).                                                       *)
LEMMA HpetGoes ==
    ASSUME NEW m \in Machines, NEW known, m.hpet \in known, m.xsdt \in known,
           "HPET" \in {m.tables[i].sig : i \in DOMAIN m.tables},
           \A i \in DOMAIN m.tables : m.tables[i].page = m.xsdt
    PROVE  Goes(hpet_init(m), known, {})
<1> DEFINE page == m.tables[CHOOSE i \in Found(m, "HPET") : TRUE].page
<1>1. Found(m, "HPET") # {} /\ Goes(acpi_find_tbl(m, "HPET"), known, {})
  BY FindGoes
<1>2. page = m.xsdt
  <2>1. (CHOOSE i \in Found(m, "HPET") : TRUE) \in DOMAIN m.tables
    BY <1>1 DEF Found
  <2>2. QED BY <2>1
<1>3. Goes(Map(page), known \cup {}, {page})
  <2>1. page \in MappedPages
    BY <1>2, Pages
  <2> HIDE DEF page
  <2>2. QED BY <2>1, MapGoes
<1> HIDE DEF page
<1>4. Goes(acpi_find_tbl(m, "HPET") \o Map(page), known, {} \cup {page})
  BY <1>1, <1>3, GoesThen
<1>5. Goes(Use({m.hpet}), known \cup ({} \cup {page}), {})
  <2>1. {m.hpet} \in SUBSET Addressable
    BY Pages
  <2>2. QED BY <2>1, UseGoes
<1>6. Goes(acpi_find_tbl(m, "HPET") \o Map(page) \o Use({m.hpet}), known,
           {} \cup {page} \cup {})
  BY <1>4, <1>5, GoesThen
<1>7. QED BY <1>1, <1>6 DEF hpet_init, page, Goes

(* All of kmain (kernel.c:165-187). *)
LEMMA KmainGoes ==
    ASSUME machine \in Machines, fb \in {NoFb, machine.fb}, Usual
    PROVE  Fits(kmain(machine, fb, 2), {})
<1> DEFINE used == FbUsed(fb)
           xsdt == {machine.xsdt}
           lapic == {machine.lapic}
           ioapic == {machine.ioapic}
<1>1. Goes(virtmem_init(fb), {}, used)
  <2>1. fb.addr % PageSize = 0 /\ fb.size < FbPages * PageSize
    <3>1. CASE fb = machine.fb
      BY <3>1 DEF Usual
    <3>2. CASE fb = NoFb
      <4>1. PICK n \in Nat, s \in Nat : n = FbPages * PageSize
                                         /\ s = machine.fb.size /\ s < n
        <5>1. machine.fb.size \in Nat
          BY Pages
        <5>2. PICK a \in Nat, b \in Nat : a = FbPages /\ b = PageSize
          BY Constants
        <5>3. a * b \in Nat
          BY <5>2, WordsMonotone
        <5>4. QED BY <5>1, <5>2, <5>3 DEF Usual
      <4>2. 0 < FbPages * PageSize
        BY <4>1
      <4>3. 0 % PageSize = 0
        BY Constants
      <4>4. QED BY <3>2, <4>2, <4>3 DEF NoFb
    <3>3. QED BY <3>1, <3>2
  <2>2. QED BY <2>1, VirtmemGoes
<1>2. Goes(Use(FbUsed(fb)), {} \cup used, {})
  <2>1. FbUsed(fb) \in SUBSET Addressable
    BY Pages
  <2>2. QED BY <2>1, UseGoes
<1>3. \A known : /\ Goes(acpi_init(machine, 2), known, xsdt)
                 /\ Goes(apic_init(machine), known, lapic)
                 /\ Goes(ioapic_init(machine), known, ioapic)
  BY DriversGo DEF Usual
<1>4. \A known : machine.hpet \in known /\ machine.xsdt \in known
                    => Goes(hpet_init(machine), known, {})
  BY HpetGoes DEF Usual
<1> HIDE DEF used, xsdt, lapic, ioapic
<1>5. Goes(virtmem_init(fb) \o UseHeap \o Use(FbUsed(fb)), {}, used \cup {})
  <2>1. Goes(UseHeap, {} \cup used, {})
    BY HeapGoes
  <2>2. Goes(virtmem_init(fb) \o UseHeap, {}, used \cup {})
    BY <1>1, <2>1, GoesThen
  <2>3. used \cup {} = used
    OBVIOUS
  <2>4. QED BY <1>2, <2>2, <2>3, GoesThen
<1>6. Goes(virtmem_init(fb) \o UseHeap \o Use(FbUsed(fb))
                \o acpi_init(machine, 2), {},
           used \cup {} \cup xsdt)
  BY <1>3, <1>5, GoesThen
<1>7. Goes(virtmem_init(fb) \o UseHeap \o Use(FbUsed(fb))
                \o acpi_init(machine, 2) \o apic_init(machine), {},
           used \cup {} \cup xsdt \cup lapic)
  BY <1>3, <1>6, GoesThen
<1>8. Goes(virtmem_init(fb) \o UseHeap \o Use(FbUsed(fb))
                \o acpi_init(machine, 2) \o apic_init(machine) \o ioapic_init(machine), {},
           used \cup {} \cup xsdt \cup lapic \cup ioapic)
  BY <1>3, <1>7, GoesThen
<1>9. Goes(hpet_init(machine),
           {} \cup (used \cup {} \cup xsdt \cup lapic \cup ioapic), {})
  <2>1. machine.hpet \in {machine.ioapic, machine.lapic}
    BY DEF Usual
  <2>2. QED BY <1>4, <2>1 DEF xsdt, lapic, ioapic
<1>10. Goes(kmain(machine, fb, 2), {},
            used \cup {} \cup xsdt \cup lapic \cup ioapic \cup {})
  BY <1>8, <1>9, GoesThen DEF kmain
<1>11. QED BY <1>10 DEF Goes

-----------------------------------------------------------------------------
(* The invariant: kmain goes on, its next steps can be taken, and a call   *)
(* of virt_map_page that has not ended has mapped its page.                *)

Known == {p \in Addressable : PT!Translate(VirtOf(p)) = p}

Smooth ==
    /\ stage \in {"tags", "init", "run"}
    /\ stage = "tags" => /\ rsdp = 2 \/ "acpi_new" \in tags
                         /\ pmStatus = "running" \/ "mmap" \in tags
    /\ stage = "init" => Fits(todo, Known)
    /\ ~ flushed => /\ stage = "init" /\ todo # << >> /\ todo[1].do = "map"
                    /\ todo[1].page \in Known

(* Nothing is unmapped: a page that is known stays so.                     *)
LEMMA KnownGrows ==
    ASSUME \A p \in Addressable :
                PT!Translate(VirtOf(p))' \in {p, PT!Translate(VirtOf(p))}
    PROVE  Known \subseteq Known'
<1>1. ASSUME NEW p \in Addressable, PT!Translate(VirtOf(p)) = p
      PROVE  PT!Translate(VirtOf(p))' = p
  BY <1>1
<1>2. QED BY <1>1 DEF Known

(* On such a machine there is memory, so physmem_init divides by no zero   *)
(* and kmain does not panic (physmem.c:23, kernel.c:89).                   *)
LEMMA BootRuns ==
    ASSUME machine \in Machines, Roomy, PM!physmem_init(machine.map)
    PROVE  pmStatus' = "running" /\ ~ NoMemory(machine.map)
<1>1. machine.map \in {m.map : m \in Machines} /\ LowPages < IntBits
  BY Constants
<1>2. PICK top \in Nat, low \in Nat : /\ top = Top /\ low = LowPages
                                      /\ low <= top
                                      /\ top \in low .. low + ScratchPages
  BY Constants DEF Top
<1>3. /\ PM!TidyMap(machine.map)
      /\ PM!WordPages(top) \subseteq
                PM!AvailablePages(machine.map) \cup 0 .. LowPages - 1
  BY <1>2 DEF Roomy
<1>4. top < mm_end' * WordBits
  BY <1>1, <1>2, <1>3, PM!BootGives, ComponentsAssumption
<1>5. mm_end' # 0
  <2>1. 0 * WordBits = 0
    BY Constants
  <2>2. QED BY <1>4, <2>1
<1>6. pmStatus' = "running"
  BY <1>5 DEF PM!physmem_init
<1>7. top \in PM!AvailablePages(machine.map)
  <2>1. top \in PM!WordPages(top)
    BY PM!WordOf, ComponentsAssumption
  <2>2. QED BY <1>2, <1>3, <2>1
<1>8. PICK i \in DOMAIN machine.map :
            /\ machine.map[i].avail
            /\ machine.map[i].addr <= top * PageSize
            /\ (top + 1) * PageSize <= machine.map[i].addr + machine.map[i].len
  BY <1>7 DEF PM!AvailablePages
<1>9. machine.map[i].len # 0
  <2>1. PICK a \in Nat, l \in Nat : /\ a = machine.map[i].addr
                                    /\ l = machine.map[i].len
    BY <1>1, PM!MapFacts, ComponentsAssumption
  <2>2. PICK s \in Nat \ {0} : s = PageSize
    BY Constants
  <2>3. (top + 1) * s = top * s + s /\ top * s \in Nat
    OBVIOUS
  <2>4. a <= top * s /\ top * s + s <= a + l
    BY <1>8, <2>1, <2>2, <2>3
  <2>5. l # 0
    BY <2>3, <2>4
  <2>6. QED BY <2>1, <2>5
<1>10. QED BY <1>6, <1>8, <1>9 DEF NoMemory

(* The invariant holds after a step that is taken off todo.                *)
LEMMA DoneSmooth ==
    ASSUME BootInv, Smooth, NEW what, Doing(what), Done, flushed' = TRUE,
           \A p \in Addressable :
                PT!Translate(VirtOf(p))' \in {p, PT!Translate(VirtOf(p))},
           what = "map" => todo[1].page \in Known
    PROVE  Smooth'
<1>1. /\ stage = "init" /\ todo # << >> /\ todo[1].do = what
      /\ todo' = Tail(todo) /\ stage' = "init" /\ todo \in Seq(Step)
  BY DEF Doing, Done, BootInv
<1>2. {p \in Addressable : todo[1] = MapOf(p)} \subseteq Known
  <2>1. ASSUME NEW p \in Addressable, todo[1] = MapOf(p) PROVE p \in Known
    <3>1. MapOf(p).do = "map" /\ MapOf(p).page = p
      BY DEF MapOf
    <3>2. QED BY <1>1, <2>1, <3>1
  <2>2. QED BY <2>1
<1>3. Known \subseteq Known'
  BY KnownGrows
<1>4. Fits(todo, Known)
  BY <1>1 DEF Smooth
<1>5. Fits(Tail(todo), Known \cup {p \in Addressable : todo[1] = MapOf(p)})
  BY <1>1, <1>4, FitsTail
<1>6. Fits(Tail(todo), Known')
  <2>1. Known \cup {p \in Addressable : todo[1] = MapOf(p)} \subseteq Known'
    BY <1>2, <1>3
  <2> DEFINE known == Known \cup {p \in Addressable : todo[1] = MapOf(p)}
             more == Known'
             rest == Tail(todo)
  <2> HIDE DEF known, more, rest
  <2>2. Fits(rest, more)
    BY <1>5, <2>1, FitsMore DEF known, more, rest
  <2>3. QED BY <2>2 DEF more, rest
<1>7. Fits(todo, Known)'
  BY <1>1, <1>6 DEF Fits
<1>8. QED BY <1>1, <1>7 DEF Smooth

(* Each step of kmain goes on to the next one (kernel.c:27-187).           *)
LEMMA NextSmooth ==
    ASSUME PT!Enough, BootInv, Placed, Roomy, Usual, HeapInMemory, Smooth,
           [Next]_vars
    PROVE  Smooth'
<1> DEFINE Stays == \A p \in Addressable :
                PT!Translate(VirtOf(p))' \in {p, PT!Translate(VirtOf(p))}
<1>1. PM!IInv /\ PT!TablesInv /\ machine \in Machines
      /\ fb \in {NoFb, machine.fb} /\ rsdp \in {None, 0, 2}
      /\ todo \in Seq(Step)
  BY DEF BootInv
<1>2. ASSUME UNCHANGED tableVars PROVE Stays /\ flushed' = flushed
  BY <1>1, <1>2, TablesStay DEF tableVars
<1>3. ASSUME UNCHANGED <<pmStatus, tags, rsdp, todo, stage, flushed>>, Stays
      PROVE  Smooth'
  <2>1. Known \subseteq Known'
    BY <1>3, KnownGrows
  <2>2. stage = "init" => Fits(todo, Known')
    <3>1. stage = "init" => Fits(todo, Known)
      BY DEF Smooth
    <3> DEFINE more == Known'
    <3> HIDE DEF more
    <3>2. Known \subseteq more
      BY <2>1 DEF more
    <3>3. stage = "init" => Fits(todo, more)
      BY <3>1, <3>2, FitsMore
    <3>4. QED BY <3>3 DEF more
  <2>3. stage' = "init" => Fits(todo, Known)'
    BY <1>3, <2>2 DEF Fits
  <2>4. QED BY <1>3, <2>1, <2>3 DEF Smooth
<1>4. CASE UNCHANGED vars
  <2>1. UNCHANGED physVars /\ UNCHANGED tableVars
        /\ UNCHANGED <<bootVars, tags, todo, stage>>
    BY <1>4 DEF vars
  <2>2. QED BY <1>2, <1>3, <2>1 DEF physVars, bootVars
<1>5. CASE read_tag
  <2>1. stage = "tags" /\ flushed = TRUE
    <3>1. stage = "tags"
      BY <1>5 DEF read_tag
    <3>2. flushed \in BOOLEAN => flushed = TRUE
      BY <3>1 DEF Smooth
    <3>3. flushed
      BY <3>1 DEF Smooth
    <3>4. QED BY <3>1, <3>3
  <2>2. CASE mmap_tag
    <3>1. PM!physmem_init(machine.map) /\ flushed' = flushed /\ rsdp' = rsdp
          /\ tags' = tags \ {"mmap"}
      BY <2>2 DEF mmap_tag, tableVars, bootVars
    <3>2. pmStatus' = "running" /\ ~ NoMemory(machine.map)
      BY <1>1, <3>1, BootRuns
    <3>3. stage' = "tags"
      BY <2>1, <2>2, <3>2 DEF mmap_tag
    <3>4. QED BY <2>1, <3>1, <3>2, <3>3 DEF Smooth
  <2>3. CASE framebuffer_tag
    <3>1. /\ flushed' = flushed /\ rsdp' = rsdp /\ pmStatus' = pmStatus
          /\ tags' = tags \ {"framebuffer"} /\ stage' = stage
      BY <2>3 DEF framebuffer_tag, tableVars, physVars
    <3>2. QED BY <2>1, <3>1 DEF Smooth
  <2>4. ASSUME NEW tag \in {"acpi_old", "acpi_new"}, acpi_tag(tag)
        PROVE  Smooth'
    <3>1. /\ flushed' = flushed /\ pmStatus' = pmStatus
          /\ tags' = tags \ {tag} /\ stage' = stage
          /\ rsdp' = IF rsdp # None /\ rsdp > Revision(tag) THEN rsdp
                                                       ELSE Revision(tag)
      BY <2>4 DEF acpi_tag, tableVars, physVars
    <3>2. rsdp' = 2 \/ "acpi_new" \in tags'
      <4>1. CASE tag = "acpi_new"
        <5>1. Revision(tag) = 2
          BY <4>1 DEF Revision
        <5>2. ~ (rsdp # None /\ rsdp > 2)
          BY <1>1
        <5>3. QED BY <3>1, <5>1, <5>2
      <4>2. CASE tag = "acpi_old"
        <5>1. Revision(tag) = 0
          BY <4>2 DEF Revision
        <5>2. rsdp = 2 => rsdp' = 2
          BY <3>1, <5>1, Constants
        <5>3. "acpi_new" \in tags => "acpi_new" \in tags'
          BY <3>1, <4>2
        <5>4. QED BY <2>1, <5>2, <5>3 DEF Smooth
      <4>3. QED BY <4>1, <4>2
    <3>3. "mmap" \in tags => "mmap" \in tags'
      BY <3>1
    <3>4. QED BY <2>1, <3>1, <3>2, <3>3 DEF Smooth
  <2>5. QED BY <1>5, <2>2, <2>3, <2>4 DEF read_tag
<1>6. CASE tags_end
  <2>1. pmStatus = "running" /\ rsdp = 2 /\ stage = "tags" /\ flushed
    BY <1>6 DEF tags_end, Smooth
  <2>2. /\ stage' = "init" /\ todo' = kmain(machine, fb, 2)
        /\ flushed' = flushed
    BY <1>6, <2>1 DEF tags_end, tableVars
  <2>3. Fits(todo, Known)'
    <3> DEFINE more == Known'
               q == kmain(machine, fb, 2)
    <3>1. Fits(q, {})
      BY <1>1, KmainGoes
    <3> HIDE DEF more, q
    <3>2. Fits(q, more)
      BY <3>1, FitsMore
    <3>3. QED BY <2>2, <3>2 DEF more, q, Fits
  <2>4. QED BY <2>1, <2>2, <2>3 DEF Smooth
<1>7. ASSUME NEW what, what # "map", Doing(what), Done, Stays,
             flushed' = flushed
      PROVE  Smooth'
  <2>1. todo[1].do # "map"
    BY <1>7 DEF Doing
  <2>2. flushed
    BY <2>1 DEF Smooth
  <2>3. flushed' = TRUE
    <3>1. flushed = TRUE
      BY <1>1, <2>2, PT!KernelStays DEF Smooth
    <3>2. QED BY <1>7, <3>1
  <2>4. QED BY <1>7, <2>3, DoneSmooth
<1>8. CASE must
  <2>1. Doing("must") /\ Stays /\ flushed' = flushed
    BY <1>2, <1>8 DEF must
  <2>2. todo[1].holds
    <3>1. stage = "init" /\ todo # << >> /\ todo[1] \in Step
          /\ todo[1].do = "must" /\ 1 \in DOMAIN todo
      BY <1>1, <2>1, StepTaken
    <3>2. PICK holds \in BOOLEAN : todo[1] = MustOf(holds)
      BY <3>1 DEF Step, MustOf
    <3>3. todo[1] # MustOf(FALSE)
      BY <3>1 DEF Smooth, Fits
    <3>4. holds
      BY <3>2, <3>3
    <3>5. QED BY <3>2, <3>4 DEF MustOf
  <2>3. Done
    BY <1>8, <2>2 DEF must, StopIf
  <2>4. QED BY <1>7, <2>1, <2>3
<1>9. CASE malloc
  <2>1. Doing("malloc") /\ Done /\ Stays /\ flushed' = flushed
    BY <1>2, <1>9 DEF malloc
  <2>2. QED BY <1>7, <2>1
<1>10. CASE use
  <2>1. Doing("use") /\ Stays /\ flushed' = flushed
    BY <1>2, <1>10 DEF use
  <2>2. Reachable(todo[1].pages)
    <3>1. stage = "init" /\ todo # << >> /\ todo[1] \in Step
          /\ todo[1].do = "use" /\ 1 \in DOMAIN todo
      BY <1>1, <2>1, StepTaken
    <3>2. PICK pages \in SUBSET Addressable : todo[1] = UseOf(pages)
      BY <3>1 DEF Step, UseOf
    <3>3. ASSUME NEW p \in pages PROVE p \in Known
      <4>1. p \in Known \/ \E j \in 1 .. 1 - 1 : todo[j] = MapOf(p)
        BY <3>1, <3>2 DEF Smooth, Fits
      <4>2. QED BY <4>1
    <3>4. Reachable(pages)
      BY <3>3 DEF Reachable, Known
    <3>5. QED BY <3>2, <3>4 DEF UseOf
  <2>3. Done
    BY <1>10, <2>2 DEF use, StopIf
  <2>4. QED BY <1>7, <2>1, <2>3
<1>11. CASE map
  <2>1. Doing("map") /\ stage = "init" /\ todo # << >> /\ todo[1].do = "map"
    BY <1>11 DEF map, Doing
  <2>2. PICK page \in MappedPages : todo[1].page = page
    BY <2>1, StepTaken DEF Step
  <2>3. cur \in {0, 1} /\ 1 \in TableBlocks
    BY <1>1, PT!KernelStays, ComponentsAssumption
  <2>4. PT!Reach(VirtOf(page)).cur # cur
            => /\ PM!Starts(1) # {} /\ ~ (PM!FirstStart(1) >= KernelSize)
    <3>1. SUFFICES ASSUME PT!Reach(VirtOf(page)).cur # cur
                   PROVE  PM!Starts(1) # {}
                          /\ ~ (PM!FirstStart(1) >= KernelSize)
      OBVIOUS
    <3>2. PT!Reach(VirtOf(page)).cur \in {cur, 1}
      <4>1. VirtOf(page) \in {VirtOf(q) : q \in MappedPages}
        OBVIOUS
      <4>2. QED BY <1>1, <4>1, PT!CallStaysInBlock, ComponentsAssumption
    <3>3. cur = 0
      BY <2>3, <3>1, <3>2
    <3>4. ~ Early(todo)
      BY <2>1 DEF Early, MallocOf
    <3>5. /\ held[Scratch] = ScratchBlock /\ pmStatus = "running"
          /\ Top + 1 <= mm_end * WordBits /\ Top \notin pmm
      BY <2>1, <3>3, <3>4 DEF Placed
    <3>6. PM!Starts(1) # {} /\ PM!FirstStart(1) = Top
      BY <1>1, <2>3, <3>5, TablesBehind
    <3>7. Top \in Nat /\ KernelSize \in Nat /\ Top < KernelSize
      <4>1. PICK p : p \in Top + 1 .. KernelSize - 1
        BY KernelMemoryAssumption DEF Top
      <4>2. QED BY <4>1, Constants DEF Top
    <3>8. QED BY <3>6, <3>7
  <2>5. /\ PT!virt_map_page(VirtOf(page), page)
        /\ UNCHANGED <<todo, stage, tags, rsdp>>
        /\ \/ UNCHANGED physVars
           \/ PM!phys_malloc(cur', PageSize)
    BY <1>11, <2>2, <2>4 DEF map, bootVars
  <2>6. Stays
    BY <1>1, <2>5, MapOne
  <2>7. page \in Known'
    <3>1. PT!Translate(VirtOf(page))' = page
      <4>1. VirtOf(page) \in {VirtOf(q) : q \in MappedPages}
        OBVIOUS
      <4>2. QED BY <1>1, <2>5, <4>1, PT!MapCall, ComponentsAssumption
    <3>2. page \in Addressable
      BY MappedAddressable
    <3>3. QED BY <3>1, <3>2 DEF Known
  <2>8. Fits(todo, Known)'
    <3> DEFINE more == Known'
    <3>1. Fits(todo, Known)
      BY <2>1 DEF Smooth
    <3>2. Known \subseteq more
      BY <2>6, KnownGrows
    <3> HIDE DEF more
    <3>3. Fits(todo, more)
      BY <3>1, <3>2, FitsMore
    <3>4. QED BY <2>5, <3>3 DEF more, Fits
  <2>9. QED BY <2>1, <2>2, <2>5, <2>7, <2>8 DEF Smooth
<1>12. CASE flush
  <2>1. Doing("map") /\ Done /\ PT!flush_tlb
    BY <1>12 DEF flush
  <2>2. Stays /\ ~ flushed /\ flushed' = TRUE
    BY <1>1, <2>1, PT!FlushCall, ComponentsAssumption DEF PT!flush_tlb
  <2>3. todo[1].page \in Known
    BY <2>2 DEF Smooth
  <2>4. QED BY <2>1, <2>2, <2>3, DoneSmooth
<1>13. CASE main_loop
  <2>1. stage' = "run" /\ todo = << >> /\ flushed' = flushed
    BY <1>13 DEF main_loop, tableVars
  <2>2. QED BY <2>1 DEF Smooth
<1>14. CASE heap
  <2>1. Doing("heap") /\ Stays /\ flushed' = flushed
    BY <1>2, <1>14 DEF heap
  <2>2. HeapIsIntact
    <3>1. cur \in {0, 1}
      BY <1>1, PT!KernelStays, ComponentsAssumption
    <3>2. OneUse
      BY <3>1, PlacedOneUse
    <3>3. ASSUME NEW block \in TableBlocks
          PROVE  PM!HeldPages(block) \cap HeapPages = {}
      <4>1. PM!HeldPages(block) \cap (HeapPages \cup 0 .. LowPages - 1) = {}
        BY <3>2 DEF OneUse, Uses
      <4>2. QED BY <4>1
    <3>4. QED BY <3>3 DEF HeapIsIntact
  <2>3. Done
    BY <1>14, <2>2 DEF heap
  <2>4. QED BY <1>7, <2>1, <2>3
<1>15. QED
  BY <1>4, <1>5, <1>6, <1>8, <1>9, <1>10, <1>11, <1>12, <1>13, <1>14 DEF Next

(* On a machine with enough memory behind the low pages and where the heap *)
(* is, and with the usual devices, kmain meets no panic, no assertion that *)
(* fails, no page fault and no division by zero on its way to the main     *)
(* loop: nothing else gets the heap's pages (kernel.c:128, kalloc.h:8),    *)
(* and hpet_init may rely on the mapping of an earlier driver (hpet.c:31). *)
THEOREM BootMeetsNoFailure ==
    ASSUME PT!Enough
    PROVE  Spec => [](Roomy /\ Usual /\ HeapInMemory
                        => stage \in {"tags", "init", "run"})
<1> DEFINE Inv == OneInv /\ (Roomy /\ Usual /\ HeapInMemory => Smooth)
<1>1. Init => Inv
  <2>1. SUFFICES ASSUME Init PROVE Inv
    OBVIOUS
  <2>2. OneInv
    BY <2>1, InitOne
  <2>3. stage = "tags" /\ tags = machine.tags /\ flushed
    BY <2>1 DEF Init, PT!Init
  <2>4. Usual => Smooth
    BY <2>3 DEF Usual, Smooth
  <2>5. QED BY <2>2, <2>4
<1>2. Inv /\ [Next]_vars => Inv'
  <2>1. SUFFICES ASSUME Inv, [Next]_vars PROVE Inv'
    OBVIOUS
  <2>2. OneInv'
    BY <2>1, NextOne
  <2>3. machine' = machine
    BY <2>1 DEF Next, vars, bootVars, read_tag, mmap_tag, framebuffer_tag,
       acpi_tag, tags_end, must, malloc, map, flush, use, heap, main_loop
  <2>4. Roomy' => Roomy
    BY <2>3 DEF Roomy, PM!TidyMap, PM!WordPages, PM!AvailablePages, PM!Pages
  <2>5. Usual' => Usual
    BY <2>3 DEF Usual, KernelSize, NumIndex
  <2>6. HeapInMemory' => HeapInMemory
    BY <2>3 DEF HeapInMemory, PM!AvailablePages, PM!Pages
  <2>7. Roomy /\ Usual /\ HeapInMemory => Smooth'
    BY <2>1, NextSmooth DEF OneInv
  <2>8. QED BY <2>2, <2>4, <2>5, <2>6, <2>7
<1>3. Inv => (Roomy /\ Usual /\ HeapInMemory
                => stage \in {"tags", "init", "run"})
  BY DEF Smooth
<1>4. QED BY <1>1, <1>2, <1>3, PTL DEF Spec
=============================================================================
