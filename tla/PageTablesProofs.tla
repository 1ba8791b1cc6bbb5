-------------------------- MODULE PageTablesProofs --------------------------
(***************************************************************************)
(* The page tables implement AddressSpace and keep their block in order,   *)
(* for any pages, frames, sizes of a table and order of calls, as long as  *)
(* the pages need fewer tables than a block has.                           *)
(***************************************************************************)
EXTENDS PageTables, NatLemmas, FiniteSetTheorems, TLAPS

(* There is a block, and the tables that the pages need fit in it.         *)
Enough == FewTables /\ 1 \in Blocks

Memory == [Tables -> [Index -> Words]]

(* A table hangs at an entry.                                              *)
Hangs(m, t, i) == m[t][i].to = "table"
Under(m, t, i) == m[t][i].table

(* Entries of P4 that are not the kernel's, and the tables that hang there.*)
VirtP4 == Index \ {KernelP4}
Middle(m) == {Under(m, P4, i) : i \in {j \in VirtP4 : Hangs(m, P4, j)}}

(* The tables there are, each by the part of an address that leads to it;  *)
(* each of them made idx grow by two (virtmem.c:60).                       *)
Prefixes(m) ==
    {<<i>> : i \in {j \in VirtP4 : Hangs(m, P4, j)}}
    \cup {<<q[1], q[2]>> : q \in {r \in VirtP4 \X Index :
            Hangs(m, P4, r[1]) /\ Hangs(m, Under(m, P4, r[1]), r[2])}}
Idx(m) == 2 * Cardinality(Prefixes(m))
Made(n) == {<<1, k>> : k \in 1 .. n - 1}

-----------------------------------------------------------------------------
(* The inductive invariant, on a memory m with current block c.            *)

(* What multiboot.asm made is as it was.                                   *)
Kernel(m) ==
    /\ m[P4][KernelP4] = Table(P3Higher)
    /\ m[P3Higher][KernelP3] = Table(P2Higher)
    /\ \A i \in Index : m[P2Higher][i] = Page(i)

(* A walk over the first two levels finds a table or nothing.              *)
Levels(m) ==
    \A t \in {P4} \cup Middle(m), i \in Index :
        m[t][i].to \in {"zero", "table"}

(* Tables hang in P4 and in the tables that hang there, nowhere else.      *)
Rooted(m) ==
    \A t \in Tables, i \in Index : Hangs(m, t, i) =>
        \/ t = P4 /\ i = KernelP4
        \/ t = P3Higher /\ i = KernelP3
        \/ /\ t \in {P4} \cup Middle(m)
           /\ Under(m, t, i) \in Made(Idx(m))

Owned(m) ==
    \A t, u \in Tables, i, j \in Index :
        Hangs(m, t, i) /\ Hangs(m, u, j) /\ Under(m, t, i) = Under(m, u, j)
            => t = u /\ i = j

(* idx counts the tables made, and those behind it are empty.              *)
Unused(m, c) ==
    /\ c = 0 => Idx(m) = 0
    /\ c = 1 => /\ m[Meta(1)][0] = Number(Idx(m))
                /\ \A k \in Idx(m) + 1 .. Dirs - 1, i \in Index :
                        m[<<1, k>>][i] = Zero

Sound(m, c) ==
    /\ m \in Memory /\ c \in {0, 1}
    /\ Kernel(m) /\ Levels(m) /\ Rooted(m) /\ Owned(m)
    /\ Prefixes(m) \subseteq Needed
    /\ Unused(m, c)

(* Translate, for any memory.                                              *)
TranslateIn(m, virt) ==
    LET p3 == m[P4][virt[1]]
        p2 == m[p3.table][virt[2]]
        page == m[p2.table][virt[3]]
    IN  IF p3.to = "table" /\ p2.to = "table" /\ page.to = "page"
        THEN page.frame ELSE NotMapped

-----------------------------------------------------------------------------
(* Facts about the constants and the operators. *)

(* The tables of the boot code are apart from each other and from the block. *)
LEMMA TableFacts ==
    ASSUME Enough
    PROVE  /\ \A k \in 0 .. Dirs : <<1, k>> \in Tables
           /\ Meta(1) \in Tables
           /\ P4 \in Tables /\ P3Higher \in Tables /\ P2Higher \in Tables
           /\ P4 # P3Higher /\ P4 # P2Higher /\ P3Higher # P2Higher
           /\ \A t \in Tables, k \in Nat : t = <<1, k>> => t \notin BootTables
           /\ \A b \in Nat : b # 0 => Meta(b) \notin BootTables
           /\ Wild \notin Tables /\ NoBlock \notin Tables
           /\ Zero \in Words /\ Link \in Words
           /\ \A n \in Nat : Number(n) \in Words /\ Page(n) \in Words
           /\ \A t \in Tables : Table(t) \in Words
<1>1. Dirs \in Nat /\ Blocks \subseteq Nat \ {0} /\ 1 \in Blocks
  BY PageTablesAssumption DEF Enough
<1>2. Tables = {<<0, 3>>, <<0, 2>>, <<0, 1>>} \cup (Blocks \X (0 .. Dirs))
  BY DEF Tables, BootTables, P4, P3Higher, P2Higher
<1>3. \A k \in 0 .. Dirs : <<1, k>> \in Tables
  BY <1>1, <1>2
<1>4. Meta(1) \in Tables
  BY <1>1, <1>3 DEF Meta
<1>5. Wild \notin Tables /\ NoBlock \notin Tables
  BY <1>1, <1>2 DEF Wild, NoBlock
<1>6. \A t \in Tables : Table(t) \in Words
  BY DEF Table, Words
<1>7. \A n \in Nat : Number(n) \in Words /\ Page(n) \in Words
  BY DEF Number, Page, Words
<1>8. QED
  BY <1>1, <1>2, <1>3, <1>4, <1>5, <1>6, <1>7
  DEF BootTables, P4, P3Higher, P2Higher, Meta, Words

(* The pages need finitely many tables.                                    *)
LEMMA NeededFinite == IsFiniteSet(Needed)
<1>1. IsFiniteSet(Index) /\ Virt \subseteq Index \X Index \X Index
  BY PageTablesAssumption
<1> DEFINE ones == {<<v[1]>> : v \in Virt}
           twos == {<<v[1], v[2]>> : v \in Virt}
           f == [i \in Index |-> <<i>>]
<1>2. IsFiniteSet(Index \X Index)
  BY <1>1, FS_Product
<1>3. IsFiniteSet(twos)
  <2>1. twos \in SUBSET (Index \X Index)
    BY <1>1
  <2>2. QED BY <1>2, <2>1, FS_Subset
<1>4. IsFiniteSet(ones)
  <2> DEFINE all == {<<i>> : i \in Index}
  <2>1. f \in Surjection(Index, all)
    BY DEF Surjection
  <2>2. IsFiniteSet(all)
    BY <1>1, <2>1, FS_Surjection
  <2>3. ones \in SUBSET all
    BY <1>1
  <2>4. QED BY <2>2, <2>3, FS_Subset
<1>5. IsFiniteSet(ones \cup twos)
  BY <1>3, <1>4, FS_Union
<1>6. QED BY <1>5 DEF Needed

(* While a table is missing, the block has one (virtmem.c:53).             *)
LEMMA RoomForOne ==
    ASSUME Enough, NEW S, S \subseteq Needed, NEW p \in Needed, p \notin S
    PROVE  /\ Cardinality(S) \in Nat
           /\ Cardinality(S \cup {p}) = Cardinality(S) + 1
           /\ 2 * Cardinality(S) + 2 < Dirs
<1>1. IsFiniteSet(Needed)
  BY NeededFinite
<1>2. IsFiniteSet(S) /\ Cardinality(S) \in Nat
  BY <1>1, FS_Subset, FS_CardinalityType
<1>3. Cardinality(S \cup {p}) = Cardinality(S) + 1
  BY <1>2, FS_AddElement
<1>4. S \cup {p} \in SUBSET Needed
  OBVIOUS
<1>5. Cardinality(S \cup {p}) <= Cardinality(Needed)
  BY <1>1, <1>4, FS_Subset
<1>6. Cardinality(Needed) \in Nat /\ 2 * Cardinality(Needed) < Dirs
  BY <1>1, FS_CardinalityType DEF Enough, FewTables
<1>7. Dirs \in Nat
  BY PageTablesAssumption
<1>8. QED BY <1>2, <1>3, <1>5, <1>6, <1>7

(* A sound memory, and what its tables are.                                *)
LEMMA SoundFacts ==
    ASSUME Enough, NEW m, NEW c, Sound(m, c)
    PROVE  /\ Idx(m) \in Nat /\ Idx(m) < Dirs
           /\ \A t \in Tables, i \in Index :
                /\ m[t][i] \in Words
                /\ Hangs(m, t, i) => /\ Under(m, t, i) \in Tables
                                     /\ m[t][i] = Table(Under(m, t, i))
           /\ Made(Idx(m)) \subseteq Tables \ BootTables
           /\ Middle(m) \subseteq Made(Idx(m))
<1> USE DEF Sound
<1>1. Cardinality(Prefixes(m)) \in Nat
        /\ 2 * Cardinality(Prefixes(m)) < Dirs
  <2>1. IsFiniteSet(Needed)
    BY NeededFinite
  <2>2. /\ Cardinality(Prefixes(m)) \in Nat
        /\ Cardinality(Prefixes(m)) <= Cardinality(Needed)
        /\ Cardinality(Needed) \in Nat
    BY <2>1, FS_Subset, FS_CardinalityType
  <2>3. 2 * Cardinality(Needed) < Dirs /\ Dirs \in Nat
    BY PageTablesAssumption DEF Enough, FewTables
  <2>4. QED BY <2>2, <2>3
<1>2. Idx(m) \in Nat /\ Idx(m) < Dirs
  BY <1>1 DEF Idx
<1>3. ASSUME NEW t \in Tables, NEW i \in Index
      PROVE  /\ m[t][i] \in Words
             /\ Hangs(m, t, i) => /\ Under(m, t, i) \in Tables
                                  /\ m[t][i] = Table(Under(m, t, i))
  <2>1. m[t][i] \in Words
    BY DEF Memory
  <2>2. \A w \in Words : w.to = "table" => w.table \in Tables /\ w = Table(w.table)
    BY DEF Words, Zero, Link, Table
  <2>3. QED BY <2>1, <2>2 DEF Hangs, Under
<1>4. Made(Idx(m)) \subseteq Tables \ BootTables
  <2>1. Dirs \in Nat
    BY PageTablesAssumption
  <2>2. \A k \in 1 .. Idx(m) - 1 : k \in 0 .. Dirs /\ k \in Nat
    BY <1>2, <2>1
  <2>3. QED BY <2>2, TableFacts DEF Made
<1>5. Middle(m) \subseteq Made(Idx(m))
  <2>1. ASSUME NEW i \in VirtP4, Hangs(m, P4, i)
        PROVE  Under(m, P4, i) \in Made(Idx(m))
    <3>1. i \in Index /\ i # KernelP4 /\ P4 \in Tables /\ P4 # P3Higher
      BY TableFacts DEF VirtP4
    <3>2. QED BY <2>1, <3>1 DEF Rooted
  <2>2. QED BY <2>1 DEF Middle
<1>6. QED BY <1>2, <1>3, <1>4, <1>5

(* A table of the last level is not also one of the others.                *)
LEMMA LastLevel ==
    ASSUME Enough, NEW m, NEW c, Sound(m, c), NEW a \in Index, NEW b \in Index,
           Hangs(m, P4, a), Hangs(m, Under(m, P4, a), b)
    PROVE  /\ Under(m, P4, a) \in Tables \ {P4}
           /\ Under(m, Under(m, P4, a), b) \in
                    (BootTables \cup Made(Idx(m))) \ ({P4} \cup Middle(m))
           /\ a \in VirtP4 => Under(m, Under(m, P4, a), b) \in Made(Idx(m))
           /\ a = KernelP4 => Under(m, Under(m, P4, a), b) = P2Higher
<1> DEFINE u == Under(m, P4, a)
           x == Under(m, u, b)
<1>1. P4 \in Tables /\ P3Higher \in Tables /\ P3Higher # P4 /\ P2Higher # P4
        /\ BootTables = {P4, P3Higher, P2Higher} /\ KernelP3 \in Index
  BY TableFacts, PageTablesAssumption DEF BootTables
<1>2. /\ Under(m, P4, KernelP4) = P3Higher
      /\ Under(m, P3Higher, KernelP3) = P2Higher
      /\ Hangs(m, P3Higher, KernelP3)
  BY DEF Sound, Kernel, Under, Table, Hangs
<1>3. Made(Idx(m)) \cap BootTables = {} /\ Middle(m) \subseteq Made(Idx(m))
  BY SoundFacts
<1>4. u \in Tables /\ x \in Tables
  BY <1>1, SoundFacts
<1>5. \/ a = KernelP4 /\ u = P3Higher
      \/ a \in VirtP4 /\ u \in Middle(m)
  BY <1>2 DEF VirtP4, Middle
<1>6. u # P4
  BY <1>1, <1>3, <1>5
<1>7. ASSUME NEW h \in VirtP4, Hangs(m, P4, h) PROVE x # Under(m, P4, h)
  BY <1>1, <1>4, <1>6, <1>7 DEF Sound, Owned, VirtP4
<1>8. x \notin Middle(m)
  BY <1>7 DEF Middle
<1>9. \/ u = P3Higher /\ b = KernelP3 /\ x = P2Higher
      \/ u \in Middle(m) /\ x \in Made(Idx(m))
  BY <1>1, <1>2, <1>4, <1>6 DEF Sound, Rooted
<1>10. P3Higher \notin Middle(m)
  BY <1>1, <1>3
<1>11. QED
  BY <1>1, <1>3, <1>4, <1>5, <1>6, <1>8, <1>9, <1>10 DEF VirtP4

-----------------------------------------------------------------------------
(* A new table.                                                            *)

(* Entry i of t is where the table for the prefix p belongs.               *)
Place(m, t, i, p) ==
    /\ i \in Index /\ p \in Needed
    /\ \/ t = P4 /\ i \in VirtP4 /\ p = <<i>>
       \/ \E h \in VirtP4 : /\ Hangs(m, P4, h) /\ t = Under(m, P4, h)
                            /\ p = <<h, i>>

(* The next table of the block is taken and hung there.                    *)
Grown(m, m2, t, i) ==
    /\ m2 \in Memory
    /\ m2[t][i] = Table(<<1, Idx(m) + 1>>)
    /\ \A u \in Tables, j \in Index : <<u, j>> # <<t, i>> =>
            /\ Hangs(m2, u, j) <=> Hangs(m, u, j)
            /\ u \in BootTables \cup Made(Idx(m)) => m2[u][j] = m[u][j]
    /\ m2[Meta(1)][0] = Number(Idx(m) + 2)
    /\ \A k \in Idx(m) + 1 .. Dirs - 1, j \in Index : m2[<<1, k>>][j] = Zero

(* What both levels have in common.                                        *)
LEMMA PlaceFacts ==
    ASSUME Enough, NEW m, NEW c, Sound(m, c), NEW t, NEW i, NEW p,
           Place(m, t, i, p)
    PROVE  /\ t \in Tables /\ i \in Index
           /\ t \in {P4} \cup Middle(m) /\ t # P3Higher
           /\ t = P4 => i # KernelP4
           /\ t \in BootTables \cup Made(Idx(m))
           /\ p \in Prefixes(m) <=> Hangs(m, t, i)
<1>1. /\ P4 \in Tables /\ P4 # P3Higher /\ P3Higher \in BootTables
      /\ P4 \in BootTables
  BY TableFacts DEF BootTables
<1>2. CASE t = P4 /\ i \in VirtP4 /\ p = <<i>>
  <2>1. <<i>> \in Prefixes(m) <=> Hangs(m, P4, i)
    BY <1>2 DEF Prefixes
  <2>2. QED BY <1>1, <1>2, <2>1 DEF VirtP4
<1>3. ASSUME NEW h \in VirtP4, Hangs(m, P4, h), t = Under(m, P4, h),
             p = <<h, i>>
      PROVE  /\ t \in Tables /\ t \in Middle(m) /\ t \notin BootTables
             /\ t \in Made(Idx(m))
             /\ p \in Prefixes(m) <=> Hangs(m, t, i)
  <2>1. t \in Middle(m)
    BY <1>3 DEF Middle
  <2>2. t \in Made(Idx(m)) /\ t \in Tables /\ t \notin BootTables
    BY <2>1, SoundFacts
  <2>3. p \in Prefixes(m) <=> Hangs(m, t, i)
    BY <1>3 DEF Prefixes, Place
  <2>4. QED BY <2>1, <2>2, <2>3
<1>4. QED BY <1>1, <1>2, <1>3 DEF Place

(* A table that hangs in m hangs in the same place after it has grown.     *)
LEMMA GrownKeeps ==
    ASSUME Enough, NEW m, NEW c, Sound(m, c), NEW m2, NEW t, NEW i, NEW p,
           Place(m, t, i, p), ~ Hangs(m, t, i), Grown(m, m2, t, i)
    PROVE  /\ \A u \in Tables, j \in Index :
                /\ Hangs(m, u, j) => m2[u][j] = m[u][j]
                /\ Hangs(m2, u, j) <=> Hangs(m, u, j) \/ (u = t /\ j = i)
           /\ Under(m2, t, i) = <<1, Idx(m) + 1>>
           /\ <<1, Idx(m) + 1>> \in Tables
           /\ <<1, Idx(m) + 1>> \notin BootTables \cup Made(Idx(m))
           /\ \A j \in Index : /\ m2[<<1, Idx(m) + 1>>][j] = Zero
                                /\ ~ Hangs(m2, <<1, Idx(m) + 1>>, j)
           /\ Cardinality(Prefixes(m)) \in Nat
           /\ Cardinality(Prefixes(m) \cup {p}) = Cardinality(Prefixes(m)) + 1
           /\ Idx(m) + 2 < Dirs /\ Dirs \in Nat /\ Idx(m) \in Nat
<1> DEFINE n == Idx(m)
<1>1. Dirs \in Nat
  BY PageTablesAssumption
<1>2. /\ Cardinality(Prefixes(m)) \in Nat
      /\ Cardinality(Prefixes(m) \cup {p}) = Cardinality(Prefixes(m)) + 1
      /\ n + 2 < Dirs
  <2>1. p \in Needed /\ p \notin Prefixes(m) /\ Prefixes(m) \subseteq Needed
    BY PlaceFacts DEF Place, Sound
  <2>2. QED BY <2>1, RoomForOne DEF Idx
<1>3. n \in Nat
  BY SoundFacts
<1> HIDE DEF n
<1>4. n + 1 \in 0 .. Dirs /\ n + 1 \in n + 1 .. Dirs - 1 /\ n + 1 \in Nat
  BY <1>1, <1>2, <1>3
<1>5. <<1, n + 1>> \in Tables /\ <<1, n + 1>> \notin BootTables
  BY <1>4, TableFacts
<1>6. <<1, n + 1>> \notin Made(n)
  BY <1>3 DEF Made
<1>7. ASSUME NEW j \in Index
      PROVE  m2[<<1, n + 1>>][j] = Zero /\ ~ Hangs(m2, <<1, n + 1>>, j)
  BY <1>4 DEF Grown, n, Hangs, Zero
<1>8. Under(m2, t, i) = <<1, n + 1>> /\ Hangs(m2, t, i)
  BY DEF Grown, n, Under, Hangs, Table
<1>9. ASSUME NEW u \in Tables, NEW j \in Index
      PROVE  /\ Hangs(m, u, j) => m2[u][j] = m[u][j]
             /\ Hangs(m2, u, j) <=> Hangs(m, u, j) \/ (u = t /\ j = i)
  <2>1. Hangs(m2, u, j) <=> Hangs(m, u, j) \/ (u = t /\ j = i)
    <3>1. CASE u = t /\ j = i
      BY <1>8, <3>1
    <3>2. CASE ~ (u = t /\ j = i)
      BY <3>2 DEF Grown
    <3>3. QED BY <3>1, <3>2
  <2>2. ASSUME Hangs(m, u, j) PROVE m2[u][j] = m[u][j]
    <3>1. u \in BootTables \cup Made(n)
      BY <2>2, SoundFacts DEF Sound, Rooted, BootTables, n
    <3>2. <<u, j>> # <<t, i>>
      BY <2>2
    <3>3. QED BY <3>1, <3>2 DEF Grown, n
  <2>3. QED BY <2>1, <2>2
<1>10. QED BY <1>1, <1>2, <1>3, <1>5, <1>6, <1>7, <1>8, <1>9 DEF n

(* Exactly one prefix has a table that had none: two entries do not share  *)
(* the table that grew, so no other page finds the new one.                *)
LEMMA GrownPrefixes ==
    ASSUME Enough, NEW m, NEW c, Sound(m, c), NEW m2, NEW t, NEW i, NEW p,
           Place(m, t, i, p), ~ Hangs(m, t, i), Grown(m, m2, t, i)
    PROVE  Prefixes(m2) = Prefixes(m) \cup {p} /\ Idx(m2) = Idx(m) + 2
<1> DEFINE new == <<1, Idx(m) + 1>>
<1>1. P4 \in Tables /\ t \in Tables /\ i \in Index
  BY TableFacts, PlaceFacts
<1>2. /\ \A u \in Tables, j \in Index :
            /\ Hangs(m, u, j) => m2[u][j] = m[u][j]
            /\ Hangs(m2, u, j) <=> Hangs(m, u, j) \/ (u = t /\ j = i)
      /\ Under(m2, t, i) = new
      /\ \A j \in Index : ~ Hangs(m2, new, j)
      /\ new \notin BootTables
  BY GrownKeeps, ZenonT(30)
<1>3. \A a \in VirtP4 : a \in Index
  BY DEF VirtP4
<1>4. \A a \in VirtP4 : Hangs(m, P4, a) =>
            /\ Under(m, P4, a) \in Tables \ BootTables
            /\ Under(m2, P4, a) = Under(m, P4, a)
  <2>1. ASSUME NEW a \in VirtP4, Hangs(m, P4, a)
        PROVE  /\ Under(m, P4, a) \in Tables \ BootTables
               /\ Under(m2, P4, a) = Under(m, P4, a)
    <3>1. Under(m, P4, a) \in Middle(m)
      BY <2>1 DEF Middle
    <3>2. m2[P4][a] = m[P4][a]
      BY <1>1, <1>2, <1>3, <2>1
    <3>3. QED BY <3>1, <3>2, SoundFacts DEF Under
  <2>2. QED BY <2>1
<1>5. \A a \in VirtP4 : <<a>> \in Prefixes(m2)
                            <=> <<a>> \in Prefixes(m) \/ p = <<a>>
  <2>1. \A a \in VirtP4 : p = <<a>> <=> t = P4 /\ a = i
    <3>1. CASE t = P4
      <4>1. ~ \E h \in VirtP4 : Hangs(m, P4, h) /\ t = Under(m, P4, h)
        BY <1>4, <3>1 DEF BootTables
      <4>2. QED BY <3>1, <4>1 DEF Place
    <3>2. CASE t # P4
      BY <3>2 DEF Place
    <3>3. QED BY <3>1, <3>2
  <2>2. QED BY <1>1, <1>2, <1>3, <2>1 DEF Prefixes
<1>6. \A a \in VirtP4, b \in Index :
            <<a, b>> \in Prefixes(m2) <=> <<a, b>> \in Prefixes(m) \/ p = <<a, b>>
  <2> SUFFICES ASSUME NEW a \in VirtP4, NEW b \in Index
               PROVE  <<a, b>> \in Prefixes(m2)
                        <=> <<a, b>> \in Prefixes(m) \/ p = <<a, b>>
    OBVIOUS
  <2> DEFINE on(x) == Hangs(x, P4, a) /\ Hangs(x, Under(x, P4, a), b)
  <2>1. /\ <<a, b>> \in Prefixes(m) <=> on(m)
        /\ <<a, b>> \in Prefixes(m2) <=> on(m2)
    <3>1. ASSUME NEW x PROVE <<a, b>> \in Prefixes(x) <=> on(x)
      <4>1. ASSUME on(x) PROVE <<a, b>> \in Prefixes(x)
        <5>0. <<a, b>> \in VirtP4 \X Index
          OBVIOUS
        <5>1. PICK r \in VirtP4 \X Index : r = <<a, b>> /\ r[1] = a /\ r[2] = b
          BY <5>0
        <5>2. Hangs(x, P4, r[1]) /\ Hangs(x, Under(x, P4, r[1]), r[2])
          BY <4>1, <5>1
        <5>3. <<r[1], r[2]>> \in Prefixes(x)
          BY <5>1, <5>2 DEF Prefixes
        <5>4. QED BY <5>1, <5>3
      <4>2. ASSUME <<a, b>> \in Prefixes(x) PROVE on(x)
        BY <4>2 DEF Prefixes
      <4>3. QED BY <4>1, <4>2
    <3>2. QED BY <3>1
  <2>2. CASE Hangs(m, P4, a)
    <3>1. on(m2) <=> on(m) \/ (Under(m, P4, a) = t /\ b = i)
      BY <1>1, <1>2, <1>3, <1>4, <2>2
    <3>2. Under(m, P4, a) = t /\ b = i <=> p = <<a, b>>
      <4>1. \A h \in VirtP4 : Hangs(m, P4, h) /\ Under(m, P4, h) = Under(m, P4, a)
                                => h = a
        BY <1>1, <1>3, <2>2 DEF Sound, Owned
      <4>2. Under(m, P4, a) # P4
        BY <1>4, <2>2 DEF BootTables
      <4>3. ASSUME Under(m, P4, a) = t, b = i PROVE p = <<a, b>>
        BY <4>1, <4>2, <4>3 DEF Place
      <4>4. ASSUME p = <<a, b>> PROVE Under(m, P4, a) = t /\ b = i
        BY <4>4 DEF Place
      <4>5. QED BY <4>3, <4>4
    <3>3. QED BY <2>1, <3>1, <3>2
  <2>3. CASE ~ Hangs(m, P4, a)
    <3>1. ~ on(m2)
      <4>1. ASSUME Hangs(m2, P4, a) PROVE Under(m2, P4, a) = new
        BY <1>1, <1>2, <1>3, <2>3, <4>1
      <4>2. QED BY <1>2, <4>1
    <3>2. p # <<a, b>>
      BY <2>3 DEF Place
    <3>3. QED BY <2>1, <2>3, <3>1, <3>2
  <2>4. QED BY <2>2, <2>3
<1>7. \A x \in {m, m2} : \A q \in Prefixes(x) :
            \/ \E a \in VirtP4 : q = <<a>>
            \/ \E a \in VirtP4, b \in Index : q = <<a, b>>
  BY DEF Prefixes
<1>8. p \in Prefixes(m2)
  <2>1. CASE t = P4 /\ i \in VirtP4 /\ p = <<i>>
    BY <1>5, <2>1
  <2>2. CASE \E h \in VirtP4 : p = <<h, i>>
    BY <1>1, <1>6, <2>2
  <2>3. QED BY <2>1, <2>2 DEF Place
<1>9. Prefixes(m2) = Prefixes(m) \cup {p}
  BY <1>5, <1>6, <1>7, <1>8
<1>10. Idx(m2) = Idx(m) + 2
  <2>1. /\ Cardinality(Prefixes(m)) \in Nat
        /\ Cardinality(Prefixes(m) \cup {p}) = Cardinality(Prefixes(m)) + 1
    <3>1. p \in Needed /\ p \notin Prefixes(m) /\ Prefixes(m) \subseteq Needed
      BY PlaceFacts DEF Place, Sound
    <3>2. QED BY <3>1, RoomForOne
  <2>2. Cardinality(Prefixes(m2)) = Cardinality(Prefixes(m)) + 1
    BY <1>9, <2>1, Zenon
  <2>3. QED BY <2>1, <2>2 DEF Idx
<1>11. QED BY <1>9, <1>10

(* A table that is taken from the block and linked keeps the tables sound. *)
LEMMA GrownSound ==
    ASSUME Enough, NEW m, NEW c, Sound(m, c), NEW m2, NEW t, NEW i, NEW p,
           Place(m, t, i, p), ~ Hangs(m, t, i), Grown(m, m2, t, i)
    PROVE  Sound(m2, 1)
<1> DEFINE new == <<1, Idx(m) + 1>>
<1>1. /\ P4 \in Tables /\ P3Higher \in Tables /\ P2Higher \in Tables
      /\ P4 # P3Higher /\ t # P2Higher
      /\ t \in Tables /\ i \in Index /\ t # P3Higher
      /\ t = P4 => i # KernelP4
      /\ t \in {P4} \cup Middle(m)
      /\ KernelP4 \in Index /\ KernelP3 \in Index
  <2>1. P2Higher # P4 /\ P2Higher \notin Middle(m)
    BY TableFacts, SoundFacts DEF BootTables
  <2>2. QED BY <2>1, TableFacts, PlaceFacts, PageTablesAssumption
<1>2. /\ \A u \in Tables, j \in Index :
            /\ Hangs(m, u, j) => m2[u][j] = m[u][j]
            /\ Hangs(m2, u, j) <=> Hangs(m, u, j) \/ (u = t /\ j = i)
      /\ Under(m2, t, i) = new /\ new \in Tables
      /\ new \notin BootTables \cup Made(Idx(m))
      /\ \A j \in Index : m2[new][j] = Zero
      /\ Idx(m) \in Nat /\ Dirs \in Nat
  BY GrownKeeps, ZenonT(30)
<1>3. Prefixes(m2) = Prefixes(m) \cup {p} /\ Idx(m2) = Idx(m) + 2
  BY GrownPrefixes
<1> HIDE DEF new
<1>4. Made(Idx(m)) \cup {new} \subseteq Made(Idx(m2))
  BY <1>2, <1>3 DEF Made, new
<1>5. Kernel(m2)
  <2>1. m2[P4][KernelP4] = m[P4][KernelP4]
    BY <1>1, <1>2 DEF Sound, Kernel, Hangs, Table
  <2>2. m2[P3Higher][KernelP3] = m[P3Higher][KernelP3]
    BY <1>1, <1>2 DEF Sound, Kernel, Hangs, Table
  <2>3. \A j \in Index : m2[P2Higher][j] = m[P2Higher][j]
    BY <1>1 DEF Grown, BootTables
  <2>4. QED BY <2>1, <2>2, <2>3 DEF Sound, Kernel
<1>6. Middle(m2) \subseteq Middle(m) \cup {new} /\ Middle(m) \subseteq Middle(m2)
  <2>1. \A j \in VirtP4 : Hangs(m2, P4, j) =>
            Under(m2, P4, j) \in Middle(m) \cup {new}
    BY <1>1, <1>2 DEF Middle, VirtP4, Under
  <2>2. \A j \in VirtP4 : Hangs(m, P4, j) =>
            Hangs(m2, P4, j) /\ Under(m2, P4, j) = Under(m, P4, j)
    BY <1>1, <1>2 DEF VirtP4, Under
  <2>3. QED BY <2>1, <2>2 DEF Middle
<1>7. Levels(m2)
  <2> SUFFICES ASSUME NEW u \in {P4} \cup Middle(m2), NEW j \in Index
               PROVE  m2[u][j].to \in {"zero", "table"}
    BY DEF Levels
  <2>1. CASE u = new
    BY <1>2, <2>1 DEF Zero
  <2>2. CASE u = t /\ j = i
    BY <2>2 DEF Grown, Table
  <2>3. CASE u \in {P4} \cup Middle(m) /\ ~ (u = t /\ j = i)
    <3>1. u \in Tables /\ u \in BootTables \cup Made(Idx(m))
      BY <1>1, <2>3, SoundFacts DEF BootTables
    <3>2. m2[u][j] = m[u][j]
      BY <2>3, <3>1 DEF Grown
    <3>3. QED BY <2>3, <3>2 DEF Sound, Levels
  <2>4. QED BY <1>6, <2>1, <2>2, <2>3
<1>8. Rooted(m2)
  <2> SUFFICES ASSUME NEW u \in Tables, NEW j \in Index, Hangs(m2, u, j)
               PROVE  \/ u = P4 /\ j = KernelP4
                      \/ u = P3Higher /\ j = KernelP3
                      \/ /\ u \in {P4} \cup Middle(m2)
                         /\ Under(m2, u, j) \in Made(Idx(m2))
    BY DEF Rooted
  <2>1. CASE u = t /\ j = i
    BY <1>1, <1>2, <1>4, <1>6, <2>1
  <2>2. CASE Hangs(m, u, j)
    <3>1. Under(m2, u, j) = Under(m, u, j)
      BY <1>2, <2>2 DEF Under
    <3>2. QED BY <1>4, <1>6, <2>2, <3>1 DEF Sound, Rooted
  <2>3. QED BY <1>2, <2>1, <2>2
<1>9. Owned(m2)
  <2>1. \A u \in Tables, j \in Index :
            Hangs(m, u, j) => Under(m2, u, j) = Under(m, u, j)
                              /\ Under(m, u, j) # new
    <3>1. ASSUME NEW u \in Tables, NEW j \in Index, Hangs(m, u, j)
          PROVE  Under(m, u, j) \in BootTables \cup Made(Idx(m))
      <4>1. Under(m, P4, KernelP4) = P3Higher
              /\ Under(m, P3Higher, KernelP3) = P2Higher
        BY DEF Sound, Kernel, Under, Table
      <4>2. QED BY <3>1, <4>1 DEF Sound, Rooted, BootTables
    <3>2. QED BY <1>2, <3>1 DEF Under
  <2> SUFFICES ASSUME NEW u \in Tables, NEW v \in Tables,
                      NEW j \in Index, NEW k \in Index,
                      Hangs(m2, u, j), Hangs(m2, v, k),
                      Under(m2, u, j) = Under(m2, v, k)
               PROVE  u = v /\ j = k
    BY DEF Owned
  <2>2. CASE Hangs(m, u, j) /\ Hangs(m, v, k)
    BY <2>1, <2>2 DEF Sound, Owned
  <2>3. CASE ~ Hangs(m, u, j)
    BY <1>2, <2>1, <2>3
  <2>4. CASE ~ Hangs(m, v, k)
    BY <1>2, <2>1, <2>4
  <2>5. QED BY <2>2, <2>3, <2>4
<1>10. Unused(m2, 1)
  BY <1>2, <1>3 DEF Grown, Unused
<1>11. Prefixes(m2) \subseteq Needed /\ m2 \in Memory
  BY <1>3 DEF Sound, Place, Grown
<1>12. QED BY <1>5, <1>7, <1>8, <1>9, <1>10, <1>11 DEF Sound

(* A new table is empty, and so translates nothing that was not.           *)
LEMMA GrownTranslates ==
    ASSUME Enough, NEW m, NEW c, Sound(m, c), NEW m2, NEW t, NEW i, NEW p,
           Place(m, t, i, p), ~ Hangs(m, t, i), Grown(m, m2, t, i)
    PROVE  \A v \in Index \X Index \X Index :
                TranslateIn(m2, v) = TranslateIn(m, v)
<1> DEFINE new == <<1, Idx(m) + 1>>
<1>1. P4 \in Tables /\ t \in Tables /\ i \in Index
      /\ t \in {P4} \cup Middle(m) /\ t # P3Higher
  BY TableFacts, PlaceFacts
<1>2. /\ \A u \in Tables, j \in Index :
            /\ Hangs(m, u, j) => m2[u][j] = m[u][j]
            /\ Hangs(m2, u, j) <=> Hangs(m, u, j) \/ (u = t /\ j = i)
      /\ Under(m2, t, i) = new
      /\ \A j \in Index : m2[new][j] = Zero
  BY GrownKeeps, ZenonT(30)
<1> SUFFICES ASSUME NEW v \in Index \X Index \X Index
             PROVE  TranslateIn(m2, v) = TranslateIn(m, v)
  OBVIOUS
<1>3. v[1] \in Index /\ v[2] \in Index /\ v[3] \in Index
  OBVIOUS
<1>4. /\ Zero.to # "table" /\ Zero.to # "page"
  BY DEF Zero
<1> HIDE DEF new
<1> DEFINE u == Under(m, P4, v[1])
           x == Under(m, u, v[2])
<1>5. CASE ~ Hangs(m, P4, v[1])
  <2>1. TranslateIn(m, v) = NotMapped
    BY <1>5 DEF TranslateIn, Hangs
  <2>2. CASE ~ Hangs(m2, P4, v[1])
    BY <2>1, <2>2 DEF TranslateIn, Hangs
  <2>3. CASE Hangs(m2, P4, v[1])
    <3>1. m2[P4][v[1]].table = new
      BY <1>1, <1>2, <1>3, <1>5, <2>3 DEF Under
    <3>2. m2[new][v[2]] = Zero
      BY <1>2, <1>3
    <3>3. QED BY <1>4, <2>1, <3>1, <3>2 DEF TranslateIn
  <2>4. QED BY <2>2, <2>3
<1>6. CASE Hangs(m, P4, v[1])
  <2>1. u \in Tables /\ m2[P4][v[1]] = m[P4][v[1]] /\ m[P4][v[1]].table = u
    BY <1>1, <1>2, <1>3, <1>6, SoundFacts DEF Under
  <2>2. CASE ~ Hangs(m, u, v[2])
    <3>1. TranslateIn(m, v) = NotMapped
      BY <2>1, <2>2 DEF TranslateIn, Hangs
    <3>2. CASE ~ Hangs(m2, u, v[2])
      BY <2>1, <3>1, <3>2 DEF TranslateIn, Hangs
    <3>3. CASE Hangs(m2, u, v[2])
      <4>1. m2[u][v[2]].table = new
        BY <1>2, <1>3, <2>1, <2>2, <3>3 DEF Under
      <4>2. m2[new][v[3]] = Zero
        BY <1>2, <1>3
      <4>3. QED BY <1>4, <2>1, <3>1, <4>1, <4>2 DEF TranslateIn
    <3>4. QED BY <3>2, <3>3
  <2>3. CASE Hangs(m, u, v[2])
    <3>1. x \in Tables /\ m2[u][v[2]] = m[u][v[2]] /\ m[u][v[2]].table = x
      BY <1>2, <1>3, <2>1, <2>3, SoundFacts DEF Under
    <3>2. x \notin {P4} \cup Middle(m) /\ x \in BootTables \cup Made(Idx(m))
      BY <1>1, <1>3, <1>6, <2>1, <2>3, LastLevel DEF u, x
    <3>3. m2[x][v[3]] = m[x][v[3]]
      BY <1>1, <1>3, <3>1, <3>2 DEF Grown
    <3>4. QED BY <2>1, <3>1, <3>3 DEF TranslateIn
  <2>4. QED BY <2>2, <2>3
<1>7. QED BY <1>5, <1>6

-----------------------------------------------------------------------------
(* The code. *)

(* The words that a walk and new_page_table look at.                       *)
LEMMA WordFacts ==
    /\ ~ Present(Zero) /\ AsIdx(Zero) = 0 /\ Zero.to = "zero"
    /\ \A n : AsIdx(Number(n)) = n /\ Number(n).to = "number"
    /\ \A t : /\ Present(Table(t))
              /\ Table(t).to = "table" /\ Table(t).table = t
    /\ \A w \in Words : w.to = "table" => Present(w)
    /\ \A w \in Words : w.to = "zero" => w = Zero
  BY DEF Present, AsIdx, Zero, Number, Table, Page, Words, Link

(* The table behind the one idx names is handed out (virtmem.c:60).        *)
LEMMA TakeTable ==
    ASSUME NEW m, NEW t, NEW n, AsIdx(m[Meta(1)][0]) = n
    PROVE  take_table(Walk(m, 1, t)) =
                Walk([m EXCEPT ![Meta(1)][0] = Number(n + 2)], 1, <<1, n + 1>>)
<1> DEFINE w == Walk(m, 1, t)
           m1 == [m EXCEPT ![Meta(1)][0] = Number(n + 2)]
<1>1. w.mem = m /\ w.cur = 1
  BY DEF Walk
<1>2. take_table(w) = [w EXCEPT !.table = <<1, n + 1>>,
                                !.mem[Meta(1)][0] = Number(n + 2)]
  BY <1>1 DEF take_table
<1>3. [w EXCEPT !.table = <<1, n + 1>>, !.mem[Meta(1)][0] = Number(n + 2)]
        = [[w EXCEPT !.table = <<1, n + 1>>] EXCEPT !.mem = m1]
  BY <1>1
<1>4. [[w EXCEPT !.table = <<1, n + 1>>] EXCEPT !.mem = m1]
        = Walk(m1, 1, <<1, n + 1>>)
  <2> HIDE DEF m1
  <2>1. [w EXCEPT !.table = <<1, n + 1>>] = Walk(m, 1, <<1, n + 1>>)
    BY DEF Walk
  <2>2. [Walk(m, 1, <<1, n + 1>>) EXCEPT !.mem = m1]
            = Walk(m1, 1, <<1, n + 1>>)
    BY DEF Walk
  <2>3. QED BY <2>1, <2>2
<1>5. QED BY <1>2, <1>3, <1>4

(* The memory that new_page_table takes a table of: the first call empties *)
(* the first block (virtmem.c:31-46).                                      *)
Started(m, c) ==
    IF c = 0 THEN [t \in Tables |-> IF t \in BlockTables(1)
                                    THEN [i \in Index |-> Zero] ELSE m[t]]
    ELSE m

(* A call begins with a block, new or as it was. *)
LEMMA StartedFacts ==
    ASSUME Enough, NEW m, NEW c, Sound(m, c)
    PROVE  /\ Started(m, c) \in Memory
           /\ AsIdx(Started(m, c)[Meta(1)][0]) = Idx(m)
           /\ \A u \in Tables, j \in Index :
                /\ Hangs(Started(m, c), u, j) <=> Hangs(m, u, j)
                /\ u \in BootTables \cup Made(Idx(m))
                        => Started(m, c)[u][j] = m[u][j]
           /\ \A k \in Idx(m) + 1 .. Dirs - 1, j \in Index :
                Started(m, c)[<<1, k>>][j] = Zero
<1>1. /\ 0 \in Index /\ Dirs \in Nat /\ m \in Memory /\ c \in {0, 1}
      /\ Zero \in Words /\ Idx(m) \in Nat /\ Meta(1) \in Tables
  BY PageTablesAssumption, TableFacts, SoundFacts DEF Sound
<1>2. CASE c = 1
  <2>1. Started(m, c) = m
    BY <1>2 DEF Started
  <2>2. AsIdx(m[Meta(1)][0]) = Idx(m)
    BY <1>2, WordFacts DEF Sound, Unused
  <2>3. QED BY <1>1, <1>2, <2>1, <2>2 DEF Sound, Unused
<1>3. CASE c = 0
  <2> DEFINE s == Started(m, c)
  <2>1. s = [t \in Tables |-> IF t \in BlockTables(1)
                              THEN [i \in Index |-> Zero] ELSE m[t]]
    BY <1>3 DEF Started
  <2>2. s \in Memory
    BY <1>1, <2>1 DEF Memory
  <2>3. \A k \in 0 .. Dirs : <<1, k>> \in BlockTables(1) /\ <<1, k>> \in Tables
    BY TableFacts DEF BlockTables
  <2>4. /\ \A t \in BlockTables(1) \cap Tables, j \in Index : s[t][j] = Zero
        /\ \A t \in Tables \ BlockTables(1), j \in Index : s[t][j] = m[t][j]
    BY <1>1, <2>1
  <2> HIDE DEF s
  <2>5. Idx(m) = 0
    BY <1>3 DEF Sound, Unused
  <2>6. s[Meta(1)][0] = Zero
    BY <1>1, <2>3, <2>4 DEF Meta
  <2>7. Made(Idx(m)) = {}
    BY <2>5 DEF Made
  <2>8. \A t \in BootTables : t \in Tables \ BlockTables(1)
    BY DEF BootTables, Tables, BlockTables, P4, P3Higher, P2Higher
  <2>9. \A t \in Tables, j \in Index : Hangs(m, t, j) => t \in BootTables
    BY <2>7, SoundFacts DEF Sound, Rooted, BootTables
  <2>10. \A t \in Tables, j \in Index : Hangs(s, t, j) <=> Hangs(m, t, j)
    BY <2>4, <2>8, <2>9, WordFacts DEF Hangs
  <2>11. \A k \in Idx(m) + 1 .. Dirs - 1, j \in Index : s[<<1, k>>][j] = Zero
    BY <1>1, <2>3, <2>4, <2>5
  <2>12. QED
    BY <2>2, <2>4, <2>5, <2>6, <2>7, <2>8, <2>10, <2>11, WordFacts DEF s
<1>4. QED BY <1>1, <1>2, <1>3

(* What new_page_table makes of an empty entry: the memory has grown.      *)
LEMMA NextLevelGrows ==
    ASSUME Enough, NEW m, NEW c, Sound(m, c), NEW t, NEW i, NEW p,
           Place(m, t, i, p), ~ Hangs(m, t, i)
    PROVE  \E m2 : /\ next_level(Walk(m, c, t), i)
                        = Walk(m2, 1, <<1, Idx(m) + 1>>)
                   /\ Grown(m, m2, t, i)
<1> DEFINE n == Idx(m)
           new == <<1, n + 1>>
           s == Started(m, c)
           s1 == [s EXCEPT ![Meta(1)][0] = Number(n + 2)]
           s2 == [s1 EXCEPT ![t][i] = Table(new)]
<1>1. /\ 0 \in Index /\ Dirs \in Nat /\ 1 \in Blocks /\ i \in Index
      /\ t \in Tables /\ m \in Memory /\ c \in {0, 1}
      /\ t \in BootTables \cup Made(n)
  BY PageTablesAssumption, PlaceFacts DEF Enough, Sound
<1>2. n \in Nat /\ n + 2 < Dirs
  <2>1. p \in Needed /\ p \notin Prefixes(m) /\ Prefixes(m) \subseteq Needed
    BY PlaceFacts DEF Place, Sound
  <2>2. QED BY <2>1, RoomForOne, SoundFacts DEF Idx
<1>3. /\ Meta(1) \in Tables /\ Meta(1) = <<1, Dirs>>
      /\ new \in Tables /\ NoBlock \notin Tables
      /\ Number(n + 2) \in Words /\ Table(new) \in Words
  <2>1. n + 1 \in 0 .. Dirs /\ n + 2 \in Nat
    BY <1>1, <1>2
  <2>2. QED BY <2>1, TableFacts DEF Meta
<1>4. /\ s \in Memory /\ AsIdx(s[Meta(1)][0]) = n
      /\ \A u \in Tables, j \in Index :
            /\ Hangs(s, u, j) <=> Hangs(m, u, j)
            /\ u \in BootTables \cup Made(n) => s[u][j] = m[u][j]
      /\ \A k \in n + 1 .. Dirs - 1, j \in Index : s[<<1, k>>][j] = Zero
  BY StartedFacts
<1>5. t # Meta(1) /\ Meta(1) \notin BootTables \cup Made(n)
        /\ \A k \in n + 1 .. Dirs - 1 : <<1, k>> # t /\ <<1, k>> # Meta(1)
                                        /\ <<1, k>> \in Tables
  <2>1. Meta(1) \notin BootTables
    BY TableFacts
  <2>2. \A k \in n + 1 .. Dirs - 1 : k \in Nat /\ k \in 0 .. Dirs
    BY <1>1, <1>2
  <2>3. \A k \in n + 1 .. Dirs - 1 : <<1, k>> \in Tables \ BootTables
    BY <2>2, TableFacts
  <2>4. \A k \in n + 1 .. Dirs : <<1, k>> \notin Made(n)
    BY <1>1, <1>2 DEF Made
  <2>5. Dirs \in n + 1 .. Dirs
    BY <1>1, <1>2
  <2>6. \A k \in n + 1 .. Dirs - 1 : k \in n + 1 .. Dirs /\ k # Dirs
    BY <1>1, <1>2
  <2>7. QED BY <1>1, <1>3, <2>1, <2>3, <2>4, <2>5, <2>6
<1>6. next_level(Walk(m, c, t), i) = Walk(s2, 1, new)
  <2> DEFINE w == Walk(m, c, t)
  <2>1. ~ Present(w.mem[w.table][i]) /\ w.table = t /\ w.mem = m /\ w.cur = c
    <3>1. m[t][i].to \in {"zero", "table"}
      BY <1>1, PlaceFacts DEF Sound, Levels
    <3>2. m[t][i] \in Words
      BY <1>1, SoundFacts
    <3>3. m[t][i] = Zero
      BY <3>1, <3>2, WordFacts DEF Hangs
    <3>4. QED BY <3>3, WordFacts DEF Walk
  <2>2. new_page_table(w) = Walk(s1, 1, new)
    <3>1. CASE c = 0
      <4>1. alloc_pt_block(w) = Walk(s, 1, t)
        <5>1. alloc_pt_block(w) = [[w EXCEPT !.mem = s] EXCEPT !.cur = 1]
          <6>1. w.cur + 1 = 1
            BY <2>1, <3>1
          <6>2. s = [u \in Tables |-> IF u \in BlockTables(1)
                                      THEN [j \in Index |-> Zero]
                                      ELSE w.mem[u]]
            BY <2>1, <3>1 DEF Started
          <6> HIDE DEF w, s
          <6>3. QED BY <6>1, <6>2 DEF alloc_pt_block
        <5>2. [[w EXCEPT !.mem = s] EXCEPT !.cur = 1] = Walk(s, 1, t)
          <6> HIDE DEF s
          <6>1. [w EXCEPT !.mem = s] = Walk(s, c, t)
            BY DEF Walk
          <6>2. [Walk(s, c, t) EXCEPT !.cur = 1] = Walk(s, 1, t)
            BY DEF Walk
          <6>3. QED BY <6>1, <6>2
        <5>3. QED BY <5>1, <5>2
      <4>2. new_page_table(w) = take_table(Walk(s, 1, t))
        BY <1>1, <2>1, <3>1, <4>1 DEF new_page_table
      <4>3. QED BY <1>4, <4>2, TakeTable
    <3>2. CASE c = 1
      <4>1. s = m
        BY <3>2 DEF Started
      <4>2. new_page_table(w) = take_table(Walk(s, 1, t))
        BY <1>1, <1>2, <1>4, <2>1, <3>2, <4>1 DEF new_page_table, Walk
      <4>3. QED BY <1>4, <4>2, TakeTable
    <3>3. QED BY <1>1, <3>1, <3>2
  <2>3. new_page_table(w).table # NoBlock
    BY <1>3, <2>2 DEF Walk
  <2>4. next_level(w, i) = [Walk(s1, 1, new) EXCEPT !.mem[t][i] = Table(new)]
    <3> HIDE DEF w, s1
    <3>1. QED BY <1>1, <2>1, <2>2, <2>3 DEF next_level, Walk
  <2>5. QED BY <2>4 DEF Walk
<1>7. Grown(m, s2, t, i)
  <2>1. s1 \in Memory /\ s1[Meta(1)][0] = Number(n + 2)
    BY <1>1, <1>3, <1>4 DEF Memory
  <2>2. \A u \in Tables, j \in Index :
            <<u, j>> # <<Meta(1), 0>> => s1[u][j] = s[u][j]
    BY <1>1, <1>3, <1>4 DEF Memory
  <2> HIDE DEF s1
  <2>3. s2 \in Memory /\ s2[t][i] = Table(new)
    BY <1>1, <1>3, <2>1 DEF Memory
  <2>4. \A u \in Tables, j \in Index :
            <<u, j>> # <<t, i>> => s2[u][j] = s1[u][j]
    BY <1>1, <1>3, <2>1 DEF Memory
  <2> HIDE DEF s2, s
  <2>5. s2[Meta(1)][0] = Number(n + 2)
    BY <1>1, <1>3, <1>5, <2>1, <2>4
  <2>6. \A k \in n + 1 .. Dirs - 1, j \in Index : s2[<<1, k>>][j] = Zero
    <3>1. ASSUME NEW k \in n + 1 .. Dirs - 1, NEW j \in Index
          PROVE  s2[<<1, k>>][j] = Zero
      <4>1. PICK u \in Tables : u = <<1, k>> /\ u # t /\ u # Meta(1)
        BY <1>5
      <4>2. s[u][j] = Zero
        BY <1>4, <4>1
      <4>3. s1[u][j] = s[u][j]
        BY <2>2, <4>1, Zenon
      <4>4. s2[u][j] = s1[u][j]
        BY <2>4, <4>1, Zenon
      <4>5. QED BY <4>1, <4>2, <4>3, <4>4
    <3>2. QED BY <3>1
  <2>7. ~ Hangs(s1, Meta(1), 0) /\ ~ Hangs(m, Meta(1), 0)
    <3>1. ~ Hangs(m, Meta(1), 0)
      BY <1>1, <1>3, <1>5, SoundFacts DEF Sound, Rooted, BootTables
    <3>2. QED BY <2>1, <3>1, WordFacts DEF Hangs
  <2>8. \A u \in Tables, j \in Index : <<u, j>> # <<t, i>> =>
            /\ Hangs(s2, u, j) <=> Hangs(m, u, j)
            /\ u \in BootTables \cup Made(n) => s2[u][j] = m[u][j]
    <3> SUFFICES ASSUME NEW u \in Tables, NEW j \in Index, <<u, j>> # <<t, i>>
                 PROVE  /\ Hangs(s2, u, j) <=> Hangs(m, u, j)
                        /\ u \in BootTables \cup Made(n)
                                => s2[u][j] = m[u][j]
      OBVIOUS
    <3>1. CASE u = Meta(1) /\ j = 0
      BY <1>5, <2>4, <2>7, <3>1 DEF Hangs
    <3>2. CASE ~ (u = Meta(1) /\ j = 0)
      BY <1>4, <2>2, <2>4, <3>2 DEF Hangs
    <3>3. QED BY <3>1, <3>2
  <2>9. QED BY <2>3, <2>5, <2>6, <2>8 DEF Grown
<1>8. QED BY <1>6, <1>7

(* One level of a walk: the table is there already or is made, and no      *)
(* translation changes (virtmem.c:68-82).                                  *)
LEMMA NextLevel ==
    ASSUME Enough, NEW m, NEW c, Sound(m, c), NEW t, NEW i, NEW p,
           Place(m, t, i, p)
    PROVE  \E m2, c2 :
                /\ next_level(Walk(m, c, t), i) = Walk(m2, c2, Under(m2, t, i))
                /\ Sound(m2, c2) /\ Hangs(m2, t, i) /\ c2 \in {c, 1}
                /\ \A u \in Tables, j \in Index :
                        Hangs(m, u, j) => m2[u][j] = m[u][j]
                /\ \A v \in Index \X Index \X Index :
                        TranslateIn(m2, v) = TranslateIn(m, v)
<1>1. CASE Hangs(m, t, i)
  <2>1. t \in Tables /\ i \in Index
    BY PlaceFacts
  <2>2. m[t][i] \in Words /\ m[t][i].to = "table"
    BY <1>1, <2>1, SoundFacts DEF Hangs
  <2>3. Present(m[t][i])
    BY <2>2, WordFacts
  <2>4. next_level(Walk(m, c, t), i)
            = [Walk(m, c, t) EXCEPT !.table = m[t][i].table]
    BY <2>1, <2>2, <2>3 DEF next_level, Walk
  <2>5. @ = Walk(m, c, Under(m, t, i))
    BY DEF Walk, Under
  <2>6. QED BY <1>1, <2>4, <2>5
<1>2. CASE ~ Hangs(m, t, i)
  <2>1. PICK m2 : /\ next_level(Walk(m, c, t), i)
                        = Walk(m2, 1, <<1, Idx(m) + 1>>)
                  /\ Grown(m, m2, t, i)
    BY <1>2, NextLevelGrows
  <2>2. t \in Tables /\ i \in Index
    BY PlaceFacts
  <2>3. \A u \in Tables, j \in Index : Hangs(m, u, j) => m2[u][j] = m[u][j]
    <3>1. Grown(m, m2, t, i)
      BY <2>1
    <3>2. \A u \in Tables, j \in Index :
                /\ Hangs(m, u, j) => m2[u][j] = m[u][j]
                /\ Hangs(m2, u, j) <=> Hangs(m, u, j) \/ (u = t /\ j = i)
      BY <1>2, <3>1, GrownKeeps
    <3>3. QED BY <3>2
  <2>6. Under(m2, t, i) = <<1, Idx(m) + 1>> /\ Hangs(m2, t, i)
    BY <2>1, WordFacts DEF Grown, Under, Hangs
  <2>4. Sound(m2, 1)
    BY <1>2, <2>1, GrownSound
  <2>5. \A v \in Index \X Index \X Index :
            TranslateIn(m2, v) = TranslateIn(m, v)
    BY <1>2, <2>1, GrownTranslates
  <2>7. QED BY <2>1, <2>3, <2>4, <2>5, <2>6
<1>3. QED BY <1>1, <1>2

(* A call reaches the table of its page, and until it writes there every   *)
(* page is mapped as before (virtmem.c:104-122).                           *)
LEMMA Reached ==
    ASSUME Enough, Sound(mem, cur), NEW virt \in Virt
    PROVE  \E m, c :
                LET middle == Under(m, P4, virt[1])
                IN  /\ Reach(virt) = Walk(m, c, Under(m, middle, virt[2]))
                    /\ Sound(m, c) /\ c \in {cur, 1}
                    /\ Hangs(m, P4, virt[1]) /\ Hangs(m, middle, virt[2])
                    /\ \A v \in Index \X Index \X Index :
                            TranslateIn(m, v) = TranslateIn(mem, v)
<1>1. /\ virt[1] \in VirtP4 /\ virt[1] \in Index /\ virt[2] \in Index
      /\ P4 \in Tables
  BY PageTablesAssumption, TableFacts DEF VirtP4
<1>2. <<virt[1]>> \in Needed /\ <<virt[1], virt[2]>> \in Needed
  BY DEF Needed
<1>3. Place(mem, P4, virt[1], <<virt[1]>>)
  BY <1>1, <1>2 DEF Place
<1>4. PICK m1, c1 :
        /\ next_level(Walk(mem, cur, P4), virt[1])
                = Walk(m1, c1, Under(m1, P4, virt[1]))
        /\ Sound(m1, c1) /\ Hangs(m1, P4, virt[1]) /\ c1 \in {cur, 1}
        /\ \A v \in Index \X Index \X Index :
                TranslateIn(m1, v) = TranslateIn(mem, v)
  BY <1>3, NextLevel
<1> DEFINE middle == Under(m1, P4, virt[1])
<1>5. Place(m1, middle, virt[2], <<virt[1], virt[2]>>)
  BY <1>1, <1>2, <1>4 DEF Place
<1>6. PICK m2, c2 :
        /\ next_level(Walk(m1, c1, middle), virt[2])
                = Walk(m2, c2, Under(m2, middle, virt[2]))
        /\ Sound(m2, c2) /\ Hangs(m2, middle, virt[2]) /\ c2 \in {c1, 1}
        /\ \A u \in Tables, j \in Index :
                Hangs(m1, u, j) => m2[u][j] = m1[u][j]
        /\ \A v \in Index \X Index \X Index :
                TranslateIn(m2, v) = TranslateIn(m1, v)
  BY <1>4, <1>5, NextLevel
<1>7. Under(m2, P4, virt[1]) = middle /\ Hangs(m2, P4, virt[1])
  BY <1>1, <1>4, <1>6 DEF Under, Hangs
<1>8. Reach(virt) = Walk(m2, c2, Under(m2, middle, virt[2]))
  BY <1>4, <1>6 DEF Reach
<1>9. \A v \in Index \X Index \X Index :
            TranslateIn(m2, v) = TranslateIn(mem, v)
  BY <1>4, <1>6
<1>10. c2 \in {cur, 1}
  BY <1>4, <1>6
<1>11. QED BY <1>6, <1>7, <1>8, <1>9, <1>10

-----------------------------------------------------------------------------
(* The write. *)

Written(m, x, i, word) == [m EXCEPT ![x][i] = word]

(* The last write of a call is to a table of the last level, so the tables *)
(* stay as they are (virtmem.c:123).                                       *)
LEMMA WriteSound ==
    ASSUME Enough, NEW m, NEW c, Sound(m, c), NEW virt \in Virt,
           Hangs(m, P4, virt[1]),
           NEW middle, middle = Under(m, P4, virt[1]),
           Hangs(m, middle, virt[2]),
           NEW x, x = Under(m, middle, virt[2]),
           NEW word \in Words, word.to # "table",
           NEW m2, m2 = Written(m, x, virt[3], word)
    PROVE  /\ Sound(m2, c) /\ x \in Tables
           /\ \A t \in Tables, j \in Index :
                m2[t][j] = IF t = x /\ j = virt[3] THEN word ELSE m[t][j]
           /\ \A t \in Tables, j \in Index : Hangs(m2, t, j) <=> Hangs(m, t, j)
<1>1. /\ virt[1] \in VirtP4 /\ virt[1] \in Index /\ virt[2] \in Index
      /\ virt[3] \in Index /\ 0 \in Index /\ Dirs \in Nat
      /\ KernelP4 \in Index /\ KernelP3 \in Index
  BY PageTablesAssumption DEF VirtP4
<1>2. x \in Made(Idx(m)) /\ x \notin Middle(m)
  BY <1>1, LastLevel
<1>3. x \in Tables \ BootTables
  BY <1>2, SoundFacts
<1>4. m2 \in Memory /\ \A t \in Tables, j \in Index :
                m2[t][j] = IF t = x /\ j = virt[3] THEN word ELSE m[t][j]
  BY <1>1, <1>3 DEF Sound, Memory, Written
<1>5. BootTables = {P4, P3Higher, P2Higher} /\ BootTables \subseteq Tables
  BY DEF BootTables, Tables
<1>6. \A j \in Index : ~ Hangs(m, x, j)
  BY <1>2, <1>3, <1>5 DEF Sound, Rooted
<1>7. \A t \in Tables, j \in Index :
            /\ Hangs(m2, t, j) <=> Hangs(m, t, j)
            /\ Hangs(m, t, j) => Under(m2, t, j) = Under(m, t, j)
  <2> SUFFICES ASSUME NEW t \in Tables, NEW j \in Index
               PROVE  /\ Hangs(m2, t, j) <=> Hangs(m, t, j)
                      /\ Hangs(m, t, j) => Under(m2, t, j) = Under(m, t, j)
    OBVIOUS
  <2>0. m2[t][j] = IF t = x /\ j = virt[3] THEN word ELSE m[t][j]
    BY <1>4
  <2>1. CASE t = x
    <3>1. ~ Hangs(m, x, j) /\ ~ Hangs(m2, x, j)
      BY <1>6, <2>0, <2>1 DEF Hangs
    <3>2. QED BY <2>1, <3>1
  <2>2. CASE t # x
    <3>1. m2[t][j] = m[t][j]
      BY <2>0, <2>2
    <3>2. QED BY <3>1 DEF Hangs, Under
  <2>3. QED BY <2>1, <2>2
<1>8. /\ \A i \in VirtP4 : /\ Hangs(m2, P4, i) <=> Hangs(m, P4, i)
                           /\ Hangs(m, P4, i) =>
                                /\ Under(m2, P4, i) = Under(m, P4, i)
                                /\ Under(m, P4, i) \in Tables
  BY <1>5, <1>7, SoundFacts DEF VirtP4
<1>9. Middle(m2) = Middle(m)
  BY <1>8 DEF Middle
<1>10. Prefixes(m2) = Prefixes(m)
  <2>1. \A i \in VirtP4, j \in Index :
            Hangs(m2, P4, i) /\ Hangs(m2, Under(m2, P4, i), j)
            <=> Hangs(m, P4, i) /\ Hangs(m, Under(m, P4, i), j)
    BY <1>7, <1>8
  <2>2. {r \in VirtP4 \X Index :
            Hangs(m2, P4, r[1]) /\ Hangs(m2, Under(m2, P4, r[1]), r[2])}
        = {r \in VirtP4 \X Index :
            Hangs(m, P4, r[1]) /\ Hangs(m, Under(m, P4, r[1]), r[2])}
    BY <2>1
  <2>3. {j \in VirtP4 : Hangs(m2, P4, j)} = {j \in VirtP4 : Hangs(m, P4, j)}
    BY <1>8
  <2>4. QED BY <2>2, <2>3 DEF Prefixes
<1>11. Idx(m2) = Idx(m) /\ Idx(m) \in Nat /\ Idx(m) < Dirs
  BY <1>10, SoundFacts DEF Idx
<1>12. Kernel(m2)
  BY <1>1, <1>3, <1>4, <1>5 DEF Sound, Kernel
<1>13. Levels(m2)
  <2> SUFFICES ASSUME NEW t \in {P4} \cup Middle(m), NEW j \in Index
               PROVE  m2[t][j].to \in {"zero", "table"}
    BY <1>9 DEF Levels
  <2>1. t \in Tables /\ t # x
    BY <1>2, <1>3, <1>5, SoundFacts
  <2>2. QED BY <1>4, <2>1 DEF Sound, Levels
<1>14. Rooted(m2)
  BY <1>7, <1>9, <1>11 DEF Sound, Rooted
<1>15. Owned(m2)
  BY <1>7 DEF Sound, Owned
<1>16. Unused(m2, c)
  <2>1. c = 0 => Idx(m2) = 0
    BY <1>11 DEF Sound, Unused
  <2>2. ASSUME c = 1
        PROVE  /\ m2[Meta(1)][0] = Number(Idx(m2))
               /\ \A k \in Idx(m2) + 1 .. Dirs - 1, i \in Index :
                        m2[<<1, k>>][i] = Zero
    <3>1. x # Meta(1) /\ Meta(1) \in Tables
      BY <1>2, <1>11, TableFacts DEF Made, Meta
    <3>2. \A k \in Idx(m) + 1 .. Dirs - 1 : x # <<1, k>> /\ k \in 0 .. Dirs
      BY <1>1, <1>2, <1>11 DEF Made
    <3>3. \A k \in Idx(m) + 1 .. Dirs - 1 : <<1, k>> \in Tables
      BY <3>2, TableFacts
    <3>4. m[Meta(1)][0] = Number(Idx(m))
            /\ \A k \in Idx(m) + 1 .. Dirs - 1, i \in Index : m[<<1, k>>][i] = Zero
      BY <2>2 DEF Sound, Unused
    <3>5. m2[Meta(1)][0] = Number(Idx(m2))
      BY <1>1, <1>4, <1>11, <3>1, <3>4
    <3>6. \A k \in Idx(m) + 1 .. Dirs - 1, i \in Index : m2[<<1, k>>][i] = Zero
      <4>1. ASSUME NEW k \in Idx(m) + 1 .. Dirs - 1, NEW i \in Index
            PROVE  m2[<<1, k>>][i] = Zero
        <5>1. <<1, k>> \in Tables /\ <<1, k>> # x
          BY <3>2, <3>3
        <5>2. m2[<<1, k>>][i] = m[<<1, k>>][i]
          BY <1>4, <5>1
        <5>3. QED BY <3>4, <5>2
      <4>2. QED BY <4>1
    <3>7. QED BY <1>11, <3>5, <3>6
  <2>3. QED BY <2>1, <2>2 DEF Unused
<1>17. QED
  BY <1>3, <1>4, <1>7, <1>10, <1>12, <1>13, <1>14, <1>15, <1>16 DEF Sound

(* Where a walk over two tables ends.                                      *)
LEMMA TranslateThrough ==
    ASSUME NEW m, NEW q, NEW u, NEW y,
           Hangs(m, P4, q[1]), Under(m, P4, q[1]) = u,
           Hangs(m, u, q[2]), Under(m, u, q[2]) = y
    PROVE  TranslateIn(m, q) = IF m[y][q[3]].to = "page" THEN m[y][q[3]].frame
                                                         ELSE NotMapped
  BY DEF TranslateIn, Hangs, Under

(* Without a table on the way a page is not mapped. *)
LEMMA TranslateStops ==
    ASSUME NEW m, NEW q,
           \/ ~ Hangs(m, P4, q[1])
           \/ ~ Hangs(m, Under(m, P4, q[1]), q[2])
    PROVE  TranslateIn(m, q) = NotMapped
  BY DEF TranslateIn, Hangs, Under

(* The write maps its page, and no other: that finds another table of the  *)
(* last level, or another entry of this one.                               *)
LEMMA WriteTranslates ==
    ASSUME Enough, NEW m, NEW c, Sound(m, c), NEW virt \in Virt,
           Hangs(m, P4, virt[1]),
           NEW middle, middle = Under(m, P4, virt[1]),
           Hangs(m, middle, virt[2]),
           NEW x, x = Under(m, middle, virt[2]),
           NEW word \in Words, word.to # "table",
           NEW m2, m2 = Written(m, x, virt[3], word)
    PROVE  /\ TranslateIn(m2, virt) =
                    IF word.to = "page" THEN word.frame ELSE NotMapped
           /\ \A q \in Index \X Index \X Index :
                q # virt => TranslateIn(m2, q) = TranslateIn(m, q)
<1>1. /\ virt \in Index \X Index \X Index
      /\ virt[1] \in VirtP4 /\ virt[1] \in Index /\ virt[2] \in Index
      /\ virt[3] \in Index
  BY PageTablesAssumption DEF VirtP4
<1>2. P4 \in Tables /\ x \in Tables
        /\ \A t \in Tables, j \in Index :
            m2[t][j] = IF t = x /\ j = virt[3] THEN word ELSE m[t][j]
  <2>1. P4 \in Tables
    BY TableFacts
  <2>2. x \in Tables /\ x \in Made(Idx(m))
    BY <1>1, LastLevel, SoundFacts
  <2>3. m2 = [m EXCEPT ![x][virt[3]] = word] /\ m \in Memory
    BY DEF Sound, Written
  <2>4. QED BY <1>1, <2>1, <2>2, <2>3 DEF Memory
<1>3. middle \in Tables \ {P4} /\ x # P4 /\ x \notin Middle(m)
        /\ middle \in Middle(m) /\ x \in Made(Idx(m))
  <2>1. middle \in Middle(m)
    BY <1>1 DEF Middle
  <2>2. QED BY <1>1, <2>1, LastLevel
<1>4. /\ m2[P4][virt[1]] = m[P4][virt[1]]
      /\ m2[middle][virt[2]] = m[middle][virt[2]]
      /\ m2[x][virt[3]] = word
  <2>1. m2[P4][virt[1]] = m[P4][virt[1]]
    BY <1>1, <1>2, <1>3
  <2>2. m2[middle][virt[2]] = m[middle][virt[2]]
    BY <1>1, <1>2, <1>3
  <2>3. m2[x][virt[3]] = word
    BY <1>1, <1>2
  <2>4. QED BY <2>1, <2>2, <2>3
<1>5. TranslateIn(m2, virt) = IF word.to = "page" THEN word.frame ELSE NotMapped
  <2>1. Hangs(m2, P4, virt[1]) /\ Under(m2, P4, virt[1]) = middle
    BY <1>4 DEF Hangs, Under
  <2>2. Hangs(m2, middle, virt[2]) /\ Under(m2, middle, virt[2]) = x
    BY <1>4 DEF Hangs, Under
  <2>3. TranslateIn(m2, virt) = IF m2[x][virt[3]].to = "page"
                                THEN m2[x][virt[3]].frame ELSE NotMapped
    BY <2>1, <2>2, TranslateThrough
  <2>4. QED BY <1>4, <2>3
<1>6. ASSUME NEW q \in Index \X Index \X Index, q # virt
      PROVE  TranslateIn(m2, q) = TranslateIn(m, q)
  <2> DEFINE u == Under(m, P4, q[1])
             y == Under(m, u, q[2])
  <2>1. q[1] \in Index /\ q[2] \in Index /\ q[3] \in Index
    OBVIOUS
  <2>2. m2[P4][q[1]] = m[P4][q[1]]
    BY <1>2, <1>3, <2>1
  <2>3. CASE ~ Hangs(m, P4, q[1])
    <3>1. ~ Hangs(m2, P4, q[1])
      BY <2>2, <2>3 DEF Hangs
    <3>2. QED BY <2>3, <3>1, TranslateStops
  <2>4. CASE Hangs(m, P4, q[1])
    <3>1. u \in Tables
      BY <1>2, <2>1, <2>4, SoundFacts
    <3>2. u # x
      <4>1. CASE q[1] = KernelP4
        <5>1. u = P3Higher
          <6>1. m[P4][KernelP4] = Table(P3Higher)
            BY DEF Sound, Kernel
          <6>2. QED BY <4>1, <6>1, WordFacts DEF Under
        <5>2. x \notin BootTables
          BY <1>3, SoundFacts
        <5>3. QED BY <5>1, <5>2 DEF BootTables
      <4>2. CASE q[1] # KernelP4
        <5>1. u \in Middle(m)
          BY <2>1, <2>4, <4>2 DEF Middle, VirtP4
        <5>2. QED BY <1>3, <5>1
      <4>3. QED BY <4>1, <4>2
    <3>3. m2[u][q[2]] = m[u][q[2]]
      BY <1>2, <2>1, <3>1, <3>2
    <3>4. CASE ~ Hangs(m, u, q[2])
      <4>1. Under(m2, P4, q[1]) = u
        BY <2>2 DEF Under
      <4>2. ~ Hangs(m2, Under(m2, P4, q[1]), q[2])
        BY <3>3, <3>4, <4>1 DEF Hangs
      <4>3. TranslateIn(m2, q) = NotMapped /\ TranslateIn(m, q) = NotMapped
        BY <3>4, <4>2, TranslateStops
      <4>4. QED BY <4>3
    <3>5. CASE Hangs(m, u, q[2])
      <4>1. y \in Tables
        BY <2>1, <3>1, <3>5, SoundFacts
      <4>2. ~ (y = x /\ q[3] = virt[3])
        <5>1. SUFFICES ASSUME y = x, q[3] = virt[3] PROVE FALSE
          OBVIOUS
        <5>2. u = middle /\ q[2] = virt[2]
          BY <1>1, <1>3, <2>1, <3>1, <3>5, <5>1 DEF Sound, Owned
        <5>3. q[1] = virt[1]
          BY <1>1, <1>2, <2>1, <2>4, <5>2 DEF Sound, Owned
        <5>4. QED BY <1>1, <1>6, <5>1, <5>2, <5>3
      <4>3. m2[y][q[3]] = m[y][q[3]]
        BY <1>2, <2>1, <4>1, <4>2
      <4>4. Hangs(m2, P4, q[1]) /\ Under(m2, P4, q[1]) = u
        BY <2>2, <2>4 DEF Hangs, Under
      <4>5. Hangs(m2, u, q[2]) /\ Under(m2, u, q[2]) = y
        BY <3>3, <3>5 DEF Hangs, Under
      <4>6. TranslateIn(m2, q) = IF m2[y][q[3]].to = "page"
                                 THEN m2[y][q[3]].frame ELSE NotMapped
        BY <4>4, <4>5, TranslateThrough
      <4>7. TranslateIn(m, q) = IF m[y][q[3]].to = "page"
                                THEN m[y][q[3]].frame ELSE NotMapped
        BY <2>4, <3>5, TranslateThrough
      <4>8. QED BY <4>3, <4>6, <4>7
    <3>6. QED BY <3>4, <3>5
  <2>5. QED BY <2>3, <2>4
<1>7. QED BY <1>5, <1>6

-----------------------------------------------------------------------------
(* The specification. *)

(* The walk of the specification is the one over its memory. *)
LEMMA TranslateHere == \A v : Translate(v) = TranslateIn(mem, v)
  BY DEF Translate, TranslateIn, Entry

TablesInv ==
    /\ Sound(mem, cur)
    /\ status = "running"
    /\ TlbFollowsTables

(* A call maps its page to its frame, and stops nothing.                   *)
LEMMA CallMaps ==
    ASSUME Enough, TablesInv, NEW virt \in Virt,
           NEW frame \in Phys \cup {NotMapped}, set_entry(virt, frame)
    PROVE  /\ Sound(mem', cur') /\ status' = "running" /\ flushed' = FALSE
           /\ cur' = Reach(virt).cur /\ cur' \in {cur, 1}
           /\ call' = <<virt, frame>>
           /\ TranslateIn(mem', virt) = frame
           /\ \A q \in Index \X Index \X Index :
                q # virt => TranslateIn(mem', q) = TranslateIn(mem, q)
<1>1. PICK word : word = IF frame = NotMapped THEN Zero ELSE Page(frame)
  OBVIOUS
<1>2. /\ word \in Words /\ word.to # "table"
      /\ (IF word.to = "page" THEN word.frame ELSE NotMapped) = frame
  <2>1. CASE frame = NotMapped
    BY <1>1, <2>1 DEF Zero, Words
  <2>2. CASE frame # NotMapped
    <3>1. frame \in Nat
      BY <2>2, PageTablesAssumption
    <3>2. QED BY <1>1, <2>2, <3>1 DEF Page, Words
  <2>3. QED BY <2>1, <2>2
<1>3. PICK m, c :
        LET middle == Under(m, P4, virt[1])
        IN  /\ Reach(virt) = Walk(m, c, Under(m, middle, virt[2]))
            /\ Sound(m, c) /\ c \in {cur, 1}
            /\ Hangs(m, P4, virt[1]) /\ Hangs(m, middle, virt[2])
            /\ \A v \in Index \X Index \X Index :
                    TranslateIn(m, v) = TranslateIn(mem, v)
  BY Reached DEF TablesInv
<1>4. PICK middle, x, m2 : /\ middle = Under(m, P4, virt[1])
                           /\ x = Under(m, middle, virt[2])
                           /\ m2 = Written(m, x, virt[3], word)
  OBVIOUS
<1>5. /\ Sound(m, c) /\ Hangs(m, P4, virt[1]) /\ Hangs(m, middle, virt[2])
      /\ word \in Words /\ word.to # "table"
  BY <1>2, <1>3, <1>4
<1>6. /\ Sound(m2, c) /\ x \in Tables
      /\ \A t \in Tables, j \in Index :
            m2[t][j] = IF t = x /\ j = virt[3] THEN word ELSE m[t][j]
      /\ \A t \in Tables, j \in Index : Hangs(m2, t, j) <=> Hangs(m, t, j)
  BY <1>4, <1>5, WriteSound
<1>7. /\ TranslateIn(m2, virt) =
            IF word.to = "page" THEN word.frame ELSE NotMapped
      /\ \A q \in Index \X Index \X Index :
            q # virt => TranslateIn(m2, q) = TranslateIn(m, q)
  BY <1>4, <1>5, WriteTranslates
<1>8. Reach(virt).mem = m /\ Reach(virt).cur = c /\ Reach(virt).table = x
  BY <1>3, <1>4 DEF Walk
<1>9. mem' = m2 /\ cur' = c /\ call' = <<virt, frame>> /\ flushed' = FALSE
        /\ status' = status
  BY <1>1, <1>4, <1>6, <1>8 DEF set_entry, Written
<1>10. cur' = Reach(virt).cur /\ cur' \in {cur, 1}
  BY <1>3, <1>8, <1>9
<1>11. QED BY <1>2, <1>3, <1>6, <1>7, <1>9, <1>10 DEF TablesInv

(* The tables of multiboot.asm are sound, and only translations of the     *)
(* identity map may be cached.                                             *)
LEMMA InitTables ==
    ASSUME Enough, Init
    PROVE  TablesInv
<1>1. /\ KernelP4 \in Index /\ KernelP3 \in Index /\ Index \subseteq Nat
      /\ BootTables = {P4, P3Higher, P2Higher} /\ BootTables \subseteq Tables
      /\ P4 # P3Higher /\ P4 # P2Higher /\ P3Higher # P2Higher
  BY PageTablesAssumption, TableFacts DEF BootTables
<1>2. ASSUME NEW t \in Tables, NEW i \in Index
      PROVE  /\ t = P4 /\ i = KernelP4 => mem[t][i] = Table(P3Higher)
             /\ t = P4 /\ i # KernelP4 => mem[t][i] = Zero
             /\ t = P3Higher /\ i = KernelP3 => mem[t][i] = Table(P2Higher)
             /\ t = P3Higher /\ i # KernelP3 => mem[t][i] = Zero
             /\ t = P2Higher => mem[t][i] = Page(i)
             /\ t \notin BootTables => mem[t][i] = Page(0)
  BY <1>1 DEF Init
<1>3. mem \in Memory
  <2>1. ASSUME NEW t \in Tables, NEW i \in Index
        PROVE  mem[t][i] \in Words
    <3>1. /\ Zero \in Words /\ Page(i) \in Words /\ Page(0) \in Words
          /\ Table(P3Higher) \in Words /\ Table(P2Higher) \in Words
      BY <1>1, TableFacts
    <3>2. QED BY <1>1, <1>2, <3>1
  <2>2. mem = [t \in Tables |-> [i \in Index |-> mem[t][i]]]
    BY DEF Init
  <2>3. QED BY <2>1, <2>2 DEF Memory
<1>4. ASSUME NEW t \in Tables, NEW i \in Index, Hangs(mem, t, i)
      PROVE  \/ t = P4 /\ i = KernelP4 /\ Under(mem, t, i) = P3Higher
             \/ t = P3Higher /\ i = KernelP3 /\ Under(mem, t, i) = P2Higher
  <2>1. /\ Zero.to = "zero" /\ Page(0).to = "page" /\ Page(i).to = "page"
        /\ Table(P3Higher).table = P3Higher /\ Table(P2Higher).table = P2Higher
    BY DEF Zero, Page, Table
  <2>2. mem[t][i].to = "table"
    BY <1>4 DEF Hangs
  <2>3. mem[t][i] \notin {Zero, Page(0), Page(i)}
    BY <2>1, <2>2
  <2>4. t \in {P4, P3Higher}
    BY <1>1, <1>2, <2>3
  <2>5. QED BY <1>2, <2>1, <2>3, <2>4 DEF Under
<1>5. \A j \in VirtP4 : ~ Hangs(mem, P4, j)
  BY <1>1, <1>4 DEF VirtP4
<1>6. Middle(mem) = {} /\ Prefixes(mem) = {}
  BY <1>5 DEF Middle, Prefixes
<1>7. Idx(mem) = 0
  BY <1>6, FS_EmptySet DEF Idx
<1>8. Kernel(mem)
  BY <1>1, <1>2 DEF Kernel
<1>9. Levels(mem)
  BY <1>1, <1>2, <1>6 DEF Levels, Zero, Table
<1>10. Rooted(mem)
  BY <1>4 DEF Rooted
<1>11. Owned(mem)
  BY <1>1, <1>4 DEF Owned
<1>12. Sound(mem, cur)
  BY <1>3, <1>6, <1>7, <1>8, <1>9, <1>10, <1>11 DEF Init, Sound, Unused
<1>13. call = NoCall /\ tlb \subseteq IdentityMap
  BY DEF Init, StaleTlbs
<1>14. QED BY <1>12, <1>13 DEF Init, TablesInv, TlbFollowsTables

(* Every step keeps the tables sound.                                      *)
LEMMA NextTables ==
    ASSUME Enough, TablesInv, [Next]_vars
    PROVE  TablesInv'
<1>1. ASSUME NEW virt \in Virt, NEW frame \in Phys \cup {NotMapped},
             set_entry(virt, frame)
      PROVE  TablesInv'
  BY <1>1, CallMaps DEF TablesInv, TlbFollowsTables
<1>2. ASSUME NEW virt \in Virt, cache(virt)
      PROVE  TablesInv'
  <2>1. mem' = mem /\ cur' = cur /\ status' = status /\ flushed' = flushed
    BY <1>2 DEF cache
  <2>2. \A v : Translate(v)' = Translate(v)
    BY <2>1 DEF Translate, Entry
  <2>3. PICK kept \in SUBSET tlb : tlb' = kept \cup {<<virt, Translate(virt)>>}
    BY <1>2 DEF cache
  <2>4. TlbFollowsTables'
    <3>1. SUFFICES ASSUME flushed, NEW e \in tlb'
                   PROVE  \/ e[2] = Translate(e[1])'
                          \/ call' = NoCall /\ e \in IdentityMap
      BY <2>1 DEF TlbFollowsTables, IdentityMap
    <3>2. e \in tlb \/ e = <<virt, Translate(virt)>>
      BY <2>3, <3>1
    <3>3. \/ e[2] = Translate(e[1])
          \/ call = NoCall /\ e \in IdentityMap
      BY <3>1, <3>2 DEF TablesInv, TlbFollowsTables
    <3>4. call' = call
      BY <1>2 DEF cache
    <3>5. QED BY <2>2, <3>3, <3>4
  <2>5. QED BY <2>1, <2>4 DEF TablesInv
<1>3. ASSUME flush_tlb
      PROVE  TablesInv'
  BY <1>3 DEF flush_tlb, TablesInv, TlbFollowsTables
<1>4. ASSUME UNCHANGED vars
      PROVE  TablesInv'
  BY <1>4 DEF vars, TablesInv, TlbFollowsTables, Translate, Entry
<1>5. QED
  BY <1>1, <1>2, <1>3, <1>4 DEF Next, virt_map_page, virt_unmap_page

(* What a caller sees of the map: each call keeps the invariant and maps   *)
(* its page alone, the end of a call changes no translation, and the       *)
(* kernel's own pages are where multiboot.asm put them (virtmem.c:104-140).*)
LEMMA MapCall ==
    ASSUME Enough, TablesInv, NEW virt \in Virt, NEW frame \in Phys,
           virt_map_page(virt, frame)
    PROVE  /\ TablesInv'
           /\ cur' = Reach(virt).cur /\ cur' \in {cur, 1}
           /\ Translate(virt)' = frame
           /\ \A q \in Index \X Index \X Index :
                q # virt => Translate(q)' = Translate(q)
<1>1. set_entry(virt, frame)
  BY DEF virt_map_page
<1>2. /\ cur' = Reach(virt).cur /\ cur' \in {cur, 1}
      /\ TranslateIn(mem', virt) = frame
      /\ \A q \in Index \X Index \X Index :
            q # virt => TranslateIn(mem', q) = TranslateIn(mem, q)
  BY <1>1, CallMaps
<1>3. TablesInv'
  BY <1>1, CallMaps DEF TablesInv, TlbFollowsTables
<1>4. \A q : Translate(q)' = TranslateIn(mem', q)
  BY DEF Translate, TranslateIn, Entry
<1>5. QED BY <1>2, <1>3, <1>4, TranslateHere

(* The end of a call changes no translation (virtmem.c:126-130). *)
LEMMA FlushCall ==
    ASSUME Enough, TablesInv, flush_tlb
    PROVE  /\ TablesInv' /\ cur' = cur
           /\ \A q : Translate(q)' = Translate(q)
<1>1. TablesInv'
  BY NextTables DEF Next
<1>2. mem' = mem /\ cur' = cur
  BY DEF flush_tlb
<1>3. QED BY <1>1, <1>2 DEF Translate, Entry

(* Nor does a step of the kernel without the page tables. *)
LEMMA Undisturbed ==
    ASSUME Enough, TablesInv, UNCHANGED vars
    PROVE  /\ TablesInv' /\ cur' = cur
           /\ \A q : Translate(q)' = Translate(q)
<1>1. TablesInv'
  BY NextTables
<1>2. mem' = mem /\ cur' = cur
  BY DEF vars
<1>3. QED BY <1>1, <1>2 DEF Translate, Entry

(* There is at most one block, and the kernel's own pages are where        *)
(* multiboot.asm put them.                                                 *)
LEMMA KernelStays ==
    ASSUME Enough, TablesInv
    PROVE  /\ cur \in {0, 1} /\ 1 \in Blocks
           /\ \A i \in Index : Translate(<<KernelP4, KernelP3, i>>) = i
<1>1. /\ mem[P4][KernelP4] = Table(P3Higher)
      /\ mem[P3Higher][KernelP3] = Table(P2Higher)
      /\ \A i \in Index : mem[P2Higher][i] = Page(i)
      /\ cur \in {0, 1} /\ 1 \in Blocks
  BY DEF TablesInv, Sound, Kernel, Enough
<1>2. ASSUME NEW i \in Index
      PROVE  Translate(<<KernelP4, KernelP3, i>>) = i
  <2>1. /\ mem[P4][KernelP4].to = "table"
        /\ mem[P4][KernelP4].table = P3Higher
        /\ mem[P3Higher][KernelP3].to = "table"
        /\ mem[P3Higher][KernelP3].table = P2Higher
    BY <1>1 DEF Table
  <2>2. mem[P2Higher][i].to = "page" /\ mem[P2Higher][i].frame = i
    <3>1. mem[P2Higher][i] = Page(i)
      BY <1>1
    <3>2. Page(i).to = "page" /\ Page(i).frame = i
      BY DEF Page
    <3>3. QED BY <3>1, <3>2
  <2>3. PICK q : q = <<KernelP4, KernelP3, i>>
    OBVIOUS
  <2>4. q[1] = KernelP4 /\ q[2] = KernelP3 /\ q[3] = i
    BY <2>3
  <2>5. Translate(q) = i
    BY <2>1, <2>2, <2>4 DEF Translate, Entry
  <2>6. QED BY <2>3, <2>5
<1>3. QED BY <1>1, <1>2

(* The last entry of every table that hangs somewhere is in the block.     *)
LEMMA InBlock ==
    ASSUME Enough, TablesInv
    PROVE  OneBlockSuffices
<1>1. SUFFICES ASSUME NEW t \in Tables, NEW i \in Index, Hangs(mem, t, i)
               PROVE  Under(mem, t, i)[2] < Dirs
  BY DEF TablesInv, Sound, OneBlockSuffices, Hangs, Under
<1>2. Dirs \in Nat /\ 2 < Dirs
  BY PageTablesAssumption
<1>3. /\ Under(mem, P4, KernelP4) = P3Higher
      /\ Under(mem, P3Higher, KernelP3) = P2Higher
  BY WordFacts DEF TablesInv, Sound, Kernel, Under
<1>4. CASE Under(mem, t, i) \in {P3Higher, P2Higher}
  BY <1>2, <1>4 DEF P3Higher, P2Higher
<1>5. CASE Under(mem, t, i) \in Made(Idx(mem))
  <2>1. Idx(mem) \in Nat /\ Idx(mem) < Dirs
    BY SoundFacts DEF TablesInv
  <2>2. PICK k \in 1 .. Idx(mem) - 1 : Under(mem, t, i) = <<1, k>>
    BY <1>5 DEF Made
  <2>3. QED BY <1>2, <2>1, <2>2
<1>6. QED BY <1>1, <1>3, <1>4, <1>5 DEF TablesInv, Sound, Rooted

-----------------------------------------------------------------------------
(* The theorems. *)

LEMMA TablesInductive ==
    ASSUME Enough
    PROVE  Spec => []TablesInv
<1>1. Init => TablesInv
  BY InitTables
<1>2. TablesInv /\ [Next]_vars => TablesInv'
  BY NextTables
<1>3. QED BY <1>1, <1>2, PTL DEF Spec

(* Every entry that holds a table holds one of its own, so that what a     *)
(* call writes for one page is no other page's (virtmem.c:60, 78).         *)
THEOREM TablesAreOwned ==
    ASSUME Enough
    PROVE  Spec => []TablesOwned
<1>1. TablesInv => TablesOwned
  <2> SUFFICES ASSUME TablesInv,
                      NEW d \in {p \in Tables \X Index : mem[p[1]][p[2]].to = "table"},
                      NEW e \in {p \in Tables \X Index : mem[p[1]][p[2]].to = "table"},
                      mem[d[1]][d[2]].table = mem[e[1]][e[2]].table
               PROVE  d = e
    BY DEF TablesOwned
  <2>1. Hangs(mem, d[1], d[2]) /\ Hangs(mem, e[1], e[2])
        /\ Under(mem, d[1], d[2]) = Under(mem, e[1], e[2])
    BY DEF Hangs, Under
  <2>2. d[1] = e[1] /\ d[2] = e[2]
    BY <2>1 DEF TablesInv, Sound, Owned
  <2>3. QED BY <2>2
<1>2. QED BY <1>1, TablesInductive, PTL

(* If the pages need fewer tables than a block has, the first block is     *)
(* enough: no call stops, and none of its tables is made of the block's    *)
(* own words (virtmem.c:31, 35, 53).                                       *)
THEOREM FirstBlockSuffices ==
    ASSUME 1 \in Blocks
    PROVE  Spec => []OneBlockSuffices
<1>1. CASE FewTables
  <2>1. TablesInv => OneBlockSuffices
    BY <1>1, InBlock DEF Enough
  <2>2. Spec => []TablesInv
    BY <1>1, TablesInductive DEF Enough
  <2>3. QED BY <2>1, <2>2, PTL
<1>2. CASE ~ FewTables
  <2>1. OneBlockSuffices
    BY <1>2 DEF OneBlockSuffices
  <2>2. QED BY <2>1, PTL
<1>3. QED BY <1>1, <1>2

(* Between calls the processor holds no translation that the tables do     *)
(* not, but for those of the boot code's identity map before the end of    *)
(* the first call (virtmem.c:126-130, multiboot.asm:201-207).              *)
THEOREM CacheFollowsTables ==
    ASSUME Enough
    PROVE  Spec => []TlbFollowsTables
<1>1. TablesInv => TlbFollowsTables
  BY DEF TablesInv
<1>2. QED BY <1>1, TablesInductive, PTL

(* The tables implement the abstract map: a call changes the translation   *)
(* of its own page, to its own frame, and nothing else changes any         *)
(* (virtmem.c:104-140).                                                    *)
THEOREM ImplementsAddressSpace ==
    ASSUME Enough
    PROVE  Spec => IsAddressSpace
<1> DEFINE pages == Virt \cup KernelPages
<1>1. /\ pages \subseteq Index \X Index \X Index
      /\ \A v \in Virt : v[1] \in VirtP4
      /\ \A k \in KernelPages : /\ k[1] = KernelP4 /\ k[2] = KernelP3
                                /\ k[3] \in Index
  BY PageTablesAssumption DEF KernelPages, VirtP4
<1>2. Init => A!Init
  <2> SUFFICES ASSUME Init PROVE A!Init
    OBVIOUS
  <2>1. Sound(mem, cur)
    BY InitTables DEF TablesInv
  <2>2. ASSUME NEW v \in pages
        PROVE  Translate(v) \in Phys \cup Index \cup {NotMapped}
    <3>1. CASE v \in Virt
      <4>1. v[1] \in Index /\ v[1] # KernelP4 /\ P4 \in Tables /\ P4 # P2Higher
              /\ P4 # P3Higher /\ P4 \in BootTables
        BY <1>1, <3>1, TableFacts DEF VirtP4, BootTables
      <4>2. mem[P4][v[1]] = Zero
        BY <4>1 DEF Init
      <4>3. ~ Hangs(mem, P4, v[1])
        BY <4>2, WordFacts DEF Hangs
      <4>4. QED BY <4>3, TranslateStops, TranslateHere
    <3>2. CASE v \in KernelPages
      <4>1. v[1] = KernelP4 /\ v[2] = KernelP3 /\ v[3] \in Index
        BY <1>1, <3>2
      <4>2. Hangs(mem, P4, v[1]) /\ Under(mem, P4, v[1]) = P3Higher
        BY <2>1, <4>1, WordFacts DEF Sound, Kernel, Hangs, Under
      <4>3. Hangs(mem, P3Higher, v[2]) /\ Under(mem, P3Higher, v[2]) = P2Higher
        BY <2>1, <4>1, WordFacts DEF Sound, Kernel, Hangs, Under
      <4>4. mem[P2Higher][v[3]].to = "page" /\ mem[P2Higher][v[3]].frame = v[3]
        <5>1. mem[P2Higher][v[3]] = Page(v[3])
          BY <2>1, <4>1 DEF Sound, Kernel
        <5>2. QED BY <5>1 DEF Page
      <4>5. TranslateIn(mem, v) = v[3]
        BY <4>2, <4>3, <4>4, TranslateThrough
      <4>6. QED BY <4>1, <4>5, TranslateHere
    <3>3. QED BY <3>1, <3>2
  <2>3. call = NoCall
    BY DEF Init
  <2>4. QED BY <2>2, <2>3 DEF A!Init
<1>3. TablesInv /\ [Next]_vars => [A!Next]_(A!vars)
  <2> SUFFICES ASSUME TablesInv, [Next]_vars PROVE [A!Next]_(A!vars)
    OBVIOUS
  <2>1. ASSUME NEW virt \in Virt, NEW frame \in Phys \cup {NotMapped},
               set_entry(virt, frame)
        PROVE  A!Next
    <3>1. /\ call' = <<virt, frame>>
          /\ TranslateIn(mem', virt) = frame
          /\ \A q \in Index \X Index \X Index :
                q # virt => TranslateIn(mem', q) = TranslateIn(mem, q)
      BY <2>1, CallMaps
    <3>2. \A v : Translate(v) = TranslateIn(mem, v)
                 /\ Translate(v)' = TranslateIn(mem', v)
      BY DEF Translate, TranslateIn, Entry
    <3>3. \A v \in pages :
            Translate(v)' = IF v = virt THEN frame ELSE Translate(v)
      BY <1>1, <3>1, <3>2
    <3>4. A!Map(virt, frame)
      BY <3>1, <3>3 DEF A!Map
    <3>5. virt \in pages /\ frame \in Phys \cup Index \cup {NotMapped}
      OBVIOUS
    <3>6. QED BY <3>4, <3>5 DEF A!Next
  <2>2. ASSUME mem' = mem, call' = call
        PROVE  UNCHANGED A!vars
    BY <2>2 DEF A!vars, Translate, Entry
  <2>3. QED
    BY <2>1, <2>2
    DEF Next, vars, virt_map_page, virt_unmap_page, cache, flush_tlb
<1>4. QED
  BY <1>2, <1>3, TablesInductive, PTL DEF Spec, IsAddressSpace, A!Spec

(* Before a call it is known which block it ends in (virtmem.c:104-125).   *)
LEMMA CallStaysInBlock ==
    ASSUME Enough, TablesInv, NEW virt \in Virt
    PROVE  Reach(virt).cur \in {cur, 1}
<1>1. PICK m, c, t : Reach(virt) = Walk(m, c, t) /\ c \in {cur, 1}
  BY Reached DEF TablesInv
<1>2. Walk(m, c, t).cur = c
  BY DEF Walk
<1>3. QED BY <1>1, <1>2
=============================================================================
