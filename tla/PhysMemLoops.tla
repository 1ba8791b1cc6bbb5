---------------------------- MODULE PhysMemLoops ----------------------------
(***************************************************************************)
(* The two loops of physmem.c, word by word and bit by bit.  PhysMem says  *)
(* what they compute in closed form; here they are as the code runs them,  *)
(* to be compared for every bitmap and every memory map.  after[i] is what *)
(* a loop has computed when it has gone round i times.                     *)
(***************************************************************************)
EXTENDS PhysMem

set_phys(bits, p, b) == IF b THEN bits \cup MaskPages(p)
                             ELSE bits \ MaskPages(p)

(* The pages first .. end - 1, one after the other; page 0 is always used. *)
SetPages(bits, first, end, used) ==
    LET after[i \in 0 .. end - first] ==
            IF i = 0 THEN bits
            ELSE LET p == first + i - 1
                 IN  set_phys(after[i - 1], p, used \/ p = 0)
    IN  after[end - first]

(* One region of the memory map, unless the loop was left before it.       *)
SetRegion(acc, m, i) ==
    IF acc.broke \/ m[i].addr > HighestAvail(m) * PageSize
    THEN [acc EXCEPT !.broke = TRUE]
    ELSE [acc EXCEPT !.bits = SetPages(@, RoundUp(m[i].addr),
                        RoundUp(m[i].addr + m[i].len), ~ m[i].avail)]

(* physmem_init from the first memset on. *)
BootLoop(m) ==
    LET words == HighestAvail(m) \div WordBits
        filled == {q \in Pages : q % ByteBits = 0} \cup (0 .. words * WordBits - 1)
        after[i \in 0 .. Len(m)] ==
            IF i = 0 THEN [bits |-> filled, broke |-> FALSE]
                     ELSE SetRegion(after[i - 1], m, i)
    IN  SetPages(after[Len(m)].bits, 0, LowPages, TRUE)

(* phys_malloc up to its return; NoPage stands for no run found.           *)
NoPage == PmmSize * WordBits

SearchBit(n, acc, p) ==
    IF acc.ret # NoPage THEN acc
    ELSE IF p \in pmm THEN [acc EXCEPT !.contiguous = 0]
    ELSE LET start == IF acc.contiguous = 0 THEN p ELSE acc.start
         IN  [contiguous |-> acc.contiguous + 1,
              start |-> start,
              ret |-> IF acc.contiguous + 1 = n THEN start ELSE NoPage]

SearchWord(n, acc, idx) ==
    LET after[b \in 0 .. WordBits] ==
            IF b = 0 THEN acc
                     ELSE SearchBit(n, after[b - 1], idx * WordBits + b - 1)
    IN  IF InFullWord(pmm, idx * WordBits) THEN acc ELSE after[WordBits]

SearchLoop(n) ==
    LET after[i \in 0 .. mm_end] ==
            IF i = 0 THEN [contiguous |-> 0, start |-> 0, ret |-> NoPage]
                     ELSE SearchWord(n, after[i - 1], i - 1)
    IN  after[mm_end].ret

-----------------------------------------------------------------------------
(* The search loop (physmem.c:111-138) returns the first start of a run of *)
(* the scanned pages, for every bitmap: the closed form the other modules  *)
(* and the proofs use is the loop.                                         *)
SearchAgrees ==
    \A n \in 0 .. NoPage :
        SearchLoop(n) = IF Starts(n) = {} THEN NoPage ELSE FirstStart(n)

(* The loop over the memory map (physmem.c:75-91) leaves the bits that the *)
(* last write to each bit says.                                            *)
BootAgrees ==
    [][status = "reset" /\ status' # "reset" => pmm' = BootLoop(mmaps')]_vars
=============================================================================
