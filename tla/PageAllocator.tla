--------------------------- MODULE PageAllocator ---------------------------
(***************************************************************************)
(* What a page allocator promises its clients: a block of consecutive      *)
(* pages belongs to one client only, until that client gives it back.      *)
(***************************************************************************)
EXTENDS Naturals

CONSTANTS Pages, Lengths, Clients, NoBlock

VARIABLE held       \* the block of each client, [page, n] or NoBlock

PageRun(blk) == blk.page .. blk.page + blk.n - 1
Owned == UNION {PageRun(held[c]) : c \in {d \in Clients : held[d] # NoBlock}}

Init == held = [c \in Clients |-> NoBlock]

Alloc(c) ==
    /\ held[c] = NoBlock
    /\ \E blk \in [page : Pages, n : Lengths] :
          /\ held' = [held EXCEPT ![c] = blk]
          /\ PageRun(blk) \subseteq Pages \ Owned

Free(c) ==
    /\ held[c] # NoBlock
    /\ held' = [held EXCEPT ![c] = NoBlock]

Next == \E c \in Clients : Alloc(c) \/ Free(c)

Spec == Init /\ [][Next]_held
=============================================================================
