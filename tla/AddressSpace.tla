---------------------------- MODULE AddressSpace ----------------------------
(***************************************************************************)
(* What the page tables promise their users: a map from pages of virtual   *)
(* addresses to pages of memory, of which a call of virt_map_page changes  *)
(* the one entry it names.                                                 *)
(***************************************************************************)
CONSTANTS
    Pages,      \* pages of virtual addresses
    Frames,     \* what a page is mapped to
    NotMapped,
    NoCall

VARIABLES
    mapping,    \* the frame of each page
    call        \* the page and frame of the last call

vars == <<mapping, call>>

Init ==
    /\ mapping \in [Pages -> Frames \cup {NotMapped}]
    /\ call = NoCall

Map(page, frame) ==
    /\ mapping' = [mapping EXCEPT ![page] = frame]
    /\ call' = <<page, frame>>

Next == \E page \in Pages, frame \in Frames \cup {NotMapped} : Map(page, frame)

Spec == Init /\ [][Next]_vars
=============================================================================
