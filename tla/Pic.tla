-------------------------------- MODULE Pic --------------------------------
(***************************************************************************)
(* The two 8259 interrupt controllers and how src/kernel/apic/pic.c sets   *)
(* them up.  A chip takes the bytes written to its data port for the       *)
(* control words 2 to 4 after the control word 1, and for its mask at any  *)
(* other time.                                                             *)
(***************************************************************************)
EXTENDS Naturals, Sequences

VARIABLE pics   \* for each chip the word it expects, its offset and mask

Chips == {1, 2}
Lines == 0 .. 7
Weight == <<1, 2, 4, 8, 16, 32, 64, 128>>
BitsOf(byte) == {b \in Lines : (byte \div Weight[b + 1]) % 2 = 1}

(* The chip: control word 1 clears the mask. *)
Command == <<"icw1", 0>>
Written(chip, w) ==
    IF w[1] = "icw1" THEN [chip EXCEPT !.expects = 2, !.mask = {}]
    ELSE CASE chip.expects = 0 -> [chip EXCEPT !.mask = BitsOf(w[2])]
           [] chip.expects = 2 -> [chip EXCEPT !.expects = 3, !.offset = w[2]]
           [] chip.expects = 3 -> [chip EXCEPT !.expects = 4]
           [] chip.expects = 4 -> [chip EXCEPT !.expects = 0]

(* A byte to each chip, the master first, as the source writes them.       *)
Out(chips, c, w) == [chips EXCEPT ![c] = Written(@, w)]
Commands(chips) == Out(Out(chips, 1, Command), 2, Command)
Data(chips, a, b) == Out(Out(chips, 1, <<"data", a>>), 2, <<"data", b>>)

PIC_disable(chips) == Data(chips, 255, 255)

(* The value is a byte: a shift by more than 7 changes no bit of it. *)
ChipOf(irq) == IF irq < 8 THEN 1 ELSE 2
BitOf(irq) == IF irq < 8 THEN irq ELSE irq - 8
PIC_clear_mask(chips, irq) ==
    [chips EXCEPT ![ChipOf(irq)].mask = @ \ {BitOf(irq)}]

(* The masks saved at the start are not used; both chips are unmasked.     *)
(* The last two calls take ports, or vectors, for IRQs.                    *)
Words2To4(chips, off1, off2) == Data(Data(Data(chips, off1, off2), 4, 2), 1, 1)
PIC_remap_NoWord1(chips, off1, off2) ==
    Data(Words2To4(PIC_disable(chips), off1, off2), 0, 0)
PIC_remap(chips, off1, off2) ==
    LET set == Words2To4(Commands(PIC_disable(chips)), off1, off2)
        unmasked == Data(set, 0, 0)
    IN  PIC_clear_mask(PIC_clear_mask(unmasked, 32), 33)

(* What the firmware left: each chip set up for vectors of exceptions.     *)
Init(mask) ==
    pics = [c \in Chips |-> [expects |-> 0, offset |-> 8, mask |-> mask]]

(* The calls of apic_init. *)
apic_init_NoDisable == pics' = PIC_remap(pics, 32, 40)
apic_init == pics' = PIC_disable(PIC_remap(pics, 32, 40))
=============================================================================
