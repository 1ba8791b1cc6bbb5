----------------------------- MODULE MCStartup -----------------------------
(***************************************************************************)
(* Machines for Startup.  Each group varies one thing; the machines that   *)
(* vary the command line or the MADT have nothing behind it.               *)
(***************************************************************************)
EXTENDS Startup

S == <<"s">>
D == <<"d">>
BinaryDigits == <<"0", "1">>
KeysUsed == {S, D, <<"s", "d">>, <<"s", "s", "s", "s", "d">>}

W(key, val) == [key |-> key, val |-> val]
E(type, irq, gsi) == [type |-> type, length |-> 1, irq |-> irq, gsi |-> gsi]
Zero(type) == [E(type, 0, 0) EXCEPT !.length = 0]
Proc == E("proc_apic", 0, 0)
IoEntry == E("io_apic", 0, 0)
Ioso(irq, gsi) == E("ioso_apic", irq, gsi)

Usual == [words |-> <<W(S, <<"1">>)>>, gsis |-> 24, hpet |-> TRUE,
          madt |-> <<Proc, IoEntry, Ioso(0, 2), Ioso(9, 9)>>,
          quiet |-> TRUE, irqs |-> {}, delays |-> {}]

(* Keys and values that fit, just fit, fill their row, and overflow; values *)
(* that are no numbers, wrap, or are missing.                              *)
WordKeys == {<< >>, S, D, <<"s", "d">>, <<"s", "s", "s">>,
             <<"s", "s", "s", "s">>, <<"s", "s", "s", "s", "d", "d">>}
WordVals == {<< >>, <<"1">>, <<"1", "0">>, <<"1", "1", "1", "0">>,
             <<"1", "1", "1", "1">>, <<"1", "0", "0", "1", "0">>,
             <<"1", "0", "0", "1", "0", "1">>, <<"s">>, <<"=">>}
Words == {W(k, v) : k \in WordKeys, v \in WordVals}
Few == {W(S, <<"1">>), W(D, <<"1", "0">>), W(S, << >>)}
Lines == {<< >>} \cup {<<v>> : v \in Words}
            \cup {<<v, w>> : v \in Few, w \in Words}
            \cup {<<v, w>> : v \in Words, w \in Few}
            \cup [1 .. 3 -> Few]
LineMachines == {[Usual EXCEPT !.words = l, !.madt = << >>] : l \in Lines}

(* The walk: up to three entries, of no length or of a kind not known.      *)
Entries == {Proc, IoEntry, Ioso(0, 2), E("other", 0, 0), Zero("other"),
            Zero("proc_apic")}
MadtMachines == {[Usual EXCEPT !.madt = m, !.hpet = FALSE] :
                    m \in UNION {[1 .. n -> Entries] : n \in 0 .. 3}}

(* Overrides: none, the usual ones, to a line behind the IRQs, swapped,    *)
(* the same line twice, a line that does not exist, the line of IRQ 0, one *)
(* with the number of a vector, or one for an IRQ with such a number.      *)
OverrideSets == {<< >>, <<Ioso(0, 2), Ioso(9, 9)>>, <<Ioso(5, 20)>>,
                 <<Ioso(5, 9), Ioso(9, 5)>>, <<Ioso(5, 9)>>,
                 <<Ioso(5, 9), Ioso(4, 9)>>, <<Ioso(5, 30), Ioso(0, 2)>>}
MaskMachine(o, n, q, i) ==
    [Usual EXCEPT !.madt = <<Proc, IoEntry>> \o o, !.gsis = n, !.quiet = q,
                  !.irqs = i]
MaskMachines ==
    {MaskMachine(o, 24, TRUE, i) :
        o \in OverrideSets, i \in {{0, 5}, {4, 5, 9}, {5, 7}}}
    \cup {MaskMachine(<<Ioso(0, 2), Ioso(5, 20)>>, n, q, {3, 5}) :
            n \in {16, 48}, q \in BOOLEAN}
    \cup {MaskMachine(o, 48, TRUE, {3, 5}) :
            o \in {<<Ioso(5, 40)>>, <<Ioso(0, 2), Ioso(2, 7)>>,
                   <<Ioso(0, 2), Ioso(5, 0)>>, <<Ioso(33, 5), Ioso(5, 20)>>}}

SleepMachines == {[Usual EXCEPT !.irqs = {5}, !.delays = Delays]}

AllMachines == LineMachines \cup MadtMachines \cup MaskMachines
                    \cup SleepMachines
=============================================================================
