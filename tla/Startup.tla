------------------------------ MODULE Startup ------------------------------
(***************************************************************************)
(* kmain of src/kernel/kernel.c, as far as it concerns the command line    *)
(* and the hardware: the command line is parsed, the MADT is read, the two *)
(* interrupt controllers and the timer are set up from it, interrupts are  *)
(* enabled, and the main loop sleeps while devices interrupt it.  The      *)
(* memory side of the same path is KernelMemory.                           *)
(*                                                                         *)
(* Drivers are external: while the main loop runs, it and handlers mask    *)
(* and unmask IRQs and sleep.                                              *)
(***************************************************************************)
EXTENDS Hpet, FiniteSets

CONSTANTS
    KeyLen, MaxArgs, BufLen, ValLen, ArgMod, Digits,    \* see Cmdline
    Room,           \* see Madt
    LevelMod,       \* numbers of kboot.dbg.level, a uint8_t
    Keys,           \* keys looked for: serial, dbg and others
    SerialKey, DbgKey,
    Machines,       \* records: words, madt, gsis, hpet, quiet, irqs, delays
    MaxFires        \* interrupts during one sleep of the main loop

VARIABLES
    machine,        \* the machine and what the boot loader passes
    idx, buf, args, parse,
    dbg,            \* kboot.dbg
    at, tbl, walk,
    pics,
    redtbl, max_redir, wanted, loose,
    stage,          \* where kmain is, or how it stopped
    handler,        \* the handler that runs: its vector, the calls below
    fires           \* interrupts since the main loop woke last

Cmd == INSTANCE Cmdline WITH UintMod <- ArgMod
Acpi == INSTANCE Madt
Pic8259 == INSTANCE Pic
Io == INSTANCE IoApic

cmdVars == <<idx, buf, args, parse>>
madtVars == <<at, tbl, walk>>
ioapicVars == <<redtbl, max_redir, wanted, loose>>
vars == <<machine, dbg, stage, handler, fires, pics, cmdVars,
          madtVars, ioapicVars, hpetVars>>

ASSUME StartupAssumption ==
    /\ {KeyLen, MaxArgs, BufLen, ValLen, Room, LevelMod} \subseteq Nat \ {0}
    /\ ArgMod \in Nat \ {0, 1}
    /\ \A i, j \in DOMAIN Digits : Digits[i] = Digits[j] => i = j
    /\ {SerialKey, DbgKey} \subseteq Keys
    /\ \A m \in Machines :
        /\ m.delays \subseteq Delays
        /\ m.madt \in Seq([type : STRING, length : Nat, irq : Nat, gsi : Nat])
        /\ m.gsis \in 0 .. 120    \* an entry has two 8-bit register numbers
        /\ m.quiet \in BOOLEAN /\ m.irqs \subseteq 0 .. 255
    /\ MaxNest = 2      \* handlers are not interrupted

(* A key that fits its row fits buf (16 and 64 chars), and a level is less *)
(* than a number; the string of the boot loader has no Nul but its last.   *)
Chars == STRING \ {Cmd!Nul}
ASSUME CmdlineAssumption ==
    /\ KeyLen <= BufLen /\ LevelMod < ArgMod
    /\ Digits \in Seq(Chars \ {" "})
    /\ \A m \in Machines : m.words \in Seq([key : Seq(Chars), val : Seq(Chars)])

(* The string of the boot loader: words with a space between them.         *)
Word(w) == IF w.val = << >> THEN w.key ELSE w.key \o <<"=">> \o w.val
Text(words) ==
    LET End(i) == IF i = Len(words) THEN Cmd!Nul ELSE " "
        text[i \in 0 .. Len(words)] ==
            IF i = 0 THEN << >> ELSE text[i - 1] \o Word(words[i]) \o <<End(i)>>
    IN  text[Len(words)]

(* The overrides in the array of acpi_init_madt. *)
ioso_apic == [i \in DOMAIN tbl["ioso_apic"] |->
                machine.madt[tbl["ioso_apic"][i]]]

Init ==
    /\ machine \in Machines
    /\ stage = "tags"
    /\ dbg = [use_serial |-> FALSE, level |-> 0]
    /\ handler = << >>
    /\ fires = 0
    /\ Cmd!Init
    /\ Acpi!Init
    /\ Pic8259!Init(IF machine.quiet THEN Pic8259!Lines ELSE {})
    /\ Io!Init(machine.gsis, machine.quiet)
    /\ HpetInit

-----------------------------------------------------------------------------
Others(x) == UNCHANGED <<machine, handler, fires, x>>

cmdline_parse ==
    /\ stage = "tags"
    /\ Cmd!Parse(Text(machine.words))
    /\ stage' = IF parse' = "overrun" THEN "astray" ELSE "tags"
    /\ Others(<<dbg, pics, madtVars, ioapicVars, hpetVars>>)

cmdline_dbg ==
    [use_serial |-> Cmd!cmdline_getarg(SerialKey) # Cmd!NO_ARG,
     level |-> IF Cmd!cmdline_hasarg(DbgKey)
               THEN Cmd!cmdline_getarg(DbgKey) % LevelMod ELSE 0]
read_args ==
    /\ stage = "tags" /\ parse = "done"
    /\ dbg' = IF args = << >> THEN dbg ELSE cmdline_dbg
    /\ stage' = "acpi"
    /\ Others(<<pics, cmdVars, madtVars, ioapicVars, hpetVars>>)

acpi_init ==
    /\ stage = "acpi"
    /\ Acpi!Walk(machine.madt)
    /\ stage' = CASE walk' = "overrun" -> "astray"
                  [] walk' = "done" -> "apic"
                  [] OTHER -> "acpi"
    /\ Others(<<dbg, pics, cmdVars, ioapicVars, hpetVars>>)

(* The first entries of their kinds give the identity of the processor and *)
(* the address of the I/O APIC; if there is none they come from memory     *)
(* that was never written.                                                 *)
apic_init ==
    /\ stage = "apic"
    /\ IF tbl["proc_apic"] = << >>
       THEN stage' = "astray" /\ UNCHANGED pics
       ELSE stage' = "ioapic" /\ Pic8259!apic_init
    /\ Others(<<dbg, cmdVars, madtVars, ioapicVars, hpetVars>>)

ioapic_init ==
    /\ stage = "ioapic"
    /\ IF tbl["io_apic"] = << >>
       THEN stage' = "astray" /\ UNCHANGED ioapicVars
       ELSE stage' = "hpet" /\ Io!ioapic_init(ioso_apic)
    /\ Others(<<dbg, pics, cmdVars, madtVars, hpetVars>>)

timer_init ==
    /\ stage = "hpet"
    /\ IF machine.hpet
       THEN stage' = "loop" /\ hpet_init
       ELSE stage' = "panic" /\ UNCHANGED hpetVars
    /\ Others(<<dbg, pics, cmdVars, madtVars, ioapicVars>>)

Boot == cmdline_parse \/ read_args \/ acpi_init \/ apic_init
            \/ ioapic_init \/ timer_init

-----------------------------------------------------------------------------
(* With interrupts on.  The code that runs is the handler, if there is     *)
(* one, and is in usleep if calls of it have not returned.                 *)
Below == IF handler = << >> THEN 0 ELSE handler.depth
Sleeping == Len(sleeps) > Below
Loop(x) == stage = "loop" /\ UNCHANGED <<machine, dbg, stage, pics, x>>
InLoop(x) == Loop(<<cmdVars, madtVars, x>>)

set_masks ==
    /\ InLoop(<<hpetVars, handler, fires>>) /\ ~ Sleeping
    /\ \/ \E irq \in machine.irqs : Io!ioapic_mask(ioso_apic, irq)
       \/ \E irq \in machine.irqs : Io!ioapic_unmask(ioso_apic, irq)
       \/ Io!ioapic_mask_all(ioso_apic)
       \/ Io!ioapic_unmask_all(ioso_apic)

call_usleep ==
    /\ InLoop(<<ioapicVars, handler, fires>>) /\ ~ Sleeping
    /\ \E us \in machine.delays : usleep(us)

run_usleep ==
    /\ InLoop(<<ioapicVars, handler>>) /\ Sleeping
    /\ \/ hpet_timer_start /\ UNCHANGED fires
       \/ poll /\ fires' = IF sleeps' = << >> THEN 0 ELSE fires

run_counter == InLoop(<<ioapicVars, handler, fires>>) /\ tick

(* A device signals: a handler is not interrupted.                         *)
interrupt ==
    /\ InLoop(<<ioapicVars, hpetVars>>)
    /\ handler = << >> /\ fires < MaxFires
    /\ \E e \in DOMAIN redtbl :
        /\ ~ redtbl[e].masked
        /\ handler' = [vector |-> redtbl[e].vector, depth |-> Len(sleeps)]
    /\ fires' = fires + 1

iret ==
    /\ InLoop(<<ioapicVars, hpetVars, fires>>)
    /\ handler # << >> /\ ~ Sleeping
    /\ handler' = << >>

MainLoop == set_masks \/ call_usleep \/ run_usleep \/ run_counter
                \/ interrupt \/ iret

Next == Boot \/ MainLoop

(* The processor runs, the counter counts, handlers return, and a caller   *)
(* that keeps polling sees the counter while it is past its target.        *)
Fairness ==
    /\ WF_vars(Boot)
    /\ WF_vars(run_counter)
    /\ SF_vars(run_usleep)
    /\ SF_vars(iret)

Spec == Init /\ [][Next]_vars /\ Fairness

-----------------------------------------------------------------------------
(* A command line as its author means it: keys that fit, numbers that fit, *)
(* one space between words.                                                *)
Number(digits) ==
    LET number[i \in 0 .. Len(digits)] ==
            IF i = 0 THEN 0
            ELSE number[i - 1] * Len(Digits) + Cmd!Value(digits[i])
    IN  number[Len(digits)]
Tidy(words) ==
    /\ Len(words) <= MaxArgs
    /\ \A i \in DOMAIN words :
        /\ Len(words[i].key) \in 1 .. KeyLen - 1
        /\ Cmd!Sep \notin {words[i].key[j] : j \in DOMAIN words[i].key}
        /\ Len(words[i].val) \in 1 .. ValLen - 1
        /\ \A j \in DOMAIN words[i].val : Cmd!IsDigit(words[i].val[j])
        /\ Number(words[i].val) < Cmd!NO_ARG
Meant(words, key) ==
    LET is == {i \in DOMAIN words : words[i].key = key}
    IN  IF is = {} THEN Cmd!NO_ARG
        ELSE Number(words[CHOOSE i \in is : \A j \in is : i <= j].val)

(* What is looked up is what was written: the first word of a key counts,  *)
(* no part of a word is taken for another, and kboot.dbg agrees            *)
(* (cmdline.c:35-65 and 70-91, kernel.c:51).                               *)
ArgsFound ==
    Tidy(machine.words) =>
        /\ stage \notin {"tags", "astray"} =>
            /\ \A key \in Keys :
                Cmd!cmdline_getarg(key) = Meant(machine.words, key)
            /\ dbg.use_serial <=> Meant(machine.words, SerialKey) # Cmd!NO_ARG
            /\ LET level == Meant(machine.words, DbgKey)
               IN  level < LevelMod => dbg.level = level
        /\ parse # "overrun"

(* The arrays list the entries of their kind, all and in order, and do not *)
(* overflow while there is room (acpi.c:61-87).                            *)
Positions(type) == {i \in DOMAIN machine.madt : machine.madt[i].type = type}
MadtComplete ==
    /\ walk = "done" =>
        \A t \in Acpi!EntryTypes :
            /\ {tbl[t][i] : i \in DOMAIN tbl[t]} = Positions(t)
            /\ \A i, j \in DOMAIN tbl[t] : i < j => tbl[t][i] < tbl[t][j]
    /\ walk = "overrun" =>
        \E t \in Acpi!EntryTypes :
            \/ Cardinality(Positions(t)) > Room
            \/ \E i \in Positions(t) : machine.madt[i].length = 0

(* When interrupts are enabled the old controllers are set up, each with   *)
(* vectors of its own behind those of exceptions, and are masked, although *)
(* PIC_remap ends with everything unmasked (pic.c:66-72, apic.c).          *)
PicQuiet ==
    stage = "loop" =>
        \A c \in Pic8259!Chips :
            /\ pics[c].expects = 0
            /\ pics[c].offset = IF c = 1 THEN 32 ELSE 40
            /\ pics[c].mask = Pic8259!Lines

-----------------------------------------------------------------------------
(* The overrides of the MADT, and the line an IRQ signals by them.         *)
Overrides == Positions("ioso_apic")
Irq(o) == machine.madt[o].irq
Gsi(o) == machine.madt[o].gsi
Plain ==
    \A o, p \in Overrides :
        /\ Gsi(o) < machine.gsis
        /\ o # p => Irq(o) # Irq(p) /\ Gsi(o) # Gsi(p)
HasLine(irq) ==
    /\ irq < machine.gsis
    /\ (\E o \in Overrides : Irq(o) = irq)
        \/ ~ \E o \in Overrides : Gsi(o) = irq
LineOf(irq) == IF \E o \in Overrides : Irq(o) = irq
               THEN Gsi(CHOOSE o \in Overrides : Irq(o) = irq) ELSE irq

(* Whatever vectors and masks the firmware left and whoever masks and      *)
(* unmasks, the line of an IRQ interrupts under the vector of that IRQ     *)
(* (ioapic.c:124-135).                                                     *)
RoutesToVector ==
    stage \in {"hpet", "loop"} /\ Plain =>
        \A irq \in Io!IRQs :
            HasLine(irq) => redtbl[LineOf(irq)].vector = irq + 32

(* Nothing interrupts that is not wanted, and what is wanted interrupts:   *)
(* the line of an IRQ, overrides included, is unmasked if and only if the  *)
(* last request for it was to unmask it, whatever was asked of other IRQs  *)
(* (ioapic.c:64-89).  Two faults of the code limit that.  ioapic_mask_all  *)
(* and ioapic_unmask_all miss the IRQs (ioapic.c:54, 59), so after them it *)
(* holds of an IRQ that they were to change only once the IRQ is named by  *)
(* a request.  And a request for IRQ 0 does not look for its override      *)
(* (ioapic.c:65), so it is said of drivers that leave IRQ 0 alone.         *)
NamesLines == \A irq \in machine.irqs : irq # 0 /\ HasLine(irq)
MaskFollowsRequests ==
    stage \in {"hpet", "loop"} /\ Plain /\ NamesLines =>
        \A irq \in Io!IRQs \ loose :
            HasLine(irq) => (redtbl[LineOf(irq)].masked <=> irq \notin wanted)

(* Every walk over a table of the firmware or of the boot loader ends,     *)
(* unless an entry has no length (acpi.c:86, cmdline.c:35).                *)
BootEnds ==
    (\A i \in DOMAIN machine.madt : machine.madt[i].length > 0)
        ~> stage \in {"loop", "panic", "astray"}

(* The main loop wakes although handlers that sleep reset its counter, if  *)
(* they do so a limited number of times (hpet.c:53-56).                    *)
SleepEnds == DelaysFit => (Len(sleeps) > 0 ~> sleeps = << >>)
=============================================================================
