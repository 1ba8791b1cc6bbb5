-------------------------------- MODULE Log --------------------------------
(***************************************************************************)
(* The kernel's log: printk of src/kernel/printk.c formats a message on    *)
(* its stack and writes it to the serial port character by character.  An  *)
(* interrupt or an exception may come at any step, and its handler may log *)
(* too: the calls of printk are a stack.  Callers are external.            *)
(***************************************************************************)
EXTENDS Naturals, Sequences, SequencesExt

CONSTANTS
    Size, TextSize, IntBits, LongBits,  \* see Printf
    FifoSize,                           \* see Serial
    Messages,       \* records: fmt and args, plain, and the text they mean
    Brief,          \* those that the calls after the first log
    MaxNest,        \* calls that interrupt each other
    MaxCalls        \* calls of printk

VARIABLES
    stack,          \* the calls that have not returned, the last one runs
    calls,          \* the messages of all calls
    serial__has_init, loopback, fifo, wire, lost

ASSUME LogAssumption ==
    /\ {Size, TextSize, IntBits, LongBits} \subseteq Nat \ {0}
    /\ {MaxNest, MaxCalls} \subseteq Nat
    /\ FifoSize \in Nat /\ FifoSize >= MaxNest
    /\ Brief \subseteq Messages

P == INSTANCE Printf
Com == INSTANCE Serial

serialVars == <<serial__has_init, loopback, fifo, wire, lost>>
vars == <<stack, calls, serialVars>>

Top == stack[Len(stack)]
Pop == SubSeq(stack, 1, Len(stack) - 1)

Init ==
    /\ stack = << >>
    /\ calls = << >>
    /\ Com!Init

(* kmain calls it before anything is logged, but for a panic.              *)
serial_init ==
    /\ ~ serial__has_init /\ stack = << >>
    /\ Com!serial_init
    /\ UNCHANGED <<stack, calls>>

printk ==
    /\ Len(stack) < MaxNest /\ Len(calls) < MaxCalls
    /\ \E m \in IF calls = << >> THEN Messages ELSE Brief :
        /\ calls' = Append(calls, m)
        /\ stack' = Append(stack,
                [id |-> Len(calls) + 1, phase |-> "format",
                 fmt |-> P!vsnprintf(m.fmt, m.args),
                 text |-> << >>, free |-> FALSE])
    /\ UNCHANGED serialVars

__vprintf ==
    /\ stack # << >> /\ Top.phase = "format" /\ Top.fmt.state = "on"
    /\ stack' = [stack EXCEPT ![Len(stack)].fmt = P!vprintf_step(@)]
    /\ UNCHANGED <<calls, serialVars>>

(* A message ends its line.  For an empty one the byte before the buffer   *)
(* decides.                                                                *)
Lines_NeverEnded(out) == {out}
Lines(out) ==
    IF out = << >> THEN {out, <<"\n">>}
    ELSE IF Last(out) = "\n" THEN {out} ELSE {Append(out, "\n")}

(* A port that was not set up is not written to.                           *)
_printk_findoutputs ==
    /\ stack # << >> /\ Top.phase = "format" /\ Top.fmt.state = "done"
    /\ \E line \in Lines(Top.fmt.out) :
        stack' = [stack EXCEPT ![Len(stack)].phase = "print",
                    ![Len(stack)].text = IF serial__has_init THEN line
                                         ELSE << >>]
    /\ UNCHANGED <<calls, serialVars>>

(* serial_write: the status is read first, the character written later.    *)
wait ==
    /\ stack # << >> /\ Top.phase = "print" /\ Top.text # << >>
    /\ ~ Top.free /\ Com!is_transmit_empty
    /\ stack' = [stack EXCEPT ![Len(stack)].free = TRUE]
    /\ UNCHANGED <<calls, serialVars>>

write ==
    /\ stack # << >> /\ Top.phase = "print" /\ Top.free
    /\ Com!port_byte_out(<<Top.id, Head(Top.text)>>)
    /\ stack' = [stack EXCEPT ![Len(stack)].free = FALSE,
                              ![Len(stack)].text = Tail(@)]
    /\ UNCHANGED calls

return ==
    /\ stack # << >> /\ Top.phase = "print" /\ Top.text = << >>
    /\ stack' = Pop
    /\ UNCHANGED <<calls, serialVars>>

send == Com!send /\ UNCHANGED <<stack, calls>>

Run == __vprintf \/ _printk_findoutputs \/ wait \/ write \/ return

Next == serial_init \/ printk \/ Run \/ send

(* The processor runs, and so does the port. *)
Fairness == WF_vars(Run) /\ WF_vars(send)

Spec == Init /\ [][Next]_vars /\ Fairness

-----------------------------------------------------------------------------
(* What is meant.  A plain message consists of characters and              *)
(* conversions; these have one or two letters behind the percent sign and  *)
(* show their argument a as these letters say: i and d are signed, u and x *)
(* unsigned, l is for longs, lX has no prefix (print.c:186).  The code     *)
(* shows each int as signed and each long as unsigned, so nothing is said  *)
(* of u and x from 2^31 on, nor of l, li and ld for negative longs.  How   *)
(* binary numbers are laid out is taken from the code.  For lx see         *)
(* LongHexPrefixed.                                                        *)
LongLetters == {"x", "X", "b", "B", "u", "d", "i", "f"}
Signed(n) == IF n < 2^(IntBits - 1) THEN P!Numeral(n, 10, P!Upper)
             ELSE <<"-">> \o P!Numeral(2^IntBits - n, 10, P!Upper)
OfInt(ch1, n, shown) ==
    \/ ch1 \in {"i", "d"} /\ shown = Signed(n)
    \/ ch1 = "u" /\ n < 2^(IntBits - 1) /\ shown = P!Numeral(n, 10, P!Upper)
    \/ ch1 = "x" /\ n < 2^(IntBits - 1)
        /\ shown = <<"0", "x">> \o P!Numeral(n, 16, P!Upper)
Directive(ch1, ch2, letters, a, shown) ==
    \/ /\ letters = 1
       /\ \/ OfInt(ch1, a % 2^IntBits, shown)
          \/ ch1 \in {"b", "B"} /\ shown = <<"0", "b">> \o P!IntBinary(ch1, a)
          \/ ch1 \in {"c", "s"} /\ shown = a
          \/ /\ ch1 = "l" /\ ch2 \notin LongLetters /\ a < 2^(LongBits - 1)
             /\ shown = P!Numeral(a, 10, P!Lower)
    \/ /\ letters = 2 /\ ch1 = "l"
       /\ \/ /\ ch2 = "u" \/ (ch2 \in {"i", "d"} /\ a < 2^(LongBits - 1))
             /\ shown = P!Numeral(a, 10, P!Lower)
          \/ ch2 = "X" /\ shown = P!Numeral(a, 16, P!Lower)
          \/ ch2 \in {"b", "B"} /\ shown = <<"0", "b">> \o P!LongBinary(a)

CharAt(fmt, i) == IF i <= Len(fmt) THEN fmt[i] ELSE P!Nul

(* The part of a message from character c of its format to the one before  *)
(* d: it uses the arguments from number a to the one before b.             *)
Part(m, c, d, a, b, shown) ==
    \/ /\ m.fmt[c] # "%" /\ d = c + 1 /\ b = a
       /\ shown = <<m.fmt[c]>>
    \/ /\ m.fmt[c] = "%" /\ a <= Len(m.args) /\ b = a + 1
       /\ Directive(CharAt(m.fmt, c + 1), CharAt(m.fmt, c + 2), d - c - 1,
                    m.args[a], shown)

Meaning(m) == P!FirstOf(m.text, Size)

(* A format without flags, floats, lx and literal percent signs is printed *)
(* as it is meant, up to the size of the buffer, with all its arguments in *)
(* their places; no such format is read behind its end, and a byte behind  *)
(* the buffer is written only if the text fills it (print.c:41-44, 79-236).*)
FormatsRight ==
    \A i \in DOMAIN stack :
        LET m == calls[stack[i].id]
            call == stack[i].fmt
        IN  m.plain =>
                /\ call.state # "astray"
                /\ call.state = "done" => call.out = Meaning(m)
                /\ call.past => Len(m.text) >= Size

(* The port has room for every character, although each call may be        *)
(* interrupted by one that logs between its look at the status and its     *)
(* write (serialdriver.c:50-51).                                           *)
NothingLost == ~ lost

(* "this will prefix with 0x by default!" (print.c:185): a long that is    *)
(* shown with the letters lx has the prefix.                               *)
LongHexPrefixed ==
    \A i \in DOMAIN stack :
        LET m == calls[stack[i].id]
        IN  m.fmt = <<"%", "l", "x">> /\ stack[i].fmt.state = "done" =>
                stack[i].fmt.out =
                    P!FirstOf(<<"0", "x">> \o P!Numeral(m.args[1], 16, P!Lower),
                              Size)

(* Every message that is logged after a working port was set up leaves it, *)
(* whole, in order, and with the end of its line, whatever interrupts it;  *)
(* what a handler logs may stand in the middle of it on the wire           *)
(* (printk.c:10-16, serialdriver.c:48-82).                                 *)
Sent(n) == LET mine(c) == c[1] = n
               chars == SelectSeq(wire, mine)
           IN  [i \in DOMAIN chars |-> chars[i][2]]
Ended(text) == text # << >> /\ Last(text) = "\n"
Line(m) == IF Ended(Meaning(m)) THEN Meaning(m)
           ELSE Append(Meaning(m), "\n")
Logged(n) ==
    /\ serial__has_init /\ ~ loopback
    /\ \E i \in DOMAIN stack :
        /\ stack[i].id = n
        /\ stack[i].phase = "format"
        /\ calls[n].plain /\ calls[n].text # << >>
EveryLineSent ==
    \A n \in 1 .. MaxCalls :
        Logged(n) ~> n \in DOMAIN calls /\ Sent(n) = Line(calls[n])
=============================================================================
