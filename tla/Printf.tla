------------------------------- MODULE Printf -------------------------------
(***************************************************************************)
(* The formatted printing of src/kstdlib/print.c, with the functions of    *)
(* kstdlib/string.c that it calls: a walk over a format that collects text *)
(* in one buffer and appends text and converted arguments to another.      *)
(*                                                                         *)
(* A string is a sequence of characters without its Nul.  A call of        *)
(* vsnprintf is a record, as all its state is on the stack of its caller.  *)
(***************************************************************************)
EXTENDS Integers, Sequences, SequencesExt

CONSTANTS
    Size,       \* chars of the buffer of printk, PRINTK_BUF_SIZE (2048)
    TextSize,   \* chars of buf, PRINTF_BUF (2048)
    IntBits,    \* bits of an int (32)
    LongBits    \* bits of a long (64)

Nul == "NUL"

(* The characters of formats below 58, the one behind the digits. *)
Low == {"%", " ", "-", ".", "0", "2", "8", "\n"}

FirstOf(s, n) == IF Len(s) <= n THEN s ELSE SubSeq(s, 1, n)

Upper == <<"0", "1", "2", "3", "4", "5", "6", "7", "8", "9",
           "A", "B", "C", "D", "E", "F">>
Lower == <<"0", "1", "2", "3", "4", "5", "6", "7", "8", "9",
           "a", "b", "c", "d", "e", "f">>
Numeral(n, base, digits) ==
    LET numeral[i \in 0 .. n] ==
            IF i < base THEN <<digits[i + 1]>>
            ELSE Append(numeral[i \div base], digits[(i % base) + 1])
    IN  numeral[n]

(* Every int is signed, also for %u and %x. *)
AsInt(v) == v % 2^IntBits
itoa(v, base) ==
    LET int == AsInt(v)
    IN  IF int < 2^(IntBits - 1) THEN Numeral(int, base, Upper)
        ELSE <<"-">> \o Numeral(2^IntBits - int, base, Upper)
ltoa(v, base) == Numeral(v, base, Lower)

get_highest_bit(n) == IF n = 0 THEN 0
                      ELSE CHOOSE b \in 0 .. IntBits - 1 : n \div 2^b = 1

(* The bits of n from high to 0, a space behind some of them; the processor *)
(* shifts an int by a number below IntBits.                                *)
Bits(n, width, high, spaced) ==
    FlattenSeq([i \in 1 .. high + 1 |->
        LET b == high + 1 - i
        IN  <<IF (n \div 2^(b % width)) % 2 = 1 THEN "1" ELSE "0">>
                \o IF b \in spaced THEN <<" ">> ELSE << >>])
IntBinary(ch, v) ==
    LET n == AsInt(v)
        high == CASE ch = "C" -> get_highest_bit(n) * 8
                  [] ch = "B" -> 7
                  [] OTHER -> IntBits - 1
    IN  IF n = 0 THEN <<"0">>
        ELSE Bits(n, IntBits, high,
                  IF ch = "B" THEN {} ELSE {b \in 0 .. high - 1 : b % 4 = 0})
LongBinary(v) ==
    IF v = 0 THEN <<"0", "0", "0", "0">>
    ELSE Bits(v, LongBits, LongBits - 1,
              {b \in 0 .. LongBits - 1 : b % 4 = 0})

-----------------------------------------------------------------------------
(* What a conversion prints, how many characters of the format it is taken *)
(* to have, and whether it takes an argument.  skipped counts the          *)
(* characters from the percent sign to the letter.                         *)
Shown(str, length) == [str |-> str, length |-> length, takes |-> TRUE]
Fixed(str, length) == [str |-> str, length |-> length, takes |-> FALSE]
LongConversion_OneChar(ch2, skipped, arg) ==
    CASE ch2 \in {"x", "X"} -> Shown(ltoa(arg, 16), 2)
      [] OTHER -> Shown(ltoa(arg, 10), 1)
LongConversion(ch2, skipped, arg) ==
    CASE ch2 \in {"b", "B"} -> Shown(<<"0", "b">> \o LongBinary(arg), 2)
      [] ch2 \in {"x", "X"} -> Shown(ltoa(arg, 16), 2)
      [] ch2 = "f" -> Fixed(<<"no double impl">>, 2 + skipped)
      [] ch2 \in {"u", "d", "i"} -> Shown(ltoa(arg, 10), 2)
      [] OTHER -> Shown(ltoa(arg, 10), 1)
Conversion(ch1, ch2, skipped, arg) ==
    CASE ch1 \in {"i", "d", "u"} -> Shown(itoa(arg, 10), 1)
      [] ch1 = "x" -> Shown(<<"0", "x">> \o itoa(arg, 16), 1)
      [] ch1 \in {"b", "B", "C"} ->
            Shown(<<"0", "b">> \o IntBinary(ch1, arg), 1)
      [] ch1 \in {"c", "s"} -> Shown(arg, 1)
      [] ch1 = "f" -> Fixed(<<"no float impl">>, 1 + skipped)
      [] ch1 \in {"l", "L"} -> LongConversion(ch2, skipped, arg)
      [] OTHER -> Fixed(<< >>, 1)

(* A call: where it is in the format and the arguments, buf, what is in    *)
(* the buffer of the caller, and whether a Nul was written behind that.    *)
(* A call that reads behind its format or arguments, or overflows buf, is  *)
(* astray.                                                                 *)
vsnprintf(fmt, args) ==
    [fmt |-> fmt, args |-> args, c |-> 1, next |-> 1, buf |-> << >>,
     out |-> << >>, past |-> FALSE,
     state |-> IF fmt = << >> THEN "done" ELSE "on"]

sprint(call, str) ==
    LET all == call.out \o str
    IN  [call EXCEPT !.out = FirstOf(all, Size),
                     !.past = @ \/ Len(all) >= Size]

At(call, i) == IF i <= Len(call.fmt) THEN call.fmt[i] ELSE Nul

(* The end of the loop: the next character is Nul, or already behind it.   *)
Onward(call, c) ==
    LET moved == [call EXCEPT !.c = c]
    IN  CASE c <= Len(call.fmt) -> moved
          [] c = Len(call.fmt) + 1 ->
                [sprint(moved, moved.buf) EXCEPT !.state = "done"]
          [] OTHER -> [moved EXCEPT !.state = "astray"]

text_char(call) ==
    IF Len(call.buf) + 1 >= TextSize THEN [call EXCEPT !.state = "astray"]
    ELSE Onward([call EXCEPT !.buf = Append(@, call.fmt[call.c])], call.c + 1)

Letters(call) == {j \in call.c .. Len(call.fmt) : call.fmt[j] \notin Low}
convert(call) ==
    LET flushed == [sprint(call, call.buf) EXCEPT !.buf = << >>]
        j == CHOOSE i \in Letters(call) : \A k \in Letters(call) : i <= k
        arg == IF call.next <= Len(call.args) THEN call.args[call.next]
               ELSE 0
        conv == Conversion(At(call, j), At(call, j + 1), j - call.c, arg)
        shown == [sprint(flushed, conv.str) EXCEPT
                    !.next = IF conv.takes THEN @ + 1 ELSE @]
    IN  IF \/ Letters(call) = {}
           \/ Len(call.fmt) > TextSize
           \/ conv.takes /\ call.next > Len(call.args)
        THEN [flushed EXCEPT !.state = "astray"]
        ELSE Onward(shown, call.c + conv.length + 1)

vprintf_step(call) ==
    IF call.fmt[call.c] = "%" THEN convert(call) ELSE text_char(call)
=============================================================================
