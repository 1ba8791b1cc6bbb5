------------------------------ MODULE Cmdline ------------------------------
(***************************************************************************)
(* The command line, src/boot/cmdline.c, with the functions of             *)
(* kstdlib/string.c that it calls.  The boot loader passes one string of   *)
(* key=value words; cmdline_parse stores them in an array of keys of fixed *)
(* length and one of numbers, which cmdline_hasarg and cmdline_getarg      *)
(* search.                                                                 *)
(*                                                                         *)
(* A string is a sequence of characters that ends with Nul.                *)
(***************************************************************************)
EXTENDS Naturals, Sequences

CONSTANTS
    KeyLen,     \* CMDLINE_MAX_ARG_LEN, chars of a row of args (16)
    MaxArgs,    \* CMDLINE_MAX_ARG, rows of args (16)
    BufLen,     \* chars of buf (64)
    ValLen,     \* chars of sval (32)
    UintMod,    \* numbers of a uint32_t
    Digits      \* the digits, a sequence from zero on

Nul == "NUL"
Sep == "="
Base == Len(Digits)
NO_ARG == UintMod - 1       \* CMDLINE_NO_ARG, UINT32_MAX

VARIABLES
    idx,    \* the next character of the string
    buf,    \* what was read of the next key
    args,   \* the rows of cmdline.args and vals filled so far
    parse   \* "no", "parsing", "done", or "overrun" of one of the arrays

cmdVars == <<idx, buf, args, parse>>

Value(c) == (CHOOSE i \in 1 .. Base : Digits[i] = c) - 1
IsDigit(c) == \E i \in 1 .. Base : Digits[i] = c

(* atou: UINT32_MAX for a string with another character; it wraps. *)
atou(s) ==
    LET number[i \in 0 .. Len(s)] ==
            IF i = 0 THEN 0 ELSE (number[i - 1] * Base + Value(s[i])) % UintMod
    IN  IF \A i \in 1 .. Len(s) : IsDigit(s[i]) THEN number[Len(s)] ELSE NO_ARG

-----------------------------------------------------------------------------
Init ==
    /\ idx = 1
    /\ buf = << >>
    /\ args = << >>
    /\ parse = "no"

(* An empty tag leaves what memset made. *)
cmdline_parse(line) ==
    /\ parse = "no"
    /\ idx' = 1 /\ buf' = << >> /\ args' = << >>
    /\ parse' = IF line = << >> THEN "done" ELSE "parsing"

(* The value of the separator at idx ends before a space or Nul.  The      *)
(* separator of a key that is not the first is never seen at the start of  *)
(* the loop: the character behind the value is read with it.               *)
ValueEnd(line) == CHOOSE e \in idx .. Len(line) :
    /\ e < Len(line) => line[e + 1] \in {" ", Nul}
    /\ \A i \in idx + 1 .. e : line[i] \notin {" ", Nul}
Behind_NotSkipped(line) == ValueEnd(line) + 1
Behind(line) == LET e == ValueEnd(line) + 1
                IN  IF line[e] = " " THEN e + 1 ELSE e
FirstOf(s, n) == IF Len(s) <= n THEN s ELSE SubSeq(s, 1, n)
strncpy_LosesLast(s) == FirstOf(s, KeyLen - 2)
strncpy(s) == FirstOf(s, KeyLen)

parse_word(line) ==
    /\ parse = "parsing" /\ idx <= Len(line) /\ line[idx] = Sep
    /\ LET val == SubSeq(line, idx + 1, ValueEnd(line))
       IN  IF Len(buf) >= BufLen \/ Len(args) = MaxArgs \/ Len(val) >= ValLen
           THEN parse' = "overrun" /\ UNCHANGED <<idx, buf, args>>
           ELSE /\ args' = Append(args, [key |-> strncpy(buf),
                                         val |-> atou(val)])
                /\ buf' = <<line[Behind(line)]>>
                /\ idx' = Behind(line) + 1
                /\ UNCHANGED parse

parse_char(line) ==
    /\ parse = "parsing" /\ idx <= Len(line) /\ line[idx] # Sep
    /\ IF Len(buf) = BufLen
       THEN parse' = "overrun" /\ UNCHANGED <<idx, buf, args>>
       ELSE /\ buf' = Append(buf, line[idx])
            /\ idx' = idx + 1
            /\ UNCHANGED <<args, parse>>

parse_end(line) ==
    /\ parse = "parsing" /\ idx > Len(line)
    /\ parse' = "done"
    /\ UNCHANGED <<idx, buf, args>>

Parse(line) ==
    cmdline_parse(line) \/ parse_word(line) \/ parse_char(line)
        \/ parse_end(line)

-----------------------------------------------------------------------------
(* strncpy writes no Nul behind a key that fills its row: it is read on    *)
(* into the next row.                                                      *)
UpToNul(s) == LET nuls == {i \in 1 .. Len(s) : s[i] = Nul}
              IN  IF nuls = {} THEN s
                  ELSE SubSeq(s, 1, (CHOOSE i \in nuls :
                                        \A j \in nuls : i <= j) - 1)
Row(n) ==
    LET row[i \in 1 .. Len(args) + 1] ==
            IF i > Len(args) THEN << >>
            ELSE LET key == UpToNul(args[i].key)
                 IN  IF Len(key) = KeyLen THEN key \o row[i + 1] ELSE key
    IN  row[n]

get_arg_idx_Last(arg) == {i \in DOMAIN args : Row(i) = arg /\
                        \A j \in DOMAIN args : j > i => Row(j) # arg}
get_arg_idx(arg) == {i \in DOMAIN args : Row(i) = arg /\
                        \A j \in 1 .. i - 1 : Row(j) # arg}
cmdline_hasarg(arg) == get_arg_idx(arg) # {}
cmdline_getarg(arg) == IF cmdline_hasarg(arg)
                       THEN args[CHOOSE i \in get_arg_idx(arg) : TRUE].val
                       ELSE NO_ARG
=============================================================================
