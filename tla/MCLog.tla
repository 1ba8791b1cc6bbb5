------------------------------- MODULE MCLog -------------------------------
(***************************************************************************)
(* Messages for Log.  Those with a meaning are made of items, each with    *)
(* its part of the format, its arguments, and what it should print.        *)
(***************************************************************************)
EXTENDS Log

I(fmt, args, text) == [fmt |-> fmt, args |-> args, text |-> text]
Message(items) ==
    [fmt |-> FlattenSeq([i \in DOMAIN items |-> items[i].fmt]),
     args |-> FlattenSeq([i \in DOMAIN items |-> items[i].args]),
     text |-> FlattenSeq([i \in DOMAIN items |-> items[i].text]),
     plain |-> TRUE]
Odd(fmt, args) == [fmt |-> fmt, args |-> args, text |-> << >>,
                   plain |-> FALSE]

(* An int of 8 bits and a long of 9: -3 is 253, 258 is 2 as an int.        *)
A == I(<<"a">>, << >>, <<"a">>)
Space == I(<<" ">>, << >>, <<" ">>)
NewLine == I(<<"\n">>, << >>, <<"\n">>)
Dec == I(<<"%", "d">>, <<253>>, <<"-", "3">>)
Small == I(<<"%", "i">>, <<258>>, <<"2">>)
Uns == I(<<"%", "u">>, <<10>>, <<"1", "0">>)
Hex == I(<<"%", "x">>, <<43>>, <<"0", "x", "2", "B">>)
LongHex == I(<<"%", "l", "X">>, <<430>>, <<"1", "a", "e">>)
LongZero == I(<<"%", "l", "X">>, <<0>>, <<"0">>)
LongUns == I(<<"%", "l", "u">>, <<258>>, <<"2", "5", "8">>)
LongInt == I(<<"%", "l", "i">>, <<7>>, <<"7">>)
Long == I(<<"%", "l">>, <<12>>, <<"1", "2">>)
Char == I(<<"%", "c">>, <<<<"c">>>>, <<"c">>)
String == I(<<"%", "s">>, <<<<"s", "%", "d">>>>, <<"s", "%", "d">>)
None == I(<<"%", "s">>, <<<< >>>>, << >>)
BinByte == I(<<"%", "B">>, <<5>>,
             <<"0", "b", "0", "0", "0", "0", "0", "1", "0", "1">>)
Bin == I(<<"%", "b">>, <<5>>,
         <<"0", "b", "0", "0", "0", "0", " ", "0", "1", "0", "1", " ">>)
BinZero == I(<<"%", "b">>, <<256>>, <<"0", "b", "0">>)
LongBin == I(<<"%", "l", "b">>, <<257>>,
             <<"0", "b", "1", " ", "0", "0", "0", "0", " ",
               "0", "0", "0", "1", " ">>)

Items == <<A, Space, NewLine, Dec, Small, Uns, Hex, LongHex, LongZero,
           LongUns, LongInt, Long, Char, String, None, BinByte, Bin, BinZero,
           LongBin>>
Odds == {Odd(<<"%">>, << >>), Odd(<<"a", "%">>, << >>),
         Odd(<<"%", "%">>, << >>), Odd(<<"%", "2", "d", "a">>, <<1>>),
         Odd(<<"%", "f">>, << >>), Odd(<<"%", ".", "2", "f", "a", "a">>, << >>),
         Odd(<<"%", "l", "f", "a">>, << >>), Odd(<<"%", "d">>, << >>),
         Odd(<<"%", "s">>, << >>), Odd(<<"%", "C", "a">>, <<6>>),
         Odd(<<"%", "k", "a">>, << >>), Odd(<<"%", "-", "l", "x">>, <<9>>),
         Odd(<<"%", "l", "x">>, <<430>>), Odd(<<"%", "l", "i">>, <<430>>),
         Odd(<<"%", "u">>, <<253>>), Odd(<<"%", "x">>, <<253>>)}

Short == <<A>>
Closed == <<Small, NewLine>>
Contents == {<< >>, Short, Closed}
    \cup {<<Items[i], Items[i + 1]>> : i \in 1 .. Len(Items) - 1}
    \cup {<<A, i, Space, j, NewLine>> : i, j \in {Dec, Long, None}}
    \cup {[k \in 1 .. n |-> A] : n \in 11 .. 13}
BriefMessages == {Message(Short)}
MainMessages == Odds \cup {Message(items) : items \in Contents}

(* What is written above for an item is what its directive shows, so that  *)
(* the plain messages are composed of parts.                               *)
Before(items, k) == Message(SubSeq(items, 1, k - 1))
ASSUME ItemsAreParts ==
    \A items \in Contents :
        /\ Len(Message(items).fmt) < TextSize
        /\ \A k \in DOMAIN items :
            LET from == Before(items, k)
                to == Before(items, k + 1)
            IN  Part(Message(items), Len(from.fmt) + 1, Len(to.fmt) + 1,
                     Len(from.args) + 1, Len(to.args) + 1, items[k].text)
=============================================================================
