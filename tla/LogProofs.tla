----------------------------- MODULE LogProofs -----------------------------
(***************************************************************************)
(* That the serial port always has room, for every depth of calls of       *)
(* printk that interrupt each other, every set of messages and every       *)
(* length of the port's queue that is at least that depth; that what       *)
(* vsnprintf makes of a message is what its parts mean, for any number of  *)
(* parts and every size of the buffer; and that the digits of a number,    *)
(* which these theorems take as computed, are the right ones.              *)
(*                                                                         *)
(* A call that saw an empty queue may write one character whenever it goes *)
(* on, whoever wrote in between.  The calls that saw one and have not      *)
(* written yet, and the characters in the queue, are together never more   *)
(* than the calls that can interrupt each other: at the moment a call      *)
(* sees an empty queue, only calls on the stack are waiting.               *)
(*                                                                         *)
(* A call of vsnprintf stands, after each round of its loop, at the        *)
(* beginning of a part of the message (RightSoFar): what the parts before  *)
(* it mean is in the buffer of the caller, cut to its size, and behind     *)
(* that in buf, which is appended when a conversion or the end comes.      *)
(***************************************************************************)
EXTENDS Log, NatLemmas, FiniteSetTheorems, SequenceTheorems, TLAPS

Waiting(s) == {i \in 1 .. Len(s) : s[i].free}

(* The invariant; that the stack and the queue are sequences of anything   *)
(* is enough, as nothing else is counted.                                  *)
IsSequence(s) == \E S : s \in Seq(S)
RoomInv ==
    /\ IsSequence(stack) /\ IsSequence(fifo)
    /\ \A i \in 1 .. Len(stack) :
        /\ "free" \in DOMAIN stack[i]
        /\ stack[i].free \in BOOLEAN
    /\ Len(stack) <= MaxNest
    /\ Len(fifo) + Cardinality(Waiting(stack)) <= MaxNest
    /\ ~ lost

(* The set of waiting calls is finite and no larger than the stack.        *)
LEMMA WaitingFinite ==
    \A s : IsSequence(s) =>
        /\ Len(s) \in Nat
        /\ IsFiniteSet(Waiting(s))
        /\ Cardinality(Waiting(s)) \in Nat
        /\ Cardinality(Waiting(s)) <= Len(s)
<1> TAKE s
<1> HAVE IsSequence(s)
<1>1. Len(s) \in Nat
  BY DEF IsSequence
<1>2. IsFiniteSet(1 .. Len(s)) /\ Cardinality(1 .. Len(s)) = Len(s)
  BY <1>1, FS_Interval, SMTT(30)
<1>3. Waiting(s) \subseteq 1 .. Len(s)
  BY DEF Waiting
<1>4. QED BY <1>1, <1>2, <1>3, FS_Subset, FS_CardinalityType

(* A change of the call that runs leaves the others alone.                 *)
LEMMA TopChanged ==
    \A s, x : IsSequence(s) /\ s # << >> =>
        LET t == [s EXCEPT ![Len(s)] = x]
        IN  /\ IsSequence(t)
            /\ Len(t) = Len(s)
            /\ Len(s) \in Nat \ {0}
            /\ t[Len(s)] = x
            /\ \A i \in 1 .. Len(s) : i # Len(s) => t[i] = s[i]
<1> TAKE s, x
<1> HAVE IsSequence(s) /\ s # << >>
<1> DEFINE t == [s EXCEPT ![Len(s)] = x]
<1>1. PICK S : s \in Seq(S)
  BY DEF IsSequence
<1>2. Len(s) \in Nat \ {0} /\ s \in [1 .. Len(s) -> S]
  BY <1>1
<1>3. s \in Seq(S \cup {x})
  <2>1. s \in [1 .. Len(s) -> S \cup {x}]
    BY <1>2
  <2>2. QED BY <1>2, <2>1, SeqDef
<1>4. /\ t \in Seq(S \cup {x})
      /\ Len(t) = Len(s)
      /\ \A i \in 1 .. Len(s) : t[i] = IF i = Len(s) THEN x ELSE s[i]
  <2>1. Len(s) \in 1 .. Len(s) /\ x \in S \cup {x}
    BY <1>2
  <2>2. QED BY <1>3, <2>1, ExceptSeq
<1>5. IsSequence(t)
  BY <1>4, Zenon DEF IsSequence
<1>6. QED BY <1>2, <1>4, <1>5

(* While the calls that wait stay the same, so does their number.          *)
LEMMA SameWaiting ==
    ASSUME Len(stack') = Len(stack),
           \A i \in 1 .. Len(stack) : stack'[i].free = stack[i].free
    PROVE  Waiting(stack') = Waiting(stack)
BY DEF Waiting

(* A number of calls that wait, and characters in the queue, that fit.     *)
LEMMA Fits ==
    ASSUME RoomInv,
           IsSequence(stack'), IsSequence(fifo'),
           \A i \in 1 .. Len(stack') :
                "free" \in DOMAIN stack'[i] /\ stack'[i].free \in BOOLEAN,
           Len(stack') <= MaxNest,
           Len(fifo') + Cardinality(Waiting(stack')) <= MaxNest,
           lost' = lost
    PROVE  RoomInv'
BY DEF RoomInv

(* Fewer calls wait than before, or other ones do, if any.                 *)
LEMMA FewerWaiting ==
    ASSUME IsSequence(stack), IsSequence(stack'),
           Waiting(stack') \subseteq Waiting(stack)
    PROVE  /\ Cardinality(Waiting(stack')) \in Nat
           /\ Cardinality(Waiting(stack')) <= Cardinality(Waiting(stack))
<1>1. IsFiniteSet(Waiting(stack)) /\ Cardinality(Waiting(stack)) \in Nat
  BY WaitingFinite
<1>2. QED BY <1>1, FS_Subset, FS_CardinalityType

-----------------------------------------------------------------------------
(* At first nothing waits. *)
LEMMA InitRoom == LogAssumption /\ Init => RoomInv
<1> SUFFICES ASSUME LogAssumption, Init PROVE RoomInv
  OBVIOUS
<1>1. stack = << >> /\ fifo = << >> /\ lost = FALSE
  BY DEF Init, Com!Init
<1>2. << >> \in Seq({}) /\ Len(<< >>) = 0
  OBVIOUS
<1>3. IsSequence(<< >>)
  BY <1>2, Zenon DEF IsSequence
<1>4. Waiting(stack) = {}
  BY <1>1, <1>2 DEF Waiting
<1>5. Cardinality(Waiting(stack)) = 0
  BY <1>4, FS_EmptySet
<1>6. QED BY <1>1, <1>2, <1>3, <1>5 DEF RoomInv, LogAssumption

-----------------------------------------------------------------------------
(* The call that runs goes on, with as much right to write as before.      *)
LEMMA KeepsWaiting ==
    ASSUME RoomInv, stack # << >>,
           NEW x, "free" \in DOMAIN x, x.free = Top.free,
           stack' = [stack EXCEPT ![Len(stack)] = x],
           UNCHANGED <<fifo, lost>>
    PROVE  RoomInv'
<1>1. /\ IsSequence(stack')
      /\ Len(stack') = Len(stack)
      /\ Len(stack) \in Nat \ {0}
      /\ stack'[Len(stack)] = x
      /\ \A i \in 1 .. Len(stack) : i # Len(stack) => stack'[i] = stack[i]
  <2>1. IsSequence(stack)
    BY DEF RoomInv
  <2> DEFINE t == [stack EXCEPT ![Len(stack)] = x]
  <2>2. /\ IsSequence(t)
        /\ Len(t) = Len(stack)
        /\ Len(stack) \in Nat \ {0}
        /\ t[Len(stack)] = x
        /\ \A i \in 1 .. Len(stack) : i # Len(stack) => t[i] = stack[i]
    BY <2>1, TopChanged, Zenon
  <2>3. stack' = t
    OBVIOUS
  <2> HIDE DEF t
  <2>4. QED BY <2>2, <2>3
<1>2. \A i \in 1 .. Len(stack) : stack'[i].free = stack[i].free
  <2> TAKE i \in 1 .. Len(stack)
  <2>1. CASE i = Len(stack)
    BY <1>1, <2>1 DEF Top
  <2>2. CASE i # Len(stack)
    BY <1>1, <2>2
  <2>3. QED BY <2>1, <2>2
<1>3. Waiting(stack') = Waiting(stack)
  BY <1>1, <1>2, SameWaiting
<1>4. \A i \in 1 .. Len(stack') :
            "free" \in DOMAIN stack'[i] /\ stack'[i].free \in BOOLEAN
  BY <1>1, <1>2 DEF RoomInv
<1>5. QED BY <1>1, <1>3, <1>4, Fits DEF RoomInv

(* Formatting does not touch the port. *)
LEMMA FormatRoom == RoomInv /\ __vprintf => RoomInv'
<1> SUFFICES ASSUME RoomInv, __vprintf PROVE RoomInv'
  OBVIOUS
<1> DEFINE x == [Top EXCEPT !.fmt = P!vprintf_step(@)]
<1>1. stack # << >> /\ stack' = [stack EXCEPT ![Len(stack)] = x]
  BY DEF __vprintf, Top
<1>2. "free" \in DOMAIN x /\ x.free = Top.free
  <2>1. Len(stack) \in 1 .. Len(stack)
    BY <1>1 DEF RoomInv, IsSequence
  <2>2. "free" \in DOMAIN Top
    BY <2>1 DEF RoomInv, Top
  <2>3. QED BY <2>2
<1>3. UNCHANGED <<fifo, lost>>
  BY DEF __vprintf, serialVars
<1>4. QED BY <1>1, <1>2, <1>3, KeepsWaiting

(* Nor does the choice of the outputs. *)
LEMMA OutputRoom == RoomInv /\ _printk_findoutputs => RoomInv'
<1> SUFFICES ASSUME RoomInv, _printk_findoutputs PROVE RoomInv'
  OBVIOUS
<1>1. PICK line \in Lines(Top.fmt.out) :
        stack' = [stack EXCEPT ![Len(stack)].phase = "print",
                    ![Len(stack)].text = IF serial__has_init THEN line
                                         ELSE << >>]
  BY DEF _printk_findoutputs
<1> DEFINE x == [Top EXCEPT !.phase = "print",
                            !.text = IF serial__has_init THEN line ELSE << >>]
<1>2. stack # << >> /\ Len(stack) \in 1 .. Len(stack)
  BY DEF _printk_findoutputs, RoomInv, IsSequence
<1>3. stack' = [stack EXCEPT ![Len(stack)] = x]
  BY <1>1, <1>2 DEF Top
<1>4. "free" \in DOMAIN x /\ x.free = Top.free
  <2>1. "free" \in DOMAIN Top
    BY <1>2 DEF RoomInv, Top
  <2>2. QED BY <2>1
<1>5. UNCHANGED <<fifo, lost>>
  BY DEF _printk_findoutputs, serialVars
<1>6. QED BY <1>2, <1>3, <1>4, <1>5, KeepsWaiting

(* A call sees an empty queue: only calls on the stack wait.               *)
LEMMA WaitRoom == RoomInv /\ wait => RoomInv'
<1> SUFFICES ASSUME RoomInv, wait PROVE RoomInv'
  OBVIOUS
<1> DEFINE x == [Top EXCEPT !.free = TRUE]
           t == [stack EXCEPT ![Len(stack)] = x]
<1>1. /\ stack # << >> /\ stack' = t /\ fifo = << >>
      /\ UNCHANGED <<fifo, lost>>
  BY DEF wait, Top, Com!is_transmit_empty, serialVars
<1>2. IsSequence(stack)
  BY DEF RoomInv
<1>3. /\ IsSequence(t)
      /\ Len(t) = Len(stack)
      /\ Len(stack) \in Nat \ {0}
      /\ t[Len(stack)] = x
      /\ \A i \in 1 .. Len(stack) : i # Len(stack) => t[i] = stack[i]
  BY <1>1, <1>2, TopChanged, Zenon
<1>4. "free" \in DOMAIN x /\ x.free = TRUE
  <2>1. "free" \in DOMAIN Top
    BY <1>3 DEF RoomInv, Top
  <2>2. QED BY <2>1
<1> HIDE DEF t, x
<1>5. /\ IsSequence(stack')
      /\ Len(stack') = Len(stack)
      /\ \A i \in 1 .. Len(stack') :
            "free" \in DOMAIN stack'[i] /\ stack'[i].free \in BOOLEAN
  <2>1. ASSUME NEW i \in 1 .. Len(stack)
        PROVE  "free" \in DOMAIN t[i] /\ t[i].free \in BOOLEAN
    <3>1. CASE i = Len(stack)
      BY <1>3, <1>4, <3>1
    <3>2. CASE i # Len(stack)
      BY <1>3, <3>2, <2>1 DEF RoomInv
    <3>3. QED BY <3>1, <3>2
  <2>2. QED BY <1>1, <1>3, <2>1
<1>6. Cardinality(Waiting(stack')) \in Nat /\ Cardinality(Waiting(stack')) <= Len(stack')
  BY <1>5, WaitingFinite
<1>7. Len(fifo') = 0
  BY <1>1
<1>8. IsSequence(fifo') /\ Len(stack') <= MaxNest /\ MaxNest \in Nat
  BY <1>1, <1>5, LogAssumption DEF RoomInv, LogAssumption
<1>9. Len(fifo') + Cardinality(Waiting(stack')) <= MaxNest
  BY <1>5, <1>6, <1>7, <1>8, <1>3
<1>10. QED BY <1>1, <1>5, <1>8, <1>9, Fits

(* A call that waited writes: one call less waits, one character more is   *)
(* in the queue, which had room for it.                                    *)
LEMMA WriteRoom == RoomInv /\ write => RoomInv'
<1> SUFFICES ASSUME RoomInv, write PROVE RoomInv'
  OBVIOUS
<1> DEFINE x == [Top EXCEPT !.free = FALSE, !.text = Tail(@)]
           t == [stack EXCEPT ![Len(stack)] = x]
<1>1. IsSequence(stack) /\ stack # << >> /\ Top.free
  BY DEF RoomInv, write
<1>2. /\ IsSequence(t)
      /\ Len(t) = Len(stack)
      /\ Len(stack) \in Nat \ {0}
      /\ t[Len(stack)] = x
      /\ \A i \in 1 .. Len(stack) : i # Len(stack) => t[i] = stack[i]
  BY <1>1, TopChanged, Zenon
<1>3. stack' = t
  <2>1. stack' = [stack EXCEPT ![Len(stack)].free = FALSE,
                               ![Len(stack)].text = Tail(@)]
    BY DEF write
  <2>2. Len(stack) \in DOMAIN stack
    BY <1>1, <1>2 DEF IsSequence
  <2>3. QED BY <2>1, <2>2 DEF Top
<1>4. "free" \in DOMAIN x /\ x.free = FALSE
  <2>1. "free" \in DOMAIN Top
    BY <1>2 DEF RoomInv, Top
  <2>2. QED BY <2>1
<1> HIDE DEF t, x
<1>5. \A i \in 1 .. Len(stack') :
            "free" \in DOMAIN stack'[i] /\ stack'[i].free \in BOOLEAN
  <2>1. ASSUME NEW i \in 1 .. Len(stack)
        PROVE  "free" \in DOMAIN t[i] /\ t[i].free \in BOOLEAN
    <3>1. CASE i = Len(stack)
      BY <1>2, <1>4, <3>1
    <3>2. CASE i # Len(stack)
      BY <1>2, <3>2, <2>1 DEF RoomInv
    <3>3. QED BY <3>1, <3>2
  <2>2. QED BY <1>2, <1>3, <2>1
<1>6. Waiting(stack') = Waiting(stack) \ {Len(stack)}
  <2>1. ASSUME NEW i \in 1 .. Len(stack)
        PROVE  t[i].free <=> stack[i].free /\ i # Len(stack)
    BY <1>2, <1>4, <2>1
  <2>2. QED BY <1>2, <1>3, <2>1 DEF Waiting
<1>7. Len(stack) \in Waiting(stack)
  BY <1>1, <1>2 DEF Waiting, Top
<1>8. /\ Cardinality(Waiting(stack)) \in Nat
      /\ Cardinality(Waiting(stack')) = Cardinality(Waiting(stack)) - 1
  BY <1>1, <1>6, <1>7, WaitingFinite, FS_RemoveElement
<1>9. Cardinality(Waiting(stack')) \in Nat
  BY <1>2, <1>3, WaitingFinite
<1>10. Len(fifo) \in Nat /\ MaxNest \in Nat /\ FifoSize \in Nat /\ MaxNest <= FifoSize
  BY LogAssumption DEF RoomInv, IsSequence, LogAssumption
<1>11. Len(fifo) < FifoSize /\ Len(fifo) + Cardinality(Waiting(stack)) <= MaxNest
  BY <1>8, <1>9, <1>10 DEF RoomInv
<1>12. fifo' = Append(fifo, <<Top.id, Head(Top.text)>>) /\ lost' = lost
  BY <1>11, <1>10 DEF write, Com!port_byte_out
<1>13. IsSequence(fifo') /\ Len(fifo') = Len(fifo) + 1
  <2>1. PICK S : fifo \in Seq(S)
    BY DEF RoomInv, IsSequence
  <2> DEFINE a == <<Top.id, Head(Top.text)>>
             U == S \cup {a}
  <2>2. fifo \in Seq(U)
    <3>1. fifo \in [1 .. Len(fifo) -> U]
      BY <2>1
    <3>2. QED BY <1>10, <3>1, SeqDef
  <2>3. Append(fifo, a) \in Seq(U) /\ Len(Append(fifo, a)) = Len(fifo) + 1
    BY <2>2, AppendProperties
  <2>4. IsSequence(Append(fifo, a))
    BY <2>3, Zenon DEF IsSequence
  <2>5. QED BY <1>12, <2>3, <2>4
<1>14. IsSequence(stack') /\ Len(stack') <= MaxNest
  BY <1>2, <1>3 DEF RoomInv
<1>15. Len(fifo') + Cardinality(Waiting(stack')) <= MaxNest
  BY <1>8, <1>10, <1>11, <1>13
<1>16. QED BY <1>5, <1>12, <1>13, <1>14, <1>15, Fits

(* A call begins, and does not wait.                                       *)
LEMMA PrintkRoom == RoomInv /\ printk => RoomInv'
<1> SUFFICES ASSUME RoomInv, printk PROVE RoomInv'
  OBVIOUS
<1>1. PICK m : stack' = Append(stack,
                [id |-> Len(calls) + 1, phase |-> "format",
                 fmt |-> P!vsnprintf(m.fmt, m.args),
                 text |-> << >>, free |-> FALSE])
  BY DEF printk
<1> DEFINE c == [id |-> Len(calls) + 1, phase |-> "format",
                 fmt |-> P!vsnprintf(m.fmt, m.args),
                 text |-> << >>, free |-> FALSE]
<1>2. "free" \in DOMAIN c /\ c.free = FALSE
  OBVIOUS
<1>3. stack' = Append(stack, c)
  BY <1>1
<1> HIDE DEF c
<1>4. PICK S : stack \in Seq(S)
  BY DEF RoomInv, IsSequence
<1> DEFINE U == S \cup {c}
<1>5. Len(stack) \in Nat /\ stack \in [1 .. Len(stack) -> U]
  BY <1>4
<1>6. stack \in Seq(U)
  BY <1>5, SeqDef
<1>7. /\ stack' \in Seq(U)
      /\ Len(stack') = Len(stack) + 1
      /\ stack'[Len(stack) + 1] = c
      /\ \A i \in 1 .. Len(stack) : stack'[i] = stack[i]
  BY <1>3, <1>6, AppendProperties
<1>8. IsSequence(stack')
  BY <1>7, Zenon DEF IsSequence
<1>9. \A i \in 1 .. Len(stack') :
            "free" \in DOMAIN stack'[i] /\ stack'[i].free \in BOOLEAN
  <2> TAKE i \in 1 .. Len(stack')
  <2>1. CASE i = Len(stack) + 1
    BY <1>2, <1>7, <2>1
  <2>2. CASE i \in 1 .. Len(stack)
    BY <1>7, <2>2 DEF RoomInv
  <2>3. QED BY <1>5, <1>7, <2>1, <2>2
<1>10. Waiting(stack') = Waiting(stack)
  <2>1. stack'[Len(stack) + 1].free = FALSE
    BY <1>2, <1>7
  <2>2. QED BY <1>5, <1>7, <2>1 DEF Waiting
<1>11. UNCHANGED <<fifo, lost>> /\ Len(stack) < MaxNest /\ MaxNest \in Nat
  BY LogAssumption DEF printk, serialVars, LogAssumption
<1>12. Len(stack') <= MaxNest
  BY <1>5, <1>7, <1>11
<1>13. QED BY <1>8, <1>9, <1>10, <1>11, <1>12, Fits DEF RoomInv

(* Without its last call, the stack holds what it held.                    *)
LEMMA Popped ==
    ASSUME IsSequence(stack), stack # << >>,
           stack' = SubSeq(stack, 1, Len(stack) - 1)
    PROVE  /\ IsSequence(stack') /\ Len(stack) \in Nat \ {0}
           /\ Len(stack') = Len(stack) - 1
           /\ \A i \in 1 .. Len(stack) - 1 : stack'[i] = stack[i]
<1>1. PICK S : stack \in Seq(S)
  BY DEF IsSequence
<1>2. Len(stack) \in Nat \ {0}
  BY <1>1
<1>3. /\ stack' \in Seq(S)
      /\ Len(stack') = Len(stack) - 1
      /\ \A i \in 1 .. Len(stack) - 1 : stack'[i] = stack[i]
  <2>1. \A i \in 1 .. Len(stack) - 1 : stack[i] \in S
    BY <1>1, <1>2
  <2>2. Len(stack) - 1 \in Int /\ 1 \in Int
    BY <1>2
  <2>3. /\ stack' \in Seq(S)
        /\ Len(stack') = IF 1 <= Len(stack) - 1 THEN Len(stack) - 1 - 1 + 1
                         ELSE 0
        /\ \A i \in 1 .. Len(stack) - 1 - 1 + 1 :
                stack'[i] = stack[1 + i - 1]
    BY <2>1, <2>2, SubSeqProperties
  <2>4. Len(stack') = Len(stack) - 1
    <3>1. Len(stack') = IF 1 <= Len(stack) - 1 THEN Len(stack) - 1 - 1 + 1
                        ELSE 0
      BY <2>3
    <3>2. ASSUME NEW n \in Nat \ {0}
          PROVE  n - 1 = IF 1 <= n - 1 THEN n - 1 - 1 + 1 ELSE 0
      OBVIOUS
    <3>3. QED BY <1>2, <3>1, <3>2
  <2>5. ASSUME NEW i \in 1 .. Len(stack) - 1
        PROVE  stack'[i] = stack[i]
    <3>1. i \in 1 .. Len(stack) - 1 - 1 + 1 /\ 1 + i - 1 = i
      BY <1>2
    <3>2. QED BY <2>3, <3>1
  <2>6. QED BY <2>3, <2>4, <2>5
<1>4. IsSequence(stack')
  BY <1>3, Zenon DEF IsSequence
<1>5. QED BY <1>2, <1>3, <1>4

(* The call that runs returns, and no other one begins to wait.            *)
LEMMA ReturnRoom == RoomInv /\ return => RoomInv'
<1> SUFFICES ASSUME RoomInv, return PROVE RoomInv'
  OBVIOUS
<1>1. stack # << >> /\ stack' = SubSeq(stack, 1, Len(stack) - 1)
  BY DEF return, Pop
<1>2. /\ IsSequence(stack') /\ Len(stack) \in Nat \ {0}
      /\ Len(stack') = Len(stack) - 1
      /\ \A i \in 1 .. Len(stack) - 1 : stack'[i] = stack[i]
  BY <1>1, Popped DEF RoomInv
<1>3. \A i \in 1 .. Len(stack') :
            "free" \in DOMAIN stack'[i] /\ stack'[i].free \in BOOLEAN
  BY <1>2 DEF RoomInv
<1>4. Waiting(stack') \subseteq Waiting(stack)
  BY <1>2 DEF Waiting
<1>5. /\ Cardinality(Waiting(stack')) \in Nat
      /\ Cardinality(Waiting(stack)) \in Nat
      /\ Cardinality(Waiting(stack')) <= Cardinality(Waiting(stack))
  BY <1>2, <1>4, FewerWaiting, WaitingFinite DEF RoomInv
<1>6. UNCHANGED <<fifo, lost>> /\ MaxNest \in Nat /\ Len(fifo) \in Nat
  BY LogAssumption DEF return, serialVars, LogAssumption, RoomInv, IsSequence
<1>7. /\ Len(stack') <= MaxNest
       /\ Len(fifo') + Cardinality(Waiting(stack')) <= MaxNest
  BY <1>2, <1>5, <1>6 DEF RoomInv
<1>8. QED BY <1>2, <1>3, <1>6, <1>7, Fits DEF RoomInv

(* A character leaves the queue. *)
LEMMA SendRoom == RoomInv /\ send => RoomInv'
<1> SUFFICES ASSUME RoomInv, send PROVE RoomInv'
  OBVIOUS
<1>1. fifo # << >> /\ fifo' = Tail(fifo) /\ lost' = lost /\ stack' = stack
  BY DEF send, Com!send
<1>2. PICK S : fifo \in Seq(S)
  BY DEF RoomInv, IsSequence
<1>3. /\ Len(fifo) \in Nat
      /\ fifo' \in Seq(S)
      /\ Len(fifo') = Len(fifo) - 1
  BY <1>1, <1>2
<1>4. IsSequence(fifo')
  BY <1>3, Zenon DEF IsSequence
<1>5. Cardinality(Waiting(stack)) \in Nat /\ MaxNest \in Nat
  BY WaitingFinite, LogAssumption DEF RoomInv, LogAssumption
<1>6. Len(fifo') + Cardinality(Waiting(stack')) <= MaxNest
  BY <1>1, <1>3, <1>5 DEF RoomInv
<1>7. QED BY <1>1, <1>4, <1>6, Fits DEF RoomInv

(* The port is set up, with an empty queue, before anything is logged.     *)
LEMMA SetUpRoom == RoomInv /\ serial_init => RoomInv'
<1> SUFFICES ASSUME RoomInv, serial_init PROVE RoomInv'
  OBVIOUS
<1>1. fifo' = << >> /\ lost' = lost /\ stack' = stack
  BY DEF serial_init, Com!serial_init
<1>2. << >> \in Seq({}) /\ Len(<< >>) = 0
  OBVIOUS
<1>3. IsSequence(<< >>)
  BY <1>2, Zenon DEF IsSequence
<1>4. /\ Cardinality(Waiting(stack)) \in Nat /\ MaxNest \in Nat
      /\ Cardinality(Waiting(stack)) <= Len(stack) /\ Len(stack) \in Nat
      /\ Len(stack) <= MaxNest
  BY WaitingFinite, LogAssumption DEF RoomInv, LogAssumption
<1>5. Len(fifo') + Cardinality(Waiting(stack')) <= MaxNest
  BY <1>1, <1>2, <1>4
<1>6. IsSequence(fifo')
  BY <1>1, <1>3
<1>7. QED BY <1>1, <1>5, <1>6, Fits DEF RoomInv

-----------------------------------------------------------------------------
(* Each step keeps the room. *)
LEMMA StepRoom == RoomInv /\ [Next]_vars => RoomInv'
<1> SUFFICES ASSUME RoomInv, [Next]_vars PROVE RoomInv'
  OBVIOUS
<1>1. CASE serial_init
  BY <1>1, SetUpRoom
<1>2. CASE printk
  BY <1>2, PrintkRoom
<1>3. CASE __vprintf
  BY <1>3, FormatRoom
<1>4. CASE _printk_findoutputs
  BY <1>4, OutputRoom
<1>5. CASE wait
  BY <1>5, WaitRoom
<1>6. CASE write
  BY <1>6, WriteRoom
<1>7. CASE return
  BY <1>7, ReturnRoom
<1>8. CASE send
  BY <1>8, SendRoom
<1>9. CASE UNCHANGED vars
  BY <1>9 DEF vars, serialVars, RoomInv, IsSequence, Waiting
<1>10. QED
  BY <1>1, <1>2, <1>3, <1>4, <1>5, <1>6, <1>7, <1>8, <1>9 DEF Next, Run

(* However deep calls of printk interrupt each other, between the look of  *)
(* one at the status of the port and its write, the port has room for      *)
(* every character, if its queue is as long as the calls are deep          *)
(* (serialdriver.c:50-51).                                                 *)
THEOREM PortHasRoom == Spec => []NothingLost
<1>1. Init => RoomInv
  BY InitRoom, LogAssumption
<1>2. RoomInv => NothingLost
  BY DEF RoomInv, NothingLost
<1>3. QED BY <1>1, <1>2, StepRoom, PTL DEF Spec

-----------------------------------------------------------------------------
(* The parts of a message: part k begins at from[k - 1] and arg[k - 1],    *)
(* and text[k] is what the first k parts mean.                             *)
Strings == Seq(STRING)
Divided(m, n, from, arg, text) ==
    /\ n \in Nat
    /\ from \in [0 .. n -> Nat \ {0}] /\ from[0] = 1
    /\ from[n] = Len(m.fmt) + 1
    /\ arg \in [0 .. n -> Nat \ {0}] /\ arg[0] = 1
    /\ text \in [0 .. n -> Strings] /\ text[0] = << >> /\ text[n] = m.text
    /\ \A k \in 1 .. n : \E shown \in Strings :
        /\ Part(m, from[k - 1], from[k], arg[k - 1], arg[k], shown)
        /\ text[k] = text[k - 1] \o shown
Composed(m) ==
    /\ m.fmt \in Strings /\ Len(m.fmt) < TextSize
    /\ Len(m.args) \in Nat
    /\ \E n, from, arg, text : Divided(m, n, from, arg, text)

(* A part has characters, and what it shows makes the text longer.         *)
LEMMA PartsGrow ==
    ASSUME NEW m, NEW n, NEW from, NEW arg, NEW text,
           Divided(m, n, from, arg, text), NEW k \in 0 .. n
    PROVE  /\ from[k] <= from[n] /\ Len(text[k]) <= Len(text[n])
           /\ k < n => from[k] < from[k + 1] /\ from[k + 1] <= from[n]
<1>1. /\ n \in Nat
      /\ from \in [0 .. n -> Nat \ {0}] /\ text \in [0 .. n -> Strings]
      /\ \A j \in 1 .. n : \E shown \in Strings :
            /\ Part(m, from[j - 1], from[j], arg[j - 1], arg[j], shown)
            /\ text[j] = text[j - 1] \o shown
  BY DEF Divided
<1>2. ASSUME NEW j \in 1 .. n
      PROVE  from[j - 1] < from[j] /\ Len(text[j - 1]) <= Len(text[j])
  <2>1. PICK shown \in Strings :
            /\ Part(m, from[j - 1], from[j], arg[j - 1], arg[j], shown)
            /\ text[j] = text[j - 1] \o shown
    BY <1>1
  <2>2. PICK a \in Nat, b \in Nat, t \in Strings :
            a = from[j - 1] /\ b = from[j] /\ t = text[j - 1]
    <3>1. j \in 0 .. n /\ j - 1 \in 0 .. n
      BY <1>1
    <3>2. QED BY <1>1, <3>1
  <2>3. a < b
    <3>1. b = a + 1 \/ b - a - 1 = 1 \/ b - a - 1 = 2
      BY <2>1, <2>2, Zenon DEF Part, Directive
    <3>2. QED BY <2>2, <3>1
  <2>4. Len(t) <= Len(t \o shown)
    <3>1. Len(t \o shown) = Len(t) + Len(shown)
      BY <2>1, <2>2, ConcatProperties DEF Strings
    <3>2. Len(t) \in Nat /\ Len(shown) \in Nat
      BY <2>1, <2>2, LenProperties DEF Strings
    <3>3. QED BY <3>1, <3>2
  <2>5. QED BY <2>1, <2>2, <2>3, <2>4
<1>3. \A j \in 0 .. n : from[j] \in Nat /\ Len(text[j]) \in Nat
  BY <1>1, LenProperties DEF Strings
<1>4. ASSUME NEW i \in 0 .. n
      PROVE  from[i] <= from[n] /\ Len(text[i]) <= Len(text[n])
  <2> DEFINE S == {d \in 0 .. n - i : /\ from[i] <= from[i + d]
                                      /\ Len(text[i]) <= Len(text[i + d])}
  <2>1. 0 \in S
    BY <1>1, <1>3
  <2>2. ASSUME NEW d \in 1 .. n - i, d - 1 \in S PROVE d \in S
    <3>1. PICK j \in 1 .. n : /\ j = i + d /\ j - 1 = i + (d - 1)
                              /\ j - 1 \in 0 .. n /\ j \in 0 .. n
      <4>1. i + d \in 1 .. n /\ (i + d) - 1 = i + (d - 1)
            /\ i + (d - 1) \in 0 .. n /\ i + d \in 0 .. n
        BY <1>1
      <4>2. QED BY <4>1
    <3>2. from[i] <= from[j - 1] /\ Len(text[i]) <= Len(text[j - 1])
      BY <2>2, <3>1
    <3>3. from[j - 1] < from[j] /\ Len(text[j - 1]) <= Len(text[j])
      BY <1>2
    <3>4. from[i] <= from[j] /\ Len(text[i]) <= Len(text[j])
      BY <1>3, <3>1, <3>2, <3>3, SMTT(20)
    <3>5. d \in 0 .. n - i
      OBVIOUS
    <3>6. QED BY <3>1, <3>4, <3>5
  <2>3. S \in SUBSET (0 .. n - i) /\ n - i \in Nat
    BY <1>1
  <2>4. n - i \in S
    <3> HIDE DEF S
    <3>1. QED BY <2>1, <2>2, <2>3, AllRounds
  <2>5. i + (n - i) = n
    BY <1>1
  <2>6. QED BY <2>4, <2>5
<1>5. ASSUME k < n PROVE from[k] < from[k + 1] /\ from[k + 1] <= from[n]
  <2>1. PICK j \in 1 .. n : j = k + 1 /\ j - 1 = k /\ j \in 0 .. n
    BY <1>1, <1>5
  <2>2. QED BY <1>2, <1>4, <2>1
<1>6. QED BY <1>4, <1>5

(* What fits of a string that was cut and went on is what fits of it all.  *)
LEMMA CutTwice ==
    ASSUME NEW a \in Strings, NEW b \in Strings
    PROVE  /\ P!FirstOf(a, Size) \in Strings
           /\ P!FirstOf(P!FirstOf(a, Size) \o b, Size) = P!FirstOf(a \o b, Size)
           /\ Len(P!FirstOf(a, Size) \o b) >= Size => Len(a \o b) >= Size
<1>1. Size \in Nat
  BY LogAssumption DEF LogAssumption
<1>2. PICK la \in Nat, lb \in Nat : la = Len(a) /\ lb = Len(b)
  BY LenProperties DEF Strings
<1>3. ASSUME NEW s \in Strings
      PROVE  \E cut \in Strings :
                /\ cut = P!FirstOf(s, Size)
                /\ Len(cut) = IF Len(s) <= Size THEN Len(s) ELSE Size
                /\ \A i \in 1 .. Len(cut) : cut[i] = s[i]
  <2>0. Len(s) \in Nat
    BY LenProperties DEF Strings
  <2>1. CASE Len(s) <= Size
    <3>1. P!FirstOf(s, Size) = s
      BY <2>1 DEF P!FirstOf
    <3>2. QED BY <2>1, <3>1
  <2>2. CASE ~ (Len(s) <= Size)
    <3>1. P!FirstOf(s, Size) = SubSeq(s, 1, Size)
      BY <2>2 DEF P!FirstOf
    <3>2. \A i \in 1 .. Size : s[i] \in STRING
      <4>1. \A i \in 1 .. Size : i \in 1 .. Len(s)
        BY <1>1, <2>0, <2>2
      <4>2. QED BY <4>1, ElementOfSeq DEF Strings
    <3>3. /\ SubSeq(s, 1, Size) \in Strings
          /\ Len(SubSeq(s, 1, Size)) = IF 1 <= Size THEN Size - 1 + 1 ELSE 0
          /\ \A i \in 1 .. Size - 1 + 1 : SubSeq(s, 1, Size)[i] = s[1 + i - 1]
      BY <1>1, <3>2, SubSeqProperties DEF Strings
    <3>4. Len(SubSeq(s, 1, Size)) = Size
      BY <1>1, <3>3
    <3>5. \A i \in 1 .. Size : SubSeq(s, 1, Size)[i] = s[i]
      <4>1. \A i \in 1 .. Size : i \in 1 .. Size - 1 + 1 /\ 1 + i - 1 = i
        BY <1>1
      <4>2. QED BY <3>3, <4>1
    <3>6. QED BY <2>2, <3>1, <3>3, <3>4, <3>5
  <2>3. QED BY <2>1, <2>2
<1>4. PICK cut \in Strings :
        /\ cut = P!FirstOf(a, Size)
        /\ Len(cut) = IF la <= Size THEN la ELSE Size
        /\ \A i \in 1 .. Len(cut) : cut[i] = a[i]
  BY <1>2, <1>3
<1>5. CASE la <= Size
  <2>1. P!FirstOf(a, Size) = a
    BY <1>2, <1>5 DEF P!FirstOf
  <2>2. QED BY <1>4, <2>1
<1>6. CASE ~ (la <= Size)
  <2>1. PICK x \in Strings : /\ x = cut \o b /\ Len(x) = Size + lb
                             /\ \A i \in 1 .. Size : x[i] = a[i]
    <3>1. /\ cut \o b \in Strings /\ Len(cut \o b) = Len(cut) + Len(b)
          /\ \A i \in 1 .. Len(cut) + Len(b) : (cut \o b)[i] =
                IF i <= Len(cut) THEN cut[i] ELSE b[i - Len(cut)]
      BY ConcatProperties DEF Strings
    <3>2. Len(cut) = Size
      BY <1>4, <1>6
    <3>3. \A i \in 1 .. Size : (cut \o b)[i] = a[i]
      BY <1>1, <1>2, <1>4, <3>1, <3>2
    <3>4. QED BY <1>2, <3>1, <3>2, <3>3
  <2>2. PICK y \in Strings : /\ y = a \o b /\ Len(y) = la + lb
                             /\ \A i \in 1 .. Size : y[i] = a[i]
    <3>1. /\ a \o b \in Strings /\ Len(a \o b) = Len(a) + Len(b)
          /\ \A i \in 1 .. Len(a) + Len(b) : (a \o b)[i] =
                IF i <= Len(a) THEN a[i] ELSE b[i - Len(a)]
      BY ConcatProperties DEF Strings
    <3>2. \A i \in 1 .. Size : (a \o b)[i] = a[i]
      BY <1>1, <1>2, <1>6, <3>1
    <3>3. QED BY <1>2, <3>1, <3>2
  <2>3. PICK cx \in Strings :
            /\ cx = P!FirstOf(x, Size) /\ Len(cx) = Size
            /\ \A i \in 1 .. Size : cx[i] = a[i]
    <3>1. PICK c \in Strings :
                /\ c = P!FirstOf(x, Size)
                /\ Len(c) = IF Len(x) <= Size THEN Len(x) ELSE Size
                /\ \A i \in 1 .. Len(c) : c[i] = x[i]
      BY <1>3, <2>1
    <3>2. Len(c) = Size
      BY <1>1, <1>2, <2>1, <3>1
    <3>3. QED BY <2>1, <3>1, <3>2
  <2>4. PICK cy \in Strings :
            /\ cy = P!FirstOf(y, Size) /\ Len(cy) = Size
            /\ \A i \in 1 .. Size : cy[i] = a[i]
    <3>1. PICK c \in Strings :
                /\ c = P!FirstOf(y, Size)
                /\ Len(c) = IF Len(y) <= Size THEN Len(y) ELSE Size
                /\ \A i \in 1 .. Len(c) : c[i] = y[i]
      BY <1>3, <2>2
    <3>2. Len(c) = Size
      BY <1>1, <1>2, <1>6, <2>2, <3>1
    <3>3. QED BY <2>2, <3>1, <3>2
  <2>5. cx = cy
    BY <2>3, <2>4, SeqEqual DEF Strings
  <2>6. Len(a \o b) >= Size
    BY <1>1, <1>2, <1>6, <2>2
  <2>7. QED BY <1>4, <2>1, <2>2, <2>3, <2>4, <2>5, <2>6
<1>7. QED BY <1>5, <1>6

-----------------------------------------------------------------------------
(* A call of vsnprintf for a message m.                                    *)
CallsOf(m) ==
    [fmt : {m.fmt}, args : {m.args}, c : Nat, next : Nat, buf : Strings,
     out : Strings, past : BOOLEAN, state : {"on", "done", "astray"}]

(* The invariant: k parts are read.  What they mean is in the buffer of    *)
(* the caller, as far as it fits, and behind that in buf.                  *)
Passed(m, call, n, from, arg, text, k) ==
    /\ k \in 0 .. n /\ k < n
    /\ call.c = from[k] /\ call.next = arg[k] /\ Len(call.buf) < from[k]
    /\ \E flushed \in Strings :
        /\ call.out = P!FirstOf(flushed, Size)
        /\ text[k] = flushed \o call.buf
RightSoFar(m, call) ==
    /\ call \in CallsOf(m) /\ call.state # "astray"
    /\ call.past => Len(m.text) >= Size
    /\ call.state = "done" => call.out = P!FirstOf(m.text, Size)
    /\ call.state = "on" =>
        \E n, from, arg, text :
            /\ Divided(m, n, from, arg, text)
            /\ \E k \in Nat : Passed(m, call, n, from, arg, text, k)

(* __sprint changes nothing of a call but its output. *)
LEMMA SprintIs ==
    ASSUME NEW m, NEW call \in CallsOf(m), NEW str \in Strings
    PROVE  /\ P!sprint(call, str) \in CallsOf(m)
           /\ P!sprint(call, str).c = call.c
           /\ P!sprint(call, str).next = call.next
           /\ P!sprint(call, str).buf = call.buf
           /\ P!sprint(call, str).state = call.state
           /\ P!sprint(call, str).out = P!FirstOf(call.out \o str, Size)
           /\ P!sprint(call, str).past
                <=> call.past \/ Len(call.out \o str) >= Size
<1> DEFINE all == call.out \o str
           r == [call EXCEPT !.out = P!FirstOf(all, Size),
                             !.past = @ \/ Len(all) >= Size]
<1>1. all \in Strings
  BY ConcatProperties DEF CallsOf, Strings
<1>2. P!FirstOf(all, Size) \in Strings
  BY <1>1, CutTwice
<1>3. PICK cut \in Strings, full \in BOOLEAN :
            cut = P!FirstOf(all, Size) /\ full = (Len(all) >= Size)
  <2>1. (Len(all) >= Size) \in BOOLEAN
    <3>1. PICK l \in Nat, s \in Nat : l = Len(all) /\ s = Size
      BY <1>1, LenProperties, LogAssumption DEF Strings, LogAssumption
    <3>2. (l >= s) \in BOOLEAN
      BY SMT
    <3>3. QED BY <3>1, <3>2, Zenon
  <2>2. QED BY <1>2, <2>1, Zenon
<1>4. P!sprint(call, str) = [call EXCEPT !.out = cut, !.past = @ \/ full]
  BY <1>3 DEF P!sprint
<1> HIDE DEF all
<1>5. [call EXCEPT !.out = cut, !.past = @ \/ full] \in CallsOf(m)
  BY <1>3 DEF CallsOf
<1>6. QED BY <1>3, <1>4, <1>5 DEF CallsOf, all

(* The next part, or the end: what is left in buf is printed.              *)
LEMMA GoesOn ==
    ASSUME NEW m, m.fmt \in Strings, NEW n, NEW from, NEW arg, NEW text,
           Divided(m, n, from, arg, text), NEW k \in 1 .. n,
           NEW call \in CallsOf(m), call.state = "on",
           call.next = arg[k], Len(call.buf) < from[k],
           NEW flushed \in Strings, call.out = P!FirstOf(flushed, Size),
           text[k] = flushed \o call.buf,
           call.past => Len(m.text) >= Size
    PROVE  RightSoFar(m, P!Onward(call, from[k]))
<1> DEFINE moved == [call EXCEPT !.c = from[k]]
<1>1. /\ n \in Nat /\ from[k] \in Nat /\ from[n] = Len(m.fmt) + 1
      /\ text[n] = m.text /\ k \in 0 .. n
  <2>1. k \in 0 .. n
    OBVIOUS
  <2>2. QED BY <2>1 DEF Divided
<1>0. Len(m.fmt) \in Nat
  BY LenProperties DEF Strings
<1>2. /\ moved \in CallsOf(m) /\ moved.c = from[k] /\ moved.next = call.next
      /\ moved.buf = call.buf /\ moved.out = call.out /\ moved.past = call.past
      /\ moved.state = "on" /\ moved.fmt = m.fmt
  BY <1>1 DEF CallsOf
<1>3. PICK to \in CallsOf(m) : to = moved
  BY <1>2
<1>4. call.fmt = m.fmt
  BY DEF CallsOf
<1>5. CASE k = n
  <2>1. P!Onward(call, from[k]) = [P!sprint(to, to.buf) EXCEPT !.state = "done"]
    <3>1. ~ (from[k] <= Len(m.fmt)) /\ from[k] = Len(m.fmt) + 1
      BY <1>0, <1>1, <1>5
    <3>2. QED BY <1>3, <1>4, <3>1 DEF P!Onward
  <2> HIDE DEF moved
  <2>2. PICK buf \in Strings : buf = call.buf /\ buf = to.buf
    BY <1>2, <1>3 DEF CallsOf
  <2>3. PICK p \in CallsOf(m) :
            /\ p = P!sprint(to, buf)
            /\ p.out = P!FirstOf(to.out \o buf, Size)
            /\ p.past <=> to.past \/ Len(to.out \o buf) >= Size
    BY SprintIs
  <2> DEFINE end == [p EXCEPT !.state = "done"]
  <2>4. /\ end \in CallsOf(m) /\ end.state = "done"
        /\ end.out = p.out /\ end.past = p.past
    BY DEF CallsOf
  <2>5. end.out = P!FirstOf(m.text, Size)
    <3>1. P!FirstOf(to.out \o buf, Size) = P!FirstOf(flushed \o buf, Size)
      BY <1>2, <1>3, <2>2, CutTwice
    <3>2. flushed \o buf = m.text
      BY <1>1, <1>5, <2>2
    <3>3. QED BY <2>3, <2>4, <3>1, <3>2
  <2>6. end.past => Len(m.text) >= Size
    <3>1. Len(to.out \o buf) >= Size => Len(flushed \o buf) >= Size
      BY <1>2, <1>3, <2>2, CutTwice
    <3>2. flushed \o buf = m.text
      BY <1>1, <1>5, <2>2
    <3>3. QED BY <1>2, <1>3, <2>3, <2>4, <3>1, <3>2
  <2> HIDE DEF end
  <2>7. RightSoFar(m, end)
    BY <2>4, <2>5, <2>6 DEF RightSoFar
  <2>8. P!Onward(call, from[k]) = end
    BY <2>1, <2>2, <2>3 DEF end
  <2>9. QED BY <2>7, <2>8
<1>6. CASE k # n
  <2>1. k < n /\ from[k] < from[k + 1] /\ from[k + 1] <= from[n]
    BY <1>1, <1>6, PartsGrow
  <2>2. from[k] <= Len(m.fmt)
    <3>1. from[k + 1] \in Nat /\ from[n] \in Nat
      <4>1. k + 1 \in 0 .. n /\ n \in 0 .. n
        BY <1>1, <2>1
      <4>2. QED BY <4>1 DEF Divided
    <3>2. PICK a \in Nat, b \in Nat, e \in Nat, l \in Nat :
                /\ a = from[k] /\ b = from[k + 1] /\ e = from[n]
                /\ l = Len(m.fmt)
      BY <1>0, <1>1, <3>1
    <3>3. a < b /\ b <= e /\ e = l + 1
      BY <1>1, <2>1, <3>2
    <3>4. a <= l
      BY <3>3
    <3>5. QED BY <3>2, <3>4
  <2>3. P!Onward(call, from[k]) = to
    BY <1>3, <1>4, <2>2 DEF P!Onward
  <2> HIDE DEF moved
  <2>4. Passed(m, to, n, from, arg, text, k)
    BY <1>1, <1>2, <1>3, <2>1 DEF Passed
  <2>5. RightSoFar(m, to)
    BY <1>1, <1>2, <1>3, <2>4 DEF RightSoFar
  <2>6. QED BY <2>3, <2>5
<1>7. QED BY <1>5, <1>6

(* A call begins at the first part.                                        *)
LEMMA BeginsRight ==
    ASSUME NEW m, Composed(m)
    PROVE  RightSoFar(m, P!vsnprintf(m.fmt, m.args))
<1> DEFINE call == P!vsnprintf(m.fmt, m.args)
<1>1. call = [fmt |-> m.fmt, args |-> m.args, c |-> 1, next |-> 1,
              buf |-> << >>, out |-> << >>, past |-> FALSE,
              state |-> IF m.fmt = << >> THEN "done" ELSE "on"]
  BY DEF P!vsnprintf
<1>2. << >> \in Strings /\ Len(<< >>) = 0 /\ << >> \o << >> = << >>
  BY EmptySeq, ConcatEmptySeq DEF Strings
<1>3. P!FirstOf(<< >>, Size) = << >>
  BY <1>2, LogAssumption DEF P!FirstOf, LogAssumption
<1> HIDE DEF call
<1>4. call \in CallsOf(m)
  <2>1. (IF m.fmt = << >> THEN "done" ELSE "on") \in {"on", "done", "astray"}
    OBVIOUS
  <2>2. PICK s \in {"on", "done", "astray"} :
            s = IF m.fmt = << >> THEN "done" ELSE "on"
    BY <2>1
  <2>3. QED BY <1>1, <1>2, <2>2 DEF CallsOf
<1>5. PICK n, from, arg, text : Divided(m, n, from, arg, text)
  BY DEF Composed
<1>6. /\ n \in Nat /\ from[0] = 1 /\ from[n] = Len(m.fmt) + 1 /\ arg[0] = 1
      /\ text[0] = << >> /\ text[n] = m.text
      /\ from \in [0 .. n -> Nat \ {0}]
  BY <1>5 DEF Divided
<1>7. Len(m.fmt) \in Nat /\ (m.fmt # << >> => Len(m.fmt) # 0)
      /\ (m.fmt = << >> => Len(m.fmt) = 0)
  BY EmptySeq, LenProperties DEF Composed, Strings
<1>8. n # 0 => from[n] > 1
  <2>1. SUFFICES ASSUME n # 0 PROVE from[n] > 1
    OBVIOUS
  <2>2. 0 \in 0 .. n /\ 0 < n /\ 0 + 1 = 1 /\ 1 \in 0 .. n /\ n \in 0 .. n
    BY <1>6, <2>1
  <2>3. from[0] < from[1] /\ from[1] <= from[n]
    BY <1>5, <2>2, PartsGrow
  <2>4. from[1] \in Nat /\ from[n] \in Nat
    BY <1>6, <2>2
  <2>5. QED BY <1>6, <2>3, <2>4
<1>9. n = 0 <=> m.fmt = << >>
  BY <1>6, <1>7, <1>8
<1>10. CASE m.fmt = << >>
  BY <1>1, <1>3, <1>4, <1>6, <1>9, <1>10 DEF RightSoFar, call
<1>11. CASE m.fmt # << >>
  <2>1. Passed(m, call, n, from, arg, text, 0)
    BY <1>1, <1>2, <1>3, <1>6, <1>9, <1>11, SMTT(30) DEF Passed
  <2>2. RightSoFar(m, call)
    BY <1>1, <1>4, <1>5, <1>11, <2>1 DEF RightSoFar
  <2>3. QED BY <2>2 DEF call
<1>12. QED BY <1>10, <1>11

(* A call that goes on stands at the beginning of a part. *)
Reads(m, call, n, from, arg, text, k) ==
    /\ Divided(m, n, from, arg, text)
    /\ Passed(m, call, n, from, arg, text, k)
    /\ k + 1 \in 1 .. n /\ k \in 0 .. n /\ k + 1 \in 0 .. n
    /\ from[k] \in Nat /\ from[k + 1] \in Nat /\ arg[k] \in Nat
    /\ text[k] \in Strings
    /\ from[k] < from[k + 1] /\ from[k + 1] <= Len(m.fmt) + 1
    /\ \E shown \in Strings :
        /\ Part(m, from[k], from[k + 1], arg[k], arg[k + 1], shown)
        /\ text[k + 1] = text[k] \o shown
LEMMA NextPart ==
    ASSUME NEW m, Composed(m), NEW call, RightSoFar(m, call), call.state = "on"
    PROVE  \E n, from, arg, text : \E k \in Nat :
                Reads(m, call, n, from, arg, text, k)
<1>1. PICK n, from, arg, text :
            /\ Divided(m, n, from, arg, text)
            /\ \E k \in Nat : Passed(m, call, n, from, arg, text, k)
  BY DEF RightSoFar
<1>2. PICK k \in Nat : Passed(m, call, n, from, arg, text, k)
  BY <1>1
<1>3. n \in Nat /\ k < n
  BY <1>1, <1>2 DEF Divided, Passed
<1>4. PICK j \in 1 .. n : j = k + 1 /\ j - 1 = k /\ k \in 0 .. n /\ j \in 0 .. n
  BY <1>2, <1>3
<1>5. from[k] \in Nat /\ from[j] \in Nat /\ arg[k] \in Nat /\ text[k] \in Strings
  BY <1>1, <1>4 DEF Divided
<1>6. from[k] < from[k + 1] /\ from[k + 1] <= from[n]
  BY <1>1, <1>3, <1>4, PartsGrow
<1>7. from[n] = Len(m.fmt) + 1
  BY <1>1 DEF Divided
<1>8. \E shown \in Strings :
            /\ Part(m, from[j - 1], from[j], arg[j - 1], arg[j], shown)
            /\ text[j] = text[j - 1] \o shown
  BY <1>1 DEF Divided
<1>9. Reads(m, call, n, from, arg, text, k)
  BY <1>1, <1>2, <1>4, <1>5, <1>6, <1>7, <1>8 DEF Reads
<1>10. QED BY <1>9

(* A part that is a character. *)
LEMMA ReadsChar ==
    ASSUME NEW m, Composed(m), NEW call, RightSoFar(m, call),
           call.state = "on", m.fmt[call.c] # "%"
    PROVE  RightSoFar(m, P!text_char(call))
<1>0. PICK n, from, arg, text : \E k \in Nat :
            Reads(m, call, n, from, arg, text, k)
  BY NextPart
<1>1. PICK k \in Nat :
            /\ Divided(m, n, from, arg, text)
            /\ Passed(m, call, n, from, arg, text, k)
            /\ k + 1 \in 1 .. n /\ k \in 0 .. n /\ k + 1 \in 0 .. n
            /\ from[k] \in Nat /\ from[k + 1] \in Nat /\ arg[k] \in Nat
            /\ text[k] \in Strings
            /\ from[k] < from[k + 1] /\ from[k + 1] <= Len(m.fmt) + 1
            /\ \E shown \in Strings :
                /\ Part(m, from[k], from[k + 1], arg[k], arg[k + 1], shown)
                /\ text[k + 1] = text[k] \o shown
  BY <1>0 DEF Reads
<1>2. PICK shown \in Strings :
            /\ Part(m, from[k], from[k + 1], arg[k], arg[k + 1], shown)
            /\ text[k + 1] = text[k] \o shown
  BY <1>1
<1>3. PICK flushed \in Strings :
            /\ call.c = from[k] /\ call.next = arg[k] /\ Len(call.buf) < from[k]
            /\ call.out = P!FirstOf(flushed, Size)
            /\ text[k] = flushed \o call.buf
  BY <1>1 DEF Passed
<1>4. /\ call \in CallsOf(m) /\ call.fmt = m.fmt
      /\ call.past => Len(m.text) >= Size
  BY DEF RightSoFar, CallsOf
<1>5. PICK buf \in Strings, l \in Nat : buf = call.buf /\ l = Len(buf)
  BY <1>4, LenProperties DEF CallsOf, Strings
<1>6. PICK len \in Nat, f0 \in Nat, f1 \in Nat :
            /\ len = Len(m.fmt) /\ len < TextSize /\ TextSize \in Nat
            /\ f0 = from[k] /\ f1 = from[k + 1]
            /\ f0 < f1 /\ f1 <= len + 1 /\ l < f0 /\ call.c = f0
  <2>1. Len(m.fmt) \in Nat /\ Len(m.fmt) < TextSize
    BY LenProperties DEF Composed, Strings
  <2>2. TextSize \in Nat
    BY LogAssumption DEF LogAssumption
  <2>3. QED BY <1>1, <1>3, <1>5, <2>1, <2>2
<1>7. /\ f1 = f0 + 1 /\ arg[k + 1] = arg[k] /\ shown = <<m.fmt[f0]>>
  BY <1>2, <1>6 DEF Part
<1>8. PICK ch \in STRING : ch = m.fmt[f0]
  <2>1. f0 \in 1 .. Len(m.fmt)
    BY <1>6
  <2>2. m.fmt \in Seq(STRING)
    BY DEF Composed, Strings
  <2>3. QED BY <2>1, <2>2, ElementOfSeq
<1>9. PICK more \in Strings :
            /\ more = Append(buf, ch) /\ Len(more) = l + 1
            /\ text[k + 1] = flushed \o more
  <2>1. /\ Append(buf, ch) \in Strings /\ Len(Append(buf, ch)) = l + 1
        /\ Append(buf, ch) = buf \o <<ch>>
    BY <1>5, AppendProperties, AppendIsConcat DEF Strings
  <2>2. <<ch>> \in Strings /\ shown = <<ch>>
    BY <1>7, <1>8 DEF Strings
  <2>3. (flushed \o buf) \o <<ch>> = flushed \o (buf \o <<ch>>)
    BY <2>2, ConcatAssociative DEF Strings
  <2>4. QED BY <1>2, <1>3, <1>5, <2>1, <2>2, <2>3
<1> DEFINE longer == [call EXCEPT !.buf = more]
<1>10. /\ longer \in CallsOf(m) /\ longer.state = "on"
       /\ longer.next = call.next /\ longer.buf = more
       /\ longer.out = call.out /\ longer.past = call.past
  BY <1>4 DEF CallsOf
<1>11. P!text_char(call) = P!Onward(longer, f1)
  <2>1. ~ (Len(call.buf) + 1 >= TextSize)
    BY <1>5, <1>6
  <2>2. Append(call.buf, call.fmt[call.c]) = more
    BY <1>4, <1>5, <1>6, <1>8, <1>9
  <2>3. [call EXCEPT !.buf = Append(@, call.fmt[call.c])] = longer
    BY <2>2
  <2> HIDE DEF longer
  <2>4. QED BY <1>6, <1>7, <2>1, <2>3 DEF P!text_char
<1>12. PICK next \in CallsOf(m) : next = longer
  BY <1>10
<1> HIDE DEF longer
<1>13. RightSoFar(m, P!Onward(next, from[k + 1]))
  <2>1. m.fmt \in Strings
    BY DEF Composed
  <2>2. Len(next.buf) < from[k + 1]
    BY <1>6, <1>7, <1>9, <1>10, <1>12
  <2>3. /\ next.state = "on" /\ next.next = arg[k + 1]
        /\ next.out = P!FirstOf(flushed, Size)
        /\ text[k + 1] = flushed \o next.buf
        /\ next.past => Len(m.text) >= Size
    BY <1>3, <1>4, <1>7, <1>9, <1>10, <1>12
  <2>4. QED BY <1>1, <1>12, <2>1, <2>2, <2>3, GoesOn
<1>14. QED BY <1>6, <1>11, <1>12, <1>13

-----------------------------------------------------------------------------
(* What a conversion shows, and of how many letters it is.                 *)
LEMMA ConversionIs ==
    ASSUME NEW ch1, NEW ch2, NEW letters \in Nat, NEW a,
           NEW shown \in Strings, NEW skipped \in Int,
           Directive(ch1, ch2, letters, a, shown)
    PROVE  /\ P!Conversion(ch1, ch2, skipped, a)
                = [str |-> shown, length |-> letters, takes |-> TRUE]
           /\ ch1 \notin P!Low /\ ch1 # P!Nul
           /\ letters = 1 \/ (letters = 2 /\ ch2 # P!Nul)
<1>1. \/ letters = 1 /\ OfInt(ch1, a % 2^IntBits, shown)
      \/ /\ letters = 1 /\ ch1 \in {"b", "B"}
         /\ shown = <<"0", "b">> \o P!IntBinary(ch1, a)
      \/ letters = 1 /\ ch1 \in {"c", "s"} /\ shown = a
      \/ /\ letters = 1 /\ ch1 = "l" /\ ch2 \notin LongLetters
         /\ shown = P!ltoa(a, 10)
      \/ /\ letters = 2 /\ ch1 = "l" /\ ch2 \in {"i", "d", "u"}
         /\ shown = P!ltoa(a, 10)
      \/ /\ letters = 2 /\ ch1 = "l" /\ ch2 = "X"
         /\ shown = P!ltoa(a, 16)
      \/ /\ letters = 2 /\ ch1 = "l" /\ ch2 \in {"b", "B"}
         /\ shown = <<"0", "b">> \o P!LongBinary(a)
  BY Zenon DEF Directive, P!ltoa
<1>2. ASSUME OfInt(ch1, a % 2^IntBits, shown)
      PROVE  \/ ch1 \in {"i", "d", "u"} /\ shown = P!itoa(a, 10)
             \/ ch1 = "x" /\ shown = <<"0", "x">> \o P!itoa(a, 16)
  BY <1>2, Zenon DEF OfInt, Signed, P!itoa, P!AsInt
<1>3. CASE letters = 1 /\ OfInt(ch1, a % 2^IntBits, shown)
  <2>1. CASE ch1 \in {"i", "d", "u"} /\ shown = P!itoa(a, 10)
    <3>1. P!Conversion(ch1, ch2, skipped, a) = P!Shown(P!itoa(a, 10), 1)
      BY <2>1 DEF P!Conversion
    <3>2. QED BY <1>3, <2>1, <3>1 DEF P!Shown, P!Low, P!Nul
  <2>2. CASE ch1 = "x" /\ shown = <<"0", "x">> \o P!itoa(a, 16)
    <3>1. P!Conversion(ch1, ch2, skipped, a)
            = P!Shown(<<"0", "x">> \o P!itoa(a, 16), 1)
      BY <2>2 DEF P!Conversion
    <3>2. QED BY <1>3, <2>2, <3>1 DEF P!Shown, P!Low, P!Nul
  <2>3. QED BY <1>2, <1>3, <2>1, <2>2
<1>4. CASE /\ letters = 1 /\ ch1 \in {"b", "B"}
           /\ shown = <<"0", "b">> \o P!IntBinary(ch1, a)
  <2>1. P!Conversion(ch1, ch2, skipped, a) = P!Shown(<<"0", "b">> \o P!IntBinary(ch1, a), 1)
    BY <1>4 DEF P!Conversion
  <2>2. QED BY <1>4, <2>1 DEF P!Shown, P!Low, P!Nul
<1>5. CASE letters = 1 /\ ch1 \in {"c", "s"} /\ shown = a
  <2>1. P!Conversion(ch1, ch2, skipped, a) = P!Shown(a, 1)
    BY <1>5 DEF P!Conversion
  <2>2. QED BY <1>5, <2>1 DEF P!Shown, P!Low, P!Nul
<1>6. CASE /\ letters = 1 /\ ch1 = "l" /\ ch2 \notin LongLetters
           /\ shown = P!ltoa(a, 10)
  <2>1. P!Conversion(ch1, ch2, skipped, a) = P!LongConversion(ch2, skipped, a)
    BY <1>6 DEF P!Conversion
  <2>2. P!LongConversion(ch2, skipped, a) = P!Shown(P!ltoa(a, 10), 1)
    <3>1. /\ ch2 \notin {"b", "B"} /\ ch2 \notin {"x", "X"} /\ ch2 # "f"
          /\ ch2 \notin {"u", "d", "i"}
      BY <1>6 DEF LongLetters
    <3>2. QED BY <3>1 DEF P!LongConversion
  <2>3. QED BY <1>6, <2>1, <2>2 DEF P!Shown, P!Low, P!Nul
<1>7. CASE /\ letters = 2 /\ ch1 = "l" /\ ch2 \in {"i", "d", "u"}
           /\ shown = P!ltoa(a, 10)
  <2>1. P!Conversion(ch1, ch2, skipped, a) = P!LongConversion(ch2, skipped, a)
    BY <1>7 DEF P!Conversion
  <2>2. P!LongConversion(ch2, skipped, a) = P!Shown(P!ltoa(a, 10), 2)
    BY <1>7 DEF P!LongConversion
  <2>3. QED BY <1>7, <2>1, <2>2 DEF P!Shown, P!Low, P!Nul
<1>8. CASE /\ letters = 2 /\ ch1 = "l" /\ ch2 = "X"
           /\ shown = P!ltoa(a, 16)
  <2>1. P!Conversion(ch1, ch2, skipped, a) = P!LongConversion(ch2, skipped, a)
    BY <1>8 DEF P!Conversion
  <2>2. P!LongConversion(ch2, skipped, a) = P!Shown(P!ltoa(a, 16), 2)
    BY <1>8 DEF P!LongConversion
  <2>3. QED BY <1>8, <2>1, <2>2 DEF P!Shown, P!Low, P!Nul
<1>9. CASE /\ letters = 2 /\ ch1 = "l" /\ ch2 \in {"b", "B"}
           /\ shown = <<"0", "b">> \o P!LongBinary(a)
  <2>1. P!Conversion(ch1, ch2, skipped, a) = P!LongConversion(ch2, skipped, a)
    BY <1>9 DEF P!Conversion
  <2>2. P!LongConversion(ch2, skipped, a)
            = P!Shown(<<"0", "b">> \o P!LongBinary(a), 2)
    BY <1>9 DEF P!LongConversion
  <2>3. QED BY <1>9, <2>1, <2>2 DEF P!Shown, P!Low, P!Nul
<1>10. QED BY <1>1, <1>3, <1>4, <1>5, <1>6, <1>7, <1>8, <1>9

(* The numbers between two others. *)
LEMMA Between ==
    \A x, y \in Nat : x < y => y - x - 1 \in Nat /\ x + (y - x - 1) + 1 = y
OBVIOUS

(* A conversion whose letters follow the percent sign prints what is kept, *)
(* then its argument, and goes on behind its letters.                      *)
Converted(call, shown) ==
    [P!sprint([P!sprint(call, call.buf) EXCEPT !.buf = << >>], shown)
        EXCEPT !.next = @ + 1]
LEMMA ConvertIs ==
    ASSUME NEW m, m.fmt \in Strings, Len(m.fmt) < TextSize,
           NEW call \in CallsOf(m), NEW c \in Nat, call.c = c,
           c <= Len(m.fmt), m.fmt[c] = "%",
           NEW a \in Nat, call.next = a, Len(m.args) \in Nat,
           a <= Len(m.args), NEW letters \in Nat, NEW shown \in Strings,
           Directive(CharAt(m.fmt, c + 1), CharAt(m.fmt, c + 2), letters,
                     m.args[a], shown)
    PROVE  P!convert(call) = P!Onward(Converted(call, shown), c + letters + 1)
<1>0. ASSUME NEW skipped \in Int
      PROVE  P!Conversion(CharAt(m.fmt, c + 1), CharAt(m.fmt, c + 2),
                          skipped, m.args[a])
                = [str |-> shown, length |-> letters, takes |-> TRUE]
  <2>1. PICK ch1, ch2, b : /\ ch1 = CharAt(m.fmt, c + 1)
                           /\ ch2 = CharAt(m.fmt, c + 2) /\ b = m.args[a]
    OBVIOUS
  <2>2. Directive(ch1, ch2, letters, b, shown)
    BY <2>1
  <2>3. P!Conversion(ch1, ch2, skipped, b)
            = [str |-> shown, length |-> letters, takes |-> TRUE]
    BY <2>2, ConversionIs
  <2>4. QED BY <2>1, <2>3
<1> DEFINE least == CHOOSE i \in P!Letters(call) :
                        \A k \in P!Letters(call) : i <= k
           taken == IF call.next <= Len(call.args)
                    THEN call.args[call.next] ELSE 0
           conv == P!Conversion(P!At(call, least), P!At(call, least + 1),
                                least - call.c, taken)
           kept == [P!sprint(call, call.buf) EXCEPT !.buf = << >>]
<1>1. call.fmt = m.fmt /\ call.args = m.args
  BY DEF CallsOf
<1>2. PICK len \in Nat : len = Len(m.fmt)
  BY LenProperties DEF Strings
<1>3. CharAt(m.fmt, c + 1) \notin P!Low /\ CharAt(m.fmt, c + 1) # P!Nul
  <2>1. 0 \in Int
    OBVIOUS
  <2>2. QED BY <2>1, ConversionIs
<1>4. c + 1 <= len /\ m.fmt[c + 1] \notin P!Low
  BY <1>2, <1>3 DEF CharAt
<1>5. P!Letters(call) = {j \in c .. len : m.fmt[j] \notin P!Low}
  BY <1>1, <1>2 DEF P!Letters
<1>6. c + 1 \in P!Letters(call) /\ \A j \in P!Letters(call) : c + 1 <= j
  <2>1. c \notin P!Letters(call)
    BY <1>5 DEF P!Low
  <2>2. c + 1 \in c .. len
    BY <1>4
  <2>3. ASSUME NEW j \in P!Letters(call) PROVE c + 1 <= j
    <3>1. j \in c .. len /\ j # c
      BY <1>5, <2>1
    <3>2. QED BY <3>1
  <2>4. QED BY <1>4, <1>5, <2>2, <2>3
<1>7. least = c + 1
  <2>1. least \in P!Letters(call) /\ \A j \in P!Letters(call) : least <= j
    BY <1>6
  <2> HIDE DEF least
  <2>2. least \in c .. len /\ c + 1 <= least /\ least <= c + 1
    BY <1>5, <1>6, <2>1
  <2>3. QED BY <2>2
<1>8. taken = m.args[a]
  BY <1>1
<1>9. conv = [str |-> shown, length |-> letters, takes |-> TRUE]
  <2>1. /\ P!At(call, least) = CharAt(m.fmt, c + 1)
        /\ P!At(call, least + 1) = CharAt(m.fmt, c + 2)
    <3>1. (c + 1) + 1 = c + 2
      OBVIOUS
    <3> HIDE DEF least
    <3>2. QED BY <1>1, <1>7, <3>1 DEF P!At, CharAt
  <2> HIDE DEF least, taken
  <2>2. conv = P!Conversion(CharAt(m.fmt, c + 1), CharAt(m.fmt, c + 2),
                            least - call.c, m.args[a])
    BY <1>8, <2>1
  <2> HIDE DEF conv
  <2>3. least - call.c \in Int
    BY <1>7
  <2>4. QED BY <1>0, <2>2, <2>3
<1>10. P!convert(call) =
            IF \/ P!Letters(call) = {}
               \/ Len(call.fmt) > TextSize
               \/ conv.takes /\ call.next > Len(call.args)
            THEN [kept EXCEPT !.state = "astray"]
            ELSE P!Onward([P!sprint(kept, conv.str) EXCEPT
                             !.next = IF conv.takes THEN @ + 1 ELSE @],
                          call.c + conv.length + 1)
  BY DEF P!convert
<1> HIDE DEF conv, kept, least, taken
<1>11. conv.str = shown /\ conv.length = letters /\ conv.takes = TRUE
  BY <1>9
<1>12. ~ (\/ P!Letters(call) = {}
          \/ Len(call.fmt) > TextSize
          \/ conv.takes /\ call.next > Len(call.args))
  <2>1. ~ (Len(call.fmt) > TextSize)
    BY <1>1, <1>2, LogAssumption DEF LogAssumption
  <2>2. ~ (call.next > Len(call.args))
    BY <1>1
  <2>3. QED BY <1>6, <2>1, <2>2
<1>13. P!convert(call) =
            P!Onward([P!sprint(kept, shown) EXCEPT !.next = @ + 1],
                     c + letters + 1)
  <2>1. [P!sprint(kept, conv.str) EXCEPT
            !.next = IF conv.takes THEN @ + 1 ELSE @]
            = [P!sprint(kept, shown) EXCEPT !.next = @ + 1]
    BY <1>11
  <2>2. call.c + conv.length + 1 = c + letters + 1
    BY <1>11
  <2>3. QED BY <1>10, <1>12, <2>1, <2>2
<1>14. QED BY <1>13 DEF kept, Converted

(* A part that is a conversion. *)
LEMMA ReadsConversion ==
    ASSUME NEW m, Composed(m), NEW call, RightSoFar(m, call),
           call.state = "on", m.fmt[call.c] = "%"
    PROVE  RightSoFar(m, P!convert(call))
<1>0. PICK n, from, arg, text : \E k \in Nat :
            Reads(m, call, n, from, arg, text, k)
  BY NextPart
<1>1. PICK k \in Nat :
            /\ Divided(m, n, from, arg, text)
            /\ Passed(m, call, n, from, arg, text, k)
            /\ k + 1 \in 1 .. n /\ k \in 0 .. n /\ k + 1 \in 0 .. n
            /\ from[k] \in Nat /\ from[k + 1] \in Nat /\ arg[k] \in Nat
            /\ text[k] \in Strings
            /\ from[k] < from[k + 1] /\ from[k + 1] <= Len(m.fmt) + 1
            /\ \E shown \in Strings :
                /\ Part(m, from[k], from[k + 1], arg[k], arg[k + 1], shown)
                /\ text[k + 1] = text[k] \o shown
  BY <1>0 DEF Reads
<1>2. PICK shown \in Strings :
            /\ Part(m, from[k], from[k + 1], arg[k], arg[k + 1], shown)
            /\ text[k + 1] = text[k] \o shown
  BY <1>1
<1>3. PICK flushed \in Strings :
            /\ call.c = from[k] /\ call.next = arg[k] /\ Len(call.buf) < from[k]
            /\ call.out = P!FirstOf(flushed, Size)
            /\ text[k] = flushed \o call.buf
  BY <1>1 DEF Passed
<1>4. /\ call \in CallsOf(m) /\ call.fmt = m.fmt
      /\ call.past => Len(m.text) >= Size
  BY DEF RightSoFar, CallsOf
<1>5. PICK buf \in Strings : buf = call.buf
  BY <1>4 DEF CallsOf
<1>6. PICK f0 \in Nat, f1 \in Nat, len \in Nat, a \in Nat :
            /\ f0 = from[k] /\ f1 = from[k + 1] /\ len = Len(m.fmt)
            /\ len < TextSize /\ f0 < f1 /\ f1 <= len + 1
            /\ call.c = f0 /\ a = arg[k] /\ call.next = a
  <2>1. Len(m.fmt) \in Nat /\ Len(m.fmt) < TextSize
    BY LenProperties DEF Composed, Strings
  <2>2. QED BY <1>1, <1>3, <2>1
<1>7. /\ a <= Len(m.args) /\ arg[k + 1] = a + 1
      /\ Directive(CharAt(m.fmt, f0 + 1), CharAt(m.fmt, f0 + 2), f1 - f0 - 1,
                   m.args[a], shown)
  BY <1>2, <1>6 DEF Part
<1>8. PICK letters \in Nat : letters = f1 - f0 - 1 /\ f0 + letters + 1 = f1
  <2>1. f0 < f1
    BY <1>6
  <2>2. f1 - f0 - 1 \in Nat /\ f0 + (f1 - f0 - 1) + 1 = f1
    BY <2>1, Between
  <2>3. QED BY <2>2
<1> DEFINE kept == [P!sprint(call, buf) EXCEPT !.buf = << >>]
           further == [P!sprint(kept, shown) EXCEPT !.next = @ + 1]
<1>9. P!convert(call) = P!Onward(further, f1)
  <2>1. m.fmt \in Strings /\ Len(m.fmt) < TextSize /\ Len(m.args) \in Nat
    BY DEF Composed
  <2>2. f0 <= Len(m.fmt) /\ m.fmt[f0] = "%"
    BY <1>6
  <2>3. Directive(CharAt(m.fmt, f0 + 1), CharAt(m.fmt, f0 + 2), letters,
                  m.args[a], shown)
    BY <1>7, <1>8
  <2>4. call \in CallsOf(m) /\ call.c = f0 /\ call.next = a
    BY <1>4, <1>6
  <2>5. a <= Len(m.args)
    BY <1>7
  <2>6. P!convert(call) = P!Onward(Converted(call, shown), f0 + letters + 1)
    BY <2>1, <2>2, <2>3, <2>4, <2>5, ConvertIs
  <2>7. Converted(call, shown) = further
    BY <1>5 DEF Converted
  <2> HIDE DEF further, kept
  <2>8. QED BY <1>8, <2>6, <2>7
<1>10. PICK p \in CallsOf(m) :
            /\ p = P!sprint(call, buf) /\ p.state = call.state
            /\ p.next = call.next
            /\ p.out = P!FirstOf(call.out \o buf, Size)
            /\ p.past <=> call.past \/ Len(call.out \o buf) >= Size
  BY <1>4, SprintIs
<1>11. << >> \in Strings /\ Len(<< >>) = 0
  BY EmptySeq DEF Strings
<1>12. PICK q \in CallsOf(m) :
            /\ q = kept /\ q.buf = << >> /\ q.state = "on" /\ q.next = a
            /\ q.out = p.out /\ q.past = p.past
  <2>1. PICK q \in CallsOf(m) : q = [p EXCEPT !.buf = << >>]
    BY <1>11 DEF CallsOf
  <2>2. q = kept
    BY <1>10, <2>1
  <2> HIDE DEF kept
  <2>3. QED BY <1>6, <1>10, <2>1, <2>2 DEF CallsOf
<1>13. PICK r \in CallsOf(m) :
            /\ r = P!sprint(q, shown) /\ r.state = "on" /\ r.next = a
            /\ r.buf = << >>
            /\ r.out = P!FirstOf(q.out \o shown, Size)
            /\ r.past <=> q.past \/ Len(q.out \o shown) >= Size
  <2> HIDE DEF kept, further
  <2>1. PICK r \in CallsOf(m) :
            /\ r = P!sprint(q, shown) /\ r.state = q.state
            /\ r.next = q.next /\ r.buf = q.buf
            /\ r.out = P!FirstOf(q.out \o shown, Size)
            /\ r.past <=> q.past \/ Len(q.out \o shown) >= Size
    BY SprintIs
  <2>2. QED BY <1>12, <2>1
<1>14. PICK s \in CallsOf(m) :
            /\ s = further /\ s.buf = << >> /\ s.state = "on"
            /\ s.next = a + 1 /\ s.out = r.out /\ s.past = r.past
  <2>0. PICK b \in Nat : b = a + 1
    OBVIOUS
  <2>1. PICK s \in CallsOf(m) : s = [r EXCEPT !.next = b]
    BY DEF CallsOf
  <2> HIDE DEF kept
  <2>2. s = further
    BY <1>12, <1>13, <2>0, <2>1
  <2> HIDE DEF further
  <2>3. QED BY <1>13, <2>0, <2>1, <2>2 DEF CallsOf
<1> HIDE DEF further, kept
<1>15. PICK t0 \in Strings, t1 \in Strings :
            /\ t0 = text[k] /\ t1 = text[k + 1] /\ t0 = flushed \o buf
            /\ t1 = t0 \o shown /\ t1 = t1 \o << >>
  <2>1. text[k] \o shown \in Strings
    BY <1>1, ConcatProperties DEF Strings
  <2>2. text[k + 1] \o << >> = text[k + 1]
    BY <1>2, <2>1, ConcatEmptySeq DEF Strings
  <2>3. QED BY <1>1, <1>2, <1>3, <1>5, <2>1, <2>2
<1>16. q.out = P!FirstOf(t0, Size) /\ s.out = P!FirstOf(t1, Size)
  <2>1. P!FirstOf(call.out \o buf, Size) = P!FirstOf(flushed \o buf, Size)
    BY <1>3, CutTwice
  <2>2. q.out = P!FirstOf(t0, Size)
    BY <1>10, <1>12, <1>15, <2>1
  <2>3. P!FirstOf(P!FirstOf(t0, Size) \o shown, Size) = P!FirstOf(t0 \o shown, Size)
    BY CutTwice
  <2>4. QED BY <1>13, <1>14, <1>15, <2>2, <2>3
<1>17. s.past => Len(m.text) >= Size
  <2>1. /\ Len(t0) <= Len(m.text) /\ Len(t1) <= Len(m.text)
        /\ Len(t0) \in Nat /\ Len(t1) \in Nat /\ Len(m.text) \in Nat
    <3>1. text[n] = m.text /\ text[n] \in Strings
      <4>1. n \in 0 .. n
        BY <1>1 DEF Divided
      <4>2. QED BY <1>1, <4>1 DEF Divided
    <3>2. Len(text[k]) <= Len(text[n]) /\ Len(text[k + 1]) <= Len(text[n])
      BY <1>1, PartsGrow
    <3>3. Len(t0) \in Nat /\ Len(t1) \in Nat /\ Len(m.text) \in Nat
      BY <3>1, LenProperties DEF Strings
    <3>4. QED BY <1>15, <3>1, <3>2, <3>3
  <2>2. Size \in Nat
    BY LogAssumption DEF LogAssumption
  <2>3. Len(call.out \o buf) >= Size => Len(t0) >= Size
    BY <1>3, <1>15, CutTwice
  <2>4. Len(q.out \o shown) >= Size => Len(t1) >= Size
    BY <1>15, <1>16, CutTwice
  <2>5. PICK l0 \in Nat, l1 \in Nat, l2 \in Nat, z \in Nat :
            l0 = Len(t0) /\ l1 = Len(t1) /\ l2 = Len(m.text) /\ z = Size
    BY <2>1, <2>2
  <2>6. (Len(t0) >= Size => Len(m.text) >= Size)
        /\ (Len(t1) >= Size => Len(m.text) >= Size)
    BY <2>1, <2>5
  <2>7. QED BY <1>4, <1>10, <1>12, <1>13, <1>14, <2>3, <2>4, <2>6
<1>18. RightSoFar(m, P!Onward(s, from[k + 1]))
  <2>1. m.fmt \in Strings
    BY DEF Composed
  <2>2. Len(s.buf) < from[k + 1]
    BY <1>6, <1>11, <1>14
  <2>3. /\ s.state = "on" /\ s.next = arg[k + 1]
        /\ s.out = P!FirstOf(t1, Size)
        /\ text[k + 1] = t1 \o s.buf
    BY <1>7, <1>14, <1>15, <1>16
  <2>4. QED BY <1>1, <1>17, <2>1, <2>2, <2>3, GoesOn
<1>19. QED BY <1>6, <1>9, <1>14, <1>18

(* Every step of a call for a message that is composed of parts.           *)
LEMMA StepRight ==
    ASSUME NEW m, Composed(m), NEW call, RightSoFar(m, call),
           call.state = "on"
    PROVE  RightSoFar(m, P!vprintf_step(call))
<1>1. call.fmt = m.fmt
  BY DEF RightSoFar, CallsOf
<1>2. CASE m.fmt[call.c] = "%"
  <2>1. P!vprintf_step(call) = P!convert(call)
    BY <1>1, <1>2 DEF P!vprintf_step
  <2>2. QED BY <1>2, <2>1, ReadsConversion
<1>3. CASE m.fmt[call.c] # "%"
  <2>1. P!vprintf_step(call) = P!text_char(call)
    BY <1>1, <1>3 DEF P!vprintf_step
  <2>2. QED BY <1>3, <2>1, ReadsChar
<1>4. QED BY <1>2, <1>3

-----------------------------------------------------------------------------
(* The calls on the stack: each is right so far.                           *)
MessagesComposed == \A m \in Messages : m.plain => Composed(m)
RightCall(m, call) == m.plain => RightSoFar(m, call)
CallsRight ==
    /\ calls \in Seq(Messages)
    /\ \A i \in 1 .. Len(stack) :
        /\ "id" \in DOMAIN stack[i] /\ "fmt" \in DOMAIN stack[i]
        /\ stack[i].id \in 1 .. Len(calls)
        /\ RightCall(calls[stack[i].id], stack[i].fmt)
FormatInv == RoomInv /\ CallsRight

(* What holds of the call that runs. *)
LEMMA LastCall ==
    ASSUME FormatInv, stack # << >>
    PROVE  /\ Len(stack) \in 1 .. Len(stack)
           /\ "id" \in DOMAIN Top /\ "fmt" \in DOMAIN Top
           /\ Top.id \in 1 .. Len(calls) /\ calls[Top.id] \in Messages
           /\ RightCall(calls[Top.id], Top.fmt)
<1>1. Len(stack) \in 1 .. Len(stack)
  BY DEF FormatInv, RoomInv, IsSequence
<1>2. /\ "id" \in DOMAIN Top /\ "fmt" \in DOMAIN Top
      /\ Top.id \in 1 .. Len(calls)
      /\ RightCall(calls[Top.id], Top.fmt)
  BY <1>1 DEF FormatInv, CallsRight, Top
<1>3. calls[Top.id] \in Messages
  BY <1>2, ElementOfSeq DEF FormatInv, CallsRight
<1>4. QED BY <1>1, <1>2, <1>3

(* The call that runs goes on, and stays right.                            *)
LEMMA KeepsRight ==
    ASSUME FormatInv, stack # << >>,
           NEW x, "id" \in DOMAIN x, "fmt" \in DOMAIN x, x.id = Top.id,
           RightCall(calls[Top.id], x.fmt),
           stack' = [stack EXCEPT ![Len(stack)] = x], calls' = calls
    PROVE  CallsRight'
<1> DEFINE t == [stack EXCEPT ![Len(stack)] = x]
<1>1. /\ Len(t) = Len(stack)
      /\ t[Len(stack)] = x
      /\ \A i \in 1 .. Len(stack) : i # Len(stack) => t[i] = stack[i]
  <2>1. IsSequence(stack)
    BY DEF FormatInv, RoomInv
  <2>2. QED BY <2>1, TopChanged, Zenon
<1>2. stack' = t
  OBVIOUS
<1> HIDE DEF t
<1>3. ASSUME NEW i \in 1 .. Len(stack)
      PROVE  /\ "id" \in DOMAIN stack'[i] /\ "fmt" \in DOMAIN stack'[i]
             /\ stack'[i].id \in 1 .. Len(calls)
             /\ RightCall(calls[stack'[i].id], stack'[i].fmt)
  <2>1. CASE i = Len(stack)
    BY <1>1, <1>2, <2>1, LastCall
  <2>2. CASE i # Len(stack)
    BY <1>1, <1>2, <2>2 DEF FormatInv, CallsRight
  <2>3. QED BY <2>1, <2>2
<1>4. calls' \in Seq(Messages)
  BY DEF FormatInv, CallsRight
<1>5. QED BY <1>1, <1>2, <1>3, <1>4 DEF CallsRight

(* At first there is no call. *)
LEMMA InitFormats == Init => FormatInv
<1> SUFFICES ASSUME Init PROVE FormatInv
  OBVIOUS
<1>1. RoomInv
  BY InitRoom, LogAssumption
<1>2. stack = << >> /\ calls = << >> /\ Len(<< >>) = 0
  BY DEF Init
<1>3. CallsRight
  BY <1>2 DEF CallsRight
<1>4. QED BY <1>1, <1>3 DEF FormatInv

(* A call begins: the message of a new call is added, and no other's       *)
(* changes.                                                                *)
LEMMA PrintkFormats == MessagesComposed /\ FormatInv /\ printk => CallsRight'
<1> SUFFICES ASSUME MessagesComposed, FormatInv, printk PROVE CallsRight'
  OBVIOUS
<1>1. PICK m \in IF calls = << >> THEN Messages ELSE Brief :
        /\ calls' = Append(calls, m)
        /\ stack' = Append(stack,
                [id |-> Len(calls) + 1, phase |-> "format",
                 fmt |-> P!vsnprintf(m.fmt, m.args),
                 text |-> << >>, free |-> FALSE])
  BY DEF printk
<1> DEFINE c == [id |-> Len(calls) + 1, phase |-> "format",
                 fmt |-> P!vsnprintf(m.fmt, m.args),
                 text |-> << >>, free |-> FALSE]
<1>2. m \in Messages
  BY <1>1, LogAssumption DEF LogAssumption
<1>3. RightCall(m, P!vsnprintf(m.fmt, m.args))
  BY <1>2, BeginsRight DEF MessagesComposed, RightCall
<1>4. /\ "id" \in DOMAIN c /\ "fmt" \in DOMAIN c /\ c.id = Len(calls) + 1
      /\ c.fmt = P!vsnprintf(m.fmt, m.args)
  OBVIOUS
<1>5. stack' = Append(stack, c)
  BY <1>1
<1> HIDE DEF c
<1>6. calls \in Seq(Messages) /\ Len(calls) \in Nat
  BY LenProperties DEF FormatInv, CallsRight
<1>7. /\ calls' \in Seq(Messages) /\ Len(calls') = Len(calls) + 1
      /\ calls'[Len(calls) + 1] = m
      /\ \A i \in 1 .. Len(calls) : calls'[i] = calls[i]
  BY <1>1, <1>2, <1>6, AppendProperties
<1>8. /\ Len(stack) \in Nat
      /\ Len(stack') = Len(stack) + 1
      /\ stack'[Len(stack) + 1] = c
      /\ \A i \in 1 .. Len(stack) : stack'[i] = stack[i]
  <2>1. PICK S : stack \in Seq(S)
    BY DEF FormatInv, RoomInv, IsSequence
  <2> DEFINE U == S \cup {c}
  <2>2. Len(stack) \in Nat /\ stack \in [1 .. Len(stack) -> U]
    BY <2>1
  <2>3. stack \in Seq(U)
    BY <2>2, SeqDef
  <2>4. QED BY <1>5, <2>2, <2>3, AppendProperties
<1>9. ASSUME NEW i \in 1 .. Len(stack')
      PROVE  /\ "id" \in DOMAIN stack'[i] /\ "fmt" \in DOMAIN stack'[i]
             /\ stack'[i].id \in 1 .. Len(calls')
             /\ RightCall(calls'[stack'[i].id], stack'[i].fmt)
  <2>1. CASE i = Len(stack) + 1
    <3>1. Len(calls) + 1 \in 1 .. Len(calls')
      BY <1>6, <1>7
    <3>2. QED BY <1>3, <1>4, <1>7, <1>8, <2>1, <3>1
  <2>2. CASE i \in 1 .. Len(stack)
    <3>1. /\ stack'[i] = stack[i]
          /\ "id" \in DOMAIN stack[i] /\ "fmt" \in DOMAIN stack[i]
          /\ stack[i].id \in 1 .. Len(calls)
          /\ RightCall(calls[stack[i].id], stack[i].fmt)
      BY <1>8, <2>2 DEF FormatInv, CallsRight
    <3>2. PICK id \in 1 .. Len(calls) : id = stack[i].id
      BY <3>1
    <3>3. id \in 1 .. Len(calls') /\ calls'[id] = calls[id]
      BY <1>6, <1>7
    <3>4. QED BY <3>1, <3>2, <3>3
  <2>3. QED BY <1>8, <2>1, <2>2
<1>10. QED BY <1>7, <1>9 DEF CallsRight

(* A round of the loop. *)
LEMMA FormatFormats == MessagesComposed /\ FormatInv /\ __vprintf => CallsRight'
<1> SUFFICES ASSUME MessagesComposed, FormatInv, __vprintf PROVE CallsRight'
  OBVIOUS
<1> DEFINE x == [Top EXCEPT !.fmt = P!vprintf_step(@)]
<1>1. /\ stack # << >> /\ stack' = [stack EXCEPT ![Len(stack)] = x]
      /\ Top.fmt.state = "on" /\ calls' = calls
  BY DEF __vprintf, Top
<1>2. /\ "id" \in DOMAIN Top /\ "fmt" \in DOMAIN Top
      /\ calls[Top.id] \in Messages
      /\ RightCall(calls[Top.id], Top.fmt)
  BY <1>1, LastCall
<1>3. /\ "id" \in DOMAIN x /\ "fmt" \in DOMAIN x /\ x.id = Top.id
      /\ x.fmt = P!vprintf_step(Top.fmt)
  BY <1>2
<1>4. RightCall(calls[Top.id], P!vprintf_step(Top.fmt))
  <2> DEFINE m == calls[Top.id]
             call == Top.fmt
  <2>1. m \in Messages /\ RightCall(m, call) /\ call.state = "on"
    BY <1>1, <1>2
  <2> HIDE DEF m, call
  <2>2. RightCall(m, P!vprintf_step(call))
    BY <2>1, StepRight DEF MessagesComposed, RightCall
  <2>3. QED BY <2>2 DEF m, call
<1> HIDE DEF x
<1>5. QED BY <1>1, <1>3, <1>4, KeepsRight

(* The other steps of a call leave its formatting alone. *)
LEMMA OutputFormats == FormatInv /\ _printk_findoutputs => CallsRight'
<1> SUFFICES ASSUME FormatInv, _printk_findoutputs PROVE CallsRight'
  OBVIOUS
<1>1. PICK line \in Lines(Top.fmt.out) :
        stack' = [stack EXCEPT ![Len(stack)].phase = "print",
                    ![Len(stack)].text = IF serial__has_init THEN line
                                         ELSE << >>]
  BY DEF _printk_findoutputs
<1> DEFINE x == [Top EXCEPT !.phase = "print",
                            !.text = IF serial__has_init THEN line ELSE << >>]
<1>2. stack # << >> /\ calls' = calls
  BY DEF _printk_findoutputs
<1>3. stack' = [stack EXCEPT ![Len(stack)] = x]
  BY <1>1, <1>2, LastCall DEF Top
<1>4. /\ "id" \in DOMAIN x /\ "fmt" \in DOMAIN x /\ x.id = Top.id
      /\ x.fmt = Top.fmt
  BY <1>2, LastCall
<1> HIDE DEF x
<1>5. RightCall(calls[Top.id], Top.fmt)
  BY <1>2, LastCall
<1>6. QED BY <1>2, <1>3, <1>4, <1>5, KeepsRight

(* The look at the status, and the write. *)
LEMMA WaitFormats == FormatInv /\ wait => CallsRight'
<1> SUFFICES ASSUME FormatInv, wait PROVE CallsRight'
  OBVIOUS
<1> DEFINE x == [Top EXCEPT !.free = TRUE]
<1>1. /\ stack # << >> /\ stack' = [stack EXCEPT ![Len(stack)] = x]
      /\ calls' = calls
  BY DEF wait, Top
<1>2. /\ "id" \in DOMAIN x /\ "fmt" \in DOMAIN x /\ x.id = Top.id
      /\ x.fmt = Top.fmt
  BY <1>1, LastCall
<1> HIDE DEF x
<1>3. RightCall(calls[Top.id], Top.fmt)
  BY <1>1, LastCall
<1>4. QED BY <1>1, <1>2, <1>3, KeepsRight

LEMMA WriteFormats == FormatInv /\ write => CallsRight'
<1> SUFFICES ASSUME FormatInv, write PROVE CallsRight'
  OBVIOUS
<1> DEFINE x == [Top EXCEPT !.free = FALSE, !.text = Tail(@)]
<1>1. /\ stack # << >> /\ calls' = calls
      /\ stack' = [stack EXCEPT ![Len(stack)].free = FALSE,
                                ![Len(stack)].text = Tail(@)]
  BY DEF write
<1>2. stack' = [stack EXCEPT ![Len(stack)] = x]
  <2>1. Len(stack) \in DOMAIN stack
    BY <1>1, LastCall DEF FormatInv, RoomInv, IsSequence
  <2>2. QED BY <1>1, <2>1 DEF Top
<1>3. /\ "id" \in DOMAIN x /\ "fmt" \in DOMAIN x /\ x.id = Top.id
      /\ x.fmt = Top.fmt
  BY <1>1, LastCall
<1> HIDE DEF x
<1>4. RightCall(calls[Top.id], Top.fmt)
  BY <1>1, LastCall
<1>5. QED BY <1>1, <1>2, <1>3, <1>4, KeepsRight

(* The call that runs returns, and the others stay what they are.          *)
LEMMA ReturnFormats == FormatInv /\ return => CallsRight'
<1> SUFFICES ASSUME FormatInv, return PROVE CallsRight'
  OBVIOUS
<1>1. /\ stack # << >> /\ stack' = SubSeq(stack, 1, Len(stack) - 1)
      /\ calls' = calls
  BY DEF return, Pop
<1>2. /\ Len(stack') = Len(stack) - 1
      /\ \A i \in 1 .. Len(stack) - 1 : stack'[i] = stack[i]
      /\ Len(stack) \in Nat \ {0}
  BY <1>1, Popped DEF FormatInv, RoomInv
<1>3. ASSUME NEW i \in 1 .. Len(stack')
      PROVE  /\ "id" \in DOMAIN stack'[i] /\ "fmt" \in DOMAIN stack'[i]
             /\ stack'[i].id \in 1 .. Len(calls)
             /\ RightCall(calls[stack'[i].id], stack'[i].fmt)
  <2>1. i \in 1 .. Len(stack) /\ i \in 1 .. Len(stack) - 1
    BY <1>2
  <2>2. QED BY <1>2, <2>1 DEF FormatInv, CallsRight
<1>4. QED BY <1>1, <1>3 DEF FormatInv, CallsRight

(* Each step keeps all calls right. *)
LEMMA StepFormats == MessagesComposed /\ FormatInv /\ [Next]_vars => FormatInv'
<1> SUFFICES ASSUME MessagesComposed, FormatInv, [Next]_vars PROVE FormatInv'
  OBVIOUS
<1>1. RoomInv'
  BY StepRoom DEF FormatInv
<1>2. CASE UNCHANGED <<stack, calls>>
  BY <1>1, <1>2 DEF FormatInv, CallsRight
<1>3. CASE serial_init
  BY <1>2, <1>3 DEF serial_init
<1>4. CASE printk
  BY <1>1, <1>4, PrintkFormats DEF FormatInv
<1>5. CASE __vprintf
  BY <1>1, <1>5, FormatFormats DEF FormatInv
<1>6. CASE _printk_findoutputs
  BY <1>1, <1>6, OutputFormats DEF FormatInv
<1>7. CASE wait
  BY <1>1, <1>7, WaitFormats DEF FormatInv
<1>8. CASE write
  BY <1>1, <1>8, WriteFormats DEF FormatInv
<1>9. CASE return
  BY <1>1, <1>9, ReturnFormats DEF FormatInv
<1>10. CASE send
  BY <1>2, <1>10 DEF send
<1>11. CASE UNCHANGED vars
  BY <1>2, <1>11 DEF vars
<1>12. QED
  BY <1>3, <1>4, <1>5, <1>6, <1>7, <1>8, <1>9, <1>10, <1>11 DEF Next, Run

(* Every message that is made of any number of characters and conversions, *)
(* with arguments that Directive has a meaning for (no u or x from 2^31 on *)
(* and no negative long), is printed as it is meant, up to the size of the *)
(* buffer, whatever calls interrupt its formatting; its format is not      *)
(* read behind its end, and a byte behind the buffer is written only if    *)
(* the text fills it (print.c:41-44, 79-236).                              *)
THEOREM FormatsAreRight ==
    ASSUME MessagesComposed
    PROVE  Spec => []FormatsRight
<1>1. Init => FormatInv
  BY InitFormats
<1>2. FormatInv /\ [Next]_vars => FormatInv'
  BY StepFormats
<1>3. FormatInv => FormatsRight
  <2> SUFFICES ASSUME FormatInv, NEW i \in DOMAIN stack,
                      calls[stack[i].id].plain
               PROVE  /\ stack[i].fmt.state # "astray"
                      /\ stack[i].fmt.state = "done" =>
                            stack[i].fmt.out = Meaning(calls[stack[i].id])
                      /\ stack[i].fmt.past =>
                            Len(calls[stack[i].id].text) >= Size
    BY DEF FormatsRight
  <2>1. i \in 1 .. Len(stack)
    BY DEF FormatInv, RoomInv, IsSequence
  <2>2. RightSoFar(calls[stack[i].id], stack[i].fmt)
    BY <2>1 DEF FormatInv, CallsRight, RightCall
  <2>3. QED BY <2>2 DEF RightSoFar, Meaning
<1>4. QED BY <1>1, <1>2, <1>3, PTL DEF Spec

-----------------------------------------------------------------------------
(* The digits of a number.  s writes n: d are the values of its digits,    *)
(* f[i] is the number that the first i of them write, and the first is 0   *)
(* only if it is all there is, and n is 0.                                 *)
Evaluates(f, d, base) ==
    /\ f \in [0 .. Len(d) -> Nat] /\ f[0] = 0
    /\ \A i \in 1 .. Len(d) : f[i] = f[i - 1] * base + d[i]
Writes(s, n, base, digits) ==
    \E d \in Seq(0 .. base - 1) :
        /\ d # << >> /\ (d[1] = 0 => n = 0 /\ Len(d) = 1)
        /\ s = [i \in 1 .. Len(d) |-> digits[d[i] + 1]]
        /\ \E f : Evaluates(f, d, base) /\ f[Len(d)] = n

(* g is the function that Numeral defines by recursion, for 0 to m.        *)
NumeralFrom(g, i, base, digits) ==
    IF i < base THEN <<digits[i + 1]>>
    ELSE Append(g[i \div base], digits[(i % base) + 1])
Numerals(g, m, base, digits) ==
    g = [i \in 0 .. m |-> NumeralFrom(g, i, base, digits)]

(* The number before the last digit is smaller. *)
LEMMA Shorter ==
    ASSUME NEW i \in Nat, NEW base \in Nat, base >= 2, i >= base
    PROVE  i \div base \in 1 .. i - 1
<1>1. PICK q \in Nat, r \in 0 .. base - 1 :
            q = i \div base /\ i = q * base + r
  <2>1. base \in Nat \ {0}
    OBVIOUS
  <2>2. /\ i \div base \in Nat /\ i % base \in 0 .. base - 1
        /\ i = (i \div base) * base + (i % base)
    BY <2>1, DivMod, Zenon
  <2>3. QED BY <2>2
<1>2. q # 0
  BY <1>1
<1>3. q * 2 <= q * base
  <2>1. base * q = q * base /\ 2 * q = q * 2 /\ 2 * q <= base * q
    <3>1. 2 * q <= base * q
      BY WordsMonotone
    <3>2. QED BY <3>1
  <2>2. QED BY <2>1
<1>4. q < i
  <2>1. PICK x \in Nat : x = q * base
    BY <1>1
  <2>2. QED BY <1>1, <1>2, <1>3, <2>1
<1>5. QED BY <1>1, <1>2, <1>4

(* There is such a function, for every m. *)
LEMMA NumeralsExist ==
    ASSUME NEW base \in Nat, base >= 2, NEW digits, NEW n \in Nat
    PROVE  \E g : Numerals(g, n, base, digits)
<1> DEFINE Bad == {m \in Nat : ~ \E g : Numerals(g, m, base, digits)}
<1>1. SUFFICES ASSUME Bad # {} PROVE FALSE
  OBVIOUS
<1>2. PICK m \in Bad : \A y \in Bad : m <= y
  BY <1>1, LeastElement
<1>3. CASE m = 0
  <2> DEFINE g == [i \in 0 .. 0 |-> <<digits[i + 1]>>]
  <2>1. \A i \in 0 .. 0 : NumeralFrom(g, i, base, digits) = <<digits[i + 1]>>
    BY DEF NumeralFrom
  <2>2. Numerals(g, 0, base, digits)
    BY <2>1 DEF Numerals
  <2>3. QED BY <1>3, <2>2
<1>4. CASE m # 0
  <2>1. m - 1 \in Nat /\ m - 1 \notin Bad
    BY <1>2, <1>4
  <2>2. PICK g : Numerals(g, m - 1, base, digits)
    BY <2>1
  <2> DEFINE h == [i \in 0 .. m |-> IF i < m THEN g[i]
                                    ELSE NumeralFrom(g, i, base, digits)]
  <2>3. ASSUME NEW i \in 0 .. m
        PROVE  h[i] = NumeralFrom(h, i, base, digits)
    <3>1. h[i] = NumeralFrom(g, i, base, digits)
      BY <1>2, <2>2 DEF Numerals
    <3>2. CASE i < base
      BY <3>1, <3>2 DEF NumeralFrom
    <3>3. CASE ~ (i < base)
      <4>1. i \div base \in 1 .. i - 1
        <5>1. i \in Nat /\ i >= base
          BY <1>2, <3>3
        <5>2. QED BY <5>1, Shorter, Zenon
      <4>2. h[i \div base] = g[i \div base]
        BY <1>2, <4>1
      <4>3. QED BY <3>1, <3>3, <4>2 DEF NumeralFrom
    <3>4. QED BY <3>2, <3>3
  <2>4. Numerals(h, m, base, digits)
    BY <2>3 DEF Numerals
  <2>5. QED BY <2>4
<1>5. QED BY <1>3, <1>4

(* A sequence with one element more, as a function. *)
LEMMA AppendIs ==
    ASSUME NEW S, NEW n \in Nat, NEW s \in [1 .. n -> S], NEW a \in S,
           NEW t \in [1 .. n + 1 -> S], t[n + 1] = a,
           \A j \in 1 .. n : t[j] = s[j]
    PROVE  Append(s, a) = t
<1>1. s \in Seq(S) /\ Len(s) = n
  OBVIOUS
<1> DEFINE u == Append(s, a)
<1>2. /\ u \in Seq(S) /\ Len(u) = n + 1 /\ u[n + 1] = a
      /\ \A j \in 1 .. n : u[j] = s[j]
  BY <1>1, AppendProperties
<1> HIDE DEF u
<1>3. u \in [1 .. n + 1 -> S]
  BY <1>2
<1>4. \A j \in 1 .. n + 1 : u[j] = t[j]
  <2>1. \A j \in 1 .. n + 1 : j \in 1 .. n \/ j = n + 1
    OBVIOUS
  <2>2. QED BY <1>2, <2>1
<1>5. u = t
  BY <1>3, <1>4
<1>6. QED BY <1>5 DEF u

(* One digit more. *)
LEMMA DigitMore ==
    ASSUME NEW base \in Nat, base >= 2, NEW digits, NEW q \in Nat \ {0},
           NEW r \in 0 .. base - 1, NEW s, Writes(s, q, base, digits),
           NEW i, i = q * base + r
    PROVE  Writes(Append(s, digits[r + 1]), i, base, digits)
<1>0. PICK d \in Seq(0 .. base - 1) :
            /\ d # << >> /\ (d[1] = 0 => q = 0 /\ Len(d) = 1)
            /\ s = [j \in 1 .. Len(d) |-> digits[d[j] + 1]]
            /\ \E f : Evaluates(f, d, base) /\ f[Len(d)] = q
  BY DEF Writes
<1>1. PICK f : Evaluates(f, d, base) /\ f[Len(d)] = q
  BY <1>0
<1> DEFINE e == Append(d, r)
           h == [j \in 0 .. Len(d) + 1 |-> IF j <= Len(d) THEN f[j] ELSE i]
<1>2. /\ e \in Seq(0 .. base - 1) /\ Len(e) = Len(d) + 1 /\ Len(d) \in Nat \ {0}
      /\ e[Len(d) + 1] = r /\ \A j \in 1 .. Len(d) : e[j] = d[j]
  BY <1>0, AppendProperties, EmptySeq, LenProperties
<1>3. e # << >> /\ e[1] # 0
  <2>1. 1 \in 1 .. Len(d) /\ d[1] # 0
    BY <1>0, <1>2
  <2>2. QED BY <1>2, <2>1
<1>4. Append(s, digits[r + 1]) = [j \in 1 .. Len(e) |-> digits[e[j] + 1]]
  <2> DEFINE a == digits[r + 1]
             S == {digits[d[j] + 1] : j \in 1 .. Len(d)} \cup {a}
  <2>1. s \in [1 .. Len(d) -> S]
    BY <1>0
  <2>2. a \in S
    BY DEF S
  <2>3. PICK l \in Nat : l = Len(d)
    BY <1>2
  <2> DEFINE t == [j \in 1 .. l + 1 |-> digits[e[j] + 1]]
  <2>4. t[l + 1] = a /\ \A j \in 1 .. l : t[j] = s[j]
    <3> HIDE DEF e
    <3>1. t[l + 1] = a
      BY <1>2, <2>3
    <3>2. ASSUME NEW j \in 1 .. l PROVE t[j] = s[j]
      <4>1. t[j] = digits[e[j] + 1] /\ e[j] = d[j]
        BY <1>2, <2>3
      <4>2. s[j] = digits[d[j] + 1]
        BY <1>0, <2>3
      <4>3. QED BY <4>1, <4>2
    <3>3. QED BY <3>1, <3>2
  <2>5. s \in [1 .. l -> S]
    BY <2>1, <2>3
  <2> HIDE DEF S, e, a
  <2>6. t \in [1 .. l + 1 -> S]
    <3>1. \A j \in 1 .. l : s[j] \in S
      BY <2>5
    <3>2. \A j \in 1 .. l + 1 : j \in 1 .. l \/ j = l + 1
      OBVIOUS
    <3>3. \A j \in 1 .. l + 1 : t[j] \in S
      <4> HIDE DEF t
      <4>1. QED BY <2>2, <2>4, <3>1, <3>2
    <3>4. t = [j \in 1 .. l + 1 |-> t[j]]
      OBVIOUS
    <3> HIDE DEF t
    <3>5. QED BY <3>3, <3>4
  <2>7. Append(s, a) = t
    <3> HIDE DEF t
    <3>1. QED BY <2>2, <2>4, <2>5, <2>6, AppendIs
  <2>8. QED BY <1>2, <2>3, <2>7 DEF a
<1> HIDE DEF e
<1>5. i \in Nat
  <2>1. q * base \in Nat
    BY WordsMonotone
  <2>2. QED BY <2>1
<1>6. Evaluates(h, e, base) /\ h[Len(e)] = i
  <2>1. h \in [0 .. Len(e) -> Nat] /\ h[0] = 0 /\ h[Len(e)] = i
    BY <1>1, <1>2, <1>5 DEF Evaluates
  <2>2. ASSUME NEW j \in 1 .. Len(e) PROVE h[j] = h[j - 1] * base + e[j]
    <3>1. CASE j \in 1 .. Len(d)
      <4>1. h[j] = f[j] /\ h[j - 1] = f[j - 1] /\ e[j] = d[j]
        BY <1>2, <3>1, SMTT(20)
      <4>2. QED BY <1>1, <3>1, <4>1 DEF Evaluates
    <3>2. CASE j = Len(d) + 1
      <4>1. h[j] = i /\ h[j - 1] = f[Len(d)] /\ e[j] = r
        BY <1>2, <3>2
      <4>2. QED BY <1>1, <4>1
    <3>3. QED BY <1>2, <3>1, <3>2
  <2> HIDE DEF h
  <2>3. QED BY <2>1, <2>2 DEF Evaluates
<1> HIDE DEF h
<1>7. QED BY <1>2, <1>3, <1>4, <1>6 DEF Writes

(* A number below the base is one digit. *)
LEMMA OneDigit ==
    ASSUME NEW base \in Nat, base >= 2, NEW digits, NEW i \in 0 .. base - 1
    PROVE  Writes(<<digits[i + 1]>>, i, base, digits)
<1> DEFINE d == <<i>>
           f == [j \in 0 .. 1 |-> IF j = 0 THEN 0 ELSE i]
<1>1. d \in Seq(0 .. base - 1) /\ Len(d) = 1 /\ d[1] = i /\ d # << >>
  OBVIOUS
<1>2. <<digits[i + 1]>> = [j \in 1 .. Len(d) |-> digits[d[j] + 1]]
  OBVIOUS
<1>3. Evaluates(f, d, base) /\ f[Len(d)] = i
  <2>1. f \in [0 .. Len(d) -> Nat] /\ f[0] = 0 /\ f[1] = i
    OBVIOUS
  <2>2. \A j \in 1 .. Len(d) : f[j] = f[j - 1] * base + d[j]
    BY <1>1, <2>1
  <2>3. QED BY <1>1, <2>1, <2>2 DEF Evaluates
<1> HIDE DEF d, f
<1>4. QED BY <1>1, <1>2, <1>3 DEF Writes

(* The digits that the divisions of itoa and ltoa give, for every number   *)
(* and every base (vsnprintf asks for 10 and 16), and whatever characters  *)
(* stand for the digits, evaluate to that number again, and begin with 0   *)
(* only for 0 (string.c:75-122).                                           *)
THEOREM NumeralsAreRight ==
    ASSUME NEW n \in Nat, NEW base \in Nat, base >= 2, NEW digits
    PROVE  Writes(P!Numeral(n, base, digits), n, base, digits)
<1> DEFINE numeral == CHOOSE g : g = [i \in 0 .. n |->
                IF i < base THEN <<digits[i + 1]>>
                ELSE Append(g[i \div base], digits[(i % base) + 1])]
<1>1. P!Numeral(n, base, digits) = numeral[n]
  BY DEF P!Numeral
<1>2. PICK g : Numerals(g, n, base, digits)
  BY NumeralsExist
<1>3. numeral = [i \in 0 .. n |->
                IF i < base THEN <<digits[i + 1]>>
                ELSE Append(numeral[i \div base], digits[(i % base) + 1])]
  <2>1. g = [i \in 0 .. n |->
                IF i < base THEN <<digits[i + 1]>>
                ELSE Append(g[i \div base], digits[(i % base) + 1])]
    BY <1>2 DEF Numerals, NumeralFrom
  <2>2. QED BY <2>1
<1> HIDE DEF numeral
<1> DEFINE Bad == {i \in 0 .. n : ~ Writes(numeral[i], i, base, digits)}
<1>4. SUFFICES ASSUME Bad # {} PROVE FALSE
  BY <1>1
<1>5. PICK i \in Bad : \A y \in Bad : i <= y
  <2>1. Bad \in SUBSET Nat
    OBVIOUS
  <2>2. QED BY <1>4, <2>1, LeastElement
<1>6. CASE i < base
  BY <1>3, <1>5, <1>6, OneDigit
<1>7. CASE ~ (i < base)
  <2>1. i \div base \in 1 .. i - 1
    <3>1. i \in Nat /\ i >= base
      BY <1>5, <1>7
    <3>2. QED BY <3>1, Shorter, Zenon
  <2>2. PICK q \in Nat \ {0}, r \in 0 .. base - 1 :
            q = i \div base /\ r = i % base /\ i = q * base + r
    <3>1. i \in Nat /\ base \in Nat \ {0}
      BY <1>5
    <3>2. /\ i % base \in 0 .. base - 1
          /\ i = (i \div base) * base + (i % base)
      BY <3>1, DivMod, Zenon
    <3>3. i \div base \in Nat \ {0}
      BY <2>1
    <3>4. QED BY <3>2, <3>3
  <2>3. Writes(numeral[q], q, base, digits)
    BY <1>5, <2>1, <2>2
  <2>4. numeral[i] = Append(numeral[q], digits[r + 1])
    BY <1>3, <1>5, <1>7, <2>2
  <2>5. QED BY <1>5, <2>2, <2>3, <2>4, DigitMore
<1>8. QED BY <1>6, <1>7
=============================================================================
