--------------------------- MODULE StartupProofs ---------------------------
(***************************************************************************)
(* usleep sleeps long enough, for every counter and every use of it; the   *)
(* walk through the MADT lists every entry, for every MADT; the            *)
(* redirection table has the vectors and masks that it is asked for, for   *)
(* every I/O APIC, all overrides and all requests; the 8259s are silent;   *)
(* and the arguments of every tidy command line are found as written.      *)
(***************************************************************************)
EXTENDS Startup, NatLemmas, FiniteSetTheorems, SequenceTheorems, TLAPS

(* The timer.  The inductive invariant: the counter, which every call has  *)
(* reset, is never ahead of the ticks that a call has lasted, also when    *)
(* calls that interrupted it reset it again (hpet.c:53).                   *)
Covered(call) == counter <= call.ticks \/ LongEnough(call)
HpetInv ==
    /\ HpetTypeOK
    /\ \A i \in DOMAIN sleeps : Covered(sleeps[i])
    /\ SleptLongEnough

-----------------------------------------------------------------------------
(* A poll that ends the loop of a covered call ends it in time: the        *)
(* product of the poll may have wrapped, the target has not (hpet.c:56).   *)
LEMMA PollInTime ==
    ASSUME NEW c \in Nat, NEW t \in Nat, NEW us \in Delays, DelaysFit,
           c <= t, (c * FPerTick) % UintMod >= (FPerUs * us) % UintMod
    PROVE  t * FPerTick >= FPerUs * us
<1> DEFINE target == FPerUs * us
           time == c * FPerTick
<1>1. us \in Nat /\ FPerTick \in Nat \ {0} /\ FPerUs \in Nat
         /\ UintMod \in Nat \ {0}
  BY HpetAssumption
<1>2. target \in Nat /\ target + FPerTick <= UintMod
  BY <1>1 DEF DelaysFit
<1>3. time \in Nat /\ time <= t * FPerTick
  BY <1>1, WordsMonotone
<1>4. t * FPerTick \in Nat
  BY <1>1
<1>5. time % UintMod >= target % UintMod
  OBVIOUS
<1> HIDE DEF target, time
<1>6. target % UintMod = target
  <2>1. target < UintMod
    BY <1>1, <1>2
  <2>2. QED BY <1>1, <1>2, <2>1, DivMod
<1>7. time % UintMod <= time
  <2>1. CASE time < UintMod
    BY <1>1, <1>3, <2>1, DivMod
  <2>2. CASE ~ (time < UintMod)
    <3>1. time % UintMod \in 0 .. UintMod - 1
      BY <1>1, <1>3, DivMod
    <3>2. QED BY <1>1, <1>3, <2>2, <3>1
  <2>3. QED BY <2>1, <2>2
<1>8. time % UintMod \in Nat
  BY <1>1, <1>3, DivMod
<1>9. QED BY <1>2, <1>3, <1>4, <1>5, <1>6, <1>7, <1>8 DEF target

-----------------------------------------------------------------------------
(* At first nobody sleeps. *)
LEMMA HpetInitInv == HpetInit => HpetInv
  BY DEF HpetInit, HpetInv, HpetTypeOK, SleptLongEnough, Calls

(* Each step keeps the counter behind the calls. *)
LEMMA HpetStepInv == HpetInv /\ [HpetNext]_hpetVars => HpetInv'
<1> SUFFICES ASSUME HpetInv, [HpetNext]_hpetVars PROVE HpetInv'
  OBVIOUS
<1> USE DEF HpetInv
<1>0. FPerTick \in Nat \ {0} /\ FPerUs \in Nat \ {0}
         /\ UintMod \in Nat \ {0} /\ Delays \subseteq Nat
  BY HpetAssumption
<1>1. CASE hpet_init
  BY <1>1 DEF hpet_init, HpetTypeOK, SleptLongEnough, Covered, LongEnough
<1>2. CASE \E us \in Delays : usleep(us)
  <2>1. PICK us \in Delays : usleep(us)
    BY <1>2
  <2> DEFINE call == [us |-> us, ticks |-> 0, started |-> FALSE]
  <2>2. call \in Calls /\ sleeps' = Append(sleeps, call)
    BY <2>1 DEF usleep, Calls
  <2>3. HpetTypeOK'
    BY <2>1, <2>2 DEF usleep, HpetTypeOK
  <2>4. ASSUME NEW i \in DOMAIN sleeps' PROVE Covered(sleeps[i])'
    <3>1. sleeps'[i] \in Calls /\ counter' = 0
      BY <2>1, <2>3, <2>4 DEF usleep, HpetTypeOK
    <3>2. sleeps'[i].ticks \in Nat
      BY <3>1 DEF Calls
    <3>3. QED BY <3>1, <3>2 DEF Covered
  <2>5. QED BY <2>1, <2>3, <2>4 DEF usleep, SleptLongEnough, LongEnough
<1>3. CASE hpet_timer_start
  <2>1. sleeps \in Seq(Calls) /\ sleeps # << >> /\ counter' = counter
    BY <1>3 DEF hpet_timer_start, HpetTypeOK
  <2>2. /\ sleeps' \in Seq(Calls) /\ DOMAIN sleeps' = DOMAIN sleeps
        /\ \A i \in DOMAIN sleeps : sleeps'[i].us = sleeps[i].us
                                    /\ sleeps'[i].ticks = sleeps[i].ticks
    <3>1. Len(sleeps) \in DOMAIN sleeps /\ DOMAIN sleeps = 1 .. Len(sleeps)
      BY <2>1
    <3>2. sleeps[Len(sleeps)] \in Calls
      BY <2>1, <3>1
    <3>3. PICK call : call = [sleeps[Len(sleeps)] EXCEPT !.started = TRUE]
      OBVIOUS
    <3>4. /\ call \in Calls
          /\ call.us = sleeps[Len(sleeps)].us
          /\ call.ticks = sleeps[Len(sleeps)].ticks
      BY <3>2, <3>3 DEF Calls
    <3>5. sleeps' = [sleeps EXCEPT ![Len(sleeps)] = call]
      BY <1>3, <3>3 DEF hpet_timer_start
    <3>6. QED BY <2>1, <3>1, <3>4, <3>5
  <2>3. HpetTypeOK'
    BY <1>3, <2>2 DEF hpet_timer_start, HpetTypeOK
  <2>4. \A i \in DOMAIN sleeps' : Covered(sleeps[i])'
    BY <2>1, <2>2 DEF Covered, LongEnough
  <2>5. QED
    BY <1>3, <2>3, <2>4 DEF hpet_timer_start, SleptLongEnough, LongEnough
<1>4. CASE tick
  <2>1. sleeps \in Seq(Calls) /\ counter \in Nat
    BY DEF HpetTypeOK
  <2>2. counter' \in Nat /\ counter' <= counter + 1
    <3>1. counter' = (counter + 1) % UintMod /\ counter + 1 \in Nat
      BY <1>4, <2>1 DEF tick
    <3>2. CASE counter + 1 < UintMod
      BY <1>0, <3>1, <3>2, DivMod
    <3>3. CASE ~ (counter + 1 < UintMod)
      <4>1. (counter + 1) % UintMod \in 0 .. UintMod - 1
        BY <1>0, <3>1, DivMod
      <4>2. QED BY <1>0, <2>1, <3>1, <3>3, <4>1
    <3>4. QED BY <3>2, <3>3
  <2>3. /\ sleeps' \in Seq(Calls) /\ DOMAIN sleeps' = DOMAIN sleeps
        /\ \A i \in DOMAIN sleeps : sleeps'[i] =
            IF LongEnough(sleeps[i]) THEN sleeps[i]
            ELSE [sleeps[i] EXCEPT !.ticks = @ + 1]
    <3>1. sleeps' = [i \in 1 .. Len(sleeps) |->
                        IF LongEnough(sleeps[i]) THEN sleeps[i]
                        ELSE [sleeps[i] EXCEPT !.ticks = @ + 1]]
      BY <1>4 DEF tick
    <3>2. \A i \in 1 .. Len(sleeps) : sleeps[i] \in Calls
      BY <2>1
    <3>3. \A x \in Calls : [x EXCEPT !.ticks = @ + 1] \in Calls
      BY DEF Calls
    <3>4. \A i \in 1 .. Len(sleeps) : sleeps'[i] \in Calls
      BY <3>1, <3>2, <3>3
    <3>5. Len(sleeps) \in Nat /\ DOMAIN sleeps = 1 .. Len(sleeps)
      BY <2>1
    <3>6. QED BY <3>1, <3>4, <3>5
  <2>4. HpetTypeOK'
    BY <1>4, <2>2, <2>3 DEF tick, HpetTypeOK
  <2>5. ASSUME NEW i \in DOMAIN sleeps' PROVE Covered(sleeps[i])'
    <3>1. i \in DOMAIN sleeps /\ sleeps[i] \in Calls /\ Covered(sleeps[i])
      BY <2>1, <2>3, <2>5
    <3>2. CASE LongEnough(sleeps[i])
      BY <2>3, <3>1, <3>2 DEF Covered, LongEnough
    <3>3. CASE ~ LongEnough(sleeps[i])
      <4>1. sleeps[i].ticks \in Nat /\ counter <= sleeps[i].ticks
        BY <3>1, <3>3 DEF Covered, Calls
      <4>2. sleeps'[i].ticks = sleeps[i].ticks + 1
        BY <2>3, <3>1, <3>3 DEF Calls
      <4>3. QED BY <2>1, <2>2, <4>1, <4>2 DEF Covered
    <3>4. QED BY <3>2, <3>3
  <2>6. QED BY <1>4, <2>4, <2>5 DEF tick, SleptLongEnough, LongEnough
<1>5. CASE poll
  <2>1. /\ sleeps \in Seq(Calls) /\ sleeps # << >> /\ counter \in Nat
        /\ Top \in Calls /\ Covered(Top)
    BY <1>5 DEF poll, HpetTypeOK, Top
  <2>2. /\ sleeps' \in Seq(Calls) /\ DOMAIN sleeps' \subseteq DOMAIN sleeps
        /\ \A i \in DOMAIN sleeps' : sleeps'[i] = sleeps[i]
        /\ counter' = counter
    BY <1>5, <2>1 DEF poll
  <2>3. HpetTypeOK'
    BY <1>5, <2>1, <2>2 DEF poll, HpetTypeOK
  <2>4. \A i \in DOMAIN sleeps' : Covered(sleeps[i])'
    BY <2>2 DEF Covered, LongEnough
  <2>5. DelaysFit => LongEnough(Top)
    <3>1. CASE LongEnough(Top)
      BY <3>1
    <3>2. CASE ~ LongEnough(Top)
      <4>1. counter <= Top.ticks /\ Top.ticks \in Nat /\ Top.us \in Delays
        BY <2>1, <3>2 DEF Covered, Calls
      <4>2. (counter * FPerTick) % UintMod >= (FPerUs * Top.us) % UintMod
        BY <1>5 DEF poll, hpet_timer_poll_time, Target
      <4>3. QED BY <2>1, <4>1, <4>2, PollInTime DEF LongEnough
    <3>3. QED BY <3>1, <3>2
  <2>6. woken' = {Top}
    BY <1>5 DEF poll
  <2>7. SleptLongEnough'
    <3>1. ASSUME DelaysFit, NEW x \in woken' PROVE LongEnough(x)'
      <4>1. LongEnough(x) BY <2>5, <2>6, <3>1
      <4>2. QED BY <4>1 DEF LongEnough
    <3>2. QED BY <3>1 DEF SleptLongEnough, DelaysFit
  <2>8. QED BY <2>3, <2>4, <2>7
<1>6. CASE UNCHANGED hpetVars
  BY <1>6 DEF hpetVars, HpetTypeOK, SleptLongEnough, Covered, LongEnough
<1>7. QED BY <1>1, <1>2, <1>3, <1>4, <1>5, <1>6 DEF HpetNext

(* Whatever calls usleep in whatever order, no call returns before its     *)
(* time (hpet.c:51-58).                                                    *)
THEOREM HpetSleepsLongEnough == HpetSpec => []SleptLongEnough
<1>1. HpetInv => SleptLongEnough
  BY DEF HpetInv
<1>2. QED
  BY HpetInitInv, HpetStepInv, <1>1, PTL DEF HpetSpec

-----------------------------------------------------------------------------
(* Each machine is one of Machines, and its delays are known.              *)
StartupInv == machine \in Machines

(* Each step of Startup is one of the timer or leaves it alone. *)
LEMMA StartupStep ==
    StartupInv /\ [Next]_vars => StartupInv' /\ [HpetNext]_hpetVars
<1> SUFFICES ASSUME StartupInv, [Next]_vars
             PROVE  StartupInv' /\ [HpetNext]_hpetVars
  OBVIOUS
<1> USE DEF StartupInv
<1>0. machine.delays \subseteq Delays
  BY StartupAssumption
<1>1. CASE cmdline_parse
  BY <1>1 DEF cmdline_parse, Others, hpetVars
<1>2. CASE read_args
  BY <1>2 DEF read_args, Others, hpetVars
<1>3. CASE acpi_init
  BY <1>3 DEF acpi_init, Others, hpetVars
<1>4. CASE apic_init
  BY <1>4 DEF apic_init, Others, hpetVars
<1>5. CASE ioapic_init
  BY <1>5 DEF ioapic_init, Others, hpetVars
<1>6. CASE timer_init
  BY <1>6 DEF timer_init, Others, HpetNext
<1>7. CASE set_masks
  BY <1>7 DEF set_masks, InLoop, Loop, hpetVars
<1>8. CASE call_usleep
  BY <1>0, <1>8 DEF call_usleep, InLoop, Loop, HpetNext
<1>9. CASE run_usleep
  BY <1>9 DEF run_usleep, InLoop, Loop, HpetNext
<1>10. CASE run_counter
  BY <1>10 DEF run_counter, InLoop, Loop, HpetNext
<1>11. CASE interrupt
  BY <1>11 DEF interrupt, InLoop, Loop, hpetVars
<1>12. CASE iret
  BY <1>12 DEF iret, InLoop, Loop, hpetVars
<1>13. CASE UNCHANGED vars
  BY <1>13 DEF vars, hpetVars
<1>14. QED
  BY <1>1, <1>2, <1>3, <1>4, <1>5, <1>6, <1>7, <1>8, <1>9, <1>10, <1>11,
     <1>12, <1>13 DEF Next, Boot, MainLoop

(* The kernel uses its timer as HpetSpec says: each step of kmain, of a    *)
(* handler or of a device is a step of the timer or leaves it alone        *)
(* (kernel.c:150-166).                                                     *)
THEOREM StartupUsesHpet == Spec => HpetSpec
<1>1. Init => StartupInv /\ HpetInit
  BY DEF Init, StartupInv
<1>2. QED
  BY <1>1, StartupStep, PTL DEF Spec, HpetSpec

(* So the main loop and handlers that interrupt it sleep long enough.      *)
THEOREM SleepsLongEnough == Spec => []SleptLongEnough
  BY HpetSleepsLongEnough, StartupUsesHpet, PTL

-----------------------------------------------------------------------------
(* The walk through the MADT.                                              *)

Madt == machine.madt
Kinds == Acpi!EntryTypes

(* The arrays list the entries before n.                                   *)
Listed(n) ==
    \A t \in Kinds :
        /\ {tbl[t][i] : i \in DOMAIN tbl[t]} = {p \in Positions(t) : p < n}
        /\ \A i, j \in DOMAIN tbl[t] : i < j => tbl[t][i] < tbl[t][j]

(* The entry that is looked at has no length, and is looked at again.      *)
Stuck == at \in DOMAIN Madt /\ Madt[at].length = 0

(* The inductive invariant: the arrays list what the walk has passed, or   *)
(* it does not get on, and then it ends in no array that is complete.      *)
WalkInv ==
    /\ machine \in Machines
    /\ at \in Nat \ {0} /\ tbl \in [Kinds -> Seq(Nat)]
    /\ walk \in {"no", "walking", "done", "overrun"}
    /\ walk = "no" => at = 1 /\ \A t \in Kinds : tbl[t] = << >>
    /\ walk = "walking" => Listed(at) \/ Stuck
    /\ walk = "done" => Listed(Len(Madt) + 1)
    /\ stage = "tags" => walk = "no"
    /\ stage \in {"apic", "ioapic", "hpet", "loop"} => walk = "done"
    /\ MadtComplete

(* The entries of the MADT. *)
LEMMA MachineFacts ==
    ASSUME machine \in Machines
    PROVE  /\ Madt \in Seq([type : STRING, length : Nat, irq : Nat, gsi : Nat])
           /\ DOMAIN Madt = 1 .. Len(Madt) /\ Len(Madt) \in Nat
           /\ \A t \in Kinds : /\ Positions(t) \subseteq 1 .. Len(Madt)
                               /\ IsFiniteSet(Positions(t))
<1>1. /\ Madt \in Seq([type : STRING, length : Nat, irq : Nat, gsi : Nat])
      /\ DOMAIN Madt = 1 .. Len(Madt) /\ Len(Madt) \in Nat
  BY StartupAssumption DEF Madt
<1>2. \A t \in Kinds : Positions(t) \subseteq 1 .. Len(Madt)
  BY <1>1 DEF Positions, Madt
<1>3. IsFiniteSet(1 .. Len(Madt))
  BY <1>1, FS_Interval
<1>4. QED BY <1>1, <1>2, <1>3, FS_Subset

(* The array of a kind, when it is full, lists as many entries as it has   *)
(* room for, and the entry behind them is one more.                        *)
LEMMA OneTooMany ==
    ASSUME machine \in Machines, tbl \in [Kinds -> Seq(Nat)], at \in Nat,
           Listed(at), NEW t \in Kinds, Len(tbl[t]) = Room, at \in Positions(t)
    PROVE  Cardinality(Positions(t)) > Room
<1> DEFINE all == {tbl[t][i] : i \in DOMAIN tbl[t]}
<1>1. /\ tbl[t] \in Seq(Nat) /\ DOMAIN tbl[t] = 1 .. Room /\ Room \in Nat
  BY StartupAssumption
<1>2. \A i, j \in 1 .. Room : i # j => tbl[t][i] # tbl[t][j]
  <2>1. ASSUME NEW i \in 1 .. Room, NEW j \in 1 .. Room, i < j
        PROVE  tbl[t][i] # tbl[t][j]
    <3>1. tbl[t][i] < tbl[t][j] /\ tbl[t][i] \in Nat /\ tbl[t][j] \in Nat
      BY <1>1, <2>1, SMTT(20) DEF Listed
    <3>2. QED BY <3>1
  <2>2. QED BY <1>1, <2>1
<1>3. [i \in 1 .. Room |-> tbl[t][i]] \in Bijection(1 .. Room, all)
  BY <1>1, <1>2 DEF Bijection, Injection, Surjection, IsInjective
<1>4. IsFiniteSet(all) /\ Cardinality(all) = Room
  <2>1. IsFiniteSet(1 .. Room) /\ Cardinality(1 .. Room) = Room
    BY <1>1, FS_Interval, StartupAssumption
  <2>2. ExistsBijection(1 .. Room, all)
    BY <1>3 DEF ExistsBijection
  <2>3. QED BY <2>1, <2>2, FS_Bijection
<1>5. all \subseteq Positions(t) /\ at \notin all
  BY DEF Listed
<1>6. Cardinality(all \cup {at}) = Room + 1
  BY <1>4, <1>5, FS_AddElement
<1>7. all \cup {at} \in SUBSET Positions(t) /\ IsFiniteSet(Positions(t))
  BY <1>5, MachineFacts
<1>8. /\ Cardinality(Positions(t)) \in Nat
      /\ Cardinality(all \cup {at}) <= Cardinality(Positions(t))
  BY <1>7, FS_Subset, FS_CardinalityType
<1>9. QED BY <1>1, <1>6, <1>8

(* At first nothing is listed. *)
LEMMA WalkInit == Init => WalkInv
<1> SUFFICES ASSUME Init PROVE WalkInv
  OBVIOUS
<1>1. /\ machine \in Machines /\ at = 1 /\ walk = "no" /\ stage = "tags"
      /\ tbl = [t \in Kinds |-> << >>]
  BY DEF Init, Acpi!Init, Kinds
<1>2. << >> \in Seq(Nat)
  OBVIOUS
<1>3. MadtComplete
  BY <1>1 DEF MadtComplete
<1>4. QED BY <1>1, <1>2, <1>3 DEF WalkInv

(* An entry is passed, or is found to have no length.                      *)
LEMMA EntryPassed ==
    ASSUME WalkInv, machine' = machine, Acpi!walk_entry(Madt), walk' = walk
    PROVE  /\ at' \in Nat \ {0} /\ tbl' \in [Kinds -> Seq(Nat)]
           /\ Listed(at)' \/ Stuck'
<1> DEFINE type == Madt[at].type
           p == at
<1>1. /\ walk = "walking" /\ p <= Len(Madt) /\ p \in Nat \ {0}
      /\ tbl \in [Kinds -> Seq(Nat)] /\ machine \in Machines
      /\ Listed(p) \/ Stuck
  BY DEF WalkInv, Acpi!walk_entry
<1>2. /\ tbl' = IF type \in Kinds
                THEN [tbl EXCEPT ![type] = Append(tbl[type], p)] ELSE tbl
      /\ at' = IF Madt[p].length = 0 THEN p ELSE p + 1
  BY <1>1 DEF Acpi!walk_entry, Acpi!Stored, Acpi!Behind, Kinds
<1>3. tbl' \in [Kinds -> Seq(Nat)]
  BY <1>1, <1>2
<1>4. p \in DOMAIN Madt /\ DOMAIN Madt = 1 .. Len(Madt)
  BY <1>1, MachineFacts
<1>5. CASE Stuck
  BY <1>1, <1>2, <1>3, <1>5 DEF Stuck, Madt
<1>6. CASE ~ Stuck
  <2>1. Listed(p) /\ at' = p + 1
    BY <1>1, <1>2, <1>4, <1>6 DEF Stuck
  <2>2. ASSUME NEW t \in Kinds
        PROVE  /\ {tbl'[t][i] : i \in DOMAIN tbl'[t]}
                        = {q \in Positions(t) : q < p + 1}
               /\ \A i, j \in DOMAIN tbl'[t] : i < j => tbl'[t][i] < tbl'[t][j]
    <3>1. /\ {tbl[t][i] : i \in DOMAIN tbl[t]} = {q \in Positions(t) : q < p}
          /\ \A i, j \in DOMAIN tbl[t] : i < j => tbl[t][i] < tbl[t][j]
          /\ Positions(t) \subseteq Nat /\ tbl[t] \in Seq(Nat)
      BY <1>1, <2>1, MachineFacts, SMTT(20) DEF Listed
    <3>2. CASE t = type
      <4>1. p \in Positions(t)
        BY <1>4, <3>2 DEF Positions, Madt
      <4>2. tbl'[t] = Append(tbl[t], p)
        BY <1>1, <1>2, <3>2
      <4>3. /\ DOMAIN tbl'[t] = 1 .. Len(tbl[t]) + 1 /\ Len(tbl[t]) \in Nat
            /\ DOMAIN tbl[t] = 1 .. Len(tbl[t])
            /\ \A i \in DOMAIN tbl[t] : tbl'[t][i] = tbl[t][i]
            /\ tbl'[t][Len(tbl[t]) + 1] = p
        BY <1>1, <3>1, <4>2
      <4>4. {tbl'[t][i] : i \in DOMAIN tbl'[t]}
                = {tbl[t][i] : i \in DOMAIN tbl[t]} \cup {p}
        <5>1. ASSUME NEW i \in DOMAIN tbl'[t]
              PROVE  tbl'[t][i] \in {tbl[t][j] : j \in DOMAIN tbl[t]} \cup {p}
          <6>1. i \in DOMAIN tbl[t] \/ i = Len(tbl[t]) + 1
            BY <4>3
          <6>2. QED BY <4>3, <6>1
        <5>2. \A j \in DOMAIN tbl[t] : j \in DOMAIN tbl'[t]
          BY <4>3
        <5>3. Len(tbl[t]) + 1 \in DOMAIN tbl'[t]
          BY <4>3
        <5>4. QED BY <4>3, <5>1, <5>2, <5>3
      <4>5. \A i \in DOMAIN tbl[t] : tbl[t][i] < p
        BY <3>1
      <4>6. {q \in Positions(t) : q < p + 1} = {q \in Positions(t) : q < p} \cup {p}
        BY <1>1, <3>1, <4>1
      <4>7. \A i, j \in DOMAIN tbl'[t] : i < j => tbl'[t][i] < tbl'[t][j]
        <5>1. SUFFICES ASSUME NEW i \in DOMAIN tbl'[t], NEW j \in DOMAIN tbl'[t],
                              i < j
                       PROVE  tbl'[t][i] < tbl'[t][j]
          OBVIOUS
        <5>2. i \in DOMAIN tbl[t]
          BY <4>3, <5>1
        <5>3. CASE j = Len(tbl[t]) + 1
          BY <4>3, <4>5, <5>2, <5>3
        <5>4. CASE j # Len(tbl[t]) + 1
          <6>1. j \in DOMAIN tbl[t]
            BY <4>3, <5>4
          <6>2. QED BY <3>1, <4>3, <5>1, <5>2, <6>1
        <5>5. QED BY <5>3, <5>4
      <4>8. QED BY <3>1, <4>4, <4>6, <4>7
    <3>3. CASE t # type
      <4>1. p \notin Positions(t)
        BY <3>3 DEF Positions, Madt
      <4>2. tbl'[t] = tbl[t]
        BY <1>1, <1>2, <3>3
      <4>3. {q \in Positions(t) : q < p + 1} = {q \in Positions(t) : q < p}
        BY <1>1, <3>1, <4>1
      <4>4. QED BY <3>1, <4>2, <4>3
    <3>4. QED BY <3>2, <3>3
  <2>3. \A t \in Kinds : Positions(t)' = Positions(t)
    BY DEF Positions
  <2>4. Listed(at)'
    BY <2>1, <2>2, <2>3 DEF Listed
  <2>5. at' \in Nat \ {0}
    BY <1>1, <2>1
  <2>6. QED BY <1>3, <2>4, <2>5
<1>7. QED BY <1>5, <1>6

(* Each step keeps the lists in order. *)
LEMMA WalkStep == WalkInv /\ [Next]_vars => WalkInv'
<1> SUFFICES ASSUME WalkInv, [Next]_vars PROVE WalkInv'
  OBVIOUS
<1>1. CASE stage = "acpi" /\ stage' = (CASE walk' = "overrun" -> "astray"
                                         [] walk' = "done" -> "apic"
                                         [] OTHER -> "acpi")
           /\ Acpi!Walk(machine.madt) /\ machine' = machine
  <2>1. CASE Acpi!acpi_init_madt
    <3>1. /\ walk = "no" /\ walk' = "walking" /\ at' = at /\ tbl' = tbl
          /\ stage' = "acpi" /\ machine' = machine
      BY <1>1, <2>1 DEF Acpi!acpi_init_madt
    <3>2. at = 1 /\ \A t \in Kinds : tbl[t] = << >>
      BY <3>1 DEF WalkInv
    <3>3. \A t \in Kinds : {q \in Positions(t) : q < 1} = {}
      BY MachineFacts DEF WalkInv
    <3>4. Listed(at)'
      BY <3>1, <3>2, <3>3 DEF Listed, Positions
    <3>5. QED BY <3>1, <3>4 DEF WalkInv, MadtComplete
  <2>2. CASE Acpi!walk_entry(machine.madt) /\ walk' = walk
    <3>1. walk = "walking" /\ walk' = "walking" /\ stage' = "acpi"
      BY <1>1, <2>2 DEF Acpi!walk_entry
    <3>2. /\ at' \in Nat \ {0} /\ tbl' \in [Kinds -> Seq(Nat)]
          /\ Listed(at)' \/ Stuck'
      BY <1>1, <2>2, EntryPassed DEF Madt
    <3>3. QED BY <1>1, <3>1, <3>2 DEF WalkInv, MadtComplete
  <2>3. CASE Acpi!walk_entry(machine.madt) /\ walk' # walk
    <3>1. /\ walk = "walking" /\ walk' = "overrun" /\ stage' = "astray"
          /\ at' = at /\ tbl' = tbl /\ at <= Len(Madt)
          /\ Madt[at].type \in Kinds /\ Len(tbl[Madt[at].type]) = Room
      BY <1>1, <2>3 DEF Acpi!walk_entry, Madt, Kinds
    <3>2. at \in DOMAIN Madt /\ at \in Positions(Madt[at].type)
      BY <3>1, MachineFacts DEF WalkInv, Positions, Madt
    <3>3. \E t \in Kinds : \/ Cardinality(Positions(t)) > Room
                           \/ \E i \in Positions(t) : Madt[i].length = 0
      <4>1. CASE Stuck
        BY <3>1, <3>2, <4>1 DEF Stuck
      <4>2. CASE ~ Stuck
        <5>1. Listed(at)
          BY <3>1, <4>2 DEF WalkInv
        <5>2. Cardinality(Positions(Madt[at].type)) > Room
          BY <3>1, <3>2, <5>1, OneTooMany DEF WalkInv
        <5>3. QED BY <3>1, <5>2
      <4>3. QED BY <4>1, <4>2
    <3>4. MadtComplete'
      BY <1>1, <3>1, <3>3 DEF MadtComplete, Positions, Madt, Kinds
    <3>5. QED BY <1>1, <3>1, <3>4 DEF WalkInv
  <2>4. CASE Acpi!walk_end(machine.madt)
    <3>1. /\ walk = "walking" /\ walk' = "done" /\ stage' = "apic"
          /\ at' = at /\ tbl' = tbl /\ at > Len(Madt)
      BY <1>1, <2>4 DEF Acpi!walk_end, Madt
    <3>2. ~ Stuck /\ Listed(at)
      BY <3>1, MachineFacts DEF WalkInv, Stuck
    <3>3. \A t \in Kinds : /\ {q \in Positions(t) : q < at} = Positions(t)
                           /\ {q \in Positions(t) : q < Len(Madt) + 1} = Positions(t)
      BY <3>1, MachineFacts DEF WalkInv
    <3>4. Listed(Len(Madt) + 1)' /\ MadtComplete'
      BY <1>1, <3>1, <3>2, <3>3 DEF Listed, MadtComplete, Positions, Madt, Kinds
    <3>5. QED BY <1>1, <3>1, <3>4 DEF WalkInv
  <2>5. QED BY <1>1, <2>1, <2>2, <2>3, <2>4 DEF Acpi!Walk
<1>2. ASSUME machine' = machine, UNCHANGED madtVars,
             stage' = "tags" => stage = "tags",
             stage' \in {"apic", "ioapic", "hpet", "loop"} =>
                stage \in {"apic", "ioapic", "hpet", "loop"}
      PROVE  WalkInv'
  <2>1. at' = at /\ tbl' = tbl /\ walk' = walk /\ machine' = machine
    BY <1>2 DEF madtVars
  <2>2. \A t : Positions(t)' = Positions(t)
    BY <2>1 DEF Positions
  <2>3. MadtComplete'
    BY <2>1, <2>2 DEF WalkInv, MadtComplete
  <2>4. /\ Listed(at)' = Listed(at) /\ Stuck' = Stuck
        /\ Listed(Len(Madt) + 1)' = Listed(Len(Madt) + 1)
    BY <2>1, <2>2 DEF Listed, Stuck, Madt
  <2>5. QED BY <1>2, <2>1, <2>3, <2>4 DEF WalkInv
<1>3. CASE Boot
  <2>1. CASE cmdline_parse
    BY <1>2, <2>1 DEF cmdline_parse, Others
  <2>2. CASE read_args
    BY <1>2, <2>2 DEF read_args, Others
  <2>3. CASE acpi_init
    BY <1>1, <2>3 DEF acpi_init, Others
  <2>4. CASE apic_init
    BY <1>2, <2>4 DEF apic_init, Others
  <2>5. CASE ioapic_init
    BY <1>2, <2>5 DEF ioapic_init, Others
  <2>6. CASE timer_init
    BY <1>2, <2>6 DEF timer_init, Others
  <2>7. QED BY <1>3, <2>1, <2>2, <2>3, <2>4, <2>5, <2>6 DEF Boot
<1>4. CASE MainLoop
  <2>1. machine' = machine /\ stage' = stage /\ UNCHANGED madtVars
    BY <1>4
    DEF MainLoop, set_masks, call_usleep, run_usleep, run_counter, interrupt,
        iret, InLoop, Loop
  <2>2. QED BY <1>2, <2>1
<1>5. CASE UNCHANGED vars
  BY <1>2, <1>5 DEF vars
<1>6. QED BY <1>3, <1>4, <1>5 DEF Next

(* Each array lists the entries of its kind, all of them and in order,     *)
(* when the walk ends, and it runs over an array only if that has no room  *)
(* or an entry no length, for every MADT (acpi.c:61-87).                   *)
THEOREM MadtIsRead == Spec => []MadtComplete
<1>1. WalkInv => MadtComplete
  BY DEF WalkInv
<1>2. QED BY WalkInit, WalkStep, <1>1, PTL DEF Spec

-----------------------------------------------------------------------------
(* The redirection table.                                                  *)

GsiLines == 0 .. machine.gsis - 1
Redirections == [vector : Nat, masked : BOOLEAN]

(* The number of a register fits the byte it is written to. *)
LEMMA EntryNumbers ==
    \A n \in 0 .. 119 : n % 256 = n /\ (16 + 2 * n) % 256 = 16 + 2 * n
  OBVIOUS

(* No two registers of an I/O APIC of this size have one number, and the   *)
(* number of an entry reaches that entry (ioapic.h:17).                    *)
LEMMA EntryOf ==
    ASSUME machine \in Machines, DOMAIN redtbl = GsiLines, NEW n \in 0 .. 119
    PROVE  Io!Entries(n) = {n} \cap GsiLines
<1>1. machine.gsis \in 0 .. 120
  BY StartupAssumption
<1>2. n % 256 = n /\ (16 + 2 * n) % 256 = 16 + 2 * n
  OBVIOUS
<1>3. Io!IOAPICREDTBL(n) = 16 + 2 * n
  BY <1>2 DEF Io!IOAPICREDTBL
<1>4. \A e \in GsiLines : 16 + 2 * e = 16 + 2 * n <=> e = n
  BY <1>1 DEF GsiLines
<1>5. QED BY <1>3, <1>4 DEF Io!Entries

(* The loop over the overrides maps the line of each under its vector, if  *)
(* no two have the same line (ioapic.c:124).                               *)
LEMMA OverridesMapped ==
    ASSUME machine \in Machines, DOMAIN redtbl = GsiLines,
           NEW rt \in [GsiLines -> Redirections],
           NEW ov, Len(ov) \in Nat,
           \A i \in 1 .. Len(ov) : ov[i].gsi \in 0 .. 119 /\ ov[i].irq \in Nat,
           \A i, j \in 1 .. Len(ov) : i # j => ov[i].gsi # ov[j].gsi
    PROVE  /\ Io!map_overrides(rt, ov) \in [GsiLines -> Redirections]
           /\ \A i \in 1 .. Len(ov) :
                ov[i].gsi \in GsiLines =>
                    Io!map_overrides(rt, ov)[ov[i].gsi] =
                        [vector |-> ov[i].irq + 32, masked |-> TRUE]
           /\ \A e \in GsiLines :
                (\A i \in 1 .. Len(ov) : ov[i].gsi # e) =>
                    Io!map_overrides(rt, ov)[e] = rt[e]
<1> DEFINE n == Len(ov)
           R == [GsiLines -> Redirections]
           Mapped(r, i) == Io!map_redtbl_entry(r, ov[i].gsi, ov[i].irq)
           step == [p \in (1 .. n) \X R |-> Mapped(p[2], p[1])]
           after == CHOOSE f : f = [i \in 0 .. n |-> IF i = 0 THEN rt
                                                     ELSE Mapped(f[i - 1], i)]
<1>1. ASSUME NEW i \in 1 .. n, NEW r \in R
      PROVE  /\ Mapped(r, i) \in R
             /\ \A e \in GsiLines : Mapped(r, i)[e] =
                    IF e = ov[i].gsi
                    THEN [vector |-> ov[i].irq + 32, masked |-> TRUE] ELSE r[e]
  <2>1. Io!Entries(ov[i].gsi) = {ov[i].gsi} \cap GsiLines
    BY EntryOf
  <2>2. Mapped(r, i) = [e \in GsiLines |->
                IF e = ov[i].gsi
                THEN [vector |-> ov[i].irq + 32, masked |-> TRUE] ELSE r[e]]
    BY <2>1 DEF Io!map_redtbl_entry, Io!IDT_EXCEPTIONS
  <2>3. [vector |-> ov[i].irq + 32, masked |-> TRUE] \in Redirections
    BY DEF Redirections
  <2>4. QED BY <2>2, <2>3
<1>2. Io!map_overrides(rt, ov) = after[n]
  BY DEF Io!map_overrides
<1>3. \A i \in 1 .. n, r \in R : step[<<i, r>>] = Mapped(r, i)
  BY DEF step
<1> HIDE DEF Mapped, step, R, n, after
<1>4. n \in Nat /\ rt \in R
  BY DEF n, R
<1>5. step \in [(1 .. n) \X R -> R]
  <2>1. \A i \in 1 .. n, r \in R : Mapped(r, i) \in R
    BY <1>1
  <2>2. QED BY <2>1 DEF step
<1>6. PICK f : IsLoop(f, R, rt, n, step)
  BY <1>4, <1>5, LoopExists
<1>7. f = [i \in 0 .. n |-> IF i = 0 THEN rt ELSE Mapped(f[i - 1], i)]
  <2>1. ASSUME NEW i \in 1 .. n
        PROVE  f[i] = Mapped(f[i - 1], i)
    <3>1. f[i - 1] \in R
      BY <1>4, <1>6 DEF IsLoop
    <3>2. QED BY <1>3, <1>6, <3>1 DEF IsLoop
  <2>2. QED BY <1>4, <1>6, <2>1 DEF IsLoop
<1>8. after = [i \in 0 .. n |-> IF i = 0 THEN rt ELSE Mapped(after[i - 1], i)]
  BY <1>7 DEF after
<1> DEFINE Good(k) ==
        /\ after[k] \in R
        /\ \A i \in 1 .. k : ov[i].gsi \in GsiLines =>
                after[k][ov[i].gsi] = [vector |-> ov[i].irq + 32, masked |-> TRUE]
        /\ \A e \in GsiLines :
                (\A i \in 1 .. k : ov[i].gsi # e) => after[k][e] = rt[e]
           bad == {k \in 0 .. n : ~ Good(k)}
<1>9. Good(0)
  BY <1>4, <1>8
<1>10. ASSUME NEW k \in 1 .. n, Good(k - 1)
       PROVE  Good(k)
  <2>1. after[k] = Mapped(after[k - 1], k) /\ after[k - 1] \in R
    <3>1. after[k - 1] \in R
      BY <1>10
    <3> HIDE DEF Good, bad
    <3>2. k \in 0 .. n /\ k # 0
      BY <1>4
    <3>3. after[k] = Mapped(after[k - 1], k)
      BY <1>8, <3>2
    <3>4. QED BY <3>1, <3>3
  <2>2. /\ after[k] \in R
        /\ \A e \in GsiLines : after[k][e] =
                IF e = ov[k].gsi THEN [vector |-> ov[k].irq + 32, masked |-> TRUE]
                ELSE after[k - 1][e]
    BY <1>1, <2>1
  <2>3. ASSUME NEW i \in 1 .. k, ov[i].gsi \in GsiLines
        PROVE  after[k][ov[i].gsi] = [vector |-> ov[i].irq + 32, masked |-> TRUE]
    <3>1. CASE i = k
      BY <2>2, <2>3, <3>1
    <3>2. CASE i # k
      <4>1. i \in 1 .. k - 1 /\ i \in 1 .. Len(ov) /\ k \in 1 .. Len(ov)
        BY <1>4, <3>2 DEF n
      <4>2. ov[i].gsi # ov[k].gsi
        BY <3>2, <4>1
      <4>3. QED BY <1>10, <2>2, <2>3, <4>1, <4>2
    <3>3. QED BY <3>1, <3>2
  <2>4. ASSUME NEW e \in GsiLines, \A i \in 1 .. k : ov[i].gsi # e
        PROVE  after[k][e] = rt[e]
    <3>1. k \in 1 .. k /\ \A i \in 1 .. k - 1 : i \in 1 .. k
      BY <1>4
    <3>2. QED BY <1>10, <2>2, <2>4, <3>1
  <2>5. QED BY <2>2, <2>3, <2>4
<1>11. bad = {}
  <2>1. SUFFICES ASSUME bad # {} PROVE FALSE
    OBVIOUS
  <2>2. bad \in SUBSET Nat
    BY <1>4
  <2>3. PICK k \in bad : \A j \in bad : k <= j
    <3> HIDE DEF bad
    <3> QED BY <2>1, <2>2, LeastElement
  <2>4. k \in 0 .. n /\ ~ Good(k)
    BY <2>3
  <2> HIDE DEF Good
  <2>5. k \in 1 .. n /\ k - 1 \in 0 .. n /\ k - 1 \notin bad
    BY <1>4, <1>9, <2>2, <2>3, <2>4
  <2>6. QED BY <1>10, <2>4, <2>5
<1>12. Good(n)
  BY <1>4, <1>11
<1>13. QED BY <1>2, <1>12 DEF n, R

(* The array of overrides holds each override of the MADT once.            *)
LEMMA OverridesListed ==
    ASSUME WalkInv, walk = "done", Plain
    PROVE  /\ Len(ioso_apic) \in Nat
           /\ \A i \in 1 .. Len(ioso_apic) :
                /\ \E o \in Overrides : ioso_apic[i].irq = Irq(o)
                                        /\ ioso_apic[i].gsi = Gsi(o)
                /\ ioso_apic[i].gsi \in GsiLines /\ ioso_apic[i].gsi \in 0 .. 119
                /\ ioso_apic[i].irq \in Nat
           /\ \A o \in Overrides : \E i \in 1 .. Len(ioso_apic) :
                ioso_apic[i].irq = Irq(o) /\ ioso_apic[i].gsi = Gsi(o)
           /\ \A i, j \in 1 .. Len(ioso_apic) :
                i # j => /\ ioso_apic[i].irq # ioso_apic[j].irq
                         /\ ioso_apic[i].gsi # ioso_apic[j].gsi
<1> DEFINE ptr == tbl["ioso_apic"]
<1>1. /\ ptr \in Seq(Nat) /\ "ioso_apic" \in Kinds
      /\ {ptr[i] : i \in DOMAIN ptr} = Overrides
      /\ \A i, j \in DOMAIN ptr : i < j => ptr[i] < ptr[j]
  <2>1. "ioso_apic" \in Kinds
    BY DEF Kinds, Acpi!EntryTypes
  <2>2. ptr \in Seq(Nat)
    BY <2>1 DEF WalkInv
  <2>3. QED BY <2>1, <2>2 DEF WalkInv, MadtComplete, Kinds, Overrides
<1> HIDE DEF ptr
<1>2. DOMAIN ptr = 1 .. Len(ptr) /\ Len(ptr) \in Nat
  <2>1. ptr \in Seq(Nat)
    BY <1>1
  <2>2. QED BY <2>1
<1>3. \A i \in DOMAIN ptr : ptr[i] \in Overrides
  BY <1>1
<1>4. \A o \in Overrides : Madt[o] \in [type : STRING, length : Nat, irq : Nat, gsi : Nat]
  <2>1. /\ Madt \in Seq([type : STRING, length : Nat, irq : Nat, gsi : Nat])
        /\ DOMAIN Madt = 1 .. Len(Madt)
    BY MachineFacts DEF WalkInv
  <2>2. Overrides \subseteq 1 .. Len(Madt)
    BY <2>1 DEF Overrides, Positions, Madt
  <2>3. \A n \in 1 .. Len(Madt) :
            Madt[n] \in [type : STRING, length : Nat, irq : Nat, gsi : Nat]
    <3>1. PICK R : R = [type : STRING, length : Nat, irq : Nat, gsi : Nat]
      OBVIOUS
    <3>2. Madt \in Seq(R)
      BY <2>1, <3>1
    <3>3. \A n \in 1 .. Len(Madt) : Madt[n] \in R
      BY <3>2
    <3>4. QED BY <3>1, <3>3
  <2>4. QED BY <2>2, <2>3
<1>5. ioso_apic = [i \in 1 .. Len(ptr) |-> Madt[ptr[i]]]
  BY <1>2 DEF ioso_apic, Madt, ptr
<1>6. ioso_apic \in Seq([type : STRING, length : Nat, irq : Nat, gsi : Nat])
  BY <1>2, <1>3, <1>4, <1>5
<1>7. Len(ioso_apic) = Len(ptr)
  BY <1>2, <1>5, <1>6
<1>8. \A i \in 1 .. Len(ptr) : /\ ioso_apic[i].irq = Irq(ptr[i])
                               /\ ioso_apic[i].gsi = Gsi(ptr[i])
  BY <1>5 DEF Irq, Gsi, Madt
<1>9. ASSUME NEW i \in 1 .. Len(ptr), NEW j \in 1 .. Len(ptr), i # j
      PROVE  ptr[i] # ptr[j]
  <2>1. ptr[i] \in Nat /\ ptr[j] \in Nat
    BY <1>1
  <2>2. CASE i < j
    BY <1>1, <1>2, <2>1, <2>2
  <2>3. CASE j < i
    BY <1>1, <1>2, <2>1, <2>3
  <2>4. QED BY <1>9, <2>2, <2>3
<1>10. \A o \in Overrides : Irq(o) \in Nat /\ Gsi(o) \in GsiLines /\ Gsi(o) \in 0 .. 119
  <2> SUFFICES ASSUME NEW o \in Overrides
               PROVE  Irq(o) \in Nat /\ Gsi(o) \in GsiLines /\ Gsi(o) \in 0 .. 119
    OBVIOUS
  <2>1. Irq(o) \in Nat /\ Gsi(o) \in Nat /\ Gsi(o) < machine.gsis
    BY <1>4 DEF Irq, Gsi, Madt, Plain
  <2>2. machine.gsis \in 0 .. 120
    BY StartupAssumption DEF WalkInv
  <2>3. QED BY <2>1, <2>2 DEF GsiLines
<1>11. \A o \in Overrides : \E i \in 1 .. Len(ptr) : ptr[i] = o
  BY <1>1, <1>2
<1>12. \A i, j \in 1 .. Len(ptr) :
            i # j => /\ Irq(ptr[i]) # Irq(ptr[j]) /\ Gsi(ptr[i]) # Gsi(ptr[j])
  BY <1>2, <1>3, <1>9 DEF Plain
<1>13. ASSUME NEW i \in 1 .. Len(ptr)
       PROVE  /\ \E o \in Overrides : ioso_apic[i].irq = Irq(o)
                                      /\ ioso_apic[i].gsi = Gsi(o)
              /\ ioso_apic[i].gsi \in GsiLines /\ ioso_apic[i].gsi \in 0 .. 119
              /\ ioso_apic[i].irq \in Nat
  <2>1. ptr[i] \in Overrides
    BY <1>2, <1>3
  <2>2. QED BY <1>8, <1>10, <2>1
<1>14. \A i, j \in 1 .. Len(ptr) :
            i # j => /\ ioso_apic[i].irq # ioso_apic[j].irq
                     /\ ioso_apic[i].gsi # ioso_apic[j].gsi
  BY <1>8, <1>12
<1>15. \A o \in Overrides : \E i \in 1 .. Len(ptr) :
            ioso_apic[i].irq = Irq(o) /\ ioso_apic[i].gsi = Gsi(o)
  BY <1>8, <1>11
<1>16. QED BY <1>2, <1>7, <1>13, <1>14, <1>15

(* An IRQ with an override has the line of that, any other the line of its *)
(* number.                                                                 *)
LEMMA LineIs ==
    ASSUME WalkInv, walk = "done", Plain, NEW irq
    PROVE  /\ \A o \in Overrides : Irq(o) = irq => LineOf(irq) = Gsi(o)
           /\ (\A o \in Overrides : Irq(o) # irq) => LineOf(irq) = irq
  BY DEF LineOf, Plain

(* ioapic_mask and ioapic_unmask find the line of an IRQ, but for IRQ 0    *)
(* (ioapic.c:64-76).                                                       *)
LEMMA LineFound ==
    ASSUME WalkInv, walk = "done", Plain, NEW irq
    PROVE  Io!Line(ioso_apic, irq) = IF irq = 0 THEN 0 ELSE LineOf(irq)
<1> DEFINE ov == ioso_apic
<1>1. CASE irq = 0
  BY <1>1 DEF Io!Line
<1>2. CASE irq # 0 /\ \E o \in Overrides : Irq(o) = irq
  <2>1. PICK o \in Overrides : Irq(o) = irq
    BY <1>2
  <2>2. PICK i \in 1 .. Len(ov) : ov[i].irq = irq /\ ov[i].gsi = Gsi(o)
    BY <2>1, OverridesListed
  <2>3. Io!OverrideOf(ov, irq) = {i}
    <3>1. \A j \in 1 .. Len(ov) : ov[j].irq = irq => j = i
      BY <2>2, OverridesListed
    <3>2. \A p \in 1 .. i - 1 : p \in 1 .. Len(ov) /\ p # i
      BY <2>2, OverridesListed
    <3>3. QED BY <2>2, <3>1, <3>2 DEF Io!OverrideOf
  <2>4. Io!Line(ov, irq) = ov[i].gsi % 256
    BY <1>2, <2>3 DEF Io!Line
  <2>5. Gsi(o) \in 0 .. 119
    BY <2>2, OverridesListed
  <2>6. Gsi(o) % 256 = Gsi(o)
    BY <2>5, EntryNumbers
  <2>7. LineOf(irq) = Gsi(o)
    BY <2>1, LineIs
  <2>8. QED BY <1>2, <2>2, <2>4, <2>6, <2>7
<1>3. CASE irq # 0 /\ \A o \in Overrides : Irq(o) # irq
  <2>1. Io!OverrideOf(ov, irq) = {}
    BY <1>3, OverridesListed DEF Io!OverrideOf
  <2>2. QED BY <1>3, <2>1, LineIs DEF Io!Line
<1>4. QED BY <1>1, <1>2, <1>3

(* The lines of IRQs are in the table, and no two are the same.            *)
LEMMA LinesApart ==
    ASSUME WalkInv, walk = "done", Plain,
           NEW p \in Nat, HasLine(p)
    PROVE  /\ LineOf(p) \in GsiLines /\ LineOf(p) \in 0 .. 119
           /\ \A q \in Nat : HasLine(q) /\ q # p => LineOf(q) # LineOf(p)
<1>1. machine.gsis \in 0 .. 120
  BY StartupAssumption DEF WalkInv
<1>2. \A o \in Overrides : Gsi(o) \in GsiLines
  <2>1. ASSUME NEW o \in Overrides PROVE Gsi(o) \in GsiLines
    <3>1. PICK i \in 1 .. Len(ioso_apic) : ioso_apic[i].gsi = Gsi(o)
      BY OverridesListed
    <3>2. ioso_apic[i].gsi \in GsiLines
      BY OverridesListed
    <3>3. QED BY <3>1, <3>2
  <2>2. QED BY <2>1
<1>3. ASSUME NEW q \in Nat, HasLine(q)
      PROVE  /\ q \in GsiLines
             /\ \/ \E o \in Overrides : Irq(o) = q /\ LineOf(q) = Gsi(o)
                \/ LineOf(q) = q /\ \A o \in Overrides : Gsi(o) # q
  BY <1>1, <1>3, LineIs DEF HasLine, GsiLines
<1>4. LineOf(p) \in GsiLines
  BY <1>2, <1>3
<1>5. ASSUME NEW q \in Nat, HasLine(q), q # p
      PROVE  LineOf(q) # LineOf(p)
  BY <1>3, <1>5 DEF Plain
<1>6. LineOf(p) \in 0 .. 119
  BY <1>1, <1>4 DEF GsiLines
<1>7. QED BY <1>4, <1>5, <1>6

(* ioapic_init leaves the line of an IRQ masked under the vector of that   *)
(* IRQ (ioapic.c:105-139).                                                 *)
LEMMA TableMapped ==
    ASSUME WalkInv, walk = "done", Plain,
           redtbl \in [GsiLines -> Redirections], Io!ioapic_init(ioso_apic)
    PROVE  /\ redtbl' \in [GsiLines -> Redirections]
           /\ max_redir' = machine.gsis /\ wanted' = {} /\ loose' = {}
           /\ \A irq \in Io!IRQs : HasLine(irq) =>
                redtbl'[LineOf(irq)] = [vector |-> irq + 32, masked |-> TRUE]
<1> DEFINE ov == ioso_apic
           first == Io!mask_entries(redtbl)
           second == Io!map_overrides(first, ov)
<1>1. DOMAIN redtbl = GsiLines /\ machine \in Machines
        /\ machine.gsis \in 0 .. 120
  BY StartupAssumption DEF WalkInv
<1>2. max_redir' = machine.gsis /\ wanted' = {} /\ loose' = {}
  <2> HIDE DEF ov, first, second
  <2>1. PICK g \in 0 .. 120 : g = machine.gsis
    BY <1>1
  <2>2. g \in Nat /\ 0 \in Int /\ g - 1 \in Int
    OBVIOUS
  <2>3. Cardinality(0 .. g - 1) = IF 0 > g - 1 THEN 0 ELSE (g - 1) - 0 + 1
    BY <2>2, FS_Interval
  <2>4. Cardinality(GsiLines) = g
    BY <2>1, <2>2, <2>3 DEF GsiLines
  <2>5. g % 256 = g
    BY <2>2
  <2>6. /\ max_redir' = Cardinality(DOMAIN redtbl) % 256
        /\ wanted' = {} /\ loose' = {}
    BY DEF Io!ioapic_init, Io!Cardinality, Cardinality
  <2>7. QED BY <1>1, <2>1, <2>4, <2>5, <2>6
<1>3. first \in [GsiLines -> Redirections]
  <2> HIDE DEF ov, first, second
  <2>1. \A e \in GsiLines : redtbl[e] \in Redirections /\ e <= max_redir'
    <3>1. PICK g \in 0 .. 120 : g = machine.gsis
      BY <1>1
    <3>2. \A e \in 0 .. g - 1 : e <= g
      OBVIOUS
    <3>3. QED BY <1>2, <3>1, <3>2 DEF GsiLines
  <2>2. \A e \in GsiLines :
            [redtbl[e] EXCEPT !.masked = @ \/ e <= max_redir'] \in Redirections
    BY <2>1 DEF Redirections
  <2>3. QED BY <1>1, <2>2 DEF Io!mask_entries, first
<1> HIDE DEF first
<1>4. /\ second \in [GsiLines -> Redirections]
      /\ \A i \in 1 .. Len(ov) : second[ov[i].gsi] =
                [vector |-> ov[i].irq + 32, masked |-> TRUE]
  <2>1. /\ Len(ov) \in Nat
        /\ \A i \in 1 .. Len(ov) : /\ ov[i].gsi \in 0 .. 119 /\ ov[i].irq \in Nat
                                   /\ ov[i].gsi \in GsiLines
        /\ \A i, j \in 1 .. Len(ov) : i # j => ov[i].gsi # ov[j].gsi
    BY OverridesListed
  <2>2. QED BY <1>1, <1>3, <2>1, OverridesMapped
<1>5. redtbl' = [e \in GsiLines |->
                    IF e \in Io!IRQs \ Io!irq_map(ov)
                    THEN [vector |-> e + 32, masked |-> TRUE] ELSE second[e]]
  BY <1>4 DEF Io!ioapic_init, Io!map_irqs, Io!IDT_EXCEPTIONS, first
<1> HIDE DEF second, ov
<1>6. redtbl' \in [GsiLines -> Redirections]
  <2>1. \A e \in Io!IRQs : [vector |-> e + 32, masked |-> TRUE] \in Redirections
    BY DEF Io!IRQs, Io!NUM_IRQ, Redirections
  <2>2. QED BY <1>4, <1>5, <2>1
<1>7. ASSUME NEW irq \in Io!IRQs, HasLine(irq)
      PROVE  redtbl'[LineOf(irq)] = [vector |-> irq + 32, masked |-> TRUE]
  <2>1. irq \in Nat /\ LineOf(irq) \in GsiLines
    BY <1>7, LinesApart DEF Io!IRQs, Io!NUM_IRQ
  <2>2. CASE \E o \in Overrides : Irq(o) = irq
    <3>1. PICK o \in Overrides : Irq(o) = irq /\ LineOf(irq) = Gsi(o)
      BY <2>2, LineIs
    <3>2. PICK i \in 1 .. Len(ov) : ov[i].irq = irq /\ ov[i].gsi = LineOf(irq)
      BY <3>1, OverridesListed DEF ov
    <3>3. LineOf(irq) \notin Io!IRQs \ Io!irq_map(ov)
      BY <3>2 DEF Io!irq_map
    <3>4. QED BY <1>4, <1>5, <2>1, <3>2, <3>3
  <2>3. CASE \A o \in Overrides : Irq(o) # irq
    <3>1. LineOf(irq) = irq /\ \A o \in Overrides : Gsi(o) # irq
      BY <1>7, <2>3, LineIs DEF HasLine
    <3>2. \A i \in 1 .. Len(ov) : ov[i].gsi # irq
      BY <3>1, OverridesListed DEF ov
    <3>3. irq \notin Io!irq_map(ov)
      BY <3>2 DEF Io!irq_map
    <3>4. QED BY <1>5, <2>1, <3>1, <3>3
  <2>4. QED BY <2>2, <2>3
<1>8. QED BY <1>2, <1>6, <1>7

(* A request that names an IRQ with a line reaches that line, and the line *)
(* of no other IRQ (ioapic.c:64-89).                                       *)
LEMMA RequestHits ==
    ASSUME WalkInv, walk = "done", Plain, NamesLines,
           NEW r \in machine.irqs
    PROVE  /\ r \in Nat /\ HasLine(r)
           /\ Io!Line(ioso_apic, r) = LineOf(r)
           /\ LineOf(r) \in GsiLines /\ LineOf(r) \in 0 .. 119
           /\ \A q \in Io!IRQs : HasLine(q) =>
                (LineOf(q) = LineOf(r) <=> q = r)
<1>1. r \in Nat
  <2>1. machine.irqs \subseteq 0 .. 255
    BY StartupAssumption DEF WalkInv
  <2>2. QED BY <2>1
<1>2. r # 0 /\ HasLine(r)
  BY DEF NamesLines
<1>3. Io!Line(ioso_apic, r) = LineOf(r)
  BY <1>1, <1>2, LineFound
<1>4. /\ LineOf(r) \in GsiLines /\ LineOf(r) \in 0 .. 119
      /\ \A q \in Nat : HasLine(q) /\ q # r => LineOf(q) # LineOf(r)
  BY <1>1, <1>2, LinesApart
<1>5. \A q \in Io!IRQs : q \in Nat
  BY DEF Io!IRQs, Io!NUM_IRQ
<1>6. QED BY <1>1, <1>2, <1>3, <1>4, <1>5

(* What a change of masks leaves of the table.                             *)
MasksSet(hit, bit) ==
    redtbl' = [e \in DOMAIN redtbl |->
                IF e \in hit THEN [redtbl[e] EXCEPT !.masked = bit]
                ELSE redtbl[e]]

(* The mask functions change masks and no vector. *)
LEMMA MasksOnly ==
    ASSUME redtbl \in [GsiLines -> Redirections], NEW hit, NEW bit \in BOOLEAN,
           MasksSet(hit, bit)
    PROVE  /\ redtbl' \in [GsiLines -> Redirections]
           /\ \A e \in GsiLines :
                /\ redtbl'[e].vector = redtbl[e].vector
                /\ redtbl'[e].masked = IF e \in hit THEN bit ELSE redtbl[e].masked
<1>1. \A x \in Redirections : /\ [x EXCEPT !.masked = bit] \in Redirections
                              /\ [x EXCEPT !.masked = bit].vector = x.vector
                              /\ [x EXCEPT !.masked = bit].masked = bit
  BY DEF Redirections
<1>2. \A e \in GsiLines : redtbl[e] \in Redirections
  OBVIOUS
<1>3. DOMAIN redtbl = GsiLines
  OBVIOUS
<1>4. QED BY <1>1, <1>2, <1>3 DEF MasksSet

(* What SetMask does to the table.                                         *)
LEMMA RequestSets ==
    ASSUME WalkInv, walk = "done", Plain, NEW r \in machine.irqs,
           redtbl \in [GsiLines -> Redirections], max_redir = machine.gsis,
           NEW bit \in BOOLEAN,
           redtbl' = Io!SetMask(redtbl, Io!Line(ioso_apic, r), bit)
    PROVE  \E hit : /\ MasksSet(hit, bit)
                    /\ NamesLines => hit = {LineOf(r)}
<1> DEFINE n == Io!Line(ioso_apic, r)
           hit == IF n > max_redir THEN {} ELSE Io!Entries(n)
<1> HIDE DEF n
<1>1. MasksSet(hit, bit)
  <2>1. CASE n > max_redir
    BY <2>1 DEF Io!SetMask, MasksSet, n
  <2>2. CASE ~ (n > max_redir)
    BY <2>2 DEF Io!SetMask, MasksSet, n
  <2>3. QED BY <2>1, <2>2
<1>2. ASSUME NamesLines PROVE hit = {LineOf(r)}
  <2>1. n = LineOf(r) /\ n \in 0 .. 119 /\ n \in GsiLines
    BY <1>2, RequestHits DEF n
  <2>2. PICK g \in 0 .. 120 : g = machine.gsis
    BY StartupAssumption DEF WalkInv
  <2>3. ~ (n > max_redir)
    <3>1. n \in 0 .. g - 1
      BY <2>1, <2>2 DEF GsiLines
    <3>2. ~ (n > g)
      BY <3>1
    <3>3. QED BY <2>2, <3>2
  <2>4. Io!Entries(n) = {n} \cap GsiLines
    BY <2>1, EntryOf DEF WalkInv
  <2>5. QED BY <2>1, <2>3, <2>4
<1>3. QED BY <1>1, <1>2

(* The calls for all IRQs change masks too.                                *)
LEMMA AllSet ==
    ASSUME NEW bit \in BOOLEAN, redtbl' = Io!SetAll(ioso_apic, bit)
    PROVE  \E hit : MasksSet(hit, bit)
<1> DEFINE lines == {Io!Line(ioso_apic, v) : v \in 32 .. 47} \cap 0 .. max_redir
           hit == UNION {Io!Entries(k) : k \in lines}
<1>1. MasksSet(hit, bit)
  BY DEF Io!SetAll, MasksSet, Io!IDT_EXCEPTIONS, Io!NUM_IRQ
<1>2. QED BY <1>1

-----------------------------------------------------------------------------
(* The vectors and masks.                                                  *)

(* The inductive invariant: besides the two properties, that there is an   *)
(* entry for every line and that the driver knows how many there are.      *)
TableInv ==
    /\ WalkInv
    /\ Plain =>
        /\ redtbl \in [GsiLines -> Redirections]
        /\ stage \in {"hpet", "loop"} => max_redir = machine.gsis
    /\ RoutesToVector
    /\ MaskFollowsRequests

(* Before ioapic_init the table is the firmware's. *)
LEMMA TableInit == Init => TableInv
<1> SUFFICES ASSUME Init PROVE TableInv
  OBVIOUS
<1>1. /\ machine \in Machines /\ stage = "tags"
      /\ redtbl = [e \in GsiLines |-> [vector |-> 8,
                        masked |-> machine.quiet]]
  BY DEF Init, Io!Init, GsiLines
<1>2. machine.quiet \in BOOLEAN
  BY <1>1, StartupAssumption
<1>3. redtbl \in [GsiLines -> Redirections]
  BY <1>1, <1>2 DEF Redirections
<1>4. QED
  BY <1>1, <1>3, WalkInit DEF TableInv, RoutesToVector, MaskFollowsRequests

(* The two properties of a table rt, IRQs w that are wanted and l that are *)
(* loose.                                                                  *)
Routed(rt) ==
    \A irq \in Io!IRQs : HasLine(irq) => rt[LineOf(irq)].vector = irq + 32
Obeyed(rt, w, l) ==
    \A irq \in Io!IRQs \ l :
        HasLine(irq) => (rt[LineOf(irq)].masked <=> irq \notin w)

(* What a machine has and asks for depends on the machine only. *)
LEMMA SameMachine ==
    ASSUME machine' = machine
    PROVE  /\ Plain' = Plain /\ NamesLines' = NamesLines
           /\ GsiLines' = GsiLines
           /\ \A q : HasLine(q)' = HasLine(q) /\ LineOf(q)' = LineOf(q)
<1>1. Overrides' = Overrides /\ GsiLines' = GsiLines
  BY DEF Overrides, Positions, GsiLines
<1>2. \A o : Irq(o)' = Irq(o) /\ Gsi(o)' = Gsi(o)
  BY DEF Irq, Gsi
<1>3. \A q : LineOf(q)' = LineOf(q)
  BY <1>1, <1>2 DEF LineOf
<1>4. \A q : HasLine(q)' = HasLine(q)
  BY <1>1, <1>2 DEF HasLine
<1>5. Plain' = Plain
  BY <1>1, <1>2 DEF Plain
<1>6. NamesLines' = NamesLines
  BY <1>1, <1>2, <1>3, <1>4 DEF NamesLines
<1>7. QED BY <1>1, <1>3, <1>4, <1>5, <1>6

(* What the invariant says once the table is set up. *)
LEMMA TableNow ==
    ASSUME TableInv, Plain, stage \in {"hpet", "loop"}
    PROVE  /\ WalkInv /\ walk = "done"
           /\ redtbl \in [GsiLines -> Redirections]
           /\ max_redir = machine.gsis
           /\ Routed(redtbl)
           /\ NamesLines => Obeyed(redtbl, wanted, loose)
  BY DEF TableInv, WalkInv, RoutesToVector, MaskFollowsRequests, Routed, Obeyed

(* What is enough for the invariant after a step. *)
LEMMA TableThen ==
    ASSUME WalkInv', machine' = machine,
           Plain =>
            /\ redtbl' \in [GsiLines -> Redirections]
            /\ stage' \in {"hpet", "loop"} =>
                /\ max_redir' = machine.gsis
                /\ Routed(redtbl')
                /\ NamesLines => Obeyed(redtbl', wanted', loose')
    PROVE  TableInv'
<1>1. RoutesToVector'
  BY SameMachine DEF RoutesToVector, Routed
<1>2. MaskFollowsRequests'
  <2>1. SUFFICES ASSUME (stage \in {"hpet", "loop"} /\ Plain /\ NamesLines)',
                        NEW irq \in Io!IRQs \ loose', HasLine(irq)'
                 PROVE  (redtbl[LineOf(irq)].masked <=> irq \notin wanted)'
    BY DEF MaskFollowsRequests
  <2>2. Plain /\ NamesLines /\ HasLine(irq) /\ LineOf(irq)' = LineOf(irq)
    BY <2>1, SameMachine
  <2>3. redtbl'[LineOf(irq)].masked <=> irq \notin wanted'
    BY <2>1, <2>2 DEF Obeyed
  <2>4. QED BY <2>2, <2>3
<1>3. Plain' =>
        /\ redtbl' \in [GsiLines' -> Redirections]
        /\ stage' \in {"hpet", "loop"} => max_redir' = machine'.gsis
  BY SameMachine
<1>4. QED BY <1>1, <1>2, <1>3 DEF TableInv

(* A change of masks that keeps every vector, and that of the lines of     *)
(* IRQs reaches those that the requests name.                              *)
LEMMA TableStep == TableInv /\ [Next]_vars => TableInv'
<1> SUFFICES ASSUME TableInv, [Next]_vars PROVE TableInv'
  OBVIOUS
<1>0. WalkInv /\ WalkInv'
  BY WalkStep DEF TableInv
<1>1. ASSUME machine' = machine, UNCHANGED ioapicVars,
             stage' \in {"hpet", "loop"} => stage \in {"hpet", "loop"}
      PROVE  TableInv'
  <2>1. /\ redtbl' = redtbl /\ max_redir' = max_redir
        /\ wanted' = wanted /\ loose' = loose
    BY <1>1 DEF ioapicVars
  <2>2. Plain => redtbl \in [GsiLines -> Redirections]
    BY DEF TableInv
  <2>3. QED BY <1>0, <1>1, <2>1, <2>2, TableNow, TableThen
<1>2. CASE ioapic_init
  <2>1. stage = "ioapic" /\ machine' = machine /\ walk = "done"
    BY <1>0, <1>2 DEF ioapic_init, Others, WalkInv
  <2>2. CASE Io!ioapic_init(ioso_apic)
    <3>1. Plain => redtbl \in [GsiLines -> Redirections]
      BY DEF TableInv
    <3>2. Plain => /\ redtbl' \in [GsiLines -> Redirections]
                   /\ max_redir' = machine.gsis
                   /\ Routed(redtbl') /\ Obeyed(redtbl', wanted', loose')
      <4>1. SUFFICES ASSUME Plain
                     PROVE  /\ redtbl' \in [GsiLines -> Redirections]
                            /\ max_redir' = machine.gsis
                            /\ Routed(redtbl') /\ Obeyed(redtbl', wanted', loose')
        OBVIOUS
      <4>2. /\ redtbl' \in [GsiLines -> Redirections]
            /\ max_redir' = machine.gsis /\ wanted' = {} /\ loose' = {}
            /\ \A irq \in Io!IRQs : HasLine(irq) =>
                redtbl'[LineOf(irq)] = [vector |-> irq + 32, masked |-> TRUE]
        BY <1>0, <2>1, <2>2, <3>1, <4>1, TableMapped
      <4>3. Routed(redtbl')
        <5>1. ASSUME NEW irq \in Io!IRQs, HasLine(irq)
              PROVE  redtbl'[LineOf(irq)].vector = irq + 32
          <6>1. redtbl'[LineOf(irq)] = [vector |-> irq + 32, masked |-> TRUE]
            BY <4>2, <5>1
          <6>2. QED BY <6>1
        <5>2. QED BY <5>1 DEF Routed
      <4>4. Obeyed(redtbl', wanted', loose')
        <5>1. ASSUME NEW irq \in Io!IRQs, HasLine(irq)
              PROVE  redtbl'[LineOf(irq)].masked <=> irq \notin wanted'
          <6>1. redtbl'[LineOf(irq)] = [vector |-> irq + 32, masked |-> TRUE]
            BY <4>2, <5>1
          <6>2. QED BY <4>2, <6>1
        <5>2. QED BY <5>1 DEF Obeyed
      <4>5. QED BY <4>2, <4>3, <4>4
    <3>3. QED BY <1>0, <2>1, <3>2, TableThen
  <2>3. CASE stage' = "astray" /\ UNCHANGED ioapicVars
    BY <1>1, <2>1, <2>3
  <2>4. QED BY <1>2, <2>2, <2>3 DEF ioapic_init
<1>3. ASSUME machine' = machine, stage = "loop", max_redir' = max_redir,
             NEW hit, NEW bit \in BOOLEAN, Plain => MasksSet(hit, bit),
             Plain /\ NamesLines =>
                \A q \in Io!IRQs \ loose' : HasLine(q) =>
                    IF LineOf(q) \in hit THEN bit <=> q \notin wanted'
                    ELSE q \notin loose /\ (q \in wanted' <=> q \in wanted)
      PROVE  TableInv'
  <2>1. SUFFICES ASSUME Plain
                 PROVE  /\ redtbl' \in [GsiLines -> Redirections]
                        /\ max_redir' = machine.gsis
                        /\ Routed(redtbl')
                        /\ NamesLines => Obeyed(redtbl', wanted', loose')
    BY <1>0, <1>3, TableThen
  <2>2. /\ walk = "done" /\ redtbl \in [GsiLines -> Redirections]
        /\ max_redir = machine.gsis
        /\ Routed(redtbl)
        /\ NamesLines => Obeyed(redtbl, wanted, loose)
    BY <1>3, <2>1, TableNow
  <2>3. /\ redtbl' \in [GsiLines -> Redirections]
        /\ \A e \in GsiLines :
            /\ redtbl'[e].vector = redtbl[e].vector
            /\ redtbl'[e].masked = IF e \in hit THEN bit ELSE redtbl[e].masked
    BY <1>3, <2>1, <2>2, MasksOnly
  <2>4. \A q \in Io!IRQs : HasLine(q) => LineOf(q) \in GsiLines
    BY <1>0, <2>1, <2>2, LinesApart DEF Io!IRQs, Io!NUM_IRQ
  <2>5. Routed(redtbl')
    BY <2>2, <2>3, <2>4 DEF Routed
  <2>6. ASSUME NamesLines PROVE Obeyed(redtbl', wanted', loose')
    BY <1>3, <2>1, <2>2, <2>3, <2>4, <2>6 DEF Obeyed
  <2>7. QED BY <1>3, <2>2, <2>3, <2>5, <2>6
<1>4. CASE set_masks
  <2>1. machine' = machine /\ stage = "loop"
    BY <1>4 DEF set_masks, InLoop, Loop
  <2>2. Plain => /\ walk = "done" /\ redtbl \in [GsiLines -> Redirections]
                 /\ max_redir = machine.gsis
    BY <2>1, TableNow
  <2>3. ASSUME NEW r \in machine.irqs, NEW bit \in BOOLEAN,
               redtbl' = Io!SetMask(redtbl, Io!Line(ioso_apic, r), bit),
               wanted' = IF bit THEN wanted \ {r} ELSE wanted \cup {r},
               loose' = loose \ {r}, max_redir' = max_redir
        PROVE  TableInv'
    <3>1. PICK hit : Plain => /\ MasksSet(hit, bit)
                              /\ NamesLines => hit = {LineOf(r)}
      BY <1>0, <2>2, <2>3, RequestSets
    <3>2. ASSUME Plain, NamesLines, NEW q \in Io!IRQs, HasLine(q)
          PROVE  LineOf(q) \in hit <=> q = r
      BY <1>0, <2>2, <3>1, <3>2, RequestHits
    <3>3. QED BY <1>3, <2>1, <2>3, <3>1, <3>2
  <2>4. ASSUME NEW bit \in BOOLEAN, redtbl' = Io!SetAll(ioso_apic, bit),
               bit => wanted' = {} /\ loose' = loose \cup wanted,
               ~ bit => /\ wanted' = Io!IRQs \cup wanted
                        /\ loose' = loose \cup (Io!IRQs \ wanted),
               max_redir' = max_redir
        PROVE  TableInv'
    <3>1. PICK hit : MasksSet(hit, bit)
      BY <2>4, AllSet
    <3>2. ASSUME NEW q \in Io!IRQs \ loose'
          PROVE  /\ bit <=> q \notin wanted'
                 /\ q \notin loose /\ (q \in wanted' <=> q \in wanted)
      BY <2>4, <3>2
    <3>3. QED BY <1>3, <2>1, <2>4, <3>1, <3>2
  <2>5. CASE \E r \in machine.irqs : Io!ioapic_mask(ioso_apic, r)
    BY <2>3, <2>5 DEF Io!ioapic_mask
  <2>6. CASE \E r \in machine.irqs : Io!ioapic_unmask(ioso_apic, r)
    BY <2>3, <2>6 DEF Io!ioapic_unmask
  <2>7. CASE Io!ioapic_mask_all(ioso_apic)
    BY <2>4, <2>7 DEF Io!ioapic_mask_all
  <2>8. CASE Io!ioapic_unmask_all(ioso_apic)
    BY <2>4, <2>8 DEF Io!ioapic_unmask_all
  <2>9. QED BY <1>4, <2>5, <2>6, <2>7, <2>8 DEF set_masks
<1>5. CASE Boot /\ ~ ioapic_init
  <2>1. machine' = machine /\ UNCHANGED ioapicVars
    BY <1>5 DEF Boot, cmdline_parse, read_args, acpi_init, apic_init,
        timer_init, Others
  <2>2. stage' \in {"hpet", "loop"} => stage \in {"hpet", "loop"}
    BY <1>5 DEF Boot, cmdline_parse, read_args, acpi_init, apic_init,
        timer_init
  <2>3. QED BY <1>1, <2>1, <2>2
<1>6. CASE MainLoop /\ ~ set_masks
  <2>1. machine' = machine /\ stage' = stage /\ UNCHANGED ioapicVars
    BY <1>6
    DEF MainLoop, call_usleep, run_usleep, run_counter, interrupt, iret,
        InLoop, Loop
  <2>2. QED BY <1>1, <2>1
<1>7. CASE UNCHANGED vars
  BY <1>1, <1>7 DEF vars
<1>8. QED BY <1>2, <1>4, <1>5, <1>6, <1>7 DEF Next

(* Whatever vectors and masks the firmware left and whoever masks and      *)
(* unmasks, the line of an IRQ interrupts under the vector of that IRQ,    *)
(* for every MADT whose overrides are distinct and every number of lines   *)
(* (ioapic.c:105-139).                                                     *)
THEOREM LinesKeepTheirVector == Spec => []RoutesToVector
<1>1. TableInv => RoutesToVector
  BY DEF TableInv
<1>2. QED BY TableInit, TableStep, <1>1, PTL DEF Spec

(* The line of an IRQ is unmasked if and only if the last request for the  *)
(* IRQ was to unmask it, for every MADT whose overrides are distinct and   *)
(* all drivers that leave IRQ 0 alone; after a call for all IRQs, it is    *)
(* known again of an IRQ that the call was to change once the IRQ is named *)
(* by a request (ioapic.c:53-89).                                          *)
THEOREM MasksAreObeyed == Spec => []MaskFollowsRequests
<1>1. TableInv => MaskFollowsRequests
  BY DEF TableInv
<1>2. QED BY TableInit, TableStep, <1>1, PTL DEF Spec

-----------------------------------------------------------------------------
(* The old interrupt controllers.                                          *)

Chip == [expects : {0, 2, 3, 4}, offset : Nat, mask : SUBSET Pic8259!Lines]
Pair == [Pic8259!Chips -> Chip]

(* A byte is a control word, or the mask, by what was written before it.   *)
LEMMA ByteWritten ==
    ASSUME NEW chip \in Chip, NEW a \in Nat,
           NEW w, w = Pic8259!Written(chip, <<"data", a>>)
    PROVE  /\ w \in Chip
           /\ chip.expects = 2 => w.expects = 3 /\ w.offset = a
           /\ chip.expects = 3 => w.expects = 4 /\ w.offset = chip.offset
           /\ chip.expects = 4 => w.expects = 0 /\ w.offset = chip.offset
           /\ chip.expects = 0 => /\ w.expects = 0 /\ w.offset = chip.offset
                                  /\ w.mask = Pic8259!BitsOf(a)
<1>1. w = CASE chip.expects = 0 -> [chip EXCEPT !.mask = Pic8259!BitsOf(a)]
            [] chip.expects = 2 -> [chip EXCEPT !.expects = 3, !.offset = a]
            [] chip.expects = 3 -> [chip EXCEPT !.expects = 4]
            [] chip.expects = 4 -> [chip EXCEPT !.expects = 0]
  BY DEF Pic8259!Written
<1>2. Pic8259!BitsOf(a) \in SUBSET Pic8259!Lines
  BY DEF Pic8259!BitsOf
<1> DEFINE bits == Pic8259!BitsOf(a)
<1> HIDE DEF bits
<1>3. CASE chip.expects = 0
  BY <1>1, <1>2, <1>3 DEF Chip, bits
<1>4. CASE chip.expects = 2
  <2>1. w = [chip EXCEPT !.expects = 3, !.offset = a]
    BY <1>1, <1>4
  <2>2. chip = [expects |-> chip.expects, offset |-> chip.offset,
                mask |-> chip.mask]
    BY DEF Chip
  <2>3. w = [expects |-> 3, offset |-> a, mask |-> chip.mask]
    BY <2>1, <2>2
  <2>4. chip.mask \in SUBSET Pic8259!Lines
    BY DEF Chip
  <2>5. w \in Chip /\ w.expects = 3 /\ w.offset = a
    BY <2>3, <2>4 DEF Chip
  <2>6. QED BY <1>4, <2>5
<1>5. CASE chip.expects = 3
  BY <1>1, <1>5 DEF Chip
<1>6. CASE chip.expects = 4
  BY <1>1, <1>6 DEF Chip
<1>7. QED BY <1>3, <1>4, <1>5, <1>6 DEF Chip

(* The first control word makes a chip expect the others.                  *)
LEMMA CommandWritten ==
    ASSUME NEW chip \in Chip, NEW w, w = Pic8259!Written(chip, Pic8259!Command)
    PROVE  w \in Chip /\ w.expects = 2
<1>1. w = [chip EXCEPT !.expects = 2, !.mask = {}]
  BY DEF Pic8259!Written, Pic8259!Command
<1>2. QED BY <1>1 DEF Chip

(* The same of both chips, as the source writes to them in turn.           *)
LEMMA BothWritten ==
    ASSUME NEW p \in Pair, NEW a \in Nat, NEW b \in Nat,
           NEW q, q = Pic8259!Data(p, a, b)
    PROVE  /\ q \in Pair
           /\ q[1] = Pic8259!Written(p[1], <<"data", a>>)
           /\ q[2] = Pic8259!Written(p[2], <<"data", b>>)
<1>1. p[1] \in Chip /\ p[2] \in Chip /\ Pic8259!Chips = {1, 2}
  BY DEF Pair, Pic8259!Chips
<1> DEFINE x == Pic8259!Written(p[1], <<"data", a>>)
           y == Pic8259!Written(p[2], <<"data", b>>)
<1>2. x \in Chip /\ y \in Chip
  BY <1>1, ByteWritten
<1>3. q = [[p EXCEPT ![1] = x] EXCEPT ![2] = y]
  <2>1. Pic8259!Out(p, 1, <<"data", a>>) = [p EXCEPT ![1] = x]
    BY <1>1 DEF Pic8259!Out, Pair
  <2>2. [p EXCEPT ![1] = x][2] = p[2]
    BY <1>1 DEF Pair
  <2>3. q = Pic8259!Out([p EXCEPT ![1] = x], 2, <<"data", b>>)
    BY <2>1 DEF Pic8259!Data
  <2>4. QED BY <1>1, <2>2, <2>3 DEF Pic8259!Out, Pair
<1> HIDE DEF x, y
<1>4. q \in Pair /\ q[1] = x /\ q[2] = y
  BY <1>1, <1>2, <1>3 DEF Pair
<1>5. QED BY <1>4 DEF x, y

(* What the chips of a pair expect, and what they were told.               *)
Expect(p, word) == p[1].expects = word /\ p[2].expects = word
Offsets(p, x, y) == p[1].offset = x /\ p[2].offset = y
Masks(p, x, y) == p[1].mask = x /\ p[2].mask = y

(* The bytes written for words 2 to 4 set the chips up; the bytes after    *)
(* them change nothing but the masks (pic.c:51-69).                        *)
LEMMA BothStep ==
    ASSUME NEW p \in Pair, NEW a \in Nat, NEW b \in Nat,
           NEW q, q = Pic8259!Data(p, a, b), NEW x, NEW y
    PROVE  /\ q \in Pair
           /\ Expect(p, 2) => Expect(q, 3) /\ Offsets(q, a, b)
           /\ Expect(p, 3) /\ Offsets(p, x, y) => Expect(q, 4) /\ Offsets(q, x, y)
           /\ Expect(p, 4) /\ Offsets(p, x, y) => Expect(q, 0) /\ Offsets(q, x, y)
           /\ Expect(p, 0) /\ Offsets(p, x, y) =>
                /\ Expect(q, 0) /\ Offsets(q, x, y)
                /\ Masks(q, Pic8259!BitsOf(a), Pic8259!BitsOf(b))
<1>1. p[1] \in Chip /\ p[2] \in Chip
  BY DEF Pair, Pic8259!Chips
<1>2. /\ q \in Pair
      /\ q[1] = Pic8259!Written(p[1], <<"data", a>>)
      /\ q[2] = Pic8259!Written(p[2], <<"data", b>>)
  BY BothWritten
<1>3. /\ p[1].expects = 2 => q[1].expects = 3 /\ q[1].offset = a
      /\ p[1].expects = 3 => q[1].expects = 4 /\ q[1].offset = p[1].offset
      /\ p[1].expects = 4 => q[1].expects = 0 /\ q[1].offset = p[1].offset
      /\ p[1].expects = 0 => /\ q[1].expects = 0 /\ q[1].offset = p[1].offset
                             /\ q[1].mask = Pic8259!BitsOf(a)
  BY <1>1, <1>2, ByteWritten
<1>4. /\ p[2].expects = 2 => q[2].expects = 3 /\ q[2].offset = b
      /\ p[2].expects = 3 => q[2].expects = 4 /\ q[2].offset = p[2].offset
      /\ p[2].expects = 4 => q[2].expects = 0 /\ q[2].offset = p[2].offset
      /\ p[2].expects = 0 => /\ q[2].expects = 0 /\ q[2].offset = p[2].offset
                             /\ q[2].mask = Pic8259!BitsOf(b)
  BY <1>1, <1>2, ByteWritten
<1>5. QED BY <1>2, <1>3, <1>4 DEF Expect, Offsets, Masks

(* The first control word to both chips (pic.c:46-49).                     *)
LEMMA BothCommanded ==
    ASSUME NEW p \in Pair, NEW q, q = Pic8259!Commands(p)
    PROVE  q \in Pair /\ q[1].expects = 2 /\ q[2].expects = 2
<1>1. p[1] \in Chip /\ p[2] \in Chip /\ Pic8259!Chips = {1, 2}
  BY DEF Pair, Pic8259!Chips
<1> DEFINE x == Pic8259!Written(p[1], Pic8259!Command)
           y == Pic8259!Written(p[2], Pic8259!Command)
<1>2. x \in Chip /\ y \in Chip /\ x.expects = 2 /\ y.expects = 2
  BY <1>1, CommandWritten
<1>3. q = [[p EXCEPT ![1] = x] EXCEPT ![2] = y]
  <2>1. Pic8259!Out(p, 1, Pic8259!Command) = [p EXCEPT ![1] = x]
    BY <1>1 DEF Pic8259!Out, Pair
  <2>2. [p EXCEPT ![1] = x][2] = p[2]
    BY <1>1 DEF Pair
  <2>3. q = Pic8259!Out([p EXCEPT ![1] = x], 2, Pic8259!Command)
    BY <2>1 DEF Pic8259!Commands
  <2>4. QED BY <1>1, <2>2, <2>3 DEF Pic8259!Out, Pair
<1> HIDE DEF x, y
<1>4. q \in Pair /\ q[1] = x /\ q[2] = y
  BY <1>1, <1>2, <1>3 DEF Pair
<1>5. QED BY <1>2, <1>4

(* 0xff masks every line (pic.c:78).                                       *)
LEMMA EveryLine == Pic8259!BitsOf(255) = Pic8259!Lines
<1>1. ASSUME NEW b \in 0 .. 7
      PROVE  (255 \div Pic8259!Weight[b + 1]) % 2 = 1
  <2>1. b \in {0, 1, 2, 3, 4, 5, 6, 7}
    OBVIOUS
  <2>2. /\ Pic8259!Weight[1] = 1 /\ Pic8259!Weight[2] = 2
        /\ Pic8259!Weight[3] = 4 /\ Pic8259!Weight[4] = 8
        /\ Pic8259!Weight[5] = 16 /\ Pic8259!Weight[6] = 32
        /\ Pic8259!Weight[7] = 64 /\ Pic8259!Weight[8] = 128
    BY DEF Pic8259!Weight
  <2>3. /\ (255 \div 1) % 2 = 1 /\ (255 \div 2) % 2 = 1
        /\ (255 \div 4) % 2 = 1 /\ (255 \div 8) % 2 = 1
        /\ (255 \div 16) % 2 = 1 /\ (255 \div 32) % 2 = 1
        /\ (255 \div 64) % 2 = 1 /\ (255 \div 128) % 2 = 1
    OBVIOUS
  <2>4. QED BY <2>1, <2>2, <2>3
<1>2. QED BY <1>1 DEF Pic8259!BitsOf, Pic8259!Lines

(* Whatever the firmware left, apic_init leaves both chips set up and      *)
(* silent (pic.c:37-80, apic.c:46).                                        *)
LEMMA BothQuiet ==
    ASSUME pics \in Pair, Pic8259!apic_init
    PROVE  /\ pics' \in Pair
           /\ \A c \in Pic8259!Chips :
                /\ pics'[c].expects = 0
                /\ pics'[c].offset = IF c = 1 THEN 32 ELSE 40
                /\ pics'[c].mask = Pic8259!Lines
<1>1. \A p \in Pair : p[1] \in Chip /\ p[2] \in Chip
  BY DEF Pair, Pic8259!Chips
<1>2. PICK p0 : p0 = Pic8259!Data(pics, 255, 255)
  OBVIOUS
<1>3. p0 \in Pair
  BY <1>2, BothStep, 255 \in Nat
<1>4. PICK p1 : p1 = Pic8259!Commands(p0)
  OBVIOUS
<1>5. p1 \in Pair /\ Expect(p1, 2)
  BY <1>3, <1>4, BothCommanded DEF Expect
<1>6. PICK p2 : p2 = Pic8259!Data(p1, 32, 40)
  OBVIOUS
<1>7. p2 \in Pair /\ Expect(p2, 3) /\ Offsets(p2, 32, 40)
  BY <1>5, <1>6, BothStep, 32 \in Nat, 40 \in Nat
<1>8. PICK p3 : p3 = Pic8259!Data(p2, 4, 2)
  OBVIOUS
<1>9. p3 \in Pair /\ Expect(p3, 4) /\ Offsets(p3, 32, 40)
  BY <1>7, <1>8, BothStep, 4 \in Nat, 2 \in Nat
<1>10. PICK p4 : p4 = Pic8259!Data(p3, 1, 1)
  OBVIOUS
<1>11. p4 \in Pair /\ Expect(p4, 0) /\ Offsets(p4, 32, 40)
  BY <1>9, <1>10, BothStep, 1 \in Nat
<1>12. PICK p5 : p5 = Pic8259!Data(p4, 0, 0)
  OBVIOUS
<1>13. p5 \in Pair /\ Expect(p5, 0) /\ Offsets(p5, 32, 40)
  BY <1>11, <1>12, BothStep, 0 \in Nat
<1>14. ASSUME NEW p \in Pair, NEW irq \in {32, 33},
              NEW q, q = Pic8259!PIC_clear_mask(p, irq)
       PROVE  /\ q \in Pair
              /\ q[1].expects = p[1].expects /\ q[1].offset = p[1].offset
              /\ q[2].expects = p[2].expects /\ q[2].offset = p[2].offset
  <2>1. Pic8259!ChipOf(irq) = 2
    <3>1. ~(irq < 8)
      BY <1>14
    <3>2. QED BY <3>1 DEF Pic8259!ChipOf
  <2>2. PICK bit : bit = Pic8259!BitOf(irq)
    OBVIOUS
  <2>3. q = [p EXCEPT ![2].mask = p[2].mask \ {bit}]
    BY <1>14, <2>1, <2>2 DEF Pic8259!PIC_clear_mask
  <2>4. PICK chip : chip = [p[2] EXCEPT !.mask = p[2].mask \ {bit}]
    OBVIOUS
  <2>5. chip \in Chip /\ chip.expects = p[2].expects /\ chip.offset = p[2].offset
    BY <1>1, <2>4 DEF Chip
  <2>6. q = [p EXCEPT ![2] = chip]
    BY <2>3, <2>4
  <2>7. q \in Pair /\ q[1] = p[1] /\ q[2] = chip
    BY <2>5, <2>6 DEF Pair, Pic8259!Chips
  <2>8. QED BY <2>5, <2>7
<1>15. PICK p6 : p6 = Pic8259!PIC_clear_mask(p5, 32)
  OBVIOUS
<1>16. p6 \in Pair /\ Expect(p6, 0) /\ Offsets(p6, 32, 40)
  BY <1>13, <1>14, <1>15 DEF Expect, Offsets
<1>17. PICK p7 : p7 = Pic8259!PIC_clear_mask(p6, 33)
  OBVIOUS
<1>18. p7 \in Pair /\ Expect(p7, 0) /\ Offsets(p7, 32, 40)
  BY <1>14, <1>16, <1>17 DEF Expect, Offsets
<1>19. pics' = Pic8259!Data(p7, 255, 255)
  <2>1. p7 = Pic8259!PIC_remap(pics, 32, 40)
    BY <1>2, <1>4, <1>6, <1>8, <1>10, <1>12, <1>15, <1>17
       DEF Pic8259!PIC_remap, Pic8259!Words2To4, Pic8259!PIC_disable
  <2>2. QED BY <2>1 DEF Pic8259!apic_init, Pic8259!PIC_disable
<1>20. /\ pics' \in Pair
       /\ Expect(pics', 0) /\ Offsets(pics', 32, 40)
       /\ Masks(pics', Pic8259!BitsOf(255), Pic8259!BitsOf(255))
  BY <1>18, <1>19, BothStep, 255 \in Nat
<1>21. QED BY <1>20, EveryLine DEF Expect, Offsets, Masks, Pic8259!Chips

(* The inductive invariant: the chips are quiet from apic_init on.         *)
PicsInv ==
    /\ pics \in Pair
    /\ stage \in {"ioapic", "hpet", "loop"} =>
        \A c \in Pic8259!Chips :
            /\ pics[c].expects = 0
            /\ pics[c].offset = IF c = 1 THEN 32 ELSE 40
            /\ pics[c].mask = Pic8259!Lines

(* It holds for every mask the firmware may have left (pic.c:41).          *)
LEMMA PicsInit == Init => PicsInv
<1> SUFFICES ASSUME Init PROVE PicsInv
  OBVIOUS
<1>1. PICK mask \in SUBSET Pic8259!Lines :
            pics = [c \in Pic8259!Chips |->
                        [expects |-> 0, offset |-> 8, mask |-> mask]]
  BY DEF Init, Pic8259!Init
<1>2. [expects |-> 0, offset |-> 8, mask |-> mask] \in Chip
  BY DEF Chip
<1>3. pics \in Pair
  BY <1>1, <1>2 DEF Pair
<1>4. stage = "tags"
  BY DEF Init
<1>5. QED BY <1>3, <1>4 DEF PicsInv

(* apic_init establishes it and no step behind it writes to the chips.     *)
LEMMA PicsStep == PicsInv /\ [Next]_vars => PicsInv'
<1> SUFFICES ASSUME PicsInv, [Next]_vars PROVE PicsInv'
  OBVIOUS
<1>1. ASSUME pics' = pics,
             stage' \in {"ioapic", "hpet", "loop"} =>
                    stage \in {"ioapic", "hpet", "loop"}
      PROVE  PicsInv'
  BY <1>1 DEF PicsInv
<1>2. CASE apic_init
  <2>1. CASE tbl["proc_apic"] = << >>
    BY <1>1, <1>2, <2>1 DEF apic_init
  <2>2. CASE tbl["proc_apic"] # << >>
    <3>1. Pic8259!apic_init
      BY <1>2, <2>2 DEF apic_init
    <3>2. QED BY <3>1, BothQuiet DEF PicsInv
  <2>3. QED BY <2>1, <2>2
<1>3. CASE cmdline_parse \/ read_args \/ acpi_init
  <2>1. pics' = pics /\ stage' \notin {"ioapic", "hpet", "loop"}
    BY <1>3 DEF cmdline_parse, read_args, acpi_init, Others
  <2>2. QED BY <1>1, <2>1
<1>4. CASE ioapic_init \/ timer_init
  <2>1. pics' = pics /\ stage \in {"ioapic", "hpet"}
    BY <1>4 DEF ioapic_init, timer_init, Others
  <2>2. QED BY <1>1, <2>1
<1>5. CASE MainLoop
  <2>1. pics' = pics /\ stage' = stage
    BY <1>5
    DEF MainLoop, set_masks, call_usleep, run_usleep, run_counter, interrupt,
        iret, InLoop, Loop
  <2>2. QED BY <1>1, <2>1
<1>6. CASE UNCHANGED vars
  BY <1>1, <1>6 DEF vars
<1>7. QED BY <1>2, <1>3, <1>4, <1>5, <1>6 DEF Next, Boot

(* When the main loop enables interrupts, both 8259s have vectors of their *)
(* own and all their lines masked, whatever the firmware left (apic.c:46). *)
THEOREM OldControllersQuiet == Spec => []PicQuiet
<1>1. PicsInv => PicQuiet
  BY DEF PicsInv, PicQuiet
<1>2. QED BY <1>1, PicsInit, PicsStep, PTL DEF Spec

-----------------------------------------------------------------------------
(* The command line.  A number is read digit by digit; a string of words   *)
(* is what the boot loader wrote, word by word. *)

AllDigits(s) == \A j \in 1 .. Len(s) : Cmd!IsDigit(s[j])

(* The value of a digit is one of its positions.                           *)
LEMMA DigitValue ==
    ASSUME NEW c, Cmd!IsDigit(c)
    PROVE  Cmd!Value(c) \in Nat /\ Len(Digits) \in Nat \ {0}
<1>1. Len(Digits) \in Nat
  <2>1. PICK S : Digits \in Seq(S)
    BY CmdlineAssumption
  <2>2. QED BY <2>1
<1>2. PICK k \in 1 .. Len(Digits) : Digits[k] = c
  BY DEF Cmd!IsDigit, Cmd!Base
<1>3. (CHOOSE i \in 1 .. Len(Digits) : Digits[i] = c) \in 1 .. Len(Digits)
  BY <1>2
<1>4. Cmd!Value(c) = (CHOOSE i \in 1 .. Len(Digits) : Digits[i] = c) - 1
  BY DEF Cmd!Value, Cmd!Base
<1> DEFINE pos == CHOOSE i \in 1 .. Len(Digits) : Digits[i] = c
<1> HIDE DEF pos
<1>5. pos \in 1 .. Len(Digits) /\ Cmd!Value(c) = pos - 1
  BY <1>3, <1>4 DEF pos
<1>6. QED BY <1>1, <1>5

(* f[i] is the number that the first i digits of s write.                  *)
Reads(f, s) ==
    /\ f \in [0 .. Len(s) -> Nat] /\ f[0] = 0
    /\ \A i \in 1 .. Len(s) :
            f[i] = f[i - 1] * Len(Digits) + Cmd!Value(s[i])

(* What the author means by the digits of a value (kstdlib/string.c:164).  *)
LEMMA NumberReads ==
    ASSUME NEW s, Len(s) \in Nat, AllDigits(s)
    PROVE  \E f : Reads(f, s) /\ Number(s) = f[Len(s)]
<1> DEFINE n == Len(s)
           Next1(x, i) == x * Len(Digits) + Cmd!Value(s[i])
           step == [p \in (1 .. n) \X Nat |-> Next1(p[2], p[1])]
           number == CHOOSE f : f = [i \in 0 .. n |->
                        IF i = 0 THEN 0 ELSE Next1(f[i - 1], i)]
<1>1. Number(s) = number[n]
  BY DEF Number
<1>2. \A i \in 1 .. n, x \in Nat : step[<<i, x>>] = Next1(x, i)
  BY DEF step
<1>3. \A i \in 1 .. n, x \in Nat : Next1(x, i) \in Nat
  <2>1. ASSUME NEW i \in 1 .. n, NEW x \in Nat PROVE Next1(x, i) \in Nat
    <3>1. Cmd!Value(s[i]) \in Nat /\ Len(Digits) \in Nat
      BY DigitValue DEF AllDigits
    <3>2. x * Len(Digits) \in Nat
      BY <3>1, WordsMonotone
    <3>3. QED BY <3>1, <3>2
  <2>2. QED BY <2>1
<1>4. \A i, x : Next1(x, i) = x * Len(Digits) + Cmd!Value(s[i])
  BY DEF Next1
<1> HIDE DEF Next1
<1>5. step \in [(1 .. n) \X Nat -> Nat]
  <2> HIDE DEF n
  <2>1. QED BY <1>3 DEF step
<1> HIDE DEF step, number
<1>6. PICK f : IsLoop(f, Nat, 0, n, step)
  <2>1. n \in Nat /\ 0 \in Nat
    OBVIOUS
  <2> HIDE DEF n
  <2>2. QED BY <1>5, <2>1, LoopExists
<1>7. \A i \in 1 .. n : f[i - 1] \in Nat /\ f[i] = Next1(f[i - 1], i)
  <2>1. \A i \in 1 .. n : f[i - 1] \in Nat
    BY <1>6 DEF IsLoop
  <2>2. QED BY <1>2, <1>6, <2>1 DEF IsLoop
<1>8. f = [i \in 0 .. n |-> IF i = 0 THEN 0 ELSE Next1(f[i - 1], i)]
  BY <1>6, <1>7 DEF IsLoop
<1>9. number = [i \in 0 .. n |-> IF i = 0 THEN 0 ELSE Next1(number[i - 1], i)]
  BY <1>8 DEF number
<1> DEFINE S == {i \in 0 .. n : number[i] = f[i]}
<1>10. number[n] = f[n]
  <2>1. \A i \in 1 .. n : /\ i \in 0 .. n /\ i # 0
                          /\ number[i] = Next1(number[i - 1], i)
    BY <1>9
  <2>2. 0 \in S
    BY <1>6, <1>9 DEF IsLoop
  <2>3. \A i \in 1 .. n : i - 1 \in S => i \in S
    BY <1>7, <2>1
  <2>4. S \in SUBSET (0 .. n) /\ n \in Nat
    OBVIOUS
  <2> HIDE DEF S, n
  <2>5. n \in S
    BY <2>2, <2>3, <2>4, AllRounds
  <2>6. QED BY <2>5 DEF S
<1>11. Reads(f, s)
  BY <1>4, <1>6, <1>7 DEF Reads, IsLoop
<1>12. QED BY <1>1, <1>10, <1>11

(* atou computes the number that is written, when the number fits: none of *)
(* its intermediate results wraps (kstdlib/string.c:164-178).              *)
LEMMA AtouReads ==
    ASSUME NEW s, Len(s) \in Nat, AllDigits(s), Number(s) < Cmd!NO_ARG
    PROVE  Cmd!atou(s) = Number(s)
<1> DEFINE n == Len(s)
           digits == Len(Digits)
           number == CHOOSE f : f = [i \in 0 .. n |->
                        IF i = 0 THEN 0
                        ELSE (f[i - 1] * digits + Cmd!Value(s[i])) % ArgMod]
<1>1. Cmd!atou(s) = number[n]
  <2>1. \A i \in 1 .. Len(s) : Cmd!IsDigit(s[i])
    BY DEF AllDigits
  <2>2. QED BY <2>1 DEF Cmd!atou, Cmd!Base
<1>2. PICK f : Reads(f, s) /\ Number(s) = f[n]
  BY NumberReads
<1>3. /\ n \in Nat /\ f \in [0 .. n -> Nat] /\ f[0] = 0
      /\ \A i \in 1 .. n : f[i] = f[i - 1] * digits + Cmd!Value(s[i])
  BY <1>2 DEF Reads
<1>4. \A i \in 1 .. n : Cmd!Value(s[i]) \in Nat /\ digits \in Nat \ {0}
  BY DigitValue DEF AllDigits
<1>5. ArgMod \in Nat /\ f[n] < ArgMod
  <2>1. f[n] \in Nat
    BY <1>3
  <2>2. ArgMod \in Nat
    BY StartupAssumption
  <2> HIDE DEF n
  <2>3. f[n] < ArgMod - 1
    BY <1>2 DEF Cmd!NO_ARG
  <2>4. QED BY <2>1, <2>2, <2>3
<1> HIDE DEF n, digits, number
<1>6. \A i \in 1 .. n : f[i - 1] <= f[i]
  <2>1. ASSUME NEW i \in 1 .. n PROVE f[i - 1] <= f[i]
    <3>1. PICK x \in Nat, y \in Nat, v \in Nat, d \in Nat \ {0} :
                x = f[i - 1] /\ y = f[i] /\ v = Cmd!Value(s[i]) /\ d = digits
      <4>1. i \in 0 .. n /\ i - 1 \in 0 .. n
        BY <1>3
      <4>2. QED BY <1>3, <1>4, <4>1
    <3>2. y = x * d + v
      BY <1>3, <3>1
    <3>3. x * 1 <= x * d /\ x * d \in Nat
      OBVIOUS
    <3>4. QED BY <3>1, <3>2, <3>3
  <2>2. QED BY <2>1
<1>7. \A i \in 0 .. n : f[i] < ArgMod
  <2>1. ASSUME NEW i \in 0 .. n PROVE f[i] < ArgMod
    <3> DEFINE S == {k \in 0 .. n - i : f[i] <= f[i + k]}
    <3>1. 0 \in S
      BY <1>3
    <3>2. ASSUME NEW k \in 1 .. n - i, k - 1 \in S PROVE k \in S
      <4>1. k \in 0 .. n - i /\ i + k \in 1 .. n /\ (i + k) - 1 = i + (k - 1)
            /\ i + (k - 1) \in 0 .. n /\ i + k \in 0 .. n
        BY <1>3
      <4>2. f[i] <= f[i + (k - 1)] /\ f[i + (k - 1)] <= f[i + k]
        BY <1>6, <3>2, <4>1
      <4>3. f[i] \in Nat /\ f[i + (k - 1)] \in Nat /\ f[i + k] \in Nat
        BY <1>3, <4>1
      <4>4. QED BY <4>1, <4>2, <4>3
    <3>3. S \in SUBSET (0 .. n - i) /\ n - i \in Nat
      BY <1>3
    <3>4. n - i \in S
      <4> HIDE DEF S
      <4>1. QED BY <3>1, <3>2, <3>3, AllRounds
    <3>5. f[i] <= f[n]
      <4>1. i + (n - i) = n
        BY <1>3
      <4>2. QED BY <3>4, <4>1
    <3>6. QED BY <1>3, <1>5, <3>5
  <2>2. QED BY <2>1
<1>8. \A i \in 1 .. n : f[i] = (f[i - 1] * digits + Cmd!Value(s[i])) % ArgMod
  <2>1. ASSUME NEW i \in 1 .. n
        PROVE  f[i] = (f[i - 1] * digits + Cmd!Value(s[i])) % ArgMod
    <3>1. f[i] \in Nat /\ f[i] < ArgMod
      BY <1>3, <1>7
    <3>2. ArgMod \in Nat \ {0}
      BY <1>5, <3>1
    <3>3. f[i] % ArgMod = f[i]
      BY <3>1, <3>2, DivMod
    <3>4. QED BY <1>3, <3>3
  <2>2. QED BY <2>1
<1>9. number = [i \in 0 .. n |->
                    IF i = 0 THEN 0
                    ELSE (number[i - 1] * digits + Cmd!Value(s[i])) % ArgMod]
  <2>1. f = [i \in 0 .. n |->
                    IF i = 0 THEN 0
                    ELSE (f[i - 1] * digits + Cmd!Value(s[i])) % ArgMod]
    BY <1>3, <1>8
  <2>2. QED BY <2>1 DEF number
<1> DEFINE S == {i \in 0 .. n : number[i] = f[i]}
<1>10. number[n] = f[n]
  <2>1. \A i \in 1 .. n :
            number[i] = (number[i - 1] * digits + Cmd!Value(s[i])) % ArgMod
    <3>1. ASSUME NEW i \in 1 .. n
          PROVE  number[i] = (number[i - 1] * digits + Cmd!Value(s[i])) % ArgMod
      <4>1. i \in 0 .. n /\ i # 0
        BY <1>3
      <4>2. QED BY <1>9, <4>1, Zenon
    <3>2. QED BY <3>1
  <2>2. 0 \in S
    BY <1>3, <1>9
  <2>3. \A i \in 1 .. n : i - 1 \in S => i \in S
    <3>1. ASSUME NEW i \in 1 .. n, number[i - 1] = f[i - 1]
          PROVE  number[i] = f[i]
      BY <1>8, <2>1, <3>1, Zenon
    <3>2. \A i \in 1 .. n : i \in 0 .. n
      BY <1>3
    <3>3. QED BY <3>1, <3>2
  <2>4. S \in SUBSET (0 .. n)
    OBVIOUS
  <2> HIDE DEF S
  <2>5. n \in S
    BY <1>3, <2>2, <2>3, <2>4, AllRounds
  <2>6. QED BY <2>5 DEF S
<1>11. QED BY <1>1, <1>2, <1>10

(* text[k] is what the boot loader has written with the first k words.     *)
AllChars == Chars \cup {Cmd!Nul, Cmd!Sep, " "}
WordList == Seq([key : Seq(Chars), val : Seq(Chars)])
EndOf(words, k) == IF k = Len(words) THEN Cmd!Nul ELSE " "
Writes(text, words) ==
    /\ text \in [0 .. Len(words) -> Seq(AllChars)] /\ text[0] = << >>
    /\ \A k \in 1 .. Len(words) :
            text[k] = text[k - 1] \o Word(words[k]) \o <<EndOf(words, k)>>

(* A word is its key, or its key, the separator and its value.             *)
LEMMA WordIs ==
    ASSUME NEW w \in [key : Seq(Chars), val : Seq(Chars)]
    PROVE  /\ Word(w) \in Seq(AllChars)
           /\ Len(w.key) \in Nat /\ Len(w.val) \in Nat
           /\ w.key \in Seq(AllChars) /\ w.val \in Seq(AllChars)
           /\ \A i \in 1 .. Len(w.key) : w.key[i] # Cmd!Nul /\ w.key[i] \in AllChars
           /\ w.val # << >> =>
                /\ Len(Word(w)) = Len(w.key) + 1 + Len(w.val)
                /\ \A i \in 1 .. Len(w.key) : Word(w)[i] = w.key[i]
                /\ Word(w)[Len(w.key) + 1] = Cmd!Sep
                /\ \A i \in 1 .. Len(w.val) :
                        Word(w)[Len(w.key) + 1 + i] = w.val[i]
<1>1. w.key \in Seq(Chars) /\ w.val \in Seq(Chars)
  OBVIOUS
<1>2. Chars \subseteq AllChars /\ "=" \in AllChars
  BY DEF AllChars, Cmd!Sep
<1>3. PICK K \in Seq(AllChars), V \in Seq(AllChars) :
            /\ K = w.key /\ V = w.val /\ Len(K) \in Nat /\ Len(V) \in Nat
            /\ \A i \in 1 .. Len(K) : K[i] \in Chars
  <2>1. w.key \in Seq(AllChars) /\ w.val \in Seq(AllChars)
    BY <1>1, <1>2, SeqMonotonic
  <2>2. Len(w.key) \in Nat /\ Len(w.val) \in Nat
    BY <1>1, LenProperties
  <2>3. \A i \in 1 .. Len(w.key) : w.key[i] \in Chars
    BY <1>1, ElementOfSeq
  <2>4. QED BY <2>1, <2>2, <2>3
<1>4. <<"=">> \in Seq(AllChars) /\ Len(<<"=">>) = 1 /\ <<"=">>[1] = "="
  BY <1>2
<1>5. PICK E \in Seq(AllChars) : E = <<"=">> /\ Len(E) = 1 /\ E[1] = "="
  BY <1>4
<1>6. Word(w) = IF V = << >> THEN K ELSE K \o E \o V
  BY <1>3, <1>5 DEF Word
<1>7. /\ K \o E \in Seq(AllChars) /\ Len(K \o E) = Len(K) + Len(E)
      /\ \A i \in 1 .. Len(K) + Len(E) : (K \o E)[i] =
            IF i <= Len(K) THEN K[i] ELSE E[i - Len(K)]
  BY ConcatProperties
<1>8. PICK KE \in Seq(AllChars) : KE = K \o E
  BY <1>7
<1>9. /\ KE \o V \in Seq(AllChars) /\ Len(KE \o V) = Len(KE) + Len(V)
      /\ \A i \in 1 .. Len(KE) + Len(V) : (KE \o V)[i] =
            IF i <= Len(KE) THEN KE[i] ELSE V[i - Len(KE)]
  BY ConcatProperties
<1>10. Word(w) \in Seq(AllChars)
  BY <1>6, <1>8, <1>9
<1>11. \A i \in 1 .. Len(w.key) : w.key[i] # Cmd!Nul /\ w.key[i] \in AllChars
  BY <1>2, <1>3 DEF Chars
<1>12. ASSUME V # << >>
       PROVE  /\ Len(Word(w)) = Len(K) + 1 + Len(V)
              /\ \A i \in 1 .. Len(K) : Word(w)[i] = K[i]
              /\ Word(w)[Len(K) + 1] = "="
              /\ \A i \in 1 .. Len(V) : Word(w)[Len(K) + 1 + i] = V[i]
  <2>1. Word(w) = KE \o V
    BY <1>6, <1>8, <1>12
  <2>2. PICK k \in Nat, v \in Nat : k = Len(K) /\ v = Len(V) /\ Len(KE) = k + 1
    BY <1>3, <1>5, <1>7, <1>8
  <2>3. \A i \in 1 .. k : KE[i] = K[i]
    BY <1>5, <1>7, <1>8, <2>2
  <2>4. KE[k + 1] = "="
    <3>1. k + 1 \in 1 .. k + 1 /\ ~ (k + 1 <= k) /\ (k + 1) - k = 1
      OBVIOUS
    <3>2. QED BY <1>5, <1>7, <1>8, <2>2, <3>1
  <2>5. Len(Word(w)) = k + 1 + v
    BY <1>9, <2>1, <2>2
  <2>6. \A i \in 1 .. (k + 1) + v : Word(w)[i] =
            IF i <= k + 1 THEN KE[i] ELSE V[i - (k + 1)]
    BY <1>9, <2>1, <2>2
  <2>7. \A i \in 1 .. k : Word(w)[i] = K[i]
    BY <2>3, <2>6
  <2>8. Word(w)[k + 1] = "="
    BY <2>4, <2>6
  <2>9. \A i \in 1 .. v : Word(w)[k + 1 + i] = V[i]
    <3>1. ASSUME NEW i \in 1 .. v PROVE Word(w)[k + 1 + i] = V[i]
      <4>1. k + 1 + i \in 1 .. (k + 1) + v /\ ~ (k + 1 + i <= k + 1)
            /\ (k + 1 + i) - (k + 1) = i
        OBVIOUS
      <4>2. QED BY <2>6, <4>1
    <3>2. QED BY <3>1
  <2>10. QED BY <2>2, <2>5, <2>7, <2>8, <2>9
<1>13. QED BY <1>3, <1>10, <1>11, <1>12 DEF Cmd!Sep

(* What the boot loader passes is written so.                              *)
LEMMA TextWrites ==
    ASSUME NEW words \in WordList
    PROVE  \E text : Writes(text, words) /\ Text(words) = text[Len(words)]
<1> DEFINE n == Len(words)
           Ending(k) == IF k = n THEN Cmd!Nul ELSE " "
           Longer(x, k) == x \o Word(words[k]) \o <<Ending(k)>>
           step == [p \in (1 .. n) \X Seq(AllChars) |-> Longer(p[2], p[1])]
           text == CHOOSE f : f = [k \in 0 .. n |->
                        IF k = 0 THEN << >> ELSE Longer(f[k - 1], k)]
<1>1. Text(words) = text[n]
  BY DEF Text
<1>2. n \in Nat /\ \A k \in 1 .. n : words[k] \in [key : Seq(Chars), val : Seq(Chars)]
  BY LenProperties, ElementOfSeq DEF WordList
<1>3. \A k \in 1 .. n, x \in Seq(AllChars) : step[<<k, x>>] = Longer(x, k)
  BY DEF step
<1>4. \A k, x : Longer(x, k) = x \o Word(words[k]) \o <<EndOf(words, k)>>
  BY DEF EndOf, Longer, Ending
<1> HIDE DEF Longer, n, step, text
<1>5. ASSUME NEW k \in 1 .. n, NEW x \in Seq(AllChars)
      PROVE  Longer(x, k) \in Seq(AllChars)
  <2>1. PICK W \in Seq(AllChars) : W = Word(words[k])
    BY <1>2, WordIs
  <2>2. PICK E \in Seq(AllChars) : E = <<EndOf(words, k)>>
    <3>1. Cmd!Nul \in AllChars /\ " " \in AllChars
      BY DEF AllChars
    <3>2. PICK c \in AllChars : c = EndOf(words, k)
      BY <3>1, Zenon DEF EndOf
    <3>3. <<c>> \in Seq(AllChars)
      OBVIOUS
    <3>4. QED BY <3>2, <3>3
  <2>3. PICK xw \in Seq(AllChars) : xw = x \o W
    BY ConcatProperties
  <2>4. xw \o E \in Seq(AllChars)
    BY ConcatProperties
  <2>5. QED BY <1>4, <2>1, <2>2, <2>3, <2>4
<1>6. step \in [(1 .. n) \X Seq(AllChars) -> Seq(AllChars)]
  BY <1>5 DEF step
<1>7. << >> \in Seq(AllChars)
  OBVIOUS
<1>8. PICK f : IsLoop(f, Seq(AllChars), << >>, n, step)
  BY <1>2, <1>6, <1>7, LoopExists
<1>9. \A k \in 1 .. n : f[k - 1] \in Seq(AllChars) /\ f[k] = Longer(f[k - 1], k)
  <2>1. \A k \in 1 .. n : f[k - 1] \in Seq(AllChars)
    BY <1>2, <1>8 DEF IsLoop
  <2>2. QED BY <1>3, <1>8, <2>1 DEF IsLoop
<1>10. f = [k \in 0 .. n |-> IF k = 0 THEN << >> ELSE Longer(f[k - 1], k)]
  BY <1>2, <1>8, <1>9 DEF IsLoop
<1>11. text = [k \in 0 .. n |-> IF k = 0 THEN << >> ELSE Longer(text[k - 1], k)]
  BY <1>10 DEF text
<1> DEFINE S == {k \in 0 .. n : text[k] = f[k]}
<1>12. text[n] = f[n]
  <2>1. \A k \in 1 .. n : text[k] = Longer(text[k - 1], k)
    <3>1. ASSUME NEW k \in 1 .. n PROVE text[k] = Longer(text[k - 1], k)
      <4>1. k \in 0 .. n /\ k # 0
        BY <1>2
      <4>2. QED BY <1>11, <4>1, Zenon
    <3>2. QED BY <3>1
  <2>2. 0 \in S
    BY <1>2, <1>8, <1>11 DEF IsLoop
  <2>3. \A k \in 1 .. n : k - 1 \in S => k \in S
    <3>1. ASSUME NEW k \in 1 .. n, text[k - 1] = f[k - 1]
          PROVE  text[k] = f[k]
      BY <1>9, <2>1, <3>1, Zenon
    <3>2. \A k \in 1 .. n : k \in 0 .. n
      BY <1>2
    <3>3. QED BY <3>1, <3>2
  <2>4. S \in SUBSET (0 .. n)
    OBVIOUS
  <2> HIDE DEF S
  <2>5. n \in S
    BY <1>2, <2>2, <2>3, <2>4, AllRounds
  <2>6. QED BY <2>5 DEF S
<1>13. Writes(f, words)
  BY <1>4, <1>8, <1>9 DEF Writes, IsLoop, n
<1>14. QED BY <1>1, <1>12, <1>13 DEF n

(* Where the words are in the string: word k begins behind off[k - 1]      *)
(* characters, and the character that ends it is number off[k].            *)
WordAt(T, w, from, to, end) ==
    /\ to = from + Len(w.key) + Len(w.val) + 2
    /\ \A i \in 1 .. Len(w.key) : T[from + i] = w.key[i]
    /\ T[from + Len(w.key) + 1] = Cmd!Sep
    /\ \A i \in 1 .. Len(w.val) : T[from + Len(w.key) + 1 + i] = w.val[i]
    /\ T[to] = end
Layout(T, words, off) ==
    /\ T \in Seq(AllChars)
    /\ off \in [0 .. Len(words) -> 0 .. Len(T)]
    /\ off[0] = 0 /\ off[Len(words)] = Len(T)
    /\ \A k \in 1 .. Len(words) :
            WordAt(T, words[k], off[k - 1], off[k], EndOf(words, k))

Appended(t, w, end) == t \o Word(w) \o <<end>>

(* A word that is appended to a string is at its end.                      *)
LEMMA WordAppended ==
    ASSUME NEW t \in Seq(AllChars), NEW end \in AllChars,
           NEW w \in [key : Seq(Chars), val : Seq(Chars)], w.val # << >>,
           NEW T \in Seq(AllChars), T = Appended(t, w, end)
    PROVE  /\ WordAt(T, w, Len(t), Len(T), end)
           /\ \A i \in 1 .. Len(t) : T[i] = t[i]
<1>1. PICK W \in Seq(AllChars), E \in Seq(AllChars) :
            W = Word(w) /\ E = <<end>> /\ Len(E) = 1 /\ E[1] = end
  <2>1. <<end>> \in Seq(AllChars) /\ Len(<<end>>) = 1 /\ <<end>>[1] = end
    OBVIOUS
  <2>2. QED BY <2>1, WordIs
<1>2. PICK tW \in Seq(AllChars) :
            /\ tW = t \o W /\ Len(tW) = Len(t) + Len(W)
            /\ \A i \in 1 .. Len(t) + Len(W) :
                    tW[i] = IF i <= Len(t) THEN t[i] ELSE W[i - Len(t)]
  <2>1. /\ t \o W \in Seq(AllChars) /\ Len(t \o W) = Len(t) + Len(W)
        /\ \A i \in 1 .. Len(t) + Len(W) :
                (t \o W)[i] = IF i <= Len(t) THEN t[i] ELSE W[i - Len(t)]
    BY ConcatProperties
  <2>2. QED BY <2>1
<1>3. /\ T \in Seq(AllChars) /\ Len(T) = Len(tW) + Len(E)
      /\ \A i \in 1 .. Len(tW) + Len(E) :
                    T[i] = IF i <= Len(tW) THEN tW[i] ELSE E[i - Len(tW)]
  <2>1. T = tW \o E
    BY <1>1, <1>2 DEF Appended
  <2>2. QED BY <2>1, ConcatProperties
<1>4. PICK b \in Nat, k \in Nat, v \in Nat :
            b = Len(t) /\ k = Len(w.key) /\ v = Len(w.val)
  <2>1. Len(t) \in Nat
    BY LenProperties
  <2>2. QED BY <2>1, WordIs
<1>5. /\ Len(W) = k + 1 + v
      /\ \A i \in 1 .. k : W[i] = w.key[i]
      /\ W[k + 1] = Cmd!Sep
      /\ \A i \in 1 .. v : W[k + 1 + i] = w.val[i]
  BY <1>1, <1>4, WordIs
<1>6. Len(tW) = b + (k + 1 + v) /\ Len(T) = b + k + v + 2
  BY <1>1, <1>2, <1>3, <1>4, <1>5
<1>7. \A i \in 1 .. b : T[i] = t[i]
  BY <1>1, <1>2, <1>3, <1>4, <1>5, <1>6
<1>8. \A j \in 1 .. k + 1 + v : T[b + j] = W[j]
  <2>1. ASSUME NEW j \in 1 .. k + 1 + v PROVE T[b + j] = W[j]
    <3>1. /\ b + j \in 1 .. Len(t) + Len(W) /\ ~ (b + j <= Len(t))
          /\ b + j \in 1 .. Len(tW) + Len(E) /\ b + j <= Len(tW)
          /\ (b + j) - Len(t) = j
      BY <1>1, <1>4, <1>5, <1>6
    <3>2. QED BY <1>2, <1>3, <3>1
  <2>2. QED BY <2>1
<1>9. T[Len(T)] = end
  <2>1. /\ Len(T) \in 1 .. Len(tW) + Len(E) /\ ~ (Len(T) <= Len(tW))
        /\ Len(T) - Len(tW) = 1
    BY <1>1, <1>3, <1>6
  <2>2. QED BY <1>1, <1>3, <2>1
<1>10. \A i \in 1 .. k : T[b + i] = w.key[i]
  <2>1. \A i \in 1 .. k : i \in 1 .. k + 1 + v
    OBVIOUS
  <2>2. QED BY <1>5, <1>8, <2>1
<1>11. T[b + (k + 1)] = Cmd!Sep
  <2>1. k + 1 \in 1 .. k + 1 + v
    OBVIOUS
  <2>2. QED BY <1>5, <1>8, <2>1
<1>12. \A i \in 1 .. v : T[b + k + 1 + i] = w.val[i]
  <2>1. ASSUME NEW i \in 1 .. v PROVE T[b + k + 1 + i] = w.val[i]
    <3>1. k + 1 + i \in 1 .. k + 1 + v /\ b + (k + 1 + i) = b + k + 1 + i
      OBVIOUS
    <3>2. QED BY <1>5, <1>8, <3>1
  <2>2. QED BY <2>1
<1>13. T[b + k + 1] = Cmd!Sep
  <2>1. b + (k + 1) = b + k + 1
    OBVIOUS
  <2>2. QED BY <1>11, <2>1
<1>14. WordAt(T, w, Len(t), Len(T), end)
  <2>1. \A i \in 1 .. Len(w.key) : T[Len(t) + i] = w.key[i]
    BY <1>4, <1>10
  <2>2. \A i \in 1 .. Len(w.val) : T[Len(t) + Len(w.key) + 1 + i] = w.val[i]
    BY <1>4, <1>12
  <2>3. QED BY <1>4, <1>6, <1>9, <1>13, <2>1, <2>2 DEF WordAt
<1>15. QED BY <1>3, <1>4, <1>6, <1>7, <1>14

(* Every word of what the boot loader passes is where it was written.      *)
LEMMA TextLaidOut ==
    ASSUME NEW words \in WordList,
           \A k \in 1 .. Len(words) : words[k].val # << >>
    PROVE  \E off : Layout(Text(words), words, off)
<1> DEFINE n == Len(words)
<1>1. PICK text : Writes(text, words) /\ Text(words) = text[n]
  BY TextWrites
<1>2. n \in Nat /\ \A k \in 1 .. n : words[k] \in [key : Seq(Chars), val : Seq(Chars)]
  BY LenProperties, ElementOfSeq DEF WordList
<1>3. /\ text \in [0 .. n -> Seq(AllChars)] /\ text[0] = << >>
      /\ \A k \in 1 .. n :
            text[k] = text[k - 1] \o Word(words[k]) \o <<EndOf(words, k)>>
  BY <1>1 DEF Writes
<1> DEFINE L(k) == Len(text[k])
<1> HIDE DEF n
<1>4. \A k \in 0 .. n : text[k] \in Seq(AllChars) /\ L(k) \in Nat
  BY <1>3, LenProperties
<1>5. ASSUME NEW k \in 1 .. n
      PROVE  /\ WordAt(text[k], words[k], L(k - 1), L(k), EndOf(words, k))
             /\ L(k - 1) <= L(k)
             /\ \A i \in 1 .. L(k - 1) : text[k][i] = text[k - 1][i]
  <2>1. k - 1 \in 0 .. n /\ text[k - 1] \in Seq(AllChars) /\ L(k - 1) \in Nat
        /\ L(k) \in Nat
    BY <1>2, <1>4
  <2>2. EndOf(words, k) \in AllChars
    BY Zenon DEF EndOf, AllChars
  <2>3. words[k] \in [key : Seq(Chars), val : Seq(Chars)] /\ words[k].val # << >>
    BY <1>2 DEF n
  <2>4. /\ WordAt(text[k], words[k], L(k - 1), L(k), EndOf(words, k))
        /\ \A i \in 1 .. L(k - 1) : text[k][i] = text[k - 1][i]
    <3>0. text[k] \in Seq(AllChars)
      BY <1>2, <1>4
    <3>1. PICK s \in Seq(AllChars), e \in AllChars,
               w \in [key : Seq(Chars), val : Seq(Chars)], T \in Seq(AllChars) :
            /\ s = text[k - 1] /\ e = EndOf(words, k) /\ w = words[k]
            /\ T = text[k]
      BY <3>0, <2>1, <2>2, <2>3
    <3>2. T = Appended(s, w, e) /\ w.val # << >>
      BY <1>3, <2>3, <3>1 DEF Appended
    <3>3. /\ WordAt(T, w, Len(s), Len(T), e)
          /\ \A i \in 1 .. Len(s) : T[i] = s[i]
      BY <3>1, <3>2, WordAppended
    <3>4. QED BY <3>1, <3>3
  <2>5. Len(words[k].key) \in Nat /\ Len(words[k].val) \in Nat
    BY <2>3, WordIs
  <2>6. L(k) = L(k - 1) + Len(words[k].key) + Len(words[k].val) + 2
    BY <2>4, Zenon DEF WordAt
  <2>7. L(k - 1) <= L(k)
    <3>1. PICK x \in Nat, y \in Nat, a \in Nat, b \in Nat :
                /\ x = L(k - 1) /\ y = L(k)
                /\ a = Len(words[k].key) /\ b = Len(words[k].val)
      BY <2>1, <2>5
    <3>2. y = x + a + b + 2
      BY <2>6, <3>1
    <3>3. x <= y
      BY <3>2
    <3>4. QED BY <3>1, <3>3
  <2>8. QED BY <2>4, <2>7
<1> HIDE DEF L
<1>6. ASSUME NEW k \in 0 .. n
      PROVE  L(k) <= L(n) /\ \A i \in 1 .. L(k) : text[n][i] = text[k][i]
  <2> DEFINE S == {d \in 0 .. n - k : /\ L(k) <= L(k + d)
                        /\ \A i \in 1 .. L(k) : text[k + d][i] = text[k][i]}
  <2>1. 0 \in S
    BY <1>2, <1>4
  <2>2. ASSUME NEW d \in 1 .. n - k, d - 1 \in S PROVE d \in S
    <3>1. PICK m \in 1 .. n : /\ m = k + d /\ m - 1 = k + (d - 1)
                              /\ m - 1 \in 0 .. n /\ m \in 0 .. n
      <4>1. k + d \in 1 .. n /\ (k + d) - 1 = k + (d - 1)
            /\ k + (d - 1) \in 0 .. n /\ k + d \in 0 .. n
        BY <1>2
      <4>2. QED BY <4>1
    <3>2. /\ L(k) <= L(m - 1)
          /\ \A i \in 1 .. L(k) : text[m - 1][i] = text[k][i]
      BY <2>2, <3>1
    <3>3. /\ L(m - 1) <= L(m)
          /\ \A i \in 1 .. L(m - 1) : text[m][i] = text[m - 1][i]
      BY <1>5
    <3>4. L(k) \in Nat /\ L(m - 1) \in Nat /\ L(m) \in Nat
      BY <1>4, <3>1
    <3>5. L(k) <= L(m) /\ \A i \in 1 .. L(k) : text[m][i] = text[k][i]
      BY <3>2, <3>3, <3>4
    <3>6. d \in 0 .. n - k
      OBVIOUS
    <3>7. QED BY <3>1, <3>5, <3>6
  <2>3. S \in SUBSET (0 .. n - k) /\ n - k \in Nat
    BY <1>2
  <2>4. n - k \in S
    <3> HIDE DEF S
    <3>1. QED BY <2>1, <2>2, <2>3, AllRounds
  <2>5. k + (n - k) = n
    BY <1>2
  <2>6. QED BY <2>4, <2>5
<1> DEFINE off == [k \in 0 .. n |-> L(k)]
<1>7. /\ off \in [0 .. n -> 0 .. L(n)] /\ off[0] = 0 /\ off[n] = L(n)
  <2>1. \A k \in 0 .. n : L(k) \in 0 .. L(n)
    BY <1>2, <1>4, <1>6
  <2>2. L(0) = 0 /\ 0 \in 0 .. n /\ n \in 0 .. n
    BY <1>2, <1>3 DEF L
  <2>3. QED BY <2>1, <2>2
<1>8. ASSUME NEW k \in 1 .. n
      PROVE  WordAt(text[n], words[k], off[k - 1], off[k], EndOf(words, k))
  <2>1. k \in 0 .. n /\ k - 1 \in 0 .. n
    BY <1>2
  <2>2. PICK from \in Nat, to \in Nat :
            /\ from = L(k - 1) /\ from = off[k - 1] /\ to = L(k) /\ to = off[k]
    BY <1>4, <2>1
  <2>3. /\ WordAt(text[k], words[k], from, to, EndOf(words, k))
        /\ \A i \in 1 .. to : text[n][i] = text[k][i]
    BY <1>5, <1>6, <2>1, <2>2
  <2>4. PICK a \in Nat, b \in Nat : a = Len(words[k].key) /\ b = Len(words[k].val)
    BY <1>2, WordIs
  <2>5. /\ to = from + a + b + 2
        /\ \A i \in 1 .. a : text[k][from + i] = words[k].key[i]
        /\ text[k][from + a + 1] = Cmd!Sep
        /\ \A i \in 1 .. b : text[k][from + a + 1 + i] = words[k].val[i]
        /\ text[k][to] = EndOf(words, k)
    BY <2>3, <2>4 DEF WordAt
  <2> DEFINE T == text[n]
             t1 == text[k]
             key == words[k].key
             val == words[k].val
  <2>11. /\ to = from + a + b + 2
         /\ \A i \in 1 .. a : t1[from + i] = key[i]
         /\ t1[from + a + 1] = Cmd!Sep
         /\ \A i \in 1 .. b : t1[from + a + 1 + i] = val[i]
         /\ t1[to] = EndOf(words, k)
         /\ \A i \in 1 .. to : T[i] = t1[i]
    BY <2>3, <2>5
  <2> HIDE DEF T, t1, key, val
  <2>6. \A i \in 1 .. a : T[from + i] = key[i]
    <3>1. \A i \in 1 .. a : from + i \in 1 .. to
      BY <2>11
    <3>2. QED BY <2>11, <3>1
  <2>7. T[from + a + 1] = Cmd!Sep
    <3>1. from + a + 1 \in 1 .. to
      BY <2>11
    <3>2. QED BY <2>11, <3>1
  <2>8. \A i \in 1 .. b : T[from + a + 1 + i] = val[i]
    <3>1. \A i \in 1 .. b : from + a + 1 + i \in 1 .. to
      BY <2>11
    <3>2. QED BY <2>11, <3>1
  <2>9. T[to] = EndOf(words, k)
    <3>1. to \in 1 .. to
      BY <2>11
    <3>2. QED BY <2>11, <3>1
  <2>10. QED BY <2>2, <2>4, <2>6, <2>7, <2>8, <2>9, <2>11
             DEF WordAt, T, key, val
<1>9. Text(words) \in Seq(AllChars) /\ Text(words) = text[n]
      /\ Len(Text(words)) = L(n)
  <2>1. n \in 0 .. n
    BY <1>2
  <2>2. QED BY <1>1, <1>4, <2>1 DEF L, n
<1>10. Layout(Text(words), words, off)
  <2> HIDE DEF off
  <2>1. QED BY <1>7, <1>8, <1>9 DEF Layout, n
<1>11. QED BY <1>10

(* What makes a word of a tidy line come back from the parser.             *)
LEMMA TidyWord ==
    ASSUME NEW words \in WordList, Tidy(words), NEW k \in 1 .. Len(words)
    PROVE  /\ words[k] \in [key : Seq(Chars), val : Seq(Chars)]
           /\ Len(words[k].key) \in 1 .. KeyLen - 1
           /\ Len(words[k].val) \in 1 .. ValLen - 1
           /\ \A i \in 1 .. Len(words[k].key) : words[k].key[i] # Cmd!Sep
           /\ \A i \in 1 .. Len(words[k].val) :
                    words[k].val[i] # " " /\ words[k].val[i] # Cmd!Nul
           /\ AllDigits(words[k].val) /\ Number(words[k].val) < Cmd!NO_ARG
           /\ words[k].val # << >>
<1>1. PICK w \in [key : Seq(Chars), val : Seq(Chars)] : w = words[k]
  <2>1. words[k] \in [key : Seq(Chars), val : Seq(Chars)]
    BY ElementOfSeq DEF WordList
  <2>2. QED BY <2>1
<1>2. k \in DOMAIN words
  BY LenProperties DEF WordList
<1>3. /\ Len(w.key) \in 1 .. KeyLen - 1
      /\ Cmd!Sep \notin {w.key[j] : j \in DOMAIN w.key}
      /\ Len(w.val) \in 1 .. ValLen - 1
      /\ \A j \in DOMAIN w.val : Cmd!IsDigit(w.val[j])
      /\ Number(w.val) < Cmd!NO_ARG
  BY <1>1, <1>2 DEF Tidy
<1>4. PICK K \in Seq(Chars), V \in Seq(Chars) : K = w.key /\ V = w.val
  BY <1>1
<1>5. DOMAIN K = 1 .. Len(K) /\ DOMAIN V = 1 .. Len(V)
  BY <1>4, LenProperties
<1>6. \A i \in 1 .. Len(V) : Cmd!IsDigit(V[i])
  BY <1>3, <1>4, <1>5
<1>7. \A i \in 1 .. Len(V) : V[i] # " " /\ V[i] # Cmd!Nul
  <2>1. ASSUME NEW i \in 1 .. Len(V) PROVE V[i] # " " /\ V[i] # Cmd!Nul
    <3>1. PICK j \in 1 .. Len(Digits) : Digits[j] = V[i]
      BY <1>6 DEF Cmd!IsDigit, Cmd!Base
    <3>2. Digits[j] \in Chars \ {" "}
      BY <3>1, CmdlineAssumption, ElementOfSeq
    <3>3. QED BY <3>1, <3>2 DEF Chars
  <2>2. QED BY <2>1
<1>8. \A i \in 1 .. Len(K) : K[i] # Cmd!Sep
  BY <1>3, <1>4, <1>5
<1>9. V # << >>
  BY <1>3, <1>4
<1>10. QED BY <1>1, <1>3, <1>4, <1>6, <1>7, <1>8, <1>9 DEF AllDigits

(* The sizes of the arrays. *)
LEMMA CmdNumbers ==
    /\ KeyLen \in Nat \ {0} /\ BufLen \in Nat \ {0} /\ ValLen \in Nat \ {0}
    /\ MaxArgs \in Nat \ {0} /\ LevelMod \in Nat \ {0} /\ KeyLen <= BufLen
    /\ ArgMod \in Nat \ {0} /\ LevelMod < ArgMod
<1>1. {KeyLen, MaxArgs, BufLen, ValLen, Room, LevelMod} \subseteq Nat \ {0}
  BY StartupAssumption
<1>2. ArgMod \in Nat \ {0}
  BY StartupAssumption
<1>3. QED BY <1>1, <1>2, CmdlineAssumption

(* The value of the separator at idx is the whole value of its word, and   *)
(* the next key begins behind the space (cmdline.c:44-58).                 *)
LEMMA ValueIs ==
    ASSUME NEW words \in WordList, Tidy(words), NEW T, NEW off,
           Layout(T, words, off), NEW k \in 1 .. Len(words),
           idx = off[k - 1] + Len(words[k].key) + 1
    PROVE  /\ Cmd!ValueEnd(T) = idx + Len(words[k].val)
           /\ SubSeq(T, idx + 1, Cmd!ValueEnd(T)) = words[k].val
           /\ Cmd!Behind(T) = IF k = Len(words) THEN off[k] ELSE off[k] + 1
           /\ T[idx] = Cmd!Sep
<1>1. PICK n \in Nat : n = Len(words)
  BY LenProperties DEF WordList
<1>2. PICK from \in Nat, to \in Nat, len \in Nat :
        /\ from = off[k - 1] /\ to = off[k] /\ len = Len(T) /\ to <= len
        /\ T \in Seq(AllChars)
  <2>1. off \in [0 .. Len(words) -> 0 .. Len(T)] /\ T \in Seq(AllChars)
    BY DEF Layout
  <2>2. Len(T) \in Nat
    BY <2>1, LenProperties
  <2>3. k \in 0 .. Len(words) /\ k - 1 \in 0 .. Len(words)
    BY <1>1
  <2>4. off[k] \in 0 .. Len(T) /\ off[k - 1] \in 0 .. Len(T)
    BY <2>1, <2>3
  <2>5. QED BY <2>1, <2>2, <2>4
<1>3. PICK a \in Nat, b \in Nat : a = Len(words[k].key) /\ b = Len(words[k].val)
  <2>1. Len(words[k].key) \in Nat /\ Len(words[k].val) \in Nat
    BY TidyWord, WordIs
  <2>2. QED BY <2>1
<1>4. PICK val \in Seq(AllChars) :
        /\ val = words[k].val /\ Len(val) = b
        /\ \A i \in 1 .. b : val[i] # " " /\ val[i] # Cmd!Nul
  <2>1. words[k].val \in Seq(AllChars)
    BY TidyWord, WordIs
  <2>2. QED BY <1>3, <2>1, TidyWord
<1>5. WordAt(T, words[k], from, to, EndOf(words, k))
  BY <1>2 DEF Layout
<1>6. /\ to = from + a + b + 2
      /\ T[from + a + 1] = Cmd!Sep
      /\ \A i \in 1 .. b : T[from + a + 1 + i] = val[i]
      /\ T[to] = EndOf(words, k)
  BY <1>3, <1>4, <1>5 DEF WordAt
<1>7. PICK here \in Nat, e0 \in Nat :
        here = idx /\ here = from + a + 1 /\ e0 = here + b
  <2>1. idx = from + a + 1
    BY <1>2, <1>3
  <2>2. PICK h \in Nat : h = from + a + 1
    OBVIOUS
  <2>3. h + b \in Nat
    OBVIOUS
  <2>4. QED BY <2>1, <2>2, <2>3
<1>8. /\ here = from + a + 1 /\ e0 = here + b /\ to = from + a + b + 2
      /\ to <= len
  BY <1>2, <1>6, <1>7
<1> DEFINE P(e) == /\ e < Len(T) => T[e + 1] \in {" ", Cmd!Nul}
                   /\ \A i \in idx + 1 .. e : T[i] \notin {" ", Cmd!Nul}
           chosen == CHOOSE e \in idx .. Len(T) : P(e)
<1>9. \A j \in here + 1 .. e0 : T[j] = val[j - here] /\ T[j] \notin {" ", Cmd!Nul}
  <2>1. ASSUME NEW j \in here + 1 .. e0
        PROVE  T[j] = val[j - here] /\ T[j] \notin {" ", Cmd!Nul}
    <3>1. j - here \in 1 .. b /\ from + a + 1 + (j - here) = j
      BY <1>8
    <3>2. QED BY <1>4, <1>6, <3>1
  <2>2. QED BY <2>1
<1>10. T[e0 + 1] \in {" ", Cmd!Nul} /\ e0 + 1 = to /\ e0 < len
  <2>1. e0 + 1 = to /\ e0 < len
    BY <1>8
  <2>2. EndOf(words, k) \in {" ", Cmd!Nul}
    BY Zenon DEF EndOf
  <2>3. QED BY <1>6, <2>1, <2>2
<1>11. e0 \in here .. len /\ P(e0)
  <2>1. e0 \in here .. len
    BY <1>8
  <2>2. P(e0)
    BY <1>7, <1>9, <1>10
  <2>3. QED BY <2>1, <2>2
<1>12. ASSUME NEW e \in here .. len, P(e) PROVE e = e0
  <2>1. CASE e < e0
    <3>1. e + 1 \in here + 1 .. e0 /\ e < len
      BY <1>8, <2>1
    <3>2. QED BY <1>2, <1>9, <1>12, <3>1
  <2>2. CASE e > e0
    <3>1. e0 + 1 \in here + 1 .. e
      BY <1>8, <2>2
    <3>2. QED BY <1>7, <1>10, <1>12, <3>1
  <2>3. QED BY <2>1, <2>2
<1>13. Cmd!ValueEnd(T) = e0
  <2>1. Cmd!ValueEnd(T) = chosen
    BY DEF Cmd!ValueEnd
  <2>2. chosen = CHOOSE e \in here .. len : P(e)
    BY <1>2, <1>7
  <2> HIDE DEF P
  <2>3. chosen \in here .. len /\ P(chosen)
    <3> HIDE DEF chosen
    <3>1. QED BY <1>11, <2>2
  <2> HIDE DEF chosen
  <2>4. QED BY <1>12, <2>1, <2>3
<1>14. Cmd!Behind(T) = IF k = Len(words) THEN off[k] ELSE off[k] + 1
  <2>1. Cmd!Behind(T) = IF T[e0 + 1] = " " THEN e0 + 1 + 1 ELSE e0 + 1
    BY <1>13 DEF Cmd!Behind
  <2>2. T[e0 + 1] = " " <=> k # Len(words)
    <3>1. Cmd!Nul # " "
      BY DEF Cmd!Nul
    <3>2. T[e0 + 1] = EndOf(words, k)
      BY <1>6, <1>10
    <3>3. QED BY <3>1, <3>2 DEF EndOf
  <2>3. e0 + 1 = off[k]
    BY <1>2, <1>10
  <2>4. QED BY <2>1, <2>2, <2>3
<1>15. SubSeq(T, idx + 1, e0) = val
  <2>1. PICK m1 \in Nat, m2 \in Nat :
            m1 = here + 1 /\ m2 = e0 /\ m2 - m1 + 1 = b
    BY <1>8
  <2>2. \A i \in m1 .. m2 : T[i] \in AllChars
    <3>1. \A i \in m1 .. m2 : i \in 1 .. Len(T)
      <4>1. m1 >= 1 /\ m2 <= len
        BY <1>8, <2>1
      <4>2. QED BY <1>2, <4>1
    <3>2. QED BY <1>2, <3>1, ElementOfSeq
  <2>3. PICK sub \in Seq(AllChars) :
            /\ sub = SubSeq(T, m1, m2)
            /\ Len(sub) = IF m1 <= m2 THEN m2 - m1 + 1 ELSE 0
            /\ \A i \in 1 .. m2 - m1 + 1 : sub[i] = T[m1 + i - 1]
    <3>1. m1 \in Int /\ m2 \in Int
      BY <2>1
    <3>2. /\ SubSeq(T, m1, m2) \in Seq(AllChars)
          /\ Len(SubSeq(T, m1, m2)) = IF m1 <= m2 THEN m2 - m1 + 1 ELSE 0
          /\ \A i \in 1 .. m2 - m1 + 1 : SubSeq(T, m1, m2)[i] = T[m1 + i - 1]
      BY <2>2, <3>1, SubSeqProperties
    <3>3. QED BY <3>2
  <2>4. Len(sub) = b
    BY <2>1, <2>3
  <2>5. \A i \in 1 .. b : sub[i] = val[i]
    <3>1. ASSUME NEW i \in 1 .. b PROVE sub[i] = val[i]
      <4>1. i \in 1 .. m2 - m1 + 1 /\ m1 + i - 1 = from + a + 1 + i
        BY <1>8, <2>1
      <4>2. QED BY <1>6, <2>3, <4>1
    <3>2. QED BY <3>1
  <2>6. sub = val
    BY <1>4, <2>4, <2>5, SeqEqual
  <2>7. QED BY <1>7, <2>1, <2>3, <2>6
<1>16. QED BY <1>3, <1>4, <1>6, <1>7, <1>13, <1>14, <1>15

(* The inductive invariant: the rows filled are the first words, and idx   *)
(* is where buf, what was read of the key of the next word, ends.          *)
Rows == [key : Seq(AllChars), val : Nat]
Entry(w) == [key |-> w.key, val |-> Number(w.val)]
Filled(words, k) ==
    /\ args \in Seq(Rows) /\ Len(args) = k
    /\ \A i \in 1 .. k : args[i] = Entry(words[i])
KeyRead(key) == Len(buf) <= Len(key) /\ \A i \in 1 .. Len(buf) : buf[i] = key[i]
Reading(words, off, k) ==
    /\ k \in 0 .. Len(words) /\ Filled(words, k)
    /\ buf \in Seq(AllChars) /\ idx \in Nat
    /\ IF k = Len(words) THEN idx = off[k] + 1
       ELSE KeyRead(words[k + 1].key) /\ idx = off[k] + Len(buf) + 1
CmdInv(words) ==
    /\ parse \in {"no", "parsing", "done"}
    /\ parse = "parsing" =>
        \E off : /\ Layout(Text(words), words, off)
                 /\ \E k \in Nat : Reading(words, off, k)
    /\ parse = "done" => Filled(words, Len(words))

(* Where the words of a line begin and end. *)
LEMMA WordsLength ==
    ASSUME NEW words \in WordList, NEW T, NEW off, Layout(T, words, off)
    PROVE  /\ Len(words) \in Nat /\ Len(T) \in Nat
           /\ off[0] = 0 /\ off[Len(words)] = Len(T) /\ T \in Seq(AllChars)
           /\ \A k \in 0 .. Len(words) : off[k] \in 0 .. Len(T)
  BY LenProperties DEF WordList, Layout

(* The bounds of the word that is read: its key begins at off[k] + 1, and  *)
(* its separator is inside the string.                                     *)
LEMMA NextWord ==
    ASSUME NEW words \in WordList, NEW T, NEW off, Layout(T, words, off),
           NEW k \in 0 .. Len(words), k # Len(words)
    PROVE  /\ k + 1 \in 1 .. Len(words) /\ k \in Nat /\ off[k] \in Nat
           /\ off[k + 1] \in Nat /\ off[k + 1] <= Len(T)
           /\ words[k + 1] \in [key : Seq(Chars), val : Seq(Chars)]
           /\ Len(words[k + 1].key) \in Nat /\ Len(words[k + 1].val) \in Nat
           /\ off[k + 1] = off[k] + Len(words[k + 1].key)
                                + Len(words[k + 1].val) + 2
           /\ \A i \in 1 .. Len(words[k + 1].key) :
                    T[off[k] + i] = words[k + 1].key[i]
           /\ T[off[k] + Len(words[k + 1].key) + 1] = Cmd!Sep
<1>1. Len(words) \in Nat /\ Len(T) \in Nat
  BY WordsLength
<1>2. PICK m \in 1 .. Len(words) : m = k + 1 /\ m - 1 = k
  BY <1>1
<1>3. m \in 0 .. Len(words) /\ k \in Nat
  BY <1>1, <1>2
<1>4. off[k] \in 0 .. Len(T) /\ off[m] \in 0 .. Len(T)
  BY <1>3, WordsLength
<1>5. words[m] \in [key : Seq(Chars), val : Seq(Chars)]
  BY ElementOfSeq DEF WordList
<1>6. WordAt(T, words[m], off[k], off[m], EndOf(words, m))
  BY <1>2 DEF Layout
<1>7. Len(words[m].key) \in Nat /\ Len(words[m].val) \in Nat
  BY <1>5, WordIs
<1>8. off[k] \in Nat /\ off[m] \in Nat /\ off[m] <= Len(T)
  BY <1>1, <1>4
<1>9. /\ off[m] = off[k] + Len(words[m].key) + Len(words[m].val) + 2
      /\ \A i \in 1 .. Len(words[m].key) : T[off[k] + i] = words[m].key[i]
      /\ T[off[k] + Len(words[m].key) + 1] = Cmd!Sep
  BY <1>6 DEF WordAt
<1>10. QED BY <1>2, <1>3, <1>5, <1>7, <1>8, <1>9

(* The parser begins at the first word. *)
LEMMA ReadBegins ==
    ASSUME NEW words \in WordList, Tidy(words), Cmd!cmdline_parse(Text(words))
    PROVE  CmdInv(words)'
<1> DEFINE T == Text(words)
<1>1. PICK off : Layout(T, words, off)
  <2>1. \A k \in 1 .. Len(words) : words[k].val # << >>
    BY TidyWord
  <2>2. QED BY <2>1, TextLaidOut
<1>2. /\ idx' = 1 /\ buf' = << >> /\ args' = << >>
      /\ parse' = IF T = << >> THEN "done" ELSE "parsing"
  BY DEF Cmd!cmdline_parse
<1> HIDE DEF T
<1>3. Filled(words, 0)'
  BY <1>2 DEF Filled
<1>4. /\ Len(words) \in Nat /\ Len(T) \in Nat
      /\ off[0] = 0 /\ off[Len(words)] = Len(T) /\ T \in Seq(AllChars)
  BY <1>1, WordsLength
<1>5. CASE T = << >>
  <2>1. Len(T) = 0
    BY <1>5
  <2>2. Len(words) = 0
    <3>1. SUFFICES ASSUME Len(words) # 0 PROVE FALSE
      OBVIOUS
    <3>2. 0 \in 0 .. Len(words) /\ 0 # Len(words)
      BY <1>4, <3>1
    <3>3. /\ off[1] \in Nat /\ off[1] <= Len(T)
          /\ Len(words[1].key) \in Nat /\ Len(words[1].val) \in Nat
          /\ off[1] = off[0] + Len(words[1].key) + Len(words[1].val) + 2
      <4>1. 0 + 1 = 1
        OBVIOUS
      <4>2. QED BY <1>1, <3>2, <4>1, NextWord
    <3>4. /\ off[1] <= 0
          /\ off[1] = 0 + Len(words[1].key) + Len(words[1].val) + 2
      BY <1>4, <2>1, <3>3
    <3>5. PICK o \in Nat, a \in Nat, b \in Nat :
            o = off[1] /\ a = Len(words[1].key) /\ b = Len(words[1].val)
      BY <3>3
    <3>6. o <= 0 /\ o = 0 + a + b + 2
      BY <3>4, <3>5
    <3>7. QED BY <3>6
  <2>3. QED BY <1>2, <1>3, <1>5, <2>2 DEF CmdInv
<1>6. CASE T # << >>
  <2>1. Len(T) # 0
    BY <1>4, <1>6, EmptySeq
  <2>2. Len(words) # 0
    BY <1>4, <2>1
  <2>3. KeyRead(words[1].key)'
    <3>1. Len(words[1].key) \in Nat
      <4>1. 1 \in 1 .. Len(words)
        BY <1>4, <2>2
      <4>2. QED BY <4>1, TidyWord, WordIs
    <3>2. QED BY <1>2, <3>1 DEF KeyRead
  <2>4. Reading(words, off, 0)'
    <3>1. 0 \in 0 .. Len(words) /\ 0 # Len(words) /\ 0 + 1 = 1
      BY <1>4, <2>2
    <3>2. buf' \in Seq(AllChars) /\ idx' \in Nat /\ Len(buf') = 0
      BY <1>2
    <3>3. idx' = off[0] + Len(buf') + 1
      BY <1>2, <1>4, <3>2
    <3>4. QED BY <1>3, <2>3, <3>1, <3>2, <3>3 DEF Reading
  <2>5. QED BY <1>1, <1>2, <1>6, <2>4 DEF CmdInv, T
<1>7. QED BY <1>5, <1>6

(* A character of a key is kept. *)
LEMMA ReadChar ==
    ASSUME NEW words \in WordList, Tidy(words), CmdInv(words),
           Cmd!parse_char(Text(words))
    PROVE  CmdInv(words)'
<1> DEFINE T == Text(words)
<1>1. parse = "parsing" /\ idx <= Len(T) /\ T[idx] # Cmd!Sep
  BY DEF Cmd!parse_char
<1>2. PICK off : /\ Layout(T, words, off)
                 /\ \E k \in Nat : Reading(words, off, k)
  BY <1>1 DEF CmdInv
<1>3. PICK k \in Nat : Reading(words, off, k)
  BY <1>2
<1>4. /\ k \in 0 .. Len(words) /\ Filled(words, k)
      /\ buf \in Seq(AllChars) /\ idx \in Nat /\ Len(buf) \in Nat
  BY <1>3, LenProperties DEF Reading
<1>5. k # Len(words)
  <2>1. ASSUME k = Len(words) PROVE FALSE
    <3>1. idx = off[Len(words)] + 1
      BY <1>3, <2>1 DEF Reading
    <3>2. PICK len \in Nat : len = Len(T) /\ off[Len(words)] = len
      BY <1>2, WordsLength
    <3>3. QED BY <1>1, <3>1, <3>2
  <2>2. QED BY <2>1
<1>6. KeyRead(words[k + 1].key) /\ idx = off[k] + Len(buf) + 1
  BY <1>3, <1>5 DEF Reading
<1> DEFINE key == words[k + 1].key
<1>7. /\ k + 1 \in 1 .. Len(words) /\ off[k] \in Nat
      /\ Len(key) \in Nat
      /\ \A i \in 1 .. Len(key) : T[off[k] + i] = key[i]
      /\ T[off[k] + Len(key) + 1] = Cmd!Sep
  BY <1>2, <1>4, <1>5, NextWord
<1>8. \A i \in 1 .. Len(key) : key[i] \in AllChars
  BY <1>7, TidyWord, WordIs
<1> HIDE DEF T, key
<1>9. PICK from \in Nat, len \in Nat, a \in Nat, here \in Nat :
        from = off[k] /\ len = Len(buf) /\ a = Len(key) /\ here = idx
  BY <1>4, <1>7
<1>10. here = from + len + 1 /\ len <= a
  BY <1>6, <1>9 DEF KeyRead, key
<1>11. len < a
  <2>1. len # a
    BY <1>1, <1>7, <1>9, <1>10
  <2>2. QED BY <1>10, <2>1
<1>12. T[idx] = key[len + 1] /\ len + 1 \in 1 .. a
  <2>1. len + 1 \in 1 .. a /\ from + (len + 1) = here
    BY <1>10, <1>11
  <2>2. QED BY <1>7, <1>9, <2>1
<1>13. Len(buf) # BufLen
  <2>1. a \in 1 .. KeyLen - 1
    BY <1>7, <1>9, TidyWord DEF key
  <2>2. a < BufLen
    BY <2>1, CmdNumbers
  <2>3. QED BY <1>9, <1>11, <2>2, CmdNumbers
<1>14. /\ buf' = Append(buf, T[idx]) /\ idx' = idx + 1
       /\ args' = args /\ parse' = parse
  BY <1>13 DEF Cmd!parse_char, T
<1>15. T[idx] \in AllChars
  BY <1>8, <1>9, <1>12
<1>16. PICK c \in AllChars, new \in Seq(AllChars) :
        /\ c = T[idx] /\ new = buf' /\ Len(new) = len + 1
        /\ \A i \in 1 .. len : new[i] = buf[i]
        /\ new[len + 1] = c
  BY <1>4, <1>9, <1>14, <1>15, AppendProperties
<1>17. \A i \in 1 .. len : buf[i] = key[i]
  BY <1>6, <1>9 DEF KeyRead, key
<1>18. \A i \in 1 .. len + 1 : new[i] = key[i]
  <2>1. \A i \in 1 .. len + 1 : i \in 1 .. len \/ i = len + 1
    OBVIOUS
  <2>2. QED BY <1>12, <1>16, <1>17, <2>1
<1>19. KeyRead(key)'
  <2>1. Len(buf') <= Len(key)
    BY <1>9, <1>11, <1>16
  <2>2. \A i \in 1 .. Len(buf') : buf'[i] = key[i]
    BY <1>16, <1>18
  <2>3. QED BY <2>1, <2>2 DEF KeyRead, key
<1>20. idx' = off[k] + Len(buf') + 1
  <2>1. Len(buf') = len + 1
    BY <1>16
  <2>2. idx' = here + 1 /\ off[k] = from
    BY <1>9, <1>14
  <2>3. here + 1 = from + (len + 1) + 1
    BY <1>10
  <2>4. QED BY <2>1, <2>2, <2>3
<1>21. Reading(words, off, k)'
  <2>1. Filled(words, k)'
    BY <1>4, <1>14 DEF Filled
  <2>2. buf' \in Seq(AllChars) /\ idx' \in Nat
    BY <1>4, <1>14, <1>16
  <2>3. QED BY <1>4, <1>5, <1>19, <1>20, <2>1, <2>2 DEF Reading, key
<1>22. QED BY <1>1, <1>2, <1>14, <1>21 DEF CmdInv, T

(* Behind the last word all of them are stored. *)
LEMMA ReadEnds ==
    ASSUME NEW words \in WordList, Tidy(words), CmdInv(words),
           Cmd!parse_end(Text(words))
    PROVE  CmdInv(words)'
<1> DEFINE T == Text(words)
<1>1. /\ parse = "parsing" /\ idx > Len(T)
      /\ parse' = "done" /\ args' = args
  BY DEF Cmd!parse_end
<1>2. PICK off : /\ Layout(T, words, off)
                 /\ \E k \in Nat : Reading(words, off, k)
  BY <1>1 DEF CmdInv
<1>3. PICK k \in Nat : Reading(words, off, k)
  BY <1>2
<1>4. /\ k \in 0 .. Len(words) /\ Filled(words, k)
      /\ idx \in Nat /\ Len(buf) \in Nat
  BY <1>3, LenProperties DEF Reading
<1>5. k = Len(words)
  <2>1. SUFFICES ASSUME k # Len(words) PROVE FALSE
    OBVIOUS
  <2> DEFINE key == words[k + 1].key
             val == words[k + 1].val
  <2>2. idx = off[k] + Len(buf) + 1 /\ Len(buf) <= Len(key)
    BY <1>3, <2>1 DEF Reading, KeyRead
  <2>3. /\ off[k] \in Nat /\ off[k + 1] \in Nat /\ off[k + 1] <= Len(T)
        /\ Len(key) \in Nat /\ Len(val) \in Nat
        /\ off[k + 1] = off[k] + Len(key) + Len(val) + 2
    BY <1>2, <1>4, <2>1, NextWord
  <2>4. Len(T) \in Nat
    BY <1>2, WordsLength
  <2> HIDE DEF T, key, val
  <2>5. PICK from \in Nat, to \in Nat, a \in Nat, b \in Nat, l \in Nat, len \in Nat :
            /\ from = off[k] /\ to = off[k + 1] /\ a = Len(key)
            /\ b = Len(val) /\ l = Len(buf) /\ len = Len(T)
    BY <1>4, <2>3, <2>4
  <2>6. from + l + 1 > len /\ l <= a /\ to <= len /\ to = from + a + b + 2
    BY <1>1, <2>2, <2>3, <2>5 DEF T
  <2>7. QED BY <2>6
<1>6. QED BY <1>1, <1>4, <1>5 DEF CmdInv, Filled

(* A key and its value are stored, and the next key begins. *)
LEMMA ReadWord ==
    ASSUME NEW words \in WordList, Tidy(words), CmdInv(words),
           Cmd!parse_word(Text(words))
    PROVE  CmdInv(words)'
<1> DEFINE T == Text(words)
           val == SubSeq(T, idx + 1, Cmd!ValueEnd(T))
<1>1. parse = "parsing" /\ idx <= Len(T) /\ T[idx] = Cmd!Sep
  BY DEF Cmd!parse_word
<1>2. PICK off : /\ Layout(T, words, off)
                 /\ \E k \in Nat : Reading(words, off, k)
  BY <1>1 DEF CmdInv
<1>3. PICK k \in Nat : Reading(words, off, k)
  BY <1>2
<1>4. /\ k \in 0 .. Len(words) /\ Filled(words, k)
      /\ buf \in Seq(AllChars) /\ idx \in Nat /\ Len(buf) \in Nat
  BY <1>3, LenProperties DEF Reading
<1>5. k # Len(words)
  <2>1. ASSUME k = Len(words) PROVE FALSE
    <3>1. idx = off[Len(words)] + 1
      BY <1>3, <2>1 DEF Reading
    <3>2. PICK len \in Nat : len = Len(T) /\ off[Len(words)] = len
      BY <1>2, WordsLength
    <3>3. QED BY <1>1, <3>1, <3>2
  <2>2. QED BY <2>1
<1>6. KeyRead(words[k + 1].key) /\ idx = off[k] + Len(buf) + 1
  BY <1>3, <1>5 DEF Reading
<1>7. PICK n \in Nat, m \in Nat :
        /\ n = Len(words) /\ m = k + 1 /\ m \in 1 .. n /\ m - 1 = k
        /\ k < n
  BY <1>2, <1>4, <1>5, WordsLength
<1> DEFINE w == words[m]
           key == w.key
<1>8. /\ off[k] \in Nat /\ off[m] \in Nat
      /\ w \in [key : Seq(Chars), val : Seq(Chars)]
      /\ Len(key) \in Nat /\ Len(w.val) \in Nat
      /\ off[m] = off[k] + Len(key) + Len(w.val) + 2
      /\ \A i \in 1 .. Len(key) : T[off[k] + i] = key[i]
  BY <1>2, <1>4, <1>5, <1>7, NextWord, SMTT(30)
<1>9. /\ Len(key) \in 1 .. KeyLen - 1 /\ Len(w.val) \in 1 .. ValLen - 1
      /\ \A i \in 1 .. Len(key) : key[i] # Cmd!Sep
      /\ AllDigits(w.val) /\ Number(w.val) < Cmd!NO_ARG
  BY <1>7, TidyWord
<1> HIDE DEF T, w, key, val
(* The separator at idx is that of the word: all of its key is in buf.     *)
<1>10. PICK from \in Nat, len \in Nat, a \in Nat, here \in Nat :
        from = off[k] /\ len = Len(buf) /\ a = Len(key) /\ here = idx
  BY <1>4, <1>8
<1>11. here = from + len + 1 /\ len <= a
  BY <1>6, <1>7, <1>10 DEF KeyRead, key, w
<1>12. len = a
  <2>1. SUFFICES ASSUME len < a PROVE FALSE
    BY <1>11
  <2>2. len + 1 \in 1 .. a /\ from + (len + 1) = here
    BY <1>11, <2>1
  <2>3. T[idx] = key[len + 1] /\ key[len + 1] # Cmd!Sep
    BY <1>8, <1>9, <1>10, <2>2
  <2>4. QED BY <1>1, <2>3
<1>13. buf = key /\ key \in Seq(AllChars)
  <2>1. key \in Seq(AllChars)
    BY <1>8, WordIs DEF key
  <2>2. \A i \in 1 .. Len(buf) : buf[i] = key[i]
    BY <1>6, <1>7 DEF KeyRead, key, w
  <2>3. Len(buf) = Len(key)
    BY <1>10, <1>12
  <2>4. QED BY <1>4, <2>1, <2>2, <2>3, SeqEqual
<1>14. /\ val = w.val
       /\ Cmd!Behind(T) = IF m = n THEN off[m] ELSE off[m] + 1
  <2>1. idx = off[m - 1] + Len(words[m].key) + 1
    <3>1. idx = off[k] + Len(key) + 1
      BY <1>6, <1>10, <1>12
    <3>2. QED BY <1>7, <3>1 DEF key, w
  <2>2. QED BY <1>2, <1>7, <2>1, ValueIs, SMTT(30) DEF val, w
<1>15. Cmd!strncpy(buf) = key
  <2>1. Len(key) <= KeyLen
    BY <1>9, CmdNumbers
  <2>2. QED BY <1>13, <2>1 DEF Cmd!strncpy, Cmd!FirstOf
<1>16. Cmd!atou(val) = Number(w.val) /\ Number(w.val) \in Nat
  <2>1. Cmd!atou(w.val) = Number(w.val)
    BY <1>8, <1>9, AtouReads
  <2>2. PICK f : Reads(f, w.val) /\ Number(w.val) = f[Len(w.val)]
    BY <1>8, <1>9, NumberReads
  <2>3. Number(w.val) \in Nat
    BY <1>8, <2>2 DEF Reads
  <2>4. QED BY <1>14, <2>1, <2>3
<1>17. ~ (Len(buf) >= BufLen \/ Len(args) = MaxArgs \/ Len(val) >= ValLen)
  <2>1. Len(buf) < BufLen
    BY <1>8, <1>9, <1>13, CmdNumbers
  <2>2. Len(val) < ValLen
    BY <1>8, <1>9, <1>14, CmdNumbers
  <2>3. Len(args) < MaxArgs
    <3>1. Len(args) = k /\ n <= MaxArgs
      BY <1>4, <1>7 DEF Filled, Tidy
    <3>2. QED BY <1>7, <3>1, CmdNumbers
  <2>4. Len(args) \in Nat /\ Len(buf) \in Nat /\ Len(val) \in Nat
    BY <1>4, <1>8, <1>14 DEF Filled
  <2>5. QED BY <2>1, <2>2, <2>3, <2>4, CmdNumbers
<1>18. /\ args' = Append(args, [key |-> Cmd!strncpy(buf), val |-> Cmd!atou(val)])
       /\ buf' = <<T[Cmd!Behind(T)]>> /\ idx' = Cmd!Behind(T) + 1
       /\ parse' = parse
  <2>1. /\ args' = Append(args, [key |-> Cmd!strncpy(buf),
                                 val |-> Cmd!atou(SubSeq(T, idx + 1, Cmd!ValueEnd(T)))])
        /\ buf' = <<T[Cmd!Behind(T)]>> /\ idx' = Cmd!Behind(T) + 1
        /\ parse' = parse
    BY <1>17 DEF Cmd!parse_word, T, val
  <2>2. QED BY <2>1 DEF val
<1>19. args' = Append(args, Entry(w))
  BY <1>15, <1>16, <1>18 DEF Entry, key
<1>20. Filled(words, m)'
  <2>1. PICK e \in Rows : e = Entry(w)
    BY <1>13, <1>16 DEF Entry, Rows, key
  <2>2. PICK old \in Seq(Rows) :
            /\ old = args /\ Len(old) = k
            /\ \A i \in 1 .. k : old[i] = Entry(words[i])
    BY <1>4 DEF Filled
  <2>3. PICK new \in Seq(Rows) :
            /\ new = args' /\ Len(new) = k + 1
            /\ \A i \in 1 .. k : new[i] = old[i]
            /\ new[k + 1] = e
    BY <1>19, <2>1, <2>2, AppendProperties
  <2>4. \A i \in 1 .. m : i \in 1 .. k \/ i = k + 1
    BY <1>7
  <2>5. \A i \in 1 .. m : new[i] = Entry(words[i])
    BY <1>7, <2>1, <2>2, <2>3, <2>4 DEF w
  <2>6. QED BY <1>7, <2>3, <2>5 DEF Filled
<1>21. PICK o \in Nat, l \in Nat : o = off[m] /\ l = Len(T) /\ o >= 1 /\ o <= l
  <2>1. PICK o \in Nat, f \in Nat, x \in Nat, y \in Nat :
            /\ o = off[m] /\ f = off[k] /\ x = Len(key) /\ y = Len(w.val)
    BY <1>8
  <2>2. o = f + x + y + 2
    BY <1>8, <2>1
  <2>3. o >= 1
    BY <2>2
  <2>4. Len(T) \in Nat /\ off[m] \in 0 .. Len(T)
    BY <1>2, <1>7, WordsLength
  <2>5. QED BY <2>1, <2>3, <2>4
<1>22. T \in Seq(AllChars) /\ off[n] = Len(T)
  BY <1>2, <1>7, WordsLength
<1>23. ASSUME m = n PROVE Reading(words, off, m)'
  <2>1. Cmd!Behind(T) = o /\ T[o] \in AllChars
    <3>1. o \in 1 .. Len(T)
      BY <1>21
    <3>2. QED BY <1>14, <1>21, <1>22, <1>23, <3>1, ElementOfSeq
  <2>2. buf' \in Seq(AllChars) /\ idx' = off[m] + 1 /\ idx' \in Nat
    BY <1>18, <1>21, <2>1
  <2>3. m \in 0 .. Len(words) /\ m = Len(words)
    BY <1>7, <1>23
  <2>4. QED BY <1>20, <2>2, <2>3 DEF Reading
<1>24. ASSUME m # n PROVE Reading(words, off, m)'
  <2> DEFINE next == words[m + 1].key
  <2>1. m \in 0 .. Len(words) /\ m # Len(words)
    BY <1>7, <1>24
  <2>2. /\ off[m + 1] \in Nat /\ off[m + 1] <= Len(T)
        /\ words[m + 1] \in [key : Seq(Chars), val : Seq(Chars)]
        /\ Len(next) \in Nat /\ Len(words[m + 1].val) \in Nat
        /\ off[m + 1] = off[m] + Len(next) + Len(words[m + 1].val) + 2
        /\ \A i \in 1 .. Len(next) : T[off[m] + i] = next[i]
        /\ m + 1 \in 1 .. Len(words)
    BY <1>2, <2>1, NextWord
  <2>3. Len(next) >= 1 /\ 1 \in 1 .. Len(next)
    <3>1. Len(next) \in 1 .. KeyLen - 1
      BY <2>2, TidyWord
    <3>2. QED BY <2>2, <3>1, CmdNumbers
  <2> HIDE DEF next
  <2>4. T[o + 1] = next[1] /\ Cmd!Behind(T) = o + 1
    BY <1>14, <1>21, <1>24, <2>2, <2>3
  <2>5. next[1] \in AllChars
    BY <2>2, <2>3, WordIs DEF next
  <2>6. PICK c \in AllChars, new \in Seq(AllChars) :
            c = next[1] /\ new = buf' /\ Len(new) = 1 /\ new[1] = c
    <3>1. PICK c \in AllChars : c = next[1]
      BY <2>5
    <3>2. <<c>> \in Seq(AllChars) /\ Len(<<c>>) = 1 /\ <<c>>[1] = c
      OBVIOUS
    <3>3. buf' = <<c>>
      BY <1>18, <2>4, <3>1
    <3>4. QED BY <3>1, <3>2, <3>3
  <2>7. idx' = o + 2
    BY <1>18, <2>4
  <2>8. KeyRead(next)'
    <3>1. \A i \in 1 .. 1 : new[i] = next[i]
      BY <2>6
    <3>2. Len(buf') <= Len(next) /\ \A i \in 1 .. Len(buf') : buf'[i] = next[i]
      BY <2>3, <2>6, <3>1
    <3>3. QED BY <3>2 DEF KeyRead, next
  <2>9. buf' \in Seq(AllChars) /\ idx' \in Nat /\ idx' = off[m] + Len(buf') + 1
    BY <1>21, <2>6, <2>7
  <2>10. QED BY <1>20, <2>1, <2>8, <2>9 DEF Reading, next
<1>25. Reading(words, off, m)'
  BY <1>23, <1>24
<1>26. QED BY <1>1, <1>2, <1>18, <1>25 DEF CmdInv, T

(* A key is shorter than its row, and ends there (cmdline.c:75).           *)
LEMMA RowIs ==
    ASSUME NEW words \in WordList, Tidy(words), Filled(words, Len(words)),
           NEW i \in 1 .. Len(words)
    PROVE  Cmd!Row(i) = words[i].key
<1>1. PICK n \in Nat : n = Len(words) /\ n = Len(args)
  BY LenProperties DEF WordList, Filled
<1>2. \A j \in 1 .. n : args[j].key = words[j].key
  <2>1. \A j \in 1 .. n : args[j] = Entry(words[j])
    BY <1>1 DEF Filled
  <2>2. \A j \in 1 .. n : Entry(words[j]).key = words[j].key
    BY DEF Entry
  <2>3. QED BY <2>1, <2>2
<1>3. ASSUME NEW j \in 1 .. n
      PROVE  /\ Cmd!UpToNul(args[j].key) = words[j].key
             /\ Len(words[j].key) # KeyLen
  <2>1. PICK w \in [key : Seq(Chars), val : Seq(Chars)] :
            w = words[j] /\ Len(w.key) \in 1 .. KeyLen - 1
    BY <1>1, TidyWord
  <2>2. \A p \in 1 .. Len(w.key) : w.key[p] # Cmd!Nul
    BY <2>1, WordIs
  <2>3. {p \in 1 .. Len(w.key) : w.key[p] = Cmd!Nul} = {}
    BY <2>2
  <2>4. Cmd!UpToNul(w.key) = w.key
    BY <2>3 DEF Cmd!UpToNul
  <2>5. Len(w.key) # KeyLen
    BY <2>1, CmdNumbers
  <2>6. QED BY <1>2, <2>1, <2>4, <2>5
<1> DEFINE Own(j) == Cmd!UpToNul(args[j].key)
           g == [j \in 1 .. n + 1 |-> IF j > n THEN << >> ELSE Own(j)]
           row == CHOOSE f : f = [j \in 1 .. n + 1 |->
                    IF j > n THEN << >>
                    ELSE IF Len(Own(j)) = KeyLen THEN Own(j) \o f[j + 1]
                         ELSE Own(j)]
<1>4. Cmd!Row(i) = row[i]
  BY <1>1 DEF Cmd!Row
<1>5. \A j \in 1 .. n : Len(Own(j)) # KeyLen
  BY <1>3
<1> HIDE DEF Own
<1>6. g = [j \in 1 .. n + 1 |->
                    IF j > n THEN << >>
                    ELSE IF Len(Own(j)) = KeyLen THEN Own(j) \o g[j + 1]
                         ELSE Own(j)]
  <2>1. \A j \in 1 .. n + 1 : j > n \/ j \in 1 .. n
    BY <1>1
  <2>2. QED BY <1>5, <2>1
<1>7. row = [j \in 1 .. n + 1 |->
                    IF j > n THEN << >>
                    ELSE IF Len(Own(j)) = KeyLen THEN Own(j) \o row[j + 1]
                         ELSE Own(j)]
  <2> HIDE DEF g
  <2>1. QED BY <1>6 DEF row
<1> HIDE DEF row
<1>8. row[i] = Own(i)
  <2>1. i \in 1 .. n /\ i \in 1 .. n + 1 /\ ~ (i > n)
    BY <1>1
  <2>2. Len(Own(i)) # KeyLen
    BY <1>5, <2>1
  <2>3. QED BY <1>7, <2>1, <2>2, Zenon
<1>9. QED BY <1>1, <1>3, <1>4, <1>8 DEF Own

(* What is looked up among the rows is what the line means: the first word *)
(* of the key, or none (cmdline.c:70-91).                                  *)
Named(words, key) == {i \in DOMAIN words : words[i].key = key}
LEMMA LookedUp ==
    ASSUME NEW words \in WordList, Tidy(words), Filled(words, Len(words)),
           NEW key
    PROVE  /\ Cmd!cmdline_getarg(key) = Meant(words, key)
           /\ Meant(words, key) \in Nat
           /\ Cmd!cmdline_hasarg(key) <=> Meant(words, key) # Cmd!NO_ARG
<1>1. PICK n \in Nat : /\ n = Len(words) /\ DOMAIN words = 1 .. n
                       /\ DOMAIN args = 1 .. n
  <2>1. Len(words) \in Nat /\ DOMAIN words = 1 .. Len(words)
    BY LenProperties DEF WordList
  <2>2. DOMAIN args = 1 .. Len(args) /\ Len(args) = Len(words)
    BY LenProperties DEF Filled
  <2>3. QED BY <2>1, <2>2
<1>2. \A i \in 1 .. n : /\ Cmd!Row(i) = words[i].key
                        /\ args[i].val = Number(words[i].val)
                        /\ Number(words[i].val) < Cmd!NO_ARG
                        /\ Number(words[i].val) \in Nat
  <2>1. ASSUME NEW i \in 1 .. n
        PROVE  /\ Cmd!Row(i) = words[i].key
               /\ args[i].val = Number(words[i].val)
               /\ Number(words[i].val) < Cmd!NO_ARG
               /\ Number(words[i].val) \in Nat
    <3>1. Cmd!Row(i) = words[i].key
      BY <1>1, RowIs
    <3>2. args[i] = Entry(words[i]) /\ args[i] \in Rows
      <4>1. args \in Seq(Rows) /\ i \in 1 .. Len(args)
        BY <1>1 DEF Filled
      <4>2. args[i] \in Rows
        BY <4>1, ElementOfSeq
      <4>3. QED BY <1>1, <4>2 DEF Filled
    <3>3. args[i].val = Number(words[i].val) /\ Number(words[i].val) \in Nat
      BY <3>2 DEF Entry, Rows
    <3>4. QED BY <1>1, <3>1, <3>3, TidyWord
  <2>2. QED BY <2>1
<1>3. Cmd!NO_ARG \in Nat
  BY CmdNumbers DEF Cmd!NO_ARG
<1> DEFINE is == Named(words, key)
           found == Cmd!get_arg_idx(key)
<1>4. is = {i \in 1 .. n : words[i].key = key}
  BY <1>1 DEF Named
<1>5. found = {i \in 1 .. n : words[i].key = key
                    /\ \A j \in 1 .. i - 1 : words[j].key # key}
  <2>1. \A i \in 1 .. n : 1 .. i - 1 \subseteq 1 .. n
    OBVIOUS
  <2>2. found = {i \in 1 .. n : Cmd!Row(i) = key
                    /\ \A j \in 1 .. i - 1 : Cmd!Row(j) # key}
    BY <1>1 DEF Cmd!get_arg_idx
  <2> HIDE DEF found
  <2>3. QED BY <1>2, <2>1, <2>2
<1>6. Meant(words, key) = IF is = {} THEN Cmd!NO_ARG
          ELSE Number(words[CHOOSE i \in is : \A j \in is : i <= j].val)
  BY DEF Meant, Named
<1>7. Cmd!cmdline_getarg(key) = IF found = {} THEN Cmd!NO_ARG
          ELSE args[CHOOSE i \in found : TRUE].val
  BY DEF Cmd!cmdline_getarg, Cmd!cmdline_hasarg
<1>8. Cmd!cmdline_hasarg(key) <=> found # {}
  BY DEF Cmd!cmdline_hasarg
<1> HIDE DEF is, found
<1>9. CASE is = {}
  <2>1. found = {}
    BY <1>4, <1>5, <1>9
  <2>2. QED BY <1>3, <1>6, <1>7, <1>8, <1>9, <2>1
<1>10. CASE is # {}
  <2>1. is \in SUBSET Nat
    BY <1>4
  <2>2. PICK m \in is : \A j \in is : m <= j
    BY <1>10, <2>1, LeastElement
  <2>3. (CHOOSE i \in is : \A j \in is : i <= j) = m
    <3> DEFINE c == CHOOSE i \in is : \A j \in is : i <= j
    <3>1. c \in is /\ \A j \in is : c <= j
      BY <2>2
    <3> HIDE DEF c
    <3>2. c <= m /\ m <= c /\ c \in Nat /\ m \in Nat
      BY <2>1, <2>2, <3>1
    <3>3. c = m
      BY <3>2
    <3>4. QED BY <3>3 DEF c
  <2>4. m \in 1 .. n /\ words[m].key = key
    BY <1>4, <2>2
  <2>5. found = {m}
    <3>1. m \in found
      <4>1. \A j \in 1 .. m - 1 : j \in 1 .. n /\ ~ (m <= j)
        BY <2>4
      <4>2. \A j \in 1 .. m - 1 : words[j].key # key
        BY <1>4, <2>2, <4>1
      <4>3. QED BY <1>5, <2>4, <4>2
    <3>2. ASSUME NEW i \in found PROVE i = m
      <4>1. i \in 1 .. n /\ i \in is /\ \A j \in 1 .. i - 1 : words[j].key # key
        BY <1>4, <1>5, <3>2
      <4>2. m <= i
        BY <2>2, <4>1
      <4>3. ~ (m < i)
        BY <2>4, <4>1
      <4>4. QED BY <2>4, <4>1, <4>2, <4>3
    <3>3. QED BY <3>1, <3>2
  <2>6. (CHOOSE i \in found : TRUE) = m
    BY <2>5
  <2>7. Cmd!cmdline_getarg(key) = args[m].val /\ Meant(words, key) = Number(words[m].val)
    BY <1>6, <1>7, <1>10, <2>3, <2>5, <2>6
  <2>8. Number(words[m].val) # Cmd!NO_ARG
    BY <1>2, <1>3, <2>4
  <2>9. QED BY <1>2, <1>8, <2>4, <2>5, <2>7, <2>8
<1>11. QED BY <1>9, <1>10

(* The inductive invariant of kmain: while there are tags, the line is     *)
(* being parsed; then kboot.dbg is what the line means.                    *)
Unset == [use_serial |-> FALSE, level |-> 0]
DbgMeant(words) ==
    /\ dbg.use_serial <=> Meant(words, SerialKey) # Cmd!NO_ARG
    /\ Meant(words, DbgKey) < LevelMod => dbg.level = Meant(words, DbgKey)
ArgsInv ==
    /\ machine \in Machines
    /\ Tidy(machine.words) =>
        /\ CmdInv(machine.words)
        /\ stage = "tags" => dbg = Unset
        /\ stage # "tags" => parse = "done" /\ DbgMeant(machine.words)

(* The words of a machine's command line. *)
LEMMA MachineWords ==
    ASSUME machine \in Machines
    PROVE  machine.words \in WordList
  BY CmdlineAssumption DEF WordList

(* At first nothing is read. *)
LEMMA ArgsInit == Init => ArgsInv
  BY DEF Init, Cmd!Init, ArgsInv, CmdInv, Unset

(* A tidy line is parsed to its end. *)
LEMMA LineParsed ==
    ASSUME ArgsInv, cmdline_parse, Tidy(machine.words)
    PROVE  CmdInv(machine.words)' /\ stage' = "tags" /\ dbg' = dbg
<1> DEFINE words == machine.words
<1>1. words \in WordList /\ Tidy(words) /\ CmdInv(words)
  BY MachineWords DEF ArgsInv
<1>2. Cmd!Parse(Text(words)) /\ machine' = machine /\ dbg' = dbg
      /\ stage' = IF parse' = "overrun" THEN "astray" ELSE "tags"
  BY DEF cmdline_parse, Others
<1>3. PICK w \in WordList : w = words
  BY <1>1
<1>4. CmdInv(w)'
  <2>1. Tidy(w) /\ CmdInv(w) /\ Cmd!Parse(Text(w))
    BY <1>1, <1>2, <1>3
  <2>2. CASE Cmd!cmdline_parse(Text(w))
    BY <2>1, <2>2, ReadBegins
  <2>3. CASE Cmd!parse_word(Text(w))
    BY <2>1, <2>3, ReadWord
  <2>4. CASE Cmd!parse_char(Text(w))
    BY <2>1, <2>4, ReadChar
  <2>5. CASE Cmd!parse_end(Text(w))
    BY <2>1, <2>5, ReadEnds
  <2>6. QED BY <2>1, <2>2, <2>3, <2>4, <2>5 DEF Cmd!Parse
<1>5. parse' # "overrun"
  BY <1>4 DEF CmdInv
<1>6. machine'.words = w
  BY <1>2, <1>3
<1>7. CmdInv(machine.words)'
  BY <1>4, <1>6
<1>8. QED BY <1>2, <1>5, <1>7

(* The debug output is set to what the line says. *)
LEMMA DbgRead ==
    ASSUME ArgsInv, read_args, Tidy(machine.words)
    PROVE  DbgMeant(machine.words)'
<1> DEFINE words == machine.words
<1>1. /\ words \in WordList /\ Filled(words, Len(words))
      /\ machine' = machine /\ dbg = Unset
      /\ dbg' = IF args = << >> THEN dbg ELSE cmdline_dbg
  BY MachineWords DEF ArgsInv, CmdInv, read_args, Others
<1> DEFINE serial == Meant(words, SerialKey)
           level == Meant(words, DbgKey)
<1>2. /\ Cmd!cmdline_getarg(SerialKey) = serial
      /\ Cmd!cmdline_getarg(DbgKey) = level /\ level \in Nat
      /\ Cmd!cmdline_hasarg(DbgKey) <=> level # Cmd!NO_ARG
  BY <1>1, LookedUp
<1>3. SUFFICES /\ dbg'.use_serial <=> serial # Cmd!NO_ARG
               /\ level < LevelMod => dbg'.level = level
  BY <1>1 DEF DbgMeant
<1>4. ~ (Cmd!NO_ARG < LevelMod)
  BY CmdNumbers DEF Cmd!NO_ARG
<1>5. CASE args = << >>
  <2>1. DOMAIN words = {}
    <3>1. Len(words) = 0
      BY <1>1, <1>5 DEF Filled
    <3>2. DOMAIN words = 1 .. Len(words)
      BY <1>1, LenProperties DEF WordList
    <3>3. QED BY <3>1, <3>2
  <2>2. serial = Cmd!NO_ARG /\ level = Cmd!NO_ARG
    BY <2>1 DEF Meant
  <2>3. dbg'.use_serial = FALSE
    BY <1>1, <1>5 DEF Unset
  <2> HIDE DEF serial, level
  <2>4. QED BY <1>4, <2>2, <2>3
<1>6. CASE args # << >>
  <2> HIDE DEF serial, level
  <2>1. dbg' = [use_serial |-> serial # Cmd!NO_ARG,
                level |-> IF level # Cmd!NO_ARG THEN level % LevelMod ELSE 0]
    BY <1>1, <1>2, <1>6 DEF cmdline_dbg
  <2>2. ASSUME level < LevelMod PROVE level % LevelMod = level
    BY <1>2, <2>2, CmdNumbers, DivMod
  <2>3. QED BY <1>4, <2>1, <2>2
<1>7. QED BY <1>5, <1>6

(* Each step keeps the arguments. *)
LEMMA ArgsStep == ArgsInv /\ [Next]_vars => ArgsInv'
<1> SUFFICES ASSUME ArgsInv, [Next]_vars PROVE ArgsInv'
  OBVIOUS
<1>1. machine' = machine /\ machine \in Machines
  BY DEF ArgsInv, Next, Boot, MainLoop, cmdline_parse, read_args, acpi_init,
      apic_init, ioapic_init, timer_init, set_masks, call_usleep, run_usleep,
      run_counter, interrupt, iret, InLoop, Loop, Others, vars
<1>2. SUFFICES ASSUME Tidy(machine.words)
               PROVE  /\ CmdInv(machine.words)'
                      /\ stage' = "tags" => dbg' = Unset
                      /\ stage' # "tags" => /\ parse' = "done"
                                            /\ DbgMeant(machine.words)'
  <2>1. Tidy(machine.words)' = Tidy(machine.words)
    BY <1>1 DEF Tidy
  <2>2. QED BY <1>1, <1>2, <2>1 DEF ArgsInv
<1>3. /\ CmdInv(machine.words)
      /\ stage = "tags" => dbg = Unset
      /\ stage # "tags" => parse = "done" /\ DbgMeant(machine.words)
  BY <1>2 DEF ArgsInv
<1>4. CASE cmdline_parse
  <2>1. stage = "tags"
    BY <1>4 DEF cmdline_parse
  <2>2. QED BY <1>2, <1>3, <1>4, <2>1, LineParsed
<1>5. ASSUME cmdVars' = cmdVars PROVE CmdInv(machine.words)'
  <2>1. /\ idx' = idx /\ buf' = buf /\ args' = args /\ parse' = parse
        /\ machine'.words = machine.words
    BY <1>1, <1>5 DEF cmdVars
  <2>2. \A k : Filled(machine.words, k)' <=> Filled(machine.words, k)
    BY <2>1 DEF Filled
  <2>3. \A off, k : Reading(machine.words, off, k)'
                        <=> Reading(machine.words, off, k)
    BY <2>1, <2>2 DEF Reading, KeyRead
  <2>4. QED BY <1>3, <2>1, <2>2, <2>3 DEF CmdInv
<1>6. CASE read_args
  <2>1. cmdVars' = cmdVars /\ stage' = "acpi" /\ parse = "done"
    BY <1>6 DEF read_args, Others
  <2>2. DbgMeant(machine.words)'
    BY <1>2, <1>6, DbgRead
  <2>3. parse' = "done"
    BY <2>1 DEF cmdVars
  <2>4. QED BY <1>5, <2>1, <2>2, <2>3
<1>7. ASSUME cmdVars' = cmdVars, dbg' = dbg, stage' = "tags" <=> stage = "tags"
      PROVE  /\ CmdInv(machine.words)'
             /\ stage' = "tags" => dbg' = Unset
             /\ stage' # "tags" => parse' = "done" /\ DbgMeant(machine.words)'
  <2>1. DbgMeant(machine.words)' = DbgMeant(machine.words)
    BY <1>1, <1>7 DEF DbgMeant
  <2>2. parse' = parse
    BY <1>7 DEF cmdVars
  <2>3. QED BY <1>3, <1>5, <1>7, <2>1, <2>2
<1>8. CASE acpi_init \/ apic_init \/ ioapic_init \/ timer_init
  <2>1. /\ cmdVars' = cmdVars /\ dbg' = dbg /\ stage # "tags" /\ stage' # "tags"
    BY <1>8 DEF acpi_init, apic_init, ioapic_init, timer_init, Others
  <2>2. QED BY <1>7, <2>1
<1>9. CASE MainLoop
  <2>1. /\ cmdVars' = cmdVars /\ dbg' = dbg /\ stage' = stage
    BY <1>9
    DEF MainLoop, set_masks, call_usleep, run_usleep, run_counter, interrupt,
        iret, InLoop, Loop
  <2>2. QED BY <1>7, <2>1
<1>10. CASE UNCHANGED vars
  BY <1>7, <1>10 DEF vars
<1>11. QED BY <1>4, <1>6, <1>8, <1>9, <1>10 DEF Next, Boot

(* What is looked up is what was written, for every tidy command line: no  *)
(* key is found in the part of a word, a first word hides later ones, and  *)
(* the parser stays inside its arrays (cmdline.c:35-91, kernel.c:51).      *)
THEOREM ArgumentsAreFound == Spec => []ArgsFound
<1>1. ArgsInv => ArgsFound
  <2> SUFFICES ASSUME ArgsInv, Tidy(machine.words)
      PROVE  /\ stage \notin {"tags", "astray"} =>
                /\ \A key \in Keys :
                    Cmd!cmdline_getarg(key) = Meant(machine.words, key)
                /\ DbgMeant(machine.words)
             /\ parse # "overrun"
    BY DEF ArgsFound, DbgMeant
  <2>1. machine.words \in WordList /\ CmdInv(machine.words)
    BY MachineWords DEF ArgsInv
  <2>2. parse # "overrun"
    BY <2>1 DEF CmdInv
  <2>3. ASSUME stage # "tags"
        PROVE  /\ \A key \in Keys :
                    Cmd!cmdline_getarg(key) = Meant(machine.words, key)
               /\ DbgMeant(machine.words)
    <3>1. Filled(machine.words, Len(machine.words)) /\ DbgMeant(machine.words)
      BY <2>1, <2>3 DEF ArgsInv, CmdInv
    <3>2. QED BY <2>1, <3>1, LookedUp
  <2>4. QED BY <2>2, <2>3
<1>2. QED BY <1>1, ArgsInit, ArgsStep, PTL DEF Spec
=============================================================================
