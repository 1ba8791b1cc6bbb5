-------------------------------- MODULE Hpet --------------------------------
(***************************************************************************)
(* usleep of src/kernel/timer/hpet.c.  There is one counter; every call    *)
(* resets it, starts it and polls it.  A handler that interrupts a         *)
(* sleeping caller, at any of these steps, may sleep itself, and the       *)
(* interrupted caller goes on when the handler has returned: the calls are *)
(* a stack.                                                                *)
(***************************************************************************)
EXTENDS Naturals, Sequences

CONSTANTS
    FPerTick,   \* HPET.f_per_tick, femtoseconds of a tick
    FPerUs,     \* FEMTOSECONDS_PER_MICROSECOND
    UintMod,    \* numbers of a uint64_t, that is also of the counter
    Delays,     \* the microseconds callers sleep
    MaxNest     \* calls of usleep that interrupt each other

ASSUME HpetAssumption ==
    /\ FPerTick \in Nat \ {0} /\ FPerUs \in Nat \ {0}
    /\ UintMod \in Nat \ {0}
    /\ Delays \subseteq Nat
    /\ MaxNest \in Nat

(* The delays that fit a uint64_t in femtoseconds, with room for a tick.   *)
DelaysFit == \A us \in Delays : FPerUs * us + FPerTick <= UintMod

VARIABLES
    counter,    \* main_counter
    enabled,    \* ENABLE_HPET of config
    sleeps,     \* the calls that have not returned, the last one runs
    woken       \* the call that returned last, as its delay and ticks

hpetVars == <<counter, enabled, sleeps, woken>>

Top == sleeps[Len(sleeps)]
Calls == [us : Delays, ticks : Nat, started : BOOLEAN]

(* ticks is how many ticks a call has lasted, and is not counted on when   *)
(* they are enough.                                                        *)
LongEnough(call) == call.ticks * FPerTick >= FPerUs * call.us

hpet_timer_poll_time == (counter * FPerTick) % UintMod
Target(us) == (FPerUs * us) % UintMod

HpetInit ==
    /\ counter \in 0 .. 1
    /\ enabled \in BOOLEAN
    /\ sleeps = << >>
    /\ woken = {}

(* hpet_init stops the counter. *)
hpet_init == enabled' = FALSE /\ UNCHANGED <<counter, sleeps, woken>>

usleep_NoReset(us) ==
    /\ Len(sleeps) < MaxNest
    /\ sleeps' = Append(sleeps, [us |-> us, ticks |-> 0, started |-> FALSE])
    /\ UNCHANGED <<counter, enabled, woken>>
usleep(us) ==
    /\ Len(sleeps) < MaxNest
    /\ counter' = 0
    /\ sleeps' = Append(sleeps, [us |-> us, ticks |-> 0, started |-> FALSE])
    /\ UNCHANGED <<enabled, woken>>

hpet_timer_start_Never ==
    /\ sleeps # << >> /\ ~ Top.started
    /\ sleeps' = [sleeps EXCEPT ![Len(sleeps)].started = TRUE]
    /\ UNCHANGED <<counter, enabled, woken>>
hpet_timer_start ==
    /\ sleeps # << >> /\ ~ Top.started
    /\ enabled' = TRUE
    /\ sleeps' = [sleeps EXCEPT ![Len(sleeps)].started = TRUE]
    /\ UNCHANGED <<counter, woken>>

tick ==
    /\ enabled
    /\ counter' = (counter + 1) % UintMod
    /\ sleeps' = [i \in 1 .. Len(sleeps) |->
                    IF LongEnough(sleeps[i]) THEN sleeps[i]
                    ELSE [sleeps[i] EXCEPT !.ticks = @ + 1]]
    /\ UNCHANGED <<enabled, woken>>

(* A poll that ends the loop; others change nothing.                       *)
poll ==
    /\ sleeps # << >> /\ Top.started
    /\ hpet_timer_poll_time >= Target(Top.us)
    /\ woken' = {Top}
    /\ sleeps' = SubSeq(sleeps, 1, Len(sleeps) - 1)
    /\ UNCHANGED <<counter, enabled>>

HpetNext ==
    hpet_init \/ tick \/ hpet_timer_start \/ poll
        \/ \E us \in Delays : usleep(us)

HpetSpec == HpetInit /\ [][HpetNext]_hpetVars

-----------------------------------------------------------------------------
(* Values of the right kind. *)
HpetTypeOK ==
    /\ counter \in Nat
    /\ enabled \in BOOLEAN
    /\ sleeps \in Seq(Calls)
    /\ woken \in SUBSET Calls

(* No call returns before its time, whatever calls it was interrupted by,  *)
(* at whatever step, and however often the counter wrapped in between      *)
(* (hpet.c:53-56).                                                         *)
SleptLongEnough == DelaysFit => \A call \in woken : LongEnough(call)
=============================================================================
