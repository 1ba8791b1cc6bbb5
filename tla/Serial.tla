------------------------------- MODULE Serial -------------------------------
(***************************************************************************)
(* The serial port and its driver, src/kernel/driver/serial/               *)
(* serialdriver.c.  The port has a queue of characters to send, which      *)
(* takes no character when it is full; the status register shows whether   *)
(* the queue is empty.  In loopback mode the port receives what it sends.  *)
(***************************************************************************)
EXTENDS Naturals, Sequences

CONSTANT FifoSize       \* characters of the queue (16)

VARIABLES
    serial__has_init,
    loopback,   \* bit 4 of the modem control register
    fifo,       \* the queue
    wire,       \* what left the port
    lost        \* whether a character met a full queue

serialVars == <<serial__has_init, loopback, fifo, wire, lost>>

Init ==
    /\ serial__has_init = FALSE
    /\ loopback = FALSE
    /\ fifo = << >>
    /\ wire = << >>
    /\ lost = FALSE

(* The test: the port receives the byte it sent, or not.  If not it is     *)
(* used all the same, in loopback mode.                                    *)
serial_init ==
    /\ serial__has_init' = TRUE
    /\ fifo' = << >>
    /\ \E same \in BOOLEAN : loopback' = ~ same
    /\ UNCHANGED <<wire, lost>>

is_transmit_empty_Always == TRUE
is_transmit_empty == fifo = << >>

port_byte_out(a) ==
    /\ IF Len(fifo) = FifoSize
       THEN lost' = TRUE /\ UNCHANGED fifo
       ELSE fifo' = Append(fifo, a) /\ UNCHANGED lost
    /\ UNCHANGED <<serial__has_init, loopback, wire>>

send ==
    /\ fifo # << >>
    /\ fifo' = Tail(fifo)
    /\ wire' = IF loopback THEN wire ELSE Append(wire, Head(fifo))
    /\ UNCHANGED <<serial__has_init, loopback, lost>>
=============================================================================
