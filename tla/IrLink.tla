------------------------------- MODULE IrLink -------------------------------
(***************************************************************************)
(* One device sends with irsend.send (app/module/irsend.c over ir_send_nec *)
(* of app/irproto/irproto.c), another decodes with ir_recv_nec.  A mark is *)
(* a whole number of carrier periods; a space is a delay, from which the   *)
(* last character of the mark before it takes its time.  The receiver has  *)
(* the times between edges: an edge it sees late makes the interval that   *)
(* ends with it longer and the next one shorter.                           *)
(***************************************************************************)
EXTENDS IrNec

CONSTANTS
    Lag,                      \* how late the receiver may see an edge
    Delay                     \* what interrupts may add to a space at the sender

VARIABLES
    code,                     \* the argument of irsend.send
    pulses,                   \* the pulses ir_send_nec asks for
    at,                       \* pulses sent so far
    late,                     \* how late the receiver saw the last edge
    reader                    \* the decoder of the receiver

vars == <<code, pulses, at, late, reader>>

NEC_CARRIER_FREQ == 37900
BIT_PER_TX_BYTE  == 10
USEC_PER_SECOND  == 1000 * 1000
USHRT_MAX        == 65535

Quiet == [state |-> "AGC_EXPECT", data |-> [i \in Pos |-> 0], len |-> 0, ready |-> FALSE]

\* irsend_write; the gap before it has put the decoder in AGC_EXPECT.
Init ==
    /\ code \in Code
    /\ pulses = ir_send_nec(code)
    /\ at = 0
    /\ late \in Lag
    /\ reader = Quiet

\* set_carrier: the time 100 characters, one carrier period each, take.
usec_per100bytes ==
    (BIT_PER_TX_BYTE * USEC_PER_SECOND) \div ((NEC_CARRIER_FREQ * BIT_PER_TX_BYTE) \div 100)

\* Slip: the rounding is done before the scaling.
send_mark_rounded(usec) == (usec \div usec_per100bytes) * usec_per100bytes

\* send_mark: how long the carrier is really on.
send_mark(usec) == (((100 * usec) \div usec_per100bytes) * usec_per100bytes) \div 100

\* wait_tx_empty waits until the FIFO of the UART is empty: the last character,
\* of a carrier period, leaves while the delay loop runs.
Shifting == (usec_per100bytes + 99) \div 100

\* send_space, for the times that fit os_delay_us, as far as there is no carrier.
send_space(usec) == usec - 5 - Shifting

Sent(n) == IF n % 2 = 1 THEN {send_mark(pulses[n])}
           ELSE {send_space(pulses[n]) + d : d \in Delay}

\* The decoder has room for what a space lacks already and an edge that is late
\* after one that was not, and the other way round.
ASSUME LinkConstants ==
    /\ Lag \subseteq Nat
    /\ Delay \subseteq Nat
    /\ \A l \in Lag : l + 5 + Shifting < ACCEPTABLE_BIAS
    /\ \A l \in Lag, d \in Delay : l + d < ACCEPTABLE_BIAS + 5 + Shifting

\* The next mark or space ends, and the decoder sees the edge: it has the time
\* since it saw the edge before.
Pulse ==
    /\ at < Len(pulses)
    /\ at' = at + 1
    /\ late' \in Lag
    /\ \E usec \in Sent(at + 1) :
          reader' = ir_recv_nec(reader, usec + late' - late)
    /\ UNCHANGED <<code, pulses>>

\* Lua sends another code, after a gap.
Again ==
    /\ at = Len(pulses)
    /\ code' \in Code
    /\ pulses' = ir_send_nec(code')
    /\ at' = 0
    /\ late' \in Lag
    /\ reader' = ir_recv_nec(reader, UNCERTAIN_PULSE_TIME + 1)

Next == Pulse \/ Again

Spec == Init /\ [][Next]_vars

-----------------------------------------------------------------------------
(* Properties.                                                             *)

\* The pulses as the UART and the delay loops make them, rounded down, cut
\* short or drawn out, and seen late or early for the edge before, are decoded:
\* after the last mark, and only then, the decoder has a code ready, and it is,
\* bit for bit, what ir_send_nec sent.
SentIsDecoded ==
    reader.ready <=>
        /\ at = Len(pulses)
        /\ reader.data = [k \in Pos |-> reverse_per_byte(code)[(Bits - 1) - k]]

\* "notice that the nec is LSB ahead" (line 129): the bits of each byte are
\* turned round, so that the receiver has the bytes that were passed to
\* irsend.send, the first one lowest.
BytesArrive ==
    reader.ready => \A i \in Pos :
        reader.data[i] = code[(Bits - Byte) - Byte * (i \div Byte) + (i % Byte)]
=============================================================================
