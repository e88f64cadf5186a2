------------------------------- MODULE IrNec -------------------------------
(***************************************************************************)
(* The NEC infrared protocol of app/irproto/irproto.c: the pulses a code   *)
(* is sent as, and the machine that decodes them edge by edge.  A code is  *)
(* a function from bit positions to 0..1.  Times are in microseconds.      *)
(***************************************************************************)
EXTENDS Integers, Sequences

CONSTANTS
    Bits,                     \* bits of a code: 32 in the code
    Byte                      \* bits of a byte: 8

ASSUME NecConstants ==
    /\ Byte \in Nat \ {0}
    /\ Bits \in Nat \ {0}
    /\ Bits % Byte = 0

Pos  == 0..(Bits - 1)
Code == [Pos -> 0..1]

\* The length is kept in FLAG_VALID_BIT + 1 bits, 6 for codes of 32 bits.
Width == 2 * Bits

ACCEPTABLE_BIAS  == 150
AGC_MARK         == 9000
AGC_SPACE        == 4500
AGC_REPEAT_SPACE == 2250
LOGICAL_MARK     == 560
LOGIC_B0_SPACE   == 1120 - LOGICAL_MARK
LOGIC_B1_SPACE   == 2250 - LOGICAL_MARK

UNCERTAIN_PULSE_TIME == ACCEPTABLE_BIAS + AGC_MARK + AGC_SPACE

-----------------------------------------------------------------------------
(* Sending.                                                                *)

\* The pulses, marks and spaces in turn, of a burst whose bits go out in the
\* order f[0], f[1], ...
Frame(f) ==
    [n \in 1..(2 * Bits + 3) |->
        CASE n = 1     -> AGC_MARK
          [] n = 2     -> AGC_SPACE
          [] n % 2 = 1 /\ n # 1 -> LOGICAL_MARK
          [] OTHER     -> IF f[n \div 2 - 2] = 1
                          THEN LOGIC_B1_SPACE ELSE LOGIC_B0_SPACE]

\* What a remote sends while a key is held down.
Repeat == <<AGC_MARK, AGC_REPEAT_SPACE, LOGICAL_MARK>>

\* MASK_FOR_ONE_BYTE is (1 << sizeof(u8)) - 1, of one bit.
MaskWidth == 1

Masked(c, i) == IF i % Byte < MaskWidth THEN c[i] ELSE 0

\* The place of bit i in its byte read backwards.
Mirror(i) == Byte * (i \div Byte) + ((Byte - 1) - (i % Byte))

reverse_per_byte(c) == [i \in Pos |-> Masked(c, Mirror(i))]

\* ir_send_nec: each byte is reversed, then the highest bit goes first.
ir_send_nec(code) == Frame([k \in Pos |-> reverse_per_byte(code)[(Bits - 1) - k]])

-----------------------------------------------------------------------------
(* Receiving.                                                              *)

States == {"AGC_EXPECT", "AGC_GOES", "LOGICAL_EXPECT", "LOGICAL_GOES",
           "EOP_EXPECT", "EOP_GOES", "ERROR"}

match(usec, expect) ==
    usec - expect < ACCEPTABLE_BIAS /\ expect - usec < ACCEPTABLE_BIAS

\* A logical space was read as bit b.  Past the width of the data the shift
\* is undefined; the processor shifts by the count modulo the width.
ReadBit(d, b) ==
    [d EXCEPT !.data[d.len % Bits] = b,
              !.len   = d.len + 1,
              !.state = IF d.len + 1 = Bits THEN "EOP_EXPECT" ELSE "LOGICAL_EXPECT"]

Goto(d, ok, state) == [d EXCEPT !.state = IF ok THEN state ELSE "ERROR"]

\* Slip: the length is not reset when a new code begins.
AgcSpaceKeepingLen(d, usec) == [d EXCEPT !.state = "LOGICAL_EXPECT"]

\* The space after the AGC mark; one that does not match leads on as well.
AgcSpace(d, usec) ==
    IF match(usec, AGC_SPACE)
    THEN [d EXCEPT !.state = "LOGICAL_EXPECT", !.len = 0, !.data = [i \in Pos |-> 0]]
    ELSE [d EXCEPT !.state = "LOGICAL_EXPECT"]

\* The space after a logical mark tells the bit.
BitSpace(d, usec) ==
    CASE match(usec, LOGIC_B0_SPACE) -> ReadBit(d, 0)
      [] match(usec, LOGIC_B1_SPACE) -> ReadBit(d, 1)
      [] OTHER -> [d EXCEPT !.state = "ERROR"]

\* ir_recv_nec: one edge, usec after the one before it.
ir_recv_nec(q, usec) ==
    LET d == [q EXCEPT !.ready = FALSE]
    IN  CASE usec > UNCERTAIN_PULSE_TIME -> [d EXCEPT !.state = "AGC_EXPECT"]
          [] OTHER ->
             CASE d.state = "AGC_EXPECT" ->
                    Goto(d, match(usec, AGC_MARK), "AGC_GOES")
               [] d.state = "AGC_GOES" -> AgcSpace(d, usec)
               [] d.state = "LOGICAL_EXPECT" ->
                    Goto(d, match(usec, LOGICAL_MARK), "LOGICAL_GOES")
               [] d.state = "LOGICAL_GOES" -> BitSpace(d, usec)
               [] d.state = "EOP_EXPECT" ->
                    Goto([d EXCEPT !.ready = TRUE],
                         match(usec, LOGICAL_MARK), "EOP_GOES")
               [] OTHER -> [d EXCEPT !.state = "ERROR"]
=============================================================================
