---------------------------- MODULE IrLinkProofs ----------------------------
(***************************************************************************)
(* Proofs about IrLink, for codes and bytes of every length: the pulses    *)
(* that irsend makes, rounded, cut short and seen late, are decoded into   *)
(* what was sent.                                                          *)
(***************************************************************************)
EXTENDS IrLink, TLAPS

-----------------------------------------------------------------------------
(* The pulses of a code.                                                   *)

Longest == 2 * Bits + 3

\* The space that stands for a bit.
Space(b) == IF b = 1 THEN LOGIC_B1_SPACE ELSE LOGIC_B0_SPACE

LEMMA Sizes ==
    /\ Bits \in Nat \ {0} /\ Byte \in Nat \ {0} /\ Longest \in Nat
    /\ [i \in Pos |-> 0] \in Code
  BY NecConstants DEF Longest, Code

LEMMA CodePulses ==
    ASSUME NEW f \in Code
    PROVE  /\ Len(Frame(f)) = Longest
           /\ \A n \in 1..Longest : Frame(f)[n] \in {AGC_MARK, AGC_SPACE, LOGICAL_MARK, Space(0), Space(1)}
           /\ \A n \in 1..Longest : Frame(f)[n] = AGC_MARK <=> n = 1
           /\ Frame(f)[2] = AGC_SPACE
           /\ \A i \in 0..Bits : Frame(f)[2 * i + 3] = LOGICAL_MARK
           /\ \A i \in Pos : Frame(f)[2 * i + 4] = Space(f[i])
<1>1. Longest \in Nat /\ Longest >= 5 /\ Bits \in Nat
  BY Sizes DEF Longest
<1> DEFINE v(n) == CASE n = 1     -> AGC_MARK
                     [] n = 2     -> AGC_SPACE
                     [] n % 2 = 1 /\ n # 1 -> LOGICAL_MARK
                     [] OTHER     -> IF f[n \div 2 - 2] = 1
                                     THEN LOGIC_B1_SPACE ELSE LOGIC_B0_SPACE
<1>2. Frame(f) = [n \in 1..Longest |-> v(n)]
  BY DEF Frame, Longest
<1>3. v(1) = AGC_MARK /\ v(2) = AGC_SPACE
  OBVIOUS
<1>4. \A i \in 0..Bits : v(2 * i + 3) = LOGICAL_MARK
  <2> TAKE i \in 0..Bits
  <2>1. (2 * i + 3) % 2 = 1 /\ 2 * i + 3 # 1 /\ 2 * i + 3 # 2
    BY <1>1
  <2> QED  BY <2>1
<1>5. \A i \in Pos : v(2 * i + 4) = Space(f[i])
  <2> TAKE i \in Pos
  <2>1. /\ (2 * i + 4) % 2 # 1 /\ 2 * i + 4 # 1 /\ 2 * i + 4 # 2
        /\ (2 * i + 4) \div 2 - 2 = i
    BY <1>1 DEF Pos
  <2> QED  BY <2>1 DEF Space
<1>6. \A n \in 1..Longest :
         \/ n \in {1, 2}
         \/ \E i \in 0..Bits : n = 2 * i + 3
         \/ \E i \in Pos : n = 2 * i + 4
  <2> TAKE n \in 1..Longest
  <2>1. CASE n >= 3 /\ n % 2 = 1
    <3>1. (n - 3) \div 2 \in 0..Bits /\ n = 2 * ((n - 3) \div 2) + 3
      BY <1>1, <2>1 DEF Longest
    <3> QED  BY <3>1
  <2>2. CASE n >= 3 /\ n % 2 = 0
    <3>1. (n - 4) \div 2 \in Pos /\ n = 2 * ((n - 4) \div 2) + 4
      BY <1>1, <2>2 DEF Longest, Pos
    <3> QED  BY <3>1
  <2>3. n % 2 \in {0, 1}
    OBVIOUS
  <2> QED  BY <2>1, <2>2, <2>3
<1> HIDE DEF v
<1>7. f \in [Pos -> 0..1]
  BY DEF Code
<1>8. \A i \in Pos : Space(f[i]) \in {Space(0), Space(1)}
  BY <1>7
<1>9. \A n \in 1..Longest :
         /\ v(n) \in {AGC_MARK, AGC_SPACE, LOGICAL_MARK, Space(0), Space(1)}
         /\ v(n) = AGC_MARK <=> n = 1
  <2>1. AGC_MARK \notin {AGC_SPACE, LOGICAL_MARK, Space(0), Space(1)}
    BY DEF AGC_MARK, AGC_SPACE, LOGICAL_MARK, Space, LOGIC_B0_SPACE, LOGIC_B1_SPACE
  <2> QED  BY <1>3, <1>4, <1>5, <1>6, <1>8, <2>1
<1>10. Len(Frame(f)) = Longest
  <2>1. Frame(f) \in [1..Longest -> {AGC_MARK, AGC_SPACE, LOGICAL_MARK, Space(0), Space(1)}]
    BY <1>2, <1>9
  <2> QED  BY <1>1, <2>1
<1>11. \A i \in 0..Bits : 2 * i + 3 \in 1..Longest
  BY <1>1 DEF Longest
<1>12. \A i \in Pos : 2 * i + 4 \in 1..Longest
  BY <1>1 DEF Longest, Pos
<1>13. 2 \in 1..Longest
  BY <1>1
<1> QED
  BY <1>2, <1>3, <1>4, <1>5, <1>9, <1>10, <1>11, <1>12, <1>13, ZenonT(40)

LEMMA Parts ==
    ASSUME NEW k \in 0..(Longest - 1)
    PROVE  \/ k = 0 \/ k = 1
           \/ \E i \in 0..Bits : k = 2 * i + 2
           \/ \E i \in Pos : k = 2 * i + 3
<1>1. Bits \in Nat /\ Longest = 2 * Bits + 3 /\ k \in Nat
  BY Sizes DEF Longest
<1>2. CASE k >= 2 /\ k % 2 = 0
  <2>1. (k - 2) \div 2 \in 0..Bits /\ k = 2 * ((k - 2) \div 2) + 2
    BY <1>1, <1>2
  <2> QED  BY <2>1
<1>3. CASE k >= 2 /\ k % 2 = 1
  <2>1. (k - 3) \div 2 \in Pos /\ k = 2 * ((k - 3) \div 2) + 3
    BY <1>1, <1>3 DEF Pos
  <2> QED  BY <2>1
<1>4. k = 0 \/ k = 1 \/ (k >= 2 /\ k % 2 = 0) \/ (k >= 2 /\ k % 2 = 1)
  BY <1>1
<1> QED  BY <1>2, <1>3, <1>4

LEMMA MarkOrSpace ==
    ASSUME NEW f \in Code, NEW k \in 0..(Longest - 1)
    PROVE  /\ (k + 1) % 2 = 1 => Frame(f)[k + 1] \in {AGC_MARK, LOGICAL_MARK}
           /\ (k + 1) % 2 # 1 => Frame(f)[k + 1] \in {AGC_SPACE, Space(0), Space(1)}
<1>1. Longest \in Nat /\ Longest >= 5 /\ Bits \in Nat
  BY Sizes DEF Longest
<1>2. CASE k = 0
  <2>1. k + 1 = 1 /\ (k + 1) % 2 = 1 /\ 1 \in 1..Longest
    BY <1>1, <1>2
  <2> QED  BY <2>1, CodePulses
<1>3. CASE k = 1
  <2>1. k + 1 = 2 /\ (k + 1) % 2 # 1
    BY <1>3
  <2> QED  BY <2>1, CodePulses
<1>4. ASSUME NEW i \in 0..Bits, k = 2 * i + 2
      PROVE  (k + 1) % 2 = 1 /\ Frame(f)[k + 1] = LOGICAL_MARK
  <2>1. k + 1 = 2 * i + 3 /\ (k + 1) % 2 = 1
    BY <1>1, <1>4
  <2> QED  BY <2>1, CodePulses
<1>5. ASSUME NEW i \in Pos, k = 2 * i + 3
      PROVE  (k + 1) % 2 # 1 /\ Frame(f)[k + 1] \in {Space(0), Space(1)}
  <2>1. k + 1 = 2 * i + 4 /\ (k + 1) % 2 # 1
    BY <1>1, <1>5 DEF Pos
  <2>2. f[i] \in 0..1
    BY DEF Code
  <2>3. Frame(f)[k + 1] = Space(f[i])
    BY <2>1, CodePulses
  <2> QED  BY <2>1, <2>2, <2>3
<1> QED  BY <1>2, <1>3, <1>4, <1>5, Parts

\* The decoder takes a time for the length u of a pulse.
Taken(usec, u) == usec \in Int /\ match(usec, u) /\ ~(usec > UNCERTAIN_PULSE_TIME)

\* The carrier of a mark, rounded down to whole periods, and the delay of a
\* space, cut short or drawn out, are each taken for what was asked for, when
\* the edge before was seen late by l and this one by m.
LEMMA Lengths ==
    ASSUME NEW l \in Lag, NEW m \in Lag
    PROVE  /\ \A u \in {AGC_MARK, LOGICAL_MARK} : Taken(send_mark(u) + m - l, u)
           /\ \A u \in {AGC_SPACE, Space(0), Space(1)}, d \in Delay :
                 Taken(send_space(u) + d + m - l, u)
<1>1. usec_per100bytes = 2638
  BY DEF usec_per100bytes, BIT_PER_TX_BYTE, USEC_PER_SECOND, NEC_CARRIER_FREQ
<1>2. Shifting = 27
  BY <1>1 DEF Shifting
<1>3. send_mark(AGC_MARK) = 8995 /\ send_mark(LOGICAL_MARK) = 553
  BY <1>1 DEF send_mark, AGC_MARK, LOGICAL_MARK
<1>4. /\ send_space(AGC_SPACE) = 4468 /\ send_space(Space(0)) = 528
      /\ send_space(Space(1)) = 1658
  BY <1>2 DEF send_space, AGC_SPACE, Space, LOGIC_B0_SPACE, LOGIC_B1_SPACE, LOGICAL_MARK
<1>5. /\ AGC_MARK = 9000 /\ AGC_SPACE = 4500 /\ LOGICAL_MARK = 560
      /\ Space(0) = 560 /\ Space(1) = 1690
      /\ ACCEPTABLE_BIAS = 150 /\ UNCERTAIN_PULSE_TIME = 13650
  BY DEF AGC_MARK, AGC_SPACE, LOGICAL_MARK, Space, LOGIC_B0_SPACE, LOGIC_B1_SPACE,
         ACCEPTABLE_BIAS, UNCERTAIN_PULSE_TIME
<1>6. l \in 0..117 /\ m \in 0..117
  BY <1>2, <1>5, LinkConstants
<1>7. \A d \in Delay : d \in Nat /\ m + d < 182
  BY <1>2, <1>5, LinkConstants
<1>8. ASSUME NEW u \in {AGC_MARK, LOGICAL_MARK} PROVE Taken(send_mark(u) + m - l, u)
  BY <1>3, <1>5, <1>6 DEF Taken, match
<1>9. ASSUME NEW u \in {AGC_SPACE, Space(0), Space(1)}, NEW d \in Delay
      PROVE  Taken(send_space(u) + d + m - l, u)
  <2>1. d \in Nat /\ m + d < 182
    BY <1>7
  <2> QED  BY <1>4, <1>5, <1>6, <2>1 DEF Taken, match
<1> QED  BY <1>8, <1>9

-----------------------------------------------------------------------------
(* The code that is sent.                                                  *)

\* What goes out first is what the receiver puts lowest.
Out(c) == [k \in Pos |-> reverse_per_byte(c)[(Bits - 1) - k]]

LEMMA MirrorPlace == \A i \in Pos : Mirror(i) \in Pos
<1> TAKE i \in Pos
<1> DEFINE d == i \div Byte
           r == i % Byte
           m == Bits \div Byte
<1>1. /\ Byte \in Nat \ {0} /\ Bits \in Nat \ {0} /\ Bits % Byte = 0
      /\ i \in Nat /\ i < Bits
  BY NecConstants DEF Pos
<1>2. /\ d \in Nat /\ r \in 0..(Byte - 1) /\ i = Byte * d + r
      /\ m \in Nat /\ Bits = Byte * m
  BY <1>1
<1> HIDE DEF d, r, m
<1>3. d < m
  <2> SUFFICES ASSUME ~(d < m) PROVE FALSE
    OBVIOUS
  <2>1. d - m \in Nat
    BY <1>2
  <2>2. Byte * d = Byte * m + Byte * (d - m) /\ Byte * (d - m) \in Nat
    BY <1>1, <1>2, <2>1
  <2> QED  BY <1>1, <1>2, <2>2
<1>4. Byte * d + Byte <= Byte * m
  <2>1. m - (d + 1) \in Nat
    BY <1>2, <1>3
  <2>2. Byte * m = Byte * d + Byte + Byte * (m - (d + 1)) /\ Byte * (m - (d + 1)) \in Nat
    BY <1>1, <1>2, <2>1
  <2>3. Byte * d \in Nat /\ Byte * m \in Nat
    BY <1>1, <1>2
  <2> QED  BY <1>1, <2>2, <2>3
<1>5. Mirror(i) = Byte * d + ((Byte - 1) - r)
  BY DEF Mirror, d, r
<1>6. Byte * d \in Nat
  BY <1>1, <1>2
<1> QED  BY <1>1, <1>2, <1>4, <1>5, <1>6 DEF Pos

LEMMA OutCode == ASSUME NEW c \in Code PROVE Out(c) \in Code
<1>1. \A i \in Pos : reverse_per_byte(c)[i] \in 0..1
  <2> TAKE i \in Pos
  <2>1. reverse_per_byte(c)[i] = IF Mirror(i) % Byte < MaskWidth THEN c[Mirror(i)] ELSE 0
    BY DEF reverse_per_byte, Masked
  <2>2. c[Mirror(i)] \in 0..1
    BY MirrorPlace DEF Code
  <2> QED  BY <2>1, <2>2
<1>2. \A k \in Pos : (Bits - 1) - k \in Pos
  BY Sizes DEF Pos
<1> QED  BY <1>1, <1>2 DEF Out, Code

LEMMA Burst ==
    ASSUME NEW c \in Code
    PROVE  ir_send_nec(c) = Frame(Out(c)) /\ Len(ir_send_nec(c)) = Longest
<1>1. ir_send_nec(c) = Frame(Out(c))
  BY DEF ir_send_nec, Out
<1> QED  BY <1>1, OutCode, CodePulses

-----------------------------------------------------------------------------
(* The decoder at the other end.                                           *)

Decoder == [state : States, data : Code, len : Nat, ready : BOOLEAN]

LEMMA Unready ==
    ASSUME NEW r \in Decoder, NEW q, q = [r EXCEPT !.ready = FALSE]
    PROVE  /\ q \in Decoder /\ ~q.ready
           /\ q.state = r.state /\ q.len = r.len /\ q.data = r.data
<1>1. q \in Decoder
  BY DEF Decoder
<1> QED  BY <1>1 DEF Decoder

LEMMA OnGap ==
    ASSUME NEW r \in Decoder, NEW usec \in Int, usec > UNCERTAIN_PULSE_TIME
    PROVE  LET d == ir_recv_nec(r, usec)
           IN  d \in Decoder /\ d.state = "AGC_EXPECT" /\ ~d.ready
<1> DEFINE q == [r EXCEPT !.ready = FALSE]
           d == ir_recv_nec(r, usec)
<1>1. q \in Decoder /\ ~q.ready
  BY Unready
<1>2. d = [q EXCEPT !.state = "AGC_EXPECT"]
  BY DEF ir_recv_nec
<1> HIDE DEF q, d
<1>3. d \in Decoder /\ d.state = "AGC_EXPECT" /\ ~d.ready
  BY <1>1, <1>2 DEF Decoder, States
<1> QED  BY <1>3 DEF d

LEMMA OnAgcMark ==
    ASSUME NEW r \in Decoder, NEW usec \in Int, ~(usec > UNCERTAIN_PULSE_TIME),
           r.state = "AGC_EXPECT", match(usec, AGC_MARK)
    PROVE  LET d == ir_recv_nec(r, usec)
           IN  d \in Decoder /\ d.state = "AGC_GOES" /\ ~d.ready
<1> DEFINE q == [r EXCEPT !.ready = FALSE]
           d == ir_recv_nec(r, usec)
<1>1. q \in Decoder /\ ~q.ready /\ q.state = "AGC_EXPECT"
  BY Unready
<1>2. d = [q EXCEPT !.state = "AGC_GOES"]
  BY <1>1 DEF ir_recv_nec, Goto
<1> HIDE DEF q, d
<1>3. d \in Decoder /\ d.state = "AGC_GOES" /\ ~d.ready
  BY <1>1, <1>2 DEF Decoder, States
<1> QED  BY <1>3 DEF d

LEMMA OnAgcSpace ==
    ASSUME NEW r \in Decoder, NEW usec \in Int, ~(usec > UNCERTAIN_PULSE_TIME),
           r.state = "AGC_GOES", match(usec, AGC_SPACE)
    PROVE  LET d == ir_recv_nec(r, usec)
           IN  d \in Decoder /\ d.state = "LOGICAL_EXPECT" /\ ~d.ready /\ d.len = 0
<1> DEFINE q == [r EXCEPT !.ready = FALSE]
           d == ir_recv_nec(r, usec)
           z == [i \in Pos |-> 0]
           n == 0
           s == "LOGICAL_EXPECT"
<1>1. q \in Decoder /\ ~q.ready /\ q.state = "AGC_GOES"
  BY Unready
<1>2. d = AgcSpace(q, usec)
  BY <1>1 DEF ir_recv_nec
<1>3. z \in Code /\ n \in Nat /\ s \in States
  BY Sizes DEF States
<1> HIDE DEF q, d
<1>4. d = [q EXCEPT !.state = s, !.len = n, !.data = z]
  BY <1>2 DEF AgcSpace
<1> HIDE DEF z, n, s
<1>5. d \in Decoder /\ d.state = s /\ ~d.ready /\ d.len = n
  BY <1>1, <1>3, <1>4 DEF Decoder
<1> QED  BY <1>5 DEF d, n, s

LEMMA OnMark ==
    ASSUME NEW r \in Decoder, NEW usec \in Int, ~(usec > UNCERTAIN_PULSE_TIME),
           r.state = "LOGICAL_EXPECT", match(usec, LOGICAL_MARK)
    PROVE  LET d == ir_recv_nec(r, usec)
           IN  d \in Decoder /\ d.state = "LOGICAL_GOES" /\ ~d.ready
               /\ d.len = r.len /\ d.data = r.data
<1> DEFINE q == [r EXCEPT !.ready = FALSE]
           d == ir_recv_nec(r, usec)
<1>1. q \in Decoder /\ ~q.ready /\ q.state = "LOGICAL_EXPECT" /\ q.len = r.len /\ q.data = r.data
  BY Unready
<1>2. d = [q EXCEPT !.state = "LOGICAL_GOES"]
  BY <1>1 DEF ir_recv_nec, Goto
<1> HIDE DEF q, d
<1>3. d \in Decoder /\ d.state = "LOGICAL_GOES" /\ ~d.ready /\ d.len = r.len /\ d.data = r.data
  BY <1>1, <1>2 DEF Decoder, States
<1> QED  BY <1>3 DEF d

LEMMA OnBit ==
    ASSUME NEW r \in Decoder, NEW usec \in Int, ~(usec > UNCERTAIN_PULSE_TIME),
           NEW b \in 0..1, r.state = "LOGICAL_GOES", r.len < Bits, match(usec, Space(b))
    PROVE  LET d == ir_recv_nec(r, usec)
           IN  /\ d \in Decoder /\ ~d.ready /\ d.len = r.len + 1
               /\ d.state = IF r.len + 1 = Bits THEN "EOP_EXPECT" ELSE "LOGICAL_EXPECT"
               /\ \A i \in Pos : d.data[i] = IF i = r.len THEN b ELSE r.data[i]
<1> DEFINE q == [r EXCEPT !.ready = FALSE]
           d == ir_recv_nec(r, usec)
           x == [q.data EXCEPT ![q.len] = b]
           n == q.len + 1
           s == IF q.len + 1 = Bits THEN "EOP_EXPECT" ELSE "LOGICAL_EXPECT"
<1>1. q \in Decoder /\ ~q.ready /\ q.state = "LOGICAL_GOES" /\ q.len = r.len /\ q.data = r.data
  BY Unready
<1>2. d = BitSpace(q, usec)
  BY <1>1 DEF ir_recv_nec
<1> HIDE DEF q
<1>3. d = ReadBit(q, b)
  <2>1. CASE b = 0
    <3>1. match(usec, LOGIC_B0_SPACE) /\ ~match(usec, LOGIC_B1_SPACE)
      BY <2>1 DEF match, Space, LOGIC_B0_SPACE, LOGIC_B1_SPACE, LOGICAL_MARK, ACCEPTABLE_BIAS
    <3> HIDE DEF d
    <3> QED  BY <1>2, <2>1, <3>1, SMT DEF BitSpace
  <2>2. CASE b = 1
    <3>1. match(usec, LOGIC_B1_SPACE) /\ ~match(usec, LOGIC_B0_SPACE)
      BY <2>2 DEF match, Space, LOGIC_B0_SPACE, LOGIC_B1_SPACE, LOGICAL_MARK, ACCEPTABLE_BIAS
    <3> HIDE DEF d
    <3> QED  BY <1>2, <2>2, <3>1 DEF BitSpace
  <2> QED  BY <2>1, <2>2
<1>4. q.len \in Nat /\ q.len < Bits /\ q.data \in [Pos -> 0..1] /\ q.len \in Pos
  BY <1>1, Sizes DEF Decoder, Code, Pos
<1>5. q.len % Bits = q.len
  BY <1>4, Sizes
<1> HIDE DEF d
<1>6. d = [q EXCEPT !.data = x, !.len = n, !.state = s]
  <2>1. d = [q EXCEPT !.data[q.len] = b, !.len = n, !.state = s]
    BY <1>3, <1>5 DEF ReadBit
  <2>2. [q EXCEPT !.data[q.len] = b] = [q EXCEPT !.data = x]
    OBVIOUS
  <2> QED  BY <2>1, Zenon
<1>7. x \in Code /\ n \in Nat /\ s \in States
  BY <1>4 DEF Code, States
<1>8. \A i \in Pos : x[i] = IF i = q.len THEN b ELSE q.data[i]
  BY <1>4
<1> HIDE DEF x, n, s
<1>9. d \in Decoder /\ d.data = x /\ d.len = n /\ d.state = s /\ ~d.ready
  BY <1>1, <1>6, <1>7 DEF Decoder
<1> QED  BY <1>1, <1>8, <1>9 DEF d, n, s

LEMMA OnEnd ==
    ASSUME NEW r \in Decoder, NEW usec \in Int, ~(usec > UNCERTAIN_PULSE_TIME),
           r.state = "EOP_EXPECT", match(usec, LOGICAL_MARK)
    PROVE  LET d == ir_recv_nec(r, usec)
           IN  d \in Decoder /\ d.ready /\ d.len = r.len /\ d.data = r.data
<1> DEFINE q == [r EXCEPT !.ready = FALSE]
           u == [q EXCEPT !.ready = TRUE]
           d == ir_recv_nec(r, usec)
<1>1. q \in Decoder /\ q.state = "EOP_EXPECT" /\ q.len = r.len /\ q.data = r.data
  BY Unready
<1>2. d = [u EXCEPT !.state = "EOP_GOES"]
  BY <1>1 DEF ir_recv_nec, Goto
<1> HIDE DEF q, d
<1>3. u \in Decoder /\ u.ready /\ u.len = q.len /\ u.data = q.data
  BY <1>1 DEF Decoder
<1> HIDE DEF u
<1>4. d \in Decoder /\ d.ready /\ d.len = u.len /\ d.data = u.data
  BY <1>2, <1>3 DEF Decoder, States
<1> QED  BY <1>1, <1>3, <1>4 DEF d

\* Where a burst takes the decoder: r is the decoder when a gap and then k
\* pulses of the code f came.
OnCourse(r, k, f) ==
    /\ k = 0 => r.state = "AGC_EXPECT"
    /\ k = 1 => r.state = "AGC_GOES"
    /\ k >= 2 => r.len \in 0..Bits /\ \A i \in 0..(r.len - 1) : r.data[i] = f[i]
    /\ \A i \in 0..Bits : k = 2 * i + 2 =>
           r.len = i /\ r.state = IF i = Bits THEN "EOP_EXPECT" ELSE "LOGICAL_EXPECT"
    /\ \A i \in Pos : k = 2 * i + 3 => r.len = i /\ r.state = "LOGICAL_GOES"
    /\ k = Longest => r.len = Bits
    /\ r.ready <=> k = Longest

LEMMA CourseBegins ==
    ASSUME NEW f \in Code, NEW r \in Decoder, r.state = "AGC_EXPECT", ~r.ready
    PROVE  OnCourse(r, 0, f)
<1>1. /\ 0 # Longest
      /\ \A i \in 0..Bits : 0 # 2 * i + 2
      /\ \A i \in Pos : 0 # 2 * i + 3
  BY Sizes DEF Longest, Pos
<1> QED  BY <1>1 DEF OnCourse

\* The pulse of k + 1 ends, after a time that is taken for its length.
LEMMA CourseGoesOn ==
    ASSUME NEW f \in Code, NEW r \in Decoder, NEW k \in 0..(Longest - 1),
           OnCourse(r, k, f), NEW usec, Taken(usec, Frame(f)[k + 1])
    PROVE  ir_recv_nec(r, usec) \in Decoder /\ OnCourse(ir_recv_nec(r, usec), k + 1, f)
<1> DEFINE d == ir_recv_nec(r, usec)
<1>1. Bits \in Nat \ {0} /\ Longest = 2 * Bits + 3 /\ k \in Nat
  BY Sizes DEF Longest
<1>2. ASSUME NEW u, Frame(f)[k + 1] = u
      PROVE  usec \in Int /\ match(usec, u) /\ ~(usec > UNCERTAIN_PULSE_TIME)
  BY <1>2 DEF Taken
<1> DEFINE Goal == d \in Decoder /\ OnCourse(d, k + 1, f)
<1>3. ASSUME k = 0 PROVE Goal
  <2>1. k + 1 = 1 /\ 1 \in 1..Longest
    BY <1>1, <1>3
  <2>2. Frame(f)[k + 1] = AGC_MARK
    BY <2>1, CodePulses
  <2>3. usec \in Int /\ match(usec, AGC_MARK) /\ ~(usec > UNCERTAIN_PULSE_TIME)
    BY <1>2, <2>2
  <2>4. r.state = "AGC_EXPECT"
    BY <1>3 DEF OnCourse
  <2>5. d \in Decoder /\ d.state = "AGC_GOES" /\ ~d.ready
    BY <2>3, <2>4, OnAgcMark
  <2>6. k + 1 = 1 /\ ~(k + 1 >= 2) /\ k + 1 # Longest
        /\ (\A i \in 0..Bits : k + 1 # 2 * i + 2) /\ (\A i \in Pos : k + 1 # 2 * i + 3)
    BY <1>1, <1>3 DEF Pos
  <2> HIDE DEF d
  <2> QED  BY <2>5, <2>6 DEF OnCourse
<1>4. ASSUME k = 1 PROVE Goal
  <2>1. k + 1 = 2
    BY <1>1, <1>4
  <2>2. Frame(f)[k + 1] = AGC_SPACE
    BY <2>1, CodePulses
  <2>3. usec \in Int /\ match(usec, AGC_SPACE) /\ ~(usec > UNCERTAIN_PULSE_TIME)
    BY <1>2, <2>2
  <2>4. r.state = "AGC_GOES"
    BY <1>4 DEF OnCourse
  <2>5. d \in Decoder /\ d.state = "LOGICAL_EXPECT" /\ ~d.ready /\ d.len = 0
    BY <2>3, <2>4, OnAgcSpace
  <2>6. k + 1 # 0 /\ k + 1 # 1 /\ k + 1 # Longest /\ 0 \in 0..Bits /\ 0 # Bits
        /\ (\A i \in 0..Bits : k + 1 = 2 * i + 2 => i = 0) /\ (\A i \in Pos : k + 1 # 2 * i + 3)
    BY <1>1, <1>4 DEF Pos
  <2>7. \A i \in 0..(0 - 1) : FALSE
    OBVIOUS
  <2> HIDE DEF d
  <2> QED  BY <2>5, <2>6, <2>7 DEF OnCourse
<1>5. ASSUME NEW i \in 0..Bits, k = 2 * i + 2 PROVE Goal
  <2>1. k + 1 = 2 * i + 3
    BY <1>1, <1>5
  <2>2. Frame(f)[k + 1] = LOGICAL_MARK
    BY <2>1, CodePulses
  <2>3. usec \in Int /\ match(usec, LOGICAL_MARK) /\ ~(usec > UNCERTAIN_PULSE_TIME)
    BY <1>2, <2>2
  <2>4. r.len = i /\ r.state = IF i = Bits THEN "EOP_EXPECT" ELSE "LOGICAL_EXPECT"
    BY <1>5 DEF OnCourse
  <2>5. r.len \in 0..Bits /\ \A m \in 0..(r.len - 1) : r.data[m] = f[m]
    <3>1. k >= 2
      BY <1>1, <1>5
    <3> QED  BY <3>1 DEF OnCourse
  <2>6. k + 1 # 0 /\ k + 1 # 1 /\ k + 1 >= 2
        /\ (\A m \in 0..Bits : k + 1 # 2 * m + 2) /\ (\A m \in Pos : k + 1 = 2 * m + 3 => m = i)
        /\ (i = Bits <=> k + 1 = Longest) /\ (i \in Pos <=> i # Bits)
    BY <1>1, <1>5 DEF Pos
  <2>7. CASE i = Bits
    <3>1. d \in Decoder /\ d.len = Bits /\ d.data = r.data /\ d.ready
      BY <2>3, <2>4, <2>7, OnEnd
    <3> HIDE DEF d
    <3>2. d.len \in 0..Bits /\ \A m \in 0..(d.len - 1) : d.data[m] = f[m]
      BY <2>4, <2>5, <2>7, <3>1
    <3>3. \A m \in Pos : k + 1 # 2 * m + 3
      BY <2>6, <2>7
    <3> QED  BY <2>6, <2>7, <3>1, <3>2, <3>3 DEF OnCourse
  <2>8. CASE i # Bits
    <3>1. d \in Decoder /\ d.state = "LOGICAL_GOES" /\ d.data = r.data /\ d.len = i /\ ~d.ready
      BY <2>3, <2>4, <2>8, OnMark
    <3> HIDE DEF d
    <3>2. d.len \in 0..Bits /\ \A m \in 0..(d.len - 1) : d.data[m] = f[m]
      BY <2>4, <2>5, <3>1
    <3> QED  BY <2>6, <2>8, <3>1, <3>2 DEF OnCourse
  <2> QED  BY <2>7, <2>8
<1>6. ASSUME NEW i \in Pos, k = 2 * i + 3 PROVE Goal
  <2> DEFINE b == f[i]
  <2>1. k + 1 = 2 * i + 4
    BY <1>1, <1>6 DEF Pos
  <2>2. Frame(f)[k + 1] = Space(b)
    BY <2>1, CodePulses
  <2>3. b \in 0..1
    BY DEF Code
  <2> HIDE DEF b
  <2>4. usec \in Int /\ match(usec, Space(b)) /\ ~(usec > UNCERTAIN_PULSE_TIME)
    BY <1>2, <2>2
  <2>5. r.len = i /\ r.state = "LOGICAL_GOES"
    BY <1>6 DEF OnCourse
  <2>6. \A m \in 0..(r.len - 1) : r.data[m] = f[m]
    <3>1. k >= 2
      BY <1>1, <1>6 DEF Pos
    <3> QED  BY <3>1 DEF OnCourse
  <2>7. k + 1 # 0 /\ k + 1 # 1 /\ k + 1 >= 2 /\ k + 1 # Longest /\ i + 1 \in 0..Bits
        /\ (\A m \in 0..Bits : k + 1 = 2 * m + 2 => m = i + 1) /\ (\A m \in Pos : k + 1 # 2 * m + 3)
        /\ i < Bits /\ i \in Nat
    BY <1>1, <1>6 DEF Pos
  <2>8. /\ d \in Decoder /\ ~d.ready
        /\ d.len = r.len + 1
        /\ d.state = IF r.len + 1 = Bits THEN "EOP_EXPECT" ELSE "LOGICAL_EXPECT"
        /\ \A m \in Pos : d.data[m] = IF m = r.len THEN b ELSE r.data[m]
    <3>1. r.len < Bits
      BY <2>5, <2>7
    <3> DEFINE Bit(a) ==
                 /\ d \in Decoder /\ ~d.ready /\ d.len = r.len + 1
                 /\ d.state = IF r.len + 1 = Bits THEN "EOP_EXPECT" ELSE "LOGICAL_EXPECT"
                 /\ \A m \in Pos : d.data[m] = IF m = r.len THEN a ELSE r.data[m]
    <3>2. \A a \in 0..1 : match(usec, Space(a)) => Bit(a)
      <4> SUFFICES ASSUME NEW a \in 0..1, match(usec, Space(a)) PROVE Bit(a)
        OBVIOUS
      <4>1. usec \in Int /\ ~(usec > UNCERTAIN_PULSE_TIME)
        BY <2>4
      <4>2. r.state = "LOGICAL_GOES"
        BY <2>5
      <4> QED  BY <3>1, <4>1, <4>2, OnBit, ZenonT(40)
    <3> QED  BY <2>3, <2>4, <3>2
  <2> HIDE DEF d
  <2>9. \A m \in 0..i : d.data[m] = f[m]
    <3> TAKE m \in 0..i
    <3>1. m \in Pos /\ (m # i => m \in 0..(i - 1))
      BY <1>1, <2>7 DEF Pos
    <3> QED  BY <2>5, <2>6, <2>8, <3>1 DEF b
  <2>10. (i + 1) - 1 = i
    BY <2>7
  <2> QED  BY <2>5, <2>7, <2>8, <2>9, <2>10 DEF OnCourse
<1>7. Goal
  BY <1>3, <1>4, <1>5, <1>6, Parts
<1> QED  BY <1>7

-----------------------------------------------------------------------------
(* The link.                                                               *)

\* The decoder is where the pulses that came so far take it; what it holds of
\* the code then is what was sent of it.
LinkInv ==
    /\ code \in Code
    /\ pulses = ir_send_nec(code)
    /\ at \in 0..Longest
    /\ late \in Lag
    /\ reader \in Decoder
    /\ OnCourse(reader, at, Out(code))

LEMMA LinkStarts == Init => LinkInv
<1> SUFFICES ASSUME Init PROVE LinkInv
  OBVIOUS
<1>1. reader \in Decoder /\ reader.state = "AGC_EXPECT" /\ ~reader.ready
  <2> DEFINE z == [i \in Pos |-> 0]
  <2>1. z \in Code
    BY Sizes
  <2> HIDE DEF z
  <2>2. reader = [state |-> "AGC_EXPECT", data |-> z, len |-> 0, ready |-> FALSE]
    BY DEF Init, Quiet, z
  <2> QED  BY <2>1, <2>2 DEF Decoder, States
<1>2. code \in Code /\ pulses = ir_send_nec(code) /\ at = 0 /\ at \in 0..Longest
      /\ late \in Lag
  BY Sizes DEF Init
<1>3. OnCourse(reader, 0, Out(code))
  BY <1>1, <1>2, OutCode, CourseBegins
<1> QED  BY <1>1, <1>2, <1>3 DEF LinkInv

LEMMA LinkPulse == LinkInv /\ Pulse => LinkInv'
<1> SUFFICES ASSUME LinkInv, Pulse PROVE LinkInv'
  OBVIOUS
<1> DEFINE f == Out(code)
<1>1. code \in Code /\ f \in Code /\ reader \in Decoder /\ OnCourse(reader, at, f)
  BY OutCode DEF LinkInv
<1>2. pulses = Frame(f) /\ Len(pulses) = Longest
  BY <1>1, Burst DEF LinkInv
<1>3. at \in 0..(Longest - 1) /\ at' = at + 1 /\ at' \in 0..Longest
  BY <1>2, Sizes DEF LinkInv, Pulse
<1>4. code' = code /\ pulses' = pulses
  BY DEF Pulse
<1> HIDE DEF f
<1>5. late \in Lag /\ late' \in Lag
  BY DEF LinkInv, Pulse
<1>6. PICK usec \in Sent(at + 1) : reader' = ir_recv_nec(reader, usec + late' - late)
  BY DEF Pulse
<1>7. Taken(usec + late' - late, Frame(f)[at + 1])
  <2> DEFINE u == Frame(f)[at + 1]
  <2>1. Sent(at + 1) = IF (at + 1) % 2 = 1 THEN {send_mark(u)}
                       ELSE {send_space(u) + d : d \in Delay}
    BY <1>2 DEF Sent
  <2>2. CASE (at + 1) % 2 = 1
    <3>1. u \in {AGC_MARK, LOGICAL_MARK}
      BY <1>1, <1>3, <2>2, MarkOrSpace
    <3>2. usec = send_mark(u)
      BY <1>6, <2>1, <2>2
    <3> HIDE DEF u
    <3> QED  BY <1>5, <3>1, <3>2, Lengths DEF u
  <2>3. CASE (at + 1) % 2 # 1
    <3>1. u \in {AGC_SPACE, Space(0), Space(1)}
      BY <1>1, <1>3, <2>3, MarkOrSpace
    <3>2. PICK d \in Delay : usec = send_space(u) + d
      BY <1>6, <2>1, <2>3
    <3> HIDE DEF u
    <3> QED  BY <1>5, <3>1, <3>2, Lengths DEF u
  <2> QED  BY <2>2, <2>3
<1>8. reader' \in Decoder /\ OnCourse(reader', at + 1, f)
  BY <1>1, <1>3, <1>6, <1>7, CourseGoesOn
<1> QED  BY <1>3, <1>4, <1>5, <1>8 DEF LinkInv, f

LEMMA LinkAgain == LinkInv /\ Again => LinkInv'
<1> SUFFICES ASSUME LinkInv, Again PROVE LinkInv'
  OBVIOUS
<1> DEFINE g == UNCERTAIN_PULSE_TIME + 1
<1>1. code' \in Code /\ pulses' = ir_send_nec(code') /\ at' = 0 /\ at' \in 0..Longest
      /\ late' \in Lag /\ reader' = ir_recv_nec(reader, g)
  BY Sizes DEF Again
<1>2. g \in Int /\ g > UNCERTAIN_PULSE_TIME
  BY DEF UNCERTAIN_PULSE_TIME, ACCEPTABLE_BIAS, AGC_MARK, AGC_SPACE
<1>3. reader \in Decoder
  BY DEF LinkInv
<1> HIDE DEF g
<1>4. reader' \in Decoder /\ reader'.state = "AGC_EXPECT" /\ ~reader'.ready
  BY <1>1, <1>2, <1>3, OnGap
<1>5. Out(code') \in Code
  BY <1>1, OutCode
<1>6. OnCourse(reader', 0, Out(code'))
  BY <1>4, <1>5, CourseBegins
<1>7. Out(code)' = Out(code')
  BY DEF Out
<1> QED  BY <1>1, <1>4, <1>6, <1>7 DEF LinkInv

LEMMA LinkStays == LinkInv /\ UNCHANGED vars => LinkInv'
  BY DEF LinkInv, vars, OnCourse, Decoder, Out

LEMMA LinkHolds == Spec => []LinkInv
<1>1. LinkInv /\ [Next]_vars => LinkInv'
  BY LinkPulse, LinkAgain, LinkStays DEF Next
<1> QED  BY LinkStarts, <1>1, PTL DEF Spec

LEMMA LinkDecodes == LinkInv => SentIsDecoded
<1> SUFFICES ASSUME LinkInv PROVE SentIsDecoded
  OBVIOUS
<1> DEFINE f == Out(code)
<1>1. f \in Code /\ reader \in Decoder /\ OnCourse(reader, at, f) /\ Len(pulses) = Longest
  BY OutCode, Burst DEF LinkInv
<1>2. f = [k \in Pos |-> reverse_per_byte(code)[(Bits - 1) - k]]
  BY DEF Out
<1> HIDE DEF f
<1>3. reader.ready <=> at = Longest
  BY <1>1 DEF OnCourse
<1>4. at = Longest => reader.data = f
  <2> HAVE at = Longest
  <2>1. Longest >= 2 /\ Pos = 0..(Bits - 1)
    BY Sizes DEF Longest, Pos
  <2>2. \A i \in Pos : reader.data[i] = f[i]
    BY <1>1, <2>1 DEF OnCourse
  <2>3. reader.data \in [Pos -> 0..1] /\ f \in [Pos -> 0..1]
    BY <1>1 DEF Decoder, Code
  <2> QED  BY <2>2, <2>3
<1> QED  BY <1>1, <1>2, <1>3, <1>4 DEF SentIsDecoded

\* For codes and bytes of every length, any lateness of the receiver up to 117
\* microseconds per edge and any delay of a space up to 181 less that: what
\* ir_send_nec sends for the code, each byte having gone through
\* reverse_per_byte, is ready at the other end after the last mark of its burst,
\* no earlier, and bit for bit as it was sent, though the carrier is rounded
\* down to whole periods, spaces are cut short or drawn out, and the interval
\* after a late edge is seen too short.
THEOREM SentDecoded == Spec => []SentIsDecoded
  BY LinkHolds, LinkDecodes, PTL
=============================================================================
