---------------------------- MODULE IrRecvProofs ----------------------------
(***************************************************************************)
(* Proofs about IrRecv, for codes of every length and any number of pins:  *)
(* its types, that a code flagged ready is whole and is the code sent, and *)
(* that a gap and a burst make a reader ready whatever it was doing.       *)
(***************************************************************************)
EXTENDS IrRecv, WellFoundedInduction, SequenceTheorems, TLAPS

-----------------------------------------------------------------------------
(* The invariant.                                                          *)

\* Of a decoder by itself: the length counts the bits that were read.
Sound(r) ==
    /\ r.first => r.state = "ERROR"
    /\ r.state = "EOP_EXPECT" => r.len = Bits
    /\ r.ready => r.len = Bits

\* The bits of the burst that were read so far.
Reads(r, b) == r.len \in 0..Bits /\ \A i \in 0..(r.len - 1) : r.data[i] = b.bits[i]

\* Of a decoder and the burst in the air, undisturbed so far: the decoder has
\* given the burst up, or its state is that of the pulse that goes on.
InStep(r, a) ==
    \/ r.state \in {"ERROR", "AGC_EXPECT"} /\ ~r.ready
    \/ r.state = "AGC_GOES" /\ ~r.ready /\ a.at = 2
    \/ /\ a.burst.kind = "repeat" /\ ~r.ready
       /\ \/ r.state = "LOGICAL_EXPECT" /\ a.at = 3
          \/ r.state = "LOGICAL_GOES" /\ a.at = 0
    \/ /\ a.burst.kind = "code" /\ Reads(r, a.burst)
       /\ \/ r.state = "LOGICAL_EXPECT" /\ a.at = 2 * r.len + 3 /\ r.len < Bits /\ ~r.ready
          \/ r.state = "LOGICAL_GOES" /\ a.at = 2 * r.len + 4 /\ r.len < Bits /\ ~r.ready
          \/ r.state = "EOP_EXPECT" /\ a.at = 2 * Bits + 3 /\ ~r.ready
          \/ r.state = "EOP_GOES" /\ a.at = 0

InTime(a) == a.at <= Len(Pulses(a.burst))

Follows(r, a) == r \in Reader /\ Sound(r) /\ (a.clean => InStep(r, a))

IInv ==
    /\ TypeOK
    /\ \A p \in Pin : InTime(air[p])
    /\ \A p \in Bound : Follows(pin_reader[p], air[p])

-----------------------------------------------------------------------------
(* The decoder.                                                            *)

LEMMA Modulo ==
    ASSUME NEW m \in Nat \ {0}, NEW x \in Nat
    PROVE  x % m \in 0..(m - 1) /\ (x < m => x % m = x) /\ (x = m => x % m = 0)
OBVIOUS

LEMMA Sizes ==
    /\ Bits \in Nat \ {0} /\ Width \in Nat \ {0} /\ Width = 2 * Bits
    /\ [i \in Pos |-> 0] \in Code
  BY NecConstants DEF Width, Code

LEMMA Fields ==
    ASSUME NEW r \in Reader
    PROVE  /\ r.state \in States /\ r.data \in Code /\ r.len \in Nat /\ r.len < Width
           /\ r.ready \in BOOLEAN /\ r.first \in BOOLEAN
           /\ r = [state |-> r.state, data |-> r.data, len |-> r.len, ready |-> r.ready,
                   first |-> r.first]
  BY Sizes DEF Reader

\* A bit is put in its place, or, of too many, in another's.
LEMMA BitRead ==
    ASSUME NEW d \in Reader, NEW b \in 0..1
    PROVE  /\ ReadBit(d, b).data \in Code
           /\ ReadBit(d, b).len = d.len + 1
           /\ ReadBit(d, b).ready = d.ready
           /\ ReadBit(d, b).first = d.first
           /\ ReadBit(d, b).state = IF d.len + 1 = Bits THEN "EOP_EXPECT" ELSE "LOGICAL_EXPECT"
           /\ d.len < Bits =>
                \A i \in Pos : ReadBit(d, b).data[i] = IF i = d.len THEN b ELSE d.data[i]
<1>1. d.len \in Nat /\ d.data \in [Pos -> 0..1]
  BY Fields DEF Code
<1>2. d.len % Bits \in Pos /\ (d.len < Bits => d.len % Bits = d.len)
  BY <1>1, Modulo, Sizes DEF Pos
<1>3. [d.data EXCEPT ![d.len % Bits] = b] \in Code
  BY <1>1, <1>2 DEF Code
<1>4. ReadBit(d, b).data = [d.data EXCEPT ![d.len % Bits] = b]
  BY DEF ReadBit, Reader
<1>5. ReadBit(d, b).len = d.len + 1
  BY DEF ReadBit, Reader
<1>6. ReadBit(d, b).ready = d.ready /\ ReadBit(d, b).first = d.first
  BY DEF ReadBit, Reader
<1>7. ReadBit(d, b).state = IF d.len + 1 = Bits THEN "EOP_EXPECT" ELSE "LOGICAL_EXPECT"
  BY DEF ReadBit, Reader
<1> QED
  BY <1>1, <1>2, <1>3, <1>4, <1>5, <1>6, <1>7

\* A decoder whose length was not yet put into its field.
Raw == [state : States, data : Code, len : 0..Width, ready : BOOLEAN, first : BOOLEAN]

RawSound(d) ==
    /\ d.state = "EOP_EXPECT" => d.len = Bits
    /\ d.ready => d.len = Bits

LEMMA BitReadRaw ==
    ASSUME NEW d \in Reader, NEW b \in 0..1, ~d.ready
    PROVE  ReadBit(d, b) \in Raw /\ RawSound(ReadBit(d, b))
<1> DEFINE x == [d.data EXCEPT ![d.len % Bits] = b]
           n == d.len + 1
           s == IF d.len + 1 = Bits THEN "EOP_EXPECT" ELSE "LOGICAL_EXPECT"
<1>1. ReadBit(d, b) = [d EXCEPT !.data = x, !.len = n, !.state = s]
  BY Zenon DEF ReadBit
<1>2. x \in Code
  BY Fields, Modulo, Sizes DEF Code, Pos
<1>3. n \in 0..Width /\ s \in States
  BY Fields, Sizes DEF States
<1>4. ReadBit(d, b) \in Raw
  <2> HIDE DEF x, n, s
  <2>1. [d EXCEPT !.data = x, !.len = n, !.state = s] \in Raw
    BY <1>2, <1>3, Sizes DEF Reader, Raw
  <2> QED  BY <1>1, <2>1
<1> QED
  BY <1>4, BitRead DEF RawSound

LEMMA Unready ==
    ASSUME NEW r \in Reader, NEW q, q = [r EXCEPT !.ready = FALSE]
    PROVE  /\ q \in Reader
           /\ ~q.ready /\ q.state = r.state /\ q.len = r.len /\ q.data = r.data
<1>1. q \in Reader
  BY DEF Reader
<1> QED
  BY <1>1 DEF Reader

LEMMA Moved ==
    ASSUME NEW q \in Reader, ~q.ready, NEW s \in States \ {"EOP_EXPECT"}
    PROVE  /\ [q EXCEPT !.state = s] \in Raw
           /\ RawSound([q EXCEPT !.state = s])
<1>1. q.len \in 0..Width
  BY Fields, Sizes
<1>2. [q EXCEPT !.state = s] \in Raw
  BY <1>1, Sizes DEF Reader, Raw
<1>3. ~[q EXCEPT !.state = s].ready /\ [q EXCEPT !.state = s].state = s
  BY DEF Reader
<1> QED
  BY <1>2, <1>3 DEF RawSound

LEMMA CodeBegun ==
    ASSUME NEW q \in Reader, ~q.ready, NEW n,
           n = [q EXCEPT !.state = "LOGICAL_EXPECT", !.len = 0, !.data = [i \in Pos |-> 0]]
    PROVE  n \in Raw /\ RawSound(n)
<1>1. n \in Raw
  <2> DEFINE x == [i \in Pos |-> 0]
             s == "LOGICAL_EXPECT"
             k == 0
  <2>1. x \in Code /\ s \in States /\ k \in 0..Width
    BY Sizes DEF States
  <2>2. n = [q EXCEPT !.state = s, !.len = k, !.data = x]
    OBVIOUS
  <2> HIDE DEF x, s, k
  <2>3. [q EXCEPT !.state = s, !.len = k, !.data = x] \in Raw
    BY <2>1, Sizes DEF Reader, Raw
  <2> QED  BY <2>2, <2>3
<1>2. ~n.ready /\ n.state = "LOGICAL_EXPECT"
  BY DEF Reader
<1> QED
  BY <1>1, <1>2 DEF RawSound

LEMMA CodeEnded ==
    ASSUME NEW q \in Reader, q.len = Bits, NEW s \in {"EOP_GOES", "ERROR"}, NEW n,
           n = [[q EXCEPT !.ready = TRUE] EXCEPT !.state = s]
    PROVE  n \in Raw /\ RawSound(n)
<1> DEFINE m == [q EXCEPT !.ready = TRUE]
<1>1. m \in Reader /\ m.len = Bits
  <2>1. m \in Reader
    BY DEF Reader
  <2> QED  BY <2>1 DEF Reader
<1> HIDE DEF m
<1>2. n = [m EXCEPT !.state = s] /\ s \in States
  BY DEF m, States
<1>3. [m EXCEPT !.state = s] \in Raw
  <2>1. m.len \in 0..Width
    BY <1>1, Sizes
  <2> QED  BY <1>1, <1>2, <2>1, Sizes DEF Reader, Raw
<1>4. [m EXCEPT !.state = s].len = Bits
  BY <1>1 DEF Reader
<1> QED
  BY <1>2, <1>3, <1>4 DEF RawSound

\* An edge at any time leaves a decoder sound.
LEMMA Received ==
    ASSUME NEW r \in Reader, Sound(r), NEW usec \in Int
    PROVE  ir_recv_nec(r, usec) \in Raw /\ RawSound(ir_recv_nec(r, usec))
<1> DEFINE q == [r EXCEPT !.ready = FALSE]
<1>1. q \in Reader /\ ~q.ready /\ q.state = r.state /\ q.len = r.len
  BY Unready
<1>2. \A s \in States \ {"EOP_EXPECT"} :
          [q EXCEPT !.state = s] \in Raw /\ RawSound([q EXCEPT !.state = s])
  BY <1>1, Moved
<1>3. CASE usec > UNCERTAIN_PULSE_TIME
  BY <1>3, <1>2 DEF ir_recv_nec, States
<1>4. CASE ~(usec > UNCERTAIN_PULSE_TIME)
  <2>1. CASE q.state = "AGC_EXPECT"
    <3>1. ir_recv_nec(r, usec) = Goto(q, match(usec, AGC_MARK), "AGC_GOES")
      BY <1>4, <2>1 DEF ir_recv_nec
    <3> QED  BY <3>1, <1>2 DEF Goto, States
  <2>2. CASE q.state = "AGC_GOES"
    <3>1. ir_recv_nec(r, usec) = AgcSpace(q, usec)
      BY <1>4, <2>2 DEF ir_recv_nec
    <3>2. CASE match(usec, AGC_SPACE)
      BY <1>1, <3>1, <3>2, CodeBegun DEF AgcSpace
    <3>3. CASE ~match(usec, AGC_SPACE)
      BY <1>2, <3>1, <3>3 DEF AgcSpace, States
    <3> QED  BY <3>2, <3>3
  <2>3. CASE q.state = "LOGICAL_EXPECT"
    <3>1. ir_recv_nec(r, usec) = Goto(q, match(usec, LOGICAL_MARK), "LOGICAL_GOES")
      BY <1>4, <2>3 DEF ir_recv_nec
    <3> QED  BY <3>1, <1>2 DEF Goto, States
  <2>4. CASE q.state = "LOGICAL_GOES"
    <3>1. ir_recv_nec(r, usec) = BitSpace(q, usec)
      BY <1>4, <2>4 DEF ir_recv_nec
    <3>2. \/ BitSpace(q, usec) = ReadBit(q, 0)
          \/ BitSpace(q, usec) = ReadBit(q, 1)
          \/ BitSpace(q, usec) = [q EXCEPT !.state = "ERROR"]
      BY DEF BitSpace
    <3>3. \A b \in 0..1 : ReadBit(q, b) \in Raw /\ RawSound(ReadBit(q, b))
      BY <1>1, BitReadRaw
    <3>4. [q EXCEPT !.state = "ERROR"] \in Raw /\ RawSound([q EXCEPT !.state = "ERROR"])
      BY <1>2 DEF States
    <3> HIDE DEF q
    <3> QED  BY <3>1, <3>2, <3>3, <3>4
  <2>5. CASE q.state = "EOP_EXPECT"
    <3>1. ir_recv_nec(r, usec) =
            Goto([q EXCEPT !.ready = TRUE], match(usec, LOGICAL_MARK), "EOP_GOES")
      BY <1>4, <2>5 DEF ir_recv_nec
    <3>2. q.len = Bits
      BY <1>1, <2>5 DEF Sound
    <3> QED  BY <1>1, <3>1, <3>2, CodeEnded DEF Goto
  <2>6. CASE q.state \in {"EOP_GOES", "ERROR"}
    <3>1. ir_recv_nec(r, usec) = [q EXCEPT !.state = "ERROR"]
      BY <1>4, <2>6 DEF ir_recv_nec
    <3> QED  BY <3>1, <1>2 DEF States
  <2> QED
    BY <1>1, <2>1, <2>2, <2>3, <2>4, <2>5, <2>6 DEF Reader, States
<1> QED
  BY <1>3, <1>4

LEMMA EdgeSound ==
    ASSUME NEW r \in Reader, Sound(r), NEW usec \in Int
    PROVE  /\ Decoded(r, usec) \in Reader /\ Sound(Decoded(r, usec))
           /\ Decoded(r, usec).state = ir_recv_nec(r, usec).state
           /\ Decoded(r, usec).data = ir_recv_nec(r, usec).data
           /\ Decoded(r, usec).ready = ir_recv_nec(r, usec).ready
           /\ ir_recv_nec(r, usec).len \in 0..Bits =>
                 Decoded(r, usec).len = ir_recv_nec(r, usec).len
<1> DEFINE d == ir_recv_nec(r, usec)
           m == d.len % Width
           n == [d EXCEPT !.len = m, !.first = FALSE]
<1>1. d \in Raw /\ RawSound(d)
  BY Received
<1>2. Decoded(r, usec) = n
  BY DEF Decoded
<1>3. d.len \in 0..Width /\ m \in 0..(Width - 1) /\ (d.len \in 0..Bits => m = d.len)
  <2>1. d.len \in 0..Width
    BY <1>1 DEF Raw
  <2> HIDE DEF d
  <2>2. d.len \in Nat /\ Width \in Nat \ {0}
    BY <2>1, Sizes
  <2>3. d.len % Width \in 0..(Width - 1) /\ (d.len < Width => d.len % Width = d.len)
    BY <2>2, Modulo
  <2> QED  BY <2>1, <2>3, Sizes
<1> HIDE DEF d, m
<1>4. n \in Reader
  BY <1>1, <1>3 DEF Raw, Reader
<1>5. n.len = m /\ ~n.first /\ n.ready = d.ready /\ n.state = d.state /\ n.data = d.data
  BY <1>1 DEF Raw
<1>6. Sound(n)
  BY <1>1, <1>3, <1>5, Sizes DEF RawSound, Sound
<1> HIDE DEF n
<1> QED
  BY <1>2, <1>3, <1>4, <1>5, <1>6 DEF d

LEMMA Stored ==
    ASSUME NEW r \in Reader, Sound(r), NEW usec \in Int, NEW d, d = ir_recv_nec(r, usec)
    PROVE  /\ Decoded(r, usec).state = d.state /\ Decoded(r, usec).data = d.data
           /\ Decoded(r, usec).ready = d.ready
           /\ d.len \in 0..Bits => Decoded(r, usec).len = d.len
  BY EdgeSound

-----------------------------------------------------------------------------
(* What the pulses of a burst do to a decoder, state by state.             *)

LEMMA OnGap ==
    ASSUME NEW r \in Reader, Sound(r), NEW usec \in Int, usec > UNCERTAIN_PULSE_TIME
    PROVE  Decoded(r, usec).state = "AGC_EXPECT" /\ ~Decoded(r, usec).ready
<1>1. ir_recv_nec(r, usec) = [[r EXCEPT !.ready = FALSE] EXCEPT !.state = "AGC_EXPECT"]
  BY DEF ir_recv_nec
<1>2. ir_recv_nec(r, usec).state = "AGC_EXPECT" /\ ~ir_recv_nec(r, usec).ready
  BY <1>1 DEF Reader
<1> QED  BY <1>2, Stored

LEMMA OnError ==
    ASSUME NEW r \in Reader, Sound(r), NEW usec \in Int, ~(usec > UNCERTAIN_PULSE_TIME),
           r.state = "ERROR"
    PROVE  Decoded(r, usec).state = "ERROR" /\ ~Decoded(r, usec).ready
<1> DEFINE q == [r EXCEPT !.ready = FALSE]
<1>1. q \in Reader /\ ~q.ready /\ q.state = "ERROR"
  BY Unready
<1>2. ir_recv_nec(r, usec) = [q EXCEPT !.state = "ERROR"]
  BY <1>1 DEF ir_recv_nec
<1> HIDE DEF q
<1>3. ir_recv_nec(r, usec).state = "ERROR" /\ ~ir_recv_nec(r, usec).ready
  BY <1>1, <1>2 DEF Reader
<1> QED  BY <1>3, Stored

LEMMA OnAgcMark ==
    ASSUME NEW r \in Reader, Sound(r), NEW usec \in Int, ~(usec > UNCERTAIN_PULSE_TIME),
           r.state = "AGC_EXPECT"
    PROVE  /\ Decoded(r, usec).state = IF match(usec, AGC_MARK) THEN "AGC_GOES" ELSE "ERROR"
           /\ ~Decoded(r, usec).ready
<1> DEFINE q == [r EXCEPT !.ready = FALSE]
           s == IF match(usec, AGC_MARK) THEN "AGC_GOES" ELSE "ERROR"
<1>1. q \in Reader /\ ~q.ready /\ q.state = "AGC_EXPECT"
  BY Unready
<1>2. ir_recv_nec(r, usec) = [q EXCEPT !.state = s]
  BY <1>1 DEF ir_recv_nec, Goto
<1> HIDE DEF q, s
<1>3. ir_recv_nec(r, usec).state = s /\ ~ir_recv_nec(r, usec).ready
  BY <1>1, <1>2 DEF Reader
<1> QED  BY <1>3, Stored DEF s

LEMMA OnAgcSpace ==
    ASSUME NEW r \in Reader, Sound(r), NEW usec \in Int, ~(usec > UNCERTAIN_PULSE_TIME),
           r.state = "AGC_GOES"
    PROVE  /\ Decoded(r, usec).state = "LOGICAL_EXPECT" /\ ~Decoded(r, usec).ready
           /\ match(usec, AGC_SPACE) => Decoded(r, usec).len = 0
<1> DEFINE q == [r EXCEPT !.ready = FALSE]
<1>1. q \in Reader /\ ~q.ready /\ q.state = "AGC_GOES"
  BY Unready
<1>2. ir_recv_nec(r, usec) = AgcSpace(q, usec)
  BY <1>1 DEF ir_recv_nec
<1> HIDE DEF q
<1>3. AgcSpace(q, usec).state = "LOGICAL_EXPECT" /\ ~AgcSpace(q, usec).ready
  BY <1>1 DEF AgcSpace, Reader
<1>4. match(usec, AGC_SPACE) => AgcSpace(q, usec).len = 0
  BY <1>1 DEF AgcSpace, Reader
<1>5. 0 \in 0..Bits
  BY Sizes
<1> DEFINE d == AgcSpace(q, usec)
<1>6. d.state = "LOGICAL_EXPECT" /\ ~d.ready /\ (match(usec, AGC_SPACE) => d.len = 0)
  BY <1>3, <1>4
<1>7. d = ir_recv_nec(r, usec)
  BY <1>2
<1> HIDE DEF d
<1> QED  BY <1>5, <1>6, <1>7, Stored

LEMMA OnMark ==
    ASSUME NEW r \in Reader, Sound(r), NEW usec \in Int, match(usec, LOGICAL_MARK),
           r.state = "LOGICAL_EXPECT"
    PROVE  /\ Decoded(r, usec).state = "LOGICAL_GOES" /\ ~Decoded(r, usec).ready
           /\ Decoded(r, usec).data = r.data
           /\ r.len \in 0..Bits => Decoded(r, usec).len = r.len
<1> DEFINE q == [r EXCEPT !.ready = FALSE]
<1>1. q \in Reader /\ ~q.ready /\ q.state = "LOGICAL_EXPECT" /\ q.len = r.len /\ q.data = r.data
  BY Unready
<1>2. ~(usec > UNCERTAIN_PULSE_TIME)
  BY DEF match, LOGICAL_MARK, UNCERTAIN_PULSE_TIME, ACCEPTABLE_BIAS, AGC_MARK, AGC_SPACE
<1>3. ir_recv_nec(r, usec) = [q EXCEPT !.state = "LOGICAL_GOES"]
  BY <1>1, <1>2 DEF ir_recv_nec, Goto
<1> HIDE DEF q
<1>4. /\ ir_recv_nec(r, usec).state = "LOGICAL_GOES" /\ ~ir_recv_nec(r, usec).ready
      /\ ir_recv_nec(r, usec).len = r.len /\ ir_recv_nec(r, usec).data = r.data
  BY <1>1, <1>3 DEF Reader
<1> QED  BY <1>4, Stored

\* The space that stands for a bit.
Space(b) == IF b = 1 THEN LOGIC_B1_SPACE ELSE LOGIC_B0_SPACE

LEMMA OnBit ==
    ASSUME NEW r \in Reader, Sound(r), NEW usec \in Int, NEW b \in 0..1,
           match(usec, Space(b)), r.state = "LOGICAL_GOES", r.len < Bits
    PROVE  /\ ~Decoded(r, usec).ready /\ Decoded(r, usec).len = r.len + 1
           /\ Decoded(r, usec).state =
                IF r.len + 1 = Bits THEN "EOP_EXPECT" ELSE "LOGICAL_EXPECT"
           /\ \A i \in Pos : Decoded(r, usec).data[i] = IF i = r.len THEN b ELSE r.data[i]
<1> DEFINE q == [r EXCEPT !.ready = FALSE]
<1>1. q \in Reader /\ ~q.ready /\ q.state = "LOGICAL_GOES" /\ q.len = r.len /\ q.data = r.data
  BY Unready
<1>2. ~(usec > UNCERTAIN_PULSE_TIME)
  BY DEF match, Space, LOGIC_B0_SPACE, LOGIC_B1_SPACE, LOGICAL_MARK, UNCERTAIN_PULSE_TIME,
         ACCEPTABLE_BIAS, AGC_MARK, AGC_SPACE
<1>3. ir_recv_nec(r, usec) = BitSpace(q, usec)
  BY <1>1, <1>2 DEF ir_recv_nec
<1>4. BitSpace(q, usec) = ReadBit(q, b)
  <2>1. CASE b = 0
    <3>1. match(usec, LOGIC_B0_SPACE) /\ ~match(usec, LOGIC_B1_SPACE)
      BY <2>1 DEF match, Space, LOGIC_B0_SPACE, LOGIC_B1_SPACE, LOGICAL_MARK,
             ACCEPTABLE_BIAS
    <3> HIDE DEF q
    <3> QED  BY <2>1, <3>1, SMT DEF BitSpace
  <2>2. CASE b = 1
    <3>1. match(usec, LOGIC_B1_SPACE) /\ ~match(usec, LOGIC_B0_SPACE)
      BY <2>2 DEF match, Space, LOGIC_B0_SPACE, LOGIC_B1_SPACE, LOGICAL_MARK,
             ACCEPTABLE_BIAS
    <3> HIDE DEF q
    <3> QED  BY <2>2, <3>1, SMT DEF BitSpace
  <2> QED  BY <2>1, <2>2
<1> HIDE DEF q
<1>5. r.len \in Nat /\ r.len + 1 \in 0..Bits
  BY Fields, Sizes
<1> DEFINE d == ReadBit(q, b)
<1>6. /\ ~d.ready /\ d.len = r.len + 1
      /\ d.state = IF r.len + 1 = Bits THEN "EOP_EXPECT" ELSE "LOGICAL_EXPECT"
      /\ \A i \in Pos : d.data[i] = IF i = r.len THEN b ELSE r.data[i]
  BY <1>1, BitRead
<1>7. d = ir_recv_nec(r, usec)
  BY <1>3, <1>4
<1> HIDE DEF d
<1> QED  BY <1>5, <1>6, <1>7, Stored

LEMMA OnEnd ==
    ASSUME NEW r \in Reader, Sound(r), NEW usec \in Int, match(usec, LOGICAL_MARK),
           r.state = "EOP_EXPECT"
    PROVE  /\ Decoded(r, usec).state = "EOP_GOES" /\ Decoded(r, usec).len = Bits
           /\ Decoded(r, usec).data = r.data /\ Decoded(r, usec).ready
<1> DEFINE q == [[r EXCEPT !.ready = FALSE] EXCEPT !.ready = TRUE]
<1>1. [r EXCEPT !.ready = FALSE] \in Reader /\ [r EXCEPT !.ready = FALSE].state = "EOP_EXPECT"
  BY Unready
<1>2. ~(usec > UNCERTAIN_PULSE_TIME)
  BY DEF match, LOGICAL_MARK, UNCERTAIN_PULSE_TIME, ACCEPTABLE_BIAS, AGC_MARK, AGC_SPACE
<1>3. ir_recv_nec(r, usec) = [q EXCEPT !.state = "EOP_GOES"]
  BY <1>1, <1>2 DEF ir_recv_nec, Goto
<1>4. q \in Reader /\ q.len = r.len /\ q.data = r.data /\ q.ready
  <2>1. q \in Reader
    BY DEF Reader
  <2> QED  BY <2>1 DEF Reader
<1>5. r.len = Bits
  BY DEF Sound
<1> HIDE DEF q
<1>6. /\ ir_recv_nec(r, usec).state = "EOP_GOES"
      /\ ir_recv_nec(r, usec).len = Bits /\ ir_recv_nec(r, usec).data = r.data
      /\ ir_recv_nec(r, usec).ready
  BY <1>3, <1>4, <1>5 DEF Reader
<1>7. Bits \in 0..Bits
  BY Sizes
<1> QED  BY <1>6, <1>7, Stored

-----------------------------------------------------------------------------
(* The pulses of a burst.                                                  *)

Longest == 2 * Bits + 3

LEMMA CodePulses ==
    ASSUME NEW f \in Code
    PROVE  /\ Len(Frame(f)) = Longest
           /\ \A n \in 1..Longest : Frame(f)[n] \in {AGC_MARK, AGC_SPACE, LOGICAL_MARK, Space(0), Space(1)}
           /\ \A n \in 1..Longest : Frame(f)[n] = AGC_MARK <=> n = 1
           /\ Frame(f)[2] = AGC_SPACE
           /\ \A i \in 0..Bits : Frame(f)[2 * i + 3] = LOGICAL_MARK
           /\ \A i \in Pos : Frame(f)[2 * i + 4] = Space(f[i])
<1>1. Longest \in Nat /\ Longest >= 5 /\ Bits \in Nat
  BY Sizes DEF Longest
<1> DEFINE v(n) == CASE n = 1     -> AGC_MARK
                     [] n = 2     -> AGC_SPACE
                     [] n % 2 = 1 /\ n # 1 -> LOGICAL_MARK
                     [] OTHER     -> IF f[n \div 2 - 2] = 1
                                     THEN LOGIC_B1_SPACE ELSE LOGIC_B0_SPACE
<1>2. Frame(f) = [n \in 1..Longest |-> v(n)]
  BY DEF Frame, Longest
<1>3. v(1) = AGC_MARK /\ v(2) = AGC_SPACE
  OBVIOUS
<1>4. \A i \in 0..Bits : v(2 * i + 3) = LOGICAL_MARK
  <2> TAKE i \in 0..Bits
  <2>1. (2 * i + 3) % 2 = 1 /\ 2 * i + 3 # 1 /\ 2 * i + 3 # 2
    BY <1>1
  <2> QED  BY <2>1
<1>5. \A i \in Pos : v(2 * i + 4) = Space(f[i])
  <2> TAKE i \in Pos
  <2>1. /\ (2 * i + 4) % 2 # 1 /\ 2 * i + 4 # 1 /\ 2 * i + 4 # 2
        /\ (2 * i + 4) \div 2 - 2 = i
    BY <1>1 DEF Pos
  <2> QED  BY <2>1 DEF Space
<1>6. \A n \in 1..Longest :
         \/ n \in {1, 2}
         \/ \E i \in 0..Bits : n = 2 * i + 3
         \/ \E i \in Pos : n = 2 * i + 4
  <2> TAKE n \in 1..Longest
  <2>1. CASE n >= 3 /\ n % 2 = 1
    <3>1. (n - 3) \div 2 \in 0..Bits /\ n = 2 * ((n - 3) \div 2) + 3
      BY <1>1, <2>1 DEF Longest
    <3> QED  BY <3>1
  <2>2. CASE n >= 3 /\ n % 2 = 0
    <3>1. (n - 4) \div 2 \in Pos /\ n = 2 * ((n - 4) \div 2) + 4
      BY <1>1, <2>2 DEF Longest, Pos
    <3> QED  BY <3>1
  <2>3. n % 2 \in {0, 1}
    OBVIOUS
  <2> QED  BY <2>1, <2>2, <2>3
<1> HIDE DEF v
<1>7. f \in [Pos -> 0..1]
  BY DEF Code
<1>8. \A i \in Pos : Space(f[i]) \in {Space(0), Space(1)}
  BY <1>7
<1>9. \A n \in 1..Longest :
         /\ v(n) \in {AGC_MARK, AGC_SPACE, LOGICAL_MARK, Space(0), Space(1)}
         /\ v(n) = AGC_MARK <=> n = 1
  <2>1. AGC_MARK \notin {AGC_SPACE, LOGICAL_MARK, Space(0), Space(1)}
    BY DEF AGC_MARK, AGC_SPACE, LOGICAL_MARK, Space, LOGIC_B0_SPACE, LOGIC_B1_SPACE
  <2> QED  BY <1>3, <1>4, <1>5, <1>6, <1>8, <2>1
<1>10. Len(Frame(f)) = Longest
  <2>1. Frame(f) \in [1..Longest -> {AGC_MARK, AGC_SPACE, LOGICAL_MARK, Space(0), Space(1)}]
    BY <1>2, <1>9
  <2> QED  BY <1>1, <2>1
<1>11. \A i \in 0..Bits : 2 * i + 3 \in 1..Longest
  BY <1>1 DEF Longest
<1>12. \A i \in Pos : 2 * i + 4 \in 1..Longest
  BY <1>1 DEF Longest, Pos
<1>13. 2 \in 1..Longest
  BY <1>1
<1> QED
  BY <1>2, <1>3, <1>4, <1>5, <1>9, <1>10, <1>11, <1>12, <1>13, ZenonT(40)

LEMMA RepeatPulses ==
    /\ Len(Repeat) = 3
    /\ Repeat[1] = AGC_MARK /\ Repeat[2] = AGC_REPEAT_SPACE /\ Repeat[3] = LOGICAL_MARK
  BY DEF Repeat

LEMMA BurstKinds ==
    ASSUME NEW b \in Bursts
    PROVE  \/ b.kind = "code" /\ b.bits \in Code /\ Pulses(b) = Frame(b.bits)
           \/ b.kind = "repeat" /\ Pulses(b) = Repeat
  BY DEF Bursts, Pulses

LEMMA PulseCount ==
    ASSUME NEW b \in Bursts
    PROVE  Len(Pulses(b)) \in 3..Longest
<1>1. Longest \in Nat /\ 3 \in 3..Longest /\ Longest \in 3..Longest
  BY Sizes DEF Longest
<1>2. Len(Pulses(b)) = Longest \/ Len(Pulses(b)) = 3
  BY BurstKinds, CodePulses, RepeatPulses
<1> QED  BY <1>1, <1>2

LEMMA Times ==
    /\ AGC_MARK \in Int /\ AGC_SPACE \in Int /\ AGC_REPEAT_SPACE \in Int /\ LOGICAL_MARK \in Int
    /\ Space(0) \in Int /\ Space(1) \in Int
    /\ GAP \in Int /\ GAP > UNCERTAIN_PULSE_TIME /\ UNCERTAIN_PULSE_TIME \in Nat
  BY DEF AGC_MARK, AGC_SPACE, AGC_REPEAT_SPACE, LOGICAL_MARK, Space, LOGIC_B0_SPACE,
         LOGIC_B1_SPACE, GAP, UNCERTAIN_PULSE_TIME, ACCEPTABLE_BIAS

\* A pulse of a burst, off by a jitter, is taken for none of the others.
LEMMA Jittered ==
    ASSUME NEW j \in Jitters
    PROVE  /\ j \in Int
           /\ \A u \in {AGC_MARK, AGC_SPACE, AGC_REPEAT_SPACE, LOGICAL_MARK, Space(0), Space(1)} :
                 /\ u + j \in Int /\ ~(u + j > UNCERTAIN_PULSE_TIME)
                 /\ match(u + j, u)
                 /\ match(u + j, AGC_MARK) => u = AGC_MARK
                 /\ match(u + j, AGC_SPACE) => u = AGC_SPACE
<1>1. j \in Int /\ match(LOGICAL_MARK + j, LOGICAL_MARK)
  BY RecvConstants
<1>2. j < 150 /\ 0 - j < 150
  BY <1>1 DEF match, LOGICAL_MARK, ACCEPTABLE_BIAS
<1> QED
  BY <1>1, <1>2 DEF match, AGC_MARK, AGC_SPACE, AGC_REPEAT_SPACE, LOGICAL_MARK, Space,
     LOGIC_B0_SPACE, LOGIC_B1_SPACE, UNCERTAIN_PULSE_TIME, ACCEPTABLE_BIAS

LEMMA Onwards ==
    ASSUME NEW a \in Air, InTime(a)
    PROVE  /\ Advance(a) \in Air /\ InTime(Advance(a))
           /\ Advance(a).burst = a.burst /\ Advance(a).clean = a.clean
           /\ Advance(a).at = IF a.at \in 1..(Len(Pulses(a.burst)) - 1) THEN a.at + 1 ELSE 0
<1> DEFINE k == IF a.at \in 1..(Len(Pulses(a.burst)) - 1) THEN a.at + 1 ELSE 0
<1>1. a.burst \in Bursts /\ a.at \in 0..Longest /\ a.clean \in BOOLEAN
  BY DEF Air, Longest
<1>2. k \in 0..Longest /\ k <= Len(Pulses(a.burst))
  <2>1. Len(Pulses(a.burst)) \in 3..Longest /\ Longest \in Nat
    BY <1>1, PulseCount, Sizes DEF Longest
  <2> QED  BY <2>1
<1>3. Advance(a) = [a EXCEPT !.at = k]
  BY DEF Advance
<1> HIDE DEF k
<1>4. [a EXCEPT !.at = k] \in Air
  BY <1>2 DEF Air, Longest
<1>5. /\ [a EXCEPT !.at = k].at = k /\ [a EXCEPT !.at = k].burst = a.burst
      /\ [a EXCEPT !.at = k].clean = a.clean
  BY DEF Air
<1> QED
  BY <1>2, <1>3, <1>4, <1>5 DEF InTime, k

-----------------------------------------------------------------------------
(* The edges.                                                              *)

LEMMA GlitchTimes == ASSUME NEW u \in Glitches PROVE u \in Int
  BY RecvConstants, Times

\* What an edge brings once a decoder has seen its first one.
LEMMA SeenEdge ==
    ASSUME NEW a \in Air, InTime(a), NEW e \in Begins \cup Continues(a) \cup Disturbed(a)
    PROVE  /\ e.usec \in Int /\ e.air \in Air /\ InTime(e.air)
           /\ \/ e.usec = GAP
              \/ e.air = Advance(a) /\ a.at # 0 /\ \E j \in Jitters : e.usec = Pulses(a.burst)[a.at] + j
              \/ ~e.air.clean
<1>1. a.burst \in Bursts /\ a.at \in 0..Longest /\ Longest \in Nat /\ Longest >= 3
  BY Sizes DEF Air, Longest
<1>2. CASE e \in Begins
  <2>1. PICK b \in Bursts : e = [usec |-> GAP, air |-> [burst |-> b, at |-> 1, clean |-> TRUE]]
    BY <1>2 DEF Begins
  <2>2. [burst |-> b, at |-> 1, clean |-> TRUE] \in Air
    BY <1>1 DEF Air, Longest
  <2>3. InTime([burst |-> b, at |-> 1, clean |-> TRUE])
    BY <1>1, PulseCount DEF InTime
  <2> QED  BY <2>1, <2>2, <2>3, Times
<1>3. CASE e \in Continues(a)
  <2>1. PICK j \in Jitters : a.at # 0 /\ e = [usec |-> Pulses(a.burst)[a.at] + j, air |-> Advance(a)]
    BY <1>3 DEF Continues
  <2>2. a.at \in 1..Len(Pulses(a.burst))
    BY <1>1, <2>1, PulseCount DEF InTime
  <2>3. Pulses(a.burst)[a.at] \in
          {AGC_MARK, AGC_SPACE, AGC_REPEAT_SPACE, LOGICAL_MARK, Space(0), Space(1)}
    <3>1. CASE Pulses(a.burst) = Repeat
      BY <2>2, <3>1, RepeatPulses
    <3>2. CASE a.burst.bits \in Code /\ Pulses(a.burst) = Frame(a.burst.bits)
      BY <2>2, <3>2, CodePulses
    <3> QED  BY <1>1, <3>1, <3>2, BurstKinds
  <2>4. Pulses(a.burst)[a.at] + j \in Int
    BY <2>3, Jittered
  <2> QED  BY <2>1, <2>4, Onwards
<1>4. CASE e \in Disturbed(a)
  <2>1. PICK u \in Glitches, b \in {a, Advance(a)} : e = [usec |-> u, air |-> [b EXCEPT !.clean = FALSE]]
    BY <1>4 DEF Disturbed
  <2>2. b \in Air /\ InTime(b)
    BY <2>1, Onwards
  <2>3. [b EXCEPT !.clean = FALSE] \in Air
    BY <2>2 DEF Air
  <2>4. /\ ~[b EXCEPT !.clean = FALSE].clean /\ [b EXCEPT !.clean = FALSE].at = b.at
        /\ [b EXCEPT !.clean = FALSE].burst = b.burst
    BY <2>2 DEF Air
  <2>5. InTime([b EXCEPT !.clean = FALSE])
    BY <2>2, <2>4 DEF InTime
  <2> QED  BY <2>1, <2>3, <2>4, <2>5, GlitchTimes
<1> QED
  BY <1>2, <1>3, <1>4

\* A decoder in step with an undisturbed burst stays so.
LEMMA StaysInStep ==
    ASSUME NEW r \in Reader, Sound(r), NEW a \in Air, InTime(a), a.at # 0, InStep(r, a),
           NEW j \in Jitters, NEW usec, usec = Pulses(a.burst)[a.at] + j
    PROVE  InStep(Decoded(r, usec), Advance(a))
<1> DEFINE d == Decoded(r, usec)
           b == a.burst
           c == Advance(a)
<1>1. b \in Bursts /\ a.at \in 0..Longest /\ Longest \in Nat /\ Longest = 2 * Bits + 3
  BY Sizes DEF Air, Longest
<1>2. c.burst = b /\ c.at = IF a.at \in 1..(Len(Pulses(b)) - 1) THEN a.at + 1 ELSE 0
  BY Onwards
<1>3. a.at \in 1..Len(Pulses(b)) /\ Len(Pulses(b)) \in 3..Longest
  BY <1>1, PulseCount DEF InTime
<1>4. Pulses(b)[a.at] \in
        {AGC_MARK, AGC_SPACE, AGC_REPEAT_SPACE, LOGICAL_MARK, Space(0), Space(1)}
  <2>1. CASE Pulses(b) = Repeat
    BY <1>3, <2>1, RepeatPulses
  <2>2. CASE b.bits \in Code /\ Pulses(b) = Frame(b.bits)
    BY <1>3, <2>2, CodePulses
  <2> QED  BY <1>1, <2>1, <2>2, BurstKinds
<1>5. usec \in Int /\ ~(usec > UNCERTAIN_PULSE_TIME)
  BY <1>4, Jittered
<1>6. Pulses(b)[a.at] = AGC_MARK => a.at = 1
  <2>1. CASE Pulses(b) = Repeat
    <3>1. AGC_MARK # AGC_REPEAT_SPACE /\ AGC_MARK # LOGICAL_MARK
      BY DEF AGC_MARK, AGC_REPEAT_SPACE, LOGICAL_MARK
    <3> QED  BY <1>3, <2>1, <3>1, RepeatPulses
  <2>2. CASE b.bits \in Code /\ Pulses(b) = Frame(b.bits)
    BY <1>3, <2>2, CodePulses
  <2> QED  BY <1>1, <2>1, <2>2, BurstKinds
<1>13. usec = Pulses(b)[a.at] + j /\ \A u \in
        {AGC_MARK, AGC_SPACE, AGC_REPEAT_SPACE, LOGICAL_MARK, Space(0), Space(1)} :
          Pulses(b)[a.at] = u => match(usec, u)
  BY Jittered
<1> HIDE DEF d, b, c
<1>7. CASE r.state = "ERROR"
  BY <1>5, <1>7, OnError DEF InStep, d
<1>8. CASE r.state = "AGC_EXPECT"
  <2>1. CASE match(usec, AGC_MARK)
    <3>1. a.at = 1
      BY <1>4, <1>6, <2>1, Jittered DEF b
    <3>2. c.at = 2
      BY <1>2, <1>3, <3>1
    <3> QED  BY <1>5, <1>8, <2>1, <3>2, OnAgcMark DEF InStep, c
  <2>2. CASE ~match(usec, AGC_MARK)
    BY <1>5, <1>8, <2>2, OnAgcMark DEF InStep
  <2> QED  BY <2>1, <2>2
<1>9. CASE r.state = "AGC_GOES"
  <2>1. a.at = 2 /\ c.at = 3
    BY <1>1, <1>2, <1>3, <1>9 DEF InStep
  <2>2. d.state = "LOGICAL_EXPECT" /\ ~d.ready /\ (match(usec, AGC_SPACE) => d.len = 0)
    BY <1>5, <1>9, OnAgcSpace DEF d
  <2>3. CASE b.kind = "repeat"
    BY <1>2, <2>1, <2>2, <2>3 DEF InStep, d, c
  <2>4. CASE b.kind = "code" /\ b.bits \in Code /\ Pulses(b) = Frame(b.bits)
    <3>1. match(usec, AGC_SPACE)
      BY <2>1, <2>4, CodePulses, Jittered DEF b
    <3>2. d.len = 0
      BY <2>2, <3>1
    <3> QED  BY <1>2, <2>1, <2>2, <2>4, <3>2, Sizes DEF InStep, Reads, d, c
  <2> QED  BY <1>1, <2>3, <2>4, BurstKinds
<1>10. CASE b.kind = "repeat" /\ r.state \in {"LOGICAL_EXPECT", "LOGICAL_GOES"}
  <2>1. r.state = "LOGICAL_EXPECT" /\ a.at = 3
    BY <1>10 DEF InStep, b
  <2>2. Pulses(b) = Repeat
    BY <1>1, <1>10, BurstKinds
  <2>3. match(usec, LOGICAL_MARK) /\ c.at = 0
    <3>1. Pulses(b)[a.at] = LOGICAL_MARK /\ Len(Pulses(b)) = 3
      BY <2>1, <2>2, RepeatPulses
    <3>2. match(usec, LOGICAL_MARK)
      BY <1>13, <3>1
    <3>3. a.at \notin 1..(Len(Pulses(b)) - 1)
      BY <2>1, <3>1
    <3>4. c.at = 0
      BY <1>2, <3>3
    <3> QED  BY <3>2, <3>4
  <2>4. d.state = "LOGICAL_GOES" /\ ~d.ready
    BY <1>5, <2>1, <2>3, OnMark DEF d
  <2> QED  BY <1>2, <1>10, <2>3, <2>4 DEF InStep, d, c
<1>11. CASE b.kind = "code" /\ r.state \notin {"ERROR", "AGC_EXPECT", "AGC_GOES"}
  <2>1. b.bits \in Code /\ Pulses(b) = Frame(b.bits) /\ Len(Pulses(b)) = Longest
    BY <1>1, <1>11, BurstKinds, CodePulses
  <2>2. Reads(r, b) /\ r.len \in 0..Bits
    BY <1>11 DEF InStep, Reads, b
  <2>3. CASE r.state = "LOGICAL_EXPECT"
    <3>1. a.at = 2 * r.len + 3 /\ r.len < Bits
      BY <1>11, <2>3 DEF InStep, b
    <3>2. match(usec, LOGICAL_MARK) /\ c.at = 2 * r.len + 4
      <4>1. Pulses(b)[a.at] = LOGICAL_MARK
        BY <2>1, <2>2, <3>1, CodePulses
      <4>2. match(usec, LOGICAL_MARK)
        BY <1>13, <4>1
      <4>3. c.at = 2 * r.len + 4
        BY <1>1, <1>2, <2>1, <2>2, <3>1, Sizes, SMTT(30)
      <4> QED  BY <4>2, <4>3
    <3>3. /\ d.state = "LOGICAL_GOES" /\ ~d.ready /\ d.data = r.data /\ d.len = r.len
      BY <1>5, <2>2, <2>3, <3>2, OnMark DEF d
    <3> QED  BY <1>2, <1>11, <2>2, <3>1, <3>2, <3>3 DEF InStep, Reads, d, c
  <2>4. CASE r.state = "LOGICAL_GOES"
    <3>1. a.at = 2 * r.len + 4 /\ r.len < Bits /\ r.len \in Pos
      BY <1>11, <2>2, <2>4, Sizes DEF InStep, b, Pos
    <3>2. c.at = 2 * r.len + 5
      BY <1>1, <1>2, <2>1, <2>2, <3>1, Sizes, SMTT(30)
    <3>3. b.bits[r.len] \in 0..1
      BY <2>1, <3>1 DEF Code
    <3>4. match(usec, Space(b.bits[r.len]))
      <4>1. Pulses(b)[a.at] = Space(b.bits[r.len])
        BY <2>1, <3>1, CodePulses
      <4>2. b.bits[r.len] = 0 \/ b.bits[r.len] = 1
        BY <3>3
      <4> QED  BY <1>13, <4>1, <4>2
    <3>5. /\ ~d.ready /\ d.len = r.len + 1
          /\ d.state = IF r.len + 1 = Bits THEN "EOP_EXPECT" ELSE "LOGICAL_EXPECT"
          /\ \A i \in Pos : d.data[i] = IF i = r.len THEN b.bits[r.len] ELSE r.data[i]
      <4> DEFINE v == b.bits[r.len]
      <4>1. v \in 0..1 /\ match(usec, Space(v)) /\ r.len < Bits
        BY <3>1, <3>3, <3>4
      <4> HIDE DEF v
      <4>2. /\ ~d.ready /\ d.len = r.len + 1
            /\ d.state = IF r.len + 1 = Bits THEN "EOP_EXPECT" ELSE "LOGICAL_EXPECT"
            /\ \A i \in Pos : d.data[i] = IF i = r.len THEN v ELSE r.data[i]
        BY <1>5, <2>4, <4>1, OnBit DEF d
      <4> QED  BY <4>2 DEF v
    <3>6. Reads(d, b)
      <4> DEFINE l == d.len
                 k == r.len
      <4>4. k \in Nat /\ k < Bits /\ l = k + 1 /\ Bits \in Nat
        BY <2>2, <3>1, <3>5, Sizes
      <4> HIDE DEF l, k
      <4>5. l \in 0..Bits /\ \A i \in 0..(l - 1) : i \in Pos /\ (i = k \/ i \in 0..(k - 1))
        BY <4>4 DEF Pos
      <4>1. d.len \in 0..Bits /\ \A i \in 0..(d.len - 1) : i \in Pos /\ (i = r.len \/ i \in 0..(r.len - 1))
        BY <4>5 DEF l, k
      <4>2. \A i \in 0..(r.len - 1) : r.data[i] = b.bits[i] /\ i # r.len
        BY <2>2, <3>1 DEF Reads, Pos
      <4>3. \A i \in 0..(d.len - 1) : d.data[i] = b.bits[i]
        BY <3>5, <4>1, <4>2
      <4> QED  BY <4>1, <4>3 DEF Reads
    <3>7. CASE d.state = "EOP_EXPECT"
      <4>1. c.at = 2 * Bits + 3
        BY <2>2, <3>2, <3>5, <3>7, Sizes
      <4> QED  BY <1>2, <1>11, <3>5, <3>6, <3>7, <4>1 DEF InStep, d, c
    <3>8. CASE d.state = "LOGICAL_EXPECT"
      <4>1. d.len < Bits /\ c.at = 2 * d.len + 3
        BY <2>2, <3>1, <3>2, <3>5, <3>8, Sizes
      <4> QED  BY <1>2, <1>11, <3>5, <3>6, <3>8, <4>1 DEF InStep, d, c
    <3> QED  BY <3>5, <3>7, <3>8
  <2>5. CASE r.state = "EOP_EXPECT"
    <3>1. a.at = 2 * Bits + 3 /\ r.len = Bits
      BY <1>11, <2>5 DEF InStep, Sound, b
    <3>2. match(usec, LOGICAL_MARK) /\ c.at = 0
      <4>1. Pulses(b)[a.at] = LOGICAL_MARK
        BY <2>1, <3>1, CodePulses, Sizes
      <4>2. match(usec, LOGICAL_MARK)
        BY <1>13, <4>1
      <4>3. a.at \notin 1..(Len(Pulses(b)) - 1)
        BY <1>1, <2>1, <3>1, Sizes
      <4>4. c.at = 0
        BY <1>2, <4>3
      <4> QED  BY <4>2, <4>4
    <3>3. d.state = "EOP_GOES" /\ d.len = Bits /\ d.data = r.data
      BY <1>5, <2>5, <3>2, OnEnd DEF d
    <3> QED  BY <1>2, <1>11, <2>2, <3>1, <3>2, <3>3 DEF InStep, Reads, d, c
  <2>6. r.state # "EOP_GOES"
    BY <1>11 DEF InStep
  <2> QED  BY <1>11, <2>3, <2>4, <2>5, <2>6, Fields DEF States
<1>12. CASE b.kind = "repeat" /\ r.state \in {"EOP_EXPECT", "EOP_GOES"}
  BY <1>12 DEF InStep, b
<1> QED
  BY <1>1, <1>7, <1>8, <1>9, <1>10, <1>11, <1>12, BurstKinds, Fields DEF States

\* An edge the handler sees on a bound pin keeps decoder and burst together.
LEMMA EdgeStep ==
    ASSUME NEW p \in Pin, NEW r, r = pin_reader[p], NEW a \in Air, a = air[p],
           InTime(a), Follows(r, a), NEW e \in Edges(p)
    PROVE  /\ e.usec \in Int /\ e.air \in Air /\ InTime(e.air)
           /\ Follows(Decoded(r, e.usec), e.air)
<1> DEFINE seen == Begins \cup Continues(a) \cup Disturbed(a)
           d == Decoded(r, e.usec)
<1>1. r \in Reader /\ Sound(r)
  BY DEF Follows
<1>2. Edges(p) = IF r.first THEN {[usec |-> u, air |-> x.air] : u \in {GAP, 0}, x \in seen} ELSE seen
  BY DEF Edges
<1>3. \A x \in seen : x.air \in Air /\ InTime(x.air)
  BY SeenEdge
<1>4. CASE r.first
  <2> HIDE DEF seen
  <2>1. PICK u \in {GAP, 0}, x \in seen : e = [usec |-> u, air |-> x.air]
    BY <1>2, <1>4
  <2>2. e.usec = u /\ e.air = x.air /\ u \in Int
    BY <2>1, Times
  <2>3. CASE u = GAP
    <3>1. u > UNCERTAIN_PULSE_TIME
      BY <2>3, Times
    <3>2. d.state = "AGC_EXPECT" /\ ~d.ready
      BY <1>1, <2>2, <3>1, OnGap
    <3> QED  BY <1>1, <1>3, <2>2, <3>2, EdgeSound DEF Follows, InStep
  <2>4. CASE u = 0
    <3>1. ~(u > UNCERTAIN_PULSE_TIME) /\ r.state = "ERROR"
      BY <1>1, <1>4, <2>4, Times DEF Sound
    <3>2. d.state = "ERROR" /\ ~d.ready
      BY <1>1, <2>2, <3>1, OnError
    <3> QED  BY <1>1, <1>3, <2>2, <3>2, EdgeSound DEF Follows, InStep
  <2> QED  BY <2>1, <2>3, <2>4
<1>5. CASE ~r.first
  <2>1. e \in seen
    BY <1>2, <1>5
  <2>2. /\ e.usec \in Int /\ e.air \in Air /\ InTime(e.air)
        /\ \/ e.usec = GAP
           \/ e.air = Advance(a) /\ a.at # 0 /\ \E j \in Jitters : e.usec = Pulses(a.burst)[a.at] + j
           \/ ~e.air.clean
    BY <2>1, SeenEdge
  <2>3. d \in Reader /\ Sound(d)
    BY <1>1, <2>2, EdgeSound
  <2> HIDE DEF d, seen
  <2>4. CASE e.usec = GAP
    <3>1. d.state = "AGC_EXPECT" /\ ~d.ready
      BY <1>1, <2>4, OnGap, Times DEF d
    <3> QED  BY <2>2, <2>3, <3>1 DEF Follows, InStep, d
  <2>5. CASE e.air = Advance(a) /\ a.at # 0 /\ \E j \in Jitters : e.usec = Pulses(a.burst)[a.at] + j
    <3>1. PICK j \in Jitters : e.usec = Pulses(a.burst)[a.at] + j
      BY <2>5
    <3>2. e.air.clean => InStep(d, e.air)
      <4>1. e.air.clean => a.clean
        BY <2>5, Onwards
      <4>2. a.clean => InStep(r, a)
        BY DEF Follows
      <4> QED  BY <1>1, <2>5, <3>1, <4>1, <4>2, StaysInStep DEF d
    <3> QED  BY <2>2, <2>3, <3>2 DEF Follows, d
  <2>6. CASE ~e.air.clean
    BY <2>2, <2>3, <2>6 DEF Follows, d
  <2> QED  BY <2>2, <2>4, <2>5, <2>6
<1> QED
  BY <1>4, <1>5

-----------------------------------------------------------------------------
(* The invariant holds.                                                    *)

LEMMA FreshReader ==
    ASSUME NEW a \in Air
    PROVE  NewReader \in Reader /\ Follows(NewReader, a)
<1>1. NewReader \in Reader
  BY Sizes DEF NewReader, Reader, States
<1>2. NewReader.state = "ERROR" /\ ~NewReader.ready
  BY DEF NewReader
<1>3. Sound(NewReader)
  BY <1>2 DEF Sound
<1> QED
  BY <1>1, <1>2, <1>3 DEF Follows, InStep

LEMMA InitIInv == Init => IInv
<1> SUFFICES ASSUME Init PROVE IInv
  OBVIOUS
<1>1. \A p \in Pin : pin_reader[p] = NoReader
  BY DEF Init
<1>2. Bound = {}
  BY <1>1 DEF Bound
<1>3. air \in [Pin -> Air] /\ \A p \in Pin : InTime(air[p])
  BY DEF Init, InTime
<1>4. tasks \in 0..QueueMax
  BY RecvConstants DEF Init
<1>5. pin_reader \in [Pin -> Reader \cup {NoReader}] /\ given \in [Pin -> 0..2]
  BY DEF Init
<1>6. /\ listening \subseteq Pin /\ binding \subseteq listening \ Bound
      /\ scan \subseteq Bound /\ refused \in BOOLEAN /\ fault \in BOOLEAN
  BY DEF Init
<1>7. TypeOK
  BY <1>3, <1>4, <1>5, <1>6 DEF TypeOK
<1> QED
  BY <1>2, <1>3, <1>7 DEF IInv

\* The bound pins are those with a reader.
LEMMA BoundReaders ==
    ASSUME TypeOK
    PROVE  \A p \in Pin : p \in Bound <=> pin_reader[p] \in Reader
  BY NoReaderIsNone DEF Bound, TypeOK

LEMMA StepIInv == IInv /\ [Next]_vars => IInv'
<1> SUFFICES ASSUME IInv, [Next]_vars PROVE IInv'
  OBVIOUS
<1>1. /\ TypeOK /\ \A p \in Pin : InTime(air[p])
      /\ \A p \in Bound : Follows(pin_reader[p], air[p])
  BY DEF IInv
<1>2. /\ pin_reader \in [Pin -> Reader \cup {NoReader}] /\ air \in [Pin -> Air]
      /\ scan \subseteq Bound /\ listening \subseteq Pin /\ tasks \in 0..QueueMax
      /\ binding \subseteq listening \ Bound /\ refused \in BOOLEAN
      /\ given \in [Pin -> 0..2] /\ fault \in BOOLEAN /\ Bound \subseteq Pin
      /\ QueueMax \in Nat \ {0}
  <2>1. QueueMax \in Nat \ {0}
    BY RecvConstants
  <2>2. Bound \subseteq Pin
    BY DEF Bound
  <2> QED  BY <1>1, <2>1, <2>2 DEF TypeOK
<1>3. ASSUME NEW mask \in SUBSET Pin, GpioIntr(mask) PROVE IInv'
  <2>1. PICK e \in [mask -> UNION {Edges(p) : p \in mask}] :
          /\ \A p \in mask : e[p] \in Edges(p)
          /\ air' = [p \in Pin |-> IF p \in mask THEN e[p].air ELSE air[p]]
          /\ pin_reader' =
                [p \in Pin |-> IF p \in mask THEN Decoded(pin_reader[p], e[p].usec)
                               ELSE pin_reader[p]]
    BY <1>3 DEF GpioIntr
  <2>2. mask \subseteq Bound
    BY <1>3 DEF GpioIntr
  <2>3. ASSUME NEW p \in mask
        PROVE  /\ e[p].air \in Air /\ InTime(e[p].air)
               /\ Follows(Decoded(pin_reader[p], e[p].usec), e[p].air)
               /\ Decoded(pin_reader[p], e[p].usec) \in Reader
    <3>1. Follows(pin_reader[p], air[p]) /\ air[p] \in Air /\ InTime(air[p]) /\ e[p] \in Edges(p)
      BY <1>1, <1>2, <2>1, <2>2, <2>3
    <3>2. e[p].air \in Air /\ InTime(e[p].air) /\ Follows(Decoded(pin_reader[p], e[p].usec), e[p].air)
      BY <2>3, <3>1, EdgeStep
    <3> QED  BY <3>2 DEF Follows
  <2>4. /\ \A p \in mask : air'[p] = e[p].air /\ pin_reader'[p] = Decoded(pin_reader[p], e[p].usec)
        /\ \A p \in Pin \ mask : air'[p] = air[p] /\ pin_reader'[p] = pin_reader[p]
    BY <2>1
  <2>5. air' \in [Pin -> Air] /\ \A p \in Pin : InTime(air'[p])
    BY <1>1, <1>2, <2>1, <2>3, <2>4
  <2>6. pin_reader' \in [Pin -> Reader \cup {NoReader}]
    BY <1>2, <2>1, <2>3
  <2>7. Bound' = Bound
    BY <2>2, <2>3, <2>4, NoReaderIsNone DEF Bound
  <2>8. \A p \in Bound : Follows(pin_reader'[p], air'[p])
    BY <1>1, <1>2, <2>3, <2>4
  <2>9. /\ listening' = listening /\ binding' = binding /\ scan' = scan /\ fault' = fault
        /\ given' = [p \in Pin |-> IF p \in mask THEN 0 ELSE given[p]]
    BY <1>3 DEF GpioIntr
  <2>10. given' \in [Pin -> 0..2]
    BY <1>2, <2>9
  <2>14. tasks' \in 0..QueueMax /\ refused' \in BOOLEAN
    <3>1. \/ tasks' = tasks
          \/ tasks < QueueMax /\ tasks' = tasks + 1
      BY <1>3 DEF GpioIntr, Post
    <3>2. refused' \in BOOLEAN
      BY <1>2, <1>3 DEF GpioIntr, Post
    <3> QED  BY <1>2, <3>1, <3>2
  <2>11. TypeOK'
    BY <1>2, <2>5, <2>6, <2>7, <2>9, <2>10, <2>14 DEF TypeOK
  <2>12. (\A p \in Pin : InTime(air[p]))'
    BY <2>5 DEF InTime
  <2>13. (\A p \in Bound : Follows(pin_reader[p], air[p]))'
    BY <2>7, <2>8
  <2> QED  BY <2>11, <2>12, <2>13 DEF IInv
<1>4. ASSUME NEW p \in Pin, NEW q \in Pin, GpioIntrUnbound(p, q) PROVE IInv'
  <2>1. /\ UNCHANGED <<listening, binding, pin_reader, tasks, refused, scan, air, given>>
        /\ fault' \in BOOLEAN
    BY <1>4 DEF GpioIntrUnbound
  <2>2. Bound' = Bound
    BY <2>1 DEF Bound
  <2> QED  BY <1>1, <1>2, <2>1, <2>2 DEF IInv, TypeOK, InTime
<1>5. CASE OnDataStart
  <2>1. /\ UNCHANGED <<listening, binding, pin_reader, refused, air, given, fault>>
        /\ scan' = Bound /\ tasks' = tasks - 1 /\ tasks > 0
    BY <1>5 DEF OnDataStart
  <2>2. Bound' = Bound
    BY <2>1 DEF Bound
  <2>3. tasks' \in 0..QueueMax
    BY <1>2, <2>1
  <2> QED  BY <1>1, <1>2, <2>1, <2>2, <2>3 DEF IInv, TypeOK, InTime
<1>6. ASSUME NEW p \in Pin, OnDataVisit(p) PROVE IInv'
  <2>1. /\ UNCHANGED <<listening, binding, pin_reader, tasks, refused, air, fault>>
        /\ scan' \subseteq Bound /\ given' \in [Pin -> 0..2]
    BY <1>2, <1>6 DEF OnDataVisit
  <2>2. Bound' = Bound
    BY <2>1 DEF Bound
  <2> QED  BY <1>1, <1>2, <2>1, <2>2 DEF IInv, TypeOK, InTime
<1>7. ASSUME NEW p \in Pin, Trig(p) PROVE IInv'
  <2>1. /\ UNCHANGED <<binding, pin_reader, tasks, refused, scan, air, given, fault>>
        /\ listening' = listening \cup {p}
    BY <1>7 DEF Trig
  <2>2. Bound' = Bound
    BY <2>1 DEF Bound
  <2>3. listening' \subseteq Pin /\ binding' \subseteq listening' \ Bound'
    BY <1>2, <2>1, <2>2
  <2> QED  BY <1>1, <1>2, <2>1, <2>2, <2>3 DEF IInv, TypeOK, InTime
<1>8. ASSUME NEW p \in Pin, BindEnable(p) PROVE IInv'
  <2>1. /\ UNCHANGED <<pin_reader, tasks, refused, scan, air, given, fault>>
        /\ p \notin Bound /\ binding' = {p} /\ listening' = listening \cup {p}
    BY <1>8 DEF BindEnable
  <2>2. Bound' = Bound
    BY <2>1 DEF Bound
  <2>3. listening' \subseteq Pin /\ binding' \subseteq listening' \ Bound'
    BY <1>2, <2>1, <2>2
  <2> QED  BY <1>1, <1>2, <2>1, <2>2, <2>3 DEF IInv, TypeOK, InTime
<1>9. ASSUME NEW p \in Pin, pin_reader' = [pin_reader EXCEPT ![p] = NewReader],
             UNCHANGED <<listening, tasks, refused, scan, air, fault>>, binding' = {},
             given' \in [Pin -> 0..2]
      PROVE  IInv'
  <2>1. \A q \in Pin : NewReader \in Reader /\ Follows(NewReader, air[q])
    BY <1>2, FreshReader
  <2>2. pin_reader' \in [Pin -> Reader \cup {NoReader}]
    BY <1>2, <1>9, <2>1
  <2>3. Bound' = Bound \cup {p}
    BY <1>2, <1>9, <2>1, NoReaderIsNone DEF Bound
  <2>4. \A q \in Bound' : Follows(pin_reader'[q], air'[q])
    BY <1>1, <1>2, <1>9, <2>1, <2>3
  <2>5. TypeOK'
    BY <1>2, <1>9, <2>2, <2>3 DEF TypeOK
  <2>6. (\A q \in Pin : InTime(air[q]))'
    BY <1>1, <1>9 DEF InTime
  <2> QED  BY <2>4, <2>5, <2>6 DEF IInv
<1>10. ASSUME NEW p \in Pin, BindPublish(p) PROVE IInv'
  BY <1>2, <1>9, <1>10 DEF BindPublish
<1>11. ASSUME NEW p \in Pin, Rebind(p) PROVE IInv'
  <2>1. given' \in [Pin -> 0..2] /\ binding' = {}
    BY <1>2, <1>11 DEF Rebind, Settled
  <2> QED  BY <1>9, <1>11, <2>1 DEF Rebind
<1>12. CASE UNCHANGED vars
  <2>1. UNCHANGED <<listening, binding, pin_reader, tasks, refused, scan, air, given, fault>>
    BY <1>12 DEF vars
  <2>2. Bound' = Bound
    BY <2>1 DEF Bound
  <2> QED  BY <1>1, <1>2, <2>1, <2>2 DEF IInv, TypeOK, InTime
<1> QED
  BY <1>3, <1>4, <1>5, <1>6, <1>8, <1>10, <1>11, <1>12, <1>7 DEF Next

\* In every reachable state the types hold, no pin is past the end of its
\* burst, and each bound pin's decoder is sound and in step with the burst.
THEOREM Invariance == Spec => []IInv
<1> QED  BY InitIInv, StepIInv, PTL DEF Spec

\* The variables of irrecv.c keep their types, for every number of pins and
\* every length of codes; the running task visits bound pins only.
THEOREM TypeCorrect == Spec => []TypeOK
<1>1. IInv => TypeOK
  BY DEF IInv
<1> QED  BY <1>1, Invariance, PTL

\* A code flagged ready has the full length, so the loop of
\* perform_ondata_callback that takes its bytes off ends.
THEOREM WholeCodes == Spec => []WholeCode
<1>1. IInv => WholeCode
  BY DEF IInv, Follows, Sound, WholeCode, Ready
<1> QED  BY <1>1, Invariance, PTL

\* A code flagged ready while the burst in the air is undisturbed is that
\* burst's code, read to its end: bits of different bursts never mix.
THEOREM RightCodes == Spec => []RightCode
<1>1. ASSUME IInv, NEW p \in Pin, Ready(p), air[p].clean
      PROVE  /\ air[p].at = 0
             /\ air[p].burst.kind = "code"
             /\ pin_reader[p].data = air[p].burst.bits
  <2> DEFINE r == pin_reader[p]
             a == air[p]
  <2>1. r \in Reader /\ r.ready /\ Sound(r) /\ InStep(r, a) /\ a \in Air
    BY <1>1 DEF IInv, TypeOK, Follows, Ready
  <2> HIDE DEF r, a
  <2>2. a.at = 0 /\ a.burst.kind = "code" /\ Reads(r, a.burst)
    BY <2>1 DEF InStep
  <2>3. r.len = Bits
    BY <2>1 DEF Sound
  <2>4. r.data \in Code /\ a.burst.bits \in Code
    BY <2>1, <2>2, Fields, BurstKinds DEF Air
  <2>5. \A i \in Pos : r.data[i] = a.burst.bits[i]
    BY <2>2, <2>3 DEF Reads, Pos
  <2>6. r.data = a.burst.bits
    BY <2>4, <2>5 DEF Code
  <2> QED  BY <2>2, <2>6 DEF r, a
<1>2. IInv => RightCode
  BY <1>1 DEF RightCode
<1> QED  BY <1>2, Invariance, PTL

----------------------------------------------------------------------------
(* Induction: a set of numbers that has one has a least one.               *)

LEMMA LeastNumber ==
    ASSUME NEW T \in SUBSET Nat, T # {}
    PROVE  \E x \in T : \A y \in T : x <= y
<1> DEFINE R == OpToRel(<, Nat)
<1>1. IsWellFoundedOn(R, Nat)
  BY NatLessThanWellFounded
<1>2. \A x, y \in Nat : x < y => <<x, y>> \in R
  BY DEF OpToRel
<1> HIDE DEF R
<1>3. \E x \in T : \A y \in T : ~(<<y, x>> \in R)
  BY <1>1, WFMin
<1>4. PICK x \in T : \A y \in T : ~(<<y, x>> \in R)
  BY <1>3
<1>5. \A y \in T : x \in Nat /\ y \in Nat /\ ~(y < x)
  BY <1>2, <1>4
<1> QED  BY <1>5

LEMMA Induction ==
    ASSUME NEW P \in SUBSET Nat, 0 \in P, \A n \in P : n + 1 \in P
    PROVE  \A n \in Nat : n \in P
<1> DEFINE T == Nat \ P
<1> SUFFICES ASSUME T # {} PROVE FALSE
  OBVIOUS
<1>1. T \in SUBSET Nat
  OBVIOUS
<1> HIDE DEF T
<1>2. PICK x \in T : \A y \in T : x <= y
  BY <1>1, LeastNumber
<1>3. x \in Nat /\ x \notin P /\ x # 0
  BY <1>2 DEF T
<1>4. x - 1 \in Nat /\ x - 1 \notin P
  BY <1>3
<1>5. x - 1 \in T
  BY <1>4 DEF T
<1> QED  BY <1>2, <1>3, <1>5

LEMMA LeastPlace ==
    ASSUME NEW T \in SUBSET Nat, T # {}
    PROVE  Min(T) \in T /\ \A y \in T : Min(T) <= y
<1>1. PICK x \in T : \A y \in T : x <= y
  BY LeastNumber
<1> QED  BY <1>1, Zenon DEF Min

LEMMA GreatestPlace ==
    ASSUME NEW n \in Nat, NEW T \in SUBSET (1..n), T # {}
    PROVE  Max(T) \in T /\ \A y \in T : Max(T) >= y
<1> DEFINE U == {k \in Nat : n - k \in T}
<1>1. U \in SUBSET Nat /\ U # {}
  <2>1. PICK y \in T : TRUE
    OBVIOUS
  <2>2. n - y \in Nat /\ n - (n - y) = y
    OBVIOUS
  <2>3. n - y \in U
    BY <2>2
  <2> QED  BY <2>3
<1>2. PICK x \in U : \A y \in U : x <= y
  BY <1>1, LeastNumber
<1>3. n - x \in T /\ x \in Nat
  BY <1>2
<1>4. ASSUME NEW y \in T PROVE n - x >= y
  <2>1. n - y \in Nat /\ n - (n - y) = y
    OBVIOUS
  <2>2. n - y \in U
    BY <2>1
  <2> QED  BY <1>2, <1>3, <2>1, <2>2
<1> DEFINE z == n - x
<1>5. z \in T /\ \A y \in T : z >= y
  BY <1>3, <1>4
<1> HIDE DEF z
<1> HIDE DEF U
<1> QED  BY <1>5, Zenon DEF Max

-----------------------------------------------------------------------------
(* A fold of the decoder, step by step.                                    *)

LEMMA LastPlace ==
    ASSUME NEW k \in Nat, NEW x \in SUBSET (1..(k + 1)), k + 1 \in x
    PROVE  Max(x) = k + 1
<1> DEFINE m == k + 1
<1>1. m \in Nat
  OBVIOUS
<1>2. Max(x) \in x /\ \A y \in x : Max(x) >= y
  <2> HIDE DEF m
  <2>1. x \in SUBSET (1..m) /\ x # {}
    BY DEF m
  <2> QED  BY <1>1, <2>1, GreatestPlace
<1> DEFINE z == Max(x)
<1>3. z \in 1..m /\ z >= m
  BY <1>2
<1> HIDE DEF z
<1>4. z = m
  BY <1>1, <1>3
<1> QED  BY <1>4 DEF z

\* g is a fold of Decoded over the first n of t, at any of its places.
Unrolls(g, n, q, t) ==
    g = [x \in SUBSET (1..n) |->
            IF x = {} THEN q ELSE Decoded(g[x \ {Max(x)}], t[Max(x)])]

LEMMA DecodeSteps ==
    ASSUME NEW t, NEW n \in Nat, NEW q
    PROVE  \E g : Unrolls(g, n, q, t)
<1> DEFINE P == {k \in Nat : \E g : Unrolls(g, k, q, t)}
<1>1. 0 \in P
  <2> DEFINE g == [x \in SUBSET (1..0) |-> q]
  <2>1. 1..0 = {}
    OBVIOUS
  <2>2. Unrolls(g, 0, q, t)
    BY <2>1 DEF Unrolls
  <2> HIDE DEF g
  <2> QED  BY <2>2
<1>2. ASSUME NEW k \in P PROVE k + 1 \in P
  <2>1. PICK g : Unrolls(g, k, q, t)
    OBVIOUS
  <2>2. k \in Nat
    OBVIOUS
  <2> DEFINE D == SUBSET (1..(k + 1))
             m == k + 1
             h == [x \in D |-> IF m \in x THEN Decoded(g[x \ {m}], t[m]) ELSE g[x]]
  <2>3. ASSUME NEW x \in D
        PROVE  h[x] = IF x = {} THEN q ELSE Decoded(h[x \ {Max(x)}], t[Max(x)])
    <3>1. CASE m \in x
      <4>1. Max(x) = m
        BY <2>2, <3>1, LastPlace
      <4>2. x \ {m} \in D /\ m \notin x \ {m} /\ x # {}
        BY <3>1
      <4>3. h[x] = Decoded(g[x \ {m}], t[m]) /\ h[x \ {m}] = g[x \ {m}]
        BY <3>1, <4>2
      <4> HIDE DEF h
      <4> QED  BY <4>1, <4>2, <4>3
    <3>2. CASE m \notin x
      <4>1. x \in SUBSET (1..k)
        BY <2>2, <3>2
      <4>2. h[x] = g[x] /\ g[x] = IF x = {} THEN q ELSE Decoded(g[x \ {Max(x)}], t[Max(x)])
        BY <2>1, <3>2, <4>1 DEF Unrolls
      <4>3. x \ {Max(x)} \in D /\ m \notin x \ {Max(x)}
        BY <3>2
      <4>4. h[x \ {Max(x)}] = g[x \ {Max(x)}]
        BY <4>3
      <4> HIDE DEF h
      <4> QED  BY <4>2, <4>4
    <3> QED  BY <3>1, <3>2
  <2>4. Unrolls(h, k + 1, q, t)
    <3>1. h = [x \in D |-> h[x]]
      OBVIOUS
    <3> HIDE DEF h
    <3> QED  BY <2>3, <3>1 DEF Unrolls
  <2> HIDE DEF h
  <2> QED  BY <2>2, <2>4
<1>3. P \in SUBSET Nat
  OBVIOUS
<1> HIDE DEF P
<1>4. n \in P
  BY <1>1, <1>2, <1>3, Induction
<1> QED  BY <1>4 DEF P

Read(q, t) == FoldLeft(Decoded, q, t)

LEMMA DecodeFold ==
    ASSUME NEW t, NEW n \in Nat, DOMAIN t = 1..n, NEW q
    PROVE  \E f : /\ f[0] = q
                  /\ \A k \in 0..(n - 1) : f[k + 1] = Decoded(f[k], t[k + 1])
                  /\ Read(q, t) = f[n]
<1> DEFINE D == SUBSET (1..n)
           Step(it) == [x \in D |-> IF x = {} THEN q
                                    ELSE Decoded(it[x \ {Max(x)}], t[Max(x)])]
           iter == CHOOSE it : it = Step(it)
           f == [k \in 0..n |-> iter[1..k]]
<1>1. Read(q, t) = iter[1..n]
  BY Zenon DEF Read, FoldLeft, MapThenFoldSet
<1>2. iter = Step(iter)
  <2>1. PICK it : Unrolls(it, n, q, t)
    BY DecodeSteps
  <2>2. it = Step(it)
    BY <2>1 DEF Unrolls
  <2> HIDE DEF Step
  <2> QED  BY <2>2
<1> HIDE DEF iter
<1>3. f[0] = q
  <2>1. 1..0 = {} /\ {} \in D /\ 0 \in 0..n
    OBVIOUS
  <2>2. iter[{}] = q
    BY <1>2, <2>1
  <2> QED  BY <2>1, <2>2
<1>4. ASSUME NEW k \in 0..(n - 1) PROVE f[k + 1] = Decoded(f[k], t[k + 1])
  <2> DEFINE x == 1..(k + 1)
  <2>1. /\ x \in D /\ x # {} /\ k + 1 \in x /\ k + 1 \in 1..n /\ k \in Nat
        /\ k \in 0..n /\ k + 1 \in 0..n
    OBVIOUS
  <2>2. Max(x) = k + 1
    <3>1. x \in SUBSET (1..(k + 1))
      OBVIOUS
    <3> HIDE DEF x
    <3> QED  BY <2>1, <3>1, LastPlace
  <2>3. x \ {k + 1} = 1..k
    OBVIOUS
  <2> HIDE DEF x
  <2>4. iter[x] = Decoded(iter[x \ {Max(x)}], t[Max(x)])
    BY <1>2, <2>1
  <2>5. iter[x] = Decoded(iter[1..k], t[k + 1])
    BY <2>2, <2>3, <2>4
  <2> QED  BY <2>1, <2>5 DEF x
<1>5. f[n] = iter[1..n]
  OBVIOUS
<1> HIDE DEF f
<1>6. Read(q, t) = f[n]
  BY <1>1, <1>5, Zenon
<1> QED  BY <1>3, <1>4, <1>6

-----------------------------------------------------------------------------
(* A burst, pulse by pulse, from wherever the decoder is.                  *)

\* Where a burst takes a decoder: r is the decoder when a gap and then k
\* pulses of the code f came.
OnCourse(r, k, f) ==
    /\ k = 0 => r.state = "AGC_EXPECT"
    /\ k = 1 => r.state = "AGC_GOES"
    /\ k >= 2 => r.len \in 0..Bits /\ \A i \in 0..(r.len - 1) : r.data[i] = f[i]
    /\ \A i \in 0..Bits : k = 2 * i + 2 =>
           r.len = i /\ r.state = IF i = Bits THEN "EOP_EXPECT" ELSE "LOGICAL_EXPECT"
    /\ \A i \in Pos : k = 2 * i + 3 => r.len = i /\ r.state = "LOGICAL_GOES"
    /\ k = Longest => r.ready /\ r.len = Bits

LEMMA Parts ==
    ASSUME NEW k \in 0..(Longest - 1)
    PROVE  \/ k = 0 \/ k = 1
           \/ \E i \in 0..Bits : k = 2 * i + 2
           \/ \E i \in Pos : k = 2 * i + 3
<1>1. Bits \in Nat /\ Longest = 2 * Bits + 3 /\ k \in Nat
  BY Sizes DEF Longest
<1>2. CASE k >= 2 /\ k % 2 = 0
  <2>1. (k - 2) \div 2 \in 0..Bits /\ k = 2 * ((k - 2) \div 2) + 2
    BY <1>1, <1>2
  <2> QED  BY <2>1
<1>3. CASE k >= 2 /\ k % 2 = 1
  <2>1. (k - 3) \div 2 \in Pos /\ k = 2 * ((k - 3) \div 2) + 3
    BY <1>1, <1>3 DEF Pos
  <2> QED  BY <2>1
<1>4. k = 0 \/ k = 1 \/ (k >= 2 /\ k % 2 = 0) \/ (k >= 2 /\ k % 2 = 1)
  BY <1>1
<1> QED  BY <1>2, <1>3, <1>4

\* A pulse that has just its nominal length is taken for what it is.
LEMMA Exact ==
    ASSUME NEW u \in {AGC_MARK, AGC_SPACE, LOGICAL_MARK, Space(0), Space(1)}
    PROVE  u \in Int /\ match(u, u) /\ ~(u > UNCERTAIN_PULSE_TIME)
  BY DEF match, AGC_MARK, AGC_SPACE, LOGICAL_MARK, Space, LOGIC_B0_SPACE, LOGIC_B1_SPACE,
         UNCERTAIN_PULSE_TIME, ACCEPTABLE_BIAS

LEMMA CourseGoesOn ==
    ASSUME NEW f \in Code, NEW r \in Reader, Sound(r), NEW k \in 0..(Longest - 1),
           OnCourse(r, k, f)
    PROVE  OnCourse(Decoded(r, Frame(f)[k + 1]), k + 1, f)
<1> DEFINE usec == Frame(f)[k + 1]
           d == Decoded(r, usec)
<1>1. Bits \in Nat \ {0} /\ Longest = 2 * Bits + 3 /\ k \in Nat
  BY Sizes DEF Longest
<1>2. usec \in {AGC_MARK, AGC_SPACE, LOGICAL_MARK, Space(0), Space(1)}
  <2>1. k + 1 \in 1..Longest
    BY <1>1
  <2> QED  BY <2>1, CodePulses
<1>3. usec \in Int /\ match(usec, usec) /\ ~(usec > UNCERTAIN_PULSE_TIME)
  BY <1>2, Exact
<1>4. CASE k = 0
  <2>1. usec = AGC_MARK
    <3>1. k + 1 = 1 /\ 1 \in 1..Longest
      BY <1>1, <1>4
    <3> QED  BY <3>1, CodePulses
  <2>2. r.state = "AGC_EXPECT"
    BY <1>4 DEF OnCourse
  <2> HIDE DEF usec
  <2>3. d.state = "AGC_GOES"
    BY <1>3, <2>1, <2>2, OnAgcMark
  <2>4. k + 1 = 1 /\ ~(k + 1 >= 2) /\ k + 1 # Longest
        /\ (\A i \in 0..Bits : k + 1 # 2 * i + 2) /\ (\A i \in Pos : k + 1 # 2 * i + 3)
    BY <1>1, <1>4 DEF Pos
  <2> HIDE DEF d
  <2> QED  BY <2>3, <2>4 DEF OnCourse, d, usec
<1>5. CASE k = 1
  <2>1. usec = AGC_SPACE
    <3>1. k + 1 = 2
      BY <1>5
    <3> QED  BY <3>1, CodePulses
  <2>2. r.state = "AGC_GOES"
    BY <1>5 DEF OnCourse
  <2> HIDE DEF usec
  <2>3. d.state = "LOGICAL_EXPECT" /\ d.len = 0
    BY <1>3, <2>1, <2>2, OnAgcSpace
  <2>4. k + 1 # 0 /\ k + 1 # 1 /\ k + 1 # Longest /\ 0 \in 0..Bits /\ 0 # Bits
        /\ (\A i \in 0..Bits : k + 1 = 2 * i + 2 => i = 0) /\ (\A i \in Pos : k + 1 # 2 * i + 3)
    BY <1>1, <1>5 DEF Pos
  <2>5. \A i \in 0..(0 - 1) : FALSE
    OBVIOUS
  <2> HIDE DEF d
  <2> QED  BY <2>3, <2>4, <2>5 DEF OnCourse, d, usec
<1>6. ASSUME NEW i \in 0..Bits, k = 2 * i + 2 PROVE OnCourse(d, k + 1, f)
  <2>1. usec = LOGICAL_MARK
    <3>1. k + 1 = 2 * i + 3
      BY <1>1, <1>6
    <3> QED  BY <3>1, CodePulses
  <2>2. r.len = i /\ r.state = IF i = Bits THEN "EOP_EXPECT" ELSE "LOGICAL_EXPECT"
    BY <1>6 DEF OnCourse
  <2>3. r.len \in 0..Bits /\ \A m \in 0..(r.len - 1) : r.data[m] = f[m]
    <3>1. k >= 2
      BY <1>1, <1>6
    <3> QED  BY <3>1 DEF OnCourse
  <2>4. k + 1 # 0 /\ k + 1 # 1 /\ k + 1 >= 2
        /\ (\A m \in 0..Bits : k + 1 # 2 * m + 2) /\ (\A m \in Pos : k + 1 = 2 * m + 3 => m = i)
        /\ (i = Bits <=> k + 1 = Longest) /\ (i \in Pos <=> i # Bits)
    BY <1>1, <1>6 DEF Pos
  <2> HIDE DEF usec
  <2>5. CASE i = Bits
    <3>1. d.len = Bits /\ d.data = r.data /\ d.ready
      BY <1>3, <2>1, <2>2, <2>5, OnEnd
    <3> HIDE DEF d
    <3>2. d.len \in 0..Bits /\ \A m \in 0..(d.len - 1) : d.data[m] = f[m]
      BY <2>2, <2>3, <2>5, <3>1
    <3>3. \A m \in Pos : k + 1 # 2 * m + 3
      BY <2>4, <2>5
    <3> QED  BY <2>4, <3>1, <3>2, <3>3 DEF OnCourse
  <2>6. CASE i # Bits
    <3>1. d.state = "LOGICAL_GOES" /\ d.data = r.data /\ d.len = i
      BY <1>3, <2>1, <2>2, <2>3, <2>6, OnMark
    <3> HIDE DEF d
    <3>2. d.len \in 0..Bits /\ \A m \in 0..(d.len - 1) : d.data[m] = f[m]
      BY <2>2, <2>3, <3>1
    <3> QED  BY <2>4, <2>6, <3>1, <3>2 DEF OnCourse
  <2> QED  BY <2>5, <2>6
<1>7. ASSUME NEW i \in Pos, k = 2 * i + 3 PROVE OnCourse(d, k + 1, f)
  <2> DEFINE b == f[i]
  <2>1. usec = Space(b)
    <3>1. k + 1 = 2 * i + 4
      BY <1>1, <1>7 DEF Pos
    <3> QED  BY <3>1, CodePulses
  <2>2. r.len = i /\ r.state = "LOGICAL_GOES"
    BY <1>7 DEF OnCourse
  <2>3. \A m \in 0..(r.len - 1) : r.data[m] = f[m]
    <3>1. k >= 2
      BY <1>1, <1>7 DEF Pos
    <3> QED  BY <3>1 DEF OnCourse
  <2>4. k + 1 # 0 /\ k + 1 # 1 /\ k + 1 >= 2 /\ k + 1 # Longest /\ i + 1 \in 0..Bits
        /\ (\A m \in 0..Bits : k + 1 = 2 * m + 2 => m = i + 1) /\ (\A m \in Pos : k + 1 # 2 * m + 3)
        /\ i < Bits /\ i \in Nat
    BY <1>1, <1>7 DEF Pos
  <2>5. b \in 0..1
    BY DEF Code
  <2> HIDE DEF usec, b
  <2>6. /\ d.len = r.len + 1
        /\ d.state = IF r.len + 1 = Bits THEN "EOP_EXPECT" ELSE "LOGICAL_EXPECT"
        /\ \A m \in Pos : d.data[m] = IF m = r.len THEN b ELSE r.data[m]
    BY <1>3, <2>1, <2>2, <2>4, <2>5, OnBit, ZenonT(40)
  <2> HIDE DEF d
  <2>7. \A m \in 0..i : d.data[m] = f[m]
    <3> TAKE m \in 0..i
    <3>1. m \in Pos /\ (m # i => m \in 0..(i - 1))
      BY <1>1, <2>4 DEF Pos
    <3> QED  BY <2>2, <2>3, <2>6, <3>1 DEF b
  <2>8. (i + 1) - 1 = i
    BY <2>4
  <2> QED  BY <2>2, <2>4, <2>6, <2>7, <2>8 DEF OnCourse
<1>8. OnCourse(d, k + 1, f)
  BY <1>4, <1>5, <1>6, <1>7, Parts
<1> QED  BY <1>8

\* (A name that the provers leave alone.)
Joint(a, b) == a \o b

LEMMA JointFacts ==
    ASSUME NEW S, NEW a \in Seq(S), NEW b \in Seq(S)
    PROVE  /\ Joint(a, b) \in Seq(S)
           /\ Len(Joint(a, b)) = Len(a) + Len(b)
           /\ \A i \in 1..(Len(a) + Len(b)) :
                  Joint(a, b)[i] = IF i <= Len(a) THEN a[i] ELSE b[i - Len(a)]
  BY ConcatProperties DEF Joint

\* A gap and a burst.
LEMMA BurstTimes ==
    ASSUME NEW f \in Code
    PROVE  LET t == <<GAP>> \o Frame(f)
           IN  /\ DOMAIN t = 1..(Longest + 1) /\ t[1] = GAP
               /\ \A k \in 0..(Longest - 1) : t[(k + 1) + 1] = Frame(f)[k + 1]
<1> DEFINE S == {AGC_MARK, AGC_SPACE, LOGICAL_MARK, Space(0), Space(1), GAP}
           w == Frame(f)
           g == <<GAP>>
           t == Joint(g, w)
<1>1. Longest \in Nat
  BY Sizes DEF Longest
<1>2. w \in Seq(S) /\ Len(w) = Longest
  <2>1. Len(w) = Longest /\ \A n \in 1..Longest : w[n] \in S
    BY CodePulses
  <2>2. \E v : w = [n \in 1..Longest |-> v[n]]
    <3> DEFINE v == [n \in 1..Longest |->
                       CASE n = 1     -> AGC_MARK
                         [] n = 2     -> AGC_SPACE
                         [] n % 2 = 1 /\ n # 1 -> LOGICAL_MARK
                         [] OTHER     -> IF f[n \div 2 - 2] = 1
                                         THEN LOGIC_B1_SPACE ELSE LOGIC_B0_SPACE]
    <3>1. w = v
      BY DEF Frame, Longest
    <3>2. v = [n \in 1..Longest |-> v[n]]
      OBVIOUS
    <3> HIDE DEF v
    <3> QED  BY <3>1, <3>2
  <2> HIDE DEF w, S
  <2>3. w \in [1..Longest -> S]
    BY <2>1, <2>2
  <2> QED  BY <1>1, <2>1, <2>3
<1>3. g \in Seq(S) /\ Len(g) = 1 /\ g[1] = GAP
  <2>1. GAP \in S
    OBVIOUS
  <2> HIDE DEF S
  <2> QED  BY <2>1
<1> HIDE DEF S, w, g
<1>4. /\ t \in Seq(S) /\ Len(t) = 1 + Longest
      /\ \A i \in 1..(1 + Longest) : t[i] = IF i <= 1 THEN g[i] ELSE w[i - 1]
  <2>1. /\ t \in Seq(S) /\ Len(t) = Len(g) + Len(w)
        /\ \A i \in 1..(Len(g) + Len(w)) : t[i] = IF i <= Len(g) THEN g[i] ELSE w[i - Len(g)]
    BY <1>2, <1>3, JointFacts
  <2> HIDE DEF t
  <2> QED  BY <1>2, <1>3, <2>1
<1>5. DOMAIN t = 1..(Longest + 1)
  <2>1. 1 + Longest = Longest + 1
    BY <1>1
  <2> HIDE DEF t
  <2> QED  BY <1>4, <2>1
<1> HIDE DEF t
<1>6. t[1] = GAP
  <2>1. 1 \in 1..(1 + Longest)
    BY <1>1
  <2> QED  BY <1>3, <1>4, <2>1
<1>7. ASSUME NEW k \in 0..(Longest - 1) PROVE t[(k + 1) + 1] = w[k + 1]
  <2>1. (k + 1) + 1 \in 1..(1 + Longest) /\ ~((k + 1) + 1 <= 1) /\ ((k + 1) + 1) - 1 = k + 1
    BY <1>1
  <2> QED  BY <1>4, <2>1
<1> QED  BY <1>5, <1>6, <1>7 DEF t, w, g, Joint

\* Whatever a decoder was doing, a gap and a burst give it the code.
LEMMA BurstTaken ==
    ASSUME NEW r \in Reader, Sound(r), NEW f \in Code
    PROVE  LET d == Read(r, <<GAP>> \o Frame(f))
           IN  d.ready /\ d.len = Bits /\ d.data = f
<1> DEFINE t == <<GAP>> \o Frame(f)
           n == Longest + 1
<1>1. Longest \in Nat /\ Longest >= 2 /\ n \in Nat
  BY Sizes DEF Longest
<1>2. /\ DOMAIN t = 1..n /\ t[1] = GAP
      /\ \A k \in 0..(Longest - 1) : t[(k + 1) + 1] = Frame(f)[k + 1]
  BY BurstTimes
<1> HIDE DEF t
<1>3. PICK g : /\ g[0] = r
               /\ \A k \in 0..(n - 1) : g[k + 1] = Decoded(g[k], t[k + 1])
               /\ Read(r, t) = g[n]
  <2> HIDE DEF n
  <2> QED  BY <1>1, <1>2, DecodeFold
<1> DEFINE Right(k) == /\ g[k + 1] \in Reader /\ Sound(g[k + 1])
                       /\ OnCourse(g[k + 1], k, f)
           P == {k \in Nat : k <= Longest => Right(k)}
<1>4. 0 \in P
  <2>1. g[1] = Decoded(r, GAP)
    <3>1. 0 \in 0..(n - 1) /\ 0 + 1 = 1
      BY <1>1
    <3>2. g[0 + 1] = Decoded(g[0], t[0 + 1])
      BY <1>3, <3>1
    <3> QED  BY <1>2, <1>3, <3>1, <3>2
  <2>2. GAP \in Int /\ GAP > UNCERTAIN_PULSE_TIME
    BY Times
  <2>3. Decoded(r, GAP) \in Reader /\ Sound(Decoded(r, GAP))
    BY <2>2, EdgeSound
  <2>4. Decoded(r, GAP).state = "AGC_EXPECT"
    BY <2>2, OnGap
  <2>5. (\A i \in 0..Bits : 0 # 2 * i + 2) /\ (\A i \in Pos : 0 # 2 * i + 3) /\ 0 # Longest
    BY <1>1, Sizes DEF Pos
  <2>6. OnCourse(g[1], 0, f)
    BY <2>1, <2>4, <2>5 DEF OnCourse
  <2>7. Right(0)
    BY <2>1, <2>3, <2>6
  <2> HIDE DEF Right
  <2> QED  BY <2>7
<1>5. ASSUME NEW k \in P PROVE k + 1 \in P
  <2>1. k \in Nat
    OBVIOUS
  <2> SUFFICES ASSUME k + 1 <= Longest PROVE Right(k + 1)
    BY <2>1
  <2>2. Right(k) /\ k \in 0..(Longest - 1) /\ k + 1 \in 0..(n - 1)
    BY <1>1, <2>1
  <2> DEFINE q == g[k + 1]
             d == g[(k + 1) + 1]
             usec == Frame(f)[k + 1]
  <2>3. d = Decoded(q, usec)
    BY <1>2, <1>3, <2>2
  <2>4. q \in Reader /\ Sound(q) /\ OnCourse(q, k, f)
    BY <2>2
  <2>5. usec \in Int
    <3>1. k + 1 \in 1..Longest
      BY <1>1, <2>1
    <3>2. usec \in {AGC_MARK, AGC_SPACE, LOGICAL_MARK, Space(0), Space(1)}
      BY <3>1, CodePulses
    <3> QED  BY <3>2, Exact
  <2> HIDE DEF q, d
  <2>6. OnCourse(d, k + 1, f)
    BY <2>2, <2>3, <2>4, CourseGoesOn
  <2> HIDE DEF usec
  <2>7. d \in Reader /\ Sound(d)
    BY <2>3, <2>4, <2>5, EdgeSound
  <2> QED  BY <2>6, <2>7 DEF d
<1>6. Longest \in P
  <2>1. P \in SUBSET Nat
    OBVIOUS
  <2> HIDE DEF P
  <2> QED  BY <1>1, <1>4, <1>5, <2>1, Induction
<1>7. Right(Longest)
  BY <1>1, <1>6
<1> DEFINE d == g[n]
<1>8. d \in Reader /\ OnCourse(d, Longest, f)
  BY <1>7
<1> HIDE DEF d
<1>9. d.ready /\ d.len = Bits /\ \A i \in 0..(d.len - 1) : d.data[i] = f[i]
  BY <1>1, <1>8 DEF OnCourse
<1>10. d.data = f
  <2>1. d.data \in [Pos -> 0..1] /\ f \in [Pos -> 0..1]
    BY <1>8, Fields DEF Code
  <2>2. \A i \in Pos : d.data[i] = f[i]
    BY <1>9 DEF Pos
  <2> QED  BY <2>1, <2>2
<1> QED  BY <1>3, <1>9, <1>10 DEF d, t

LEMMA Recovery == IInv => Recovers
<1> SUFFICES ASSUME IInv, NEW p \in Bound, NEW f \in Code
             PROVE  LET d == Read(pin_reader[p], <<GAP>> \o Frame(f))
                    IN  d.ready /\ d.len = Bits /\ d.data = f
  BY Zenon DEF Recovers, Read
<1>1. pin_reader[p] \in Reader /\ Sound(pin_reader[p])
  BY DEF IInv, Follows
<1> QED  BY <1>1, BurstTaken

\* Whatever edges came before, and whatever is left of an old code in a
\* reader, a gap and one undisturbed burst make the code of that burst ready.
THEOREM ReadersRecover == Spec => []Recovers
<1> QED  BY Invariance, Recovery, PTL
=============================================================================
