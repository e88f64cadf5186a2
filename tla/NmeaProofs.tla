----------------------------- MODULE NmeaProofs -----------------------------
(***************************************************************************)
(* Proofs about Nmea, for buffers of every size, any sentences and any     *)
(* characters on the line: its types, that no buffer is overrun, and that  *)
(* what is taken out was a sentence of the receiver, and that the parser   *)
(* finds the next sentence whatever came before.                           *)
(***************************************************************************)
EXTENDS Nmea, FiniteSetTheorems, SequenceTheorems, TLAPS

-----------------------------------------------------------------------------
(* Characters.                                                             *)

LEMMA SummedDomain == DOMAIN Summed = 1..49
  BY DEF Summed

LEMMA Placed ==
    ASSUME NEW i \in 1..49, NEW c, Summed[i] = c
    PROVE  c \in DOMAIN Ascii
  BY SummedDomain DEF Ascii, ToSet

\* Every character that parse goes on with is one that it can sum.
LEMMA Characters ==
    /\ Number \subseteq DOMAIN Ascii
    /\ {"*", ",", "A", "C", "D", "E", "G", "M", "N", "P", "R", "S", "V", "W"} \subseteq DOMAIN Ascii
<1>1. Number \subseteq DOMAIN Ascii
  <2>1. "." \in DOMAIN Ascii /\ "0" \in DOMAIN Ascii /\ "1" \in DOMAIN Ascii /\ "2" \in DOMAIN Ascii
    <3>1. Summed[5] = "." /\ 5 \in 1..49
      BY DEF Summed
    <3>2. Summed[7] = "0" /\ 7 \in 1..49
      BY DEF Summed
    <3>3. Summed[8] = "1" /\ 8 \in 1..49
      BY DEF Summed
    <3>4. Summed[9] = "2" /\ 9 \in 1..49
      BY DEF Summed
    <3> QED  BY <3>1, <3>2, <3>3, <3>4, Placed
  <2>2. "3" \in DOMAIN Ascii /\ "4" \in DOMAIN Ascii /\ "5" \in DOMAIN Ascii /\ "6" \in DOMAIN Ascii
    <3>1. Summed[10] = "3" /\ 10 \in 1..49
      BY DEF Summed
    <3>2. Summed[11] = "4" /\ 11 \in 1..49
      BY DEF Summed
    <3>3. Summed[12] = "5" /\ 12 \in 1..49
      BY DEF Summed
    <3>4. Summed[13] = "6" /\ 13 \in 1..49
      BY DEF Summed
    <3> QED  BY <3>1, <3>2, <3>3, <3>4, Placed
  <2>3. "7" \in DOMAIN Ascii /\ "8" \in DOMAIN Ascii /\ "9" \in DOMAIN Ascii
    <3>1. Summed[14] = "7" /\ 14 \in 1..49
      BY DEF Summed
    <3>2. Summed[15] = "8" /\ 15 \in 1..49
      BY DEF Summed
    <3>3. Summed[16] = "9" /\ 16 \in 1..49
      BY DEF Summed
    <3> QED  BY <3>1, <3>2, <3>3, Placed
  <2> QED  BY <2>1, <2>2, <2>3 DEF Number, Digit
<1>2. {"*", ",", "A", "C", "D", "E", "G", "M", "N", "P", "R", "S", "V", "W"} \subseteq DOMAIN Ascii
  <2>1. "*" \in DOMAIN Ascii /\ "," \in DOMAIN Ascii /\ "A" \in DOMAIN Ascii /\ "C" \in DOMAIN Ascii /\ "D" \in DOMAIN Ascii
    <3>1. Summed[1] = "*" /\ 1 \in 1..49
      BY DEF Summed
    <3>2. Summed[3] = "," /\ 3 \in 1..49
      BY DEF Summed
    <3>3. Summed[24] = "A" /\ 24 \in 1..49
      BY DEF Summed
    <3>4. Summed[26] = "C" /\ 26 \in 1..49
      BY DEF Summed
    <3>5. Summed[27] = "D" /\ 27 \in 1..49
      BY DEF Summed
    <3> QED  BY <3>1, <3>2, <3>3, <3>4, <3>5, Placed
  <2>2. "E" \in DOMAIN Ascii /\ "G" \in DOMAIN Ascii /\ "M" \in DOMAIN Ascii /\ "N" \in DOMAIN Ascii /\ "P" \in DOMAIN Ascii
    <3>1. Summed[28] = "E" /\ 28 \in 1..49
      BY DEF Summed
    <3>2. Summed[30] = "G" /\ 30 \in 1..49
      BY DEF Summed
    <3>3. Summed[36] = "M" /\ 36 \in 1..49
      BY DEF Summed
    <3>4. Summed[37] = "N" /\ 37 \in 1..49
      BY DEF Summed
    <3>5. Summed[39] = "P" /\ 39 \in 1..49
      BY DEF Summed
    <3> QED  BY <3>1, <3>2, <3>3, <3>4, <3>5, Placed
  <2>3. "R" \in DOMAIN Ascii /\ "S" \in DOMAIN Ascii /\ "V" \in DOMAIN Ascii /\ "W" \in DOMAIN Ascii
    <3>1. Summed[41] = "R" /\ 41 \in 1..49
      BY DEF Summed
    <3>2. Summed[42] = "S" /\ 42 \in 1..49
      BY DEF Summed
    <3>3. Summed[45] = "V" /\ 45 \in 1..49
      BY DEF Summed
    <3>4. Summed[46] = "W" /\ 46 \in 1..49
      BY DEF Summed
    <3> QED  BY <3>1, <3>2, <3>3, <3>4, Placed
  <2> QED  BY <2>1, <2>2, <2>3
<1> QED  BY <1>1, <1>2

LEMMA ByteFacts ==
    /\ {} \in Byte
    /\ \A c \in DOMAIN Ascii : Ascii[c] \in Byte
    /\ \A c \in DOMAIN Hex : Hex[c] \in Byte
    /\ \A a, b \in Byte : Xor(a, b) \in Byte
    /\ \A a \in Byte, c \in DOMAIN Hex : WithDigit(a, c) \in Byte
<1>1. \A n : Bits(n) \in Byte
  BY DEF Bits, Byte
<1>2. \A c \in DOMAIN Ascii : Ascii[c] \in Byte
  BY <1>1 DEF Ascii
<1>3. \A c \in DOMAIN Hex : Hex[c] \in Byte
  BY <1>1 DEF Hex
<1>4. \A a, b \in Byte : Xor(a, b) \in Byte
  BY DEF Xor, Byte
<1>5. ASSUME NEW a \in Byte, NEW c \in DOMAIN Hex PROVE WithDigit(a, c) \in Byte
  <2>1. {b + 4 : b \in a \cap 0..3} \in Byte
    BY DEF Byte
  <2> QED  BY <1>3, <2>1 DEF WithDigit, Byte
<1> QED
  BY <1>2, <1>3, <1>4, <1>5 DEF Byte

-----------------------------------------------------------------------------
(* The states that fill a buffer.                                          *)

LEMMA FillDomain == DOMAIN Fills = {7} \cup 9..17
  BY DEF Fills

LEMMA EndStates ==
    /\ Ending = {7, 10, 12, 13, 14, 15, 17}
    /\ \A k \in DOMAIN Fills : k \in Ending \/ k \in {9, 11, 16}
  BY FillDomain DEF Ending

LEMMA FillFields == \A k \in DOMAIN Fills : Fills[k] \in Field
  BY DEF Fills, Field

LEMMA FillTwins ==
    Fills[9] = Fills[10] /\ Fills[11] = Fills[12] /\ Fills[16] = Fills[17]
  BY DEF Fills

LEMMA Accepted ==
    ASSUME NEW k \in DOMAIN Fills, NEW c \in Accepts[k]
    PROVE  c \in DOMAIN Ascii /\ c # "," /\ c # "*"
<1>1. Accepts[k] \in {{"N", "S"}, {"W", "E"}, Digit, Number}
  BY FillDomain DEF Accepts
<1>2. c \in Number \/ c \in {"N", "S", "W", "E"}
  BY <1>1 DEF Number
<1>3. c \in DOMAIN Ascii
  <2>1. {"N", "S", "W", "E"} \subseteq DOMAIN Ascii
    BY Characters
  <2> QED  BY <1>2, <2>1, Characters
<1>4. c # "," /\ c # "*"
  BY <1>2 DEF Number, Digit
<1> QED  BY <1>3, <1>4

\* No character, nor the terminator after it, is past the end of a buffer.
Fits(q) ==
    /\ \A f \in Field : Len(q.result[f]) < Size[f]
    /\ q.state \in DOMAIN Fills => Len(q.pbuff) < Size[Fills[q.state]]

Good(q) == q \in Parser /\ Fits(q)

LEMMA ParserFields ==
    ASSUME NEW q \in Parser
    PROVE  /\ q.state \in 0..21 /\ q.pbuff \in Seq(DOMAIN Ascii) /\ Len(q.pbuff) \in Nat
           /\ q.result \in [Field -> Seq(DOMAIN Ascii)] /\ q.gps \in BOOLEAN
           /\ q.checksum \in Byte /\ q.msgsum \in Byte
<1>1. q.pbuff \in Seq(DOMAIN Ascii)
  BY DEF Parser
<1> QED  BY <1>1 DEF Parser

\* Moving to a state that fills no buffer, or to one that starts on an empty
\* one, keeps what was written within its bounds.
LEMMA Enters ==
    ASSUME NEW q \in Parser, \A f \in Field : Len(q.result[f]) < Size[f],
           NEW k \in 0..21, k \in DOMAIN Fills => q.pbuff = <<>>
    PROVE  Good([q EXCEPT !.state = k])
<1> DEFINE m == [q EXCEPT !.state = k]
<1>1. m \in Parser
  BY DEF Parser
<1>2. m.state = k /\ m.pbuff = q.pbuff /\ m.result = q.result
  BY DEF Parser
<1> HIDE DEF m
<1>3. ASSUME k \in DOMAIN Fills PROVE Len(m.pbuff) < Size[Fills[k]]
  <2>1. Size[Fills[k]] \in Nat \ {0}
    BY <1>3, FillFields, NmeaConstants
  <2>2. m.pbuff = <<>>
    BY <1>2, <1>3
  <2> QED  BY <2>1, <2>2
<1> QED
  BY <1>1, <1>2, <1>3 DEF Good, Fits, m

LEMMA Resets ==
    ASSUME NEW q, Good(q)
    PROVE  Good(Reset(q))
<1>1. q \in Parser /\ \A f \in Field : Len(q.result[f]) < Size[f]
  BY DEF Good, Fits
<1>2. 0 \in 0..21 /\ 0 \notin DOMAIN Fills
  BY FillDomain
<1> QED  BY <1>1, <1>2, Enters DEF Reset

LEMMA Puts ==
    ASSUME NEW q, Good(q), q.state \in DOMAIN Fills, NEW c \in Accepts[q.state]
    PROVE  Good(Put(q, c)) /\ Put(q, c).state = q.state
<1> DEFINE s == Append(q.pbuff, c)
           m == [q EXCEPT !.pbuff = s]
<1>1. q \in Parser /\ c \in DOMAIN Ascii
  BY Accepted DEF Good
<1>2. s \in Seq(DOMAIN Ascii) /\ Len(s) = Len(q.pbuff) + 1 /\ Len(q.pbuff) \in Nat
  BY <1>1, ParserFields
<1>3. CASE Len(q.pbuff) + Spare(q.state) <= Size[Fills[q.state]]
  <2> HIDE DEF s
  <2>1. m \in Parser
    BY <1>1, <1>2 DEF Parser
  <2>2. m.state = q.state /\ m.pbuff = s /\ m.result = q.result
    BY <1>1 DEF Parser
  <2>3. Size[Fills[q.state]] \in Nat /\ Spare(q.state) \in {2, 3}
    BY FillFields, NmeaConstants DEF Spare
  <2>4. Len(s) < Size[Fills[q.state]]
    BY <1>2, <1>3, <2>3
  <2>5. Put(q, c) = m
    BY <1>3 DEF Put, s
  <2> HIDE DEF m
  <2> QED  BY <2>1, <2>2, <2>4, <2>5 DEF Good, Fits
<1>4. CASE ~(Len(q.pbuff) + Spare(q.state) <= Size[Fills[q.state]])
  BY <1>4 DEF Put
<1> QED  BY <1>3, <1>4

LEMMA Closes ==
    ASSUME NEW q, Good(q), q.state \in DOMAIN Fills, NEW k \in 0..21,
           \/ k = q.state + 1
           \/ k \notin DOMAIN Fills
    PROVE  Good(Closed(q, k))
<1>1. /\ q \in Parser /\ \A f \in Field : Len(q.result[f]) < Size[f]
      /\ Len(q.pbuff) < Size[Fills[q.state]] /\ Fills[q.state] \in Field
  BY FillFields DEF Good, Fits
<1>2. CASE q.state \in Ending
  <2> DEFINE f == Fills[q.state]
             x == [q.result EXCEPT ![f] = q.pbuff]
             m == [q EXCEPT !.result = x, !.pbuff = <<>>]
  <2>1. Closed(q, k) = [m EXCEPT !.state = k]
    <3>1. Closed(q, k) = [q EXCEPT !.result[Fills[q.state]] = q.pbuff, !.pbuff = <<>>, !.state = k]
      BY <1>2 DEF Closed
    <3>2. [q EXCEPT !.result[Fills[q.state]] = q.pbuff, !.pbuff = <<>>, !.state = k]
            = [m EXCEPT !.state = k]
      BY Zenon DEF m
    <3> QED  BY <3>1, <3>2
  <2>2. x \in [Field -> Seq(DOMAIN Ascii)] /\ \A g \in Field : Len(x[g]) < Size[g]
    <3>1. q.result \in [Field -> Seq(DOMAIN Ascii)] /\ q.pbuff \in Seq(DOMAIN Ascii)
      BY <1>1, ParserFields
    <3> QED  BY <1>1, <3>1
  <2> HIDE DEF x
  <2>3. m \in Parser
    <3>1. <<>> \in Seq(DOMAIN Ascii)
      OBVIOUS
    <3> QED  BY <1>1, <2>2, <3>1 DEF Parser
  <2>4. m.result = x /\ m.pbuff = <<>>
    BY <1>1 DEF Parser
  <2> HIDE DEF m
  <2> QED  BY <2>1, <2>2, <2>3, <2>4, Enters
<1>3. CASE q.state \notin Ending
  <2> DEFINE m == [q EXCEPT !.state = k]
  <2>1. Closed(q, k) = m
    BY <1>3 DEF Closed
  <2>2. m \in Parser
    BY <1>1 DEF Parser
  <2>3. m.state = k /\ m.pbuff = q.pbuff /\ m.result = q.result
    BY <1>1 DEF Parser
  <2>4. q.state \in {9, 11, 16}
    BY <1>3, EndStates
  <2>5. k \in DOMAIN Fills => Fills[k] = Fills[q.state]
    <3>1. k = q.state + 1 => Fills[k] = Fills[q.state]
      BY <2>4, FillTwins
    <3> QED  BY <3>1
  <2> HIDE DEF m
  <2> QED  BY <1>1, <2>1, <2>2, <2>3, <2>5 DEF Good, Fits
<1> QED  BY <1>2, <1>3

-----------------------------------------------------------------------------
(* One character.                                                          *)

\* What leaves the state and the buffers alone leaves a good parser good.
LEMMA Alike ==
    ASSUME NEW q, Good(q), NEW m \in Parser,
           m.state = q.state, m.pbuff = q.pbuff, m.result = q.result
    PROVE  Good(m)
  BY DEF Good, Fits

LEMMA ChecksumSet ==
    ASSUME NEW q, Good(q), NEW a \in Byte
    PROVE  Good([q EXCEPT !.checksum = a])
<1> DEFINE m == [q EXCEPT !.checksum = a]
<1>1. q \in Parser
  BY DEF Good
<1>2. m \in Parser
  BY <1>1 DEF Parser
<1>3. m.state = q.state /\ m.pbuff = q.pbuff /\ m.result = q.result
  BY <1>1 DEF Parser
<1> HIDE DEF m
<1> QED  BY <1>2, <1>3, Alike DEF m

LEMMA MsgsumSet ==
    ASSUME NEW q, Good(q), NEW a \in Byte
    PROVE  Good([q EXCEPT !.msgsum = a])
<1> DEFINE m == [q EXCEPT !.msgsum = a]
<1>1. q \in Parser
  BY DEF Good
<1>2. m \in Parser
  BY <1>1 DEF Parser
<1>3. m.state = q.state /\ m.pbuff = q.pbuff /\ m.result = q.result
  BY <1>1 DEF Parser
<1> HIDE DEF m
<1> QED  BY <1>2, <1>3, Alike DEF m

LEMMA GpsSet ==
    ASSUME NEW q, Good(q), NEW g \in BOOLEAN
    PROVE  Good([q EXCEPT !.gps = g])
<1> DEFINE m == [q EXCEPT !.gps = g]
<1>1. q \in Parser
  BY DEF Good
<1>2. m \in Parser
  BY <1>1 DEF Parser
<1>3. m.state = q.state /\ m.pbuff = q.pbuff /\ m.result = q.result
  BY <1>1 DEF Parser
<1> HIDE DEF m
<1> QED  BY <1>2, <1>3, Alike DEF m

\* An emptied buffer has room.
LEMMA Empties ==
    ASSUME NEW q, Good(q), q.state \notin DOMAIN Fills
    PROVE  Good([q EXCEPT !.pbuff = <<>>]) /\ [q EXCEPT !.pbuff = <<>>].pbuff = <<>>
<1> DEFINE m == [q EXCEPT !.pbuff = <<>>]
<1>1. q \in Parser
  BY DEF Good
<1>2. m \in Parser
  <2>1. <<>> \in Seq(DOMAIN Ascii)
    OBVIOUS
  <2> QED  BY <1>1, <2>1 DEF Parser
<1>3. m.state = q.state /\ m.pbuff = <<>> /\ m.result = q.result
  BY <1>1 DEF Parser
<1> HIDE DEF m
<1> QED  BY <1>2, <1>3 DEF Good, Fits, m

\* Which branch of the switch is taken.
LEMMA Branches ==
    ASSUME NEW q, NEW c
    PROVE  /\ q.state \in 1..5 => Switch(q, c) = Expect(q, c = Name[q.state], q.state + 1)
           /\ q.state = 6 => Switch(q, c) = Expect([q EXCEPT !.pbuff = <<>>], c = ",", 7)
           /\ q.state \in DOMAIN Fills => Switch(q, c) = InField(q, c)
           /\ q.state = 18 => Switch(q, c) = Expect(q, c \in {"A", "D", "E", "N"}, 19)
           /\ q.state = 19 => Switch(q, c) = Expect(q, c = "*", 20)
<1> DEFINE k == q.state
<1>1. ASSUME k \in 1..5 PROVE Switch(q, c) = Expect(q, c = Name[q.state], q.state + 1)
  <2>1. k # 0 /\ k # 6 /\ k # 8 /\ k \notin DOMAIN Fills /\ k # 18 /\ k # 19 /\ k # 20 /\ k # 21
    BY <1>1, FillDomain
  <2> QED  BY <1>1, <2>1, Zenon DEF Switch
<1>2. ASSUME k = 6 PROVE Switch(q, c) = Expect([q EXCEPT !.pbuff = <<>>], c = ",", 7)
  <2>1. k # 0 /\ k \notin 1..5 /\ k # 8 /\ k \notin DOMAIN Fills /\ k # 18 /\ k # 19 /\ k # 20 /\ k # 21
    BY <1>2, FillDomain
  <2> QED  BY <1>2, <2>1, Zenon DEF Switch
<1>3. ASSUME k \in DOMAIN Fills PROVE Switch(q, c) = InField(q, c)
  <2>1. k # 0 /\ k \notin 1..5 /\ k # 6 /\ k # 8 /\ k # 18 /\ k # 19 /\ k # 20 /\ k # 21
    BY <1>3, FillDomain
  <2> QED  BY <1>3, <2>1, Zenon DEF Switch
<1>4. ASSUME k = 18 PROVE Switch(q, c) = Expect(q, c \in {"A", "D", "E", "N"}, 19)
  <2>1. k # 0 /\ k \notin 1..5 /\ k # 6 /\ k # 8 /\ k \notin DOMAIN Fills /\ k # 19 /\ k # 20 /\ k # 21
    BY <1>4, FillDomain
  <2> QED  BY <1>4, <2>1, Zenon DEF Switch
<1>5. ASSUME k = 19 PROVE Switch(q, c) = Expect(q, c = "*", 20)
  <2>1. k # 0 /\ k \notin 1..5 /\ k # 6 /\ k # 8 /\ k \notin DOMAIN Fills /\ k # 18 /\ k # 20 /\ k # 21
    BY <1>5, FillDomain
  <2> QED  BY <1>5, <2>1, Zenon DEF Switch
<1> QED  BY <1>1, <1>2, <1>3, <1>4, <1>5, Zenon

LEMMA SwitchGood ==
    ASSUME NEW q, Good(q), NEW c
    PROVE  Good(Switch(q, c))
<1>1. q \in Parser /\ q.state \in 0..21
  BY ParserFields DEF Good
<1>2. CASE q.state = 0
  <2>1. {} \in Byte
    BY ByteFacts
  <2> DEFINE l == [q EXCEPT !.checksum = {}]
             m == [l EXCEPT !.msgsum = {}]
  <2>6. Good(l)
    BY <2>1, ChecksumSet
  <2>3. [q EXCEPT !.state = 1, !.checksum = {}, !.msgsum = {}] = [m EXCEPT !.state = 1]
    BY Zenon, <1>1 DEF Parser
  <2> HIDE DEF l
  <2>2. Good(m)
    BY <2>1, <2>6, MsgsumSet
  <2> HIDE DEF m
  <2>4. Good([m EXCEPT !.state = 1])
    <3>1. 1 \in 0..21 /\ 1 \notin DOMAIN Fills
      BY FillDomain
    <3> QED  BY <2>2, <3>1, Enters DEF Good, Fits
  <2>5. Switch(q, c) = IF c = "$" THEN [m EXCEPT !.state = 1] ELSE q
    BY <1>2, <2>3, FillDomain DEF Switch, Outside
  <2> QED  BY <2>4, <2>5
<1>3. CASE q.state \in 1..5
  <2>1. Switch(q, c) = [q EXCEPT !.state = q.state + 1] \/ Switch(q, c) = Reset(q)
    BY <1>3, Branches DEF Expect
  <2>2. q.state + 1 \in 0..21 /\ q.state + 1 \notin DOMAIN Fills
    BY <1>3, FillDomain
  <2> QED  BY <1>1, <2>1, <2>2, Enters, Resets DEF Good, Fits
<1>4. CASE q.state = 6
  <2> DEFINE m == [q EXCEPT !.pbuff = <<>>]
  <2>1. Switch(q, c) = [m EXCEPT !.state = 7] \/ Switch(q, c) = Reset(m)
    BY <1>4, FillDomain DEF Switch, Expect
  <2>2. Good(m) /\ m.pbuff = <<>>
    BY <1>4, FillDomain, Empties
  <2> HIDE DEF m
  <2>3. 7 \in 0..21
    OBVIOUS
  <2>4. m \in Parser /\ \A f \in Field : Len(m.result[f]) < Size[f]
    BY <2>2 DEF Good, Fits
  <2> QED  BY <2>1, <2>2, <2>3, <2>4, Enters, Resets
<1>5. CASE q.state = 8
  <2>1. Switch(q, c) = InStatus(q, c)
    BY <1>5, FillDomain DEF Switch
  <2> DEFINE m == [q EXCEPT !.pbuff = <<>>]
  <2>2. Good(m) /\ m.pbuff = <<>>
    BY <1>5, FillDomain, Empties
  <2>3. [q EXCEPT !.pbuff = <<>>, !.state = 9] = [m EXCEPT !.state = 9]
    BY Zenon, <1>1 DEF Parser
  <2> HIDE DEF m
  <2>4. Good([m EXCEPT !.state = 9])
    <3>1. 9 \in 0..21 /\ m \in Parser /\ \A f \in Field : Len(m.result[f]) < Size[f]
      BY <2>2 DEF Good, Fits
    <3> QED  BY <2>2, <3>1, Enters
  <2>5. Good([q EXCEPT !.gps = (c = "A")])
    <3>1. (c = "A") \in BOOLEAN
      OBVIOUS
    <3> DEFINE g == (c = "A")
    <3> HIDE DEF g
    <3>2. g \in BOOLEAN
      BY <3>1 DEF g
    <3>3. Good([q EXCEPT !.gps = g])
      BY <3>2, GpsSet
    <3> QED  BY <3>3 DEF g
  <2> QED  BY <2>1, <2>3, <2>4, <2>5, Resets, ZenonT(40) DEF InStatus
<1>6. CASE q.state \in DOMAIN Fills
  <2>1. Switch(q, c) = InField(q, c)
    BY <1>6, Branches, ZenonT(40)
  <2>2. CASE c \in Accepts[q.state]
    <3>1. c # "," /\ c # "*"
      BY <1>6, <2>2, Accepted
    <3>2. InField(q, c) = Put(q, c)
      BY <2>2, <3>1 DEF InField
    <3> QED  BY <1>6, <2>1, <2>2, <3>2, Puts
  <2>3. CASE c \notin Accepts[q.state] /\ c = ","
    <3>1. InField(q, c) = Closed(q, q.state + 1)
      BY <2>3 DEF InField
    <3>2. q.state + 1 \in 0..21
      BY <1>6, FillDomain
    <3> QED  BY <1>6, <2>1, <3>1, <3>2, Closes
  <2>4. CASE c \notin Accepts[q.state] /\ c # "," /\ c = "*" /\ q.state = 17
    <3>1. InField(q, c) = Closed(q, 20)
      BY <2>4 DEF InField
    <3>2. 20 \in 0..21 /\ 20 \notin DOMAIN Fills
      BY FillDomain
    <3> QED  BY <1>6, <2>1, <3>1, <3>2, Closes
  <2>5. CASE c \notin Accepts[q.state] /\ c # "," /\ ~(c = "*" /\ q.state = 17)
    BY <2>1, <2>5, Resets DEF InField
  <2> QED  BY <2>2, <2>3, <2>4, <2>5
<1>7. CASE q.state = 18 \/ q.state = 19
  <2>1. Switch(q, c) = [q EXCEPT !.state = q.state + 1] \/ Switch(q, c) = Reset(q)
    <3>1. CASE q.state = 18
      <4>1. Switch(q, c) = [q EXCEPT !.state = 19] \/ Switch(q, c) = Reset(q)
        BY <3>1, Branches, Zenon DEF Expect
      <4>2. q.state + 1 = 19
        BY <3>1
      <4> QED  BY <4>1, <4>2, Zenon
    <3>2. CASE q.state = 19
      <4>1. Switch(q, c) = Expect(q, c = "*", 20)
        BY <3>2, Branches, Zenon
      <4>2. q.state + 1 = 20
        BY <3>2
      <4> QED  BY <4>1, <4>2, Zenon DEF Expect
    <3> QED  BY <1>7, <3>1, <3>2
  <2>2. q.state + 1 \in 0..21 /\ q.state + 1 \notin DOMAIN Fills
    BY <1>7, FillDomain
  <2> QED  BY <1>1, <2>1, <2>2, Enters, Resets DEF Good, Fits
<1>8. CASE q.state = 20
  <2>1. Switch(q, c) = InSum(q, c)
    BY <1>8, FillDomain DEF Switch
  <2>2. ASSUME c \in DOMAIN Hex PROVE Good([q EXCEPT !.msgsum = WithDigit(@, c)])
    <3> DEFINE a == WithDigit(q.msgsum, c)
    <3>1. a \in Byte
      BY <1>1, <2>2, ByteFacts, ParserFields
    <3> HIDE DEF a
    <3>2. Good([q EXCEPT !.msgsum = a])
      BY <3>1, MsgsumSet
    <3> QED  BY <3>2 DEF a
  <2>3. Good([q EXCEPT !.state = 21])
    <3>1. 21 \in 0..21 /\ 21 \notin DOMAIN Fills
      BY FillDomain
    <3> QED  BY <1>1, <3>1, Enters DEF Good, Fits
  <2> QED  BY <2>1, <2>2, <2>3, Resets DEF InSum
<1>9. CASE q.state = 21
  BY <1>9, FillDomain, Resets DEF Switch
<1> QED
  BY <1>1, <1>2, <1>3, <1>4, <1>5, <1>6, <1>7, <1>8, <1>9, FillDomain

\* A character that took the parser into a sentence, or further, can be summed.
LEMMA SwitchSums ==
    ASSUME NEW q \in Parser, NEW c, Switch(q, c).state \in 2..19
    PROVE  c \in DOMAIN Ascii
<1>1. q.state \in 0..21
  BY ParserFields
<1>2. Switch(q, c) # Reset(q)
  <2>1. Reset(q).state = 0
    BY DEF Reset, Parser
  <2> QED  BY <2>1
<1>3. CASE q.state = 0
  <2>1. Switch(q, c) = Outside(q, c)
    BY <1>3, FillDomain DEF Switch
  <2>2. Outside(q, c).state \in {0, 1}
    BY <1>3 DEF Outside, Parser
  <2> QED  BY <2>1, <2>2
<1>4. CASE q.state \in 1..5
  <2>1. c = Name[q.state] \/ Switch(q, c) = Reset(q)
    BY <1>4, Branches DEF Expect
  <2>2. c = Name[q.state]
    BY <1>2, <2>1
  <2>3. Name[q.state] \in {"G", "P", "R", "M", "C"}
    BY <1>4 DEF Name
  <2> QED  BY <2>2, <2>3, Characters
<1>5. CASE q.state = 6
  <2> DEFINE m == [q EXCEPT !.pbuff = <<>>]
  <2>1. c = "," \/ Switch(q, c) = Reset(m)
    BY <1>5, Branches, Zenon DEF Expect
  <2>2. Reset(m).state = 0
    BY DEF Reset, Parser
  <2> HIDE DEF m
  <2>3. Switch(q, c) # Reset(m)
    BY <2>2
  <2>4. c = "," /\ "," \in DOMAIN Ascii
    BY <2>1, <2>3, Characters
  <2> QED  BY <2>4, Zenon
<1>6. CASE q.state = 8
  <2>1. Switch(q, c) = InStatus(q, c)
    BY <1>6, FillDomain DEF Switch
  <2>2. c \in {"A", "V"} \/ c = "," \/ Switch(q, c) = Reset(q)
    BY <2>1 DEF InStatus
  <2>3. c \in {"A", "V", ","}
    BY <1>2, <2>2, Zenon
  <2> QED  BY <2>3, Characters
<1>7. CASE q.state \in DOMAIN Fills
  <2>1. Switch(q, c) = InField(q, c)
    BY <1>7, Branches, ZenonT(40)
  <2>2. c \in Accepts[q.state] \/ c \in {",", "*"}
    <3>1. c \in Accepts[q.state] \/ c \in {",", "*"} \/ Switch(q, c) = Reset(q)
      BY <2>1 DEF InField
    <3> QED  BY <1>2, <3>1, Zenon
  <2>3. "," \in DOMAIN Ascii /\ "*" \in DOMAIN Ascii
    BY Characters
  <2> QED  BY <1>7, <2>2, <2>3, Accepted
<1>8. CASE q.state = 18 \/ q.state = 19
  <2>1. c \in {"A", "D", "E", "N", "*"} \/ Switch(q, c) = Reset(q)
    BY <1>8, Branches, Zenon DEF Expect
  <2>2. c \in {"A", "D", "E", "N", "*"}
    BY <1>2, <2>1
  <2> QED  BY <2>2, Characters
<1>9. CASE q.state = 20
  <2>1. Switch(q, c) = InSum(q, c)
    BY <1>9, FillDomain DEF Switch
  <2>3. Reset(q).state = 0
    BY DEF Reset, Parser
  <2>2. InSum(q, c).state \in {0, 20, 21}
    <3>1. [q EXCEPT !.msgsum = WithDigit(@, c)].state = 20
      BY <1>9 DEF Parser
    <3>2. [q EXCEPT !.state = 21].state = 21
      BY DEF Parser
    <3> QED  BY <2>3, <3>1, <3>2 DEF InSum
  <2> QED  BY <2>1, <2>2
<1>10. CASE q.state = 21
  <2>1. Switch(q, c) = Reset(q)
    BY <1>10, FillDomain DEF Switch
  <2> QED  BY <1>2, <2>1
<1> QED
  BY <1>1, <1>3, <1>4, <1>5, <1>6, <1>7, <1>8, <1>9, <1>10, FillDomain

\* Whatever the line brings, parse keeps its buffers and its types.
LEMMA ParseGood ==
    ASSUME NEW q, Good(q), NEW c
    PROVE  Good(parse(q, c))
<1> DEFINE n == Switch(q, c)
<1>1. Good(n)
  BY SwitchGood
<1>2. CASE n.state \in 2..19
  <2>1. c \in DOMAIN Ascii
    BY <1>2, SwitchSums DEF Good
  <2> DEFINE a == Xor(n.checksum, Ascii[c])
  <2>2. a \in Byte
    <3>1. n.checksum \in Byte /\ Ascii[c] \in Byte
      BY <1>1, <2>1, ByteFacts, ParserFields DEF Good
    <3> QED  BY <3>1, ByteFacts
  <2>3. parse(q, c) = [n EXCEPT !.checksum = a]
    BY <1>2 DEF parse
  <2> HIDE DEF a, n
  <2>4. Good([n EXCEPT !.checksum = a])
    BY <1>1, <2>2, ChecksumSet
  <2> QED  BY <2>3, <2>4
<1>3. CASE n.state \notin 2..19
  BY <1>1, <1>3 DEF parse
<1> QED  BY <1>2, <1>3

-----------------------------------------------------------------------------
(* The receiver and the specification.                                     *)

LEMMA Joined ==
    ASSUME NEW S, NEW a \in Seq(S), NEW b \in Seq(S)
    PROVE  a \o b \in Seq(S)
  OBVIOUS

LEMMA Short ==
    ASSUME NEW S, NEW x \in S, NEW y \in S, NEW z \in S
    PROVE  <<x>> \in Seq(S) /\ <<x, y>> \in Seq(S) /\ <<x, y, z>> \in Seq(S)
  OBVIOUS

LEMMA Wider ==
    ASSUME NEW S, NEW T, S \subseteq T, NEW s \in Seq(S)
    PROVE  s \in Seq(T)
  OBVIOUS

LEMMA SentLength == ASSUME NEW s \in Sentence PROVE Len(Sent[s]) \in Nat
<1> DEFINE sum == FoldLeft(LAMBDA x, c : Xor(x, Ascii[c]), {}, Body(s))
           h == HexSum(sum)
           A == DOMAIN Ascii
           S == A \cup {h[1], h[2], "$", "\r", "\n"}
<1>1. s \in Reports
  BY NmeaConstants
<1>2. h \in Seq(S)
  <2>1. \E x, y : h = <<x, y>>
    BY DEF HexSum
  <2>2. PICK x, y : h = <<x, y>>
    BY <2>1
  <2> HIDE DEF h, A
  <2>3. x \in S /\ y \in S
    BY <2>2
  <2> HIDE DEF S
  <2>4. <<x, y>> \in Seq(S)
    BY <2>3
  <2> QED  BY <2>2, <2>4
<1>3. Number \subseteq A /\ Digit \subseteq A
  BY Characters DEF Number
<1>4. {",", "A", "D", "E", "G", "P", "R", "M", "C", "N", "S", "V", "W", "*"} \subseteq A
  BY Characters
<1>5. Sent[s] = <<"$">> \o Body(s) \o <<"*">> \o h \o <<"\r", "\n">>
  BY DEF Sent, h, sum
<1> HIDE DEF h, A, sum
<1>6. /\ s.time \in Seq(A) /\ s.lat \in Seq(A) /\ s.lon \in Seq(A)
      /\ s.spd \in Seq(A) /\ s.cmg \in Seq(A) /\ s.date \in Seq(A)
      /\ s.magn \in Seq(A)
  BY <1>1, <1>3, Wider DEF Reports
<1>7. s.status \in A /\ s.ns \in A /\ s.ew \in A /\ s.mew \in A /\ "," \in A
  BY <1>1, <1>4 DEF Reports
<1>8. s.mode \in Seq(A)
  <2>1. s.mode = <<>> \/ \E m \in {"A", "D", "E", "N"} : s.mode = <<",", m>>
    BY <1>1 DEF Reports
  <2>2. CASE s.mode = <<>>
    BY <2>2
  <2>3. CASE \E m \in {"A", "D", "E", "N"} : s.mode = <<",", m>>
    <3>1. PICK m \in A : s.mode = <<",", m>>
      BY <1>4, <2>3
    <3>2. <<",", m>> \in Seq(A)
      BY <1>7, Short
    <3> QED  BY <3>1, <3>2
  <2> QED  BY <2>1, <2>2, <2>3
<1>9. Body(s) \in Seq(A)
  <2>1. Name \in Seq(A) /\ <<",">> \in Seq(A)
    <3>1. <<",">> \in Seq(A)
      BY <1>7, Short
    <3>2. "G" \in A /\ "P" \in A /\ "R" \in A /\ "M" \in A /\ "C" \in A
      BY <1>4
    <3>3. <<"G", "P", "R">> \in Seq(A) /\ <<"M", "C">> \in Seq(A)
      BY <3>2, Short
    <3>4. Name = <<"G", "P", "R">> \o <<"M", "C">>
      BY DEF Name
    <3> QED  BY <3>1, <3>3, <3>4, Joined
  <2>2. /\ <<",", s.status, ",">> \in Seq(A) /\ <<",", s.ns, ",">> \in Seq(A)
        /\ <<",", s.ew, ",">> \in Seq(A) /\ <<",", s.mew>> \in Seq(A)
    BY <1>7, Short
  <2> QED  BY <1>6, <1>8, <2>1, <2>2, Joined DEF Body
<1>10. Body(s) \in Seq(S)
  <2>1. A \subseteq S
    OBVIOUS
  <2> HIDE DEF S
  <2> QED  BY <1>9, <2>1, Wider
<1>11. <<"$">> \in Seq(S) /\ <<"*">> \in Seq(S) /\ <<"\r", "\n">> \in Seq(S)
  <2>1. "$" \in S /\ "*" \in S /\ "\r" \in S /\ "\n" \in S
    BY <1>4
  <2> HIDE DEF S
  <2> QED  BY <2>1
<1>12. Sent[s] \in Seq(S)
  <2> HIDE DEF S
  <2> QED  BY <1>2, <1>5, <1>10, <1>11, Joined
<1> HIDE DEF S
<1> QED  BY <1>12

LEMMA TypesGood == TypeOK => Good(parser)
  BY DEF TypeOK, Good, Fits

LEMMA InitTypes == Init => TypeOK
<1> SUFFICES ASSUME Init PROVE TypeOK
  OBVIOUS
<1>1. Empty \in [Field -> Seq(DOMAIN Ascii)]
  <2>1. <<>> \in Seq(DOMAIN Ascii)
    OBVIOUS
  <2> QED  BY <2>1 DEF Empty
<1>2. parser \in Parser
  <2>1. <<>> \in Seq(DOMAIN Ascii) /\ {} \in Byte
    BY ByteFacts
  <2> QED  BY <1>1, <2>1 DEF Init, Parser
<1>3. parser.state = 0 /\ parser.result = Empty
  BY DEF Init
<1>4. \A f \in Field : Len(Empty[f]) < Size[f]
  <2> TAKE f \in Field
  <2>1. Empty[f] = <<>> /\ Size[f] \in Nat \ {0}
    BY NmeaConstants DEF Empty
  <2> QED  BY <2>1
<1>5. parser.state \notin DOMAIN Fills
  BY <1>3, FillDomain
<1>6. meant \in Sentence /\ at = 0 /\ Len(Sent[meant]) \in Nat
  BY SentLength DEF Init
<1>7. found \in BOOLEAN /\ tmp = Empty /\ spoilt = "nowhere" /\ heard = {}
  BY DEF Init
<1> QED
  BY <1>1, <1>2, <1>3, <1>4, <1>5, <1>6, <1>7 DEF TypeOK

\* A turn of the loop, for any character.
LEMMA FeedTypes ==
    ASSUME TypeOK, NEW c, Feed(c)
    PROVE  /\ Good(parser') /\ found' \in BOOLEAN
           /\ tmp' \in [Field -> Seq(DOMAIN Ascii)]
<1>1. Good(parser')
  <2>1. parser' = parse(parser, c)
    BY DEF Feed
  <2>2. Good(parse(parser, c))
    BY TypesGood, ParseGood
  <2> QED  BY <2>1, <2>2
<1>2. parser.result \in [Field -> Seq(DOMAIN Ascii)]
  BY ParserFields DEF TypeOK
<1>3. found' \in BOOLEAN
  BY DEF Feed, TypeOK, News
<1>4. tmp' = parser.result \/ tmp' = tmp
  BY DEF Feed
<1> QED
  BY <1>1, <1>2, <1>3, <1>4 DEF TypeOK

LEMMA NextTypes == TypeOK /\ [Next]_vars => TypeOK'
<1> SUFFICES ASSUME TypeOK, [Next]_vars PROVE TypeOK'
  OBVIOUS
<1>1. /\ found \in BOOLEAN /\ tmp \in [Field -> Seq(DOMAIN Ascii)] /\ meant \in Sentence
      /\ at \in 0..Len(Sent[meant]) /\ spoilt \in {"nowhere", "body", "frame"}
      /\ heard \subseteq Sentence /\ Good(parser) /\ Len(Sent[meant]) \in Nat
  BY TypesGood, SentLength DEF TypeOK
<1>2. ASSUME Good(parser'), found' \in BOOLEAN, tmp' \in [Field -> Seq(DOMAIN Ascii)],
             meant' \in Sentence, at' \in 0..Len(Sent[meant'])
             , spoilt' \in {"nowhere", "body", "frame"}, heard' \subseteq Sentence
      PROVE  TypeOK'
  BY <1>2 DEF TypeOK, Good, Fits
<1>3. Sending => at + 1 \in 0..Len(Sent[meant])
  BY <1>1 DEF Sending
<1>4. \A n : Place(n) \in {"nowhere", "body", "frame"}
  BY DEF Place
<1>5. CASE Arrive
  <2>1. /\ Feed(Sent[meant][at + 1]) /\ Sending /\ at' = at + 1 /\ meant' = meant
        /\ spoilt' = spoilt /\ (heard' = heard \cup {meant} \/ heard' = heard)
    BY <1>5 DEF Arrive
  <2>2. /\ Good(parser') /\ found' \in BOOLEAN /\ tmp' \in [Field -> Seq(DOMAIN Ascii)]
    BY <2>1, FeedTypes
  <2> QED  BY <1>1, <1>2, <1>3, <2>1, <2>2
<1>6. CASE Spoil
  <2>1. /\ Sending /\ at' = at + 1 /\ meant' = meant /\ heard' = heard
        /\ spoilt' = Place(at + 1)
        /\ \/ \E c \in Noise : Feed(c)
           \/ UNCHANGED <<parser, found, tmp>>
    BY <1>6 DEF Spoil
  <2>2. /\ Good(parser') /\ found' \in BOOLEAN /\ tmp' \in [Field -> Seq(DOMAIN Ascii)]
    <3>1. CASE \E c \in Noise : Feed(c)
      BY <3>1, FeedTypes
    <3>2. CASE UNCHANGED <<parser, found, tmp>>
      BY <1>1, <3>2
    <3> QED  BY <2>1, <3>1, <3>2
  <2> QED  BY <1>1, <1>2, <1>3, <1>4, <2>1, <2>2
<1>7. CASE Echo
  <2>1. /\ Feed(Sent[meant][at]) /\ spoilt' = Place(at) /\ UNCHANGED <<meant, at, heard>>
    BY <1>7 DEF Echo
  <2>2. /\ Good(parser') /\ found' \in BOOLEAN /\ tmp' \in [Field -> Seq(DOMAIN Ascii)]
    BY <2>1, FeedTypes
  <2> QED  BY <1>1, <1>2, <1>4, <2>1, <2>2
<1>8. CASE Begin
  <2>1. /\ meant' \in Sentence /\ at' = 0 /\ spoilt' = "nowhere"
        /\ UNCHANGED <<parser, found, tmp, heard>>
    BY <1>8 DEF Begin
  <2>2. at' \in 0..Len(Sent[meant'])
    BY <2>1, SentLength
  <2>3. Good(parser')
    BY <1>1, <2>1
  <2> QED  BY <1>1, <1>2, <2>1, <2>2, <2>3
<1>9. CASE Return
  <2>1. /\ found' = FALSE /\ tmp' = Empty /\ UNCHANGED <<parser, meant, at, spoilt, heard>>
    BY <1>9 DEF Return
  <2>2. Empty \in [Field -> Seq(DOMAIN Ascii)]
    <3>1. <<>> \in Seq(DOMAIN Ascii)
      OBVIOUS
    <3> QED  BY <3>1 DEF Empty
  <2>3. Good(parser')
    BY <1>1, <2>1
  <2> QED  BY <1>1, <1>2, <2>1, <2>2, <2>3
<1>10. CASE UNCHANGED vars
  BY <1>10 DEF TypeOK, vars
<1> QED
  BY <1>5, <1>6, <1>7, <1>8, <1>9, <1>10 DEF Next

\* Whatever the receiver sends and the line makes of it, wherever the calls of
\* nmea_parse cut the stream, parse stays in its states, and neither a
\* character nor the terminator after it is written past the end of a buffer.
THEOREM BuffersKept == Spec => []TypeOK
<1> QED  BY InitTypes, NextTypes, PTL DEF Spec

-----------------------------------------------------------------------------
(* Induction: a set of numbers that has one has a least one.               *)

LEMMA LeastNumber ==
    ASSUME NEW T \in SUBSET Nat, T # {}
    PROVE  \E x \in T : \A y \in T : x <= y
<1> DEFINE R == OpToRel(<, Nat)
<1>1. IsWellFoundedOn(R, Nat)
  BY NatLessThanWellFounded
<1>2. \A x, y \in Nat : x < y => <<x, y>> \in R
  BY DEF OpToRel
<1> HIDE DEF R
<1>3. \E x \in T : \A y \in T : ~(<<y, x>> \in R)
  BY <1>1, WFMin
<1>4. PICK x \in T : \A y \in T : ~(<<y, x>> \in R)
  BY <1>3
<1>5. \A y \in T : x \in Nat /\ y \in Nat /\ ~(y < x)
  BY <1>2, <1>4
<1> QED  BY <1>5

LEMMA Induction ==
    ASSUME NEW P \in SUBSET Nat, 0 \in P, \A n \in P : n + 1 \in P
    PROVE  \A n \in Nat : n \in P
<1> DEFINE T == Nat \ P
<1> SUFFICES ASSUME T # {} PROVE FALSE
  OBVIOUS
<1>1. T \in SUBSET Nat
  OBVIOUS
<1> HIDE DEF T
<1>2. PICK x \in T : \A y \in T : x <= y
  BY <1>1, LeastNumber
<1>3. x \in Nat /\ x \notin P /\ x # 0
  BY <1>2 DEF T
<1>4. x - 1 \in Nat /\ x - 1 \notin P
  BY <1>3
<1>5. x - 1 \in T
  BY <1>4 DEF T
<1> QED  BY <1>2, <1>3, <1>5

LEMMA LeastPlace ==
    ASSUME NEW T \in SUBSET Nat, T # {}
    PROVE  Min(T) \in T /\ \A y \in T : Min(T) <= y
<1>1. PICK x \in T : \A y \in T : x <= y
  BY LeastNumber
<1> QED  BY <1>1, Zenon DEF Min

LEMMA GreatestPlace ==
    ASSUME NEW n \in Nat, NEW T \in SUBSET (1..n), T # {}
    PROVE  Max(T) \in T /\ \A y \in T : Max(T) >= y
<1> DEFINE U == {k \in Nat : n - k \in T}
<1>1. U \in SUBSET Nat /\ U # {}
  <2>1. PICK y \in T : TRUE
    OBVIOUS
  <2>2. n - y \in Nat /\ n - (n - y) = y
    OBVIOUS
  <2>3. n - y \in U
    BY <2>2
  <2> QED  BY <2>3
<1>2. PICK x \in U : \A y \in U : x <= y
  BY <1>1, LeastNumber
<1>3. n - x \in T /\ x \in Nat
  BY <1>2
<1>4. ASSUME NEW y \in T PROVE n - x >= y
  <2>1. n - y \in Nat /\ n - (n - y) = y
    OBVIOUS
  <2>2. n - y \in U
    BY <2>1
  <2> QED  BY <1>2, <1>3, <2>1, <2>2
<1> DEFINE z == n - x
<1>5. z \in T /\ \A y \in T : z >= y
  BY <1>3, <1>4
<1> HIDE DEF z
<1> HIDE DEF U
<1> QED  BY <1>5, Zenon DEF Max

-----------------------------------------------------------------------------
(* Sums.                                                                   *)

\* The sum of the characters of t at some places: the bits that an odd number
\* of them has.
SumAt(I, t) == {b \in 0..7 : Cardinality({i \in I : b \in Ascii[t[i]]}) % 2 = 1}

\* The sum of the first n characters.
Parity(n, t) == SumAt(1..n, t)

LEMMA SumNone == \A t : SumAt({}, t) = {}
<1> TAKE t
<1>1. \A b : {i \in {} : b \in Ascii[t[i]]} = {}
  OBVIOUS
<1>2. Cardinality({}) = 0
  BY FS_EmptySet
<1> QED  BY <1>1, <1>2 DEF SumAt

LEMMA SumMore ==
    ASSUME NEW t, NEW I, IsFiniteSet(I), NEW x, x \notin I, Ascii[t[x]] \in Byte
    PROVE  SumAt(I \cup {x}, t) = Xor(SumAt(I, t), Ascii[t[x]])
<1> DEFINE J == I \cup {x}
           At(b, K) == {i \in K : b \in Ascii[t[i]]}
<1>1. ASSUME NEW b
      PROVE  /\ Cardinality(At(b, I)) \in Nat
             /\ Cardinality(At(b, J)) = IF b \in Ascii[t[x]] THEN Cardinality(At(b, I)) + 1
                                        ELSE Cardinality(At(b, I))
  <2>1. IsFiniteSet(At(b, I)) /\ x \notin At(b, I)
    <3>1. At(b, I) \in SUBSET I
      OBVIOUS
    <3> QED  BY <3>1, FS_Subset
  <2>2. At(b, J) = IF b \in Ascii[t[x]] THEN At(b, I) \cup {x} ELSE At(b, I)
    OBVIOUS
  <2>3. Cardinality(At(b, I)) \in Nat
    BY <2>1, FS_CardinalityType
  <2> HIDE DEF At
  <2>4. Cardinality(At(b, I) \cup {x}) = Cardinality(At(b, I)) + 1
    BY <2>1, FS_AddElement
  <2> QED  BY <2>2, <2>3, <2>4
<1>2. \A b : b \in SumAt(I, t) <=> b \in 0..7 /\ Cardinality(At(b, I)) % 2 = 1
  BY DEF SumAt
<1>3. \A b : b \in SumAt(J, t) <=> b \in 0..7 /\ Cardinality(At(b, J)) % 2 = 1
  BY DEF SumAt
<1>4. \A k \in Nat : (k + 1) % 2 = 1 <=> k % 2 # 1
  OBVIOUS
<1> HIDE DEF At, J
<1>5. ASSUME NEW b PROVE b \in SumAt(J, t) <=> b \in Xor(SumAt(I, t), Ascii[t[x]])
  <2>1. b \in Ascii[t[x]] => b \in 0..7
    BY DEF Byte
  <2>2. b \in Xor(SumAt(I, t), Ascii[t[x]])
          <=> (b \in SumAt(I, t) /\ b \notin Ascii[t[x]])
              \/ (b \in Ascii[t[x]] /\ b \notin SumAt(I, t))
    BY DEF Xor
  <2>3. CASE b \in Ascii[t[x]]
    BY <1>1, <1>2, <1>3, <1>4, <2>1, <2>2, <2>3
  <2>4. CASE b \notin Ascii[t[x]]
    BY <1>1, <1>2, <1>3, <2>2, <2>4
  <2> QED  BY <2>3, <2>4
<1> QED  BY <1>5 DEF J

LEMMA ParityNone == \A t : Parity(0, t) = {}
<1>1. 1..0 = {}
  OBVIOUS
<1> QED  BY <1>1, SumNone DEF Parity

LEMMA ParityNext ==
    ASSUME NEW t, NEW n \in Nat, Ascii[t[n + 1]] \in Byte
    PROVE  Parity(n + 1, t) = Xor(Parity(n, t), Ascii[t[n + 1]])
<1>1. 1..(n + 1) = 1..n \cup {n + 1} /\ n + 1 \notin 1..n
  OBVIOUS
<1>2. IsFiniteSet(1..n)
  BY FS_Interval
<1> QED  BY <1>1, <1>2, SumMore DEF Parity

LEMMA ParityByte == \A n, t : Parity(n, t) \in Byte
  BY DEF Parity, SumAt, Byte

\* What is summed by a fold, from left to right, is that sum.
LEMMA SumIsParity ==
    ASSUME NEW t, NEW n \in Nat, DOMAIN t = 1..n, \A i \in 1..n : Ascii[t[i]] \in Byte
    PROVE  FoldLeft(LAMBDA x, c : Xor(x, Ascii[c]), {}, t) = Parity(n, t)
<1> DEFINE D == SUBSET (1..n)
           Step(it) == [s \in D |-> IF s = {} THEN {}
                                    ELSE Xor(it[s \ {Max(s)}], Ascii[t[Max(s)]])]
           it0 == [s \in D |-> SumAt(s, t)]
           iter == CHOOSE it : it = Step(it)
<1>1. FoldLeft(LAMBDA x, c : Xor(x, Ascii[c]), {}, t) = iter[1..n]
  BY Zenon DEF FoldLeft, MapThenFoldSet
<1>2. it0 = Step(it0)
  <2> SUFFICES ASSUME NEW s \in D PROVE it0[s] = Step(it0)[s]
    OBVIOUS
  <2>1. CASE s = {}
    BY <2>1, SumNone
  <2>2. CASE s # {}
    <3> DEFINE m == Max(s)
               r == s \ {m}
    <3>1. m \in s /\ m \in 1..n
      BY <2>2, GreatestPlace
    <3> HIDE DEF m
    <3>2. r \in D /\ m \notin r /\ s = r \cup {m}
      BY <3>1
    <3>3. IsFiniteSet(r)
      <4>1. IsFiniteSet(1..n)
        BY FS_Interval
      <4> QED  BY <3>2, <4>1, FS_Subset
    <3> HIDE DEF r
    <3>4. SumAt(s, t) = Xor(SumAt(r, t), Ascii[t[m]])
      BY <3>1, <3>2, <3>3, SumMore
    <3> QED  BY <2>2, <3>2, <3>4 DEF m, r
  <2> QED  BY <2>1, <2>2
<1>3. iter = Step(iter)
  <2> HIDE DEF it0
  <2> QED  BY <1>2
<1> HIDE DEF iter
<1> DEFINE P == {k \in Nat : k <= n => iter[1..k] = Parity(k, t)}
<1>4. 0 \in P
  <2>1. 1..0 = {} /\ {} \in D
    OBVIOUS
  <2>2. iter[{}] = {}
    BY <1>3, <2>1
  <2> QED  BY <2>1, <2>2, ParityNone
<1>5. ASSUME NEW k \in P PROVE k + 1 \in P
  <2> SUFFICES ASSUME k + 1 <= n PROVE iter[1..(k + 1)] = Parity(k + 1, t)
    OBVIOUS
  <2>1. iter[1..k] = Parity(k, t) /\ k \in Nat
    OBVIOUS
  <2> DEFINE s == 1..(k + 1)
  <2>2. s \in D /\ s # {} /\ k + 1 \in s /\ k + 1 \in 1..n
    OBVIOUS
  <2>3. Max(s) = k + 1
    <3>1. Max(s) \in s /\ Max(s) >= k + 1
      BY <2>2, GreatestPlace
    <3> QED  BY <3>1
  <2>4. s \ {k + 1} = 1..k
    OBVIOUS
  <2> HIDE DEF s
  <2>5. iter[s] = Xor(iter[s \ {Max(s)}], Ascii[t[Max(s)]])
    BY <1>3, <2>2
  <2> QED  BY <2>1, <2>2, <2>3, <2>4, <2>5, ParityNext DEF s
<1>6. n \in P
  <2>1. P \in SUBSET Nat
    OBVIOUS
  <2> HIDE DEF P
  <2> QED  BY <1>4, <1>5, <2>1, Induction
<1>7. iter[1..n] = Parity(n, t)
  BY <1>6
<1> QED  BY <1>1, <1>7, Zenon

-----------------------------------------------------------------------------
(* Characters and the digits of a sum.                                     *)

LEMMA Powers ==
    /\ 2^0 = 1 /\ 2^1 = 2 /\ 2^2 = 4 /\ 2^3 = 8
    /\ 2^4 = 16 /\ 2^5 = 32 /\ 2^6 = 64 /\ 2^7 = 128
  OBVIOUS

LEMMA BitsOf ==
    ASSUME NEW n \in Nat
    PROVE  /\ 0 \in Bits(n) <=> n % 2 = 1
           /\ 1 \in Bits(n) <=> (n \div 2) % 2 = 1
           /\ 2 \in Bits(n) <=> (n \div 4) % 2 = 1
           /\ 3 \in Bits(n) <=> (n \div 8) % 2 = 1
           /\ 4 \in Bits(n) <=> (n \div 16) % 2 = 1
           /\ 5 \in Bits(n) <=> (n \div 32) % 2 = 1
           /\ 6 \in Bits(n) <=> (n \div 64) % 2 = 1
           /\ 7 \in Bits(n) <=> (n \div 128) % 2 = 1
<1>1. \A b \in 0..7 : b \in Bits(n) <=> (n \div 2^b) % 2 = 1
  BY DEF Bits
<1>2. n \div 1 = n
  OBVIOUS
<1>3. 0 \in Bits(n) <=> n % 2 = 1
  <2>1. 0 \in Bits(n) <=> (n \div 2^0) % 2 = 1
    BY <1>1
  <2> QED  BY <1>2, <2>1, Powers
<1>4. 1 \in Bits(n) <=> (n \div 2) % 2 = 1
  <2>1. 1 \in Bits(n) <=> (n \div 2^1) % 2 = 1
    BY <1>1
  <2> QED  BY <1>2, <2>1, Powers
<1>5. 2 \in Bits(n) <=> (n \div 4) % 2 = 1
  <2>1. 2 \in Bits(n) <=> (n \div 2^2) % 2 = 1
    BY <1>1
  <2> QED  BY <1>2, <2>1, Powers
<1>6. 3 \in Bits(n) <=> (n \div 8) % 2 = 1
  <2>1. 3 \in Bits(n) <=> (n \div 2^3) % 2 = 1
    BY <1>1
  <2> QED  BY <1>2, <2>1, Powers
<1>7. 4 \in Bits(n) <=> (n \div 16) % 2 = 1
  <2>1. 4 \in Bits(n) <=> (n \div 2^4) % 2 = 1
    BY <1>1
  <2> QED  BY <1>2, <2>1, Powers
<1>8. 5 \in Bits(n) <=> (n \div 32) % 2 = 1
  <2>1. 5 \in Bits(n) <=> (n \div 2^5) % 2 = 1
    BY <1>1
  <2> QED  BY <1>2, <2>1, Powers
<1>9. 6 \in Bits(n) <=> (n \div 64) % 2 = 1
  <2>1. 6 \in Bits(n) <=> (n \div 2^6) % 2 = 1
    BY <1>1
  <2> QED  BY <1>2, <2>1, Powers
<1>10. 7 \in Bits(n) <=> (n \div 128) % 2 = 1
  <2>1. 7 \in Bits(n) <=> (n \div 2^7) % 2 = 1
    BY <1>1
  <2> QED  BY <1>2, <2>1, Powers
<1> QED  BY <1>3, <1>4, <1>5, <1>6, <1>7, <1>8, <1>9, <1>10

\* A number below 128 is told by its bits.
LEMMA BitsTell ==
    ASSUME NEW m \in 0..127, NEW n \in 0..127, Bits(m) = Bits(n)
    PROVE  m = n
<1>1. \A k \in 0..127 :
          k = (k % 2) + 2 * ((k \div 2) % 2) + 4 * ((k \div 4) % 2) + 8 * ((k \div 8) % 2)
                + 16 * ((k \div 16) % 2) + 32 * ((k \div 32) % 2) + 64 * ((k \div 64) % 2)
  OBVIOUS
<1>2. \A k \in 0..127 : /\ k % 2 \in {0, 1} /\ (k \div 2) % 2 \in {0, 1}
                        /\ (k \div 4) % 2 \in {0, 1} /\ (k \div 8) % 2 \in {0, 1}
                        /\ (k \div 16) % 2 \in {0, 1} /\ (k \div 32) % 2 \in {0, 1}
                        /\ (k \div 64) % 2 \in {0, 1}
  OBVIOUS
<1>3. m \in Nat /\ n \in Nat
  OBVIOUS
<1>4. /\ m % 2 = n % 2 /\ (m \div 2) % 2 = (n \div 2) % 2
      /\ (m \div 4) % 2 = (n \div 4) % 2 /\ (m \div 8) % 2 = (n \div 8) % 2
      /\ (m \div 16) % 2 = (n \div 16) % 2 /\ (m \div 32) % 2 = (n \div 32) % 2
      /\ (m \div 64) % 2 = (n \div 64) % 2
  BY <1>2, <1>3, BitsOf
<1> QED  BY <1>1, <1>4

LEMMA SummedChars == DOMAIN Summed = 1..49 /\ Len(Summed) = 49
  BY DEF Summed

LEMMA Code ==
    ASSUME NEW c \in DOMAIN Ascii
    PROVE  \E i \in 1..49 : Summed[i] = c /\ Ascii[c] = Bits(41 + i)
<1> DEFINE I == {i \in 1..Len(Summed) : Summed[i] = c}
           i == SelectInSeq(Summed, LAMBDA x : x = c)
<1>1. I # {}
  BY SummedChars DEF Ascii, ToSet
<1>2. i = Min(I)
  BY <1>1, Zenon DEF SelectInSeq
<1>3. Min(I) \in I
  <2>1. I \in SUBSET Nat
    BY SummedChars
  <2> HIDE DEF I
  <2> QED  BY <1>1, <2>1, LeastPlace
<1>4. Ascii[c] = Bits(41 + i)
  BY DEF Ascii
<1> HIDE DEF i
<1>5. i \in 1..49 /\ Summed[i] = c
  BY <1>2, <1>3, SummedChars
<1> QED  BY <1>4, <1>5

\* No character is nothing to a sum, and two of them are never the same.
LEMMA Distinct ==
    ASSUME NEW c \in DOMAIN Ascii
    PROVE  Ascii[c] # {} /\ \A d \in DOMAIN Ascii : Ascii[c] = Ascii[d] => c = d
<1>1. PICK i \in 1..49 : Summed[i] = c /\ Ascii[c] = Bits(41 + i)
  BY Code
<1>2. ASSUME NEW d \in DOMAIN Ascii, Ascii[c] = Ascii[d] PROVE c = d
  <2>1. PICK j \in 1..49 : Summed[j] = d /\ Ascii[d] = Bits(41 + j)
    BY Code
  <2>2. 41 + i \in 0..127 /\ 41 + j \in 0..127
    OBVIOUS
  <2>3. 41 + i = 41 + j
    BY <1>1, <1>2, <2>1, <2>2, BitsTell
  <2>4. i = j
    BY <2>3
  <2> QED  BY <1>1, <2>1, <2>4
<1>3. Ascii[c] # {}
  <2> DEFINE n == 41 + i
  <2>1. n \in Nat /\ n \in 0..127 /\ 0 \in 0..127 /\ n # 0 /\ 0 \in Nat
    OBVIOUS
  <2>2. Bits(0) = {}
    <3>2. /\ 0 \notin Bits(0) /\ 1 \notin Bits(0) /\ 2 \notin Bits(0) /\ 3 \notin Bits(0)
          /\ 4 \notin Bits(0) /\ 5 \notin Bits(0) /\ 6 \notin Bits(0) /\ 7 \notin Bits(0)
      BY <2>1, BitsOf
    <3>3. Bits(0) \subseteq 0..7
      BY DEF Bits
    <3> QED  BY <3>2, <3>3
  <2>3. Bits(n) # Bits(0)
    BY <2>1, BitsTell
  <2> QED  BY <1>1, <2>2, <2>3
<1> QED  BY <1>2, <1>3

LEMMA HexChars == DOMAIN HexDigits = 1..16 /\ Len(HexDigits) = 16
  BY DEF HexDigits

LEMMA HexApart == \A i, j \in 1..16 : HexDigits[i] = HexDigits[j] => i = j
  BY DEF HexDigits

LEMMA Digits ==
    ASSUME NEW i \in 1..16
    PROVE  HexDigits[i] \in DOMAIN Hex /\ Hex[HexDigits[i]] = Bits(i - 1)
<1> DEFINE c == HexDigits[i]
           I == {j \in 1..Len(HexDigits) : HexDigits[j] = c}
           k == SelectInSeq(HexDigits, LAMBDA x : x = c)
<1>1. c \in DOMAIN Hex
  BY HexChars DEF Hex, ToSet
<1>2. I = {i}
  <2>1. i \in I
    BY HexChars
  <2>2. \A j \in I : j = i
    BY HexChars, HexApart
  <2> HIDE DEF I
  <2> QED  BY <2>1, <2>2
<1>3. k = Min(I)
  BY <1>2, Zenon DEF SelectInSeq
<1>4. Min(I) = i
  <2>1. I \in SUBSET Nat /\ I # {}
    BY <1>2
  <2> HIDE DEF I
  <2> QED  BY <1>2, <2>1, LeastPlace
<1>5. Hex[c] = Bits(k - 1)
  BY <1>1 DEF Hex
<1> HIDE DEF k, I
<1> QED  BY <1>1, <1>3, <1>4, <1>5

\* Every half of a byte is one of the digits.
LEMMA Nibbles == \A h \in SUBSET (0..3) : \E c \in DOMAIN Hex : Hex[c] = h
<1> TAKE h \in SUBSET (0..3)
<1> DEFINE n == (IF 0 \in h THEN 1 ELSE 0) + (IF 1 \in h THEN 2 ELSE 0)
                  + (IF 2 \in h THEN 4 ELSE 0) + (IF 3 \in h THEN 8 ELSE 0)
<1>1. n \in 0..15
  OBVIOUS
<1>2. /\ n % 2 = (IF 0 \in h THEN 1 ELSE 0) /\ (n \div 2) % 2 = (IF 1 \in h THEN 1 ELSE 0)
      /\ (n \div 4) % 2 = (IF 2 \in h THEN 1 ELSE 0)
      /\ (n \div 8) % 2 = (IF 3 \in h THEN 1 ELSE 0)
  OBVIOUS
<1> HIDE DEF n
<1>3. n \div 16 = 0 /\ n \div 32 = 0 /\ n \div 64 = 0 /\ n \div 128 = 0 /\ n \in Nat
  BY <1>1
<1>4. /\ 0 \in Bits(n) <=> 0 \in h
      /\ 1 \in Bits(n) <=> 1 \in h
      /\ 2 \in Bits(n) <=> 2 \in h
      /\ 3 \in Bits(n) <=> 3 \in h
  BY <1>2, <1>3, BitsOf
<1>5. 4 \notin Bits(n) /\ 5 \notin Bits(n) /\ 6 \notin Bits(n) /\ 7 \notin Bits(n)
  BY <1>3, BitsOf
<1>6. Bits(n) = h
  <2>1. \A b \in Bits(n) : b \in {0, 1, 2, 3, 4, 5, 6, 7}
    BY DEF Bits
  <2>2. \A b \in h : b \in {0, 1, 2, 3}
    OBVIOUS
  <2>3. ASSUME NEW b \in Bits(n) PROVE b \in h
    BY <1>4, <1>5, <2>1
  <2>4. ASSUME NEW b \in h PROVE b \in Bits(n)
    BY <1>4, <2>2
  <2> QED  BY <2>3, <2>4
<1>7. n + 1 \in 1..16 /\ (n + 1) - 1 = n
  BY <1>1
<1> QED  BY <1>6, <1>7, Digits

\* The digits that are sent for a sum are read back as that sum.
LEMMA SumRead ==
    ASSUME NEW sum \in Byte
    PROVE  /\ HexSum(sum)[1] \in DOMAIN Hex /\ HexSum(sum)[2] \in DOMAIN Hex
           /\ HexSum(sum) = <<HexSum(sum)[1], HexSum(sum)[2]>>
           /\ WithDigit(WithDigit({}, HexSum(sum)[1]), HexSum(sum)[2]) = sum
<1> DEFINE high == {b - 4 : b \in sum \ 0..3}
           low  == sum \cap 0..3
           digit(bits) == CHOOSE c \in DOMAIN Hex : Hex[c] = bits
<1>1. \A b \in sum : b \in {0, 1, 2, 3, 4, 5, 6, 7}
  BY DEF Byte
<1>2. high \in SUBSET (0..3) /\ low \in SUBSET (0..3)
  BY <1>1
<1>3. HexSum(sum) = <<digit(high), digit(low)>>
  BY Zenon DEF HexSum
<1>4. \A b \in 0..7 : b \in sum <=> b \in low \/ (b >= 4 /\ b - 4 \in high)
  BY <1>1
<1> HIDE DEF high, low
<1>5. /\ digit(high) \in DOMAIN Hex /\ Hex[digit(high)] = high
      /\ digit(low) \in DOMAIN Hex /\ Hex[digit(low)] = low
  BY <1>2, Nibbles
<1> DEFINE x == digit(high)
           y == digit(low)
<1> HIDE DEF digit, x, y
<1>6. WithDigit({}, x) = high
  BY <1>5 DEF WithDigit, x
<1>7. WithDigit(high, y) = sum
  <2>1. WithDigit(high, y) = {b + 4 : b \in high \cap 0..3} \cup low
    BY <1>5 DEF WithDigit, y
  <2>2. \A b \in sum : b \in 0..7
    BY <1>1
  <2>3. \A b \in sum : b \in {c + 4 : c \in high \cap 0..3} \cup low
    <3> SUFFICES ASSUME NEW b \in sum, b \notin low PROVE b \in {c + 4 : c \in high \cap 0..3}
      OBVIOUS
    <3>1. b - 4 \in high /\ b - 4 \in 0..3 /\ b = (b - 4) + 4
      BY <1>4, <1>2, <2>2
    <3> QED  BY <3>1
  <2>4. \A b \in {c + 4 : c \in high \cap 0..3} \cup low : b \in sum
    <3>1. \A b \in low : b \in sum
      BY DEF low
    <3>2. ASSUME NEW c \in high \cap 0..3 PROVE c + 4 \in sum
      <4>1. c + 4 \in 0..7 /\ c + 4 >= 4 /\ (c + 4) - 4 = c
        OBVIOUS
      <4> QED  BY <1>4, <4>1
    <3> QED  BY <3>1, <3>2
  <2> QED  BY <2>1, <2>3, <2>4
<1>8. HexSum(sum) = <<x, y>>
  BY <1>3 DEF x, y
<1>9. HexSum(sum)[1] = x /\ HexSum(sum)[2] = y
  BY <1>8
<1> QED  BY <1>5, <1>6, <1>7, <1>8, <1>9 DEF x, y

-----------------------------------------------------------------------------
(* Sequences.                                                              *)

\* (The provers take these apart wherever they meet them; the names they leave
\* alone.)
Word(S)     == Seq(S)
One(c)      == <<c>>
Joint(a, b) == a \o b
Drop(t, j)  == SubSeq(t, j + 1, Len(t))

LEMMA WordFacts ==
    ASSUME NEW S, NEW a \in Word(S)
    PROVE  Len(a) \in Nat /\ \A i \in 1..Len(a) : a[i] \in S
  BY DEF Word

LEMMA OneFacts ==
    ASSUME NEW S, NEW c \in S
    PROVE  One(c) \in Word(S) /\ Len(One(c)) = 1 /\ One(c)[1] = c
  BY DEF Word, One

LEMMA Nothing == ASSUME NEW S PROVE <<>> \in Word(S) /\ Len(<<>>) = 0
  BY DEF Word

LEMMA WiderWord ==
    ASSUME NEW S, NEW T, S \subseteq T, NEW a \in Word(S)
    PROVE  a \in Word(T)
  BY Wider DEF Word

LEMMA SameWord ==
    ASSUME NEW S, NEW a \in Word(S), NEW b \in Word(S), Len(a) = Len(b),
           \A i \in 1..Len(a) : a[i] = b[i]
    PROVE  a = b
  BY SeqEqual DEF Word

LEMMA JointFacts ==
    ASSUME NEW S, NEW a \in Word(S), NEW b \in Word(S)
    PROVE  /\ Joint(a, b) \in Word(S)
           /\ Len(Joint(a, b)) = Len(a) + Len(b)
           /\ \A i \in 1..(Len(a) + Len(b)) :
                  Joint(a, b)[i] = IF i <= Len(a) THEN a[i] ELSE b[i - Len(a)]
  BY ConcatProperties DEF Joint, Word

LEMMA PutBefore ==
    ASSUME NEW S, NEW c \in S, NEW a \in Word(S)
    PROVE  /\ Joint(One(c), a) \in Word(S)
           /\ Len(Joint(One(c), a)) = Len(a) + 1
           /\ Joint(One(c), a)[1] = c
           /\ \A i \in 1..Len(a) : Joint(One(c), a)[i + 1] = a[i]
<1> DEFINE u == One(c)
           x == Joint(u, a)
<1>1. Len(a) \in Nat
  BY WordFacts
<1>2. u \in Word(S) /\ Len(u) = 1 /\ u[1] = c
  BY OneFacts
<1> HIDE DEF u
<1>3. /\ x \in Word(S) /\ Len(x) = Len(u) + Len(a)
      /\ \A i \in 1..(Len(u) + Len(a)) : x[i] = IF i <= Len(u) THEN u[i] ELSE a[i - Len(u)]
  BY <1>2, JointFacts
<1> HIDE DEF x
<1>4. Len(x) = Len(a) + 1 /\ x[1] = c
  BY <1>1, <1>2, <1>3
<1>5. ASSUME NEW i \in 1..Len(a) PROVE x[i + 1] = a[i]
  <2>1. i + 1 \in 1..(Len(u) + Len(a)) /\ ~(i + 1 <= Len(u)) /\ (i + 1) - Len(u) = i
    BY <1>1, <1>2
  <2> QED  BY <1>3, <2>1
<1> QED  BY <1>3, <1>4, <1>5 DEF x, u

LEMMA JointNothing ==
    ASSUME NEW S, NEW a \in Word(S)
    PROVE  Joint(<<>>, a) = a /\ Joint(a, <<>>) = a
  BY ConcatEmptySeq DEF Joint, Word

LEMMA Regrouped ==
    ASSUME NEW S, NEW a \in Word(S), NEW b \in Word(S), NEW c \in Word(S)
    PROVE  Joint(Joint(a, b), c) = Joint(a, Joint(b, c))
<1> DEFINE x == (a \o b) \o c
           y == a \o (b \o c)
<1>1. a \in Seq(S) /\ b \in Seq(S) /\ c \in Seq(S) /\ a \o b \in Seq(S) /\ b \o c \in Seq(S)
  BY ConcatProperties DEF Word
<1>2. x \in Seq(S) /\ y \in Seq(S)
  BY <1>1, ConcatProperties
<1>3. Len(x) = Len(y) /\ \A i \in 1..Len(x) : x[i] = y[i]
  BY <1>1, ConcatProperties
<1> HIDE DEF x, y
<1>4. x = y
  BY <1>2, <1>3, SeqEqual
<1> QED  BY <1>4 DEF x, y, Joint

LEMMA Regroup ==
    ASSUME NEW S, NEW x \in Word(S), NEW c \in Word(S), NEW a \in Word(S), NEW b \in Word(S)
    PROVE  Joint(Joint(Joint(x, c), a), b) = Joint(x, Joint(c, Joint(a, b)))
<1>1. Joint(x, c) \in Word(S) /\ Joint(a, b) \in Word(S)
  BY JointFacts
<1>2. Joint(Joint(x, c), Joint(a, b)) = Joint(x, Joint(c, Joint(a, b)))
  BY <1>1, Regrouped
<1>3. Joint(Joint(Joint(x, c), a), b) = Joint(Joint(x, c), Joint(a, b))
  BY <1>1, Regrouped
<1> QED  BY <1>2, <1>3

LEMMA Twos ==
    ASSUME NEW S, NEW a \in S, NEW b \in S
    PROVE  <<a, b>> = Joint(One(a), One(b))
<1> DEFINE x == <<a, b>>
           y == Joint(One(a), One(b))
<1>1. x \in Word(S) /\ Len(x) = 2 /\ x[1] = a /\ x[2] = b
  BY DEF Word
<1>2. y \in Word(S) /\ Len(y) = 2 /\ y[1] = a /\ y[2] = b
  <2>1. One(b) \in Word(S) /\ Len(One(b)) = 1 /\ One(b)[1] = b
    BY OneFacts
  <2> DEFINE w == One(b)
  <2> HIDE DEF w
  <2>2. w \in Word(S) /\ Len(w) = 1 /\ w[1] = b
    BY <2>1 DEF w
  <2>3. /\ Joint(One(a), w) \in Word(S) /\ Len(Joint(One(a), w)) = Len(w) + 1
        /\ Joint(One(a), w)[1] = a
        /\ \A i \in 1..Len(w) : Joint(One(a), w)[i + 1] = w[i]
    <3>1. w \in Word(S)
      BY <2>2
    <3> QED  BY <3>1, PutBefore
  <2>4. Joint(One(a), w)[1 + 1] = w[1]
    BY <2>2, <2>3
  <2> QED  BY <2>2, <2>3, <2>4 DEF w
<1> HIDE DEF x, y
<1>3. \A i \in 1..Len(x) : x[i] = y[i]
  BY <1>1, <1>2
<1>4. x = y
  BY <1>1, <1>2, <1>3, SameWord
<1> QED  BY <1>4 DEF x, y

LEMMA Threes ==
    ASSUME NEW S, NEW a \in S, NEW b \in S, NEW c \in S
    PROVE  <<a, b, c>> = Joint(One(a), Joint(One(b), One(c)))
<1> DEFINE x == <<a, b, c>>
           z == Joint(One(b), One(c))
           y == Joint(One(a), z)
<1>1. x \in Word(S) /\ Len(x) = 3 /\ x[1] = a /\ x[2] = b /\ x[3] = c
  BY DEF Word
<1>2. z \in Word(S) /\ Len(z) = 2 /\ z[1] = b /\ z[2] = c
  <2>1. z = <<b, c>>
    BY Twos
  <2> QED  BY <2>1 DEF Word
<1> HIDE DEF z
<1>3. y \in Word(S) /\ Len(y) = 3 /\ y[1] = a /\ y[2] = b /\ y[3] = c
  <2>1. /\ y \in Word(S) /\ Len(y) = Len(z) + 1 /\ y[1] = a
        /\ \A i \in 1..Len(z) : y[i + 1] = z[i]
    <3>1. z \in Word(S)
      BY <1>2
    <3> QED  BY <3>1, PutBefore
  <2>2. y[1 + 1] = z[1] /\ y[2 + 1] = z[2]
    BY <1>2, <2>1
  <2> QED  BY <1>2, <2>1, <2>2
<1> HIDE DEF x, y
<1>4. \A i \in 1..Len(x) : x[i] = y[i]
  BY <1>1, <1>2, <1>3
<1>5. x = y
  BY <1>1, <1>3, <1>4, SameWord
<1> QED  BY <1>5 DEF x, y, z

LEMMA Dropped ==
    ASSUME NEW S, NEW t \in Word(S), NEW j \in 0..Len(t)
    PROVE  /\ Drop(t, j) \in Word(S) /\ Len(Drop(t, j)) = Len(t) - j
           /\ \A i \in 1..(Len(t) - j) : Drop(t, j)[i] = t[j + i]
           /\ j < Len(t) => t[j + 1] \in S /\ Drop(t, j) = Joint(One(t[j + 1]), Drop(t, j + 1))
<1>1. j \in Nat /\ j <= Len(t) /\ Len(t) \in Nat /\ t \in Seq(S)
  BY DEF Word
<1>2. \A i \in (j + 1)..Len(t) : t[i] \in S
  BY <1>1
<1>3. /\ Drop(t, j) \in Word(S) /\ Len(Drop(t, j)) = Len(t) - j
      /\ \A i \in 1..(Len(t) - j) : Drop(t, j)[i] = t[j + i]
  BY <1>1, <1>2, SubSeqProperties DEF Drop, Word
<1>4. ASSUME j < Len(t) PROVE t[j + 1] \in S /\ Drop(t, j) = Joint(One(t[j + 1]), Drop(t, j + 1))
  <2>1. j + 1 \in 1..Len(t) /\ Len(t) \in (j + 1)..Len(t)
    BY <1>1, <1>4
  <2>2. SubSeq(t, j + 1, Len(t)) = <<t[j + 1]>> \o SubSeq(t, (j + 1) + 1, Len(t))
    BY <1>1, <2>1, SubSeqRecursiveFirst
  <2> QED  BY <1>2, <2>1, <2>2 DEF Drop, Joint, One
<1> QED  BY <1>3, <1>4

LEMMA DroppedAll ==
    ASSUME NEW S, NEW t \in Word(S)
    PROVE  Drop(t, 0) = t /\ Drop(t, Len(t)) = <<>>
<1>1. Len(t) \in Nat /\ 0 \in 0..Len(t) /\ Len(t) \in 0..Len(t)
  BY WordFacts
<1>2. Drop(t, 0) \in Word(S) /\ Len(Drop(t, 0)) = Len(t)
      /\ \A i \in 1..Len(t) : Drop(t, 0)[i] = t[i]
  BY <1>1, Dropped
<1>3. Drop(t, Len(t)) \in Word(S) /\ Len(Drop(t, Len(t))) = 0
  BY <1>1, Dropped
<1>4. Drop(t, 0) = t
  BY <1>2, SameWord
<1>5. Drop(t, Len(t)) = <<>>
  <2> DEFINE d == Drop(t, Len(t))
             e == <<>>
  <2> HIDE DEF d
  <2>1. e \in Word(S) /\ Len(e) = 0
    BY Nothing
  <2> HIDE DEF e
  <2>2. d \in Word(S) /\ Len(d) = 0
    BY <1>3 DEF d
  <2>3. d = e
    BY <2>1, <2>2, SameWord
  <2> QED  BY <2>3 DEF d, e
<1> QED  BY <1>4, <1>5

\* What is left behind the beginning of a sequence.
LEMMA Prefixed ==
    ASSUME NEW S, NEW a \in Word(S), NEW b \in Word(S)
    PROVE  Drop(Joint(a, b), Len(a)) = b
<1> DEFINE t == Joint(a, b)
           x == Drop(t, Len(a))
<1>1. t \in Word(S) /\ Len(t) = Len(a) + Len(b) /\ Len(a) \in Nat /\ Len(b) \in Nat
  BY WordFacts, JointFacts
<1>2. \A i \in 1..(Len(a) + Len(b)) : t[i] = IF i <= Len(a) THEN a[i] ELSE b[i - Len(a)]
  BY JointFacts
<1> HIDE DEF t
<1>3. Len(a) \in 0..Len(t)
  BY <1>1
<1>4. /\ x \in Word(S) /\ Len(x) = Len(t) - Len(a)
      /\ \A i \in 1..(Len(t) - Len(a)) : x[i] = t[Len(a) + i]
  BY <1>1, <1>3, Dropped
<1> HIDE DEF x
<1>5. Len(x) = Len(b)
  BY <1>1, <1>4
<1>6. ASSUME NEW i \in 1..Len(x) PROVE x[i] = b[i]
  <2>1. /\ Len(a) + i \in 1..(Len(a) + Len(b)) /\ ~(Len(a) + i <= Len(a))
        /\ (Len(a) + i) - Len(a) = i /\ i \in 1..(Len(t) - Len(a))
    BY <1>1, <1>5
  <2> QED  BY <1>2, <1>4, <2>1
<1>7. x = b
  BY <1>4, <1>5, <1>6, SameWord
<1> QED  BY <1>7 DEF x, t

\* Two sequences that are the same have the same first element.
LEMMA Heads ==
    ASSUME NEW S, NEW c \in S, NEW d \in S, NEW a \in Word(S), NEW b \in Word(S),
           Joint(One(c), a) = Joint(One(d), b)
    PROVE  c = d /\ a = b
<1> DEFINE x == Joint(One(c), a)
           y == Joint(One(d), b)
<1>1. Len(a) \in Nat /\ Len(b) \in Nat
  BY WordFacts
<1>2. /\ Len(x) = Len(a) + 1 /\ x[1] = c
      /\ \A i \in 1..Len(a) : x[i + 1] = a[i]
  BY PutBefore
<1>3. /\ Len(y) = Len(b) + 1 /\ y[1] = d
      /\ \A i \in 1..Len(b) : y[i + 1] = b[i]
  BY PutBefore
<1>4. x = y
  OBVIOUS
<1> HIDE DEF x, y
<1>5. Len(a) = Len(b)
  BY <1>1, <1>2, <1>3, <1>4
<1>6. c = d
  BY <1>2, <1>3, <1>4
<1>7. \A i \in 1..Len(a) : a[i] = b[i]
  BY <1>2, <1>3, <1>4, <1>5
<1>8. a = b
  BY <1>5, <1>7, SameWord
<1> QED  BY <1>6, <1>8

-----------------------------------------------------------------------------
(* Where the parser is in a sentence that arrives whole.                   *)

\* What state k takes in of a report.
Text(k, s) ==
    CASE k = 7  -> s.time     [] k = 8  -> One(s.status)
      [] k = 9  -> s.lat      [] k = 10 -> One(s.ns)
      [] k = 11 -> s.lon      [] k = 12 -> One(s.ew)
      [] k = 13 -> s.spd      [] k = 14 -> s.cmg
      [] k = 15 -> s.date     [] k = 16 -> s.magn
      [] k = 17 -> One(s.mew)

\* What follows it in the body.
After17(s) == s.mode
After16(s) == Joint(One(","), Joint(Text(17, s), After17(s)))
After15(s) == Joint(One(","), Joint(Text(16, s), After16(s)))
After14(s) == Joint(One(","), Joint(Text(15, s), After15(s)))
After13(s) == Joint(One(","), Joint(Text(14, s), After14(s)))
After12(s) == Joint(One(","), Joint(Text(13, s), After13(s)))
After11(s) == Joint(One(","), Joint(Text(12, s), After12(s)))
After10(s) == Joint(One(","), Joint(Text(11, s), After11(s)))
After9(s)  == Joint(One(","), Joint(Text(10, s), After10(s)))
After8(s)  == Joint(One(","), Joint(Text(9, s), After9(s)))
After7(s)  == Joint(One(","), Joint(Text(8, s), After8(s)))
After6(s)  == Joint(One(","), Joint(Text(7, s), After7(s)))

After(k, s) ==
    CASE k = 6  -> After6(s)    [] k = 7  -> After7(s)   [] k = 8  -> After8(s)
      [] k = 9  -> After9(s)    [] k = 10 -> After10(s)  [] k = 11 -> After11(s)
      [] k = 12 -> After12(s)   [] k = 13 -> After13(s)  [] k = 14 -> After14(s)
      [] k = 15 -> After15(s)   [] k = 16 -> After16(s)  [] k = 17 -> After17(s)

\* The characters of a body behind the name.
BodyChar == Number \cup {",", "A", "D", "E", "N", "S", "V", "W"}

Chars == DOMAIN Ascii

LEMMA BodyChars ==
    /\ BodyChar \subseteq Chars
    /\ \A c \in BodyChar : c # "G" /\ c # "$" /\ c # "*" /\ c # "\r"
<1>1. {",", "A", "D", "E", "N", "S", "V", "W"} \subseteq Chars
  BY Characters DEF Chars
<1>2. BodyChar \subseteq Chars
  BY <1>1, Characters DEF BodyChar, Chars
<1> QED  BY <1>2 DEF BodyChar, Number, Digit

LEMMA AcceptsFacts ==
    /\ \A k \in {7, 9, 11, 13, 14, 16} : Accepts[k] = Number
    /\ Accepts[10] = {"N", "S"} /\ Accepts[12] = {"W", "E"} /\ Accepts[17] = {"W", "E"}
    /\ Accepts[15] = Digit
  BY FillDomain DEF Accepts

\* What a state takes in of a report, it accepts.
LEMMA TextAccepted ==
    ASSUME NEW s \in Reports, NEW k \in DOMAIN Fills
    PROVE  Text(k, s) \in Word(Accepts[k])
<1>1. /\ s.time \in Word(Number) /\ s.lat \in Word(Number) /\ s.lon \in Word(Number)
      /\ s.spd \in Word(Number) /\ s.cmg \in Word(Number) /\ s.date \in Word(Digit)
      /\ s.magn \in Word(Number)
  BY DEF Reports, Word
<1>2. One(s.ns) \in Word({"N", "S"}) /\ One(s.ew) \in Word({"W", "E"}) /\ One(s.mew) \in Word({"W", "E"})
  <2>1. s.ns \in {"N", "S"} /\ s.ew \in {"W", "E"} /\ s.mew \in {"W", "E"}
    BY DEF Reports
  <2> QED  BY <2>1, OneFacts
<1>3. k \in {7, 9, 10, 11, 12, 13, 14, 15, 16, 17}
  BY FillDomain
<1>4. /\ Text(7, s) = s.time /\ Text(9, s) = s.lat /\ Text(10, s) = One(s.ns)
      /\ Text(11, s) = s.lon /\ Text(12, s) = One(s.ew) /\ Text(13, s) = s.spd
      /\ Text(14, s) = s.cmg /\ Text(15, s) = s.date /\ Text(16, s) = s.magn
      /\ Text(17, s) = One(s.mew)
  BY DEF Text
<1> QED  BY <1>1, <1>2, <1>3, <1>4, AcceptsFacts, SMTT(30)

LEMMA TextChars ==
    ASSUME NEW s \in Reports, NEW k \in 7..17
    PROVE  Text(k, s) \in Word(BodyChar)
<1>1. CASE k = 8
  <2>1. s.status \in BodyChar
    BY DEF Reports, BodyChar
  <2>2. Text(k, s) = One(s.status)
    BY <1>1 DEF Text
  <2> HIDE DEF BodyChar
  <2> QED  BY <2>1, <2>2, OneFacts
<1>2. CASE k # 8
  <2>1. k \in DOMAIN Fills
    BY <1>2, FillDomain
  <2>2. Accepts[k] \subseteq BodyChar
    <3>1. k \in {7, 9, 10, 11, 12, 13, 14, 15, 16, 17}
      BY <1>2
    <3> QED  BY <3>1, AcceptsFacts, ZenonT(40) DEF BodyChar, Number
  <2> HIDE DEF BodyChar
  <2> QED  BY <2>1, <2>2, TextAccepted, WiderWord
<1> QED  BY <1>1, <1>2

LEMMA Comma == One(",") \in Word(BodyChar)
<1>1. "," \in BodyChar
  BY DEF BodyChar
<1> HIDE DEF BodyChar
<1> QED  BY <1>1, OneFacts

\* The mode, if there is one, is one more field.
LEMMA ModeParts ==
    ASSUME NEW s \in Reports
    PROVE  s.mode = <<>> \/ \E m \in {"A", "D", "E", "N"} : s.mode = Joint(One(","), One(m))
<1>1. s.mode = <<>> \/ \E m \in {"A", "D", "E", "N"} : s.mode = <<",", m>>
  BY DEF Reports
<1>2. ASSUME NEW m \in {"A", "D", "E", "N"} PROVE <<",", m>> = Joint(One(","), One(m))
  <2> DEFINE S == {",", "A", "D", "E", "N"}
             c == ","
  <2>1. c \in S /\ m \in S
    OBVIOUS
  <2> HIDE DEF S, c
  <2>2. <<c, m>> = Joint(One(c), One(m))
    BY <2>1, Twos
  <2> QED  BY <2>2 DEF c
<1> QED  BY <1>1, <1>2

LEMMA ModeChars == ASSUME NEW s \in Reports PROVE s.mode \in Word(BodyChar)
<1>1. <<>> \in Word(BodyChar)
  BY Nothing
<1>2. ASSUME NEW m \in {"A", "D", "E", "N"} PROVE Joint(One(","), One(m)) \in Word(BodyChar)
  <2>1. m \in BodyChar
    BY DEF BodyChar
  <2> HIDE DEF BodyChar
  <2>2. One(m) \in Word(BodyChar)
    BY <2>1, OneFacts
  <2> QED  BY <2>2, Comma, JointFacts
<1> QED  BY <1>1, <1>2, ModeParts

LEMMA Chained ==
    ASSUME NEW S, NEW c \in Word(S), NEW a \in Word(S), NEW b \in Word(S)
    PROVE  Joint(c, Joint(a, b)) \in Word(S)
<1>1. Joint(a, b) \in Word(S)
  BY JointFacts
<1> QED  BY <1>1, JointFacts

LEMMA AfterNext ==
    ASSUME NEW s, NEW k \in 6..16
    PROVE  After(k, s) = Joint(One(","), Joint(Text(k + 1, s), After(k + 1, s)))
<1>1. k \in {6, 7, 8, 9, 10, 11, 12, 13, 14, 15, 16}
  OBVIOUS
<1>2. /\ After(6, s) = After6(s) /\ After(7, s) = After7(s) /\ After(8, s) = After8(s)
      /\ After(9, s) = After9(s) /\ After(10, s) = After10(s) /\ After(11, s) = After11(s)
      /\ After(12, s) = After12(s) /\ After(13, s) = After13(s) /\ After(14, s) = After14(s)
      /\ After(15, s) = After15(s) /\ After(16, s) = After16(s) /\ After(17, s) = After17(s)
  BY DEF After
<1>3. After(6, s) = Joint(One(","), Joint(Text(7, s), After(7, s)))
  BY <1>2, Zenon DEF After6
<1>4. After(7, s) = Joint(One(","), Joint(Text(8, s), After(8, s)))
  BY <1>2, Zenon DEF After7
<1>5. After(8, s) = Joint(One(","), Joint(Text(9, s), After(9, s)))
  BY <1>2, Zenon DEF After8
<1>6. After(9, s) = Joint(One(","), Joint(Text(10, s), After(10, s)))
  BY <1>2, Zenon DEF After9
<1>7. After(10, s) = Joint(One(","), Joint(Text(11, s), After(11, s)))
  BY <1>2, Zenon DEF After10
<1>8. After(11, s) = Joint(One(","), Joint(Text(12, s), After(12, s)))
  BY <1>2, Zenon DEF After11
<1>9. After(12, s) = Joint(One(","), Joint(Text(13, s), After(13, s)))
  BY <1>2, Zenon DEF After12
<1>10. After(13, s) = Joint(One(","), Joint(Text(14, s), After(14, s)))
  BY <1>2, Zenon DEF After13
<1>11. After(14, s) = Joint(One(","), Joint(Text(15, s), After(15, s)))
  BY <1>2, Zenon DEF After14
<1>12. After(15, s) = Joint(One(","), Joint(Text(16, s), After(16, s)))
  BY <1>2, Zenon DEF After15
<1>13. After(16, s) = Joint(One(","), Joint(Text(17, s), After(17, s)))
  BY <1>2, Zenon DEF After16
<1>14. /\ 6 + 1 = 7 /\ 7 + 1 = 8 /\ 8 + 1 = 9 /\ 9 + 1 = 10 /\ 10 + 1 = 11 /\ 11 + 1 = 12
       /\ 12 + 1 = 13 /\ 13 + 1 = 14 /\ 14 + 1 = 15 /\ 15 + 1 = 16 /\ 16 + 1 = 17
  OBVIOUS
<1> QED
  BY <1>1, <1>3, <1>4, <1>5, <1>6, <1>7, <1>8, <1>9, <1>10, <1>11, <1>12, <1>13, <1>14, ZenonT(40)

LEMMA AfterChars ==
    ASSUME NEW s \in Reports
    PROVE  \A k \in 6..17 : After(k, s) \in Word(BodyChar)
<1> DEFINE P == {n \in Nat : n \in 0..11 => After(17 - n, s) \in Word(BodyChar)}
<1>1. 0 \in P
  <2>1. After(17, s) = s.mode
    BY DEF After, After17
  <2> QED  BY <2>1, ModeChars
<1>2. ASSUME NEW n \in P PROVE n + 1 \in P
  <2> SUFFICES ASSUME n + 1 \in 0..11 PROVE After(17 - (n + 1), s) \in Word(BodyChar)
    OBVIOUS
  <2> DEFINE k == 17 - (n + 1)
  <2>1. k \in 6..16 /\ k + 1 = 17 - n /\ n \in 0..11 /\ k + 1 \in 7..17
    OBVIOUS
  <2>2. After(k + 1, s) \in Word(BodyChar)
    BY <2>1
  <2> HIDE DEF k
  <2>3. Text(k + 1, s) \in Word(BodyChar)
    <3> DEFINE j == k + 1
    <3> HIDE DEF j
    <3>1. j \in 7..17
      BY <2>1 DEF j
    <3>2. Text(j, s) \in Word(BodyChar)
      BY <3>1, TextChars
    <3> QED  BY <3>2 DEF j
  <2>4. Joint(One(","), Joint(Text(k + 1, s), After(k + 1, s))) \in Word(BodyChar)
    <3> HIDE DEF BodyChar
    <3> QED  BY <2>2, <2>3, Comma, Chained
  <2> QED  BY <2>1, <2>4, AfterNext DEF k
<1>3. \A n \in Nat : n \in P
  <2>1. P \in SUBSET Nat
    OBVIOUS
  <2> HIDE DEF P
  <2> QED  BY <1>1, <1>2, <2>1, Induction
<1>4. ASSUME NEW k \in 6..17 PROVE After(k, s) \in Word(BodyChar)
  <2>1. 17 - k \in Nat /\ 17 - k \in 0..11 /\ 17 - (17 - k) = k
    OBVIOUS
  <2>2. 17 - k \in P
    BY <1>3, <2>1
  <2> QED  BY <2>1, <2>2
<1> QED  BY <1>4

LEMMA ThreeMore ==
    ASSUME NEW S, NEW x \in Word(S), NEW a \in S, NEW b \in S, NEW c \in S
    PROVE  Joint(x, <<a, b, c>>) = Joint(Joint(Joint(x, One(a)), One(b)), One(c))
<1>1. One(a) \in Word(S) /\ One(b) \in Word(S) /\ One(c) \in Word(S)
  BY OneFacts
<1>2. <<a, b, c>> = Joint(One(a), Joint(One(b), One(c)))
  BY Threes
<1> QED  BY <1>1, <1>2, Regroup

LEMMA TwoMore ==
    ASSUME NEW S, NEW x \in Word(S), NEW a \in S, NEW b \in S
    PROVE  Joint(x, <<a, b>>) = Joint(Joint(x, One(a)), One(b))
<1>1. One(a) \in Word(S) /\ One(b) \in Word(S)
  BY OneFacts
<1>2. <<a, b>> = Joint(One(a), One(b))
  BY Twos
<1> QED  BY <1>1, <1>2, Regrouped

LEMMA NameChars == Name \in Word(Chars)
<1>1. "G" \in Chars /\ "P" \in Chars /\ "R" \in Chars /\ "M" \in Chars /\ "C" \in Chars
  BY Characters DEF Chars
<1>2. <<"G", "P", "R">> \in Seq(Chars) /\ <<"M", "C">> \in Seq(Chars)
  BY <1>1, Short
<1>3. Name = <<"G", "P", "R">> \o <<"M", "C">>
  BY DEF Name
<1> QED  BY <1>2, <1>3, Joined DEF Word

\* A body is its name and the fields the states take in, in their order, with
\* commas between them.
LEMMA BodyParts ==
    ASSUME NEW s \in Reports
    PROVE  Body(s) = Joint(Name, After(6, s))
<1> DEFINE S == Word(Chars)
           C == One(",")
           p7  == Joint(Joint(Name, C), Text(7, s))
           p8  == Joint(Joint(p7, C), Text(8, s))
           p9  == Joint(Joint(p8, C), Text(9, s))
           p10 == Joint(Joint(p9, C), Text(10, s))
           p11 == Joint(Joint(p10, C), Text(11, s))
           p12 == Joint(Joint(p11, C), Text(12, s))
           p13 == Joint(Joint(p12, C), Text(13, s))
           p14 == Joint(Joint(p13, C), Text(14, s))
           p15 == Joint(Joint(p14, C), Text(15, s))
           p16 == Joint(Joint(p15, C), Text(16, s))
           p17 == Joint(Joint(p16, C), Text(17, s))
<1>1. C \in S /\ \A k \in 7..17 : Text(k, s) \in S
  BY Comma, TextChars, BodyChars, WiderWord
<1>2. \A k \in 6..17 : After(k, s) \in S
  BY AfterChars, BodyChars, WiderWord
<1>3. Name \in S
  BY NameChars
<1>4. ASSUME NEW x \in S, NEW k \in 6..16
      PROVE  /\ Joint(Joint(x, C), Text(k + 1, s)) \in S
             /\ Joint(x, After(k, s)) = Joint(Joint(Joint(x, C), Text(k + 1, s)), After(k + 1, s))
  <2>1. k + 1 \in 7..17 /\ k + 1 \in 6..17
    OBVIOUS
  <2>2. Text(k + 1, s) \in S /\ After(k + 1, s) \in S
    BY <1>1, <1>2, <2>1
  <2>3. After(k, s) = Joint(C, Joint(Text(k + 1, s), After(k + 1, s)))
    BY AfterNext
  <2> DEFINE a == Text(k + 1, s)
             b == After(k + 1, s)
  <2> HIDE DEF C, a, b
  <2>4. x \in Word(Chars) /\ C \in Word(Chars) /\ a \in Word(Chars) /\ b \in Word(Chars)
    BY <1>1, <2>2 DEF a, b
  <2>5. Joint(x, C) \in Word(Chars) /\ Joint(Joint(x, C), a) \in Word(Chars)
    BY <2>4, JointFacts
  <2>6. Joint(Joint(Joint(x, C), a), b) = Joint(x, Joint(C, Joint(a, b)))
    BY <2>4, Regroup
  <2> QED  BY <2>3, <2>5, <2>6 DEF a, b
<1> HIDE DEF C, S
<1>5. p7 \in S /\ Joint(Name, After(6, s)) = Joint(p7, After(7, s))
  <2>1. 6 \in 6..16 /\ 6 + 1 = 7
    OBVIOUS
  <2> QED  BY <1>3, <1>4, <2>1
<1>6. p8 \in S /\ Joint(p7, After(7, s)) = Joint(p8, After(8, s))
  <2>1. 7 \in 6..16 /\ 7 + 1 = 8
    OBVIOUS
  <2> HIDE DEF p7
  <2> QED  BY <1>5, <1>4, <2>1
<1>7. p9 \in S /\ Joint(p8, After(8, s)) = Joint(p9, After(9, s))
  <2>1. 8 \in 6..16 /\ 8 + 1 = 9
    OBVIOUS
  <2> HIDE DEF p8
  <2> QED  BY <1>6, <1>4, <2>1
<1>8. p10 \in S /\ Joint(p9, After(9, s)) = Joint(p10, After(10, s))
  <2>1. 9 \in 6..16 /\ 9 + 1 = 10
    OBVIOUS
  <2> HIDE DEF p9
  <2> QED  BY <1>7, <1>4, <2>1
<1>9. p11 \in S /\ Joint(p10, After(10, s)) = Joint(p11, After(11, s))
  <2>1. 10 \in 6..16 /\ 10 + 1 = 11
    OBVIOUS
  <2> HIDE DEF p10
  <2> QED  BY <1>8, <1>4, <2>1
<1>10. p12 \in S /\ Joint(p11, After(11, s)) = Joint(p12, After(12, s))
  <2>1. 11 \in 6..16 /\ 11 + 1 = 12
    OBVIOUS
  <2> HIDE DEF p11
  <2> QED  BY <1>9, <1>4, <2>1
<1>11. p13 \in S /\ Joint(p12, After(12, s)) = Joint(p13, After(13, s))
  <2>1. 12 \in 6..16 /\ 12 + 1 = 13
    OBVIOUS
  <2> HIDE DEF p12
  <2> QED  BY <1>10, <1>4, <2>1
<1>12. p14 \in S /\ Joint(p13, After(13, s)) = Joint(p14, After(14, s))
  <2>1. 13 \in 6..16 /\ 13 + 1 = 14
    OBVIOUS
  <2> HIDE DEF p13
  <2> QED  BY <1>11, <1>4, <2>1
<1>13. p15 \in S /\ Joint(p14, After(14, s)) = Joint(p15, After(15, s))
  <2>1. 14 \in 6..16 /\ 14 + 1 = 15
    OBVIOUS
  <2> HIDE DEF p14
  <2> QED  BY <1>12, <1>4, <2>1
<1>14. p16 \in S /\ Joint(p15, After(15, s)) = Joint(p16, After(16, s))
  <2>1. 15 \in 6..16 /\ 15 + 1 = 16
    OBVIOUS
  <2> HIDE DEF p15
  <2> QED  BY <1>13, <1>4, <2>1
<1>15. p17 \in S /\ Joint(p16, After(16, s)) = Joint(p17, After(17, s))
  <2>1. 16 \in 6..16 /\ 16 + 1 = 17
    OBVIOUS
  <2> HIDE DEF p16
  <2> QED  BY <1>14, <1>4, <2>1
<1>16. Joint(Name, After(6, s)) = Joint(p17, After(17, s))
  BY <1>5, <1>6, <1>7, <1>8, <1>9, <1>10, <1>11, <1>12, <1>13, <1>14, <1>15, Zenon
<1>17. \A x \in S, a \in Chars :
           /\ Joint(x, <<",", a>>) = Joint(Joint(x, C), One(a))
           /\ Joint(x, <<",", a, ",">>) = Joint(Joint(Joint(x, C), One(a)), C)
  <2>1. "," \in Chars
    BY Characters DEF Chars
  <2> HIDE DEF Chars
  <2> SUFFICES ASSUME NEW x \in Word(Chars), NEW a \in Chars
               PROVE  /\ Joint(x, <<",", a>>) = Joint(Joint(x, C), One(a))
                      /\ Joint(x, <<",", a, ",">>) = Joint(Joint(Joint(x, C), One(a)), C)
    BY DEF S
  <2> DEFINE d == ","
  <2> HIDE DEF d
  <2>2. d \in Chars
    BY <2>1 DEF d
  <2>3. Joint(x, <<d, a>>) = Joint(Joint(x, One(d)), One(a))
    BY <2>2, TwoMore
  <2>4. Joint(x, <<d, a, d>>) = Joint(Joint(Joint(x, One(d)), One(a)), One(d))
    BY <2>2, ThreeMore
  <2> QED  BY <2>3, <2>4 DEF C, d
<1>18. /\ s.status \in Chars /\ s.ns \in Chars /\ s.ew \in Chars /\ s.mew \in Chars
  BY Characters DEF Reports, Chars
<1>19. /\ p9 = Joint(Joint(p7, <<",", s.status, ",">>), s.lat)
       /\ p11 = Joint(Joint(p9, <<",", s.ns, ",">>), s.lon)
       /\ p13 = Joint(Joint(p11, <<",", s.ew, ",">>), s.spd)
       /\ p17 = Joint(p16, <<",", s.mew>>)
  <2>1. /\ Text(8, s) = One(s.status) /\ Text(9, s) = s.lat /\ Text(10, s) = One(s.ns)
        /\ Text(11, s) = s.lon /\ Text(12, s) = One(s.ew) /\ Text(13, s) = s.spd
        /\ Text(17, s) = One(s.mew)
    BY DEF Text
  <2>2. p9 = Joint(Joint(p7, <<",", s.status, ",">>), s.lat)
    <3>1. p9 = Joint(Joint(Joint(Joint(p7, C), One(s.status)), C), s.lat)
      BY <2>1
    <3> HIDE DEF p7, p9
    <3> QED  BY <1>5, <1>17, <1>18, <3>1
  <2>3. p11 = Joint(Joint(p9, <<",", s.ns, ",">>), s.lon)
    <3>1. p11 = Joint(Joint(Joint(Joint(p9, C), One(s.ns)), C), s.lon)
      BY <2>1
    <3> HIDE DEF p9, p11
    <3> QED  BY <1>7, <1>17, <1>18, <3>1
  <2>4. p13 = Joint(Joint(p11, <<",", s.ew, ",">>), s.spd)
    <3>1. p13 = Joint(Joint(Joint(Joint(p11, C), One(s.ew)), C), s.spd)
      BY <2>1
    <3> HIDE DEF p11, p13
    <3> QED  BY <1>9, <1>17, <1>18, <3>1
  <2>5. p17 = Joint(p16, <<",", s.mew>>)
    <3>1. p17 = Joint(Joint(p16, C), One(s.mew))
      BY <2>1
    <3> HIDE DEF p16, p17
    <3> QED  BY <1>14, <1>17, <1>18, <3>1
  <2> QED  BY <2>2, <2>3, <2>4, <2>5
<1>20. Body(s) = Joint(p17, After(17, s))
  <2>1. /\ Text(7, s) = s.time /\ Text(14, s) = s.cmg /\ Text(15, s) = s.date
        /\ Text(16, s) = s.magn /\ After(17, s) = s.mode
    BY DEF Text, After, After17
  <2>2. /\ p7 = Joint(Joint(Name, C), s.time) /\ p14 = Joint(Joint(p13, C), s.cmg)
        /\ p15 = Joint(Joint(p14, C), s.date) /\ p16 = Joint(Joint(p15, C), s.magn)
    BY <2>1
  <2> HIDE DEF p7, p8, p9, p10, p11, p12, p13, p14, p15, p16, p17
  <2> QED  BY <1>19, <2>1, <2>2 DEF Body, C, Joint, One
<1> QED  BY <1>16, <1>20

-----------------------------------------------------------------------------
(* What is left of the body behind its n-th character.                     *)

Rest(n, s) == Drop(Body(s), n)

\* A body begins with the name, and has no character that begins or ends a
\* sentence, nor another "G".
LEMMA BodyFacts ==
    ASSUME NEW s \in Reports
    PROVE  /\ Body(s) \in Word(Chars) /\ Len(Body(s)) \in Nat /\ Len(Body(s)) >= 6
           /\ \A i \in 1..5 : Body(s)[i] = Name[i]
           /\ \A i \in 6..Len(Body(s)) : Body(s)[i] \in BodyChar
           /\ Rest(5, s) = After(6, s)
<1> DEFINE a == After(6, s)
           b == Joint(Text(7, s), After(7, s))
<1>1. a \in Word(BodyChar) /\ a \in Word(Chars) /\ Name \in Word(Chars)
  <2>1. a \in Word(BodyChar)
    BY AfterChars
  <2>2. BodyChar \subseteq Chars
    BY BodyChars
  <2> HIDE DEF a
  <2> QED  BY <2>1, <2>2, WiderWord, NameChars
<1>2. Len(a) \in Nat /\ Len(a) >= 1
  <2>1. Text(7, s) \in Word(BodyChar) /\ After(7, s) \in Word(BodyChar)
    BY TextChars, AfterChars
  <2>2. b \in Word(BodyChar)
    BY <2>1, JointFacts
  <2>3. a = Joint(One(","), b)
    <3>1. 6 \in 6..16 /\ 6 + 1 = 7
      OBVIOUS
    <3> QED  BY <3>1, AfterNext
  <2>4. "," \in BodyChar
    BY DEF BodyChar
  <2> DEFINE c == ","
  <2> HIDE DEF a, b, c, BodyChar
  <2>5. c \in BodyChar
    BY <2>4 DEF c
  <2>6. Len(Joint(One(c), b)) = Len(b) + 1 /\ Len(b) \in Nat
    BY <2>2, <2>5, PutBefore, WordFacts
  <2>7. a = Joint(One(c), b)
    BY <2>3 DEF c
  <2> QED  BY <2>6, <2>7
<1>3. Body(s) = Joint(Name, a)
  BY BodyParts
<1>4. Len(Name) = 5
  BY DEF Name
<1> HIDE DEF a, Chars, BodyChar
<1>5. Drop(Joint(Name, a), Len(Name)) = a
  BY <1>1, Prefixed
<1>6. /\ Joint(Name, a) \in Word(Chars) /\ Len(Joint(Name, a)) = Len(Name) + Len(a)
      /\ \A i \in 1..(Len(Name) + Len(a)) :
             Joint(Name, a)[i] = IF i <= Len(Name) THEN Name[i] ELSE a[i - Len(Name)]
  BY <1>1, JointFacts
<1> DEFINE x == Joint(Name, a)
           L == Len(x)
           l == Len(a)
<1>7. L = 5 + l /\ \A i \in 1..(5 + l) : x[i] = IF i <= 5 THEN Name[i] ELSE a[i - 5]
  BY <1>4, <1>6
<1>8. l \in Nat /\ l >= 1 /\ \A i \in 1..l : a[i] \in BodyChar
  BY <1>1, <1>2, WordFacts
<1>9. x \in Word(Chars) /\ Drop(x, 5) = a
  BY <1>4, <1>5, <1>6
<1> HIDE DEF x, l, L
<1>10. L \in Nat /\ L >= 6 /\ \A i \in 1..5 : x[i] = Name[i]
  BY <1>7, <1>8
<1>11. ASSUME NEW i \in 6..L PROVE x[i] \in BodyChar
  <2>1. i \in 1..(5 + l) /\ ~(i <= 5) /\ i - 5 \in 1..l
    BY <1>7, <1>8
  <2> QED  BY <1>7, <1>8, <2>1
<1>12. x = Body(s)
  BY <1>3 DEF x
<1> QED  BY <1>9, <1>10, <1>11, <1>12 DEF L, a, Rest

LEMMA RestFacts ==
    ASSUME NEW s \in Reports, NEW n \in 0..Len(Body(s))
    PROVE  /\ Rest(n, s) \in Word(Chars) /\ Len(Rest(n, s)) = Len(Body(s)) - n
           /\ n < Len(Body(s)) =>
                  Body(s)[n + 1] \in Chars /\ Rest(n, s) = Joint(One(Body(s)[n + 1]), Rest(n + 1, s))
<1> HIDE DEF Chars
<1>1. Body(s) \in Word(Chars)
  BY BodyFacts
<1> QED  BY <1>1, Dropped DEF Rest

\* What is still to come says what the next character is.
LEMMA RestStep ==
    ASSUME NEW s \in Reports, NEW n \in 0..Len(Body(s)), NEW c \in Chars, NEW r \in Word(Chars),
           Rest(n, s) = Joint(One(c), r)
    PROVE  n < Len(Body(s)) /\ Body(s)[n + 1] = c /\ Rest(n + 1, s) = r
<1> DEFINE L == Len(Body(s))
<1> HIDE DEF Chars
<1>1. Len(Rest(n, s)) = Len(r) + 1 /\ Len(r) \in Nat
  BY PutBefore, WordFacts
<1>2. L \in Nat /\ Len(Rest(n, s)) = L - n
  BY BodyFacts, RestFacts
<1>3. n < L
  <2> HIDE DEF L
  <2> QED  BY <1>1, <1>2
<1>4. Body(s)[n + 1] \in Chars /\ Joint(One(Body(s)[n + 1]), Rest(n + 1, s)) = Joint(One(c), r)
  BY <1>3, RestFacts
<1>5. n + 1 \in 0..Len(Body(s))
  BY <1>2, <1>3
<1>6. Rest(n + 1, s) \in Word(Chars)
  BY <1>5, RestFacts
<1> DEFINE d == Body(s)[n + 1]
           t == Rest(n + 1, s)
<1> HIDE DEF d, t
<1>7. d \in Chars /\ t \in Word(Chars) /\ Joint(One(d), t) = Joint(One(c), r)
  BY <1>4, <1>6 DEF d, t
<1>8. d = c /\ t = r
  BY <1>7, Heads
<1> QED  BY <1>3, <1>8 DEF d, t

LEMMA RestNone ==
    ASSUME NEW s \in Reports, NEW n \in 0..Len(Body(s)), Rest(n, s) = <<>>
    PROVE  n = Len(Body(s))
<1>1. Len(Rest(n, s)) = Len(Body(s)) - n /\ Len(Body(s)) \in Nat
  BY RestFacts, BodyFacts
<1>2. Len(Rest(n, s)) = 0
  OBVIOUS
<1> QED  BY <1>1, <1>2

-----------------------------------------------------------------------------
(* Beginnings of words, and what a buffer keeps of a field.                *)

First(t, n) == SubSeq(t, 1, n)

LEMMA FirstFacts ==
    ASSUME NEW S, NEW t \in Word(S), NEW n \in 0..Len(t)
    PROVE  /\ First(t, n) \in Word(S) /\ Len(First(t, n)) = n
           /\ \A i \in 1..n : First(t, n)[i] = t[i]
<1>1. n \in Nat /\ n <= Len(t) /\ Len(t) \in Nat /\ t \in Seq(S)
  BY DEF Word
<1>2. \A i \in 1..n : t[i] \in S
  BY <1>1
<1> QED  BY <1>1, <1>2, SubSeqProperties DEF First, Word

LEMMA FirstNone == ASSUME NEW S, NEW t \in Word(S) PROVE First(t, 0) = <<>>
<1> DEFINE x == First(t, 0)
           e == <<>>
<1>1. x \in Word(S) /\ Len(x) = 0
  <2>1. Len(t) \in Nat /\ 0 \in 0..Len(t)
    BY WordFacts
  <2> QED  BY <2>1, FirstFacts
<1> HIDE DEF x
<1>2. e \in Word(S) /\ Len(e) = 0
  BY Nothing
<1> HIDE DEF e
<1>3. x = e
  BY <1>1, <1>2, SameWord
<1> QED  BY <1>3 DEF x, e

LEMMA FirstAll == ASSUME NEW S, NEW t \in Word(S) PROVE First(t, Len(t)) = t
<1>1. Len(t) \in 0..Len(t)
  BY WordFacts
<1>2. /\ First(t, Len(t)) \in Word(S) /\ Len(First(t, Len(t))) = Len(t)
      /\ \A i \in 1..Len(t) : First(t, Len(t))[i] = t[i]
  BY <1>1, FirstFacts
<1> QED  BY <1>2, SameWord

LEMMA Appended ==
    ASSUME NEW S, NEW a \in Word(S), NEW c \in S
    PROVE  Append(a, c) = Joint(a, One(c)) /\ Append(a, c) \in Word(S)
  BY AppendIsConcat, AppendProperties DEF Word, Joint, One

LEMMA FirstMore ==
    ASSUME NEW S, NEW t \in Word(S), NEW n \in 0..Len(t), n < Len(t)
    PROVE  First(t, n + 1) = Append(First(t, n), t[n + 1])
<1>1. n + 1 \in 1..Len(t) /\ n + 1 \in 1..(n + 1) /\ t \in Seq(S) /\ Len(t) \in Nat /\ 1 \in 1..Len(t)
  BY WordFacts DEF Word
<1>2. SubSeq(t, 1, n + 1) = SubSeq(t, 1, (n + 1) - 1) \o <<t[n + 1]>>
  BY <1>1, SubSeqRecursiveSecond
<1>3. t[n + 1] \in S /\ First(t, n) \in Word(S)
  BY <1>1, FirstFacts, WordFacts
<1>4. First(t, n + 1) = Joint(First(t, n), One(t[n + 1]))
  BY <1>1, <1>2 DEF First, Joint, One
<1> QED  BY <1>3, <1>4, Appended

Least(a, b) == IF a <= b THEN a ELSE b

LEMMA MinOfTwo ==
    ASSUME NEW a \in Nat, NEW b \in Nat
    PROVE  Min({a, b}) = Least(a, b)
<1>1. Min({a, b}) \in {a, b} /\ \A y \in {a, b} : Min({a, b}) <= y
  <2> DEFINE T == {a, b}
  <2>1. T \in SUBSET Nat /\ T # {}
    OBVIOUS
  <2> HIDE DEF T
  <2>2. Min(T) \in T /\ \A y \in T : Min(T) <= y
    BY <2>1, LeastPlace
  <2> QED  BY <2>2 DEF T
<1> DEFINE m == Min({a, b})
<1> HIDE DEF m
<1>2. m \in {a, b} /\ m <= a /\ m <= b
  BY <1>1 DEF m
<1>3. m = Least(a, b)
  BY <1>2 DEF Least
<1> QED  BY <1>3 DEF m

Letters == {10, 12, 17}

\* How many characters state k writes, of a number.
Room(k) == (Size[Fills[k]] + 1) - Spare(k)

Cut(k, j, s) == First(Text(k, s), Least(j, Room(k)))

\* The buffer, when j characters of Text(k, s) were read in state k.
Held(k, j, s) ==
    IF k \in Letters THEN Joint(Cut(k - 1, Len(Text(k - 1, s)), s), First(Text(k, s), j))
    ELSE Cut(k, j, s)

LEMMA Widths ==
    ASSUME NEW k \in DOMAIN Fills
    PROVE  /\ Size[Fills[k]] \in Nat /\ Size[Fills[k]] >= 2
           /\ k \in Ending => Room(k) = Size[Fills[k]] - 1
           /\ k \notin Ending => Room(k) = Size[Fills[k]] - 2
           /\ Room(k) \in Nat
<1>1. Size[Fills[k]] \in Nat /\ Size[Fills[k]] >= 2
  BY FillFields, NmeaConstants
<1>2. Spare(k) = IF k \in Ending THEN 2 ELSE 3
  BY DEF Spare
<1> QED  BY <1>1, <1>2 DEF Room

LEMMA KeptNumber ==
    ASSUME NEW n \in Word(Chars), NEW m \in Nat, m >= 2
    PROVE  SubSeq(n, 1, Min({Len(n), m - 1 - Len(<<>>)})) \o <<>> = First(n, Least(Len(n), m - 1))
<1> HIDE DEF Chars
<1>1. Len(<<>>) = 0 /\ m - 1 \in Nat /\ Len(n) \in Nat /\ (m - 1) - 0 = m - 1
  BY WordFacts
<1>2. Min({Len(n), m - 1 - Len(<<>>)}) = Least(Len(n), m - 1)
  BY <1>1, MinOfTwo
<1> DEFINE l == Least(Len(n), m - 1)
<1>3. l \in 0..Len(n)
  BY <1>1 DEF Least
<1> HIDE DEF l
<1>4. First(n, l) \in Word(Chars)
  BY <1>3, FirstFacts
<1>5. Joint(First(n, l), <<>>) = First(n, l)
  BY <1>4, JointNothing
<1> QED  BY <1>2, <1>5 DEF l, Joint, First

LEMMA KeptLetter ==
    ASSUME NEW n \in Word(Chars), NEW m \in Nat, m >= 2, NEW c
    PROVE  SubSeq(n, 1, Min({Len(n), m - 1 - Len(<<c>>)})) \o <<c>>
             = Joint(First(n, Least(Len(n), m - 2)), One(c))
<1> HIDE DEF Chars
<1>1. Len(<<c>>) = 1 /\ m - 2 \in Nat /\ Len(n) \in Nat /\ (m - 1) - 1 = m - 2
  BY WordFacts
<1>2. Min({Len(n), m - 1 - Len(<<c>>)}) = Least(Len(n), m - 2)
  BY <1>1, MinOfTwo
<1> QED  BY <1>2 DEF Joint, First, One

LEMMA FillNames ==
    /\ Fills[7] = "time" /\ Fills[9] = "lat" /\ Fills[10] = "lat" /\ Fills[11] = "lon"
    /\ Fills[12] = "lon" /\ Fills[13] = "spd" /\ Fills[14] = "cmg" /\ Fills[15] = "date"
    /\ Fills[16] = "magn" /\ Fills[17] = "magn"
  BY DEF Fills

\* What a state hands over is what the buffers can hold of the field.
LEMMA HeldIsKept ==
    ASSUME NEW s \in Reports, NEW k \in Ending
    PROVE  Held(k, Len(Text(k, s)), s) = Kept(s)[Fills[k]]
<1>1. /\ s.time \in Word(Chars) /\ s.lat \in Word(Chars) /\ s.lon \in Word(Chars)
      /\ s.spd \in Word(Chars) /\ s.cmg \in Word(Chars) /\ s.date \in Word(Chars)
      /\ s.magn \in Word(Chars)
  <2>1. Number \subseteq Chars /\ Digit \subseteq Chars
    BY Characters DEF Chars, Number
  <2> HIDE DEF Chars
  <2> QED  BY <2>1, Wider DEF Reports, Word
<1>2. \A f \in Field : Size[f] \in Nat /\ Size[f] >= 2
  BY NmeaConstants
<1>3. /\ Text(7, s) = s.time /\ Text(9, s) = s.lat /\ Text(10, s) = One(s.ns)
      /\ Text(11, s) = s.lon /\ Text(12, s) = One(s.ew) /\ Text(13, s) = s.spd
      /\ Text(14, s) = s.cmg /\ Text(15, s) = s.date /\ Text(16, s) = s.magn
      /\ Text(17, s) = One(s.mew)
  BY DEF Text
<1>4. /\ Room(7) = Size["time"] - 1 /\ Room(9) = Size["lat"] - 2 /\ Room(11) = Size["lon"] - 2
      /\ Room(13) = Size["spd"] - 1 /\ Room(14) = Size["cmg"] - 1 /\ Room(15) = Size["date"] - 1
      /\ Room(16) = Size["magn"] - 2
  BY Widths, EndStates, FillDomain, FillNames
<1>5. ASSUME NEW j \in {7, 13, 14, 15} PROVE Held(j, Len(Text(j, s)), s) = First(Text(j, s), Least(Len(Text(j, s)), Room(j)))
  BY DEF Held, Cut, Letters
<1>6. ASSUME NEW j \in {10, 12, 17}, NEW c, Text(j, s) = One(c)
      PROVE  Held(j, Len(Text(j, s)), s)
               = Joint(First(Text(j - 1, s), Least(Len(Text(j - 1, s)), Room(j - 1))), One(c))
  <2>1. One(c) \in Word({c})
    BY OneFacts
  <2>2. First(Text(j, s), Len(Text(j, s))) = One(c)
    BY <1>6, <2>1, FirstAll
  <2> QED  BY <2>2 DEF Held, Cut, Letters
<1>7. CASE k = 7
  <2>1. Kept(s).time = SubSeq(s.time, 1, Min({Len(s.time), Size["time"] - 1 - Len(<<>>)})) \o <<>>
    BY DEF Kept
  <2>2. Size["time"] \in Nat /\ Size["time"] >= 2
    BY <1>2 DEF Field
  <2>3. Kept(s).time = First(s.time, Least(Len(s.time), Size["time"] - 1))
    BY <1>1, <2>1, <2>2, KeptNumber
  <2>4. Held(7, Len(Text(7, s)), s) = First(s.time, Least(Len(s.time), Size["time"] - 1))
    BY <1>3, <1>4, <1>5
  <2> QED  BY <1>7, <2>3, <2>4, FillNames
<1>8. CASE k = 13
  <2>1. Kept(s).spd = SubSeq(s.spd, 1, Min({Len(s.spd), Size["spd"] - 1 - Len(<<>>)})) \o <<>>
    BY DEF Kept
  <2>2. Size["spd"] \in Nat /\ Size["spd"] >= 2
    BY <1>2 DEF Field
  <2>3. Kept(s).spd = First(s.spd, Least(Len(s.spd), Size["spd"] - 1))
    BY <1>1, <2>1, <2>2, KeptNumber
  <2>4. Held(13, Len(Text(13, s)), s) = First(s.spd, Least(Len(s.spd), Size["spd"] - 1))
    BY <1>3, <1>4, <1>5
  <2> QED  BY <1>8, <2>3, <2>4, FillNames
<1>9. CASE k = 14
  <2>1. Kept(s).cmg = SubSeq(s.cmg, 1, Min({Len(s.cmg), Size["cmg"] - 1 - Len(<<>>)})) \o <<>>
    BY DEF Kept
  <2>2. Size["cmg"] \in Nat /\ Size["cmg"] >= 2
    BY <1>2 DEF Field
  <2>3. Kept(s).cmg = First(s.cmg, Least(Len(s.cmg), Size["cmg"] - 1))
    BY <1>1, <2>1, <2>2, KeptNumber
  <2>4. Held(14, Len(Text(14, s)), s) = First(s.cmg, Least(Len(s.cmg), Size["cmg"] - 1))
    BY <1>3, <1>4, <1>5
  <2> QED  BY <1>9, <2>3, <2>4, FillNames
<1>10. CASE k = 15
  <2>1. Kept(s).date = SubSeq(s.date, 1, Min({Len(s.date), Size["date"] - 1 - Len(<<>>)})) \o <<>>
    BY DEF Kept
  <2>2. Size["date"] \in Nat /\ Size["date"] >= 2
    BY <1>2 DEF Field
  <2>3. Kept(s).date = First(s.date, Least(Len(s.date), Size["date"] - 1))
    BY <1>1, <2>1, <2>2, KeptNumber
  <2>4. Held(15, Len(Text(15, s)), s) = First(s.date, Least(Len(s.date), Size["date"] - 1))
    BY <1>3, <1>4, <1>5
  <2> QED  BY <1>10, <2>3, <2>4, FillNames
<1>11. CASE k = 10
  <2>1. Kept(s).lat = SubSeq(s.lat, 1, Min({Len(s.lat), Size["lat"] - 1 - Len(<<s.ns>>)})) \o <<s.ns>>
    BY DEF Kept
  <2>2. Size["lat"] \in Nat /\ Size["lat"] >= 2
    BY <1>2 DEF Field
  <2>3. Kept(s).lat = Joint(First(s.lat, Least(Len(s.lat), Size["lat"] - 2)), One(s.ns))
    <3>1. s.lat \in Word(Chars)
      BY <1>1
    <3>2. SubSeq(s.lat, 1, Min({Len(s.lat), Size["lat"] - 1 - Len(<<s.ns>>)})) \o <<s.ns>>
            = Joint(First(s.lat, Least(Len(s.lat), Size["lat"] - 2)), One(s.ns))
      BY <2>2, <3>1, KeptLetter
    <3> QED  BY <2>1, <3>2, Zenon
  <2>4. Held(10, Len(Text(10, s)), s)
          = Joint(First(s.lat, Least(Len(s.lat), Size["lat"] - 2)), One(s.ns))
    <3>1. 10 - 1 = 9 /\ 10 \in {10, 12, 17}
      OBVIOUS
    <3> QED  BY <1>3, <1>4, <1>6, <3>1
  <2> QED  BY <1>11, <2>3, <2>4, FillNames
<1>12. CASE k = 12
  <2>1. Kept(s).lon = SubSeq(s.lon, 1, Min({Len(s.lon), Size["lon"] - 1 - Len(<<s.ew>>)})) \o <<s.ew>>
    BY DEF Kept
  <2>2. Size["lon"] \in Nat /\ Size["lon"] >= 2
    BY <1>2 DEF Field
  <2>3. Kept(s).lon = Joint(First(s.lon, Least(Len(s.lon), Size["lon"] - 2)), One(s.ew))
    <3>1. s.lon \in Word(Chars)
      BY <1>1
    <3>2. SubSeq(s.lon, 1, Min({Len(s.lon), Size["lon"] - 1 - Len(<<s.ew>>)})) \o <<s.ew>>
            = Joint(First(s.lon, Least(Len(s.lon), Size["lon"] - 2)), One(s.ew))
      BY <2>2, <3>1, KeptLetter
    <3> QED  BY <2>1, <3>2, Zenon
  <2>4. Held(12, Len(Text(12, s)), s)
          = Joint(First(s.lon, Least(Len(s.lon), Size["lon"] - 2)), One(s.ew))
    <3>1. 12 - 1 = 11 /\ 12 \in {10, 12, 17}
      OBVIOUS
    <3> QED  BY <1>3, <1>4, <1>6, <3>1
  <2> QED  BY <1>12, <2>3, <2>4, FillNames
<1>13. CASE k = 17
  <2>1. Kept(s).magn = SubSeq(s.magn, 1, Min({Len(s.magn), Size["magn"] - 1 - Len(<<s.mew>>)})) \o <<s.mew>>
    BY DEF Kept
  <2>2. Size["magn"] \in Nat /\ Size["magn"] >= 2
    BY <1>2 DEF Field
  <2>3. Kept(s).magn = Joint(First(s.magn, Least(Len(s.magn), Size["magn"] - 2)), One(s.mew))
    <3>1. s.magn \in Word(Chars)
      BY <1>1
    <3>2. SubSeq(s.magn, 1, Min({Len(s.magn), Size["magn"] - 1 - Len(<<s.mew>>)})) \o <<s.mew>>
            = Joint(First(s.magn, Least(Len(s.magn), Size["magn"] - 2)), One(s.mew))
      BY <2>2, <3>1, KeptLetter
    <3> QED  BY <2>1, <3>2, Zenon
  <2>4. Held(17, Len(Text(17, s)), s)
          = Joint(First(s.magn, Least(Len(s.magn), Size["magn"] - 2)), One(s.mew))
    <3>1. 17 - 1 = 16 /\ 17 \in {10, 12, 17}
      OBVIOUS
    <3> QED  BY <1>3, <1>4, <1>6, <3>1
  <2> QED  BY <1>13, <2>3, <2>4, FillNames
<1> QED  BY <1>7, <1>8, <1>9, <1>10, <1>11, <1>12, <1>13, EndStates

-----------------------------------------------------------------------------
(* One field after another.                                                *)

LEMMA TextWord ==
    ASSUME NEW s \in Reports, NEW k \in 7..17
    PROVE  /\ Text(k, s) \in Word(Chars) /\ Len(Text(k, s)) \in Nat
           /\ After(k, s) \in Word(Chars)
<1>1. Text(k, s) \in Word(BodyChar) /\ After(k, s) \in Word(BodyChar)
  BY TextChars, AfterChars
<1>2. BodyChar \subseteq Chars
  BY BodyChars
<1> HIDE DEF Chars, BodyChar
<1>3. Text(k, s) \in Word(Chars) /\ After(k, s) \in Word(Chars)
  BY <1>1, <1>2, WiderWord
<1> QED  BY <1>3, WordFacts

\* The next character, while there is one of this field.
LEMMA NextOfField ==
    ASSUME NEW s \in Reports, NEW n \in 0..Len(Body(s)), NEW k \in 7..17,
           NEW j \in 0..Len(Text(k, s)), j < Len(Text(k, s)),
           Rest(n, s) = Joint(Drop(Text(k, s), j), After(k, s))
    PROVE  /\ n < Len(Body(s)) /\ Body(s)[n + 1] = Text(k, s)[j + 1]
           /\ j + 1 \in 0..Len(Text(k, s))
           /\ Rest(n + 1, s) = Joint(Drop(Text(k, s), j + 1), After(k, s))
<1> DEFINE t == Text(k, s)
           a == After(k, s)
           c == t[j + 1]
           r == Drop(t, j + 1)
<1>1. t \in Word(Chars) /\ Len(t) \in Nat /\ a \in Word(Chars)
  BY TextWord
<1>2. j \in 0..Len(t) /\ j < Len(t) /\ Rest(n, s) = Joint(Drop(t, j), a)
  OBVIOUS
<1> HIDE DEF Chars, t, a
<1>3. j + 1 \in 0..Len(t)
  BY <1>1, <1>2
<1>4. c \in Chars /\ Drop(t, j) = Joint(One(c), r)
  BY <1>1, <1>2, Dropped
<1>5. r \in Word(Chars)
  BY <1>1, <1>3, Dropped
<1> HIDE DEF c, r
<1>6. One(c) \in Word(Chars) /\ Joint(r, a) \in Word(Chars)
  BY <1>1, <1>4, <1>5, OneFacts, JointFacts
<1>7. Joint(Joint(One(c), r), a) = Joint(One(c), Joint(r, a))
  BY <1>1, <1>5, <1>6, Regrouped
<1>8. Rest(n, s) = Joint(One(c), Joint(r, a))
  BY <1>2, <1>4, <1>7
<1>9. n < Len(Body(s)) /\ Body(s)[n + 1] = c /\ Rest(n + 1, s) = Joint(r, a)
  BY <1>4, <1>6, <1>8, RestStep
<1> QED  BY <1>3, <1>9 DEF c, r, t, a

LEMMA FieldEnds ==
    ASSUME NEW s \in Reports, NEW n \in 0..Len(Body(s)), NEW k \in 7..17,
           Rest(n, s) = Joint(Drop(Text(k, s), Len(Text(k, s))), After(k, s))
    PROVE  Rest(n, s) = After(k, s)
<1> DEFINE t == Text(k, s)
           a == After(k, s)
<1>1. t \in Word(Chars) /\ a \in Word(Chars) /\ Rest(n, s) = Joint(Drop(t, Len(t)), a)
  BY TextWord
<1> HIDE DEF Chars, t, a
<1>2. Drop(t, Len(t)) = <<>> /\ Joint(<<>>, a) = a
  BY <1>1, DroppedAll, JointNothing
<1> QED  BY <1>1, <1>2 DEF a

\* The comma after a field, and the field that follows.
LEMMA NextField ==
    ASSUME NEW s \in Reports, NEW n \in 0..Len(Body(s)), NEW k \in 6..16,
           Rest(n, s) = After(k, s)
    PROVE  /\ n < Len(Body(s)) /\ Body(s)[n + 1] = ","
           /\ Rest(n + 1, s) = Joint(Drop(Text(k + 1, s), 0), After(k + 1, s))
<1> DEFINE m == k + 1
           t == Text(m, s)
           a == After(m, s)
           c == ","
<1>1. m \in 7..17
  OBVIOUS
<1>2. After(k, s) = Joint(One(c), Joint(t, a))
  BY AfterNext
<1>3. c \in Chars
  BY Characters DEF Chars
<1> HIDE DEF m
<1>4. t \in Word(Chars) /\ a \in Word(Chars)
  BY <1>1, TextWord
<1> HIDE DEF Chars, t, a, c
<1>5. Joint(t, a) \in Word(Chars) /\ Drop(t, 0) = t
  BY <1>4, JointFacts, DroppedAll
<1>6. Rest(n, s) = Joint(One(c), Joint(t, a))
  BY <1>2
<1>7. n < Len(Body(s)) /\ Body(s)[n + 1] = c /\ Rest(n + 1, s) = Joint(t, a)
  BY <1>3, <1>5, <1>6, RestStep
<1> QED  BY <1>5, <1>7 DEF c, t, a, m

LEMMA LettersLong ==
    ASSUME NEW s \in Reports, NEW k \in Letters
    PROVE  /\ Text(k, s) = One(Text(k, s)[1]) /\ Len(Text(k, s)) = 1
           /\ k \in DOMAIN Fills /\ k \in Ending /\ k - 1 \in DOMAIN Fills /\ k - 1 \notin Ending
           /\ Fills[k - 1] = Fills[k] /\ k - 1 \in 7..17 /\ k \in 7..17
<1>1. k \in {10, 12, 17}
  BY DEF Letters
<1>2. \E x : Text(k, s) = One(x)
  <2>1. Text(10, s) = One(s.ns) /\ Text(12, s) = One(s.ew) /\ Text(17, s) = One(s.mew)
    BY DEF Text
  <2> QED  BY <1>1, <2>1
<1>3. PICK x : Text(k, s) = One(x)
  BY <1>2
<1>4. One(x)[1] = x /\ Len(One(x)) = 1
  <2>1. x \in {x}
    OBVIOUS
  <2> QED  BY <2>1, OneFacts
<1>5. k \in DOMAIN Fills /\ k \in Ending /\ k - 1 \in DOMAIN Fills /\ k - 1 \notin Ending
  BY <1>1, FillDomain, EndStates
<1>6. Fills[k - 1] = Fills[k]
  BY <1>1, FillTwins
<1> QED  BY <1>1, <1>3, <1>4, <1>5, <1>6

\* What is in the buffer at the comma is what the next state starts from.
LEMMA HeldOn ==
    ASSUME NEW s \in Reports
    PROVE  /\ \A k \in {9, 11, 16} : Held(k + 1, 0, s) = Held(k, Len(Text(k, s)), s)
           /\ \A k \in DOMAIN Fills \ Letters : Held(k, 0, s) = <<>>
<1>1. ASSUME NEW k \in {9, 11, 16} PROVE Held(k + 1, 0, s) = Held(k, Len(Text(k, s)), s)
  <2> DEFINE m == k + 1
             x == Cut(k, Len(Text(k, s)), s)
  <2>1. m \in Letters /\ k \notin Letters /\ m - 1 = k /\ k \in 7..17 /\ m \in 7..17 /\ k \in DOMAIN Fills
    BY FillDomain DEF Letters
  <2> HIDE DEF m
  <2>2. Held(m, 0, s) = Joint(x, First(Text(m, s), 0))
    BY <2>1 DEF Held
  <2>3. Held(k, Len(Text(k, s)), s) = x
    BY <2>1 DEF Held
  <2> HIDE DEF Chars
  <2>4. Text(k, s) \in Word(Chars) /\ Text(m, s) \in Word(Chars) /\ Len(Text(k, s)) \in Nat
    BY <2>1, TextWord
  <2>5. Least(Len(Text(k, s)), Room(k)) \in 0..Len(Text(k, s))
    BY <2>1, <2>4, Widths DEF Least
  <2>6. x \in Word(Chars)
    BY <2>4, <2>5, FirstFacts DEF Cut
  <2>7. First(Text(m, s), 0) = <<>>
    BY <2>4, FirstNone
  <2> HIDE DEF x
  <2>8. Joint(x, <<>>) = x
    BY <2>6, JointNothing
  <2> QED  BY <2>2, <2>3, <2>7, <2>8 DEF m
<1>2. ASSUME NEW k \in DOMAIN Fills \ Letters PROVE Held(k, 0, s) = <<>>
  <2>1. k \in 7..17
    BY FillDomain
  <2>2. Text(k, s) \in Word(Chars)
    BY <2>1, TextWord
  <2>3. Least(0, Room(k)) = 0
    BY Widths DEF Least
  <2> HIDE DEF Chars
  <2>4. First(Text(k, s), 0) = <<>>
    BY <2>2, FirstNone
  <2> QED  BY <2>3, <2>4 DEF Held, Cut
<1> QED  BY <1>1, <1>2

\* One more character of the field, in the buffer or dropped.
LEMMA HeldMore ==
    ASSUME NEW s \in Reports, NEW k \in DOMAIN Fills, NEW j \in 0..Len(Text(k, s)),
           j < Len(Text(k, s))
    PROVE  LET b == Held(k, j, s)
           IN  /\ Len(b) + Spare(k) <= Size[Fills[k]]
                    => Held(k, j + 1, s) = Append(b, Text(k, s)[j + 1])
               /\ ~(Len(b) + Spare(k) <= Size[Fills[k]]) => Held(k, j + 1, s) = b
<1> DEFINE t == Text(k, s)
           c == t[j + 1]
           b == Held(k, j, s)
<1> HIDE DEF Chars
<1>1. k \in 7..17
  BY FillDomain
<1>2. t \in Word(Chars) /\ Len(t) \in Nat /\ j \in Nat /\ j + 1 \in 0..Len(t) /\ j \in 0..Len(t) /\ j < Len(t)
  <2>1. t \in Word(Chars) /\ Len(t) \in Nat
    BY <1>1, TextWord
  <2>2. j \in 0..Len(t) /\ j < Len(t)
    OBVIOUS
  <2> HIDE DEF t
  <2> QED  BY <2>1, <2>2
<1>3. /\ Size[Fills[k]] \in Nat /\ Room(k) \in Nat /\ Spare(k) \in {2, 3}
      /\ Room(k) = (Size[Fills[k]] + 1) - Spare(k)
  BY Widths DEF Room, Spare
<1>4. CASE k \in Letters
  <2> DEFINE p == Text(k - 1, s)
             x == Cut(k - 1, Len(p), s)
  <2>1. /\ t = One(t[1]) /\ Len(t) = 1 /\ k \in Ending /\ k - 1 \in DOMAIN Fills
        /\ k - 1 \notin Ending /\ Fills[k - 1] = Fills[k] /\ k - 1 \in 7..17
    BY <1>4, LettersLong
  <2>2. p \in Word(Chars) /\ Len(p) \in Nat
    BY <2>1, TextWord
  <2>3. j = 0
    BY <1>2, <2>1
  <2>4. /\ Size[Fills[k - 1]] \in Nat /\ Room(k - 1) = Size[Fills[k - 1]] - 2
        /\ Room(k - 1) \in Nat
    BY <2>1, Widths
  <2>5. Spare(k) = 2
    BY <2>1 DEF Spare
  <2> DEFINE l == Least(Len(p), Room(k - 1))
  <2>6. l \in 0..Len(p) /\ l <= Size[Fills[k]] - 2
    BY <2>1, <2>2, <2>4 DEF Least
  <2>7. x = First(p, l)
    BY DEF Cut
  <2> HIDE DEF l, p
  <2>8. First(p, l) \in Word(Chars) /\ Len(First(p, l)) = l
    BY <2>2, <2>6, FirstFacts
  <2>9. x \in Word(Chars) /\ Len(x) = l
    BY <2>7, <2>8
  <2>10. First(t, 0) = <<>> /\ First(t, 1) = t
    <3>1. First(t, Len(t)) = t
      BY <1>2, FirstAll
    <3> QED  BY <1>2, <2>1, <3>1, FirstNone
  <2>11. b = Joint(x, First(t, 0)) /\ Held(k, j + 1, s) = Joint(x, First(t, 1))
    BY <1>4, <2>3 DEF Held, p
  <2> HIDE DEF x
  <2>12. b = x
    BY <2>9, <2>10, <2>11, JointNothing
  <2>13. t[1] \in Chars
    <3>1. \A i \in 1..Len(t) : t[i] \in Chars
      BY <1>2, WordFacts
    <3>2. 1 \in 1..Len(t)
      BY <2>1
    <3> QED  BY <3>1, <3>2
  <2>14. Append(x, t[1]) = Joint(x, One(t[1]))
    BY <2>9, <2>13, Appended
  <2>15. Held(k, j + 1, s) = Append(x, t[1])
    BY <2>1, <2>10, <2>11, <2>14
  <2>16. Len(b) + Spare(k) <= Size[Fills[k]]
    BY <1>3, <2>5, <2>6, <2>9, <2>12
  <2>17. c = t[1]
    BY <2>3
  <2> QED  BY <2>12, <2>15, <2>16, <2>17
<1>5. CASE k \notin Letters
  <2> DEFINE r == Room(k)
             l == Least(j, r)
  <2>1. b = First(t, Least(j, r)) /\ Held(k, j + 1, s) = First(t, Least(j + 1, r))
    BY <1>5 DEF Held, Cut
  <2>2. r \in Nat /\ r = (Size[Fills[k]] + 1) - Spare(k)
    BY <1>3
  <2> HIDE DEF r, b, t
  <2>3. Least(j, r) \in 0..Len(t)
    BY <1>2, <2>2 DEF Least
  <2>4. Len(b) = Least(j, r)
    BY <1>2, <2>1, <2>3, FirstFacts
  <2>5. CASE j < r
    <3>1. Least(j, r) = j /\ Least(j + 1, r) = j + 1
      BY <1>2, <2>2, <2>5 DEF Least
    <3>2. First(t, j + 1) = Append(First(t, j), t[j + 1])
      BY <1>2, FirstMore
    <3>3. Len(b) + Spare(k) <= Size[Fills[k]]
      BY <1>2, <1>3, <2>2, <2>4, <2>5, <3>1
    <3> QED  BY <2>1, <3>1, <3>2, <3>3 DEF b, t
  <2>6. CASE ~(j < r)
    <3>1. Least(j, r) = r /\ Least(j + 1, r) = r
      BY <1>2, <2>2, <2>6 DEF Least
    <3>2. ~(Len(b) + Spare(k) <= Size[Fills[k]])
      BY <1>3, <2>2, <2>4, <3>1
    <3> QED  BY <2>1, <3>1, <3>2 DEF b, t
  <2> QED  BY <2>5, <2>6
<1> QED  BY <1>4, <1>5

-----------------------------------------------------------------------------
(* Where the parser is in the body of a sentence.                          *)

\* The parser has read j characters of what its state takes in.
Reading(q, n, j, s) ==
    /\ Rest(n, s) = Joint(Drop(Text(q.state, s), j), After(q.state, s))
    /\ q.state # 8 => q.pbuff = Held(q.state, j, s)
    /\ q.state > 8 \/ (q.state = 8 /\ j = 1) => q.gps = (s.status = "A")

\* The fields before its state are in their buffers.
Done(q, s) ==
    \A e \in Ending : e < q.state => q.result[Fills[e]] = Kept(s)[Fills[e]]

Modes == {"A", "D", "E", "N"}

\* The parser has read the first n characters of the body of s, and has not
\* given it up.
Along(q, n, s) ==
    /\ Done(q, s)
    /\ \/ q.state \in 2..6 /\ n = q.state - 1
       \/ q.state \in 7..17 /\ \E j \in 0..Len(Text(q.state, s)) : Reading(q, n, j, s)
       \/ /\ q.state \in {18, 19} /\ q.gps = (s.status = "A")
          /\ q.state = 18 => \E m \in Modes : Rest(n, s) = One(m)
          /\ q.state = 19 => Rest(n, s) = <<>>

SameSums(p, q) == p.checksum = q.checksum /\ p.msgsum = q.msgsum

LEMMA FillApart == \A e, f \in Ending : Fills[e] = Fills[f] => e = f
  BY FillNames, EndStates

LEMMA MovedFields ==
    ASSUME NEW q \in Parser, NEW k
    PROVE  LET m == [q EXCEPT !.state = k]
           IN  /\ m.state = k /\ m.pbuff = q.pbuff /\ m.result = q.result /\ m.gps = q.gps
               /\ m.checksum = q.checksum /\ m.msgsum = q.msgsum
  BY DEF Parser

LEMMA ClosedFields ==
    ASSUME NEW q \in Parser, q.state \in DOMAIN Fills, NEW k
    PROVE  LET m == Closed(q, k)
           IN  /\ m.state = k /\ m.gps = q.gps /\ m.checksum = q.checksum /\ m.msgsum = q.msgsum
               /\ q.state \in Ending => /\ m.result = [q.result EXCEPT ![Fills[q.state]] = q.pbuff]
                                        /\ m.pbuff = <<>>
               /\ q.state \notin Ending => m.result = q.result /\ m.pbuff = q.pbuff
<1> DEFINE m == Closed(q, k)
<1>1. CASE q.state \in Ending
  <2> DEFINE x == [q.result EXCEPT ![Fills[q.state]] = q.pbuff]
             y == [q EXCEPT !.result = x, !.pbuff = <<>>, !.state = k]
  <2>1. m = y
    BY <1>1, Zenon DEF Closed
  <2> HIDE DEF x
  <2>2. /\ y.state = k /\ y.gps = q.gps /\ y.checksum = q.checksum /\ y.msgsum = q.msgsum
        /\ y.result = x /\ y.pbuff = <<>>
    BY DEF Parser
  <2> HIDE DEF m, y
  <2>3. /\ m.state = k /\ m.gps = q.gps /\ m.checksum = q.checksum /\ m.msgsum = q.msgsum
        /\ m.result = x /\ m.pbuff = <<>>
    BY <2>1, <2>2
  <2> QED  BY <1>1, <2>3 DEF x, m
<1>2. CASE q.state \notin Ending
  <2>1. m = [q EXCEPT !.state = k]
    BY <1>2 DEF Closed
  <2> HIDE DEF m
  <2> QED  BY <1>2, <2>1, MovedFields DEF m
<1> QED  BY <1>1, <1>2

\* A field is closed at its end.
LEMMA ClosedDone ==
    ASSUME NEW s \in Reports, NEW q \in Parser, q.state \in DOMAIN Fills, Done(q, s),
           q.pbuff = Held(q.state, Len(Text(q.state, s)), s),
           NEW k \in Nat, k = q.state + 1 \/ q.state = 17
    PROVE  Done(Closed(q, k), s)
<1> DEFINE m == Closed(q, k)
<1> SUFFICES ASSUME NEW e \in Ending, e < k PROVE m.result[Fills[e]] = Kept(s)[Fills[e]]
  BY ClosedFields, ZenonT(40) DEF Done
<1>1. q.state \in Nat /\ e \in Nat /\ e \in DOMAIN Fills
  BY EndStates, FillDomain
<1>2. e < q.state \/ e = q.state
  BY <1>1, EndStates
<1>3. q.result \in [Field -> Seq(DOMAIN Ascii)] /\ Fills[q.state] \in Field /\ Fills[e] \in Field
  BY <1>1, ParserFields, FillFields
<1>4. e < q.state => q.result[Fills[e]] = Kept(s)[Fills[e]]
  BY DEF Done
<1>5. e = q.state => q.pbuff = Kept(s)[Fills[e]]
  BY HeldIsKept
<1>6. CASE q.state \in Ending
  <2>1. m.result = [q.result EXCEPT ![Fills[q.state]] = q.pbuff]
    BY <1>6, ClosedFields
  <2>2. e # q.state => Fills[e] # Fills[q.state]
    BY <1>6, FillApart
  <2> HIDE DEF m
  <2> QED  BY <1>1, <1>2, <1>3, <1>4, <1>5, <2>1, <2>2
<1>7. CASE q.state \notin Ending
  <2>1. m.result = q.result
    BY <1>7, ClosedFields
  <2> HIDE DEF m
  <2> QED  BY <1>2, <1>4, <1>7, <2>1
<1> QED  BY <1>6, <1>7

LEMMA PutFields ==
    ASSUME NEW s \in Reports, NEW q \in Parser, q.state \in DOMAIN Fills,
           NEW j \in 0..Len(Text(q.state, s)), j < Len(Text(q.state, s)),
           q.pbuff = Held(q.state, j, s)
    PROVE  LET m == Put(q, Text(q.state, s)[j + 1])
           IN  /\ m.state = q.state /\ m.result = q.result /\ m.gps = q.gps
               /\ m.checksum = q.checksum /\ m.msgsum = q.msgsum
               /\ m.pbuff = Held(q.state, j + 1, s)
<1> DEFINE c == Text(q.state, s)[j + 1]
           m == Put(q, c)
           b == Held(q.state, j, s)
           z == Held(q.state, j + 1, s)
<1>1. /\ Len(b) + Spare(q.state) <= Size[Fills[q.state]] => z = Append(b, c)
      /\ ~(Len(b) + Spare(q.state) <= Size[Fills[q.state]]) => z = b
  BY HeldMore
<1>2. q.pbuff = b
  OBVIOUS
<1> HIDE DEF c, b, z
<1>3. CASE Len(b) + Spare(q.state) <= Size[Fills[q.state]]
  <2> DEFINE y == Append(q.pbuff, c)
  <2>1. m = [q EXCEPT !.pbuff = y]
    BY <1>2, <1>3 DEF Put
  <2>2. y = z
    BY <1>1, <1>2, <1>3
  <2> HIDE DEF y, m
  <2>3. /\ m.state = q.state /\ m.result = q.result /\ m.gps = q.gps
        /\ m.checksum = q.checksum /\ m.msgsum = q.msgsum /\ m.pbuff = y
    BY <2>1 DEF Parser
  <2> QED  BY <2>2, <2>3 DEF m, c, z
<1>4. CASE ~(Len(b) + Spare(q.state) <= Size[Fills[q.state]])
  <2>1. m = q
    BY <1>2, <1>4 DEF Put
  <2> HIDE DEF m
  <2> QED  BY <1>1, <1>2, <1>4, <2>1 DEF m, c, z
<1> QED  BY <1>3, <1>4

-----------------------------------------------------------------------------
(* The parser goes along with a sentence: the name, and its fields up to the status.*)

LEMMA OtherBranches ==
    ASSUME NEW q, NEW c
    PROVE  /\ q.state = 0 => Switch(q, c) = Outside(q, c)
           /\ q.state = 8 => Switch(q, c) = InStatus(q, c)
           /\ q.state = 20 => Switch(q, c) = InSum(q, c)
           /\ q.state = 21 => Switch(q, c) = Reset(q)
<1>1. ASSUME q.state = 0 PROVE Switch(q, c) = Outside(q, c)
  BY <1>1, FillDomain DEF Switch
<1>2. ASSUME q.state = 8 PROVE Switch(q, c) = InStatus(q, c)
  BY <1>2, FillDomain DEF Switch
<1>3. ASSUME q.state = 20 PROVE Switch(q, c) = InSum(q, c)
  BY <1>3, FillDomain DEF Switch
<1>4. ASSUME q.state = 21 PROVE Switch(q, c) = Reset(q)
  BY <1>4, FillDomain DEF Switch
<1> QED  BY <1>1, <1>2, <1>3, <1>4

LEMMA AlongCases ==
    ASSUME NEW q, NEW n, NEW s, Along(q, n, s)
    PROVE  /\ Done(q, s)
           /\ q.state \in 2..6 \/ q.state \in 7..17 \/ q.state \in {18, 19}
           /\ q.state \in 2..6 => n = q.state - 1
           /\ q.state \in 7..17 => \E j \in 0..Len(Text(q.state, s)) : Reading(q, n, j, s)
           /\ q.state \in {18, 19} => /\ q.gps = (s.status = "A")
                                      /\ q.state = 18 => \E m \in Modes : Rest(n, s) = One(m)
                                      /\ q.state = 19 => Rest(n, s) = <<>>
<1>1. /\ ~(q.state \in 2..6 /\ q.state \in 7..17)
      /\ ~(q.state \in 2..6 /\ q.state \in {18, 19})
      /\ ~(q.state \in 7..17 /\ q.state \in {18, 19})
  OBVIOUS
<1> QED  BY <1>1, Zenon DEF Along

LEMMA AlongName ==
    ASSUME NEW s \in Reports, NEW q \in Parser, NEW n, q.state \in 2..5, Along(q, n, s)
    PROVE  LET m == Switch(q, Body(s)[n + 1])
           IN  Along(m, n + 1, s) /\ m.state \in 2..19 /\ SameSums(m, q)
<1> DEFINE c == Body(s)[n + 1]
           k == q.state + 1
           x == [q EXCEPT !.state = k]
           m == Switch(q, c)
<1>1. n = q.state - 1
  <2>1. q.state \in 2..6
    OBVIOUS
  <2> QED  BY <2>1, AlongCases
<1>2. Body(s)[q.state] = Name[q.state]
  BY BodyFacts
<1>3. n + 1 = q.state
  BY <1>1
<1>4. m = x
  <2>1. m = Expect(q, c = Name[q.state], q.state + 1)
    <3>1. q.state \in 1..5
      OBVIOUS
    <3> QED  BY <3>1, Branches, Zenon
  <2>2. c = Name[q.state]
    BY <1>2, <1>3
  <2> QED  BY <2>1, <2>2, Zenon DEF Expect
<1>5. /\ x.state = k /\ x.checksum = q.checksum /\ x.msgsum = q.msgsum
  BY MovedFields
<1>6. k \in 3..6 /\ n + 1 = k - 1
  BY <1>1
<1> HIDE DEF c, k, x, m
<1>7. m.state \in 3..6 /\ n + 1 = m.state - 1 /\ SameSums(m, q)
  BY <1>4, <1>5, <1>6 DEF SameSums
<1>8. Done(m, s)
  BY <1>7, EndStates DEF Done
<1> QED  BY <1>7, <1>8 DEF Along, m, c

LEMMA AlongStart ==
    ASSUME NEW s \in Reports, NEW q \in Parser, NEW n, q.state = 6, Along(q, n, s)
    PROVE  LET m == Switch(q, Body(s)[n + 1])
           IN  Along(m, n + 1, s) /\ m.state \in 2..19 /\ SameSums(m, q)
<1> DEFINE c == Body(s)[n + 1]
           x == [q EXCEPT !.pbuff = <<>>]
           y == [x EXCEPT !.state = 7]
           m == Switch(q, c)
<1>1. n = 5
  BY DEF Along
<1>2. 5 \in 0..Len(Body(s)) /\ Rest(5, s) = After(6, s) /\ 6 \in 6..16
  BY BodyFacts
<1>3. c = "," /\ Rest(5 + 1, s) = Joint(Drop(Text(6 + 1, s), 0), After(6 + 1, s))
  BY <1>1, <1>2, NextField
<1>4. m = y
  <2>1. m = Expect([q EXCEPT !.pbuff = <<>>], c = ",", 7)
    BY Branches
  <2> QED  BY <1>3, <2>1, Zenon DEF Expect
<1>5. /\ y.state = 7 /\ y.checksum = q.checksum /\ y.msgsum = q.msgsum /\ y.pbuff = <<>>
  BY DEF Parser
<1>6. Held(7, 0, s) = <<>>
  <2>1. 7 \in DOMAIN Fills \ Letters
    BY FillDomain DEF Letters
  <2> QED  BY <2>1, HeldOn
<1>7. Len(Text(7, s)) \in Nat
  BY TextWord
<1>8. Rest(n + 1, s) = Joint(Drop(Text(7, s), 0), After(7, s))
  <2>1. n + 1 = 6 /\ 5 + 1 = 6 /\ 6 + 1 = 7
    BY <1>1
  <2> QED  BY <1>3, <2>1
<1> HIDE DEF c, x, y, m
<1>9. m.state = 7 /\ SameSums(m, q) /\ m.pbuff = Held(m.state, 0, s)
  BY <1>4, <1>5, <1>6 DEF SameSums
<1>10. Done(m, s)
  BY <1>9, EndStates DEF Done
<1>11. Reading(m, n + 1, 0, s) /\ 0 \in 0..Len(Text(m.state, s))
  BY <1>7, <1>8, <1>9 DEF Reading
<1>12. m.state \in 7..17
  BY <1>9
<1> QED  BY <1>9, <1>10, <1>11, <1>12 DEF Along, m, c

LEMMA AlongStatus ==
    ASSUME NEW s \in Reports, NEW q \in Parser, NEW n \in 0..Len(Body(s)), q.state = 8,
           Along(q, n, s)
    PROVE  LET m == Switch(q, Body(s)[n + 1])
           IN  Along(m, n + 1, s) /\ m.state \in 2..19 /\ SameSums(m, q)
<1> DEFINE c == Body(s)[n + 1]
           m == Switch(q, c)
<1>1. PICK j \in 0..Len(Text(8, s)) : Reading(q, n, j, s)
  BY DEF Along
<1>2. Text(8, s) = One(s.status) /\ Len(Text(8, s)) = 1 /\ Text(8, s)[1] = s.status
  <2>1. Text(8, s) = One(s.status)
    BY DEF Text
  <2>2. s.status \in {s.status}
    OBVIOUS
  <2>3. Len(One(s.status)) = 1 /\ One(s.status)[1] = s.status
    BY <2>2, OneFacts
  <2> QED  BY <2>1, <2>3
<1>3. s.status \in {"A", "V"}
  BY DEF Reports
<1>4. /\ Rest(n, s) = Joint(Drop(Text(8, s), j), After(8, s))
      /\ j = 1 => q.gps = (s.status = "A")
  BY <1>1 DEF Reading
<1>5. m = InStatus(q, c)
  BY OtherBranches
<1>6. 8 \in 7..17 /\ 8 \in 6..16 /\ 8 + 1 = 9 /\ 0 + 1 = 1
  OBVIOUS
<1>7. CASE j = 0
  <2>1. /\ c = Text(8, s)[0 + 1]
        /\ Rest(n + 1, s) = Joint(Drop(Text(8, s), 0 + 1), After(8, s))
    <3>1. j < Len(Text(8, s))
      BY <1>2, <1>7
    <3> QED  BY <1>4, <1>6, <1>7, <3>1, NextOfField
  <2>2. c = s.status
    BY <1>2, <1>6, <2>1
  <2> DEFINE g == (c = "A")
             x == [q EXCEPT !.gps = g]
  <2>3. m = x
    BY <1>3, <1>5, <2>2 DEF InStatus
  <2> HIDE DEF g, m, c
  <2>4. /\ x.state = 8 /\ x.checksum = q.checksum /\ x.msgsum = q.msgsum /\ x.result = q.result
        /\ x.gps = g
    BY DEF Parser
  <2>5. /\ m.state = 8 /\ SameSums(m, q) /\ m.result = q.result /\ m.gps = (s.status = "A")
    BY <2>2, <2>3, <2>4 DEF SameSums, g
  <2>6. Done(m, s)
    BY <2>5 DEF Done, Along
  <2>7. Reading(m, n + 1, 1, s)
    BY <1>6, <2>1, <2>5 DEF Reading
  <2>8. 1 \in 0..Len(Text(m.state, s)) /\ m.state \in 7..17
    BY <1>2, <2>5
  <2> QED  BY <2>5, <2>6, <2>7, <2>8 DEF Along, m, c
<1>8. CASE j = 1
  <2>1. Rest(n, s) = After(8, s)
    BY <1>2, <1>4, <1>6, <1>8, FieldEnds
  <2>2. c = "," /\ Rest(n + 1, s) = Joint(Drop(Text(9, s), 0), After(9, s))
    BY <1>6, <2>1, NextField
  <2> DEFINE x == [q EXCEPT !.pbuff = <<>>, !.state = 9]
  <2>3. m = x
    BY <1>5, <2>2 DEF InStatus
  <2> HIDE DEF m, c
  <2>4. /\ x.state = 9 /\ x.checksum = q.checksum /\ x.msgsum = q.msgsum /\ x.result = q.result
        /\ x.gps = q.gps /\ x.pbuff = <<>>
    BY DEF Parser
  <2>5. Held(9, 0, s) = <<>>
    <3>1. 9 \in DOMAIN Fills \ Letters
      BY FillDomain DEF Letters
    <3> QED  BY <3>1, HeldOn
  <2> HIDE DEF x
  <2>6. /\ m.state = 9 /\ SameSums(m, q) /\ m.result = q.result /\ m.gps = (s.status = "A")
        /\ m.pbuff = Held(m.state, 0, s)
    BY <1>4, <1>8, <2>3, <2>4, <2>5 DEF SameSums
  <2>7. Done(m, s)
    <3>1. \A e \in Ending : e < 9 => e < 8
      BY EndStates
    <3>2. Done(q, s)
      BY DEF Along
    <3> QED  BY <2>6, <3>1, <3>2 DEF Done
  <2>8. Reading(m, n + 1, 0, s)
    BY <2>2, <2>6 DEF Reading
  <2>9. 0 \in 0..Len(Text(m.state, s)) /\ m.state \in 7..17
    <3>1. 9 \in 7..17
      OBVIOUS
    <3>2. Len(Text(9, s)) \in Nat
      BY <3>1, TextWord
    <3> QED  BY <2>6, <3>2
  <2> QED  BY <2>6, <2>7, <2>8, <2>9 DEF Along, m, c
<1>9. j = 0 \/ j = 1
  <2>1. j \in 0..Len(Text(8, s)) /\ Len(Text(8, s)) = 1
    BY <1>2
  <2>2. j \in 0..1
    BY <2>1, Zenon
  <2> QED  BY <2>2
<1> QED  BY <1>7, <1>8, <1>9

-----------------------------------------------------------------------------
(* The other fields, the mode, and the asterisk.                           *)

LEMMA AlongLate ==
    ASSUME NEW q, NEW n, NEW s, Along(q, n, s), q.state \in {18, 19}
    PROVE  /\ q.gps = (s.status = "A")
           /\ q.state = 18 => \E m \in Modes : Rest(n, s) = One(m)
           /\ q.state = 19 => Rest(n, s) = <<>>
<1>1. q.state \notin 2..6 /\ q.state \notin 7..17
  OBVIOUS
<1> QED  BY <1>1, Zenon DEF Along

LEMMA AlongEnd ==
    ASSUME NEW q, NEW n, NEW s, Done(q, s), q.gps = (s.status = "A"),
           \/ q.state = 18 /\ \E m \in Modes : Rest(n, s) = One(m)
           \/ q.state = 19 /\ Rest(n, s) = <<>>
    PROVE  Along(q, n, s) /\ q.state \in 2..19
<1>1. (q.state = 18 => q.state # 19) /\ (q.state = 18 \/ q.state = 19 => q.state \in 2..19)
  OBVIOUS
<1> QED  BY <1>1, Zenon DEF Along

LEMMA AlongField ==
    ASSUME NEW s \in Reports, NEW q \in Parser, NEW n \in 0..Len(Body(s)), n < Len(Body(s)),
           q.state \in DOMAIN Fills, Along(q, n, s)
    PROVE  LET m == Switch(q, Body(s)[n + 1])
           IN  Along(m, n + 1, s) /\ m.state \in 2..19 /\ SameSums(m, q)
<1> DEFINE k == q.state
           t == Text(k, s)
           c == Body(s)[n + 1]
           m == Switch(q, c)
<1>1. k \in 7..17 /\ k # 8
  BY FillDomain
<1>2. PICK j \in 0..Len(t) : Reading(q, n, j, s)
  BY <1>1, AlongCases
<1>3. /\ Rest(n, s) = Joint(Drop(t, j), After(k, s))
      /\ q.pbuff = Held(k, j, s)
      /\ k > 8 => q.gps = (s.status = "A")
  BY <1>1, <1>2 DEF Reading
<1>4. m = InField(q, c)
  BY Branches, ZenonT(40)
<1>5. t \in Word(Accepts[k]) /\ Len(t) \in Nat
  BY <1>1, TextAccepted, TextWord
<1>6. Done(q, s)
  BY DEF Along
<1>7. CASE j < Len(t)
  <2>1. /\ c = t[j + 1] /\ j + 1 \in 0..Len(t)
        /\ Rest(n + 1, s) = Joint(Drop(t, j + 1), After(k, s))
    BY <1>1, <1>3, <1>7, NextOfField
  <2>2. c \in Accepts[k]
    <3>1. \A i \in 1..Len(t) : t[i] \in Accepts[k]
      BY <1>5, WordFacts
    <3>2. j + 1 \in 1..Len(t)
      BY <1>5, <1>7
    <3> QED  BY <2>1, <3>1, <3>2
  <2>3. m = Put(q, t[j + 1])
    <3>1. c # "," /\ c # "*"
      BY <2>2, Accepted
    <3>2. InField(q, c) = Put(q, c)
      BY <2>2, <3>1 DEF InField
    <3> QED  BY <1>4, <2>1, <3>2
  <2> HIDE DEF m, c
  <2>4. /\ m.state = k /\ m.result = q.result /\ m.gps = q.gps /\ SameSums(m, q)
        /\ m.pbuff = Held(k, j + 1, s)
    BY <1>3, <1>7, <2>3, PutFields DEF SameSums
  <2>5. Done(m, s)
    BY <1>6, <2>4 DEF Done
  <2>6. Reading(m, n + 1, j + 1, s)
    BY <1>1, <1>3, <2>1, <2>4 DEF Reading
  <2>7. j + 1 \in 0..Len(Text(m.state, s)) /\ m.state \in 7..17
    BY <1>1, <2>1, <2>4
  <2> QED  BY <2>4, <2>5, <2>6, <2>7 DEF Along, m, c
<1>8. CASE j = Len(t) /\ k # 17
  <2>1. Rest(n, s) = After(k, s)
    BY <1>1, <1>3, <1>8, FieldEnds
  <2>2. c = "," /\ Rest(n + 1, s) = Joint(Drop(Text(k + 1, s), 0), After(k + 1, s))
    <3>1. k \in 6..16
      BY <1>1, <1>8
    <3> HIDE DEF k
    <3> QED  BY <2>1, <3>1, NextField
  <2> DEFINE h == k + 1
  <2>3. m = Closed(q, h)
    <3>1. c \notin Accepts[k]
      BY <2>2, Accepted
    <3> QED  BY <1>4, <2>2, <3>1 DEF InField
  <2>4. h \in Nat /\ h = q.state + 1
    BY <1>1, SMTT(30)
  <2>5. h \in 8..17 /\ h # 9 /\ (h # 8 => k > 8 /\ h > 8)
    BY <1>1, <1>8
  <2>6. q.pbuff = Held(q.state, Len(Text(q.state, s)), s)
    BY <1>3, <1>8
  <2>7. Done(Closed(q, h), s)
    BY <1>6, <2>4, <2>6, ClosedDone
  <2>8. k \in Ending => h = 8 \/ h \in DOMAIN Fills \ Letters
    BY <1>1, <2>5, EndStates, FillDomain, SMTT(30) DEF Letters
  <2>9. k \notin Ending => k \in {9, 11, 16}
    BY EndStates
  <2>10. k \in Ending /\ h # 8 => Held(h, 0, s) = <<>>
    BY <2>8, HeldOn
  <2>11. k \notin Ending => Held(h, 0, s) = Held(k, Len(Text(k, s)), s)
    BY <2>9, HeldOn
  <2>12. Len(Text(h, s)) \in Nat
    <3>1. h \in 7..17
      BY <2>5
    <3> HIDE DEF h
    <3> QED  BY <3>1, TextWord
  <2>13. Rest(n + 1, s) = Joint(Drop(Text(h, s), 0), After(h, s))
    BY <2>2
  <2> HIDE DEF m, c, h
  <2>14. /\ m.state = h /\ m.gps = q.gps /\ SameSums(m, q)
         /\ k \in Ending => m.pbuff = <<>>
         /\ k \notin Ending => m.pbuff = q.pbuff
    BY <2>3, ClosedFields DEF SameSums
  <2>15. h # 8 => m.pbuff = Held(h, 0, s)
    BY <2>6, <2>10, <2>11, <2>14
  <2>16. Done(m, s)
    BY <2>3, <2>7
  <2>17. Reading(m, n + 1, 0, s)
    BY <1>3, <2>5, <2>13, <2>14, <2>15 DEF Reading
  <2>18. 0 \in 0..Len(Text(m.state, s)) /\ m.state \in 7..17
    BY <2>5, <2>12, <2>14
  <2> QED  BY <2>14, <2>16, <2>17, <2>18 DEF Along, m, c
<1>9. CASE j = Len(t) /\ k = 17
  <2>1. Rest(n, s) = s.mode
    <3>1. Rest(n, s) = After(k, s)
      BY <1>1, <1>3, <1>9, FieldEnds
    <3>2. After(17, s) = s.mode
      BY DEF After, After17
    <3> QED  BY <1>9, <3>1, <3>2
  <2>2. s.mode # <<>>
    BY <2>1, RestNone
  <2>3. PICK d \in Modes : s.mode = Joint(One(","), One(d))
    BY <2>2, ModeParts DEF Modes
  <2>4. c = "," /\ Rest(n + 1, s) = One(d)
    <3> DEFINE b == ","
    <3>1. b \in Chars /\ d \in Chars
      BY Characters DEF Chars, Modes
    <3> HIDE DEF b, Chars
    <3>2. One(d) \in Word(Chars)
      BY <3>1, OneFacts
    <3>3. Rest(n, s) = Joint(One(b), One(d))
      BY <2>1, <2>3 DEF b
    <3>4. Body(s)[n + 1] = b /\ Rest(n + 1, s) = One(d)
      BY <3>1, <3>2, <3>3, RestStep
    <3> QED  BY <3>4 DEF b
  <2>5. m = Closed(q, 18)
    <3>1. c \notin Accepts[k]
      BY <2>4, Accepted
    <3>2. k + 1 = 18
      BY <1>9
    <3> QED  BY <1>4, <2>4, <3>1, <3>2 DEF InField
  <2>6. q.pbuff = Held(q.state, Len(Text(q.state, s)), s)
    BY <1>3, <1>9
  <2>7. Done(Closed(q, 18), s)
    <3>1. 18 \in Nat /\ 18 = 17 + 1
      OBVIOUS
    <3> QED  BY <1>6, <1>9, <2>6, <3>1, ClosedDone
  <2> HIDE DEF m, c
  <2>8. /\ m.state = 18 /\ m.gps = (s.status = "A") /\ SameSums(m, q)
    <3>1. m.state = 18 /\ m.gps = q.gps /\ SameSums(m, q)
      BY <2>5, ClosedFields DEF SameSums
    <3> QED  BY <1>3, <1>9, <3>1
  <2>9. Done(m, s)
    BY <2>5, <2>7
  <2>10. Along(m, n + 1, s) /\ m.state \in 2..19
    BY <2>4, <2>8, <2>9, AlongEnd
  <2> QED  BY <2>8, <2>10 DEF m, c
<1>10. j < Len(t) \/ j = Len(t)
  BY <1>5
<1> QED  BY <1>7, <1>8, <1>9, <1>10

LEMMA ModeBranch ==
    ASSUME NEW q, NEW c \in Modes, q.state = 18
    PROVE  Switch(q, c) = [q EXCEPT !.state = 19]
<1>1. c \in {"A", "D", "E", "N"}
  BY DEF Modes
<1>2. Switch(q, c) = Expect(q, c \in {"A", "D", "E", "N"}, 19)
  <2>1. /\ q.state # 0 /\ q.state \notin 1..5 /\ q.state # 6 /\ q.state # 8 /\ q.state \notin DOMAIN Fills
        /\ q.state # 19 /\ q.state # 20 /\ q.state # 21
    BY FillDomain
  <2> QED  BY <2>1, Zenon DEF Switch
<1> QED  BY <1>1, <1>2, Zenon DEF Expect

LEMMA AlongMode ==
    ASSUME NEW s \in Reports, NEW q \in Parser, NEW n \in 0..Len(Body(s)), n < Len(Body(s)),
           q.state \in {18, 19}, Along(q, n, s)
    PROVE  LET m == Switch(q, Body(s)[n + 1])
           IN  Along(m, n + 1, s) /\ m.state \in 2..19 /\ SameSums(m, q)
<1> DEFINE c == Body(s)[n + 1]
           x == [q EXCEPT !.state = 19]
           m == Switch(q, c)
<1>1. q.state = 18
  <2>1. Len(Body(s)) \in Nat
    BY BodyFacts
  <2>2. q.state = 19 => Rest(n, s) = <<>>
    BY DEF Along
  <2> QED  BY <2>1, <2>2, RestNone
<1>2. PICK d \in Modes : Rest(n, s) = One(d)
  BY <1>1 DEF Along
<1>3. c = d /\ Rest(n + 1, s) = <<>>
  <2> DEFINE e == <<>>
  <2>1. d \in Chars
    BY Characters DEF Chars, Modes
  <2> HIDE DEF Chars
  <2>2. e \in Word(Chars) /\ One(d) \in Word(Chars)
    BY <2>1, Nothing, OneFacts
  <2>3. Joint(One(d), e) = One(d)
    BY <2>2, JointNothing
  <2> HIDE DEF e
  <2>4. Rest(n, s) = Joint(One(d), e)
    BY <1>2, <2>3
  <2>5. Body(s)[n + 1] = d /\ Rest(n + 1, s) = e
    BY <2>1, <2>2, <2>4, RestStep
  <2> QED  BY <2>5 DEF e
<1>4. m = x
  <2>1. c \in Modes
    BY <1>3
  <2> HIDE DEF c
  <2> QED  BY <1>1, <2>1, ModeBranch DEF m
<1>5. /\ x.state = 19 /\ x.checksum = q.checksum /\ x.msgsum = q.msgsum /\ x.gps = q.gps
      /\ x.result = q.result
  BY MovedFields
<1> HIDE DEF c, x, m
<1>6. /\ m.state = 19 /\ SameSums(m, q) /\ m.gps = q.gps /\ m.result = q.result
  BY <1>4, <1>5 DEF SameSums
<1>7. Done(m, s)
  <2>1. \A e \in Ending : e < 18
    BY EndStates
  <2> QED  BY <1>1, <1>6, <2>1 DEF Done, Along
<1>8. m.gps = (s.status = "A")
  <2>1. q.gps = (s.status = "A")
    BY AlongLate
  <2> QED  BY <1>6, <2>1
<1>9. Along(m, n + 1, s) /\ m.state \in 2..19
  BY <1>3, <1>6, <1>7, <1>8, AlongEnd
<1> QED  BY <1>6, <1>9 DEF m, c

\* A sentence that arrives as it is sent takes the parser along.
LEMMA SwitchAlong ==
    ASSUME NEW s \in Reports, NEW q \in Parser, NEW n \in 0..Len(Body(s)), n < Len(Body(s)),
           Along(q, n, s)
    PROVE  LET m == Switch(q, Body(s)[n + 1])
           IN  Along(m, n + 1, s) /\ m.state \in 2..19 /\ SameSums(m, q)
<1>1. q.state \in 2..5 \/ q.state = 6 \/ q.state = 8 \/ q.state \in DOMAIN Fills \/ q.state \in {18, 19}
  <2>1. q.state \in 2..6 \/ q.state \in 7..17 \/ q.state \in {18, 19}
    BY DEF Along
  <2> QED  BY <2>1, FillDomain
<1> QED  BY <1>1, AlongName, AlongStart, AlongStatus, AlongField, AlongMode

\* At the end of the body, the asterisk takes it to the sums, with all that
\* was said.
LEMMA SwitchLast ==
    ASSUME NEW s \in Reports, NEW q \in Parser, Along(q, Len(Body(s)), s)
    PROVE  LET m == Switch(q, "*")
           IN  /\ m.state = 20 /\ m.result = Kept(s) /\ m.gps = (s.status = "A")
               /\ SameSums(m, q)
<1> DEFINE m == Switch(q, "*")
           n == Len(Body(s))
<1>1. n \in Nat /\ n >= 6 /\ n \in 0..Len(Body(s))
  BY BodyFacts
<1>2. q.state \in 7..17 \/ q.state \in {18, 19}
  <2>1. q.state \in 2..6 => n = q.state - 1
    BY AlongCases, Zenon
  <2>2. q.state \in 2..6 \/ q.state \in 7..17 \/ q.state \in {18, 19}
    BY AlongCases
  <2> HIDE DEF n
  <2> QED  BY <1>1, <2>1, <2>2, SMTT(30)
<1>3. ASSUME m.state = 20, Done(m, s), m.gps = (s.status = "A"), SameSums(m, q),
             m.result \in [Field -> Seq(DOMAIN Ascii)]
      PROVE  m.state = 20 /\ m.result = Kept(s) /\ m.gps = (s.status = "A") /\ SameSums(m, q)
  <2> HIDE DEF m
  <2>1. \A e \in Ending : m.result[Fills[e]] = Kept(s)[Fills[e]]
    <3>1. \A e \in Ending : e < 20
      BY EndStates
    <3> QED  BY <1>3, <3>1 DEF Done
  <2>2. {7, 10, 12, 13, 14, 15, 17} \subseteq Ending
    BY EndStates
  <2>3. \A f \in Field : m.result[f] = Kept(s)[f]
    BY <2>1, <2>2, FillNames DEF Field
  <2>4. m.result = [f \in Field |-> m.result[f]]
    BY <1>3
  <2>5. Kept(s) = [f \in Field |-> Kept(s)[f]]
    BY DEF Kept, Field
  <2> QED  BY <1>3, <2>3, <2>4, <2>5
<1>4. n \in 0..Len(Body(s)) /\ Rest(n, s) = <<>> /\ ~(n < Len(Body(s)))
  <2>1. Body(s) \in Word(Chars)
    BY BodyFacts
  <2> HIDE DEF Chars
  <2>2. Rest(n, s) = <<>>
    BY <2>1, DroppedAll DEF Rest
  <2> QED  BY <1>1, <2>2
<1>5. CASE q.state \in 7..17
  <2> DEFINE k == q.state
             t == Text(k, s)
  <2>1. PICK j \in 0..Len(t) : Reading(q, n, j, s)
    BY <1>5, AlongCases
  <2>2. Rest(n, s) = Joint(Drop(t, j), After(k, s))
    BY <2>1 DEF Reading
  <2>3. ~(j < Len(t))
    <3>1. k \in 7..17
      BY <1>5
    <3> HIDE DEF n
    <3> QED  BY <1>4, <2>2, <3>1, NextOfField
  <2>4. j = Len(t)
    <3>1. Len(t) \in Nat
      BY <1>5, TextWord
    <3> QED  BY <2>3, <3>1
  <2>5. Rest(n, s) = After(k, s)
    BY <1>4, <1>5, <2>2, <2>4, FieldEnds
  <2>6. k = 17
    <3>1. k \in 6..16 => n < Len(Body(s))
      BY <1>4, <2>5, NextField
    <3> QED  BY <1>4, <1>5, <3>1
  <2>7. /\ q.pbuff = Held(q.state, Len(Text(q.state, s)), s)
        /\ q.gps = (s.status = "A")
    BY <2>1, <2>4, <2>6 DEF Reading
  <2>8. q.state \in DOMAIN Fills
    BY <2>6, FillDomain
  <2>9. m = Closed(q, 20)
    <3>1. m = InField(q, "*")
      BY <2>8, Branches
    <3>2. "*" \notin Accepts[q.state]
      BY <2>8, Accepted
    <3> QED  BY <2>6, <3>1, <3>2 DEF InField
  <2>10. Done(Closed(q, 20), s)
    <3>1. 20 \in Nat
      OBVIOUS
    <3> QED  BY <2>6, <2>7, <2>8, <3>1, AlongCases, ClosedDone
  <2> DEFINE x == Closed(q, 20)
  <2>11. x.state = 20 /\ x.gps = q.gps /\ SameSums(x, q)
    BY <2>8, ClosedFields DEF SameSums
  <2>12. x.result \in [Field -> Seq(DOMAIN Ascii)]
    <3>1. q.result \in [Field -> Seq(DOMAIN Ascii)] /\ q.pbuff \in Seq(DOMAIN Ascii)
      BY ParserFields
    <3>2. x.result = q.result \/ x.result = [q.result EXCEPT ![Fills[q.state]] = q.pbuff]
      BY <2>8, ClosedFields
    <3> HIDE DEF x
    <3> QED  BY <2>8, <3>1, <3>2, FillFields
  <2> HIDE DEF m, x
  <2>13. /\ m.state = 20 /\ Done(m, s) /\ m.gps = (s.status = "A") /\ SameSums(m, q)
         /\ m.result \in [Field -> Seq(DOMAIN Ascii)]
    BY <2>7, <2>9, <2>10, <2>11, <2>12 DEF x
  <2> QED  BY <1>3, <2>13 DEF m
<1>6. CASE q.state \in {18, 19}
  <2>1. q.state = 19
    <3>1. ASSUME q.state = 18 PROVE FALSE
      <4>1. PICK d \in Modes : Rest(n, s) = One(d)
        <5>1. q.state \in {18, 19}
          BY <3>1
        <5> HIDE DEF n
        <5>2. Along(q, n, s)
          BY DEF n
        <5> QED  BY <3>1, <5>1, <5>2, AlongLate
      <4>2. Len(One(d)) = 1 /\ Len(<<>>) = 0
        BY OneFacts, Nothing
      <4> QED  BY <1>4, <4>1, <4>2
    <3> QED  BY <1>6, <3>1
  <2> DEFINE x == [q EXCEPT !.state = 20]
  <2>2. m = x
    <3>1. m = Expect(q, "*" = "*", 20)
      BY <2>1, Branches, Zenon
    <3> QED  BY <3>1, Zenon DEF Expect
  <2>3. /\ x.state = 20 /\ x.checksum = q.checksum /\ x.msgsum = q.msgsum /\ x.gps = q.gps
        /\ x.result = q.result
    BY MovedFields
  <2> HIDE DEF m, x
  <2>4. m.state = 20 /\ SameSums(m, q) /\ m.gps = q.gps /\ m.result = q.result
    BY <2>2, <2>3 DEF SameSums
  <2>5. Done(m, s)
    <3>1. \A e \in Ending : e < 19
      BY EndStates
    <3>2. Done(q, s)
      BY AlongCases
    <3> QED  BY <2>1, <2>4, <3>1, <3>2 DEF Done
  <2>6. m.result \in [Field -> Seq(DOMAIN Ascii)]
    BY <2>4, ParserFields
  <2>7. q.gps = (s.status = "A")
    BY <1>6, AlongLate
  <2>8. m.gps = (s.status = "A")
    BY <2>4, <2>7
  <2> QED  BY <1>3, <2>4, <2>5, <2>6, <2>8 DEF m
<1> QED  BY <1>2, <1>5, <1>6

-----------------------------------------------------------------------------
(* What the states do to the sum.                                          *)

\* What a sentence is summed over.
SentenceChar == BodyChar \cup {"G", "P", "R", "M", "C"}

LEMMA SentenceChars ==
    /\ SentenceChar \subseteq Chars
    /\ \A c \in SentenceChar : c # "$" /\ c # "*" /\ c # "\r"
<1>1. {"G", "P", "R", "M", "C"} \subseteq Chars
  BY Characters DEF Chars
<1> HIDE DEF BodyChar, Chars
<1>2. SentenceChar \subseteq Chars
  BY <1>1, BodyChars DEF SentenceChar
<1> QED  BY <1>2, BodyChars DEF SentenceChar

LEMMA FieldChars == \A c \in BodyChar : c \in SentenceChar /\ c # "G"
  BY BodyChars DEF SentenceChar

LEMMA PlainChars ==
    /\ "," \in BodyChar /\ Modes \subseteq BodyChar /\ {"A", "V"} \subseteq BodyChar
    /\ \A k \in DOMAIN Fills : Accepts[k] \subseteq BodyChar
<1>1. "," \in BodyChar /\ Modes \subseteq BodyChar /\ {"A", "V"} \subseteq BodyChar
  BY DEF Modes, BodyChar
<1>2. ASSUME NEW k \in DOMAIN Fills PROVE Accepts[k] \subseteq BodyChar
  <2>1. k \in {7, 9, 10, 11, 12, 13, 14, 15, 16, 17}
    BY FillDomain
  <2> QED  BY <2>1, AcceptsFacts, ZenonT(40) DEF BodyChar, Number
<1> QED  BY <1>1, <1>2

LEMMA PlainChar ==
    ASSUME NEW c, c = "," \/ c \in Modes \/ c \in {"A", "V"}
    PROVE  c \in SentenceChar /\ c # "G"
<1>1. c \in BodyChar
  BY PlainChars
<1> QED  BY <1>1, FieldChars

LEMMA ResetFields ==
    ASSUME NEW q \in Parser
    PROVE  /\ Reset(q).state = 0 /\ Reset(q).checksum = q.checksum /\ Reset(q).msgsum = q.msgsum
  BY MovedFields DEF Reset

\* Where a character takes the parser from outside of a sentence, and from
\* its sums.
LEMMA OutsideMoves ==
    ASSUME NEW q \in Parser, NEW c, q.state = 0
    PROVE  LET m == Switch(q, c)
           IN  /\ m.state \in {0, 1}
               /\ c = "$" <=> m.state = 1
               /\ m.state = 1 => m.checksum = {} /\ m.msgsum = {}
<1> DEFINE x == [q EXCEPT !.state = 1, !.checksum = {}, !.msgsum = {}]
           m == Switch(q, c)
<1>1. m = IF c = "$" THEN x ELSE q
  BY OtherBranches DEF Outside
<1>2. x.state = 1 /\ x.checksum = {} /\ x.msgsum = {}
  BY DEF Parser
<1> HIDE DEF x, m
<1>3. m.state \in {0, 1} /\ (c = "$" <=> m.state = 1) /\ (m.state = 1 => m.checksum = {} /\ m.msgsum = {})
  BY <1>1, <1>2
<1> QED  BY <1>3 DEF m

LEMMA SumMoves ==
    ASSUME NEW q \in Parser, NEW c, q.state = 20
    PROVE  LET m == Switch(q, c)
           IN  /\ m.state \in {0, 20, 21}
               /\ c \in DOMAIN Hex => m.state = 20
               /\ m.state = 20 => /\ c \in DOMAIN Hex /\ m.msgsum = WithDigit(q.msgsum, c)
                                  /\ m.checksum = q.checksum
               /\ m.state = 21 => c = "\r" /\ q.msgsum = q.checksum
               /\ m.state # 0 => m.result = q.result /\ m.gps = q.gps
<1> DEFINE d == WithDigit(q.msgsum, c)
           x == [q EXCEPT !.msgsum = d]
           y == [q EXCEPT !.state = 21]
           m == Switch(q, c)
<1>1. m = InSum(q, c)
  BY OtherBranches
<1>2. /\ x.state = 20 /\ x.msgsum = d /\ x.checksum = q.checksum /\ x.result = q.result
      /\ x.gps = q.gps
  <2> HIDE DEF d
  <2> QED  BY DEF Parser
<1>3. y.state = 21 /\ y.result = q.result /\ y.gps = q.gps
  BY MovedFields
<1>4. Reset(q).state = 0
  BY ResetFields
<1>5. "\r" \notin DOMAIN Hex
  BY HexChars DEF Hex, ToSet, HexDigits
<1>6. CASE c \in DOMAIN Hex
  <2>1. m = x
    BY <1>1, <1>5, <1>6 DEF InSum
  <2> HIDE DEF x, m
  <2> QED  BY <1>2, <1>6, <2>1 DEF m, d
<1>7. CASE c \notin DOMAIN Hex /\ c = "\r" /\ q.msgsum = q.checksum
  <2>1. m = y
    BY <1>1, <1>7 DEF InSum
  <2> HIDE DEF y, m
  <2> QED  BY <1>3, <1>7, <2>1 DEF m
<1>8. CASE c \notin DOMAIN Hex /\ ~(c = "\r" /\ q.msgsum = q.checksum)
  <2>1. m = Reset(q)
    BY <1>1, <1>8 DEF InSum
  <2> HIDE DEF m
  <2> QED  BY <1>4, <1>8, <2>1 DEF m
<1> QED  BY <1>6, <1>7, <1>8

Goes(q, c, m) ==
    /\ m.state \in {0} \cup 2..20 /\ SameSums(m, q)
    /\ m.state = 20 => c = "*" /\ q.state # 1
    /\ m.state \in 2..19 => c \in SentenceChar /\ (c = "G" <=> q.state = 1)

LEMMA GoesOut == ASSUME NEW q \in Parser, NEW c PROVE Goes(q, c, Reset(q))
  BY ResetFields DEF Goes, SameSums

LEMMA GoesOn ==
    ASSUME NEW q, NEW c, NEW m, SameSums(m, q), m.state \in 2..19, c \in SentenceChar,
           c = "G" <=> q.state = 1
    PROVE  Goes(q, c, m)
  BY DEF Goes

LEMMA InsideMoves ==
    ASSUME NEW q \in Parser, NEW c, q.state \in 1..19
    PROVE  Goes(q, c, Switch(q, c))
<1> DEFINE m == Switch(q, c)
<1>1. CASE q.state \in 1..5
  <2> DEFINE k == q.state + 1
             x == [q EXCEPT !.state = k]
  <2>1. (m = x /\ c = Name[q.state]) \/ m = Reset(q)
    BY <1>1, Branches DEF Expect
  <2>2. ASSUME c = Name[q.state] PROVE c \in SentenceChar /\ (c = "G" <=> q.state = 1)
    <3>1. q.state \in {1, 2, 3, 4, 5}
      BY <1>1
    <3>2. Name[1] = "G" /\ Name[2] = "P" /\ Name[3] = "R" /\ Name[4] = "M" /\ Name[5] = "C"
      BY DEF Name
    <3> QED  BY <2>2, <3>1, <3>2 DEF SentenceChar
  <2>3. k \in 2..19
    BY <1>1
  <2> HIDE DEF m, k, SentenceChar
  <2>4. x.state \in 2..19 /\ SameSums(x, q)
    BY <2>3, MovedFields DEF SameSums
  <2> HIDE DEF x
  <2>5. Goes(q, c, m)
    BY <2>1, <2>2, <2>4, GoesOn, GoesOut
  <2> QED  BY <2>5 DEF m
<1>2. CASE q.state = 6
  <2> DEFINE y == [q EXCEPT !.pbuff = <<>>]
             x == [y EXCEPT !.state = 7]
             z == [y EXCEPT !.state = 0]
  <2>1. (m = x /\ c = ",") \/ m = z
    <3>1. m = Expect([q EXCEPT !.pbuff = <<>>], c = ",", 7)
      BY <1>2, Branches, Zenon
    <3> QED  BY <3>1, Zenon DEF Expect, Reset
  <2>2. x.state = 7 /\ SameSums(x, q) /\ z.state = 0 /\ SameSums(z, q)
    BY DEF SameSums, Parser
  <2>3. c = "," => c \in SentenceChar /\ (c = "G" <=> q.state = 1)
    <3>1. q.state # 1
      BY <1>2
    <3> HIDE DEF SentenceChar, Modes, BodyChar
    <3> QED  BY <3>1, PlainChar, Zenon
  <2> HIDE DEF m, x, z, SentenceChar
  <2>4. 7 \in 2..19
    OBVIOUS
  <2>5. m = x /\ c = "," => Goes(q, c, m)
    BY <2>2, <2>3, <2>4, GoesOn
  <2>6. m = z => Goes(q, c, m)
    BY <2>2 DEF Goes
  <2> QED  BY <2>1, <2>5, <2>6 DEF m
<1>3. CASE q.state = 8
  <2> DEFINE g == (c = "A")
             x == [q EXCEPT !.gps = g]
             y == [q EXCEPT !.pbuff = <<>>, !.state = 9]
  <2>1. (m = x /\ c \in {"A", "V"}) \/ (m = y /\ c = ",") \/ m = Reset(q)
    <3>1. m = InStatus(q, c)
      BY <1>3, OtherBranches
    <3> QED  BY <3>1 DEF InStatus
  <2>2. x.state = 8 /\ SameSums(x, q) /\ y.state = 9 /\ SameSums(y, q)
    <3> HIDE DEF g
    <3> QED  BY <1>3 DEF SameSums, Parser
  <2>3. c \in {"A", "V"} \/ c = "," => c \in SentenceChar /\ (c = "G" <=> q.state = 1)
    <3>1. q.state # 1
      BY <1>3
    <3> HIDE DEF SentenceChar, Modes, BodyChar
    <3> QED  BY <3>1, PlainChar, Zenon
  <2> HIDE DEF m, x, y, SentenceChar
  <2>4. 8 \in 2..19 /\ 9 \in 2..19
    OBVIOUS
  <2>5. m # Reset(q) => /\ m.state \in 2..19 /\ SameSums(m, q) /\ c \in SentenceChar
                        /\ c = "G" <=> q.state = 1
    BY <2>1, <2>2, <2>3, <2>4
  <2>6. Goes(q, c, m)
    BY <2>5, GoesOn, GoesOut
  <2> QED  BY <2>6 DEF m
<1>4. CASE q.state \in DOMAIN Fills
  <2> DEFINE h == q.state + 1
  <2>1. m = InField(q, c)
    BY <1>4, Branches, ZenonT(40)
  <2>2. q.state \in 7..17
    BY <1>4, FillDomain
  <2>3. CASE c \in Accepts[q.state]
    <3>1. c # "," /\ c # "*"
      BY <1>4, <2>3, Accepted
    <3>2. m = Put(q, c)
      BY <2>1, <2>3, <3>1 DEF InField
    <3> DEFINE y == Append(q.pbuff, c)
               x == [q EXCEPT !.pbuff = y]
    <3>3. m = x \/ m = q
      BY <3>2 DEF Put
    <3> HIDE DEF y
    <3>4. x.state = q.state /\ SameSums(x, q) /\ SameSums(q, q)
      BY DEF SameSums, Parser
    <3>5. c \in SentenceChar /\ (c = "G" <=> q.state = 1)
      <4>1. c \in BodyChar
        BY <1>4, <2>3, PlainChars
      <4> QED  BY <2>2, <4>1, FieldChars
    <3> HIDE DEF m, x, SentenceChar
    <3>6. m.state \in 2..19 /\ SameSums(m, q)
      BY <2>2, <3>3, <3>4
    <3> QED  BY <3>5, <3>6, GoesOn DEF m
  <2>4. CASE c \notin Accepts[q.state] /\ c = ","
    <3>1. m = Closed(q, h)
      BY <2>1, <2>4 DEF InField
    <3>2. c \in SentenceChar /\ (c = "G" <=> q.state = 1)
      <4>1. q.state # 1
        BY <2>2
      <4> QED  BY <2>4, <4>1, PlainChar
    <3>3. h \in 2..19
      BY <2>2
    <3> HIDE DEF m, h, SentenceChar
    <3>4. m.state = h /\ m.checksum = q.checksum /\ m.msgsum = q.msgsum
      BY <1>4, <3>1, ClosedFields, Zenon
    <3>5. m.state \in 2..19 /\ SameSums(m, q)
      BY <3>3, <3>4 DEF SameSums
    <3> QED  BY <3>2, <3>5, GoesOn DEF m
  <2>5. CASE c \notin Accepts[q.state] /\ c # "," /\ c = "*" /\ q.state = 17
    <3>1. m = Closed(q, 20)
      BY <2>1, <2>5 DEF InField
    <3> HIDE DEF m
    <3>2. m.state = 20 /\ m.checksum = q.checksum /\ m.msgsum = q.msgsum
      BY <1>4, <3>1, ClosedFields, Zenon
    <3>3. SameSums(m, q)
      BY <3>2 DEF SameSums
    <3> QED  BY <2>5, <3>2, <3>3 DEF Goes, m
  <2>6. CASE c \notin Accepts[q.state] /\ c # "," /\ ~(c = "*" /\ q.state = 17)
    <3>1. m = Reset(q)
      BY <2>1, <2>6 DEF InField
    <3> QED  BY <3>1, GoesOut
  <2> QED  BY <2>3, <2>4, <2>5, <2>6
<1>5. CASE q.state = 18
  <2> DEFINE x == [q EXCEPT !.state = 19]
  <2>1. c \in Modes => m = x
    BY <1>5, ModeBranch
  <2>2. c \notin Modes => m = Reset(q)
    <3>1. q.state \in 1..19 /\ 18 \in 1..19
      OBVIOUS
    <3>2. /\ q.state # 0 /\ q.state \notin 1..5 /\ q.state # 6 /\ q.state # 8 /\ q.state \notin DOMAIN Fills
          /\ q.state # 19 /\ q.state # 20 /\ q.state # 21
      BY <1>5, FillDomain
    <3>3. m = Expect(q, c \in {"A", "D", "E", "N"}, 19)
      BY <1>5, <3>2, Zenon DEF Switch
    <3> QED  BY <3>3, Zenon DEF Expect, Modes
  <2>3. c \in Modes => c \in SentenceChar /\ (c = "G" <=> q.state = 1)
    <3>1. q.state # 1
      BY <1>5
    <3> HIDE DEF SentenceChar, Modes, BodyChar
    <3> QED  BY <3>1, PlainChar, Zenon
  <2>4. x.state \in 2..19 /\ SameSums(x, q)
    BY MovedFields DEF SameSums
  <2> HIDE DEF m, x, SentenceChar, Modes
  <2>5. Goes(q, c, m)
    BY <2>1, <2>2, <2>3, <2>4, GoesOn, GoesOut
  <2> QED  BY <2>5 DEF m
<1>6. CASE q.state = 19
  <2> DEFINE x == [q EXCEPT !.state = 20]
  <2>1. (m = x /\ c = "*") \/ m = Reset(q)
    <3>1. m = Expect(q, c = "*", 20)
      BY <1>6, Branches, Zenon
    <3> QED  BY <3>1, Zenon DEF Expect
  <2>2. x.state = 20 /\ SameSums(x, q)
    BY MovedFields DEF SameSums
  <2> HIDE DEF m, x
  <2>3. Goes(q, c, m)
    BY <1>6, <2>1, <2>2, GoesOut DEF Goes
  <2> QED  BY <2>3 DEF m
<1>7. q.state \in 1..5 \/ q.state = 6 \/ q.state = 8 \/ q.state \in DOMAIN Fills \/ q.state = 18 \/ q.state = 19
  BY FillDomain
<1> QED  BY <1>1, <1>2, <1>3, <1>4, <1>5, <1>6, <1>7

-----------------------------------------------------------------------------
(* parse: the states, and the sum beside them.                             *)

LEMMA ParseSame ==
    ASSUME NEW q, Good(q), NEW c
    PROVE  LET m == Switch(q, c)
               p == parse(q, c)
           IN  /\ p.state = m.state /\ p.pbuff = m.pbuff /\ p.result = m.result /\ p.gps = m.gps
               /\ p.msgsum = m.msgsum
               /\ m.state \in 2..19 => p.checksum = Xor(m.checksum, Ascii[c])
               /\ m.state \notin 2..19 => p.checksum = m.checksum
<1> DEFINE m == Switch(q, c)
           p == parse(q, c)
           a == Xor(m.checksum, Ascii[c])
           x == [m EXCEPT !.checksum = a]
<1>1. m \in Parser
  BY SwitchGood DEF Good
<1>2. p = IF m.state \in 2..19 THEN x ELSE m
  BY DEF parse
<1> HIDE DEF m, p, a
<1>3. /\ x.state = m.state /\ x.pbuff = m.pbuff /\ x.result = m.result /\ x.gps = m.gps
      /\ x.msgsum = m.msgsum /\ x.checksum = a
  BY <1>1 DEF Parser
<1> HIDE DEF x
<1>4. /\ p.state = m.state /\ p.pbuff = m.pbuff /\ p.result = m.result /\ p.gps = m.gps
      /\ p.msgsum = m.msgsum
      /\ m.state \in 2..19 => p.checksum = a
      /\ m.state \notin 2..19 => p.checksum = m.checksum
  BY <1>2, <1>3
<1> QED  BY <1>4 DEF m, p, a

LEMMA AlongSame ==
    ASSUME NEW p, NEW m, NEW n, NEW s, Along(m, n, s),
           p.state = m.state, p.pbuff = m.pbuff, p.result = m.result, p.gps = m.gps
    PROVE  Along(p, n, s)
<1>1. \A j : Reading(m, n, j, s) => Reading(p, n, j, s)
  BY DEF Reading
<1>2. Done(p, s)
  BY DEF Along, Done
<1> QED  BY <1>1, <1>2, Zenon DEF Along

\* Nothing but the body of s came since its beginning, as far as the n-th
\* character, and it was summed.
InStep(q, n, s) ==
    /\ Along(q, n, s)
    /\ q.checksum = Parity(n, Body(s))
    /\ q.msgsum = {}

LEMMA BodySummed ==
    ASSUME NEW s \in Reports, NEW n \in 0..Len(Body(s)), n < Len(Body(s))
    PROVE  /\ Body(s)[n + 1] \in DOMAIN Ascii /\ Body(s)[n + 1] \in SentenceChar
           /\ Body(s)[n + 1] = "G" <=> n = 0
           /\ Parity(n + 1, Body(s)) = Xor(Parity(n, Body(s)), Ascii[Body(s)[n + 1]])
           /\ n \in Nat
<1>1. Len(Body(s)) \in Nat /\ n \in Nat
  BY BodyFacts
<1>2. Body(s)[n + 1] \in DOMAIN Ascii
  BY RestFacts DEF Chars
<1>3. n = 0 \/ n \in 1..4 \/ n + 1 \in 6..Len(Body(s))
  BY <1>1
<1>4. CASE n \in 0..4
  <2>1. Body(s)[n + 1] = Name[n + 1]
    BY <1>1, <1>4, BodyFacts
  <2>2. Name[1] = "G" /\ Name[2] = "P" /\ Name[3] = "R" /\ Name[4] = "M" /\ Name[5] = "C"
    BY DEF Name
  <2>3. n + 1 = 1 \/ n + 1 = 2 \/ n + 1 = 3 \/ n + 1 = 4 \/ n + 1 = 5
    BY <1>4
  <2>4. n + 1 = 1 <=> n = 0
    BY <1>1
  <2>5. Name[n + 1] \in {"G", "P", "R", "M", "C"} /\ (Name[n + 1] = "G" <=> n + 1 = 1)
    BY <2>2, <2>3
  <2>6. Body(s)[n + 1] \in SentenceChar /\ (Body(s)[n + 1] = "G" <=> n = 0)
    BY <2>1, <2>4, <2>5 DEF SentenceChar
  <2> QED  BY <1>1, <1>2, <2>6, ByteFacts, ParityNext
<1>5. CASE n + 1 \in 6..Len(Body(s))
  <2>1. Body(s)[n + 1] \in BodyChar
    BY <1>5, BodyFacts
  <2>2. Body(s)[n + 1] \in SentenceChar /\ Body(s)[n + 1] # "G"
    BY <2>1, FieldChars
  <2>3. n # 0
    BY <1>5
  <2> QED  BY <1>1, <1>2, <2>2, <2>3, ByteFacts, ParityNext
<1> QED  BY <1>3, <1>4, <1>5

LEMMA ParseInStep ==
    ASSUME NEW s \in Reports, NEW q, Good(q), NEW n \in 0..Len(Body(s)), n < Len(Body(s)),
           InStep(q, n, s)
    PROVE  /\ InStep(parse(q, Body(s)[n + 1]), n + 1, s)
           /\ parse(q, Body(s)[n + 1]).state \in 2..19
<1> DEFINE c == Body(s)[n + 1]
           m == Switch(q, c)
           p == parse(q, c)
<1>1. q \in Parser /\ Along(q, n, s) /\ q.checksum = Parity(n, Body(s)) /\ q.msgsum = {}
  BY DEF Good, InStep
<1>2. Along(m, n + 1, s) /\ m.state \in 2..19 /\ SameSums(m, q)
  BY <1>1, SwitchAlong
<1>3. Parity(n + 1, Body(s)) = Xor(Parity(n, Body(s)), Ascii[c])
  BY BodySummed
<1>4. /\ p.state = m.state /\ p.pbuff = m.pbuff /\ p.result = m.result /\ p.gps = m.gps
      /\ p.msgsum = m.msgsum
      /\ m.state \in 2..19 => p.checksum = Xor(m.checksum, Ascii[c])
  BY ParseSame
<1> HIDE DEF m, p, c
<1>5. Along(p, n + 1, s)
  BY <1>2, <1>4, AlongSame
<1>6. p.checksum = Parity(n + 1, Body(s)) /\ p.msgsum = {}
  BY <1>1, <1>2, <1>3, <1>4 DEF SameSums
<1>7. InStep(p, n + 1, s) /\ p.state \in 2..19
  BY <1>2, <1>4, <1>5, <1>6 DEF InStep
<1> QED  BY <1>7 DEF p, c

LEMMA ParseFirst ==
    ASSUME NEW s \in Reports, NEW q, Good(q), q.state = 1, q.checksum = {}, q.msgsum = {}
    PROVE  InStep(parse(q, "G"), 1, s)
<1> DEFINE c == "G"
           m == Switch(q, c)
           p == parse(q, c)
           x == [q EXCEPT !.state = 2]
<1>1. q \in Parser
  BY DEF Good
<1>2. m = x
  <2>1. q.state \in 1..5 /\ c = Name[q.state] /\ q.state + 1 = 2
    BY DEF Name
  <2>2. m = Expect(q, c = Name[q.state], q.state + 1)
    BY <2>1, Branches, Zenon
  <2> QED  BY <2>1, <2>2, Zenon DEF Expect
<1>3. x.state = 2 /\ x.checksum = {} /\ x.msgsum = {}
  BY <1>1, MovedFields
<1>4. /\ p.state = m.state /\ p.msgsum = m.msgsum
      /\ m.state \in 2..19 => p.checksum = Xor(m.checksum, Ascii[c])
  BY ParseSame
<1>5. Parity(1, Body(s)) = Xor({}, Ascii[c])
  <2>1. 0 \in 0..Len(Body(s)) /\ 0 < Len(Body(s)) /\ 0 + 1 = 1
    BY BodyFacts
  <2>2. Parity(1, Body(s)) = Xor(Parity(0, Body(s)), Ascii[Body(s)[1]]) /\ Body(s)[1] = c
    <3>1. /\ Parity(0 + 1, Body(s)) = Xor(Parity(0, Body(s)), Ascii[Body(s)[0 + 1]])
          /\ Body(s)[0 + 1] = "G" <=> 0 = 0
      BY <2>1, BodySummed
    <3> QED  BY <2>1, <3>1
  <2> QED  BY <2>2, ParityNone
<1> HIDE DEF m, p, c, x
<1>6. p.state = 2 /\ p.msgsum = {} /\ p.checksum = Parity(1, Body(s))
  BY <1>2, <1>3, <1>4, <1>5
<1>7. Done(p, s)
  BY <1>6, EndStates DEF Done
<1>8. Along(p, 1, s)
  <2>1. p.state \in 2..6 /\ 1 = p.state - 1
    BY <1>6
  <2> QED  BY <1>7, <2>1, Zenon DEF Along
<1>9. InStep(p, 1, s)
  BY <1>6, <1>8 DEF InStep
<1> QED  BY <1>9 DEF p, c

LEMMA ParseLast ==
    ASSUME NEW s \in Reports, NEW q, Good(q), InStep(q, Len(Body(s)), s)
    PROVE  LET p == parse(q, "*")
           IN  /\ p.state = 20 /\ p.result = Kept(s) /\ p.gps = (s.status = "A")
               /\ p.checksum = Parity(Len(Body(s)), Body(s)) /\ p.msgsum = {}
<1> DEFINE c == "*"
           m == Switch(q, c)
           p == parse(q, c)
<1>1. q \in Parser /\ Along(q, Len(Body(s)), s)
  BY DEF Good, InStep
<1>2. m.state = 20 /\ m.result = Kept(s) /\ m.gps = (s.status = "A") /\ SameSums(m, q)
  BY <1>1, SwitchLast
<1>3. /\ p.state = m.state /\ p.result = m.result /\ p.gps = m.gps /\ p.msgsum = m.msgsum
      /\ m.state \notin 2..19 => p.checksum = m.checksum
  BY ParseSame
<1> HIDE DEF m, p, c
<1>4. /\ p.state = 20 /\ p.result = Kept(s) /\ p.gps = (s.status = "A")
      /\ p.checksum = q.checksum /\ p.msgsum = q.msgsum
  BY <1>2, <1>3 DEF SameSums
<1>5. q.checksum = Parity(Len(Body(s)), Body(s)) /\ q.msgsum = {}
  BY DEF InStep
<1>6. /\ p.state = 20 /\ p.result = Kept(s) /\ p.gps = (s.status = "A")
      /\ p.checksum = Parity(Len(Body(s)), Body(s)) /\ p.msgsum = {}
  BY <1>4, <1>5
<1> QED  BY <1>6 DEF p, c

\* What a character may do, wherever the parser is.
Moves(q, c, p) ==
    /\ p.state \in 0..21
    /\ q.state = 0 => p.state \in {0, 1}
    /\ p.state = 1 => q.state = 0 /\ c = "$" /\ p.checksum = {} /\ p.msgsum = {}
    /\ p.state \in 2..19 => /\ q.state \in 1..19 /\ p.msgsum = q.msgsum
                            /\ c \in SentenceChar /\ (c = "G" <=> q.state = 1)
                            /\ p.checksum = Xor(q.checksum, Ascii[c])
    /\ p.state = 20 => \/ /\ q.state \in 2..19 /\ c = "*"
                          /\ p.checksum = q.checksum /\ p.msgsum = q.msgsum
                       \/ /\ q.state = 20 /\ c \in DOMAIN Hex
                          /\ p.checksum = q.checksum /\ p.msgsum = WithDigit(q.msgsum, c)
                          /\ p.result = q.result /\ p.gps = q.gps
    /\ p.state = 21 => /\ q.state = 20 /\ c = "\r" /\ q.msgsum = q.checksum
                       /\ p.result = q.result /\ p.gps = q.gps
    /\ q.state = 20 /\ c \in DOMAIN Hex => p.state = 20
    /\ q.state = 0 /\ c = "$" => p.state = 1

LEMMA ParseMoves == ASSUME NEW q, Good(q), NEW c PROVE Moves(q, c, parse(q, c))
<1> DEFINE m == Switch(q, c)
           p == parse(q, c)
<1>1. q \in Parser /\ q.state \in 0..21
  BY ParserFields DEF Good
<1>2. /\ p.state = m.state /\ p.result = m.result /\ p.gps = m.gps /\ p.msgsum = m.msgsum
      /\ m.state \in 2..19 => p.checksum = Xor(m.checksum, Ascii[c])
      /\ m.state \notin 2..19 => p.checksum = m.checksum
  BY ParseSame
<1>3. CASE q.state = 0
  <2>1. /\ m.state \in {0, 1} /\ (c = "$" <=> m.state = 1)
        /\ m.state = 1 => m.checksum = {} /\ m.msgsum = {}
    BY <1>1, <1>3, OutsideMoves
  <2> HIDE DEF m, p
  <2>2. /\ p.state \in {0, 1} /\ (c = "$" <=> p.state = 1)
        /\ p.state = 1 => p.checksum = {} /\ p.msgsum = {}
    BY <1>2, <2>1
  <2> QED  BY <1>3, <2>2 DEF Moves, p
<1>4. CASE q.state \in 1..19
  <2>1. Goes(q, c, m)
    BY <1>1, <1>4, InsideMoves
  <2> HIDE DEF m, p
  <2>2. /\ p.state \in {0} \cup 2..20
        /\ p.state = 20 => c = "*" /\ q.state # 1 /\ p.checksum = q.checksum
        /\ p.msgsum = q.msgsum
        /\ p.state \in 2..19 => /\ c \in SentenceChar /\ (c = "G" <=> q.state = 1)
                                /\ p.checksum = Xor(q.checksum, Ascii[c])
    BY <1>2, <2>1 DEF Goes, SameSums
  <2> QED  BY <1>4, <2>2 DEF Moves, p
<1>5. CASE q.state = 20
  <2>1. /\ m.state \in {0, 20, 21}
        /\ c \in DOMAIN Hex => m.state = 20
        /\ m.state = 20 => /\ c \in DOMAIN Hex /\ m.msgsum = WithDigit(q.msgsum, c)
                           /\ m.checksum = q.checksum
        /\ m.state = 21 => c = "\r" /\ q.msgsum = q.checksum
        /\ m.state # 0 => m.result = q.result /\ m.gps = q.gps
    BY <1>1, <1>5, SumMoves
  <2> HIDE DEF m, p
  <2>2. /\ p.state \in {0, 20, 21}
        /\ c \in DOMAIN Hex => p.state = 20
        /\ p.state = 20 => /\ c \in DOMAIN Hex /\ p.msgsum = WithDigit(q.msgsum, c)
                           /\ p.checksum = q.checksum
        /\ p.state = 21 => c = "\r" /\ q.msgsum = q.checksum
        /\ p.state # 0 => p.result = q.result /\ p.gps = q.gps
    BY <1>2, <2>1
  <2> QED  BY <1>5, <2>2 DEF Moves, p
<1>6. CASE q.state = 21
  <2>1. m.state = 0
    BY <1>1, <1>6, OtherBranches, ResetFields
  <2> HIDE DEF m, p
  <2>2. p.state = 0
    BY <1>2, <2>1
  <2> QED  BY <1>6, <2>2 DEF Moves, p
<1> QED  BY <1>1, <1>3, <1>4, <1>5, <1>6

-----------------------------------------------------------------------------
(* The characters of a sentence, at their places.                          *)

LEMMA Behind ==
    ASSUME NEW S, NEW a \in Word(S), NEW b \in Word(S)
    PROVE  /\ Joint(a, b) \in Word(S) /\ Len(Joint(a, b)) = Len(a) + Len(b)
           /\ \A i \in 1..Len(a) : Joint(a, b)[i] = a[i]
           /\ \A i \in 1..Len(b) : Joint(a, b)[Len(a) + i] = b[i]
<1> DEFINE x == Joint(a, b)
           m == Len(a)
           n == Len(b)
<1>1. m \in Nat /\ n \in Nat
  BY WordFacts
<1>2. /\ x \in Word(S) /\ Len(x) = m + n
      /\ \A i \in 1..(m + n) : x[i] = IF i <= m THEN a[i] ELSE b[i - m]
  BY JointFacts
<1> HIDE DEF x, m, n
<1>3. ASSUME NEW i \in 1..n PROVE x[m + i] = b[i]
  <2>1. m + i \in 1..(m + n) /\ ~(m + i <= m) /\ (m + i) - m = i
    BY <1>1
  <2> QED  BY <1>2, <2>1
<1>4. \A i \in 1..m : x[i] = a[i]
  BY <1>1, <1>2
<1> QED  BY <1>2, <1>3, <1>4 DEF x, m, n

LEMMA TwoFacts ==
    ASSUME NEW S, NEW a \in S, NEW b \in S
    PROVE  LET w == Joint(One(a), One(b))
           IN  w \in Word(S) /\ Len(w) = 2 /\ w[1] = a /\ w[2] = b
<1> DEFINE u == One(b)
           w == Joint(One(a), u)
<1>1. u \in Word(S) /\ Len(u) = 1 /\ u[1] = b
  BY OneFacts
<1> HIDE DEF u
<1>2. u \in Word(S)
  BY <1>1
<1>3. /\ w \in Word(S) /\ Len(w) = Len(u) + 1 /\ w[1] = a
      /\ \A i \in 1..Len(u) : w[i + 1] = u[i]
  BY <1>2, PutBefore
<1> HIDE DEF w
<1>4. Len(w) = 2 /\ w[2] = u[1]
  <2>1. 1 \in 1..1 /\ 1 + 1 = 2
    OBVIOUS
  <2> QED  BY <1>1, <1>3, <2>1
<1> QED  BY <1>1, <1>3, <1>4 DEF w, u

\* The characters that are sent, at their places.
LEMMA SentChars ==
    ASSUME NEW s \in Sentence
    PROVE  LET L == Len(Body(s))
               h == HexSum(Parity(L, Body(s)))
           IN  /\ Len(Sent[s]) = L + 6 /\ L \in Nat /\ L >= 6
               /\ Sent[s][1] = "$"
               /\ \A i \in 1..L : Sent[s][i + 1] = Body(s)[i]
               /\ Sent[s][L + 2] = "*"
               /\ Sent[s][L + 3] = h[1] /\ Sent[s][L + 4] = h[2]
               /\ Sent[s][L + 5] = "\r" /\ Sent[s][L + 6] = "\n"
               /\ h[1] \in DOMAIN Hex /\ h[2] \in DOMAIN Hex
               /\ WithDigit(WithDigit({}, h[1]), h[2]) = Parity(L, Body(s))
<1> DEFINE B == Body(s)
           L == Len(B)
           sum == FoldLeft(LAMBDA x, c : Xor(x, Ascii[c]), {}, B)
           h == HexSum(Parity(L, B))
           h1 == h[1]
           h2 == h[2]
           b == "$"
           e == "*"
           r == "\r"
           n == "\n"
           S == Chars \cup {h1, h2, b, e, r, n}
           p1 == Joint(One(b), B)
           p2 == Joint(p1, One(e))
           p3 == Joint(p2, h)
           p4 == Joint(p3, <<r, n>>)
<1>1. s \in Reports
  BY NmeaConstants
<1>2. B \in Word(Chars) /\ L \in Nat /\ L >= 6
  BY <1>1, BodyFacts
<1>3. sum = Parity(L, B)
  <2>1. B \in Seq(Chars)
    BY <1>2 DEF Word
  <2>2. DOMAIN B = 1..L
    BY <2>1
  <2>3. \A i \in 1..L : Ascii[B[i]] \in Byte
    <3>1. \A i \in 1..L : B[i] \in Chars
      BY <1>2, WordFacts
    <3> QED  BY <3>1, ByteFacts DEF Chars
  <2> HIDE DEF B, L
  <2> QED  BY <1>2, <2>2, <2>3, SumIsParity
<1>4. /\ h1 \in DOMAIN Hex /\ h2 \in DOMAIN Hex /\ h = <<h1, h2>>
      /\ WithDigit(WithDigit({}, h1), h2) = Parity(L, B)
  <2>1. Parity(L, B) \in Byte
    BY ParityByte
  <2> HIDE DEF B, L
  <2> QED  BY <2>1, SumRead
<1>5. Sent[s] = p4
  <2>1. Sent[s] = <<b>> \o B \o <<e>> \o HexSum(sum) \o <<r, n>>
    BY DEF Sent
  <2> HIDE DEF sum
  <2> QED  BY <1>3, <2>1 DEF Joint, One
<1>6. B \in Word(S) /\ h1 \in S /\ h2 \in S /\ b \in S /\ e \in S /\ r \in S /\ n \in S
  <2>1. Chars \subseteq S
    OBVIOUS
  <2> HIDE DEF S, B, Chars
  <2>2. B \in Word(S)
    BY <1>2, <2>1, WiderWord
  <2> QED  BY <2>2 DEF S
<1> HIDE DEF S, B, L, h, h1, h2, b, e, r, n, Chars
<1>7. h = Joint(One(h1), One(h2)) /\ <<r, n>> = Joint(One(r), One(n))
  <2>1. <<h1, h2>> = Joint(One(h1), One(h2)) /\ <<r, n>> = Joint(One(r), One(n))
    BY <1>6, Twos
  <2> QED  BY <1>4, <2>1
<1> DEFINE w == Joint(One(r), One(n))
           g == Joint(One(h1), One(h2))
<1>8. /\ One(h1) \in Word(S) /\ One(h2) \in Word(S) /\ One(r) \in Word(S) /\ One(n) \in Word(S)
      /\ One(b) \in Word(S) /\ One(e) \in Word(S)
  BY <1>6, OneFacts
<1>9. g \in Word(S) /\ Len(g) = 2 /\ g[1] = h1 /\ g[2] = h2
  BY <1>6, <1>8, TwoFacts
<1>10. w \in Word(S) /\ Len(w) = 2 /\ w[1] = r /\ w[2] = n
  BY <1>6, <1>8, TwoFacts
<1>11. /\ p1 \in Word(S) /\ Len(p1) = L + 1 /\ p1[1] = b
       /\ \A i \in 1..L : p1[i + 1] = B[i]
  BY <1>6, PutBefore DEF L
<1> HIDE DEF p1, g, w
<1>12. /\ p2 \in Word(S) /\ Len(p2) = L + 2
       /\ \A i \in 1..(L + 1) : p2[i] = p1[i]
       /\ p2[L + 2] = e
  <2> DEFINE u == One(e)
             y == Joint(p1, u)
  <2>1. Len(u) = 1 /\ u[1] = e
    BY <1>6, OneFacts
  <2>2. u \in Word(S) /\ p1 \in Word(S)
    BY <1>8, <1>11
  <2> HIDE DEF u
  <2>3. /\ y \in Word(S) /\ Len(y) = Len(p1) + Len(u)
        /\ \A i \in 1..Len(p1) : y[i] = p1[i]
        /\ \A i \in 1..Len(u) : y[Len(p1) + i] = u[i]
    BY <2>2, Behind
  <2> HIDE DEF y
  <2>4. Len(p1) = L + 1 /\ 1 \in 1..1 /\ (L + 1) + 1 = L + 2 /\ L \in Nat
    BY <1>2, <1>11
  <2>5. Len(y) = L + 2 /\ y[L + 2] = e
    BY <2>1, <2>3, <2>4
  <2>6. \A i \in 1..(L + 1) : y[i] = p1[i]
    BY <2>3, <2>4
  <2> QED  BY <2>3, <2>5, <2>6 DEF y, u
<1> HIDE DEF p2
<1>13. /\ p3 \in Word(S) /\ Len(p3) = L + 4
       /\ \A i \in 1..(L + 2) : p3[i] = p2[i]
       /\ p3[L + 3] = h1 /\ p3[L + 4] = h2
  <2> DEFINE y == Joint(p2, g)
  <2>1. g \in Word(S) /\ p2 \in Word(S)
    BY <1>9, <1>12
  <2>2. /\ y \in Word(S) /\ Len(y) = Len(p2) + Len(g)
        /\ \A i \in 1..Len(p2) : y[i] = p2[i]
        /\ \A i \in 1..Len(g) : y[Len(p2) + i] = g[i]
    BY <2>1, Behind
  <2>3. p3 = y
    BY <1>7 DEF g
  <2> HIDE DEF y, p3
  <2>4. /\ Len(p2) = L + 2 /\ 1 \in 1..2 /\ 2 \in 1..2 /\ (L + 2) + 1 = L + 3 /\ (L + 2) + 2 = L + 4
        /\ L \in Nat
    BY <1>2, <1>12
  <2>5. Len(y) = L + 4 /\ y[L + 3] = h1 /\ y[L + 4] = h2
    BY <1>9, <2>2, <2>4
  <2>6. \A i \in 1..(L + 2) : y[i] = p2[i]
    BY <2>2, <2>4
  <2> QED  BY <2>2, <2>3, <2>5, <2>6
<1> HIDE DEF p3
<1>14. /\ p4 \in Word(S) /\ Len(p4) = L + 6
       /\ \A i \in 1..(L + 4) : p4[i] = p3[i]
       /\ p4[L + 5] = r /\ p4[L + 6] = n
  <2> DEFINE y == Joint(p3, w)
  <2>1. w \in Word(S) /\ p3 \in Word(S)
    BY <1>10, <1>13
  <2>2. /\ y \in Word(S) /\ Len(y) = Len(p3) + Len(w)
        /\ \A i \in 1..Len(p3) : y[i] = p3[i]
        /\ \A i \in 1..Len(w) : y[Len(p3) + i] = w[i]
    BY <2>1, Behind
  <2>3. p4 = y
    BY <1>7 DEF w
  <2> HIDE DEF y, p4
  <2>4. /\ Len(p3) = L + 4 /\ 1 \in 1..2 /\ 2 \in 1..2 /\ (L + 4) + 1 = L + 5 /\ (L + 4) + 2 = L + 6
        /\ L \in Nat
    BY <1>2, <1>13
  <2>5. Len(y) = L + 6 /\ y[L + 5] = r /\ y[L + 6] = n
    BY <1>10, <2>2, <2>4
  <2>6. \A i \in 1..(L + 4) : y[i] = p3[i]
    BY <2>2, <2>4
  <2> QED  BY <2>2, <2>3, <2>5, <2>6
<1> DEFINE t == Sent[s]
<1>15. t = p4
  BY <1>5
<1> HIDE DEF p4, t
<1>16. /\ 1 \in 1..(L + 1) /\ L + 2 \in 1..(L + 2) /\ L + 2 \in 1..(L + 4) /\ L + 3 \in 1..(L + 4)
       /\ L + 4 \in 1..(L + 4) /\ 1 \in 1..(L + 2) /\ 1 \in 1..(L + 4)
  BY <1>2
<1>17. \A i \in 1..L : i + 1 \in 1..(L + 1) /\ i + 1 \in 1..(L + 2) /\ i + 1 \in 1..(L + 4)
  BY <1>2
<1>18. \A i \in 1..L : t[i + 1] = B[i]
  BY <1>11, <1>12, <1>13, <1>14, <1>15, <1>17
<1>19. /\ Len(t) = L + 6 /\ t[1] = b /\ t[L + 2] = e /\ t[L + 3] = h1 /\ t[L + 4] = h2
       /\ t[L + 5] = r /\ t[L + 6] = n
  BY <1>11, <1>12, <1>13, <1>14, <1>15, <1>16
<1> QED  BY <1>2, <1>4, <1>18, <1>19 DEF t, B, L, h, h1, h2, b, e, r, n

-----------------------------------------------------------------------------
(* The invariant: q is the parser, of which the first a characters of s    *)
(* were sent, one of them not right where w says; H was heard.             *)

\* What is handed out is a sentence that was heard.
Whole(q, H) == q.gps => \E s \in H : q.result = Kept(s)

Fresh(q) ==
    /\ q.state = 1 => q.checksum = {}
    /\ q.state \in 1..19 => q.msgsum = {}

\* Up to the "$".
AtHead(q, a, w, H) ==
    /\ a = 0 /\ q.state = 20 => Whole(q, H)
    /\ a = 1 /\ w = "nowhere" => q.state \in {0, 1}
    /\ a < 2 => w # "body"

\* In what is summed.
AtBody(q, a, s, w) ==
    a \in 2..(Len(Body(s)) + 1) =>
        IF w = "body"
        THEN /\ q.state # 21
             /\ q.state \in 2..19 => q.checksum # Parity(a - 1, Body(s))
        ELSE q.state = 0 \/ InStep(q, a - 1, s)

\* A sentence of which the body was spoilt does not get its sums to match.
Foiled(q, a, s) ==
    LET L == Len(Body(s))
        h == HexSum(Parity(L, Body(s)))
    IN  /\ q.checksum # Parity(L, Body(s))
        /\ \/ a = L + 2 /\ q.msgsum = {}
           \/ a = L + 3 /\ q.msgsum = WithDigit({}, h[1])
           \/ a = L + 4 /\ q.msgsum = WithDigit(WithDigit({}, h[1]), h[2])

\* From the "*" on.
AtTail(q, a, s, w, H) ==
    a >= Len(Body(s)) + 2 =>
        /\ w = "body" => q.state = 0 \/ (q.state = 20 /\ Foiled(q, a, s))
        /\ w # "body" /\ q.state = 20 => Whole(q, H)
        /\ w = "nowhere" => q.state \in {0, 20, 21}

Tracks(q, a, s, w, H) ==
    /\ Fresh(q)
    /\ q.state = 21 => Whole(q, H)
    /\ AtHead(q, a, w, H)
    /\ AtBody(q, a, s, w)
    /\ AtTail(q, a, s, w, H)

Places == {"nowhere", "body", "frame"}

LEMMA WholeKept ==
    ASSUME NEW q, NEW p, NEW H, NEW J, H \subseteq J, Whole(q, H),
           p.result = q.result, p.gps = q.gps
    PROVE  Whole(p, J)
  BY DEF Whole

LEMMA FreshMoves ==
    ASSUME NEW q, NEW c, NEW p, Moves(q, c, p), Fresh(q)
    PROVE  Fresh(p)
<1>1. p.state = 1 => p.checksum = {} /\ p.msgsum = {}
  BY DEF Moves
<1>2. p.state \in 2..19 => q.state \in 1..19 /\ p.msgsum = q.msgsum
  BY DEF Moves
<1>3. p.state \in 1..19 => p.state = 1 \/ p.state \in 2..19
  OBVIOUS
<1> QED  BY <1>1, <1>2, <1>3 DEF Fresh

\* Only at its end is a sentence handed out.
LEMMA FoundMoves ==
    ASSUME NEW q, NEW c, NEW p, Moves(q, c, p), p.state = 21
    PROVE  q.state = 20 /\ c = "\r" /\ q.msgsum = q.checksum
           /\ \A H, J : H \subseteq J /\ Whole(q, H) => Whole(p, J)
<1>1. /\ q.state = 20 /\ c = "\r" /\ q.msgsum = q.checksum
      /\ p.result = q.result /\ p.gps = q.gps
  BY DEF Moves
<1> QED  BY <1>1, WholeKept

LEMMA SumStays ==
    ASSUME NEW q, NEW c, NEW p, Moves(q, c, p), p.state = 20, q.state = 20
    PROVE  /\ c \in DOMAIN Hex /\ p.checksum = q.checksum /\ p.msgsum = WithDigit(q.msgsum, c)
           /\ \A H, J : H \subseteq J /\ Whole(q, H) => Whole(p, J)
<1>1. q.state \notin 2..19
  OBVIOUS
<1>2. /\ c \in DOMAIN Hex /\ p.checksum = q.checksum /\ p.msgsum = WithDigit(q.msgsum, c)
      /\ p.result = q.result /\ p.gps = q.gps
  BY <1>1 DEF Moves
<1> QED  BY <1>2, WholeKept

LEMMA Frames ==
    /\ "$" \notin DOMAIN Hex /\ "*" \notin DOMAIN Hex /\ "\r" \notin DOMAIN Hex
    /\ "\n" \notin DOMAIN Hex /\ "G" \notin DOMAIN Hex
    /\ \A c \in DOMAIN Hex : c # "$" /\ c # "*" /\ c # "\r" /\ c # "\n" /\ c # "G"
  BY HexChars DEF Hex, ToSet, HexDigits

\* The "$" arrives.
LEMMA ArriveHead ==
    ASSUME NEW s \in Sentence, NEW q, Good(q), NEW w \in Places, NEW H, NEW J, H \subseteq J,
           Tracks(q, 0, s, w, H)
    PROVE  Tracks(parse(q, "$"), 1, s, w, J)
<1> DEFINE c == "$"
           p == parse(q, c)
           L == Len(Body(s))
<1>1. L \in Nat /\ L >= 6
  BY SentChars
<1>2. Moves(q, c, p)
  BY ParseMoves
<1>3. c \notin SentenceChar /\ c # "*" /\ c # "\r" /\ c \notin DOMAIN Hex
  BY SentenceChars, Frames
<1> HIDE DEF c, p, L
<1>4. p.state \in {0, 1}
  <2>1. p.state \in 0..21 /\ p.state \notin 2..19 /\ p.state # 20 /\ p.state # 21
    BY <1>2, <1>3 DEF Moves
  <2> QED  BY <2>1
<1>5. Fresh(p)
  BY <1>2, FreshMoves DEF Tracks
<1>6. w # "body"
  BY DEF Tracks, AtHead
<1>7. p.state # 20 /\ p.state # 21
  BY <1>4
<1>8. AtHead(p, 1, w, J)
  BY <1>4, <1>6 DEF AtHead
<1>9. AtBody(p, 1, s, w) /\ AtTail(p, 1, s, w, J)
  BY <1>1 DEF AtBody, AtTail, L
<1>10. Tracks(p, 1, s, w, J)
  BY <1>5, <1>7, <1>8, <1>9 DEF Tracks
<1> QED  BY <1>10 DEF p, c

\* The first character of the body arrives.
LEMMA ArriveFirst ==
    ASSUME NEW s \in Sentence, NEW q, Good(q), NEW w \in Places, NEW H, NEW J, H \subseteq J,
           Tracks(q, 1, s, w, H)
    PROVE  Tracks(parse(q, "G"), 2, s, w, J)
<1> DEFINE c == "G"
           p == parse(q, c)
           L == Len(Body(s))
<1>1. L \in Nat /\ L >= 6 /\ s \in Reports
  BY SentChars, NmeaConstants
<1>2. Moves(q, c, p)
  BY ParseMoves
<1>3. c # "*" /\ c # "\r" /\ c # "$" /\ c \notin DOMAIN Hex
  BY Frames
<1>4. q.state = 1 => InStep(p, 1, s)
  BY <1>1, ParseFirst DEF Tracks, Fresh
<1>5. q.state # 1 => p.state = 0
  <2>1. p.state \in 2..19 => (c = "G" <=> q.state = 1)
    BY <1>2 DEF Moves
  <2>2. q.state # 1 => p.state \notin 2..19
    BY <2>1
  <2> HIDE DEF c, p
  <2>3. p.state \in 0..21 /\ p.state # 1 /\ p.state # 20 /\ p.state # 21
    BY <1>2, <1>3 DEF Moves
  <2> QED  BY <2>2, <2>3
<1>6. InStep(p, 1, s) => p.state \in 2..19
  BY AlongCases DEF InStep
<1> HIDE DEF c, p, L
<1>7. Fresh(p) /\ w # "body"
  BY <1>2, FreshMoves DEF Tracks, AtHead
<1>8. p.state # 20 /\ p.state # 21
  BY <1>4, <1>5, <1>6
<1>9. AtBody(p, 2, s, w)
  <2>1. 2 - 1 = 1
    OBVIOUS
  <2> QED  BY <1>4, <1>5, <1>7, <2>1 DEF AtBody
<1>10. AtHead(p, 2, w, J) /\ AtTail(p, 2, s, w, J)
  BY <1>1 DEF AtHead, AtTail, L
<1>11. Tracks(p, 2, s, w, J)
  BY <1>7, <1>8, <1>9, <1>10 DEF Tracks
<1> QED  BY <1>11 DEF p, c

-----------------------------------------------------------------------------
(* The next character arrives as it was sent.                              *)

LEMMA Apart ==
    ASSUME NEW k
    PROVE  /\ k \in {0, 20, 21} => k \notin 1..19 /\ k \notin 2..19
           /\ k \in {0, 1} => k \notin 2..19 /\ k # 20 /\ k # 21
           /\ k = 0 => k \notin 1..19 /\ k # 20 /\ k # 21
           /\ k \in 2..19 => k \in 1..19 /\ k # 0 /\ k # 1 /\ k # 20 /\ k # 21
           /\ k \in {0, 1} /\ k \in 1..19 => k = 1
           /\ k = 20 => k \notin 1..19 /\ k \notin 2..19 /\ k # 21
  OBVIOUS

LEMMA InStepInside == ASSUME NEW q, NEW n, NEW s, InStep(q, n, s) PROVE q.state \in 2..19
<1>1. q.state \in 2..6 \/ q.state \in 7..17 \/ q.state \in {18, 19}
  BY AlongCases DEF InStep
<1> QED  BY <1>1

LEMMA XorFacts ==
    /\ \A a, b, c \in Byte : Xor(a, c) = Xor(b, c) => a = b
    /\ \A a, b, c \in Byte : Xor(c, a) = Xor(c, b) => a = b
    /\ \A a, b \in Byte : Xor(a, b) = a => b = {}
  BY DEF Xor, Byte

\* One more character of the body arrives.
LEMMA ArriveBody ==
    ASSUME NEW s \in Sentence, NEW q, Good(q), NEW w \in Places, NEW H, NEW J, H \subseteq J,
           NEW n \in 1..(Len(Body(s)) - 1), Tracks(q, n + 1, s, w, H)
    PROVE  Tracks(parse(q, Body(s)[n + 1]), n + 2, s, w, J)
<1> DEFINE B == Body(s)
           c == B[n + 1]
           p == parse(q, c)
           L == Len(B)
<1>1. L \in Nat /\ L >= 6 /\ s \in Reports /\ n \in Nat /\ n \in 0..L /\ n < L /\ n # 0
  <2>1. L \in Nat /\ L >= 6
    BY SentChars
  <2> QED  BY <2>1, NmeaConstants
<1>2. Moves(q, c, p)
  BY ParseMoves
<1>3. /\ c \in DOMAIN Ascii /\ c \in SentenceChar /\ (c = "G" <=> n = 0)
      /\ Parity(n + 1, B) = Xor(Parity(n, B), Ascii[c])
  BY <1>1, BodySummed
<1>4. c # "*" /\ c # "\r" /\ c # "$" /\ c # "G"
  BY <1>1, <1>3, SentenceChars
<1>5. InStep(q, n, s) => InStep(p, n + 1, s)
  BY <1>1, ParseInStep
<1>6. q.state = 0 => p.state = 0
  <2>1. q.state = 0 => p.state \in {0, 1}
    BY <1>2 DEF Moves
  <2>2. p.state # 1
    BY <1>2, <1>4 DEF Moves
  <2> QED  BY <2>1, <2>2
<1>7. n + 1 \in 2..(L + 1) /\ n + 2 \in 2..(L + 1) /\ (n + 1) - 1 = n /\ (n + 2) - 1 = n + 1
  BY <1>1
<1>8. IF w = "body" THEN /\ q.state # 21
                         /\ q.state \in 2..19 => q.checksum # Parity(n, B)
      ELSE q.state = 0 \/ InStep(q, n, s)
  BY <1>7 DEF Tracks, AtBody
<1>9. Parity(n, B) \in Byte /\ Ascii[c] \in Byte
  BY <1>3, ByteFacts, ParityByte
<1>10. q.checksum \in Byte
  BY ParserFields DEF Good
<1> HIDE DEF c, p, L, B
<1>11. Fresh(p)
  BY <1>2, FreshMoves DEF Tracks
<1>12. p.state # 21
  BY <1>2, <1>4, FoundMoves
<1>13. ASSUME w = "body", p.state \in 2..19 PROVE p.checksum # Parity(n + 1, B)
  <2>1. q.state \in 1..19 /\ p.checksum = Xor(q.checksum, Ascii[c]) /\ q.state # 1
    BY <1>2, <1>4, <1>13 DEF Moves
  <2>2. q.state \in 2..19
    BY <2>1
  <2>3. q.checksum # Parity(n, B)
    BY <1>8, <1>13, <2>2
  <2> QED  BY <1>3, <1>9, <1>10, <2>1, <2>3, XorFacts
<1>14. w # "body" => p.state = 0 \/ InStep(p, n + 1, s)
  BY <1>5, <1>6, <1>8
<1>15. AtBody(p, n + 2, s, w)
  BY <1>7, <1>12, <1>13, <1>14 DEF AtBody, B
<1>16. AtHead(p, n + 2, w, J) /\ AtTail(p, n + 2, s, w, J)
  <2>1. n + 2 # 0 /\ n + 2 # 1 /\ ~(n + 2 < 2) /\ ~(n + 2 >= L + 2)
    BY <1>1
  <2> QED  BY <2>1 DEF AtHead, AtTail, L, B
<1>17. Tracks(p, n + 2, s, w, J)
  BY <1>11, <1>12, <1>15, <1>16 DEF Tracks
<1> QED  BY <1>17 DEF p, c, B

\* The "*" arrives: a sentence whose body came intact is heard.
LEMMA ArriveStar ==
    ASSUME NEW s \in Sentence, NEW q, Good(q), NEW w \in Places, NEW H, NEW J, H \subseteq J,
           Tracks(q, Len(Body(s)) + 1, s, w, H), w # "body" /\ s.status = "A" => s \in J
    PROVE  Tracks(parse(q, "*"), Len(Body(s)) + 2, s, w, J)
<1> DEFINE B == Body(s)
           c == "*"
           p == parse(q, c)
           L == Len(B)
<1>1. L \in Nat /\ L >= 6 /\ s \in Reports
  <2>1. L \in Nat /\ L >= 6
    BY SentChars
  <2> QED  BY <2>1, NmeaConstants
<1>2. Moves(q, c, p)
  BY ParseMoves
<1>3. c \notin SentenceChar /\ c # "\r" /\ c # "$" /\ c \notin DOMAIN Hex
  BY SentenceChars, Frames
<1>4. InStep(q, L, s) => /\ p.state = 20 /\ p.result = Kept(s) /\ p.gps = (s.status = "A")
  BY <1>1, ParseLast
<1>5. L + 1 \in 2..(L + 1) /\ (L + 1) - 1 = L
  BY <1>1
<1>6. IF w = "body" THEN /\ q.state # 21
                         /\ q.state \in 2..19 => q.checksum # Parity(L, B)
      ELSE q.state = 0 \/ InStep(q, L, s)
  BY <1>5 DEF Tracks, AtBody
<1> HIDE DEF c, p, L, B
<1>7. p.state \in {0, 20} /\ (p.state = 20 => /\ q.state \in 2..19 /\ p.checksum = q.checksum
                                              /\ p.msgsum = q.msgsum)
  <2>1. p.state \in 0..21 /\ p.state # 1 /\ p.state \notin 2..19 /\ p.state # 21
    BY <1>2, <1>3 DEF Moves
  <2>2. p.state = 20 => q.state \in 2..19 /\ p.checksum = q.checksum /\ p.msgsum = q.msgsum
    BY <1>2, <1>3 DEF Moves
  <2> QED  BY <2>1, <2>2
<1>8. Fresh(p)
  BY <1>2, FreshMoves DEF Tracks
<1>9. p.state # 21 /\ (w = "nowhere" => p.state \in {0, 20, 21})
  BY <1>7
<1>10. w = "body" => p.state = 0 \/ (p.state = 20 /\ Foiled(p, L + 2, s))
  <2> SUFFICES ASSUME w = "body", p.state = 20 PROVE Foiled(p, L + 2, s)
    BY <1>7
  <2>1. q.state \in 2..19 /\ q.state \in 1..19
    BY <1>7
  <2>2. q.msgsum = {}
    BY <2>1 DEF Tracks, Fresh
  <2> QED  BY <1>6, <1>7, <2>1, <2>2 DEF Foiled, L, B
<1>11. w # "body" /\ p.state = 20 => Whole(p, J)
  <2> SUFFICES ASSUME w # "body", p.state = 20 PROVE Whole(p, J)
    OBVIOUS
  <2>1. InStep(q, L, s)
    <3>1. q.state # 0
      BY <1>7, SMTT(30)
    <3> QED  BY <1>6, <3>1
  <2>2. p.result = Kept(s) /\ (p.gps => s.status = "A")
    BY <1>4, <2>1
  <2> QED  BY <2>2 DEF Whole
<1>12. AtTail(p, L + 2, s, w, J)
  BY <1>9, <1>10, <1>11 DEF AtTail
<1>13. AtHead(p, L + 2, w, J) /\ AtBody(p, L + 2, s, w)
  <2>1. L + 2 # 0 /\ L + 2 # 1 /\ ~(L + 2 < 2) /\ L + 2 \notin 2..(L + 1)
    BY <1>1
  <2> QED  BY <2>1 DEF AtHead, AtBody, L, B
<1>14. Tracks(p, L + 2, s, w, J)
  BY <1>8, <1>9, <1>12, <1>13 DEF Tracks
<1> QED  BY <1>14 DEF p, c, L, B

\* One of the characters behind the "*" arrives.
LEMMA ArriveTail ==
    ASSUME NEW s \in Sentence, NEW q, Good(q), NEW w \in Places, NEW H, NEW J, H \subseteq J,
           NEW a \in (Len(Body(s)) + 2)..(Len(Body(s)) + 5), Tracks(q, a, s, w, H)
    PROVE  Tracks(parse(q, Sent[s][a + 1]), a + 1, s, w, J)
<1> DEFINE B == Body(s)
           c == Sent[s][a + 1]
           p == parse(q, c)
           L == Len(B)
           h == HexSum(Parity(L, B))
<1>1. L \in Nat /\ L >= 6
  BY SentChars
<1>2. Moves(q, c, p)
  BY ParseMoves
<1>3. /\ a = L + 2 => c = h[1] /\ c \in DOMAIN Hex
      /\ a = L + 3 => c = h[2] /\ c \in DOMAIN Hex
      /\ a = L + 4 => c = "\r"
      /\ a = L + 5 => c = "\n"
      /\ WithDigit(WithDigit({}, h[1]), h[2]) = Parity(L, B)
  <2> DEFINE t == Sent[s]
  <2>1. /\ t[L + 3] = h[1] /\ t[L + 4] = h[2] /\ t[L + 5] = "\r" /\ t[L + 6] = "\n"
        /\ h[1] \in DOMAIN Hex /\ h[2] \in DOMAIN Hex
        /\ WithDigit(WithDigit({}, h[1]), h[2]) = Parity(L, B)
    BY SentChars
  <2>2. c = t[a + 1]
    OBVIOUS
  <2> HIDE DEF t, h, L, B, c
  <2> QED  BY <1>1, <2>1, <2>2
<1>4. a \in Nat /\ a >= L + 2 /\ (a = L + 2 \/ a = L + 3 \/ a = L + 4 \/ a = L + 5)
  BY <1>1
<1> HIDE DEF c, p, L, h, B
<1>5. c # "$" /\ c # "*"
  BY <1>3, <1>4, Frames
<1>6. /\ c \in DOMAIN Hex => a = L + 2 \/ a = L + 3
      /\ c = "\r" => a = L + 4
  BY <1>3, <1>4, Frames
<1>7. AtTail(q, a, s, w, H)
  BY DEF Tracks
<1>8. /\ w = "body" => q.state = 0 \/ (q.state = 20 /\ Foiled(q, a, s))
      /\ w # "body" /\ q.state = 20 => Whole(q, H)
      /\ w = "nowhere" => q.state \in {0, 20, 21}
  BY <1>4, <1>7 DEF AtTail, L, B
<1>9. Fresh(p)
  BY <1>2, FreshMoves DEF Tracks
<1>10. /\ p.state \in 0..21 /\ p.state # 1 /\ (p.state \in 2..19 => q.state \in 1..19)
       /\ p.state = 20 => q.state = 20
       /\ p.state = 21 => q.state = 20
  BY <1>2, <1>5 DEF Moves
<1>11. w = "nowhere" => p.state \in {0, 20, 21}
  <2> SUFFICES ASSUME w = "nowhere" PROVE p.state \in {0, 20, 21}
    OBVIOUS
  <2>1. q.state \in {0, 20, 21}
    BY <1>8
  <2>2. p.state \notin 2..19
    <3>1. q.state \notin 1..19
      BY <2>1, Apart, Zenon
    <3>2. p.state \in 2..19 => q.state \in 1..19
      BY <1>10
    <3> QED  BY <3>1, <3>2
  <2> QED  BY <1>10, <2>2
<1>12. w # "body" /\ p.state \in {20, 21} => Whole(p, J)
  <2>1. w # "body" /\ p.state = 20 => Whole(p, J)
    BY <1>2, <1>8, <1>10, SumStays
  <2>2. w # "body" /\ p.state = 21 => Whole(p, J)
    BY <1>2, <1>8, <1>10, FoundMoves
  <2> QED  BY <2>1, <2>2
<1>13. w = "body" => p.state = 0 \/ (p.state = 20 /\ Foiled(p, a + 1, s))
  <2> SUFFICES ASSUME w = "body", p.state # 0 PROVE p.state = 20 /\ Foiled(p, a + 1, s)
    OBVIOUS
  <2>1. q.state = 20 /\ Foiled(q, a, s)
    <3>1. q.state = 0 => p.state \in {0, 1}
      BY <1>2 DEF Moves
    <3> QED  BY <1>8, <1>10, <3>1
  <2>2. /\ q.checksum # Parity(L, B)
        /\ \/ a = L + 2 /\ q.msgsum = {}
           \/ a = L + 3 /\ q.msgsum = WithDigit({}, h[1])
           \/ a = L + 4 /\ q.msgsum = WithDigit(WithDigit({}, h[1]), h[2])
    BY <2>1 DEF Foiled, L, B, h
  <2>3. p.state # 21
    <3> SUFFICES ASSUME p.state = 21 PROVE FALSE
      OBVIOUS
    <3>1. c = "\r" /\ q.msgsum = q.checksum
      BY <1>2, FoundMoves
    <3>2. a = L + 4
      BY <1>6, <3>1
    <3>3. q.msgsum = Parity(L, B)
      BY <1>1, <1>3, <2>2, <3>2
    <3> QED  BY <2>2, <3>1, <3>3
  <2>4. p.state = 20
    BY <1>10, <2>1, <2>3
  <2>5. c \in DOMAIN Hex /\ p.checksum = q.checksum /\ p.msgsum = WithDigit(q.msgsum, c)
    BY <1>2, <2>1, <2>4, SumStays
  <2>6. a = L + 2 => p.msgsum = WithDigit({}, h[1]) /\ a + 1 = L + 3
    <3> SUFFICES ASSUME a = L + 2 PROVE p.msgsum = WithDigit({}, h[1]) /\ a + 1 = L + 3
      OBVIOUS
    <3>1. a # L + 3 /\ a # L + 4 /\ a + 1 = L + 3
      BY <1>1
    <3>2. q.msgsum = {} /\ c = h[1]
      BY <1>3, <2>2, <3>1, Zenon
    <3> QED  BY <2>5, <3>1, <3>2
  <2>7. a = L + 3 => p.msgsum = WithDigit(WithDigit({}, h[1]), h[2]) /\ a + 1 = L + 4
    BY <1>1, <1>3, <2>2, <2>5
  <2> QED  BY <1>6, <2>2, <2>4, <2>5, <2>6, <2>7 DEF Foiled, L, B, h
<1>14. p.state = 21 => Whole(p, J)
  <2>1. w = "body" => p.state # 21
    BY <1>13
  <2> QED  BY <1>12, <2>1
<1>15. AtTail(p, a + 1, s, w, J)
  BY <1>11, <1>12, <1>13 DEF AtTail
<1>16. AtHead(p, a + 1, w, J) /\ AtBody(p, a + 1, s, w)
  <2>1. a + 1 # 0 /\ a + 1 # 1 /\ ~(a + 1 < 2) /\ a + 1 \notin 2..(L + 1)
    BY <1>1, <1>4
  <2> QED  BY <2>1 DEF AtHead, AtBody, L, B
<1>17. Tracks(p, a + 1, s, w, J)
  BY <1>9, <1>14, <1>15, <1>16 DEF Tracks
<1> QED  BY <1>17 DEF p, c

\* What is heard, when a character arrives as it should.
Hears(s, a, w, H) ==
    IF Sent[s][a + 1] = "*" /\ w # "body" /\ s.status = "A" THEN H \cup {s} ELSE H

LEMMA ArriveTracks ==
    ASSUME NEW s \in Sentence, NEW q, Good(q), NEW w \in Places, NEW H,
           NEW a \in 0..Len(Sent[s]), a < Len(Sent[s]), Tracks(q, a, s, w, H)
    PROVE  Tracks(parse(q, Sent[s][a + 1]), a + 1, s, w, Hears(s, a, w, H))
<1> DEFINE J == Hears(s, a, w, H)
           L == Len(Body(s))
           t == Sent[s]
<1>1. /\ L \in Nat /\ L >= 6 /\ s \in Reports /\ Len(t) = L + 6
      /\ t[1] = "$" /\ t[L + 2] = "*" /\ \A i \in 1..L : t[i + 1] = Body(s)[i]
  <2>1. /\ L \in Nat /\ L >= 6 /\ Len(t) = L + 6
        /\ t[1] = "$" /\ t[L + 2] = "*" /\ \A i \in 1..L : t[i + 1] = Body(s)[i]
    BY SentChars
  <2> QED  BY <2>1, NmeaConstants
<1>2. H \subseteq J
  BY DEF Hears
<1>3. a \in Nat /\ a < L + 6
  BY <1>1
<1>4. CASE a = 0
  <2>1. t[a + 1] = "$" /\ a + 1 = 1
    BY <1>1, <1>4
  <2> HIDE DEF J, t
  <2>2. Tracks(parse(q, "$"), 1, s, w, J)
    BY <1>2, <1>4, ArriveHead
  <2> QED  BY <2>1, <2>2 DEF J, t
<1>5. CASE a = 1
  <2>1. t[a + 1] = "G" /\ a + 1 = 2
    <3>1. Body(s)[1] = Name[1] /\ Name[1] = "G"
      BY <1>1, BodyFacts DEF Name
    <3>2. 1 \in 1..L /\ a + 1 = 2 /\ 1 + 1 = 2
      BY <1>1, <1>5
    <3> HIDE DEF t
    <3> QED  BY <1>1, <3>1, <3>2
  <2> HIDE DEF J, t
  <2>2. Tracks(parse(q, "G"), 2, s, w, J)
    BY <1>2, <1>5, ArriveFirst
  <2> QED  BY <2>1, <2>2 DEF J, t
<1>6. CASE a \in 2..L
  <2> DEFINE n == a - 1
  <2>1. n \in 1..(Len(Body(s)) - 1) /\ n + 1 = a /\ n + 2 = a + 1
    BY <1>1, <1>6
  <2>2. t[a + 1] = Body(s)[n + 1]
    BY <1>1, <1>6, <2>1
  <2> HIDE DEF J, t, n, L
  <2>3. Tracks(q, n + 1, s, w, H)
    BY <2>1
  <2>4. Tracks(parse(q, Body(s)[n + 1]), n + 2, s, w, J)
    BY <1>2, <2>1, <2>3, ArriveBody
  <2> QED  BY <2>1, <2>2, <2>4 DEF J, t
<1>7. CASE a = L + 1
  <2>1. t[a + 1] = "*" /\ a + 1 = L + 2
    BY <1>1, <1>7
  <2>2. w # "body" /\ s.status = "A" => s \in J
    BY <2>1 DEF Hears
  <2> HIDE DEF J, t
  <2>3. Tracks(parse(q, "*"), L + 2, s, w, J)
    BY <1>2, <1>7, <2>2, ArriveStar
  <2> HIDE DEF L
  <2> QED  BY <2>1, <2>3 DEF J, t
<1>8. CASE a \in (L + 2)..(L + 5)
  <2> HIDE DEF J
  <2>1. Tracks(parse(q, Sent[s][a + 1]), a + 1, s, w, J)
    BY <1>2, <1>8, ArriveTail
  <2> QED  BY <2>1 DEF J
<1>9. a = 0 \/ a = 1 \/ a \in 2..L \/ a = L + 1 \/ a \in (L + 2)..(L + 5)
  BY <1>1, <1>3
<1> QED  BY <1>4, <1>5, <1>6, <1>7, <1>8, <1>9

-----------------------------------------------------------------------------
(* The next character is another one.                                      *)

LEMMA NowhereSpoilt ==
    ASSUME NEW s \in Sentence, NEW q, NEW a, NEW H, Tracks(q, a, s, "nowhere", H)
    PROVE  /\ Fresh(q)
           /\ q.state = 21 => Whole(q, H)
           /\ a = 0 /\ q.state = 20 => Whole(q, H)
           /\ a = 1 => q.state \in {0, 1}
           /\ a \in 2..(Len(Body(s)) + 1) => q.state = 0 \/ InStep(q, a - 1, s)
           /\ a >= Len(Body(s)) + 2 => /\ q.state \in {0, 20, 21}
                                       /\ q.state = 20 => Whole(q, H)
<1>1. "nowhere" # "body"
  OBVIOUS
<1>2. Fresh(q) /\ (q.state = 21 => Whole(q, H)) /\ AtHead(q, a, "nowhere", H)
      /\ AtBody(q, a, s, "nowhere") /\ AtTail(q, a, s, "nowhere", H)
  BY DEF Tracks
<1>3. (a = 0 /\ q.state = 20 => Whole(q, H)) /\ (a = 1 => q.state \in {0, 1})
  BY <1>2 DEF AtHead
<1>4. a \in 2..(Len(Body(s)) + 1) => q.state = 0 \/ InStep(q, a - 1, s)
  BY <1>1, <1>2, Zenon DEF AtBody
<1>5. a >= Len(Body(s)) + 2 => q.state \in {0, 20, 21} /\ (q.state = 20 => Whole(q, H))
  BY <1>1, <1>2, Zenon DEF AtTail
<1> QED  BY <1>2, <1>3, <1>4, <1>5

\* A character of the body that is wrong, or missing, leaves a sum that is.
LEMMA WrongSum ==
    ASSUME NEW s \in Sentence, NEW n \in 0..Len(Body(s)), n < Len(Body(s)),
           NEW c \in DOMAIN Ascii
    PROVE  LET B == Body(s)
           IN  /\ c # B[n + 1] => Xor(Parity(n, B), Ascii[c]) # Parity(n + 1, B)
               /\ Parity(n, B) # Parity(n + 1, B)
               /\ Xor(Parity(n, B), Ascii[c]) # Parity(n, B)
<1> DEFINE B == Body(s)
           d == B[n + 1]
           x == Parity(n, B)
<1>1. s \in Reports
  BY NmeaConstants
<1>2. d \in DOMAIN Ascii /\ Parity(n + 1, B) = Xor(x, Ascii[d])
  BY <1>1, BodySummed
<1>3. x \in Byte /\ Ascii[c] \in Byte /\ Ascii[d] \in Byte
  BY <1>2, ByteFacts, ParityByte
<1>4. Ascii[c] # {} /\ Ascii[d] # {} /\ (c # d => Ascii[c] # Ascii[d])
  BY <1>2, Distinct
<1> HIDE DEF x, d
<1>5. (c # d => Xor(x, Ascii[c]) # Xor(x, Ascii[d])) /\ Xor(x, Ascii[d]) # x /\ Xor(x, Ascii[c]) # x
  BY <1>3, <1>4, XorFacts
<1> QED  BY <1>2, <1>5 DEF x, d

\* Where the next character of a sentence is lost or replaced.
SpoilsAt(a, s) == IF a + 1 \in 2..(Len(Body(s)) + 1) THEN "body" ELSE "frame"

LEMMA SpoilsTracks ==
    ASSUME NEW s \in Sentence, NEW q, Good(q), NEW H, NEW a \in 0..Len(Sent[s]), a < Len(Sent[s]),
           Tracks(q, a, s, "nowhere", H), NEW c, c # Sent[s][a + 1]
    PROVE  Tracks(parse(q, c), a + 1, s, SpoilsAt(a, s), H)
<1> DEFINE B == Body(s)
           L == Len(B)
           t == Sent[s]
           p == parse(q, c)
           w == SpoilsAt(a, s)
<1>1. /\ L \in Nat /\ L >= 6 /\ Len(t) = L + 6
      /\ t[L + 2] = "*" /\ \A i \in 1..L : t[i + 1] = B[i]
  BY SentChars
<1>2. Moves(q, c, p)
  BY ParseMoves
<1>3. a \in Nat /\ a < L + 6
  BY <1>1
<1>4. /\ Fresh(q)
      /\ q.state = 21 => Whole(q, H)
      /\ a = 0 /\ q.state = 20 => Whole(q, H)
      /\ a = 1 => q.state \in {0, 1}
      /\ a \in 2..(L + 1) => q.state = 0 \/ InStep(q, a - 1, s)
      /\ a >= L + 2 => /\ q.state \in {0, 20, 21}
                       /\ q.state = 20 => Whole(q, H)
  BY NowhereSpoilt
<1>5. Fresh(p)
  BY <1>2, <1>4, FreshMoves
<1>6. a \in 1..L <=> a + 1 \in 2..(L + 1)
  BY <1>1, <1>3
<1>7. (a \in 1..L => w = "body") /\ (a \notin 1..L => w = "frame")
  BY <1>6 DEF SpoilsAt
<1>8. c # t[a + 1]
  OBVIOUS
<1>9. /\ p.state = 21 => q.state = 20
      /\ p.state = 20 => q.state = 20 \/ (q.state \in 2..19 /\ c = "*")
      /\ p.state \in 2..19 => /\ q.state \in 1..19 /\ c \in SentenceChar /\ (c = "G" <=> q.state = 1)
                              /\ p.checksum = Xor(q.checksum, Ascii[c])
  BY <1>2 DEF Moves
<1>10. a \in 2..(L + 1) => q.state = 0 \/ q.state \in 2..19
  BY <1>4, InStepInside
<1> HIDE DEF p, w, t, L, B
<1>11. (a = 0 \/ a >= L + 2) /\ q.state = 20 => Whole(q, H)
  BY <1>4
<1>12. a \in 1..(L + 1) => q.state # 20
  <2>1. a \in 1..(L + 1) => a = 1 \/ a \in 2..(L + 1)
    BY <1>1
  <2>2. a = 1 => q.state # 20
    BY <1>4, Apart, Zenon
  <2>3. a \in 2..(L + 1) => q.state # 20
    BY <1>10, Apart, Zenon
  <2> QED  BY <2>1, <2>2, <2>3
<1>13. a = 0 \/ a >= L + 2 \/ a \in 1..(L + 1)
  BY <1>1, <1>3
<1>14. p.state = 21 => Whole(p, H)
  BY <1>2, <1>9, <1>11, <1>12, <1>13, FoundMoves
<1>15. AtHead(p, a + 1, w, H)
  <2>1. a + 1 # 0 /\ (a + 1 < 2 => a \notin 1..L)
    BY <1>1, <1>3
  <2>2. a + 1 < 2 => w = "frame"
    BY <1>7, <2>1
  <2>3. a + 1 = 1 => w # "nowhere"
    BY <1>7
  <2> QED  BY <2>1, <2>2, <2>3 DEF AtHead
<1>16. AtBody(p, a + 1, s, w)
  <2> SUFFICES ASSUME a \in 1..L
               PROVE  p.state # 21 /\ (p.state \in 2..19 => p.checksum # Parity(a, B))
    <3>1. (a + 1) - 1 = a
      BY <1>3
    <3> QED  BY <1>6, <1>7, <3>1, Zenon DEF AtBody, B, L
  <2>1. q.state # 20
    BY <1>1, <1>12
  <2>2. ASSUME p.state \in 2..19 PROVE p.checksum # Parity(a, B)
    <3>1. a # 1
      <4> SUFFICES ASSUME a = 1 PROVE FALSE
        OBVIOUS
      <4>1. q.state = 1
        <5>1. q.state \in {0, 1} /\ q.state \in 1..19
          BY <1>4, <1>9, <2>2
        <5> QED  BY <5>1, Apart, Zenon
      <4>2. c = "G"
        BY <1>9, <2>2, <4>1
      <4>3. B[1] = Name[1] /\ Name[1] = "G"
        BY NmeaConstants, BodyFacts DEF Name, B
      <4>4. t[a + 1] = "G"
        BY <1>1, <4>3
      <4> QED  BY <1>8, <4>2, <4>4
    <3>2. a \in 2..(L + 1) /\ a - 1 \in 0..L /\ a - 1 < L /\ (a - 1) + 1 = a
      BY <1>1, <1>3, <3>1
    <3>3. InStep(q, a - 1, s)
      <4>1. q.state # 0
        BY <1>9, <2>2, SMTT(30)
      <4> QED  BY <1>4, <3>2, <4>1
    <3>4. p.checksum = Xor(Parity(a - 1, B), Ascii[c])
      BY <1>9, <2>2, <3>3 DEF InStep, B
    <3>5. c \in DOMAIN Ascii
      BY <1>9, <2>2, SentenceChars DEF Chars
    <3>6. c # B[(a - 1) + 1]
      BY <1>1, <1>8, <3>2
    <3>7. Xor(Parity(a - 1, B), Ascii[c]) # Parity((a - 1) + 1, B)
      BY <3>2, <3>5, <3>6, WrongSum DEF B, L
    <3> QED  BY <3>2, <3>4, <3>7
  <2> QED  BY <1>9, <2>1, <2>2
<1>17. AtTail(p, a + 1, s, w, H)
  <2> SUFFICES ASSUME a + 1 >= L + 2 PROVE w = "frame" /\ (p.state = 20 => Whole(p, H))
    BY DEF AtTail, B, L
  <2>1. a \notin 1..L /\ (a = L + 1 \/ a >= L + 2)
    BY <1>1, <1>3
  <2>2. w = "frame"
    BY <1>7, <2>1
  <2>3. a = L + 1 => p.state # 20
    <3>1. a = L + 1 => c # "*" /\ q.state # 20
      <4>1. a = L + 1 => a + 1 = L + 2 /\ a \in 1..(L + 1)
        BY <1>1
      <4> QED  BY <1>1, <1>8, <1>12, <4>1
    <3> QED  BY <1>9, <3>1
  <2>4. a >= L + 2 /\ p.state = 20 => q.state = 20 /\ Whole(q, H)
    <3>1. a >= L + 2 => q.state \notin 2..19
      BY <1>4, Apart, Zenon
    <3> QED  BY <1>4, <1>9, <3>1
  <2> QED  BY <1>2, <2>1, <2>2, <2>3, <2>4, SumStays
<1>18. Tracks(p, a + 1, s, w, H)
  BY <1>5, <1>14, <1>15, <1>16, <1>17 DEF Tracks
<1> QED  BY <1>18 DEF p, w

-----------------------------------------------------------------------------
(* The next character is lost, or comes twice; another sentence begins.    *)

LEMMA LosesTracks ==
    ASSUME NEW s \in Sentence, NEW q, NEW H, NEW a \in 0..Len(Sent[s]), a < Len(Sent[s]),
           Tracks(q, a, s, "nowhere", H)
    PROVE  Tracks(q, a + 1, s, SpoilsAt(a, s), H)
<1> DEFINE B == Body(s)
           L == Len(B)
           w == SpoilsAt(a, s)
<1>1. L \in Nat /\ L >= 6 /\ Len(Sent[s]) = L + 6
  BY SentChars
<1>2. a \in Nat /\ a < L + 6
  BY <1>1
<1>3. /\ Fresh(q)
      /\ q.state = 21 => Whole(q, H)
      /\ a = 1 => q.state \in {0, 1}
      /\ a \in 2..(L + 1) => q.state = 0 \/ InStep(q, a - 1, s)
      /\ a >= L + 2 => /\ q.state \in {0, 20, 21}
                       /\ q.state = 20 => Whole(q, H)
  BY NowhereSpoilt
<1>4. a \in 1..L <=> a + 1 \in 2..(L + 1)
  BY <1>1, <1>2
<1>5. (a \in 1..L => w = "body") /\ (a \notin 1..L => w = "frame")
  BY <1>4 DEF SpoilsAt
<1>6. a \in 2..(L + 1) => q.state = 0 \/ q.state \in 2..19
  BY <1>3, InStepInside
<1> HIDE DEF w, L, B
<1>7. AtHead(q, a + 1, w, H)
  <2>1. a + 1 # 0 /\ (a + 1 < 2 => a \notin 1..L)
    BY <1>1, <1>2
  <2>2. a + 1 < 2 => w = "frame"
    BY <1>5, <2>1
  <2>3. a + 1 = 1 => w # "nowhere"
    BY <1>5
  <2> QED  BY <2>1, <2>2, <2>3 DEF AtHead
<1>8. AtBody(q, a + 1, s, w)
  <2> SUFFICES ASSUME a \in 1..L
               PROVE  q.state # 21 /\ (q.state \in 2..19 => q.checksum # Parity(a, B))
    <3>1. (a + 1) - 1 = a
      BY <1>2
    <3> QED  BY <1>4, <1>5, <3>1, Zenon DEF AtBody, B, L
  <2>1. a = 1 \/ a \in 2..(L + 1)
    BY <1>1
  <2>2. q.state \in {0, 1} \/ q.state \in 2..19
    BY <1>3, <1>6, <2>1
  <2>3. q.state # 21
    BY <2>2, Apart, Zenon
  <2>4. ASSUME q.state \in 2..19 PROVE q.checksum # Parity(a, B)
    <3>1. q.state \notin {0, 1} /\ q.state # 0
      BY <2>4, Apart, Zenon
    <3>2. a # 1
      BY <1>3, <3>1
    <3>3. a \in 2..(L + 1) /\ a - 1 \in 0..L /\ a - 1 < L /\ (a - 1) + 1 = a
      BY <1>1, <1>2, <2>1, <3>2
    <3>4. InStep(q, a - 1, s)
      BY <1>3, <3>1, <3>3
    <3>5. q.checksum = Parity(a - 1, B)
      BY <3>4 DEF InStep, B
    <3>6. "A" \in DOMAIN Ascii
      BY Characters
    <3>7. Parity(a - 1, B) # Parity((a - 1) + 1, B)
      BY <3>3, <3>6, WrongSum DEF B, L
    <3> QED  BY <3>3, <3>5, <3>7
  <2> QED  BY <2>3, <2>4
<1>9. AtTail(q, a + 1, s, w, H)
  <2> SUFFICES ASSUME a + 1 >= L + 2 PROVE w = "frame" /\ (q.state = 20 => Whole(q, H))
    BY DEF AtTail, B, L
  <2>1. a \notin 1..L /\ (a = L + 1 \/ a >= L + 2)
    BY <1>1, <1>2
  <2>2. w = "frame"
    BY <1>5, <2>1
  <2>3. a = L + 1 => q.state # 20
    <3>1. a = L + 1 => a \in 2..(L + 1)
      BY <1>1
    <3> QED  BY <1>6, <3>1, Apart, Zenon
  <2> QED  BY <1>3, <2>1, <2>2, <2>3
<1>10. Tracks(q, a + 1, s, w, H)
  BY <1>3, <1>7, <1>8, <1>9 DEF Tracks
<1> QED  BY <1>10 DEF w

\* Where the last character of a sentence comes a second time.
EchoesAt(a, s) == IF a \in 2..(Len(Body(s)) + 1) THEN "body" ELSE "frame"

LEMMA EchoesTracks ==
    ASSUME NEW s \in Sentence, NEW q, Good(q), NEW H, NEW a \in 0..Len(Sent[s]), a > 0,
           Tracks(q, a, s, "nowhere", H)
    PROVE  Tracks(parse(q, Sent[s][a]), a, s, EchoesAt(a, s), H)
<1> DEFINE B == Body(s)
           L == Len(B)
           t == Sent[s]
           c == t[a]
           p == parse(q, c)
           w == EchoesAt(a, s)
<1>1. L \in Nat /\ L >= 6 /\ Len(t) = L + 6 /\ t[1] = "$"
  BY SentChars
<1>2. Moves(q, c, p)
  BY ParseMoves
<1>3. a \in Nat /\ a > 0 /\ a <= L + 6
  BY <1>1
<1>4. /\ Fresh(q)
      /\ q.state = 21 => Whole(q, H)
      /\ a = 1 => q.state \in {0, 1}
      /\ a \in 2..(L + 1) => q.state = 0 \/ InStep(q, a - 1, s)
      /\ a >= L + 2 => /\ q.state \in {0, 20, 21}
                       /\ q.state = 20 => Whole(q, H)
  BY NowhereSpoilt
<1>5. Fresh(p)
  BY <1>2, <1>4, FreshMoves
<1>6. (a \in 2..(L + 1) => w = "body") /\ (a \notin 2..(L + 1) => w = "frame")
  BY DEF EchoesAt
<1>7. /\ p.state = 21 => q.state = 20
      /\ p.state = 20 => q.state = 20 \/ q.state \in 2..19
      /\ p.state \in 2..19 => /\ q.state \in 1..19 /\ c \in SentenceChar
                              /\ p.checksum = Xor(q.checksum, Ascii[c])
  BY <1>2 DEF Moves
<1> HIDE DEF p, w, t, L, B, c
<1>8. a \in 2..(L + 1) => q.state = 0 \/ q.state \in 2..19
  BY <1>4, InStepInside
<1>9. a = 1 \/ a \in 2..(L + 1) \/ a >= L + 2
  BY <1>1, <1>3
<1>10. q.state = 20 => a >= L + 2 /\ Whole(q, H)
  <2> SUFFICES ASSUME q.state = 20 PROVE a >= L + 2
    BY <1>4
  <2>1. a # 1
    BY <1>4, Apart, Zenon
  <2>2. a \notin 2..(L + 1)
    BY <1>8, Apart, Zenon
  <2> QED  BY <1>9, <2>1, <2>2
<1>11. p.state = 21 => Whole(p, H)
  BY <1>2, <1>7, <1>10, FoundMoves
<1>12. AtHead(p, a, w, H)
  <2>1. a # 0 /\ (a < 2 => a \notin 2..(L + 1)) /\ (a = 1 => a \notin 2..(L + 1))
    BY <1>1, <1>3
  <2>2. (a < 2 => w = "frame") /\ (a = 1 => w # "nowhere")
    BY <1>6, <2>1
  <2> QED  BY <2>1, <2>2 DEF AtHead
<1>13. AtBody(p, a, s, w)
  <2> SUFFICES ASSUME a \in 2..(L + 1)
               PROVE  p.state # 21 /\ (p.state \in 2..19 => p.checksum # Parity(a - 1, B))
    BY <1>6, Zenon DEF AtBody, B, L
  <2>1. q.state # 20
    BY <1>8, Apart, Zenon
  <2>2. ASSUME p.state \in 2..19 PROVE p.checksum # Parity(a - 1, B)
    <3>1. q.state # 0
      BY <1>7, <2>2, Apart, Zenon
    <3>2. InStep(q, a - 1, s)
      BY <1>4, <3>1
    <3>3. p.checksum = Xor(Parity(a - 1, B), Ascii[c])
      BY <1>7, <2>2, <3>2 DEF InStep, B
    <3>4. c \in DOMAIN Ascii
      BY <1>7, <2>2, SentenceChars DEF Chars
    <3>5. Xor(Parity(a - 1, B), Ascii[c]) # Parity(a - 1, B)
      <4>1. a - 1 \in Nat /\ Parity(a - 1, B) \in Byte /\ Ascii[c] \in Byte /\ Ascii[c] # {}
        BY <1>3, <3>4, ByteFacts, Distinct, ParityByte
      <4> HIDE DEF B
      <4> QED  BY <4>1, XorFacts
    <3> QED  BY <3>3, <3>5
  <2> QED  BY <1>7, <2>1, <2>2
<1>14. AtTail(p, a, s, w, H)
  <2> SUFFICES ASSUME a >= L + 2 PROVE w = "frame" /\ (p.state = 20 => Whole(p, H))
    BY DEF AtTail, B, L
  <2>1. w = "frame"
    <3>1. a \notin 2..(L + 1)
      BY <1>1, <1>3
    <3> QED  BY <1>6, <3>1
  <2>2. q.state \notin 2..19
    BY <1>4, Apart, Zenon
  <2> QED  BY <1>2, <1>7, <1>10, <2>1, <2>2, SumStays
<1>15. Tracks(p, a, s, w, H)
  BY <1>5, <1>11, <1>12, <1>13, <1>14 DEF Tracks
<1> QED  BY <1>15 DEF p, w, c, t

\* A sentence that came to its end, or was cut off, leaves nothing behind.
LEMMA BeginsTracks ==
    ASSUME NEW s \in Sentence, NEW z \in Sentence, NEW q, NEW H, NEW a \in 0..Len(Sent[s]),
           NEW w \in Places, Tracks(q, a, s, w, H), ~(a < Len(Sent[s])) \/ w = "nowhere"
    PROVE  Tracks(q, 0, z, "nowhere", H)
<1> DEFINE L == Len(Body(s))
<1>1. /\ L \in Nat /\ L >= 6 /\ Len(Sent[s]) = L + 6
      /\ Len(Body(z)) \in Nat /\ Len(Body(z)) >= 6
  BY SentChars
<1>2. a \in Nat /\ a <= L + 6
  BY <1>1
<1>3. Fresh(q) /\ (q.state = 21 => Whole(q, H))
  BY DEF Tracks
<1>4. ASSUME q.state = 20 PROVE Whole(q, H)
  <2>1. CASE w = "nowhere"
    <3>1. Tracks(q, a, s, "nowhere", H)
      BY <2>1
    <3>2. /\ a = 0 => Whole(q, H)
          /\ a = 1 => q.state \in {0, 1}
          /\ a \in 2..(L + 1) => q.state = 0 \/ InStep(q, a - 1, s)
          /\ a >= L + 2 => Whole(q, H)
      BY <1>4, <3>1, NowhereSpoilt
    <3>3. a # 1
      BY <1>4, <3>2, Apart, Zenon
    <3>4. a \notin 2..(L + 1)
      BY <1>4, <3>2, InStepInside, Apart, Zenon
    <3>5. a = 0 \/ a >= L + 2
      BY <1>1, <1>2, <3>3, <3>4
    <3> QED  BY <3>2, <3>5
  <2>2. CASE w # "nowhere"
    <3>1. a = L + 6
      BY <1>1, <1>2, <2>2
    <3>2. AtTail(q, a, s, w, H) /\ a >= L + 2
      BY <1>1, <3>1 DEF Tracks
    <3>3. ~Foiled(q, a, s)
      BY <1>1, <3>1 DEF Foiled
    <3>4. w # "body"
      BY <1>4, <3>2, <3>3 DEF AtTail
    <3> QED  BY <1>4, <3>2, <3>4 DEF AtTail
  <2> QED  BY <2>1, <2>2
<1>5. AtHead(q, 0, "nowhere", H)
  BY <1>4 DEF AtHead
<1>6. AtBody(q, 0, z, "nowhere") /\ AtTail(q, 0, z, "nowhere", H)
  BY <1>1 DEF AtBody, AtTail
<1> QED  BY <1>3, <1>5, <1>6 DEF Tracks

-----------------------------------------------------------------------------
(* The invariant, and what it is for.                                      *)

Follows == Tracks(parser, at, meant, spoilt, heard)

\* Inductive: the character that comes next is judged by what came of its
\* sentence until now, which Genuine says nothing of.
GenuineInv == TypeOK /\ Genuine /\ Follows

LEMMA InitFollows == Init => Genuine /\ Follows
<1> SUFFICES ASSUME Init PROVE Genuine /\ Follows
  OBVIOUS
<1>1. /\ parser.state = 0 /\ at = 0 /\ spoilt = "nowhere" /\ heard = {} /\ found = FALSE
      /\ meant \in Sentence
  BY DEF Init
<1>2. Len(Body(meant)) \in Nat
  BY <1>1, SentChars
<1>3. Fresh(parser) /\ AtHead(parser, 0, "nowhere", {})
  BY <1>1 DEF Fresh, AtHead
<1>4. AtBody(parser, 0, meant, "nowhere") /\ AtTail(parser, 0, meant, "nowhere", {})
  BY <1>2 DEF AtBody, AtTail
<1>5. Tracks(parser, 0, meant, "nowhere", {})
  BY <1>1, <1>3, <1>4 DEF Tracks
<1> QED  BY <1>1, <1>5 DEF Genuine, Follows

\* What a turn of the loop takes out was heard.
LEMMA FeedGenuine ==
    ASSUME Genuine, Follows, NEW c, Feed(c), heard \subseteq heard'
    PROVE  Genuine'
<1>1. CASE News(parser)
  <2>1. parser.state = 21 /\ parser.gps
    BY <1>1 DEF News
  <2>2. \E s \in heard : parser.result = Kept(s)
    BY <2>1 DEF Follows, Tracks, Whole
  <2>3. tmp' = parser.result
    BY <1>1 DEF Feed
  <2> QED  BY <2>2, <2>3 DEF Genuine
<1>2. CASE ~News(parser)
  <2>1. found' = (found \/ News(parser)) /\ tmp' = tmp
    BY <1>2 DEF Feed
  <2>2. (found' => found) /\ tmp' = tmp
    BY <1>2, <2>1, Zenon
  <2> QED  BY <2>2 DEF Genuine
<1> QED  BY <1>1, <1>2

LEMMA NextFollows == GenuineInv /\ [Next]_vars => (Genuine /\ Follows)'
<1> SUFFICES ASSUME GenuineInv, [Next]_vars PROVE Genuine' /\ Follows'
  OBVIOUS
<1>1. /\ Good(parser) /\ meant \in Sentence /\ at \in 0..Len(Sent[meant]) /\ spoilt \in Places
      /\ Genuine /\ Follows /\ Tracks(parser, at, meant, spoilt, heard)
  BY TypesGood DEF GenuineInv, TypeOK, Follows, Places
<1>2. Follows' <=> Tracks(parser', at', meant', spoilt', heard')
  BY DEF Follows
<1>3. CASE Arrive
  <2>1. /\ at < Len(Sent[meant]) /\ Feed(Sent[meant][at + 1]) /\ at' = at + 1
        /\ meant' = meant /\ spoilt' = spoilt /\ heard' = Hears(meant, at, spoilt, heard)
    BY <1>3 DEF Arrive, Sending, Hears
  <2>2. parser' = parse(parser, Sent[meant][at + 1])
    BY <2>1 DEF Feed
  <2>3. Tracks(parse(parser, Sent[meant][at + 1]), at + 1, meant, spoilt,
               Hears(meant, at, spoilt, heard))
    BY <1>1, <2>1, ArriveTracks
  <2>4. heard \subseteq heard'
    BY <2>1 DEF Hears
  <2> QED  BY <1>1, <1>2, <2>1, <2>2, <2>3, <2>4, FeedGenuine
<1>4. CASE Spoil
  <2>1. /\ at < Len(Sent[meant]) /\ spoilt = "nowhere" /\ spoilt' = SpoilsAt(at, meant)
        /\ at' = at + 1 /\ meant' = meant /\ heard' = heard
        /\ \/ \E c \in Noise \ {Sent[meant][at + 1]} : Feed(c)
           \/ UNCHANGED <<parser, found, tmp>>
    BY <1>4 DEF Spoil, Sending, Place, SpoilsAt
  <2>2. Tracks(parser, at, meant, "nowhere", heard)
    BY <1>1, <2>1
  <2>3. CASE \E c \in Noise \ {Sent[meant][at + 1]} : Feed(c)
    <3>1. PICK c : c # Sent[meant][at + 1] /\ Feed(c)
      BY <2>3
    <3>2. parser' = parse(parser, c)
      BY <3>1 DEF Feed
    <3>3. Tracks(parse(parser, c), at + 1, meant, SpoilsAt(at, meant), heard)
      BY <1>1, <2>1, <2>2, <3>1, SpoilsTracks
    <3> QED  BY <1>1, <1>2, <2>1, <3>1, <3>2, <3>3, FeedGenuine
  <2>4. CASE UNCHANGED <<parser, found, tmp>>
    <3>1. Tracks(parser, at + 1, meant, SpoilsAt(at, meant), heard)
      BY <1>1, <2>1, <2>2, LosesTracks
    <3> QED  BY <1>1, <1>2, <2>1, <2>4, <3>1 DEF Genuine
  <2> QED  BY <2>1, <2>3, <2>4
<1>5. CASE Echo
  <2>1. /\ at > 0 /\ spoilt = "nowhere" /\ spoilt' = EchoesAt(at, meant)
        /\ at' = at /\ meant' = meant /\ heard' = heard /\ Feed(Sent[meant][at])
    BY <1>5 DEF Echo, Place, EchoesAt
  <2>2. Tracks(parser, at, meant, "nowhere", heard)
    BY <1>1, <2>1
  <2>3. parser' = parse(parser, Sent[meant][at])
    BY <2>1 DEF Feed
  <2>4. Tracks(parse(parser, Sent[meant][at]), at, meant, EchoesAt(at, meant), heard)
    BY <1>1, <2>1, <2>2, EchoesTracks
  <2> QED  BY <1>1, <1>2, <2>1, <2>3, <2>4, FeedGenuine
<1>6. CASE Begin
  <2>1. /\ ~(at < Len(Sent[meant])) \/ spoilt = "nowhere"
        /\ meant' \in Sentence /\ at' = 0 /\ spoilt' = "nowhere"
        /\ parser' = parser /\ found' = found /\ tmp' = tmp /\ heard' = heard
    BY <1>6 DEF Begin, Sending
  <2>2. Tracks(parser, 0, meant', "nowhere", heard)
    BY <1>1, <2>1, BeginsTracks
  <2> QED  BY <1>1, <1>2, <2>1, <2>2 DEF Genuine
<1>7. CASE Return
  <2>1. found' = FALSE /\ UNCHANGED <<parser, meant, at, spoilt, heard>>
    BY <1>7 DEF Return
  <2> QED  BY <1>1, <1>2, <2>1 DEF Genuine
<1>8. CASE UNCHANGED vars
  BY <1>1, <1>2, <1>8 DEF vars, Genuine
<1> QED  BY <1>3, <1>4, <1>5, <1>6, <1>7, <1>8 DEF Next

LEMMA NextGenuineInv == GenuineInv /\ [Next]_vars => GenuineInv'
  BY NextTypes, NextFollows DEF GenuineInv

LEMMA InitGenuineInv == Init => GenuineInv
  BY InitTypes, InitFollows DEF GenuineInv

\* What nmea_parse returns are the fields of one sentence that had a fix and
\* whose body came as it was sent, as far as the buffers can hold them: one
\* character lost, replaced or repeated is always noticed, by the shape of the
\* sentence or by its sum.
THEOREM SentencesGenuine == Spec => []Genuine
<1>1. GenuineInv => Genuine
  BY DEF GenuineInv
<1> QED  BY <1>1, InitGenuineInv, NextGenuineInv, PTL DEF Spec

-----------------------------------------------------------------------------
(* A fold of parse, step by step.                                          *)

LEMMA LastPlace ==
    ASSUME NEW k \in Nat, NEW x \in SUBSET (1..(k + 1)), k + 1 \in x
    PROVE  Max(x) = k + 1
<1> DEFINE m == k + 1
<1>1. m \in Nat
  OBVIOUS
<1>2. Max(x) \in x /\ \A y \in x : Max(x) >= y
  <2> HIDE DEF m
  <2>1. x \in SUBSET (1..m) /\ x # {}
    BY DEF m
  <2> QED  BY <1>1, <2>1, GreatestPlace
<1> DEFINE z == Max(x)
<1>3. z \in 1..m /\ z >= m
  BY <1>2
<1> HIDE DEF z
<1>4. z = m
  BY <1>1, <1>3
<1> QED  BY <1>4 DEF z

\* g is a fold of parse over the first n of t, at any of its places.
Unrolls(g, n, q, t) ==
    g = [x \in SUBSET (1..n) |-> IF x = {} THEN q ELSE parse(g[x \ {Max(x)}], t[Max(x)])]

LEMMA ParseSteps ==
    ASSUME NEW t, NEW n \in Nat, NEW q
    PROVE  \E g : Unrolls(g, n, q, t)
<1> DEFINE P == {k \in Nat : \E g : Unrolls(g, k, q, t)}
<1>1. 0 \in P
  <2> DEFINE g == [x \in SUBSET (1..0) |-> q]
  <2>1. 1..0 = {}
    OBVIOUS
  <2>2. Unrolls(g, 0, q, t)
    BY <2>1 DEF Unrolls
  <2> HIDE DEF g
  <2> QED  BY <2>2
<1>2. ASSUME NEW k \in P PROVE k + 1 \in P
  <2>1. PICK g : Unrolls(g, k, q, t)
    OBVIOUS
  <2>2. k \in Nat
    OBVIOUS
  <2> DEFINE D == SUBSET (1..(k + 1))
             m == k + 1
             h == [x \in D |-> IF m \in x THEN parse(g[x \ {m}], t[m]) ELSE g[x]]
  <2>3. ASSUME NEW x \in D
        PROVE  h[x] = IF x = {} THEN q ELSE parse(h[x \ {Max(x)}], t[Max(x)])
    <3>1. CASE m \in x
      <4>1. Max(x) = m
        BY <2>2, <3>1, LastPlace
      <4>2. x \ {m} \in D /\ m \notin x \ {m} /\ x # {}
        BY <3>1
      <4>3. h[x] = parse(g[x \ {m}], t[m]) /\ h[x \ {m}] = g[x \ {m}]
        BY <3>1, <4>2
      <4> HIDE DEF h
      <4> QED  BY <4>1, <4>2, <4>3
    <3>2. CASE m \notin x
      <4>1. x \in SUBSET (1..k)
        BY <2>2, <3>2
      <4>2. h[x] = g[x] /\ g[x] = IF x = {} THEN q ELSE parse(g[x \ {Max(x)}], t[Max(x)])
        BY <2>1, <3>2, <4>1 DEF Unrolls
      <4>3. x \ {Max(x)} \in D /\ m \notin x \ {Max(x)}
        BY <3>2
      <4>4. h[x \ {Max(x)}] = g[x \ {Max(x)}]
        BY <4>3
      <4> HIDE DEF h
      <4> QED  BY <4>2, <4>4
    <3> QED  BY <3>1, <3>2
  <2>4. Unrolls(h, k + 1, q, t)
    <3>1. h = [x \in D |-> h[x]]
      OBVIOUS
    <3> HIDE DEF h
    <3> QED  BY <2>3, <3>1 DEF Unrolls
  <2> HIDE DEF h
  <2> QED  BY <2>2, <2>4
<1>3. P \in SUBSET Nat
  OBVIOUS
<1> HIDE DEF P
<1>4. n \in P
  BY <1>1, <1>2, <1>3, Induction
<1> QED  BY <1>4 DEF P

Parsed(q, t) == FoldLeft(parse, q, t)

LEMMA ParseFold ==
    ASSUME NEW t, NEW n \in Nat, DOMAIN t = 1..n, NEW q
    PROVE  \E f : /\ f[0] = q
                  /\ \A k \in 0..(n - 1) : f[k + 1] = parse(f[k], t[k + 1])
                  /\ Parsed(q, t) = f[n]
<1> DEFINE D == SUBSET (1..n)
           Step(it) == [x \in D |-> IF x = {} THEN q
                                    ELSE parse(it[x \ {Max(x)}], t[Max(x)])]
           iter == CHOOSE it : it = Step(it)
           f == [k \in 0..n |-> iter[1..k]]
<1>1. Parsed(q, t) = iter[1..n]
  BY Zenon DEF Parsed, FoldLeft, MapThenFoldSet
<1>2. iter = Step(iter)
  <2>1. PICK it : Unrolls(it, n, q, t)
    BY ParseSteps
  <2>2. it = Step(it)
    BY <2>1 DEF Unrolls
  <2> HIDE DEF Step
  <2> QED  BY <2>2
<1> HIDE DEF iter
<1>3. f[0] = q
  <2>1. 1..0 = {} /\ {} \in D /\ 0 \in 0..n
    OBVIOUS
  <2>2. iter[{}] = q
    BY <1>2, <2>1
  <2> QED  BY <2>1, <2>2
<1>4. ASSUME NEW k \in 0..(n - 1) PROVE f[k + 1] = parse(f[k], t[k + 1])
  <2> DEFINE x == 1..(k + 1)
  <2>1. /\ x \in D /\ x # {} /\ k + 1 \in x /\ k + 1 \in 1..n /\ k \in Nat
        /\ k \in 0..n /\ k + 1 \in 0..n
    OBVIOUS
  <2>2. Max(x) = k + 1
    <3>1. x \in SUBSET (1..(k + 1))
      OBVIOUS
    <3> HIDE DEF x
    <3> QED  BY <2>1, <3>1, LastPlace
  <2>3. x \ {k + 1} = 1..k
    OBVIOUS
  <2> HIDE DEF x
  <2>4. iter[x] = parse(iter[x \ {Max(x)}], t[Max(x)])
    BY <1>2, <2>1
  <2>5. iter[x] = parse(iter[1..k], t[k + 1])
    BY <2>2, <2>3, <2>4
  <2> QED  BY <2>1, <2>5 DEF x
<1>5. f[n] = iter[1..n]
  OBVIOUS
<1> HIDE DEF f
<1>6. Parsed(q, t) = f[n]
  BY <1>1, <1>5, Zenon
<1> QED  BY <1>3, <1>4, <1>6

-----------------------------------------------------------------------------
(* A sentence that comes intact to a parser that waits for one.            *)

\* Where a sentence that comes intact takes the parser that was waiting for
\* it: q is the parser when k of its characters came.
OnCourse(q, k, s) ==
    LET L == Len(Body(s))
        h == HexSum(Parity(L, Body(s)))
    IN  /\ k = 1 => q.state = 1 /\ q.checksum = {} /\ q.msgsum = {}
        /\ k \in 2..(L + 1) => InStep(q, k - 1, s)
        /\ k >= L + 2 => q.result = Kept(s) /\ q.gps = (s.status = "A")
        /\ k \in (L + 2)..(L + 4) => q.state = 20 /\ q.checksum = Parity(L, Body(s))
        /\ k = L + 2 => q.msgsum = {}
        /\ k = L + 3 => q.msgsum = WithDigit({}, h[1])
        /\ k = L + 4 => q.msgsum = WithDigit(WithDigit({}, h[1]), h[2])
        /\ k = L + 5 => q.state = 21

\* The sums agree at the end.
LEMMA SumEnds ==
    ASSUME NEW q, Good(q), q.state = 20, q.msgsum = q.checksum
    PROVE  LET p == parse(q, "\r")
           IN  p.state = 21 /\ p.result = q.result /\ p.gps = q.gps
<1> DEFINE c == "\r"
           m == Switch(q, c)
           p == parse(q, c)
           y == [q EXCEPT !.state = 21]
<1>1. q \in Parser
  BY DEF Good
<1>2. m = y
  <2>1. m = InSum(q, c)
    BY OtherBranches
  <2>2. c \notin DOMAIN Hex
    BY Frames
  <2> QED  BY <2>1, <2>2 DEF InSum
<1>3. y.state = 21 /\ y.result = q.result /\ y.gps = q.gps
  BY <1>1, MovedFields
<1>4. p.state = m.state /\ p.result = m.result /\ p.gps = m.gps
  BY ParseSame
<1> HIDE DEF m, p, y
<1>5. p.state = 21 /\ p.result = q.result /\ p.gps = q.gps
  BY <1>2, <1>3, <1>4
<1> QED  BY <1>5 DEF p

LEMMA SumGoesOn ==
    ASSUME NEW q, Good(q), q.state = 20, NEW c \in DOMAIN Hex
    PROVE  LET p == parse(q, c)
           IN  /\ p.state = 20 /\ p.result = q.result /\ p.gps = q.gps
               /\ p.checksum = q.checksum /\ p.msgsum = WithDigit(q.msgsum, c)
<1> DEFINE p == parse(q, c)
<1>1. Moves(q, c, p)
  BY ParseMoves
<1> HIDE DEF p
<1>2. p.state = 20
  BY <1>1 DEF Moves
<1>3. q.state \notin 2..19
  BY Apart, Zenon
<1>4. /\ p.result = q.result /\ p.gps = q.gps
      /\ p.checksum = q.checksum /\ p.msgsum = WithDigit(q.msgsum, c)
  BY <1>1, <1>2, <1>3 DEF Moves
<1> QED  BY <1>2, <1>4 DEF p

\* Each of its characters takes the parser further.
LEMMA CourseGoesOn ==
    ASSUME NEW s \in Sentence, NEW q, Good(q), NEW k \in 1..(Len(Body(s)) + 4),
           OnCourse(q, k, s)
    PROVE  OnCourse(parse(q, Sent[s][k + 1]), k + 1, s)
<1> DEFINE B == Body(s)
           L == Len(B)
           h == HexSum(Parity(L, B))
           c == Sent[s][k + 1]
           p == parse(q, c)
           t == Sent[s]
<1>1. /\ L \in Nat /\ L >= 6 /\ s \in Reports
      /\ \A i \in 1..L : t[i + 1] = B[i]
      /\ t[L + 2] = "*" /\ t[L + 3] = h[1] /\ t[L + 4] = h[2] /\ t[L + 5] = "\r"
      /\ h[1] \in DOMAIN Hex /\ h[2] \in DOMAIN Hex
      /\ WithDigit(WithDigit({}, h[1]), h[2]) = Parity(L, B)
  BY SentChars, NmeaConstants
<1>2. c = t[k + 1] /\ k \in Nat
  OBVIOUS
<1>3. CASE k = 1
  <2>1. c = "G"
    <3>1. B[1] = Name[1] /\ Name[1] = "G"
      BY <1>1, BodyFacts DEF Name
    <3>2. 1 \in 1..L /\ k + 1 = 1 + 1
      BY <1>1, <1>3
    <3> HIDE DEF t, B, c, L
    <3>3. t[1 + 1] = B[1]
      BY <1>1, <3>2
    <3> QED  BY <1>2, <3>1, <3>2, <3>3
  <2>2. q.state = 1 /\ q.checksum = {} /\ q.msgsum = {}
    BY <1>3 DEF OnCourse
  <2>3. InStep(parse(q, "G"), 1, s)
    BY <1>1, <2>2, ParseFirst
  <2>4. InStep(p, 1, s)
    BY <2>1, <2>3
  <2>5. k + 1 = 2 /\ (k + 1) - 1 = 1 /\ k + 1 # 1 /\ ~(k + 1 >= L + 2)
        /\ k + 1 \notin (L + 2)..(L + 4) /\ k + 1 # L + 2 /\ k + 1 # L + 3 /\ k + 1 # L + 4
        /\ k + 1 # L + 5
    BY <1>1, <1>3
  <2> HIDE DEF p, L, c
  <2> QED  BY <2>4, <2>5 DEF OnCourse, p, L, c
<1>4. CASE k \in 2..L
  <2> DEFINE n == k - 1
  <2>1. n \in 0..L /\ n < L /\ n + 1 = k /\ n + 1 \in 1..L /\ k \in 2..(L + 1)
    BY <1>1, <1>4
  <2>2. c = B[n + 1]
    BY <1>1, <1>2, <2>1
  <2>3. InStep(q, n, s)
    BY <2>1 DEF OnCourse
  <2>4. InStep(parse(q, B[n + 1]), n + 1, s)
    <3> HIDE DEF n
    <3> QED  BY <1>1, <2>1, <2>3, ParseInStep
  <2>5. InStep(p, k, s)
    <3> HIDE DEF n, c, B
    <3> QED  BY <2>1, <2>2, <2>4
  <2>6. (k + 1) - 1 = k /\ k + 1 # 1 /\ ~(k + 1 >= L + 2)
        /\ k + 1 \notin (L + 2)..(L + 4) /\ k + 1 # L + 2 /\ k + 1 # L + 3 /\ k + 1 # L + 4
        /\ k + 1 # L + 5
    BY <1>1, <1>4
  <2> HIDE DEF p, L, c
  <2> QED  BY <2>5, <2>6 DEF OnCourse, p, L, c
<1>5. CASE k = L + 1
  <2>1. c = "*" /\ k \in 2..(L + 1) /\ k - 1 = L
    BY <1>1, <1>5
  <2>2. InStep(q, L, s)
    BY <2>1 DEF OnCourse
  <2> HIDE DEF p, c
  <2>3. /\ p.state = 20 /\ p.result = Kept(s) /\ p.gps = (s.status = "A")
        /\ p.checksum = Parity(L, B) /\ p.msgsum = {}
    BY <1>1, <2>1, <2>2, ParseLast DEF p
  <2>4. k + 1 # 1 /\ k + 1 \notin 2..(L + 1) /\ k + 1 # L + 3 /\ k + 1 # L + 4 /\ k + 1 # L + 5
    BY <1>1, <1>5
  <2> QED  BY <2>3, <2>4 DEF OnCourse, p, c, L, B
<1>6. CASE k \in (L + 2)..(L + 3)
  <2>1. /\ q.state = 20 /\ q.checksum = Parity(L, B)
        /\ q.result = Kept(s) /\ q.gps = (s.status = "A")
        /\ k = L + 2 => q.msgsum = {}
        /\ k = L + 3 => q.msgsum = WithDigit({}, h[1])
    <3>1. k \in (L + 2)..(L + 4) /\ k >= L + 2
      BY <1>1, <1>6
    <3> QED  BY <3>1 DEF OnCourse
  <2>2. (k = L + 2 => c = h[1]) /\ (k = L + 3 => c = h[2]) /\ c \in DOMAIN Hex
    <3> HIDE DEF c, h, t, L, B
    <3>1. k = L + 2 \/ k = L + 3
      BY <1>1, <1>6
    <3>2. k = L + 2 => k + 1 = L + 3
      BY <1>1
    <3>3. k = L + 3 => k + 1 = L + 4
      BY <1>1
    <3> QED  BY <1>1, <1>2, <3>1, <3>2, <3>3
  <2> HIDE DEF c, h, p, L, B
  <2>3. /\ p.state = 20 /\ p.result = q.result /\ p.gps = q.gps
        /\ p.checksum = q.checksum /\ p.msgsum = WithDigit(q.msgsum, c)
    BY <2>1, <2>2, SumGoesOn DEF p
  <2>4. k + 1 # 1 /\ k + 1 \notin 2..(L + 1) /\ k + 1 # L + 2 /\ k + 1 # L + 5
        /\ (k + 1 = L + 3 => k = L + 2) /\ (k + 1 = L + 4 => k = L + 3)
    BY <1>1, <1>6
  <2>5. /\ k + 1 = L + 3 => p.msgsum = WithDigit({}, h[1])
        /\ k + 1 = L + 4 => p.msgsum = WithDigit(WithDigit({}, h[1]), h[2])
    BY <2>1, <2>2, <2>3, <2>4
  <2>6. p.checksum = Parity(L, B) /\ p.result = Kept(s) /\ p.gps = (s.status = "A")
    BY <2>1, <2>3
  <2> QED  BY <2>3, <2>4, <2>5, <2>6 DEF OnCourse, L, B, h, p, c
<1>7. CASE k = L + 4
  <2>1. c = "\r"
    BY <1>1, <1>2, <1>7
  <2>2. /\ q.state = 20 /\ q.checksum = Parity(L, B) /\ q.result = Kept(s)
        /\ q.gps = (s.status = "A") /\ q.msgsum = WithDigit(WithDigit({}, h[1]), h[2])
    <3>1. k \in (L + 2)..(L + 4) /\ k >= L + 2
      BY <1>1, <1>7
    <3> QED  BY <1>7, <3>1 DEF OnCourse
  <2>3. q.msgsum = q.checksum
    BY <1>1, <2>2
  <2> HIDE DEF c, h, p, L, B
  <2>4. p.state = 21 /\ p.result = q.result /\ p.gps = q.gps
    BY <2>1, <2>2, <2>3, SumEnds DEF p
  <2>5. p.result = Kept(s) /\ p.gps = (s.status = "A")
    BY <2>2, <2>4
  <2>6. k + 1 # 1 /\ k + 1 \notin 2..(L + 1) /\ k + 1 \notin (L + 2)..(L + 4)
        /\ k + 1 # L + 2 /\ k + 1 # L + 3 /\ k + 1 # L + 4
    BY <1>1, <1>7
  <2> QED  BY <2>4, <2>5, <2>6 DEF OnCourse, p, c, L, B
<1>8. k = 1 \/ k \in 2..L \/ k = L + 1 \/ k \in (L + 2)..(L + 3) \/ k = L + 4
  BY <1>1
<1> QED  BY <1>3, <1>4, <1>5, <1>6, <1>7, <1>8

-----------------------------------------------------------------------------
(* A sentence that comes intact, wherever the parser is.                   *)

\* A character that begins no sentence leaves the parser outside of one.
LEMMA StaysOut ==
    ASSUME NEW q, Good(q), q.state = 0, NEW c, c # "$"
    PROVE  parse(q, c).state = 0
<1> DEFINE p == parse(q, c)
<1>1. Moves(q, c, p)
  BY ParseMoves
<1> HIDE DEF p
<1>2. p.state \in {0, 1} /\ p.state # 1
  BY <1>1 DEF Moves
<1> QED  BY <1>2 DEF p

LEMMA NoOther ==
    ASSUME NEW s \in Sentence, NEW i \in 2..(Len(Body(s)) + 6)
    PROVE  Sent[s][i] # "$"
<1> DEFINE t == Sent[s]
           L == Len(Body(s))
           c == t[i]
<1>1. /\ L \in Nat /\ s \in Reports
      /\ \A j \in 1..L : t[j + 1] = Body(s)[j]
      /\ t[L + 2] = "*" /\ t[L + 5] = "\r" /\ t[L + 6] = "\n"
      /\ t[L + 3] \in DOMAIN Hex /\ t[L + 4] \in DOMAIN Hex
  BY SentChars, NmeaConstants
<1>2. CASE i \in 2..(L + 1)
  <2> DEFINE n == i - 2
  <2>1. n \in 0..L /\ n < L /\ n + 1 \in 1..L /\ (n + 1) + 1 = i
    BY <1>1, <1>2
  <2> HIDE DEF n, t
  <2>2. t[i] = Body(s)[n + 1]
    BY <1>1, <2>1
  <2>3. Body(s)[n + 1] \in SentenceChar
    BY <1>1, <2>1, BodySummed
  <2> QED  BY <2>2, <2>3, SentenceChars DEF t
<1>3. CASE i \in (L + 2)..(L + 6)
  <2> HIDE DEF t
  <2>1. i = L + 2 \/ i = L + 3 \/ i = L + 4 \/ i = L + 5 \/ i = L + 6
    BY <1>1, <1>3
  <2>2. t[i] \in DOMAIN Hex \/ t[i] = "*" \/ t[i] = "\r" \/ t[i] = "\n"
    BY <1>1, <2>1
  <2>3. t[i] # "$"
    BY <2>2, Frames
  <2> QED  BY <2>3 DEF t
<1> QED  BY <1>1, <1>2, <1>3

\* The "$" takes the parser to a sentence from outside of one, and out of a
\* sentence, or of its sums, from inside.
LEMMA CourseBegins ==
    ASSUME NEW s \in Sentence, NEW q, Good(q)
    PROVE  LET p == parse(q, "$")
           IN  /\ p.state = 0 \/ OnCourse(p, 1, s)
               /\ q.state = 0 => OnCourse(p, 1, s)
<1> DEFINE c == "$"
           p == parse(q, c)
           L == Len(Body(s))
<1>1. Moves(q, c, p)
  BY ParseMoves
<1>2. c \notin SentenceChar /\ c \notin DOMAIN Hex /\ c # "*" /\ c # "\r"
  BY SentenceChars, Frames
<1> HIDE DEF p
<1>3. p.state \in 0..21 /\ p.state \notin 2..19 /\ p.state # 20 /\ p.state # 21
  BY <1>1, <1>2 DEF Moves
<1>4. p.state = 0 \/ p.state = 1
  BY <1>3
<1>5. p.state = 1 => p.checksum = {} /\ p.msgsum = {}
  BY <1>1 DEF Moves
<1>6. q.state = 0 => p.state = 1
  BY <1>1 DEF Moves
<1>7. L \in Nat /\ 1 \notin 2..(L + 1) /\ ~(1 >= L + 2) /\ 1 \notin (L + 2)..(L + 4)
      /\ 1 # L + 2 /\ 1 # L + 3 /\ 1 # L + 4 /\ 1 # L + 5
  <2>1. L \in Nat
    BY SentChars
  <2> HIDE DEF L
  <2> QED  BY <2>1
<1>8. p.state = 1 => OnCourse(p, 1, s)
  BY <1>5, <1>7 DEF OnCourse, L
<1> QED  BY <1>4, <1>6, <1>8 DEF p

\* A sentence but for its last character, from wherever the parser is.
LEMMA SentenceTaken ==
    ASSUME NEW s \in Sentence, NEW q, Good(q)
    PROVE  LET n == Len(Body(s)) + 5
               last == Parsed(q, Front(Sent[s]))
           IN  /\ Good(last)
               /\ last.state = 0 \/ OnCourse(last, n, s)
               /\ q.state = 0 => OnCourse(last, n, s)
<1> DEFINE L == Len(Body(s))
           n == L + 5
           t == Front(Sent[s])
<1>1. L \in Nat /\ L >= 6 /\ Len(Sent[s]) = n + 1 /\ n \in Nat /\ Sent[s][1] = "$"
  BY SentChars
<1>2. DOMAIN t = 1..n /\ \A k \in 1..n : t[k] = Sent[s][k]
  <2>1. t = SubSeq(Sent[s], 1, Len(Sent[s]) - 1)
    BY DEF Front
  <2>2. Len(Sent[s]) - 1 = n
    BY <1>1
  <2>3. t = [k \in 1..n |-> Sent[s][k]]
    <3>1. SubSeq(Sent[s], 1, n) = [k \in 1..(1 + n - 1) |-> Sent[s][k + 1 - 1]]
      OBVIOUS
    <3> QED  BY <1>1, <2>1, <2>2, <3>1
  <2> HIDE DEF t
  <2> QED  BY <2>3
<1> HIDE DEF t, n
<1>3. PICK f : /\ f[0] = q
               /\ \A k \in 0..(n - 1) : f[k + 1] = parse(f[k], t[k + 1])
               /\ Parsed(q, t) = f[n]
  <2>1. n \in Nat /\ DOMAIN t = 1..n
    BY <1>1, <1>2
  <2> QED  BY <2>1, ParseFold
<1> DEFINE Right(k) == /\ Good(f[k])
                       /\ f[k].state = 0 \/ OnCourse(f[k], k, s)
                       /\ q.state = 0 => OnCourse(f[k], k, s)
           P == {k \in Nat : k + 1 <= n => Right(k + 1)}
<1>4. 0 \in P
  <2>1. f[1] = parse(q, "$")
    <3>1. 0 \in 0..(n - 1) /\ 1 \in 1..n /\ 0 + 1 = 1
      BY <1>1 DEF n
    <3>2. f[0 + 1] = parse(f[0], t[0 + 1])
      BY <1>3, <3>1
    <3> QED  BY <1>1, <1>2, <1>3, <3>1, <3>2
  <2>2. Good(f[1])
    BY <2>1, ParseGood
  <2>3. /\ f[1].state = 0 \/ OnCourse(f[1], 1, s)
        /\ q.state = 0 => OnCourse(f[1], 1, s)
    BY <2>1, CourseBegins
  <2> QED  BY <2>2, <2>3
<1>5. ASSUME NEW k \in P PROVE k + 1 \in P
  <2> DEFINE j == k + 1
  <2>1. k \in Nat
    OBVIOUS
  <2> SUFFICES ASSUME j + 1 <= n PROVE Right(j + 1)
    OBVIOUS
  <2>2. j \in 0..(n - 1) /\ j + 1 \in 1..n /\ j + 1 \in 2..(L + 6) /\ j \in 1..(L + 4)
    BY <1>1, <2>1 DEF n
  <2>3. Right(j)
    <3>1. k + 1 <= n
      BY <1>1, <2>1
    <3> QED  BY <3>1
  <2> DEFINE p == f[j + 1]
             c == Sent[s][j + 1]
  <2>4. p = parse(f[j], c)
    BY <1>2, <1>3, <2>2
  <2>5. c # "$"
    BY <2>2, NoOther
  <2> HIDE DEF p, c, j
  <2>6. Good(p) /\ (f[j].state = 0 => p.state = 0)
    BY <2>3, <2>4, <2>5, ParseGood, StaysOut
  <2>7. OnCourse(f[j], j, s) => OnCourse(p, j + 1, s)
    BY <2>2, <2>3, <2>4, CourseGoesOn DEF c
  <2>8. Good(p) /\ (p.state = 0 \/ OnCourse(p, j + 1, s))
    BY <2>3, <2>6, <2>7
  <2>9. q.state = 0 => OnCourse(p, j + 1, s)
    BY <2>3, <2>7
  <2> QED  BY <2>8, <2>9 DEF p
<1>6. P \in SUBSET Nat
  OBVIOUS
<1>7. n - 1 \in P
  <2> HIDE DEF P
  <2> QED  BY <1>1, <1>4, <1>5, <1>6, Induction, SMTT(30) DEF n
<1>8. Right(n)
  <2>1. (n - 1) + 1 <= n /\ (n - 1) + 1 = n
    BY <1>1
  <2> QED  BY <1>7, <2>1
<1> QED  BY <1>3, <1>8 DEF n, t

LEMMA TypeRecovers == TypeOK => Recovers
<1> SUFFICES ASSUME TypeOK, NEW s \in Sentence
             PROVE  LET last == Parsed(parser, Front(Sent[s]))
                    IN  /\ parse(last, "\n").state = 0
                        /\ parser.state = 0 => /\ last.state = 21
                                               /\ News(last) = (s.status = "A")
                                               /\ last.result = Kept(s)
  BY Zenon DEF Recovers, Parsed
<1> DEFINE last == Parsed(parser, Front(Sent[s]))
           c == "\n"
           p == parse(last, c)
           n == Len(Body(s)) + 5
<1>1. /\ Good(last)
      /\ last.state = 0 \/ OnCourse(last, n, s)
      /\ parser.state = 0 => OnCourse(last, n, s)
  BY SentenceTaken, TypesGood
<1> HIDE DEF last
<1>2. OnCourse(last, n, s) =>
          last.state = 21 /\ last.result = Kept(s) /\ last.gps = (s.status = "A")
  <2>1. n = Len(Body(s)) + 5 /\ n >= Len(Body(s)) + 2
    BY SentChars
  <2> HIDE DEF n
  <2> QED  BY <2>1 DEF OnCourse
<1>3. parser.state = 0 => /\ last.state = 21
                          /\ News(last) = (s.status = "A")
                          /\ last.result = Kept(s)
  BY <1>1, <1>2 DEF News
<1>4. p.state = 0
  <2>1. Moves(last, c, p)
    BY <1>1, ParseMoves
  <2>2. c \notin DOMAIN Hex /\ c # "$" /\ c # "*" /\ c # "\r"
    BY Frames
  <2> HIDE DEF p, c
  <2>3. last.state = 0 => p.state = 0
    <3>1. last.state = 0 => p.state \in {0, 1}
      BY <2>1 DEF Moves
    <3>2. p.state # 1
      BY <2>1, <2>2 DEF Moves
    <3> QED  BY <3>1, <3>2
  <2>4. last.state = 21 => p.state = 0
    <3> SUFFICES ASSUME last.state = 21 PROVE p.state = 0
      OBVIOUS
    <3>1. p.state \in 0..21 /\ (p.state \in 2..19 => last.state \in 1..19)
          /\ p.state # 1 /\ p.state # 20 /\ p.state # 21
      BY <2>1, <2>2 DEF Moves
    <3> QED  BY <3>1
  <2> QED  BY <1>1, <1>2, <2>3, <2>4
<1> QED  BY <1>3, <1>4 DEF last, p, c

\* Whatever the line brought, a sentence that comes intact leaves the parser
\* outside of one; and if it was waiting for a sentence, this one is handed
\* out with all its fields, exactly if it has a fix.
THEOREM ParserRecovers == Spec => []Recovers
<1> QED  BY BuffersKept, TypeRecovers, PTL
=============================================================================
