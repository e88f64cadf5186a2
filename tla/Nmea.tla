-------------------------------- MODULE Nmea --------------------------------
(***************************************************************************)
(* The reader of GPRMC sentences, app/module/tinynmea.c: parse, which eats *)
(* one character at a time and keeps its state in static variables, and    *)
(* nmea_parse, which Lua calls with whatever the UART delivered.  A byte   *)
(* is the set of its bits that are one.                                    *)
(*                                                                         *)
(* External: the receiver that sends the sentences, and the line, which    *)
(* cuts a sentence off or loses, repeats or replaces a character of it.    *)
(***************************************************************************)
EXTENDS Naturals, Sequences, SequencesExt

CONSTANTS
    Sentence,                 \* what the receiver may report
    Size,                     \* sizeof each buffer of gprmc_data
    Noise                     \* characters that may take another's place

VARIABLES
    parser,                   \* the static variables of parse
    found, tmp,               \* those of the call of nmea_parse
    meant,                    \* the sentence that is being sent
    at,                       \* how many of its characters were sent
    spoilt,                   \* where one of them was not right
    heard                     \* sentences with a fix whose body came intact

vars == <<parser, found, tmp, meant, at, spoilt, heard>>

-----------------------------------------------------------------------------
(* Characters and bytes.                                                   *)

Digit  == {"0", "1", "2", "3", "4", "5", "6", "7", "8", "9"}
Number == Digit \cup {"."}

\* The characters a sentence is summed over, in the order of their codes,
\* from "*", 42, on.
Summed ==
    <<"*", "+", ",", "-", ".", "/", "0", "1", "2", "3", "4", "5", "6", "7",
      "8", "9", ":", ";", "<", "=", ">", "?", "@", "A", "B", "C", "D", "E",
      "F", "G", "H", "I", "J", "K", "L", "M", "N", "O", "P", "Q", "R", "S",
      "T", "U", "V", "W", "X", "Y", "Z">>

Byte == SUBSET (0..7)

Bits(n) == {b \in 0..7 : (n \div 2^b) % 2 = 1}

Ascii == [c \in ToSet(Summed) |-> Bits(41 + SelectInSeq(Summed, LAMBDA x : x = c))]

Xor(a, b) == (a \ b) \cup (b \ a)

HexDigits ==
    <<"0", "1", "2", "3", "4", "5", "6", "7", "8", "9",
      "A", "B", "C", "D", "E", "F">>

Hex == [c \in ToSet(HexDigits) |-> Bits(SelectInSeq(HexDigits, LAMBDA x : x = c) - 1)]

\* msgsum = (msgsum<<4) | digit, in a byte.
WithDigit(sum, c) == {b + 4 : b \in sum \cap 0..3} \cup Hex[c]

-----------------------------------------------------------------------------
(* parse.                                                                  *)

Name  == <<"G", "P", "R", "M", "C">>
Field == {"time", "lat", "lon", "spd", "cmg", "date", "magn"}

\* The states that fill a buffer; two of them share one when a letter
\* follows the number.
Fills ==
    [k \in {7} \cup 9..17 |->
        CASE k = 7 -> "time"          [] k \in {9, 10} -> "lat"
          [] k \in {11, 12} -> "lon"  [] k = 13 -> "spd"
          [] k = 14 -> "cmg"          [] k = 15 -> "date"
          [] k \in {16, 17} -> "magn"]

Accepts ==
    [k \in DOMAIN Fills |->
        CASE k = 10 -> {"N", "S"}   [] k \in {12, 17} -> {"W", "E"}
          [] k = 15 -> Digit        [] OTHER -> Number]

\* The states whose buffer is complete at the comma.
Ending == DOMAIN Fills \ {9, 11, 16}

\* Slip: no room is kept for the letter and the terminator.
SpareTight(k) == 1

\* What must be free: the character itself, the terminator, and the letter.
Spare(k) == IF k \in Ending THEN 2 ELSE 3

Reset(q) == [q EXCEPT !.state = 0]

Put(q, c) ==
    IF Len(q.pbuff) + Spare(q.state) <= Size[Fills[q.state]]
    THEN [q EXCEPT !.pbuff = Append(@, c)] ELSE q

\* The room for the terminator was kept (TypeOK).  What is in a buffer before
\* it is complete is not read.
Closed(q, next) ==
    IF q.state \in Ending
    THEN [q EXCEPT !.result[Fills[q.state]] = q.pbuff, !.pbuff = <<>>, !.state = next]
    ELSE [q EXCEPT !.state = next]

InField(q, c) ==
    CASE c \in Accepts[q.state]     -> Put(q, c)
      [] c = ","                    -> Closed(q, q.state + 1)
      [] c = "*" /\ q.state = 17    -> Closed(q, 20)
      [] OTHER                      -> Reset(q)

InStatus(q, c) ==
    CASE c \in {"A", "V"} -> [q EXCEPT !.gps = (c = "A")]
      [] c = ","          -> [q EXCEPT !.pbuff = <<>>, !.state = 9]
      [] OTHER            -> Reset(q)

\* Slip: the sums are not compared.
InSumUnchecked(q, c) ==
    CASE c \in DOMAIN Hex -> [q EXCEPT !.msgsum = WithDigit(@, c)]
      [] c = "\r"         -> [q EXCEPT !.state = 21]
      [] OTHER            -> Reset(q)

InSum(q, c) ==
    CASE c \in DOMAIN Hex -> [q EXCEPT !.msgsum = WithDigit(@, c)]
      [] c = "\r" /\ q.msgsum = q.checksum -> [q EXCEPT !.state = 21]
      [] OTHER            -> Reset(q)

Expect(q, ok, next) == IF ok THEN [q EXCEPT !.state = next] ELSE Reset(q)

\* Slip: the sums of the last sentence are kept.
OutsideKeepingSum(q, c) == IF c = "$" THEN [q EXCEPT !.state = 1] ELSE q

Outside(q, c) ==
    IF c = "$" THEN [q EXCEPT !.state = 1, !.checksum = {}, !.msgsum = {}] ELSE q

Switch(q, c) ==
    CASE q.state = 0              -> Outside(q, c)
      [] q.state \in 1..5         -> Expect(q, c = Name[q.state], q.state + 1)
      [] q.state = 6              -> Expect([q EXCEPT !.pbuff = <<>>], c = ",", 7)
      [] q.state = 8              -> InStatus(q, c)
      [] q.state \in DOMAIN Fills -> InField(q, c)
      [] q.state = 18             -> Expect(q, c \in {"A", "D", "E", "N"}, 19)
      [] q.state = 19             -> Expect(q, c = "*", 20)
      [] q.state = 20             -> InSum(q, c)
      [] q.state = 21             -> Reset(q)

\* The sentence is handed out, as &result, one character after its end.
parse(q, c) ==
    LET n == Switch(q, c)
    IN  IF n.state \in 2..19 THEN [n EXCEPT !.checksum = Xor(@, Ascii[c])] ELSE n

-----------------------------------------------------------------------------
(* The receiver.                                                           *)

Reports ==
    [time : Seq(Number), status : {"A", "V"}, lat : Seq(Number), ns : {"N", "S"},
     lon : Seq(Number), ew : {"E", "W"}, spd : Seq(Number), cmg : Seq(Number),
     date : Seq(Digit), magn : Seq(Number), mew : {"E", "W"},
     mode : {<<>>} \cup {<<",", m>> : m \in {"A", "D", "E", "N"}}]

ASSUME NmeaConstants ==
    /\ Size \in [Field -> Nat \ {0, 1}]
    /\ Sentence \subseteq Reports

\* What follows the "$", up to the "*".
Body(s) ==
    Name \o <<",">> \o s.time \o <<",", s.status, ",">> \o s.lat \o <<",", s.ns, ",">>
         \o s.lon \o <<",", s.ew, ",">> \o s.spd \o <<",">> \o s.cmg \o <<",">>
         \o s.date \o <<",">> \o s.magn \o <<",", s.mew>> \o s.mode

HexSum(sum) ==
    LET digit(bits) == CHOOSE c \in DOMAIN Hex : Hex[c] = bits
    IN  <<digit({b - 4 : b \in sum \ 0..3}), digit(sum \cap 0..3)>>

Sent ==
    [s \in Sentence |->
        LET sum == FoldLeft(LAMBDA x, c : Xor(x, Ascii[c]), {}, Body(s))
        IN  <<"$">> \o Body(s) \o <<"*">> \o HexSum(sum) \o <<"\r", "\n">>]

\* What the buffers can hold of a sentence: a letter follows its number, of
\* which the tail is dropped when it is too long.
Kept(s) ==
    LET room(f, letter) == Size[f] - 1 - Len(letter)
        cut(f, n, letter) == SubSeq(n, 1, Min({Len(n), room(f, letter)})) \o letter
    IN  [time |-> cut("time", s.time, <<>>), lat |-> cut("lat", s.lat, <<s.ns>>),
         lon |-> cut("lon", s.lon, <<s.ew>>), spd |-> cut("spd", s.spd, <<>>),
         cmg |-> cut("cmg", s.cmg, <<>>), date |-> cut("date", s.date, <<>>),
         magn |-> cut("magn", s.magn, <<s.mew>>)]

Empty == [f \in Field |-> <<>>]

Init ==
    /\ parser = [state |-> 0, pbuff |-> <<>>, result |-> Empty, gps |-> FALSE,
                 checksum |-> {}, msgsum |-> {}]
    /\ found = FALSE
    /\ tmp = Empty
    /\ meant \in Sentence
    /\ at = 0
    /\ spoilt = "nowhere"
    /\ heard = {}

\* res && has_gps(res).
News(q) == q.state = 21 /\ q.gps

\* One turn of the loop in nmea_parse.
Feed(c) ==
    /\ parser' = parse(parser, c)
    /\ found' = (found \/ News(parser))
    /\ tmp' = IF News(parser) THEN parser.result ELSE tmp

\* nmea_parse returns; the next call starts from what parse keeps.  (tmp is on
\* the stack, and is not read before it is set again.)
Return ==
    /\ found' = FALSE
    /\ tmp' = Empty
    /\ UNCHANGED <<parser, meant, at, spoilt, heard>>

Sending == at < Len(Sent[meant])

\* Where the n-th character of the sentence is: in what is summed, or not.
Place(n) == IF n \in 2..(Len(Body(meant)) + 1) THEN "body" ELSE "frame"

\* The next character arrives as it should.
Arrive ==
    /\ Sending
    /\ Feed(Sent[meant][at + 1])
    /\ at' = at + 1
    /\ heard' = IF /\ Sent[meant][at + 1] = "*"
                   /\ spoilt # "body"
                   /\ meant.status = "A"
                THEN heard \cup {meant} ELSE heard
    /\ UNCHANGED <<meant, spoilt>>

\* The line replaces or loses one character of a sentence (bound: one).
Spoil ==
    /\ Sending
    /\ spoilt = "nowhere"
    /\ spoilt' = Place(at + 1)
    /\ at' = at + 1
    /\ \/ \E c \in Noise \ {Sent[meant][at + 1]} : Feed(c)
       \/ UNCHANGED <<parser, found, tmp>>
    /\ UNCHANGED <<meant, heard>>

\* A character comes a second time.
Echo ==
    /\ Sending
    /\ at > 0
    /\ spoilt = "nowhere"
    /\ spoilt' = Place(at)
    /\ Feed(Sent[meant][at])
    /\ UNCHANGED <<meant, at, heard>>

\* Another sentence begins; the last one came to its end, or, if nothing of
\* it was spoilt, it was cut off.
Begin ==
    /\ ~Sending \/ spoilt = "nowhere"
    /\ meant' \in Sentence
    /\ at' = 0
    /\ spoilt' = "nowhere"
    /\ UNCHANGED <<parser, found, tmp, heard>>

Next == Arrive \/ Spoil \/ Echo \/ Begin \/ Return

Spec == Init /\ [][Next]_vars

-----------------------------------------------------------------------------
(* Properties.                                                             *)

Parser ==
    [state : 0..21, pbuff : Seq(DOMAIN Ascii), result : [Field -> Seq(DOMAIN Ascii)],
     gps : BOOLEAN, checksum : Byte, msgsum : Byte]

\* The shape of the state; and no character, nor the terminator after it, is
\* written past the end of its buffer.
TypeOK ==
    /\ parser \in Parser
    /\ \A f \in Field : Len(parser.result[f]) < Size[f]
    /\ parser.state \in DOMAIN Fills =>
           Len(parser.pbuff) < Size[Fills[parser.state]]
    /\ found \in BOOLEAN
    /\ tmp \in [Field -> Seq(DOMAIN Ascii)]
    /\ meant \in Sentence
    /\ at \in 0..Len(Sent[meant])
    /\ spoilt \in {"nowhere", "body", "frame"}
    /\ heard \subseteq Sentence

\* What nmea_parse returns are the fields of one sentence that has a fix and
\* that came as it was sent, from its name to its last field: nothing of a
\* sentence that was cut off, spoilt or without a fix is mixed in, however
\* the calls cut the stream up.
Genuine == found => \E s \in heard : tmp = Kept(s)

\* The parser is never stuck: whatever came before, a sentence that comes
\* intact leaves it ready for the next, and is handed out with all its fields
\* when it was ready itself, exactly if there is a fix.
Recovers ==
    \A s \in Sentence :
        LET chars == Sent[s]
            last  == FoldLeft(parse, parser, Front(chars))
        IN  /\ parse(last, "\n").state = 0
            /\ parser.state = 0 => /\ last.state = 21
                                   /\ News(last) = (s.status = "A")
                                   /\ last.result = Kept(s)
=============================================================================
