------------------------------- MODULE MCNmea -------------------------------
(* Instances of Nmea for TLC.                                              *)
EXTENDS Nmea

\* Two bytes more than a digit, for a letter and the terminator.
Sizes == [f \in Field |-> IF f \in {"lat", "lon", "magn"} THEN 3 ELSE 2]

\* A sentence with a fix, one without, and one of the form that has no mode,
\* of which some fields are too long and others empty.
Fix ==
    [time |-> <<"1">>, status |-> "A", lat |-> <<"2">>, ns |-> "N", lon |-> <<"3">>,
     ew |-> "E", spd |-> <<"4">>, cmg |-> <<"5">>, date |-> <<"6">>, magn |-> <<"7">>,
     mew |-> "W", mode |-> <<",", "A">>]

NoFix == [Fix EXCEPT !.status = "V", !.time = <<"2">>, !.ns = "S", !.date = <<>>]

Long ==
    [Fix EXCEPT !.time = <<"8", "9">>, !.lat = <<"2", ".", "4">>, !.ns = "S",
                !.lon = <<".", "5">>, !.cmg = <<>>, !.magn = <<"1", "2", "3">>,
                !.mode = <<>>]

Sentences == {Fix, NoFix, Long}

Noises == {"$", "A", "V", "7", ",", "*", "\r"}

\* The sums are set at the "$", and each buffer from its first comma to the
\* next, before they are read: states that differ only in what an earlier
\* sentence left there are one.
View ==
    LET q    == parser
        read == {Fills[k] : k \in {e \in Ending : e < q.state}}
    IN  <<[q EXCEPT !.checksum = IF q.state \in 1..20 THEN @ ELSE {},
                    !.msgsum = IF q.state \in 1..20 THEN @ ELSE {},
                    !.pbuff = IF q.state \in DOMAIN Fills THEN @ ELSE <<>>,
                    !.result = [f \in Field |-> IF f \in read THEN @[f] ELSE <<>>]],
          found, tmp, meant, at, spoilt, heard>>
=============================================================================
