------------------------------ MODULE Counter ------------------------------
(***************************************************************************)
(* The pulse counter of lua-scripts/counter.lua: one object, the edges it  *)
(* counts, and the window its speed is taken from.                         *)
(*                                                                         *)
(* External: the pin, whose edges are queued with the time they came and   *)
(* handed to Lua later, in order; the clock tmr.now, which wraps; and the  *)
(* script, which resets the object and reads its speed when it likes, from *)
(* the function called at each pulse as well.                              *)
(***************************************************************************)
EXTENDS Integers, Sequences

CONSTANTS
    one_second,               \* in units of the clock
    Wrap,                     \* where the clock starts over
    Leap,                     \* bound: how far time goes on at once
    Horizon,                  \* bound: how long the model runs
    PulseMax,                 \* bound: pulses between two resets
    QueueMax                  \* edges the firmware keeps

ASSUME CounterConstants ==
    /\ one_second \in Nat \ {0}
    /\ Wrap \in Nat \ {0}
    /\ Leap \in Nat \ {0}
    /\ Horizon \in Nat
    /\ PulseMax \in Nat
    /\ QueueMax \in Nat

VARIABLES
    now,                      \* the time, which does not wrap
    queue,                    \* the edges that wait: their times and levels
    n, r, c,                  \* static.n, static.r, static.c
    pulses                    \* the times of the pulses counted in n

vars == <<now, queue, n, r, c, pulses>>

Clock(t) == t % Wrap

Round(t) == t - (t % one_second)

\* create; t, which only time and speedavg read, is left out.
Init ==
    /\ now \in 0..(Wrap - 1)
    /\ queue = <<>>
    /\ n = 0
    /\ r = 0
    /\ c = 0
    /\ pulses = <<>>

Pass ==
    /\ \E d \in 1..Leap : now' = now + d
    /\ now' <= Horizon
    /\ UNCHANGED <<queue, n, r, c, pulses>>

\* The pin is triggered; its level is read when the interrupt is served.
Edge ==
    /\ Len(queue) < QueueMax
    /\ \E level \in 0..1 : queue' = Append(queue, [when |-> now, level |-> level])
    /\ UNCHANGED <<now, n, r, c, pulses>>

Moved(time) == Round(time)

\* Slip: the pulse that moves the window is counted before it.
IncrLate(time) ==
    /\ IF r + one_second < time THEN c' = n + 1 /\ r' = Moved(time) ELSE UNCHANGED <<r, c>>
    /\ n' = n + 1

\* Slip: the window moves, and the pulses before it are still counted.
IncrKept(time) ==
    /\ IF r + one_second < time THEN r' = Moved(time) ELSE UNCHANGED r
    /\ n' = n + 1
    /\ UNCHANGED c

\* _incr: a pulse later than the second behind the window moves it.
Incr(time) ==
    /\ IF r + one_second < time THEN c' = n /\ r' = Moved(time) ELSE UNCHANGED <<r, c>>
    /\ n' = n + 1

\* Slip: the count of the speed is not reset.
ClearedLeft == n' = 0 /\ r' = 0 /\ c' = c /\ pulses' = <<>>

\* reset, by the script or by the function of a pulse.
Cleared == n' = 0 /\ r' = 0 /\ c' = 0 /\ pulses' = <<>>

\* The function given to gpio.trig: a pulse is an edge with the pin high.
Trigger ==
    /\ queue # <<>>
    /\ queue' = Tail(queue)
    /\ \/ Head(queue).level = 0 /\ UNCHANGED <<n, r, c, pulses>>
       \/ /\ Head(queue).level = 1
          /\ Len(pulses) < PulseMax
          /\ Incr(Clock(Head(queue).when))
          /\ pulses' = Append(pulses, Head(queue).when)
       \/ Head(queue).level = 1 /\ Cleared
    /\ UNCHANGED now

Reset == Cleared /\ UNCHANGED <<now, queue>>

Next == Pass \/ Edge \/ Trigger \/ Reset

Spec == Init /\ [][Next]_vars

\* speed
Speed == IF r + one_second < Round(Clock(now)) THEN 0 ELSE n - c

-----------------------------------------------------------------------------
(* Properties.                                                             *)

TypeOK ==
    /\ now \in Nat
    /\ n \in Nat /\ c \in 0..n /\ r \in 0..(Wrap - 1)
    /\ pulses \in Seq(Nat) /\ Len(pulses) = n
    /\ queue \in Seq([when : Nat, level : 0..1])

Epoch(t) == t \div Wrap

\* The pulses that speed counts.
Counted == ((n - Speed) + 1)..n

\* The speed is of now: no pulse in it is older than two seconds, however late
\* the edges were handed over and whenever the object was reset, unless the
\* clock has wrapped since the window began.
SpeedIsRecent ==
    \A i \in Counted :
        pulses[i] > now - 2 * one_second \/ Epoch(pulses[c + 1]) < Epoch(now)

\* And it leaves out none of the present second, but for one at its very
\* beginning: the wrap of the clock does not matter to that.
SpeedIsComplete ==
    \A i \in 1..n : pulses[i] > now - (Clock(now) % one_second) => i \in Counted
=============================================================================
