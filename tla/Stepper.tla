------------------------------ MODULE Stepper ------------------------------
(***************************************************************************)
(* The driver of a 5 wire stepper motor, lua-scripts/steppermotorL5.lua:   *)
(* one object, its timer, and the script that uses it, from outside and    *)
(* from the function that is called when a movement ends.  A coil is on    *)
(* when its pin is low; coils is the set of those that are on.             *)
(*                                                                         *)
(* External: the timer (tmr), which fires as long as it runs, and the Lua  *)
(* scheduler, which runs one function at a time.  Numbers are those of the *)
(* float build of the firmware: x % n is never negative.  A script does    *)
(* not use an object that it has destroyed.                                *)
(***************************************************************************)
EXTENDS Integers, Sequences, FiniteSets

CONSTANTS
    Count,                    \* numbers of steps a script asks for
    NoMove                    \* nil

ASSUME StepperConstants ==
    /\ Count \subseteq Nat
    /\ NoMove \notin [dir : {"CCW", "CW"}, loop : Nat, step : Nat]

VARIABLES
    mode,                     \* static.m
    r,                        \* static.r: the movement under way, or nil
    timer,                    \* static.t: running, stopped, or nil
    coils,                    \* the coils that are on
    signals,                  \* signals of the last movement so far
    answers                   \* times its function was called

vars == <<mode, r, timer, coils, signals, answers>>

PotentialS4 == [i \in 1..4 |-> {i}]
PotentialD4 == [i \in 1..4 |-> {i, (i % 4) + 1}]
PotentialH8 ==
    [i \in 1..8 |-> IF i % 2 = 1 THEN PotentialS4[(i + 1) \div 2] ELSE PotentialD4[i \div 2]]

Potential == [S4 |-> PotentialS4, D4 |-> PotentialD4, H8 |-> PotentialH8]

Dir == {"CCW", "CW"}

Move == [dir : Dir, loop : Count, step : Nat]

Init ==
    /\ mode \in DOMAIN Potential
    /\ r = NoMove
    /\ timer = "stopped"
    /\ coils = {}
    /\ signals = 0
    /\ answers = 0

-----------------------------------------------------------------------------

\* Slip: a table is indexed from 0, and 0 is not replaced by its end.
SignalFromZero(dir, step) ==
    LET table == Potential[mode]
        s     == (IF dir = "CW" THEN 0 - step ELSE step) % Len(table)
    IN  IF s = 0 THEN table[1] ELSE table[s]

\* The coils for a step of a movement.
Signal(dir, step) ==
    LET table == Potential[mode]
        s     == (IF dir = "CW" THEN 0 - step ELSE step) % Len(table)
    IN  IF s = 0 THEN table[Len(table)] ELSE table[s]

\* destroy, from a script or from the function of a movement; k are the coils
\* that are on at that time.
DestroyBody(m, k) ==
    /\ coils' = IF m = NoMove THEN k ELSE {}
    /\ timer' = "nil"
    /\ r' = NoMove

\* Slips: the movement ends one step early, or one late.
ReachedEarly(m) == m.step + 1 > m.loop

ReachedLate(m) == m.step > m.loop + 1

\* Whether the step just made is the last one.
Reached(m) == m.step > m.loop

\* _do_step with a movement: make its step, and go on or call its function.
\* Until that returns the movement is still there, so that step refuses; the
\* function may destroy the object.
DoStep(m, made, clock) ==
    /\ signals' = made + 1
    /\ IF ~Reached(m)
       THEN /\ coils' = Signal(m.dir, m.step)
            /\ r' = [m EXCEPT !.step = @ + 1]
            /\ timer' = clock
            /\ answers' = IF made = 0 THEN 0 ELSE answers
       ELSE /\ answers' = (IF made = 0 THEN 0 ELSE answers) + 1
            /\ \/ /\ coils' = Signal(m.dir, m.step)
                  /\ r' = NoMove
                  /\ timer' = clock
               \/ DestroyBody(m, Signal(m.dir, m.step))
    /\ UNCHANGED mode

\* Slip: the timer is not started again.
StepUnstarted(d, n) ==
    /\ timer # "nil"
    /\ r = NoMove
    /\ DoStep([dir |-> d, loop |-> n, step |-> 1], 0, timer)

\* step( direct, count, cb ): refused while a movement is under way.
Step(d, n) ==
    /\ timer # "nil"
    /\ r = NoMove
    /\ DoStep([dir |-> d, loop |-> n, step |-> 1], 0, "running")

\* Slip: the coils stay on.
TickOn ==
    /\ timer = "running"
    /\ IF r = NoMove
       THEN /\ timer' = "stopped"
            /\ UNCHANGED <<mode, r, coils, signals, answers>>
       ELSE DoStep(r, signals, timer)

\* The timer fires: _do_step, with a movement or after one.
Tick ==
    /\ timer = "running"
    /\ IF r = NoMove
       THEN /\ timer' = "stopped"
            /\ coils' = {}
            /\ UNCHANGED <<mode, r, signals, answers>>
       ELSE DoStep(r, signals, timer)

\* destroy, called by a script.
Destroy ==
    /\ timer # "nil"
    /\ DestroyBody(r, coils)
    /\ UNCHANGED <<mode, signals, answers>>

Next ==
    \/ \E d \in Dir, n \in Count : Step(d, n)
    \/ Tick
    \/ Destroy

\* A timer that runs fires.
Spec == Init /\ [][Next]_vars /\ WF_vars(Tick)

-----------------------------------------------------------------------------
(* Properties.                                                             *)

TypeOK ==
    /\ mode \in DOMAIN Potential
    /\ r \in Move \cup {NoMove}
    /\ timer \in {"running", "stopped", "nil"}
    /\ coils \subseteq 1..4
    /\ signals \in Nat
    /\ answers \in 0..1
    /\ r # NoMove => r.step \in 2..(r.loop + 1)

\* The coils that are on when the field points to a, in eighths of a turn.
Field(a) == {x \in 1..4 : (2 * x - a) % 8 \in {0, 1, 7}}

Angle(k) == CHOOSE a \in 0..7 : k = Field(a)

Eighths == IF mode = "H8" THEN 1 ELSE 2

\* Within a movement the field turns by the same angle at each step, an eighth
\* in mode H8 and a quarter in the others, in the direction asked for, past
\* the end of the table as well: the motor loses no step.
Turns ==
    [][r # NoMove /\ coils' # {} =>
          LET turn == Angle(coils') - Angle(coils)
          IN  turn % 8 = (IF r.dir = "CW" THEN 0 - Eighths ELSE Eighths) % 8]_vars

\* A movement that ends by itself has made one signal more than it was asked
\* for and its function was called once; one that is destroyed in between has
\* not called it.
Counted ==
    [][r # NoMove /\ r' = NoMove =>
          \/ signals' = r.loop + 1 /\ answers' = 1
          \/ timer' = "nil" /\ signals' <= r.loop /\ answers' = 0]_vars

\* No coil is left on when the timer does not run, so that none is heated for
\* good, whatever step and the last tick of the movement before do to each
\* other; and a movement always has a timer.
StoppedIsOff == timer = "stopped" => coils = {} /\ r = NoMove

\* Every movement ends, and after it, unless another begins or the object is
\* destroyed, the coils are switched off.
ComesToRest ==
    /\ r # NoMove ~> r = NoMove
    /\ r = NoMove /\ coils # {} ~> coils = {} \/ r # NoMove \/ timer = "nil"
=============================================================================
