--------------------------- MODULE StepperProofs ---------------------------
(***************************************************************************)
(* Proofs about Stepper: the types, what is on when the timer is stopped,  *)
(* and the count of a movement, for every set of counts a script may use.  *)
(***************************************************************************)
EXTENDS Stepper, TLAPS

LEMMA Counts == Count \subseteq Nat
  BY StepperConstants

\* A movement is a record, and not nil.
LEMMA MoveType ==
    ASSUME NEW m \in Move
    PROVE  /\ m.dir \in Dir /\ m.step \in Nat /\ m.loop \in Nat /\ m # NoMove
           /\ m \in [dir : Dir, loop : Nat, step : Nat]
<1>1. m.dir \in Dir /\ m.step \in Nat /\ m.loop \in Count
  BY SMT DEF Move
<1>2. m \in [dir : Dir, loop : Nat, step : Nat]
  BY Counts, Zenon DEF Move
<1>3. m # NoMove
  BY <1>2, StepperConstants DEF Dir
<1> QED BY <1>1, <1>2, <1>3, Counts

-----------------------------------------------------------------------------
(* The tables.                                                             *)

Table(t) == t \in Seq(SUBSET (1..4)) /\ Len(t) > 0

LEMMA TableS4 == Table(PotentialS4)
<1>1. PotentialS4 \in [1..4 -> SUBSET (1..4)]
  BY SMT DEF PotentialS4
<1> QED BY <1>1, SMT DEF PotentialS4, Table

LEMMA TableD4 == Table(PotentialD4)
<1>1. PotentialD4 \in [1..4 -> SUBSET (1..4)]
  BY SMT DEF PotentialD4
<1> QED BY <1>1, SMT DEF PotentialD4, Table

LEMMA TableH8 == Table(PotentialH8)
<1>1. PotentialH8 \in [1..8 -> SUBSET (1..4)]
  BY SMT DEF PotentialH8, PotentialS4, PotentialD4
<1> QED BY <1>1, SMT DEF PotentialH8, Table

\* The table of every mode is a sequence of at least one set of coils.
LEMMA Tables == ASSUME NEW k \in DOMAIN Potential PROVE Table(Potential[k])
<1>1. k \in {"S4", "D4", "H8"}
  BY SMT DEF Potential
<1>2. CASE k = "S4"
  BY <1>2, TableS4 DEF Potential
<1>3. CASE k = "D4"
  BY <1>3, TableD4 DEF Potential
<1>4. CASE k = "H8"
  BY <1>4, TableH8 DEF Potential
<1> QED BY <1>1, <1>2, <1>3, <1>4

LEMMA SignalType ==
    ASSUME mode \in DOMAIN Potential, NEW dir \in Dir, NEW step \in Nat
    PROVE  Signal(dir, step) \subseteq 1..4
<1> DEFINE table == Potential[mode]
           t == IF dir = "CW" THEN 0 - step ELSE step
           s == t % Len(table)
<1>1. table \in Seq(SUBSET (1..4)) /\ Len(table) \in Nat /\ Len(table) > 0
  BY Tables, SMT DEF Table
<1>2. t \in Int
  BY SMT
<1>3. s \in 0..(Len(table) - 1)
  BY <1>1, <1>2, SMT
<1>4. (IF s = 0 THEN table[Len(table)] ELSE table[s]) \in SUBSET (1..4)
  <2> HIDE DEF table, s
  <2> QED BY <1>1, <1>3, SMT
<1> QED BY <1>4, Zenon DEF Signal

-----------------------------------------------------------------------------
(* The field.                                                              *)

LEMMA Fields ==
    /\ Field(0) = {4}    /\ Field(1) = {4, 1}
    /\ Field(2) = {1}    /\ Field(3) = {1, 2}
    /\ Field(4) = {2}    /\ Field(5) = {2, 3}
    /\ Field(6) = {3}    /\ Field(7) = {3, 4}
<1>1. Field(0) = {4}
  BY SMTT(30) DEF Field
<1>2. Field(1) = {4, 1}
  BY SMTT(30) DEF Field
<1>3. Field(2) = {1}
  BY SMTT(30) DEF Field
<1>4. Field(3) = {1, 2}
  BY SMTT(30) DEF Field
<1>5. Field(4) = {2}
  BY SMTT(30) DEF Field
<1>6. Field(5) = {2, 3}
  BY SMTT(30) DEF Field
<1>7. Field(6) = {3}
  BY SMTT(30) DEF Field
<1>8. Field(7) = {3, 4}
  BY SMTT(30) DEF Field
<1> QED BY <1>1, <1>2, <1>3, <1>4, <1>5, <1>6, <1>7, <1>8

LEMMA Distinct == ASSUME NEW a \in 0..7, NEW b \in 0..7, Field(a) = Field(b) PROVE a = b
<1>1. a \in {0,1,2,3,4,5,6,7} /\ b \in {0,1,2,3,4,5,6,7}
  BY SMT
<1>2. Field(a) = Field(b)
  OBVIOUS
<1> HIDE DEF Field
<1> QED BY <1>1, <1>2, Fields, SMTT(30)

LEMMA AngleOf == ASSUME NEW a \in 0..7 PROVE Angle(Field(a)) = a
<1>1. Angle(Field(a)) = CHOOSE b \in 0..7 : Field(a) = Field(b)
  BY DEF Angle, Field
<1> DEFINE P(b) == b \in 0..7 /\ Field(a) = Field(b)
<1>2. P(CHOOSE b : P(b))
  BY Zenon
<1> QED BY <1>1, <1>2, Distinct, Zenon

\* The field at a step, in eighths of a turn, counted from that of step 0.
Turned(dir, step) == Eighths * (IF dir = "CW" THEN 0 - step ELSE step)

Zero == IF mode = "S4" THEN 0 ELSE 1

\* The tables place the field of every step evenly, the wrap included.
LEMMA SignalField ==
    ASSUME mode \in DOMAIN Potential, NEW dir \in Dir, NEW step \in Nat
    PROVE  Signal(dir, step) = Field((Turned(dir, step) + Zero) % 8)
<1> DEFINE t == IF dir = "CW" THEN 0 - step ELSE step
<1>1. t \in Int
  OBVIOUS
<1>2. mode \in {"S4", "D4", "H8"}
  BY SMT DEF Potential
<1>3. CASE mode = "S4"
  <2>0. \A s \in {0, 1, 2, 3} : (IF s = 0 THEN {4} ELSE {s}) = Field(2 * s)
    BY Fields, SMT
  <2>1. Signal(dir, step) = IF t % 4 = 0 THEN {4} ELSE {t % 4}
    BY <1>1, <1>3, SMT DEF Signal, Potential, PotentialS4
  <2>2. (Turned(dir, step) + Zero) % 8 = 2 * (t % 4)
    BY <1>1, <1>3, SMT DEF Turned, Zero, Eighths
  <2> HIDE DEF t
  <2>3. t % 4 \in {0, 1, 2, 3}
    BY <1>1, SMT
  <2> QED BY <2>0, <2>1, <2>2, <2>3, Zenon
<1>4. CASE mode = "D4"
  <2>0. \A s \in {0, 1, 2, 3} : (IF s = 0 THEN {4, 1} ELSE {s, s + 1}) = Field(2 * s + 1)
    BY Fields, SMTT(30)
  <2>1. Signal(dir, step) = IF t % 4 = 0 THEN {4, 1} ELSE {t % 4, (t % 4) + 1}
    BY <1>1, <1>4, SMT DEF Signal, Potential, PotentialD4
  <2>2. (Turned(dir, step) + Zero) % 8 = 2 * (t % 4) + 1
    BY <1>1, <1>4, SMT DEF Turned, Zero, Eighths
  <2> HIDE DEF t
  <2>3. t % 4 \in {0, 1, 2, 3}
    BY <1>1, SMT
  <2> QED BY <2>0, <2>1, <2>2, <2>3, Zenon
<1>5. CASE mode = "H8"
  <2>1. Signal(dir, step) = IF t % 8 = 0 THEN PotentialH8[8] ELSE PotentialH8[t % 8]
    BY <1>1, <1>5, SMT DEF Signal, Potential, PotentialH8
  <2>2. (Turned(dir, step) + Zero) % 8 = ((t % 8) + 1) % 8
    BY <1>1, <1>5, SMT DEF Turned, Zero, Eighths
  <2> HIDE DEF t
  <2>3. t % 8 \in {0, 1, 2, 3, 4, 5, 6, 7}
    BY <1>1, SMT
  <2>4. /\ PotentialH8[1] = {1} /\ PotentialH8[2] = {1, 2}
        /\ PotentialH8[3] = {2} /\ PotentialH8[4] = {2, 3}
        /\ PotentialH8[5] = {3} /\ PotentialH8[6] = {3, 4}
        /\ PotentialH8[7] = {4} /\ PotentialH8[8] = {4, 1}
    BY SMT DEF PotentialH8, PotentialS4, PotentialD4
  <2>5. /\ 1 % 8 = 1 /\ 2 % 8 = 2 /\ 3 % 8 = 3 /\ 4 % 8 = 4
        /\ 5 % 8 = 5 /\ 6 % 8 = 6 /\ 7 % 8 = 7 /\ 8 % 8 = 0
    OBVIOUS
  <2>6. ASSUME NEW s \in {0, 1, 2, 3, 4, 5, 6, 7}
        PROVE  (IF s = 0 THEN PotentialH8[8] ELSE PotentialH8[s]) = Field((s + 1) % 8)
    <3>0. CASE s = 0
      <4>1. s + 1 = 1
        BY <3>0
      <4> QED BY <2>4, <2>5, <3>0, <4>1, Fields
    <3>1. CASE s = 1
      <4>1. s + 1 = 2
        BY <3>1
      <4> QED BY <2>4, <2>5, <3>1, <4>1, Fields
    <3>2. CASE s = 2
      <4>1. s + 1 = 3
        BY <3>2
      <4> QED BY <2>4, <2>5, <3>2, <4>1, Fields
    <3>3. CASE s = 3
      <4>1. s + 1 = 4
        BY <3>3
      <4> QED BY <2>4, <2>5, <3>3, <4>1, Fields
    <3>4. CASE s = 4
      <4>1. s + 1 = 5
        BY <3>4
      <4> QED BY <2>4, <2>5, <3>4, <4>1, Fields
    <3>5. CASE s = 5
      <4>1. s + 1 = 6
        BY <3>5
      <4> QED BY <2>4, <2>5, <3>5, <4>1, Fields
    <3>6. CASE s = 6
      <4>1. s + 1 = 7
        BY <3>6
      <4> QED BY <2>4, <2>5, <3>6, <4>1, Fields
    <3>7. CASE s = 7
      <4>1. s + 1 = 8
        BY <3>7
      <4> QED BY <2>4, <2>5, <3>7, <4>1, Fields
    <3> QED BY <3>0, <3>1, <3>2, <3>3, <3>4, <3>5, <3>6, <3>7
  <2> QED BY <2>1, <2>2, <2>3, <2>6, Zenon
<1> QED BY <1>2, <1>3, <1>4, <1>5

LEMMA Modulo ==
    ASSUME NEW x \in Int, NEW y \in Int
    PROVE  ((y % 8) - (x % 8)) % 8 = (y - x) % 8
  BY SMT

\* From one step to the next the field turns by the angle of the mode.
LEMMA OneTurn ==
    ASSUME mode \in DOMAIN Potential, NEW dir \in Dir, NEW step \in Nat
    PROVE  (Angle(Signal(dir, step + 1)) - Angle(Signal(dir, step))) % 8 =
               (IF dir = "CW" THEN 0 - Eighths ELSE Eighths) % 8
<1>1. Eighths \in {1, 2} /\ Zero \in {0, 1}
  BY DEF Eighths, Zero
<1>2. Turned(dir, step) \in Int /\ Turned(dir, step + 1) \in Int
  BY <1>1, SMT DEF Turned
<1>3. Turned(dir, step + 1) = Turned(dir, step) + (IF dir = "CW" THEN 0 - Eighths ELSE Eighths)
  BY <1>1, SMT DEF Turned
<1>4. Angle(Signal(dir, step)) = (Turned(dir, step) + Zero) % 8
  <2>1. (Turned(dir, step) + Zero) % 8 \in 0..7
    BY <1>1, <1>2, SMT
  <2> QED BY <2>1, SignalField, AngleOf
<1>5. Angle(Signal(dir, step + 1)) = (Turned(dir, step + 1) + Zero) % 8
  <2>1. (Turned(dir, step + 1) + Zero) % 8 \in 0..7
    BY <1>1, <1>2, SMT
  <2>2. step + 1 \in Nat
    OBVIOUS
  <2> QED BY <2>1, <2>2, SignalField, AngleOf
<1> DEFINE x == Turned(dir, step) + Zero
           y == Turned(dir, step + 1) + Zero
<1>6. x \in Int /\ y \in Int /\ y - x = IF dir = "CW" THEN 0 - Eighths ELSE Eighths
  BY <1>1, <1>2, <1>3
<1> HIDE DEF x, y
<1>7. ((y % 8) - (x % 8)) % 8 = (y - x) % 8
  BY <1>6, Modulo
<1>8. Angle(Signal(dir, step)) = x % 8 /\ Angle(Signal(dir, step + 1)) = y % 8
  BY <1>4, <1>5 DEF x, y
<1> QED BY <1>6, <1>7, <1>8

-----------------------------------------------------------------------------
(* The inductive invariant.                                                *)

\* A movement under way has made one signal for each step it has taken, the
\* last of which is still on; its function has not been called, and its timer
\* runs.
UnderWay ==
    r # NoMove =>
        /\ signals = r.step - 1
        /\ coils = Signal(r.dir, r.step - 1)
        /\ answers = 0
        /\ timer = "running"

IInv == TypeOK /\ UnderWay /\ StoppedIsOff

LEMMA InitIInv == Init => IInv
  BY SMT DEF Init, IInv, TypeOK, UnderWay, StoppedIsOff

\* What one step of a movement does, whoever makes it.
LEMMA DoStepIInv ==
    ASSUME IInv, NEW m \in Move, NEW made \in Nat,
           m.step = made + 1, m.step <= m.loop + 1,
           made = 0 \/ answers = 0,
           DoStep(m, made, "running")
    PROVE  /\ IInv'
           /\ r' = NoMove => signals' = m.loop + 1 /\ answers' = 1
<1>1. m.dir \in Dir /\ m.step \in Nat /\ m.loop \in Nat
  BY MoveType
<1>2. Signal(m.dir, m.step) \subseteq 1..4
  BY <1>1, SignalType DEF IInv, TypeOK
<1>3. mode' = mode /\ mode \in DOMAIN Potential /\ signals' = made + 1
  BY DEF DoStep, IInv, TypeOK
<1>4. CASE ~Reached(m)
  <2>1. /\ coils' = Signal(m.dir, m.step)
        /\ r' = [m EXCEPT !.step = @ + 1]
        /\ timer' = "running"
        /\ answers' = IF made = 0 THEN 0 ELSE answers
    BY <1>4 DEF DoStep
  <2>2. r' \in Move /\ r'.step = m.step + 1 /\ r'.loop = m.loop /\ r'.dir = m.dir
    BY <2>1, <1>1, SMT DEF Move
  <2>3. r' # NoMove
    BY <2>2, MoveType
  <2>4. m.step <= m.loop
    BY <1>4, <1>1, SMT DEF Reached
  <2>5. TypeOK'
    BY <2>1, <2>2, <2>4, <1>1, <1>2, <1>3, SMT DEF IInv, TypeOK
  <2>6. r'.step - 1 = m.step
    BY <2>2, <1>1
  <2>7. Signal(r.dir, r.step - 1)' = Signal(m.dir, m.step)
    BY <2>2, <2>6, <1>3, Zenon DEF Signal
  <2>8. answers' = 0 /\ signals' = r'.step - 1
    BY <2>1, <2>6, <1>3, SMT
  <2> QED
    BY <2>1, <2>3, <2>5, <2>7, <2>8 DEF IInv, UnderWay, StoppedIsOff
<1>5. CASE Reached(m)
  <2>1. /\ answers' = (IF made = 0 THEN 0 ELSE answers) + 1
        /\ r' = NoMove
        /\ \/ coils' = Signal(m.dir, m.step) /\ timer' = "running"
           \/ coils' \in {Signal(m.dir, m.step), {}} /\ timer' = "nil"
    BY <1>5 DEF DoStep, DestroyBody
  <2>2. answers' = 1 /\ signals' = m.loop + 1
    BY <2>1, <1>5, <1>1, <1>3, SMT DEF Reached
  <2>3. TypeOK'
    BY <2>1, <2>2, <1>1, <1>2, <1>3, SMT DEF IInv, TypeOK
  <2> QED
    BY <2>1, <2>2, <2>3, SMT DEF IInv, UnderWay, StoppedIsOff
<1> QED BY <1>4, <1>5

\* The movement the timer goes on with is one DoStepIInv is about.
LEMMA Going ==
    ASSUME IInv, r # NoMove
    PROVE  /\ r \in Move /\ signals \in Nat /\ r.step = signals + 1
           /\ r.step <= r.loop + 1 /\ answers = 0 /\ timer = "running"
           /\ signals <= r.loop
<1>1. r \in Move
  BY DEF IInv, TypeOK
<1> QED BY <1>1, MoveType, SMT DEF IInv, TypeOK, UnderWay

LEMMA NextIInv == IInv /\ [Next]_vars => IInv'
<1> SUFFICES ASSUME IInv, [Next]_vars PROVE IInv'
  OBVIOUS
<1>1. ASSUME NEW d \in Dir, NEW n \in Count, Step(d, n) PROVE IInv'
  <2> DEFINE m == [dir |-> d, loop |-> n, step |-> 1]
  <2>1. m \in Move /\ m.step = 0 + 1 /\ m.step <= m.loop + 1
    BY Counts, SMT DEF Move
  <2>2. DoStep(m, 0, "running")
    BY <1>1 DEF Step
  <2> HIDE DEF m
  <2> QED BY <2>1, <2>2, DoStepIInv
<1>2. CASE Tick
  <2>1. CASE r = NoMove
    BY <1>2, <2>1, SMT DEF Tick, IInv, TypeOK, UnderWay, StoppedIsOff
  <2>2. CASE r # NoMove
    <3>1. DoStep(r, signals, "running")
      BY <1>2, <2>2 DEF Tick
    <3> QED BY <3>1, <2>2, Going, DoStepIInv
  <2> QED BY <2>1, <2>2
<1>3. CASE Destroy
  BY <1>3, SMT DEF Destroy, DestroyBody, IInv, TypeOK, UnderWay, StoppedIsOff
<1>4. CASE UNCHANGED vars
  <2>1. TypeOK' /\ StoppedIsOff'
    BY <1>4 DEF vars, IInv, TypeOK, StoppedIsOff
  <2>2. UnderWay'
    BY <1>4, Zenon DEF vars, IInv, UnderWay, Signal
  <2> QED BY <2>1, <2>2 DEF IInv
<1> QED BY <1>1, <1>2, <1>3, <1>4 DEF Next

\* Types, the signals made so far and the idle coils, for every set of counts.
THEOREM StepperInvariance == Spec => []IInv
  BY InitIInv, NextIInv, PTL DEF Spec

\* The state keeps its shape; a movement never steps past its count.
THEOREM StepperTypes == Spec => []TypeOK
<1>1. IInv => TypeOK
  BY DEF IInv
<1> QED BY <1>1, StepperInvariance, PTL

\* No coil is on while the timer is stopped.
THEOREM NoHeating == Spec => []StoppedIsOff
<1>1. IInv => StoppedIsOff
  BY DEF IInv
<1> QED BY <1>1, StepperInvariance, PTL

\* A movement that ends made one signal more than asked for and called its
\* function once; one that is destroyed called it never.
THEOREM CountKept == Spec => Counted
<1> DEFINE Goal == r # NoMove /\ r' = NoMove =>
                     \/ signals' = r.loop + 1 /\ answers' = 1
                     \/ timer' = "nil" /\ signals' <= r.loop /\ answers' = 0
<1>1. IInv /\ [Next]_vars => [Goal]_vars
  <2> SUFFICES ASSUME IInv, Next, r # NoMove, r' = NoMove
               PROVE  \/ signals' = r.loop + 1 /\ answers' = 1
                      \/ timer' = "nil" /\ signals' <= r.loop /\ answers' = 0
    OBVIOUS
  <2>1. ASSUME NEW d \in Dir, NEW n \in Count, Step(d, n) PROVE FALSE
    BY <2>1 DEF Step
  <2>2. CASE Tick
    <3>1. DoStep(r, signals, "running")
      BY <2>2 DEF Tick
    <3> QED BY <3>1, Going, DoStepIInv
  <2>3. CASE Destroy
    BY <2>3, Going DEF Destroy, DestroyBody
  <2> QED BY <2>1, <2>2, <2>3 DEF Next
<1> QED BY <1>1, StepperInvariance, PTL DEF Counted, Spec
\* Each signal of a movement after its first turns the field by one angle, in
\* the direction asked for, however many steps it has.
THEOREM EvenTurns == Spec => Turns
<1> DEFINE Turn == Angle(coils') - Angle(coils)
           Goal == r # NoMove /\ coils' # {} =>
                      Turn % 8 = (IF r.dir = "CW" THEN 0 - Eighths ELSE Eighths) % 8
<1>1. IInv /\ [Next]_vars => [Goal]_vars
  <2> SUFFICES ASSUME IInv, Next, r # NoMove, coils' # {}
               PROVE  Turn % 8 = (IF r.dir = "CW" THEN 0 - Eighths ELSE Eighths) % 8
    OBVIOUS
  <2>1. ASSUME NEW d \in Dir, NEW n \in Count, Step(d, n) PROVE FALSE
    BY <2>1 DEF Step
  <2>2. CASE Tick
    <3>1. coils' = Signal(r.dir, r.step)
      BY <2>2 DEF Tick, DoStep, DestroyBody
    <3>2. coils = Signal(r.dir, r.step - 1)
      BY DEF IInv, UnderWay
    <3>3. r.dir \in Dir /\ r.step - 1 \in Nat /\ (r.step - 1) + 1 = r.step
      BY Going, MoveType, SMT
    <3>4. mode \in DOMAIN Potential
      BY DEF IInv, TypeOK
    <3> QED BY <3>1, <3>2, <3>3, <3>4, OneTurn, Zenon
  <2>3. CASE Destroy
    BY <2>3 DEF Destroy, DestroyBody
  <2> QED BY <2>1, <2>2, <2>3 DEF Next
<1> QED BY <1>1, StepperInvariance, PTL DEF Turns, Spec
=============================================================================
