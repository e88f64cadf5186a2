--------------------------- MODULE CounterProofs ---------------------------
(***************************************************************************)
(* Proofs about Counter, for every length of the second and of the clock   *)
(* and every bound: its types, and that the speed counts the pulses of the *)
(* present second and of none but the last two.                            *)
(***************************************************************************)
EXTENDS Counter, TLAPS

-----------------------------------------------------------------------------
(* Division.                                                               *)

LEMMA DivMod ==
    ASSUME NEW d \in Nat \ {0}, NEW a \in Nat
    PROVE  a \div d \in Nat /\ a % d \in 0..(d - 1) /\ a = d * (a \div d) + (a % d)
OBVIOUS

LEMMA DivModUnique ==
    ASSUME NEW d \in Nat \ {0}, NEW q \in Nat, NEW s \in 0..(d - 1)
    PROVE  (d * q + s) \div d = q /\ (d * q + s) % d = s
OBVIOUS

LEMMA NextMultiple ==
    ASSUME NEW d \in Nat \ {0}, NEW k \in Nat, NEW l \in Nat, d * l < d * k + d
    PROVE  d * l <= d * k
OBVIOUS

\* r and the beginning of a second are whole seconds.
Whole(x) == \E k \in Nat : x = one_second * k

LEMMA RoundFacts ==
    ASSUME NEW t \in Nat
    PROVE  /\ Round(t) \in Nat /\ Round(t) <= t /\ t < Round(t) + one_second
           /\ Whole(Round(t))
<1>1. t \div one_second \in Nat /\ t % one_second \in 0..(one_second - 1)
      /\ t = one_second * (t \div one_second) + (t % one_second)
  BY CounterConstants, DivMod
<1>2. Round(t) = one_second * (t \div one_second)
  BY <1>1, CounterConstants DEF Round
<1>3. Whole(Round(t))
  BY <1>1, <1>2 DEF Whole
<1>4. one_second * (t \div one_second) \in Nat
  BY <1>1, CounterConstants
<1> QED BY <1>1, <1>2, <1>3, <1>4, CounterConstants

\* Of two whole seconds, one less than a second behind the other is not behind.
LEMMA WholeApart ==
    ASSUME NEW x \in Nat, NEW y \in Nat, Whole(x), Whole(y), y < x + one_second
    PROVE  y <= x
<1>1. PICK k \in Nat : x = one_second * k
  BY DEF Whole
<1>2. PICK l \in Nat : y = one_second * l
  BY DEF Whole
<1> QED BY <1>1, <1>2, NextMultiple, CounterConstants

LEMMA ClockFacts ==
    ASSUME NEW t \in Nat
    PROVE  /\ Clock(t) \in 0..(Wrap - 1) /\ Clock(t) \in Nat /\ Epoch(t) \in Nat
           /\ Clock(t) <= t
           /\ t = Wrap * Epoch(t) + Clock(t)
<1>1. Clock(t) \in 0..(Wrap - 1) /\ Epoch(t) \in Nat /\ t = Wrap * Epoch(t) + Clock(t)
  BY CounterConstants, DivMod DEF Clock, Epoch
<1>2. Wrap * Epoch(t) \in Nat
  BY <1>1, CounterConstants
<1> QED BY <1>1, <1>2, CounterConstants

\* A time between the last wrap before t and t has the distance of its clock.
LEMMA SameEpoch ==
    ASSUME NEW p \in Nat, NEW t \in Nat, t - Clock(t) <= p, p <= t
    PROVE  Clock(t) - Clock(p) = t - p
<1> DEFINE e == Wrap * Epoch(t)
           C == Clock(t)
           s == p - e
<1>1. Epoch(t) \in Nat /\ C \in 0..(Wrap - 1) /\ t = e + C
  BY ClockFacts
<1>2. e \in Nat
  BY <1>1, CounterConstants
<1> HIDE DEF e, C
<1>3. s \in 0..(Wrap - 1) /\ p = e + s /\ t - p = C - s
  BY <1>1, <1>2, CounterConstants DEF C
<1> HIDE DEF s
<1>4. Clock(p) = s
  BY <1>1, <1>3, DivModUnique, CounterConstants DEF Clock, e
<1> QED BY <1>3, <1>4 DEF C

LEMMA EpochOfLater ==
    ASSUME NEW p \in Nat, NEW t \in Nat, p <= t, ~(Epoch(p) < Epoch(t))
    PROVE  t - Clock(t) <= p
<1>1. p = Wrap * Epoch(p) + Clock(p) /\ t = Wrap * Epoch(t) + Clock(t)
      /\ Epoch(p) \in Nat /\ Epoch(t) \in Nat /\ Clock(p) \in Nat /\ Clock(t) \in Nat
  BY ClockFacts, CounterConstants
<1>2. Wrap * Epoch(t) <= Wrap * Epoch(p)
  BY <1>1, CounterConstants
<1> QED BY <1>1, <1>2, CounterConstants

\* When p is of the second that runs at t, so is what lies between the two.
LEMMA SameSecond ==
    ASSUME NEW p \in Nat, NEW u \in Nat, NEW t \in Nat, p <= u, u <= t,
           p > t - (Clock(t) % one_second)
    PROVE  /\ Round(Clock(t)) \in Nat /\ Clock(u) \in Nat /\ Whole(Round(Clock(t)))
           /\ Round(Clock(t)) < Clock(u) /\ Clock(u) < Round(Clock(t)) + one_second
           /\ Round(Clock(t)) <= Round(Clock(u))
<1> DEFINE C == Clock(t)
           m == C % one_second
           R == Round(C)
           K == Clock(u)
<1>1. C \in Nat /\ K \in Nat /\ C <= t
  BY ClockFacts
<1>2. m \in Nat /\ R = C - m
  <2>1. one_second \in Nat \ {0} /\ C \in Nat
    BY <1>1, CounterConstants
  <2> HIDE DEF C
  <2>2. C % one_second \in 0..(one_second - 1)
    BY <2>1, DivMod
  <2>3. R = C - m
    BY DEF Round
  <2> QED  BY <2>1, <2>2, <2>3
<1>3. R \in Nat /\ R <= C /\ C < R + one_second /\ Whole(R)
  BY <1>1, RoundFacts
<1>4. p > t - m
  OBVIOUS
<1> HIDE DEF C, m, R
<1>5. t - C <= u
  BY <1>1, <1>2, <1>3, <1>4
<1>6. C - K = t - u
  BY <1>5, SameEpoch DEF C
<1> HIDE DEF K
<1>7. R < K /\ K < R + one_second
  BY <1>1, <1>2, <1>3, <1>4, <1>6, CounterConstants
<1>8. Round(K) \in Nat /\ K < Round(K) + one_second /\ Whole(Round(K))
  BY <1>1, RoundFacts
<1>9. R < Round(K) + one_second
  BY <1>1, <1>3, <1>7, <1>8, CounterConstants
<1>10. R <= Round(K)
  BY <1>3, <1>8, <1>9, WholeApart
<1> QED BY <1>1, <1>3, <1>7, <1>10 DEF R, C, K

-----------------------------------------------------------------------------
(* The queue.                                                              *)

Edges == [when : Nat, level : 0..1]

LEMMA TailFacts ==
    ASSUME NEW S, NEW s \in Seq(S), s # <<>>
    PROVE  /\ Head(s) \in S /\ Head(s) = s[1] /\ 1 \in 1..Len(s)
           /\ Tail(s) \in Seq(S)
           /\ Len(s) \in Nat /\ Len(Tail(s)) = Len(s) - 1
           /\ \A j \in 1..Len(Tail(s)) : Tail(s)[j] = s[j + 1]
OBVIOUS

LEMMA AppendFacts ==
    ASSUME NEW S, NEW s \in Seq(S), NEW e \in S
    PROVE  /\ Append(s, e) \in Seq(S)
           /\ Len(s) \in Nat /\ Len(Append(s, e)) = Len(s) + 1
           /\ \A j \in 1..Len(s) : Append(s, e)[j] = s[j]
           /\ Append(s, e)[Len(s) + 1] = e
OBVIOUS

LEMMA QueueFacts ==
    ASSUME TypeOK
    PROVE  /\ queue \in Seq(Edges)
           /\ \A j \in 1..Len(queue) : queue[j].when \in Nat
<1>1. queue \in Seq(Edges)
  BY DEF TypeOK, Edges
<1>2. \A j \in 1..Len(queue) : queue[j] \in Edges
  BY <1>1
<1>3. \A e \in Edges : e.when \in Nat
  BY DEF Edges
<1> QED BY <1>1, <1>2, <1>3

-----------------------------------------------------------------------------
(* The invariant.                                                          *)

\* The pulses and then the edges that wait come in the order of their times.
Ordered ==
    /\ \A i, j \in 1..n : i <= j => pulses[i] <= pulses[j]
    /\ \A i, j \in 1..Len(queue) : i <= j => queue[i].when <= queue[j].when
    /\ \A i \in 1..n, j \in 1..Len(queue) : pulses[i] <= queue[j].when
    /\ \A i \in 1..n : pulses[i] <= now
    /\ \A j \in 1..Len(queue) : queue[j].when <= now

\* The window begins with a whole second, not after its first pulse, and has one.
WindowBegins ==
    /\ Whole(r)
    /\ n = 0 => r = 0
    /\ n > 0 => c < n /\ r <= Clock(pulses[c + 1])

\* Seen from any time at or after the last pulse, a pulse of the second then
\* running is in the window, and the window has not begun before that second.
WindowKeeps ==
    \A i \in 1..n, t \in Nat :
        pulses[n] <= t /\ pulses[i] > t - (Clock(t) % one_second)
            => i > c /\ Round(Clock(t)) <= r

IInv == TypeOK /\ Ordered /\ WindowBegins /\ WindowKeeps

LEMMA InitIInv == Init => IInv
<1> SUFFICES ASSUME Init PROVE IInv
  OBVIOUS
<1>1. TypeOK
  BY CounterConstants DEF Init, TypeOK
<1>2. Ordered
  BY DEF Init, Ordered
<1>3. Whole(0)
  BY CounterConstants DEF Whole
<1>4. WindowBegins /\ WindowKeeps
  BY <1>3 DEF Init, WindowBegins, WindowKeeps
<1> QED BY <1>1, <1>2, <1>4 DEF IInv

\* A pulse is counted: time is that of the edge at the head of the queue.
LEMMA IncrKeeps ==
    ASSUME IInv, queue # <<>>, Incr(Clock(Head(queue).when)),
           pulses' = Append(pulses, Head(queue).when), queue' = Tail(queue), now' = now
    PROVE  IInv'
<1> DEFINE T == Head(queue).when
           K == Clock(T)
<1>1. T \in Nat /\ T <= now /\ T = queue[1].when /\ 1 \in 1..Len(queue)
  <2>1. queue \in Seq(Edges) /\ \A j \in 1..Len(queue) : queue[j].when \in Nat
    BY QueueFacts DEF IInv
  <2>2. T = queue[1].when /\ 1 \in 1..Len(queue)
    BY <2>1, TailFacts
  <2> QED BY <2>1, <2>2 DEF IInv, Ordered
<1>2. \A i \in 1..n : pulses[i] <= T
  BY <1>1 DEF IInv, Ordered
<1>3. K \in 0..(Wrap - 1) /\ K \in Nat
  BY <1>1, ClockFacts, CounterConstants
<1>4. /\ n \in Nat /\ c \in 0..n /\ r \in Nat /\ r < Wrap /\ n' = n + 1
      /\ pulses \in Seq(Nat) /\ Len(pulses) = n
      /\ IF r + one_second < K THEN c' = n /\ r' = Round(K) ELSE c' = c /\ r' = r
  BY CounterConstants DEF IInv, TypeOK, Incr, Moved
<1>5. /\ Round(K) \in Nat /\ Round(K) <= K /\ K < Round(K) + one_second /\ Whole(Round(K))
  BY <1>3, RoundFacts
<1> HIDE DEF K, T
<1>6. /\ pulses' \in Seq(Nat) /\ Len(pulses') = n + 1 /\ pulses'[n + 1] = T
      /\ \A i \in 1..n : pulses'[i] = pulses[i]
  BY <1>1, <1>4 DEF T
<1>7. TypeOK'
  <2>1. queue' \in Seq([when : Nat, level : 0..1])
    BY QueueFacts, TailFacts DEF IInv, Edges
  <2>2. c' \in 0..n' /\ r' \in 0..(Wrap - 1)
    BY <1>3, <1>4, <1>5, CounterConstants
  <2> QED BY <1>4, <1>6, <2>1, <2>2 DEF IInv, TypeOK
<1>8. Ordered'
  <2>1. /\ Len(queue') = Len(queue) - 1 /\ Len(queue) \in Nat
        /\ \A j \in 1..Len(queue') : queue'[j] = queue[j + 1]
    BY QueueFacts, TailFacts DEF IInv
  <2>2. \A j \in 1..Len(queue) : queue[j].when \in Nat /\ T <= queue[j].when
    BY <1>1, QueueFacts DEF IInv, Ordered
  <2>3. \A i \in 1..n : pulses[i] \in Nat
    BY <1>4
  <2>4. \A i, j \in 1..n' : i <= j => pulses'[i] <= pulses'[j]
    <3> SUFFICES ASSUME NEW i \in 1..n', NEW j \in 1..n', i <= j PROVE pulses'[i] <= pulses'[j]
      OBVIOUS
    <3>1. CASE j = n + 1
      BY <3>1, <1>1, <1>2, <1>4, <1>6, <2>3
    <3>2. CASE j # n + 1
      BY <3>2, <1>4, <1>6 DEF IInv, Ordered
    <3> QED BY <3>1, <3>2
  <2>5. \A i, j \in 1..Len(queue') : i <= j => queue'[i].when <= queue'[j].when
    BY <2>1 DEF IInv, Ordered
  <2>6. \A i \in 1..n', j \in 1..Len(queue') : pulses'[i] <= queue'[j].when
    <3> SUFFICES ASSUME NEW i \in 1..n', NEW j \in 1..Len(queue')
                 PROVE  pulses'[i] <= queue'[j].when
      OBVIOUS
    <3>1. j + 1 \in 1..Len(queue) /\ queue'[j] = queue[j + 1]
      BY <2>1
    <3>2. CASE i = n + 1
      BY <3>1, <3>2, <1>6, <2>2
    <3>3. CASE i # n + 1
      BY <3>1, <3>3, <1>4, <1>6, SMTT(30) DEF IInv, Ordered
    <3> QED BY <3>2, <3>3
  <2>7. \A i \in 1..n' : pulses'[i] <= now'
    <3> SUFFICES ASSUME NEW i \in 1..n' PROVE pulses'[i] <= now'
      OBVIOUS
    <3>1. CASE i = n + 1
      BY <3>1, <1>1, <1>6
    <3>2. CASE i # n + 1
      BY <3>2, <1>4, <1>6 DEF IInv, Ordered
    <3> QED BY <3>1, <3>2
  <2>8. \A j \in 1..Len(queue') : queue'[j].when <= now'
    BY <2>1 DEF IInv, Ordered
  <2> QED BY <2>4, <2>5, <2>6, <2>7, <2>8 DEF Ordered
<1>9. WindowBegins'
  <2>1. Whole(r')
    BY <1>4, <1>5, Zenon DEF IInv, WindowBegins
  <2>2. c' < n' /\ r' <= Clock(pulses'[c' + 1])
    <3>1. CASE r + one_second < K
      BY <3>1, <1>4, <1>5, <1>6 DEF K
    <3>2. CASE ~(r + one_second < K) /\ n > 0
      <4>1. c < n /\ r <= Clock(pulses[c + 1]) /\ c + 1 \in 1..n
        BY <3>2, <1>4 DEF IInv, WindowBegins
      <4> QED BY <3>2, <4>1, <1>4, <1>6
    <3>3. CASE ~(r + one_second < K) /\ n = 0
      BY <3>3, <1>3, <1>4, <1>6 DEF IInv, WindowBegins, K
    <3> QED BY <3>1, <3>2, <3>3, <1>4
  <2> QED BY <2>1, <2>2, <1>4 DEF WindowBegins, Whole
<1>10. WindowKeeps'
  <2> SUFFICES ASSUME NEW i \in 1..n', NEW t \in Nat, pulses'[n'] <= t,
                      pulses'[i] > t - (Clock(t) % one_second)
               PROVE  i > c' /\ Round(Clock(t)) <= r'
    BY DEF WindowKeeps
  <2> DEFINE R == Round(Clock(t))
  <2>1. T <= t
    BY <1>4, <1>6
  <2>2. pulses'[i] \in Nat /\ pulses'[i] <= T
    BY <1>1, <1>2, <1>4, <1>6
  <2>3. /\ R \in Nat /\ Whole(R)
        /\ R < K /\ K < R + one_second /\ R <= Round(K)
    <3> DEFINE p == pulses'[i]
    <3>1. p > t - (Clock(t) % one_second) /\ p \in Nat /\ p <= T
      BY <2>2
    <3> HIDE DEF p
    <3> QED BY <1>1, <2>1, <3>1, SameSecond DEF K
  <2> HIDE DEF R
  <2>7. CASE i = n + 1
    <3>1. CASE r + one_second < K
      BY <3>1, <2>7, <1>4, <2>3 DEF R
    <3>2. CASE ~(r + one_second < K)
      <4>1. R < r + one_second
        BY <3>2, <1>3, <1>4, <2>3, CounterConstants
      <4>2. R <= r
        BY <4>1, <1>4, <2>3, WholeApart DEF IInv, WindowBegins
      <4> QED BY <4>2, <3>2, <2>7, <1>4 DEF R
    <3> QED BY <3>1, <3>2
  <2>8. CASE i # n + 1
    <3>1. i \in 1..n /\ pulses'[i] = pulses[i] /\ n \in 1..n
      BY <2>8, <1>4, <1>6
    <3>2. pulses[n] <= t
      BY <3>1, <1>1, <1>2, <1>4, <2>1
    <3>3. i > c /\ R <= r
      BY <3>1, <3>2 DEF IInv, WindowKeeps, R
    <3>4. ~(r + one_second < K)
      BY <3>3, <1>3, <1>4, <2>3, CounterConstants
    <3> QED BY <3>3, <3>4, <1>4 DEF R
  <2> QED BY <2>7, <2>8
<1> QED BY <1>7, <1>8, <1>9, <1>10 DEF IInv

LEMMA ClearedKeeps ==
    ASSUME IInv, Cleared, now' = now, queue' = queue \/ (queue # <<>> /\ queue' = Tail(queue))
    PROVE  IInv'
<1>1. /\ n' = 0 /\ r' = 0 /\ c' = 0 /\ pulses' = <<>>
  BY DEF Cleared
<1>2. queue' \in Seq([when : Nat, level : 0..1])
  BY QueueFacts, TailFacts DEF IInv, Edges
<1>3. TypeOK'
  BY <1>1, <1>2, CounterConstants DEF IInv, TypeOK
<1>4. Ordered'
  <2>1. CASE queue' = queue
    BY <2>1, <1>1 DEF IInv, Ordered
  <2>2. CASE queue # <<>> /\ queue' = Tail(queue)
    <3>1. /\ Len(queue') = Len(queue) - 1 /\ Len(queue) \in Nat
          /\ \A j \in 1..Len(queue') : queue'[j] = queue[j + 1]
      BY <2>2, QueueFacts, TailFacts DEF IInv
    <3>2. \A j \in 1..Len(queue') : j + 1 \in 1..Len(queue)
      BY <3>1
    <3>3. \A i, j \in 1..Len(queue') : i <= j => queue'[i].when <= queue'[j].when
      <4> TAKE i, j \in 1..Len(queue')
      <4>1. i <= j => i + 1 <= j + 1
        OBVIOUS
      <4>2. i + 1 \in 1..Len(queue) /\ j + 1 \in 1..Len(queue)
        BY <3>2
      <4> QED BY <3>1, <4>1, <4>2 DEF IInv, Ordered
    <3>4. \A j \in 1..Len(queue') : queue'[j].when <= now'
      BY <3>1, <3>2 DEF IInv, Ordered
    <3> QED BY <3>3, <3>4, <1>1 DEF Ordered
  <2> QED BY <2>1, <2>2
<1>5. Whole(0)
  BY CounterConstants DEF Whole
<1>6. WindowBegins' /\ WindowKeeps'
  BY <1>1, <1>5 DEF WindowBegins, WindowKeeps, Whole
<1> QED BY <1>3, <1>4, <1>6 DEF IInv

LEMMA NextIInv == IInv /\ [Next]_vars => IInv'
<1> SUFFICES ASSUME IInv, [Next]_vars PROVE IInv'
  OBVIOUS
<1>1. CASE Pass
  <2>1. /\ now' \in Nat /\ now <= now'
        /\ queue' = queue /\ n' = n /\ r' = r /\ c' = c /\ pulses' = pulses
    BY <1>1, CounterConstants DEF Pass, IInv, TypeOK
  <2>2. TypeOK'
    BY <2>1 DEF IInv, TypeOK
  <2>3. Ordered'
    <3>1. now \in Nat /\ \A i \in 1..n : pulses[i] \in Nat
      BY DEF IInv, TypeOK
    <3>2. \A j \in 1..Len(queue) : queue[j].when \in Nat
      BY QueueFacts DEF IInv
    <3> QED BY <2>1, <3>1, <3>2 DEF IInv, Ordered
  <2>4. WindowBegins' /\ WindowKeeps'
    BY <2>1 DEF IInv, WindowBegins, WindowKeeps, Whole
  <2> QED BY <2>2, <2>3, <2>4 DEF IInv
<1>2. CASE Edge
  <2>1. PICK level \in 0..1 : queue' = Append(queue, [when |-> now, level |-> level])
    BY <1>2 DEF Edge
  <2>2. now' = now /\ n' = n /\ r' = r /\ c' = c /\ pulses' = pulses
    BY <1>2 DEF Edge
  <2>3. [when |-> now, level |-> level] \in [when : Nat, level : 0..1]
    BY DEF IInv, TypeOK
  <2>4. /\ Len(queue) \in Nat /\ Len(queue') = Len(queue) + 1
        /\ queue'[Len(queue) + 1].when = now
        /\ \A j \in 1..Len(queue) : queue'[j] = queue[j]
        /\ queue' \in Seq([when : Nat, level : 0..1])
    <3>1. queue \in Seq(Edges) /\ [when |-> now, level |-> level] \in Edges
      BY <2>3, QueueFacts DEF IInv, Edges
    <3>2. queue' \in Seq(Edges)
      BY <2>1, <3>1, AppendFacts
    <3> QED BY <2>1, <3>1, <3>2, AppendFacts DEF Edges
  <2>5. TypeOK'
    BY <2>2, <2>4 DEF IInv, TypeOK
  <2>6. \A j \in 1..Len(queue') :
            \/ j \in 1..Len(queue) /\ queue'[j].when = queue[j].when
            \/ j = Len(queue) + 1 /\ queue'[j].when = now
    <3> TAKE j \in 1..Len(queue')
    <3>1. CASE j = Len(queue) + 1
      BY <3>1, <2>4
    <3>2. CASE j # Len(queue) + 1
      <4>1. j \in 1..Len(queue)
        BY <3>2, <2>4
      <4> QED BY <4>1, <2>4
    <3> QED BY <3>1, <3>2
  <2>7. Ordered'
    <3>1. now \in Nat
      BY DEF IInv, TypeOK
    <3>2. \A i, j \in 1..Len(queue') : i <= j => queue'[i].when <= queue'[j].when
      <4> SUFFICES ASSUME NEW i \in 1..Len(queue'), NEW j \in 1..Len(queue'), i <= j
                   PROVE  queue'[i].when <= queue'[j].when
        OBVIOUS
      <4>1. CASE j \in 1..Len(queue)
        <5>1. i \in 1..Len(queue) /\ i # Len(queue) + 1 /\ j # Len(queue) + 1
          BY <4>1, <2>4
        <5>2. queue'[i].when = queue[i].when /\ queue'[j].when = queue[j].when
          BY <5>1, <2>6
        <5> QED BY <4>1, <5>1, <5>2 DEF IInv, Ordered
      <4>2. CASE j = Len(queue) + 1
        <5>1. queue'[j].when = now
          BY <4>2, <2>4
        <5>2. queue'[i].when <= now
          BY <2>6, <3>1 DEF IInv, Ordered
        <5> QED BY <5>1, <5>2
      <4> QED BY <2>6, <4>1, <4>2
    <3>3. \A i \in 1..n, j \in 1..Len(queue') : pulses[i] <= queue'[j].when
      BY <2>4, <2>6 DEF IInv, Ordered
    <3>4. \A j \in 1..Len(queue') : queue'[j].when <= now
      BY <2>4, <2>6, <3>1 DEF IInv, Ordered
    <3> QED BY <2>2, <3>2, <3>3, <3>4 DEF IInv, Ordered
  <2>8. WindowBegins' /\ WindowKeeps'
    BY <2>2 DEF IInv, WindowBegins, WindowKeeps, Whole
  <2> QED BY <2>5, <2>7, <2>8 DEF IInv
<1>3. CASE Trigger
  <2>1. queue # <<>> /\ queue' = Tail(queue) /\ now' = now
    BY <1>3 DEF Trigger
  <2>2. Head(queue) \in [when : Nat, level : 0..1]
    BY <2>1, QueueFacts, TailFacts DEF IInv, Edges
  <2>3. CASE Head(queue).level = 0
    <3>1. n' = n /\ r' = r /\ c' = c /\ pulses' = pulses
      BY <1>3, <2>3, SMT DEF Trigger
    <3>2. /\ Len(queue') = Len(queue) - 1 /\ Len(queue) \in Nat
          /\ \A j \in 1..Len(queue') : queue'[j] = queue[j + 1]
          /\ queue' \in Seq([when : Nat, level : 0..1])
      BY <2>1, QueueFacts, TailFacts DEF IInv, Edges
    <3>3. TypeOK' /\ WindowBegins' /\ WindowKeeps'
      BY <2>1, <3>1, <3>2 DEF IInv, TypeOK, WindowBegins, WindowKeeps, Whole
    <3>4. Ordered'
      BY <2>1, <3>1, <3>2 DEF IInv, Ordered
    <3> QED BY <3>3, <3>4 DEF IInv
  <2>4. CASE Head(queue).level = 1 /\ Incr(Clock(Head(queue).when))
             /\ pulses' = Append(pulses, Head(queue).when)
    BY <2>1, <2>4, IncrKeeps
  <2>5. CASE Cleared
    BY <2>1, <2>5, ClearedKeeps
  <2>6. Head(queue).level = 0 \/ Head(queue).level = 1
    BY <2>2
  <2> QED BY <1>3, <2>3, <2>4, <2>5, <2>6 DEF Trigger
<1>4. CASE Reset
  BY <1>4, ClearedKeeps DEF Reset
<1>5. CASE UNCHANGED vars
  BY <1>5 DEF vars, IInv, TypeOK, Ordered, WindowBegins, WindowKeeps, Whole
<1> QED BY <1>1, <1>2, <1>3, <1>4, <1>5 DEF Next

\* What is in the invariant in every reachable state.
THEOREM Invariance == Spec => []IInv
<1> QED BY InitIInv, NextIInv, PTL DEF Spec

-----------------------------------------------------------------------------
(* What it implies.                                                        *)

\* The types of counter.lua's variables, and that the count of the speed is
\* never ahead of the count (lines 32 to 64).
THEOREM TypeCorrect == Spec => []TypeOK
<1>1. IInv => TypeOK
  BY DEF IInv
<1> QED BY <1>1, Invariance, PTL

LEMMA SpeedCounts ==
    ASSUME IInv, NEW i \in Counted
    PROVE  /\ i \in 1..n /\ i > c /\ n > 0
           /\ Round(Clock(now)) <= r + one_second
<1>1. n \in Nat /\ c \in 0..n /\ Speed \in {0, n - c}
  BY DEF IInv, TypeOK, Speed
<1>2. Speed # 0
  BY <1>1 DEF Counted
<1>3. ~(r + one_second < Round(Clock(now)))
  BY <1>2 DEF Speed
<1>4. r \in Nat /\ now \in Nat /\ Clock(now) \in Nat /\ Round(Clock(now)) \in Nat
  <2>1. r \in Nat /\ now \in Nat
    BY CounterConstants DEF IInv, TypeOK
  <2>2. Clock(now) \in Nat
    BY <2>1, ClockFacts
  <2> QED BY <2>1, <2>2, RoundFacts
<1> QED BY <1>1, <1>2, <1>3, <1>4, CounterConstants DEF Counted

LEMMA Recent == IInv => SpeedIsRecent
<1> SUFFICES ASSUME IInv, NEW i \in Counted, ~(Epoch(pulses[c + 1]) < Epoch(now))
             PROVE  pulses[i] > now - 2 * one_second
  BY DEF SpeedIsRecent
<1> DEFINE p == pulses[c + 1]
<1>1. n \in Nat /\ c \in Nat /\ c + 1 \in 1..n /\ i \in 1..n /\ c + 1 <= i
      /\ Round(Clock(now)) <= r + one_second
  BY SpeedCounts DEF IInv, TypeOK
<1>2. p \in Nat /\ p <= pulses[i] /\ pulses[i] \in Nat /\ p <= now /\ now \in Nat /\ r \in Nat
  BY <1>1, CounterConstants DEF IInv, TypeOK, Ordered
<1>3. r <= Clock(p)
  BY <1>1 DEF IInv, WindowBegins
<1> HIDE DEF p
<1>4. Clock(now) - Clock(p) = now - p
  BY <1>2, EpochOfLater, SameEpoch DEF p
<1>5. Clock(now) \in Nat /\ Clock(p) \in Nat
  BY <1>2, ClockFacts, CounterConstants
<1>6. Round(Clock(now)) \in Nat /\ Clock(now) < Round(Clock(now)) + one_second
  BY <1>5, RoundFacts
<1> QED BY <1>1, <1>2, <1>3, <1>4, <1>5, <1>6, CounterConstants DEF p

\* speed counts no pulse older than two seconds, unless the clock wrapped.
THEOREM SpeedRecent == Spec => []SpeedIsRecent
<1> QED BY Recent, Invariance, PTL

LEMMA Complete == IInv => SpeedIsComplete
<1> SUFFICES ASSUME IInv, NEW i \in 1..n, pulses[i] > now - (Clock(now) % one_second)
             PROVE  i \in Counted
  BY DEF SpeedIsComplete
<1>1. n \in Nat /\ c \in 0..n /\ r \in Nat /\ now \in Nat
  BY CounterConstants DEF IInv, TypeOK
<1>2. pulses[n] <= now
  BY <1>1 DEF IInv, Ordered
<1>3. i > c /\ Round(Clock(now)) <= r
  BY <1>1, <1>2 DEF IInv, WindowKeeps
<1>4. Round(Clock(now)) \in Nat
  BY <1>1, RoundFacts, ClockFacts, CounterConstants
<1>5. Speed = n - c
  BY <1>1, <1>3, <1>4, CounterConstants DEF Speed
<1> QED BY <1>1, <1>3, <1>5 DEF Counted

\* speed leaves out no pulse of the present second, the clock wrapping or not.
THEOREM SpeedComplete == Spec => []SpeedIsComplete
<1> QED BY Complete, Invariance, PTL
=============================================================================
