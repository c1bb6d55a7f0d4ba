----------------------------- MODULE TimerProofs -----------------------------
(***************************************************************************)
(* Proofs about Timer, for any number of timers, any even modulus and any  *)
(* timeouts that fit the window of the signed comparison: the order of the *)
(* tree is that of the true times, the wait counted from timers->now       *)
(* reaches past no deadline, and the timers implement DeadlineQueue.       *)
(***************************************************************************)
EXTENDS Timer, TLAPS

-----------------------------------------------------------------------------
(* Arithmetic of 32 bits *)

Half == Modulus \div 2

\* The modulus is twice its half.
LEMMA HalfIsHalf == Half \in Nat /\ Half > 0 /\ Modulus = 2 * Half
  BY ModulusAssumption DEF Half

\* A number and what is left of it differ by a multiple of the modulus,
LEMMA CutIs ==
  ASSUME NEW n \in Int
  PROVE  /\ Cut(n) \in Times
         /\ \E q \in Int : n = q * Modulus + Cut(n)
<1>1. n = (n \div Modulus) * Modulus + Cut(n)
  BY ModulusAssumption DEF Cut
<1>2. n \div Modulus \in Int
  BY ModulusAssumption
<1>3. Cut(n) \in Times
  BY ModulusAssumption DEF Cut, Times
<1> QED BY <1>1, <1>2, <1>3

\* and only one number of 32 bits does.
LEMMA CutUnique ==
  ASSUME NEW q \in Int, NEW r \in Times
  PROVE  Cut(q * Modulus + r) = r
  BY ModulusAssumption DEF Cut, Times

\* A multiple of the modulus does not show.
LEMMA CutShift ==
  ASSUME NEW n \in Int, NEW q \in Int
  PROVE  Cut(n + q * Modulus) = Cut(n)
<1>1. PICK p \in Int : n = p * Modulus + Cut(n)
  BY CutIs
<1>2. Cut(n) \in Times /\ Cut(n) \in Int /\ Modulus \in Int
  BY CutIs, ModulusAssumption DEF Times
<1>3. n + q * Modulus = (p + q) * Modulus + Cut(n)
  <2>1. (p + q) * Modulus = p * Modulus + q * Modulus
    BY <1>2
  <2>2. p * Modulus \in Int /\ q * Modulus \in Int
    BY <1>2
  <2> QED BY <1>1, <1>2, <2>1, <2>2
<1>4. Cut((p + q) * Modulus + Cut(n)) = Cut(n)
  <2> DEFINE s == p + q
             r == Cut(n)
  <2>1. s \in Int /\ r \in Times
    BY <1>2
  <2> HIDE DEF s, r
  <2>2. Cut(s * Modulus + r) = r
    BY <2>1, CutUnique
  <2> QED BY <2>2 DEF s, r
<1> QED BY <1>3, <1>4

\* A sum or a difference may be cut before or after.
LEMMA CutFirst ==
  ASSUME NEW a \in Int, NEW b \in Int
  PROVE  /\ Cut(Cut(a) + b) = Cut(a + b)
         /\ Cut(Cut(a) - b) = Cut(a - b)
         /\ Cut(Cut(a) - Cut(b)) = Cut(a - b)
<1>1. PICK p \in Int : a = p * Modulus + Cut(a)
  BY CutIs
<1>2. PICK q \in Int : b = q * Modulus + Cut(b)
  BY CutIs
<1>3. Cut(a) \in Int /\ Cut(b) \in Int /\ Modulus \in Int
  BY CutIs, ModulusAssumption DEF Times
<1>4. p * Modulus \in Int /\ q * Modulus \in Int
  BY <1>3
<1>5. Cut(a) + b = a + b + (-p) * Modulus /\ Cut(a) - b = a - b + (-p) * Modulus
  <2>1. (-p) * Modulus = -(p * Modulus)
    BY <1>3
  <2> QED BY <1>1, <1>3, <1>4, <2>1
<1>6. Cut(a) - Cut(b) = a - b + (q - p) * Modulus
  <2>1. (q - p) * Modulus = q * Modulus - p * Modulus
    BY <1>3
  <2> DEFINE x == Cut(a)
             y == Cut(b)
             i == p * Modulus
             j == q * Modulus
             d == (q - p) * Modulus
  <2>2. /\ x \in Int /\ y \in Int /\ i \in Int /\ j \in Int
        /\ a = i + x /\ b = j + y /\ d = j - i
    BY <1>1, <1>2, <1>3, <1>4, <2>1
  <2> HIDE DEF x, y, i, j, d
  <2>3. x - y = a - b + d
    BY <2>2
  <2> QED BY <2>3 DEF x, y, i, j, d
<1>7. ASSUME NEW n \in Int, NEW i \in Int, NEW c, c = n + i * Modulus
      PROVE  Cut(c) = Cut(n)
  BY <1>7, CutShift
<1>8. -p \in Int /\ q - p \in Int /\ a + b \in Int /\ a - b \in Int
  OBVIOUS
<1>9. Cut(Cut(a) + b) = Cut(a + b)
  BY ONLY <1>5, <1>7, <1>8
<1>10. Cut(Cut(a) - b) = Cut(a - b)
  BY ONLY <1>5, <1>7, <1>8
<1>11. Cut(Cut(a) - Cut(b)) = Cut(a - b)
  BY ONLY <1>6, <1>7, <1>8
<1> QED BY <1>9, <1>10, <1>11

\* As long as they are less than half the modulus apart, the sign of the
\* difference of two times in 32 bits is that of their true difference.
LEMMA DiffIsTrue ==
  ASSUME NEW a \in Int, NEW b \in Int, -Half <= a - b, a - b < Half
  PROVE  Diff(Cut(a), Cut(b)) = a - b
<1>1. Cut(Cut(a) - Cut(b)) = Cut(a - b)
  BY CutFirst
<1>2. CASE a - b >= 0
  <2>1. a - b \in Times
    BY <1>2, HalfIsHalf DEF Times
  <2>2. Cut(0 * Modulus + (a - b)) = a - b
    BY <2>1, CutUnique
  <2>3. Cut(a - b) = a - b
    BY <2>2, ModulusAssumption
  <2> QED BY <1>1, <1>2, <2>3 DEF Diff, Half
<1>3. CASE a - b < 0
  <2>1. a - b + Modulus \in Times
    BY <1>3, HalfIsHalf DEF Times
  <2>2. Cut((-1) * Modulus + (a - b + Modulus)) = a - b + Modulus
    BY <2>1, CutUnique
  <2>3. (-1) * Modulus + (a - b + Modulus) = a - b
    BY ModulusAssumption
  <2>4. ~(a - b + Modulus < Half)
    BY <1>3, HalfIsHalf
  <2> QED BY <1>1, <1>3, <2>2, <2>3, <2>4, ModulusAssumption DEF Diff, Half
<1> QED BY <1>2, <1>3
-----------------------------------------------------------------------------
(* The inductive invariant *)

\* What is in the tree has its true time cut to 32 bits; that lies at most
\* MaxLag behind the clock, and at most a timeout after it was last read.
TreeOK ==
  \A k \in tree : /\ time[k] = Cut(due[k])
                  /\ clock <= due[k] + MaxLag
                  /\ \E t \in Timeouts : due[k] <= seen + t

ClockOK == now = Cut(seen) /\ seen <= clock

\* While the thread waits, minimum is no later than any armed timer, and not
\* far behind the clock as it was last read.
MinimumOK ==
  polling /\ Armed # {} =>
    \E m \in Int : /\ minimum = Cut(m)
                   /\ seen <= m + Bias + MaxLag
                   /\ \A k \in Armed : m + Bias <= due[k]

IInv == TypeOK /\ TreeOK /\ ClockOK /\ MinimumOK /\ SleepsNoLonger

-----------------------------------------------------------------------------
(* What the comparison of two times of the tree, or of one with the clock,  *)
(* gives                                                                    *)

\* The true times of two timers in the tree are less than half the modulus
\* apart, and so are each of them and the clock, now or when it was last read.
LEMMA TreeDiffs ==
  ASSUME IInv
  PROVE  /\ \A j, k \in tree : Diff(time[j], time[k]) = due[j] - due[k]
         /\ \A k \in tree : Diff(time[k], Cut(clock)) = due[k] - clock
         /\ \A k \in tree : Diff(time[k], now) = due[k] - seen
<1>1. Half \in Nat /\ MaxLag \in Nat
  BY HalfIsHalf, ClockAssumption
<1>2. \A t \in Timeouts : t \in Nat /\ t + MaxLag < Half
  BY TimeoutsAssumption, WindowAssumption DEF Half
<1>3. clock \in Nat /\ seen \in Nat /\ \A k \in tree : due[k] \in Nat
  BY DEF IInv, TypeOK
<1>4. ASSUME NEW j \in tree, NEW k \in tree
      PROVE  Diff(time[j], time[k]) = due[j] - due[k]
  <2>1. -Half <= due[j] - due[k] /\ due[j] - due[k] < Half
    BY <1>1, <1>2, <1>3 DEF IInv, TreeOK, ClockOK
  <2> QED BY <1>3, <2>1, DiffIsTrue DEF IInv, TreeOK
<1>5. ASSUME NEW k \in tree
      PROVE  Diff(time[k], Cut(clock)) = due[k] - clock
  <2>1. -Half <= due[k] - clock /\ due[k] - clock < Half
    BY <1>1, <1>2, <1>3 DEF IInv, TreeOK, ClockOK
  <2> QED BY <1>3, <2>1, DiffIsTrue DEF IInv, TreeOK
<1>6. ASSUME NEW k \in tree
      PROVE  Diff(time[k], now) = due[k] - seen
  <2>1. -Half <= due[k] - seen /\ due[k] - seen < Half
    BY <1>1, <1>2, <1>3 DEF IInv, TreeOK, ClockOK
  <2> QED BY <1>3, <2>1, DiffIsTrue DEF IInv, TreeOK, ClockOK
<1> QED BY <1>4, <1>5, <1>6

\* A time to arm for, against that of a timer in the tree.
LEMMA NewTime ==
  ASSUME IInv, NEW timeout \in Timeouts
  PROVE  LET t == Cut(Cut(clock) + timeout)
         IN  /\ t = Cut(clock + timeout)
             /\ \A k \in tree : Diff(t, time[k]) = clock + timeout - due[k]
<1>1. Half \in Nat /\ MaxLag \in Nat
  BY HalfIsHalf, ClockAssumption
<1>2. \A u \in Timeouts : u \in Nat /\ u + MaxLag < Half
  BY TimeoutsAssumption, WindowAssumption DEF Half
<1>3. clock \in Nat /\ seen \in Nat /\ \A k \in tree : due[k] \in Nat
  BY DEF IInv, TypeOK
<1>4. Cut(Cut(clock) + timeout) = Cut(clock + timeout)
  BY <1>2, <1>3, CutFirst
<1>5. ASSUME NEW k \in tree
      PROVE  Diff(Cut(clock + timeout), time[k]) = clock + timeout - due[k]
  <2>1. -Half <= clock + timeout - due[k] /\ clock + timeout - due[k] < Half
    BY <1>1, <1>2, <1>3 DEF IInv, TreeOK, ClockOK
  <2>2. time[k] = Cut(due[k])
    BY DEF IInv, TreeOK
  <2> QED BY <1>2, <1>3, <2>1, <2>2, DiffIsTrue
<1> QED BY <1>4, <1>5

-----------------------------------------------------------------------------
(* The invariant is inductive *)

LEMMA InitKeeps == Init => IInv
<1> SUFFICES ASSUME Init PROVE IInv
  OBVIOUS
<1>1. Cut(0) = 0 /\ 0 \in Times
  BY ModulusAssumption DEF Cut, Times
<1>2. TypeOK
  BY <1>1, ClockAssumption DEF Init, TypeOK
<1>3. TreeOK /\ MinimumOK /\ SleepsNoLonger
  BY DEF Init, TreeOK, MinimumOK, SleepsNoLonger
<1>4. ClockOK
  BY <1>1, ClockAssumption DEF Init, ClockOK
<1> QED BY <1>2, <1>3, <1>4 DEF IInv

LEMMA ArmKeeps ==
  ASSUME IInv, NEW k \in Timers, NEW timeout \in Timeouts, Arm(k, timeout)
  PROVE  IInv'
<1> DEFINE t == Cut(Cut(clock) + timeout)
<1>1. /\ clock \in Nat /\ seen \in Nat /\ timeout \in Nat /\ MaxLag \in Nat
      /\ due \in [Timers -> Nat] /\ time \in [Timers -> Times] /\ tree \subseteq Timers
  BY TimeoutsAssumption, ClockAssumption DEF IInv, TypeOK
<1>2. t = Cut(clock + timeout) /\ t \in Times /\ Cut(clock) \in Times
  BY <1>1, NewTime, CutIs
<1>3. /\ ~polling /\ ~polling' /\ now' = Cut(clock) /\ seen' = clock /\ clock' = clock
      /\ enabled' = [enabled EXCEPT ![k] = TRUE]
      /\ UNCHANGED <<minimum, sleep>>
  BY DEF Arm
<1>4. \/ /\ k \in tree /\ UNCHANGED <<tree, time, due>>
      \/ /\ tree' = tree \cup {k}
         /\ time' = [time EXCEPT ![k] = t]
         /\ due' = [due EXCEPT ![k] = clock + timeout]
  BY DEF Arm
<1> HIDE DEF t
<1>5. TypeOK'
  <2>1. clock + timeout \in Nat
    BY <1>1
  <2>2. due' \in [Timers -> Nat] /\ time' \in [Timers -> Times] /\ tree' \subseteq Timers
    BY <1>1, <1>2, <1>4, <2>1
  <2>3. enabled' \in [Timers -> BOOLEAN] /\ polling' \in BOOLEAN
    BY DEF Arm, IInv, TypeOK
  <2>4. now' \in Times /\ seen' \in Nat /\ clock' \in Nat
    BY <1>1, <1>2, <1>3
  <2>5. minimum' \in Times /\ sleep' \in Times \cup {Forever}
    BY <1>3 DEF IInv, TypeOK
  <2> QED BY <2>2, <2>3, <2>4, <2>5 DEF TypeOK, Times, Forever
<1>6. TreeOK'
  <2> SUFFICES ASSUME NEW j \in tree'
               PROVE  /\ time'[j] = Cut(due'[j])
                      /\ clock' <= due'[j] + MaxLag
                      /\ \E u \in Timeouts : due'[j] <= seen' + u
    BY DEF TreeOK, Cut
  <2>1. CASE j \in tree /\ time'[j] = time[j] /\ due'[j] = due[j]
    <3>1. PICK u \in Timeouts : due[j] <= seen + u
      BY <2>1 DEF IInv, TreeOK
    <3>2. u \in Nat /\ due[j] \in Nat /\ seen <= clock
      BY <1>1, <2>1, TimeoutsAssumption DEF IInv, ClockOK
    <3>3. due[j] <= clock + u
      BY <1>1, <3>1, <3>2
    <3> QED BY <1>3, <2>1, <3>3 DEF IInv, TreeOK
  <2>2. CASE j = k /\ time'[j] = t /\ due'[j] = clock + timeout
    BY <1>1, <1>2, <1>3, <2>2
  <2> QED BY <1>1, <1>4, <2>1, <2>2
<1>7. ClockOK'
  BY <1>1, <1>3 DEF ClockOK, Cut
<1>8. MinimumOK' /\ SleepsNoLonger'
  BY <1>3 DEF MinimumOK, SleepsNoLonger
<1> QED BY <1>5, <1>6, <1>7, <1>8 DEF IInv

\* A step that takes timers off the tree, or disables some, and changes no
\* time keeps what is said of the times.
LEMMA FewerKeeps ==
  ASSUME IInv, tree' \subseteq tree, enabled' \in [Timers -> BOOLEAN],
         \A k \in tree' : enabled'[k] => enabled[k],
         UNCHANGED <<time, now, minimum, sleep, polling, clock, seen, due>>
  PROVE  IInv'
<1>1. Armed' \subseteq Armed
  BY DEF Armed
<1>2. TypeOK'
  BY DEF IInv, TypeOK
<1>3. TreeOK' /\ ClockOK'
  BY DEF IInv, TreeOK, ClockOK, Cut
<1>4. MinimumOK'
  BY <1>1 DEF IInv, MinimumOK, Cut
<1>5. SleepsNoLonger'
  BY <1>1 DEF IInv, SleepsNoLonger
<1> QED BY <1>2, <1>3, <1>4, <1>5 DEF IInv

LEMMA FindKeeps ==
  ASSUME IInv, Find
  PROVE  IInv'
<1>1. /\ UNCHANGED <<tree, time, enabled, now, clock, seen, due>>
      /\ ~polling /\ polling' /\ Armed' = Armed
  BY DEF Find, timers, Armed
<1>2. TreeOK' /\ ClockOK'
  BY <1>1 DEF IInv, TreeOK, ClockOK, Cut
<1>3. /\ clock \in Nat /\ seen \in Nat /\ MaxLag \in Nat /\ Bias \in Nat
      /\ \A j \in tree : due[j] \in Nat /\ time[j] = Cut(due[j]) /\ seen <= due[j] + MaxLag
  BY TimeoutsAssumption, ClockAssumption DEF IInv, TypeOK, TreeOK, ClockOK
<1>4. CASE Armed = {} /\ minimum' = Cut(now + IdleAhead) /\ sleep' = Forever
  <2>1. minimum' \in Times
    <3>1. now + IdleAhead \in Int
      BY ClockAssumption, ModulusAssumption DEF IInv, TypeOK, Times
    <3> QED BY <1>4, <3>1, CutIs
  <2>2. TypeOK'
    BY <1>1, <1>4, <2>1 DEF IInv, TypeOK
  <2>3. MinimumOK' /\ SleepsNoLonger'
    BY <1>1, <1>4 DEF MinimumOK, SleepsNoLonger
  <2> QED BY <1>2, <2>2, <2>3 DEF IInv
<1>5. ASSUME NEW k \in Timers, First(k),
             minimum' = Cut(time[k] - Bias), sleep' = Remaining(time[k])
      PROVE  IInv'
  <2>1. k \in Armed /\ k \in tree /\ \A j \in Armed : j \in tree /\ due[k] <= due[j]
    <3>1. k \in Armed /\ k \in tree /\ \A j \in Armed : j \in tree /\ ~(Diff(time[j], time[k]) < 0)
      BY <1>5 DEF First, Before, Armed
    <3>2. \A j \in Armed : ~(due[j] - due[k] < 0)
      BY <3>1, TreeDiffs
    <3> QED BY <1>3, <3>1, <3>2
  <2>2. minimum' = Cut(due[k] - Bias) /\ due[k] - Bias \in Int
    <3>1. due[k] \in Int /\ Bias \in Int /\ time[k] = Cut(due[k])
      BY <1>3, <2>1
    <3>2. Cut(Cut(due[k]) - Bias) = Cut(due[k] - Bias)
      BY <3>1, CutFirst
    <3> QED BY <1>5, <3>1, <3>2
  <2>3. sleep' = IF due[k] - seen > 0 THEN due[k] - seen ELSE 0
    BY <1>5, <2>1, TreeDiffs DEF Remaining
  <2>4. TypeOK'
    <3>1. minimum' \in Times
      BY <2>2, CutIs
    <3>2. sleep' \in Times
      <4>1. PICK u \in Timeouts : due[k] <= seen + u
        BY <2>1 DEF IInv, TreeOK
      <4>2. u \in Nat /\ u + MaxLag < Half /\ Half \in Nat /\ Modulus = 2 * Half /\ Half > 0
        BY TimeoutsAssumption, WindowAssumption, HalfIsHalf DEF Half
      <4>3. due[k] - seen < Half
        BY <1>3, <2>1, <4>1, <4>2
      <4> QED BY <1>3, <2>1, <2>3, <4>2, <4>3 DEF Times
    <3> QED BY <1>1, <3>1, <3>2 DEF IInv, TypeOK
  <2>5. MinimumOK'
    <3>1. /\ seen' <= (due[k] - Bias) + Bias + MaxLag
          /\ \A j \in Armed' : (due[k] - Bias) + Bias <= due'[j]
      BY <1>1, <1>3, <2>1
    <3> QED BY <2>2, <3>1 DEF MinimumOK, Cut
  <2>6. SleepsNoLonger'
    <3> SUFFICES ASSUME NEW j \in Armed
                 PROVE  sleep' # Forever /\ (sleep' = 0 \/ sleep' <= due[j] - seen)
      BY <1>1 DEF SleepsNoLonger
    <3>1. due[k] \in Nat /\ due[j] \in Nat /\ due[k] <= due[j]
      BY <1>3, <2>1
    <3> QED BY <1>3, <2>3, <3>1 DEF Forever
  <2> QED BY <1>2, <2>4, <2>5, <2>6 DEF IInv
<1> QED BY <1>4, <1>5 DEF Find

LEMMA ExpireKeeps ==
  ASSUME IInv, Expire
  PROVE  IInv'
<1>1. /\ tree' \subseteq tree /\ polling' = FALSE /\ now' = Cut(clock) /\ seen' = clock
      /\ enabled' \in [Timers -> BOOLEAN]
      /\ UNCHANGED <<time, minimum, sleep, clock, due>>
  BY DEF Expire, IInv, TypeOK
<1>2. Cut(clock) \in Times /\ clock \in Nat /\ seen \in Nat
  BY CutIs DEF IInv, TypeOK
<1>3. TypeOK'
  <2>1. tree' \subseteq Timers /\ polling' \in BOOLEAN /\ now' \in Times /\ seen' \in Nat
    BY <1>1, <1>2 DEF IInv, TypeOK
  <2>2. /\ time' \in [Timers -> Times] /\ due' \in [Timers -> Nat] /\ clock' \in Nat
        /\ minimum' \in Times /\ sleep' \in Times \cup {Forever}
    BY <1>1 DEF IInv, TypeOK
  <2> QED BY <1>1, <2>1, <2>2 DEF TypeOK, Times, Forever
<1>4. ClockOK'
  BY <1>1, <1>2 DEF ClockOK, Cut
<1>5. TreeOK'
  <2> SUFFICES ASSUME NEW k \in tree
               PROVE  /\ time[k] = Cut(due[k])
                      /\ clock <= due[k] + MaxLag
                      /\ \E t \in Timeouts : due[k] <= clock + t
    BY <1>1 DEF TreeOK, Cut
  <2>1. PICK t \in Timeouts : due[k] <= seen + t
    BY DEF IInv, TreeOK
  <2>2. t \in Nat /\ due[k] \in Nat /\ seen <= clock
    BY TimeoutsAssumption DEF IInv, TypeOK, ClockOK
  <2>3. due[k] <= clock + t
    BY <1>2, <2>1, <2>2
  <2> QED BY <2>3 DEF IInv, TreeOK
<1>6. MinimumOK' /\ SleepsNoLonger'
  BY <1>1 DEF MinimumOK, SleepsNoLonger
<1> QED BY <1>3, <1>4, <1>5, <1>6 DEF IInv

LEMMA TickKeeps ==
  ASSUME IInv, Tick
  PROVE  IInv'
<1>1. /\ clock' = clock + 1 /\ clock \in Nat /\ seen \in Nat /\ MaxLag \in Nat
      /\ \A k \in tree : due[k] \in Nat /\ clock + 1 - due[k] <= MaxLag
      /\ UNCHANGED <<tree, time, enabled, now, minimum, sleep, polling, seen, due>>
  BY ClockAssumption DEF Tick, timers, IInv, TypeOK
<1>2. TypeOK' /\ ClockOK'
  BY <1>1 DEF IInv, TypeOK, ClockOK, Cut
<1>3. TreeOK'
  <2>1. \A k \in tree : clock' <= due[k] + MaxLag
    BY <1>1
  <2> QED BY <1>1, <2>1 DEF IInv, TreeOK, Cut
<1>4. MinimumOK' /\ SleepsNoLonger'
  BY <1>1 DEF IInv, MinimumOK, SleepsNoLonger, Armed, Cut
<1> QED BY <1>2, <1>3, <1>4 DEF IInv

LEMMA NextKeeps == IInv /\ [Next]_vars => IInv'
<1> SUFFICES ASSUME IInv, [Next]_vars PROVE IInv'
  OBVIOUS
<1>1. ASSUME NEW k \in Timers, Delete(k) PROVE IInv'
  <2>1. enabled' \in [Timers -> BOOLEAN] /\ \A j \in tree' : enabled'[j] => enabled[j]
    BY <1>1 DEF Delete, IInv, TypeOK
  <2> QED BY <1>1, <2>1, FewerKeeps DEF Delete
<1>2. ASSUME NEW k \in Timers, Disable(k) PROVE IInv'
  <2>1. enabled' \in [Timers -> BOOLEAN] /\ \A j \in tree' : enabled'[j] => enabled[j]
    BY <1>2 DEF Disable, IInv, TypeOK
  <2> QED BY <1>2, <2>1, FewerKeeps DEF Disable
<1>3. CASE UNCHANGED vars
  <2>1. enabled' \in [Timers -> BOOLEAN]
    BY <1>3 DEF vars, timers, IInv, TypeOK
  <2> QED BY <1>3, <2>1, FewerKeeps DEF vars, timers
<1> QED BY <1>1, <1>2, <1>3, ArmKeeps, FindKeeps, ExpireKeeps, TickKeeps DEF Next

LEMMA IInvHolds == Spec => []IInv
  BY InitKeeps, NextKeeps, PTL DEF Spec

-----------------------------------------------------------------------------
(* The theorems *)

\* Every variable keeps its type; the times stay within 32 bits.
THEOREM TypeCorrect == Spec => []TypeOK
<1>1. IInv => TypeOK
  BY DEF IInv
<1> QED BY <1>1, IInvHolds, PTL

\* The tree is ordered by the true times, however often the clock has wrapped.
THEOREM OrderIsKept == Spec => []OrderKept
<1>1. IInv => OrderKept
  BY TreeDiffs DEF OrderKept
<1> QED BY <1>1, IInvHolds, PTL

\* Counted from timers->now, the timeout epoll_wait is given reaches past no
\* deadline: js_timer_find takes the earliest, and the right difference from it.
THEOREM WaitFromReading == Spec => []SleepsNoLonger
<1>1. IInv => SleepsNoLonger
  BY DEF IInv
<1> QED BY <1>1, IInvHolds, PTL

\* The walk of js_timer_expire, if it is made, takes what is due off the tree
\* and nothing that is early; and it is made when anything armed is due.
LEMMA ExpireFires ==
  ASSUME IInv, Expire
  PROVE  \E S \in SUBSET Armed : Deadlines!Fire(S)
<1> DEFINE at  == Cut(clock)
           off == IF Diff(minimum, at) > 0 THEN {} ELSE Expired(at)
<1>1. /\ polling /\ ~polling' /\ tree' = tree \ off
      /\ enabled' = [k \in Timers |-> enabled[k] /\ k \notin off]
      /\ UNCHANGED <<clock, due>>
  BY DEF Expire
<1>2. Armed' = Armed \ (Armed \cap off)
  BY <1>1 DEF Armed, IInv, TypeOK
<1>3. /\ clock \in Nat /\ Bias \in Nat /\ MaxLag \in Nat /\ seen \in Nat
      /\ \A k \in tree : due[k] \in Nat
  BY TimeoutsAssumption, ClockAssumption DEF IInv, TypeOK
<1>4. \A k \in Armed \cap off : due[k] - Bias <= clock
  <2> SUFFICES ASSUME NEW k \in Armed \cap off PROVE due[k] - Bias <= clock
    OBVIOUS
  <2>1. k \in tree /\ Diff(time[k], at) <= Bias
    BY DEF Expired, Due, Armed
  <2>2. due[k] - clock <= Bias
    BY <2>1, TreeDiffs
  <2> QED BY <1>3, <2>1, <2>2
<1>5. \A k \in Armed : due[k] <= clock => k \in Armed \cap off
  <2> SUFFICES ASSUME NEW k \in Armed, due[k] <= clock PROVE k \in off
    OBVIOUS
  <2>1. k \in tree
    BY DEF Armed
  <2>2. ~(Diff(minimum, at) > 0)
    <3>1. PICK m \in Int : /\ minimum = Cut(m)
                           /\ seen <= m + Bias + MaxLag
                           /\ \A j \in Armed : m + Bias <= due[j]
      BY <1>1 DEF IInv, MinimumOK
    <3>2. PICK t \in Timeouts : due[k] <= seen + t
      BY <2>1 DEF IInv, TreeOK
    <3>3. t \in Nat /\ t + 2 * MaxLag + Bias <= Half /\ Half \in Nat /\ Half > 0
      BY TimeoutsAssumption, WindowAssumption, HalfIsHalf DEF Half
    <3>4. clock <= due[k] + MaxLag /\ due[k] \in Nat /\ m + Bias <= due[k]
      BY <1>3, <2>1, <3>1 DEF IInv, TreeOK
    <3>5. -Half <= m - clock /\ m - clock <= 0 /\ m - clock < Half
      BY <1>3, <3>1, <3>2, <3>3, <3>4
    <3>6. Diff(minimum, at) = m - clock
      BY <1>3, <3>1, <3>5, DiffIsTrue
    <3> QED BY <1>3, <3>5, <3>6
  <2>3. \A j \in tree : due[j] <= clock => Due(j, at)
    <3> SUFFICES ASSUME NEW j \in tree, due[j] <= clock PROVE Due(j, at)
      OBVIOUS
    <3>1. Diff(time[j], at) = due[j] - clock
      BY TreeDiffs
    <3> QED BY <1>3, <3>1 DEF Due
  <2>4. \A j \in tree : Before(j, k) => due[j] <= clock
    <3> SUFFICES ASSUME NEW j \in tree, Before(j, k) PROVE due[j] <= clock
      OBVIOUS
    <3>1. due[j] - due[k] < 0
      BY <2>1, TreeDiffs DEF Before
    <3> QED BY <1>3, <2>1, <3>1
  <2> QED BY <2>1, <2>2, <2>3, <2>4 DEF Expired
<1> HIDE DEF off
<1>6. Deadlines!Fire(Armed \cap off)
  BY <1>1, <1>2, <1>4, <1>5 DEF Deadlines!Fire
<1> QED BY <1>6

\* The timers of a thread implement a queue of deadlines on a clock that does
\* not wrap: every step is one of DeadlineQueue or changes nothing of it.
THEOREM DeadlinesAreKept == Spec => KeepsDeadlines
<1>1. Init => Deadlines!Init
  BY ClockAssumption DEF Init, Deadlines!Init, Armed
<1>2. IInv /\ [Next]_vars => [Deadlines!Next]_(Deadlines!vars)
  <2> SUFFICES ASSUME IInv, [Next]_vars
               PROVE  Deadlines!Next \/ UNCHANGED Deadlines!vars
    OBVIOUS
  <2>1. ASSUME NEW k \in Timers, NEW t \in Timeouts, Arm(k, t)
        PROVE  Deadlines!Arm(k, t)
    <3>1. Armed' = Armed \cup {k}
      BY <2>1 DEF Arm, Armed, IInv, TypeOK
    <3>2. UNCHANGED <<clock, polling>>
      BY <2>1 DEF Arm
    <3>3. CASE due' = [due EXCEPT ![k] = clock + t]
      BY <3>1, <3>2, <3>3 DEF Deadlines!Arm
    <3>4. CASE /\ k \in tree /\ due' = due
               /\ Diff(Cut(Cut(clock) + t), time[k]) \in -Bias .. Bias
      <4>1. clock + t - due[k] \in -Bias .. Bias
        BY <3>4, NewTime
      <4>2. clock \in Nat /\ t \in Nat /\ due[k] \in Nat /\ Bias \in Nat
        BY TimeoutsAssumption DEF IInv, TypeOK
      <4>3. due[k] - Bias <= clock + t /\ clock + t <= due[k] + Bias
        BY <4>1, <4>2
      <4> QED BY <3>1, <3>2, <3>4, <4>3 DEF Deadlines!Arm
    <3> QED BY <2>1, <3>3, <3>4 DEF Arm
  <2>2. ASSUME NEW k \in Timers, Delete(k) \/ Disable(k)
        PROVE  Deadlines!Disarm(k)
    <3>1. Armed' = Armed \ {k}
      BY <2>2 DEF Delete, Disable, Armed, IInv, TypeOK
    <3> QED BY <2>2, <3>1 DEF Delete, Disable, Deadlines!Disarm
  <2>3. CASE Find
    BY <2>3 DEF Find, timers, Armed, Deadlines!Next, Deadlines!Wait
  <2>4. CASE Expire
    BY <2>4, ExpireFires DEF Deadlines!Next
  <2>5. CASE Tick
    BY <2>5 DEF Tick, timers, Armed, Deadlines!Next, Deadlines!Tick, IInv, TypeOK
  <2>6. CASE UNCHANGED vars
    BY <2>6 DEF vars, timers, Armed, Deadlines!vars
  <2> QED BY <2>1, <2>2, <2>3, <2>4, <2>5, <2>6 DEF Next, Deadlines!Next
<1> QED BY <1>1, <1>2, IInvHolds, PTL DEF Spec, KeepsDeadlines, Deadlines!Spec
=============================================================================
