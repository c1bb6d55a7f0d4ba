-------------------------------- MODULE Timer --------------------------------
(***************************************************************************)
(* The timers of a thread (src/src/js_timer.c), driven as its two event    *)
(* loops drive them (worker_c_path and js_loop_run): js_timer_find before  *)
(* epoll_wait, the clock read and js_timer_expire after the batch.         *)
(*                                                                         *)
(* Times are milliseconds in an unsigned integer of 32 bits that wraps     *)
(* (Modulus), compared through the sign of their difference.  The red-     *)
(* black tree is the set of its timers: its order is the one the           *)
(* comparison gives, a total order as long as OrderKept holds.  The true   *)
(* clock and the true time of each timer are kept beside it, to compare    *)
(* with.                                                                   *)
(***************************************************************************)
EXTENDS Integers

CONSTANTS
  Timers,     \* the timers of the thread
  Modulus,    \* 2^32
  Timeouts,   \* the timeouts its clients arm them with
  IdleAhead,  \* 24 * 60 * 60 * 1000
  Bias,       \* js_timer_t.bias: 0, as no timer of the program sets it
  Starts,     \* the times at which the thread may start
  MaxLag,     \* bound: a turn of the loop ends less than this after a deadline
  MaxClock    \* bound: the clock stops here

ASSUME ModulusAssumption  == Modulus \in Nat /\ Modulus > 1 /\ Modulus % 2 = 0
ASSUME TimeoutsAssumption == Timeouts \subseteq Nat /\ Bias \in Nat
ASSUME ClockAssumption    == Starts \subseteq Nat /\ IdleAhead \in Nat /\ MaxLag \in Nat

\* The comment of js_timer.c:11-15: times are compared over a small range.  All
\* that are compared lie within half the modulus of each other.
ASSUME WindowAssumption ==
  \A t \in Timeouts : /\ t + MaxLag < Modulus \div 2
                      /\ t + 2 * MaxLag + Bias <= Modulus \div 2

Forever == -1
Times   == 0 .. Modulus - 1

VARIABLES
  tree,      \* the timers in timers->tree
  time,      \* timer->time
  enabled,   \* timer->enabled
  now,       \* timers->now
  minimum,   \* timers->minimum
  sleep,     \* what js_timer_find returned, Forever for (js_msec_t) -1
  polling,   \* between js_timer_find and js_timer_expire
  clock,     \* external: the monotonic clock, in milliseconds
  seen,      \* history: the clock when it was last read into timers->now
  due        \* history: timer->time before it was cut to 32 bits

timers == <<tree, time, enabled>>
vars   == <<timers, now, minimum, sleep, polling, clock, seen, due>>

TypeOK ==
  /\ tree \subseteq Timers
  /\ time \in [Timers -> Times]
  /\ enabled \in [Timers -> BOOLEAN]
  /\ now \in Times
  /\ minimum \in Times
  /\ sleep \in Times \cup {Forever}
  /\ polling \in BOOLEAN
  /\ clock \in Nat
  /\ seen \in Nat
  /\ due \in [Timers -> Nat]

Init ==
  /\ tree = {}
  /\ time = [k \in Timers |-> 0]
  /\ enabled = [k \in Timers |-> FALSE]
  /\ now = 0
  /\ minimum = 0
  /\ sleep = Forever
  /\ polling = FALSE
  /\ clock \in Starts
  /\ seen = 0
  /\ due = [k \in Timers |-> 0]

-----------------------------------------------------------------------------
(* Arithmetic of js_msec_t and js_msec_int_t *)

\* Mutant: the time does not wrap.
CutNot(n) == n

Cut(n) == n % Modulus

\* Mutant: the times are compared as unsigned numbers.
DiffUnsigned(a, b) == a - b

\* (js_msec_int_t) (a - b)
Diff(a, b) ==
  LET d == Cut(a - b) IN IF d < Modulus \div 2 THEN d ELSE d - Modulus

\* Mutant: a time in the past is not taken for none.
RemainingSigned(t) == Cut(t - now)

\* What js_timer_find makes of the time of the first timer.
Remaining(t) == IF Diff(t, now) > 0 THEN Diff(t, now) ELSE 0

\* The timers in the order of the tree: j before k.
Before(j, k) == Diff(time[j], time[k]) < 0

-----------------------------------------------------------------------------
(* The operations *)

\* A client reads the clock and arms a timer (js_fetch, worker_c_path):
\* js_timer_add.  One that is in the tree for about the same time stays.
Arm(k, timeout) ==
  LET t == Cut(Cut(clock) + timeout)
      near == k \in tree /\ Diff(t, time[k]) \in -Bias .. Bias
  IN
  /\ ~polling
  /\ now' = Cut(clock)
  /\ seen' = clock
  /\ enabled' = [enabled EXCEPT ![k] = TRUE]
  /\ \/ near /\ UNCHANGED <<tree, time, due>>
     \/ /\ ~near
        /\ tree' = tree \cup {k}
        /\ time' = [time EXCEPT ![k] = t]
        /\ due' = [due EXCEPT ![k] = clock + timeout]
  /\ UNCHANGED <<minimum, sleep, polling, clock>>

\* js_timer_delete, from an event handler or from outside the loop.
Delete(k) ==
  /\ enabled' = [enabled EXCEPT ![k] = FALSE]
  /\ tree' = tree \ {k}
  /\ UNCHANGED <<time, now, minimum, sleep, polling, clock, seen, due>>

\* js_timer_disable: the timer stays in the tree.
Disable(k) ==
  /\ enabled' = [enabled EXCEPT ![k] = FALSE]
  /\ UNCHANGED <<tree, time, now, minimum, sleep, polling, clock, seen, due>>

Armed == {k \in tree : enabled[k]}

\* The walk of js_timer_find stops at the first enabled timer.
First(k) == k \in Armed /\ \A j \in Armed : ~Before(j, k)

Find ==
  /\ ~polling
  /\ polling' = TRUE
  /\ \/ \E k \in Timers :
          /\ First(k)
          /\ minimum' = Cut(time[k] - Bias)
          /\ sleep' = Remaining(time[k])
     \/ /\ Armed = {}
        /\ minimum' = Cut(now + IdleAhead)
        /\ sleep' = Forever
  /\ UNCHANGED <<timers, now, clock, seen, due>>

\* Mutant: a timer whose time is just now is left for the next turn.
DueLater(k, at) == Diff(time[k], at) < Bias

Due(k, at) == Diff(time[k], at) <= Bias

\* The walk of js_timer_expire: it takes the timers that are due off the tree,
\* up to the first that is not.
Expired(at) ==
  {k \in tree : Due(k, at) /\ \A j \in tree : Before(j, k) => Due(j, at)}

\* The thread has dispatched its events: it reads the clock and calls
\* js_timer_expire, and the handlers of the enabled timers run.
Expire ==
  LET at  == Cut(clock)
      off == IF Diff(minimum, at) > 0 THEN {} ELSE Expired(at)
  IN
  /\ polling
  /\ polling' = FALSE
  /\ now' = at
  /\ seen' = clock
  /\ tree' = tree \ off
  /\ enabled' = [k \in Timers |-> enabled[k] /\ k \notin off]
  /\ UNCHANGED <<time, minimum, sleep, clock, due>>

\* Time passes: while the thread waits, and while it works.
Tick ==
  /\ clock < MaxClock
  /\ \A k \in tree : clock + 1 - due[k] <= MaxLag
  /\ clock' = clock + 1
  /\ UNCHANGED <<timers, now, minimum, sleep, polling, seen, due>>

Next ==
  \/ \E k \in Timers : \E t \in Timeouts : Arm(k, t)
  \/ \E k \in Timers : Delete(k)
  \/ \E k \in Timers : Disable(k)
  \/ Find
  \/ Expire
  \/ Tick

Spec == Init /\ [][Next]_vars

-----------------------------------------------------------------------------
(* Properties *)

\* The signed comparison orders the timers in the tree by their true times,
\* across the overflow of the 32-bit clock (js_timer_rbtree_compare): the tree
\* is searched with one consistent order however long the thread has run.
OrderKept ==
  \A j, k \in tree : Diff(time[j], time[k]) = due[j] - due[k]

\* The timeout given to epoll_wait, counted from the last reading of the clock
\* (timers->now), reaches to the earliest deadline at most, and is zero when that
\* one had passed by then; timers deleted meanwhile only make it shorter than need
\* be.  How much later than that reading the wait begins, it does not say.
SleepsNoLonger ==
  polling =>
    \A k \in Armed :
      /\ sleep # Forever
      /\ sleep = 0 \/ sleep <= due[k] - seen

\* The timers of the thread are a queue of deadlines: everything due fires when
\* the loop comes round, whatever was armed, deleted or re-armed before and
\* wherever the 32-bit clock stands, and nothing fires early.
Deadlines == INSTANCE DeadlineQueue WITH
  Slack    <- Bias,
  deadline <- due,
  armed    <- Armed,
  waiting  <- polling

KeepsDeadlines == Deadlines!Spec
=============================================================================
