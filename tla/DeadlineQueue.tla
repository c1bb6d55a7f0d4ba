---------------------------- MODULE DeadlineQueue ----------------------------
(***************************************************************************)
(* What a thread's timers promise: each armed timer has a deadline on a    *)
(* clock that never wraps; whenever the thread comes back from a wait, all *)
(* timers whose deadline has passed fire, and none fires more than Slack   *)
(* before its own.                                                         *)
(***************************************************************************)
EXTENDS Integers

CONSTANTS
  Timers,    \* the timers
  Timeouts,  \* what they can be armed with
  Slack      \* how early one may fire

VARIABLES
  clock,     \* the time
  deadline,  \* of each timer that was armed
  armed,     \* the timers that are
  waiting    \* the thread is in its wait

vars == <<clock, deadline, armed, waiting>>

Init ==
  /\ clock \in Nat
  /\ deadline \in [Timers -> Nat]
  /\ armed = {}
  /\ waiting = FALSE

\* A timer armed again for about the same time may keep its deadline.
Arm(k, t) ==
  /\ armed' = armed \cup {k}
  /\ \/ deadline' = [deadline EXCEPT ![k] = clock + t]
     \/ /\ deadline[k] - Slack <= clock + t
        /\ clock + t <= deadline[k] + Slack
        /\ UNCHANGED deadline
  /\ UNCHANGED <<clock, waiting>>

Disarm(k) ==
  /\ armed' = armed \ {k}
  /\ UNCHANGED <<clock, deadline, waiting>>

Tick ==
  /\ clock' > clock
  /\ UNCHANGED <<deadline, armed, waiting>>

Wait ==
  /\ ~waiting /\ waiting'
  /\ UNCHANGED <<clock, deadline, armed>>

Fire(S) ==
  /\ waiting /\ ~waiting'
  /\ \A k \in S : deadline[k] - Slack <= clock
  /\ \A k \in armed : deadline[k] <= clock => k \in S
  /\ armed' = armed \ S
  /\ UNCHANGED <<clock, deadline>>

Next ==
  \/ \E k \in Timers : Disarm(k) \/ \E t \in Timeouts : Arm(k, t)
  \/ Tick
  \/ Wait
  \/ \E S \in SUBSET armed : Fire(S)

Spec == Init /\ [][Next]_vars
=============================================================================
