------------------------------- MODULE MCTimer -------------------------------
(* Instances of Timer for TLC: a clock of three bits. *)
EXTENDS Timer, TLC

\* Timeouts that fit the window of the signed comparison.
ShortTimeouts == {0, 2}

\* Just before the sign of the clock changes.
NearOverflow == {2}

AnyOrder == Permutations(Timers)
=============================================================================
