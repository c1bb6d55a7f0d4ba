------------------------------ MODULE MCCWorker ------------------------------
(* Instances of CWorker for TLC. *)
EXTENDS CWorker

\* The requests of array mode, answered with different status classes.
MCStatusOf == [r \in Reqs |-> IF r = 0 THEN "2xx" ELSE "5xx"]

PlainAndTls == BOOLEAN
PlainOnly   == {FALSE}

EveryFault   == SUBSET Faults
NoResetFault == SUBSET (Faults \ {"reset"})
ResetFault   == {{"reset"}}
NoFault      == {{}}
=============================================================================
