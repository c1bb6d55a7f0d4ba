------------------------------- MODULE LoadGen -------------------------------
(***************************************************************************)
(* What a C-path worker promises: a closed-loop load generator.  It has a  *)
(* fixed number of clients; each of them has at most one request           *)
(* outstanding, goes through the configured requests in turn, and sends    *)
(* the next one as soon as the last was answered, or the same one again    *)
(* when it failed.  CWorker implements it when a reconnection never fails  *)
(* at once.                                                                *)
(***************************************************************************)
EXTENDS Integers

CONSTANTS
  Clients,   \* their number, 0 .. Clients - 1
  Requests   \* the number of configured requests

Client == 0 .. Clients - 1
None   == -1

VARIABLES
  outstanding,  \* the request of each client, or None
  answered,     \* the responses recorded per client and request
  failed,       \* the errors recorded
  open          \* the generator has not been told to finish

vars == <<outstanding, answered, failed, open>>

Init ==
  /\ outstanding = [i \in Client |-> None]
  /\ answered = [i \in Client |-> [r \in 0 .. Requests - 1 |-> 0]]
  /\ failed = 0
  /\ open = TRUE

\* Client i starts on the request its number gives it.
Start(i) ==
  /\ open
  /\ outstanding[i] = None
  /\ outstanding' = [outstanding EXCEPT ![i] = i % Requests]
  /\ UNCHANGED <<answered, failed, open>>

\* It cannot start at all.
StartFails(i) ==
  /\ open
  /\ outstanding[i] = None
  /\ failed' = failed + 1
  /\ UNCHANGED <<outstanding, answered, open>>

\* Its request is answered: the next one is outstanding.
Answer(i) ==
  /\ open
  /\ outstanding[i] # None
  /\ answered' = [answered EXCEPT ![i][outstanding[i]] = @ + 1]
  /\ outstanding' = [outstanding EXCEPT ![i] = (@ + 1) % Requests]
  /\ UNCHANGED <<failed, open>>

\* Its request fails: the same one is outstanding again.
Retry(i) ==
  /\ open
  /\ outstanding[i] # None
  /\ failed' = failed + 1
  /\ UNCHANGED <<outstanding, answered, open>>

\* What is outstanding at the end is abandoned, and counted nowhere.
Finish ==
  /\ open
  /\ open' = FALSE
  /\ outstanding' = [i \in Client |-> None]
  /\ UNCHANGED <<answered, failed>>

Next ==
  \/ \E i \in Client : Start(i) \/ StartFails(i) \/ Answer(i) \/ Retry(i)
  \/ Finish

Spec == Init /\ [][Next]_vars
=============================================================================
