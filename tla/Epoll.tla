-------------------------------- MODULE Epoll --------------------------------
(***************************************************************************)
(* The epoll instance of a thread's engine (src/src/js_epoll.c), as the    *)
(* kernel keeps it: for every connection the events its entry asks for and *)
(* whether the entry is on the ready list.  A thread is told only of what  *)
(* the list holds (all its entries are edge-triggered).                    *)
(***************************************************************************)
EXTENDS Conn, FiniteSets

CONSTANT
  MaxEvents   \* the size of the array js_epoll_poll gives epoll_wait (256)

ASSUME MaxEventsAssumption == MaxEvents \in Nat \ {0}

VARIABLES
  interest,   \* external: the epoll entry of each socket, {} when there is none
  ready       \* external: whether it is on the ready list

(* epoll_ctl, with the socket the entry is for.  A modified entry is looked *)
(* at again, so it goes to the ready list if the socket is ready now.       *)

EpollAdd(i, ev, s) ==
  /\ interest' = [interest EXCEPT ![i] = ev]
  /\ ready' = [ready EXCEPT ![i] = Deliverable(ev, s) # {}]

EpollMod(i, ev, s) ==
  /\ interest' = [interest EXCEPT ![i] = ev]
  /\ ready' = [ready EXCEPT ![i] = ready[i] \/ Deliverable(ev, s) # {}]

EpollDel(i) ==
  /\ interest' = [interest EXCEPT ![i] = {}]
  /\ ready' = [ready EXCEPT ![i] = FALSE]

\* How many entries epoll_wait takes off the list when those of R are on it;
\* the rest stay for the next turn.
PollCount(R) ==
  IF Cardinality(R) <= MaxEvents THEN Cardinality(R) ELSE MaxEvents
==============================================================================
