--------------------------- MODULE FetchLoopProofs ---------------------------
(***************************************************************************)
(* Proofs about FetchLoop, for any number of fetches, any network, any set *)
(* of faults and any size of the event array: what a fetch holds it holds  *)
(* as a whole, no edge is lost, an event is freed by no handler but its    *)
(* own, and when the verdict on an iteration is right.                     *)
(***************************************************************************)
EXTENDS FetchLoop, ConnProofs

-----------------------------------------------------------------------------
(* The inductive invariant *)

\* What belongs to a fetch in the loop's list: an open connection, the entry it
\* waits on, a timer and a promise;
Holds(c, s, ev, t, p) ==
  /\ LiveOK(c, s)
  /\ s.st # "closed"
  /\ InterestOf(c.state) \subseteq ev
  /\ t # "off"
  /\ p # "none"

\* and to one that is not: nothing.
LetsGo(c, s, ev, r, t, p) ==
  /\ c.state \in {"none", "freed"} /\ ~c.fd
  /\ s = ClosedSock
  /\ ev = {} /\ ~r
  /\ t = "off"
  /\ p = "none"

FetchOK(f) ==
  IF f \in pending
    THEN Holds(conn[f], sock[f], interest[f], timer[f], promise[f])
    ELSE LetsGo(conn[f], sock[f], interest[f], ready[f], timer[f], promise[f])

FetchesOK == \A f \in Fetches : FetchOK(f)

\* Events are left only while they are dispatched, and timers only while they
\* expire; one that has had its write handler has its read handler to come.
DispatchOK ==
  /\ \A f \in Fetches : batch[f] # {} => phase \in {"dispatch", "crashed"}
  /\ cur # NoFetch => phase = "dispatch" /\ batch[cur] = {"in"}
  /\ expiring # {} => phase = "expire"
  /\ expiring \subseteq pending

\* While an iteration runs the flag says what the tracker noted in it, if only
\* this thread writes it; all of that, if nothing was noted before the loop began.
InLoop ==
  run = "iteration" /\ phase \in {"jobs", "job", "poll", "dispatch", "expire"}

VerdictOK ==
  /\ run = "iteration" /\ phase = "call" => ~noted
  /\ rejected > 0 => noted
  /\ LateHandlers = 0 /\ noted => rejected > 0
  /\ ~OtherThreads /\ InLoop /\ flag => noted
  /\ ~OtherThreads /\ ~CallRejects /\ InLoop /\ noted => flag

IInv ==
  /\ TypeOK
  /\ FetchesOK
  /\ DispatchOK
  /\ NoLostWakeup
  /\ OnlyOwnEventDangles
  /\ VerdictOK

-----------------------------------------------------------------------------
(* What a step of one fetch leaves *)

\* What belongs to fetch g does not change.
Same(g) ==
  /\ conn'[g] = conn[g] /\ sock'[g] = sock[g]
  /\ interest'[g] = interest[g] /\ ready'[g] = ready[g]
  /\ timer'[g] = timer[g] /\ promise'[g] = promise[g]
  /\ g \in pending' <=> g \in pending

\* The part of TypeOK about what the fetches' handlers write.
FetchesTyped ==
  /\ pending \subseteq Fetches
  /\ conn \in [Fetches -> ConnType] /\ sock \in [Fetches -> SockType]
  /\ interest \in [Fetches -> SUBSET InOut] /\ ready \in [Fetches -> BOOLEAN]
  /\ timer \in [Fetches -> {"off", "armed", "passed"}]
  /\ promise \in [Fetches -> {"none", "awaited", "loose"}]

\* A handler of f, or the network, has done with it.
Stepped(f) ==
  /\ FetchesTyped'
  /\ FetchesOK'
  /\ \A g \in Fetches \ {f} : Same(g)
  /\ f \in pending' /\ CanProgress(conn'[f], sock'[f]) => ready'[f]

\* What a settled promise leaves: jobs, and perhaps an unhandled rejection.
Outcome ==
  /\ jobs' \in Nat
  /\ UNCHANGED verdict \/ Unhandled

\* The tracker's call, or none, keeps the types of what it writes.
LEMMA VerdictTyped ==
  ASSUME TypeOK, UNCHANGED verdict \/ Unhandled
  PROVE  flag' \in BOOLEAN /\ noted' \in BOOLEAN /\ rejected' \in Nat
<1>1. flag \in BOOLEAN /\ noted \in BOOLEAN /\ rejected \in Nat
  BY DEF TypeOK
<1>2. /\ flag' = flag \/ flag' = TRUE
      /\ noted' = noted \/ noted' = TRUE
      /\ rejected' = rejected \/ rejected' = rejected + 1
  BY DEF verdict, Unhandled
<1>3. rejected' \in Nat
  BY <1>1, <1>2
<1>4. flag' \in BOOLEAN /\ noted' \in BOOLEAN
  BY <1>1, <1>2, Zenon
<1> QED BY <1>3, <1>4

\* FetchOK of the next state.
LEMMA FetchOKNext ==
  ASSUME NEW f
  PROVE  FetchOK(f)' <=>
           IF f \in pending'
             THEN Holds(conn'[f], sock'[f], interest'[f], timer'[f], promise'[f])
             ELSE LetsGo(conn'[f], sock'[f], interest'[f], ready'[f], timer'[f],
                         promise'[f])
  BY DEF FetchOK, Holds, LetsGo, LiveOK, Live, LiveStates, InterestOf, InOut, ClosedSock

\* When one fetch changes and is well formed, all are.
LEMMA OthersKeep ==
  ASSUME FetchesOK, NEW f \in Fetches, \A g \in Fetches \ {f} : Same(g),
         IF f \in pending'
           THEN Holds(conn'[f], sock'[f], interest'[f], timer'[f], promise'[f])
           ELSE LetsGo(conn'[f], sock'[f], interest'[f], ready'[f], timer'[f],
                       promise'[f])
  PROVE  FetchesOK'
<1> SUFFICES ASSUME NEW g \in Fetches PROVE FetchOK(g)'
  BY DEF FetchesOK
<1>1. CASE g = f
  BY <1>1, FetchOKNext
<1>2. CASE g # f
  <2>1. FetchOK(g) /\ Same(g)
    BY <1>2 DEF FetchesOK
  <2> HIDE DEF FetchOK
  <2>2. IF g \in pending'
          THEN Holds(conn'[g], sock'[g], interest'[g], timer'[g], promise'[g])
          ELSE LetsGo(conn'[g], sock'[g], interest'[g], ready'[g], timer'[g],
                      promise'[g])
    BY <2>1 DEF FetchOK, Same
  <2> QED BY <2>2, FetchOKNext
<1> QED BY <1>1, <1>2

\* js_fetch_destroy, after the promise is settled, lets go of everything.
LEMMA DestroyedIsStepped ==
  ASSUME TypeOK, FetchesOK, NEW f \in Fetches, Settle(f), Destroy(f)
  PROVE  /\ Stepped(f) /\ f \notin pending' /\ pending' \subseteq pending
         /\ jobs' \in Nat
<1>1. /\ conn' = [conn EXCEPT ![f].state = "freed", ![f].fd = FALSE]
      /\ sock' = [sock EXCEPT ![f] = ClosedSock]
      /\ interest' = [interest EXCEPT ![f] = {}] /\ ready' = [ready EXCEPT ![f] = FALSE]
      /\ timer' = [timer EXCEPT ![f] = "off"] /\ promise' = [promise EXCEPT ![f] = "none"]
      /\ pending' = pending \ {f}
  BY DEF Settle, Destroy, EpollDel
<1>2. ClosedSock \in SockType
  BY DEF ClosedSock, SockType
<1>3. conn[f] \in ConnType
  BY DEF TypeOK
<1>4. /\ conn'[f] \in ConnType /\ conn'[f].state = "freed" /\ conn'[f].fd = FALSE
      /\ conn' = [conn EXCEPT ![f] = conn'[f]]
  BY <1>1, <1>3 DEF TypeOK, ConnType, ConnStates
<1>5. FetchesTyped'
  BY <1>1, <1>2, <1>4 DEF TypeOK, FetchesTyped, InOut
<1>6. \A g \in Fetches \ {f} : Same(g)
  BY <1>1, <1>4 DEF TypeOK, Same
<1>7. FetchesOK'
  <2>1. LetsGo(conn'[f], sock'[f], interest'[f], ready'[f], timer'[f], promise'[f])
    BY <1>1, <1>4 DEF TypeOK, LetsGo
  <2> QED BY <1>1, <1>6, <2>1, OthersKeep
<1>8. jobs' \in Nat
  BY DEF Settle, TypeOK
<1> QED BY <1>1, <1>5, <1>6, <1>7, <1>8 DEF Stepped

LEMMA FailedIsStepped ==
  ASSUME TypeOK, FetchesOK, NEW f \in Fetches, Fail(f)
  PROVE  Stepped(f) /\ f \notin pending' /\ pending' \subseteq pending /\ Outcome
<1>1. Settle(f) /\ Destroy(f)
  BY DEF Fail
<1>2. UNCHANGED verdict \/ Unhandled
  BY DEF Fail
<1> QED BY <1>1, <1>2, DestroyedIsStepped DEF Outcome

\* js_fetch_process settles the fetch or leaves it waiting for what its state
\* needs.
LEMMA ProcessIsStepped ==
  ASSUME TypeOK, FetchesOK, NEW f \in pending, NEW c \in ConnType, NEW s \in SockType,
         c.state \in {"error", "done"} \/ (LiveOK(c, s) /\ s.st = sock[f].st),
         Process(f, c, s)
  PROVE  /\ Stepped(f) /\ pending' \subseteq pending /\ Outcome
         /\ f \in pending' <=> c.state \notin {"error", "done"}
<1>1. f \in Fetches
  BY DEF TypeOK
<1>2. CASE c.state = "done" /\ Complete(f)
  BY <1>1, <1>2, DestroyedIsStepped DEF Complete, Outcome
<1>3. CASE c.state = "error" /\ Fail(f)
  BY <1>1, <1>3, FailedIsStepped
<1>4. CASE /\ c.state \notin {"done", "error"}
           /\ conn' = [conn EXCEPT ![f] = c]
           /\ sock' = [sock EXCEPT ![f] = s]
           /\ EpollMod(f, InterestOf(c.state), s)
           /\ UNCHANGED <<pending, timer, promise, jobs, verdict>>
  <2> DEFINE ev == InterestOf(c.state)
             r  == ready[f] \/ Deliverable(ev, s) # {}
  <2>1. interest' = [interest EXCEPT ![f] = ev] /\ ready' = [ready EXCEPT ![f] = r]
    BY <1>4 DEF EpollMod
  <2>2. ev \in SUBSET InOut /\ ev \in SUBSET {"in", "out"} /\ r \in BOOLEAN
    BY <1>1 DEF InterestOf, InOut, TypeOK
  <2>3. FetchOK(f) /\ LiveOK(c, s) /\ s.st = sock[f].st
    BY <1>1, <1>4 DEF FetchesOK
  <2>4. CanProgress(c, s) => r
    BY <2>2, <2>3, ProgressIsDeliverable
  <2> HIDE DEF ev, r
  <2>5. FetchesTyped'
    BY <1>1, <1>4, <2>1, <2>2 DEF TypeOK, FetchesTyped
  <2>6. \A g \in Fetches \ {f} : Same(g)
    BY <1>1, <1>4, <2>1 DEF TypeOK, Same
  <2>7. /\ conn'[f] = c /\ sock'[f] = s /\ interest'[f] = ev /\ ready'[f] = r
        /\ timer'[f] = timer[f] /\ promise'[f] = promise[f] /\ f \in pending'
    BY <1>1, <1>4, <2>1 DEF TypeOK
  <2>8. Holds(c, s, ev, timer[f], promise[f])
    <3>1. ev = InterestOf(c.state)
      BY DEF ev
    <3> QED BY <2>3, <3>1 DEF FetchOK, Holds
  <2>9. FetchesOK'
    BY <1>1, <2>6, <2>7, <2>8, OthersKeep
  <2> QED BY <1>4, <2>4, <2>5, <2>6, <2>7, <2>9 DEF Stepped, Outcome, TypeOK
<1> QED BY <1>2, <1>3, <1>4 DEF Process

-----------------------------------------------------------------------------
(* The parts of the invariant in the next state *)

\* The rest of TypeOK.
RestTyped ==
  /\ phase \in {"top", "call", "jobs", "job", "poll", "dispatch", "expire",
                "free", "done", "crashed"}
  /\ run \in {"module", "iteration"}
  /\ expiring \subseteq Fetches
  /\ jobs \in Nat /\ calls \in 0 .. MaxFetches /\ late \in 0 .. LateHandlers
  /\ flag \in BOOLEAN /\ noted \in BOOLEAN /\ rejected \in Nat
  /\ deadline \in BOOLEAN
  /\ stats \in [requests : Nat, errors : Nat, ok : Nat]
  /\ batch \in [Fetches -> SUBSET {"in", "out", "err"}]
  /\ cur \in Fetches \cup {NoFetch}
  /\ use_tls \in BOOLEAN /\ faults \subseteq Faults

LEMMA TypeIsTyped == TypeOK <=> FetchesTyped /\ RestTyped
  BY DEF TypeOK, FetchesTyped, RestTyped

LEMMA TypeNext ==
  ASSUME FetchesTyped', RestTyped'
  PROVE  TypeOK'
  BY DEF TypeOK, FetchesTyped, RestTyped, ConnType, SockType, InOut, ConnStates,
         LiveStates, Pieces, Reqs, NoReq, NoFetch, Faults

LEMMA WakeupNext ==
  NoLostWakeup' <=>
    \A g \in Fetches : g \in pending' /\ CanProgress(conn'[g], sock'[g]) =>
                         ready'[g] \/ batch'[g] # {}
  BY DEF NoLostWakeup, CanProgress, Live, LiveStates

LEMMA SteppedKeepsWakeup ==
  ASSUME NoLostWakeup, NEW f \in Fetches, Stepped(f),
         \A g \in Fetches \ {f} : batch'[g] = batch[g]
  PROVE  NoLostWakeup'
<1> SUFFICES ASSUME NEW g \in Fetches, g \in pending', CanProgress(conn'[g], sock'[g])
             PROVE  ready'[g] \/ batch'[g] # {}
  BY WakeupNext
<1>1. CASE g = f
  BY <1>1 DEF Stepped
<1>2. CASE g # f
  <2>1. Same(g) /\ batch'[g] = batch[g]
    BY <1>2 DEF Stepped
  <2> QED BY <2>1 DEF Same, NoLostWakeup
<1> QED BY <1>1, <1>2

\* A fetch is in the list exactly when its connection is live.
LEMMA FreeIsNotPending ==
  ASSUME FetchesOK, NEW f \in Fetches
  PROVE  Free(f) <=> f \notin pending
  BY DEF FetchesOK, FetchOK, Holds, LetsGo, LiveOK, Live, LiveStates, Free

LEMMA FreeNext ==
  ASSUME FetchesOK', NEW f \in Fetches
  PROVE  Free(f)' <=> f \notin pending'
<1>1. FetchOK(f)'
  BY DEF FetchesOK
<1> QED BY <1>1, FetchOKNext DEF Holds, LetsGo, LiveOK, Live, LiveStates, Free

\* Nothing is left to dispatch or to expire outside those phases.
LEMMA Quiet ==
  ASSUME IInv, phase \notin {"dispatch", "crashed"}
  PROVE  /\ \A f \in Fetches : batch[f] = {}
         /\ cur = NoFetch
         /\ phase # "expire" => expiring = {}
  BY DEF IInv, DispatchOK

\* One handler of an event of f has run: B is what is left of the event.
LEMMA EventKeeps ==
  ASSUME IInv, NEW f \in Fetches, Stepped(f), pending' \subseteq pending, Outcome,
         NEW B \in SUBSET {"in", "out", "err"},
         phase = "dispatch", cur \in {f, NoFetch}, cur' \in {f, NoFetch},
         batch' = [batch EXCEPT ![f] = B],
         cur' = f => B = {"in"},
         B # {} /\ f \notin pending' => cur' = f,
         UNCHANGED <<phase, run, stats, expiring, deadline, config, history>>
  PROVE  IInv'
<1>1. /\ batch'[f] = B /\ batch' \in [Fetches -> SUBSET {"in", "out", "err"}]
      /\ \A g \in Fetches \ {f} : batch'[g] = batch[g]
      /\ NoFetch \notin Fetches
  BY FetchesAssumption DEF IInv, TypeOK
<1>2. TypeOK'
  <2>1. /\ flag' \in BOOLEAN /\ noted' \in BOOLEAN /\ rejected' \in Nat /\ jobs' \in Nat
    BY VerdictTyped DEF Outcome, IInv
  <2>2. RestTyped
    BY TypeIsTyped DEF IInv
  <2>3. UNCHANGED <<phase, run, stats, expiring, deadline, calls, late, use_tls, faults>>
    BY DEF config, history
  <2>4. cur' \in Fetches \cup {NoFetch}
    OBVIOUS
  <2>5. RestTyped'
    BY <1>1, <2>1, <2>2, <2>3, <2>4 DEF RestTyped
  <2> QED BY <2>5, TypeNext DEF Stepped
<1>3. FetchesOK'
  BY DEF Stepped
<1>4. DispatchOK'
  <2>1. expiring' = {}
    BY DEF IInv, DispatchOK
  <2>2. cur' # NoFetch => batch'[cur'] = {"in"}
    BY <1>1
  <2>3. phase' = "dispatch" /\ expiring' \subseteq pending'
    BY <2>1
  <2> QED BY <2>1, <2>2, <2>3 DEF DispatchOK, NoFetch
<1>5. NoLostWakeup'
  BY <1>1, SteppedKeepsWakeup DEF IInv
<1>6. OnlyOwnEventDangles'
  <2> SUFFICES ASSUME NEW g \in Fetches, batch'[g] # {}, Free(g)'
               PROVE  cur' = g /\ batch'[g] = {"in"}
    BY DEF OnlyOwnEventDangles
  <2>1. CASE g = f
    BY <1>1, <1>3, <2>1, FreeNext
  <2>2. CASE g # f
    <3>1. Same(g) /\ batch[g] # {}
      BY <1>1, <2>2 DEF Stepped
    <3>2. Free(g)
      BY <1>3, <3>1, FreeNext, FreeIsNotPending DEF Same, IInv
    <3>3. cur = g
      BY <3>1, <3>2 DEF IInv, OnlyOwnEventDangles
    <3> QED BY <1>1, <2>2, <3>3
  <2> QED BY <2>1, <2>2
<1>7. VerdictOK'
  BY DEF IInv, TypeOK, VerdictOK, InLoop, Outcome, Unhandled, verdict
<1> QED BY <1>2, <1>3, <1>4, <1>5, <1>6, <1>7 DEF IInv

\* A step that touches no fetch and no event, from a phase where no event is
\* left or without leaving the phase.
LEMMA ControlKeeps ==
  ASSUME IInv, UNCHANGED <<fetches, dispatcher, config>>,
         RestTyped', VerdictOK',
         \/ phase' = phase
         \/ phase \notin {"dispatch", "crashed"} /\ (phase = "expire" => expiring = {})
  PROVE  IInv'
<1>1. UNCHANGED <<pending, conn, timer, promise, sock, interest, ready, batch, cur, expiring>>
  BY DEF fetches, kernel, dispatcher
<1>2. TypeOK'
  <2>1. FetchesTyped'
    BY <1>1 DEF FetchesTyped, IInv, TypeOK, ConnType, SockType, InOut, ConnStates,
         LiveStates, Pieces, Reqs, NoReq
  <2> QED BY <2>1, TypeNext
<1>3. FetchesOK'
  BY <1>1 DEF IInv, FetchesOK, FetchOK, Holds, LetsGo, LiveOK, Live, LiveStates,
         InterestOf, InOut, ClosedSock
<1>4. DispatchOK'
  BY <1>1, Quiet DEF IInv, DispatchOK, NoFetch
<1>5. NoLostWakeup' /\ OnlyOwnEventDangles'
  BY <1>1 DEF IInv, NoLostWakeup, OnlyOwnEventDangles, Free, CanProgress, Live, LiveStates
<1> QED BY <1>2, <1>3, <1>4, <1>5 DEF IInv

-----------------------------------------------------------------------------
(* The invariant is inductive *)

LEMMA InitKeeps == Init => IInv
<1> SUFFICES ASSUME Init PROVE IInv
  OBVIOUS
<1>1. NoConn \in ConnType /\ NoConn.state = "none" /\ NoConn.fd = FALSE
  BY RequestCountAssumption, ReqLenAssumption DEF NoConn, ConnType, ConnStates, Reqs
<1>2. ClosedSock \in SockType
  BY DEF ClosedSock, SockType
<1>3. TypeOK
  <2>1. FetchesTyped
    BY <1>1, <1>2 DEF Init, FetchesTyped
  <2>2. stats \in [requests : Nat, errors : Nat, ok : Nat]
    BY DEF Init
  <2>3. /\ use_tls \in BOOLEAN /\ faults \subseteq Faults
        /\ calls \in 0 .. MaxFetches /\ late \in 0 .. LateHandlers
    BY BoundsAssumption DEF Init
  <2>4. /\ batch \in [Fetches -> SUBSET {"in", "out", "err"}] /\ cur = NoFetch
        /\ phase = "call" /\ run = "module" /\ jobs = 0 /\ expiring = {}
        /\ flag = FALSE /\ noted = FALSE /\ rejected = 0 /\ deadline = FALSE
    BY DEF Init
  <2>5. RestTyped
    BY <2>2, <2>3, <2>4 DEF RestTyped
  <2> QED BY <2>1, <2>5, TypeIsTyped
<1>4. FetchesOK
  BY <1>1 DEF Init, FetchesOK, FetchOK, LetsGo
<1>5. DispatchOK /\ NoLostWakeup /\ OnlyOwnEventDangles /\ VerdictOK
  BY DEF Init, DispatchOK, NoLostWakeup, OnlyOwnEventDangles, VerdictOK, InLoop
<1> QED BY <1>3, <1>4, <1>5 DEF IInv

\* js_fetch on a connection that has just begun to connect.
LEMMA CallFetchKeeps ==
  ASSUME IInv, NEW f \in Fetches, NEW s \in FreshSocks, CallFetch(f, s)
  PROVE  IInv'
<1> DEFINE c == [SetOutput(NoConn, 0) EXCEPT !.state = "connecting", !.fd = TRUE]
           r == Deliverable(InOut, s) # {}
<1>1. /\ phase \in {"call", "job"} /\ calls < MaxFetches
      /\ conn' = [conn EXCEPT ![f] = c] /\ sock' = [sock EXCEPT ![f] = s]
      /\ timer' = [timer EXCEPT ![f] = "armed"] /\ promise' = [promise EXCEPT ![f] = "loose"]
      /\ interest' = [interest EXCEPT ![f] = InOut] /\ ready' = [ready EXCEPT ![f] = r]
      /\ pending' = pending \cup {f} /\ calls' = calls + 1
      /\ UNCHANGED <<phase, run, jobs, verdict, stats, dispatcher, deadline, config, late>>
  BY DEF CallFetch, Register, EpollAdd
<1>2. /\ c \in ConnType /\ c.state = "connecting" /\ c.fd /\ c.out = c.req_index
      /\ c.left = ReqLen
  <2> DEFINE n == SetOutput(NoConn, 0)
  <2>1. 0 \in Reqs /\ ReqLen \in 0 .. ReqLen
    BY RequestCountAssumption, ReqLenAssumption DEF Reqs
  <2>2. NoConn \in ConnType /\ NoConn.req_index = 0
    BY <2>1, ReqLenAssumption DEF NoConn, ConnType, ConnStates
  <2>3. n = [NoConn EXCEPT !.out = 0, !.left = ReqLen]
    BY DEF SetOutput
  <2>4. n \in ConnType /\ n.req_index = 0 /\ n.out = 0 /\ n.left = ReqLen
    <3> HIDE DEF n
    <3> QED BY <2>1, <2>2, <2>3 DEF ConnType
  <2>5. c = [n EXCEPT !.state = "connecting", !.fd = TRUE]
    OBVIOUS
  <2> HIDE DEF c, n
  <2> QED BY <2>4, <2>5 DEF ConnType, ConnStates, LiveStates
<1>3. s \in SockType /\ s.full = FALSE /\ s.st # "closed"
  BY DEF FreshSocks, ClosedSock, SockType
<1> HIDE DEF c
<1>4. LiveOK(c, s) /\ InterestOf(c.state) \subseteq InOut
  BY <1>2, <1>3, ReqLenAssumption DEF LiveOK, Live, LiveStates, InterestOf
<1>5. CanProgress(c, s) => r
  BY <1>2, <1>3, <1>4, ProgressIsDeliverable DEF InOut
<1>6. r \in BOOLEAN
  OBVIOUS
<1> HIDE DEF r
<1>7. FetchesTyped'
  BY <1>1, <1>2, <1>3, <1>6 DEF IInv, TypeOK, FetchesTyped, InOut
<1>8. \A g \in Fetches \ {f} : Same(g)
  BY <1>1 DEF IInv, TypeOK, Same
<1>9. /\ conn'[f] = c /\ sock'[f] = s /\ interest'[f] = InOut /\ ready'[f] = r
      /\ timer'[f] = "armed" /\ promise'[f] = "loose" /\ f \in pending'
  BY <1>1 DEF IInv, TypeOK
<1>10. FetchesOK'
  <2>1. Holds(c, s, InOut, "armed", "loose")
    BY <1>3, <1>4 DEF Holds
  <2> QED BY <1>8, <1>9, <2>1, OthersKeep DEF IInv
<1>11. UNCHANGED <<batch, cur, expiring>> /\ \A g \in Fetches : batch[g] = {}
  BY <1>1, Quiet DEF dispatcher
<1>12. TypeOK'
  <2>1. calls' \in 0 .. MaxFetches
    BY <1>1, BoundsAssumption DEF IInv, TypeOK
  <2>2. RestTyped'
    BY <1>1, <1>11, <2>1 DEF RestTyped, IInv, TypeOK, verdict, config, history, NoFetch, Faults
  <2> QED BY <1>7, <2>2, TypeNext
<1>13. DispatchOK'
  BY <1>1, <1>11 DEF IInv, DispatchOK, NoFetch
<1>14. NoLostWakeup'
  BY <1>5, <1>7, <1>8, <1>9, <1>10, <1>11, SteppedKeepsWakeup DEF IInv, Stepped
<1>15. OnlyOwnEventDangles'
  BY <1>11 DEF OnlyOwnEventDangles
<1>16. VerdictOK'
  BY <1>1 DEF IInv, VerdictOK, InLoop, verdict
<1> QED BY <1>10, <1>12, <1>13, <1>14, <1>15, <1>16 DEF IInv

LEMMA OnErrorKeeps ==
  ASSUME IInv, NEW f \in Fetches, OnError(f)
  PROVE  IInv'
<1> DEFINE c == [conn[f] EXCEPT !.state = "error"]
<1>1. /\ phase = "dispatch" /\ cur = NoFetch /\ "err" \in batch[f]
      /\ Process(f, c, sock[f])
      /\ batch' = [batch EXCEPT ![f] = {}]
      /\ UNCHANGED <<phase, run, stats, cur, expiring, deadline, config, history>>
  BY DEF OnError
<1>2. f \in pending
  BY <1>1, FreeIsNotPending DEF IInv, OnlyOwnEventDangles
<1>3. c \in ConnType /\ c.state = "error" /\ sock[f] \in SockType
  BY DEF IInv, TypeOK, ConnType, ConnStates
<1> HIDE DEF c
<1>4. Stepped(f) /\ pending' \subseteq pending /\ Outcome
  BY <1>1, <1>2, <1>3, ProcessIsStepped DEF IInv
<1>5. cur' = NoFetch /\ NoFetch \notin Fetches
  BY <1>1, FetchesAssumption
<1> QED BY <1>1, <1>4, <1>5, EventKeeps

LEMMA OnWriteKeeps ==
  ASSUME IInv, NEW f \in Fetches, OnWrite(f)
  PROVE  IInv'
<1>1. PICK w \in ConnWrite(conn[f], sock[f], use_tls) : Process(f, w.c, w.s)
  BY DEF OnWrite
<1>2. /\ phase = "dispatch" /\ cur = NoFetch /\ "err" \notin batch[f] /\ "out" \in batch[f]
      /\ batch' = [batch EXCEPT ![f] = batch[f] \ {"out"}]
      /\ cur' = IF "in" \in batch[f] THEN f ELSE NoFetch
      /\ UNCHANGED <<phase, run, stats, expiring, deadline, config, history>>
  BY DEF OnWrite
<1>3. f \in pending
  BY <1>2, FreeIsNotPending DEF IInv, OnlyOwnEventDangles
<1>4. /\ conn[f] \in ConnType /\ sock[f] \in SockType /\ use_tls \in BOOLEAN
      /\ LiveOK(conn[f], sock[f])
  BY <1>3 DEF IInv, TypeOK, FetchesOK, FetchOK, Holds
<1>5. /\ w.c \in ConnType /\ w.s \in SockType
      /\ w.c.state \in {"error", "done"} \/ (LiveOK(w.c, w.s) /\ w.s.st = sock[f].st)
  BY <1>1, <1>4, ConnWriteOutcome
<1>6. Stepped(f) /\ pending' \subseteq pending /\ Outcome
  BY <1>1, <1>3, <1>5, ProcessIsStepped DEF IInv
<1> DEFINE B == batch[f] \ {"out"}
<1>7. B \in SUBSET {"in", "out", "err"} /\ (B # {} => B = {"in"} /\ cur' = f)
  BY <1>2 DEF IInv, TypeOK
<1>8. cur' = f => B = {"in"}
  BY <1>2, <1>7, FetchesAssumption
<1>9. cur' \in {f, NoFetch}
  BY <1>2
<1> QED BY <1>2, <1>6, <1>7, <1>8, <1>9, EventKeeps

LEMMA OnReadKeeps ==
  ASSUME IInv, NEW f \in Fetches, OnRead(f)
  PROVE  IInv'
<1>1. PICK r \in ConnRead(conn[f], sock[f], use_tls) : Process(f, AfterRead(r), r.s)
  BY DEF OnRead
<1>2. /\ phase = "dispatch" /\ cur \in {f, NoFetch} /\ ~Free(f)
      /\ batch' = [batch EXCEPT ![f] = {}] /\ cur' = NoFetch
      /\ UNCHANGED <<phase, run, stats, expiring, deadline, config, history>>
  BY DEF OnRead
<1>3. f \in pending
  BY <1>2, FreeIsNotPending DEF IInv
<1>4. /\ conn[f] \in ConnType /\ sock[f] \in SockType /\ use_tls \in BOOLEAN
      /\ LiveOK(conn[f], sock[f])
  BY <1>3 DEF IInv, TypeOK, FetchesOK, FetchOK, Holds
<1>5. /\ AfterRead(r) \in ConnType /\ r.s \in SockType
      /\ \/ AfterRead(r).state \in {"error", "done"}
         \/ LiveOK(AfterRead(r), r.s) /\ r.s.st = sock[f].st
  BY <1>1, <1>4, ConnReadOutcome
<1>6. Stepped(f) /\ pending' \subseteq pending /\ Outcome
  BY <1>1, <1>3, <1>5, ProcessIsStepped DEF IInv
<1>7. cur' # f
  BY <1>2, FetchesAssumption
<1> QED BY <1>2, <1>6, <1>7, EventKeeps

\* The read handler of an event whose fetch is gone.
LEMMA OnReadFreedKeeps ==
  ASSUME IInv, NEW f \in Fetches, OnReadFreed(f)
  PROVE  IInv'
<1>1. /\ phase = "dispatch" /\ cur \in {f, NoFetch} /\ Free(f)
      /\ phase' \in {"dispatch", "crashed"}
      /\ batch' = [batch EXCEPT ![f] = {}] /\ cur' = NoFetch
      /\ UNCHANGED <<run, fetches, jobs, verdict, stats, expiring, deadline, config, history>>
      /\ UNCHANGED <<pending, conn, timer, promise, sock, interest, ready>>
  BY DEF OnReadFreed, fetches, kernel
<1>2. /\ batch'[f] = {} /\ batch' \in [Fetches -> SUBSET {"in", "out", "err"}]
      /\ \A g \in Fetches \ {f} : batch'[g] = batch[g]
  BY <1>1 DEF IInv, TypeOK
<1>3. TypeOK'
  <2>1. FetchesTyped'
    BY <1>1 DEF FetchesTyped, IInv, TypeOK, ConnType, SockType, InOut, ConnStates,
         LiveStates, Pieces, Reqs, NoReq
  <2>2. RestTyped'
    BY <1>1, <1>2 DEF RestTyped, IInv, TypeOK, verdict, config, history, NoFetch, Faults
  <2> QED BY <2>1, <2>2, TypeNext
<1>4. FetchesOK'
  BY <1>1 DEF IInv, FetchesOK, FetchOK, Holds, LetsGo, LiveOK, Live, LiveStates,
         InterestOf, InOut, ClosedSock
<1>5. DispatchOK'
  BY <1>1, <1>2 DEF IInv, DispatchOK, NoFetch
<1>6. NoLostWakeup'
  <2>1. f \notin pending
    BY <1>1, FreeIsNotPending DEF IInv
  <2>2. \A g \in Fetches : g \in pending /\ CanProgress(conn[g], sock[g]) =>
                             ready[g] \/ batch'[g] # {}
    BY <1>2, <2>1 DEF IInv, NoLostWakeup
  <2> QED BY <1>1, <2>2, WakeupNext
<1>7. OnlyOwnEventDangles'
  <2> SUFFICES ASSUME NEW g \in Fetches, batch'[g] # {}, Free(g) PROVE FALSE
    BY <1>1 DEF OnlyOwnEventDangles, Free
  <2>1. g # f /\ batch[g] # {}
    BY <1>2
  <2>2. cur = g
    BY <2>1 DEF IInv, OnlyOwnEventDangles
  <2> QED BY <1>1, <2>1, <2>2, FetchesAssumption
<1>8. VerdictOK'
  BY <1>1 DEF IInv, VerdictOK, InLoop, verdict
<1> QED BY <1>3, <1>4, <1>5, <1>6, <1>7, <1>8 DEF IInv

\* Events are taken from the ready list; what could go on is told of them.
LEMMA PollKeeps ==
  ASSUME IInv, NEW B \in SUBSET Fetches, Poll(B)
  PROVE  IInv'
<1>1.   /\ batch' = [f \in Fetches |-> IF f \in B
                       THEN Deliverable(interest[f], sock[f]) ELSE {}]
        /\ ready' = [f \in Fetches |-> ready[f] /\ f \notin B]
  BY DEF Poll, StillReady
<1>2. /\ phase = "poll" /\ phase' = "dispatch"
      /\ UNCHANGED <<run, pending, conn, timer, promise, sock, interest, jobs,
                     verdict, stats, cur, expiring, deadline, config, history>>
  BY DEF Poll
<1>3. (\A f \in Fetches : batch[f] = {}) /\ cur = NoFetch /\ expiring = {}
  BY <1>2, Quiet
<1>4. TypeOK'
  <2>1. FetchesTyped'
    <3>1. ready' \in [Fetches -> BOOLEAN]
      BY <1>1 DEF IInv, TypeOK
    <3> QED BY <1>2, <3>1 DEF FetchesTyped, IInv, TypeOK, ConnType, SockType, InOut,
              ConnStates, LiveStates, Pieces, Reqs, NoReq
  <2>2. batch' \in [Fetches -> SUBSET {"in", "out", "err"}]
    <3>1. \A f \in Fetches : Deliverable(interest[f], sock[f]) \in SUBSET {"in", "out", "err"}
      BY DEF Deliverable, Mask, IInv, TypeOK, InOut
    <3> QED BY <1>1, <3>1
  <2>3. RestTyped'
    BY <1>2, <2>2 DEF RestTyped, IInv, TypeOK, verdict, config, history, NoFetch, Faults
  <2> QED BY <2>1, <2>3, TypeNext
<1>5. FetchesOK'
  <2> SUFFICES ASSUME NEW f \in Fetches PROVE FetchOK(f)'
    BY DEF FetchesOK
  <2>1. FetchOK(f) /\ (ready'[f] => ready[f])
    BY <1>1 DEF IInv, FetchesOK
  <2>2. IF f \in pending'
          THEN Holds(conn'[f], sock'[f], interest'[f], timer'[f], promise'[f])
          ELSE LetsGo(conn'[f], sock'[f], interest'[f], ready'[f], timer'[f],
                      promise'[f])
    BY <1>2, <2>1 DEF FetchOK, LetsGo
  <2> QED BY <2>2, FetchOKNext
<1>6. DispatchOK'
  BY <1>2, <1>3 DEF DispatchOK, NoFetch
<1>7. NoLostWakeup'
  <2> SUFFICES ASSUME NEW f \in Fetches, f \in pending, CanProgress(conn[f], sock[f])
               PROVE  ready'[f] \/ batch'[f] # {}
    BY <1>2, WakeupNext
  <2>1. ready[f]
    BY <1>3 DEF IInv, NoLostWakeup
  <2>2. Deliverable(interest[f], sock[f]) # {}
    <3>1. Holds(conn[f], sock[f], interest[f], timer[f], promise[f])
      BY DEF IInv, FetchesOK, FetchOK
    <3>2. /\ conn[f] \in ConnType /\ sock[f] \in SockType
          /\ interest[f] \in SUBSET {"in", "out"}
      BY DEF IInv, TypeOK, InOut
    <3> QED BY <3>1, <3>2, ProgressIsDeliverable DEF Holds
  <2> QED BY <1>1, <2>1, <2>2
<1>8. OnlyOwnEventDangles'
  <2> SUFFICES ASSUME NEW f \in Fetches, batch'[f] # {}, Free(f) PROVE FALSE
    BY <1>2 DEF OnlyOwnEventDangles, Free
  <2>1. interest[f] # {}
    BY <1>1 DEF Deliverable
  <2> QED BY <2>1, FreeIsNotPending DEF IInv, FetchesOK, FetchOK, LetsGo
<1>9. VerdictOK'
  BY <1>2 DEF IInv, VerdictOK, InLoop, verdict
<1> QED BY <1>4, <1>5, <1>6, <1>7, <1>8, <1>9 DEF IInv

LEMMA ExpireKeeps ==
  ASSUME IInv, Expire
  PROVE  IInv'
<1>1. /\ phase = "dispatch" /\ phase' = "expire" /\ \A f \in Fetches : batch[f] = {}
      /\ expiring' = {f \in Fetches : timer[f] = "passed"}
      /\ UNCHANGED <<run, fetches, jobs, verdict, stats, batch, cur, deadline, config, history>>
      /\ UNCHANGED <<pending, conn, timer, promise, sock, interest, ready>>
  BY DEF Expire, BatchDone, Due, fetches, kernel
<1>2. cur = NoFetch
  BY <1>1 DEF IInv, DispatchOK, TypeOK
<1>3. expiring' \subseteq pending
  BY <1>1 DEF IInv, FetchesOK, FetchOK, LetsGo
<1>4. TypeOK'
  <2>1. FetchesTyped'
    BY <1>1 DEF FetchesTyped, IInv, TypeOK, ConnType, SockType, InOut, ConnStates,
         LiveStates, Pieces, Reqs, NoReq
  <2>2. RestTyped'
    BY <1>1, <1>3 DEF RestTyped, IInv, TypeOK, verdict, config, history, NoFetch, Faults
  <2> QED BY <2>1, <2>2, TypeNext
<1>5. FetchesOK'
  BY <1>1 DEF IInv, FetchesOK, FetchOK, Holds, LetsGo, LiveOK, Live, LiveStates,
         InterestOf, InOut, ClosedSock
<1>6. DispatchOK'
  BY <1>1, <1>2, <1>3 DEF DispatchOK, NoFetch
<1>7. NoLostWakeup' /\ OnlyOwnEventDangles'
  BY <1>1 DEF IInv, NoLostWakeup, OnlyOwnEventDangles, Free, CanProgress, Live, LiveStates
<1>8. VerdictOK'
  BY <1>1 DEF IInv, VerdictOK, InLoop, verdict
<1> QED BY <1>4, <1>5, <1>6, <1>7, <1>8 DEF IInv

LEMMA TimesOutKeeps ==
  ASSUME IInv, NEW f \in Fetches, TimesOut(f)
  PROVE  IInv'
<1>1. /\ phase = "expire" /\ f \in expiring /\ expiring' = expiring \ {f} /\ Fail(f)
      /\ UNCHANGED <<phase, run, stats, batch, cur, deadline, config, history>>
  BY DEF TimesOut
<1>2. Stepped(f) /\ f \notin pending' /\ pending' \subseteq pending /\ Outcome
  BY <1>1, FailedIsStepped DEF IInv
<1>3. (\A g \in Fetches : batch[g] = {}) /\ cur = NoFetch
  BY <1>1, Quiet
<1>4. TypeOK'
  <2>1. /\ flag' \in BOOLEAN /\ noted' \in BOOLEAN /\ rejected' \in Nat /\ jobs' \in Nat
    BY <1>2, VerdictTyped DEF Outcome, IInv
  <2>2. RestTyped'
    BY <1>1, <2>1 DEF RestTyped, IInv, TypeOK, config, history, NoFetch, Faults
  <2> QED BY <1>2, <2>2, TypeNext DEF Stepped
<1>5. DispatchOK'
  <2>1. \A g \in expiring' : g \in pending'
    BY <1>1, <1>2 DEF IInv, DispatchOK, TypeOK, Stepped, Same
  <2> QED BY <1>1, <1>3, <2>1 DEF DispatchOK, NoFetch
<1>6. NoLostWakeup' /\ FetchesOK'
  BY <1>1, <1>2, SteppedKeepsWakeup DEF IInv, Stepped
<1>7. OnlyOwnEventDangles'
  BY <1>1, <1>3 DEF OnlyOwnEventDangles
<1>8. VerdictOK'
  BY <1>1, <1>2 DEF IInv, TypeOK, VerdictOK, InLoop, Outcome, Unhandled, verdict
<1> QED BY <1>4, <1>5, <1>6, <1>7, <1>8 DEF IInv

\* js_loop_free lets go of everything that is pending.
LEMMA CleanupKeeps ==
  ASSUME IInv, Cleanup
  PROVE  IInv'
<1>1. /\ phase = "free" /\ phase' = "done" /\ pending' = {} /\ jobs' = 0
      /\ conn' = [f \in Fetches |-> IF f \in pending
                   THEN [conn[f] EXCEPT !.state = "freed", !.fd = FALSE] ELSE conn[f]]
      /\ sock' = [f \in Fetches |-> IF f \in pending THEN ClosedSock ELSE sock[f]]
      /\ interest' = [f \in Fetches |-> IF f \in pending THEN {} ELSE interest[f]]
      /\ ready' = [f \in Fetches |-> ready[f] /\ f \notin pending]
      /\ timer' = [f \in Fetches |-> IF f \in pending THEN "off" ELSE timer[f]]
      /\ promise' = [f \in Fetches |-> "none"]
      /\ UNCHANGED <<run, verdict, stats, dispatcher, deadline, config, history>>
      /\ UNCHANGED <<batch, cur, expiring>>
  BY DEF Cleanup, dispatcher
<1>2. (\A g \in Fetches : batch[g] = {}) /\ cur = NoFetch /\ expiring = {}
  BY <1>1, Quiet
<1>3. ClosedSock \in SockType
  BY DEF ClosedSock, SockType
<1>4. ASSUME NEW f \in Fetches
      PROVE  /\ conn'[f] \in ConnType /\ sock'[f] \in SockType
             /\ interest'[f] \in SUBSET InOut /\ timer'[f] = "off" /\ promise'[f] = "none"
             /\ LetsGo(conn'[f], sock'[f], interest'[f], ready'[f], timer'[f], promise'[f])
  <2>1. FetchOK(f) /\ conn[f] \in ConnType /\ sock[f] \in SockType /\ interest[f] \in SUBSET InOut
    BY DEF IInv, FetchesOK, TypeOK
  <2>2. promise'[f] = "none" /\ (ready'[f] <=> ready[f] /\ f \notin pending)
    BY <1>1
  <2>3. CASE f \in pending
    <3>1. /\ conn'[f] = [conn[f] EXCEPT !.state = "freed", !.fd = FALSE]
          /\ sock'[f] = ClosedSock /\ interest'[f] = {} /\ timer'[f] = "off"
      BY <1>1, <2>3
    <3>2. conn'[f] \in ConnType /\ conn'[f].state = "freed" /\ conn'[f].fd = FALSE
      BY <2>1, <3>1 DEF ConnType, ConnStates
    <3> QED BY <1>3, <2>2, <2>3, <3>1, <3>2 DEF LetsGo
  <2>4. CASE f \notin pending
    <3>1. /\ conn'[f] = conn[f] /\ sock'[f] = sock[f] /\ interest'[f] = interest[f]
          /\ timer'[f] = timer[f]
      BY <1>1, <2>4
    <3> QED BY <2>1, <2>2, <2>4, <3>1 DEF FetchOK, LetsGo
  <2> QED BY <2>3, <2>4
<1>5. TypeOK'
  <2>1. /\ conn' \in [Fetches -> ConnType] /\ sock' \in [Fetches -> SockType]
        /\ interest' \in [Fetches -> SUBSET InOut] /\ pending' \subseteq Fetches
    <3>1. DOMAIN conn' = Fetches /\ DOMAIN sock' = Fetches /\ DOMAIN interest' = Fetches
      BY <1>1
    <3> HIDE DEF ConnType, SockType, InOut
    <3> QED BY <1>1, <1>4
  <2>2. ready' \in [Fetches -> BOOLEAN]
    BY <1>1
  <2>3. /\ timer' \in [Fetches -> {"off", "armed", "passed"}]
        /\ promise' \in [Fetches -> {"none", "awaited", "loose"}]
    BY <1>1 DEF IInv, TypeOK
  <2>4. FetchesTyped'
    BY <2>1, <2>2, <2>3 DEF FetchesTyped, ConnType, SockType, InOut, ConnStates,
         LiveStates, Pieces, Reqs, NoReq
  <2>5. RestTyped'
    BY <1>1 DEF RestTyped, IInv, TypeOK, verdict, config, history, NoFetch, Faults
  <2> QED BY <2>4, <2>5, TypeNext
<1>6. FetchesOK'
  <2> SUFFICES ASSUME NEW f \in Fetches PROVE FetchOK(f)'
    BY DEF FetchesOK
  <2> QED BY <1>1, <1>4, FetchOKNext
<1>7. DispatchOK'
  BY <1>1, <1>2 DEF DispatchOK, NoFetch
<1>8. NoLostWakeup' /\ OnlyOwnEventDangles'
  BY <1>1, <1>2 DEF NoLostWakeup, OnlyOwnEventDangles
<1>9. VerdictOK'
  BY <1>1 DEF IInv, VerdictOK, InLoop, verdict
<1> QED BY <1>5, <1>6, <1>7, <1>8, <1>9 DEF IInv

\* What the network does to a socket leaves it open, and its send buffer no
\* fuller than it was.
LEMMA NetStepOutcome ==
  ASSUME NEW s \in SockType, NEW n \in NetSteps(s)
  PROVE  /\ n \in SockType /\ n.wire = s.wire
         /\ n.full = s.full \/ n.full = FALSE
         /\ s.st # "closed" /\ n.st # "closed"
<1>1. CASE s.st = "syn"
  <2>1. PICK x \in {"est", "fail"} : n = [s EXCEPT !.st = x]
    BY <1>1 DEF NetSteps
  <2> QED BY <1>1, <2>1 DEF SockType
<1>2. CASE s.st = "est"
  <2>1. \/ n = [s EXCEPT !.st = "rst"]
        \/ n = [s EXCEPT !.fin = TRUE]
        \/ n = [s EXCEPT !.full = FALSE]
        \/ \E t \in {"flight", "bad"} : n = [s EXCEPT !.tls = t]
        \/ \E p \in Parts : n = [s EXCEPT !.rx = p, !.sent = p]
    BY <1>2 DEF NetSteps
  <2>2. CASE n = [s EXCEPT !.st = "rst"]
    BY <1>2, <2>2 DEF SockType
  <2>3. CASE n = [s EXCEPT !.fin = TRUE]
    BY <1>2, <2>3 DEF SockType
  <2>4. CASE n = [s EXCEPT !.full = FALSE]
    BY <1>2, <2>4 DEF SockType
  <2>5. ASSUME NEW t \in {"flight", "bad"}, n = [s EXCEPT !.tls = t]
        PROVE  n \in SockType /\ n.wire = s.wire /\ n.full = s.full /\ n.st = "est"
    BY <1>2, <2>5 DEF SockType
  <2>6. ASSUME NEW p \in Parts, n = [s EXCEPT !.rx = p, !.sent = p]
        PROVE  n \in SockType /\ n.wire = s.wire /\ n.full = s.full /\ n.st = "est"
    <3>1. p \in Pieces
      BY BoundsAssumption
    <3> QED BY <1>2, <2>6, <3>1 DEF SockType
  <2> QED BY <1>2, <2>1, <2>2, <2>3, <2>4, <2>5, <2>6
<1> QED BY <1>1, <1>2 DEF NetSteps

LEMMA NetworkKeeps ==
  ASSUME IInv, NEW f \in Fetches, Network(f)
  PROVE  IInv'
<1>1. PICK s \in NetSteps(sock[f]) :
        /\ sock' = [sock EXCEPT ![f] = s]
        /\ ready' = [ready EXCEPT ![f] = ready[f] \/ Deliverable(interest[f], s) # {}]
  BY DEF Network
<1>2. UNCHANGED <<phase, run, pending, conn, timer, promise, interest, jobs, verdict,
                  stats, dispatcher, deadline, config, history, batch, cur, expiring>>
  BY DEF Network, dispatcher
<1> DEFINE r == ready[f] \/ Deliverable(interest[f], s) # {}
<1>3. /\ sock[f] \in SockType /\ conn[f] \in ConnType /\ FetchOK(f)
      /\ interest[f] \in SUBSET {"in", "out"} /\ r \in BOOLEAN
  BY DEF IInv, TypeOK, FetchesOK, InOut
<1>4. /\ s \in SockType /\ s.wire = sock[f].wire
      /\ s.full = sock[f].full \/ s.full = FALSE
      /\ sock[f].st # "closed" /\ s.st # "closed"
  BY <1>1, <1>3, NetStepOutcome
<1>5. f \in pending
  BY <1>3, <1>4 DEF FetchOK, LetsGo, ClosedSock
<1>6. Holds(conn[f], s, interest[f], timer[f], promise[f])
  BY <1>3, <1>4, <1>5 DEF FetchOK, Holds, LiveOK
<1>7. CanProgress(conn[f], s) => r
  BY <1>3, <1>4, <1>6, ProgressIsDeliverable DEF Holds
<1>8. ready' = [ready EXCEPT ![f] = r]
  BY <1>1
<1> HIDE DEF r
<1>9. /\ sock'[f] = s /\ conn'[f] = conn[f] /\ interest'[f] = interest[f] /\ ready'[f] = r
      /\ timer'[f] = timer[f] /\ promise'[f] = promise[f] /\ f \in pending'
  BY <1>1, <1>2, <1>5, <1>8 DEF IInv, TypeOK
<1>10. \A g \in Fetches \ {f} : Same(g)
  BY <1>1, <1>2, <1>8 DEF IInv, TypeOK, Same
<1>11. FetchesOK'
  BY <1>6, <1>9, <1>10, OthersKeep DEF IInv
<1>12. FetchesTyped'
  <2>1. sock' \in [Fetches -> SockType] /\ ready' \in [Fetches -> BOOLEAN]
    BY <1>1, <1>3, <1>4, <1>8 DEF IInv, TypeOK
  <2> QED BY <1>2, <2>1 DEF FetchesTyped, IInv, TypeOK, ConnType, SockType, InOut,
            ConnStates, LiveStates, Pieces, Reqs, NoReq
<1>13. TypeOK'
  <2>1. RestTyped'
    BY <1>2 DEF RestTyped, IInv, TypeOK, verdict, config, history, NoFetch, Faults
  <2> QED BY <1>12, <2>1, TypeNext
<1>14. NoLostWakeup'
  <2>1. Stepped(f)
    BY <1>7, <1>9, <1>10, <1>11, <1>12 DEF Stepped
  <2> QED BY <1>2, <2>1, SteppedKeepsWakeup DEF IInv
<1>15. DispatchOK' /\ OnlyOwnEventDangles' /\ VerdictOK'
  BY <1>2 DEF IInv, DispatchOK, OnlyOwnEventDangles, VerdictOK, InLoop, Free, verdict
<1> QED BY <1>11, <1>13, <1>14, <1>15 DEF IInv

\* The time of a timer comes.
LEMMA TickKeeps ==
  ASSUME IInv, NEW f \in Fetches, Tick(f)
  PROVE  IInv'
<1>1. /\ timer[f] = "armed" /\ timer' = [timer EXCEPT ![f] = "passed"]
      /\ UNCHANGED <<phase, run, pending, conn, promise, sock, interest, ready, jobs,
                     verdict, stats, deadline, config, history, batch, cur, expiring>>
  BY DEF Tick, kernel, dispatcher
<1>2. f \in pending /\ FetchOK(f)
  BY <1>1 DEF IInv, FetchesOK, FetchOK, LetsGo
<1>3. timer'[f] = "passed" /\ \A g \in Fetches \ {f} : Same(g)
  BY <1>1 DEF IInv, TypeOK, Same
<1>4. FetchesOK'
  <2>1. Holds(conn'[f], sock'[f], interest'[f], timer'[f], promise'[f])
    BY <1>1, <1>2, <1>3 DEF FetchOK, Holds
  <2> QED BY <1>1, <1>2, <1>3, <2>1, OthersKeep DEF IInv
<1>5. TypeOK'
  <2>1. timer' \in [Fetches -> {"off", "armed", "passed"}]
    BY <1>1 DEF IInv, TypeOK
  <2>2. FetchesTyped'
    BY <1>1, <2>1 DEF FetchesTyped, IInv, TypeOK, ConnType, SockType, InOut, ConnStates,
         LiveStates, Pieces, Reqs, NoReq
  <2>3. RestTyped'
    BY <1>1 DEF RestTyped, IInv, TypeOK, verdict, config, history, NoFetch, Faults
  <2> QED BY <2>2, <2>3, TypeNext
<1>6. NoLostWakeup'
  BY <1>1 DEF IInv, NoLostWakeup, CanProgress, Live, LiveStates
<1>7. DispatchOK' /\ OnlyOwnEventDangles' /\ VerdictOK'
  BY <1>1 DEF IInv, DispatchOK, OnlyOwnEventDangles, VerdictOK, InLoop, Free, verdict
<1> QED BY <1>4, <1>5, <1>6, <1>7 DEF IInv

\* The promise of a fetch is awaited.
LEMMA AwaitKeeps ==
  ASSUME IInv, NEW f \in Fetches, Await(f)
  PROVE  IInv'
<1>1. /\ promise[f] = "loose" /\ promise' = [promise EXCEPT ![f] = "awaited"]
      /\ UNCHANGED <<phase, run, pending, conn, timer, sock, interest, ready, jobs,
                     verdict, stats, deadline, config, history, batch, cur, expiring>>
  BY DEF Await, kernel, dispatcher
<1>2. f \in pending /\ FetchOK(f)
  BY <1>1 DEF IInv, FetchesOK, FetchOK, LetsGo
<1>3. promise'[f] = "awaited" /\ \A g \in Fetches \ {f} : Same(g)
  BY <1>1 DEF IInv, TypeOK, Same
<1>4. FetchesOK'
  <2>1. Holds(conn'[f], sock'[f], interest'[f], timer'[f], promise'[f])
    BY <1>1, <1>2, <1>3 DEF FetchOK, Holds
  <2> QED BY <1>1, <1>2, <1>3, <2>1, OthersKeep DEF IInv
<1>5. TypeOK'
  <2>1. promise' \in [Fetches -> {"none", "awaited", "loose"}]
    BY <1>1 DEF IInv, TypeOK
  <2>2. FetchesTyped'
    BY <1>1, <2>1 DEF FetchesTyped, IInv, TypeOK, ConnType, SockType, InOut, ConnStates,
         LiveStates, Pieces, Reqs, NoReq
  <2>3. RestTyped'
    BY <1>1 DEF RestTyped, IInv, TypeOK, verdict, config, history, NoFetch, Faults
  <2> QED BY <2>2, <2>3, TypeNext
<1>6. NoLostWakeup'
  BY <1>1 DEF IInv, NoLostWakeup, CanProgress, Live, LiveStates
<1>7. DispatchOK' /\ OnlyOwnEventDangles' /\ VerdictOK'
  BY <1>1 DEF IInv, DispatchOK, OnlyOwnEventDangles, VerdictOK, InLoop, Free, verdict
<1> QED BY <1>4, <1>5, <1>6, <1>7 DEF IInv

\* js_loop_run returns: to the worker, or out of the module.
LEMMA ReturnsTyped ==
  ASSUME TypeOK, NEW rc, LoopReturns(rc)
  PROVE  /\ run' \in {"module", "iteration"} /\ phase' \in {"top", "free"}
         /\ stats' \in [requests : Nat, errors : Nat, ok : Nat]
<1>1. stats \in [requests : Nat, errors : Nat, ok : Nat]
  BY DEF TypeOK
<1>2. CASE ModuleEvaluated
  BY <1>1, <1>2 DEF ModuleEvaluated
<1>3. CASE IterationDone(rc)
  <2> DEFINE q == stats.requests + 1
             e == IF rc # 0 THEN stats.errors + 1 ELSE stats.errors
             k == IF rc = 0 THEN stats.ok + 1 ELSE stats.ok
  <2>1. q \in Nat /\ e \in Nat /\ k \in Nat
    BY <1>1
  <2>2. stats' = [stats EXCEPT !.requests = q, !.errors = e, !.ok = k]
    BY <1>3 DEF IterationDone
  <2> HIDE DEF q, e, k
  <2>3. stats' \in [requests : Nat, errors : Nat, ok : Nat]
    BY <1>1, <2>1, <2>2
  <2> QED BY <1>3, <2>3 DEF IterationDone, TypeOK
<1> QED BY <1>2, <1>3 DEF LoopReturns

\* The steps of the thread that touch no fetch: of the script,
LEMMA ScriptKeeps ==
  ASSUME IInv,
         \/ CallReturns \/ CallReturnsRejected \/ CallThrows
         \/ HandleLate \/ JobReturns \/ JobFails
  PROVE  IInv'
<1>1. TypeOK /\ RestTyped /\ VerdictOK
  BY TypeIsTyped DEF IInv
<1>2. CASE CallReturns
  <2>1. flag' \in BOOLEAN /\ jobs' \in Nat
    <3>1. jobs' = jobs \/ jobs' = jobs + 1
      BY <1>2 DEF CallReturns
    <3>2. flag' = FALSE \/ flag' = flag
      BY <1>2 DEF CallReturns, FlagAtRun
    <3>3. jobs' \in Nat
      BY <1>1, <3>1 DEF RestTyped
    <3>4. flag' \in BOOLEAN
      BY <1>1, <3>2, Zenon DEF RestTyped
    <3> QED BY <3>3, <3>4
  <2>2. RestTyped'
    BY <1>1, <1>2, <2>1 DEF CallReturns, RestTyped, dispatcher, config, history, NoFetch, Faults
  <2>3. VerdictOK'
    BY <1>1, <1>2 DEF CallReturns, VerdictOK, InLoop, FlagAtRun
  <2> QED BY <1>2, <2>2, <2>3, ControlKeeps DEF CallReturns
<1>3. CASE CallReturnsRejected
  <2>1. flag' \in BOOLEAN
    BY <1>3 DEF CallReturnsRejected, FlagAtRun
  <2>2. /\ CallRejects /\ phase' = "jobs" /\ noted' = TRUE /\ rejected' = rejected + 1
        /\ jobs' = jobs \/ jobs' = jobs + 1
        /\ UNCHANGED <<run, fetches, stats, dispatcher, deadline, config, history>>
    BY <1>3 DEF CallReturnsRejected
  <2>3. rejected' \in Nat /\ rejected' > 0 /\ jobs' \in Nat
    BY <1>1, <2>2 DEF RestTyped
  <2>4. RestTyped'
    BY <1>1, <2>1, <2>2, <2>3 DEF RestTyped, dispatcher, config, history, NoFetch, Faults
  <2>5. VerdictOK'
    BY <2>2, <2>3 DEF VerdictOK, InLoop
  <2> QED BY <1>3, <2>4, <2>5, ControlKeeps DEF CallReturnsRejected
<1>4. CASE CallThrows
  <2>1. stats' \in [requests : Nat, errors : Nat, ok : Nat]
    <3>1. stats' = stats \/ stats' = [stats EXCEPT !.errors = stats.errors + 1]
      BY <1>4 DEF CallThrows
    <3>2. stats.errors + 1 \in Nat /\ stats \in [requests : Nat, errors : Nat, ok : Nat]
      BY <1>1 DEF RestTyped
    <3> QED BY <3>1, <3>2
  <2>2. /\ phase = "call" /\ phase' \in {"free", "top"}
        /\ UNCHANGED <<run, fetches, jobs, verdict, dispatcher, deadline, config, history>>
    BY <1>4 DEF CallThrows
  <2>3. RestTyped'
    BY <1>1, <2>1, <2>2 DEF RestTyped, dispatcher, verdict, config, history, NoFetch, Faults
  <2>4. VerdictOK'
    BY <1>1, <2>2 DEF VerdictOK, InLoop, verdict
  <2> QED BY <2>2, <2>3, <2>4, ControlKeeps
<1>5. CASE JobReturns
  <2>1. /\ phase = "job" /\ phase' = "jobs"
        /\ UNCHANGED <<run, fetches, jobs, stats, dispatcher, deadline, config, history>>
        /\ UNCHANGED verdict \/ Unhandled
    BY <1>5 DEF JobReturns
  <2>2. flag' \in BOOLEAN /\ noted' \in BOOLEAN /\ rejected' \in Nat
    BY <1>1, <2>1, VerdictTyped
  <2>3. RestTyped'
    BY <1>1, <2>1, <2>2 DEF RestTyped, dispatcher, config, history, NoFetch, Faults
  <2>4. VerdictOK'
    <3>1. CASE UNCHANGED verdict
      BY <1>1, <2>1, <3>1 DEF VerdictOK, InLoop, verdict
    <3>2. CASE Unhandled
      <4>1. rejected' > 0
        BY <1>1, <3>2 DEF Unhandled, RestTyped
      <4> QED BY <2>1, <3>2, <4>1 DEF VerdictOK, InLoop, Unhandled
    <3> QED BY <2>1, <3>1, <3>2
  <2> QED BY <2>1, <2>3, <2>4, ControlKeeps
<1>6. CASE JobFails
  <2>1. /\ phase = "job" /\ noted' = TRUE /\ rejected' = rejected + 1
        /\ UNCHANGED <<fetches, jobs, flag, dispatcher, deadline, config, history>>
        /\ run' \in {"module", "iteration"} /\ phase' \in {"top", "free"}
        /\ stats' \in [requests : Nat, errors : Nat, ok : Nat]
    BY <1>1, <1>6, ReturnsTyped DEF JobFails
  <2>2. rejected' \in Nat /\ rejected' > 0
    BY <1>1, <2>1 DEF RestTyped
  <2>3. RestTyped'
    BY <1>1, <2>1, <2>2 DEF RestTyped, dispatcher, config, history, NoFetch, Faults
  <2>4. VerdictOK'
    BY <2>1, <2>2 DEF VerdictOK, InLoop
  <2> QED BY <2>1, <2>3, <2>4, ControlKeeps
<1>7. CASE HandleLate
  <2>1. /\ phase = "job" /\ late' = late + 1 /\ late < LateHandlers
        /\ UNCHANGED <<phase, run, fetches, stats, dispatcher, deadline, config, calls>>
        /\ jobs' = jobs + 1
        /\ \/ rejected > 0 /\ rejected' = rejected - 1 /\ UNCHANGED <<flag, noted>>
           \/ flag' = TRUE /\ noted' = TRUE /\ UNCHANGED rejected
    BY <1>7 DEF HandleLate
  <2>2. /\ late' \in 0 .. LateHandlers /\ LateHandlers # 0
        /\ jobs' \in Nat /\ rejected' \in Nat
    BY <1>1, <2>1, BoundsAssumption DEF RestTyped
  <2>3. flag' \in BOOLEAN /\ noted' \in BOOLEAN
    BY <1>1, <2>1 DEF RestTyped
  <2>4. RestTyped'
    BY <1>1, <2>1, <2>2, <2>3 DEF RestTyped, dispatcher, config, NoFetch, Faults
  <2>5. VerdictOK'
    BY <1>1, <2>1, <2>2 DEF VerdictOK, InLoop, RestTyped
  <2> QED BY <2>1, <2>4, <2>5, ControlKeeps
<1> QED BY <1>2, <1>3, <1>4, <1>5, <1>6, <1>7

\* of the loop and of the worker,
LEMMA LoopKeeps ==
  ASSUME IInv,
         RunJob \/ JobsDone \/ PollFails \/ Expired \/ CallFunction \/ TimeIsUp
  PROVE  IInv'
<1>1. TypeOK /\ RestTyped /\ VerdictOK
  BY TypeIsTyped DEF IInv
<1>2. CASE RunJob
  <2>1. /\ phase = "jobs" /\ phase' = "job" /\ jobs' \in Nat
        /\ UNCHANGED <<run, fetches, verdict, stats, dispatcher, deadline, config, history>>
    BY <1>1, <1>2 DEF RunJob, HasJob, RestTyped
  <2>2. RestTyped' /\ VerdictOK'
    BY <1>1, <2>1 DEF RestTyped, VerdictOK, InLoop, dispatcher, verdict, config, history, NoFetch, Faults
  <2> QED BY <2>1, <2>2, ControlKeeps
<1>3. CASE JobsDone
  <2>1. /\ phase = "jobs"
        /\ UNCHANGED <<fetches, jobs, verdict, dispatcher, deadline, config, history>>
        /\ \/ phase' = "poll" /\ UNCHANGED <<run, stats>>
           \/ LoopReturns(FlagResult)
    BY <1>3 DEF JobsDone
  <2>2. /\ (phase' = "poll" /\ run' = run) \/ phase' \in {"top", "free"}
        /\ phase' \in {"poll", "top", "free"}
        /\ run' \in {"module", "iteration"}
        /\ stats' \in [requests : Nat, errors : Nat, ok : Nat]
    BY <1>1, <2>1, ReturnsTyped DEF RestTyped
  <2>3. RestTyped'
    BY <1>1, <2>1, <2>2 DEF RestTyped, dispatcher, verdict, config, history, NoFetch, Faults
  <2>4. VerdictOK'
    BY <1>1, <2>1, <2>2 DEF VerdictOK, InLoop, verdict
  <2> QED BY <2>1, <2>3, <2>4, ControlKeeps
<1>4. CASE PollFails
  <2>1. /\ phase = "poll" /\ run' \in {"module", "iteration"} /\ phase' \in {"top", "free"}
        /\ stats' \in [requests : Nat, errors : Nat, ok : Nat]
        /\ UNCHANGED <<fetches, jobs, verdict, dispatcher, deadline, config, history>>
    BY <1>1, <1>4, ReturnsTyped DEF PollFails
  <2>2. RestTyped'
    BY <1>1, <2>1 DEF RestTyped, dispatcher, verdict, config, history, NoFetch, Faults
  <2>3. VerdictOK'
    BY <1>1, <2>1 DEF VerdictOK, InLoop, verdict
  <2> QED BY <2>1, <2>2, <2>3, ControlKeeps
<1>5. CASE Expired
  <2>1. /\ phase = "expire" /\ expiring = {} /\ phase' = "jobs"
        /\ UNCHANGED <<run, fetches, jobs, verdict, stats, dispatcher, deadline, config, history>>
    BY <1>5 DEF Expired
  <2>2. RestTyped' /\ VerdictOK'
    BY <1>1, <2>1 DEF RestTyped, VerdictOK, InLoop, dispatcher, verdict, config, history, NoFetch, Faults
  <2> QED BY <2>1, <2>2, ControlKeeps
<1>6. CASE CallFunction
  <2>1. /\ phase = "top" /\ phase' = "call" /\ noted' = FALSE /\ rejected' = 0
        /\ UNCHANGED <<run, fetches, jobs, flag, stats, dispatcher, deadline, config, history>>
    BY <1>6 DEF CallFunction
  <2>2. RestTyped'
    BY <1>1, <2>1 DEF RestTyped, dispatcher, config, history, NoFetch, Faults
  <2>3. VerdictOK'
    BY <2>1 DEF VerdictOK, InLoop
  <2> QED BY <2>1, <2>2, <2>3, ControlKeeps
<1>7. CASE TimeIsUp
  <2>1. /\ phase = "top" /\ phase' = "free"
        /\ UNCHANGED <<run, fetches, jobs, verdict, stats, dispatcher, deadline, config, history>>
    BY <1>7 DEF TimeIsUp
  <2>2. RestTyped' /\ VerdictOK'
    BY <1>1, <2>1 DEF RestTyped, VerdictOK, InLoop, dispatcher, verdict, config, history, NoFetch, Faults
  <2> QED BY <2>1, <2>2, ControlKeeps
<1> QED BY <1>2, <1>3, <1>4, <1>5, <1>6, <1>7

\* and of the clock and the other threads.
LEMMA OutsideKeeps ==
  ASSUME IInv, DeadlinePasses \/ OtherThread \/ UNCHANGED vars
  PROVE  IInv'
<1>1. TypeOK /\ RestTyped /\ VerdictOK
  BY TypeIsTyped DEF IInv
<1>2. CASE DeadlinePasses
  <2>1. /\ deadline' = TRUE
        /\ UNCHANGED <<phase, run, fetches, jobs, verdict, stats, dispatcher, config, history>>
    BY <1>2 DEF DeadlinePasses
  <2>2. RestTyped'
    BY <1>1, <2>1 DEF RestTyped, dispatcher, verdict, config, history
  <2>3. VerdictOK'
    BY <1>1, <2>1 DEF VerdictOK, InLoop, verdict
  <2> QED BY <2>1, <2>2, <2>3, ControlKeeps
<1>3. CASE OtherThread
  <2>1. /\ OtherThreads /\ flag' \in BOOLEAN
        /\ UNCHANGED <<phase, run, fetches, jobs, noted, rejected, stats, dispatcher, deadline,
                       config, history>>
    BY <1>3 DEF OtherThread
  <2>2. RestTyped'
    BY <1>1, <2>1 DEF RestTyped, dispatcher, config, history
  <2>3. VerdictOK'
    BY <1>1, <2>1 DEF VerdictOK, InLoop
  <2> QED BY <2>1, <2>2, <2>3, ControlKeeps
<1>4. CASE UNCHANGED vars
  <2>1. UNCHANGED <<phase, run, fetches, jobs, verdict, stats, dispatcher, deadline, config, history>>
    BY <1>4 DEF vars
  <2>2. RestTyped'
    BY <1>1, <2>1 DEF RestTyped, dispatcher, verdict, config, history
  <2>3. VerdictOK'
    BY <1>1, <2>1 DEF VerdictOK, InLoop, verdict
  <2> QED BY <2>1, <2>2, <2>3, ControlKeeps
<1> QED BY <1>2, <1>3, <1>4

LEMMA NextKeeps == IInv /\ [Next]_vars => IInv'
<1> SUFFICES ASSUME IInv, [Next]_vars PROVE IInv'
  OBVIOUS
<1>1. CASE ScriptNext
  BY <1>1, CallFetchKeeps, AwaitKeeps, ScriptKeeps DEF ScriptNext
<1>2. CASE LoopNext
  BY <1>2, LoopKeeps, PollKeeps, ExpireKeeps, TimesOutKeeps, OnErrorKeeps, OnWriteKeeps,
     OnReadKeeps, OnReadFreedKeeps DEF LoopNext
<1>3. CASE WorkerNext
  BY <1>3, LoopKeeps, CleanupKeeps DEF WorkerNext
<1>4. CASE EnvironmentNext
  BY <1>4, NetworkKeeps, TickKeeps, OutsideKeeps DEF EnvironmentNext
<1>5. CASE Over \/ UNCHANGED vars
  BY <1>5, OutsideKeeps DEF Over
<1> QED BY <1>1, <1>2, <1>3, <1>4, <1>5 DEF Next, ThreadNext

LEMMA IInvHolds == Spec => []IInv
  BY InitKeeps, NextKeeps, PTL DEF Spec

-----------------------------------------------------------------------------
(* The theorems *)

\* Every variable keeps its type.
THEOREM TypeCorrect == Spec => []TypeOK
<1>1. IInv => TypeOK
  BY DEF IInv
<1> QED BY <1>1, IInvHolds, PTL

\* What js_fetch acquires, js_fetch_destroy lets go of: all at once and once,
\* whichever of the handlers, the timer and the loop's end it is that calls it.
THEOREM AllOrNothing == Spec => []Registered
<1>1. IInv => Registered
  <2> SUFFICES ASSUME IInv, NEW f \in Fetches
               PROVE  LET is == f \in pending
                      IN  /\ (promise[f] # "none") = is
                          /\ Live(conn[f]) = is /\ conn[f].fd = is
                          /\ (interest[f] # {}) = is
                          /\ (timer[f] # "off") = is
                          /\ (sock[f].st # "closed") = is
                          /\ f \in expiring => is
    BY DEF Registered
  <2>1. /\ FetchOK(f) /\ expiring \subseteq pending
        /\ conn[f].fd \in BOOLEAN /\ Live(conn[f]) \in BOOLEAN
    BY DEF IInv, FetchesOK, DispatchOK, TypeOK, ConnType, Live
  <2>2. CASE f \in pending
    <3>1. "in" \in interest[f]
      BY <2>1, <2>2 DEF FetchOK, Holds, InterestOf, InOut
    <3> QED BY <2>1, <2>2, <3>1 DEF FetchOK, Holds, LiveOK
  <2>3. CASE f \notin pending
    BY <2>1, <2>3 DEF FetchOK, LetsGo, Live, LiveStates, ClosedSock
  <2> QED BY <2>2, <2>3
<1> QED BY <1>1, IInvHolds, PTL

\* No edge of epoll is lost.
THEOREM NoEdgeIsLost == Spec => []NoLostWakeup
<1>1. IInv => NoLostWakeup
  BY DEF IInv
<1> QED BY <1>1, IInvHolds, PTL

\* An event epoll_wait has reported is freed by its own write handler or not
\* at all.
THEOREM OnlyItsOwn == Spec => []OnlyOwnEventDangles
<1>1. IInv => OnlyOwnEventDangles
  BY DEF IInv
<1> QED BY <1>1, IInvHolds, PTL

\* What raises the counters: js_loop_run returns from an iteration, or the call
\* throws.
LEMMA Counts ==
  ASSUME IInv, [Next]_vars, stats' # stats
  PROVE  \/ CallThrows
         \/ JobsDone /\ pending = {} /\ IterationDone(FlagResult)
         \/ PollFails /\ IterationDone(FlagResult)
         \/ JobFails /\ IterationDone(1)
<1> USE DEF ModuleEvaluated, LoopReturns
<1>1. CASE ScriptNext
  BY <1>1 DEF ScriptNext, CallFetch, Await, CallReturns, CallReturnsRejected, HandleLate,
             JobReturns, JobFails
<1>2. CASE LoopNext
  <2>1. JobsDone => pending = {} /\ IterationDone(FlagResult)
    BY DEF JobsDone, LoopTest
  <2>2. PollFails => IterationDone(FlagResult)
    BY DEF PollFails
  <2>3. /\ ~RunJob /\ ~Expire /\ ~Expired /\ \A B \in SUBSET Fetches : ~Poll(B)
        /\ \A f \in Fetches : /\ ~OnError(f) /\ ~OnWrite(f) /\ ~OnRead(f)
                              /\ ~OnReadFreed(f) /\ ~TimesOut(f)
    BY DEF RunJob, Poll, Expire, Expired, OnError, OnWrite, OnRead, OnReadFreed, TimesOut
  <2> QED BY <1>2, <2>1, <2>2, <2>3 DEF LoopNext
<1>3. CASE WorkerNext
  BY <1>3 DEF WorkerNext, CallFunction, TimeIsUp, Cleanup
<1>4. CASE EnvironmentNext
  BY <1>4 DEF EnvironmentNext, Network, Tick, DeadlinePasses, OtherThread
<1>5. CASE Over \/ UNCHANGED vars
  BY <1>5 DEF Over, vars
<1> QED BY <1>1, <1>2, <1>3, <1>4, <1>5 DEF Next, ThreadNext

\* What an iteration adds to the counters.
LEMMA IterationCounts ==
  ASSUME TypeOK, NEW rc, IterationDone(rc)
  PROVE  /\ stats.errors \in Nat /\ stats.ok \in Nat
         /\ rc # 0 => stats'.errors = stats.errors + 1 /\ stats'.ok = stats.ok
         /\ rc = 0 => stats'.errors = stats.errors /\ stats'.ok = stats.ok + 1
<1>1. stats \in [requests : Nat, errors : Nat, ok : Nat]
  BY DEF TypeOK
<1>2. CASE rc # 0
  BY <1>1, <1>2 DEF IterationDone
<1>3. CASE rc = 0
  BY <1>1, <1>3 DEF IterationDone
<1> QED BY <1>1, <1>2, <1>3

\* A call that throws is an error and no request.
LEMMA ThrowCounts ==
  ASSUME TypeOK, CallThrows
  PROVE  stats'.requests = stats.requests /\ stats'.ok = stats.ok
  BY DEF CallThrows, TypeOK

\* A thread that runs alone counts what failed as an error, when no call
\* rejects before its first await,
THEOREM FailuresCount ==
  ASSUME ~OtherThreads, ~CallRejects
  PROVE  Spec => FailureCounted
<1>1. IInv /\ [Next]_vars =>
        [stats'.requests > stats.requests /\ rejected' > 0 => stats'.errors > stats.errors]_vars
  <2> SUFFICES ASSUME IInv, [Next]_vars, stats'.requests > stats.requests, rejected' > 0
               PROVE  stats'.errors > stats.errors
    OBVIOUS
  <2>1. TypeOK /\ stats.requests \in Nat
    BY DEF IInv, TypeOK
  <2>2. stats' # stats /\ ~CallThrows
    BY <2>1, ThrowCounts
  <2>3. CASE JobFails /\ IterationDone(1)
    BY <2>1, <2>3, IterationCounts
  <2>4. CASE (JobsDone \/ PollFails) /\ IterationDone(FlagResult)
    <3>1. InLoop /\ noted
      BY <2>4 DEF JobsDone, PollFails, IterationDone, InLoop, verdict, IInv, VerdictOK
    <3>2. FlagResult = 1
      BY <3>1 DEF IInv, VerdictOK, FlagResult
    <3> QED BY <2>1, <2>4, <3>2, IterationCounts
  <2> QED BY <2>2, <2>3, <2>4, Counts
<1> QED BY <1>1, IInvHolds, PTL DEF Spec, FailureCounted

\* and as a success an iteration in which the tracker noted nothing and no job
\* failed, however its calls reject.
THEOREM SuccessesCount ==
  ASSUME ~OtherThreads
  PROVE  Spec => SuccessCounted
<1>1. IInv /\ [Next]_vars =>
        [stats'.requests > stats.requests /\ ~noted' => stats'.ok > stats.ok]_vars
  <2> SUFFICES ASSUME IInv, [Next]_vars, stats'.requests > stats.requests, ~noted'
               PROVE  stats'.ok > stats.ok
    OBVIOUS
  <2>1. TypeOK /\ stats.requests \in Nat
    BY DEF IInv, TypeOK
  <2>2. stats' # stats /\ ~CallThrows /\ ~JobFails
    BY <2>1, ThrowCounts DEF JobFails
  <2>3. (JobsDone \/ PollFails) /\ IterationDone(FlagResult)
    BY <2>2, Counts
  <2>4. InLoop /\ ~noted
    BY <2>3 DEF JobsDone, PollFails, IterationDone, InLoop, verdict
  <2>5. FlagResult = 0
    BY <2>4 DEF IInv, VerdictOK, FlagResult
  <2> QED BY <2>1, <2>3, <2>5, IterationCounts
<1> QED BY <1>1, IInvHolds, PTL DEF Spec, SuccessCounted

\* An iteration is counted as an error with nothing left unhandled only if a
\* promise was handled after it was rejected: where the script never does that,
\* one that leaves nothing behind is a success.
THEOREM HandledLateOnly ==
  ASSUME ~OtherThreads, LateHandlers = 0
  PROVE  Spec => HandledIsNoError
<1>1. IInv /\ [Next]_vars =>
        [stats'.requests > stats.requests /\ rejected' = 0 => stats'.ok > stats.ok]_vars
  <2> SUFFICES ASSUME IInv, [Next]_vars, stats'.requests > stats.requests, rejected' = 0
               PROVE  stats'.ok > stats.ok
    OBVIOUS
  <2>1. TypeOK /\ stats.requests \in Nat
    BY DEF IInv, TypeOK
  <2>2. stats' # stats /\ ~CallThrows /\ ~JobFails
    BY <2>1, ThrowCounts DEF JobFails, TypeOK
  <2>3. (JobsDone \/ PollFails) /\ IterationDone(FlagResult)
    BY <2>2, Counts
  <2>4. InLoop /\ ~noted
    BY <2>3 DEF JobsDone, PollFails, IterationDone, InLoop, verdict, IInv, VerdictOK, TypeOK
  <2>5. FlagResult = 0
    BY <2>4 DEF IInv, VerdictOK, FlagResult
  <2> QED BY <2>1, <2>3, <2>5, IterationCounts
<1> QED BY <1>1, IInvHolds, PTL DEF Spec, HandledIsNoError
=============================================================================
