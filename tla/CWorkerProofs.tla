---------------------------- MODULE CWorkerProofs ----------------------------
(***************************************************************************)
(* Proofs about CWorker, for every number of connections and requests,     *)
(* every batch size and every set of faults: its invariants, what a step   *)
(* records and in which order, and that it implements LoadGen.             *)
(***************************************************************************)
EXTENDS CWorker, ConnProofs, FiniteSetTheorems, TLAPS

-----------------------------------------------------------------------------
(* The inductive invariant *)

\* A live connection has an epoll entry that asks for what its state waits
\* for; any other has no socket and no entry.
SlotOK(c, s, ev) ==
  \/ LiveOK(c, s) /\ InterestOf(c.state) \subseteq ev
  \/ /\ c.state \in {"none", "error", "freed"}
     /\ c.state = "error" => "reset" \in faults
     /\ ~c.fd /\ ev = {} /\ s = ClosedSock

SlotsOK == \A i \in Slots : SlotOK(conn[i], sock[i], interest[i])

\* The thread knows of no stop while it runs, a slot the creation loop has
\* not reached is empty, and only an open entry is on the ready list.
LoopOK ==
  /\ phase \in {"create", "poll", "dispatch"} => ~stop
  /\ phase = "create" => created < ConnCount
  /\ active <= created
  /\ \A i \in Slots : i >= created => conn[i] = NoConn
  /\ \A i \in Slots : ready[i] => interest[i] # {}

\* Events are left to dispatch only while dispatching, and only for a live
\* connection, or for one that died in its write handler and whose read
\* handler is due.
BatchOK ==
  \A i \in Slots :
    batch[i] # {} => /\ phase = "dispatch"
                     /\ ~Live(conn[i]) => conn[i].state = "error" /\ batch[i] = {"in"}

IInv ==
  /\ TypeOK
  /\ SlotsOK
  /\ LoopOK
  /\ BatchOK
  /\ NoLostWakeup
  /\ Accounting

-----------------------------------------------------------------------------
(* Lemmas about the operators *)

\* A slot whose connection can go on has something epoll_wait will report.
LEMMA SlotProgress ==
  ASSUME NEW c \in ConnType, NEW s \in SockType, NEW ev \in SUBSET {"in", "out"},
         SlotOK(c, s, ev), CanProgress(c, s)
  PROVE  Deliverable(ev, s) # {}
  BY ProgressIsDeliverable DEF SlotOK, CanProgress, Live, LiveStates

\* One connection changes: the number of those in flight follows.
LEMMA InFlightStep ==
  ASSUME conn \in [Slots -> ConnType], NEW i \in Slots, NEW c,
         conn' = [conn EXCEPT ![i] = c]
  PROVE  /\ Cardinality(InFlight) \in Nat
         /\ Cardinality(InFlight') \in Nat
         /\ Live(conn[i]) /\ Live(c) => Cardinality(InFlight') = Cardinality(InFlight)
         /\ Live(conn[i]) /\ ~Live(c) => Cardinality(InFlight') = Cardinality(InFlight) - 1
         /\ ~Live(conn[i]) /\ Live(c) => Cardinality(InFlight') = Cardinality(InFlight) + 1
         /\ ~Live(conn[i]) /\ ~Live(c) => Cardinality(InFlight') = Cardinality(InFlight)
  <1>1. IsFiniteSet(Slots)
    BY FS_Interval, ConnCountAssumption DEF Slots
  <1>2. InFlight \subseteq Slots /\ InFlight' \subseteq Slots
    BY DEF InFlight
  <1>3. IsFiniteSet(InFlight) /\ IsFiniteSet(InFlight')
    BY <1>1, <1>2, FS_Subset
  <1>4. Cardinality(InFlight) \in Nat /\ Cardinality(InFlight') \in Nat
    BY <1>3, FS_CardinalityType
  <1>5. /\ i \in InFlight <=> Live(conn[i])
        /\ i \in InFlight' <=> Live(c)
        /\ \A j \in Slots \ {i} : j \in InFlight' <=> j \in InFlight
    BY DEF InFlight, Live
  <1>6. CASE Live(conn[i]) <=> Live(c)
    <2>1. InFlight' = InFlight
      BY <1>2, <1>5, <1>6
    <2> QED
      BY <1>4, <1>6, <2>1
  <1>7. CASE Live(conn[i]) /\ ~Live(c)
    <2>1. InFlight' = InFlight \ {i} /\ i \in InFlight
      BY <1>2, <1>5, <1>7
    <2>2. Cardinality(InFlight \ {i}) = Cardinality(InFlight) - 1
      BY <1>3, <2>1, FS_RemoveElement
    <2> QED
      BY <1>4, <1>7, <2>1, <2>2
  <1>8. CASE ~Live(conn[i]) /\ Live(c)
    <2>1. InFlight' = InFlight \cup {i} /\ i \notin InFlight
      BY <1>2, <1>5, <1>8
    <2>2. Cardinality(InFlight \cup {i}) = Cardinality(InFlight) + 1
      BY <1>3, <2>1, FS_AddElement
    <2> QED
      BY <1>4, <1>8, <2>1, <2>2
  <1> QED
    BY <1>6, <1>7, <1>8

-----------------------------------------------------------------------------
(* One slot is updated: the shape of every step of a handler *)

\* Slot i goes to connection c, socket s and entry ev, on the ready list or
\* not as b says, and the requests started and settled by the step balance.
Updated(i, c, s, ev, b) ==
  /\ c \in ConnType
  /\ s \in SockType
  /\ ev \in SUBSET {"in", "out"}
  /\ b \in BOOLEAN
  /\ SlotOK(c, s, ev)
  /\ b => ev # {}
  /\ CanProgress(c, s) => b
  /\ conn' = [conn EXCEPT ![i] = c]
  /\ sock' = [sock EXCEPT ![i] = s]
  /\ interest' = [interest EXCEPT ![i] = ev]
  /\ ready' = [ready EXCEPT ![i] = b]

Lives(c) == IF Live(c) THEN 1 ELSE 0

\* What the step adds to the requests started against what it adds to those
\* settled: equal, or fewer where the connection was already dead.
Balanced(i, c) ==
  LET settled == stats'.requests + stats'.errors - stats.requests - stats.errors
                   + Lives(c) - Lives(conn[i])
  IN  /\ attempts' - attempts <= settled
      /\ "reset" \notin faults => attempts' - attempts = settled

\* Such a step keeps the slots, the loop and the two properties.
LEMMA UpdateKeeps ==
  ASSUME TypeOK, SlotsOK, LoopOK, NoLostWakeup, Accounting,
         NEW i \in Slots, NEW c, NEW s, NEW ev, NEW b,
         Updated(i, c, s, ev, b), Balanced(i, c),
         stats' \in StatsType, attempts' \in Nat,
         phase # "done", faults' = faults,
         \A j \in Slots \ {i} : batch'[j] = batch[j]
  PROVE  /\ SlotsOK'
         /\ \A j \in Slots : ready'[j] => interest'[j] # {}
         /\ NoLostWakeup'
         /\ Accounting'
  <1>1. /\ conn'[i] = c /\ sock'[i] = s /\ interest'[i] = ev /\ ready'[i] = b
        /\ \A j \in Slots \ {i} : /\ conn'[j] = conn[j] /\ sock'[j] = sock[j]
                                  /\ interest'[j] = interest[j]
                                  /\ ready'[j] = ready[j]
    BY DEF Updated, TypeOK
  <1>2. SlotsOK'
    <2> SUFFICES ASSUME NEW j \in Slots
                 PROVE  SlotOK(conn[j], sock[j], interest[j])'
      BY DEF SlotsOK
    <2>1. SlotOK(c, s, ev)' 
      BY DEF Updated, SlotOK
    <2> QED
      BY <1>1, <2>1 DEF SlotsOK, SlotOK
  <1>3. \A j \in Slots : ready'[j] => interest'[j] # {}
    BY <1>1 DEF Updated, LoopOK
  <1>4. NoLostWakeup'
    BY <1>1 DEF NoLostWakeup, Updated
  <1>5. Accounting'
    <2>1. conn \in [Slots -> ConnType] /\ conn' = [conn EXCEPT ![i] = c]
      BY DEF TypeOK, Updated
    <2>2. /\ Cardinality(InFlight) \in Nat /\ Cardinality(InFlight') \in Nat
          /\ Cardinality(InFlight') = Cardinality(InFlight) + Lives(c) - Lives(conn[i])
      <3>1. /\ Cardinality(InFlight) \in Nat
            /\ Cardinality(InFlight') \in Nat
            /\ Live(conn[i]) /\ Live(c) => Cardinality(InFlight') = Cardinality(InFlight)
            /\ Live(conn[i]) /\ ~Live(c) => Cardinality(InFlight') = Cardinality(InFlight) - 1
            /\ ~Live(conn[i]) /\ Live(c) => Cardinality(InFlight') = Cardinality(InFlight) + 1
            /\ ~Live(conn[i]) /\ ~Live(c) => Cardinality(InFlight') = Cardinality(InFlight)
        BY ONLY <2>1, InFlightStep
      <3>2. /\ Live(c) => Lives(c) = 1
            /\ ~Live(c) => Lives(c) = 0
            /\ Live(conn[i]) => Lives(conn[i]) = 1
            /\ ~Live(conn[i]) => Lives(conn[i]) = 0
        BY DEF Lives
      <3> HIDE DEF Live, Lives
      <3> QED
        BY <3>1, <3>2
    <2>3. /\ Lives(c) \in {0, 1} /\ Lives(conn[i]) \in {0, 1}
          /\ attempts \in Nat
          /\ stats.requests \in Nat /\ stats.errors \in Nat
          /\ stats'.requests \in Nat /\ stats'.errors \in Nat
      BY DEF Lives, TypeOK, StatsType
    <2>4. /\ attempts <= Settled
          /\ "reset" \notin faults => attempts = Settled
      BY DEF Accounting
    <2>5. /\ attempts' <= Settled'
          /\ "reset" \notin faults => attempts' = Settled'
      BY <2>2, <2>3, <2>4 DEF Balanced, Settled
    <2> QED
      BY <2>5 DEF Accounting
  <1> QED
    BY <1>2, <1>3, <1>4, <1>5

-----------------------------------------------------------------------------
(* worker_conn_process *)

\* What the handlers give worker_conn_process: a failed connection, one that
\* is done with the response to its request, or one that is still live; only
\* a failed one can be given for a connection that was already dead.
Given(i, c, s) ==
  /\ c \in ConnType
  /\ s \in SockType
  /\ \/ c.state = "error"
     \/ c.state = "done" /\ c.fd /\ s.wire = c.req_index
     \/ LiveOK(c, s)
  /\ Live(conn[i]) \/ (c.state = "error" /\ "reset" \in faults)

\* The result of the step, whatever it does.
Handled(i) ==
  /\ \E c, s, ev, b : Updated(i, c, s, ev, b) /\ Balanced(i, c)
                        /\ (~Live(c) => c.state = "error")
  /\ stats' \in StatsType
  /\ attempts' \in Nat
  /\ served' \in [Slots -> [Reqs -> Nat]]

\* An error counted keeps the statistics well formed and settles one request.
LEMMA CountErrorType ==
  ASSUME NEW st \in StatsType
  PROVE  /\ CountError(st) \in StatsType
         /\ CountError(st).requests = st.requests
         /\ CountError(st).errors = st.errors + 1
  <1> DEFINE e == st.errors + 1
             ce == st.connect_errors + 1
  <1>1. e \in Nat /\ ce \in Nat
    BY DEF StatsType
  <1>2. CountError(st) = [st EXCEPT !.errors = e, !.connect_errors = ce]
    BY DEF CountError
  <1> HIDE DEF e, ce
  <1>3. CountError(st) \in StatsType
    BY <1>1, <1>2 DEF StatsType
  <1>4. CountError(st).requests = st.requests /\ CountError(st).errors = e
    BY <1>2 DEF StatsType
  <1> QED
    BY <1>3, <1>4 DEF e

\* So does a response.
LEMMA CountResponseType ==
  ASSUME NEW st \in StatsType, NEW class
  PROVE  /\ CountResponse(st, class) \in StatsType
         /\ CountResponse(st, class).requests = st.requests + 1
         /\ CountResponse(st, class).errors = st.errors
  <1> DEFINE status == [k \in Classes |-> IF k = class THEN st.status[k] + 1
                                          ELSE st.status[k]]
  <1>1. status \in [Classes -> Nat]
    BY DEF StatsType
  <1> DEFINE n == st.requests + 1
  <1>2. CountResponse(st, class) = [st EXCEPT !.requests = n, !.status = status]
    BY DEF CountResponse
  <1>3. n \in Nat
    BY DEF StatsType
  <1> HIDE DEF status, n
  <1>4. CountResponse(st, class) \in StatsType
    BY <1>1, <1>2, <1>3 DEF StatsType
  <1>5. CountResponse(st, class).requests = n /\ CountResponse(st, class).errors = st.errors
    BY <1>2 DEF StatsType
  <1> QED
    BY <1>4, <1>5 DEF n

\* A connection reset for its request is live on a fresh socket.
LEMMA FreshIsOK ==
  ASSUME NEW c \in ConnType, NEW s \in FreshSocks
  PROVE  LET d == SetOutput(ConnResetOk(ResponseReset(c)), c.req_index)
         IN  d \in ConnType /\ s \in SockType /\ SlotOK(d, s, InOut) /\ Live(d)
  <1> DEFINE d == SetOutput(ConnResetOk(ResponseReset(c)), c.req_index)
  <1>1. d = [c EXCEPT !.rsp = "head", !.state = "connecting", !.fd = TRUE,
                      !.left = ReqLen, !.out = c.req_index]
    BY DEF SetOutput, ConnResetOk, ResponseReset, ConnType
  <1>2. d \in ConnType
    <2>1. ReqLen \in 0 .. ReqLen
      BY ReqLenAssumption
    <2> HIDE DEF d
    <2> QED
      BY <1>1, <2>1 DEF ConnType, ConnStates, LiveStates
  <1>3. s \in SockType /\ s.full = FALSE
    BY DEF FreshSocks, ClosedSock, SockType
  <1>4. LiveOK(d, s) /\ InterestOf(d.state) \subseteq InOut
    BY <1>1, <1>2, <1>3, ReqLenAssumption
    DEF ConnType, LiveOK, Live, LiveStates, InterestOf
  <1> QED
    BY <1>2, <1>3, <1>4 DEF SlotOK, LiveOK

\* Reconnecting, from statistics that count the request just settled.
LEMMA ReconnectHandled ==
  ASSUME TypeOK, NEW i \in Slots, NEW c \in ConnType, NEW st \in StatsType,
         st.requests + st.errors = stats.requests + stats.errors + 1,
         Live(conn[i]) \/ "reset" \in faults,
         Reconnect(i, c, st)
  PROVE  /\ \E d, s, ev, b : Updated(i, d, s, ev, b) /\ Balanced(i, d)
                               /\ (~Live(d) => d.state = "error")
         /\ stats' \in StatsType
         /\ attempts' \in Nat
  <1>1. /\ attempts' = attempts + 1 /\ attempts \in Nat
        /\ stats.requests \in Nat /\ stats.errors \in Nat
        /\ st.requests \in Nat /\ st.errors \in Nat
        /\ Lives(conn[i]) \in {0, 1}
    BY DEF Reconnect, TypeOK, StatsType, Lives
  <1>2. ASSUME NEW s \in FreshSocks,
               conn' = [conn EXCEPT
                 ![i] = SetOutput(ConnResetOk(ResponseReset(c)), c.req_index)],
               sock' = [sock EXCEPT ![i] = s],
               EpollAdd(i, InOut, s),
               stats' = st
        PROVE  \E d, z, ev, b : Updated(i, d, z, ev, b) /\ Balanced(i, d)
                                  /\ (~Live(d) => d.state = "error")
    <2> DEFINE d == SetOutput(ConnResetOk(ResponseReset(c)), c.req_index)
               b == Deliverable(InOut, s) # {}
    <2>1. d \in ConnType /\ s \in SockType /\ SlotOK(d, s, InOut) /\ Live(d)
      BY FreshIsOK
    <2> HIDE DEF d
    <2>2. CanProgress(d, s) => b
      BY <2>1, SlotProgress DEF InOut
    <2>3. conn' = [conn EXCEPT ![i] = d]
      BY <1>2 DEF d
    <2>4. Updated(i, d, s, InOut, b)
      BY <1>2, <2>1, <2>2, <2>3 DEF Updated, EpollAdd, InOut
    <2>5. Balanced(i, d)
      BY <1>1, <1>2, <2>1 DEF Balanced, Lives
    <2> QED
      BY <2>1, <2>4, <2>5
  <1>3. ASSUME "reset" \in faults,
               conn' = [conn EXCEPT ![i] = ConnResetFailed(ResponseReset(c))],
               sock' = [sock EXCEPT ![i] = ClosedSock],
               EpollDel(i),
               stats' = CountError(st)
        PROVE  \E d, z, ev, b : Updated(i, d, z, ev, b) /\ Balanced(i, d)
                                  /\ (~Live(d) => d.state = "error")
    <2> DEFINE d == ConnResetFailed(ResponseReset(c))
    <2>1. d \in ConnType /\ d.state = "error" /\ ~d.fd
      BY DEF ConnResetFailed, ResponseReset, ConnType, ConnStates
    <2>2. ~Live(d) /\ ClosedSock \in SockType
      BY <2>1 DEF Live, LiveStates, ClosedSock, SockType
    <2>3. ~CanProgress(d, ClosedSock)
      BY <2>1, <2>2 DEF CanProgress
    <2>4. SlotOK(d, ClosedSock, {})
      BY <1>3, <2>1 DEF SlotOK
    <2>5. conn' = [conn EXCEPT ![i] = d]
      BY <1>3
    <2> HIDE DEF d
    <2>6. Updated(i, d, ClosedSock, {}, FALSE)
      BY <1>3, <2>1, <2>2, <2>3, <2>4, <2>5 DEF Updated, EpollDel
    <2>7. Balanced(i, d)
      <3>1. stats'.requests + stats'.errors = stats.requests + stats.errors + 2
        BY <1>1, <1>3, CountErrorType
      <3>2. stats'.requests \in Nat /\ stats'.errors \in Nat /\ Lives(d) = 0
        BY <1>3, <2>2, CountErrorType DEF StatsType, Lives
      <3> QED
        BY <1>1, <1>3, <3>1, <3>2 DEF Balanced
    <2> QED
      BY <2>1, <2>6, <2>7
  <1>4. stats' \in StatsType
    BY CountErrorType DEF Reconnect
  <1> QED
    BY <1>1, <1>2, <1>3, <1>4 DEF Reconnect

\* worker_conn_process keeps slot i well formed and balanced.
LEMMA ProcessHandled ==
  ASSUME TypeOK, ~stop, NEW i \in Slots, NEW c, NEW s,
         Given(i, c, s), Process(i, c, s)
  PROVE  Handled(i)
  <1>1. /\ stats \in StatsType /\ attempts \in Nat
        /\ served \in [Slots -> [Reqs -> Nat]]
        /\ stats.requests \in Nat /\ stats.errors \in Nat
        /\ Lives(conn[i]) \in {0, 1}
    BY DEF TypeOK, StatsType, Lives
  <1>2. c \in ConnType /\ s \in SockType /\ c.req_index \in Reqs
    BY DEF Given, ConnType
  <1>3. CASE ProcessDone(i, c, s)
    <2> DEFINE st == CountResponse(stats, StatusOf[s.wire])
               nx == NextRequest(c.req_index)
               next == [c EXCEPT !.req_index = nx]
    <2>1. c.state = "done" /\ Live(conn[i])
      BY <1>3 DEF ProcessDone, Given
    <2>2. /\ st \in StatsType
          /\ st.requests = stats.requests + 1 /\ st.errors = stats.errors
      BY <1>1, CountResponseType
    <2>3. nx \in Reqs
      BY <1>2, ModInReqs DEF NextRequest, Reqs
    <2>4. next \in ConnType /\ next.req_index = nx
      <3> HIDE DEF nx
      <3> QED
        BY <1>2, <2>3 DEF ConnType
    <2>5. served' \in [Slots -> [Reqs -> Nat]]
      BY <1>1, <1>2, <1>3 DEF ProcessDone
    <2>6. CASE Reconnect(i, next, st)
      <3>1. st.requests + st.errors = stats.requests + stats.errors + 1
        BY <1>1, <2>2
      <3> HIDE DEF next, st
      <3> QED
        BY <2>1, <2>2, <2>4, <2>5, <2>6, <3>1, ReconnectHandled DEF Handled
    <2>7. CASE /\ conn' = [conn EXCEPT
                    ![i] = SetOutput(ConnReuse(ResponseReset(next)), next.req_index)]
               /\ sock' = [sock EXCEPT ![i] = s]
               /\ stats' = st
               /\ EpollMod(i, InOut, s)
               /\ attempts' = attempts + 1
      <3> DEFINE d == SetOutput(ConnReuse(ResponseReset(next)), next.req_index)
                 b == ready[i] \/ Deliverable(InOut, s) # {}
      <3>1. d = [next EXCEPT !.rsp = "head", !.state = "writing", !.left = ReqLen,
                             !.out = nx]
        BY <2>4 DEF SetOutput, ConnReuse, ResponseReset, ConnType
      <3>2. ReqLen \in 0 .. ReqLen /\ ReqLen > 0
        BY ReqLenAssumption
      <3>3. d \in ConnType /\ d.state = "writing" /\ d.left = ReqLen
              /\ d.out = nx /\ d.req_index = nx /\ d.fd = next.fd
        <4> HIDE DEF d, next, nx
        <4> QED
          BY <2>3, <2>4, <3>1, <3>2 DEF ConnType, ConnStates, LiveStates
      <3>4. d.fd
        BY <2>1, <3>3, <1>2 DEF Given, LiveOK, Live, LiveStates, ConnType
      <3> HIDE DEF d
      <3>5. SlotOK(d, s, InOut) /\ Live(d)
        BY <3>2, <3>3, <3>4 DEF SlotOK, LiveOK, Live, LiveStates, InterestOf, InOut
      <3>6. CanProgress(d, s) => b
        BY <1>2, <3>3, <3>5, SlotProgress DEF InOut
      <3>7. conn' = [conn EXCEPT ![i] = d]
        BY <2>7 DEF d
      <3>8. Updated(i, d, s, InOut, b)
        BY <1>2, <2>7, <3>3, <3>5, <3>6, <3>7 DEF Updated, EpollMod, InOut, TypeOK
      <3>9. Balanced(i, d)
        BY <1>1, <2>1, <2>2, <2>7, <3>5 DEF Balanced, Lives
      <3> QED
        BY <1>1, <2>2, <2>5, <2>7, <3>5, <3>8, <3>9 DEF Handled
    <2> QED
      BY <1>3, <2>6, <2>7 DEF ProcessDone
  <1>4. CASE ProcessError(i, c, s)
    <2> DEFINE st == CountError(stats)
    <2>1. /\ st \in StatsType
          /\ st.requests = stats.requests /\ st.errors = stats.errors + 1
      BY <1>1, CountErrorType
    <2>2. Reconnect(i, c, st) /\ served' = served
      BY <1>4 DEF ProcessError
    <2>3. st.requests + st.errors = stats.requests + stats.errors + 1
      BY <1>1, <2>1
    <2>4. Live(conn[i]) \/ "reset" \in faults
      BY DEF Given
    <2> HIDE DEF st
    <2> QED
      BY <1>1, <1>2, <2>1, <2>2, <2>3, <2>4, ReconnectHandled DEF Handled
  <1>5. CASE ProcessProgress(i, c, s)
    <2> DEFINE ev == InterestOf(c.state)
               b == ready[i] \/ Deliverable(ev, s) # {}
    <2>1. LiveOK(c, s) /\ Live(c) /\ Live(conn[i])
      BY <1>5 DEF ProcessProgress, Given, LiveOK
    <2>2. ev \in SUBSET {"in", "out"} /\ ev # {}
      BY DEF InterestOf, InOut
    <2>3. SlotOK(c, s, ev)
      BY <2>1 DEF SlotOK
    <2> HIDE DEF ev
    <2>4. CanProgress(c, s) => b
      BY <1>2, <2>2, <2>3, SlotProgress
    <2>5. Updated(i, c, s, ev, b)
      BY <1>2, <1>5, <2>2, <2>3, <2>4 DEF Updated, ProcessProgress, EpollMod, TypeOK, ev
    <2>6. Balanced(i, c)
      BY <1>1, <1>5, <2>1 DEF Balanced, ProcessProgress, Lives
    <2> QED
      BY <1>1, <1>5, <2>1, <2>5, <2>6 DEF Handled, ProcessProgress
  <1> QED
    BY <1>3, <1>4, <1>5 DEF Process

-----------------------------------------------------------------------------
(* The invariant is inductive *)

LEMMA InitOK == Init => IInv
  <1> SUFFICES ASSUME Init PROVE IInv
    OBVIOUS
  <1> USE ConnCountAssumption, RequestCountAssumption, ReqLenAssumption, ModesAssumption
  <1>1. NoConn \in ConnType /\ ~Live(NoConn) /\ NoConn.state = "none" /\ ~NoConn.fd
    BY DEF NoConn, ConnType, ConnStates, LiveStates, Live, Reqs
  <1>2. ClosedSock \in SockType
    BY DEF ClosedSock, SockType
  <1>3. TypeOK
    <2>1. stats \in StatsType
      BY DEF Init, StatsType
    <2>2. served \in [Slots -> [Reqs -> Nat]]
      BY DEF Init
    <2>3. use_tls \in BOOLEAN /\ faults \in SUBSET Faults
      BY DEF Init
    <2>4. created \in 0 .. ConnCount /\ active \in 0 .. ConnCount /\ attempts \in Nat
      BY DEF Init
    <2>5. conn \in [Slots -> ConnType] /\ sock \in [Slots -> SockType]
      BY <1>1, <1>2 DEF Init
    <2>6. /\ interest \in [Slots -> SUBSET {"in", "out"}]
          /\ ready \in [Slots -> BOOLEAN]
          /\ batch \in [Slots -> SUBSET {"in", "out", "err"}]
      BY DEF Init
    <2>7. /\ phase \in {"create", "poll", "dispatch", "exit", "done"}
          /\ stop \in BOOLEAN /\ deadline \in BOOLEAN /\ cur \in Slots \cup {NoSlot}
      BY DEF Init
    <2> QED
      BY <2>1, <2>2, <2>3, <2>4, <2>5, <2>6, <2>7 DEF TypeOK
  <1>4. SlotsOK
    BY <1>1 DEF Init, SlotsOK, SlotOK
  <1>5. LoopOK /\ BatchOK
    BY DEF Init, LoopOK, BatchOK
  <1>6. NoLostWakeup
    BY <1>1 DEF Init, NoLostWakeup, CanProgress
  <1>7. Accounting
    <2>1. InFlight = {}
      BY <1>1 DEF Init, InFlight
    <2> QED
      BY <2>1, FS_EmptySet DEF Init, Accounting, Settled
  <1> QED
    BY <1>3, <1>4, <1>5, <1>6, <1>7 DEF IInv

\* A handler's step, given what worker_conn_process did to its slot.
LEMMA HandlerKeeps ==
  ASSUME IInv, phase = "dispatch", NEW i \in Slots, conn[i] # NoConn,
         Handled(i), NEW B, B \in {{}, {"in"}}, batch' = [batch EXCEPT ![i] = B],
         cur' \in Slots \cup {NoSlot},
         UNCHANGED <<phase, created, active, stop, deadline, config>>
  PROVE  IInv'
  <1>1. PICK c, s, ev, b : /\ Updated(i, c, s, ev, b) /\ Balanced(i, c)
                           /\ ~Live(c) => c.state = "error"
    BY DEF Handled
  <1>2. faults' = faults /\ use_tls' = use_tls
    BY DEF config
  <1>3. \A j \in Slots \ {i} : batch'[j] = batch[j]
    BY DEF IInv, TypeOK
  <1>4. /\ SlotsOK'
        /\ \A j \in Slots : ready'[j] => interest'[j] # {}
        /\ NoLostWakeup'
        /\ Accounting'
    BY <1>1, <1>2, <1>3, UpdateKeeps DEF IInv, Handled
  <1>5. TypeOK'
    BY <1>1, <1>2 DEF IInv, TypeOK, Updated, Handled
  <1>6. LoopOK'
    <2>1. \A j \in Slots : j >= created' => conn'[j] = NoConn
      BY <1>1 DEF IInv, LoopOK, Updated, TypeOK
    <2> QED
      BY <1>4, <2>1 DEF IInv, LoopOK
  <1>7. BatchOK'
    <2> SUFFICES ASSUME NEW j \in Slots, batch'[j] # {}
                 PROVE  /\ phase' = "dispatch"
                        /\ ~Live(conn'[j]) => conn'[j].state = "error" /\ batch'[j] = {"in"}
      BY DEF BatchOK, Live
    <2>1. CASE j = i
      BY <1>1, <2>1 DEF IInv, TypeOK, Updated
    <2>2. CASE j # i
      BY <1>1, <1>3, <2>2 DEF IInv, TypeOK, Updated, BatchOK
    <2> QED
      BY <2>1, <2>2
  <1> QED
    BY <1>4, <1>5, <1>6, <1>7 DEF IInv

\* A slot with an event to dispatch.
LEMMA Dispatched ==
  ASSUME IInv, NEW i \in Slots, batch[i] # {}
  PROVE  /\ conn[i] # NoConn
         /\ conn[i] \in ConnType /\ sock[i] \in SockType
         /\ \/ LiveOK(conn[i], sock[i]) /\ Live(conn[i])
            \/ /\ conn[i].state = "error" /\ batch[i] = {"in"}
               /\ "reset" \in faults
  <1>1. conn[i] \in ConnType /\ sock[i] \in SockType
    BY DEF IInv, TypeOK
  <1>2. Live(conn[i]) \/ (conn[i].state = "error" /\ batch[i] = {"in"})
    BY DEF IInv, BatchOK
  <1>3. SlotOK(conn[i], sock[i], interest[i])
    BY DEF IInv, SlotsOK
  <1> QED
    BY <1>1, <1>2, <1>3 DEF SlotOK, LiveOK, Live, LiveStates, NoConn

\* The error handler.
LEMMA OnErrorKeeps ==
  ASSUME IInv, NEW i \in Slots, OnError(i)
  PROVE  IInv'
  <1> DEFINE c == [conn[i] EXCEPT !.state = "error"]
  <1>1. batch[i] # {} /\ batch[i] # {"in"}
    BY DEF OnError
  <1>2. Given(i, c, sock[i])
    BY <1>1, Dispatched DEF Given, ConnType, ConnStates
  <1>3. Process(i, c, sock[i]) /\ ~stop /\ phase = "dispatch"
    BY DEF OnError, IInv, LoopOK
  <1>4. Handled(i)
    BY <1>2, <1>3, ProcessHandled DEF IInv
  <1>5. conn[i] # NoConn
    BY <1>1, Dispatched
  <1> QED
    BY <1>3, <1>4, <1>5, HandlerKeeps DEF OnError, IInv, TypeOK

\* The write handler.
LEMMA OnWriteKeeps ==
  ASSUME IInv, NEW i \in Slots, OnWrite(i)
  PROVE  IInv'
  <1>1. batch[i] # {} /\ batch[i] # {"in"}
    BY DEF OnWrite
  <1>2. PICK w \in ConnWrite(conn[i], sock[i], use_tls) : Process(i, w.c, w.s)
    BY DEF OnWrite
  <1>3. LiveOK(conn[i], sock[i]) /\ Live(conn[i]) /\ conn[i] # NoConn
          /\ conn[i] \in ConnType /\ sock[i] \in SockType
    BY <1>1, Dispatched
  <1>4. Given(i, w.c, w.s)
    <2>1. use_tls \in BOOLEAN
      BY DEF IInv, TypeOK
    <2> QED
      BY <1>2, <1>3, <2>1, ConnWriteOutcome DEF Given
  <1>5. ~stop /\ phase = "dispatch"
    BY DEF OnWrite, IInv, LoopOK
  <1>6. Handled(i)
    BY <1>2, <1>4, <1>5, ProcessHandled DEF IInv
  <1>7. batch[i] \ {"out"} \in {{}, {"in"}}
    BY DEF OnWrite, IInv, TypeOK
  <1>8. batch' = [batch EXCEPT ![i] = batch[i] \ {"out"}] /\ cur' \in Slots \cup {NoSlot}
    BY DEF OnWrite
  <1> QED
    BY <1>3, <1>5, <1>6, <1>7, <1>8, HandlerKeeps DEF OnWrite

\* The read handler, on a connection that died in its write handler too.
LEMMA OnReadKeeps ==
  ASSUME IInv, NEW i \in Slots, OnRead(i)
  PROVE  IInv'
  <1>1. batch[i] # {}
    BY DEF OnRead
  <1>2. PICK r \in ConnRead(conn[i], sock[i], use_tls) : Process(i, AfterRead(r), r.s)
    BY DEF OnRead
  <1>3. conn[i] # NoConn /\ conn[i] \in ConnType /\ sock[i] \in SockType
    BY <1>1, Dispatched
  <1>4. ASSUME LiveOK(conn[i], sock[i]), Live(conn[i])
        PROVE  Given(i, AfterRead(r), r.s)
    <2>1. use_tls \in BOOLEAN
      BY DEF IInv, TypeOK
    <2> QED
      BY <1>2, <1>3, <1>4, <2>1, ConnReadOutcome DEF Given
  <1>5. ASSUME conn[i].state = "error", "reset" \in faults
        PROVE  Given(i, AfterRead(r), r.s)
    <2>1. r = [c |-> conn[i], s |-> sock[i], in |-> "none", rc |-> 0]
      BY <1>2, <1>5 DEF ConnRead
    <2>2. AfterRead(r) = conn[i]
      BY <1>5, <2>1 DEF AfterRead
    <2> QED
      BY <1>3, <1>5, <2>1, <2>2 DEF Given
  <1>6. Given(i, AfterRead(r), r.s)
    BY <1>1, <1>4, <1>5, Dispatched
  <1>7. ~stop /\ phase = "dispatch"
    BY DEF OnRead, IInv, LoopOK
  <1>8. Handled(i)
    BY <1>2, <1>6, <1>7, ProcessHandled DEF IInv
  <1> QED
    BY <1>3, <1>7, <1>8, HandlerKeeps DEF OnRead

\* The creation loop opens a connection.
LEMMA CreateOkKeeps ==
  ASSUME IInv, NEW i \in Slots, NEW s \in FreshSocks, CreateOk(i, s)
  PROVE  IInv'
  <1> DEFINE req == i % RequestCount
             c == [SetOutput(NoConn, req) EXCEPT
                     !.state = "connecting", !.fd = TRUE, !.req_index = req]
             b == Deliverable(InOut, s) # {}
  <1>1. i \in Nat /\ req \in Reqs
    BY ModInReqs, ConnCountAssumption DEF Slots
  <1>2. /\ c = [NoConn EXCEPT !.out = req, !.left = ReqLen, !.state = "connecting",
                               !.fd = TRUE, !.req_index = req]
        /\ ReqLen \in 0 .. ReqLen
        /\ NoConn \in ConnType
    BY ReqLenAssumption, RequestCountAssumption
    DEF SetOutput, NoConn, ConnType, ConnStates, Reqs
  <1>3. /\ c \in ConnType /\ Live(c)
        /\ c.state = "connecting" /\ c.fd /\ c.out = req /\ c.req_index = req
        /\ c.left = ReqLen
    <2> HIDE DEF req, c
    <2> QED
      BY <1>1, <1>2 DEF ConnType, ConnStates, LiveStates, Live
  <1>4. s \in SockType /\ s.full = FALSE
    BY DEF FreshSocks, ClosedSock, SockType
  <1>5. SlotOK(c, s, InOut)
    <2> HIDE DEF req, c
    <2>1. InterestOf(c.state) \subseteq InOut
      BY DEF InterestOf, InOut
    <2>2. LiveOK(c, s)
      BY <1>3, <1>4, ReqLenAssumption DEF LiveOK
    <2> QED
      BY <2>1, <2>2 DEF SlotOK
  <1>6. CanProgress(c, s) => b
    <2> HIDE DEF c
    <2> QED
      BY <1>3, <1>4, <1>5, SlotProgress DEF InOut
  <1>7. conn' = [conn EXCEPT ![i] = c]
    BY DEF CreateOk
  <1> HIDE DEF c
  <1>8. Updated(i, c, s, InOut, b)
    BY <1>3, <1>4, <1>5, <1>6, <1>7 DEF Updated, CreateOk, EpollAdd, InOut
  <1>9. i = created /\ phase = "create" /\ conn[i] = NoConn /\ ~Live(conn[i])
    BY <1>1 DEF CreateOk, IInv, LoopOK, NoConn, Live, LiveStates
  <1>10. stats' = stats /\ attempts' = attempts + 1 /\ attempts \in Nat
           /\ stats \in StatsType /\ stats.requests \in Nat /\ stats.errors \in Nat
    BY DEF CreateOk, IInv, TypeOK, StatsType
  <1>11. Balanced(i, c)
    BY <1>3, <1>9, <1>10 DEF Balanced, Lives
  <1>12. UNCHANGED <<stop, batch, cur, deadline, use_tls, faults, served>>
    BY DEF CreateOk, dispatcher, config
  <1>13. /\ SlotsOK'
         /\ \A j \in Slots : ready'[j] => interest'[j] # {}
         /\ NoLostWakeup'
         /\ Accounting'
    BY <1>8, <1>9, <1>10, <1>11, <1>12, UpdateKeeps DEF IInv
  <1>14. /\ created' = created + 1 /\ active' = active + 1
         /\ created \in 0 .. ConnCount /\ created < ConnCount
         /\ phase' \in {"create", "poll", "exit"}
         /\ phase' = "create" => created' < ConnCount
    BY <1>9, ConnCountAssumption DEF CreateOk, NextPhaseAfterCreate, LoopTest, IInv, TypeOK, LoopOK
  <1>15. active \in Nat /\ active <= created
    BY DEF IInv, TypeOK, LoopOK
  <1>16. TypeOK'
    <2>1. conn' \in [Slots -> ConnType] /\ sock' \in [Slots -> SockType]
      BY <1>8 DEF Updated, IInv, TypeOK
    <2>2. interest' \in [Slots -> SUBSET {"in", "out"}] /\ ready' \in [Slots -> BOOLEAN]
      BY <1>8 DEF Updated, IInv, TypeOK
    <2>3. created' \in 0 .. ConnCount /\ active' \in 0 .. ConnCount /\ attempts' \in Nat
      BY <1>10, <1>14, <1>15, ConnCountAssumption
    <2> QED
      BY <1>10, <1>12, <1>14, <2>1, <2>2, <2>3 DEF IInv, TypeOK
  <1>17. LoopOK'
    <2>1. \A j \in Slots : j >= created' => conn'[j] = NoConn
      BY <1>8, <1>9, <1>14 DEF Updated, IInv, LoopOK, TypeOK, Slots
    <2>2. active' <= created'
      BY <1>14, <1>15
    <2> QED
      BY <1>9, <1>12, <1>13, <1>14, <2>1, <2>2 DEF IInv, LoopOK
  <1>18. BatchOK'
    BY <1>9, <1>12 DEF IInv, BatchOK
  <1> QED
    BY <1>13, <1>16, <1>17, <1>18 DEF IInv

\* It fails to: the slot stays empty.
LEMMA CreateFailsKeeps ==
  ASSUME IInv, NEW i \in Slots, CreateFails(i)
  PROVE  IInv'
  <1>1. /\ phase = "create" /\ i = created /\ attempts' = attempts + 1
        /\ stats' = CountError(stats) /\ stats \in StatsType /\ attempts \in Nat
    BY DEF CreateFails, CountError, IInv, TypeOK
  <1>2. UNCHANGED <<active, conn, stop, sock, interest, ready, batch, cur, deadline,
                    use_tls, faults, served>>
    BY DEF CreateFails, kernel, dispatcher, config
  <1>3. /\ created' = created + 1 /\ created \in 0 .. ConnCount /\ created < ConnCount
        /\ phase' \in {"create", "poll", "exit"}
        /\ phase' = "create" => created' < ConnCount
    BY <1>1, ConnCountAssumption DEF CreateFails, NextPhaseAfterCreate, LoopTest, IInv, TypeOK, LoopOK
  <1>4. /\ stats' \in StatsType
        /\ stats'.requests = stats.requests /\ stats'.errors = stats.errors + 1
    BY <1>1, CountErrorType
  <1>5. created' \in 0 .. ConnCount /\ attempts' \in Nat
    BY <1>1, <1>3, ConnCountAssumption
  <1>6. TypeOK'
    BY <1>2, <1>3, <1>4, <1>5 DEF IInv, TypeOK
  <1>7. SlotsOK' /\ NoLostWakeup'
    BY <1>2 DEF IInv, SlotsOK, SlotOK, NoLostWakeup
  <1>8. LoopOK'
    <2>1. active' <= created'
      BY <1>2, <1>3 DEF IInv, LoopOK, TypeOK
    <2>2. \A j \in Slots : j >= created' => conn'[j] = NoConn
      BY <1>2, <1>3 DEF IInv, LoopOK, Slots
    <2>3. ~stop' /\ \A j \in Slots : ready'[j] => interest'[j] # {}
      BY <1>1, <1>2 DEF IInv, LoopOK
    <2> QED
      BY <1>3, <2>1, <2>2, <2>3 DEF LoopOK
  <1>9. BatchOK'
    BY <1>1, <1>2 DEF IInv, BatchOK, Live
  <1>10. Accounting'
    <2>1. InFlight' = InFlight
      BY <1>2 DEF InFlight, Live
    <2>2. Cardinality(InFlight) \in Nat
      <3>1. InFlight \subseteq Slots /\ IsFiniteSet(Slots)
        BY FS_Interval, ConnCountAssumption DEF InFlight, Slots
      <3> QED
        BY <3>1, FS_Subset, FS_CardinalityType
    <2>3. stats.requests \in Nat /\ stats.errors \in Nat
      BY <1>1 DEF StatsType
    <2> QED
      BY <1>1, <1>2, <1>4, <2>1, <2>2, <2>3 DEF IInv, Accounting, Settled
  <1> QED
    BY <1>6, <1>7, <1>8, <1>9, <1>10 DEF IInv

\* A step that leaves the connections and the counters alone keeps the count.
LEMMA SameAccounting ==
  ASSUME Accounting, phase # "done", UNCHANGED <<conn, stats, attempts, faults>>
  PROVE  Accounting'
  <1>1. InFlight' = InFlight
    BY DEF InFlight, Live
  <1> QED
    BY <1>1 DEF Accounting, Settled

\* epoll_wait hands out entries.
LEMMA PollKeeps ==
  ASSUME IInv, NEW B \in SUBSET Slots, Poll(B)
  PROVE  IInv'
  <1>1. UNCHANGED <<created, active, conn, stats, stop, sock, interest, cur, deadline,
                    use_tls, faults, attempts, served>>
    BY DEF Poll, config, history
  <1>2. /\ phase = "poll" /\ phase' = "dispatch"
        /\ \A i \in B : ready[i]
        /\ batch' = [i \in Slots |-> IF i \in B THEN Deliverable(interest[i], sock[i])
                                     ELSE {}]
        /\ ready' = [i \in Slots |-> ready[i] /\ i \notin B]
    BY DEF Poll
  <1>3. \A i \in Slots : Deliverable(interest[i], sock[i]) \subseteq {"in", "out", "err"}
    BY DEF Deliverable, Mask
  <1>4. TypeOK'
    <2>1. batch' \in [Slots -> SUBSET {"in", "out", "err"}]
      BY <1>2, <1>3
    <2>2. ready' \in [Slots -> BOOLEAN]
      BY <1>2
    <2> QED
      BY <1>1, <1>2, <2>1, <2>2 DEF IInv, TypeOK
  <1>5. SlotsOK'
    BY <1>1 DEF IInv, SlotsOK, SlotOK
  <1>6. LoopOK'
    BY <1>1, <1>2 DEF IInv, LoopOK
  <1>7. BatchOK'
    <2> SUFFICES ASSUME NEW i \in Slots, batch'[i] # {}
                 PROVE  Live(conn[i])
      BY <1>1, <1>2 DEF BatchOK, Live
    <2>1. interest[i] # {}
      BY <1>2 DEF Deliverable
    <2> QED
      BY <2>1 DEF IInv, SlotsOK, SlotOK, LiveOK
  <1>8. NoLostWakeup'
    <2> SUFFICES ASSUME NEW i \in Slots, CanProgress(conn[i], sock[i])
                 PROVE  ready'[i] \/ batch'[i] # {}
      BY <1>1 DEF NoLostWakeup, CanProgress, Live
    <2>1. batch[i] = {}
      BY <1>2 DEF IInv, BatchOK
    <2>2. ready[i]
      BY <2>1 DEF IInv, NoLostWakeup
    <2>3. Deliverable(interest[i], sock[i]) # {}
      BY SlotProgress DEF IInv, TypeOK, SlotsOK
    <2> QED
      BY <1>2, <2>2, <2>3
  <1>9. Accounting'
    BY <1>1, <1>2, SameAccounting DEF IInv
  <1> QED
    BY <1>4, <1>5, <1>6, <1>7, <1>8, <1>9 DEF IInv

\* Nothing but the phase and the stop flag changes.
LEMMA ControlKeeps ==
  ASSUME IInv, phase # "done",
         UNCHANGED <<created, active, conn, stats, kernel, dispatcher, config, history>>,
         stop' \in BOOLEAN, deadline' \in BOOLEAN,
         phase' \in {"create", "poll", "dispatch", "exit"},
         phase' # "exit" => stop' = FALSE,
         phase' = "create" => phase = "create",
         phase' # phase => \A i \in Slots : batch[i] = {}
  PROVE  IInv'
  <1>1. UNCHANGED <<created, active, conn, stats, sock, interest, ready, batch, cur,
                    use_tls, faults, attempts, served>>
    BY DEF kernel, dispatcher, config, history
  <1>2. TypeOK'
    BY <1>1 DEF IInv, TypeOK
  <1>3. SlotsOK' /\ NoLostWakeup'
    BY <1>1 DEF IInv, SlotsOK, SlotOK, NoLostWakeup
  <1>4. LoopOK' /\ BatchOK'
    BY <1>1 DEF IInv, LoopOK, BatchOK, Live
  <1>5. Accounting'
    BY <1>1, SameAccounting DEF IInv
  <1> QED
    BY <1>2, <1>3, <1>4, <1>5 DEF IInv

\* A socket changes under its connection.
LEMMA WakeKeeps ==
  ASSUME IInv, NEW i \in Slots, NEW s \in SockType, sock[i] # ClosedSock,
         s.wire = sock[i].wire, s.full = TRUE => sock[i].full = TRUE, Wake(i, s)
  PROVE  IInv'
  <1> DEFINE b == ready[i] \/ Deliverable(interest[i], s) # {}
  <1>1. UNCHANGED <<phase, created, active, conn, stats, stop, interest, batch, cur,
                    deadline, use_tls, faults, attempts, served>>
    BY DEF Wake, dispatcher, config, history
  <1>2. sock' = [sock EXCEPT ![i] = s] /\ ready' = [ready EXCEPT ![i] = b]
    BY DEF Wake
  <1>3. SlotOK(conn[i], sock[i], interest[i]) /\ s.full \in BOOLEAN /\ sock[i].full \in BOOLEAN
    BY DEF IInv, SlotsOK, TypeOK, SockType
  <1>4. LiveOK(conn[i], sock[i]) /\ InterestOf(conn[i].state) \subseteq interest[i]
    BY <1>3 DEF SlotOK
  <1>5. LiveOK(conn[i], s)
    BY <1>3, <1>4 DEF LiveOK
  <1>6. SlotOK(conn[i], s, interest[i])
    BY <1>4, <1>5 DEF SlotOK
  <1>7. TypeOK'
    BY <1>1, <1>2 DEF IInv, TypeOK
  <1>8. SlotsOK'
    BY <1>1, <1>2, <1>6 DEF IInv, SlotsOK, SlotOK, TypeOK
  <1>9. LoopOK'
    <2>1. interest[i] # {}
      BY <1>4 DEF InterestOf, InOut
    <2> QED
      BY <1>1, <1>2, <2>1 DEF IInv, LoopOK, TypeOK
  <1>10. BatchOK'
    BY <1>1 DEF IInv, BatchOK, Live
  <1>11. NoLostWakeup'
    <2>1. CanProgress(conn[i], s) => b
      BY <1>6, SlotProgress DEF IInv, TypeOK
    <2> SUFFICES ASSUME NEW j \in Slots, CanProgress(conn[j], sock'[j])
                 PROVE  ready'[j] \/ batch'[j] # {}
      BY <1>1 DEF NoLostWakeup, CanProgress, Live
    <2>2. CASE j = i
      BY <1>2, <2>1, <2>2 DEF IInv, TypeOK
    <2>3. CASE j # i
      BY <1>1, <1>2, <2>3 DEF IInv, TypeOK, NoLostWakeup
    <2> QED
      BY <2>2, <2>3
  <1>12. Accounting'
    <2>1. CASE phase # "done"
      BY <1>1, <2>1, SameAccounting DEF IInv
    <2>2. CASE phase = "done"
      BY <1>1, <2>2 DEF Accounting
    <2> QED
      BY <2>1, <2>2
  <1> QED
    BY <1>7, <1>8, <1>9, <1>10, <1>11, <1>12 DEF IInv

\* Everything is freed.
LEMMA CleanupKeeps ==
  ASSUME IInv, Cleanup
  PROVE  IInv'
  <1>1. /\ UNCHANGED <<created, active, stats, stop, batch, cur, deadline, use_tls,
                       faults, attempts, served>>
        /\ phase = "exit" /\ phase' = "done"
    BY DEF Cleanup, dispatcher, config, history
  <1>2. conn \in [Slots -> ConnType] /\ ClosedSock \in SockType
    BY DEF IInv, TypeOK, ClosedSock, SockType
  <1>3. \A i \in Slots : /\ conn'[i] \in ConnType
                         /\ conn'[i].state \in {"none", "freed"}
                         /\ ~conn'[i].fd
                         /\ conn[i] = NoConn => conn'[i] = NoConn
    <2> SUFFICES ASSUME NEW i \in Slots
                 PROVE  /\ conn'[i] \in ConnType
                        /\ conn'[i].state \in {"none", "freed"}
                        /\ ~conn'[i].fd
                        /\ conn[i] = NoConn => conn'[i] = NoConn
      OBVIOUS
    <2>1. CASE conn[i].state = "none"
      <3>1. ~conn[i].fd
        BY <2>1 DEF IInv, SlotsOK, SlotOK, LiveOK, Live, LiveStates
      <3> QED
        BY <1>2, <2>1, <3>1 DEF Cleanup
    <2>2. CASE conn[i].state # "none"
      <3>1. conn'[i] = [conn[i] EXCEPT !.state = "freed", !.fd = FALSE]
        BY <2>2 DEF Cleanup
      <3>2. conn'[i] \in ConnType /\ conn'[i].state = "freed" /\ ~conn'[i].fd
        BY <1>2, <3>1 DEF ConnType, ConnStates
      <3> QED
        BY <2>2, <3>2 DEF NoConn
    <2> QED
      BY <2>1, <2>2
  <1>4. TypeOK'
    <2>1. conn' \in [Slots -> ConnType]
      BY <1>3 DEF Cleanup
    <2>2. /\ sock' \in [Slots -> SockType]
          /\ interest' \in [Slots -> SUBSET {"in", "out"}]
          /\ ready' \in [Slots -> BOOLEAN]
      BY <1>2 DEF Cleanup
    <2> QED
      BY <1>1, <2>1, <2>2 DEF IInv, TypeOK
  <1>5. SlotsOK'
    BY <1>3 DEF Cleanup, SlotsOK, SlotOK
  <1>6. LoopOK'
    BY <1>1, <1>3 DEF Cleanup, IInv, LoopOK
  <1>7. BatchOK'
    BY <1>1 DEF IInv, BatchOK
  <1>8. NoLostWakeup'
    BY <1>3 DEF NoLostWakeup, CanProgress, Live, LiveStates
  <1>9. Accounting'
    BY <1>1 DEF Accounting
  <1> QED
    BY <1>4, <1>5, <1>6, <1>7, <1>8, <1>9 DEF IInv

\* Each step of the network that changes a socket is such a wake-up.
LEMMA NetworkKeeps ==
  ASSUME IInv, NEW i \in Slots,
         \/ Established(i) \/ Refused(i) \/ Reset(i) \/ PeerCloses(i) \/ Drains(i)
         \/ \E t \in {"flight", "bad"} : Handshakes(i, t)
         \/ \E p \in Pieces : Answers(i, p)
  PROVE  IInv'
  <1>1. sock[i] \in SockType /\ ClosedSock.st = "closed"
    BY DEF IInv, TypeOK, ClosedSock
  <1>2. CASE Established(i)
    <2> DEFINE s == [sock[i] EXCEPT !.st = "est"]
    <2>1. s \in SockType /\ s.wire = sock[i].wire /\ s.full = sock[i].full
      BY <1>1 DEF SockType
    <2> QED
      BY <1>1, <1>2, <2>1, WakeKeeps DEF Established
  <1>3. CASE Refused(i)
    <2> DEFINE s == [sock[i] EXCEPT !.st = "fail"]
    <2>1. s \in SockType /\ s.wire = sock[i].wire /\ s.full = sock[i].full
      BY <1>1 DEF SockType
    <2> QED
      BY <1>1, <1>3, <2>1, WakeKeeps DEF Refused
  <1>4. CASE Reset(i)
    <2> DEFINE s == [sock[i] EXCEPT !.st = "rst"]
    <2>1. s \in SockType /\ s.wire = sock[i].wire /\ s.full = sock[i].full
      BY <1>1 DEF SockType
    <2> QED
      BY <1>1, <1>4, <2>1, WakeKeeps DEF Reset
  <1>5. CASE PeerCloses(i)
    <2> DEFINE s == [sock[i] EXCEPT !.fin = TRUE]
    <2>1. s \in SockType /\ s.wire = sock[i].wire /\ s.full = sock[i].full
      BY <1>1 DEF SockType
    <2> QED
      BY <1>1, <1>5, <2>1, WakeKeeps DEF PeerCloses
  <1>6. CASE Drains(i)
    <2> DEFINE s == [sock[i] EXCEPT !.full = FALSE]
    <2>1. s \in SockType /\ s.wire = sock[i].wire /\ s.full = FALSE
      BY <1>1 DEF SockType
    <2> QED
      BY <1>1, <1>6, <2>1, WakeKeeps DEF Drains
  <1>7. ASSUME NEW t \in {"flight", "bad"}, Handshakes(i, t)
        PROVE  IInv'
    <2> DEFINE s == [sock[i] EXCEPT !.tls = t]
    <2>1. s \in SockType /\ s.wire = sock[i].wire /\ s.full = sock[i].full
      BY <1>1 DEF SockType
    <2> QED
      BY <1>1, <1>7, <2>1, WakeKeeps DEF Handshakes
  <1>8. ASSUME NEW p \in Pieces, Answers(i, p)
        PROVE  IInv'
    <2> DEFINE s == [sock[i] EXCEPT !.rx = p, !.sent = p]
    <2>1. s \in SockType /\ s.wire = sock[i].wire /\ s.full = sock[i].full
      BY <1>1 DEF SockType
    <2> QED
      BY <1>1, <1>8, <2>1, WakeKeeps DEF Answers
  <1> QED
    BY <1>2, <1>3, <1>4, <1>5, <1>6, <1>7, <1>8

\* A step that changes nothing but the clock.
LEMMA StutterKeeps ==
  ASSUME IInv, deadline' \in BOOLEAN,
         UNCHANGED <<phase, created, active, conn, stats, stop, kernel, dispatcher,
                     config, history>>
  PROVE  IInv'
  <1>1. UNCHANGED <<phase, created, active, conn, stats, stop, sock, interest, ready,
                    batch, cur, use_tls, faults, attempts, served>>
    BY DEF kernel, dispatcher, config, history
  <1>2. TypeOK' /\ LoopOK'
    BY <1>1 DEF IInv, TypeOK, LoopOK
  <1>3. SlotsOK' /\ NoLostWakeup' /\ BatchOK'
    BY <1>1 DEF IInv, SlotsOK, SlotOK, NoLostWakeup, BatchOK, Live
  <1>4. Accounting'
    <2>1. InFlight' = InFlight
      BY <1>1 DEF InFlight, Live
    <2> QED
      BY <1>1, <2>1 DEF IInv, Accounting, Settled
  <1> QED
    BY <1>2, <1>3, <1>4 DEF IInv

\* Every step of the system keeps the invariant.
LEMMA NextKeeps == IInv /\ [Next]_vars => IInv'
  <1> SUFFICES ASSUME IInv, [Next]_vars PROVE IInv'
    OBVIOUS
  <1>1. ASSUME NEW i \in Slots, NEW s \in FreshSocks, CreateOk(i, s) PROVE IInv'
    BY <1>1, CreateOkKeeps
  <1>2. ASSUME NEW i \in Slots, CreateFails(i) PROVE IInv'
    BY <1>2, CreateFailsKeeps
  <1>3. ASSUME NEW B \in SUBSET Slots, Poll(B) PROVE IInv'
    BY <1>3, PollKeeps
  <1>4. CASE PollFails
    BY <1>4, ControlKeeps DEF PollFails, IInv, TypeOK, BatchOK
  <1>5. ASSUME NEW i \in Slots, OnError(i) PROVE IInv'
    BY <1>5, OnErrorKeeps
  <1>6. ASSUME NEW i \in Slots, OnWrite(i) PROVE IInv'
    BY <1>6, OnWriteKeeps
  <1>7. ASSUME NEW i \in Slots, OnRead(i) PROVE IInv'
    BY <1>7, OnReadKeeps
  <1>8. CASE Expire
    <2>1. phase' # "exit" => stop' = FALSE
      BY <1>8 DEF Expire, LoopTest, IInv, TypeOK
    <2>2. stop' \in BOOLEAN /\ phase' \in {"poll", "exit"}
      BY <1>8 DEF Expire, LoopTest, IInv, TypeOK
    <2> QED
      BY <1>8, <2>1, <2>2, ControlKeeps DEF Expire, IInv, TypeOK
  <1>9. CASE Cleanup
    BY <1>9, CleanupKeeps
  <1>10. CASE EnvironmentNext
    <2>1. CASE DeadlinePasses
      BY <2>1, StutterKeeps DEF DeadlinePasses
    <2> QED
      BY <1>10, <2>1, NetworkKeeps DEF EnvironmentNext
  <1>11. CASE Returned \/ UNCHANGED vars
    BY <1>11, StutterKeeps DEF Returned, vars, IInv, TypeOK
  <1> QED
    BY <1>1, <1>2, <1>3, <1>4, <1>5, <1>6, <1>7, <1>8, <1>9, <1>10, <1>11
    DEF Next, WorkerNext

-----------------------------------------------------------------------------
(* The theorems *)

\* The variables keep their types, whatever the network does and whichever
\* system calls fail.
THEOREM TypeCorrect == Spec => []TypeOK
  BY InitOK, NextKeeps, PTL DEF Spec, IInv

\* No edge is lost, for any number of connections and any size of the event
\* array.
THEOREM NoWakeupIsLost == Spec => []NoLostWakeup
  BY InitOK, NextKeeps, PTL DEF Spec, IInv

\* Every request started is in flight or counted once.
THEOREM RequestsAreAccounted == Spec => []Accounting
  BY InitOK, NextKeeps, PTL DEF Spec, IInv

-----------------------------------------------------------------------------
(* What a step does to the record of one connection *)

\* It records the response to the request the connection is on, which is the
\* one the server was sent, and the connection goes on with the next one;
RecordsOne(i) ==
  /\ conn[i].state # "none" /\ conn'[i].state # "none"
  /\ sock[i].wire = conn[i].req_index
  /\ served'[i] = [served[i] EXCEPT ![conn[i].req_index] = @ + 1]
  /\ conn'[i].req_index = NextRequest(conn[i].req_index)

\* or it records nothing and the connection stays on its request;
RecordsNone(i) ==
  /\ served'[i] = served[i]
  /\ conn'[i].req_index = conn[i].req_index
  /\ conn'[i].state = "none" <=> conn[i].state = "none"

\* or it opens the connection, on the request its number gives it.
Opens(i) ==
  /\ conn[i].state = "none" /\ conn'[i].state # "none"
  /\ served'[i] = served[i]
  /\ conn'[i].req_index = i % RequestCount

Records(i) == RecordsOne(i) \/ RecordsNone(i) \/ Opens(i)

\* A slot of conn that is set has what it was set to; the others are as before.
LEMMA SetSlot ==
  ASSUME conn \in [Slots -> ConnType], NEW i \in Slots, NEW c,
         conn' = [conn EXCEPT ![i] = c]
  PROVE  conn'[i] = c /\ \A j \in Slots \ {i} : conn'[j] = conn[j]
  OBVIOUS

\* A reconnection, failed or not, keeps the request of the connection.
LEMMA ReconnectRecords ==
  ASSUME conn \in [Slots -> ConnType], NEW i \in Slots, NEW d \in ConnType, NEW st,
         Reconnect(i, d, st)
  PROVE  /\ conn'[i].req_index = d.req_index /\ conn'[i].state # "none"
         /\ \A j \in Slots \ {i} : conn'[j] = conn[j]
  <1>1. CASE conn' = [conn EXCEPT
               ![i] = SetOutput(ConnResetOk(ResponseReset(d)), d.req_index)]
    BY <1>1, SetSlot DEF SetOutput, ConnResetOk, ResponseReset, ConnType
  <1>2. CASE conn' = [conn EXCEPT ![i] = ConnResetFailed(ResponseReset(d))]
    BY <1>2, SetSlot DEF ConnResetFailed, ResponseReset, ConnType
  <1> QED
    BY <1>1, <1>2 DEF Reconnect

\* worker_conn_process records a response only of a connection that is done.
LEMMA ProcessRecords ==
  ASSUME TypeOK, ~stop, NEW i \in Slots, NEW c \in ConnType, NEW s,
         conn[i].state # "none", c.state # "none",
         c.req_index = conn[i].req_index,
         c.state = "done" => sock[i].wire = c.req_index,
         Process(i, c, s)
  PROVE  /\ RecordsOne(i) \/ RecordsNone(i)
         /\ \A j \in Slots \ {i} : served'[j] = served[j] /\ conn'[j] = conn[j]
  <1>1. /\ served \in [Slots -> [Reqs -> Nat]] /\ conn \in [Slots -> ConnType]
        /\ c.req_index \in Reqs
    BY DEF TypeOK, ConnType
  <1>2. CASE ProcessDone(i, c, s)
    <2> DEFINE nx == NextRequest(c.req_index)
               next == [c EXCEPT !.req_index = nx]
               st == CountResponse(stats, StatusOf[s.wire])
    <2>1. /\ served'[i] = [served[i] EXCEPT ![c.req_index] = @ + 1]
          /\ \A j \in Slots \ {i} : served'[j] = served[j]
      BY <1>1, <1>2 DEF ProcessDone
    <2>2. next \in ConnType /\ next.req_index = nx
      <3>1. nx \in Reqs
        <4>1. c.req_index + 1 \in Nat
          BY <1>1, RequestCountAssumption DEF Reqs
        <4> QED
          BY <4>1, ModInReqs DEF NextRequest
      <3> HIDE DEF nx
      <3> QED
        BY <3>1 DEF ConnType
    <2>3. /\ conn'[i].req_index = nx /\ conn'[i].state # "none"
          /\ \A j \in Slots \ {i} : conn'[j] = conn[j]
      <3>1. CASE Reconnect(i, next, st)
        <4> HIDE DEF next, st
        <4> QED
          BY <1>1, <2>2, <3>1, ReconnectRecords
      <3>2. CASE conn' = [conn EXCEPT
                   ![i] = SetOutput(ConnReuse(ResponseReset(next)), next.req_index)]
        <4> HIDE DEF next, nx
        <4> QED
          BY <1>1, <2>2, <3>2, SetSlot DEF SetOutput, ConnReuse, ResponseReset, ConnType
      <3> QED
        BY <1>2, <3>1, <3>2 DEF ProcessDone
    <2>4. c.state = "done"
      BY <1>2 DEF ProcessDone
    <2> QED
      BY <2>1, <2>3, <2>4 DEF RecordsOne
  <1>3. CASE ProcessError(i, c, s)
    <2>1. Reconnect(i, c, CountError(stats)) /\ served' = served
      BY <1>3 DEF ProcessError
    <2> QED
      BY <1>1, <2>1, ReconnectRecords DEF RecordsNone
  <1>4. CASE ProcessProgress(i, c, s)
    <2>1. conn' = [conn EXCEPT ![i] = c] /\ served' = served
      BY <1>4 DEF ProcessProgress
    <2> QED
      BY <1>1, <2>1, SetSlot DEF RecordsNone
  <1> QED
    BY <1>2, <1>3, <1>4 DEF Process

\* So does every handler, of the connection it is for.
LEMMA HandlerRecords ==
  ASSUME IInv, ~stop, NEW i \in Slots, batch[i] # {}, NEW c \in ConnType, NEW s,
         c.state # "none",
         c.req_index = conn[i].req_index,
         c.state = "done" => sock[i].wire = c.req_index,
         Process(i, c, s)
  PROVE  \A j \in Slots : Records(j)
  <1>1. conn[i].state # "none"
    BY Dispatched DEF Live, LiveStates
  <1>2. /\ RecordsOne(i) \/ RecordsNone(i)
        /\ \A j \in Slots \ {i} : served'[j] = served[j] /\ conn'[j] = conn[j]
    BY <1>1, ProcessRecords DEF IInv
  <1> QED
    BY <1>2 DEF Records, RecordsNone

\* Every step records at most one response, on the connection it is about.
LEMMA StepRecords ==
  ASSUME IInv, [Next]_vars
  PROVE  \A j \in Slots : Records(j)
  <1>1. ASSUME served' = served, conn' = conn
        PROVE  \A j \in Slots : Records(j)
    BY <1>1 DEF Records, RecordsNone
  <1>2. conn \in [Slots -> ConnType] /\ use_tls \in BOOLEAN
    BY DEF IInv, TypeOK
  <1>3. ASSUME NEW i \in Slots, NEW s \in FreshSocks, CreateOk(i, s)
        PROVE  \A j \in Slots : Records(j)
    <2>1. conn[i].state = "none"
      BY <1>3 DEF CreateOk, IInv, LoopOK, NoConn, Slots
    <2> DEFINE req == i % RequestCount
               c == [SetOutput(NoConn, req) EXCEPT
                       !.state = "connecting", !.fd = TRUE, !.req_index = req]
    <2>2. conn' = [conn EXCEPT ![i] = c] /\ served' = served
      BY <1>3 DEF CreateOk
    <2>3. c.req_index = req /\ c.state = "connecting"
      <3> HIDE DEF req
      <3> QED
        BY DEF SetOutput, NoConn
    <2>4. conn'[i] = c /\ \A j \in Slots \ {i} : conn'[j] = conn[j]
      <3> HIDE DEF c
      <3> QED
        BY <1>2, <2>2, SetSlot
    <2>5. Opens(i)
      <3> HIDE DEF c
      <3> QED
        BY <2>1, <2>2, <2>3, <2>4 DEF Opens
    <2> QED
      BY <2>2, <2>4, <2>5 DEF Records, RecordsNone
  <1>4. ASSUME NEW i \in Slots, CreateFails(i)
        PROVE  \A j \in Slots : Records(j)
    BY <1>1, <1>4 DEF CreateFails
  <1>5. ASSUME NEW B \in SUBSET Slots, Poll(B)
        PROVE  \A j \in Slots : Records(j)
    BY <1>1, <1>5 DEF Poll, history
  <1>6. CASE PollFails
    BY <1>1, <1>6 DEF PollFails, history
  <1>7. ASSUME NEW i \in Slots, OnError(i)
        PROVE  \A j \in Slots : Records(j)
    <2> DEFINE c == [conn[i] EXCEPT !.state = "error"]
    <2>1. c \in ConnType /\ c.state = "error" /\ c.req_index = conn[i].req_index
      BY <1>2 DEF ConnType, ConnStates
    <2>2. Process(i, c, sock[i]) /\ ~stop /\ batch[i] # {}
      BY <1>7 DEF OnError, IInv, LoopOK
    <2> HIDE DEF c
    <2> QED
      BY <2>1, <2>2, HandlerRecords
  <1>8. ASSUME NEW i \in Slots, OnWrite(i)
        PROVE  \A j \in Slots : Records(j)
    <2>1. PICK w \in ConnWrite(conn[i], sock[i], use_tls) : Process(i, w.c, w.s)
      BY <1>8 DEF OnWrite
    <2>2. ~stop /\ batch[i] # {} /\ batch[i] # {"in"}
      BY <1>8 DEF OnWrite, IInv, LoopOK
    <2>3. LiveOK(conn[i], sock[i]) /\ conn[i] \in ConnType /\ sock[i] \in SockType
      BY <2>2, Dispatched
    <2>4. /\ w.c \in ConnType /\ w.c.req_index = conn[i].req_index
          /\ w.c.state = "error" \/ LiveOK(w.c, w.s)
      BY <1>2, <2>3, ConnWriteOutcome
    <2>5. w.c.state \notin {"done", "none"}
      BY <2>4 DEF LiveOK, Live, LiveStates
    <2> QED
      BY <2>1, <2>2, <2>4, <2>5, HandlerRecords
  <1>9. ASSUME NEW i \in Slots, OnRead(i)
        PROVE  \A j \in Slots : Records(j)
    <2>1. PICK r \in ConnRead(conn[i], sock[i], use_tls) : Process(i, AfterRead(r), r.s)
      BY <1>9 DEF OnRead
    <2>2. ~stop /\ batch[i] # {}
      BY <1>9 DEF OnRead, IInv, LoopOK
    <2>3. conn[i] \in ConnType /\ sock[i] \in SockType
      BY <2>2, Dispatched
    <2>4. CASE LiveOK(conn[i], sock[i])
      <3>1. /\ AfterRead(r) \in ConnType /\ AfterRead(r).req_index = conn[i].req_index
            /\ \/ AfterRead(r).state = "error"
               \/ AfterRead(r).state = "done" /\ sock[i].wire = conn[i].req_index
               \/ LiveOK(AfterRead(r), r.s)
        BY <1>2, <2>3, <2>4, ConnReadOutcome
      <3>2. /\ AfterRead(r).state # "none"
            /\ AfterRead(r).state = "done" => sock[i].wire = conn[i].req_index
        BY <3>1 DEF LiveOK, Live, LiveStates
      <3> QED
        BY <2>1, <2>2, <3>1, <3>2, HandlerRecords
    <2>5. CASE conn[i].state = "error"
      <3>1. r = [c |-> conn[i], s |-> sock[i], in |-> "none", rc |-> 0]
        BY <2>1, <2>5 DEF ConnRead
      <3>2. AfterRead(r) = conn[i]
        BY <2>5, <3>1 DEF AfterRead
      <3> QED
        BY <2>1, <2>2, <2>3, <2>5, <3>2, HandlerRecords
    <2> QED
      BY <2>2, <2>4, <2>5, Dispatched
  <1>10. CASE Expire
    BY <1>1, <1>10 DEF Expire, history
  <1>11. CASE Cleanup
    <2>1. served' = served
      BY <1>11 DEF Cleanup, history
    <2>2. ASSUME NEW j \in Slots
          PROVE  /\ conn'[j].req_index = conn[j].req_index
                 /\ conn'[j].state = "none" <=> conn[j].state = "none"
      BY <1>2, <1>11 DEF Cleanup, ConnType
    <2> QED
      BY <2>1, <2>2 DEF Records, RecordsNone
  <1>12. ASSUME NEW i \in Slots, NEW s, Wake(i, s)
         PROVE  \A j \in Slots : Records(j)
    BY <1>1, <1>12 DEF Wake, history
  <1>13. CASE EnvironmentNext
    BY <1>1, <1>12, <1>13
    DEF EnvironmentNext, Established, Refused, Reset, PeerCloses, Drains, Handshakes,
        Answers, DeadlinePasses, history
  <1>14. CASE Returned \/ UNCHANGED vars
    BY <1>1, <1>14 DEF Returned, vars, history
  <1> QED
    BY <1>3, <1>4, <1>5, <1>6, <1>7, <1>8, <1>9, <1>10, <1>11, <1>13, <1>14
    DEF Next, WorkerNext

-----------------------------------------------------------------------------
(* The requests of one connection, in turn *)

\* The requests passed on the way round from request a to request b.
Lap(a, b) ==
  IF a <= b THEN {r \in Reqs : a <= r /\ r < b}
  ELSE {r \in Reqs : a <= r \/ r < b}

\* A connection has recorded as many full rounds as any, and one response more
\* for the requests it has passed since.
InTurn(i) ==
  \/ conn[i].state = "none" /\ served[i] = [r \in Reqs |-> 0]
  \/ /\ conn[i].state # "none"
     /\ \E rounds \in Nat : \A r \in Reqs :
          served[i][r] = rounds + (IF r \in Lap(i % RequestCount, conn[i].req_index)
                                   THEN 1 ELSE 0)

AllInTurn == \A i \in Slots : InTurn(i)

\* The modulus of NextRequest wraps at the last request only.
LEMMA NextIsSuccessor ==
  \A r \in Reqs : NextRequest(r) = IF r + 1 = RequestCount THEN 0 ELSE r + 1
  BY RequestCountAssumption DEF NextRequest, Reqs

\* A step keeps the order.
LEMMA InTurnStep ==
  ASSUME TypeOK, NEW i \in Slots, InTurn(i), Records(i)
  PROVE  InTurn(i)'
  <1> DEFINE a == i % RequestCount
             b == conn[i].req_index
  <1>1. /\ a \in Reqs /\ b \in Reqs
        /\ served[i] \in [Reqs -> Nat]
        /\ RequestCount \in Nat \ {0}
    <2>1. i \in Nat
      BY ConnCountAssumption DEF Slots
    <2>2. a \in Reqs
      BY <2>1, ModInReqs
    <2> HIDE DEF a
    <2> QED
      BY <2>2, RequestCountAssumption DEF TypeOK, ConnType
  <1>2. CASE RecordsNone(i)
    BY <1>2 DEF RecordsNone, InTurn
  <1>3. CASE Opens(i)
    <2>1. \A r \in Reqs : r \notin Lap(a, a)
      BY <1>1 DEF Lap, Reqs
    <2>2. \A r \in Reqs : served'[i][r] = 0
      BY <1>3 DEF Opens, InTurn
    <2>3. conn'[i].req_index = a /\ conn'[i].state # "none"
      BY <1>3 DEF Opens
    <2> HIDE DEF a
    <2>4. \A r \in Reqs :
            served'[i][r] = 0 + (IF r \in Lap(a, conn'[i].req_index) THEN 1 ELSE 0)
      BY <2>1, <2>2, <2>3
    <2> QED
      BY <2>3, <2>4 DEF InTurn, a
  <1>4. CASE RecordsOne(i)
    <2> DEFINE b1 == NextRequest(b)
    <2>1. PICK rounds \in Nat : \A r \in Reqs :
            served[i][r] = rounds + (IF r \in Lap(a, b) THEN 1 ELSE 0)
      BY <1>4 DEF RecordsOne, InTurn
    <2>2. b1 = IF b + 1 = RequestCount THEN 0 ELSE b + 1
      BY <1>1, NextIsSuccessor
    <2>3. \A r \in Reqs : served'[i][r] = IF r = b THEN served[i][r] + 1 ELSE served[i][r]
      BY <1>1, <1>4 DEF RecordsOne
    <2>4. b \notin Lap(a, b)
      BY <1>1 DEF Lap, Reqs
    <2>5. conn'[i].req_index = b1 /\ conn'[i].state # "none"
      BY <1>4 DEF RecordsOne
    <2> HIDE DEF a, b, b1
    <2>6. CASE b1 = a
      <3>1. \A r \in Reqs : r # b => r \in Lap(a, b)
        BY <1>1, <2>2, <2>6 DEF Lap, Reqs
      <3>2. \A r \in Reqs : r \notin Lap(a, b1)
        BY <1>1, <2>6 DEF Lap, Reqs
      <3>3. \A r \in Reqs :
              served'[i][r] = (rounds + 1) + (IF r \in Lap(a, b1) THEN 1 ELSE 0)
        BY <2>1, <2>3, <2>4, <3>1, <3>2
      <3>4. rounds + 1 \in Nat
        OBVIOUS
      <3> QED
        BY <2>5, <3>3, <3>4 DEF InTurn, a
    <2>7. CASE b1 # a
      <3>1. \A r \in Reqs : r \in Lap(a, b1) <=> r = b \/ r \in Lap(a, b)
        BY <1>1, <2>2, <2>7 DEF Lap, Reqs
      <3>2. \A r \in Reqs :
              served'[i][r] = rounds + (IF r \in Lap(a, b1) THEN 1 ELSE 0)
        BY <2>1, <2>3, <2>4, <3>1
      <3> QED
        BY <2>5, <3>2 DEF InTurn, a
    <2> QED
      BY <2>6, <2>7
  <1> QED
    BY <1>2, <1>3, <1>4 DEF Records

-----------------------------------------------------------------------------
(* The theorems *)

\* A response is recorded for the request whose bytes the server answered.
THEOREM ResponsesMatch == Spec => AnswersOwnRequest
  <1>1. IInv /\ [Next]_vars =>
          [\A i \in Slots, r \in Reqs :
             served'[i][r] # served[i][r] => sock[i].wire = r]_vars
    <2> SUFFICES ASSUME IInv, [Next]_vars, NEW i \in Slots, NEW r \in Reqs,
                        served'[i][r] # served[i][r]
                 PROVE  sock[i].wire = r
      OBVIOUS
    <2>1. Records(i)
      BY StepRecords
    <2>2. RecordsOne(i)
      BY <2>1 DEF Records, RecordsNone, Opens
    <2>3. served[i] \in [Reqs -> Nat]
      BY DEF IInv, TypeOK
    <2> QED
      BY <2>2, <2>3 DEF RecordsOne
  <1> QED
    BY <1>1, InitOK, NextKeeps, PTL DEF Spec, AnswersOwnRequest

\* Each connection goes through the requests in turn, whatever fails.
THEOREM RequestsInTurn == Spec => []RoundRobin
  <1>1. Init => AllInTurn
    BY DEF Init, AllInTurn, InTurn, NoConn
  <1>2. IInv /\ AllInTurn /\ [Next]_vars => AllInTurn'
    BY StepRecords, InTurnStep DEF AllInTurn, IInv
  <1>3. IInv /\ AllInTurn => RoundRobin
    <2> SUFFICES ASSUME IInv, AllInTurn, NEW i \in Slots, NEW r \in Reqs, NEW q \in Reqs
                 PROVE  served[i][r] - served[i][q] <= 1
      BY DEF RoundRobin
    <2>1. InTurn(i)
      BY DEF AllInTurn
    <2> QED
      BY <2>1 DEF InTurn
  <1> QED
    BY <1>1, <1>2, <1>3, InitOK, NextKeeps, PTL DEF Spec

-----------------------------------------------------------------------------
(* The refinement mapping *)

\* What the generator's clients have outstanding.
Out == [i \in Slots |-> IF Live(conn[i]) THEN conn[i].req_index ELSE NoReq]

NoReset == "reset" \notin faults

LEMMA OutTyped ==
  ASSUME TypeOK, NEW i \in Slots
  PROVE  /\ Live(conn[i]) => Out[i] = conn[i].req_index /\ Out[i] \in Reqs /\ Out[i] # NoReq
         /\ ~Live(conn[i]) => Out[i] = NoReq
  BY DEF Out, TypeOK, ConnType, Reqs, NoReq

\* One connection changes.
LEMMA OutSet ==
  ASSUME TypeOK, NEW i \in Slots, NEW d, conn' = [conn EXCEPT ![i] = d]
  PROVE  Out' = [Out EXCEPT ![i] = IF Live(d) THEN d.req_index ELSE NoReq]
  <1>1. conn'[i] = d /\ \A j \in Slots \ {i} : conn'[j] = conn[j]
    BY DEF TypeOK
  <1>2. Out' = [j \in Slots |-> IF Live(conn'[j]) THEN conn'[j].req_index ELSE NoReq]
    BY DEF Out, Live, LiveStates, NoReq
  <1> DEFINE r == IF Live(d) THEN d.req_index ELSE NoReq
  <1>3. (IF Live(conn'[i]) THEN conn'[i].req_index ELSE NoReq) = r
    BY <1>1
  <1> HIDE DEF r
  <1>4. \A j \in Slots \ {i} : (IF Live(conn'[j]) THEN conn'[j].req_index ELSE NoReq) = Out[j]
    BY <1>1 DEF Out
  <1>5. Out' = [j \in Slots |-> IF j = i THEN r ELSE Out[j]]
    BY <1>2, <1>3, <1>4
  <1>6. Out' = [Out EXCEPT ![i] = r]
    BY <1>5 DEF Out
  <1> QED
    BY <1>6 DEF r

\* None changes, nor anything that is counted.
LEMMA SameLoad ==
  ASSUME UNCHANGED <<conn, served, stats>>, phase' = "done" <=> phase = "done"
  PROVE  UNCHANGED Generator!vars
  <1>1. Out' = Out
    BY DEF Out, Live, LiveStates, NoReq
  <1> QED
    BY <1>1 DEF Generator!vars, Out

-----------------------------------------------------------------------------
(* The handlers *)

\* A reconnection leaves the request of its connection outstanding.
LEMMA ReconnectLoad ==
  ASSUME TypeOK, NoReset, NEW i \in Slots, NEW c \in ConnType, NEW st, Reconnect(i, c, st)
  PROVE  Out' = [Out EXCEPT ![i] = c.req_index] /\ stats' = st
  <1> DEFINE d == SetOutput(ConnResetOk(ResponseReset(c)), c.req_index)
  <1>1. conn' = [conn EXCEPT ![i] = d] /\ stats' = st
    BY DEF Reconnect, NoReset
  <1>2. d.state = "connecting" /\ d.req_index = c.req_index
    BY DEF SetOutput, ConnResetOk, ResponseReset, ConnType
  <1> HIDE DEF d
  <1> QED
    BY <1>1, <1>2, OutSet DEF Live, LiveStates

\* worker_conn_process answers the client's request, has it tried again, or
\* changes nothing the generator knows of.
LEMMA ProcessLoad ==
  ASSUME TypeOK, NoReset, ~stop, NEW i \in Slots, NEW c, NEW s, Given(i, c, s),
         c.req_index = conn[i].req_index, Process(i, c, s),
         phase # "done", phase' = phase
  PROVE  Generator!Answer(i) \/ Generator!Retry(i) \/ UNCHANGED Generator!vars
  <1>1. /\ Live(conn[i]) /\ c \in ConnType /\ c.req_index \in Reqs
        /\ Out[i] = c.req_index /\ Out[i] # NoReq /\ stats \in StatsType
        /\ Out = [Out EXCEPT ![i] = c.req_index]
    <2>1. Live(conn[i]) /\ c \in ConnType /\ c.req_index \in Reqs /\ stats \in StatsType
      BY DEF Given, NoReset, ConnType, TypeOK
    <2>2. Out[i] = c.req_index /\ Out[i] # NoReq
      BY <2>1, OutTyped
    <2>3. Out = [Out EXCEPT ![i] = Out[i]]
      BY DEF Out
    <2> QED
      BY <2>1, <2>2, <2>3
  <1>2. CASE ProcessDone(i, c, s)
    <2> DEFINE st == CountResponse(stats, StatusOf[s.wire])
               nx == NextRequest(c.req_index)
               next == [c EXCEPT !.req_index = nx]
    <2>1. served' = [served EXCEPT ![i][c.req_index] = @ + 1]
      BY <1>2 DEF ProcessDone
    <2>2. st.errors = stats.errors
      BY <1>1, CountResponseType
    <2>3. next \in ConnType /\ next.req_index = nx
      <3>1. nx \in Reqs
        BY <1>1, ModInReqs DEF NextRequest, Reqs
      <3> HIDE DEF nx
      <3> QED
        BY <1>1, <3>1 DEF ConnType
    <2>4. Out' = [Out EXCEPT ![i] = nx] /\ stats' = st
      <3>1. CASE Reconnect(i, next, st)
        <4> HIDE DEF next, st, nx
        <4> QED
          BY <2>3, <3>1, ReconnectLoad
      <3>2. CASE /\ conn' = [conn EXCEPT
                      ![i] = SetOutput(ConnReuse(ResponseReset(next)), next.req_index)]
                 /\ stats' = st
        <4> DEFINE d == SetOutput(ConnReuse(ResponseReset(next)), next.req_index)
        <4>1. d.state = "writing" /\ d.req_index = nx
          <5> HIDE DEF nx, next
          <5> QED
            BY <2>3 DEF SetOutput, ConnReuse, ResponseReset, ConnType
        <4>2. conn' = [conn EXCEPT ![i] = d]
          BY <3>2
        <4> HIDE DEF d, nx
        <4> QED
          BY <3>2, <4>1, <4>2, OutSet DEF Live, LiveStates
      <3> QED
        BY <1>2, <3>1, <3>2 DEF ProcessDone
    <2>5. Generator!Answer(i)
      <3>1. Out' = [Out EXCEPT ![i] = (Out[i] + 1) % RequestCount]
        BY <1>1, <2>4 DEF NextRequest
      <3>2. served' = [served EXCEPT ![i][Out[i]] = @ + 1]
        BY <1>1, <2>1
      <3>3. stats'.errors = stats.errors
        BY <2>2, <2>4
      <3> QED
        BY <1>1, <3>1, <3>2, <3>3 DEF Generator!Answer, Generator!None, NoReq, Out
    <2> QED
      BY <2>5
  <1>3. CASE ProcessError(i, c, s)
    <2> DEFINE st == CountError(stats)
    <2>1. Reconnect(i, c, st) /\ served' = served
      BY <1>3 DEF ProcessError
    <2>2. st.errors = stats.errors + 1
      BY <1>1, CountErrorType
    <2> HIDE DEF st
    <2>3. Out' = Out /\ stats'.errors = stats.errors + 1
      BY <1>1, <2>1, <2>2, ReconnectLoad
    <2> QED
      BY <1>1, <2>1, <2>3 DEF Generator!Retry, Generator!None, NoReq, Out
  <1>4. CASE ProcessProgress(i, c, s)
    <2>1. conn' = [conn EXCEPT ![i] = c] /\ UNCHANGED <<stats, served>>
      BY <1>4 DEF ProcessProgress
    <2>2. Live(c)
      BY <1>4 DEF ProcessProgress, Given, LiveOK
    <2>3. Out' = Out
      BY <1>1, <2>1, <2>2, OutSet
    <2> QED
      BY <2>1, <2>3 DEF Generator!vars, Out
  <1> QED
    BY <1>2, <1>3, <1>4 DEF Process

\* An event finds its connection live, and the I/O of its handlers leaves it on
\* its request.
LEMMA EventLoad ==
  ASSUME IInv, NoReset, NEW i \in Slots, OnError(i) \/ OnWrite(i) \/ OnRead(i)
  PROVE  Generator!Answer(i) \/ Generator!Retry(i) \/ UNCHANGED Generator!vars
  <1>1. TypeOK /\ phase = "dispatch" /\ phase' = phase /\ ~stop /\ batch[i] # {}
    BY DEF OnError, OnWrite, OnRead, IInv, LoopOK
  <1>2. /\ LiveOK(conn[i], sock[i]) /\ Live(conn[i]) /\ use_tls \in BOOLEAN
        /\ conn[i] \in ConnType /\ sock[i] \in SockType
    BY <1>1, Dispatched DEF NoReset, TypeOK
  <1>3. \E c, s : Given(i, c, s) /\ c.req_index = conn[i].req_index /\ Process(i, c, s)
    <2>1. CASE OnError(i)
      <3> DEFINE c == [conn[i] EXCEPT !.state = "error"]
      <3>1. c \in ConnType /\ c.state = "error" /\ c.req_index = conn[i].req_index
        BY <1>2 DEF ConnType, ConnStates
      <3>2. Process(i, c, sock[i])
        BY <2>1 DEF OnError
      <3> HIDE DEF c
      <3> QED
        BY <1>2, <3>1, <3>2 DEF Given
    <2>2. CASE OnWrite(i)
      <3>1. PICK w \in ConnWrite(conn[i], sock[i], use_tls) : Process(i, w.c, w.s)
        BY <2>2 DEF OnWrite
      <3>2. Given(i, w.c, w.s) /\ w.c.req_index = conn[i].req_index
        BY <1>2, <3>1, ConnWriteOutcome DEF Given
      <3> QED
        BY <3>1, <3>2
    <2>3. CASE OnRead(i)
      <3>1. PICK r \in ConnRead(conn[i], sock[i], use_tls) : Process(i, AfterRead(r), r.s)
        BY <2>3 DEF OnRead
      <3>2. Given(i, AfterRead(r), r.s) /\ AfterRead(r).req_index = conn[i].req_index
        BY <1>2, <3>1, ConnReadOutcome DEF Given
      <3> QED
        BY <3>1, <3>2
    <2> QED
      BY <2>1, <2>2, <2>3
  <1>4. phase # "done"
    BY <1>1
  <1> QED
    BY <1>1, <1>3, <1>4, ProcessLoad

-----------------------------------------------------------------------------
(* The refinement *)

\* Which system calls may fail does not change.
LEMMA FaultsStay == [Next]_vars => faults' = faults
  <1> SUFFICES ASSUME [Next]_vars PROVE faults' = faults
    OBVIOUS
  <1>1. CASE WorkerNext
    BY <1>1 DEF WorkerNext, CreateOk, CreateFails, Poll, PollFails, OnError, OnWrite,
                OnRead, Expire, Cleanup, config
  <1>2. CASE EnvironmentNext
    BY <1>2 DEF EnvironmentNext, Established, Refused, Reset, PeerCloses, Drains,
                Handshakes, Answers, DeadlinePasses, Wake, config
  <1>3. CASE Returned \/ UNCHANGED vars
    BY <1>3 DEF Returned, vars, config
  <1> QED
    BY <1>1, <1>2, <1>3 DEF Next

LEMMA InitLoads == Init => Generator!Init
  <1> SUFFICES ASSUME Init PROVE Generator!Init
    OBVIOUS
  <1>1. \A i \in Slots : ~Live(conn[i])
    BY DEF Init, NoConn, Live, LiveStates
  <1> QED
    BY <1>1 DEF Init, Generator!Init, Generator!Client, Generator!None, Slots, Reqs, NoReq

LEMMA CreateLoad ==
  ASSUME IInv, NEW i \in Slots,
         (\E s \in FreshSocks : CreateOk(i, s)) \/ CreateFails(i)
  PROVE  Generator!Start(i) \/ Generator!StartFails(i)
  <1>1. conn[i] = NoConn /\ ~Live(conn[i]) /\ phase = "create"
    BY DEF CreateOk, CreateFails, IInv, LoopOK, NoConn, Live, LiveStates, Slots
  <1>2. Out[i] = NoReq /\ TypeOK
    BY <1>1, OutTyped DEF IInv
  <1>3. phase' # "done"
    BY DEF CreateOk, CreateFails, NextPhaseAfterCreate, LoopTest
  <1>4. CASE \E s \in FreshSocks : CreateOk(i, s)
    <2> DEFINE req == i % RequestCount
               c == [SetOutput(NoConn, req) EXCEPT
                       !.state = "connecting", !.fd = TRUE, !.req_index = req]
    <2>1. conn' = [conn EXCEPT ![i] = c] /\ UNCHANGED <<stats, served>>
      BY <1>4 DEF CreateOk
    <2>2. c.req_index = req /\ c.state = "connecting"
      <3> HIDE DEF req
      <3> QED
        BY DEF SetOutput, NoConn
    <2> HIDE DEF c
    <2>3. Out' = [Out EXCEPT ![i] = req]
      BY <1>2, <2>1, <2>2, OutSet DEF Live, LiveStates
    <2> QED
      BY <1>1, <1>2, <1>3, <2>1, <2>3 DEF Generator!Start, Generator!None, NoReq, Out
  <1>5. CASE CreateFails(i)
    <2>1. UNCHANGED <<conn, served>> /\ stats'.errors = stats.errors + 1
      BY <1>2, <1>5 DEF CreateFails, TypeOK, StatsType
    <2>2. Out' = Out
      BY <2>1 DEF Out, Live, LiveStates, NoReq
    <2> QED
      BY <1>1, <1>2, <1>3, <2>1, <2>2 DEF Generator!StartFails, Generator!None, NoReq, Out
  <1> QED
    BY <1>4, <1>5

LEMMA CleanupLoad ==
  ASSUME TypeOK, Cleanup
  PROVE  Generator!Finish
  <1>1. /\ phase = "exit" /\ phase' = "done" /\ UNCHANGED <<served, stats>>
        /\ conn' = [i \in Slots |-> IF conn[i].state = "none" THEN conn[i]
                      ELSE [conn[i] EXCEPT !.state = "freed", !.fd = FALSE]]
    BY DEF Cleanup, history
  <1>2. \A i \in Slots : ~Live(conn'[i])
    <2> SUFFICES ASSUME NEW i \in Slots PROVE ~Live(conn'[i])
      OBVIOUS
    <2>1. CASE conn[i].state = "none"
      BY <1>1, <2>1 DEF Live, LiveStates
    <2>2. CASE conn[i].state # "none"
      <3>1. conn'[i] = [conn[i] EXCEPT !.state = "freed", !.fd = FALSE]
        BY <1>1, <2>2
      <3>2. conn'[i].state = "freed"
        BY <3>1 DEF TypeOK, ConnType
      <3> QED
        BY <3>2 DEF Live, LiveStates
    <2> QED
      BY <2>1, <2>2
  <1>3. Out' = [i \in Slots |-> IF Live(conn'[i]) THEN conn'[i].req_index ELSE NoReq]
    BY DEF Out, Live, LiveStates, NoReq
  <1>4. Out' = [i \in Slots |-> NoReq]
    BY <1>2, <1>3
  <1> QED
    BY <1>1, <1>4 DEF Generator!Finish, Generator!Client, Generator!None, Slots, NoReq, Out

\* The thread and its connections are a closed-loop generator of LoadGen: each
\* step is one of a client's, the end, or nothing the generator knows of.
THEOREM WorkerGeneratesLoad == Spec /\ NoReset => GeneratesLoad
  <1>1. IInv /\ NoReset /\ [Next]_vars => [Generator!Next]_(Generator!vars)
    <2> SUFFICES ASSUME IInv, NoReset, [Next]_vars
                 PROVE  Generator!Next \/ UNCHANGED Generator!vars
      OBVIOUS
    <2> USE DEF Generator!Next, Generator!Client, Slots
    <2>1. ASSUME NEW i \in Slots, NEW s \in FreshSocks, CreateOk(i, s)
          PROVE  Generator!Next
      BY <2>1, CreateLoad
    <2>2. ASSUME NEW i \in Slots, CreateFails(i)
          PROVE  Generator!Next
      BY <2>2, CreateLoad
    <2>3. ASSUME NEW i \in Slots, OnError(i) \/ OnWrite(i) \/ OnRead(i)
          PROVE  Generator!Next \/ UNCHANGED Generator!vars
      BY <2>3, EventLoad
    <2>4. CASE Cleanup
      BY <2>4, CleanupLoad DEF IInv
    <2>5. ASSUME NEW B \in SUBSET Slots, Poll(B)
          PROVE  UNCHANGED Generator!vars
      BY <2>5, SameLoad DEF Poll, history
    <2>6. CASE PollFails \/ Expire
      BY <2>6, SameLoad DEF PollFails, Expire, LoopTest, history
    <2>7. CASE EnvironmentNext
      <3>1. UNCHANGED <<phase, conn, served, stats>>
        BY <2>7 DEF EnvironmentNext, Established, Refused, Reset, PeerCloses, Drains,
                    Handshakes, Answers, DeadlinePasses, Wake, history
      <3> QED
        BY <3>1, SameLoad
    <2>8. CASE Returned \/ UNCHANGED vars
      BY <2>8, SameLoad DEF Returned, vars, history
    <2> QED
      BY <2>1, <2>2, <2>3, <2>4, <2>5, <2>6, <2>7, <2>8 DEF Next, WorkerNext
  <1>2. NoReset /\ [Next]_vars => NoReset'
    BY FaultsStay DEF NoReset
  <1> QED
    BY <1>1, <1>2, InitLoads, InitOK, NextKeeps, PTL
    DEF Spec, GeneratesLoad, Generator!Spec
=============================================================================
