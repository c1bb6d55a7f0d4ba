------------------------------- MODULE CWorker -------------------------------
(***************************************************************************)
(* A worker thread of the C path (worker_c_path, src/src/js_worker.c): it  *)
(* keeps conn_count connections, each with one request in flight, and      *)
(* drives them from one edge-triggered epoll instance until its duration   *)
(* timer fires.  The kernel (sockets, ready list, clock) and the HTTP      *)
(* server are the environment: their steps interleave with every step of   *)
(* the worker, between two handlers and between the write and the read     *)
(* handler of one event included.                                          *)
(*                                                                         *)
(* A handler is one action, from js_conn_read or js_conn_write to the last *)
(* epoll_ctl of worker_conn_process: between its system calls the kernel   *)
(* can only add readiness, which the next epoll_ctl or wake-up reports.    *)
(***************************************************************************)
EXTENDS Epoll

CONSTANTS
  ConnCount,   \* w->conn_count
  StatusOf,    \* the status class each request is answered with
  TlsModes,    \* the values of cfg->use_tls to consider
  FaultSets,   \* the sets of system calls that may fail at once
  Timed,       \* cfg->duration_sec > 0
  MaxOps       \* bound: the network falls silent after MaxOps settled requests

Slots   == 0 .. ConnCount - 1
NoSlot  == -1
Classes == {"2xx", "3xx", "4xx", "5xx"}
Faults  == {"create", "reset", "poll"}

ASSUME ConnCountAssumption == ConnCount \in Nat \ {0}
ASSUME MaxOpsAssumption    == MaxOps \in Nat
ASSUME StatusAssumption    == StatusOf \in [Reqs -> Classes \cup {"other"}]
ASSUME ModesAssumption     ==
  /\ TlsModes \subseteq BOOLEAN
  /\ FaultSets \subseteq SUBSET Faults
  /\ Timed \in BOOLEAN

VARIABLES
  phase,      \* where worker_c_path is
  created,    \* the connections tried so far by the creation loop
  active,     \* the local variable `active`
  conn,       \* conns[i]
  stats,      \* w->stats
  stop,       \* w->stop
  sock,       \* external: the socket of each connection
  batch,      \* events[] of js_epoll_poll, what is left of it
  cur,        \* the event between its write and its read handler
  deadline,   \* external: the clock has passed the duration timer
  use_tls,    \* cfg->use_tls
  faults,     \* external: the system calls that may fail in this run
  attempts,   \* history: the requests started, a failed (re)connect included
  served      \* history: the responses recorded per connection and request

config     == <<use_tls, faults>>
history    == <<attempts, served>>
kernel     == <<sock, interest, ready>>
dispatcher == <<batch, cur>>
vars == <<phase, created, active, conn, stats, stop, kernel, dispatcher,
          deadline, config, history>>

StatsType ==
  [requests : Nat, errors : Nat, connect_errors : Nat, status : [Classes -> Nat]]

TypeOK ==
  /\ phase \in {"create", "poll", "dispatch", "exit", "done"}
  /\ created \in 0 .. ConnCount
  /\ active \in 0 .. ConnCount
  /\ conn \in [Slots -> ConnType]
  /\ stats \in StatsType
  /\ stop \in BOOLEAN
  /\ sock \in [Slots -> SockType]
  /\ interest \in [Slots -> SUBSET {"in", "out"}]
  /\ ready \in [Slots -> BOOLEAN]
  /\ batch \in [Slots -> SUBSET {"in", "out", "err"}]
  /\ cur \in Slots \cup {NoSlot}
  /\ deadline \in BOOLEAN
  /\ use_tls \in BOOLEAN
  /\ faults \in SUBSET Faults
  /\ attempts \in Nat
  /\ served \in [Slots -> [Reqs -> Nat]]

Init ==
  /\ phase = "create"
  /\ created = 0
  /\ active = 0
  /\ conn = [i \in Slots |-> NoConn]
  /\ stats = [requests |-> 0, errors |-> 0, connect_errors |-> 0,
              status |-> [k \in Classes |-> 0]]
  /\ stop = FALSE
  /\ sock = [i \in Slots |-> ClosedSock]
  /\ interest = [i \in Slots |-> {}]
  /\ ready = [i \in Slots |-> FALSE]
  /\ batch = [i \in Slots |-> {}]
  /\ cur = NoSlot
  /\ deadline = FALSE
  /\ use_tls \in TlsModes
  /\ faults \in FaultSets
  /\ attempts = 0
  /\ served = [i \in Slots |-> [r \in Reqs |-> 0]]

-----------------------------------------------------------------------------
(* The loop of worker_c_path *)

\* Mutant: the loop does not look at the stop flag.
LoopTestEndless(stopped, n) == IF n > 0 THEN "poll" ELSE "exit"

\* The guard of `while (!stop && active > 0)`.
LoopTest(stopped, n) == IF ~stopped /\ n > 0 THEN "poll" ELSE "exit"

-----------------------------------------------------------------------------
(* The creation loop of worker_c_path *)

NextPhaseAfterCreate(n) ==
  IF created + 1 = ConnCount THEN LoopTest(stop, n) ELSE "create"

CreateOk(i, s) ==
  /\ phase = "create"
  /\ i = created
  /\ LET c == [SetOutput(NoConn, i % RequestCount) EXCEPT
                 !.state = "connecting", !.fd = TRUE,
                 !.req_index = i % RequestCount]
     IN  conn' = [conn EXCEPT ![i] = c]
  /\ sock' = [sock EXCEPT ![i] = s]
  /\ EpollAdd(i, InOut, s)
  /\ created' = created + 1
  /\ active' = active + 1
  /\ attempts' = attempts + 1
  /\ phase' = NextPhaseAfterCreate(active + 1)
  /\ UNCHANGED <<stats, stop, dispatcher, deadline, config, served>>

CreateFails(i) ==
  /\ phase = "create"
  /\ i = created
  /\ "create" \in faults
  /\ stats' = [stats EXCEPT !.connect_errors = @ + 1, !.errors = @ + 1]
  /\ created' = created + 1
  /\ attempts' = attempts + 1
  /\ phase' = NextPhaseAfterCreate(active)
  /\ UNCHANGED <<active, conn, stop, kernel, dispatcher, deadline, config, served>>

-----------------------------------------------------------------------------
(* worker_conn_process: c and s are the connection and the socket as the    *)
(* handler's I/O left them, st the statistics so far.                       *)

CountError(st) == [st EXCEPT !.errors = @ + 1, !.connect_errors = @ + 1]

CountResponse(st, class) ==
  [st EXCEPT !.requests = @ + 1,
             !.status = [k \in Classes |-> IF k = class THEN st.status[k] + 1
                                           ELSE st.status[k]]]

\* Mutant: a reconnection that fails at once is not counted.
ReconnectUncounted(i, c, st) ==
  /\ attempts' = attempts + 1
  /\ stats' = st
  /\ \/ \E s \in FreshSocks :
          /\ conn' = [conn EXCEPT
                ![i] = SetOutput(ConnResetOk(ResponseReset(c)), c.req_index)]
          /\ sock' = [sock EXCEPT ![i] = s]
          /\ EpollAdd(i, InOut, s)
     \/ /\ "reset" \in faults
        /\ conn' = [conn EXCEPT ![i] = ConnResetFailed(ResponseReset(c))]
        /\ sock' = [sock EXCEPT ![i] = ClosedSock]
        /\ EpollDel(i)

\* epoll_del, js_http_response_reset, js_conn_reset and, if that succeeds,
\* the request's output and epoll_add; if not, the connection is left as it
\* is and counted.
Reconnect(i, c, st) ==
  /\ attempts' = attempts + 1
  /\ \/ \E s \in FreshSocks :
          /\ conn' = [conn EXCEPT
                ![i] = SetOutput(ConnResetOk(ResponseReset(c)), c.req_index)]
          /\ sock' = [sock EXCEPT ![i] = s]
          /\ EpollAdd(i, InOut, s)
          /\ stats' = st
     \/ /\ "reset" \in faults
        /\ conn' = [conn EXCEPT ![i] = ConnResetFailed(ResponseReset(c))]
        /\ sock' = [sock EXCEPT ![i] = ClosedSock]
        /\ EpollDel(i)
        /\ stats' = CountError(st)

\* Mutant: the index of the next request does not wrap around.
NextRequestUnwrapped(r) == r + 1

NextRequest(r) == (r + 1) % RequestCount

\* The response is recorded; the same connection goes on with the next
\* request when the server keeps it alive, another one when not.
ProcessDone(i, c, s) ==
  LET st == CountResponse(stats, StatusOf[s.wire])
      next == [c EXCEPT !.req_index = NextRequest(c.req_index)]
  IN
  /\ c.state = "done"
  /\ served' = [served EXCEPT ![i][c.req_index] = @ + 1]
  /\ \/ /\ stop
        /\ conn' = [conn EXCEPT ![i] = c]
        /\ sock' = [sock EXCEPT ![i] = s]
        /\ stats' = st
        /\ UNCHANGED <<interest, ready, attempts>>
     \/ /\ ~stop          \* keep-alive
        /\ conn' = [conn EXCEPT
              ![i] = SetOutput(ConnReuse(ResponseReset(next)), next.req_index)]
        /\ sock' = [sock EXCEPT ![i] = s]
        /\ stats' = st
        /\ EpollMod(i, InOut, s)
        /\ attempts' = attempts + 1
     \/ /\ ~stop          \* Connection: close
        /\ Reconnect(i, next, st)

\* Mutant: an error moves on to the next request.
ProcessErrorSkips(i, c, s) ==
  LET next == [c EXCEPT !.req_index = NextRequest(c.req_index)]
  IN  /\ c.state = "error"
      /\ ~stop
      /\ UNCHANGED served
      /\ Reconnect(i, next, CountError(stats))

\* The same request is tried again on another connection.
ProcessError(i, c, s) ==
  LET st == CountError(stats)
  IN
  /\ c.state = "error"
  /\ UNCHANGED served
  /\ \/ /\ stop
        /\ conn' = [conn EXCEPT ![i] = c]
        /\ sock' = [sock EXCEPT ![i] = s]
        /\ stats' = st
        /\ UNCHANGED <<interest, ready, attempts>>
     \/ /\ ~stop
        /\ Reconnect(i, c, st)

ProcessProgress(i, c, s) ==
  /\ c.state \notin {"done", "error"}
  /\ conn' = [conn EXCEPT ![i] = c]
  /\ sock' = [sock EXCEPT ![i] = s]
  /\ EpollMod(i, InterestOf(c.state), s)
  /\ UNCHANGED <<stats, attempts, served>>

Process(i, c, s) ==
  \/ ProcessDone(i, c, s)
  \/ ProcessError(i, c, s)
  \/ ProcessProgress(i, c, s)

-----------------------------------------------------------------------------
(* The event loop *)

\* epoll_wait takes entries off the ready list and looks at their sockets; it
\* returns none at its timeout (at most 100 ms) or when interrupted.  Entries
\* beyond the size of the array stay on the list.
Poll(B) ==
  LET R == {i \in Slots : ready[i]}
  IN
  /\ phase = "poll"
  /\ B \subseteq R
  /\ Cardinality(B) = PollCount(R)
  /\ batch' = [i \in Slots |-> IF i \in B THEN Deliverable(interest[i], sock[i])
                               ELSE {}]
  /\ ready' = [i \in Slots |-> ready[i] /\ i \notin B]
  /\ phase' = "dispatch"
  /\ UNCHANGED <<created, active, conn, stats, stop, sock, interest, cur,
                 deadline, config, history>>

\* js_epoll_poll returns -1: the loop breaks.
PollFails ==
  /\ phase = "poll"
  /\ "poll" \in faults
  /\ phase' = "exit"
  /\ UNCHANGED <<created, active, conn, stats, stop, kernel, dispatcher,
                 deadline, config, history>>

OnError(i) ==
  /\ phase = "dispatch"
  /\ cur = NoSlot
  /\ "err" \in batch[i]
  /\ Process(i, [conn[i] EXCEPT !.state = "error"], sock[i])
  /\ batch' = [batch EXCEPT ![i] = {}]
  /\ UNCHANGED <<phase, created, active, stop, cur, deadline, config>>

OnWrite(i) ==
  /\ phase = "dispatch"
  /\ cur = NoSlot
  /\ "err" \notin batch[i]
  /\ "out" \in batch[i]
  /\ \E w \in ConnWrite(conn[i], sock[i], use_tls) : Process(i, w.c, w.s)
  /\ batch' = [batch EXCEPT ![i] = @ \ {"out"}]
  /\ cur' = IF "in" \in batch[i] THEN i ELSE NoSlot
  /\ UNCHANGED <<phase, created, active, stop, deadline, config>>

OnRead(i) ==
  /\ phase = "dispatch"
  /\ cur \in {i, NoSlot}
  /\ batch[i] = {"in"}
  /\ \E r \in ConnRead(conn[i], sock[i], use_tls) : Process(i, AfterRead(r), r.s)
  /\ batch' = [batch EXCEPT ![i] = {}]
  /\ cur' = NoSlot
  /\ UNCHANGED <<phase, created, active, stop, deadline, config>>

\* The batch is done: the clock is read and the expired timer fires
\* (worker_duration_handler), then the loop's condition is tested.
Expire ==
  /\ phase = "dispatch"
  /\ \A i \in Slots : batch[i] = {}
  /\ stop' = (stop \/ (Timed /\ deadline))
  /\ phase' = LoopTest(stop', active)
  /\ UNCHANGED <<created, active, conn, stats, kernel, dispatcher, deadline,
                 config, history>>

\* js_conn_free of every connection that was created; the sockets close.
Cleanup ==
  /\ phase = "exit"
  /\ phase' = "done"
  /\ conn' = [i \in Slots |-> IF conn[i].state = "none" THEN conn[i]
                ELSE [conn[i] EXCEPT !.state = "freed", !.fd = FALSE]]
  /\ sock' = [i \in Slots |-> ClosedSock]
  /\ interest' = [i \in Slots |-> {}]
  /\ ready' = [i \in Slots |-> FALSE]
  /\ UNCHANGED <<created, active, stats, stop, dispatcher, deadline, config,
                 history>>

\* The thread has returned.
Returned == phase = "done" /\ UNCHANGED vars

-----------------------------------------------------------------------------
(* The environment *)

\* Bound: what settles a request happens at most MaxOps times.
Within == stats.requests + stats.errors < MaxOps

\* The socket of i changes to s; the kernel queues its entry if that is news.
Wake(i, s) ==
  /\ sock' = [sock EXCEPT ![i] = s]
  /\ ready' = [ready EXCEPT ![i] = ready[i] \/ Deliverable(interest[i], s) # {}]
  /\ UNCHANGED <<phase, created, active, conn, stats, stop, interest,
                 dispatcher, deadline, config, history>>

Established(i) ==
  /\ sock[i].st = "syn"
  /\ Wake(i, [sock[i] EXCEPT !.st = "est"])

Refused(i) ==
  /\ Within
  /\ sock[i].st = "syn"
  /\ Wake(i, [sock[i] EXCEPT !.st = "fail"])

Reset(i) ==
  /\ Within
  /\ sock[i].st = "est"
  /\ Wake(i, [sock[i] EXCEPT !.st = "rst"])

PeerCloses(i) ==
  /\ Within
  /\ sock[i].st = "est" /\ ~sock[i].fin
  /\ Wake(i, [sock[i] EXCEPT !.fin = TRUE])

Drains(i) ==
  /\ sock[i].st = "est" /\ sock[i].full
  /\ Wake(i, [sock[i] EXCEPT !.full = FALSE])

Handshakes(i, t) ==
  /\ sock[i].st = "est" /\ ~sock[i].fin /\ sock[i].tls = "hello"
  /\ t = "bad" => Within
  /\ Wake(i, [sock[i] EXCEPT !.tls = t])

Later(p, q) ==
  \/ p = "none"
  \/ p = "head" /\ q # "head"
  \/ p = "body" /\ q \in {"end", "bad"}

\* The server answers what it has of the request, which may not be all of it.
Answers(i, p) ==
  /\ sock[i].st = "est" /\ ~sock[i].fin
  /\ sock[i].wire # NoReq
  /\ Later(sock[i].sent, p)
  /\ p \in {"end", "bad"} => Within
  /\ Wake(i, [sock[i] EXCEPT !.rx = p, !.sent = p])

DeadlinePasses ==
  /\ ~deadline
  /\ deadline' = TRUE
  /\ UNCHANGED <<phase, created, active, conn, stats, stop, kernel, dispatcher,
                 config, history>>

-----------------------------------------------------------------------------
(* The specification *)

WorkerNext ==
  \/ \E i \in Slots : \E s \in FreshSocks : CreateOk(i, s)
  \/ \E i \in Slots : CreateFails(i)
  \/ \E B \in SUBSET Slots : Poll(B)
  \/ PollFails
  \/ \E i \in Slots : OnError(i)
  \/ \E i \in Slots : OnWrite(i)
  \/ \E i \in Slots : OnRead(i)
  \/ Expire
  \/ Cleanup

EnvironmentNext ==
  \/ \E i \in Slots : Established(i)
  \/ \E i \in Slots : Refused(i)
  \/ \E i \in Slots : Reset(i)
  \/ \E i \in Slots : PeerCloses(i)
  \/ \E i \in Slots : Drains(i)
  \/ \E i \in Slots : \E t \in {"flight", "bad"} : Handshakes(i, t)
  \/ \E i \in Slots : \E p \in Pieces : Answers(i, p)
  \/ DeadlinePasses

Next == WorkerNext \/ EnvironmentNext \/ Returned

Spec == Init /\ [][Next]_vars

\* The ready list is served in turn: an entry on it again and again is
\* reported.
PollReports(i) == \E B \in SUBSET Slots : i \in B /\ Poll(B)

\* The thread runs, the ready list is fair and the peer goes on reading what
\* is sent to it.  Nothing is assumed of the clock or of the server's answers.
FairSpec ==
  /\ Spec
  /\ WF_vars(WorkerNext)
  /\ \A i \in Slots : SF_vars(PollReports(i))
  /\ \A i \in Slots : WF_vars(Drains(i))
-----------------------------------------------------------------------------
(* Properties *)

InFlight == {i \in Slots : Live(conn[i])}
Settled  == stats.requests + stats.errors + Cardinality(InFlight)

\* Every request that was started is in flight on one connection, or was
\* counted exactly once, as a response or as an error: none is lost over
\* reconnections, and none counted twice (worker_conn_process).  When a
\* reconnection can fail at once, the read handler of the same event meets the
\* dead connection and counts it again, so only the first half holds.
Accounting ==
  phase # "done" =>
    /\ attempts <= Settled
    /\ "reset" \notin faults => attempts = Settled

\* No edge of the edge-triggered epoll is lost: a connection that could go on
\* is on the ready list or in the batch being dispatched, whatever arrived
\* between epoll_wait and its handlers (js_epoll_mod at the end of
\* worker_conn_process).
NoLostWakeup ==
  \A i \in Slots : CanProgress(conn[i], sock[i]) => ready[i] \/ batch[i] # {}

\* A response is recorded for the request whose bytes the server answered:
\* what the output buffer held, the request index and the socket agree over
\* keep-alive, reconnection and retry.
AnswersOwnRequest ==
  [][\A i \in Slots, r \in Reqs :
       served'[i][r] # served[i][r] => sock[i].wire = r]_vars

\* Round robin in array mode: each connection goes through the requests in
\* turn, so the responses recorded for two of them differ by at most one; an
\* error does not skip a request (js_worker.c next_idx).
RoundRobin ==
  \A i \in Slots : \A r, q \in Reqs : served[i][r] - served[i][q] <= 1

\* README.md gives `connections` as the number of concurrent connections.
FullConcurrency == phase = "poll" => \A i \in Slots : Live(conn[i])

\* When the duration is over the worker returns, whatever its connections do.
Terminates == (Timed /\ deadline) ~> phase = "done"

\* A response that has arrived in full is read, or its connection has failed,
\* or the loop has ended: it is never left in the socket.
ResponseIsRead ==
  \A i \in Slots : (sock[i].rx = "end") ~> (sock[i].rx # "end")

\* The worker is the closed-loop generator of LoadGen: a live connection is a
\* client with its request outstanding.
Generator == INSTANCE LoadGen WITH
  Clients     <- ConnCount,
  Requests    <- RequestCount,
  outstanding <- [i \in Slots |-> IF Live(conn[i]) THEN conn[i].req_index ELSE NoReq],
  answered    <- served,
  failed      <- stats.errors,
  open        <- phase # "done"

GeneratesLoad == Generator!Spec
=============================================================================
