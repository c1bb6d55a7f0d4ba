------------------------------ MODULE FetchLoop ------------------------------
(***************************************************************************)
(* A worker thread of the JS path (worker_js_path, src/src/js_worker.c):   *)
(* it evaluates the script, then calls its function again and again, each  *)
(* time driving the event loop (js_loop_run, src/src/js_loop.c) until      *)
(* every fetch() (src/src/js_fetch.c) the script began has settled.        *)
(*                                                                         *)
(* A fetch owns a connection, a timer and a promise, and it is freed by    *)
(* whichever of its handlers settles it.  The script is the environment:   *)
(* it is what runs between two results, calls fetch() any number of times, *)
(* and ends well, with a rejected promise or with an exception.  A fetch() *)
(* that fails before it registers anything is an exception of the script.  *)
(***************************************************************************)
EXTENDS Epoll

CONSTANTS
  Fetches,        \* the js_fetch_t that can exist at a time
  TlsModes,       \* whether the URLs are https, the values to consider
  FaultSets,      \* the sets of failures to consider
  CallRejects,    \* whether the function may reject before its first await
  OtherThreads,   \* whether other worker threads run
  LateHandlers,   \* bound: the promises handled after they were rejected
  Parts,          \* bound: the parts of a response that may arrive
  MaxFetches,     \* bound: the number of fetch() calls
  MaxIterations   \* bound: the number of calls of the function

NoFetch == "no fetch"
Faults  == {"poll", "job", "call"}

ASSUME FetchesAssumption ==
  IsFiniteSet(Fetches) /\ NoFetch \notin Fetches
ASSUME BoundsAssumption ==
  /\ TlsModes \subseteq BOOLEAN /\ FaultSets \subseteq SUBSET Faults
  /\ Parts \subseteq Pieces
  /\ CallRejects \in BOOLEAN /\ OtherThreads \in BOOLEAN
  /\ LateHandlers \in Nat /\ MaxFetches \in Nat /\ MaxIterations \in Nat

VARIABLES
  phase,      \* where the thread is
  run,        \* what js_loop_run runs for: the "module" or an "iteration"
  pending,    \* loop->pending
  conn,       \* f->conn
  timer,      \* f->timer: "off", "armed" or, its key in the past, "passed"
  promise,    \* the promise of the fetch: "none", or pending and "awaited" by
              \* the script or "loose"
  jobs,       \* external: the script's jobs QuickJS has queued
  flag,       \* js_had_unhandled_rejection
  stats,      \* w->stats: requests, errors, status_2xx
  sock,       \* external: the sockets
  batch,      \* events[] of js_epoll_poll, what is left of it
  cur,        \* the event between its write and its read handler
  expiring,   \* the timers js_timer_expire has still to fire
  deadline,   \* external: the clock has passed deadline_ns
  use_tls,    \* url.is_tls
  faults,     \* external: what may fail in this run
  calls,      \* history: the calls of fetch()
  late,       \* history: the promises handled after they were rejected
  noted,      \* history: since the function was called a promise was rejected
              \* that nothing handled by then, or a job failed
  rejected    \* history: of those promises, how many nothing handles still

config     == <<use_tls, faults>>
kernel     == <<sock, interest, ready>>
dispatcher == <<batch, cur, expiring>>
fetches    == <<pending, conn, timer, promise, kernel>>
verdict    == <<flag, noted, rejected>>
history    == <<calls, late>>
vars == <<phase, run, fetches, jobs, verdict, stats, dispatcher, deadline,
          config, history>>

TypeOK ==
  /\ phase \in {"top", "call", "jobs", "job", "poll", "dispatch", "expire",
                "free", "done", "crashed"}
  /\ run \in {"module", "iteration"}
  /\ pending \subseteq Fetches /\ expiring \subseteq Fetches
  /\ conn \in [Fetches -> ConnType] /\ sock \in [Fetches -> SockType]
  /\ timer \in [Fetches -> {"off", "armed", "passed"}]
  /\ promise \in [Fetches -> {"none", "awaited", "loose"}]
  /\ jobs \in Nat /\ calls \in 0 .. MaxFetches /\ late \in 0 .. LateHandlers
  /\ flag \in BOOLEAN /\ noted \in BOOLEAN /\ rejected \in Nat
  /\ deadline \in BOOLEAN
  /\ stats \in [requests : Nat, errors : Nat, ok : Nat]
  /\ interest \in [Fetches -> SUBSET InOut] /\ ready \in [Fetches -> BOOLEAN]
  /\ batch \in [Fetches -> SUBSET {"in", "out", "err"}]
  /\ cur \in Fetches \cup {NoFetch}
  /\ use_tls \in BOOLEAN /\ faults \subseteq Faults

\* The loop and the VM are there and the script is being evaluated.
Init ==
  /\ phase = "call"
  /\ run = "module"
  /\ pending = {}
  /\ conn = [f \in Fetches |-> NoConn]
  /\ timer = [f \in Fetches |-> "off"]
  /\ promise = [f \in Fetches |-> "none"]
  /\ jobs = 0
  /\ flag = FALSE
  /\ stats = [requests |-> 0, errors |-> 0, ok |-> 0]
  /\ sock = [f \in Fetches |-> ClosedSock]
  /\ interest = [f \in Fetches |-> {}]
  /\ ready = [f \in Fetches |-> FALSE]
  /\ batch = [f \in Fetches |-> {}]
  /\ cur = NoFetch
  /\ expiring = {}
  /\ deadline = FALSE
  /\ use_tls \in TlsModes
  /\ faults \in FaultSets
  /\ calls = 0 /\ late = 0
  /\ noted = FALSE /\ rejected = 0

-----------------------------------------------------------------------------
(* The fetch *)

Free(f) == conn[f].state \in {"none", "freed"}

\* It gets a timer of 30 s, an epoll entry, a place in the loop's list and a
\* promise.
Register(f, s) ==
  /\ timer' = [timer EXCEPT ![f] = "armed"]
  /\ EpollAdd(f, InOut, s)
  /\ pending' = pending \cup {f}
  /\ promise' = [promise EXCEPT ![f] = "loose"]

\* js_fetch, when none of its early returns is taken.
CallFetch(f, s) ==
  /\ phase \in {"call", "job"}
  /\ calls < MaxFetches
  /\ Free(f)
  /\ conn' = [conn EXCEPT
        ![f] = [SetOutput(NoConn, 0) EXCEPT !.state = "connecting", !.fd = TRUE]]
  /\ sock' = [sock EXCEPT ![f] = s]
  /\ Register(f, s)
  /\ calls' = calls + 1
  /\ UNCHANGED <<phase, run, jobs, verdict, stats, dispatcher, deadline, config,
                 late>>

\* The script awaits the promise of a fetch, at once or at a later time.
Await(f) ==
  /\ phase \in {"call", "job"}
  /\ promise[f] = "loose"
  /\ promise' = [promise EXCEPT ![f] = "awaited"]
  /\ UNCHANGED <<phase, run, pending, conn, timer, kernel, jobs, verdict, stats,
                 dispatcher, deadline, config, history>>

\* Mutant: the timer stays in the tree.
DestroyKeepsTimer(f) ==
  /\ EpollDel(f)
  /\ UNCHANGED timer
  /\ conn' = [conn EXCEPT ![f].state = "freed", ![f].fd = FALSE]
  /\ sock' = [sock EXCEPT ![f] = ClosedSock]
  /\ pending' = pending \ {f}

\* js_fetch_destroy
Destroy(f) ==
  /\ EpollDel(f)
  /\ timer' = [timer EXCEPT ![f] = "off"]
  /\ conn' = [conn EXCEPT ![f].state = "freed", ![f].fd = FALSE]
  /\ sock' = [sock EXCEPT ![f] = ClosedSock]
  /\ pending' = pending \ {f}

\* Mutant: the tracker leaves out what it should note.
UnhandledUnseen == flag' = flag /\ noted' = TRUE /\ rejected' = rejected + 1

\* js_promise_rejection_tracker, of a promise rejected while nothing handles it.
Unhandled == flag' = TRUE /\ noted' = TRUE /\ rejected' = rejected + 1

\* The script's reaction to the promise, if it has one, is queued.
Settle(f) ==
  /\ promise' = [promise EXCEPT ![f] = "none"]
  /\ jobs' = jobs + (IF promise[f] = "awaited" THEN 1 ELSE 0)

\* js_fetch_complete
Complete(f) == Settle(f) /\ Destroy(f) /\ UNCHANGED verdict

\* js_fetch_fail
Fail(f) ==
  /\ Settle(f)
  /\ Destroy(f)
  /\ IF promise[f] = "loose" THEN Unhandled ELSE UNCHANGED verdict

\* js_fetch_process: c and s are the connection and the socket as the
\* handler's I/O left them.
Process(f, c, s) ==
  \/ c.state = "done" /\ Complete(f)
  \/ c.state = "error" /\ Fail(f)
  \/ /\ c.state \notin {"done", "error"}
     /\ conn' = [conn EXCEPT ![f] = c]
     /\ sock' = [sock EXCEPT ![f] = s]
     /\ EpollMod(f, InterestOf(c.state), s)
     /\ UNCHANGED <<pending, timer, promise, jobs, verdict>>

-----------------------------------------------------------------------------
(* js_loop_run: the jobs, then the events, then the timers *)

\* The jobs are done: over, or events are awaited.
LoopTest(p) == IF p = {} THEN "return" ELSE "poll"

\* js_vm_eval_module does not look at the result; the worker goes home if the
\* module exports no function.
ModuleEvaluated ==
  /\ run = "module"
  /\ run' = "iteration"
  /\ phase' \in {"top", "free"}
  /\ UNCHANGED stats

\* For the worker it is the verdict on the call.
IterationDone(rc) ==
  /\ run = "iteration"
  /\ phase' = "top"
  /\ stats' = [stats EXCEPT !.requests = @ + 1,
                            !.errors = IF rc # 0 THEN @ + 1 ELSE @,
                            !.ok = IF rc = 0 THEN @ + 1 ELSE @]
  /\ UNCHANGED run

\* js_loop_run returns.
LoopReturns(rc) == ModuleEvaluated \/ IterationDone(rc)

FlagResult == IF flag THEN 1 ELSE 0

\* Mutant: the queue is never found empty.
HasJobAlways == jobs >= 0

HasJob == jobs > 0

RunJob ==
  /\ phase = "jobs" /\ HasJob
  /\ jobs' = jobs - 1
  /\ phase' = "job"
  /\ UNCHANGED <<run, fetches, verdict, stats, dispatcher, deadline, config,
                 history>>

\* The jobs are drained.
JobsDone ==
  /\ phase = "jobs" /\ jobs = 0
  /\ \/ /\ LoopTest(pending) = "poll"
        /\ phase' = "poll"
        /\ UNCHANGED <<run, stats>>
     \/ /\ LoopTest(pending) = "return"
        /\ LoopReturns(FlagResult)
  /\ UNCHANGED <<fetches, jobs, verdict, dispatcher, deadline, config, history>>

\* Mutant: what did not fit into the array is lost.
StillReadyNone(B) == [f \in Fetches |-> FALSE]

StillReady(B) == [f \in Fetches |-> ready[f] /\ f \notin B]

\* epoll_wait takes entries off the ready list and looks at their sockets; it
\* returns none when none is there before the next timer is due or a signal
\* interrupts it.  Entries beyond the size of the array stay on the list.
Poll(B) ==
  LET R == {f \in Fetches : ready[f]}
  IN
  /\ phase = "poll"
  /\ B \subseteq R
  /\ Cardinality(B) = PollCount(R)
  /\ batch' = [f \in Fetches |-> IF f \in B THEN Deliverable(interest[f], sock[f])
                                 ELSE {}]
  /\ ready' = StillReady(B)
  /\ phase' = "dispatch"
  /\ UNCHANGED <<run, pending, conn, timer, promise, sock, interest, jobs,
                 verdict, stats, cur, expiring, deadline, config, history>>

\* js_epoll_poll returns -1: the loop breaks.
PollFails ==
  /\ phase = "poll" /\ "poll" \in faults
  /\ LoopReturns(FlagResult)
  /\ UNCHANGED <<fetches, jobs, verdict, dispatcher, deadline, config, history>>

OnError(f) ==
  /\ phase = "dispatch" /\ cur = NoFetch
  /\ "err" \in batch[f]
  /\ Process(f, [conn[f] EXCEPT !.state = "error"], sock[f])
  /\ batch' = [batch EXCEPT ![f] = {}]
  /\ UNCHANGED <<phase, run, stats, cur, expiring, deadline, config, history>>

OnWrite(f) ==
  /\ phase = "dispatch" /\ cur = NoFetch
  /\ "err" \notin batch[f] /\ "out" \in batch[f]
  /\ \E w \in ConnWrite(conn[f], sock[f], use_tls) : Process(f, w.c, w.s)
  /\ batch' = [batch EXCEPT ![f] = @ \ {"out"}]
  /\ cur' = IF "in" \in batch[f] THEN f ELSE NoFetch
  /\ UNCHANGED <<phase, run, stats, expiring, deadline, config, history>>

OnRead(f) ==
  /\ phase = "dispatch" /\ cur \in {f, NoFetch}
  /\ batch[f] = {"in"} /\ ~Free(f)
  /\ \E r \in ConnRead(conn[f], sock[f], use_tls) : Process(f, AfterRead(r), r.s)
  /\ batch' = [batch EXCEPT ![f] = {}]
  /\ cur' = NoFetch
  /\ UNCHANGED <<phase, run, stats, expiring, deadline, config, history>>

\* js_epoll_poll goes on to the read handler of an event whose write handler
\* has freed it: undefined, the thread crashes or gets by.
OnReadFreed(f) ==
  /\ phase = "dispatch" /\ cur \in {f, NoFetch}
  /\ batch[f] = {"in"} /\ Free(f)
  /\ phase' \in {"dispatch", "crashed"}
  /\ batch' = [batch EXCEPT ![f] = {}]
  /\ cur' = NoFetch
  /\ UNCHANGED <<run, fetches, jobs, verdict, stats, expiring, deadline, config,
                 history>>

\* Mutant: the timers are looked at before the events are dispatched.
BatchDoneEarly == cur = NoFetch

BatchDone == \A f \in Fetches : batch[f] = {}

\* Mutant: no timer is ever due.
DueNever(f) == FALSE

Due(f) == timer[f] = "passed"

\* The clock is read, for js_timer_expire to fire what is due by then.
Expire ==
  /\ phase = "dispatch" /\ BatchDone
  /\ expiring' = {f \in Fetches : Due(f)}
  /\ phase' = "expire"
  /\ UNCHANGED <<run, fetches, jobs, verdict, stats, batch, cur, deadline,
                 config,
                 history>>

\* js_fetch_timeout_handler
TimesOut(f) ==
  /\ phase = "expire" /\ f \in expiring
  /\ expiring' = expiring \ {f}
  /\ Fail(f)
  /\ UNCHANGED <<phase, run, stats, batch, cur, deadline, config, history>>

Expired ==
  /\ phase = "expire" /\ expiring = {}
  /\ phase' = "jobs"
  /\ UNCHANGED <<run, fetches, jobs, verdict, stats, dispatcher, deadline,
                 config,
                 history>>

-----------------------------------------------------------------------------
(* worker_js_path *)

CallFunction ==
  /\ phase = "top" /\ ~deadline
  /\ stats.ok + stats.errors < MaxIterations
  /\ phase' = "call"
  /\ noted' = FALSE /\ rejected' = 0
  /\ UNCHANGED <<run, fetches, jobs, flag, stats, dispatcher, deadline, config,
                 history>>

TimeIsUp ==
  /\ phase = "top" /\ deadline
  /\ phase' = "free"
  /\ UNCHANGED <<run, fetches, jobs, verdict, stats, dispatcher, deadline,
                 config,
                 history>>

\* Mutant: the flag is not reset.
FlagAtRunKept(f) == f

\* The flag as js_loop_run begins: reset for an iteration.
FlagAtRun(f) == IF run = "iteration" THEN FALSE ELSE f

\* The function, or the module, has returned a promise, pending on a fetch or
\* on a job, or settled.
CallReturns ==
  /\ phase = "call"
  /\ jobs' \in {jobs, jobs + 1}
  /\ flag' = FlagAtRun(flag)
  /\ phase' = "jobs"
  /\ UNCHANGED <<run, fetches, noted, rejected, stats, dispatcher, deadline,
                 config,
                 history>>

\* Before it returned a promise was rejected, which the tracker has noted: the
\* one it returns, or another.
CallReturnsRejected ==
  /\ phase = "call" /\ CallRejects
  /\ jobs' \in {jobs, jobs + 1}
  /\ flag' = FlagAtRun(TRUE)
  /\ noted' = TRUE /\ rejected' = rejected + 1
  /\ phase' = "jobs"
  /\ UNCHANGED <<run, fetches, stats, dispatcher, deadline, config, history>>

\* It threw: the module is given up, the function called again.
CallThrows ==
  /\ phase = "call" /\ "call" \in faults
  /\ phase' = IF run = "module" THEN "free" ELSE "top"
  /\ stats' = IF run = "module" THEN stats ELSE [stats EXCEPT !.errors = @ + 1]
  /\ UNCHANGED <<run, fetches, jobs, verdict, dispatcher, deadline, config,
                 history>>

\* A job handles a promise that is already rejected, earlier or by this job,
\* as a catch around the await of a function that has failed does.  Its reaction
\* is queued; the tracker is told, is_handled, and leaves the flag as it is.
HandleLate ==
  /\ phase = "job" /\ late < LateHandlers
  /\ late' = late + 1
  /\ jobs' = jobs + 1
  /\ \/ rejected > 0 /\ rejected' = rejected - 1 /\ UNCHANGED <<flag, noted>>
     \/ flag' = TRUE /\ noted' = TRUE /\ UNCHANGED rejected
  /\ UNCHANGED <<phase, run, fetches, stats, dispatcher, deadline, config,
                 calls>>

\* A job is done, having handled what went wrong or having left a promise
\* rejected.
JobReturns ==
  /\ phase = "job"
  /\ phase' = "jobs"
  /\ Unhandled \/ UNCHANGED verdict
  /\ UNCHANGED <<run, fetches, jobs, stats, dispatcher, deadline, config,
                 history>>

\* JS_ExecutePendingJob fails: js_loop_run returns 1, whatever is pending.
JobFails ==
  /\ phase = "job" /\ "job" \in faults
  /\ noted' = TRUE /\ rejected' = rejected + 1
  /\ LoopReturns(1)
  /\ UNCHANGED <<fetches, jobs, flag, dispatcher, deadline, config, history>>

\* js_loop_free destroys what is pending; js_vm_free drops the promises and
\* the jobs.
Cleanup ==
  /\ phase = "free"
  /\ phase' = "done"
  /\ conn' = [f \in Fetches |-> IF f \in pending
                THEN [conn[f] EXCEPT !.state = "freed", !.fd = FALSE] ELSE conn[f]]
  /\ sock' = [f \in Fetches |-> IF f \in pending THEN ClosedSock ELSE sock[f]]
  /\ interest' = [f \in Fetches |-> IF f \in pending THEN {} ELSE interest[f]]
  /\ ready' = [f \in Fetches |-> ready[f] /\ f \notin pending]
  /\ timer' = [f \in Fetches |-> IF f \in pending THEN "off" ELSE timer[f]]
  /\ pending' = {}
  /\ promise' = [f \in Fetches |-> "none"]
  /\ jobs' = 0
  /\ UNCHANGED <<run, verdict, stats, dispatcher, deadline, config, history>>

\* The thread has returned, or taken the process with it.
Over == phase \in {"done", "crashed"} /\ UNCHANGED vars

-----------------------------------------------------------------------------
(* The environment *)

Later(p, q) ==
  \/ p = "none"
  \/ p = "head" /\ q # "head"
  \/ p = "body" /\ q \in {"end", "bad"}

\* What a socket may become by the network, the server's kernel and the server.
NetSteps(s) ==
  CASE s.st = "syn" -> {[s EXCEPT !.st = x] : x \in {"est", "fail"}}
    [] s.st = "est" ->
         {[s EXCEPT !.st = "rst"], [s EXCEPT !.fin = TRUE], [s EXCEPT !.full = FALSE]}
           \cup {[s EXCEPT !.tls = t] :
                   t \in IF ~s.fin /\ s.tls = "hello" THEN {"flight", "bad"} ELSE {}}
           \cup {[s EXCEPT !.rx = p, !.sent = p] :
                   p \in IF ~s.fin /\ s.wire # NoReq
                         THEN {q \in Parts : Later(s.sent, q)} ELSE {}}
    [] OTHER -> {}

Network(f) ==
  /\ phase \notin {"done", "crashed"}
  /\ \E s \in NetSteps(sock[f]) \ {sock[f]} :
       /\ sock' = [sock EXCEPT ![f] = s]
       /\ ready' = [ready EXCEPT ![f] = ready[f] \/ Deliverable(interest[f], s) # {}]
  /\ UNCHANGED <<phase, run, pending, conn, timer, promise, interest, jobs,
                 verdict,
                 stats, dispatcher, deadline, config, history>>

Tick(f) ==
  /\ timer[f] = "armed"
  /\ timer' = [timer EXCEPT ![f] = "passed"]
  /\ UNCHANGED <<phase, run, pending, conn, promise, kernel, jobs, verdict,
                 stats,
                 dispatcher, deadline, config, history>>

DeadlinePasses ==
  /\ ~deadline
  /\ deadline' = TRUE
  /\ UNCHANGED <<phase, run, fetches, jobs, verdict, stats, dispatcher, config,
                 history>>

\* The flag is one for the process: another worker notes a rejection of its
\* own, or resets it for its own iteration.
OtherThread ==
  /\ OtherThreads
  /\ flag' = ~flag
  /\ UNCHANGED <<phase, run, fetches, jobs, noted, rejected, stats, dispatcher,
                 deadline, config, history>>

-----------------------------------------------------------------------------
(* The specification *)

ScriptNext ==
  \/ \E f \in Fetches, s \in FreshSocks : CallFetch(f, s)
  \/ \E f \in Fetches : Await(f)
  \/ CallReturns
  \/ CallReturnsRejected
  \/ CallThrows
  \/ HandleLate
  \/ JobReturns
  \/ JobFails

LoopNext ==
  \/ RunJob
  \/ JobsDone
  \/ \E B \in SUBSET Fetches : Poll(B)
  \/ PollFails
  \/ \E f \in Fetches : OnError(f)
  \/ \E f \in Fetches : OnWrite(f)
  \/ \E f \in Fetches : OnRead(f)
  \/ \E f \in Fetches : OnReadFreed(f)
  \/ Expire
  \/ \E f \in Fetches : TimesOut(f)
  \/ Expired

WorkerNext == CallFunction \/ TimeIsUp \/ Cleanup

ThreadNext == ScriptNext \/ LoopNext \/ WorkerNext

EnvironmentNext ==
  \/ \E f \in Fetches : Network(f)
  \/ \E f \in Fetches : Tick(f)
  \/ DeadlinePasses
  \/ OtherThread

Next == ThreadNext \/ EnvironmentNext \/ Over

Spec == Init /\ [][Next]_vars

\* The thread runs, a call of the script returns, and the clock goes on.
\* Nothing is assumed of the network or the servers.
FairSpec ==
  /\ Spec
  /\ WF_vars(ThreadNext)
  /\ \A f \in Fetches : WF_vars(Tick(f))
  /\ WF_vars(DeadlinePasses)

-----------------------------------------------------------------------------
(* Properties *)

\* A fetch is in the loop's list, in epoll, among the timers, with an open
\* connection and a pending promise, or in none of them: whatever settles it,
\* js_fetch_destroy lets go of all it holds, once.
Registered ==
  \A f \in Fetches :
    LET is == f \in pending
    IN  /\ (promise[f] # "none") = is
        /\ Live(conn[f]) = is /\ conn[f].fd = is
        /\ (interest[f] # {}) = is
        /\ (timer[f] # "off") = is
        /\ (sock[f].st # "closed") = is
        /\ f \in expiring => is

\* No edge is lost: a connection that could go on is on the ready list or in
\* the batch being dispatched.
NoLostWakeup ==
  \A f \in Fetches :
    f \in pending /\ CanProgress(conn[f], sock[f]) => ready[f] \/ batch[f] # {}

\* An event in the array that epoll_wait filled is freed by no handler but its
\* own write handler: not by that of another event, by a timer or by a job.
OnlyOwnEventDangles ==
  \A f \in Fetches : batch[f] # {} /\ Free(f) => cur = f /\ batch[f] = {"in"}

\* An iteration that leaves a promise rejected with nothing to handle it, or in
\* which a job fails, is counted as an error (docs/03: the worker checks whether
\* it succeeded).
FailureCounted ==
  [][stats'.requests > stats.requests /\ rejected' > 0
       => stats'.errors > stats.errors]_vars

\* One in which nothing of the kind happens, not even for a while, is counted as
\* a success, whatever was noted in the iterations before it.
SuccessCounted ==
  [][stats'.requests > stats.requests /\ ~noted' => stats'.ok > stats.ok]_vars

\* One that leaves no promise rejected and unhandled, and has no job fail, is
\* counted as a success (js_loop.c:80: "Check for unhandled promise rejections").
\* It is, unless the script handles a promise after its rejection.
HandledIsNoError ==
  [][stats'.requests > stats.requests /\ rejected' = 0 => stats'.ok > stats.ok]_vars

\* Every fetch settles, whatever the network does: by its timer if by nothing
\* else.
FetchesSettle == \A f \in Fetches :
  promise[f] # "none" ~> (promise[f] = "none" \/ phase = "crashed")

\* When the duration is over the worker returns.
Terminates == <>(phase \in {"done", "crashed"})
=============================================================================
