# A verification project for jsbench

jsbench (`src/`) is an HTTP load generator in C: a script exports what to
request, and one worker thread per configured thread sends requests over
non-blocking sockets for a given duration. Requests given as data are driven by
a pure C hot path; an async function is run by a QuickJS runtime per thread,
with a `fetch()` on the same connections.

This directory holds TLA+ models of the program from `main` to the bytes of a
response, the TLC runs that check them on small instances, and theorems proved
with TLAPS for every value of the constants.

    tlc -workers 2 -config CWorkerOne.cfg MCCWorker     # a run
    tlapm CWorkerProofs.tla                             # a proof module

## 1. Inventory

Paths are under `src/src/`.

| Component | State | Operations | Modelled by |
|---|---|---|---|
| C-path worker, `js_worker.c` | `conns[]`, `active`, `stats`, `stop` | creation loop, event loop, read/write/error handlers, `worker_conn_process`, cleanup | `CWorker` |
| JS-path worker, `js_worker.c` | `stats`, the deadline, the global rejection flag | evaluate the script, call the function, judge the iteration, clean up | `FetchLoop` |
| Connection, `js_conn.c` | `state`, descriptor, `ssl`, `in`, `out`, `req_index` | create, set_output, read, write, reuse, reset, free | `Conn` |
| TLS, `js_tls.c` | an `SSL` per connection; OpenSSL's error queue per thread | handshake, read, write, free | `Conn` (results only) |
| Engine and epoll, `js_engine.c`, `js_epoll.c` | the epoll instance, the batch on the stack | add, mod, del, poll and dispatch | `Epoll`, and actions of both loops |
| Timers, `js_timer.c` | tree, `now`, `minimum`; `time` and `enabled` per timer | add, delete, disable, find, expire | `Timer`, `DeadlineQueue` |
| HTTP parser, `js_http_parser.c` | parse state, headers, body, buffer, lengths | feed, reset, header lookup | `HttpParser` |
| JS loop, `js_loop.c` | the list of pending fetches | run, add, free | `FetchLoop` |
| `fetch()`, `js_fetch.c` | connection, timer, promise, place in the list | js_fetch, handlers, timeout, complete, fail, destroy | `FetchLoop` |
| VM glue, `js_vm.c` | runtime, context, `js_had_unhandled_rejection` | eval_module, rejection tracker | `FetchLoop` (partly) |
| Red-black tree, `js_rbtree.c` | nodes with links and colours, one sentinel | insert, delete, min, successor | `RbTree`, `SortedList` |
| Statistics, `js_stats.c` | counters, histogram of two resolutions | add, merge, percentile, mean, stdev, print | `Histogram` |
| Orchestration, `js_main.c`, `js_runtime.c` | configuration, worker array, exit status | mode, configuration, requests, address, dealing, launch, join, merge | `BenchRun` |
| Headers and Response, `js_headers.c`, `js_response.c` | header list, status, body | get, has, set, delete, forEach; text, json | `WebObjects`, `ResponseScript` (partly) |
| URL and request text, `js_web.c`, `js_util.c` | none | parse, serialise, duration | `Requests`, `BenchRun` (partly) |

**How they interact.** `main` evaluates the script, makes its export into
requests and calls `js_bench_run`, which launches a thread per worker, joins them
and adds up the statistics each has written. Each thread owns an engine (an epoll instance and its
timers) and shares nothing with the others but the read-only configuration and
one global, the rejection flag. Everything in a thread runs from its loop:
`js_timer_find` gives the wait, `js_epoll_poll` waits and calls the handlers of
each event (the error handler alone, or the write and then the read handler),
and `js_timer_expire` calls the handlers of the timers that are due. A handler
does its I/O through `js_conn`, feeds the parser, and ends in `*_process`, which
records, reuses, reconnects, settles a promise or re-arms epoll. On the JS path
the loop first runs the jobs of the script, which may call `fetch()` again.

**What is hard.** Edge-triggered readiness against handlers that narrow and
widen their interest; write and read handlers of one event with a reconnection
or a free between them; TCP segmentation; a 32-bit clock; four ways to end a
fetch, each of which must release everything once; a verdict passed through a
global flag; failures in the middle of a reconnection; a tree whose leaves share
one node with the root's parent; a list walked by index while a callback changes
it; the boundaries of a histogram of two resolutions; an address, a TLS flag and
a Host line that come from different places. `PROJECT.json` lists
each of these under `hazards`, at its line.

**What makes each part correct.**

- *C-path worker*: no connection that could go on is left waiting; each request
  started is counted once; responses belong to the requests they are recorded
  for; a connection goes through the requests in turn; it ends when its time is
  over. In short, it is a closed-loop load generator.
- *Timers*: what is due fires when the loop comes round, nothing fires early,
  and the wait, counted from the last reading of the clock, reaches past no deadline.
- *Parser*: what it reports depends on the stream and not on its segmentation;
  it takes exactly one response off the connection; it always finishes one that
  has arrived.
- *JS path*: a fetch is registered everywhere or nowhere; it settles; an
  iteration that leaves a rejection behind is counted as an error and no other is.
- *Red-black tree*: it is balanced, no link leads to a freed node, and its walk
  is the list of the timers in order.
- *A run of the program*: every connection asked for belongs to a thread, every
  request goes where it says, the report is the sum of what the threads
  recorded, and nothing is freed before its last user has ended.
- *Headers*: each name once, the last value wins; forEach gives each entry that
  stays once.

## 2. Modules

    Conn            operators on one connection and its socket
     ├─ ConnProofs       lemmas on them
     └─ Epoll       VARIABLES interest, ready; epoll_ctl
         ├─ CWorker      a worker of the C path        ── implements LoadGen
         │   └─ CWorkerProofs
         └─ FetchLoop    a worker of the JS path
             └─ FetchLoopProofs
    Timer           the timers of a thread             ── implements DeadlineQueue
     └─ TimerProofs
    RbTree          the tree they are kept in          ── implements SortedList
     └─ RbTreeProofs
    WebObjects      operators on Headers and Response
     └─ HttpParser      the parser and the client above it
         └─ ResponseScript  a script with the Response of a fetch
             └─ HttpParserProofs
    Histogram       operators on statistics
    Requests        operators on URLs and requests
     └─ BenchRun (both) main, js_bench_run and the worker threads
         └─ BenchRunProofs
    SumProofs       lemmas on least numbers, finite sets and sums
     ├─ HttpParserProofs
     ├─ RbTreeProofs
     └─ BenchRunProofs

`MCCWorker`, `MCFetchLoop`, `MCTimer`, `MCRbTree`, `MCHttpParser`,
`MCResponseScript` and `MCBenchRun` give the values TLC needs. In every module a definition whose comment begins with "Mutant:" is a
plausible bug, used by no specification: replacing the definition after it by
that one must break the property `PROJECT.json` names.

**Conn.** `js_conn_t` is a record `c`, the socket below it a record `s`, and
each function of `js_conn.c` an operator from the two to the set of its
outcomes. Data are reduced to what matters: the output buffer to which request
it holds and how much of it is left (`ReqLen` parts); the response to how far it
has come (`head`, `body`, `end`, or `bad` for malformed), since `HttpParser`
treats its text; the TLS handshake to what has been sent and what is unread.
`Mask` is the readiness the kernel reports, `CanProgress` what a connection in
a given state waits for.

**Epoll.** All entries are edge-triggered: an entry goes to the ready list when
its socket changes, or when `epoll_ctl` touches it while the socket is ready,
and `epoll_wait` takes it off, as many at a time as its array has room for
(`PollCount`).

**CWorker.** `phase` is the program counter of `worker_c_path`. A handler is one
action, from its I/O to the last `epoll_ctl` of `worker_conn_process`; between
its system calls the kernel can only add readiness, which the next `epoll_ctl`
or wake-up reports. `batch` and `cur` hold what `js_epoll_poll` has still to
dispatch, so the environment interleaves between handlers, also between the two
of one event. The environment connects, refuses, resets, closes, drains,
handshakes and answers; an answer may come before the whole request was sent.

**FetchLoop.** `phase` runs through `worker_js_path`, `js_loop_run` and
`js_epoll_poll`. The script is an environment that, whenever it runs, may call
`fetch()`, await the promise of a fetch that is pending, return, throw, leave a
promise rejected, or handle one that is rejected already (`HandleLate`). What
the tracker is told and what is left are two things: `noted` says that since the
function was called a promise was rejected with nothing handling it, or a job
failed; `rejected` counts those that nothing handles still. The flag of the code follows the
first. Both are about the time of an iteration, whichever call began the fetch:
one that a failed job or a failed `epoll_wait` leaves pending is driven by the
next iteration, and counts there. `Poll` takes `MaxEvents` entries of the ready list, 256
in the code. The use after
free that `js_epoll_poll` commits when a write handler has freed its event is the
action `OnReadFreed`, which either crashes the thread or gets by.

**Timer.** Times are taken modulo `Modulus` (2^32 in the code, 8 in the run)
and compared by the sign of their difference as in the code. `due` and `clock`
keep the times that do not wrap, to compare with. The tree is the set of its
timers; `OrderKept` is what makes that sound.

**HttpParser.** A stream is a sequence of tokens: one for the text of a line,
and CR, LF and each body byte by themselves, so that every CRLF can be cut in
two and a body can contain one. Each `Parse` action is one iteration of the loop
in `js_http_response_feed`. `Close` cuts the stream anywhere. What servers send
is a grammar: a message that is `WellFormed` is a status line, lines, and a body
that the headers a client keeps (`Kept`) say the length of, or a body in chunks
with a trailer; one that is `IllFormed` has a first line that is no status line.
`MessagesAssumption` asks this of every message that is `framed`. Two of the
responses of the run are not: a Content-Length in a header beyond the last that is
kept, and an interim response before the final one. `lost` marks a connection that
has carried one; what the properties say of it is that its damage goes no further
than that connection.

**WebObjects, ResponseScript.** A completed response becomes a `Response` with
`js_response_new`; names are equal but for case, so a name is a kind of token.
After the last request a script has the Headers of its response: it may set and
delete headers, also from the callback of a `forEach`, whose `i` is `given`.

**RbTree.** A tree is a record of the links and colours of all nodes, the
sentinel being node 0; a function of `js_rbtree.c` is an operator from tree to
tree, in which the two mirrored halves of the code are one operator of a side.
A loop of the code is `Loop` of one pass (`Seek`, `InsertPass`, `DeletePass`,
`ExpirePass`): as many passes as there are nodes, of which those after the end of
the loop change nothing. That none of them needs more is proved. A deleted node
loses its links, as in the code, so a link that still leads to it shows. `Expire` is the walk of
`js_timer_expire`, which deletes each node after taking its successor.

**Histogram, Requests.** Pure operators, translated one by one. A latency is a
number of ticks, `Unit` of them to a microsecond, where the code has doubles. A
URL is a record of its parts.

**BenchRun.** `phase` is the program counter of `main` and `js_bench_run`. Each
iteration of the extraction, launch, join and merge loops is an action, so the
workers interleave with all of them. A worker is what the main thread sees of
it: it begins, records outcomes into its own statistics, and ends; what it does
inside is `CWorker` and `FetchLoop`. `samples` remembers who recorded what.

**LoadGen and DeadlineQueue** state in a page what `CWorker` and `Timer`
promise: a fixed number of clients with one request outstanding each, in turn,
retried on failure; and deadlines on a clock that does not wrap.

## 3. Runs

| Run | Instance | Shows |
|---|---|---|
| `CWorkerOne` | 1 connection, 2 requests of 2 parts, plain and TLS, every set of faults, 4 settled requests | `TypeOK`, `Accounting`, `NoLostWakeup`, `RoundRobin`, `AnswersOwnRequest` |
| `CWorkerTwo` | 2 connections, an event array of 1, 2 requests, no faults, fair | implements `LoadGen` (`GeneratesLoad`), `Terminates`, `ResponseIsRead` |
| `CWorkerDead` | 2 connections, a reconnection may fail at once | **violated**: `FullConcurrency` |
| `Timer` | 3 timers, a 3-bit clock across its overflow | `TypeOK`, `OrderKept`, `SleepsNoLonger`, implements `DeadlineQueue` (`KeepsDeadlines`) |
| `RbTree` | 8 nodes in pairs of equal keys; insert, delete, expire | `TypeOK`, `Linked`, `RedBlack`, implements `SortedList` (`KeepsOrder`) |
| `HttpParser` | 2 requests, 8 kinds of response, every cut but one, closes; a script with 2 changes to the headers; fair | `TypeOK`, `Faithful`, `HeadersReported`, `Framed`, `NoStarvation`, `ForEachVisits`, `Settles` |
| `HttpTrailer` | chunked responses, every cut | **violated**: `Faithful` |
| `FetchLoop` | 1 fetch at a time, 2 in all, 2 calls of the function, plain and TLS, faults, fair | `TypeOK`, `NoLostWakeup`, `FailureCounted`, `SuccessCounted`, `FetchesSettle`, `Terminates` |
| `FetchLoopTwo` | 2 fetches at a time, an event array of 1, other threads, early rejections | `Registered`, `OnlyOwnEventDangles`, `NoLostWakeup` |
| `BenchRun` | 97 scripts, up to 3 threads and 5 connections, 3 outcomes; fair | `TypeOK`, `EveryConnectionDealt`, `ReportComplete`, `PercentilesSound`, `GoesWhereNamed`, `FreedAfterUse`, `Terminates` |
| `JsLostFailure` | the function may reject before its first await | **violated**: `FailureCounted` |
| `JsSharedFlag` | other worker threads run | **violated**: `SuccessCounted` |

**The four violations** are the findings of `PROJECT.json`.

1. *Dead slots.* If `socket()` or `connect()` fails at once inside
   `js_conn_reset` the connection has no descriptor and no epoll entry, nothing
   tries it again, and the benchmark goes on with fewer connections than the
   configured number of concurrent ones.
2. *Early end of a chunked body.* A segment that ends after the line of the
   last chunk, or after a trailer line, empties the buffer, and
   `parse_chunk_trailer` takes that for the end. The final CRLF is then parsed
   as the status line of the next response on the connection. `HttpParser`
   keeps these segments out with `WholeTrailers`; everything else about it holds.
3. *Lost failures.* The rejection flag is reset after the function was called,
   so a function that fails before its first await counts as a success.
4. *A shared flag.* The flag is one for all threads, so an iteration may be
   judged by what another thread's script did, either way.

`FailureCounted` and `SuccessCounted` hold when the cause of 3 and 4 is absent
(`CallRejects`, `OtherThreads` are `FALSE` in `FetchLoop`). The former is about
what is left unhandled (`rejected`), the latter about what was noted; between
the two are the iterations whose rejections were all handled late, which the
code counts as errors (section 5).

**Bounds and why they are enough.** `MaxOps` ends the events that settle a
request; four of them take one connection through both requests and twice
through reconnection, in any mixture of keep-alive, close, failure and retry.
Connections of the C path meet only in the batch, the ready list and the
statistics, for which two of them and an event array of one suffice. `ReqLen = 2` gives
one partial write. In `Timer`, `WindowAssumption` says what the comment in `js_timer.c:11-15`
requires of the timeouts, of `MaxLag` (how long a thread may be late) and of
`Bias`: all times that are compared lie within half the modulus. The clock
runs from 2 to 9, over the change of sign at 4 and the overflow at 8; three
timers give an earliest, a middle and a latest. In `HttpParser` two requests are
enough for anything left of one response to meet the next; two changes to the
headers let a callback delete and set while the loop stands anywhere. In
`RbTree` eight nodes make trees of every shape up to height four and reach every
branch of both repairs, on both sides, also when the rotations pass over the
sentinel's parent. In `BenchRun` the histogram has three fine slots and two
coarse ones, and the latencies lie on each of their boundaries and beyond; three
samples are enough for a percentile to fall before, on and after each of them,
and for two workers to be merged into a third; the scripts combine every type of
export with every kind of target (none, no URL, with and without port, http and
https). In `FetchLoop` a
second iteration sees what the first left behind; two fetches
that are ready share a round of timers, and an event array of one, so that one
of them waits for the next turn. `LateHandlers` is the number of promises
handled after their rejection; one is enough to part `rejected` from `noted`.
The response of a fetch arrives in part, in whole or malformed; its head by
itself leaves a connection as it was.

**Fairness.** A thread that can take a step takes one (`WF` of the worker's
own actions): it blocks only in `epoll_wait`, whose timeout is at most 100 ms on
the C path and at most the next timer, or 100 ms, on the JS path. The ready list
is a queue, so an entry that is on it again and again is reported (`SF` of
`PollReports`). The clock goes on (`WF` of `DeadlinePasses` and `Tick` where
they are needed). In `CWorker` a peer goes on reading what is sent to it (`WF`
of `Drains`). Nothing is assumed of what servers answer, except in `HttpParser`,
where what the server sent arrives. In `BenchRun` the main thread and the workers
run, and the duration of a worker passes (that its loop then ends is `Terminates`
of the two worker models). `Terminates` and `FetchesSettle` therefore
hold against silent servers. In `FetchLoop` a call of the script is assumed to
return.

## 4. Proofs

### The C-path worker

Proved with TLAPS, for every `ConnCount`, `RequestCount`, `ReqLen`, `MaxEvents`,
set of faults and bound, from the assumptions named in `Conn`, `Epoll` and `CWorker`:

| Theorem | Statement |
|---|---|
| `TypeCorrect` | `Spec => []TypeOK` |
| `NoWakeupIsLost` | `Spec => []NoLostWakeup` |
| `RequestsAreAccounted` | `Spec => []Accounting` |
| `ResponsesMatch` | `Spec => AnswersOwnRequest`, an action property |
| `RequestsInTurn` | `Spec => []RoundRobin` |
| `WorkerGeneratesLoad` | `Spec /\ NoReset => GeneratesLoad`, the refinement of `LoadGen` |

**The inductive invariant** of `CWorkerProofs` is

    IInv == TypeOK /\ SlotsOK /\ LoopOK /\ BatchOK /\ NoLostWakeup /\ Accounting

`NoLostWakeup` alone is not inductive: it needs to know that the entry of a live
connection asks for what its state waits for, that the parts of the output
buffer agree with the state, and that a connection without socket has no entry
(`SlotsOK`); that only open entries are queued, that slots not created yet are
empty and that the thread knows of no stop while it runs (`LoopOK`); and what
the events left in a batch may be about (`BatchOK`: a live connection, or one
that died in its write handler and whose read handler is due).

**The argument.** Lemmas about `Conn` first, in `ConnProofs` (`ConnWriteOutcome`,
`ConnReadOutcome`): whatever a handler's I/O does, what it leaves is a live
connection that fits its socket, or one that is done or in error.
`ProgressIsDeliverable`: what a state waits for is always part of the interest
that goes with it, so the `epoll_ctl` at the end of a handler queues the entry
if the socket has it already. `ProcessHandled` combines them for
`worker_conn_process`, with the accounting in the same step: a handler settles
a request and starts one, or does neither (`InFlightStep` gives the change of
the number in flight, from the library's theorems on cardinality). The handlers
are then one lemma each, the other actions one lemma each, and `NextKeeps` puts
them together.

What a step records comes next: `StepRecords` says that a step
records at most one response, on a connection that was reading, for the request
its buffer held, which is the request the server was sent (by `SlotsOK`).
`ResponsesMatch` follows. For `RequestsInTurn` the invariant is `AllInTurn`: a
connection that started at request `i % RequestCount` has recorded one response
more for the requests it has passed in the current lap than for the others.

`WorkerGeneratesLoad` says that the worker implements the load generator. The
mapping gives each client the request its connection has outstanding, or none if the
connection is not live. A handler that settles a request and starts another is
one step of `LoadGen`, also when it goes through a reconnection; the write
handler, the read handler of a response that is not complete, the kernel and the
server are stutters. `NoReset` leaves out the one fault of finding 1, by which a
client ends while the generator goes on: the last step of the behaviour that
`CWorkerDead` finds is no step of `LoadGen`. `SlotsOK` of the same `IInv` is what the mapping needs.

### Timers

Proved in `TimerProofs` for every set of timers, every even modulus, every set
of timeouts and every `MaxLag` and `Bias` that fit `WindowAssumption`:

| Theorem | Statement |
|---|---|
| `TypeCorrect` | `Spec => []TypeOK` |
| `OrderIsKept` | `Spec => []OrderKept` |
| `WaitFromReading` | `Spec => []SleepsNoLonger` |
| `DeadlinesAreKept` | `Spec => KeepsDeadlines`, the refinement of `DeadlineQueue` |

The assumption is the program's own: a duration beyond it (about 25 days, see
`hazards`) is outside of what `js_timer.c` claims. `SleepsNoLonger` counts the
wait from `timers->now`, as `js_timer_find` does. That reading may be old when the wait begins, by what handlers and jobs took
(up to `MaxLag` in the model), and by as much the thread may wake after the
deadline; nothing is claimed about that.

**The inductive invariant** is
`IInv == TypeOK /\ TreeOK /\ ClockOK /\ MinimumOK /\ SleepsNoLonger`.
`TreeOK` ties the cut time of each timer in the tree to its true one and bounds
the latter on both sides: at most `MaxLag` behind the clock, at most a timeout
after the last reading of it. `OrderKept` alone says neither, and so does not
survive an `Arm`. `MinimumOK` gives the cut `minimum` a true time while the
thread waits, which lets an `Arm` within `Bias` of it leave `minimum` alone.

**The argument.** `CutIs` and `CutUnique` say that a number has one residue;
`DiffIsTrue`, that the signed difference of two cut times is the difference of
the true ones if that is less than half the modulus. `TreeDiffs` brings the tree
into that range, and from there on each comparison in the code is the comparison
of `DeadlineQueue`. There is one lemma for each action.

### The red-black tree

Proved in `RbTreeProofs` for every finite set of nodes and all keys:

| Theorem | Statement |
|---|---|
| `TypeCorrect` | `Spec => []TypeOK` |
| `TreeLinked` | `Spec => []Linked` |
| `TreeBalanced` | `Spec => []RedBlack` |
| `WalkKeepsOrder` | `Spec => KeepsOrder`, the refinement of `SortedList` |

**The inductive invariant** is `RbInv == \E g, b : Balanced(tree, g, b)`. A tree
is a recursive notion, and none of the provers does an induction on subtrees. So the
invariant asks for two witnesses which make it a statement about each node and
its children. The *order* `g` numbers the nodes from left to right, the
sentinel last, and gives each node the first and last number of its subtree; a
left child spans what is before its parent, a right child what is behind it
(`Shape`). The *heights* `b` give each node the number of black nodes of the
paths below it (`Even`). `Linked` and `RedBlack` alone are not inductive: a
cycle beside the tree is `Linked` too, and neither says where a search ends.

**The argument.** A rotation leaves all numbers and changes two spans
(`RotateShape`); an insertion opens a number where the search ended
(`GrownShape`) and a deletion closes one (`SplicedShape`), with the successor
in the place of a node that has two children (`RenamedShape`). While a repair
runs the invariant has one exception, which its passes move up: a red node that
may have a red parent (`InsertInv`), or a slot whose paths are one black node
short (`Short`). Each pass moves to a node of a wider span, so the repairs, the
search and the walk end within the passes that `Loop` gives them (`LoopEnds`).
`SuccessorIs` says that `js_rbtree_node_successor` is the next number, whichever
of its two branches it takes, and `WalkIs`, that the walk is the order; so each
operation on the order is one on the list of `SortedList`: `InsertOK`,
`DeleteOK` and `ExpireOK`. For the last, the successor that was taken before the
deletion is still the first node after it (`PassMoves`).

### The JS event loop and `fetch()`

Proved in `FetchLoopProofs` for every finite set of fetches, every size of the
event array (`MaxEvents`), every number of calls, iterations, request parts and
late handlers and every set of faults, from the assumptions of `Conn`, `Epoll`
and `FetchLoop`:

| Theorem | Statement |
|---|---|
| `TypeCorrect` | `Spec => []TypeOK` |
| `AllOrNothing` | `Spec => []Registered` |
| `NoEdgeIsLost` | `Spec => []NoLostWakeup` |
| `OnlyItsOwn` | `Spec => []OnlyOwnEventDangles` |
| `FailuresCount` | `Spec => FailureCounted` if `~OtherThreads` and `~CallRejects` |
| `SuccessesCount` | `Spec => SuccessCounted` if `~OtherThreads` |
| `HandledLateOnly` | `Spec => HandledIsNoError` if `~OtherThreads` and `LateHandlers = 0` |

The run `JsLostFailure` takes away `~CallRejects`, `JsSharedFlag` takes away
`~OtherThreads`, and each finds its property violated. `HandledIsNoError`, that
an iteration which leaves nothing rejected and unhandled is a success, is false
of the code if a promise may be handled after its rejection (`LateHandlers > 0`):
a job that does so leaves `flag` set. These are hypotheses about the script and
its thread, not about the code, and the theorems hold of a program only so far
as it meets them.

**The inductive invariant** is

    IInv == /\ TypeOK /\ FetchesOK /\ DispatchOK
            /\ NoLostWakeup /\ OnlyOwnEventDangles /\ VerdictOK

`FetchesOK` says what a fetch in the loop's list `Holds` (an open connection, an
epoll entry that asks for what its state waits for, a timer, a promise) and that
one that is not `LetsGo` of each. `DispatchOK` says when events and due timers
can be left over, and that a timer about to expire belongs to a pending fetch:
without it a second expiry could settle a fetch that a first one freed.
`VerdictOK` relates the global flag to what was noted in the iteration so far,
which is all that the verdict has to go by, and that to what is left.

**The argument.** `FailedIsStepped` and `ProcessIsStepped` show that a handler
leaves its fetch holding everything or nothing and the others untouched
(`OthersKeep`); one lemma for each action follows. Everything about the
connection itself is in `ConnProofs`, which the C path uses too.

### Responses and headers

Proved in `HttpParserProofs` for all messages that satisfy `MessagesAssumption`
(of any number of lines, headers, chunks and trailer lines), all limits,
numbers of requests and segmentations, and a server that closes anywhere:

| Theorem | Statement |
|---|---|
| `TypeCorrect` | `Spec => []TypeOK` |
| `HeadersSummarised` | for every sequence of lines, `Summarises(HeadersFromHttp(list), list)` |
| `ResponsesFaithful` | `Spec => []Faithful` if `WholeTrailers` |
| `HeadersTrue` | `Spec => []HeadersReported` if `WholeTrailers` |
| `StreamFramed` | `Spec => []Framed` if `WholeTrailers` |
| `NeverStarves` | `Spec => [](~lost => NoStarvation)` if `WholeTrailers` |

and of `ResponseScript`, whose specification the run checks:

| Theorem | Statement |
|---|---|
| `ScriptsApart` | `ScriptedSpec => Spec`, which carries the theorems above over |
| `VisitsEach` | `ScriptedSpec => []ForEachVisits` |

`WholeTrailers` is what finding 2 is about: without it `Faithful` is false, as
`HttpTrailer` shows. `NoStarvation` needs `~lost` for every message: a server that announces
a longer body than it sends leaves the client waiting, and none of the messages
of the run does that.

**The inductive invariant** of the parser is

    StreamInv == ResponsesInv /\ NetOK /\ CurrentOK /\ ResultsOK

`ResponsesInv` types the parser with what typing needs: there is no body before
the headers are complete, and an identity body never exceeds its length, so
`BodyIdentity` never takes a negative number of bytes. `CurrentOK` says where in
the response the parser is: with `Ahead(buf, sent, short, full)` for "the buffer
and what is on its way are together `full`, or a beginning of it if the server
has cut it short", `Progress` says for each parser state which rest of the
response is ahead (`LinesLeft`, `ChunksLeft`, `TrailerLeft` after the first `k`
of them) and that what has been taken, together with that rest, is the
whole. `Faithful` speaks of results alone and so says nothing of the middle of a
response. Two more conjuncts are needed. `MidLine` keeps the buffer from being
empty between the last lines of a chunked body, which is where `WholeTrailers` enters;
it survives an iteration because an iteration takes off nothing or all up to the end
of a line (`Shrinks`). And a client that is not being fed has something on its
way, unless the server has cut it off, from which `NoStarvation` follows.
What follows a response that was cut short on a connection that stayed open for
another request is `Astray`: it may be the end of the former response and does
not begin with a status line, so nothing is ever made of it.

**The argument.** `HeadTaken` and `PartTaken` take a whole or a part off what is
ahead, whatever part of it has arrived. `LineRead` and `EmptyRead` find from
there that the first CRLF in the buffer is the end of the next line, however
little else is in the buffer: the fact that makes the parser independent of
segmentation. There is one lemma for each parser state (`FeedStatusLine` to
`FeedChunkTrailer`), which show that an iteration keeps `Progress` and stops
only when there is more to come; `ReadStream`, `CloseStream` and `EofStream` are
the network, `ResultTold` and `NextAsked` what the client does with a response
that is complete. `FlattenSeq` of the community modules is defined by recursion;
`FlatIsDefined` shows that the function exists for every sequence, and
`FlatHead` that its first element comes first.

`HeadersSummarised` is the core of `HeadersReported` without the parser: what the
loop of `js_headers_from_http` builds. `OneMoreLine` is the step of its
induction, which runs by least counterexample on the recursive function `made`
(`LeastOf`, from the well-foundedness of `<` on the naturals), because the
library's induction theorem cannot be instantiated.

For a script the invariant is `IInv == ResponsesInv /\ ScriptOK`. That no name is
twice in the headers of a result is part of `ResponsesInv`, and where a script
starts from. `ScriptOK` adds `LoopOK`: a header that stayed
is given at most once; while the callback runs, those given are not behind the
entry it was called for; and those up to that entry were given, unless one
was deleted behind it. `ForEachVisits` itself says nothing of where the index
stands, which is what a `Delete` moves; `FindAfterSet` and `FindAfterDelete` say
how.

### A run of the program

Proved in `BenchRunProofs` for every set of scripts, of
outcomes and of percentiles, every size of the histogram and every bound on the
samples, from the assumptions named in `Histogram` and `BenchRun`:

| Theorem | Statement |
|---|---|
| `TypeCorrect` | `Spec => []TypeOK` |
| `NothingFreedTooEarly` | `Spec => []FreedAfterUse` |
| `SharesAreEven` | `Spec => []EvenShares`, all of `EveryConnectionDealt` but the sum |
| `RequestsGoWhereNamed` | `Spec => []GoesWhereNamed` |
| `AllConnectionsDealt` | `Spec => []EveryConnectionDealt` |
| `ReportIsTrue` | `Spec => []ReportComplete` |
| `PercentilesAreTrue` | `Spec => []PercentilesSound` |

**The inductive invariant** is `IInv == TypeOK /\ LoopOK`. `LoopOK` says where
the loops of the main thread stand: there is no worker before `Resolve`;
`index` is the number of a worker while a loop is running; the workers before it
have ended while the thread is joining, and all of them when it merges; and what
an exit status says of the workers. `FreedAfterUse` follows, since the exit
status is set after the merge or before there is a worker. A worker's step
disturbs only its own entry (`WorkerKeeps`), and `SlotHolds` shows that the slot
`HistAdd` chooses for a latency exists and that its bounds hold the latency,
which is the boundary case of `js_hist_add`.

`SharesOK` adds that the entries are those of `Deal`, which are even by
`DealIsEven`: quotient and remainder, with one division lemma (`Quotient`) and
`Lower(threads, connections)` for the clamping.

`ConfigOK` is the invariant for `GoesWhereNamed`: the requests are those of the
first `n` items, the configured URL is the first one's, and the address is that
of `Dialled`. `UrlOrigin` compares the two ways in which a request gets its
origin (a path printed below the target and parsed again, and a URL moved to the
target) with the one the item names; `HostLineNames` does it for the Host line.

*Sums.* The models add up with a fold of the community modules, whose value is
a `CHOOSE` of a recursive function. `SumProofs` shows that this function exists
for every finite set and so satisfies its equation (`SumEmpty`, `SumAdds`), and
from there that sums are natural, can be taken apart, compared and exchanged.
Since the induction theorems of the library cannot be instantiated, induction
is by what is smallest among the counterexamples: `CountUp` over numbers,
`AddUp` over the subsets of a finite set, both stated on sets instead of
predicates.

*The report.* `ReportOK == WorkersOK /\ TotalOK` says of the statistics of each
worker, and of the total while the main thread merges, that they `Describe` a
bag of outcomes: what the worker recorded, and what the workers merged so far
recorded between them (`OfFirst`). `ReportComplete` speaks of the end only and
so needs all of it; in particular it needs that a worker not yet created has
recorded nothing, and that nothing is recorded behind the back of `Merge`, which
is `LoopOK`. `DescribesNone`, `DescribesOne` and `DescribesBoth` are the
statistics themselves: zero, a sample more, and a merge. The subtraction in the
variance stays in the naturals by `SpreadHolds`, the inequality of Cauchy and
Schwarz for weighted sums.

*Percentiles.* `SlotGrows` says that a greater latency never falls into a lower
slot, and `CumulativeIs` that the cumulative count of a slot is the number of
samples up to its end; `PercentileIs` reads the loop of `js_hist_percentile` as
the first slot whose count exceeds the rank. A latency beyond the last slot
takes the maximum, which is a latency that occurred.

*What the constants must satisfy.* There are finitely many outcomes, and none
takes longer than `Never`, which stands for the 1e18 microseconds to which
`js_stats_init` sets the minimum: a longer one would not become the least
latency.

### What is only model-checked

- *All liveness*: `Terminates`, `ResponseIsRead`, `FetchesSettle`, `Settles`.
- *The four runs that end in a violation*, which are counterexamples.

## 5. What the models leave out

- *Text*: reason phrases, values of headers that are not numbers, and the layout
  of a request. The lengths of fields are not modelled: the 64 and 256 bytes of a
  header, the host and path of a URL, the 4096 bytes into which the headers of a
  request object are printed. `worker_keepalive` is a free choice between the
  two ways to go on. A `host` or `method` that is the empty string counts as not
  given, as no script has a use for it.
- *Doubles*: the histogram is exact; `js_hist_stdev` is given as its square.
- *`text()` and `json()`* of a Response, which read the body and change nothing
  (`body_used` is never set), and `console.log`.
- *Memory exhaustion*, except where the code handles it as a failed call.
- *epoll_ctl failures*, which the code ignores; they do not occur for the
  descriptors it passes.
- *OpenSSL's error queue*, which the code never clears, and the TLS 1.3 tickets
  and renegotiation that make a write wait for reading.
- *Signals*: `EINTR` is a `Poll` that returns nothing; jsbench does not ignore
  SIGPIPE, and its effect on a write to a reset connection is not modelled.
- *Servers whose framing the parser does not know*, but for the two above:
  answers to HEAD with a Content-Length, bodies that end with the connection.

Met while modelling, and modelled as the code has it, without a run of its own:

- The tracker ignores the call that tells it that a rejected promise is handled
  by now (`js_vm.c:42`), and `js_loop.c:80` takes the flag for "unhandled promise
  rejections". So `try { await inner() } catch {}` behind an earlier await makes
  the iteration an error if `inner` throws before it awaits anything, although
  nothing is left unhandled. `HandleLate` models it; `HandledLateOnly` proves that
  there is no other case.
- An async function ignores `connections` but for the number of threads: each
  thread makes one call at a time, and `fetch()` opens a connection of its own.
- Without `target` such a script is announced to proceed "with localhost
  assumption" (`js_main.c:102-104`), but the empty name that is then looked up
  has no address, and the run ends with status 1.
- When the items of an array name different origins, all go to the address of
  the first, with its TLS setting and their own Host lines. `GoesWhereNamed` is
  about scripts with one origin.
- The items of an array that are objects are not refused when their URL is none.
- A thread that could not be created is joined all the same (`Join` crashes).
- Without a single sample the report prints 1e18 as the least latency.

## 6. Plan

Done: `Conn`, `Epoll`, `CWorker` with `LoadGen`, `Timer` with `DeadlineQueue`,
`RbTree` with `SortedList`, `HttpParser` with `WebObjects` and `ResponseScript`,
`FetchLoop`, `BenchRun` with `Histogram` and `Requests`; proofs of every
invariant, action property and refinement that a passing run checks.

Left to model: the error queue shared by the TLS connections of a thread, which
needs a model of what OpenSSL leaves in it; the duration that overflows the 32
bits of a timer; the lengths of text fields.

Nothing but liveness is left to prove of what the runs check. What could be
stated and proved beyond it: that a search in the tree takes at most twice the
logarithm of the number of timers, which follows from `RedBlack` on paper.
