------------------------------- MODULE BenchRun -------------------------------
(***************************************************************************)
(* A run of the program: main (src/src/js_main.c) evaluates the script,    *)
(* makes its export into requests and hands them to js_bench_run           *)
(* (src/src/js_runtime.c), which resolves the address, deals the           *)
(* connections to worker threads, launches and joins them, and reports the *)
(* sum of their statistics.  The workers run beside the main thread; what  *)
(* they do inside is the business of CWorker and FetchLoop: here a worker  *)
(* records the outcomes of its requests and ends when its time is over.    *)
(***************************************************************************)
EXTENDS Histogram, Requests, Sequences, SequencesExt

CONSTANTS
  Scripts,     \* external: the scripts to consider, records of
               \*   ends     "fails" if it cannot be compiled or evaluated
               \*   default  its default export: a type and the items of it
               \*   bench    its bench export
  Outcomes,    \* external: what a worker may record, records of
               \*   path   "c" or "js"
               \*   kind   a status class, "other", "error", "ok", "failed", "threw"
               \*   ticks  the latency
  BodyLen,     \* the length of the body of a response
  MaxSamples   \* bound: the outcomes recorded by all workers

BenchFields == {"connections", "threads", "duration", "hasTarget", "target", "host"}

ASSUME ScriptsAssumption ==
  \A s \in Scripts :
    /\ s.ends \in {"fails", "returns"}
    /\ s.default.type \in {"none", "string", "function", "array", "object"}
    /\ DOMAIN s.bench = BenchFields
    /\ s.default.items \in Seq(ToSet(s.default.items))
    /\ s.bench.connections \in Int /\ s.bench.threads \in Int
    /\ s.bench.hasTarget \in BOOLEAN
ASSUME OutcomesAssumption ==
  /\ \A o \in Outcomes : o.path \in {"c", "js"} /\ o.ticks \in 0 .. Never
  /\ IsFiniteSet(Outcomes)
  /\ BodyLen \in Nat /\ MaxSamples \in Nat

VARIABLES
  phase,    \* where the main thread is
  script,   \* external: the script
  config,   \* js_config_t
  workers,  \* workers[] of js_bench_run
  index,    \* i of its loops
  total,    \* the sum of the statistics
  report,   \* what js_stats_print printed
  ret,      \* the exit status
  samples   \* history: what each worker recorded, and how often

results == <<total, report, ret>>
vars == <<phase, script, config, workers, index, results, samples>>

Running == -1                                     \* no exit status yet
Nothing == [counter |-> [k \in Counters |-> 0]]   \* no report yet
Threads == DOMAIN workers
Items   == script.default.items

ConfigInit ==
  [mode |-> "cli", connections |-> 1, threads |-> 1, duration |-> 0,
   hasTarget |-> FALSE, target |-> NoUrl, host |-> "", url |-> NoUrl,
   requests |-> <<>>, addr |-> <<"", 0>>]

TypeOK ==
  /\ phase \in {"start", "evaluate", "configure", "extract", "resolve", "launch",
                "join", "merge", "exited", "crashed"}
  /\ script \in Scripts
  /\ DOMAIN config = DOMAIN ConfigInit
  /\ config.mode \in {"cli", "string", "async", "array", "object"}
  /\ config.connections \in Nat \ {0} /\ config.threads \in Nat \ {0}
  /\ Threads \in {0 .. n - 1 : n \in 0 .. Lower(config.threads, config.connections)}
  /\ workers \in [Threads -> [state      : {"none", "created", "running", "ended"},
                             conn_count : Nat,
                             stats      : StatsType]]
  /\ index \in 0 .. Cardinality(Threads)
  /\ ret \in {Running, 0, 1}
  /\ samples \in [Threads -> [Outcomes -> Nat]]

Init ==
  /\ phase = "start"
  /\ script \in Scripts
  /\ config = ConfigInit
  /\ workers = <<>>
  /\ index = 0
  /\ total = StatsInit
  /\ report = Nothing
  /\ ret = Running
  /\ samples = <<>>

-----------------------------------------------------------------------------
(* main *)

\* The main thread goes on to another phase, with nothing but config changed,
Goto(next) ==
  /\ phase' = next
  /\ UNCHANGED <<script, workers, index, results, samples>>

\* or the program ends.
Exit(status) ==
  /\ phase' = "exited"
  /\ ret' = status
  /\ UNCHANGED <<script, config, workers, index, total, report, samples>>

\* The file is read, the engine, the loop and the context are created, or not.
Start ==
  /\ phase = "start"
  /\ \/ Goto("evaluate") /\ UNCHANGED config
     \/ Exit(1)

Evaluate ==
  /\ phase = "evaluate"
  /\ \/ script.ends = "returns" /\ Goto("configure") /\ UNCHANGED config
     \/ script.ends = "fails" /\ Exit(1)

\* js_runtime_detect_mode
ModeOf(type) ==
  CASE type = "function" -> "async"
    [] type \in {"string", "array", "object"} -> type
    [] OTHER -> "cli"

\* Mutant: numbers that are not positive are taken too.
AnyNumber(n, default) == n

Positive(n, default) == IF n > 0 THEN n ELSE default

\* js_parse_duration, in milliseconds
Duration(d) ==
  CASE d.unit = "ms" -> d.number
    [] d.unit = "m"  -> d.number * 60000
    [] d.unit = "h"  -> d.number * 3600000
    [] OTHER         -> d.number * 1000

\* js_runtime_extract_config, and the target of an async function
Configure ==
  LET bench == script.bench
      mode  == ModeOf(script.default.type)
  IN
  /\ phase = "configure"
  /\ \/ mode = "cli" /\ Exit(0)
     \/ /\ mode # "cli"
        /\ config' =
             [config EXCEPT
                !.mode = mode,
                !.connections = Positive(bench.connections, @),
                !.threads = Positive(bench.threads, @),
                !.duration = Duration(bench.duration),
                !.hasTarget = bench.hasTarget,
                !.target = bench.target,
                !.host = bench.host,
                !.url = IF mode = "async" /\ bench.hasTarget
                          THEN ParseUrl(bench.target) ELSE @]
        /\ Goto(IF mode = "async" THEN "resolve" ELSE "extract")

\* An iteration of the loop of js_runtime_extract_requests.
Extract ==
  LET k    == Len(config.requests) + 1
      item == Items[k]
      url  == RequestUrl(item, config.hasTarget, config.target)
  IN
  /\ phase = "extract"
  /\ k <= Len(Items)
  /\ \/ /\ Taken(item, config.hasTarget, config.target)
        /\ config' = [config EXCEPT
                        !.requests = Append(@, Serialize(item, url, config.host)),
                        !.url = IF k = 1 THEN url ELSE @]
        /\ Goto("extract")
     \/ ~Taken(item, config.hasTarget, config.target) /\ Exit(1)

Extracted ==
  /\ phase = "extract"
  /\ Len(config.requests) = Len(Items)
  /\ \/ config.requests = <<>> /\ Exit(1)
     \/ config.requests # <<>> /\ Goto("resolve") /\ UNCHANGED config

-----------------------------------------------------------------------------
(* js_bench_run *)

\* Mutant: there is no default.
RunForNoDefault(duration) == duration

\* The duration is 10 s unless one is given.
RunFor(duration) == IF duration <= 0 THEN 10000 ELSE duration

\* Whose address is looked up: that of the target or of the first request.
Dialled ==
  IF config.hasTarget /\ Parses(config.target) THEN ParseUrl(config.target)
  ELSE config.url

\* Mutant: one thread too many gets one of the remaining connections.
DealOneMore(nthreads, nconns) ==
  [i \in 0 .. nthreads - 1 |->
     nconns \div nthreads + IF i <= nconns % nthreads THEN 1 ELSE 0]

\* The connections of each thread.
Deal(nthreads, nconns) ==
  [i \in 0 .. nthreads - 1 |->
     nconns \div nthreads + IF i < nconns % nthreads THEN 1 ELSE 0]

\* js_worker_t as calloc leaves it: its least latency is 0.
ZeroStats == [StatsInit EXCEPT !.latency.min = 0]

\* Up to the allocation of the workers: the name has no address or there is no
\* TLS context, or all is well.
Resolve ==
  LET share == Deal(Lower(config.threads, config.connections), config.connections)
  IN
  /\ phase = "resolve"
  /\ \/ Exit(1)
     \/ /\ Dialled.host # ""
        /\ config' = [config EXCEPT !.duration = RunFor(@),
                                    !.addr = <<Dialled.host, Dialled.port>>]
        /\ workers' = [i \in DOMAIN share |->
                         [state |-> "none", conn_count |-> share[i], stats |-> ZeroStats]]
        /\ samples' = [i \in DOMAIN share |-> [o \in Outcomes |-> 0]]
        /\ phase' = "launch"
        /\ UNCHANGED <<script, index, results>>

\* The loop over the workers goes on, or the next one begins.
Advance(next) ==
  /\ index' = (index + 1) % Cardinality(Threads)
  /\ phase' = IF index' = 0 THEN next ELSE phase

\* pthread_create, whose result is ignored.
Launch ==
  /\ phase = "launch"
  /\ \/ workers' = [workers EXCEPT ![index].state = "created"]
     \/ UNCHANGED workers
  /\ Advance("join")
  /\ UNCHANGED <<script, config, results, samples>>

\* Mutant: a thread that has been created is not waited for.
JoinedEarly(w) == w.state # "none"

\* pthread_join returns.
Joined(w) == w.state = "ended"

\* Without a thread it follows the zero that calloc left for its id.
Join ==
  /\ phase = "join"
  /\ \/ Joined(workers[index]) /\ Advance("merge")
     \/ /\ workers[index].state = "none"
        /\ phase' = "crashed"
        /\ UNCHANGED index
  /\ UNCHANGED <<script, config, workers, results, samples>>

\* The statistics of a worker are added; after the last they are printed, and
\* what the run used is freed.
Merge ==
  /\ phase = "merge"
  /\ total' = StatsMerge(total, workers[index].stats)
  /\ Advance("exited")
  /\ IF phase' = "exited" THEN report' = StatsPrint(total') /\ ret' = 0
                          ELSE UNCHANGED <<report, ret>>
  /\ UNCHANGED <<script, config, workers, samples>>

-----------------------------------------------------------------------------
(* The worker threads *)

\* js_worker_run, which clears the statistics and creates an engine, or fails to.
Begin(i) ==
  /\ workers[i].state = "created"
  /\ \E state \in {"running", "ended"} :
       workers' = [workers EXCEPT ![i].state = state, ![i].stats = StatsInit]
  /\ UNCHANGED <<phase, script, config, index, results, samples>>

Answers  == Classes \cup {"other"}
Failures == {"error", "threw"}

\* How much an outcome adds to a counter (worker_conn_process, worker_js_path).
Adds(kind, k) ==
  CASE k = "requests"       -> IF kind \in Failures THEN 0 ELSE 1
    [] k = "bytes_read"     -> IF kind \in Answers THEN BodyLen ELSE 0
    [] k = "errors"         -> IF kind \in Failures \cup {"failed"} THEN 1 ELSE 0
    [] k = "connect_errors" -> IF kind = "error" THEN 1 ELSE 0
    [] k = "status_2xx"     -> IF kind \in {"status_2xx", "ok"} THEN 1 ELSE 0
    [] OTHER                -> IF kind = k THEN 1 ELSE 0

Recorded(stats, o) ==
  [counter |-> [k \in Counters |-> stats.counter[k] + Adds(o.kind, k)],
   latency |-> IF o.kind \in Failures THEN stats.latency
               ELSE HistAdd(stats.latency, o.ticks)]

\* How often any worker recorded the outcome.
Total(o) == SumFunction([i \in Threads |-> samples[i][o]])

Record(i, o) ==
  /\ workers[i].state = "running"
  /\ o.path = IF config.mode = "async" THEN "js" ELSE "c"
  /\ MapThenSumSet(Total, Outcomes) < MaxSamples
  /\ workers' = [workers EXCEPT ![i].stats = Recorded(@, o)]
  /\ samples' = [samples EXCEPT ![i][o] = @ + 1]
  /\ UNCHANGED <<phase, script, config, index, results>>

\* The worker has no connection, its epoll fails, or it cannot evaluate the script;
GiveUp(i) ==
  /\ workers[i].state = "running"
  /\ workers' = [workers EXCEPT ![i].state = "ended"]
  /\ UNCHANGED <<phase, script, config, index, results, samples>>

\* or its time is over.
TimeOver(i) == config.duration > 0 /\ GiveUp(i)

-----------------------------------------------------------------------------
(* The specification *)

Alive == phase \notin {"exited", "crashed"}

MainNext ==
  \/ Start \/ Evaluate \/ Configure \/ Extract \/ Extracted
  \/ Resolve \/ Launch \/ Join \/ Merge

WorkerNext(i) ==
  \/ Begin(i)
  \/ \E o \in Outcomes : Record(i, o)
  \/ GiveUp(i)
  \/ TimeOver(i)

Finished == ~Alive /\ UNCHANGED vars

Next ==
  \/ MainNext
  \/ Alive /\ \E i \in Threads : WorkerNext(i)
  \/ Finished

Spec == Init /\ [][Next]_vars

\* The main thread and the workers run, and the time of a worker passes.
FairSpec ==
  /\ Spec
  /\ WF_vars(MainNext)
  /\ WF_vars(Alive /\ \E i \in Threads : Begin(i) \/ TimeOver(i))

-----------------------------------------------------------------------------
(* Properties *)

\* No thread is without a connection and none has two more than another; there
\* are no more threads than asked for.
EvenShares ==
  workers # <<>> =>
    /\ Cardinality(Threads) <= config.threads
    /\ \A i, j \in Threads : /\ workers[i].conn_count > 0
                             /\ workers[i].conn_count <= workers[j].conn_count + 1

\* Every connection asked for belongs to one thread, in even shares.
EveryConnectionDealt ==
  /\ EvenShares
  /\ workers # <<>> =>
       SumFunction([i \in Threads |-> workers[i].conn_count]) = config.connections

Timed  == {o \in Outcomes : Total(o) > 0 /\ o.kind \notin Failures}
Ticks  == {o.ticks : o \in Timed}
Weigh(f(_), S) == SumFunction([o \in S |-> Total(o) * f(o)])
HowMany(S) == SumFunction([o \in S |-> Total(o)])

\* A benchmark that exits with 0 has printed the truth about what its workers
\* recorded between them, whoever recorded it and whenever they were joined:
\* every counter, the least and the greatest latency, the mean and the variance.
ReportComplete ==
  LET n       == HowMany(Timed)
      sum     == Weigh(LAMBDA o : o.ticks, Timed)
      squares == Weigh(LAMBDA o : o.ticks * o.ticks, Timed)
  IN  ret = 0 /\ config.mode # "cli" =>
        /\ \A k \in Counters :
             report.counter[k] = Weigh(LAMBDA o : Adds(o.kind, k), Outcomes)
        /\ report.counter["requests"] = n
        /\ Ticks # {} => /\ report.min = Min(Ticks)
                         /\ report.max = Max(Ticks)
                         /\ report.mean[1] * n = sum * report.mean[2]
        /\ n > 1 => report.variance = <<n * squares - sum * sum, n * n>>

\* The slot of a latency is this wide.
Resolution(t) == IF t < FineMax THEN Unit ELSE CoarseStep * Unit

\* A percentile of the report is that of the latencies of all workers together:
\* the latency that exceeds the rank lies in the slot reported, or, if it is
\* beyond all slots, is no greater than what is reported.
PercentilesSound ==
  ret = 0 /\ config.mode # "cli" =>
    \A p \in Percentiles : \A t \in Ticks :
      LET rank == (HowMany(Timed) * p) \div 1000
          q    == report.at[p]
      IN  /\ HowMany({o \in Timed : o.ticks < t}) <= rank
          /\ HowMany({o \in Timed : o.ticks <= t}) > rank
          => IF t < SlotStart(FineSlots + CoarseSlots)
               THEN q <= t /\ t < q + Resolution(t)
               ELSE t <= q /\ q \in Ticks

\* The origin an item of the export asks for.
Named(item) ==
  IF config.hasTarget /\ Parses(config.target) THEN Origin(ParseUrl(config.target))
  ELSE Origin(ParseUrl(item.url))

\* If all requests are for one origin, of the target or of each of them, they are
\* all sent to its address, with TLS if its scheme says so, and with its name in
\* the Host line unless the script gives another.
GoesWhereNamed ==
  workers # <<>> /\ config.mode # "async" =>
    \A k \in DOMAIN Items :
      LET named == Named(Items[k])
          line  == config.requests[k].host
      IN  (\A j \in DOMAIN Items : Named(Items[j]) = named) =>
            /\ config.addr = <<named[2], named[3]>>
            /\ IsTls(config.url) = (named[1] = "https")
            /\ config.host = "" =>
                 /\ line[1] = named[2]
                 /\ \/ line[2] = named[3]
                    \/ line[2] = 0 /\ named[3] = DefaultPort(named[1])

\* No thread is left when the program frees what the threads use; and it ends
\* with an error only before the first of them exists.
FreedAfterUse ==
  /\ ret # Running => \A i \in Threads : workers[i].state = "ended"
  /\ ret = 1 => workers = <<>>

\* Every run ends, whatever the script asks for, if the time of a worker passes.
Terminates == <>~Alive
=============================================================================
