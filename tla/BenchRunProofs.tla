--------------------------- MODULE BenchRunProofs ---------------------------
(***************************************************************************)
(* Proofs about BenchRun, for every script, every number of threads and    *)
(* connections and every resolution of the histogram: how the connections  *)
(* are dealt, where the requests go, that nothing is freed too early, and  *)
(* that what the workers record, each on its own, is added up to the truth *)
(* about all of them.                                                      *)
(***************************************************************************)
EXTENDS BenchRun, SumProofs

-----------------------------------------------------------------------------
(* The inductive invariant *)

Preparing == {"start", "evaluate", "configure", "extract", "resolve"}
Looping   == {"launch", "join", "merge"}

\* Before the workers are allocated there is none; the loops over them begin
\* at the first, and the join and what comes after leave ended threads behind.
LoopOK ==
  /\ phase \in Preparing => workers = <<>> /\ index = 0 /\ ret = Running
  /\ phase \in Looping => index \in Threads /\ ret = Running
  /\ phase = "join" => \A i \in Threads : i < index => workers[i].state = "ended"
  /\ phase = "merge" => \A i \in Threads : workers[i].state = "ended"
  /\ phase = "crashed" => ret = Running
  /\ ret = 1 => workers = <<>>
  /\ ret = 0 => \A i \in Threads : workers[i].state = "ended"

IInv == TypeOK /\ LoopOK

-----------------------------------------------------------------------------
(* Lemmas about the operators *)

\* The loops of js_bench_run count through the workers and then begin again.
LEMMA NextIndex ==
  ASSUME NEW n \in Nat \ {0}, NEW i \in 0 .. n - 1
  PROVE  /\ i + 1 < n => (i + 1) % n = i + 1
         /\ i + 1 = n => (i + 1) % n = 0
  OBVIOUS

\* The smaller of two numbers is one of them and no greater than the other.
LEMMA LowerOne ==
  ASSUME NEW a \in Nat \ {0}, NEW b \in Nat \ {0}
  PROVE  /\ Lower(a, b) \in Nat \ {0}
         /\ Lower(a, b) <= a /\ Lower(a, b) <= b
  BY DEF Lower

\* The workers are numbered from 0, and Cardinality counts them.
LEMMA ThreadCount ==
  ASSUME TypeOK
  PROVE  /\ Cardinality(Threads) \in Nat
         /\ Threads = 0 .. Cardinality(Threads) - 1
<1>1. Lower(config.threads, config.connections) \in Nat
  BY LowerOne DEF TypeOK
<1>2. PICK n \in 0 .. Lower(config.threads, config.connections) : Threads = 0 .. n - 1
  BY <1>1 DEF TypeOK
<1>3. Cardinality(0 .. n - 1) = n
  <2>1. 0 <= n - 1 => Cardinality(0 .. n - 1) = n
    BY <1>1, FS_Interval
  <2>2. n = 0 => Cardinality(0 .. n - 1) = n
    BY FS_EmptySet
  <2> QED BY <2>1, <2>2, <1>1
<1> QED BY <1>1, <1>2, <1>3

\* Division, and a product that grows with its factor.
LEMMA Quotient ==
  ASSUME NEW a \in Nat, NEW b \in Nat \ {0}
  PROVE  /\ a \div b \in Nat
         /\ (a \div b) * b <= a
         /\ a < (a \div b) * b + b
  OBVIOUS

LEMMA FactorLess ==
  ASSUME NEW q \in Nat, NEW n \in Nat, NEW b \in Nat \ {0}, q * b < n * b
  PROVE  q < n
<1>1. ASSUME q >= n PROVE q * b >= n * b
  <2>1. PICK d \in Nat : q = n + d
    <3>1. q - n \in Nat /\ q = n + (q - n)
      BY <1>1
    <3> QED BY <3>1
  <2>2. d * b \in Nat /\ n * b \in Nat
    OBVIOUS
  <2>3. (n + d) * b = n * b + d * b
    OBVIOUS
  <2> QED BY <2>1, <2>2, <2>3
<1> QED BY <1>1

\* A latency is counted in the slot it lies in, or beyond all slots if it is
\* greater than any of them holds.
LEMMA SlotHolds ==
  ASSUME NEW t \in Nat
  PROVE  LET i == SlotOf(t) IN
         /\ i = Over <=> t >= SlotStart(FineSlots + CoarseSlots)
         /\ i # Over => /\ i \in HistSlots
                        /\ SlotStart(i) <= t
                        /\ t < SlotStart(i) + Resolution(t)
<1> DEFINE step   == CoarseStep * Unit
           fine   == t \div Unit
           coarse == (t - FineMax) \div step
<1>1. Unit \in Nat \ {0} /\ FineSlots \in Nat /\ CoarseSlots \in Nat /\ CoarseStep \in Nat \ {0}
  BY UnitAssumption, SlotsAssumption, StepAssumption
<1>2. step \in Nat \ {0}
  BY <1>1
<1>3. FineMax \in Nat /\ FineMax = FineSlots * Unit
  BY <1>1 DEF FineMax
<1>4. CoarseSlots * step \in Nat
  BY <1>1, <1>2
<1>5. SlotStart(FineSlots + CoarseSlots) = FineMax + CoarseSlots * step
  BY <1>1 DEF SlotStart
<1>6. CASE t < FineMax
  <2>1. fine \in Nat /\ fine * Unit <= t /\ t < fine * Unit + Unit
    BY <1>1, Quotient
  <2>2. fine < FineSlots
    <3>1. fine * Unit < FineSlots * Unit
      BY <1>1, <1>3, <1>6, <2>1
    <3> QED BY <3>1, <1>1, <2>1, FactorLess
  <2>3. SlotOf(t) = fine /\ Resolution(t) = Unit
    BY <1>6 DEF SlotOf, Resolution
  <2>4. SlotStart(fine) = fine * Unit
    BY <2>2 DEF SlotStart
  <2>5. fine \in HistSlots /\ fine # Over
    BY <1>1, <2>1, <2>2 DEF HistSlots, Over
  <2>6. t < FineMax + CoarseSlots * step
    BY <1>3, <1>4, <1>6
  <2> QED BY <1>3, <1>4, <1>5, <2>1, <2>3, <2>4, <2>5, <2>6
<1>7. CASE t >= FineMax
  <2>1. coarse \in Nat /\ coarse * step <= t - FineMax /\ t - FineMax < coarse * step + step
    <3>1. t - FineMax \in Nat
      BY <1>3, <1>7
    <3> HIDE DEF step
    <3> QED BY <3>1, <1>2, Quotient
  <2>2. Resolution(t) = step
    BY <1>3, <1>7 DEF Resolution
  <2>3. CASE coarse >= CoarseSlots
    <3>1. SlotOf(t) = Over
      BY <1>3, <1>7, <2>3 DEF SlotOf
    <3>2. coarse * step >= CoarseSlots * step
      <4>1. ~(coarse * step < CoarseSlots * step)
        <5> HIDE DEF step, coarse
        <5> QED BY <1>1, <1>2, <2>1, <2>3, FactorLess
      <4> HIDE DEF step, coarse
      <4> QED BY <4>1, <1>1, <1>2, <2>1
    <3>3. t >= FineMax + CoarseSlots * step
      <4> HIDE DEF step, coarse
      <4>1. coarse * step \in Nat
        BY <1>2, <2>1
      <4> QED BY <1>3, <1>4, <2>1, <3>2, <4>1
    <3> QED BY <1>5, <3>1, <3>3
  <2>4. CASE coarse < CoarseSlots
    <3>1. SlotOf(t) = FineSlots + coarse
      BY <1>1, <1>3, <1>7, <2>1, <2>4 DEF SlotOf
    <3>2. FineSlots + coarse \in HistSlots /\ FineSlots + coarse # Over
      <4> HIDE DEF coarse
      <4> QED BY <1>1, <2>1, <2>4 DEF HistSlots, Over
    <3>3. SlotStart(FineSlots + coarse) = FineMax + coarse * step
      <4> HIDE DEF coarse
      <4> QED BY <1>1, <2>1 DEF SlotStart
    <3>4. coarse * step + step <= CoarseSlots * step
      <4> HIDE DEF step, coarse
      <4>1. (CoarseSlots - coarse - 1) * step >= 0
        BY <1>1, <1>2, <2>1, <2>4
      <4>2. (CoarseSlots - coarse - 1) * step = CoarseSlots * step - coarse * step - step
        BY <1>1, <1>2, <2>1, <2>4
      <4>3. coarse * step \in Nat
        BY <1>2, <2>1
      <4> QED BY <1>2, <1>4, <4>1, <4>2, <4>3
    <3>5. /\ FineMax + coarse * step <= t
          /\ t < FineMax + coarse * step + step
          /\ t < FineMax + CoarseSlots * step
      <4> HIDE DEF step, coarse
      <4>1. coarse * step \in Nat
        BY <1>2, <2>1
      <4> QED BY <1>2, <1>3, <1>4, <2>1, <3>4, <4>1
    <3>6. ~(t >= SlotStart(FineSlots + CoarseSlots))
      <4> HIDE DEF step, coarse
      <4> QED BY <1>3, <1>4, <1>5, <3>5
    <3> HIDE DEF step, coarse
    <3> QED BY <2>2, <3>1, <3>2, <3>3, <3>5, <3>6
  <2> QED
    <3> HIDE DEF coarse
    <3> QED BY <1>1, <2>1, <2>3, <2>4
<1> QED BY <1>3, <1>6, <1>7

\* The statistics a worker starts with, and recording into them.
LEMMA StatsTyped ==
  /\ StatsInit \in StatsType
  /\ ZeroStats \in StatsType
  /\ \A s \in StatsType, o \in Outcomes : Recorded(s, o) \in StatsType
<1>1. HistInit \in HistType
  BY DEF HistInit, HistType, Never
<1>2. StatsInit \in StatsType
  BY <1>1 DEF StatsInit, StatsType
<1>3. ZeroStats \in StatsType
  BY <1>1 DEF ZeroStats, StatsInit, StatsType, HistType, HistInit
<1>4. ASSUME NEW h \in HistType, NEW t \in Nat
      PROVE  HistAdd(h, t) \in HistType
  <2>1. h.count + 1 \in Nat /\ h.over + 1 \in Nat /\ h.sum + t \in Nat
        /\ Lower(h.min, t) \in Nat /\ Higher(h.max, t) \in Nat
    BY DEF HistType, Lower, Higher
  <2>2. h.sum_sq + t * t \in Nat
    <3>1. t * t \in Nat
      OBVIOUS
    <3>2. h.sum_sq \in Nat
      BY DEF HistType
    <3> QED BY <3>1, <3>2
  <2>3. h.slots \in [HistSlots -> Nat] /\ h.over \in Nat
    BY DEF HistType
  <2>4. SlotOf(t) # Over => SlotOf(t) \in HistSlots
    BY SlotHolds
  <2>5. \A i \in HistSlots : [h.slots EXCEPT ![i] = @ + 1] \in [HistSlots -> Nat]
    BY <2>3
  <2> QED BY <2>1, <2>2, <2>3, <2>4, <2>5 DEF HistAdd, HistType
<1>5. ASSUME NEW s \in StatsType, NEW o \in Outcomes
      PROVE  Recorded(s, o) \in StatsType
  <2>1. \A k \in Counters : Adds(o.kind, k) \in Nat
    BY OutcomesAssumption DEF Adds
  <2>2. Recorded(s, o).counter \in [Counters -> Nat]
    BY <2>1 DEF Recorded, StatsType
  <2>3. Recorded(s, o).latency \in HistType
    BY <1>4, OutcomesAssumption DEF Recorded, StatsType
  <2> QED BY <2>2, <2>3 DEF Recorded, StatsType
<1> QED BY <1>2, <1>3, <1>5

-----------------------------------------------------------------------------
(* The actions of the main thread before the workers exist *)

LEMMA InitKeeps == Init => IInv
<1> SUFFICES ASSUME Init PROVE IInv
  OBVIOUS
<1>1. Threads = {} /\ Threads = 0 .. 0 - 1 /\ Cardinality(Threads) = 0
  BY FS_EmptySet DEF Init, Threads
<1>2. Lower(config.threads, config.connections) = 1
  BY DEF Init, ConfigInit, Lower
<1>3. TypeOK
  <2>1. Threads \in {0 .. n - 1 : n \in 0 .. Lower(config.threads, config.connections)}
    BY <1>1, <1>2
  <2>2. workers \in [Threads -> [state : {"none", "created", "running", "ended"},
                                 conn_count : Nat, stats : StatsType]]
    BY <1>1 DEF Init
  <2>3. samples \in [Threads -> [Outcomes -> Nat]]
    BY <1>1 DEF Init
  <2>4. DOMAIN config = DOMAIN ConfigInit
    BY DEF Init
  <2>5. config.mode = "cli" /\ config.connections = 1 /\ config.threads = 1
    BY DEF Init, ConfigInit
  <2>6. index \in 0 .. Cardinality(Threads) /\ ret \in {Running, 0, 1}
    BY <1>1 DEF Init
  <2>7. phase = "start" /\ script \in Scripts
    BY DEF Init
  <2> QED BY <2>1, <2>2, <2>3, <2>4, <2>5, <2>6, <2>7 DEF TypeOK
<1>4. LoopOK
  BY DEF Init, LoopOK, Looping, Running
<1> QED BY <1>3, <1>4 DEF IInv

\* What Goto leaves as it is, and what is asked of the new configuration.
LEMMA GotoKeeps ==
  ASSUME IInv, NEW next \in Preparing, phase \in Preparing, Goto(next),
         DOMAIN config' = DOMAIN ConfigInit,
         config.mode' \in {"cli", "string", "async", "array", "object"},
         config.connections' \in Nat \ {0}, config.threads' \in Nat \ {0}
  PROVE  IInv'
<1>1. workers = <<>> /\ workers' = workers /\ Threads' = Threads /\ Threads = {}
  BY DEF IInv, LoopOK, Goto, Threads
<1>2. Threads' \in {0 .. n - 1 : n \in 0 .. Lower(config.threads, config.connections)'}
  <2>1. Threads' = 0 .. 0 - 1
    BY <1>1
  <2>2. Lower(config.threads, config.connections)' \in Nat
    BY DEF Lower
  <2> QED BY <2>1, <2>2
<1>3. TypeOK'
  BY <1>1, <1>2 DEF IInv, TypeOK, Goto, Preparing, results
<1>4. LoopOK'
  BY <1>1 DEF IInv, LoopOK, Goto, Preparing, Looping, results, Running
<1> QED BY <1>3, <1>4 DEF IInv

\* A run that ends before the workers exist.
LEMMA ExitKeeps ==
  ASSUME IInv, phase \in Preparing, NEW status \in {0, 1}, Exit(status)
  PROVE  IInv'
<1>1. workers = <<>> /\ workers' = workers /\ Threads' = Threads /\ Threads = {}
  BY DEF IInv, LoopOK, Exit, Threads
<1>2. TypeOK'
  BY <1>1 DEF IInv, TypeOK, Exit
<1>3. LoopOK'
  BY <1>1 DEF IInv, LoopOK, Exit, Looping, Preparing
<1> QED BY <1>2, <1>3 DEF IInv

LEMMA StartKeeps == ASSUME IInv, Start PROVE IInv'
<1>1. phase \in Preparing /\ "evaluate" \in Preparing
  BY DEF Start, Preparing
<1>2. CASE Goto("evaluate") /\ UNCHANGED config
  BY <1>1, <1>2, GotoKeeps DEF IInv, TypeOK
<1>3. CASE Exit(1)
  BY <1>1, <1>3, ExitKeeps
<1> QED BY <1>2, <1>3 DEF Start

LEMMA EvaluateKeeps == ASSUME IInv, Evaluate PROVE IInv'
<1>1. phase \in Preparing /\ "configure" \in Preparing
  BY DEF Evaluate, Preparing
<1>2. CASE Goto("configure") /\ UNCHANGED config
  BY <1>1, <1>2, GotoKeeps DEF IInv, TypeOK
<1>3. CASE Exit(1)
  BY <1>1, <1>3, ExitKeeps
<1> QED BY <1>2, <1>3 DEF Evaluate

LEMMA ConfigureKeeps == ASSUME IInv, Configure PROVE IInv'
<1>1. phase \in Preparing
  BY DEF Configure, Preparing
<1>2. CASE Exit(0)
  BY <1>1, <1>2, ExitKeeps
<1>3. CASE ModeOf(script.default.type) # "cli" /\ ~Exit(0)
  <2> DEFINE mode == ModeOf(script.default.type)
  <2>1. mode \in {"string", "async", "array", "object"}
    BY <1>3, ScriptsAssumption DEF IInv, TypeOK, ModeOf
  <2>2. PICK next \in Preparing : Goto(next)
    BY <1>3 DEF Configure, Preparing
  <2>3. config' =
          [config EXCEPT
             !.mode = mode,
             !.connections = Positive(script.bench.connections, @),
             !.threads = Positive(script.bench.threads, @),
             !.duration = Duration(script.bench.duration),
             !.hasTarget = script.bench.hasTarget,
             !.target = script.bench.target,
             !.host = script.bench.host,
             !.url = IF mode = "async" /\ script.bench.hasTarget
                       THEN ParseUrl(script.bench.target) ELSE @]
    BY <1>3 DEF Configure
  <2>4. DOMAIN config' = DOMAIN ConfigInit /\ config.mode' = mode
    BY <2>3 DEF IInv, TypeOK, ConfigInit
  <2>5. /\ config.connections' = Positive(script.bench.connections, config.connections)
        /\ config.threads' = Positive(script.bench.threads, config.threads)
    BY <2>3 DEF IInv, TypeOK, ConfigInit
  <2>6. config.connections' \in Nat \ {0} /\ config.threads' \in Nat \ {0}
    BY <2>5, ScriptsAssumption DEF Positive, IInv, TypeOK
  <2> HIDE DEF mode
  <2> QED BY <1>1, <2>1, <2>2, <2>4, <2>6, GotoKeeps
<1> QED BY <1>2, <1>3 DEF Configure

LEMMA ExtractKeeps == ASSUME IInv, Extract PROVE IInv'
<1>1. phase \in Preparing /\ "extract" \in Preparing
  BY DEF Extract, Preparing
<1>2. CASE Exit(1)
  BY <1>1, <1>2, ExitKeeps
<1>3. CASE Goto("extract") /\ ~Exit(1)
  <2>1. PICK requests, url : config' = [config EXCEPT !.requests = requests, !.url = url]
    BY <1>3 DEF Extract
  <2>2. /\ DOMAIN config' = DOMAIN ConfigInit /\ config.mode' = config.mode
        /\ config.connections' = config.connections /\ config.threads' = config.threads
    BY <2>1 DEF IInv, TypeOK, ConfigInit
  <2> QED BY <1>1, <1>3, <2>2, GotoKeeps DEF IInv, TypeOK
<1> QED BY <1>2, <1>3 DEF Extract

LEMMA ExtractedKeeps == ASSUME IInv, Extracted PROVE IInv'
<1>1. phase \in Preparing /\ "resolve" \in Preparing
  BY DEF Extracted, Preparing
<1>2. CASE Goto("resolve") /\ UNCHANGED config
  BY <1>1, <1>2, GotoKeeps DEF IInv, TypeOK
<1>3. CASE Exit(1)
  BY <1>1, <1>3, ExitKeeps
<1> QED BY <1>2, <1>3 DEF Extracted

-----------------------------------------------------------------------------
(* The actions of the main thread with the workers *)

LEMMA ResolveKeeps == ASSUME IInv, Resolve PROVE IInv'
<1> DEFINE n     == Lower(config.threads, config.connections)
           share == Deal(n, config.connections)
<1>1. phase \in Preparing
  BY DEF Resolve, Preparing
<1>2. n \in Nat \ {0} /\ config.connections \in Nat
  BY LowerOne DEF IInv, TypeOK
<1>3. CASE Exit(1)
  BY <1>1, <1>3, ExitKeeps
<1>4. CASE ~Exit(1)
  <2>1. /\ config' = [config EXCEPT !.duration = RunFor(@),
                                    !.addr = <<Dialled.host, Dialled.port>>]
        /\ workers' = [i \in DOMAIN share |->
                         [state |-> "none", conn_count |-> share[i], stats |-> ZeroStats]]
        /\ samples' = [i \in DOMAIN share |-> [o \in Outcomes |-> 0]]
        /\ phase' = "launch"
        /\ UNCHANGED <<script, index, results>>
    BY <1>4 DEF Resolve
  <2>2. DOMAIN share = 0 .. n - 1 /\ \A i \in 0 .. n - 1 : share[i] \in Nat
    <3>1. config.connections \div n \in Nat
      BY <1>2, Quotient
    <3> HIDE DEF n
    <3> QED BY <1>2, <3>1 DEF Deal
  <2>3. Threads' = 0 .. n - 1
    BY <2>1, <2>2 DEF Threads
  <2>4. Cardinality(Threads') = n
    BY <1>2, <2>3, FS_Interval
  <2>5. workers' \in [Threads' -> [state : {"none", "created", "running", "ended"},
                                  conn_count : Nat, stats : StatsType]]
    <3> HIDE DEF share
    <3> QED BY <2>1, <2>2, <2>3, StatsTyped
  <2>6. samples' \in [Threads' -> [Outcomes -> Nat]]
    BY <2>1, <2>2, <2>3
  <2>7. /\ DOMAIN config' = DOMAIN ConfigInit /\ config.mode' = config.mode
        /\ config.connections' = config.connections /\ config.threads' = config.threads
    BY <2>1 DEF IInv, TypeOK, ConfigInit
  <2>8. Lower(config.threads, config.connections)' = n
    BY <2>7 DEF Lower
  <2>9. Threads' \in {0 .. k - 1 : k \in 0 .. Lower(config.threads, config.connections)'}
    BY <1>2, <2>3, <2>8
  <2>10. index' = 0 /\ ret' = Running
    BY <1>1, <2>1 DEF IInv, LoopOK, results
  <2>11. TypeOK'
    <3> HIDE DEF n, share
    <3>1. config.mode' \in {"cli", "string", "async", "array", "object"}
      BY <2>7 DEF IInv, TypeOK
    <3>2. config.connections' \in Nat \ {0} /\ config.threads' \in Nat \ {0}
      BY <2>7 DEF IInv, TypeOK
    <3>3. phase' = "launch" /\ script' \in Scripts
      BY <2>1 DEF IInv, TypeOK
    <3>4. index' \in 0 .. Cardinality(Threads') /\ ret' \in {Running, 0, 1}
      BY <1>2, <2>4, <2>10
    <3> QED BY <2>5, <2>6, <2>7, <2>9, <3>1, <3>2, <3>3, <3>4 DEF TypeOK
  <2>12. LoopOK'
    BY <1>2, <2>1, <2>3, <2>10 DEF LoopOK, Preparing, Looping, Running
  <2> QED BY <2>11, <2>12 DEF IInv
<1> QED BY <1>3, <1>4

\* What Advance makes of the index.
LEMMA AdvanceCounts ==
  ASSUME IInv, phase \in Looping, NEW next, Advance(next)
  PROVE  /\ index \in 0 .. Cardinality(Threads) - 1
         /\ index' \in 0 .. Cardinality(Threads) - 1
         /\ \/ index' = index + 1 /\ phase' = phase
            \/ index' = 0 /\ phase' = next /\ index + 1 = Cardinality(Threads)
<1>1. index \in 0 .. Cardinality(Threads) - 1 /\ Cardinality(Threads) \in Nat \ {0}
  BY ThreadCount DEF IInv, LoopOK
<1>2. /\ index + 1 < Cardinality(Threads) => (index + 1) % Cardinality(Threads) = index + 1
      /\ index + 1 = Cardinality(Threads) => (index + 1) % Cardinality(Threads) = 0
  BY <1>1, NextIndex
<1> HIDE DEF Threads
<1> QED BY <1>1, <1>2 DEF Advance

LEMMA LaunchKeeps == ASSUME IInv, Launch PROVE IInv'
<1>1. phase = "launch" /\ phase \in Looping /\ Advance("join")
  BY DEF Launch, Looping
<1>2. /\ index \in 0 .. Cardinality(Threads) - 1
      /\ index' \in 0 .. Cardinality(Threads) - 1
      /\ \/ phase' = "launch"
         \/ index' = 0 /\ phase' = "join"
  BY <1>1, AdvanceCounts
<1>3. /\ workers' \in [Threads -> [state : {"none", "created", "running", "ended"},
                                   conn_count : Nat, stats : StatsType]]
      /\ Threads' = Threads
  <2>1. CASE UNCHANGED workers
    BY <2>1 DEF IInv, TypeOK, Threads
  <2>2. CASE workers' = [workers EXCEPT ![index].state = "created"]
    BY <2>2 DEF IInv, TypeOK, Threads
  <2> QED BY <2>1, <2>2 DEF Launch
<1>4. Threads = 0 .. Cardinality(Threads) - 1 /\ Cardinality(Threads) \in Nat
  BY ThreadCount DEF IInv
<1>5. TypeOK'
  BY <1>2, <1>3, <1>4 DEF IInv, TypeOK, Launch, results
<1>6. LoopOK'
  <2>1. ret' = Running /\ index' \in Threads'
    BY <1>1, <1>2, <1>3, <1>4 DEF IInv, LoopOK, Launch, results
  <2>2. phase' = "join" => \A i \in Threads' : ~(i < index')
    BY <1>2, <1>3, <1>4
  <2> QED BY <1>2, <2>1, <2>2 DEF LoopOK, Looping, Preparing, Running
<1> QED BY <1>5, <1>6 DEF IInv

LEMMA JoinKeeps == ASSUME IInv, Join PROVE IInv'
<1>1. phase = "join" /\ phase \in Looping /\ UNCHANGED <<script, config, workers, results, samples>>
  BY DEF Join, Looping
<1>2. Threads' = Threads /\ Threads = 0 .. Cardinality(Threads) - 1 /\ Cardinality(Threads) \in Nat
  BY <1>1, ThreadCount DEF IInv, Threads
<1>3. index \in Threads /\ ret = Running
  BY <1>1 DEF IInv, LoopOK
<1>4. CASE Joined(workers[index]) /\ Advance("merge")
  <2>1. /\ index \in 0 .. Cardinality(Threads) - 1
        /\ index' \in 0 .. Cardinality(Threads) - 1
        /\ \/ index' = index + 1 /\ phase' = "join"
           \/ index' = 0 /\ phase' = "merge" /\ index + 1 = Cardinality(Threads)
    BY <1>1, <1>4, AdvanceCounts
  <2>2. \A i \in Threads : i < index + 1 => workers[i].state = "ended"
    BY <1>1, <1>2, <1>3, <1>4 DEF IInv, LoopOK, Joined
  <2>3. TypeOK'
    BY <1>1, <1>2, <2>1 DEF IInv, TypeOK, results
  <2>4. LoopOK'
    <3>1. ret' = Running /\ index' \in Threads' /\ workers' = workers
      BY <1>1, <1>2, <1>3, <2>1 DEF results
    <3>2. phase' = "join" => \A i \in Threads' : i < index' => workers'[i].state = "ended"
      BY <1>2, <2>1, <2>2, <3>1
    <3>3. phase' = "merge" => \A i \in Threads' : workers'[i].state = "ended"
      BY <1>2, <2>1, <2>2, <3>1
    <3> QED BY <2>1, <3>1, <3>2, <3>3 DEF LoopOK, Looping, Preparing, Running
  <2> QED BY <2>3, <2>4 DEF IInv
<1>5. CASE phase' = "crashed" /\ UNCHANGED index
  <2>1. TypeOK'
    BY <1>1, <1>2, <1>5 DEF IInv, TypeOK, results
  <2>2. LoopOK'
    BY <1>1, <1>3, <1>5 DEF LoopOK, Looping, Preparing, results, Running
  <2> QED BY <2>1, <2>2 DEF IInv
<1> QED BY <1>4, <1>5 DEF Join

LEMMA MergeKeeps == ASSUME IInv, Merge PROVE IInv'
<1>1. phase = "merge" /\ phase \in Looping /\ UNCHANGED <<script, config, workers, samples>>
  BY DEF Merge, Looping
<1>2. Threads' = Threads /\ Threads = 0 .. Cardinality(Threads) - 1 /\ Cardinality(Threads) \in Nat
  BY <1>1, ThreadCount DEF IInv, Threads
<1>3. index \in Threads /\ ret = Running /\ \A i \in Threads : workers[i].state = "ended"
  BY <1>1 DEF IInv, LoopOK
<1>4. /\ index' \in 0 .. Cardinality(Threads) - 1
      /\ phase' \in {"merge", "exited"}
  BY <1>1, AdvanceCounts DEF Merge
<1>5. IF phase' = "exited" THEN ret' = 0 ELSE ret' = ret
  BY DEF Merge
<1>6. TypeOK'
  BY <1>1, <1>2, <1>4, <1>5 DEF IInv, TypeOK
<1>7. LoopOK'
  <2>1. \A i \in Threads' : workers'[i].state = "ended"
    BY <1>1, <1>2, <1>3
  <2>2. ret' \in {Running, 0} /\ (phase' = "merge" => ret' = Running)
    BY <1>3, <1>4, <1>5
  <2> QED BY <1>2, <1>4, <2>1, <2>2 DEF LoopOK, Looping, Preparing, Running
<1> QED BY <1>6, <1>7 DEF IInv

-----------------------------------------------------------------------------
(* The actions of the workers *)

\* A worker that has not ended, and cannot be changed unless it has not.
LEMMA WorkerStepKeeps ==
  ASSUME IInv, Alive, NEW i \in Threads, workers[i].state \in {"created", "running"},
         NEW w \in [state : {"none", "created", "running", "ended"},
                    conn_count : Nat, stats : StatsType],
         workers' = [workers EXCEPT ![i] = w],
         UNCHANGED <<phase, script, config, index, results>>,
         samples' \in [Threads -> [Outcomes -> Nat]]
  PROVE  IInv'
<1>1. Threads' = Threads
  BY DEF Threads, IInv, TypeOK
<1>2. workers' \in [Threads' -> [state : {"none", "created", "running", "ended"},
                                conn_count : Nat, stats : StatsType]]
  BY <1>1 DEF IInv, TypeOK
<1>3. TypeOK'
  BY <1>1, <1>2 DEF IInv, TypeOK, results
<1>4. \A j \in Threads : workers[j].state = "ended" => workers'[j] = workers[j]
  BY DEF IInv, TypeOK
<1>5. phase \notin Preparing /\ ret = Running
  <2>1. phase \notin Preparing
    BY DEF IInv, LoopOK, Threads
  <2>2. phase \in Looping
    BY <2>1 DEF IInv, TypeOK, Alive, Preparing, Looping
  <2> QED BY <2>1, <2>2 DEF IInv, LoopOK
<1>6. LoopOK'
  BY <1>1, <1>4, <1>5 DEF IInv, LoopOK, results, Running
<1> QED BY <1>3, <1>6 DEF IInv

LEMMA WorkerKeeps ==
  ASSUME IInv, Alive, NEW i \in Threads, WorkerNext(i)
  PROVE  IInv'
<1> DEFINE W == [state : {"none", "created", "running", "ended"},
                 conn_count : Nat, stats : StatsType]
<1>1. workers \in [Threads -> W] /\ workers[i] \in W /\ samples \in [Threads -> [Outcomes -> Nat]]
  BY DEF IInv, TypeOK
<1>2. CASE Begin(i)
  <2>1. PICK state \in {"running", "ended"} :
          workers' = [workers EXCEPT ![i].state = state, ![i].stats = StatsInit]
    BY <1>2 DEF Begin
  <2> DEFINE w == [workers[i] EXCEPT !.state = state, !.stats = StatsInit]
  <2>2. w \in W
    BY <1>1, StatsTyped
  <2>3. workers' = [workers EXCEPT ![i] = w]
    BY <1>1, <2>1
  <2> HIDE DEF w
  <2> QED BY <1>1, <1>2, <2>2, <2>3, WorkerStepKeeps DEF Begin
<1>3. ASSUME NEW o \in Outcomes, Record(i, o) PROVE IInv'
  <2> DEFINE w == [workers[i] EXCEPT !.stats = Recorded(@, o)]
  <2>1. Recorded(workers[i].stats, o) \in StatsType
    BY <1>1, StatsTyped
  <2>2. w \in W
    BY <1>1, <2>1
  <2>3. workers' = [workers EXCEPT ![i] = w]
    BY <1>1, <1>3 DEF Record
  <2>4. samples' \in [Threads -> [Outcomes -> Nat]]
    BY <1>1, <1>3 DEF Record
  <2> HIDE DEF w
  <2> QED BY <1>3, <2>2, <2>3, <2>4, WorkerStepKeeps DEF Record
<1>4. CASE GiveUp(i)
  <2> DEFINE w == [workers[i] EXCEPT !.state = "ended"]
  <2>1. w \in W /\ workers' = [workers EXCEPT ![i] = w]
    BY <1>1, <1>4 DEF GiveUp
  <2> HIDE DEF w
  <2> QED BY <1>1, <1>4, <2>1, WorkerStepKeeps DEF GiveUp
<1> QED BY <1>2, <1>3, <1>4 DEF WorkerNext, TimeOver

-----------------------------------------------------------------------------
(* The theorems *)

LEMMA NextKeeps == IInv /\ [Next]_vars => IInv'
<1> SUFFICES ASSUME IInv, [Next]_vars PROVE IInv'
  OBVIOUS
<1>1. CASE MainNext
  BY <1>1, StartKeeps, EvaluateKeeps, ConfigureKeeps, ExtractKeeps, ExtractedKeeps,
     ResolveKeeps, LaunchKeeps, JoinKeeps, MergeKeeps DEF MainNext
<1>2. CASE Alive /\ \E i \in Threads : WorkerNext(i)
  BY <1>2, WorkerKeeps
<1>3. CASE UNCHANGED vars
  BY <1>3 DEF vars, results, IInv, TypeOK, LoopOK, Threads
<1> QED BY <1>1, <1>2, <1>3 DEF Next, Finished

LEMMA IInvHolds == Spec => []IInv
BY InitKeeps, NextKeeps, PTL DEF Spec

\* The type invariant holds: whatever the script says there is at least one
\* connection and one thread, and no more threads than connections.
THEOREM TypeCorrect == Spec => []TypeOK
<1>1. IInv => TypeOK
  BY DEF IInv
<1> QED BY <1>1, IInvHolds, PTL

\* No thread is left when the program frees what the threads use, however many
\* there are and in whatever order they end.
THEOREM NothingFreedTooEarly == Spec => []FreedAfterUse
<1>1. IInv => FreedAfterUse
  BY DEF IInv, TypeOK, LoopOK, FreedAfterUse, Threads, Running
<1> QED BY <1>1, IInvHolds, PTL

-----------------------------------------------------------------------------
(* How the connections are dealt *)

\* The shares of n threads in no fewer connections.
LEMMA DealIsEven ==
  ASSUME NEW n \in Nat \ {0}, NEW c \in Nat, n <= c,
         NEW i \in 0 .. n - 1, NEW j \in 0 .. n - 1
  PROVE  /\ Deal(n, c)[i] > 0
         /\ Deal(n, c)[i] <= Deal(n, c)[j] + 1
<1> DEFINE q == c \div n
<1>1. q \in Nat /\ q * n <= c /\ c < q * n + n
  BY Quotient
<1>2. q > 0
  <2>1. SUFFICES ASSUME q = 0 PROVE FALSE
    BY <1>1
  <2>2. q * n = 0
    <3> HIDE DEF q
    <3> QED BY <2>1
  <2> HIDE DEF q
  <2> QED BY <1>1, <2>2
<1>3. \A k \in 0 .. n - 1 : Deal(n, c)[k] \in {q, q + 1}
  <2>1. \A k \in 0 .. n - 1 : Deal(n, c)[k] = q + (IF k < c % n THEN 1 ELSE 0)
    BY DEF Deal
  <2> HIDE DEF q
  <2> QED BY <1>1, <2>1
<1> HIDE DEF q
<1> QED BY <1>1, <1>2, <1>3

\* The threads keep the connections they were dealt.
SharesOK ==
  workers # <<>> =>
    LET n == Lower(config.threads, config.connections)
    IN  /\ Threads = 0 .. n - 1
        /\ \A i \in Threads : workers[i].conn_count = Deal(n, config.connections)[i]

\* A step that leaves the shares alone once there are workers.
LEMMA SharesStay ==
  ASSUME IInv, SharesOK, UNCHANGED config, Threads' = Threads,
         workers' # <<>> => workers # <<>>,
         \A i \in Threads : workers'[i].conn_count = workers[i].conn_count
  PROVE  SharesOK'
<1>1. Lower(config.threads, config.connections)' = Lower(config.threads, config.connections)
  BY DEF Lower
<1>2. Deal(Lower(config.threads, config.connections), config.connections)'
      = Deal(Lower(config.threads, config.connections), config.connections)
  BY <1>1 DEF Deal
<1> QED BY <1>1, <1>2 DEF SharesOK

LEMMA NextKeepsShares == IInv /\ SharesOK /\ [Next]_vars => SharesOK'
<1> SUFFICES ASSUME IInv, SharesOK, [Next]_vars PROVE SharesOK'
  OBVIOUS
<1>1. CASE workers' = <<>>
  BY <1>1 DEF SharesOK
<1>2. CASE Resolve /\ workers' # <<>>
  <2> DEFINE n     == Lower(config.threads, config.connections)
             share == Deal(n, config.connections)
  <2>1. workers = <<>>
    BY <1>2 DEF Resolve, IInv, LoopOK, Preparing
  <2>2. /\ config' = [config EXCEPT !.duration = RunFor(@),
                                    !.addr = <<Dialled.host, Dialled.port>>]
        /\ workers' = [i \in DOMAIN share |->
                         [state |-> "none", conn_count |-> share[i], stats |-> ZeroStats]]
    BY <1>2, <2>1 DEF Resolve, Exit
  <2>3. config.connections' = config.connections /\ config.threads' = config.threads
    BY <2>2 DEF IInv, TypeOK, ConfigInit
  <2>4. n' = n /\ share' = share
    BY <2>3 DEF Lower, Deal
  <2>5. DOMAIN share = 0 .. n - 1
    BY DEF Deal
  <2>6. Threads' = 0 .. n - 1 /\ \A i \in Threads' : workers'[i].conn_count = share[i]
    <3> HIDE DEF share, n
    <3> QED BY <2>2, <2>5 DEF Threads
  <2> QED BY <2>4, <2>6 DEF SharesOK
<1>3. CASE MainNext /\ ~Resolve /\ workers' # <<>>
  <2>1. /\ UNCHANGED config /\ Threads' = Threads
        /\ workers' # <<>> => workers # <<>>
        /\ \A i \in Threads : workers'[i].conn_count = workers[i].conn_count
    <3>1. CASE Start \/ Evaluate \/ Configure \/ Extract \/ Extracted
      <4>1. workers' = workers
        BY <3>1 DEF Start, Evaluate, Configure, Extract, Extracted, Goto, Exit
      <4>2. workers = <<>>
        BY <3>1 DEF Start, Evaluate, Configure, Extract, Extracted, IInv, LoopOK, Preparing
      <4> QED BY <1>3, <4>1, <4>2
    <3>2. CASE Launch
      <4>1. UNCHANGED config /\ workers # <<>> /\ index \in Threads
        BY <3>2 DEF Launch, IInv, LoopOK, Looping, Threads
      <4>2. CASE UNCHANGED workers
        BY <4>1, <4>2 DEF Threads
      <4>3. CASE workers' = [workers EXCEPT ![index].state = "created"]
        BY <4>1, <4>3 DEF IInv, TypeOK, Threads
      <4> QED BY <3>2, <4>2, <4>3 DEF Launch
    <3>3. CASE Join \/ Merge
      BY <3>3 DEF Join, Merge, Threads
    <3> QED BY <1>3, <3>1, <3>2, <3>3 DEF MainNext
  <2> QED BY <2>1, SharesStay
<1>4. ASSUME NEW i \in Threads, WorkerNext(i) PROVE SharesOK'
  <2>1. workers # <<>>
    BY DEF Threads
  <2>2. UNCHANGED config
    BY <1>4 DEF WorkerNext, Begin, Record, GiveUp, TimeOver
  <2>3. /\ Threads' = Threads
        /\ \A j \in Threads : workers'[j].conn_count = workers[j].conn_count
    <3>1. \E w : /\ workers' = [workers EXCEPT ![i] = w]
                  /\ w.conn_count = workers[i].conn_count
      BY <1>4 DEF WorkerNext, Begin, Record, GiveUp, TimeOver, IInv, TypeOK
    <3> QED BY <3>1 DEF Threads
  <2> QED BY <2>1, <2>2, <2>3, SharesStay
<1>5. CASE UNCHANGED vars
  BY <1>5, SharesStay DEF vars, Threads
<1> QED BY <1>1, <1>2, <1>3, <1>4, <1>5 DEF Next, Finished

LEMMA SharesHold == Spec => []SharesOK
<1>1. Init => SharesOK
  BY DEF Init, SharesOK
<1> QED BY <1>1, InitKeeps, NextKeeps, NextKeepsShares, PTL DEF Spec

\* Whatever numbers of connections and threads the script asks for, the shares
\* of the threads are even and none is empty.
THEOREM SharesAreEven == Spec => []EvenShares
<1>1. IInv /\ SharesOK => EvenShares
  <2> SUFFICES ASSUME IInv, SharesOK, workers # <<>> PROVE EvenShares
    BY DEF EvenShares
  <2> DEFINE n == Lower(config.threads, config.connections)
  <2>1. /\ n \in Nat \ {0} /\ config.connections \in Nat
        /\ n <= config.threads /\ n <= config.connections
    BY LowerOne DEF IInv, TypeOK
  <2>2. Threads = 0 .. n - 1
    BY DEF SharesOK
  <2>3. Cardinality(Threads) = n
    BY <2>1, <2>2, FS_Interval
  <2>4. \A i \in Threads : workers[i].conn_count = Deal(n, config.connections)[i]
    BY DEF SharesOK
  <2> HIDE DEF n
  <2> QED BY <2>1, <2>2, <2>3, <2>4, DealIsEven DEF EvenShares
<1> QED BY <1>1, SharesHold, IInvHolds, PTL

-----------------------------------------------------------------------------
(* Where the requests go *)

\* The URL made of an item has the origin of the target, if that is a URL, and
\* else its own.
LEMMA UrlOrigin ==
  ASSUME NEW item, NEW has \in BOOLEAN, NEW target
  PROVE  Origin(RequestUrl(item, has, target)) =
           IF has /\ Parses(target) THEN Origin(ParseUrl(target))
                                    ELSE Origin(ParseUrl(item.url))
<1> DEFINE t == ParseUrl(target)
<1>1. CASE ~has \/ ~Parses(target)
  BY <1>1 DEF RequestUrl
<1>2. CASE has /\ Parses(target) /\ ~IsPath(item.url)
  BY <1>2 DEF RequestUrl, Moved, Origin, Url
<1>3. CASE has /\ Parses(target) /\ IsPath(item.url)
  <2>1. RequestUrl(item, has, target) = ParseUrl(Below(target, item.url))
    BY <1>3 DEF RequestUrl
  <2>2. target.scheme # ""
    BY <1>3 DEF Parses
  <2>3. t.scheme = target.scheme /\ t.host = target.host
        /\ t.port = IF target.port = 0 THEN DefaultPort(target.scheme) ELSE target.port
    BY <2>2 DEF ParseUrl, Url
  <2>4. t.port # 0
    BY <2>3 DEF DefaultPort
  <2> DEFINE b == Below(target, item.url)
  <2>5. b.scheme = t.scheme /\ b.host = t.host /\ b.port = t.port
    BY DEF Below, Url
  <2>6. Origin(ParseUrl(b)) = <<b.scheme, b.host, b.port>>
    <3> HIDE DEF b, t
    <3> QED BY <2>2, <2>3, <2>4, <2>5 DEF ParseUrl, Url, Origin
  <2>7. Origin(t) = <<t.scheme, t.host, t.port>>
    BY DEF Origin
  <2> QED BY <1>3, <2>1, <2>5, <2>6, <2>7
<1> QED BY <1>1, <1>2, <1>3

\* The Host line of a URL names its host, and its port unless it is the default.
LEMMA HostLineNames ==
  ASSUME NEW url
  PROVE  /\ HostLine(url, "")[1] = url.host
         /\ \/ HostLine(url, "")[2] = url.port
            \/ HostLine(url, "")[2] = 0 /\ url.port = DefaultPort(url.scheme)
  BY DEF HostLine, IsTls, DefaultPort

Asked(k) == RequestUrl(Items[k], script.bench.hasTarget, script.bench.target)

MadeRequests(n) == [k \in 1 .. n |-> Serialize(Items[k], Asked(k), script.bench.host)]

\* The configuration is that of the script, the requests are made of its first
\* items and the URL of the configuration is the first one's; once the requests
\* are all made they are those of all items, and the address is theirs.
ConfigOK ==
  /\ phase \in {"start", "evaluate", "configure"} => config = ConfigInit
  /\ config.mode # "cli" =>
       /\ config.hasTarget = script.bench.hasTarget
       /\ config.target = script.bench.target
       /\ config.host = script.bench.host
       /\ config.mode # "async" =>
            \E n \in 0 .. Len(Items) : /\ config.requests = MadeRequests(n)
                                       /\ n > 0 => config.url = Asked(1)
  /\ phase = "extract" => config.mode \notin {"cli", "async"}
  /\ phase = "resolve" \/ workers # <<>> =>
       /\ config.mode # "cli"
       /\ config.mode # "async" =>
            Len(Items) > 0 /\ config.requests = MadeRequests(Len(Items))
  /\ workers # <<>> => config.addr = <<Dialled.host, Dialled.port>>

LEMMA MadeLength ==
  ASSUME NEW n \in Nat
  PROVE  /\ Len(MadeRequests(n)) = n
         /\ Append(MadeRequests(n), Serialize(Items[n + 1], Asked(n + 1), script.bench.host))
            = MadeRequests(n + 1)
         /\ MadeRequests(0) = <<>>
<1> DEFINE Made(k) == Serialize(Items[k], Asked(k), script.bench.host)
           S == {Made(k) : k \in 1 .. n + 1}
<1>1. MadeRequests(n) = [k \in 1 .. n |-> Made(k)] /\ MadeRequests(n + 1) = [k \in 1 .. n + 1 |-> Made(k)]
  BY DEF MadeRequests
<1>2. Made(n + 1) \in S /\ \A k \in 1 .. n : Made(k) \in S
  OBVIOUS
<1>3. MadeRequests(0) = <<>>
  BY DEF MadeRequests
<1> HIDE DEF Made, S
<1>4. MadeRequests(n) \in Seq(S) /\ Len(MadeRequests(n)) = n
  BY <1>1, <1>2
<1>5. Append(MadeRequests(n), Made(n + 1)) = MadeRequests(n + 1)
  BY <1>1, <1>2, <1>4
<1> USE DEF Made
<1> QED BY <1>3, <1>4, <1>5

\* The number of items is a number, and they are numbered from 1.
LEMMA ItemCount ==
  ASSUME IInv
  PROVE  Len(Items) \in Nat /\ DOMAIN Items = 1 .. Len(Items)
BY ScriptsAssumption DEF IInv, TypeOK, Items

\* A step that leaves the configuration alone, and does not go back to where it
\* is made.
LEMMA ConfigStays ==
  ASSUME ConfigOK, UNCHANGED <<script, config>>,
         workers' # <<>> => workers # <<>>,
         phase' \in {"launch", "join", "merge", "exited", "crashed"}
  PROVE  ConfigOK'
<1>1. /\ \A n : MadeRequests(n)' = MadeRequests(n)
      /\ Asked(1)' = Asked(1) /\ Items' = Items /\ Dialled' = Dialled
  BY DEF MadeRequests, Asked, Items, Dialled
<1> QED BY <1>1 DEF ConfigOK

LEMMA NextKeepsConfig == IInv /\ ConfigOK /\ [Next]_vars => ConfigOK'
<1> SUFFICES ASSUME IInv, ConfigOK, [Next]_vars PROVE ConfigOK'
  OBVIOUS
<1>1. script' = script
  BY DEF Next, MainNext, Start, Evaluate, Configure, Extract, Extracted, Resolve, Launch,
         Join, Merge, WorkerNext, Begin, Record, GiveUp, TimeOver, Finished, vars, Goto, Exit
<1>2. /\ \A n : MadeRequests(n)' = MadeRequests(n)
      /\ Asked(1)' = Asked(1) /\ Items' = Items
  BY <1>1 DEF MadeRequests, Asked, Items
<1>3. Len(Items) \in Nat
  BY ItemCount
<1>4. ASSUME NEW status \in {0, 1}, Exit(status), phase \in Preparing PROVE ConfigOK'
  BY <1>4, ConfigStays DEF Exit
<1>5. CASE (Start \/ Evaluate) /\ ~Exit(1)
  <2>1. /\ config' = config /\ workers' = workers /\ workers = <<>> /\ config = ConfigInit
        /\ phase' \in {"evaluate", "configure"}
    BY <1>5 DEF Start, Evaluate, Goto, ConfigOK, IInv, LoopOK, Preparing
  <2>2. config'.mode = "cli"
    BY <2>1 DEF ConfigInit
  <2> QED BY <2>1, <2>2 DEF ConfigOK
<1>6. CASE Configure /\ ~Exit(0)
  <2> DEFINE mode == ModeOf(script.default.type)
  <2>1. /\ config' =
             [config EXCEPT
                !.mode = mode,
                !.connections = Positive(script.bench.connections, @),
                !.threads = Positive(script.bench.threads, @),
                !.duration = Duration(script.bench.duration),
                !.hasTarget = script.bench.hasTarget,
                !.target = script.bench.target,
                !.host = script.bench.host,
                !.url = IF mode = "async" /\ script.bench.hasTarget
                          THEN ParseUrl(script.bench.target) ELSE @]
        /\ mode # "cli"
        /\ Goto(IF mode = "async" THEN "resolve" ELSE "extract")
        /\ config = ConfigInit
    BY <1>6 DEF Configure, ConfigOK
  <2>2. /\ config'.hasTarget = script.bench.hasTarget
        /\ config'.target = script.bench.target
        /\ config'.host = script.bench.host
        /\ config'.mode = mode
        /\ config'.requests = config.requests
    BY <2>1 DEF IInv, TypeOK, ConfigInit
  <2>3. config.requests = MadeRequests(0)
    BY <2>1, MadeLength DEF ConfigInit
  <2>4. workers' = <<>>
    BY <1>6 DEF Configure, Goto, Exit, IInv, LoopOK, Preparing
  <2>5. phase' = IF mode = "async" THEN "resolve" ELSE "extract"
    BY <2>1 DEF Goto
  <2> HIDE DEF mode
  <2> QED BY <1>1, <1>2, <1>3, <2>1, <2>2, <2>3, <2>4, <2>5 DEF ConfigOK
<1>7. CASE Extract /\ ~Exit(1)
  <2>1. /\ phase = "extract" /\ config.mode \notin {"cli", "async"}
        /\ workers' = <<>> /\ phase' = "extract"
    BY <1>7 DEF Extract, Goto, ConfigOK, IInv, LoopOK, Preparing
  <2>2. PICK n \in 0 .. Len(Items) : /\ config.requests = MadeRequests(n)
                                     /\ n > 0 => config.url = Asked(1)
    BY <2>1 DEF ConfigOK
  <2>3. Len(config.requests) = n
    BY <1>3, <2>2, MadeLength
  <2>4. /\ config.hasTarget = script.bench.hasTarget
        /\ config.target = script.bench.target
        /\ config.host = script.bench.host
    BY <2>1 DEF ConfigOK
  <2>5. /\ n + 1 <= Len(Items)
        /\ config' = [config EXCEPT
             !.requests = Append(MadeRequests(n),
                            Serialize(Items[n + 1], Asked(n + 1), script.bench.host)),
             !.url = IF n + 1 = 1 THEN Asked(n + 1) ELSE @]
    BY <1>7, <2>2, <2>3, <2>4 DEF Extract, Asked
  <2>6. /\ config'.requests = MadeRequests(n + 1)
        /\ config'.url = IF n + 1 = 1 THEN Asked(n + 1) ELSE config.url
        /\ config'.hasTarget = config.hasTarget /\ config'.target = config.target
        /\ config'.host = config.host /\ config'.mode = config.mode
    BY <1>3, <2>5, MadeLength DEF IInv, TypeOK, ConfigInit
  <2>7. config'.url = Asked(1)
    BY <1>3, <2>2, <2>6
  <2>8. n + 1 \in 0 .. Len(Items)'
    BY <1>1, <1>3, <2>5 DEF Items
  <2> QED BY <1>1, <1>2, <2>1, <2>4, <2>6, <2>7, <2>8 DEF ConfigOK
<1>8. CASE Extracted /\ ~Exit(1)
  <2>1. /\ phase = "extract" /\ config.mode \notin {"cli", "async"}
        /\ workers' = <<>> /\ phase' = "resolve" /\ config' = config
        /\ Len(config.requests) = Len(Items) /\ config.requests # <<>>
    BY <1>8 DEF Extracted, Goto, ConfigOK, IInv, LoopOK, Preparing
  <2>2. PICK n \in 0 .. Len(Items) : /\ config.requests = MadeRequests(n)
                                     /\ n > 0 => config.url = Asked(1)
    BY <2>1 DEF ConfigOK
  <2>3. n = Len(Items) /\ Len(Items) > 0
    BY <1>3, <2>1, <2>2, MadeLength
  <2>4. config.requests = MadeRequests(Len(Items))
    BY <2>2, <2>3
  <2>5. MadeRequests(Len(Items))' = MadeRequests(Len(Items))
    BY <1>1 DEF MadeRequests, Asked, Items
  <2> QED BY <1>1, <1>2, <2>1, <2>2, <2>3, <2>4, <2>5 DEF ConfigOK
<1>9. CASE Resolve /\ ~Exit(1)
  <2>1. /\ phase = "resolve" /\ phase' = "launch"
        /\ config' = [config EXCEPT !.duration = RunFor(@),
                                    !.addr = <<Dialled.host, Dialled.port>>]
    BY <1>9 DEF Resolve
  <2>2. /\ config'.hasTarget = config.hasTarget /\ config'.target = config.target
        /\ config'.host = config.host /\ config'.mode = config.mode
        /\ config'.url = config.url /\ config'.requests = config.requests
        /\ config'.addr = <<Dialled.host, Dialled.port>>
    BY <2>1 DEF IInv, TypeOK, ConfigInit
  <2>3. Dialled' = Dialled
    BY <2>2 DEF Dialled
  <2>4. /\ config.mode # "cli"
        /\ config.mode # "async" =>
             Len(Items) > 0 /\ config.requests = MadeRequests(Len(Items))
    BY <2>1 DEF ConfigOK
  <2>5. MadeRequests(Len(Items))' = MadeRequests(Len(Items))
    BY <1>1 DEF MadeRequests, Asked, Items
  <2> QED BY <1>1, <1>2, <2>1, <2>2, <2>3, <2>4, <2>5 DEF ConfigOK
<1>10. CASE Launch \/ Join \/ Merge
  <2>1. workers # <<>>
    BY <1>10 DEF Launch, Join, Merge, IInv, LoopOK, Looping, Threads
  <2>2. /\ UNCHANGED <<script, config>>
        /\ phase' \in {"launch", "join", "merge", "exited", "crashed"}
    BY <1>10 DEF Launch, Join, Merge, Advance
  <2> QED BY <2>1, <2>2, ConfigStays
<1>11. ASSUME Alive, NEW i \in Threads, WorkerNext(i) PROVE ConfigOK'
  <2>1. workers # <<>>
    BY DEF Threads
  <2>2. UNCHANGED <<phase, script, config>>
    BY <1>11 DEF WorkerNext, Begin, Record, GiveUp, TimeOver
  <2>3. phase \in Looping
    BY <1>11, <2>1 DEF IInv, TypeOK, LoopOK, Alive, Preparing, Looping
  <2> QED BY <2>1, <2>2, <2>3, ConfigStays DEF Looping
<1>12. CASE UNCHANGED vars
  BY <1>12 DEF vars, ConfigOK, MadeRequests, Asked, Dialled, Items
<1> QED
  <2>1. CASE \E status \in {0, 1} : Exit(status) /\ phase \in Preparing
    BY <1>4, <2>1
  <2>2. CASE MainNext
    BY <1>4, <1>5, <1>6, <1>7, <1>8, <1>9, <1>10, <2>2
    DEF MainNext, Start, Evaluate, Configure, Extract, Extracted, Resolve, Preparing
  <2> QED BY <1>11, <1>12, <2>1, <2>2 DEF Next, Finished

LEMMA ConfigHolds == Spec => []ConfigOK
<1>1. Init => ConfigOK
  <2> SUFFICES ASSUME Init PROVE ConfigOK
    OBVIOUS
  <2>1. config.mode = "cli" /\ config = ConfigInit /\ phase = "start" /\ workers = <<>>
    BY DEF Init, ConfigInit
  <2> QED BY <2>1 DEF ConfigOK
<1> QED BY <1>1, InitKeeps, NextKeeps, NextKeepsConfig, PTL DEF Spec

\* If the items of the script are all for one origin, the address, the TLS
\* setting and the Host lines are those of that origin, however the script
\* writes its URLs and whatever the target is.
THEOREM RequestsGoWhereNamed == Spec => []GoesWhereNamed
<1>1. IInv /\ ConfigOK => GoesWhereNamed
  <2> SUFFICES ASSUME IInv, ConfigOK, workers # <<>>, config.mode # "async",
                      NEW k \in DOMAIN Items,
                      \A j \in DOMAIN Items : Named(Items[j]) = Named(Items[k])
               PROVE  LET named == Named(Items[k])
                          line  == config.requests[k].host
                      IN  /\ config.addr = <<named[2], named[3]>>
                          /\ IsTls(config.url) = (named[1] = "https")
                          /\ config.host = "" =>
                               /\ line[1] = named[2]
                               /\ \/ line[2] = named[3]
                                  \/ line[2] = 0 /\ named[3] = DefaultPort(named[1])
    BY DEF GoesWhereNamed
  <2>1. Len(Items) \in Nat /\ DOMAIN Items = 1 .. Len(Items)
    BY ItemCount
  <2>2. /\ config.hasTarget = script.bench.hasTarget
        /\ config.target = script.bench.target
        /\ config.host = script.bench.host
        /\ config.requests = MadeRequests(Len(Items)) /\ Len(Items) > 0
        /\ config.addr = <<Dialled.host, Dialled.port>>
    BY DEF ConfigOK
  <2>3. config.url = Asked(1)
    <3>1. PICK n \in 0 .. Len(Items) : /\ config.requests = MadeRequests(n)
                                       /\ n > 0 => config.url = Asked(1)
      BY <2>2 DEF ConfigOK
    <3>2. n = Len(Items)
      <4>1. Len(MadeRequests(n)) = n /\ Len(MadeRequests(Len(Items))) = Len(Items)
        BY <2>1, MadeLength
      <4> QED BY <2>2, <3>1, <4>1
    <3> QED BY <2>2, <3>1, <3>2
  <2>4. script.bench.hasTarget \in BOOLEAN
    BY ScriptsAssumption DEF IInv, TypeOK
  <2>5. \A j \in DOMAIN Items : Origin(Asked(j)) = Named(Items[j])
    BY <2>2, <2>4, UrlOrigin DEF Asked, Named
  <2>6. Origin(config.url) = Named(Items[k])
    BY <2>1, <2>2, <2>3, <2>5
  <2>7. Origin(Dialled) = Named(Items[k])
    BY <2>6 DEF Dialled, Named
  <2>8. config.requests[k].host = HostLine(Asked(k), script.bench.host)
    <3>1. config.requests[k] = Serialize(Items[k], Asked(k), script.bench.host)
      BY <2>1, <2>2 DEF MadeRequests
    <3>2. \A item, url, h : Serialize(item, url, h).host = HostLine(url, h)
      BY ZenonT(30) DEF Serialize
    <3> QED BY <3>1, <3>2
  <2>9. config.addr = <<Named(Items[k])[2], Named(Items[k])[3]>>
    BY <2>2, <2>7 DEF Origin
  <2>10. IsTls(config.url) = (Named(Items[k])[1] = "https")
    BY <2>6 DEF Origin, IsTls
  <2>11. config.host = "" =>
           LET line == config.requests[k].host named == Named(Items[k])
           IN  /\ line[1] = named[2]
               /\ \/ line[2] = named[3]
                  \/ line[2] = 0 /\ named[3] = DefaultPort(named[1])
    <3>1. Origin(Asked(k)) = Named(Items[k])
      BY <2>5
    <3> DEFINE url == Asked(k)
    <3>2. url.scheme = Named(Items[k])[1] /\ url.host = Named(Items[k])[2]
          /\ url.port = Named(Items[k])[3]
      <4> HIDE DEF url
      <4> QED BY <3>1 DEF Origin, url
    <3>3. config.host = "" => config.requests[k].host = HostLine(url, "")
      BY <2>2, <2>8
    <3> HIDE DEF url
    <3>4. /\ HostLine(url, "")[1] = url.host
          /\ \/ HostLine(url, "")[2] = url.port
             \/ HostLine(url, "")[2] = 0 /\ url.port = DefaultPort(url.scheme)
      BY HostLineNames
    <3> QED BY <3>2, <3>3, <3>4
  <2> QED BY <2>9, <2>10, <2>11
<1> QED BY <1>1, ConfigHolds, IInvHolds, PTL

-----------------------------------------------------------------------------
(* Sums over the outcomes *)

\* How often each outcome was recorded, and a number for each outcome.
Bags    == [Outcomes -> Nat]
Weights == [Outcomes -> Nat]
Empty   == [o \in Outcomes |-> 0]

Weight(bag, w) == SumFunctionOnSet([o \in Outcomes |-> bag[o] * w[o]], Outcomes)

LEMMA ProductTyped ==
  ASSUME NEW a \in Nat, NEW b \in Nat
  PROVE  a * b \in Nat
OBVIOUS

LEMMA TermTyped ==
  ASSUME NEW bag \in Bags, NEW w \in Weights
  PROVE  \A o \in Outcomes : [x \in Outcomes |-> bag[x] * w[x]][o] \in Nat
<1> SUFFICES ASSUME NEW o \in Outcomes PROVE bag[o] * w[o] \in Nat
  OBVIOUS
<1>1. bag[o] \in Nat /\ w[o] \in Nat
  BY DEF Bags, Weights
<1> QED BY <1>1, ProductTyped

LEMMA WeightTyped ==
  ASSUME NEW bag \in Bags, NEW w \in Weights
  PROVE  Weight(bag, w) \in Nat
<1> DEFINE f == [o \in Outcomes |-> bag[o] * w[o]]
<1>1. \A o \in Outcomes : f[o] \in Nat
  BY TermTyped
<1> HIDE DEF f
<1>2. SumFunctionOnSet(f, Outcomes) \in Nat
  BY <1>1, OutcomesAssumption, SumTyped
<1> QED BY <1>2 DEF Weight, f

LEMMA WeightNone ==
  ASSUME NEW w \in Weights
  PROVE  Weight(Empty, w) = 0
<1> DEFINE f == [o \in Outcomes |-> Empty[o] * w[o]]
<1>1. \A o \in Outcomes : f[o] = 0
  BY DEF Empty, Weights
<1> HIDE DEF f
<1>2. SumFunctionOnSet(f, Outcomes) = SumFunctionOnSet(f, {})
  BY <1>1, OutcomesAssumption, SumWithin
<1> QED BY <1>2, SumEmpty DEF Weight, f

\* An outcome is recorded once more,
LEMMA WeightOne ==
  ASSUME NEW bag \in Bags, NEW w \in Weights, NEW o \in Outcomes
  PROVE  Weight([bag EXCEPT ![o] = @ + 1], w) = Weight(bag, w) + w[o]
<1> DEFINE more == [bag EXCEPT ![o] = @ + 1]
           f    == [x \in Outcomes |-> bag[x] * w[x]]
           g    == [x \in Outcomes |-> more[x] * w[x]]
           rest == Outcomes \ {o}
<1>1. more \in Bags
  BY DEF Bags
<1>2. \A x \in Outcomes : f[x] \in Nat
  BY TermTyped
<1>3. \A x \in Outcomes : g[x] \in Nat
  <2> HIDE DEF more
  <2> QED BY <1>1, TermTyped
<1>4. \A x \in rest : f[x] = g[x]
  BY DEF Bags
<1>5. g[o] = f[o] + w[o]
  <2>1. bag[o] \in Nat /\ w[o] \in Nat /\ more[o] = bag[o] + 1
    BY DEF Bags, Weights
  <2>2. (bag[o] + 1) * w[o] = bag[o] * w[o] + w[o]
    BY <2>1
  <2> HIDE DEF more
  <2> QED BY <2>1, <2>2
<1>6. IsFiniteSet(Outcomes) /\ IsFiniteSet(rest) /\ o \in Outcomes
  BY OutcomesAssumption, FS_RemoveElement
<1>7. w[o] \in Nat /\ f[o] \in Nat
  BY <1>2 DEF Weights
<1> HIDE DEF f, g
<1>8. SumFunctionOnSet(f, Outcomes) = f[o] + SumFunctionOnSet(f, rest)
  BY <1>2, <1>6, SumSplits
<1>9. SumFunctionOnSet(g, Outcomes) = g[o] + SumFunctionOnSet(g, rest)
  BY <1>3, <1>6, SumSplits
<1>10. SumFunctionOnSet(f, rest) = SumFunctionOnSet(g, rest)
  <2> HIDE DEF rest
  <2> QED BY <1>4, <1>6, SumSame
<1>11. SumFunctionOnSet(f, rest) \in Nat
  <2>1. \A x \in rest : f[x] \in Nat
    BY <1>2
  <2> HIDE DEF rest
  <2> QED BY <1>6, <2>1, SumTyped
<1>12. SumFunctionOnSet(g, Outcomes) = SumFunctionOnSet(f, Outcomes) + w[o]
  BY <1>5, <1>7, <1>8, <1>9, <1>10, <1>11
<1> QED BY <1>12 DEF Weight, f, g

\* or what two have recorded is put together;
LEMMA WeightBoth ==
  ASSUME NEW a \in Bags, NEW b \in Bags, NEW w \in Weights
  PROVE  Weight([o \in Outcomes |-> a[o] + b[o]], w) = Weight(a, w) + Weight(b, w)
<1> DEFINE both == [o \in Outcomes |-> a[o] + b[o]]
           f    == [o \in Outcomes |-> a[o] * w[o]]
           g    == [o \in Outcomes |-> b[o] * w[o]]
           h    == [o \in Outcomes |-> both[o] * w[o]]
<1>1. \A o \in Outcomes : f[o] \in Nat /\ g[o] \in Nat
  BY TermTyped
<1>2. \A o \in Outcomes : h[o] = f[o] + g[o]
  <2> SUFFICES ASSUME NEW o \in Outcomes PROVE (a[o] + b[o]) * w[o] = a[o] * w[o] + b[o] * w[o]
    OBVIOUS
  <2>1. a[o] \in Nat /\ b[o] \in Nat /\ w[o] \in Nat
    BY DEF Bags, Weights
  <2> QED BY <2>1
<1> HIDE DEF f, g, h
<1>3. SumFunctionOnSet(h, Outcomes) = SumFunctionOnSet(f, Outcomes) + SumFunctionOnSet(g, Outcomes)
  BY <1>1, <1>2, OutcomesAssumption, SumPlus
<1> QED BY <1>3 DEF Weight, f, g, h

\* and the weight of an outcome is that of its parts.
LEMMA WeightParts ==
  ASSUME NEW bag \in Bags, NEW u \in Weights, NEW v \in Weights, NEW w \in Weights,
         \A o \in Outcomes : w[o] = u[o] + v[o]
  PROVE  Weight(bag, w) = Weight(bag, u) + Weight(bag, v)
<1> DEFINE f == [o \in Outcomes |-> bag[o] * u[o]]
           g == [o \in Outcomes |-> bag[o] * v[o]]
           h == [o \in Outcomes |-> bag[o] * w[o]]
<1>1. \A o \in Outcomes : f[o] \in Nat /\ g[o] \in Nat
  BY TermTyped
<1>2. \A o \in Outcomes : h[o] = f[o] + g[o]
  <2> SUFFICES ASSUME NEW o \in Outcomes PROVE bag[o] * w[o] = bag[o] * u[o] + bag[o] * v[o]
    OBVIOUS
  <2>1. bag[o] \in Nat /\ u[o] \in Nat /\ v[o] \in Nat /\ w[o] = u[o] + v[o]
    BY DEF Bags, Weights
  <2> QED BY <2>1
<1> HIDE DEF f, g, h
<1>3. SumFunctionOnSet(h, Outcomes) = SumFunctionOnSet(f, Outcomes) + SumFunctionOnSet(g, Outcomes)
  BY <1>1, <1>2, OutcomesAssumption, SumPlus
<1> QED BY <1>3 DEF Weight, f, g, h

\* What weighs no less term by term weighs no less.
LEMMA WeightLess ==
  ASSUME NEW bag \in Bags, NEW u \in Weights, NEW w \in Weights,
         \A o \in Outcomes : u[o] <= w[o]
  PROVE  Weight(bag, u) <= Weight(bag, w)
<1> DEFINE v == [o \in Outcomes |-> w[o] - u[o]]
<1>1. v \in Weights /\ \A o \in Outcomes : w[o] = u[o] + v[o]
  BY DEF Weights
<1> HIDE DEF v
<1>2. Weight(bag, w) = Weight(bag, u) + Weight(bag, v)
  BY <1>1, WeightParts
<1> QED BY <1>1, <1>2, WeightTyped

-----------------------------------------------------------------------------
(* What statistics tell of a bag of outcomes *)

Added(k) == [o \in Outcomes |-> Adds(o.kind, k)]
Kept     == [o \in Outcomes |-> IF o.kind \in Failures THEN 0 ELSE 1]
Latency  == [o \in Outcomes |-> Kept[o] * o.ticks]
Square   == [o \in Outcomes |-> Kept[o] * (o.ticks * o.ticks)]
In(I)    == [o \in Outcomes |-> IF SlotOf(o.ticks) \in I THEN Kept[o] ELSE 0]

\* Their latencies,
Seen(bag) == {o.ticks : o \in {x \in Outcomes : bag[x] > 0 /\ x.kind \notin Failures}}

\* the sums,
Figures(s, bag) ==
  /\ \A k \in Counters : s.counter[k] = Weight(bag, Added(k))
  /\ s.latency.count = Weight(bag, Kept)
  /\ s.latency.sum = Weight(bag, Latency)
  /\ s.latency.sum_sq = Weight(bag, Square)
  /\ \A i \in HistSlots : s.latency.slots[i] = Weight(bag, In({i}))

\* and the ends.
Bounds(h, bag) ==
  /\ \A t \in Seen(bag) : h.min <= t /\ t <= h.max
  /\ h.min \in Seen(bag) \cup {Never}
  /\ h.max \in Seen(bag) \cup {0}

Describes(s, bag) == s \in StatsType /\ Figures(s, bag) /\ Bounds(s.latency, bag)

LEMMA TicksTyped ==
  ASSUME NEW o \in Outcomes
  PROVE  o.ticks \in Nat /\ o.ticks <= Never /\ Never \in Nat
BY OutcomesAssumption DEF Never

LEMMA WeightsTyped ==
  /\ \A k : Added(k) \in Weights
  /\ Kept \in Weights /\ Latency \in Weights /\ Square \in Weights
  /\ \A I : In(I) \in Weights
<1>1. Kept \in Weights
  BY DEF Kept, Weights
<1>2. \A o \in Outcomes : Kept[o] \in Nat /\ o.ticks \in Nat
  BY <1>1, TicksTyped DEF Weights
<1>3. ASSUME NEW k PROVE Added(k) \in Weights
  BY OutcomesAssumption DEF Added, Adds, Weights
<1>4. Latency \in Weights
  BY <1>2, ProductTyped DEF Latency, Weights
<1>5. Square \in Weights
  <2>1. \A o \in Outcomes : o.ticks * o.ticks \in Nat
    BY <1>2, ProductTyped
  <2>2. \A o \in Outcomes : Kept[o] * (o.ticks * o.ticks) \in Nat
    BY <1>2, <2>1, ProductTyped
  <2> QED BY <2>2 DEF Square, Weights
<1>6. ASSUME NEW I PROVE In(I) \in Weights
  BY <1>2 DEF In, Weights
<1> QED BY <1>1, <1>3, <1>4, <1>5, <1>6

LEMMA SeenTyped ==
  ASSUME NEW bag
  PROVE  \A t \in Seen(bag) : t \in Nat /\ t <= Never
BY TicksTyped DEF Seen

\* Nothing has been recorded,
LEMMA DescribesNone == Describes(StatsInit, Empty)
<1>1. StatsInit \in StatsType
  BY StatsTyped
<1>2. Figures(StatsInit, Empty)
  BY WeightNone, WeightsTyped DEF Figures, StatsInit, HistInit
<1>3. Seen(Empty) = {}
  BY DEF Seen, Empty
<1>4. Bounds(StatsInit.latency, Empty)
  BY <1>3 DEF Bounds, StatsInit, HistInit
<1> QED BY <1>1, <1>2, <1>4 DEF Describes

\* an outcome is,
LEMMA DescribesOne ==
  ASSUME NEW s, NEW bag \in Bags, Describes(s, bag), NEW o \in Outcomes
  PROVE  Describes(Recorded(s, o), [bag EXCEPT ![o] = @ + 1])
<1> DEFINE more == [bag EXCEPT ![o] = @ + 1]
           h    == s.latency
           r    == Recorded(s, o)
           t    == o.ticks
<1>1. s \in StatsType /\ h \in HistType /\ r \in StatsType
  BY StatsTyped DEF Describes, StatsType
<1>2. \A w \in Weights : Weight(more, w) = Weight(bag, w) + w[o]
  BY WeightOne
<1>3. t \in Nat /\ t <= Never
  BY TicksTyped
<1>4. r.latency = IF o.kind \in Failures THEN h ELSE HistAdd(h, t)
  BY DEF Recorded
<1>5. \A k \in Counters : r.counter[k] = s.counter[k] + Adds(o.kind, k)
  BY DEF Recorded
<1>6. \A x \in Outcomes : more[x] = IF x = o THEN bag[x] + 1 ELSE bag[x]
  BY DEF Bags
<1>7. Seen(more) = IF o.kind \in Failures THEN Seen(bag) ELSE Seen(bag) \cup {t}
  <2>1. \A x \in Outcomes : more[x] > 0 <=> x = o \/ bag[x] > 0
    BY <1>6 DEF Bags
  <2> HIDE DEF more
  <2> QED BY <2>1 DEF Seen
<1> HIDE DEF more, r
<1>8. Figures(r, more)
  <2>1. ASSUME NEW k \in Counters PROVE r.counter[k] = Weight(more, Added(k))
    <3>1. Added(k) \in Weights /\ Added(k)[o] = Adds(o.kind, k)
      BY WeightsTyped DEF Added
    <3>2. s.counter[k] = Weight(bag, Added(k))
      BY DEF Describes, Figures
    <3> QED BY <1>2, <1>5, <3>1, <3>2
  <2>2. /\ h.count = Weight(bag, Kept) /\ h.sum = Weight(bag, Latency)
        /\ h.sum_sq = Weight(bag, Square)
        /\ \A i \in HistSlots : h.slots[i] = Weight(bag, In({i}))
    BY DEF Describes, Figures
  <2>3. /\ Weight(more, Kept) = Weight(bag, Kept) + Kept[o]
        /\ Weight(more, Latency) = Weight(bag, Latency) + Latency[o]
        /\ Weight(more, Square) = Weight(bag, Square) + Square[o]
        /\ \A i : Weight(more, In({i})) = Weight(bag, In({i})) + In({i})[o]
    BY <1>2, WeightsTyped
  <2>4. /\ h.count \in Nat /\ h.sum \in Nat /\ h.sum_sq \in Nat
        /\ h.slots \in [HistSlots -> Nat]
    BY <1>1 DEF HistType
  <2>5. t * t \in Nat
    BY <1>3, ProductTyped
  <2>6. CASE o.kind \in Failures
    <3>1. Kept[o] = 0 /\ \A i : In({i})[o] = 0
      BY <2>6 DEF Kept, In
    <3>2. Latency[o] = 0 /\ Square[o] = 0
      BY <1>3, <2>5, <3>1 DEF Latency, Square
    <3>3. r.latency = h
      BY <1>4, <2>6
    <3>4. \A i \in HistSlots : r.latency.slots[i] = Weight(more, In({i}))
      <4> SUFFICES ASSUME NEW i \in HistSlots
                   PROVE  r.latency.slots[i] = Weight(more, In({i}))
        OBVIOUS
      <4>1. h.slots[i] \in Nat /\ h.slots[i] = Weight(bag, In({i}))
        BY <2>2, <2>4
      <4>2. In({i}) \in Weights /\ In({i})[o] = 0
        BY <3>1, WeightsTyped
      <4>3. Weight(more, In({i})) = Weight(bag, In({i})) + 0
        BY <1>2, <4>2
      <4> QED BY <3>3, <4>1, <4>3
    <3>5. /\ r.latency.count = Weight(more, Kept)
          /\ r.latency.sum = Weight(more, Latency)
          /\ r.latency.sum_sq = Weight(more, Square)
      BY <2>2, <2>3, <2>4, <3>1, <3>2, <3>3
    <3> QED BY <2>1, <3>4, <3>5 DEF Figures
  <2>7. CASE o.kind \notin Failures
    <3>1. Kept[o] = 1 /\ \A i : In({i})[o] = IF SlotOf(t) = i THEN 1 ELSE 0
      BY <2>7 DEF Kept, In
    <3>2. Latency[o] = t /\ Square[o] = t * t
      BY <1>3, <2>5, <3>1 DEF Latency, Square
    <3>3. /\ r.latency.count = h.count + 1
          /\ r.latency.sum = h.sum + t
          /\ r.latency.sum_sq = h.sum_sq + t * t
          /\ r.latency.slots = IF SlotOf(t) = Over THEN h.slots
                               ELSE [h.slots EXCEPT ![SlotOf(t)] = @ + 1]
      BY <1>4, <2>7 DEF HistAdd
    <3>4. \A i \in HistSlots : i # Over
      BY SlotsAssumption DEF HistSlots, Over
    <3>5. ASSUME NEW i \in HistSlots
          PROVE  r.latency.slots[i] = h.slots[i] + IF SlotOf(t) = i THEN 1 ELSE 0
      BY <2>4, <3>3, <3>4
    <3>6. \A i \in HistSlots : r.latency.slots[i] = Weight(more, In({i}))
      <4> SUFFICES ASSUME NEW i \in HistSlots
                   PROVE  r.latency.slots[i] = Weight(more, In({i}))
        OBVIOUS
      <4>1. h.slots[i] = Weight(bag, In({i}))
        BY <2>2
      <4>2. In({i}) \in Weights /\ In({i})[o] = IF SlotOf(t) = i THEN 1 ELSE 0
        BY <3>1, WeightsTyped
      <4>3. Weight(more, In({i})) = Weight(bag, In({i})) + In({i})[o]
        BY <1>2, <4>2
      <4> QED BY <3>5, <4>1, <4>2, <4>3
    <3>7. /\ r.latency.count = Weight(more, Kept)
          /\ r.latency.sum = Weight(more, Latency)
          /\ r.latency.sum_sq = Weight(more, Square)
      BY <2>2, <2>3, <3>1, <3>2, <3>3
    <3> QED BY <2>1, <3>6, <3>7 DEF Figures
  <2> QED BY <2>6, <2>7
<1>9. Bounds(r.latency, more)
  <2>1. Bounds(h, bag)
    BY DEF Describes
  <2>2. CASE o.kind \in Failures
    <3>1. Seen(more) = Seen(bag) /\ r.latency = h
      BY <1>4, <1>7, <2>2
    <3> QED BY <2>1, <3>1 DEF Bounds
  <2>3. CASE o.kind \notin Failures
    <3>1. /\ r.latency.min = Lower(h.min, t) /\ r.latency.max = Higher(h.max, t)
          /\ Seen(more) = Seen(bag) \cup {t}
      BY <1>4, <1>7, <2>3 DEF HistAdd
    <3>2. h.min \in Nat /\ h.max \in Nat /\ h.min <= Never
      BY <1>1, <2>1, SeenTyped DEF HistType, Bounds, Never
    <3>3. \A x \in Seen(bag) : x \in Nat
      BY SeenTyped
    <3>4. \A x \in Seen(more) : Lower(h.min, t) <= x /\ x <= Higher(h.max, t)
      BY <1>3, <2>1, <3>1, <3>2, <3>3 DEF Bounds, Lower, Higher
    <3>5. Lower(h.min, t) \in Seen(more) \cup {Never}
      BY <1>3, <2>1, <3>1, <3>2 DEF Bounds, Lower
    <3>6. Higher(h.max, t) \in Seen(more) \cup {0}
      BY <1>3, <2>1, <3>1, <3>2 DEF Bounds, Higher
    <3> QED BY <3>1, <3>4, <3>5, <3>6 DEF Bounds
  <2> QED BY <2>2, <2>3
<1> QED BY <1>1, <1>8, <1>9 DEF Describes, more, r

\* or the statistics of two workers are put together.
LEMMA DescribesBoth ==
  ASSUME NEW s, NEW a \in Bags, Describes(s, a),
         NEW t, NEW b \in Bags, Describes(t, b)
  PROVE  Describes(StatsMerge(s, t), [o \in Outcomes |-> a[o] + b[o]])
<1> DEFINE both == [o \in Outcomes |-> a[o] + b[o]]
           m    == StatsMerge(s, t)
           g    == s.latency
           h    == t.latency
<1>1. s \in StatsType /\ t \in StatsType /\ g \in HistType /\ h \in HistType
  BY DEF Describes, StatsType
<1>2. \A w \in Weights : Weight(both, w) = Weight(a, w) + Weight(b, w)
  BY WeightBoth
<1>3. /\ m.counter = [k \in Counters |-> s.counter[k] + t.counter[k]]
      /\ m = [counter |-> m.counter, latency |-> m.latency]
      /\ m.latency = HistMerge(g, h)
  BY DEF StatsMerge
<1>4. Seen(both) = Seen(a) \cup Seen(b)
  <2>1. \A o \in Outcomes : both[o] > 0 <=> a[o] > 0 \/ b[o] > 0
    BY DEF Bags
  <2> HIDE DEF both
  <2> QED BY <2>1 DEF Seen
<1> HIDE DEF both, m
<1>5. m \in StatsType
  <2>1. m.counter \in [Counters -> Nat]
    BY <1>1, <1>3 DEF StatsType
  <2>2. m.latency \in HistType
    BY <1>1, <1>3 DEF HistMerge, HistType, Lower, Higher
  <2> QED BY <1>3, <2>1, <2>2 DEF StatsType
<1>6. Figures(m, both)
  <2>1. Figures(s, a) /\ Figures(t, b)
    BY DEF Describes
  <2>2. ASSUME NEW k \in Counters PROVE m.counter[k] = Weight(both, Added(k))
    <3>1. m.counter[k] = s.counter[k] + t.counter[k]
      BY <1>3
    <3>2. Weight(both, Added(k)) = Weight(a, Added(k)) + Weight(b, Added(k))
      BY <1>2, WeightsTyped
    <3> QED BY <2>1, <3>1, <3>2 DEF Figures
  <2>3. /\ m.latency.count = g.count + h.count
        /\ m.latency.sum = g.sum + h.sum
        /\ m.latency.sum_sq = g.sum_sq + h.sum_sq
        /\ \A i \in HistSlots : m.latency.slots[i] = g.slots[i] + h.slots[i]
    BY <1>3 DEF HistMerge
  <2>4. /\ Weight(both, Kept) = Weight(a, Kept) + Weight(b, Kept)
        /\ Weight(both, Latency) = Weight(a, Latency) + Weight(b, Latency)
        /\ Weight(both, Square) = Weight(a, Square) + Weight(b, Square)
        /\ \A i : Weight(both, In({i})) = Weight(a, In({i})) + Weight(b, In({i}))
    BY <1>2, WeightsTyped
  <2> QED BY <2>1, <2>2, <2>3, <2>4 DEF Figures
<1>7. Bounds(m.latency, both)
  <2>1. Bounds(g, a) /\ Bounds(h, b)
    BY DEF Describes
  <2>2. m.latency.min = Lower(g.min, h.min) /\ m.latency.max = Higher(g.max, h.max)
    BY <1>3 DEF HistMerge
  <2>3. g.min \in Nat /\ h.min \in Nat /\ g.max \in Nat /\ h.max \in Nat
    BY <1>1 DEF HistType
  <2>4. \A x \in Seen(both) : x \in Nat
    BY SeenTyped
  <2>5. \A x \in Seen(both) : Lower(g.min, h.min) <= x /\ x <= Higher(g.max, h.max)
    BY <1>4, <2>1, <2>3, <2>4 DEF Bounds, Lower, Higher
  <2>6. Lower(g.min, h.min) \in Seen(both) \cup {Never}
    BY <1>4, <2>1 DEF Bounds, Lower
  <2>7. Higher(g.max, h.max) \in Seen(both) \cup {0}
    BY <1>4, <2>1 DEF Bounds, Higher
  <2> QED BY <2>2, <2>5, <2>6, <2>7 DEF Bounds
<1> QED BY <1>5, <1>6, <1>7 DEF Describes, both, m

-----------------------------------------------------------------------------
(* What has been recorded *)

\* What the first n workers recorded between them.
OfFirst(n) ==
  [o \in Outcomes |-> SumFunctionOnSet([i \in Threads |-> samples[i][o]], 0 .. n - 1)]

\* The statistics of a worker that has begun tell what it recorded; one that has
\* not has recorded nothing, and is not created before its turn.
WorkersOK ==
  /\ phase = "launch" => \A i \in Threads : i >= index => workers[i].state = "none"
  /\ \A i \in Threads :
       IF workers[i].state \in {"none", "created"} THEN samples[i] = Empty
       ELSE Describes(workers[i].stats, samples[i])

\* The total tells what the workers recorded whose statistics were added.
TotalOK ==
  /\ phase \notin {"merge", "exited"} => total = StatsInit
  /\ phase = "merge" => Describes(total, OfFirst(index))
  /\ ret = 0 /\ config.mode # "cli" =>
       /\ Describes(total, OfFirst(Cardinality(Threads)))
       /\ report = StatsPrint(total)

ReportOK == WorkersOK /\ TotalOK

LEMMA BeforeFirst == OfFirst(0) = Empty
<1>1. 0 .. 0 - 1 = {}
  OBVIOUS
<1> QED BY <1>1, SumEmpty DEF OfFirst, Empty

LEMMA OfFirstNext ==
  ASSUME IInv, NEW n \in Threads
  PROVE  /\ OfFirst(n) \in Bags /\ samples[n] \in Bags
         /\ OfFirst(n + 1) = [o \in Outcomes |-> OfFirst(n)[o] + samples[n][o]]
<1>1. /\ Cardinality(Threads) \in Nat /\ Threads = 0 .. Cardinality(Threads) - 1
      /\ samples \in [Threads -> [Outcomes -> Nat]]
  BY ThreadCount DEF IInv, TypeOK
<1>2. n \in Nat /\ 0 .. n \subseteq Threads /\ 0 .. n = (0 .. n - 1) \cup {n}
  BY <1>1
<1>3. IsFiniteSet(0 .. n - 1) /\ n \notin 0 .. n - 1
  BY <1>2, FS_Interval
<1>4. ASSUME NEW o \in Outcomes
      PROVE  /\ OfFirst(n)[o] \in Nat
             /\ OfFirst(n + 1)[o] = OfFirst(n)[o] + samples[n][o]
  <2> DEFINE f == [i \in Threads |-> samples[i][o]]
  <2>1. \A i \in Threads : f[i] \in Nat
    BY <1>1
  <2>2. f[n] = samples[n][o]
    OBVIOUS
  <2>3. OfFirst(n)[o] = SumFunctionOnSet(f, 0 .. n - 1)
    BY DEF OfFirst
  <2>4. OfFirst(n + 1)[o] = SumFunctionOnSet(f, 0 .. n)
    <3>1. (n + 1) - 1 = n
      BY <1>2
    <3>2. OfFirst(n + 1)[o] = SumFunctionOnSet(f, 0 .. (n + 1) - 1)
      BY DEF OfFirst
    <3> HIDE DEF f
    <3> QED BY <3>1, <3>2
  <2> HIDE DEF f
  <2>5. \A i \in 0 .. n - 1 : f[i] \in Nat
    BY <1>2, <2>1
  <2>6. SumFunctionOnSet(f, 0 .. n - 1) \in Nat
    BY <1>3, <2>5, SumTyped
  <2>7. SumFunctionOnSet(f, (0 .. n - 1) \cup {n}) = SumFunctionOnSet(f, 0 .. n - 1) + f[n]
    <3> DEFINE S == 0 .. n - 1
    <3>1. IsFiniteSet(S) /\ n \notin S /\ f[n] \in Int /\ \A i \in S : f[i] \in Int
      BY <1>3, <2>1, <2>5
    <3> HIDE DEF S
    <3>2. SumFunctionOnSet(f, S \cup {n}) = SumFunctionOnSet(f, S) + f[n]
      BY <3>1, SumAdds
    <3> QED BY <3>2 DEF S
  <2> QED BY <1>2, <2>2, <2>3, <2>4, <2>6, <2>7
<1>5. OfFirst(n) \in Bags
  BY <1>4 DEF OfFirst, Bags
<1>6. samples[n] \in Bags
  BY <1>1 DEF Bags
<1>7. OfFirst(n + 1) = [o \in Outcomes |-> OfFirst(n + 1)[o]]
  BY DEF OfFirst
<1>8. OfFirst(n + 1) = [o \in Outcomes |-> OfFirst(n)[o] + samples[n][o]]
  <2> DEFINE a == OfFirst(n)
             b == OfFirst(n + 1)
  <2>1. \A o \in Outcomes : b[o] = a[o] + samples[n][o]
    BY <1>4
  <2>2. b = [o \in Outcomes |-> b[o]]
    BY <1>7
  <2> HIDE DEF a, b
  <2>3. b = [o \in Outcomes |-> a[o] + samples[n][o]]
    BY <2>1, <2>2
  <2> QED BY <2>3 DEF a, b
<1> QED BY <1>5, <1>6, <1>8

LEMMA InitReport == Init => ReportOK
<1> SUFFICES ASSUME Init PROVE ReportOK
  OBVIOUS
<1>1. Threads = {}
  BY DEF Init, Threads
<1> QED BY <1>1 DEF Init, ReportOK, WorkersOK, TotalOK, Running

\* Before the workers exist nothing is added.
LEMMA EarlyKeepsReport ==
  ASSUME IInv, ReportOK, phase \in Preparing, workers' = workers, total' = total,
         phase' \in Preparing \cup {"exited"}, ret' = 0 => config'.mode = "cli"
  PROVE  ReportOK'
<1>1. Threads' = {} /\ total = StatsInit
  BY DEF IInv, LoopOK, Threads, ReportOK, TotalOK, Preparing
<1> QED BY <1>1 DEF ReportOK, WorkersOK, TotalOK, Preparing

LEMMA ResolveKeepsReport == ASSUME IInv, ReportOK, Resolve, ~Exit(1) PROVE ReportOK'
<1> DEFINE share == Deal(Lower(config.threads, config.connections), config.connections)
<1>1. /\ workers' = [i \in DOMAIN share |->
                       [state |-> "none", conn_count |-> share[i], stats |-> ZeroStats]]
      /\ samples' = [i \in DOMAIN share |-> [o \in Outcomes |-> 0]]
      /\ phase = "resolve" /\ phase' = "launch" /\ UNCHANGED results
  BY DEF Resolve
<1> HIDE DEF share
<1>2. WorkersOK'
  BY <1>1 DEF WorkersOK, Threads, Empty
<1>3. TotalOK'
  BY <1>1 DEF IInv, LoopOK, Preparing, Running, ReportOK, TotalOK, results
<1> QED BY <1>2, <1>3 DEF ReportOK

LEMMA LaunchKeepsReport == ASSUME IInv, ReportOK, Launch PROVE ReportOK'
<1>1. /\ phase = "launch" /\ phase \in Looping /\ Advance("join")
      /\ UNCHANGED <<script, config, results, samples>>
  BY DEF Launch, Looping
<1>2. /\ index \in 0 .. Cardinality(Threads) - 1
      /\ \/ index' = index + 1 /\ phase' = "launch"
         \/ phase' = "join"
  BY <1>1, AdvanceCounts
<1>3. Threads = 0 .. Cardinality(Threads) - 1 /\ Cardinality(Threads) \in Nat
  BY ThreadCount DEF IInv
<1>4. /\ \A i \in Threads : i >= index => workers[i].state = "none"
      /\ samples[index] = Empty /\ index \in Threads
  BY <1>1, <1>2, <1>3 DEF ReportOK, WorkersOK
<1>5. /\ Threads' = Threads
      /\ \A i \in Threads : i # index => workers'[i] = workers[i]
      /\ workers'[index].state \in {"none", "created"}
  <2>1. CASE UNCHANGED workers
    BY <1>2, <1>3, <1>4, <2>1 DEF Threads
  <2>2. CASE workers' = [workers EXCEPT ![index].state = "created"]
    BY <1>4, <2>2 DEF IInv, TypeOK, Threads
  <2> QED BY <2>1, <2>2 DEF Launch
<1>6. WorkersOK'
  <2>1. phase' = "launch" => \A i \in Threads' : i >= index' => workers'[i].state = "none"
    <3> SUFFICES ASSUME phase' = "launch", NEW i \in Threads, i >= index'
                 PROVE  workers'[i].state = "none"
      BY <1>5
    <3>1. i # index /\ i >= index
      BY <1>2, <1>3
    <3> QED BY <1>4, <1>5, <3>1
  <2>2. ASSUME NEW i \in Threads
        PROVE  IF workers'[i].state \in {"none", "created"} THEN samples'[i] = Empty
               ELSE Describes(workers'[i].stats, samples'[i])
    BY <1>1, <1>4, <1>5 DEF ReportOK, WorkersOK
  <2> QED BY <1>5, <2>1, <2>2 DEF WorkersOK
<1>7. TotalOK'
  BY <1>1, <1>2 DEF IInv, LoopOK, Running, ReportOK, TotalOK, results
<1> QED BY <1>6, <1>7 DEF ReportOK

LEMMA JoinKeepsReport == ASSUME IInv, ReportOK, Join PROVE ReportOK'
<1>1. /\ phase = "join" /\ phase \in Looping /\ ret = Running
      /\ UNCHANGED <<script, config, workers, results, samples>> /\ Threads' = Threads
  BY DEF Join, Looping, IInv, LoopOK, Threads
<1>2. \/ phase' \in {"join", "crashed"}
      \/ phase' = "merge" /\ index' = 0
  <2>1. CASE phase' = "crashed"
    BY <2>1
  <2>2. CASE Advance("merge")
    BY <1>1, <2>2, AdvanceCounts
  <2> QED BY <2>1, <2>2 DEF Join
<1>3. WorkersOK'
  BY <1>1, <1>2 DEF ReportOK, WorkersOK
<1>4. total' = StatsInit /\ ret' = Running
  BY <1>1 DEF ReportOK, TotalOK, results
<1>5. Describes(StatsInit, OfFirst(0))'
  <2>1. OfFirst(0)' = OfFirst(0)
    BY <1>1 DEF OfFirst
  <2> QED BY <2>1, BeforeFirst, DescribesNone
<1>6. TotalOK'
  BY <1>2, <1>4, <1>5 DEF TotalOK, Running
<1> QED BY <1>3, <1>6 DEF ReportOK

LEMMA MergeKeepsReport == ASSUME IInv, ReportOK, Merge PROVE ReportOK'
<1>1. /\ phase = "merge" /\ phase \in Looping /\ ret = Running /\ index \in Threads
      /\ UNCHANGED <<script, config, workers, samples>> /\ Threads' = Threads
      /\ workers[index].state = "ended"
  BY DEF Merge, Looping, IInv, LoopOK, Threads
<1>2. /\ index \in 0 .. Cardinality(Threads) - 1
      /\ \/ index' = index + 1 /\ phase' = "merge"
         \/ phase' = "exited" /\ index + 1 = Cardinality(Threads)
  BY <1>1, AdvanceCounts DEF Merge
<1>3. /\ total' = StatsMerge(total, workers[index].stats)
      /\ IF phase' = "exited" THEN report' = StatsPrint(total') /\ ret' = 0
                              ELSE UNCHANGED <<report, ret>>
  BY DEF Merge
<1>4. Describes(total', OfFirst(index + 1))
  <2>1. Describes(total, OfFirst(index))
    BY <1>1 DEF ReportOK, TotalOK
  <2>2. Describes(workers[index].stats, samples[index])
    BY <1>1 DEF ReportOK, WorkersOK
  <2>3. /\ OfFirst(index) \in Bags /\ samples[index] \in Bags
        /\ OfFirst(index + 1) = [o \in Outcomes |-> OfFirst(index)[o] + samples[index][o]]
    BY <1>1, OfFirstNext
  <2> DEFINE a == OfFirst(index)
             b == samples[index]
  <2> HIDE DEF a, b
  <2>4. Describes(StatsMerge(total, workers[index].stats), [o \in Outcomes |-> a[o] + b[o]])
    BY <2>1, <2>2, <2>3, DescribesBoth DEF a, b
  <2> QED BY <1>3, <2>3, <2>4 DEF a, b
<1>5. WorkersOK'
  BY <1>1, <1>2 DEF ReportOK, WorkersOK
<1>6. TotalOK'
  <2>1. CASE index' = index + 1 /\ phase' = "merge"
    <3>1. OfFirst(index)' = OfFirst(index + 1)
      BY <1>1, <2>1 DEF OfFirst
    <3>2. Describes(total', OfFirst(index)') /\ ret' = Running
      BY <1>1, <1>3, <1>4, <2>1, <3>1
    <3> QED BY <2>1, <3>2 DEF TotalOK, Running
  <2>2. CASE phase' = "exited" /\ index + 1 = Cardinality(Threads)
    <3>1. OfFirst(Cardinality(Threads))' = OfFirst(index + 1)
      BY <1>1, <2>2 DEF OfFirst
    <3>2. Describes(total', OfFirst(Cardinality(Threads))') /\ report' = StatsPrint(total')
      BY <1>3, <1>4, <2>2, <3>1
    <3> QED BY <2>2, <3>2 DEF TotalOK
  <2> QED BY <1>2, <2>1, <2>2
<1> QED BY <1>5, <1>6 DEF ReportOK

\* A worker that has been created goes on, and its statistics are right.
LEMMA WorkerStepKeepsReport ==
  ASSUME IInv, ReportOK, Alive, NEW i \in Threads,
         workers[i].state \in {"created", "running"},
         workers'[i].state \in {"running", "ended"},
         Describes(workers'[i].stats, samples'[i]), Threads' = Threads,
         \A j \in Threads \ {i} : workers'[j] = workers[j] /\ samples'[j] = samples[j],
         UNCHANGED <<phase, script, config, index, results>>
  PROVE  ReportOK'
<1>1. phase \in {"launch", "join"} /\ ret = Running
  <2>1. phase \notin Preparing
    BY DEF IInv, LoopOK, Threads
  <2>2. phase \in Looping /\ phase # "merge"
    BY <2>1 DEF IInv, TypeOK, LoopOK, Alive, Preparing, Looping
  <2> QED BY <2>2 DEF IInv, LoopOK, Looping
<1>2. phase' = "launch" => \A j \in Threads : j >= index => j # i /\ workers'[j].state = "none"
  BY <1>1 DEF ReportOK, WorkersOK
<1>3. ASSUME NEW j \in Threads
      PROVE  IF workers'[j].state \in {"none", "created"} THEN samples'[j] = Empty
             ELSE Describes(workers'[j].stats, samples'[j])
  BY DEF ReportOK, WorkersOK
<1>4. WorkersOK'
  BY <1>1, <1>2, <1>3 DEF WorkersOK
<1>5. TotalOK'
  BY <1>1 DEF ReportOK, TotalOK, results, Running
<1> QED BY <1>4, <1>5 DEF ReportOK

LEMMA WorkerKeepsReport ==
  ASSUME IInv, ReportOK, Alive, NEW i \in Threads, WorkerNext(i)
  PROVE  ReportOK'
<1>1. /\ workers \in [Threads -> [state : {"none", "created", "running", "ended"},
                                  conn_count : Nat, stats : StatsType]]
      /\ samples \in [Threads -> Bags]
  BY DEF IInv, TypeOK, Bags
<1>2. IF workers[i].state \in {"none", "created"} THEN samples[i] = Empty
      ELSE Describes(workers[i].stats, samples[i])
  BY DEF ReportOK, WorkersOK
<1>3. CASE Begin(i)
  <2>1. PICK state \in {"running", "ended"} :
          workers' = [workers EXCEPT ![i].state = state, ![i].stats = StatsInit]
    BY <1>3 DEF Begin
  <2>2. /\ workers'[i].state = state /\ workers'[i].stats = StatsInit
        /\ Threads' = Threads /\ \A j \in Threads \ {i} : workers'[j] = workers[j]
    BY <1>1, <2>1 DEF Threads
  <2>3. samples[i] = Empty /\ workers[i].state = "created"
    BY <1>2, <1>3 DEF Begin
  <2>4. Describes(workers'[i].stats, samples'[i])
    BY <1>3, <2>2, <2>3, DescribesNone DEF Begin
  <2>5. UNCHANGED <<phase, script, config, index, results, samples>>
    BY <1>3 DEF Begin
  <2> QED BY <2>2, <2>3, <2>4, <2>5, WorkerStepKeepsReport
<1>4. ASSUME NEW o \in Outcomes, Record(i, o) PROVE ReportOK'
  <2>1. /\ workers'[i].state = "running" /\ workers[i].state = "running"
        /\ workers'[i].stats = Recorded(workers[i].stats, o)
        /\ Threads' = Threads /\ \A j \in Threads \ {i} : workers'[j] = workers[j]
    BY <1>1, <1>4 DEF Record, Threads
  <2>2. /\ samples'[i] = [samples[i] EXCEPT ![o] = @ + 1]
        /\ \A j \in Threads \ {i} : samples'[j] = samples[j]
    BY <1>1, <1>4 DEF Record
  <2>3. samples[i] \in Bags /\ Describes(workers[i].stats, samples[i])
    BY <1>1, <1>2, <2>1
  <2>4. Describes(workers'[i].stats, samples'[i])
    BY <2>1, <2>2, <2>3, DescribesOne
  <2>5. UNCHANGED <<phase, script, config, index, results>>
    BY <1>4 DEF Record
  <2> QED BY <2>1, <2>2, <2>4, <2>5, WorkerStepKeepsReport
<1>5. CASE GiveUp(i)
  <2>1. /\ workers'[i].state = "ended" /\ workers[i].state = "running"
        /\ workers'[i].stats = workers[i].stats
        /\ Threads' = Threads /\ \A j \in Threads \ {i} : workers'[j] = workers[j]
    BY <1>1, <1>5 DEF GiveUp, Threads
  <2>2. UNCHANGED <<phase, script, config, index, results, samples>>
    BY <1>5 DEF GiveUp
  <2>3. Describes(workers'[i].stats, samples'[i])
    BY <1>2, <2>1, <2>2
  <2> QED BY <2>1, <2>2, <2>3, WorkerStepKeepsReport
<1> QED BY <1>3, <1>4, <1>5 DEF WorkerNext, TimeOver

LEMMA NextKeepsReport == IInv /\ ConfigOK /\ ReportOK /\ [Next]_vars => ReportOK'
<1> SUFFICES ASSUME IInv, ConfigOK, ReportOK, [Next]_vars PROVE ReportOK'
  OBVIOUS
<1>1. CASE Start \/ Evaluate \/ Configure \/ Extract \/ Extracted \/ (Resolve /\ Exit(1))
  <2>1. phase \in Preparing /\ ret = Running
    BY <1>1 DEF Start, Evaluate, Configure, Extract, Extracted, Resolve, Preparing, IInv, LoopOK
  <2>2. workers' = workers /\ total' = total /\ phase' \in Preparing \cup {"exited"}
    BY <1>1 DEF Start, Evaluate, Configure, Extract, Extracted, Goto, Exit, results, Preparing
  <2>3. ret' = 0 => config'.mode = "cli"
    <3>1. CASE Configure
      <4>1. config = ConfigInit
        BY <3>1 DEF Configure, ConfigOK
      <4>2. config.mode = "cli"
        BY <4>1 DEF ConfigInit
      <4> QED BY <2>1, <3>1, <4>2 DEF Configure, Goto, Exit, results, Running
    <3>2. CASE Start \/ Evaluate \/ Extract \/ Extracted \/ (Resolve /\ Exit(1))
      <4>1. ret' # 0
        BY <2>1, <3>2 DEF Start, Evaluate, Extract, Extracted, Goto, Exit, results, Running
      <4> QED BY <4>1
    <3> QED BY <1>1, <3>1, <3>2
  <2> QED BY <2>1, <2>2, <2>3, EarlyKeepsReport
<1>2. CASE MainNext
  BY <1>1, <1>2, ResolveKeepsReport, LaunchKeepsReport, JoinKeepsReport, MergeKeepsReport
  DEF MainNext
<1>3. CASE Alive /\ \E i \in Threads : WorkerNext(i)
  BY <1>3, WorkerKeepsReport
<1>4. CASE UNCHANGED vars
  <2>1. /\ UNCHANGED <<phase, config, workers, index, total, report, ret, samples>>
        /\ Threads' = Threads
    BY <1>4 DEF vars, results, Threads
  <2>2. \A n : OfFirst(n)' = OfFirst(n)
    BY <2>1 DEF OfFirst
  <2>3. WorkersOK'
    BY <2>1 DEF ReportOK, WorkersOK
  <2>4. TotalOK'
    BY <2>1, <2>2 DEF ReportOK, TotalOK
  <2> QED BY <2>3, <2>4 DEF ReportOK
<1> QED BY <1>2, <1>3, <1>4 DEF Next, Finished

LEMMA ReportHolds == Spec => []ReportOK
BY InitReport, NextKeepsReport, ConfigHolds, IInvHolds, PTL DEF Spec

-----------------------------------------------------------------------------
(* The connections *)

\* The shares of n threads add up to the connections dealt.
LEMMA DealAddsUp ==
  ASSUME NEW n \in Nat \ {0}, NEW c \in Nat
  PROVE  SumFunctionOnSet(Deal(n, c), 0 .. n - 1) = c
<1> DEFINE q       == c \div n
           r       == c % n
           share   == Deal(n, c)
           Dealt(k) == k * q + IF k < r THEN k ELSE r
           P       == {k \in 0 .. n : SumFunctionOnSet(share, 0 .. k - 1) = Dealt(k)}
<1>1. q \in Nat /\ r \in 0 .. n - 1 /\ c = n * q + r
  OBVIOUS
<1>2. \A k \in 0 .. n - 1 : share[k] = q + (IF k < r THEN 1 ELSE 0)
  BY DEF Deal
<1> HIDE DEF q, r, share
<1>3. 0 \in P
  <2>1. 0 .. 0 - 1 = {}
    OBVIOUS
  <2>2. Dealt(0) = 0
    BY <1>1
  <2>3. SumFunctionOnSet(share, 0 .. 0 - 1) = 0
    BY <2>1, SumEmpty
  <2> HIDE DEF Dealt
  <2> QED BY <2>2, <2>3
<1>4. ASSUME NEW k \in P, k < n PROVE k + 1 \in P
  <2> DEFINE S == 0 .. k - 1
  <2>1. k \in 0 .. n - 1 /\ S \cup {k} = 0 .. (k + 1) - 1 /\ k \notin S
    BY <1>4
  <2>2. IsFiniteSet(S)
    BY <2>1, FS_Interval
  <2>3. share[k] \in Int /\ \A i \in S : share[i] \in Int
    BY <1>1, <1>2, <2>1
  <2>4. SumFunctionOnSet(share, S) = Dealt(k)
    OBVIOUS
  <2>5. SumFunctionOnSet(share, S \cup {k}) = SumFunctionOnSet(share, S) + share[k]
    <3> HIDE DEF S, P
    <3> QED BY <2>1, <2>2, <2>3, SumAdds
  <2>6. (k + 1) * q = k * q + q
    BY <1>1, <2>1
  <2>7. k * q \in Nat
    BY <1>1, <2>1
  <2>8. Dealt(k + 1) = Dealt(k) + share[k]
    BY <1>1, <1>2, <2>1, <2>6, <2>7
  <2> HIDE DEF S, Dealt
  <2>9. SumFunctionOnSet(share, 0 .. (k + 1) - 1) = Dealt(k + 1)
    BY <2>1, <2>4, <2>5, <2>8, Zenon
  <2>10. k + 1 \in 0 .. n
    BY <1>4, <2>1
  <2> QED BY <2>9, <2>10
<1>5. n \in P
  <2> HIDE DEF P
  <2>1. P \in SUBSET (0 .. n)
    BY DEF P
  <2> QED BY <1>3, <1>4, <2>1, CountUp
<1>6. Dealt(n) = c
  <2>1. Dealt(n) = n * q + r
    BY <1>1
  <2> QED BY <1>1, <2>1
<1> QED BY <1>5, <1>6 DEF share

\* Whatever numbers of connections and threads the script asks for, each of the
\* connections belongs to one thread and their shares are even.
THEOREM AllConnectionsDealt == Spec => []EveryConnectionDealt
<1>1. IInv /\ SharesOK /\ EvenShares => EveryConnectionDealt
  <2> SUFFICES ASSUME IInv, SharesOK, workers # <<>>
               PROVE  SumFunction([i \in Threads |-> workers[i].conn_count])
                      = config.connections
    BY DEF EveryConnectionDealt
  <2> DEFINE n     == Lower(config.threads, config.connections)
             c     == config.connections
             share == Deal(n, c)
             f     == [i \in Threads |-> workers[i].conn_count]
  <2>1. n \in Nat \ {0} /\ c \in Nat
    BY LowerOne DEF IInv, TypeOK
  <2>2. Threads = 0 .. n - 1 /\ \A i \in Threads : workers[i].conn_count = share[i]
    BY DEF SharesOK
  <2>3. DOMAIN f = Threads /\ \A i \in Threads : f[i] = share[i]
    BY <2>2
  <2>4. IsFiniteSet(Threads)
    <3> HIDE DEF n
    <3> QED BY <2>1, <2>2, FS_Interval
  <2> HIDE DEF n, c, f
  <2>5. SumFunctionOnSet(share, 0 .. n - 1) = c
    BY <2>1, DealAddsUp
  <2> HIDE DEF share
  <2>6. SumFunctionOnSet(f, Threads) = SumFunctionOnSet(share, Threads)
    BY <2>3, <2>4, SumSame
  <2>7. SumFunction(f) = c
    BY <2>2, <2>3, <2>5, <2>6 DEF SumFunction
  <2> QED BY <2>7 DEF f, c
<1> QED BY <1>1, SharesHold, SharesAreEven, IInvHolds, PTL

-----------------------------------------------------------------------------
(* The figures of the report *)

\* What all workers recorded between them.
Together == OfFirst(Cardinality(Threads))

LEMMA TogetherIs ==
  ASSUME IInv
  PROVE  Together \in Bags /\ \A o \in Outcomes : Total(o) = Together[o]
<1>1. /\ Cardinality(Threads) \in Nat /\ Threads = 0 .. Cardinality(Threads) - 1
      /\ samples \in [Threads -> [Outcomes -> Nat]]
  BY ThreadCount DEF IInv, TypeOK
<1>2. IsFiniteSet(Threads)
  BY <1>1, FS_Interval
<1>3. ASSUME NEW o \in Outcomes
      PROVE  Together[o] \in Nat /\ Total(o) = Together[o]
  <2> DEFINE f == [i \in Threads |-> samples[i][o]]
  <2>1. DOMAIN f = Threads /\ \A i \in Threads : f[i] \in Nat
    BY <1>1
  <2>2. Together[o] = SumFunctionOnSet(f, 0 .. Cardinality(Threads) - 1)
    BY DEF Together, OfFirst
  <2>3. Total(o) = SumFunction(f)
    BY DEF Total
  <2> HIDE DEF f
  <2>4. SumFunctionOnSet(f, Threads) \in Nat
    BY <1>2, <2>1, SumTyped
  <2> QED BY <1>1, <2>1, <2>2, <2>3, <2>4 DEF SumFunction
<1>4. Together = [o \in Outcomes |-> Together[o]]
  BY DEF Together, OfFirst
<1> HIDE DEF Together
<1> QED BY <1>3, <1>4 DEF Bags

\* A sum over some outcomes is a weight if all else weighs nothing.
LEMMA WeightOf ==
  ASSUME NEW bag \in Bags, NEW w \in Weights, NEW S \in SUBSET Outcomes,
         \A o \in Outcomes \ S : bag[o] * w[o] = 0,
         NEW g, DOMAIN g = S, \A o \in S : g[o] = bag[o] * w[o]
  PROVE  SumFunction(g) = Weight(bag, w)
<1> DEFINE f == [o \in Outcomes |-> bag[o] * w[o]]
<1>1. /\ \A o \in Outcomes : f[o] \in Nat
      /\ \A o \in Outcomes \ S : f[o] = 0
      /\ \A o \in S : f[o] = g[o]
  BY TermTyped
<1>2. IsFiniteSet(Outcomes) /\ IsFiniteSet(S)
  BY OutcomesAssumption, FS_Subset
<1> HIDE DEF f
<1>3. SumFunctionOnSet(f, Outcomes) = SumFunctionOnSet(f, S)
  BY <1>1, <1>2, SumWithin
<1>4. SumFunctionOnSet(f, S) = SumFunctionOnSet(g, S)
  BY <1>1, <1>2, SumSame
<1> QED BY <1>3, <1>4 DEF Weight, SumFunction, f

\* An outcome that was recorded and weighs something counts.
LEMMA WeightPositive ==
  ASSUME NEW bag \in Bags, NEW w \in Weights, NEW o \in Outcomes, bag[o] > 0, w[o] > 0
  PROVE  Weight(bag, w) > 0
<1> DEFINE f == [x \in Outcomes |-> bag[x] * w[x]]
<1>1. \A x \in Outcomes : f[x] \in Nat
  BY TermTyped
<1>2. f[o] > 0
  <2>1. bag[o] \in Nat \ {0} /\ w[o] \in Nat \ {0}
    BY DEF Bags, Weights
  <2>2. \A a, b \in Nat \ {0} : a * b > 0
    OBVIOUS
  <2> QED BY <2>1, <2>2
<1> HIDE DEF f
<1>3. SumFunctionOnSet(f, Outcomes) \in Nat /\ SumFunctionOnSet(f, Outcomes) >= f[o]
  BY <1>1, OutcomesAssumption, SumExceeds
<1>4. SumFunctionOnSet(f, Outcomes) > 0
  BY <1>1, <1>2, <1>3
<1> QED BY <1>4 DEF Weight, f

\* A latency t comes c times more often: the squares of the distances to any u
\* have grown, and the number and the sum of the squares still outweigh the sum.
LEMMA SpreadGrows ==
  ASSUME NEW n \in Nat, NEW s \in Nat, NEW q \in Nat, NEW c \in Nat, NEW t \in Nat,
         \A u \in Nat : n * (u * u) + q >= 2 * (s * u),
         n * q >= s * s
  PROVE  /\ \A u \in Nat : (n + c) * (u * u) + (q + c * (t * t)) >= 2 * ((s + c * t) * u)
         /\ (n + c) * (q + c * (t * t)) >= (s + c * t) * (s + c * t)
<1>1. ASSUME NEW u \in Nat
      PROVE  (n + c) * (u * u) + (q + c * (t * t)) >= 2 * ((s + c * t) * u)
  <2>1. (u - t) * (u - t) >= 0
    <3> DEFINE d == u - t
    <3>1. d \in Int
      OBVIOUS
    <3> HIDE DEF d
    <3>2. d * d >= 0
      BY <3>1
    <3> QED BY <3>2 DEF d
  <2>2. c * ((u - t) * (u - t)) >= 0
    BY <2>1
  <2>3. (n + c) * (u * u) + (q + c * (t * t)) - 2 * ((s + c * t) * u)
        = (n * (u * u) + q - 2 * (s * u)) + c * ((u - t) * (u - t))
    OBVIOUS
  <2>4. n * (u * u) + q - 2 * (s * u) >= 0
    OBVIOUS
  <2> QED BY <2>2, <2>3, <2>4
<1>2. (n + c) * (q + c * (t * t)) >= (s + c * t) * (s + c * t)
  <2>1. n * (t * t) + q - 2 * (s * t) >= 0
    OBVIOUS
  <2>2. c * (n * (t * t) + q - 2 * (s * t)) >= 0
    BY <2>1
  <2>3. (n + c) * (q + c * (t * t)) - (s + c * t) * (s + c * t)
        = (n * q - s * s) + c * (n * (t * t) + q - 2 * (s * t))
    OBVIOUS
  <2> QED BY <2>2, <2>3
<1> QED BY <1>1, <1>2

\* The variance is not negative.
LEMMA SpreadHolds ==
  ASSUME NEW bag \in Bags
  PROVE  Weight(bag, Kept) * Weight(bag, Square) >= Weight(bag, Latency) * Weight(bag, Latency)
<1> DEFINE a == [o \in Outcomes |-> bag[o] * Kept[o]]
           b == [o \in Outcomes |-> bag[o] * Latency[o]]
           d == [o \in Outcomes |-> bag[o] * Square[o]]
           n(T) == SumFunctionOnSet(a, T)
           s(T) == SumFunctionOnSet(b, T)
           q(T) == SumFunctionOnSet(d, T)
           Spread(T) == /\ \A u \in Nat : n(T) * (u * u) + q(T) >= 2 * (s(T) * u)
                        /\ n(T) * q(T) >= s(T) * s(T)
           P == {T \in SUBSET Outcomes : Spread(T)}
<1>1. \A o \in Outcomes : a[o] \in Nat /\ b[o] \in Nat /\ d[o] \in Nat
  BY WeightsTyped, TermTyped
<1>2. ASSUME NEW o \in Outcomes
      PROVE  b[o] = a[o] * o.ticks /\ d[o] = a[o] * (o.ticks * o.ticks)
  <2> DEFINE t  == o.ticks
             tt == t * t
  <2>1. bag[o] \in Nat /\ Kept[o] \in Nat /\ t \in Nat
    BY WeightsTyped, TicksTyped DEF Bags, Weights
  <2>2. tt \in Nat
    BY <2>1, ProductTyped
  <2>3. \A x, y, z \in Nat : x * (y * z) = (x * y) * z
    OBVIOUS
  <2>4. Latency[o] = Kept[o] * t /\ Square[o] = Kept[o] * tt
    BY DEF Latency, Square
  <2> HIDE DEF tt, t
  <2>5. bag[o] * Latency[o] = (bag[o] * Kept[o]) * t
    BY <2>1, <2>3, <2>4
  <2>6. bag[o] * Square[o] = (bag[o] * Kept[o]) * tt
    BY <2>1, <2>2, <2>3, <2>4
  <2> QED BY <2>5, <2>6 DEF tt, t
<1> HIDE DEF a, b, d
<1>3. {} \in P
  <2>1. n({}) = 0 /\ s({}) = 0 /\ q({}) = 0
    BY SumEmpty
  <2> HIDE DEF n, s, q
  <2>2. Spread({})
    BY <2>1
  <2> QED BY <2>2
<1>4. ASSUME NEW T \in P, NEW o \in Outcomes \ T PROVE T \cup {o} \in P
  <2>1. Spread(T) /\ T \in SUBSET Outcomes /\ o \in Outcomes /\ o \notin T
    OBVIOUS
  <2>2. IsFiniteSet(T)
    BY OutcomesAssumption, FS_Subset
  <2> HIDE DEF P, Spread
  <2>3. ASSUME NEW f, \A x \in Outcomes : f[x] \in Nat
        PROVE  /\ SumFunctionOnSet(f, T) \in Nat
               /\ SumFunctionOnSet(f, T \cup {o}) = SumFunctionOnSet(f, T) + f[o]
    <3>1. /\ \A x \in T : f[x] \in Nat
          /\ f[o] \in Int /\ \A x \in T : f[x] \in Int
      BY <2>1, <2>3
    <3>2. SumFunctionOnSet(f, T) \in Nat
      BY <2>2, <3>1, SumTyped
    <3>3. SumFunctionOnSet(f, T \cup {o}) = SumFunctionOnSet(f, T) + f[o]
      BY <2>1, <2>2, <3>1, SumAdds
    <3> QED BY <3>2, <3>3
  <2>4. n(T) \in Nat /\ n(T \cup {o}) = n(T) + a[o]
    BY <1>1, <2>3
  <2>5. s(T) \in Nat /\ s(T \cup {o}) = s(T) + a[o] * o.ticks
    BY <1>1, <1>2, <2>1, <2>3
  <2>6. q(T) \in Nat /\ q(T \cup {o}) = q(T) + a[o] * (o.ticks * o.ticks)
    BY <1>1, <1>2, <2>1, <2>3
  <2>7. a[o] \in Nat /\ o.ticks \in Nat
    BY <1>1, <2>1, TicksTyped
  <2>8. /\ \A u \in Nat : n(T) * (u * u) + q(T) >= 2 * (s(T) * u)
        /\ n(T) * q(T) >= s(T) * s(T)
    BY <2>1 DEF Spread
  <2> HIDE DEF n, s, q
  <2>9. Spread(T \cup {o})
    <3> DEFINE c == a[o]
               t == o.ticks
    <3>1. /\ n(T \cup {o}) = n(T) + c
          /\ s(T \cup {o}) = s(T) + c * t
          /\ q(T \cup {o}) = q(T) + c * (t * t)
          /\ c \in Nat /\ t \in Nat /\ n(T) \in Nat /\ s(T) \in Nat /\ q(T) \in Nat
      BY <2>4, <2>5, <2>6, <2>7
    <3> HIDE DEF c, t
    <3>2. /\ \A u \in Nat : (n(T) + c) * (u * u) + (q(T) + c * (t * t)) >= 2 * ((s(T) + c * t) * u)
          /\ (n(T) + c) * (q(T) + c * (t * t)) >= (s(T) + c * t) * (s(T) + c * t)
      BY <2>8, <3>1, SpreadGrows
    <3> QED BY <3>1, <3>2, Zenon DEF Spread
  <2> QED BY <2>1, <2>9 DEF P
<1>5. Outcomes \in P
  <2> HIDE DEF P
  <2>1. P \in SUBSET (SUBSET Outcomes)
    BY DEF P
  <2> QED BY <1>3, <1>4, <2>1, OutcomesAssumption, AddUp
<1> QED BY <1>5 DEF Weight, a, b, d

\* In a state in which the report has been printed, what it is made of.
LEMMA ReportMade ==
  ASSUME IInv, ReportOK, ret = 0, config.mode # "cli"
  PROVE  /\ Together \in Bags /\ Describes(total, Together) /\ report = StatsPrint(total)
         /\ \A o \in Outcomes : Total(o) = Together[o] /\ Together[o] \in Nat
         /\ Timed = {o \in Outcomes : Together[o] > 0 /\ o.kind \notin Failures}
         /\ Ticks = Seen(Together)
<1>1. Together \in Bags /\ \A o \in Outcomes : Total(o) = Together[o]
  BY TogetherIs
<1>2. Describes(total, Together) /\ report = StatsPrint(total)
  BY DEF ReportOK, TotalOK, Together
<1>3. \A o \in Outcomes : Together[o] \in Nat
  BY <1>1 DEF Bags
<1> HIDE DEF Together, Total
<1>4. Timed = {o \in Outcomes : Together[o] > 0 /\ o.kind \notin Failures}
  BY <1>1 DEF Timed
<1>5. Ticks = Seen(Together)
  BY <1>4 DEF Ticks, Seen
<1> QED BY <1>1, <1>2, <1>3, <1>4, <1>5

\* The outcomes that are not timed weigh nothing where the kept ones are summed.
LEMMA TimedWeighs ==
  ASSUME IInv, ReportOK, ret = 0, config.mode # "cli", NEW w \in Weights,
         \A o \in Outcomes : Kept[o] = 0 => w[o] = 0
  PROVE  \A o \in Outcomes \ Timed : Together[o] * w[o] = 0
<1> SUFFICES ASSUME NEW o \in Outcomes, o \notin Timed PROVE Together[o] * w[o] = 0
  OBVIOUS
<1>1. Together[o] \in Nat /\ w[o] \in Nat
  BY ReportMade DEF Weights
<1>2. Together[o] = 0 \/ o.kind \in Failures
  BY <1>1, ReportMade
<1>3. Together[o] = 0 \/ w[o] = 0
  BY <1>2 DEF Kept
<1> QED BY <1>1, <1>3

LEMMA TimedKept ==
  ASSUME IInv, ReportOK, ret = 0, config.mode # "cli", NEW o \in Timed
  PROVE  /\ o \in Outcomes /\ Together[o] > 0 /\ Kept[o] = 1
         /\ Latency[o] = o.ticks /\ Square[o] = o.ticks * o.ticks
<1>1. o \in Outcomes /\ Together[o] > 0 /\ Kept[o] = 1
  BY ReportMade DEF Kept
<1>2. o.ticks \in Nat /\ o.ticks * o.ticks \in Nat
  BY <1>1, TicksTyped, ProductTyped
<1> QED BY <1>1, <1>2 DEF Latency, Square

\* How many requests were timed, and the sums of the report.
LEMMA TimedSums ==
  ASSUME IInv, ReportOK, ret = 0, config.mode # "cli"
  PROVE  /\ HowMany(Timed) = Weight(Together, Kept)
         /\ Weigh(LAMBDA o : o.ticks, Timed) = Weight(Together, Latency)
         /\ Weigh(LAMBDA o : o.ticks * o.ticks, Timed) = Weight(Together, Square)
         /\ \A k : Weigh(LAMBDA o : Adds(o.kind, k), Outcomes) = Weight(Together, Added(k))
<1>1. Together \in Bags /\ \A o \in Outcomes : Total(o) = Together[o] /\ Together[o] \in Nat
  BY ReportMade
<1>2. Timed \in SUBSET Outcomes
  BY DEF Timed
<1> HIDE DEF Timed, Total, Together
<1>3. /\ Kept \in Weights /\ Latency \in Weights /\ Square \in Weights
      /\ \A o \in Outcomes : Kept[o] = 0 => Latency[o] = 0 /\ Square[o] = 0
  <2>1. \A o \in Outcomes : o.ticks \in Nat /\ o.ticks * o.ticks \in Nat
    BY TicksTyped, ProductTyped
  <2> QED BY <2>1, WeightsTyped DEF Latency, Square
<1>4. ASSUME NEW w \in {Kept, Latency, Square}, NEW g, DOMAIN g = Timed,
             \A o \in Timed : g[o] = Together[o] * w[o]
      PROVE  SumFunction(g) = Weight(Together, w)
  <2>1. w \in Weights /\ \A o \in Outcomes : Kept[o] = 0 => w[o] = 0
    BY <1>3
  <2>2. \A o \in Outcomes \ Timed : Together[o] * w[o] = 0
    BY <2>1, TimedWeighs
  <2> QED BY <1>1, <1>2, <1>4, <2>1, <2>2, WeightOf
<1>5. HowMany(Timed) = Weight(Together, Kept)
  <2> DEFINE g == [o \in Timed |-> Total(o)]
  <2>1. ASSUME NEW o \in Timed PROVE g[o] = Together[o] * Kept[o]
    <3>1. Kept[o] = 1 /\ Together[o] \in Nat /\ Total(o) = Together[o]
      BY <1>1, <1>2, TimedKept
    <3>2. Together[o] * 1 = Together[o]
      BY <3>1
    <3> QED BY <3>1, <3>2
  <2>2. DOMAIN g = Timed
    OBVIOUS
  <2> HIDE DEF g
  <2>3. SumFunction(g) = Weight(Together, Kept)
    BY <1>4, <2>1, <2>2
  <2> QED BY <2>3 DEF HowMany, g
<1>6. Weigh(LAMBDA o : o.ticks, Timed) = Weight(Together, Latency)
  <2> DEFINE g == [o \in Timed |-> Total(o) * o.ticks]
  <2>1. DOMAIN g = Timed /\ \A o \in Timed : g[o] = Together[o] * Latency[o]
    BY <1>1, <1>2, TimedKept
  <2> HIDE DEF g
  <2>2. SumFunction(g) = Weight(Together, Latency)
    BY <1>4, <2>1
  <2> QED BY <2>2 DEF Weigh, g
<1>7. Weigh(LAMBDA o : o.ticks * o.ticks, Timed) = Weight(Together, Square)
  <2> DEFINE g == [o \in Timed |-> Total(o) * (o.ticks * o.ticks)]
  <2>1. DOMAIN g = Timed /\ \A o \in Timed : g[o] = Together[o] * Square[o]
    BY <1>1, <1>2, TimedKept
  <2> HIDE DEF g
  <2>2. SumFunction(g) = Weight(Together, Square)
    BY <1>4, <2>1
  <2> QED BY <2>2 DEF Weigh, g
<1>8. ASSUME NEW k
      PROVE  Weigh(LAMBDA o : Adds(o.kind, k), Outcomes) = Weight(Together, Added(k))
  <2> DEFINE g == [o \in Outcomes |-> Total(o) * Adds(o.kind, k)]
             w == Added(k)
  <2>1. DOMAIN g = Outcomes /\ \A o \in Outcomes : g[o] = Together[o] * w[o]
    BY <1>1 DEF Added
  <2>2. w \in Weights /\ Outcomes \in SUBSET Outcomes
    BY WeightsTyped
  <2> HIDE DEF g, w
  <2>3. SumFunction(g) = Weight(Together, w)
    BY <1>1, <2>1, <2>2, WeightOf
  <2> QED BY <2>3 DEF Weigh, g, w
<1> QED BY <1>5, <1>6, <1>7, <1>8

\* A benchmark that exits with 0 has printed the truth about what its workers
\* recorded between them, for any number of workers that record any outcomes in
\* any order and are joined whenever they end.
THEOREM ReportIsTrue == Spec => []ReportComplete
<1> DEFINE n       == HowMany(Timed)
           sum     == Weigh(LAMBDA o : o.ticks, Timed)
           squares == Weigh(LAMBDA o : o.ticks * o.ticks, Timed)
           h       == total.latency
<1>1. ASSUME IInv, ReportOK, ret = 0, config.mode # "cli"
      PROVE  /\ \A k \in Counters :
                  report.counter[k] = Weigh(LAMBDA o : Adds(o.kind, k), Outcomes)
             /\ report.counter["requests"] = n
             /\ Ticks # {} => /\ report.min = Min(Ticks)
                              /\ report.max = Max(Ticks)
                              /\ report.mean[1] * n = sum * report.mean[2]
             /\ n > 1 => report.variance = <<n * squares - sum * sum, n * n>>
  <2>1. /\ Together \in Bags /\ Describes(total, Together) /\ report = StatsPrint(total)
        /\ Ticks = Seen(Together)
    BY <1>1, ReportMade
  <2>2. /\ n = Weight(Together, Kept) /\ sum = Weight(Together, Latency)
        /\ squares = Weight(Together, Square)
        /\ \A k : Weigh(LAMBDA o : Adds(o.kind, k), Outcomes) = Weight(Together, Added(k))
    BY <1>1, TimedSums
  <2>3. n \in Nat /\ sum \in Nat /\ squares \in Nat
    BY <2>1, <2>2, WeightsTyped, WeightTyped
  <2>4. h.count = n /\ h.sum = sum /\ h.sum_sq = squares
    BY <2>1, <2>2 DEF Describes, Figures
  <2>5. n * squares >= sum * sum
    BY <2>1, <2>2, SpreadHolds
  <2>6. Ticks # {} => n > 0
    <3> SUFFICES ASSUME Ticks # {} PROVE n > 0
      OBVIOUS
    <3>1. PICK o \in Timed : TRUE
      BY DEF Ticks
    <3>2. o \in Outcomes /\ Together[o] > 0 /\ Kept[o] = 1
      BY <1>1, TimedKept
    <3>3. Kept \in Weights /\ Kept[o] > 0
      BY <3>2, WeightsTyped
    <3>4. Weight(Together, Kept) > 0
      BY <2>1, <3>2, <3>3, WeightPositive
    <3> QED BY <2>2, <3>4
  <2>7. \A k \in Counters :
          report.counter[k] = Weigh(LAMBDA o : Adds(o.kind, k), Outcomes)
    <3>1. \A k \in Counters : report.counter[k] = Weight(Together, Added(k))
      BY <2>1 DEF Describes, Figures, StatsPrint
    <3> QED BY <2>2, <3>1
  <2>8. report.counter["requests"] = n
    <3>1. Added("requests") = Kept
      BY DEF Added, Adds, Kept
    <3>2. report.counter["requests"] = Weight(Together, Added("requests"))
      BY <2>1 DEF Describes, Figures, StatsPrint, Counters
    <3> QED BY <2>2, <3>1, <3>2
  <2> HIDE DEF n, sum, squares
  <2>9. ASSUME Ticks # {}
        PROVE  report.min = Min(Ticks) /\ report.max = Max(Ticks)
    <3>1. /\ \A t \in Ticks : h.min <= t /\ t <= h.max
          /\ h.min \in Ticks \cup {Never}
          /\ h.max \in Ticks \cup {0}
      BY <2>1 DEF Describes, Bounds
    <3>2. \A t \in Ticks : t \in Nat /\ t <= Never
      BY <2>1, SeenTyped
    <3>3. Never \in Nat
      BY DEF Never
    <3>4. h.min \in Ticks /\ h.max \in Ticks
      BY <2>9, <3>1, <3>2, <3>3
    <3>5. report.min = h.min /\ report.max = h.max
      BY <2>1 DEF StatsPrint
    <3>6. Min(Ticks) = h.min
      <4>1. \A m \in Ticks : (\A t \in Ticks : m <= t) => m = h.min
        BY <3>1, <3>2, <3>4
      <4> QED BY <3>1, <3>4, <4>1 DEF Min
    <3>7. Max(Ticks) = h.max
      <4>1. \A m \in Ticks : (\A t \in Ticks : m >= t) => m = h.max
        BY <3>1, <3>2, <3>4
      <4>2. \A t \in Ticks : h.max >= t
        BY <3>1, <3>2, <3>4
      <4> QED BY <3>4, <4>1, <4>2 DEF Max
    <3> QED BY <3>5, <3>6, <3>7
  <2>10. ASSUME Ticks # {} PROVE report.mean[1] * n = sum * report.mean[2]
    <3>1. report.mean = <<sum, n>>
      BY <2>1, <2>3, <2>4, <2>6, <2>10 DEF StatsPrint, HistMean
    <3> QED BY <3>1
  <2>11. ASSUME n > 1 PROVE report.variance = <<n * squares - sum * sum, n * n>>
    <3>1. report.variance = <<Higher(0, squares * n - sum * sum), n * n>>
      BY <2>1, <2>3, <2>4, <2>11 DEF StatsPrint, HistVariance
    <3>2. squares * n = n * squares
      BY <2>3
    <3>3. n * squares \in Nat /\ sum * sum \in Nat
      BY <2>3, ProductTyped
    <3>4. Higher(0, n * squares - sum * sum) = n * squares - sum * sum
      <4> DEFINE d == n * squares - sum * sum
      <4>1. d \in Nat
        BY <2>5, <3>3
      <4> HIDE DEF d
      <4>2. Higher(0, d) = d
        BY <4>1 DEF Higher
      <4> QED BY <4>2 DEF d
    <3> QED BY <3>1, <3>2, <3>4
  <2> QED BY <2>7, <2>8, <2>9, <2>10, <2>11
<1>2. IInv /\ ReportOK => ReportComplete
  BY <1>1 DEF ReportComplete
<1> QED BY <1>2, ReportHolds, IInvHolds, PTL

-----------------------------------------------------------------------------
(* The percentiles of the report *)

LEMMA QuotientGrows ==
  ASSUME NEW a \in Nat, NEW b \in Nat, a <= b, NEW c \in Nat \ {0}
  PROVE  a \div c <= b \div c
<1> DEFINE x == a \div c
           y == b \div c
<1>1. /\ x \in Nat /\ x * c <= a
      /\ y \in Nat /\ b < y * c + c
  BY Quotient
<1> HIDE DEF x, y
<1>2. (y + 1) * c = y * c + c
  BY <1>1
<1>3. x * c < (y + 1) * c
  <2>1. x * c \in Nat /\ y * c \in Nat
    BY <1>1
  <2> QED BY <1>1, <1>2, <2>1
<1>4. x < y + 1
  BY <1>1, <1>3, FactorLess
<1>5. x <= y
  BY <1>1, <1>4
<1> QED BY <1>5 DEF x, y

\* The slots are in the order of the latencies.
LEMMA SlotGrows ==
  ASSUME NEW u \in Nat, NEW t \in Nat, u <= t, SlotOf(t) # Over
  PROVE  SlotOf(u) # Over /\ SlotOf(u) <= SlotOf(t)
<1> DEFINE step == CoarseStep * Unit
<1>1. Unit \in Nat \ {0} /\ FineSlots \in Nat /\ CoarseSlots \in Nat /\ step \in Nat \ {0}
  BY UnitAssumption, SlotsAssumption, StepAssumption
<1>2. FineMax \in Nat /\ FineMax = FineSlots * Unit
  BY <1>1 DEF FineMax
<1>3. SlotOf(u) # Over
  <2>1. SlotStart(FineSlots + CoarseSlots) \in Int
    <3>1. CoarseSlots * step \in Nat
      BY <1>1
    <3>2. SlotStart(FineSlots + CoarseSlots) = FineMax + CoarseSlots * step
      BY <1>1, StepAssumption DEF SlotStart
    <3> HIDE DEF step
    <3> QED BY <1>2, <3>1, <3>2
  <2>2. ~(t >= SlotStart(FineSlots + CoarseSlots))
    BY SlotHolds
  <2>3. ~(u >= SlotStart(FineSlots + CoarseSlots))
    BY <2>1, <2>2
  <2> QED BY <2>3, SlotHolds
<1>4. CASE t < FineMax
  <2>1. SlotOf(u) = u \div Unit /\ SlotOf(t) = t \div Unit
    BY <1>2, <1>4 DEF SlotOf
  <2> QED BY <1>1, <1>3, <2>1, QuotientGrows
<1>5. CASE t >= FineMax
  <2> DEFINE coarse(v) == (v - FineMax) \div step
  <2>1. t - FineMax \in Nat
    BY <1>2, <1>5
  <2>2. SlotOf(t) = FineSlots + coarse(t)
    BY <1>2, <1>5 DEF SlotOf
  <2>3. CASE u < FineMax
    <3>1. SlotOf(u) = u \div Unit
      BY <2>3 DEF SlotOf
    <3>2. u \div Unit < FineSlots
      <4>1. u \div Unit \in Nat /\ (u \div Unit) * Unit <= u
        BY <1>1, Quotient
      <4> DEFINE x == u \div Unit
      <4> HIDE DEF x
      <4>2. x * Unit < FineSlots * Unit
        <5>1. x * Unit \in Nat
          BY <1>1, <4>1 DEF x
        <5> QED BY <1>2, <2>3, <4>1, <5>1 DEF x
      <4> QED BY <1>1, <4>1, <4>2, FactorLess DEF x
    <3>3. coarse(t) \in Nat
      <4> HIDE DEF step
      <4> QED BY <1>1, <2>1, Quotient
    <3>4. u \div Unit \in Nat
      BY <1>1, Quotient
    <3> HIDE DEF coarse
    <3> QED BY <1>1, <1>3, <2>2, <3>1, <3>2, <3>3, <3>4
  <2>4. CASE u >= FineMax
    <3>1. u - FineMax \in Nat /\ u - FineMax <= t - FineMax
      BY <1>2, <2>4
    <3>2. SlotOf(u) = FineSlots + coarse(u)
      BY <1>2, <1>3, <2>4 DEF SlotOf
    <3>3. coarse(u) <= coarse(t) /\ coarse(u) \in Nat /\ coarse(t) \in Nat
      <4> HIDE DEF step
      <4>1. coarse(u) <= coarse(t)
        BY <1>1, <2>1, <3>1, QuotientGrows
      <4>2. coarse(u) \in Nat /\ coarse(t) \in Nat
        BY <1>1, <2>1, <3>1, Quotient
      <4> QED BY <4>1, <4>2
    <3> HIDE DEF coarse
    <3> QED BY <1>1, <1>3, <2>2, <3>2, <3>3
  <2> QED BY <1>2, <2>3, <2>4
<1> QED BY <1>2, <1>4, <1>5

\* The histogram of statistics that describe a bag, summed up to a slot.
LEMMA CumulativeIs ==
  ASSUME NEW s, NEW bag \in Bags, Describes(s, bag), NEW i \in HistSlots
  PROVE  Cumulative(s.latency, i) = Weight(bag, In(0 .. i))
<1> DEFINE slots  == s.latency.slots
           Sum(k) == SumFunctionOnSet(slots, 0 .. k - 1)
           n      == i + 1
           P      == {k \in 0 .. n : Sum(k) = Weight(bag, In(0 .. k - 1))}
<1>1. i \in Nat /\ n \in Nat /\ \A k \in 0 .. i : k \in HistSlots
  BY SlotsAssumption DEF HistSlots
<1>2. /\ \A k \in HistSlots : slots[k] \in Nat
      /\ \A k \in HistSlots : slots[k] = Weight(bag, In({k}))
  BY DEF Describes, Figures, StatsType, HistType
<1> HIDE DEF slots
<1>3. 0 \in P
  <2>1. 0 .. 0 - 1 = {}
    OBVIOUS
  <2>2. In({}) \in Weights /\ \A o \in Outcomes : bag[o] * In({})[o] = 0
    <3>1. \A o \in Outcomes : In({})[o] = 0 /\ bag[o] \in Nat
      BY DEF In, Bags
    <3> QED BY <3>1, WeightsTyped
  <2>3. Weight(bag, In({})) = 0
    <3> DEFINE f == [o \in Outcomes |-> bag[o] * In({})[o]]
    <3>1. \A o \in Outcomes : f[o] = 0
      BY <2>2
    <3> HIDE DEF f
    <3>2. SumFunctionOnSet(f, Outcomes) = SumFunctionOnSet(f, {})
      BY <3>1, OutcomesAssumption, SumWithin
    <3> QED BY <3>2, SumEmpty DEF Weight, f
  <2>4. Sum(0) = Weight(bag, In(0 .. 0 - 1))
    BY <2>1, <2>3, SumEmpty
  <2> HIDE DEF Sum
  <2> QED BY <1>1, <2>4
<1>4. ASSUME NEW k \in P, k < n PROVE k + 1 \in P
  <2> DEFINE S == 0 .. k - 1
  <2>1. /\ k \in HistSlots /\ S \cup {k} = 0 .. (k + 1) - 1 /\ k \notin S
        /\ \A j \in S : j \in HistSlots
        /\ k \in Nat /\ k + 1 \in 0 .. n
    BY <1>1, <1>4
  <2>2. SumFunctionOnSet(slots, S) = Weight(bag, In(S))
    OBVIOUS
  <2>3. IsFiniteSet(S)
    BY <2>1, FS_Interval
  <2> HIDE DEF S, P
  <2>4. SumFunctionOnSet(slots, S \cup {k}) = SumFunctionOnSet(slots, S) + slots[k]
    <3>1. slots[k] \in Int /\ \A j \in S : slots[j] \in Int
      BY <1>2, <2>1
    <3> QED BY <2>1, <2>3, <3>1, SumAdds
  <2>5. Weight(bag, In(S \cup {k})) = Weight(bag, In(S)) + Weight(bag, In({k}))
    <3>1. ASSUME NEW o \in Outcomes
          PROVE  In(S \cup {k})[o] = In(S)[o] + In({k})[o]
      <4>1. Kept[o] \in Nat
        BY WeightsTyped DEF Weights
      <4> QED BY <2>1, <4>1 DEF In
    <3> DEFINE u == In(S)
               v == In({k})
               w == In(S \cup {k})
    <3>2. u \in Weights /\ v \in Weights /\ w \in Weights /\ \A o \in Outcomes : w[o] = u[o] + v[o]
      BY <3>1, WeightsTyped
    <3> HIDE DEF u, v, w
    <3>3. Weight(bag, w) = Weight(bag, u) + Weight(bag, v)
      BY <3>2, WeightParts
    <3> QED BY <3>3 DEF u, v, w
  <2>6. SumFunctionOnSet(slots, S \cup {k}) = Weight(bag, In(S \cup {k}))
    BY <1>2, <2>1, <2>2, <2>4, <2>5
  <2>7. Sum(k + 1) = Weight(bag, In(0 .. (k + 1) - 1))
    BY <2>1, <2>6
  <2> HIDE DEF Sum
  <2> QED BY <2>1, <2>7 DEF P
<1>5. n \in P
  <2> HIDE DEF P
  <2>1. P \in SUBSET (0 .. n)
    BY DEF P
  <2> QED BY <1>1, <1>3, <1>4, <2>1, CountUp
<1>6. (i + 1) - 1 = i
  BY <1>1
<1> QED BY <1>5, <1>6 DEF Cumulative, slots

\* A rank is exceeded within a slot of the histogram, or beyond all of them.
LEMMA PercentileIs ==
  ASSUME NEW h, NEW p, h.count # 0, NEW rank, rank = (h.count * p) \div 1000
  PROVE  /\ \A i \in HistSlots :
              /\ Cumulative(h, i) > rank
              /\ \A j \in HistSlots : j < i => ~(Cumulative(h, j) > rank)
              => HistPercentile(h, p) = SlotStart(i)
         /\ (\A j \in HistSlots : ~(Cumulative(h, j) > rank)) => HistPercentile(h, p) = h.max
<1> DEFINE Beyond == {i \in HistSlots : Cumulative(h, i) > rank}
<1>1. HistPercentile(h, p) = IF Beyond = {} THEN h.max ELSE SlotStart(Min(Beyond))
  BY DEF HistPercentile
<1>2. ASSUME NEW i \in HistSlots, Cumulative(h, i) > rank,
             \A j \in HistSlots : j < i => ~(Cumulative(h, j) > rank)
      PROVE  HistPercentile(h, p) = SlotStart(i)
  <2>1. i \in Beyond /\ \A j \in Beyond : ~(j < i)
    BY <1>2
  <2>2. \A j \in Beyond : j \in Int /\ i \in Int
    BY SlotsAssumption DEF HistSlots
  <2> HIDE DEF Beyond
  <2>3. \A j \in Beyond : i <= j
    BY <2>1, <2>2
  <2>4. \A m \in Beyond : (\A j \in Beyond : m <= j) => m = i
    BY <2>1, <2>2, <2>3
  <2>5. Min(Beyond) = i
    BY <2>1, <2>3, <2>4 DEF Min
  <2> QED BY <1>1, <2>1, <2>5
<1>3. ASSUME \A j \in HistSlots : ~(Cumulative(h, j) > rank)
      PROVE  HistPercentile(h, p) = h.max
  <2>1. Beyond = {}
    BY <1>3
  <2> HIDE DEF Beyond
  <2> QED BY <1>1, <2>1
<1> QED BY <1>2, <1>3

\* A percentile of the report is that of the latencies of all workers together,
\* to the resolution of the histogram there, whatever this resolution is.
THEOREM PercentilesAreTrue == Spec => []PercentilesSound
<1> DEFINE h           == total.latency
           Faster(t)   == [o \in Outcomes |-> IF o.ticks < t THEN Kept[o] ELSE 0]
           NoSlower(t) == [o \in Outcomes |-> IF o.ticks <= t THEN Kept[o] ELSE 0]
<1>1. ASSUME IInv, ReportOK, ret = 0, config.mode # "cli",
             NEW p \in Percentiles, NEW t \in Ticks, NEW rank,
             rank = (HowMany(Timed) * p) \div 1000,
             HowMany({o \in Timed : o.ticks < t}) <= rank,
             HowMany({o \in Timed : o.ticks <= t}) > rank
      PROVE  IF t < SlotStart(FineSlots + CoarseSlots)
               THEN report.at[p] <= t /\ t < report.at[p] + Resolution(t)
               ELSE t <= report.at[p] /\ report.at[p] \in Ticks
  <2>1. /\ Together \in Bags /\ Describes(total, Together)
        /\ report = StatsPrint(total) /\ Ticks = Seen(Together)
        /\ \A o \in Outcomes : Total(o) = Together[o] /\ Together[o] \in Nat
    BY <1>1, ReportMade
  <2>2. t \in Nat
    BY <2>1, SeenTyped
  <2>3. h.count = HowMany(Timed) /\ h.count = Weight(Together, Kept)
    <3>1. HowMany(Timed) = Weight(Together, Kept)
      BY <1>1, TimedSums
    <3>2. h.count = Weight(Together, Kept)
      BY <2>1 DEF Describes, Figures
    <3> QED BY <3>1, <3>2
  <2>4. Faster(t) \in Weights /\ NoSlower(t) \in Weights
    BY WeightsTyped DEF Weights
  <2>5. ASSUME NEW w \in Weights, NEW S \in SUBSET Timed,
               \A o \in Outcomes : w[o] = IF o \in S THEN 1 ELSE IF o \in Timed THEN 0 ELSE w[o],
               \A o \in Outcomes : Kept[o] = 0 => w[o] = 0
        PROVE  HowMany(S) = Weight(Together, w)
    <3> DEFINE g == [o \in S |-> Total(o)]
    <3>1. Timed \in SUBSET Outcomes /\ S \in SUBSET Outcomes
      BY DEF Timed
    <3>2. ASSUME NEW o \in S PROVE g[o] = Together[o] * w[o]
      <4>1. w[o] = 1 /\ g[o] = Together[o] /\ Together[o] \in Nat
        BY <2>1, <2>5, <3>1
      <4> QED BY <4>1
    <3>3. ASSUME NEW o \in Outcomes \ S PROVE Together[o] * w[o] = 0
      <4>1. CASE o \in Timed
        <5>1. w[o] = 0 /\ Together[o] \in Nat
          BY <2>1, <2>5, <4>1
        <5> QED BY <5>1
      <4>2. CASE o \notin Timed
        BY <1>1, <2>5, <4>2, TimedWeighs
      <4> QED BY <4>1, <4>2
    <3>4. DOMAIN g = S
      OBVIOUS
    <3> HIDE DEF g
    <3>5. SumFunction(g) = Weight(Together, w)
      BY <2>1, <3>1, <3>2, <3>3, <3>4, WeightOf
    <3> QED BY <3>5 DEF HowMany, g
  <2>6. /\ HowMany({o \in Timed : o.ticks < t}) = Weight(Together, Faster(t))
        /\ HowMany({o \in Timed : o.ticks <= t}) = Weight(Together, NoSlower(t))
    <3>1. \A o \in Timed : o \in Outcomes /\ Kept[o] = 1
      BY <1>1, TimedKept
    <3> DEFINE v == Faster(t)
               w == NoSlower(t)
               S == {o \in Timed : o.ticks < t}
               T == {o \in Timed : o.ticks <= t}
    <3>2. /\ \A o \in Outcomes : v[o] = IF o \in S THEN 1 ELSE IF o \in Timed THEN 0 ELSE v[o]
          /\ \A o \in Outcomes : Kept[o] = 0 => v[o] = 0
      BY <3>1
    <3>3. /\ \A o \in Outcomes : w[o] = IF o \in T THEN 1 ELSE IF o \in Timed THEN 0 ELSE w[o]
          /\ \A o \in Outcomes : Kept[o] = 0 => w[o] = 0
      BY <3>1
    <3>4. v \in Weights /\ w \in Weights /\ S \in SUBSET Timed /\ T \in SUBSET Timed
      BY <2>4
    <3> HIDE DEF v, w, S, T, Faster, NoSlower
    <3>5. HowMany(S) = Weight(Together, v)
      BY <2>5, <3>2, <3>4
    <3>6. HowMany(T) = Weight(Together, w)
      BY <2>5, <3>3, <3>4
    <3> QED BY <3>5, <3>6 DEF v, w, S, T
  <2>7. Weight(Together, Faster(t)) <= rank /\ Weight(Together, NoSlower(t)) > rank
    BY <1>1, <2>6
  <2>8. h.count # 0
    <3>1. PICK o \in Timed : o.ticks = t
      BY DEF Ticks
    <3>2. o \in Outcomes /\ Together[o] > 0 /\ Kept[o] = 1
      BY <1>1, TimedKept
    <3>3. Kept \in Weights /\ Kept[o] > 0
      BY <3>2, WeightsTyped
    <3>4. Weight(Together, Kept) > 0
      BY <2>1, <3>2, <3>3, WeightPositive
    <3> QED BY <2>3, <3>4
  <2>9. report.at[p] = HistPercentile(h, p) /\ rank = (h.count * p) \div 1000
    BY <1>1, <2>1, <2>3 DEF StatsPrint
  <2>10. rank \in Int
    <3>1. h.count \in Nat /\ p \in Nat
      BY <2>1, <2>3, WeightsTyped, WeightTyped, PercentilesAssumption
    <3>2. h.count * p \in Nat
      BY <3>1, ProductTyped
    <3> DEFINE x == h.count * p
    <3> HIDE DEF x
    <3>3. x \div 1000 \in Int
      BY <3>2 DEF x
    <3> QED BY <2>9, <3>3 DEF x
  <2> HIDE DEF Faster, NoSlower
  <2>11. ASSUME NEW i \in HistSlots,
                \A o \in Outcomes : SlotOf(o.ticks) \in 0 .. i => o.ticks < t
         PROVE  ~(Cumulative(h, i) > rank)
    <3> DEFINE u == In(0 .. i)
               w == Faster(t)
    <3>1. ASSUME NEW o \in Outcomes PROVE u[o] <= w[o]
      <4>1. Kept[o] \in Nat
        BY WeightsTyped DEF Weights
      <4> QED BY <2>11, <4>1 DEF In, Faster
    <3>2. u \in Weights /\ w \in Weights
      BY <2>4, WeightsTyped
    <3> HIDE DEF u, w
    <3>3. Weight(Together, u) <= Weight(Together, w)
      BY <2>1, <3>1, <3>2, WeightLess
    <3>4. Weight(Together, u) \in Nat /\ Weight(Together, w) \in Nat
      BY <2>1, <3>2, WeightTyped
    <3>5. Cumulative(h, i) = Weight(Together, u)
      BY <2>1, CumulativeIs DEF u
    <3>6. Weight(Together, w) <= rank
      BY <2>7 DEF w
    <3> QED BY <2>10, <3>3, <3>4, <3>5, <3>6
  <2>12. ASSUME NEW i \in HistSlots,
                \A o \in Outcomes : o.ticks <= t => SlotOf(o.ticks) \in 0 .. i
         PROVE  Cumulative(h, i) > rank
    <3> DEFINE u == NoSlower(t)
               w == In(0 .. i)
    <3>1. ASSUME NEW o \in Outcomes PROVE u[o] <= w[o]
      <4>1. Kept[o] \in Nat
        BY WeightsTyped DEF Weights
      <4> QED BY <2>12, <4>1 DEF In, NoSlower
    <3>2. u \in Weights /\ w \in Weights
      BY <2>4, WeightsTyped
    <3> HIDE DEF u, w
    <3>3. Weight(Together, u) <= Weight(Together, w)
      BY <2>1, <3>1, <3>2, WeightLess
    <3>4. Weight(Together, u) \in Nat /\ Weight(Together, w) \in Nat
      BY <2>1, <3>2, WeightTyped
    <3>5. Cumulative(h, i) = Weight(Together, w)
      BY <2>1, CumulativeIs DEF w
    <3>6. Weight(Together, u) > rank
      BY <2>7 DEF u
    <3> QED BY <2>10, <3>3, <3>4, <3>5, <3>6
  <2>13. SlotStart(FineSlots + CoarseSlots) \in Int
    <3> DEFINE step == CoarseStep * Unit
    <3>1. /\ Unit \in Nat /\ FineSlots \in Nat /\ CoarseSlots \in Nat
          /\ CoarseStep \in Nat /\ step \in Nat
      BY UnitAssumption, SlotsAssumption, StepAssumption
    <3>2. SlotStart(FineSlots + CoarseSlots) = FineMax + CoarseSlots * step
      BY <3>1 DEF SlotStart
    <3>3. FineMax \in Nat
      BY <3>1 DEF FineMax
    <3> HIDE DEF step
    <3>4. CoarseSlots * step \in Nat
      BY <3>1
    <3> QED BY <3>2, <3>3, <3>4
  <2>14. \A i \in HistSlots : i \in Nat /\ i # Over
    BY SlotsAssumption DEF HistSlots, Over
  <2>15. CASE t < SlotStart(FineSlots + CoarseSlots)
    <3> DEFINE i == SlotOf(t)
    <3>1. /\ i # Over /\ i \in HistSlots
          /\ SlotStart(i) <= t /\ t < SlotStart(i) + Resolution(t)
      BY <2>2, <2>13, <2>15, SlotHolds
    <3>2. ASSUME NEW o \in Outcomes, o.ticks <= t PROVE SlotOf(o.ticks) \in 0 .. i
      <4>1. o.ticks \in Nat
        BY TicksTyped
      <4>2. SlotOf(o.ticks) # Over /\ SlotOf(o.ticks) <= i
        BY <2>2, <3>1, <3>2, <4>1, SlotGrows
      <4>3. SlotOf(o.ticks) \in HistSlots
        BY <4>1, <4>2, SlotHolds
      <4> HIDE DEF i
      <4> QED BY <2>14, <3>1, <4>2, <4>3
    <3>3. ASSUME NEW j \in HistSlots, j < i,
                 NEW o \in Outcomes, SlotOf(o.ticks) \in 0 .. j
          PROVE  o.ticks < t
      <4>1. o.ticks \in Nat
        BY TicksTyped
      <4>2. SlotOf(o.ticks) # Over /\ SlotOf(o.ticks) < i
        <5> HIDE DEF i
        <5> QED BY <2>14, <3>1, <3>3 DEF Over
      <4>3. ASSUME t <= o.ticks PROVE FALSE
        <5>1. i <= SlotOf(o.ticks)
          BY <2>2, <4>1, <4>2, <4>3, SlotGrows
        <5>2. SlotOf(o.ticks) \in HistSlots
          BY <4>1, <4>2, SlotHolds
        <5> HIDE DEF i
        <5> QED BY <2>14, <3>1, <4>2, <5>1, <5>2
      <4> QED BY <2>2, <4>1, <4>3
    <3> HIDE DEF i
    <3>4. Cumulative(h, i) > rank
      BY <2>12, <3>1, <3>2
    <3>5. \A j \in HistSlots : j < i => ~(Cumulative(h, j) > rank)
      BY <2>11, <3>3
    <3> HIDE DEF h
    <3>6. HistPercentile(h, p) = SlotStart(i)
      BY <2>8, <2>9, <3>1, <3>4, <3>5, PercentileIs
    <3> QED BY <2>9, <2>15, <3>1, <3>6
  <2>16. CASE ~(t < SlotStart(FineSlots + CoarseSlots))
    <3>1. ASSUME NEW j \in HistSlots, NEW o \in Outcomes, SlotOf(o.ticks) \in 0 .. j
          PROVE  o.ticks < t
      <4>1. o.ticks \in Nat /\ SlotOf(o.ticks) # Over
        BY <2>14, <3>1, TicksTyped DEF Over
      <4>2. ~(o.ticks >= SlotStart(FineSlots + CoarseSlots))
        BY <4>1, SlotHolds
      <4> QED BY <2>2, <2>13, <2>16, <4>1, <4>2
    <3>2. \A j \in HistSlots : ~(Cumulative(h, j) > rank)
      BY <2>11, <3>1
    <3>3. t <= h.max /\ h.max \in Ticks \cup {0}
      BY <2>1 DEF Describes, Bounds
    <3> HIDE DEF h
    <3>4. HistPercentile(h, p) = h.max
      BY <2>8, <2>9, <3>2, PercentileIs
    <3>5. h.max \in Ticks
      BY <2>2, <3>3
    <3> QED BY <2>9, <2>16, <3>3, <3>4, <3>5
  <2> QED BY <2>15, <2>16
<1>2. IInv /\ ReportOK => PercentilesSound
  BY <1>1 DEF PercentilesSound
<1> QED BY <1>2, ReportHolds, IInvHolds, PTL
=============================================================================
