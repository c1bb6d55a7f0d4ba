------------------------------ MODULE Histogram ------------------------------
(***************************************************************************)
(* The latency histogram of two resolutions and the statistics a worker    *)
(* keeps (src/src/js_stats.c), as operators.                               *)
(*                                                                         *)
(* A latency is measured in nanoseconds and recorded in microseconds, as a *)
(* double: here it is a number of ticks, Unit of them to a microsecond,    *)
(* and the arithmetic is exact.  A percentile p is given per mille.        *)
(***************************************************************************)
EXTENDS Integers, Functions, FiniteSetsExt

CONSTANTS
  Unit,         \* ticks in a microsecond (1000)
  FineSlots,    \* HIST_FINE_SLOTS, also HIST_FINE_MAX_US: a microsecond each
  CoarseSlots,  \* HIST_COARSE_SLOTS
  CoarseStep,   \* HIST_COARSE_STEP, in microseconds
  Percentiles   \* those that are printed (500, 900, 990 and 999)

ASSUME UnitAssumption  == Unit \in Nat \ {0}
ASSUME SlotsAssumption == FineSlots \in Nat /\ CoarseSlots \in Nat
ASSUME StepAssumption  == CoarseStep \in Nat \ {0}
ASSUME PercentilesAssumption == Percentiles \subseteq 0 .. 999

HistSlots == 0 .. FineSlots + CoarseSlots - 1
FineMax   == FineSlots * Unit
Over      == -1
Never     == 10 ^ 9   \* 1e18, the least value when there is none

HistType == [slots : [HistSlots -> Nat], over : Nat, count : Nat, sum : Nat,
             sum_sq : Nat, min : Nat, max : Nat]

HistInit == [slots |-> [i \in HistSlots |-> 0], over |-> 0, count |-> 0, sum |-> 0,
             sum_sq |-> 0, min |-> Never, max |-> 0]

\* us_to_slot
SlotOf(t) ==
  IF t < FineMax THEN t \div Unit
  ELSE LET coarse == (t - FineMax) \div (CoarseStep * Unit)
       IN  IF coarse >= CoarseSlots THEN Over ELSE FineSlots + coarse

\* slot_to_us: the lower end of the slot.
SlotStart(i) ==
  IF i < FineSlots THEN i * Unit ELSE FineMax + (i - FineSlots) * CoarseStep * Unit

Lower(a, b)  == IF a < b THEN a ELSE b
Higher(a, b) == IF a > b THEN a ELSE b

\* js_hist_add
HistAdd(h, t) ==
  LET i == SlotOf(t)
  IN  [slots  |-> IF i = Over THEN h.slots ELSE [h.slots EXCEPT ![i] = @ + 1],
       over   |-> IF i = Over THEN h.over + 1 ELSE h.over,
       count  |-> h.count + 1,
       sum    |-> h.sum + t,
       sum_sq |-> h.sum_sq + t * t,
       min    |-> Lower(h.min, t),
       max    |-> Higher(h.max, t)]

\* Mutant: the greatest latency is that of the last worker.
HistMergeLast(dst, src) ==
  [slots  |-> [i \in HistSlots |-> dst.slots[i] + src.slots[i]],
   over   |-> dst.over + src.over,
   count  |-> dst.count + src.count,
   sum    |-> dst.sum + src.sum,
   sum_sq |-> dst.sum_sq + src.sum_sq,
   min    |-> Lower(dst.min, src.min),
   max    |-> src.max]

\* js_hist_merge
HistMerge(dst, src) ==
  [slots  |-> [i \in HistSlots |-> dst.slots[i] + src.slots[i]],
   over   |-> dst.over + src.over,
   count  |-> dst.count + src.count,
   sum    |-> dst.sum + src.sum,
   sum_sq |-> dst.sum_sq + src.sum_sq,
   min    |-> Lower(dst.min, src.min),
   max    |-> Higher(dst.max, src.max)]

Cumulative(h, i) == SumFunctionOnSet(h.slots, 0 .. i)

\* Mutant: the slot that reaches the target is taken, not the one that exceeds it.
HistPercentileReached(h, p) ==
  LET target == (h.count * p) \div 1000
      Beyond == {i \in HistSlots : Cumulative(h, i) >= target}
  IN  IF h.count = 0 THEN 0
      ELSE IF Beyond = {} THEN h.max ELSE SlotStart(Min(Beyond))

\* js_hist_percentile
HistPercentile(h, p) ==
  LET target == (h.count * p) \div 1000
      Beyond == {i \in HistSlots : Cumulative(h, i) > target}
  IN  IF h.count = 0 THEN 0
      ELSE IF Beyond = {} THEN h.max ELSE SlotStart(Min(Beyond))

\* js_hist_mean, and the square of js_hist_stdev, as fractions
HistMean(h) == IF h.count = 0 THEN <<0, 1>> ELSE <<h.sum, h.count>>
HistVariance(h) ==
  IF h.count < 2 THEN <<0, 1>>
  ELSE <<Higher(0, h.sum_sq * h.count - h.sum * h.sum), h.count * h.count>>

-----------------------------------------------------------------------------
(* js_stats_t *)

\* The counters of js_stats_t; three more of them are never written.
Classes  == {"status_2xx", "status_3xx", "status_4xx", "status_5xx"}
Counters == {"requests", "bytes_read", "errors", "connect_errors"} \cup Classes

StatsType == [counter : [Counters -> Nat], latency : HistType]

\* js_stats_init
StatsInit == [counter |-> [k \in Counters |-> 0], latency |-> HistInit]

\* js_stats_merge
StatsMerge(dst, src) ==
  [counter |-> [k \in Counters |-> dst.counter[k] + src.counter[k]],
   latency |-> HistMerge(dst.latency, src.latency)]

\* The figures of js_stats_print.
StatsPrint(s) ==
  [counter  |-> s.counter,
   min      |-> s.latency.min,
   max      |-> s.latency.max,
   mean     |-> HistMean(s.latency),
   variance |-> HistVariance(s.latency),
   at       |-> [p \in Percentiles |-> HistPercentile(s.latency, p)]]
=============================================================================
