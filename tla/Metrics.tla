------------------------------ MODULE Metrics -------------------------------
(***************************************************************************)
(* The server's metrics (hkv-server/src/metrics.rs): counters and a        *)
(* latency histogram that threads update with relaxed atomic operations,   *)
(* each of which is a step of its own here, and the snapshot that INFO     *)
(* takes by loading them one after another.  A latency is its number of    *)
(* microseconds.                                                           *)
(***************************************************************************)
EXTENDS Integers, Sequences, FiniteSets, FiniteSetsExt

CONSTANTS
  Thread,       \* the threads that serve requests
  Latency,      \* the latencies measured
  Bounds,       \* bounds_us, ascending
  MaxRequests   \* bound: requests served by each thread

ASSUME MetricsAssumption ==
  /\ IsFiniteSet(Thread)
  /\ Latency \subseteq Nat /\ IsFiniteSet(Latency)
  /\ Bounds \in Seq(Nat)
  /\ \A i, j \in DOMAIN Bounds : i < j => Bounds[i] < Bounds[j]
  /\ MaxRequests \in Nat

Bucket == 1..(Len(Bounds) + 1)

VARIABLES
  requests_total, errors_total, inflight,   \* Metrics
  samples, sum_us, max_us, buckets,         \* LatencyHistogram
  at,       \* the next operation of each thread
  micros,   \* the latency it records
  seen,     \* what update_max believes max_us to be
  served,   \* how many requests it has begun
  recorded, \* history: how often each latency was recorded
  load,     \* the next field the snapshot loads
  snap      \* the snapshot

counters == <<requests_total, errors_total, inflight>>
histogram == <<samples, sum_us, max_us, buckets>>
threads == <<at, micros, seen, served, recorded>>
reader == <<load, snap>>
metrics_vars == <<requests_total, errors_total, inflight, samples, sum_us,
                  max_us, buckets, at, micros, seen, served, recorded, load, snap>>

MetricsInit ==
  /\ requests_total = 0 /\ errors_total = 0 /\ inflight = 0
  /\ samples = 0 /\ sum_us = 0 /\ max_us = 0
  /\ buckets = [b \in Bucket |-> 0]
  /\ at = [t \in Thread |-> "idle"]
  /\ micros = [t \in Thread |-> 0]
  /\ seen = [t \in Thread |-> 0]
  /\ served = [t \in Thread |-> 0]
  /\ recorded = [l \in Latency |-> 0]
  /\ load = "requests_total"
  /\ snap = [requests_total |-> 0, errors_total |-> 0]

Step(t, from, to) == at[t] = from /\ at' = [at EXCEPT ![t] = to]

-----------------------------------------------------------------------------
(* record_request_start, record_error, record_request_end                  *)

StartTotal(t) ==
  /\ served[t] < MaxRequests
  /\ Step(t, "idle", "start_inflight")
  /\ served' = [served EXCEPT ![t] = @ + 1]
  /\ requests_total' = requests_total + 1
  /\ UNCHANGED <<errors_total, inflight, histogram, micros, seen,
                 recorded, reader>>

(* The request is then served, and answered with success or with an error. *)
StartInflight(t) ==
  /\ \E err \in BOOLEAN, us \in Latency :
       /\ Step(t, "start_inflight", IF err THEN "error" ELSE "end")
       /\ micros' = [micros EXCEPT ![t] = us]
  /\ inflight' = inflight + 1
  /\ UNCHANGED <<requests_total, errors_total, histogram, seen, served,
                 recorded, reader>>

(* Mutant of RecordError: an error is counted twice. *)
RecordError_Twice(t) ==
  /\ Step(t, "error", "end")
  /\ errors_total' = errors_total + 2
  /\ UNCHANGED <<requests_total, inflight, histogram, micros, seen, served,
                 recorded, reader>>

RecordError(t) ==
  /\ Step(t, "error", "end")
  /\ errors_total' = errors_total + 1
  /\ UNCHANGED <<requests_total, inflight, histogram, micros, seen, served,
                 recorded, reader>>

EndInflight(t) ==
  /\ Step(t, "end", "samples")
  /\ inflight' = inflight - 1
  /\ UNCHANGED <<requests_total, errors_total, histogram, micros, seen, served,
                 recorded, reader>>

-----------------------------------------------------------------------------
(* LatencyHistogram::record                                                *)

RecordSample(t) ==
  /\ Step(t, "samples", "sum")
  /\ samples' = samples + 1
  /\ recorded' = [recorded EXCEPT ![micros[t]] = @ + 1]
  /\ UNCHANGED <<counters, sum_us, max_us, buckets, micros, seen, served,
                 reader>>

RecordSum(t) ==
  /\ Step(t, "sum", "max_load")
  /\ sum_us' = sum_us + micros[t]
  /\ UNCHANGED <<counters, samples, max_us, buckets, micros, seen, served,
                 recorded, reader>>

(* update_max: load, then compare_exchange as long as it can raise it. *)
MaxLoad(t) ==
  /\ Step(t, "max_load", IF micros[t] > max_us THEN "max_cas" ELSE "bucket")
  /\ seen' = [seen EXCEPT ![t] = max_us]
  /\ UNCHANGED <<counters, histogram, micros, served, recorded, reader>>

(* Mutant of MaxCas: a store instead of a compare_exchange. *)
MaxCas_Store(t) ==
  /\ Step(t, "max_cas", "bucket")
  /\ max_us' = micros[t]
  /\ UNCHANGED <<counters, samples, sum_us, buckets, micros, seen, served,
                 recorded, reader>>

MaxCas(t) ==
  /\ \/ /\ max_us = seen[t]
        /\ Step(t, "max_cas", "bucket")
        /\ max_us' = micros[t]
        /\ UNCHANGED seen
     \/ /\ max_us # seen[t]
        /\ Step(t, "max_cas", IF micros[t] > max_us THEN "max_cas" ELSE "bucket")
        /\ seen' = [seen EXCEPT ![t] = max_us]
        /\ UNCHANGED max_us
  /\ UNCHANGED <<counters, samples, sum_us, buckets, micros, served,
                 recorded, reader>>

(* The first bucket whose bound is not exceeded, or the overflow bucket. *)
bucket_idx(us) ==
  Min({b \in DOMAIN Bounds : us <= Bounds[b]} \cup {Len(Bounds) + 1})

RecordBucket(t) ==
  /\ Step(t, "bucket", "idle")
  /\ buckets' = [buckets EXCEPT ![bucket_idx(micros[t])] = @ + 1]
  /\ UNCHANGED <<counters, samples, sum_us, max_us, micros, seen, served,
                 recorded, reader>>

-----------------------------------------------------------------------------
(* Metrics::snapshot, as far as error_rate uses it: two loads.             *)
SnapshotRequests ==
  /\ load = "requests_total"
  /\ snap' = [requests_total |-> requests_total, errors_total |-> 0]
  /\ load' = "errors_total"
  /\ UNCHANGED <<counters, histogram, threads>>

SnapshotErrors ==
  /\ load = "errors_total"
  /\ snap' = [snap EXCEPT !.errors_total = errors_total]
  /\ load' = "done"
  /\ UNCHANGED <<counters, histogram, threads>>

-----------------------------------------------------------------------------
Request(t) ==
  \/ StartTotal(t) \/ StartInflight(t) \/ RecordError(t) \/ EndInflight(t)
  \/ RecordSample(t) \/ RecordSum(t) \/ MaxLoad(t) \/ MaxCas(t) \/ RecordBucket(t)

NoneServing == \A t \in Thread : at[t] = "idle"

AllServed ==
  /\ NoneServing /\ load = "done"
  /\ \A t \in Thread : served[t] = MaxRequests
  /\ UNCHANGED metrics_vars

MetricsNext ==
  \/ \E t \in Thread : Request(t)
  \/ SnapshotRequests \/ SnapshotErrors
  \/ AllServed

MetricsSpec == MetricsInit /\ [][MetricsNext]_metrics_vars

-----------------------------------------------------------------------------
(* LatencyHistogram::snapshot and percentile_us of it, for 0 < p <= 100.   *)
(* They are used at rest, where the loads of the snapshot agree.           *)
snapshot == [buckets |-> buckets, samples |-> samples, sum_us |-> sum_us,
             max_us |-> max_us]

Cumulative(s, b) == MapThenSumSet(LAMBDA i : s.buckets[i], 1..b)

Rank(s, p) == Max({(s.samples * p + 99) \div 100, 1})

(* Mutant of percentile_us: the bucket before the rank is reached. *)
percentile_us_Below(s, p) ==
  LET hit == {b \in Bucket : Cumulative(s, b) >= Rank(s, p) - 1} IN
  IF hit # {} /\ Min(hit) <= Len(Bounds) THEN Bounds[Min(hit)] ELSE s.max_us

percentile_us(s, p) ==
  LET hit == {b \in Bucket : Cumulative(s, b) >= Rank(s, p)} IN
  IF hit # {} /\ Min(hit) <= Len(Bounds) THEN Bounds[Min(hit)] ELSE s.max_us

(* error_rate of a snapshot as numerator and denominator. *)
error_rate(s) ==
  IF s.requests_total = 0 THEN <<0, 1>> ELSE <<s.errors_total, s.requests_total>>

-----------------------------------------------------------------------------
(* Properties.                                                             *)

Recorded(L) == MapThenSumSet(LAMBDA l : recorded[l], L)

(* At rest nothing was lost, however the threads' atomic operations        *)
(* interleaved: no request is in flight, every request is one sample, and  *)
(* the sum and the maximum are those of the recorded latencies.            *)
QuiescentExact ==
  NoneServing =>
    /\ inflight = 0
    /\ samples = requests_total /\ samples = Recorded(Latency)
    /\ sum_us = MapThenSumSet(LAMBDA l : l * recorded[l], Latency)
    /\ max_us = Max({l \in Latency : recorded[l] > 0} \cup {0})

(* The samples at or below a latency. *)
AtMost(l) == Recorded({m \in Latency : m <= l})

(* At rest percentile_us(p) is not below the p-th percentile of the        *)
(* recorded latencies by nearest rank, and the two lie in the same bucket. *)
PercentileBounds ==
  NoneServing /\ samples > 0 =>
    \A p \in {50, 90, 99, 100} :
      LET exact == Min({l \in Latency : 100 * AtMost(l) >= p * samples}) IN
      /\ percentile_us(snapshot, p) >= exact
      /\ \A b \in DOMAIN Bounds :
           exact <= Bounds[b] => percentile_us(snapshot, p) <= Bounds[b]

(* error_rate is a fraction of the requests, unless the snapshot is torn:  *)
(* a rate above 1 is seen only if a request began after the snapshot had   *)
(* loaded requests_total.                                                  *)
ErrorRateTornOnlyByStarts ==
  load = "done" /\ error_rate(snap)[1] > error_rate(snap)[2] =>
    requests_total > snap.requests_total

=============================================================================
