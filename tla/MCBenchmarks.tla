---------------------------- MODULE MCBenchmarks ----------------------------
(* Instance of Benchmarks for TLC: one request that is accepted and one    *)
(* that each check of the code refuses; output that is complete, empty, of *)
(* a benchmark that was cut short, and with a count that is no integer.    *)
EXTENDS Benchmarks

MCRun == 1..2

MCRequests ==
  {[runner |-> "path/redis-benchmark", address |-> "host:port", counts |-> "positive"],
   [runner |-> "memtier", address |-> "host:port", counts |-> "positive"],
   [runner |-> "redis-benchmark.exe", address |-> "bad_port", counts |-> "positive"],
   [runner |-> "redis-benchmark", address |-> "host:port", counts |-> "zero"]}

Column == [about |-> "PING_INLINE", fields |-> [k \in {"column"} |-> "decimal"]]
Latencies ==
  [about |-> "latency summary", fields |-> [k \in {"p50", "p95", "p99"} |-> "decimal"]]
Totals(form) ==
  [about |-> "requests summary",
   fields |-> [k \in {"requests", "bytes", "duration_ms", "avg_ms"} |-> form]]

MCOutputs ==
  {{}, {Column}, {Column, Latencies, Totals("integer")},
   {Column, Latencies, Totals("decimal")}}

=============================================================================
