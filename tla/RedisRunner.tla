----------------------------- MODULE RedisRunner -----------------------------
(***************************************************************************)
(* The runner of external benchmarks (hkv-gui/src-tauri/src/runners/).     *)
(* Each run has a child process in a slot behind a mutex, a cancelled flag *)
(* and a channel of events.  An observer thread takes the process out of   *)
(* the slot and waits for it while it holds the mutex, joins the threads   *)
(* that read the output, and sends how the run ended; stop sets the flag   *)
(* and then wants the mutex.                                               *)
(*                                                                         *)
(* A request is a record: is the runner named or a path to it, does the    *)
(* address have a host and a port, are the counts positive.  A line of     *)
(* output is what it is about and, for each key=value in it, and for the   *)
(* second column of a CSV line, the form of the value: "integer",          *)
(* "decimal" or "text".                                                    *)
(***************************************************************************)
EXTENDS Naturals, Sequences

CONSTANTS
  Run,        \* runs, numbered as the manager numbers them
  Requests,   \* the requests made
  Outputs     \* what the benchmark may print: sets of lines

VARIABLES
  process,    \* "none", "running", "zero" or "nonzero" when it has exited,
              \* "gone" when it has been waited for
  slot,       \* is the process still in its slot
  mutex,      \* the slot's mutex: "free", or held by the "observer"
  cancelled,  \* the flag
  channel,    \* events under way to the manager
  observer    \* where the observer is, and what wait returned

runner == <<process, slot, mutex, cancelled, channel, observer>>

RunnerInit ==
  /\ process = [r \in Run |-> "none"]
  /\ slot = [r \in Run |-> FALSE]
  /\ mutex = [r \in Run |-> "free"]
  /\ cancelled = [r \in Run |-> FALSE]
  /\ channel = [r \in Run |-> <<>>]
  /\ observer = [r \in Run |-> "none"]

-----------------------------------------------------------------------------
(* BenchmarkRunRequest::validate, select_runner and the runner's own       *)
(* validate_request.                                                       *)
validate(q) == q.runner # "blank" /\ q.address # "no_colon" /\ q.counts = "positive"

normalize_runner_type(name) ==
  IF name \in {"path/redis-benchmark", "redis-benchmark.exe"} THEN "redis-benchmark" ELSE name

select_runner(name) == normalize_runner_type(name) = "redis-benchmark"

split_target_addr(address) == address \notin {"no_colon", "no_host", "bad_port"}

validate_request(q) == q.counts = "positive" /\ split_target_addr(q.address)

build_command(q) == validate_request(q) /\ split_target_addr(q.address)

Accepted(q) ==
  validate(q) /\ select_runner(q.runner) /\ validate_request(q) /\ build_command(q)

(* What spawning the program comes to. *)
spawn == {"child", "binary_missing", "spawn_failed"}

(* A child that was killed has no exit code, which counts as -1; killing   *)
(* one that has exited changes nothing.                                    *)
kill(child) == IF child = "running" THEN "nonzero" ELSE child

(* The code, or a failure of the call. *)
wait(child) == {child, "error"}

(* start: the process runs, two events are sent, the observer begins. *)
RunnerStart(r) ==
  /\ process' = [process EXCEPT ![r] = "running"]
  /\ slot' = [slot EXCEPT ![r] = TRUE]
  /\ channel' = [channel EXCEPT ![r] = <<"Started", "Progress">>]
  /\ observer' = [observer EXCEPT ![r] = "take"]
  /\ UNCHANGED <<mutex, cancelled>>

(* The process ends by itself, with success or not. *)
Exit(r) ==
  /\ process[r] = "running"
  /\ \E code \in {"zero", "nonzero"} : process' = [process EXCEPT ![r] = code]
  /\ UNCHANGED <<slot, mutex, cancelled, channel, observer>>

(* The observer takes the process and waits for it with the mutex locked. *)
ObserverTake(r) ==
  /\ observer[r] = "take" /\ mutex[r] = "free"
  /\ mutex' = [mutex EXCEPT ![r] = "observer"]
  /\ slot' = [slot EXCEPT ![r] = FALSE]
  /\ observer' = [observer EXCEPT ![r] = "wait"]
  /\ UNCHANGED <<process, cancelled, channel>>

(* wait returns the code, or fails; the mutex is released. *)
ObserverWait(r) ==
  /\ observer[r] = "wait" /\ process[r] \in {"zero", "nonzero"}
  /\ process' = [process EXCEPT ![r] = "gone"]
  /\ mutex' = [mutex EXCEPT ![r] = "free"]
  /\ \E code \in wait(process[r]) : observer' = [observer EXCEPT ![r] = code]
  /\ UNCHANGED <<slot, cancelled, channel>>

parse_csv_number(value) == value # "text"

parse_key_value_segment(line, key) == key \in DOMAIN line.fields

parse_key_value_number(line, key) ==
  parse_key_value_segment(line, key) /\ line.fields[key] # "text"

parse_key_value_u64(line, key) ==
  parse_key_value_segment(line, key) /\ line.fields[key] = "integer"

(* Every figure that this line should have is there and is a number. *)
Parses(line) ==
  CASE line.about = "PING_INLINE" ->
         "column" \in DOMAIN line.fields => parse_csv_number(line.fields["column"])
    [] line.about = "latency summary" ->
         \A key \in {"p50", "p95", "p99"} : parse_key_value_number(line, key)
    [] line.about = "requests summary" ->
         /\ \A key \in {"requests", "bytes", "duration_ms"} :
              parse_key_value_u64(line, key)
         /\ parse_key_value_number(line, "avg_ms")
    [] OTHER -> TRUE

(* parse_output has a result. *)
parse_output(lines) ==
  /\ \A line \in lines : Parses(line)
  /\ \E line \in lines : line.about = "PING_INLINE" /\ "column" \in DOMAIN line.fields
  /\ \A about \in {"latency summary", "requests summary"} :
       \E line \in lines : line.about = about

(* Mutant of Verdict: the exit code comes before the flag. *)
Verdict_CodeFirst(r, lines) ==
  CASE observer[r] = "error" -> <<"WaitFailed">>
    [] observer[r] = "zero" -> IF parse_output(lines) THEN <<"Completed">> ELSE <<"Failed">>
    [] observer[r] = "nonzero" /\ cancelled[r] -> <<"Cancelled", "Progress">>
    [] OTHER -> <<"Failed">>

(* Mutant of Verdict: output that does not parse is dropped. *)
Verdict_Silent(r, lines) ==
  CASE observer[r] = "error" -> <<"WaitFailed">>
    [] observer[r] # "error" /\ cancelled[r] -> <<"Cancelled", "Progress">>
    [] observer[r] = "nonzero" /\ ~cancelled[r] -> <<"Failed">>
    [] OTHER -> IF parse_output(lines) THEN <<"Completed">> ELSE <<>>

(* The last events of a run.  WaitFailed is a Failed event with the        *)
(* message of a failed wait.                                               *)
Verdict(r, lines) ==
  CASE observer[r] = "error" -> <<"WaitFailed">>
    [] observer[r] # "error" /\ cancelled[r] -> <<"Cancelled", "Progress">>
    [] observer[r] = "nonzero" /\ ~cancelled[r] -> <<"Failed">>
    [] OTHER -> IF parse_output(lines) THEN <<"Completed">> ELSE <<"Failed">>

(* read_stream sends each line that is not blank, once the pipe is at its  *)
(* end.                                                                    *)
read_stream(lines) == IF lines = {} THEN <<>> ELSE <<"Progress">>

(* The output threads send their lines and are joined, then the observer   *)
(* sends how it ended.                                                     *)
ObserverSend(r) ==
  /\ observer[r] \in {"zero", "nonzero", "error"}
  /\ \E lines \in Outputs :
       channel' = [channel EXCEPT ![r] = @ \o read_stream(lines) \o Verdict(r, lines)]
  /\ observer' = [observer EXCEPT ![r] = "done"]
  /\ UNCHANGED <<process, slot, mutex, cancelled>>

-----------------------------------------------------------------------------
(* RedisBenchmarkHandle::stop: the flag, then the mutex, then the kill.    *)
StopFlag(r) ==
  /\ cancelled' = [cancelled EXCEPT ![r] = TRUE]
  /\ UNCHANGED <<process, slot, mutex, channel, observer>>

(* With the mutex: the process is killed if it is still in its slot; one   *)
(* that has exited but was not waited for takes the kill too.              *)
StopKill(r) ==
  /\ mutex[r] = "free" /\ slot[r]
  /\ process' = [process EXCEPT ![r] = kill(@)]
  /\ UNCHANGED <<slot, mutex, cancelled, channel, observer>>

(* stop_failed: the system refuses the kill. *)
StopFails(r) ==
  /\ mutex[r] = "free" /\ slot[r]
  /\ UNCHANGED runner

(* run_not_active: the observer has taken it.                              *)
StopTooLate(r) ==
  /\ mutex[r] = "free" /\ ~slot[r]
  /\ UNCHANGED runner

(* No more events will come. *)
Closed(r) == observer[r] = "done" /\ channel[r] = <<>>

RunnerStep(r) ==
  ObserverTake(r) \/ ObserverWait(r) \/ ObserverSend(r)

=============================================================================
