----------------------------- MODULE Benchmarks -----------------------------
(***************************************************************************)
(* The desktop shell's benchmarks (hkv-gui/src-tauri/src/): the manager    *)
(* (benchmark_manager.rs) between the runner and the sink of finished      *)
(* runs, as the application calls it (state.rs, commands.rs).              *)
(*                                                                         *)
(* A run is spawned first and entered into the manager's tables afterwards *)
(* under its mutex; a worker thread applies the runner's events to the     *)
(* table entry it finds under the run's id, and hands the finished run to  *)
(* the sink, which is RunRepository's persist: here it only succeeds or    *)
(* fails.  The id is the time of the start in milliseconds.                *)
(***************************************************************************)
EXTENDS RedisRunner

CONSTANTS
  MaxStarts    \* bound: calls of start

ASSUME BenchmarksAssumption ==
  Run = 1..MaxStarts /\ MaxStarts \in Nat

VARIABLES
  id,          \* the id of each run: the millisecond of its start, 0 before
  starting,    \* where its start call is
  runs,        \* state.runs
  active,      \* state.active_runs: the index and the handle (the run it
               \* belongs to) for an id, 0 for none
  worker,      \* where its event worker is
  current,     \* the run its worker persists
  emitted,     \* the lifecycle events of each id
  stopping,    \* the run of the handle a stop call has, and its place
  starts,      \* calls of start
  stopped      \* history: runs for which stop returned Ok

manager == <<id, starting, runs, active, worker, current, emitted>>
calls == <<stopping, starts, stopped>>
vars == <<runner, manager, calls>>

Ids == 1..MaxStarts
NoActive == [index |-> 0, handle |-> 0]
NoRun == [id |-> 0, status |-> "none", error |-> "none"]
Finished(run) == run.status \in {"completed", "failed", "cancelled"}

ManagerInit ==
  /\ id = [r \in Run |-> 0]
  /\ starting = [r \in Run |-> "none"]
  /\ runs = <<>>
  /\ active = [i \in Ids |-> NoActive]
  /\ worker = [r \in Run |-> "off"]
  /\ current = [r \in Run |-> NoRun]
  /\ emitted = [i \in Ids |-> <<>>]

Init ==
  /\ RunnerInit /\ ManagerInit
  /\ stopping = [run |-> 0, at |-> "idle"]
  /\ starts = 0
  /\ stopped = {}

(* An event goes out; progress events in a row count once.                 *)
Emit(i, event) ==
  LET e == emitted[i]
  IN emitted' = IF event = "running" /\ e # <<>> /\ e[Len(e)] = event
                THEN emitted ELSE [emitted EXCEPT ![i] = Append(e, event)]

-----------------------------------------------------------------------------
(* start.                                                                  *)

(* The request is refused, or the program cannot be spawned. *)
StartRefused ==
  /\ starts < MaxStarts
  /\ \E q \in Requests, child \in spawn : ~(Accepted(q) /\ child = "child")
  /\ starts' = starts + 1
  /\ UNCHANGED <<runner, manager, stopping, stopped>>

(* What the clock says: the milliseconds in which runs were started are    *)
(* numbered, and this is still the last one or the next.                   *)
Now ==
  {n \in Ids : /\ \A q \in Run : id[q] <= n
               /\ \E q \in Run : id[q] \in {n - 1, n}}

(* next_run_id reads the clock; the process is spawned. *)
StartSpawn(r) ==
  /\ starts < MaxStarts
  /\ starts' = starts + 1 /\ r = starts + 1
  /\ \E q \in Requests : Accepted(q)
  /\ \E now \in Now : id' = [id EXCEPT ![r] = now]
  /\ RunnerStart(r)
  /\ starting' = [starting EXCEPT ![r] = "register"]
  /\ UNCHANGED <<runs, active, worker, current, emitted, stopping,
                 stopped>>

Registered(r) ==
  /\ starting[r] = "register"
  /\ starting' = [starting EXCEPT ![r] = "announce"]
  /\ runs' = Append(runs, [id |-> id[r], status |-> "running", error |-> "none"])
  /\ active' = [active EXCEPT ![id[r]] = [index |-> Len(runs) + 1, handle |-> r]]

(* Mutant of StartRegister: the worker runs before the start is announced. *)
StartRegister_Worker(r) ==
  /\ Registered(r)
  /\ worker' = [worker EXCEPT ![r] = "recv"]
  /\ UNCHANGED <<runner, id, current, emitted, calls>>

(* The run is entered into runs and active_runs. *)
StartRegister(r) ==
  /\ Registered(r)
  /\ UNCHANGED <<runner, id, worker, current, emitted, calls>>

(* The start is announced, and the worker is spawned. *)
StartAnnounce(r) ==
  /\ starting[r] = "announce"
  /\ starting' = [starting EXCEPT ![r] = "done"]
  /\ Emit(id[r], "started")
  /\ worker' = [worker EXCEPT ![r] = "recv"]
  /\ UNCHANGED <<runner, id, runs, active, current, calls>>

-----------------------------------------------------------------------------
(* The event worker of run r.                                              *)

Applied(run, event) ==
  CASE event \in {"Started", "Progress"} -> [run EXCEPT !.status = "running"]
    [] event = "Completed" -> [run EXCEPT !.status = "completed"]
    [] event = "Failed" -> [run EXCEPT !.status = "failed", !.error = "failed"]
    [] event = "WaitFailed" -> [run EXCEPT !.status = "failed", !.error = "wait"]
    [] OTHER -> [run EXCEPT !.status = "cancelled"]

lifecycle_event_name(event) ==
  CASE event = "Started" -> "started"
    [] event = "Progress" -> "running"
    [] event = "Completed" -> "completed"
    [] event \in {"Failed", "WaitFailed"} -> "failed"
    [] OTHER -> "cancelled"

(* recv takes the next event; what the worker leaves behind when it ends is *)
(* dropped with the receiver.                                               *)
Receive(r, ends) ==
  /\ channel' = [channel EXCEPT ![r] = IF ends THEN <<>> ELSE Tail(@)]
  /\ UNCHANGED <<process, slot, mutex, cancelled, observer>>

(* Mutant of WorkerApply: the worker goes on after the last event. *)
WorkerApply_GoesOn(r) ==
  LET index == active[id[r]].index
      event == Head(channel[r])
      run == Applied(runs[index], event)
  IN
  /\ worker[r] = "recv" /\ channel[r] # <<>> /\ index # 0
  /\ Receive(r, FALSE)
  /\ runs' = [runs EXCEPT ![index] = run]
  /\ UNCHANGED <<id, starting, active, worker, current,
                 emitted, calls>>

(* The event is applied to the entry that active_runs has for the id; the  *)
(* change is announced; a finished run leaves active_runs and goes to the  *)
(* sink.                                                                   *)
WorkerApply(r) ==
  LET index == active[id[r]].index
      event == Head(channel[r])
      run == Applied(runs[index], event)
  IN
  /\ worker[r] = "recv" /\ channel[r] # <<>> /\ index # 0
  /\ Receive(r, Finished(run))
  /\ runs' = [runs EXCEPT ![index] = run]
  /\ active' = IF Finished(run) THEN [active EXCEPT ![id[r]] = NoActive] ELSE active
  /\ IF run # runs[index] \/ event \in {"Progress", "Failed", "WaitFailed"}
     THEN Emit(id[r], lifecycle_event_name(event)) ELSE UNCHANGED emitted
  /\ worker' = [worker EXCEPT ![r] = IF Finished(run) THEN "persist" ELSE "recv"]
  /\ current' = [current EXCEPT ![r] = IF Finished(run) THEN run ELSE NoRun]
  /\ UNCHANGED <<id, starting, calls>>

(* The id is not active any more, or every sender is gone. *)
WorkerBreak(r) ==
  /\ worker[r] = "recv"
  /\ \/ channel[r] # <<>> /\ active[id[r]] = NoActive /\ Receive(r, TRUE)
     \/ Closed(r) /\ UNCHANGED runner
  /\ worker' = [worker EXCEPT ![r] = "done"]
  /\ UNCHANGED <<id, starting, runs, active, current, emitted,
                 calls>>

(* sink.persist has returned: a failure turns the first run with the id    *)
(* into a failed one.                                                      *)
WorkerPersist(r) ==
  LET same == {i \in DOMAIN runs : runs[i].id = current[r].id}
      first == CHOOSE i \in same : \A j \in same : i <= j
  IN
  /\ worker[r] = "persist"
  /\ worker' = [worker EXCEPT ![r] = "done"]
  /\ current' = [current EXCEPT ![r] = NoRun]
  /\ \/ UNCHANGED <<runs, emitted>>
     \/ /\ runs' = [runs EXCEPT ![first].status = "failed", ![first].error = "persist"]
        /\ Emit(id[r], "failed")
  /\ UNCHANGED <<runner, id, starting, active, calls>>

-----------------------------------------------------------------------------
(* stop: one caller at a time is enough to race with everything else.      *)

(* The handle is looked up under the manager's mutex; the lock is released *)
(* before the handle is used.                                              *)
StopLookup ==
  /\ stopping.at = "idle"
  /\ \E i \in Ids :
       \/ /\ active[i] # NoActive
          /\ stopping' = [run |-> active[i].handle, at |-> "flag"]
       \/ active[i] = NoActive /\ UNCHANGED stopping       \* run_not_found
  /\ UNCHANGED <<runner, manager, starts, stopped>>

StopCancel ==
  /\ stopping.at = "flag"
  /\ StopFlag(stopping.run)
  /\ stopping' = [stopping EXCEPT !.at = "kill"]
  /\ UNCHANGED <<manager, starts, stopped>>

(* kill succeeds, kill fails, or there is no process in the slot. *)
StopReturn ==
  /\ stopping.at = "kill"
  /\ \/ StopKill(stopping.run) /\ stopped' = stopped \cup {stopping.run}
     \/ StopFails(stopping.run) /\ UNCHANGED stopped
     \/ StopTooLate(stopping.run) /\ UNCHANGED stopped
  /\ stopping' = [run |-> 0, at |-> "idle"]
  /\ UNCHANGED <<manager, starts>>

-----------------------------------------------------------------------------
(* The benchmark program exits, and the runner's threads go on. *)
RunnerSteps(r) ==
  /\ Exit(r) \/ RunnerStep(r)
  /\ UNCHANGED <<manager, calls>>

Start(r) == StartRegister(r) \/ StartAnnounce(r)

WorkerStep(r) == WorkerApply(r) \/ WorkerBreak(r) \/ WorkerPersist(r)

(* The threads of run r: the call of start, the worker, the runner's. *)
RunStep(r) == Start(r) \/ WorkerStep(r) \/ RunnerSteps(r)

Next ==
  \/ StartRefused
  \/ \E r \in Run : StartSpawn(r) \/ RunStep(r)
  \/ StopLookup \/ StopCancel \/ StopReturn

Spec == Init /\ [][Next]_vars

(* Threads are scheduled, and a benchmark, which makes a given number of   *)
(* requests, ends.  Nobody has to call start or stop.  A run makes a       *)
(* finite number of steps, so that fairness for all of them together is    *)
(* enough.                                                                 *)
Fairness ==
  /\ \A r \in Run : WF_vars(RunStep(r))
  /\ WF_vars(StopCancel \/ StopReturn)

FairSpec == Spec /\ Fairness

-----------------------------------------------------------------------------
(* Properties.                                                             *)

(* No other run of this session has r's id. *)
Unique(r) == \A q \in Run \ {r} : id[q] # id[r]

(* A finished run never runs again, whatever events its runner still sends *)
(* (the progress after a cancellation, the reader threads' lines): it only *)
(* turns to failed, when it cannot be persisted.                           *)
FinishedStays ==
  [][\A k \in DOMAIN runs \cap DOMAIN runs' :
       Finished(runs[k]) => \/ runs'[k] = runs[k]
                            \/ runs'[k].status = "failed" /\ runs'[k].error = "persist"
    ]_vars

(* A stop that returned Ok is not contradicted: the run ends as cancelled, *)
(* even when the program had just exited by itself, unless the program     *)
(* could not be waited for or the run not be persisted.                    *)
StopOkCancels ==
  \A r \in stopped : \A k \in DOMAIN runs :
    Unique(r) /\ runs[k].id = id[r] /\ Finished(runs[k]) =>
      runs[k].status = "cancelled" \/ runs[k].error \in {"wait", "persist"}

(* What the front end hears of a run: it has started, any number of        *)
(* progress events, one end, and after it at most the failure to persist.  *)
LifecycleOrder ==
  \A r \in Run : LET e == emitted[id[r]] IN
    id[r] # 0 /\ Unique(r) =>
      \A k \in DOMAIN e :
        /\ e[k] = "started" <=> k = 1
        /\ e[k] \in {"completed", "failed", "cancelled"} =>
             k = Len(e) \/ (k + 1 = Len(e) /\ e[k + 1] = "failed")

(* Every run finishes: its process ends, its threads end, and its worker   *)
(* hears of it, unless another run has its id.  And every stop returns: it *)
(* may wait for the observer, and so for the end of the benchmark, but not *)
(* for longer.                                                             *)
RunsFinish ==
  /\ []<>(stopping.at = "idle")
  /\ <>[](\A r \in Run :
            id[r] # 0 /\ Unique(r) =>
              \E k \in DOMAIN runs : runs[k].id = id[r] /\ Finished(runs[k]))

=============================================================================
