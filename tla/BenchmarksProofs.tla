-------------------------- MODULE BenchmarksProofs --------------------------
(***************************************************************************)
(* Proofs about Benchmarks, for any number of runs, any requests and any   *)
(* output of the benchmark.                                                *)
(***************************************************************************)
EXTENDS Benchmarks, FiniteSums, TLAPS

Early == {"Started", "Progress"}
Events == Early \cup {"Completed", "Failed", "WaitFailed", "Cancelled"}
Final == {"completed", "failed", "cancelled"}
Entry == [id : Ids, status : Final \cup {"running"},
          error : {"none", "failed", "wait", "persist"}]

Typed ==
  /\ id \in [Run -> Ids \cup {0}]
  /\ starting \in [Run -> {"none", "register", "announce", "done"}]
  /\ runs \in Seq(Entry)
  /\ active \in [Ids -> [index : Nat, handle : Run \cup {0}]]
  /\ worker \in [Run -> {"off", "recv", "persist", "done"}]
  /\ emitted \in [Ids -> Seq({"started", "running"} \cup Final)]
  /\ starts \in Nat
  /\ slot \in [Run -> BOOLEAN]
  /\ cancelled \in [Run -> BOOLEAN]
  /\ channel \in [Run -> Seq(Events)]
  /\ observer \in [Run -> {"none", "take", "wait", "zero", "nonzero", "error", "done"}]
  /\ current \in [Run -> Entry \cup {NoRun}]
  /\ stopping \in [run : Run \cup {0}, at : {"idle", "flag", "kill"}]

(* A run has its id and its observer from its start on, and a worker once  *)
(* its start is announced.                                                 *)
Started ==
  \A r \in Run :
    /\ id[r] = 0 <=> starting[r] = "none"
    /\ id[r] # 0 => r <= starts
    /\ worker[r] # "off" <=> starting[r] = "done"
    /\ observer[r] = "none" <=> id[r] = 0

(* active_runs has for an id the latest of its entries in runs, and only   *)
(* while that is running.                                                  *)
ActiveLatest ==
  \A i \in Ids :
    active[i] # NoActive =>
      /\ active[i].index \in DOMAIN runs /\ active[i].handle \in Run
      /\ runs[active[i].index].id = i /\ ~Finished(runs[active[i].index])
      /\ \A k \in DOMAIN runs : runs[k].id = i => k <= active[i].index

(* A worker that persists has an entry in runs that is not active, so that *)
(* the first entry with its id is not active either.                       *)
PersistPending ==
  \A r \in Run :
    worker[r] = "persist" =>
      /\ current[r].id = id[r]
      /\ \E k \in DOMAIN runs : runs[k].id = id[r] /\ k # active[id[r]].index

TableInv == Typed /\ Started /\ ActiveLatest /\ PersistPending

(* Every entry in runs, and everything announced, is of a run that was     *)
(* started.                                                                *)
Owned ==
  /\ \A k \in DOMAIN runs : \E r \in Run : id[r] = runs[k].id
  /\ \A i \in Ids : emitted[i] # <<>> => \E r \in Run : id[r] = i

(* As long as the process is in its slot the observer has not taken it,    *)
(* and until the observer is done no final event is under way.             *)
Undecided ==
  \A r \in Run :
    /\ slot[r] => observer[r] = "take"
    /\ observer[r] # "done" => \A n \in DOMAIN channel[r] : channel[r][n] \in Early
    /\ worker[r] = "persist" => observer[r] = "done"
    /\ \A k \in DOMAIN runs :
         id[r] # 0 /\ Unique(r) /\ runs[k].id = id[r] /\ Finished(runs[k]) =>
           observer[r] = "done"

(* A stop that is about to kill has set the flag, and so has one that      *)
(* returned Ok, after which only a cancellation or a failed wait can come. *)
StopsFlagged ==
  /\ stopping.at # "idle" => stopping.run \in Run
  /\ stopping.at = "kill" => cancelled[stopping.run]
  /\ \A r \in stopped :
       /\ r \in Run /\ id[r] # 0 /\ cancelled[r]
       /\ \A n \in DOMAIN channel[r] : channel[r][n] \notin {"Completed", "Failed"}

StopInv == TableInv /\ Owned /\ Undecided /\ StopsFlagged /\ StopOkCancels

(* What was announced of a run that has its id for itself. *)
Running(e) ==
  /\ Len(e) >= 1 /\ e[1] = "started"
  /\ \A k \in 2..Len(e) : e[k] = "running"

Ended(e) ==
  /\ Len(e) >= 2 /\ e[1] = "started" /\ e[Len(e)] \in Final
  /\ \A k \in 2..(Len(e) - 1) : e[k] = "running"

InOrder(e) ==
  \A k \in DOMAIN e :
    /\ e[k] = "started" <=> k = 1
    /\ e[k] \in Final => k = Len(e) \/ (k + 1 = Len(e) /\ e[k + 1] = "failed")

Announced ==
  \A r \in Run : id[r] # 0 /\ Unique(r) =>
    /\ worker[r] = "off" => emitted[id[r]] = <<>>
    /\ worker[r] = "recv" => Running(emitted[id[r]])
    /\ worker[r] = "persist" => Ended(emitted[id[r]])
    /\ worker[r] = "done" => InOrder(emitted[id[r]])

EventInv == TableInv /\ Owned /\ Announced

-----------------------------------------------------------------------------
(* What an event does to an entry: it keeps the id, and a final event ends *)
(* the run in its own way.                                                 *)
LEMMA AppliedEntry ==
  ASSUME NEW run \in Entry, NEW event \in Events
  PROVE  LET new == Applied(run, event) IN
         /\ new \in Entry /\ new.id = run.id
         /\ Finished(new) <=> event \notin Early
         /\ event \in Early => new.status = "running" /\ new.error = run.error
         /\ event = "Cancelled" => new.status = "cancelled"
         /\ event = "WaitFailed" => new.error = "wait"
<1> USE DEF Events, Early, Entry, Final, Finished
<1>1. CASE event \in Early
  BY <1>1 DEF Applied
<1>2. CASE event = "Completed"
  BY <1>2 DEF Applied
<1>3. CASE event = "Failed"
  BY <1>3 DEF Applied
<1>4. CASE event = "WaitFailed"
  BY <1>4 DEF Applied
<1>5. CASE event = "Cancelled"
  BY <1>5 DEF Applied
<1> QED
  BY <1>1, <1>2, <1>3, <1>4, <1>5

LEMMA EventName ==
  ASSUME NEW event \in Events
  PROVE  /\ lifecycle_event_name(event) \in {"started", "running"} \cup Final
         /\ lifecycle_event_name(event) \in Final <=> event \notin Early
         /\ lifecycle_event_name(event) = "started" <=> event = "Started"
<1> USE DEF Events, Early, Final
<1>1. CASE event \in Early
  BY <1>1 DEF lifecycle_event_name
<1>2. CASE event \in {"Completed", "Cancelled"}
  BY <1>2 DEF lifecycle_event_name
<1>3. CASE event \in {"Failed", "WaitFailed"}
  BY <1>3 DEF lifecycle_event_name
<1> QED
  BY <1>1, <1>2, <1>3

(* An announcement leaves the other ids alone; it adds the event, or       *)
(* nothing when the event is one more progress.                            *)
LEMMA EmitEffect ==
  ASSUME emitted \in [Ids -> Seq({"started", "running"} \cup Final)],
         NEW i \in Ids, NEW event \in {"started", "running"} \cup Final, Emit(i, event)
  PROVE  /\ emitted' \in [Ids -> Seq({"started", "running"} \cup Final)]
         /\ \A j \in Ids : j # i => emitted'[j] = emitted[j]
         /\ \/ emitted'[i] = Append(emitted[i], event)
            \/ event = "running" /\ emitted'[i] = emitted[i] /\ emitted[i] # <<>>
<1>1. Append(emitted[i], event) \in Seq({"started", "running"} \cup Final)
  OBVIOUS
<1> QED
  BY <1>1 DEF Emit

(* The position that a failed persist changes. *)
LEMMA FirstEntry ==
  ASSUME Typed, NEW i, NEW k \in DOMAIN runs, runs[k].id = i
  PROVE  LET same == {j \in DOMAIN runs : runs[j].id = i}
             first == CHOOSE j \in same : \A l \in same : j <= l
         IN first \in DOMAIN runs /\ runs[first].id = i /\ first <= k
<1> DEFINE same == {j \in DOMAIN runs : runs[j].id = i}
<1>1. same \subseteq Nat /\ k \in same
  BY DEF Typed
<1>2. \E j \in same : \A l \in same : j <= l
  BY <1>1, LeastElement
<1> QED
  BY <1>1, <1>2

-----------------------------------------------------------------------------
(* The effect of each action, without the parts no invariant speaks of.    *)
LEMMA SpawnEffect ==
  ASSUME Typed, NEW r \in Run, StartSpawn(r)
  PROVE  /\ starts' = starts + 1 /\ r = starts + 1
         /\ \E now \in Ids : id' = [id EXCEPT ![r] = now]
         /\ starting' = [starting EXCEPT ![r] = "register"]
         /\ slot' = [slot EXCEPT ![r] = TRUE]
         /\ channel' = [channel EXCEPT ![r] = <<"Started", "Progress">>]
         /\ observer' = [observer EXCEPT ![r] = "take"]
         /\ UNCHANGED <<cancelled, runs, active, worker, current, emitted, stopping, stopped>>
BY DEF StartSpawn, RunnerStart, Now

(* The worker of r applies event to the entry at index, which becomes run. *)
Applies(r, index, event, run) ==
  /\ worker[r] = "recv" /\ channel[r] # <<>> /\ event = channel[r][1]
  /\ id[r] \in Ids /\ active[id[r]] # NoActive /\ index = active[id[r]].index
  /\ runs[index].id = id[r] /\ ~Finished(runs[index])
  /\ run = Applied(runs[index], event) /\ run.id = id[r]
  /\ Finished(run) <=> event \notin Early
  /\ runs' = [runs EXCEPT ![index] = run]
  /\ active' = IF Finished(run) THEN [active EXCEPT ![id[r]] = NoActive] ELSE active
  /\ worker' = [worker EXCEPT ![r] = IF Finished(run) THEN "persist" ELSE "recv"]
  /\ current' = [current EXCEPT ![r] = IF Finished(run) THEN run ELSE NoRun]
  /\ channel' = [channel EXCEPT ![r] = IF Finished(run) THEN <<>> ELSE Tail(channel[r])]
  /\ \/ UNCHANGED emitted /\ run = runs[index] /\ event = "Started"
     \/ Emit(id[r], lifecycle_event_name(event)) /\
        (run # runs[index] \/ event # "Started")
  /\ UNCHANGED <<id, starting, starts, slot, cancelled, observer, stopping, stopped>>

LEMMA ApplyEffect ==
  ASSUME TableInv, NEW r \in Run, WorkerApply(r)
  PROVE  \E index \in DOMAIN runs, event \in Events, run \in Entry :
           Applies(r, index, event, run)
<1> DEFINE index == active[id[r]].index
           event == Head(channel[r])
           run == Applied(runs[index], event)
<1>1. worker[r] = "recv" /\ channel[r] # <<>> /\ index # 0
  BY DEF WorkerApply
<1>2. id[r] \in Ids
  BY <1>1 DEF TableInv, Typed, Started
<1>3. active[id[r]] # NoActive
  BY <1>1 DEF NoActive
<1>4. index \in DOMAIN runs /\ runs[index].id = id[r] /\ ~Finished(runs[index])
  BY <1>2, <1>3 DEF TableInv, ActiveLatest
<1>5. event = channel[r][1] /\ event \in Events
  BY <1>1 DEF TableInv, Typed
<1>6. runs[index] \in Entry
  BY <1>4 DEF TableInv, Typed
<1>7. run \in Entry /\ run.id = id[r] /\ (Finished(run) <=> event \notin Early)
  BY <1>4, <1>5, <1>6, AppliedEntry
<1>8. /\ runs' = [runs EXCEPT ![index] = run]
      /\ active' = IF Finished(run) THEN [active EXCEPT ![id[r]] = NoActive] ELSE active
      /\ worker' = [worker EXCEPT ![r] = IF Finished(run) THEN "persist" ELSE "recv"]
      /\ current' = [current EXCEPT ![r] = IF Finished(run) THEN run ELSE NoRun]
      /\ IF run # runs[index] \/ event \in {"Progress", "Failed", "WaitFailed"}
         THEN Emit(id[r], lifecycle_event_name(event)) ELSE UNCHANGED emitted
      /\ Receive(r, Finished(run))
      /\ UNCHANGED <<id, starting, calls>>
  BY DEF WorkerApply
<1>9. event \notin Early => run # runs[index]
  BY <1>4, <1>7
<1>10. \/ UNCHANGED emitted /\ run = runs[index] /\ event = "Started"
       \/ Emit(id[r], lifecycle_event_name(event)) /\ (run # runs[index] \/ event # "Started")
  <2>1. CASE run # runs[index] \/ event \in {"Progress", "Failed", "WaitFailed"}
    <3>1. Emit(id[r], lifecycle_event_name(event))
      BY <1>8, <2>1
    <3> QED
      BY <3>1, <2>1
  <2>2. CASE ~(run # runs[index] \/ event \in {"Progress", "Failed", "WaitFailed"})
    <3>1. UNCHANGED emitted
      BY <1>8, <2>2
    <3> QED
      BY <3>1, <2>2, <1>5, <1>9 DEF Events, Early
  <2> QED
    BY <2>1, <2>2
<1>11. channel' = [channel EXCEPT ![r] = IF Finished(run) THEN <<>> ELSE Tail(channel[r])]
  BY <1>8 DEF Receive
<1>12. UNCHANGED <<id, starting, starts, slot, cancelled, observer, stopping, stopped>>
  BY <1>8 DEF Receive, calls
<1> HIDE DEF event, run, index
<1>13. index = active[id[r]].index
  BY DEF index
<1>14. run = Applied(runs[index], event)
  BY DEF run
<1> QED
  BY <1>1, <1>2, <1>3, <1>4, <1>5, <1>7, <1>8, <1>10, <1>11, <1>12, <1>13, <1>14
  DEF Applies

LEMMA PersistEffect ==
  ASSUME TableInv, NEW r \in Run, WorkerPersist(r)
  PROVE  /\ worker[r] = "persist" /\ id[r] \in Ids
         /\ worker' = [worker EXCEPT ![r] = "done"]
         /\ current' = [current EXCEPT ![r] = NoRun]
         /\ \/ UNCHANGED <<runs, emitted>>
            \/ \E first \in DOMAIN runs, run \in Entry :
                 /\ runs[first].id = id[r]
                 /\ active[id[r]] # NoActive => first # active[id[r]].index
                 /\ run.id = id[r] /\ run.status = "failed" /\ run.error = "persist"
                 /\ runs' = [runs EXCEPT ![first] = run]
                 /\ Emit(id[r], "failed")
         /\ UNCHANGED <<id, starting, active, starts, slot, cancelled, channel, observer,
                        stopping, stopped>>
<1> DEFINE same == {j \in DOMAIN runs : runs[j].id = current[r].id}
           first == CHOOSE j \in same : \A l \in same : j <= l
<1>1. worker[r] = "persist"
  BY DEF WorkerPersist
<1>2. id[r] \in Ids
  BY <1>1 DEF TableInv, Typed, Started
<1>3. current[r].id = id[r]
  BY <1>1 DEF TableInv, PersistPending
<1>4. PICK k \in DOMAIN runs : runs[k].id = id[r] /\ k # active[id[r]].index
  BY <1>1 DEF TableInv, PersistPending
<1>5. first \in DOMAIN runs /\ runs[first].id = id[r] /\ first <= k
  BY <1>3, <1>4, FirstEntry DEF TableInv
<1>6. /\ worker' = [worker EXCEPT ![r] = "done"]
      /\ current' = [current EXCEPT ![r] = NoRun]
      /\ UNCHANGED <<runner, id, starting, active, calls>>
      /\ \/ UNCHANGED <<runs, emitted>>
         \/ /\ runs' = [runs EXCEPT ![first].status = "failed", ![first].error = "persist"]
            /\ Emit(id[r], "failed")
  BY DEF WorkerPersist
<1> HIDE DEF first
<1>7. active[id[r]] # NoActive => first # active[id[r]].index
  <2>1. first \in Nat /\ k \in Nat /\ active[id[r]].index \in Nat
    BY <1>2, <1>4, <1>5 DEF TableInv, Typed
  <2>2. active[id[r]] # NoActive => k <= active[id[r]].index
    BY <1>2, <1>4 DEF TableInv, ActiveLatest
  <2> QED
    BY <1>4, <1>5, <2>1, <2>2
<1>8. CASE UNCHANGED <<runs, emitted>>
  BY <1>1, <1>2, <1>6, <1>8 DEF runner, calls
<1>9. ASSUME runs' = [runs EXCEPT ![first].status = "failed", ![first].error = "persist"],
             Emit(id[r], "failed")
      PROVE  \E f \in DOMAIN runs, run \in Entry :
                 /\ runs[f].id = id[r]
                 /\ active[id[r]] # NoActive => f # active[id[r]].index
                 /\ run.id = id[r] /\ run.status = "failed" /\ run.error = "persist"
                 /\ runs' = [runs EXCEPT ![f] = run]
                 /\ Emit(id[r], "failed")
  <2> DEFINE run == [runs[first] EXCEPT !.status = "failed", !.error = "persist"]
  <2>1. runs[first] \in Entry
    BY <1>5 DEF TableInv, Typed
  <2>2. run \in Entry /\ run.id = id[r] /\ run.status = "failed" /\ run.error = "persist"
    BY <2>1, <1>5 DEF Entry, Final
  <2>3. runs' = [runs EXCEPT ![first] = run]
    BY <1>9, <1>5, <2>1 DEF Entry, TableInv, Typed
  <2> HIDE DEF run
  <2> QED
    BY <1>5, <1>7, <1>9, <2>2, <2>3
<1> QED
  BY <1>1, <1>2, <1>6, <1>8, <1>9 DEF runner, calls

(* The other steps, by what they leave alone. *)
Tables == <<id, starting, runs, active, worker, current, emitted, starts>>

LEMMA RegisterEffect ==
  ASSUME TableInv, NEW r \in Run, StartRegister(r)
  PROVE  /\ starting[r] = "register" /\ id[r] \in Ids
         /\ starting' = [starting EXCEPT ![r] = "announce"]
         /\ \E run \in Entry :
              /\ run.id = id[r] /\ run.status = "running"
              /\ runs' = Append(runs, run)
         /\ active' = [active EXCEPT ![id[r]] = [index |-> Len(runs) + 1, handle |-> r]]
         /\ UNCHANGED <<id, worker, current, emitted, starts, slot, cancelled, channel,
                        observer, stopping, stopped>>
<1> DEFINE run == [id |-> id[r], status |-> "running", error |-> "none"]
<1>1. starting[r] = "register"
  BY DEF StartRegister, Registered
<1>2. id[r] \in Ids
  BY <1>1 DEF TableInv, Typed, Started
<1>3. run \in Entry /\ run.id = id[r] /\ run.status = "running"
  BY <1>2 DEF Entry
<1>4. /\ starting' = [starting EXCEPT ![r] = "announce"]
      /\ runs' = Append(runs, run)
      /\ active' = [active EXCEPT ![id[r]] = [index |-> Len(runs) + 1, handle |-> r]]
      /\ UNCHANGED <<runner, id, worker, current, emitted, calls>>
  BY DEF StartRegister, Registered
<1> HIDE DEF run
<1> QED
  BY <1>1, <1>2, <1>3, <1>4 DEF runner, calls

LEMMA AnnounceEffect ==
  ASSUME TableInv, NEW r \in Run, StartAnnounce(r)
  PROVE  /\ starting[r] = "announce" /\ id[r] \in Ids
         /\ starting' = [starting EXCEPT ![r] = "done"]
         /\ Emit(id[r], "started")
         /\ worker' = [worker EXCEPT ![r] = "recv"]
         /\ UNCHANGED <<id, runs, active, current, starts, slot, cancelled, channel,
                        observer, stopping, stopped>>
BY DEF StartAnnounce, TableInv, Typed, Started, runner, calls

LEMMA BreakEffect ==
  ASSUME TableInv, NEW r \in Run, WorkerBreak(r)
  PROVE  /\ worker[r] = "recv"
         /\ worker' = [worker EXCEPT ![r] = "done"]
         /\ channel' = [channel EXCEPT ![r] = <<>>] \/ channel' = channel
         /\ UNCHANGED <<id, starting, runs, active, current, emitted, starts, slot,
                        cancelled, observer, stopping, stopped>>
BY DEF WorkerBreak, Receive, runner, calls

(* The child, the observer and the calls of stop leave the tables alone.   *)
LEMMA RunnerEffect ==
  ASSUME TableInv, NEW r \in Run, RunnerSteps(r)
  PROVE  /\ UNCHANGED <<Tables, cancelled, stopping, stopped>>
         /\ \/ UNCHANGED <<slot, channel, observer>>
            \/ /\ observer[r] = "take" /\ observer' = [observer EXCEPT ![r] = "wait"]
               /\ slot' = [slot EXCEPT ![r] = FALSE] /\ UNCHANGED channel
            \/ /\ observer[r] = "wait" /\ UNCHANGED <<slot, channel>>
               /\ \E code \in {"zero", "nonzero", "error"} :
                    observer' = [observer EXCEPT ![r] = code]
            \/ /\ observer[r] \in {"zero", "nonzero", "error"}
               /\ observer' = [observer EXCEPT ![r] = "done"] /\ UNCHANGED slot
               /\ \E lines \in Outputs :
                    channel' = [channel EXCEPT ![r] =
                                  @ \o read_stream(lines) \o Verdict(r, lines)]
<1>1. UNCHANGED <<Tables, stopping, stopped>>
  BY DEF RunnerSteps, Tables, manager, calls
<1>2. CASE Exit(r)
  BY <1>1, <1>2 DEF Exit
<1>3. CASE ObserverTake(r)
  BY <1>1, <1>3 DEF ObserverTake
<1>4. CASE ObserverWait(r)
  BY <1>1, <1>4 DEF ObserverWait, wait
<1>5. CASE ObserverSend(r)
  BY <1>1, <1>5 DEF ObserverSend
<1> QED
  BY <1>2, <1>3, <1>4, <1>5 DEF RunnerSteps, RunnerStep

LEMMA StopEffect ==
  ASSUME TableInv, StopLookup \/ StopCancel \/ StopReturn
  PROVE  /\ UNCHANGED <<Tables, slot, channel, observer>>
         /\ \/ /\ \/ UNCHANGED stopping
                  \/ /\ stopping'.run \in Run /\ stopping'.at = "flag"
                     /\ stopping' \in [run : Run, at : {"flag"}]
               /\ UNCHANGED <<cancelled, stopped>>
            \/ /\ stopping.at = "flag" /\ stopping' = [stopping EXCEPT !.at = "kill"]
               /\ cancelled' = [cancelled EXCEPT ![stopping.run] = TRUE]
               /\ UNCHANGED stopped
            \/ /\ stopping.at = "kill" /\ stopping' = [run |-> 0, at |-> "idle"]
               /\ \/ UNCHANGED stopped
                  \/ slot[stopping.run] /\ stopped' = stopped \cup {stopping.run}
               /\ UNCHANGED cancelled
<1>1. CASE StopLookup
  <2>1. UNCHANGED <<Tables, slot, channel, observer, cancelled, stopped>>
    BY <1>1 DEF StopLookup, Tables, manager, runner
  <2>2. PICK i \in Ids :
          \/ /\ active[i] # NoActive
             /\ stopping' = [run |-> active[i].handle, at |-> "flag"]
          \/ UNCHANGED stopping
    BY <1>1 DEF StopLookup
  <2>3. active[i] # NoActive => active[i].handle \in Run
    BY DEF TableInv, ActiveLatest
  <2> QED
    BY <2>1, <2>2, <2>3
<1>2. CASE StopCancel
  BY <1>2 DEF StopCancel, StopFlag, Tables, manager
<1>3. CASE StopReturn
  <2>1. UNCHANGED <<Tables, slot, channel, observer, cancelled>>
    BY <1>3 DEF StopReturn, StopKill, StopFails, StopTooLate, Tables, manager, runner
  <2> QED
    BY <1>3, <2>1 DEF StopReturn, StopKill
<1> QED
  BY <1>1, <1>2, <1>3

LEMMA VerdictTyped ==
  ASSUME NEW r \in Run, NEW lines \in Outputs
  PROVE  /\ read_stream(lines) \in Seq(Events) /\ Verdict(r, lines) \in Seq(Events)
         /\ \A n \in DOMAIN read_stream(lines) : read_stream(lines)[n] = "Progress"
         /\ cancelled[r] => \A n \in DOMAIN Verdict(r, lines) :
                              Verdict(r, lines)[n] \notin {"Completed", "Failed"}
<1>1. /\ read_stream(lines) \in Seq(Events)
      /\ \A n \in DOMAIN read_stream(lines) : read_stream(lines)[n] = "Progress"
  <2>1. read_stream(lines) = <<>> \/ read_stream(lines) = <<"Progress">>
    BY DEF read_stream
  <2>2. CASE read_stream(lines) = <<>>
    BY <2>2
  <2>3. CASE read_stream(lines) = <<"Progress">>
    BY <2>3 DEF Events, Early
  <2> QED
    BY <2>1, <2>2, <2>3
<1>2. CASE observer[r] = "error"
  BY <1>1, <1>2 DEF Verdict, Events, Early
<1>3. CASE observer[r] # "error" /\ cancelled[r]
  BY <1>1, <1>3 DEF Verdict, Events, Early
<1>4. CASE observer[r] = "nonzero" /\ ~cancelled[r]
  BY <1>1, <1>4 DEF Verdict, Events, Early
<1>5. CASE observer[r] \notin {"error", "nonzero"} /\ ~cancelled[r]
  <2>1. Verdict(r, lines) = IF parse_output(lines) THEN <<"Completed">> ELSE <<"Failed">>
    BY <1>5 DEF Verdict
  <2>2. Verdict(r, lines) = <<"Completed">> \/ Verdict(r, lines) = <<"Failed">>
    BY <2>1
  <2>3. <<"Completed">> \in Seq(Events) /\ <<"Failed">> \in Seq(Events)
    BY DEF Events
  <2> QED
    BY <1>1, <1>5, <2>2, <2>3
<1> QED
  BY <1>2, <1>3, <1>4, <1>5

-----------------------------------------------------------------------------
(* The tables.                                                             *)

LEMMA TableInit == Init => TableInv
<1> SUFFICES ASSUME Init PROVE TableInv
  OBVIOUS
<1> USE DEF Init, RunnerInit, ManagerInit
<1>1. Typed
  <2>1. <<>> \in Seq(Entry) /\ <<>> \in Seq(Events)
        /\ <<>> \in Seq({"started", "running"} \cup Final)
    OBVIOUS
  <2>2. NoActive \in [index : Nat, handle : Run \cup {0}]
    BY DEF NoActive
  <2> QED
    BY <2>1, <2>2 DEF Typed
<1>2. Started
  BY DEF Started
<1>3. ActiveLatest /\ PersistPending
  BY DEF ActiveLatest, PersistPending
<1> QED
  BY <1>1, <1>2, <1>3 DEF TableInv

LEMMA TableSpawn ==
  ASSUME TableInv, NEW r \in Run, StartSpawn(r)
  PROVE  TableInv'
<1>1. PICK now \in Ids : id' = [id EXCEPT ![r] = now]
  BY SpawnEffect DEF TableInv
<1>2. /\ starts' = starts + 1 /\ r = starts + 1
      /\ starting' = [starting EXCEPT ![r] = "register"]
      /\ slot' = [slot EXCEPT ![r] = TRUE]
      /\ channel' = [channel EXCEPT ![r] = <<"Started", "Progress">>]
      /\ observer' = [observer EXCEPT ![r] = "take"]
      /\ UNCHANGED <<cancelled, runs, active, worker, current, emitted, stopping, stopped>>
  BY SpawnEffect DEF TableInv
<1>3. now # 0 /\ now \in Nat /\ \A q \in Run : q \in Nat
  BY BenchmarksAssumption DEF Ids
<1>4. id[r] = 0 /\ starting[r] = "none" /\ worker[r] = "off"
  BY <1>2, <1>3 DEF TableInv, Typed, Started
<1>5. Typed'
  <2>1. <<"Started", "Progress">> \in Seq(Events)
    BY DEF Events, Early
  <2> QED
    BY <1>1, <1>2, <2>1 DEF TableInv, Typed
<1>6. Started'
  BY <1>1, <1>2, <1>3, <1>4 DEF TableInv, Typed, Started
<1>7. ActiveLatest'
  BY <1>2 DEF TableInv, ActiveLatest
<1>8. PersistPending'
  BY <1>1, <1>2, <1>4 DEF TableInv, Typed, PersistPending
<1> QED
  BY <1>5, <1>6, <1>7, <1>8 DEF TableInv

LEMMA TableRegister ==
  ASSUME TableInv, NEW r \in Run, StartRegister(r)
  PROVE  TableInv'
<1>1. PICK run \in Entry :
        run.id = id[r] /\ run.status = "running" /\ runs' = Append(runs, run)
  BY RegisterEffect
<1> DEFINE new == [index |-> Len(runs) + 1, handle |-> r]
<1>2. /\ starting[r] = "register" /\ id[r] \in Ids
      /\ starting' = [starting EXCEPT ![r] = "announce"]
      /\ active' = [active EXCEPT ![id[r]] = new]
      /\ UNCHANGED <<id, worker, current, emitted, starts, slot, cancelled, channel,
                     observer, stopping, stopped>>
  BY RegisterEffect
<1>3. /\ Len(runs) \in Nat /\ DOMAIN runs = 1..Len(runs)
      /\ DOMAIN runs' = 1..(Len(runs) + 1)
      /\ \A k \in 1..Len(runs) : runs'[k] = runs[k]
      /\ runs'[Len(runs) + 1] = run
      /\ runs' \in Seq(Entry)
  BY <1>1 DEF TableInv, Typed
<1>4. /\ new \in [index : Nat, handle : Run \cup {0}]
      /\ new.index = Len(runs) + 1 /\ new.handle = r
  BY <1>3
<1> HIDE DEF new
<1>5. Typed'
  BY <1>2, <1>3, <1>4 DEF TableInv, Typed
<1>6. Started'
  BY <1>2 DEF TableInv, Typed, Started
<1>7. ActiveLatest'
  <2> SUFFICES ASSUME NEW i \in Ids, active'[i] # NoActive
               PROVE  /\ active'[i].index \in DOMAIN runs' /\ active'[i].handle \in Run
                      /\ runs'[active'[i].index].id = i
                      /\ ~Finished(runs'[active'[i].index])
                      /\ \A k \in DOMAIN runs' : runs'[k].id = i => k <= active'[i].index
    BY DEF ActiveLatest, Finished
  <2>1. CASE i = id[r]
    <3>1. active'[i] = new
      BY <1>2, <2>1 DEF TableInv, Typed
    <3> QED
      BY <1>1, <1>3, <1>4, <2>1, <3>1 DEF Finished
  <2>2. CASE i # id[r]
    <3>1. active'[i] = active[i]
      BY <1>2, <2>2 DEF TableInv, Typed
    <3>2. /\ active[i].index \in DOMAIN runs /\ active[i].handle \in Run
          /\ runs[active[i].index].id = i /\ ~Finished(runs[active[i].index])
          /\ \A k \in DOMAIN runs : runs[k].id = i => k <= active[i].index
      BY <3>1 DEF TableInv, ActiveLatest
    <3> QED
      BY <1>1, <1>3, <2>2, <3>1, <3>2
  <2> QED
    BY <2>1, <2>2
<1>8. PersistPending'
  <2> SUFFICES ASSUME NEW q \in Run, worker[q] = "persist"
               PROVE  /\ current[q].id = id[q]
                      /\ \E k \in DOMAIN runs' :
                           runs'[k].id = id[q] /\ k # active'[id[q]].index
    BY <1>2 DEF PersistPending
  <2>1. id[q] \in Ids /\ current[q].id = id[q]
    BY DEF TableInv, Typed, Started, PersistPending
  <2>2. PICK k \in DOMAIN runs : runs[k].id = id[q] /\ k # active[id[q]].index
    BY DEF TableInv, PersistPending
  <2>3. active'[id[q]] = new \/ active'[id[q]] = active[id[q]]
    BY <1>2, <2>1 DEF TableInv, Typed
  <2>4. k # active'[id[q]].index
    BY <1>3, <1>4, <2>2, <2>3
  <2> QED
    BY <1>3, <2>1, <2>2, <2>4
<1> QED
  BY <1>5, <1>6, <1>7, <1>8 DEF TableInv

LEMMA TableAnnounce ==
  ASSUME TableInv, NEW r \in Run, StartAnnounce(r)
  PROVE  TableInv'
<1>1. /\ starting[r] = "announce" /\ id[r] \in Ids
      /\ starting' = [starting EXCEPT ![r] = "done"]
      /\ Emit(id[r], "started")
      /\ worker' = [worker EXCEPT ![r] = "recv"]
      /\ UNCHANGED <<id, runs, active, current, starts, slot, cancelled, channel,
                     observer, stopping, stopped>>
  BY AnnounceEffect
<1>2. emitted' \in [Ids -> Seq({"started", "running"} \cup Final)]
  BY <1>1, EmitEffect DEF TableInv, Typed
<1>3. Typed'
  BY <1>1, <1>2 DEF TableInv, Typed
<1>4. Started'
  BY <1>1 DEF TableInv, Typed, Started
<1>5. ActiveLatest'
  BY <1>1 DEF TableInv, ActiveLatest
<1>6. PersistPending'
  BY <1>1 DEF TableInv, Typed, PersistPending
<1> QED
  BY <1>3, <1>4, <1>5, <1>6 DEF TableInv

LEMMA TableApply ==
  ASSUME TableInv, NEW r \in Run, WorkerApply(r)
  PROVE  TableInv'
<1>0. PICK index \in DOMAIN runs, event \in Events, run \in Entry :
        Applies(r, index, event, run)
  BY ApplyEffect
<1>1. /\ id[r] \in Ids /\ worker[r] = "recv" /\ channel[r] # <<>>
      /\ index = active[id[r]].index /\ active[id[r]] # NoActive
      /\ runs[index].id = id[r] /\ run.id = id[r]
      /\ runs' = [runs EXCEPT ![index] = run]
      /\ UNCHANGED <<id, starting, starts, slot, cancelled, observer, stopping, stopped>>
  BY <1>0 DEF Applies
<1>2. /\ DOMAIN runs' = DOMAIN runs /\ runs' \in Seq(Entry)
      /\ \A k \in DOMAIN runs : runs'[k] = IF k = index THEN run ELSE runs[k]
      /\ \A k \in DOMAIN runs : runs'[k].id = runs[k].id
  BY <1>1 DEF TableInv, Typed
<1>3. channel'\in [Run -> Seq(Events)]
  <2>1. channel[r] \in Seq(Events) /\ Tail(channel[r]) \in Seq(Events) /\ <<>> \in Seq(Events)
    BY <1>1 DEF TableInv, Typed
  <2> QED
    BY <1>0, <2>1 DEF TableInv, Typed, Applies
<1>4. emitted' \in [Ids -> Seq({"started", "running"} \cup Final)]
  BY <1>0, <1>1, EmitEffect, EventName DEF TableInv, Typed, Applies
<1>5. CASE Finished(run)
  <2>1. /\ active' = [active EXCEPT ![id[r]] = NoActive]
        /\ worker' = [worker EXCEPT ![r] = "persist"]
        /\ current' = [current EXCEPT ![r] = run]
    BY <1>0, <1>5 DEF Applies
  <2>2. NoActive \in [index : Nat, handle : Run \cup {0}] /\ NoActive.index = 0
    BY DEF NoActive
  <2>3. Typed'
    BY <1>1, <1>2, <1>3, <1>4, <2>1, <2>2 DEF TableInv, Typed
  <2>4. Started'
    BY <1>1, <2>1 DEF TableInv, Typed, Started
  <2>5. ActiveLatest'
    <3> SUFFICES ASSUME NEW i \in Ids, active'[i] # NoActive
                 PROVE  /\ active'[i].index \in DOMAIN runs' /\ active'[i].handle \in Run
                        /\ runs'[active'[i].index].id = i
                        /\ ~Finished(runs'[active'[i].index])
                        /\ \A k \in DOMAIN runs' : runs'[k].id = i => k <= active'[i].index
      BY DEF ActiveLatest, Finished
    <3>1. i # id[r] /\ active'[i] = active[i]
      BY <1>1, <2>1 DEF TableInv, Typed
    <3>2. /\ active[i].index \in DOMAIN runs /\ active[i].handle \in Run
          /\ runs[active[i].index].id = i /\ ~Finished(runs[active[i].index])
          /\ \A k \in DOMAIN runs : runs[k].id = i => k <= active[i].index
      BY <3>1 DEF TableInv, ActiveLatest
    <3>3. active[i].index # index
      BY <1>1, <3>1, <3>2
    <3> QED
      BY <1>2, <3>1, <3>2, <3>3
  <2>6. PersistPending'
    <3> SUFFICES ASSUME NEW q \in Run, worker'[q] = "persist"
                 PROVE  /\ current'[q].id = id[q]
                        /\ \E k \in DOMAIN runs : runs[k].id = id[q] /\ k # active'[id[q]].index
      BY <1>1, <1>2 DEF PersistPending
    <3>1. CASE id[q] = id[r]
      <4>1. active'[id[q]].index = 0 /\ index # 0
        BY <1>1, <2>1, <2>2, <3>1 DEF TableInv, Typed
      <4>2. current'[q].id = id[q]
        BY <1>1, <2>1, <3>1 DEF TableInv, Typed, PersistPending
      <4> QED
        BY <1>1, <3>1, <4>1, <4>2
    <3>2. CASE id[q] # id[r]
      <4>1. q # r /\ worker[q] = "persist" /\ current'[q] = current[q] /\ id[q] \in Ids
        BY <2>1, <3>2 DEF TableInv, Typed, Started
      <4>2. active'[id[q]] = active[id[q]]
        BY <2>1, <3>2, <4>1 DEF TableInv, Typed
      <4> QED
        BY <4>1, <4>2 DEF TableInv, PersistPending
    <3> QED
      BY <3>1, <3>2
  <2> QED
    BY <2>3, <2>4, <2>5, <2>6 DEF TableInv
<1>6. CASE ~Finished(run)
  <2>1. /\ active' = active
        /\ worker' = [worker EXCEPT ![r] = "recv"]
        /\ current' = [current EXCEPT ![r] = NoRun]
    BY <1>0, <1>6 DEF Applies
  <2>2. Typed'
    BY <1>1, <1>2, <1>3, <1>4, <2>1 DEF TableInv, Typed
  <2>3. Started'
    BY <1>1, <2>1 DEF TableInv, Typed, Started
  <2>4. ActiveLatest'
    <3> SUFFICES ASSUME NEW i \in Ids, active[i] # NoActive
                 PROVE  /\ active[i].index \in DOMAIN runs' /\ active[i].handle \in Run
                        /\ runs'[active[i].index].id = i
                        /\ ~Finished(runs'[active[i].index])
                        /\ \A k \in DOMAIN runs' : runs'[k].id = i => k <= active[i].index
      BY <2>1 DEF ActiveLatest, Finished
    <3> QED
      BY <1>1, <1>2, <1>6 DEF TableInv, ActiveLatest
  <2>5. PersistPending'
    BY <1>1, <1>2, <2>1 DEF TableInv, Typed, PersistPending
  <2> QED
    BY <2>2, <2>3, <2>4, <2>5 DEF TableInv
<1> QED
  BY <1>5, <1>6

LEMMA TablePersist ==
  ASSUME TableInv, NEW r \in Run, WorkerPersist(r)
  PROVE  TableInv'
<1>1. /\ worker[r] = "persist" /\ id[r] \in Ids
      /\ worker' = [worker EXCEPT ![r] = "done"]
      /\ current' = [current EXCEPT ![r] = NoRun]
      /\ UNCHANGED <<id, starting, active, starts, slot, cancelled, channel, observer,
                     stopping, stopped>>
  BY PersistEffect
<1>2. Started'
  BY <1>1 DEF TableInv, Typed, Started
<1>3. CASE UNCHANGED <<runs, emitted>>
  <2>1. Typed'
    BY <1>1, <1>3 DEF TableInv, Typed
  <2>2. ActiveLatest' /\ PersistPending'
    BY <1>1, <1>3 DEF TableInv, Typed, ActiveLatest, PersistPending
  <2> QED
    BY <1>2, <2>1, <2>2 DEF TableInv
<1>4. ASSUME NEW first \in DOMAIN runs, NEW run \in Entry,
             runs[first].id = id[r], run.id = id[r],
             active[id[r]] # NoActive => first # active[id[r]].index,
             runs' = [runs EXCEPT ![first] = run],
             Emit(id[r], "failed")
      PROVE  TableInv'
  <2>1. /\ DOMAIN runs' = DOMAIN runs /\ runs' \in Seq(Entry)
        /\ \A k \in DOMAIN runs : runs'[k] = IF k = first THEN run ELSE runs[k]
        /\ \A k \in DOMAIN runs : runs'[k].id = runs[k].id
    BY <1>4 DEF TableInv, Typed
  <2>2. emitted' \in [Ids -> Seq({"started", "running"} \cup Final)]
    BY <1>1, <1>4, EmitEffect DEF TableInv, Typed, Final
  <2>3. Typed'
    BY <1>1, <2>1, <2>2 DEF TableInv, Typed
  <2>4. ActiveLatest'
    <3> SUFFICES ASSUME NEW i \in Ids, active[i] # NoActive
                 PROVE  /\ active[i].index \in DOMAIN runs' /\ active[i].handle \in Run
                        /\ runs'[active[i].index].id = i
                        /\ ~Finished(runs'[active[i].index])
                        /\ \A k \in DOMAIN runs' : runs'[k].id = i => k <= active[i].index
      BY <1>1 DEF ActiveLatest, Finished
    <3>1. /\ active[i].index \in DOMAIN runs /\ active[i].handle \in Run
          /\ runs[active[i].index].id = i /\ ~Finished(runs[active[i].index])
          /\ \A k \in DOMAIN runs : runs[k].id = i => k <= active[i].index
      BY DEF TableInv, ActiveLatest
    <3>2. active[i].index # first
      BY <1>4, <3>1
    <3> QED
      BY <2>1, <3>1, <3>2
  <2>5. PersistPending'
    BY <1>1, <2>1 DEF TableInv, Typed, PersistPending
  <2> QED
    BY <1>2, <2>3, <2>4, <2>5 DEF TableInv
<1> QED
  BY <1>3, <1>4, PersistEffect

LEMMA TableBreak ==
  ASSUME TableInv, NEW r \in Run, WorkerBreak(r)
  PROVE  TableInv'
<1>1. /\ worker[r] = "recv"
      /\ worker' = [worker EXCEPT ![r] = "done"]
      /\ channel' = [channel EXCEPT ![r] = <<>>] \/ channel' = channel
      /\ UNCHANGED <<id, starting, runs, active, current, emitted, starts, slot,
                     cancelled, observer, stopping, stopped>>
  BY BreakEffect
<1>2. Typed'
  <2>1. <<>> \in Seq(Events)
    OBVIOUS
  <2>2. channel' \in [Run -> Seq(Events)]
    BY <1>1, <2>1 DEF TableInv, Typed
  <2> QED
    BY <1>1, <2>2 DEF TableInv, Typed
<1>3. Started'
  BY <1>1 DEF TableInv, Typed, Started
<1>4. ActiveLatest' /\ PersistPending'
  BY <1>1 DEF TableInv, Typed, ActiveLatest, PersistPending
<1> QED
  BY <1>2, <1>3, <1>4 DEF TableInv

LEMMA TableRunner ==
  ASSUME TableInv, NEW r \in Run, RunnerSteps(r)
  PROVE  TableInv'
<1>1. UNCHANGED <<Tables, cancelled, stopping, stopped>>
  BY RunnerEffect
<1>2. slot' \in [Run -> BOOLEAN]
  BY RunnerEffect DEF TableInv, Typed
<1>3. /\ observer' \in [Run -> {"none", "take", "wait", "zero", "nonzero", "error", "done"}]
      /\ \A q \in Run : observer'[q] = "none" <=> observer[q] = "none"
  <2>1. \/ UNCHANGED observer
        \/ /\ observer[r] # "none"
           /\ \E to \in {"wait", "zero", "nonzero", "error", "done"} :
                observer' = [observer EXCEPT ![r] = to]
    BY RunnerEffect
  <2>2. ASSUME observer[r] # "none",
               NEW to \in {"wait", "zero", "nonzero", "error", "done"},
               observer' = [observer EXCEPT ![r] = to]
        PROVE  /\ observer' \in
                    [Run -> {"none", "take", "wait", "zero", "nonzero", "error", "done"}]
               /\ \A q \in Run : observer'[q] = "none" <=> observer[q] = "none"
    BY <2>2 DEF TableInv, Typed
  <2>3. CASE UNCHANGED observer
    BY <2>3 DEF TableInv, Typed
  <2> QED
    BY <2>1, <2>2, <2>3
<1>4. channel' \in [Run -> Seq(Events)]
  <2>1. ASSUME NEW lines \in Outputs
        PROVE  channel[r] \o read_stream(lines) \o Verdict(r, lines) \in Seq(Events)
    <3>1. /\ channel[r] \in Seq(Events) /\ read_stream(lines) \in Seq(Events)
          /\ Verdict(r, lines) \in Seq(Events)
      BY VerdictTyped DEF TableInv, Typed
    <3> QED
      BY <3>1
  <2> QED
    <3>1. \/ UNCHANGED channel
          \/ \E lines \in Outputs :
               channel' = [channel EXCEPT ![r] =
                             @ \o read_stream(lines) \o Verdict(r, lines)]
      BY RunnerEffect
    <3>2. CASE UNCHANGED channel
      BY <3>2 DEF TableInv, Typed
    <3>3. ASSUME NEW lines \in Outputs,
                 channel' = [channel EXCEPT ![r] =
                               @ \o read_stream(lines) \o Verdict(r, lines)]
          PROVE  channel' \in [Run -> Seq(Events)]
      BY <2>1, <3>3 DEF TableInv, Typed
    <3> QED
      BY <3>1, <3>2, <3>3
<1>5. Typed'
  BY <1>1, <1>2, <1>3, <1>4 DEF TableInv, Typed, Tables
<1>6. Started'
  BY <1>1, <1>3 DEF TableInv, Started, Tables
<1>7. ActiveLatest' /\ PersistPending'
  BY <1>1 DEF TableInv, ActiveLatest, PersistPending, Tables
<1> QED
  BY <1>5, <1>6, <1>7 DEF TableInv

LEMMA TableStop ==
  ASSUME TableInv, StopLookup \/ StopCancel \/ StopReturn
  PROVE  TableInv'
<1>1. UNCHANGED <<Tables, slot, channel, observer>>
  BY StopEffect
<1>2. cancelled' \in [Run -> BOOLEAN]
  BY StopEffect DEF TableInv, Typed
<1>3. stopping' \in [run : Run \cup {0}, at : {"idle", "flag", "kill"}]
  <2> DEFINE Calls == [run : Run \cup {0}, at : {"idle", "flag", "kill"}]
  <2>1. \/ stopping' = stopping
        \/ stopping' \in [run : Run, at : {"flag"}]
        \/ stopping' = [stopping EXCEPT !.at = "kill"]
        \/ stopping' = [run |-> 0, at |-> "idle"]
    BY StopEffect
  <2>2. stopping \in Calls
    BY DEF TableInv, Typed
  <2>3. CASE stopping' \in [run : Run, at : {"flag"}]
    BY <2>3
  <2>4. CASE stopping' = [stopping EXCEPT !.at = "kill"]
    BY <2>2, <2>4
  <2>5. CASE stopping' = [run |-> 0, at |-> "idle"]
    BY <2>5
  <2> QED
    BY <2>1, <2>2, <2>3, <2>4, <2>5
<1>4. Typed'
  BY <1>1, <1>2, <1>3 DEF TableInv, Typed, Tables
<1>5. Started' /\ ActiveLatest' /\ PersistPending'
  BY <1>1 DEF TableInv, Started, ActiveLatest, PersistPending, Tables
<1> QED
  BY <1>4, <1>5 DEF TableInv

(* A start that is refused counts, and nothing else. *)
Refused ==
  /\ starts' \in {starts, starts + 1}
  /\ UNCHANGED <<id, starting, runs, active, worker, current, emitted, slot, cancelled,
                 channel, observer, stopping, stopped>>

LEMMA RefusedEffect ==
  ASSUME StartRefused \/ UNCHANGED vars
  PROVE  Refused
BY DEF StartRefused, Refused, vars, runner, manager, calls

LEMMA TableRefused ==
  ASSUME TableInv, Refused
  PROVE  TableInv'
<1>1. Typed'
  BY DEF TableInv, Typed, Refused
<1>2. Started'
  BY BenchmarksAssumption DEF TableInv, Typed, Started, Refused
<1>3. ActiveLatest' /\ PersistPending'
  BY DEF TableInv, ActiveLatest, PersistPending, Refused
<1> QED
  BY <1>1, <1>2, <1>3 DEF TableInv

(* The cases of a step. *)
LEMMA Cases ==
  ASSUME [Next]_vars
  PROVE  \/ Refused
         \/ \E r \in Run :
              \/ StartSpawn(r) \/ StartRegister(r) \/ StartAnnounce(r)
              \/ WorkerApply(r) \/ WorkerBreak(r) \/ WorkerPersist(r)
              \/ RunnerSteps(r)
         \/ StopLookup \/ StopCancel \/ StopReturn
BY RefusedEffect DEF Next, RunStep, Start, WorkerStep

LEMMA TableStep == TableInv /\ [Next]_vars => TableInv'
<1> SUFFICES ASSUME TableInv, [Next]_vars PROVE TableInv'
  OBVIOUS
<1> QED
  BY Cases, TableSpawn, TableRegister, TableAnnounce, TableApply, TableBreak,
     TablePersist, TableRunner, TableStop, TableRefused

LEMMA TablesKept == Spec => []TableInv
BY TableInit, TableStep, PTL DEF Spec

(* A finished run never runs again, whatever its runner still sends and    *)
(* even where another run has its id: only a failure to persist it changes *)
(* it.                                                                     *)
THEOREM FinishedForGood == Spec => FinishedStays
<1> DEFINE Stays ==
      \A k \in DOMAIN runs \cap DOMAIN runs' :
         Finished(runs[k]) => \/ runs'[k] = runs[k]
                              \/ runs'[k].status = "failed" /\ runs'[k].error = "persist"
<1>1. TableInv /\ [Next]_vars => [Stays]_vars
  <2> SUFFICES ASSUME TableInv, [Next]_vars PROVE Stays
    OBVIOUS
  <2>1. CASE UNCHANGED runs
    BY <2>1
  <2>2. ASSUME NEW r \in Run, StartRegister(r) PROVE Stays
    <3>1. PICK run \in Entry : runs' = Append(runs, run)
      BY <2>2, RegisterEffect
    <3>2. \A k \in DOMAIN runs : runs'[k] = runs[k]
      BY <3>1 DEF TableInv, Typed
    <3> QED
      BY <3>2
  <2>3. ASSUME NEW r \in Run, WorkerApply(r) PROVE Stays
    <3>1. PICK index \in DOMAIN runs, event \in Events, run \in Entry :
            Applies(r, index, event, run)
      BY <2>3, ApplyEffect
    <3>2. ~Finished(runs[index]) /\ runs' = [runs EXCEPT ![index] = run]
      BY <3>1 DEF Applies
    <3> QED
      BY <3>2 DEF TableInv, Typed
  <2>4. ASSUME NEW r \in Run, WorkerPersist(r) PROVE Stays
    <3>1. ASSUME NEW first \in DOMAIN runs, NEW run \in Entry,
                 run.status = "failed", run.error = "persist",
                 runs' = [runs EXCEPT ![first] = run]
          PROVE  Stays
      BY <3>1 DEF TableInv, Typed
    <3> QED
      BY <2>1, <2>4, <3>1, PersistEffect
  <2> QED
    BY Cases, <2>1, <2>2, <2>3, <2>4, SpawnEffect, AnnounceEffect, BreakEffect,
       RunnerEffect, StopEffect DEF TableInv, Tables, Refused
<1> QED
  BY <1>1, TablesKept, PTL DEF Spec, FinishedStays

-----------------------------------------------------------------------------
(* Entries and announcements have an owner.                                *)

LEMMA AppendedRun ==
  ASSUME NEW list \in Seq(Entry), NEW run \in Entry
  PROVE  \A k \in DOMAIN Append(list, run) :
           \/ Append(list, run)[k] = run
           \/ k \in DOMAIN list /\ Append(list, run)[k] = list[k]
OBVIOUS

LEMMA OwnedStep ==
  ASSUME TableInv, Owned, [Next]_vars
  PROVE  Owned'
<1>1. CASE UNCHANGED <<id, runs, emitted>>
  BY <1>1 DEF Owned
<1>2. ASSUME NEW r \in Run, StartSpawn(r) PROVE Owned'
  <2>1. PICK now \in Ids : id' = [id EXCEPT ![r] = now]
    BY <1>2, SpawnEffect DEF TableInv
  <2>2. r = starts + 1 /\ UNCHANGED <<runs, emitted>>
    BY <1>2, SpawnEffect DEF TableInv
  <2>3. id[r] = 0
    BY <2>2, BenchmarksAssumption DEF TableInv, Typed, Started
  <2>4. ASSUME NEW i \in Ids, NEW q \in Run, id[q] = i PROVE id'[q] = i
    BY <2>1, <2>3, <2>4, BenchmarksAssumption DEF TableInv, Typed, Ids
  <2>5. \A k \in DOMAIN runs : runs[k].id \in Ids
    <3>1. \A k \in DOMAIN runs : runs[k] \in Entry
      BY DEF TableInv, Typed
    <3> QED
      BY <3>1 DEF Entry
  <2> QED
    BY <2>2, <2>4, <2>5 DEF Owned
<1>3. ASSUME NEW r \in Run, StartRegister(r) PROVE Owned'
  <2>1. PICK run \in Entry : run.id = id[r] /\ runs' = Append(runs, run)
    BY <1>3, RegisterEffect
  <2>2. \A k \in DOMAIN runs' : runs'[k] = run \/ (k \in DOMAIN runs /\ runs'[k] = runs[k])
    BY <2>1, AppendedRun DEF TableInv, Typed
  <2>3. UNCHANGED <<id, emitted>>
    BY <1>3, RegisterEffect
  <2> QED
    BY <2>1, <2>2, <2>3 DEF Owned
<1>4. ASSUME NEW r \in Run, StartAnnounce(r) PROVE Owned'
  <2>1. id[r] \in Ids /\ Emit(id[r], "started") /\ UNCHANGED <<id, runs>>
    BY <1>4, AnnounceEffect
  <2>2. \A j \in Ids : j # id[r] => emitted'[j] = emitted[j]
    BY <2>1, EmitEffect DEF TableInv, Typed
  <2> QED
    BY <2>1, <2>2 DEF Owned
<1>5. ASSUME NEW r \in Run, WorkerApply(r) PROVE Owned'
  <2>1. PICK index \in DOMAIN runs, event \in Events, run \in Entry :
          Applies(r, index, event, run)
    BY <1>5, ApplyEffect
  <2>2. /\ id[r] \in Ids /\ UNCHANGED id
        /\ run.id = id[r] /\ runs' = [runs EXCEPT ![index] = run]
    BY <2>1 DEF Applies
  <2>3. UNCHANGED emitted \/ Emit(id[r], lifecycle_event_name(event))
    BY <2>1 DEF Applies
  <2>4. \A j \in Ids : j # id[r] => emitted'[j] = emitted[j]
    BY <2>2, <2>3, EmitEffect, EventName DEF TableInv, Typed
  <2>5. \A k \in DOMAIN runs' : k \in DOMAIN runs /\ (runs'[k] = run \/ runs'[k] = runs[k])
    BY <2>2 DEF TableInv, Typed
  <2> QED
    BY <2>2, <2>4, <2>5 DEF Owned
<1>6. ASSUME NEW r \in Run, WorkerPersist(r) PROVE Owned'
  <2>1. UNCHANGED id
    BY <1>6, PersistEffect
  <2>2. ASSUME NEW first \in DOMAIN runs, NEW run \in Entry,
               run.id = id[r], runs' = [runs EXCEPT ![first] = run],
               id[r] \in Ids, Emit(id[r], "failed")
        PROVE  Owned'
    <3>1. \A j \in Ids : j # id[r] => emitted'[j] = emitted[j]
      BY <2>2, EmitEffect DEF TableInv, Typed, Final
    <3>2. \A k \in DOMAIN runs' : k \in DOMAIN runs /\ (runs'[k] = run \/ runs'[k] = runs[k])
      BY <2>2 DEF TableInv, Typed
    <3> QED
      BY <2>1, <2>2, <3>1, <3>2 DEF Owned
  <2> QED
    BY <1>1, <1>6, <2>1, <2>2, PersistEffect
<1> QED
  BY Cases, <1>1, <1>2, <1>3, <1>4, <1>5, <1>6, BreakEffect,
     RunnerEffect, StopEffect DEF Tables, Refused

(* A new run leaves the ids of the others alone, and has its own for       *)
(* itself only if nobody has had it before.                                *)
LEMMA SpawnUnique ==
  ASSUME TableInv, Owned, NEW r \in Run, StartSpawn(r)
  PROVE  /\ id[r] = 0 /\ id'[r] \in Ids
         /\ \A q \in Run : q # r => id'[q] = id[q]
         /\ \A q \in Run : q # r /\ id[q] # 0 /\ Unique(q)' => Unique(q)
         /\ Unique(r)' => /\ \A k \in DOMAIN runs : runs[k].id # id'[r]
                          /\ emitted[id'[r]] = <<>>
<1>1. PICK now \in Ids : id' = [id EXCEPT ![r] = now]
  BY SpawnEffect DEF TableInv
<1>2. r = starts + 1
  BY SpawnEffect DEF TableInv
<1>3. id[r] = 0 /\ 0 \notin Ids
  BY <1>2, BenchmarksAssumption DEF TableInv, Typed, Started, Ids
<1>4. id'[r] = now /\ \A q \in Run : q # r => id'[q] = id[q]
  BY <1>1 DEF TableInv, Typed
<1>5. \A q \in Run : q # r /\ id[q] # 0 /\ Unique(q)' => Unique(q)
  BY <1>3, <1>4 DEF Unique
<1>6. ASSUME Unique(r)' PROVE \A q \in Run : id[q] # now
  BY <1>3, <1>4, <1>6 DEF Unique
<1> QED
  BY <1>3, <1>4, <1>5, <1>6 DEF Owned

-----------------------------------------------------------------------------
(* Stops.                                                                  *)

LEMMA UndecidedStep ==
  ASSUME TableInv, Owned, Undecided, [Next]_vars
  PROVE  Undecided'
<1>1. CASE UNCHANGED <<id, runs, worker, slot, channel, observer>>
  BY <1>1 DEF Undecided, Unique, Finished
<1>2. ASSUME NEW r \in Run, StartSpawn(r) PROVE Undecided'
  <2>1. /\ slot' = [slot EXCEPT ![r] = TRUE]
        /\ channel' = [channel EXCEPT ![r] = <<"Started", "Progress">>]
        /\ observer' = [observer EXCEPT ![r] = "take"]
        /\ UNCHANGED <<runs, worker>>
    BY <1>2, SpawnEffect DEF TableInv
  <2>2. /\ id[r] = 0
        /\ \A q \in Run : q # r => id'[q] = id[q]
        /\ \A q \in Run : q # r /\ id[q] # 0 /\ Unique(q)' => Unique(q)
        /\ Unique(r)' => \A k \in DOMAIN runs : runs[k].id # id'[r]
    BY <1>2, SpawnUnique
  <2>3. worker[r] = "off"
    BY <2>2 DEF TableInv, Typed, Started
  <2>4. slot'[r] => observer'[r] = "take"
    BY <2>1 DEF TableInv, Typed
  <2>5. \A n \in DOMAIN channel'[r] : channel'[r][n] \in Early
    BY <2>1 DEF TableInv, Typed, Early
  <2>6. ASSUME NEW q \in Run, q # r
        PROVE  observer'[q] = observer[q] /\ slot'[q] = slot[q] /\ channel'[q] = channel[q]
    BY <2>1, <2>6 DEF TableInv, Typed
  <2> QED
    BY <2>1, <2>2, <2>3, <2>4, <2>5, <2>6 DEF Undecided, Finished
<1>3. ASSUME NEW r \in Run, StartRegister(r) PROVE Undecided'
  <2>1. PICK run \in Entry :
          run.id = id[r] /\ run.status = "running" /\ runs' = Append(runs, run)
    BY <1>3, RegisterEffect
  <2>2. \A k \in DOMAIN runs' : runs'[k] = run \/ (k \in DOMAIN runs /\ runs'[k] = runs[k])
    BY <2>1, AppendedRun DEF TableInv, Typed
  <2>3. UNCHANGED <<id, worker, slot, channel, observer>>
    BY <1>3, RegisterEffect
  <2> QED
    BY <2>1, <2>2, <2>3 DEF Undecided, Finished, Unique
<1>4. ASSUME NEW r \in Run, StartAnnounce(r) PROVE Undecided'
  BY <1>4, AnnounceEffect DEF Undecided, Finished, Unique, TableInv, Typed
<1>5. ASSUME NEW r \in Run, WorkerApply(r) PROVE Undecided'
  <2>1. PICK index \in DOMAIN runs, event \in Events, run \in Entry :
          Applies(r, index, event, run)
    BY <1>5, ApplyEffect
  <2>2. /\ run.id = id[r] /\ runs' = [runs EXCEPT ![index] = run]
        /\ worker' = [worker EXCEPT ![r] = IF Finished(run) THEN "persist" ELSE "recv"]
        /\ UNCHANGED <<id, slot, observer>>
    BY <2>1 DEF Applies
  <2>3. Finished(run) => observer[r] = "done"
    <3>1. 1 \in DOMAIN channel[r]
      BY <2>1 DEF Applies, TableInv, Typed
    <3> QED
      BY <2>1, <3>1 DEF Applies, Undecided
  <2>4. \A q \in Run : q # r => channel'[q] = channel[q]
    BY <2>1 DEF Applies, TableInv, Typed
  <2>5. observer[r] # "done" => \A n \in DOMAIN channel'[r] : channel'[r][n] \in Early
    <3> SUFFICES ASSUME observer[r] # "done"
                 PROVE  \A n \in DOMAIN channel'[r] : channel'[r][n] \in Early
      OBVIOUS
    <3>1. channel'[r] = Tail(channel[r])
      BY <2>1, <2>3 DEF Applies, TableInv, Typed
    <3>2. channel[r] \in Seq(Events) /\ channel[r] # <<>>
      BY <2>1 DEF Applies, TableInv, Typed
    <3>3. \A n \in DOMAIN Tail(channel[r]) :
            n + 1 \in DOMAIN channel[r] /\ Tail(channel[r])[n] = channel[r][n + 1]
      BY <3>2
    <3> QED
      BY <3>1, <3>3 DEF Undecided
  <2>6. \A q \in Run : worker'[q] = "persist" => observer[q] = "done"
    BY <2>2, <2>3 DEF Undecided, TableInv, Typed
  <2>7. \A k \in DOMAIN runs' :
          k \in DOMAIN runs /\ (runs'[k] = run \/ runs'[k] = runs[k])
    BY <2>2 DEF TableInv, Typed
  <2>8. ASSUME NEW q \in Run, NEW k \in DOMAIN runs', id[q] # 0, Unique(q),
               runs'[k].id = id[q], Finished(runs'[k])
        PROVE  observer[q] = "done"
    <3>1. CASE runs'[k] = run
      <4>1. q = r
        BY <2>2, <2>8, <3>1 DEF Unique
      <4> QED
        BY <2>3, <2>8, <3>1, <4>1
    <3>2. CASE runs'[k] = runs[k] /\ k \in DOMAIN runs
      BY <2>8, <3>2 DEF Undecided
    <3> QED
      BY <2>7, <3>1, <3>2
  <2> QED
    BY <2>2, <2>4, <2>5, <2>6, <2>8 DEF Undecided, Unique, Finished
<1>6. ASSUME NEW r \in Run, WorkerPersist(r) PROVE Undecided'
  <2>1. /\ worker[r] = "persist" /\ worker' = [worker EXCEPT ![r] = "done"]
        /\ UNCHANGED <<id, slot, channel, observer>>
    BY <1>6, PersistEffect
  <2>2. observer[r] = "done"
    BY <2>1 DEF Undecided
  <2>3. \A q \in Run : worker'[q] = "persist" => worker[q] = "persist"
    BY <2>1 DEF TableInv, Typed
  <2>4. CASE UNCHANGED runs
    BY <2>1, <2>3, <2>4 DEF Undecided, Unique, Finished
  <2>5. ASSUME NEW first \in DOMAIN runs, NEW run \in Entry,
               run.id = id[r], runs' = [runs EXCEPT ![first] = run]
        PROVE  Undecided'
    <3>1. \A k \in DOMAIN runs' :
            k \in DOMAIN runs /\ (runs'[k] = run \/ runs'[k] = runs[k])
      BY <2>5 DEF TableInv, Typed
    <3> QED
      BY <2>1, <2>2, <2>3, <2>5, <3>1 DEF Undecided, Unique, Finished
  <2> QED
    BY <1>6, <2>4, <2>5, PersistEffect
<1>7. ASSUME NEW r \in Run, WorkerBreak(r) PROVE Undecided'
  <2>1. /\ worker' = [worker EXCEPT ![r] = "done"]
        /\ UNCHANGED <<id, runs, slot, observer>>
        /\ channel' = [channel EXCEPT ![r] = <<>>] \/ channel' = channel
    BY <1>7, BreakEffect
  <2>2. \A q \in Run : worker'[q] = "persist" => worker[q] = "persist"
    BY <2>1 DEF TableInv, Typed
  <2>3. \A q \in Run : channel'[q] = channel[q] \/ channel'[q] = <<>>
    BY <2>1 DEF TableInv, Typed
  <2> QED
    BY <2>1, <2>2, <2>3 DEF Undecided, Unique, Finished
<1>8. ASSUME NEW r \in Run, RunnerSteps(r) PROVE Undecided'
  <2>1. UNCHANGED <<id, runs, worker>>
    BY <1>8, RunnerEffect DEF Tables
  <2>2. \A q \in Run : observer[q] = "done" => observer'[q] = "done"
    BY <1>8, RunnerEffect DEF TableInv, Typed
  <2>3. \A q \in Run : slot'[q] => observer'[q] = "take"
    <3>1. \/ UNCHANGED <<slot, observer>>
          \/ /\ observer[r] = "take" /\ observer' = [observer EXCEPT ![r] = "wait"]
             /\ slot' = [slot EXCEPT ![r] = FALSE]
          \/ /\ observer[r] # "take" /\ UNCHANGED slot
             /\ \E to \in {"zero", "nonzero", "error", "done"} :
                  observer' = [observer EXCEPT ![r] = to]
      BY <1>8, RunnerEffect
    <3>2. CASE UNCHANGED <<slot, observer>>
      BY <3>2 DEF Undecided
    <3>3. CASE /\ observer' = [observer EXCEPT ![r] = "wait"]
               /\ slot' = [slot EXCEPT ![r] = FALSE]
      BY <3>3 DEF TableInv, Typed, Undecided
    <3>4. ASSUME observer[r] # "take", UNCHANGED slot,
                 NEW to, observer' = [observer EXCEPT ![r] = to]
          PROVE  \A q \in Run : slot'[q] => observer'[q] = "take"
      BY <3>4 DEF TableInv, Typed, Undecided
    <3> QED
      BY <3>1, <3>2, <3>3, <3>4
  <2>4. \A q \in Run : observer'[q] # "done" => channel'[q] = channel[q]
    BY <1>8, RunnerEffect DEF TableInv, Typed
  <2> QED
    BY <2>1, <2>2, <2>3, <2>4 DEF Undecided, Unique, Finished
<1> QED
  BY Cases, <1>1, <1>2, <1>3, <1>4, <1>5, <1>6, <1>7, <1>8, StopEffect
  DEF Tables, Refused

(* What three lists do not hold, the one list of them does not hold. *)
LEMMA CleanConcat ==
  ASSUME NEW a \in Seq(Events), NEW b \in Seq(Events), NEW c \in Seq(Events),
         \A n \in DOMAIN a : a[n] \notin {"Completed", "Failed"},
         \A n \in DOMAIN b : b[n] \notin {"Completed", "Failed"},
         \A n \in DOMAIN c : c[n] \notin {"Completed", "Failed"}
  PROVE  \A n \in DOMAIN (a \o b \o c) : (a \o b \o c)[n] \notin {"Completed", "Failed"}
<1> DEFINE ab == a \o b
<1>1. ab \in Seq(Events) /\ \A n \in DOMAIN ab : ab[n] \notin {"Completed", "Failed"}
  OBVIOUS
<1> HIDE DEF ab
<1>2. \A n \in DOMAIN (ab \o c) : (ab \o c)[n] \notin {"Completed", "Failed"}
  BY <1>1
<1> QED
  BY <1>2 DEF ab

(* A run whose stop returned Ok only gets a cancellation or a failed wait. *)
LEMMA FlaggedStep ==
  ASSUME TableInv, Owned, Undecided, StopsFlagged, [Next]_vars
  PROVE  StopsFlagged'
<1> DEFINE Clean(q) ==
      \A n \in DOMAIN channel[q] : channel[q][n] \notin {"Completed", "Failed"}
<1>0. \A q \in Run : id[q] # 0 => id'[q] # 0
  <2>1. ASSUME NEW r \in Run, StartSpawn(r) PROVE \A q \in Run : id[q] # 0 => id'[q] # 0
    BY <2>1, SpawnUnique
  <2> QED
    BY Cases, <2>1, RegisterEffect, AnnounceEffect, ApplyEffect, PersistEffect,
       BreakEffect, RunnerEffect, StopEffect DEF Tables, Refused, Applies
<1>1. ASSUME UNCHANGED <<stopping, cancelled, stopped>>,
             \A q \in stopped : q \in Run /\ id[q] # 0 /\ Clean(q) => Clean(q)'
      PROVE  StopsFlagged'
  BY <1>0, <1>1 DEF StopsFlagged
<1>2. CASE UNCHANGED <<stopping, cancelled, stopped, channel>>
  BY <1>1, <1>2
<1>3. ASSUME NEW r \in Run, StartSpawn(r) PROVE StopsFlagged'
  <2>1. /\ channel' = [channel EXCEPT ![r] = <<"Started", "Progress">>]
        /\ UNCHANGED <<stopping, cancelled, stopped>>
    BY <1>3, SpawnEffect DEF TableInv
  <2>2. id[r] = 0
    BY <1>3, SpawnUnique
  <2>3. \A q \in Run : id[q] # 0 => channel'[q] = channel[q]
    BY <2>1, <2>2 DEF TableInv, Typed
  <2> QED
    BY <1>1, <2>1, <2>3
<1>4. ASSUME NEW r \in Run, WorkerApply(r) \/ WorkerBreak(r) PROVE StopsFlagged'
  <2>1. UNCHANGED <<stopping, cancelled, stopped>>
    BY <1>4, ApplyEffect, BreakEffect DEF Applies
  <2>2. \A q \in Run : q # r => channel'[q] = channel[q]
    BY <1>4, ApplyEffect, BreakEffect DEF Applies, TableInv, Typed
  <2>3. channel'[r] \in {<<>>, Tail(channel[r]), channel[r]}
    BY <1>4, ApplyEffect, BreakEffect DEF Applies, TableInv, Typed
  <2>4. ASSUME Clean(r), channel'[r] = Tail(channel[r]), channel[r] # <<>> PROVE Clean(r)'
    <3>1. \A n \in DOMAIN Tail(channel[r]) :
            n + 1 \in DOMAIN channel[r] /\ Tail(channel[r])[n] = channel[r][n + 1]
      BY <2>4 DEF TableInv, Typed
    <3> QED
      BY <2>4, <3>1
  <2>5. channel'[r] = Tail(channel[r]) => channel[r] # <<>> \/ channel'[r] \in {<<>>, channel[r]}
    BY <1>4, ApplyEffect, BreakEffect DEF Applies, TableInv, Typed
  <2>6. Clean(r) => Clean(r)'
    <3>1. CASE channel'[r] = <<>>
      BY <3>1
    <3>2. CASE channel'[r] = channel[r]
      BY <3>2
    <3> QED
      BY <2>3, <2>4, <2>5, <3>1, <3>2
  <2> QED
    BY <1>1, <2>1, <2>2, <2>6
<1>5. ASSUME NEW r \in Run, RunnerSteps(r) PROVE StopsFlagged'
  <2>1. UNCHANGED <<stopping, cancelled, stopped>>
    BY <1>5, RunnerEffect
  <2>2. ASSUME NEW lines \in Outputs, Clean(r), cancelled[r],
               channel' = [channel EXCEPT ![r] = @ \o read_stream(lines) \o Verdict(r, lines)]
        PROVE  Clean(r)'
    <3> DEFINE a == channel[r]
               b == read_stream(lines)
               c == Verdict(r, lines)
    <3>1. channel'[r] = a \o b \o c
      BY <2>2 DEF TableInv, Typed
    <3>2. /\ a \in Seq(Events) /\ b \in Seq(Events) /\ c \in Seq(Events)
          /\ \A n \in DOMAIN a : a[n] \notin {"Completed", "Failed"}
          /\ \A n \in DOMAIN b : b[n] \notin {"Completed", "Failed"}
          /\ \A n \in DOMAIN c : c[n] \notin {"Completed", "Failed"}
      BY <2>2, VerdictTyped DEF TableInv, Typed
    <3> HIDE DEF a, b, c
    <3>3. \A n \in DOMAIN (a \o b \o c) : (a \o b \o c)[n] \notin {"Completed", "Failed"}
      BY <3>2, CleanConcat
    <3> QED
      BY <3>1, <3>3
  <2>3. \A q \in Run : q # r => channel'[q] = channel[q]
    <3>1. UNCHANGED channel \/ \E new : channel' = [channel EXCEPT ![r] = new]
      BY <1>5, RunnerEffect
    <3> QED
      BY <3>1 DEF TableInv, Typed
  <2>4. Clean(r) /\ cancelled[r] => Clean(r)'
    BY <1>5, <2>2, RunnerEffect
  <2> QED
    BY <1>0, <2>1, <2>3, <2>4 DEF StopsFlagged
<1>6. CASE StopLookup \/ StopCancel \/ StopReturn
  <2>1. UNCHANGED <<Tables, slot, channel, observer>>
    BY <1>6, StopEffect
  <2>2. CASE /\ stopping.at = "flag" /\ stopping' = [stopping EXCEPT !.at = "kill"]
             /\ cancelled' = [cancelled EXCEPT ![stopping.run] = TRUE]
             /\ UNCHANGED stopped
    <3>1. stopping'.run = stopping.run /\ stopping.run \in Run
      BY <2>2 DEF StopsFlagged, TableInv, Typed
    <3>2. cancelled'[stopping.run] /\ \A q \in Run : cancelled[q] => cancelled'[q]
      BY <2>2, <3>1 DEF TableInv, Typed
    <3> QED
      BY <2>1, <2>2, <3>1, <3>2 DEF StopsFlagged, Tables
  <2>3. CASE /\ stopping.at = "kill" /\ stopping' = [run |-> 0, at |-> "idle"]
             /\ \/ UNCHANGED stopped
                \/ slot[stopping.run] /\ stopped' = stopped \cup {stopping.run}
             /\ UNCHANGED cancelled
    <3>1. stopping.run \in Run /\ cancelled[stopping.run] /\ stopping'.at = "idle"
      BY <2>3 DEF StopsFlagged
    <3>2. slot[stopping.run] => observer[stopping.run] = "take" /\ id[stopping.run] # 0
      BY <3>1 DEF Undecided, TableInv, Started
    <3>3. slot[stopping.run] => Clean(stopping.run)
      BY <3>1, <3>2 DEF Undecided, Early
    <3> QED
      BY <2>1, <2>3, <3>1, <3>2, <3>3 DEF StopsFlagged, Tables
  <2>4. CASE /\ stopping'.run \in Run /\ stopping'.at = "flag"
             /\ UNCHANGED <<cancelled, stopped>>
    BY <2>1, <2>4 DEF StopsFlagged, Tables
  <2>5. CASE UNCHANGED <<stopping, cancelled, stopped>>
    BY <1>2, <2>1, <2>5
  <2> QED
    BY <1>6, <2>2, <2>3, <2>4, <2>5, StopEffect
<1> QED
  BY Cases, <1>2, <1>3, <1>4, <1>5, <1>6, RegisterEffect, AnnounceEffect,
     PersistEffect DEF Refused

(* How an entry may end for a run that was stopped. *)
Kept(run) ==
  Finished(run) => run.status = "cancelled" \/ run.error \in {"wait", "persist"}

LEMMA CancelledStep ==
  ASSUME TableInv, Owned, Undecided, StopsFlagged, StopOkCancels, [Next]_vars
  PROVE  StopOkCancels'
<1>0. \A r \in stopped : r \in Run
  BY DEF StopsFlagged
<1>1. ASSUME UNCHANGED <<id, stopped>>,
             \A r \in stopped : \A k \in DOMAIN runs' :
               Unique(r) /\ runs'[k].id = id[r] =>
                 Kept(runs'[k]) \/ (k \in DOMAIN runs /\ runs'[k] = runs[k])
      PROVE  StopOkCancels'
  BY <1>1 DEF StopOkCancels, Kept, Unique, Finished
<1>2. CASE UNCHANGED <<id, stopped, runs>>
  BY <1>1, <1>2
<1>3. ASSUME NEW r \in Run, StartSpawn(r) PROVE StopOkCancels'
  <2>1. UNCHANGED <<stopped, runs>>
    BY <1>3, SpawnEffect DEF TableInv
  <2>2. /\ id[r] = 0
        /\ \A q \in Run : q # r => id'[q] = id[q]
        /\ \A q \in Run : q # r /\ id[q] # 0 /\ Unique(q)' => Unique(q)
    BY <1>3, SpawnUnique
  <2>3. ASSUME NEW q \in stopped PROVE q \in Run /\ q # r /\ id[q] # 0 /\ id'[q] = id[q]
    BY <2>2 DEF StopsFlagged
  <2> QED
    BY <2>1, <2>2, <2>3 DEF StopOkCancels, Finished
<1>4. ASSUME NEW r \in Run, StartRegister(r) PROVE StopOkCancels'
  <2>1. PICK run \in Entry : run.status = "running" /\ runs' = Append(runs, run)
    BY <1>4, RegisterEffect
  <2>2. \A k \in DOMAIN runs' : runs'[k] = run \/ (k \in DOMAIN runs /\ runs'[k] = runs[k])
    BY <2>1, AppendedRun DEF TableInv, Typed
  <2>3. UNCHANGED <<id, stopped>> /\ Kept(run)
    BY <1>4, <2>1, RegisterEffect DEF Kept, Finished
  <2> QED
    BY <1>1, <2>2, <2>3
<1>5. ASSUME NEW r \in Run, WorkerApply(r) PROVE StopOkCancels'
  <2>1. PICK index \in DOMAIN runs, event \in Events, run \in Entry :
          Applies(r, index, event, run)
    BY <1>5, ApplyEffect
  <2>2. /\ UNCHANGED <<id, stopped>> /\ run.id = id[r]
        /\ runs' = [runs EXCEPT ![index] = run]
        /\ event = channel[r][1] /\ channel[r] # <<>>
        /\ run = Applied(runs[index], event)
        /\ Finished(run) <=> event \notin Early
    BY <2>1 DEF Applies
  <2>3. \A k \in DOMAIN runs' :
          k \in DOMAIN runs /\ (runs'[k] = run \/ runs'[k] = runs[k])
    BY <2>2 DEF TableInv, Typed
  <2>4. runs[index] \in Entry /\ 1 \in DOMAIN channel[r]
    BY <2>2 DEF TableInv, Typed
  <2>5. r \in stopped => Kept(run)
    <3> SUFFICES ASSUME r \in stopped, Finished(run)
                 PROVE  run.status = "cancelled" \/ run.error \in {"wait", "persist"}
      BY DEF Kept
    <3>1. event \in {"WaitFailed", "Cancelled"}
      BY <2>2, <2>4 DEF StopsFlagged, Events
    <3> QED
      BY <2>2, <2>4, <3>1, AppliedEntry
  <2>6. \A q \in stopped : Unique(q) /\ run.id = id[q] => q = r
    BY <1>0, <2>2 DEF Unique
  <2> QED
    BY <1>1, <2>2, <2>3, <2>5, <2>6
<1>6. ASSUME NEW r \in Run, WorkerPersist(r) PROVE StopOkCancels'
  <2>1. UNCHANGED <<id, stopped>>
    BY <1>6, PersistEffect
  <2>2. ASSUME NEW first \in DOMAIN runs, NEW run \in Entry,
               run.error = "persist", runs' = [runs EXCEPT ![first] = run]
        PROVE  StopOkCancels'
    <3>1. Kept(run)
      BY <2>2 DEF Kept
    <3>2. \A k \in DOMAIN runs' :
            k \in DOMAIN runs /\ (runs'[k] = run \/ runs'[k] = runs[k])
      BY <2>2 DEF TableInv, Typed
    <3> QED
      BY <1>1, <2>1, <3>1, <3>2
  <2> QED
    BY <1>2, <1>6, <2>1, <2>2, PersistEffect
<1>7. CASE StopLookup \/ StopCancel \/ StopReturn
  <2>1. UNCHANGED Tables
    BY <1>7, StopEffect
  <2>2. ASSUME NEW r, r = stopping.run, slot[r], stopping.at = "kill",
               stopped' = stopped \cup {r}
        PROVE  StopOkCancels'
    <3>1. r \in Run /\ observer[r] = "take" /\ id[r] # 0
      BY <2>2 DEF StopsFlagged, Undecided, TableInv, Started
    <3>2. \A k \in DOMAIN runs : Unique(r) /\ runs[k].id = id[r] => ~Finished(runs[k])
      BY <3>1 DEF Undecided
    <3> QED
      BY <2>1, <2>2, <3>2 DEF StopOkCancels, Tables, Unique, Finished
  <2>3. CASE UNCHANGED stopped
    BY <1>2, <2>1, <2>3 DEF Tables
  <2> QED
    BY <1>7, <2>2, <2>3, StopEffect
<1> QED
  BY Cases, <1>2, <1>3, <1>4, <1>5, <1>6, <1>7, AnnounceEffect, BreakEffect,
     RunnerEffect DEF Refused, Tables

LEMMA StopInit == Init => StopInv
<1> SUFFICES ASSUME Init PROVE StopInv
  OBVIOUS
<1>1. TableInv
  BY TableInit
<1>2. Owned /\ Undecided
  BY DEF Init, RunnerInit, ManagerInit, Owned, Undecided
<1>3. StopsFlagged /\ StopOkCancels
  BY DEF Init, StopsFlagged, StopOkCancels
<1> QED
  BY <1>1, <1>2, <1>3 DEF StopInv

LEMMA StopStep == StopInv /\ [Next]_vars => StopInv'
BY TableStep, OwnedStep, UndecidedStep, FlaggedStep, CancelledStep DEF StopInv

(* A stop that returned Ok is kept: whatever the program, its observer and *)
(* the workers do, the run can only end as cancelled, unless the program   *)
(* could not be waited for or the run could not be persisted.              *)
THEOREM StopIsKept == Spec => []StopOkCancels
<1>1. StopInv => StopOkCancels
  BY DEF StopInv
<1> QED
  BY <1>1, StopInit, StopStep, PTL DEF Spec

-----------------------------------------------------------------------------
(* Announcements.                                                          *)

Names == {"started", "running"} \cup Final

LEMMA AppendName ==
  ASSUME NEW e \in Seq(Names), NEW name \in Names
  PROVE  /\ Len(Append(e, name)) = Len(e) + 1 /\ Len(e) \in Nat
         /\ DOMAIN Append(e, name) = 1..(Len(e) + 1) /\ DOMAIN e = 1..Len(e)
         /\ \A k \in 1..Len(e) : Append(e, name)[k] = e[k]
         /\ Append(e, name)[Len(e) + 1] = name
OBVIOUS

LEMMA FirstName ==
  ASSUME NEW e \in Seq(Names), e = <<>>
  PROVE  Running(Append(e, "started"))
<1>1. Append(e, "started") = <<"started">>
  OBVIOUS
<1> QED
  BY <1>1 DEF Running

LEMMA RunningGoesOn ==
  ASSUME NEW e \in Seq(Names), Running(e)
  PROVE  Running(Append(e, "running"))
<1> DEFINE f == Append(e, "running")
<1>1. /\ Len(f) = Len(e) + 1 /\ Len(e) \in Nat
      /\ \A k \in 1..Len(e) : f[k] = e[k] 
      /\ f[Len(e) + 1] = "running"
  BY AppendName DEF Names
<1> HIDE DEF f
<1>2. Running(f)
  BY <1>1 DEF Running
<1> QED
  BY <1>2 DEF f

LEMMA RunningEnds ==
  ASSUME NEW e \in Seq(Names), Running(e), NEW name \in Final
  PROVE  Ended(Append(e, name))
<1> DEFINE f == Append(e, name)
<1>1. /\ Len(f) = Len(e) + 1 /\ Len(e) \in Nat
      /\ \A k \in 1..Len(e) : f[k] = e[k]
      /\ f[Len(e) + 1] = name
  BY AppendName DEF Names
<1> HIDE DEF f
<1>2. Ended(f)
  BY <1>1 DEF Running, Ended
<1> QED
  BY <1>2 DEF f

LEMMA RunningInOrder ==
  ASSUME NEW e \in Seq(Names), Running(e)
  PROVE  InOrder(e)
<1>1. Len(e) \in Nat /\ DOMAIN e = 1..Len(e)
  OBVIOUS
<1>2. ASSUME NEW k \in 1..Len(e) PROVE IF k = 1 THEN e[k] = "started" ELSE e[k] = "running"
  BY <1>1 DEF Running
<1> QED
  BY <1>1, <1>2 DEF InOrder, Final

LEMMA EndedInOrder ==
  ASSUME NEW e \in Seq(Names), Ended(e)
  PROVE  InOrder(e) /\ InOrder(Append(e, "failed"))
<1> DEFINE f == Append(e, "failed")
<1>1. /\ Len(f) = Len(e) + 1 /\ Len(e) \in Nat
      /\ DOMAIN f = 1..(Len(e) + 1) /\ DOMAIN e = 1..Len(e)
      /\ \A k \in 1..Len(e) : f[k] = e[k]
      /\ f[Len(e) + 1] = "failed"
  BY AppendName DEF Names, Final
<1> HIDE DEF f
<1>2. ASSUME NEW k \in 1..Len(e)
      PROVE  /\ k = 1 => e[k] = "started"
             /\ k = Len(e) => k # 1 /\ e[k] \in Final
             /\ k # 1 /\ k # Len(e) => e[k] = "running"
  <2>1. k = 1 => e[k] = "started"
    BY DEF Ended
  <2>2. k = Len(e) => k # 1 /\ e[k] \in Final
    BY <1>1 DEF Ended
  <2>0. Len(e) \in Nat
    OBVIOUS
  <2>3. k # 1 /\ k # Len(e) => k \in 2..(Len(e) - 1)
    BY <2>0
  <2> QED
    BY <2>1, <2>2, <2>3 DEF Ended
<1>3. InOrder(e)
  BY <1>1, <1>2 DEF InOrder, Final
<1>4. InOrder(f)
  <2> SUFFICES ASSUME NEW k \in 1..(Len(e) + 1)
               PROVE  /\ f[k] = "started" <=> k = 1
                      /\ f[k] \in Final =>
                           k = Len(f) \/ (k + 1 = Len(f) /\ f[k + 1] = "failed")
    BY <1>1 DEF InOrder
  <2>1. CASE k = Len(e) + 1
    <3>1. k # 1
      BY <1>1, <2>1 DEF Ended
    <3> QED
      BY <1>1, <2>1, <3>1
  <2>2. CASE k = Len(e)
    <3>0. Len(e) \in Nat /\ Len(e) >= 2
      BY DEF Ended
    <3>1. k \in 1..Len(e) /\ k # 1
      BY <2>2, <3>0
    <3>2. f[k] \in Final
      BY <1>1, <1>2, <2>2, <3>1
    <3> QED
      BY <1>1, <2>2, <3>1, <3>2 DEF Final
  <2>3. CASE k \in 1..(Len(e) - 1)
    <3>0. Len(e) \in Nat
      OBVIOUS
    <3>1. k \in 1..Len(e) /\ k # Len(e)
      BY <2>3, <3>0
    <3>2. f[k] = IF k = 1 THEN "started" ELSE "running"
      BY <1>1, <1>2, <3>1
    <3> QED
      BY <3>2 DEF Final
  <2> QED
    <3>0. Len(e) \in Nat
      OBVIOUS
    <3> QED
      BY <2>1, <2>2, <2>3, <3>0
<1> QED
  BY <1>3, <1>4 DEF f

(* A start event changes nothing in an entry that is running. *)
LEMMA StartChangesNothing ==
  ASSUME NEW run \in Entry, ~Finished(run)
  PROVE  Applied(run, "Started") = run
BY DEF Applied, Entry, Finished, Final

LEMMA AnnouncedStep ==
  ASSUME TableInv, Owned, Announced, [Next]_vars
  PROVE  Announced'
<1> DEFINE Said(q) ==
      /\ worker[q] = "off" => emitted[id[q]] = <<>>
      /\ worker[q] = "recv" => Running(emitted[id[q]])
      /\ worker[q] = "persist" => Ended(emitted[id[q]])
      /\ worker[q] = "done" => InOrder(emitted[id[q]])
<1>0. \A i \in Ids : emitted[i] \in Seq(Names)
  BY DEF TableInv, Typed, Names
<1>1. CASE UNCHANGED <<id, worker, emitted>>
  BY <1>1 DEF Announced, Unique, Running, Ended, InOrder
(* Only r's worker moves, and only r's id is spoken of. *)
<1>2. ASSUME NEW r \in Run, UNCHANGED id, id[r] # 0,
             \A q \in Run : q # r => worker'[q] = worker[q],
             \A j \in Ids : j # id[r] => emitted'[j] = emitted[j],
             Unique(r) /\ Said(r) => Said(r)'
      PROVE  Announced'
  <2>1. ASSUME NEW q \in Run, id[q] # 0, Unique(q) PROVE Said(q)'
    <3>1. Said(q) /\ id[q] \in Ids
      BY <2>1 DEF Announced, TableInv, Typed
    <3>2. CASE q # r
      <4>1. emitted'[id[q]] = emitted[id[q]] /\ worker'[q] = worker[q]
        BY <1>2, <2>1, <3>1, <3>2 DEF Unique
      <4> QED
        BY <1>2, <3>1, <4>1 DEF Running, Ended, InOrder
    <3> QED
      BY <1>2, <2>1, <3>1, <3>2
  <2> QED
    BY <1>2, <2>1 DEF Announced, Unique
<1>3. ASSUME NEW r \in Run, StartSpawn(r) PROVE Announced'
  <2>1. UNCHANGED <<worker, emitted>>
    BY <1>3, SpawnEffect DEF TableInv
  <2>2. /\ id[r] = 0 /\ id'[r] \in Ids
        /\ \A q \in Run : q # r => id'[q] = id[q]
        /\ \A q \in Run : q # r /\ id[q] # 0 /\ Unique(q)' => Unique(q)
        /\ Unique(r)' => emitted[id'[r]] = <<>>
    BY <1>3, SpawnUnique
  <2>3. worker[r] = "off"
    BY <2>2 DEF TableInv, Typed, Started
  <2>4. ASSUME NEW q \in Run, id'[q] # 0, Unique(q)' PROVE Said(q)'
    <3>1. CASE q = r
      BY <2>1, <2>2, <2>3, <2>4, <3>1
    <3>2. CASE q # r
      BY <2>1, <2>2, <2>4, <3>2 DEF Announced, Running, Ended, InOrder
    <3> QED
      BY <3>1, <3>2
  <2> QED
    BY <2>4 DEF Announced
<1>4. ASSUME NEW r \in Run, StartAnnounce(r) PROVE Announced'
  <2>1. /\ starting[r] = "announce" /\ id[r] \in Ids /\ UNCHANGED id
        /\ Emit(id[r], "started") /\ worker' = [worker EXCEPT ![r] = "recv"]
    BY <1>4, AnnounceEffect
  <2>2. /\ \A j \in Ids : j # id[r] => emitted'[j] = emitted[j]
        /\ emitted'[id[r]] = Append(emitted[id[r]], "started")
    BY <2>1, EmitEffect DEF TableInv, Typed
  <2>3. worker[r] = "off" /\ worker'[r] = "recv"
    BY <2>1 DEF TableInv, Typed, Started
  <2>4. Said(r) => Running(Append(emitted[id[r]], "started"))
    BY <1>0, <2>1, <2>3, FirstName
  <2>5. Said(r) => Said(r)'
    BY <2>1, <2>2, <2>3, <2>4 DEF Running
  <2>6. id[r] # 0 /\ \A q \in Run : q # r => worker'[q] = worker[q]
    BY <2>1, BenchmarksAssumption DEF TableInv, Typed, Ids
  <2> QED
    BY <1>2, <2>1, <2>2, <2>5, <2>6
<1>5. ASSUME NEW r \in Run, WorkerApply(r) PROVE Announced'
  <2>1. PICK index \in DOMAIN runs, event \in Events, run \in Entry :
          Applies(r, index, event, run)
    BY <1>5, ApplyEffect
  <2> DEFINE name == lifecycle_event_name(event)
             e == emitted[id[r]]
  <2>2. /\ id[r] \in Ids /\ UNCHANGED id /\ worker[r] = "recv"
        /\ ~Finished(runs[index]) /\ run = Applied(runs[index], event)
        /\ Finished(run) <=> event \notin Early
        /\ worker' = [worker EXCEPT ![r] = IF Finished(run) THEN "persist" ELSE "recv"]
        /\ \/ UNCHANGED emitted /\ event = "Started"
           \/ Emit(id[r], name) /\ (run # runs[index] \/ event # "Started")
    BY <2>1 DEF Applies
  <2>3. runs[index] \in Entry
    BY DEF TableInv, Typed
  <2>4. \/ UNCHANGED emitted /\ event = "Started"
        \/ Emit(id[r], name) /\ event # "Started"
    BY <2>2, <2>3, StartChangesNothing
  <2>5. name \in Names /\ (name \in Final <=> event \notin Early)
        /\ (name = "started" <=> event = "Started")
    BY EventName DEF Names
  <2> HIDE DEF name
  <2>6. \A j \in Ids : j # id[r] => emitted'[j] = emitted[j]
    BY <2>2, <2>4, <2>5, EmitEffect DEF TableInv, Typed, Names
  <2>7. id[r] # 0 /\ \A q \in Run : q # r => worker'[q] = worker[q]
    BY <2>2, BenchmarksAssumption DEF TableInv, Typed, Ids
  <2>8. e \in Seq(Names)
    BY <1>0, <2>2
  <2>9. CASE event \in Early
    <3>1. worker'[r] = "recv"
      BY <2>2, <2>9 DEF TableInv, Typed
    <3>2. emitted'[id[r]] = e \/ emitted'[id[r]] = Append(e, "running")
      <4>1. CASE event = "Started"
        BY <2>4, <4>1
      <4>2. CASE event # "Started"
        <5>1. name = "running" /\ Emit(id[r], name)
          BY <2>4, <2>5, <2>9, <4>2 DEF Names
        <5> QED
          BY <2>2, <2>5, <5>1, EmitEffect DEF TableInv, Typed, Names
      <4> QED
        BY <4>1, <4>2
    <3>3. Running(e) => Running(emitted'[id[r]])
      <4>1. Running(e) => Running(Append(e, "running"))
        BY <2>8, RunningGoesOn
      <4> QED
        BY <3>2, <4>1
    <3>4. Said(r) => Said(r)'
      BY <2>2, <3>1, <3>3 DEF Running
    <3> QED
      BY <1>2, <2>2, <2>6, <2>7, <3>4
  <2>10. CASE event \notin Early
    <3>1. worker'[r] = "persist"
      BY <2>2, <2>10 DEF TableInv, Typed
    <3>2. event # "Started" /\ name # "running"
      BY <2>5, <2>10 DEF Early, Final
    <3>3. emitted'[id[r]] = Append(e, name)
      BY <2>2, <2>4, <2>5, <3>2, EmitEffect DEF TableInv, Typed, Names
    <3>4. Running(e) => Ended(Append(e, name))
      BY <2>5, <2>8, <2>10, RunningEnds
    <3>5. Said(r) => Said(r)'
      BY <2>2, <3>1, <3>3, <3>4 DEF Ended
    <3> QED
      BY <1>2, <2>2, <2>6, <2>7, <3>5
  <2> QED
    BY <2>9, <2>10
<1>6. ASSUME NEW r \in Run, WorkerBreak(r) PROVE Announced'
  <2>1. /\ worker[r] = "recv" /\ worker' = [worker EXCEPT ![r] = "done"]
        /\ UNCHANGED <<id, emitted>>
    BY <1>6, BreakEffect
  <2>2. id[r] \in Ids /\ id[r] # 0 /\ worker'[r] = "done"
        /\ \A q \in Run : q # r => worker'[q] = worker[q]
    BY <2>1 DEF TableInv, Typed, Started
  <2>3. Running(emitted[id[r]]) => InOrder(emitted[id[r]])
    BY <1>0, <2>2, RunningInOrder
  <2>4. Said(r) => Said(r)'
    BY <2>1, <2>2, <2>3 DEF InOrder
  <2> QED
    BY <1>2, <2>1, <2>2, <2>4
<1>7. ASSUME NEW r \in Run, WorkerPersist(r) PROVE Announced'
  <2>1. /\ worker[r] = "persist" /\ id[r] \in Ids /\ UNCHANGED id
        /\ worker' = [worker EXCEPT ![r] = "done"]
        /\ UNCHANGED emitted \/ Emit(id[r], "failed")
    BY <1>7, PersistEffect
  <2>2. id[r] # 0 /\ worker'[r] = "done"
        /\ \A q \in Run : q # r => worker'[q] = worker[q]
    BY <2>1 DEF TableInv, Typed, Started
  <2>3. /\ \A j \in Ids : j # id[r] => emitted'[j] = emitted[j]
        /\ emitted'[id[r]] \in {emitted[id[r]], Append(emitted[id[r]], "failed")}
    BY <2>1, EmitEffect DEF TableInv, Typed, Final
  <2>4. Ended(emitted[id[r]]) =>
          InOrder(emitted[id[r]]) /\ InOrder(Append(emitted[id[r]], "failed"))
    BY <1>0, <2>1, EndedInOrder
  <2>5. Ended(emitted[id[r]]) => InOrder(emitted'[id[r]])
    BY <2>3, <2>4
  <2>6. Said(r) => Said(r)'
    BY <2>1, <2>2, <2>5 DEF InOrder
  <2> QED
    BY <1>2, <2>1, <2>2, <2>3, <2>6
<1> QED
  BY Cases, <1>1, <1>3, <1>4, <1>5, <1>6, <1>7, RegisterEffect, RunnerEffect,
     StopEffect DEF Refused, Tables

(* What the front end hears of a run with an id of its own is in order: a  *)
(* start, progress, one end, and at most the failure to persist after it.  *)
THEOREM LifecycleInOrder == Spec => []LifecycleOrder
<1>1. Init => EventInv
  BY TableInit DEF EventInv, Init, RunnerInit, ManagerInit, Owned, Announced
<1>2. EventInv /\ [Next]_vars => EventInv'
  BY TableStep, OwnedStep, AnnouncedStep DEF EventInv
<1>3. EventInv => LifecycleOrder
  <2> SUFFICES ASSUME EventInv, NEW r \in Run, id[r] # 0, Unique(r)
               PROVE  InOrder(emitted[id[r]])
    BY DEF LifecycleOrder, InOrder, Final
  <2>1. emitted[id[r]] \in Seq(Names)
    BY DEF EventInv, TableInv, Typed, Names
  <2>2. CASE worker[r] = "off"
    BY <2>2 DEF EventInv, Announced, InOrder
  <2>3. CASE worker[r] = "recv"
    BY <2>1, <2>3, RunningInOrder DEF EventInv, Announced
  <2>4. CASE worker[r] = "persist"
    BY <2>1, <2>4, EndedInOrder DEF EventInv, Announced
  <2>5. CASE worker[r] = "done"
    BY <2>5 DEF EventInv, Announced
  <2> QED
    BY <2>2, <2>3, <2>4, <2>5 DEF EventInv, TableInv, Typed
<1> QED
  BY <1>1, <1>2, <1>3, PTL DEF Spec
=============================================================================
