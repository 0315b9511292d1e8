---------------------------- MODULE RunRepository ----------------------------
(***************************************************************************)
(* The file of finished benchmark runs (hkv-gui/src-tauri/src/             *)
(* run_repository.rs) and the application's reads of it (state.rs).        *)
(* persist reads the file, adds or replaces a run and writes the file      *)
(* again, under write_lock; readers take no lock.  Writing truncates the   *)
(* file first, and a file that does not parse is replaced by an empty      *)
(* list, by readers too.  The application may crash at any point: what is  *)
(* left is the file.                                                       *)
(*                                                                         *)
(* A run is a record with its id, its status, when it was created and its  *)
(* result; lists show all but the result of it.  The content of the file   *)
(* is a list of runs, nothing ("empty", just truncated) or a mixture of    *)
(* two writes ("mixed").                                                   *)
(***************************************************************************)
EXTENDS Naturals, Sequences, FiniteSets

CONSTANTS
  Worker,     \* the threads that persist runs
  Reader,     \* the threads that list runs
  NoThread,   \* nobody
  RunOf       \* the finished run each worker persists

ASSUME RepositoryAssumption ==
  /\ NoThread \notin Worker \cup Reader
  /\ Worker \cap Reader = {}
  /\ \A w \in Worker : /\ RunOf[w].status \in {"completed", "failed", "cancelled"}
                       /\ RunOf[w].created_at \in Nat

VARIABLES
  file,        \* the content of runs.json
  write_lock,  \* who holds it
  at,          \* where each thread is
  loaded,      \* the runs it has loaded, later the ones it will write
  outcome,     \* what its call returned: "none", "ok", "error"
  runs,        \* the manager's runs of this session
  reading,     \* each reader's call: its kind, the id it asks for, and
               \* (history) the ids that existed when it began
  repaired,    \* history: load_runs has replaced a file that did not parse
  persisted,   \* history: the runs persist has returned Ok for
  crashed      \* history: the application has crashed

session == <<runs, reading>>
history == <<repaired, persisted, crashed>>
vars == <<file, write_lock, at, loaded, outcome, session, history>>

Thread == Worker \cup Reader

Content(list) == [is |-> "list", runs |-> list]
Empty == [is |-> "empty", runs |-> <<>>]
Mixed == [is |-> "mixed", runs |-> <<>>]

RunsOf(list) == {list[i] : i \in DOMAIN list}

IdsOf(list) == {list[i].id : i \in DOMAIN list}

NoCall == [call |-> "none", id |-> 0, known |-> {}]

Init ==
  /\ file = Content(<<>>)
  /\ write_lock = NoThread
  /\ at = [t \in Thread |-> "idle"]
  /\ loaded = [t \in Thread |-> <<>>]
  /\ outcome = [t \in Thread |-> "none"]
  /\ runs = <<>>
  /\ reading = [t \in Reader |-> NoCall]
  /\ repaired = FALSE /\ persisted = {} /\ crashed = FALSE

Moves(t, from, to) == at[t] = from /\ at' = [at EXCEPT ![t] = to]

(* find: the first run of the list with the id. *)
Find(list, id) ==
  CHOOSE i \in DOMAIN list : list[i].id = id /\ id \notin IdsOf(SubSeq(list, 1, i - 1))

(* The list with the first run of the same id replaced, or with one more. *)
Upsert(list, run) ==
  IF run.id \in IdsOf(list)
  THEN [list EXCEPT ![Find(list, run.id)] = run]
  ELSE Append(list, run)

-----------------------------------------------------------------------------
(* The manager has run w in its list, finished, and its worker calls       *)
(* persist.  (It has been in the list since its start, which is left to    *)
(* Benchmarks.)                                                            *)
RunFinishes(w) ==
  /\ Moves(w, "idle", "lock")
  /\ runs' = Append(runs, RunOf[w])
  /\ UNCHANGED <<file, write_lock, loaded, outcome, reading, history>>

(* Mutant of PersistLock: the mutex is not taken. *)
PersistLock_Free(t) ==
  /\ Moves(t, "lock", "load")
  /\ UNCHANGED <<file, write_lock, loaded, outcome, session, history>>

PersistLock(t) ==
  /\ write_lock = NoThread
  /\ write_lock' = t
  /\ Moves(t, "lock", "load")
  /\ UNCHANGED <<file, loaded, outcome, session, history>>

(* load_runs: read_to_string and from_str. *)
LoadRuns(t) ==
  \/ /\ file.is = "list"
     /\ Moves(t, "load", "loaded")
     /\ loaded' = [loaded EXCEPT ![t] = file.runs]
     /\ UNCHANGED <<file, write_lock, outcome, session, history>>
  \/ /\ file.is # "list"
     /\ Moves(t, "load", "repair")
     /\ UNCHANGED <<file, write_lock, loaded, outcome, session, history>>

(* backup_corrupted_store, then store_runs of no runs: fs::write truncates *)
(* and writes.                                                             *)
RepairTruncate(t) ==
  /\ Moves(t, "repair", "reset")
  /\ file' = Empty
  /\ repaired' = TRUE
  /\ UNCHANGED <<write_lock, loaded, outcome, session, persisted, crashed>>

(* What a write after a truncation leaves.  When another thread has        *)
(* written in between, the longer of the two texts shows behind the other. *)
Written(list) ==
  IF file.is = "empty" \/ file = Content(list)
  THEN {Content(list)} ELSE {Content(list), Mixed}

RepairWrite(t) ==
  /\ Moves(t, "reset", "loaded")
  /\ file' \in Written(<<>>)
  /\ loaded' = [loaded EXCEPT ![t] = <<>>]
  /\ UNCHANGED <<write_lock, outcome, session, history>>

(* persist: the run is put into the list, and store_runs begins. *)
PersistTruncate(t) ==
  /\ t \in Worker /\ Moves(t, "loaded", "store")
  /\ loaded' = [loaded EXCEPT ![t] = Upsert(@, RunOf[t])]
  /\ file' = Empty
  /\ UNCHANGED <<write_lock, outcome, session, history>>

Unlocked(t) == IF write_lock = t THEN NoThread ELSE write_lock

(* The runs are written and the lock is released. *)
PersistWrite(t) ==
  /\ Moves(t, "store", "done")
  /\ file' \in Written(loaded[t])
  /\ write_lock' = Unlocked(t)
  /\ loaded' = [loaded EXCEPT ![t] = <<>>]
  /\ outcome' = [outcome EXCEPT ![t] = "ok"]
  /\ persisted' = persisted \cup {RunOf[t]}
  /\ UNCHANGED <<session, repaired, crashed>>

(* The file cannot be read, backed up, opened or written: the call returns *)
(* the error, and what has been truncated stays so.  A reader that has     *)
(* loaded is done with the file.                                           *)
IoError(t) ==
  /\ \/ at[t] \in {"load", "repair", "reset", "store"}
     \/ at[t] = "loaded" /\ t \in Worker
  /\ at' = [at EXCEPT ![t] = "done"]
  /\ write_lock' = Unlocked(t)
  /\ loaded' = [loaded EXCEPT ![t] = <<>>]
  /\ outcome' = [outcome EXCEPT ![t] = "error"]
  /\ UNCHANGED <<file, session, history>>

-----------------------------------------------------------------------------
(* AppState::list_runs and get_run_detail: no lock is taken.               *)

Known == {run.id : run \in persisted} \cup IdsOf(runs)

ReadBegin(t, call, i) ==
  /\ Moves(t, "idle", "load")
  /\ reading' = [reading EXCEPT ![t] = [call |-> call, id |-> i, known |-> Known]]
  /\ UNCHANGED <<file, write_lock, loaded, outcome, runs, history>>

(* list_runs goes to the repository first. *)
ListBegin(t) == ReadBegin(t, "list", 0)

(* get_run_detail asks the manager first, and returns what it has; only    *)
(* otherwise it goes to the repository.                                    *)
DetailBegin(t) ==
  \E i \in {RunOf[w].id : w \in Worker} \ IdsOf(runs) : ReadBegin(t, "detail", i)

normalize_run(run) ==
  [id |-> run.id, status |-> run.status, created_at |-> run.created_at]

(* The manager's list_runs. *)
Summaries(list) == [i \in DOMAIN list |-> normalize_run(list[i])]

(* sort_by the creation time, latest first; the sort is stable.  A run's   *)
(* place in it is given by the number of runs that come before it.         *)
Ahead(list, i) ==
  {j \in DOMAIN list : \/ list[j].created_at > list[i].created_at
                       \/ list[j].created_at = list[i].created_at /\ j < i}

NewestFirst(list) ==
  [n \in DOMAIN list |->
     list[CHOOSE i \in DOMAIN list : Cardinality(Ahead(list, i)) = n - 1]]

(* RunRepository::list_runs and get_run, when load_runs returned `stored`. *)
StoredRuns(stored) == Summaries(NewestFirst(stored))

get_run(stored, i) == IF i \in IdsOf(stored) THEN <<stored[Find(stored, i)]>> ELSE <<>>

(* Mutant of list_runs: a repository that has runs is not completed. *)
list_runs_FileOnly(stored) ==
  IF stored = <<>> THEN NewestFirst(Summaries(runs)) ELSE StoredRuns(stored)

(* The manager's runs, one after the other, replace or follow the stored   *)
(* ones.                                                                   *)
Merged(stored, own) ==
  LET merged[n \in 0..Len(own)] ==
        IF n = 0 THEN stored ELSE Upsert(merged[n - 1], own[n])
  IN merged[Len(own)]

list_runs(stored) == NewestFirst(Merged(StoredRuns(stored), Summaries(runs)))

(* What a reader's call returns when it returns now.  For list_runs, a     *)
(* repository that failed counts as empty.                                 *)
Returned(t) ==
  IF reading[t].call = "list" THEN list_runs(loaded[t])
  ELSE get_run(loaded[t], reading[t].id)

ReaderReturn(t) ==
  /\ at[t] \in {"loaded", "done"}
  /\ reading' = [reading EXCEPT ![t] = NoCall]
  /\ at' = [at EXCEPT ![t] = "idle"]
  /\ loaded' = [loaded EXCEPT ![t] = <<>>]
  /\ outcome' = [outcome EXCEPT ![t] = "none"]
  /\ UNCHANGED <<file, write_lock, runs, history>>

-----------------------------------------------------------------------------
(* The application ends and is started again: the file stays as it is, and *)
(* what was not persisted is gone.                                         *)
Crash ==
  /\ ~crashed /\ crashed' = TRUE
  /\ write_lock' = NoThread
  /\ at' = [t \in Thread |-> IF t \in Worker /\ at[t] # "idle" THEN "done" ELSE "idle"]
  /\ loaded' = [t \in Thread |-> <<>>]
  /\ outcome' = [t \in Thread |-> "none"]
  /\ runs' = <<>>
  /\ reading' = [t \in Reader |-> NoCall]
  /\ UNCHANGED <<file, repaired, persisted>>

Load(t) == LoadRuns(t) \/ RepairTruncate(t) \/ RepairWrite(t) \/ IoError(t)

WorkerStep(t) == PersistLock(t) \/ Load(t) \/ PersistTruncate(t) \/ PersistWrite(t)

ReaderStep(t) == Load(t) \/ ReaderReturn(t)

Next ==
  \/ \E t \in Worker : RunFinishes(t) \/ WorkerStep(t)
  \/ \E t \in Reader : ListBegin(t) \/ DetailBegin(t) \/ ReaderStep(t)
  \/ Crash

Spec == Init /\ [][Next]_vars

-----------------------------------------------------------------------------
(* Properties.                                                             *)

(* Two workers that persist at the same time, a failed write, a crash: as  *)
(* long as no load_runs has given a file up as corrupt, a file that parses *)
(* has every run that persist has returned Ok for, and no other.           *)
PersistedKept ==
  ~repaired /\ file.is = "list" =>
    /\ RunsOf(file.runs) \subseteq persisted
    /\ IdsOf(file.runs) = {run.id : run \in persisted}

(* list_runs and get_run_detail miss no run that was persisted or known to *)
(* the manager when the call began, though the file and the manager are    *)
(* read one after the other, unless the file was given up or unreadable.   *)
(* A list has every id once, also where two runs share it, newest first.   *)
ReadsComplete ==
  \A t \in Reader :
    at[t] = "loaded" =>
      LET got == Returned(t) IN
      /\ reading[t].call = "list" =>
           /\ \A i, j \in DOMAIN got :
                i < j => got[i].id # got[j].id /\ got[i].created_at >= got[j].created_at
           /\ ~repaired => reading[t].known \subseteq IdsOf(got)
      /\ reading[t].call = "detail" /\ reading[t].id \in reading[t].known /\ ~repaired =>
           IdsOf(got) = {reading[t].id}

(* state.rs:341, of a list taken after a run was persisted: it has the     *)
(* run.  The code loses runs that were persisted: load_runs gives up a     *)
(* file that another thread is writing, or that a crash left truncated,    *)
(* and replaces it by an empty list.                                       *)
PersistedListed ==
  \A t \in Reader :
    at[t] = "loaded" /\ reading[t].call = "list" =>
      reading[t].known \subseteq IdsOf(Returned(t))

=============================================================================
