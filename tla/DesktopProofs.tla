--------------------------- MODULE DesktopProofs ---------------------------
(***************************************************************************)
(* Proofs about what the desktop application keeps: its server process     *)
(* (DesktopServer), for any number of callers, addresses and children, and *)
(* its runs (RunRepository), for any number of workers and readers and any *)
(* runs, runs with the same id included.  The two share no variable.       *)
(***************************************************************************)
EXTENDS DesktopServer, RunRepository, FiniteSums, TLAPS

-----------------------------------------------------------------------------
(* DesktopServer: the process and who has it.                              *)

Places == {"idle", "start", "stop", "status", "info", "window", "wait", "clear",
           "poll", "store"}

ServerTyped ==
  /\ child \in [Child -> {"none", "running", "killed", "exited"}]
  /\ process \in Child \cup {0}
  /\ mutex \in Caller \cup {NoCaller}
  /\ pc \in [Caller -> Places]
  /\ hand \in [Caller -> Child \cup {0}]

(* The mutex is kept across steps exactly while a child comes up or ends,  *)
(* and meanwhile there is no managed process.                              *)
MutexKept ==
  /\ \A c \in Caller : pc[c] \in {"window", "wait"} <=> mutex = c
  /\ mutex # NoCaller => process = 0 /\ hand[mutex] \in Child

(* Every child that lives is the managed process, in the hand of the       *)
(* caller with the mutex, or given up.                                     *)
Accounted ==
  \A k \in Child :
    Alive(k) => \/ k \in given_up
                \/ k = process
                \/ mutex # NoCaller /\ k = hand[mutex]

ServerInv == ServerTyped /\ MutexKept /\ Accounted

LEMMA ServerInit == DesktopInit => ServerInv
  BY DesktopAssumption
  DEF DesktopInit, ServerInv, ServerTyped, MutexKept, Accounted, Alive, Places

LEMMA ServerStep == ServerInv /\ [DesktopNext]_desktopVars => ServerInv'
<1> SUFFICES ASSUME ServerInv, [DesktopNext]_desktopVars PROVE ServerInv'
  OBVIOUS
<1> USE DesktopAssumption
    DEF ServerInv, ServerTyped, MutexKept, Accounted, Alive, Places, Go, Child
<1>1. ASSUME NEW k \in Child, Exit(k) PROVE ServerInv'
  BY <1>1 DEF Exit, caller
<1>2. ASSUME NEW c \in Caller, Begin(c) PROVE ServerInv'
  BY <1>2 DEF Begin, manager
<1>3. ASSUME NEW c \in Caller, StartAlready(c) \/ StartFails(c) PROVE ServerInv'
  BY <1>3 DEF StartAlready, StartFails, Vacant
<1>4. ASSUME NEW c \in Caller, StartSpawn(c) PROVE ServerInv'
  <2>1. PICK k \in Child : Spawned(c, k)
    BY <1>4 DEF StartSpawn
  <2>2. /\ mutex = NoCaller /\ mutex' = c /\ process' = 0 /\ given_up' = given_up
        /\ child' = [child EXCEPT ![k] = "running"] /\ hand' = [hand EXCEPT ![c] = k]
        /\ pc[c] = "start" /\ pc' = [pc EXCEPT ![c] = "window"]
    BY <1>4, <2>1 DEF StartSpawn, Spawned
  <2>3. ServerTyped'
    BY <2>2
  <2>4. MutexKept'
    BY <2>2
  <2>5. Accounted'
    <3>1. \A j \in Child : Alive(j) => j \in given_up
      BY <1>4, <2>2 DEF StartSpawn, Vacant
    <3>2. \A j \in Child \ {k} : child'[j] = child[j]
      BY <2>2
    <3>3. hand'[c] = k /\ c # NoCaller
      BY <2>2
    <3> QED BY <2>2, <3>1, <3>2, <3>3
  <2> QED BY <2>3, <2>4, <2>5
<1>5. ASSUME NEW c \in Caller, StartReady(c) PROVE ServerInv'
  <2>1. /\ pc[c] = "window" /\ pc' = [pc EXCEPT ![c] = "idle"]
        /\ hand' = [hand EXCEPT ![c] = 0] /\ mutex' = NoCaller /\ child' = child
    BY <1>5 DEF StartReady
  <2>2. mutex = c /\ process = 0 /\ hand[c] \in Child
    BY <2>1
  <2>3. \/ child[hand[c]] = "exited" /\ process' = process /\ given_up' = given_up
        \/ given_up' = given_up \cup {hand[c]} /\ process' = process
        \/ process' = hand[c] /\ given_up' = given_up
    BY <1>5 DEF StartReady
  <2>4. ServerTyped'
    BY <2>1, <2>2, <2>3
  <2>5. MutexKept'
    BY <2>1, <2>2
  <2>6. Accounted'
    BY <2>1, <2>2, <2>3
  <2> QED BY <2>4, <2>5, <2>6
<1>6. ASSUME NEW c \in Caller, StopNothing(c) \/ StopFails(c) PROVE ServerInv'
  BY <1>6 DEF StopNothing, StopFails, Vacant
<1>7. ASSUME NEW c \in Caller, StopKill(c) PROVE ServerInv'
  BY <1>7 DEF StopKill
<1>8. ASSUME NEW c \in Caller, StopWait(c) \/ StopWaitFails(c) PROVE ServerInv'
  BY <1>8 DEF StopWait, StopWaitFails
<1>9. ASSUME NEW c \in Caller, Clear(c) \/ Poll(c) \/ PollStore(c) PROVE ServerInv'
  BY <1>9 DEF Clear, Poll, PollStore, manager
<1>10. ASSUME NEW c \in Caller, StatusRunning(c) \/ StatusStopped(c) PROVE ServerInv'
  BY <1>10 DEF StatusRunning, StatusStopped, AfterStatus, manager
<1>11. CASE UNCHANGED desktopVars
  BY <1>11 DEF desktopVars, manager, caller
<1> QED
  BY <1>1, <1>2, <1>3, <1>4, <1>5, <1>6, <1>7, <1>8, <1>9, <1>10, <1>11 DEF DesktopNext, Step

(* ServerManager under any number of overlapping commands: at most one     *)
(* server runs, and none when the manager knows of none, except for those  *)
(* a call has lost and returned an error about.                            *)
THEOREM OnlyOneServer == DesktopSpec => []OneServer
<1>1. ServerInv => OneServer
  <2> SUFFICES ASSUME ServerInv PROVE OneServer
    OBVIOUS
  <2> DEFINE alive == {k \in Child : Alive(k)} \ given_up
  <2>1. \E k \in Child \cup {0} : alive \subseteq {k}
    <3>1. CASE mutex = NoCaller
      <4>1. alive \subseteq {process} /\ process \in Child \cup {0}
        BY <3>1 DEF ServerInv, ServerTyped, Accounted
      <4> QED BY <4>1
    <3>2. CASE mutex # NoCaller
      <4>1. process = 0 /\ hand[mutex] \in Child
        BY <3>2 DEF ServerInv, MutexKept
      <4>2. \A k \in alive : k # 0
        BY DEF Child
      <4>3. alive \subseteq {hand[mutex]}
        BY <4>1, <4>2 DEF ServerInv, Accounted
      <4> QED BY <4>1, <4>3
    <3> QED BY <3>1, <3>2
  <2>2. Cardinality(alive) <= 1
    <3>1. PICK k \in Child \cup {0} : alive \subseteq {k}
      BY <2>1
    <3>2. IsFiniteSet({k}) /\ Cardinality({k}) = 1
      BY FS_Singleton
    <3> HIDE DEF alive
    <3> QED BY <3>1, <3>2, FS_Subset
  <2>3. process = 0 /\ mutex = NoCaller => alive = {}
    BY DEF ServerInv, ServerTyped, Accounted, Child
  <2> QED BY <2>2, <2>3 DEF OneServer
<1> QED
  BY ServerInit, ServerStep, <1>1, PTL DEF DesktopSpec

-----------------------------------------------------------------------------
(* What is shown after a stop.                                             *)

(* Since the poller was cleared there has been no process to poll, and so  *)
(* nobody polls.                                                           *)
ClearInv ==
  /\ pc \in [Caller -> Places]
  /\ cleared \in BOOLEAN
  /\ cleared => process = 0 /\ snapshot = 0 /\ ~poll_error /\ ~Polling

LEMMA ClearInit == DesktopInit => ClearInv
  BY DEF DesktopInit, PollerInit, ClearInv, Polling, Places

LEMMA ClearStep == ClearInv /\ [DesktopNext]_desktopVars => ClearInv'
<1> SUFFICES ASSUME ClearInv, [DesktopNext]_desktopVars PROVE ClearInv'
  OBVIOUS
<1> USE DEF ClearInv, Polling, Places, Go
<1>1. ASSUME NEW c \in Caller, Clear(c) PROVE ClearInv'
  BY <1>1 DEF Clear, clear, manager
<1>2. ASSUME NEW c \in Caller, StartReady(c) PROVE ClearInv'
  <2>1. /\ pc' = [pc EXCEPT ![c] = "idle"] /\ UNCHANGED <<snapshot, poll_error>>
        /\ UNCHANGED <<process, cleared>> \/ cleared' = FALSE
    BY <1>2 DEF StartReady, poller
  <2>2. \A d \in Caller : pc'[d] \in {"poll", "store"} => pc[d] \in {"poll", "store"}
    BY <2>1
  <2>3. pc' \in [Caller -> Places]
    BY <2>1
  <2>4. CASE cleared' = FALSE
    BY <2>3, <2>4
  <2>5. CASE UNCHANGED <<process, cleared>>
    BY <2>1, <2>2, <2>3, <2>5
  <2> QED BY <2>1, <2>4, <2>5
<1>3. ASSUME NEW c \in Caller, StatusRunning(c) \/ Poll(c) \/ PollStore(c)
      PROVE  ClearInv'
  BY <1>3 DEF StatusRunning, Poll, PollStore, manager, AfterStatus
<1>4. ASSUME NEW c \in Caller, StatusStopped(c) PROVE ClearInv'
  BY <1>4 DEF StatusStopped, AfterStatus, poller
<1>5. ASSUME NEW c \in Caller,
             \/ Begin(c) \/ StartAlready(c) \/ StartFails(c) \/ StartSpawn(c)
             \/ StopNothing(c) \/ StopFails(c) \/ StopKill(c) \/ StopWait(c)
             \/ StopWaitFails(c)
      PROVE  ClearInv'
  <2>1. /\ UNCHANGED <<cleared, snapshot, poll_error>>
        /\ process' = process \/ process' = 0
    BY <1>5 DEF Begin, StartAlready, StartFails, StartSpawn, Spawned, StopNothing,
                StopFails, StopKill, StopWait, StopWaitFails, manager, poller
  <2>2. \E to \in Places \ {"poll", "store"} : pc' = [pc EXCEPT ![c] = to]
    BY <1>5 DEF Begin, StartAlready, StartFails, StartSpawn, Spawned, StopNothing,
                StopFails, StopKill, StopWait, StopWaitFails
  <2> QED BY <2>1, <2>2
<1>6. CASE (\E k \in Child : Exit(k)) \/ UNCHANGED desktopVars
  BY <1>6 DEF Exit, desktopVars, manager, caller, poller
<1> QED
  BY <1>1, <1>2, <1>3, <1>4, <1>5, <1>6 DEF DesktopNext, Step

(* AppState::stop_server under any number of overlapping commands: once    *)
(* the poller was cleared with no poll under way, no INFO and no error of  *)
(* the stopped server comes back before another server is started.         *)
THEOREM StopShowsNothing == DesktopSpec => []StopClears
<1>1. ClearInv => StopClears
  BY DEF ClearInv, StopClears
<1> QED
  BY ClearInit, ClearStep, <1>1, PTL DEF DesktopSpec

-----------------------------------------------------------------------------
(* RunRepository: upsert.                                                  *)

(* Find finds a run when the id is in the list. *)
LEMMA Found ==
  ASSUME NEW S, NEW list \in Seq(S), NEW id \in IdsOf(list)
  PROVE  Find(list, id) \in DOMAIN list /\ list[Find(list, id)].id = id
<1> DEFINE T == {i \in 1..Len(list) : list[i].id = id}
<1>1. T \subseteq Nat /\ T # {}
  BY DEF IdsOf
<1>2. PICK i \in T : \A j \in T : i <= j
  BY <1>1, LeastElement
<1>3. ASSUME id \in IdsOf(SubSeq(list, 1, i - 1)) PROVE FALSE
  <2>0. i \in 1..Len(list)
    BY <1>2
  <2>1. /\ DOMAIN SubSeq(list, 1, i - 1) = 1..(i - 1)
        /\ \A j \in 1..(i - 1) : SubSeq(list, 1, i - 1)[j] = list[j]
    BY <2>0
  <2>2. PICK j \in 1..(i - 1) : list[j].id = id
    BY <1>3, <2>1 DEF IdsOf
  <2>3. j \in T /\ ~(i <= j)
    BY <2>0, <2>2
  <2> QED
    BY <2>3, <1>2
<1>4. \E j \in DOMAIN list : list[j].id = id /\ id \notin IdsOf(SubSeq(list, 1, j - 1))
  BY <1>2, <1>3
<1> QED
  BY <1>4 DEF Find

(* No two runs of the list have the same id. *)
Distinct(list) == \A i, j \in DOMAIN list : list[i].id = list[j].id => i = j

(* Upsert keeps the ids and adds the run's; it brings in no other run, and *)
(* no id twice.                                                            *)
LEMMA UpsertIds ==
  ASSUME NEW S, NEW list \in Seq(S), NEW run \in S
  PROVE  /\ Upsert(list, run) \in Seq(S)
         /\ IdsOf(Upsert(list, run)) = IdsOf(list) \cup {run.id}
         /\ RunsOf(Upsert(list, run)) \subseteq RunsOf(list) \cup {run}
         /\ Distinct(list) => Distinct(Upsert(list, run))
<1>1. CASE run.id \in IdsOf(list)
  <2> DEFINE first == Find(list, run.id)
             new == [list EXCEPT ![first] = run]
  <2>1. first \in DOMAIN list /\ list[first].id = run.id
    BY <1>1, Found
  <2>2. Upsert(list, run) = new
    BY <1>1 DEF Upsert
  <2> HIDE DEF first
  <2>3. /\ DOMAIN new = DOMAIN list
        /\ \A i \in DOMAIN list : new[i] = IF i = first THEN run ELSE list[i]
    BY <2>1
  <2>4. new \in Seq(S)
    BY <2>1
  <2> HIDE DEF new
  <2>5. IdsOf(new) = IdsOf(list) \cup {run.id}
    BY <2>1, <2>3 DEF IdsOf
  <2>6. RunsOf(new) \subseteq RunsOf(list) \cup {run}
    BY <2>3 DEF RunsOf
  <2>7. Distinct(list) => Distinct(new)
    BY <2>1, <2>3 DEF Distinct
  <2> QED
    BY <2>2, <2>4, <2>5, <2>6, <2>7
<1>2. CASE run.id \notin IdsOf(list)
  <2> DEFINE new == Append(list, run)
  <2>1. Upsert(list, run) = new
    BY <1>2 DEF Upsert
  <2>2. /\ new \in Seq(S) /\ Len(list) \in Nat
        /\ DOMAIN list = 1..Len(list) /\ DOMAIN new = 1..(Len(list) + 1)
        /\ \A i \in 1..Len(list) : new[i] = list[i]
        /\ new[Len(list) + 1] = run
    OBVIOUS
  <2> HIDE DEF new
  <2>3. IdsOf(new) = IdsOf(list) \cup {run.id}
    <3>1. IdsOf(new) \subseteq IdsOf(list) \cup {run.id}
      BY <2>2 DEF IdsOf
    <3>2. IdsOf(list) \subseteq IdsOf(new)
      BY <2>2 DEF IdsOf
    <3>3. run.id \in IdsOf(new)
      BY <2>2 DEF IdsOf
    <3> QED
      BY <3>1, <3>2, <3>3
  <2>4. RunsOf(new) \subseteq RunsOf(list) \cup {run}
    BY <2>2 DEF RunsOf
  <2>5. ASSUME Distinct(list) PROVE Distinct(new)
    <3>1. \A i \in 1..Len(list) : new[i].id # run.id
      BY <1>2, <2>2 DEF IdsOf
    <3> QED
      BY <2>2, <2>5, <3>1 DEF Distinct
  <2> QED
    BY <2>1, <2>2, <2>3, <2>4, <2>5
<1> QED
  BY <1>1, <1>2

-----------------------------------------------------------------------------
(* The inductive invariant.                                                *)

Run == {RunOf[w] : w \in Worker}

Inside == {"load", "repair", "reset", "loaded", "store"}

Ids(set) == {run.id : run \in set}

Contents == [is : {"list", "empty", "mixed"}, runs : Seq(Run)]

Typed ==
  /\ at \in [Thread -> {"idle", "lock", "done"} \cup Inside]
  /\ loaded \in [Thread -> Seq(Run)]
  /\ repaired \in BOOLEAN
  /\ file \in Contents

(* A worker is inside persist only with the lock. *)
Locked == \A w \in Worker : at[w] \in Inside => write_lock = w

(* What the file and a worker with the lock have, until a file is given up: *)
(* the worker has loaded what is in the file, or has truncated it and holds *)
(* every persisted run and its own.  A thread that has begun to reset the   *)
(* file has given it up.                                                    *)
Whole ==
  /\ \A t \in Thread : at[t] # "reset"
  /\ file.is # "mixed"
  /\ file.is = "list" => /\ RunsOf(file.runs) \subseteq persisted
                         /\ IdsOf(file.runs) = Ids(persisted)
  /\ \A w \in Worker :
       /\ at[w] = "loaded" => file.is = "list" /\ loaded[w] = file.runs
       /\ at[w] = "store" =>
            /\ file.is = "empty"
            /\ RunsOf(loaded[w]) \subseteq persisted \cup {RunOf[w]}
            /\ IdsOf(loaded[w]) = Ids(persisted) \cup {RunOf[w].id}

RepoInv == Typed /\ Locked /\ (~repaired => Whole)

LEMMA ContentsTyped ==
  /\ Empty \in Contents /\ Mixed \in Contents
  /\ \A list \in Seq(Run) : Content(list) \in Contents
BY DEF Empty, Mixed, Content, Contents

LEMMA RepoInit == Init => RepoInv
<1> SUFFICES ASSUME Init PROVE RepoInv
  OBVIOUS
<1>1. Typed
  <2>1. <<>> \in Seq(Run)
    OBVIOUS
  <2> QED
    BY <2>1, ContentsTyped DEF Init, Typed, Inside
<1>2. Locked
  BY DEF Init, Locked, Inside, Thread
<1>3. Whole
  BY DEF Init, Whole, Content, RunsOf, IdsOf, Ids, Thread
<1> QED
  BY <1>1, <1>2, <1>3 DEF RepoInv

(* Steps that touch neither the file nor what was loaded, and after which  *)
(* no worker is further inside persist than before.                        *)
LEMMA Aside ==
  ASSUME RepoInv, NEW t \in Thread,
         NEW to \in {"idle", "lock", "done", "load", "repair"},
         at' = [at EXCEPT ![t] = to],
         t \in Worker => (to \in Inside => write_lock' = t),
         \A w \in Worker : w # t /\ at[w] \in Inside => write_lock' = write_lock,
         loaded' = loaded \/ loaded' = [loaded EXCEPT ![t] = <<>>],
         UNCHANGED <<file, repaired, persisted>>
  PROVE  RepoInv'
<1>1. Typed'
  <2>1. <<>> \in Seq(Run)
    OBVIOUS
  <2> QED
    BY <2>1 DEF RepoInv, Typed, Inside
<1>2. Locked'
  BY DEF RepoInv, Typed, Locked, Thread
<1>3. ~repaired => Whole'
  BY DEF RepoInv, Typed, Whole, Thread
<1> QED
  BY <1>1, <1>2, <1>3 DEF RepoInv

LEMMA RepoLoad ==
  ASSUME RepoInv, NEW t \in Thread, LoadRuns(t)
  PROVE  RepoInv'
<1>1. CASE file.is = "list"
  <2>0. /\ at[t] = "load" /\ at' = [at EXCEPT ![t] = "loaded"]
        /\ loaded' = [loaded EXCEPT ![t] = file.runs]
        /\ UNCHANGED <<file, write_lock, repaired, persisted>>
    BY <1>1 DEF LoadRuns, Moves, history
  <2>1. Typed'
    BY <2>0 DEF RepoInv, Typed, Inside, Contents
  <2>2. Locked'
    BY <2>0 DEF RepoInv, Typed, Locked, Thread, Inside
  <2>3. ~repaired => Whole'
    BY <1>1, <2>0 DEF RepoInv, Typed, Whole, Thread, Contents
  <2> QED
    BY <2>0, <2>1, <2>2, <2>3 DEF RepoInv
<1>2. CASE file.is # "list"
  <2>0. /\ at[t] = "load" /\ at' = [at EXCEPT ![t] = "repair"]
        /\ UNCHANGED <<file, loaded, write_lock, repaired, persisted>>
    BY <1>2 DEF LoadRuns, Moves, history
  <2> QED
    BY <2>0, Aside DEF RepoInv, Locked, Inside
<1> QED
  BY <1>1, <1>2

(* The two steps of a repair: from the first on the file is given up. *)
LEMMA RepoRepair ==
  ASSUME RepoInv, NEW t \in Thread, RepairTruncate(t) \/ RepairWrite(t)
  PROVE  RepoInv'
<1>1. CASE RepairTruncate(t)
  <2>0. /\ at[t] = "repair" /\ at' = [at EXCEPT ![t] = "reset"]
        /\ file' = Empty /\ repaired' = TRUE
        /\ UNCHANGED <<loaded, write_lock, persisted>>
    BY <1>1 DEF RepairTruncate, Moves
  <2>1. <<>> \in Seq(Run)
    OBVIOUS
  <2>2. Typed'
    BY <2>0, <2>1, ContentsTyped DEF RepoInv, Typed, Inside
  <2>3. Locked'
    BY <2>0 DEF RepoInv, Typed, Locked, Thread, Inside
  <2> QED
    BY <2>0, <2>2, <2>3 DEF RepoInv
<1>2. CASE RepairWrite(t)
  <2>0. /\ at[t] = "reset" /\ at' = [at EXCEPT ![t] = "loaded"]
        /\ file' \in {Content(<<>>), Mixed}
        /\ loaded' = [loaded EXCEPT ![t] = <<>>]
        /\ UNCHANGED <<write_lock, persisted, repaired>>
    BY <1>2 DEF RepairWrite, Moves, Written, history
  <2>1. <<>> \in Seq(Run)
    OBVIOUS
  <2>2. Typed'
    BY <2>0, <2>1, ContentsTyped DEF RepoInv, Typed, Inside
  <2>3. Locked'
    BY <2>0 DEF RepoInv, Typed, Locked, Thread, Inside
  <2>4. repaired'
    BY <2>0 DEF RepoInv, Whole, Typed
  <2> QED
    BY <2>2, <2>3, <2>4 DEF RepoInv
<1> QED
  BY <1>1, <1>2

(* The worker has the lock, so that the file still is what it loaded: what *)
(* it will write is that and its own run.                                  *)
LEMMA RepoTruncate ==
  ASSUME RepoInv, NEW w \in Worker, PersistTruncate(w)
  PROVE  RepoInv'
<1> DEFINE new == Upsert(loaded[w], RunOf[w])
<1>0. /\ at[w] = "loaded" /\ at' = [at EXCEPT ![w] = "store"]
      /\ loaded' = [loaded EXCEPT ![w] = new]
      /\ file' = Empty
      /\ UNCHANGED <<write_lock, persisted, repaired>>
  BY DEF PersistTruncate, Moves, history
<1>1. w \in Thread /\ RunOf[w] \in Run /\ loaded[w] \in Seq(Run)
  BY DEF RepoInv, Typed, Thread, Run
<1>2. /\ new \in Seq(Run)
      /\ IdsOf(new) = IdsOf(loaded[w]) \cup {RunOf[w].id}
      /\ RunsOf(new) \subseteq RunsOf(loaded[w]) \cup {RunOf[w]}
  BY <1>1, UpsertIds
<1> HIDE DEF new
<1>3. <<>> \in Seq(Run)
  OBVIOUS
<1>4. Typed'
  BY <1>0, <1>1, <1>2, <1>3, ContentsTyped DEF RepoInv, Typed, Inside
<1>5. Locked'
  BY <1>0, <1>1 DEF RepoInv, Typed, Locked, Thread, Inside
<1>6. ASSUME ~repaired PROVE Whole'
  <2>1. /\ RunsOf(loaded[w]) \subseteq persisted
        /\ IdsOf(loaded[w]) = Ids(persisted)
    BY <1>0, <1>6 DEF RepoInv, Whole
  <2>2. loaded'[w] = new /\ file'.is = "empty"
    BY <1>0, <1>1 DEF RepoInv, Typed, Empty
  <2>3. ASSUME NEW v \in Worker, v # w PROVE at'[v] \notin {"loaded", "store"}
    BY <1>0, <1>1, <2>3 DEF RepoInv, Typed, Locked, Thread, Inside
  <2>4. \A t \in Thread : at'[t] # "reset"
    BY <1>0, <1>6 DEF RepoInv, Whole, Typed
  <2>5. at'[w] = "store"
    BY <1>0, <1>1 DEF RepoInv, Typed
  <2> QED
    BY <1>0, <1>2, <2>1, <2>2, <2>3, <2>4, <2>5 DEF Whole
<1> QED
  BY <1>0, <1>4, <1>5, <1>6 DEF RepoInv

(* The file, empty since the truncation, gets what the worker holds. *)
LEMMA RepoWrite ==
  ASSUME RepoInv, NEW w \in Worker, PersistWrite(w)
  PROVE  RepoInv'
<1>0. /\ at[w] = "store" /\ at' = [at EXCEPT ![w] = "done"]
      /\ file' \in Written(loaded[w])
      /\ loaded' = [loaded EXCEPT ![w] = <<>>]
      /\ persisted' = persisted \cup {RunOf[w]}
      /\ write_lock' = Unlocked(w)
      /\ UNCHANGED repaired
  BY DEF PersistWrite, Moves
<1>1. w \in Thread /\ loaded[w] \in Seq(Run) /\ <<>> \in Seq(Run) /\ write_lock = w
  BY <1>0 DEF RepoInv, Typed, Thread, Locked, Inside
<1>2. Typed'
  <2>1. file' \in {Content(loaded[w]), Mixed}
    BY <1>0 DEF Written
  <2> QED
    BY <1>0, <1>1, <2>1, ContentsTyped DEF RepoInv, Typed, Inside
<1>3. ASSUME NEW v \in Worker, v # w PROVE at'[v] \notin Inside
  BY <1>0, <1>1, <1>3 DEF RepoInv, Typed, Locked, Thread, Inside
<1>4. at'[w] = "done"
  BY <1>0, <1>1 DEF RepoInv, Typed
<1>5. Locked'
  BY <1>3, <1>4 DEF Locked, Inside
<1>6. ASSUME ~repaired PROVE Whole'
  <2>1. file' = Content(loaded[w])
    BY <1>0, <1>6 DEF RepoInv, Whole, Written
  <2>2. file'.is = "list" /\ file'.runs = loaded[w]
    BY <2>1 DEF Content
  <2>3. Ids(persisted') = Ids(persisted) \cup {RunOf[w].id}
    BY <1>0 DEF Ids
  <2>4. RunsOf(loaded[w]) \subseteq persisted' /\ IdsOf(loaded[w]) = Ids(persisted')
    BY <1>0, <1>6, <2>3 DEF RepoInv, Whole
  <2>5. \A t \in Thread : at'[t] # "reset"
    BY <1>0, <1>6 DEF RepoInv, Whole, Typed
  <2> QED
    BY <1>3, <1>4, <2>2, <2>4, <2>5 DEF Whole, Inside
<1> QED
  BY <1>0, <1>2, <1>5, <1>6 DEF RepoInv

(* A crash takes every thread out of its call and leaves the file. *)
LEMMA RepoCrash ==
  ASSUME RepoInv, Crash
  PROVE  RepoInv'
<1>0. /\ \A t \in Thread : at'[t] \in {"idle", "done"}
      /\ UNCHANGED <<file, repaired, persisted>>
  BY DEF Crash
<1>1. Typed'
  <2>1. <<>> \in Seq(Run)
    OBVIOUS
  <2> QED
    BY <2>1 DEF Crash, RepoInv, Typed
<1>2. Locked'
  BY <1>0 DEF Locked, Inside, Thread
<1>3. ~repaired => Whole'
  BY <1>0 DEF RepoInv, Whole, Thread
<1> QED
  BY <1>0, <1>1, <1>2, <1>3 DEF RepoInv

LEMMA RepoError ==
  ASSUME RepoInv, NEW t \in Thread, IoError(t)
  PROVE  RepoInv'
<1>1. /\ at' = [at EXCEPT ![t] = "done"] /\ at[t] \in Inside
      /\ loaded' = [loaded EXCEPT ![t] = <<>>]
      /\ write_lock' = Unlocked(t)
      /\ UNCHANGED <<file, repaired, persisted>>
  BY DEF IoError, Inside, history
<1>2. \A w \in Worker : w # t /\ at[w] \in Inside => write_lock' = write_lock
  BY <1>1 DEF RepoInv, Locked, Unlocked
<1> QED
  BY <1>1, <1>2, Aside DEF Inside

LEMMA RepoStep == RepoInv /\ [Next]_vars => RepoInv'
<1> SUFFICES ASSUME RepoInv, [Next]_vars PROVE RepoInv'
  OBVIOUS
<1>1. ASSUME NEW t \in Thread, Load(t) PROVE RepoInv'
  BY <1>1, RepoLoad, RepoRepair, RepoError DEF Load
<1>2. ASSUME NEW w \in Worker, RunFinishes(w) PROVE RepoInv'
  <2>1. w \in Thread /\ at' = [at EXCEPT ![w] = "lock"]
    BY <1>2 DEF RunFinishes, Moves, Thread
  <2> QED
    BY <1>2, <2>1, Aside DEF RunFinishes, Inside, history
<1>3. ASSUME NEW w \in Worker, PersistLock(w) PROVE RepoInv'
  <2>1. /\ w \in Thread /\ at' = [at EXCEPT ![w] = "load"] /\ write_lock' = w
        /\ UNCHANGED <<file, loaded, repaired, persisted>>
    BY <1>3 DEF PersistLock, Moves, Thread, history
  <2>2. \A v \in Worker : at[v] \notin Inside
    BY <1>3, RepositoryAssumption DEF PersistLock, RepoInv, Locked
  <2> QED
    BY <2>1, <2>2, Aside
<1>4. ASSUME NEW w \in Worker, PersistTruncate(w) \/ PersistWrite(w) PROVE RepoInv'
  BY <1>4, RepoTruncate, RepoWrite
<1>5. ASSUME NEW t \in Reader, ListBegin(t) \/ DetailBegin(t) PROVE RepoInv'
  <2>1. PICK call, i : ReadBegin(t, call, i)
    BY <1>5 DEF ListBegin, DetailBegin
  <2>2. /\ t \in Thread /\ t \notin Worker /\ at' = [at EXCEPT ![t] = "load"]
        /\ UNCHANGED <<file, write_lock, loaded, repaired, persisted>>
    BY <2>1, RepositoryAssumption DEF ReadBegin, Moves, Thread, history
  <2> QED
    BY <2>2, Aside
<1>6. ASSUME NEW t \in Reader, ReaderReturn(t) PROVE RepoInv'
  <2>1. /\ t \in Thread /\ t \notin Worker /\ at' = [at EXCEPT ![t] = "idle"]
        /\ loaded' = [loaded EXCEPT ![t] = <<>>]
        /\ UNCHANGED <<file, write_lock, repaired, persisted>>
    BY <1>6, RepositoryAssumption DEF ReaderReturn, Thread, history
  <2> QED
    BY <2>1, Aside
<1>7. CASE UNCHANGED vars
  BY <1>7 DEF vars, history, RepoInv, Typed, Locked, Whole
<1> QED
  BY <1>1, <1>2, <1>3, <1>4, <1>5, <1>6, <1>7, RepoCrash
  DEF Next, WorkerStep, ReaderStep, Thread

(* Whatever workers, readers, failing writes and a crash do to the file,   *)
(* as long as load_runs has not given it up as corrupt, a file that parses *)
(* has every run that persist has returned Ok for, and no other.           *)
THEOREM NothingPersistedIsLost == Spec => []PersistedKept
<1>1. RepoInv => PersistedKept
  BY DEF RepoInv, Whole, PersistedKept, Ids
<1> QED
  BY <1>1, RepoInit, RepoStep, PTL DEF Spec

-----------------------------------------------------------------------------
(* Sorting, for what readers get.                                          *)

(* What lists show of a run. *)
Summary == [id : {RunOf[w].id : w \in Worker}, status : {RunOf[w].status : w \in Worker},
            created_at : Nat]

(* Runs and what is shown of them have a time. *)
Dated(S) == \A run \in S : run.created_at \in Nat

(* A list has as many positions as it is long. *)
LEMMA Positions ==
  ASSUME NEW S, NEW list \in Seq(S)
  PROVE  /\ DOMAIN list = 1..Len(list) /\ Len(list) \in Nat
         /\ IsFiniteSet(DOMAIN list) /\ Cardinality(DOMAIN list) = Len(list)
<1> DEFINE n == Len(list)
<1>1. DOMAIN list = 1..n /\ n \in Nat
  OBVIOUS
<1> HIDE DEF n
<1>2. IsFiniteSet(1..n) /\ Cardinality(1..n) = n
  BY <1>1, FS_Interval
<1> QED
  BY <1>1, <1>2 DEF n

(* Ranks are within bounds, different, and follow the creation times. *)
LEMMA AheadOrder ==
  ASSUME NEW S, Dated(S), NEW list \in Seq(S)
  PROVE  /\ \A i \in DOMAIN list : Cardinality(Ahead(list, i)) \in 0..(Len(list) - 1)
         /\ \A i, j \in DOMAIN list :
              i \in Ahead(list, j) =>
                Cardinality(Ahead(list, i)) < Cardinality(Ahead(list, j))
         /\ \A i, j \in DOMAIN list :
              Cardinality(Ahead(list, i)) = Cardinality(Ahead(list, j)) => i = j
<1> DEFINE D == DOMAIN list
<1>1. D = 1..Len(list) /\ Len(list) \in Nat /\ IsFiniteSet(D) /\ Cardinality(D) = Len(list)
  BY Positions
<1>2. \A i \in D : list[i].created_at \in Nat /\ i \in Nat
  BY <1>1 DEF Dated
<1>3. \A i \in D : Ahead(list, i) \subseteq D /\ i \notin Ahead(list, i)
  BY <1>2 DEF Ahead
<1>4. \A i, j \in D : i = j \/ i \in Ahead(list, j) \/ j \in Ahead(list, i)
  BY <1>2 DEF Ahead
<1>5. \A i, j, k \in D : i \in Ahead(list, j) /\ j \in Ahead(list, k) => i \in Ahead(list, k)
  BY <1>2 DEF Ahead
<1> HIDE DEF D
<1>6. \A i \in D : IsFiniteSet(Ahead(list, i)) /\ Cardinality(Ahead(list, i)) \in Nat
  BY <1>1, <1>3, FS_Subset, FS_CardinalityType
<1>7. ASSUME NEW i \in D PROVE Cardinality(Ahead(list, i)) \in 0..(Len(list) - 1)
  <2>1. Ahead(list, i) # D
    BY <1>3
  <2>2. /\ Cardinality(Ahead(list, i)) <= Cardinality(D)
        /\ Cardinality(Ahead(list, i)) # Cardinality(D)
    BY <1>1, <1>3, <2>1, FS_Subset
  <2> QED
    BY <1>1, <1>6, <2>2
<1>8. ASSUME NEW i \in D, NEW j \in D, i \in Ahead(list, j)
      PROVE  Cardinality(Ahead(list, i)) < Cardinality(Ahead(list, j))
  <2>1. Ahead(list, i) \subseteq Ahead(list, j) /\ Ahead(list, i) # Ahead(list, j)
    BY <1>3, <1>5, <1>8
  <2>2. /\ Cardinality(Ahead(list, i)) <= Cardinality(Ahead(list, j))
        /\ Cardinality(Ahead(list, i)) # Cardinality(Ahead(list, j))
    BY <1>6, <2>1, FS_Subset
  <2> QED
    BY <1>6, <2>2
<1>9. ASSUME NEW i \in D, NEW j \in D,
             Cardinality(Ahead(list, i)) = Cardinality(Ahead(list, j))
      PROVE  i = j
  <2>1. i \notin Ahead(list, j) /\ j \notin Ahead(list, i)
    BY <1>6, <1>8, <1>9
  <2> QED
    BY <1>4, <2>1
<1> QED
  BY <1>7, <1>8, <1>9 DEF D

(* The place in the list of the n-th of the sorted ones. *)
PlaceOf(list) ==
  [n \in DOMAIN list |-> CHOOSE i \in DOMAIN list : Cardinality(Ahead(list, i)) = n - 1]

(* Every rank is taken. *)
LEMMA Placed ==
  ASSUME NEW S, Dated(S), NEW list \in Seq(S), NEW n \in DOMAIN list
  PROVE  /\ PlaceOf(list)[n] \in DOMAIN list
         /\ Cardinality(Ahead(list, PlaceOf(list)[n])) = n - 1
<1> DEFINE D == DOMAIN list
           R == 0..(Len(list) - 1)
           rank == [i \in D |-> Cardinality(Ahead(list, i))]
<1>1. D = 1..Len(list) /\ Len(list) \in Nat /\ IsFiniteSet(D) /\ Cardinality(D) = Len(list)
  BY Positions
<1>2. IsFiniteSet(R) /\ Cardinality(R) = Len(list)
  <2> DEFINE m == Len(list)
  <2>1. m \in Nat
    BY <1>1
  <2> HIDE DEF m
  <2>2. IsFiniteSet(0..(m - 1)) /\ Cardinality(0..(m - 1)) = m
    BY <2>1, FS_Interval
  <2> QED
    BY <2>2 DEF m
<1>3. rank \in [D -> R]
  BY AheadOrder
<1>4. \A i, j \in D : rank[i] = rank[j] => i = j
  BY AheadOrder
<1>5. n - 1 \in R
  BY <1>1
<1>6. \A i \in D : rank[i] = Cardinality(Ahead(list, i))
  OBVIOUS
<1> HIDE DEF D, R, rank
<1>7. rank \in Injection(D, R)
  BY <1>3, <1>4 DEF Injection, IsInjective
<1>8. rank \in Surjection(D, R)
  BY <1>1, <1>2, <1>7, FS_Injection
<1>9. \E i \in D : rank[i] = n - 1
  BY <1>5, <1>8 DEF Surjection
<1>10. \E i \in DOMAIN list : Cardinality(Ahead(list, i)) = n - 1
  BY <1>6, <1>9 DEF D
<1> QED
  BY <1>10 DEF PlaceOf

(* Sorting keeps the runs, and no id comes in twice; the newest are first. *)
LEMMA Sorted ==
  ASSUME NEW S, Dated(S), NEW list \in Seq(S)
  PROVE  /\ NewestFirst(list) \in Seq(S)
         /\ Len(NewestFirst(list)) = Len(list)
         /\ IdsOf(NewestFirst(list)) = IdsOf(list)
         /\ Distinct(list) => Distinct(NewestFirst(list))
         /\ \A i, j \in DOMAIN list :
              i < j => NewestFirst(list)[i].created_at >= NewestFirst(list)[j].created_at
<1> DEFINE D == DOMAIN list
           f == PlaceOf(list)
           new == NewestFirst(list)
<1>1. D = 1..Len(list) /\ Len(list) \in Nat
  OBVIOUS
<1>2. DOMAIN new = D /\ \A n \in D : new[n] = list[f[n]]
  BY DEF NewestFirst, PlaceOf
<1>3. \A n \in D : f[n] \in D /\ Cardinality(Ahead(list, f[n])) = n - 1
  BY Placed
<1>4. /\ \A i \in D : Cardinality(Ahead(list, i)) \in 0..(Len(list) - 1)
      /\ \A i, j \in D :
           i \in Ahead(list, j) => Cardinality(Ahead(list, i)) < Cardinality(Ahead(list, j))
      /\ \A i, j \in D : Cardinality(Ahead(list, i)) = Cardinality(Ahead(list, j)) => i = j
  BY AheadOrder
<1>5. new = [n \in 1..Len(list) |-> new[n]]
  BY <1>1 DEF NewestFirst
<1>0. \A n \in D : list[n] \in S
  OBVIOUS
<1> HIDE DEF f, new, D
<1>6. \A n \in D : new[n] \in S
  BY <1>0, <1>2, <1>3
<1>7. new \in Seq(S) /\ Len(new) = Len(list)
  <2>1. new \in [1..Len(list) -> S]
    BY <1>1, <1>5, <1>6
  <2> QED
    BY <1>1, <2>1
<1>8. \A i \in D : \E n \in D : f[n] = i
  <2> SUFFICES ASSUME NEW i \in D PROVE \E n \in D : f[n] = i
    OBVIOUS
  <2> DEFINE n == Cardinality(Ahead(list, i)) + 1
  <2>1. n \in D /\ n - 1 = Cardinality(Ahead(list, i))
    BY <1>1, <1>4
  <2>2. f[n] = i
    BY <1>3, <1>4, <2>1
  <2> QED
    BY <2>1, <2>2
<1>9. \A m, n \in D : f[m] = f[n] => m = n
  BY <1>1, <1>3
<1>10. IdsOf(new) = IdsOf(list)
  <2>1. IdsOf(new) = {new[n].id : n \in D} /\ IdsOf(list) = {list[n].id : n \in D}
    BY <1>2 DEF IdsOf, D
  <2>2. \A n \in D : \E i \in D : new[n].id = list[i].id
    BY <1>2, <1>3
  <2>3. \A i \in D : \E n \in D : list[i].id = new[n].id
    BY <1>2, <1>8
  <2> QED
    BY <2>1, <2>2, <2>3
<1>11. ASSUME Distinct(list) PROVE Distinct(new)
  <2>1. \A i, j \in D : list[i].id = list[j].id => i = j
    BY <1>11 DEF Distinct, D
  <2>2. ASSUME NEW m \in D, NEW n \in D, new[m].id = new[n].id PROVE m = n
    <3>1. f[m] = f[n]
      BY <1>2, <1>3, <2>1, <2>2
    <3> QED
      BY <1>9, <3>1
  <2> QED
    BY <1>2, <2>2 DEF Distinct
<1>12. ASSUME NEW i \in D, NEW j \in D, i < j
       PROVE  new[i].created_at >= new[j].created_at
  <2>1. f[j] \notin Ahead(list, f[i])
    BY <1>1, <1>3, <1>4, <1>12
  <2>2. new[i].created_at \in Nat /\ new[j].created_at \in Nat
    BY <1>6 DEF Dated
  <2> QED
    <3> DEFINE i0 == f[i]
               j0 == f[j]
    <3>1. i0 \in D /\ j0 \in D /\ new[i] = list[i0] /\ new[j] = list[j0]
      BY <1>2, <1>3
    <3>2. j0 \notin Ahead(list, i0)
      BY <2>1
    <3> HIDE DEF i0, j0
    <3>3. ~(list[j0].created_at > list[i0].created_at)
      BY <3>1, <3>2 DEF Ahead, D
    <3> QED
      BY <2>2, <3>1, <3>3
<1> QED
  BY <1>7, <1>10, <1>11, <1>12 DEF new, D

-----------------------------------------------------------------------------
(* list_runs.                                                              *)

(* g gives the list after each of the manager's first n runs. *)
MergedUpTo(stored, own, n, g) ==
  g = [k \in 0..n |-> IF k = 0 THEN stored ELSE Upsert(g[k - 1], own[k])]

(* There are such lists. *)
LEMMA MergesExist ==
  ASSUME NEW stored, NEW own, NEW n \in Nat
  PROVE  \E g : MergedUpTo(stored, own, n, g)
<1> DEFINE Good == {k \in Nat : \E g : MergedUpTo(stored, own, k, g)}
<1>1. 0 \in Good
  <2> DEFINE g == [k \in 0..0 |-> stored]
  <2>1. MergedUpTo(stored, own, 0, g)
    BY DEF MergedUpTo
  <2> QED
    BY <2>1
<1>2. ASSUME NEW k \in Nat, k \in Good PROVE k + 1 \in Good
  <2>1. PICK g : MergedUpTo(stored, own, k, g)
    BY <1>2
  <2> DEFINE h == [j \in 0..(k + 1) |-> IF j = k + 1 THEN Upsert(g[k], own[k + 1]) ELSE g[j]]
  <2>2. \A j \in 0..k : g[j] = IF j = 0 THEN stored ELSE Upsert(g[j - 1], own[j])
    BY <2>1 DEF MergedUpTo
  <2>3. ASSUME NEW j \in 0..(k + 1)
        PROVE  h[j] = IF j = 0 THEN stored ELSE Upsert(h[j - 1], own[j])
    <3>1. CASE j = k + 1
      <4>1. h[j] = Upsert(g[k], own[k + 1]) /\ j # 0 /\ j - 1 = k
        BY <3>1
      <4>2. h[k] = g[k]
        OBVIOUS
      <4> QED
        BY <3>1, <4>1, <4>2
    <3>2. CASE j # k + 1
      <4>1. j \in 0..k /\ h[j] = g[j]
        BY <3>2
      <4>2. CASE j = 0
        BY <2>2, <4>1, <4>2
      <4>3. CASE j # 0
        <5>1. h[j - 1] = g[j - 1]
          BY <4>1, <4>3
        <5> QED
          BY <2>2, <4>1, <4>3, <5>1
      <4> QED
        BY <4>2, <4>3
    <3> QED
      BY <3>1, <3>2
  <2>4. h = [j \in 0..(k + 1) |-> h[j]]
    OBVIOUS
  <2> HIDE DEF h
  <2>5. MergedUpTo(stored, own, k + 1, h)
    BY <2>3, <2>4 DEF MergedUpTo
  <2> QED
    BY <2>5
<1> HIDE DEF Good
<1>3. Nat \subseteq Good
  BY <1>1, <1>2, NatSetInduction
<1> QED
  BY <1>3 DEF Good

(* Merging keeps the stored ids and adds the manager's, none twice. *)
LEMMA MergedIs ==
  ASSUME NEW S, NEW stored \in Seq(S), NEW own \in Seq(S), Distinct(stored)
  PROVE  /\ Merged(stored, own) \in Seq(S)
         /\ IdsOf(Merged(stored, own)) = IdsOf(stored) \cup IdsOf(own)
         /\ Distinct(Merged(stored, own))
<1> DEFINE L == Len(own)
           g == CHOOSE f : MergedUpTo(stored, own, L, f)
<1>1. L \in Nat /\ DOMAIN own = 1..L /\ \A k \in 1..L : own[k] \in S
  OBVIOUS
<1>2. Merged(stored, own) = g[L]
  BY DEF Merged, MergedUpTo
<1>3. MergedUpTo(stored, own, L, g)
  BY <1>1, MergesExist
<1> HIDE DEF L, g
<1>4. \A k \in 0..L : g[k] = IF k = 0 THEN stored ELSE Upsert(g[k - 1], own[k])
  BY <1>3 DEF MergedUpTo
<1> DEFINE First(k) == {own[j].id : j \in 1..k}
           Ok(k) == /\ g[k] \in Seq(S)
                    /\ IdsOf(g[k]) = IdsOf(stored) \cup First(k)
                    /\ Distinct(g[k])
           Good == {k \in Nat : k <= L => Ok(k)}
<1>5. 0 \in Good
  <2>1. g[0] = stored
    BY <1>1, <1>4
  <2>2. First(0) = {}
    OBVIOUS
  <2> QED
    BY <2>1, <2>2
<1>6. ASSUME NEW k \in Nat, k \in Good PROVE k + 1 \in Good
  <2>1. SUFFICES ASSUME k + 1 <= L PROVE Ok(k + 1)
    OBVIOUS
  <2>2. k <= L /\ k + 1 \in 0..L /\ k + 1 \in 1..L /\ k + 1 # 0 /\ (k + 1) - 1 = k
    BY <1>1, <2>1
  <2>3. Ok(k)
    BY <1>6, <2>2
  <2>4. g[k + 1] = Upsert(g[k], own[k + 1]) /\ own[k + 1] \in S
    BY <1>1, <1>4, <2>2
  <2>5. First(k + 1) = First(k) \cup {own[k + 1].id}
    <3>1. 1..(k + 1) = 1..k \cup {k + 1}
      OBVIOUS
    <3> QED
      BY <3>1
  <2> HIDE DEF First
  <2> DEFINE new == Upsert(g[k], own[k + 1])
  <2>6. /\ new \in Seq(S)
        /\ IdsOf(new) = IdsOf(g[k]) \cup {own[k + 1].id}
        /\ Distinct(new)
    <3> DEFINE prev == g[k]
               run == own[k + 1]
    <3>1. prev \in Seq(S) /\ run \in S /\ Distinct(prev)
      BY <2>3, <2>4
    <3> HIDE DEF prev, run
    <3>2. /\ Upsert(prev, run) \in Seq(S)
          /\ IdsOf(Upsert(prev, run)) = IdsOf(prev) \cup {run.id}
          /\ Distinct(Upsert(prev, run))
      BY <3>1, UpsertIds
    <3> QED
      BY <3>2 DEF prev, run
  <2> HIDE DEF new
  <2>7. g[k + 1] = new
    BY <2>4 DEF new
  <2> QED
    BY <2>3, <2>5, <2>6, <2>7
<1>7. Nat \subseteq Good
  <2> HIDE DEF Good
  <2> QED
    BY <1>5, <1>6, NatSetInduction
<1>8. Ok(L)
  BY <1>1, <1>7
<1>9. First(L) = IdsOf(own)
  BY <1>1 DEF IdsOf
<1> QED
  BY <1>2, <1>8, <1>9

(* What lists show of runs are their ids and times. *)
LEMMA SummariesOf ==
  ASSUME NEW list \in Seq(Run)
  PROVE  /\ Summaries(list) \in Seq(Summary)
         /\ IdsOf(Summaries(list)) = IdsOf(list)
         /\ Distinct(list) => Distinct(Summaries(list))
<1> DEFINE new == Summaries(list)
<1>1. DOMAIN list = 1..Len(list) /\ Len(list) \in Nat /\ \A i \in DOMAIN list : list[i] \in Run
  OBVIOUS
<1>2. \A run \in Run : normalize_run(run) \in Summary /\ normalize_run(run).id = run.id
  BY RepositoryAssumption DEF normalize_run, Summary, Run
<1>3. DOMAIN new = DOMAIN list /\ \A i \in DOMAIN list : new[i] = normalize_run(list[i])
  BY DEF Summaries
<1>4. \A i \in DOMAIN list : new[i] \in Summary /\ new[i].id = list[i].id
  BY <1>1, <1>2, <1>3
<1>5. new = [i \in 1..Len(list) |-> new[i]]
  BY <1>1 DEF Summaries
<1> HIDE DEF new
<1>6. new \in Seq(Summary)
  <2>1. new \in [1..Len(list) -> Summary]
    BY <1>1, <1>4, <1>5
  <2> QED
    BY <1>1, <2>1
<1>7. IdsOf(new) = IdsOf(list)
  BY <1>3, <1>4 DEF IdsOf
<1>8. Distinct(list) => Distinct(new)
  BY <1>3, <1>4 DEF Distinct
<1> QED
  BY <1>6, <1>7, <1>8 DEF new

(* What list_runs returns: the stored ids and the manager's, each once,    *)
(* newest first.                                                           *)
LEMMA ListIs ==
  ASSUME NEW stored \in Seq(Run), Distinct(stored), runs \in Seq(Run)
  PROVE  /\ IdsOf(list_runs(stored)) = IdsOf(stored) \cup IdsOf(runs)
         /\ \A i, j \in DOMAIN list_runs(stored) :
              i < j => /\ list_runs(stored)[i].id # list_runs(stored)[j].id
                       /\ list_runs(stored)[i].created_at >= list_runs(stored)[j].created_at
<1>1. Dated(Run) /\ Dated(Summary)
  BY RepositoryAssumption DEF Dated, Run, Summary
<1> DEFINE sorted == NewestFirst(stored)
           old == StoredRuns(stored)
           own == Summaries(runs)
           all == Merged(old, own)
           got == list_runs(stored)
<1>2. sorted \in Seq(Run) /\ IdsOf(sorted) = IdsOf(stored) /\ Distinct(sorted)
  BY <1>1, Sorted
<1>3. old \in Seq(Summary) /\ IdsOf(old) = IdsOf(stored) /\ Distinct(old)
  <2> HIDE DEF sorted
  <2>1. /\ Summaries(sorted) \in Seq(Summary)
        /\ IdsOf(Summaries(sorted)) = IdsOf(stored)
        /\ Distinct(Summaries(sorted))
    BY <1>2, SummariesOf
  <2> QED
    BY <2>1 DEF StoredRuns, sorted
<1>4. own \in Seq(Summary) /\ IdsOf(own) = IdsOf(runs)
  BY SummariesOf
<1>5. got = NewestFirst(all)
  BY DEF list_runs
<1> HIDE DEF sorted, old, own, got
<1>6. all \in Seq(Summary) /\ IdsOf(all) = IdsOf(stored) \cup IdsOf(runs) /\ Distinct(all)
  BY <1>3, <1>4, MergedIs
<1> HIDE DEF all
<1>7. /\ got \in Seq(Summary) /\ Len(got) = Len(all) /\ IdsOf(got) = IdsOf(all) /\ Distinct(got)
      /\ \A i, j \in DOMAIN all : i < j => got[i].created_at >= got[j].created_at
  BY <1>1, <1>5, <1>6, Sorted
<1>8. DOMAIN got = DOMAIN all /\ \A i \in DOMAIN got : i \in Nat
  BY <1>6, <1>7
<1>9. \A i, j \in DOMAIN got : i < j => got[i].id # got[j].id
  BY <1>7, <1>8 DEF Distinct
<1> QED
  BY <1>6, <1>7, <1>8, <1>9 DEF got

-----------------------------------------------------------------------------
(* What readers see.                                                       *)

Calls == [call : {"none", "list", "detail"}, id : {0} \cup Ids(Run), known : SUBSET Ids(Run)]

SessionTyped ==
  /\ runs \in Seq(Run)
  /\ persisted \in SUBSET Run
  /\ reading \in [Reader -> Calls]

(* No list of runs, in the file or loaded, has an id twice. *)
Apart == Distinct(file.runs) /\ \A t \in Thread : Distinct(loaded[t])

(* With these ids from the repository, the call misses nothing. *)
Covers(t, ids) ==
  /\ reading[t].call = "list" => reading[t].known \subseteq ids \cup IdsOf(runs)
  /\ reading[t].call = "detail" /\ reading[t].id \in reading[t].known =>
       reading[t].id \in ids

(* Until the file is given up, a reader misses nothing if it loads now, or *)
(* has loaded.                                                             *)
Seen ==
  \A t \in Reader : /\ at[t] = "load" => Covers(t, Ids(persisted))
                    /\ at[t] = "loaded" => Covers(t, IdsOf(loaded[t]))

ReadInv == SessionTyped /\ Apart /\ (~repaired => Seen)

LEMMA ReadInit == Init => ReadInv
<1> SUFFICES ASSUME Init PROVE ReadInv
  OBVIOUS
<1>1. <<>> \in Seq(Run) /\ NoCall \in Calls
  BY DEF NoCall, Calls
<1>2. SessionTyped
  BY <1>1 DEF Init, SessionTyped
<1>3. Distinct(<<>>)
  BY DEF Distinct
<1>4. Apart
  BY <1>3 DEF Init, Apart, Content
<1>5. Seen
  BY DEF Init, Seen, Thread
<1> QED
  BY <1>2, <1>4, <1>5 DEF ReadInv

(* Runs that are added are not forgotten. *)
LEMMA MoreRuns ==
  ASSUME SessionTyped, NEW run \in Run, runs' = Append(runs, run)
  PROVE  runs' \in Seq(Run) /\ IdsOf(runs) \subseteq IdsOf(runs')
<1>1. /\ runs' \in Seq(Run) /\ Len(runs) \in Nat
      /\ DOMAIN runs = 1..Len(runs) /\ DOMAIN runs' = 1..(Len(runs) + 1)
      /\ \A i \in 1..Len(runs) : runs'[i] = runs[i]
  BY DEF SessionTyped
<1> QED
  BY <1>1 DEF IdsOf

(* Steps that leave the calls of the readers alone and lose no run: what a *)
(* reader that stays where it is has seen still covers its call.           *)
LEMMA Covered ==
  ASSUME NEW t \in Reader, NEW ids, NEW more, ids \subseteq more,
         Covers(t, ids), reading'[t] = reading[t], IdsOf(runs) \subseteq IdsOf(runs')
  PROVE  /\ reading'[t].call = "list" => reading'[t].known \subseteq more \cup IdsOf(runs')
         /\ reading'[t].call = "detail" /\ reading'[t].id \in reading'[t].known =>
              reading'[t].id \in more
BY DEF Covers

(* A step of thread u that keeps the calls of the readers. *)
LEMMA SeenKept ==
  ASSUME RepoInv, SessionTyped, Seen, NEW u \in Thread, NEW to,
         at' = [at EXCEPT ![u] = to],
         u \in Reader => to \notin {"load", "loaded"},
         reading' = reading, IdsOf(runs) \subseteq IdsOf(runs'),
         Ids(persisted) \subseteq Ids(persisted'),
         \A t \in Thread : t # u => loaded'[t] = loaded[t]
  PROVE  Seen'
<1> SUFFICES ASSUME NEW t \in Reader
             PROVE  /\ at'[t] = "load" => Covers(t, Ids(persisted))'
                    /\ at'[t] = "loaded" => Covers(t, IdsOf(loaded[t]))'
  BY DEF Seen
<1>1. CASE t = u
  BY <1>1 DEF RepoInv, Typed
<1>2. CASE t # u
  <2>1. at'[t] = at[t] /\ loaded'[t] = loaded[t] /\ t \in Thread
    BY <1>2 DEF RepoInv, Typed, Thread
  <2>2. ASSUME at'[t] = "load" PROVE Covers(t, Ids(persisted))'
    <3>1. Covers(t, Ids(persisted))
      BY <2>1, <2>2 DEF Seen
    <3> QED
      BY <3>1, Covered DEF Covers
  <2>3. ASSUME at'[t] = "loaded" PROVE Covers(t, IdsOf(loaded[t]))'
    <3>1. Covers(t, IdsOf(loaded[t]))
      BY <2>1, <2>3 DEF Seen
    <3>2. IdsOf(loaded[t]) \subseteq IdsOf(loaded'[t])
      BY <2>1
    <3> QED
      BY <3>1, <3>2, Covered DEF Covers
  <2> QED
    BY <2>2, <2>3
<1> QED
  BY <1>1, <1>2

(* An empty list has no id twice. *)
LEMMA NoneTwice == Distinct(<<>>) /\ <<>> \in Seq(Run)
BY DEF Distinct

(* Steps of thread u that leave file and session alone, and after which it *)
(* has loaded nothing more and does not load.                              *)
LEMMA ReadAside ==
  ASSUME RepoInv, ReadInv, NEW u \in Thread, NEW to,
         at' = [at EXCEPT ![u] = to],
         u \in Reader => to \notin {"load", "loaded"},
         loaded' = loaded \/ loaded' = [loaded EXCEPT ![u] = <<>>],
         UNCHANGED <<file, persisted, repaired, session>>
  PROVE  ReadInv'
<1>1. SessionTyped'
  BY DEF ReadInv, SessionTyped, session
<1>2. \A t \in Thread : t # u => loaded'[t] = loaded[t]
  BY DEF RepoInv, Typed
<1>3. Apart'
  <2>1. \A t \in Thread : loaded'[t] = loaded[t] \/ loaded'[t] = <<>>
    BY DEF RepoInv, Typed
  <2> QED
    BY <2>1, NoneTwice DEF ReadInv, Apart
<1>4. ASSUME ~repaired PROVE Seen'
  BY <1>2, <1>4, SeenKept DEF ReadInv, session
<1> QED
  BY <1>1, <1>3, <1>4 DEF ReadInv

LEMMA ReadLoad ==
  ASSUME RepoInv, ReadInv, NEW t \in Thread, LoadRuns(t)
  PROVE  ReadInv'
<1>1. CASE file.is # "list"
  <2>1. /\ at' = [at EXCEPT ![t] = "repair"] /\ loaded' = loaded
        /\ UNCHANGED <<file, persisted, repaired, session>>
    BY <1>1 DEF LoadRuns, Moves, history
  <2> QED
    BY <2>1, ReadAside
<1>2. CASE file.is = "list"
  <2>0. /\ at[t] = "load" /\ at' = [at EXCEPT ![t] = "loaded"]
        /\ loaded' = [loaded EXCEPT ![t] = file.runs]
        /\ UNCHANGED <<file, persisted, repaired, runs, reading>>
    BY <1>2 DEF LoadRuns, Moves, history, session
  <2>1. SessionTyped'
    BY <2>0 DEF ReadInv, SessionTyped
  <2>2. Apart'
    BY <2>0 DEF ReadInv, Apart, RepoInv, Typed
  <2>3. ASSUME ~repaired PROVE Seen'
    <3>1. IdsOf(file.runs) = Ids(persisted)
      BY <1>2, <2>3 DEF RepoInv, Whole
    <3>2. Seen
      BY <2>3 DEF ReadInv
    <3>3. ASSUME NEW r \in Reader
          PROVE  /\ at'[r] = "load" => Covers(r, Ids(persisted))'
                 /\ at'[r] = "loaded" => Covers(r, IdsOf(loaded[r]))'
      <4>1. r \in Thread
        BY DEF Thread
      <4>2. CASE r = t
        <5>1. at'[r] = "loaded" /\ loaded'[r] = file.runs
          BY <2>0, <4>1, <4>2 DEF RepoInv, Typed
        <5>2. Covers(r, Ids(persisted))
          BY <2>0, <3>2, <4>2 DEF Seen
        <5> QED
          BY <2>0, <3>1, <5>1, <5>2 DEF Covers
      <4>3. CASE r # t
        <5>1. at'[r] = at[r] /\ loaded'[r] = loaded[r]
          BY <2>0, <4>1, <4>3 DEF RepoInv, Typed
        <5> QED
          BY <2>0, <3>2, <5>1 DEF Seen, Covers
      <4> QED
        BY <4>2, <4>3
    <3> QED
      BY <3>3 DEF Seen
  <2> QED
    BY <2>0, <2>1, <2>2, <2>3 DEF ReadInv
<1> QED
  BY <1>1, <1>2

(* From its first step on a repair leaves nothing to say of the readers. *)
LEMMA ReadRepair ==
  ASSUME RepoInv, ReadInv, NEW t \in Thread, RepairTruncate(t) \/ RepairWrite(t)
  PROVE  ReadInv'
<1>1. CASE RepairTruncate(t)
  <2>1. file' = Empty /\ repaired' = TRUE /\ UNCHANGED <<loaded, persisted, runs, reading>>
    BY <1>1 DEF RepairTruncate, session
  <2> QED
    BY <2>1, NoneTwice DEF ReadInv, SessionTyped, Apart, Empty
<1>2. CASE RepairWrite(t)
  <2>1. /\ at[t] = "reset" /\ file' \in {Content(<<>>), Mixed}
        /\ loaded' = [loaded EXCEPT ![t] = <<>>]
        /\ UNCHANGED <<persisted, repaired, runs, reading>>
    BY <1>2 DEF RepairWrite, Moves, Written, history, session
  <2>2. repaired'
    BY <2>1 DEF RepoInv, Whole, Typed
  <2>3. file'.runs = <<>>
    BY <2>1 DEF Content, Mixed
  <2>4. \A u \in Thread : loaded'[u] = loaded[u] \/ loaded'[u] = <<>>
    BY <2>1 DEF RepoInv, Typed
  <2> QED
    BY <2>1, <2>2, <2>3, <2>4, NoneTwice DEF ReadInv, SessionTyped, Apart
<1> QED
  BY <1>1, <1>2

LEMMA ReadTruncate ==
  ASSUME RepoInv, ReadInv, NEW w \in Worker, PersistTruncate(w)
  PROVE  ReadInv'
<1> DEFINE new == Upsert(loaded[w], RunOf[w])
<1>0. /\ at' = [at EXCEPT ![w] = "store"]
      /\ loaded' = [loaded EXCEPT ![w] = new]
      /\ file' = Empty
      /\ UNCHANGED <<persisted, repaired, runs, reading>>
  BY DEF PersistTruncate, Moves, history, session
<1>1. w \in Thread /\ w \notin Reader /\ RunOf[w] \in Run /\ loaded[w] \in Seq(Run)
  BY RepositoryAssumption DEF RepoInv, Typed, Thread, Run
<1>2. Distinct(new)
  BY <1>1, UpsertIds DEF ReadInv, Apart
<1> HIDE DEF new
<1>3. \A t \in Thread : loaded'[t] = IF t = w THEN new ELSE loaded[t]
  BY <1>0 DEF RepoInv, Typed
<1>4. SessionTyped' /\ Apart'
  BY <1>0, <1>2, <1>3, NoneTwice DEF ReadInv, SessionTyped, Apart, Empty
<1>5. ASSUME ~repaired PROVE Seen'
  BY <1>0, <1>1, <1>3, <1>5, SeenKept DEF ReadInv
<1> QED
  BY <1>0, <1>4, <1>5 DEF ReadInv

LEMMA ReadWrite ==
  ASSUME RepoInv, ReadInv, NEW w \in Worker, PersistWrite(w)
  PROVE  ReadInv'
<1>0. /\ at' = [at EXCEPT ![w] = "done"]
      /\ loaded' = [loaded EXCEPT ![w] = <<>>]
      /\ file' \in {Content(loaded[w]), Mixed}
      /\ persisted' = persisted \cup {RunOf[w]}
      /\ UNCHANGED <<repaired, runs, reading>>
  BY DEF PersistWrite, Moves, Written, session
<1>1. w \in Thread /\ w \notin Reader /\ RunOf[w] \in Run
  BY RepositoryAssumption DEF Thread, Run
<1>2. \A t \in Thread : loaded'[t] = IF t = w THEN <<>> ELSE loaded[t]
  BY <1>0 DEF RepoInv, Typed
<1>3. file'.runs = loaded[w] \/ file'.runs = <<>>
  BY <1>0 DEF Content, Mixed
<1>4. SessionTyped'
  BY <1>0, <1>1 DEF ReadInv, SessionTyped
<1>5. Apart'
  BY <1>1, <1>2, <1>3, NoneTwice DEF ReadInv, Apart
<1>6. ASSUME ~repaired PROVE Seen'
  <2>1. Ids(persisted) \subseteq Ids(persisted')
    BY <1>0 DEF Ids
  <2> QED
    BY <1>0, <1>1, <1>2, <1>6, <2>1, SeenKept DEF ReadInv
<1> QED
  BY <1>0, <1>4, <1>5, <1>6 DEF ReadInv

(* The manager's list grows. *)
LEMMA ReadFinishes ==
  ASSUME RepoInv, ReadInv, NEW w \in Worker, RunFinishes(w)
  PROVE  ReadInv'
<1>0. /\ at' = [at EXCEPT ![w] = "lock"] /\ runs' = Append(runs, RunOf[w])
      /\ UNCHANGED <<file, loaded, persisted, repaired, reading>>
  BY DEF RunFinishes, Moves, history
<1>1. w \in Thread /\ w \notin Reader /\ RunOf[w] \in Run
  BY RepositoryAssumption DEF Thread, Run
<1>2. runs' \in Seq(Run) /\ IdsOf(runs) \subseteq IdsOf(runs')
  BY <1>0, <1>1, MoreRuns DEF ReadInv
<1>3. SessionTyped' /\ Apart'
  BY <1>0, <1>2 DEF ReadInv, SessionTyped, Apart
<1>4. ASSUME ~repaired PROVE Seen'
  BY <1>0, <1>1, <1>2, <1>4, SeenKept DEF ReadInv
<1> QED
  BY <1>0, <1>3, <1>4 DEF ReadInv

(* A call of a reader begins.  One for a run that the manager does not     *)
(* have can know the run only from the repository.                         *)
LEMMA ReadBegins ==
  ASSUME RepoInv, ReadInv, NEW t \in Reader, ListBegin(t) \/ DetailBegin(t)
  PROVE  ReadInv'
<1>1. PICK call \in {"list", "detail"}, i \in {0} \cup Ids(Run) :
        ReadBegin(t, call, i) /\ (call = "detail" => i \notin IdsOf(runs))
  <2>1. CASE ListBegin(t)
    BY <2>1 DEF ListBegin
  <2>2. CASE DetailBegin(t)
    BY <2>2 DEF DetailBegin, Ids, Run
  <2> QED
    BY <2>1, <2>2
<1> DEFINE new == [call |-> call, id |-> i, known |-> Known]
<1>2. /\ at' = [at EXCEPT ![t] = "load"]
      /\ reading' = [reading EXCEPT ![t] = new]
      /\ UNCHANGED <<file, loaded, persisted, repaired, runs>>
  BY <1>1 DEF ReadBegin, Moves, history
<1>3. Known = Ids(persisted) \cup IdsOf(runs)
  BY DEF Known, Ids
<1>4. Known \subseteq Ids(Run)
  <2>1. \A j \in DOMAIN runs : runs[j] \in Run
    BY DEF ReadInv, SessionTyped
  <2> QED
    BY <1>3, <2>1 DEF ReadInv, SessionTyped, Ids, IdsOf
<1>5. new \in Calls /\ new.call = call /\ new.id = i /\ new.known = Known
  BY <1>4 DEF Calls
<1> HIDE DEF new
<1>6. SessionTyped' /\ Apart'
  BY <1>2, <1>5 DEF ReadInv, SessionTyped, Apart
<1>7. ASSUME ~repaired PROVE Seen'
  <2>1. ASSUME NEW r \in Reader
        PROVE  /\ at'[r] = "load" => Covers(r, Ids(persisted))'
               /\ at'[r] = "loaded" => Covers(r, IdsOf(loaded[r]))'
    <3>1. r \in Thread
      BY DEF Thread
    <3>2. CASE r = t
      <4>1. at'[r] = "load" /\ reading'[r] = new
        BY <1>2, <3>1, <3>2 DEF RepoInv, Typed, ReadInv, SessionTyped
      <4> QED
        BY <1>1, <1>2, <1>3, <1>5, <4>1 DEF Covers
    <3>3. CASE r # t
      <4>1. at'[r] = at[r] /\ reading'[r] = reading[r]
        BY <1>2, <3>1, <3>3 DEF RepoInv, Typed, ReadInv, SessionTyped
      <4> QED
        BY <1>2, <1>7, <4>1 DEF ReadInv, Seen, Covers
    <3> QED
      BY <3>2, <3>3
  <2> QED
    BY <2>1 DEF Seen
<1> QED
  BY <1>2, <1>6, <1>7 DEF ReadInv

LEMMA ReadReturns ==
  ASSUME RepoInv, ReadInv, NEW t \in Reader, ReaderReturn(t)
  PROVE  ReadInv'
<1>0. /\ at' = [at EXCEPT ![t] = "idle"]
      /\ loaded' = [loaded EXCEPT ![t] = <<>>]
      /\ reading' = [reading EXCEPT ![t] = NoCall]
      /\ UNCHANGED <<file, persisted, repaired, runs>>
  BY DEF ReaderReturn, history
<1>1. NoCall \in Calls
  BY DEF NoCall, Calls
<1>2. \A u \in Thread : loaded'[u] = IF u = t THEN <<>> ELSE loaded[u]
  BY <1>0 DEF RepoInv, Typed
<1>3. SessionTyped' /\ Apart'
  BY <1>0, <1>1, <1>2, NoneTwice DEF ReadInv, SessionTyped, Apart
<1>4. ASSUME ~repaired PROVE Seen'
  <2>1. ASSUME NEW r \in Reader
        PROVE  /\ at'[r] = "load" => Covers(r, Ids(persisted))'
               /\ at'[r] = "loaded" => Covers(r, IdsOf(loaded[r]))'
    <3>1. r \in Thread
      BY DEF Thread
    <3>2. CASE r = t
      BY <1>0, <3>1, <3>2 DEF RepoInv, Typed
    <3>3. CASE r # t
      <4>1. at'[r] = at[r] /\ reading'[r] = reading[r] /\ loaded'[r] = loaded[r]
        BY <1>0, <3>1, <3>3 DEF RepoInv, Typed, ReadInv, SessionTyped
      <4> QED
        BY <1>0, <1>4, <4>1 DEF ReadInv, Seen, Covers
    <3> QED
      BY <3>2, <3>3
  <2> QED
    BY <2>1 DEF Seen
<1> QED
  BY <1>0, <1>3, <1>4 DEF ReadInv

LEMMA ReadCrash ==
  ASSUME RepoInv, ReadInv, Crash
  PROVE  ReadInv'
<1>0. /\ \A t \in Thread : at'[t] \in {"idle", "done"} /\ loaded'[t] = <<>>
      /\ runs' = <<>> /\ reading' = [t \in Reader |-> NoCall]
      /\ UNCHANGED <<file, repaired, persisted>>
  BY DEF Crash
<1>1. NoCall \in Calls
  BY DEF NoCall, Calls
<1>2. SessionTyped' /\ Apart'
  BY <1>0, <1>1, NoneTwice DEF ReadInv, SessionTyped, Apart
<1>3. Seen'
  BY <1>0 DEF Seen, Thread
<1> QED
  BY <1>2, <1>3 DEF ReadInv

LEMMA ReadStep == RepoInv /\ ReadInv /\ [Next]_vars => ReadInv'
<1> SUFFICES ASSUME RepoInv, ReadInv, [Next]_vars PROVE ReadInv'
  OBVIOUS
<1>1. ASSUME NEW t \in Thread, IoError(t) PROVE ReadInv'
  <2>1. /\ at' = [at EXCEPT ![t] = "done"]
        /\ loaded' = [loaded EXCEPT ![t] = <<>>]
        /\ UNCHANGED <<file, persisted, repaired, session>>
    BY <1>1 DEF IoError, history
  <2> QED
    BY <2>1, ReadAside
<1>2. ASSUME NEW t \in Thread, Load(t) PROVE ReadInv'
  BY <1>1, <1>2, ReadLoad, ReadRepair DEF Load
<1>3. ASSUME NEW w \in Worker, PersistLock(w) PROVE ReadInv'
  <2>1. /\ at' = [at EXCEPT ![w] = "load"] /\ loaded' = loaded
        /\ UNCHANGED <<file, persisted, repaired, session>>
    BY <1>3 DEF PersistLock, Moves, history
  <2>2. w \in Thread /\ w \notin Reader
    BY RepositoryAssumption DEF Thread
  <2> QED
    BY <2>1, <2>2, ReadAside
<1>4. ASSUME NEW w \in Worker, RunFinishes(w) \/ PersistTruncate(w) \/ PersistWrite(w)
      PROVE  ReadInv'
  BY <1>4, ReadFinishes, ReadTruncate, ReadWrite
<1>5. ASSUME NEW t \in Reader, ListBegin(t) \/ DetailBegin(t) \/ ReaderReturn(t)
      PROVE  ReadInv'
  BY <1>5, ReadBegins, ReadReturns
<1>6. CASE UNCHANGED vars
  BY <1>6 DEF vars, history, session, ReadInv, SessionTyped, Apart, Seen, Covers
<1> QED
  BY <1>2, <1>3, <1>4, <1>5, <1>6, ReadCrash DEF Next, WorkerStep, ReaderStep, Thread

(* In every reachable state, with any number of workers and readers, what  *)
(* list_runs and get_run_detail return misses no run that was persisted or *)
(* known to the manager when the call began, although the file is read     *)
(* without a lock and before or after the manager, unless a file was given *)
(* up; and a list has every id once, the newest first.                     *)
THEOREM ReadersMissNothing == Spec => []ReadsComplete
<1>1. RepoInv /\ ReadInv => ReadsComplete
  <2> SUFFICES ASSUME RepoInv, ReadInv, NEW t \in Reader, at[t] = "loaded"
               PROVE  LET got == Returned(t) IN
                      /\ reading[t].call = "list" =>
                           /\ \A i, j \in DOMAIN got :
                                i < j => /\ got[i].id # got[j].id
                                         /\ got[i].created_at >= got[j].created_at
                           /\ ~repaired => reading[t].known \subseteq IdsOf(got)
                      /\ reading[t].call = "detail" /\ reading[t].id \in reading[t].known
                         /\ ~repaired => IdsOf(got) = {reading[t].id}
    BY DEF ReadsComplete
  <2> DEFINE stored == loaded[t]
             id == reading[t].id
  <2>1. stored \in Seq(Run) /\ Distinct(stored) /\ runs \in Seq(Run)
    BY DEF RepoInv, Typed, ReadInv, Apart, SessionTyped, Thread
  <2>2. ~repaired => Covers(t, IdsOf(stored))
    BY DEF ReadInv, Seen
  <2>3. /\ reading[t].call = "list" => Returned(t) = list_runs(stored)
        /\ reading[t].call = "detail" => Returned(t) = get_run(stored, id)
    BY DEF Returned
  <2> HIDE DEF stored, id
  <2>4. ASSUME reading[t].call = "list"
        PROVE  /\ \A i, j \in DOMAIN Returned(t) :
                    i < j => /\ Returned(t)[i].id # Returned(t)[j].id
                             /\ Returned(t)[i].created_at >= Returned(t)[j].created_at
               /\ ~repaired => reading[t].known \subseteq IdsOf(Returned(t))
    <3>1. /\ IdsOf(list_runs(stored)) = IdsOf(stored) \cup IdsOf(runs)
          /\ \A i, j \in DOMAIN list_runs(stored) :
               i < j => /\ list_runs(stored)[i].id # list_runs(stored)[j].id
                        /\ list_runs(stored)[i].created_at >= list_runs(stored)[j].created_at
      BY <2>1, ListIs
    <3> DEFINE got == list_runs(stored)
    <3> HIDE DEF got
    <3>2. Returned(t) = got
      BY <2>3, <2>4 DEF got
    <3> QED
      BY <2>2, <2>4, <3>1, <3>2 DEF Covers, got
  <2>5. ASSUME reading[t].call = "detail", id \in reading[t].known, ~repaired
        PROVE  IdsOf(Returned(t)) = {id}
    <3>1. id \in IdsOf(stored)
      BY <2>2, <2>5 DEF Covers, id
    <3>2. stored[Find(stored, id)].id = id
      BY <2>1, <3>1, Found
    <3>3. Returned(t) = <<stored[Find(stored, id)]>>
      BY <2>3, <2>5, <3>1 DEF get_run
    <3> DEFINE run == stored[Find(stored, id)]
    <3> HIDE DEF run
    <3>4. IdsOf(<<run>>) = {run.id}
      BY DEF IdsOf
    <3> QED
      BY <3>2, <3>3, <3>4 DEF run
  <2> QED
    BY <2>4, <2>5 DEF id
<1> QED
  BY <1>1, RepoInit, RepoStep, ReadInit, ReadStep, PTL DEF Spec

=============================================================================
