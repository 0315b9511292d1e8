---------------------------- MODULE DesktopServer ----------------------------
(***************************************************************************)
(* The server that the desktop shell runs (hkv-gui/src-tauri/src/): the    *)
(* manager of the child process (server_manager.rs), the poller of its     *)
(* INFO (info_poller.rs) and the commands that call them (state.rs,        *)
(* commands.rs).                                                           *)
(*                                                                         *)
(* Commands run concurrently.  The manager's mutex is held for a whole     *)
(* call, the 250 ms after a spawn and the wait after a kill included; the  *)
(* poller's mutex only for single assignments, so that those are atomic    *)
(* here; nothing is held between the calls that one command makes.         *)
(***************************************************************************)
EXTENDS Naturals, FiniteSets

CONSTANTS
  Caller,      \* threads that run commands
  NoCaller,    \* nobody
  Address,     \* where a server may be asked to listen
  DefaultAddress,
  MaxSpawns    \* bound: child processes

ASSUME DesktopAssumption == 
  NoCaller \notin Caller /\ DefaultAddress \in Address /\ MaxSpawns \in Nat

VARIABLES
  child,        \* each child process: "none", "running", "killed", "exited"
  address,      \* its HKV_ADDR
  process,      \* state.process: a child or 0
  last_error,   \* state.last_error
  mutex,        \* who holds the manager's mutex
  pc,           \* each caller's place
  polled,       \* the address that its info_snapshot polls
  hand,         \* the child it has spawned or taken out of the state
  answer,       \* the INFO that a poll has received
  snapshot,     \* the poller's last_snapshot: the child it is of, or 0
  poll_error,   \* is there a last_error of the poller
  given_up,     \* history: children a call has returned an error about and lost
  cleared       \* history: a stop has cleared the poller while no other call
                \* looked at the server, and no server was started since

manager == <<child, address, process, last_error, mutex, given_up>>
caller == <<pc, polled, hand, answer>>
poller == <<snapshot, poll_error>>
desktopVars == <<manager, caller, poller, cleared>>

Child == 1..MaxSpawns

NoAnswer == [of |-> 0, lines |-> {}]

PollerInit == snapshot = 0 /\ poll_error = FALSE

DesktopInit ==
  /\ child = [k \in Child |-> "none"]
  /\ address = [k \in Child |-> DefaultAddress]
  /\ process = 0 /\ last_error = "none" /\ mutex = NoCaller
  /\ pc = [c \in Caller |-> "idle"]
  /\ polled = [c \in Caller |-> DefaultAddress]
  /\ hand = [c \in Caller |-> 0]
  /\ answer = [c \in Caller |-> NoAnswer]
  /\ PollerInit
  /\ given_up = {} /\ cleared = FALSE

Alive(k) == child[k] \in {"running", "killed"}

Go(c, from, to) == pc[c] = from /\ pc' = [pc EXCEPT ![c] = to]

(* A child exits by itself, or because it was killed. *)
Exit(k) ==
  /\ Alive(k)
  /\ child' = [child EXCEPT ![k] = "exited"]
  /\ UNCHANGED <<address, process, last_error, mutex, given_up, caller, poller, cleared>>

(* A command arrives. *)
Begin(c) ==
  /\ \E command \in {"start", "stop", "status", "info"} : Go(c, "idle", command)
  /\ UNCHANGED <<manager, polled, hand, answer, poller, cleared>>

-----------------------------------------------------------------------------
(* ServerManager::start.                                                   *)

(* A process is there and runs: start returns its status; or it cannot be  *)
(* inspected: start returns the error.                                     *)
StartAlready(c) ==
  /\ mutex = NoCaller /\ process # 0
  /\ Go(c, "start", "idle")
  /\ \/ Alive(process) /\ UNCHANGED last_error
     \/ last_error' = "inspect"
  /\ UNCHANGED <<child, address, process, mutex, given_up, polled, hand, answer,
                 poller, cleared>>

Vacant == process \in {0} \cup {k \in Child : child[k] = "exited"}

(* None is there, or an exited one, which is forgotten; spawning fails. *)
StartFails(c) ==
  /\ mutex = NoCaller /\ Vacant
  /\ Go(c, "start", "idle")
  /\ process' = 0
  /\ UNCHANGED <<child, address, last_error, mutex, given_up, polled, hand,
                 answer, poller, cleared>>

(* A child with the requested address, or the default one. *)
Spawned(c, k) ==
  /\ child[k] = "none" /\ \A j \in 1..(k - 1) : child[j] # "none"
  /\ child' = [child EXCEPT ![k] = "running"]
  /\ \E a \in Address : address' = [address EXCEPT ![k] = a]
  /\ hand' = [hand EXCEPT ![c] = k]
  /\ Go(c, "start", "window")
  /\ process' = 0

(* Mutant of StartSpawn: the mutex is not held while the child comes up. *)
StartSpawn_Unlocked(c) ==
  /\ mutex = NoCaller /\ Vacant
  /\ \E k \in Child : Spawned(c, k)
  /\ UNCHANGED <<last_error, mutex, given_up, polled, answer, poller, cleared>>

(* The child is spawned, and start sleeps. *)
StartSpawn(c) ==
  /\ mutex = NoCaller /\ Vacant
  /\ mutex' = c
  /\ \E k \in Child : Spawned(c, k)
  /\ UNCHANGED <<last_error, given_up, polled, answer, poller, cleared>>

(* After EARLY_EXIT_WINDOW: the child has exited, cannot be inspected (it  *)
(* is dropped, and may run on), or is the managed process from now on.     *)
StartReady(c) ==
  LET k == hand[c] IN
  /\ Go(c, "window", "idle")
  /\ hand' = [hand EXCEPT ![c] = 0]
  /\ mutex' = NoCaller
  /\ \/ /\ child[k] = "exited"
        /\ last_error' = "early exit"
        /\ UNCHANGED <<process, given_up, cleared>>
     \/ /\ given_up' = given_up \cup {k}
        /\ UNCHANGED <<process, last_error, cleared>>
     \/ /\ Alive(k)
        /\ process' = k /\ last_error' = "none" /\ cleared' = FALSE
        /\ UNCHANGED given_up
  /\ UNCHANGED <<child, address, polled, answer, poller>>

-----------------------------------------------------------------------------
(* AppState::stop_server: ServerManager::stop, then InfoPoller::clear.     *)

(* No process, or an exited one: stop is through. *)
StopNothing(c) ==
  /\ mutex = NoCaller /\ Vacant
  /\ Go(c, "stop", "clear")
  /\ process' = 0
  /\ last_error' = IF process = 0 THEN last_error ELSE "already exited"
  /\ UNCHANGED <<child, address, mutex, given_up, polled, hand, answer, poller, cleared>>

(* The process, which has been taken out of the state, cannot be inspected *)
(* or killed: stop returns the error, and stop_server does not clear.      *)
StopFails(c) ==
  /\ mutex = NoCaller /\ process # 0
  /\ Go(c, "stop", "idle")
  /\ process' = 0
  /\ given_up' = given_up \cup {process}
  /\ UNCHANGED <<child, address, last_error, mutex, polled, hand, answer, poller, cleared>>

(* Mutant of StopKill: stop waits for a child it has not killed. *)
StopKill_WaitOnly(c) ==
  /\ mutex = NoCaller /\ process # 0 /\ Alive(process)
  /\ mutex' = c
  /\ Go(c, "stop", "wait")
  /\ hand' = [hand EXCEPT ![c] = process]
  /\ process' = 0
  /\ UNCHANGED <<child, address, last_error, given_up, polled, answer, poller, cleared>>

(* It is killed. *)
StopKill(c) ==
  /\ mutex = NoCaller /\ process # 0 /\ Alive(process)
  /\ mutex' = c
  /\ Go(c, "stop", "wait")
  /\ hand' = [hand EXCEPT ![c] = process]
  /\ child' = [child EXCEPT ![process] = "killed"]
  /\ process' = 0
  /\ UNCHANGED <<address, last_error, given_up, polled, answer, poller, cleared>>

(* It is reaped. *)
StopWait(c) ==
  /\ Go(c, "wait", "clear")
  /\ child[hand[c]] = "exited"
  /\ hand' = [hand EXCEPT ![c] = 0]
  /\ mutex' = NoCaller
  /\ UNCHANGED <<child, address, process, last_error, given_up, polled, answer,
                 poller, cleared>>

(* wait fails, and stop_server returns the error. *)
StopWaitFails(c) ==
  /\ Go(c, "wait", "idle")
  /\ hand' = [hand EXCEPT ![c] = 0]
  /\ given_up' = given_up \cup {hand[c]}
  /\ mutex' = NoCaller
  /\ UNCHANGED <<child, address, process, last_error, polled, answer, poller, cleared>>

(* Is some other command between reading the status and storing its INFO? *)
Polling == \E c \in Caller : pc[c] \in {"poll", "store"}

(* InfoPoller::clear *)
clear == snapshot' = 0 /\ poll_error' = FALSE

Clear(c) ==
  /\ Go(c, "clear", "idle")
  /\ clear
  /\ cleared' = (process = 0 /\ mutex = NoCaller /\ ~Polling)
  /\ UNCHANGED <<manager, polled, hand, answer>>

-----------------------------------------------------------------------------
(* ServerManager::status, for server_status and for info_snapshot.         *)

(* Mutant of AfterStatus: the server is polled whether it runs or not. *)
AfterStatus_PollsAlways(c, running) == IF pc[c] = "info" THEN "poll" ELSE "idle"

(* server_status then reads the poller's error and returns; info_snapshot  *)
(* goes on to poll the address of a running server, and returns the last   *)
(* snapshot otherwise.                                                     *)
AfterStatus(c, running) == IF pc[c] = "info" /\ running THEN "poll" ELSE "idle"

StatusRunning(c) ==
  /\ mutex = NoCaller /\ process # 0 /\ Alive(process)
  /\ pc[c] \in {"status", "info"} /\ Go(c, pc[c], AfterStatus(c, TRUE))
  /\ polled' = IF pc[c] = "info" THEN [polled EXCEPT ![c] = address[process]] ELSE polled
  /\ UNCHANGED <<manager, hand, answer, poller, cleared>>

StatusStopped(c) ==
  /\ mutex = NoCaller
  /\ pc[c] \in {"status", "info"} /\ Go(c, pc[c], AfterStatus(c, FALSE))
  /\ \/ process = 0 /\ UNCHANGED <<process, last_error>>
     \/ process # 0 /\ child[process] = "exited" /\ process' = 0 /\ last_error' = "exited"
     \/ process # 0 /\ last_error' = "inspect" /\ UNCHANGED process
  /\ UNCHANGED <<child, address, mutex, given_up, polled, hand, answer, poller, cleared>>

(* parse_info_snapshot: the role must be there, and every number of a      *)
(* known key must parse.                                                   *)
parse_info_snapshot(lines) == "role" \in lines /\ "bad_number" \notin lines

(* INFO of the address: a live child that was asked to listen there        *)
(* answers, or the connection or the call fails, as it does when there is  *)
(* none.                                                                   *)
info(a) ==
  {NoAnswer} \cup [of: {k \in Child : Alive(k) /\ address[k] = a},
                   lines: SUBSET {"role", "bad_number"}]

Poll(c) ==
  /\ Go(c, "poll", "store")
  /\ \E raw \in info(polled[c]) : answer' = [answer EXCEPT ![c] = raw]
  /\ UNCHANGED <<manager, polled, hand, poller, cleared>>

record_error == poll_error' = TRUE /\ UNCHANGED snapshot

(* What was received, if it parses, replaces what there is. *)
PollStore(c) ==
  /\ Go(c, "store", "idle")
  /\ IF parse_info_snapshot(answer[c].lines)
     THEN snapshot' = answer[c].of /\ poll_error' = FALSE
     ELSE record_error
  /\ answer' = [answer EXCEPT ![c] = NoAnswer]
  /\ polled' = [polled EXCEPT ![c] = DefaultAddress]
  /\ UNCHANGED <<manager, hand, cleared>>

-----------------------------------------------------------------------------
Step(c) ==
  \/ StartAlready(c) \/ StartFails(c) \/ StartSpawn(c) \/ StartReady(c)
  \/ StopNothing(c) \/ StopFails(c) \/ StopKill(c) \/ StopWait(c) \/ Clear(c)
  \/ StatusRunning(c) \/ StatusStopped(c) \/ Poll(c) \/ PollStore(c)

DesktopNext ==
  \/ \E k \in Child : Exit(k)
  \/ \E c \in Caller : Begin(c) \/ Step(c) \/ StopWaitFails(c)

(* Threads run, and what was killed ends; a server need not end by itself, *)
(* and nobody has to call.  The mutex is held across steps only for a      *)
(* spawn or for a kill, of which there are finitely many, so that it need  *)
(* not be fair.                                                            *)
Fairness ==
  /\ \A c \in Caller : WF_desktopVars(Step(c))
  /\ \A k \in Child : WF_desktopVars(child[k] = "killed" /\ Exit(k))

DesktopSpec == DesktopInit /\ [][DesktopNext]_desktopVars

FairSpec == DesktopSpec /\ Fairness

-----------------------------------------------------------------------------
(* Properties.                                                             *)

(* Commands that overlap never leave two servers running: there is one at  *)
(* most, and none when the manager knows of none, except for those that a  *)
(* call has lost and returned an error about.                              *)
OneServer ==
  LET alive == {k \in Child : Alive(k)} \ given_up
  IN /\ Cardinality(alive) <= 1
     /\ process = 0 /\ mutex = NoCaller => alive = {}

(* After a stop the front end is shown neither the INFO nor the error of   *)
(* the server that was stopped, until another is started, unless some      *)
(* other command had seen it run when the poller was cleared.              *)
StopClears == cleared => snapshot = 0 /\ ~poll_error

(* Every command returns: the manager's mutex is always given back, and a  *)
(* stop does not wait for a server that goes on.                           *)
CommandsReturn == \A c \in Caller : []<>(pc[c] = "idle")

=============================================================================
