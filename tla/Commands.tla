------------------------------ MODULE Commands ------------------------------
(***************************************************************************)
(* Command dispatch of the server (hkv-server/src/server.rs), the log of   *)
(* accesses it feeds (observation.rs) and the ranking of hot keys computed *)
(* from that log (observation/exact.rs).                                   *)
(*                                                                         *)
(* Connections run commands side by side.  A command plans its events and  *)
(* takes their timestamps, calls the engine - DEL once for each key - and, *)
(* unless the reply is an error, pushes the events one by one before the   *)
(* reply is sent.  The engine is the KVEngine trait: each call is atomic,  *)
(* and any call may fail.  Arguments are opaque words; Number gives the    *)
(* value of those that are digits.                                         *)
(***************************************************************************)
EXTENDS Integers, Sequences, FiniteSets, FiniteSetsExt, SequencesExt

CONSTANTS
  Conn,          \* the connections
  Key,           \* keys, ordered as bytes are: integers here
  Requests,      \* the argument vectors received
  Number,        \* parse_u64 of the words that are numbers
  Size,          \* the length of each value
  UnitsPerSec,   \* clock units in a second
  MaxCommands,   \* bound: commands received altogether
  MaxClock       \* bound: the last instant

ASSUME CommandsAssumption ==
  /\ IsFiniteSet(Conn)
  /\ Key \subseteq Int
  /\ Number \in [DOMAIN Number -> Nat]
  /\ Size \in [DOMAIN Size -> Nat] /\ IsFiniteSet(DOMAIN Size) /\ DOMAIN Size # {}
  /\ UnitsPerSec \in Nat \ {0}
  /\ MaxCommands \in Nat /\ MaxClock \in Nat

VARIABLES
  clock,
  store,     \* the engine's entries
  log,       \* SharedObservationLog.events
  pc,        \* where each connection's dispatch_command is
  args,      \* its command
  planned,   \* events not yet recorded
  keys,      \* keys DEL has still to delete
  removed,   \* keys DEL has counted so far
  reply,     \* its response
  count,     \* commands received
  id, after, \* history: its number, and the commands answered before it
  origin,    \* history: number and predecessors of each event in the log
  created,   \* history: how often a key that was not there was written
  answered,  \* history: the sum of the counts DEL answered
  finished,  \* history: the commands that have been answered
  touched    \* history: accesses of the commands answered without an error

engine == <<store, created>>
history == <<id, after, origin, answered, finished, touched>>
vars == <<clock, store, log, pc, args, planned, keys, removed, reply, count,
          id, after, origin, created, answered, finished, touched>>

Access == {"Read", "Write"}   \* AccessClass

None == 0
NoEntry == [value |-> "none", deadline |-> None]
NoReply == [is |-> "none"]

Init ==
  /\ clock = 1
  /\ store = [k \in Key |-> NoEntry]
  /\ log = <<>>
  /\ pc = [c \in Conn |-> "idle"]
  /\ args = [c \in Conn |-> <<>>]
  /\ planned = [c \in Conn |-> <<>>]
  /\ keys = [c \in Conn |-> <<>>]
  /\ removed = [c \in Conn |-> 0]
  /\ reply = [c \in Conn |-> NoReply]
  /\ count = 0
  /\ id = [c \in Conn |-> 0]
  /\ after = [c \in Conn |-> {}]
  /\ origin = <<>>
  /\ created = 0
  /\ answered = 0
  /\ finished = {}
  /\ touched = [k \in Key |-> [x \in Access |-> 0]]

-----------------------------------------------------------------------------
(* Words and replies.                                                      *)

Upper == [w \in {"get", "ex"} |-> IF w = "get" THEN "GET" ELSE "EX"]

eq_ignore_ascii_case(a, b) == a = b \/ (a \in DOMAIN Upper /\ Upper[a] = b)

is_number(word) == word \in DOMAIN Number
parse_u64(word) == Number[word]

resp_simple(text) == [is |-> "simple", text |-> text]
resp_error == [is |-> "error"]
resp_integer(n) == [is |-> "integer", n |-> n]
resp_bulk(data) == [is |-> "bulk", data |-> data]
resp_null == [is |-> "null"]
is_error_response(r) == r.is = "error"

Is(a, name) == a # <<>> /\ eq_ignore_ascii_case(a[1], name)

WithExpiry(a) == Len(a) = 5 /\ eq_ignore_ascii_case(a[4], "EX")

(* Requests are vectors of words; any word may be a key or a value. *)
ASSUME RequestsAssumption ==
  \A a \in Requests :
    /\ Len(a) \in Nat /\ a = [i \in 1..Len(a) |-> a[i]]
    /\ Is(a, "GET") \/ Is(a, "SET") \/ Is(a, "EXPIRE") \/ Is(a, "TTL") =>
         Len(a) < 2 \/ a[2] \in Key
    /\ Is(a, "SET") => Len(a) < 3 \/ a[3] \in DOMAIN Size
    /\ Is(a, "DEL") => Tail(a) \in Seq(Key)

-----------------------------------------------------------------------------
(* The events a command will record if it succeeds, with the instant at    *)
(* which it began.                                                         *)

ReadEvent(cmd, key) ==
  [command |-> cmd, key |-> key, access |-> "Read", value_size |-> None,
   timestamp |-> clock]
WriteEvent(cmd, key, size) ==
  [command |-> cmd, key |-> key, access |-> "Write", value_size |-> size,
   timestamp |-> clock]

(* Mutant of planned_observations: only the first key of a DEL. *)
planned_observations_FirstKey(a) ==
  CASE Is(a, "GET") /\ Len(a) = 2 -> <<ReadEvent("Get", a[2])>>
    [] Is(a, "SET") /\ (Len(a) = 3 \/ WithExpiry(a)) ->
         <<WriteEvent("Set", a[2], Size[a[3]])>>
    [] Is(a, "DEL") /\ Len(a) > 1 -> <<WriteEvent("Delete", a[2], None)>>
    [] Is(a, "EXPIRE") /\ Len(a) = 3 -> <<WriteEvent("Expire", a[2], None)>>
    [] Is(a, "TTL") /\ Len(a) = 2 -> <<ReadEvent("Ttl", a[2])>>
    [] OTHER -> <<>>

planned_observations(a) ==
  CASE Is(a, "GET") /\ Len(a) = 2 -> <<ReadEvent("Get", a[2])>>
    [] Is(a, "SET") /\ (Len(a) = 3 \/ WithExpiry(a)) ->
         <<WriteEvent("Set", a[2], Size[a[3]])>>
    [] Is(a, "DEL") -> [i \in 1..(Len(a) - 1) |-> WriteEvent("Delete", a[i + 1], None)]
    [] Is(a, "EXPIRE") /\ Len(a) = 3 -> <<WriteEvent("Expire", a[2], None)>>
    [] Is(a, "TTL") /\ Len(a) = 2 -> <<ReadEvent("Ttl", a[2])>>
    [] OTHER -> <<>>

-----------------------------------------------------------------------------
(* The engine, and the handlers that call it.                              *)

Live(k) == store[k] # NoEntry /\ (store[k].deadline = None \/ clock < store[k].deadline)

Deadline(seconds) == clock + seconds * UnitsPerSec

Put(k, v, deadline) ==
  /\ store' = [store EXCEPT ![k] = [value |-> v, deadline |-> deadline]]
  /\ created' = IF Live(k) THEN created ELSE created + 1

Respond(c, r) ==
  /\ reply' = [reply EXCEPT ![c] = r]
  /\ pc' = [pc EXCEPT ![c] = "observe"]

(* A reply that needs no engine call, or follows a call that failed. *)
Answer(c, r) == Respond(c, r) /\ UNCHANGED <<engine, keys, removed>>

handle_ping(c) ==
  Answer(c, CASE Len(args[c]) = 1 -> resp_simple("PONG")
              [] Len(args[c]) = 2 -> resp_bulk(args[c][2])
              [] OTHER -> resp_error)

handle_get(c) ==
  LET k == args[c][2] IN
  \/ Len(args[c]) # 2 /\ Answer(c, resp_error)
  \/ /\ Len(args[c]) = 2
     /\ \/ Answer(c, IF Live(k) THEN resp_bulk(store[k].value) ELSE resp_null)
        \/ Answer(c, resp_error)

handle_set(c) ==
  LET a == args[c]
      plain == Len(a) = 3
      timed == WithExpiry(a) /\ is_number(a[5])
  IN
  \/ ~plain /\ ~timed /\ Answer(c, resp_error)
  \/ /\ plain \/ timed
     /\ \/ /\ Put(a[2], a[3], IF plain THEN None ELSE Deadline(parse_u64(a[5])))
           /\ Respond(c, resp_simple("OK"))
           /\ UNCHANGED <<keys, removed>>
        \/ Answer(c, resp_error)

(* Mutant of handle_del: every key is counted. *)
handle_del_CountAll(c) ==
  \/ Len(args[c]) < 2 /\ Answer(c, resp_error)
  \/ /\ Len(args[c]) >= 2 /\ keys[c] # <<>>
     /\ store' = [store EXCEPT ![Head(keys[c])] = NoEntry]
     /\ removed' = [removed EXCEPT ![c] = @ + 1]
     /\ keys' = [keys EXCEPT ![c] = Tail(@)]
     /\ UNCHANGED <<created, pc, reply>>
  \/ /\ Len(args[c]) >= 2 /\ keys[c] = <<>>
     /\ Answer(c, resp_integer(removed[c]))

(* One key after another; the first failing call ends it with an error,    *)
(* and what was deleted before stays deleted.                              *)
handle_del(c) ==
  \/ Len(args[c]) < 2 /\ Answer(c, resp_error)
  \/ /\ Len(args[c]) >= 2 /\ keys[c] # <<>>
     /\ \/ /\ store' = [store EXCEPT ![Head(keys[c])] = NoEntry]
           /\ removed' = [removed EXCEPT ![c] = IF Live(Head(keys[c])) THEN @ + 1 ELSE @]
           /\ keys' = [keys EXCEPT ![c] = Tail(@)]
           /\ UNCHANGED <<created, pc, reply>>
        \/ Answer(c, resp_error)
  \/ /\ Len(args[c]) >= 2 /\ keys[c] = <<>>
     /\ Answer(c, resp_integer(removed[c]))

handle_expire(c) ==
  LET a == args[c]
      k == a[2]
      valid == Len(a) = 3 /\ is_number(a[3])
  IN
  \/ ~valid /\ Answer(c, resp_error)
  \/ /\ valid /\ Live(k)
     /\ store' = [store EXCEPT ![k].deadline = Deadline(parse_u64(a[3]))]
     /\ Respond(c, resp_integer(1))
     /\ UNCHANGED <<created, keys, removed>>
  \/ valid /\ ~Live(k) /\ Answer(c, resp_integer(0))
  \/ valid /\ Answer(c, resp_error)

(* The remaining time is cut to whole seconds. *)
handle_ttl(c) ==
  LET k == args[c][2] IN
  \/ Len(args[c]) # 2 /\ Answer(c, resp_error)
  \/ /\ Len(args[c]) = 2
     /\ \/ Answer(c, resp_integer(
             CASE ~Live(k) -> -2
               [] Live(k) /\ store[k].deadline = None -> -1
               [] OTHER -> (store[k].deadline - clock) \div UnitsPerSec))
        \/ Answer(c, resp_error)

(* The snapshot of the metrics as one bulk string (see Metrics). *)
handle_info(c) == Answer(c, resp_bulk("info"))

Named == {"PING", "GET", "SET", "DEL", "EXPIRE", "TTL", "INFO"}

-----------------------------------------------------------------------------
(* dispatch_command: the command, its events, its engine calls.            *)

Receive(c) ==
  /\ pc[c] = "idle"
  /\ count < MaxCommands
  /\ count' = count + 1
  /\ \E a \in Requests :
       /\ args' = [args EXCEPT ![c] = a]
       /\ planned' = [planned EXCEPT ![c] = planned_observations(a)]
       /\ keys' = [keys EXCEPT ![c] = IF Is(a, "DEL") THEN Tail(a) ELSE <<>>]
  /\ removed' = [removed EXCEPT ![c] = 0]
  /\ id' = [id EXCEPT ![c] = count + 1]
  /\ after' = [after EXCEPT ![c] = finished]
  /\ pc' = [pc EXCEPT ![c] = "dispatch"]
  /\ UNCHANGED <<clock, engine, log, reply, origin, answered, finished, touched>>

dispatch_command(c) ==
  /\ pc[c] = "dispatch"
  /\ \/ Is(args[c], "PING") /\ handle_ping(c)
     \/ Is(args[c], "GET") /\ handle_get(c)
     \/ Is(args[c], "SET") /\ handle_set(c)
     \/ Is(args[c], "DEL") /\ handle_del(c)
     \/ Is(args[c], "EXPIRE") /\ handle_expire(c)
     \/ Is(args[c], "TTL") /\ handle_ttl(c)
     \/ Is(args[c], "INFO") /\ handle_info(c)
     \/ (\A n \in Named : ~Is(args[c], n)) /\ Answer(c, resp_error)
  /\ UNCHANGED <<clock, log, args, planned, count, history>>

(* SharedObservationLog::record_observation: one push under its mutex. *)
record_observation(c, event) ==
  /\ log' = Append(log, event)
  /\ origin' = Append(origin, [id |-> id[c], after |-> after[c]])

(* Mutant of observe_command_result: the reply is sent before the events   *)
(* are recorded.                                                           *)
observe_command_result_Late(c) ==
  /\ \/ /\ pc[c] = "observe"
        /\ pc' = [pc EXCEPT ![c] = "reply"]
        /\ planned' = [planned EXCEPT ![c] =
                         IF is_error_response(reply[c]) THEN <<>> ELSE @]
        /\ UNCHANGED <<log, origin>>
     \/ /\ pc[c] = "idle" /\ planned[c] # <<>>
        /\ record_observation(c, Head(planned[c]))
        /\ planned' = [planned EXCEPT ![c] = Tail(@)]
        /\ UNCHANGED pc
  /\ UNCHANGED <<clock, engine, args, keys, removed, reply, count, id, after,
                 answered, finished, touched>>

(* After the handler: the events, one by one, unless it answered an error. *)
observe_command_result(c) ==
  /\ pc[c] = "observe"
  /\ IF ~is_error_response(reply[c]) /\ planned[c] # <<>>
     THEN /\ record_observation(c, Head(planned[c]))
          /\ planned' = [planned EXCEPT ![c] = Tail(@)]
          /\ UNCHANGED pc
     ELSE /\ pc' = [pc EXCEPT ![c] = "reply"]
          /\ planned' = [planned EXCEPT ![c] = <<>>]
          /\ UNCHANGED <<log, origin>>
  /\ UNCHANGED <<clock, engine, args, keys, removed, reply, count, id, after,
                 answered, finished, touched>>

(* How often command a, if it succeeds, reads or writes key k. *)
Touches(a, k, x) ==
  CASE Is(a, "GET") \/ Is(a, "TTL") -> IF x = "Read" /\ a[2] = k THEN 1 ELSE 0
    [] Is(a, "SET") \/ Is(a, "EXPIRE") -> IF x = "Write" /\ a[2] = k THEN 1 ELSE 0
    [] Is(a, "DEL") /\ x = "Write" -> Cardinality({i \in 2..Len(a) : a[i] = k})
    [] OTHER -> 0

(* The response is written to the peer. *)
Reply(c) ==
  LET a == args[c]
      ok == ~is_error_response(reply[c])
  IN
  /\ pc[c] = "reply"
  /\ pc' = [pc EXCEPT ![c] = "idle"]
  /\ finished' = finished \cup {id[c]}
  /\ answered' = IF ok /\ Is(a, "DEL") THEN answered + reply[c].n ELSE answered
  /\ removed' = [removed EXCEPT ![c] = 0]
  /\ touched' = IF ~ok THEN touched
                ELSE [k \in Key |-> [x \in Access |->
                                       touched[k][x] + Touches(a, k, x)]]
  /\ args' = [args EXCEPT ![c] = <<>>]
  /\ reply' = [reply EXCEPT ![c] = NoReply]
  /\ UNCHANGED <<clock, engine, log, planned, keys, count, id, after, origin>>

Tick ==
  /\ clock < MaxClock
  /\ clock' = clock + 1
  /\ UNCHANGED <<store, log, pc, args, planned, keys, removed, reply, count,
                 created, history>>

Quiet == \A c \in Conn : pc[c] = "idle"

Done == Quiet /\ count = MaxCommands /\ clock = MaxClock /\ UNCHANGED vars

Next ==
  \/ \E c \in Conn :
       Receive(c) \/ dispatch_command(c) \/ observe_command_result(c) \/ Reply(c)
  \/ Tick
  \/ Done

Spec == Init /\ [][Next]_vars

-----------------------------------------------------------------------------
(* ExactHotnessEvaluator and ExactObservationCounter over a list of events *)

(* ExactObservationCounter: one more event. *)
Counted(total, event) ==
  [total_events |-> total.total_events + 1,
   reads |-> total.reads + IF event.access = "Read" THEN 1 ELSE 0,
   writes |-> total.writes + IF event.access = "Write" THEN 1 ELSE 0,
   known_value_bytes |-> total.known_value_bytes + event.value_size]

ExactCounter(s) ==
  FoldLeft(Counted, [total_events |-> 0, reads |-> 0, writes |-> 0,
                     known_value_bytes |-> 0], s)

Events(s, k, access) == Cardinality({i \in DOMAIN s : s[i].key = k /\ s[i].access = access})

(* from_events: the counts of every key that occurs. *)
from_events(s) ==
  [k \in {s[i].key : i \in DOMAIN s} |->
     [read_accesses |-> Events(s, k, "Read"),
      write_accesses |-> Events(s, k, "Write"),
      total_accesses |-> Events(s, k, "Read") + Events(s, k, "Write")]]

(* Mutant of Hotter: the keys are compared the way round the counts are. *)
Hotter_LargerKey(per_key, j, k) ==
  \/ per_key[j].total_accesses > per_key[k].total_accesses
  \/ /\ per_key[j].total_accesses = per_key[k].total_accesses
     /\ \/ per_key[j].read_accesses > per_key[k].read_accesses
        \/ per_key[j].read_accesses = per_key[k].read_accesses /\ j > k

(* The order of the ranking.  With the same total and the same reads the   *)
(* writes are the same too.                                                *)
Hotter(per_key, j, k) ==
  \/ per_key[j].total_accesses > per_key[k].total_accesses
  \/ /\ per_key[j].total_accesses = per_key[k].total_accesses
     /\ \/ per_key[j].read_accesses > per_key[k].read_accesses
        \/ /\ per_key[j].read_accesses = per_key[k].read_accesses
           /\ j < k

(* Sorted, a key comes after as many keys as are hotter. *)
top_keys(per_key, limit) ==
  LET all == DOMAIN per_key
      hotter(k) == Cardinality({j \in all : Hotter(per_key, j, k)})
      kept == IF Cardinality(all) < limit THEN Cardinality(all) ELSE limit
  IN [i \in 1..kept |-> CHOOSE k \in all : hotter(k) = i - 1]

-----------------------------------------------------------------------------
(* Properties.                                                             *)

(* The counts that DEL answers never add up to more than the keys that     *)
(* were there: however DELs of several keys, repeated keys and writes      *)
(* interleave between two deletions, a removal is counted by one DEL only  *)
(* and never for a key that is still there.                                *)
DelNeverOvercounts ==
  answered + MapThenSumSet(LAMBDA c : removed[c], Conn) + Cardinality({k \in Key : Live(k)}) <= created

(* The log misses no access of a command that was answered without an      *)
(* error, and at rest it holds nothing else: not the accesses of malformed *)
(* commands, nor of commands the engine failed.  The exact counter and the *)
(* counts by key agree on it at any time.                                  *)
LogComplete ==
  /\ \A k \in Key, x \in Access :
       /\ touched[k][x] <= Events(log, k, x)
       /\ Quiet => touched[k][x] = Events(log, k, x)
  /\ LET per_key == from_events(log)
         total == ExactCounter(log)
     IN /\ total.total_events =
             MapThenSumSet(LAMBDA k : per_key[k].total_accesses, DOMAIN per_key)
        /\ total.reads =
             MapThenSumSet(LAMBDA k : per_key[k].read_accesses, DOMAIN per_key)
        /\ total.known_value_bytes <= total.writes * Max({Size[v] : v \in DOMAIN Size})

(* The log respects real time although events are pushed after the engine  *)
(* call and without a common lock: no event precedes one of a command that *)
(* had been answered before its own command arrived.                       *)
LogRealTimeOrder ==
  \A i, j \in DOMAIN log : i < j => origin[j].id \notin origin[i].after

(* top_keys of the log, cut at any limit, is headed by the most accessed   *)
(* keys: no key that was left out has more accesses, or as many and more   *)
(* reads, than one that was ranked, and ranks fall in that order.  Between *)
(* keys that are equal in this the smaller one comes first, so that the    *)
(* ranking does not depend on the order of the events or of the map.       *)
TopKeysRanked ==
  LET per_key == from_events(log) IN
  \A limit \in 0..(Cardinality(DOMAIN per_key) + 1) :
    LET top == top_keys(per_key, limit)
        worth(k) == <<per_key[k].total_accesses, per_key[k].read_accesses>>
        above(v, w) == v[1] > w[1] \/ (v[1] = w[1] /\ v[2] > w[2])
    IN
    /\ Len(top) = IF Cardinality(DOMAIN per_key) < limit
                  THEN Cardinality(DOMAIN per_key) ELSE limit
    /\ \A i \in DOMAIN top, k \in DOMAIN per_key :
         (\A j \in 1..i : top[j] # k) =>
           \/ above(worth(top[i]), worth(k))
           \/ worth(top[i]) = worth(k) /\ top[i] < k

=============================================================================
