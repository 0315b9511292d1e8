-------------------------- MODULE CommandsMetricsProofs --------------------------
(***************************************************************************)
(* Proofs about the server's command dispatch, its observation log and the *)
(* ranking of hot keys (Commands), and about the metrics that every        *)
(* command updates (Metrics).                                              *)
(*                                                                         *)
(* The invariant of Commands, CommandsInv, says what a command in flight   *)
(* still has to log (PlanOK, LoggedOK), which commands the logged ones may *)
(* be after (RealTimeOK) and how the keys that DEL counted are paid for by *)
(* the keys that were written (CountedOK).  That of Metrics, MetricsInv,   *)
(* says for each counter which threads are past their update of it.        *)
(***************************************************************************)
EXTENDS Commands, Metrics, FiniteSums, SequenceTheorems, TLAPS

(* The commands whose handlers may answer something else than an error. *)
CanSucceed(a) ==
  /\ Is(a, "GET") \/ Is(a, "TTL") => Len(a) = 2
  /\ Is(a, "SET") => Len(a) = 3 \/ WithExpiry(a)
  /\ Is(a, "EXPIRE") => Len(a) = 3

Answering(c) == pc[c] \in {"observe", "reply"} /\ ~is_error_response(reply[c])

CommandNames == {"Get", "Set", "Delete", "Expire", "Ttl"}
Event == [command : CommandNames, key : Key, access : Access, value_size : Nat,
          timestamp : Nat]
Entry == [value : DOMAIN Size \cup {"none"}, deadline : Nat]

CommandsTypeOK ==
  /\ clock \in Nat
  /\ store \in [Key -> Entry]
  /\ log \in Seq(Event)
  /\ pc \in [Conn -> {"idle", "dispatch", "observe", "reply"}]
  /\ args \in [Conn -> Requests \cup {<<>>}]
  /\ \A c \in Conn : pc[c] # "idle" => args[c] \in Requests
  /\ planned \in [Conn -> Seq(Event)]
  /\ keys \in [Conn -> Seq(Key)]
  /\ removed \in [Conn -> Nat]
  /\ DOMAIN reply = Conn
  /\ count \in Nat
  /\ id \in [Conn -> Nat]
  /\ after \in [Conn -> SUBSET Nat]
  /\ origin \in Seq([id : Nat, after : SUBSET Nat])
  /\ created \in Nat
  /\ answered \in Nat
  /\ finished \in SUBSET Nat
  /\ touched \in [Key -> [Access -> Nat]]

(* What a DEL answers is what it counted. *)
DelOK ==
  \A c \in Conn : Answering(c) /\ Is(args[c], "DEL") => reply[c].n = removed[c]

-----------------------------------------------------------------------------
(* Words and requests.                                                     *)

(* A command has one name. *)
LEMMA OneName ==
  ASSUME NEW a, NEW m \in Named, NEW n \in Named, Is(a, m), Is(a, n)
  PROVE  m = n
<1>1. a[1] = m \/ (a[1] = "get" /\ m = "GET")
  BY DEF Is, eq_ignore_ascii_case, Upper, Named
<1>2. a[1] = n \/ (a[1] = "get" /\ n = "GET")
  BY DEF Is, eq_ignore_ascii_case, Upper, Named
<1> QED
  BY <1>1, <1>2 DEF Named

(* Requests are sequences. *)
LEMMA RequestSeq ==
  ASSUME NEW a \in Requests
  PROVE  \E W : a \in Seq(W)
<1>1. Len(a) \in Nat /\ a = [i \in 1..Len(a) |-> a[i]]
  BY RequestsAssumption
<1> DEFINE n == Len(a)
           W == {a[i] : i \in 1..n}
           b == [i \in 1..n |-> a[i]]
<1>2. b \in [1..n -> W]
  OBVIOUS
<1>3. a \in [1..n -> W]
  BY <1>1, <1>2
<1> HIDE DEF n, W
<1>4. n \in Nat
  BY <1>1 DEF n
<1>5. a \in Seq(W)
  BY <1>3, <1>4, SeqDef
<1> QED
  BY <1>5

(* The arguments of a request that are keys, and the rest of it. *)
LEMMA RequestArguments ==
  ASSUME NEW a \in Requests
  PROVE  /\ Len(a) \in Nat
         /\ Is(a, "GET") \/ Is(a, "SET") \/ Is(a, "EXPIRE") \/ Is(a, "TTL") =>
              Len(a) < 2 \/ a[2] \in Key
         /\ Is(a, "SET") => Len(a) < 3 \/ a[3] \in DOMAIN Size
         /\ Is(a, "DEL") => /\ Len(a) >= 1
                            /\ Tail(a) \in Seq(Key) /\ Len(Tail(a)) = Len(a) - 1
                            /\ \A i \in 1..(Len(a) - 1) : a[i + 1] \in Key
<1>1. Len(a) \in Nat
  BY RequestsAssumption
<1>2. Is(a, "DEL") => /\ Len(a) >= 1
                      /\ Tail(a) \in Seq(Key) /\ Len(Tail(a)) = Len(a) - 1
                      /\ \A i \in 1..(Len(a) - 1) : a[i + 1] \in Key
  <2>1. SUFFICES ASSUME Is(a, "DEL")
                 PROVE  /\ Len(a) >= 1
                        /\ Tail(a) \in Seq(Key) /\ Len(Tail(a)) = Len(a) - 1
                        /\ \A i \in 1..(Len(a) - 1) : a[i + 1] \in Key
    OBVIOUS
  <2>2. PICK W : a \in Seq(W)
    BY RequestSeq
  <2>3. a # <<>>
    BY <2>1 DEF Is
  <2>4. Tail(a) \in Seq(Key)
    BY <2>1, RequestsAssumption
  <2>5. /\ Len(Tail(a)) = Len(a) - 1
        /\ \A i \in 1..(Len(a) - 1) : Tail(a)[i] = a[i + 1]
    BY <2>2, <2>3, HeadTailProperties
  <2>6. Len(a) >= 1
    BY <2>2, <2>3
  <2>7. \A i \in 1..(Len(a) - 1) : Tail(a)[i] \in Key
    BY <2>4, <2>5, ElementOfSeq
  <2> QED
    BY <2>4, <2>5, <2>6, <2>7
<1> QED
  BY <1>1, <1>2, RequestsAssumption

(* The planned events are events. *)
LEMMA PlannedEvents ==
  ASSUME CommandsTypeOK, NEW a \in Requests
  PROVE  planned_observations(a) \in Seq(Event)
<1>1. clock \in Nat
  BY DEF CommandsTypeOK
<1>2. ASSUME NEW k \in Key
      PROVE  /\ ReadEvent("Get", k) \in Event /\ ReadEvent("Ttl", k) \in Event
             /\ WriteEvent("Delete", k, None) \in Event
             /\ WriteEvent("Expire", k, None) \in Event
             /\ \A n \in Nat : WriteEvent("Set", k, n) \in Event
  BY <1>1, <1>2 DEF ReadEvent, WriteEvent, Event, CommandNames, Access, None
<1>3. ASSUME NEW e \in Event PROVE <<e>> \in Seq(Event)
  OBVIOUS
<1>4. <<>> \in Seq(Event)
  OBVIOUS
<1>5. CASE Is(a, "GET") /\ Len(a) = 2
  <2>1. planned_observations(a) = <<ReadEvent("Get", a[2])>>
    BY <1>5, OneName DEF planned_observations, Named
  <2> QED
    BY <1>2, <1>3, <1>5, <2>1, RequestArguments
<1>6. CASE Is(a, "SET") /\ (Len(a) = 3 \/ WithExpiry(a))
  <2>1. planned_observations(a) = <<WriteEvent("Set", a[2], Size[a[3]])>>
    BY <1>6, OneName DEF planned_observations, Named
  <2>2. a[2] \in Key /\ Size[a[3]] \in Nat
    BY <1>6, RequestArguments, CommandsAssumption DEF WithExpiry
  <2> QED
    BY <1>2, <1>3, <2>1, <2>2
<1>7. CASE Is(a, "DEL")
  <2>1. planned_observations(a) = [i \in 1..(Len(a) - 1) |-> WriteEvent("Delete", a[i + 1], None)]
    BY <1>7, OneName DEF planned_observations, Named
  <2>2. Len(a) - 1 \in Nat /\ \A i \in 1..(Len(a) - 1) : a[i + 1] \in Key
    BY <1>7, RequestArguments
  <2>3. [i \in 1..(Len(a) - 1) |-> WriteEvent("Delete", a[i + 1], None)]
          \in [1..(Len(a) - 1) -> Event]
    BY <1>2, <2>2
  <2>4. \A m \in Nat : [1..m -> Event] \subseteq Seq(Event)
    BY SeqDef
  <2> QED
    BY <2>1, <2>2, <2>3, <2>4
<1>8. CASE Is(a, "EXPIRE") /\ Len(a) = 3
  <2>1. planned_observations(a) = <<WriteEvent("Expire", a[2], None)>>
    BY <1>8, OneName DEF planned_observations, Named
  <2> QED
    BY <1>2, <1>3, <1>8, <2>1, RequestArguments
<1>9. CASE Is(a, "TTL") /\ Len(a) = 2
  <2>1. planned_observations(a) = <<ReadEvent("Ttl", a[2])>>
    BY <1>9, OneName DEF planned_observations, Named
  <2> QED
    BY <1>2, <1>3, <1>9, <2>1, RequestArguments
<1> QED
  BY <1>4, <1>5, <1>6, <1>7, <1>8, <1>9 DEF planned_observations

-----------------------------------------------------------------------------
(* What a handler does: it answers, and the engine was called at most      *)
(* once, or it deletes the next key of a DEL.                              *)

Calls ==
  \/ UNCHANGED engine
  \/ \E k \in Key, v \in DOMAIN Size, d \in Nat : Put(k, v, d)
  \/ \E k \in Key, d \in Nat :
       Live(k) /\ store' = [store EXCEPT ![k].deadline = d] /\ UNCHANGED created

Answers(c) ==
  /\ \E r : /\ Respond(c, r)
            /\ ~is_error_response(r) =>
                 CanSucceed(args[c]) /\ (Is(args[c], "DEL") => r.n = removed[c])
  /\ Calls
  /\ UNCHANGED <<keys, removed>>

Deletes(c) ==
  /\ keys[c] # <<>>
  /\ store' = [store EXCEPT ![Head(keys[c])] = NoEntry]
  /\ removed' = [removed EXCEPT ![c] = IF Live(Head(keys[c])) THEN @ + 1 ELSE @]
  /\ keys' = [keys EXCEPT ![c] = Tail(@)]
  /\ UNCHANGED <<created, pc, reply>>

(* An answer without an engine call that changes anything. *)
LEMMA PlainAnswer ==
  ASSUME NEW c \in Conn, NEW r, Answer(c, r),
         ~is_error_response(r) =>
           CanSucceed(args[c]) /\ (Is(args[c], "DEL") => r.n = removed[c])
  PROVE  Answers(c)
BY DEF Answer, Answers, Calls

(* A command by another name is not a DEL, and its form is checked by its  *)
(* own handler.                                                            *)
LEMMA OtherNames ==
  ASSUME NEW a
  PROVE  /\ \A n \in Named : Is(a, n) /\ n # "DEL" => ~Is(a, "DEL")
         /\ \A n \in {"PING", "DEL", "INFO"} : Is(a, n) => CanSucceed(a)
         /\ Is(a, "GET") /\ Len(a) = 2 => CanSucceed(a)
         /\ Is(a, "TTL") /\ Len(a) = 2 => CanSucceed(a)
         /\ Is(a, "SET") /\ (Len(a) = 3 \/ WithExpiry(a)) => CanSucceed(a)
         /\ Is(a, "EXPIRE") /\ Len(a) = 3 => CanSucceed(a)
<1>1. \A m, n \in Named : Is(a, m) /\ Is(a, n) => m = n
  BY OneName
<1> QED
  BY <1>1 DEF CanSucceed, Named

(* Deadlines are instants. *)
LEMMA DeadlineNat ==
  ASSUME CommandsTypeOK, NEW n \in Nat PROVE Deadline(n) \in Nat
<1>1. clock \in Nat /\ UnitsPerSec \in Nat
  BY CommandsAssumption DEF CommandsTypeOK
<1>2. n * UnitsPerSec \in Nat
  BY <1>1
<1> QED
  BY <1>1, <1>2 DEF Deadline

(* A dispatched command answers or deletes its next key. *)
LEMMA DispatchEffect ==
  ASSUME CommandsTypeOK, NEW c \in Conn, dispatch_command(c)
  PROVE  /\ pc[c] = "dispatch" /\ args[c] \in Requests
         /\ Answers(c) \/ Deletes(c)
         /\ UNCHANGED <<clock, log, args, planned, count, history>>
<1> DEFINE a == args[c]
<1>1. /\ pc[c] = "dispatch" /\ a \in Requests
      /\ UNCHANGED <<clock, log, args, planned, count, history>>
  BY DEF dispatch_command, CommandsTypeOK
<1>2. is_error_response(resp_error)
  BY DEF is_error_response, resp_error
<1>3. ASSUME Answer(c, resp_error) PROVE Answers(c)
  BY <1>2, <1>3, PlainAnswer
<1>4. CASE Is(a, "PING") /\ handle_ping(c)
  <2>1. CanSucceed(a) /\ ~Is(a, "DEL")
    BY <1>4, OtherNames DEF Named
  <2> QED
    BY <1>1, <1>4, <2>1, PlainAnswer DEF handle_ping
<1>5. CASE Is(a, "GET") /\ handle_get(c)
  <2>1. ~Is(a, "DEL") /\ (Len(a) = 2 => CanSucceed(a))
    BY <1>5, OtherNames DEF Named
  <2>2. Answers(c)
    BY <1>3, <1>5, <2>1, PlainAnswer DEF handle_get
  <2> QED
    BY <1>1, <2>2
<1>6. CASE Is(a, "SET") /\ handle_set(c)
  <2>1. ~Is(a, "DEL") /\ (Len(a) = 3 \/ WithExpiry(a) => CanSucceed(a))
    BY <1>6, OtherNames DEF Named
  <2>2. CASE Answer(c, resp_error)
    BY <1>1, <1>3, <2>2
  <2>3. CASE ~Answer(c, resp_error)
    <3> DEFINE d == IF Len(a) = 3 THEN None ELSE Deadline(parse_u64(a[5]))
    <3>1. /\ Len(a) = 3 \/ (WithExpiry(a) /\ is_number(a[5]))
          /\ Put(a[2], a[3], d)
          /\ Respond(c, resp_simple("OK"))
          /\ UNCHANGED <<keys, removed>>
      BY <1>6, <2>3 DEF handle_set
    <3>2. a[2] \in Key /\ a[3] \in DOMAIN Size
      BY <1>1, <1>6, <3>1, RequestArguments DEF WithExpiry
    <3>3. d \in Nat
      <4>1. is_number(a[5]) => parse_u64(a[5]) \in Nat
        BY CommandsAssumption DEF is_number, parse_u64
      <4> QED
        BY <3>1, <4>1, DeadlineNat DEF None
    <3> HIDE DEF d
    <3>4. Calls
      BY <3>1, <3>2, <3>3 DEF Calls
    <3>5. Answers(c)
      BY <2>1, <3>1, <3>4 DEF Answers
    <3> QED
      BY <1>1, <3>5
  <2> QED
    BY <2>2, <2>3
<1>7. CASE Is(a, "DEL") /\ handle_del(c)
  <2>1. CanSucceed(a)
    BY <1>7, OtherNames
  <2>2. CASE Answer(c, resp_error)
    BY <1>1, <1>3, <2>2
  <2>3. CASE Answer(c, resp_integer(removed[c]))
    <3>1. resp_integer(removed[c]).n = removed[c]
      BY DEF resp_integer
    <3> QED
      BY <1>1, <2>1, <2>3, <3>1, PlainAnswer
  <2>4. CASE ~Answer(c, resp_error) /\ ~Answer(c, resp_integer(removed[c]))
    BY <1>1, <1>7, <2>4 DEF handle_del, Deletes
  <2> QED
    BY <2>2, <2>3, <2>4
<1>8. CASE Is(a, "EXPIRE") /\ handle_expire(c)
  <2>1. ~Is(a, "DEL") /\ (Len(a) = 3 => CanSucceed(a))
    BY <1>8, OtherNames DEF Named
  <2>2. CASE Answer(c, resp_error)
    BY <1>1, <1>3, <2>2
  <2>3. CASE Len(a) = 3 /\ Answer(c, resp_integer(0))
    BY <1>1, <2>1, <2>3, PlainAnswer
  <2>4. CASE ~Answer(c, resp_error) /\ ~(Len(a) = 3 /\ Answer(c, resp_integer(0)))
    <3> DEFINE d == Deadline(parse_u64(a[3]))
    <3>1. /\ Len(a) = 3 /\ is_number(a[3])
          /\ Live(a[2])
          /\ store' = [store EXCEPT ![a[2]].deadline = d]
          /\ Respond(c, resp_integer(1))
          /\ UNCHANGED <<created, keys, removed>>
      BY <1>8, <2>4 DEF handle_expire
    <3>2. a[2] \in Key
      BY <1>1, <1>8, <3>1, RequestArguments
    <3>3. d \in Nat
      <4>1. parse_u64(a[3]) \in Nat
        BY <3>1, CommandsAssumption DEF is_number, parse_u64
      <4> QED
        BY <4>1, DeadlineNat
    <3> HIDE DEF d
    <3>4. Calls
      BY <3>1, <3>2, <3>3 DEF Calls
    <3>5. Answers(c)
      BY <2>1, <3>1, <3>4 DEF Answers
    <3> QED
      BY <1>1, <3>5
  <2> QED
    BY <2>2, <2>3, <2>4
<1>9. CASE Is(a, "TTL") /\ handle_ttl(c)
  <2>1. ~Is(a, "DEL") /\ (Len(a) = 2 => CanSucceed(a))
    BY <1>9, OtherNames DEF Named
  <2>2. Answers(c)
    BY <1>3, <1>9, <2>1, PlainAnswer DEF handle_ttl
  <2> QED
    BY <1>1, <2>2
<1>10. CASE Is(a, "INFO") /\ handle_info(c)
  <2>1. CanSucceed(a) /\ ~Is(a, "DEL")
    BY <1>10, OtherNames DEF Named
  <2> QED
    BY <1>1, <1>10, <2>1, PlainAnswer DEF handle_info
<1>11. CASE Answer(c, resp_error)
  BY <1>1, <1>3, <1>11
<1> QED
  BY <1>4, <1>5, <1>6, <1>7, <1>8, <1>9, <1>10, <1>11 DEF dispatch_command

-----------------------------------------------------------------------------
(* Types.                                                                  *)

LEMMA CommandsTypeInit == Init => CommandsTypeOK
<1> SUFFICES ASSUME Init PROVE CommandsTypeOK
  OBVIOUS
<1>1. NoEntry \in Entry
  BY DEF NoEntry, Entry, None
<1>2. store \in [Key -> Entry]
  BY <1>1 DEF Init
<1>3. touched \in [Key -> [Access -> Nat]]
  BY DEF Init
<1> QED
  BY <1>2, <1>3 DEF Init, CommandsTypeOK

(* The store and the count of new keys after an engine call. *)
LEMMA CallsTypes ==
  ASSUME CommandsTypeOK, Calls PROVE store' \in [Key -> Entry] /\ created' \in Nat
<1>a. store \in [Key -> Entry] /\ created \in Nat
  BY DEF CommandsTypeOK
<1>1. CASE UNCHANGED engine
  BY <1>a, <1>1 DEF engine
<1>2. ASSUME NEW k \in Key, NEW v \in DOMAIN Size, NEW d \in Nat, Put(k, v, d)
      PROVE  store' \in [Key -> Entry] /\ created' \in Nat
  <2>1. [value |-> v, deadline |-> d] \in Entry
    BY DEF Entry
  <2> QED
    BY <1>a, <1>2, <2>1 DEF Put
<1>3. ASSUME NEW k \in Key, NEW d \in Nat,
             store' = [store EXCEPT ![k].deadline = d], UNCHANGED created
      PROVE  store' \in [Key -> Entry] /\ created' \in Nat
  BY <1>a, <1>3 DEF Entry
<1> QED
  BY <1>1, <1>2, <1>3 DEF Calls

(* The accesses of a command can be counted. *)
LEMMA TouchesNat ==
  ASSUME NEW a \in Requests, NEW k, NEW x PROVE Touches(a, k, x) \in Nat
<1>1. Len(a) \in Nat
  BY RequestArguments
<1>2. IsFiniteSet(2..Len(a))
  BY <1>1, FS_Interval
<1>3. Cardinality({i \in 2..Len(a) : a[i] = k}) \in Nat
  BY <1>2, FS_Subset, FS_CardinalityType
<1> QED
  BY <1>3 DEF Touches

(* Every step keeps the types. *)
LEMMA CommandsTypeStep ==
  CommandsTypeOK /\ DelOK /\ [Next]_vars => CommandsTypeOK'
<1> SUFFICES ASSUME CommandsTypeOK, DelOK, [Next]_vars PROVE CommandsTypeOK'
  OBVIOUS
<1>1. ASSUME NEW c \in Conn, Receive(c) PROVE CommandsTypeOK'
  <2>1. PICK a \in Requests :
          /\ args' = [args EXCEPT ![c] = a]
          /\ planned' = [planned EXCEPT ![c] = planned_observations(a)]
          /\ keys' = [keys EXCEPT ![c] = IF Is(a, "DEL") THEN Tail(a) ELSE <<>>]
    BY <1>1 DEF Receive
  <2>2. planned_observations(a) \in Seq(Event)
    BY PlannedEvents
  <2>3. (IF Is(a, "DEL") THEN Tail(a) ELSE <<>>) \in Seq(Key)
    BY RequestArguments
  <2>4. /\ planned' \in [Conn -> Seq(Event)] /\ keys' \in [Conn -> Seq(Key)]
        /\ args' \in [Conn -> Requests \cup {<<>>}]
        /\ \A d \in Conn : pc'[d] # "idle" => args'[d] \in Requests
    BY <1>1, <2>1, <2>2, <2>3 DEF CommandsTypeOK, Receive
  <2> QED
    BY <1>1, <2>4 DEF CommandsTypeOK, Receive, engine
<1>2. ASSUME NEW c \in Conn, dispatch_command(c) PROVE CommandsTypeOK'
  <2>1. /\ pc[c] = "dispatch" /\ args[c] \in Requests
        /\ Answers(c) \/ Deletes(c)
        /\ UNCHANGED <<clock, log, args, planned, count, history>>
    BY <1>2, DispatchEffect
  <2>2. CASE Answers(c)
    <3>1. store' \in [Key -> Entry] /\ created' \in Nat
      BY <2>2, CallsTypes DEF Answers
    <3>2. /\ pc' \in [Conn -> {"idle", "dispatch", "observe", "reply"}]
          /\ DOMAIN reply' = Conn
          /\ \A d \in Conn : pc'[d] # "idle" => args[d] \in Requests
      BY <2>1, <2>2 DEF Answers, Respond, CommandsTypeOK
    <3> QED
      BY <2>1, <2>2, <3>1, <3>2 DEF CommandsTypeOK, Answers, history
  <2>3. CASE Deletes(c)
    <3>1. Head(keys[c]) \in Key /\ Tail(keys[c]) \in Seq(Key)
      BY <2>3 DEF Deletes, CommandsTypeOK
    <3>2. NoEntry \in Entry
      BY DEF NoEntry, Entry, None
    <3>3. /\ store' \in [Key -> Entry] /\ keys' \in [Conn -> Seq(Key)]
          /\ removed' \in [Conn -> Nat]
      BY <2>3, <3>1, <3>2 DEF Deletes, CommandsTypeOK
    <3> QED
      BY <2>1, <2>3, <3>3 DEF CommandsTypeOK, Deletes, history
  <2> QED
    BY <2>1, <2>2, <2>3
<1>3. ASSUME NEW c \in Conn, observe_command_result(c) PROVE CommandsTypeOK'
  <2>1. CASE ~is_error_response(reply[c]) /\ planned[c] # <<>>
    <3>1. /\ record_observation(c, Head(planned[c]))
          /\ planned' = [planned EXCEPT ![c] = Tail(@)] /\ UNCHANGED pc
      BY <1>3, <2>1 DEF observe_command_result
    <3>2. Head(planned[c]) \in Event /\ Tail(planned[c]) \in Seq(Event)
      BY <2>1 DEF CommandsTypeOK
    <3>3. [id |-> id[c], after |-> after[c]] \in [id : Nat, after : SUBSET Nat]
      BY DEF CommandsTypeOK
    <3>4. /\ log' \in Seq(Event) /\ planned' \in [Conn -> Seq(Event)]
          /\ origin' \in Seq([id : Nat, after : SUBSET Nat])
      BY <3>1, <3>2, <3>3 DEF record_observation, CommandsTypeOK
    <3> QED
      BY <1>3, <3>1, <3>4 DEF observe_command_result, CommandsTypeOK, engine
  <2>2. CASE ~(~is_error_response(reply[c]) /\ planned[c] # <<>>)
    <3>1. /\ pc' = [pc EXCEPT ![c] = "reply"]
          /\ planned' = [planned EXCEPT ![c] = <<>>] /\ UNCHANGED <<log, origin>>
      BY <1>3, <2>2 DEF observe_command_result
    <3>2. /\ planned' \in [Conn -> Seq(Event)]
          /\ \A d \in Conn : pc'[d] # "idle" => args[d] \in Requests
      BY <1>3, <3>1 DEF CommandsTypeOK, observe_command_result
    <3> QED
      BY <1>3, <3>1, <3>2 DEF observe_command_result, CommandsTypeOK, engine
  <2> QED
    BY <2>1, <2>2
<1>4. ASSUME NEW c \in Conn, Reply(c) PROVE CommandsTypeOK'
  <2>1. args[c] \in Requests /\ pc[c] = "reply"
    BY <1>4 DEF Reply, CommandsTypeOK
  <2>2. answered' \in Nat
    <3>1. CASE ~is_error_response(reply[c]) /\ Is(args[c], "DEL")
      <4>1. reply[c].n = removed[c] /\ answered' = answered + reply[c].n
        BY <1>4, <2>1, <3>1 DEF Reply, DelOK, Answering
      <4> QED
        BY <4>1 DEF CommandsTypeOK
    <3>2. CASE ~(~is_error_response(reply[c]) /\ Is(args[c], "DEL"))
      BY <1>4, <3>2 DEF Reply, CommandsTypeOK
    <3> QED
      BY <3>1, <3>2
  <2>3. touched' \in [Key -> [Access -> Nat]]
    <3>1. CASE is_error_response(reply[c])
      BY <1>4, <3>1 DEF Reply, CommandsTypeOK
    <3>2. CASE ~is_error_response(reply[c])
      <4>1. touched' = [k \in Key |-> [x \in Access |-> touched[k][x] + Touches(args[c], k, x)]]
        BY <1>4, <3>2 DEF Reply
      <4>2. \A k \in Key, x \in Access : touched[k][x] + Touches(args[c], k, x) \in Nat
        <5>1. \A k \in Key, x \in Access : touched[k][x] \in Nat /\ Touches(args[c], k, x) \in Nat
          BY <2>1, TouchesNat DEF CommandsTypeOK
        <5> QED
          BY <5>1
      <4> QED
        BY <4>1, <4>2
    <3> QED
      BY <3>1, <3>2
  <2>4. /\ pc' \in [Conn -> {"idle", "dispatch", "observe", "reply"}]
        /\ args' \in [Conn -> Requests \cup {<<>>}]
        /\ \A d \in Conn : pc'[d] # "idle" => args'[d] \in Requests
        /\ removed' \in [Conn -> Nat] /\ DOMAIN reply' = Conn
        /\ finished' \in SUBSET Nat
    BY <1>4 DEF Reply, CommandsTypeOK
  <2> QED
    BY <1>4, <2>2, <2>3, <2>4 DEF Reply, CommandsTypeOK, engine
<1>5. CASE Tick
  BY <1>5 DEF Tick, CommandsTypeOK, history
<1>6. CASE Done \/ UNCHANGED vars
  BY <1>6 DEF Done, vars, CommandsTypeOK
<1> QED
  BY <1>1, <1>2, <1>3, <1>4, <1>5, <1>6 DEF Next

(* Every step keeps what a DEL answers equal to what it counted. *)
LEMMA DelStep ==
  CommandsTypeOK /\ DelOK /\ [Next]_vars => DelOK'
<1> SUFFICES ASSUME CommandsTypeOK, DelOK, [Next]_vars PROVE DelOK'
  OBVIOUS
<1> USE DEF CommandsTypeOK, DelOK, Answering
<1>1. ASSUME NEW c \in Conn, Receive(c) PROVE DelOK'
  <2>1. /\ \A d \in Conn : d # c => pc'[d] = pc[d] /\ args'[d] = args[d] /\ removed'[d] = removed[d]
        /\ reply' = reply /\ pc'[c] = "dispatch"
    BY <1>1 DEF Receive
  <2> QED
    BY <2>1
<1>2. ASSUME NEW c \in Conn, dispatch_command(c) PROVE DelOK'
  <2>1. pc[c] = "dispatch" /\ (Answers(c) \/ Deletes(c)) /\ args' = args
    BY <1>2, DispatchEffect
  <2>2. CASE Answers(c)
    <3>1. PICK r : /\ Respond(c, r)
                   /\ ~is_error_response(r) =>
                        CanSucceed(args[c]) /\ (Is(args[c], "DEL") => r.n = removed[c])
      BY <2>2 DEF Answers
    <3>2. reply'[c] = r /\ \A d \in Conn : d # c => reply'[d] = reply[d] /\ pc'[d] = pc[d]
      BY <3>1 DEF Respond
    <3> QED
      BY <2>1, <2>2, <3>1, <3>2 DEF Answers
  <2>3. CASE Deletes(c)
    <3>1. /\ reply' = reply /\ pc' = pc
          /\ \A d \in Conn : d # c => removed'[d] = removed[d]
      BY <2>3 DEF Deletes
    <3> QED
      BY <2>1, <3>1
  <2> QED
    BY <2>1, <2>2, <2>3
<1>3. ASSUME NEW c \in Conn, observe_command_result(c) PROVE DelOK'
  <2>1. /\ pc[c] = "observe" /\ UNCHANGED <<args, removed, reply>>
        /\ \A d \in Conn : d # c => pc'[d] = pc[d]
    BY <1>3 DEF observe_command_result
  <2> QED
    BY <2>1
<1>4. ASSUME NEW c \in Conn, Reply(c) PROVE DelOK'
  <2>1. /\ pc'[c] = "idle"
        /\ \A d \in Conn : d # c => /\ pc'[d] = pc[d] /\ args'[d] = args[d]
                                    /\ removed'[d] = removed[d] /\ reply'[d] = reply[d]
    BY <1>4 DEF Reply
  <2> QED
    BY <2>1
<1>5. CASE Tick \/ Done \/ UNCHANGED vars
  BY <1>5 DEF Tick, Done, vars
<1> QED
  BY <1>1, <1>2, <1>3, <1>4, <1>5 DEF Next

-----------------------------------------------------------------------------
(* The order of the log.                                                   *)

(* Commands have numbers of their own, taken from those received and not   *)
(* yet answered; what an event or a command is after has been answered.    *)
RealTimeOK ==
  /\ Len(origin) = Len(log)
  /\ finished \subseteq 1..count
  /\ \A c \in Conn : pc[c] # "idle" => id[c] \in 1..count /\ id[c] \notin finished
  /\ \A c, d \in Conn : c # d /\ pc[c] # "idle" /\ pc[d] # "idle" => id[c] # id[d]
  /\ \A c \in Conn : after[c] \subseteq finished
  /\ \A i \in DOMAIN origin : origin[i].after \subseteq finished
  /\ LogRealTimeOrder

(* The log starts empty. *)
LEMMA RealTimeInit == Init => RealTimeOK
BY DEF Init, RealTimeOK, LogRealTimeOrder

(* A step that records nothing and answers nothing. *)
LEMMA RealTimeKept ==
  ASSUME RealTimeOK, UNCHANGED <<log, origin, finished, count, id, after>>,
         \A c \in Conn : pc'[c] # "idle" => pc[c] # "idle"
  PROVE  RealTimeOK'
BY DEF RealTimeOK, LogRealTimeOrder

(* Every step keeps the order of the log. *)
LEMMA RealTimeStep ==
  CommandsTypeOK /\ RealTimeOK /\ [Next]_vars => RealTimeOK'
<1> SUFFICES ASSUME CommandsTypeOK, RealTimeOK, [Next]_vars PROVE RealTimeOK'
  OBVIOUS
<1>1. ASSUME NEW c \in Conn, Receive(c) PROVE RealTimeOK'
  <2>1. /\ pc[c] = "idle" /\ count' = count + 1 /\ id'[c] = count + 1 /\ after'[c] = finished
        /\ \A d \in Conn : d # c => pc'[d] = pc[d] /\ id'[d] = id[d] /\ after'[d] = after[d]
        /\ UNCHANGED <<log, origin, finished>>
    BY <1>1 DEF Receive, CommandsTypeOK
  <2>2. count \in Nat /\ count + 1 \notin 1..count /\ 1..count \subseteq 1..(count + 1)
        /\ count + 1 \in 1..(count + 1)
    BY DEF CommandsTypeOK
  <2>3. LogRealTimeOrder'
    BY <2>1 DEF RealTimeOK, LogRealTimeOrder
  <2>4. \A d \in Conn : pc'[d] # "idle" => id'[d] \in 1..count' /\ id'[d] \notin finished'
    BY <2>1, <2>2 DEF RealTimeOK
  <2>5. \A d, e \in Conn : d # e /\ pc'[d] # "idle" /\ pc'[e] # "idle" => id'[d] # id'[e]
    BY <2>1, <2>2 DEF RealTimeOK
  <2>6. \A d \in Conn : after'[d] \subseteq finished'
    BY <2>1 DEF RealTimeOK
  <2>7. finished' \subseteq 1..count'
    BY <2>1, <2>2 DEF RealTimeOK
  <2> QED
    BY <2>1, <2>3, <2>4, <2>5, <2>6, <2>7 DEF RealTimeOK
<1>2. ASSUME NEW c \in Conn, dispatch_command(c) PROVE RealTimeOK'
  <2>1. /\ pc[c] = "dispatch" /\ (Answers(c) \/ Deletes(c))
        /\ UNCHANGED <<log, origin, finished, count, id, after>>
    BY <1>2, DispatchEffect DEF history
  <2>2. \A d \in Conn : pc'[d] # "idle" => pc[d] # "idle"
    BY <2>1 DEF Answers, Deletes, Respond, CommandsTypeOK
  <2> QED
    BY <2>1, <2>2, RealTimeKept
<1>3. ASSUME NEW c \in Conn, observe_command_result(c) PROVE RealTimeOK'
  <2>1. pc[c] = "observe" /\ UNCHANGED <<finished, count, id, after>>
    BY <1>3 DEF observe_command_result
  <2>2. CASE ~is_error_response(reply[c]) /\ planned[c] # <<>>
    <3> DEFINE o == [id |-> id[c], after |-> after[c]]
               e == Head(planned[c])
    <3>1. log' = Append(log, e) /\ origin' = Append(origin, o) /\ pc' = pc
      BY <1>3, <2>2 DEF observe_command_result, record_observation
    <3>2. e \in Event /\ o \in [id : Nat, after : SUBSET Nat]
      BY <2>2 DEF CommandsTypeOK
    <3>3. /\ o.id \notin finished /\ o.after \subseteq finished
          /\ \A i \in DOMAIN origin : origin[i].after \subseteq finished
      BY <2>1 DEF RealTimeOK
    <3> HIDE DEF e, o
    <3> DEFINE n == Len(log)
    <3>4. /\ n \in Nat /\ Len(origin) = n /\ DOMAIN log = 1..n /\ DOMAIN origin = 1..n
          /\ Len(log') = n + 1 /\ Len(origin') = n + 1
          /\ DOMAIN log' = 1..(n + 1) /\ DOMAIN origin' = 1..(n + 1)
          /\ \A i \in 1..n : origin'[i] = origin[i]
          /\ origin'[n + 1] = o
      BY <3>1, <3>2 DEF RealTimeOK, CommandsTypeOK
    <3> HIDE DEF n
    <3>5. \A i \in DOMAIN origin' : origin'[i].after \subseteq finished'
      <4>1. \A i \in 1..(n + 1) : i \in 1..n \/ i = n + 1
        BY <3>4
      <4> QED
        BY <2>1, <3>3, <3>4, <4>1
    <3>6. LogRealTimeOrder'
      <4> SUFFICES ASSUME NEW i \in 1..(n + 1), NEW j \in 1..(n + 1), i < j
                   PROVE  origin'[j].id \notin origin'[i].after
        BY <3>4 DEF LogRealTimeOrder
      <4>1. i \in 1..n /\ (j \in 1..n \/ j = n + 1)
        BY <3>4
      <4>2. CASE j \in 1..n
        BY <3>4, <4>1, <4>2 DEF RealTimeOK, LogRealTimeOrder
      <4>3. CASE j = n + 1
        BY <3>3, <3>4, <4>1, <4>3
      <4> QED
        BY <4>1, <4>2, <4>3
    <3> QED
      BY <2>1, <3>1, <3>4, <3>5, <3>6 DEF RealTimeOK
  <2>3. CASE ~(~is_error_response(reply[c]) /\ planned[c] # <<>>)
    <3>1. UNCHANGED <<log, origin, finished, count, id, after>>
      BY <1>3, <2>1, <2>3 DEF observe_command_result
    <3>2. \A d \in Conn : pc'[d] # "idle" => pc[d] # "idle"
      BY <1>3, <2>1, <2>3 DEF observe_command_result, CommandsTypeOK
    <3> QED
      BY <3>1, <3>2, RealTimeKept
  <2> QED
    BY <2>2, <2>3
<1>4. ASSUME NEW c \in Conn, Reply(c) PROVE RealTimeOK'
  <2>1. /\ pc[c] = "reply" /\ pc'[c] = "idle" /\ finished' = finished \cup {id[c]}
        /\ \A d \in Conn : d # c => pc'[d] = pc[d]
        /\ UNCHANGED <<log, origin, count, id, after>>
    BY <1>4 DEF Reply, CommandsTypeOK
  <2>2. LogRealTimeOrder'
    BY <2>1 DEF RealTimeOK, LogRealTimeOrder
  <2>3. \A d \in Conn : pc'[d] # "idle" => id'[d] \in 1..count' /\ id'[d] \notin finished'
    BY <2>1 DEF RealTimeOK
  <2> QED
    BY <2>1, <2>2, <2>3 DEF RealTimeOK
<1>5. CASE Tick \/ Done \/ UNCHANGED vars
  BY <1>5, RealTimeKept DEF Tick, Done, vars, history
<1> QED
  BY <1>1, <1>2, <1>3, <1>4, <1>5 DEF Next

-----------------------------------------------------------------------------
(* The counts of DEL.                                                      *)

LiveKeys == {k \in Key : Live(k)}

(* Finitely many keys are there, and a key that is there or was counted by *)
(* a DEL was written for the first time once.                              *)
CountedOK ==
  /\ IsFiniteSet(LiveKeys)
  /\ answered + SumOver(removed, Conn) + Cardinality(LiveKeys) <= created

(* The sum that DelNeverOvercounts takes. *)
LEMMA RemovedSum == MapThenSumSet(LAMBDA c : removed[c], Conn) = SumOver(removed, Conn)
BY DEF MapThenSumSet, MapThenFoldSet, SumOver, SumsOf, Pick

(* The count of one connection changes. *)
LEMMA RemovedChange ==
  ASSUME CommandsTypeOK, NEW c \in Conn, NEW n \in Nat,
         removed' = [removed EXCEPT ![c] = n]
  PROVE  /\ SumOver(removed, Conn) \in Nat
         /\ SumOver(removed', Conn) \in Nat
         /\ SumOver(removed', Conn) = SumOver(removed, Conn) + (n - removed[c])
<1> DEFINE f == removed
           g == removed'
<1>1. \A d \in Conn : f[d] \in Nat /\ g[d] \in Nat
  BY DEF CommandsTypeOK
<1>2. \A d \in Conn : f[d] \in Int /\ g[d] \in Int
  BY <1>1
<1>3. IsFiniteSet(Conn)
  BY CommandsAssumption
<1>4. \A d \in Conn : d # c => f[d] = g[d]
  BY DEF CommandsTypeOK
<1>5. g[c] = n
  BY DEF CommandsTypeOK
<1> HIDE DEF f, g
<1>6. SumOver(g, Conn) = SumOver(f, Conn) + (g[c] - f[c])
  BY <1>2, <1>3, <1>4, SumChange
<1>7. SumOver(f, Conn) \in Nat /\ SumOver(g, Conn) \in Nat
  BY <1>1, <1>3, SumNat
<1> QED
  BY <1>5, <1>6, <1>7 DEF f, g

(* What CountedOK adds up are natural numbers. *)
LEMMA CountedTypes ==
  ASSUME CommandsTypeOK, CountedOK
  PROVE  /\ answered \in Nat /\ created \in Nat
         /\ SumOver(removed, Conn) \in Nat /\ Cardinality(LiveKeys) \in Nat
<1>1. SumOver(removed, Conn) \in Nat
  BY SumNat, CommandsAssumption DEF CommandsTypeOK
<1> QED
  BY <1>1, FS_CardinalityType DEF CommandsTypeOK, CountedOK

(* When fewer keys are there, their number does not grow. *)
LEMMA FewerLive ==
  ASSUME CountedOK, LiveKeys' \subseteq LiveKeys
  PROVE  /\ IsFiniteSet(LiveKeys') /\ Cardinality(LiveKeys') \in Nat
         /\ Cardinality(LiveKeys') <= Cardinality(LiveKeys)
BY FS_Subset, FS_CardinalityType DEF CountedOK

(* An engine call brings a key at most when it counts one. *)
LEMMA CallsCounted ==
  ASSUME CommandsTypeOK, CountedOK, Calls, UNCHANGED clock
  PROVE  /\ IsFiniteSet(LiveKeys') /\ Cardinality(LiveKeys') \in Nat
         /\ created' \in Nat
         /\ Cardinality(LiveKeys') - Cardinality(LiveKeys) <= created' - created
<1>a. /\ IsFiniteSet(LiveKeys) /\ Cardinality(LiveKeys) \in Nat /\ created \in Nat
      /\ store \in [Key -> Entry]
  BY CountedTypes DEF CountedOK, CommandsTypeOK
<1>1. ASSUME LiveKeys' \subseteq LiveKeys, created' \in {created, created + 1}
      PROVE  /\ IsFiniteSet(LiveKeys') /\ Cardinality(LiveKeys') \in Nat
             /\ created' \in Nat
             /\ Cardinality(LiveKeys') - Cardinality(LiveKeys) <= created' - created
  BY <1>a, <1>1, FewerLive
<1>2. CASE UNCHANGED engine
  BY <1>1, <1>2 DEF engine, LiveKeys, Live
<1>3. ASSUME NEW k \in Key, NEW v \in DOMAIN Size, NEW d \in Nat, Put(k, v, d)
      PROVE  /\ IsFiniteSet(LiveKeys') /\ Cardinality(LiveKeys') \in Nat
             /\ created' \in Nat
             /\ Cardinality(LiveKeys') - Cardinality(LiveKeys) <= created' - created
  <2>1. \A j \in Key : j # k => store'[j] = store[j]
    BY <1>3, <1>a DEF Put
  <2>2. LiveKeys' \subseteq LiveKeys \cup {k}
    BY <2>1 DEF LiveKeys, Live
  <2>3. CASE Live(k)
    <3>1. LiveKeys' \subseteq LiveKeys /\ created' = created
      BY <1>3, <2>2, <2>3 DEF Put, LiveKeys
    <3> QED
      BY <1>1, <3>1
  <2>4. CASE ~Live(k)
    <3>1. created' = created + 1 /\ k \notin LiveKeys
      BY <1>3, <2>4 DEF Put, LiveKeys
    <3>2. IsFiniteSet(LiveKeys \cup {k}) /\ Cardinality(LiveKeys \cup {k}) = Cardinality(LiveKeys) + 1
      BY <1>a, <3>1, FS_AddElement
    <3>3. /\ IsFiniteSet(LiveKeys')
          /\ Cardinality(LiveKeys') <= Cardinality(LiveKeys \cup {k})
      BY <2>2, <3>2, FS_Subset
    <3>4. Cardinality(LiveKeys') \in Nat
      BY <3>3, FS_CardinalityType
    <3> QED
      BY <1>a, <3>1, <3>2, <3>3, <3>4
  <2> QED
    BY <2>3, <2>4
<1>4. ASSUME NEW k \in Key, NEW d \in Nat, Live(k),
             store' = [store EXCEPT ![k].deadline = d], UNCHANGED created
      PROVE  /\ IsFiniteSet(LiveKeys') /\ Cardinality(LiveKeys') \in Nat
             /\ created' \in Nat
             /\ Cardinality(LiveKeys') - Cardinality(LiveKeys) <= created' - created
  <2>1. \A j \in Key : j # k => store'[j] = store[j]
    BY <1>4, <1>a
  <2>2. LiveKeys' \subseteq LiveKeys
    BY <1>4, <2>1 DEF LiveKeys, Live
  <2> QED
    BY <1>1, <1>4, <2>2
<1> QED
  BY <1>2, <1>3, <1>4 DEF Calls

(* No key is there at first. *)
LEMMA CountedInit == Init => CountedOK
<1> SUFFICES ASSUME Init PROVE CountedOK
  OBVIOUS
<1>1. LiveKeys = {}
  BY DEF LiveKeys, Live, Init
<1>2. IsFiniteSet(LiveKeys) /\ Cardinality(LiveKeys) = 0
  BY <1>1, FS_EmptySet
<1>3. SumOver(removed, Conn) = 0
  <2>1. \A c \in Conn : removed[c] = 0
    BY DEF Init
  <2> QED
    BY <2>1, SumZeros, CommandsAssumption
<1> QED
  BY <1>2, <1>3 DEF CountedOK, Init

(* Every step keeps the account of the keys. *)
LEMMA CountedStep ==
  CommandsTypeOK /\ DelOK /\ CountedOK /\ [Next]_vars => CountedOK'
<1> SUFFICES ASSUME CommandsTypeOK, DelOK, CountedOK, [Next]_vars PROVE CountedOK'
  OBVIOUS
<1> DEFINE A == answered
           R == SumOver(removed, Conn)
           L == Cardinality(LiveKeys)
<1>a. A \in Nat /\ created \in Nat /\ R \in Nat /\ L \in Nat /\ A + R + L <= created
  BY CountedTypes DEF CountedOK
<1>b. UNCHANGED <<store, clock>> => LiveKeys' = LiveKeys
  BY DEF LiveKeys, Live
<1>c. removed \in [Conn -> Nat] /\ store \in [Key -> Entry]
  BY DEF CommandsTypeOK
<1>1. ASSUME NEW c \in Conn, Receive(c) PROVE CountedOK'
  <2>1. /\ removed' = [removed EXCEPT ![c] = 0] /\ answered' = answered
        /\ created' = created /\ LiveKeys' = LiveKeys
    BY <1>1, <1>b DEF Receive, engine
  <2>2. SumOver(removed', Conn) \in Nat /\ SumOver(removed', Conn) = R + (0 - removed[c])
    BY <2>1, RemovedChange
  <2>3. removed[c] \in Nat
    BY <1>c
  <2> HIDE DEF R, L
  <2>4. A + SumOver(removed', Conn) + L <= created
    BY <1>a, <2>2, <2>3
  <2> QED
    BY <2>1, <2>4 DEF CountedOK, L
<1>2. ASSUME NEW c \in Conn, dispatch_command(c) PROVE CountedOK'
  <2>1. /\ Answers(c) \/ Deletes(c)
        /\ clock' = clock /\ answered' = answered
    BY <1>2, DispatchEffect DEF history
  <2>2. CASE Answers(c)
    <3>1. removed' = removed /\ Calls
      BY <2>2 DEF Answers
    <3>2. /\ IsFiniteSet(LiveKeys') /\ Cardinality(LiveKeys') \in Nat
          /\ created' \in Nat
          /\ Cardinality(LiveKeys') - Cardinality(LiveKeys) <= created' - created
      BY <2>1, <3>1, CallsCounted
    <3> HIDE DEF R
    <3>3. A + R + Cardinality(LiveKeys') <= created'
      BY <1>a, <3>2
    <3> QED
      BY <2>1, <3>1, <3>2, <3>3 DEF CountedOK, R
  <2>3. CASE Deletes(c)
    <3> DEFINE k == Head(keys[c])
    <3>1. k \in Key
      BY <2>3 DEF Deletes, CommandsTypeOK
    <3>2. store' = [store EXCEPT ![k] = NoEntry] /\ created' = created
      BY <2>3 DEF Deletes
    <3>3. LiveKeys' = LiveKeys \ {k}
      <4>1. store'[k] = NoEntry /\ \A j \in Key : j # k => store'[j] = store[j]
        BY <1>c, <3>1, <3>2
      <4>2. \A j \in Key : Live(j)' <=> Live(j) /\ j # k
        BY <2>1, <4>1 DEF Live
      <4> QED
        BY <4>2 DEF LiveKeys
    <3>4. IsFiniteSet(LiveKeys)
      BY DEF CountedOK
    <3> HIDE DEF k
    <3>5. CASE Live(k)
      <4>1. removed' = [removed EXCEPT ![c] = removed[c] + 1]
        BY <2>3, <3>5, <1>c DEF Deletes, k
      <4>2. removed[c] \in Nat
        BY <1>c
      <4>3. /\ SumOver(removed', Conn) \in Nat
            /\ SumOver(removed', Conn) = R + ((removed[c] + 1) - removed[c])
        <5> DEFINE m == removed[c] + 1
        <5>1. m \in Nat
          BY <4>2
        <5>2. removed' = [removed EXCEPT ![c] = m]
          BY <4>1
        <5> HIDE DEF m
        <5>3. /\ SumOver(removed', Conn) \in Nat
              /\ SumOver(removed', Conn) = R + (m - removed[c])
          BY <5>1, <5>2, RemovedChange
        <5> QED
          BY <5>3 DEF m
      <4>4. SumOver(removed', Conn) = R + 1
        BY <1>a, <4>2, <4>3
      <4>5. k \in LiveKeys
        BY <3>1, <3>5 DEF LiveKeys
      <4>6. IsFiniteSet(LiveKeys \ {k}) /\ Cardinality(LiveKeys \ {k}) = L - 1
        BY <3>4, <4>5, FS_RemoveElement
      <4> HIDE DEF R, L
      <4>7. A + SumOver(removed', Conn) + Cardinality(LiveKeys \ {k}) <= created
        BY <1>a, <4>4, <4>6
      <4> QED
        BY <2>1, <3>2, <3>3, <4>6, <4>7 DEF CountedOK
    <3>6. CASE ~Live(k)
      <4>1. removed' = removed
        <5>1. removed' = [removed EXCEPT ![c] = removed[c]]
          BY <2>3, <3>6, <1>c DEF Deletes, k
        <5> QED
          BY <5>1, <1>c
      <4>2. LiveKeys' = LiveKeys
        BY <3>3, <3>6 DEF LiveKeys
      <4> QED
        BY <2>1, <3>2, <3>4, <4>1, <4>2 DEF CountedOK
    <3> QED
      BY <3>5, <3>6
  <2> QED
    BY <2>1, <2>2, <2>3
<1>3. ASSUME NEW c \in Conn, observe_command_result(c) PROVE CountedOK'
  <2>1. UNCHANGED <<answered, removed, created, clock, store>>
    BY <1>3 DEF observe_command_result, engine
  <2> QED
    BY <1>b, <2>1 DEF CountedOK
<1>4. ASSUME NEW c \in Conn, Reply(c) PROVE CountedOK'
  <2>1. /\ removed' = [removed EXCEPT ![c] = 0] /\ pc[c] = "reply"
        /\ created' = created /\ LiveKeys' = LiveKeys
    BY <1>4, <1>b DEF Reply, engine
  <2>2. SumOver(removed', Conn) \in Nat /\ SumOver(removed', Conn) = R + (0 - removed[c])
    BY <2>1, RemovedChange
  <2>3. removed[c] \in Nat
    BY <1>c
  <2>4. answered' = answered \/ answered' = answered + removed[c]
    BY <1>4, <2>1 DEF Reply, DelOK, Answering
  <2> HIDE DEF R, L
  <2>5. answered' + SumOver(removed', Conn) + L <= created
    BY <1>a, <2>2, <2>3, <2>4
  <2> QED
    BY <2>1, <2>5 DEF CountedOK, L
<1>5. CASE Tick
  <2>1. UNCHANGED <<answered, removed, created, store>> /\ clock' = clock + 1
    BY <1>5 DEF Tick, history
  <2>2. ASSUME NEW k \in Key, Live(k)' PROVE Live(k)
    <3>1. clock \in Nat /\ store[k].deadline \in Nat
      BY <1>c DEF Entry, CommandsTypeOK
    <3> QED
      BY <2>1, <2>2, <3>1 DEF Live
  <2>3. LiveKeys' \subseteq LiveKeys
    BY <2>2 DEF LiveKeys
  <2>4. /\ IsFiniteSet(LiveKeys') /\ Cardinality(LiveKeys') \in Nat
        /\ Cardinality(LiveKeys') <= L
    BY <2>3, FewerLive
  <2> HIDE DEF R, L
  <2>5. A + R + Cardinality(LiveKeys') <= created
    BY <1>a, <2>4
  <2> QED
    BY <2>1, <2>4, <2>5 DEF CountedOK, R
<1>6. CASE Done \/ UNCHANGED vars
  <2>1. UNCHANGED <<answered, removed, created, clock, store>>
    BY <1>6 DEF Done, vars
  <2> QED
    BY <1>b, <2>1 DEF CountedOK
<1> QED
  BY <1>1, <1>2, <1>3, <1>4, <1>5, <1>6 DEF Next

-----------------------------------------------------------------------------
(* Counting events.                                                        *)

Hit(e, k, x) == IF e.key = k /\ e.access = x THEN 1 ELSE 0
Matching(s, k, x) == {i \in DOMAIN s : s[i].key = k /\ s[i].access = x}

(* Finitely many events match. *)
LEMMA EventsFinite ==
  ASSUME NEW s \in Seq(Event), NEW k, NEW x
  PROVE  IsFiniteSet(Matching(s, k, x)) /\ Events(s, k, x) \in Nat
<1>1. DOMAIN s = 1..Len(s) /\ Len(s) \in Nat
  OBVIOUS
<1>2. IsFiniteSet(DOMAIN s)
  BY <1>1, FS_Interval
<1>3. IsFiniteSet(Matching(s, k, x))
  BY <1>2, FS_Subset DEF Matching
<1> QED
  BY <1>3, FS_CardinalityType DEF Events, Matching

(* The empty sequence has no events. *)
LEMMA EventsEmpty ==
  ASSUME NEW k, NEW x PROVE Events(<<>>, k, x) = 0
<1>1. Matching(<<>>, k, x) = {}
  BY DEF Matching
<1> QED
  BY <1>1, FS_EmptySet DEF Events, Matching

(* One more event. *)
LEMMA EventsAppend ==
  ASSUME NEW s \in Seq(Event), NEW e \in Event, NEW k, NEW x
  PROVE  Events(Append(s, e), k, x) = Events(s, k, x) + Hit(e, k, x)
<1> DEFINE P == Matching(s, k, x)
           Q == Matching(Append(s, e), k, x)
           n == Len(s)
<1>1. /\ n \in Nat /\ DOMAIN s = 1..n /\ DOMAIN Append(s, e) = 1..(n + 1)
      /\ \A i \in 1..n : Append(s, e)[i] = s[i]
      /\ Append(s, e)[n + 1] = e
  OBVIOUS
<1>2. IsFiniteSet(P) /\ Cardinality(P) \in Nat
  BY EventsFinite, FS_CardinalityType
<1>3. n + 1 \notin P
  BY <1>1 DEF Matching
<1>4. \A i : i \in 1..(n + 1) <=> i \in 1..n \/ i = n + 1
  BY <1>1
<1>7. Events(s, k, x) = Cardinality(P) /\ Events(Append(s, e), k, x) = Cardinality(Q)
  BY DEF Events, Matching
<1>5. CASE e.key = k /\ e.access = x
  <2>1. Q = P \cup {n + 1}
    BY <1>1, <1>4, <1>5 DEF Matching
  <2>2. Cardinality(P \cup {n + 1}) = Cardinality(P) + 1
    BY <1>2, <1>3, FS_AddElement
  <2> QED
    BY <1>7, <1>5, <2>1, <2>2 DEF Hit
<1>6. CASE ~(e.key = k /\ e.access = x)
  <2>1. Q = P
    BY <1>1, <1>4, <1>6 DEF Matching
  <2> QED
    BY <1>7, <1>2, <1>6, <2>1 DEF Hit
<1> QED
  BY <1>5, <1>6

(* The first event taken off. *)
LEMMA EventsTail ==
  ASSUME NEW s \in Seq(Event), s # <<>>, NEW k, NEW x
  PROVE  Events(s, k, x) = Hit(Head(s), k, x) + Events(Tail(s), k, x)
<1> DEFINE P == Matching(s, k, x)
           Q == Matching(Tail(s), k, x)
           n == Len(s)
           R == P \ {1}
<1>1. /\ n \in Nat /\ n >= 1 /\ DOMAIN s = 1..n /\ DOMAIN Tail(s) = 1..(n - 1)
      /\ \A i \in 1..(n - 1) : Tail(s)[i] = s[i + 1]
      /\ Head(s) = s[1] /\ Tail(s) \in Seq(Event)
  OBVIOUS
<1>2. IsFiniteSet(P) /\ IsFiniteSet(Q) /\ Cardinality(P) \in Nat /\ Cardinality(Q) \in Nat
  BY <1>1, EventsFinite, FS_CardinalityType
<1>3. \A i \in Int : i \in Q <=> i + 1 \in R
  <2> SUFFICES ASSUME NEW i \in Int PROVE i \in Q <=> i + 1 \in R
    OBVIOUS
  <2>1. i \in 1..(n - 1) <=> i + 1 \in (1..n) \ {1}
    BY <1>1
  <2>2. i \in Q <=> i \in 1..(n - 1) /\ s[i + 1].key = k /\ s[i + 1].access = x
    BY <1>1 DEF Matching
  <2>3. i + 1 \in R <=> i + 1 \in (1..n) \ {1} /\ s[i + 1].key = k /\ s[i + 1].access = x
    BY <1>1 DEF Matching
  <2> QED
    BY <2>1, <2>2, <2>3
<1>4. Q \in SUBSET Int /\ R \in SUBSET Int
  BY <1>1 DEF Matching
<1>5. Cardinality(R) = Cardinality(Q)
  <2> HIDE DEF Q, R
  <2> QED
    BY <1>2, <1>3, <1>4, ShiftedSize
<1>6. 1 \in P <=> Head(s).key = k /\ Head(s).access = x
  BY <1>1 DEF Matching
<1>9. Events(s, k, x) = Cardinality(P) /\ Events(Tail(s), k, x) = Cardinality(Q)
  BY DEF Events, Matching
<1> HIDE DEF P, Q
<1>7. CASE 1 \in P
  <2>1. Cardinality(R) = Cardinality(P) - 1
    BY <1>2, <1>7, FS_RemoveElement
  <2>2. Hit(Head(s), k, x) = 1
    BY <1>6, <1>7 DEF Hit
  <2> QED
    BY <1>2, <1>5, <1>9, <2>1, <2>2
<1>8. CASE 1 \notin P
  <2>1. R = P
    BY <1>8
  <2>2. Hit(Head(s), k, x) = 0
    BY <1>6, <1>8 DEF Hit
  <2>3. Cardinality(P) = Cardinality(Q)
    BY <1>5, <2>1
  <2> QED
    BY <1>2, <1>9, <2>2, <2>3
<1> QED
  BY <1>7, <1>8

(* A single event. *)
LEMMA EventsOne ==
  ASSUME NEW e \in Event, NEW k, NEW x
  PROVE  Events(<<e>>, k, x) = Hit(e, k, x)
<1>1. <<e>> = Append(<<>>, e)
  OBVIOUS
<1>2. Events(Append(<<>>, e), k, x) = Events(<<>>, k, x) + Hit(e, k, x)
  <2>1. <<>> \in Seq(Event)
    OBVIOUS
  <2> QED
    BY <2>1, EventsAppend
<1> QED
  BY <1>1, <1>2, EventsEmpty DEF Hit

(* A command that can succeed plans one event for each of its accesses. *)
LEMMA PlannedTouches ==
  ASSUME CommandsTypeOK, NEW a \in Requests, CanSucceed(a), NEW k \in Key, NEW x \in Access
  PROVE  Events(planned_observations(a), k, x) = Touches(a, k, x)
<1>a. \A m, n \in Named : Is(a, m) /\ Is(a, n) => m = n
  BY OneName
<1>b. Len(a) \in Nat
  BY RequestArguments
<1>c. planned_observations(a) \in Seq(Event)
  BY PlannedEvents
<1>d. ASSUME NEW e, planned_observations(a) = <<e>>
      PROVE  Events(planned_observations(a), k, x) = Hit(e, k, x)
  <2>1. e \in Event
    BY <1>c, <1>d
  <2> QED
    BY <1>d, <2>1, EventsOne
<1>1. CASE Is(a, "GET")
  <2>1. planned_observations(a) = <<ReadEvent("Get", a[2])>>
    BY <1>1, <1>a DEF planned_observations, Named, CanSucceed
  <2>2. Touches(a, k, x) = IF x = "Read" /\ a[2] = k THEN 1 ELSE 0
    BY <1>1, <1>a DEF Touches, Named
  <2> QED
    BY <1>d, <2>1, <2>2 DEF Hit, ReadEvent
<1>2. CASE Is(a, "TTL")
  <2>1. planned_observations(a) = <<ReadEvent("Ttl", a[2])>>
    BY <1>2, <1>a DEF planned_observations, Named, CanSucceed
  <2>2. Touches(a, k, x) = IF x = "Read" /\ a[2] = k THEN 1 ELSE 0
    BY <1>2, <1>a DEF Touches, Named
  <2> QED
    BY <1>d, <2>1, <2>2 DEF Hit, ReadEvent
<1>3. CASE Is(a, "SET")
  <2>1. planned_observations(a) = <<WriteEvent("Set", a[2], Size[a[3]])>>
    BY <1>3, <1>a DEF planned_observations, Named, CanSucceed
  <2>2. Touches(a, k, x) = IF x = "Write" /\ a[2] = k THEN 1 ELSE 0
    BY <1>3, <1>a DEF Touches, Named
  <2> QED
    BY <1>d, <2>1, <2>2 DEF Hit, WriteEvent
<1>4. CASE Is(a, "EXPIRE")
  <2>1. planned_observations(a) = <<WriteEvent("Expire", a[2], None)>>
    BY <1>4, <1>a DEF planned_observations, Named, CanSucceed
  <2>2. Touches(a, k, x) = IF x = "Write" /\ a[2] = k THEN 1 ELSE 0
    BY <1>4, <1>a DEF Touches, Named
  <2> QED
    BY <1>d, <2>1, <2>2 DEF Hit, WriteEvent
<1>5. CASE Is(a, "DEL")
  <2> DEFINE s == [i \in 1..(Len(a) - 1) |-> WriteEvent("Delete", a[i + 1], None)]
             T == {i \in 2..Len(a) : a[i] = k}
  <2>1. planned_observations(a) = s
    BY <1>5, <1>a DEF planned_observations, Named
  <2>2. /\ DOMAIN s = 1..(Len(a) - 1)
        /\ \A i \in 1..(Len(a) - 1) : s[i].key = a[i + 1] /\ s[i].access = "Write"
    BY DEF WriteEvent
  <2>3. CASE x = "Write"
    <3>1. Touches(a, k, x) = Cardinality(T)
      BY <1>5, <1>a, <2>3 DEF Touches, Named
    <3>2. \A i \in Int : i \in Matching(s, k, x) <=> i + 1 \in T
      <4> SUFFICES ASSUME NEW i \in Int PROVE i \in Matching(s, k, x) <=> i + 1 \in T
        OBVIOUS
      <4>1. i \in 1..(Len(a) - 1) <=> i + 1 \in 2..Len(a)
        BY <1>b
      <4>2. i \in Matching(s, k, x) <=> i \in 1..(Len(a) - 1) /\ a[i + 1] = k
        BY <2>2, <2>3 DEF Matching
      <4> QED
        BY <4>1, <4>2
    <3>3. IsFiniteSet(Matching(s, k, x))
      BY <1>c, <2>1, EventsFinite
    <3>4. Matching(s, k, x) \in SUBSET Int /\ T \in SUBSET Int
      BY <2>2 DEF Matching
    <3> HIDE DEF T, s
    <3>5. Cardinality(T) = Cardinality(Matching(s, k, x))
      BY <3>2, <3>3, <3>4, ShiftedSize
    <3> QED
      BY <2>1, <3>1, <3>5 DEF Events, Matching
  <2>4. CASE x = "Read"
    <3>1. Touches(a, k, x) = 0
      BY <1>5, <1>a, <2>4 DEF Touches, Named
    <3>2. Matching(s, k, x) = {}
      BY <2>2, <2>4 DEF Matching
    <3> HIDE DEF s
    <3> QED
      BY <2>1, <3>1, <3>2, FS_EmptySet DEF Events, Matching
  <2> QED
    BY <2>3, <2>4 DEF Access
<1>6. CASE ~Is(a, "GET") /\ ~Is(a, "TTL") /\ ~Is(a, "SET") /\ ~Is(a, "EXPIRE") /\ ~Is(a, "DEL")
  <2>1. planned_observations(a) = <<>> /\ Touches(a, k, x) = 0
    BY <1>6 DEF planned_observations, Touches
  <2> QED
    BY <2>1, EventsEmpty
<1> QED
  BY <1>1, <1>2, <1>3, <1>4, <1>5, <1>6

-----------------------------------------------------------------------------
(* The log and the accesses of the commands.                               *)

(* Until a command has answered it plans an event for each of its          *)
(* accesses; then no more than these, and none when the reply is sent.     *)
PlanOK ==
  \A c \in Conn :
    /\ \A k \in Key, x \in Access :
         /\ pc[c] = "dispatch" /\ CanSucceed(args[c]) =>
              Events(planned[c], k, x) = Touches(args[c], k, x)
         /\ Answering(c) => Events(planned[c], k, x) <= Touches(args[c], k, x)
    /\ pc[c] = "reply" => planned[c] = <<>>

(* What a command that succeeds has recorded before its reply. *)
Ahead(k, x) ==
  [c \in Conn |-> IF Answering(c)
                  THEN Touches(args[c], k, x) - Events(planned[c], k, x) ELSE 0]

LoggedOK ==
  \A k \in Key, x \in Access :
    Events(log, k, x) = touched[k][x] + SumOver(Ahead(k, x), Conn)

(* What is recorded ahead of the replies is a natural number. *)
LEMMA AheadNat ==
  ASSUME CommandsTypeOK, PlanOK, NEW k \in Key, NEW x \in Access
  PROVE  /\ \A c \in Conn : Ahead(k, x)[c] \in Nat
         /\ SumOver(Ahead(k, x), Conn) \in Nat
         /\ touched[k][x] \in Nat /\ Events(log, k, x) \in Nat
<1>1. ASSUME NEW c \in Conn PROVE Ahead(k, x)[c] \in Nat
  <2>1. CASE Answering(c)
    <3>1. args[c] \in Requests /\ planned[c] \in Seq(Event)
      BY <2>1 DEF CommandsTypeOK, Answering
    <3>2. Touches(args[c], k, x) \in Nat /\ Events(planned[c], k, x) \in Nat
      BY <3>1, TouchesNat, EventsFinite
    <3>3. Events(planned[c], k, x) <= Touches(args[c], k, x)
      BY <2>1 DEF PlanOK
    <3> QED
      BY <2>1, <3>2, <3>3 DEF Ahead
  <2>2. CASE ~Answering(c)
    BY <2>2 DEF Ahead
  <2> QED
    BY <2>1, <2>2
<1>2. SumOver(Ahead(k, x), Conn) \in Nat
  BY <1>1, SumNat, CommandsAssumption
<1>3. touched[k][x] \in Nat
  BY DEF CommandsTypeOK
<1>4. Events(log, k, x) \in Nat
  BY EventsFinite DEF CommandsTypeOK
<1> QED
  BY <1>1, <1>2, <1>3, <1>4

(* At first nothing is planned and nothing logged. *)
LEMMA LoggedInit == Init => PlanOK /\ LoggedOK
<1> SUFFICES ASSUME Init PROVE PlanOK /\ LoggedOK
  OBVIOUS
<1>1. PlanOK
  BY DEF PlanOK, Init, Answering
<1>2. ASSUME NEW k \in Key, NEW x \in Access
      PROVE  Events(log, k, x) = touched[k][x] + SumOver(Ahead(k, x), Conn)
  <2>1. \A c \in Conn : Ahead(k, x)[c] = 0
    BY DEF Ahead, Answering, Init
  <2>2. SumOver(Ahead(k, x), Conn) = 0
    BY <2>1, SumZeros, CommandsAssumption
  <2>3. touched[k][x] = 0 /\ log = <<>>
    BY DEF Init
  <2> QED
    BY <2>2, <2>3, EventsEmpty
<1> QED
  BY <1>1, <1>2 DEF LoggedOK

(* Every step keeps the plans of the commands. *)
LEMMA PlanStep ==
  CommandsTypeOK /\ PlanOK /\ [Next]_vars => PlanOK'
<1> SUFFICES ASSUME CommandsTypeOK, PlanOK, [Next]_vars PROVE PlanOK'
  OBVIOUS
<1>1. ASSUME NEW c \in Conn, Receive(c) PROVE PlanOK'
  <2>1. PICK a \in Requests :
          /\ args' = [args EXCEPT ![c] = a]
          /\ planned' = [planned EXCEPT ![c] = planned_observations(a)]
    BY <1>1 DEF Receive
  <2>2. /\ pc'[c] = "dispatch" /\ reply' = reply
        /\ args'[c] = a /\ planned'[c] = planned_observations(a)
        /\ \A d \in Conn : d # c => /\ pc'[d] = pc[d] /\ args'[d] = args[d]
                                    /\ planned'[d] = planned[d]
    BY <1>1, <2>1 DEF Receive, CommandsTypeOK
  <2>3. CanSucceed(a) => \A k \in Key, x \in Access :
          Events(planned_observations(a), k, x) = Touches(a, k, x)
    BY PlannedTouches
  <2> QED
    BY <2>2, <2>3 DEF PlanOK, Answering
<1>2. ASSUME NEW c \in Conn, dispatch_command(c) PROVE PlanOK'
  <2>1. /\ pc[c] = "dispatch" /\ args[c] \in Requests
        /\ Answers(c) \/ Deletes(c)
    BY <1>2, DispatchEffect
  <2>a. UNCHANGED <<args, planned>>
    BY <1>2, DispatchEffect
  <2>2. CASE Answers(c)
    <3>1. PICK r : Respond(c, r) /\ (~is_error_response(r) => CanSucceed(args[c]))
      BY <2>2 DEF Answers
    <3>2. /\ pc'[c] = "observe" /\ reply'[c] = r
          /\ \A d \in Conn : d # c => pc'[d] = pc[d] /\ reply'[d] = reply[d]
      BY <3>1 DEF Respond, CommandsTypeOK
    <3>3. ASSUME NEW k \in Key, NEW x \in Access, ~is_error_response(r)
          PROVE  Events(planned[c], k, x) <= Touches(args[c], k, x)
      <4>1. Events(planned[c], k, x) = Touches(args[c], k, x)
        BY <2>1, <3>1, <3>3 DEF PlanOK
      <4>2. Touches(args[c], k, x) \in Nat
        BY <2>1, TouchesNat
      <4> QED
        BY <4>1, <4>2
    <3> QED
      BY <2>a, <3>2, <3>3 DEF PlanOK, Answering
  <2>3. CASE Deletes(c)
    BY <2>a, <2>3 DEF Deletes, PlanOK, Answering
  <2> QED
    BY <2>1, <2>2, <2>3
<1>3. ASSUME NEW c \in Conn, observe_command_result(c) PROVE PlanOK'
  <2>1. /\ pc[c] = "observe" /\ UNCHANGED <<args, reply>>
        /\ \A d \in Conn : d # c => pc'[d] = pc[d] /\ planned'[d] = planned[d]
    BY <1>3 DEF observe_command_result, CommandsTypeOK
  <2>2. args[c] \in Requests /\ planned[c] \in Seq(Event)
    BY <2>1 DEF CommandsTypeOK
  <2>3. \/ /\ ~is_error_response(reply[c]) /\ planned[c] # <<>>
           /\ planned'[c] = Tail(planned[c]) /\ pc'[c] = "observe"
        \/ planned'[c] = <<>> /\ pc'[c] = "reply"
    BY <1>3, <2>1 DEF observe_command_result, CommandsTypeOK
  <2>4. ASSUME NEW k \in Key, NEW x \in Access, Answering(c)
        PROVE  Events(planned'[c], k, x) <= Touches(args[c], k, x)
    <3>1. /\ Touches(args[c], k, x) \in Nat /\ Events(planned[c], k, x) \in Nat
          /\ Events(planned[c], k, x) <= Touches(args[c], k, x)
      BY <2>2, <2>4, TouchesNat, EventsFinite DEF PlanOK
    <3>2. CASE planned'[c] = <<>>
      BY <3>1, <3>2, EventsEmpty
    <3>3. CASE planned[c] # <<>> /\ planned'[c] = Tail(planned[c])
      <4>1. Events(planned[c], k, x) = Hit(Head(planned[c]), k, x) + Events(Tail(planned[c]), k, x)
        BY <2>2, <3>3, EventsTail
      <4>a. Tail(planned[c]) \in Seq(Event)
        BY <2>2, <3>3
      <4>b. Events(Tail(planned[c]), k, x) \in Nat
        BY <4>a, EventsFinite
      <4>2. Hit(Head(planned[c]), k, x) \in Nat /\ Events(Tail(planned[c]), k, x) \in Nat
        BY <4>b DEF Hit
      <4> QED
        BY <3>1, <3>3, <4>1, <4>2
    <3> QED
      BY <2>3, <3>2, <3>3
  <2> QED
    BY <2>1, <2>3, <2>4 DEF PlanOK, Answering
<1>4. ASSUME NEW c \in Conn, Reply(c) PROVE PlanOK'
  <2>1. /\ pc'[c] = "idle" /\ planned' = planned
        /\ \A d \in Conn : d # c => /\ pc'[d] = pc[d] /\ args'[d] = args[d]
                                    /\ reply'[d] = reply[d]
    BY <1>4 DEF Reply, CommandsTypeOK
  <2> QED
    BY <2>1 DEF PlanOK, Answering
<1>5. CASE Tick \/ Done \/ UNCHANGED vars
  BY <1>5 DEF Tick, Done, vars, PlanOK, Answering
<1> QED
  BY <1>1, <1>2, <1>3, <1>4, <1>5 DEF Next

(* What one command has recorded ahead of its reply changes. *)
LEMMA AheadChange ==
  ASSUME CommandsTypeOK, PlanOK, CommandsTypeOK', PlanOK',
         NEW k \in Key, NEW x \in Access, NEW c \in Conn,
         \A d \in Conn : d # c => Ahead(k, x)'[d] = Ahead(k, x)[d]
  PROVE  SumOver(Ahead(k, x)', Conn)
           = SumOver(Ahead(k, x), Conn) + (Ahead(k, x)'[c] - Ahead(k, x)[c])
<1> DEFINE f == Ahead(k, x)
           g == Ahead(k, x)'
<1>0. \A j \in Key, y \in Access : \A d \in Conn : Ahead(j, y)[d] \in Int
  <2>1. \A j \in Key, y \in Access : \A d \in Conn : Ahead(j, y)[d] \in Nat
    BY AheadNat
  <2> QED
    BY <2>1
<1>1. \A d \in Conn : f[d] \in Int
  BY <1>0
<1>2. \A d \in Conn : g[d] \in Int
  <2> SUFFICES ASSUME NEW d \in Conn PROVE g[d] \in Int
    OBVIOUS
  <2>1. g[d] = IF Answering(d)' THEN Touches(args'[d], k, x) - Events(planned'[d], k, x) ELSE 0
    BY DEF Ahead, Touches, Events
  <2>2. CASE Answering(d)'
    <3>1. args'[d] \in Requests /\ planned'[d] \in Seq(Event)
      BY <2>2 DEF CommandsTypeOK, Answering
    <3>2. Touches(args'[d], k, x) \in Nat /\ Events(planned'[d], k, x) \in Nat
      BY <3>1, TouchesNat, EventsFinite
    <3> QED
      BY <2>1, <2>2, <3>2
  <2>3. CASE ~Answering(d)'
    BY <2>1, <2>3
  <2> QED
    BY <2>2, <2>3
<1>3. IsFiniteSet(Conn)
  BY CommandsAssumption
<1>4. \A d \in Conn : f[d] \in Int /\ g[d] \in Int
  BY <1>1, <1>2
<1>5. \A d \in Conn : d # c => f[d] = g[d]
  OBVIOUS
<1> HIDE DEF f, g
<1>6. SumOver(g, Conn) = SumOver(f, Conn) + (g[c] - f[c])
  BY <1>3, <1>4, <1>5, SumChange
<1> QED
  BY <1>6 DEF f, g

(* Every step keeps the account of the log. *)
LEMMA LoggedStep ==
  CommandsTypeOK /\ DelOK /\ PlanOK /\ LoggedOK /\ [Next]_vars => LoggedOK'
<1> SUFFICES ASSUME CommandsTypeOK, DelOK, PlanOK, LoggedOK, [Next]_vars,
                    NEW k \in Key, NEW x \in Access
             PROVE  Events(log', k, x) = touched'[k][x] + SumOver(Ahead(k, x)', Conn)
  BY DEF LoggedOK, Events
<1>a. CommandsTypeOK' /\ PlanOK'
  BY CommandsTypeStep, PlanStep
<1>b. /\ Events(log, k, x) = touched[k][x] + SumOver(Ahead(k, x), Conn)
      /\ SumOver(Ahead(k, x), Conn) \in Nat /\ touched[k][x] \in Nat
      /\ \A c \in Conn : Ahead(k, x)[c] \in Nat
  BY AheadNat DEF LoggedOK
<1>c. ASSUME NEW d \in Conn,
             pc'[d] = pc[d], args'[d] = args[d], planned'[d] = planned[d], reply'[d] = reply[d]
      PROVE  Ahead(k, x)'[d] = Ahead(k, x)[d]
  <2>1. Ahead(k, x)[d] = IF Answering(d) THEN Touches(args[d], k, x) - Events(planned[d], k, x) ELSE 0
    BY DEF Ahead
  <2>2. Ahead(k, x)'[d] = IF Answering(d)' THEN Touches(args'[d], k, x) - Events(planned'[d], k, x) ELSE 0
    BY DEF Ahead, Touches, Events
  <2>3. Answering(d)' <=> Answering(d)
    BY <1>c DEF Answering, is_error_response
  <2> QED
    BY <1>c, <2>1, <2>2, <2>3
<1>d. ASSUME NEW d \in Conn, ~Answering(d) PROVE Ahead(k, x)[d] = 0
  BY <1>d DEF Ahead
<1>e. ASSUME NEW d \in Conn, ~Answering(d)' PROVE Ahead(k, x)'[d] = 0
  BY <1>e DEF Ahead
<1>f. ASSUME NEW d \in Conn, Answering(d)'
      PROVE  Ahead(k, x)'[d] = Touches(args'[d], k, x) - Events(planned'[d], k, x)
  BY <1>f DEF Ahead, Touches, Events
<1>1. ASSUME NEW c \in Conn, Receive(c)
      PROVE  Events(log', k, x) = touched'[k][x] + SumOver(Ahead(k, x)', Conn)
  <2>1. /\ pc[c] = "idle" /\ pc'[c] = "dispatch" /\ UNCHANGED <<log, touched>>
        /\ \A d \in Conn : d # c => /\ pc'[d] = pc[d] /\ args'[d] = args[d]
                                    /\ planned'[d] = planned[d] /\ reply'[d] = reply[d]
    BY <1>1 DEF Receive, CommandsTypeOK
  <2>2. Ahead(k, x)[c] = 0 /\ Ahead(k, x)'[c] = 0
    BY <1>d, <1>e, <2>1 DEF Answering
  <2>3. SumOver(Ahead(k, x)', Conn) = SumOver(Ahead(k, x), Conn) + (Ahead(k, x)'[c] - Ahead(k, x)[c])
    BY <1>a, <1>c, <2>1, AheadChange
  <2> QED
    BY <1>b, <2>1, <2>2, <2>3
<1>2. ASSUME NEW c \in Conn, dispatch_command(c)
      PROVE  Events(log', k, x) = touched'[k][x] + SumOver(Ahead(k, x)', Conn)
  <2>1. /\ pc[c] = "dispatch" /\ args[c] \in Requests
        /\ UNCHANGED <<log, args, planned, touched>>
    BY <1>2, DispatchEffect DEF history
  <2>2. Answers(c) \/ Deletes(c)
    BY <1>2, DispatchEffect
  <2>3. \A d \in Conn : d # c => pc'[d] = pc[d] /\ reply'[d] = reply[d]
    BY <2>2 DEF Answers, Deletes, Respond, CommandsTypeOK
  <2>4. Ahead(k, x)[c] = 0
    BY <1>d, <2>1 DEF Answering
  <2>5. Ahead(k, x)'[c] = 0
    <3>1. CASE ~Answering(c)'
      BY <1>e, <3>1
    <3>2. CASE Answering(c)'
      <4>1. Answers(c)
        BY <2>1, <2>2, <3>2 DEF Deletes, Answering
      <4>2. PICK r : Respond(c, r) /\ (~is_error_response(r) => CanSucceed(args[c]))
        BY <4>1 DEF Answers
      <4>3. reply'[c] = r
        BY <4>2 DEF Respond, CommandsTypeOK
      <4>4. CanSucceed(args[c])
        BY <3>2, <4>2, <4>3 DEF Answering, is_error_response
      <4>5. Events(planned[c], k, x) = Touches(args[c], k, x)
        BY <2>1, <4>4 DEF PlanOK
      <4>6. Touches(args[c], k, x) \in Nat
        BY <2>1, TouchesNat
      <4> QED
        BY <1>f, <2>1, <3>2, <4>5, <4>6
    <3> QED
      BY <3>1, <3>2
  <2>6. SumOver(Ahead(k, x)', Conn) = SumOver(Ahead(k, x), Conn) + (Ahead(k, x)'[c] - Ahead(k, x)[c])
    BY <1>a, <1>c, <2>1, <2>3, AheadChange
  <2> QED
    BY <1>b, <2>1, <2>4, <2>5, <2>6
<1>3. ASSUME NEW c \in Conn, observe_command_result(c)
      PROVE  Events(log', k, x) = touched'[k][x] + SumOver(Ahead(k, x)', Conn)
  <2>1. /\ pc[c] = "observe" /\ UNCHANGED <<args, reply, touched>>
        /\ \A d \in Conn : d # c => pc'[d] = pc[d] /\ planned'[d] = planned[d]
    BY <1>3 DEF observe_command_result, CommandsTypeOK
  <2>2. args[c] \in Requests /\ planned[c] \in Seq(Event) /\ log \in Seq(Event)
    BY <2>1 DEF CommandsTypeOK
  <2>3. SumOver(Ahead(k, x)', Conn) = SumOver(Ahead(k, x), Conn) + (Ahead(k, x)'[c] - Ahead(k, x)[c])
    BY <1>a, <1>c, <2>1, AheadChange
  <2>4. CASE ~is_error_response(reply[c]) /\ planned[c] # <<>>
    <3> DEFINE e == Head(planned[c])
    <3>1. /\ log' = Append(log, e) /\ pc' = pc
          /\ planned'[c] = Tail(planned[c])
      BY <1>3, <2>4 DEF observe_command_result, record_observation, CommandsTypeOK
    <3>2. e \in Event /\ Tail(planned[c]) \in Seq(Event)
      BY <2>2, <2>4
    <3>3. Answering(c) /\ Answering(c)'
      BY <2>1, <2>4, <3>1 DEF Answering
    <3>4. /\ Ahead(k, x)[c] = Touches(args[c], k, x) - Events(planned[c], k, x)
          /\ Ahead(k, x)'[c] = Touches(args[c], k, x) - Events(Tail(planned[c]), k, x)
      BY <1>f, <2>1, <3>1, <3>3 DEF Ahead
    <3>5. Events(planned[c], k, x) = Hit(e, k, x) + Events(Tail(planned[c]), k, x)
      BY <2>2, <2>4, EventsTail
    <3>6. Events(Append(log, e), k, x) = Events(log, k, x) + Hit(e, k, x)
      BY <2>2, <3>2, EventsAppend
    <3>7. /\ Touches(args[c], k, x) \in Nat /\ Hit(e, k, x) \in Nat
          /\ Events(Tail(planned[c]), k, x) \in Nat
      BY <2>2, <3>2, TouchesNat, EventsFinite DEF Hit
    <3> HIDE DEF e
    <3>8. Ahead(k, x)'[c] - Ahead(k, x)[c] = Hit(e, k, x)
      BY <3>4, <3>5, <3>7
    <3>9. \A p, q, r \in Nat : (p + q) + r = p + (q + r)
      OBVIOUS
    <3> QED
      BY <1>b, <2>1, <2>3, <3>1, <3>6, <3>7, <3>8, <3>9
  <2>5. CASE ~(~is_error_response(reply[c]) /\ planned[c] # <<>>)
    <3>1. log' = log /\ pc'[c] = "reply" /\ planned'[c] = <<>>
      BY <1>3, <2>5 DEF observe_command_result, CommandsTypeOK
    <3>2. Ahead(k, x)'[c] = Ahead(k, x)[c]
      <4>1. CASE is_error_response(reply[c])
        <5>1. ~Answering(c) /\ ~Answering(c)'
          BY <2>1, <4>1 DEF Answering, is_error_response
        <5> QED
          BY <1>d, <1>e, <5>1
      <4>2. CASE ~is_error_response(reply[c])
        <5>1. planned[c] = <<>> /\ Answering(c) /\ Answering(c)'
          BY <2>1, <2>5, <3>1, <4>2 DEF Answering, is_error_response
        <5>2. /\ Ahead(k, x)[c] = Touches(args[c], k, x) - Events(planned[c], k, x)
              /\ Ahead(k, x)'[c] = Touches(args[c], k, x) - Events(planned[c], k, x)
          BY <1>f, <2>1, <3>1, <5>1 DEF Ahead
        <5> QED
          BY <5>2
      <4> QED
        BY <4>1, <4>2
    <3>3. Ahead(k, x)[c] \in Nat
      BY <1>b
    <3> QED
      BY <1>b, <2>1, <2>3, <3>1, <3>2, <3>3
  <2> QED
    BY <2>4, <2>5
<1>4. ASSUME NEW c \in Conn, Reply(c)
      PROVE  Events(log', k, x) = touched'[k][x] + SumOver(Ahead(k, x)', Conn)
  <2>1. /\ pc[c] = "reply" /\ pc'[c] = "idle" /\ UNCHANGED <<log, planned>>
        /\ \A d \in Conn : d # c => /\ pc'[d] = pc[d] /\ args'[d] = args[d]
                                    /\ reply'[d] = reply[d]
    BY <1>4 DEF Reply, CommandsTypeOK
  <2>2. SumOver(Ahead(k, x)', Conn) = SumOver(Ahead(k, x), Conn) + (Ahead(k, x)'[c] - Ahead(k, x)[c])
    BY <1>a, <1>c, <2>1, AheadChange
  <2>3. Ahead(k, x)'[c] = 0
    BY <1>e, <2>1 DEF Answering
  <2>4. args[c] \in Requests /\ planned[c] = <<>>
    BY <2>1 DEF CommandsTypeOK, PlanOK
  <2>5. CASE is_error_response(reply[c])
    <3>1. touched' = touched
      BY <1>4, <2>5 DEF Reply
    <3>2. Ahead(k, x)[c] = 0
      BY <1>d, <2>5 DEF Answering
    <3> QED
      BY <1>b, <2>1, <2>2, <2>3, <3>1, <3>2
  <2>6. CASE ~is_error_response(reply[c])
    <3>1. touched'[k][x] = touched[k][x] + Touches(args[c], k, x)
      BY <1>4, <2>6 DEF Reply
    <3>2. Touches(args[c], k, x) \in Nat
      BY <2>4, TouchesNat
    <3>3. Ahead(k, x)[c] = Touches(args[c], k, x)
      <4>1. Ahead(k, x)[c] = Touches(args[c], k, x) - Events(planned[c], k, x)
        BY <2>1, <2>6 DEF Ahead, Answering
      <4> QED
        BY <2>4, <3>2, <4>1, EventsEmpty
    <3> QED
      BY <1>b, <2>1, <2>2, <2>3, <3>1, <3>2, <3>3
  <2> QED
    BY <2>5, <2>6
<1>5. CASE Tick \/ Done \/ UNCHANGED vars
  <2>1. UNCHANGED <<log, touched, pc, args, planned, reply>>
    BY <1>5 DEF Tick, Done, vars, history
  <2>2. Ahead(k, x)' = Ahead(k, x)
    BY <2>1 DEF Ahead, Answering, Events, Touches
  <2> QED
    BY <1>b, <2>1, <2>2
<1> QED
  BY <1>1, <1>2, <1>3, <1>4, <1>5 DEF Next

-----------------------------------------------------------------------------
(* The sizes in the log.                                                   *)

LargestSize == Max({Size[v] : v \in DOMAIN Size})

(* Only writes carry a size, that of some value. *)
Sized(e) == e.value_size <= IF e.access = "Write" THEN LargestSize ELSE 0

SizesOK ==
  /\ \A i \in DOMAIN log : Sized(log[i])
  /\ \A c \in Conn : \A i \in DOMAIN planned[c] : Sized(planned[c][i])

(* There is a largest size. *)
LEMMA LargestOfSizes ==
  LargestSize \in Nat /\ \A v \in DOMAIN Size : Size[v] <= LargestSize
<1> DEFINE S == {Size[v] : v \in DOMAIN Size}
<1>1. \A v \in DOMAIN Size : Size[v] \in Nat
  BY CommandsAssumption
<1>2. S \in SUBSET Int /\ S \in SUBSET Nat /\ S # {}
  BY <1>1, CommandsAssumption
<1>3. IsFiniteSet(S)
  <2>1. IsFiniteSet(DOMAIN Size)
    BY CommandsAssumption
  <2> DEFINE f == [v \in DOMAIN Size |-> Size[v]]
  <2>2. f \in Surjection(DOMAIN Size, S)
    BY DEF Surjection
  <2> QED
    BY <2>1, <2>2, FS_Surjection
<1>4. \A v \in DOMAIN Size : Size[v] \in S
  OBVIOUS
<1> HIDE DEF S
<1>5. \E x \in S : \A y \in S : x >= y
  BY <1>2, <1>3, GreatestElement
<1>6. Max(S) \in S /\ \A y \in S : Max(S) >= y
  BY <1>5 DEF Max
<1>7. LargestSize = Max(S)
  BY DEF LargestSize, S
<1> QED
  BY <1>2, <1>4, <1>6, <1>7

(* planned_observations gives a size to writes only. *)
LEMMA PlannedSizes ==
  ASSUME NEW a \in Requests
  PROVE  \A i \in DOMAIN planned_observations(a) : Sized(planned_observations(a)[i])
<1>1. ASSUME NEW k
      PROVE  /\ Sized(ReadEvent("Get", k)) /\ Sized(ReadEvent("Ttl", k))
             /\ Sized(WriteEvent("Delete", k, None)) /\ Sized(WriteEvent("Expire", k, None))
             /\ \A v \in DOMAIN Size : Sized(WriteEvent("Set", k, Size[v]))
  BY LargestOfSizes DEF Sized, ReadEvent, WriteEvent, None
<1>2. ASSUME NEW e, Sized(e) PROVE \A i \in DOMAIN <<e>> : Sized(<<e>>[i])
  BY <1>2
<1>5. CASE Is(a, "GET") /\ Len(a) = 2
  <2>1. planned_observations(a) = <<ReadEvent("Get", a[2])>>
    BY <1>5, OneName DEF planned_observations, Named
  <2> QED
    BY <1>1, <1>2, <2>1
<1>6. CASE Is(a, "SET") /\ (Len(a) = 3 \/ WithExpiry(a))
  <2>1. planned_observations(a) = <<WriteEvent("Set", a[2], Size[a[3]])>>
    BY <1>6, OneName DEF planned_observations, Named
  <2>2. a[3] \in DOMAIN Size
    BY <1>6, RequestArguments DEF WithExpiry
  <2> QED
    BY <1>1, <1>2, <2>1, <2>2
<1>7. CASE Is(a, "DEL")
  <2>1. planned_observations(a) = [i \in 1..(Len(a) - 1) |-> WriteEvent("Delete", a[i + 1], None)]
    BY <1>7, OneName DEF planned_observations, Named
  <2> QED
    BY <1>1, <2>1
<1>8. CASE Is(a, "EXPIRE") /\ Len(a) = 3
  <2>1. planned_observations(a) = <<WriteEvent("Expire", a[2], None)>>
    BY <1>8, OneName DEF planned_observations, Named
  <2> QED
    BY <1>1, <1>2, <2>1
<1>9. CASE Is(a, "TTL") /\ Len(a) = 2
  <2>1. planned_observations(a) = <<ReadEvent("Ttl", a[2])>>
    BY <1>9, OneName DEF planned_observations, Named
  <2> QED
    BY <1>1, <1>2, <2>1
<1> QED
  <2>1. CASE /\ ~(Is(a, "GET") /\ Len(a) = 2) /\ ~(Is(a, "SET") /\ (Len(a) = 3 \/ WithExpiry(a)))
             /\ ~Is(a, "DEL") /\ ~(Is(a, "EXPIRE") /\ Len(a) = 3) /\ ~(Is(a, "TTL") /\ Len(a) = 2)
    <3>1. planned_observations(a) = <<>>
      BY <2>1 DEF planned_observations
    <3>2. DOMAIN <<>> = {}
      OBVIOUS
    <3> QED
      BY <3>1, <3>2
  <2> QED
    BY <1>5, <1>6, <1>7, <1>8, <1>9, <2>1

(* Every step keeps the sizes of the events. *)
LEMMA SizesStep ==
  CommandsTypeOK /\ SizesOK /\ [Next]_vars => SizesOK'
<1> SUFFICES ASSUME CommandsTypeOK, SizesOK, [Next]_vars PROVE SizesOK'
  OBVIOUS
<1>1. ASSUME NEW c \in Conn, Receive(c) PROVE SizesOK'
  <2>1. PICK a \in Requests : planned' = [planned EXCEPT ![c] = planned_observations(a)]
    BY <1>1 DEF Receive
  <2>2. /\ log' = log /\ planned'[c] = planned_observations(a)
        /\ \A d \in Conn : d # c => planned'[d] = planned[d]
    BY <1>1, <2>1 DEF Receive, CommandsTypeOK
  <2>3. \A i \in DOMAIN planned'[c] : Sized(planned'[c][i])
    BY <2>2, PlannedSizes
  <2> QED
    BY <2>2, <2>3 DEF SizesOK, Sized
<1>2. ASSUME NEW c \in Conn, dispatch_command(c) PROVE SizesOK'
  <2>1. UNCHANGED <<log, planned>>
    BY <1>2 DEF dispatch_command
  <2> QED
    BY <2>1 DEF SizesOK, Sized
<1>3. ASSUME NEW c \in Conn, observe_command_result(c) PROVE SizesOK'
  <2>1. planned[c] \in Seq(Event) /\ log \in Seq(Event)
    BY DEF CommandsTypeOK
  <2>2. \A d \in Conn : d # c => planned'[d] = planned[d]
    BY <1>3 DEF observe_command_result, CommandsTypeOK
  <2>3. CASE ~is_error_response(reply[c]) /\ planned[c] # <<>>
    <3>1. log' = Append(log, Head(planned[c])) /\ planned'[c] = Tail(planned[c])
      BY <1>3, <2>3 DEF observe_command_result, record_observation, CommandsTypeOK
    <3>2. /\ Len(planned[c]) \in Nat \ {0} /\ DOMAIN planned[c] = 1..Len(planned[c])
          /\ Head(planned[c]) = planned[c][1] /\ 1 \in DOMAIN planned[c]
          /\ DOMAIN Tail(planned[c]) = 1..(Len(planned[c]) - 1)
          /\ \A i \in 1..(Len(planned[c]) - 1) :
               Tail(planned[c])[i] = planned[c][i + 1] /\ i + 1 \in DOMAIN planned[c]
      BY <2>1, <2>3
    <3>3. \A i \in DOMAIN planned'[c] : Sized(planned'[c][i])
      BY <3>1, <3>2 DEF SizesOK
    <3>4. Sized(Head(planned[c]))
      BY <3>2 DEF SizesOK
    <3>5. /\ DOMAIN log = 1..Len(log) /\ Len(log) \in Nat
          /\ DOMAIN log' = 1..(Len(log) + 1)
          /\ \A i \in 1..Len(log) : log'[i] = log[i]
          /\ log'[Len(log) + 1] = Head(planned[c])
      BY <2>1, <3>1
    <3>6. \A i \in DOMAIN log' : i \in DOMAIN log \/ i = Len(log) + 1
      BY <3>5
    <3>7. \A i \in DOMAIN log' : Sized(log'[i])
      BY <3>4, <3>5, <3>6 DEF SizesOK
    <3> QED
      BY <2>2, <3>3, <3>7 DEF SizesOK, Sized
  <2>4. CASE ~(~is_error_response(reply[c]) /\ planned[c] # <<>>)
    <3>1. log' = log /\ planned'[c] = <<>>
      BY <1>3, <2>4 DEF observe_command_result, CommandsTypeOK
    <3> QED
      BY <2>2, <3>1 DEF SizesOK, Sized
  <2> QED
    BY <2>3, <2>4
<1>4. ASSUME NEW c \in Conn, Reply(c) PROVE SizesOK'
  <2>1. UNCHANGED <<log, planned>>
    BY <1>4 DEF Reply
  <2> QED
    BY <2>1 DEF SizesOK, Sized
<1>5. CASE Tick \/ Done \/ UNCHANGED vars
  BY <1>5 DEF Tick, Done, vars, SizesOK, Sized
<1> QED
  BY <1>1, <1>2, <1>3, <1>4, <1>5 DEF Next

-----------------------------------------------------------------------------
(* The invariant, and what follows from it.                                *)

CommandsInv ==
  /\ CommandsTypeOK
  /\ DelOK
  /\ RealTimeOK
  /\ CountedOK
  /\ PlanOK
  /\ LoggedOK
  /\ SizesOK

(* The invariant holds in every behaviour. *)
LEMMA CommandsInvariant == Spec => []CommandsInv
<1>1. Init => CommandsInv
  <2>1. Init => DelOK /\ SizesOK
    BY DEF Init, DelOK, Answering, SizesOK
  <2> QED
    BY <2>1, CommandsTypeInit, RealTimeInit, CountedInit, LoggedInit DEF CommandsInv
<1>2. CommandsInv /\ [Next]_vars => CommandsInv'
  BY CommandsTypeStep, DelStep, RealTimeStep, CountedStep, PlanStep, LoggedStep, SizesStep
     DEF CommandsInv
<1> QED
  BY <1>1, <1>2, PTL DEF Spec

(* The log respects real time, for any number of connections and commands: *)
(* no event precedes one of a command that had been answered before its    *)
(* own command arrived, although dispatch_command pushes events after the  *)
(* engine call and without a lock of its own.                              *)
THEOREM RealTimeLog == Spec => []LogRealTimeOrder
<1>1. CommandsInv => LogRealTimeOrder
  BY DEF CommandsInv, RealTimeOK
<1> QED
  BY <1>1, CommandsInvariant, PTL

(* The counts that handle_del answers never add up to more than the keys   *)
(* that were there, for any number of connections, keys and commands.      *)
THEOREM DelCountsOnce == Spec => []DelNeverOvercounts
<1>1. CommandsInv => DelNeverOvercounts
  BY RemovedSum DEF CommandsInv, CountedOK, LiveKeys, DelNeverOvercounts
<1> QED
  BY <1>1, CommandsInvariant, PTL

-----------------------------------------------------------------------------
(* ExactObservationCounter and the counts by key.                          *)

Zero == [total_events |-> 0, reads |-> 0, writes |-> 0, known_value_bytes |-> 0]
Bits(s, x) == [i \in DOMAIN s |-> IF s[i].access = x THEN 1 ELSE 0]
ValueSizes(s) == [i \in DOMAIN s |-> s[i].value_size]
KeyAt(s) == [i \in DOMAIN s |-> s[i].key]

(* What the counter has after the events at the places r of s. *)
CountOf(s, r) ==
  [total_events |-> Cardinality(r),
   reads |-> SumOver(Bits(s, "Read"), r),
   writes |-> SumOver(Bits(s, "Write"), r),
   known_value_bytes |-> SumOver(ValueSizes(s), r)]

(* The places of a sequence of events and what is there. *)
LEMMA PlacesOf ==
  ASSUME NEW s \in Seq(Event)
  PROVE  /\ IsFiniteSet(DOMAIN s) /\ DOMAIN s \subseteq Nat
         /\ \A i \in DOMAIN s : /\ s[i] \in Event
                                /\ s[i].key \in Key /\ s[i].access \in Access
                                /\ ValueSizes(s)[i] \in Nat
         /\ \A x : \A i \in DOMAIN s : Bits(s, x)[i] \in {0, 1}
<1>1. DOMAIN s = 1..Len(s) /\ Len(s) \in Nat /\ \A i \in DOMAIN s : s[i] \in Event
  OBVIOUS
<1>2. IsFiniteSet(DOMAIN s)
  BY <1>1, FS_Interval
<1> QED
  BY <1>1, <1>2 DEF Event, ValueSizes, Bits

(* One more event, whichever it is. *)
LEMMA CountOne ==
  ASSUME NEW s \in Seq(Event), NEW r \in SUBSET DOMAIN s, NEW i \in r
  PROVE  CountOf(s, r) = Counted(CountOf(s, r \ {i}), s[i])
<1> DEFINE q == r \ {i}
<1>1. IsFiniteSet(r) /\ r \subseteq DOMAIN s
  BY PlacesOf, FS_Subset
<1>2. Cardinality(r) = Cardinality(q) + 1
  <2>1. Cardinality(q) = Cardinality(r) - 1 /\ Cardinality(r) \in Nat
    BY <1>1, FS_RemoveElement, FS_CardinalityType
  <2> QED
    BY <2>1
<1>a. \A a, b \in Int : a + b = b + a
  OBVIOUS
<1>3. ASSUME NEW f, \A j \in DOMAIN s : f[j] \in Int
      PROVE  SumOver(f, r) = SumOver(f, q) + f[i]
  <2>1. \A j \in r : f[j] \in Int
    BY <1>1, <1>3
  <2>2. SumOver(f, r) = f[i] + SumOver(f, q) /\ SumOver(f, q) \in Int
    BY <1>1, <2>1, SumTakeOut
  <2> QED
    BY <1>a, <2>1, <2>2
<1>4. ASSUME NEW x
      PROVE  SumOver(Bits(s, x), r) = SumOver(Bits(s, x), q) + IF s[i].access = x THEN 1 ELSE 0
  <2>1. \A j \in DOMAIN s : Bits(s, x)[j] \in Int
    BY PlacesOf
  <2>2. Bits(s, x)[i] = IF s[i].access = x THEN 1 ELSE 0
    BY <1>1 DEF Bits
  <2> QED
    BY <1>3, <2>1, <2>2
<1>5. SumOver(ValueSizes(s), r) = SumOver(ValueSizes(s), q) + s[i].value_size
  <2>1. \A j \in DOMAIN s : ValueSizes(s)[j] \in Int
    BY PlacesOf
  <2>2. ValueSizes(s)[i] = s[i].value_size
    BY <1>1 DEF ValueSizes
  <2> QED
    BY <1>3, <2>1, <2>2
<1> HIDE DEF q
<1>6. CountOf(s, r) = Counted(CountOf(s, q), s[i])
  BY <1>2, <1>4, <1>5 DEF CountOf, Counted
<1> QED
  BY <1>6 DEF q

(* The fold over the log counts its events. *)
LEMMA ExactCounterIs ==
  ASSUME NEW s \in Seq(Event)
  PROVE  ExactCounter(s) = CountOf(s, DOMAIN s)
<1> DEFINE D == DOMAIN s
           last(r) == CHOOSE x \in r : \A y \in r : x >= y
           P(iter) == iter = [r \in SUBSET D |-> IF r = {} THEN Zero
                                ELSE Counted(iter[r \ {last(r)}], s[last(r)])]
           G == [r \in SUBSET D |-> CountOf(s, r)]
<1>1. ExactCounter(s) = (CHOOSE iter : P(iter))[D]
  BY DEF ExactCounter, FoldLeft, MapThenFoldSet, Max, Zero
<1>2. ASSUME NEW r \in SUBSET D, r # {} PROVE last(r) \in r
  <2>1. IsFiniteSet(r) /\ r \in SUBSET Int
    BY PlacesOf, FS_Subset
  <2>2. \E x \in r : \A y \in r : x >= y
    BY <1>2, <2>1, GreatestElement
  <2> QED
    BY <2>2
<1>3. CountOf(s, {}) = Zero
  BY SumEmpty, FS_EmptySet DEF CountOf, Zero
<1> HIDE DEF last
<1>4. P(G)
  <2>1. ASSUME NEW r \in SUBSET D
        PROVE  G[r] = IF r = {} THEN Zero ELSE Counted(G[r \ {last(r)}], s[last(r)])
    <3>1. CASE r = {}
      BY <1>3, <3>1
    <3>2. CASE r # {}
      <4>1. last(r) \in r /\ r \ {last(r)} \in SUBSET D
        BY <1>2, <3>2
      <4>2. CountOf(s, r) = Counted(CountOf(s, r \ {last(r)}), s[last(r)])
        BY <4>1, CountOne
      <4> QED
        BY <3>2, <4>1, <4>2
    <3> QED
      BY <3>1, <3>2
  <2> QED
    BY <2>1
<1>5. P(CHOOSE iter : P(iter))
  <2> HIDE DEF P
  <2> QED
    BY <1>4
<1> DEFINE h == CHOOSE iter : P(iter)
<1>6. ASSUME NEW r \in SUBSET D
      PROVE  h[r] = IF r = {} THEN Zero ELSE Counted(h[r \ {last(r)}], s[last(r)])
  <2> DEFINE F == [t \in SUBSET D |-> IF t = {} THEN Zero
                                      ELSE Counted(h[t \ {last(t)}], s[last(t)])]
  <2>1. h = F
    BY <1>5
  <2>2. F[r] = IF r = {} THEN Zero ELSE Counted(h[r \ {last(r)}], s[last(r)])
    OBVIOUS
  <2> HIDE DEF h, F
  <2> QED
    BY <2>1, <2>2
<1> HIDE DEF h
<1> DEFINE Good == {r \in SUBSET D : h[r] = CountOf(s, r)}
<1>7. {} \in Good
  BY <1>3, <1>6
<1>8. ASSUME NEW r \in SUBSET D, r # {}, \A i \in r : r \ {i} \in Good
      PROVE  r \in Good
  <2>1. last(r) \in r
    BY <1>2, <1>8
  <2>2. h[r] = Counted(h[r \ {last(r)}], s[last(r)])
    BY <1>6, <1>8
  <2>3. h[r \ {last(r)}] = CountOf(s, r \ {last(r)})
    BY <1>8, <2>1
  <2>4. h[r] = CountOf(s, r)
    BY <2>1, <2>2, <2>3, CountOne
  <2> QED
    BY <2>4
<1>9. \A r \in SUBSET D : r \in Good
  <2>1. IsFiniteSet(D)
    BY PlacesOf
  <2> HIDE DEF Good, D
  <2> QED
    BY <1>7, <1>8, <2>1, SubsetInduction
<1>10. h[D] = CountOf(s, D)
  BY <1>9
<1> QED
  BY <1>1, <1>10 DEF h

PlacesOfKey(s, k) == {i \in DOMAIN s : KeyAt(s)[i] = k}
KeysOf(s) == {s[i].key : i \in DOMAIN s}
Ones(s) == [i \in DOMAIN s |-> 1]

(* Finitely many keys occur. *)
LEMMA KeysOfSeq ==
  ASSUME NEW s \in Seq(Event)
  PROVE  /\ IsFiniteSet(KeysOf(s)) /\ KeysOf(s) \subseteq Key
         /\ DOMAIN from_events(s) = KeysOf(s)
         /\ \A i \in DOMAIN s : KeyAt(s)[i] \in KeysOf(s)
<1>1. KeyAt(s) \in Surjection(DOMAIN s, KeysOf(s))
  BY DEF Surjection, KeyAt, KeysOf
<1>2. IsFiniteSet(KeysOf(s))
  BY <1>1, PlacesOf, FS_Surjection
<1>3. KeysOf(s) \subseteq Key
  BY PlacesOf DEF KeysOf
<1> QED
  BY <1>2, <1>3 DEF from_events, KeysOf, KeyAt

(* The events of one key. *)
LEMMA EventsOfKey ==
  ASSUME NEW s \in Seq(Event), NEW k
  PROVE  /\ \A x : Events(s, k, x) = SumOver(Bits(s, x), PlacesOfKey(s, k))
         /\ Events(s, k, "Read") + Events(s, k, "Write") = SumOver(Ones(s), PlacesOfKey(s, k))
<1>1. IsFiniteSet(PlacesOfKey(s, k)) /\ PlacesOfKey(s, k) \subseteq DOMAIN s
  BY PlacesOf, FS_Subset DEF PlacesOfKey
<1>2. ASSUME NEW x PROVE Events(s, k, x) = SumOver(Bits(s, x), PlacesOfKey(s, k))
  <2>1. \A i \in PlacesOfKey(s, k) : Bits(s, x)[i] \in {0, 1}
    BY <1>1, PlacesOf
  <2>2. SumOver(Bits(s, x), PlacesOfKey(s, k))
          = Cardinality({i \in PlacesOfKey(s, k) : Bits(s, x)[i] = 1})
    BY <1>1, <2>1, SumOfBits
  <2>3. {i \in PlacesOfKey(s, k) : Bits(s, x)[i] = 1} = Matching(s, k, x)
    BY DEF PlacesOfKey, KeyAt, Bits, Matching
  <2> QED
    BY <2>2, <2>3 DEF Events, Matching
<1>3. SumOver(Ones(s), PlacesOfKey(s, k)) = Cardinality(PlacesOfKey(s, k))
  <2>1. \A i \in PlacesOfKey(s, k) : Ones(s)[i] = 1
    BY <1>1 DEF Ones
  <2>2. {i \in PlacesOfKey(s, k) : Ones(s)[i] = 1} = PlacesOfKey(s, k)
    BY <2>1
  <2>3. \A i \in PlacesOfKey(s, k) : Ones(s)[i] \in {0, 1}
    BY <2>1
  <2> QED
    BY <1>1, <2>2, <2>3, SumOfBits
<1>4. Cardinality(PlacesOfKey(s, k)) = Events(s, k, "Read") + Events(s, k, "Write")
  <2>1. PlacesOfKey(s, k) = Matching(s, k, "Read") \cup Matching(s, k, "Write")
    BY PlacesOf DEF PlacesOfKey, KeyAt, Matching, Access
  <2>2. Matching(s, k, "Read") \cap Matching(s, k, "Write") = {}
    BY DEF Matching
  <2>3. IsFiniteSet(Matching(s, k, "Read")) /\ IsFiniteSet(Matching(s, k, "Write"))
    BY EventsFinite
  <2>4. Cardinality(Matching(s, k, "Read") \cup Matching(s, k, "Write"))
          = Cardinality(Matching(s, k, "Read")) + Cardinality(Matching(s, k, "Write"))
    <3>1. Cardinality({}) = 0
      BY FS_EmptySet
    <3>2. /\ Cardinality(Matching(s, k, "Read")) \in Nat
          /\ Cardinality(Matching(s, k, "Write")) \in Nat
      BY <2>3, FS_CardinalityType
    <3> DEFINE A == Matching(s, k, "Read")
               B == Matching(s, k, "Write")
    <3>3. /\ IsFiniteSet(A) /\ IsFiniteSet(B) /\ A \cap B = {}
          /\ Cardinality(A) \in Nat /\ Cardinality(B) \in Nat
      BY <2>2, <2>3, <3>2
    <3> HIDE DEF A, B
    <3>4. Cardinality(A \cup B) = Cardinality(A) + Cardinality(B) - Cardinality(A \cap B)
      BY <3>3, FS_Union
    <3>5. Cardinality(A \cup B) = Cardinality(A) + Cardinality(B) - 0
      BY <3>1, <3>3, <3>4
    <3>6. Cardinality(A \cup B) = Cardinality(A) + Cardinality(B)
      BY <3>3, <3>5
    <3> QED
      BY <3>6 DEF A, B
  <2> QED
    BY <2>1, <2>4 DEF Events, Matching
<1> QED
  BY <1>2, <1>3, <1>4

(* Sums over the keys that occur, as from_events gives their summands. *)
ReadsOf(s) == [k \in KeysOf(s) |-> from_events(s)[k].read_accesses]
TotalOf(s) == [k \in KeysOf(s) |-> from_events(s)[k].total_accesses]

(* The sum of the reads by key that LogComplete takes. *)
LEMMA SumOfReads ==
  ASSUME NEW s \in Seq(Event)
  PROVE  MapThenSumSet(LAMBDA k : from_events(s)[k].read_accesses, KeysOf(s))
           = SumOver(ReadsOf(s), KeysOf(s))
<1> DEFINE K == KeysOf(s)
           p == from_events(s)
           P(iter) == iter = [S \in SUBSET K |->
                                IF S = {} THEN 0
                                ELSE p[CHOOSE x \in S : TRUE].read_accesses
                                     + iter[S \ {CHOOSE x \in S : TRUE}]]
<1>1. MapThenSumSet(LAMBDA k : from_events(s)[k].read_accesses, KeysOf(s))
        = (CHOOSE iter : P(iter))[K]
  BY DEF MapThenSumSet, MapThenFoldSet
<1>2. ASSUME NEW g PROVE P(g) <=> SumsOf(ReadsOf(s), K, g)
  <2> HIDE DEF p
  <2> QED
    BY DEF SumsOf, Pick, ReadsOf, p
<1>3. IsFiniteSet(K)
  BY KeysOfSeq
<1>4. \E g : P(g)
  <2>1. PICK g : SumsOf(ReadsOf(s), K, g)
    BY <1>3, SumsExist
  <2> HIDE DEF P
  <2> QED
    BY <1>2, <2>1
<1>5. P(CHOOSE iter : P(iter))
  <2> HIDE DEF P
  <2> QED
    BY <1>4
<1>6. SumsOf(ReadsOf(s), K, CHOOSE iter : P(iter))
  BY <1>2, <1>5
<1> HIDE DEF P
<1> QED
  BY <1>1, <1>3, <1>6, SumOverIs

(* The sum of the accesses by key that LogComplete takes. *)
LEMMA SumOfTotals ==
  ASSUME NEW s \in Seq(Event)
  PROVE  MapThenSumSet(LAMBDA k : from_events(s)[k].total_accesses, KeysOf(s))
           = SumOver(TotalOf(s), KeysOf(s))
<1> DEFINE K == KeysOf(s)
           p == from_events(s)
           P(iter) == iter = [S \in SUBSET K |->
                                IF S = {} THEN 0
                                ELSE p[CHOOSE x \in S : TRUE].total_accesses
                                     + iter[S \ {CHOOSE x \in S : TRUE}]]
<1>1. MapThenSumSet(LAMBDA k : from_events(s)[k].total_accesses, KeysOf(s))
        = (CHOOSE iter : P(iter))[K]
  BY DEF MapThenSumSet, MapThenFoldSet
<1>2. ASSUME NEW g PROVE P(g) <=> SumsOf(TotalOf(s), K, g)
  <2> HIDE DEF p
  <2> QED
    BY DEF SumsOf, Pick, TotalOf, p
<1>3. IsFiniteSet(K)
  BY KeysOfSeq
<1>4. \E g : P(g)
  <2>1. PICK g : SumsOf(TotalOf(s), K, g)
    BY <1>3, SumsExist
  <2> HIDE DEF P
  <2> QED
    BY <1>2, <2>1
<1>5. P(CHOOSE iter : P(iter))
  <2> HIDE DEF P
  <2> QED
    BY <1>4
<1>6. SumsOf(TotalOf(s), K, CHOOSE iter : P(iter))
  BY <1>2, <1>5
<1> HIDE DEF P
<1> QED
  BY <1>1, <1>3, <1>6, SumOverIs

(* The counter and the counts by key agree. *)
LEMMA CountsAgree ==
  ASSUME NEW s \in Seq(Event)
  PROVE  /\ SumOver(ReadsOf(s), KeysOf(s)) = SumOver(Bits(s, "Read"), DOMAIN s)
         /\ SumOver(TotalOf(s), KeysOf(s)) = Cardinality(DOMAIN s)
<1>1. IsFiniteSet(KeysOf(s)) /\ IsFiniteSet(DOMAIN s)
  BY KeysOfSeq, PlacesOf
<1>2. ASSUME NEW f, \A i \in DOMAIN s : f[i] \in Int,
             NEW sums, \A k \in KeysOf(s) : sums[k] = SumOver(f, PlacesOfKey(s, k))
      PROVE  SumOver(f, DOMAIN s) = SumOver(sums, KeysOf(s))
  <2>1. \A i \in DOMAIN s : KeyAt(s)[i] \in KeysOf(s)
    BY KeysOfSeq
  <2> DEFINE part == [k \in KeysOf(s) |-> PlacesOfKey(s, k)]
  <2>2. \A k \in KeysOf(s) : \A i : i \in part[k] <=> i \in DOMAIN s /\ KeyAt(s)[i] = k
    BY DEF PlacesOfKey
  <2>3. \A k \in KeysOf(s) : sums[k] = SumOver(f, part[k])
    BY <1>2
  <2> HIDE DEF part
  <2> QED
    BY <1>1, <1>2, <2>1, <2>2, <2>3, SumOfGroups
<1>3. \A k \in KeysOf(s) : ReadsOf(s)[k] = SumOver(Bits(s, "Read"), PlacesOfKey(s, k))
  <2>1. \A k \in KeysOf(s) : ReadsOf(s)[k] = Events(s, k, "Read")
    BY DEF ReadsOf, from_events, KeysOf
  <2> QED
    BY <2>1, EventsOfKey
<1>4. \A k \in KeysOf(s) : TotalOf(s)[k] = SumOver(Ones(s), PlacesOfKey(s, k))
  <2>1. \A k \in KeysOf(s) : TotalOf(s)[k] = Events(s, k, "Read") + Events(s, k, "Write")
    BY DEF TotalOf, from_events, KeysOf
  <2> QED
    BY <2>1, EventsOfKey
<1>5. SumOver(ReadsOf(s), KeysOf(s)) = SumOver(Bits(s, "Read"), DOMAIN s)
  <2>1. \A i \in DOMAIN s : Bits(s, "Read")[i] \in Int
    BY PlacesOf
  <2> QED
    BY <1>2, <1>3, <2>1
<1>6. SumOver(TotalOf(s), KeysOf(s)) = SumOver(Ones(s), DOMAIN s)
  <2>1. \A i \in DOMAIN s : Ones(s)[i] \in Int
    BY DEF Ones
  <2> QED
    BY <1>2, <1>4, <2>1
<1>7. SumOver(Ones(s), DOMAIN s) = Cardinality(DOMAIN s)
  <2>1. \A i \in DOMAIN s : Ones(s)[i] \in {0, 1}
    BY DEF Ones
  <2>2. {i \in DOMAIN s : Ones(s)[i] = 1} = DOMAIN s
    BY DEF Ones
  <2> QED
    BY <1>1, <2>1, <2>2, SumOfBits
<1> QED
  BY <1>5, <1>6, <1>7

-----------------------------------------------------------------------------
(* The log.                                                                *)

LEMMA LogAccesses ==
  ASSUME CommandsInv, NEW k \in Key, NEW x \in Access
  PROVE  /\ touched[k][x] <= Events(log, k, x)
         /\ Quiet => touched[k][x] = Events(log, k, x)
<1>1. /\ Events(log, k, x) = touched[k][x] + SumOver(Ahead(k, x), Conn)
      /\ SumOver(Ahead(k, x), Conn) \in Nat /\ touched[k][x] \in Nat
  BY AheadNat DEF CommandsInv, LoggedOK
<1>2. ASSUME Quiet PROVE SumOver(Ahead(k, x), Conn) = 0
  <2>1. \A c \in Conn : Ahead(k, x)[c] = 0
    BY <1>2 DEF Ahead, Answering, Quiet
  <2>2. IsFiniteSet(Conn)
    BY CommandsAssumption
  <2> QED
    BY <2>1, <2>2, SumZeros
<1> QED
  BY <1>1, <1>2

(* The sizes in the log add up to at most the largest for each write. *)
LEMMA LogSizes ==
  ASSUME CommandsInv
  PROVE  SumOver(ValueSizes(log), DOMAIN log)
           <= SumOver(Bits(log, "Write"), DOMAIN log) * LargestSize
<1>1. log \in Seq(Event) /\ \A i \in DOMAIN log : Sized(log[i])
  BY DEF CommandsInv, CommandsTypeOK, SizesOK
<1>2. LargestSize \in Nat
  BY LargestOfSizes
<1>3. ASSUME NEW i \in DOMAIN log
      PROVE  /\ ValueSizes(log)[i] \in Nat /\ Bits(log, "Write")[i] \in Nat
             /\ ValueSizes(log)[i] <= Bits(log, "Write")[i] * LargestSize
  <2>1. ValueSizes(log)[i] \in Nat /\ Bits(log, "Write")[i] \in {0, 1}
    BY <1>1, PlacesOf
  <2>2. ValueSizes(log)[i] <= IF log[i].access = "Write" THEN LargestSize ELSE 0
    BY <1>1 DEF Sized, ValueSizes
  <2>3. Bits(log, "Write")[i] = IF log[i].access = "Write" THEN 1 ELSE 0
    BY DEF Bits
  <2> QED
    BY <1>2, <2>1, <2>2, <2>3
<1>4. IsFiniteSet(DOMAIN log)
  BY <1>1, PlacesOf
<1> QED
  BY <1>2, <1>3, <1>4, SumBounded

(* The log misses no access of a command answered without an error, and at *)
(* rest holds no other, for any number of connections, keys and commands,  *)
(* and ExactObservationCounter and from_events agree on it.                *)
THEOREM LogExact == Spec => []LogComplete
<1>1. ASSUME CommandsInv PROVE LogComplete
  <2>1. log \in Seq(Event)
    BY <1>1 DEF CommandsInv, CommandsTypeOK
  <2>2. ExactCounter(log) = CountOf(log, DOMAIN log)
    BY <2>1, ExactCounterIs
  <2>3. DOMAIN from_events(log) = KeysOf(log)
    BY <2>1, KeysOfSeq
  <2>4. ExactCounter(log).total_events =
          MapThenSumSet(LAMBDA k : from_events(log)[k].total_accesses, DOMAIN from_events(log))
    <3>1. ExactCounter(log).total_events = Cardinality(DOMAIN log)
      BY <2>2 DEF CountOf
    <3>2. MapThenSumSet(LAMBDA k : from_events(log)[k].total_accesses, KeysOf(log))
            = Cardinality(DOMAIN log)
      BY <2>1, SumOfTotals, CountsAgree
    <3> QED
      BY <2>3, <3>1, <3>2
  <2>5. ExactCounter(log).reads =
          MapThenSumSet(LAMBDA k : from_events(log)[k].read_accesses, DOMAIN from_events(log))
    <3>1. ExactCounter(log).reads = SumOver(Bits(log, "Read"), DOMAIN log)
      BY <2>2 DEF CountOf
    <3>2. MapThenSumSet(LAMBDA k : from_events(log)[k].read_accesses, KeysOf(log))
            = SumOver(Bits(log, "Read"), DOMAIN log)
      BY <2>1, SumOfReads, CountsAgree
    <3> QED
      BY <2>3, <3>1, <3>2
  <2>6. ExactCounter(log).known_value_bytes
          <= ExactCounter(log).writes * Max({Size[v] : v \in DOMAIN Size})
    <3>1. /\ ExactCounter(log).known_value_bytes = SumOver(ValueSizes(log), DOMAIN log)
          /\ ExactCounter(log).writes = SumOver(Bits(log, "Write"), DOMAIN log)
      BY <2>2 DEF CountOf
    <3> QED
      BY <1>1, <3>1, LogSizes DEF LargestSize
  <2> QED
    BY <1>1, <2>4, <2>5, <2>6, LogAccesses DEF LogComplete
<1> QED
  BY <1>1, CommandsInvariant, PTL

-----------------------------------------------------------------------------
(* The ranking of the keys.                                                *)

(* The keys that come before k, and how many they are. *)
Before(s, k) == {j \in KeysOf(s) : Hotter(from_events(s), j, k)}
HotRank(s) == [k \in KeysOf(s) |-> Cardinality(Before(s, k))]

(* Keys and their counts are numbers. *)
LEMMA CountsOfKey ==
  ASSUME NEW s \in Seq(Event), NEW k \in KeysOf(s)
  PROVE  /\ k \in Int
         /\ from_events(s)[k].total_accesses \in Nat
         /\ from_events(s)[k].read_accesses \in Nat
<1>1. k \in Int
  BY KeysOfSeq, CommandsAssumption
<1>2. Events(s, k, "Read") \in Nat /\ Events(s, k, "Write") \in Nat
  BY EventsFinite
<1> QED
  BY <1>1, <1>2 DEF from_events, KeysOf

(* Hotter is a strict total order of the keys that occur. *)
LEMMA HotterOrder ==
  ASSUME NEW s \in Seq(Event)
  PROVE  /\ \A j \in KeysOf(s) : ~Hotter(from_events(s), j, j)
         /\ \A j, k \in KeysOf(s) :
              j = k \/ Hotter(from_events(s), j, k) \/ Hotter(from_events(s), k, j)
         /\ \A j, k, l \in KeysOf(s) :
              Hotter(from_events(s), j, k) /\ Hotter(from_events(s), k, l) =>
                Hotter(from_events(s), j, l)
<1> DEFINE p == from_events(s)
<1>1. \A k \in KeysOf(s) :
        k \in Int /\ p[k].total_accesses \in Nat /\ p[k].read_accesses \in Nat
  BY CountsOfKey
<1> HIDE DEF p
<1>2. \A j \in KeysOf(s) : ~Hotter(p, j, j)
  BY <1>1 DEF Hotter
<1>3. \A j, k \in KeysOf(s) : j = k \/ Hotter(p, j, k) \/ Hotter(p, k, j)
  BY <1>1 DEF Hotter
<1>4. \A j, k, l \in KeysOf(s) : Hotter(p, j, k) /\ Hotter(p, k, l) => Hotter(p, j, l)
  BY <1>1 DEF Hotter
<1> QED
  BY <1>2, <1>3, <1>4 DEF p

(* Ranks are different, within bounds, and follow the order. *)
LEMMA RankOrder ==
  ASSUME NEW s \in Seq(Event)
  PROVE  /\ \A k \in KeysOf(s) : HotRank(s)[k] \in 0..(Cardinality(KeysOf(s)) - 1)
         /\ \A j, k \in KeysOf(s) :
              Hotter(from_events(s), j, k) => HotRank(s)[j] < HotRank(s)[k]
         /\ \A j, k \in KeysOf(s) : HotRank(s)[j] = HotRank(s)[k] => j = k
<1>1. IsFiniteSet(KeysOf(s)) /\ Cardinality(KeysOf(s)) \in Nat
  BY KeysOfSeq, FS_CardinalityType
<1>2. \A k \in KeysOf(s) : IsFiniteSet(Before(s, k)) /\ HotRank(s)[k] = Cardinality(Before(s, k))
                           /\ Cardinality(Before(s, k)) \in Nat
  <2>1. \A k \in KeysOf(s) : IsFiniteSet(Before(s, k))
    BY <1>1, FS_Subset DEF Before
  <2> QED
    BY <2>1, FS_CardinalityType DEF HotRank
<1>3. ASSUME NEW k \in KeysOf(s)
      PROVE  HotRank(s)[k] \in 0..(Cardinality(KeysOf(s)) - 1)
  <2>1. Before(s, k) \subseteq KeysOf(s) /\ k \notin Before(s, k)
    BY HotterOrder DEF Before
  <2>2. Cardinality(Before(s, k)) < Cardinality(KeysOf(s))
    <3>1. Before(s, k) # KeysOf(s)
      BY <2>1
    <3>2. /\ Cardinality(Before(s, k)) <= Cardinality(KeysOf(s))
          /\ Cardinality(Before(s, k)) # Cardinality(KeysOf(s))
      BY <1>1, <2>1, <3>1, FS_Subset
    <3> QED
      BY <1>1, <1>2, <3>2
  <2> QED
    BY <1>1, <1>2, <2>2
<1>4. ASSUME NEW j \in KeysOf(s), NEW k \in KeysOf(s), Hotter(from_events(s), j, k)
      PROVE  HotRank(s)[j] < HotRank(s)[k]
  <2>1. Before(s, j) \subseteq Before(s, k)
    BY <1>4, HotterOrder DEF Before
  <2>2. j \in Before(s, k) /\ j \notin Before(s, j)
    BY <1>4, HotterOrder DEF Before
  <2>3. /\ Cardinality(Before(s, j)) <= Cardinality(Before(s, k))
        /\ Cardinality(Before(s, j)) # Cardinality(Before(s, k))
    BY <1>2, <2>1, <2>2, FS_Subset
  <2> QED
    BY <1>2, <2>3
<1>5. ASSUME NEW j \in KeysOf(s), NEW k \in KeysOf(s), HotRank(s)[j] = HotRank(s)[k]
      PROVE  j = k
  <2>1. HotRank(s)[j] \in Nat
    BY <1>2
  <2>2. ~Hotter(from_events(s), j, k) /\ ~Hotter(from_events(s), k, j)
    BY <1>4, <1>5, <2>1
  <2> QED
    BY <2>2, HotterOrder
<1> QED
  BY <1>3, <1>4, <1>5

(* Every rank is taken. *)
LEMMA RankOnto ==
  ASSUME NEW s \in Seq(Event), NEW r \in 0..(Cardinality(KeysOf(s)) - 1)
  PROVE  \E k \in KeysOf(s) : HotRank(s)[k] = r
<1> DEFINE n == Cardinality(KeysOf(s))
           R == 0..(n - 1)
<1>1. IsFiniteSet(KeysOf(s)) /\ n \in Nat
  BY KeysOfSeq, FS_CardinalityType
<1>2. IsFiniteSet(R) /\ Cardinality(R) = n
  BY <1>1, FS_Interval
<1>3. HotRank(s) \in Injection(KeysOf(s), R)
  <2>1. HotRank(s) \in [KeysOf(s) -> R]
    BY RankOrder DEF HotRank
  <2>2. \A j, k \in KeysOf(s) : HotRank(s)[j] = HotRank(s)[k] => j = k
    BY RankOrder
  <2> QED
    BY <2>1, <2>2 DEF Injection, IsInjective
<1>4. HotRank(s) \in Surjection(KeysOf(s), R)
  BY <1>1, <1>2, <1>3, FS_Injection
<1> QED
  BY <1>4 DEF Surjection

(* The i-th of top_keys has rank i - 1. *)
LEMMA TopKeys ==
  ASSUME NEW s \in Seq(Event), NEW limit \in Nat
  PROVE  LET n == Cardinality(KeysOf(s))
             kept == IF n < limit THEN n ELSE limit
             top == top_keys(from_events(s), limit)
         IN  /\ kept \in Nat /\ DOMAIN top = 1..kept /\ Len(top) = kept
             /\ \A i \in 1..kept : top[i] \in KeysOf(s) /\ HotRank(s)[top[i]] = i - 1
<1> DEFINE n == Cardinality(KeysOf(s))
           kept == IF n < limit THEN n ELSE limit
           top == top_keys(from_events(s), limit)
<1>1. n \in Nat /\ DOMAIN from_events(s) = KeysOf(s)
  BY KeysOfSeq, FS_CardinalityType
<1>2. kept \in Nat /\ kept <= n
  BY <1>1
<1>3. top = [i \in 1..kept |-> CHOOSE k \in KeysOf(s) : Cardinality(Before(s, k)) = i - 1]
  BY <1>1 DEF top_keys, Before
<1>4. \A k \in KeysOf(s) : HotRank(s)[k] = Cardinality(Before(s, k))
  BY DEF HotRank
<1> HIDE DEF kept, top, n
<1>5. ASSUME NEW i \in 1..kept
      PROVE  top[i] \in KeysOf(s) /\ HotRank(s)[top[i]] = i - 1
  <2>1. i - 1 \in 0..(n - 1)
    BY <1>1, <1>2
  <2>2. \E k \in KeysOf(s) : Cardinality(Before(s, k)) = i - 1
    BY <1>4, <2>1, RankOnto DEF n
  <2>3. top[i] = CHOOSE k \in KeysOf(s) : Cardinality(Before(s, k)) = i - 1
    BY <1>3
  <2> QED
    BY <1>4, <2>2, <2>3
<1>6. DOMAIN top = 1..kept /\ Len(top) = kept
  <2>1. DOMAIN top = 1..kept
    BY <1>3
  <2>2. top \in [1..kept -> KeysOf(s)]
    BY <1>3, <1>5
  <2>3. \A m \in Nat : [1..m -> KeysOf(s)] \subseteq Seq(KeysOf(s))
    BY SeqDef
  <2>4. top \in Seq(KeysOf(s))
    BY <1>2, <2>2, <2>3
  <2>5. DOMAIN top = 1..Len(top) /\ Len(top) \in Nat
    BY <2>4
  <2> QED
    BY <1>2, <2>1, <2>5
<1>7. /\ kept \in Nat /\ DOMAIN top = 1..kept /\ Len(top) = kept
      /\ \A i \in 1..kept : top[i] \in KeysOf(s) /\ HotRank(s)[top[i]] = i - 1
  BY <1>2, <1>5, <1>6
<1> QED
  BY <1>7 DEF kept, top, n

(* top_keys puts the most accessed keys of the log first, however many     *)
(* keys there are and wherever the ranking is cut, and of equal ones the   *)
(* smaller key.                                                            *)
THEOREM RankingSound == Spec => []TopKeysRanked
<1>1. ASSUME CommandsInv PROVE TopKeysRanked
  <2> DEFINE p == from_events(log)
             n == Cardinality(KeysOf(log))
  <2>1. log \in Seq(Event)
    BY <1>1 DEF CommandsInv, CommandsTypeOK
  <2>2. DOMAIN p = KeysOf(log) /\ n \in Nat
    BY <2>1, KeysOfSeq, FS_CardinalityType
  <2>3. ASSUME NEW limit \in 0..(n + 1)
        PROVE  LET top == top_keys(p, limit)
                   kept == IF n < limit THEN n ELSE limit
               IN  /\ Len(top) = kept
                   /\ \A i \in DOMAIN top, k \in KeysOf(log) :
                        (\A j \in 1..i : top[j] # k) =>
                          \/ p[top[i]].total_accesses > p[k].total_accesses
                          \/ /\ p[top[i]].total_accesses = p[k].total_accesses
                             /\ p[top[i]].read_accesses > p[k].read_accesses
                          \/ /\ p[top[i]].total_accesses = p[k].total_accesses
                             /\ p[top[i]].read_accesses = p[k].read_accesses
                             /\ top[i] < k
    <3> DEFINE top == top_keys(p, limit)
               kept == IF n < limit THEN n ELSE limit
    <3>1. limit \in Nat
      BY <2>2
    <3>2. /\ kept \in Nat /\ DOMAIN top = 1..kept /\ Len(top) = kept
          /\ \A i \in 1..kept : top[i] \in KeysOf(log) /\ HotRank(log)[top[i]] = i - 1
      BY <2>1, <3>1, TopKeys
    <3> HIDE DEF top, kept
    <3>3. ASSUME NEW i \in DOMAIN top, NEW k \in KeysOf(log), \A j \in 1..i : top[j] # k
          PROVE  \/ p[top[i]].total_accesses > p[k].total_accesses
                 \/ /\ p[top[i]].total_accesses = p[k].total_accesses
                    /\ p[top[i]].read_accesses > p[k].read_accesses
                 \/ /\ p[top[i]].total_accesses = p[k].total_accesses
                    /\ p[top[i]].read_accesses = p[k].read_accesses
                    /\ top[i] < k
      <4>1. i \in 1..kept /\ i \in Nat /\ top[i] \in KeysOf(log) /\ HotRank(log)[top[i]] = i - 1
        BY <3>2
      <4>2. HotRank(log)[k] \in 0..(n - 1)
        BY <2>1, RankOrder
      <4>3. ~(HotRank(log)[k] <= i - 1)
        <5> SUFFICES ASSUME HotRank(log)[k] <= i - 1 PROVE FALSE
          OBVIOUS
        <5> DEFINE j == HotRank(log)[k] + 1
        <5>1. j \in 1..i /\ j \in 1..kept /\ j - 1 = HotRank(log)[k]
          BY <2>2, <3>2, <4>1, <4>2
        <5>2. top[j] \in KeysOf(log) /\ HotRank(log)[top[j]] = HotRank(log)[k]
          BY <3>2, <5>1
        <5>3. top[j] = k
          BY <2>1, <5>2, RankOrder
        <5> QED
          BY <3>3, <5>1, <5>3
      <4>4. ~Hotter(p, k, top[i])
        <5>1. Hotter(p, k, top[i]) => HotRank(log)[k] < HotRank(log)[top[i]]
          BY <2>1, <4>1, RankOrder
        <5> QED
          BY <2>2, <4>1, <4>2, <4>3, <5>1
      <4>5. top[i] # k
        BY <4>1, <3>3
      <4>6. Hotter(p, top[i], k)
        BY <2>1, <4>1, <4>4, <4>5, HotterOrder
      <4> HIDE DEF p
      <4> QED
        BY <4>6 DEF Hotter
    <3> QED
      BY <3>2, <3>3 DEF top, kept
  <2> HIDE DEF p
  <2> QED
    BY <2>2, <2>3 DEF TopKeysRanked, p
<1> QED
  BY <1>1, CommandsInvariant, PTL

-----------------------------------------------------------------------------
(* Metrics.                                                                *)

Places == {"idle", "start_inflight", "error", "end", "samples", "sum",
           "max_load", "max_cas", "bucket"}

(* A thread whose sample is counted but not yet in its bucket. *)
Recording == {"sum", "max_load", "max_cas", "bucket"}

MetricsTypeOK ==
  /\ requests_total \in Nat /\ errors_total \in Nat /\ inflight \in Int
  /\ samples \in Nat /\ sum_us \in Nat /\ max_us \in Nat
  /\ buckets \in [Bucket -> Nat]
  /\ at \in [Thread -> Places]
  /\ micros \in [Thread -> Nat]
  /\ \A t \in Thread : at[t] \notin {"idle", "start_inflight"} => micros[t] \in Latency
  /\ seen \in [Thread -> Nat]
  /\ recorded \in [Latency -> Nat]
  /\ load \in {"requests_total", "errors_total", "done"}
  /\ snap \in [requests_total : Nat, errors_total : Nat]

(* The number of threads at the places X. *)
Here(X) == [t \in Thread |-> IF at[t] \in X THEN 1 ELSE 0]
HowMany(X) == SumOver(Here(X), Thread)

(* The counters, up to the operations that are still to come: every        *)
(* request is a sample or on its way to one, and an error is counted for a *)
(* request that was counted before.                                        *)
CountsOK ==
  /\ inflight = HowMany({"error", "end"})
  /\ requests_total = samples + HowMany({"start_inflight", "error", "end", "samples"})
  /\ errors_total + HowMany({"start_inflight", "error"}) <= requests_total

(* A snapshot is not ahead of the counters. *)
SnapOK ==
  /\ load # "requests_total" => snap.requests_total <= requests_total
  /\ load = "done" => snap.errors_total <= errors_total

(* The latencies that are recorded, each as often as it was, and the part  *)
(* of their sum that is still to be added.                                 *)
Weighted == [l \in Latency |-> l * recorded[l]]
Unsummed == [t \in Thread |-> IF at[t] = "sum" THEN micros[t] ELSE 0]

SumsOK ==
  /\ samples = SumOver(recorded, Latency)
  /\ sum_us + SumOver(Unsummed, Thread) = SumOver(Weighted, Latency)

(* max_us is a recorded latency, and what is recorded above it belongs to  *)
(* a thread that has not yet raised it.                                    *)
MaxOK ==
  /\ max_us # 0 => max_us \in Latency /\ recorded[max_us] > 0
  /\ \A l \in Latency : recorded[l] > 0 =>
       \/ l <= max_us
       \/ \E t \in Thread : at[t] \in {"sum", "max_load", "max_cas"} /\ micros[t] = l
  /\ \A t \in Thread : at[t] \in Recording => recorded[micros[t]] > 0
  /\ \A t \in Thread : at[t] = "max_cas" => seen[t] < micros[t]

(* The samples of bucket b, up to the threads that have still to count     *)
(* theirs.                                                                 *)
Unbucketed(b) ==
  [t \in Thread |-> IF at[t] \in Recording /\ bucket_idx(micros[t]) = b THEN 1 ELSE 0]
BucketsOK ==
  \A b \in Bucket :
    buckets[b] + SumOver(Unbucketed(b), Thread)
      = SumOver(recorded, {l \in Latency : bucket_idx(l) = b})

MetricsInv ==
  MetricsTypeOK /\ CountsOK /\ SnapOK /\ SumsOK /\ MaxOK /\ BucketsOK

-----------------------------------------------------------------------------
(* The bucket of a latency: the first whose bound it does not exceed.      *)
LEMMA BucketOf ==
  ASSUME NEW us \in Nat
  PROVE  /\ bucket_idx(us) \in Bucket
         /\ \A b \in DOMAIN Bounds : bucket_idx(us) <= b <=> us <= Bounds[b]
<1> DEFINE Fit == {b \in DOMAIN Bounds : us <= Bounds[b]} \cup {Len(Bounds) + 1}
<1>1. /\ Len(Bounds) \in Nat /\ DOMAIN Bounds = 1..Len(Bounds)
      /\ \A b \in DOMAIN Bounds : Bounds[b] \in Nat
  BY MetricsAssumption
<1>2. Fit \subseteq Nat /\ Fit \subseteq Bucket /\ Fit # {}
  BY <1>1 DEF Bucket
<1>3. \E x \in Fit : \A y \in Fit : x <= y
  <2> HIDE DEF Fit
  <2> QED
    BY <1>2, LeastElement
<1>4. bucket_idx(us) \in Fit /\ \A y \in Fit : bucket_idx(us) <= y
  <2>1. bucket_idx(us) = CHOOSE x \in Fit : \A y \in Fit : x <= y
    BY DEF bucket_idx, Min
  <2> HIDE DEF Fit
  <2> QED
    BY <1>3, <2>1
<1>5. ASSUME NEW b \in DOMAIN Bounds, bucket_idx(us) <= b PROVE us <= Bounds[b]
  <2>1. bucket_idx(us) \in DOMAIN Bounds /\ us <= Bounds[bucket_idx(us)]
    BY <1>1, <1>4, <1>5
  <2>2. CASE bucket_idx(us) = b
    BY <2>1, <2>2
  <2>3. CASE bucket_idx(us) < b
    BY <1>1, <2>1, <2>3, MetricsAssumption
  <2> QED
    BY <1>1, <1>5, <2>1, <2>2, <2>3
<1>6. ASSUME NEW b \in DOMAIN Bounds, us <= Bounds[b] PROVE bucket_idx(us) <= b
  BY <1>4, <1>6
<1> QED
  BY <1>2, <1>4, <1>5, <1>6

(* A step of a thread changes the numbers of threads by one. *)
LEMMA StepCounts ==
  ASSUME at \in [Thread -> Places], NEW t \in Thread, NEW from, NEW to \in Places,
         Step(t, from, to)
  PROVE  \A X \in SUBSET Places :
           /\ HowMany(X) \in Nat
           /\ HowMany(X)' = HowMany(X) + ((IF to \in X THEN 1 ELSE 0)
                                          - (IF from \in X THEN 1 ELSE 0))
<1> SUFFICES ASSUME NEW X \in SUBSET Places
             PROVE  /\ HowMany(X) \in Nat
                    /\ HowMany(X)' = HowMany(X) + ((IF to \in X THEN 1 ELSE 0)
                                          - (IF from \in X THEN 1 ELSE 0))
  OBVIOUS
<1>1. \A s \in Thread : Here(X)[s] \in Nat /\ Here(X)'[s] \in Nat
  BY DEF Here
<1>2. \A s \in Thread : s # t => Here(X)[s] = Here(X)'[s]
  BY DEF Here, Step
<1>3. /\ Here(X)[t] = IF from \in X THEN 1 ELSE 0
      /\ Here(X)'[t] = IF to \in X THEN 1 ELSE 0
  BY DEF Here, Step
<1>4. SumOver(Here(X)', Thread) = SumOver(Here(X), Thread) + (Here(X)'[t] - Here(X)[t])
  <2> DEFINE f == Here(X)
             g == Here(X)'
  <2>1. \A s \in Thread : f[s] \in Int /\ g[s] \in Int
    BY <1>1
  <2>2. \A s \in Thread : s # t => f[s] = g[s]
    BY <1>2
  <2>3. IsFiniteSet(Thread)
    BY MetricsAssumption
  <2> HIDE DEF f, g
  <2>4. SumOver(g, Thread) = SumOver(f, Thread) + (g[t] - f[t])
    BY <2>1, <2>2, <2>3, SumChange
  <2> QED
    BY <2>4 DEF f, g
<1>5. SumOver(Here(X), Thread) \in Nat
  BY <1>1, SumNat, MetricsAssumption
<1> QED
  BY <1>3, <1>4, <1>5 DEF HowMany

-----------------------------------------------------------------------------
(* The invariant holds initially and is preserved, part by part.           *)

LEMMA MetricsInitial == MetricsInit => MetricsInv
<1> SUFFICES ASSUME MetricsInit PROVE MetricsInv
  OBVIOUS
<1>1. MetricsTypeOK
  BY DEF MetricsInit, MetricsTypeOK, Places, Bucket
<1>2. ASSUME NEW X \in SUBSET Places, "idle" \notin X PROVE HowMany(X) = 0
  <2>1. \A t \in Thread : Here(X)[t] = 0
    BY <1>2 DEF Here, MetricsInit
  <2> QED
    BY <2>1, SumZeros, MetricsAssumption DEF HowMany
<1>3. CountsOK
  BY <1>2 DEF CountsOK, MetricsInit, Places
<1>4. SnapOK
  BY DEF SnapOK, MetricsInit
<1>5. \A l \in Latency : recorded[l] = 0 /\ Weighted[l] = 0
  BY MetricsAssumption DEF MetricsInit, Weighted
<1>6. SumsOK
  <2>1. \A t \in Thread : Unsummed[t] = 0
    BY DEF Unsummed, MetricsInit
  <2>2. SumOver(Unsummed, Thread) = 0 /\ SumOver(recorded, Latency) = 0
        /\ SumOver(Weighted, Latency) = 0
    BY <1>5, <2>1, SumZeros, MetricsAssumption
  <2> QED
    BY <2>2 DEF SumsOK, MetricsInit
<1>7. MaxOK
  BY <1>5 DEF MaxOK, MetricsInit, Recording
<1>8. BucketsOK
  <2> SUFFICES ASSUME NEW b \in Bucket
               PROVE  buckets[b] + SumOver(Unbucketed(b), Thread)
                        = SumOver(recorded, {l \in Latency : bucket_idx(l) = b})
    BY DEF BucketsOK
  <2> DEFINE L == {l \in Latency : bucket_idx(l) = b}
  <2>1. IsFiniteSet(L) /\ \A l \in L : recorded[l] = 0
    BY <1>5, FS_Subset, MetricsAssumption
  <2>2. \A t \in Thread : Unbucketed(b)[t] = 0
    BY DEF Unbucketed, MetricsInit, Recording
  <2>3. SumOver(Unbucketed(b), Thread) = 0
    BY <2>2, SumZeros, MetricsAssumption
  <2>4. SumOver(recorded, L) = 0
    <3> HIDE DEF L
    <3> QED
      BY <2>1, SumZeros
  <2> QED
    BY <2>3, <2>4 DEF MetricsInit
<1> QED
  BY <1>1, <1>3, <1>4, <1>6, <1>7, <1>8 DEF MetricsInv

(* Every step keeps the types. *)
LEMMA TypeStep ==
  MetricsInv /\ [MetricsNext]_metrics_vars => MetricsTypeOK'
<1> SUFFICES ASSUME MetricsInv, [MetricsNext]_metrics_vars
             PROVE  MetricsTypeOK'
  OBVIOUS
<1> USE DEF MetricsInv, MetricsTypeOK, Places, counters, histogram, threads, reader
<1>1. ASSUME NEW t \in Thread, StartTotal(t) PROVE MetricsTypeOK'
  BY <1>1 DEF StartTotal, Step
<1>2. ASSUME NEW t \in Thread, StartInflight(t) PROVE MetricsTypeOK'
  BY <1>2, MetricsAssumption DEF StartInflight, Step
<1>3. ASSUME NEW t \in Thread, RecordError(t) PROVE MetricsTypeOK'
  BY <1>3 DEF RecordError, Step
<1>4. ASSUME NEW t \in Thread, EndInflight(t) PROVE MetricsTypeOK'
  BY <1>4 DEF EndInflight, Step
<1>5. ASSUME NEW t \in Thread, RecordSample(t) PROVE MetricsTypeOK'
  BY <1>5 DEF RecordSample, Step
<1>6. ASSUME NEW t \in Thread, RecordSum(t) PROVE MetricsTypeOK'
  BY <1>6 DEF RecordSum, Step
<1>7. ASSUME NEW t \in Thread, MaxLoad(t) PROVE MetricsTypeOK'
  BY <1>7 DEF MaxLoad, Step
<1>8. ASSUME NEW t \in Thread, MaxCas(t) PROVE MetricsTypeOK'
  BY <1>8 DEF MaxCas, Step
<1>9. ASSUME NEW t \in Thread, RecordBucket(t) PROVE MetricsTypeOK'
  <2>1. bucket_idx(micros[t]) \in Bucket
    BY BucketOf
  <2> QED
    BY <1>9, <2>1 DEF RecordBucket, Step
<1>10. CASE SnapshotRequests
  BY <1>10 DEF SnapshotRequests
<1>11. CASE SnapshotErrors
  BY <1>11 DEF SnapshotErrors
<1>12. CASE AllServed \/ UNCHANGED metrics_vars
  BY <1>12 DEF AllServed, metrics_vars
<1> QED
  BY <1>1, <1>2, <1>3, <1>4, <1>5, <1>6, <1>7, <1>8, <1>9, <1>10, <1>11, <1>12
     DEF MetricsNext, Request

(* Threads that do not move are counted as before. *)
LEMMA StayCounts ==
  ASSUME at' = at
  PROVE  \A X : HowMany(X)' = HowMany(X)
BY DEF HowMany, Here

(* Every step keeps the account of the requests. *)
LEMMA CountsStep ==
  MetricsInv /\ [MetricsNext]_metrics_vars => CountsOK'
<1> SUFFICES ASSUME MetricsInv, [MetricsNext]_metrics_vars
             PROVE  CountsOK'
  OBVIOUS
<1> DEFINE A == {"error", "end"}
           B == {"start_inflight", "error", "end", "samples"}
           C == {"start_inflight", "error"}
           bit(p) == IF p THEN 1 ELSE 0
<1>a. /\ requests_total \in Nat /\ errors_total \in Nat /\ inflight \in Int
      /\ samples \in Nat
      /\ inflight = HowMany(A) /\ requests_total = samples + HowMany(B)
      /\ errors_total + HowMany(C) <= requests_total
      /\ at \in [Thread -> Places]
  BY DEF MetricsInv, CountsOK, MetricsTypeOK
<1>b. CountsOK' = /\ inflight' = HowMany(A)'
                  /\ requests_total' = samples' + HowMany(B)'
                  /\ errors_total' + HowMany(C)' <= requests_total'
  BY DEF CountsOK
<1>c. A \in SUBSET Places /\ B \in SUBSET Places /\ C \in SUBSET Places
  BY DEF Places
<1>d. ASSUME NEW t \in Thread, NEW from, NEW to \in Places, Step(t, from, to)
      PROVE  /\ HowMany(A) \in Nat /\ HowMany(B) \in Nat /\ HowMany(C) \in Nat
             /\ HowMany(A)' = HowMany(A) + (bit(to \in A) - bit(from \in A))
             /\ HowMany(B)' = HowMany(B) + (bit(to \in B) - bit(from \in B))
             /\ HowMany(C)' = HowMany(C) + (bit(to \in C) - bit(from \in C))
  BY <1>a, <1>c, <1>d, StepCounts
<1>1. ASSUME NEW t \in Thread, StartTotal(t) PROVE CountsOK'
  <2>1. Step(t, "idle", "start_inflight")
    BY <1>1 DEF StartTotal
  <2>2. /\ HowMany(A) \in Nat /\ HowMany(B) \in Nat /\ HowMany(C) \in Nat
        /\ HowMany(A)' = HowMany(A)
        /\ HowMany(B)' = HowMany(B) + 1 /\ HowMany(C)' = HowMany(C) + 1
    BY <1>d, <2>1 DEF Places
  <2> QED
    BY <1>1, <1>a, <1>b, <2>2 DEF StartTotal, histogram
<1>2. ASSUME NEW t \in Thread, StartInflight(t) PROVE CountsOK'
  <2>1. PICK err \in BOOLEAN : Step(t, "start_inflight", IF err THEN "error" ELSE "end")
    BY <1>2 DEF StartInflight
  <2>2. /\ HowMany(A) \in Nat /\ HowMany(B) \in Nat /\ HowMany(C) \in Nat
        /\ HowMany(A)' = HowMany(A) + 1
        /\ HowMany(B)' = HowMany(B)
        /\ HowMany(C)' <= HowMany(C) /\ HowMany(C)' \in Int
    <3>1. CASE err
      BY <1>d, <2>1, <3>1 DEF Places
    <3>2. CASE ~err
      BY <1>d, <2>1, <3>2 DEF Places
    <3> QED
      BY <3>1, <3>2
  <2>3. /\ inflight' = inflight + 1 /\ samples' = samples
        /\ requests_total' = requests_total /\ errors_total' = errors_total
    BY <1>2 DEF StartInflight, histogram
  <2> QED
    BY <1>a, <1>b, <2>2, <2>3
<1>3. ASSUME NEW t \in Thread, RecordError(t) PROVE CountsOK'
  <2>1. Step(t, "error", "end")
    BY <1>3 DEF RecordError
  <2>2. /\ HowMany(A) \in Nat /\ HowMany(B) \in Nat /\ HowMany(C) \in Nat
        /\ HowMany(A)' = HowMany(A)
        /\ HowMany(B)' = HowMany(B) /\ HowMany(C)' = HowMany(C) - 1
    BY <1>d, <2>1 DEF Places
  <2> QED
    BY <1>3, <1>a, <1>b, <2>2 DEF RecordError, histogram
<1>4. ASSUME NEW t \in Thread, EndInflight(t) PROVE CountsOK'
  <2>1. Step(t, "end", "samples")
    BY <1>4 DEF EndInflight
  <2>2. /\ HowMany(A) \in Nat /\ HowMany(B) \in Nat /\ HowMany(C) \in Nat
        /\ HowMany(A)' = HowMany(A) - 1
        /\ HowMany(B)' = HowMany(B) /\ HowMany(C)' = HowMany(C)
    BY <1>d, <2>1 DEF Places
  <2> QED
    BY <1>4, <1>a, <1>b, <2>2 DEF EndInflight, histogram
<1>5. ASSUME NEW t \in Thread, RecordSample(t) PROVE CountsOK'
  <2>1. Step(t, "samples", "sum")
    BY <1>5 DEF RecordSample
  <2>2. /\ HowMany(A) \in Nat /\ HowMany(B) \in Nat /\ HowMany(C) \in Nat
        /\ HowMany(A)' = HowMany(A)
        /\ HowMany(B)' = HowMany(B) - 1 /\ HowMany(C)' = HowMany(C)
    BY <1>d, <2>1 DEF Places
  <2> QED
    BY <1>5, <1>a, <1>b, <2>2 DEF RecordSample, counters
<1>6. ASSUME NEW t \in Thread,
             RecordSum(t) \/ MaxLoad(t) \/ MaxCas(t) \/ RecordBucket(t)
      PROVE  CountsOK'
  <2> DEFINE Rest == {"idle", "sum", "max_load", "max_cas", "bucket"}
  <2>1. PICK from \in Rest, to \in Rest : Step(t, from, to)
    <3>1. RecordSum(t) => Step(t, "sum", "max_load")
      BY DEF RecordSum
    <3>2. MaxLoad(t) => \E to \in Rest : Step(t, "max_load", to)
      BY DEF MaxLoad
    <3>3. MaxCas(t) => \E to \in Rest : Step(t, "max_cas", to)
      BY DEF MaxCas
    <3>4. RecordBucket(t) => Step(t, "bucket", "idle")
      BY DEF RecordBucket
    <3> QED
      BY <1>6, <3>1, <3>2, <3>3, <3>4
  <2>2. /\ HowMany(A)' = HowMany(A) /\ HowMany(B)' = HowMany(B) /\ HowMany(C)' = HowMany(C)
    <3>1. to \in Places /\ from \notin A \cup B \cup C /\ to \notin A \cup B \cup C
      BY DEF Places
    <3> QED
      BY <1>d, <2>1, <3>1
  <2>3. samples' = samples /\ UNCHANGED counters
    BY <1>6 DEF RecordSum, MaxLoad, MaxCas, RecordBucket, histogram
  <2> QED
    BY <1>a, <1>b, <2>2, <2>3 DEF counters
<1>7. CASE SnapshotRequests \/ SnapshotErrors \/ AllServed \/ UNCHANGED metrics_vars
  <2>1. at' = at /\ samples' = samples /\ UNCHANGED counters
    BY <1>7 DEF SnapshotRequests, SnapshotErrors, AllServed, metrics_vars, threads,
                histogram, counters
  <2> QED
    BY <1>a, <1>b, <2>1, StayCounts DEF counters
<1> QED
  BY <1>1, <1>2, <1>3, <1>4, <1>5, <1>6, <1>7 DEF MetricsNext, Request

(* Every step keeps what is known of the snapshot. *)
LEMMA SnapStep ==
  MetricsInv /\ [MetricsNext]_metrics_vars => SnapOK'
<1> SUFFICES ASSUME MetricsInv, [MetricsNext]_metrics_vars
             PROVE  SnapOK'
  OBVIOUS
<1> USE DEF MetricsInv, MetricsTypeOK, SnapOK
<1>1. ASSUME NEW t \in Thread, Request(t) PROVE SnapOK'
  <2>1. UNCHANGED reader
    BY <1>1 DEF Request, StartTotal, StartInflight, RecordError, EndInflight,
                RecordSample, RecordSum, MaxLoad, MaxCas, RecordBucket
  <2>2. /\ requests_total' \in {requests_total, requests_total + 1}
        /\ errors_total' \in {errors_total, errors_total + 1}
    BY <1>1 DEF Request, StartTotal, StartInflight, RecordError, EndInflight,
                RecordSample, RecordSum, MaxLoad, MaxCas, RecordBucket, counters
  <2> QED
    BY <2>1, <2>2 DEF reader
<1>2. CASE SnapshotRequests
  BY <1>2 DEF SnapshotRequests, counters
<1>3. CASE SnapshotErrors
  BY <1>3 DEF SnapshotErrors, counters
<1>4. CASE AllServed \/ UNCHANGED metrics_vars
  BY <1>4 DEF AllServed, metrics_vars
<1> QED
  BY <1>1, <1>2, <1>3, <1>4 DEF MetricsNext

(* The steps that neither record a sample nor add one to the sum. *)
LEMMA SumsKept ==
  ASSUME MetricsTypeOK, SumsOK, UNCHANGED <<samples, sum_us, recorded>>,
         \A s \in Thread : Unsummed'[s] = Unsummed[s]
  PROVE  SumsOK'
<1>1. SumOver(Unsummed', Thread) = SumOver(Unsummed, Thread)
  <2> DEFINE f == Unsummed
             g == Unsummed'
  <2>1. IsFiniteSet(Thread) /\ \A s \in Thread : g[s] = f[s]
    BY MetricsAssumption
  <2> HIDE DEF f, g
  <2>2. SumOver(g, Thread) = SumOver(f, Thread)
    BY <2>1, SumSame
  <2> QED
    BY <2>2 DEF f, g
<1>2. Weighted' = Weighted
  BY DEF Weighted
<1> QED
  BY <1>1, <1>2 DEF SumsOK

(* The pending part of the sum changes for one thread. *)
LEMMA UnsummedChange ==
  ASSUME MetricsTypeOK, MetricsTypeOK', NEW t \in Thread,
         \A s \in Thread : s # t => Unsummed'[s] = Unsummed[s]
  PROVE  /\ SumOver(Unsummed, Thread) \in Int
         /\ SumOver(Unsummed', Thread) = SumOver(Unsummed, Thread) + (Unsummed'[t] - Unsummed[t])
<1> DEFINE f == Unsummed
           g == Unsummed'
<1>1. \A s \in Thread : f[s] \in Int /\ g[s] \in Int
  BY DEF Unsummed, MetricsTypeOK
<1>2. IsFiniteSet(Thread) /\ \A s \in Thread : s # t => f[s] = g[s]
  BY MetricsAssumption
<1> HIDE DEF f, g
<1>3. SumOver(g, Thread) = SumOver(f, Thread) + (g[t] - f[t])
  BY <1>1, <1>2, SumChange
<1>4. SumOver(f, Thread) \in Int
  BY <1>1, <1>2, SumInt
<1> QED
  BY <1>3, <1>4 DEF f, g

(* One more sample, of latency l. *)
LEMMA RecordedMore ==
  ASSUME MetricsTypeOK, NEW l \in Latency,
         recorded' = [recorded EXCEPT ![l] = @ + 1]
  PROVE  /\ SumOver(recorded, Latency) \in Int
         /\ SumOver(recorded', Latency) = SumOver(recorded, Latency) + 1
         /\ SumOver(Weighted, Latency) \in Int
         /\ SumOver(Weighted', Latency) = SumOver(Weighted, Latency) + l
<1>1. Latency \subseteq Nat /\ IsFiniteSet(Latency) /\ recorded \in [Latency -> Nat]
  BY MetricsAssumption DEF MetricsTypeOK
<1>2. /\ SumOver(recorded, Latency) \in Int
      /\ SumOver(recorded', Latency) = SumOver(recorded, Latency) + 1
  <2> DEFINE f == recorded
             g == recorded'
  <2>1. \A m \in Latency : f[m] \in Int /\ g[m] \in Int
    BY <1>1
  <2>a. \A m \in Latency : m # l => f[m] = g[m]
    BY <1>1
  <2>2. g[l] - f[l] = 1
    BY <1>1
  <2>b. IsFiniteSet(Latency)
    BY <1>1
  <2> HIDE DEF f, g
  <2>3. SumOver(g, Latency) = SumOver(f, Latency) + (g[l] - f[l])
    BY <2>a, <2>b, <2>1, SumChange
  <2>4. SumOver(f, Latency) \in Int
    BY <1>1, <2>1, SumInt
  <2> QED
    BY <2>2, <2>3, <2>4 DEF f, g
<1>3. /\ SumOver(Weighted, Latency) \in Int
      /\ SumOver(Weighted', Latency) = SumOver(Weighted, Latency) + l
  <2> DEFINE f == Weighted
             g == Weighted'
  <2>0. \A m, n \in Nat : m * n \in Int /\ m * (n + 1) - m * n = m
    OBVIOUS
  <2>1. \A m \in Latency : f[m] \in Int /\ g[m] \in Int
    <3>1. \A m \in Latency : m \in Nat /\ recorded[m] \in Nat /\ recorded'[m] \in Nat
      BY <1>1
    <3> QED
      BY <2>0, <3>1 DEF Weighted
  <2>a. \A m \in Latency : m # l => f[m] = g[m]
    <3>1. \A m \in Latency : m # l => recorded'[m] = recorded[m]
      BY <1>1
    <3> QED
      BY <3>1 DEF Weighted
  <2>b. IsFiniteSet(Latency)
    BY <1>1
  <2>2. g[l] - f[l] = l
    <3>2. recorded'[l] = recorded[l] + 1 /\ recorded[l] \in Nat /\ l \in Nat
      BY <1>1
    <3>3. f[l] = l * recorded[l] /\ g[l] = l * (recorded[l] + 1)
      BY <3>2 DEF Weighted
    <3> QED
      BY <2>0, <3>2, <3>3
  <2> HIDE DEF f, g
  <2>3. SumOver(g, Latency) = SumOver(f, Latency) + (g[l] - f[l])
    BY <2>a, <2>b, <2>1, SumChange
  <2>4. SumOver(f, Latency) \in Int
    BY <1>1, <2>1, SumInt
  <2> QED
    BY <2>2, <2>3, <2>4 DEF f, g
<1> QED
  BY <1>2, <1>3

(* Every step keeps the sum and the number of the samples. *)
LEMMA SumsStep ==
  MetricsInv /\ [MetricsNext]_metrics_vars => SumsOK'
<1> SUFFICES ASSUME MetricsInv, [MetricsNext]_metrics_vars
             PROVE  SumsOK'
  OBVIOUS
<1>a. MetricsTypeOK /\ MetricsTypeOK' /\ SumsOK
  BY TypeStep DEF MetricsInv
<1>b. /\ samples = SumOver(recorded, Latency)
      /\ sum_us + SumOver(Unsummed, Thread) = SumOver(Weighted, Latency)
      /\ sum_us \in Nat
  BY <1>a DEF SumsOK, MetricsTypeOK
<1>1. ASSUME NEW t \in Thread, RecordSample(t) PROVE SumsOK'
  <2>1. micros[t] \in Latency /\ micros[t] \in Nat /\ at[t] = "samples"
    BY <1>a, <1>1 DEF RecordSample, Step, MetricsTypeOK
  <2>2. /\ \A s \in Thread : s # t => Unsummed'[s] = Unsummed[s]
        /\ Unsummed[t] = 0 /\ Unsummed'[t] = micros[t]
    BY <1>a, <1>1, <2>1 DEF RecordSample, Step, Unsummed, MetricsTypeOK
  <2>3. /\ SumOver(Unsummed, Thread) \in Int
        /\ SumOver(Unsummed', Thread) = SumOver(Unsummed, Thread) + micros[t]
    BY <1>a, <2>1, <2>2, UnsummedChange
  <2>4. /\ SumOver(recorded, Latency) \in Int
        /\ SumOver(recorded', Latency) = SumOver(recorded, Latency) + 1
        /\ SumOver(Weighted, Latency) \in Int
        /\ SumOver(Weighted', Latency) = SumOver(Weighted, Latency) + micros[t]
    BY <1>a, <1>1, <2>1, RecordedMore DEF RecordSample
  <2>5. samples' = samples + 1 /\ sum_us' = sum_us
    BY <1>1 DEF RecordSample
  <2> QED
    BY <1>b, <2>1, <2>3, <2>4, <2>5 DEF SumsOK
<1>2. ASSUME NEW t \in Thread, RecordSum(t) PROVE SumsOK'
  <2>1. micros[t] \in Nat /\ at[t] = "sum"
    BY <1>a, <1>2 DEF RecordSum, Step, MetricsTypeOK
  <2>2. /\ \A s \in Thread : s # t => Unsummed'[s] = Unsummed[s]
        /\ Unsummed[t] = micros[t] /\ Unsummed'[t] = 0
    BY <1>a, <1>2, <2>1 DEF RecordSum, Step, Unsummed, MetricsTypeOK
  <2>3. /\ SumOver(Unsummed, Thread) \in Int
        /\ SumOver(Unsummed', Thread) = SumOver(Unsummed, Thread) + (0 - micros[t])
    BY <1>a, <2>1, <2>2, UnsummedChange
  <2>4. samples' = samples /\ sum_us' = sum_us + micros[t] /\ recorded' = recorded
    BY <1>2 DEF RecordSum
  <2>5. Weighted' = Weighted
    BY <2>4 DEF Weighted
  <2> QED
    BY <1>b, <2>1, <2>3, <2>4, <2>5 DEF SumsOK
<1>3. ASSUME NEW t \in Thread,
             \/ StartTotal(t) \/ StartInflight(t) \/ RecordError(t) \/ EndInflight(t)
             \/ MaxLoad(t) \/ MaxCas(t) \/ RecordBucket(t)
      PROVE  SumsOK'
  <2>1. UNCHANGED <<samples, sum_us, recorded>>
    BY <1>3 DEF StartTotal, StartInflight, RecordError, EndInflight, MaxLoad, MaxCas,
                RecordBucket, histogram
  <2>2. /\ at[t] # "sum" /\ at'[t] # "sum"
        /\ \A s \in Thread : s # t => at'[s] = at[s] /\ micros'[s] = micros[s]
    <3>1. CASE StartInflight(t)
      BY <1>a, <3>1 DEF StartInflight, Step, MetricsTypeOK
    <3>2. CASE ~StartInflight(t)
      BY <1>a, <1>3, <3>2 DEF StartTotal, RecordError, EndInflight, MaxLoad, MaxCas,
                        RecordBucket, Step, MetricsTypeOK
    <3> QED
      BY <3>1, <3>2
  <2>3. \A s \in Thread : Unsummed'[s] = Unsummed[s]
    BY <2>2 DEF Unsummed
  <2> QED
    BY <1>a, <2>1, <2>3, SumsKept
<1>4. CASE SnapshotRequests \/ SnapshotErrors \/ AllServed \/ UNCHANGED metrics_vars
  <2>1. UNCHANGED <<samples, sum_us, recorded, at, micros>>
    BY <1>4 DEF SnapshotRequests, SnapshotErrors, AllServed, metrics_vars, threads,
                histogram
  <2>2. \A s \in Thread : Unsummed'[s] = Unsummed[s]
    BY <2>1 DEF Unsummed
  <2> QED
    BY <1>a, <2>1, <2>2, SumsKept
<1> QED
  BY <1>1, <1>2, <1>3, <1>4 DEF MetricsNext, Request

(* Every step keeps the maximum, or a thread that will raise it. *)
LEMMA MaxStep ==
  MetricsInv /\ [MetricsNext]_metrics_vars => MaxOK'
<1> SUFFICES ASSUME MetricsInv, [MetricsNext]_metrics_vars
             PROVE  MaxOK'
  OBVIOUS
<1>a. Latency \subseteq Nat
  BY MetricsAssumption
<1> USE <1>a
    DEF MetricsInv, MetricsTypeOK, MaxOK, Recording, Places, counters, histogram,
        threads, reader
<1>1. ASSUME NEW t \in Thread,
             StartTotal(t) \/ RecordError(t) \/ EndInflight(t) \/ RecordBucket(t)
      PROVE  MaxOK'
  BY <1>1 DEF StartTotal, RecordError, EndInflight, RecordBucket, Step
<1>2. ASSUME NEW t \in Thread, StartInflight(t) PROVE MaxOK'
  BY <1>2 DEF StartInflight, Step
<1>5. ASSUME NEW t \in Thread, RecordSample(t) PROVE MaxOK'
  <2>1. /\ at[t] = "samples" /\ at' = [at EXCEPT ![t] = "sum"]
        /\ micros[t] \in Latency /\ UNCHANGED <<max_us, micros, seen>>
        /\ recorded' = [recorded EXCEPT ![micros[t]] = @ + 1]
    BY <1>5 DEF RecordSample, Step
  <2>2. /\ recorded'[micros[t]] > 0
        /\ \A l \in Latency : recorded'[l] > 0 <=> recorded[l] > 0 \/ l = micros[t]
    BY <2>1
  <2> QED
    BY <2>1, <2>2
<1>6. ASSUME NEW t \in Thread, RecordSum(t) PROVE MaxOK'
  BY <1>6 DEF RecordSum, Step
<1>7. ASSUME NEW t \in Thread, MaxLoad(t) PROVE MaxOK'
  <2>1. /\ at[t] = "max_load" /\ UNCHANGED <<max_us, micros, recorded>>
        /\ \A s \in Thread : s # t => at'[s] = at[s] /\ seen'[s] = seen[s]
    BY <1>7 DEF MaxLoad, Step
  <2>2. \/ micros[t] > max_us /\ at'[t] = "max_cas" /\ seen'[t] = max_us
        \/ micros[t] <= max_us /\ at'[t] = "bucket"
    BY <1>7 DEF MaxLoad, Step
  <2>3. ASSUME NEW l \in Latency, recorded'[l] > 0
        PROVE  \/ l <= max_us'
               \/ \E s \in Thread : at'[s] \in {"sum", "max_load", "max_cas"} /\ micros'[s] = l
    <3>1. recorded[l] > 0 /\ max_us' = max_us
      BY <2>1, <2>3
    <3>2. CASE l <= max_us
      BY <3>1, <3>2
    <3>3. ASSUME NEW s \in Thread, at[s] \in {"sum", "max_load", "max_cas"}, micros[s] = l
          PROVE  \/ l <= max_us
                 \/ at'[s] \in {"sum", "max_load", "max_cas"} /\ micros'[s] = l
      <4>1. micros' = micros
        BY <2>1
      <4>2. CASE s = t
        BY <2>2, <3>3, <4>1, <4>2
      <4>3. CASE s # t
        BY <2>1, <3>3, <4>1, <4>3
      <4> QED
        BY <4>2, <4>3
    <3>4. \/ l <= max_us
          \/ \E s \in Thread : at[s] \in {"sum", "max_load", "max_cas"} /\ micros[s] = l
      BY <3>1
    <3> QED
      BY <3>1, <3>2, <3>3, <3>4
  <2> QED
    BY <2>1, <2>2, <2>3
<1>8. ASSUME NEW t \in Thread, MaxCas(t) PROVE MaxOK'
  <2>1. /\ at[t] = "max_cas" /\ UNCHANGED <<micros, recorded>>
        /\ seen[t] < micros[t] /\ recorded[micros[t]] > 0 /\ micros[t] \in Latency
        /\ \A s \in Thread : s # t => at'[s] = at[s] /\ seen'[s] = seen[s]
    BY <1>8 DEF MaxCas, Step
  <2>2. \/ max_us = seen[t] /\ max_us' = micros[t] /\ at'[t] = "bucket"
        \/ /\ micros[t] > max_us /\ max_us' = max_us
           /\ at'[t] = "max_cas" /\ seen'[t] = max_us
        \/ micros[t] <= max_us /\ max_us' = max_us /\ at'[t] = "bucket"
    BY <1>8 DEF MaxCas, Step
  <2>3. ASSUME NEW l \in Latency, recorded'[l] > 0
        PROVE  \/ l <= max_us'
               \/ \E s \in Thread : at'[s] \in {"sum", "max_load", "max_cas"} /\ micros'[s] = l
    <3>a. l \in Nat /\ max_us \in Nat /\ micros[t] \in Nat /\ seen[t] \in Nat
      BY <2>1
    <3>b. max_us' = max_us \/ (max_us' = micros[t] /\ max_us < micros[t])
      BY <2>1, <2>2
    <3>1. l \in Nat /\ max_us' \in Nat /\ max_us <= max_us' /\ micros[t] \in Nat
      BY <3>a, <3>b
    <3>2. CASE l <= max_us
      BY <3>1, <3>2
    <3>3. CASE \E s \in Thread : at[s] \in {"sum", "max_load", "max_cas"} /\ micros[s] = l
      BY <2>1, <2>2, <3>1, <3>3
    <3> QED
      BY <2>1, <2>3, <3>2, <3>3
  <2>4. max_us' # 0 => max_us' \in Latency /\ recorded'[max_us'] > 0
    BY <2>1, <2>2
  <2>5. \A s \in Thread : at'[s] \in Recording => recorded'[micros'[s]] > 0
    BY <2>1
  <2>6. \A s \in Thread : at'[s] = "max_cas" => seen'[s] < micros'[s]
    BY <2>1, <2>2
  <2> QED
    BY <2>3, <2>4, <2>5, <2>6
<1>10. CASE SnapshotRequests \/ SnapshotErrors \/ AllServed \/ UNCHANGED metrics_vars
  <2>1. UNCHANGED <<max_us, micros, seen, recorded, at>>
    BY <1>10 DEF SnapshotRequests, SnapshotErrors, AllServed, metrics_vars
  <2> QED
    BY <2>1
<1> QED
  BY <1>1, <1>2, <1>5, <1>6, <1>7, <1>8, <1>10 DEF MetricsNext, Request

(* The samples of one bucket, and the threads that have still to count it. *)
InBucket(b) == {l \in Latency : bucket_idx(l) = b}

(* One thread changes what is still to be put in a bucket. *)
LEMMA UnbucketedChange ==
  ASSUME NEW t \in Thread, NEW b,
         \A s \in Thread : s # t => Unbucketed(b)'[s] = Unbucketed(b)[s]
  PROVE  /\ SumOver(Unbucketed(b), Thread) \in Int
         /\ SumOver(Unbucketed(b)', Thread)
              = SumOver(Unbucketed(b), Thread) + (Unbucketed(b)'[t] - Unbucketed(b)[t])
<1> DEFINE f == Unbucketed(b)
           g == Unbucketed(b)'
<1>1. \A s \in Thread : f[s] \in Int /\ g[s] \in Int
  BY DEF Unbucketed
<1>2. IsFiniteSet(Thread)
  BY MetricsAssumption
<1>3. \A s \in Thread : s # t => f[s] = g[s]
  OBVIOUS
<1> HIDE DEF f, g
<1>4. SumOver(g, Thread) = SumOver(f, Thread) + (g[t] - f[t])
  BY <1>1, <1>2, <1>3, SumChange
<1>5. SumOver(f, Thread) \in Int
  BY <1>1, <1>2, SumInt
<1> QED
  BY <1>4, <1>5 DEF f, g

(* The steps that neither record a sample nor count one in its bucket. *)
LEMMA BucketsKept ==
  ASSUME BucketsOK, UNCHANGED <<buckets, recorded>>,
         \A b \in Bucket : \A s \in Thread : Unbucketed(b)'[s] = Unbucketed(b)[s]
  PROVE  BucketsOK'
<1> SUFFICES ASSUME NEW b \in Bucket
             PROVE  (buckets[b] + SumOver(Unbucketed(b), Thread)
                       = SumOver(recorded, {l \in Latency : bucket_idx(l) = b}))'
  BY DEF BucketsOK, Bucket
<1>1. SumOver(Unbucketed(b)', Thread) = SumOver(Unbucketed(b), Thread)
  <2> DEFINE f == Unbucketed(b)
             g == Unbucketed(b)'
  <2>1. IsFiniteSet(Thread)
    BY MetricsAssumption
  <2>2. \A s \in Thread : g[s] = f[s]
    OBVIOUS
  <2> HIDE DEF f, g
  <2>3. SumOver(g, Thread) = SumOver(f, Thread)
    BY <2>1, <2>2, SumSame
  <2> QED
    BY <2>3 DEF f, g
<1> QED
  BY <1>1 DEF BucketsOK, bucket_idx

(* One more sample of latency l, seen from bucket b. *)
LEMMA InBucketMore ==
  ASSUME MetricsTypeOK, NEW l \in Latency, NEW b \in Bucket,
         recorded' = [recorded EXCEPT ![l] = @ + 1]
  PROVE  /\ SumOver(recorded, InBucket(b)) \in Int
         /\ SumOver(recorded', InBucket(b))
              = SumOver(recorded, InBucket(b)) + (IF bucket_idx(l) = b THEN 1 ELSE 0)
<1> DEFINE L == InBucket(b)
           f == recorded
           g == recorded'
<1>1. recorded \in [Latency -> Nat] /\ L \subseteq Latency
  BY DEF MetricsTypeOK, InBucket
<1>2. IsFiniteSet(L)
  BY <1>1, FS_Subset, MetricsAssumption
<1>3. \A m \in L : f[m] \in Int /\ g[m] \in Int
  BY <1>1
<1>4. (\A m \in L : m # l => f[m] = g[m]) /\ g[l] - f[l] = 1
  BY <1>1
<1>5. l \in L <=> bucket_idx(l) = b
  BY DEF InBucket
<1> HIDE DEF f, g, L
<1>6. SumOver(f, L) \in Int
  BY <1>2, <1>3, SumInt
<1>7. CASE l \in L
  <2>1. \A m \in L : m # l => f[m] = g[m]
    BY <1>4
  <2>2. SumOver(g, L) = SumOver(f, L) + (g[l] - f[l])
    BY <1>2, <1>3, <2>1, <1>7, SumChange
  <2> QED
    BY <1>4, <1>5, <1>6, <1>7, <2>2 DEF f, g, L
<1>8. CASE l \notin L
  <2>1. \A m \in L : g[m] = f[m]
    BY <1>4, <1>8
  <2>2. SumOver(g, L) = SumOver(f, L)
    BY <1>2, <2>1, SumSame
  <2> QED
    BY <1>5, <1>6, <1>8, <2>2 DEF f, g, L
<1> QED
  BY <1>7, <1>8

(* Every step keeps the account of the buckets. *)
LEMMA BucketsStep ==
  MetricsInv /\ [MetricsNext]_metrics_vars => BucketsOK'
<1> SUFFICES ASSUME MetricsInv, [MetricsNext]_metrics_vars
             PROVE  BucketsOK'
  OBVIOUS
<1>a. MetricsTypeOK /\ BucketsOK /\ Latency \subseteq Nat
  BY MetricsAssumption DEF MetricsInv
<1>b. ASSUME NEW b \in Bucket
      PROVE  /\ buckets[b] \in Nat
             /\ buckets[b] + SumOver(Unbucketed(b), Thread) = SumOver(recorded, InBucket(b))
  BY <1>a DEF BucketsOK, InBucket, MetricsTypeOK
<1>c. SUFFICES \A b \in Bucket : buckets'[b] + SumOver(Unbucketed(b)', Thread)
                                   = SumOver(recorded', InBucket(b))
  BY DEF BucketsOK, InBucket, Bucket, bucket_idx
<1>1. ASSUME NEW t \in Thread, RecordSample(t), NEW b \in Bucket
      PROVE  buckets'[b] + SumOver(Unbucketed(b)', Thread)
               = SumOver(recorded', InBucket(b))
  <2>1. /\ micros[t] \in Latency /\ at[t] = "samples" /\ at'[t] = "sum"
        /\ \A s \in Thread : s # t => at'[s] = at[s]
        /\ micros' = micros /\ buckets' = buckets
        /\ recorded' = [recorded EXCEPT ![micros[t]] = @ + 1]
    BY <1>a, <1>1 DEF RecordSample, Step, MetricsTypeOK
  <2>2. /\ \A s \in Thread : s # t => Unbucketed(b)'[s] = Unbucketed(b)[s]
        /\ Unbucketed(b)[t] = 0
        /\ Unbucketed(b)'[t] = IF bucket_idx(micros[t]) = b THEN 1 ELSE 0
    BY <2>1 DEF Unbucketed, Recording, bucket_idx
  <2>3. /\ SumOver(Unbucketed(b), Thread) \in Int
        /\ SumOver(Unbucketed(b)', Thread)
             = SumOver(Unbucketed(b), Thread) + (IF bucket_idx(micros[t]) = b THEN 1 ELSE 0)
    <3>1. /\ SumOver(Unbucketed(b), Thread) \in Int
          /\ SumOver(Unbucketed(b)', Thread)
               = SumOver(Unbucketed(b), Thread) + (Unbucketed(b)'[t] - Unbucketed(b)[t])
      BY <2>2, UnbucketedChange
    <3> QED
      BY <2>2, <3>1
  <2>4. /\ SumOver(recorded, InBucket(b)) \in Int
        /\ SumOver(recorded', InBucket(b))
             = SumOver(recorded, InBucket(b)) + (IF bucket_idx(micros[t]) = b THEN 1 ELSE 0)
    BY <1>a, <2>1, InBucketMore
  <2> QED
    BY <1>b, <2>1, <2>3, <2>4
<1>2. ASSUME NEW t \in Thread, RecordBucket(t), NEW b \in Bucket
      PROVE  buckets'[b] + SumOver(Unbucketed(b)', Thread)
               = SumOver(recorded', InBucket(b))
  <2>1. /\ micros[t] \in Nat /\ at[t] = "bucket" /\ at'[t] = "idle"
        /\ \A s \in Thread : s # t => at'[s] = at[s]
        /\ micros' = micros /\ recorded' = recorded
        /\ buckets' = [buckets EXCEPT ![bucket_idx(micros[t])] = @ + 1]
    BY <1>a, <1>2 DEF RecordBucket, Step, MetricsTypeOK
  <2>2. buckets'[b] = buckets[b] + (IF bucket_idx(micros[t]) = b THEN 1 ELSE 0)
    BY <1>a, <2>1 DEF MetricsTypeOK
  <2>3. /\ \A s \in Thread : s # t => Unbucketed(b)'[s] = Unbucketed(b)[s]
        /\ Unbucketed(b)[t] = IF bucket_idx(micros[t]) = b THEN 1 ELSE 0
        /\ Unbucketed(b)'[t] = 0
    BY <2>1 DEF Unbucketed, Recording, bucket_idx
  <2>4. /\ SumOver(Unbucketed(b), Thread) \in Int
        /\ SumOver(Unbucketed(b)', Thread)
             = SumOver(Unbucketed(b), Thread) - (IF bucket_idx(micros[t]) = b THEN 1 ELSE 0)
    <3>1. /\ SumOver(Unbucketed(b), Thread) \in Int
          /\ SumOver(Unbucketed(b)', Thread)
               = SumOver(Unbucketed(b), Thread) + (Unbucketed(b)'[t] - Unbucketed(b)[t])
      BY <2>3, UnbucketedChange
    <3> QED
      BY <2>3, <3>1
  <2> QED
    BY <1>b, <2>1, <2>2, <2>4
<1>3. ASSUME NEW t \in Thread,
             \/ StartTotal(t) \/ StartInflight(t) \/ RecordError(t) \/ EndInflight(t)
             \/ RecordSum(t) \/ MaxLoad(t) \/ MaxCas(t)
      PROVE  BucketsOK'
  <2>1. UNCHANGED <<buckets, recorded>>
    BY <1>3 DEF StartTotal, StartInflight, RecordError, EndInflight, RecordSum, MaxLoad,
                MaxCas, histogram
  <2>2. /\ at[t] \in Recording <=> at'[t] \in Recording
        /\ at[t] \in Recording => micros'[t] = micros[t]
        /\ \A s \in Thread : s # t => at'[s] = at[s] /\ micros'[s] = micros[s]
    <3>1. CASE StartInflight(t)
      BY <1>a, <3>1 DEF StartInflight, Step, MetricsTypeOK, Recording
    <3>2. CASE ~StartInflight(t)
      BY <1>a, <1>3, <3>2 DEF StartTotal, RecordError, EndInflight, RecordSum, MaxLoad,
                              MaxCas, Step, MetricsTypeOK, Recording
    <3> QED
      BY <3>1, <3>2
  <2>3. \A b \in Bucket : \A s \in Thread : Unbucketed(b)'[s] = Unbucketed(b)[s]
    BY <2>2 DEF Unbucketed, bucket_idx
  <2> QED
    BY <1>a, <2>1, <2>3, BucketsKept
<1>4. CASE SnapshotRequests \/ SnapshotErrors \/ AllServed \/ UNCHANGED metrics_vars
  <2>1. UNCHANGED <<buckets, recorded, at, micros>>
    BY <1>4 DEF SnapshotRequests, SnapshotErrors, AllServed, metrics_vars, threads,
                histogram
  <2>2. \A b \in Bucket : \A s \in Thread : Unbucketed(b)'[s] = Unbucketed(b)[s]
    BY <2>1 DEF Unbucketed, bucket_idx
  <2>3. BucketsOK'
    BY <1>a, <2>1, <2>2, BucketsKept
  <2> QED
    BY <2>3 DEF BucketsOK, InBucket, Bucket, bucket_idx
<1>5. BucketsOK' => \A b \in Bucket :
                      buckets'[b] + SumOver(Unbucketed(b)', Thread)
                        = SumOver(recorded', InBucket(b))
  BY DEF BucketsOK, InBucket, Bucket, bucket_idx
<1> QED
  BY <1>1, <1>2, <1>3, <1>4, <1>5 DEF MetricsNext, Request

(* The invariant holds in every behaviour. *)
LEMMA MetricsInvariant == MetricsSpec => []MetricsInv
<1>1. MetricsInv /\ [MetricsNext]_metrics_vars => MetricsInv'
  BY TypeStep, CountsStep, SnapStep, SumsStep, MaxStep, BucketsStep DEF MetricsInv
<1> QED
  BY MetricsInitial, <1>1, PTL DEF MetricsSpec

-----------------------------------------------------------------------------
(* The sums of the properties are sums over sets. *)
LEMMA RecordedSum ==
  ASSUME NEW L PROVE Recorded(L) = SumOver(recorded, L)
BY DEF Recorded, MapThenSumSet, MapThenFoldSet, SumOver, SumsOf, Pick

(* cumulative as a sum. *)
LEMMA CumulativeSum ==
  ASSUME NEW b PROVE Cumulative(snapshot, b) = SumOver(buckets, 1..b)
<1>1. snapshot.buckets = buckets
  BY DEF snapshot
<1> QED
  BY <1>1 DEF Cumulative, MapThenSumSet, MapThenFoldSet, SumOver, SumsOf, Pick

(* The sum of the latencies that QuiescentExact takes. *)
LEMMA WeightedSum ==
  MapThenSumSet(LAMBDA l : l * recorded[l], Latency) = SumOver(Weighted, Latency)
<1> DEFINE P(iter) == iter = [S \in SUBSET Latency |->
                                IF S = {} THEN 0
                                ELSE (CHOOSE x \in S : TRUE) * recorded[CHOOSE x \in S : TRUE]
                                     + iter[S \ {CHOOSE x \in S : TRUE}]]
<1>1. MapThenSumSet(LAMBDA l : l * recorded[l], Latency) = (CHOOSE iter : P(iter))[Latency]
  BY DEF MapThenSumSet, MapThenFoldSet
<1>2. ASSUME NEW g PROVE P(g) <=> SumsOf(Weighted, Latency, g)
  BY DEF SumsOf, Pick, Weighted
<1>3. \E g : P(g)
  <2>1. PICK g : SumsOf(Weighted, Latency, g)
    BY SumsExist, MetricsAssumption
  <2> HIDE DEF P
  <2> QED
    BY <1>2, <2>1
<1>4. P(CHOOSE iter : P(iter))
  <2> HIDE DEF P
  <2> QED
    BY <1>3
<1>5. SumsOf(Weighted, Latency, CHOOSE iter : P(iter))
  BY <1>2, <1>4
<1> HIDE DEF P
<1> QED
  BY <1>1, <1>5, SumOverIs, MetricsAssumption

-----------------------------------------------------------------------------
(* At rest.                                                                *)

LEMMA NoneCounted ==
  ASSUME NoneServing, NEW X, "idle" \notin X PROVE HowMany(X) = 0
<1>1. \A t \in Thread : Here(X)[t] = 0
  BY DEF Here, NoneServing
<1> QED
  BY <1>1, SumZeros, MetricsAssumption DEF HowMany

(* At rest the greatest recorded latency is max_us. *)
LEMMA RestMax ==
  ASSUME MetricsInv, NoneServing
  PROVE  /\ \A l \in Latency : recorded[l] > 0 => l <= max_us
         /\ max_us # 0 => max_us \in Latency /\ recorded[max_us] > 0
         /\ max_us \in Nat
BY DEF MetricsInv, MaxOK, NoneServing, MetricsTypeOK

(* At rest no thread is on its way to an update. *)
LEMMA RestExact ==
  MetricsInv => QuiescentExact
<1> SUFFICES ASSUME MetricsInv, NoneServing
             PROVE  /\ inflight = 0
                    /\ samples = requests_total /\ samples = Recorded(Latency)
                    /\ sum_us = MapThenSumSet(LAMBDA l : l * recorded[l], Latency)
                    /\ max_us = Max({l \in Latency : recorded[l] > 0} \cup {0})
  BY DEF QuiescentExact
<1>1. inflight = 0 /\ samples = requests_total
  <2>1. /\ HowMany({"error", "end"}) = 0
        /\ HowMany({"start_inflight", "error", "end", "samples"}) = 0
    BY NoneCounted
  <2> QED
    BY <2>1 DEF MetricsInv, CountsOK, MetricsTypeOK
<1>2. samples = Recorded(Latency)
  BY RecordedSum DEF MetricsInv, SumsOK
<1>3. sum_us = MapThenSumSet(LAMBDA l : l * recorded[l], Latency)
  <2>1. \A t \in Thread : Unsummed[t] = 0
    BY DEF Unsummed, NoneServing
  <2>2. SumOver(Unsummed, Thread) = 0
    BY <2>1, SumZeros, MetricsAssumption
  <2>3. sum_us = SumOver(Weighted, Latency)
    BY <2>2 DEF MetricsInv, SumsOK, MetricsTypeOK
  <2> QED
    BY <2>3, WeightedSum
<1>4. max_us = Max({l \in Latency : recorded[l] > 0} \cup {0})
  <2> DEFINE M == {l \in Latency : recorded[l] > 0} \cup {0}
  <2>1. Max(M) = CHOOSE x \in M : \A y \in M : x >= y
    BY DEF Max
  <2>a. Latency \subseteq Nat
    BY MetricsAssumption
  <2>b. /\ \A l \in Latency : recorded[l] > 0 => l <= max_us
        /\ max_us # 0 => max_us \in Latency /\ recorded[max_us] > 0
        /\ max_us \in Nat
    BY RestMax
  <2>c. max_us \in M
    BY <2>b
  <2>d. ASSUME NEW y \in M PROVE y \in Nat /\ max_us >= y
    <3>1. CASE y = 0
      BY <2>b, <3>1
    <3>2. CASE y \in Latency /\ recorded[y] > 0
      <4>1. y \in Nat /\ y <= max_us
        BY <2>a, <2>b, <3>2
      <4> QED
        BY <2>b, <4>1
    <3> QED
      BY <3>1, <3>2
  <2>2. M \subseteq Nat /\ max_us \in M /\ \A y \in M : max_us >= y
    BY <2>c, <2>d
  <2> HIDE DEF M
  <2>3. Max(M) \in M /\ \A y \in M : Max(M) >= y
    BY <2>1, <2>2
  <2>4. max_us = Max(M)
    <3>1. max_us \in Nat /\ Max(M) \in Nat /\ max_us >= Max(M) /\ Max(M) >= max_us
      BY <2>2, <2>3
    <3> QED
      BY <3>1
  <2> QED
    BY <2>4 DEF M
<1> QED
  BY <1>1, <1>2, <1>3, <1>4

(* At rest nothing was lost, for any number of threads and requests: every *)
(* request is one sample, and the sum and the maximum are those of the     *)
(* recorded latencies, although the relaxed operations of                  *)
(* LatencyHistogram::record interleave in any way.                         *)
THEOREM NothingLost == MetricsSpec => []QuiescentExact
BY MetricsInvariant, RestExact, PTL

(* Errors exceed requests only by requests that began in between. *)
LEMMA TornOnly ==
  MetricsInv => ErrorRateTornOnlyByStarts
<1> SUFFICES ASSUME MetricsInv, load = "done", error_rate(snap)[1] > error_rate(snap)[2]
             PROVE  requests_total > snap.requests_total
  BY DEF ErrorRateTornOnlyByStarts
<1>1. /\ snap.requests_total \in Nat /\ snap.errors_total \in Nat
      /\ snap.errors_total <= errors_total
      /\ requests_total \in Nat /\ errors_total \in Nat
  BY DEF MetricsInv, MetricsTypeOK, SnapOK
<1>2. snap.errors_total > snap.requests_total
  BY <1>1 DEF error_rate
<1>3. HowMany({"start_inflight", "error"}) \in Nat
  <2>1. \A t \in Thread : Here({"start_inflight", "error"})[t] \in Nat
    BY DEF Here
  <2> QED
    BY <2>1, SumNat, MetricsAssumption DEF HowMany
<1>4. errors_total + HowMany({"start_inflight", "error"}) <= requests_total
  BY DEF MetricsInv, CountsOK
<1> QED
  BY <1>1, <1>2, <1>3, <1>4

(* However the loads of a snapshot interleave with the requests, an error  *)
(* rate above 1 is reported only if a request began after the snapshot had *)
(* loaded requests_total.                                                  *)
THEOREM TornOnlyByStarts == MetricsSpec => []ErrorRateTornOnlyByStarts
BY MetricsInvariant, TornOnly, PTL

-----------------------------------------------------------------------------
(* Percentiles.                                                            *)

(* At rest a bucket has as many samples as latencies were recorded in it,  *)
(* and the first b buckets those of the latencies up to bound b.           *)
LEMMA RestCumulative ==
  ASSUME MetricsInv, NoneServing
  PROVE  \A b \in DOMAIN Bounds : Cumulative(snapshot, b) = AtMost(Bounds[b])
<1>a. /\ Len(Bounds) \in Nat /\ DOMAIN Bounds = 1..Len(Bounds)
      /\ Latency \subseteq Nat /\ IsFiniteSet(Latency) /\ IsFiniteSet(Thread)
  BY MetricsAssumption
<1>b. recorded \in [Latency -> Nat] /\ buckets \in [Bucket -> Nat]
  BY DEF MetricsInv, MetricsTypeOK
<1>1. ASSUME NEW b \in Bucket PROVE buckets[b] = SumOver(recorded, InBucket(b))
  <2>1. \A t \in Thread : Unbucketed(b)[t] = 0
    BY DEF Unbucketed, NoneServing, Recording
  <2>2. SumOver(Unbucketed(b), Thread) = 0
    BY <2>1, <1>a, SumZeros
  <2> QED
    BY <2>2, <1>b DEF MetricsInv, BucketsOK, InBucket
<1> DEFINE Upto(b) == {l \in Latency : bucket_idx(l) <= b}
           Good == {b \in Nat : b <= Len(Bounds) =>
                      SumOver(buckets, 1..b) = SumOver(recorded, Upto(b))}
<1>2. \A l \in Latency : bucket_idx(l) \in Bucket
  BY <1>a, BucketOf
<1>3. 0 \in Good
  <2>1. 1..0 = {} /\ Upto(0) = {}
    <3>1. \A l \in Latency : bucket_idx(l) \in Nat /\ bucket_idx(l) >= 1
      BY <1>2, <1>a DEF Bucket
    <3> QED
      BY <3>1
  <2> QED
    BY <2>1, SumEmpty
<1>4. ASSUME NEW b \in Nat, b \in Good PROVE b + 1 \in Good
  <2>1. SUFFICES ASSUME b + 1 <= Len(Bounds)
                 PROVE  SumOver(buckets, 1..(b + 1)) = SumOver(recorded, Upto(b + 1))
    OBVIOUS
  <2>2. SumOver(buckets, 1..b) = SumOver(recorded, Upto(b))
    BY <1>a, <1>4, <2>1
  <2>3. b + 1 \in Bucket /\ 1..(b + 1) = (1..b) \cup {b + 1} /\ b + 1 \notin 1..b
        /\ 1..(b + 1) \subseteq Bucket
    BY <1>a, <2>1 DEF Bucket
  <2>4. SumOver(buckets, 1..(b + 1)) = buckets[b + 1] + SumOver(buckets, 1..b)
    <3>1. IsFiniteSet(1..b)
      BY FS_Interval
    <3>2. \A y \in (1..b) \cup {b + 1} : buckets[y] \in Int
      BY <1>b, <2>3
    <3>3. SumOver(buckets, (1..b) \cup {b + 1}) = buckets[b + 1] + SumOver(buckets, 1..b)
      BY <2>3, <3>1, <3>2, SumAdd
    <3> QED
      BY <2>3, <3>3
  <2>5. /\ Upto(b + 1) = Upto(b) \cup InBucket(b + 1)
        /\ Upto(b) \cap InBucket(b + 1) = {}
    <3>1. \A l \in Latency : bucket_idx(l) \in Nat
      BY <1>2, <1>a DEF Bucket
    <3>2. \A l \in Latency : bucket_idx(l) <= b + 1 <=> bucket_idx(l) <= b \/ bucket_idx(l) = b + 1
      BY <3>1
    <3>3. \A l \in Latency : ~(bucket_idx(l) <= b /\ bucket_idx(l) = b + 1)
      BY <3>1
    <3> QED
      BY <3>2, <3>3 DEF InBucket
  <2>6. /\ SumOver(recorded, Upto(b + 1))
             = SumOver(recorded, Upto(b)) + SumOver(recorded, InBucket(b + 1))
        /\ SumOver(recorded, Upto(b)) \in Int /\ SumOver(recorded, InBucket(b + 1)) \in Int
    <3>1. Upto(b) \subseteq Latency /\ InBucket(b + 1) \subseteq Latency
      BY DEF InBucket
    <3>2. IsFiniteSet(Upto(b)) /\ IsFiniteSet(InBucket(b + 1))
      BY <1>a, <3>1, FS_Subset
    <3>3. \A x \in Upto(b) \cup InBucket(b + 1) : recorded[x] \in Int
      BY <1>b, <3>1
    <3> HIDE DEF Upto
    <3>4. /\ SumOver(recorded, Upto(b) \cup InBucket(b + 1))
               = SumOver(recorded, Upto(b)) + SumOver(recorded, InBucket(b + 1))
          /\ SumOver(recorded, Upto(b)) \in Int /\ SumOver(recorded, InBucket(b + 1)) \in Int
      BY <2>5, <3>2, <3>3, SumUnion
    <3> QED
      BY <2>5, <3>4
  <2>7. buckets[b + 1] = SumOver(recorded, InBucket(b + 1))
    BY <1>1, <2>3
  <2> HIDE DEF Upto
  <2>8. \A x, y \in Int : x + y = y + x
    OBVIOUS
  <2> QED
    BY <2>2, <2>4, <2>6, <2>7, <2>8
<1>5. Nat \subseteq Good
  <2> HIDE DEF Good
  <2> QED
    BY <1>3, <1>4, NatSetInduction
<1>6. ASSUME NEW b \in DOMAIN Bounds PROVE Cumulative(snapshot, b) = AtMost(Bounds[b])
  <2>1. b \in Nat /\ b <= Len(Bounds)
    BY <1>a
  <2>2. SumOver(buckets, 1..b) = SumOver(recorded, Upto(b))
    BY <1>5, <2>1
  <2>3. Upto(b) = {m \in Latency : m <= Bounds[b]}
    BY <1>a, BucketOf
  <2> QED
    BY <2>2, <2>3, CumulativeSum, RecordedSum DEF AtMost
<1> QED
  BY <1>6

(* AtMost counts more samples for greater latencies, and at rest all for   *)
(* max_us, which is a latency when there is a sample.                      *)
LEMMA RestAtMost ==
  ASSUME MetricsInv, NoneServing
  PROVE  /\ \A l \in Nat : AtMost(l) \in Nat
         /\ \A l, m \in Nat : l <= m => AtMost(l) <= AtMost(m)
         /\ AtMost(max_us) = samples
         /\ samples > 0 => max_us \in Latency
<1>a. Latency \subseteq Nat /\ IsFiniteSet(Latency)
  BY MetricsAssumption
<1>b. recorded \in [Latency -> Nat] /\ samples = SumOver(recorded, Latency)
  BY DEF MetricsInv, MetricsTypeOK, SumsOK
<1>c. ASSUME NEW l PROVE AtMost(l) = SumOver(recorded, {m \in Latency : m <= l})
  BY RecordedSum DEF AtMost
<1>1. ASSUME NEW l \in Nat, NEW m \in Nat, l <= m
      PROVE  AtMost(l) \in Nat /\ AtMost(l) <= AtMost(m)
  <2> DEFINE T == {n \in Latency : n <= l}
             S == {n \in Latency : n <= m}
  <2>1. T \subseteq S /\ S \subseteq Latency
    <3>1. \A n \in Latency : n <= l => n <= m
      <4>1. \A n \in Nat : n <= l => n <= m
        BY <1>1
      <4> QED
        BY <1>a, <4>1
    <3> QED
      BY <3>1
  <2>2. IsFiniteSet(S) /\ \A x \in S : recorded[x] \in Nat
    BY <1>a, <1>b, <2>1, FS_Subset
  <2> HIDE DEF S, T
  <2>3. SumOver(recorded, T) <= SumOver(recorded, S) /\ SumOver(recorded, T) \in Nat
    BY <2>1, <2>2, SumMonotone
  <2> QED
    BY <1>c, <2>3 DEF S, T
<1>d. /\ \A l \in Latency : recorded[l] > 0 => l <= max_us
      /\ max_us # 0 => max_us \in Latency
      /\ max_us \in Nat
  BY RestMax
<1>2. AtMost(max_us) = samples
  <2> DEFINE T == {n \in Latency : n <= max_us}
  <2>1. \A x \in Latency \ T : recorded[x] = 0
    BY <1>a, <1>b, <1>d
  <2>2. T \subseteq Latency /\ \A x \in Latency : recorded[x] \in Int
    BY <1>b
  <2> HIDE DEF T
  <2>3. SumOver(recorded, Latency) = SumOver(recorded, T)
    BY <1>a, <2>1, <2>2, SumRestrict
  <2> QED
    BY <1>b, <1>c, <2>3 DEF T
<1>3. ASSUME samples > 0 PROVE max_us \in Latency
  <2>1. CASE \A l \in Latency : recorded[l] = 0
    <3>1. SumOver(recorded, Latency) = 0
      BY <1>a, <2>1, SumZeros
    <3> QED
      BY <1>b, <1>3, <3>1
  <2>2. CASE \E l \in Latency : recorded[l] # 0
    <3>1. PICK l \in Latency : recorded[l] # 0
      BY <2>2
    <3>2. l \in Nat /\ l <= max_us
      BY <1>a, <1>b, <1>d, <3>1
    <3> QED
      BY <1>d, <3>1, <3>2
  <2> QED
    BY <2>1, <2>2
<1>4. \A l \in Nat : AtMost(l) \in Nat
  BY <1>1
<1> QED
  BY <1>1, <1>2, <1>3, <1>4

(* A bound that covers samples covers a recorded latency that has as many. *)
LEMMA GreatestBelow ==
  ASSUME MetricsInv, NoneServing, NEW u \in Nat, AtMost(u) > 0
  PROVE  \E l \in Latency : l <= u /\ AtMost(l) = AtMost(u)
<1>a. Latency \subseteq Nat /\ IsFiniteSet(Latency)
  BY MetricsAssumption
<1>c. ASSUME NEW l PROVE AtMost(l) = SumOver(recorded, {m \in Latency : m <= l})
  BY RecordedSum DEF AtMost
<1> DEFINE T == {m \in Latency : m <= u}
           D == {n \in Nat : u - n \in T}
<1>1. T # {}
  <2>1. SUFFICES ASSUME T = {} PROVE AtMost(u) = 0
    OBVIOUS
  <2> QED
    BY <1>c, <2>1, SumEmpty
<1>2. PICK m \in T : TRUE
  BY <1>1
<1>3. u - m \in Nat /\ u - (u - m) = m
  BY <1>a, <1>2
<1>4. D \subseteq Nat /\ D # {}
  BY <1>2, <1>3
<1>5. PICK d \in D : \A e \in D : d <= e
  <2> HIDE DEF D
  <2> QED
    BY <1>4, LeastElement
<1> DEFINE g == u - d
<1>6. g \in T /\ g \in Nat
  BY <1>5, <1>a
<1>7. ASSUME NEW n \in T PROVE n <= g
  <2>1. n \in Nat /\ n <= u
    BY <1>a
  <2>2. u - n \in Nat /\ u - (u - n) = n
    BY <2>1
  <2>3. u - n \in D
    BY <2>2
  <2>4. d <= u - n /\ d \in Nat
    BY <1>5, <2>3
  <2> QED
    BY <2>1, <2>4
<1>8. T = {n \in Latency : n <= g}
  <2>1. g <= u
    BY <1>6, <1>a
  <2>2. \A n \in Nat : n <= g => n <= u
    BY <1>6, <2>1
  <2>3. \A n \in Latency : n <= u <=> n <= g
    BY <1>a, <1>7, <2>2
  <2> QED
    BY <2>3
<1> QED
  BY <1>6, <1>8, <1>c

(* A percentile is the least bound that is not below the exact one. *)
LEMMA PercentilesBounded ==
  MetricsInv => PercentileBounds
<1> SUFFICES ASSUME MetricsInv, NoneServing, samples > 0, NEW p \in {50, 90, 99, 100}
             PROVE  LET exact == Min({l \in Latency : 100 * AtMost(l) >= p * samples}) IN
                    /\ percentile_us(snapshot, p) >= exact
                    /\ \A b \in DOMAIN Bounds :
                         exact <= Bounds[b] => percentile_us(snapshot, p) <= Bounds[b]
  BY DEF PercentileBounds
<1> DEFINE E == {l \in Latency : 100 * AtMost(l) >= p * samples}
           exact == Min(E)
           rank == Rank(snapshot, p)
           hit == {b \in Bucket : Cumulative(snapshot, b) >= rank}
<1>a. /\ Latency \subseteq Nat
      /\ Len(Bounds) \in Nat /\ DOMAIN Bounds = 1..Len(Bounds)
      /\ \A b \in DOMAIN Bounds : Bounds[b] \in Nat
      /\ \A i, j \in DOMAIN Bounds : i < j => Bounds[i] < Bounds[j]
  BY MetricsAssumption
<1>b. samples \in Nat /\ max_us \in Nat
  BY DEF MetricsInv, MetricsTypeOK
<1>c. /\ \A l \in Nat : AtMost(l) \in Nat
      /\ \A l, m \in Nat : l <= m => AtMost(l) <= AtMost(m)
      /\ AtMost(max_us) = samples /\ max_us \in Latency
  BY RestAtMost
<1>1. /\ rank \in Nat /\ rank > 0
      /\ \A n \in Nat : n >= rank <=> 100 * n >= p * samples
  <2> DEFINE q == (samples * p + 99) \div 100
  <2>1. snapshot.samples = samples
    BY DEF snapshot
  <2>2. /\ q \in Nat /\ q >= 1
        /\ \A n \in Nat : n >= q <=> 100 * n >= p * samples
    <3>1. CASE p = 50
      BY <1>b, <3>1
    <3>2. CASE p = 90
      BY <1>b, <3>2
    <3>3. CASE p = 99
      BY <1>b, <3>3
    <3>4. CASE p = 100
      BY <1>b, <3>4
    <3> QED
      BY <3>1, <3>2, <3>3, <3>4
  <2>3. rank = Max({q, 1})
    BY <2>1 DEF Rank
  <2> HIDE DEF q, rank
  <2>4. Max({q, 1}) = q
    BY <2>2 DEF Max
  <2> QED
    BY <2>2, <2>3, <2>4
<1>2. exact \in E /\ \A l \in E : exact <= l
  <2>1. max_us \in E
    <3>1. 100 * samples >= p * samples
      BY <1>b
    <3> QED
      BY <1>c, <3>1
  <2>2. E \subseteq Nat /\ E # {}
    BY <1>a, <2>1
  <2>3. exact = CHOOSE x \in E : \A y \in E : x <= y
    BY DEF Min
  <2> HIDE DEF E, exact
  <2>4. \E x \in E : \A y \in E : x <= y
    BY <2>2, LeastElement
  <2> QED
    BY <2>3, <2>4
<1>3. max_us \in E
  <2>1. 100 * samples >= p * samples
    BY <1>b
  <2> QED
    BY <1>c, <2>1
<1>4. \A b \in DOMAIN Bounds : b \in hit <=> 100 * AtMost(Bounds[b]) >= p * samples
  <2>1. \A b \in DOMAIN Bounds : /\ b \in Bucket
                                 /\ Cumulative(snapshot, b) = AtMost(Bounds[b])
                                 /\ AtMost(Bounds[b]) \in Nat
    BY <1>a, <1>c, RestCumulative DEF Bucket
  <2> HIDE DEF rank
  <2> QED
    BY <1>1, <2>1
<1>5. exact \in Nat /\ exact <= max_us
  BY <1>2, <1>3, <1>a
<1>6. hit # {} => Min(hit) \in hit /\ \A b \in hit : Min(hit) <= b
  <2>1. hit \subseteq Nat
    BY <1>a DEF Bucket
  <2>2. Min(hit) = CHOOSE x \in hit : \A y \in hit : x <= y
    BY DEF Min
  <2> HIDE DEF hit
  <2>3. hit # {} => \E x \in hit : \A y \in hit : x <= y
    BY <2>1, LeastElement
  <2> QED
    BY <2>2, <2>3
<1>7. percentile_us(snapshot, p) =
        IF hit # {} /\ Min(hit) <= Len(Bounds) THEN Bounds[Min(hit)] ELSE max_us
  BY DEF percentile_us, snapshot
<1>8. ASSUME NEW b \in DOMAIN Bounds, exact <= Bounds[b]
      PROVE  /\ hit # {} /\ Min(hit) <= Len(Bounds)
             /\ Bounds[Min(hit)] <= Bounds[b]
  <2>1. AtMost(exact) <= AtMost(Bounds[b]) /\ AtMost(exact) \in Nat /\ AtMost(Bounds[b]) \in Nat
    BY <1>a, <1>c, <1>5, <1>8
  <2>2. 100 * AtMost(exact) >= p * samples
    BY <1>2
  <2>3. 100 * AtMost(Bounds[b]) >= p * samples
    BY <2>1, <2>2, <1>b
  <2>4. b \in hit
    BY <1>4, <2>3
  <2>5. Min(hit) \in hit /\ Min(hit) <= b
    BY <1>6, <2>4
  <2>6. Min(hit) \in 1..Len(Bounds)
    <3>1. Min(hit) \in Bucket
      BY <2>5
    <3> QED
      BY <1>a, <2>5, <3>1 DEF Bucket
  <2>7. Bounds[Min(hit)] <= Bounds[b]
    BY <1>a, <2>5, <2>6
  <2> QED
    BY <1>a, <2>4, <2>6, <2>7
<1>9. CASE hit # {} /\ Min(hit) <= Len(Bounds)
  <2> DEFINE u == Bounds[Min(hit)]
  <2>1. Min(hit) \in hit /\ Min(hit) \in DOMAIN Bounds
    <3>1. Min(hit) \in hit
      BY <1>6, <1>9
    <3>2. Min(hit) \in Bucket
      BY <3>1
    <3> QED
      BY <1>9, <1>a, <3>1, <3>2 DEF Bucket
  <2>2. u \in Nat /\ 100 * AtMost(u) >= p * samples /\ AtMost(u) \in Nat
    BY <1>4, <1>a, <1>c, <2>1
  <2>3. AtMost(u) > 0
    <3>1. p * samples > 0
      BY <1>b
    <3>2. p * samples \in Int
      BY <1>b
    <3> HIDE DEF u
    <3> QED
      BY <2>2, <3>1, <3>2
  <2> HIDE DEF u
  <2>4. PICK l \in Latency : l <= u /\ AtMost(l) = AtMost(u)
    BY <2>2, <2>3, GreatestBelow
  <2>5. l \in E /\ l \in Nat
    BY <2>2, <2>4, <1>a
  <2>6. exact <= u
    BY <1>2, <1>5, <2>2, <2>4, <2>5
  <2>7. percentile_us(snapshot, p) = u
    BY <1>7, <1>9 DEF u
  <2>8. percentile_us(snapshot, p) >= exact
    BY <1>5, <2>2, <2>6, <2>7
  <2>9. \A b \in DOMAIN Bounds : exact <= Bounds[b] => percentile_us(snapshot, p) <= Bounds[b]
    BY <1>8, <2>7 DEF u
  <2> QED
    BY <2>8, <2>9
<1>10. CASE ~(hit # {} /\ Min(hit) <= Len(Bounds))
  <2>1. percentile_us(snapshot, p) = max_us
    BY <1>7, <1>10
  <2>2. percentile_us(snapshot, p) >= exact
    BY <1>5, <1>b, <2>1
  <2>3. \A b \in DOMAIN Bounds : exact <= Bounds[b] => percentile_us(snapshot, p) <= Bounds[b]
    BY <1>8, <1>10
  <2> QED
    BY <2>2, <2>3
<1> QED
  BY <1>9, <1>10

(* For any bounds of the buckets and any recorded latencies: at rest       *)
(* percentile_us(p) is not below the p-th percentile by nearest rank, and  *)
(* no bound lies between the two.                                          *)
THEOREM PercentilesInBucket == MetricsSpec => []PercentileBounds
BY MetricsInvariant, PercentilesBounded, PTL

=============================================================================
