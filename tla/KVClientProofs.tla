--------------------------- MODULE KVClientProofs ---------------------------
(***************************************************************************)
(* Proofs about KVClient over ConnectionPool, for any finite set of        *)
(* threads, any sockets and any limits of the pool and of the retries.     *)
(***************************************************************************)
EXTENDS KVClient, FiniteSetTheorems, TLAPS

Place == Slotted \cup {"idle", "acquire", "reserve"}

-----------------------------------------------------------------------------
(* Who has a connection.                                                   *)

(* The places at which a thread has a connection. *)
Holding == {"check", "unhealthy", "write", "read", "drop"}

(* Every connection is in the queue once or with one thread, and a thread  *)
(* has one exactly where it uses one.                                      *)
HoldInv ==
  /\ idle \in Seq(Conn)
  /\ pc \in [Client -> Place]
  /\ conn \in [Client -> Conn \cup {NoConn}]
  /\ \A t \in Client : pc[t] \in Holding <=> conn[t] # NoConn
  /\ \A i \in 1..Len(idle), t \in Client : idle[i] # conn[t]
  /\ \A i, j \in 1..Len(idle) : idle[i] = idle[j] => i = j
  /\ \A t, u \in Client : conn[t] # NoConn /\ conn[t] = conn[u] => t = u

LEMMA HoldInit == Init => HoldInv
  BY DEF Init, PoolInit, HoldInv, Place, Holding

(* The thread moves on and keeps what it has. *)
LEMMA HoldSame ==
  ASSUME HoldInv, NEW t \in Client, NEW place \in Place, Goto(t, place),
         pc[t] \in Holding <=> place \in Holding, UNCHANGED <<idle, conn>>
  PROVE  HoldInv'
  BY DEF HoldInv, Goto

(* The thread gives its connection up. *)
LEMMA HoldDropped ==
  ASSUME HoldInv, NEW t \in Client, NEW place \in Place \ Holding, Goto(t, place),
         Take(t, NoConn), UNCHANGED idle
  PROVE  HoldInv'
  BY ClientAssumption DEF HoldInv, Goto, Take

LEMMA HoldStep == HoldInv /\ [Next]_vars => HoldInv'
<1> SUFFICES ASSUME HoldInv, [Next]_vars PROVE HoldInv'
  OBVIOUS
<1>1. ASSUME NEW t \in Client,
             Call(t) \/ AcquireReserve(t) \/ AcquireFail(t)
      PROVE  HoldInv'
  <2>1. /\ pc[t] \notin Holding /\ UNCHANGED <<idle, conn>>
        /\ \E place \in {"idle", "acquire", "connect"} : Goto(t, place)
    BY <1>1 DEF Call, AcquireReserve, AcquireFail, Return, Holding, pool, try_reserve,
                release_slot
  <2> QED BY <2>1, HoldSame DEF Place, Slotted, Holding
<1>2. ASSUME NEW t \in Client, AcquireCheck(t) \/ ExecWrite(t) \/ ExecRead(t)
      PROVE  HoldInv'
  <2>1. /\ pc[t] \in Holding /\ UNCHANGED <<idle, conn>>
        /\ \E place \in Holding : Goto(t, place)
    BY <1>2 DEF AcquireCheck, ExecWrite, ExecRead, ExecFails, Holding, pool, local
  <2> QED BY <2>1, HoldSame DEF Place, Slotted, Holding
<1>3. ASSUME NEW t \in Client, AcquirePop(t) PROVE HoldInv'
  <2>1. CASE Goto(t, "reserve") /\ UNCHANGED <<pool, conn>>
    BY <1>3, <2>1, HoldSame DEF AcquirePop, Place, Slotted, Holding, pool
  <2>2. ASSUME NEW c \in Conn, pop_idle(c), Take(t, c), Goto(t, "check")
        PROVE  HoldInv'
    <3>1. /\ idle \in Seq(Conn) /\ idle # <<>> /\ c = idle[1] /\ Len(idle) \in Nat
          /\ idle' \in Seq(Conn) /\ Len(idle') = Len(idle) - 1
          /\ \A i \in 1..Len(idle') : i + 1 \in 1..Len(idle) /\ idle'[i] = idle[i + 1]
          /\ 1 \in 1..Len(idle)
      BY <2>2 DEF HoldInv, pop_idle
    <3>2. /\ pc' \in [Client -> Place] /\ pc'[t] = "check"
          /\ conn' \in [Client -> Conn \cup {NoConn}] /\ conn'[t] = c
          /\ \A u \in Client \ {t} : pc'[u] = pc[u] /\ conn'[u] = conn[u]
      BY <2>2 DEF HoldInv, Goto, Take, Place, Slotted
    <3>3. \A u \in Client : conn[u] # c
      BY <3>1 DEF HoldInv
    <3>4. \A i \in 1..Len(idle') : idle'[i] # c
      BY <3>1 DEF HoldInv
    <3>5. \A i \in 1..Len(idle'), u \in Client : idle'[i] # conn'[u]
      BY <3>1, <3>2, <3>4 DEF HoldInv
    <3>6. \A i, j \in 1..Len(idle') : idle'[i] = idle'[j] => i = j
      BY <3>1 DEF HoldInv
    <3>7. \A u, v \in Client : conn'[u] # NoConn /\ conn'[u] = conn'[v] => u = v
      BY <3>2, <3>3 DEF HoldInv
    <3>8. \A u \in Client : pc'[u] \in Holding <=> conn'[u] # NoConn
      BY <3>2, ClientAssumption DEF HoldInv, Holding
    <3> QED BY <3>1, <3>2, <3>5, <3>6, <3>7, <3>8 DEF HoldInv
  <2> QED BY <1>3, <2>1, <2>2 DEF AcquirePop
<1>4. ASSUME NEW t \in Client, AcquireDiscard(t) PROVE HoldInv'
  BY <1>4, HoldDropped DEF AcquireDiscard, release_slot, Place, Holding
<1>5. ASSUME NEW t \in Client, AcquireConnect(t) PROVE HoldInv'
  <2>1. CASE /\ \E place \in {"no_conn", "no_conn_retry"} : Goto(t, place)
             /\ UNCHANGED conn
    BY <1>5, <2>1, HoldSame DEF AcquireConnect, Place, Slotted, Holding, pool
  <2>2. ASSUME NEW c \in Conn, connect(c), Take(t, c), Goto(t, "write")
        PROVE  HoldInv'
    <3>1. /\ idle' = idle /\ DOMAIN idle = 1..Len(idle)
          /\ pc' \in [Client -> Place] /\ pc'[t] = "write"
          /\ conn' \in [Client -> Conn \cup {NoConn}] /\ conn'[t] = c
          /\ \A u \in Client \ {t} : pc'[u] = pc[u] /\ conn'[u] = conn[u]
      BY <1>5, <2>2 DEF HoldInv, Goto, Take, Place, Slotted, AcquireConnect, pool
    <3>2. \A u \in Client : conn[u] # c
      BY <2>2, ClientAssumption DEF connect, Held
    <3>3. \A i \in 1..Len(idle) : idle[i] # c
      BY <2>2, <3>1 DEF connect, Idle
    <3> QED BY <3>1, <3>2, <3>3, ClientAssumption DEF HoldInv, Holding
  <2> QED BY <1>5, <2>1, <2>2 DEF AcquireConnect
<1>6. ASSUME NEW t \in Client, ExecDrop(t) PROVE HoldInv'
  <2>1. PICK place \in {"idle", "acquire"} : Goto(t, place)
    BY <1>6 DEF ExecDrop, Return
  <2>2. CASE UNCHANGED idle
    BY <1>6, <2>1, <2>2, HoldDropped DEF ExecDrop, Place, Holding
  <2>3. CASE idle' = Append(idle, conn[t])
    <3>1. conn[t] \in Conn /\ conn[t] # NoConn
      BY <1>6 DEF HoldInv, Holding, ExecDrop
    <3>2. /\ idle' \in Seq(Conn) /\ Len(idle') = Len(idle) + 1 /\ Len(idle) \in Nat
          /\ \A i \in 1..Len(idle) : idle'[i] = idle[i]
          /\ idle'[Len(idle) + 1] = conn[t]
      BY <2>3, <3>1 DEF HoldInv
    <3>3. /\ pc' \in [Client -> Place] /\ pc'[t] = place
          /\ conn' \in [Client -> Conn \cup {NoConn}] /\ conn'[t] = NoConn
          /\ \A u \in Client \ {t} : pc'[u] = pc[u] /\ conn'[u] = conn[u]
      BY <1>6, <2>1 DEF HoldInv, Goto, Take, Place, ExecDrop
    <3>4. \A u \in Client : pc'[u] \in Holding <=> conn'[u] # NoConn
      BY <3>3 DEF HoldInv, Holding
    <3>5. \A u, v \in Client : conn'[u] # NoConn /\ conn'[u] = conn'[v] => u = v
      BY <3>3 DEF HoldInv
    <3>6. \A i \in 1..Len(idle'), u \in Client : idle'[i] # conn'[u]
      <4> SUFFICES ASSUME NEW i \in 1..Len(idle'), NEW u \in Client
                   PROVE  idle'[i] # conn'[u]
        OBVIOUS
      <4>1. CASE i \in 1..Len(idle)
        <5>1. idle'[i] = idle[i] /\ idle[i] \in Conn
          BY <3>2, <4>1 DEF HoldInv
        <5> QED BY <3>3, <4>1, <5>1, ClientAssumption DEF HoldInv
      <4>2. CASE i = Len(idle) + 1
        BY <3>1, <3>2, <3>3, <4>2 DEF HoldInv
      <4> QED BY <3>2, <4>1, <4>2
    <3>7. \A i, j \in 1..Len(idle') : idle'[i] = idle'[j] => i = j
      <4>1. \A i \in 1..Len(idle) : idle'[i] # conn[t]
        BY <3>2 DEF HoldInv
      <4>2. \A i, j \in 1..Len(idle) : idle'[i] = idle'[j] => i = j
        BY <3>2 DEF HoldInv
      <4> QED BY <3>2, <4>1, <4>2
    <3> QED BY <3>2, <3>3, <3>4, <3>5, <3>6, <3>7 DEF HoldInv
  <2> QED BY <1>6, <2>2, <2>3 DEF ExecDrop, return_connection, release_slot
<1>7. CASE (\E c \in Conn : Serve(c) \/ Close(c)) \/ Done \/ UNCHANGED vars
  BY <1>7 DEF Serve, Close, Done, vars, pool, local, HoldInv
<1> QED
  BY <1>1, <1>2, <1>3, <1>4, <1>5, <1>6, <1>7 DEF Next, Step

(* pool.rs under any number of threads: a connection is in the idle queue  *)
(* once or with one thread, though pop_idle, the health check, try_reserve *)
(* and the return are separate critical sections.                          *)
THEOREM NoSharing == Spec => []ConnectionsExclusive
<1>1. HoldInv => ConnectionsExclusive
  <2> SUFFICES ASSUME HoldInv PROVE ConnectionsExclusive
    OBVIOUS
  <2>1. DOMAIN idle = 1..Len(idle)
    BY DEF HoldInv
  <2> QED BY <2>1 DEF HoldInv, ConnectionsExclusive, Idle, Held
<1> QED
  BY HoldInit, HoldStep, <1>1, PTL DEF Spec

-----------------------------------------------------------------------------
(* The slots of the pool.                                                  *)

Slots == {t \in Client : pc[t] \in Slotted}

SlotInv ==
  /\ idle \in Seq(Conn)
  /\ total \in Nat
  /\ pc \in [Client -> Place]
  /\ SlotsAccounted

LEMMA SlotsFinite == IsFiniteSet(Slots) /\ Cardinality(Slots) \in Nat
  BY ClientAssumption, FS_Subset, FS_CardinalityType DEF Slots

(* A thread comes into a slot, leaves its slot, or does neither. *)
LEMMA SlotTaken ==
  ASSUME NEW t \in Client, pc \in [Client -> Place], pc[t] \notin Slotted,
         NEW place \in Slotted, Goto(t, place)
  PROVE  /\ pc' \in [Client -> Place]
         /\ Cardinality(Slots)' = Cardinality(Slots) + 1
<1>1. Slots' = Slots \cup {t} /\ t \notin Slots
  BY DEF Slots, Goto
<1>2. Cardinality(Slots)' = Cardinality(Slots) + 1
  BY <1>1, SlotsFinite, FS_AddElement
<1> QED BY <1>2 DEF Goto, Place

LEMMA SlotGiven ==
  ASSUME NEW t \in Client, pc \in [Client -> Place], pc[t] \in Slotted,
         NEW place \in Place \ Slotted, Goto(t, place)
  PROVE  /\ pc' \in [Client -> Place]
         /\ Cardinality(Slots)' = Cardinality(Slots) - 1
         /\ Cardinality(Slots) > 0
<1>1. Slots' = Slots \ {t} /\ t \in Slots
  BY DEF Slots, Goto
<1>2. Cardinality(Slots)' = Cardinality(Slots) - 1
  BY <1>1, SlotsFinite, FS_RemoveElement
<1>3. Cardinality(Slots) # 0
  BY <1>1, SlotsFinite, FS_EmptySet
<1> QED BY <1>2, <1>3, SlotsFinite DEF Goto

LEMMA SlotSame ==
  ASSUME SlotInv, NEW t \in Client, NEW place \in Place, Goto(t, place),
         pc[t] \in Slotted <=> place \in Slotted, UNCHANGED pool
  PROVE  SlotInv'
<1>1. Slots' = Slots /\ pc' \in [Client -> Place]
  BY DEF Slots, Goto, SlotInv
<1> QED BY <1>1 DEF SlotInv, SlotsAccounted, Slots, pool

LEMMA SlotReleased ==
  ASSUME SlotInv, NEW t \in Client, pc[t] \in Slotted,
         NEW place \in Place \ Slotted, Goto(t, place), release_slot
  PROVE  SlotInv'
<1>1. /\ pc' \in [Client -> Place] /\ Cardinality(Slots) > 0
      /\ Cardinality(Slots)' = Cardinality(Slots) - 1
  BY SlotGiven DEF SlotInv
<1>2. /\ total = Len(idle) + Cardinality(Slots) /\ total <= MaxTotal
      /\ Len(idle) \in Nat /\ total \in Nat /\ idle' = idle
  BY DEF SlotInv, SlotsAccounted, Slots, release_slot
<1>3. total' = total - 1 /\ total' \in Nat
  BY <1>1, <1>2, SlotsFinite DEF release_slot
<1>4. total' = Len(idle') + Cardinality(Slots)' /\ total' <= MaxTotal
  BY <1>1, <1>2, <1>3, SlotsFinite, PoolAssumption
<1> QED BY <1>1, <1>2, <1>3, <1>4 DEF SlotInv, SlotsAccounted, Slots

LEMMA SlotInit == Init => SlotInv
<1> SUFFICES ASSUME Init PROVE SlotInv
  OBVIOUS
<1>1. {t \in Client : pc[t] \in Slotted} = {}
  BY DEF Init, Slotted
<1>2. total = Len(idle) + Cardinality({t \in Client : pc[t] \in Slotted})
  <2>1. Cardinality({t \in Client : pc[t] \in Slotted}) = 0
    BY <1>1, FS_EmptySet, Zenon
  <2>2. Len(idle) = 0 /\ total = 0
    BY DEF Init, PoolInit
  <2> QED BY <2>1, <2>2
<1>3. total \in Nat /\ total <= MaxTotal /\ idle \in Seq(Conn)
  BY PoolAssumption DEF Init, PoolInit
<1>4. pc \in [Client -> Place]
  BY DEF Init, Place
<1> QED BY <1>2, <1>3, <1>4 DEF SlotInv, SlotsAccounted

LEMMA SlotStep == SlotInv /\ HoldInv /\ [Next]_vars => SlotInv'
<1> SUFFICES ASSUME SlotInv, HoldInv, [Next]_vars PROVE SlotInv'
  OBVIOUS
<1>1. ASSUME NEW t \in Client, Call(t) PROVE SlotInv'
  BY <1>1, SlotSame DEF Call, Place, Slotted
<1>2. ASSUME NEW t \in Client, AcquirePop(t) PROVE SlotInv'
  <2>1. CASE Goto(t, "reserve") /\ UNCHANGED pool
    BY <1>2, <2>1, SlotSame DEF AcquirePop, Place, Slotted
  <2>2. CASE idle # <<>> /\ idle' = Tail(idle) /\ UNCHANGED total /\ Goto(t, "check")
    <3>1. /\ pc' \in [Client -> Place]
          /\ Cardinality(Slots)' = Cardinality(Slots) + 1
      BY <1>2, <2>2, SlotTaken DEF SlotInv, AcquirePop, Slotted
    <3>2. idle' \in Seq(Conn) /\ Len(idle') = Len(idle) - 1 /\ Len(idle) \in Nat
      BY <2>2 DEF SlotInv
    <3>3. total' = Len(idle') + Cardinality(Slots)'
      BY <2>2, <3>1, <3>2, SlotsFinite DEF SlotInv, SlotsAccounted, Slots
    <3> QED BY <2>2, <3>1, <3>2, <3>3 DEF SlotInv, SlotsAccounted, Slots
  <2> QED BY <1>2, <2>1, <2>2 DEF AcquirePop, pop_idle
<1>3. ASSUME NEW t \in Client,
             AcquireCheck(t) \/ AcquireConnect(t) \/ ExecWrite(t) \/ ExecRead(t)
      PROVE  SlotInv'
  <2>1. /\ pc[t] \in Slotted /\ UNCHANGED pool
        /\ \E place \in Slotted : Goto(t, place)
    BY <1>3 DEF AcquireCheck, AcquireConnect, ExecWrite, ExecRead, ExecFails, Slotted
  <2> QED BY <2>1, SlotSame DEF Place
<1>4. ASSUME NEW t \in Client, AcquireReserve(t) PROVE SlotInv'
  <2>1. CASE try_reserve /\ Goto(t, "connect")
    <3>1. /\ pc' \in [Client -> Place]
          /\ Cardinality(Slots)' = Cardinality(Slots) + 1
      BY <1>4, <2>1, SlotTaken DEF SlotInv, AcquireReserve, Slotted
    <3>2. /\ total' = total + 1 /\ total' \in Nat /\ total' <= MaxTotal
          /\ idle' = idle /\ Len(idle) \in Nat
      BY <2>1, PoolAssumption DEF try_reserve, SlotInv
    <3>3. total' = Len(idle') + Cardinality(Slots)'
      BY <3>1, <3>2, SlotsFinite DEF SlotInv, SlotsAccounted, Slots
    <3> QED BY <3>1, <3>2, <3>3 DEF SlotInv, SlotsAccounted, Slots
  <2>2. CASE Return(t, "exhausted") /\ UNCHANGED pool
    BY <1>4, <2>2, SlotSame DEF AcquireReserve, Return, Place, Slotted
  <2> QED BY <1>4, <2>1, <2>2 DEF AcquireReserve
<1>5. ASSUME NEW t \in Client, AcquireDiscard(t) \/ AcquireFail(t) PROVE SlotInv'
  <2>1. /\ pc[t] \in Slotted /\ release_slot
        /\ \E place \in {"idle", "acquire"} : Goto(t, place)
    BY <1>5 DEF AcquireDiscard, AcquireFail, Return, Slotted
  <2> QED BY <2>1, SlotReleased DEF Place, Slotted
<1>6. ASSUME NEW t \in Client, ExecDrop(t) PROVE SlotInv'
  <2>1. PICK place \in {"idle", "acquire"} : Goto(t, place)
    BY <1>6 DEF ExecDrop, Return
  <2>2. place \in Place \ Slotted /\ pc[t] \in Slotted
    BY <1>6 DEF ExecDrop, Place, Slotted
  <2>3. CASE release_slot
    BY <2>1, <2>2, <2>3, SlotReleased
  <2>4. CASE idle' = Append(idle, conn[t]) /\ UNCHANGED total
    <3>1. /\ pc' \in [Client -> Place]
          /\ Cardinality(Slots)' = Cardinality(Slots) - 1
      BY <2>1, <2>2, SlotGiven DEF SlotInv
    <3>2. idle' \in Seq(Conn) /\ Len(idle') = Len(idle) + 1 /\ Len(idle) \in Nat
      <4>1. conn[t] \in Conn
        BY <1>6 DEF HoldInv, Holding, ExecDrop
      <4> QED BY <2>4, <4>1 DEF SlotInv
    <3>3. total' = Len(idle') + Cardinality(Slots)'
      BY <2>4, <3>1, <3>2, SlotsFinite DEF SlotInv, SlotsAccounted, Slots
    <3> QED BY <2>4, <3>1, <3>2, <3>3 DEF SlotInv, SlotsAccounted, Slots
  <2> QED BY <1>6, <2>3, <2>4 DEF ExecDrop, return_connection
<1>7. CASE (\E c \in Conn : Serve(c) \/ Close(c)) \/ Done \/ UNCHANGED vars
  BY <1>7 DEF Serve, Close, Done, vars, pool, SlotInv, SlotsAccounted
<1> QED
  BY <1>1, <1>2, <1>3, <1>4, <1>5, <1>6, <1>7 DEF Next, Step

(* pool.rs under any number of threads and with any limits: `total` is     *)
(* always the idle connections plus the slots that threads hold, whatever  *)
(* fails in between, and never above max_total.                            *)
THEOREM NoSlotLeaks == Spec => []SlotsAccounted
<1>1. SlotInv => SlotsAccounted
  BY DEF SlotInv
<1> QED
  BY HoldInit, HoldStep, SlotInit, SlotStep, <1>1, PTL DEF Spec

-----------------------------------------------------------------------------
(* Whose reply a thread reads.                                             *)

Message == [client : Client, no : Nat, op : {"none", "set", "delete"}]
Answer == [to : Nat, client : Client, hit : BOOLEAN]
Socket == [open : BOOLEAN, inbox : Seq(Message), outbox : Seq(Answer)]

WireTyped ==
  /\ op \in [Client -> {"none", "set", "delete"}]
  /\ calls \in [Client -> Nat]
  /\ outcome \in [Client -> {"none", "ok", "retry", "error"}]
  /\ reply \in [Client -> Answer \cup {NoReply}]
  /\ wire \in [Conn -> Socket]
  /\ present \in BOOLEAN

(* Nothing is under way on a connection in either direction. *)
Clean(c) == wire[c].inbox = <<>> /\ wire[c].outbox = <<>>

(* On the connection of a thread that reads there is its own command, or   *)
(* the answer to it, or nothing any more.                                  *)
Awaits(t) ==
  \/ Clean(conn[t])
  \/ wire[conn[t]].inbox = <<Command(t)>> /\ wire[conn[t]].outbox = <<>>
  \/ /\ wire[conn[t]].inbox = <<>>
     /\ \E h \in BOOLEAN :
          wire[conn[t]].outbox = <<[to |-> calls[t], client |-> t, hit |-> h]>>

ThreadOK(t) ==
  /\ pc[t] \in {"check", "write"} => Clean(conn[t])
  /\ pc[t] = "drop" /\ outcome[t] = "ok" => Clean(conn[t])
  /\ pc[t] = "read" => Awaits(t)
  /\ outcome[t] = "ok" => reply[t].client = t /\ reply[t].to = calls[t]

(* A connection that goes back to the queue is clean, for one whose reply  *)
(* was not read is not kept.                                               *)
IdleClean == \A i \in 1..Len(idle) : Clean(idle[i])

ReplyInv == WireTyped /\ IdleClean /\ \A t \in Client : ThreadOK(t)

LEMMA ReplyInit == Init => ReplyInv
<1> SUFFICES ASSUME Init PROVE ReplyInv
  OBVIOUS
<1>1. [open |-> FALSE, inbox |-> <<>>, outbox |-> <<>>] \in Socket
  BY DEF Socket
<1>2. WireTyped
  BY <1>1 DEF Init, WireTyped
<1>3. IdleClean
  BY DEF Init, PoolInit, IdleClean
<1>4. ASSUME NEW t \in Client PROVE ThreadOK(t)
  BY DEF Init, ThreadOK
<1> QED BY <1>2, <1>3, <1>4 DEF ReplyInv

(* A thread whose own state and whose connection a step does not touch. *)
LEMMA OtherThread ==
  ASSUME HoldInv, NEW u \in Client, ThreadOK(u),
         pc'[u] = pc[u], conn'[u] = conn[u], op'[u] = op[u], calls'[u] = calls[u],
         outcome'[u] = outcome[u], reply'[u] = reply[u],
         conn[u] # NoConn => wire'[conn[u]] = wire[conn[u]]
  PROVE  ThreadOK(u)'
<1>1. CASE conn[u] = NoConn
  BY <1>1 DEF ThreadOK, HoldInv, Holding
<1>2. CASE conn[u] # NoConn
  <2>1. Clean(conn[u])' <=> Clean(conn[u])
    BY <1>2 DEF Clean
  <2>2. Awaits(u)' <=> Awaits(u)
    BY <1>2, <2>1 DEF Awaits, Command
  <2> QED BY <2>1, <2>2 DEF ThreadOK
<1> QED BY <1>1, <1>2

(* A step of thread t that leaves the wires alone, and after which it is   *)
(* neither writing nor reading, and has no result of its own to give.      *)
LEMMA PlainStep ==
  ASSUME HoldInv, ReplyInv, NEW t \in Client, NEW place \in Place, Goto(t, place),
         WireTyped', UNCHANGED <<idle, conn, wire>>, ThreadOK(t)',
         \A u \in Client \ {t} :
           /\ op'[u] = op[u] /\ calls'[u] = calls[u]
           /\ outcome'[u] = outcome[u] /\ reply'[u] = reply[u]
  PROVE  ReplyInv'
<1>1. IdleClean'
  BY DEF ReplyInv, IdleClean, Clean
<1>2. ASSUME NEW u \in Client \ {t} PROVE ThreadOK(u)'
  <2>1. pc'[u] = pc[u]
    BY DEF Goto, HoldInv
  <2> QED BY <2>1, OtherThread DEF ReplyInv
<1> QED BY <1>1, <1>2 DEF ReplyInv

LEMMA ClientStepReplies ==
  ASSUME HoldInv, ReplyInv, NEW t \in Client,
         \/ Call(t) \/ AcquireCheck(t) \/ AcquireReserve(t) \/ AcquireFail(t)
  PROVE  ReplyInv'
<1>1. CASE Call(t)
  <2>1. WireTyped' /\ UNCHANGED <<idle, conn, wire>>
    BY <1>1 DEF Call, ReplyInv, WireTyped, pool
  <2>2. pc'[t] = "acquire" /\ outcome'[t] = "none"
    BY <1>1 DEF Call, Goto, HoldInv, ReplyInv, WireTyped
  <2>3. ThreadOK(t)'
    BY <2>2 DEF ThreadOK
  <2> QED BY <1>1, <2>1, <2>3, PlainStep
          DEF Call, Place, Goto, ReplyInv, WireTyped
<1>2. CASE AcquireCheck(t)
  <2>1. /\ UNCHANGED <<idle, conn, wire, op, calls, outcome, reply, present>>
        /\ pc[t] = "check"
    BY <1>2 DEF AcquireCheck, pool, local, network
  <2>2. WireTyped'
    BY <2>1 DEF ReplyInv, WireTyped
  <2>3. PICK place \in {"write", "unhealthy"} : Goto(t, place)
    BY <1>2 DEF AcquireCheck
  <2>4. pc'[t] = place
    BY <2>3 DEF Goto, HoldInv
  <2>5. ThreadOK(t)'
    BY <2>1, <2>4 DEF ReplyInv, ThreadOK, Clean
  <2> QED BY <2>1, <2>2, <2>3, <2>5, PlainStep DEF Place, Slotted
<1>3. CASE AcquireReserve(t) \/ AcquireFail(t)
  <2>1. /\ UNCHANGED <<idle, conn, wire, calls, outcome, reply, present>>
        /\ op' = op \/ op' = [op EXCEPT ![t] = "none"]
    BY <1>3 DEF AcquireReserve, AcquireFail, Return, try_reserve, release_slot, pool, network
  <2>2. WireTyped' /\ \A u \in Client \ {t} : op'[u] = op[u]
    BY <2>1 DEF ReplyInv, WireTyped
  <2>3. PICK place \in {"connect", "idle", "acquire"} : Goto(t, place)
    BY <1>3 DEF AcquireReserve, AcquireFail, Return
  <2>4. pc'[t] = place
    BY <2>3 DEF Goto, HoldInv
  <2>5. ThreadOK(t)'
    BY <2>1, <2>4 DEF ReplyInv, ThreadOK
  <2> QED BY <2>1, <2>2, <2>3, <2>5, PlainStep DEF Place, Slotted
<1> QED BY <1>1, <1>2, <1>3

LEMMA PopReplies ==
  ASSUME HoldInv, ReplyInv, NEW t \in Client, AcquirePop(t)
  PROVE  ReplyInv'
<1>1. UNCHANGED <<wire, op, calls, outcome, reply, present>>
  BY DEF AcquirePop, network
<1>2. WireTyped'
  BY <1>1 DEF ReplyInv, WireTyped
<1>3. CASE Goto(t, "reserve") /\ UNCHANGED <<pool, conn>>
  <2>1. pc'[t] = "reserve"
    BY <1>3 DEF Goto, HoldInv
  <2>2. ThreadOK(t)'
    BY <1>1, <2>1 DEF ReplyInv, ThreadOK
  <2> QED BY <1>1, <1>2, <1>3, <2>2, PlainStep DEF Place, pool
<1>4. ASSUME NEW c \in Conn, pop_idle(c), Take(t, c), Goto(t, "check")
      PROVE  ReplyInv'
  <2>1. /\ 1 \in 1..Len(idle) /\ c = idle[1]
        /\ \A i \in 1..Len(idle') : i + 1 \in 1..Len(idle) /\ idle'[i] = idle[i + 1]
    BY <1>4 DEF HoldInv, pop_idle
  <2>2. IdleClean' /\ Clean(c)'
    BY <1>1, <2>1 DEF ReplyInv, IdleClean, Clean
  <2>3. pc'[t] = "check" /\ conn'[t] = c
    BY <1>4 DEF Goto, Take, HoldInv
  <2>4. ThreadOK(t)'
    BY <1>1, <2>2, <2>3 DEF ReplyInv, ThreadOK, Clean
  <2>5. ASSUME NEW u \in Client \ {t} PROVE ThreadOK(u)'
    <3>1. pc'[u] = pc[u] /\ conn'[u] = conn[u]
      BY <1>4 DEF Goto, Take, HoldInv
    <3> QED BY <1>1, <3>1, OtherThread DEF ReplyInv
  <2> QED BY <1>2, <2>2, <2>4, <2>5 DEF ReplyInv
<1> QED BY <1>3, <1>4 DEF AcquirePop

(* A step of thread t that changes the wire of one connection c, which no  *)
(* other thread has and which is not idle, and the thread's own state.     *)
LEMMA WireStep ==
  ASSUME HoldInv, ReplyInv, NEW t \in Client, NEW place, Goto(t, place),
         NEW c \in Conn, \A u \in Client \ {t} : conn[u] # c,
         \A i \in 1..Len(idle) : idle[i] # c,
         \A d \in Conn \ {c} : wire'[d] = wire[d],
         WireTyped', ThreadOK(t)', UNCHANGED idle,
         \A u \in Client \ {t} :
           /\ op'[u] = op[u] /\ calls'[u] = calls[u] /\ conn'[u] = conn[u]
           /\ outcome'[u] = outcome[u] /\ reply'[u] = reply[u]
  PROVE  ReplyInv'
<1>1. ASSUME NEW i \in 1..Len(idle) PROVE wire'[idle[i]] = wire[idle[i]]
  <2>1. idle[i] \in Conn \ {c}
    BY DEF HoldInv
  <2> QED BY <2>1
<1>2. IdleClean'
  BY <1>1 DEF ReplyInv, IdleClean, Clean
<1>3. ASSUME NEW u \in Client \ {t} PROVE ThreadOK(u)'
  <2>1. pc'[u] = pc[u]
    BY DEF Goto, HoldInv
  <2>2. conn[u] # NoConn => wire'[conn[u]] = wire[conn[u]]
    BY DEF HoldInv
  <2> QED BY <2>1, <2>2, OtherThread DEF ReplyInv
<1> QED BY <1>2, <1>3 DEF ReplyInv

(* The connection a thread has is its own. *)
LEMMA Own ==
  ASSUME HoldInv, NEW t \in Client, pc[t] \in Holding
  PROVE  /\ conn[t] \in Conn
         /\ \A u \in Client \ {t} : conn[u] # conn[t]
         /\ \A i \in 1..Len(idle) : idle[i] # conn[t]
  BY DEF HoldInv

LEMMA CloseEndEffect ==
  ASSUME WireTyped, NEW c \in Conn, CloseEnd(c)
  PROVE  /\ wire' \in [Conn -> Socket]
         /\ \A d \in Conn \ {c} : wire'[d] = wire[d]
<1>1. wire[c] \in Socket /\ <<>> \in Seq(Answer)
  BY DEF WireTyped
<1> DEFINE v == [wire EXCEPT ![c].open = FALSE]
<1>2. v \in [Conn -> Socket] /\ \A d \in Conn \ {c} : v[d] = wire[d]
  BY <1>1 DEF WireTyped, Socket
<1>3. wire' = [v EXCEPT ![c].outbox = <<>>]
  BY DEF CloseEnd
<1> HIDE DEF v
<1> QED BY <1>1, <1>2, <1>3 DEF Socket

LEMMA DiscardReplies ==
  ASSUME HoldInv, ReplyInv, NEW t \in Client, AcquireDiscard(t)
  PROVE  ReplyInv'
<1>1. pc[t] \in Holding
  BY DEF AcquireDiscard, Holding
<1>2. /\ UNCHANGED <<idle, op, calls, outcome, reply, present>>
      /\ CloseEnd(conn[t]) /\ Take(t, NoConn) /\ Goto(t, "acquire")
  BY DEF AcquireDiscard, release_slot
<1>3. WireTyped' /\ \A d \in Conn \ {conn[t]} : wire'[d] = wire[d]
  BY <1>1, <1>2, Own, CloseEndEffect DEF ReplyInv, WireTyped
<1>4. pc'[t] = "acquire" /\ \A u \in Client \ {t} : conn'[u] = conn[u]
  BY <1>2 DEF Goto, Take, HoldInv
<1>5. ThreadOK(t)'
  BY <1>2, <1>4 DEF ReplyInv, ThreadOK
<1> QED BY <1>1, <1>2, <1>3, <1>4, <1>5, Own, WireStep

LEMMA ConnectReplies ==
  ASSUME HoldInv, ReplyInv, NEW t \in Client, AcquireConnect(t)
  PROVE  ReplyInv'
<1>1. UNCHANGED <<idle, op, calls, outcome, reply, present>>
  BY DEF AcquireConnect, pool
<1>2. CASE /\ \E place \in {"no_conn", "no_conn_retry"} : Goto(t, place)
           /\ UNCHANGED <<wire, conn>>
  <2>1. PICK place \in {"no_conn", "no_conn_retry"} : Goto(t, place)
    BY <1>2
  <2>2. pc'[t] = place /\ WireTyped'
    BY <1>1, <1>2, <2>1 DEF Goto, HoldInv, ReplyInv, WireTyped
  <2>3. ThreadOK(t)'
    BY <1>1, <2>2 DEF ReplyInv, ThreadOK
  <2> QED BY <1>1, <1>2, <2>1, <2>2, <2>3, PlainStep DEF Place, Slotted
<1>3. ASSUME NEW c \in Conn, connect(c), Take(t, c), Goto(t, "write")
      PROVE  ReplyInv'
  <2>1. \A u \in Client : conn[u] # c
    BY <1>3, ClientAssumption DEF connect, Held
  <2>2. \A i \in 1..Len(idle) : idle[i] # c
    <3>1. DOMAIN idle = 1..Len(idle)
      BY DEF HoldInv
    <3> QED BY <1>3, <3>1 DEF connect, Idle
  <2>3. /\ wire'[c] = [open |-> TRUE, inbox |-> <<>>, outbox |-> <<>>]
        /\ wire' \in [Conn -> Socket]
        /\ \A d \in Conn \ {c} : wire'[d] = wire[d]
    BY <1>3 DEF connect, ReplyInv, WireTyped, Socket
  <2>4. pc'[t] = "write" /\ conn'[t] = c /\ \A u \in Client \ {t} : conn'[u] = conn[u]
    BY <1>3 DEF Goto, Take, HoldInv
  <2>5. WireTyped'
    BY <1>1, <2>3 DEF ReplyInv, WireTyped
  <2>6. ThreadOK(t)'
    BY <1>1, <2>3, <2>4 DEF ReplyInv, ThreadOK, Clean
  <2> QED BY <1>1, <1>3, <2>1, <2>2, <2>3, <2>4, <2>5, <2>6, WireStep
<1> QED BY <1>2, <1>3 DEF AcquireConnect

(* exec has failed: the outcome is not ok. *)
LEMMA FailReplies ==
  ASSUME HoldInv, ReplyInv, NEW t \in Client, NEW retryable, ExecFails(t, retryable),
         UNCHANGED <<idle, conn, wire, op, calls, reply, present>>
  PROVE  ReplyInv'
<1>1. /\ pc'[t] = "drop" /\ outcome'[t] \in {"retry", "error"}
      /\ outcome' \in [Client -> {"none", "ok", "retry", "error"}]
      /\ \A u \in Client \ {t} : outcome'[u] = outcome[u]
  BY DEF ExecFails, Goto, HoldInv, ReplyInv, WireTyped
<1>2. WireTyped' /\ ThreadOK(t)'
  BY <1>1 DEF ReplyInv, WireTyped, ThreadOK
<1> QED BY <1>1, <1>2, PlainStep DEF ExecFails, Place, Slotted

LEMMA WriteReplies ==
  ASSUME HoldInv, ReplyInv, NEW t \in Client, ExecWrite(t)
  PROVE  ReplyInv'
<1> DEFINE c == conn[t]
<1>1. /\ UNCHANGED <<idle, conn, op, calls, reply, present>>
      /\ pc[t] = "write" /\ pc[t] \in Holding
  BY DEF ExecWrite, pool, Holding
<1>2. CASE UNCHANGED wire /\ \E kind \in IoErrorKind :
             ExecFails(t, is_retryable_write_error_kind(kind))
  BY <1>1, <1>2, FailReplies
<1>3. CASE /\ wire' = [wire EXCEPT
                         ![c].inbox = IF wire[c].open THEN Append(@, Command(t)) ELSE @]
           /\ Goto(t, "read") /\ UNCHANGED outcome
  <2>1. c \in Conn /\ wire[c] \in Socket /\ Clean(c) /\ Command(t) \in Message
    BY <1>1, Own DEF ReplyInv, WireTyped, ThreadOK, Command, Message
  <2> DEFINE box == IF wire[c].open THEN Append(wire[c].inbox, Command(t))
                                    ELSE wire[c].inbox
  <2>2. box \in {<<>>, <<Command(t)>>} /\ box \in Seq(Message)
    BY <2>1 DEF Clean, Socket
  <2>3. wire' = [wire EXCEPT ![c].inbox = box]
    BY <1>3
  <2> HIDE DEF box
  <2>4. /\ wire' \in [Conn -> Socket] /\ wire'[c].inbox = box
        /\ wire'[c].outbox = wire[c].outbox
        /\ \A d \in Conn \ {c} : wire'[d] = wire[d]
    BY <2>1, <2>2, <2>3 DEF ReplyInv, WireTyped, Socket
  <2>5. WireTyped' /\ pc'[t] = "read" /\ conn'[t] = c /\ Command(t)' = Command(t)
    BY <1>1, <1>3, <2>4 DEF ReplyInv, WireTyped, Goto, HoldInv, Command
  <2>6. wire'[c].outbox = <<>>
    BY <2>1, <2>4 DEF Clean
  <2>7. Awaits(t)'
    BY <2>2, <2>4, <2>5, <2>6 DEF Awaits, Clean
  <2>8. ThreadOK(t)'
    BY <1>1, <1>3, <2>5, <2>7 DEF ReplyInv, ThreadOK
  <2> QED BY <1>1, <1>3, <2>1, <2>4, <2>5, <2>8, Own, WireStep
<1> QED BY <1>2, <1>3 DEF ExecWrite

LEMMA ReadReplies ==
  ASSUME HoldInv, ReplyInv, NEW t \in Client, ExecRead(t)
  PROVE  ReplyInv'
<1> DEFINE c == conn[t]
           w == wire[c]
<1>1. /\ UNCHANGED <<idle, conn, op, calls, present>>
      /\ pc[t] = "read" /\ pc[t] \in Holding
  BY DEF ExecRead, pool, Holding
<1>2. CASE /\ UNCHANGED <<reply, wire>>
           /\ \E err, none : ExecFails(t, classify_read_error(err, none))
  BY <1>1, <1>2, FailReplies
<1>3. CASE /\ w.outbox # <<>>
           /\ reply' = [reply EXCEPT ![t] = Head(w.outbox)]
           /\ wire' = [wire EXCEPT ![c].outbox = Tail(@)]
           /\ outcome' = [outcome EXCEPT ![t] = "ok"]
           /\ Goto(t, "drop")
  <2>1. c \in Conn /\ w \in Socket /\ Awaits(t)
    BY <1>1, Own DEF ReplyInv, WireTyped, ThreadOK
  <2>2. PICK h \in BOOLEAN : /\ w.inbox = <<>>
                             /\ w.outbox = <<[to |-> calls[t], client |-> t, hit |-> h]>>
    BY <1>3, <2>1 DEF Awaits, Clean
  <2> DEFINE r == [to |-> calls[t], client |-> t, hit |-> h]
  <2>3. r \in Answer /\ r.client = t /\ r.to = calls[t]
    BY DEF Answer, ReplyInv, WireTyped
  <2> HIDE DEF r
  <2>4. Head(w.outbox) = r /\ Tail(w.outbox) = <<>> /\ <<>> \in Seq(Answer)
    BY <2>2 DEF r
  <2>5. /\ wire' \in [Conn -> Socket] /\ wire'[c].inbox = <<>> /\ wire'[c].outbox = <<>>
        /\ \A d \in Conn \ {c} : wire'[d] = wire[d]
    BY <1>3, <2>1, <2>2, <2>4 DEF ReplyInv, WireTyped, Socket
  <2>6. /\ reply' \in [Client -> Answer \cup {NoReply}] /\ reply'[t] = r
        /\ outcome' \in [Client -> {"none", "ok", "retry", "error"}]
        /\ pc'[t] = "drop" /\ conn'[t] = c
        /\ \A u \in Client \ {t} : reply'[u] = reply[u] /\ outcome'[u] = outcome[u]
    BY <1>1, <1>3, <2>3, <2>4 DEF ReplyInv, WireTyped, Goto, HoldInv
  <2>7. WireTyped'
    BY <1>1, <2>5, <2>6 DEF ReplyInv, WireTyped
  <2>8. ThreadOK(t)'
    BY <1>1, <2>3, <2>5, <2>6 DEF ThreadOK, Clean
  <2> QED BY <1>1, <1>3, <2>1, <2>5, <2>6, <2>7, <2>8, Own, WireStep
<1> QED BY <1>2, <1>3, Zenon DEF ExecRead

LEMMA DropReplies ==
  ASSUME HoldInv, ReplyInv, NEW t \in Client, ExecDrop(t)
  PROVE  ReplyInv'
<1> DEFINE c == conn[t]
<1>1. /\ UNCHANGED <<calls, outcome, reply, present>>
      /\ op' = op \/ op' = [op EXCEPT ![t] = "none"]
      /\ pc[t] = "drop" /\ pc[t] \in Holding /\ Take(t, NoConn)
  BY DEF ExecDrop, Return, Holding
<1>2. PICK place \in {"idle", "acquire"} : Goto(t, place)
  BY DEF ExecDrop, Return
<1>3. /\ pc'[t] = place
      /\ \A u \in Client \ {t} : op'[u] = op[u] /\ conn'[u] = conn[u] /\ pc'[u] = pc[u]
  BY <1>1, <1>2 DEF Goto, Take, HoldInv, ReplyInv, WireTyped
<1>4. ThreadOK(t)'
  BY <1>1, <1>3 DEF ReplyInv, ThreadOK
<1>5. CASE UNCHANGED idle /\ CloseEnd(c)
  <2>1. WireTyped' /\ \A d \in Conn \ {c} : wire'[d] = wire[d]
    BY <1>1, <1>5, Own, CloseEndEffect DEF ReplyInv, WireTyped
  <2> QED BY <1>1, <1>2, <1>3, <1>4, <1>5, <2>1, Own, WireStep
<1>6. CASE outcome[t] = "ok" /\ idle' = Append(idle, c) /\ UNCHANGED wire
  <2>1. c \in Conn /\ Clean(c) /\ WireTyped'
    BY <1>1, <1>6, Own DEF ReplyInv, WireTyped, ThreadOK
  <2>2. /\ Len(idle) \in Nat /\ Len(idle') = Len(idle) + 1
        /\ \A i \in 1..Len(idle) : idle'[i] = idle[i]
        /\ idle'[Len(idle) + 1] = c
    BY <1>6, <2>1 DEF HoldInv
  <2>3. IdleClean'
    BY <1>6, <2>1, <2>2 DEF ReplyInv, IdleClean, Clean
  <2>4. ASSUME NEW u \in Client \ {t} PROVE ThreadOK(u)'
    BY <1>1, <1>3, <1>6, OtherThread DEF ReplyInv
  <2> QED BY <1>4, <2>1, <2>3, <2>4 DEF ReplyInv
<1> QED BY <1>5, <1>6 DEF ExecDrop, Keep, return_connection, release_slot

(* The answer to the first command under way on connection c. *)
AnswerOn(c) ==
  LET m == Head(wire[c].inbox)
  IN  [to |-> m.no, client |-> m.client, hit |-> present]

(* The server takes the first command and answers it, if anybody listens.  *)
LEMMA ServeEffect ==
  ASSUME WireTyped, NEW c \in Conn, Serve(c)
  PROVE  /\ wire' \in [Conn -> Socket] /\ present' \in BOOLEAN
         /\ \A d \in Conn \ {c} : wire'[d] = wire[d]
         /\ wire[c].inbox # <<>> /\ Head(wire[c].inbox) \in Message
         /\ wire'[c].inbox = Tail(wire[c].inbox)
         /\ wire'[c].outbox \in {Append(wire[c].outbox, AnswerOn(c)), wire[c].outbox}
<1> DEFINE w == wire[c]
           m == Head(w.inbox)
           a == [to |-> m.no, client |-> m.client, hit |-> present]
<1>1. w \in Socket /\ w.inbox \in Seq(Message) /\ w.outbox \in Seq(Answer)
  BY DEF WireTyped, Socket
<1>2. m \in Message /\ Tail(w.inbox) \in Seq(Message) /\ w.inbox # <<>>
  BY <1>1 DEF Serve
<1>3. a \in Answer /\ a = AnswerOn(c)
  BY <1>2 DEF Message, Answer, WireTyped, AnswerOn
<1> DEFINE out == IF w.open THEN Append(w.outbox, a) ELSE w.outbox
           v == [wire EXCEPT ![c].inbox = Tail(w.inbox)]
<1> HIDE DEF a
<1>4. out \in Seq(Answer) /\ out \in {Append(w.outbox, a), w.outbox}
  BY <1>1, <1>3
<1>5. /\ v \in [Conn -> Socket] /\ v[c].inbox = Tail(w.inbox)
      /\ \A d \in Conn \ {c} : v[d] = wire[d]
  BY <1>1, <1>2 DEF WireTyped, Socket
<1>6. wire' = [v EXCEPT ![c].outbox = out]
  <2>1. v[c].outbox = w.outbox
    BY <1>1 DEF WireTyped, Socket
  <2> QED BY <2>1 DEF Serve, a
<1>7. present' \in BOOLEAN
  BY DEF Serve
<1> HIDE DEF out, v
<1>8. /\ wire' \in [Conn -> Socket] /\ \A d \in Conn \ {c} : wire'[d] = wire[d]
      /\ wire'[c].inbox = Tail(w.inbox) /\ wire'[c].outbox = out
  BY <1>4, <1>5, <1>6 DEF Socket
<1> QED BY <1>2, <1>3, <1>4, <1>7, <1>8

(* The peer closes: commands are lost, and replies perhaps. *)
LEMMA CloseEffect ==
  ASSUME WireTyped, NEW c \in Conn, Close(c)
  PROVE  /\ wire' \in [Conn -> Socket]
         /\ \A d \in Conn \ {c} : wire'[d] = wire[d]
         /\ wire'[c].inbox = <<>> /\ wire'[c].outbox \in {wire[c].outbox, <<>>}
<1>1. PICK out \in {wire[c].outbox, <<>>} :
        wire' = [wire EXCEPT ![c] = [open |-> FALSE, inbox |-> <<>>, outbox |-> out]]
  BY DEF Close
<1>2. [open |-> FALSE, inbox |-> <<>>, outbox |-> out] \in Socket
  <2>1. <<>> \in Seq(Answer) /\ <<>> \in Seq(Message)
    OBVIOUS
  <2>2. wire[c].outbox \in Seq(Answer)
    BY DEF WireTyped, Socket
  <2>3. out \in Seq(Answer)
    BY <1>1, <2>1, <2>2, Zenon
  <2> QED BY <2>1, <2>3 DEF Socket
<1>3. /\ wire'[c] = [open |-> FALSE, inbox |-> <<>>, outbox |-> out]
      /\ wire' \in [Conn -> Socket] /\ \A d \in Conn \ {c} : wire'[d] = wire[d]
  BY <1>1, <1>2 DEF WireTyped
<1> QED BY <1>3

(* The server takes a command or closes: a clean connection stays clean,   *)
(* and a thread that reads still waits for its own answer only.            *)
LEMMA ServerReplies ==
  ASSUME HoldInv, ReplyInv, NEW c \in Conn, Serve(c) \/ Close(c)
  PROVE  ReplyInv'
<1>1. UNCHANGED <<idle, conn, pc, op, calls, outcome, reply>>
  BY DEF Serve, Close, pool, local
<1> DEFINE w == wire[c]
           m == Head(w.inbox)
           a == AnswerOn(c)
<1>2. WireTyped /\ w \in Socket /\ w.inbox \in Seq(Message) /\ w.outbox \in Seq(Answer)
  BY DEF ReplyInv, WireTyped, Socket
<1> HIDE DEF a
<1>5. /\ wire' \in [Conn -> Socket] /\ present' \in BOOLEAN
      /\ \A d \in Conn \ {c} : wire'[d] = wire[d]
      /\ \/ /\ w.inbox # <<>> /\ wire'[c].inbox = Tail(w.inbox)
            /\ wire'[c].outbox \in {Append(w.outbox, a), w.outbox}
         \/ wire'[c].inbox = <<>> /\ wire'[c].outbox \in {w.outbox, <<>>}
  <2>1. CASE Serve(c)
    BY <1>2, <2>1, ServeEffect DEF a
  <2>2. CASE Close(c)
    BY <1>2, <2>2, CloseEffect DEF Close, WireTyped
  <2> QED BY <2>1, <2>2
<1>6. WireTyped'
  BY <1>1, <1>5 DEF ReplyInv, WireTyped
<1>7. Clean(c) => Clean(c)'
  BY <1>5 DEF Clean
<1>8. \A d \in Conn : Clean(d) => Clean(d)'
  BY <1>5, <1>7 DEF Clean
<1>9. IdleClean'
  <2>1. \A i \in 1..Len(idle) : idle[i] \in Conn
    BY DEF HoldInv
  <2> QED BY <1>1, <1>8, <2>1 DEF ReplyInv, IdleClean
<1>10. ASSUME NEW t \in Client, pc[t] \in Holding, Awaits(t) PROVE Awaits(t)'
  <2>1. conn[t] \in Conn /\ conn'[t] = conn[t] /\ Command(t)' = Command(t)
    BY <1>1, <1>10, Own DEF Command
  <2>2. CASE conn[t] # c
    BY <1>1, <1>5, <1>10, <2>1, <2>2 DEF Awaits, Clean
  <2>3. CASE Clean(conn[t])
    BY <1>8, <2>1, <2>3 DEF Awaits, Clean
  <2>4. CASE conn[t] = c /\ w.inbox = <<Command(t)>> /\ w.outbox = <<>>
    <3>1. m = Command(t) /\ Tail(w.inbox) = <<>>
      BY <2>4
    <3>2. a = [to |-> calls[t], client |-> t, hit |-> present]
      BY <3>1 DEF Command, a, AnswerOn
    <3>3. present \in BOOLEAN
      BY DEF ReplyInv, WireTyped
    <3>4. /\ wire'[c].inbox = <<>>
          /\ wire'[c].outbox \in {<<>>, <<a>>}
      BY <1>5, <2>4, <3>1
    <3> QED BY <1>1, <2>1, <2>4, <3>2, <3>3, <3>4 DEF Awaits, Clean
  <2>5. CASE conn[t] = c /\ w.inbox = <<>> /\ w.outbox # <<>>
    <3>1. wire'[c].inbox = <<>> /\ wire'[c].outbox \in {w.outbox, <<>>}
      BY <1>5, <2>5
    <3>2. PICK h \in BOOLEAN : w.outbox = <<[to |-> calls[t], client |-> t, hit |-> h]>>
      BY <1>10, <2>5 DEF Awaits, Clean
    <3>3. wire'[conn'[t]].inbox = <<>> /\ calls' = calls
      BY <1>1, <2>1, <2>5, <3>1
    <3>4. CASE wire'[c].outbox = <<>>
      BY <2>1, <2>5, <3>3, <3>4 DEF Awaits, Clean
    <3>5. CASE wire'[c].outbox = w.outbox
      <4>1. wire'[conn'[t]].outbox = <<[to |-> calls'[t], client |-> t, hit |-> h]>>
        BY <2>1, <2>5, <3>2, <3>3, <3>5
      <4> QED BY <3>3, <4>1 DEF Awaits
    <3> QED BY <3>1, <3>4, <3>5
  <2>6. Clean(conn[t]) <=> wire[conn[t]].inbox = <<>> /\ wire[conn[t]].outbox = <<>>
    BY DEF Clean
  <2> QED BY <1>10, <2>2, <2>3, <2>4, <2>5, <2>6, Zenon DEF Awaits
<1>11. ASSUME NEW t \in Client PROVE ThreadOK(t)'
  <2>1. pc[t] \in Holding => conn[t] \in Conn
    BY Own
  <2> QED BY <1>1, <1>8, <1>10, <2>1 DEF ReplyInv, ThreadOK, Holding
<1> QED BY <1>6, <1>9, <1>11 DEF ReplyInv

LEMMA ReplyStep == HoldInv /\ ReplyInv /\ [Next]_vars => ReplyInv'
<1> SUFFICES ASSUME HoldInv, ReplyInv, [Next]_vars PROVE ReplyInv'
  OBVIOUS
<1>1. CASE Done \/ UNCHANGED vars
  BY <1>1 DEF Done, vars, ReplyInv, WireTyped, IdleClean, ThreadOK, Clean, Awaits, Command
<1> QED
  BY <1>1, ClientStepReplies, PopReplies, DiscardReplies, ConnectReplies, WriteReplies,
     ReadReplies, DropReplies, ServerReplies DEF Next, Step

(* exec and the pool, with any number of threads and retries, and peers    *)
(* that close at any moment: a call that succeeds has read the answer to   *)
(* its own command, never a late one to a call that gave up.               *)
THEOREM NoCrossedReplies == Spec => []RepliesMatch
<1>1. ReplyInv => RepliesMatch
  BY DEF ReplyInv, ThreadOK, RepliesMatch
<1> QED
  BY HoldInit, HoldStep, ReplyInit, ReplyStep, <1>1, PTL DEF Spec

-----------------------------------------------------------------------------
(* What delete reports.                                                    *)

(* The commands under way on connection c, and whether one of them is of   *)
(* the present call of thread t.                                           *)
Sent(c) == {wire[c].inbox[i] : i \in 1..Len(wire[c].inbox)}
Mine(t, c) == \E m \in Sent(c) : m.client = t /\ m.no = calls[t]

(* The present call of thread t was not retried, and has not failed. *)
First(t) ==
  attempts[t] = 0 /\ pc[t] # "idle" /\ (pc[t] = "drop" => outcome[t] = "ok")

(* What an answer to the present call of thread t may say. *)
Honest(t, hit) ==
  /\ hit => removed[t]
  /\ attempts[t] = 0 => hit = removed[t]

(* In its first try only the connection a thread reads from can bring its  *)
(* command to the server, and until then nothing was removed for it.       *)
TruthOK(t) ==
  /\ pc[t] = "idle" <=> op[t] = "none"
  /\ outcome[t] = "ok" => pc[t] \in {"drop", "idle"}
  /\ outcome[t] = "retry" => attempts[t] # 0
  /\ First(t) => \A c \in Conn : Mine(t, c) => pc[t] = "read" /\ c = conn[t]
  /\ First(t) /\ pc[t] \notin {"read", "drop"} => ~removed[t]
  /\ pc[t] = "read" =>
       /\ attempts[t] = 0 /\ wire[conn[t]].inbox # <<>> => ~removed[t]
       /\ op[t] = "delete" =>
            \A i \in 1..Len(wire[conn[t]].outbox) :
              Honest(t, wire[conn[t]].outbox[i].hit)
  /\ op[t] = "delete" /\ outcome[t] = "ok" => Honest(t, reply[t].hit)

(* No command is under way for a call that was not made yet. *)
Past == \A c \in Conn : \A m \in Sent(c) : m.no <= calls[m.client]

TruthInv ==
  /\ attempts \in [Client -> Nat]
  /\ removed \in [Client -> BOOLEAN]
  /\ Past
  /\ \A t \in Client : TruthOK(t)

(* Nothing is under way at first. *)
LEMMA TruthInit == Init => TruthInv
<1> SUFFICES ASSUME Init PROVE TruthInv
  OBVIOUS
<1>1. \A c \in Conn : Sent(c) = {}
  BY DEF Init, Sent
<1> QED
  BY <1>1 DEF Init, TruthInv, Past, TruthOK, First

(* What is under way stays, is lost, or is taken in order. *)
LEMMA SentLess ==
  ASSUME WireTyped, NEW c \in Conn,
         \/ wire'[c].inbox \in {wire[c].inbox, <<>>}
         \/ wire[c].inbox # <<>> /\ wire'[c].inbox = Tail(wire[c].inbox)
  PROVE  Sent(c)' \subseteq Sent(c)
<1>1. wire[c].inbox \in Seq(Message)
  BY DEF WireTyped, Socket
<1>2. CASE wire'[c].inbox = wire[c].inbox
  BY <1>2 DEF Sent
<1>3. CASE wire'[c].inbox = <<>>
  BY <1>3 DEF Sent
<1>4. CASE wire[c].inbox # <<>> /\ wire'[c].inbox = Tail(wire[c].inbox)
  <2>1. /\ Len(Tail(wire[c].inbox)) = Len(wire[c].inbox) - 1
        /\ \A i \in 1..Len(Tail(wire[c].inbox)) :
             /\ i + 1 \in 1..Len(wire[c].inbox)
             /\ Tail(wire[c].inbox)[i] = wire[c].inbox[i + 1]
    BY <1>1, <1>4
  <2> QED
    BY <1>4, <2>1 DEF Sent
<1> QED
  BY <1>2, <1>3, <1>4

(* The step of another thread leaves thread u alone. *)
LEMMA OtherTruth ==
  ASSUME HoldInv, NEW u \in Client, TruthOK(u),
         pc'[u] = pc[u], conn'[u] = conn[u], op'[u] = op[u],
         attempts'[u] = attempts[u], outcome'[u] = outcome[u],
         reply'[u] = reply[u], removed'[u] = removed[u],
         conn[u] # NoConn => wire'[conn[u]] = wire[conn[u]],
         \A c \in Conn : Mine(u, c)' => Mine(u, c)
  PROVE  TruthOK(u)'
<1>1. First(u)' <=> First(u)
  BY DEF First
<1>2. pc[u] = "read" => conn[u] # NoConn
  BY DEF HoldInv, Holding
<1>3. \A hit : Honest(u, hit)' <=> Honest(u, hit)
  BY DEF Honest
<1>4. First(u)' => \A c \in Conn : Mine(u, c)' => pc'[u] = "read" /\ c = conn'[u]
  BY <1>1 DEF TruthOK
<1>5. pc'[u] = "read" =>
       /\ attempts'[u] = 0 /\ wire'[conn'[u]].inbox # <<>> => ~removed'[u]
       /\ op'[u] = "delete" =>
            \A i \in 1..Len(wire'[conn'[u]].outbox) :
              Honest(u, wire[conn[u]].outbox[i].hit)'
  BY <1>2, <1>3 DEF TruthOK, Honest
<1> QED
  BY <1>1, <1>4, <1>5 DEF TruthOK, Honest

(* A step of thread t, which sends at most its own command.  What is left  *)
(* to show is that the thread itself is as it should be.                   *)
LEMMA ThreadTruth ==
  ASSUME HoldInv, ReplyInv, ReplyInv', TruthInv, NEW t \in Client, TruthOK(t)',
         attempts' \in [Client -> Nat], removed' \in [Client -> BOOLEAN],
         calls'[t] >= calls[t],
         \A u \in Client \ {t} :
           /\ pc'[u] = pc[u] /\ conn'[u] = conn[u] /\ op'[u] = op[u]
           /\ attempts'[u] = attempts[u] /\ outcome'[u] = outcome[u]
           /\ reply'[u] = reply[u] /\ removed'[u] = removed[u]
           /\ calls'[u] = calls[u]
           /\ conn[u] # NoConn => wire'[conn[u]] = wire[conn[u]],
         \A d \in Conn :
           Sent(d)' \subseteq Sent(d) \cup {m \in Message : m.client = t /\ m.no = calls'[t]}
  PROVE  TruthInv'
<1>1. calls \in [Client -> Nat] /\ calls' \in [Client -> Nat]
  BY DEF ReplyInv, WireTyped
<1>2. \A d \in Conn : Sent(d) \subseteq Message
  BY DEF ReplyInv, WireTyped, Socket, Sent
<1>3. Past'
  <2> SUFFICES ASSUME NEW d \in Conn, NEW m \in Sent(d)'
               PROVE  m.no <= calls'[m.client]
    BY DEF Past
  <2>1. CASE m \in Sent(d)
    <3>1. m \in Message /\ m.no <= calls[m.client]
      BY <1>2, <2>1 DEF TruthInv, Past
    <3>2. m.client \in Client /\ m.no \in Nat
      BY <3>1 DEF Message
    <3>3. calls[m.client] <= calls'[m.client]
      BY <1>1, <3>2
    <3> QED
      BY <1>1, <3>1, <3>2, <3>3
  <2>2. CASE m.client = t /\ m.no = calls'[t]
    BY <1>1, <2>2
  <2> QED
    BY <2>1, <2>2
<1>4. ASSUME NEW u \in Client \ {t} PROVE TruthOK(u)'
  <2>1. ASSUME NEW d \in Conn, Mine(u, d)' PROVE Mine(u, d)
    BY <2>1 DEF Mine
  <2> QED
    BY <2>1, OtherTruth DEF TruthInv
<1> QED
  BY <1>3, <1>4 DEF TruthInv

(* Nothing is removed for a call, and nothing sent for it, on its way to   *)
(* the write.                                                              *)
LEMMA OnTheWay ==
  ASSUME NEW t \in Client, TruthOK(t),
         pc[t] \notin {"idle", "read", "drop"}, pc'[t] \notin {"idle", "read", "drop"},
         op'[t] = op[t], calls'[t] = calls[t], outcome'[t] = outcome[t],
         removed'[t] = removed[t], attempts'[t] = 0 => attempts[t] = 0,
         attempts[t] # 0 => attempts'[t] # 0,
         \A d \in Conn : Sent(d)' \subseteq Sent(d)
  PROVE  TruthOK(t)'
<1>1. outcome[t] # "ok"
  BY DEF TruthOK
<1>2. First(t)' => First(t)
  BY DEF First
<1>3. \A d \in Conn : Mine(t, d)' => Mine(t, d)
  BY DEF Mine
<1> QED
  BY <1>1, <1>2, <1>3 DEF TruthOK

(* A call that has returned. *)
LEMMA ReturnedTruth ==
  ASSUME NEW t \in Client, TruthOK(t), pc'[t] = "idle", op'[t] = "none",
         outcome'[t] = outcome[t], attempts'[t] = attempts[t]
  PROVE  TruthOK(t)'
BY DEF TruthOK, First

(* Steps that leave the wires alone. *)
LEMMA CallerTruth ==
  ASSUME HoldInv, ReplyInv, ReplyInv', TruthInv, NEW t \in Client,
         \/ Call(t) \/ AcquirePop(t) \/ AcquireCheck(t) \/ AcquireReserve(t)
         \/ AcquireFail(t)
  PROVE  TruthInv'
<1>0. /\ pc \in [Client -> Place] /\ conn \in [Client -> Conn \cup {NoConn}]
      /\ op \in [Client -> {"none", "set", "delete"}]
      /\ calls \in [Client -> Nat] /\ attempts \in [Client -> Nat]
      /\ reply \in [Client -> Answer \cup {NoReply}]
      /\ outcome \in [Client -> {"none", "ok", "retry", "error"}]
      /\ removed \in [Client -> BOOLEAN] /\ TruthOK(t)
  BY DEF HoldInv, ReplyInv, WireTyped, TruthInv
<1>1. UNCHANGED wire
  BY DEF Call, AcquirePop, AcquireCheck, AcquireReserve, AcquireFail, network
<1>2. \A d \in Conn : Sent(d)' = Sent(d)
  BY <1>1 DEF Sent
<1>3. CASE Call(t)
  <2>1. /\ pc'[t] = "acquire" /\ op'[t] \in {"set", "delete"} /\ attempts'[t] = 0
        /\ outcome'[t] = "none" /\ removed'[t] = FALSE /\ calls'[t] = calls[t] + 1
        /\ attempts' \in [Client -> Nat] /\ removed' \in [Client -> BOOLEAN]
    BY <1>0, <1>3 DEF Call, Goto
  <2>2. \A u \in Client \ {t} :
          /\ pc'[u] = pc[u] /\ conn'[u] = conn[u] /\ op'[u] = op[u]
          /\ attempts'[u] = attempts[u] /\ outcome'[u] = outcome[u]
          /\ reply'[u] = reply[u] /\ removed'[u] = removed[u]
          /\ calls'[u] = calls[u]
    BY <1>0, <1>3 DEF Call, Goto
  <2>3. ASSUME NEW d \in Conn PROVE ~Mine(t, d)'
    <3> SUFFICES ASSUME NEW m \in Sent(d), m.client = t, m.no = calls[t] + 1
                 PROVE  FALSE
      BY <1>2, <2>1 DEF Mine
    <3>1. m.no <= calls[t]
      BY DEF TruthInv, Past
    <3> QED
      BY <1>0, <3>1
  <2>4. TruthOK(t)'
    BY <2>1, <2>3 DEF TruthOK
  <2> QED
    BY <1>0, <1>1, <1>2, <2>1, <2>2, <2>4, ThreadTruth
<1>4. CASE AcquirePop(t) \/ AcquireCheck(t) \/ AcquireReserve(t) \/ AcquireFail(t)
  <2>1. /\ UNCHANGED <<calls, outcome, reply, removed>>
        /\ pc[t] \in {"acquire", "check", "reserve", "no_conn", "no_conn_retry"}
    BY <1>4 DEF AcquirePop, AcquireCheck, AcquireReserve, AcquireFail, local, network
  <2>2. \A u \in Client \ {t} : pc'[u] = pc[u]
    BY <1>0, <1>4 DEF AcquirePop, AcquireCheck, AcquireReserve, AcquireFail, Goto, Return
  <2>3. \A u \in Client \ {t} : conn'[u] = conn[u] /\ op'[u] = op[u]
    BY <1>0, <1>4 DEF AcquirePop, AcquireCheck, AcquireReserve, AcquireFail, Take, Return, local
  <2>4. /\ attempts' = attempts \/ attempts' = [attempts EXCEPT ![t] = @ + 1]
    BY <1>4 DEF AcquirePop, AcquireCheck, AcquireReserve, AcquireFail, local
  <2>5. /\ attempts' \in [Client -> Nat]
        /\ \A u \in Client \ {t} : attempts'[u] = attempts[u]
        /\ attempts'[t] \in {attempts[t], attempts[t] + 1}
    BY <1>0, <2>4
  <2>6. \/ pc'[t] \in Place \ {"idle", "read", "drop"} /\ op'[t] = op[t]
        \/ pc'[t] = "idle" /\ op'[t] = "none" /\ attempts'[t] = attempts[t]
    <3>1. CASE AcquirePop(t) \/ AcquireCheck(t)
      BY <1>0, <3>1 DEF AcquirePop, AcquireCheck, Goto, Place, Slotted, local
    <3>2. CASE AcquireReserve(t)
      BY <1>0, <3>2 DEF AcquireReserve, Goto, Return, Place, Slotted
    <3>3. CASE AcquireFail(t)
      BY <1>0, <3>3 DEF AcquireFail, Goto, Return, Place, Slotted
    <3> QED
      BY <1>4, <3>1, <3>2, <3>3
  <2>7. TruthOK(t)'
    <3>1. CASE pc'[t] \in Place \ {"idle", "read", "drop"} /\ op'[t] = op[t]
      <4>1. /\ attempts'[t] = 0 => attempts[t] = 0
            /\ attempts[t] # 0 => attempts'[t] # 0
        BY <1>0, <2>5
      <4>2. \A d \in Conn : Sent(d)' \subseteq Sent(d)
        BY <1>2
      <4>3. pc[t] \notin {"idle", "read", "drop"} /\ pc'[t] \notin {"idle", "read", "drop"}
        BY <2>1, <3>1
      <4> QED
        BY <1>0, <2>1, <3>1, <4>1, <4>2, <4>3, OnTheWay
    <3>2. CASE pc'[t] = "idle" /\ op'[t] = "none" /\ attempts'[t] = attempts[t]
      BY <1>0, <2>1, <3>2, ReturnedTruth
    <3> QED
      BY <2>6, <3>1, <3>2
  <2> QED
    BY <1>0, <1>1, <1>2, <2>1, <2>2, <2>3, <2>5, <2>7, ThreadTruth
<1> QED
  BY <1>3, <1>4

(* The wire of the connection thread t has is nobody else's. *)
LEMMA OwnWire ==
  ASSUME HoldInv, NEW t \in Client, pc[t] \in Holding,
         \A d \in Conn \ {conn[t]} : wire'[d] = wire[d]
  PROVE  /\ conn[t] \in Conn
         /\ \A u \in Client \ {t} : conn[u] # NoConn => wire'[conn[u]] = wire[conn[u]]
BY Own DEF HoldInv

(* The client closes its end: what it has sent stays under way. *)
LEMMA CloseEndSent ==
  ASSUME WireTyped, NEW c \in Conn, CloseEnd(c)
  PROVE  /\ \A d \in Conn : Sent(d)' = Sent(d)
         /\ \A d \in Conn \ {c} : wire'[d] = wire[d]
<1>1. wire[c] \in Socket
  BY DEF WireTyped
<1> DEFINE v == [wire EXCEPT ![c].open = FALSE]
<1>2. v \in [Conn -> Socket] /\ v[c].inbox = wire[c].inbox
  BY <1>1 DEF WireTyped, Socket
<1>3. wire' = [v EXCEPT ![c].outbox = <<>>]
  BY DEF CloseEnd
<1> HIDE DEF v
<1>4. wire'[c].inbox = wire[c].inbox
  BY <1>2, <1>3 DEF Socket
<1>5. \A d \in Conn \ {c} : wire'[d] = wire[d]
  BY CloseEndEffect
<1> QED
  BY <1>4, <1>5 DEF Sent

(* An unhealthy connection is discarded. *)
LEMMA DiscardTruth ==
  ASSUME HoldInv, ReplyInv, ReplyInv', TruthInv, NEW t \in Client, AcquireDiscard(t)
  PROVE  TruthInv'
<1>1. /\ pc \in [Client -> Place] /\ conn \in [Client -> Conn \cup {NoConn}]
      /\ WireTyped /\ attempts \in [Client -> Nat] /\ removed \in [Client -> BOOLEAN]
      /\ calls[t] \in Nat /\ TruthOK(t)
  BY DEF HoldInv, ReplyInv, WireTyped, TruthInv
<1>2. /\ UNCHANGED <<op, calls, attempts, reply, outcome, removed>>
      /\ CloseEnd(conn[t]) /\ Take(t, NoConn) /\ Goto(t, "acquire")
      /\ pc[t] = "unhealthy" /\ pc[t] \in Holding
  BY DEF AcquireDiscard, Holding
<1>3. /\ pc'[t] = "acquire"
      /\ \A u \in Client \ {t} : pc'[u] = pc[u] /\ conn'[u] = conn[u]
  BY <1>1, <1>2 DEF Goto, Take
<1>4. conn[t] \in Conn
  BY <1>2, Own
<1>5. /\ \A d \in Conn : Sent(d)' = Sent(d)
      /\ \A d \in Conn \ {conn[t]} : wire'[d] = wire[d]
  BY <1>1, <1>2, <1>4, CloseEndSent
<1>6. TruthOK(t)'
  <2>1. pc[t] \notin {"idle", "read", "drop"} /\ pc'[t] \notin {"idle", "read", "drop"}
    BY <1>2, <1>3
  <2> QED
    BY <1>1, <1>2, <1>5, <2>1, OnTheWay
<1>7. \A u \in Client \ {t} : conn[u] # NoConn => wire'[conn[u]] = wire[conn[u]]
  BY <1>2, <1>5, OwnWire
<1> QED
  BY <1>1, <1>2, <1>3, <1>5, <1>6, <1>7, ThreadTruth

(* A connection is opened, or not. *)
LEMMA ConnectTruth ==
  ASSUME HoldInv, ReplyInv, ReplyInv', TruthInv, NEW t \in Client, AcquireConnect(t)
  PROVE  TruthInv'
<1>1. /\ pc \in [Client -> Place] /\ conn \in [Client -> Conn \cup {NoConn}]
      /\ WireTyped /\ attempts \in [Client -> Nat] /\ removed \in [Client -> BOOLEAN]
      /\ calls[t] \in Nat /\ TruthOK(t)
  BY DEF HoldInv, ReplyInv, WireTyped, TruthInv
<1>2. /\ UNCHANGED <<op, calls, attempts, reply, outcome, removed>>
      /\ pc[t] = "connect"
  BY DEF AcquireConnect
<1>3. PICK place \in {"write", "no_conn", "no_conn_retry"} : Goto(t, place)
  BY DEF AcquireConnect
<1>4. /\ pc'[t] = place
      /\ \A u \in Client \ {t} : pc'[u] = pc[u]
  BY <1>1, <1>3 DEF Goto
<1>5. ASSUME \A d \in Conn : Sent(d)' \subseteq Sent(d),
             \A u \in Client \ {t} : /\ conn'[u] = conn[u]
                                     /\ conn[u] # NoConn => wire'[conn[u]] = wire[conn[u]]
      PROVE  TruthInv'
  <2>1. pc[t] \notin {"idle", "read", "drop"} /\ pc'[t] \notin {"idle", "read", "drop"}
    BY <1>2, <1>4
  <2>2. TruthOK(t)'
    BY <1>1, <1>2, <1>5, <2>1, OnTheWay
  <2> QED
    BY <1>1, <1>2, <1>4, <1>5, <2>2, ThreadTruth
<1>6. CASE UNCHANGED <<wire, conn>>
  BY <1>5, <1>6 DEF Sent
<1>7. ASSUME NEW c \in Conn, connect(c), Take(t, c)
      PROVE  TruthInv'
  <2>1. /\ wire'[c].inbox = <<>> /\ wire[c].inbox = <<>>
        /\ \A d \in Conn \ {c} : wire'[d] = wire[d]
    BY <1>1, <1>7 DEF connect, WireTyped
  <2>2. \A d \in Conn : Sent(d)' \subseteq Sent(d)
    BY <2>1 DEF Sent
  <2>3. \A u \in Client \ {t} : conn'[u] = conn[u] /\ conn[u] # c
    BY <1>1, <1>7, ClientAssumption DEF Take, connect, Held
  <2> QED
    BY <1>1, <1>5, <2>1, <2>2, <2>3
<1> QED
  BY <1>6, <1>7 DEF AcquireConnect

(* exec failed: the thread has no answer to give. *)
LEMMA FailTruth ==
  ASSUME HoldInv, ReplyInv, ReplyInv', TruthInv, NEW t \in Client,
         NEW retryable, ExecFails(t, retryable), pc[t] # "idle",
         UNCHANGED <<conn, wire, op, calls, reply, removed>>
  PROVE  TruthInv'
<1>1. /\ pc \in [Client -> Place] /\ attempts \in [Client -> Nat]
      /\ outcome \in [Client -> {"none", "ok", "retry", "error"}]
      /\ removed \in [Client -> BOOLEAN] /\ calls[t] \in Nat /\ TruthOK(t)
  BY DEF HoldInv, ReplyInv, WireTyped, TruthInv
<1>2. /\ pc'[t] = "drop" /\ outcome'[t] \in {"retry", "error"}
      /\ outcome'[t] = "retry" => attempts'[t] = attempts[t] + 1
      /\ attempts' \in [Client -> Nat]
      /\ \A u \in Client \ {t} :
           pc'[u] = pc[u] /\ outcome'[u] = outcome[u] /\ attempts'[u] = attempts[u]
  BY <1>1 DEF ExecFails, Goto
<1>3. TruthOK(t)'
  BY <1>1, <1>2 DEF TruthOK, First
<1>4. \A d \in Conn : Sent(d)' = Sent(d)
  BY DEF Sent
<1> QED
  BY <1>1, <1>2, <1>3, <1>4, ThreadTruth

(* The command is written. *)
LEMMA WriteTruth ==
  ASSUME HoldInv, ReplyInv, ReplyInv', TruthInv, NEW t \in Client, ExecWrite(t)
  PROVE  TruthInv'
<1> DEFINE c == conn[t]
<1>1. /\ UNCHANGED <<conn, op, calls, reply, removed>>
      /\ pc[t] = "write" /\ pc[t] \in Holding /\ pc[t] # "idle"
  BY DEF ExecWrite, Holding
<1>2. CASE UNCHANGED wire /\ \E kind \in IoErrorKind :
             ExecFails(t, is_retryable_write_error_kind(kind))
  BY <1>1, <1>2, FailTruth
<1>3. CASE /\ wire' = [wire EXCEPT
                         ![c].inbox = IF wire[c].open THEN Append(@, Command(t)) ELSE @]
           /\ Goto(t, "read") /\ UNCHANGED <<outcome, attempts>>
  <2>1. c \in Conn /\ wire[c] \in Socket /\ Clean(c) /\ Command(t) \in Message
        /\ wire \in [Conn -> Socket]
    BY <1>1, Own DEF ReplyInv, WireTyped, ThreadOK, Command, Message
  <2> DEFINE box == IF wire[c].open THEN Append(wire[c].inbox, Command(t))
                                    ELSE wire[c].inbox
  <2>2. box \in {<<>>, <<Command(t)>>} /\ wire'[c].inbox = box
    BY <1>3, <2>1 DEF Clean, Socket
  <2>3. /\ \A d \in Conn \ {c} : wire'[d] = wire[d]
        /\ wire'[c].outbox = <<>>
    BY <1>3, <2>1 DEF Clean, Socket
  <2> HIDE DEF box
  <2>4. \A d \in Conn : Sent(d)' \subseteq IF d = c THEN {Command(t)} ELSE Sent(d)
    BY <2>2, <2>3 DEF Sent
  <2>5. Command(t).client = t /\ Command(t).no = calls'[t]
    BY <1>1 DEF Command
  <2>6. \A d \in Conn :
          Sent(d)' \subseteq Sent(d) \cup {m \in Message : m.client = t /\ m.no = calls'[t]}
    BY <2>1, <2>4, <2>5
  <2>7. /\ pc'[t] = "read" /\ \A u \in Client \ {t} : pc'[u] = pc[u]
    BY <1>3 DEF Goto, HoldInv
  <2>8. TruthOK(t)'
    <3>1. TruthOK(t) /\ outcome[t] # "ok"
      BY <1>1 DEF TruthInv, TruthOK
    <3>2. attempts[t] = 0 => First(t)
      BY <1>1 DEF First
    <3>3. \A d \in Conn \ {c} : Mine(t, d)' => Mine(t, d)
      BY <1>1, <2>4 DEF Mine
    <3>4. 1..Len(wire'[c].outbox) = {}
      BY <2>3
    <3>5. First(t)' => \A d \in Conn : Mine(t, d)' => d = c
      BY <1>1, <1>3, <3>1, <3>2, <3>3 DEF TruthOK, First
    <3>6. attempts[t] = 0 => ~removed[t]
      BY <1>1, <3>1, <3>2 DEF TruthOK
    <3> QED
      BY <1>1, <1>3, <2>7, <3>1, <3>4, <3>5, <3>6 DEF TruthOK
  <2>9. \A u \in Client \ {t} : conn[u] # NoConn => wire'[conn[u]] = wire[conn[u]]
    BY <1>1, <2>3, OwnWire
  <2>10. attempts \in [Client -> Nat] /\ removed \in [Client -> BOOLEAN] /\ calls[t] \in Nat
    BY DEF TruthInv, ReplyInv, WireTyped
  <2> QED
    BY <1>1, <1>3, <2>6, <2>7, <2>8, <2>9, <2>10, ThreadTruth
<1> QED
  BY <1>2, <1>3 DEF ExecWrite

(* The reply is read. *)
LEMMA ReadTruth ==
  ASSUME HoldInv, ReplyInv, ReplyInv', TruthInv, NEW t \in Client, ExecRead(t)
  PROVE  TruthInv'
<1> DEFINE c == conn[t]
           w == wire[c]
<1>1. /\ UNCHANGED <<conn, op, calls, removed>>
      /\ pc[t] = "read" /\ pc[t] \in Holding /\ pc[t] # "idle"
  BY DEF ExecRead, Holding
<1>2. CASE /\ UNCHANGED <<reply, wire>>
           /\ \E err, none : ExecFails(t, classify_read_error(err, none))
  BY <1>1, <1>2, FailTruth
<1>3. CASE /\ w.outbox # <<>>
           /\ reply' = [reply EXCEPT ![t] = Head(w.outbox)]
           /\ wire' = [wire EXCEPT ![c].outbox = Tail(@)]
           /\ outcome' = [outcome EXCEPT ![t] = "ok"]
           /\ Goto(t, "drop") /\ UNCHANGED attempts
  <2>1. c \in Conn /\ w \in Socket /\ Awaits(t) /\ wire \in [Conn -> Socket]
        /\ TruthOK(t)
    BY <1>1, Own DEF ReplyInv, WireTyped, ThreadOK, TruthInv
  <2>2. w.inbox = <<>> /\ w.outbox \in Seq(Answer) /\ 1 \in 1..Len(w.outbox)
        /\ Head(w.outbox) = w.outbox[1]
    BY <1>3, <2>1 DEF Awaits, Clean, Socket
  <2>3. /\ wire'[c].inbox = <<>>
        /\ \A d \in Conn \ {c} : wire'[d] = wire[d]
    BY <1>3, <2>1, <2>2 DEF Socket
  <2>4. \A d \in Conn : Sent(d)' = Sent(d)
    BY <2>2, <2>3 DEF Sent
  <2>5. /\ reply'[t] = w.outbox[1] /\ outcome'[t] = "ok" /\ pc'[t] = "drop"
        /\ \A u \in Client \ {t} :
             pc'[u] = pc[u] /\ reply'[u] = reply[u] /\ outcome'[u] = outcome[u]
    BY <1>3, <2>2 DEF Goto, HoldInv, ReplyInv, WireTyped
  <2>6. op[t] = "delete" => Honest(t, reply'[t].hit)
    BY <1>1, <2>1, <2>2, <2>5 DEF TruthOK
  <2>7. First(t)' => \A d \in Conn : ~Mine(t, d)'
    <3>1. Sent(c) = {}
      BY <2>2 DEF Sent
    <3> QED
      BY <1>1, <1>3, <2>1, <2>4, <3>1 DEF TruthOK, First, Mine
  <2>8. TruthOK(t)'
    BY <1>1, <1>3, <2>1, <2>5, <2>6, <2>7 DEF TruthOK, Honest
  <2>9. \A u \in Client \ {t} : conn[u] # NoConn => wire'[conn[u]] = wire[conn[u]]
    BY <1>1, <2>3, OwnWire
  <2>10. attempts \in [Client -> Nat] /\ removed \in [Client -> BOOLEAN] /\ calls[t] \in Nat
    BY DEF TruthInv, ReplyInv, WireTyped
  <2> QED
    <3>1. attempts' = attempts
      BY <1>3
    <3> QED
      BY <1>1, <2>4, <2>5, <2>8, <2>9, <2>10, <3>1, ThreadTruth
<1> QED
  BY <1>2, <1>3, Zenon DEF ExecRead

(* The connection is given back or dropped. *)
LEMMA DropTruth ==
  ASSUME HoldInv, ReplyInv, ReplyInv', TruthInv, NEW t \in Client, ExecDrop(t)
  PROVE  TruthInv'
<1>1. /\ pc \in [Client -> Place] /\ conn \in [Client -> Conn \cup {NoConn}]
      /\ op \in [Client -> {"none", "set", "delete"}] /\ WireTyped
      /\ attempts \in [Client -> Nat] /\ removed \in [Client -> BOOLEAN]
      /\ calls[t] \in Nat /\ TruthOK(t)
  BY DEF HoldInv, ReplyInv, WireTyped, TruthInv
<1>2. /\ UNCHANGED <<calls, attempts, reply, outcome, removed>>
      /\ pc[t] = "drop" /\ pc[t] \in Holding /\ Take(t, NoConn)
  BY DEF ExecDrop, Holding
<1>3. \/ outcome[t] = "retry" /\ Goto(t, "acquire") /\ UNCHANGED op
      \/ Goto(t, "idle") /\ op' = [op EXCEPT ![t] = "none"]
  BY DEF ExecDrop, Return
<1>4. \A u \in Client \ {t} : pc'[u] = pc[u] /\ conn'[u] = conn[u] /\ op'[u] = op[u]
  BY <1>1, <1>2, <1>3 DEF Goto, Take
<1>5. conn[t] \in Conn
  BY <1>2, Own
<1>6. /\ \A d \in Conn : Sent(d)' = Sent(d)
      /\ \A d \in Conn \ {conn[t]} : wire'[d] = wire[d]
  <2>1. CASE UNCHANGED wire
    BY <2>1 DEF Sent
  <2>2. CASE CloseEnd(conn[t])
    BY <1>1, <1>5, <2>2, CloseEndSent
  <2> QED
    BY <2>1, <2>2 DEF ExecDrop
<1>7. TruthOK(t)'
  <2>1. CASE outcome[t] = "retry" /\ Goto(t, "acquire") /\ UNCHANGED op
    <3>1. attempts'[t] # 0 /\ pc'[t] = "acquire"
      BY <1>1, <1>2, <2>1 DEF TruthOK, Goto
    <3> QED
      BY <1>1, <1>2, <2>1, <3>1 DEF TruthOK, First
  <2>2. CASE Goto(t, "idle") /\ op' = [op EXCEPT ![t] = "none"]
    <3>1. pc'[t] = "idle" /\ op'[t] = "none"
      BY <1>1, <2>2 DEF Goto
    <3> QED
      BY <1>1, <1>2, <3>1, ReturnedTruth
  <2> QED
    BY <1>3, <2>1, <2>2
<1>8. \A u \in Client \ {t} : conn[u] # NoConn => wire'[conn[u]] = wire[conn[u]]
  BY <1>2, <1>6, OwnWire
<1> QED
  BY <1>1, <1>2, <1>4, <1>6, <1>7, <1>8, ThreadTruth

(* The server executes a command.  In a first try it is the one the thread *)
(* is waiting for, and the answer says what it did.                        *)
LEMMA ServeTruth ==
  ASSUME HoldInv, ReplyInv, TruthInv, NEW c \in Conn, Serve(c)
  PROVE  TruthInv'
<1> DEFINE m == Head(wire[c].inbox)
           did == m.op = "delete" /\ present /\ m.no = calls[m.client]
<1>1. WireTyped
  BY DEF ReplyInv
<1>2. /\ \A d \in Conn \ {c} : wire'[d] = wire[d]
      /\ wire[c].inbox # <<>> /\ m \in Message
      /\ wire'[c].inbox = Tail(wire[c].inbox)
      /\ wire'[c].outbox \in {Append(wire[c].outbox, AnswerOn(c)), wire[c].outbox}
  BY <1>1, ServeEffect
<1>3. /\ UNCHANGED <<pc, op, calls, attempts, conn, reply, outcome>>
      /\ removed' = [removed EXCEPT ![m.client] = @ \/ did]
  BY DEF Serve, local
<1>4. m.client \in Client /\ removed \in [Client -> BOOLEAN] /\ present \in BOOLEAN
  BY <1>2 DEF Message, TruthInv, ReplyInv, WireTyped
<1>5. \A d \in Conn : Sent(d)' \subseteq Sent(d)
  <2>1. ASSUME NEW d \in Conn PROVE Sent(d)' \subseteq Sent(d)
    <3>1. \/ wire'[d].inbox \in {wire[d].inbox, <<>>}
          \/ wire[d].inbox # <<>> /\ wire'[d].inbox = Tail(wire[d].inbox)
      BY <1>2
    <3> QED
      BY <1>1, <3>1, SentLess
  <2> QED
    BY <2>1
<1>6. m \in Sent(c)
  <2>1. wire[c].inbox \in Seq(Message)
    BY <1>1 DEF WireTyped, Socket
  <2>2. 1 \in 1..Len(wire[c].inbox) /\ m = wire[c].inbox[1]
    BY <1>2, <2>1
  <2> QED
    BY <2>2 DEF Sent
<1> HIDE DEF m
<1>7. Past'
  BY <1>3, <1>5 DEF TruthInv, Past
<1>8. /\ removed' \in [Client -> BOOLEAN]
      /\ \A u \in Client : removed[u] => removed'[u]
  BY <1>3, <1>4
<1>9. ASSUME NEW u \in Client, ~Mine(u, c) PROVE removed'[u] = removed[u]
  <2>1. CASE m.client # u
    BY <1>3, <1>4, <2>1
  <2>2. CASE m.client = u
    <3>1. ~did
      BY <1>6, <1>9, <2>2 DEF Mine
    <3>2. removed'[u] = (removed[u] \/ did)
      BY <1>3, <1>4, <2>2
    <3> QED
      BY <1>4, <3>1, <3>2
  <2> QED
    BY <2>1, <2>2
<1>10. ASSUME NEW u \in Client PROVE TruthOK(u)'
  <2>1. TruthOK(u) /\ (First(u)' <=> First(u))
    BY <1>3 DEF TruthInv, First
  <2>2. \A d \in Conn : Mine(u, d)' => Mine(u, d)
    BY <1>3, <1>5 DEF Mine
  <2>3. ASSUME First(u), pc[u] # "read" PROVE removed'[u] = removed[u]
    BY <1>9, <2>1, <2>3 DEF TruthOK
  <2>4. ASSUME NEW hit \in BOOLEAN, Honest(u, hit),
               attempts[u] = 0 => removed'[u] = removed[u]
        PROVE  Honest(u, hit)'
    BY <1>3, <1>8, <2>4 DEF Honest
  <2>5. ASSUME op[u] = "delete", outcome[u] = "ok" PROVE Honest(u, reply[u].hit)'
    <3>1. pc[u] = "drop" /\ Honest(u, reply[u].hit)
      BY <2>1, <2>5 DEF TruthOK
    <3>2. attempts[u] = 0 => First(u)
      BY <2>5, <3>1 DEF First
    <3>3. attempts[u] = 0 => removed'[u] = removed[u]
      BY <2>3, <3>1, <3>2
    <3> QED
      BY <1>3, <1>8, <3>1, <3>3 DEF Honest
  <2>6. ASSUME pc[u] = "read"
        PROVE  /\ attempts[u] = 0 /\ wire'[conn[u]].inbox # <<>> => ~removed'[u]
               /\ op[u] = "delete" =>
                    \A i \in 1..Len(wire'[conn[u]].outbox) :
                      /\ wire'[conn[u]].outbox[i].hit => removed'[u]
                      /\ attempts[u] = 0 => wire'[conn[u]].outbox[i].hit = removed'[u]
    <3>1. conn[u] \in Conn /\ Awaits(u)
      BY <2>6, Own DEF ReplyInv, ThreadOK, Holding
    <3>2. CASE conn[u] # c
      <4>1. wire'[conn[u]] = wire[conn[u]]
        BY <1>2, <3>1, <3>2
      <4>2. attempts[u] = 0 => removed'[u] = removed[u]
        <5>1. attempts[u] = 0 => First(u)
          BY <2>6 DEF First
        <5> QED
          BY <1>9, <2>1, <3>2, <5>1 DEF TruthOK
      <4>3. attempts[u] = 0 /\ wire[conn[u]].inbox # <<>> => ~removed[u]
        BY <2>1, <2>6 DEF TruthOK
      <4>4. op[u] = "delete" => \A i \in 1..Len(wire[conn[u]].outbox) :
               Honest(u, wire[conn[u]].outbox[i].hit)
        BY <2>1, <2>6 DEF TruthOK
      <4> QED
        BY <1>8, <4>1, <4>2, <4>3, <4>4 DEF Honest
    <3>3. CASE conn[u] = c
      <4>1. wire[c].inbox = <<Command(u)>> /\ wire[c].outbox = <<>>
        BY <1>2, <3>1, <3>3 DEF Awaits, Clean
      <4>2. m = Command(u) /\ wire'[c].inbox = <<>>
        BY <1>2, <4>1 DEF m
      <4>3. m.client = u /\ m.no = calls[u] /\ m.op = op[u]
        BY <4>2 DEF Command
      <4>4. AnswerOn(c).hit = present
        BY DEF AnswerOn
      <4>5. \A i \in 1..Len(wire'[c].outbox) : wire'[c].outbox[i].hit = present
        BY <1>2, <4>1, <4>4
      <4>6. op[u] = "delete" => removed'[u] = (removed[u] \/ present)
        BY <1>3, <1>4, <4>3
      <4>7. attempts[u] = 0 => ~removed[u]
        BY <2>1, <2>6, <3>3, <4>1 DEF TruthOK
      <4>8. op[u] = "delete" => /\ present => removed'[u]
                                /\ attempts[u] = 0 => present = removed'[u]
        BY <1>4, <1>8, <4>6, <4>7
      <4> QED
        BY <3>3, <4>2, <4>5, <4>8
    <3> QED
      BY <3>2, <3>3
  <2>7. First(u) /\ pc[u] \notin {"read", "drop"} => ~removed'[u]
    BY <2>1, <2>3 DEF TruthOK
  <2> QED
    BY <1>3, <2>1, <2>2, <2>5, <2>6, <2>7 DEF TruthOK, Honest
<1> QED
  BY <1>3, <1>7, <1>8, <1>10 DEF TruthInv

(* The peer closes: less is under way than before. *)
LEMMA CloseTruth ==
  ASSUME HoldInv, ReplyInv, TruthInv, NEW c \in Conn, Close(c)
  PROVE  TruthInv'
<1>1. WireTyped
  BY DEF ReplyInv
<1>2. /\ \A d \in Conn \ {c} : wire'[d] = wire[d]
      /\ wire'[c].inbox = <<>> /\ wire'[c].outbox \in {wire[c].outbox, <<>>}
  BY <1>1, CloseEffect
<1>3. UNCHANGED <<pc, op, calls, attempts, conn, reply, outcome, removed>>
  BY DEF Close, local
<1>4. \A d \in Conn : Sent(d)' \subseteq Sent(d)
  <2>1. ASSUME NEW d \in Conn PROVE Sent(d)' \subseteq Sent(d)
    BY <1>1, <1>2, SentLess
  <2> QED
    BY <2>1
<1>5. Past'
  BY <1>3, <1>4 DEF TruthInv, Past
<1>6. ASSUME NEW u \in Client PROVE TruthOK(u)'
  <2>1. TruthOK(u) /\ (First(u)' <=> First(u))
    BY <1>3 DEF TruthInv, First
  <2>2. \A d \in Conn : Mine(u, d)' => Mine(u, d)
    BY <1>3, <1>4 DEF Mine
  <2>3. ASSUME pc[u] = "read"
        PROVE  /\ wire'[conn[u]].inbox # <<>> => wire[conn[u]].inbox # <<>>
               /\ \A i \in 1..Len(wire'[conn[u]].outbox) :
                    /\ i \in 1..Len(wire[conn[u]].outbox)
                    /\ wire'[conn[u]].outbox[i] = wire[conn[u]].outbox[i]
    <3>1. conn[u] \in Conn
      BY <2>3, Own DEF Holding
    <3>2. CASE wire'[conn[u]] = wire[conn[u]]
      BY <3>2
    <3>3. CASE wire'[conn[u]].inbox = <<>> /\ wire'[conn[u]].outbox = wire[conn[u]].outbox
      BY <3>3
    <3>4. CASE wire'[conn[u]].inbox = <<>> /\ wire'[conn[u]].outbox = <<>>
      BY <3>4
    <3> QED
      BY <1>2, <3>1, <3>2, <3>3, <3>4
  <2> QED
    BY <1>3, <2>1, <2>2, <2>3 DEF TruthOK, Honest
<1> QED
  BY <1>3, <1>5, <1>6 DEF TruthInv

(* Every step keeps the answers true. *)
LEMMA TruthStep == HoldInv /\ ReplyInv /\ ReplyInv' /\ TruthInv /\ [Next]_vars => TruthInv'
<1> SUFFICES ASSUME HoldInv, ReplyInv, ReplyInv', TruthInv, [Next]_vars PROVE TruthInv'
  OBVIOUS
<1>1. CASE Done \/ UNCHANGED vars
  BY <1>1 DEF Done, vars, TruthInv, Past, TruthOK, First, Honest, Mine, Sent
<1>2. CASE Next
  BY <1>1, <1>2, CallerTruth, DiscardTruth, ConnectTruth, WriteTruth, ReadTruth,
     DropTruth, ServeTruth, CloseTruth DEF Next, Step
<1> QED BY <1>1, <1>2

(* delete never claims a removal it did not make, and a call that was not  *)
(* retried reports exactly what it did: the first attempt is the only      *)
(* carrier of its command, and only a connection whose reply was read is   *)
(* used again.                                                             *)
THEOREM DeleteReportsTruth == Spec => []DeleteTruthful
<1>1. TruthInv => DeleteTruthful
  BY DEF TruthInv, TruthOK, Honest, DeleteTruthful
<1> QED
  BY HoldInit, HoldStep, ReplyInit, ReplyStep, TruthInit, TruthStep, <1>1, PTL DEF Spec

=============================================================================
