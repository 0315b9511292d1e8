------------------------------ MODULE KVClient ------------------------------
(***************************************************************************)
(* The synchronous client (hkv-client/src/client.rs over pool.rs): threads *)
(* share a KVClient, and each call acquires a connection, sends a command, *)
(* reads the reply and gives the connection back, retrying on failures     *)
(* that ExecError calls retryable.                                         *)
(*                                                                         *)
(* The server and the network are outside the client and are modelled from *)
(* how it uses them: a connection carries commands to the server, which    *)
(* executes them on a store of one key and answers in order.  The peer may *)
(* close a connection at any time, before or after it executed a command,  *)
(* and a reply on its way may be lost.  What the client has sent can still *)
(* be executed after the client gave up on the connection.                 *)
(***************************************************************************)
EXTENDS ConnectionPool, FiniteSets

CONSTANTS
  Client,      \* the threads sharing the KVClient
  Conn,        \* sockets; one is reused when nothing of it is left
  NoConn,      \* no connection
  MaxRetries,  \* config.max_retries
  Timeouts,    \* is config.read_timeout set
  MaxCalls     \* bound: calls made by each thread

ASSUME ClientAssumption ==
  /\ IsFiniteSet(Client)
  /\ NoConn \notin Conn
  /\ MaxRetries \in Nat
  /\ Timeouts \in BOOLEAN
  /\ MaxCalls \in Nat

VARIABLES
  pc,        \* where each thread is in exec_with_retry
  op,        \* its call: a command that makes the key present or removes it
  calls,     \* how many calls it has begun
  attempts,  \* the retries of the present call
  conn,      \* the connection it holds
  reply,     \* the reply it has read
  outcome,   \* how its exec ended: "ok", "retry" or "error"
  ret,       \* what its last call returned
  wire,      \* each socket: up or not, commands under way, replies arrived
  present,   \* the server's store: is the key there
  removed    \* history: an execution of this call removed the key

pool == <<idle, total>>
network == <<wire, present, removed>>
local == <<op, calls, attempts, conn, reply, outcome, ret>>
vars == <<idle, total, pc, op, calls, attempts, conn, reply, outcome, ret,
          wire, present, removed>>

NoReply == [to |-> 0]
Idle == {idle[i] : i \in DOMAIN idle}
Held == {conn[t] : t \in Client} \ {NoConn}

Init ==
  /\ PoolInit
  /\ pc = [t \in Client |-> "idle"]
  /\ op = [t \in Client |-> "none"]
  /\ calls = [t \in Client |-> 0]
  /\ attempts = [t \in Client |-> 0]
  /\ conn = [t \in Client |-> NoConn]
  /\ reply = [t \in Client |-> NoReply]
  /\ outcome = [t \in Client |-> "none"]
  /\ ret = [t \in Client |-> "none"]
  /\ wire = [c \in Conn |-> [open |-> FALSE, inbox |-> <<>>, outbox |-> <<>>]]
  /\ present = FALSE
  /\ removed = [t \in Client |-> FALSE]

-----------------------------------------------------------------------------
Goto(t, place) == pc' = [pc EXCEPT ![t] = place]
Take(t, c) == conn' = [conn EXCEPT ![t] = c]

(* The call of thread t returns. *)
Return(t, result) ==
  /\ Goto(t, "idle")
  /\ op' = [op EXCEPT ![t] = "none"]
  /\ ret' = [ret EXCEPT ![t] = result]

(* The failures of a socket call, as far as the classifiers below tell     *)
(* them apart: ConnectionReset stands for ConnectionAborted, NotConnected  *)
(* and Interrupted too.                                                    *)
IoErrorKind == {"ConnectionRefused", "BrokenPipe", "ConnectionReset",
                "UnexpectedEof", "TimedOut", "WouldBlock", "Other"}

is_retryable_connect_error(err) ==
  err \in {"ConnectionRefused", "ConnectionReset", "TimedOut"}

is_retryable_write_error_kind(kind) ==
  kind \in {"BrokenPipe", "ConnectionReset", "UnexpectedEof", "TimedOut"}

is_retryable_read_error_kind(kind) ==
  kind \in {"ConnectionReset", "UnexpectedEof", "TimedOut"}

(* A reply of which some bytes were read is never asked for again. *)
classify_read_error(err, no_response_bytes) ==
  /\ no_response_bytes
  /\ is_retryable_read_error_kind(err) \/ err = "Protocol"

(* The client closes its end: replies are lost, commands are still there. *)
CloseEnd(c) == wire' = [wire EXCEPT ![c].open = FALSE, ![c].outbox = <<>>]

(* A retry is left for a failure of this kind. *)
MayRetry(t, retryable) == retryable /\ attempts[t] < MaxRetries

-----------------------------------------------------------------------------
(* A call begins. *)
Call(t) ==
  /\ pc[t] = "idle"
  /\ calls[t] < MaxCalls
  /\ \E o \in {"set", "delete"} : op' = [op EXCEPT ![t] = o]
  /\ calls' = [calls EXCEPT ![t] = @ + 1]
  /\ attempts' = [attempts EXCEPT ![t] = 0]
  /\ reply' = [reply EXCEPT ![t] = NoReply]
  /\ outcome' = [outcome EXCEPT ![t] = "none"]
  /\ ret' = [ret EXCEPT ![t] = "none"]
  /\ removed' = [removed EXCEPT ![t] = FALSE]
  /\ Goto(t, "acquire")
  /\ UNCHANGED <<pool, conn, wire, present>>

(* acquire: an idle connection is taken, or there is none. *)
AcquirePop(t) ==
  /\ pc[t] = "acquire"
  /\ \/ \E c \in Conn : pop_idle(c) /\ Take(t, c) /\ Goto(t, "check")
     \/ idle = <<>> /\ Goto(t, "reserve") /\ UNCHANGED <<pool, conn>>
  /\ UNCHANGED <<op, calls, attempts, reply, outcome, ret, network>>

(* is_healthy: the peer is up and no byte is waiting, or the peek was      *)
(* interrupted; and set_nonblocking did not fail.  The connection is       *)
(* looked at without the mutex.                                            *)
is_healthy(c, interrupted, failed) ==
  ~failed /\ (interrupted \/ (wire[c].open /\ wire[c].outbox = <<>>))

AcquireCheck(t) ==
  /\ pc[t] = "check"
  /\ \E interrupted, failed \in BOOLEAN :
       Goto(t, IF is_healthy(conn[t], interrupted, failed) THEN "write" ELSE "unhealthy")
  /\ UNCHANGED <<pool, local, network>>

(* An unhealthy connection gives up its slot and the loop goes on. *)
AcquireDiscard(t) ==
  /\ pc[t] = "unhealthy"
  /\ release_slot
  /\ CloseEnd(conn[t])
  /\ Take(t, NoConn)
  /\ Goto(t, "acquire")
  /\ UNCHANGED <<op, calls, attempts, reply, outcome, ret, present, removed>>

AcquireReserve(t) ==
  /\ pc[t] = "reserve"
  /\ \/ try_reserve /\ Goto(t, "connect") /\ UNCHANGED <<op, ret>>
     \/ total >= MaxTotal /\ Return(t, "exhausted") /\ UNCHANGED pool
  /\ UNCHANGED <<calls, attempts, conn, reply, outcome, network>>

(* Connection::connect: a socket of which nothing is left is opened. *)
connect(c) ==
  /\ c \notin Idle \cup Held
  /\ wire[c].inbox = <<>>
  /\ wire' = [wire EXCEPT ![c] = [open |-> TRUE, inbox |-> <<>>, outbox |-> <<>>]]

(* connect_stream: what makes Connection::connect fail. *)
ConnectError == IoErrorKind \cup {"InvalidAddress"}

AcquireConnect(t) ==
  /\ pc[t] = "connect"
  /\ \/ \E c \in Conn : connect(c) /\ Take(t, c) /\ Goto(t, "write")
     \/ \E err \in ConnectError :
          /\ Goto(t, IF MayRetry(t, is_retryable_connect_error(err))
                     THEN "no_conn_retry" ELSE "no_conn")
          /\ UNCHANGED <<wire, conn>>
  /\ UNCHANGED <<pool, op, calls, attempts, reply, outcome, ret, present, removed>>

(* The reserved slot is released, and exec_with_retry tries again or gives *)
(* up.                                                                     *)
AcquireFail(t) ==
  /\ pc[t] \in {"no_conn", "no_conn_retry"}
  /\ release_slot
  /\ IF pc[t] = "no_conn_retry"
     THEN /\ attempts' = [attempts EXCEPT ![t] = @ + 1]
          /\ Goto(t, "acquire")
          /\ UNCHANGED <<op, ret>>
     ELSE Return(t, "error") /\ UNCHANGED attempts
  /\ UNCHANGED <<calls, conn, reply, outcome, network>>

(* Mutant of ExecFails: a retry after a failed exec is not counted. *)
ExecFails_Uncounted(t, retryable) ==
  /\ Goto(t, "drop")
  /\ outcome' = [outcome EXCEPT
                   ![t] = IF MayRetry(t, retryable) THEN "retry" ELSE "error"]
  /\ UNCHANGED attempts

(* exec failed: the connection is marked invalid, and exec_with_retry      *)
(* decides whether to go round again.                                      *)
ExecFails(t, retryable) ==
  /\ Goto(t, "drop")
  /\ outcome' = [outcome EXCEPT
                   ![t] = IF MayRetry(t, retryable) THEN "retry" ELSE "error"]
  /\ attempts' = [attempts EXCEPT
                    ![t] = IF MayRetry(t, retryable) THEN @ + 1 ELSE @]

Command(t) == [client |-> t, no |-> calls[t], op |-> op[t]]

(* The command is written.  A write into a connection the peer has closed  *)
(* may still succeed; a failed write delivers no complete command.         *)
ExecWrite(t) ==
  /\ pc[t] = "write"
  /\ \/ /\ wire' = [wire EXCEPT
                      ![conn[t]].inbox =
                         IF wire[conn[t]].open THEN Append(@, Command(t)) ELSE @]
        /\ Goto(t, "read")
        /\ UNCHANGED <<outcome, attempts>>
     \/ /\ \E kind \in IoErrorKind :
             ExecFails(t, is_retryable_write_error_kind(kind))
        /\ UNCHANGED wire
  /\ UNCHANGED <<pool, op, calls, conn, reply, ret, present, removed>>

(* The reply is read.  The end of the stream is a protocol error or a      *)
(* reset, before any byte of the reply or in the middle of it; a read      *)
(* timeout, where one is set, is TimedOut or WouldBlock, depending on the  *)
(* platform.                                                               *)
ExecRead(t) ==
  LET w == wire[conn[t]] IN
  /\ pc[t] = "read"
  /\ \/ /\ w.outbox # <<>>
        /\ reply' = [reply EXCEPT ![t] = Head(w.outbox)]
        /\ wire' = [wire EXCEPT ![conn[t]].outbox = Tail(@)]
        /\ outcome' = [outcome EXCEPT ![t] = "ok"]
        /\ Goto(t, "drop")
        /\ UNCHANGED attempts
     \/ /\ \/ /\ ~w.open
              /\ \E err \in {"Protocol", "ConnectionReset"} :
                   ExecFails(t, classify_read_error(err, w.outbox = <<>>))
           \/ /\ w.open /\ Timeouts
              /\ \E err \in {"TimedOut", "WouldBlock"} :
                 \E none \in {TRUE, w.outbox = <<>>} :
                   ExecFails(t, classify_read_error(err, none))
        /\ UNCHANGED <<reply, wire>>
  /\ UNCHANGED <<pool, op, calls, conn, ret, present, removed>>

(* Mutant of Keep: a connection is given back although its exec failed. *)
Keep_Always(t) == TRUE

(* PooledConnection.valid when it is dropped. *)
Keep(t) == outcome[t] = "ok"

(* Drop of the PooledConnection, after which the call returns or retries. *)
ExecDrop(t) ==
  /\ pc[t] = "drop"
  /\ IF Keep(t) THEN return_connection(conn[t]) ELSE release_slot
  /\ IF Keep(t) /\ HasRoom THEN UNCHANGED wire ELSE CloseEnd(conn[t])
  /\ Take(t, NoConn)
  /\ IF outcome[t] = "retry"
     THEN Goto(t, "acquire") /\ UNCHANGED <<op, ret>>
     ELSE Return(t, outcome[t])
  /\ UNCHANGED <<calls, attempts, reply, outcome, present, removed>>

-----------------------------------------------------------------------------
(* The server, outside the client. *)

(* The next command of a connection is executed and answered. *)
Serve(c) ==
  LET w == wire[c]
      m == Head(w.inbox)
  IN
  /\ w.inbox # <<>>
  /\ present' = (m.op = "set")
  /\ removed' = [removed EXCEPT ![m.client] =
       @ \/ (m.op = "delete" /\ present /\ m.no = calls[m.client])]
  /\ wire' = [wire EXCEPT
                ![c].inbox = Tail(@),
                ![c].outbox = IF w.open
                              THEN Append(@, [to |-> m.no, client |-> m.client,
                                              hit |-> present])
                              ELSE @]
  /\ UNCHANGED <<pool, pc, local>>

(* The peer closes: commands not executed are lost, replies perhaps. *)
Close(c) ==
  /\ wire[c].open \/ wire[c].inbox # <<>>
  /\ \E out \in {wire[c].outbox, <<>>} :
       wire' = [wire EXCEPT ![c] = [open |-> FALSE, inbox |-> <<>>, outbox |-> out]]
  /\ UNCHANGED <<pool, pc, local, present, removed>>

-----------------------------------------------------------------------------
Step(t) ==
  \/ AcquirePop(t) \/ AcquireCheck(t) \/ AcquireDiscard(t)
  \/ AcquireReserve(t) \/ AcquireConnect(t) \/ AcquireFail(t)
  \/ ExecWrite(t) \/ ExecRead(t) \/ ExecDrop(t)

(* All calls were made and all of them have returned. *)
Done ==
  /\ \A t \in Client : pc[t] = "idle" /\ calls[t] = MaxCalls
  /\ UNCHANGED vars

Next ==
  \/ \E t \in Client : Call(t) \/ Step(t)
  \/ \E c \in Conn : Serve(c) \/ Close(c)
  \/ Done

Spec == Init /\ [][Next]_vars

(* Threads run on, and the server answers what it was sent: without a read *)
(* timeout the client relies on it.                                        *)
Fairness ==
  /\ \A t \in Client : WF_vars(Step(t))
  /\ \A c \in Conn : WF_vars(Serve(c))

FairSpec == Spec /\ Fairness

-----------------------------------------------------------------------------
(* Properties.                                                             *)

Slotted == {"check", "unhealthy", "connect", "no_conn", "no_conn_retry",
            "write", "read", "drop"}

(* The count never drifts: between any two critical sections it is the     *)
(* idle connections plus the threads that hold a slot, through every       *)
(* failed health check, failed connect, failed exec and surplus return; so *)
(* release_slot never saturates and no slot is lost for good.              *)
SlotsAccounted ==
  /\ total = Len(idle) + Cardinality({t \in Client : pc[t] \in Slotted})
  /\ total <= MaxTotal

(* A connection belongs to the pool once or to one thread. *)
ConnectionsExclusive ==
  /\ Idle \cap Held = {}
  /\ \A i, j \in DOMAIN idle : idle[i] = idle[j] => i = j
  /\ \A t, u \in Client : conn[t] # NoConn /\ conn[t] = conn[u] => t = u

(* A call that succeeds has read the reply to its own command: a late      *)
(* reply to a call that gave up is never taken for that of another call.   *)
RepliesMatch ==
  \A t \in Client :
    outcome[t] = "ok" => reply[t].client = t /\ reply[t].to = calls[t]

(* delete returns true when a key was removed.  A call that succeeded      *)
(* without a retry reports exactly what it did.  One that retried never    *)
(* claims a removal it did not make, but may deny one: its first execution *)
(* removed the key and the answer to it was lost.                          *)
DeleteTruthful ==
  \A t \in Client :
    op[t] = "delete" /\ outcome[t] = "ok" =>
      /\ reply[t].hit => removed[t]
      /\ attempts[t] = 0 => reply[t].hit = removed[t]

(* Every call returns: retries are bounded and the acquire loop cannot go  *)
(* on discarding connections for ever.                                     *)
CallsReturn == \A t \in Client : pc[t] # "idle" ~> pc[t] = "idle"

=============================================================================
