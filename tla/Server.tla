------------------------------- MODULE Server -------------------------------
(***************************************************************************)
(* The TCP server (hkv-server/src/server.rs): the accept loop with its     *)
(* JoinSet of connection tasks, shutdown with a bounded drain, and the     *)
(* task that reads, parses, executes and answers the requests of one       *)
(* connection, counting them in Metrics.                                   *)
(*                                                                         *)
(* A task runs from one `.await` to the next in one step; an abort takes   *)
(* effect only at an await.  A request is its number on its connection and *)
(* how it ends: "good" is answered, "bad" is answered with an error, the   *)
(* bytes of "garbage" are a protocol error, the handler of "fatal" panics, *)
(* as `Instant + Duration` in the engine does on overflow, and the parser  *)
(* itself panics on "oversized", a length that does not fit (RespWire).    *)
(* What the commands do is MemoryEngine's subject.  The peers, the         *)
(* listener's queue and the signal are outside the server.                 *)
(***************************************************************************)
EXTENDS Integers, Sequences, FiniteSets

CONSTANTS
  Conn,         \* the connections peers make
  Kinds,        \* the kinds of requests each peer sends
  MaxRequests   \* bound: requests sent on one connection

Kind == {"good", "bad", "garbage", "fatal", "oversized"}

ASSUME ServerAssumption ==
  /\ IsFiniteSet(Conn)
  /\ Kinds \in [Conn -> SUBSET Kind]
  /\ MaxRequests \in Nat

VARIABLES
  serve,     \* the serve loop: "accepting", "draining", "aborting" or how it ended
  signal,    \* the shutdown future is ready
  joinset,   \* connections whose task has not been reaped
  abort,     \* connections whose task has been told to abort
  expired,   \* the drain timeout fired
  pc,        \* each task: "none", "queued", "read", "parse", "write", "done"
  fate,      \* each task: "none", "running", or how it ended
  peer,      \* each peer's end: "open", "closed" or "reset"
  sent,      \* how many requests the peer has sent
  inbound,   \* requests on their way to the task
  buffer,    \* requests read and not yet parsed
  current,   \* the request being served
  executed,  \* the numbers of the commands run
  replies,   \* the numbers of the requests answered
  requests_total, errors_total, inflight, samples   \* Metrics

metrics == <<requests_total, errors_total, inflight, samples>>
loop == <<serve, signal, joinset, abort, expired>>
task == <<pc, fate, buffer, current, executed, replies>>
network == <<peer, sent, inbound>>
vars == <<serve, signal, joinset, abort, expired, pc, fate, peer, sent, inbound,
          buffer, current, executed, replies,
          requests_total, errors_total, inflight, samples>>

NoRequest == [no |-> 0, kind |-> "good"]
Returned == {"ok", "error", "panic"}

Init ==
  /\ serve = "accepting"
  /\ signal = FALSE
  /\ joinset = {}
  /\ abort = {}
  /\ expired = FALSE
  /\ pc = [c \in Conn |-> "none"]
  /\ fate = [c \in Conn |-> "none"]
  /\ peer = [c \in Conn |-> "open"]
  /\ sent = [c \in Conn |-> 0]
  /\ inbound = [c \in Conn |-> <<>>]
  /\ buffer = [c \in Conn |-> <<>>]
  /\ current = [c \in Conn |-> NoRequest]
  /\ executed = [c \in Conn |-> <<>>]
  /\ replies = [c \in Conn |-> <<>>]
  /\ requests_total = 0
  /\ errors_total = 0
  /\ inflight = 0
  /\ samples = 0

-----------------------------------------------------------------------------
(* Metrics. *)

record_request_start ==
  /\ requests_total' = requests_total + 1
  /\ inflight' = inflight + 1

record_request_end ==
  /\ inflight' = inflight - 1
  /\ samples' = samples + 1

-----------------------------------------------------------------------------
(* The task of a connection. *)

Goto(c, place) == pc' = [pc EXCEPT ![c] = place]
End(c, how) == Goto(c, "done") /\ fate' = [fate EXCEPT ![c] = how]

(* read_buf: some of the bytes under way, the end of the stream, or an     *)
(* error.                                                                  *)
Read(c) ==
  /\ pc[c] = "read" /\ fate[c] = "running"
  /\ \/ \E n \in 1..Len(inbound[c]) :
          /\ buffer' = [buffer EXCEPT ![c] = @ \o SubSeq(inbound[c], 1, n)]
          /\ inbound' = [inbound EXCEPT ![c] = SubSeq(@, n + 1, Len(@))]
          /\ Goto(c, "parse")
          /\ UNCHANGED fate
     \/ /\ peer[c] = "closed" /\ inbound[c] = <<>>
        /\ End(c, "ok")
        /\ UNCHANGED <<buffer, inbound>>
     \/ /\ peer[c] = "reset"
        /\ End(c, "error")
        /\ UNCHANGED <<buffer, inbound>>
  /\ UNCHANGED <<loop, current, executed, replies, peer, sent, metrics>>

(* The parser needs more bytes; in a release build so it thinks also when  *)
(* it has an oversized length and nothing behind it, as the sum it waits   *)
(* for has wrapped.                                                        *)
ParseNone(c) ==
  /\ pc[c] = "parse"
  /\ buffer[c] = <<>> \/ (Len(buffer[c]) = 1 /\ buffer[c][1].kind = "oversized")
  /\ Goto(c, "read")
  /\ UNCHANGED <<loop, fate, buffer, current, executed, replies, network, metrics>>

(* The parser panics and the task unwinds, before anything is counted. *)
ParsePanics(c) ==
  /\ pc[c] = "parse"
  /\ buffer[c] # <<>> /\ Head(buffer[c]).kind = "oversized"
  /\ End(c, "panic")
  /\ UNCHANGED <<loop, buffer, current, executed, replies, network, metrics>>

(* Mutant of Consume: the parsed bytes stay in the buffer. *)
Consume_Not(c) == UNCHANGED buffer

(* The parsed request leaves the buffer. *)
Consume(c) == buffer' = [buffer EXCEPT ![c] = Tail(@)]

(* A request is parsed, counted and dispatched, up to the write of its     *)
(* answer; a panic ends the task in the middle.                            *)
Dispatch(c) ==
  LET r == Head(buffer[c]) IN
  /\ pc[c] = "parse"
  /\ buffer[c] # <<>> /\ r.kind \notin {"garbage", "oversized"}
  /\ Consume(c)
  /\ record_request_start
  /\ current' = [current EXCEPT ![c] = r]
  /\ Goto(c, "write")
  /\ \/ /\ r.kind = "fatal"
        /\ fate' = [fate EXCEPT ![c] = "panic"]
        /\ UNCHANGED executed
     \/ /\ r.kind # "fatal"
        /\ executed' = [executed EXCEPT ![c] = Append(@, r.no)]
        /\ UNCHANGED fate
  /\ UNCHANGED <<loop, replies, network, errors_total, samples>>

(* A protocol error is answered too, and counted as a request. *)
ProtocolError(c) ==
  LET r == Head(buffer[c]) IN
  /\ pc[c] = "parse"
  /\ buffer[c] # <<>> /\ r.kind = "garbage"
  /\ Consume(c)
  /\ record_request_start
  /\ current' = [current EXCEPT ![c] = r]
  /\ Goto(c, "write")
  /\ UNCHANGED <<loop, fate, executed, replies, network, errors_total, samples>>

(* Mutant of finish_tracked_request: a failed write skips the bookkeeping. *)
finish_tracked_request_Early(c, delivered) ==
  /\ errors_total' = errors_total + IF current[c].kind = "good" THEN 0 ELSE 1
  /\ IF delivered THEN record_request_end ELSE UNCHANGED <<inflight, samples>>
  /\ UNCHANGED requests_total

(* finish_tracked_request counts whether or not the answer was delivered. *)
finish_tracked_request(c, delivered) ==
  /\ errors_total' = errors_total + IF current[c].kind = "good" THEN 0 ELSE 1
  /\ record_request_end
  /\ UNCHANGED requests_total

(* write_all ends.  It can fail once the peer has gone; the task goes on   *)
(* with the next request, or ends after a failure or a protocol error.     *)
WriteDone(c) ==
  /\ pc[c] = "write" /\ fate[c] = "running"
  /\ \E delivered \in BOOLEAN :
       /\ delivered \/ peer[c] # "open"
       /\ peer[c] = "reset" => ~delivered
       /\ finish_tracked_request(c, delivered)
       /\ replies' = [replies EXCEPT
                        ![c] = IF delivered THEN Append(@, current[c].no) ELSE @]
       /\ \/ ~delivered /\ End(c, "error")
          \/ delivered /\ current[c].kind = "garbage" /\ End(c, "ok")
          \/ delivered /\ current[c].kind # "garbage" /\ Goto(c, "parse") /\ UNCHANGED fate
  /\ UNCHANGED <<loop, buffer, current, executed, network>>

(* The runtime drops an aborted task at an await. *)
Cancel(c) ==
  /\ c \in abort
  /\ pc[c] \in {"read", "write"} /\ fate[c] = "running"
  /\ fate' = [fate EXCEPT ![c] = "cancelled"]
  /\ UNCHANGED <<loop, pc, buffer, current, executed, replies, network, metrics>>

-----------------------------------------------------------------------------
(* The serve loop. *)

(* A connection of the queue is accepted and its task spawned. *)
Accept(c) ==
  /\ serve = "accepting"
  /\ pc[c] = "queued"
  /\ Goto(c, "read")
  /\ fate' = [fate EXCEPT ![c] = "running"]
  /\ joinset' = joinset \cup {c}
  /\ UNCHANGED <<serve, signal, abort, expired, buffer, current, executed,
                 replies, network, metrics>>

(* serve returns without having joined its tasks: the JoinSet is dropped,  *)
(* which aborts them, and so is the listener with its queue.               *)
Abandon(how) ==
  /\ serve' = how
  /\ abort' = abort \cup joinset
  /\ joinset' = {}

DropListener == pc' = [c \in Conn |-> IF pc[c] = "queued" THEN "done" ELSE pc[c]]

(* accept or configure_accepted_stream fails and `?` leaves serve. *)
AcceptFails ==
  /\ serve = "accepting"
  /\ Abandon("error")
  /\ DropListener
  /\ UNCHANGED <<signal, expired, fate, buffer, current, executed, replies,
                 network, metrics>>

(* The shutdown branch: break, drop(listener). *)
Shutdown ==
  /\ serve = "accepting"
  /\ signal
  /\ serve' = "draining"
  /\ DropListener
  /\ UNCHANGED <<signal, joinset, abort, expired, fate, buffer, current,
                 executed, replies, network, metrics>>

(* reap_connection_task resumes the panic of a task. *)
Unwinds(c) == fate[c] = "panic"

(* join_next, in the accept loop, in the drain or after the abort. *)
Reap(c) ==
  /\ serve \notin Returned
  /\ c \in joinset
  /\ fate[c] # "running"
  /\ IF Unwinds(c)
     THEN Abandon("panic") /\ DropListener
     ELSE joinset' = joinset \ {c} /\ UNCHANGED <<serve, abort, pc>>
  /\ UNCHANGED <<signal, expired, fate, buffer, current, executed, replies,
                 network, metrics>>

DrainDone ==
  /\ serve = "draining"
  /\ joinset = {}
  /\ serve' = "ok"
  /\ UNCHANGED <<signal, joinset, abort, expired, task, network, metrics>>

(* Mutant of DrainTimeout: the drain has no bound. *)
DrainTimeout_Never == FALSE /\ UNCHANGED vars

(* The grace period is over: abort_all. *)
DrainTimeout ==
  /\ serve = "draining"
  /\ joinset # {}
  /\ expired' = TRUE
  /\ serve' = "aborting"
  /\ abort' = joinset
  /\ UNCHANGED <<signal, joinset, task, network, metrics>>

(* Mutant of AbortDone: serve returns without joining what it aborted. *)
AbortDone_NoJoin ==
  /\ serve = "aborting"
  /\ serve' = "ok"
  /\ UNCHANGED <<signal, joinset, abort, expired, task, network, metrics>>

AbortDone ==
  /\ serve = "aborting"
  /\ joinset = {}
  /\ serve' = "ok"
  /\ UNCHANGED <<signal, joinset, abort, expired, task, network, metrics>>

-----------------------------------------------------------------------------
(* Outside the server. *)

Connect(c) ==
  /\ serve = "accepting"
  /\ pc[c] = "none"
  /\ Goto(c, "queued")
  /\ UNCHANGED <<loop, fate, buffer, current, executed, replies, network, metrics>>

Send(c) ==
  /\ pc[c] \notin {"none", "done"}
  /\ peer[c] = "open"
  /\ sent[c] < MaxRequests
  /\ sent' = [sent EXCEPT ![c] = @ + 1]
  /\ \E k \in Kinds[c] :
       inbound' = [inbound EXCEPT ![c] = Append(@, [no |-> sent[c] + 1, kind |-> k])]
  /\ UNCHANGED <<loop, task, peer, metrics>>

(* The peer closes its end, or resets: what is under way is then lost. *)
Leave(c) ==
  /\ pc[c] # "none"
  /\ peer[c] = "open"
  /\ \E how \in {"closed", "reset"} :
       /\ peer' = [peer EXCEPT ![c] = how]
       /\ inbound' = [inbound EXCEPT ![c] = IF how = "reset" THEN <<>> ELSE @]
  /\ UNCHANGED <<loop, task, sent, metrics>>

Signal ==
  /\ ~signal
  /\ signal' = TRUE
  /\ UNCHANGED <<serve, joinset, abort, expired, task, network, metrics>>

-----------------------------------------------------------------------------
Serve ==
  \/ AcceptFails \/ Shutdown \/ DrainDone \/ DrainTimeout \/ AbortDone
  \/ \E c \in Conn : Accept(c) \/ Reap(c)

Work(c) ==
  \/ Read(c) \/ ParseNone(c) \/ ParsePanics(c) \/ Dispatch(c) \/ ProtocolError(c)
  \/ WriteDone(c)

Outside == Signal \/ \E c \in Conn : Connect(c) \/ Send(c) \/ Leave(c)

Terminated ==
  /\ serve \in Returned
  /\ \A c \in Conn : fate[c] # "running"
  /\ UNCHANGED vars

Next == Serve \/ Outside \/ Terminated \/ \E c \in Conn : Work(c) \/ Cancel(c)

Spec == Init /\ [][Next]_vars

(* The loop's select! takes a branch that stays ready, the timer fires, a  *)
(* task runs on from an await to the next, and the runtime drops an        *)
(* aborted task (tokio's budget makes a busy one yield).  Nothing is asked *)
(* of the peers: a write may block for ever.                               *)
Fairness ==
  /\ WF_vars(Shutdown)
  /\ WF_vars(DrainDone)
  /\ WF_vars(DrainTimeout)
  /\ WF_vars(AbortDone)
  /\ \A c \in Conn :
       /\ WF_vars(Reap(c))
       /\ WF_vars(ParseNone(c) \/ ParsePanics(c) \/ Dispatch(c) \/ ProtocolError(c))
       /\ SF_vars(Cancel(c))

FairSpec == Spec /\ Fairness

-----------------------------------------------------------------------------
(* Properties.                                                             *)

(* Every request that was started is in flight or has been measured, also  *)
(* when its answer could not be written; in flight are exactly the         *)
(* requests whose write is under way or was cut off by an abort or panic.  *)
RequestsAccounted ==
  /\ requests_total = inflight + samples
  /\ inflight = Cardinality({c \in Conn : pc[c] = "write"})

(* A pipelined connection is answered in the order of its requests, each   *)
(* once; and when it ends, at most one command has run without its answer  *)
(* having been written.                                                    *)
RepliesInOrder ==
  \A c \in Conn :
    /\ replies[c] = [i \in 1..Len(replies[c]) |-> i]
    /\ executed[c] = [i \in 1..Len(executed[c]) |-> i]
    /\ Len(executed[c]) <= Len(replies[c]) + 1

(* An orderly return, serve = Ok, leaves no connection task running and    *)
(* has swallowed the panic of none; and a task is cancelled only when the  *)
(* grace period is over, or serve was cut short by an error or a panic.    *)
OrderlyShutdown ==
  /\ serve = "ok" => \A c \in Conn : fate[c] \notin {"running", "panic"}
  /\ \A c \in Conn :
       fate[c] = "cancelled" => expired \/ serve \in {"error", "panic"}

(* Shutdown completes, whatever the peers do or fail to do. *)
ShutdownCompletes == signal ~> serve \in Returned

=============================================================================
