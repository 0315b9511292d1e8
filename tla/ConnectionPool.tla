--------------------------- MODULE ConnectionPool ---------------------------
(***************************************************************************)
(* The connection pool of the synchronous client                           *)
(* (hkv-client/src/pool.rs): a queue of idle connections and a count of    *)
(* all connections, both behind one mutex.  Each operator below is one     *)
(* critical section of that mutex; the threads that call them, and what    *)
(* happens between two critical sections, are in KVClient.                 *)
(***************************************************************************)
EXTENDS Naturals, Sequences

CONSTANTS
  MaxIdle,    \* config.max_idle
  MaxTotal    \* config.max_total

ASSUME PoolAssumption == MaxIdle \in Nat /\ MaxTotal \in Nat

VARIABLES
  idle,       \* the idle connections, oldest first
  total       \* the connections counted against MaxTotal

PoolInit == idle = <<>> /\ total = 0

(* Mutant of pop_idle: the connection is lent but stays in the queue. *)
pop_idle_Peek(conn) ==
  /\ idle # <<>>
  /\ conn = Head(idle)
  /\ UNCHANGED <<idle, total>>

(* pop_idle returning Some(conn); it returns None when `idle` is empty. *)
pop_idle(conn) ==
  /\ idle # <<>>
  /\ conn = Head(idle)
  /\ idle' = Tail(idle)
  /\ UNCHANGED total

(* try_reserve returning true; it returns false at the limit. *)
try_reserve ==
  /\ total < MaxTotal
  /\ total' = total + 1
  /\ UNCHANGED idle

(* saturating_sub *)
release_slot ==
  /\ total' = IF total = 0 THEN 0 ELSE total - 1
  /\ UNCHANGED idle

(* The connection is kept when there is room for it. *)
HasRoom == Len(idle) < MaxIdle

(* Mutant of return_connection: a surplus connection keeps its slot. *)
return_connection_Leaks(conn) ==
  /\ idle' = IF HasRoom THEN Append(idle, conn) ELSE idle
  /\ UNCHANGED total

return_connection(conn) ==
  \/ HasRoom /\ idle' = Append(idle, conn) /\ UNCHANGED total
  \/ ~HasRoom /\ release_slot

=============================================================================
