------------------------------ MODULE KVStore -------------------------------
(***************************************************************************)
(* What the engine promises its callers (hkv-engine/src/engine.rs, trait   *)
(* KVEngine): each shard is a list of entries in order of use, and a call  *)
(* takes effect in one step between its invocation and its return.         *)
(*                                                                         *)
(* There are no slots, links, heaps, tokens, byte counters or locks here.  *)
(* An entry leaves the store only because a caller deletes it, because its *)
(* deadline has passed, or because a writer that is still inside its call  *)
(* evicts it, and then it is the least recently used entry of its shard.   *)
(* An entry past its deadline is never returned to a caller who started    *)
(* after the deadline.                                                     *)
(***************************************************************************)
EXTENDS Naturals, Sequences

CONSTANTS
  Key, Value,
  Thread,      \* the callers
  NumShards,   \* the number of shards
  ShardOf,     \* the shard of each key
  Requests,    \* the calls the callers make
  Bounded,     \* TRUE when the store has a byte capacity
  MaxClock     \* bound: the last instant

None == 0
Shards == 0..(NumShards - 1)

VARIABLES
  entries,     \* for each shard its entries, least recently used first
  clock,       \* the monotonic clock
  phase,       \* "idle", "call" (invoked), "evict" (written, may evict)
  req, now,    \* the caller's request and the instant it was made
  ret          \* the caller's last result

vars == <<entries, clock, phase, req, now, ret>>

NoRequest == [op |-> "none"]
NoResult == [is |-> "none"]

Init ==
  /\ entries = [s \in Shards |-> <<>>]
  /\ clock = 1
  /\ phase = [t \in Thread |-> "idle"]
  /\ req = [t \in Thread |-> NoRequest]
  /\ now = [t \in Thread |-> None]
  /\ ret = [t \in Thread |-> NoResult]

-----------------------------------------------------------------------------
Find(list, key) == {e \in {list[i] : i \in DOMAIN list} : e.key = key}

(* The list without the entry of the key: a key has at most one. *)
Without(list, key) ==
  IF Find(list, key) = {}
  THEN list
  ELSE LET p == CHOOSE i \in DOMAIN list : list[i].key = key
       IN  [i \in 1..(Len(list) - 1) |-> list[IF i < p THEN i ELSE i + 1]]

Expired(e, instant) == e.expires_at # None /\ instant >= e.expires_at

MyShard(t) == ShardOf[req[t].key]

(* The caller's entry that has not expired at the caller's instant, if any. *)
Mine(t) ==
  {e \in Find(entries[MyShard(t)], req[t].key) : ~Expired(e, now[t])}

Return(t, result) ==
  /\ phase' = [phase EXCEPT ![t] = "idle"]
  /\ req' = [req EXCEPT ![t] = NoRequest]
  /\ now' = [now EXCEPT ![t] = None]
  /\ ret' = [ret EXCEPT ![t] = result]

(* The caller's entry leaves the store. *)
Forget(t) ==
  entries' = [entries EXCEPT ![MyShard(t)] = Without(@, req[t].key)]

(* `e` becomes the most recently used entry of the caller's shard. *)
PutLast(t, e) ==
  entries' = [entries EXCEPT ![MyShard(t)] =
                Append(Without(@, req[t].key), e)]

Serving(t, op) ==
  /\ phase[t] = "call"
  /\ req[t].op = op
  /\ UNCHANGED clock

Get(t) ==
  /\ Serving(t, "get")
  /\ \/ /\ Mine(t) = {}
        /\ Forget(t)
        /\ Return(t, [is |-> "nil"])
     \/ \E e \in Mine(t) :
          /\ PutLast(t, e)
          /\ Return(t, [is |-> "value", value |-> e.value])

Delete(t) ==
  /\ Serving(t, "delete")
  /\ Forget(t)
  /\ Return(t, [is |-> "deleted", live |-> Mine(t) # {}])

Expire(t) ==
  /\ Serving(t, "expire")
  /\ \/ /\ Mine(t) = {}
        /\ Forget(t)
        /\ Return(t, [is |-> "not_found"])
     \/ /\ Mine(t) # {}
        /\ entries' = [entries EXCEPT ![MyShard(t)] =
             [i \in DOMAIN @ |->
                IF @[i].key = req[t].key
                THEN [@[i] EXCEPT !.expires_at = now[t] + req[t].ttl]
                ELSE @[i]]]
        /\ Return(t, [is |-> "ok"])

Ttl(t) ==
  /\ Serving(t, "ttl")
  /\ \/ /\ Mine(t) = {}
        /\ Forget(t)
        /\ Return(t, [is |-> "missing"])
     \/ \E e \in Mine(t) :
          /\ UNCHANGED entries
          /\ Return(t, IF e.expires_at = None
                       THEN [is |-> "no_expiry"]
                       ELSE [is |-> "expires_in",
                             remaining |-> e.expires_at - now[t]])

(* The value and its deadline appear in one step. *)
Write(t) ==
  /\ \/ Serving(t, "set")
     \/ Serving(t, "set_with_ttl")
  /\ PutLast(t, [key |-> req[t].key, value |-> req[t].value,
                 expires_at |-> IF req[t].op = "set"
                                THEN None ELSE now[t] + req[t].ttl])
  /\ IF Bounded
     THEN /\ phase' = [phase EXCEPT ![t] = "evict"]
          /\ UNCHANGED <<req, now, ret>>
     ELSE Return(t, [is |-> "ok"])

Evict(t, s) ==
  /\ phase[t] = "evict"
  /\ entries[s] # <<>>
  /\ entries' = [entries EXCEPT ![s] = Tail(@)]
  /\ UNCHANGED <<clock, phase, req, now, ret>>

WriteReturn(t) ==
  /\ phase[t] = "evict"
  /\ Return(t, [is |-> "ok"])
  /\ UNCHANGED <<entries, clock>>

(* Expiration: any entry whose deadline has passed may go at any time. *)
Reclaim(s) ==
  /\ \E k \in Key : \E e \in Find(entries[s], k) :
       /\ Expired(e, clock)
       /\ entries' = [entries EXCEPT ![s] = Without(@, k)]
  /\ UNCHANGED <<clock, phase, req, now, ret>>

Invoke(t) ==
  /\ phase[t] = "idle"
  /\ \E r \in Requests : req' = [req EXCEPT ![t] = r]
  /\ phase' = [phase EXCEPT ![t] = "call"]
  /\ now' = [now EXCEPT ![t] = clock]
  /\ ret' = [ret EXCEPT ![t] = NoResult]
  /\ UNCHANGED <<entries, clock>>

Tick ==
  /\ clock < MaxClock
  /\ clock' = clock + 1
  /\ UNCHANGED <<entries, phase, req, now, ret>>

Next ==
  \/ Tick
  \/ \E s \in Shards : Reclaim(s)
  \/ \E t \in Thread :
       \/ Invoke(t) \/ Get(t) \/ Delete(t) \/ Expire(t) \/ Ttl(t)
       \/ Write(t) \/ WriteReturn(t)
       \/ \E s \in Shards : Evict(t, s)

Spec == Init /\ [][Next]_vars

=============================================================================
