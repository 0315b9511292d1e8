---------------------------- MODULE MemoryEngine ----------------------------
(***************************************************************************)
(* The sharded in-memory engine (hkv-engine/src/memory.rs): threads call   *)
(* get, set, set_with_ttl, delete, expire and ttl, a background sweeper    *)
(* removes expired entries, and writers evict while the byte counter is    *)
(* over the capacity.                                                      *)
(*                                                                         *)
(* Grain of atomicity.  A call reads the clock before it takes its shard's *)
(* lock, so invocation and critical section are separate steps.  A         *)
(* critical section is one step, unless it changes used_bytes twice: that  *)
(* counter is read by evicting threads that hold no lock, so a write that  *)
(* first drops an expired entry, and the sweeper that drops several, keep  *)
(* the lock over several steps.  evict_if_needed runs without the lock:    *)
(* each load, fetch_add, eviction and fetch_sub of it is a step.           *)
(***************************************************************************)
EXTENDS ShardInner, Integers, FiniteSetsExt

CONSTANTS
  Thread,      \* the threads that call the engine
  NumShards,   \* the shard count after normalize_shard_count
  ShardOf,     \* shard_index: the shard of each key
  KeyLen,      \* the length of each key
  ValueLen,    \* the length of each value
  MaxBytes,    \* max_bytes
  UsizeMax,    \* usize::MAX; MaxBytes = UsizeMax switches eviction off
  Requests,    \* the calls the threads make
  MaxClock,    \* bound: the last instant of the monotonic clock
  MaxToken     \* bound: no TTL or write call starts after this token

Shards == 0..(NumShards - 1)

Request ==
       [op: {"get", "delete", "ttl"}, key: Key]
  \cup [op: {"set"}, key: Key, value: Value]
  \cup [op: {"set_with_ttl"}, key: Key, value: Value, ttl: Nat]
  \cup [op: {"expire"}, key: Key, ttl: Nat]

Free == "free"
Sweeper == "sweeper"

(* What normalize_shard_count returns: a power of two, at least 1.  For    *)
(* such a count `& shard_mask` is the remainder that the model takes.      *)
IsNormalized(count) == \E k \in 0..count : count = 2^k

ASSUME ShardCountAssumption == IsNormalized(NumShards)

ASSUME EngineAssumption ==
  /\ NumShards \in Nat \ {0}
  /\ ShardOf \in [Key -> Shards]
  /\ KeyLen \in [Key -> Nat]
  /\ ValueLen \in [Value -> Nat]
  /\ UsizeMax \in Nat
  /\ MaxBytes \in 0..UsizeMax
  /\ Requests \subseteq Request
  /\ MaxClock \in Nat
  /\ MaxToken \in Nat
  /\ IsFiniteSet(Thread)
  /\ Free \notin Thread
  /\ Sweeper \notin Thread

VARIABLES
  shards,           \* the ShardInner of each shard
  lock,             \* who holds each shard's write lock
  used_bytes,       \* the global byte counter
  eviction_cursor,  \* round-robin cursor, modulo the shard count
  next_ttl_token,   \* the next TTL token
  clock,            \* the monotonic clock
  pc,               \* where each thread is in its call
  req,              \* its request
  now,              \* the instant it read before locking
  ret,              \* the result of its last call
  evict,            \* its locals in evict_if_needed
  handle,           \* ExpirationHandle: "none", "running", "stopping", "stopped"
  sweep             \* the sweeper thread: its pc, instant and shard

store == <<shards, used_bytes, next_ttl_token>>
callers == <<pc, req, now, ret>>
sweeper == <<handle, sweep>>
vars == <<shards, lock, used_bytes, eviction_cursor, next_ttl_token, clock,
          pc, req, now, ret, evict, handle, sweep>>

NoRequest == [op |-> "none"]
NoResult == [is |-> "none"]
NoEvict == [start |-> 0, offset |-> 0, size |-> 0]

Init ==
  /\ shards = [s \in Shards |-> EmptyShard]
  /\ lock = [s \in Shards |-> Free]
  /\ used_bytes = 0
  /\ eviction_cursor = 0
  /\ next_ttl_token = 1
  /\ clock = 1
  /\ pc = [t \in Thread |-> "idle"]
  /\ req = [t \in Thread |-> NoRequest]
  /\ now = [t \in Thread |-> None]
  /\ ret = [t \in Thread |-> NoResult]
  /\ evict = [t \in Thread |-> NoEvict]
  /\ handle = "none"
  /\ sweep = [pc |-> "none", now |-> None, shard |-> 0]

-----------------------------------------------------------------------------
(* AtomicUsize arithmetic wraps. *)
FetchAdd(n) == used_bytes' = (used_bytes + n) % (UsizeMax + 1)
FetchSub(n) == used_bytes' = (used_bytes - n) % (UsizeMax + 1)

entry_size(key, value) == KeyLen[key] + ValueLen[value]

(* The caller's shard, its slot there (None when the key is absent), and   *)
(* whether that entry has expired at the instant the caller read.          *)
shard_for(t) == ShardOf[req[t].key]
Inner(t) == shards[shard_for(t)]
Slot(t) == Inner(t).map[req[t].key]
Absent(t) == Slot(t) = None
Expired(t) == ~Absent(t) /\ is_expired(Inner(t).nodes[Slot(t)], now[t])
Present(t) == ~Absent(t) /\ ~Expired(t)

SetShard(s, S) == shards' = [shards EXCEPT ![s] = S]

(* remove_idx on the caller's entry, and its fetch_sub. *)
RemoveEntry(t) ==
  /\ SetShard(shard_for(t), remove_idx(Inner(t), Slot(t)))
  /\ FetchSub(Inner(t).nodes[Slot(t)].size)

Return(t, result) ==
  /\ pc' = [pc EXCEPT ![t] = "idle"]
  /\ req' = [req EXCEPT ![t] = NoRequest]
  /\ now' = [now EXCEPT ![t] = None]
  /\ ret' = [ret EXCEPT ![t] = result]

(* The write lock of the caller's shard can be taken for operation `op`. *)
Enter(t, op) ==
  /\ pc[t] = "call"
  /\ req[t].op = op
  /\ lock[shard_for(t)] = Free

-----------------------------------------------------------------------------
(* Mutant of TakeToken: the counter is read and not advanced. *)
TakeToken_LoadOnly == UNCHANGED next_ttl_token

(* next_ttl_token(): the caller takes the present token. *)
TakeToken == next_ttl_token' = next_ttl_token + 1

(* A call begins: the shard is looked up and Instant::now() is read.       *)
Call(t) ==
  /\ pc[t] = "idle"
  /\ \E r \in Requests :
       /\ r.op \in {"get", "delete", "ttl"} \/ next_ttl_token <= MaxToken
       /\ req' = [req EXCEPT ![t] = r]
  /\ pc' = [pc EXCEPT ![t] = "call"]
  /\ now' = [now EXCEPT ![t] = clock]
  /\ ret' = [ret EXCEPT ![t] = NoResult]
  /\ UNCHANGED <<store, lock, eviction_cursor, clock, evict, sweeper>>

get(t) ==
  /\ Enter(t, "get")
  /\ \/ /\ Absent(t)
        /\ UNCHANGED <<shards, used_bytes>>
        /\ Return(t, [is |-> "nil"])
     \/ /\ Expired(t)
        /\ RemoveEntry(t)
        /\ Return(t, [is |-> "nil"])
     \/ /\ Present(t)
        /\ SetShard(shard_for(t), touch(Inner(t), Slot(t)))
        /\ UNCHANGED used_bytes
        /\ Return(t, [is |-> "value",
                      value |-> Inner(t).nodes[Slot(t)].value])
  /\ UNCHANGED <<lock, eviction_cursor, next_ttl_token, clock, evict, sweeper>>

delete(t) ==
  /\ Enter(t, "delete")
  /\ \/ /\ Absent(t)
        /\ UNCHANGED <<shards, used_bytes>>
        /\ Return(t, [is |-> "deleted", live |-> FALSE])
     \/ /\ ~Absent(t)
        /\ RemoveEntry(t)
        /\ Return(t, [is |-> "deleted", live |-> ~Expired(t)])
  /\ UNCHANGED <<lock, eviction_cursor, next_ttl_token, clock, evict, sweeper>>

(* A new token and deadline for the entry in slot idx of shard S. *)
SetDeadline(S, idx, expires_at, token) ==
  SetNode(S, idx, [S.nodes[idx] EXCEPT !.expires_at = expires_at,
                                       !.ttl_token = token])

expire(t) ==
  LET expires_at == now[t] + req[t].ttl IN
  /\ Enter(t, "expire")
  /\ \/ /\ Absent(t)
        /\ UNCHANGED store
        /\ Return(t, [is |-> "not_found"])
     \/ /\ Expired(t)
        /\ RemoveEntry(t)
        /\ UNCHANGED next_ttl_token
        /\ Return(t, [is |-> "not_found"])
     \/ /\ Present(t)
        /\ TakeToken
        /\ SetShard(shard_for(t),
             schedule_expiration(
               SetDeadline(Inner(t), Slot(t), expires_at, next_ttl_token),
               Slot(t), expires_at, next_ttl_token))
        /\ UNCHANGED used_bytes
        /\ Return(t, [is |-> "ok"])
  /\ UNCHANGED <<lock, eviction_cursor, clock, evict, sweeper>>

ttl(t) ==
  LET deadline == Inner(t).nodes[Slot(t)].expires_at IN
  /\ Enter(t, "ttl")
  /\ \/ /\ Absent(t)
        /\ UNCHANGED <<shards, used_bytes>>
        /\ Return(t, [is |-> "missing"])
     \/ /\ Expired(t)
        /\ RemoveEntry(t)
        /\ Return(t, [is |-> "missing"])
     \/ /\ Present(t)
        /\ UNCHANGED <<shards, used_bytes>>
        /\ Return(t, IF deadline = None
                     THEN [is |-> "no_expiry"]
                     ELSE [is |-> "expires_in", remaining |-> deadline - now[t]])
  /\ UNCHANGED <<lock, eviction_cursor, next_ttl_token, clock, evict, sweeper>>

-----------------------------------------------------------------------------
(* write_value: set and set_with_ttl.                                      *)

(* The lock is taken, and an expired entry of the key is dropped. *)
WriteLock(t) ==
  /\ Enter(t, "set") \/ Enter(t, "set_with_ttl")
  /\ lock' = [lock EXCEPT ![shard_for(t)] = t]
  /\ \/ Expired(t) /\ RemoveEntry(t)
     \/ ~Expired(t) /\ UNCHANGED <<shards, used_bytes>>
  /\ pc' = [pc EXCEPT ![t] = "write"]
  /\ UNCHANGED <<eviction_cursor, next_ttl_token, clock, req, now, ret, evict,
                 sweeper>>

WriteDeadline(t) ==
  IF req[t].op = "set_with_ttl" THEN now[t] + req[t].ttl ELSE None

NewSize(t) == entry_size(req[t].key, req[t].value)

(* schedule_expiration for Some(expires_at). *)
ScheduleSome(S, idx, expires_at, token) ==
  IF expires_at = None THEN S
  ELSE schedule_expiration(S, idx, expires_at, token)

(* The lock is dropped, and evict_if_needed starts unless max_bytes is     *)
(* usize::MAX.                                                             *)
WriteUnlock(t) ==
  /\ lock' = [lock EXCEPT ![shard_for(t)] = Free]
  /\ IF MaxBytes = UsizeMax
     THEN Return(t, [is |-> "ok"])
     ELSE /\ pc' = [pc EXCEPT ![t] = "evict_load"]
          /\ UNCHANGED <<req, now, ret>>
  /\ UNCHANGED <<eviction_cursor, clock, evict, sweeper>>

(* Mutants of Replaced: the node keeps its old size; the new deadline is   *)
(* not scheduled.                                                          *)
Replaced_KeepsSize(t, token) ==
  touch(SetNode(Inner(t), Slot(t),
          [Inner(t).nodes[Slot(t)] EXCEPT !.value = req[t].value]),
        Slot(t))

Replaced_Unscheduled(t, token) ==
  touch(SetNode(Inner(t), Slot(t),
          [Inner(t).nodes[Slot(t)] EXCEPT
             !.value = req[t].value, !.size = NewSize(t),
             !.expires_at = WriteDeadline(t), !.ttl_token = token]),
        Slot(t))

(* The shard after the entry in the caller's slot was overwritten. *)
Replaced(t, token) ==
  LET idx == Slot(t)
      written == SetNode(Inner(t), idx,
                   [Inner(t).nodes[idx] EXCEPT
                      !.value = req[t].value, !.size = NewSize(t),
                      !.expires_at = WriteDeadline(t), !.ttl_token = token])
  IN  ScheduleSome(touch(written, idx), idx, WriteDeadline(t), token)

WriteReplace(t) ==
  /\ pc[t] = "write"
  /\ ~Absent(t)
  /\ TakeToken
  /\ SetShard(shard_for(t), Replaced(t, next_ttl_token))
  /\ FetchAdd(NewSize(t) - Inner(t).nodes[Slot(t)].size)
  /\ WriteUnlock(t)

(* The shard after a node was inserted for the caller's key. *)
Inserted(t, token) ==
  LET idx == NextSlot(Inner(t))
      S == insert_new(Inner(t), req[t].key, req[t].value, NewSize(t))
  IN  IF WriteDeadline(t) = None
      THEN S
      ELSE schedule_expiration(SetDeadline(S, idx, WriteDeadline(t), token),
                               idx, WriteDeadline(t), token)

WriteInsert(t) ==
  /\ pc[t] = "write"
  /\ Absent(t)
  /\ IF WriteDeadline(t) = None THEN UNCHANGED next_ttl_token ELSE TakeToken
  /\ SetShard(shard_for(t), Inserted(t, next_ttl_token))
  /\ FetchAdd(NewSize(t))
  /\ WriteUnlock(t)

-----------------------------------------------------------------------------
(* evict_if_needed.                                                        *)

(* The loop's load of used_bytes: within the budget the call returns. *)
EvictLoad(t) ==
  /\ pc[t] = "evict_load"
  /\ \/ /\ used_bytes <= MaxBytes
        /\ Return(t, [is |-> "ok"])
     \/ /\ used_bytes > MaxBytes
        /\ pc' = [pc EXCEPT ![t] = "evict_start"]
        /\ UNCHANGED <<req, now, ret>>
  /\ UNCHANGED <<store, lock, eviction_cursor, clock, evict, sweeper>>

EvictStart(t) ==
  /\ pc[t] = "evict_start"
  /\ evict' = [evict EXCEPT ![t].start = eviction_cursor]
  /\ eviction_cursor' = (eviction_cursor + 1) % NumShards
  /\ pc' = [pc EXCEPT ![t] = "evict_scan"]
  /\ UNCHANGED <<store, lock, clock, req, now, ret, sweeper>>

EvictShard(t) == (evict[t].start + evict[t].offset) % NumShards

(* Mutants of EvictNone: the round ends with its first shard; it never ends. *)
EvictNone_FirstShardOnly(t) ==
  evict' = [evict EXCEPT ![t] = NoEvict] /\ Return(t, [is |-> "ok"])

EvictNone_Endless(t) ==
  /\ evict' = [evict EXCEPT ![t].offset = (@ + 1) % NumShards]
  /\ UNCHANGED callers

(* The shard was empty: the round goes on with the next one, and after the *)
(* last the call returns although nothing was evicted.                     *)
EvictNone(t) ==
  IF evict[t].offset + 1 < NumShards
  THEN evict' = [evict EXCEPT ![t].offset = @ + 1] /\ UNCHANGED callers
  ELSE evict' = [evict EXCEPT ![t] = NoEvict] /\ Return(t, [is |-> "ok"])

(* evict_one_from_shard on the next shard of the round: the oldest entry   *)
(* goes, and is subtracted from used_bytes after the lock is released.     *)
EvictScan(t) ==
  LET s == EvictShard(t)
      S == shards[s]
  IN
  /\ pc[t] = "evict_scan"
  /\ lock[s] = Free
  /\ \/ /\ S.head # None
        /\ SetShard(s, pop_lru(S))
        /\ evict' = [evict EXCEPT ![t].size = S.nodes[S.head].size]
        /\ pc' = [pc EXCEPT ![t] = "evict_sub"]
        /\ UNCHANGED <<req, now, ret>>
     \/ /\ S.head = None
        /\ UNCHANGED shards
        /\ EvictNone(t)
  /\ UNCHANGED <<lock, used_bytes, eviction_cursor, next_ttl_token, clock,
                 sweeper>>

EvictSub(t) ==
  /\ pc[t] = "evict_sub"
  /\ FetchSub(evict[t].size)
  /\ evict' = [evict EXCEPT ![t] = NoEvict]
  /\ pc' = [pc EXCEPT ![t] = "evict_load"]
  /\ UNCHANGED <<shards, lock, eviction_cursor, next_ttl_token, clock,
                 req, now, ret, sweeper>>

-----------------------------------------------------------------------------
(* The background sweeper.                                                 *)

start_expirer ==
  /\ handle = "none"
  /\ handle' = "running"
  /\ sweep' = [sweep EXCEPT !.pc = "check"]
  /\ UNCHANGED <<store, lock, eviction_cursor, clock, callers, evict>>

(* ExpirationHandle::stop sets the flag and waits in join. *)
stop ==
  /\ \/ handle = "running" /\ handle' = "stopping"
     \/ handle = "stopping" /\ sweep.pc = "done" /\ handle' = "stopped"
  /\ UNCHANGED <<store, lock, eviction_cursor, clock, callers, evict, sweep>>

(* Mutant of SweepCheck: the flag is ignored. *)
SweepCheck_Ignores ==
  /\ sweep.pc = "check"
  /\ sweep' = [sweep EXCEPT !.pc = "sleep"]
  /\ UNCHANGED <<store, lock, eviction_cursor, clock, callers, evict, handle>>

(* The loop's test of the stop flag. *)
SweepCheck ==
  /\ sweep.pc = "check"
  /\ sweep' = [sweep EXCEPT
                 !.pc = IF handle = "running" THEN "sleep" ELSE "done"]
  /\ UNCHANGED <<store, lock, eviction_cursor, clock, callers, evict, handle>>

(* The sleep ends, and purge_expired starts at shard 0 with this instant. *)
SweepWake ==
  /\ sweep.pc = "sleep"
  /\ sweep' = [pc |-> "lock", now |-> clock, shard |-> 0]
  /\ UNCHANGED <<store, lock, eviction_cursor, clock, callers, evict, handle>>

SweepLock ==
  /\ sweep.pc = "lock"
  /\ lock[sweep.shard] = Free
  /\ lock' = [lock EXCEPT ![sweep.shard] = Sweeper]
  /\ sweep' = [sweep EXCEPT !.pc = "purge"]
  /\ UNCHANGED <<store, eviction_cursor, clock, callers, evict, handle>>

(* Mutant of SweepPop: the bytes of the entry are not subtracted. *)
SweepPop_KeepsBytes ==
  LET S == shards[sweep.shard] IN
  /\ sweep.pc = "purge"
  /\ \E e \in due_expiration(S, sweep.now) :
       SetShard(sweep.shard,
                remove_idx(pop_due_expiration(S, sweep.now), e.idx))
  /\ UNCHANGED <<used_bytes, lock, eviction_cursor, next_ttl_token, clock,
                 callers, evict, sweeper>>

(* One round of the purge loop: the first due entry that is not stale. *)
SweepPop ==
  LET S == shards[sweep.shard] IN
  /\ sweep.pc = "purge"
  /\ \E e \in due_expiration(S, sweep.now) :
       /\ SetShard(sweep.shard,
                   remove_idx(pop_due_expiration(S, sweep.now), e.idx))
       /\ FetchSub(S.nodes[e.idx].size)
  /\ UNCHANGED <<lock, eviction_cursor, next_ttl_token, clock, callers, evict,
                 sweeper>>

(* Mutant of NextSweep: the sweep ends before the last shard. *)
NextSweep_SkipsLast ==
  IF sweep.shard + 2 < NumShards
  THEN [sweep EXCEPT !.pc = "lock", !.shard = @ + 1]
  ELSE [pc |-> "check", now |-> None, shard |-> 0]

(* The sweep goes on with the next shard or ends. *)
NextSweep ==
  IF sweep.shard + 1 < NumShards
  THEN [sweep EXCEPT !.pc = "lock", !.shard = @ + 1]
  ELSE [pc |-> "check", now |-> None, shard |-> 0]

(* pop_due_expiration returns None: stale entries are gone and the lock is *)
(* released.                                                               *)
SweepUnlock ==
  LET S == shards[sweep.shard] IN
  /\ sweep.pc = "purge"
  /\ DueLive(S, sweep.now) = {}
  /\ SetShard(sweep.shard, pop_due_expiration(S, sweep.now))
  /\ lock' = [lock EXCEPT ![sweep.shard] = Free]
  /\ sweep' = NextSweep
  /\ UNCHANGED <<used_bytes, next_ttl_token, eviction_cursor, clock, callers,
                 evict, handle>>

Tick ==
  /\ clock < MaxClock
  /\ clock' = clock + 1
  /\ UNCHANGED <<store, lock, eviction_cursor, callers, evict, sweeper>>

-----------------------------------------------------------------------------
(* A thread's steps inside a call. *)
Step(t) ==
  \/ get(t) \/ delete(t) \/ expire(t) \/ ttl(t)
  \/ WriteLock(t) \/ WriteReplace(t) \/ WriteInsert(t)
  \/ EvictLoad(t) \/ EvictStart(t) \/ EvictScan(t) \/ EvictSub(t)

SweepStep == SweepCheck \/ SweepWake \/ SweepLock \/ SweepPop \/ SweepUnlock

Next ==
  \/ \E t \in Thread : Call(t) \/ Step(t)
  \/ SweepStep
  \/ start_expirer
  \/ stop
  \/ Tick

Spec == Init /\ [][Next]_vars

(* Threads inside a call and the sweeper keep running.  Strong fairness,   *)
(* because waiting for a shard's lock is only intermittently enabled:      *)
(* parking_lot's RwLock hands the lock to a waiter eventually.  Nothing    *)
(* forces a thread to make a call, or the owner of the sweeper to stop it. *)
Fairness ==
  /\ \A t \in Thread : SF_vars(Step(t))
  /\ SF_vars(SweepStep)
  /\ WF_vars(handle = "stopping" /\ stop)
  /\ WF_vars(Tick)

FairSpec == Spec /\ Fairness

-----------------------------------------------------------------------------
(* Properties.                                                             *)

Pc == {"idle", "call", "write", "evict_load", "evict_start", "evict_scan",
       "evict_sub"}

(* Every variable keeps its type; a thread inside a call has a request and *)
(* an instant, a writing one a value, and used_bytes never leaves the      *)
(* range of usize.                                                         *)
TypeOK ==
  /\ shards \in [Shards -> Shard]
  /\ lock \in [Shards -> Thread \cup {Free, Sweeper}]
  /\ used_bytes \in 0..UsizeMax
  /\ eviction_cursor \in Shards
  /\ next_ttl_token \in Nat
  /\ clock \in Nat \ {None}
  /\ pc \in [Thread -> Pc]
  /\ req \in [Thread -> Request \cup {NoRequest}]
  /\ \A t \in Thread :
       /\ pc[t] # "idle" => req[t] \in Request /\ now[t] # None
       /\ pc[t] = "write" => req[t].op \in {"set", "set_with_ttl"}
  /\ now \in [Thread -> Nat]
  /\ evict \in [Thread -> [start: Shards, offset: Shards, size: Nat]]
  /\ handle \in {"none", "running", "stopping", "stopped"}
  /\ sweep \in [pc: {"none", "check", "sleep", "lock", "purge", "done"},
                now: Nat, shard: Shards]

(* After any history of inserts, touches, removals and slot reuse, the LRU *)
(* links of every shard form one simple chain from head to tail over       *)
(* exactly the live slots (lru_remove, lru_push_back).                     *)
ListsAreChains == \A s \in Shards : LruChain(shards[s])

(* In every shard the key map and the node arena are inverse to each       *)
(* other: no key leads to an empty, a reused or a foreign slot, and no     *)
(* live node is unreachable by its key (insert_new, remove_idx).           *)
MapsMatchArenas == \A s \in Shards : MapExact(shards[s])

(* In every shard the free stack holds every empty slot exactly once, so   *)
(* insert_new never overwrites a live node and no slot leaks.              *)
FreeStacksExact == \A s \in Shards : FreeExact(shards[s])

(* The sweeper can find every live deadline: whatever the order of         *)
(* overwrites, refreshes and sweeps, the current deadline of a live node   *)
(* is in its shard's heap (pop_due_expiration drops only stale entries).   *)
DeadlinesScheduled == \A s \in Shards : TtlHeapCovers(shards[s])

(* Bytes of the live nodes of shard S. *)
LiveBytes(S) == MapThenSumSet(LAMBDA i : S.nodes[i].size, Live(S))

(* Bytes evicted but not yet subtracted. *)
Unsubtracted ==
  MapThenSumSet(LAMBDA t : evict[t].size,
                {t \in Thread : pc[t] = "evict_sub"})

TotalLive == MapThenSumSet(LAMBDA s : LiveBytes(shards[s]), Shards)

(* used_bytes is the bytes of all live nodes plus those evicted whose      *)
(* fetch_sub is still to come: it never drifts and never wraps below zero, *)
(* although it is updated without a common lock.                           *)
UsedBytesAccounts == used_bytes = TotalLive + Unsubtracted

(* When no call is in progress the store is within its capacity, whichever *)
(* writers evicted what (evict_if_needed, loop and early exits).           *)
QuiescentWithinBudget ==
  (\A t \in Thread : pc[t] = "idle") => used_bytes <= MaxBytes

(* Tokens in the heaps come from distinct fetch_adds and none is handed    *)
(* out again: an old entry can never match a newer write of the same slot. *)
HeapTokensUnique ==
  /\ \A s \in Shards : \A e \in shards[s].ttl_heap : e.token < next_ttl_token
  /\ \A r, s \in Shards :
       \A d \in shards[r].ttl_heap, e \in shards[s].ttl_heap :
         d.token = e.token => r = s /\ d = e

-----------------------------------------------------------------------------
(* Refinement: the engine implements KVStore.  The recency order of a      *)
(* shard is read off its links.                                            *)

LruSlots(S) ==
  CHOOSE order \in [1..LiveCount(S) -> DOMAIN S.nodes] : LruOrder(S, order)

Entries(S) ==
  [i \in 1..LiveCount(S) |->
     LET node == S.nodes[LruSlots(S)[i]] IN
     [key |-> node.key, value |-> node.value, expires_at |-> node.expires_at]]

Phase(t) ==
  CASE pc[t] = "idle" -> "idle"
    [] pc[t] \in {"call", "write"} -> "call"
    [] OTHER -> "evict"

Store ==
  INSTANCE KVStore WITH
    entries <- [s \in Shards |-> Entries(shards[s])],
    phase <- [t \in Thread |-> Phase(t)],
    Bounded <- MaxBytes # UsizeMax

(* Every call takes effect at once between its invocation and its return,  *)
(* with the result KVStore allows; entries disappear only by deletion,     *)
(* past their deadline, or as the least recently used one of a shard; a    *)
(* value and its deadline become visible together.                         *)
ImplementsStore == Store!Spec

-----------------------------------------------------------------------------
(* Liveness, under FairSpec.                                               *)

(* If callers stop making calls, every call in progress returns: the       *)
(* eviction loop cannot spin and no thread waits for a lock for ever.      *)
CallsReturn ==
  <>[][~\E t \in Thread : Call(t)]_vars
    => \A t \in Thread : <>[](pc[t] = "idle")

(* The entry of key k has expired at the present instant. *)
Dead(k) ==
  LET S == shards[ShardOf[k]] IN
  S.map[k] # None /\ is_expired(S.nodes[S.map[k]], clock)

(* While the sweeper runs, an entry past its deadline is removed or        *)
(* replaced, even if no caller ever touches its key again.                 *)
ExpiredReclaimed ==
  \A k \in Key :
    handle = "running" /\ Dead(k) ~> ~Dead(k) \/ handle # "running"

(* ExpirationHandle::stop returns: the sweeper sees the flag and ends.     *)
StopJoins == handle = "stopping" ~> handle = "stopped"

=============================================================================
