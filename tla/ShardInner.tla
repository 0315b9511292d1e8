----------------------------- MODULE ShardInner -----------------------------
(***************************************************************************)
(* One shard of the in-memory engine (hkv-engine/src/memory.rs, struct     *)
(* ShardInner): a hash map from keys to slots of a node arena, an LRU list *)
(* threaded through the arena by slot indices, a stack of free slots and   *)
(* a min-heap of deadlines that is invalidated lazily.                     *)
(*                                                                         *)
(* The module has no state: a shard is a record, and each method of        *)
(* ShardInner is an operator from shards to shards.  MemoryEngine keeps a  *)
(* shard per lock and applies these operators under it.                    *)
(*                                                                         *)
(* Conventions.  Slots and instants are numbered from 1, so that 0 stands  *)
(* for the None of every Option<usize> and Option<Instant>.  NoNode is the *)
(* None of a slot.  A HashMap is a total function whose absent keys map to *)
(* None.  The BinaryHeap is the set of its entries: tokens make entries    *)
(* distinct, and the order of equal deadlines is the one of                *)
(* ExpirationEntry::cmp.                                                   *)
(***************************************************************************)
EXTENDS Naturals, Sequences

CONSTANTS
  Key,      \* the keys clients use
  Value,    \* the values clients store
  NoNode    \* an empty slot of the arena

None == 0

Node ==
  [key: Key, value: Value, expires_at: Nat, ttl_token: Nat,
   size: Nat, prev: Nat, next: Nat]

ExpirationEntry == [expires_at: Nat, idx: Nat, token: Nat]

Shard ==
  [map: [Key -> Nat], nodes: Seq(Node \cup {NoNode}), free: Seq(Nat),
   ttl_heap: SUBSET ExpirationEntry, head: Nat, tail: Nat]

ASSUME NoNodeAssumption == NoNode \notin Node

-----------------------------------------------------------------------------
(* Nodes and the LRU list.                                                 *)

is_expired(node, now) == node.expires_at # None /\ now >= node.expires_at

(* ShardInner::new *)
EmptyShard ==
  [map |-> [k \in Key |-> None], nodes |-> <<>>, free |-> <<>>,
   ttl_heap |-> {}, head |-> None, tail |-> None]

Live(S) == {i \in DOMAIN S.nodes : S.nodes[i] # NoNode}

SetNode(S, idx, node) == [S EXCEPT !.nodes[idx] = node]

SetLinks(node, prev, next) == [node EXCEPT !.prev = prev, !.next = next]

(* Slot i after idx was detached from its neighbours. *)
Unlink(S, idx, i) ==
  LET node == S.nodes[i]
      prev == S.nodes[idx].prev
      next == S.nodes[idx].next
  IN  IF node = NoNode THEN NoNode
      ELSE IF i = idx THEN SetLinks(node, None, None)
      ELSE SetLinks(node, IF i = next THEN prev ELSE node.prev,
                          IF i = prev THEN next ELSE node.next)

(* Mutant of lru_remove: the tail is not moved when it is detached. *)
lru_remove_KeepsTail(S, idx) ==
  LET prev == S.nodes[idx].prev
      next == S.nodes[idx].next
  IN  [S EXCEPT !.nodes = [i \in DOMAIN @ |-> Unlink(S, idx, i)],
                !.head  = IF prev = None THEN next ELSE @]

lru_remove(S, idx) ==
  LET prev == S.nodes[idx].prev
      next == S.nodes[idx].next
  IN  [S EXCEPT !.nodes = [i \in DOMAIN @ |-> Unlink(S, idx, i)],
                !.head  = IF prev = None THEN next ELSE @,
                !.tail  = IF next = None THEN prev ELSE @]

(* Slot i after idx was appended behind the tail. *)
LinkLast(S, idx, i) ==
  LET node == S.nodes[i]
  IN  IF node = NoNode THEN NoNode
      ELSE SetLinks(node, IF i = idx THEN S.tail ELSE node.prev,
                          IF i = S.tail THEN idx
                          ELSE IF i = idx THEN None ELSE node.next)

lru_push_back(S, idx) ==
  [S EXCEPT !.nodes = [i \in DOMAIN @ |-> LinkLast(S, idx, i)],
            !.head  = IF S.tail = None THEN idx ELSE @,
            !.tail  = idx]

touch(S, idx) ==
  IF S.tail = idx THEN S ELSE lru_push_back(lru_remove(S, idx), idx)

(* The slot insert_new takes: the top of the free stack, or a new one. *)
NextSlot(S) ==
  IF S.free = <<>> THEN Len(S.nodes) + 1 ELSE S.free[Len(S.free)]

(* The arena and the free stack with `node` put into that slot. *)
Occupy(S, node) ==
  IF S.free = <<>>
  THEN [S EXCEPT !.nodes = Append(@, node)]
  ELSE [SetNode(S, NextSlot(S), node) EXCEPT
          !.free = SubSeq(@, 1, Len(@) - 1)]

(* insert_new returns its slot: that is NextSlot(S). *)
insert_new(S, key, value, size) ==
  LET idx  == NextSlot(S)
      node == [key |-> key, value |-> value, expires_at |-> None,
               ttl_token |-> 0, size |-> size, prev |-> None, next |-> None]
  IN  [lru_push_back(Occupy(S, node), idx) EXCEPT !.map[key] = idx]

(* Mutants of remove_idx: the key stays mapped; the slot is not recycled. *)
remove_idx_KeepsKey(S, idx) ==
  [SetNode(lru_remove(S, idx), idx, NoNode) EXCEPT !.free = Append(@, idx)]

remove_idx_LeaksSlot(S, idx) ==
  [SetNode(lru_remove(S, idx), idx, NoNode) EXCEPT
     !.map[S.nodes[idx].key] = None]

(* remove_idx returns the size of the node: that is S.nodes[idx].size. *)
remove_idx(S, idx) ==
  IF S.nodes[idx] = NoNode
  THEN S
  ELSE [SetNode(lru_remove(S, idx), idx, NoNode) EXCEPT
          !.map[S.nodes[idx].key] = None,
          !.free = Append(@, idx)]

(* Mutant of pop_lru: the most recently used entry goes. *)
pop_lru_Newest(S) == IF S.tail = None THEN S ELSE remove_idx(S, S.tail)

pop_lru(S) == IF S.head = None THEN S ELSE remove_idx(S, S.head)

-----------------------------------------------------------------------------
(* The heap of deadlines.                                                  *)

(* ExpirationEntry::cmp *)
Precedes(a, b) ==
  \/ a.expires_at < b.expires_at
  \/ /\ a.expires_at = b.expires_at
     /\ \/ a.idx < b.idx
        \/ a.idx = b.idx /\ a.token < b.token

schedule_expiration(S, idx, expires_at, token) ==
  [S EXCEPT !.ttl_heap =
     @ \cup {[expires_at |-> expires_at, idx |-> idx, token |-> token]}]

Due(S, now) == {e \in S.ttl_heap : e.expires_at <= now}

(* Mutant of Matches: any node in the slot will do. *)
Matches_AnyNode(S, e) == e.idx \in Live(S)

(* A heap entry is stale when its slot is empty or was given another       *)
(* token or deadline since the entry was pushed.                           *)
Matches(S, e) ==
  /\ e.idx \in Live(S)
  /\ S.nodes[e.idx].ttl_token = e.token
  /\ S.nodes[e.idx].expires_at = e.expires_at

DueLive(S, now) == {e \in Due(S, now) : Matches(S, e)}

(* The entry pop_due_expiration returns, as a set: empty when it returns   *)
(* None, else the first due entry that is not stale.                       *)
due_expiration(S, now) ==
  {e \in DueLive(S, now) : \A f \in DueLive(S, now) : f = e \/ Precedes(e, f)}

(* The heap it leaves: everything up to the entry returned is popped, and  *)
(* every due entry when all are stale.                                     *)
pop_due_expiration(S, now) ==
  [S EXCEPT !.ttl_heap =
     {h \in @ : IF DueLive(S, now) = {}
                THEN h.expires_at > now
                ELSE \A e \in due_expiration(S, now) : Precedes(e, h)}]

-----------------------------------------------------------------------------
(* What a shard promises between two operations.                           *)

(* Slots in use.  FreeExact makes this the number of live nodes. *)
LiveCount(S) == Len(S.nodes) - Len(S.free)

(* The links agree with `order`, a list of n distinct live slots, from the *)
(* oldest (head) to the newest (tail).                                     *)
Linked(S, n, order) ==
  /\ \A i \in 1..n : order[i] \in Live(S)
  /\ \A i, j \in 1..n : order[i] = order[j] => i = j
  /\ S.head = IF n = 0 THEN None ELSE order[1]
  /\ S.tail = IF n = 0 THEN None ELSE order[n]
  /\ \A i \in 1..n :
       /\ S.nodes[order[i]].prev = IF i = 1 THEN None ELSE order[i - 1]
       /\ S.nodes[order[i]].next = IF i = n THEN None ELSE order[i + 1]

(* `order` is the recency order of the shard: it lists every live slot.    *)
LruOrder(S, order) ==
  /\ Linked(S, LiveCount(S), order)
  /\ \A s \in Live(S) : \E i \in 1..LiveCount(S) : order[i] = s

(* The intrusive list is one simple chain over exactly the live slots.     *)
LruChain(S) ==
  /\ LiveCount(S) \in Nat
  /\ \E order \in [1..LiveCount(S) -> DOMAIN S.nodes] : LruOrder(S, order)

(* The map and the arena are inverse to each other: a mapped key leads to  *)
(* a live node with that key, and a live node is the one its key maps to.  *)
MapExact(S) ==
  /\ \A k \in Key :
       S.map[k] # None => S.map[k] \in Live(S) /\ S.nodes[S.map[k]].key = k
  /\ \A i \in Live(S) : S.map[S.nodes[i].key] = i

(* The free stack holds the empty slots, each once.                        *)
FreeExact(S) ==
  /\ \A a \in DOMAIN S.free : S.free[a] \in DOMAIN S.nodes \ Live(S)
  /\ \A a, b \in DOMAIN S.free : S.free[a] = S.free[b] => a = b
  /\ \A i \in DOMAIN S.nodes \ Live(S) : \E a \in DOMAIN S.free : S.free[a] = i

(* A node with a deadline is scheduled: its current deadline and token are *)
(* in the heap, so lazy invalidation never forgets a live deadline.        *)
TtlHeapCovers(S) ==
  \A i \in Live(S) :
    S.nodes[i].expires_at # None =>
      [expires_at |-> S.nodes[i].expires_at, idx |-> i,
       token |-> S.nodes[i].ttl_token] \in S.ttl_heap

(* A shard with its list, map and free stack in order. *)
Structured(S) == S \in Shard /\ LruChain(S) /\ MapExact(S) /\ FreeExact(S)

=============================================================================
