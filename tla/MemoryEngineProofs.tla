------------------------- MODULE MemoryEngineProofs -------------------------
(***************************************************************************)
(* Every behaviour of MemoryEngine keeps its shards in order, accounts for *)
(* every byte and is a behaviour of KVStore, whatever the threads, keys,   *)
(* values, requests, shard count and capacity.  Four parts: what each      *)
(* operation of ShardInner does to one shard; the inductive invariant of   *)
(* the engine; its byte counter and its capacity; the refinement.          *)
(*                                                                         *)
(* The inductive invariant is the type invariant together with ShardsOK:   *)
(* the list, the map and the free stack of a shard need each other (a      *)
(* removal relinks the right neighbours only if the list is a chain, and   *)
(* clears the right key only if the map is exact), and a heap covers its   *)
(* nodes after a sweep only because a matching entry was pushed for the    *)
(* very node that is in the slot now.                                      *)
(***************************************************************************)
EXTENDS MemoryEngine, FiniteSums, SequenceTheorems, TLAPS

(***************************************************************************)
(* One shard: each operation of ShardInner preserves what a shard          *)
(* promises.                                                               *)
(***************************************************************************)

(* `order` without its p-th slot, and with one more slot at the end. *)
DropAt(order, n, p) ==
  [i \in 1..(n - 1) |-> IF i < p THEN order[i] ELSE order[i + 1]]
AddLast(order, n, idx) ==
  [i \in 1..(n + 1) |-> IF i = n + 1 THEN idx ELSE order[i]]

(* `order` is a recency order of shard S. *)
Lists(S, order) ==
  order \in [1..LiveCount(S) -> DOMAIN S.nodes] /\ LruOrder(S, order)

(* What an operation that turns S into R does to the recency order: it     *)
(* keeps it, takes slot idx out of it, moves idx to its end, or appends    *)
(* idx to it.                                                              *)
OrderKept(S, R) ==
  /\ LiveCount(R) = LiveCount(S)
  /\ \A order : Lists(S, order) => Lists(R, order)
OrderDrops(S, R, idx) ==
  /\ LiveCount(R) = LiveCount(S) - 1
  /\ \A order : \A p \in 1..LiveCount(S) :
       Lists(S, order) /\ order[p] = idx
         => Lists(R, DropAt(order, LiveCount(S), p))
OrderMoves(S, R, idx) ==
  /\ LiveCount(R) = LiveCount(S)
  /\ \A order : \A p \in 1..LiveCount(S) :
       Lists(S, order) /\ order[p] = idx
         => Lists(R, AddLast(DropAt(order, LiveCount(S), p),
                             LiveCount(S) - 1, idx))
OrderAdds(S, R, idx) ==
  /\ LiveCount(R) = LiveCount(S) + 1
  /\ \A order :
       Lists(S, order) => Lists(R, AddLast(order, LiveCount(S), idx))

(* The same nodes up to their links, with the same map, stack and heap. *)
SameContent(S, R) ==
  /\ Len(R.nodes) = Len(S.nodes)
  /\ Live(R) = Live(S)
  /\ \A i \in Live(S) :
       /\ R.nodes[i].key = S.nodes[i].key
       /\ R.nodes[i].value = S.nodes[i].value
       /\ R.nodes[i].size = S.nodes[i].size
       /\ R.nodes[i].expires_at = S.nodes[i].expires_at
       /\ R.nodes[i].ttl_token = S.nodes[i].ttl_token
  /\ R.map = S.map
  /\ R.free = S.free
  /\ R.ttl_heap = S.ttl_heap

(* The parts of a shard have their types. *)
LEMMA ShardParts ==
  ASSUME NEW S \in Shard
  PROVE  /\ S.map \in [Key -> Nat]
         /\ S.nodes \in Seq(Node \cup {NoNode})
         /\ Len(S.nodes) \in Nat
         /\ DOMAIN S.nodes = 1..Len(S.nodes)
         /\ S.free \in Seq(Nat)
         /\ Len(S.free) \in Nat
         /\ DOMAIN S.free = 1..Len(S.free)
         /\ S.ttl_heap \in SUBSET ExpirationEntry
         /\ S.head \in Nat
         /\ S.tail \in Nat
         /\ \A i \in DOMAIN S.nodes : S.nodes[i] \in Node \cup {NoNode}
         /\ \A i \in Live(S) : i \in Nat \ {0} /\ S.nodes[i] \in Node
BY DEF Shard, Live

(* SetLinks changes the two links of a node and nothing else. *)
LEMMA SetLinksNode ==
  ASSUME NEW node \in Node, NEW prev \in Nat, NEW next \in Nat
  PROVE  LET m == SetLinks(node, prev, next) IN
         /\ m \in Node
         /\ m # NoNode
         /\ m.prev = prev
         /\ m.next = next
         /\ m.key = node.key
         /\ m.value = node.value
         /\ m.size = node.size
         /\ m.expires_at = node.expires_at
         /\ m.ttl_token = node.ttl_token
BY NoNodeAssumption DEF SetLinks, Node

(* A function on 1..n is a sequence. *)
LEMMA IsSeq ==
  ASSUME NEW T, NEW n \in Nat, NEW f \in [1..n -> T]
  PROVE  f \in Seq(T) /\ Len(f) = n
OBVIOUS

(* Shard S with the links of its live nodes set to p and q. *)
Relinked(S, p, q, head, tail) ==
  [S EXCEPT !.nodes = [i \in DOMAIN S.nodes |->
                         IF S.nodes[i] = NoNode THEN NoNode
                         ELSE SetLinks(S.nodes[i], p[i], q[i])],
            !.head = head, !.tail = tail]

(* R is shard S with these links. *)
HasLinks(S, R, p, q, head, tail) ==
  /\ R \in Shard
  /\ SameContent(S, R)
  /\ R.head = head
  /\ R.tail = tail
  /\ \A i \in Live(S) : R.nodes[i].prev = p[i] /\ R.nodes[i].next = q[i]

(* Relinking the live nodes of a shard changes only links. *)
LEMMA Relink ==
  ASSUME NEW S \in Shard, NEW head \in Nat, NEW tail \in Nat,
         NEW p \in [DOMAIN S.nodes -> Nat], NEW q \in [DOMAIN S.nodes -> Nat],
         NEW R, R = Relinked(S, p, q, head, tail)
  PROVE  HasLinks(S, R, p, q, head, tail)
<1> DEFINE N == [i \in DOMAIN S.nodes |->
                   IF S.nodes[i] = NoNode THEN NoNode
                   ELSE SetLinks(S.nodes[i], p[i], q[i])]
<1>1. /\ Len(S.nodes) \in Nat
      /\ DOMAIN S.nodes = 1..Len(S.nodes)
      /\ \A i \in DOMAIN S.nodes : S.nodes[i] \in Node \cup {NoNode}
  BY ShardParts
<1>2. \A i \in DOMAIN S.nodes :
        /\ N[i] \in Node \cup {NoNode}
        /\ N[i] = NoNode <=> S.nodes[i] = NoNode
  BY <1>1, SetLinksNode
<1>3. N \in [1..Len(S.nodes) -> Node \cup {NoNode}]
  BY <1>1, <1>2
<1>4. N \in Seq(Node \cup {NoNode}) /\ Len(N) = Len(S.nodes)
  BY <1>1, <1>3, IsSeq
<1>5. /\ R \in Shard /\ R.nodes = N /\ R.head = head /\ R.tail = tail
      /\ R.map = S.map /\ R.free = S.free /\ R.ttl_heap = S.ttl_heap
  <2> HIDE DEF N
  <2> R = [S EXCEPT !.nodes = N, !.head = head, !.tail = tail]
    BY DEF Relinked, N
  <2> QED
    BY <1>4 DEF Shard
<1>6. Live(R) = Live(S)
  BY <1>1, <1>2, <1>3, <1>5 DEF Live
<1>7. ASSUME NEW i \in Live(S)
      PROVE  /\ R.nodes[i] = SetLinks(S.nodes[i], p[i], q[i])
             /\ S.nodes[i] \in Node /\ p[i] \in Nat /\ q[i] \in Nat
  BY <1>1, <1>5 DEF Live
<1>8. ASSUME NEW i \in Live(S)
      PROVE  /\ R.nodes[i].prev = p[i] /\ R.nodes[i].next = q[i]
             /\ R.nodes[i].key = S.nodes[i].key
             /\ R.nodes[i].value = S.nodes[i].value
             /\ R.nodes[i].size = S.nodes[i].size
             /\ R.nodes[i].expires_at = S.nodes[i].expires_at
             /\ R.nodes[i].ttl_token = S.nodes[i].ttl_token
  <2>1. /\ R.nodes[i] = SetLinks(S.nodes[i], p[i], q[i])
        /\ S.nodes[i] \in Node /\ p[i] \in Nat /\ q[i] \in Nat
    BY <1>7
  <2> QED
    BY <2>1 DEF SetLinks, Node
<1> QED
  BY <1>4, <1>5, <1>6, <1>8 DEF SameContent, HasLinks

(* lru_remove changes only links: it joins the neighbours of idx.          *)
LEMMA RemoveContent ==
  ASSUME NEW S \in Shard, NEW idx \in Live(S),
         NEW prev, prev = S.nodes[idx].prev,
         NEW next, next = S.nodes[idx].next,
         NEW R, R = lru_remove(S, idx)
  PROVE  /\ R \in Shard
         /\ SameContent(S, R)
         /\ R.head = IF prev = None THEN next ELSE S.head
         /\ R.tail = IF next = None THEN prev ELSE S.tail
         /\ \A i \in Live(S) \ {idx} :
              /\ R.nodes[i].prev = IF i = next THEN prev ELSE S.nodes[i].prev
              /\ R.nodes[i].next = IF i = prev THEN next ELSE S.nodes[i].next
<1> DEFINE N == [i \in DOMAIN S.nodes |-> Unlink(S, idx, i)]
           head == IF prev = None THEN next ELSE S.head
           tail == IF next = None THEN prev ELSE S.tail
           p == [i \in DOMAIN S.nodes |->
                  IF S.nodes[i] = NoNode \/ i = idx THEN None
                  ELSE IF i = next THEN prev ELSE S.nodes[i].prev]
           q == [i \in DOMAIN S.nodes |->
                  IF S.nodes[i] = NoNode \/ i = idx THEN None
                  ELSE IF i = prev THEN next ELSE S.nodes[i].next]
<1> USE ShardParts
<1>1. prev \in Nat /\ next \in Nat /\ head \in Nat /\ tail \in Nat
  BY DEF Node
<1>2. \A i \in Live(S) : S.nodes[i].prev \in Nat /\ S.nodes[i].next \in Nat
  BY DEF Node
<1>3. p \in [DOMAIN S.nodes -> Nat] /\ q \in [DOMAIN S.nodes -> Nat]
  BY <1>1, <1>2 DEF None, Live
<1>4. N = [i \in DOMAIN S.nodes |->
             IF S.nodes[i] = NoNode THEN NoNode
             ELSE SetLinks(S.nodes[i], p[i], q[i])]
  BY DEF Unlink, None
<1>5. \A i \in Live(S) \ {idx} :
        /\ p[i] = IF i = next THEN prev ELSE S.nodes[i].prev
        /\ q[i] = IF i = prev THEN next ELSE S.nodes[i].next
  BY DEF Live
<1>6. R = Relinked(S, p, q, head, tail)
  BY <1>4 DEF lru_remove, Relinked
<1> HIDE DEF p, q, head, tail
<1> HIDE ShardParts
<1>7. HasLinks(S, R, p, q, head, tail)
  BY <1>1, <1>3, <1>6, Relink
<1> QED
  BY <1>5, <1>7 DEF HasLinks, head, tail

(* lru_push_back changes only links: it hangs idx behind the tail.         *)
LEMMA PushContent ==
  ASSUME NEW S \in Shard, NEW idx \in Live(S),
         NEW R, R = lru_push_back(S, idx)
  PROVE  /\ R \in Shard
         /\ SameContent(S, R)
         /\ R.head = IF S.tail = None THEN idx ELSE S.head
         /\ R.tail = idx
         /\ \A i \in Live(S) :
              /\ R.nodes[i].prev = IF i = idx THEN S.tail ELSE S.nodes[i].prev
              /\ R.nodes[i].next = IF i = S.tail THEN idx
                                   ELSE IF i = idx THEN None
                                   ELSE S.nodes[i].next
<1> DEFINE N == [i \in DOMAIN S.nodes |-> LinkLast(S, idx, i)]
           head == IF S.tail = None THEN idx ELSE S.head
           p == [i \in DOMAIN S.nodes |->
                  IF S.nodes[i] = NoNode THEN None
                  ELSE IF i = idx THEN S.tail ELSE S.nodes[i].prev]
           q == [i \in DOMAIN S.nodes |->
                  IF S.nodes[i] = NoNode THEN None
                  ELSE IF i = S.tail THEN idx
                  ELSE IF i = idx THEN None ELSE S.nodes[i].next]
<1> USE ShardParts
<1>1. idx \in Nat /\ head \in Nat
  OBVIOUS
<1>2. \A i \in Live(S) : S.nodes[i].prev \in Nat /\ S.nodes[i].next \in Nat
  BY DEF Node
<1>3. p \in [DOMAIN S.nodes -> Nat] /\ q \in [DOMAIN S.nodes -> Nat]
  BY <1>1, <1>2 DEF None, Live
<1>4. N = [i \in DOMAIN S.nodes |->
             IF S.nodes[i] = NoNode THEN NoNode
             ELSE SetLinks(S.nodes[i], p[i], q[i])]
  BY DEF LinkLast, None
<1>5. \A i \in Live(S) :
        /\ p[i] = IF i = idx THEN S.tail ELSE S.nodes[i].prev
        /\ q[i] = IF i = S.tail THEN idx
                  ELSE IF i = idx THEN None ELSE S.nodes[i].next
  BY DEF Live
<1>6. R = Relinked(S, p, q, head, idx)
  BY <1>4 DEF lru_push_back, Relinked
<1> HIDE DEF p, q, head
<1> HIDE ShardParts
<1>7. HasLinks(S, R, p, q, head, idx)
  BY <1>1, <1>3, <1>6, Relink
<1> QED
  BY <1>5, <1>7 DEF HasLinks, head

(* A list is as well linked in a shard with the same ends whose nodes on   *)
(* the list are live and have the same links.                              *)
LEMMA SameLinks ==
  ASSUME NEW S, NEW R, NEW n, NEW order, Linked(S, n, order),
         R.head = S.head, R.tail = S.tail,
         \A i \in 1..n : /\ order[i] \in Live(R)
                         /\ R.nodes[order[i]].prev = S.nodes[order[i]].prev
                         /\ R.nodes[order[i]].next = S.nodes[order[i]].next
  PROVE  Linked(R, n, order)
BY DEF Linked

(* A list of n slots is well linked after its p-th slot was detached.      *)
LEMMA RemoveLinked ==
  ASSUME NEW S \in Shard, NEW n \in Nat, NEW order \in [1..n -> Nat],
         Linked(S, n, order),
         NEW p \in 1..n, NEW idx, idx = order[p],
         NEW R, R = lru_remove(S, idx)
  PROVE  Linked(R, n - 1, DropAt(order, n, p))
<1> DEFINE prev == S.nodes[idx].prev
           next == S.nodes[idx].next
           o == DropAt(order, n, p)
<1> USE DEF None
<1>1. idx \in Live(S)
  BY DEF Linked
<1>2. /\ prev = IF p = 1 THEN None ELSE order[p - 1]
      /\ next = IF p = n THEN None ELSE order[p + 1]
  BY DEF Linked
<1>3. \A i \in 1..n : order[i] \in Nat \ {0} /\ order[i] \in Live(S)
  BY ShardParts DEF Linked
<1>4. /\ R \in Shard
      /\ SameContent(S, R)
      /\ R.head = IF prev = None THEN next ELSE S.head
      /\ R.tail = IF next = None THEN prev ELSE S.tail
      /\ \A i \in Live(S) \ {idx} :
           /\ R.nodes[i].prev = IF i = next THEN prev ELSE S.nodes[i].prev
           /\ R.nodes[i].next = IF i = prev THEN next ELSE S.nodes[i].next
  BY <1>1, RemoveContent
<1>5. \A i \in 1..(n - 1) : o[i] = IF i < p THEN order[i] ELSE order[i + 1]
  BY DEF DropAt
<1>6. \A i, j \in 1..n : order[i] = order[j] => i = j
  BY DEF Linked
<1>7. \A i \in 1..n :
        /\ S.nodes[order[i]].prev = IF i = 1 THEN None ELSE order[i - 1]
        /\ S.nodes[order[i]].next = IF i = n THEN None ELSE order[i + 1]
  BY DEF Linked
<1>8. /\ S.head = order[1]
      /\ S.tail = order[n]
  BY DEF Linked
<1>9. Live(R) = Live(S)
  BY <1>4 DEF SameContent
<1> HIDE DEF prev, next, o
<1>10. \A i \in 1..(n - 1) : o[i] \in Live(R) /\ o[i] # idx
  BY <1>3, <1>5, <1>6, <1>9
<1>11. \A i, j \in 1..(n - 1) : o[i] = o[j] => i = j
  <2> SUFFICES ASSUME NEW i \in 1..(n - 1), NEW j \in 1..(n - 1), o[i] = o[j]
               PROVE  i = j
    OBVIOUS
  <2> DEFINE a == IF i < p THEN i ELSE i + 1
             b == IF j < p THEN j ELSE j + 1
  <2>1. a \in 1..n /\ b \in 1..n
    OBVIOUS
  <2>2. o[i] = order[a] /\ o[j] = order[b]
    BY <1>5
  <2> HIDE DEF a, b
  <2>3. a = b
    BY <2>1, <2>2, <1>6
  <2> QED
    BY <2>3 DEF a, b
<1>12. /\ R.head = IF n - 1 = 0 THEN None ELSE o[1]
       /\ R.tail = IF n - 1 = 0 THEN None ELSE o[n - 1]
  <2>1. n - 1 \in Nat /\ (n - 1 = 0 => p = 1 /\ p = n)
    OBVIOUS
  <2>2. /\ p > 1 => prev = order[p - 1] /\ prev # None
        /\ p < n => next = order[p + 1] /\ next # None
    <3>1. /\ p > 1 => p - 1 \in 1..n
          /\ p < n => p + 1 \in 1..n
      OBVIOUS
    <3> QED
      BY <3>1, <1>2, <1>3
  <2>3. CASE n - 1 = 0
    <3>1. prev = None /\ next = None
      BY <2>1, <2>3, <1>2
    <3> QED
      BY <2>3, <3>1, <1>4
  <2>4. CASE n - 1 # 0
    <3>1. 1 \in 1..(n - 1) /\ n - 1 \in 1..(n - 1)
      BY <2>1, <2>4
    <3>2. /\ o[1] = IF 1 < p THEN order[1] ELSE order[2]
          /\ o[n - 1] = IF n - 1 < p THEN order[n - 1] ELSE order[n]
      BY <3>1, <1>5
    <3>3. R.head = o[1]
      <4>1. CASE p = 1
        <5>1. prev = None /\ next = order[2]
          BY <4>1, <2>2, <2>4, <1>2
        <5> QED
          BY <4>1, <5>1, <3>2, <1>4
      <4>2. CASE p > 1
        BY <4>2, <2>2, <3>2, <1>4, <1>8
      <4> QED
        BY <4>1, <4>2
    <3>4. R.tail = o[n - 1]
      <4>1. CASE p = n
        <5>1. next = None /\ prev = order[n - 1]
          BY <4>1, <2>2, <2>4, <1>2
        <5> QED
          BY <4>1, <5>1, <3>2, <1>4
      <4>2. CASE p < n
        BY <4>2, <2>2, <3>2, <1>4, <1>8
      <4> QED
        BY <4>1, <4>2
    <3> QED
      BY <2>4, <3>3, <3>4
  <2> QED
    BY <2>3, <2>4
<1>13. ASSUME NEW i \in 1..(n - 1)
       PROVE  /\ R.nodes[o[i]].prev = IF i = 1 THEN None ELSE o[i - 1]
              /\ R.nodes[o[i]].next = IF i = n - 1 THEN None ELSE o[i + 1]
  <2>1. CASE i < p
    <3>1. o[i] = order[i] /\ order[i] # idx
      BY <2>1, <1>5, <1>6
    <3>2. order[i] \in Live(S) \ {idx}
      BY <2>1, <3>1, <1>3
    <3>3. order[i] # next /\ (order[i] = prev <=> i = p - 1)
      <4>1. i \in 1..n /\ order[i] # None
        BY <1>3
      <4>2. order[i] # next
        <5>1. CASE p = n
          BY <4>1, <5>1, <1>2
        <5>2. CASE p # n
          <6>1. p + 1 \in 1..n /\ i # p + 1 /\ next = order[p + 1]
            BY <2>1, <5>2, <1>2
          <6> QED
            BY <4>1, <6>1, <1>6
        <5> QED
          BY <5>1, <5>2
      <4>3. p - 1 \in 1..n /\ prev = order[p - 1]
        BY <2>1, <1>2
      <4> QED
        BY <4>1, <4>2, <4>3, <1>6
    <3>4. /\ R.nodes[order[i]].prev = S.nodes[order[i]].prev
          /\ R.nodes[order[i]].next =
               IF i = p - 1 THEN next ELSE S.nodes[order[i]].next
      BY <3>2, <3>3, <1>4
    <3>5. /\ R.nodes[o[i]].prev = IF i = 1 THEN None ELSE order[i - 1]
          /\ R.nodes[o[i]].next =
               IF i = p - 1 THEN next ELSE order[i + 1]
      <4>1. i \in 1..n /\ i # n
        BY <2>1
      <4>2. /\ S.nodes[order[i]].prev = IF i = 1 THEN None ELSE order[i - 1]
            /\ S.nodes[order[i]].next = order[i + 1]
        BY <4>1, <1>7
      <4> QED
        BY <3>1, <3>4, <4>2
    <3>6. /\ i > 1 => o[i - 1] = order[i - 1]
          /\ i < p - 1 => o[i + 1] = order[i + 1]
          /\ i = p - 1 /\ i < n - 1 => o[i + 1] = order[p + 1]
      BY <2>1, <1>5
    <3> QED
      BY <2>1, <3>5, <3>6, <1>2
  <2>2. CASE i >= p
    <3>1. o[i] = order[i + 1] /\ order[i + 1] # idx
      BY <2>2, <1>5, <1>6
    <3>2. order[i + 1] \in Live(S) \ {idx}
      BY <2>2, <3>1, <1>3
    <3>3. order[i + 1] # prev /\ (order[i + 1] = next <=> i = p)
      BY <2>2, <1>2, <1>3, <1>6
    <3>4. /\ R.nodes[order[i + 1]].next = S.nodes[order[i + 1]].next
          /\ R.nodes[order[i + 1]].prev =
               IF i = p THEN prev ELSE S.nodes[order[i + 1]].prev
      BY <3>2, <3>3, <1>4
    <3>5. /\ S.nodes[order[i + 1]].prev = order[i]
          /\ S.nodes[order[i + 1]].next =
               IF i = n - 1 THEN None ELSE order[i + 2]
      <4>1. i + 1 \in 1..n /\ (i + 1) - 1 = i /\ (i + 1) + 1 = i + 2
        OBVIOUS
      <4> QED
        BY <2>2, <4>1, <1>7
    <3>6. /\ R.nodes[o[i]].next = IF i = n - 1 THEN None ELSE order[i + 2]
          /\ R.nodes[o[i]].prev = IF i = p THEN prev ELSE order[i]
      BY <3>1, <3>4, <3>5
    <3>7. /\ i < n - 1 => o[i + 1] = order[i + 2]
          /\ i > p => o[i - 1] = order[i]
          /\ i = p /\ i > 1 => o[i - 1] = order[p - 1]
      BY <2>2, <1>5
    <3> QED
      BY <2>2, <3>6, <3>7, <1>2
  <2> QED
    BY <2>1, <2>2
<1> QED
  BY <1>10, <1>11, <1>12, <1>13 DEF Linked, o

(* A list of n slots is well linked after a new slot was appended.         *)
LEMMA PushLinked ==
  ASSUME NEW S \in Shard, NEW n \in Nat, NEW order \in [1..n -> Nat],
         Linked(S, n, order),
         NEW idx \in Live(S), \A i \in 1..n : order[i] # idx,
         NEW R, R = lru_push_back(S, idx)
  PROVE  Linked(R, n + 1, AddLast(order, n, idx))
<1> DEFINE o == AddLast(order, n, idx)
<1> USE DEF None
<1>1. /\ R \in Shard
      /\ SameContent(S, R)
      /\ R.head = IF S.tail = None THEN idx ELSE S.head
      /\ R.tail = idx
      /\ \A i \in Live(S) :
           /\ R.nodes[i].prev = IF i = idx THEN S.tail ELSE S.nodes[i].prev
           /\ R.nodes[i].next = IF i = S.tail THEN idx
                                ELSE IF i = idx THEN None
                                ELSE S.nodes[i].next
  BY PushContent
<1>2. \A i \in 1..(n + 1) : o[i] = IF i = n + 1 THEN idx ELSE order[i]
  BY DEF AddLast
<1>3. Live(R) = Live(S)
  BY <1>1 DEF SameContent
<1>4. \A i \in 1..n : order[i] \in Nat \ {0} /\ order[i] \in Live(S)
  BY ShardParts DEF Linked
<1>5. \A i, j \in 1..n : order[i] = order[j] => i = j
  BY DEF Linked
<1>6. \A i \in 1..n :
        /\ S.nodes[order[i]].prev = IF i = 1 THEN None ELSE order[i - 1]
        /\ S.nodes[order[i]].next = IF i = n THEN None ELSE order[i + 1]
  BY DEF Linked
<1>7. /\ S.head = IF n = 0 THEN None ELSE order[1]
      /\ S.tail = IF n = 0 THEN None ELSE order[n]
  BY DEF Linked
<1> HIDE DEF o
<1>8. \A i \in 1..(n + 1) : o[i] \in Live(R)
  BY <1>2, <1>3, <1>4
<1>9. \A i, j \in 1..(n + 1) : o[i] = o[j] => i = j
  BY <1>2, <1>5
<1>10. /\ R.head = IF n + 1 = 0 THEN None ELSE o[1]
       /\ R.tail = IF n + 1 = 0 THEN None ELSE o[n + 1]
  BY <1>1, <1>2, <1>4, <1>7
<1>11. ASSUME NEW i \in 1..(n + 1)
       PROVE  /\ R.nodes[o[i]].prev = IF i = 1 THEN None ELSE o[i - 1]
              /\ R.nodes[o[i]].next = IF i = n + 1 THEN None ELSE o[i + 1]
  <2>1. CASE i = n + 1
    <3>1. o[i] = idx /\ idx # S.tail
      BY <2>1, <1>2, <1>7, ShardParts
    <3> QED
      BY <2>1, <3>1, <1>1, <1>2, <1>7
  <2>2. CASE i \in 1..n
    <3>1. o[i] = order[i] /\ order[i] # idx
      BY <2>2, <1>2
    <3>2. order[i] = S.tail <=> i = n
      BY <2>2, <1>5, <1>7
    <3> QED
      BY <2>2, <3>1, <3>2, <1>1, <1>2, <1>4, <1>6
  <2> QED
    BY <2>1, <2>2
<1> QED
  BY <1>8, <1>9, <1>10, <1>11 DEF Linked, o

-----------------------------------------------------------------------------
(* Replacing the content of one slot. *)
LEMMA SetNodeParts ==
  ASSUME NEW S \in Shard, NEW idx \in DOMAIN S.nodes,
         NEW node \in Node \cup {NoNode},
         NEW R, R = SetNode(S, idx, node)
  PROVE  /\ R \in Shard
         /\ Len(R.nodes) = Len(S.nodes)
         /\ DOMAIN R.nodes = DOMAIN S.nodes
         /\ R.nodes[idx] = node
         /\ \A i \in DOMAIN S.nodes \ {idx} : R.nodes[i] = S.nodes[i]
         /\ R.map = S.map
         /\ R.free = S.free
         /\ R.ttl_heap = S.ttl_heap
         /\ R.head = S.head
         /\ R.tail = S.tail
<1> DEFINE N == [S.nodes EXCEPT ![idx] = node]
<1>1. /\ N \in Seq(Node \cup {NoNode}) /\ Len(N) = Len(S.nodes)
      /\ DOMAIN N = DOMAIN S.nodes
      /\ N[idx] = node /\ \A i \in DOMAIN S.nodes \ {idx} : N[i] = S.nodes[i]
  BY ShardParts
<1>2. R = [S EXCEPT !.nodes = N]
  BY DEF SetNode, Shard
<1> HIDE DEF N
<1>3. /\ R \in Shard
      /\ R.nodes = N
      /\ R.map = S.map /\ R.free = S.free /\ R.ttl_heap = S.ttl_heap
      /\ R.head = S.head /\ R.tail = S.tail
  BY <1>1, <1>2 DEF Shard
<1> QED
  BY <1>1, <1>3

(* What remove_idx does to a shard in order: one slot less, nothing else.  *)
RemovedAt(S, R, idx) ==
  /\ Structured(R)
  /\ Live(R) = Live(S) \ {idx}
  /\ DOMAIN R.nodes = DOMAIN S.nodes
  /\ \A i \in Live(R) :
       /\ R.nodes[i].key = S.nodes[i].key
       /\ R.nodes[i].value = S.nodes[i].value
       /\ R.nodes[i].size = S.nodes[i].size
       /\ R.nodes[i].expires_at = S.nodes[i].expires_at
       /\ R.nodes[i].ttl_token = S.nodes[i].ttl_token
  /\ R.map = [S.map EXCEPT ![S.nodes[idx].key] = None]
  /\ R.ttl_heap = S.ttl_heap

LEMMA RemoveIdx ==
  ASSUME NEW S, Structured(S), NEW idx \in Live(S),
         NEW R, R = remove_idx(S, idx)
  PROVE  RemovedAt(S, R, idx) /\ OrderDrops(S, R, idx)
<1> DEFINE L == lru_remove(S, idx)
           M == SetNode(L, idx, NoNode)
           key == S.nodes[idx].key
           n == LiveCount(S)
<1>1. S \in Shard /\ LruChain(S) /\ MapExact(S) /\ FreeExact(S)
  BY DEF Structured
<1>2. /\ L \in Shard
      /\ SameContent(S, L)
  BY <1>1, RemoveContent
<1>3. /\ idx \in DOMAIN S.nodes /\ idx \in Nat /\ S.nodes[idx] \in Node
      /\ key \in Key /\ S.map[key] = idx
  BY <1>1, ShardParts DEF Live, Node, MapExact
<1>4. Len(L.nodes) = Len(S.nodes) /\ DOMAIN L.nodes = DOMAIN S.nodes
  BY <1>1, <1>2, ShardParts DEF SameContent
<1>5. /\ M \in Shard /\ Len(M.nodes) = Len(S.nodes)
      /\ DOMAIN M.nodes = DOMAIN S.nodes
      /\ M.nodes[idx] = NoNode
      /\ \A i \in DOMAIN S.nodes \ {idx} : M.nodes[i] = L.nodes[i]
      /\ M.map = S.map /\ M.free = S.free /\ M.ttl_heap = S.ttl_heap
      /\ M.head = L.head /\ M.tail = L.tail
  <2> HIDE DEF L
  <2> QED
    BY <1>2, <1>3, <1>4, SetNodeParts DEF SameContent
<1>6. R = [M EXCEPT !.map[key] = None, !.free = Append(@, idx)]
  BY DEF remove_idx, Live
<1> HIDE DEF M, L
<1>7. /\ R \in Shard /\ R.nodes = M.nodes
      /\ R.map = [S.map EXCEPT ![key] = None]
      /\ R.free = Append(S.free, idx) /\ R.ttl_heap = S.ttl_heap
      /\ R.head = L.head /\ R.tail = L.tail
  <2> DEFINE m == [S.map EXCEPT ![key] = None]
             f == Append(S.free, idx)
  <2>1. m \in [Key -> Nat] /\ f \in Seq(Nat)
    BY <1>1, <1>3, ShardParts DEF None
  <2>2. R = [M EXCEPT !.map = m, !.free = f]
    BY <1>5, <1>6
  <2> HIDE DEF m, f
  <2>3. /\ R \in Shard /\ R.nodes = M.nodes /\ R.map = m /\ R.free = f
        /\ R.ttl_heap = M.ttl_heap /\ R.head = M.head /\ R.tail = M.tail
    BY <1>5, <2>1, <2>2 DEF Shard
  <2> QED
    BY <2>3, <1>5 DEF m, f
<1>8. Live(R) = Live(S) \ {idx}
  BY <1>2, <1>4, <1>5, <1>7 DEF Live, SameContent
<1>9. \A i \in Live(R) :
        /\ R.nodes[i] = L.nodes[i]
        /\ R.nodes[i].key = S.nodes[i].key
        /\ R.nodes[i].value = S.nodes[i].value
        /\ R.nodes[i].size = S.nodes[i].size
        /\ R.nodes[i].expires_at = S.nodes[i].expires_at
        /\ R.nodes[i].ttl_token = S.nodes[i].ttl_token
  <2>1. \A i \in Live(R) : i \in Live(S) /\ i # idx /\ R.nodes[i] = L.nodes[i]
    BY <1>5, <1>7, <1>8 DEF Live
  <2> QED
    BY <2>1, <1>2 DEF SameContent
<1>10. MapExact(R)
  <2>1. \A k \in Key : R.map[k] = IF k = key THEN None ELSE S.map[k]
    BY <1>1, <1>3, <1>7, ShardParts
  <2>2. ASSUME NEW k \in Key, R.map[k] # None
        PROVE  R.map[k] \in Live(R) /\ R.nodes[R.map[k]].key = k
    <3>1. k # key /\ R.map[k] = S.map[k] /\ S.map[k] # None
      BY <2>1, <2>2
    <3>2. S.map[k] \in Live(S) /\ S.nodes[S.map[k]].key = k
      BY <3>1, <1>1 DEF MapExact
    <3>3. S.map[k] # idx
      BY <3>1, <3>2
    <3> QED
      BY <3>1, <3>2, <3>3, <1>8, <1>9
  <2>3. ASSUME NEW i \in Live(R)
        PROVE  R.map[R.nodes[i].key] = i
    <3>1. i \in Live(S) /\ i # idx /\ R.nodes[i].key = S.nodes[i].key
      BY <1>8, <1>9
    <3>2. S.nodes[i].key \in Key /\ S.map[S.nodes[i].key] = i
      BY <3>1, <1>1, ShardParts DEF MapExact, Node
    <3>3. S.nodes[i].key # key
      BY <3>1, <3>2, <1>3
    <3> QED
      BY <3>1, <3>2, <3>3, <2>1
  <2> QED
    BY <2>2, <2>3 DEF MapExact
<1>11. FreeExact(R)
  <2>1. /\ DOMAIN S.free = 1..Len(S.free) /\ Len(S.free) \in Nat
        /\ DOMAIN R.free = 1..(Len(S.free) + 1)
        /\ \A a \in 1..Len(S.free) : R.free[a] = S.free[a]
        /\ R.free[Len(S.free) + 1] = idx
    BY <1>1, <1>7, ShardParts
  <2>2. DOMAIN R.nodes \ Live(R) = (DOMAIN S.nodes \ Live(S)) \cup {idx}
    BY <1>3, <1>5, <1>7, <1>8
  <2> DEFINE m == Len(S.free)
             Empties == DOMAIN S.nodes \ Live(S)
  <2>3. /\ \A a \in 1..m : S.free[a] \in Empties /\ S.free[a] # idx
        /\ \A a, b \in 1..m : S.free[a] = S.free[b] => a = b
        /\ \A i \in Empties : \E a \in 1..m : S.free[a] = i
    <3>1. DOMAIN S.free = 1..m /\ idx \notin Empties
      BY <2>1
    <3> HIDE DEF m
    <3> QED
      BY <3>1, <1>1 DEF FreeExact
  <2>7. /\ m \in Nat /\ DOMAIN R.free = 1..(m + 1)
        /\ \A a \in 1..(m + 1) : R.free[a] = IF a = m + 1 THEN idx ELSE S.free[a]
    BY <2>1
  <2>8. DOMAIN R.nodes \ Live(R) = Empties \cup {idx}
    BY <2>2
  <2> HIDE DEF m, Empties
  <2>9. \A a \in 1..(m + 1) : a = m + 1 \/ a \in 1..m
    BY <2>7
  <2>4. \A a \in DOMAIN R.free : R.free[a] \in DOMAIN R.nodes \ Live(R)
    BY <2>3, <2>7, <2>8, <2>9
  <2>5. \A a, b \in DOMAIN R.free : R.free[a] = R.free[b] => a = b
    BY <2>3, <2>7, <2>9
  <2>6. \A i \in DOMAIN R.nodes \ Live(R) : \E a \in DOMAIN R.free : R.free[a] = i
    <3>1. m + 1 \in 1..(m + 1) /\ \A a \in 1..m : a \in 1..(m + 1) /\ a # m + 1
      BY <2>7
    <3> QED
      BY <3>1, <2>3, <2>7, <2>8
  <2> QED
    BY <2>4, <2>5, <2>6 DEF FreeExact
<1>12. n \in Nat
  BY <1>1 DEF LruChain
<1>13. LiveCount(R) = n - 1
  <2>1. /\ Len(R.nodes) = Len(S.nodes) /\ Len(S.nodes) \in Nat
        /\ Len(R.free) = Len(S.free) + 1 /\ Len(S.free) \in Nat
    BY <1>1, <1>5, <1>7, ShardParts
  <2> QED
    BY <2>1 DEF LiveCount
<1>14. ASSUME NEW order, NEW p \in 1..n, Lists(S, order), order[p] = idx
       PROVE  Lists(R, DropAt(order, n, p))
  <2>1. order \in [1..n -> DOMAIN S.nodes] /\ LruOrder(S, order)
    BY <1>14 DEF Lists
  <2>2. order \in [1..n -> Nat]
    BY <2>1, <1>1, ShardParts
  <2> DEFINE o == DropAt(order, n, p)
  <2> HIDE DEF n
  <2>3. Linked(S, n, order)
    BY <2>1 DEF LruOrder, n
  <2>4. Linked(L, n - 1, o)
    BY <1>12, <2>2, <1>14, <2>3, <1>1, RemoveLinked DEF L
  <2>5. /\ \A i \in 1..(n - 1) : o[i] = IF i < p THEN order[i] ELSE order[i + 1]
        /\ o \in [1..(n - 1) -> DOMAIN R.nodes]
    BY <1>12, <2>1, <1>5, <1>7 DEF DropAt
  <2> HIDE DEF o
  <2>6. \A i, j \in 1..n : order[i] = order[j] => i = j
    BY <2>3 DEF Linked
  <2>7. \A i \in 1..(n - 1) : o[i] \in Live(S) /\ o[i] # idx
    <3>1. order[p] = idx /\ \A i \in 1..n : order[i] \in Live(S)
      BY <1>14, <2>3 DEF Linked
    <3> QED
      BY <3>1, <1>12, <2>5, <2>6
  <2>8. \A i \in 1..(n - 1) : o[i] \in Live(R) /\ R.nodes[o[i]] = L.nodes[o[i]]
    BY <2>7, <1>8, <1>9
  <2>9. Linked(R, n - 1, o)
    <3> DEFINE k == n - 1
    <3>1. Linked(L, k, o)
      BY <2>4
    <3>2. \A i \in 1..k : /\ o[i] \in Live(R)
                          /\ R.nodes[o[i]].prev = L.nodes[o[i]].prev
                          /\ R.nodes[o[i]].next = L.nodes[o[i]].next
      BY <2>8
    <3>3. R.head = L.head /\ R.tail = L.tail
      BY <1>7
    <3> HIDE DEF k
    <3>4. Linked(R, k, o)
      BY <3>1, <3>2, <3>3, SameLinks
    <3> QED
      BY <3>4 DEF k
  <2>10. ASSUME NEW s \in Live(R)
         PROVE  \E i \in 1..(n - 1) : o[i] = s
    <3>1. PICK i \in 1..n : order[i] = s
      BY <2>1, <1>8 DEF LruOrder, n
    <3>2. i # p
      BY <3>1, <1>14, <1>8
    <3>3. CASE i < p
      BY <3>1, <3>3, <1>12, <2>5
    <3>4. CASE i > p
      <4>1. i - 1 \in 1..(n - 1) /\ ~(i - 1 < p) /\ (i - 1) + 1 = i
        BY <3>4, <1>12
      <4> QED
        BY <4>1, <3>1, <2>5
    <3> QED
      BY <3>2, <3>3, <3>4, <1>12
  <2> QED
    BY <1>13, <2>5, <2>9, <2>10 DEF Lists, LruOrder, o
<1>15. LruChain(R)
  <2>1. PICK order \in [1..n -> DOMAIN S.nodes] : LruOrder(S, order)
    BY <1>1 DEF LruChain
  <2>2. PICK p \in 1..n : order[p] = idx
    BY <2>1 DEF LruOrder
  <2>3. Lists(R, DropAt(order, n, p))
    BY <2>1, <2>2, <1>14 DEF Lists
  <2>4. n - 1 \in Nat
    BY <1>12, <2>2
  <2> QED
    BY <2>3, <2>4, <1>13 DEF LruChain, Lists
<1>16. OrderDrops(S, R, idx)
  BY <1>13, <1>14 DEF OrderDrops
<1> QED
  BY <1>5, <1>7, <1>8, <1>9, <1>10, <1>11, <1>15, <1>16
  DEF RemovedAt, Structured

(* touch moves a live slot to the end of the list and changes nothing else. *)
LEMMA Touch ==
  ASSUME NEW S, Structured(S), NEW idx \in Live(S),
         NEW R, R = touch(S, idx)
  PROVE  Structured(R) /\ SameContent(S, R) /\ OrderMoves(S, R, idx)
<1>1. S \in Shard /\ LruChain(S) /\ MapExact(S) /\ FreeExact(S)
  BY DEF Structured
<1>2. CASE S.tail = idx
  <2>1. R = S
    BY <1>2 DEF touch
  <2>2. LiveCount(S) \in Nat
    BY <1>1 DEF LruChain
  <2>3. ASSUME NEW order, NEW p \in 1..LiveCount(S), Lists(S, order),
               order[p] = idx
        PROVE  AddLast(DropAt(order, LiveCount(S), p), LiveCount(S) - 1, idx)
                 = order
    <3> DEFINE n == LiveCount(S)
    <3>1. order \in [1..n -> DOMAIN S.nodes] /\ Linked(S, n, order)
      BY <2>3 DEF Lists, LruOrder
    <3> HIDE DEF n
    <3>2. n \in 1..n /\ order[n] = idx
      BY <2>2, <3>1, <1>2 DEF Linked, n
    <3>3. p = n
      BY <3>1, <3>2, <2>3 DEF Linked, n
    <3>4. DropAt(order, n, p) = [i \in 1..(n - 1) |-> order[i]]
      BY <3>3, <2>2 DEF DropAt, n
    <3>5. AddLast(DropAt(order, n, p), n - 1, idx) = [i \in 1..n |-> order[i]]
      BY <3>2, <3>4, <2>2 DEF AddLast, n
    <3> QED
      BY <3>1, <3>5 DEF n
  <2> QED
    BY <2>1, <2>3 DEF SameContent, OrderMoves
<1>3. CASE S.tail # idx
  <2> DEFINE L == lru_remove(S, idx)
             n == LiveCount(S)
  <2>1. L \in Shard /\ SameContent(S, L)
    BY <1>1, RemoveContent
  <2>2. Live(L) = Live(S) /\ DOMAIN L.nodes = DOMAIN S.nodes
    BY <2>1, <1>1, ShardParts DEF SameContent
  <2>3. R = lru_push_back(L, idx)
    BY <1>3 DEF touch
  <2> HIDE DEF L
  <2>4. R \in Shard /\ SameContent(L, R)
    BY <2>1, <2>2, <2>3, PushContent
  <2>5. SameContent(S, R)
    BY <2>1, <2>4 DEF SameContent
  <2>6. n \in Nat
    BY <1>1 DEF LruChain
  <2>7. LiveCount(R) = n
    BY <2>5 DEF SameContent, LiveCount
  <2>8. Live(R) = Live(S) /\ DOMAIN R.nodes = DOMAIN S.nodes
    BY <1>1, <2>4, <2>5, ShardParts DEF SameContent
  <2>9. ASSUME NEW order, NEW p \in 1..n, Lists(S, order), order[p] = idx
        PROVE  Lists(R, AddLast(DropAt(order, n, p), n - 1, idx))
    <3>1. order \in [1..n -> DOMAIN S.nodes] /\ LruOrder(S, order)
      BY <2>9 DEF Lists
    <3>2. order \in [1..n -> Nat]
      BY <3>1, <1>1, ShardParts
    <3>3. Linked(S, n, order)
      BY <3>1 DEF LruOrder
    <3> DEFINE d == DropAt(order, n, p)
               o == AddLast(d, n - 1, idx)
    <3> HIDE DEF n
    <3>4. Linked(L, n - 1, d)
      BY <2>6, <2>9, <3>2, <3>3, <1>1, RemoveLinked DEF L
    <3>5. /\ n - 1 \in Nat /\ (n - 1) + 1 = n
          /\ d \in [1..(n - 1) -> DOMAIN S.nodes]
          /\ d \in [1..(n - 1) -> Nat]
          /\ \A i \in 1..(n - 1) : d[i] = IF i < p THEN order[i] ELSE order[i + 1]
      BY <2>6, <2>9, <3>1, <3>2 DEF DropAt
    <3>6. \A i, j \in 1..n : order[i] = order[j] => i = j
      BY <3>3 DEF Linked
    <3> HIDE DEF d
    <3>7. ASSUME NEW i \in 1..(n - 1)
          PROVE  d[i] # idx
      <4>1. /\ i \in 1..n /\ i + 1 \in 1..n /\ (i < p => i # p)
            /\ (~(i < p) => i + 1 # p)
        BY <2>6
      <4>2. order[i] = idx => i = p
        BY <4>1, <2>9, <3>6
      <4>3. order[i + 1] = idx => i + 1 = p
        BY <4>1, <2>9, <3>6
      <4> QED
        BY <4>1, <4>2, <4>3, <3>5
    <3>8. Linked(R, n, o)
      <4>1. Linked(R, (n - 1) + 1, o)
        BY <2>1, <2>2, <2>3, <3>4, <3>5, <3>7, PushLinked
      <4> QED
        BY <4>1, <3>5
    <3>9. /\ \A i \in 1..n : o[i] = IF i = n THEN idx ELSE d[i]
          /\ o \in [1..n -> DOMAIN R.nodes]
      <4>1. idx \in DOMAIN S.nodes
        BY DEF Live
      <4>2. o = [i \in 1..n |-> IF i = n THEN idx ELSE d[i]]
        BY <3>5 DEF AddLast
      <4> QED
        BY <4>1, <4>2, <2>8, <3>5
    <3> HIDE DEF o
    <3>10. ASSUME NEW s \in Live(R)
           PROVE  \E i \in 1..n : o[i] = s
      <4>1. PICK i \in 1..n : order[i] = s
        BY <3>1, <2>8 DEF LruOrder, n
      <4>2. CASE i = p
        <5>1. n \in 1..n /\ o[n] = s
          BY <4>1, <4>2, <2>6, <2>9, <3>9
        <5> QED
          BY <5>1
      <4>3. CASE i < p
        BY <4>1, <4>3, <2>6, <3>5, <3>9
      <4>4. CASE i > p
        <5>1. i - 1 \in 1..(n - 1) /\ ~(i - 1 < p) /\ (i - 1) + 1 = i
              /\ i - 1 # n /\ i - 1 \in 1..n
          BY <4>4, <2>6
        <5> QED
          BY <5>1, <4>1, <3>5, <3>9
      <4> QED
        BY <4>2, <4>3, <4>4, <2>6
    <3> QED
      BY <2>7, <3>8, <3>9, <3>10 DEF Lists, LruOrder, o, d
  <2>10. LruChain(R)
    <3>1. PICK order \in [1..n -> DOMAIN S.nodes] : LruOrder(S, order)
      BY <1>1 DEF LruChain
    <3>2. PICK p \in 1..n : order[p] = idx
      BY <3>1 DEF LruOrder
    <3>3. Lists(R, AddLast(DropAt(order, n, p), n - 1, idx))
      BY <3>1, <3>2, <2>9 DEF Lists
    <3> QED
      BY <3>3, <2>6, <2>7 DEF LruChain, Lists
  <2>11. MapExact(R)
    BY <1>1, <2>5 DEF MapExact, SameContent
  <2>12. FreeExact(R)
    BY <1>1, <2>5, <2>8 DEF FreeExact, SameContent
  <2>13. OrderMoves(S, R, idx)
    BY <2>7, <2>9 DEF OrderMoves
  <2> QED
    BY <2>4, <2>5, <2>10, <2>11, <2>12, <2>13 DEF Structured
<1> QED
  BY <1>2, <1>3

(* The slot insert_new takes is empty, and taking it adds one live node.   *)
LEMMA OccupySlot ==
  ASSUME NEW S, Structured(S), NEW node \in Node,
         NEW idx, idx = NextSlot(S),
         NEW R, R = Occupy(S, node)
  PROVE  /\ R \in Shard
         /\ idx \notin Live(S)
         /\ Live(R) = Live(S) \cup {idx}
         /\ R.nodes[idx] = node
         /\ \A i \in Live(S) : R.nodes[i] = S.nodes[i]
         /\ DOMAIN S.nodes \subseteq DOMAIN R.nodes
         /\ LiveCount(R) = LiveCount(S) + 1
         /\ FreeExact(R)
         /\ R.map = S.map
         /\ R.ttl_heap = S.ttl_heap
         /\ R.head = S.head
         /\ R.tail = S.tail
<1>1. S \in Shard /\ FreeExact(S)
  BY DEF Structured
<1>2. /\ S.nodes \in Seq(Node \cup {NoNode}) /\ Len(S.nodes) \in Nat
      /\ DOMAIN S.nodes = 1..Len(S.nodes)
      /\ S.free \in Seq(Nat) /\ Len(S.free) \in Nat
      /\ DOMAIN S.free = 1..Len(S.free)
  BY <1>1, ShardParts
<1>3. node # NoNode
  BY NoNodeAssumption
<1>4. CASE S.free = <<>>
  <2> DEFINE N == Append(S.nodes, node)
  <2>1. /\ N \in Seq(Node \cup {NoNode}) /\ Len(N) = Len(S.nodes) + 1
        /\ DOMAIN N = 1..(Len(S.nodes) + 1)
        /\ idx = Len(S.nodes) + 1 /\ N[idx] = node
        /\ \A i \in 1..Len(S.nodes) : N[i] = S.nodes[i]
    BY <1>2, <1>4 DEF NextSlot
  <2>2. R = [S EXCEPT !.nodes = N]
    BY <1>4 DEF Occupy
  <2> HIDE DEF N
  <2>3. /\ R \in Shard /\ R.nodes = N
        /\ R.map = S.map /\ R.free = S.free /\ R.ttl_heap = S.ttl_heap
        /\ R.head = S.head /\ R.tail = S.tail
    BY <1>1, <2>1, <2>2 DEF Shard
  <2>4. idx \notin DOMAIN S.nodes /\ DOMAIN R.nodes = DOMAIN S.nodes \cup {idx}
    BY <1>2, <2>1, <2>3
  <2>5. Live(R) = Live(S) \cup {idx}
    BY <1>2, <1>3, <2>1, <2>3, <2>4 DEF Live
  <2>6. LiveCount(R) = LiveCount(S) + 1
    BY <1>2, <2>1, <2>3 DEF LiveCount
  <2>7. FreeExact(R)
    BY <1>1, <2>3, <2>4, <2>5 DEF FreeExact, Live
  <2> QED
    BY <1>2, <2>1, <2>3, <2>4, <2>5, <2>6, <2>7 DEF Live
<1>5. CASE S.free # <<>>
  <2> DEFINE m == Len(S.free)
             f == SubSeq(S.free, 1, m - 1)
             M == SetNode(S, idx, node)
  <2>1. m \in Nat \ {0} /\ idx = S.free[m] /\ m = Len(S.free)
    BY <1>2, <1>5 DEF NextSlot
  <2>2. idx \in DOMAIN S.nodes /\ idx \notin Live(S)
    BY <1>1, <1>2, <2>1 DEF FreeExact
  <2>3. /\ f \in Seq(Nat) /\ Len(f) = m - 1 /\ DOMAIN f = 1..(m - 1)
        /\ \A a \in 1..(m - 1) : f[a] = S.free[a]
    BY <1>2, <2>1
  <2>4. /\ M \in Shard /\ Len(M.nodes) = Len(S.nodes)
        /\ DOMAIN M.nodes = DOMAIN S.nodes /\ M.nodes[idx] = node
        /\ \A i \in DOMAIN S.nodes \ {idx} : M.nodes[i] = S.nodes[i]
        /\ M.map = S.map /\ M.free = S.free /\ M.ttl_heap = S.ttl_heap
        /\ M.head = S.head /\ M.tail = S.tail
    BY <1>1, <2>2, SetNodeParts
  <2>5. R = [M EXCEPT !.free = f]
    BY <1>5, <2>4 DEF Occupy
  <2> HIDE DEF M, f, m
  <2>6. /\ R \in Shard /\ R.nodes = M.nodes /\ R.free = f
        /\ R.map = S.map /\ R.ttl_heap = S.ttl_heap
        /\ R.head = S.head /\ R.tail = S.tail
    BY <2>3, <2>4, <2>5 DEF Shard
  <2>7. Live(R) = Live(S) \cup {idx}
    BY <1>3, <2>2, <2>4, <2>6 DEF Live
  <2>8. LiveCount(R) = LiveCount(S) + 1
    <3>1. Len(R.nodes) = Len(S.nodes) /\ Len(R.free) = m - 1
      BY <2>3, <2>4, <2>6
    <3> QED
      BY <3>1, <1>2, <2>1 DEF LiveCount
  <2>9. FreeExact(R)
    <3>1. DOMAIN R.nodes \ Live(R) = (DOMAIN S.nodes \ Live(S)) \ {idx}
      BY <2>4, <2>6, <2>7
    <3>2. \A a \in 1..(m - 1) : a \in DOMAIN S.free /\ m \in DOMAIN S.free /\ a # m
      BY <1>2, <2>1
    <3>3. \A a, b \in DOMAIN S.free : S.free[a] = S.free[b] => a = b
      BY <1>1 DEF FreeExact
    <3>4. \A a \in DOMAIN S.free : S.free[a] \in DOMAIN S.nodes \ Live(S)
      BY <1>1 DEF FreeExact
    <3>5. \A a \in 1..(m - 1) : S.free[a] # idx
      BY <2>1, <3>2, <3>3
    <3>6. DOMAIN R.free = 1..(m - 1) /\ \A a \in 1..(m - 1) : R.free[a] = S.free[a]
      BY <2>3, <2>6
    <3>7. \A a \in DOMAIN R.free : R.free[a] \in DOMAIN R.nodes \ Live(R)
      BY <3>1, <3>2, <3>4, <3>5, <3>6
    <3>8. \A a, b \in DOMAIN R.free : R.free[a] = R.free[b] => a = b
      BY <3>2, <3>3, <3>6
    <3>9. ASSUME NEW i \in DOMAIN R.nodes \ Live(R)
          PROVE  \E a \in DOMAIN R.free : R.free[a] = i
      <4>1. PICK a \in DOMAIN S.free : S.free[a] = i
        BY <1>1, <3>1 DEF FreeExact
      <4>2. a \in 1..(m - 1)
        BY <4>1, <3>1, <1>2, <2>1
      <4> QED
        BY <4>1, <4>2, <2>3, <2>6
    <3> QED
      BY <3>7, <3>8, <3>9 DEF FreeExact
  <2> QED
    BY <2>2, <2>4, <2>6, <2>7, <2>8, <2>9 DEF Live
<1> QED
  BY <1>4, <1>5

(* What insert_new does to a shard in order: one node more, at the end.    *)
InsertedAt(S, R, idx, key, value, size) ==
  /\ Structured(R)
  /\ idx \notin Live(S)
  /\ Live(R) = Live(S) \cup {idx}
  /\ R.nodes[idx].key = key
  /\ R.nodes[idx].value = value
  /\ R.nodes[idx].size = size
  /\ R.nodes[idx].expires_at = None
  /\ \A i \in Live(S) :
       /\ R.nodes[i].key = S.nodes[i].key
       /\ R.nodes[i].value = S.nodes[i].value
       /\ R.nodes[i].size = S.nodes[i].size
       /\ R.nodes[i].expires_at = S.nodes[i].expires_at
       /\ R.nodes[i].ttl_token = S.nodes[i].ttl_token
  /\ R.map = [S.map EXCEPT ![key] = idx]
  /\ R.ttl_heap = S.ttl_heap

LEMMA InsertNew ==
  ASSUME NEW S, Structured(S), NEW key \in Key, S.map[key] = None,
         NEW value \in Value, NEW size \in Nat,
         NEW idx, idx = NextSlot(S),
         NEW R, R = insert_new(S, key, value, size)
  PROVE  /\ InsertedAt(S, R, idx, key, value, size)
         /\ OrderAdds(S, R, idx)
<1> DEFINE node == [key |-> key, value |-> value, expires_at |-> None,
                    ttl_token |-> 0, size |-> size, prev |-> None,
                    next |-> None]
           O == Occupy(S, node)
           P == lru_push_back(O, idx)
           n == LiveCount(S)
<1>1. S \in Shard /\ LruChain(S) /\ MapExact(S) /\ FreeExact(S)
  BY DEF Structured
<1>2. /\ node \in Node /\ node.key = key /\ node.value = value
      /\ node.size = size /\ node.expires_at = None
  BY DEF Node, None
<1> HIDE DEF node
<1>3. /\ O \in Shard
      /\ idx \notin Live(S)
      /\ Live(O) = Live(S) \cup {idx}
      /\ O.nodes[idx] = node
      /\ \A i \in Live(S) : O.nodes[i] = S.nodes[i]
      /\ DOMAIN S.nodes \subseteq DOMAIN O.nodes
      /\ LiveCount(O) = LiveCount(S) + 1
      /\ FreeExact(O)
      /\ O.map = S.map
      /\ O.ttl_heap = S.ttl_heap
      /\ O.head = S.head
      /\ O.tail = S.tail
  BY <1>2, OccupySlot
<1>4. R = [P EXCEPT !.map[key] = idx]
  BY DEF insert_new, node
<1> HIDE DEF O
<1>5. P \in Shard /\ SameContent(O, P)
  BY <1>3, PushContent
<1>6. /\ Live(P) = Live(S) \cup {idx} /\ DOMAIN P.nodes = DOMAIN O.nodes
      /\ P.map = S.map /\ P.free = O.free /\ P.ttl_heap = S.ttl_heap
      /\ Len(P.nodes) = Len(O.nodes)
  BY <1>3, <1>5, ShardParts DEF SameContent
<1>7. n \in Nat
  BY <1>1 DEF LruChain
<1>8. LiveCount(P) = n + 1
  BY <1>3, <1>6 DEF LiveCount
<1> HIDE DEF P
<1>9. /\ R \in Shard /\ R.map = [S.map EXCEPT ![key] = idx]
       /\ R.nodes = P.nodes /\ R.free = P.free /\ R.ttl_heap = P.ttl_heap
       /\ R.head = P.head /\ R.tail = P.tail
  <2> DEFINE m == [S.map EXCEPT ![key] = idx]
  <2>1. idx \in Nat
    BY <1>5, <1>6, ShardParts
  <2>2. m \in [Key -> Nat]
    BY <2>1, <1>1, ShardParts
  <2>3. R = [P EXCEPT !.map = m]
    BY <1>4, <1>6
  <2> HIDE DEF m
  <2>4. /\ R \in Shard /\ R.map = m
        /\ R.nodes = P.nodes /\ R.free = P.free /\ R.ttl_heap = P.ttl_heap
        /\ R.head = P.head /\ R.tail = P.tail
    BY <1>5, <2>2, <2>3 DEF Shard
  <2> QED
    BY <2>4 DEF m
<1>10. Live(R) = Live(S) \cup {idx} /\ LiveCount(R) = n + 1
  BY <1>6, <1>8, <1>9 DEF Live, LiveCount
<1>11. idx \in Live(O)
  BY <1>3
<1>12. ASSUME NEW order, Lists(S, order)
       PROVE  Lists(R, AddLast(order, n, idx))
  <2>1. /\ order \in [1..n -> DOMAIN S.nodes] /\ Linked(S, n, order)
        /\ \A s \in Live(S) : \E i \in 1..n : order[i] = s
    BY <1>12 DEF Lists, LruOrder
  <2> DEFINE o == AddLast(order, n, idx)
  <2> HIDE DEF n
  <2>2. \A i \in 1..n : order[i] \in Live(S) /\ order[i] # idx
    BY <1>3, <2>1 DEF Linked
  <2>3. Linked(O, n, order)
    <3>1. \A i \in 1..n : /\ order[i] \in Live(O)
                          /\ O.nodes[order[i]] = S.nodes[order[i]]
      BY <1>3, <2>2
    <3> QED
      BY <1>3, <2>1, <3>1 DEF Linked
  <2>4. order \in [1..n -> Nat]
    BY <1>1, <2>1, ShardParts
  <2>5. Linked(P, n + 1, o)
    BY <1>3, <1>7, <2>2, <2>3, <2>4, <1>11, PushLinked DEF P
  <2>6. /\ \A i \in 1..(n + 1) : o[i] = IF i = n + 1 THEN idx ELSE order[i]
        /\ o \in [1..(n + 1) -> DOMAIN P.nodes]
    <3>1. idx \in DOMAIN P.nodes
      BY <1>6 DEF Live
    <3> QED
      BY <3>1, <1>3, <1>6, <1>7, <2>1 DEF AddLast
  <2> HIDE DEF o
  <2>7. Linked(R, n + 1, o)
    BY <2>5, <1>9 DEF Linked, Live
  <2>8. ASSUME NEW s \in Live(R)
        PROVE  \E i \in 1..(n + 1) : o[i] = s
    <3>1. CASE s = idx
      <4>1. n + 1 \in 1..(n + 1) /\ o[n + 1] = idx
        BY <1>7, <2>6
      <4> QED
        BY <3>1, <4>1
    <3>2. CASE s \in Live(S)
      <4>1. PICK i \in 1..n : order[i] = s
        BY <3>2, <2>1
      <4>2. i \in 1..(n + 1) /\ i # n + 1
        BY <1>7
      <4> QED
        BY <4>1, <4>2, <2>6
    <3> QED
      BY <3>1, <3>2, <1>10
  <2>9. LruOrder(R, o)
    BY <2>7, <2>8, <1>10 DEF LruOrder
  <2> QED
    BY <2>6, <2>9, <1>9, <1>10 DEF Lists, o
<1>13. OrderAdds(S, R, idx)
  BY <1>12, <1>10 DEF OrderAdds
<1>14. LruChain(R)
  <2>1. PICK order : Lists(S, order)
    BY <1>1 DEF LruChain, Lists
  <2>2. Lists(R, AddLast(order, n, idx)) /\ LiveCount(R) \in Nat
    BY <2>1, <1>7, <1>12, <1>10
  <2> QED
    BY <2>2 DEF LruChain, Lists
<1>15. /\ R.nodes[idx].key = key /\ R.nodes[idx].value = value
       /\ R.nodes[idx].size = size /\ R.nodes[idx].expires_at = None
  BY <1>2, <1>3, <1>5, <1>11, <1>9 DEF SameContent
<1>16. \A i \in Live(S) :
         /\ R.nodes[i].key = S.nodes[i].key
         /\ R.nodes[i].value = S.nodes[i].value
         /\ R.nodes[i].size = S.nodes[i].size
         /\ R.nodes[i].expires_at = S.nodes[i].expires_at
         /\ R.nodes[i].ttl_token = S.nodes[i].ttl_token
  <2>1. \A i \in Live(S) : i \in Live(O) /\ O.nodes[i] = S.nodes[i]
    BY <1>3
  <2> QED
    BY <2>1, <1>5, <1>9 DEF SameContent
<1>17. MapExact(R)
  <2>1. \A k \in Key : R.map[k] = IF k = key THEN idx ELSE S.map[k]
    BY <1>1, <1>9, ShardParts
  <2>2. ASSUME NEW k \in Key, R.map[k] # None
        PROVE  R.map[k] \in Live(R) /\ R.nodes[R.map[k]].key = k
    <3>1. CASE k = key
      BY <3>1, <2>1, <1>10, <1>15
    <3>2. CASE k # key
      <4>1. R.map[k] = S.map[k] /\ S.map[k] # None
        BY <3>2, <2>1, <2>2
      <4>2. S.map[k] \in Live(S) /\ S.nodes[S.map[k]].key = k
        BY <4>1, <1>1 DEF MapExact
      <4> QED
        BY <4>1, <4>2, <1>10, <1>16
    <3> QED
      BY <3>1, <3>2
  <2>3. ASSUME NEW i \in Live(R)
        PROVE  R.map[R.nodes[i].key] = i
    <3>1. CASE i = idx
      BY <3>1, <2>1, <1>15
    <3>2. CASE i \in Live(S)
      <4>1. S.nodes[i].key \in Key /\ S.map[S.nodes[i].key] = i /\ i # None
        BY <3>2, <1>1, ShardParts DEF MapExact, Node, None
      <4>2. S.nodes[i].key # key
        BY <4>1
      <4> QED
        BY <3>2, <4>1, <4>2, <2>1, <1>16
    <3> QED
      BY <3>1, <3>2, <1>10
  <2> QED
    BY <2>2, <2>3 DEF MapExact
<1>18. FreeExact(R)
  BY <1>3, <1>6, <1>9, <1>10 DEF FreeExact
<1> QED
  BY <1>3, <1>6, <1>13, <1>9, <1>10, <1>14, <1>15, <1>16, <1>17, <1>18
  DEF InsertedAt, Structured

(* New content for a live node that keeps its key and its links. *)
LEMMA SetContent ==
  ASSUME NEW S, Structured(S), NEW idx \in Live(S), NEW node \in Node,
         node.key = S.nodes[idx].key,
         node.prev = S.nodes[idx].prev,
         node.next = S.nodes[idx].next,
         NEW R, R = SetNode(S, idx, node)
  PROVE  /\ Structured(R)
         /\ Live(R) = Live(S)
         /\ R.nodes[idx] = node
         /\ \A i \in Live(S) \ {idx} : R.nodes[i] = S.nodes[i]
         /\ R.map = S.map
         /\ R.ttl_heap = S.ttl_heap
         /\ OrderKept(S, R)
<1>1. S \in Shard /\ LruChain(S) /\ MapExact(S) /\ FreeExact(S)
  BY DEF Structured
<1>2. idx \in DOMAIN S.nodes /\ node # NoNode
  BY NoNodeAssumption DEF Live
<1>3. /\ R \in Shard /\ Len(R.nodes) = Len(S.nodes)
      /\ DOMAIN R.nodes = DOMAIN S.nodes /\ R.nodes[idx] = node
      /\ \A i \in DOMAIN S.nodes \ {idx} : R.nodes[i] = S.nodes[i]
      /\ R.map = S.map /\ R.free = S.free /\ R.ttl_heap = S.ttl_heap
      /\ R.head = S.head /\ R.tail = S.tail
  BY <1>1, <1>2, SetNodeParts
<1>4. Live(R) = Live(S)
  BY <1>2, <1>3 DEF Live
<1>5. \A i \in Live(S) : /\ R.nodes[i].key = S.nodes[i].key
                         /\ R.nodes[i].prev = S.nodes[i].prev
                         /\ R.nodes[i].next = S.nodes[i].next
  BY <1>3 DEF Live
<1>6. LiveCount(R) = LiveCount(S)
  BY <1>3 DEF LiveCount
<1>7. LruChain(R) /\ OrderKept(S, R)
  <2>1. ASSUME NEW order, LruOrder(S, order)
        PROVE  LruOrder(R, order)
    <3> DEFINE n == LiveCount(S)
    <3>1. Linked(S, n, order)
      BY <2>1 DEF LruOrder
    <3>2. \A i \in 1..n : order[i] \in Live(S)
      BY <3>1 DEF Linked
    <3> HIDE DEF n
    <3>3. Linked(R, n, order)
      BY <3>1, <3>2, <1>3, <1>4, <1>5, SameLinks
    <3> QED
      BY <2>1, <3>3, <1>4, <1>6 DEF LruOrder, n
  <2>2. OrderKept(S, R)
    BY <2>1, <1>3, <1>6 DEF OrderKept, Lists
  <2> QED
    BY <2>1, <2>2, <1>1, <1>3, <1>6 DEF LruChain
<1>8. MapExact(R)
  BY <1>1, <1>3, <1>4, <1>5 DEF MapExact
<1>9. FreeExact(R)
  BY <1>1, <1>3, <1>4 DEF FreeExact
<1> QED
  BY <1>3, <1>4, <1>7, <1>8, <1>9 DEF Structured, Live

(* The heap does not matter to the list, the map and the free stack. *)
LEMMA SetHeap ==
  ASSUME NEW S, Structured(S), NEW H \in SUBSET ExpirationEntry,
         NEW R, R = [S EXCEPT !.ttl_heap = H]
  PROVE  /\ Structured(R)
         /\ Live(R) = Live(S)
         /\ R.nodes = S.nodes
         /\ R.map = S.map
         /\ R.ttl_heap = H
         /\ OrderKept(S, R)
<1>1. S \in Shard /\ LruChain(S) /\ MapExact(S) /\ FreeExact(S)
  BY DEF Structured
<1>2. /\ R \in Shard /\ R.nodes = S.nodes /\ R.map = S.map
      /\ R.free = S.free /\ R.ttl_heap = H
      /\ R.head = S.head /\ R.tail = S.tail
  BY <1>1 DEF Shard
<1>3. Live(R) = Live(S) /\ LiveCount(R) = LiveCount(S)
  BY <1>2 DEF Live, LiveCount
<1>4. LruChain(R) /\ OrderKept(S, R)
  <2>1. ASSUME NEW order, LruOrder(S, order)
        PROVE  LruOrder(R, order)
    BY <2>1, <1>2, <1>3 DEF LruOrder, Linked
  <2>2. OrderKept(S, R)
    BY <2>1, <1>2, <1>3 DEF OrderKept, Lists
  <2> QED
    BY <2>1, <2>2, <1>1, <1>2, <1>3 DEF LruChain
<1> QED
  BY <1>1, <1>2, <1>3, <1>4 DEF Structured, MapExact, FreeExact

-----------------------------------------------------------------------------
(* The heap of deadlines keeps covering the live nodes.                    *)

(* The heap entry of slot i. *)
EntryOf(S, i) ==
  [expires_at |-> S.nodes[i].expires_at, idx |-> i,
   token |-> S.nodes[i].ttl_token]

(* Removing a node leaves at most a stale entry behind. *)
LEMMA RemovedCovers ==
  ASSUME NEW S, NEW R, NEW idx, TtlHeapCovers(S), RemovedAt(S, R, idx)
  PROVE  TtlHeapCovers(R)
BY DEF TtlHeapCovers, RemovedAt

(* Relinking the list does not concern the heap. *)
LEMMA SameContentCovers ==
  ASSUME NEW S, NEW R, TtlHeapCovers(S), SameContent(S, R)
  PROVE  TtlHeapCovers(R)
BY DEF TtlHeapCovers, SameContent

(* A fresh node has no deadline. *)
LEMMA InsertedCovers ==
  ASSUME NEW S, NEW R, NEW idx, NEW key, NEW value, NEW size,
         TtlHeapCovers(S), InsertedAt(S, R, idx, key, value, size)
  PROVE  TtlHeapCovers(R)
BY DEF TtlHeapCovers, InsertedAt

(* The heap entry of a live node matches that node. *)
LEMMA EntryMatches ==
  ASSUME NEW S, Structured(S), NEW i \in Live(S)
  PROVE  /\ EntryOf(S, i) \in ExpirationEntry
         /\ EntryOf(S, i).idx = i
         /\ EntryOf(S, i).expires_at = S.nodes[i].expires_at
         /\ Matches(S, EntryOf(S, i))
<1>1. S.nodes[i] \in Node /\ i \in Nat
  BY ShardParts DEF Structured
<1> QED
  BY <1>1 DEF EntryOf, Matches, ExpirationEntry, Node

(* schedule_expiration pushes an entry and changes nothing else. *)
Scheduled(S, R, entry) ==
  /\ Structured(R)
  /\ Live(R) = Live(S)
  /\ R.nodes = S.nodes
  /\ R.map = S.map
  /\ R.ttl_heap = S.ttl_heap \cup {entry}

LEMMA Schedule ==
  ASSUME NEW S, Structured(S), NEW idx \in Nat, NEW expires_at \in Nat,
         NEW token \in Nat,
         NEW R, R = schedule_expiration(S, idx, expires_at, token),
         NEW entry,
         entry = [expires_at |-> expires_at, idx |-> idx, token |-> token]
  PROVE  Scheduled(S, R, entry) /\ OrderKept(S, R)
<1> DEFINE H == S.ttl_heap \cup {entry}
<1>1. S \in Shard
  BY DEF Structured
<1>2. entry \in ExpirationEntry
  BY DEF ExpirationEntry
<1>3. H \in SUBSET ExpirationEntry
  BY <1>1, <1>2, ShardParts
<1>4. R = [S EXCEPT !.ttl_heap = H]
  BY <1>1 DEF schedule_expiration
<1> HIDE DEF H
<1>5. /\ Structured(R) /\ Live(R) = Live(S) /\ R.nodes = S.nodes
      /\ R.map = S.map /\ R.ttl_heap = H /\ OrderKept(S, R)
  BY <1>3, <1>4, SetHeap
<1> QED
  BY <1>5 DEF H, Scheduled

(* pop_due_expiration pops entries and changes nothing else. *)
LEMMA PopDue ==
  ASSUME NEW S, Structured(S), NEW instant \in Nat,
         NEW R, R = pop_due_expiration(S, instant)
  PROVE  /\ Structured(R)
         /\ Live(R) = Live(S)
         /\ R.nodes = S.nodes
         /\ R.map = S.map
         /\ R.ttl_heap =
              {h \in S.ttl_heap :
                 IF DueLive(S, instant) = {}
                 THEN h.expires_at > instant
                 ELSE \A e \in due_expiration(S, instant) : Precedes(e, h)}
         /\ OrderKept(S, R)
<1> DEFINE H == {h \in S.ttl_heap :
                   IF DueLive(S, instant) = {}
                   THEN h.expires_at > instant
                   ELSE \A e \in due_expiration(S, instant) : Precedes(e, h)}
<1>1. S \in Shard
  BY DEF Structured
<1>2. H \in SUBSET ExpirationEntry
  BY <1>1, ShardParts
<1>3. R = [S EXCEPT !.ttl_heap = H]
  BY <1>1 DEF pop_due_expiration
<1> HIDE DEF H
<1>4. /\ Structured(R) /\ Live(R) = Live(S) /\ R.nodes = S.nodes
      /\ R.map = S.map /\ R.ttl_heap = H /\ OrderKept(S, R)
  BY <1>2, <1>3, SetHeap
<1> QED
  BY <1>4 DEF H

(* The last call of a sweep, which returns None, drops only stale entries. *)
LEMMA PopNoneCovers ==
  ASSUME NEW S, Structured(S), TtlHeapCovers(S), NEW instant \in Nat,
         DueLive(S, instant) = {},
         NEW R, R = pop_due_expiration(S, instant)
  PROVE  TtlHeapCovers(R)
<1>1. /\ Live(R) = Live(S) /\ R.nodes = S.nodes
      /\ R.ttl_heap = {h \in S.ttl_heap : h.expires_at > instant}
  BY PopDue
<1> SUFFICES ASSUME NEW i \in Live(S), S.nodes[i].expires_at # None
             PROVE  EntryOf(S, i) \in R.ttl_heap
  BY <1>1 DEF TtlHeapCovers, EntryOf
<1>2. EntryOf(S, i) \in S.ttl_heap
  BY DEF TtlHeapCovers, EntryOf
<1>3. Matches(S, EntryOf(S, i)) /\ EntryOf(S, i).expires_at \in Nat
  BY EntryMatches DEF ExpirationEntry
<1>4. EntryOf(S, i) \notin Due(S, instant)
  BY <1>3 DEF DueLive
<1> QED
  BY <1>1, <1>2, <1>3, <1>4 DEF Due

(* A round of the sweep: the entry returned is one of a live node, and when *)
(* that node is removed the heap still covers the others.                  *)
LEMMA PurgeOne ==
  ASSUME NEW S, Structured(S), TtlHeapCovers(S), NEW instant \in Nat,
         NEW e \in due_expiration(S, instant),
         NEW R, R = remove_idx(pop_due_expiration(S, instant), e.idx)
  PROVE  /\ e.idx \in Live(S)
         /\ Structured(R)
         /\ TtlHeapCovers(R)
<1> DEFINE T == pop_due_expiration(S, instant)
<1>1. /\ e \in DueLive(S, instant)
      /\ \A f \in DueLive(S, instant) : f = e \/ Precedes(e, f)
  BY DEF due_expiration
<1>2. e \in S.ttl_heap /\ e.expires_at <= instant /\ e.idx \in Live(S)
  BY <1>1 DEF DueLive, Due, Matches
<1>3. /\ Structured(T) /\ Live(T) = Live(S) /\ T.nodes = S.nodes
      /\ T.ttl_heap = {h \in S.ttl_heap :
                         \A d \in due_expiration(S, instant) : Precedes(d, h)}
  BY <1>1, PopDue
<1> HIDE DEF T
<1>4. RemovedAt(T, R, e.idx)
  BY <1>2, <1>3, RemoveIdx DEF T
<1>5. S.ttl_heap \subseteq ExpirationEntry
  BY ShardParts DEF Structured
<1>6. \A d \in due_expiration(S, instant) : d = e
  BY <1>1, <1>5 DEF due_expiration, DueLive, Due, Precedes, ExpirationEntry
<1> SUFFICES ASSUME NEW i \in Live(S) \ {e.idx},
                    S.nodes[i].expires_at # None
             PROVE  EntryOf(S, i) \in T.ttl_heap
  BY <1>2, <1>3, <1>4 DEF TtlHeapCovers, RemovedAt, EntryOf
<1>7. EntryOf(S, i) \in S.ttl_heap
  BY DEF TtlHeapCovers, EntryOf
<1>8. /\ Matches(S, EntryOf(S, i)) /\ EntryOf(S, i) \in ExpirationEntry
      /\ EntryOf(S, i).idx = i
  BY EntryMatches
<1>9. Precedes(e, EntryOf(S, i))
  <2>1. CASE EntryOf(S, i) \in Due(S, instant)
    BY <2>1, <1>1, <1>8 DEF DueLive
  <2>2. CASE EntryOf(S, i) \notin Due(S, instant)
    BY <2>2, <1>2, <1>5, <1>7, <1>8 DEF Due, Precedes, ExpirationEntry
  <2> QED
    BY <2>1, <2>2
<1> QED
  BY <1>3, <1>6, <1>7, <1>9

(***************************************************************************)
(* The engine: the inductive invariant and what follows from it.           *)
(***************************************************************************)

(* The shards are in order, and their heaps hold distinct issued tokens. *)
ShardsOK(all, next) ==
  /\ \A s \in Shards : Structured(all[s]) /\ TtlHeapCovers(all[s])
  /\ \A s \in Shards : \A e \in all[s].ttl_heap : e.token < next
  /\ \A r, s \in Shards :
       \A d \in all[r].ttl_heap, e \in all[s].ttl_heap :
         d.token = e.token => r = s /\ d = e

IInv == TypeOK /\ ShardsOK(shards, next_ttl_token)

(* What a step does to a shard S when the token counter goes from n to m:  *)
(* it stays in order, and its heap gains at most one entry, with token n.  *)
Keeps(S, R, n, m) ==
  /\ Structured(R)
  /\ TtlHeapCovers(R)
  /\ \/ R.ttl_heap \subseteq S.ttl_heap /\ m \in {n, n + 1}
     \/ /\ m = n + 1
        /\ \E e \in ExpirationEntry :
             e.token = n /\ R.ttl_heap \subseteq S.ttl_heap \cup {e}

-----------------------------------------------------------------------------
(* Lemmas on one shard.                                                    *)

(* A step that keeps one shard in order keeps all of them. *)
LEMMA OneShardKept ==
  ASSUME NEW n \in Nat, NEW m \in Nat,
         NEW all \in [Shards -> Shard], ShardsOK(all, n), NEW s \in Shards,
         NEW R, Keeps(all[s], R, n, m)
  PROVE  /\ [all EXCEPT ![s] = R] \in [Shards -> Shard]
         /\ ShardsOK([all EXCEPT ![s] = R], m)
<1> DEFINE new == [all EXCEPT ![s] = R]
<1>1. R \in Shard
  BY DEF Keeps, Structured
<1>2. /\ new \in [Shards -> Shard]
      /\ new[s] = R /\ \A r \in Shards \ {s} : new[r] = all[r]
  BY <1>1
<1> HIDE DEF new
<1>3. \A r \in Shards : Structured(new[r]) /\ TtlHeapCovers(new[r])
  BY <1>2 DEF Keeps, ShardsOK
<1>4. \A r \in Shards : all[r].ttl_heap \subseteq ExpirationEntry
  BY ShardParts
<1>5. /\ \A r \in Shards : \A e \in all[r].ttl_heap : e.token < n
      /\ \A q, r \in Shards :
           \A d \in all[q].ttl_heap, e \in all[r].ttl_heap :
             d.token = e.token => q = r /\ d = e
  BY DEF ShardsOK
<1>6. CASE R.ttl_heap \subseteq all[s].ttl_heap /\ m \in {n, n + 1}
  <2>1. \A r \in Shards : new[r].ttl_heap \subseteq all[r].ttl_heap
    BY <1>2, <1>6
  <2>2. \A r \in Shards : \A e \in new[r].ttl_heap : e.token < m
    BY <2>1, <1>4, <1>5, <1>6 DEF ExpirationEntry
  <2> QED
    BY <2>1, <2>2, <1>2, <1>3, <1>5 DEF ShardsOK, new
<1>7. ASSUME m = n + 1, NEW x \in ExpirationEntry, x.token = n,
             R.ttl_heap \subseteq all[s].ttl_heap \cup {x}
      PROVE  ShardsOK(new, m)
  <2>1. \A r \in Shards : \A e \in new[r].ttl_heap :
          e \in all[r].ttl_heap \/ (r = s /\ e = x)
    BY <1>2, <1>7
  <2>2. \A r \in Shards : \A e \in new[r].ttl_heap : e.token < m
    BY <2>1, <1>4, <1>5, <1>7 DEF ExpirationEntry
  <2>3. \A r \in Shards : \A e \in all[r].ttl_heap : e.token # x.token
    BY <1>4, <1>5, <1>7 DEF ExpirationEntry
  <2>4. \A q, r \in Shards :
          \A d \in new[q].ttl_heap, e \in new[r].ttl_heap :
            d.token = e.token => q = r /\ d = e
    BY <2>1, <2>3, <1>5
  <2> QED
    BY <2>2, <2>4, <1>3 DEF ShardsOK
<1> QED
  BY <1>2, <1>6, <1>7 DEF Keeps, new

(* The oldest entry of a shard is a live one. *)
LEMMA HeadLive ==
  ASSUME NEW S, Structured(S), S.head # None
  PROVE  S.head \in Live(S)
<1>1. PICK order \in [1..LiveCount(S) -> DOMAIN S.nodes] : LruOrder(S, order)
  BY DEF Structured, LruChain
<1>2. LiveCount(S) \in Nat /\ Linked(S, LiveCount(S), order)
  BY <1>1 DEF Structured, LruChain, LruOrder
<1>3. LiveCount(S) # 0 /\ S.head = order[1]
  BY <1>2 DEF Linked
<1> QED
  BY <1>2, <1>3 DEF Linked

(* remove_idx on a live slot keeps the shard in order. *)
LEMMA RemoveKeeps ==
  ASSUME NEW S, Structured(S), TtlHeapCovers(S), NEW idx \in Live(S),
         NEW n
  PROVE  Keeps(S, remove_idx(S, idx), n, n)
<1> DEFINE R == remove_idx(S, idx)
<1>1. RemovedAt(S, R, idx)
  BY RemoveIdx
<1> HIDE DEF R
<1>2. TtlHeapCovers(R)
  BY <1>1, RemovedCovers
<1>3. Structured(R) /\ R.ttl_heap = S.ttl_heap
  BY <1>1 DEF RemovedAt
<1> QED
  BY <1>2, <1>3 DEF Keeps, R

(* touch on a live slot keeps the shard in order. *)
LEMMA TouchKeeps ==
  ASSUME NEW S, Structured(S), TtlHeapCovers(S), NEW idx \in Live(S),
         NEW n
  PROVE  Keeps(S, touch(S, idx), n, n)
<1> DEFINE R == touch(S, idx)
<1>1. Structured(R) /\ SameContent(S, R)
  BY Touch
<1> HIDE DEF R
<1>2. TtlHeapCovers(R)
  BY <1>1, SameContentCovers
<1>3. R.ttl_heap = S.ttl_heap
  BY <1>1 DEF SameContent
<1> QED
  BY <1>1, <1>2, <1>3 DEF Keeps, R

(* New content with a fresh token n, scheduled if it has a deadline, keeps *)
(* the shard in order; T is the shard with the list relinked or not.       *)
LEMMA RewriteKeeps ==
  ASSUME NEW S, Structured(S), TtlHeapCovers(S), NEW idx \in Live(S),
         NEW n \in Nat, NEW node \in Node, node.ttl_token = n,
         node.key = S.nodes[idx].key,
         node.prev = S.nodes[idx].prev,
         node.next = S.nodes[idx].next,
         NEW T, Structured(T), SameContent(SetNode(S, idx, node), T),
         NEW R, R = ScheduleSome(T, idx, node.expires_at, n)
  PROVE  Keeps(S, R, n, n + 1)
<1> DEFINE W == SetNode(S, idx, node)
           x == [expires_at |-> node.expires_at, idx |-> idx, token |-> n]
<1>1. /\ Structured(W) /\ Live(W) = Live(S) /\ W.nodes[idx] = node
      /\ \A i \in Live(S) \ {idx} : W.nodes[i] = S.nodes[i]
      /\ W.ttl_heap = S.ttl_heap
  BY SetContent
<1>2. SameContent(W, T)
  OBVIOUS
<1> HIDE DEF W
<1>3. /\ Live(T) = Live(S) /\ T.ttl_heap = S.ttl_heap
      /\ T.nodes[idx].expires_at = node.expires_at
      /\ T.nodes[idx].ttl_token = n
      /\ \A i \in Live(S) \ {idx} :
           /\ T.nodes[i].expires_at = S.nodes[i].expires_at
           /\ T.nodes[i].ttl_token = S.nodes[i].ttl_token
  BY <1>1, <1>2 DEF SameContent
<1>4. idx \in Nat /\ node.expires_at \in Nat
  BY ShardParts DEF Structured, Node
<1>5. x \in ExpirationEntry /\ x.token = n
  BY <1>4 DEF ExpirationEntry
<1>6. CASE node.expires_at = None
  <2>1. R = T
    BY <1>6 DEF ScheduleSome
  <2>2. TtlHeapCovers(R)
    BY <2>1, <1>3, <1>6 DEF TtlHeapCovers
  <2> QED
    BY <2>1, <2>2, <1>3 DEF Keeps
<1>7. CASE node.expires_at # None
  <2>1. R = schedule_expiration(T, idx, node.expires_at, n)
    BY <1>7 DEF ScheduleSome
  <2>2. Scheduled(T, R, x)
    BY <2>1, <1>4, Schedule
  <2>3. TtlHeapCovers(R)
    BY <2>2, <1>3 DEF TtlHeapCovers, Scheduled
  <2> QED
    BY <2>2, <2>3, <1>3, <1>5 DEF Keeps, Scheduled
<1> QED
  BY <1>6, <1>7

-----------------------------------------------------------------------------
(* Lemmas on the state.                                                    *)

(* The request of a thread inside a call has the fields its operation uses. *)
LEMMA RequestParts ==
  ASSUME NEW r \in Request
  PROVE  /\ r.key \in Key
         /\ r.op \in {"set", "set_with_ttl"} => r.value \in Value
         /\ r.op \in {"expire", "set_with_ttl"} => r.ttl \in Nat
BY DEF Request

(* The parts of a step's state that belong to its caller. *)
LEMMA CallerParts ==
  ASSUME IInv, NEW t \in Thread, pc[t] # "idle"
  PROVE  /\ req[t] \in Request
         /\ req[t].key \in Key
         /\ shard_for(t) \in Shards
         /\ now[t] \in Nat \ {None}
         /\ Structured(Inner(t))
         /\ TtlHeapCovers(Inner(t))
         /\ ~Absent(t) =>
              /\ Slot(t) \in Live(Inner(t))
              /\ Inner(t).nodes[Slot(t)] \in Node
              /\ Inner(t).nodes[Slot(t)].size \in Nat
<1>1. req[t] \in Request /\ now[t] \in Nat \ {None}
  BY DEF IInv, TypeOK
<1>2. req[t].key \in Key /\ shard_for(t) \in Shards
  BY <1>1, RequestParts, EngineAssumption DEF shard_for
<1>3. Structured(Inner(t)) /\ TtlHeapCovers(Inner(t))
  BY <1>2 DEF IInv, ShardsOK, Inner
<1>4. Inner(t) \in Shard /\ MapExact(Inner(t))
  BY <1>3 DEF Structured
<1>5. ASSUME ~Absent(t)
      PROVE  /\ Slot(t) \in Live(Inner(t))
             /\ Inner(t).nodes[Slot(t)] \in Node
             /\ Inner(t).nodes[Slot(t)].size \in Nat
  <2>1. Slot(t) \in Live(Inner(t))
    BY <1>2, <1>4, <1>5 DEF MapExact, Slot, Absent
  <2>2. Inner(t).nodes[Slot(t)] \in Node
    BY <2>1, <1>4, ShardParts
  <2> QED
    BY <2>1, <2>2 DEF Node
<1> QED
  BY <1>1, <1>2, <1>3, <1>5

(* A step that replaces shard s by one that keeps it in order. *)
LEMMA ShardStep ==
  ASSUME IInv, NEW s \in Shards, NEW R, SetShard(s, R),
         next_ttl_token' \in Nat,
         Keeps(shards[s], R, next_ttl_token, next_ttl_token')
  PROVE  /\ shards' \in [Shards -> Shard]
         /\ ShardsOK(shards', next_ttl_token')
<1>1. shards \in [Shards -> Shard] /\ next_ttl_token \in Nat
  BY DEF IInv, TypeOK
<1>2. shards' = [shards EXCEPT ![s] = R]
  BY DEF SetShard
<1> QED
  BY <1>1, <1>2, OneShardKept DEF IInv

(* A step that leaves the shards and the token counter alone. *)
LEMMA NoShardStep ==
  ASSUME IInv, UNCHANGED <<shards, next_ttl_token>>
  PROVE  /\ shards' \in [Shards -> Shard]
         /\ ShardsOK(shards', next_ttl_token')
BY DEF IInv, TypeOK

(* The byte counter stays in the range of usize, whatever is added to it. *)
LEMMA Wraps ==
  ASSUME IInv, NEW n \in Int
  PROVE  /\ FetchAdd(n) => used_bytes' \in 0..UsizeMax
         /\ FetchSub(n) => used_bytes' \in 0..UsizeMax
<1>1. used_bytes \in Int /\ UsizeMax + 1 \in Nat \ {0}
  BY EngineAssumption DEF IInv, TypeOK
<1>2. \A x \in Int : x % (UsizeMax + 1) \in 0..UsizeMax
  BY <1>1, EngineAssumption
<1> QED
  BY <1>1, <1>2 DEF FetchAdd, FetchSub

(* RemoveEntry drops the caller's entry. *)
LEMMA RemoveEntryStep ==
  ASSUME IInv, NEW t \in Thread, pc[t] # "idle", ~Absent(t),
         RemoveEntry(t), UNCHANGED next_ttl_token
  PROVE  /\ shards' \in [Shards -> Shard]
         /\ ShardsOK(shards', next_ttl_token')
         /\ used_bytes' \in 0..UsizeMax
<1>1. /\ shard_for(t) \in Shards
      /\ Structured(Inner(t)) /\ TtlHeapCovers(Inner(t))
      /\ Slot(t) \in Live(Inner(t))
      /\ Inner(t).nodes[Slot(t)].size \in Nat
  BY CallerParts
<1> DEFINE R == remove_idx(Inner(t), Slot(t))
<1>2. Keeps(Inner(t), R, next_ttl_token, next_ttl_token')
  BY <1>1, RemoveKeeps
<1>3. Inner(t) = shards[shard_for(t)]
  BY DEF Inner
<1>4. next_ttl_token' \in Nat /\ SetShard(shard_for(t), R)
  BY DEF IInv, TypeOK, RemoveEntry
<1> HIDE DEF R
<1>5. /\ shards' \in [Shards -> Shard]
      /\ ShardsOK(shards', next_ttl_token')
  BY <1>1, <1>2, <1>3, <1>4, ShardStep
<1>6. used_bytes' \in 0..UsizeMax
  BY <1>1, Wraps DEF RemoveEntry
<1> QED
  BY <1>5, <1>6

(* The callers' variables keep their types when one thread is given a new  *)
(* place p, request r and instant w.                                       *)
Callers ==
  /\ pc \in [Thread -> Pc]
  /\ req \in [Thread -> Request \cup {NoRequest}]
  /\ \A t \in Thread :
       /\ pc[t] # "idle" => req[t] \in Request /\ now[t] # None
       /\ pc[t] = "write" => req[t].op \in {"set", "set_with_ttl"}
  /\ now \in [Thread -> Nat]

LEMMA CallersStep ==
  ASSUME Callers, NEW t \in Thread, NEW p \in Pc,
         NEW r \in Request \cup {NoRequest}, NEW w \in Nat,
         p # "idle" => r \in Request /\ w # None,
         p = "write" => r.op \in {"set", "set_with_ttl"},
         pc' = [pc EXCEPT ![t] = p],
         req' = [req EXCEPT ![t] = r],
         now' = [now EXCEPT ![t] = w]
  PROVE  Callers'
BY DEF Callers

(* A thread that returns is idle and has no request. *)
LEMMA ReturnStep ==
  ASSUME Callers, NEW t \in Thread, NEW result, Return(t, result)
  PROVE  Callers'
<1>1. "idle" \in Pc /\ None \in Nat
  BY DEF Pc, None
<1> QED
  BY <1>1, CallersStep DEF Return

(* A thread that goes on with its call. *)
LEMMA PcStep ==
  ASSUME Callers, NEW t \in Thread, pc[t] # "idle",
         NEW p \in Pc \ {"idle"},
         p = "write" => req[t].op \in {"set", "set_with_ttl"},
         pc' = [pc EXCEPT ![t] = p],
         UNCHANGED <<req, now>>
  PROVE  Callers'
BY DEF Callers

(* The invariant after a step, from its parts. *)
LEMMA Assembled ==
  ASSUME IInv,
         shards' \in [Shards -> Shard],
         ShardsOK(shards', next_ttl_token'),
         lock' \in [Shards -> Thread \cup {Free, Sweeper}],
         used_bytes' \in 0..UsizeMax,
         eviction_cursor' \in Shards,
         next_ttl_token' \in Nat,
         clock' \in Nat \ {None},
         Callers',
         evict' \in [Thread -> [start: Shards, offset: Shards, size: Nat]],
         handle' \in {"none", "running", "stopping", "stopped"},
         sweep' \in [pc: {"none", "check", "sleep", "lock", "purge", "done"},
                     now: Nat, shard: Shards]
  PROVE  IInv'
BY DEF IInv, TypeOK, Callers

-----------------------------------------------------------------------------
(* The invariant is inductive: one lemma for each group of actions.        *)

(* The invariant holds of a new engine. *)
LEMMA InitIInv == Init => IInv
<1> SUFFICES ASSUME Init PROVE IInv
  OBVIOUS
<1>1. 0 \in Shards
  BY EngineAssumption DEF Shards
<1>2. EmptyShard \in Shard
  BY DEF EmptyShard, Shard, None
<1>3. /\ Live(EmptyShard) = {} /\ LiveCount(EmptyShard) = 0
      /\ EmptyShard.ttl_heap = {} /\ EmptyShard.free = <<>>
      /\ EmptyShard.nodes = <<>>
      /\ EmptyShard.head = None /\ EmptyShard.tail = None
      /\ \A k \in Key : EmptyShard.map[k] = None
  BY DEF EmptyShard, Live, LiveCount
<1>4. LruChain(EmptyShard)
  <2> DEFINE order == [i \in 1..0 |-> 0]
  <2>1. order \in [1..LiveCount(EmptyShard) -> DOMAIN EmptyShard.nodes]
    BY <1>3
  <2>2. LruOrder(EmptyShard, order)
    BY <1>3 DEF LruOrder, Linked
  <2>3. LiveCount(EmptyShard) \in Nat
    BY <1>3
  <2> HIDE DEF order
  <2> QED
    BY <2>1, <2>2, <2>3 DEF LruChain
<1>5. MapExact(EmptyShard) /\ FreeExact(EmptyShard) /\ TtlHeapCovers(EmptyShard)
  BY <1>3 DEF MapExact, FreeExact, TtlHeapCovers
<1>6. \A s \in Shards : shards[s] = EmptyShard
  BY DEF Init
<1>7. ShardsOK(shards, next_ttl_token)
  BY <1>2, <1>3, <1>4, <1>5, <1>6 DEF ShardsOK, Structured
<1>8. TypeOK
  BY <1>1, <1>2, EngineAssumption DEF Init, TypeOK, Pc, NoEvict, None
<1> QED
  BY <1>7, <1>8 DEF IInv

(* The variables that get, delete, expire and ttl leave alone. *)
LEMMA ReadKeeps ==
  ASSUME IInv, NEW t \in Thread,
         shards' \in [Shards -> Shard],
         ShardsOK(shards', next_ttl_token'),
         used_bytes' \in 0..UsizeMax,
         next_ttl_token' \in Nat,
         NEW result, Return(t, result),
         UNCHANGED <<lock, eviction_cursor, clock, evict, sweeper>>
  PROVE  IInv'
<1>1. Callers
  BY DEF IInv, TypeOK, Callers
<1>2. Callers'
  BY <1>1, ReturnStep
<1> QED
  BY <1>2, Assembled DEF IInv, TypeOK, sweeper

(* The invocation of a call preserves the invariant. *)
LEMMA CallStep ==
  ASSUME IInv, NEW t \in Thread, Call(t)
  PROVE  IInv'
<1>1. Callers
  BY DEF IInv, TypeOK, Callers
<1>2. PICK r \in Requests : req' = [req EXCEPT ![t] = r]
  BY DEF Call
<1>3. r \in Request /\ clock \in Nat \ {None} /\ "call" \in Pc
  BY EngineAssumption DEF IInv, TypeOK, Pc
<1>4. pc' = [pc EXCEPT ![t] = "call"] /\ now' = [now EXCEPT ![t] = clock]
  BY DEF Call
<1>5. Callers'
  BY <1>1, <1>2, <1>3, <1>4, CallersStep
<1>6. shards' \in [Shards -> Shard] /\ ShardsOK(shards', next_ttl_token')
  BY NoShardStep DEF Call, store
<1> QED
  BY <1>5, <1>6, Assembled DEF IInv, TypeOK, Call, store, sweeper

(* get preserves the invariant. *)
LEMMA getStep ==
  ASSUME IInv, NEW t \in Thread, get(t)
  PROVE  IInv'
<1>1. /\ pc[t] # "idle"
      /\ UNCHANGED <<lock, eviction_cursor, next_ttl_token, clock, evict, sweeper>>
      /\ used_bytes \in 0..UsizeMax /\ next_ttl_token' \in Nat
  BY DEF get, Enter, IInv, TypeOK
<1>2. CASE Absent(t)
  <2>1. UNCHANGED <<shards, used_bytes>> /\ Return(t, [is |-> "nil"])
    BY <1>2 DEF get, Expired, Present
  <2>2. shards' \in [Shards -> Shard] /\ ShardsOK(shards', next_ttl_token')
    BY <1>1, <2>1, NoShardStep
  <2> QED
    BY <1>1, <2>1, <2>2, ReadKeeps
<1>3. CASE Expired(t)
  <2>1. RemoveEntry(t) /\ Return(t, [is |-> "nil"]) /\ ~Absent(t)
    BY <1>3 DEF get, Expired, Present
  <2> QED
    BY <1>1, <2>1, RemoveEntryStep, ReadKeeps
<1>4. CASE Present(t)
  <2> DEFINE R == touch(Inner(t), Slot(t))
             result == [is |-> "value", value |-> Inner(t).nodes[Slot(t)].value]
  <2>1. /\ SetShard(shard_for(t), R) /\ UNCHANGED used_bytes
        /\ Return(t, result) /\ ~Absent(t)
    BY <1>4 DEF get, Present
  <2>2. /\ shard_for(t) \in Shards /\ Slot(t) \in Live(Inner(t))
        /\ Structured(Inner(t)) /\ TtlHeapCovers(Inner(t))
    BY <1>1, <2>1, CallerParts
  <2>3. Keeps(Inner(t), R, next_ttl_token, next_ttl_token')
    BY <1>1, <2>2, TouchKeeps
  <2> HIDE DEF R, result
  <2>4. shards' \in [Shards -> Shard] /\ ShardsOK(shards', next_ttl_token')
    BY <1>1, <2>1, <2>2, <2>3, ShardStep DEF Inner
  <2> QED
    BY <1>1, <2>1, <2>4, ReadKeeps
<1> QED
  BY <1>2, <1>3, <1>4 DEF Present

(* delete preserves the invariant. *)
LEMMA deleteStep ==
  ASSUME IInv, NEW t \in Thread, delete(t)
  PROVE  IInv'
<1>1. /\ pc[t] # "idle"
      /\ UNCHANGED <<lock, eviction_cursor, next_ttl_token, clock, evict, sweeper>>
      /\ used_bytes \in 0..UsizeMax /\ next_ttl_token' \in Nat
  BY DEF delete, Enter, IInv, TypeOK
<1>2. CASE Absent(t)
  <2>1. UNCHANGED <<shards, used_bytes>> /\ Return(t, [is |-> "deleted", live |-> FALSE])
    BY <1>2 DEF delete
  <2>2. shards' \in [Shards -> Shard] /\ ShardsOK(shards', next_ttl_token')
    BY <1>1, <2>1, NoShardStep
  <2> QED
    BY <1>1, <2>1, <2>2, ReadKeeps
<1>3. CASE ~Absent(t)
  <2>1. RemoveEntry(t) /\ Return(t, [is |-> "deleted", live |-> ~Expired(t)])
    BY <1>3 DEF delete
  <2> QED
    BY <1>1, <1>3, <2>1, RemoveEntryStep, ReadKeeps
<1> QED
  BY <1>2, <1>3

(* ttl preserves the invariant. *)
LEMMA ttlStep ==
  ASSUME IInv, NEW t \in Thread, ttl(t)
  PROVE  IInv'
<1>1. /\ pc[t] # "idle"
      /\ UNCHANGED <<lock, eviction_cursor, next_ttl_token, clock, evict, sweeper>>
      /\ used_bytes \in 0..UsizeMax /\ next_ttl_token' \in Nat
  BY DEF ttl, Enter, IInv, TypeOK
<1>2. CASE ~Expired(t)
  <2>1. UNCHANGED <<shards, used_bytes>> /\ \E result : Return(t, result)
    BY <1>2 DEF ttl
  <2>2. shards' \in [Shards -> Shard] /\ ShardsOK(shards', next_ttl_token')
    BY <1>1, <2>1, NoShardStep
  <2> QED
    BY <1>1, <2>1, <2>2, ReadKeeps
<1>3. CASE Expired(t)
  <2>1. RemoveEntry(t) /\ Return(t, [is |-> "missing"]) /\ ~Absent(t)
    BY <1>3 DEF ttl, Expired, Present
  <2> QED
    BY <1>1, <2>1, RemoveEntryStep, ReadKeeps
<1> QED
  BY <1>2, <1>3

(* expire preserves the invariant. *)
LEMMA expireStep ==
  ASSUME IInv, NEW t \in Thread, expire(t)
  PROVE  IInv'
<1>1. /\ pc[t] # "idle" /\ req[t].op = "expire"
      /\ UNCHANGED <<lock, eviction_cursor, clock, evict, sweeper>>
      /\ used_bytes \in 0..UsizeMax /\ next_ttl_token \in Nat
  BY DEF expire, Enter, IInv, TypeOK
<1>2. CASE Absent(t)
  <2>1. /\ UNCHANGED <<shards, used_bytes, next_ttl_token>>
        /\ Return(t, [is |-> "not_found"])
    BY <1>2 DEF expire, Expired, Present, store
  <2>2. shards' \in [Shards -> Shard] /\ ShardsOK(shards', next_ttl_token')
    BY <1>1, <2>1, NoShardStep
  <2> QED
    BY <1>1, <2>1, <2>2, ReadKeeps
<1>3. CASE Expired(t)
  <2>1. /\ RemoveEntry(t) /\ UNCHANGED next_ttl_token
        /\ Return(t, [is |-> "not_found"]) /\ ~Absent(t)
    BY <1>3 DEF expire, Expired, Present
  <2> QED
    BY <1>1, <2>1, RemoveEntryStep, ReadKeeps
<1>4. CASE Present(t)
  <2> DEFINE S == Inner(t)
             idx == Slot(t)
             n == next_ttl_token
             deadline == now[t] + req[t].ttl
             node == [S.nodes[idx] EXCEPT !.expires_at = deadline, !.ttl_token = n]
             W == SetNode(S, idx, node)
             R == schedule_expiration(W, idx, deadline, n)
  <2>1. /\ next_ttl_token' = n + 1 /\ SetShard(shard_for(t), R)
        /\ UNCHANGED used_bytes /\ Return(t, [is |-> "ok"]) /\ ~Absent(t)
    BY <1>4 DEF expire, Present, SetDeadline, TakeToken
  <2>2. /\ shard_for(t) \in Shards /\ idx \in Live(S) /\ S.nodes[idx] \in Node
        /\ Structured(S) /\ TtlHeapCovers(S)
        /\ now[t] \in Nat \ {None} /\ req[t] \in Request
    BY <1>1, <2>1, CallerParts
  <2>3. deadline \in Nat \ {None}
    BY <1>1, <2>2, RequestParts DEF None
  <2>4. S = shards[shard_for(t)]
    BY DEF Inner
  <2> HIDE DEF S, idx, deadline
  <2>5. /\ node \in Node /\ node.ttl_token = n /\ node.expires_at = deadline
        /\ node.key = S.nodes[idx].key
        /\ node.prev = S.nodes[idx].prev /\ node.next = S.nodes[idx].next
    BY <1>1, <2>2, <2>3 DEF Node
  <2> HIDE DEF node, n
  <2>6. Structured(W) /\ SameContent(W, W)
    BY <2>2, <2>5, SetContent DEF SameContent
  <2>7. Keeps(S, R, n, n + 1)
    <3>1. R = ScheduleSome(W, idx, node.expires_at, n)
      BY <2>3, <2>5 DEF ScheduleSome
    <3> QED
      BY <3>1, <1>1, <2>2, <2>5, <2>6, RewriteKeeps DEF n
  <2> HIDE DEF R
  <2>8. shards' \in [Shards -> Shard] /\ ShardsOK(shards', next_ttl_token')
    BY <1>1, <2>1, <2>2, <2>4, <2>7, ShardStep DEF n
  <2> QED
    BY <1>1, <2>1, <2>8, ReadKeeps DEF n
<1> QED
  BY <1>2, <1>3, <1>4 DEF Present

(* Taking the lock for a write preserves the invariant. *)
LEMMA WriteLockStep ==
  ASSUME IInv, NEW t \in Thread, WriteLock(t)
  PROVE  IInv'
<1>1. /\ pc[t] # "idle" /\ req[t].op \in {"set", "set_with_ttl"}
      /\ lock' = [lock EXCEPT ![shard_for(t)] = t]
      /\ pc' = [pc EXCEPT ![t] = "write"] /\ UNCHANGED <<req, now>>
      /\ UNCHANGED <<eviction_cursor, next_ttl_token, clock, evict, sweeper>>
  BY DEF WriteLock, Enter
<1>2. Callers /\ "write" \in Pc \ {"idle"}
  BY DEF IInv, TypeOK, Callers, Pc
<1>3. Callers'
  BY <1>1, <1>2, PcStep
<1>4. /\ shards' \in [Shards -> Shard]
      /\ ShardsOK(shards', next_ttl_token')
      /\ used_bytes' \in 0..UsizeMax
  <2>1. CASE Expired(t) /\ RemoveEntry(t)
    BY <1>1, <2>1, RemoveEntryStep DEF Expired
  <2>2. CASE UNCHANGED <<shards, used_bytes>>
    BY <1>1, <2>2, NoShardStep DEF IInv, TypeOK
  <2> QED
    BY <2>1, <2>2 DEF WriteLock
<1>5. lock' \in [Shards -> Thread \cup {Free, Sweeper}]
  BY <1>1 DEF IInv, TypeOK
<1> QED
  BY <1>1, <1>3, <1>4, <1>5, Assembled DEF IInv, TypeOK, sweeper

(* Releasing the lock after a write preserves the rest of the invariant. *)
LEMMA WriteUnlockStep ==
  ASSUME IInv, NEW t \in Thread, pc[t] = "write", WriteUnlock(t),
         shards' \in [Shards -> Shard],
         ShardsOK(shards', next_ttl_token'),
         used_bytes' \in 0..UsizeMax,
         next_ttl_token' \in Nat
  PROVE  IInv'
<1>1. Callers /\ "evict_load" \in Pc \ {"idle"}
  BY DEF IInv, TypeOK, Callers, Pc
<1>2. Callers'
  <2>1. CASE MaxBytes = UsizeMax
    BY <2>1, <1>1, ReturnStep DEF WriteUnlock
  <2>2. CASE MaxBytes # UsizeMax
    BY <2>2, <1>1, PcStep DEF WriteUnlock
  <2> QED
    BY <2>1, <2>2
<1>3. lock' \in [Shards -> Thread \cup {Free, Sweeper}]
  BY DEF IInv, TypeOK, WriteUnlock
<1> QED
  BY <1>2, <1>3, Assembled DEF IInv, TypeOK, sweeper, WriteUnlock

(* What the writer is about to write has its type. *)
LEMMA WriteParts ==
  ASSUME IInv, NEW t \in Thread, pc[t] = "write"
  PROVE  /\ req[t].value \in Value
         /\ NewSize(t) \in Nat
         /\ WriteDeadline(t) \in Nat
<1>1. /\ req[t] \in Request /\ req[t].key \in Key /\ now[t] \in Nat
      /\ req[t].op \in {"set", "set_with_ttl"}
  BY CallerParts DEF IInv, TypeOK
<1>2. req[t].value \in Value
  BY <1>1, RequestParts
<1>3. KeyLen[req[t].key] \in Nat /\ ValueLen[req[t].value] \in Nat
  BY <1>1, <1>2, EngineAssumption
<1>4. NewSize(t) \in Nat
  BY <1>3 DEF NewSize, entry_size
<1>5. WriteDeadline(t) \in Nat
  BY <1>1, RequestParts DEF WriteDeadline, None
<1> QED
  BY <1>2, <1>4, <1>5

(* Overwriting a live entry preserves the invariant. *)
LEMMA WriteReplaceStep ==
  ASSUME IInv, NEW t \in Thread, WriteReplace(t)
  PROVE  IInv'
<1> DEFINE S == Inner(t)
           idx == Slot(t)
           n == next_ttl_token
           value == req[t].value
           size == NewSize(t)
           deadline == WriteDeadline(t)
           node == [S.nodes[idx] EXCEPT !.value = value, !.size = size,
                                        !.expires_at = deadline, !.ttl_token = n]
           W == SetNode(S, idx, node)
           T == touch(W, idx)
           R == ScheduleSome(T, idx, deadline, n)
<1>1. /\ pc[t] = "write" /\ ~Absent(t) /\ next_ttl_token' = n + 1
      /\ SetShard(shard_for(t), R)
      /\ FetchAdd(size - S.nodes[idx].size) /\ WriteUnlock(t)
  BY DEF WriteReplace, Replaced, TakeToken
<1>2. /\ shard_for(t) \in Shards /\ idx \in Live(S) /\ S.nodes[idx] \in Node
      /\ S.nodes[idx].size \in Nat
      /\ Structured(S) /\ TtlHeapCovers(S) /\ S = shards[shard_for(t)]
  BY <1>1, CallerParts DEF Inner
<1>3. value \in Value /\ size \in Nat /\ deadline \in Nat /\ n \in Nat
  BY <1>1, WriteParts DEF IInv, TypeOK
<1> HIDE DEF S, idx, value, size, deadline
<1>4. /\ node \in Node /\ node.ttl_token = n /\ node.expires_at = deadline
      /\ node.key = S.nodes[idx].key
      /\ node.prev = S.nodes[idx].prev /\ node.next = S.nodes[idx].next
  BY <1>2, <1>3 DEF Node
<1> HIDE DEF node, n
<1>5. Structured(W) /\ idx \in Live(W)
  BY <1>2, <1>4, SetContent
<1> HIDE DEF W
<1>6. Structured(T) /\ SameContent(W, T)
  BY <1>5, Touch
<1> HIDE DEF T
<1>7. R = ScheduleSome(T, idx, node.expires_at, n)
  BY <1>4
<1> HIDE DEF R
<1>8. Keeps(S, R, n, n + 1)
  BY <1>2, <1>3, <1>4, <1>6, <1>7, RewriteKeeps DEF W
<1>9. next_ttl_token' \in Nat
  BY <1>1, <1>3
<1>10. shards' \in [Shards -> Shard] /\ ShardsOK(shards', next_ttl_token')
  BY <1>1, <1>2, <1>8, <1>9, ShardStep DEF n
<1>11. used_bytes' \in 0..UsizeMax
  <2>1. size - S.nodes[idx].size \in Int
    BY <1>2, <1>3
  <2> QED
    BY <1>1, <2>1, Wraps
<1> QED
  BY <1>1, <1>9, <1>10, <1>11, WriteUnlockStep

(* Inserting a new entry preserves the invariant. *)
LEMMA WriteInsertStep ==
  ASSUME IInv, NEW t \in Thread, WriteInsert(t)
  PROVE  IInv'
<1> DEFINE S == Inner(t)
           idx == NextSlot(S)
           n == next_ttl_token
           key == req[t].key
           value == req[t].value
           size == NewSize(t)
           deadline == WriteDeadline(t)
           P == insert_new(S, key, value, size)
           node == [P.nodes[idx] EXCEPT !.expires_at = deadline, !.ttl_token = n]
           W == SetNode(P, idx, node)
           R == IF deadline = None THEN P
                ELSE schedule_expiration(W, idx, deadline, n)
<1>1. /\ pc[t] = "write" /\ Absent(t)
      /\ next_ttl_token' = IF deadline = None THEN n ELSE n + 1
      /\ SetShard(shard_for(t), R) /\ FetchAdd(size) /\ WriteUnlock(t)
  BY DEF WriteInsert, Inserted, SetDeadline, TakeToken
<1>2. /\ shard_for(t) \in Shards /\ key \in Key /\ S.map[key] = None
      /\ Structured(S) /\ TtlHeapCovers(S) /\ S = shards[shard_for(t)]
  BY <1>1, CallerParts DEF Inner, Absent, Slot
<1>3. value \in Value /\ size \in Nat /\ deadline \in Nat /\ n \in Nat
  BY <1>1, WriteParts DEF IInv, TypeOK
<1> HIDE DEF S, value, size, deadline, key
<1>4. InsertedAt(S, P, idx, key, value, size)
  BY <1>2, <1>3, InsertNew
<1> HIDE DEF P, idx
<1>5. /\ Structured(P) /\ idx \in Live(P) /\ TtlHeapCovers(P)
      /\ P.ttl_heap = S.ttl_heap
  BY <1>2, <1>4, InsertedCovers DEF InsertedAt
<1>6. P.nodes[idx] \in Node
  BY <1>5, ShardParts DEF Structured
<1>7. /\ node \in Node /\ node.ttl_token = n /\ node.expires_at = deadline
      /\ node.key = P.nodes[idx].key
      /\ node.prev = P.nodes[idx].prev /\ node.next = P.nodes[idx].next
  BY <1>3, <1>6 DEF Node
<1> HIDE DEF node, n
<1>8. Structured(W) /\ SameContent(W, W)
  BY <1>5, <1>7, SetContent DEF SameContent
<1> HIDE DEF W
<1>9. /\ next_ttl_token' \in Nat
      /\ Keeps(S, R, n, next_ttl_token')
  <2>1. CASE deadline = None
    BY <2>1, <1>1, <1>3, <1>5 DEF Keeps
  <2>2. CASE deadline # None
    <3>1. R = ScheduleSome(W, idx, node.expires_at, n)
      BY <2>2, <1>7 DEF ScheduleSome
    <3> HIDE DEF R
    <3>2. Keeps(P, R, n, n + 1)
      BY <3>1, <1>3, <1>5, <1>7, <1>8, RewriteKeeps DEF W
    <3> QED
      BY <2>2, <3>2, <1>1, <1>3, <1>5 DEF Keeps
  <2> QED
    BY <2>1, <2>2
<1> HIDE DEF R
<1>10. shards' \in [Shards -> Shard] /\ ShardsOK(shards', next_ttl_token')
  BY <1>1, <1>2, <1>9, ShardStep DEF n
<1>11. used_bytes' \in 0..UsizeMax
  BY <1>1, <1>3, Wraps
<1> QED
  BY <1>1, <1>9, <1>10, <1>11, WriteUnlockStep

(* Each step of evict_if_needed preserves the invariant. *)
LEMMA EvictStep ==
  ASSUME IInv, NEW t \in Thread,
         EvictLoad(t) \/ EvictStart(t) \/ EvictScan(t) \/ EvictSub(t)
  PROVE  IInv'
<1>1. /\ Callers
      /\ evict \in [Thread -> [start: Shards, offset: Shards, size: Nat]]
      /\ next_ttl_token \in Nat
  BY DEF IInv, TypeOK, Callers
<1>2. {"evict_load", "evict_start", "evict_scan", "evict_sub"} \subseteq Pc \ {"idle", "write"}
  BY DEF Pc
<1>3. 0 \in Shards /\ NoEvict \in [start: Shards, offset: Shards, size: Nat]
  BY EngineAssumption DEF Shards, NoEvict
<1>4. \A x \in Nat : x % NumShards \in Shards
  BY EngineAssumption DEF Shards
<1>5. CASE EvictLoad(t)
  <2>1. Callers'
    <3>1. CASE Return(t, [is |-> "ok"])
      BY <3>1, <1>1, ReturnStep
    <3>2. CASE ~Return(t, [is |-> "ok"])
      BY <1>1, <1>2, <1>5, <3>2, PcStep DEF EvictLoad
    <3> QED
      BY <3>1, <3>2
  <2>2. shards' \in [Shards -> Shard] /\ ShardsOK(shards', next_ttl_token')
    BY <1>5, NoShardStep DEF EvictLoad, store
  <2> QED
    BY <1>5, <2>1, <2>2, Assembled DEF IInv, TypeOK, EvictLoad, store, sweeper
<1>6. CASE EvictStart(t)
  <2>1. Callers'
    BY <1>1, <1>2, <1>6, PcStep DEF EvictStart
  <2>2. shards' \in [Shards -> Shard] /\ ShardsOK(shards', next_ttl_token')
    BY <1>6, NoShardStep DEF EvictStart, store
  <2>3. eviction_cursor \in Shards /\ eviction_cursor + 1 \in Nat
    BY EngineAssumption DEF IInv, TypeOK, Shards
  <2>4. eviction_cursor' \in Shards
    BY <1>4, <1>6, <2>3 DEF EvictStart
  <2>5. evict' \in [Thread -> [start: Shards, offset: Shards, size: Nat]]
    BY <1>1, <1>6, <2>3 DEF EvictStart
  <2> QED
    BY <1>6, <2>1, <2>2, <2>4, <2>5, Assembled
    DEF IInv, TypeOK, EvictStart, store, sweeper
<1>7. CASE EvictScan(t)
  <2> DEFINE s == EvictShard(t)
             S == shards[s]
  <2>1. s \in Shards
    <3>1. evict[t].start + evict[t].offset \in Nat
      BY <1>1, EngineAssumption DEF Shards
    <3> QED
      BY <3>1, <1>4 DEF EvictShard
  <2>2. Structured(S) /\ TtlHeapCovers(S)
    BY <2>1 DEF IInv, ShardsOK
  <2>3. /\ pc[t] = "evict_scan"
        /\ UNCHANGED <<lock, used_bytes, eviction_cursor, next_ttl_token, clock,
                       sweeper>>
    BY <1>7 DEF EvictScan
  <2>4. CASE S.head # None
    <3>1. /\ SetShard(s, remove_idx(S, S.head))
          /\ evict' = [evict EXCEPT ![t].size = S.nodes[S.head].size]
          /\ pc' = [pc EXCEPT ![t] = "evict_sub"] /\ UNCHANGED <<req, now>>
      BY <1>7, <2>4 DEF EvictScan, pop_lru
    <3> HIDE DEF s
    <3>2. S.head \in Live(S) /\ S.nodes[S.head] \in Node
      BY <2>2, <2>4, HeadLive, ShardParts DEF Structured
    <3>3. Keeps(S, remove_idx(S, S.head), next_ttl_token, next_ttl_token')
      BY <2>2, <2>3, <3>2, RemoveKeeps
    <3>4. shards' \in [Shards -> Shard] /\ ShardsOK(shards', next_ttl_token')
      BY <1>1, <2>1, <2>3, <3>1, <3>3, ShardStep
    <3>5. Callers'
      BY <1>1, <1>2, <2>3, <3>1, PcStep
    <3>6. S.nodes[S.head].size \in Nat
      BY <3>2 DEF Node
    <3>7. evict' \in [Thread -> [start: Shards, offset: Shards, size: Nat]]
      BY <1>1, <3>1, <3>6
    <3> QED
      BY <2>3, <3>4, <3>5, <3>7, Assembled DEF IInv, TypeOK, sweeper
  <2>5. CASE S.head = None
    <3>1. UNCHANGED shards
      BY <1>7, <2>5 DEF EvictScan
    <3>2. shards' \in [Shards -> Shard] /\ ShardsOK(shards', next_ttl_token')
      BY <2>3, <3>1, NoShardStep
    <3>3. Callers' /\ evict' \in [Thread -> [start: Shards, offset: Shards, size: Nat]]
      <4>1. CASE evict[t].offset + 1 < NumShards
        <5>1. evict[t].offset + 1 \in Shards
          BY <1>1, <4>1, EngineAssumption DEF Shards
        <5>2. /\ evict' = [evict EXCEPT ![t].offset = evict[t].offset + 1]
              /\ UNCHANGED <<pc, req, now>>
          BY <1>7, <2>5, <4>1 DEF EvictScan, EvictNone, callers
        <5>3. evict' \in [Thread -> [start: Shards, offset: Shards, size: Nat]]
          BY <1>1, <5>1, <5>2
        <5> QED
          BY <1>1, <5>2, <5>3 DEF Callers
      <4>2. CASE ~(evict[t].offset + 1 < NumShards)
        <5>1. evict' = [evict EXCEPT ![t] = NoEvict] /\ Return(t, [is |-> "ok"])
          BY <1>7, <2>5, <4>2 DEF EvictScan, EvictNone
        <5> QED
          BY <1>1, <1>3, <5>1, ReturnStep
      <4> QED
        BY <4>1, <4>2
    <3> QED
      BY <2>3, <3>2, <3>3, Assembled DEF IInv, TypeOK, sweeper
  <2> QED
    BY <2>4, <2>5
<1>8. CASE EvictSub(t)
  <2>1. Callers'
    BY <1>1, <1>2, <1>8, PcStep DEF EvictSub
  <2>2. shards' \in [Shards -> Shard] /\ ShardsOK(shards', next_ttl_token')
    BY <1>8, NoShardStep DEF EvictSub
  <2>3. evict[t].size \in Int
    BY <1>1
  <2>4. used_bytes' \in 0..UsizeMax
    BY <1>8, <2>3, Wraps DEF EvictSub
  <2>5. evict' \in [Thread -> [start: Shards, offset: Shards, size: Nat]]
    BY <1>1, <1>3, <1>8 DEF EvictSub
  <2> QED
    BY <1>8, <2>1, <2>2, <2>4, <2>5, Assembled DEF IInv, TypeOK, EvictSub, sweeper
<1> QED
  BY <1>5, <1>6, <1>7, <1>8

(* Each step of the sweeper preserves the invariant. *)
LEMMA SweeperStep ==
  ASSUME IInv, SweepStep
  PROVE  IInv'
<1>1. /\ Callers /\ next_ttl_token \in Nat /\ clock \in Nat
      /\ sweep.shard \in Shards /\ sweep.now \in Nat
      /\ sweep \in [pc: {"none", "check", "sleep", "lock", "purge", "done"},
                    now: Nat, shard: Shards]
  BY DEF IInv, TypeOK, Callers
<1>2. 0 \in Shards /\ None \in Nat
  BY EngineAssumption DEF Shards, None
<1> DEFINE S == shards[sweep.shard]
<1>3. Structured(S) /\ TtlHeapCovers(S)
  BY <1>1 DEF IInv, ShardsOK
<1>4. CASE SweepCheck \/ SweepWake \/ SweepLock
  <2>1. /\ UNCHANGED <<shards, used_bytes, next_ttl_token, eviction_cursor, clock,
                       pc, req, now, evict, handle>>
    BY <1>4 DEF SweepCheck, SweepWake, SweepLock, store, callers
  <2>2. lock' \in [Shards -> Thread \cup {Free, Sweeper}]
    BY <1>1, <1>4 DEF SweepCheck, SweepWake, SweepLock, IInv, TypeOK
  <2>3. sweep' \in [pc: {"none", "check", "sleep", "lock", "purge", "done"},
                    now: Nat, shard: Shards]
    BY <1>1, <1>2, <1>4 DEF SweepCheck, SweepWake, SweepLock
  <2>4. shards' \in [Shards -> Shard] /\ ShardsOK(shards', next_ttl_token')
    BY <2>1, NoShardStep
  <2>5. Callers'
    BY <1>1, <2>1 DEF Callers
  <2> QED
    BY <2>1, <2>2, <2>3, <2>4, <2>5, Assembled DEF IInv, TypeOK
<1>5. CASE SweepPop
  <2>1. PICK e \in due_expiration(S, sweep.now) :
          /\ SetShard(sweep.shard,
                      remove_idx(pop_due_expiration(S, sweep.now), e.idx))
          /\ FetchSub(S.nodes[e.idx].size)
    BY <1>5 DEF SweepPop
  <2>2. UNCHANGED <<lock, eviction_cursor, next_ttl_token, clock, pc, req, now,
                    evict, handle, sweep>>
    BY <1>5 DEF SweepPop, callers, sweeper
  <2> DEFINE T == pop_due_expiration(S, sweep.now)
             R == remove_idx(T, e.idx)
  <2>3. e.idx \in Live(S) /\ Structured(R) /\ TtlHeapCovers(R)
    BY <1>1, <1>3, PurgeOne
  <2>4. /\ Structured(T) /\ Live(T) = Live(S)
        /\ T.ttl_heap \subseteq S.ttl_heap
    BY <1>1, <1>3, PopDue
  <2> HIDE DEF T, S
  <2>5. RemovedAt(T, R, e.idx)
    BY <2>3, <2>4, RemoveIdx
  <2> HIDE DEF R
  <2>6. Keeps(S, R, next_ttl_token, next_ttl_token')
    BY <2>2, <2>3, <2>4, <2>5 DEF Keeps, RemovedAt
  <2>7. shards' \in [Shards -> Shard] /\ ShardsOK(shards', next_ttl_token')
    BY <1>1, <2>1, <2>2, <2>6, ShardStep DEF S, T, R
  <2>8. S.nodes[e.idx].size \in Int
    BY <1>3, <2>3, ShardParts DEF Structured, Node
  <2>9. used_bytes' \in 0..UsizeMax
    BY <2>1, <2>8, Wraps
  <2>10. Callers'
    BY <1>1, <2>2 DEF Callers
  <2> QED
    BY <2>2, <2>7, <2>9, <2>10, Assembled DEF IInv, TypeOK
<1>6. CASE SweepUnlock
  <2> DEFINE R == pop_due_expiration(S, sweep.now)
  <2>1. /\ DueLive(S, sweep.now) = {}
        /\ SetShard(sweep.shard, R)
        /\ lock' = [lock EXCEPT ![sweep.shard] = Free]
        /\ UNCHANGED <<used_bytes, next_ttl_token, eviction_cursor, clock, pc, req,
                       now, evict, handle>>
    BY <1>6 DEF SweepUnlock, callers
  <2>2. TtlHeapCovers(R)
    BY <1>1, <1>3, <2>1, PopNoneCovers
  <2>3. Structured(R) /\ R.ttl_heap \subseteq S.ttl_heap
    BY <1>1, <1>3, PopDue
  <2> HIDE DEF R
  <2>4. Keeps(S, R, next_ttl_token, next_ttl_token')
    BY <2>1, <2>2, <2>3 DEF Keeps
  <2>5. shards' \in [Shards -> Shard] /\ ShardsOK(shards', next_ttl_token')
    BY <1>1, <2>1, <2>4, ShardStep
  <2>6. lock' \in [Shards -> Thread \cup {Free, Sweeper}]
    BY <2>1 DEF IInv, TypeOK
  <2>7. sweep' \in [pc: {"none", "check", "sleep", "lock", "purge", "done"},
                    now: Nat, shard: Shards]
    <3>1. sweep.shard + 1 < NumShards => sweep.shard + 1 \in Shards
      BY <1>1, EngineAssumption DEF Shards
    <3> QED
      BY <3>1, <1>1, <1>2, <1>6 DEF SweepUnlock, NextSweep
  <2>8. Callers'
    BY <1>1, <2>1 DEF Callers
  <2> QED
    BY <2>1, <2>5, <2>6, <2>7, <2>8, Assembled DEF IInv, TypeOK
<1> QED
  BY <1>4, <1>5, <1>6 DEF SweepStep

(* The owner of the sweeper and the clock preserve the invariant, and so   *)
(* does a step that changes nothing.                                       *)
LEMMA OtherStep ==
  ASSUME IInv, start_expirer \/ stop \/ Tick \/ UNCHANGED vars
  PROVE  IInv'
<1>1. UNCHANGED <<shards, used_bytes, next_ttl_token, lock, eviction_cursor,
                  pc, req, now, evict>>
  BY DEF start_expirer, stop, Tick, vars, store, callers
<1>2. Callers /\ clock \in Nat \ {None}
  BY DEF IInv, TypeOK, Callers
<1>3. Callers'
  BY <1>1, <1>2 DEF Callers
<1>4. clock' \in Nat \ {None}
  BY <1>2 DEF start_expirer, stop, Tick, vars, None
<1>5. handle' \in {"none", "running", "stopping", "stopped"}
  BY DEF IInv, TypeOK, start_expirer, stop, Tick, vars, sweeper
<1>6. sweep' \in [pc: {"none", "check", "sleep", "lock", "purge", "done"},
                  now: Nat, shard: Shards]
  BY DEF IInv, TypeOK, start_expirer, stop, Tick, vars, sweeper
<1>7. shards' \in [Shards -> Shard] /\ ShardsOK(shards', next_ttl_token')
  BY <1>1, NoShardStep
<1> QED
  BY <1>1, <1>3, <1>4, <1>5, <1>6, <1>7, Assembled DEF IInv, TypeOK

(* The invariant holds in every reachable state. *)
LEMMA Invariance == Spec => []IInv
<1>1. Init => IInv
  BY InitIInv
<1>2. IInv /\ [Next]_vars => IInv'
  <2> SUFFICES ASSUME IInv, [Next]_vars
               PROVE  IInv'
    OBVIOUS
  <2>1. ASSUME NEW t \in Thread, Call(t) \/ Step(t)
        PROVE  IInv'
    BY <2>1, CallStep, getStep, deleteStep, expireStep, ttlStep, WriteLockStep,
       WriteReplaceStep, WriteInsertStep, EvictStep DEF Step
  <2>2. CASE SweepStep
    BY <2>2, SweeperStep
  <2>3. CASE start_expirer \/ stop \/ Tick \/ UNCHANGED vars
    BY <2>3, OtherStep
  <2> QED
    BY <2>1, <2>2, <2>3 DEF Next
<1> QED
  BY <1>1, <1>2, PTL DEF Spec

-----------------------------------------------------------------------------
(* The theorems.                                                           *)

(* Every variable of the engine keeps its type; in particular an eviction  *)
(* round never leaves the shards, and the byte counter never leaves the    *)
(* range of usize.                                                         *)
THEOREM TypeCorrect == Spec => []TypeOK
<1>1. IInv => TypeOK
  BY DEF IInv
<1> QED
  BY <1>1, Invariance, PTL

(* lru_remove and lru_push_back keep the links of every shard one simple   *)
(* chain over exactly its live slots.                                      *)
THEOREM ChainsCorrect == Spec => []ListsAreChains
<1>1. IInv => ListsAreChains
  BY DEF IInv, ShardsOK, Structured, ListsAreChains
<1> QED
  BY <1>1, Invariance, PTL

(* insert_new and remove_idx keep the map and the arena of every shard     *)
(* inverse to each other.                                                  *)
THEOREM MapsCorrect == Spec => []MapsMatchArenas
<1>1. IInv => MapsMatchArenas
  BY DEF IInv, ShardsOK, Structured, MapsMatchArenas
<1> QED
  BY <1>1, Invariance, PTL

(* insert_new and remove_idx neither leak a slot nor hand out a live one.  *)
THEOREM FreeStacksCorrect == Spec => []FreeStacksExact
<1>1. IInv => FreeStacksExact
  BY DEF IInv, ShardsOK, Structured, FreeStacksExact
<1> QED
  BY <1>1, Invariance, PTL

(* Lazy invalidation loses no live deadline: pop_due_expiration drops only *)
(* entries that no live node needs.                                        *)
THEOREM NoDeadlineLost == Spec => []DeadlinesScheduled
<1>1. IInv => DeadlinesScheduled
  BY DEF IInv, ShardsOK, DeadlinesScheduled
<1> QED
  BY <1>1, Invariance, PTL

(* No two heap entries share a token, and none has one still to be issued. *)
THEOREM TokensUnique == Spec => []HeapTokensUnique
<1>1. IInv => HeapTokensUnique
  BY DEF IInv, ShardsOK, HeapTokensUnique
<1> QED
  BY <1>1, Invariance, PTL

(***************************************************************************)
(* The byte counter and the capacity.  The bytes stored and the bytes owed *)
(* by evicting threads are sums over the shards and over the threads; each *)
(* step changes one summand of one of them, or moves bytes between them.   *)
(***************************************************************************)

(* The sizes of the live slots of a shard. *)
Sizes(S) == [i \in Live(S) |-> S.nodes[i].size]

(* The bytes of each shard. *)
ShardBytes == [s \in Shards |-> LiveBytes(shards[s])]

(* What each thread has evicted and not yet subtracted. *)
Owed == [t \in Thread |-> IF pc[t] = "evict_sub" THEN evict[t].size ELSE 0]

(* The bytes of a shard as a sum. *)
LEMMA LiveBytesSum ==
  ASSUME NEW S, IsFiniteSet(Live(S))
  PROVE  LiveBytes(S) = SumOver(Sizes(S), Live(S))
<1> DEFINE L == Live(S)
           P(iter) == iter = [s \in SUBSET L |->
                                IF s = {} THEN 0
                                ELSE S.nodes[CHOOSE x \in s : TRUE].size
                                     + iter[s \ {CHOOSE x \in s : TRUE}]]
<1>1. LiveBytes(S) = (CHOOSE iter : P(iter))[L]
  BY DEF LiveBytes, MapThenSumSet, MapThenFoldSet
<1>2. ASSUME NEW g PROVE P(g) <=> SumsOf(Sizes(S), L, g)
  <2>1. ASSUME NEW s \in SUBSET L, s # {}
        PROVE  Sizes(S)[CHOOSE x \in s : TRUE] = S.nodes[CHOOSE x \in s : TRUE].size
    BY <2>1 DEF Sizes
  <2> QED
    BY <2>1 DEF SumsOf, Pick
<1>3. \E g : P(g)
  <2>1. PICK g : SumsOf(Sizes(S), L, g)
    BY SumsExist
  <2> HIDE DEF P, L
  <2> QED
    BY <1>2, <2>1
<1>4. P(CHOOSE iter : P(iter))
  <2> HIDE DEF P
  <2> QED
    BY <1>3
<1>5. SumsOf(Sizes(S), L, CHOOSE iter : P(iter))
  BY <1>2, <1>4
<1> HIDE DEF P
<1> QED
  BY <1>1, <1>5, SumOverIs

(* The bytes of all shards as a sum. *)
LEMMA TotalLiveSum ==
  TotalLive = SumOver(ShardBytes, Shards)
<1> DEFINE P(iter) == iter = [S \in SUBSET Shards |->
                                IF S = {} THEN 0
                                ELSE LiveBytes(shards[CHOOSE x \in S : TRUE])
                                     + iter[S \ {CHOOSE x \in S : TRUE}]]
<1>0. IsFiniteSet(Shards)
  BY FS_Interval, EngineAssumption DEF Shards
<1>1. TotalLive = (CHOOSE iter : P(iter))[Shards]
  BY DEF TotalLive, MapThenSumSet, MapThenFoldSet
<1>2. ASSUME NEW g PROVE P(g) <=> SumsOf(ShardBytes, Shards, g)
  BY DEF SumsOf, Pick, ShardBytes
<1>3. \E g : P(g)
  <2>1. PICK g : SumsOf(ShardBytes, Shards, g)
    BY <1>0, SumsExist
  <2> HIDE DEF P
  <2> QED
    BY <1>2, <2>1
<1>4. P(CHOOSE iter : P(iter))
  <2> HIDE DEF P
  <2> QED
    BY <1>3
<1>5. SumsOf(ShardBytes, Shards, CHOOSE iter : P(iter))
  BY <1>2, <1>4
<1> HIDE DEF P
<1> QED
  BY <1>0, <1>1, <1>5, SumOverIs

(* What evicting threads owe the counter as a sum. *)
LEMMA UnsubtractedSum ==
  IInv => Unsubtracted = SumOver(Owed, Thread)
<1> SUFFICES ASSUME IInv
             PROVE  Unsubtracted = SumOver(Owed, Thread)
  OBVIOUS
<1> DEFINE E == {t \in Thread : pc[t] = "evict_sub"}
           P(iter) == iter = [S \in SUBSET E |->
                                IF S = {} THEN 0
                                ELSE evict[CHOOSE x \in S : TRUE].size
                                     + iter[S \ {CHOOSE x \in S : TRUE}]]
<1>0. IsFiniteSet(E)
  BY FS_Subset, EngineAssumption
<1>1. Unsubtracted = (CHOOSE iter : P(iter))[E]
  BY DEF Unsubtracted, MapThenSumSet, MapThenFoldSet
<1>2. ASSUME NEW g PROVE P(g) <=> SumsOf(Owed, E, g)
  BY DEF SumsOf, Pick, Owed
<1>3. \E g : P(g)
  <2>1. PICK g : SumsOf(Owed, E, g)
    BY <1>0, SumsExist
  <2> HIDE DEF P, E
  <2> QED
    BY <1>2, <2>1
<1>4. P(CHOOSE iter : P(iter))
  <2> HIDE DEF P
  <2> QED
    BY <1>3
<1>5. SumsOf(Owed, E, CHOOSE iter : P(iter))
  BY <1>2, <1>4
<1>6. \A t \in Thread : Owed[t] \in Int /\ (t \notin E => Owed[t] = 0)
  BY DEF Owed, IInv, TypeOK
<1>7. E \subseteq Thread
  OBVIOUS
<1> HIDE DEF P, E
<1>8. SumOver(Owed, Thread) = SumOver(Owed, E)
  BY <1>6, <1>7, SumRestrict, EngineAssumption
<1> QED
  BY <1>0, <1>1, <1>5, <1>8, SumOverIs

-----------------------------------------------------------------------------
(* The live slots of a shard are finitely many, and their sizes numbers. *)
LEMMA SizesType ==
  ASSUME NEW S \in Shard
  PROVE  /\ IsFiniteSet(Live(S))
         /\ \A i \in Live(S) : Sizes(S)[i] \in Nat /\ Sizes(S)[i] = S.nodes[i].size
         /\ LiveBytes(S) = SumOver(Sizes(S), Live(S))
         /\ LiveBytes(S) \in Nat
<1>1. IsFiniteSet(DOMAIN S.nodes)
  BY ShardParts, FS_Interval
<1>2. IsFiniteSet(Live(S))
  BY <1>1, FS_Subset DEF Live
<1>3. \A i \in Live(S) : Sizes(S)[i] \in Nat /\ Sizes(S)[i] = S.nodes[i].size
  <2>1. \A i \in Live(S) : S.nodes[i] \in Node
    BY ShardParts
  <2> QED
    BY <2>1 DEF Sizes, Node
<1>4. LiveBytes(S) = SumOver(Sizes(S), Live(S))
  BY <1>2, LiveBytesSum
<1>5. SumOver(Sizes(S), Live(S)) \in Nat
  BY <1>2, <1>3, SumNat
<1> QED
  BY <1>2, <1>3, <1>4, <1>5

(* Nodes of the same sizes in the same slots. *)
LEMMA SameBytes ==
  ASSUME NEW S \in Shard, NEW R \in Shard, Live(R) = Live(S),
         \A i \in Live(S) : R.nodes[i].size = S.nodes[i].size
  PROVE  LiveBytes(R) = LiveBytes(S)
<1>1. \A i \in Live(S) : Sizes(R)[i] = Sizes(S)[i]
  BY SizesType
<1>2. SumOver(Sizes(R), Live(S)) = SumOver(Sizes(S), Live(S))
  BY <1>1, SizesType, SumSame
<1> QED
  BY <1>2, SizesType

(* One node of another size. *)
LEMMA ResizedBytes ==
  ASSUME NEW S \in Shard, NEW R \in Shard, Live(R) = Live(S), NEW idx \in Live(S),
         \A i \in Live(S) \ {idx} : R.nodes[i].size = S.nodes[i].size
  PROVE  LiveBytes(R) = LiveBytes(S) + (R.nodes[idx].size - S.nodes[idx].size)
<1>1. \A i \in Live(S) : Sizes(R)[i] \in Int /\ Sizes(S)[i] \in Int
  BY SizesType
<1>2. \A i \in Live(S) : i # idx => Sizes(S)[i] = Sizes(R)[i]
  BY SizesType
<1>3. IsFiniteSet(Live(S))
  BY SizesType
<1>4. SumOver(Sizes(R), Live(S)) = SumOver(Sizes(S), Live(S)) + (Sizes(R)[idx] - Sizes(S)[idx])
  BY <1>1, <1>2, <1>3, SumChange
<1> QED
  BY <1>4, SizesType

(* One node less. *)
LEMMA RemovedBytes ==
  ASSUME NEW S \in Shard, NEW R \in Shard, NEW idx \in Live(S),
         Live(R) = Live(S) \ {idx},
         \A i \in Live(R) : R.nodes[i].size = S.nodes[i].size
  PROVE  LiveBytes(R) = LiveBytes(S) + (0 - S.nodes[idx].size)
<1>1. \A i \in Live(S) : Sizes(S)[i] \in Int
  BY SizesType
<1>2. IsFiniteSet(Live(S)) /\ IsFiniteSet(Live(R))
  BY SizesType
<1>3. /\ SumOver(Sizes(S), Live(S)) = Sizes(S)[idx] + SumOver(Sizes(S), Live(S) \ {idx})
      /\ SumOver(Sizes(S), Live(S) \ {idx}) \in Int
  BY <1>1, <1>2, SumTakeOut
<1>4. \A i \in Live(R) : Sizes(R)[i] = Sizes(S)[i]
  BY SizesType
<1>5. SumOver(Sizes(R), Live(R)) = SumOver(Sizes(S), Live(R))
  BY <1>2, <1>4, SumSame
<1>6. LiveBytes(R) = SumOver(Sizes(R), Live(R)) /\ LiveBytes(S) = SumOver(Sizes(S), Live(S))
  BY SizesType
<1>7. Sizes(S)[idx] = S.nodes[idx].size /\ Sizes(S)[idx] \in Int
  BY SizesType
<1> QED
  BY <1>3, <1>5, <1>6, <1>7

(* One node more. *)
LEMMA InsertedBytes ==
  ASSUME NEW S \in Shard, NEW R \in Shard, NEW idx, idx \notin Live(S),
         Live(R) = Live(S) \cup {idx},
         \A i \in Live(S) : R.nodes[i].size = S.nodes[i].size
  PROVE  LiveBytes(R) = LiveBytes(S) + R.nodes[idx].size
<1>1. \A i \in Live(R) : Sizes(R)[i] \in Int
  BY SizesType
<1>2. IsFiniteSet(Live(S)) /\ IsFiniteSet(Live(R))
  BY SizesType
<1>3. SumOver(Sizes(R), Live(S) \cup {idx}) = Sizes(R)[idx] + SumOver(Sizes(R), Live(S))
  BY <1>1, <1>2, SumAdd
<1>4. \A i \in Live(S) : Sizes(R)[i] = Sizes(S)[i]
  BY SizesType
<1>5. SumOver(Sizes(R), Live(S)) = SumOver(Sizes(S), Live(S))
  BY <1>2, <1>4, SumSame
<1>6. LiveBytes(R) = SumOver(Sizes(R), Live(R)) /\ LiveBytes(S) = SumOver(Sizes(S), Live(S))
  BY SizesType
<1>7. /\ Sizes(R)[idx] = R.nodes[idx].size /\ Sizes(R)[idx] \in Int
      /\ LiveBytes(S) \in Int
  BY SizesType
<1> QED
  BY <1>3, <1>5, <1>6, <1>7

-----------------------------------------------------------------------------
(* A step that changes one shard changes the total by what it changes there. *)
LEMMA TotalStep ==
  ASSUME IInv, NEW s \in Shards, NEW R \in Shard, SetShard(s, R),
         NEW d \in Int, LiveBytes(R) = LiveBytes(shards[s]) + d
  PROVE  TotalLive' = TotalLive + d
<1>1. shards \in [Shards -> Shard]
  BY DEF IInv, TypeOK
<1>2. shards'[s] = R /\ \A r \in Shards \ {s} : shards'[r] = shards[r]
  BY <1>1 DEF SetShard
<1>3. \A r \in Shards : LiveBytes(shards[r]) \in Int /\ LiveBytes(shards'[r]) \in Int
  BY <1>1, <1>2, SizesType
<1>4. /\ \A r \in Shards : ShardBytes[r] \in Int /\ ShardBytes'[r] \in Int
      /\ \A r \in Shards : r # s => ShardBytes[r] = ShardBytes'[r]
  BY <1>2, <1>3 DEF ShardBytes
<1>5. ShardBytes'[s] - ShardBytes[s] = d
  BY <1>2, <1>3 DEF ShardBytes
<1>6. IsFiniteSet(Shards)
  BY FS_Interval, EngineAssumption DEF Shards
<1>7. TotalLive = SumOver(ShardBytes, Shards)
  BY TotalLiveSum
<1>8. TotalLive' = SumOver(ShardBytes', Shards)
  <2>1. (TotalLive = SumOver(ShardBytes, Shards))'
    BY TotalLiveSum, PTL
  <2> QED
    BY <2>1 DEF Shards
<1>9. SumOver(ShardBytes', Shards) = SumOver(ShardBytes, Shards) + (ShardBytes'[s] - ShardBytes[s])
  BY <1>4, <1>6, SumChange
<1> QED
  BY <1>5, <1>7, <1>8, <1>9

(* The threads' debts change only where a thread's debt changes. *)
LEMMA OwedStep ==
  ASSUME IInv, IInv', NEW t \in Thread,
         \A u \in Thread \ {t} : pc'[u] = pc[u] /\ evict'[u] = evict[u]
  PROVE  Unsubtracted' = Unsubtracted + (Owed'[t] - Owed[t])
<1>1. \A u \in Thread : Owed[u] \in Int /\ Owed'[u] \in Int
  BY DEF Owed, IInv, TypeOK
<1>2. \A u \in Thread : u # t => Owed[u] = Owed'[u]
  BY DEF Owed
<1>3. Unsubtracted = SumOver(Owed, Thread)
  BY UnsubtractedSum
<1>4. Unsubtracted' = SumOver(Owed', Thread)
  <2>1. (IInv => Unsubtracted = SumOver(Owed, Thread))'
    BY UnsubtractedSum, PTL
  <2> QED
    BY <2>1
<1>5. IsFiniteSet(Thread)
  BY EngineAssumption
<1>6. SumOver(Owed', Thread) = SumOver(Owed, Thread) + (Owed'[t] - Owed[t])
  BY <1>1, <1>2, <1>5, SumChange
<1> QED
  BY <1>3, <1>4, <1>6

-----------------------------------------------------------------------------
(* The stored bytes and the counter change by d, and no shard that was     *)
(* empty is filled.                                                        *)
Charges(d) ==
  /\ TotalLive' = TotalLive + d
  /\ used_bytes' = (used_bytes + d) % (UsizeMax + 1)

NoneFilled == \A s \in Shards : Live(shards[s]) = {} => Live(shards'[s]) = {}

Shrinks == NoneFilled /\ \E d \in Int : d <= 0 /\ Charges(d)

(* Totals are numbers. *)
LEMMA TotalsNat ==
  IInv => /\ TotalLive \in Nat
          /\ Unsubtracted \in Nat
          /\ used_bytes \in Nat /\ used_bytes <= UsizeMax
<1> SUFFICES ASSUME IInv
             PROVE  /\ TotalLive \in Nat
                    /\ Unsubtracted \in Nat
                    /\ used_bytes \in Nat /\ used_bytes <= UsizeMax
  OBVIOUS
<1>1. \A s \in Shards : ShardBytes[s] \in Nat
  BY SizesType DEF IInv, TypeOK, ShardBytes
<1>2. IsFiniteSet(Shards)
  BY FS_Interval, EngineAssumption DEF Shards
<1>3. TotalLive \in Nat
  BY <1>1, <1>2, TotalLiveSum, SumNat
<1>4. \A t \in Thread : Owed[t] \in Nat
  BY DEF IInv, TypeOK, Owed
<1>5. Unsubtracted \in Nat
  BY <1>4, UnsubtractedSum, SumNat, EngineAssumption
<1> QED
  BY <1>3, <1>5, EngineAssumption DEF IInv, TypeOK

(* A number in range does not wrap. *)
LEMMA NoWrap ==
  ASSUME NEW n \in Nat, n <= UsizeMax
  PROVE  n % (UsizeMax + 1) = n
BY EngineAssumption

(* Nothing is stored and nothing removed. *)
LEMMA NothingShrinks ==
  ASSUME IInv, UNCHANGED <<shards, used_bytes>>
  PROVE  Shrinks
<1>1. TotalLive' = TotalLive
  <2>1. (TotalLive = SumOver(ShardBytes, Shards))'
    BY TotalLiveSum, PTL
  <2>2. ShardBytes' = ShardBytes
    BY DEF ShardBytes
  <2> QED
    BY <2>1, <2>2, TotalLiveSum DEF Shards
<1>2. TotalLive \in Nat /\ used_bytes \in Nat /\ used_bytes <= UsizeMax
  BY TotalsNat
<1>3. used_bytes % (UsizeMax + 1) = used_bytes
  BY <1>2, NoWrap
<1>4. Charges(0)
  BY <1>1, <1>2, <1>3 DEF Charges
<1> QED
  BY <1>4 DEF Shrinks, NoneFilled

(* One shard is replaced by one with d bytes more. *)
LEMMA OneShardCharges ==
  ASSUME IInv, NEW s \in Shards, NEW R \in Shard, SetShard(s, R),
         Live(R) \subseteq Live(shards[s]),
         NEW d \in Int, d <= 0, LiveBytes(R) = LiveBytes(shards[s]) + d,
         used_bytes' = (used_bytes + d) % (UsizeMax + 1)
  PROVE  Shrinks
<1>1. TotalLive' = TotalLive + d
  BY TotalStep
<1>2. NoneFilled
  BY DEF IInv, TypeOK, SetShard, NoneFilled
<1> QED
  BY <1>1, <1>2 DEF Shrinks, Charges

(* A shard loses one entry, which is subtracted from the counter. *)
LEMMA RemovalShrinks ==
  ASSUME IInv, NEW s \in Shards, NEW idx \in Live(shards[s]), NEW R \in Shard,
         SetShard(s, R), Live(R) = Live(shards[s]) \ {idx},
         \A i \in Live(R) : R.nodes[i].size = shards[s].nodes[i].size,
         FetchSub(shards[s].nodes[idx].size)
  PROVE  Shrinks
<1> DEFINE size == shards[s].nodes[idx].size
<1>1. shards[s] \in Shard
  BY DEF IInv, TypeOK
<1>2. size \in Nat
  BY <1>1, ShardParts DEF Node
<1>3. LiveBytes(R) = LiveBytes(shards[s]) + (0 - size)
  BY <1>1, RemovedBytes
<1>4. used_bytes' = (used_bytes - size) % (UsizeMax + 1) /\ used_bytes \in Nat
  BY TotalsNat DEF FetchSub
<1> HIDE DEF size
<1>5. used_bytes' = (used_bytes + (0 - size)) % (UsizeMax + 1)
  BY <1>2, <1>4
<1>6. 0 - size \in Int /\ 0 - size <= 0
  BY <1>2
<1> QED
  BY <1>3, <1>5, <1>6, OneShardCharges

(* RemoveEntry is such a removal. *)
LEMMA RemoveEntryShrinks ==
  ASSUME IInv, NEW t \in Thread, pc[t] # "idle", ~Absent(t), RemoveEntry(t)
  PROVE  Shrinks
<1> DEFINE R == remove_idx(Inner(t), Slot(t))
<1>1. /\ shard_for(t) \in Shards /\ Structured(Inner(t))
      /\ Slot(t) \in Live(Inner(t)) /\ Inner(t) = shards[shard_for(t)]
  BY CallerParts DEF Inner
<1>2. RemovedAt(Inner(t), R, Slot(t))
  BY <1>1, RemoveIdx
<1>3. SetShard(shard_for(t), R) /\ FetchSub(Inner(t).nodes[Slot(t)].size)
  BY DEF RemoveEntry
<1> HIDE DEF R
<1>4. R \in Shard /\ Live(R) = Live(Inner(t)) \ {Slot(t)}
      /\ \A i \in Live(R) : R.nodes[i].size = Inner(t).nodes[i].size
  BY <1>2 DEF RemovedAt, Structured
<1> QED
  BY <1>1, <1>3, <1>4, RemovalShrinks

-----------------------------------------------------------------------------
(* The steps of the callers outside evict_if_needed, and those of the      *)
(* sweeper, never add bytes, unless they write.                            *)

(* Where a thread is in evict_if_needed. *)
Evicting == {"evict_load", "evict_start", "evict_scan", "evict_sub"}

(* Thread t moves outside evict_if_needed; nobody else moves.              *)
MovesOutside(t) ==
  /\ evict' = evict
  /\ pc[t] \notin Evicting /\ pc'[t] \notin Evicting
  /\ \A u \in Thread \ {t} : pc'[u] = pc[u]

LEMMA ReturnMoves ==
  ASSUME IInv, NEW t \in Thread, NEW result, pc[t] = "call", evict' = evict,
         Return(t, result)
  PROVE  MovesOutside(t)
BY DEF IInv, TypeOK, Return, MovesOutside, Evicting

LEMMA ReadShrinks ==
  ASSUME IInv, NEW t \in Thread, get(t) \/ delete(t) \/ expire(t) \/ ttl(t)
  PROVE  Shrinks /\ MovesOutside(t)
<1>1. pc[t] = "call" /\ pc[t] # "idle" /\ evict' = evict
  BY DEF get, delete, expire, ttl, Enter
<1>2. ASSUME NEW result, Return(t, result) PROVE MovesOutside(t)
  BY <1>1, <1>2, ReturnMoves
<1>3. MovesOutside(t)
  <2>1. CASE get(t)
    BY <1>2, <2>1 DEF get
  <2>2. CASE delete(t)
    BY <1>2, <2>2 DEF delete
  <2>3. CASE expire(t)
    BY <1>2, <2>3 DEF expire
  <2>4. CASE ttl(t)
    BY <1>2, <2>4 DEF ttl
  <2> QED
    BY <2>1, <2>2, <2>3, <2>4
<1> SUFFICES Shrinks
  BY <1>3
<1>4. ASSUME RemoveEntry(t), ~Absent(t) PROVE Shrinks
  BY <1>1, <1>4, RemoveEntryShrinks
<1>5. ASSUME UNCHANGED <<shards, used_bytes>> PROVE Shrinks
  BY <1>5, NothingShrinks
<1>6. CASE get(t)
  <2>1. CASE ~Present(t)
    BY <1>4, <1>5, <1>6, <2>1 DEF get, Expired
  <2>2. CASE Present(t)
    <3> DEFINE S == Inner(t)
               R == touch(S, Slot(t))
    <3>1. SetShard(shard_for(t), R) /\ UNCHANGED used_bytes /\ ~Absent(t)
      BY <1>6, <2>2 DEF get, Present, Expired
    <3>2. /\ shard_for(t) \in Shards /\ Structured(S)
          /\ Slot(t) \in Live(S) /\ S = shards[shard_for(t)]
      BY <1>1, <3>1, CallerParts DEF Inner
    <3>3. Structured(R) /\ SameContent(S, R)
      BY <3>2, Touch
    <3> HIDE DEF R
    <3>4. R \in Shard /\ S \in Shard /\ Live(R) = Live(S)
          /\ \A i \in Live(S) : R.nodes[i].size = S.nodes[i].size
      BY <3>2, <3>3 DEF Structured, SameContent
    <3>5. LiveBytes(R) = LiveBytes(S) /\ LiveBytes(S) \in Nat
      BY <3>4, SameBytes, SizesType
    <3>6. used_bytes' = (used_bytes + 0) % (UsizeMax + 1)
      BY <3>1, TotalsNat, NoWrap
    <3>7. LiveBytes(R) = LiveBytes(shards[shard_for(t)]) + 0
      BY <3>2, <3>5
    <3> QED
      BY <3>1, <3>2, <3>4, <3>6, <3>7, OneShardCharges
  <2> QED
    BY <2>1, <2>2
<1>7. CASE delete(t)
  BY <1>4, <1>5, <1>7 DEF delete
<1>8. CASE ttl(t)
  BY <1>4, <1>5, <1>8 DEF ttl, Expired
<1>9. CASE expire(t)
  <2>1. CASE ~Present(t)
    BY <1>4, <1>5, <1>9, <2>1 DEF expire, Expired, store
  <2>2. CASE Present(t)
    <3> DEFINE S == Inner(t)
               idx == Slot(t)
               n == next_ttl_token
               deadline == now[t] + req[t].ttl
               node == [S.nodes[idx] EXCEPT !.expires_at = deadline, !.ttl_token = n]
               W == SetNode(S, idx, node)
               R == schedule_expiration(W, idx, deadline, n)
    <3>1. /\ SetShard(shard_for(t), R) /\ UNCHANGED used_bytes /\ ~Absent(t)
          /\ req[t].op = "expire"
      BY <1>9, <2>2 DEF expire, Present, Expired, SetDeadline, Enter
    <3>2. /\ shard_for(t) \in Shards /\ idx \in Live(S) /\ S.nodes[idx] \in Node
          /\ Structured(S) /\ S = shards[shard_for(t)]
          /\ now[t] \in Nat \ {None} /\ req[t] \in Request /\ n \in Nat
      BY <1>1, <3>1, CallerParts DEF Inner, IInv, TypeOK
    <3>3. deadline \in Nat /\ idx \in Nat
      BY <3>1, <3>2, RequestParts, ShardParts DEF Structured
    <3> HIDE DEF S, idx, deadline, n
    <3>4. /\ node \in Node /\ node.size = S.nodes[idx].size
          /\ node.key = S.nodes[idx].key
          /\ node.prev = S.nodes[idx].prev /\ node.next = S.nodes[idx].next
      BY <3>2, <3>3 DEF Node
    <3> HIDE DEF node
    <3>5. /\ Structured(W) /\ Live(W) = Live(S) /\ W.nodes[idx] = node
          /\ \A i \in Live(S) \ {idx} : W.nodes[i] = S.nodes[i]
      BY <3>2, <3>4, SetContent
    <3> HIDE DEF W
    <3>6. Scheduled(W, R, [expires_at |-> deadline, idx |-> idx, token |-> n])
      BY <3>2, <3>3, <3>5, Schedule
    <3> HIDE DEF R
    <3>7. R \in Shard /\ S \in Shard /\ Live(R) = Live(S)
          /\ \A i \in Live(S) : R.nodes[i].size = S.nodes[i].size
      BY <3>2, <3>4, <3>5, <3>6 DEF Structured, Scheduled
    <3>8. LiveBytes(R) = LiveBytes(S) /\ LiveBytes(S) \in Nat
      BY <3>7, SameBytes, SizesType
    <3>9. used_bytes' = (used_bytes + 0) % (UsizeMax + 1)
      BY <3>1, TotalsNat, NoWrap
    <3>10. LiveBytes(R) = LiveBytes(shards[shard_for(t)]) + 0
      BY <3>2, <3>8
    <3> QED
      BY <3>1, <3>2, <3>7, <3>9, <3>10, OneShardCharges
  <2> QED
    BY <2>1, <2>2
<1> QED
  BY <1>3, <1>6, <1>7, <1>8, <1>9

(* Taking the lock for a write drops at most an expired entry. *)
LEMMA WriteLockShrinks ==
  ASSUME IInv, NEW t \in Thread, WriteLock(t)
  PROVE  Shrinks /\ MovesOutside(t)
<1>1. pc[t] = "call" /\ pc[t] # "idle" /\ evict' = evict /\ pc' = [pc EXCEPT ![t] = "write"]
  BY DEF WriteLock, Enter
<1>2. MovesOutside(t)
  BY <1>1 DEF IInv, TypeOK, MovesOutside, Evicting
<1>3. CASE Expired(t) /\ RemoveEntry(t)
  BY <1>1, <1>2, <1>3, RemoveEntryShrinks DEF Expired
<1>4. CASE UNCHANGED <<shards, used_bytes>>
  BY <1>2, <1>4, NothingShrinks
<1> QED
  BY <1>3, <1>4 DEF WriteLock

(* A write adds what it stores beyond what was stored before. *)
LEMMA WriteCharges ==
  ASSUME IInv, NEW t \in Thread, WriteReplace(t) \/ WriteInsert(t)
  PROVE  \E d \in Int : Charges(d)
<1> DEFINE S == Inner(t)
           n == next_ttl_token
           key == req[t].key
           value == req[t].value
           size == NewSize(t)
           deadline == WriteDeadline(t)
<1>1. pc[t] = "write" /\ pc[t] # "idle"
  BY DEF WriteReplace, WriteInsert
<1>2. /\ shard_for(t) \in Shards /\ key \in Key /\ Structured(S) /\ S \in Shard
      /\ S = shards[shard_for(t)]
  BY <1>1, CallerParts DEF Inner, Structured
<1>3. value \in Value /\ size \in Nat /\ deadline \in Nat /\ n \in Nat
  BY <1>1, WriteParts DEF IInv, TypeOK
<1>4. CASE WriteReplace(t)
  <2> DEFINE idx == Slot(t)
             node == [S.nodes[idx] EXCEPT !.value = value, !.size = size,
                                          !.expires_at = deadline, !.ttl_token = n]
             W == SetNode(S, idx, node)
             T == touch(W, idx)
             R == ScheduleSome(T, idx, deadline, n)
  <2>1. /\ ~Absent(t) /\ SetShard(shard_for(t), R)
        /\ FetchAdd(size - S.nodes[idx].size)
    BY <1>4 DEF WriteReplace, Replaced
  <2>2. idx \in Live(S) /\ S.nodes[idx] \in Node /\ S.nodes[idx].size \in Nat
    BY <1>1, <2>1, CallerParts
  <2>3. idx \in Nat
    BY <1>2, <2>2, ShardParts
  <2> HIDE DEF S, idx, value, size, deadline, n
  <2>4. /\ node \in Node /\ node.size = size
        /\ node.key = S.nodes[idx].key
        /\ node.prev = S.nodes[idx].prev /\ node.next = S.nodes[idx].next
    BY <1>3, <2>2 DEF Node
  <2> HIDE DEF node
  <2>5. /\ Structured(W) /\ Live(W) = Live(S) /\ W.nodes[idx] = node
        /\ \A i \in Live(S) \ {idx} : W.nodes[i] = S.nodes[i]
    BY <1>2, <2>2, <2>4, SetContent
  <2>6. idx \in Live(W)
    BY <2>2, <2>5
  <2> HIDE DEF W
  <2>7. Structured(T) /\ SameContent(W, T)
    BY <2>5, <2>6, Touch
  <2> HIDE DEF T
  <2>8. Structured(R) /\ Live(R) = Live(T) /\ R.nodes = T.nodes
    <3>1. CASE deadline = None
      BY <2>7, <3>1 DEF ScheduleSome
    <3>2. CASE deadline # None
      <4>1. R = schedule_expiration(T, idx, deadline, n)
        BY <3>2 DEF ScheduleSome
      <4>2. Scheduled(T, R, [expires_at |-> deadline, idx |-> idx, token |-> n])
        BY <1>3, <2>3, <2>7, <4>1, Schedule
      <4> QED
        BY <4>2 DEF Scheduled
    <3> QED
      BY <3>1, <3>2
  <2> HIDE DEF R
  <2>9. /\ R \in Shard /\ Live(R) = Live(S) /\ R.nodes[idx].size = size
        /\ \A i \in Live(S) \ {idx} : R.nodes[i].size = S.nodes[i].size
    BY <2>2, <2>4, <2>5, <2>7, <2>8 DEF Structured, SameContent
  <2>10. LiveBytes(R) = LiveBytes(S) + (size - S.nodes[idx].size)
    BY <1>2, <2>2, <2>9, ResizedBytes
  <2>11. size - S.nodes[idx].size \in Int
    BY <1>3, <2>2
  <2>12. TotalLive' = TotalLive + (size - S.nodes[idx].size)
    BY <1>2, <2>1, <2>9, <2>10, <2>11, TotalStep
  <2> QED
    BY <2>1, <2>11, <2>12 DEF Charges, FetchAdd
<1>5. CASE WriteInsert(t)
  <2> DEFINE idx == NextSlot(S)
             P == insert_new(S, key, value, size)
             node == [P.nodes[idx] EXCEPT !.expires_at = deadline, !.ttl_token = n]
             W == SetNode(P, idx, node)
             R == IF deadline = None THEN P
                  ELSE schedule_expiration(W, idx, deadline, n)
  <2>1. /\ S.map[key] = None /\ SetShard(shard_for(t), R) /\ FetchAdd(size)
    BY <1>5 DEF WriteInsert, Inserted, SetDeadline, Absent, Slot
  <2> HIDE DEF S, key, value, size, deadline, n
  <2>2. InsertedAt(S, P, idx, key, value, size)
    BY <1>2, <1>3, <2>1, InsertNew
  <2> HIDE DEF P, idx
  <2>3. /\ Structured(P) /\ P \in Shard /\ idx \notin Live(S)
        /\ Live(P) = Live(S) \cup {idx} /\ P.nodes[idx].size = size
        /\ \A i \in Live(S) : P.nodes[i].size = S.nodes[i].size
    BY <2>2 DEF InsertedAt, Structured
  <2>4. idx \in Nat /\ idx \in Live(P) /\ P.nodes[idx] \in Node
    BY <2>3, ShardParts
  <2>5. /\ node \in Node /\ node.size = size /\ node.key = P.nodes[idx].key
        /\ node.prev = P.nodes[idx].prev /\ node.next = P.nodes[idx].next
    BY <1>3, <2>3, <2>4 DEF Node
  <2> HIDE DEF node
  <2>6. /\ Structured(W) /\ Live(W) = Live(P) /\ W.nodes[idx] = node
        /\ \A i \in Live(P) \ {idx} : W.nodes[i] = P.nodes[i]
    BY <2>3, <2>4, <2>5, SetContent
  <2> HIDE DEF W
  <2>7. /\ R \in Shard /\ Live(R) = Live(S) \cup {idx} /\ R.nodes[idx].size = size
        /\ \A i \in Live(S) : R.nodes[i].size = S.nodes[i].size
    <3>1. CASE deadline = None
      BY <2>3, <3>1
    <3>2. CASE deadline # None
      <4>1. R = schedule_expiration(W, idx, deadline, n)
        BY <3>2
      <4>2. Scheduled(W, R, [expires_at |-> deadline, idx |-> idx, token |-> n])
        BY <1>3, <2>4, <2>6, <4>1, Schedule
      <4> HIDE DEF R
      <4> QED
        BY <2>3, <2>4, <2>5, <2>6, <4>2 DEF Scheduled, Structured
    <3> QED
      BY <3>1, <3>2
  <2> HIDE DEF R
  <2>8. LiveBytes(R) = LiveBytes(S) + size
    BY <1>2, <2>3, <2>7, InsertedBytes
  <2>9. TotalLive' = TotalLive + size
    BY <1>2, <1>3, <2>1, <2>7, <2>8, TotalStep
  <2> QED
    BY <1>3, <2>1, <2>9 DEF Charges, FetchAdd
<1> QED
  BY <1>4, <1>5

(* The sweeper only removes. *)
LEMMA SweepShrinks ==
  ASSUME IInv, SweepStep
  PROVE  Shrinks /\ UNCHANGED <<pc, evict>>
<1>1. sweep.shard \in Shards /\ sweep.now \in Nat
  BY DEF IInv, TypeOK
<1> DEFINE S == shards[sweep.shard]
           T == pop_due_expiration(S, sweep.now)
<1>2. Structured(S) /\ TtlHeapCovers(S) /\ S \in Shard
  BY <1>1 DEF IInv, ShardsOK, Structured
<1>3. Structured(T) /\ T \in Shard /\ Live(T) = Live(S) /\ T.nodes = S.nodes
  BY <1>1, <1>2, PopDue DEF Structured
<1>4. CASE SweepCheck \/ SweepWake \/ SweepLock
  <2>1. UNCHANGED <<shards, used_bytes, pc, evict>>
    BY <1>4 DEF SweepCheck, SweepWake, SweepLock, store, callers
  <2> QED
    BY <2>1, NothingShrinks
<1>5. CASE SweepPop
  <2>1. PICK e \in due_expiration(S, sweep.now) :
          /\ SetShard(sweep.shard, remove_idx(T, e.idx))
          /\ FetchSub(S.nodes[e.idx].size)
    BY <1>5 DEF SweepPop
  <2>2. UNCHANGED <<pc, evict>>
    BY <1>5 DEF SweepPop, callers
  <2> DEFINE R == remove_idx(T, e.idx)
  <2>3. e.idx \in Live(S)
    BY <1>1, <1>2, PurgeOne
  <2> HIDE DEF T
  <2>4. RemovedAt(T, R, e.idx)
    BY <1>3, <2>3, RemoveIdx
  <2>5. SetShard(sweep.shard, R)
    BY <2>1
  <2> HIDE DEF R
  <2>6. /\ R \in Shard /\ Live(R) = Live(S) \ {e.idx}
        /\ \A i \in Live(R) : R.nodes[i].size = S.nodes[i].size
    BY <1>3, <2>4 DEF RemovedAt, Structured
  <2>7. Shrinks
    BY <1>1, <2>1, <2>3, <2>5, <2>6, RemovalShrinks
  <2> QED
    BY <2>2, <2>7
<1>6. CASE SweepUnlock
  <2>1. SetShard(sweep.shard, T) /\ UNCHANGED <<used_bytes, pc, evict>>
    BY <1>6 DEF SweepUnlock, callers
  <2> HIDE DEF T
  <2>2. LiveBytes(T) = LiveBytes(S) + 0
    <3>1. LiveBytes(T) = LiveBytes(S) /\ LiveBytes(S) \in Nat
      BY <1>2, <1>3, SameBytes, SizesType
    <3> QED
      BY <3>1
  <2>3. used_bytes' = (used_bytes + 0) % (UsizeMax + 1)
    BY <2>1, TotalsNat, NoWrap
  <2>4. Shrinks
    BY <1>1, <1>3, <2>1, <2>2, <2>3, OneShardCharges
  <2> QED
    BY <2>1, <2>4
<1> QED
  BY <1>4, <1>5, <1>6 DEF SweepStep

-----------------------------------------------------------------------------
(* The accounting.                                                         *)

(* What is stored, and what was evicted and not yet subtracted, fits into  *)
(* a usize: it is, or was a moment ago, in the memory of the process.      *)
FitsUsize == TotalLive + Unsubtracted <= UsizeMax

(* A step that charges the counter and leaves the debts alone. *)
LEMMA ChargedAccounts ==
  ASSUME IInv, IInv', UsedBytesAccounts, FitsUsize',
         Unsubtracted' = Unsubtracted, NEW d \in Int, Charges(d)
  PROVE  UsedBytesAccounts'
<1>1. TotalLive \in Nat /\ Unsubtracted \in Nat
  BY TotalsNat
<1>2. TotalLive' \in Nat /\ Unsubtracted' \in Nat
  <2>1. (IInv => /\ TotalLive \in Nat
                 /\ Unsubtracted \in Nat
                 /\ used_bytes \in Nat /\ used_bytes <= UsizeMax)'
    BY TotalsNat, PTL
  <2> QED
    BY <2>1
<1>3. used_bytes + d = TotalLive' + Unsubtracted'
  BY <1>1 DEF UsedBytesAccounts, Charges
<1>4. TotalLive' + Unsubtracted' \in Nat /\ TotalLive' + Unsubtracted' <= UsizeMax
  <2>1. TotalLive' + Unsubtracted' <= UsizeMax
    BY DEF FitsUsize
  <2>2. \A a, b \in Nat : a + b \in Nat
    OBVIOUS
  <2> QED
    BY <1>2, <2>1, <2>2
<1>5. used_bytes' = (TotalLive' + Unsubtracted') % (UsizeMax + 1)
  BY <1>3 DEF Charges
<1> QED
  BY <1>4, <1>5, NoWrap DEF UsedBytesAccounts

(* Threads that move outside evict_if_needed owe nothing. *)
LEMMA OutsideOwesNothing ==
  ASSUME IInv, IInv', NEW t \in Thread, evict' = evict,
         pc[t] # "evict_sub", pc'[t] # "evict_sub",
         \A u \in Thread \ {t} : pc'[u] = pc[u]
  PROVE  Unsubtracted' = Unsubtracted
<1>1. Owed[t] = 0 /\ Owed'[t] = 0
  BY DEF Owed
<1>2. Unsubtracted' = Unsubtracted + (Owed'[t] - Owed[t])
  BY OwedStep
<1> QED
  BY <1>1, <1>2, TotalsNat

(* Nobody moves. *)
LEMMA NobodyMoves ==
  ASSUME IInv, IInv', UNCHANGED <<pc, evict>>
  PROVE  Unsubtracted' = Unsubtracted
<1>1. Unsubtracted = SumOver(Owed, Thread)
  BY UnsubtractedSum
<1>2. (IInv => Unsubtracted = SumOver(Owed, Thread))'
  BY UnsubtractedSum, PTL
<1>3. Owed' = Owed
  BY DEF Owed
<1> QED
  BY <1>1, <1>2, <1>3

(* Every write step charges the counter and ends before the eviction.      *)
LEMMA WriteMoves ==
  ASSUME IInv, NEW t \in Thread, WriteReplace(t) \/ WriteInsert(t)
  PROVE  /\ evict' = evict /\ pc[t] = "write"
         /\ \A u \in Thread \ {t} : pc'[u] = pc[u]
         /\ pc'[t] = IF MaxBytes = UsizeMax THEN "idle" ELSE "evict_load"
<1>1. pc[t] = "write" /\ WriteUnlock(t)
  BY DEF WriteReplace, WriteInsert
<1> QED
  BY <1>1 DEF WriteUnlock, Return, IInv, TypeOK

(* A step of evict_if_needed.  An eviction moves the bytes of the entry    *)
(* from the store to the thread's debt, and EvictSub settles it.           *)
LEMMA EvictAccounts ==
  ASSUME IInv, IInv', UsedBytesAccounts, FitsUsize', NEW t \in Thread,
         EvictLoad(t) \/ EvictStart(t) \/ EvictScan(t) \/ EvictSub(t)
  PROVE  UsedBytesAccounts' /\ NoneFilled
<1>1. /\ pc \in [Thread -> Pc]
      /\ evict \in [Thread -> [start: Shards, offset: Shards, size: Nat]]
  BY DEF IInv, TypeOK
<1>2. TotalLive \in Nat /\ Unsubtracted \in Nat /\ used_bytes \in Nat
  BY TotalsNat
<1>3. ASSUME UNCHANGED <<shards, used_bytes>>, Unsubtracted' = Unsubtracted
      PROVE  UsedBytesAccounts' /\ NoneFilled
  <2>1. Shrinks
    BY <1>3, NothingShrinks
  <2> QED
    BY <1>3, <2>1, ChargedAccounts DEF Shrinks
<1>4. ASSUME \A u \in Thread \ {t} : pc'[u] = pc[u] /\ evict'[u] = evict[u]
      PROVE  Unsubtracted' = Unsubtracted + (Owed'[t] - Owed[t])
  BY <1>4, OwedStep
<1>5. CASE EvictLoad(t) \/ EvictStart(t)
  <2>1. UNCHANGED <<shards, used_bytes>>
    BY <1>5 DEF EvictLoad, EvictStart, store
  <2>2. /\ pc[t] # "evict_sub" /\ pc'[t] # "evict_sub"
        /\ \A u \in Thread \ {t} : pc'[u] = pc[u] /\ evict'[u] = evict[u]
    <3>1. CASE EvictLoad(t)
      BY <1>1, <3>1 DEF EvictLoad, Return
    <3>2. CASE EvictStart(t)
      BY <1>1, <3>2 DEF EvictStart
    <3> QED
      BY <1>5, <3>1, <3>2
  <2>3. Owed[t] = 0 /\ Owed'[t] = 0
    BY <2>2 DEF Owed
  <2> QED
    BY <1>2, <1>3, <1>4, <2>1, <2>2, <2>3
<1>6. CASE EvictScan(t) /\ shards[EvictShard(t)].head = None
  <2>1. UNCHANGED <<shards, used_bytes>>
    BY <1>6 DEF EvictScan
  <2>2. /\ pc[t] # "evict_sub" /\ pc'[t] # "evict_sub"
        /\ \A u \in Thread \ {t} : pc'[u] = pc[u] /\ evict'[u] = evict[u]
    <3>1. EvictNone(t) /\ pc[t] = "evict_scan"
      BY <1>6 DEF EvictScan
    <3> QED
      BY <1>1, <3>1 DEF EvictNone, Return, callers
  <2>3. Owed[t] = 0 /\ Owed'[t] = 0
    BY <2>2 DEF Owed
  <2> QED
    BY <1>2, <1>3, <1>4, <2>1, <2>2, <2>3
<1>7. CASE EvictScan(t) /\ shards[EvictShard(t)].head # None
  <2> DEFINE s == EvictShard(t)
             S == shards[s]
             z == S.nodes[S.head].size
             R == remove_idx(S, S.head)
  <2>1. s \in Shards
    <3>1. evict[t].start + evict[t].offset \in Nat
      BY <1>1, EngineAssumption DEF Shards
    <3>2. \A x \in Nat : x % NumShards \in Shards
      BY EngineAssumption DEF Shards
    <3> QED
      BY <3>1, <3>2 DEF EvictShard
  <2>2. /\ SetShard(s, R)
        /\ evict' = [evict EXCEPT ![t].size = z]
        /\ pc[t] = "evict_scan" /\ pc' = [pc EXCEPT ![t] = "evict_sub"]
        /\ UNCHANGED used_bytes
    BY <1>7 DEF EvictScan, pop_lru
  <2> HIDE DEF s
  <2>3. Structured(S) /\ S.head # None
    BY <1>7, <2>1 DEF IInv, ShardsOK, s
  <2>4. S.head \in Live(S) /\ S \in Shard
    BY <2>3, HeadLive DEF Structured
  <2>5. z \in Nat
    BY <2>4, ShardParts DEF Node
  <2>6. RemovedAt(S, R, S.head)
    BY <2>3, <2>4, RemoveIdx
  <2> HIDE DEF R
  <2>7. /\ R \in Shard /\ Live(R) = Live(S) \ {S.head}
        /\ \A i \in Live(R) : R.nodes[i].size = S.nodes[i].size
    BY <2>6 DEF RemovedAt, Structured
  <2>8. LiveBytes(R) = LiveBytes(S) + (0 - z)
    BY <2>4, <2>7, RemovedBytes
  <2> HIDE DEF z
  <2>9. TotalLive' = TotalLive + (0 - z)
    BY <2>1, <2>2, <2>5, <2>7, <2>8, TotalStep
  <2>10. Owed[t] = 0 /\ Owed'[t] = z
    BY <1>1, <2>2 DEF Owed
  <2>11. \A u \in Thread \ {t} : pc'[u] = pc[u] /\ evict'[u] = evict[u]
    BY <1>1, <2>2
  <2>12. Unsubtracted' = Unsubtracted + z
    BY <1>2, <1>4, <2>5, <2>10, <2>11
  <2>13. UsedBytesAccounts'
    BY <1>2, <2>2, <2>5, <2>9, <2>12 DEF UsedBytesAccounts
  <2>14. NoneFilled
    BY <2>1, <2>2, <2>7 DEF NoneFilled, SetShard, IInv, TypeOK
  <2> QED
    BY <2>13, <2>14
<1>8. CASE EvictSub(t)
  <2> DEFINE z == evict[t].size
  <2>1. /\ used_bytes' = (used_bytes - z) % (UsizeMax + 1)
        /\ evict' = [evict EXCEPT ![t] = NoEvict] /\ UNCHANGED shards
        /\ pc[t] = "evict_sub" /\ pc' = [pc EXCEPT ![t] = "evict_load"]
    BY <1>8 DEF EvictSub, FetchSub
  <2>2. z \in Nat
    BY <1>1
  <2>3. Owed[t] = z /\ Owed'[t] = 0
    BY <1>1, <2>1 DEF Owed
  <2>4. \A u \in Thread \ {t} : pc'[u] = pc[u] /\ evict'[u] = evict[u]
    BY <1>1, <2>1
  <2> HIDE DEF z
  <2>5. Unsubtracted' = Unsubtracted - z
    BY <1>2, <1>4, <2>2, <2>3, <2>4
  <2>6. TotalLive' = TotalLive
    <3>1. (TotalLive = SumOver(ShardBytes, Shards))'
      BY TotalLiveSum, PTL
    <3>2. ShardBytes' = ShardBytes
      BY <2>1 DEF ShardBytes
    <3> QED
      BY <3>1, <3>2, TotalLiveSum DEF Shards
  <2>7. Unsubtracted' \in Nat
    <3>1. (IInv => /\ TotalLive \in Nat
                   /\ Unsubtracted \in Nat
                   /\ used_bytes \in Nat /\ used_bytes <= UsizeMax)'
      BY TotalsNat, PTL
    <3> QED
      BY <3>1
  <2>8. /\ used_bytes - z = TotalLive' + Unsubtracted'
        /\ TotalLive' + Unsubtracted' \in Nat
        /\ TotalLive' + Unsubtracted' <= UsizeMax
    BY <1>2, <2>2, <2>5, <2>6, <2>7 DEF UsedBytesAccounts, FitsUsize
  <2>9. UsedBytesAccounts'
    BY <2>1, <2>8, NoWrap DEF UsedBytesAccounts
  <2> QED
    BY <2>1, <2>9 DEF NoneFilled
<1> QED
  BY <1>5, <1>6, <1>7, <1>8

-----------------------------------------------------------------------------
(* Every step keeps the accounts.                                          *)

(* What a step does to the store and the counter: it takes away and leaves *)
(* the evicting threads alone, it writes, or it is a step of               *)
(* evict_if_needed.                                                        *)
LEMMA StepKinds ==
  ASSUME IInv, [Next]_vars
  PROVE  \/ Shrinks /\ UNCHANGED <<pc, evict>>
         \/ \E t \in Thread : Shrinks /\ MovesOutside(t)
         \/ \E t \in Thread : WriteReplace(t) \/ WriteInsert(t)
         \/ \E t \in Thread :
              EvictLoad(t) \/ EvictStart(t) \/ EvictScan(t) \/ EvictSub(t)
<1>1. ASSUME UNCHANGED <<shards, used_bytes>> PROVE Shrinks
  BY <1>1, NothingShrinks
<1>2. CASE UNCHANGED vars
  BY <1>1, <1>2 DEF vars
<1>3. CASE \E t \in Thread : Call(t)
  <2>1. PICK t \in Thread : Call(t)
    BY <1>3
  <2>2. MovesOutside(t)
    BY <2>1 DEF Call, MovesOutside, Evicting, IInv, TypeOK
  <2>3. UNCHANGED <<shards, used_bytes>>
    BY <2>1 DEF Call, store
  <2> QED
    BY <1>1, <2>2, <2>3
<1>4. ASSUME NEW t \in Thread, Step(t)
      PROVE  \/ Shrinks /\ MovesOutside(t)
             \/ WriteReplace(t) \/ WriteInsert(t)
             \/ EvictLoad(t) \/ EvictStart(t) \/ EvictScan(t) \/ EvictSub(t)
  BY <1>4, ReadShrinks, WriteLockShrinks DEF Step
<1>5. CASE SweepStep
  BY <1>5, SweepShrinks
<1>6. CASE start_expirer \/ stop \/ Tick
  <2>1. UNCHANGED <<shards, used_bytes, pc, evict>>
    BY <1>6 DEF start_expirer, stop, Tick, store, callers
  <2> QED
    BY <1>1, <2>1
<1> QED
  BY <1>2, <1>3, <1>4, <1>5, <1>6 DEF Next

(* Every step keeps the accounts. *)
LEMMA AccountsStep ==
  ASSUME IInv, IInv', UsedBytesAccounts, FitsUsize', [Next]_vars
  PROVE  UsedBytesAccounts'
<1>1. CASE Shrinks /\ UNCHANGED <<pc, evict>>
  BY <1>1, NobodyMoves, ChargedAccounts DEF Shrinks
<1>2. ASSUME NEW t \in Thread, Shrinks, MovesOutside(t)
      PROVE  UsedBytesAccounts'
  <2>1. Unsubtracted' = Unsubtracted
    BY <1>2, OutsideOwesNothing DEF MovesOutside, Evicting
  <2> QED
    BY <1>2, <2>1, ChargedAccounts DEF Shrinks
<1>3. ASSUME NEW t \in Thread, WriteReplace(t) \/ WriteInsert(t)
      PROVE  UsedBytesAccounts'
  <2>1. Unsubtracted' = Unsubtracted
    BY <1>3, WriteMoves, OutsideOwesNothing
  <2>2. \E d \in Int : Charges(d)
    BY <1>3, WriteCharges
  <2> QED
    BY <2>1, <2>2, ChargedAccounts
<1>4. ASSUME NEW t \in Thread,
             EvictLoad(t) \/ EvictStart(t) \/ EvictScan(t) \/ EvictSub(t)
      PROVE  UsedBytesAccounts'
  BY <1>4, EvictAccounts
<1> QED
  BY <1>1, <1>2, <1>3, <1>4, StepKinds

(* Nothing is stored and nothing owed at first. *)
LEMMA AccountsInit ==
  ASSUME Init
  PROVE  UsedBytesAccounts
<1>1. IInv
  BY InitIInv
<1>2. TotalLive = 0
  <2>1. \A s \in Shards : Live(shards[s]) = {}
    BY DEF Init, EmptyShard, Live
  <2>2. \A s \in Shards : ShardBytes[s] = 0
    BY <2>1, LiveBytesSum, SumEmpty, FS_EmptySet DEF ShardBytes
  <2> QED
    <3>1. IsFiniteSet(Shards)
      BY FS_Interval, EngineAssumption DEF Shards
    <3> QED
      BY <2>2, <3>1, TotalLiveSum, SumZeros
<1>3. Unsubtracted = 0
  <2>1. \A t \in Thread : Owed[t] = 0
    BY DEF Init, Owed
  <2> QED
    BY <1>1, <2>1, UnsubtractedSum, SumZeros, EngineAssumption
<1> QED
  BY <1>2, <1>3 DEF Init, UsedBytesAccounts

(* As long as the bytes stored and being evicted fit into a usize,         *)
(* used_bytes is exactly their sum: however the fetch_add of writers, the  *)
(* fetch_sub of evicting threads and the sweeper interleave without a      *)
(* common lock, the counter neither drifts nor wraps.                      *)
THEOREM CounterExact == Spec /\ []FitsUsize => []UsedBytesAccounts
<1>1. Init => UsedBytesAccounts
  BY AccountsInit
<1>2. ASSUME IInv, IInv', UsedBytesAccounts, FitsUsize', [Next]_vars
      PROVE UsedBytesAccounts'
  BY <1>2, AccountsStep
<1> QED
  BY <1>1, <1>2, Invariance, PTL DEF Spec

-----------------------------------------------------------------------------
(* The capacity.                                                           *)

(* Thread t will look at the counter again, or is in a round that has met  *)
(* only empty shards.                                                      *)
Watching(t) ==
  \/ pc[t] \in {"evict_load", "evict_start", "evict_sub"}
  \/ /\ pc[t] = "evict_scan"
     /\ \A o \in 0..(evict[t].offset - 1) :
          Live(shards[(evict[t].start + o) % NumShards]) = {}

(* A round begins at offset zero. *)
OffsetInv ==
  \A t \in Thread : pc[t] \notin {"evict_scan", "evict_sub"} => evict[t].offset = 0

(* Over the budget somebody is watching. *)
BudgetInv == used_bytes > MaxBytes => \E t \in Thread : Watching(t)

(* A round visits every shard. *)
LEMMA RoundCoversShards ==
  ASSUME NEW start \in Shards, NEW s \in Shards
  PROVE  \E o \in Shards : (start + o) % NumShards = s
<1>1. /\ NumShards \in Nat \ {0} /\ start \in Nat /\ s \in Nat
      /\ start < NumShards /\ s < NumShards
  BY EngineAssumption DEF Shards
<1>2. s % NumShards = s
  BY <1>1
<1>3. (s + NumShards) % NumShards = s
  BY <1>1
<1>4. CASE start <= s
  <2>1. s - start \in Shards /\ start + (s - start) = s
    BY <1>1, <1>4 DEF Shards
  <2> QED
    BY <1>2, <2>1
<1>5. CASE s < start
  <2>1. /\ s + NumShards - start \in Shards
        /\ start + (s + NumShards - start) = s + NumShards
    BY <1>1, <1>5 DEF Shards
  <2> QED
    BY <1>3, <2>1
<1> QED
  BY <1>1, <1>4, <1>5

(* Every offset leads to a shard. *)
LEMMA InShards ==
  ASSUME NEW start \in Shards, NEW o \in Nat
  PROVE  (start + o) % NumShards \in Shards
<1>1. start + o \in Nat
  BY EngineAssumption DEF Shards
<1>2. \A x \in Nat : x % NumShards \in Shards
  BY EngineAssumption DEF Shards
<1> QED
  BY <1>1, <1>2

(* A shard whose list is empty stores nothing. *)
LEMMA HeadlessEmpty ==
  ASSUME NEW S, Structured(S), S.head = None
  PROVE  Live(S) = {}
<1>1. PICK order \in [1..LiveCount(S) -> DOMAIN S.nodes] : LruOrder(S, order)
  BY DEF Structured, LruChain
<1>2. LiveCount(S) \in Nat /\ Linked(S, LiveCount(S), order)
  BY <1>1 DEF Structured, LruChain, LruOrder
<1>3. None \notin Live(S)
  BY ShardParts DEF Structured, None
<1>4. LiveCount(S) = 0
  <2> SUFFICES ASSUME LiveCount(S) # 0 PROVE FALSE
    OBVIOUS
  <2>1. 1 \in 1..LiveCount(S) /\ S.head = order[1]
    BY <1>2 DEF Linked
  <2> QED
    BY <1>2, <1>3, <2>1 DEF Linked
<1> QED
  BY <1>1, <1>4 DEF LruOrder

(* Who watches and does not move goes on watching, unless somebody fills an *)
(* empty shard.                                                            *)
LEMMA KeepsWatching ==
  ASSUME IInv, NoneFilled, NEW u \in Thread, pc'[u] = pc[u],
         evict'[u] = evict[u], Watching(u)
  PROVE  Watching(u)'
<1>1. evict[u].start \in Shards /\ evict[u].offset \in Shards
  BY DEF IInv, TypeOK
<1>2. CASE pc[u] \in {"evict_load", "evict_start", "evict_sub"}
  BY <1>2 DEF Watching
<1>3. CASE /\ pc[u] = "evict_scan"
           /\ \A o \in 0..(evict[u].offset - 1) :
                Live(shards[(evict[u].start + o) % NumShards]) = {}
  <2>1. ASSUME NEW o \in 0..(evict[u].offset - 1)
        PROVE  Live(shards'[(evict[u].start + o) % NumShards]) = {}
    <3>1. (evict[u].start + o) % NumShards \in Shards
      BY <1>1, InShards DEF Shards
    <3> QED
      BY <1>3, <3>1 DEF NoneFilled
  <2> QED
    BY <1>3, <2>1 DEF Watching
<1> QED
  BY <1>2, <1>3 DEF Watching

(* Taking away never leads over the budget. *)
LEMMA ShrinksLower ==
  ASSUME IInv, IInv', UsedBytesAccounts, Shrinks
  PROVE  used_bytes' <= used_bytes /\ used_bytes' \in Nat /\ used_bytes \in Nat
<1>1. TotalLive \in Nat /\ Unsubtracted \in Nat /\ used_bytes \in Nat
      /\ used_bytes <= UsizeMax
  BY TotalsNat
<1>2. TotalLive' \in Nat
  <2>1. (IInv => /\ TotalLive \in Nat
                 /\ Unsubtracted \in Nat
                 /\ used_bytes \in Nat /\ used_bytes <= UsizeMax)'
    BY TotalsNat, PTL
  <2> QED
    BY <2>1
<1>3. PICK d \in Int : d <= 0 /\ Charges(d)
  BY DEF Shrinks
<1>4. used_bytes = TotalLive + Unsubtracted /\ TotalLive' = TotalLive + d
  BY <1>3 DEF Charges, UsedBytesAccounts
<1>5. used_bytes + d \in Nat /\ used_bytes + d <= UsizeMax
      /\ used_bytes + d <= used_bytes
  BY <1>1, <1>2, <1>3, <1>4, EngineAssumption
<1>6. used_bytes' = used_bytes + d
  BY <1>3, <1>5, NoWrap DEF Charges
<1> QED
  BY <1>1, <1>5, <1>6

(* With every shard empty, a counter over the budget is the debt of some   *)
(* thread that is about to subtract it.                                    *)
LEMMA DebtWatches ==
  ASSUME IInv, UsedBytesAccounts, used_bytes > MaxBytes,
         \A s \in Shards : Live(shards[s]) = {}
  PROVE  \E u \in Thread : pc[u] = "evict_sub"
<1>1. TotalLive = 0
  <2>1. \A s \in Shards : ShardBytes[s] = 0
    BY LiveBytesSum, SumEmpty, FS_EmptySet DEF ShardBytes
  <2>2. IsFiniteSet(Shards)
    BY FS_Interval, EngineAssumption DEF Shards
  <2> QED
    BY <2>1, <2>2, TotalLiveSum, SumZeros
<1>2. Unsubtracted # 0
  <2>1. Unsubtracted \in Nat /\ used_bytes \in Nat
    BY TotalsNat
  <2> QED
    BY <1>1, <2>1, EngineAssumption DEF UsedBytesAccounts
<1>3. \E u \in Thread : Owed[u] # 0
  BY <1>2, UnsubtractedSum, SumZeros, EngineAssumption
<1> QED
  BY <1>3 DEF Owed

(* A round ends at offset zero again. *)
LEMMA OffsetStep ==
  ASSUME IInv, OffsetInv, [Next]_vars
  PROVE  OffsetInv'
<1> USE DEF OffsetInv
<1>0. pc \in [Thread -> Pc] 
      /\ evict \in [Thread -> [start: Shards, offset: Shards, size: Nat]]
  BY DEF IInv, TypeOK
<1>1. CASE UNCHANGED <<pc, evict>>
  BY <1>1
<1>2. ASSUME NEW t \in Thread, MovesOutside(t) PROVE OffsetInv'
  BY <1>2 DEF MovesOutside, Evicting
<1>3. ASSUME NEW t \in Thread, WriteReplace(t) \/ WriteInsert(t)
      PROVE  OffsetInv'
  BY <1>3, WriteMoves
<1>4. ASSUME NEW t \in Thread,
             EvictLoad(t) \/ EvictStart(t) \/ EvictScan(t) \/ EvictSub(t)
      PROVE  OffsetInv'
  <2>1. \A u \in Thread \ {t} : pc'[u] = pc[u] /\ evict'[u] = evict[u]
    BY <1>0, <1>4 DEF EvictLoad, EvictStart, EvictScan, EvictSub, EvictNone,
                      Return, callers
  <2>2. pc'[t] \notin {"evict_scan", "evict_sub"} => evict'[t].offset = 0
    <3>1. CASE EvictLoad(t)
      BY <1>0, <3>1 DEF EvictLoad, Return
    <3>2. CASE EvictStart(t)
      BY <1>0, <3>2 DEF EvictStart
    <3>3. CASE EvictScan(t)
      BY <1>0, <3>3 DEF EvictScan, EvictNone, Return, NoEvict, callers
    <3>4. CASE EvictSub(t)
      BY <1>0, <3>4 DEF EvictSub, NoEvict
    <3> QED
      BY <1>4, <3>1, <3>2, <3>3, <3>4
  <2> QED
    BY <2>1, <2>2
<1> QED
  BY <1>1, <1>2, <1>3, <1>4, StepKinds

(* A step of evict_if_needed moves one thread. *)
LEMMA EvictMoves ==
  ASSUME IInv, NEW t \in Thread,
         EvictLoad(t) \/ EvictStart(t) \/ EvictScan(t) \/ EvictSub(t)
  PROVE  \A u \in Thread \ {t} : pc'[u] = pc[u] /\ evict'[u] = evict[u]
<1>0. pc \in [Thread -> Pc] 
      /\ evict \in [Thread -> [start: Shards, offset: Shards, size: Nat]]
  BY DEF IInv, TypeOK
<1> QED
  BY <1>0 DEF EvictLoad, EvictStart, EvictScan, EvictSub, EvictNone, Return, callers

(* A thread in evict_if_needed that returns although the counter is over    *)
(* the budget leaves another one watching.                                 *)
LEMMA EvictBudget ==
  ASSUME IInv, UsedBytesAccounts, OffsetInv, NoneFilled, NEW t \in Thread,
         EvictLoad(t) \/ EvictStart(t) \/ EvictScan(t) \/ EvictSub(t), BudgetInv,
         Watching(t), used_bytes' > MaxBytes
  PROVE  \E u \in Thread : Watching(u)'
<1>0. pc \in [Thread -> Pc] 
      /\ evict \in [Thread -> [start: Shards, offset: Shards, size: Nat]]
      /\ evict[t].start \in Shards /\ evict[t].offset \in Shards
  BY DEF IInv, TypeOK
<1>1. CASE EvictLoad(t)
  <2>1. pc'[t] = "evict_start"
    BY <1>0, <1>1, EngineAssumption DEF EvictLoad, store, IInv, TypeOK
  <2> QED
    BY <2>1 DEF Watching
<1>2. CASE EvictStart(t)
  <2>1. pc'[t] = "evict_scan" /\ evict'[t].offset = 0
    BY <1>0, <1>2 DEF EvictStart, OffsetInv
  <2>2. 0..(evict'[t].offset - 1) = {}
    BY <2>1
  <2> QED
    BY <2>1, <2>2 DEF Watching
<1>3. CASE EvictScan(t) /\ shards[EvictShard(t)].head # None
  <2>1. pc'[t] = "evict_sub"
    BY <1>0, <1>3 DEF EvictScan
  <2> QED
    BY <2>1 DEF Watching
<1>4. CASE EvictScan(t) /\ shards[EvictShard(t)].head = None
  <2>1. /\ pc[t] = "evict_scan" /\ UNCHANGED <<shards, used_bytes>> /\ EvictNone(t)
    BY <1>4 DEF EvictScan
  <2>2. EvictShard(t) \in Shards
    BY <1>0, InShards DEF EvictShard, Shards
  <2>3. Live(shards[EvictShard(t)]) = {}
    BY <1>4, <2>2, HeadlessEmpty DEF IInv, ShardsOK
  <2>4. \A o \in 0..evict[t].offset :
          Live(shards[(evict[t].start + o) % NumShards]) = {}
    <3>1. \A o \in 0..evict[t].offset :
             o = evict[t].offset \/ o \in 0..(evict[t].offset - 1)
      BY <1>0, EngineAssumption DEF Shards
    <3> QED
      BY <2>1, <2>3, <3>1 DEF Watching, EvictShard
  <2>5. CASE evict[t].offset + 1 < NumShards
    <3>1. /\ pc' = pc /\ evict'[t].start = evict[t].start
          /\ evict'[t].offset = evict[t].offset + 1
      BY <1>0, <2>1, <2>5 DEF EvictNone, callers
    <3>2. 0..(evict'[t].offset - 1) = 0..evict[t].offset
      BY <1>0, <3>1, EngineAssumption DEF Shards
    <3> QED
      BY <2>1, <2>4, <3>1, <3>2 DEF Watching
  <2>6. CASE ~(evict[t].offset + 1 < NumShards)
    <3>1. 0..evict[t].offset = Shards
      BY <1>0, <2>6, EngineAssumption DEF Shards
    <3>2. \A s \in Shards : Live(shards[s]) = {}
      <4>1. ASSUME NEW s \in Shards PROVE Live(shards[s]) = {}
        <5>1. PICK o \in Shards : (evict[t].start + o) % NumShards = s
          BY <1>0, RoundCoversShards
        <5> QED
          BY <2>4, <3>1, <5>1
      <4> QED
        BY <4>1
    <3>3. PICK u \in Thread : pc[u] = "evict_sub"
      BY <2>1, <3>2, DebtWatches
    <3>4. pc'[u] = "evict_sub"
      BY <1>4, <2>1, <3>3, EvictMoves
    <3> QED
      BY <3>4 DEF Watching
  <2> QED
    BY <2>5, <2>6
<1>5. CASE EvictSub(t)
  <2>1. pc'[t] = "evict_load"
    BY <1>0, <1>5 DEF EvictSub
  <2> QED
    BY <2>1 DEF Watching
<1> QED
  BY <1>1, <1>2, <1>3, <1>4, <1>5

(* Every step over the budget leaves a thread watching. *)
LEMMA BudgetStep ==
  ASSUME IInv, IInv', UsedBytesAccounts, FitsUsize', OffsetInv, BudgetInv,
         [Next]_vars
  PROVE  BudgetInv'
<1> SUFFICES ASSUME used_bytes' > MaxBytes
             PROVE  \E u \in Thread : Watching(u)'
  BY DEF BudgetInv
<1>1. ASSUME used_bytes' <= used_bytes, used_bytes \in Nat, used_bytes' \in Nat
      PROVE  \E u \in Thread : Watching(u)
  <2>1. used_bytes > MaxBytes
    BY <1>1, EngineAssumption
  <2> QED
    BY <2>1 DEF BudgetInv
<1>2. CASE Shrinks /\ UNCHANGED <<pc, evict>>
  <2>1. PICK u \in Thread : Watching(u)
    BY <1>1, <1>2, ShrinksLower
  <2> QED
    BY <1>2, <2>1, KeepsWatching DEF Shrinks
<1>3. ASSUME NEW t \in Thread, Shrinks, MovesOutside(t)
      PROVE  \E u \in Thread : Watching(u)'
  <2>1. PICK u \in Thread : Watching(u)
    BY <1>1, <1>3, ShrinksLower
  <2>2. u # t
    BY <1>3, <2>1 DEF Watching, MovesOutside, Evicting
  <2> QED
    BY <1>3, <2>1, <2>2, KeepsWatching DEF Shrinks, MovesOutside
<1>4. ASSUME NEW t \in Thread, WriteReplace(t) \/ WriteInsert(t)
      PROVE  \E u \in Thread : Watching(u)'
  <2>1. MaxBytes # UsizeMax
    BY EngineAssumption DEF IInv, TypeOK
  <2>2. pc'[t] = "evict_load"
    BY <1>4, <2>1, WriteMoves
  <2> QED
    BY <2>2 DEF Watching
<1>5. ASSUME NEW t \in Thread,
             EvictLoad(t) \/ EvictStart(t) \/ EvictScan(t) \/ EvictSub(t)
      PROVE  \E u \in Thread : Watching(u)'
  <2>1. NoneFilled
    BY <1>5, EvictAccounts
  <2>2. CASE Watching(t)
    BY <1>5, <2>1, <2>2, EvictBudget
  <2>3. CASE ~Watching(t)
    <3>1. ~EvictSub(t)
      BY <2>3 DEF EvictSub, Watching
    <3>2. used_bytes' = used_bytes
      BY <1>5, <3>1 DEF EvictLoad, EvictStart, EvictScan, store
    <3>3. PICK u \in Thread : Watching(u)
      BY <3>2 DEF BudgetInv
    <3> QED
      BY <1>5, <2>1, <2>3, <3>3, EvictMoves, KeepsWatching
  <2> QED
    BY <2>2, <2>3
<1> QED
  BY <1>2, <1>3, <1>4, <1>5, StepKinds

(* When no call is in progress the store is within its capacity, although  *)
(* evict_if_needed gives up after a round that met only empty shards: the  *)
(* bytes it then still sees are owed by another thread, which will look at *)
(* the counter again.                                                      *)
THEOREM BudgetKept == Spec /\ []FitsUsize => []QuiescentWithinBudget
<1>1. Init => OffsetInv /\ BudgetInv
  BY EngineAssumption DEF Init, OffsetInv, BudgetInv, NoEvict
<1>2. ASSUME IInv, OffsetInv, [Next]_vars
      PROVE  OffsetInv'
  BY <1>2, OffsetStep
<1>3. ASSUME IInv, IInv', UsedBytesAccounts, FitsUsize', OffsetInv, BudgetInv,
             [Next]_vars
      PROVE  BudgetInv'
  BY <1>3, BudgetStep
<1>4. IInv /\ BudgetInv => QuiescentWithinBudget
  <2> SUFFICES ASSUME IInv, BudgetInv, \A t \in Thread : pc[t] = "idle"
               PROVE  used_bytes <= MaxBytes
    BY DEF QuiescentWithinBudget
  <2>1. ~\E t \in Thread : Watching(t)
    BY DEF Watching
  <2> QED
    BY <2>1, EngineAssumption DEF BudgetInv, IInv, TypeOK
<1> QED
  BY <1>1, <1>2, <1>3, <1>4, CounterExact, Invariance, PTL DEF Spec

(***************************************************************************)
(* The engine implements KVStore.                                          *)
(***************************************************************************)

(* What KVStore sees of a node. *)
Item(node) ==
  [key |-> node.key, value |-> node.value, expires_at |-> node.expires_at]

(* A shard has one recency order: the links lead from each slot to the     *)
(* next one.                                                               *)
LEMMA OneOrder ==
  ASSUME NEW S, Structured(S), NEW a, NEW b, Lists(S, a), Lists(S, b)
  PROVE  a = b
<1> DEFINE n == LiveCount(S)
           D == {i \in 1..n : a[i] # b[i]}
<1>1. /\ n \in Nat
      /\ a \in [1..n -> DOMAIN S.nodes] /\ Linked(S, n, a)
      /\ b \in [1..n -> DOMAIN S.nodes] /\ Linked(S, n, b)
  BY DEF Structured, LruChain, Lists, LruOrder
<1> HIDE DEF n
<1>2. D = {}
  <2> SUFFICES ASSUME D # {} PROVE FALSE
    OBVIOUS
  <2>1. D \subseteq Nat
    BY <1>1
  <2>2. \E i \in D : \A j \in D : i <= j
    BY <2>1, LeastElement
  <2>3. PICK i \in D : \A j \in D : i <= j
    BY <2>2
  <2>4. i \in 1..n /\ a[i] # b[i]
    OBVIOUS
  <2>5. i # 1
    BY <1>1, <2>4 DEF Linked
  <2>6. /\ i - 1 \in 1..n /\ ~(i <= i - 1) /\ (i - 1) + 1 = i /\ i - 1 # n
    BY <1>1, <2>4, <2>5
  <2>7. a[i - 1] = b[i - 1]
    BY <2>3, <2>6
  <2>8. S.nodes[a[i - 1]].next = a[i] /\ S.nodes[b[i - 1]].next = b[i]
    BY <1>1, <2>6 DEF Linked
  <2> QED
    BY <2>4, <2>7, <2>8
<1>3. \A i \in 1..n : a[i] = b[i]
  BY <1>2
<1> QED
  BY <1>1, <1>3

(* Entries reads the shard along its order.                                *)
LEMMA EntriesListed ==
  ASSUME NEW S, Structured(S), NEW order, Lists(S, order)
  PROVE  /\ Entries(S) = [i \in 1..LiveCount(S) |-> Item(S.nodes[order[i]])]
         /\ LiveCount(S) \in Nat
         /\ \A i \in 1..LiveCount(S) : order[i] \in Live(S)
         /\ \A i, j \in 1..LiveCount(S) :
              S.nodes[order[i]].key = S.nodes[order[j]].key => i = j
         /\ \A s \in Live(S) : \E i \in 1..LiveCount(S) : order[i] = s
<1>1. Lists(S, LruSlots(S))
  BY DEF LruSlots, Lists
<1>2. LruSlots(S) = order
  BY <1>1, OneOrder
<1>3. Entries(S) = [i \in 1..LiveCount(S) |-> Item(S.nodes[order[i]])]
  BY <1>2 DEF Entries, Item
<1>4. LiveCount(S) \in Nat /\ MapExact(S)
  BY DEF Structured, LruChain
<1>5. /\ \A i \in 1..LiveCount(S) : order[i] \in Live(S)
      /\ \A i, j \in 1..LiveCount(S) : order[i] = order[j] => i = j
      /\ \A s \in Live(S) : \E i \in 1..LiveCount(S) : order[i] = s
  BY DEF Lists, LruOrder, Linked
<1>6. \A i, j \in 1..LiveCount(S) :
        S.nodes[order[i]].key = S.nodes[order[j]].key => i = j
  BY <1>4, <1>5 DEF MapExact
<1> QED
  BY <1>3, <1>4, <1>5, <1>6

(* The entries of a shard are a list of items. *)
Items == [key: Key, value: Value, expires_at: Nat]

(* The list of a shard is one of items, as long as its order. *)
LEMMA EntriesType ==
  ASSUME NEW S, Structured(S)
  PROVE  /\ Entries(S) \in Seq(Items)
         /\ Len(Entries(S)) = LiveCount(S)
         /\ DOMAIN Entries(S) = 1..LiveCount(S)
<1>1. PICK order : Lists(S, order)
  BY DEF Structured, LruChain, Lists
<1>2. /\ Entries(S) = [i \in 1..LiveCount(S) |-> Item(S.nodes[order[i]])]
      /\ LiveCount(S) \in Nat
      /\ \A i \in 1..LiveCount(S) : order[i] \in Live(S)
  BY <1>1, EntriesListed
<1>3. \A i \in Live(S) : S.nodes[i] \in Node
  BY ShardParts DEF Structured
<1>4. \A i \in 1..LiveCount(S) : Item(S.nodes[order[i]]) \in Items
  BY <1>2, <1>3 DEF Item, Items, Node
<1>5. Entries(S) \in [1..LiveCount(S) -> Items]
  BY <1>2, <1>4
<1>6. Entries(S) \in Seq(Items)
  BY <1>2, <1>5, IsSeq
<1>7. DOMAIN Entries(S) = 1..LiveCount(S)
  BY <1>5
<1> QED
  BY <1>2, <1>6, <1>7, LenProperties

(* Without takes out the one entry of the key. *)
LEMMA WithoutAt ==
  ASSUME NEW list \in Seq(Items), NEW p \in 1..Len(list), NEW key,
         list[p].key = key,
         \A i \in 1..Len(list) : list[i].key = key => i = p
  PROVE  Store!Without(list, key) = DropAt(list, Len(list), p)
<1>1. DOMAIN list = 1..Len(list) /\ Len(list) \in Nat
  OBVIOUS
<1>2. Store!Find(list, key) # {}
  BY <1>1 DEF Store!Find
<1>3. p = CHOOSE i \in DOMAIN list : list[i].key = key
  BY <1>1
<1>4. Store!Without(list, key)
        = [i \in 1..(Len(list) - 1) |-> list[IF i < p THEN i ELSE i + 1]]
  BY <1>2, <1>3 DEF Store!Without
<1> QED
  BY <1>4 DEF DropAt

(* Without leaves a list alone in which the key does not occur. *)
LEMMA WithoutNone ==
  ASSUME NEW list \in Seq(Items), NEW key,
         \A i \in 1..Len(list) : list[i].key # key
  PROVE  Store!Without(list, key) = list /\ Store!Find(list, key) = {}
<1>1. Store!Find(list, key) = {}
  BY DEF Store!Find
<1> QED
  BY <1>1 DEF Store!Without

(* A live slot has one place in the order, and its key one entry there. *)
Place(S, idx, order, p) ==
  /\ Lists(S, order)
  /\ p \in 1..LiveCount(S)
  /\ order[p] = idx
  /\ Entries(S)[p] = Item(S.nodes[idx])
  /\ \A i \in 1..LiveCount(S) :
       Entries(S)[i].key = S.nodes[idx].key => i = p
  /\ Store!Without(Entries(S), S.nodes[idx].key)
       = DropAt(Entries(S), LiveCount(S), p)

(* Every live slot has such a place. *)
LEMMA HasPlace ==
  ASSUME NEW S, Structured(S), NEW idx \in Live(S)
  PROVE  \E order, p : Place(S, idx, order, p)
<1>1. PICK order : Lists(S, order)
  BY DEF Structured, LruChain, Lists
<1>2. /\ Entries(S) = [i \in 1..LiveCount(S) |-> Item(S.nodes[order[i]])]
      /\ LiveCount(S) \in Nat
      /\ \A i, j \in 1..LiveCount(S) :
           S.nodes[order[i]].key = S.nodes[order[j]].key => i = j
      /\ \A s \in Live(S) : \E i \in 1..LiveCount(S) : order[i] = s
  BY <1>1, EntriesListed
<1>3. PICK p \in 1..LiveCount(S) : order[p] = idx
  BY <1>2
<1>4. \A i \in 1..LiveCount(S) : Entries(S)[i].key = S.nodes[order[i]].key
  BY <1>2 DEF Item
<1>5. /\ Entries(S)[p] = Item(S.nodes[idx])
      /\ Entries(S)[p].key = S.nodes[idx].key
  BY <1>2, <1>3, <1>4
<1>6. \A i \in 1..LiveCount(S) : Entries(S)[i].key = S.nodes[idx].key => i = p
  BY <1>2, <1>3, <1>4
<1>7. Entries(S) \in Seq(Items) /\ Len(Entries(S)) = LiveCount(S)
  BY EntriesType
<1> DEFINE list == Entries(S)
           key == S.nodes[idx].key
<1>8. /\ list \in Seq(Items) /\ p \in 1..Len(list) /\ list[p].key = key
      /\ \A i \in 1..Len(list) : list[i].key = key => i = p
  BY <1>5, <1>6, <1>7
<1> HIDE DEF list, key
<1>9. Store!Without(list, key) = DropAt(list, Len(list), p)
  BY <1>8, WithoutAt
<1>10. Place(S, idx, order, p)
  BY <1>1, <1>3, <1>5, <1>6, <1>7, <1>9 DEF Place, list, key
<1> QED
  BY <1>10

(* A shard whose nodes and order a step kept has the same entries. *)
LEMMA KeptEntries ==
  ASSUME NEW S, NEW R, Structured(S), Structured(R), OrderKept(S, R),
         \A i \in Live(S) : Item(R.nodes[i]) = Item(S.nodes[i])
  PROVE  Entries(R) = Entries(S)
<1>1. PICK order : Lists(S, order)
  BY DEF Structured, LruChain, Lists
<1>2. Lists(R, order) /\ LiveCount(R) = LiveCount(S)
  BY <1>1 DEF OrderKept
<1>3. /\ Entries(S) = [i \in 1..LiveCount(S) |-> Item(S.nodes[order[i]])]
      /\ \A i \in 1..LiveCount(S) : order[i] \in Live(S)
  BY <1>1, EntriesListed
<1>4. Entries(R) = [i \in 1..LiveCount(R) |-> Item(R.nodes[order[i]])]
  BY <1>2, EntriesListed
<1>5. \A i \in 1..LiveCount(S) :
        Item(R.nodes[order[i]]) = Item(S.nodes[order[i]])
  BY <1>3
<1> QED
  BY <1>2, <1>3, <1>4, <1>5

(* remove_idx takes the entry of its slot out of the list. *)
LEMMA RemoveEntries ==
  ASSUME NEW S, Structured(S), NEW idx \in Live(S),
         NEW R, R = remove_idx(S, idx)
  PROVE  Entries(R) = Store!Without(Entries(S), S.nodes[idx].key)
<1>1. RemovedAt(S, R, idx) /\ OrderDrops(S, R, idx)
  BY RemoveIdx
<1>2. PICK order, p : Place(S, idx, order, p)
  BY HasPlace
<1> DEFINE n == LiveCount(S)
           o == DropAt(order, n, p)
<1>3. /\ Lists(R, o) /\ LiveCount(R) = n - 1 /\ p \in 1..n /\ order[p] = idx
      /\ Lists(S, order)
  BY <1>1, <1>2 DEF OrderDrops, Place
<1>4. Structured(R) /\ Live(R) = Live(S) \ {idx}
      /\ \A i \in Live(R) : Item(R.nodes[i]) = Item(S.nodes[i])
  BY <1>1 DEF RemovedAt, Item
<1>5. /\ Entries(S) = [i \in 1..n |-> Item(S.nodes[order[i]])]
      /\ n \in Nat
  BY <1>3, EntriesListed
<1>6. /\ Entries(R) = [i \in 1..(n - 1) |-> Item(R.nodes[o[i]])]
      /\ \A i \in 1..(n - 1) : o[i] \in Live(R)
  BY <1>3, <1>4, EntriesListed
<1> HIDE DEF n
<1>7. \A i \in 1..(n - 1) : o[i] = IF i < p THEN order[i] ELSE order[i + 1]
  BY DEF DropAt
<1> HIDE DEF o
<1>8. \A i \in 1..(n - 1) : Item(R.nodes[o[i]]) = Item(S.nodes[o[i]])
  BY <1>4, <1>6
<1>9. \A i \in 1..(n - 1) : i \in 1..n /\ i + 1 \in 1..n
  BY <1>5
<1>10. \A i \in 1..(n - 1) : Item(S.nodes[o[i]])
         = IF i < p THEN Entries(S)[i] ELSE Entries(S)[i + 1]
  BY <1>5, <1>7, <1>9
<1>11. Entries(R) = DropAt(Entries(S), n, p)
  BY <1>6, <1>8, <1>10 DEF DropAt
<1> QED
  BY <1>2, <1>11 DEF Place, n

(* pop_lru takes out the first entry. *)
LEMMA PopEntries ==
  ASSUME NEW S, Structured(S), S.head # None, NEW R, R = pop_lru(S)
  PROVE  Entries(S) # <<>> /\ Entries(R) = Tail(Entries(S))
<1>1. S.head \in Live(S) /\ R = remove_idx(S, S.head)
  BY HeadLive DEF pop_lru
<1>2. PICK order, p : Place(S, S.head, order, p)
  BY <1>1, HasPlace
<1> DEFINE n == LiveCount(S)
<1>3. Entries(R) = DropAt(Entries(S), n, p) /\ p \in 1..n
  BY <1>1, <1>2, RemoveEntries DEF Place
<1>4. n \in Nat /\ Linked(S, n, order) /\ order[p] = S.head
  BY <1>2 DEF Structured, LruChain, Place, Lists, LruOrder
<1>5. /\ Entries(S) \in Seq(Items) /\ Len(Entries(S)) = n
  BY EntriesType
<1> HIDE DEF n
<1>8. n # 0 /\ order[1] = S.head
  BY <1>3, <1>4 DEF Linked
<1>9. p = 1
  BY <1>3, <1>4, <1>8 DEF Linked
<1>10. Entries(S) # <<>>
  BY <1>5, <1>8
<1> DEFINE list == Entries(S)
<1>11. /\ Tail(list) \in Seq(Items) /\ Len(Tail(list)) = n - 1
       /\ \A i \in 1..(n - 1) : Tail(list)[i] = list[i + 1]
  BY <1>5, <1>10, HeadTailProperties
<1> HIDE DEF list
<1>12. Entries(R) = [i \in 1..(n - 1) |-> list[i + 1]]
  BY <1>3, <1>4, <1>9 DEF DropAt, list
<1>13. Tail(list) \in [1..(n - 1) -> Items]
  BY <1>11, LenProperties
<1>14. Entries(R) = Tail(list)
  BY <1>11, <1>12, <1>13
<1> QED
  BY <1>10, <1>14 DEF list

(* Append, as AddLast. *)
LEMMA AppendIs ==
  ASSUME NEW n \in Nat, NEW list \in [1..n -> Items], NEW e \in Items
  PROVE  Append(list, e) = AddLast(list, n, e)
<1>1. list \in Seq(Items) /\ Len(list) = n
  BY IsSeq
<1>2. /\ Append(list, e) \in Seq(Items) /\ Len(Append(list, e)) = n + 1
      /\ \A i \in 1..n : Append(list, e)[i] = list[i]
      /\ Append(list, e)[n + 1] = e
  BY <1>1, AppendProperties
<1>3. Append(list, e) \in [1..(n + 1) -> Items]
  BY <1>2, LenProperties
<1> HIDE <1>1
<1> DEFINE a == Append(list, e)
<1> HIDE DEF a
<1>4. \A i \in 1..(n + 1) : a[i] = IF i = n + 1 THEN e ELSE list[i]
  <2> TAKE i \in 1..(n + 1)
  <2>1. i = n + 1 \/ i \in 1..n
    OBVIOUS
  <2> QED
    BY <2>1, <1>2 DEF a
<1>5. a = [i \in 1..(n + 1) |-> IF i = n + 1 THEN e ELSE list[i]]
  BY <1>3, <1>4 DEF a
<1> QED
  BY <1>5 DEF a, AddLast

(* A live node is an item for KVStore. *)
LEMMA ItemType ==
  ASSUME NEW node \in Node
  PROVE  /\ Item(node) \in Items
         /\ Item(node).key = node.key
         /\ Item(node).value = node.value
         /\ Item(node).expires_at = node.expires_at
BY DEF Item, Items, Node

(* touch moves the entry of its slot to the end of the list. *)
LEMMA TouchEntries ==
  ASSUME NEW S, Structured(S), NEW idx \in Live(S),
         NEW R, R = touch(S, idx)
  PROVE  Entries(R) = Append(Store!Without(Entries(S), S.nodes[idx].key),
                             Item(S.nodes[idx]))
<1>1. Structured(R) /\ SameContent(S, R) /\ OrderMoves(S, R, idx)
  BY Touch
<1>2. PICK order, p : Place(S, idx, order, p)
  BY HasPlace
<1> DEFINE n == LiveCount(S)
           d == DropAt(order, n, p)
           o == AddLast(d, n - 1, idx)
           list == Entries(S)
           e == Item(S.nodes[idx])
<1>3. /\ Lists(R, o) /\ LiveCount(R) = n /\ p \in 1..n /\ order[p] = idx
      /\ Lists(S, order)
  BY <1>1, <1>2 DEF OrderMoves, Place
<1>4. \A i \in Live(S) : Item(R.nodes[i]) = Item(S.nodes[i])
  BY <1>1 DEF SameContent, Item
<1>5. /\ list = [i \in 1..n |-> Item(S.nodes[order[i]])]
      /\ n \in Nat
  <2>1. Lists(S, order)
    BY <1>3
  <2> QED
    BY <2>1, EntriesListed
<1>6. /\ Entries(R) = [i \in 1..n |-> Item(R.nodes[o[i]])]
      /\ \A i \in 1..n : o[i] \in Live(R)
  <2>1. Lists(R, o) /\ LiveCount(R) = n
    BY <1>3
  <2> HIDE DEF o, n
  <2> QED
    BY <1>1, <2>1, EntriesListed
<1>7. list \in [1..n -> Items] /\ e \in Items
  <2>1. S.nodes[idx] \in Node /\ list \in Seq(Items) /\ Len(list) = n
    BY EntriesType, ShardParts DEF Structured
  <2> QED
    BY <2>1, ItemType, LenProperties
<1> HIDE DEF n, list, e
<1>8. /\ n - 1 \in Nat /\ (n - 1) + 1 = n
      /\ \A i \in 1..(n - 1) : i \in 1..n /\ i + 1 \in 1..n /\ i # n
  BY <1>3, <1>5
<1>9. /\ \A i \in 1..(n - 1) : d[i] = IF i < p THEN order[i] ELSE order[i + 1]
      /\ \A i \in 1..n : o[i] = IF i = n THEN idx ELSE d[i]
  BY <1>8 DEF DropAt, AddLast
<1> HIDE DEF d, o
<1>10. \A i \in 1..n : Item(R.nodes[o[i]]) = Item(S.nodes[o[i]])
  BY <1>1, <1>4, <1>6 DEF SameContent
<1>11. \A i \in 1..(n - 1) : Item(S.nodes[o[i]])
         = IF i < p THEN list[i] ELSE list[i + 1]
  BY <1>5, <1>8, <1>9
<1>12. Item(S.nodes[o[n]]) = e /\ n \in 1..n
  BY <1>8, <1>9 DEF e
<1> DEFINE rest == DropAt(list, n, p)
<1>13. /\ rest \in [1..(n - 1) -> Items]
       /\ \A i \in 1..(n - 1) : rest[i] = IF i < p THEN list[i] ELSE list[i + 1]
  BY <1>7, <1>8 DEF DropAt
<1> HIDE DEF rest
<1>14. Append(rest, e) = AddLast(rest, n - 1, e)
  BY <1>7, <1>8, <1>13, AppendIs
<1>15. AddLast(rest, n - 1, e) = [i \in 1..n |-> IF i = n THEN e ELSE rest[i]]
  BY <1>8 DEF AddLast
<1>16. \A i \in 1..n : Item(R.nodes[o[i]]) = IF i = n THEN e ELSE rest[i]
  <2> TAKE i \in 1..n
  <2>1. i = n \/ i \in 1..(n - 1)
    BY <1>5
  <2> QED
    BY <2>1, <1>10, <1>11, <1>12, <1>13
<1>17. Entries(R) = Append(rest, e)
  BY <1>6, <1>14, <1>15, <1>16
<1> QED
  BY <1>2, <1>17 DEF Place, rest, list, e, n

(* insert_new appends an entry for a key that had none. *)
LEMMA InsertEntries ==
  ASSUME NEW S, Structured(S), NEW key \in Key, S.map[key] = None,
         NEW value \in Value, NEW size \in Nat,
         NEW R, R = insert_new(S, key, value, size)
  PROVE  Entries(R) = Append(Entries(S), [key |-> key, value |-> value,
                                          expires_at |-> None])
<1> DEFINE idx == NextSlot(S)
           n == LiveCount(S)
           list == Entries(S)
           e == [key |-> key, value |-> value, expires_at |-> None]
<1>1. InsertedAt(S, R, idx, key, value, size) /\ OrderAdds(S, R, idx)
  BY InsertNew
<1>2. PICK order : Lists(S, order)
  BY DEF Structured, LruChain, Lists
<1> DEFINE o == AddLast(order, n, idx)
<1>3. Lists(R, o) /\ LiveCount(R) = n + 1 /\ Structured(R)
  BY <1>1, <1>2 DEF OrderAdds, InsertedAt
<1>4. /\ \A i \in Live(S) : Item(R.nodes[i]) = Item(S.nodes[i])
      /\ Item(R.nodes[idx]) = e
  BY <1>1 DEF InsertedAt, Item
<1>5. /\ list = [i \in 1..n |-> Item(S.nodes[order[i]])]
      /\ n \in Nat
      /\ \A i \in 1..n : order[i] \in Live(S)
  BY <1>2, EntriesListed
<1>6. Entries(R) = [i \in 1..(n + 1) |-> Item(R.nodes[o[i]])]
  BY <1>3, EntriesListed
<1>7. list \in [1..n -> Items] /\ e \in Items
  <2>1. list \in Seq(Items) /\ Len(list) = n /\ e \in Items
    BY EntriesType DEF Items, None
  <2> QED
    BY <2>1, LenProperties
<1> HIDE DEF n, list, e, idx
<1>8. \A i \in 1..(n + 1) : o[i] = IF i = n + 1 THEN idx ELSE order[i]
  BY DEF AddLast
<1> HIDE DEF o
<1>9. \A i \in 1..(n + 1) : Item(R.nodes[o[i]]) = IF i = n + 1 THEN e ELSE list[i]
  <2> TAKE i \in 1..(n + 1)
  <2>1. i = n + 1 \/ (i \in 1..n /\ i # n + 1)
    BY <1>5
  <2> QED
    BY <2>1, <1>4, <1>5, <1>8
<1>10. Append(list, e) = AddLast(list, n, e)
  BY <1>5, <1>7, AppendIs
<1>11. Entries(R) = Append(list, e)
  BY <1>6, <1>9, <1>10 DEF AddLast
<1> QED
  BY <1>11 DEF list, e

(* New content for a live slot changes the entry of its key in place. *)
LEMMA ContentEntries ==
  ASSUME NEW S, Structured(S), NEW idx \in Live(S), NEW node \in Node,
         node.key = S.nodes[idx].key,
         node.prev = S.nodes[idx].prev,
         node.next = S.nodes[idx].next,
         NEW R, R = SetNode(S, idx, node)
  PROVE  /\ Entries(R) = [i \in DOMAIN Entries(S) |->
                            IF Entries(S)[i].key = node.key
                            THEN Item(node) ELSE Entries(S)[i]]
         /\ Store!Without(Entries(R), node.key)
              = Store!Without(Entries(S), node.key)
<1>1. /\ Structured(R) /\ Live(R) = Live(S) /\ R.nodes[idx] = node
      /\ \A i \in Live(S) \ {idx} : R.nodes[i] = S.nodes[i]
      /\ OrderKept(S, R)
  BY SetContent
<1>2. PICK order, p : Place(S, idx, order, p)
  BY HasPlace
<1> DEFINE n == LiveCount(S)
           list == Entries(S)
           new == Entries(R)
<1>3. /\ Lists(S, order) /\ Lists(R, order) /\ LiveCount(R) = n
      /\ p \in 1..n /\ order[p] = idx
      /\ \A i \in 1..n : list[i].key = node.key => i = p
      /\ Store!Without(list, node.key) = DropAt(list, n, p)
      /\ list[p] = Item(S.nodes[idx])
  BY <1>1, <1>2 DEF OrderKept, Place
<1>4. /\ list = [i \in 1..n |-> Item(S.nodes[order[i]])]
      /\ n \in Nat
      /\ \A i \in 1..n : order[i] \in Live(S)
  BY <1>3, EntriesListed
<1>5. new = [i \in 1..n |-> Item(R.nodes[order[i]])]
  BY <1>1, <1>3, EntriesListed
<1>6. \A i, j \in 1..n : order[i] = order[j] => i = j
  BY <1>3 DEF Lists, LruOrder, Linked
<1>7. PICK q, r : Place(R, idx, q, r)
  BY <1>1, HasPlace
<1>8. Lists(R, q) /\ r \in 1..n /\ q[r] = idx
      /\ Store!Without(new, node.key) = DropAt(new, n, r)
  BY <1>1, <1>3, <1>7 DEF Place
<1>9. q = order
  BY <1>1, <1>3, <1>8, OneOrder
<1>10. r = p
  BY <1>3, <1>6, <1>8, <1>9
<1> HIDE DEF n, list, new
<1>11. list[p].key = node.key
  BY <1>3 DEF Item
<1>12. \A i \in 1..n : new[i] = IF i = p THEN Item(node) ELSE list[i]
  <2> TAKE i \in 1..n
  <2>1. CASE i = p
    BY <2>1, <1>1, <1>3, <1>5
  <2>2. CASE i # p
    <3>1. order[i] \in Live(S) \ {idx}
      BY <2>2, <1>3, <1>4, <1>6
    <3> QED
      BY <2>2, <3>1, <1>1, <1>4, <1>5
  <2> QED
    BY <2>1, <2>2
<1>13. \A i \in 1..n : (i = p) = (list[i].key = node.key)
  BY <1>3, <1>11
<1>14. new = [i \in DOMAIN list |->
                IF list[i].key = node.key THEN Item(node) ELSE list[i]]
  <2>1. DOMAIN list = 1..n
    BY <1>4
  <2>2. \A i \in 1..n : new[i] = IF list[i].key = node.key
                                THEN Item(node) ELSE list[i]
    BY <1>12, <1>13
  <2>3. new = [i \in 1..n |-> new[i]]
    BY <1>5
  <2> QED
    BY <2>1, <2>2, <2>3
<1>15. DropAt(new, n, p) = DropAt(list, n, p)
  <2>1. \A i \in 1..(n - 1) :
          (IF i < p THEN new[i] ELSE new[i + 1])
            = (IF i < p THEN list[i] ELSE list[i + 1])
    BY <1>3, <1>4, <1>12
  <2> QED
    BY <2>1 DEF DropAt
<1> QED
  BY <1>3, <1>8, <1>10, <1>14, <1>15 DEF list, new

(* A key's entry is the one the map leads to. *)
LEMMA FindEntries ==
  ASSUME NEW S, Structured(S), NEW key \in Key
  PROVE  /\ S.map[key] = None =>
              /\ Store!Find(Entries(S), key) = {}
              /\ Store!Without(Entries(S), key) = Entries(S)
         /\ S.map[key] # None =>
              /\ S.map[key] \in Live(S)
              /\ S.nodes[S.map[key]].key = key
              /\ S.nodes[S.map[key]] \in Node
              /\ Store!Find(Entries(S), key) = {Item(S.nodes[S.map[key]])}
<1> DEFINE n == LiveCount(S)
           list == Entries(S)
<1>1. /\ list \in Seq(Items) /\ Len(list) = n /\ DOMAIN list = 1..n
  BY EntriesType
<1>2. MapExact(S)
  BY DEF Structured
<1>3. CASE S.map[key] = None
  <2>1. PICK order : Lists(S, order)
    BY DEF Structured, LruChain, Lists
  <2>2. /\ list = [i \in 1..n |-> Item(S.nodes[order[i]])]
        /\ \A i \in 1..n : order[i] \in Live(S)
    BY <2>1, EntriesListed
  <2>3. ASSUME NEW i \in 1..n PROVE list[i].key # key
    <3>1. order[i] \in Live(S) /\ order[i] # None
      BY <2>2, ShardParts DEF Structured, None
    <3>2. S.map[S.nodes[order[i]].key] = order[i]
      BY <3>1, <1>2 DEF MapExact
    <3>3. list[i].key = S.nodes[order[i]].key
      BY <2>2 DEF Item
    <3> QED
      BY <3>1, <3>2, <3>3, <1>3
  <2> HIDE DEF list
  <2>4. Store!Without(list, key) = list /\ Store!Find(list, key) = {}
    BY <1>1, <2>3, WithoutNone
  <2> QED
    BY <1>3, <2>4 DEF list
<1>4. CASE S.map[key] # None
  <2> DEFINE idx == S.map[key]
  <2>1. idx \in Live(S) /\ S.nodes[idx].key = key
    BY <1>2, <1>4 DEF MapExact
  <2>2. S.nodes[idx] \in Node
    BY <2>1, ShardParts DEF Structured
  <2> HIDE DEF idx
  <2>3. PICK order, p : Place(S, idx, order, p)
    BY <2>1, HasPlace
  <2>4. /\ p \in 1..n /\ list[p] = Item(S.nodes[idx])
        /\ \A i \in 1..n : list[i].key = key => i = p
    BY <2>1, <2>3 DEF Place
  <2>5. Item(S.nodes[idx]).key = key
    BY <2>1 DEF Item
  <2> HIDE DEF list
  <2>6. Store!Find(list, key) = {Item(S.nodes[idx])}
    BY <1>1, <2>4, <2>5 DEF Store!Find
  <2> QED
    BY <1>4, <2>1, <2>2, <2>6 DEF list, idx
<1> QED
  BY <1>3, <1>4

-----------------------------------------------------------------------------
(* The refinement mapping: how a step of the engine changes what KVStore   *)
(* sees.                                                                   *)

(* The entries and phases of KVStore. *)
lists == [s \in Shards |-> Entries(shards[s])]
phases == [t \in Thread |-> Phase(t)]

(* A step that replaces one shard. *)
LEMMA ListStep ==
  ASSUME IInv, NEW s \in Shards, NEW R, SetShard(s, R)
  PROVE  lists' = [lists EXCEPT ![s] = Entries(R)] /\ lists[s] = Entries(shards[s])
<1>1. shards \in [Shards -> Shard]
  BY DEF IInv, TypeOK
<1>2. /\ shards'[s] = R
      /\ \A r \in Shards \ {s} : shards'[r] = shards[r]
  BY <1>1 DEF SetShard
<1>3. lists' = [r \in Shards |-> Entries(shards'[r])]
  BY DEF lists
<1> QED
  BY <1>2, <1>3 DEF lists

(* A step that replaces no shard. *)
LEMMA NoListStep ==
  ASSUME UNCHANGED shards
  PROVE  lists' = lists
BY DEF lists

(* A step that replaces a shard by one with the same entries. *)
LEMMA SameListStep ==
  ASSUME IInv, NEW s \in Shards, NEW R, SetShard(s, R),
         Entries(R) = Entries(shards[s])
  PROVE  lists' = lists
<1>1. lists' = [lists EXCEPT ![s] = Entries(R)] /\ lists[s] = Entries(shards[s])
  BY ListStep
<1> QED
  BY <1>1 DEF lists

(* The phase of KVStore at a place of the engine. *)
PhaseOf(p) ==
  CASE p = "idle" -> "idle"
    [] p \in {"call", "write"} -> "call"
    [] OTHER -> "evict"

(* The phase of the thread that moves is the one of its new place. *)
LEMMA PhaseStep ==
  ASSUME IInv, NEW t \in Thread, NEW p, pc' = [pc EXCEPT ![t] = p]
  PROVE  phases' = [phases EXCEPT ![t] = PhaseOf(p)]
<1>1. pc \in [Thread -> Pc]
  BY DEF IInv, TypeOK
<1>2. \A u \in Thread : Phase(u)' = PhaseOf(pc'[u]) /\ Phase(u) = PhaseOf(pc[u])
  BY DEF Phase, PhaseOf
<1>3. phases' = [u \in Thread |-> PhaseOf(pc'[u])]
  BY <1>2 DEF phases
<1>4. phases = [u \in Thread |-> PhaseOf(pc[u])]
  BY <1>2 DEF phases
<1>5. \A u \in Thread : pc'[u] = IF u = t THEN p ELSE pc[u]
  BY <1>1
<1> HIDE DEF PhaseOf
<1> QED
  BY <1>3, <1>4, <1>5

(* The phase at each place of a call. *)
LEMMA PhaseIs ==
  ASSUME NEW t \in Thread
  PROVE  /\ pc[t] = "idle" => phases[t] = "idle"
         /\ pc[t] \in {"call", "write"} => phases[t] = "call"
         /\ pc[t] \in {"evict_load", "evict_start", "evict_scan", "evict_sub"}
              => phases[t] = "evict"
BY DEF phases, Phase

(* A step that leaves every thread where it is. *)
LEMMA NoPhaseStep ==
  ASSUME UNCHANGED pc
  PROVE  phases' = phases
BY DEF phases, Phase

(* A step that goes on in the same phase. *)
LEMMA SamePhaseStep ==
  ASSUME IInv, NEW t \in Thread, NEW p, pc' = [pc EXCEPT ![t] = p],
         PhaseOf(p) = PhaseOf(pc[t])
  PROVE  phases' = phases
<1>1. phases' = [phases EXCEPT ![t] = PhaseOf(p)]
  BY PhaseStep
<1>2. phases[t] = PhaseOf(pc[t])
  BY DEF phases, Phase, PhaseOf
<1> QED
  BY <1>1, <1>2 DEF phases

(* A return of the engine is one of KVStore. *)
LEMMA ReturnSim ==
  ASSUME IInv, NEW t \in Thread, NEW result, Return(t, result)
  PROVE  Store!Return(t, result)
<1>1. phases' = [phases EXCEPT ![t] = PhaseOf("idle")]
  BY PhaseStep DEF Return
<1>2. PhaseOf("idle") = "idle"
  BY DEF PhaseOf
<1> QED
  BY <1>1, <1>2 DEF Return, Store!Return, phases, None, Store!None, NoRequest,
     Store!NoRequest

(* A call that is being served is one for KVStore. *)
LEMMA ServingSim ==
  ASSUME NEW t \in Thread, NEW op, pc[t] \in {"call", "write"}, req[t].op = op,
         UNCHANGED clock
  PROVE  Store!Serving(t, op)
<1>1. phases[t] = "call"
  BY PhaseIs
<1> QED
  BY <1>1 DEF Store!Serving, phases

(* The caller's entry, for the engine and for KVStore. *)
LEMMA MineIs ==
  ASSUME IInv, NEW t \in Thread, pc[t] # "idle"
  PROVE  /\ Store!MyShard(t) = shard_for(t)
         /\ Absent(t) \/ Expired(t) => Store!Mine(t) = {}
         /\ Present(t) => Store!Mine(t) = {Item(Inner(t).nodes[Slot(t)])}
         /\ Absent(t) =>
              Store!Without(Entries(Inner(t)), req[t].key) = Entries(Inner(t))
         /\ ~Absent(t) =>
              /\ Slot(t) \in Live(Inner(t))
              /\ Inner(t).nodes[Slot(t)] \in Node
              /\ Inner(t).nodes[Slot(t)].key = req[t].key
<1>1. Store!MyShard(t) = shard_for(t)
  BY DEF Store!MyShard, shard_for
<1>2. /\ req[t].key \in Key /\ shard_for(t) \in Shards
      /\ now[t] \in Nat /\ Structured(Inner(t))
  BY CallerParts
<1>3. lists[shard_for(t)] = Entries(Inner(t))
  BY <1>2 DEF lists, Inner
<1> DEFINE F == Store!Find(Entries(Inner(t)), req[t].key)
           node == Inner(t).nodes[Slot(t)]
<1>4. Store!Mine(t) = {e \in F : ~Store!Expired(e, now[t])}
  BY <1>1, <1>3 DEF Store!Mine, lists
<1>5. /\ Absent(t) => F = {} /\ Store!Without(Entries(Inner(t)), req[t].key)
                                  = Entries(Inner(t))
      /\ ~Absent(t) => /\ F = {Item(node)}
                       /\ Slot(t) \in Live(Inner(t))
                       /\ node \in Node
                       /\ node.key = req[t].key
  BY <1>2, FindEntries DEF Absent, Slot
<1>6. ~Absent(t) => (Store!Expired(Item(node), now[t]) <=> Expired(t))
  BY DEF Store!Expired, Expired, is_expired, Item, None, Store!None
<1> HIDE DEF F, node
<1>7. Absent(t) \/ Expired(t) => Store!Mine(t) = {}
  BY <1>4, <1>5, <1>6 DEF Expired
<1>8. Present(t) => Store!Mine(t) = {Item(node)}
  BY <1>4, <1>5, <1>6 DEF Present
<1> QED
  BY <1>1, <1>5, <1>7, <1>8 DEF node

(* The caller's entry goes, if there is one. *)
LEMMA ForgetSim ==
  ASSUME IInv, NEW t \in Thread, pc[t] # "idle",
         \/ Absent(t) /\ UNCHANGED shards
         \/ ~Absent(t) /\ RemoveEntry(t)
  PROVE  Store!Forget(t)
<1> DEFINE s == shard_for(t)
           list == Entries(Inner(t))
           new == Store!Without(list, req[t].key)
<1>1. s \in Shards /\ Structured(Inner(t)) /\ Inner(t) = shards[s]
  BY CallerParts DEF Inner
<1>2. Store!MyShard(t) = s /\ lists[s] = list
  BY <1>1, MineIs DEF lists
<1>3. lists' = [lists EXCEPT ![s] = new]
  <2>1. CASE Absent(t) /\ UNCHANGED shards
    <3>1. new = list /\ lists' = lists
      BY <2>1, MineIs, NoListStep
    <3> QED
      BY <3>1, <1>1, <1>2 DEF lists
  <2>2. CASE ~Absent(t) /\ RemoveEntry(t)
    <3> DEFINE R == remove_idx(Inner(t), Slot(t))
    <3>1. SetShard(s, R)
      BY <2>2 DEF RemoveEntry
    <3>2. lists' = [lists EXCEPT ![s] = Entries(R)]
      BY <3>1, <1>1, ListStep
    <3>3. Entries(R) = new
      BY <2>2, <1>1, MineIs, RemoveEntries
    <3> QED
      BY <3>2, <3>3
  <2> QED
    BY <2>1, <2>2
<1> QED
  BY <1>2, <1>3 DEF Store!Forget, lists

-----------------------------------------------------------------------------
(* Each step of the engine is a step of KVStore, or changes nothing that   *)
(* KVStore sees.                                                           *)

(* An invocation. *)
LEMMA CallSim ==
  ASSUME IInv, NEW t \in Thread, Call(t)
  PROVE  Store!Invoke(t)
<1>1. phases' = [phases EXCEPT ![t] = PhaseOf("call")] /\ PhaseOf("call") = "call"
  BY PhaseStep DEF Call, PhaseOf
<1>2. lists' = lists
  BY NoListStep DEF Call, store
<1>3. phases[t] = "idle"
  BY PhaseIs DEF Call
<1> QED
  BY <1>1, <1>2, <1>3
  DEF Store!Invoke, Call, lists, phases, NoResult, Store!NoResult

(* get. *)
LEMMA getSim ==
  ASSUME IInv, NEW t \in Thread, get(t)
  PROVE  Store!Get(t)
<1>1. pc[t] = "call" /\ pc[t] # "idle" /\ Store!Serving(t, "get")
  BY ServingSim DEF get, Enter
<1>2. CASE Absent(t) \/ Expired(t)
  <2>1. Return(t, [is |-> "nil"])
    BY <1>2 DEF get, Present, Expired
  <2>2. \/ Absent(t) /\ UNCHANGED shards
        \/ ~Absent(t) /\ RemoveEntry(t)
    BY <1>2 DEF get, Present, Expired
  <2>3. Store!Mine(t) = {} /\ Store!Forget(t) /\ Store!Return(t, [is |-> "nil"])
    BY <1>1, <1>2, <2>1, <2>2, MineIs, ForgetSim, ReturnSim
  <2> QED
    BY <1>1, <2>3 DEF Store!Get
<1>3. CASE Present(t)
  <2> DEFINE s == shard_for(t)
             node == Inner(t).nodes[Slot(t)]
             R == touch(Inner(t), Slot(t))
             result == [is |-> "value", value |-> node.value]
             new == Append(Store!Without(Entries(Inner(t)), req[t].key), Item(node))
  <2>1. SetShard(s, R) /\ Return(t, result) /\ ~Absent(t)
    BY <1>3 DEF get, Present, Expired
  <2>2. s \in Shards /\ Structured(Inner(t)) /\ Inner(t) = shards[s]
    BY <1>1, CallerParts DEF Inner
  <2>3. /\ Store!Mine(t) = {Item(node)} /\ Store!MyShard(t) = s
        /\ Slot(t) \in Live(Inner(t)) /\ node.key = req[t].key
    BY <1>1, <1>3, <2>1, MineIs
  <2>4. lists' = [lists EXCEPT ![s] = Entries(R)] /\ lists[s] = Entries(Inner(t))
    BY <2>1, <2>2, ListStep
  <2>5. Entries(R) = new
    BY <2>2, <2>3, TouchEntries
  <2>6. Store!PutLast(t, Item(node))
    BY <2>3, <2>4, <2>5 DEF Store!PutLast, lists
  <2>7. Store!Return(t, result) /\ Item(node).value = node.value
    BY <2>1, ReturnSim DEF Item
  <2> QED
    BY <1>1, <2>3, <2>6, <2>7 DEF Store!Get
<1> QED
  BY <1>2, <1>3 DEF Present

(* delete. *)
LEMMA deleteSim ==
  ASSUME IInv, NEW t \in Thread, delete(t)
  PROVE  Store!Delete(t)
<1>1. pc[t] = "call" /\ pc[t] # "idle" /\ Store!Serving(t, "delete")
  BY ServingSim DEF delete, Enter
<1>2. \/ Absent(t) /\ UNCHANGED shards
      \/ ~Absent(t) /\ RemoveEntry(t)
  BY DEF delete
<1>3. Store!Forget(t)
  BY <1>1, <1>2, ForgetSim
<1>4. CASE Absent(t) \/ Expired(t)
  <2>1. Return(t, [is |-> "deleted", live |-> FALSE])
    BY <1>4 DEF delete, Expired
  <2>2. Store!Mine(t) = {} /\ Store!Return(t, [is |-> "deleted", live |-> FALSE])
    BY <1>1, <1>4, <2>1, MineIs, ReturnSim
  <2>3. (Store!Mine(t) # {}) = FALSE
    BY <2>2
  <2> QED
    BY <1>1, <1>3, <2>2, <2>3 DEF Store!Delete
<1>5. CASE Present(t)
  <2>1. Return(t, [is |-> "deleted", live |-> TRUE])
    BY <1>5 DEF delete, Present
  <2>2. /\ Store!Mine(t) = {Item(Inner(t).nodes[Slot(t)])}
        /\ Store!Return(t, [is |-> "deleted", live |-> TRUE])
    BY <1>1, <1>5, <2>1, MineIs, ReturnSim
  <2>3. (Store!Mine(t) # {}) = TRUE
    BY <2>2
  <2> QED
    BY <1>1, <1>3, <2>2, <2>3 DEF Store!Delete
<1> QED
  BY <1>4, <1>5 DEF Present

(* ttl. *)
LEMMA ttlSim ==
  ASSUME IInv, NEW t \in Thread, ttl(t)
  PROVE  Store!Ttl(t)
<1>1. pc[t] = "call" /\ pc[t] # "idle" /\ Store!Serving(t, "ttl")
  BY ServingSim DEF ttl, Enter
<1>2. CASE Absent(t) \/ Expired(t)
  <2>1. Return(t, [is |-> "missing"])
    BY <1>2 DEF ttl, Present, Expired
  <2>2. \/ Absent(t) /\ UNCHANGED shards
        \/ ~Absent(t) /\ RemoveEntry(t)
    BY <1>2 DEF ttl, Present, Expired
  <2>3. Store!Mine(t) = {} /\ Store!Forget(t) /\ Store!Return(t, [is |-> "missing"])
    BY <1>1, <1>2, <2>1, <2>2, MineIs, ForgetSim, ReturnSim
  <2> QED
    BY <1>1, <2>3 DEF Store!Ttl
<1>3. CASE Present(t)
  <2> DEFINE node == Inner(t).nodes[Slot(t)]
             result == IF node.expires_at = None
                       THEN [is |-> "no_expiry"]
                       ELSE [is |-> "expires_in",
                             remaining |-> node.expires_at - now[t]]
  <2>1. UNCHANGED shards /\ Return(t, result)
    BY <1>3 DEF ttl, Present, Expired
  <2>2. Store!Mine(t) = {Item(node)}
    BY <1>1, <1>3, MineIs
  <2>3. Item(node).expires_at = node.expires_at
    BY DEF Item
  <2>4. Store!Return(t, result) /\ lists' = lists
    BY <2>1, ReturnSim, NoListStep
  <2>5. \E e \in Store!Mine(t) :
          /\ lists' = lists
          /\ Store!Return(t, IF e.expires_at = None
                             THEN [is |-> "no_expiry"]
                             ELSE [is |-> "expires_in",
                                   remaining |-> e.expires_at - now[t]])
    BY <2>2, <2>3, <2>4
  <2> QED
    BY <1>1, <2>5 DEF Store!Ttl, lists, None, Store!None
<1> QED
  BY <1>2, <1>3 DEF Present

(* A heap gains only entries that have a deadline. *)
NewDeadlines(S, R) ==
  \A h \in R.ttl_heap : h \in S.ttl_heap \/ h.expires_at # None

(* Scheduling a deadline does not concern the list. *)
LEMMA ScheduleEntries ==
  ASSUME NEW T, Structured(T), NEW idx \in Nat, NEW deadline \in Nat,
         NEW n \in Nat, NEW R, R = ScheduleSome(T, idx, deadline, n)
  PROVE  Entries(R) = Entries(T) /\ NewDeadlines(T, R)
<1>1. CASE deadline = None
  BY <1>1 DEF ScheduleSome, NewDeadlines
<1>2. CASE deadline # None
  <2> DEFINE x == [expires_at |-> deadline, idx |-> idx, token |-> n]
  <2>1. Scheduled(T, R, x) /\ OrderKept(T, R)
    BY <1>2, Schedule DEF ScheduleSome
  <2>2. /\ Structured(R) /\ R.ttl_heap = T.ttl_heap \cup {x}
        /\ \A i \in Live(T) : Item(R.nodes[i]) = Item(T.nodes[i])
    BY <2>1 DEF Scheduled
  <2>3. Entries(R) = Entries(T)
    BY <2>1, <2>2, KeptEntries
  <2> QED
    BY <1>2, <2>2, <2>3 DEF NewDeadlines
<1> QED
  BY <1>1, <1>2

(* A new deadline for a live entry. *)
LEMMA DeadlineEntries ==
  ASSUME NEW S, Structured(S), NEW idx \in Live(S), NEW deadline \in Nat,
         NEW n \in Nat,
         NEW R, R = ScheduleSome(SetDeadline(S, idx, deadline, n), idx, deadline, n)
  PROVE  /\ Entries(R) = [i \in DOMAIN Entries(S) |->
                            IF Entries(S)[i].key = S.nodes[idx].key
                            THEN [Entries(S)[i] EXCEPT !.expires_at = deadline]
                            ELSE Entries(S)[i]]
         /\ NewDeadlines(S, R)
<1> DEFINE node == [S.nodes[idx] EXCEPT !.expires_at = deadline, !.ttl_token = n]
           W == SetNode(S, idx, node)
           list == Entries(S)
<1>1. W = SetDeadline(S, idx, deadline, n)
  BY DEF SetDeadline
<1>2. S.nodes[idx] \in Node /\ idx \in Nat
  BY ShardParts DEF Structured
<1>3. /\ node \in Node
      /\ node.key = S.nodes[idx].key
      /\ node.prev = S.nodes[idx].prev /\ node.next = S.nodes[idx].next
  BY <1>2 DEF Node
<1>4. Item(node) = [Item(S.nodes[idx]) EXCEPT !.expires_at = deadline]
  BY <1>2 DEF Item, Node
<1> HIDE DEF node
<1>5. Structured(W) /\ W.ttl_heap = S.ttl_heap
  BY <1>3, SetContent
<1>6. Entries(W) = [i \in DOMAIN list |->
                      IF list[i].key = node.key THEN Item(node) ELSE list[i]]
  BY <1>3, ContentEntries
<1>7. R = ScheduleSome(W, idx, deadline, n)
  BY <1>1
<1> HIDE DEF W
<1>8. Entries(R) = Entries(W) /\ NewDeadlines(W, R)
  BY <1>2, <1>5, <1>7, ScheduleEntries
<1>9. PICK order, p : Place(S, idx, order, p)
  BY HasPlace
<1>10. \A i \in DOMAIN list : list[i].key = node.key => list[i] = Item(S.nodes[idx])
  BY <1>3, <1>9, EntriesType DEF Place
<1> HIDE DEF list
<1>11. \A i \in DOMAIN list :
         (IF list[i].key = node.key THEN Item(node) ELSE list[i])
           = (IF list[i].key = node.key
              THEN [list[i] EXCEPT !.expires_at = deadline] ELSE list[i])
  BY <1>4, <1>10
<1>12. Entries(R) = [i \in DOMAIN list |->
                       IF list[i].key = node.key
                       THEN [list[i] EXCEPT !.expires_at = deadline]
                       ELSE list[i]]
  BY <1>6, <1>8, <1>11
<1> QED
  BY <1>3, <1>5, <1>8, <1>12 DEF list, NewDeadlines

(* Shard S with the node in slot idx overwritten, used and scheduled. *)
Overwritten(S, idx, node, n) ==
  ScheduleSome(touch(SetNode(S, idx, node), idx), idx, node.expires_at, n)

(* Overwriting a live entry: value and deadline change in one step. *)
LEMMA ReplaceEntries ==
  ASSUME NEW S, Structured(S), NEW idx \in Live(S), NEW node \in Node,
         node.key = S.nodes[idx].key,
         node.prev = S.nodes[idx].prev,
         node.next = S.nodes[idx].next,
         NEW n \in Nat
  PROVE  /\ Entries(Overwritten(S, idx, node, n))
              = Append(Store!Without(Entries(S), node.key), Item(node))
         /\ NewDeadlines(S, Overwritten(S, idx, node, n))
<1> DEFINE R == Overwritten(S, idx, node, n)
           W == SetNode(S, idx, node)
           T == touch(W, idx)
<1>1. idx \in Nat /\ node.expires_at \in Nat
  BY ShardParts DEF Structured, Node
<1>2. /\ Structured(W) /\ W.ttl_heap = S.ttl_heap /\ idx \in Live(W)
      /\ W.nodes[idx] = node
  BY SetContent
<1>3. Store!Without(Entries(W), node.key) = Store!Without(Entries(S), node.key)
  BY ContentEntries
<1> HIDE DEF W
<1>4. Entries(T) = Append(Store!Without(Entries(W), W.nodes[idx].key),
                          Item(W.nodes[idx]))
  BY <1>2, TouchEntries
<1>5. Structured(T) /\ T.ttl_heap = S.ttl_heap
  BY <1>2, Touch DEF SameContent
<1>6. R = ScheduleSome(T, idx, node.expires_at, n)
  BY DEF W, Overwritten
<1> HIDE DEF T, R
<1>7. Entries(R) = Entries(T) /\ NewDeadlines(T, R)
  BY <1>1, <1>5, <1>6, ScheduleEntries
<1> QED
  BY <1>2, <1>3, <1>4, <1>5, <1>7 DEF NewDeadlines, R

(* A new entry: value and deadline appear in one step. *)
LEMMA NewEntries ==
  ASSUME NEW S, Structured(S), NEW key \in Key, S.map[key] = None,
         NEW value \in Value, NEW size \in Nat, NEW deadline \in Nat,
         NEW n \in Nat,
         NEW P, P = insert_new(S, key, value, size),
         NEW R, R = IF deadline = None THEN P
                    ELSE schedule_expiration(
                           SetDeadline(P, NextSlot(S), deadline, n),
                           NextSlot(S), deadline, n)
  PROVE  /\ Entries(R) = Append(Entries(S), [key |-> key, value |-> value,
                                             expires_at |-> deadline])
         /\ NewDeadlines(S, R)
<1> DEFINE idx == NextSlot(S)
           first == [key |-> key, value |-> value, expires_at |-> None]
           list == Entries(S)
           m == LiveCount(S)
<1>1. InsertedAt(S, P, idx, key, value, size)
  BY InsertNew
<1>2. /\ Structured(P) /\ idx \in Live(P) /\ P.nodes[idx].key = key
      /\ P.ttl_heap = S.ttl_heap
  BY <1>1 DEF InsertedAt
<1>3. Entries(P) = Append(list, first)
  BY InsertEntries
<1>4. CASE deadline = None
  BY <1>2, <1>3, <1>4 DEF NewDeadlines
<1>5. CASE deadline # None
  <2>1. R = ScheduleSome(SetDeadline(P, idx, deadline, n), idx, deadline, n)
    BY <1>5 DEF ScheduleSome
  <2> DEFINE new == Entries(P)
             e == [key |-> key, value |-> value, expires_at |-> deadline]
  <2> HIDE DEF idx
  <2>2. /\ Entries(R) = [i \in DOMAIN new |->
                          IF new[i].key = key
                          THEN [new[i] EXCEPT !.expires_at = deadline]
                          ELSE new[i]]
        /\ NewDeadlines(P, R)
    BY <1>2, <2>1, DeadlineEntries
  <2>3. /\ first \in Items /\ e \in Items /\ first.key = key
        /\ [first EXCEPT !.expires_at = deadline] = e
    BY DEF Items, None
  <2>4. /\ list \in Seq(Items) /\ Len(list) = m /\ DOMAIN list = 1..m /\ m \in Nat
        /\ list \in [1..m -> Items]
    BY EntriesType, LenProperties
  <2>5. \A i \in 1..m : list[i].key # key
    <3>1. Store!Find(list, key) = {}
      BY FindEntries
    <3> QED
      BY <3>1, <2>4 DEF Store!Find
  <2> HIDE DEF first, list, e, m
  <2>6. new = AddLast(list, m, first) /\ Append(list, e) = AddLast(list, m, e)
    BY <1>3, <2>3, <2>4, AppendIs
  <2>7. DOMAIN new = 1..(m + 1)
        /\ \A i \in 1..(m + 1) : new[i] = IF i = m + 1 THEN first ELSE list[i]
    BY <2>6 DEF AddLast
  <2> HIDE DEF new
  <2>8. \A i \in 1..(m + 1) :
          (IF new[i].key = key THEN [new[i] EXCEPT !.expires_at = deadline]
                               ELSE new[i])
            = IF i = m + 1 THEN e ELSE list[i]
    <3> TAKE i \in 1..(m + 1)
    <3>1. i = m + 1 \/ (i \in 1..m /\ i # m + 1)
      BY <2>4
    <3> QED
      BY <3>1, <2>3, <2>5, <2>7
  <2>9. Entries(R) = AddLast(list, m, e)
    BY <2>2, <2>7, <2>8 DEF AddLast
  <2> QED
    BY <1>2, <2>2, <2>6, <2>9 DEF NewDeadlines, list, e
<1> QED
  BY <1>4, <1>5

-----------------------------------------------------------------------------
(* The steps that change a list in place, append to it or shorten it.      *)

(* No instant a thread or the sweeper holds is after the clock, and every  *)
(* heap entry has a deadline: what is dropped as expired had a deadline,   *)
(* and that is in the past.                                                *)
Instants ==
  /\ \A t \in Thread : now[t] <= clock
  /\ sweep.now <= clock
Deadlines == \A s \in Shards : \A h \in shards[s].ttl_heap : h.expires_at # None

(* The heaps after a step that replaces one shard, or none. *)
LEMMA DeadlinesStep ==
  ASSUME IInv, Deadlines, NEW s \in Shards, NEW R, SetShard(s, R),
         NewDeadlines(shards[s], R)
  PROVE  Deadlines'
<1>1. shards \in [Shards -> Shard]
  BY DEF IInv, TypeOK
<1>2. /\ shards'[s] = R
      /\ \A r \in Shards \ {s} : shards'[r] = shards[r]
  BY <1>1 DEF SetShard
<1> QED
  BY <1>2 DEF Deadlines, NewDeadlines

(* A removal leaves the heap alone. *)
LEMMA RemoveEntryDeadlines ==
  ASSUME IInv, Deadlines, NEW t \in Thread, pc[t] # "idle", ~Absent(t),
         RemoveEntry(t)
  PROVE  Deadlines'
<1> DEFINE R == remove_idx(Inner(t), Slot(t))
<1>1. /\ shard_for(t) \in Shards /\ Structured(Inner(t))
      /\ Slot(t) \in Live(Inner(t)) /\ Inner(t) = shards[shard_for(t)]
  BY CallerParts DEF Inner
<1>2. RemovedAt(Inner(t), R, Slot(t))
  BY <1>1, RemoveIdx
<1>3. SetShard(shard_for(t), R)
  BY DEF RemoveEntry
<1>4. NewDeadlines(Inner(t), R)
  BY <1>2 DEF RemovedAt, NewDeadlines
<1> HIDE DEF R
<1> QED
  BY <1>1, <1>3, <1>4, DeadlinesStep

(* expire. *)
LEMMA expireSim ==
  ASSUME IInv, Deadlines, NEW t \in Thread, expire(t)
  PROVE  Store!Expire(t) /\ Deadlines'
<1>1. /\ pc[t] = "call" /\ pc[t] # "idle" /\ req[t].op = "expire"
      /\ Store!Serving(t, "expire")
  BY ServingSim DEF expire, Enter
<1>2. CASE Absent(t) \/ Expired(t)
  <2>1. Return(t, [is |-> "not_found"])
    BY <1>2 DEF expire, Present, Expired
  <2>2. \/ Absent(t) /\ UNCHANGED shards
        \/ ~Absent(t) /\ RemoveEntry(t)
    BY <1>2 DEF expire, Present, Expired, store
  <2>3. /\ Store!Mine(t) = {} /\ Store!Forget(t)
        /\ Store!Return(t, [is |-> "not_found"])
    BY <1>1, <1>2, <2>1, <2>2, MineIs, ForgetSim, ReturnSim
  <2>4. Deadlines'
    BY <1>1, <2>2, RemoveEntryDeadlines DEF Deadlines
  <2> QED
    BY <1>1, <2>3, <2>4 DEF Store!Expire
<1>3. CASE Present(t)
  <2> DEFINE s == shard_for(t)
             S == Inner(t)
             idx == Slot(t)
             deadline == now[t] + req[t].ttl
             n == next_ttl_token
             R == schedule_expiration(SetDeadline(S, idx, deadline, n),
                                      idx, deadline, n)
             list == Entries(S)
             new == [i \in DOMAIN list |->
                       IF list[i].key = req[t].key
                       THEN [list[i] EXCEPT !.expires_at = deadline]
                       ELSE list[i]]
  <2>1. SetShard(s, R) /\ Return(t, [is |-> "ok"]) /\ ~Absent(t)
    BY <1>3 DEF expire, Present, Expired
  <2>2. /\ s \in Shards /\ Structured(S) /\ S = shards[s]
        /\ now[t] \in Nat \ {None} /\ req[t] \in Request
    BY <1>1, CallerParts DEF Inner
  <2>3. /\ Store!Mine(t) = {Item(S.nodes[idx])} /\ Store!MyShard(t) = s
        /\ idx \in Live(S) /\ S.nodes[idx].key = req[t].key
    BY <1>1, <1>3, <2>1, MineIs
  <2>4. lists' = [lists EXCEPT ![s] = Entries(R)] /\ lists[s] = list
    BY <2>1, <2>2, ListStep
  <2>5. deadline \in Nat \ {None} /\ n \in Nat
    BY <1>1, <2>2, RequestParts DEF None, IInv, TypeOK
  <2> HIDE DEF S, idx, deadline, n, s
  <2>6. R = ScheduleSome(SetDeadline(S, idx, deadline, n), idx, deadline, n)
    BY <2>5 DEF ScheduleSome
  <2> HIDE DEF R
  <2>7. Entries(R) = new /\ NewDeadlines(S, R)
    BY <2>2, <2>3, <2>5, <2>6, DeadlineEntries
  <2>8. Deadlines'
    BY <2>1, <2>2, <2>7, DeadlinesStep
  <2>9. Store!Return(t, [is |-> "ok"]) /\ Store!Mine(t) # {}
    BY <2>1, <2>3, ReturnSim
  <2>10. lists' = [lists EXCEPT ![s] =
           [i \in DOMAIN @ |->
              IF @[i].key = req[t].key
              THEN [@[i] EXCEPT !.expires_at = now[t] + req[t].ttl]
              ELSE @[i]]]
    BY <2>4, <2>7 DEF deadline
  <2> HIDE DEF new, list
  <2> QED
    BY <1>1, <2>3, <2>8, <2>9, <2>10 DEF Store!Expire, lists
<1> QED
  BY <1>2, <1>3 DEF Present

(* A write takes effect. *)
LEMMA PutSim ==
  ASSUME IInv, NEW t \in Thread, pc[t] = "write",
         NEW R, SetShard(shard_for(t), R), WriteUnlock(t),
         Entries(R) = Append(Store!Without(Entries(Inner(t)), req[t].key),
                             [key |-> req[t].key, value |-> req[t].value,
                              expires_at |-> WriteDeadline(t)])
  PROVE  Store!Write(t)
<1> DEFINE s == shard_for(t)
           e == [key |-> req[t].key, value |-> req[t].value,
                 expires_at |-> IF req[t].op = "set"
                                THEN None ELSE now[t] + req[t].ttl]
<1>1. req[t].op \in {"set", "set_with_ttl"} /\ UNCHANGED clock
  BY DEF IInv, TypeOK, WriteUnlock
<1>2. Store!Serving(t, "set") \/ Store!Serving(t, "set_with_ttl")
  BY <1>1, ServingSim
<1>3. s \in Shards /\ Inner(t) = shards[s] /\ Store!MyShard(t) = s
  BY CallerParts, MineIs DEF Inner
<1>4. lists' = [lists EXCEPT ![s] = Entries(R)] /\ lists[s] = Entries(Inner(t))
  BY <1>3, ListStep
<1>5. [key |-> req[t].key, value |-> req[t].value,
       expires_at |-> WriteDeadline(t)] = e
  BY <1>1 DEF WriteDeadline
<1>6. Store!PutLast(t, e)
  BY <1>3, <1>4, <1>5 DEF Store!PutLast, lists
<1>7. CASE MaxBytes = UsizeMax
  <2>1. Store!Return(t, [is |-> "ok"])
    BY <1>7, ReturnSim DEF WriteUnlock
  <2> QED
    BY <1>2, <1>6, <1>7, <2>1 DEF Store!Write, None, Store!None
<1>8. CASE MaxBytes # UsizeMax
  <2>1. pc' = [pc EXCEPT ![t] = "evict_load"] /\ UNCHANGED <<req, now, ret>>
    BY <1>8 DEF WriteUnlock
  <2>2. phases' = [phases EXCEPT ![t] = PhaseOf("evict_load")]
        /\ PhaseOf("evict_load") = "evict"
    BY <2>1, PhaseStep DEF PhaseOf
  <2> QED
    BY <1>2, <1>6, <1>8, <2>1, <2>2 DEF Store!Write, None, Store!None, phases
<1> QED
  BY <1>7, <1>8

(* Overwriting a live entry is the write. *)
LEMMA WriteReplaceSim ==
  ASSUME IInv, Deadlines, NEW t \in Thread, WriteReplace(t)
  PROVE  Store!Write(t) /\ Deadlines'
<1> DEFINE R == Replaced(t, next_ttl_token)
<1>1. /\ pc[t] = "write" /\ pc[t] # "idle" /\ ~Absent(t)
      /\ SetShard(shard_for(t), R) /\ WriteUnlock(t)
  BY DEF WriteReplace
<1>2. /\ shard_for(t) \in Shards /\ Structured(Inner(t))
      /\ Inner(t) = shards[shard_for(t)]
  BY <1>1, CallerParts DEF Inner
<1>3. Slot(t) \in Live(Inner(t)) /\ Inner(t).nodes[Slot(t)].key = req[t].key
  BY <1>1, MineIs
<1>4. /\ req[t].value \in Value /\ NewSize(t) \in Nat /\ WriteDeadline(t) \in Nat
      /\ next_ttl_token \in Nat
  BY <1>1, WriteParts DEF IInv, TypeOK
<1>5. /\ Entries(R) = Append(Store!Without(Entries(Inner(t)), req[t].key),
                             [key |-> req[t].key, value |-> req[t].value,
                              expires_at |-> WriteDeadline(t)])
      /\ NewDeadlines(Inner(t), R)
  <2> DEFINE S == Inner(t)
             idx == Slot(t)
             n == next_ttl_token
             value == req[t].value
             size == NewSize(t)
             deadline == WriteDeadline(t)
             node == [S.nodes[idx] EXCEPT
                        !.value = value, !.size = size,
                        !.expires_at = deadline, !.ttl_token = n]
  <2>1. R = ScheduleSome(touch(SetNode(S, idx, node), idx), idx, deadline, n)
    BY DEF Replaced
  <2>2. /\ Structured(S) /\ idx \in Live(S) /\ S.nodes[idx] \in Node
        /\ value \in Value /\ size \in Nat /\ deadline \in Nat /\ n \in Nat
        /\ S.nodes[idx].key = req[t].key
    BY <1>1, <1>2, <1>3, <1>4, CallerParts
  <2> HIDE DEF S, idx, n, value, size, deadline
  <2>3. /\ node \in Node /\ node.value = value /\ node.expires_at = deadline
        /\ node.key = S.nodes[idx].key
        /\ node.prev = S.nodes[idx].prev /\ node.next = S.nodes[idx].next
    BY <2>2 DEF Node
  <2> HIDE DEF node, R
  <2>4. /\ Entries(R) = Append(Store!Without(Entries(S), node.key), Item(node))
        /\ NewDeadlines(S, R)
    <3>1. R = Overwritten(S, idx, node, n)
      BY <2>1, <2>3 DEF Overwritten
    <3>2. /\ Structured(S) /\ idx \in Live(S) /\ node \in Node /\ n \in Nat
          /\ node.key = S.nodes[idx].key
          /\ node.prev = S.nodes[idx].prev /\ node.next = S.nodes[idx].next
      BY <2>2, <2>3
    <3>3. /\ Entries(Overwritten(S, idx, node, n))
               = Append(Store!Without(Entries(S), node.key), Item(node))
          /\ NewDeadlines(S, Overwritten(S, idx, node, n))
      BY <3>2, ReplaceEntries
    <3> QED
      BY <3>1, <3>3
  <2>5. Item(node) = [key |-> req[t].key, value |-> value,
                      expires_at |-> deadline]
    BY <2>2, <2>3 DEF Item
  <2> QED
    BY <2>2, <2>3, <2>4, <2>5 DEF S, value, deadline
<1> HIDE DEF R
<1> QED
  BY <1>1, <1>2, <1>5, PutSim, DeadlinesStep

(* Inserting a new entry is the write. *)
LEMMA WriteInsertSim ==
  ASSUME IInv, Deadlines, NEW t \in Thread, WriteInsert(t)
  PROVE  Store!Write(t) /\ Deadlines'
<1> DEFINE R == Inserted(t, next_ttl_token)
<1>1. /\ pc[t] = "write" /\ pc[t] # "idle" /\ Absent(t)
      /\ SetShard(shard_for(t), R) /\ WriteUnlock(t)
  BY DEF WriteInsert
<1>2. /\ shard_for(t) \in Shards /\ Structured(Inner(t)) /\ req[t].key \in Key
      /\ Inner(t) = shards[shard_for(t)] /\ Inner(t).map[req[t].key] = None
  BY <1>1, CallerParts DEF Inner, Absent, Slot
<1>3. Store!Without(Entries(Inner(t)), req[t].key) = Entries(Inner(t))
  BY <1>1, MineIs
<1>4. /\ req[t].value \in Value /\ NewSize(t) \in Nat /\ WriteDeadline(t) \in Nat
      /\ next_ttl_token \in Nat
  BY <1>1, WriteParts DEF IInv, TypeOK
<1>5. /\ Entries(R) = Append(Entries(Inner(t)),
                             [key |-> req[t].key, value |-> req[t].value,
                              expires_at |-> WriteDeadline(t)])
      /\ NewDeadlines(Inner(t), R)
  <2> DEFINE S == Inner(t)
             n == next_ttl_token
             key == req[t].key
             value == req[t].value
             size == NewSize(t)
             deadline == WriteDeadline(t)
             P == insert_new(S, key, value, size)
  <2>1. R = IF deadline = None THEN P
            ELSE schedule_expiration(SetDeadline(P, NextSlot(S), deadline, n),
                                     NextSlot(S), deadline, n)
    BY DEF Inserted
  <2>2. /\ Structured(S) /\ key \in Key /\ S.map[key] = None
        /\ value \in Value /\ size \in Nat /\ deadline \in Nat /\ n \in Nat
    BY <1>2, <1>4
  <2> HIDE DEF S, n, key, value, size, deadline, R
  <2>3. /\ Entries(R) = Append(Entries(S), [key |-> key, value |-> value,
                                            expires_at |-> deadline])
        /\ NewDeadlines(S, R)
    BY <2>1, <2>2, NewEntries
  <2> QED
    BY <2>3 DEF S, key, value, deadline
<1> HIDE DEF R
<1> QED
  BY <1>1, <1>2, <1>3, <1>5, PutSim, DeadlinesStep

(* Taking the lock for a write: an expired entry of the key is reclaimed,  *)
(* otherwise nothing happens that KVStore sees.                            *)
LEMMA WriteLockSim ==
  ASSUME IInv, Instants, Deadlines, NEW t \in Thread, WriteLock(t)
  PROVE  /\ (\E s \in Shards : Store!Reclaim(s)) \/ UNCHANGED Store!vars
         /\ Deadlines'
<1>1. /\ pc[t] = "call" /\ pc[t] # "idle"
      /\ pc' = [pc EXCEPT ![t] = "write"]
      /\ UNCHANGED <<clock, req, now, ret>>
  BY DEF WriteLock, Enter
<1>2. PhaseOf("write") = PhaseOf("call")
  BY DEF PhaseOf
<1>3. phases' = phases
  BY <1>1, <1>2, SamePhaseStep
<1>4. CASE ~Expired(t) /\ UNCHANGED shards
  <2>1. lists' = lists
    BY <1>4, NoListStep
  <2> QED
    BY <1>1, <1>3, <1>4, <2>1 DEF Store!vars, lists, phases, Deadlines
<1>5. CASE Expired(t) /\ RemoveEntry(t)
  <2> DEFINE s == shard_for(t)
             node == Inner(t).nodes[Slot(t)]
             list == Entries(Inner(t))
             key == req[t].key
  <2>1. ~Absent(t) /\ is_expired(node, now[t])
    BY <1>5 DEF Expired
  <2>2. /\ s \in Shards /\ Structured(Inner(t)) /\ Inner(t) = shards[s]
        /\ key \in Key /\ now[t] \in Nat
    BY <1>1, CallerParts DEF Inner
  <2>3. Store!Forget(t) /\ Store!MyShard(t) = s /\ node \in Node
    <3>1. Store!MyShard(t) = s /\ node \in Node
      BY <1>1, <2>1, MineIs
    <3>2. Store!Forget(t)
      <4>1. ~Absent(t) /\ RemoveEntry(t)
        BY <1>5, <2>1
      <4> QED
        BY <1>1, <4>1, ForgetSim
    <3> QED
      BY <3>1, <3>2
  <2>4. Store!Find(list, key) = {Item(node)}
    BY <2>1, <2>2, FindEntries DEF Absent, Slot
  <2>5. Store!Expired(Item(node), clock)
    <3>1. /\ node.expires_at # None /\ now[t] >= node.expires_at
          /\ node.expires_at \in Nat /\ clock \in Nat /\ now[t] <= clock
      BY <2>1, <2>3 DEF is_expired, Node, Instants, IInv, TypeOK
    <3>2. clock >= node.expires_at
      BY <3>1, <2>2
    <3> QED
      BY <3>1, <3>2 DEF Store!Expired, Item, None, Store!None
  <2>6. lists[s] = list
    BY <2>2 DEF lists
  <2>7. lists' = [lists EXCEPT ![s] = Store!Without(@, key)]
    BY <2>3 DEF Store!Forget, lists
  <2>8. Deadlines'
    BY <1>1, <1>5, <2>1, RemoveEntryDeadlines
  <2> HIDE DEF node, list, key, s
  <2>9. \E k \in Key : \E e \in Store!Find(lists[s], k) :
          /\ Store!Expired(e, clock)
          /\ lists' = [lists EXCEPT ![s] = Store!Without(@, k)]
    BY <2>2, <2>4, <2>5, <2>6, <2>7
  <2>10. Store!Reclaim(s)
    BY <2>9, <1>1, <1>3 DEF Store!Reclaim, lists, phases
  <2> QED
    BY <2>2, <2>8, <2>10
<1> QED
  BY <1>4, <1>5 DEF WriteLock

(* A step of KVStore that changes nothing. *)
LEMMA NothingSeen ==
  ASSUME lists' = lists, phases' = phases, UNCHANGED <<clock, req, now, ret>>
  PROVE  UNCHANGED Store!vars
BY DEF lists, phases, Store!vars

(* A write that evicts returns, or takes the oldest entry of a shard. *)
LEMMA EvictSim ==
  ASSUME IInv, Deadlines, NEW t \in Thread,
         EvictLoad(t) \/ EvictStart(t) \/ EvictScan(t) \/ EvictSub(t)
  PROVE  /\ \/ Store!WriteReturn(t)
            \/ \E s \in Shards : Store!Evict(t, s)
            \/ UNCHANGED Store!vars
         /\ Deadlines'
<1>1. phases[t] = "evict" /\ UNCHANGED clock
  BY PhaseIs DEF EvictLoad, EvictStart, EvictScan, EvictSub
<1>2. PhaseOf(pc[t]) = "evict"
  BY DEF EvictLoad, EvictStart, EvictScan, EvictSub, PhaseOf
<1>3. /\ PhaseOf("evict_load") = "evict" /\ PhaseOf("evict_start") = "evict"
      /\ PhaseOf("evict_scan") = "evict" /\ PhaseOf("evict_sub") = "evict"
  BY DEF PhaseOf
<1>4. ASSUME UNCHANGED shards, Return(t, [is |-> "ok"])
      PROVE  Store!WriteReturn(t) /\ Deadlines'
  <2>1. Store!Return(t, [is |-> "ok"]) /\ lists' = lists
    BY <1>4, ReturnSim, NoListStep
  <2> QED
    BY <1>1, <1>4, <2>1 DEF Store!WriteReturn, lists, phases, Deadlines
<1>5. ASSUME NEW p \in {"evict_load", "evict_start", "evict_scan", "evict_sub"},
             UNCHANGED <<shards, req, now, ret>>, pc' = [pc EXCEPT ![t] = p]
      PROVE  UNCHANGED Store!vars /\ Deadlines'
  <2>1. phases' = phases /\ lists' = lists
    BY <1>2, <1>3, <1>5, SamePhaseStep, NoListStep
  <2> QED
    BY <2>1, <1>1, <1>5, NothingSeen DEF Deadlines
<1>6. CASE EvictLoad(t)
  BY <1>4, <1>5, <1>6 DEF EvictLoad, store
<1>7. CASE EvictStart(t)
  BY <1>5, <1>7 DEF EvictStart, store
<1>8. CASE EvictSub(t)
  BY <1>5, <1>8 DEF EvictSub
<1>9. CASE EvictScan(t)
  <2> DEFINE s == EvictShard(t)
             S == shards[s]
             R == pop_lru(S)
  <2>1. s \in Shards
    <3>1. evict[t].start \in Shards /\ evict[t].offset \in Nat
      BY EngineAssumption DEF IInv, TypeOK, Shards
    <3> QED
      BY <3>1, InShards DEF EvictShard
  <2>2. CASE S.head # None
    <3>1. /\ SetShard(s, R) /\ pc' = [pc EXCEPT ![t] = "evict_sub"]
          /\ UNCHANGED <<req, now, ret>>
      BY <1>9, <2>2 DEF EvictScan
    <3>2. Structured(S)
      BY <2>1 DEF IInv, ShardsOK
    <3>3. lists' = [lists EXCEPT ![s] = Entries(R)] /\ lists[s] = Entries(S)
      BY <2>1, <3>1, ListStep
    <3>4. Entries(S) # <<>> /\ Entries(R) = Tail(Entries(S))
      BY <2>2, <3>2, PopEntries
    <3>5. phases' = phases
      BY <1>2, <1>3, <3>1, SamePhaseStep
    <3>6. Deadlines'
      <4>1. S.head \in Live(S) /\ R = remove_idx(S, S.head)
        BY <2>2, <3>2, HeadLive DEF pop_lru
      <4>2. RemovedAt(S, R, S.head)
        BY <3>2, <4>1, RemoveIdx
      <4>3. NewDeadlines(S, R)
        BY <4>2 DEF RemovedAt, NewDeadlines
      <4> HIDE DEF R
      <4> QED
        BY <2>1, <3>1, <4>3, DeadlinesStep
    <3> HIDE DEF s
    <3>7. Store!Evict(t, s)
      BY <1>1, <3>1, <3>3, <3>4, <3>5 DEF Store!Evict, lists, phases
    <3> QED
      BY <2>1, <3>6, <3>7
  <2>3. CASE S.head = None
    <3>1. UNCHANGED shards /\ EvictNone(t)
      BY <1>9, <2>3 DEF EvictScan
    <3>2. CASE Return(t, [is |-> "ok"])
      BY <1>4, <3>1, <3>2
    <3>3. CASE UNCHANGED callers
      <4>1. phases' = phases /\ lists' = lists
        BY <3>1, <3>3, NoPhaseStep, NoListStep DEF callers
      <4> QED
        BY <4>1, <1>1, <3>1, <3>3, NothingSeen DEF callers, Deadlines
    <3> QED
      BY <3>1, <3>2, <3>3 DEF EvictNone
  <2> QED
    BY <2>2, <2>3
<1> QED
  BY <1>6, <1>7, <1>8, <1>9

(* The sweeper reclaims entries past their deadline; its other steps       *)
(* change nothing that KVStore sees.                                       *)
LEMMA SweepSim ==
  ASSUME IInv, Instants, Deadlines, SweepStep
  PROVE  /\ (\E s \in Shards : Store!Reclaim(s)) \/ UNCHANGED Store!vars
         /\ Deadlines'
<1> DEFINE s == sweep.shard
           S == shards[s]
           T == pop_due_expiration(S, sweep.now)
<1>1. /\ UNCHANGED <<clock, req, now, ret>> /\ UNCHANGED pc
  BY DEF SweepStep, SweepCheck, SweepWake, SweepLock, SweepPop, SweepUnlock,
     callers
<1>2. phases' = phases
  BY <1>1, NoPhaseStep
<1>3. s \in Shards /\ sweep.now \in Nat /\ clock \in Nat
  BY DEF IInv, TypeOK
<1>4. Structured(S) /\ TtlHeapCovers(S)
  BY <1>3 DEF IInv, ShardsOK
<1>5. CASE SweepCheck \/ SweepWake \/ SweepLock
  <2>1. UNCHANGED shards
    BY <1>5 DEF SweepCheck, SweepWake, SweepLock, store
  <2> QED
    BY <1>1, <1>2, <2>1, NoListStep, NothingSeen DEF Deadlines
<1>6. /\ Structured(T) /\ Live(T) = Live(S) /\ T.nodes = S.nodes
      /\ T.ttl_heap \subseteq S.ttl_heap /\ Entries(T) = Entries(S)
  <2>1. /\ Structured(T) /\ Live(T) = Live(S) /\ T.nodes = S.nodes
        /\ T.ttl_heap \subseteq S.ttl_heap /\ OrderKept(S, T)
    BY <1>3, <1>4, PopDue
  <2> HIDE DEF T
  <2> QED
    BY <2>1, <1>4, KeptEntries
<1>7. CASE SweepUnlock
  <2>1. SetShard(s, T)
    BY <1>7 DEF SweepUnlock
  <2>2. NewDeadlines(S, T)
    BY <1>6 DEF NewDeadlines
  <2> HIDE DEF T, s
  <2>3. lists' = lists /\ Deadlines'
    BY <1>3, <1>6, <2>1, <2>2, SameListStep, DeadlinesStep
  <2> QED
    BY <1>1, <1>2, <2>3, NothingSeen
<1>8. CASE SweepPop
  <2>1. PICK e \in due_expiration(S, sweep.now) : SetShard(s, remove_idx(T, e.idx))
    BY <1>8 DEF SweepPop
  <2> DEFINE idx == e.idx
             R == remove_idx(T, idx)
             node == S.nodes[idx]
             key == node.key
  <2>2. /\ e \in S.ttl_heap /\ e.expires_at <= sweep.now
        /\ idx \in Live(S) /\ node.expires_at = e.expires_at
    BY <2>1 DEF due_expiration, DueLive, Due, Matches
  <2>3. /\ node \in Node /\ key \in Key /\ S.map[key] = idx /\ idx # None
        /\ e.expires_at \in Nat
    <3>1. S \in Shard /\ MapExact(S)
      BY <1>4 DEF Structured
    <3>2. node \in Node /\ idx # None
      BY <2>2, <3>1, ShardParts DEF None
    <3>3. S.map[key] = idx
      BY <2>2, <3>1 DEF MapExact
    <3> QED
      BY <2>2, <3>2, <3>3 DEF Node
  <2>4. e.expires_at # None
    BY <1>3, <2>2 DEF Deadlines
  <2>5. clock >= node.expires_at /\ node.expires_at # None
    BY <1>3, <2>2, <2>3, <2>4 DEF Instants
  <2>6. Store!Expired(Item(node), clock)
    <3> DEFINE deadline == node.expires_at
    <3>1. Item(node).expires_at = deadline
      BY DEF Item
    <3>2. clock >= deadline /\ deadline # None
      BY <2>5
    <3> HIDE DEF deadline, node
    <3> QED
      BY <3>1, <3>2 DEF Store!Expired, None, Store!None
  <2>7. Store!Find(Entries(S), key) = {Item(node)}
    BY <1>4, <2>3, FindEntries
  <2> HIDE DEF T, s
  <2>8. /\ Entries(R) = Store!Without(Entries(S), key)
        /\ RemovedAt(T, R, idx)
    BY <1>6, <2>2, RemoveEntries, RemoveIdx
  <2>9. NewDeadlines(S, R)
    BY <1>6, <2>8 DEF RemovedAt, NewDeadlines
  <2>10. SetShard(s, R)
    BY <2>1
  <2> HIDE DEF R, idx, key, node
  <2>11. Deadlines' /\ lists' = [lists EXCEPT ![s] = Entries(R)]
         /\ lists[s] = Entries(S)
    BY <1>3, <2>9, <2>10, DeadlinesStep, ListStep
  <2>12. \E k \in Key : \E x \in Store!Find(lists[s], k) :
           /\ Store!Expired(x, clock)
           /\ lists' = [lists EXCEPT ![s] = Store!Without(@, k)]
    BY <2>3, <2>6, <2>7, <2>8, <2>11
  <2>13. Store!Reclaim(s)
    BY <2>12, <1>1, <1>2 DEF Store!Reclaim, lists, phases
  <2> QED
    BY <1>3, <2>11, <2>13
<1> QED
  BY <1>5, <1>7, <1>8 DEF SweepStep

(* The owner of the sweeper, and the clock. *)
LEMMA OtherSim ==
  ASSUME Deadlines, start_expirer \/ stop \/ Tick
  PROVE  /\ Store!Tick \/ UNCHANGED Store!vars
         /\ Deadlines'
<1>1. UNCHANGED <<shards, pc, req, now, ret>>
  BY DEF start_expirer, stop, Tick, store, callers
<1>2. lists' = lists /\ phases' = phases
  BY <1>1, NoListStep, NoPhaseStep
<1>3. Deadlines'
  BY <1>1 DEF Deadlines
<1>4. CASE Tick
  BY <1>1, <1>2, <1>3, <1>4 DEF Tick, Store!Tick, lists, phases
<1>5. CASE start_expirer \/ stop
  BY <1>1, <1>2, <1>3, <1>5, NothingSeen DEF start_expirer, stop
<1> QED
  BY <1>4, <1>5

(* A removal or a read of the list does not touch the heap. *)
LEMMA ReadDeadlines ==
  ASSUME IInv, Deadlines, NEW t \in Thread, get(t) \/ delete(t) \/ ttl(t)
  PROVE  Deadlines'
<1>1. pc[t] # "idle"
  BY DEF get, delete, ttl, Enter
<1>2. CASE UNCHANGED shards
  BY <1>2 DEF Deadlines
<1>3. CASE ~Absent(t) /\ RemoveEntry(t)
  BY <1>1, <1>3, RemoveEntryDeadlines
<1>4. CASE ~Absent(t) /\ SetShard(shard_for(t), touch(Inner(t), Slot(t)))
  <2> DEFINE R == touch(Inner(t), Slot(t))
  <2>1. /\ shard_for(t) \in Shards /\ Structured(Inner(t))
        /\ Slot(t) \in Live(Inner(t)) /\ Inner(t) = shards[shard_for(t)]
    BY <1>1, <1>4, CallerParts DEF Inner
  <2>2. SameContent(Inner(t), R)
    BY <2>1, Touch
  <2>3. NewDeadlines(Inner(t), R)
    BY <2>2 DEF SameContent, NewDeadlines
  <2> HIDE DEF R
  <2> QED
    BY <1>4, <2>1, <2>3, DeadlinesStep DEF R
<1> QED
  BY <1>2, <1>3, <1>4 DEF get, delete, ttl, Expired, Present

(* No instant gets ahead of the clock. *)
LEMMA InstantsStep ==
  ASSUME IInv, Instants, [Next]_vars
  PROVE  Instants'
<1>1. /\ now \in [Thread -> Nat] /\ clock \in Nat /\ sweep.now \in Nat
      /\ None \in Nat /\ None <= clock
  BY DEF IInv, TypeOK, None
<1>2. ASSUME NEW t \in Thread, NEW w \in {None, clock},
             now' = [now EXCEPT ![t] = w], UNCHANGED <<clock, sweep>>
      PROVE  Instants'
  BY <1>1, <1>2 DEF Instants
<1>3. ASSUME NEW t \in Thread, NEW result, Return(t, result),
             UNCHANGED <<clock, sweep>>
      PROVE  Instants'
  BY <1>2, <1>3 DEF Return
<1>4. ASSUME UNCHANGED <<now, clock, sweep>>
      PROVE  Instants'
  BY <1>4 DEF Instants
<1>5. ASSUME NEW t \in Thread, Call(t)
      PROVE  Instants'
  BY <1>2, <1>5 DEF Call, sweeper
<1>6. ASSUME NEW t \in Thread, Step(t)
      PROVE  Instants'
  <2>1. CASE get(t) \/ delete(t) \/ ttl(t) \/ expire(t)
    BY <2>1, <1>3 DEF get, delete, ttl, expire, sweeper
  <2>2. CASE WriteLock(t) \/ WriteReplace(t) \/ WriteInsert(t)
    BY <2>2, <1>3, <1>4
    DEF WriteLock, WriteReplace, WriteInsert, WriteUnlock, sweeper
  <2>3. CASE EvictLoad(t) \/ EvictStart(t) \/ EvictScan(t) \/ EvictSub(t)
    BY <2>3, <1>3, <1>4
    DEF EvictLoad, EvictStart, EvictScan, EvictSub, EvictNone, sweeper, callers
  <2> QED
    BY <1>6, <2>1, <2>2, <2>3 DEF Step
<1>7. CASE SweepStep
  <2>1. /\ UNCHANGED <<now, clock>> /\ sweep'.now \in {sweep.now, clock, None}
    <3>1. sweep \in [pc: {"none", "check", "sleep", "lock", "purge", "done"},
                     now: Nat, shard: Shards]
      BY DEF IInv, TypeOK
    <3>2. CASE SweepCheck \/ SweepLock
      BY <3>1, <3>2 DEF SweepCheck, SweepLock, callers
    <3>3. CASE SweepWake
      BY <3>3 DEF SweepWake, callers
    <3>4. CASE SweepPop
      BY <3>4 DEF SweepPop, callers, sweeper
    <3>5. CASE SweepUnlock
      <4>1. UNCHANGED <<now, clock>> /\ sweep' = NextSweep
        BY <3>5 DEF SweepUnlock, callers
      <4>2. NextSweep.now \in {sweep.now, None}
        BY <3>1 DEF NextSweep
      <4> QED
        BY <4>1, <4>2
    <3> QED
      BY <1>7, <3>2, <3>3, <3>4, <3>5 DEF SweepStep
  <2> QED
    BY <2>1, <1>1 DEF Instants
<1>8. CASE start_expirer
  <2>1. /\ UNCHANGED <<now, clock>> /\ sweep'.now = sweep.now
    BY <1>8 DEF start_expirer, callers, IInv, TypeOK
  <2> QED
    BY <2>1 DEF Instants
<1>9. CASE stop
  BY <1>4, <1>9 DEF stop, callers
<1>10. CASE Tick
  <2>1. UNCHANGED <<now, sweep>> /\ clock' = clock + 1
    BY <1>10 DEF Tick, callers, sweeper
  <2> QED
    BY <2>1, <1>1 DEF Instants
<1>11. CASE UNCHANGED vars
  BY <1>4, <1>11 DEF vars
<1> QED
  BY <1>5, <1>6, <1>7, <1>8, <1>9, <1>10, <1>11 DEF Next

(* A new engine is an empty store. *)
LEMMA InitSim == Init => Store!Init /\ Instants /\ Deadlines
<1> SUFFICES ASSUME Init PROVE Store!Init /\ Instants /\ Deadlines
  OBVIOUS
<1>1. \A s \in Shards : shards[s] = EmptyShard /\ Structured(shards[s])
  BY InitIInv DEF Init, IInv, ShardsOK
<1>2. LiveCount(EmptyShard) = 0 /\ EmptyShard.ttl_heap = {}
  BY DEF EmptyShard, LiveCount
<1>3. ASSUME NEW s \in Shards PROVE Entries(shards[s]) = <<>>
  <2>1. Entries(shards[s]) \in Seq(Items) /\ Len(Entries(shards[s])) = 0
    BY <1>1, <1>2, EntriesType
  <2> QED
    BY <2>1, EmptySeq
<1>4. lists = [s \in Shards |-> <<>>]
  BY <1>3 DEF lists
<1>5. phases = [t \in Thread |-> "idle"]
  BY DEF Init, phases, Phase
<1>6. Store!Init
  BY <1>4, <1>5 DEF Init, Store!Init, lists, phases, Shards, Store!Shards, None,
     Store!None, NoRequest, Store!NoRequest, NoResult, Store!NoResult
<1>7. Instants
  BY DEF Init, Instants, None
<1>8. Deadlines
  BY <1>1, <1>2 DEF Deadlines
<1> QED
  BY <1>6, <1>7, <1>8

(* Every step of the engine is a step of KVStore or changes nothing there. *)
LEMMA StepSim ==
  ASSUME IInv, Instants, Deadlines, [Next]_vars
  PROVE  [Store!Next]_(Store!vars) /\ Deadlines'
<1>1. Store!Shards = Shards
  BY DEF Shards, Store!Shards
<1>2. ASSUME NEW t \in Thread, Call(t) \/ Step(t)
      PROVE  [Store!Next]_(Store!vars) /\ Deadlines'
  <2>1. CASE Call(t)
    <3>1. Store!Invoke(t) /\ Deadlines'
      BY <2>1, CallSim DEF Call, store, Deadlines
    <3> QED
      BY <3>1 DEF Store!Next
  <2>2. CASE get(t) \/ delete(t) \/ ttl(t)
    <3>1. Store!Get(t) \/ Store!Delete(t) \/ Store!Ttl(t)
      BY <2>2, getSim, deleteSim, ttlSim
    <3>2. Deadlines'
      BY <2>2, ReadDeadlines
    <3> QED
      BY <3>1, <3>2 DEF Store!Next
  <2>3. CASE expire(t)
    <3>1. Store!Expire(t) /\ Deadlines'
      BY <2>3, expireSim
    <3> QED
      BY <3>1 DEF Store!Next
  <2>4. CASE WriteReplace(t) \/ WriteInsert(t)
    <3>1. Store!Write(t) /\ Deadlines'
      BY <2>4, WriteReplaceSim, WriteInsertSim
    <3> QED
      BY <3>1 DEF Store!Next
  <2>5. CASE WriteLock(t)
    <3>1. /\ (\E s \in Shards : Store!Reclaim(s)) \/ UNCHANGED Store!vars
          /\ Deadlines'
      BY <2>5, WriteLockSim
    <3> QED
      BY <3>1, <1>1 DEF Store!Next
  <2>6. CASE EvictLoad(t) \/ EvictStart(t) \/ EvictScan(t) \/ EvictSub(t)
    <3>1. /\ \/ Store!WriteReturn(t)
             \/ \E s \in Shards : Store!Evict(t, s)
             \/ UNCHANGED Store!vars
          /\ Deadlines'
      BY <2>6, EvictSim
    <3> QED
      BY <3>1, <1>1 DEF Store!Next
  <2> QED
    BY <1>2, <2>1, <2>2, <2>3, <2>4, <2>5, <2>6 DEF Step
<1>3. CASE SweepStep
  <2>1. /\ (\E s \in Shards : Store!Reclaim(s)) \/ UNCHANGED Store!vars
        /\ Deadlines'
    BY <1>3, SweepSim
  <2> QED
    BY <2>1, <1>1 DEF Store!Next
<1>4. CASE start_expirer \/ stop \/ Tick
  <2>1. (Store!Tick \/ UNCHANGED Store!vars) /\ Deadlines'
    BY <1>4, OtherSim
  <2> QED
    BY <2>1 DEF Store!Next
<1>5. CASE UNCHANGED vars
  <2>1. UNCHANGED <<shards, pc, clock, req, now, ret>>
    BY <1>5 DEF vars
  <2>2. UNCHANGED Store!vars
    BY <2>1, NoListStep, NoPhaseStep, NothingSeen
  <2> QED
    BY <2>1, <2>2 DEF Deadlines
<1> QED
  BY <1>2, <1>3, <1>4, <1>5 DEF Next

(* The engine implements KVStore: whatever the threads, keys, requests,    *)
(* shards and capacity, every call of the trait takes effect in one step   *)
(* between its invocation and its return, although it runs under one lock, *)
(* gives the lock up before it evicts and shares the byte counter with     *)
(* everyone; an entry leaves the store only by a delete, past its          *)
(* deadline, or as the least recently used one of its shard; and a value   *)
(* and its deadline appear together.                                       *)
THEOREM Refinement == Spec => ImplementsStore
<1>1. Init => Store!Init /\ Instants /\ Deadlines
  BY InitSim
<1>2. IInv /\ Instants /\ Deadlines /\ [Next]_vars
        => Instants' /\ Deadlines' /\ [Store!Next]_(Store!vars)
  BY InstantsStep, StepSim
<1> QED
  BY <1>1, <1>2, Invariance, PTL DEF Spec, ImplementsStore, Store!Spec

=============================================================================
