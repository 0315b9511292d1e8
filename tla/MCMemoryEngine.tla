--------------------------- MODULE MCMemoryEngine ---------------------------
(***************************************************************************)
(* Values of MemoryEngine's constants for TLC.  The .cfg files choose      *)
(* among them.                                                             *)
(***************************************************************************)
EXTENDS MemoryEngine, TLC

Keys1 == {"a"}
Keys2 == {"a", "b"}
Keys3 == {"a", "b", "c"}
Values1 == {"v"}
Values2 == {"v", "ww"}

OneShard == [k \in Key |-> 0]
TwoShards == [k \in Key |-> IF k = "a" THEN 0 ELSE 1]

KeyLengths == [k \in Key |-> 1]
ValueLengths == [v \in Value |-> IF v = "ww" THEN 2 ELSE 1]

Gets == [op: {"get"}, key: Key]
Sets == [op: {"set"}, key: Key, value: Value]
TtlSets == [op: {"set_with_ttl"}, key: Key, value: Value, ttl: {1}]

(* Calls without deadlines, and all calls. *)
Plain == Gets \cup Sets \cup [op: {"delete"}, key: Key]
WithTtl == Plain \cup TtlSets \cup [op: {"ttl"}, key: Key]
                 \cup [op: {"expire"}, key: Key, ttl: {1}]

(* Calls without deadlines; one of the keys changes its size. *)
Resizing == Gets \cup [op: {"set"}, key: Key, value: {"v"}] \cup [op: {"delete"}, key: Key]
                 \cup [op: {"set"}, key: {"a"}, value: {"ww"}]

(* A key with a deadline in the last shard, and one without in the first,  *)
(* which alone exceeds the budget.                                         *)
Contention == {[op |-> "set_with_ttl", key |-> "b", value |-> "v", ttl |-> 1],
               [op |-> "set", key |-> "a", value |-> "ww"],
               [op |-> "get", key |-> "b"]}

Symmetry == Permutations(Thread)

=============================================================================
