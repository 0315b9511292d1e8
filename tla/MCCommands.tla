----------------------------- MODULE MCCommands -----------------------------
(***************************************************************************)
(* Values of Commands' constants for TLC: well-formed commands on three    *)
(* keys, and one malformed vector for each error the handlers detect.      *)
(***************************************************************************)
EXTENDS Commands, TLC

Numbers == [w \in {"0", "1"} |-> IF w = "0" THEN 0 ELSE 1]
Sizes == [v \in {"v"} |-> 1]

WellFormed ==
  {<<"get", 1>>, <<"SET", 1, "v">>, <<"SET", 2, "v">>,
   <<"SET", 1, "v", "ex", "1">>, <<"DEL", 1, 2>>,
   <<"DEL", 3, 1, 1>>, <<"EXPIRE", 1, "0">>, <<"TTL", 1>>,
   <<"PING">>, <<"PING", 1>>, <<"INFO">>}
Malformed ==
  {<<>>, <<"PING", 1, 2>>, <<"GET">>, <<"SET", 1>>, <<"SET", 1, "v", "EX">>,
   <<"SET", 1, "v", "EX", "x">>, <<"DEL">>, <<"EXPIRE", 1, "x">>, <<"TTL">>,
   <<"FLUSH">>}
AllRequests == WellFormed \cup Malformed

Symmetry == Permutations(Conn)

=============================================================================
