------------------------------ MODULE MCServer ------------------------------
(***************************************************************************)
(* Server for TLC: two peers that pipeline requests of all kinds, either   *)
(* of which may make its task panic.                                       *)
(***************************************************************************)
EXTENDS Server

Peers == {"p1", "p2"}
PeerKinds == [p1 |-> {"good", "bad", "fatal"}, p2 |-> {"good", "garbage", "oversized"}]

=============================================================================
