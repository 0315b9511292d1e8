----------------------------- MODULE MCKVClient -----------------------------
(***************************************************************************)
(* KVClient for TLC: symmetry of the threads and of the sockets.           *)
(***************************************************************************)
EXTENDS KVClient, TLC

Symmetry == Permutations(Client) \cup Permutations(Conn)

=============================================================================
