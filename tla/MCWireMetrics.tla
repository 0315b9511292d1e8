---------------------------- MODULE MCWireMetrics ----------------------------
(***************************************************************************)
(* What a connection task has beside the commands, for TLC: the wire       *)
(* format and the metrics.  Two bucket bounds, with latencies on a bound,  *)
(* between the bounds and above them.                                      *)
(*                                                                         *)
(* The two share no variable, and each has all its behaviours while the    *)
(* other rests in an initial state, which for the wire is that of a fixed  *)
(* stream.                                                                 *)
(***************************************************************************)
EXTENDS MCRespWire, Metrics, TLC

TwoBounds == <<2, 4>>

Symmetry == Permutations(Thread)

WireRests == WireInit /\ input = CHOOSE stream \in Streams : TRUE

MCInit == WireInit /\ MetricsInit

MCNext ==
  \/ MetricsInit /\ WireNext /\ UNCHANGED metrics_vars
  \/ WireRests /\ MetricsNext /\ UNCHANGED wireVars

MCSpec == MCInit /\ [][MCNext]_<<wireVars, metrics_vars>>

=============================================================================
