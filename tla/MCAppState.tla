----------------------------- MODULE MCAppState ------------------------------
(***************************************************************************)
(* What AppState keeps (state.rs), for TLC: the managed server with its    *)
(* poller, and the file of runs.  The two share no variable, and each has  *)
(* all its behaviours while the other rests in its initial state.          *)
(***************************************************************************)
EXTENDS DesktopServer, MCRunRepository

MCInit == DesktopInit /\ Init

MCNext ==
  \/ Init /\ DesktopNext /\ UNCHANGED vars
  \/ DesktopInit /\ Next /\ UNCHANGED desktopVars

MCSpec == MCInit /\ [][MCNext]_<<desktopVars, vars>> /\ Fairness

=============================================================================
