--------------------------- MODULE MCRunRepository ---------------------------
(* Instance of RunRepository for TLC: three workers, two of whose runs     *)
(* were started in the same millisecond and share their id.                *)
EXTENDS RunRepository

MCWorker == 1..3

(* Two with an id of their own. *)
TwoWorkers == 1..2

MCRunOf ==
  <<[id |-> 1, status |-> "completed", created_at |-> 1, result |-> "figures"],
    [id |-> 2, status |-> "cancelled", created_at |-> 2, result |-> "none"],
    [id |-> 2, status |-> "failed", created_at |-> 2, result |-> "none"]>>

=============================================================================
