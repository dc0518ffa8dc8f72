---------------------------- MODULE MCCheckpoint ----------------------------
(* The recipes and the bounds of the runs of Checkpoint. *)
EXTENDS Checkpoint

(* Every recipe that Safe allows, with lags up to one second. *)
SafeRecipes ==
  {r \in [progress : {"high_water", "clock", "clock_unix", "window"},
          pages : {"none", "cursor", "counter"}, field : {"stamp", "number"},
          look : 0 .. 2, delay : 0 .. 1] :
     /\ Safe(r)
     /\ r.progress # "clock" => r.look = 0
     /\ r.progress \in {"clock", "window"} => r.field = "stamp"
     /\ r.progress = "clock_unix" => r.field = "number"}

(* A high-water mark over a numeric id. *)
NumericMark ==
  {[progress |-> "high_water", pages |-> "none", field |-> "number", look |-> 0, delay |-> 0]}
=============================================================================
