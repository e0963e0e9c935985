------------------------------ MODULE JobBatch -------------------------------
(***************************************************************************)
(* What farmingMetrics wants of a workpool: each of its jobs is done       *)
(* exactly once, in any order and side by side, and it returns when all of *)
(* them are done and no goroutine of the pool is left.                     *)
(***************************************************************************)
CONSTANTS Jobs, Workers

VARIABLES
  left,      \* the jobs that have not been done
  alive,     \* the workers whose goroutine has not ended
  returned   \* whether farmingMetrics has returned

vars == <<left, alive, returned>>

Init == left = Jobs /\ alive = Workers /\ returned = FALSE

Do(j) ==
  /\ j \in left
  /\ left' = left \ {j}
  /\ UNCHANGED <<alive, returned>>

(* Only a pool without jobs is taken down. *)
End(w) ==
  /\ left = {}
  /\ w \in alive
  /\ alive' = alive \ {w}
  /\ UNCHANGED <<left, returned>>

Return ==
  /\ left = {}
  /\ alive = {}
  /\ ~returned
  /\ returned' = TRUE
  /\ UNCHANGED <<left, alive>>

Next == (\E j \in Jobs : Do(j)) \/ (\E w \in Workers : End(w)) \/ Return

Spec == Init /\ [][Next]_vars
=============================================================================
