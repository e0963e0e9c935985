----------------------------- MODULE MCScaleUp ------------------------------
(* Instances of ScaleUp for TLC. *)
EXTENDS ScaleUp, TLC

CONSTANTS w1, w2

Item(level, cpu, mem) ==
  [level |-> level, limit |-> "cpu" :> cpu @@ "mem" :> mem]

(* Only a limit below 0 makes a pass write: one item has such a limit for  *)
(* its cpu, the other has the limits of example.izone.yaml.                *)
MixedConfig == w1 :> Item(1, -1, 100) @@ w2 :> Item(1, 100, 100)

ExampleUsages == {0, 150}
One == {1}
=============================================================================
