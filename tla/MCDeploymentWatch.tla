------------------------- MODULE MCDeploymentWatch --------------------------
(* Instances of DeploymentWatch for TLC. *)
EXTENDS DeploymentWatch, TLC

CONSTANTS w1, w2

Item(scaleOut, level, min, max, downInterval) ==
  [scaleOut |-> scaleOut, level |-> level, min |-> min, max |-> max,
   downInterval |-> downInterval, belowZero |-> FALSE]

(* The decisions: an item that reports twice, once from each of its lists. *)
ScalingConfig == w1 :> Item(TRUE, 2, 1, 3, 1)
ScalingEdits == {0, 1}
ScalingPodCounts == {1, 2}

(* The registry: items that only report.                                   *)
RegistryConfig == [w \in Watchers |-> Item(FALSE, 1, 1, 2, 0)]

One == {1}

(* example.izone.yaml: min_replicas 1, max_replicas 9, one idle pod. *)
ExampleConfig == w1 :> Item(TRUE, 1, 1, 9, 1)

=============================================================================
