----------------------------- MODULE MCPodWatch -----------------------------
(* Instances of PodWatch for TLC. *)
EXTENDS PodWatch, TLC

CONSTANTS p1, n1, n2

(* A Pod that alerts at its first pass and reports from its second one on. *)
Levels == p1 :> 2
=============================================================================
