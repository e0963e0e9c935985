-------------------------- MODULE MCWorkloadWatch ---------------------------
(* An instance of WorkloadWatch for TLC: items that only report. *)
EXTENDS WorkloadWatch

CONSTANTS d1, s1

ReportingConfig ==
  [w \in {d1, s1} |-> [scaleOut |-> FALSE, level |-> 1, min |-> 1, max |-> 2,
                       downInterval |-> 0, belowZero |-> FALSE]]

One == {1}
=============================================================================
