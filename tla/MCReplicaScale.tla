--------------------------- MODULE MCReplicaScale ---------------------------
(* A small instance of ReplicaScale for TLC. *)
EXTENDS ReplicaScale

MCEdits == {0, 3}
=============================================================================
