----------------------------- MODULE MCWorkPool ------------------------------
(* A pool with fewer workers and a shorter queue than its caller has jobs:  *)
(* the caller waits for the queue and the dispatcher for the workers.       *)
EXTENDS WorkPool

CONSTANTS w1, w2, w3
=============================================================================
