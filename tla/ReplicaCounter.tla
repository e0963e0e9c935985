--------------------------- MODULE ReplicaCounter ---------------------------
(***************************************************************************)
(* What the replica count of one watched Deployment promises, whatever the *)
(* watchers do to agree on it: every write is one atomic step of one       *)
(* writer.  A watcher adds one below the ceiling, takes one away above     *)
(* zero, or leaves the count alone; anybody else with access to the        *)
(* cluster may set, delete or create the object.                           *)
(*                                                                         *)
(* The last writer is part of the state, as it is part of the object in    *)
(* the cluster (managedFields): without it a watcher that overwrites       *)
(* somebody's edit could not be told from somebody editing the object.     *)
(***************************************************************************)
EXTENDS Integers

CONSTANTS
  Watchers,   \* the watch goroutines pointed at this object
  Outside,    \* everybody else: kubectl, other controllers
  Ceiling,    \* the count increaseReplica does not go beyond
  Edits       \* the counts somebody outside may set

VARIABLES
  exists,     \* whether the object is in the cluster
  replicas,   \* spec.replicas
  by          \* who wrote it last

vars == <<exists, replicas, by>>

Init ==
  /\ exists \in BOOLEAN
  /\ replicas \in Edits
  /\ by = Outside

Raise(w) ==
  /\ exists
  /\ replicas < Ceiling
  /\ replicas' = replicas + 1
  /\ by' = w
  /\ UNCHANGED exists

Lower(w) ==
  /\ exists
  /\ replicas > 0
  /\ replicas' = replicas - 1
  /\ by' = w
  /\ UNCHANGED exists

(* A write to another part of the object: resource requests and limits. *)
Rewrite(w) ==
  /\ exists
  /\ by' = w
  /\ UNCHANGED <<exists, replicas>>

Outsider ==
  /\ replicas' \in Edits \cup {replicas}
  /\ by' = Outside
  /\ exists' \in BOOLEAN
  /\ exists' \/ exists

Next ==
  \/ \E w \in Watchers : Raise(w) \/ Lower(w) \/ Rewrite(w)
  \/ Outsider

Spec == Init /\ [][Next]_vars
=============================================================================
