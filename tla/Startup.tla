------------------------------ MODULE Startup --------------------------------
(***************************************************************************)
(* cmd/main.go: what main does before the items of izone.yaml are watched, *)
(* and channel.On, the receiver of InfoCh, ErrCh and WarnCh.               *)
(*                                                                         *)
(* On is an endless loop, and main calls it itself before anything else.   *)
(* No action leads from "on" to what stands below it in main; the actions  *)
(* for that are the ones main would take if On were a goroutine.           *)
(***************************************************************************)
CONSTANT Items   \* the goroutines that SetRole starts for izone.yaml

VARIABLES
  main,     \* where main is
  started,  \* the goroutines that run
  sending   \* those of them in a send on InfoCh, ErrCh or WarnCh

vars == <<main, started, sending>>

Init ==
  /\ main = "on"
  /\ started = {}
  /\ sending = {}

Goes(from, to) ==
  /\ main = from
  /\ main' = to
  /\ UNCHANGED <<started, sending>>

(* One turn of the loop of On: a message is received and logged. *)
Serve(x) ==
  /\ main = "on"
  /\ x \in sending
  /\ sending' = sending \ {x}
  /\ UNCHANGED <<main, started>>

SlackLoad == Goes("slack", "hub")

(* An error is only warned of. *)
Config == Goes("hub", "k8s")

ConfigK8s == Goes("k8s", "env") \/ Goes("k8s", "exit")

LoadEnv == Goes("env", "roles") \/ Goes("env", "exit")

SetRole ==
  /\ main = "roles"
  /\ main' = "assigned"
  /\ started' = Items
  /\ UNCHANGED sending

(* SIGINT or SIGTERM. *)
Signal == Goes("assigned", "exit")

Send(x) ==
  /\ main # "exit"
  /\ x \in started \ sending
  /\ sending' = sending \cup {x}
  /\ UNCHANGED <<main, started>>

Main ==
  \/ \E x \in Items : Serve(x)
  \/ SlackLoad \/ Config \/ ConfigK8s \/ LoadEnv \/ SetRole

Next == Main \/ Signal \/ (\E x \in Items : Send(x))

Spec == Init /\ [][Next]_vars

(* main runs whenever it can. *)
FairSpec == Spec /\ WF_vars(Main)

-----------------------------------------------------------------------------
(* Properties *)

(* What main.go:50 announces: main has the roles assigned, unless it exits *)
(* with an error before.                                                   *)
RoleAssigned == <>(main \in {"assigned", "exit"})
=============================================================================
