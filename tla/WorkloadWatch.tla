--------------------------- MODULE WorkloadWatch ----------------------------
(***************************************************************************)
(* The Deployments and the StatefulSets that IZONE watches, with the one   *)
(* main goroutine that registers both.                                     *)
(*                                                                         *)
(* k8s/statefulset.go repeats k8s/deployment.go statement for statement,   *)
(* for another kind of object, another registry (statefulsets.groups) and  *)
(* another lock (statefulsets.mu); what it adds, a number read from the    *)
(* name of each pod, no statement uses, and what it omits (totals of 0     *)
(* that are reported as 1) is wording.  So each kind is an instance of     *)
(* DeploymentWatch.  They meet in main, which is inside one registration   *)
(* at a time.  The ages of one kind are never compared with those of the   *)
(* other, so that each has its own steps of time.                          *)
(***************************************************************************)
EXTENDS Integers

CONSTANTS
  Deployments, Statefulsets,  \* the items of izone.yaml, by their type
  Outside, Ceiling, Edits, Steps, Config, PodCounts, Horizon,
  Main, Free                  \* see DeploymentWatch

ASSUME WorkloadAssumption ==
  /\ Deployments \cap Statefulsets = {}
  /\ Outside \notin Deployments \cup Statefulsets
  /\ Ceiling \in Nat
  /\ Edits \subseteq Nat
  /\ Steps \in Nat \ {0}
  /\ \A w \in Deployments \cup Statefulsets :
       /\ Config[w] \in [scaleOut : BOOLEAN, level : 1..3, min : Int,
                         max : Int, downInterval : Nat, belowZero : BOOLEAN]
       /\ Config[w].downInterval <= Horizon
  /\ PodCounts \subseteq Nat
  /\ Horizon \in Nat
  /\ Main # Free
  /\ {Main, Free} \cap (Deployments \cup Statefulsets) = {}

VARIABLES
  dObj, dCall, dWatch, dTimer, dGroups, dMu, dReg, dAge, dHist,
  sObj, sCall, sWatch, sTimer, sGroups, sMu, sReg, sAge, sHist

dvars == <<dObj, dCall, dWatch, dTimer, dGroups, dMu, dReg, dAge, dHist>>
svars == <<sObj, sCall, sWatch, sTimer, sGroups, sMu, sReg, sAge, sHist>>
vars == <<dvars, svars>>

Deployment == INSTANCE DeploymentWatch WITH
  Watchers <- Deployments, Config <- [w \in Deployments |-> Config[w]],
  obj <- dObj, call <- dCall, watch <- dWatch, timer <- dTimer,
  groups <- dGroups, mu <- dMu, reg <- dReg, age <- dAge, hist <- dHist

Statefulset == INSTANCE DeploymentWatch WITH
  Watchers <- Statefulsets, Config <- [w \in Statefulsets |-> Config[w]],
  obj <- sObj, call <- sCall, watch <- sWatch, timer <- sTimer,
  groups <- sGroups, mu <- sMu, reg <- sReg, age <- sAge, hist <- sHist

Init == Deployment!Init /\ Statefulset!Init

-----------------------------------------------------------------------------
(* SetRole: one item after another, of either type, in any order *)

RegisterDeployments(w) ==
  /\ sReg.at = "next"
  /\ Deployment!Register(w)
  /\ UNCHANGED svars

RegisterStatefulsets(w) ==
  /\ dReg.at = "next"
  /\ Statefulset!Register(w)
  /\ UNCHANGED dvars

SetRole ==
  \/ \E w \in Deployments : RegisterDeployments(w)
  \/ \E w \in Statefulsets : RegisterStatefulsets(w)

-----------------------------------------------------------------------------
(* The goroutines of each kind *)

WatchDeployment(w) == Deployment!Goroutine(w) /\ UNCHANGED svars

(* timestart of a Statefulset: a pass reads and inspects, ...              *)
InspectStatefulset(w) ==
  \/ Statefulset!TakeTick(w)
  \/ Statefulset!Exists(w) \/ Statefulset!ExistsFails(w)
  \/ Statefulset!FindsAbnormal(w)
  \/ \E over \in Statefulset!Overloads(w) :
       Statefulset!Raises(w, over) \/ Statefulset!RaisesNot(w, over)

(* ... decides, ...                                                        *)
ScaleStatefulset(w) ==
  \/ Statefulset!Raised(w)
  \/ Statefulset!Lowers(w) \/ Statefulset!LowersNot(w)
  \/ Statefulset!Lowered(w)

(* ... writes the object, ...                                              *)
CallStatefulset(w) == Statefulset!Calling(w)

(* ... and reports.                                                        *)
ReportStatefulset(w) == Statefulset!Reports(w) \/ Statefulset!ReportsLast(w)

PassStatefulset(w) ==
  /\ \/ InspectStatefulset(w) \/ ScaleStatefulset(w)
     \/ CallStatefulset(w) \/ ReportStatefulset(w)
  /\ UNCHANGED dvars

ReleaseStatefulset(w) == Statefulset!Release(w) /\ UNCHANGED dvars

WatchStatefulset(w) == PassStatefulset(w) \/ ReleaseStatefulset(w)

(* Tickers, time and everybody else who writes the objects. *)
Around ==
  \/ /\ \/ \E w \in Deployments : Deployment!Tick(w)
        \/ Deployment!Elapse
        \/ Deployment!Cluster
     /\ UNCHANGED svars
  \/ /\ \/ \E w \in Statefulsets : Statefulset!Tick(w)
        \/ Statefulset!Elapse
        \/ Statefulset!Cluster
     /\ UNCHANGED dvars

Next ==
  \/ SetRole
  \/ \E w \in Deployments : WatchDeployment(w)
  \/ \E w \in Statefulsets : WatchStatefulset(w)
  \/ Around

Spec == Init /\ [][Next]_vars

(* main and the goroutines of Deployments run and their requests are       *)
(* answered.  Nothing is assumed of the goroutines of StatefulSets: they   *)
(* may wait for an answer for ever, with or without their lock.            *)
FairSpec ==
  /\ Spec
  /\ WF_vars(SetRole)
  /\ \A w \in Deployments : WF_vars(WatchDeployment(w))

-----------------------------------------------------------------------------
(* Properties *)

(* main never holds both deployments.mu and statefulsets.mu, and never     *)
(* waits for one of them with the other in its hands.                      *)
OneLockAtATime ==
  /\ dMu = Main => sReg.at = "next"
  /\ sMu = Main => dReg.at = "next"

(* What GroupsExact says of deployments.groups holds of                    *)
(* statefulsets.groups, and likewise for the lock.                         *)
StatefulsetsExact == Statefulset!GroupsExact /\ Statefulset!LockHeld

(* A Deployment that is released leaves its registry even if every request *)
(* about StatefulSets is stuck and main with it.                           *)
ReleaseUndisturbed ==
  \A w \in Deployments :
    dWatch[w].pc = "lock" ~> ~Deployment!InGroups(w) /\ dWatch[w].pc = "wait"
=============================================================================
