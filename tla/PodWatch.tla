------------------------------ MODULE PodWatch ------------------------------
(***************************************************************************)
(* The Pods and the nodes that IZONE watches, the main goroutine that      *)
(* registers them and the publisher they all report to.                    *)
(*                                                                         *)
(* The goroutine of a Pod makes a pass at every tick; any error of the     *)
(* pass, an abnormal phase included, releases the Pod: its ticker stops    *)
(* and it leaves pods.groups, under pods.mu.  The goroutine of a node item *)
(* only reports, for ever, and is in no registry.                          *)
(*                                                                         *)
(* Whether a process that is down is started again is not IZONE's          *)
(* business; it would begin at Init.                                       *)
(***************************************************************************)
EXTENDS Naturals, Sequences, SequencesExt

CONSTANTS
  Pods, Nodes,  \* the items of izone.yaml, by their type
  Level,        \* Level[p]: logging_level of p
  Nobody,       \* see Publisher
  Main, Free    \* the main goroutine; pods.mu when nobody holds it

Items == Pods \cup Nodes

ASSUME PodAssumption ==
  /\ Pods \cap Nodes = {}
  /\ Level \in [Pods -> 1..3]
  /\ Nobody \notin Items
  /\ Main # Free
  /\ {Main, Free} \cap Items = {}

VARIABLES
  up, waiting, posting, taken,  \* see Publisher
  at,         \* at[x]: where the goroutine of x is
  timer,      \* timer[x]: the ticker of x and its one-slot channel
  recorded,   \* recorded[p]: archive.Status is not "" any more
  groups,     \* pods.groups
  mu,         \* who holds pods.mu
  reg,        \* where main is in SetRole: the place, the item, those left
  alerts      \* alerts[p]: history, the forms of level ERROR sent for p,
              \* counted to 3

slack == <<up, waiting, posting, taken>>
watch == <<at, timer, recorded, groups, mu, reg, alerts>>
vars == <<slack, watch>>

Slack == INSTANCE Publisher WITH Senders <- Items

(* In "report" and "alert" the goroutine is in its send; "lock" and        *)
(* "remove" are release().                                                 *)
NodePlaces == {"none", "wait", "inspect", "report"}
Places == NodePlaces \cup {"alert", "lock", "remove"}

Init ==
  /\ Slack!Init
  /\ at = [x \in Items |-> "none"]
  /\ timer = [x \in Items |-> [running |-> FALSE, tick |-> FALSE]]
  /\ recorded = [p \in Pods |-> FALSE]
  /\ groups = <<>>
  /\ mu = Free
  /\ reg = [at |-> "next", who |-> Main, left |-> Items]
  /\ alerts = [p \in Pods |-> 0]

(* Nobody is anywhere in a process that is down. *)
At(x, place) == up /\ at[x] = place
Goto(x, place) == at' = [at EXCEPT ![x] = place]
MainAt(place, x) == up /\ reg.at = place /\ reg.who = x

-----------------------------------------------------------------------------
(* RegisterPods and RegisterNode, called by SetRole for one item after     *)
(* another, in any order                                                   *)

(* The next item. *)
Takes(x) == MainAt("next", Main) /\ x \in reg.left

RegisterFails(p) ==
  /\ Takes(p)
  /\ reg' = [reg EXCEPT !.left = @ \ {p}]
  /\ UNCHANGED <<slack, at, timer, recorded, groups, mu, alerts>>

RegisterExists(p) ==
  /\ Takes(p)
  /\ reg' = [at |-> "lock", who |-> p, left |-> reg.left \ {p}]
  /\ UNCHANGED <<slack, at, timer, recorded, groups, mu, alerts>>

RegisterLocks(p) ==
  /\ MainAt("lock", p)
  /\ mu = Free
  /\ mu' = Main
  /\ reg' = [reg EXCEPT !.at = "start"]
  /\ UNCHANGED <<slack, at, timer, recorded, groups, alerts>>

(* A ticker, and the goroutine that waits for it. *)
Starts(x) ==
  /\ timer' = [timer EXCEPT ![x].running = TRUE]
  /\ Goto(x, "wait")

Timerstart(p) ==
  /\ MainAt("start", p)
  /\ Starts(p)
  /\ reg' = [reg EXCEPT !.at = "append"]
  /\ UNCHANGED <<slack, recorded, groups, mu, alerts>>

RegisterAppends(p) ==
  /\ MainAt("append", p)
  /\ groups' = Append(groups, p)
  /\ mu' = Free
  /\ reg' = [reg EXCEPT !.at = "next", !.who = Main]
  /\ UNCHANGED <<slack, at, timer, recorded, alerts>>

RegisterNode(n) ==
  /\ Takes(n)
  /\ Starts(n)
  /\ reg' = [reg EXCEPT !.left = @ \ {n}]
  /\ UNCHANGED <<slack, recorded, groups, mu, alerts>>

RegisterPod(p) ==
  \/ RegisterFails(p) \/ RegisterExists(p)
  \/ RegisterLocks(p) \/ Timerstart(p) \/ RegisterAppends(p)

-----------------------------------------------------------------------------
(* A pass *)

(* A ticker that finds its slot full drops the tick. *)
Tick(x) ==
  /\ up
  /\ timer[x].running
  /\ ~timer[x].tick
  /\ timer' = [timer EXCEPT ![x].tick = TRUE]
  /\ UNCHANGED <<slack, at, recorded, groups, mu, reg, alerts>>

TakeTick(x) ==
  /\ At(x, "wait")
  /\ timer[x].tick
  /\ timer' = [timer EXCEPT ![x].tick = FALSE]
  /\ Goto(x, "inspect")
  /\ UNCHANGED <<slack, recorded, groups, mu, reg, alerts>>

(* A release whose first line is missing. *)
KeepTickingMutant(p) ==
  /\ Goto(p, "lock")
  /\ UNCHANGED timer

(* release() begins by stopping the ticker; a tick already in its slot     *)
(* stays there.                                                            *)
Releases(p) ==
  /\ timer' = [timer EXCEPT ![p].running = FALSE]
  /\ Goto(p, "lock")

(* The Pod or its metrics could not be read. *)
CheckFails(p) ==
  /\ At(p, "inspect")
  /\ Releases(p)
  /\ UNCHANGED <<slack, recorded, groups, mu, reg, alerts>>

(* The lock first, and then the report. *)
AlertLockedMutant(p) ==
  /\ At(p, "inspect")
  /\ mu = Free
  /\ mu' = p
  /\ Slack!Offer(p)
  /\ Goto(p, "alert")
  /\ UNCHANGED <<timer, recorded, groups, reg, alerts>>

(* Neither Running nor Completed nor Succeeded. *)
Alerts(p) ==
  /\ At(p, "inspect")
  /\ Slack!Offer(p)
  /\ Goto(p, "alert")
  /\ alerts' = [alerts EXCEPT ![p] = IF @ < 3 THEN @ + 1 ELSE 3]
  /\ UNCHANGED <<timer, recorded, groups, mu, reg>>

(* The form has been received: inspection() returns an error. *)
Alerted(p) ==
  /\ At(p, "alert")
  /\ ~Slack!Blocked(p)
  /\ Releases(p)
  /\ UNCHANGED <<slack, recorded, groups, mu, reg, alerts>>

(* Level 3 is silent, and so is level 2 until there is something to        *)
(* compare with.                                                           *)
Silent(p) == Level[p] = 3 \/ (Level[p] = 2 /\ ~recorded[p])

Records(p) ==
  /\ At(p, "inspect")
  /\ Silent(p)
  /\ recorded' = [recorded EXCEPT ![p] = TRUE]
  /\ Goto(p, "wait")
  /\ UNCHANGED <<slack, timer, groups, mu, reg, alerts>>

(* A report that is sent by a goroutine of its own. *)
SendAsideMutant(p) ==
  /\ At(p, "inspect")
  /\ ~Silent(p)
  /\ Slack!Offer(p)
  /\ recorded' = [recorded EXCEPT ![p] = TRUE]
  /\ Goto(p, "wait")
  /\ UNCHANGED <<timer, groups, mu, reg, alerts>>

Reports(p) ==
  /\ At(p, "inspect")
  /\ ~Silent(p)
  /\ Slack!Offer(p)
  /\ Goto(p, "report")
  /\ UNCHANGED <<timer, recorded, groups, mu, reg, alerts>>

Reported(p) ==
  /\ At(p, "report")
  /\ ~Slack!Blocked(p)
  /\ recorded' = [recorded EXCEPT ![p] = TRUE]
  /\ Goto(p, "wait")
  /\ UNCHANGED <<slack, timer, groups, mu, reg, alerts>>

Inspection(p) ==
  \/ CheckFails(p)
  \/ Alerts(p) \/ Alerted(p)
  \/ Records(p)
  \/ Reports(p) \/ Reported(p)

Locks(p) ==
  /\ At(p, "lock")
  /\ mu = Free
  /\ mu' = p
  /\ Goto(p, "remove")
  /\ UNCHANGED <<slack, timer, recorded, groups, reg, alerts>>

(* append(groups[:index], groups[index+1:]...) where p is found, nothing   *)
(* when it is not, as in the release after a late pass.                    *)
TakeOut(p) ==
  \/ \E index \in DOMAIN groups :
       /\ groups[index] = p
       /\ groups' = RemoveAt(groups, index)
  \/ /\ \A index \in DOMAIN groups : groups[index] # p
     /\ groups' = groups

Removes(p) ==
  /\ At(p, "remove")
  /\ TakeOut(p)
  /\ mu' = Free
  /\ Goto(p, "wait")
  /\ UNCHANGED <<slack, timer, recorded, reg, alerts>>

Release(p) == Locks(p) \/ Removes(p)

(* A node item that ends at an error, as a Pod does. *)
NodeEndsMutant(n) ==
  /\ At(n, "inspect")
  /\ Releases(n)
  /\ UNCHANGED <<slack, recorded, groups, mu, reg, alerts>>

(* Nodes, metrics and events are listed; whatever fails is left out of the *)
(* report.                                                                 *)
ReportsNode(n) ==
  /\ At(n, "inspect")
  /\ Slack!Offer(n)
  /\ Goto(n, "report")
  /\ UNCHANGED <<timer, recorded, groups, mu, reg, alerts>>

ReportedNode(n) ==
  /\ At(n, "report")
  /\ ~Slack!Blocked(n)
  /\ Goto(n, "wait")
  /\ UNCHANGED <<slack, timer, recorded, groups, mu, reg, alerts>>

-----------------------------------------------------------------------------
Pod(p) == TakeTick(p) \/ Inspection(p) \/ Release(p)
Node(n) == TakeTick(n) \/ ReportsNode(n) \/ ReportedNode(n)
Publish == Slack!Publish /\ UNCHANGED watch

SetRole ==
  \/ \E p \in Pods : RegisterPod(p)
  \/ \E n \in Nodes : RegisterNode(n)

Next ==
  \/ SetRole
  \/ \E x \in Items : Tick(x)
  \/ \E p \in Pods : Pod(p)
  \/ \E n \in Nodes : Node(n)
  \/ Publish

Spec == Init /\ [][Next]_vars

(* main and the goroutines run, and client-go answers.  No POST has to     *)
(* end.                                                                    *)
FairSpec ==
  /\ Spec
  /\ WF_vars(SetRole)
  /\ \A p \in Pods : WF_vars(Pod(p))
  /\ \A n \in Nodes : WF_vars(Node(n))
  /\ WF_vars(Slack!Receive /\ UNCHANGED watch)

-----------------------------------------------------------------------------
(* Properties *)

(* A node item is never released.                                          *)
TypeOK ==
  /\ Slack!TypeOK
  /\ at \in [Items -> Places]
  /\ \A n \in Nodes : at[n] \in NodePlaces
  /\ timer \in [Items -> [running : BOOLEAN, tick : BOOLEAN]]
  /\ recorded \in [Pods -> BOOLEAN]
  /\ groups \in Seq(Pods)
  /\ mu \in Pods \cup {Main, Free}
  /\ reg \in [at : {"next", "lock", "start", "append"},
              who : Pods \cup {Main}, left : SUBSET Items]
  /\ alerts \in [Pods -> 0..3]

InGroups(p) == \E i \in DOMAIN groups : groups[i] = p

(* pods.groups names each Pod whose ticker runs exactly once, from the end *)
(* of its registration to its release, and no other, although a Pod runs,  *)
(* and may be released, before it is appended.                             *)
PodsExact ==
  /\ \A i, j \in DOMAIN groups : groups[i] = groups[j] => i = j
  /\ \A p \in Pods :
       /\ timer[p].running => InGroups(p) \/ reg.who = p
       /\ InGroups(p) => timer[p].running \/ at[p] \in {"lock", "remove"}

(* A Pod that is abnormal is reported as such at most twice, the second    *)
(* time for a tick that was waiting when its ticker was stopped.           *)
TwoAlerts == \A p \in Pods : alerts[p] <= 2

(* Each item has at most one form on its way, so that the publisher serves *)
(* all in turn (see Publisher).                                            *)
FairShare == Slack!FairShare

(* A POST that hangs stops those in their sends and nobody else: whoever   *)
(* holds pods.mu is not among them and can go on and give it back.         *)
HolderCanGo ==
  \/ mu = Main /\ reg.at \in {"start", "append"}
  \/ \E p \in Pods : mu = p /\ at[p] = "remove" /\ ~Slack!Blocked(p)

NeverStuck == mu # Free => HolderCanGo

(* The steps that x has still to make at the most before it waits for its  *)
(* ticker again.                                                           *)
StepsToGo(x) ==
  CASE at[x] = "inspect"             -> 4
    [] at[x] = "alert"               -> 3
    [] at[x] = "lock"                -> 2
    [] at[x] \in {"remove", "report"} -> 1
    [] OTHER                         -> 0

(* Each step of a pass or a release brings it nearer to its end, and no    *)
(* step of another item, of main or of the publisher takes it back.        *)
PassesRunOut ==
  [][\A x \in Items :
       at[x] \notin {"none", "wait"} =>
         IF (x \in Pods /\ Pod(x)) \/ (x \in Nodes /\ Node(x))
         THEN StepsToGo(x)' < StepsToGo(x)
         ELSE StepsToGo(x)' = StepsToGo(x)]_vars

(* Even if Slack never answers, main registers every item, and a Pod that *)
(* has stopped its ticker leaves pods.groups: no goroutine keeps pods.mu   *)
(* while it reports.                                                       *)
RegistryGoesOn ==
  /\ <>(~up \/ (reg.at = "next" /\ reg.left = {}))
  /\ \A p \in Pods : at[p] = "lock" ~> ~up \/ ~InGroups(p)

(* If no POST hangs, every goroutine that reports goes on.                 *)
ReportTaken ==
  []<>(posting = Nobody \/ ~up) =>
    \A x \in Items :
      at[x] \in {"report", "alert"} ~> ~up \/ at[x] \notin {"report", "alert"}
=============================================================================
