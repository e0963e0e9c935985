-------------------------- MODULE DeploymentWatch ---------------------------
(***************************************************************************)
(* The goroutines that watch one Deployment on behalf of k8s/deployment.go *)
(* and the main goroutine that registers them.                             *)
(*                                                                         *)
(* A watcher waits for its ticker and makes one pass per tick: it reads    *)
(* the object, inspects the pods it listed when it was registered, may     *)
(* raise and may lower the replica count through ReplicaScale, and sends   *)
(* its report.  When the object cannot be read it stops its ticker, takes  *)
(* itself out of deployments.groups and lists the pods again; nothing      *)
(* starts it after that.                                                   *)
(*                                                                         *)
(* `over' is the larger of cpuoverflow and memoverflow: the decisions ask  *)
(* only whether one of them reaches a number and whether both are zero.    *)
(* The receivers of channel.ErrCh, channel.WarnCh and slack.Channel take   *)
(* what they are sent and are not modelled here.                           *)
(***************************************************************************)
EXTENDS Integers, Sequences, SequencesExt

CONSTANTS
  Watchers,   \* the Deployments of the registry, all naming the same object
  Outside, Ceiling, Edits, Steps,   \* see ReplicaScale
  Config,     \* Config[w]: the item of izone.yaml that w was made from
  PodCounts,  \* how many pods a List may return
  Horizon,    \* the longest age of an increase that is told apart
  Main,       \* the goroutine that registers the watchers
  Free        \* the value of mu when nobody holds it

(* Config fields: LoggingLevel, MinReplicas, MaxReplicas and               *)
(* ScaleDownInterval; scaleOut chooses SCALE_OUT over NORMAL, and          *)
(* belowZero says that LimitCpuUsage or LimitMemoryUsage is below 0.       *)
ConfigType == [scaleOut : BOOLEAN, level : 1..3, min : Int, max : Int,
               downInterval : Nat, belowZero : BOOLEAN]

ASSUME WatchAssumption ==
  /\ Outside \notin Watchers
  /\ Ceiling \in Nat
  /\ Edits \subseteq Nat
  /\ Steps \in Nat \ {0}
  /\ Config \in [Watchers -> ConfigType]
  /\ PodCounts \subseteq Nat
  /\ Horizon \in Nat
  /\ \A w \in Watchers : Config[w].downInterval <= Horizon
  /\ Main \notin Watchers /\ Free \notin Watchers /\ Main # Free

VARIABLES
  obj, call,  \* the object and the watchers' calls: see ReplicaScale
  watch,      \* watch[w]: where w is in its pass and what it keeps
  timer,      \* timer[w]: the ticker of w and its one-slot channel
  groups,     \* deployments.groups
  mu,         \* the holder of deployments.mu
  reg,        \* what main is doing
  age,        \* age[w]: the time since archive.Mediate
  hist        \* hist[w]: history of w, for the properties only

vars == <<obj, call, watch, timer, groups, mu, reg, age, hist>>

Scale == INSTANCE ReplicaScale

(* "alert" is the send on the unbuffered d.errCh, whose only receivers are *)
(* further down in the same goroutine: no step leads out of it.            *)
(* `replica' is archive.Replica, which outlives the pass; `pre' and        *)
(* `changed' are preCommitReplica and changesrc.                           *)
PassPlaces == {"exists", "inspect", "raise", "weigh", "lower", "report"}
ReleasePlaces == {"lock", "remove", "relock", "relist"}
Places == {"none", "wait", "alert"} \cup PassPlaces \cup ReleasePlaces

WatchType == [pc : Places, list : Nat, over : Nat, replica : Int, pre : Int,
              changed : BOOLEAN, todo : 0..2]

(* `known': the count is what a pass of w last saw or made it, as far as w *)
(* can tell; `kept': it was so when this pass began; `did': the calls of   *)
(* this pass; `late': the passes begun by a watcher that is out of the     *)
(* registry, counted to 2; `sinceUp': the time since an increase of w      *)
(* returned nil.                                                           *)
HistType == [known : BOOLEAN, kept : BOOLEAN, did : SUBSET {"inc", "dec"},
             late : 0..2, sinceUp : 0..Horizon]

Init ==
  /\ Scale!Init
  /\ watch = [w \in Watchers |-> [pc |-> "none", list |-> 0, over |-> 0,
                                  replica |-> 0, pre |-> 0, changed |-> FALSE,
                                  todo |-> 0]]
  /\ timer = [w \in Watchers |-> [running |-> FALSE, tick |-> FALSE]]
  /\ groups = <<>>
  /\ mu = Free
  /\ reg = [at |-> "next", who |-> Main, left |-> Watchers]
  /\ age = [w \in Watchers |-> Horizon]
  /\ hist = [w \in Watchers |-> [known |-> FALSE, kept |-> FALSE, did |-> {},
                                 late |-> 0, sinceUp |-> Horizon]]

At(w, pc) == watch[w].pc = pc
Goto(w, pc) == watch' = [watch EXCEPT ![w].pc = pc]

-----------------------------------------------------------------------------
(* RegisterDeployments, called by main for one item after another.  The    *)
(* items are the entries of a Go map: any order.                           *)

(* Not found, or the object or its pods could not be read. *)
RegisterFails(w) ==
  /\ reg.at = "next"
  /\ w \in reg.left
  /\ reg' = [reg EXCEPT !.left = @ \ {w}]
  /\ UNCHANGED <<obj, call, watch, timer, groups, mu, age, hist>>

RegisterLists(w, n) ==
  /\ reg.at = "next"
  /\ w \in reg.left
  /\ obj.exists
  /\ reg' = [at |-> "lock", who |-> w, left |-> reg.left \ {w}]
  /\ watch' = [watch EXCEPT ![w].list = @ + n]
  /\ UNCHANGED <<obj, call, timer, groups, mu, age, hist>>

NoLockMutant(w) ==
  /\ reg.at = "lock"
  /\ reg.who = w
  /\ reg' = [reg EXCEPT !.at = "start"]
  /\ UNCHANGED <<obj, call, watch, timer, groups, mu, age, hist>>

RegisterLocks(w) ==
  /\ reg.at = "lock"
  /\ reg.who = w
  /\ mu = Free
  /\ mu' = Main
  /\ reg' = [reg EXCEPT !.at = "start"]
  /\ UNCHANGED <<obj, call, watch, timer, groups, age, hist>>

(* timestart: a ticker and the goroutine that waits for it. *)
Timestart(w) ==
  /\ reg.at = "start"
  /\ reg.who = w
  /\ timer' = [timer EXCEPT ![w].running = TRUE]
  /\ reg' = [reg EXCEPT !.at = "append"]
  /\ Goto(w, "wait")
  /\ UNCHANGED <<obj, call, groups, mu, age, hist>>

KeepLockMutant(w) ==
  /\ reg.at = "append"
  /\ reg.who = w
  /\ groups' = Append(groups, w)
  /\ reg' = [reg EXCEPT !.at = "next", !.who = Main]
  /\ UNCHANGED <<obj, call, watch, timer, mu, age, hist>>

RegisterAppends(w) ==
  /\ reg.at = "append"
  /\ reg.who = w
  /\ groups' = Append(groups, w)
  /\ mu' = Free
  /\ reg' = [reg EXCEPT !.at = "next", !.who = Main]
  /\ UNCHANGED <<obj, call, watch, timer, age, hist>>

Register(w) ==
  \/ RegisterFails(w)
  \/ \E n \in PodCounts : RegisterLists(w, n)
  \/ RegisterLocks(w)
  \/ Timestart(w)
  \/ RegisterAppends(w)

-----------------------------------------------------------------------------
(* Time *)

(* A ticker that finds its slot full drops the tick. *)
Tick(w) ==
  /\ timer[w].running
  /\ ~timer[w].tick
  /\ timer' = [timer EXCEPT ![w].tick = TRUE]
  /\ UNCHANGED <<obj, call, watch, groups, mu, reg, age, hist>>

Older(t) == IF t < Horizon THEN t + 1 ELSE Horizon

Elapse ==
  /\ \E w \in Watchers : age[w] < Horizon \/ hist[w].sinceUp < Horizon
  /\ age' = [w \in Watchers |-> Older(age[w])]
  /\ hist' = [w \in Watchers |->
                [hist[w] EXCEPT !.sinceUp = Older(@)]]
  /\ UNCHANGED <<obj, call, watch, timer, groups, mu, reg>>

-----------------------------------------------------------------------------
(* One pass *)

InGroups(w) == \E i \in DOMAIN groups : groups[i] = w

(* w has left the registry (an item about to be appended has yet to come). *)
Gone(w) == ~InGroups(w) /\ reg.who # w

TakeTick(w) ==
  /\ At(w, "wait")
  /\ timer[w].tick
  /\ timer' = [timer EXCEPT ![w].tick = FALSE]
  /\ Goto(w, "exists")
  /\ hist' = [hist EXCEPT ![w].late = IF Gone(w) /\ @ < 2
                                      THEN @ + 1 ELSE @]
  /\ UNCHANGED <<obj, call, groups, mu, reg, age>>

(* exists().  A pass that scales puts archive.Replica by for its report    *)
(* and replaces it by the count it has read; an inspection() without       *)
(* scaling replaces it by the number of listed pods.                       *)
Sees(w, replica, pre) ==
  watch' = [watch EXCEPT ![w].pc = "inspect", ![w].replica = replica,
                         ![w].pre = pre]

Exists(w) ==
  /\ At(w, "exists")
  /\ obj.exists
  /\ IF Config[w].scaleOut THEN Sees(w, obj.replicas, watch[w].replica)
                           ELSE Sees(w, watch[w].list, 0)
  /\ hist' = [hist EXCEPT ![w].kept = hist[w].known,
                          ![w].known = Config[w].scaleOut]
  /\ UNCHANGED <<obj, call, timer, groups, mu, reg, age>>

KeepTickingMutant(w) ==
  /\ At(w, "exists")
  /\ Goto(w, "lock")
  /\ UNCHANGED <<obj, call, timer, groups, mu, reg, age, hist>>

(* Any error, not only `not found', is "clear", and release() begins by    *)
(* stopping the ticker; a tick already in its slot stays there.            *)
ExistsFails(w) ==
  /\ At(w, "exists")
  /\ timer' = [timer EXCEPT ![w].running = FALSE]
  /\ Goto(w, "lock")
  /\ UNCHANGED <<obj, call, groups, mu, reg, age, hist>>

(* replicaInspection fails for a listed pod: gone, not running, or without *)
(* metrics.                                                                *)
FindsAbnormal(w) ==
  /\ At(w, "inspect")
  /\ watch[w].list > 0
  /\ Goto(w, "alert")
  /\ UNCHANGED <<obj, call, timer, groups, mu, reg, age, hist>>

(* Every pod is over a limit below 0.  Else none is at level 3, where      *)
(* replicaInspection returns before it reads any usage.                    *)
Overloads(w) ==
  {over \in 0..watch[w].list :
     /\ Config[w].scaleOut /\ Config[w].belowZero => over = watch[w].list
     /\ ~Config[w].scaleOut => over = 0
     /\ Config[w].level = 3 /\ ~Config[w].belowZero => over = 0}

(* The first decision: with one pod to spare, or with fewer than           *)
(* MinReplicas, one more is wanted.                                        *)
WantsMore(w, over) ==
  /\ Config[w].scaleOut
  /\ watch[w].list - 1 <= over \/ watch[w].list <= Config[w].min
  /\ watch[w].list < Config[w].max

(* The second decision, after the first has been acted on. *)
WantsLessMutant(w) ==
  /\ watch[w].over = 0
  /\ watch[w].list >= Config[w].min
  /\ age[w] >= Config[w].downInterval

WantsLess(w) ==
  /\ watch[w].over = 0
  /\ watch[w].list > Config[w].min
  /\ age[w] >= Config[w].downInterval

(* Start increaseReplica or decreaseReplica. *)
Starts(w, op) ==
  /\ Scale!Begin(w, op)
  /\ hist' = [hist EXCEPT ![w].did = @ \cup {op}]
  /\ UNCHANGED <<timer, groups, mu, reg, age>>

Inspected(w, over, pc) ==
  /\ At(w, "inspect")
  /\ watch' = [watch EXCEPT ![w] =
                 [@ EXCEPT !.pc = pc, !.over = over,
                           !.todo = IF Config[w].level = 2 THEN 2 ELSE 1]]

Raises(w, over) ==
  /\ WantsMore(w, over)
  /\ Inspected(w, over, "raise")
  /\ Starts(w, "inc")

RaisesNot(w, over) ==
  /\ ~WantsMore(w, over)
  /\ Inspected(w, over, IF Config[w].scaleOut THEN "weigh" ELSE "report")
  /\ UNCHANGED <<obj, call, timer, groups, mu, reg, age, hist>>

(* Nobody but w has changed the count in this step, and w knows if it did. *)
StillKnown(x, w) ==
  obj'.replicas = obj.replicas \/ (x = w /\ call'[w].at = "ok")

(* A request of the call under way is answered. *)
Calling(w) ==
  /\ Scale!Answer(w)
  /\ hist' = [x \in Watchers |->
                [hist[x] EXCEPT !.known = @ /\ StillKnown(x, w)]]
  /\ UNCHANGED <<watch, timer, groups, mu, reg, age>>

Succeeded(w) == call[w].at = "ok"

(* archive.Replica and changesrc, after a call that returned nil.          *)
Changes(w, pc, by) ==
  watch' = [watch EXCEPT ![w].pc = pc,
              ![w].replica = IF Succeeded(w) THEN @ + by ELSE @,
              ![w].changed = @ \/ Succeeded(w)]

ForgetMediateMutant(w) ==
  /\ At(w, "raise")
  /\ Scale!Return(w)
  /\ Changes(w, "weigh", 1)
  /\ hist' = [hist EXCEPT ![w].sinceUp = IF Succeeded(w) THEN 0 ELSE @]
  /\ UNCHANGED <<timer, groups, mu, reg, age>>

InsistMutant(w) ==
  /\ At(w, "raise")
  /\ Scale!Return(w)
  /\ Goto(w, IF Succeeded(w) THEN "weigh" ELSE "inspect")
  /\ UNCHANGED <<timer, groups, mu, reg, age, hist>>

Raised(w) ==
  /\ At(w, "raise")
  /\ Scale!Return(w)
  /\ Changes(w, "weigh", 1)
  /\ age' = [age EXCEPT ![w] = IF Succeeded(w) THEN 0 ELSE @]
  /\ hist' = [hist EXCEPT ![w].sinceUp = IF Succeeded(w) THEN 0 ELSE @]
  /\ UNCHANGED <<timer, groups, mu, reg>>

Lowers(w) ==
  /\ At(w, "weigh")
  /\ WantsLess(w)
  /\ Starts(w, "dec")
  /\ Goto(w, "lower")

LowersNot(w) ==
  /\ At(w, "weigh")
  /\ ~WantsLess(w)
  /\ Goto(w, "report")
  /\ UNCHANGED <<obj, call, timer, groups, mu, reg, age, hist>>

Lowered(w) ==
  /\ At(w, "lower")
  /\ Scale!Return(w)
  /\ Changes(w, "report", -1)
  /\ UNCHANGED <<timer, groups, mu, reg, age, hist>>

(* One send to slack.Channel.  d.errCh is empty whenever a pass gets here, *)
(* so the report is never the one with the [ERROR] lines.                  *)
Reports(w) ==
  /\ At(w, "report")
  /\ watch[w].todo > 1
  /\ watch' = [watch EXCEPT ![w].todo = @ - 1]
  /\ UNCHANGED <<obj, call, timer, groups, mu, reg, age, hist>>

ForgetCountMutant(w) ==
  /\ At(w, "report")
  /\ watch[w].todo = 1
  /\ watch' = [watch EXCEPT ![w] = [@ EXCEPT !.pc = "wait", !.over = 0,
                              !.replica = 0, !.pre = 0, !.changed = FALSE,
                              !.todo = 0]]
  /\ hist' = [hist EXCEPT ![w].kept = FALSE, ![w].did = {}]
  /\ UNCHANGED <<obj, call, timer, groups, mu, reg, age>>

(* The last send of the pass.  The local variables are gone;               *)
(* archive.Replica stays, and is what the next pass takes for the count    *)
(* before its own change.                                                  *)
ReportsLast(w) ==
  /\ At(w, "report")
  /\ watch[w].todo = 1
  /\ watch' = [watch EXCEPT ![w] = [@ EXCEPT !.pc = "wait", !.over = 0,
                              !.pre = 0, !.changed = FALSE, !.todo = 0]]
  /\ hist' = [hist EXCEPT ![w].kept = FALSE, ![w].did = {}]
  /\ UNCHANGED <<obj, call, timer, groups, mu, reg, age>>

Pass(w) ==
  \/ Exists(w) \/ ExistsFails(w)
  \/ FindsAbnormal(w)
  \/ \E over \in Overloads(w) : Raises(w, over) \/ RaisesNot(w, over)
  \/ Raised(w)
  \/ Lowers(w) \/ LowersNot(w) \/ Lowered(w)
  \/ Calling(w)
  \/ Reports(w) \/ ReportsLast(w)

-----------------------------------------------------------------------------
(* release() and the refresh() that follows it *)

Locks(w) ==
  /\ mu = Free
  /\ \/ At(w, "lock") /\ Goto(w, "remove")
     \/ At(w, "relock") /\ Goto(w, "relist")
  /\ mu' = w
  /\ UNCHANGED <<obj, call, timer, groups, reg, age, hist>>

(* append(groups[:index], groups[index+1:]...) where w is found, nothing   *)
(* when it is not, as in the release after a late pass.                    *)
Removes(w) ==
  /\ At(w, "remove")
  /\ \/ \E index \in DOMAIN groups :
          /\ groups[index] = w
          /\ groups' = RemoveAt(groups, index)
     \/ /\ \A index \in DOMAIN groups : groups[index] # w
        /\ groups' = groups
  /\ mu' = Free
  /\ Goto(w, "relock")
  /\ UNCHANGED <<obj, call, timer, reg, age, hist>>

NoUnlockMutant(w) ==
  /\ At(w, "relist")
  /\ Goto(w, "wait")
  /\ UNCHANGED <<obj, call, timer, groups, mu, reg, age, hist>>

RelistFails(w) ==
  /\ At(w, "relist")
  /\ mu' = Free
  /\ Goto(w, "wait")
  /\ UNCHANGED <<obj, call, timer, groups, reg, age, hist>>

(* joinreplicas appends the pods it finds to the list that is there. *)
Relists(w, n) ==
  /\ At(w, "relist")
  /\ obj.exists
  /\ mu' = Free
  /\ watch' = [watch EXCEPT ![w].list = @ + n, ![w].pc = "wait"]
  /\ UNCHANGED <<obj, call, timer, groups, reg, age, hist>>

Release(w) ==
  \/ Locks(w) \/ Removes(w)
  \/ RelistFails(w)
  \/ \E n \in PodCounts : Relists(w, n)

-----------------------------------------------------------------------------
(* Everybody else who writes the object *)

Cluster ==
  /\ Scale!Cluster
  /\ hist' = [x \in Watchers |->
                [hist[x] EXCEPT !.known = @ /\ obj'.replicas = obj.replicas]]
  /\ UNCHANGED <<watch, timer, groups, mu, reg, age>>

(* The goroutine of timestart. *)
Goroutine(w) == TakeTick(w) \/ Pass(w) \/ Release(w)

Next ==
  \/ \E w \in Watchers : Register(w) \/ Tick(w) \/ Goroutine(w)
  \/ Elapse
  \/ Cluster

Spec == Init /\ [][Next]_vars

(* The goroutines run and every request they make is answered.  Nothing    *)
(* makes the cluster change the object, and no ticker has to tick.         *)
Fairness ==
  /\ WF_vars(\E w \in Watchers : Register(w))
  /\ \A w \in Watchers : WF_vars(Goroutine(w))

FairSpec == Spec /\ Fairness

-----------------------------------------------------------------------------
(* Properties *)

TypeOK ==
  /\ Scale!TypeOK
  /\ watch \in [Watchers -> WatchType]
  /\ timer \in [Watchers -> [running : BOOLEAN, tick : BOOLEAN]]
  /\ groups \in Seq(Watchers)
  /\ mu \in Watchers \cup {Main, Free}
  /\ reg \in [at : {"next", "lock", "start", "append"},
              who : Watchers \cup {Main}, left : SUBSET Watchers]
  /\ age \in [Watchers -> 0..Horizon]
  /\ hist \in [Watchers -> HistType]

(* deployments.groups names each watcher whose ticker runs exactly once,   *)
(* from the end of its registration to its release, and no other: not even *)
(* when it is released while it is still being registered.                 *)
GroupsExact ==
  /\ \A i, j \in DOMAIN groups : groups[i] = groups[j] => i = j
  /\ \A w \in Watchers :
       /\ timer[w].running => InGroups(w) \/ reg.who = w
       /\ InGroups(w) => timer[w].running \/ watch[w].pc \in {"lock", "remove"}

(* Only the goroutine that holds deployments.mu is where the lock is       *)
(* needed; in particular no two are, and a watcher that is stuck or        *)
(* waiting never holds it.                                                 *)
LockHeld ==
  /\ \A w \in Watchers : mu = w <=> watch[w].pc \in {"remove", "relist"}
  /\ mu = Main <=> reg.at \in {"start", "append"}

(* A watcher that has been taken out of deployments.groups makes at most   *)
(* one more pass, for the tick that was waiting in the slot.               *)
LatePassBound == \A w \in Watchers : hist[w].late <= 1

(* A pass of a watcher that is to keep at least one replica never raises   *)
(* and lowers the count both.                                              *)
NoBothWays ==
  \A w \in Watchers :
    Config[w].min >= 1 => hist[w].did # {"inc", "dec"}

(* A watcher starts a decrease only when ScaleDownInterval has passed      *)
(* since an increase of its own last returned nil.                         *)
CoolsDown ==
  [][\A w \in Watchers :
       "dec" \in hist'[w].did \ hist[w].did =>
         hist[w].sinceUp >= Config[w].downInterval]_vars

(* What a report says of the count: usage alone when nothing was changed,  *)
(* else `increase replicas pre -> replica', `decrease ...', or neither.    *)
Tells(w) ==
  IF ~watch[w].changed THEN "usage"
  ELSE IF watch[w].pre < watch[w].replica THEN "increase"
  ELSE IF watch[w].pre > watch[w].replica THEN "decrease"
  ELSE "changed"

(* The second count a report names is the count in the cluster, unless     *)
(* somebody else changed it during the pass or the answer to a write of    *)
(* the pass was lost.  The first, carried over from the last pass, is one  *)
(* away from it, on the side of the change that this pass made, unless the *)
(* same has happened since the last pass took its count.  Of a first pass, *)
(* and of one that finds another count than the last left, nothing is said *)
(* here: its first count may be on the wrong side.                         *)
ReportHonest ==
  \A w \in Watchers :
    At(w, "report") /\ Config[w].scaleOut =>
      /\ hist[w].known => watch[w].replica = obj.replicas
      /\ hist[w].kept =>
           LET by == watch[w].replica - watch[w].pre IN
           /\ Tells(w) = "usage" => by = 0
           /\ Tells(w) = "increase" => by = 1 /\ "inc" \in hist[w].did
           /\ Tells(w) = "decrease" => by = -1 /\ "dec" \in hist[w].did

(* A pass that begins ends: back at the ticker, released and relisted, or  *)
(* in the send from which nothing returns.                                 *)
PassEnds ==
  \A w \in Watchers :
    watch[w].pc \in PassPlaces ~> watch[w].pc \in {"wait", "alert"}

(* main works through every Deployment of izone.yaml.  (What comes after a *)
(* MySQL item is not reached: see MysqlHub.)                               *)
RegistrationEnds == <>(reg.at = "next" /\ reg.left = {})

(* A watcher that has stopped its ticker leaves deployments.groups. *)
ReleaseEnds ==
  \A w \in Watchers : At(w, "lock") ~> ~InGroups(w) /\ At(w, "wait")

(* What w needs for its next step is there: the answers of the API server  *)
(* and the receivers of slack.Channel and channel.ErrCh, which are taken   *)
(* for granted here, and deployments.mu where it waits for it.             *)
CanGo(w) ==
  \/ watch[w].pc \in {"exists", "remove", "relist"}
  \/ watch[w].pc \in {"inspect", "weigh"} /\ call[w].at = "idle"
  \/ watch[w].pc \in {"raise", "lower"} /\ call[w].at # "idle"
  \/ At(w, "report") /\ watch[w].todo \in 1..2
  \/ watch[w].pc \in {"lock", "relock"} /\ mu = Free

(* The holder of deployments.mu waits for the API server at the most: it   *)
(* is in no send.                                                          *)
HolderCanGo ==
  \/ mu = Main /\ reg.at \in {"start", "append"}
  \/ \E w \in Watchers : mu = w /\ watch[w].pc \in {"remove", "relist"}

(* A goroutine in a pass or a release waits for nobody but the API server, *)
(* the receivers of its reports and errors, and the holder of              *)
(* deployments.mu; and that one waits for the API server alone.            *)
NeverStuck ==
  /\ mu # Free => HolderCanGo
  /\ \A w \in Watchers :
       watch[w].pc \in PassPlaces \cup ReleasePlaces =>
         CanGo(w) \/ (mu # Free /\ watch[w].pc \in {"lock", "relock"})

(* The steps that w still has to take at the most, the requests of its     *)
(* calls included, before it waits for its ticker again or is stuck.       *)
StepsToGo(w) ==
  LET todo == watch[w].todo
      requests == Scale!Requests(call[w])
      fromWeigh == 2 * Steps + 2 + todo
  IN  CASE At(w, "exists")  -> 4 * Steps + 7
        [] At(w, "inspect") -> 4 * Steps + 6
        [] At(w, "raise")   -> requests + 1 + fromWeigh
        [] At(w, "weigh")   -> fromWeigh
        [] At(w, "lower")   -> requests + 1 + todo
        [] At(w, "report")  -> todo
        [] At(w, "lock")    -> 4
        [] At(w, "remove")  -> 3
        [] At(w, "relock")  -> 2
        [] At(w, "relist")  -> 1
        [] OTHER            -> 0

(* Each step of a pass or a release brings it nearer to its end, and no    *)
(* step of anybody else takes it back: a pass makes 4 * Steps + 7 steps at *)
(* the most, however the object is contended.                              *)
PassesRunOut ==
  [][\A w \in Watchers :
       watch[w].pc \in PassPlaces \cup ReleasePlaces =>
         IF Goroutine(w) THEN StepsToGo(w)' < StepsToGo(w)
                         ELSE StepsToGo(w)' = StepsToGo(w)]_vars

(* The highest count a watcher raises the object to is the ceiling of      *)
(* increaseReplica, whatever the MaxReplicas of its item.                  *)
CeilingKept ==
  [][\A w \in Watchers :
       obj'.by = w /\ obj'.replicas > obj.replicas =>
         obj'.replicas <= Ceiling]_vars

-----------------------------------------------------------------------------
(* What the code says of itself and does not do *)

(* A watcher never raises the count past the MaxReplicas of its item (the  *)
(* maximum that role.go announces).  It compares MaxReplicas with the pods *)
(* it listed when it was registered, not with the count it raises.         *)
MaxReplicasKept ==
  [][\A w \in Watchers :
       obj'.by = w /\ obj'.replicas > obj.replicas =>
         obj'.replicas <= Config[w].max]_vars

(* A pass that finds an abnormal replica reports it.  It cannot: the send  *)
(* on d.errCh waits for a receiver further down in the same goroutine.     *)
AbnormalReported ==
  \A w \in Watchers : At(w, "alert") ~> At(w, "report")
=============================================================================
