------------------------------ MODULE ScaleUp -------------------------------
(***************************************************************************)
(* The SCALE_UP pass of a Deployment: scaleupinspection and the            *)
(* resourcesApply it ends in, for several watchers of one object.          *)
(*                                                                         *)
(* A pass reads the object, takes the readings of the pods it lists, and   *)
(* may redefine the requests and limits of the container in the copy it    *)
(* read.  The copy is then written by a call of ReplicaScale (op "apply"), *)
(* which sends it again, unchanged, after a conflict.                      *)
(*                                                                         *)
(* Registration, the registry and its lock are those of DeploymentWatch    *)
(* and are left out: a release is what it leaves behind, a stopped ticker  *)
(* and perhaps more pods in the list.  The same code is in statefulset.go. *)
(***************************************************************************)
EXTENDS Integers

CONSTANTS
  Watchers,   \* the items with scale_up that name this object
  Outside, Ceiling, Edits, Steps,   \* see ReplicaScale
  Config,     \* Config[w]: the item of izone.yaml that w was made from
  Usages,     \* what the metrics may say of a pod, in milliCPU or MiB
  Amounts,    \* the requests and limits that somebody outside may set
  Unset       \* a resource without request and limit

Kinds == {"cpu", "mem"}

(* LoggingLevel, and LimitCpuUsage and LimitMemoryUsage by their kind.     *)
ConfigType == [level : 1..3, limit : [Kinds -> Int]]

ASSUME ScaleUpAssumption ==
  /\ Outside \notin Watchers
  /\ Ceiling \in Nat
  /\ Edits \subseteq Nat
  /\ Steps \in Nat \ {0}
  /\ Config \in [Watchers -> ConfigType]
  /\ Usages \subseteq Nat
  /\ 0 \in Usages
  /\ Amounts \subseteq Nat

VARIABLES
  obj, call,  \* the object and the calls on it: see ReplicaScale
  res,        \* res[k]: what the object requests of k, which is its limit
  pass,       \* pass[w]: where w is in its pass
  pods,       \* pods[w]: whether w lists any pod
  timer,      \* timer[w]: the ticker of w and its one-slot channel
  seen,       \* seen[w]: what the copy that this pass read requests, and
              \* whether the API server would still take it
  limit,      \* limit[w]: d.LimitCpuUsage and d.LimitMemoryUsage
  applies     \* applies[w]: passes of w that called resourcesApply, up to 2

vars == <<obj, call, res, pass, pods, timer, seen, limit, applies>>

Scale == INSTANCE ReplicaScale

Places == {"wait", "exists", "inspect", "apply", "report", "alert"}
Resources == [Kinds -> Nat \cup {Unset}]
NoCopy == [res |-> [k \in Kinds |-> Unset], fresh |-> FALSE]

Init ==
  /\ Scale!Init
  /\ res \in [Kinds -> Amounts \cup {Unset}]
  /\ pass = [w \in Watchers |-> "wait"]
  /\ pods \in [Watchers -> BOOLEAN]
  /\ timer = [w \in Watchers |-> [running |-> TRUE, tick |-> FALSE]]
  /\ seen = [w \in Watchers |-> NoCopy]
  /\ limit = [w \in Watchers |-> Config[w].limit]
  /\ applies = [w \in Watchers |-> 0]

Goto(w, place) == pass' = [pass EXCEPT ![w] = place]

-----------------------------------------------------------------------------
Tick(w) ==
  /\ timer[w].running
  /\ ~timer[w].tick
  /\ timer' = [timer EXCEPT ![w].tick = TRUE]
  /\ UNCHANGED <<obj, call, res, pass, pods, seen, limit, applies>>

TakeTick(w) ==
  /\ pass[w] = "wait"
  /\ timer[w].tick
  /\ timer' = [timer EXCEPT ![w].tick = FALSE]
  /\ Goto(w, "exists")
  /\ UNCHANGED <<obj, call, res, pods, seen, limit, applies>>

Exists(w) ==
  /\ pass[w] = "exists"
  /\ obj.exists
  /\ Goto(w, "inspect")
  /\ seen' = [seen EXCEPT ![w] = [res |-> res, fresh |-> TRUE]]
  /\ UNCHANGED <<obj, call, res, pods, timer, limit, applies>>

(* "clear": release() stops the ticker, refresh() appends the pods it      *)
(* finds, if it finds any, to those that are listed.                       *)
ExistsFails(w) ==
  /\ pass[w] = "exists"
  /\ timer' = [timer EXCEPT ![w].running = FALSE]
  /\ \E found \in BOOLEAN : pods' = [pods EXCEPT ![w] = @ \/ found]
  /\ Goto(w, "wait")
  /\ UNCHANGED <<obj, call, res, seen, limit, applies>>

(* The send on d.errCh, which nobody receives. *)
FindsAbnormal(w) ==
  /\ pass[w] = "inspect"
  /\ pods[w]
  /\ Goto(w, "alert")
  /\ UNCHANGED <<obj, call, res, pods, timer, seen, limit, applies>>

(* The sets of readings that the loop over the pods may meet.  At level 3  *)
(* replicaInspection returns before it reads any usage.                    *)
Readings(w) ==
  IF ~pods[w] THEN {{}}
  ELSE IF Config[w].level = 3 THEN {{0}}
  ELSE (SUBSET Usages) \ {{}}

(* curCpu and curMemory start at 0 and are replaced by smaller readings.   *)
Least(n, readings) ==
  /\ n \in readings \cup {0}
  /\ \A r \in readings \cup {0} : n <= r

(* int64(float64(cur) * 1.2) *)
Grown(n) == (6 * n) \div 5

Above(w, cur) == {k \in Kinds : cur[k] > limit[w][k]}

Measured(w, did) ==
  applies' = [applies EXCEPT ![w] = IF did /\ @ < 2 THEN @ + 1 ELSE @]

SameLimitsMutant(w, cur) == UNCHANGED limit

(* The limit becomes the reading, before anything is written. *)
RaiseLimits(w, cur) ==
  limit' = [limit EXCEPT ![w] =
              [k \in Kinds |-> IF k \in Above(w, cur) THEN cur[k] ELSE @[k]]]

(* Something is above its limit: the copy is changed and handed to         *)
(* resourcesApply.  The third `if' of the code, for both kinds at once,    *)
(* never holds, since the first two have moved the limits.                 *)
Redefines(w, cur) ==
  /\ Above(w, cur) # {}
  /\ seen' = [seen EXCEPT ![w].res =
                [k \in Kinds |-> IF k \in Above(w, cur) THEN Grown(cur[k])
                                 ELSE @[k]]]
  /\ RaiseLimits(w, cur)
  /\ Scale!BeginApply(w, seen[w].fresh)
  /\ Goto(w, "apply")

Keeps(w, cur) ==
  /\ Above(w, cur) = {}
  /\ Goto(w, "report")
  /\ UNCHANGED <<obj, call, seen, limit>>

Inspects(w) ==
  /\ pass[w] = "inspect"
  /\ \E usage \in [Kinds -> Readings(w)] :
       \E cur \in [Kinds -> UNION {usage[k] : k \in Kinds} \cup {0}] :
         /\ \A k \in Kinds : Least(cur[k], usage[k])
         /\ Redefines(w, cur) \/ Keeps(w, cur)
         /\ Measured(w, Above(w, cur) # {})
  /\ UNCHANGED <<res, pods, timer>>

(* The copies of everybody else are out of date once w has written. *)
Calling(w) ==
  /\ Scale!Answer(w)
  /\ IF call'[w].wrote > call[w].wrote
     THEN /\ res' = seen[w].res
          /\ seen' = [x \in Watchers |-> [seen[x] EXCEPT !.fresh = FALSE]]
     ELSE UNCHANGED <<res, seen>>
  /\ UNCHANGED <<pass, pods, timer, limit, applies>>

(* The error of resourcesApply, if any, is wording in the report. *)
Applied(w) ==
  /\ pass[w] = "apply"
  /\ Scale!Return(w)
  /\ Goto(w, "report")
  /\ UNCHANGED <<res, pods, timer, seen, limit, applies>>

(* One report or two; the local variables are gone. *)
Reports(w) ==
  /\ pass[w] = "report"
  /\ Goto(w, "wait")
  /\ seen' = [seen EXCEPT ![w] = NoCopy]
  /\ UNCHANGED <<obj, call, res, pods, timer, limit, applies>>

(* Others edit the object, perhaps one of its resources, delete it, create *)
(* it.                                                                     *)
Cluster ==
  /\ Scale!Cluster
  /\ \E k \in Kinds : \E amount \in Amounts \cup {Unset, res[k]} :
       res' = [res EXCEPT ![k] = amount]
  /\ seen' = [w \in Watchers |-> [seen[w] EXCEPT !.fresh = FALSE]]
  /\ UNCHANGED <<pass, pods, timer, limit, applies>>

Next ==
  \/ \E w \in Watchers :
       \/ Tick(w) \/ TakeTick(w)
       \/ Exists(w) \/ ExistsFails(w)
       \/ FindsAbnormal(w) \/ Inspects(w)
       \/ Calling(w) \/ Applied(w)
       \/ Reports(w)
  \/ Cluster

Spec == Init /\ [][Next]_vars

-----------------------------------------------------------------------------
(* Properties *)

TypeOK ==
  /\ Scale!TypeOK
  /\ res \in Resources
  /\ pass \in [Watchers -> Places]
  /\ pods \in [Watchers -> BOOLEAN]
  /\ timer \in [Watchers -> [running : BOOLEAN, tick : BOOLEAN]]
  /\ seen \in [Watchers -> [res : Resources, fresh : BOOLEAN]]
  /\ limit \in [Watchers -> [Kinds -> Int]]
  /\ applies \in [Watchers -> 0..2]

(* A watcher calls resourcesApply in one pass of its life at most: the     *)
(* limits are raised before the call, and stay so when it fails.           *)
AppliesOnce == \A w \in Watchers : applies[w] <= 1

(* A limit never falls, whichever of the two the pass has raised.          *)
LimitsRise ==
  [][\A w \in Watchers, k \in Kinds : limit'[w][k] >= limit[w][k]]_vars

(* An Update by a watcher changes only the resources its pass found above  *)
(* their limits: it takes back nobody's edit of the other resource or of   *)
(* the count, although resourcesApply sends one old copy again and again.  *)
TakesNothingBack ==
  [][\A w \in Watchers :
       call'[w].wrote > call[w].wrote =>
         /\ obj'.replicas = obj.replicas
         /\ \A k \in Kinds :
              res'[k] # res[k] => limit[w][k] > Config[w].limit[k]]_vars

(* A watcher whose limits are 0 or more never writes the object, whatever  *)
(* its replicas use: what it compares with the limits starts at 0 and only *)
(* falls (lines 538-556).  The comment above scaleupinspection (522-528)   *)
(* says the opposite: that the resources grow when one replica needs more. *)
QuietWithLimits ==
  \A w \in Watchers :
    (\A k \in Kinds : Config[w].limit[k] >= 0) => obj.by # w

=============================================================================
