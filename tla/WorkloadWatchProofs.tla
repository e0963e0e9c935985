------------------------ MODULE WorkloadWatchProofs -------------------------
(***************************************************************************)
(* Proofs about WorkloadWatch: main has one lock at a time, and what is    *)
(* proved of DeploymentWatch holds of the StatefulSets, whatever the       *)
(* Deployments beside them do.                                             *)
(***************************************************************************)
EXTENDS WorkloadWatch, TLAPS

LEMMA StatefulsetStep ==
  [Next]_vars => [Statefulset!Next]_(Statefulset!vars)
<1> SUFFICES ASSUME [Next]_vars
             PROVE  [Statefulset!Next]_(Statefulset!vars)
  OBVIOUS
<1>0. UNCHANGED svars => UNCHANGED Statefulset!vars
  BY DEF svars, Statefulset!vars
<1>1. CASE SetRole
  BY <1>1, <1>0 DEF SetRole, RegisterDeployments, RegisterStatefulsets,
                    Statefulset!Next
<1>2. ASSUME NEW w \in Deployments, WatchDeployment(w)
      PROVE  UNCHANGED svars
  BY <1>2 DEF WatchDeployment
<1>3. ASSUME NEW w \in Statefulsets, WatchStatefulset(w)
      PROVE  Statefulset!Next
  BY <1>3 DEF WatchStatefulset, PassStatefulset, ReleaseStatefulset,
              InspectStatefulset, ScaleStatefulset, CallStatefulset,
              ReportStatefulset, Statefulset!Next, Statefulset!Goroutine,
              Statefulset!Pass
<1>4. CASE Around
  BY <1>4, <1>0 DEF Around, Statefulset!Next
<1>5. CASE UNCHANGED vars
  BY <1>5, <1>0 DEF vars
<1> QED
  BY <1>0, <1>1, <1>2, <1>3, <1>4, <1>5 DEF Next

(* The StatefulSets are watched as if there were no Deployments. *)
LEMMA WatchesStatefulsets == Spec => Statefulset!Spec
<1>1. Init => Statefulset!Init
  BY DEF Init
<1> QED
  BY <1>1, StatefulsetStep, PTL DEF Spec, Statefulset!Spec

-----------------------------------------------------------------------------
(* The locks of main *)

(* A registration that has begun is of an item of its own kind. *)
RegType ==
  [at : {"next", "lock", "start", "append"},
   who : Deployments \cup Statefulsets \cup {Main},
   left : SUBSET (Deployments \cup Statefulsets)]

(* main is inside one registration at most, and has a lock only in one of  *)
(* its kind.                                                               *)
MainInv ==
  /\ dReg \in RegType /\ sReg \in RegType
  /\ dReg.at = "next" \/ sReg.at = "next"
  /\ dMu = Main => dReg.at # "next"
  /\ sMu = Main => sReg.at # "next"

LEMMA DeploymentRegisters ==
  ASSUME NEW w \in Deployments, dReg \in RegType,
         dMu = Main => dReg.at # "next",
         Deployment!Register(w)
  PROVE  dReg' \in RegType /\ (dMu' = Main => dReg'.at # "next")
<1> USE DEF RegType
<1>1. CASE Deployment!RegisterFails(w)
  BY <1>1 DEF Deployment!RegisterFails
<1>2. CASE \E n \in PodCounts : Deployment!RegisterLists(w, n)
  BY <1>2, WorkloadAssumption DEF Deployment!RegisterLists, WorkloadAssumption
<1>3. CASE Deployment!RegisterLocks(w)
  BY <1>3 DEF Deployment!RegisterLocks
<1>4. CASE Deployment!Timestart(w)
  BY <1>4 DEF Deployment!Timestart
<1>5. CASE Deployment!RegisterAppends(w)
  BY <1>5, WorkloadAssumption
  DEF Deployment!RegisterAppends, WorkloadAssumption
<1> QED
  BY <1>1, <1>2, <1>3, <1>4, <1>5 DEF Deployment!Register

LEMMA DeploymentRuns ==
  ASSUME NEW w \in Deployments, Deployment!Goroutine(w)
  PROVE  dReg' = dReg /\ dMu' \in {dMu, w, Free}
<1>1. CASE Deployment!TakeTick(w)
  BY <1>1 DEF Deployment!TakeTick
<1>2. CASE Deployment!Pass(w)
  BY <1>2 DEF Deployment!Pass, Deployment!Exists, Deployment!ExistsFails,
    Deployment!FindsAbnormal, Deployment!Raises, Deployment!RaisesNot,
    Deployment!Starts, Deployment!Raised, Deployment!Lowers,
    Deployment!LowersNot, Deployment!Lowered, Deployment!Calling,
    Deployment!Reports,
    Deployment!ReportsLast
<1>3. CASE Deployment!Release(w)
  BY <1>3 DEF Deployment!Release, Deployment!Locks, Deployment!Removes,
    Deployment!RelistFails, Deployment!Relists
<1> QED
  BY <1>1, <1>2, <1>3 DEF Deployment!Goroutine

LEMMA StatefulsetRegisters ==
  ASSUME NEW w \in Statefulsets, sReg \in RegType,
         sMu = Main => sReg.at # "next",
         Statefulset!Register(w)
  PROVE  sReg' \in RegType /\ (sMu' = Main => sReg'.at # "next")
<1> USE DEF RegType
<1>1. CASE Statefulset!RegisterFails(w)
  BY <1>1 DEF Statefulset!RegisterFails
<1>2. CASE \E n \in PodCounts : Statefulset!RegisterLists(w, n)
  BY <1>2, WorkloadAssumption DEF Statefulset!RegisterLists, WorkloadAssumption
<1>3. CASE Statefulset!RegisterLocks(w)
  BY <1>3 DEF Statefulset!RegisterLocks
<1>4. CASE Statefulset!Timestart(w)
  BY <1>4 DEF Statefulset!Timestart
<1>5. CASE Statefulset!RegisterAppends(w)
  BY <1>5, WorkloadAssumption
  DEF Statefulset!RegisterAppends, WorkloadAssumption
<1> QED
  BY <1>1, <1>2, <1>3, <1>4, <1>5 DEF Statefulset!Register

LEMMA StatefulsetRuns ==
  ASSUME NEW w \in Statefulsets, Statefulset!Goroutine(w)
  PROVE  sReg' = sReg /\ sMu' \in {sMu, w, Free}
<1>1. CASE Statefulset!TakeTick(w)
  BY <1>1 DEF Statefulset!TakeTick
<1>2. CASE Statefulset!Pass(w)
  BY <1>2 DEF Statefulset!Pass, Statefulset!Exists, Statefulset!ExistsFails,
    Statefulset!FindsAbnormal, Statefulset!Raises, Statefulset!RaisesNot,
    Statefulset!Starts, Statefulset!Raised, Statefulset!Lowers,
    Statefulset!LowersNot, Statefulset!Lowered, Statefulset!Calling,
    Statefulset!Reports,
    Statefulset!ReportsLast
<1>3. CASE Statefulset!Release(w)
  BY <1>3 DEF Statefulset!Release, Statefulset!Locks, Statefulset!Removes,
    Statefulset!RelistFails, Statefulset!Relists
<1> QED
  BY <1>1, <1>2, <1>3 DEF Statefulset!Goroutine

LEMMA MainStep == MainInv /\ [Next]_vars => MainInv'
<1> SUFFICES ASSUME MainInv, [Next]_vars PROVE MainInv'
  OBVIOUS
<1> USE DEF MainInv, dvars, svars
<1>1. ASSUME NEW w \in Deployments, RegisterDeployments(w)
      PROVE  MainInv'
  BY <1>1, DeploymentRegisters DEF RegisterDeployments
<1>2. ASSUME NEW w \in Statefulsets, RegisterStatefulsets(w)
      PROVE  MainInv'
  BY <1>2, StatefulsetRegisters DEF RegisterStatefulsets
<1>3. ASSUME NEW w \in Deployments, WatchDeployment(w)
      PROVE  MainInv'
  BY <1>3, DeploymentRuns, WorkloadAssumption
  DEF WatchDeployment, WorkloadAssumption
<1>4. ASSUME NEW w \in Statefulsets, WatchStatefulset(w)
      PROVE  MainInv'
  <2>1. Statefulset!Goroutine(w) /\ UNCHANGED dvars
    BY <1>4 DEF WatchStatefulset, PassStatefulset, ReleaseStatefulset,
                InspectStatefulset, ScaleStatefulset, CallStatefulset,
                ReportStatefulset, Statefulset!Goroutine, Statefulset!Pass
  <2> QED
    BY <2>1, StatefulsetRuns, WorkloadAssumption DEF WorkloadAssumption
<1>5. CASE Around
  BY <1>5 DEF Around, Deployment!Tick, Deployment!Elapse,
    Deployment!Cluster, Statefulset!Tick, Statefulset!Elapse,
    Statefulset!Cluster
<1>6. CASE UNCHANGED vars
  BY <1>6 DEF vars
<1> QED
  BY <1>1, <1>2, <1>3, <1>4, <1>5, <1>6 DEF Next, SetRole

(* However the items are ordered and whatever their goroutines do, main    *)
(* has one of the two locks at a time and waits for none with the other.   *)
THEOREM OneLockAtATimeAlways == Spec => []OneLockAtATime
<1>1. Init => MainInv
  BY WorkloadAssumption
  DEF WorkloadAssumption, Init, Deployment!Init, Statefulset!Init, MainInv,
      RegType
<1>2. MainInv => OneLockAtATime
  BY DEF MainInv, OneLockAtATime
<1> QED
  BY <1>1, <1>2, MainStep, PTL DEF Spec

-----------------------------------------------------------------------------
(* What is proved of deployment.go, for statefulset.go *)

(* The theorems of DeploymentWatchProofs about the StatefulSets.       *)
StsFacts == INSTANCE DeploymentWatchProofs WITH
  Watchers <- Statefulsets, Config <- [w \in Statefulsets |-> Config[w]],
  obj <- sObj, call <- sCall, watch <- sWatch, timer <- sTimer,
  groups <- sGroups, mu <- sMu, reg <- sReg, age <- sAge, hist <- sHist

LEMMA StatefulsetAssumed ==
  /\ Outside \notin Statefulsets
  /\ Ceiling \in Nat
  /\ Edits \subseteq Nat
  /\ Steps \in Nat \ {0}
  /\ [w \in Statefulsets |-> Config[w]]
       \in [Statefulsets -> StsFacts!ConfigType]
  /\ PodCounts \subseteq Nat
  /\ Horizon \in Nat
  /\ \A w \in Statefulsets :
       [x \in Statefulsets |-> Config[x]][w].downInterval <= Horizon
  /\ Main \notin Statefulsets /\ Free \notin Statefulsets /\ Main # Free
  BY WorkloadAssumption DEF WorkloadAssumption, StsFacts!ConfigType

(* Statefulset and StsFacts instantiate the same definitions: they are the *)
(* same once they are written out.                                         *)
LEMMA SameStatefulsetInit == Statefulset!Init <=> StsFacts!Init
  BY DEF Statefulset!Init, StsFacts!Init, Statefulset!Scale!Init,
    StsFacts!Scale!Init, Statefulset!Scale!NoCall, StsFacts!Scale!NoCall

LEMMA SameCalls ==
  /\ \A w, op : Statefulset!Scale!Begin(w, op) <=> StsFacts!Scale!Begin(w, op)
  /\ \A w : Statefulset!Scale!Answer(w) <=> StsFacts!Scale!Answer(w)
  /\ \A w : Statefulset!Scale!Return(w) <=> StsFacts!Scale!Return(w)
  /\ Statefulset!Scale!Cluster <=> StsFacts!Scale!Cluster
<1>1. ASSUME NEW w, NEW op
      PROVE  Statefulset!Scale!Begin(w, op) <=> StsFacts!Scale!Begin(w, op)
  BY DEF
      Statefulset!Scale!Begin, Statefulset!Scale!Set,
      Statefulset!Scale!NoCall, StsFacts!Scale!Begin, StsFacts!Scale!Set,
      StsFacts!Scale!NoCall
<1>2. ASSUME NEW w
      PROVE  Statefulset!Scale!Answer(w) <=> StsFacts!Scale!Answer(w)
  BY DEF
      Statefulset!Scale!Answer, Statefulset!Scale!GetError,
      Statefulset!Scale!BelowCeiling, Statefulset!Scale!Get,
      Statefulset!Scale!MaxReached, Statefulset!Scale!Accepted,
      Statefulset!Scale!AfterWrite, Statefulset!Scale!Commit,
      Statefulset!Scale!AfterConflict, Statefulset!Scale!Conflict,
      Statefulset!Scale!UpdateError, Statefulset!Scale!Set,
      Statefulset!Scale!Overtaken, Statefulset!Scale!Delta,
      Statefulset!Scale!Running, StsFacts!Scale!Answer,
      StsFacts!Scale!GetError, StsFacts!Scale!BelowCeiling,
      StsFacts!Scale!Get, StsFacts!Scale!MaxReached,
      StsFacts!Scale!Accepted, StsFacts!Scale!AfterWrite,
      StsFacts!Scale!Commit, StsFacts!Scale!AfterConflict,
      StsFacts!Scale!Conflict, StsFacts!Scale!UpdateError,
      StsFacts!Scale!Set, StsFacts!Scale!Overtaken, StsFacts!Scale!Delta,
      StsFacts!Scale!Running
<1>3. ASSUME NEW w
      PROVE  Statefulset!Scale!Return(w) <=> StsFacts!Scale!Return(w)
  BY DEF
      Statefulset!Scale!Return, Statefulset!Scale!Set,
      Statefulset!Scale!NoCall, Statefulset!Scale!Running,
      StsFacts!Scale!Return, StsFacts!Scale!Set, StsFacts!Scale!NoCall,
      StsFacts!Scale!Running
<1>4. Statefulset!Scale!Cluster <=> StsFacts!Scale!Cluster
  BY DEF
      Statefulset!Scale!Cluster, Statefulset!Scale!OutsideWrite,
      Statefulset!Scale!OutsideEdit, Statefulset!Scale!OutsideDelete,
      Statefulset!Scale!OutsideCreate, Statefulset!Scale!Overtaken,
      Statefulset!Scale!Running, StsFacts!Scale!Cluster,
      StsFacts!Scale!OutsideWrite, StsFacts!Scale!OutsideEdit,
      StsFacts!Scale!OutsideDelete, StsFacts!Scale!OutsideCreate,
      StsFacts!Scale!Overtaken, StsFacts!Scale!Running
<1> QED
  BY <1>1, <1>2, <1>3, <1>4

LEMMA SameGoroutine ==
  ASSUME NEW w \in Statefulsets
  PROVE  Statefulset!Goroutine(w) <=> StsFacts!Goroutine(w)
<1>1. Statefulset!Release(w) <=> StsFacts!Release(w)
  BY DEF
      Statefulset!Release, Statefulset!Locks, Statefulset!Removes,
      Statefulset!RelistFails, Statefulset!Relists, Statefulset!At,
      Statefulset!Goto, Statefulset!RemoveAt, StsFacts!RemoveAt,
      StsFacts!Release, StsFacts!Locks, StsFacts!Removes,
      StsFacts!RelistFails, StsFacts!Relists, StsFacts!At, StsFacts!Goto
<1>2. Statefulset!Pass(w) <=> StsFacts!Pass(w)
  <2>1. /\ Statefulset!Exists(w) <=> StsFacts!Exists(w)
        /\ Statefulset!ExistsFails(w) <=> StsFacts!ExistsFails(w)
        /\ Statefulset!FindsAbnormal(w) <=> StsFacts!FindsAbnormal(w)
        /\ Statefulset!LowersNot(w) <=> StsFacts!LowersNot(w)
        /\ Statefulset!Reports(w) <=> StsFacts!Reports(w)
        /\ Statefulset!ReportsLast(w) <=> StsFacts!ReportsLast(w)
    BY DEF
      Statefulset!Exists, Statefulset!Sees, StsFacts!Sees,
      Statefulset!ExistsFails, Statefulset!FindsAbnormal, Statefulset!LowersNot,
      Statefulset!WantsLess, Statefulset!Reports, Statefulset!ReportsLast,
      Statefulset!At, Statefulset!Goto, StsFacts!Exists,
      StsFacts!ExistsFails, StsFacts!FindsAbnormal, StsFacts!LowersNot,
      StsFacts!WantsLess, StsFacts!Reports, StsFacts!ReportsLast,
      StsFacts!At, StsFacts!Goto
  <2>2. ASSUME NEW over
        PROVE  /\ Statefulset!Raises(w, over) <=> StsFacts!Raises(w, over)
               /\ Statefulset!RaisesNot(w, over)
                    <=> StsFacts!RaisesNot(w, over)
    BY SameCalls DEF
      Statefulset!Raises, Statefulset!RaisesNot, Statefulset!WantsMore,
      Statefulset!Inspected, Statefulset!Starts, Statefulset!At,
      Statefulset!Goto, StsFacts!Raises, StsFacts!RaisesNot,
      StsFacts!WantsMore, StsFacts!Inspected, StsFacts!Starts, StsFacts!At,
      StsFacts!Goto
  <2>3. /\ Statefulset!Raised(w) <=> StsFacts!Raised(w)
        /\ Statefulset!Lowers(w) <=> StsFacts!Lowers(w)
        /\ Statefulset!Lowered(w) <=> StsFacts!Lowered(w)
    BY SameCalls DEF
      Statefulset!Changes, StsFacts!Changes,
      Statefulset!Raised, Statefulset!Lowers, Statefulset!WantsLess,
      Statefulset!Starts, Statefulset!Lowered, Statefulset!Succeeded,
      Statefulset!At, Statefulset!Goto, StsFacts!Raised, StsFacts!Lowers,
      StsFacts!WantsLess, StsFacts!Starts, StsFacts!Lowered,
      StsFacts!Succeeded, StsFacts!At, StsFacts!Goto
  <2>4. Statefulset!Calling(w) <=> StsFacts!Calling(w)
    BY SameCalls DEF
      Statefulset!Calling, Statefulset!StillKnown, StsFacts!Calling,
      StsFacts!StillKnown
  <2>5. Statefulset!Overloads(w) = StsFacts!Overloads(w)
    BY DEF Statefulset!Overloads, StsFacts!Overloads
  <2> QED
    BY <2>1, <2>2, <2>3, <2>4, <2>5 DEF Statefulset!Pass, StsFacts!Pass
<1>3. Statefulset!TakeTick(w) <=> StsFacts!TakeTick(w)
  BY DEF
      Statefulset!TakeTick, Statefulset!At, Statefulset!Gone,
      Statefulset!InGroups, Statefulset!Goto, StsFacts!TakeTick,
      StsFacts!At, StsFacts!Gone, StsFacts!InGroups, StsFacts!Goto
<1> QED
  BY <1>1, <1>2, <1>3 DEF Statefulset!Goroutine, StsFacts!Goroutine

LEMMA SameStatefulsetNext == Statefulset!Next <=> StsFacts!Next
<1>1. ASSUME NEW w \in Statefulsets
      PROVE  /\ Statefulset!Register(w) <=> StsFacts!Register(w)
             /\ Statefulset!Tick(w) <=> StsFacts!Tick(w)
  BY DEF
      Statefulset!Register, Statefulset!RegisterFails,
      Statefulset!RegisterLists, Statefulset!RegisterLocks,
      Statefulset!Timestart, Statefulset!RegisterAppends, Statefulset!Goto,
      Statefulset!Tick, StsFacts!Register,
      StsFacts!RegisterFails, StsFacts!RegisterLists,
      StsFacts!RegisterLocks, StsFacts!Timestart, StsFacts!RegisterAppends,
      StsFacts!Goto, StsFacts!Tick
<1>2. Statefulset!Cluster <=> StsFacts!Cluster
  BY SameCalls DEF Statefulset!Cluster, StsFacts!Cluster
<1>3. Statefulset!Elapse <=> StsFacts!Elapse
  BY DEF Statefulset!Elapse, StsFacts!Elapse, Statefulset!Older,
    StsFacts!Older
<1> QED
  BY <1>1, <1>2, <1>3, SameGoroutine DEF Statefulset!Next, StsFacts!Next

LEMMA StatefulsetFacts == Spec => StsFacts!Spec
<1>1. [Statefulset!Next]_(Statefulset!vars) => [StsFacts!Next]_(StsFacts!vars)
  BY SameStatefulsetNext DEF Statefulset!vars, StsFacts!vars
<1> QED
  BY <1>1, SameStatefulsetInit, WatchesStatefulsets, PTL
  DEF Statefulset!Spec, StsFacts!Spec

(* statefulsets.groups lists each StatefulSet that runs exactly once and   *)
(* statefulsets.mu is held exactly between a Lock and its Unlock, for any  *)
(* number of items of both types.                                          *)
THEOREM StatefulsetsExactAlways == Spec => []StatefulsetsExact
<1>1. StsFacts!Spec => []StsFacts!GroupsExact
  BY StatefulsetAssumed, StsFacts!GroupsExactAlways
<1>2. StsFacts!Spec => []StsFacts!LockHeld
  BY StatefulsetAssumed, StsFacts!LockHeldAlways
<1>3. StsFacts!GroupsExact /\ StsFacts!LockHeld => StatefulsetsExact
  BY DEF StsFacts!GroupsExact, StsFacts!LockHeld, StsFacts!InGroups,
    StatefulsetsExact, Statefulset!GroupsExact, Statefulset!LockHeld,
    Statefulset!InGroups
<1> QED
  BY <1>1, <1>2, <1>3, StatefulsetFacts, PTL

(* A watcher of a StatefulSet that is to keep at least one replica never   *)
(* raises and lowers it in one pass, lowers it only when its interval has  *)
(* passed, reports the counts that it should, and makes at most one pass   *)
(* after its release: what is proved of timestart in deployment.go holds   *)
(* of the one in statefulset.go, beside any number of Deployments.         *)
THEOREM StatefulsetsDecide ==
  Spec => /\ []Statefulset!NoBothWays
          /\ []Statefulset!LatePassBound
          /\ []Statefulset!ReportHonest
          /\ Statefulset!CoolsDown
<1>1. StsFacts!Spec => []StsFacts!NoBothWays
  BY StatefulsetAssumed, StsFacts!NoBothWaysAlways
<1>2. StsFacts!Spec => []StsFacts!LatePassBound
  BY StatefulsetAssumed, StsFacts!LatePassBoundAlways
<1>3. StsFacts!Spec => []StsFacts!ReportHonest
  BY StatefulsetAssumed, StsFacts!ReportHonestAlways
<1>4. StsFacts!Spec => StsFacts!CoolsDown
  BY StatefulsetAssumed, StsFacts!CoolsDownAlways
<1>5. /\ StsFacts!NoBothWays => Statefulset!NoBothWays
      /\ StsFacts!LatePassBound => Statefulset!LatePassBound
      /\ StsFacts!ReportHonest => Statefulset!ReportHonest
  BY DEF StsFacts!NoBothWays, StsFacts!LatePassBound, StsFacts!ReportHonest,
    StsFacts!At, Statefulset!NoBothWays, Statefulset!LatePassBound,
    Statefulset!ReportHonest, Statefulset!At, StsFacts!Tells,
    Statefulset!Tells
<1>6. StsFacts!CoolsDown => Statefulset!CoolsDown
  BY DEF StsFacts!CoolsDown, StsFacts!vars, Statefulset!CoolsDown,
    Statefulset!vars
<1> QED
  BY <1>1, <1>2, <1>3, <1>4, <1>5, <1>6, StatefulsetFacts, PTL

(* increaseReplica and decreaseReplica of statefulset.go change the object *)
(* at most once in a call, and exactly once when they return nil; all the  *)
(* watchers of StatefulSets together are one atomic counter.               *)
THEOREM StatefulsetsCount ==
  Spec => /\ []Statefulset!Scale!WrittenOnce
          /\ Statefulset!Scale!CounterSpec
<1>1. StsFacts!Spec => []StsFacts!Scale!WrittenOnce
  BY StatefulsetAssumed, StsFacts!PassesWriteOnce
<1>2. StsFacts!Spec => StsFacts!Scale!CounterSpec
  BY StatefulsetAssumed, StsFacts!WatchersCount
<1>3. StsFacts!Scale!WrittenOnce => Statefulset!Scale!WrittenOnce
  BY DEF StsFacts!Scale!WrittenOnce, StsFacts!Scale!Running,
    Statefulset!Scale!WrittenOnce, Statefulset!Scale!Running
<1>4. StsFacts!Scale!Counter!Init <=> Statefulset!Scale!Counter!Init
  BY DEF StsFacts!Scale!Counter!Init, Statefulset!Scale!Counter!Init
<1>5. [StsFacts!Scale!Counter!Next]_(StsFacts!Scale!Counter!vars) =>
        [Statefulset!Scale!Counter!Next]_(Statefulset!Scale!Counter!vars)
  BY DEF StsFacts!Scale!Counter!Next, StsFacts!Scale!Counter!Raise,
    StsFacts!Scale!Counter!Lower, StsFacts!Scale!Counter!Rewrite,
    StsFacts!Scale!Counter!Outsider, StsFacts!Scale!Counter!vars,
    Statefulset!Scale!Counter!Next, Statefulset!Scale!Counter!Raise,
    Statefulset!Scale!Counter!Lower, Statefulset!Scale!Counter!Rewrite,
    Statefulset!Scale!Counter!Outsider, Statefulset!Scale!Counter!vars
<1> QED
  BY <1>1, <1>2, <1>3, <1>4, <1>5, StatefulsetFacts, PTL
  DEF StsFacts!Scale!CounterSpec, StsFacts!Scale!Counter!Spec,
    Statefulset!Scale!CounterSpec, Statefulset!Scale!Counter!Spec

(* Whoever holds statefulsets.mu waits for the API server alone, and a     *)
(* pass over a StatefulSet has a bounded number of steps, whatever the     *)
(* Deployments do and however the objects are contended.                   *)
THEOREM StatefulsetsGoOn ==
  Spec => /\ []Statefulset!NeverStuck
          /\ Statefulset!PassesRunOut
<1>1. StsFacts!Spec => []StsFacts!NeverStuck
  BY StatefulsetAssumed, StsFacts!NeverStuckAlways
<1>2. StsFacts!Spec => StsFacts!PassesRunOut
  BY StatefulsetAssumed, StsFacts!PassesRunOutAlways
<1>3. StsFacts!NeverStuck => Statefulset!NeverStuck
  BY DEF StsFacts!NeverStuck, StsFacts!CanGo, StsFacts!HolderCanGo,
    StsFacts!PassPlaces, StsFacts!ReleasePlaces, StsFacts!At,
    Statefulset!NeverStuck, Statefulset!CanGo, Statefulset!HolderCanGo,
    Statefulset!PassPlaces, Statefulset!ReleasePlaces, Statefulset!At
<1>4. StsFacts!PassesRunOut => Statefulset!PassesRunOut
  <2> DEFINE Goes(w) ==
        sWatch[w].pc \in StsFacts!PassPlaces \cup StsFacts!ReleasePlaces =>
          IF StsFacts!Goroutine(w)
          THEN StsFacts!StepsToGo(w)' < StsFacts!StepsToGo(w)
          ELSE StsFacts!StepsToGo(w)' = StsFacts!StepsToGo(w)
      GoesHere(w) ==
        sWatch[w].pc \in Statefulset!PassPlaces
                           \cup Statefulset!ReleasePlaces =>
          IF Statefulset!Goroutine(w)
          THEN Statefulset!StepsToGo(w)' < Statefulset!StepsToGo(w)
          ELSE Statefulset!StepsToGo(w)' = Statefulset!StepsToGo(w)
  <2>1. ASSUME NEW w \in Statefulsets
        PROVE  /\ Statefulset!StepsToGo(w) = StsFacts!StepsToGo(w)
               /\ Statefulset!StepsToGo(w)' = StsFacts!StepsToGo(w)'
    BY DEF Statefulset!StepsToGo, Statefulset!Scale!Requests,
      Statefulset!At, StsFacts!StepsToGo, StsFacts!Scale!Requests,
      StsFacts!At
  <2>2. /\ Statefulset!PassPlaces = StsFacts!PassPlaces
        /\ Statefulset!ReleasePlaces = StsFacts!ReleasePlaces
        /\ Statefulset!vars = StsFacts!vars
        /\ Statefulset!vars' = StsFacts!vars'
    BY DEF Statefulset!PassPlaces, StsFacts!PassPlaces,
      Statefulset!ReleasePlaces, StsFacts!ReleasePlaces, Statefulset!vars,
      StsFacts!vars
  <2>3. ASSUME NEW w \in Statefulsets, Goes(w)
        PROVE  GoesHere(w)
    BY <2>1, <2>2, <2>3, SameGoroutine
  <2>4. [\A w \in Statefulsets : Goes(w)]_(StsFacts!vars) =>
          [\A w \in Statefulsets : GoesHere(w)]_(Statefulset!vars)
    BY <2>2, <2>3
  <2> QED
    BY <2>4, PTL DEF StsFacts!PassesRunOut, Statefulset!PassesRunOut
<1> QED
  BY <1>1, <1>2, <1>3, <1>4, StatefulsetFacts, PTL
=============================================================================
