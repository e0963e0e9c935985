----------------------- MODULE DeploymentWatchProofs ------------------------
(***************************************************************************)
(* Proofs about DeploymentWatch for any number of watchers with any        *)
(* configuration.                                                          *)
(***************************************************************************)
EXTENDS DeploymentWatch, SequenceTheorems, TLAPS

-----------------------------------------------------------------------------
(* The watchers use the object only through ReplicaScale *)

LEMMA ScaleStep == [Next]_vars => [Scale!Next]_(Scale!vars)
<1> SUFFICES ASSUME [Next]_vars
             PROVE  [Scale!Next]_(Scale!vars)
  OBVIOUS
<1>0. UNCHANGED <<obj, call>> => UNCHANGED Scale!vars
  BY DEF Scale!vars
<1>1. ASSUME NEW w \in Watchers, Register(w) \/ Tick(w) \/ TakeTick(w)
                                 \/ Release(w)
      PROVE  UNCHANGED Scale!vars
  BY <1>1, <1>0
  DEF Register, RegisterFails, RegisterLists, RegisterLocks, Timestart,
      RegisterAppends, Tick, TakeTick, Release, Locks, Removes,
      RelistFails, Relists
<1>2. ASSUME NEW w \in Watchers, Pass(w)
      PROVE  [Scale!Next]_(Scale!vars)
  <2>1. CASE Exists(w) \/ ExistsFails(w) \/ FindsAbnormal(w)
             \/ LowersNot(w) \/ Reports(w) \/ ReportsLast(w)
    BY <2>1, <1>0 DEF Exists, ExistsFails, FindsAbnormal, LowersNot, Reports,
                      ReportsLast
  <2>2. ASSUME NEW over \in Overloads(w), Raises(w, over) \/ RaisesNot(w, over)
        PROVE  [Scale!Next]_(Scale!vars)
    BY <2>2, <1>0 DEF Raises, RaisesNot, Starts, Scale!Next
  <2>3. CASE Lowers(w)
    BY <2>3 DEF Lowers, Starts, Scale!Next
  <2>4. CASE Raised(w) \/ Lowered(w)
    BY <2>4 DEF Raised, Lowered, Scale!Next
  <2>5. CASE Calling(w)
    BY <2>5 DEF Calling, Scale!Next
  <2> QED
    BY <1>2, <2>1, <2>2, <2>3, <2>4, <2>5 DEF Pass
<1>3. CASE Elapse
  BY <1>3, <1>0 DEF Elapse
<1>4. CASE Cluster
  BY <1>4 DEF Cluster, Scale!Next
<1>5. CASE UNCHANGED vars
  BY <1>5, <1>0 DEF vars
<1> QED
  BY <1>1, <1>2, <1>3, <1>4, <1>5 DEF Next, Goroutine

(* What is proved of ReplicaScale holds of the watchers as they run: they  *)
(* implement it, whatever else goes on around their calls.                 *)
THEOREM ImplementsScale == Spec => Scale!Spec
<1>1. Init => Scale!Init
  BY DEF Init
<1> QED
  BY <1>1, ScaleStep, PTL DEF Spec, Scale!Spec

(* The theorems about ReplicaScale, for the object and the calls of the    *)
(* watchers.                                                               *)
ScaleFacts == INSTANCE ReplicaScaleProofs

LEMMA ScaleAssumed ==
  /\ Outside \notin Watchers
  /\ Ceiling \in Nat
  /\ Edits \subseteq Nat
  /\ Steps \in Nat \ {0}
  BY WatchAssumption DEF WatchAssumption

(* Scale and ScaleFacts instantiate the same module: their formulas are    *)
(* the same once they are written out.                                     *)
LEMMA SameInit == Scale!Init <=> ScaleFacts!Init
  BY DEF Scale!Init, ScaleFacts!Init, Scale!NoCall, ScaleFacts!NoCall

LEMMA SameNext == Scale!Next <=> ScaleFacts!Next
  BY DEF Scale!Next, Scale!Begin, Scale!BeginApply, Scale!Answer,
    Scale!GetError, Scale!BelowCeiling, Scale!Get, Scale!MaxReached,
    Scale!Accepted, Scale!AfterWrite, Scale!Commit, Scale!AfterConflict,
    Scale!Conflict, Scale!UpdateError, Scale!Return, Scale!Set,
    Scale!Overtaken, Scale!OutsideWrite, Scale!OutsideEdit,
    Scale!OutsideDelete, Scale!OutsideCreate, Scale!Cluster, Scale!Running,
    Scale!NoCall, Scale!Delta,
    ScaleFacts!Next, ScaleFacts!Begin, ScaleFacts!BeginApply,
    ScaleFacts!Answer, ScaleFacts!GetError, ScaleFacts!BelowCeiling,
    ScaleFacts!Get, ScaleFacts!MaxReached, ScaleFacts!Accepted,
    ScaleFacts!AfterWrite, ScaleFacts!Commit, ScaleFacts!AfterConflict,
    ScaleFacts!Conflict, ScaleFacts!UpdateError, ScaleFacts!Return,
    ScaleFacts!Set, ScaleFacts!Overtaken, ScaleFacts!OutsideWrite,
    ScaleFacts!OutsideEdit, ScaleFacts!OutsideDelete,
    ScaleFacts!OutsideCreate, ScaleFacts!Cluster, ScaleFacts!Running,
    ScaleFacts!NoCall, ScaleFacts!Delta

LEMMA SameTypes == Scale!TypeOK <=> ScaleFacts!TypeOK
  BY DEF Scale!TypeOK, Scale!Objects, Scale!Calls, Scale!Ops, Scale!Places,
    ScaleFacts!TypeOK, ScaleFacts!Objects, ScaleFacts!Calls, ScaleFacts!Ops,
    ScaleFacts!Places

LEMMA ImplementsFacts == Spec => ScaleFacts!Spec
<1>1. Scale!vars = ScaleFacts!vars
  BY DEF Scale!vars, ScaleFacts!vars
<1>2. [Scale!Next]_(Scale!vars) => [ScaleFacts!Next]_(ScaleFacts!vars)
  BY <1>1, SameNext DEF Scale!vars, ScaleFacts!vars
<1> QED
  BY <1>2, SameInit, ImplementsScale, PTL DEF Scale!Spec, ScaleFacts!Spec

LEMMA ScaleInv == Spec => []ScaleFacts!Inv
<1>1. ScaleFacts!Spec => []ScaleFacts!Inv
  BY ScaleAssumed, ScaleFacts!Invariance
<1> QED
  BY <1>1, ImplementsFacts, PTL

(* However the passes of the watchers are interleaved, one call for a      *)
(* raise or a lowering takes effect once at most.                          *)
THEOREM PassesWriteOnce == Spec => []Scale!WrittenOnce
<1>1. ScaleFacts!Inv => Scale!WrittenOnce
  BY DEF ScaleFacts!Inv, ScaleFacts!Sound, Scale!WrittenOnce,
         ScaleFacts!Running, Scale!Running
<1> QED
  BY <1>1, ScaleInv, PTL


LEMMA SameCounter == Scale!CounterSpec <=> ScaleFacts!CounterSpec
<1>1. Scale!Counter!Init <=> ScaleFacts!Counter!Init
  BY DEF Scale!Counter!Init, ScaleFacts!Counter!Init
<1>2. Scale!Counter!Next <=> ScaleFacts!Counter!Next
  BY DEF Scale!Counter!Next, Scale!Counter!Raise, Scale!Counter!Lower,
    Scale!Counter!Rewrite, Scale!Counter!Outsider, ScaleFacts!Counter!Next,
    ScaleFacts!Counter!Raise, ScaleFacts!Counter!Lower,
    ScaleFacts!Counter!Rewrite, ScaleFacts!Counter!Outsider
<1>3. [Scale!Counter!Next]_(Scale!Counter!vars)
        <=> [ScaleFacts!Counter!Next]_(ScaleFacts!Counter!vars)
  BY <1>2 DEF Scale!Counter!vars, ScaleFacts!Counter!vars
<1> QED
  BY <1>1, <1>3, PTL DEF Scale!CounterSpec, ScaleFacts!CounterSpec,
                         Scale!Counter!Spec, ScaleFacts!Counter!Spec

(* All the watchers together, with their tickers, releases and reports,    *)
(* are one atomic counter to the cluster.                                  *)
THEOREM WatchersCount == Spec => Scale!CounterSpec
<1>1. ScaleFacts!Spec => ScaleFacts!CounterSpec
  BY ScaleAssumed, ScaleFacts!Refinement
<1> QED
  BY <1>1, ImplementsFacts, SameCounter, PTL

-----------------------------------------------------------------------------
(* Type correctness *)

(* The variables of DeploymentWatch itself. *)
OwnTypes ==
  /\ watch \in [Watchers -> WatchType]
  /\ timer \in [Watchers -> [running : BOOLEAN, tick : BOOLEAN]]
  /\ groups \in Seq(Watchers)
  /\ mu \in Watchers \cup {Main, Free}
  /\ reg \in [at : {"next", "lock", "start", "append"},
              who : Watchers \cup {Main}, left : SUBSET Watchers]
  /\ age \in [Watchers -> 0..Horizon]
  /\ hist \in [Watchers -> HistType]

LEMMA OwnInit == Init => OwnTypes
  BY WatchAssumption
  DEF WatchAssumption, Init, OwnTypes, WatchType, HistType, Places

LEMMA OlderType == \A t \in 0..Horizon : Older(t) \in 0..Horizon
  BY WatchAssumption DEF WatchAssumption, Older

LEMMA HorizonType == 0 \in 0..Horizon
  BY WatchAssumption DEF WatchAssumption

LEMMA GotoType ==
  ASSUME OwnTypes, NEW w \in Watchers, NEW pc \in Places, Goto(w, pc)
  PROVE  watch' \in [Watchers -> WatchType]
  BY ZenonT(60) DEF OwnTypes, Goto, WatchType

LEMMA RegisterTypes ==
  ASSUME OwnTypes, NEW w \in Watchers, Register(w)
  PROVE  OwnTypes'
<1> USE DEF OwnTypes
<1>1. CASE RegisterFails(w)
  BY <1>1 DEF RegisterFails
<1>2. ASSUME NEW n \in PodCounts, RegisterLists(w, n)
      PROVE  OwnTypes'
  <2>1. watch[w].list + n \in Nat
    BY WatchAssumption, SMTT(60) DEF WatchAssumption, WatchType
  <2>2. watch' \in [Watchers -> WatchType]
    BY <1>2, <2>1, ZenonT(60) DEF RegisterLists, WatchType
  <2> QED
    BY <1>2, <2>2 DEF RegisterLists
<1>3. CASE RegisterLocks(w)
  BY <1>3 DEF RegisterLocks
<1>4. CASE Timestart(w)
  <2>1. watch' \in [Watchers -> WatchType]
    BY <1>4, GotoType DEF Timestart, Places
  <2> QED
    BY <1>4, <2>1, ZenonT(60) DEF Timestart
<1>5. CASE RegisterAppends(w)
  <2>1. groups' \in Seq(Watchers)
    BY <1>5 DEF RegisterAppends
  <2>2. reg' \in [at : {"next", "lock", "start", "append"},
                  who : Watchers \cup {Main}, left : SUBSET Watchers]
    BY <1>5 DEF RegisterAppends
  <2> QED
    BY <1>5, <2>1, <2>2 DEF RegisterAppends
<1> QED
  BY <1>1, <1>2, <1>3, <1>4, <1>5 DEF Register

LEMMA TickTypes ==
  ASSUME OwnTypes, NEW w \in Watchers, Tick(w) \/ TakeTick(w)
  PROVE  OwnTypes'
<1> USE DEF OwnTypes
<1>1. CASE Tick(w)
  BY <1>1 DEF Tick
<1>2. CASE TakeTick(w)
  <2>1. watch' \in [Watchers -> WatchType]
    BY <1>2, GotoType DEF TakeTick, Places, PassPlaces
  <2>2. timer' \in [Watchers -> [running : BOOLEAN, tick : BOOLEAN]]
    BY <1>2, ZenonT(60) DEF TakeTick
  <2>3. hist' \in [Watchers -> HistType]
    <3> DEFINE late == IF Gone(w) /\ hist[w].late < 2
                       THEN hist[w].late + 1 ELSE hist[w].late
    <3>1. late \in 0..2
      BY DEF HistType
    <3>2. hist' = [hist EXCEPT ![w].late = late]
      BY <1>2 DEF TakeTick
    <3> HIDE DEF late
    <3>3. [hist[w] EXCEPT !.late = late] \in HistType
      BY <3>1, ZenonT(60) DEF HistType
    <3> QED
      BY <3>2, <3>3
  <2> QED
    BY <1>2, <2>1, <2>2, <2>3 DEF TakeTick
<1> QED
  BY <1>1, <1>2

LEMMA RemoveAtType ==
  ASSUME NEW s \in Seq(Watchers), NEW i \in DOMAIN s
  PROVE  /\ RemoveAt(s, i) \in Seq(Watchers)
         /\ Len(RemoveAt(s, i)) = Len(s) - 1
         /\ \A j \in 1..Len(s) - 1 :
              RemoveAt(s, i)[j] = IF j < i THEN s[j] ELSE s[j + 1]
<1> DEFINE a == SubSeq(s, 1, i - 1)
<1> DEFINE b == SubSeq(s, i + 1, Len(s))
<1>1. i \in 1..Len(s) /\ Len(s) \in Nat
  OBVIOUS
<1>2. /\ a \in Seq(Watchers)
      /\ Len(a) = i - 1
      /\ \A j \in 1..i - 1 : a[j] = s[j]
  BY <1>1, SubSeqProperties
<1>3. /\ b \in Seq(Watchers)
      /\ Len(b) = Len(s) - i
      /\ \A j \in 1..Len(s) - i : b[j] = s[i + j]
  BY <1>1, SubSeqProperties
<1> HIDE DEF a, b
<1>4. /\ a \o b \in Seq(Watchers)
      /\ Len(a \o b) = Len(s) - 1
      /\ \A j \in 1..Len(s) - 1 :
           (a \o b)[j] = IF j < i THEN s[j] ELSE s[j + 1]
  BY <1>1, <1>2, <1>3, SMTT(60)
<1> QED
  BY <1>4 DEF RemoveAt, a, b

LEMMA ReleaseTypes ==
  ASSUME OwnTypes, NEW w \in Watchers, Release(w)
  PROVE  OwnTypes'
<1> USE DEF OwnTypes
<1>1. CASE Locks(w)
  <2>1. watch' \in [Watchers -> WatchType]
    BY <1>1, GotoType DEF Locks, Places, ReleasePlaces
  <2> QED
    BY <1>1, <2>1 DEF Locks
<1>2. CASE Removes(w)
  <2>1. watch' \in [Watchers -> WatchType]
    BY <1>2, GotoType DEF Removes, Places, ReleasePlaces
  <2>2. groups' \in Seq(Watchers)
    BY <1>2, RemoveAtType DEF Removes
  <2> QED
    BY <1>2, <2>1, <2>2 DEF Removes
<1>3. CASE RelistFails(w)
  <2>1. watch' \in [Watchers -> WatchType]
    BY <1>3, GotoType DEF RelistFails, Places
  <2> QED
    BY <1>3, <2>1 DEF RelistFails
<1>4. ASSUME NEW n \in PodCounts, Relists(w, n)
      PROVE  OwnTypes'
  <2>1. watch[w].list + n \in Nat
    BY WatchAssumption DEF WatchAssumption, WatchType
  <2> DEFINE longer == [watch[w] EXCEPT !.list = @ + n]
  <2>2. longer \in WatchType
    BY <2>1, ZenonT(60) DEF WatchType
  <2> HIDE DEF longer
  <2>3. [longer EXCEPT !.pc = "wait"] \in WatchType
    BY <2>2, ZenonT(60) DEF WatchType, Places
  <2>4. watch' \in [Watchers -> WatchType]
    BY <1>4, <2>3 DEF Relists, longer
  <2> QED
    BY <1>4, <2>4 DEF Relists
<1> QED
  BY <1>1, <1>2, <1>3, <1>4 DEF Release

LEMMA ElapseTypes ==
  ASSUME OwnTypes, Elapse
  PROVE  OwnTypes'
<1>1. \A w \in Watchers :
        /\ Older(age[w]) \in 0..Horizon
        /\ [hist[w] EXCEPT !.sinceUp = Older(@)] \in HistType
  BY OlderType, ZenonT(60) DEF OwnTypes, HistType
<1> QED
  BY <1>1 DEF Elapse, OwnTypes

(* Losing track of the count leaves a history a history. *)
LEMMA KnownType ==
  ASSUME NEW h \in HistType, NEW b
  PROVE  [h EXCEPT !.known = @ /\ b] \in HistType
<1>1. (h.known /\ b) \in BOOLEAN
  OBVIOUS
<1> QED
  BY <1>1 DEF HistType

LEMMA HistTypes ==
  ASSUME OwnTypes, NEW w \in Watchers, NEW did \in SUBSET {"inc", "dec"},
         NEW t \in 0..Horizon, NEW k \in BOOLEAN, NEW b \in BOOLEAN
  PROVE  /\ [hist[w] EXCEPT !.did = did] \in HistType
         /\ [hist[w] EXCEPT !.sinceUp = t] \in HistType
         /\ [hist[w] EXCEPT !.kept = b, !.known = k] \in HistType
         /\ [hist[w] EXCEPT !.kept = b, !.did = did] \in HistType
  BY ZenonT(60) DEF OwnTypes, HistType

LEMMA StartTypes ==
  ASSUME OwnTypes, NEW w \in Watchers, NEW op \in {"inc", "dec"}, Starts(w, op)
  PROVE  hist' \in [Watchers -> HistType]
<1>1. hist[w].did \cup {op} \in SUBSET {"inc", "dec"}
  BY DEF OwnTypes, HistType
<1>2. [hist[w] EXCEPT !.did = @ \cup {op}] \in HistType
  BY <1>1, ZenonT(60) DEF OwnTypes, HistType
<1> QED
  BY <1>2 DEF Starts, OwnTypes

LEMMA WatchEdit ==
  ASSUME NEW r \in WatchType
  PROVE  /\ \A pc \in Places : [r EXCEPT !.pc = pc] \in WatchType
         /\ \A over \in Nat : [r EXCEPT !.over = over] \in WatchType
         /\ \A n \in Int : /\ [r EXCEPT !.replica = n] \in WatchType
                          /\ [r EXCEPT !.pre = n] \in WatchType
         /\ \A b \in BOOLEAN : [r EXCEPT !.changed = b] \in WatchType
         /\ \A todo \in 0..2 : [r EXCEPT !.todo = todo] \in WatchType
  BY DEF WatchType

LEMMA WatchEdits ==
  ASSUME NEW r \in WatchType, NEW pc \in Places, NEW over \in Nat,
         NEW n \in Int, NEW m \in Int, NEW b \in BOOLEAN, NEW todo \in 0..2
  PROVE  /\ [r EXCEPT !.pc = pc, !.replica = n, !.pre = m] \in WatchType
         /\ [r EXCEPT !.pc = pc, !.replica = n, !.changed = b] \in WatchType
         /\ [r EXCEPT !.pc = pc, !.over = over, !.todo = todo] \in WatchType
         /\ [r EXCEPT !.pc = pc, !.over = over, !.pre = m, !.changed = b,
                      !.todo = todo] \in WatchType
<1> DEFINE r1 == [r EXCEPT !.pc = pc]
<1> DEFINE r2 == [r1 EXCEPT !.over = over]
<1> DEFINE r3 == [r2 EXCEPT !.pre = m]
<1> DEFINE r4 == [r3 EXCEPT !.changed = b]
<1> DEFINE q2 == [r1 EXCEPT !.replica = n]
<1>1. r1 \in WatchType
  BY WatchEdit
<1> HIDE DEF r1
<1>2. r2 \in WatchType /\ q2 \in WatchType
  BY <1>1, WatchEdit
<1> HIDE DEF q2
<1>3. /\ [q2 EXCEPT !.pre = m] \in WatchType
      /\ [q2 EXCEPT !.changed = b] \in WatchType
  BY <1>2, WatchEdit
<1> HIDE DEF r2
<1>4. r3 \in WatchType /\ [r2 EXCEPT !.todo = todo] \in WatchType
  BY <1>2, WatchEdit
<1> HIDE DEF r3
<1>5. r4 \in WatchType
  BY <1>4, WatchEdit
<1> HIDE DEF r4
<1>6. [r4 EXCEPT !.todo = todo] \in WatchType
  BY <1>5, WatchEdit
<1> QED
  BY <1>3, <1>4, <1>6 DEF r1, r2, r3, r4, q2

LEMMA InspectedTypes ==
  ASSUME OwnTypes, NEW w \in Watchers, NEW over \in Nat, NEW pc \in Places,
         Inspected(w, over, pc)
  PROVE  watch' \in [Watchers -> WatchType]
<1> DEFINE todo == IF Config[w].level = 2 THEN 2 ELSE 1
<1>1. todo \in 0..2
  OBVIOUS
<1> HIDE DEF todo
<1>2. watch[w] \in WatchType /\ 0 \in Int
  BY DEF OwnTypes
<1>3. [watch[w] EXCEPT !.pc = pc, !.over = over, !.todo = todo] \in WatchType
  BY <1>1, <1>2, WatchEdits
<1> QED
  BY <1>3 DEF Inspected, OwnTypes, todo

LEMMA OverloadsType ==
  ASSUME OwnTypes, NEW w \in Watchers
  PROVE  Overloads(w) \subseteq 0..watch[w].list /\ Overloads(w) \subseteq Nat
<1>1. watch[w].list \in Nat
  BY DEF OwnTypes, WatchType
<1> QED
  BY <1>1 DEF Overloads

(* Where a call returns, archive.Replica has moved by d at most. *)
LEMMA ReturnTypes ==
  ASSUME OwnTypes, NEW w \in Watchers, NEW pc \in Places, NEW d \in {-1, 1},
         Changes(w, pc, d)
  PROVE  watch' \in [Watchers -> WatchType]
<1> DEFINE r == IF Succeeded(w) THEN watch[w].replica + d ELSE watch[w].replica
           b == watch[w].changed \/ Succeeded(w)
<1>1. r \in Int /\ b \in BOOLEAN
  BY DEF OwnTypes, WatchType
<1>2. watch' = [watch EXCEPT ![w] =
                  [@ EXCEPT !.pc = pc, !.replica = r, !.changed = b]]
  BY DEF Changes, OwnTypes
<1> HIDE DEF r, b
<1>3. watch[w] \in WatchType /\ 0 \in Nat /\ 0 \in 0..2 /\ 0 \in Int
  BY SMTT(60) DEF OwnTypes
<1>4. [watch[w] EXCEPT !.pc = pc, !.replica = r, !.changed = b] \in WatchType
  BY <1>1, <1>3, WatchEdits
<1> QED
  BY <1>2, <1>4 DEF OwnTypes

LEMMA PassTypes ==
  ASSUME OwnTypes, Scale!TypeOK, NEW w \in Watchers, Pass(w)
  PROVE  OwnTypes'
<1> USE DEF OwnTypes
<1>0. PassPlaces \subseteq Places /\ {"wait", "alert", "lock"} \subseteq Places
  BY DEF Places, PassPlaces, ReleasePlaces
<1>1. CASE Exists(w)
  <2>1. PICK n \in Int, m \in Int : Sees(w, n, m)
    <3>1. /\ obj.replicas \in Int /\ watch[w].list \in Int
          /\ watch[w].replica \in Int /\ 0 \in Int
      BY SMTT(60) DEF Scale!TypeOK, Scale!Objects, WatchType
    <3> QED
      BY <1>1, <3>1 DEF Exists
  <2>2. [watch[w] EXCEPT !.pc = "inspect", !.replica = n, !.pre = m]
          \in WatchType
    <3>1. /\ watch[w] \in WatchType /\ "inspect" \in Places
          /\ 0 \in Nat /\ 0 \in 0..2 /\ FALSE \in BOOLEAN
      BY <1>0 DEF PassPlaces
    <3> QED
      BY <3>1, WatchEdits
  <2>3. watch' \in [Watchers -> WatchType]
    BY <2>1, <2>2 DEF Sees
  <2>4. [hist[w] EXCEPT !.kept = hist[w].known, !.known = Config[w].scaleOut]
          \in HistType
    <3>1. hist[w].known \in BOOLEAN /\ Config[w].scaleOut \in BOOLEAN
      BY WatchAssumption DEF WatchAssumption, ConfigType, HistType
    <3> QED
      BY <3>1, ZenonT(60) DEF HistType
  <2> QED
    BY <1>1, <2>3, <2>4 DEF Exists
<1>2. CASE ExistsFails(w)
  <2>1. watch' \in [Watchers -> WatchType]
    BY <1>2, <1>0, GotoType DEF ExistsFails
  <2> QED
    BY <1>2, <2>1 DEF ExistsFails
<1>3. CASE FindsAbnormal(w)
  <2>1. watch' \in [Watchers -> WatchType]
    BY <1>3, <1>0, GotoType DEF FindsAbnormal
  <2> QED
    BY <1>3, <2>1 DEF FindsAbnormal
<1>4. ASSUME NEW over \in Overloads(w), Raises(w, over) \/ RaisesNot(w, over)
      PROVE  OwnTypes'
  <2>0. over \in Nat
    BY OverloadsType
  <2>1. CASE Raises(w, over)
    <3>1. watch' \in [Watchers -> WatchType]
      BY <2>0, <2>1, <1>0, InspectedTypes DEF Raises, PassPlaces
    <3>2. hist' \in [Watchers -> HistType]
      BY <2>1, StartTypes DEF Raises
    <3> QED
      BY <2>1, <3>1, <3>2 DEF Raises, Starts
  <2>2. CASE RaisesNot(w, over)
    <3> DEFINE pc == IF Config[w].scaleOut THEN "weigh" ELSE "report"
    <3>1. pc \in Places
      BY <1>0 DEF PassPlaces
    <3>2. Inspected(w, over, pc)
      BY <2>2 DEF RaisesNot
    <3> HIDE DEF pc
    <3>3. watch' \in [Watchers -> WatchType]
      BY <2>0, <3>1, <3>2, InspectedTypes
    <3> QED
      BY <2>2, <3>3 DEF RaisesNot
  <2> QED
    BY <1>4, <2>1, <2>2
<1>5. CASE Raised(w)
  <2>1. watch' \in [Watchers -> WatchType]
    BY <1>5, <1>0, ReturnTypes DEF Raised, PassPlaces
  <2>2. age' \in [Watchers -> 0..Horizon]
    BY <1>5, HorizonType DEF Raised
  <2>3. hist' \in [Watchers -> HistType]
    <3> DEFINE t == IF Succeeded(w) THEN 0 ELSE hist[w].sinceUp
    <3>1. t \in 0..Horizon
      BY HorizonType DEF HistType
    <3> HIDE DEF t
    <3>2. [hist[w] EXCEPT !.sinceUp = t] \in HistType
      BY <3>1, ZenonT(60) DEF HistType
    <3> QED
      BY <1>5, <3>2 DEF Raised, t
  <2> QED
    BY <1>5, <2>1, <2>2, <2>3 DEF Raised
<1>6. CASE Lowers(w)
  <2>1. watch' \in [Watchers -> WatchType]
    BY <1>6, <1>0, GotoType DEF Lowers, PassPlaces
  <2>2. hist' \in [Watchers -> HistType]
    BY <1>6, StartTypes DEF Lowers
  <2> QED
    BY <1>6, <2>1, <2>2 DEF Lowers, Starts
<1>7. CASE LowersNot(w)
  <2>1. watch' \in [Watchers -> WatchType]
    BY <1>7, <1>0, GotoType DEF LowersNot, PassPlaces
  <2> QED
    BY <1>7, <2>1 DEF LowersNot
<1>8. CASE Lowered(w)
  <2>1. watch' \in [Watchers -> WatchType]
    BY <1>8, <1>0, ReturnTypes DEF Lowered, PassPlaces
  <2> QED
    BY <1>8, <2>1 DEF Lowered
<1>9. CASE Calling(w)
  <2>1. hist' \in [Watchers -> HistType]
    BY <1>9, KnownType DEF Calling
  <2> QED
    BY <1>9, <2>1 DEF Calling
<1>10. CASE Reports(w)
  <2>1. watch[w].todo - 1 \in 0..2
    BY <1>10 DEF Reports, WatchType
  <2>2. [watch[w] EXCEPT !.todo = @ - 1] \in WatchType
    BY <2>1, ZenonT(60) DEF WatchType
  <2> QED
    BY <1>10, <2>2 DEF Reports
<1>11. CASE ReportsLast(w)
  <2>1. [watch[w] EXCEPT !.pc = "wait", !.over = 0, !.pre = 0,
                         !.changed = FALSE, !.todo = 0] \in WatchType
    <3>1. /\ 0 \in Nat /\ 0 \in Int /\ 0 \in 0..2 /\ watch[w] \in WatchType
          /\ FALSE \in BOOLEAN
      OBVIOUS
    <3> QED
      BY <3>1, <1>0, WatchEdits
  <2>2. [hist[w] EXCEPT !.kept = FALSE, !.did = {}] \in HistType
    <3>1. {} \in SUBSET {"inc", "dec"} /\ FALSE \in BOOLEAN
      OBVIOUS
    <3> QED
      BY <3>1, HorizonType, HistTypes
  <2> QED
    BY <1>11, <2>1, <2>2 DEF ReportsLast
<1> QED
  BY <1>1, <1>2, <1>3, <1>4, <1>5, <1>6, <1>7, <1>8, <1>9, <1>10, <1>11
  DEF Pass

LEMMA ClusterTypes ==
  ASSUME OwnTypes, Cluster
  PROVE  OwnTypes'
<1>1. hist' \in [Watchers -> HistType]
  BY KnownType DEF Cluster, OwnTypes
<1> QED
  BY <1>1 DEF Cluster, OwnTypes

LEMMA StepTypes ==
  ASSUME OwnTypes, Scale!TypeOK, [Next]_vars
  PROVE  OwnTypes'
<1>1. CASE \E w \in Watchers : Register(w) \/ Tick(w) \/ Goroutine(w)
  BY <1>1, RegisterTypes, TickTypes, PassTypes, ReleaseTypes DEF Goroutine
<1>2. CASE Elapse
  BY <1>2, ElapseTypes
<1>3. CASE Cluster
  BY <1>3, ClusterTypes
<1>4. CASE UNCHANGED vars
  BY <1>4 DEF vars, OwnTypes
<1> QED
  BY <1>1, <1>2, <1>3, <1>4 DEF Next

LEMMA ScaleTypes == Spec => []Scale!TypeOK
<1>1. ScaleFacts!Inv => Scale!TypeOK
  BY SameTypes DEF ScaleFacts!Inv
<1> QED
  BY <1>1, ScaleInv, PTL

(* Whatever the watchers, their configuration and the outside do, every    *)
(* variable keeps its type: a release never removes from an empty registry *)
(* and no report is left with a negative number of sends.                  *)
THEOREM TypeCorrect == Spec => []TypeOK
<1>1. OwnTypes /\ Scale!TypeOK /\ [Next]_vars => OwnTypes'
  BY StepTypes
<1>2. OwnTypes /\ Scale!TypeOK => TypeOK
  BY DEF OwnTypes, TypeOK
<1> QED
  BY <1>1, <1>2, OwnInit, ScaleTypes, PTL DEF Spec

-----------------------------------------------------------------------------
(* Where a step leaves a watcher *)

(* A goroutine moves nobody but itself. *)
LEMMA OnlyOneMoves ==
  ASSUME OwnTypes, NEW w \in Watchers, Register(w) \/ Tick(w) \/ Goroutine(w),
         NEW x \in Watchers, x # w
  PROVE  watch'[x] = watch[x]
<1>1. CASE Register(w)
  BY <1>1 DEF Register, RegisterFails, RegisterLists, RegisterLocks, Timestart,
              RegisterAppends, Goto, OwnTypes
<1>2. CASE Tick(w) \/ TakeTick(w)
  BY <1>2, SMTT(60) DEF Tick, TakeTick, Goto, OwnTypes
<1>3. CASE Pass(w)
  BY <1>3 DEF Pass, Exists, Sees, ExistsFails, FindsAbnormal, Raises,
              RaisesNot, Changes, Inspected, Raised, Lowers, LowersNot, Lowered, Calling, Starts,
              Reports, ReportsLast, Goto, OwnTypes
<1>4. CASE Release(w)
  BY <1>4 DEF Release, Locks, Removes, RelistFails, Relists, Goto, OwnTypes
<1> QED
  BY <1>1, <1>2, <1>3, <1>4 DEF Goroutine

LEMMA GotoMoves ==
  ASSUME OwnTypes, NEW w \in Watchers, NEW pc, Goto(w, pc)
  PROVE  watch'[w].pc = pc
  BY DEF OwnTypes, WatchType, Goto

LEMMA GotoKeeps ==
  ASSUME OwnTypes, NEW w \in Watchers, NEW pc, Goto(w, pc)
  PROVE  /\ watch'[w].pc = pc
         /\ watch'[w].replica = watch[w].replica
         /\ watch'[w].pre = watch[w].pre
         /\ watch'[w].changed = watch[w].changed
  BY DEF OwnTypes, WatchType, Goto

(* The fields of a watcher that the steps of a pass change, and those they *)
(* keep.                                                                   *)
LEMMA SeesMoves ==
  ASSUME OwnTypes, NEW w \in Watchers, NEW n, NEW m, Sees(w, n, m)
  PROVE  /\ watch'[w].pc = "inspect"
         /\ watch'[w].replica = n /\ watch'[w].pre = m
         /\ watch'[w].changed = watch[w].changed
         /\ watch'[w].todo = watch[w].todo
<1>1. watch'[w] = [watch[w] EXCEPT !.pc = "inspect", !.replica = n, !.pre = m]
  BY DEF Sees, OwnTypes
<1> QED
  BY <1>1 DEF OwnTypes, WatchType

LEMMA ChangesMoves ==
  ASSUME OwnTypes, NEW w \in Watchers, NEW pc, NEW d, Changes(w, pc, d)
  PROVE  /\ watch'[w].pc = pc
         /\ watch'[w].replica = IF Succeeded(w) THEN watch[w].replica + d
                                ELSE watch[w].replica
         /\ watch'[w].changed = (watch[w].changed \/ Succeeded(w))
         /\ watch'[w].pre = watch[w].pre
         /\ watch'[w].list = watch[w].list
         /\ watch'[w].over = watch[w].over
         /\ watch'[w].todo = watch[w].todo
<1> DEFINE r == IF Succeeded(w) THEN watch[w].replica + d ELSE watch[w].replica
           b == watch[w].changed \/ Succeeded(w)
<1>1. watch'[w] = [watch[w] EXCEPT !.pc = pc, !.replica = r, !.changed = b]
  BY DEF Changes, OwnTypes
<1> HIDE DEF r, b
<1>2. /\ watch'[w].pc = pc /\ watch'[w].replica = r /\ watch'[w].changed = b
      /\ watch'[w].pre = watch[w].pre /\ watch'[w].list = watch[w].list
      /\ watch'[w].over = watch[w].over /\ watch'[w].todo = watch[w].todo
  BY <1>1 DEF OwnTypes, WatchType
<1> QED
  BY <1>2 DEF r, b

LEMMA InspectedMoves ==
  ASSUME OwnTypes, NEW w \in Watchers, NEW over, NEW pc,
         Inspected(w, over, pc)
  PROVE  /\ watch[w].pc = "inspect"
         /\ watch'[w].pc = pc
         /\ watch'[w].over = over
         /\ watch'[w].list = watch[w].list
         /\ watch'[w].replica = watch[w].replica
         /\ watch'[w].pre = watch[w].pre
         /\ watch'[w].changed = watch[w].changed
<1> DEFINE todo == IF Config[w].level = 2 THEN 2 ELSE 1
<1>1. /\ watch'[w] = [watch[w] EXCEPT !.pc = pc, !.over = over, !.todo = todo]
      /\ watch[w].pc = "inspect"
  BY DEF Inspected, OwnTypes, At
<1> HIDE DEF todo
<1> QED
  BY <1>1 DEF OwnTypes, WatchType

LEMMA ReportsLastMoves ==
  ASSUME OwnTypes, NEW w \in Watchers, ReportsLast(w)
  PROVE  /\ watch[w].pc = "report" /\ watch'[w].pc = "wait"
         /\ watch'[w].replica = watch[w].replica
         /\ watch'[w].changed = FALSE
<1>1. watch'[w] = [watch[w] EXCEPT !.pc = "wait", !.over = 0, !.pre = 0,
                                  !.changed = FALSE, !.todo = 0]
  BY DEF ReportsLast, OwnTypes
<1> QED
  BY <1>1 DEF ReportsLast, At, OwnTypes, WatchType

(* Outside a release a pass stays clear of the lock. *)
LEMMA PassStaysClear ==
  ASSUME OwnTypes, NEW w \in Watchers, Pass(w) \/ TakeTick(w)
  PROVE  /\ mu' = mu /\ reg' = reg /\ groups' = groups
         /\ \/ watch' = watch /\ timer' = timer
            \/ /\ watch[w].pc \in PassPlaces \cup {"wait"}
               /\ watch'[w].pc \in PassPlaces \cup {"wait", "alert"}
               /\ timer'[w].running = timer[w].running
            \/ /\ watch[w].pc = "exists"
               /\ watch'[w].pc = "lock"
               /\ timer' = [timer EXCEPT ![w].running = FALSE]
<1> USE DEF PassPlaces
<1>1. CASE TakeTick(w)
  BY <1>1, GotoMoves DEF TakeTick, At, OwnTypes
<1>2. CASE ExistsFails(w)
  BY <1>2, GotoMoves DEF ExistsFails, At
<1>3. CASE FindsAbnormal(w)
  BY <1>3, GotoMoves DEF FindsAbnormal, At
<1>4. CASE Exists(w)
  BY <1>4, SeesMoves DEF Exists, At
<1>5. ASSUME NEW over \in Overloads(w), Raises(w, over) \/ RaisesNot(w, over)
      PROVE  /\ mu' = mu /\ reg' = reg /\ groups' = groups /\ timer' = timer
             /\ watch[w].pc = "inspect"
             /\ watch'[w].pc \in {"raise", "weigh", "report"}
  <2>1. over \in Nat /\ {"raise", "weigh", "report"} \subseteq Places
    BY OverloadsType DEF Places
  <2>2. PICK pc \in {"raise", "weigh", "report"} : Inspected(w, over, pc)
    BY <1>5, <2>1 DEF Raises, RaisesNot
  <2> QED
    BY <1>5, <2>1, <2>2, InspectedMoves DEF Raises, RaisesNot, Starts
<1>6. CASE Raised(w) \/ Lowered(w)
  BY <1>6, ChangesMoves DEF Raised, Lowered, At
<1>7. CASE Lowers(w) \/ LowersNot(w)
  BY <1>7, GotoMoves DEF Lowers, LowersNot, Starts, At
<1>8. CASE Calling(w)
  BY <1>8 DEF Calling
<1>9. CASE Reports(w)
  BY <1>9 DEF Reports, At, OwnTypes, WatchType
<1>10. CASE ReportsLast(w)
  BY <1>10, ReportsLastMoves DEF ReportsLast
<1> QED
  BY <1>1, <1>2, <1>3, <1>4, <1>5, <1>6, <1>7, <1>8, <1>9, <1>10 DEF Pass

-----------------------------------------------------------------------------
(* The lock *)

LEMMA LockStep == OwnTypes /\ LockHeld /\ [Next]_vars => LockHeld'
<1> SUFFICES ASSUME OwnTypes, LockHeld, [Next]_vars
             PROVE  LockHeld'
  OBVIOUS
<1>0. Main \notin Watchers /\ Free \notin Watchers /\ Main # Free
  BY WatchAssumption DEF WatchAssumption
<1>1. ASSUME NEW w \in Watchers, Register(w)
      PROVE  LockHeld'
  <2>1. \A x \in Watchers : x # w => watch'[x] = watch[x]
    BY <1>1, OnlyOneMoves
  <2>2. CASE RegisterFails(w)
    BY <2>2 DEF RegisterFails, LockHeld, OwnTypes
  <2>3. ASSUME NEW n \in PodCounts, RegisterLists(w, n)
        PROVE  LockHeld'
    <3>1. watch'[w].pc = watch[w].pc
      BY <2>3 DEF RegisterLists, OwnTypes, WatchType
    <3> QED
      BY <2>1, <2>3, <3>1 DEF RegisterLists, LockHeld, OwnTypes
  <2>4. CASE RegisterLocks(w)
    BY <1>0, <2>4 DEF RegisterLocks, LockHeld, OwnTypes
  <2>5. CASE Timestart(w)
    BY <1>0, <2>1, <2>5, GotoMoves, ZenonT(60) DEF Timestart, LockHeld, OwnTypes
  <2>6. CASE RegisterAppends(w)
    BY <1>0, <2>6 DEF RegisterAppends, LockHeld, OwnTypes
  <2> QED
    BY <1>1, <2>2, <2>3, <2>4, <2>5, <2>6 DEF Register
<1>2. ASSUME NEW w \in Watchers, Tick(w)
      PROVE  LockHeld'
  BY <1>2 DEF Tick, LockHeld
<1>3. ASSUME NEW w \in Watchers, Pass(w) \/ TakeTick(w)
      PROVE  LockHeld'
  <2>1. \A x \in Watchers : x # w => watch'[x] = watch[x]
    BY <1>3, OnlyOneMoves DEF Goroutine
  <2> QED
    BY <1>3, <2>1, PassStaysClear DEF LockHeld, PassPlaces
<1>4. ASSUME NEW w \in Watchers, Release(w)
      PROVE  LockHeld'
  <2>1. \A x \in Watchers : x # w => watch'[x] = watch[x]
    BY <1>4, OnlyOneMoves DEF Goroutine
  <2>2. CASE Locks(w)
    BY <1>0, <2>1, <2>2, GotoMoves DEF Locks, LockHeld, At
  <2>3. CASE Removes(w)
    BY <1>0, <2>1, <2>3, GotoMoves DEF Removes, LockHeld, At
  <2>4. CASE RelistFails(w)
    BY <1>0, <2>1, <2>4, GotoMoves DEF RelistFails, LockHeld, At
  <2>5. ASSUME NEW n \in PodCounts, Relists(w, n)
        PROVE  LockHeld'
    <3>1. watch[w].pc = "relist" /\ watch'[w].pc = "wait"
      BY <2>5 DEF Relists, At, OwnTypes, WatchType
    <3> QED
      BY <1>0, <2>1, <2>5, <3>1 DEF Relists, LockHeld
  <2> QED
    BY <1>4, <2>2, <2>3, <2>4, <2>5 DEF Release
<1>5. CASE Elapse \/ Cluster \/ UNCHANGED vars
  BY <1>5 DEF Elapse, Cluster, vars, LockHeld
<1> QED
  BY <1>1, <1>2, <1>3, <1>4, <1>5 DEF Next, Goroutine

LEMMA OwnTypesAlways == Spec => []OwnTypes
<1>1. TypeOK => OwnTypes
  BY DEF TypeOK, OwnTypes
<1> QED
  BY <1>1, TypeCorrect, PTL

(* deployments.mu is held exactly by the goroutine that is between its     *)
(* Lock and its Unlock, be it main or one of any number of watchers.       *)
THEOREM LockHeldAlways == Spec => []LockHeld
<1>1. Init => LockHeld
  BY WatchAssumption DEF WatchAssumption, Init, LockHeld
<1> QED
  BY <1>1, LockStep, OwnTypesAlways, PTL DEF Spec

-----------------------------------------------------------------------------
(* Registration *)

(* What a watcher is like before its goroutine is started. *)
Untouched(w) ==
  /\ watch[w].pc = "none"
  /\ ~timer[w].running /\ ~timer[w].tick
  /\ hist[w].late = 0 /\ hist[w].did = {}

Waits(w) == w \in reg.left \/ (reg.who = w /\ reg.at \in {"lock", "start"})

Registering ==
  /\ reg.at = "next" <=> reg.who = Main
  /\ reg.who \notin reg.left
  /\ \A w \in Watchers : Waits(w) => Untouched(w)

(* What the properties ask of the history and no other step touches. *)
SameCounts(w) ==
  /\ hist'[w].late = hist[w].late
  /\ hist'[w].did = hist[w].did
  /\ hist'[w].kept = hist[w].kept

LEMMA KnownKeeps ==
  ASSUME NEW h \in HistType, NEW b
  PROVE  /\ [h EXCEPT !.known = b].late = h.late
         /\ [h EXCEPT !.known = b].did = h.did
         /\ [h EXCEPT !.known = b].kept = h.kept
  BY DEF HistType

LEMMA BystandersKeep ==
  ASSUME OwnTypes, Elapse \/ Cluster \/ UNCHANGED vars
  PROVE  /\ watch' = watch /\ timer' = timer /\ reg' = reg
         /\ mu' = mu /\ groups' = groups
         /\ \A x \in Watchers : SameCounts(x)
<1>1. CASE Elapse
  BY <1>1 DEF Elapse, SameCounts, OwnTypes, HistType
<1>2. CASE Cluster
  <2>1. \A x \in Watchers :
          hist'[x] = [hist[x] EXCEPT !.known =
                        @ /\ obj'.replicas = obj.replicas]
    BY <1>2 DEF Cluster
  <2> QED
    BY <1>2, <2>1, KnownKeeps DEF Cluster, SameCounts, OwnTypes
<1>3. CASE UNCHANGED vars
  BY <1>3 DEF vars, SameCounts
<1> QED
  BY <1>1, <1>2, <1>3

LEMMA CallingKeeps ==
  ASSUME OwnTypes, NEW w \in Watchers, Calling(w)
  PROVE  /\ watch' = watch /\ timer' = timer /\ reg' = reg
         /\ mu' = mu /\ groups' = groups
         /\ \A x \in Watchers : SameCounts(x)
<1>1. \A x \in Watchers :
        hist'[x] = [hist[x] EXCEPT !.known = @ /\ StillKnown(x, w)]
  BY DEF Calling
<1> QED
  BY <1>1, KnownKeeps DEF Calling, SameCounts, OwnTypes

LEMMA OthersKeep ==
  ASSUME OwnTypes, NEW w \in Watchers, Register(w) \/ Tick(w) \/ Goroutine(w),
         NEW x \in Watchers, x # w
  PROVE  watch'[x] = watch[x] /\ timer'[x] = timer[x] /\ SameCounts(x)
<1>0. watch'[x] = watch[x]
  BY OnlyOneMoves
<1>1. CASE Register(w)
  BY <1>0, <1>1 DEF Register, RegisterFails, RegisterLists, RegisterLocks,
     Timestart, RegisterAppends, SameCounts, OwnTypes
<1>2. CASE Tick(w) \/ TakeTick(w)
  BY <1>0, <1>2 DEF Tick, TakeTick, SameCounts, OwnTypes
<1>3. CASE Pass(w) /\ ~Calling(w)
  BY <1>0, <1>3 DEF Pass, Exists, ExistsFails, FindsAbnormal, Raises,
     RaisesNot, Raised, Lowers, LowersNot, Lowered, Starts, Reports,
     ReportsLast, SameCounts, OwnTypes
<1>4. CASE Calling(w)
  BY <1>4, CallingKeeps
<1>5. CASE Release(w)
  BY <1>0, <1>5 DEF Release, Locks, Removes, RelistFails, Relists,
     SameCounts, OwnTypes
<1> QED
  BY <1>1, <1>2, <1>3, <1>4, <1>5 DEF Goroutine

(* A goroutine that runs is past its registration's first steps. *)
LEMMA RunsStarted ==
  ASSUME OwnTypes, NEW w \in Watchers, Goroutine(w), ~Calling(w)
  PROVE  watch[w].pc # "none" /\ reg' = reg
<1>1. CASE TakeTick(w)
  BY <1>1 DEF TakeTick, At
<1>2. CASE Pass(w)
  BY <1>2 DEF Pass, Exists, ExistsFails, FindsAbnormal, Raises, RaisesNot,
     Inspected, Raised, Lowers, LowersNot, Lowered, Starts, Reports,
     ReportsLast, At
<1>3. CASE Release(w)
  BY <1>3 DEF Release, Locks, Removes, RelistFails, Relists, At
<1> QED
  BY <1>1, <1>2, <1>3 DEF Goroutine

LEMMA RegisteringStep ==
  OwnTypes /\ Registering /\ [Next]_vars => Registering'
<1> SUFFICES ASSUME OwnTypes, Registering, [Next]_vars
             PROVE  Registering'
  OBVIOUS
<1>0. Main \notin Watchers
  BY WatchAssumption DEF WatchAssumption
<1>1. ASSUME NEW w \in Watchers, Register(w)
      PROVE  Registering'
  <2>0. \A x \in Watchers :
          x # w => /\ watch'[x] = watch[x] /\ timer'[x] = timer[x]
                   /\ SameCounts(x)
    BY <1>1, OthersKeep
  <2>1. CASE RegisterFails(w)
    BY <1>0, <2>1 DEF RegisterFails, Registering, Waits, Untouched, OwnTypes
  <2>2. ASSUME NEW n \in PodCounts, RegisterLists(w, n)
        PROVE  Registering'
    <3>1. watch'[w].pc = watch[w].pc
      BY <2>2 DEF RegisterLists, OwnTypes, WatchType
    <3>2. Untouched(w)
      BY <2>2 DEF RegisterLists, Registering, Waits
    <3>3. Untouched(w)'
      BY <2>2, <3>1, <3>2 DEF RegisterLists, Untouched
    <3>4. /\ reg'.at = "lock" /\ reg'.who = w
          /\ reg'.left = reg.left \ {w} /\ reg.at = "next"
      BY <2>2 DEF RegisterLists
    <3> QED
      BY <1>0, <2>0, <3>3, <3>4
      DEF Registering, Waits, Untouched, SameCounts
  <2>3. CASE RegisterLocks(w)
    BY <1>0, <2>3 DEF RegisterLocks, Registering, Waits, Untouched, OwnTypes
  <2>4. CASE Timestart(w)
    <3>1. /\ reg.at = "start" /\ reg.who = w
          /\ reg'.at = "append" /\ reg'.who = w /\ reg'.left = reg.left
      BY <2>4 DEF Timestart, OwnTypes
    <3> QED
      BY <1>0, <2>0, <3>1 DEF Registering, Waits, Untouched, SameCounts
  <2>5. CASE RegisterAppends(w)
    <3>1. /\ reg.at = "append" /\ reg.who = w
          /\ reg'.at = "next" /\ reg'.who = Main /\ reg'.left = reg.left
      BY <2>5 DEF RegisterAppends, OwnTypes
    <3>2. Main \notin reg.left
      BY <1>0 DEF OwnTypes
    <3> QED
      BY <2>5, <3>1, <3>2
      DEF RegisterAppends, Registering, Waits, Untouched
  <2> QED
    BY <1>1, <2>1, <2>2, <2>3, <2>4, <2>5 DEF Register
<1>2. ASSUME NEW w \in Watchers, Tick(w)
      PROVE  Registering'
  <2>1. ~Waits(w)
    BY <1>2 DEF Tick, Registering, Untouched
  <2> QED
    BY <1>2, <2>1, OthersKeep
    DEF Tick, Registering, Waits, Untouched, SameCounts
<1>3. ASSUME NEW w \in Watchers, Goroutine(w)
      PROVE  Registering'
  <2>1. CASE Calling(w)
    BY <2>1, CallingKeeps DEF Registering, Waits, Untouched, SameCounts
  <2>2. CASE ~Calling(w)
    <3>1. ~Waits(w) /\ reg' = reg
      BY <1>3, <2>2, RunsStarted DEF Registering, Untouched
    <3> QED
      BY <1>3, <3>1, OthersKeep DEF Registering, Waits, Untouched, SameCounts
  <2> QED
    BY <2>1, <2>2
<1>4. CASE Elapse \/ Cluster \/ UNCHANGED vars
  BY <1>4, BystandersKeep DEF Registering, Waits, Untouched, SameCounts
<1> QED
  BY <1>1, <1>2, <1>3, <1>4 DEF Next

LEMMA RegisteringAlways == Spec => []Registering
<1>1. Init => Registering
  BY WatchAssumption
  DEF WatchAssumption, Init, Registering, Waits, Untouched
<1> QED
  BY <1>1, RegisteringStep, OwnTypesAlways, PTL DEF Spec

-----------------------------------------------------------------------------
(* The two decisions of a pass *)

(* Whether the first decision, as it was made, called for one more.        *)
WantedMore(w) ==
  watch[w].list - 1 <= watch[w].over \/ watch[w].list <= Config[w].min

(* A watcher that has raised and not yet weighed the second decision still *)
(* has the reasons for raising before it.                                  *)
Decided ==
  \A w \in Watchers :
    /\ hist[w].did # {} => watch[w].pc \in {"raise", "weigh", "lower", "report"}
    /\ "dec" \in hist[w].did => watch[w].pc \in {"lower", "report"}
    /\ "inc" \in hist[w].did /\ watch[w].pc \in {"raise", "weigh"} =>
         WantedMore(w)
    /\ Config[w].min >= 1 => hist[w].did # {"inc", "dec"}

LEMMA DecidedPass ==
  ASSUME OwnTypes, Decided, NEW w \in Watchers, Pass(w) \/ TakeTick(w)
  PROVE  /\ hist'[w].did # {} =>
              watch'[w].pc \in {"raise", "weigh", "lower", "report"}
         /\ "dec" \in hist'[w].did => watch'[w].pc \in {"lower", "report"}
         /\ "inc" \in hist'[w].did /\ watch'[w].pc \in {"raise", "weigh"} =>
              WantedMore(w)'
         /\ Config[w].min >= 1 => hist'[w].did # {"inc", "dec"}
<1>0. /\ hist[w] \in HistType /\ watch[w] \in WatchType
      /\ hist[w].did \subseteq {"inc", "dec"}
      /\ Config[w].min \in Int
      /\ watch[w].list \in Nat /\ watch[w].over \in Nat
  BY WatchAssumption DEF WatchAssumption, ConfigType, OwnTypes, HistType,
                         WatchType
<1>1. CASE Exists(w) \/ ExistsFails(w) \/ FindsAbnormal(w) \/ TakeTick(w)
  <2>1. hist[w].did = {}
    BY <1>0, <1>1 DEF Exists, ExistsFails, FindsAbnormal, TakeTick, At, Decided
  <2>2. hist'[w].did = {}
    <3>1. CASE Exists(w)
      BY <1>0, <2>1, <3>1 DEF Exists, OwnTypes, HistType
    <3>2. CASE TakeTick(w)
      BY <1>0, <2>1, <3>2 DEF TakeTick, OwnTypes, HistType
    <3>3. CASE ExistsFails(w) \/ FindsAbnormal(w)
      BY <2>1, <3>3 DEF ExistsFails, FindsAbnormal
    <3> QED
      BY <1>1, <3>1, <3>2, <3>3
  <2> QED
    BY <2>2
<1>2. ASSUME NEW over \in Overloads(w), Raises(w, over)
      PROVE  /\ hist'[w].did = {"inc"}
             /\ watch'[w].pc = "raise"
             /\ WantedMore(w)'
  <2>0. over \in Nat /\ "raise" \in Places
    BY OverloadsType DEF Places, PassPlaces
  <2>1. /\ watch[w].pc = "inspect" /\ watch'[w].pc = "raise"
        /\ watch'[w].over = over /\ watch'[w].list = watch[w].list
    BY <1>2, <2>0, InspectedMoves DEF Raises
  <2>2. hist[w].did = {}
    BY <1>0, <2>1 DEF Decided
  <2>3. hist'[w].did = hist[w].did \cup {"inc"}
    BY <1>0, <1>2 DEF Raises, Starts, OwnTypes, HistType
  <2> QED
    BY <1>2, <2>1, <2>2, <2>3 DEF Raises, WantsMore, WantedMore
<1>3. ASSUME NEW over \in Overloads(w), RaisesNot(w, over)
      PROVE  hist'[w].did = {}
  BY <1>0, <1>3 DEF RaisesNot, Inspected, At, Decided
<1>4. CASE Raised(w)
  <2>1. /\ watch[w].pc = "raise" /\ watch'[w].pc = "weigh"
        /\ watch'[w].over = watch[w].over /\ watch'[w].list = watch[w].list
    BY <1>4, ChangesMoves DEF Raised, At
  <2>2. hist'[w].did = hist[w].did
    BY <1>0, <1>4 DEF Raised, OwnTypes, HistType
  <2> QED
    BY <2>1, <2>2 DEF Decided, WantedMore
<1>5. CASE Lowers(w)
  <2>1. /\ watch[w].pc = "weigh" /\ watch'[w].pc = "lower"
        /\ watch[w].over = 0 /\ watch[w].list > Config[w].min
    BY <1>5, GotoMoves DEF Lowers, WantsLess, At
  <2>2. hist'[w].did = hist[w].did \cup {"dec"}
    BY <1>0, <1>5 DEF Lowers, Starts, OwnTypes, HistType
  <2>3. Config[w].min >= 1 => "inc" \notin hist[w].did
    BY <1>0, <2>1 DEF Decided, WantedMore
  <2> QED
    BY <2>1, <2>2, <2>3
<1>6. CASE LowersNot(w)
  BY <1>6, GotoMoves DEF LowersNot, At, Decided
<1>7. CASE Lowered(w)
  <2>1. watch[w].pc = "lower" /\ watch'[w].pc = "report"
    BY <1>7, ChangesMoves DEF Lowered, At
  <2> QED
    BY <1>7, <2>1 DEF Lowered, Decided
<1>8. CASE Calling(w)
  BY <1>8, CallingKeeps DEF SameCounts, Decided, WantedMore
<1>9. CASE Reports(w)
  <2>1. watch[w].pc = "report" /\ watch'[w].pc = "report"
    BY <1>0, <1>9 DEF Reports, At, OwnTypes, WatchType
  <2> QED
    BY <1>9, <2>1 DEF Reports, Decided
<1>10. CASE ReportsLast(w)
  <2>1. hist'[w].did = {}
    BY <1>0, <1>10 DEF ReportsLast, OwnTypes, HistType
  <2> QED
    BY <2>1
<1> QED
  BY <1>1, <1>2, <1>3, <1>4, <1>5, <1>6, <1>7, <1>8, <1>9, <1>10 DEF Pass

LEMMA DecidedStep ==
  OwnTypes /\ Registering /\ Decided /\ [Next]_vars => Decided'
<1> SUFFICES ASSUME OwnTypes, Registering, Decided, [Next]_vars
             PROVE  Decided'
  OBVIOUS
<1>1. ASSUME NEW w \in Watchers, Register(w) \/ Release(w) \/ Tick(w)
      PROVE  Decided'
  <2>1. hist' = hist
    BY <1>1 DEF Register, RegisterFails, RegisterLists, RegisterLocks,
       Timestart, RegisterAppends, Release, Locks, Removes, RelistFails,
       Relists, Tick
  <2>2. watch'[w] = watch[w] \/ hist[w].did = {}
    BY <1>1 DEF Register, RegisterFails, RegisterLists, RegisterLocks,
       Timestart, RegisterAppends, Release, Locks, Removes, RelistFails,
       Relists, Tick, At, Registering, Waits, Untouched, Decided
  <2>3. \A x \in Watchers : watch'[x] = watch[x] \/ hist[x].did = {}
    BY <1>1, <2>2, OthersKeep DEF Goroutine
  <2> QED
    BY <2>1, <2>3 DEF Decided, WantedMore
<1>2. ASSUME NEW w \in Watchers, Pass(w) \/ TakeTick(w)
      PROVE  Decided'
  <2>1. \A x \in Watchers : x # w => watch'[x] = watch[x] /\ SameCounts(x)
    BY <1>2, OthersKeep DEF Goroutine
  <2> QED
    BY <1>2, <2>1, DecidedPass DEF Decided, WantedMore, SameCounts
<1>3. CASE Elapse \/ Cluster \/ UNCHANGED vars
  BY <1>3, BystandersKeep DEF Decided, WantedMore, SameCounts
<1> QED
  BY <1>1, <1>2, <1>3 DEF Next, Goroutine

(* One pass never works against itself, although it decides twice on the   *)
(* same readings: with a MinReplicas of 1 or more nothing that calls for a *)
(* raise lets the pods be called idle.                                     *)
THEOREM NoBothWaysAlways == Spec => []NoBothWays
<1>1. Init => Decided
  <2>1. Init => \A w \in Watchers : hist[w].did = {}
    BY DEF Init
  <2>2. {"inc", "dec"} # {}
    OBVIOUS
  <2> QED
    BY <2>1, <2>2 DEF Decided
<1>2. Decided => NoBothWays
  BY DEF Decided, NoBothWays
<1> QED
  BY <1>1, <1>2, DecidedStep, OwnTypesAlways, RegisteringAlways, PTL DEF Spec

-----------------------------------------------------------------------------
(* deployments.groups *)

Distinct == \A i, j \in DOMAIN groups : groups[i] = groups[j] => i = j

(* What one watcher has to do with the registry. *)
Registered(w) ==
  /\ w \in reg.left \/ reg.who = w => ~InGroups(w)
  /\ reg.at = "append" /\ reg.who = w =>
       timer[w].running \/ watch[w].pc = "lock"
  /\ watch[w].pc \in ReleasePlaces => ~timer[w].running
  /\ timer[w].running => InGroups(w) \/ reg.who = w
  /\ InGroups(w) => timer[w].running \/ watch[w].pc \in {"lock", "remove"}

Registry == Distinct /\ \A w \in Watchers : Registered(w)

(* append(groups, w) for a w that is not there *)
LEMMA AppendRegistry ==
  ASSUME OwnTypes, Distinct, NEW w \in Watchers, ~InGroups(w),
         groups' = Append(groups, w)
  PROVE  /\ Distinct'
         /\ \A x \in Watchers : InGroups(x)' <=> InGroups(x) \/ x = w
<1> DEFINE n == Len(groups)
<1>1. n \in Nat /\ DOMAIN groups = 1..n
  BY DEF OwnTypes
<1>2. DOMAIN groups' = 1..n + 1
  BY DEF OwnTypes
<1>3. groups'[n + 1] = w /\ \A i \in 1..n : groups'[i] = groups[i]
  BY DEF OwnTypes
<1> HIDE DEF n
<1>4. \A i \in 1..n : groups[i] # w
  BY <1>1 DEF InGroups
<1>5. Distinct'
  BY <1>1, <1>2, <1>3, <1>4 DEF Distinct
<1>6. ASSUME NEW x \in Watchers
      PROVE  InGroups(x)' <=> InGroups(x) \/ x = w
  <2>1. InGroups(x) => InGroups(x)'
    BY <1>1, <1>2, <1>3 DEF InGroups
  <2>2. x = w => InGroups(x)'
    BY <1>1, <1>2, <1>3 DEF InGroups
  <2>3. InGroups(x)' => InGroups(x) \/ x = w
    BY <1>1, <1>2, <1>3 DEF InGroups
  <2> QED
    BY <2>1, <2>2, <2>3
<1> QED
  BY <1>5, <1>6

(* append(groups[:index], groups[index+1:]...) *)
LEMMA RemoveRegistry ==
  ASSUME OwnTypes, Distinct, NEW index \in DOMAIN groups,
         groups' = RemoveAt(groups, index)
  PROVE  /\ Distinct'
         /\ \A x \in Watchers :
              InGroups(x)' <=> InGroups(x) /\ x # groups[index]
<1> DEFINE n == Len(groups)
<1>1. n \in Nat /\ DOMAIN groups = 1..n /\ index \in 1..n
  BY DEF OwnTypes
<1>2. DOMAIN groups' = 1..n - 1
  BY RemoveAtType DEF OwnTypes
<1>3. \A j \in 1..n - 1 :
        groups'[j] = IF j < index THEN groups[j] ELSE groups[j + 1]
  BY RemoveAtType DEF OwnTypes
<1> HIDE DEF n
<1>4. \A i, j \in 1..n : groups[i] = groups[j] => i = j
  BY <1>1 DEF Distinct
<1>5. Distinct'
  BY <1>1, <1>2, <1>3, <1>4 DEF Distinct
<1>6. ASSUME NEW x \in Watchers
      PROVE  InGroups(x)' <=> InGroups(x) /\ x # groups[index]
  <2>1. ASSUME InGroups(x)'
        PROVE  InGroups(x) /\ x # groups[index]
    <3>1. PICK j \in 1..n - 1 : groups'[j] = x
      BY <1>2, <2>1 DEF InGroups
    <3>2. PICK i \in 1..n : i # index /\ groups[i] = x
      BY <1>1, <1>3, <3>1
    <3> QED
      BY <1>1, <1>4, <3>2 DEF InGroups
  <2>2. ASSUME InGroups(x), x # groups[index]
        PROVE  InGroups(x)'
    <3>1. PICK i \in 1..n : groups[i] = x
      BY <1>1, <2>2 DEF InGroups
    <3> DEFINE j == IF i < index THEN i ELSE i - 1
    <3>2. i # index
      BY <2>2, <3>1
    <3>3. j \in 1..n - 1 /\ groups'[j] = x
      BY <1>1, <1>3, <3>1, <3>2
    <3> QED
      BY <1>2, <3>3 DEF InGroups
  <2> QED
    BY <2>1, <2>2
<1> QED
  BY <1>5, <1>6

(* Nothing is asked again of a watcher that has not moved. *)
LEMMA RegisteredStays ==
  ASSUME NEW x, Registered(x), watch'[x].pc = watch[x].pc,
         timer'[x].running = timer[x].running, reg' = reg,
         InGroups(x)' <=> InGroups(x)
  PROVE  Registered(x)'
  BY DEF Registered

LEMMA SameGroups ==
  ASSUME groups' = groups
  PROVE  /\ Distinct' <=> Distinct
         /\ \A x : InGroups(x)' <=> InGroups(x)
  BY DEF Distinct, InGroups

LEMMA RegisterRegistry ==
  ASSUME OwnTypes, Registering, Registry, NEW w \in Watchers, Register(w)
  PROVE  Registry'
<1>0. /\ Main \notin Watchers
      /\ \A x \in Watchers :
           x # w => watch'[x] = watch[x] /\ timer'[x] = timer[x]
  BY WatchAssumption, OthersKeep DEF WatchAssumption
<1>1. CASE RegisterFails(w)
  <2>1. /\ reg'.at = reg.at /\ reg'.who = reg.who /\ reg'.left \subseteq reg.left
    BY <1>1 DEF RegisterFails, OwnTypes
  <2> QED
    BY <1>1, <2>1, SameGroups DEF RegisterFails, Registry, Registered
<1>2. ASSUME NEW n \in PodCounts, RegisterLists(w, n)
      PROVE  Registry'
  <2>1. /\ watch'[w].pc = watch[w].pc /\ timer' = timer
        /\ reg.who = Main /\ w \in reg.left
        /\ reg'.at = "lock" /\ reg'.who = w /\ reg'.left = reg.left \ {w}
    BY <1>2 DEF RegisterLists, OwnTypes, WatchType, Registering
  <2>2. ASSUME NEW x \in Watchers
        PROVE  Registered(x)'
    BY <1>0, <1>2, <2>1, SameGroups DEF RegisterLists, Registry, Registered
  <2> QED
    BY <1>2, <2>2, SameGroups DEF RegisterLists, Registry
<1>3. CASE RegisterLocks(w)
  <2>1. /\ watch' = watch /\ timer' = timer
        /\ reg'.at = "start" /\ reg'.who = reg.who /\ reg'.left = reg.left
    BY <1>3 DEF RegisterLocks, OwnTypes
  <2> QED
    BY <1>3, <2>1, SameGroups DEF RegisterLocks, Registry, Registered
<1>4. CASE Timestart(w)
  <2>1. /\ watch'[w].pc = "wait" /\ timer'[w].running = TRUE
        /\ reg.who = w
        /\ reg'.at = "append" /\ reg'.who = w /\ reg'.left = reg.left
    BY <1>4, GotoMoves DEF Timestart, OwnTypes
  <2>2. ASSUME NEW x \in Watchers
        PROVE  Registered(x)'
    BY <1>0, <1>4, <2>1, SameGroups
    DEF Timestart, Registry, Registered, ReleasePlaces
  <2> QED
    BY <1>4, <2>2, SameGroups DEF Timestart, Registry
<1>5. CASE RegisterAppends(w)
  <2>1. /\ watch' = watch /\ timer' = timer
        /\ reg.at = "append" /\ reg.who = w
        /\ reg'.at = "next" /\ reg'.who = Main /\ reg'.left = reg.left
    BY <1>5 DEF RegisterAppends, OwnTypes
  <2>2. ~InGroups(w) /\ w \notin reg.left
    BY <2>1 DEF Registry, Registered, Registering
  <2>3. Distinct' /\ \A x \in Watchers : InGroups(x)' <=> InGroups(x) \/ x = w
    BY <1>5, <2>2, AppendRegistry DEF RegisterAppends, Registry
  <2>4. ASSUME NEW x \in Watchers
        PROVE  Registered(x)'
    BY <1>0, <2>1, <2>2, <2>3 DEF Registry, Registered
  <2> QED
    BY <2>3, <2>4 DEF Registry
<1> QED
  BY <1>1, <1>2, <1>3, <1>4, <1>5 DEF Register

LEMMA PassRegistry ==
  ASSUME OwnTypes, Registry, NEW w \in Watchers, Pass(w) \/ TakeTick(w)
  PROVE  Registry'
<1>0. /\ reg' = reg /\ groups' = groups
      /\ \A x \in Watchers :
           x # w => watch'[x] = watch[x] /\ timer'[x] = timer[x]
  BY PassStaysClear, OthersKeep DEF Goroutine
<1>1. \A x \in Watchers : x # w => Registered(x)'
  BY <1>0, SameGroups, RegisteredStays DEF Registry
<1>2. CASE watch' = watch /\ timer' = timer
  BY <1>0, <1>2, SameGroups DEF Registry, Registered
<1>3. CASE /\ watch[w].pc \in PassPlaces \cup {"wait"}
           /\ watch'[w].pc \in PassPlaces \cup {"wait", "alert"}
           /\ timer'[w].running = timer[w].running
  <2>1. /\ watch[w].pc \notin ReleasePlaces
        /\ watch'[w].pc \notin ReleasePlaces
    BY <1>3 DEF PassPlaces, ReleasePlaces
  <2>2. Registered(w)'
    BY <1>0, <1>3, <2>1, SameGroups DEF Registry, Registered, ReleasePlaces
  <2> QED
    BY <1>0, <1>1, <2>2, SameGroups DEF Registry
<1>4. CASE /\ watch[w].pc = "exists"
           /\ watch'[w].pc = "lock"
           /\ timer' = [timer EXCEPT ![w].running = FALSE]
  <2>1. timer'[w].running = FALSE
    BY <1>4 DEF OwnTypes
  <2>2. Registered(w)'
    BY <1>0, <1>4, <2>1, SameGroups DEF Registry, Registered
  <2> QED
    BY <1>0, <1>1, <2>2, SameGroups DEF Registry
<1> QED
  BY <1>2, <1>3, <1>4, PassStaysClear

LEMMA ReleaseRegistry ==
  ASSUME OwnTypes, Registering, LockHeld, Registry, NEW w \in Watchers,
         Release(w)
  PROVE  Registry'
<1>0. /\ reg' = reg /\ timer' = timer
      /\ \A x \in Watchers : x # w => watch'[x] = watch[x]
  BY OthersKeep
  DEF Goroutine, Release, Locks, Removes, RelistFails, Relists
<1>1. Main \notin Watchers
  BY WatchAssumption DEF WatchAssumption
<1>2. CASE Removes(w)
  <2>1. watch[w].pc = "remove" /\ watch'[w].pc = "relock"
    BY <1>2, GotoMoves DEF Removes, At
  <2>2. ~timer[w].running
    BY <2>1 DEF Registry, Registered, ReleasePlaces
  <2>3. ~(reg.at = "append" /\ reg.who = w)
    BY <2>1, <2>2 DEF Registry, Registered
  <2>4. /\ Distinct'
        /\ \A x \in Watchers : InGroups(x)' <=> InGroups(x) /\ x # w
    <3>1. ASSUME NEW index \in DOMAIN groups, groups[index] = w,
                 groups' = RemoveAt(groups, index)
          PROVE  /\ Distinct'
                 /\ \A x \in Watchers : InGroups(x)' <=> InGroups(x) /\ x # w
      BY <3>1, RemoveRegistry DEF Registry
    <3>2. CASE ~InGroups(w) /\ groups' = groups
      BY <3>2, SameGroups DEF Registry
    <3> QED
      BY <1>2, <3>1, <3>2 DEF Removes, InGroups
  <2>5. ASSUME NEW x \in Watchers
        PROVE  Registered(x)'
    <3>1. CASE x = w
      BY <1>0, <2>1, <2>2, <2>3, <2>4, <3>1 DEF Registry, Registered
    <3>2. CASE x # w
      BY <1>0, <2>4, <3>2, RegisteredStays DEF Registry
    <3> QED
      BY <3>1, <3>2
  <2> QED
    BY <2>4, <2>5 DEF Registry
<1>3. CASE ~Removes(w)
  <2>1. groups' = groups
    BY <1>3 DEF Release, Locks, RelistFails, Relists
  <2>2. \/ watch[w].pc = "lock" /\ watch'[w].pc = "remove" /\ mu = Free
        \/ watch[w].pc = "relock" /\ watch'[w].pc = "relist"
        \/ watch[w].pc = "relist" /\ watch'[w].pc = "wait"
    <3>1. CASE Locks(w)
      BY <3>1, GotoMoves DEF Locks, At
    <3>2. CASE RelistFails(w)
      BY <3>2, GotoMoves DEF RelistFails, At
    <3>3. ASSUME NEW n \in PodCounts, Relists(w, n)
          PROVE  watch[w].pc = "relist" /\ watch'[w].pc = "wait"
      BY <3>3 DEF Relists, At, OwnTypes, WatchType
    <3> QED
      BY <1>3, <3>1, <3>2, <3>3 DEF Release
  <2>3. ~timer[w].running
    BY <2>2 DEF Registry, Registered, ReleasePlaces
  <2>4. ~(reg.at = "append" /\ reg.who = w)
    BY <2>2, <2>3, WatchAssumption
    DEF WatchAssumption, LockHeld, Registry, Registered
  <2>5. Registered(w)'
    BY <1>0, <2>1, <2>2, <2>3, <2>4, SameGroups
    DEF Registry, Registered, ReleasePlaces
  <2>6. \A x \in Watchers : x # w => Registered(x)'
    BY <1>0, <2>1, SameGroups, RegisteredStays DEF Registry
  <2> QED
    BY <2>1, <2>5, <2>6, SameGroups DEF Registry
<1> QED
  BY <1>2, <1>3

LEMMA RegistryStep ==
  OwnTypes /\ Registering /\ LockHeld /\ Registry /\ [Next]_vars => Registry'
<1> SUFFICES ASSUME OwnTypes, Registering, LockHeld, Registry, [Next]_vars
             PROVE  Registry'
  OBVIOUS
<1>1. ASSUME NEW w \in Watchers, Tick(w)
      PROVE  Registry'
  <2>1. /\ watch' = watch /\ reg' = reg /\ groups' = groups
        /\ \A x \in Watchers : timer'[x].running = timer[x].running
    BY <1>1 DEF Tick, OwnTypes
  <2> QED
    BY <2>1, SameGroups DEF Registry, Registered
<1>2. CASE Elapse \/ Cluster \/ UNCHANGED vars
  BY <1>2, BystandersKeep, SameGroups DEF Registry, Registered
<1> QED
  BY <1>1, <1>2, RegisterRegistry, PassRegistry, ReleaseRegistry
  DEF Next, Goroutine

LEMMA RegistryAlways == Spec => []Registry
<1>1. Init => Registry
  BY WatchAssumption
  DEF WatchAssumption, Init, Registry, Registered, Distinct, InGroups,
      ReleasePlaces
<1> QED
  BY <1>1, RegistryStep, OwnTypesAlways, RegisteringAlways, LockHeldAlways, PTL
  DEF Spec

(* However registrations and releases of any number of watchers are        *)
(* interleaved, the registry lists a watcher once while its ticker runs    *)
(* and loses it with its release; nobody removes another's entry.          *)
THEOREM GroupsExactAlways == Spec => []GroupsExact
<1>1. Registry => GroupsExact
  BY DEF Registry, Registered, Distinct, GroupsExact
<1> QED
  BY <1>1, RegistryAlways, PTL

-----------------------------------------------------------------------------
(* Late passes *)

(* Once a late pass has been counted no tick is left to start another one. *)
Late ==
  \A w \in Watchers :
    /\ hist[w].late <= 1
    /\ timer[w].running \/ timer[w].tick => hist[w].late = 0

LEMMA PassCountsNoLate ==
  ASSUME OwnTypes, NEW w \in Watchers, Pass(w) \/ Release(w)
  PROVE  /\ hist'[w].late = hist[w].late
         /\ timer' = timer \/ timer' = [timer EXCEPT ![w].running = FALSE]
<1>1. CASE Calling(w)
  BY <1>1, CallingKeeps DEF SameCounts
<1>2. CASE Pass(w) /\ ~Calling(w)
  BY <1>2 DEF Pass, Exists, ExistsFails, FindsAbnormal, Raises, RaisesNot,
     Raised, Lowers, LowersNot, Lowered, Starts, Reports, ReportsLast,
     OwnTypes, HistType
<1>3. CASE Release(w)
  BY <1>3 DEF Release, Locks, Removes, RelistFails, Relists
<1> QED
  BY <1>1, <1>2, <1>3

LEMMA LateStep ==
  OwnTypes /\ Registering /\ Registry /\ Late /\ [Next]_vars => Late'
<1> SUFFICES ASSUME OwnTypes, Registering, Registry, Late, [Next]_vars
             PROVE  Late'
  OBVIOUS
<1>1. ASSUME NEW w \in Watchers, Register(w)
      PROVE  Late'
  <2>1. hist' = hist
    BY <1>1 DEF Register, RegisterFails, RegisterLists, RegisterLocks,
                Timestart, RegisterAppends
  <2>2. CASE Timestart(w)
    <3>1. hist[w].late = 0
      BY <2>2 DEF Timestart, Registering, Waits, Untouched
    <3> QED
      BY <2>1, <2>2, <3>1 DEF Timestart, Late, OwnTypes
  <2>3. CASE ~Timestart(w)
    <3>1. timer' = timer
      BY <1>1, <2>3 DEF Register, RegisterFails, RegisterLists,
                        RegisterLocks, RegisterAppends
    <3> QED
      BY <2>1, <3>1 DEF Late
  <2> QED
    BY <2>2, <2>3
<1>2. ASSUME NEW w \in Watchers, Tick(w)
      PROVE  Late'
  BY <1>2 DEF Tick, Late, OwnTypes
<1>3. ASSUME NEW w \in Watchers, TakeTick(w)
      PROVE  Late'
  <2>1. hist[w].late = 0 /\ timer[w].tick
    BY <1>3 DEF TakeTick, Late
  <2>2. hist'[w].late = IF Gone(w) THEN 1 ELSE 0
    BY <1>3, <2>1 DEF TakeTick, OwnTypes, HistType
  <2>5. Gone(w) => ~timer[w].running
    BY DEF Registry, Registered, Gone
  <2>3. timer'[w].running = timer[w].running /\ timer'[w].tick = FALSE
    BY <1>3 DEF TakeTick, OwnTypes
  <2>4. \A x \in Watchers :
          x # w => timer'[x] = timer[x] /\ hist'[x].late = hist[x].late
    BY <1>3, OthersKeep DEF Goroutine, SameCounts
  <2> QED
    BY <2>2, <2>3, <2>4, <2>5 DEF Late
<1>4. ASSUME NEW w \in Watchers, Pass(w) \/ Release(w)
      PROVE  Late'
  <2>1. \A x \in Watchers : hist'[x].late = hist[x].late
    BY <1>4, OthersKeep, PassCountsNoLate DEF Goroutine, SameCounts
  <2>2. timer' = timer \/ timer' = [timer EXCEPT ![w].running = FALSE]
    BY <1>4, PassCountsNoLate
  <2>3. \A x \in Watchers :
          /\ timer'[x].running => timer[x].running
          /\ timer'[x].tick => timer[x].tick
    BY <2>2, ZenonT(60) DEF OwnTypes
  <2> QED
    BY <2>1, <2>3 DEF Late
<1>5. CASE Elapse \/ Cluster \/ UNCHANGED vars
  BY <1>5, BystandersKeep DEF Late, SameCounts
<1> QED
  BY <1>1, <1>2, <1>3, <1>4, <1>5 DEF Next, Goroutine

(* A released watcher wakes at most once more, whatever it does in that    *)
(* pass and however often its passes end in a release.                     *)
THEOREM LatePassBoundAlways == Spec => []LatePassBound
<1>1. Init => Late
  BY DEF Init, Late
<1>2. Late => LatePassBound
  BY DEF Late, LatePassBound
<1> QED
  BY <1>1, <1>2, LateStep, OwnTypesAlways, RegisteringAlways, RegistryAlways,
     PTL DEF Spec

-----------------------------------------------------------------------------
(* The cool-down of a decrease *)

(* archive.Mediate, which a pass compares with the clock, is always the    *)
(* time of the last increase that returned nil.                            *)
MediateExact == \A w \in Watchers : hist[w].sinceUp = age[w]

(* Fields of the history that a step may edit beside sinceUp. *)
LEMMA SinceKeeps ==
  ASSUME NEW h \in HistType, NEW v
  PROVE  /\ [h EXCEPT !.known = v].sinceUp = h.sinceUp
         /\ [h EXCEPT !.did = v].sinceUp = h.sinceUp
         /\ [h EXCEPT !.late = v].sinceUp = h.sinceUp
         /\ [h EXCEPT !.sinceUp = v].sinceUp = v
         /\ [h EXCEPT !.sinceUp = v].did = h.did
  BY DEF HistType

LEMMA MediateGoroutine ==
  ASSUME OwnTypes, MediateExact, NEW w \in Watchers, Pass(w) \/ TakeTick(w)
  PROVE  MediateExact'
<1>0. \A x \in Watchers : hist[x] \in HistType
  BY DEF OwnTypes
<1>1. CASE Raised(w)
  <2> DEFINE t == IF Succeeded(w) THEN 0 ELSE age[w]
  <2>1. age' = [age EXCEPT ![w] = t]
    BY <1>1 DEF Raised
  <2>2. hist' = [hist EXCEPT ![w] = [hist[w] EXCEPT !.sinceUp = t]]
    BY <1>1 DEF Raised, MediateExact
  <2> HIDE DEF t
  <2> QED
    BY <1>0, <2>1, <2>2, SinceKeeps DEF OwnTypes, MediateExact
<1>2. CASE Calling(w)
  <2>1. \A x \in Watchers :
          hist'[x] = [hist[x] EXCEPT !.known = @ /\ StillKnown(x, w)]
    BY <1>2 DEF Calling
  <2>2. \A x \in Watchers : hist'[x].sinceUp = hist[x].sinceUp
    <3> TAKE x \in Watchers
    <3>1. [hist[x] EXCEPT !.known = @ /\ StillKnown(x, w)].sinceUp
            = hist[x].sinceUp
      BY <1>0 DEF HistType
    <3> QED
      BY <2>1, <3>1
  <2> QED
    BY <1>2, <2>2 DEF Calling, MediateExact
<1>3. CASE ReportsLast(w)
  BY <1>0, <1>3 DEF ReportsLast, MediateExact, OwnTypes, HistType
<1>4. CASE Exists(w)
  BY <1>0, <1>4, SinceKeeps DEF Exists, MediateExact, OwnTypes
<1>a. CASE TakeTick(w)
  BY <1>0, <1>a, SinceKeeps DEF TakeTick, MediateExact, OwnTypes
<1>5. ASSUME NEW op, Starts(w, op)
      PROVE  MediateExact'
  BY <1>0, <1>5, SinceKeeps DEF Starts, MediateExact, OwnTypes
<1>b. CASE Lowers(w) \/ \E over \in Overloads(w) : Raises(w, over)
  BY <1>5, <1>b DEF Lowers, Raises
<1>6. CASE \/ ExistsFails(w) \/ FindsAbnormal(w) \/ LowersNot(w)
           \/ Lowered(w) \/ Reports(w)
           \/ \E over \in Overloads(w) : RaisesNot(w, over)
  BY <1>6 DEF ExistsFails, FindsAbnormal, LowersNot, Lowered, Reports,
     RaisesNot, MediateExact
<1> QED
  BY <1>1, <1>2, <1>3, <1>4, <1>a, <1>b, <1>6 DEF Pass

LEMMA MediateStep == OwnTypes /\ MediateExact /\ [Next]_vars => MediateExact'
<1> SUFFICES ASSUME OwnTypes, MediateExact, [Next]_vars
             PROVE  MediateExact'
  OBVIOUS
<1>0. \A x \in Watchers : hist[x] \in HistType
  BY DEF OwnTypes
<1>1. ASSUME NEW w \in Watchers, Register(w) \/ Release(w) \/ Tick(w)
      PROVE  MediateExact'
  BY <1>1 DEF Register, RegisterFails, RegisterLists, RegisterLocks,
     Timestart, RegisterAppends, Release, Locks, Removes, RelistFails,
     Relists, Tick, MediateExact
<1>2. ASSUME NEW w \in Watchers, Pass(w) \/ TakeTick(w)
      PROVE  MediateExact'
  BY <1>2, MediateGoroutine
<1>3. CASE Elapse
  <2>1. \A x \in Watchers : hist'[x].sinceUp = Older(hist[x].sinceUp)
    <3> TAKE x \in Watchers
    <3>1. [hist[x] EXCEPT !.sinceUp = Older(@)].sinceUp
            = Older(hist[x].sinceUp)
      BY <1>0 DEF HistType
    <3> QED
      BY <1>3, <3>1 DEF Elapse
  <2> QED
    BY <1>3, <2>1 DEF Elapse, MediateExact
<1>4. CASE Cluster
  <2>1. \A x \in Watchers : hist'[x].sinceUp = hist[x].sinceUp
    <3> TAKE x \in Watchers
    <3>1. [hist[x] EXCEPT !.known = @ /\ obj'.replicas = obj.replicas].sinceUp
            = hist[x].sinceUp
      BY <1>0 DEF HistType
    <3> QED
      BY <1>4, <3>1 DEF Cluster
  <2> QED
    BY <1>4, <2>1 DEF Cluster, MediateExact
<1>5. CASE UNCHANGED vars
  BY <1>5 DEF vars, MediateExact
<1> QED
  BY <1>1, <1>2, <1>3, <1>4, <1>5 DEF Next, Goroutine

(* Only the second decision starts a decrease. *)
LEMMA DecreaseIsLowers ==
  ASSUME OwnTypes, [Next]_vars, NEW x \in Watchers,
         "dec" \in hist'[x].did \ hist[x].did
  PROVE  Lowers(x)
<1>1. ASSUME NEW w \in Watchers, Register(w) \/ Release(w) \/ Tick(w)
      PROVE  FALSE
  BY <1>1 DEF Register, RegisterFails, RegisterLists, RegisterLocks,
     Timestart, RegisterAppends, Release, Locks, Removes, RelistFails,
     Relists, Tick
<1>2. ASSUME NEW w \in Watchers, Pass(w) \/ TakeTick(w)
      PROVE  Lowers(x)
  <2>1. x = w
    BY <1>2, OthersKeep DEF Goroutine, SameCounts
  <2>2. ~Calling(w)
    BY CallingKeeps DEF SameCounts
  <2>3. ~ \E over \in Overloads(w) : Raises(w, over)
    BY <2>1 DEF Raises, Starts, OwnTypes, HistType
  <2>4. ~Exists(w) /\ ~TakeTick(w) /\ ~Raised(w)
    <3>0. hist[w] \in HistType /\ w \in DOMAIN hist
      BY DEF OwnTypes
    <3>1. ASSUME NEW u, NEW v,
                 hist' = [hist EXCEPT ![w].kept = u, ![w].known = v]
          PROVE  FALSE
      BY <2>1, <3>0, <3>1 DEF HistType
    <3>2. ASSUME NEW v, hist' = [hist EXCEPT ![w].late = v]
          PROVE  FALSE
      BY <2>1, <3>0, <3>2 DEF HistType
    <3>3. ASSUME NEW v, hist' = [hist EXCEPT ![w].sinceUp = v]
          PROVE  FALSE
      BY <2>1, <3>0, <3>3 DEF HistType
    <3> QED
      BY <3>1, <3>2, <3>3 DEF Exists, TakeTick, Raised
  <2>6. ~ReportsLast(w)
    BY <2>1 DEF ReportsLast, OwnTypes, HistType
  <2>5. ~(\/ ExistsFails(w) \/ FindsAbnormal(w) \/ LowersNot(w)
          \/ Lowered(w) \/ Reports(w)
          \/ \E over \in Overloads(w) : RaisesNot(w, over))
    BY DEF ExistsFails, FindsAbnormal, LowersNot, Lowered, Reports, RaisesNot
  <2> QED
    BY <1>2, <2>1, <2>2, <2>3, <2>4, <2>5, <2>6 DEF Pass
<1>3. CASE Elapse \/ Cluster \/ UNCHANGED vars
  BY <1>3, BystandersKeep DEF SameCounts
<1> QED
  BY <1>1, <1>2, <1>3 DEF Next, Goroutine

(* However the time of a raise and the two decisions are spread over the   *)
(* passes, no decrease is started before ScaleDownInterval has passed      *)
(* since the watcher's last increase that returned nil.                    *)
THEOREM CoolsDownAlways == Spec => CoolsDown
<1>1. Init => MediateExact
  BY DEF Init, MediateExact
<1>2. MediateExact /\ OwnTypes /\ [Next]_vars =>
        [\A w \in Watchers :
           "dec" \in hist'[w].did \ hist[w].did =>
             hist[w].sinceUp >= Config[w].downInterval]_vars
  BY DecreaseIsLowers DEF Lowers, WantsLess, MediateExact
<1> QED
  BY <1>1, <1>2, MediateStep, OwnTypesAlways, PTL DEF Spec, CoolsDown

-----------------------------------------------------------------------------
(* The count a report names *)

LEMMA ScaleCoherent == Spec => []Scale!Coherent
<1>1. ScaleFacts!Inv => Scale!Coherent
  BY DEF ScaleFacts!Inv, ScaleFacts!Sound, Scale!Coherent, Scale!Delta,
         ScaleFacts!Delta
<1> QED
  BY <1>1, ScaleInv, PTL

(* By how much the object is ahead of archive.Replica: the call under way  *)
(* has succeeded, and its caller has not taken the result yet.             *)
Ahead(c) == IF c.at = "ok" THEN Scale!Delta(c.op) ELSE 0

(* Where a pass has read the count and not yet made its report. *)
Counting == {"inspect", "raise", "weigh", "lower", "report"}

Informed(w) ==
  /\ watch[w].pc = "raise" => call[w].op = "inc"
  /\ watch[w].pc = "lower" => call[w].op = "dec"
  /\ watch[w].pc \notin {"raise", "lower"} => call[w].at = "idle"
  /\ Config[w].scaleOut /\ hist[w].known =>
       obj.replicas = watch[w].replica + Ahead(call[w])

AllInformed == \A w \in Watchers : Informed(w)

LEMMA OvertakenStays ==
  ASSUME NEW c \in Scale!Calls
  PROVE  Scale!Overtaken(c).op = c.op /\ Scale!Overtaken(c).at = c.at
<1> DEFINE n == IF c.foreign < Steps THEN c.foreign + 1 ELSE Steps
<1>1. Scale!Overtaken(c) = c
      \/ Scale!Overtaken(c) = [c EXCEPT !.fresh = FALSE, !.foreign = n]
  BY DEF Scale!Overtaken
<1> HIDE DEF n
<1> QED
  BY <1>1 DEF Scale!Calls

(* A call that returns nil has moved the count by what it wanted, and a    *)
(* request of one watcher leaves the calls of the others where they are.   *)
LEMMA AnswerMoves ==
  ASSUME Scale!TypeOK, Scale!Coherent, NEW w \in Watchers, Scale!Answer(w)
  PROVE  /\ call[w].at \in {"get", "update"}
         /\ call'[w].op = call[w].op
         /\ call'[w].at = "ok" =>
              obj'.replicas = obj.replicas + Scale!Delta(call[w].op)
         /\ \A x \in Watchers :
              x # w => call'[x].op = call[x].op /\ call'[x].at = call[x].at
<1>0. \A x \in Watchers : call[x] \in Scale!Calls
  BY DEF Scale!TypeOK
<1>1. ASSUME NEW c, c.op = call[w].op, c.at # "ok", Scale!Set(w, c),
             call[w].at \in {"get", "update"}
      PROVE  /\ call'[w].op = call[w].op
             /\ call'[w].at # "ok"
             /\ \A x \in Watchers : x # w => call'[x] = call[x]
  BY <1>1 DEF Scale!Set, Scale!TypeOK
<1>2. CASE Scale!GetError(w) \/ Scale!MaxReached(w) \/ Scale!UpdateError(w)
  <2> DEFINE c == [call[w] EXCEPT !.at = "failed"]
  <2>1. c.op = call[w].op /\ c.at = "failed"
    BY <1>0 DEF Scale!Calls
  <2>2. Scale!Set(w, c) /\ call[w].at \in {"get", "update"}
    BY <1>2 DEF Scale!GetError, Scale!MaxReached, Scale!UpdateError
  <2> HIDE DEF c
  <2> QED
    BY <1>1, <2>1, <2>2
<1>3. CASE Scale!Get(w)
  <2> DEFINE n == obj.replicas + Scale!Delta(call[w].op)
             c == [call[w] EXCEPT !.at = "update", !.fresh = TRUE,
                                  !.replicas = n]
  <2>2. Scale!Set(w, c) /\ call[w].at \in {"get", "update"}
    BY <1>3 DEF Scale!Get
  <2> HIDE DEF n
  <2>1. c.op = call[w].op /\ c.at = "update"
    BY <1>0 DEF Scale!Calls
  <2> HIDE DEF c
  <2> QED
    BY <1>1, <2>1, <2>2
<1>4. CASE Scale!Conflict(w)
  <2>0. call[w] \in Scale!Calls /\ call[w].attempt \in 0..Steps
    BY <1>0 DEF Scale!Calls
  <2> DEFINE c == Scale!AfterConflict(call[w])
  <2>1. c.op = call[w].op /\ c.at # "ok"
    <3> DEFINE at == IF call[w].op = "apply" THEN "update" ELSE "get"
    <3>1. c = [call[w] EXCEPT !.at = "conflicted"]
          \/ c = [call[w] EXCEPT !.attempt = @ + 1, !.at = at]
      BY DEF Scale!AfterConflict
    <3>2. at # "ok"
      OBVIOUS
    <3> HIDE DEF at, c
    <3> QED
      BY <2>0, <3>1, <3>2 DEF Scale!Calls
  <2>2. Scale!Set(w, c) /\ call[w].at \in {"get", "update"}
    BY <1>4 DEF Scale!Conflict
  <2> HIDE DEF c
  <2> QED
    BY <1>1, <2>1, <2>2
<1>5. ASSUME NEW acked \in BOOLEAN, Scale!Commit(w, acked)
      PROVE  /\ call[w].at = "update"
             /\ call'[w].op = call[w].op
             /\ obj'.replicas = obj.replicas + Scale!Delta(call[w].op)
             /\ \A x \in Watchers :
                  x # w => call'[x].op = call[x].op /\ call'[x].at = call[x].at
  <2>1. call[w].at = "update" /\ Scale!Accepted(call[w])
    BY <1>5 DEF Scale!Commit
  <2>2. obj'.replicas = call[w].replicas
    BY <1>5 DEF Scale!Commit, Scale!TypeOK, Scale!Objects
  <2>3. call[w].replicas = obj.replicas + Scale!Delta(call[w].op)
    BY <2>1 DEF Scale!Accepted, Scale!Coherent
  <2>4. call'[w] = [call[w] EXCEPT !.at = Scale!AfterWrite(w, acked),
                                   !.wrote = @ + 1]
    BY <1>5 DEF Scale!Commit
  <2>5. call'[w].op = call[w].op
    BY <1>0, <2>4 DEF Scale!Calls
  <2>6. \A x \in Watchers : x # w => call'[x] = Scale!Overtaken(call[x])
    BY <1>5 DEF Scale!Commit
  <2> QED
    BY <1>0, <2>1, <2>2, <2>3, <2>5, <2>6, OvertakenStays
<1> QED
  BY <1>1, <1>2, <1>3, <1>4, <1>5 DEF Scale!Answer

(* While no request is answered, the object, the calls and the knowledge   *)
(* of the other watchers stay.                                             *)
LEMMA OthersInformed ==
  ASSUME OwnTypes, Scale!TypeOK, NEW w \in Watchers,
         Register(w) \/ Tick(w) \/ Goroutine(w), ~Calling(w),
         NEW x \in Watchers, x # w
  PROVE  obj' = obj /\ call'[x] = call[x] /\ hist'[x].known = hist[x].known
<1>0. call \in [Watchers -> Scale!Calls]
  BY DEF Scale!TypeOK
<1>1. CASE Register(w) \/ Tick(w) \/ Release(w)
  BY <1>1 DEF Register, RegisterFails, RegisterLists, RegisterLocks,
     Timestart, RegisterAppends, Tick, Release, Locks, Removes, RelistFails,
     Relists
<1>2. CASE \/ TakeTick(w) \/ Exists(w) \/ ExistsFails(w) \/ FindsAbnormal(w)
           \/ LowersNot(w) \/ Reports(w) \/ ReportsLast(w)
           \/ \E over \in Overloads(w) : RaisesNot(w, over)
  BY <1>2 DEF TakeTick, Exists, ExistsFails, FindsAbnormal, LowersNot,
     Reports, ReportsLast, RaisesNot, OwnTypes
<1>3. ASSUME NEW op, Starts(w, op)
      PROVE  obj' = obj /\ call'[x] = call[x] /\ hist'[x].known = hist[x].known
  BY <1>0, <1>3 DEF Starts, Scale!Begin, Scale!Set, OwnTypes
<1>4. CASE Raised(w) \/ Lowered(w)
  BY <1>0, <1>4 DEF Raised, Lowered, Scale!Return, Scale!Set, OwnTypes
<1> QED
  BY <1>1, <1>2, <1>3, <1>4 DEF Goroutine, Pass, Raises, Lowers

(* Outside a pass a watcher keeps what it knows of the count.              *)
LEMMA AloneKeeps ==
  ASSUME OwnTypes, Registering, NEW w \in Watchers,
         Register(w) \/ Tick(w) \/ TakeTick(w) \/ Release(w)
  PROVE  /\ obj' = obj /\ call' = call /\ hist'[w].known = hist[w].known
         /\ hist'[w].did = hist[w].did /\ hist'[w].kept = hist[w].kept
         /\ \/ watch'[w] = watch[w]
            \/ watch[w].pc \notin Counting /\ watch'[w].pc \notin Counting
         /\ watch'[w].replica = watch[w].replica
         /\ watch'[w].pre = watch[w].pre
         /\ watch'[w].changed = watch[w].changed
<1>1. /\ obj' = obj /\ call' = call /\ hist'[w].known = hist[w].known
      /\ hist'[w].did = hist[w].did /\ hist'[w].kept = hist[w].kept
  <2>1. CASE TakeTick(w)
    BY <2>1 DEF TakeTick, OwnTypes, HistType
  <2>2. CASE Register(w) \/ Tick(w) \/ Release(w)
    BY <2>2 DEF Register, RegisterFails, RegisterLists, RegisterLocks,
       Timestart, RegisterAppends, Tick, Release, Locks, Removes,
       RelistFails, Relists
  <2> QED
    BY <2>1, <2>2
<1>2. \/ watch'[w] = watch[w]
      \/ /\ watch[w].pc \notin Counting
         /\ watch'[w].pc \notin Counting
  <2>1. CASE Register(w)
    <3>1. watch' = watch \/ Waits(w)
      BY <2>1 DEF Register, RegisterFails, RegisterLists, RegisterLocks,
         Timestart, RegisterAppends, Waits
    <3>2. Waits(w) => watch[w].pc = "none"
      BY DEF Registering, Untouched
    <3>3. watch' = watch \/ watch'[w].pc \in {watch[w].pc, "wait"}
      BY <2>1 DEF Register, RegisterFails, RegisterLists, RegisterLocks,
         Timestart, RegisterAppends, Goto, OwnTypes, WatchType
    <3> QED
      BY <3>1, <3>2, <3>3 DEF Counting
  <2>2. CASE Tick(w)
    BY <2>2 DEF Tick
  <2>3. CASE TakeTick(w)
    BY <2>3, GotoMoves DEF TakeTick, At, Counting
  <2>4. CASE Locks(w) \/ Removes(w) \/ RelistFails(w)
    BY <2>4, GotoMoves DEF Locks, Removes, RelistFails, At, Counting
  <2>5. ASSUME NEW n \in PodCounts, Relists(w, n)
        PROVE  watch[w].pc = "relist" /\ watch'[w].pc = "wait"
    BY <2>5 DEF Relists, At, OwnTypes, WatchType
  <2> QED
    BY <2>1, <2>2, <2>3, <2>4, <2>5 DEF Release, Counting
<1>3. /\ watch'[w].replica = watch[w].replica
      /\ watch'[w].pre = watch[w].pre
      /\ watch'[w].changed = watch[w].changed
  <2>1. CASE Register(w)
    BY <2>1 DEF Register, RegisterFails, RegisterLists, RegisterLocks,
       Timestart, RegisterAppends, Goto, OwnTypes, WatchType
  <2>2. CASE Tick(w) \/ TakeTick(w)
    BY <2>2 DEF Tick, TakeTick, Goto, OwnTypes, WatchType
  <2>3. CASE Release(w)
    <3>1. CASE Locks(w) \/ Removes(w) \/ RelistFails(w)
      BY <3>1, GotoKeeps DEF Locks, Removes, RelistFails
    <3>2. ASSUME NEW n \in PodCounts, Relists(w, n)
          PROVE  /\ watch'[w].replica = watch[w].replica
                 /\ watch'[w].pre = watch[w].pre
                 /\ watch'[w].changed = watch[w].changed
      BY <3>2 DEF Relists, OwnTypes, WatchType
    <3> QED
      BY <2>3, <3>1, <3>2 DEF Release
  <2> QED
    BY <2>1, <2>2, <2>3
<1> QED
  BY <1>1, <1>2, <1>3

LEMMA AloneInformed ==
  ASSUME OwnTypes, Registering, NEW w \in Watchers, Informed(w),
         Register(w) \/ Tick(w) \/ TakeTick(w) \/ Release(w)
  PROVE  Informed(w)'
  BY AloneKeeps DEF Informed, Counting, Ahead

LEMMA BeginMoves ==
  ASSUME Scale!TypeOK, NEW w \in Watchers, NEW op, Scale!Begin(w, op)
  PROVE  obj' = obj /\ call'[w].op = op /\ call'[w].at = "get"
<1>1. call'[w] = [Scale!NoCall EXCEPT !.op = op, !.at = "get", !.attempt = 1]
  BY DEF Scale!Begin, Scale!Set, Scale!TypeOK
<1> QED
  BY <1>1 DEF Scale!NoCall, Scale!Begin

LEMMA ReturnMoves ==
  ASSUME Scale!TypeOK, NEW w \in Watchers, Scale!Return(w)
  PROVE  obj' = obj /\ call'[w].at = "idle"
<1>1. call'[w] = Scale!NoCall
  BY DEF Scale!Return, Scale!Set, Scale!TypeOK
<1> QED
  BY <1>1 DEF Scale!NoCall, Scale!Return

LEMMA PassInformed ==
  ASSUME OwnTypes, Scale!TypeOK, NEW w \in Watchers, Informed(w),
         Pass(w), ~Calling(w)
  PROVE  Informed(w)'
<1>0. /\ watch[w] \in WatchType /\ hist[w] \in HistType
      /\ obj.replicas \in Nat /\ watch[w].replica \in Int
  BY DEF OwnTypes, WatchType, Scale!TypeOK, Scale!Objects
<1>a. Scale!Delta("inc") = 1 /\ Scale!Delta("dec") = -1
  BY DEF Scale!Delta
<1>1. CASE Exists(w)
  <2>1. /\ watch[w].pc = "exists" /\ watch'[w].pc = "inspect"
        /\ Config[w].scaleOut => watch'[w].replica = obj.replicas
    BY <1>1, SeesMoves DEF Exists, At
  <2> QED
    BY <1>0, <1>1, <2>1 DEF Exists, Informed, Ahead
<1>2. CASE ExistsFails(w) \/ FindsAbnormal(w)
  <2>1. watch[w].pc \in {"exists", "inspect"}
        /\ watch'[w].pc \in {"lock", "alert"}
        /\ watch'[w].replica = watch[w].replica
    BY <1>2, GotoKeeps DEF ExistsFails, FindsAbnormal, At
  <2> QED
    BY <1>2, <2>1 DEF ExistsFails, FindsAbnormal, Informed, Ahead
<1>3. ASSUME NEW over \in Overloads(w), Raises(w, over)
      PROVE  Informed(w)'
  <2>0. over \in Nat /\ "raise" \in Places
    BY OverloadsType DEF Places, PassPlaces
  <2>1. /\ watch[w].pc = "inspect" /\ watch'[w].pc = "raise"
        /\ watch'[w].replica = watch[w].replica
    BY <1>3, <2>0, InspectedMoves DEF Raises
  <2>2. obj' = obj /\ call'[w].op = "inc" /\ call'[w].at = "get"
    BY <1>3, BeginMoves DEF Raises, Starts
  <2>3. hist'[w].known = hist[w].known
    BY <1>0, <1>3 DEF Raises, Starts, OwnTypes, HistType
  <2> QED
    BY <2>1, <2>2, <2>3 DEF Informed, Ahead, Counting
<1>4. ASSUME NEW over \in Overloads(w), RaisesNot(w, over)
      PROVE  Informed(w)'
  <2> DEFINE pc == IF Config[w].scaleOut THEN "weigh" ELSE "report"
  <2>0. over \in Nat /\ pc \in Places /\ pc \in {"weigh", "report"}
    BY OverloadsType DEF Places, PassPlaces
  <2>1. Inspected(w, over, pc)
    BY <1>4 DEF RaisesNot
  <2> HIDE DEF pc
  <2>2. /\ watch[w].pc = "inspect" /\ watch'[w].pc = pc
        /\ watch'[w].replica = watch[w].replica
    BY <2>0, <2>1, InspectedMoves
  <2> QED
    BY <1>4, <2>0, <2>2 DEF RaisesNot, Informed, Counting
<1>5. CASE Raised(w)
  <2>1. /\ watch[w].pc = "raise" /\ watch'[w].pc = "weigh"
        /\ watch'[w].replica = IF call[w].at = "ok" THEN watch[w].replica + 1
                               ELSE watch[w].replica
    BY <1>5, ChangesMoves DEF Raised, At, Succeeded
  <2>2. obj' = obj /\ call'[w].at = "idle"
    BY <1>5, ReturnMoves DEF Raised
  <2>3. hist'[w].known = hist[w].known
    BY <1>0, <1>5 DEF Raised, OwnTypes, HistType
  <2> QED
    BY <1>0, <1>a, <2>1, <2>2, <2>3 DEF Informed, Ahead, Counting
<1>6. CASE Lowers(w)
  <2>1. /\ watch[w].pc = "weigh" /\ watch'[w].pc = "lower"
        /\ watch'[w].replica = watch[w].replica
    BY <1>0, <1>6 DEF Lowers, Goto, At, OwnTypes, WatchType
  <2>2. obj' = obj /\ call'[w].op = "dec" /\ call'[w].at = "get"
    BY <1>6, BeginMoves DEF Lowers, Starts
  <2>3. hist'[w].known = hist[w].known
    BY <1>0, <1>6 DEF Lowers, Starts, OwnTypes, HistType
  <2> QED
    BY <2>1, <2>2, <2>3 DEF Informed, Ahead, Counting
<1>7. CASE LowersNot(w) \/ Reports(w)
  <2>1. /\ watch[w].pc \in {"weigh", "report"} /\ watch'[w].pc = "report"
        /\ watch'[w].replica = watch[w].replica
    <3>1. CASE LowersNot(w)
      BY <1>0, <3>1 DEF LowersNot, Goto, At, OwnTypes, WatchType
    <3>2. CASE Reports(w)
      BY <1>0, <3>2 DEF Reports, At, OwnTypes, WatchType
    <3> QED
      BY <1>7, <3>1, <3>2
  <2> QED
    BY <1>7, <2>1 DEF LowersNot, Reports, Informed, Counting
<1>8. CASE Lowered(w)
  <2>1. /\ watch[w].pc = "lower" /\ watch'[w].pc = "report"
        /\ watch'[w].replica = IF call[w].at = "ok"
                               THEN watch[w].replica + -1
                               ELSE watch[w].replica
    BY <1>8, ChangesMoves DEF Lowered, At, Succeeded
  <2>2. obj' = obj /\ call'[w].at = "idle" /\ hist' = hist
    BY <1>8, ReturnMoves DEF Lowered
  <2> QED
    BY <1>0, <1>a, <2>1, <2>2 DEF Informed, Ahead, Counting
<1>9. CASE ReportsLast(w)
  <2>1. /\ watch[w].pc = "report" /\ watch'[w].pc = "wait"
        /\ watch'[w].replica = watch[w].replica
    BY <1>9, ReportsLastMoves
  <2>2. hist'[w].known = hist[w].known
    BY <1>0, <1>9 DEF ReportsLast, OwnTypes, HistType
  <2> QED
    BY <1>9, <2>1, <2>2 DEF ReportsLast, Informed, Ahead
<1> QED
  BY <1>1, <1>2, <1>3, <1>4, <1>5, <1>6, <1>7, <1>8, <1>9 DEF Pass

(* The answer to a request of w, as w and the others may know of it. *)
LEMMA CallingInformed ==
  ASSUME OwnTypes, Scale!TypeOK, Scale!Coherent, AllInformed,
         NEW w \in Watchers, Calling(w), NEW x \in Watchers
  PROVE  Informed(x)'
<1>0. /\ \A y \in Watchers : watch[y].replica \in Int
      /\ obj.replicas \in Nat
  BY DEF OwnTypes, WatchType, Scale!TypeOK, Scale!Objects
<1>1. /\ watch' = watch
      /\ hist'[x].known => hist[x].known /\ StillKnown(x, w)
  BY DEF Calling, OwnTypes, HistType
<1>2. Scale!Answer(w)
  BY DEF Calling
<1>3. /\ call[w].at \in {"get", "update"}
      /\ call'[w].op = call[w].op
      /\ call'[w].at = "ok" =>
           obj'.replicas = obj.replicas + Scale!Delta(call[w].op)
      /\ x # w => call'[x].op = call[x].op /\ call'[x].at = call[x].at
  BY <1>2, AnswerMoves
<1>4. CASE x = w
  <2>1. watch[w].pc \in {"raise", "lower"}
    BY <1>3 DEF AllInformed, Informed
  <2>2. call'[w].at # "ok" /\ hist'[w].known => obj'.replicas = obj.replicas
    BY <1>1, <1>4 DEF StillKnown
  <2> QED
    BY <1>0, <1>1, <1>3, <1>4, <2>1, <2>2 DEF AllInformed, Informed, Ahead
<1>5. CASE x # w
  BY <1>1, <1>3, <1>5 DEF AllInformed, Informed, Ahead, StillKnown
<1> QED
  BY <1>4, <1>5

(* An edit from outside: who has read the count knows no more. *)
LEMMA ClusterInformed ==
  ASSUME OwnTypes, Scale!TypeOK, AllInformed, Cluster, NEW x \in Watchers
  PROVE  Informed(x)'
<1>1. /\ watch' = watch
      /\ hist'[x].known => hist[x].known /\ obj'.replicas = obj.replicas
  BY DEF Cluster, OwnTypes, HistType
<1>2. call'[x] = Scale!Overtaken(call[x]) /\ call[x] \in Scale!Calls
  BY DEF Cluster, Scale!Cluster, Scale!OutsideEdit, Scale!OutsideDelete,
     Scale!OutsideCreate, Scale!OutsideWrite, Scale!TypeOK
<1>3. call'[x].op = call[x].op /\ call'[x].at = call[x].at
  BY <1>2, OvertakenStays
<1> QED
  BY <1>1, <1>3 DEF AllInformed, Informed, Ahead

LEMMA InformedStep ==
  OwnTypes /\ Scale!TypeOK /\ Scale!Coherent /\ Registering /\ AllInformed
    /\ [Next]_vars => AllInformed'
<1> SUFFICES ASSUME OwnTypes, Scale!TypeOK, Scale!Coherent, Registering,
                    AllInformed, [Next]_vars
             PROVE  AllInformed'
  OBVIOUS
<1>1. ASSUME NEW w \in Watchers, Register(w) \/ Tick(w) \/ Goroutine(w),
             ~Calling(w)
      PROVE  AllInformed'
  <2>1. Informed(w)'
    BY <1>1, AloneInformed, PassInformed DEF AllInformed, Goroutine
  <2>2. ASSUME NEW x \in Watchers, x # w
        PROVE  Informed(x)'
    BY <1>1, <2>2, OthersInformed, OthersKeep DEF AllInformed, Informed, Ahead
  <2> QED
    BY <2>1, <2>2 DEF AllInformed
<1>2. ASSUME NEW w \in Watchers, Calling(w)
      PROVE  AllInformed'
  BY <1>2, CallingInformed DEF AllInformed
<1>3. CASE Elapse
  <2>1. \A x \in Watchers : hist'[x].known = hist[x].known
    BY <1>3 DEF Elapse, OwnTypes, HistType
  <2> QED
    BY <1>3, <2>1 DEF Elapse, AllInformed, Informed, Ahead
<1>4. CASE Cluster
  BY <1>4, ClusterInformed DEF AllInformed
<1>5. CASE UNCHANGED vars
  BY <1>5 DEF vars, AllInformed, Informed, Ahead
<1> QED
  BY <1>1, <1>2, <1>3, <1>4, <1>5 DEF Next, Goroutine

-----------------------------------------------------------------------------
(* The two counts of a report *)

(* A change of this pass has been counted on the side it was made, and the *)
(* count put by at the beginning of the pass is the one it was made from.  *)
OneApart(w) ==
  LET by == watch[w].replica - watch[w].pre
      raised == by = 1 /\ "inc" \in hist[w].did
      lowered == by = -1 /\ "dec" \in hist[w].did
  IN  /\ ~watch[w].changed => by = 0
      /\ watch[w].changed /\ watch[w].pc # "report" => raised
      /\ watch[w].changed /\ watch[w].pc = "report" =>
           by = 0 \/ raised \/ lowered

Carried(w) ==
  /\ watch[w].changed => watch[w].pc \in {"weigh", "lower", "report"}
  /\ watch[w].pc = "raise" => "inc" \in hist[w].did
  /\ watch[w].pc = "lower" => "dec" \in hist[w].did
  /\ Config[w].scaleOut /\ hist[w].kept => OneApart(w)

AllCarried == \A w \in Watchers : Carried(w)

(* Whoever keeps its counts and what it has done keeps what it carries.    *)
LEMMA SameCarried ==
  ASSUME NEW x \in Watchers, Carried(x), watch'[x] = watch[x], SameCounts(x)
  PROVE  Carried(x)'
  BY DEF Carried, OneApart, SameCounts

LEMMA AloneCarried ==
  ASSUME OwnTypes, Registering, NEW w \in Watchers, Carried(w),
         Register(w) \/ Tick(w) \/ TakeTick(w) \/ Release(w)
  PROVE  Carried(w)'
<1>1. /\ \/ watch'[w] = watch[w]
         \/ watch[w].pc \notin Counting /\ watch'[w].pc \notin Counting
      /\ watch'[w].replica = watch[w].replica
      /\ watch'[w].pre = watch[w].pre
      /\ watch'[w].changed = watch[w].changed
      /\ hist'[w].did = hist[w].did /\ hist'[w].kept = hist[w].kept
  BY AloneKeeps
<1>2. watch[w].changed \in BOOLEAN
  BY DEF OwnTypes, WatchType
<1> QED
  BY <1>1, <1>2 DEF Carried, OneApart, Counting

LEMMA PassCarried ==
  ASSUME OwnTypes, Scale!TypeOK, NEW w \in Watchers, Informed(w), Carried(w),
         Pass(w), ~Calling(w)
  PROVE  Carried(w)'
<1>0. /\ watch[w] \in WatchType /\ hist[w] \in HistType
      /\ watch[w].replica \in Int /\ watch[w].pre \in Int
      /\ watch[w].changed \in BOOLEAN /\ hist[w].did \subseteq {"inc", "dec"}
      /\ obj.replicas \in Nat
  BY DEF OwnTypes, WatchType, HistType, Scale!TypeOK, Scale!Objects
<1>1. CASE Exists(w)
  <2>1. /\ watch[w].pc = "exists" /\ watch'[w].pc = "inspect"
        /\ watch'[w].changed = watch[w].changed
        /\ Config[w].scaleOut => /\ watch'[w].replica = obj.replicas
                                 /\ watch'[w].pre = watch[w].replica
    BY <1>1, SeesMoves DEF Exists, At
  <2>2. hist'[w].did = hist[w].did /\ hist'[w].kept = hist[w].known
    BY <1>0, <1>1 DEF Exists, OwnTypes, HistType
  <2>3. Config[w].scaleOut /\ hist[w].known => obj.replicas = watch[w].replica
    BY <1>0, <2>1 DEF Informed, Ahead
  <2> QED
    BY <1>0, <2>1, <2>2, <2>3 DEF Carried, OneApart
<1>2. CASE ExistsFails(w) \/ FindsAbnormal(w)
  <2>1. /\ watch[w].pc \in {"exists", "inspect"}
        /\ watch'[w].pc \in {"lock", "alert"}
        /\ watch'[w].replica = watch[w].replica
        /\ watch'[w].pre = watch[w].pre
        /\ watch'[w].changed = watch[w].changed
        /\ hist' = hist
    BY <1>2, GotoKeeps DEF ExistsFails, FindsAbnormal, At
  <2> QED
    BY <1>0, <2>1 DEF Carried, OneApart
<1>3. ASSUME NEW over \in Overloads(w), Raises(w, over)
      PROVE  Carried(w)'
  <2>1. /\ watch[w].pc = "inspect" /\ watch'[w].pc = "raise"
        /\ watch'[w].replica = watch[w].replica
        /\ watch'[w].pre = watch[w].pre
        /\ watch'[w].changed = watch[w].changed
    BY <1>3, InspectedMoves DEF Raises
  <2>2. /\ hist'[w].did = hist[w].did \cup {"inc"}
        /\ hist'[w].kept = hist[w].kept
    BY <1>0, <1>3 DEF Raises, Starts, OwnTypes, HistType
  <2> QED
    BY <1>0, <2>1, <2>2 DEF Carried, OneApart
<1>4. ASSUME NEW over \in Overloads(w), RaisesNot(w, over)
      PROVE  Carried(w)'
  <2>1. PICK pc \in {"weigh", "report"} : Inspected(w, over, pc)
    BY <1>4 DEF RaisesNot
  <2>2. /\ watch[w].pc = "inspect" /\ watch'[w].pc = pc
        /\ watch'[w].replica = watch[w].replica
        /\ watch'[w].pre = watch[w].pre
        /\ watch'[w].changed = watch[w].changed
    BY <2>1, InspectedMoves
  <2>3. hist' = hist
    BY <1>4 DEF RaisesNot
  <2> QED
    BY <1>0, <2>2, <2>3 DEF Carried, OneApart
<1>5. CASE Raised(w) \/ Lowered(w)
  <2>1. PICK d \in {-1, 1} :
          /\ d = 1 => /\ watch[w].pc = "raise" /\ watch'[w].pc = "weigh"
                      /\ Changes(w, "weigh", d)
          /\ d = -1 => /\ watch[w].pc = "lower" /\ watch'[w].pc = "report"
                       /\ Changes(w, "report", d)
    BY <1>5, ChangesMoves DEF Raised, Lowered, At
  <2>2. /\ watch'[w].replica = IF Succeeded(w) THEN watch[w].replica + d
                               ELSE watch[w].replica
        /\ watch'[w].changed = (watch[w].changed \/ Succeeded(w))
        /\ watch'[w].pre = watch[w].pre
    BY <2>1, ChangesMoves
  <2>3. hist'[w].did = hist[w].did /\ hist'[w].kept = hist[w].kept
    BY <1>0, <1>5 DEF Raised, Lowered, OwnTypes, HistType
  <2>4. CASE d = 1
    <3>1. watch[w].changed = FALSE /\ "inc" \in hist[w].did
      BY <1>0, <2>1, <2>4 DEF Carried
    <3> QED
      <4>1. CASE Succeeded(w)
        <5>1. /\ watch'[w].changed = TRUE
              /\ watch'[w].replica = watch[w].replica + 1
          BY <2>2, <2>4, <4>1
        <5>2. Config[w].scaleOut /\ hist[w].kept =>
                watch[w].replica - watch[w].pre = 0
          BY <3>1 DEF Carried, OneApart
        <5>3. Config[w].scaleOut /\ hist[w].kept =>
                watch'[w].replica - watch'[w].pre = 1
          BY <1>0, <2>2, <5>1, <5>2
        <5> QED
          BY <2>1, <2>3, <2>4, <3>1, <5>1, <5>3 DEF Carried, OneApart
      <4>2. CASE ~Succeeded(w)
        BY <1>0, <2>1, <2>2, <2>3, <2>4, <3>1, <4>2 DEF Carried, OneApart
      <4> QED
        BY <4>1, <4>2
  <2>5. CASE d = -1
    <3>1. "dec" \in hist[w].did
      BY <2>1, <2>5 DEF Carried
    <3> QED
      <4>1. CASE Succeeded(w)
        <5>1. /\ watch'[w].changed = TRUE
              /\ watch'[w].replica = watch[w].replica + -1
          BY <2>2, <2>5, <4>1
        <5>2. Config[w].scaleOut /\ hist[w].kept =>
                watch[w].replica - watch[w].pre \in {0, 1}
          BY <2>1, <2>5 DEF Carried, OneApart
        <5>3. Config[w].scaleOut /\ hist[w].kept =>
                watch'[w].replica - watch'[w].pre \in {-1, 0}
          BY <1>0, <2>2, <5>1, <5>2
        <5> QED
          BY <2>1, <2>3, <2>5, <3>1, <5>1, <5>3 DEF Carried, OneApart
      <4>2. CASE ~Succeeded(w)
        BY <1>0, <2>1, <2>2, <2>3, <2>5, <3>1, <4>2 DEF Carried, OneApart
      <4> QED
        BY <4>1, <4>2
  <2> QED
    BY <2>4, <2>5
<1>6. CASE Lowers(w)
  <2>1. /\ watch[w].pc = "weigh" /\ watch'[w].pc = "lower"
        /\ watch'[w].replica = watch[w].replica
        /\ watch'[w].pre = watch[w].pre
        /\ watch'[w].changed = watch[w].changed
    BY <1>0, <1>6 DEF Lowers, Goto, At, OwnTypes, WatchType
  <2>2. /\ hist'[w].did = hist[w].did \cup {"dec"}
        /\ hist'[w].kept = hist[w].kept
    BY <1>0, <1>6 DEF Lowers, Starts, OwnTypes, HistType
  <2> QED
    BY <1>0, <2>1, <2>2 DEF Carried, OneApart
<1>7. CASE LowersNot(w)
  <2>1. /\ watch[w].pc = "weigh" /\ watch'[w].pc = "report"
        /\ watch'[w].replica = watch[w].replica
        /\ watch'[w].pre = watch[w].pre
        /\ watch'[w].changed = watch[w].changed
        /\ hist' = hist
    BY <1>0, <1>7 DEF LowersNot, Goto, At, OwnTypes, WatchType
  <2> QED
    BY <1>0, <2>1 DEF Carried, OneApart
<1>8. CASE Reports(w)
  <2>1. /\ watch[w].pc = "report" /\ watch'[w].pc = "report"
        /\ watch'[w].replica = watch[w].replica
        /\ watch'[w].pre = watch[w].pre
        /\ watch'[w].changed = watch[w].changed
        /\ hist' = hist
    BY <1>0, <1>8 DEF Reports, At, OwnTypes, WatchType
  <2> QED
    BY <1>0, <2>1 DEF Carried, OneApart
<1>9. CASE ReportsLast(w)
  <2>1. watch'[w].pc = "wait" /\ watch'[w].changed = FALSE
    BY <1>9, ReportsLastMoves
  <2>2. hist'[w].kept = FALSE
    BY <1>0, <1>9 DEF ReportsLast, OwnTypes, HistType
  <2> QED
    BY <2>1, <2>2 DEF Carried
<1> QED
  BY <1>1, <1>2, <1>3, <1>4, <1>5, <1>6, <1>7, <1>8, <1>9 DEF Pass

LEMMA CarriedStep ==
  OwnTypes /\ Scale!TypeOK /\ Registering /\ AllInformed /\ AllCarried
    /\ [Next]_vars => AllCarried'
<1> SUFFICES ASSUME OwnTypes, Scale!TypeOK, Registering, AllInformed,
                    AllCarried, [Next]_vars
             PROVE  AllCarried'
  OBVIOUS
<1>1. ASSUME NEW w \in Watchers, Register(w) \/ Tick(w) \/ Goroutine(w),
             ~Calling(w)
      PROVE  AllCarried'
  <2>1. Carried(w)'
    BY <1>1, AloneCarried, PassCarried DEF AllInformed, AllCarried, Goroutine
  <2>2. ASSUME NEW x \in Watchers, x # w
        PROVE  Carried(x)'
    BY <1>1, <2>2, OthersKeep, SameCarried DEF AllCarried
  <2> QED
    BY <2>1, <2>2 DEF AllCarried
<1>2. ASSUME NEW w \in Watchers, Calling(w)
      PROVE  AllCarried'
  BY <1>2, CallingKeeps, SameCarried DEF AllCarried
<1>3. CASE Elapse \/ Cluster \/ UNCHANGED vars
  BY <1>3, BystandersKeep, SameCarried DEF AllCarried
<1> QED
  BY <1>1, <1>2, <1>3 DEF Next, Goroutine

(* The two counts a report names are the count in the cluster and, one     *)
(* away on the side of what this pass did, the count the last pass left:   *)
(* the retries of a call and the count carried over never leave them apart *)
(* unless an answer was lost or somebody else wrote; nothing is said of    *)
(* the first count of a first pass.                                        *)
THEOREM ReportHonestAlways == Spec => []ReportHonest
<1>1. Init => AllInformed /\ AllCarried
  <2> SUFFICES ASSUME Init, NEW w \in Watchers
               PROVE  Informed(w) /\ Carried(w)
    BY DEF AllInformed, AllCarried
  <2>1. /\ watch[w].pc = "none" /\ watch[w].changed = FALSE
        /\ hist[w].known = FALSE /\ hist[w].kept = FALSE
        /\ call[w].at = "idle"
    BY DEF Init, Scale!Init, Scale!NoCall
  <2> QED
    BY <2>1 DEF Informed, Carried
<1>2. AllInformed /\ AllCarried /\ OwnTypes /\ Scale!TypeOK => ReportHonest
  <2> SUFFICES ASSUME AllInformed, AllCarried, OwnTypes, Scale!TypeOK,
                      NEW w \in Watchers, watch[w].pc = "report",
                      Config[w].scaleOut
               PROVE  /\ hist[w].known => watch[w].replica = obj.replicas
                      /\ hist[w].kept =>
                           LET by == watch[w].replica - watch[w].pre IN
                           /\ Tells(w) = "usage" => by = 0
                           /\ Tells(w) = "increase" =>
                                by = 1 /\ "inc" \in hist[w].did
                           /\ Tells(w) = "decrease" =>
                                by = -1 /\ "dec" \in hist[w].did
    BY DEF ReportHonest, At
  <2>0. /\ watch[w].replica \in Int /\ watch[w].pre \in Int
        /\ watch[w].changed \in BOOLEAN
    BY DEF OwnTypes, WatchType
  <2>1. hist[w].known => watch[w].replica = obj.replicas
    BY <2>0 DEF AllInformed, Informed, Ahead
  <2>2. ASSUME hist[w].kept
        PROVE  LET by == watch[w].replica - watch[w].pre IN
               /\ Tells(w) = "usage" => by = 0
               /\ Tells(w) = "increase" => by = 1 /\ "inc" \in hist[w].did
               /\ Tells(w) = "decrease" => by = -1 /\ "dec" \in hist[w].did
    <3>1. OneApart(w)
      BY <2>2 DEF AllCarried, Carried
    <3> QED
      BY <2>0, <3>1 DEF OneApart, Tells
  <2> QED
    BY <2>1, <2>2
<1> QED
  BY <1>1, <1>2, InformedStep, CarriedStep, OwnTypesAlways, ScaleTypes,
     ScaleCoherent, RegisteringAlways, PTL DEF Spec

-----------------------------------------------------------------------------
(* The end of a pass *)

LEMMA SameRequests == \A c : Scale!Requests(c) = ScaleFacts!Requests(c)
  BY DEF Scale!Requests, ScaleFacts!Requests

LEMMA SameAnswer == \A w : Scale!Answer(w) <=> ScaleFacts!Answer(w)
  BY DEF Scale!Answer, Scale!GetError, Scale!BelowCeiling, Scale!Get,
    Scale!MaxReached, Scale!Accepted, Scale!AfterWrite, Scale!Commit,
    Scale!AfterConflict, Scale!Conflict, Scale!UpdateError, Scale!Set,
    Scale!Overtaken, Scale!Running, Scale!Delta,
    ScaleFacts!Answer, ScaleFacts!GetError, ScaleFacts!BelowCeiling,
    ScaleFacts!Get, ScaleFacts!MaxReached, ScaleFacts!Accepted,
    ScaleFacts!AfterWrite, ScaleFacts!Commit, ScaleFacts!AfterConflict,
    ScaleFacts!Conflict, ScaleFacts!UpdateError, ScaleFacts!Set,
    ScaleFacts!Overtaken, ScaleFacts!Running, ScaleFacts!Delta

(* An answer brings the call it belongs to nearer to its end and no other. *)
LEMMA AnswerCounts ==
  ASSUME ScaleFacts!Inv, NEW w \in Watchers, Scale!Answer(w)
  PROVE  /\ Scale!Requests(call'[w]) < Scale!Requests(call[w])
         /\ call'[w].at # "idle"
         /\ \A x \in Watchers :
              x # w => Scale!Requests(call'[x]) = Scale!Requests(call[x])
<1>0. ScaleFacts!Answer(w) /\ ScaleFacts!TypeOK
  BY SameAnswer DEF ScaleFacts!Inv
<1>1. /\ ScaleFacts!Requests(call'[w]) < ScaleFacts!Requests(call[w])
      /\ call'[w].at # "idle"
  BY <1>0, ScaleAssumed, ScaleFacts!AnswerRequests
<1>2. ASSUME NEW x \in Watchers, x # w
      PROVE  ScaleFacts!Requests(call'[x]) = ScaleFacts!Requests(call[x])
  BY <1>0, <1>2, ScaleAssumed, ScaleFacts!AnswerOthers
<1> QED
  BY <1>1, <1>2, SameRequests

LEMMA RequestsNat ==
  ASSUME ScaleFacts!Inv, NEW w \in Watchers
  PROVE  Scale!Requests(call[w]) \in Nat
<1>1. call[w] \in ScaleFacts!Calls /\ ScaleFacts!Sound(call[w], obj)
  BY DEF ScaleFacts!Inv, ScaleFacts!TypeOK
<1>2. ScaleFacts!Requests(call[w]) \in 0..2 * Steps
  BY <1>1, ScaleAssumed, ScaleFacts!RequestsType
<1> QED
  BY <1>2, SameRequests

(* Where a step of the goroutine leads.                                    *)
Moved(w, from, to) == watch[w].pc = from /\ watch'[w].pc = to
SameTodo(w) == watch'[w].todo = watch[w].todo
NewTodo(w) == watch'[w].todo \in {1, 2}
NewCall(w) == call'[w].at = "get" /\ Scale!Requests(call'[w]) = 2 * Steps

Leads(w) ==
  \/ Moved(w, "wait", "exists")
  \/ Moved(w, "exists", "inspect") \/ Moved(w, "exists", "lock")
  \/ Moved(w, "inspect", "alert")
  \/ Moved(w, "inspect", "raise") /\ NewTodo(w) /\ NewCall(w)
  \/ Moved(w, "inspect", "weigh") /\ NewTodo(w)
  \/ Moved(w, "inspect", "report") /\ NewTodo(w)
  \/ Moved(w, "raise", "weigh") /\ SameTodo(w)
  \/ Moved(w, "weigh", "lower") /\ SameTodo(w) /\ NewCall(w)
  \/ Moved(w, "weigh", "report") /\ SameTodo(w)
  \/ Moved(w, "lower", "report") /\ SameTodo(w)
  \/ /\ watch[w].pc \in {"raise", "lower"} /\ watch'[w] = watch[w]
     /\ call'[w].at # "idle"
     /\ Scale!Requests(call'[w]) < Scale!Requests(call[w])
  \/ Moved(w, "report", "report") /\ watch[w].todo = 2 /\ watch'[w].todo = 1
  \/ Moved(w, "report", "wait") /\ watch[w].todo = 1
  \/ Moved(w, "lock", "remove") \/ Moved(w, "remove", "relock")
  \/ Moved(w, "relock", "relist") \/ Moved(w, "relist", "wait")

LEMMA GotoKeepsTodo ==
  ASSUME OwnTypes, NEW w \in Watchers, NEW pc, Goto(w, pc)
  PROVE  watch'[w].pc = pc /\ SameTodo(w)
  BY DEF OwnTypes, WatchType, Goto, SameTodo

LEMMA InspectedTodo ==
  ASSUME OwnTypes, NEW w \in Watchers, NEW over, NEW pc,
         Inspected(w, over, pc)
  PROVE  Moved(w, "inspect", pc) /\ NewTodo(w)
<1> DEFINE todo == IF Config[w].level = 2 THEN 2 ELSE 1
<1>1. /\ watch'[w] = [watch[w] EXCEPT !.pc = pc, !.over = over, !.todo = todo]
      /\ watch[w].pc = "inspect"
  BY DEF Inspected, OwnTypes, At
<1>2. todo \in {1, 2}
  OBVIOUS
<1> HIDE DEF todo
<1> QED
  BY <1>1, <1>2 DEF OwnTypes, WatchType, Moved, NewTodo

LEMMA BeginCounts ==
  ASSUME Scale!TypeOK, NEW w \in Watchers, NEW op, Scale!Begin(w, op)
  PROVE  NewCall(w)
<1>1. call'[w] = [Scale!NoCall EXCEPT !.op = op, !.at = "get", !.attempt = 1]
  BY DEF Scale!Begin, Scale!Set, Scale!TypeOK
<1>2. call'[w].at = "get" /\ call'[w].attempt = 1
  BY <1>1 DEF Scale!NoCall
<1>3. Scale!Requests(call'[w]) = 2 * (Steps - 1) + 2
  BY <1>2 DEF Scale!Requests
<1> QED
  BY <1>2, <1>3, ScaleAssumed DEF NewCall

LEMMA GoroutineLeads ==
  ASSUME OwnTypes, ScaleFacts!Inv, Scale!TypeOK, AllInformed,
         NEW w \in Watchers, Goroutine(w)
  PROVE  Leads(w)
<1>0. watch[w] \in WatchType
  BY DEF OwnTypes
<1>1. CASE TakeTick(w)
  BY <1>1, GotoKeepsTodo DEF TakeTick, At, Leads, Moved
<1>2. CASE Exists(w)
  BY <1>2, SeesMoves DEF Exists, At, Leads, Moved
<1>3. CASE ExistsFails(w) \/ FindsAbnormal(w)
  BY <1>3, GotoKeepsTodo DEF ExistsFails, FindsAbnormal, At, Leads, Moved
<1>4. ASSUME NEW over \in Overloads(w), Raises(w, over)
      PROVE  Leads(w)
  BY <1>4, InspectedTodo, BeginCounts DEF Raises, Starts, Leads
<1>5. ASSUME NEW over \in Overloads(w), RaisesNot(w, over)
      PROVE  Leads(w)
  <2>1. PICK pc \in {"weigh", "report"} : Inspected(w, over, pc)
    BY <1>5 DEF RaisesNot
  <2> QED
    BY <2>1, InspectedTodo DEF Leads
<1>6. CASE Raised(w) \/ Lowered(w)
  BY <1>6, ChangesMoves DEF Raised, Lowered, At, Leads, Moved, SameTodo
<1>7. CASE Lowers(w)
  BY <1>7, GotoKeepsTodo, BeginCounts DEF Lowers, Starts, At, Leads, Moved
<1>8. CASE LowersNot(w)
  BY <1>8, GotoKeepsTodo DEF LowersNot, At, Leads, Moved
<1>9. CASE Calling(w)
  <2>1. Scale!Answer(w) /\ watch' = watch
    BY <1>9 DEF Calling
  <2>2. call[w].at # "idle"
    BY <2>1 DEF Scale!Answer, Scale!GetError, Scale!Get, Scale!MaxReached,
                Scale!Commit, Scale!Conflict, Scale!UpdateError
  <2>3. watch[w].pc \in {"raise", "lower"}
    BY <2>2 DEF AllInformed, Informed
  <2> QED
    BY <2>1, <2>3, AnswerCounts DEF Leads
<1>10. CASE Reports(w)
  <2>1. watch[w].todo = 2
    BY <1>0, <1>10 DEF Reports, WatchType
  <2> QED
    BY <1>0, <1>10, <2>1 DEF Reports, At, OwnTypes, WatchType, Leads, Moved
<1>11. CASE ReportsLast(w)
  BY <1>11, ReportsLastMoves DEF ReportsLast, Leads, Moved
<1>12. CASE Locks(w) \/ Removes(w) \/ RelistFails(w)
  BY <1>12, GotoKeepsTodo DEF Locks, Removes, RelistFails, At, Leads, Moved
<1>13. ASSUME NEW n \in PodCounts, Relists(w, n)
       PROVE  Leads(w)
  BY <1>0, <1>13 DEF Relists, At, OwnTypes, WatchType, Leads, Moved
<1> QED
  BY <1>1, <1>2, <1>3, <1>4, <1>5, <1>6, <1>7, <1>8, <1>9, <1>10, <1>11,
     <1>12, <1>13 DEF Goroutine, Pass, Release

(* What everybody else leaves of a watcher in a pass or a release.         *)
LEMMA OthersLead ==
  ASSUME OwnTypes, ScaleFacts!Inv, Scale!TypeOK, Registering, [Next]_vars,
         NEW w \in Watchers, ~Goroutine(w),
         watch[w].pc \in PassPlaces \cup ReleasePlaces
  PROVE  /\ watch'[w] = watch[w]
         /\ Scale!Requests(call'[w]) = Scale!Requests(call[w])
         /\ call'[w].at = "idle" <=> call[w].at = "idle"
<1>0. watch[w].pc # "none" /\ call \in [Watchers -> Scale!Calls]
  BY DEF PassPlaces, ReleasePlaces, Scale!TypeOK
<1>1. ASSUME NEW x \in Watchers, Register(x) \/ Tick(x)
      PROVE  watch'[w] = watch[w] /\ call' = call
  <2>1. call' = call
    BY <1>1 DEF Register, RegisterFails, RegisterLists, RegisterLocks,
       Timestart, RegisterAppends, Tick
  <2>2. CASE x # w
    BY <1>1, <2>1, <2>2, OnlyOneMoves
  <2>3. CASE x = w
    <3>1. ~Waits(w)
      BY <1>0 DEF Registering, Untouched
    <3> QED
      BY <1>1, <2>1, <2>3, <3>1
      DEF Register, RegisterFails, RegisterLists, RegisterLocks, Timestart,
          RegisterAppends, Tick, Waits
  <2> QED
    BY <2>2, <2>3
<1>2. ASSUME NEW x \in Watchers, Goroutine(x), ~Calling(x)
      PROVE  watch'[w] = watch[w] /\ call'[w] = call[w]
  <2>1. x # w
    BY <1>2
  <2> QED
    BY <1>2, <2>1, OnlyOneMoves, OthersInformed
<1>3. ASSUME NEW x \in Watchers, Calling(x)
      PROVE  /\ watch'[w] = watch[w]
             /\ Scale!Requests(call'[w]) = Scale!Requests(call[w])
             /\ call'[w].at = call[w].at
  <2>1. x # w
    BY <1>3 DEF Goroutine, Pass
  <2>2. Scale!Answer(x) /\ watch' = watch
    BY <1>3 DEF Calling
  <2>3. Scale!Coherent
    BY DEF ScaleFacts!Inv, ScaleFacts!Sound, Scale!Coherent, Scale!Delta,
           ScaleFacts!Delta
  <2> QED
    BY <2>1, <2>2, <2>3, AnswerCounts, AnswerMoves
<1>4. CASE Cluster
  <2>1. watch' = watch /\ call'[w] = Scale!Overtaken(call[w])
    BY <1>4 DEF Cluster, Scale!Cluster, Scale!OutsideEdit,
       Scale!OutsideDelete, Scale!OutsideCreate, Scale!OutsideWrite
  <2>2. /\ Scale!Overtaken(call[w]).at = call[w].at
        /\ Scale!Overtaken(call[w]).attempt = call[w].attempt
    BY <1>0 DEF Scale!Overtaken, Scale!Calls
  <2> QED
    BY <2>1, <2>2 DEF Scale!Requests
<1>5. CASE Elapse \/ UNCHANGED vars
  BY <1>5 DEF Elapse, vars
<1> QED
  BY <1>1, <1>2, <1>3, <1>4, <1>5 DEF Next

(* A watcher that waits for a call has one under way, and one that is to   *)
(* report knows how often.                                                 *)
Armed(w) ==
  /\ watch[w].pc \in {"raise", "lower"} => call[w].at # "idle"
  /\ watch[w].pc \in {"raise", "weigh", "lower", "report"} =>
       watch[w].todo \in {1, 2}

AllArmed == \A w \in Watchers : Armed(w)

LEMMA LeadsArmed ==
  ASSUME NEW w \in Watchers, Armed(w), Leads(w)
  PROVE  Armed(w)'
  BY DEF Armed, Leads, Moved, SameTodo, NewTodo, NewCall

LEMMA ArmedStep ==
  OwnTypes /\ ScaleFacts!Inv /\ Scale!TypeOK /\ Registering /\ AllInformed
    /\ AllArmed /\ [Next]_vars => AllArmed'
<1> SUFFICES ASSUME OwnTypes, ScaleFacts!Inv, Scale!TypeOK, Registering,
                    AllInformed, AllArmed, [Next]_vars, NEW w \in Watchers
             PROVE  Armed(w)'
  BY DEF AllArmed
<1>1. CASE Goroutine(w)
  BY <1>1, GoroutineLeads, LeadsArmed DEF AllArmed
<1>2. CASE ~Goroutine(w) /\ watch[w].pc \in PassPlaces \cup ReleasePlaces
  BY <1>2, OthersLead DEF AllArmed, Armed
<1>3. CASE ~Goroutine(w) /\ watch[w].pc \notin PassPlaces \cup ReleasePlaces
  <2>1. watch'[w].pc \in {watch[w].pc, "wait"}
    <3>1. ASSUME NEW x \in Watchers, Register(x) \/ Tick(x) \/ Goroutine(x)
          PROVE  watch'[w].pc \in {watch[w].pc, "wait"}
      <4>1. CASE x # w
        BY <3>1, <4>1, OnlyOneMoves
      <4>2. CASE x = w
        <5>1. Register(w) \/ Tick(w)
          BY <1>3, <3>1, <4>2
        <5> QED
          BY <5>1 DEF Register, RegisterFails, RegisterLists, RegisterLocks,
             Timestart, RegisterAppends, Tick, Goto, OwnTypes, WatchType
      <4> QED
        BY <4>1, <4>2
    <3>2. CASE Elapse \/ Cluster \/ UNCHANGED vars
      BY <3>2, BystandersKeep
    <3> QED
      BY <3>1, <3>2 DEF Next
  <2> QED
    BY <1>3, <2>1 DEF Armed, PassPlaces
<1> QED
  BY <1>1, <1>2, <1>3

LEMMA InformedAlways == Spec => []AllInformed
<1>1. Init => AllInformed
  BY DEF Init, Scale!Init, Scale!NoCall, AllInformed, Informed, Counting
<1> QED
  BY <1>1, InformedStep, OwnTypesAlways, ScaleTypes, ScaleCoherent,
     RegisteringAlways, PTL DEF Spec

LEMMA ArmedAlways == Spec => []AllArmed
<1>1. Init => AllArmed
  BY DEF Init, AllArmed, Armed
<1> QED
  BY <1>1, ArmedStep, InformedAlways, OwnTypesAlways, ScaleTypes, ScaleInv,
     RegisteringAlways, PTL DEF Spec

(* A goroutine in a pass or a release waits for the answers of the API     *)
(* server, the receivers of its reports and errors, and the holder of      *)
(* deployments.mu; whoever holds deployments.mu waits for the API server   *)
(* alone, in no send: the watchers cannot keep each other waiting.         *)
THEOREM NeverStuckAlways == Spec => []NeverStuck
<1>1. OwnTypes /\ AllInformed /\ AllArmed /\ LockHeld => NeverStuck
  <2> SUFFICES ASSUME OwnTypes, AllInformed, AllArmed, LockHeld
               PROVE  NeverStuck
    OBVIOUS
  <2>1. mu # Free => HolderCanGo
    BY DEF HolderCanGo, LockHeld, OwnTypes
  <2>2. ASSUME NEW w \in Watchers, watch[w].pc \in PassPlaces
        PROVE  CanGo(w)
    BY <2>2 DEF PassPlaces, CanGo, At, AllInformed, Informed, AllArmed, Armed
  <2>3. ASSUME NEW w \in Watchers, watch[w].pc \in ReleasePlaces
        PROVE  CanGo(w) \/ (mu # Free /\ watch[w].pc \in {"lock", "relock"})
    BY <2>3 DEF ReleasePlaces, CanGo
  <2> QED
    BY <2>1, <2>2, <2>3 DEF NeverStuck
<1> QED
  BY <1>1, OwnTypesAlways, InformedAlways, ArmedAlways, LockHeldAlways, PTL

(* What the steps of a pass leave to be done.                              *)
LEMMA LeadsFewer ==
  ASSUME OwnTypes, ScaleFacts!Inv, NEW w \in Watchers, Armed(w), Leads(w),
         Scale!Requests(call'[w]) \in Nat,
         watch[w].pc \in PassPlaces \cup ReleasePlaces
  PROVE  StepsToGo(w)' < StepsToGo(w)
<1> DEFINE s == Steps
           t == watch[w].todo   r == Scale!Requests(call[w])
           u == watch'[w].todo  q == Scale!Requests(call'[w])
           togo == StepsToGo(w) then == StepsToGo(w)'
<1>0. s \in Nat \ {0} /\ r \in Nat /\ q \in Nat /\ t \in 0..2
  BY ScaleAssumed, RequestsNat DEF OwnTypes, WatchType
<1>1. CASE Moved(w, "exists", "inspect")
  <2>1. togo = 4 * s + 7 /\ then = 4 * s + 6
    BY <1>1 DEF Moved, StepsToGo, At
  <2> QED
    BY <1>0, <2>1
<1>2. CASE Moved(w, "exists", "lock")
  <2>1. togo = 4 * s + 7 /\ then = 4
    BY <1>2 DEF Moved, StepsToGo, At
  <2> QED
    BY <1>0, <2>1
<1>3. CASE Moved(w, "inspect", "alert")
  <2>1. togo = 4 * s + 6 /\ then = 0
    BY <1>3 DEF Moved, StepsToGo, At
  <2> QED
    BY <1>0, <2>1
<1>4. CASE Moved(w, "inspect", "raise") /\ NewTodo(w) /\ NewCall(w)
  <2>1. togo = 4 * s + 6 /\ then = q + 1 + (2 * s + 2 + u)
    BY <1>4 DEF Moved, StepsToGo, At
  <2>2. q = 2 * s /\ u \in {1, 2}
    BY <1>4 DEF NewTodo, NewCall
  <2> QED
    BY <1>0, <2>1, <2>2
<1>5. CASE Moved(w, "inspect", "weigh") /\ NewTodo(w)
  <2>1. togo = 4 * s + 6 /\ then = 2 * s + 2 + u
    BY <1>5 DEF Moved, StepsToGo, At
  <2>2. u \in {1, 2}
    BY <1>5 DEF NewTodo
  <2> QED
    BY <1>0, <2>1, <2>2
<1>6. CASE Moved(w, "inspect", "report") /\ NewTodo(w)
  <2>1. togo = 4 * s + 6 /\ then = u
    BY <1>6 DEF Moved, StepsToGo, At
  <2>2. u \in {1, 2}
    BY <1>6 DEF NewTodo
  <2> QED
    BY <1>0, <2>1, <2>2
<1>7. CASE Moved(w, "raise", "weigh") /\ SameTodo(w)
  <2>1. togo = r + 1 + (2 * s + 2 + t) /\ then = 2 * s + 2 + u
    BY <1>7 DEF Moved, StepsToGo, At
  <2>2. u = t
    BY <1>7 DEF SameTodo
  <2> QED
    BY <1>0, <2>1, <2>2
<1>8. CASE Moved(w, "weigh", "lower") /\ SameTodo(w) /\ NewCall(w)
  <2>1. togo = 2 * s + 2 + t /\ then = q + 1 + u
    BY <1>8 DEF Moved, StepsToGo, At
  <2>2. u = t /\ q = 2 * s
    BY <1>8 DEF SameTodo, NewCall
  <2> QED
    BY <1>0, <2>1, <2>2
<1>9. CASE Moved(w, "weigh", "report") /\ SameTodo(w)
  <2>1. togo = 2 * s + 2 + t /\ then = u
    BY <1>9 DEF Moved, StepsToGo, At
  <2>2. u = t
    BY <1>9 DEF SameTodo
  <2> QED
    BY <1>0, <2>1, <2>2
<1>10. CASE Moved(w, "lower", "report") /\ SameTodo(w)
  <2>1. togo = r + 1 + t /\ then = u
    BY <1>10 DEF Moved, StepsToGo, At
  <2>2. u = t
    BY <1>10 DEF SameTodo
  <2> QED
    BY <1>0, <2>1, <2>2
<1>11. CASE watch[w].pc = "raise" /\ watch'[w] = watch[w] /\ q < r
  <2>1. /\ togo = r + 1 + (2 * s + 2 + t) /\ then = q + 1 + (2 * s + 2 + u)
        /\ u = t
    BY <1>11 DEF StepsToGo, At
  <2> QED
    BY <1>0, <1>11, <2>1
<1>12. CASE watch[w].pc = "lower" /\ watch'[w] = watch[w] /\ q < r
  <2>1. togo = r + 1 + t /\ then = q + 1 + u /\ u = t
    BY <1>12 DEF StepsToGo, At
  <2> QED
    BY <1>0, <1>12, <2>1
<1>13. CASE Moved(w, "report", "report") /\ t = 2 /\ u = 1
  <2>1. togo = t /\ then = u
    BY <1>13 DEF Moved, StepsToGo, At
  <2> QED
    BY <1>13, <2>1
<1>14. CASE Moved(w, "report", "wait") /\ t = 1
  <2>1. togo = t /\ then = 0
    BY <1>14 DEF Moved, StepsToGo, At
  <2> QED
    BY <1>14, <2>1
<1>15. CASE \/ Moved(w, "lock", "remove") \/ Moved(w, "remove", "relock")
            \/ Moved(w, "relock", "relist") \/ Moved(w, "relist", "wait")
  BY <1>15 DEF Moved, StepsToGo, At
<1> QED
  BY <1>1, <1>2, <1>3, <1>4, <1>5, <1>6, <1>7, <1>8, <1>9, <1>10, <1>11,
     <1>12, <1>13, <1>14, <1>15 DEF Leads, Moved, PassPlaces, ReleasePlaces

(* A pass of any watcher takes a bounded number of steps, however many     *)
(* others write the object or stand in the queue for the lock.             *)
THEOREM PassesRunOutAlways == Spec => PassesRunOut
<1>1. OwnTypes /\ ScaleFacts!Inv /\ ScaleFacts!Inv' /\ Scale!TypeOK
        /\ Registering /\ AllInformed /\ AllArmed /\ [Next]_vars =>
          [\A w \in Watchers :
             watch[w].pc \in PassPlaces \cup ReleasePlaces =>
               IF Goroutine(w) THEN StepsToGo(w)' < StepsToGo(w)
                               ELSE StepsToGo(w)' = StepsToGo(w)]_vars
  <2> SUFFICES ASSUME OwnTypes, ScaleFacts!Inv, ScaleFacts!Inv',
                      Scale!TypeOK, Registering, AllInformed, AllArmed,
                      [Next]_vars, NEW w \in Watchers,
                      watch[w].pc \in PassPlaces \cup ReleasePlaces
               PROVE  IF Goroutine(w) THEN StepsToGo(w)' < StepsToGo(w)
                                      ELSE StepsToGo(w)' = StepsToGo(w)
    OBVIOUS
  <2>1. CASE Goroutine(w)
    <3>1. Scale!Requests(call'[w]) \in Nat
      <4>1. /\ call'[w] \in ScaleFacts!Calls
            /\ ScaleFacts!Sound(call'[w], obj')
        BY DEF ScaleFacts!Inv, ScaleFacts!TypeOK
      <4>2. ScaleFacts!Requests(call'[w]) \in 0..2 * Steps
        BY <4>1, ScaleAssumed, ScaleFacts!RequestsType
      <4> QED
        BY <4>2, SameRequests
    <3> QED
      BY <2>1, <3>1, GoroutineLeads, LeadsFewer DEF AllArmed
  <2>2. CASE ~Goroutine(w)
    BY <2>2, OthersLead DEF StepsToGo, At
  <2> QED
    BY <2>1, <2>2
<1> QED
  BY <1>1, ArmedAlways, InformedAlways, OwnTypesAlways, ScaleTypes, ScaleInv,
     RegisteringAlways, PTL DEF Spec, PassesRunOut

-----------------------------------------------------------------------------
(* What the findings show, for every instance *)

(* No step of a watcher leaves the count above the ceiling if it raised    *)
(* it: the one bound that holds where MaxReplicas does not.                *)
THEOREM CeilingKeptAlways == Spec => CeilingKept
<1>1. Scale!TypeOK /\ [Scale!Counter!Next]_(Scale!Counter!vars) =>
        \A w \in Watchers :
          obj'.by = w /\ obj'.replicas > obj.replicas =>
            obj'.replicas <= Ceiling
  <2> SUFFICES ASSUME Scale!TypeOK, [Scale!Counter!Next]_(Scale!Counter!vars),
                      NEW w \in Watchers,
                      obj'.by = w, obj'.replicas > obj.replicas
               PROVE  obj'.replicas <= Ceiling
    OBVIOUS
  <2>0. obj.replicas \in Nat /\ Outside \notin Watchers /\ Ceiling \in Nat
    BY ScaleAssumed DEF Scale!TypeOK, Scale!Objects
  <2>1. CASE \E x \in Watchers : Scale!Counter!Raise(x)
    BY <2>0, <2>1 DEF Scale!Counter!Raise
  <2>2. CASE \E x \in Watchers : Scale!Counter!Lower(x)
                                 \/ Scale!Counter!Rewrite(x)
    BY <2>0, <2>2 DEF Scale!Counter!Lower, Scale!Counter!Rewrite
  <2>3. CASE Scale!Counter!Outsider
    BY <2>0, <2>3 DEF Scale!Counter!Outsider
  <2>4. CASE UNCHANGED Scale!Counter!vars
    BY <2>0, <2>4 DEF Scale!Counter!vars
  <2> QED
    BY <2>1, <2>2, <2>3, <2>4 DEF Scale!Counter!Next
<1>2. Spec => [][Scale!Counter!Next]_(Scale!Counter!vars)
  BY WatchersCount, PTL DEF Scale!CounterSpec, Scale!Counter!Spec
<1> QED
  BY <1>1, <1>2, ScaleTypes, PTL DEF CeilingKept
=============================================================================
