--------------------------- MODULE ScaleUpProofs ----------------------------
(***************************************************************************)
(* Proofs about ScaleUp for any number of watchers with any limits, any    *)
(* usage and any edits from outside.                                       *)
(***************************************************************************)
EXTENDS ScaleUp, TLAPS

-----------------------------------------------------------------------------
(* What a pass compares with its limits *)

(* The variables of ScaleUp itself. *)
OwnTypes ==
  /\ res \in Resources
  /\ pass \in [Watchers -> Places]
  /\ pods \in [Watchers -> BOOLEAN]
  /\ timer \in [Watchers -> [running : BOOLEAN, tick : BOOLEAN]]
  /\ seen \in [Watchers -> [res : Resources, fresh : BOOLEAN]]
  /\ limit \in [Watchers -> [Kinds -> Int]]
  /\ applies \in [Watchers -> 0..2]

(* No reading is negative, so that the least of them and 0 is 0. *)
LEMMA LeastIsZero ==
  ASSUME NEW w \in Watchers,
         NEW usage \in [Kinds -> Readings(w)],
         NEW k \in Kinds,
         NEW n, Least(n, usage[k])
  PROVE  n = 0
<1>1. \A readings \in Readings(w) : readings \subseteq Nat
  BY ScaleUpAssumption DEF ScaleUpAssumption, Readings
<1>2. usage[k] \in Readings(w)
  OBVIOUS
<1> QED
  BY <1>1, <1>2 DEF Least

(* What an inspection does to w and to nobody else.  `cur' is 0 for both   *)
(* kinds, so that only a limit below 0 is ever exceeded.                   *)
LEMMA InspectsZero ==
  ASSUME NEW w \in Watchers, Inspects(w)
  PROVE  \E cur \in [Kinds -> {0}] : \E usage :
           /\ pass[w] = "inspect"
           /\ Redefines(w, cur) \/ Keeps(w, cur)
           /\ Measured(w, Above(w, cur) # {})
           /\ UNCHANGED <<res, pods, timer>>
<1>1. PICK usage \in [Kinds -> Readings(w)] :
        \E cur \in [Kinds -> UNION {usage[k] : k \in Kinds} \cup {0}] :
          /\ \A k \in Kinds : Least(cur[k], usage[k])
          /\ Redefines(w, cur) \/ Keeps(w, cur)
          /\ Measured(w, Above(w, cur) # {})
  BY DEF Inspects
<1>2. PICK cur \in [Kinds -> UNION {usage[k] : k \in Kinds} \cup {0}] :
          /\ \A k \in Kinds : Least(cur[k], usage[k])
          /\ Redefines(w, cur) \/ Keeps(w, cur)
          /\ Measured(w, Above(w, cur) # {})
  BY <1>1
<1>3. \A k \in Kinds : cur[k] = 0
  BY <1>2, LeastIsZero
<1>4. cur \in [Kinds -> {0}]
  BY <1>3
<1> QED
  BY <1>2, <1>4 DEF Inspects

-----------------------------------------------------------------------------
(* Type correctness *)

LEMMA NoCopyType == NoCopy \in [res : Resources, fresh : BOOLEAN]
  BY DEF NoCopy, Resources

LEMMA OwnInit == Init => OwnTypes
<1> SUFFICES ASSUME Init PROVE OwnTypes
  OBVIOUS
<1>1. res \in Resources
  BY ScaleUpAssumption DEF ScaleUpAssumption, Init, Resources
<1>2. limit \in [Watchers -> [Kinds -> Int]]
  BY ScaleUpAssumption DEF ScaleUpAssumption, ConfigType, Init
<1>3. seen \in [Watchers -> [res : Resources, fresh : BOOLEAN]]
  BY NoCopyType DEF Init
<1> QED
  BY <1>1, <1>2, <1>3 DEF Init, OwnTypes, Places

LEMMA InspectsTypes ==
  ASSUME OwnTypes, NEW w \in Watchers, Inspects(w)
  PROVE  OwnTypes'
<1>a. PICK cur \in [Kinds -> {0}] : \E usage :
           /\ Redefines(w, cur) \/ Keeps(w, cur)
           /\ Measured(w, Above(w, cur) # {})
           /\ UNCHANGED <<res, pods, timer>>
  BY InspectsZero
<1>1. PICK usage :
           /\ Redefines(w, cur) \/ Keeps(w, cur)
           /\ Measured(w, Above(w, cur) # {})
           /\ UNCHANGED <<res, pods, timer>>
  BY <1>a
<1>2. applies' \in [Watchers -> 0..2]
  <2>1. applies[w] \in 0..2
    BY DEF OwnTypes
  <2>2. (IF Above(w, cur) # {} /\ applies[w] < 2 THEN applies[w] + 1
         ELSE applies[w]) \in 0..2
    BY <2>1
  <2> QED
    BY <1>1, <2>2 DEF Measured, OwnTypes
<1>3. CASE Keeps(w, cur)
  BY <1>1, <1>2, <1>3 DEF Keeps, Goto, OwnTypes, Places
<1>4. CASE Redefines(w, cur)
  <2> DEFINE r == [k \in Kinds |-> IF k \in Above(w, cur) THEN Grown(cur[k])
                                   ELSE seen[w].res[k]]
             l == [k \in Kinds |-> IF k \in Above(w, cur) THEN cur[k]
                                   ELSE limit[w][k]]
  <2>1. r \in Resources
    <3>1. Grown(0) \in Nat
      BY DEF Grown
    <3>2. seen[w].res \in Resources
      BY DEF OwnTypes
    <3> QED
      BY <3>1, <3>2 DEF Resources
  <2>2. l \in [Kinds -> Int]
    BY DEF OwnTypes
  <2>3. seen' = [seen EXCEPT ![w].res = r]
    BY <1>4 DEF Redefines
  <2>4. limit' = [limit EXCEPT ![w] = l]
    BY <1>4 DEF Redefines, RaiseLimits
  <2> HIDE DEF r, l
  <2>5. seen' \in [Watchers -> [res : Resources, fresh : BOOLEAN]]
    BY <2>1, <2>3 DEF OwnTypes
  <2>6. limit' \in [Watchers -> [Kinds -> Int]]
    BY <2>2, <2>4 DEF OwnTypes
  <2>7. pass' \in [Watchers -> Places]
    BY <1>4 DEF Redefines, Goto, OwnTypes, Places
  <2> QED
    BY <1>1, <1>2, <2>5, <2>6, <2>7 DEF OwnTypes
<1> QED
  BY <1>1, <1>3, <1>4

LEMMA StaleTypes ==
  ASSUME OwnTypes
  PROVE  [x \in Watchers |-> [seen[x] EXCEPT !.fresh = FALSE]]
           \in [Watchers -> [res : Resources, fresh : BOOLEAN]]
  BY DEF OwnTypes

LEMMA OwnStep == OwnTypes /\ [Next]_vars => OwnTypes'
<1> SUFFICES ASSUME OwnTypes, [Next]_vars PROVE OwnTypes'
  OBVIOUS
<1>1. ASSUME NEW w \in Watchers, Tick(w) \/ TakeTick(w)
      PROVE  OwnTypes'
  <2>1. timer' \in [Watchers -> [running : BOOLEAN, tick : BOOLEAN]]
    BY <1>1, ZenonT(60) DEF Tick, TakeTick, OwnTypes
  <2>2. pass' \in [Watchers -> Places]
    BY <1>1 DEF Tick, TakeTick, Goto, OwnTypes, Places
  <2> QED
    BY <1>1, <2>1, <2>2 DEF Tick, TakeTick, OwnTypes
<1>2. ASSUME NEW w \in Watchers, Exists(w)
      PROVE  OwnTypes'
  BY <1>2 DEF Exists, Goto, OwnTypes, Places
<1>3. ASSUME NEW w \in Watchers, ExistsFails(w)
      PROVE  OwnTypes'
  <2>1. timer' \in [Watchers -> [running : BOOLEAN, tick : BOOLEAN]]
    BY <1>3, ZenonT(60) DEF ExistsFails, OwnTypes
  <2>2. pods' \in [Watchers -> BOOLEAN]
    BY <1>3, ZenonT(60) DEF ExistsFails, OwnTypes
  <2> QED
    BY <1>3, <2>1, <2>2 DEF ExistsFails, Goto, OwnTypes, Places
<1>4. ASSUME NEW w \in Watchers, FindsAbnormal(w)
      PROVE  OwnTypes'
  BY <1>4 DEF FindsAbnormal, Goto, OwnTypes, Places
<1>5. ASSUME NEW w \in Watchers, Calling(w)
      PROVE  OwnTypes'
  BY <1>5, StaleTypes DEF Calling, OwnTypes
<1>6. ASSUME NEW w \in Watchers, Applied(w)
      PROVE  OwnTypes'
  BY <1>6 DEF Applied, Goto, OwnTypes, Places
<1>7. ASSUME NEW w \in Watchers, Reports(w)
      PROVE  OwnTypes'
  <2>1. NoCopy \in [res : Resources, fresh : BOOLEAN]
    BY NoCopyType
  <2>2. applies' \in [Watchers -> 0..2]
    BY <1>7 DEF Reports, OwnTypes
  <2> QED
    BY <1>7, <2>1, <2>2 DEF Reports, Goto, OwnTypes, Places
<1>8. CASE Cluster
  <2>1. res' \in Resources
    BY <1>8, ScaleUpAssumption
    DEF Cluster, OwnTypes, Resources, ScaleUpAssumption
  <2> QED
    BY <1>8, <2>1, StaleTypes DEF Cluster, OwnTypes
<1>9. CASE UNCHANGED vars
  BY <1>9 DEF vars, OwnTypes
<1> QED
  BY <1>1, <1>2, <1>3, <1>4, <1>5, <1>6, <1>7, <1>8, <1>9, InspectsTypes
  DEF Next

LEMMA OwnTypesAlways == Spec => []OwnTypes
  BY OwnInit, OwnStep, PTL DEF Spec

-----------------------------------------------------------------------------
(* A pass writes the object through ReplicaScale only *)

LEMMA ScaleStep == OwnTypes /\ [Next]_vars => [Scale!Next]_(Scale!vars)
<1> SUFFICES ASSUME OwnTypes, [Next]_vars
             PROVE  [Scale!Next]_(Scale!vars)
  OBVIOUS
<1>0. UNCHANGED <<obj, call>> => UNCHANGED Scale!vars
  BY DEF Scale!vars
<1>1. ASSUME NEW w \in Watchers,
             \/ Tick(w) \/ TakeTick(w) \/ Exists(w) \/ ExistsFails(w)
             \/ FindsAbnormal(w) \/ Reports(w)
      PROVE  UNCHANGED Scale!vars
  BY <1>0, <1>1 DEF Tick, TakeTick, Exists, ExistsFails, FindsAbnormal, Reports
<1>2. ASSUME NEW w \in Watchers, Inspects(w)
      PROVE  [Scale!Next]_(Scale!vars)
  <2>1. PICK cur : Redefines(w, cur) \/ Keeps(w, cur)
    BY <1>2 DEF Inspects
  <2>2. seen[w].fresh \in BOOLEAN
    BY DEF OwnTypes
  <2> QED
    BY <2>1, <2>2, <1>0 DEF Redefines, Keeps, Scale!Next
<1>3. ASSUME NEW w \in Watchers, Calling(w) \/ Applied(w)
      PROVE  Scale!Next
  BY <1>3 DEF Calling, Applied, Scale!Next
<1>4. CASE Cluster
  BY <1>4 DEF Cluster, Scale!Next
<1>5. CASE UNCHANGED vars
  BY <1>5, <1>0 DEF vars
<1> QED
  BY <1>1, <1>2, <1>3, <1>4, <1>5 DEF Next

(* What is proved of ReplicaScale holds of the SCALE_UP passes.            *)
THEOREM ImplementsScale == Spec => Scale!Spec
<1>1. Init => Scale!Init
  BY DEF Init
<1> QED
  BY <1>1, ScaleStep, OwnTypesAlways, PTL DEF Spec, Scale!Spec

ScaleFacts == INSTANCE ReplicaScaleProofs

LEMMA ScaleAssumed ==
  /\ Outside \notin Watchers
  /\ Ceiling \in Nat
  /\ Edits \subseteq Nat
  /\ Steps \in Nat \ {0}
  BY ScaleUpAssumption DEF ScaleUpAssumption
(* Scale and ScaleFacts instantiate the same module: their formulas are    *)
(* the same once they are written out.                                     *)
LEMMA SameInit == Scale!Init <=> ScaleFacts!Init
  BY DEF Scale!Init, ScaleFacts!Init, Scale!NoCall, ScaleFacts!NoCall

LEMMA SameNext == Scale!Next <=> ScaleFacts!Next
  BY DEF Scale!Next, Scale!Begin, Scale!BeginApply, Scale!Answer,
    Scale!GetError, Scale!BelowCeiling, Scale!Get, Scale!MaxReached,
    Scale!Accepted, Scale!AfterWrite, Scale!Commit, Scale!AfterConflict,
    Scale!Conflict, Scale!UpdateError, Scale!Return, Scale!Set,
    Scale!Overtaken, Scale!OutsideWrite, Scale!OutsideEdit,
    Scale!OutsideDelete, Scale!OutsideCreate, Scale!Cluster, Scale!Running,
    Scale!NoCall, Scale!Delta,
    ScaleFacts!Next, ScaleFacts!Begin, ScaleFacts!BeginApply,
    ScaleFacts!Answer, ScaleFacts!GetError, ScaleFacts!BelowCeiling,
    ScaleFacts!Get, ScaleFacts!MaxReached, ScaleFacts!Accepted,
    ScaleFacts!AfterWrite, ScaleFacts!Commit, ScaleFacts!AfterConflict,
    ScaleFacts!Conflict, ScaleFacts!UpdateError, ScaleFacts!Return,
    ScaleFacts!Set, ScaleFacts!Overtaken, ScaleFacts!OutsideWrite,
    ScaleFacts!OutsideEdit, ScaleFacts!OutsideDelete,
    ScaleFacts!OutsideCreate, ScaleFacts!Cluster, ScaleFacts!Running,
    ScaleFacts!NoCall, ScaleFacts!Delta

LEMMA SameTypes == Scale!TypeOK <=> ScaleFacts!TypeOK
  BY DEF Scale!TypeOK, Scale!Objects, Scale!Calls, Scale!Ops, Scale!Places,
    ScaleFacts!TypeOK, ScaleFacts!Objects, ScaleFacts!Calls, ScaleFacts!Ops,
    ScaleFacts!Places

LEMMA ImplementsFacts == Spec => ScaleFacts!Spec
<1>1. Scale!vars = ScaleFacts!vars
  BY DEF Scale!vars, ScaleFacts!vars
<1>2. [Scale!Next]_(Scale!vars) => [ScaleFacts!Next]_(ScaleFacts!vars)
  BY <1>1, SameNext DEF Scale!vars, ScaleFacts!vars
<1> QED
  BY <1>2, SameInit, ImplementsScale, PTL DEF Scale!Spec, ScaleFacts!Spec

LEMMA ScaleInv == Spec => []ScaleFacts!Inv
<1>1. ScaleFacts!Spec => []ScaleFacts!Inv
  BY ScaleAssumed, ScaleFacts!Invariance
<1> QED
  BY <1>1, ImplementsFacts, PTL

-----------------------------------------------------------------------------
(* TypeCorrect *)

LEMMA ScaleTypes == Spec => []Scale!TypeOK
<1>1. ScaleFacts!Inv => Scale!TypeOK
  BY SameTypes DEF ScaleFacts!Inv
<1> QED
  BY <1>1, ScaleInv, PTL

(* Every variable keeps its type: in particular no redefined resource is   *)
(* negative, whatever limits izone.yaml gives.                             *)
THEOREM TypeCorrect == Spec => []TypeOK
<1>1. OwnTypes /\ Scale!TypeOK => TypeOK
  BY DEF OwnTypes, TypeOK
<1> QED
  BY <1>1, OwnTypesAlways, ScaleTypes, PTL

-----------------------------------------------------------------------------
(* Limits *)

LEMMA InspectsLimits ==
  ASSUME OwnTypes, NEW w \in Watchers, Inspects(w)
  PROVE  /\ \A x \in Watchers \ {w} :
              limit'[x] = limit[x] /\ applies'[x] = applies[x]
         /\ \A k \in Kinds : limit'[w][k] >= limit[w][k]
         /\ \/ /\ \A k \in Kinds : limit[w][k] >= 0
               /\ limit'[w] = limit[w]
               /\ UNCHANGED <<obj, call>>
               /\ applies'[w] = applies[w]
            \/ /\ \A k \in Kinds : limit'[w][k] >= 0
               /\ \E k \in Kinds : limit[w][k] < 0
               /\ applies[w] < 2 =>
                    applies'[w] = applies[w] + 1
<1>a. PICK cur \in [Kinds -> {0}] : \E usage :
           /\ Redefines(w, cur) \/ Keeps(w, cur)
           /\ Measured(w, Above(w, cur) # {})
  BY InspectsZero
<1>1. PICK usage :
           /\ Redefines(w, cur) \/ Keeps(w, cur)
           /\ Measured(w, Above(w, cur) # {})
  BY <1>a
<1>2. \A x \in Watchers \ {w} : applies'[x] = applies[x]
  BY <1>1 DEF Measured, OwnTypes
<1>3. applies'[w] = IF Above(w, cur) # {} /\ applies[w] < 2
                         THEN applies[w] + 1 ELSE applies[w]
  BY <1>1 DEF Measured, OwnTypes
<1>4. limit[w] \in [Kinds -> Int]
  BY DEF OwnTypes
<1>5. CASE Keeps(w, cur)
  <2>1. \A k \in Kinds : limit[w][k] >= 0
    BY <1>4, <1>5 DEF Keeps, Above
  <2>2. Above(w, cur) = {} /\ UNCHANGED <<obj, call, limit>>
    BY <1>5 DEF Keeps
  <2> QED
    BY <1>2, <1>3, <1>4, <2>1, <2>2
<1>6. CASE Redefines(w, cur)
  <2>1. limit' = [limit EXCEPT ![w] =
           [k \in Kinds |-> IF k \in Above(w, cur) THEN cur[k]
                            ELSE limit[w][k]]]
    BY <1>6 DEF Redefines, RaiseLimits
  <2>2. \A x \in Watchers \ {w} : limit'[x] = limit[x]
    BY <2>1 DEF OwnTypes
  <2>3. \A k \in Kinds : limit'[w][k] = IF limit[w][k] < 0 THEN 0
                                        ELSE limit[w][k]
    BY <1>4, <2>1 DEF Above, OwnTypes
  <2>4. \E k \in Kinds : limit[w][k] < 0
    BY <1>4, <1>6 DEF Redefines, Above
  <2>5. Above(w, cur) # {}
    BY <1>6 DEF Redefines
  <2> QED
    BY <1>2, <1>3, <1>4, <2>2, <2>3, <2>4, <2>5
<1> QED
  BY <1>1, <1>5, <1>6

LEMMA OthersKeepLimits ==
  ASSUME OwnTypes, [Next]_vars,
         ~ \E w \in Watchers : Inspects(w)
  PROVE  /\ limit' = limit
         /\ \A w \in Watchers : applies'[w] = applies[w]
  BY DEF Next, vars, Tick, TakeTick, Exists, ExistsFails, FindsAbnormal,
    Calling, Applied, Reports, Cluster

(* However usage moves, a limit only ever goes up.                         *)
THEOREM LimitsRiseAlways == Spec => LimitsRise
<1>1. OwnTypes /\ [Next]_vars =>
        [\A w \in Watchers, k \in Kinds : limit'[w][k] >= limit[w][k]]_vars
  <2> SUFFICES ASSUME OwnTypes, [Next]_vars,
                      NEW x \in Watchers, NEW k \in Kinds
               PROVE  limit'[x][k] >= limit[x][k]
    OBVIOUS
  <2>0. limit[x][k] \in Int
    BY DEF OwnTypes
  <2>1. CASE \E w \in Watchers : Inspects(w)
    <3>1. PICK w \in Watchers : Inspects(w)
      BY <2>1
    <3> QED
      BY <2>0, <3>1, InspectsLimits
  <2> QED
    BY <2>0, <2>1, OthersKeepLimits
<1> QED
  BY <1>1, OwnTypesAlways, PTL DEF Spec, LimitsRise

(* Once a watcher has applied, neither limit is below 0 any more, and then *)
(* no pass applies again.                                                  *)
Spent ==
  \A w \in Watchers :
    /\ applies[w] <= 1
    /\ applies[w] = 1 => \A k \in Kinds : limit[w][k] >= 0

LEMMA SpentStep == OwnTypes /\ Spent /\ [Next]_vars => Spent'
<1> SUFFICES ASSUME OwnTypes, Spent, [Next]_vars, NEW x \in Watchers
             PROVE  /\ applies'[x] <= 1
                    /\ applies'[x] = 1 =>
                         \A k \in Kinds : limit'[x][k] >= 0
  BY DEF Spent
<1>0. applies[x] \in 0..1 /\ limit[x] \in [Kinds -> Int]
  BY DEF OwnTypes, Spent
<1>1. CASE \E w \in Watchers : Inspects(w)
  <2>1. PICK w \in Watchers : Inspects(w)
    BY <1>1
  <2>2. CASE x = w
    BY <1>0, <2>1, <2>2, InspectsLimits DEF Spent
  <2>3. CASE x # w
    BY <2>1, <2>3, InspectsLimits DEF Spent
  <2> QED
    BY <2>2, <2>3
<1>2. CASE ~ \E w \in Watchers : Inspects(w)
  BY <1>2, OthersKeepLimits DEF Spent
<1> QED
  BY <1>1, <1>2

(* A watcher applies at most once, with any limits and whatever came of    *)
(* it.                                                                     *)
THEOREM AppliesOnceAlways == Spec => []AppliesOnce
<1>1. Init => Spent
  <2> SUFFICES ASSUME Init, NEW w \in Watchers
               PROVE  /\ applies[w] <= 1
                      /\ applies[w] = 1 =>
                           \A k \in Kinds : limit[w][k] >= 0
    BY DEF Spent
  <2>1. applies[w] = 0
    BY DEF Init
  <2> QED
    BY <2>1
<1>2. Spent => AppliesOnce
  BY DEF Spent, AppliesOnce
<1> QED
  BY <1>1, <1>2, SpentStep, OwnTypesAlways, PTL DEF Spec

-----------------------------------------------------------------------------
(* Calls *)

(* Only an inspection begins a call of w, and only the answer to a call of *)
(* w carries w's write; the answers to others and the cluster can at most  *)
(* put the copy of w out of date.                                          *)
LEMMA CallSteps ==
  ASSUME OwnTypes, Scale!TypeOK, [Next]_vars, NEW x \in Watchers
  PROVE  \/ Inspects(x)
         \/ Calling(x)
         \/ Applied(x)
         \/ /\ UNCHANGED <<obj, res>>
            /\ call'[x] = call[x]
         \/ /\ call'[x] = Scale!Overtaken(call[x])
            /\ obj'.by # x
<1>1. ASSUME NEW w \in Watchers \ {x}, Inspects(w)
      PROVE  UNCHANGED <<obj, res>> /\ call'[x] = call[x]
  <2>1. PICK cur : Redefines(w, cur) \/ Keeps(w, cur)
    BY <1>1 DEF Inspects
  <2>2. CASE Keeps(w, cur)
    BY <1>1, <2>2 DEF Keeps, Inspects
  <2>3. CASE Redefines(w, cur)
    <3>1. Scale!BeginApply(w, seen[w].fresh)
      BY <2>3 DEF Redefines
    <3>2. PICK c : call' = [call EXCEPT ![w] = c]
      BY <3>1 DEF Scale!BeginApply, Scale!Set
    <3> QED
      BY <1>1, <3>1, <3>2 DEF Inspects, Scale!BeginApply, Scale!TypeOK
  <2> QED
    BY <2>1, <2>2, <2>3
<1>2. ASSUME NEW w \in Watchers \ {x}, Applied(w)
      PROVE  UNCHANGED <<obj, res>> /\ call'[x] = call[x]
  BY <1>2 DEF Applied, Scale!Return, Scale!Set, Scale!TypeOK
<1>3. ASSUME NEW w \in Watchers \ {x}, Calling(w)
      PROVE  \/ UNCHANGED <<obj, res>> /\ call'[x] = call[x]
             \/ call'[x] = Scale!Overtaken(call[x]) /\ obj'.by # x
  <2>1. ASSUME NEW acked, Scale!Commit(w, acked)
        PROVE  call'[x] = Scale!Overtaken(call[x]) /\ obj'.by # x
    <3>1. obj' = [obj EXCEPT !.replicas = call[w].replicas, !.by = w]
      BY <2>1 DEF Scale!Commit
    <3>2. obj'.by = w
      BY <3>1 DEF Scale!TypeOK, Scale!Objects
    <3> QED
      BY <2>1, <3>2 DEF Scale!Commit
  <2>2. ASSUME NEW c, c.wrote = call[w].wrote, UNCHANGED obj, Scale!Set(w, c)
        PROVE  UNCHANGED <<obj, res>> /\ call'[x] = call[x]
    <3>1. call'[w] = c /\ call'[x] = call[x]
      BY <2>2 DEF Scale!Set, Scale!TypeOK
    <3>2. call[w].wrote \in Nat
      BY DEF Scale!TypeOK, Scale!Calls
    <3>3. ~ (call'[w].wrote > call[w].wrote)
      BY <2>2, <3>1, <3>2
    <3> QED
      BY <1>3, <2>2, <3>1, <3>3 DEF Calling
  <2>3. call[w] \in Scale!Calls
    BY DEF Scale!TypeOK
  <2>4. CASE Scale!GetError(w) \/ Scale!MaxReached(w) \/ Scale!UpdateError(w)
    BY <2>2, <2>3, <2>4
    DEF Scale!GetError, Scale!MaxReached, Scale!UpdateError, Scale!Calls
  <2>5. CASE Scale!Get(w)
    BY <2>2, <2>3, <2>5 DEF Scale!Get, Scale!Calls
  <2>6. CASE Scale!Conflict(w)
    <3>1. Scale!AfterConflict(call[w]).wrote = call[w].wrote
      BY <2>3 DEF Scale!AfterConflict, Scale!Calls
    <3> QED
      BY <2>2, <2>6, <3>1 DEF Scale!Conflict
  <2> QED
    BY <1>3, <2>1, <2>4, <2>5, <2>6 DEF Calling, Scale!Answer
<1>4. CASE Cluster
  <2>1. PICK o : Scale!OutsideWrite(o) /\ o.by = Outside
    <3>1. ASSUME NEW n, Scale!OutsideEdit(n)
          PROVE  \E o : Scale!OutsideWrite(o) /\ o.by = Outside
      <4>1. [obj EXCEPT !.replicas = n, !.by = Outside].by = Outside
        BY DEF Scale!TypeOK, Scale!Objects
      <4> QED
        BY <3>1, <4>1 DEF Scale!OutsideEdit
    <3>2. ASSUME Scale!OutsideDelete
          PROVE  \E o : Scale!OutsideWrite(o) /\ o.by = Outside
      <4>1. [obj EXCEPT !.exists = FALSE, !.by = Outside].by = Outside
        BY DEF Scale!TypeOK, Scale!Objects
      <4> QED
        BY <3>2, <4>1 DEF Scale!OutsideDelete
    <3>3. ASSUME NEW n, Scale!OutsideCreate(n)
          PROVE  \E o : Scale!OutsideWrite(o) /\ o.by = Outside
      <4>1. [exists |-> TRUE, replicas |-> n, by |-> Outside].by = Outside
        OBVIOUS
      <4> QED
        BY <3>3, <4>1 DEF Scale!OutsideCreate
    <3> QED
      BY <1>4, <3>1, <3>2, <3>3 DEF Cluster, Scale!Cluster
  <2>2. x # Outside
    BY ScaleAssumed
  <2> QED
    BY <2>1, <2>2 DEF Scale!OutsideWrite
<1>5. ASSUME NEW w \in Watchers,
             \/ Tick(w) \/ TakeTick(w) \/ Exists(w) \/ ExistsFails(w)
             \/ FindsAbnormal(w) \/ Reports(w)
      PROVE  UNCHANGED <<obj, res>> /\ call'[x] = call[x]
  BY <1>5 DEF Tick, TakeTick, Exists, ExistsFails, FindsAbnormal, Reports
<1>6. CASE UNCHANGED vars
  BY <1>6 DEF vars
<1> QED
  BY <1>1, <1>2, <1>3, <1>4, <1>5, <1>6 DEF Next

(* A watcher whose limits are 0 or more begins no call and writes nothing. *)
Calm(w) == \A k \in Kinds : Config[w].limit[k] >= 0

Quiet ==
  \A w \in Watchers :
    Calm(w) => /\ \A k \in Kinds : limit[w][k] >= 0
               /\ call[w].at = "idle"
               /\ obj.by # w

LEMMA QuietInit == Init => Quiet
<1> SUFFICES ASSUME Init, NEW w \in Watchers, Calm(w)
             PROVE  /\ \A k \in Kinds : limit[w][k] >= 0
                    /\ call[w].at = "idle"
                    /\ obj.by # w
  BY DEF Quiet
<1> QED
  BY ScaleAssumed DEF Init, Calm, Scale!Init, Scale!NoCall

LEMMA QuietStep ==
  OwnTypes /\ Scale!TypeOK /\ Quiet /\ [Next]_vars => Quiet'
<1> SUFFICES ASSUME OwnTypes, Scale!TypeOK, Quiet, [Next]_vars,
                    NEW x \in Watchers, Calm(x)
             PROVE  /\ \A k \in Kinds : limit'[x][k] >= 0
                    /\ call'[x].at = "idle"
                    /\ obj'.by # x
  BY DEF Quiet, Calm
<1>0. (\A k \in Kinds : limit[x][k] >= 0) /\ call[x].at = "idle" /\ obj.by # x
  BY DEF Quiet
<1>a. \A k \in Kinds : limit[x][k] \in Int
  BY DEF OwnTypes
<1>1. \A k \in Kinds : limit'[x][k] >= 0
  <2>1. CASE \E w \in Watchers : Inspects(w)
    BY <1>0, <2>1, InspectsLimits
  <2>2. CASE ~ \E w \in Watchers : Inspects(w)
    BY <1>0, <2>2, OthersKeepLimits
  <2> QED
    BY <2>1, <2>2
<1>2. CASE Inspects(x)
  BY <1>0, <1>1, <1>2, <1>a, InspectsLimits
<1>3. ~Calling(x) /\ ~Applied(x)
  BY <1>0 DEF Calling, Applied, Scale!Answer, Scale!GetError, Scale!Get,
    Scale!MaxReached, Scale!Commit, Scale!Conflict, Scale!UpdateError,
    Scale!Return
<1>4. Scale!Overtaken(call[x]) = call[x]
  BY <1>0 DEF Scale!Overtaken, Scale!Running
<1> QED
  BY <1>0, <1>1, <1>2, <1>3, <1>4, CallSteps

(* Any usage, any number of pods and of other watchers: an item with       *)
(* limits that make sense never changes the object.                        *)
THEOREM QuietWithLimitsAlways == Spec => []QuietWithLimits
<1>1. Quiet => QuietWithLimits
  BY DEF Quiet, QuietWithLimits, Calm
<1> QED
  BY <1>1, QuietInit, QuietStep, OwnTypesAlways, ScaleTypes, PTL DEF Spec

-----------------------------------------------------------------------------
(* Copies *)

(* A limit is never below the one of izone.yaml.  While w inspects, a copy *)
(* that is still fresh is the object; while w writes, it differs from the  *)
(* object in the resources whose limit the pass has raised.                *)
Honest ==
  \A w \in Watchers :
    /\ \A k \in Kinds : limit[w][k] >= Config[w].limit[k]
    /\ pass[w] = "inspect" /\ seen[w].fresh => seen[w].res = res
    /\ call[w].at # "idle" => pass[w] = "apply" /\ call[w].op = "apply"
    /\ call[w].at # "get"
    /\ call[w].at = "update" /\ call[w].fresh =>
         \A k \in Kinds :
           seen[w].res[k] # res[k] => limit[w][k] > Config[w].limit[k]

LEMMA HonestInit == Init => Honest
<1> SUFFICES ASSUME Init, NEW w \in Watchers
             PROVE  /\ \A k \in Kinds : limit[w][k] >= Config[w].limit[k]
                    /\ pass[w] = "wait"
                    /\ call[w].at = "idle"
  BY DEF Honest
<1>1. \A k \in Kinds : Config[w].limit[k] \in Int
  BY ScaleUpAssumption DEF ScaleUpAssumption, ConfigType
<1> QED
  BY <1>1 DEF Init, Scale!Init, Scale!NoCall

(* The pass of w itself. *)
LEMMA InspectsHonest ==
  ASSUME OwnTypes, Scale!TypeOK, Honest, NEW w \in Watchers, Inspects(w)
  PROVE  Honest'
<1>a. PICK cur \in [Kinds -> {0}] : \E usage :
        /\ pass[w] = "inspect"
        /\ Redefines(w, cur) \/ Keeps(w, cur)
        /\ Measured(w, Above(w, cur) # {})
        /\ UNCHANGED <<res, pods, timer>>
  BY InspectsZero
<1>1. PICK usage :
        /\ pass[w] = "inspect"
        /\ Redefines(w, cur) \/ Keeps(w, cur)
        /\ Measured(w, Above(w, cur) # {})
        /\ UNCHANGED <<res, pods, timer>>
  BY <1>a
<1>2. CASE Keeps(w, cur)
  BY <1>1, <1>2 DEF Keeps, Goto, Honest, OwnTypes
<1>3. CASE Redefines(w, cur)
  <2>0. Scale!BeginApply(w, seen[w].fresh)
    BY <1>3 DEF Redefines
  <2>1. PICK c : /\ call' = [call EXCEPT ![w] = c]
                 /\ c.op = "apply" /\ c.at = "update"
                 /\ c.fresh = seen[w].fresh
    <3> DEFINE c == [Scale!NoCall EXCEPT
                       !.op = "apply", !.at = "update", !.attempt = 1,
                       !.replicas = obj.replicas, !.fresh = seen[w].fresh,
                       !.foreign = IF seen[w].fresh THEN 0 ELSE 1]
    <3>1. call' = [call EXCEPT ![w] = c]
      BY <2>0 DEF Scale!BeginApply, Scale!Set
    <3>2. c.op = "apply" /\ c.at = "update" /\ c.fresh = seen[w].fresh
      BY DEF Scale!NoCall
    <3> HIDE DEF c
    <3> QED
      BY <3>1, <3>2
  <2>2. call'[w] = c /\ \A x \in Watchers \ {w} : call'[x] = call[x]
    BY <2>1 DEF Scale!TypeOK
  <2>3. /\ pass'[w] = "apply"
        /\ \A x \in Watchers \ {w} : pass'[x] = pass[x]
    BY <1>3 DEF Redefines, Goto, OwnTypes
  <2>4. \A x \in Watchers \ {w} : seen'[x] = seen[x] /\ limit'[x] = limit[x]
    BY <1>3 DEF Redefines, RaiseLimits, OwnTypes
  <2>5. ASSUME NEW k \in Kinds
        PROVE  \/ /\ seen'[w].res[k] = seen[w].res[k]
                  /\ limit'[w][k] = limit[w][k]
               \/ limit'[w][k] > limit[w][k]
    <3>1. limit'[w][k] = IF k \in Above(w, cur) THEN cur[k] ELSE limit[w][k]
      BY <1>3 DEF Redefines, RaiseLimits, OwnTypes
    <3>2. seen'[w].res[k] = IF k \in Above(w, cur) THEN Grown(cur[k])
                            ELSE seen[w].res[k]
      BY <1>3 DEF Redefines, OwnTypes
    <3> QED
      BY <3>1, <3>2 DEF Above
  <2>6. \A k \in Kinds : limit[w][k] \in Int /\ Config[w].limit[k] \in Int
                         /\ limit'[w][k] \in Int
    BY InspectsTypes, ScaleUpAssumption
    DEF ScaleUpAssumption, ConfigType, OwnTypes
  <2>7. seen[w].fresh => seen[w].res = res
    BY <1>1 DEF Honest
  <2>8. \A x \in Watchers \ {w} :
          /\ \A k \in Kinds : limit'[x][k] >= Config[x].limit[k]
          /\ pass'[x] = "inspect" /\ seen'[x].fresh => seen'[x].res = res'
          /\ call'[x].at # "idle" =>
               pass'[x] = "apply" /\ call'[x].op = "apply"
          /\ call'[x].at # "get"
          /\ call'[x].at = "update" /\ call'[x].fresh =>
               \A k \in Kinds :
                 seen'[x].res[k] # res'[k] => limit'[x][k] > Config[x].limit[k]
    BY <1>1, <2>2, <2>3, <2>4 DEF Honest
  <2>9. /\ \A k \in Kinds : limit'[w][k] >= Config[w].limit[k]
        /\ call'[w].at = "update" /\ call'[w].fresh =>
               \A k \in Kinds :
                 seen'[w].res[k] # res'[k] => limit'[w][k] > Config[w].limit[k]
    BY <1>1, <2>1, <2>2, <2>5, <2>6, <2>7 DEF Honest
  <2> QED
    BY <2>1, <2>2, <2>3, <2>8, <2>9 DEF Honest
<1> QED
  BY <1>1, <1>2, <1>3

(* Overtaken leaves the place and the op of a call alone. *)
LEMMA OvertakenCall ==
  ASSUME NEW c \in Scale!Calls
  PROVE  /\ Scale!Overtaken(c).at = c.at
         /\ Scale!Overtaken(c).op = c.op
         /\ Scale!Overtaken(c).wrote = c.wrote
         /\ c.at = "update" => ~Scale!Overtaken(c).fresh
  BY DEF Scale!Overtaken, Scale!Running, Scale!Calls

LEMMA CallingHonest ==
  ASSUME OwnTypes, Scale!TypeOK, Honest, NEW w \in Watchers, Calling(w)
  PROVE  Honest'
<1>0. call[w] \in Scale!Calls /\ call[w].at # "get"
  BY DEF Scale!TypeOK, Honest
<1>1. ASSUME NEW acked, Scale!Commit(w, acked)
      PROVE  Honest'
  <2>1. /\ call'[w].at \in {"ok", "failed"} /\ call'[w].op = call[w].op
        /\ call[w].at = "update"
    BY <1>0, <1>1 DEF Scale!Commit, Scale!AfterWrite, Scale!Calls
  <2>2. \A x \in Watchers \ {w} : call'[x] = Scale!Overtaken(call[x])
    BY <1>1 DEF Scale!Commit
  <2>3. call'[w].wrote = call[w].wrote + 1
    BY <1>0, <1>1 DEF Scale!Commit, Scale!Calls
  <2>4. seen' = [x \in Watchers |-> [seen[x] EXCEPT !.fresh = FALSE]]
    BY <1>0, <2>3 DEF Calling, Scale!Calls
  <2>5. \A x \in Watchers : ~seen'[x].fresh
    BY <2>4 DEF OwnTypes
  <2>6. \A x \in Watchers : call[x] \in Scale!Calls
    BY DEF Scale!TypeOK
  <2>7. \A x \in Watchers \ {w} :
          /\ call'[x].at = call[x].at /\ call'[x].op = call[x].op
          /\ call[x].at = "update" => ~call'[x].fresh
    BY <2>2, <2>6, OvertakenCall
  <2> QED
    BY <2>1, <2>5, <2>7 DEF Honest, Calling
<1>2. ASSUME NEW c, Scale!Set(w, c), c.wrote = call[w].wrote,
             c.op = call[w].op, call[w].at # "idle",
             c.at \notin {"idle", "get"},
             c.at = "update" => ~c.fresh
      PROVE  Honest'
  <2>1. call'[w] = c /\ \A x \in Watchers \ {w} : call'[x] = call[x]
    BY <1>2 DEF Scale!Set, Scale!TypeOK
  <2>2. UNCHANGED <<res, seen>>
    BY <1>0, <1>2, <2>1 DEF Calling, Scale!Calls
  <2> QED
    BY <1>2, <2>1, <2>2 DEF Honest, Calling
<1>3. CASE Scale!UpdateError(w)
  BY <1>0, <1>2, <1>3 DEF Scale!UpdateError, Scale!Calls
<1>4. CASE Scale!Conflict(w)
  <2> DEFINE c == Scale!AfterConflict(call[w])
  <2>1. call[w].op = "apply" /\ call[w].at = "update" /\ ~call[w].fresh
    BY <1>4 DEF Honest, Scale!Conflict
  <2>2. /\ c.wrote = call[w].wrote /\ c.op = call[w].op
        /\ c.at \in {"update", "conflicted"} /\ ~c.fresh
    BY <1>0, <2>1 DEF Scale!AfterConflict, Scale!Calls
  <2>3. Scale!Set(w, c)
    BY <1>4 DEF Scale!Conflict
  <2> HIDE DEF c
  <2> QED
    BY <1>2, <2>1, <2>2, <2>3
<1> QED
  BY <1>0, <1>1, <1>3, <1>4 DEF Calling, Scale!Answer, Scale!GetError,
    Scale!Get, Scale!MaxReached

LEMMA HonestStep ==
  OwnTypes /\ Scale!TypeOK /\ Honest /\ [Next]_vars => Honest'
<1> SUFFICES ASSUME OwnTypes, Scale!TypeOK, Honest, [Next]_vars
             PROVE  Honest'
  OBVIOUS
<1>1. ASSUME NEW w \in Watchers, Tick(w) \/ TakeTick(w)
      PROVE  Honest'
  BY <1>1 DEF Tick, TakeTick, Goto, Honest, OwnTypes
<1>2. ASSUME NEW w \in Watchers, Exists(w)
      PROVE  Honest'
  BY <1>2 DEF Exists, Goto, Honest, OwnTypes
<1>3. ASSUME NEW w \in Watchers,
             ExistsFails(w) \/ FindsAbnormal(w) \/ Reports(w)
      PROVE  Honest'
  BY <1>3 DEF ExistsFails, FindsAbnormal, Reports, Goto, Honest, OwnTypes
<1>4. ASSUME NEW w \in Watchers, Applied(w)
      PROVE  Honest'
  <2>1. call' = [call EXCEPT ![w] = Scale!NoCall]
    BY <1>4 DEF Applied, Scale!Return, Scale!Set
  <2>2. /\ call'[w].at = "idle"
        /\ \A x \in Watchers \ {w} : call'[x] = call[x]
    BY <2>1 DEF Scale!NoCall, Scale!TypeOK
  <2> QED
    BY <1>4, <2>2 DEF Applied, Goto, Honest, OwnTypes
<1>5. CASE Cluster
  <2>1. \A x \in Watchers : ~seen'[x].fresh
    BY <1>5 DEF Cluster, OwnTypes
  <2>2. \A x \in Watchers : call[x] \in Scale!Calls
    BY DEF Scale!TypeOK
  <2>3. \A x \in Watchers : call'[x] = Scale!Overtaken(call[x])
    BY <1>5 DEF Cluster, Scale!Cluster, Scale!OutsideEdit,
      Scale!OutsideDelete, Scale!OutsideCreate, Scale!OutsideWrite
  <2>4. \A x \in Watchers :
          /\ call'[x].at = call[x].at /\ call'[x].op = call[x].op
          /\ call[x].at = "update" => ~call'[x].fresh
    BY <2>2, <2>3, OvertakenCall
  <2> QED
    BY <1>5, <2>1, <2>4 DEF Cluster, Honest
<1>6. CASE UNCHANGED vars
  BY <1>6 DEF vars, Honest
<1> QED
  BY <1>1, <1>2, <1>3, <1>4, <1>5, <1>6, InspectsHonest, CallingHonest
  DEF Next

LEMMA CoherentCalls == Spec => []Scale!Coherent
<1>1. ScaleFacts!Inv => Scale!Coherent
  BY DEF ScaleFacts!Inv, ScaleFacts!Sound, Scale!Coherent, Scale!Delta,
    ScaleFacts!Delta
<1> QED
  BY <1>1, ScaleInv, PTL

(* One old copy is sent again and again, and yet an Update that is taken   *)
(* changes nothing but the resources the pass wanted to change.            *)
THEOREM TakesNothingBackAlways == Spec => TakesNothingBack
<1>1. OwnTypes /\ Scale!TypeOK /\ Honest /\ Scale!Coherent /\ [Next]_vars =>
        [\A w \in Watchers :
           call'[w].wrote > call[w].wrote =>
             /\ obj'.replicas = obj.replicas
             /\ \A k \in Kinds :
                  res'[k] # res[k] =>
                    limit[w][k] > Config[w].limit[k]]_vars
  <2> SUFFICES ASSUME OwnTypes, Scale!TypeOK, Honest, Scale!Coherent,
                      [Next]_vars, NEW x \in Watchers,
                      call'[x].wrote > call[x].wrote
               PROVE  /\ obj'.replicas = obj.replicas
                      /\ \A k \in Kinds :
                           res'[k] # res[k] =>
                             limit[x][k] > Config[x].limit[k]
    OBVIOUS
  <2>0. call[x] \in Scale!Calls /\ call[x].wrote \in Nat
    BY DEF Scale!TypeOK, Scale!Calls
  <2>1. ~Inspects(x)
    <3>1. Inspects(x) => call'[x].wrote = 0 \/ UNCHANGED call
      <4> SUFFICES ASSUME NEW cur, Redefines(x, cur)
                   PROVE  call'[x].wrote = 0
        BY DEF Inspects, Keeps
      <4> DEFINE c == [Scale!NoCall EXCEPT
                         !.op = "apply", !.at = "update", !.attempt = 1,
                         !.replicas = obj.replicas, !.fresh = seen[x].fresh,
                         !.foreign = IF seen[x].fresh THEN 0 ELSE 1]
      <4>1. call' = [call EXCEPT ![x] = c] /\ c.wrote = 0
        <5>1. c.wrote = 0
          BY DEF Scale!NoCall
        <5> QED
          BY <5>1 DEF Redefines, Scale!BeginApply, Scale!Set
      <4> HIDE DEF c
      <4> QED
        BY <4>1 DEF Scale!TypeOK
    <3> QED
      BY <2>0, <3>1
  <2>2. ~Applied(x)
    BY <2>0 DEF Applied, Scale!Return, Scale!Set, Scale!NoCall, Scale!TypeOK
  <2>3. call'[x] # call[x] /\ call'[x] # Scale!Overtaken(call[x])
    BY <2>0, OvertakenCall
  <2>4. Calling(x)
    BY <2>1, <2>2, <2>3, CallSteps
  <2>5. ~Scale!Conflict(x) /\ ~Scale!UpdateError(x)
    <3>1. ASSUME NEW c, Scale!Set(x, c)
          PROVE  c.wrote # call[x].wrote
      BY <2>0, <3>1 DEF Scale!Set, Scale!TypeOK
    <3>2. Scale!AfterConflict(call[x]).wrote = call[x].wrote
      BY <2>0 DEF Scale!AfterConflict, Scale!Calls
    <3>3. [call[x] EXCEPT !.at = "failed"].wrote = call[x].wrote
      BY <2>0 DEF Scale!Calls
    <3> QED
      BY <3>1, <3>2, <3>3 DEF Scale!Conflict, Scale!UpdateError
  <2>6. PICK acked \in BOOLEAN : Scale!Commit(x, acked)
    BY <2>4, <2>5 DEF Calling, Scale!Answer, Scale!GetError, Scale!Get,
      Scale!MaxReached, Honest
  <2>7. call[x].at = "update" /\ call[x].fresh /\ call[x].op = "apply"
    BY <2>6 DEF Scale!Commit, Scale!Accepted, Honest
  <2>8. obj'.replicas = call[x].replicas
    BY <2>6 DEF Scale!Commit, Scale!TypeOK, Scale!Objects
  <2>9. call[x].replicas = obj.replicas
    BY <2>7 DEF Scale!Coherent, Scale!Delta, Scale!TypeOK, Scale!Objects
  <2>10. res' = seen[x].res
    BY <2>4 DEF Calling
  <2> QED
    BY <2>7, <2>8, <2>9, <2>10 DEF Honest
<1> QED
  BY <1>1, HonestInit, HonestStep, OwnTypesAlways, ScaleTypes, CoherentCalls,
    PTL DEF Spec, TakesNothingBack

(* A resourcesApply changes the object at most once, exactly once when it  *)
(* returns nil and not at all when it gives up with a conflict; all of     *)
(* them together are one atomic counter; and each ends after a bounded     *)
(* number of requests, whoever else writes the object.                     *)
THEOREM AppliesCount ==
  Spec => []Scale!WrittenOnce /\ Scale!CounterSpec /\ Scale!RequestsRunOut
<1>1. ScaleFacts!Spec => []ScaleFacts!WrittenOnce
  BY ScaleAssumed, ScaleFacts!WrittenOnceAlways
<1>2. ScaleFacts!Spec => ScaleFacts!CounterSpec
  BY ScaleAssumed, ScaleFacts!Refinement
<1>3. ScaleFacts!Spec => ScaleFacts!RequestsRunOut
  BY ScaleAssumed, ScaleFacts!RequestsRunOutAlways, PTL
<1>4. ScaleFacts!WrittenOnce => Scale!WrittenOnce
  BY DEF ScaleFacts!WrittenOnce, ScaleFacts!Running, Scale!WrittenOnce,
    Scale!Running
<1>5. /\ ScaleFacts!Counter!Init => Scale!Counter!Init
      /\ [ScaleFacts!Counter!Next]_(ScaleFacts!Counter!vars) =>
           [Scale!Counter!Next]_(Scale!Counter!vars)
  BY DEF Scale!Counter!Init, Scale!Counter!Next, Scale!Counter!Raise,
    Scale!Counter!Lower, Scale!Counter!Rewrite, Scale!Counter!Outsider,
    Scale!Counter!vars, ScaleFacts!Counter!Init, ScaleFacts!Counter!Next,
    ScaleFacts!Counter!Raise, ScaleFacts!Counter!Lower,
    ScaleFacts!Counter!Rewrite, ScaleFacts!Counter!Outsider,
    ScaleFacts!Counter!vars
<1>6. ScaleFacts!RequestsRunOut => Scale!RequestsRunOut
  BY DEF ScaleFacts!RequestsRunOut, ScaleFacts!Requests, ScaleFacts!vars,
    ScaleFacts!Running, ScaleFacts!Answer, ScaleFacts!GetError,
    ScaleFacts!BelowCeiling, ScaleFacts!Get, ScaleFacts!MaxReached,
    ScaleFacts!Accepted, ScaleFacts!AfterWrite, ScaleFacts!Commit,
    ScaleFacts!AfterConflict, ScaleFacts!Conflict, ScaleFacts!UpdateError,
    ScaleFacts!Set, ScaleFacts!Overtaken, ScaleFacts!Delta,
    Scale!RequestsRunOut, Scale!Requests, Scale!vars, Scale!Running,
    Scale!Answer, Scale!GetError, Scale!BelowCeiling, Scale!Get,
    Scale!MaxReached, Scale!Accepted, Scale!AfterWrite, Scale!Commit,
    Scale!AfterConflict, Scale!Conflict, Scale!UpdateError, Scale!Set,
    Scale!Overtaken, Scale!Delta
<1> QED
  BY <1>1, <1>2, <1>3, <1>4, <1>5, <1>6, ImplementsFacts, PTL
  DEF Scale!CounterSpec, Scale!Counter!Spec, ScaleFacts!CounterSpec,
    ScaleFacts!Counter!Spec
=============================================================================
