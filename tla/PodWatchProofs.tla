--------------------------- MODULE PodWatchProofs ---------------------------
(***************************************************************************)
(* The safety properties of PodWatch, for any number of Pods and nodes     *)
(* with any levels.                                                        *)
(***************************************************************************)
EXTENDS PodWatch, SequenceTheorems, TLAPS

TimerType == [running : BOOLEAN, tick : BOOLEAN]

-----------------------------------------------------------------------------
(* Edits *)

LEMMA EditRunning ==
  ASSUME timer \in [Items -> TimerType], NEW x \in Items, NEW b \in BOOLEAN,
         timer' = [timer EXCEPT ![x].running = b]
  PROVE  /\ timer' \in [Items -> TimerType]
         /\ \A y \in Items :
              /\ timer'[y].tick = timer[y].tick
              /\ timer'[y].running = IF y = x THEN b ELSE timer[y].running
<1>1. [timer[x] EXCEPT !.running = b] \in TimerType
  BY DEF TimerType
<1> QED
  BY <1>1, SMTT(30) DEF TimerType

LEMMA EditTick ==
  ASSUME timer \in [Items -> TimerType], NEW x \in Items, NEW b \in BOOLEAN,
         timer' = [timer EXCEPT ![x].tick = b]
  PROVE  /\ timer' \in [Items -> TimerType]
         /\ \A y \in Items :
              /\ timer'[y].running = timer[y].running
              /\ timer'[y].tick = IF y = x THEN b ELSE timer[y].tick
<1>1. [timer[x] EXCEPT !.tick = b] \in TimerType
  BY DEF TimerType
<1> QED
  BY <1>1, SMTT(30) DEF TimerType

LEMMA GotoType ==
  ASSUME at \in [Items -> Places], NEW x \in Items, NEW place \in Places,
         Goto(x, place)
  PROVE  /\ at' \in [Items -> Places]
         /\ \A y \in Items : at'[y] = IF y = x THEN place ELSE at[y]
  BY DEF Goto

-----------------------------------------------------------------------------
(* The publisher *)

SlackTypes ==
  /\ up \in BOOLEAN
  /\ waiting \in Seq(Items)
  /\ posting \in Items \cup {Nobody}
  /\ taken \in [Items -> [Items -> 0..2]]

LEMMA SlackTypesIs == SlackTypes <=> Slack!TypeOK
  BY DEF SlackTypes, Slack!TypeOK

LEMMA OfferTypes ==
  ASSUME SlackTypes, NEW x \in Items, Slack!Offer(x)
  PROVE  SlackTypes'
  BY DEF SlackTypes, Slack!Offer

LEMMA ReceiveTypes ==
  ASSUME SlackTypes, Slack!Receive
  PROVE  SlackTypes'
<1>1. /\ waiting # <<>> /\ waiting' = Tail(waiting)
      /\ posting' = Head(waiting)
      /\ up' = up
  BY DEF Slack!Receive
<1>2. waiting' \in Seq(Items) /\ posting' \in Items
  BY <1>1 DEF SlackTypes
<1>3. taken' = [x \in Items |->
                 IF x \in Slack!Range(waiting')
                 THEN [taken[x] EXCEPT ![posting'] = IF @ < 2 THEN @ + 1
                                                     ELSE 2]
                 ELSE [y \in Items |-> 0]]
  BY DEF Slack!Receive
<1>4. ASSUME NEW x \in Items
      PROVE  taken'[x] \in [Items -> 0..2]
  BY <1>2, <1>3, SMTT(30) DEF SlackTypes
<1>5. taken' \in [Items -> [Items -> 0..2]]
  BY <1>3, <1>4
<1> QED
  BY <1>1, <1>2, <1>5 DEF SlackTypes

LEMMA PublishTypes ==
  ASSUME SlackTypes, Slack!Publish
  PROVE  SlackTypes'
  BY ReceiveTypes DEF SlackTypes, Slack!Publish, Slack!PostEnds,
     Slack!PostFails

-----------------------------------------------------------------------------
(* Types *)

OwnTypes ==
  /\ at \in [Items -> Places]
  /\ \A n \in Nodes : at[n] \in NodePlaces
  /\ timer \in [Items -> TimerType]
  /\ recorded \in [Pods -> BOOLEAN]
  /\ groups \in Seq(Pods)
  /\ mu \in Pods \cup {Main, Free}
  /\ reg \in [at : {"next", "lock", "start", "append"},
              who : Pods \cup {Main}, left : SUBSET Items]
  /\ alerts \in [Pods -> 0..3]

LEMMA TypesAre == TypeOK <=> SlackTypes /\ OwnTypes
  BY SlackTypesIs DEF TypeOK, OwnTypes, TimerType

(* An item is a Pod or a node, and is neither main nor nobody. *)
LEMMA Kinds ==
  /\ \A p \in Pods : p \in Items /\ p \notin Nodes /\ p # Main /\ p # Free
  /\ \A n \in Nodes : n \in Items /\ n \notin Pods
  /\ Main # Free /\ Main \notin Items /\ Nobody \notin Items
  BY PodAssumption DEF PodAssumption, Items

(* A Pod goes anywhere, a node stays among its places. *)
LEMMA GotoTypes ==
  ASSUME OwnTypes, NEW x \in Items, NEW place \in Places, Goto(x, place),
         x \in Pods \/ place \in NodePlaces
  PROVE  /\ at' \in [Items -> Places]
         /\ \A n \in Nodes : at'[n] \in NodePlaces
  BY GotoType, Kinds DEF OwnTypes

LEMMA RegTypes ==
  ASSUME OwnTypes, NEW p \in Pods, RegisterPod(p)
  PROVE  reg' \in [at : {"next", "lock", "start", "append"},
                   who : Pods \cup {Main}, left : SUBSET Items]
<1> USE DEF OwnTypes
<1>1. CASE RegisterFails(p)
  BY <1>1 DEF RegisterFails
<1>2. CASE RegisterExists(p)
  BY <1>2 DEF RegisterExists
<1>3. CASE RegisterLocks(p)
  BY <1>3 DEF RegisterLocks
<1>4. CASE Timerstart(p)
  BY <1>4 DEF Timerstart
<1>5. CASE RegisterAppends(p)
  <2> DEFINE next == [reg EXCEPT !.at = "next"]
  <2>1. next \in [at : {"next", "lock", "start", "append"},
                  who : Pods \cup {Main}, left : SUBSET Items]
    OBVIOUS
  <2>2. reg' = [next EXCEPT !.who = Main]
    BY <1>5 DEF RegisterAppends
  <2> HIDE DEF next
  <2> QED
    BY <2>1, <2>2
<1> QED
  BY <1>1, <1>2, <1>3, <1>4, <1>5 DEF RegisterPod

LEMMA RegisterTypes ==
  ASSUME OwnTypes, SlackTypes, NEW p \in Pods, RegisterPod(p)
  PROVE  OwnTypes' /\ SlackTypes'
<1>1. UNCHANGED slack /\ UNCHANGED <<recorded, alerts>>
  BY DEF RegisterPod, RegisterFails, RegisterExists, RegisterLocks,
         Timerstart, RegisterAppends
<1>2. SlackTypes'
  BY <1>1 DEF SlackTypes, slack
<1>3. mu' \in Pods \cup {Main, Free}
  BY DEF OwnTypes, RegisterPod, RegisterFails, RegisterExists, RegisterLocks,
         Timerstart, RegisterAppends
<1>4. groups' \in Seq(Pods)
  BY DEF OwnTypes, RegisterPod, RegisterFails, RegisterExists, RegisterLocks,
         Timerstart, RegisterAppends
<1>5. /\ at' \in [Items -> Places]
      /\ \A n \in Nodes : at'[n] \in NodePlaces
      /\ timer' \in [Items -> TimerType]
  <2>1. CASE Timerstart(p)
    BY <2>1, Kinds, EditRunning, GotoTypes
    DEF OwnTypes, Timerstart, Starts, Places, NodePlaces
  <2>2. CASE ~Timerstart(p)
    BY <2>2 DEF OwnTypes, RegisterPod, RegisterFails, RegisterExists,
                RegisterLocks, RegisterAppends
  <2> QED
    BY <2>1, <2>2
<1>6. recorded' \in [Pods -> BOOLEAN] /\ alerts' \in [Pods -> 0..3]
  BY <1>1 DEF OwnTypes
<1> QED
  BY <1>2, <1>3, <1>4, <1>5, <1>6, RegTypes DEF OwnTypes

LEMMA NodeTypes ==
  ASSUME OwnTypes, SlackTypes, NEW n \in Nodes,
         RegisterNode(n) \/ ReportsNode(n) \/ ReportedNode(n)
  PROVE  OwnTypes' /\ SlackTypes'
<1>0. n \in Items
  BY Kinds
<1>1. UNCHANGED <<recorded, groups, mu, alerts>>
  BY DEF RegisterNode, ReportsNode, ReportedNode
<1>2. SlackTypes'
  <2>1. CASE ReportsNode(n)
    BY <1>0, <2>1, OfferTypes DEF ReportsNode
  <2>2. CASE UNCHANGED slack
    BY <2>2 DEF SlackTypes, slack
  <2> QED
    BY <2>1, <2>2 DEF RegisterNode, ReportedNode
<1>3. /\ at' \in [Items -> Places]
      /\ \A x \in Nodes : at'[x] \in NodePlaces
  BY <1>0, GotoTypes
  DEF RegisterNode, ReportsNode, ReportedNode, Starts, Places, NodePlaces
<1>4. timer' \in [Items -> TimerType]
  BY <1>0, EditRunning
  DEF OwnTypes, RegisterNode, ReportsNode, ReportedNode, Starts
<1>5. reg' \in [at : {"next", "lock", "start", "append"},
                who : Pods \cup {Main}, left : SUBSET Items]
  BY DEF OwnTypes, RegisterNode, ReportsNode, ReportedNode
<1> QED
  BY <1>1, <1>2, <1>3, <1>4, <1>5 DEF OwnTypes

LEMMA TickTypes ==
  ASSUME OwnTypes, SlackTypes, NEW x \in Items, Tick(x) \/ TakeTick(x)
  PROVE  OwnTypes' /\ SlackTypes'
<1>1. UNCHANGED <<slack, recorded, groups, mu, reg, alerts>>
  BY DEF Tick, TakeTick
<1>2. timer' \in [Items -> TimerType]
  BY EditTick DEF OwnTypes, Tick, TakeTick
<1>3. /\ at' \in [Items -> Places]
      /\ \A n \in Nodes : at'[n] \in NodePlaces
  <2>1. CASE Tick(x)
    BY <2>1 DEF OwnTypes, Tick
  <2>2. CASE TakeTick(x)
    BY <2>2, GotoTypes DEF TakeTick, Places, NodePlaces
  <2> QED
    BY <2>1, <2>2
<1> QED
  BY <1>1, <1>2, <1>3 DEF OwnTypes, SlackTypes, slack

LEMMA InspectionTypes ==
  ASSUME OwnTypes, SlackTypes, NEW p \in Pods, Inspection(p)
  PROVE  OwnTypes' /\ SlackTypes'
<1>0. p \in Items
  BY Kinds
<1>1. UNCHANGED <<groups, mu, reg>>
  BY DEF Inspection, CheckFails, Alerts, Alerted, Records, Reports, Reported
<1>2. SlackTypes'
  <2>1. CASE Alerts(p) \/ Reports(p)
    BY <1>0, <2>1, OfferTypes DEF Alerts, Reports
  <2>2. CASE UNCHANGED slack
    BY <2>2 DEF SlackTypes, slack
  <2> QED
    BY <2>1, <2>2 DEF Inspection, CheckFails, Alerted, Records, Reported
<1>3. /\ at' \in [Items -> Places]
      /\ \A n \in Nodes : at'[n] \in NodePlaces
  BY <1>0, GotoTypes
  DEF Inspection, CheckFails, Alerts, Alerted, Records, Reports, Reported,
      Releases, Places, NodePlaces
<1>4. timer' \in [Items -> TimerType]
  BY <1>0, EditRunning
  DEF OwnTypes, Inspection, CheckFails, Alerts, Alerted, Records, Reports,
      Reported, Releases
<1>5. recorded' \in [Pods -> BOOLEAN]
  BY DEF OwnTypes, Inspection, CheckFails, Alerts, Alerted, Records, Reports,
         Reported
<1>6. alerts' \in [Pods -> 0..3]
  BY DEF OwnTypes, Inspection, CheckFails, Alerts, Alerted, Records, Reports,
         Reported
<1> QED
  BY <1>1, <1>2, <1>3, <1>4, <1>5, <1>6 DEF OwnTypes

LEMMA RemoveAtType ==
  ASSUME NEW s \in Seq(Pods), NEW i \in DOMAIN s
  PROVE  /\ RemoveAt(s, i) \in Seq(Pods)
         /\ Len(RemoveAt(s, i)) = Len(s) - 1
         /\ \A j \in 1..Len(s) - 1 :
              RemoveAt(s, i)[j] = IF j < i THEN s[j] ELSE s[j + 1]
<1> DEFINE front == SubSeq(s, 1, i - 1)
<1> DEFINE back == SubSeq(s, i + 1, Len(s))
<1>1. i \in 1..Len(s) /\ Len(s) \in Nat
  OBVIOUS
<1>2. /\ front \in Seq(Pods)
      /\ Len(front) = i - 1
      /\ \A j \in 1..i - 1 : front[j] = s[j]
  BY <1>1, SubSeqProperties
<1>3. /\ back \in Seq(Pods)
      /\ Len(back) = Len(s) - i
      /\ \A j \in 1..Len(s) - i : back[j] = s[i + j]
  BY <1>1, SubSeqProperties
<1> HIDE DEF front, back
<1>4. /\ front \o back \in Seq(Pods)
      /\ Len(front \o back) = Len(s) - 1
      /\ \A j \in 1..Len(s) - 1 :
           (front \o back)[j] = IF j < i THEN s[j] ELSE s[j + 1]
  <2>1. /\ front \o back \in Seq(Pods)
        /\ Len(front \o back) = Len(front) + Len(back)
        /\ \A j \in 1..Len(front) + Len(back) :
             (front \o back)[j] = IF j <= Len(front) THEN front[j]
                                  ELSE back[j - Len(front)]
    BY <1>2, <1>3, ConcatProperties
  <2>2. Len(front) + Len(back) = Len(s) - 1
    BY <1>1, <1>2, <1>3
  <2>3. ASSUME NEW j \in 1..Len(s) - 1
        PROVE  (front \o back)[j] = IF j < i THEN s[j] ELSE s[j + 1]
    <3>1. CASE j < i
      BY <1>1, <1>2, <2>1, <2>2, <3>1
    <3>2. CASE ~(j < i)
      <4>1. j - (i - 1) \in 1..Len(s) - i
        BY <1>1, <3>2
      <4>2. (front \o back)[j] = back[j - (i - 1)]
        BY <1>1, <1>2, <2>1, <2>2, <3>2, SMTT(30)
      <4>3. i + (j - (i - 1)) = j + 1
        BY <1>1
      <4> QED
        BY <1>3, <3>2, <4>1, <4>2, <4>3
    <3> QED
      BY <3>1, <3>2
  <2> QED
    BY <2>1, <2>2, <2>3
<1> QED
  BY <1>4 DEF RemoveAt, front, back

LEMMA ReleaseTypes ==
  ASSUME OwnTypes, SlackTypes, NEW p \in Pods, Release(p)
  PROVE  OwnTypes' /\ SlackTypes'
<1>1. UNCHANGED <<slack, timer, recorded, reg, alerts>>
  BY DEF Release, Locks, Removes
<1>2. /\ at' \in [Items -> Places]
      /\ \A n \in Nodes : at'[n] \in NodePlaces
  BY Kinds, GotoTypes DEF Release, Locks, Removes, Places, NodePlaces
<1>3. groups' \in Seq(Pods)
  BY RemoveAtType DEF OwnTypes, Release, Locks, Removes, TakeOut
<1>4. mu' \in Pods \cup {Main, Free}
  BY DEF OwnTypes, Release, Locks, Removes
<1> QED
  BY <1>1, <1>2, <1>3, <1>4 DEF OwnTypes, SlackTypes, slack

LEMMA TypesStep ==
  OwnTypes /\ SlackTypes /\ [Next]_vars => OwnTypes' /\ SlackTypes'
<1> SUFFICES ASSUME OwnTypes, SlackTypes, [Next]_vars
             PROVE  OwnTypes' /\ SlackTypes'
  OBVIOUS
<1>1. ASSUME NEW p \in Pods, RegisterPod(p) \/ Pod(p)
      PROVE  OwnTypes' /\ SlackTypes'
  BY <1>1, Kinds, RegisterTypes, TickTypes, InspectionTypes, ReleaseTypes
  DEF Pod
<1>2. ASSUME NEW n \in Nodes, RegisterNode(n) \/ Node(n)
      PROVE  OwnTypes' /\ SlackTypes'
  BY <1>2, Kinds, NodeTypes, TickTypes DEF Node
<1>3. CASE Publish
  BY <1>3, PublishTypes DEF Publish, watch, OwnTypes
<1>4. CASE UNCHANGED vars
  BY <1>4 DEF vars, slack, watch, OwnTypes, SlackTypes
<1> QED
  BY <1>1, <1>2, <1>3, <1>4, TickTypes DEF Next, SetRole

LEMMA TypesAlways == Spec => [](OwnTypes /\ SlackTypes)
<1>1. Init => OwnTypes /\ SlackTypes
  BY DEF Init, Slack!Init, OwnTypes, SlackTypes, Places, NodePlaces,
         TimerType, Items
<1> QED
  BY <1>1, TypesStep, PTL DEF Spec

(* Every variable of the watchers, the registration and the publisher      *)
(* keeps its type, and a node item is never in a release.                  *)
THEOREM TypeCorrect == Spec => []TypeOK
  BY TypesAlways, TypesAre, PTL

-----------------------------------------------------------------------------
(* The watchers and the publisher *)

(* Pods, nodes and main use slack.Channel by sends alone, and what         *)
(* Publisher says of it holds among them.                                  *)
THEOREM ImplementsPublisher == Spec => Slack!Spec
<1>1. Init => Slack!Init
  BY DEF Init
<1>2. [Next]_vars => [Slack!Next]_(Slack!vars)
  <2> SUFFICES ASSUME [Next]_vars
               PROVE  Slack!Next \/ UNCHANGED slack
    BY DEF slack, Slack!vars
  <2>1. ASSUME NEW p \in Pods, RegisterPod(p) \/ Pod(p)
        PROVE  Slack!Next \/ UNCHANGED slack
    BY <2>1, Kinds
    DEF RegisterPod, RegisterFails, RegisterExists, RegisterLocks, Timerstart,
        RegisterAppends, Pod, TakeTick, Inspection, CheckFails, Alerts,
        Alerted, Records, Reports, Reported, Release, Locks, Removes,
        Slack!Next
  <2>2. ASSUME NEW n \in Nodes, RegisterNode(n) \/ Node(n)
        PROVE  Slack!Next \/ UNCHANGED slack
    BY <2>2, Kinds
    DEF RegisterNode, Node, TakeTick, ReportsNode, ReportedNode, Slack!Next
  <2>3. ASSUME NEW x \in Items, Tick(x)
        PROVE  UNCHANGED slack
    BY <2>3 DEF Tick
  <2>4. CASE Publish
    BY <2>4 DEF Publish, Slack!Next
  <2>5. CASE UNCHANGED vars
    BY <2>5 DEF vars
  <2> QED
    BY <2>1, <2>2, <2>3, <2>4, <2>5 DEF Next, SetRole
<1> QED
  BY <1>1, <1>2, PTL DEF Spec, Slack!Spec

-----------------------------------------------------------------------------
(* What the steps of one item do to its place and its ticker *)

LEMMA StartsMoves ==
  ASSUME OwnTypes, NEW x \in Items, Starts(x)
  PROVE  /\ at'[x] = "wait" /\ timer'[x].running
         /\ \A y \in Items \ {x} :
              at'[y] = at[y] /\ timer'[y].running = timer[y].running
         /\ \A y \in Items : timer'[y].tick = timer[y].tick
<1>1. timer' = [timer EXCEPT ![x].running = TRUE]
  BY DEF Starts
<1>2. \A y \in Items :
        /\ timer'[y].tick = timer[y].tick
        /\ timer'[y].running = IF y = x THEN TRUE ELSE timer[y].running
  BY <1>1, EditRunning DEF OwnTypes
<1>3. \A y \in Items : at'[y] = IF y = x THEN "wait" ELSE at[y]
  BY GotoType DEF Starts, OwnTypes, Places, NodePlaces
<1> QED
  BY <1>2, <1>3

LEMMA TickMoves ==
  ASSUME OwnTypes, NEW x \in Items, Tick(x) \/ TakeTick(x)
  PROVE  /\ \A y \in Items : timer'[y].running = timer[y].running
         /\ \A y \in Items \ {x} :
              at'[y] = at[y] /\ timer'[y].tick = timer[y].tick
         /\ \/ timer[x].running /\ at'[x] = at[x]
            \/ /\ timer[x].tick /\ ~timer'[x].tick
               /\ at[x] = "wait" /\ at'[x] = "inspect"
<1>1. CASE Tick(x)
  BY <1>1, EditTick DEF OwnTypes, Tick
<1>2. CASE TakeTick(x)
  <2>1. timer' = [timer EXCEPT ![x].tick = FALSE] /\ Goto(x, "inspect")
    BY <1>2 DEF TakeTick
  <2>2. \A y \in Items :
          /\ timer'[y].running = timer[y].running
          /\ timer'[y].tick = IF y = x THEN FALSE ELSE timer[y].tick
    BY <2>1, EditTick DEF OwnTypes
  <2>3. \A y \in Items : at'[y] = IF y = x THEN "inspect" ELSE at[y]
    BY <2>1, GotoType DEF OwnTypes, Places, NodePlaces
  <2> QED
    BY <1>2, <2>2, <2>3 DEF TakeTick, At
<1> QED
  BY <1>1, <1>2

PassPlaces == {"inspect", "report", "alert"}

(* A pass stays clear of the lock until it stops its ticker. *)
LEMMA InspectionMoves ==
  ASSUME OwnTypes, NEW p \in Pods, Inspection(p)
  PROVE  /\ \A y \in Items \ {p} :
              at'[y] = at[y] /\ timer'[y].running = timer[y].running
         /\ \A y \in Items : timer'[y].tick = timer[y].tick
         /\ at[p] \in PassPlaces
         /\ \/ /\ at'[p] \in {"report", "alert", "wait"}
               /\ timer'[p].running = timer[p].running
            \/ at'[p] = "lock" /\ ~timer'[p].running
         /\ UNCHANGED <<groups, mu, reg>>
<1>0. p \in Items
  BY Kinds
<1>1. CASE CheckFails(p) \/ Alerted(p)
  <2>1. timer' = [timer EXCEPT ![p].running = FALSE] /\ Goto(p, "lock")
    BY <1>1 DEF CheckFails, Alerted, Releases
  <2>2. \A y \in Items :
          /\ timer'[y].tick = timer[y].tick
          /\ timer'[y].running = IF y = p THEN FALSE ELSE timer[y].running
    BY <1>0, <2>1, EditRunning DEF OwnTypes
  <2>3. \A y \in Items : at'[y] = IF y = p THEN "lock" ELSE at[y]
    BY <1>0, <2>1, GotoType DEF OwnTypes, Places
  <2> QED
    BY <1>0, <1>1, <2>2, <2>3 DEF CheckFails, Alerted, At, PassPlaces
<1>2. CASE Alerts(p) \/ Records(p) \/ Reports(p) \/ Reported(p)
  BY <1>0, <1>2, GotoType
  DEF OwnTypes, Alerts, Records, Reports, Reported, At, PassPlaces, Places,
      NodePlaces
<1> QED
  BY <1>1, <1>2 DEF Inspection

LEMMA NodeMoves ==
  ASSUME OwnTypes, NEW n \in Nodes, ReportsNode(n) \/ ReportedNode(n)
  PROVE  /\ \A y \in Items \ {n} : at'[y] = at[y]
         /\ at[n] \in PassPlaces
         /\ at'[n] \in PassPlaces \cup {"wait"}
         /\ UNCHANGED <<timer, groups, mu, reg, alerts>>
  BY Kinds, GotoType
  DEF OwnTypes, ReportsNode, ReportedNode, At, PassPlaces, Places, NodePlaces

LEMMA ReleaseMoves ==
  ASSUME OwnTypes, NEW p \in Pods, Release(p)
  PROVE  /\ \A y \in Items \ {p} : at'[y] = at[y]
         /\ UNCHANGED <<timer, reg, alerts>>
         /\ \/ at[p] = "lock" /\ at'[p] = "remove"
            \/ at[p] = "remove" /\ at'[p] = "wait"
  BY Kinds, GotoType
  DEF OwnTypes, Release, Locks, Removes, At, Places, NodePlaces

-----------------------------------------------------------------------------
(* The lock *)

(* pods.mu is held by who is between its Lock and its Unlock. *)
LockHeld ==
  /\ \A p \in Pods : mu = p <=> at[p] = "remove"
  /\ mu = Main <=> reg.at \in {"start", "append"}

LEMMA LockStep == OwnTypes /\ LockHeld /\ [Next]_vars => LockHeld'
<1> SUFFICES ASSUME OwnTypes, LockHeld, [Next]_vars
             PROVE  LockHeld'
  OBVIOUS
<1> USE Kinds DEF LockHeld
<1>1. ASSUME NEW p \in Pods, RegisterPod(p)
      PROVE  LockHeld'
  <2>1. CASE RegisterFails(p) \/ RegisterExists(p)
    BY <2>1 DEF OwnTypes, RegisterFails, RegisterExists, Takes, MainAt
  <2>2. CASE RegisterLocks(p)
    BY <2>2 DEF OwnTypes, RegisterLocks, MainAt
  <2>3. CASE Timerstart(p)
    <3>1. /\ reg.at = "start" /\ mu = Main /\ mu' = mu
          /\ reg'.at = "append"
      BY <2>3 DEF OwnTypes, Timerstart, MainAt
    <3>2. at'[p] = "wait" /\ \A y \in Pods \ {p} : at'[y] = at[y]
      BY <2>3, StartsMoves DEF Timerstart
    <3> QED
      BY <3>1, <3>2
  <2>4. CASE RegisterAppends(p)
    BY <2>4 DEF OwnTypes, RegisterAppends, MainAt
  <2> QED
    BY <1>1, <2>1, <2>2, <2>3, <2>4 DEF RegisterPod
<1>2. ASSUME NEW n \in Nodes, RegisterNode(n)
      PROVE  LockHeld'
  <2>1. reg'.at = reg.at /\ mu' = mu
    BY <1>2 DEF OwnTypes, RegisterNode
  <2>2. \A y \in Pods : at'[y] = at[y]
    BY <1>2, StartsMoves DEF RegisterNode
  <2> QED
    BY <2>1, <2>2
<1>3. ASSUME NEW x \in Items, Tick(x) \/ TakeTick(x)
      PROVE  LockHeld'
  BY <1>3, TickMoves DEF Tick, TakeTick
<1>4. ASSUME NEW p \in Pods, Inspection(p)
      PROVE  LockHeld'
  BY <1>4, InspectionMoves DEF PassPlaces
<1>5. ASSUME NEW p \in Pods, Release(p)
      PROVE  LockHeld'
  BY <1>5, ReleaseMoves DEF OwnTypes, Release, Locks, Removes, At
<1>6. ASSUME NEW n \in Nodes, ReportsNode(n) \/ ReportedNode(n)
      PROVE  LockHeld'
  BY <1>6, NodeMoves DEF PassPlaces
<1>7. CASE Publish \/ UNCHANGED vars
  BY <1>7 DEF Publish, vars, watch
<1> QED
  BY <1>1, <1>2, <1>3, <1>4, <1>5, <1>6, <1>7 DEF Next, SetRole, Pod, Node

-----------------------------------------------------------------------------
(* Items that main has not started *)

Unstarted(x) ==
  x \in reg.left \/ (reg.who = x /\ reg.at \in {"lock", "start"})

Untouched(x) ==
  /\ at[x] = "none"
  /\ ~timer[x].running
  /\ ~timer[x].tick
  /\ x \in Pods => alerts[x] = 0

Registering ==
  /\ reg.who = Main <=> reg.at = "next"
  /\ reg.who \notin reg.left
  /\ \A x \in Items : Unstarted(x) => Untouched(x)

(* What moves one item and not main leaves the others untouched. *)
LEMMA OneMoves ==
  ASSUME Registering, NEW x \in Items, reg' = reg, at[x] # "none",
         \A y \in Items \ {x} :
           /\ at'[y] = at[y]
           /\ timer'[y].running = timer[y].running
           /\ timer'[y].tick = timer[y].tick
           /\ y \in Pods => alerts'[y] = alerts[y]
  PROVE  Registering'
  BY DEF Registering, Unstarted, Untouched

LEMMA AlertsMove ==
  ASSUME OwnTypes, NEW p \in Pods, Inspection(p)
  PROVE  /\ \A y \in Pods \ {p} : alerts'[y] = alerts[y]
         /\ \/ /\ alerts'[p] = alerts[p] /\ at'[p] # "alert"
               /\ at[p] = "alert" => at'[p] = "lock"
            \/ /\ at[p] = "inspect" /\ at'[p] = "alert"
               /\ alerts'[p] = IF alerts[p] < 3 THEN alerts[p] + 1 ELSE 3
               /\ timer' = timer
<1>0. p \in Items
  BY Kinds
<1>1. CASE Alerts(p)
  <2>1. at[p] = "inspect" /\ at'[p] = "alert" /\ timer' = timer
    BY <1>0, <1>1, GotoType DEF OwnTypes, Alerts, At, Places
  <2>2. alerts' = [alerts EXCEPT ![p] = IF @ < 3 THEN @ + 1 ELSE 3]
    BY <1>1 DEF Alerts
  <2> QED
    BY <2>1, <2>2 DEF OwnTypes
<1>2. CASE CheckFails(p) \/ Alerted(p) \/ Records(p) \/ Reports(p)
             \/ Reported(p)
  BY <1>0, <1>2, GotoType
  DEF OwnTypes, CheckFails, Alerted, Records, Reports, Reported, Releases,
      At, Places, NodePlaces
<1> QED
  BY <1>1, <1>2 DEF Inspection

LEMMA RegisteringStep ==
  OwnTypes /\ Registering /\ [Next]_vars => Registering'
<1> SUFFICES ASSUME OwnTypes, Registering, [Next]_vars
             PROVE  Registering'
  OBVIOUS
<1>1. ASSUME NEW p \in Pods, RegisterPod(p)
      PROVE  Registering'
  <2>1. CASE RegisterFails(p) \/ RegisterExists(p) \/ RegisterLocks(p)
    <3>1. UNCHANGED <<at, timer, alerts>>
      BY <2>1 DEF RegisterFails, RegisterExists, RegisterLocks
    <3>2. /\ reg'.who = Main <=> reg'.at = "next"
          /\ reg'.who \notin reg'.left
          /\ \A x \in Items : Unstarted(x)' => Unstarted(x)
      BY <2>1, Kinds
      DEF OwnTypes, Registering, Unstarted, RegisterFails, RegisterExists,
          RegisterLocks, Takes, MainAt
    <3> QED
      BY <3>1, <3>2 DEF Registering, Untouched
  <2>2. CASE Timerstart(p)
    <3>1. /\ reg.who = p /\ reg'.who = p /\ reg'.at = "append"
          /\ reg'.left = reg.left /\ alerts' = alerts
      BY <2>2 DEF OwnTypes, Timerstart, MainAt
    <3>2. \A y \in Items \ {p} :
            /\ at'[y] = at[y]
            /\ timer'[y].running = timer[y].running
            /\ timer'[y].tick = timer[y].tick
      BY <2>2, Kinds, StartsMoves DEF Timerstart
    <3> QED
      BY <3>1, <3>2, Kinds DEF Registering, Unstarted, Untouched
  <2>3. CASE RegisterAppends(p)
    <3>1. /\ reg'.who = Main /\ reg'.at = "next" /\ reg'.left = reg.left
          /\ UNCHANGED <<at, timer, alerts>>
      BY <2>3 DEF OwnTypes, RegisterAppends
    <3> QED
      BY <3>1, Kinds DEF OwnTypes, Registering, Unstarted, Untouched, Items
  <2> QED
    BY <1>1, <2>1, <2>2, <2>3 DEF RegisterPod
<1>2. ASSUME NEW n \in Nodes, RegisterNode(n)
      PROVE  Registering'
  <2>1. /\ reg.at = "next" /\ reg.who = Main
        /\ reg'.who = Main /\ reg'.at = "next" /\ reg'.left = reg.left \ {n}
        /\ alerts' = alerts
    BY <1>2 DEF OwnTypes, RegisterNode, Takes, MainAt
  <2>2. \A y \in Items \ {n} :
          /\ at'[y] = at[y]
          /\ timer'[y].running = timer[y].running
          /\ timer'[y].tick = timer[y].tick
    BY <1>2, Kinds, StartsMoves DEF RegisterNode
  <2> QED
    BY <2>1, <2>2, Kinds DEF OwnTypes, Registering, Unstarted, Untouched, Items
<1>3. ASSUME NEW x \in Items, Tick(x)
      PROVE  Registering'
  <2>1. timer[x].running /\ UNCHANGED <<at, reg, alerts>>
    BY <1>3 DEF Tick
  <2> QED
    BY <1>3, <2>1, TickMoves DEF Registering, Unstarted, Untouched
<1>4. ASSUME NEW x \in Items, TakeTick(x)
      PROVE  Registering'
  <2>1. at[x] = "wait" /\ UNCHANGED <<reg, alerts>>
    BY <1>4 DEF TakeTick, At
  <2> QED
    BY <1>4, <2>1, TickMoves, OneMoves
<1>5. ASSUME NEW p \in Pods, Inspection(p)
      PROVE  Registering'
  BY <1>5, Kinds, InspectionMoves, AlertsMove, OneMoves DEF PassPlaces
<1>6. ASSUME NEW p \in Pods, Release(p)
      PROVE  Registering'
  BY <1>6, Kinds, ReleaseMoves, OneMoves
<1>7. ASSUME NEW n \in Nodes, ReportsNode(n) \/ ReportedNode(n)
      PROVE  Registering'
  BY <1>7, Kinds, NodeMoves, OneMoves DEF PassPlaces
<1>8. CASE Publish \/ UNCHANGED vars
  BY <1>8 DEF Publish, vars, watch, Registering, Unstarted, Untouched
<1> QED
  BY <1>1, <1>2, <1>3, <1>4, <1>5, <1>6, <1>7, <1>8, Kinds
  DEF Next, SetRole, Pod, Node

-----------------------------------------------------------------------------
(* The alerts *)

(* Up to its release a Pod has been reported once if it is just being      *)
(* reported and never otherwise; from then on there is one more report for *)
(* the tick that was left, and at most one such tick.                      *)
Budget(p) ==
  /\ timer[p].running => alerts[p] = IF at[p] = "alert" THEN 1 ELSE 0
  /\ ~timer[p].running =>
       /\ alerts[p] <= 2
       /\ timer[p].tick \/ at[p] = "inspect" => alerts[p] <= 1
       /\ ~(timer[p].tick /\ at[p] = "inspect")

Budgets == \A p \in Pods : Budget(p)

LEMMA BudgetStays ==
  ASSUME NEW p \in Pods, Budget(p), at'[p] = at[p], alerts'[p] = alerts[p],
         timer'[p].running = timer[p].running, timer'[p].tick = timer[p].tick
  PROVE  Budget(p)'
  BY DEF Budget

LEMMA BudgetsStep ==
  OwnTypes /\ Registering /\ Budgets /\ [Next]_vars => Budgets'
<1> SUFFICES ASSUME OwnTypes, Registering, Budgets, [Next]_vars,
                    NEW p \in Pods
             PROVE  Budget(p)'
  BY DEF Budgets
<1>0. p \in Items /\ Budget(p)
  BY Kinds DEF Budgets
<1>1. ASSUME NEW q \in Pods, RegisterPod(q)
      PROVE  Budget(p)'
  <2>1. CASE Timerstart(q)
    <3>1. CASE p # q
      BY <1>0, <2>1, <3>1, Kinds, StartsMoves, BudgetStays DEF Timerstart
    <3>2. CASE p = q
      <4>1. Untouched(p)
        BY <1>0, <2>1, <3>2 DEF Timerstart, MainAt, Registering, Unstarted
      <4> QED
        BY <1>0, <2>1, <3>2, <4>1, StartsMoves
        DEF Timerstart, Untouched, Budget
    <3> QED
      BY <3>1, <3>2
  <2>2. CASE UNCHANGED <<at, timer, alerts>>
    BY <1>0, <2>2, BudgetStays
  <2> QED
    BY <1>1, <2>1, <2>2
    DEF RegisterPod, RegisterFails, RegisterExists, RegisterLocks,
        RegisterAppends
<1>2. ASSUME NEW n \in Nodes, RegisterNode(n)
      PROVE  Budget(p)'
  BY <1>0, <1>2, Kinds, StartsMoves, BudgetStays DEF RegisterNode
<1>3. ASSUME NEW x \in Items, Tick(x) \/ TakeTick(x)
      PROVE  Budget(p)'
  <2>1. alerts' = alerts
    BY <1>3 DEF Tick, TakeTick
  <2>2. CASE x # p
    BY <1>0, <1>3, <2>1, <2>2, TickMoves, BudgetStays
  <2>3. CASE x = p
    BY <1>0, <1>3, <2>1, <2>3, TickMoves DEF Budget
  <2> QED
    BY <2>2, <2>3
<1>4. ASSUME NEW q \in Pods, Inspection(q)
      PROVE  Budget(p)'
  <2>1. CASE q # p
    BY <1>0, <1>4, <2>1, InspectionMoves, AlertsMove, BudgetStays
  <2>2. CASE q = p
    <3>1. alerts[p] \in 0..3 /\ alerts'[p] \in 0..3
      BY <1>4, <2>2, AlertsMove DEF OwnTypes
    <3>2. CASE timer'[p].running
      BY <1>0, <1>4, <2>2, <3>1, <3>2, InspectionMoves, AlertsMove
      DEF Budget, PassPlaces
    <3>3. CASE ~timer'[p].running
      BY <1>0, <1>4, <2>2, <3>1, <3>3, InspectionMoves, AlertsMove
      DEF Budget, PassPlaces
    <3> QED
      BY <3>2, <3>3
  <2> QED
    BY <2>1, <2>2
<1>5. ASSUME NEW q \in Pods, Release(q)
      PROVE  Budget(p)'
  BY <1>0, <1>5, ReleaseMoves DEF Budget
<1>6. ASSUME NEW n \in Nodes, ReportsNode(n) \/ ReportedNode(n)
      PROVE  Budget(p)'
  BY <1>0, <1>6, Kinds, NodeMoves, BudgetStays
<1>7. CASE Publish \/ UNCHANGED vars
  BY <1>0, <1>7, BudgetStays DEF Publish, vars, watch
<1> QED
  BY <1>1, <1>2, <1>3, <1>4, <1>5, <1>6, <1>7, Kinds
  DEF Next, SetRole, Pod, Node

-----------------------------------------------------------------------------
(* pods.groups *)

Distinct == \A i, j \in DOMAIN groups : groups[i] = groups[j] => i = j

(* What one Pod has to do with the registry. *)
Registered(p) ==
  /\ p \in reg.left \/ reg.who = p => ~InGroups(p)
  /\ reg.at = "append" /\ reg.who = p => timer[p].running \/ at[p] = "lock"
  /\ at[p] \in {"lock", "remove"} => ~timer[p].running
  /\ timer[p].running => InGroups(p) \/ reg.who = p
  /\ InGroups(p) => timer[p].running \/ at[p] \in {"lock", "remove"}

Registry == Distinct /\ \A p \in Pods : Registered(p)

(* append(pods.groups, p) for a p that is not there *)
LEMMA AppendRegistry ==
  ASSUME OwnTypes, Distinct, NEW p \in Pods, ~InGroups(p),
         groups' = Append(groups, p)
  PROVE  /\ Distinct'
         /\ \A q \in Pods : InGroups(q)' <=> InGroups(q) \/ q = p
<1> DEFINE n == Len(groups)
<1>1. n \in Nat /\ DOMAIN groups = 1..n /\ DOMAIN groups' = 1..n + 1
  BY DEF OwnTypes
<1>2. groups'[n + 1] = p /\ \A i \in 1..n : groups'[i] = groups[i]
  BY DEF OwnTypes
<1> HIDE DEF n
<1>3. \A i \in 1..n : groups[i] # p
  BY <1>1 DEF InGroups
<1>4. Distinct'
  BY <1>1, <1>2, <1>3 DEF Distinct
<1>5. ASSUME NEW q \in Pods
      PROVE  InGroups(q)' <=> InGroups(q) \/ q = p
  <2>1. InGroups(q) \/ q = p => InGroups(q)'
    BY <1>1, <1>2 DEF InGroups
  <2>2. InGroups(q)' => InGroups(q) \/ q = p
    BY <1>1, <1>2 DEF InGroups
  <2> QED
    BY <2>1, <2>2
<1> QED
  BY <1>4, <1>5

(* One turn of the loop in release() that finds its Pod *)
LEMMA RemoveRegistry ==
  ASSUME OwnTypes, Distinct, NEW index \in DOMAIN groups,
         groups' = RemoveAt(groups, index)
  PROVE  /\ Distinct'
         /\ \A q \in Pods : InGroups(q)' <=> InGroups(q) /\ q # groups[index]
<1> DEFINE n == Len(groups)
<1>1. n \in Nat /\ DOMAIN groups = 1..n /\ index \in 1..n
  BY DEF OwnTypes
<1>2. /\ DOMAIN groups' = 1..n - 1
      /\ \A j \in 1..n - 1 :
           groups'[j] = IF j < index THEN groups[j] ELSE groups[j + 1]
  BY RemoveAtType DEF OwnTypes
<1> HIDE DEF n
<1>3. \A i, j \in 1..n : groups[i] = groups[j] => i = j
  BY <1>1 DEF Distinct
<1>4. Distinct'
  BY <1>1, <1>2, <1>3 DEF Distinct
<1>5. ASSUME NEW q \in Pods, InGroups(q)'
      PROVE  InGroups(q) /\ q # groups[index]
  <2>1. PICK j \in 1..n - 1 : groups'[j] = q
    BY <1>2, <1>5 DEF InGroups
  <2>2. PICK i \in 1..n : i # index /\ groups[i] = q
    BY <1>1, <1>2, <2>1
  <2> QED
    BY <1>1, <1>3, <2>2 DEF InGroups
<1>6. ASSUME NEW q \in Pods, InGroups(q), q # groups[index]
      PROVE  InGroups(q)'
  <2>1. PICK i \in 1..n : groups[i] = q
    BY <1>1, <1>6 DEF InGroups
  <2> DEFINE j == IF i < index THEN i ELSE i - 1
  <2>2. j \in 1..n - 1 /\ groups'[j] = q
    BY <1>1, <1>2, <1>6, <2>1
  <2> QED
    BY <1>2, <2>2 DEF InGroups
<1> QED
  BY <1>4, <1>5, <1>6

LEMMA SameGroups ==
  ASSUME groups' = groups
  PROVE  /\ Distinct' <=> Distinct
         /\ \A p : InGroups(p)' <=> InGroups(p)
  BY DEF Distinct, InGroups

(* Nothing is asked again of a Pod that has not moved. *)
LEMMA RegisteredStays ==
  ASSUME NEW p, Registered(p), at'[p] = at[p], reg' = reg,
         timer'[p].running = timer[p].running, InGroups(p)' <=> InGroups(p)
  PROVE  Registered(p)'
  BY DEF Registered

LEMMA RegisterRegistry ==
  ASSUME OwnTypes, Registering, Registry, NEW p \in Pods, RegisterPod(p)
  PROVE  Registry'
<1>1. CASE RegisterFails(p) \/ RegisterExists(p) \/ RegisterLocks(p)
  <2>1. UNCHANGED <<at, timer, groups>>
    BY <1>1 DEF RegisterFails, RegisterExists, RegisterLocks
  <2>2. \A q \in Pods : /\ q \in reg'.left => q \in reg.left
                        /\ reg'.who = q => q \in reg.left \/ reg.who = q
                        /\ reg'.at # "append"
                        /\ reg.who = q => reg'.who = q
    BY <1>1, Kinds
    DEF OwnTypes, RegisterFails, RegisterExists, RegisterLocks, Takes, MainAt
  <2> QED
    BY <2>1, <2>2, SameGroups DEF Registry, Registered
<1>2. CASE Timerstart(p)
  <2>1. /\ groups' = groups /\ reg.who = p /\ reg'.who = p
        /\ reg'.at = "append" /\ reg'.left = reg.left
    BY <1>2 DEF OwnTypes, Timerstart, MainAt
  <2>2. /\ at'[p] = "wait" /\ timer'[p].running
        /\ \A q \in Pods \ {p} :
             at'[q] = at[q] /\ timer'[q].running = timer[q].running
    BY <1>2, Kinds, StartsMoves DEF Timerstart
  <2> QED
    BY <2>1, <2>2, SameGroups DEF Registry, Registered
<1>3. CASE RegisterAppends(p)
  <2>1. /\ groups' = Append(groups, p) /\ UNCHANGED <<at, timer>>
        /\ reg.at = "append" /\ reg.who = p
        /\ reg'.at = "next" /\ reg'.who = Main /\ reg'.left = reg.left
    BY <1>3 DEF OwnTypes, RegisterAppends, MainAt
  <2>2. ~InGroups(p) /\ p \notin reg.left
    BY <2>1 DEF Registry, Registered, Registering
  <2>3. /\ Distinct'
        /\ \A q \in Pods : InGroups(q)' <=> InGroups(q) \/ q = p
    BY <2>1, <2>2, AppendRegistry DEF Registry
  <2> QED
    BY <2>1, <2>2, <2>3, Kinds DEF Registry, Registered
<1> QED
  BY <1>1, <1>2, <1>3 DEF RegisterPod

LEMMA ReleaseRegistry ==
  ASSUME OwnTypes, Registering, LockHeld, Registry, NEW p \in Pods, Release(p)
  PROVE  Registry'
<1>1. /\ UNCHANGED <<timer, reg>>
      /\ \A q \in Pods \ {p} : at'[q] = at[q]
      /\ \/ at[p] = "lock" /\ at'[p] = "remove"
         \/ at[p] = "remove" /\ at'[p] = "wait"
  BY Kinds, ReleaseMoves
<1>2. ~timer[p].running
  BY <1>1 DEF Registry, Registered
<1>3. CASE Locks(p)
  <2>1. groups' = groups /\ mu = Free /\ at[p] = "lock" /\ at'[p] = "remove"
    BY <1>1, <1>3 DEF Locks, At
  <2>2. ~(reg.at = "append" /\ reg.who = p)
    BY <2>1, Kinds DEF LockHeld
  <2>3. Registered(p)'
    BY <1>1, <1>2, <2>1, <2>2, SameGroups DEF Registry, Registered
  <2>4. \A q \in Pods \ {p} : Registered(q)'
    BY <1>1, <2>1, SameGroups, RegisteredStays DEF Registry
  <2> QED
    BY <2>1, <2>3, <2>4, SameGroups DEF Registry
<1>4. CASE Removes(p)
  <2>1. at[p] = "remove" /\ at'[p] = "wait" /\ TakeOut(p)
    BY <1>1, <1>4 DEF Removes, At
  <2>2. ~(reg.at = "append" /\ reg.who = p)
    BY <1>2, <2>1 DEF Registry, Registered
  <2>3. /\ Distinct'
        /\ \A q \in Pods : InGroups(q)' <=> InGroups(q) /\ q # p
    <3>1. ASSUME NEW index \in DOMAIN groups, groups[index] = p,
                 groups' = RemoveAt(groups, index)
          PROVE  /\ Distinct'
                 /\ \A q \in Pods : InGroups(q)' <=> InGroups(q) /\ q # p
      BY <3>1, RemoveRegistry DEF Registry
    <3>2. CASE ~InGroups(p) /\ groups' = groups
      BY <3>2, SameGroups DEF Registry
    <3> QED
      BY <2>1, <3>1, <3>2 DEF TakeOut, InGroups
  <2>4. Registered(p)'
    BY <1>1, <1>2, <2>1, <2>2, <2>3 DEF Registry, Registered
  <2>5. \A q \in Pods \ {p} : Registered(q)'
    BY <1>1, <2>3, RegisteredStays DEF Registry
  <2> QED
    BY <2>3, <2>4, <2>5 DEF Registry
<1> QED
  BY <1>3, <1>4 DEF Release

LEMMA RegistryStep ==
  OwnTypes /\ Registering /\ LockHeld /\ Registry /\ [Next]_vars => Registry'
<1> SUFFICES ASSUME OwnTypes, Registering, LockHeld, Registry, [Next]_vars
             PROVE  Registry'
  OBVIOUS
<1>1. ASSUME NEW n \in Nodes,
             RegisterNode(n) \/ ReportsNode(n) \/ ReportedNode(n)
      PROVE  Registry'
  <2>1. \A q \in Pods :
          at'[q] = at[q] /\ timer'[q].running = timer[q].running
    <3>1. CASE RegisterNode(n)
      BY <3>1, Kinds, StartsMoves DEF RegisterNode
    <3>2. CASE ReportsNode(n) \/ ReportedNode(n)
      BY <3>2, Kinds, NodeMoves
    <3> QED
      BY <1>1, <3>1, <3>2
  <2>2. /\ groups' = groups /\ reg'.at = reg.at /\ reg'.who = reg.who
        /\ reg'.left \subseteq reg.left
    BY <1>1 DEF OwnTypes, RegisterNode, ReportsNode, ReportedNode
  <2> QED
    BY <2>1, <2>2, SameGroups DEF Registry, Registered
<1>2. ASSUME NEW x \in Items, Tick(x) \/ TakeTick(x)
      PROVE  Registry'
  <2>1. UNCHANGED <<groups, reg>>
    BY <1>2 DEF Tick, TakeTick
  <2>2. \A q \in Pods :
          /\ timer'[q].running = timer[q].running
          /\ at'[q] = at[q] \/ (at[q] = "wait" /\ at'[q] = "inspect")
    BY <1>2, Kinds, TickMoves
  <2>3. ASSUME NEW q \in Pods
        PROVE  Registered(q)'
    BY <2>1, <2>2, SameGroups, Kinds, Zenon DEF Registry, Registered
  <2> QED
    BY <2>1, <2>3, SameGroups DEF Registry
<1>3. ASSUME NEW p \in Pods, Inspection(p)
      PROVE  Registry'
  <2>1. /\ UNCHANGED <<groups, reg>>
        /\ \A q \in Pods \ {p} :
             at'[q] = at[q] /\ timer'[q].running = timer[q].running
    BY <1>3, Kinds, InspectionMoves
  <2>2. Registered(p)'
    BY <1>3, <2>1, InspectionMoves, SameGroups
    DEF Registry, Registered, PassPlaces
  <2>3. \A q \in Pods \ {p} : Registered(q)'
    BY <2>1, SameGroups, RegisteredStays DEF Registry
  <2> QED
    BY <2>1, <2>2, <2>3, SameGroups DEF Registry
<1>4. CASE Publish \/ UNCHANGED vars
  BY <1>4, SameGroups DEF Publish, vars, watch, Registry, Registered
<1> QED
  BY <1>1, <1>2, <1>3, <1>4, RegisterRegistry, ReleaseRegistry, Kinds
  DEF Next, SetRole, Pod, Node

-----------------------------------------------------------------------------
(* The publisher's turns *)

(* The senders stand in line, each once; whoever stands there is in its    *)
(* send and has not seen a form of those before it pass.                   *)
Line ==
  /\ \A i, j \in DOMAIN waiting : waiting[i] = waiting[j] => i = j
  /\ \A i \in DOMAIN waiting : at[waiting[i]] \in {"report", "alert"}
  /\ \A i, j \in DOMAIN waiting : j < i => taken[waiting[i]][waiting[j]] = 0

Turns ==
  \A x, y \in Items :
    /\ taken[x][y] <= 1
    /\ ~Slack!Blocked(x) => taken[x][y] = 0

LEMMA BlockedIs ==
  ASSUME SlackTypes, NEW x
  PROVE  Slack!Blocked(x) <=> \E i \in DOMAIN waiting : waiting[i] = x
  BY DEF SlackTypes, Slack!Blocked, Slack!Range

(* A sender comes and goes to its send. *)
LEMMA OfferTurns ==
  ASSUME SlackTypes, OwnTypes, Line, Turns, NEW x \in Items,
         Slack!Offer(x), at[x] = "inspect", at'[x] \in {"report", "alert"},
         \A y \in Items \ {x} : at'[y] = at[y]
  PROVE  Line' /\ Turns'
<1> DEFINE n == Len(waiting)
<1>1. /\ n \in Nat /\ DOMAIN waiting = 1..n /\ DOMAIN waiting' = 1..n + 1
      /\ waiting'[n + 1] = x /\ \A i \in 1..n : waiting'[i] = waiting[i]
      /\ \A i \in 1..n : waiting[i] \in Items
  BY DEF SlackTypes, Slack!Offer
<1>2. taken' = taken
  BY DEF Slack!Offer
<1> HIDE DEF n
<1>3. \A i \in 1..n : waiting[i] # x
  BY <1>1 DEF Line
<1>4. \A y \in Items : taken[x][y] = 0
  BY <1>1, <1>3, BlockedIs DEF Turns
<1>5. ASSUME NEW y \in Items, Slack!Blocked(y)
      PROVE  Slack!Blocked(y)'
  <2>1. PICK i \in 1..n : waiting[i] = y
    BY <1>1, <1>5, BlockedIs
  <2> QED
    BY <1>1, <2>1, OfferTypes, BlockedIs DEF Slack!Blocked, Slack!Range
<1>6. Turns'
  BY <1>2, <1>5 DEF Turns
<1>7. \A i, j \in 1..n + 1 : waiting'[i] = waiting'[j] => i = j
  BY <1>1, <1>3 DEF Line
<1>8. \A i \in 1..n + 1 : at'[waiting'[i]] \in {"report", "alert"}
  BY <1>1, <1>3 DEF Line
<1>9. ASSUME NEW i \in 1..n + 1, NEW j \in 1..n + 1, j < i
      PROVE  taken'[waiting'[i]][waiting'[j]] = 0
  <2>1. j \in 1..n
    BY <1>1, <1>9
  <2>2. CASE i = n + 1
    BY <1>1, <1>2, <1>4, <2>1, <2>2
  <2>3. CASE i \in 1..n
    BY <1>1, <1>2, <1>9, <2>1, <2>3 DEF Line
  <2> QED
    BY <1>1, <2>2, <2>3
<1> QED
  BY <1>1, <1>6, <1>7, <1>8, <1>9 DEF Line

(* The first in line is received and all the others see its form pass. *)
LEMMA ReceiveTurns ==
  ASSUME SlackTypes, OwnTypes, Line, Turns, Slack!Receive, at' = at
  PROVE  Line' /\ Turns'
<1> DEFINE n == Len(waiting)
<1> DEFINE y == waiting[1]
<1>1. /\ n \in Nat \ {0} /\ DOMAIN waiting = 1..n /\ DOMAIN waiting' = 1..n - 1
      /\ \A i \in 1..n - 1 : waiting'[i] = waiting[i + 1]
      /\ \A i \in 1..n : waiting[i] \in Items
      /\ posting' = y
  BY DEF SlackTypes, Slack!Receive
<1>2. taken' = [x \in Items |->
                 IF x \in Slack!Range(waiting')
                 THEN [taken[x] EXCEPT ![posting'] = IF @ < 2 THEN @ + 1
                                                     ELSE 2]
                 ELSE [z \in Items |-> 0]]
  BY DEF Slack!Receive
<1> HIDE DEF n
<1>3. y \in Items
  BY <1>1
<1> HIDE DEF y
<1>4. \A x : x \in Slack!Range(waiting')
               <=> \E i \in 1..n - 1 : waiting'[i] = x
  BY <1>1 DEF Slack!Range
<1>5. ASSUME NEW x \in Items, x \in Slack!Range(waiting')
      PROVE  /\ taken[x][y] = 0 /\ x # y
             /\ \A z \in Items :
                  taken'[x][z] = IF z = y THEN 1 ELSE taken[x][z]
  <2>1. PICK i \in 1..n - 1 : waiting[i + 1] = x
    BY <1>1, <1>4, <1>5
  <2>2. 1 < i + 1 /\ i + 1 \in DOMAIN waiting /\ 1 \in DOMAIN waiting
    BY <1>1
  <2>3. taken[x][y] = 0 /\ x # y
    BY <2>1, <2>2 DEF Line, y
  <2>4. taken'[x] = [taken[x] EXCEPT ![y] = 1]
    BY <1>1, <1>2, <1>5, <2>3
  <2>5. taken[x] \in [Items -> 0..2]
    BY DEF SlackTypes
  <2> QED
    BY <2>3, <2>4, <2>5
<1>6. ASSUME NEW x \in Items, x \notin Slack!Range(waiting')
      PROVE  \A z \in Items : taken'[x][z] = 0
  BY <1>2, <1>6
<1>7. Turns'
  <2>1. ASSUME NEW x \in Items, NEW z \in Items
        PROVE  /\ taken'[x][z] <= 1
               /\ x \notin Slack!Range(waiting') => taken'[x][z] = 0
    BY <1>5, <1>6 DEF Turns
  <2> QED
    BY <2>1 DEF Turns, Slack!Blocked, Slack!Range
<1>8. \A i, j \in 1..n - 1 : waiting'[i] = waiting'[j] => i = j
  BY <1>1 DEF Line
<1>9. \A i \in 1..n - 1 : at'[waiting'[i]] \in {"report", "alert"}
  BY <1>1 DEF Line
<1>10. ASSUME NEW i \in 1..n - 1, NEW j \in 1..n - 1, j < i
       PROVE  taken'[waiting'[i]][waiting'[j]] = 0
  <2>1. /\ waiting'[i] \in Items /\ waiting'[i] = waiting[i + 1]
        /\ waiting'[j] \in Items /\ waiting'[j] = waiting[j + 1]
        /\ waiting'[i] \in Slack!Range(waiting')
    BY <1>1, <1>4
  <2>2. waiting'[j] # y
    BY <1>1, <1>4, <1>5, <2>1
  <2>3. taken[waiting[i + 1]][waiting[j + 1]] = 0
    BY <1>1, <1>10, SMTT(30) DEF Line
  <2> QED
    BY <1>5, <2>1, <2>2, <2>3
<1> QED
  BY <1>1, <1>7, <1>8, <1>9, <1>10 DEF Line

(* Who stands in line does not go on. *)
LEMMA WaitingTurns ==
  ASSUME SlackTypes, Line, Turns, UNCHANGED <<waiting, taken>>,
         \A y \in Items :
           Slack!Blocked(y) /\ at[y] \in {"report", "alert"} => at'[y] = at[y]
  PROVE  Line' /\ Turns'
<1>1. \A i \in DOMAIN waiting :
        waiting[i] \in Items /\ Slack!Blocked(waiting[i])
  BY BlockedIs DEF SlackTypes
<1>2. Line'
  BY <1>1 DEF Line
<1>3. Turns'
  BY DEF Turns, Slack!Blocked, Slack!Range
<1> QED
  BY <1>2, <1>3

LEMMA TurnsStep ==
  OwnTypes /\ SlackTypes /\ Registering /\ Line /\ Turns /\ [Next]_vars
    => Line' /\ Turns'
<1> SUFFICES ASSUME OwnTypes, SlackTypes, Registering, Line, Turns,
                    [Next]_vars
             PROVE  Line' /\ Turns'
  OBVIOUS
<1>1. ASSUME NEW p \in Pods, RegisterPod(p)
      PROVE  Line' /\ Turns'
  <2>1. UNCHANGED <<waiting, taken>>
    BY <1>1 DEF RegisterPod, RegisterFails, RegisterExists, RegisterLocks,
                Timerstart, RegisterAppends, slack
  <2>2. CASE Timerstart(p)
    <3>1. at[p] = "none"
      BY <2>2, Kinds
      DEF Timerstart, MainAt, Registering, Unstarted, Untouched
    <3>2. \A y \in Items \ {p} : at'[y] = at[y]
      BY <2>2, Kinds, StartsMoves DEF Timerstart
    <3> QED
      BY <2>1, <3>1, <3>2, WaitingTurns
  <2>3. CASE at' = at
    BY <2>1, <2>3, WaitingTurns
  <2> QED
    BY <1>1, <2>2, <2>3 DEF RegisterPod, RegisterFails, RegisterExists,
                            RegisterLocks, RegisterAppends
<1>2. ASSUME NEW n \in Nodes, RegisterNode(n)
      PROVE  Line' /\ Turns'
  <2>1. at[n] = "none" /\ UNCHANGED <<waiting, taken>>
    BY <1>2, Kinds
    DEF RegisterNode, Takes, slack, Registering, Unstarted, Untouched
  <2>2. \A y \in Items \ {n} : at'[y] = at[y]
    BY <1>2, Kinds, StartsMoves DEF RegisterNode
  <2> QED
    BY <2>1, <2>2, WaitingTurns
<1>3. ASSUME NEW x \in Items, Tick(x) \/ TakeTick(x)
      PROVE  Line' /\ Turns'
  <2>1. UNCHANGED <<waiting, taken>>
    BY <1>3 DEF Tick, TakeTick, slack
  <2>2. \A y \in Items : at[y] \in {"report", "alert"} => at'[y] = at[y]
    BY <1>3, TickMoves
  <2> QED
    BY <2>1, <2>2, WaitingTurns
<1>4. ASSUME NEW p \in Pods, Inspection(p)
      PROVE  Line' /\ Turns'
  <2>0. p \in Items /\ \A y \in Items \ {p} : at'[y] = at[y]
    BY <1>4, Kinds, InspectionMoves
  <2>1. CASE Alerts(p) \/ Reports(p)
    <3>1. /\ Slack!Offer(p) /\ at[p] = "inspect"
          /\ at'[p] \in {"report", "alert"}
      BY <2>0, <2>1, GotoType
      DEF OwnTypes, Alerts, Reports, At, Places, NodePlaces
    <3> QED
      BY <2>0, <3>1, OfferTurns
  <2>2. CASE CheckFails(p) \/ Records(p)
    <3>1. at[p] = "inspect" /\ UNCHANGED <<waiting, taken>>
      BY <2>2 DEF CheckFails, Records, At, slack
    <3> QED
      BY <2>0, <3>1, WaitingTurns
  <2>3. CASE Alerted(p) \/ Reported(p)
    <3>1. ~Slack!Blocked(p) /\ UNCHANGED <<waiting, taken>>
      BY <2>3 DEF Alerted, Reported, slack
    <3> QED
      BY <2>0, <3>1, WaitingTurns
  <2> QED
    BY <1>4, <2>1, <2>2, <2>3 DEF Inspection
<1>5. ASSUME NEW p \in Pods, Release(p)
      PROVE  Line' /\ Turns'
  <2>1. UNCHANGED <<waiting, taken>>
    BY <1>5 DEF Release, Locks, Removes, slack
  <2>2. \A y \in Items : at[y] \in {"report", "alert"} => at'[y] = at[y]
    BY <1>5, Kinds, ReleaseMoves
  <2> QED
    BY <2>1, <2>2, WaitingTurns
<1>6. ASSUME NEW n \in Nodes, ReportsNode(n) \/ ReportedNode(n)
      PROVE  Line' /\ Turns'
  <2>0. n \in Items /\ \A y \in Items \ {n} : at'[y] = at[y]
    BY <1>6, Kinds, NodeMoves
  <2>1. CASE ReportsNode(n)
    <3>1. Slack!Offer(n) /\ at[n] = "inspect" /\ at'[n] = "report"
      BY <2>0, <2>1, GotoType DEF OwnTypes, ReportsNode, At, Places, NodePlaces
    <3> QED
      BY <2>0, <3>1, OfferTurns
  <2>2. CASE ReportedNode(n)
    <3>1. ~Slack!Blocked(n) /\ UNCHANGED <<waiting, taken>>
      BY <2>2 DEF ReportedNode, slack
    <3> QED
      BY <2>0, <3>1, WaitingTurns
  <2> QED
    BY <1>6, <2>1, <2>2
<1>7. CASE Publish
  <2>1. at' = at /\ Slack!Publish
    BY <1>7 DEF Publish, watch
  <2>2. CASE Slack!Receive
    BY <2>1, <2>2, ReceiveTurns
  <2>3. CASE Slack!PostEnds \/ Slack!PostFails
    BY <2>1, <2>3, WaitingTurns DEF Slack!PostEnds, Slack!PostFails
  <2> QED
    BY <2>1, <2>2, <2>3 DEF Slack!Publish
<1>8. CASE UNCHANGED vars
  BY <1>8, WaitingTurns DEF vars, slack, watch
<1> QED
  BY <1>1, <1>2, <1>3, <1>4, <1>5, <1>6, <1>7, <1>8, Kinds
  DEF Next, SetRole, Pod, Node

-----------------------------------------------------------------------------
(* The theorems *)

LEMMA RegisteringAlways == Spec => []Registering
<1>1. Init => Registering
  BY Kinds DEF Init, Registering, Unstarted, Untouched
<1> QED
  BY <1>1, RegisteringStep, TypesAlways, PTL DEF Spec

LEMMA LockHeldAlways == Spec => []LockHeld
<1>1. Init => LockHeld
  BY Kinds DEF Init, LockHeld
<1> QED
  BY <1>1, LockStep, TypesAlways, PTL DEF Spec

(* pods.groups names each Pod whose ticker runs exactly once and no other, *)
(* however the registrations, passes and releases of any number of Pods    *)
(* are interleaved.                                                        *)
THEOREM PodsExactAlways == Spec => []PodsExact
<1>1. Init => Registry
  BY Kinds DEF Init, Registry, Registered, Distinct, InGroups
<1>2. Registry => PodsExact
  BY DEF Registry, Registered, Distinct, PodsExact
<1> QED
  BY <1>1, <1>2, RegistryStep, TypesAlways, RegisteringAlways, LockHeldAlways,
     PTL DEF Spec

(* No Pod is ever reported abnormal a third time.                          *)
THEOREM TwoAlertsAlways == Spec => []TwoAlerts
<1>1. Init => Budgets
  BY Kinds DEF Init, Budgets, Budget
<1>2. Budgets => TwoAlerts
  BY DEF Budgets, Budget, TwoAlerts
<1> QED
  BY <1>1, <1>2, BudgetsStep, TypesAlways, RegisteringAlways, PTL DEF Spec

(* While an item waits for the publisher, each other gets in before it     *)
(* once at most, however many there are and however often they report.     *)
THEOREM FairShareAlways == Spec => []FairShare
<1>1. Init => Line /\ Turns
  BY DEF Init, Slack!Init, Line, Turns
<1>2. Turns => FairShare
  BY DEF Turns, FairShare, Slack!FairShare
<1> QED
  BY <1>1, <1>2, TurnsStep, TypesAlways, RegisteringAlways, PTL DEF Spec

-----------------------------------------------------------------------------
(* Nothing waits for ever but for Slack *)

(* The places that a step of x leads to. *)
LEMMA OwnPlaces ==
  ASSUME OwnTypes, NEW x \in Items, at[x] \notin {"none", "wait"},
         (x \in Pods /\ Pod(x)) \/ (x \in Nodes /\ Node(x))
  PROVE  \/ at[x] = "inspect" /\ at'[x] \in {"alert", "lock", "report", "wait"}
         \/ at[x] = "alert" /\ at'[x] = "lock"
         \/ at[x] = "report" /\ at'[x] = "wait"
         \/ at[x] = "lock" /\ at'[x] = "remove"
         \/ at[x] = "remove" /\ at'[x] = "wait"
<1>1. CASE CheckFails(x) \/ Alerts(x) \/ Records(x) \/ Reports(x)
             \/ ReportsNode(x)
  BY <1>1, GotoType
  DEF OwnTypes, CheckFails, Alerts, Records, Reports, ReportsNode, Releases,
      At, Places, NodePlaces
<1>2. CASE Alerted(x) \/ Reported(x) \/ ReportedNode(x)
  BY <1>2, GotoType
  DEF OwnTypes, Alerted, Reported, ReportedNode, Releases, At, Places,
      NodePlaces
<1>3. CASE Release(x)
  BY <1>3, GotoType DEF OwnTypes, Release, Locks, Removes, At, Places,
    NodePlaces
<1>4. ~TakeTick(x)
  BY DEF TakeTick, At
<1> QED
  BY <1>1, <1>2, <1>3, <1>4 DEF Pod, Node, Inspection

LEMMA OthersStay ==
  ASSUME OwnTypes, Registering, [Next]_vars, NEW x \in Items,
         at[x] \notin {"none", "wait"},
         ~(x \in Pods /\ Pod(x)), ~(x \in Nodes /\ Node(x))
  PROVE  at'[x] = at[x]
<1>1. ASSUME NEW y \in Items, Starts(y), Untouched(y)
      PROVE  at'[x] = at[x]
  BY <1>1, StartsMoves DEF Untouched
<1>2. CASE SetRole
  <2>1. ASSUME NEW p \in Pods, RegisterPod(p)
        PROVE  at'[x] = at[x]
    <3>1. CASE Timerstart(p)
      BY <1>1, <2>1, <3>1, Kinds
      DEF Timerstart, MainAt, Registering, Unstarted
    <3> QED
      BY <2>1, <3>1 DEF RegisterPod, RegisterFails, RegisterExists,
        RegisterLocks, RegisterAppends
  <2>2. ASSUME NEW n \in Nodes, RegisterNode(n)
        PROVE  at'[x] = at[x]
    BY <1>1, <2>2, Kinds DEF RegisterNode, Takes, Registering, Unstarted
  <2> QED
    BY <1>2, <2>1, <2>2 DEF SetRole
<1>3. ASSUME NEW y \in Items, Tick(y)
      PROVE  at'[x] = at[x]
  BY <1>3 DEF Tick
<1>4. ASSUME NEW p \in Pods, Pod(p)
      PROVE  at'[x] = at[x]
  BY <1>4, Kinds, TickMoves, InspectionMoves, ReleaseMoves DEF Pod
<1>5. ASSUME NEW n \in Nodes, Node(n)
      PROVE  at'[x] = at[x]
  BY <1>5, Kinds, TickMoves, NodeMoves DEF Node
<1>6. CASE Publish \/ UNCHANGED vars
  BY <1>6 DEF Publish, vars, watch
<1> QED
  BY <1>2, <1>3, <1>4, <1>5, <1>6 DEF Next

(* However many items report and however long a POST hangs, who holds      *)
(* pods.mu is never in a send, and a pass or a release has four steps to   *)
(* make at the most, which nothing takes back.                             *)
THEOREM PodsGoOn == Spec => []NeverStuck /\ PassesRunOut
<1>1. Init => Line /\ Turns
  BY DEF Init, Slack!Init, Line, Turns
<1>2. OwnTypes /\ SlackTypes /\ LockHeld /\ Line => NeverStuck
  <2> SUFFICES ASSUME OwnTypes, SlackTypes, LockHeld, Line, mu # Free
               PROVE  HolderCanGo
    BY DEF NeverStuck
  <2>1. CASE mu = Main
    BY <2>1 DEF LockHeld, HolderCanGo
  <2>2. CASE mu \in Pods
    <3>1. at[mu] = "remove"
      BY <2>2 DEF LockHeld
    <3>2. ~Slack!Blocked(mu)
      BY <3>1, BlockedIs DEF Line
    <3> QED
      BY <2>2, <3>1, <3>2 DEF HolderCanGo
  <2> QED
    BY <2>1, <2>2 DEF OwnTypes
<1>3. OwnTypes /\ Registering /\ [Next]_vars =>
        [\A x \in Items :
           at[x] \notin {"none", "wait"} =>
             IF (x \in Pods /\ Pod(x)) \/ (x \in Nodes /\ Node(x))
             THEN StepsToGo(x)' < StepsToGo(x)
             ELSE StepsToGo(x)' = StepsToGo(x)]_vars
  <2> SUFFICES ASSUME OwnTypes, Registering, [Next]_vars, NEW x \in Items,
                      at[x] \notin {"none", "wait"}
               PROVE  IF (x \in Pods /\ Pod(x)) \/ (x \in Nodes /\ Node(x))
                      THEN StepsToGo(x)' < StepsToGo(x)
                      ELSE StepsToGo(x)' = StepsToGo(x)
    OBVIOUS
  <2>1. CASE (x \in Pods /\ Pod(x)) \/ (x \in Nodes /\ Node(x))
    <3>1. StepsToGo(x)' < StepsToGo(x)
      BY <2>1, OwnPlaces DEF StepsToGo
    <3> QED
      BY <2>1, <3>1
  <2>2. CASE ~(x \in Pods /\ Pod(x)) /\ ~(x \in Nodes /\ Node(x))
    <3>1. StepsToGo(x)' = StepsToGo(x)
      BY <2>2, OthersStay DEF StepsToGo
    <3> QED
      BY <2>2, <3>1
  <2> QED
    BY <2>1, <2>2
<1> QED
  BY <1>1, <1>2, <1>3, TurnsStep, TypesAlways, RegisteringAlways,
     LockHeldAlways, PTL DEF Spec, PassesRunOut
=============================================================================
