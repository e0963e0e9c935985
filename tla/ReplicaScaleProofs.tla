------------------------- MODULE ReplicaScaleProofs -------------------------
(***************************************************************************)
(* Proofs about ReplicaScale for any set of watchers, any ceiling, any     *)
(* edits from outside and any number of attempts.                          *)
(***************************************************************************)
EXTENDS ReplicaScale, TLAPS

(* What a call under way looks like, and how much interference it has to   *)
(* show for the attempts it has used.                                      *)
Underway(c) ==
  /\ c.op \in {"inc", "dec", "apply"}
  /\ c.op = "apply" => c.at = "update"
  /\ c.attempt >= 1
  /\ c.op # "apply" => c.foreign >= c.attempt - 1
  /\ c.at = "update" /\ ~c.fresh =>
       c.foreign >= (IF c.op = "apply" THEN 1 ELSE c.attempt)

(* The inductive invariant for one call c and the object o: Coherent,      *)
(* WrittenOnce and ConflictEarned say the same of every watcher.           *)
Sound(c, o) ==
  /\ c.at \in Running => Underway(c)
  /\ c.at = "update" /\ c.fresh =>
       /\ o.exists
       /\ c.replicas = o.replicas + Delta(c.op)
       /\ c.op = "inc" => o.replicas < Ceiling
  /\ c.wrote <= 1
  /\ c.at = "ok" => c.wrote = 1
  /\ c.at \in Running \cup {"conflicted"} => c.wrote = 0
  /\ c.at = "conflicted" =>
       c.foreign >= (IF c.op = "apply" THEN 1 ELSE Steps)

Inv == TypeOK /\ \A w \in Watchers : Sound(call[w], obj)

-----------------------------------------------------------------------------
(* Type correctness *)

LEMMA NoCallType == NoCall \in Calls
  BY ScaleAssumption DEF ScaleAssumption, NoCall, Calls, Ops, Places

LEMMA OneStep == 0 \in 0..Steps /\ 1 \in 0..Steps
  BY ScaleAssumption DEF ScaleAssumption

LEMMA WrittenType ==
  ASSUME NEW c \in Calls, NEW at \in Places
  PROVE  [c EXCEPT !.at = at, !.wrote = @ + 1] \in Calls
<1>1. c.wrote + 1 \in Nat
  BY DEF Calls
<1> QED
  BY <1>1 DEF Calls

LEMMA OvertakenType ==
  ASSUME NEW c \in Calls
  PROVE  Overtaken(c) \in Calls
<1> DEFINE n == IF c.foreign < Steps THEN c.foreign + 1 ELSE Steps
<1>1. n \in 0..Steps
  BY ScaleAssumption DEF ScaleAssumption, Calls
<1>2. [c EXCEPT !.fresh = FALSE, !.foreign = n] \in Calls
  BY <1>1 DEF Calls
<1> QED
  BY <1>2 DEF Overtaken

LEMMA TypeInit == Init => TypeOK
  BY ScaleAssumption, NoCallType DEF Init, TypeOK, Objects

LEMMA TypeStep == TypeOK /\ [Next]_vars => TypeOK'
<1> SUFFICES ASSUME TypeOK, [Next]_vars PROVE TypeOK'
  OBVIOUS
<1> USE ScaleAssumption DEF ScaleAssumption, TypeOK
<1>1. ASSUME NEW w \in Watchers, NEW op \in {"inc", "dec"}, Begin(w, op)
      PROVE  TypeOK'
  <2>1. [NoCall EXCEPT !.op = op, !.at = "get", !.attempt = 1] \in Calls
    BY OneStep, NoCallType DEF Calls, Ops, Places
  <2> QED
    BY <1>1, <2>1 DEF Begin, Set
<1>2. ASSUME NEW w \in Watchers, NEW fresh \in BOOLEAN, BeginApply(w, fresh)
      PROVE  TypeOK'
  <2> DEFINE n == IF fresh THEN 0 ELSE 1
  <2>1. n \in 0..Steps
    BY Zenon, OneStep
  <2> HIDE DEF n
  <2>2. [NoCall EXCEPT !.op = "apply", !.at = "update", !.attempt = 1,
                       !.replicas = obj.replicas, !.fresh = fresh,
                       !.foreign = n] \in Calls
    <3>1. obj.replicas \in Int
      BY DEF Objects
    <3> QED
      BY <2>1, <3>1, OneStep, NoCallType DEF Calls, Ops, Places
  <2> QED
    BY <1>2, <2>2 DEF BeginApply, Set, n
<1>3. ASSUME NEW w \in Watchers, Answer(w)
      PROVE  TypeOK'
  <2>1. CASE GetError(w) \/ MaxReached(w) \/ UpdateError(w)
    BY <2>1 DEF GetError, MaxReached, UpdateError, Set, Calls, Places
  <2>2. CASE Get(w)
    <3>1. obj.replicas + Delta(call[w].op) \in Int
      BY DEF Delta, Objects
    <3>2. [call[w] EXCEPT !.at = "update", !.fresh = TRUE,
             !.replicas = obj.replicas + Delta(call[w].op)] \in Calls
      BY <3>1 DEF Calls, Places
    <3> QED
      BY <2>2, <3>2 DEF Get, Set
  <2>3. ASSUME NEW acked \in BOOLEAN, Commit(w, acked)
        PROVE  TypeOK'
    <3>1. obj' \in Objects
      <4>1. call[w].replicas \in Nat
        BY <2>3 DEF Commit, Accepted, Calls
      <4> QED
        BY <2>3, <4>1 DEF Commit, Objects
    <3>2. [call[w] EXCEPT !.at = AfterWrite(w, acked), !.wrote = @ + 1]
            \in Calls
      <4>1. AfterWrite(w, acked) \in Places
        BY Zenon, "ok" \in Places, "failed" \in Places DEF AfterWrite, Places
      <4> QED
        BY <4>1, WrittenType
    <3>3. \A x \in Watchers : Overtaken(call[x]) \in Calls
      BY OvertakenType
    <3> QED
      BY <2>3, <3>1, <3>2, <3>3 DEF Commit
  <2>4. CASE Conflict(w)
    <3>1. AfterConflict(call[w]) \in Calls
      <4>1. CASE call[w].attempt = Steps
        BY <4>1 DEF AfterConflict, Calls, Places
      <4>2. CASE call[w].attempt # Steps
        <5> DEFINE at == IF call[w].op = "apply" THEN "update" ELSE "get"
        <5>1. at \in Places
          BY DEF Places
        <5>2. call[w].attempt + 1 \in 0..Steps
          BY <4>2 DEF Calls
        <5>3. [call[w] EXCEPT !.attempt = @ + 1, !.at = at] \in Calls
          BY <5>1, <5>2 DEF Calls
        <5> QED
          BY <4>2, <5>3 DEF AfterConflict
      <4> QED
        BY <4>1, <4>2
    <3> QED
      BY <2>4, <3>1 DEF Conflict, Set
  <2> QED
    BY <1>3, <2>1, <2>2, <2>3, <2>4 DEF Answer
<1>4. ASSUME NEW w \in Watchers, Return(w)
      PROVE  TypeOK'
  BY <1>4, NoCallType DEF Return, Set
<1>5. CASE Cluster
  <2>1. \A x \in Watchers : Overtaken(call[x]) \in Calls
    BY OvertakenType
  <2>2. obj' \in Objects
    <3>1. ASSUME NEW n \in Edits \cup {obj.replicas}, OutsideEdit(n)
          PROVE  obj' \in Objects
      BY <3>1 DEF OutsideEdit, OutsideWrite, Objects
    <3>2. CASE OutsideDelete
      BY <3>2 DEF OutsideDelete, OutsideWrite, Objects
    <3>3. ASSUME NEW n \in Edits, OutsideCreate(n)
          PROVE  obj' \in Objects
      BY <3>3 DEF OutsideCreate, OutsideWrite, Objects
    <3> QED
      BY <1>5, <3>1, <3>2, <3>3 DEF Cluster
  <2> QED
    BY <1>5, <2>1, <2>2 DEF Cluster, OutsideEdit, OutsideDelete,
                            OutsideCreate, OutsideWrite
<1>6. CASE UNCHANGED vars
  BY <1>6 DEF vars
<1> QED
  BY <1>1, <1>2, <1>3, <1>4, <1>5, <1>6 DEF Next

(* Objects, calls and their fields keep their types. *)
THEOREM TypeCorrect == Spec => []TypeOK
  BY TypeInit, TypeStep, PTL DEF Spec

-----------------------------------------------------------------------------
(* Safety *)

LEMMA NoCallSound == \A o : Sound(NoCall, o)
  BY DEF Sound, NoCall, Running

(* A write by anybody else leaves a call sound: its copy is stale and one  *)
(* more write accounts for one more attempt.                               *)
LEMMA OvertakenSound ==
  ASSUME NEW c \in Calls, NEW o, NEW p, Sound(c, o)
  PROVE  Sound(Overtaken(c), p)
<1>1. CASE c.at \in Running
  <2> DEFINE n == IF c.foreign < Steps THEN c.foreign + 1 ELSE Steps
  <2> DEFINE d == [c EXCEPT !.fresh = FALSE, !.foreign = n]
  <2>1. Overtaken(c) = d
    BY <1>1 DEF Overtaken
  <2>2. /\ d.at = c.at /\ d.op = c.op /\ d.attempt = c.attempt
        /\ d.wrote = c.wrote /\ d.foreign = n /\ d.fresh = FALSE
    BY DEF Calls
  <2>3. n >= c.foreign /\ (n = Steps \/ n = c.foreign + 1)
    BY DEF Calls
  <2>4. c.attempt <= Steps /\ Steps >= 1
    BY ScaleAssumption DEF ScaleAssumption, Calls
  <2>5. Underway(c)
    BY <1>1 DEF Sound
  <2> HIDE DEF n, d
  <2>6. Underway(d)
    BY <2>2, <2>3, <2>4, <2>5, ScaleAssumption
    DEF ScaleAssumption, Underway, Calls
  <2> QED
    BY <1>1, <2>1, <2>2, <2>6 DEF Sound, Running
<1>2. CASE c.at \notin Running
  BY <1>2 DEF Overtaken, Sound, Running
<1> QED
  BY <1>1, <1>2

LEMMA InvInit == Init => Inv
  BY TypeInit, NoCallSound DEF Init, Inv

(* A step that moves one call and leaves the object alone. *)
LEMMA OwnStep ==
  ASSUME NEW w \in Watchers, NEW c, Inv, Sound(c, obj), Set(w, c),
         UNCHANGED obj
  PROVE  \A x \in Watchers : Sound(call[x], obj)'
  BY DEF Inv, TypeOK, Set

LEMMA InvStep == Inv /\ [Next]_vars => Inv'
<1> SUFFICES ASSUME Inv, [Next]_vars PROVE Inv'
  OBVIOUS
<1>0. TypeOK /\ TypeOK'
  BY TypeStep DEF Inv
<1>1. ASSUME NEW w \in Watchers, NEW op \in {"inc", "dec"}, Begin(w, op)
      PROVE  \A x \in Watchers : Sound(call[x], obj)'
  <2> DEFINE c == [NoCall EXCEPT !.op = op, !.at = "get", !.attempt = 1]
  <2>1. Sound(c, obj)
    BY DEF NoCall, Sound, Underway, Running
  <2> QED
    BY <1>1, <2>1, OwnStep DEF Begin
<1>2. ASSUME NEW w \in Watchers, NEW fresh \in BOOLEAN, BeginApply(w, fresh)
      PROVE  \A x \in Watchers : Sound(call[x], obj)'
  <2> DEFINE c == [NoCall EXCEPT !.op = "apply", !.at = "update",
                     !.attempt = 1, !.replicas = obj.replicas,
                     !.fresh = fresh, !.foreign = IF fresh THEN 0 ELSE 1]
  <2>1. Sound(c, obj)
    <3>1. CASE fresh = TRUE
      BY <1>2, <1>0, <3>1
      DEF BeginApply, NoCall, Sound, Underway, Running, Delta, TypeOK, Objects
    <3>2. CASE fresh = FALSE
      BY <3>2 DEF NoCall, Sound, Underway, Running
    <3> QED
      BY <3>1, <3>2
  <2> QED
    BY <1>2, <2>1, OwnStep DEF BeginApply
<1>3. ASSUME NEW w \in Watchers, Answer(w)
      PROVE  \A x \in Watchers : Sound(call[x], obj)'
  <2> DEFINE c == call[w]
  <2>0. c \in Calls /\ Sound(c, obj)
    BY <1>0 DEF TypeOK, Inv
  <2>1. CASE GetError(w) \/ MaxReached(w) \/ UpdateError(w)
    <3>1. Sound([c EXCEPT !.at = "failed"], obj)
      BY <2>0 DEF Sound, Running, Calls
    <3> QED
      BY <2>1, <3>1, OwnStep DEF GetError, MaxReached, UpdateError
  <2>2. CASE Get(w)
    <3>1. Sound([c EXCEPT !.at = "update", !.fresh = TRUE,
                   !.replicas = obj.replicas + Delta(c.op)], obj)
      BY <2>0, <2>2 DEF Get, BelowCeiling, Sound, Underway, Running, Calls
    <3> QED
      BY <2>2, <3>1, OwnStep DEF Get
  <2>3. ASSUME NEW acked \in BOOLEAN, Commit(w, acked)
        PROVE  \A x \in Watchers : Sound(call[x], obj)'
    <3>1. AfterWrite(w, acked) = "ok" \/ AfterWrite(w, acked) = "failed"
      BY DEF AfterWrite
    <3>2. ASSUME NEW at \in {"ok", "failed"}
          PROVE  \A o : Sound([c EXCEPT !.at = at, !.wrote = @ + 1], o)
      BY <2>0, <2>3 DEF Commit, Sound, Running, Calls
    <3>3. \A x \in Watchers : Sound(Overtaken(call[x]), obj')
      BY <1>0, OvertakenSound DEF TypeOK, Inv
    <3> QED
      BY <2>3, <3>1, <3>2, <3>3 DEF Commit
  <2>4. CASE Conflict(w)
    <3>0. Underway(c) /\ c.at = "update" /\ c.fresh = FALSE
      BY <2>0, <2>4 DEF Conflict, Sound, Running, Calls
    <3>1. CASE c.attempt = Steps
      <4>1. Sound([c EXCEPT !.at = "conflicted"], obj)
        BY <2>0, <3>0, <3>1, ScaleAssumption
        DEF ScaleAssumption, Sound, Underway, Running, Calls
      <4> QED
        BY <2>4, <3>1, <4>1, OwnStep DEF Conflict, AfterConflict
    <3>2. CASE c.attempt # Steps /\ c.op = "apply"
      <4>1. Sound([c EXCEPT !.attempt = @ + 1, !.at = "update"], obj)
        BY <2>0, <3>0, <3>2 DEF Sound, Underway, Running, Calls
      <4> QED
        BY <2>4, <3>2, <4>1, OwnStep DEF Conflict, AfterConflict
    <3>3. CASE c.attempt # Steps /\ c.op # "apply"
      <4>1. Sound([c EXCEPT !.attempt = @ + 1, !.at = "get"], obj)
        BY <2>0, <3>0, <3>3 DEF Sound, Underway, Running, Calls
      <4> QED
        BY <2>4, <3>3, <4>1, OwnStep DEF Conflict, AfterConflict
    <3> QED
      BY <3>1, <3>2, <3>3
  <2> QED
    BY <1>3, <2>1, <2>2, <2>3, <2>4 DEF Answer
<1>4. ASSUME NEW w \in Watchers, Return(w)
      PROVE  \A x \in Watchers : Sound(call[x], obj)'
  BY <1>4, NoCallSound, OwnStep DEF Return
<1>5. CASE Cluster
  <2>1. \A x \in Watchers : Sound(Overtaken(call[x]), obj')
    BY <1>0, OvertakenSound DEF TypeOK, Inv
  <2>2. call' = [x \in Watchers |-> Overtaken(call[x])]
    BY <1>5 DEF Cluster, OutsideEdit, OutsideDelete, OutsideCreate,
                OutsideWrite
  <2> QED
    BY <1>0, <2>1, <2>2 DEF Inv
<1>6. CASE UNCHANGED vars
  BY <1>6, <1>0 DEF vars, Inv
<1> QED
  BY <1>0, <1>1, <1>2, <1>3, <1>4, <1>5, <1>6 DEF Next, Inv

LEMMA Invariance == Spec => []Inv
  BY InvInit, InvStep, PTL DEF Spec

(* No Update that the API server accepts carries a count computed from     *)
(* anything but the count it replaces.                                     *)
THEOREM CoherentAlways == Spec => []Coherent
<1>1. Inv => Coherent
  BY DEF Inv, Sound, Coherent
<1> QED
  BY <1>1, Invariance, PTL

(* However often a call is retried and whatever answers are lost, it adds  *)
(* or takes away one replica at most.                                      *)
THEOREM WrittenOnceAlways == Spec => []WrittenOnce
<1>1. Inv => WrittenOnce
  BY DEF Inv, Sound, WrittenOnce
<1> QED
  BY <1>1, Invariance, PTL

(* A call that gives up on conflicts was overtaken by as many writes of    *)
(* others as it made attempts.                                             *)
THEOREM ConflictEarnedAlways == Spec => []ConflictEarned
<1>1. Inv => ConflictEarned
  BY DEF Inv, Sound, ConflictEarned
<1> QED
  BY <1>1, Invariance, PTL

-----------------------------------------------------------------------------
(* Refinement *)

LEMMA CounterInit == Init => Counter!Init
  BY DEF Init, Counter!Init

LEMMA CounterStep == Inv /\ [Next]_vars => [Counter!Next]_(Counter!vars)
<1> SUFFICES ASSUME Inv, [Next]_vars
             PROVE  [Counter!Next]_(Counter!vars)
  OBVIOUS
<1>0. TypeOK
  BY DEF Inv
<1>1. ASSUME UNCHANGED obj
      PROVE  UNCHANGED Counter!vars
  BY <1>1 DEF Counter!vars
<1>2. ASSUME NEW w \in Watchers, NEW acked \in BOOLEAN, Commit(w, acked)
      PROVE  Counter!Next
  <2> DEFINE c == call[w]
  <2>1. c \in Calls /\ Sound(c, obj)
    BY <1>0 DEF TypeOK, Inv
  <2>2. /\ c.at = "update" /\ c.fresh /\ c.replicas >= 0
        /\ obj' = [obj EXCEPT !.replicas = c.replicas, !.by = w]
    BY <1>2 DEF Commit, Accepted
  <2>3. /\ obj.exists /\ obj'.exists = obj.exists
        /\ obj'.by = w /\ obj'.replicas = c.replicas
        /\ obj.replicas \in Nat
    BY <2>1, <2>2, <1>0 DEF Sound, TypeOK, Objects
  <2>4. /\ c.replicas = obj.replicas + Delta(c.op)
        /\ c.op = "inc" => obj.replicas < Ceiling
        /\ c.op \in {"inc", "dec", "apply"}
    BY <2>1, <2>2 DEF Sound, Underway, Running
  <2>5. CASE c.op = "inc"
    <3>1. Counter!Raise(w)
      BY <2>3, <2>4, <2>5 DEF Counter!Raise, Delta
    <3> QED
      BY <3>1 DEF Counter!Next
  <2>6. CASE c.op = "dec"
    <3>0. c.replicas = obj.replicas - 1
      BY <2>3, <2>4, <2>6 DEF Delta
    <3>1. obj.replicas > 0
      BY <2>2, <2>3, <3>0
    <3>2. Counter!Lower(w)
      BY <2>3, <3>0, <3>1 DEF Counter!Lower
    <3> QED
      BY <3>2 DEF Counter!Next
  <2>7. CASE c.op = "apply"
    <3>1. Counter!Rewrite(w)
      BY <2>3, <2>4, <2>7 DEF Counter!Rewrite, Delta
    <3> QED
      BY <3>1 DEF Counter!Next
  <2> QED
    BY <2>4, <2>5, <2>6, <2>7
<1>3. ASSUME NEW w \in Watchers, Answer(w)
      PROVE  UNCHANGED obj \/ \E acked \in BOOLEAN : Commit(w, acked)
  BY <1>3 DEF Answer, GetError, Get, MaxReached, Conflict, UpdateError
<1>4. CASE Cluster
  <2>1. Counter!Outsider
    <3>1. ASSUME NEW n \in Edits \cup {obj.replicas}, OutsideEdit(n)
          PROVE  Counter!Outsider
      BY <3>1, <1>0
      DEF OutsideEdit, OutsideWrite, Counter!Outsider, TypeOK, Objects
    <3>2. CASE OutsideDelete
      BY <3>2, <1>0
      DEF OutsideDelete, OutsideWrite, Counter!Outsider, TypeOK, Objects
    <3>3. ASSUME NEW n \in Edits, OutsideCreate(n)
          PROVE  Counter!Outsider
      BY <3>3, <1>0
      DEF OutsideCreate, OutsideWrite, Counter!Outsider, TypeOK, Objects
    <3> QED
      BY <1>4, <3>1, <3>2, <3>3 DEF Cluster
  <2> QED
    BY <2>1 DEF Counter!Next
<1>5. CASE \E w \in Watchers :
             \/ \E op \in {"inc", "dec"} : Begin(w, op)
             \/ \E fresh \in BOOLEAN : BeginApply(w, fresh)
             \/ Return(w)
  BY <1>5, <1>1 DEF Begin, BeginApply, Return
<1>6. CASE UNCHANGED vars
  BY <1>6, <1>1 DEF vars
<1> QED
  BY <1>1, <1>2, <1>3, <1>4, <1>5, <1>6 DEF Next

(* The watchers' retried read-modify-write calls implement the atomic      *)
(* counter: no write is lost and no watcher takes the count past the       *)
(* ceiling, for any number of watchers and any edits from outside.         *)
THEOREM Refinement == Spec => CounterSpec
  BY CounterInit, CounterStep, Invariance, PTL
  DEF Spec, CounterSpec, Counter!Spec

-----------------------------------------------------------------------------
(* Termination of a call *)

LEMMA RequestsType ==
  ASSUME NEW c \in Calls, NEW o, Sound(c, o)
  PROVE  /\ Requests(c) \in 0..2 * Steps
         /\ Requests(c) = 0 <=> c.at \notin Running
<1> DEFINE a == c.attempt
<1>1. Steps \in Nat /\ a \in 0..Steps
  BY ScaleAssumption DEF ScaleAssumption, Calls
<1>2. c.at \in Running => a >= 1
  BY DEF Sound, Underway
<1>3. CASE c.at = "get"
  <2>1. Requests(c) = 2 * (Steps - a) + 2 /\ a >= 1
    BY <1>2, <1>3 DEF Requests, Running
  <2> HIDE DEF a
  <2> QED
    BY <1>1, <1>3, <2>1 DEF Running
<1>4. CASE c.at = "update"
  <2>1. Requests(c) = 2 * (Steps - a) + 1 /\ a >= 1
    BY <1>2, <1>4 DEF Requests, Running
  <2> HIDE DEF a
  <2> QED
    BY <1>1, <1>4, <2>1 DEF Running
<1>5. CASE c.at \notin Running
  BY <1>1, <1>5 DEF Requests, Running
<1> QED
  BY <1>3, <1>4, <1>5 DEF Running

LEMMA OvertakenRequests ==
  ASSUME NEW c \in Calls
  PROVE  Requests(Overtaken(c)) = Requests(c)
<1>1. Overtaken(c).at = c.at /\ Overtaken(c).attempt = c.attempt
  BY DEF Overtaken, Calls
<1> QED
  BY <1>1 DEF Requests

LEMMA AnswerRequests ==
  ASSUME Inv, NEW w \in Watchers, Answer(w)
  PROVE  Requests(call'[w]) < Requests(call[w]) /\ call'[w].at # "idle"
<1> DEFINE c == call[w]
           d == call'[w]
<1>1. c \in Calls /\ Steps \in Nat /\ c.attempt \in 0..Steps
  BY ScaleAssumption DEF ScaleAssumption, Inv, TypeOK, Calls
<1>2. c.at = "get" => Requests(c) = 2 * (Steps - c.attempt) + 2
  BY DEF Requests
<1>3. c.at = "update" => Requests(c) = 2 * (Steps - c.attempt) + 1
  BY DEF Requests
<1>4. CASE /\ c.at \in Running
           /\ d.at \in {"ok", "failed", "conflicted"}
  <2>1. Requests(d) = 0
    BY <1>4 DEF Requests
  <2>2. Requests(c) >= 1
    BY <1>1, <1>2, <1>3, <1>4 DEF Running
  <2> QED
    BY <1>1, <1>2, <1>3, <1>4, <2>1, <2>2 DEF Running
<1>5. CASE c.at = "get" /\ d.at = "update" /\ d.attempt = c.attempt
  <2>1. Requests(d) = 2 * (Steps - c.attempt) + 1
    BY <1>5 DEF Requests
  <2> QED
    BY <1>1, <1>2, <1>5, <2>1
<1>6. CASE c.at = "update" /\ d.at \in Running /\ d.attempt = c.attempt + 1
  <2>1. \/ Requests(d) = 2 * (Steps - (c.attempt + 1)) + 2
        \/ Requests(d) = 2 * (Steps - (c.attempt + 1)) + 1
    BY <1>6 DEF Requests, Running
  <2> QED
    BY <1>1, <1>3, <1>6, <2>1 DEF Running
<1>7. CASE GetError(w) \/ MaxReached(w) \/ UpdateError(w)
  <2>1. c.at \in Running /\ d.at = "failed"
    BY <1>1, <1>7
    DEF GetError, MaxReached, UpdateError, Set, Inv, TypeOK, Calls, Running
  <2> QED
    BY <1>4, <2>1
<1>8. CASE Get(w)
  BY <1>1, <1>5, <1>8 DEF Get, Set, Inv, TypeOK, Calls
<1>9. ASSUME NEW acked \in BOOLEAN, Commit(w, acked)
      PROVE  Requests(d) < Requests(c) /\ d.at # "idle"
  <2>1. AfterWrite(w, acked) \in {"ok", "failed"}
    BY DEF AfterWrite
  <2>2. c.at \in Running /\ d.at = AfterWrite(w, acked)
    BY <1>1, <1>9 DEF Commit, Calls, Running
  <2> QED
    BY <1>4, <2>1, <2>2
<1>10. CASE Conflict(w)
  <2>1. c.at = "update" /\ d = AfterConflict(c)
    BY <1>10 DEF Conflict, Set, Inv, TypeOK
  <2>2. CASE c.attempt = Steps
    <3>1. d.at = "conflicted"
      BY <1>1, <2>1, <2>2 DEF AfterConflict, Calls
    <3> QED
      BY <1>4, <2>1, <3>1 DEF Running
  <2>3. CASE c.attempt # Steps
    <3>1. d.at \in Running /\ d.attempt = c.attempt + 1
      BY <1>1, <2>1, <2>3 DEF AfterConflict, Calls, Running
    <3> QED
      BY <1>6, <2>1, <3>1
  <2> QED
    BY <2>2, <2>3
<1> QED
  BY <1>7, <1>8, <1>9, <1>10 DEF Answer

(* An answer to somebody else's request.                                   *)
LEMMA AnswerOthers ==
  ASSUME TypeOK, NEW x \in Watchers, Answer(x), NEW w \in Watchers, x # w
  PROVE  Requests(call'[w]) = Requests(call[w])
<1>1. \/ \E c : Set(x, c)
      \/ \E acked \in BOOLEAN : Commit(x, acked)
  BY DEF Answer, GetError, Get, MaxReached, Conflict, UpdateError
<1>2. call'[w] = call[w] \/ call'[w] = Overtaken(call[w])
  BY <1>1 DEF Set, Commit, TypeOK
<1> QED
  BY <1>2, OvertakenRequests DEF TypeOK

(* What a step that is not the answer to its request does to a call.       *)
LEMMA OthersRequests ==
  ASSUME Inv, Next, NEW w \in Watchers, call[w].at \in Running, ~Answer(w)
  PROVE  Requests(call'[w]) = Requests(call[w])
<1>1. ASSUME NEW x \in Watchers,
             \/ \E op \in {"inc", "dec"} : Begin(x, op)
             \/ \E fresh \in BOOLEAN : BeginApply(x, fresh)
             \/ Return(x)
      PROVE  call'[w] = call[w]
  <2>1. call[x].at \notin Running
    BY <1>1 DEF Begin, BeginApply, Return, Running
  <2>2. \E c : Set(x, c)
    BY <1>1 DEF Begin, BeginApply, Return
  <2> QED
    BY <2>1, <2>2 DEF Set, Inv, TypeOK
<1>2. ASSUME NEW x \in Watchers, Answer(x)
      PROVE  Requests(call'[w]) = Requests(call[w])
  BY <1>2, AnswerOthers DEF Inv
<1>3. CASE Cluster
  <2>1. call'[w] = Overtaken(call[w])
    BY <1>3 DEF Cluster, OutsideEdit, OutsideDelete, OutsideCreate,
                OutsideWrite
  <2> QED
    BY <2>1, OvertakenRequests DEF Inv, TypeOK
<1> QED
  BY <1>1, <1>2, <1>3 DEF Next

(* A call returns after 2 * Steps requests at the most, however many        *)
(* others write the object in the meantime.                                *)
THEOREM RequestsRunOutAlways == Spec => []RequestsBounded /\ RequestsRunOut
<1>1. Inv => RequestsBounded
  BY RequestsType DEF RequestsBounded, Inv, TypeOK
<1>2. Inv /\ [Next]_vars =>
        [\A w \in Watchers :
           call[w].at \in Running =>
             IF Answer(w) THEN Requests(call'[w]) < Requests(call[w])
                          ELSE Requests(call'[w]) = Requests(call[w])]_vars
  BY AnswerRequests, OthersRequests
<1> QED
  BY <1>1, <1>2, Invariance, PTL DEF Spec, RequestsRunOut

=============================================================================
