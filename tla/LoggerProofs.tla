----------------------------- MODULE LoggerProofs ----------------------------
(***************************************************************************)
(* Proofs about Logger for any number of goroutines, any finite set of     *)
(* keys and any levels.                                                    *)
(***************************************************************************)
EXTENDS Logger, FiniteSetTheorems, TLAPS

-----------------------------------------------------------------------------
(* The inductive invariant *)

(* What a call has with it at each place, when the level is l and there    *)
(* are n children.  The history of a call that is not decided yet covers   *)
(* the level as it is, and a call that goes on has been admitted once.     *)
Sound(r, l, n, alive) ==
  /\ r.at \in {"clone", "add"} <=> r.key \in Keys
  /\ r.at = "index" => r.n \in 1..n
  /\ r.at \in {"print", "write"} => r.yes /\ (~Admits(l, r.lv) => r.no)
  /\ r.at = "end" /\ alive =>
       /\ IF r.printed THEN r.yes ELSE r.no
       /\ r.lv = FatalLevel => ~r.yes

Inv ==
  /\ TypeOK
  /\ OrderExact
  /\ \A c \in Callers : Sound(call[c], level, Count, up)

-----------------------------------------------------------------------------
LEMMA CountNat == ASSUME TypeOK PROVE IsFiniteSet(Known) /\ Count \in Nat
  BY LoggerAssumption, FS_Subset, FS_CardinalityType
  DEF TypeOK, Count, LoggerAssumption

(* The number of children after an addition. *)
LEMMA CountAdds ==
  ASSUME TypeOK, NEW c \in Callers, Adds(c)
  PROVE  /\ Known' = Known \cup {call[c].key}
         /\ Count' = IF call[c].key \in Known THEN Count ELSE Count + 1
  <1>1. Items' = With(Items, call[c].key, c)
    BY DEF Adds
  <1>2. Known' = Known \cup {call[c].key}
    BY <1>1 DEF Known, With
  <1> QED
    BY <1>2, CountNat, FS_AddElement DEF Count

-----------------------------------------------------------------------------
(* The steps of a call: each moves one call, to a sound place *)

(* Call c goes on as v, and the level is not touched; nobody takes up a    *)
(* key that is known.                                                      *)
Moves(c, v) ==
  /\ call' = [call EXCEPT ![c] = v]
  /\ v \in CallType
  /\ Sound(v, level, Count', up')
  /\ level' = level
  /\ v.key \in Keys => v.key = call[c].key \/ v.key \notin Known

LEMMA IdleSound ==
  ASSUME NEW l, NEW n, NEW alive
  PROVE  Idle \in CallType /\ Sound(Idle, l, n, alive)
  BY LoggerAssumption
  DEF LoggerAssumption, Idle, CallType, Sound, Levels, DisableLevel

LEMMA CountKept == ASSUME UNCHANGED Items PROVE Count' = Count
  BY DEF Count, Known

LEMMA IdleFields ==
  /\ Idle.at = "idle" /\ Idle.key = <<>> /\ Idle.lv = DisableLevel
  /\ Idle.yes = FALSE /\ Idle.no = FALSE /\ Idle.printed = FALSE
  BY DEF Idle

LEMMA MissesMoves ==
  ASSUME NEW c \in Callers, NEW k \in Keys, Misses(c, k)
  PROVE  \E v : Moves(c, v)
  <1> DEFINE u == [Idle EXCEPT !.at = "clone"]
             v == [u EXCEPT !.key = k]
  <1>1. call' = [call EXCEPT ![c] = v] /\ level' = level /\ k \notin Known
    BY DEF Misses
  <1>2. u \in CallType /\ u.at = "clone"
    BY IdleSound DEF CallType
  <1> HIDE DEF u
  <1>3. v \in CallType /\ v.at = "clone" /\ v.key = k
    BY <1>2 DEF CallType
  <1> HIDE DEF v
  <1>4. Sound(v, level, Count', up')
    BY <1>3 DEF Sound
  <1> QED
    BY <1>1, <1>3, <1>4 DEF Moves

LEMMA CloneMoves ==
  ASSUME Inv, NEW c \in Callers, Clone(c)
  PROVE  \E v : Moves(c, v)
  <1> DEFINE v == [call[c] EXCEPT !.at = "add"]
  <1>1. call[c] \in CallType /\ call[c].at = "clone"
        /\ Sound(call[c], level, Count, up)
    BY DEF Inv, TypeOK, Clone, At
  <1>2. call' = [call EXCEPT ![c] = v] /\ level' = level
    BY DEF Clone
  <1>3. v \in CallType /\ v.key = call[c].key
    BY <1>1 DEF CallType
  <1>4. Sound(v, level, Count', up')
    BY <1>1 DEF Sound, CallType
  <1> QED
    BY <1>2, <1>3, <1>4 DEF Moves

LEMMA ReturnsMoves ==
  ASSUME NEW c \in Callers, Adds(c) \/ GetByIndex(c) \/ LogReturns(c)
  PROVE  \E v : Moves(c, v)
  <1>1. call' = [call EXCEPT ![c] = Idle] /\ level' = level
    BY DEF Adds, GetByIndex, LogReturns, Returns
  <1> QED
    BY <1>1, IdleSound, IdleFields, LoggerAssumption
    DEF Moves, LoggerAssumption

LEMMA CountsMoves ==
  ASSUME Inv, NEW c \in Callers, Counts(c)
  PROVE  \E v : Moves(c, v)
  <1> DEFINE u == [Idle EXCEPT !.at = "index"]
             v == [u EXCEPT !.n = Count]
  <1>1. call' = [call EXCEPT ![c] = v] /\ level' = level
    BY DEF Counts
  <1>2. Count \in Nat /\ Count > 0 /\ Count' = Count
    BY CountNat, CountKept DEF Inv, Counts
  <1>3. u \in CallType /\ u.at = "index" /\ u.key = <<>>
    BY IdleSound, IdleFields DEF CallType
  <1> HIDE DEF u
  <1>4. v \in CallType /\ v.at = "index" /\ v.key = <<>> /\ v.n = Count
    BY <1>2, <1>3 DEF CallType
  <1> HIDE DEF v
  <1>5. Sound(v, level, Count', up')
    BY <1>2, <1>4, LoggerAssumption DEF Sound, LoggerAssumption
  <1> QED
    BY <1>1, <1>4, <1>5, LoggerAssumption DEF Moves, LoggerAssumption

LEMMA BeginsMoves ==
  ASSUME Inv, NEW c \in Callers, NEW lv \in Levels,
         \/ Log(c, lv)
         \/ lv = DisableLevel /\ PrintPlain(c)
  PROVE  \E v : Moves(c, v)
  <1>1. PICK place \in {"print", "end"} :
          /\ Begins(c, lv, place)
          /\ place = "print" <=> Admits(level, lv)
    BY DEF Log, PrintPlain, Admits, Inv, TypeOK, Levels, DisableLevel
  <1> DEFINE u == [Idle EXCEPT !.at = place]
             w == [u EXCEPT !.lv = lv]
             x == [w EXCEPT !.yes = Admits(level, lv)]
             v == [x EXCEPT !.no = ~Admits(level, lv)]
  <1>2. call' = [call EXCEPT ![c] = v] /\ level' = level
    BY <1>1 DEF Begins
  <1>3. u \in CallType /\ u.at = place /\ u.key = <<>> /\ u.printed = FALSE
    BY IdleSound, IdleFields DEF CallType
  <1> HIDE DEF u
  <1>4. /\ w \in CallType /\ w.at = place /\ w.key = <<>>
        /\ w.printed = FALSE /\ w.lv = lv
    BY <1>3 DEF CallType
  <1> HIDE DEF w
  <1>5. /\ x \in CallType /\ x.at = place /\ x.key = <<>>
        /\ x.printed = FALSE /\ x.lv = lv /\ x.yes = Admits(level, lv)
    <2>1. Admits(level, lv) \in BOOLEAN
      BY DEF Admits
    <2> QED
      BY <1>4, <2>1 DEF CallType
  <1> HIDE DEF x
  <1>6. /\ v \in CallType /\ v.at = place /\ v.key = <<>>
        /\ v.printed = FALSE /\ v.lv = lv /\ v.yes = Admits(level, lv)
        /\ v.no = ~Admits(level, lv)
    <2>1. (~Admits(level, lv)) \in BOOLEAN
      BY DEF Admits
    <2> QED
      BY <1>5, <2>1 DEF CallType
  <1> HIDE DEF v
  <1>7. Sound(v, level, Count', up')
    BY <1>1, <1>6, LoggerAssumption DEF Sound, LoggerAssumption
  <1> QED
    BY <1>2, <1>6, <1>7, LoggerAssumption DEF Moves, LoggerAssumption

LEMMA AdmittedMoves ==
  ASSUME Inv, NEW c \in Callers, Admitted(c)
  PROVE  \E v : Moves(c, v)
  <1> DEFINE v == [call[c] EXCEPT !.at = "write"]
  <1>1. call[c] \in CallType /\ call[c].at = "print"
        /\ Sound(call[c], level, Count, up)
    BY DEF Inv, TypeOK, Admitted, At
  <1>2. call' = [call EXCEPT ![c] = v] /\ level' = level
    BY DEF Admitted
  <1>3. v \in CallType /\ v.key = call[c].key
    BY <1>1 DEF CallType
  <1>4. Sound(v, level, Count', up')
    BY <1>1 DEF Sound, CallType
  <1> QED
    BY <1>2, <1>3, <1>4 DEF Moves

LEMMA PrintEndsMoves ==
  ASSUME Inv, NEW c \in Callers, Refused(c) \/ Writes(c)
  PROVE  \E v : Moves(c, v)
  <1>1. PICK printed \in BOOLEAN :
          /\ PrintEnds(c, printed)
          /\ call[c].at \in {"print", "write"}
          /\ ~printed => ~Admits(level, call[c].lv)
    BY DEF Refused, Writes, At
  <1>2. call[c] \in CallType /\ Sound(call[c], level, Count, up)
    BY DEF Inv, TypeOK
  <1> DEFINE u == [call[c] EXCEPT !.at = "end"]
             v == [u EXCEPT !.printed = printed]
  <1>3. /\ call' = [call EXCEPT ![c] = v]
        /\ level' = level
        /\ up' = (call[c].lv # FatalLevel)
    BY <1>1 DEF PrintEnds
  <1>4. u \in CallType
    BY <1>2 DEF CallType
  <1>5. /\ u.at = "end" /\ u.key = call[c].key /\ u.lv = call[c].lv
        /\ u.yes = call[c].yes /\ u.no = call[c].no
    BY <1>2 DEF CallType
  <1> HIDE DEF u
  <1>6. v \in CallType
    BY <1>1, <1>4 DEF CallType
  <1>7. /\ v.at = "end" /\ v.key = call[c].key /\ v.lv = call[c].lv
        /\ v.yes = call[c].yes /\ v.no = call[c].no /\ v.printed = printed
    BY <1>4, <1>5 DEF CallType
  <1> HIDE DEF v
  <1>8. Sound(v, level, Count', up')
    BY <1>1, <1>2, <1>3, <1>7 DEF Sound
  <1> QED
    BY <1>3, <1>6, <1>7, <1>8 DEF Moves

-----------------------------------------------------------------------------
(* All steps *)

(* A step is one of a call or a SetLevel. *)
LEMMA StepCases ==
  ASSUME Inv, Next
  PROVE  \/ \E name \in Names : SetLevel(name)
         \/ \E c \in Callers : \E v : Moves(c, v)
  <1>1. ASSUME NEW c \in Callers, Children(c) \/ Prints(c)
        PROVE  \E v : Moves(c, v)
    <2>1. Logged \subseteq Levels /\ DisableLevel \in Levels
      BY LoggerAssumption DEF LoggerAssumption, Levels, DisableLevel
    <2> QED
      BY <1>1, <2>1, MissesMoves, CloneMoves, ReturnsMoves, CountsMoves,
         BeginsMoves, AdmittedMoves, PrintEndsMoves
      DEF Children, Prints
  <1> QED
    BY <1>1 DEF Next

LEMMA ParseLevelType ==
  ASSUME NEW name
  PROVE  ParseLevel(name) \in Levels
  BY DEF ParseLevel, Levels, DisableLevel, FatalLevel, ErrorLevel, WarnLevel,
         InfoLevel, DebugLevel

(* SetLevel changes the history of a call to match its new level. *)
LEMMA SetLevelCalls ==
  ASSUME Inv, NEW name, SetLevel(name)
  PROVE  /\ call' \in [Callers -> CallType]
         /\ \A c \in Callers : Sound(call'[c], level', Count', up')
         /\ level' \in Levels
  <1>1. level' \in Levels
    BY ParseLevelType DEF SetLevel
  <1>2. Count' = Count /\ up' = up /\ up
    BY CountKept DEF SetLevel
  <1>3. ASSUME NEW c \in Callers
        PROVE  call'[c] \in CallType /\ Sound(call'[c], level', Count', up')
    <2>1. call[c] \in CallType /\ Sound(call[c], level, Count, up)
      BY DEF Inv, TypeOK
    <2>2. CASE call[c].at \in {"print", "write"}
      <3> DEFINE yes == call[c].yes \/ Admits(level', call[c].lv)
                 no == call[c].no \/ ~Admits(level', call[c].lv)
                 u == [call[c] EXCEPT !.yes = yes]
                 v == [u EXCEPT !.no = no]
      <3>1. call'[c] = v
        BY <2>2 DEF SetLevel
      <3>2. /\ yes \in BOOLEAN /\ no \in BOOLEAN
            /\ call[c].yes => yes
            /\ ~Admits(level', call[c].lv) => no
        BY <2>1 DEF Admits, CallType
      <3> HIDE DEF yes, no
      <3>3. /\ u \in CallType /\ u.at = call[c].at /\ u.key = call[c].key
            /\ u.lv = call[c].lv /\ u.yes = yes
        BY <2>1, <3>2 DEF CallType
      <3> HIDE DEF u
      <3>4. /\ v \in CallType /\ v.at = call[c].at /\ v.key = call[c].key
            /\ v.lv = call[c].lv /\ v.yes = yes /\ v.no = no
        BY <3>2, <3>3 DEF CallType
      <3> HIDE DEF v
      <3> QED
        BY <1>2, <2>1, <2>2, <3>1, <3>2, <3>4 DEF Sound
    <2>3. CASE call[c].at \notin {"print", "write"}
      <3>1. call'[c] = call[c]
        BY <2>3 DEF SetLevel
      <3> QED
        BY <1>2, <2>1, <2>3, <3>1 DEF Sound
    <2> QED
      BY <2>2, <2>3
  <1>4. call' = [c \in Callers |-> call'[c]]
    BY DEF SetLevel
  <1> QED
    BY <1>1, <1>3, <1>4

(* What a step does to the children. *)
LEMMA ChildrenStep ==
  ASSUME Inv, [Next]_vars
  PROVE  \/ UNCHANGED <<Items, ordered>>
         \/ \E c \in Callers : Adds(c)
  BY DEF Next, Children, Prints, SetLevel, Misses, Clone, Counts, GetByIndex,
         Log, PrintPlain, Begins, Admitted, Refused, Writes, PrintEnds, LogReturns,
         vars

LEMMA RegistryStep ==
  ASSUME Inv, [Next]_vars
  PROVE  /\ Known' \subseteq Keys
         /\ Items' \in [Known' -> Callers]
         /\ DOMAIN ordered' \subseteq Nat
         /\ ordered' \in [DOMAIN ordered' -> Keys]
         /\ OrderExact'
         /\ Count \in Nat /\ Count' \in Nat /\ Count <= Count'
  <1>1. CASE UNCHANGED <<Items, ordered>>
    <2>1. Known' = Known /\ Count' = Count
      BY <1>1, CountKept DEF Known
    <2>2. Count \in Nat
      BY CountNat DEF Inv
    <2> QED
      BY <1>1, <2>1, <2>2 DEF Inv, TypeOK, OrderExact
  <1>2. ASSUME NEW c \in Callers, Adds(c)
        PROVE  /\ Known' \subseteq Keys
               /\ Items' \in [Known' -> Callers]
               /\ DOMAIN ordered' \subseteq Nat
               /\ ordered' \in [DOMAIN ordered' -> Keys]
               /\ OrderExact'
               /\ Count \in Nat /\ Count' \in Nat /\ Count <= Count'
    <2> DEFINE k == call[c].key
    <2>1. k \in Keys
      BY <1>2 DEF Inv, Sound, Adds, At
    <2>2. /\ Known' = Known \cup {k}
          /\ k \in Known => Count' = Count
          /\ k \notin Known => Count' = Count + 1
          /\ Count \in Nat
      BY <1>2, CountAdds, CountNat DEF Inv
    <2>3. Items' = With(Items, k, c) /\ ordered' = With(ordered, Count, k)
      BY <1>2 DEF Adds
    <2>4. /\ Known \subseteq Keys
          /\ Items \in [Known -> Callers]
          /\ DOMAIN ordered \subseteq Nat
          /\ ordered \in [DOMAIN ordered -> Keys]
          /\ 0..Count - 1 \subseteq DOMAIN ordered
          /\ {ordered[i] : i \in 0..Count - 1} = Known
      BY DEF Inv, TypeOK, OrderExact
    <2> HIDE DEF k
    <2>5. Items' \in [Known' -> Callers]
      BY <2>2, <2>3, <2>4 DEF With, Known
    <2>6. /\ DOMAIN ordered' = DOMAIN ordered \cup {Count}
          /\ ordered'[Count] = k
          /\ \A i \in 0..Count - 1 : ordered'[i] = ordered[i]
          /\ ordered' \in [DOMAIN ordered' -> Keys]
      <3>1. DOMAIN ordered' = DOMAIN ordered \cup {Count}
        BY <2>3 DEF With
      <3>2. ordered' \in [DOMAIN ordered' -> Keys]
        BY <2>1, <2>3, <2>4 DEF With
      <3>3. \A i \in 0..Count - 1 : i # Count
        BY <2>2
      <3>4. ordered'[Count] = k
        BY <2>3 DEF With
      <3>5. \A i \in DOMAIN ordered : i # Count => ordered'[i] = ordered[i]
        BY <2>3 DEF With
      <3> QED
        BY <2>4, <3>1, <3>2, <3>3, <3>4, <3>5
    <2>7. OrderExact'
      <3>1. CASE k \in Known
        <4>1. Count' = Count
          BY <2>2, <3>1
        <4>2. {ordered'[i] : i \in 0..Count - 1}
                = {ordered[i] : i \in 0..Count - 1}
          BY <2>6
        <4>3. Known' = Known
          BY <2>2, <3>1
        <4> QED
          BY <2>4, <2>6, <4>1, <4>2, <4>3 DEF OrderExact
      <3>2. CASE k \notin Known
        <4>1. Count' = Count + 1
          BY <2>2, <3>2
        <4>2. 0..(Count' - 1) = (0..Count - 1) \cup {Count}
          BY <2>2, <4>1
        <4>3. {ordered'[i] : i \in 0..Count' - 1}
                = {ordered[i] : i \in 0..Count - 1} \cup {k}
          BY <2>6, <4>2
        <4>4. 0..Count' - 1 \subseteq DOMAIN ordered'
          BY <2>4, <2>6, <4>2
        <4> QED
          BY <2>2, <2>4, <4>3, <4>4 DEF OrderExact
      <3> QED
        BY <3>1, <3>2
    <2> QED
      BY <2>1, <2>2, <2>4, <2>5, <2>6, <2>7
  <1> QED
    BY <1>1, <1>2, ChildrenStep

LEMMA LevelsType == InfoLevel \in Levels /\ DisableLevel \in Levels
  BY DEF Levels, InfoLevel, DisableLevel

LEMMA InvInit == Init => Inv
  <1> SUFFICES ASSUME Init PROVE Inv
    OBVIOUS
  <1>1. Known = {} /\ DOMAIN ordered = {}
    BY DEF Init, Known
  <1>2. Count = 0
    BY <1>1, FS_EmptySet DEF Count
  <1>3. TypeOK
    BY <1>1, LevelsType, IdleSound DEF Init, TypeOK
  <1>4. OrderExact
    BY <1>1, <1>2 DEF OrderExact
  <1>5. \A c \in Callers : Sound(call[c], level, Count, up)
    BY IdleSound DEF Init
  <1> QED
    BY <1>3, <1>4, <1>5 DEF Inv

LEMMA InvStep == Inv /\ [Next]_vars => Inv'
  <1> SUFFICES ASSUME Inv, [Next]_vars PROVE Inv'
    OBVIOUS
  <1>1. ASSUME NEW name, SetLevel(name) PROVE Inv'
    BY <1>1, RegistryStep, SetLevelCalls DEF Inv, TypeOK, SetLevel
  <1>2. ASSUME Next, NEW c \in Callers, NEW v, Moves(c, v) PROVE Inv'
    <2>1. up /\ up' \in BOOLEAN
      BY <1>2 DEF Next, Children, Prints, SetLevel, Misses, Clone, Adds,
         Counts, GetByIndex, Log, PrintPlain, Begins, Admitted, Refused, Writes,
         PrintEnds, LogReturns, At
    <2>2. /\ call' \in [Callers -> CallType]
          /\ call'[c] = v
          /\ \A d \in Callers : d # c => call'[d] = call[d]
      BY <1>2 DEF Moves, Inv, TypeOK
    <2>3. ASSUME NEW d \in Callers PROVE Sound(call'[d], level', Count', up')
      <3>1. CASE d = c
        BY <1>2, <2>2, <3>1 DEF Moves
      <3>2. CASE d # c
        <4>1. call'[d] = call[d] /\ level' = level
              /\ Sound(call[d], level, Count, up)
          BY <1>2, <2>2, <3>2 DEF Moves, Inv
        <4>2. 1..Count \subseteq 1..Count'
          BY RegistryStep
        <4> QED
          BY <2>1, <4>1, <4>2 DEF Sound
      <3> QED
        BY <3>1, <3>2
    <2>4. level' \in Levels
      BY <1>2 DEF Moves, Inv, TypeOK
    <2> QED
      BY <2>1, <2>2, <2>3, <2>4, RegistryStep DEF Inv, TypeOK
  <1>3. CASE UNCHANGED vars
    <2>1. Count' = Count /\ Known' = Known
      BY <1>3, CountKept DEF vars, Known
    <2> QED
      BY <1>3, <2>1 DEF vars, Inv, TypeOK, OrderExact
  <1> QED
    BY <1>1, <1>2, <1>3, StepCases

LEMMA Invariance == Spec => []Inv
  BY InvInit, InvStep, PTL DEF Spec

-----------------------------------------------------------------------------
(* Theorems *)

(* Everything keeps its type, in the presence of racing additions, level   *)
(* changes and an exit in their midst.                                     *)
THEOREM TypeCorrect == Spec => []TypeOK
  BY Invariance, PTL DEF Inv

(* The first indices name each registered child exactly once, whoever adds *)
(* what how often.                                                         *)
THEOREM OrderExactAlways == Spec => []OrderExact
  BY Invariance, PTL DEF Inv

(* LastChild's two critical sections give it a registered child.           *)
THEOREM LastKnownAlways == Spec => []LastKnown
  <1>1. Inv => LastKnown
    <2> SUFFICES ASSUME Inv, NEW c \in Callers, call[c].at = "index"
                 PROVE  /\ call[c].n - 1 \in DOMAIN ordered
                        /\ ordered[call[c].n - 1] \in Known
      BY DEF LastKnown
    <2>1. call[c].n \in 1..Count /\ Count \in Nat
      BY CountNat DEF Inv, Sound
    <2>2. call[c].n - 1 \in 0..Count - 1
      BY <2>1
    <2> QED
      BY <2>2 DEF Inv, OrderExact
  <1> QED
    BY <1>1, Invariance, PTL

(* A call prints, or stays silent, only by a level there has been since it *)
(* began.                                                                  *)
THEOREM LevelRespectedAlways == Spec => []LevelRespected
  <1>1. Inv => LevelRespected
    BY DEF Inv, LevelRespected, Sound, At
  <1> QED
    BY <1>1, Invariance, PTL

(* A child that nobody is adding any more is never replaced.               *)
THEOREM SettlesAlways == Spec => Settles
  <1>1. ASSUME Inv, Next, NEW k \in Keys, Settled(k)
        PROVE  Settled(k)' /\ Items'[k] = Items[k]
    <2>1. k \in Known /\ \A c \in Callers : call[c].key # k
      BY <1>1 DEF Settled
    <2>2. k \in Known' /\ Items'[k] = Items[k]
      <3>1. CASE UNCHANGED <<Items, ordered>>
        BY <2>1, <3>1 DEF Known
      <3>2. ASSUME NEW c \in Callers, Adds(c)
            PROVE  k \in Known' /\ Items'[k] = Items[k]
        <4>1. Items' = With(Items, call[c].key, c) /\ call[c].key # k
          BY <2>1, <3>2 DEF Adds
        <4> QED
          BY <2>1, <4>1 DEF Known, With
      <3> QED
        BY <1>1, <3>1, <3>2, ChildrenStep
    <2>3. ASSUME NEW c \in Callers PROVE call'[c].key # k
      <3>1. call[c].key # k /\ call[c] \in CallType
        BY <1>1, <2>1 DEF Inv, TypeOK
      <3>2. ASSUME NEW name, SetLevel(name) PROVE call'[c].key = call[c].key
        BY <3>1, <3>2 DEF SetLevel, CallType
      <3>3. ASSUME NEW d \in Callers, NEW v, Moves(d, v)
            PROVE  call'[c].key # k
        <4>1. /\ call' = [call EXCEPT ![d] = v]
              /\ call \in [Callers -> CallType]
              /\ v.key = call[d].key \/ v.key # k
          BY <1>1, <2>1, <3>3 DEF Moves, Inv, TypeOK
        <4> QED
          BY <2>1, <4>1
      <3> QED
        BY <1>1, <3>1, <3>2, <3>3, StepCases
    <2> QED
      BY <2>2, <2>3 DEF Settled
  <1>2. Inv /\ [Next]_vars =>
          [\A k \in Keys : Settled(k) => Settled(k)' /\ Items'[k] = Items[k]]_vars
    BY <1>1
  <1> QED
    BY <1>2, Invariance, PTL DEF Spec, Settles
=============================================================================
