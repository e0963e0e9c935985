------------------------------- MODULE Logger --------------------------------
(***************************************************************************)
(* One Logger of pkg/log, used by several goroutines at a time: its level, *)
(* which SetLevel writes under the logger's lock and a log call reads      *)
(* twice without it, and its map of children, which Child looks up and     *)
(* fills in two critical sections.                                         *)
(*                                                                         *)
(* A critical section is one step.  Prefixes, fields, handlers, formatters *)
(* and outputs change what a line looks like and where it goes; the Log    *)
(* record of a call is the call's own from acquireLog to releaseLog.       *)
(***************************************************************************)
EXTENDS Naturals, FiniteSets

CONSTANTS
  Callers,   \* the goroutines that use the logger
  Keys,      \* what Child is called with
  Logged,    \* the levels that are logged at
  Names      \* what SetLevel is called with

(* The levels, in the order of level.go. *)
DisableLevel == 0
FatalLevel == 1
ErrorLevel == 2
WarnLevel == 3
InfoLevel == 4
DebugLevel == 5
Levels == 0..5

ASSUME LoggerAssumption ==
  /\ IsFiniteSet(Keys)
  /\ <<>> \notin Keys
  /\ Logged \subseteq Levels \ {DisableLevel}

VARIABLES
  up,       \* no call of Fatal has ended the process
  level,    \* Logger.Level
  Items,    \* Items[k]: who made the child that is registered as k
  ordered,  \* itemsOrdered[i]: the key of the child with index i
  call      \* call[c]: the call c is in

vars == <<up, level, Items, ordered, call>>

(* key: of Child; n: how many children LastChild has counted; lv: of Log.  *)
(* yes, no: history, since the call began the level has been one at which  *)
(* lv is printed, one at which it is not; printed: the call has printed.   *)
CallType == [at : {"idle", "clone", "add", "index", "print", "write", "end"},
             key : Keys \cup {<<>>}, n : Nat, lv : Levels,
             yes : BOOLEAN, no : BOOLEAN, printed : BOOLEAN]

Idle == [at |-> "idle", key |-> <<>>, n |-> 0, lv |-> DisableLevel,
         yes |-> FALSE, no |-> FALSE, printed |-> FALSE]

(* New, which newLoggerMap gives no children *)
Init ==
  /\ up = TRUE
  /\ level = InfoLevel
  /\ Items = <<>>
  /\ ordered = <<>>
  /\ call = [c \in Callers |-> Idle]

Known == DOMAIN Items
Count == Cardinality(Known)

At(c, place) == up /\ call[c].at = place

Returns(c) == call' = [call EXCEPT ![c] = Idle]

(* The function f with x mapped to v. *)
With(f, x, v) ==
  [y \in DOMAIN f \cup {x} |-> IF y = x THEN v ELSE f[y]]

-----------------------------------------------------------------------------
(* Child: a key that is known is answered with Items[key], without a trace *)

BlindMutant(c, k) ==
  /\ At(c, "idle")
  /\ call' = [call EXCEPT ![c] = [Idle EXCEPT !.at = "clone", !.key = k]]
  /\ UNCHANGED <<up, level, Items, ordered>>

Misses(c, k) ==
  /\ At(c, "idle")
  /\ k \notin Known
  /\ call' = [call EXCEPT ![c] = [Idle EXCEPT !.at = "clone", !.key = k]]
  /\ UNCHANGED <<up, level, Items, ordered>>

(* A logger with the fields of the parent, and the key in its prefix; so   *)
(* far nobody else knows it.                                               *)
Clone(c) ==
  /\ At(c, "clone")
  /\ call' = [call EXCEPT ![c].at = "add"]
  /\ UNCHANGED <<up, level, Items, ordered>>

(* The index is that of the entry that follows the last one. *)
NextFreeMutant(c) ==
  /\ At(c, "add")
  /\ ordered' = With(ordered, Cardinality(DOMAIN ordered), call[c].key)
  /\ Items' = With(Items, call[c].key, c)
  /\ Returns(c)
  /\ UNCHANGED <<up, level>>

LastIndexMutant(c) ==
  /\ At(c, "add")
  /\ ordered' = With(ordered, Count - 1, call[c].key)
  /\ Items' = With(Items, call[c].key, c)
  /\ Returns(c)
  /\ UNCHANGED <<up, level>>

Adds(c) ==
  /\ At(c, "add")
  /\ ordered' = With(ordered, Count, call[c].key)
  /\ Items' = With(Items, call[c].key, c)
  /\ Returns(c)
  /\ UNCHANGED <<up, level>>

-----------------------------------------------------------------------------
(* LastChild, which is nil when there is no child *)

OffByOneMutant(c) ==
  /\ At(c, "idle")
  /\ Count > 0
  /\ call' = [call EXCEPT ![c] = [Idle EXCEPT !.at = "index", !.n = Count + 1]]
  /\ UNCHANGED <<up, level, Items, ordered>>

Counts(c) ==
  /\ At(c, "idle")
  /\ Count > 0
  /\ call' = [call EXCEPT ![c] = [Idle EXCEPT !.at = "index", !.n = Count]]
  /\ UNCHANGED <<up, level, Items, ordered>>

GetByIndex(c) ==
  /\ At(c, "index")
  /\ Returns(c)
  /\ UNCHANGED <<up, level, Items, ordered>>

Children(c) ==
  \/ \E k \in Keys : Misses(c, k)
  \/ Clone(c) \/ Adds(c) \/ Counts(c) \/ GetByIndex(c)

-----------------------------------------------------------------------------
(* Levels: a line is printed at its level and at all that come later *)

Admits(l, lv) == l >= lv

(* A name nobody knows, in lower case as all are compared, is "disable".   *)
ParseLevel(name) ==
  LET known == [disable |-> DisableLevel, disabled |-> DisableLevel,
                fatal |-> FatalLevel, error |-> ErrorLevel,
                warn |-> WarnLevel, warning |-> WarnLevel,
                info |-> InfoLevel, debug |-> DebugLevel]
  IN IF name \in DOMAIN known THEN known[name] ELSE DisableLevel

(* SetLevel; the calls that are not decided yet take note. *)
SetLevel(name) ==
  LET l == ParseLevel(name) IN
  /\ up
  /\ level' = l
  /\ call' = [c \in Callers |->
                IF call[c].at \in {"print", "write"}
                THEN [call[c] EXCEPT !.yes = @ \/ Admits(l, call[c].lv),
                                     !.no = @ \/ ~Admits(l, call[c].lv)]
                ELSE call[c]]
  /\ UNCHANGED <<up, Items, ordered>>

Begins(c, lv, place) ==
  /\ At(c, "idle")
  /\ call' = [call EXCEPT ![c] =
                [Idle EXCEPT !.at = place, !.lv = lv,
                             !.yes = Admits(level, lv),
                             !.no = ~Admits(level, lv)]]
  /\ UNCHANGED <<up, level, Items, ordered>>

SwappedMutant(c, lv) ==
  Begins(c, lv, IF Admits(lv, level) THEN "print" ELSE "end")

(* Log, Logf and all that call them, Fatal too. *)
Log(c, lv) ==
  Begins(c, lv, IF Admits(level, lv) THEN "print" ELSE "end")

(* Print, Printf and Println ask for no level. *)
PrintPlain(c) == Begins(c, DisableLevel, "print")

(* print: the level is looked at again. *)
Admitted(c) ==
  /\ At(c, "print")
  /\ Admits(level, call[c].lv)
  /\ call' = [call EXCEPT ![c].at = "write"]
  /\ UNCHANGED <<up, level, Items, ordered>>

(* The process ends with a call of Fatal that has got this far. *)
PrintEnds(c, printed) ==
  /\ up' = (call[c].lv # FatalLevel)
  /\ call' = [call EXCEPT ![c] = [@ EXCEPT !.at = "end",
                                          !.printed = printed]]
  /\ UNCHANGED <<level, Items, ordered>>

Refused(c) ==
  /\ At(c, "print")
  /\ ~Admits(level, call[c].lv)
  /\ PrintEnds(c, FALSE)

(* One line of output, under the lock of the logger. *)
Writes(c) == At(c, "write") /\ PrintEnds(c, TRUE)

LogReturns(c) ==
  /\ At(c, "end")
  /\ Returns(c)
  /\ UNCHANGED <<up, level, Items, ordered>>

Prints(c) ==
  \/ \E lv \in Logged : Log(c, lv)
  \/ PrintPlain(c) \/ Admitted(c) \/ Refused(c) \/ Writes(c) \/ LogReturns(c)

-----------------------------------------------------------------------------
Next ==
  \/ \E name \in Names : SetLevel(name)
  \/ \E c \in Callers : Children(c) \/ Prints(c)

Spec == Init /\ [][Next]_vars

-----------------------------------------------------------------------------
(* Properties *)

TypeOK ==
  /\ up \in BOOLEAN
  /\ level \in Levels
  /\ Known \subseteq Keys
  /\ Items \in [Known -> Callers]
  /\ DOMAIN ordered \subseteq Nat
  /\ ordered \in [DOMAIN ordered -> Keys]
  /\ call \in [Callers -> CallType]

(* The indices below the number of children name each child exactly once,  *)
(* although a key may be added twice by two callers that have both missed  *)
(* it: what the second writes lies above them, and the next new key        *)
(* overwrites it.                                                          *)
OrderExact ==
  /\ 0..Count - 1 \subseteq DOMAIN ordered
  /\ {ordered[i] : i \in 0..Count - 1} = Known

(* LastChild counts under one lock and reads under another: the index it   *)
(* has counted names a registered child whatever is added meanwhile, so    *)
(* that nil is returned only if there was no child.                        *)
LastKnown ==
  \A c \in Callers : call[c].at = "index" =>
    call[c].n - 1 \in DOMAIN ordered /\ ordered[call[c].n - 1] \in Known

(* Nobody is between his look-up of k and his addition of it.              *)
Settled(k) ==
  k \in Known /\ \A c \in Callers : call[c].key # k

(* Callers that miss a key at the same time may each make a child, and all *)
(* but the last are replaced.  But once it is registered and they are      *)
(* gone, everybody gets the same child and it is never replaced again.     *)
Settles ==
  [][\A k \in Keys : Settled(k) => Settled(k)' /\ Items'[k] = Items[k]]_vars

(* However SetLevel races with it, a call prints only if the level has     *)
(* been one that admits it since it began, and stays silent only if it has *)
(* been one that does not.                                                 *)
LevelRespected ==
  \A c \in Callers : At(c, "end") =>
    IF call[c].printed THEN call[c].yes ELSE call[c].no
=============================================================================
