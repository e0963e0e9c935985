---------------------------- MODULE ReplicaScale ----------------------------
(***************************************************************************)
(* The calls with which a watcher changes the Deployment it watches, and   *)
(* the object they race for in the API server.                             *)
(*                                                                         *)
(*   increaseReplica   Get, refuse at the ceiling, add one, Update         *)
(*   decreaseReplica   Get, take one away, Update                          *)
(*   resourcesApply    Update with the object the pass read long before    *)
(*                                                                         *)
(* each inside retry.RetryOnConflict, which runs the function again, up to *)
(* Steps times, when the Update came back as a conflict, and hands every   *)
(* other error straight to the caller.  The API server accepts an Update   *)
(* only when nobody has written the object since the caller read it.  Its  *)
(* resourceVersion is used for nothing else, so the model keeps, for each  *)
(* call, whether its copy is still `fresh'; no version number is counted,  *)
(* and no bound on the number of writes is needed.                         *)
(***************************************************************************)
EXTENDS Integers

CONSTANTS
  Watchers,   \* the watch goroutines pointed at this object
  Outside,    \* everybody else: kubectl, other controllers
  Ceiling,    \* the literal 10 of increaseReplica
  Edits,      \* the counts somebody outside may set
  Steps       \* retry.DefaultRetry.Steps: how often the function is run

ASSUME ScaleAssumption ==
  /\ Outside \notin Watchers
  /\ Ceiling \in Nat
  /\ Edits \subseteq Nat
  /\ Steps \in Nat \ {0}

VARIABLES
  obj,        \* the object: whether it exists, spec.replicas, last writer
  call        \* call[w]: the call watcher w has under way

vars == <<obj, call>>

Ops == {"none", "inc", "dec", "apply"}

(* Where a call is: about to Get, about to Update, or back with nil        *)
(* ("ok"), with the last conflict, or with any other error ("failed").     *)
Places == {"idle", "get", "update", "ok", "conflicted", "failed"}
Running == {"get", "update"}

Objects == [exists : BOOLEAN, replicas : Nat, by : Watchers \cup {Outside}]

(* `attempt' counts the runs of the retried function, `replicas' is the    *)
(* count about to be written and `fresh' says that the API server would    *)
(* still take it.  `foreign' and `wrote' are history: the writes by others *)
(* since the call began (no further than Steps) and the writes of the call *)
(* itself that took effect.                                                *)
Calls == [op : Ops, at : Places, attempt : 0..Steps, replicas : Int,
          fresh : BOOLEAN, foreign : 0..Steps, wrote : Nat]

NoCall == [op |-> "none", at |-> "idle", attempt |-> 0, replicas |-> 0,
           fresh |-> FALSE, foreign |-> 0, wrote |-> 0]

Delta(op) == CASE op = "inc" -> 1 [] op = "dec" -> -1 [] OTHER -> 0

Init ==
  /\ obj \in [exists : BOOLEAN, replicas : Edits, by : {Outside}]
  /\ call = [w \in Watchers |-> NoCall]

-----------------------------------------------------------------------------
(* The calls *)

Set(w, c) == call' = [call EXCEPT ![w] = c]

(* Somebody has written the object: the copy of every call is out of date. *)
Overtaken(c) ==
  IF c.at \in Running
  THEN [c EXCEPT !.fresh = FALSE,
                 !.foreign = IF @ < Steps THEN @ + 1 ELSE Steps]
  ELSE c

Begin(w, op) ==
  /\ call[w].at = "idle"
  /\ op \in {"inc", "dec"}
  /\ Set(w, [NoCall EXCEPT !.op = op, !.at = "get", !.attempt = 1])
  /\ UNCHANGED obj

(* resourcesApply is handed the object that exists() returned when the     *)
(* pass began; whether that copy is out of date by now is open.  What a    *)
(* stale copy holds is of no consequence: it is never accepted.            *)
BeginApply(w, fresh) ==
  /\ call[w].at = "idle"
  /\ fresh => obj.exists
  /\ Set(w, [NoCall EXCEPT !.op = "apply", !.at = "update", !.attempt = 1,
                           !.replicas = obj.replicas, !.fresh = fresh,
                           !.foreign = IF fresh THEN 0 ELSE 1])
  /\ UNCHANGED obj

GetError(w) ==
  /\ call[w].at = "get"
  /\ Set(w, [call[w] EXCEPT !.at = "failed"])
  /\ UNCHANGED obj

CeilingMutant(w) ==
  call[w].op = "inc" => obj.replicas <= Ceiling

BelowCeiling(w) ==
  call[w].op = "inc" => obj.replicas < Ceiling

Get(w) ==
  /\ call[w].at = "get"
  /\ obj.exists
  /\ BelowCeiling(w)
  /\ Set(w, [call[w] EXCEPT !.at = "update", !.fresh = TRUE,
                            !.replicas = obj.replicas + Delta(call[w].op)])
  /\ UNCHANGED obj

(* createError.New("Max replicas reached") *)
MaxReached(w) ==
  /\ call[w].at = "get"
  /\ obj.exists
  /\ ~BelowCeiling(w)
  /\ Set(w, [call[w] EXCEPT !.at = "failed"])
  /\ UNCHANGED obj

AcceptedMutant(c) ==
  /\ obj.exists
  /\ c.replicas >= 0

(* What the API server requires of an Update: the object is there, nobody  *)
(* wrote it since the copy was read, and a count is not negative.          *)
Accepted(c) ==
  /\ obj.exists
  /\ c.fresh
  /\ c.replicas >= 0

RetryAnyErrorMutant(w, acked) ==
  IF acked THEN "ok" ELSE IF call[w].attempt < Steps THEN "get" ELSE "failed"

(* The Update took effect; its answer may still be lost on the way, and    *)
(* then the call fails at once, for only a conflict is retried.            *)
AfterWrite(w, acked) == IF acked THEN "ok" ELSE "failed"

Commit(w, acked) ==
  /\ call[w].at = "update"
  /\ Accepted(call[w])
  /\ obj' = [obj EXCEPT !.replicas = call[w].replicas, !.by = w]
  /\ call' = [x \in Watchers |->
                IF x = w
                THEN [call[w] EXCEPT !.at = AfterWrite(w, acked),
                                     !.wrote = @ + 1]
                ELSE Overtaken(call[x])]

RetryForeverMutant(c) ==
  [c EXCEPT !.at = IF c.op = "apply" THEN "update" ELSE "get"]

RetryWithoutGetMutant(c) ==
  IF c.attempt = Steps
  THEN [c EXCEPT !.at = "conflicted"]
  ELSE [c EXCEPT !.attempt = @ + 1, !.at = "update"]

OneMoreAttemptMutant(c) ==
  IF c.attempt > Steps
  THEN [c EXCEPT !.at = "conflicted"]
  ELSE [c EXCEPT !.attempt = @ + 1,
                 !.at = IF c.op = "apply" THEN "update" ELSE "get"]

(* RetryOnConflict after a conflict: run the function again, from its Get  *)
(* when it has one, or return the conflict after the last attempt.         *)
AfterConflict(c) ==
  IF c.attempt = Steps
  THEN [c EXCEPT !.at = "conflicted"]
  ELSE [c EXCEPT !.attempt = @ + 1,
                 !.at = IF c.op = "apply" THEN "update" ELSE "get"]

Conflict(w) ==
  /\ call[w].at = "update"
  /\ obj.exists
  /\ ~call[w].fresh
  /\ Set(w, AfterConflict(call[w]))
  /\ UNCHANGED obj

(* Not found, invalid, unreachable: any answer that is not a conflict. *)
UpdateError(w) ==
  /\ call[w].at = "update"
  /\ Set(w, [call[w] EXCEPT !.at = "failed"])
  /\ UNCHANGED obj

(* The caller takes the result and goes on. *)
Return(w) ==
  /\ call[w].at \in {"ok", "conflicted", "failed"}
  /\ Set(w, NoCall)
  /\ UNCHANGED obj

(* What the API server or the network answers to the request under way. *)
Answer(w) ==
  \/ GetError(w)
  \/ Get(w)
  \/ MaxReached(w)
  \/ \E acked \in BOOLEAN : Commit(w, acked)
  \/ Conflict(w)
  \/ UpdateError(w)

-----------------------------------------------------------------------------
(* The rest of the cluster *)

OutsideWrite(o) ==
  /\ obj' = o
  /\ call' = [w \in Watchers |-> Overtaken(call[w])]

(* An edit, or a write that leaves the count alone (a status update). *)
OutsideEdit(n) ==
  /\ obj.exists
  /\ OutsideWrite([obj EXCEPT !.replicas = n, !.by = Outside])

OutsideDelete ==
  /\ obj.exists
  /\ OutsideWrite([obj EXCEPT !.exists = FALSE, !.by = Outside])

OutsideCreate(n) ==
  /\ ~obj.exists
  /\ OutsideWrite([exists |-> TRUE, replicas |-> n, by |-> Outside])

Cluster ==
  \/ \E n \in Edits \cup {obj.replicas} : OutsideEdit(n)
  \/ OutsideDelete
  \/ \E n \in Edits : OutsideCreate(n)

Next ==
  \/ \E w \in Watchers :
       \/ \E op \in {"inc", "dec"} : Begin(w, op)
       \/ \E fresh \in BOOLEAN : BeginApply(w, fresh)
       \/ Answer(w)
       \/ Return(w)
  \/ Cluster

Spec == Init /\ [][Next]_vars

(* client-go returns from every request, with an answer or an error. *)
Fairness == \A w \in Watchers : WF_vars(Answer(w))
FairSpec == Spec /\ Fairness

-----------------------------------------------------------------------------
(* Properties *)

TypeOK ==
  /\ obj \in Objects
  /\ call \in [Watchers -> Calls]

(* A copy the API server would still accept differs from the object by     *)
(* exactly the change the call wants: no accepted Update can carry a count *)
(* computed from anything but the present one.                             *)
Coherent ==
  \A w \in Watchers :
    call[w].at = "update" /\ call[w].fresh =>
      /\ obj.exists
      /\ call[w].replicas = obj.replicas + Delta(call[w].op)
      /\ call[w].op = "inc" => obj.replicas < Ceiling

(* A call changes the object at most once, exactly once when it returned   *)
(* nil, and not at all while it may still try again: the retries and a     *)
(* lost answer never add up to two replicas.                               *)
WrittenOnce ==
  \A w \in Watchers :
    /\ call[w].wrote <= 1
    /\ call[w].at = "ok" => call[w].wrote = 1
    /\ call[w].at \in Running \cup {"conflicted"} => call[w].wrote = 0

(* increaseReplica and decreaseReplica give up with a conflict only after  *)
(* Steps writes by others, one for each attempt: contention never makes    *)
(* them fail while nobody else gets anything done.  resourcesApply, which  *)
(* does not read the object again, needs a single one.                     *)
ConflictEarned ==
  \A w \in Watchers :
    call[w].at = "conflicted" =>
      call[w].foreign >= (IF call[w].op = "apply" THEN 1 ELSE Steps)

Counter == INSTANCE ReplicaCounter WITH
             exists <- obj.exists, replicas <- obj.replicas, by <- obj.by

(* Whatever the interleaving of the watchers' requests, lost answers and   *)
(* edits from outside, every change of the object is one step of the       *)
(* atomic counter: nobody's write is lost, no watcher passes the ceiling.  *)
CounterSpec == Counter!Spec

(* The requests that call c has yet to send at the most, the one whose     *)
(* answer it waits for included: a Get and an Update for each attempt.     *)
Requests(c) == CASE c.at = "get"    -> 2 * (Steps - c.attempt) + 2
                 [] c.at = "update" -> 2 * (Steps - c.attempt) + 1
                 [] OTHER           -> 0

RequestsBounded ==
  \A w \in Watchers : /\ Requests(call[w]) \in 0..2 * Steps
                      /\ Requests(call[w]) = 0 <=> call[w].at \notin Running

(* Each answer brings a call nearer to its end and nobody else's write     *)
(* takes it back: however the object is contended, RetryOnConflict returns *)
(* after 2 * Steps requests.                                               *)
RequestsRunOut ==
  [][\A w \in Watchers :
       call[w].at \in Running =>
         IF Answer(w) THEN Requests(call'[w]) < Requests(call[w])
                      ELSE Requests(call'[w]) = Requests(call[w])]_vars

(* A call under way returns to its caller. *)
CallReturns ==
  \A w \in Watchers :
    call[w].at \in Running ~> call[w].at \in Places \ Running
=============================================================================
