------------------------------ MODULE WorkPool -------------------------------
(***************************************************************************)
(* pkg/workpool and the one caller it has: farmingMetrics of hub/mysql.go  *)
(* makes a pool, offers it NumJobs jobs, waits for them and releases it.   *)
(*                                                                         *)
(* The goroutines are the workers, the dispatcher and the caller.  A       *)
(* channel without a buffer is a step of its two ends together, a channel  *)
(* with one is a sequence.  What a job does (query, write to a channel of  *)
(* the aggregator, perhaps send an error) is one step.                     *)
(***************************************************************************)
EXTENDS Integers, Sequences, FiniteSets

CONSTANTS
  Workers,    \* the workers that newDispatcher starts
  NumJobs,    \* how many jobs the caller has
  QueueLen,   \* jobQueueLen
  None        \* no worker

ASSUME PoolAssumption ==
  /\ IsFiniteSet(Workers)
  /\ Workers # {}
  /\ NumJobs \in Nat
  /\ QueueLen \in Nat \ {0}
  /\ None \notin Workers

Jobs == 1..NumJobs

VARIABLES
  caller,      \* caller.next is the next job to offer
  wg,          \* the counter of Pool.wg
  JobQueue,    \* jobs
  workerPool,  \* workers that wait for work
  dispatcher,  \* the dispatcher with the job and the worker in its hands;
               \* togo: the workers it has yet to stop
  worker       \* worker[w]: where w is, and with which job

vars == <<caller, wg, JobQueue, workerPool, dispatcher, worker>>

CallerType == [at : {"count", "offer", "wait", "release", "released", "returned"},
               next : 1..NumJobs + 1]
DispatcherType == [at : {"select", "take", "hand", "gather", "stop", "stopped",
                         "gone"},
                   job : 0..NumJobs, worker : Workers \cup {None},
                   togo : 0..Cardinality(Workers)]
WorkerType == [at : {"offer", "select", "job", "done", "stopped", "gone"},
               job : 0..NumJobs]

(* NewPool *)
Init ==
  /\ caller = [at |-> "count", next |-> 1]
  /\ wg = 0
  /\ JobQueue = <<>>
  /\ workerPool = <<>>
  /\ dispatcher = [at |-> "select", job |-> 0, worker |-> None,
                   togo |-> Cardinality(Workers)]
  /\ worker = [w \in Workers |-> [at |-> "offer", job |-> 0]]

-----------------------------------------------------------------------------
(* The caller *)

WaitCount ==
  /\ caller.at = "count"
  /\ wg' = wg + NumJobs
  /\ caller' = [caller EXCEPT !.at = "offer"]
  /\ UNCHANGED <<JobQueue, workerPool, dispatcher, worker>>

(* lightpool.JobQueue <- job *)
Offer ==
  /\ caller.at = "offer"
  /\ caller.next \in Jobs
  /\ Len(JobQueue) < QueueLen
  /\ JobQueue' = Append(JobQueue, caller.next)
  /\ caller' = [caller EXCEPT !.next = @ + 1]
  /\ UNCHANGED <<wg, workerPool, dispatcher, worker>>

Offered ==
  /\ caller.at = "offer"
  /\ caller.next \notin Jobs
  /\ caller' = [caller EXCEPT !.at = "wait"]
  /\ UNCHANGED <<wg, JobQueue, workerPool, dispatcher, worker>>

WaitAll ==
  /\ caller.at = "wait"
  /\ wg = 0
  /\ caller' = [caller EXCEPT !.at = "release"]
  /\ UNCHANGED <<wg, JobQueue, workerPool, dispatcher, worker>>

(* The first line of Release meets the select of dispatch. *)
Release ==
  /\ caller.at = "release"
  /\ dispatcher.at = "select"
  /\ caller' = [caller EXCEPT !.at = "released"]
  /\ dispatcher' = [dispatcher EXCEPT !.at = "gather"]
  /\ UNCHANGED <<wg, JobQueue, workerPool, worker>>

EarlyAckMutant ==
  /\ caller.at = "released"
  /\ dispatcher.at = "gather"
  /\ caller' = [caller EXCEPT !.at = "returned"]
  /\ dispatcher' = [dispatcher EXCEPT !.at = "gone"]
  /\ UNCHANGED <<wg, JobQueue, workerPool, worker>>

(* The last line of Release meets the last one of dispatch. *)
Released ==
  /\ caller.at = "released"
  /\ dispatcher.at = "gather"
  /\ dispatcher.togo = 0
  /\ caller' = [caller EXCEPT !.at = "returned"]
  /\ dispatcher' = [dispatcher EXCEPT !.at = "gone"]
  /\ UNCHANGED <<wg, JobQueue, workerPool, worker>>

Caller == WaitCount \/ Offer \/ Offered \/ WaitAll \/ Release \/ Released

-----------------------------------------------------------------------------
(* The dispatcher *)

DispatcherAt(at, job, w, togo) ==
  dispatcher' = [at |-> at, job |-> job, worker |-> w, togo |-> togo]

TakeJob ==
  /\ dispatcher.at = "select"
  /\ JobQueue # <<>>
  /\ DispatcherAt("take", Head(JobQueue), None, dispatcher.togo)
  /\ JobQueue' = Tail(JobQueue)
  /\ UNCHANGED <<caller, wg, workerPool, worker>>

TakeWorker ==
  /\ workerPool # <<>>
  /\ \/ /\ dispatcher.at = "take"
        /\ DispatcherAt("hand", dispatcher.job, Head(workerPool), dispatcher.togo)
     \/ /\ dispatcher.at = "gather"
        /\ dispatcher.togo > 0
        /\ DispatcherAt("stop", 0, Head(workerPool), dispatcher.togo)
  /\ workerPool' = Tail(workerPool)
  /\ UNCHANGED <<caller, wg, JobQueue, worker>>

(* worker.jobChannel <- job *)
Hand(w) ==
  /\ dispatcher.at = "hand"
  /\ dispatcher.worker = w
  /\ worker[w].at = "select"
  /\ worker' = [worker EXCEPT ![w] = [at |-> "job", job |-> dispatcher.job]]
  /\ DispatcherAt("select", 0, None, dispatcher.togo)
  /\ UNCHANGED <<caller, wg, JobQueue, workerPool>>

(* worker.stop <- struct{}{} *)
Stop(w) ==
  /\ dispatcher.at = "stop"
  /\ dispatcher.worker = w
  /\ worker[w].at = "select"
  /\ worker' = [worker EXCEPT ![w].at = "stopped"]
  /\ dispatcher' = [dispatcher EXCEPT !.at = "stopped"]
  /\ UNCHANGED <<caller, wg, JobQueue, workerPool>>

(* <-worker.stop *)
Stopped(w) ==
  /\ dispatcher.at = "stopped"
  /\ dispatcher.worker = w
  /\ worker[w].at = "stopped"
  /\ worker' = [worker EXCEPT ![w].at = "gone"]
  /\ DispatcherAt("gather", 0, None, dispatcher.togo - 1)
  /\ UNCHANGED <<caller, wg, JobQueue, workerPool>>

Dispatch ==
  \/ TakeJob
  \/ TakeWorker
  \/ \E w \in Workers : Hand(w) \/ Stop(w) \/ Stopped(w)

-----------------------------------------------------------------------------
(* A worker *)

(* w.workerPool <- w *)
Enlist(w) ==
  /\ worker[w].at = "offer"
  /\ Len(workerPool) < Cardinality(Workers)
  /\ workerPool' = Append(workerPool, w)
  /\ worker' = [worker EXCEPT ![w].at = "select"]
  /\ UNCHANGED <<caller, wg, JobQueue, dispatcher>>

(* job(), up to its deferred JobDone. *)
DoJob(w) ==
  /\ worker[w].at = "job"
  /\ worker' = [worker EXCEPT ![w].at = "done"]
  /\ UNCHANGED <<caller, wg, JobQueue, workerPool, dispatcher>>

SkipDoneMutant(w) ==
  /\ worker[w].at = "done"
  /\ worker' = [worker EXCEPT ![w] = [at |-> "offer", job |-> 0]]
  /\ UNCHANGED <<caller, wg, JobQueue, workerPool, dispatcher>>

DoneTwiceMutant(w) ==
  /\ worker[w].at = "done"
  /\ wg' = wg - 2
  /\ worker' = [worker EXCEPT ![w] = [at |-> "offer", job |-> 0]]
  /\ UNCHANGED <<caller, JobQueue, workerPool, dispatcher>>

EnlistOnceMutant(w) ==
  /\ worker[w].at = "done"
  /\ wg' = wg - 1
  /\ worker' = [worker EXCEPT ![w] = [at |-> "select", job |-> 0]]
  /\ UNCHANGED <<caller, JobQueue, workerPool, dispatcher>>

JobDone(w) ==
  /\ worker[w].at = "done"
  /\ wg' = wg - 1
  /\ worker' = [worker EXCEPT ![w] = [at |-> "offer", job |-> 0]]
  /\ UNCHANGED <<caller, JobQueue, workerPool, dispatcher>>

Work(w) == Enlist(w) \/ DoJob(w) \/ JobDone(w)

(* farmingMetrics has returned and every goroutine of its pool has ended. *)
Over ==
  /\ caller.at = "returned"
  /\ UNCHANGED vars

Next == Caller \/ Dispatch \/ (\E w \in Workers : Work(w)) \/ Over

Spec == Init /\ [][Next]_vars

(* Every goroutine runs, and a job ends: its query is answered and what it *)
(* sends is received.                                                      *)
FairSpec ==
  /\ Spec
  /\ WF_vars(Caller)
  /\ WF_vars(Dispatch)
  /\ \A w \in Workers : WF_vars(Work(w))

-----------------------------------------------------------------------------
(* Properties *)

TypeOK ==
  /\ caller \in CallerType
  /\ wg \in 0..NumJobs
  /\ JobQueue \in Seq(Jobs)
  /\ workerPool \in Seq(Workers)
  /\ dispatcher \in DispatcherType
  /\ worker \in [Workers -> WorkerType]

Queued == {JobQueue[i] : i \in DOMAIN JobQueue}
Held == IF dispatcher.at \in {"take", "hand"} THEN {dispatcher.job} ELSE {}
At(w, place) == worker[w].at = place
JobsAt(place) == {worker[w].job : w \in {x \in Workers : At(x, place)}}

(* The jobs whose body has not run. *)
Left == caller.next..NumJobs \cup Queued \cup Held \cup JobsAt("job")

(* The jobs that JobDone has not been called for. *)
Open == Left \cup JobsAt("done")

(* Pool.wg counts the jobs that have not called JobDone, from WaitCount    *)
(* on: a job is never lost between the queue, the dispatcher and a worker, *)
(* nor in two of them.                                                     *)
Counted == caller.at # "count" => wg = Cardinality(Open)

(* A worker is in the channel workerPool exactly while nobody else knows   *)
(* that it waits, and there once: the dispatcher finds the worker it takes *)
(* in its select, so that neither a job nor a stop goes to a busy worker,  *)
(* and there is always room for the workers that come back.                *)
ReadyExact ==
  /\ \A i, j \in DOMAIN workerPool : workerPool[i] = workerPool[j] => i = j
  /\ \A w \in Workers :
       (\E i \in DOMAIN workerPool : workerPool[i] = w) <=>
         worker[w].at = "select" /\ dispatcher.worker # w

(* Once Release has been called no job is left in the queue, in the        *)
(* dispatcher or in a worker: dispatch drops none.                         *)
NothingDropped ==
  caller.at \in {"release", "released", "returned"} => Open = {}

(* Who can go on.  Nobody waits for itself: the caller for room in the     *)
(* queue, for the count or for the dispatcher; the dispatcher for a job, a *)
(* worker or the caller; a worker with nothing to do for the dispatcher.   *)
CallerMoves ==
  \/ caller.at = "count"
  \/ caller.at = "offer" /\ (caller.next \in Jobs => Len(JobQueue) < QueueLen)
  \/ caller.at = "wait" /\ wg = 0
  \/ caller.at = "release" /\ dispatcher.at = "select"
  \/ caller.at = "released" /\ dispatcher.at = "gather" /\ dispatcher.togo = 0

DispatcherMoves ==
  \/ dispatcher.at = "select" /\ JobQueue # <<>>
  \/ dispatcher.at = "take" /\ workerPool # <<>>
  \/ dispatcher.at = "gather" /\ dispatcher.togo > 0 /\ workerPool # <<>>
  \/ /\ dispatcher.at \in {"hand", "stop"}
     /\ \E w \in Workers : dispatcher.worker = w /\ At(w, "select")
  \/ /\ dispatcher.at = "stopped"
     /\ \E w \in Workers : dispatcher.worker = w /\ At(w, "stopped")

WorkerMoves(w) ==
  \/ At(w, "offer") /\ Len(workerPool) < Cardinality(Workers)
  \/ At(w, "job") \/ At(w, "done")

(* The caller, the dispatcher and the workers never all wait for each      *)
(* other, whatever the length of the queue: until Release has returned one *)
(* of them can go on.                                                      *)
NeverStuck ==
  caller.at # "returned" =>
    CallerMoves \/ DispatcherMoves \/ \E w \in Workers : WorkerMoves(w)

(* A worker that comes back never waits for room in the channel.           *)
RoomForAll ==
  \A w \in Workers : At(w, "offer") => Len(workerPool) < Cardinality(Workers)

(* The steps that are still to come: five of the caller, seven for a job   *)
(* that has not been offered (Offer, TakeJob, TakeWorker, Hand, DoJob,     *)
(* JobDone, Enlist) and fewer for one on its way, one for a worker that    *)
(* has yet to enlist and three to stop each.                               *)
CallerSteps == CASE caller.at = "count"    -> 5
                 [] caller.at = "offer"    -> 4
                 [] caller.at = "wait"     -> 3
                 [] caller.at = "release"  -> 2
                 [] caller.at = "released" -> 1
                 [] OTHER                  -> 0

DispatcherSteps == CASE dispatcher.at = "take"    -> 5
                     [] dispatcher.at = "hand"    -> 4
                     [] dispatcher.at = "stop"    -> -1
                     [] dispatcher.at = "stopped" -> -2
                     [] OTHER                     -> 0

Many(places) == Cardinality({w \in Workers : worker[w].at \in places})

WorkerSteps ==
  Many({"job"}) + Many({"job", "done"}) + Many({"job", "done", "offer"})

StepsLeft ==
  CallerSteps + 7 * (NumJobs + 1 - caller.next) + 6 * Len(JobQueue)
    + DispatcherSteps + 3 * dispatcher.togo + WorkerSteps

(* Every step of a batch is one of a fixed number: however the goroutines  *)
(* interleave, no step is taken in vain and none twice.                    *)
StepsCounted == [][StepsLeft' = StepsLeft - 1]_vars

AllSteps == 7 * NumJobs + 4 * Cardinality(Workers) + 5

(* So a batch takes AllSteps steps at the most, and has returned when it   *)
(* has taken them.                                                         *)
StepsBounded ==
  StepsLeft \in 0..AllSteps /\ (StepsLeft = 0 => caller.at = "returned")

Batch == INSTANCE JobBatch WITH
  left <- Left,
  alive <- {w \in Workers : worker[w].at # "gone"},
  returned <- caller.at = "returned"

(* The pool does each job of its caller exactly once, stops no worker      *)
(* before all are done and is gone when Release returns.                   *)
BatchSpec == Batch!Spec

(* farmingMetrics returns, so that the next tick of monitoring is taken.   *)
Returns == <>(caller.at = "returned")
=============================================================================
