--------------------------- MODULE WorkPoolProofs ----------------------------
(***************************************************************************)
(* Proofs about WorkPool for any number of workers, any number of jobs and *)
(* any length of the queue.                                                *)
(***************************************************************************)
EXTENDS WorkPool, FiniteSetTheorems, TLAPS

-----------------------------------------------------------------------------
(* The inductive invariant *)

Types ==
  /\ caller \in CallerType
  /\ wg \in Int
  /\ JobQueue \in Seq(Jobs)
  /\ workerPool \in Seq(Workers)
  /\ dispatcher \in DispatcherType
  /\ worker \in [Workers -> WorkerType]

(* The first job that has not been taken out of the queue. *)
Low == caller.next - Len(JobQueue)

(* The queue holds the last jobs that were offered, in their order. *)
InOrder ==
  /\ Low >= 1
  /\ \A i \in DOMAIN JobQueue : JobQueue[i] = Low + i - 1

Busy(w) == At(w, "job") \/ At(w, "done")
Holding == dispatcher.at \in {"take", "hand"}

(* A job that left the queue is with the dispatcher or with one worker. *)
Apart ==
  /\ Holding => dispatcher.job \in 1..Low - 1
  /\ \A w \in Workers :
       Busy(w) => /\ worker[w].job \in 1..Low - 1
                  /\ Holding => worker[w].job # dispatcher.job
  /\ \A v, w \in Workers :
       Busy(v) /\ Busy(w) /\ worker[v].job = worker[w].job => v = w

Stage ==
  /\ caller.at = "count" => /\ caller.next = 1 /\ JobQueue = <<>> /\ ~Holding
                            /\ \A w \in Workers : ~Busy(w)
                            /\ wg = 0
  /\ caller.at \notin {"count", "offer"} => caller.next = NumJobs + 1
  /\ caller.at \in {"release", "released", "returned"} => Open = {}
  /\ dispatcher.at \in {"gather", "stop", "stopped"} <=> caller.at = "released"
  /\ dispatcher.at = "gone" <=> caller.at = "returned"

Alive == {w \in Workers : ~At(w, "gone")}

(* The dispatcher and the workers it stops. *)
TakingDown ==
  /\ dispatcher.at \in {"select", "take", "hand"} => Alive = Workers
  /\ dispatcher.at # "gone" => dispatcher.togo = Cardinality(Alive)
  /\ dispatcher.at = "gone" => Alive = {}
  /\ \A w \in Workers :
       At(w, "stopped") <=> dispatcher.at = "stopped" /\ dispatcher.worker = w

Ready ==
  /\ dispatcher.worker # None <=> dispatcher.at \in {"hand", "stop", "stopped"}
  /\ \A w \in Workers :
       dispatcher.at \in {"hand", "stop"} /\ dispatcher.worker = w =>
         At(w, "select")
  /\ ReadyExact
-----------------------------------------------------------------------------
(* Types *)

LEMMA SizeType == Cardinality(Workers) \in Nat
  BY PoolAssumption, FS_CardinalityType DEF PoolAssumption

LEMMA InitTypes == Init => Types
  BY SizeType, PoolAssumption
  DEF PoolAssumption, Init, Types, CallerType, DispatcherType, WorkerType, Jobs

LEMMA DispatcherAtType ==
  ASSUME NEW at \in {"select", "take", "hand", "gather", "stop", "stopped",
                     "gone"},
         NEW job \in 0..NumJobs, NEW w \in Workers \cup {None},
         NEW togo \in 0..Cardinality(Workers), DispatcherAt(at, job, w, togo)
  PROVE  dispatcher' \in DispatcherType
  BY DEF DispatcherAt, DispatcherType

LEMMA CallerTypes == Types /\ Caller => Types'
<1> SUFFICES ASSUME Types, Caller
             PROVE  Types'
  OBVIOUS
<1> USE DEF Types, CallerType
<1>0. NumJobs \in Nat
  BY PoolAssumption DEF PoolAssumption
<1>1. CASE WaitCount
  BY <1>0, <1>1 DEF WaitCount
<1>2. CASE Offer
  <2>1. caller' \in CallerType
    BY <1>0, <1>2 DEF Offer, Jobs
  <2>2. JobQueue' \in Seq(Jobs)
    BY <1>2 DEF Offer
  <2> QED
    BY <1>2, <2>1, <2>2 DEF Offer
<1>3. CASE Offered \/ WaitAll
  BY <1>3 DEF Offered, WaitAll
<1>4. CASE Release \/ Released
  <2>1. dispatcher' \in DispatcherType
    BY <1>4 DEF Release, Released, DispatcherType
  <2> QED
    BY <1>4, <2>1 DEF Release, Released
<1> QED
  BY <1>1, <1>2, <1>3, <1>4 DEF Caller

LEMMA DispatchTypes == TakingDown /\ Types /\ Dispatch => Types'
<1> SUFFICES ASSUME TakingDown, Types, Dispatch
             PROVE  Types'
  OBVIOUS
<1> USE DEF Types
<1>0. /\ NumJobs \in Nat
      /\ dispatcher.job \in 0..NumJobs
      /\ 0 \in 0..NumJobs
      /\ dispatcher.togo \in 0..Cardinality(Workers)
      /\ Cardinality(Workers) \in Nat
  BY PoolAssumption, SizeType DEF PoolAssumption, DispatcherType
<1>1. CASE TakeJob
  <2>1. Head(JobQueue) \in 0..NumJobs /\ JobQueue' \in Seq(Jobs)
    BY <1>0, <1>1 DEF TakeJob, Jobs
  <2>2. dispatcher' \in DispatcherType
    BY <1>0, <1>1, <2>1, DispatcherAtType DEF TakeJob
  <2> QED
    BY <1>1, <2>1, <2>2 DEF TakeJob
<1>2. CASE TakeWorker
  <2>1. Head(workerPool) \in Workers /\ workerPool' \in Seq(Workers)
    BY <1>2 DEF TakeWorker
  <2>2. dispatcher' \in DispatcherType
    BY <1>0, <1>2, <2>1, DispatcherAtType DEF TakeWorker
  <2> QED
    BY <1>2, <2>1, <2>2 DEF TakeWorker
<1>3. ASSUME NEW w \in Workers, Hand(w)
      PROVE  Types'
  <2>1. dispatcher' \in DispatcherType
    BY <1>0, <1>3, DispatcherAtType DEF Hand
  <2>2. [at |-> "job", job |-> dispatcher.job] \in WorkerType
    BY <1>0 DEF WorkerType
  <2> QED
    BY <1>3, <2>1, <2>2 DEF Hand
<1>4. ASSUME NEW w \in Workers, Stop(w)
      PROVE  Types'
  <2>1. dispatcher' \in DispatcherType /\ worker' \in [Workers -> WorkerType]
    BY <1>4, ZenonT(60) DEF Stop, DispatcherType, WorkerType
  <2> QED
    BY <1>4, <2>1 DEF Stop
<1>5. ASSUME NEW w \in Workers, Stopped(w)
      PROVE  Types'
  <2>1. dispatcher.togo # 0
    <3>1. w \in Alive /\ IsFiniteSet(Alive)
      BY <1>5, PoolAssumption, FS_Subset
      DEF PoolAssumption, Stopped, Alive, At
    <3>2. Cardinality(Alive) # 0
      BY <3>1, FS_EmptySet
    <3> QED
      BY <1>5, <3>2 DEF TakingDown, Stopped
  <2>2. dispatcher.togo - 1 \in 0..Cardinality(Workers)
    BY <1>0, <2>1
  <2>3. dispatcher' \in DispatcherType
    BY <1>0, <1>5, <2>2, DispatcherAtType DEF Stopped
  <2>4. worker' \in [Workers -> WorkerType]
    BY <1>5, ZenonT(60) DEF Stopped, WorkerType
  <2> QED
    BY <1>5, <2>3, <2>4 DEF Stopped
<1> QED
  BY <1>1, <1>2, <1>3, <1>4, <1>5 DEF Dispatch

LEMMA WorkTypes ==
  ASSUME Types, NEW w \in Workers, Work(w)
  PROVE  Types'
<1> USE DEF Types
<1>1. CASE Enlist(w)
  <2>1. workerPool' \in Seq(Workers)
    BY <1>1 DEF Enlist
  <2>2. worker' \in [Workers -> WorkerType]
    BY <1>1 DEF Enlist, WorkerType
  <2> QED
    BY <1>1, <2>1, <2>2 DEF Enlist
<1>2. CASE DoJob(w)
  BY <1>2 DEF DoJob, WorkerType
<1>3. CASE JobDone(w)
  <2>1. [at |-> "offer", job |-> 0] \in WorkerType
    BY PoolAssumption DEF PoolAssumption, WorkerType
  <2> QED
    BY <1>3, <2>1 DEF JobDone
<1> QED
  BY <1>1, <1>2, <1>3 DEF Work

LEMMA StepTypes == TakingDown /\ Types /\ [Next]_vars => Types'
  BY CallerTypes, DispatchTypes, WorkTypes DEF Next, Over, vars, Types
-----------------------------------------------------------------------------
(* Where the jobs are *)

LEMMA LowType ==
  ASSUME Types, InOrder
  PROVE  /\ Low \in 1..NumJobs + 1
         /\ Len(JobQueue) \in Nat
         /\ caller.next \in 1..NumJobs + 1
         /\ NumJobs \in Nat
         /\ Low <= caller.next
<1>1. NumJobs \in Nat /\ Len(JobQueue) \in Nat /\ caller.next \in 1..NumJobs + 1
  BY PoolAssumption DEF PoolAssumption, Types, CallerType
<1> QED
  BY <1>1 DEF InOrder, Low

(* The queue and what is still to be offered are the jobs from Low on. *)
LEMMA QueuedRange ==
  ASSUME Types, InOrder
  PROVE  caller.next..NumJobs \cup Queued = Low..NumJobs
<1>1. /\ Low \in 1..NumJobs + 1 /\ NumJobs \in Nat
      /\ Len(JobQueue) \in Nat /\ caller.next \in 1..NumJobs + 1
      /\ caller.next = Low + Len(JobQueue)
  BY LowType DEF Low
<1>2. DOMAIN JobQueue = 1..Len(JobQueue)
  BY DEF Types
<1>3. \A i \in 1..Len(JobQueue) : JobQueue[i] = Low + i - 1
  BY <1>2 DEF InOrder
<1> HIDE DEF Low
<1>4. ASSUME NEW j \in Low..NumJobs
      PROVE  j \in caller.next..NumJobs \cup Queued
  <2>1. CASE j < caller.next
    <3>1. j - Low + 1 \in 1..Len(JobQueue)
      BY <1>1, <2>1
    <3>2. JobQueue[j - Low + 1] = j
      BY <1>1, <1>3, <3>1
    <3> QED
      BY <1>2, <3>1, <3>2 DEF Queued
  <2> QED
    BY <1>1, <2>1
<1>5. ASSUME NEW j \in Queued
      PROVE  j \in Low..NumJobs
  <2>1. PICK i \in 1..Len(JobQueue) : j = Low + i - 1
    BY <1>2, <1>3 DEF Queued
  <2> QED
    BY <1>1, <2>1
<1> QED
  BY <1>1, <1>4, <1>5

Waiting(j) == j \in Low..NumJobs \/ (Holding /\ j = dispatcher.job)
InJob(j) == \E w \in Workers : At(w, "job") /\ worker[w].job = j
InWork(j) == \E w \in Workers : Busy(w) /\ worker[w].job = j

PlacesExact ==
  Types /\ InOrder =>
    \A j : /\ j \in Left <=> Waiting(j) \/ InJob(j)
           /\ j \in Open <=> Waiting(j) \/ InWork(j)

LEMMA Places == PlacesExact
<1> SUFFICES ASSUME Types, InOrder
             PROVE  \A j : /\ j \in Left <=> Waiting(j) \/ InJob(j)
                           /\ j \in Open <=> Waiting(j) \/ InWork(j)
  BY DEF PlacesExact
<1>1. ASSUME NEW j
      PROVE  /\ j \in JobsAt("job") <=> InJob(j)
             /\ j \in JobsAt("job") \cup JobsAt("done") <=> InWork(j)
  BY DEF JobsAt, InJob, InWork, Busy
<1>2. ASSUME NEW j
      PROVE  j \in Held <=> Holding /\ j = dispatcher.job
  BY DEF Held, Holding
<1> QED
  BY <1>1, <1>2, QueuedRange DEF Left, Open, Waiting

(* The same one step later. *)
LEMMA PlacesNext == PlacesExact'
  BY Places, PTL

LEMMA OpenJobs ==
  ASSUME Types, InOrder, Apart
  PROVE  /\ Open \subseteq Jobs
         /\ Left \subseteq Open
         /\ IsFiniteSet(Open)
         /\ IsFiniteSet(Jobs)
         /\ Cardinality(Jobs) = NumJobs
<1>1. IsFiniteSet(Jobs) /\ Cardinality(Jobs) = NumJobs
  BY PoolAssumption, FS_Interval DEF PoolAssumption, Jobs
<1>2. Open \subseteq Jobs
  <2>1. \A x \in 1..Low - 1 : x \in Jobs
    BY LowType DEF Jobs
  <2>2. \A x \in Low..NumJobs : x \in Jobs
    BY LowType DEF Jobs
  <2>3. \A j : Waiting(j) => j \in Jobs
    BY <2>1, <2>2 DEF Waiting, Apart
  <2>4. \A j : InWork(j) => j \in Jobs
    BY <2>1 DEF InWork, Apart
  <2> QED
    BY <2>3, <2>4, Places DEF PlacesExact
<1>3. Left \subseteq Open
  BY DEF Open
<1> QED
  BY <1>1, <1>2, <1>3, FS_Subset

(* What a step leaves in place when it touches no job. *)
LEMMA SamePlaces ==
  ASSUME Low' = Low, Holding' = Holding, dispatcher'.job = dispatcher.job,
         \A w \in Workers : /\ Busy(w)' = Busy(w)
                            /\ worker'[w].job = worker[w].job
  PROVE  Apart => Apart'
  BY DEF Apart

LEMMA OfferOrder ==
  ASSUME Types, InOrder, Offer
  PROVE  Low' = Low /\ InOrder'
<1>1. /\ caller'.next = caller.next + 1
      /\ Len(JobQueue') = Len(JobQueue) + 1
      /\ DOMAIN JobQueue' = 1..Len(JobQueue) + 1
      /\ \A i \in 1..Len(JobQueue) : JobQueue'[i] = JobQueue[i]
      /\ JobQueue'[Len(JobQueue) + 1] = caller.next
  BY DEF Offer, Types, CallerType
<1>2. /\ caller.next \in Nat /\ Len(JobQueue) \in Nat
      /\ DOMAIN JobQueue = 1..Len(JobQueue)
  BY LowType DEF Types
<1>3. Low' = Low
  BY <1>1, <1>2 DEF Low
<1>4. caller.next = Low + (Len(JobQueue) + 1) - 1 /\ Low \in Int
  BY <1>2 DEF Low
<1> HIDE DEF Low
<1> QED
  BY <1>1, <1>2, <1>3, <1>4, SMTT(60) DEF InOrder

LEMMA TakeOrder ==
  ASSUME Types, InOrder, TakeJob
  PROVE  Low' = Low + 1 /\ InOrder' /\ Head(JobQueue) = Low
<1>1. /\ caller' = caller
      /\ Len(JobQueue') = Len(JobQueue) - 1
      /\ DOMAIN JobQueue' = 1..Len(JobQueue) - 1
      /\ \A i \in 1..Len(JobQueue) - 1 : JobQueue'[i] = JobQueue[i + 1]
      /\ Head(JobQueue) = JobQueue[1]
      /\ Len(JobQueue) # 0
  BY DEF TakeJob, Types
<1>2. /\ caller.next \in Nat /\ Len(JobQueue) \in Nat
      /\ DOMAIN JobQueue = 1..Len(JobQueue)
  BY LowType DEF Types
<1>3. Low' = Low + 1 /\ Low \in Nat
  BY <1>1, <1>2, LowType DEF Low
<1> HIDE DEF Low
<1>4. \A i \in 1..Len(JobQueue) : JobQueue[i] = Low + i - 1
  BY <1>2 DEF InOrder
<1>5. Head(JobQueue) = Low
  BY <1>1, <1>2, <1>3, <1>4
<1>6. \A i \in 1..Len(JobQueue) - 1 : JobQueue'[i] = (Low + 1) + i - 1
  BY <1>1, <1>2, <1>3, <1>4
<1>7. Low + 1 >= 1
  BY <1>3
<1> QED
  BY <1>1, <1>3, <1>5, <1>6, <1>7 DEF InOrder

LEMMA OrderKept ==
  ASSUME Low' = Low, JobQueue' = JobQueue, InOrder
  PROVE  InOrder'
  BY DEF InOrder
-----------------------------------------------------------------------------
(* The jobs, step by step *)

JobsInv == InOrder /\ Apart /\ Stage /\ Counted

(* A step of the caller or the dispatcher that touches no job, or moves    *)
(* one without doing it.                                                   *)
LEMMA SameOpen ==
  ASSUME Types, Types', InOrder, InOrder',
         \A j : (Waiting(j) \/ InWork(j))' <=> Waiting(j) \/ InWork(j)
  PROVE  Open' = Open
  BY Places, PlacesNext DEF PlacesExact

LEMMA CallerJobs ==
  ASSUME Types, Types', JobsInv, Caller
  PROVE  JobsInv'
<1> USE DEF JobsInv
<1>0. worker' = worker /\ \A w : Busy(w)' = Busy(w)
  BY DEF Caller, WaitCount, Offer, Offered, WaitAll, Release, Released, Busy, At
<1>1. CASE WaitCount
  <2>1. Low' = Low /\ JobQueue' = JobQueue /\ dispatcher' = dispatcher
    BY <1>1 DEF WaitCount, Low, Types, CallerType
  <2>2. InOrder' /\ Apart'
    BY <1>0, <2>1, OrderKept DEF Apart, Holding
  <2>3. Open' = Open
    BY <1>0, <2>1, <2>2, SameOpen DEF Waiting, InWork, Holding
  <2>4. Cardinality(Open) = NumJobs
    <3>1. caller.next = 1 /\ JobQueue = <<>> /\ ~Holding /\ \A w \in Workers : ~Busy(w)
      BY <1>1 DEF WaitCount, Stage
    <3>2. Low = 1
      BY <3>1 DEF Low
    <3>3. \A j : j \in Open <=> j \in Jobs
      BY <3>1, <3>2, Places DEF PlacesExact, Waiting, InWork, Jobs
    <3>4. Open = Jobs
      BY <3>3
    <3> QED
      BY <3>4, OpenJobs
  <2>5. wg = 0 /\ wg' = NumJobs /\ caller'.at = "offer"
    BY <1>1, PoolAssumption
    DEF PoolAssumption, WaitCount, Stage, Types, CallerType
  <2>6. Stage'
    BY <1>1, <2>5, <2>1 DEF Stage, WaitCount
  <2> QED
    BY <2>2, <2>3, <2>4, <2>5, <2>6 DEF Counted
<1>2. CASE Offer
  <2>1. Low' = Low /\ InOrder' /\ dispatcher' = dispatcher /\ wg' = wg
    BY <1>2, OfferOrder DEF Offer
  <2>2. Apart'
    BY <1>0, <2>1 DEF Apart, Holding
  <2>3. Open' = Open
    BY <1>0, <2>1, SameOpen DEF Waiting, InWork, Holding
  <2>4. caller.at = "offer" /\ caller'.at = "offer"
    BY <1>2 DEF Offer, Types, CallerType
  <2> QED
    BY <2>1, <2>2, <2>3, <2>4 DEF Stage, Counted
<1>3. CASE Offered \/ WaitAll
  <2>1. /\ Low' = Low /\ JobQueue' = JobQueue /\ dispatcher' = dispatcher
        /\ wg' = wg /\ caller'.next = caller.next
    BY <1>3 DEF Offered, WaitAll, Low, Types, CallerType
  <2>2. InOrder' /\ Apart'
    BY <1>0, <2>1, OrderKept DEF Apart, Holding
  <2>3. Open' = Open
    BY <1>0, <2>1, <2>2, SameOpen DEF Waiting, InWork, Holding
  <2>4. CASE Offered
    <3>1. caller.at = "offer" /\ caller'.at = "wait" /\ caller.next = NumJobs + 1
      BY <2>4, PoolAssumption
      DEF PoolAssumption, Offered, Types, CallerType, Jobs
    <3> QED
      BY <2>1, <2>2, <2>3, <3>1 DEF Stage, Counted
  <2>5. CASE WaitAll
    <3>1. caller.at = "wait" /\ caller'.at = "release" /\ wg = 0
      BY <2>5 DEF WaitAll, Types, CallerType
    <3>2. Open = {}
      BY <3>1, OpenJobs, FS_EmptySet DEF Counted
    <3> QED
      BY <2>1, <2>2, <2>3, <3>1, <3>2 DEF Stage, Counted
  <2> QED
    BY <1>3, <2>4, <2>5
<1>4. CASE Release \/ Released
  <2>1. /\ Low' = Low /\ JobQueue' = JobQueue /\ wg' = wg
        /\ caller'.next = caller.next /\ dispatcher'.job = dispatcher.job
        /\ ~Holding /\ ~Holding'
    BY <1>4 DEF Release, Released, Low, Holding, Types, CallerType,
                DispatcherType
  <2>2. InOrder' /\ Apart'
    BY <1>0, <2>1, OrderKept DEF Apart
  <2>3. Open' = Open
    BY <1>0, <2>1, <2>2, SameOpen DEF Waiting, InWork
  <2>4. \/ /\ caller.at = "release" /\ caller'.at = "released"
           /\ dispatcher'.at = "gather"
        \/ /\ caller.at = "released" /\ caller'.at = "returned"
           /\ dispatcher'.at = "gone"
    BY <1>4 DEF Release, Released, Types, CallerType, DispatcherType
  <2>5. Stage'
    BY <2>1, <2>3, <2>4 DEF Stage
  <2> QED
    BY <2>1, <2>2, <2>3, <2>4, <2>5 DEF Counted
<1> QED
  BY <1>1, <1>2, <1>3, <1>4 DEF Caller
LEMMA DispatchJobs ==
  ASSUME Types, Types', JobsInv, Ready, Dispatch
  PROVE  JobsInv'
<1> USE DEF JobsInv
<1>0. caller' = caller /\ wg' = wg
  BY DEF Dispatch, TakeJob, TakeWorker, Hand, Stop, Stopped
<1>1. CASE TakeJob
  <2>1. /\ Low' = Low + 1 /\ InOrder'
        /\ dispatcher.at = "select" /\ dispatcher'.at = "take"
        /\ dispatcher'.job = Low
        /\ worker' = worker
    BY <1>1, TakeOrder DEF TakeJob, DispatcherAt
  <2>2. Low \in 1..NumJobs /\ NumJobs \in Nat
    BY <1>1, <2>1, TakeOrder, PoolAssumption
    DEF PoolAssumption, TakeJob, Types, Jobs
  <2>3. Apart'
    <3>1. \A w : Busy(w)' = Busy(w)
      BY <2>1 DEF Busy, At
    <3> QED
      BY <2>1, <2>2, <3>1 DEF Apart, Holding
  <2>4. Open' = Open
    <3>1. \A j : InWork(j)' <=> InWork(j)
      BY <2>1 DEF InWork, Busy, At
    <3>2. \A j : Waiting(j)' <=> Waiting(j)
      BY <2>1, <2>2 DEF Waiting, Holding
    <3> QED
      BY <2>1, <3>1, <3>2, SameOpen
  <2>5. JobQueue # <<>>
    BY <1>1 DEF TakeJob
  <2>6. Stage'
    BY <1>0, <2>1, <2>4, <2>5 DEF Stage
  <2> QED
    BY <1>0, <2>1, <2>3, <2>4, <2>6 DEF Counted
<1>2. ASSUME NEW w \in Workers, Hand(w)
      PROVE  JobsInv'
  <2>1. /\ Low' = Low /\ JobQueue' = JobQueue
        /\ dispatcher.at = "hand" /\ dispatcher'.at = "select"
        /\ worker[w].at = "select"
        /\ worker' = [worker EXCEPT ![w] = [at |-> "job", job |-> dispatcher.job]]
    BY <1>2 DEF Hand, DispatcherAt, Low
  <2>2. InOrder'
    BY <2>1, OrderKept
  <2>3. /\ ~Busy(w) /\ Busy(w)' /\ worker'[w].job = dispatcher.job
        /\ \A x \in Workers : x # w => Busy(x)' = Busy(x) /\ worker'[x] = worker[x]
    BY <2>1 DEF Busy, At, Types
  <2>4. Holding /\ ~Holding'
    BY <2>1 DEF Holding
  <2>5. Apart'
    BY <2>1, <2>3, <2>4 DEF Apart
  <2>6. Open' = Open
    <3>1. \A j : (Waiting(j) \/ InWork(j))' <=> Waiting(j) \/ InWork(j)
      BY <2>1, <2>3, <2>4 DEF Waiting, InWork
    <3> QED
      BY <2>2, <3>1, SameOpen
  <2>7. Stage'
    BY <1>0, <2>1, <2>4, <2>6 DEF Stage
  <2> QED
    BY <1>0, <2>2, <2>5, <2>6, <2>7 DEF Counted
<1>3. CASE TakeWorker \/ \E w \in Workers : Stop(w) \/ Stopped(w)
  <2>1. /\ Low' = Low /\ JobQueue' = JobQueue
        /\ \/ dispatcher.at = "take" /\ dispatcher'.at = "hand"
              /\ dispatcher'.job = dispatcher.job
           \/ /\ dispatcher.at \in {"gather", "stop", "stopped"}
              /\ dispatcher'.at \in {"gather", "stop", "stopped"}
    BY <1>3 DEF TakeWorker, Stop, Stopped, DispatcherAt, Low, Types,
                DispatcherType
  <2>2. InOrder'
    BY <2>1, OrderKept
  <2>3. /\ Holding' = Holding
        /\ Holding => dispatcher'.job = dispatcher.job
    BY <2>1 DEF Holding
  <2>4. \A w \in Workers : /\ Busy(w)' <=> Busy(w)
                           /\ worker'[w].job = worker[w].job
    BY <1>3, SMTT(60) DEF TakeWorker, Stop, Stopped, Busy, At, Types, WorkerType
  <2>5. Apart'
    BY <2>1, <2>3, <2>4 DEF Apart
  <2>6. Open' = Open
    <3>1. \A j : InWork(j)' <=> InWork(j)
      BY <2>4 DEF InWork
    <3>2. \A j : Waiting(j)' <=> Waiting(j)
      BY <2>1, <2>3 DEF Waiting
    <3> QED
      BY <2>2, <3>1, <3>2, SameOpen
  <2>7. Stage'
    BY <1>0, <2>1, <2>3, <2>4, <2>6 DEF Stage
  <2> QED
    BY <1>0, <2>2, <2>5, <2>6, <2>7 DEF Counted
<1> QED
  BY <1>1, <1>2, <1>3 DEF Dispatch

LEMMA WorkJobs ==
  ASSUME Types, Types', JobsInv, NEW w \in Workers, Work(w)
  PROVE  JobsInv'
<1> USE DEF JobsInv
<1>0. /\ caller' = caller /\ dispatcher' = dispatcher /\ JobQueue' = JobQueue
      /\ Low' = Low /\ Holding' = Holding
      /\ InOrder'
      /\ \A j : Waiting(j)' <=> Waiting(j)
  BY OrderKept DEF Work, Enlist, DoJob, JobDone, Low, Holding, Waiting
<1>1. CASE Enlist(w) \/ DoJob(w)
  <2>1. \A x \in Workers : /\ Busy(x)' <=> Busy(x)
                           /\ worker'[x].job = worker[x].job
    <3>1. CASE Enlist(w)
      BY <3>1 DEF Enlist, Busy, At, Types, WorkerType
    <3>2. CASE DoJob(w)
      BY <3>2 DEF DoJob, Busy, At, Types, WorkerType
    <3> QED
      BY <1>1, <3>1, <3>2
  <2>2. Apart'
    BY <1>0, <2>1 DEF Apart
  <2>3. Open' = Open
    <3>1. \A j : InWork(j)' <=> InWork(j)
      BY <2>1 DEF InWork
    <3> QED
      BY <1>0, <3>1, SameOpen
  <2>4. wg' = wg
    BY <1>1 DEF Enlist, DoJob
  <2> QED
    BY <1>0, <2>1, <2>2, <2>3, <2>4 DEF Stage, Counted
<1>2. CASE JobDone(w)
  <2> DEFINE job == worker[w].job
  <2>1. /\ Busy(w) /\ ~Busy(w)'
        /\ \A x \in Workers : x # w => Busy(x)' = Busy(x) /\ worker'[x] = worker[x]
    BY <1>2 DEF JobDone, Busy, At, Types
  <2>2. Apart'
    BY <1>0, <2>1 DEF Apart
  <2>3. \A j : InWork(j)' <=> InWork(j) /\ j # job
    BY <2>1 DEF InWork, Apart
  <2>4. ~Waiting(job) /\ InWork(job)
    <3>1. job \in 1..Low - 1 /\ ~(Holding /\ job = dispatcher.job)
      BY <2>1 DEF Apart
    <3>2. job \notin Low..NumJobs
      BY <3>1, LowType
    <3> QED
      BY <2>1, <3>1, <3>2 DEF Waiting, InWork
  <2>5. job \in Open /\ Open' = Open \ {job}
    BY <1>0, <2>3, <2>4, Places, PlacesNext DEF PlacesExact
  <2>6. Cardinality(Open') = Cardinality(Open) - 1
    BY <2>5, OpenJobs, FS_RemoveElement
  <2>7. wg' = wg - 1
    BY <1>2 DEF JobDone
  <2>8. caller.at # "count" /\ Open # {}
    BY <2>1, <2>5 DEF Stage
  <2>9. Stage'
    BY <1>0, <2>8 DEF Stage
  <2> QED
    BY <1>0, <2>2, <2>6, <2>7, <2>8, <2>9 DEF Counted
<1> QED
  BY <1>1, <1>2 DEF Work
-----------------------------------------------------------------------------
(* Taking the pool down *)

LEMMA AliveFinite == IsFiniteSet(Alive)
  BY PoolAssumption, FS_Subset DEF PoolAssumption, Alive

LEMMA TakingDownStep ==
  ASSUME Types, TakingDown, Next
  PROVE  TakingDown'
<1>1. CASE WaitCount \/ Offer \/ Offered \/ WaitAll \/ Over
  BY <1>1 DEF WaitCount, Offer, Offered, WaitAll, Over, vars, TakingDown,
              Alive, At
<1>2. CASE Release
  <2>1. /\ worker' = worker /\ dispatcher'.worker = dispatcher.worker
        /\ dispatcher.at = "select" /\ dispatcher'.at = "gather"
        /\ dispatcher'.togo = dispatcher.togo
    BY <1>2 DEF Release, Types, DispatcherType
  <2> QED
    BY <2>1 DEF TakingDown, Alive, At
<1>3. CASE Released
  <2>1. /\ worker' = worker /\ dispatcher'.worker = dispatcher.worker
        /\ dispatcher.at = "gather" /\ dispatcher'.at = "gone"
        /\ dispatcher.togo = 0
    BY <1>3 DEF Released, Types, DispatcherType
  <2>2. Alive = {}
    BY <2>1, AliveFinite, FS_EmptySet DEF TakingDown
  <2> QED
    BY <2>1, <2>2 DEF TakingDown, Alive, At
<1>4. CASE TakeJob
  BY <1>4 DEF TakeJob, DispatcherAt, TakingDown, Alive, At
<1>5. CASE TakeWorker
  BY <1>5 DEF TakeWorker, DispatcherAt, TakingDown, Alive, At
<1>6. ASSUME NEW w \in Workers, Hand(w)
      PROVE  TakingDown'
  <2>1. /\ worker[w].at = "select" /\ worker'[w].at = "job"
        /\ \A x \in Workers : x # w => worker'[x] = worker[x]
        /\ dispatcher.at = "hand" /\ dispatcher'.at = "select"
        /\ dispatcher'.togo = dispatcher.togo
    BY <1>6 DEF Hand, DispatcherAt, Types
  <2>2. Alive' = Alive
    BY <2>1 DEF Alive, At
  <2> QED
    BY <2>1, <2>2 DEF TakingDown, At
<1>7. ASSUME NEW w \in Workers, Stop(w)
      PROVE  TakingDown'
  <2>1. /\ worker[w].at = "select" /\ worker'[w].at = "stopped"
        /\ \A x \in Workers : x # w => worker'[x] = worker[x]
        /\ dispatcher.at = "stop" /\ dispatcher'.at = "stopped"
        /\ dispatcher.worker = w /\ dispatcher'.worker = w
        /\ dispatcher'.togo = dispatcher.togo
    BY <1>7 DEF Stop, Types, DispatcherType, WorkerType
  <2>2. Alive' = Alive
    BY <2>1 DEF Alive, At
  <2> QED
    BY <2>1, <2>2 DEF TakingDown, At
<1>8. ASSUME NEW w \in Workers, Stopped(w)
      PROVE  TakingDown'
  <2>1. /\ worker[w].at = "stopped" /\ worker'[w].at = "gone"
        /\ \A x \in Workers : x # w => worker'[x] = worker[x]
        /\ dispatcher.at = "stopped" /\ dispatcher'.at = "gather"
        /\ dispatcher.worker = w
        /\ dispatcher'.togo = dispatcher.togo - 1
    BY <1>8 DEF Stopped, DispatcherAt, Types, WorkerType
  <2>2. w \in Alive /\ Alive' = Alive \ {w}
    BY <2>1 DEF Alive, At
  <2>3. Cardinality(Alive') = Cardinality(Alive) - 1
    BY <2>2, AliveFinite, FS_RemoveElement
  <2> QED
    BY <2>1, <2>3 DEF TakingDown, At
<1>9. ASSUME NEW w \in Workers, Work(w)
      PROVE  TakingDown'
  <2>1. /\ worker[w].at \notin {"stopped", "gone"}
        /\ worker'[w].at \notin {"stopped", "gone"}
        /\ \A x \in Workers : x # w => worker'[x] = worker[x]
        /\ dispatcher' = dispatcher
    <3>1. CASE Enlist(w) \/ DoJob(w)
      BY <3>1 DEF Enlist, DoJob, Types, WorkerType
    <3>2. CASE JobDone(w)
      BY <3>2 DEF JobDone, Types
    <3> QED
      BY <1>9, <3>1, <3>2 DEF Work
  <2>2. Alive' = Alive
    BY <2>1 DEF Alive, At
  <2> QED
    BY <2>1, <2>2 DEF TakingDown, At
<1> QED
  BY <1>1, <1>2, <1>3, <1>4, <1>5, <1>6, <1>7, <1>8, <1>9
  DEF Next, Caller, Dispatch

-----------------------------------------------------------------------------
(* The workers that wait *)

InPool(w) == \E i \in DOMAIN workerPool : workerPool[i] = w
Distinct == \A i, j \in DOMAIN workerPool : workerPool[i] = workerPool[j] => i = j

LEMMA EnlistPool ==
  ASSUME Types, Distinct, NEW w \in Workers, ~InPool(w),
         workerPool' = Append(workerPool, w)
  PROVE  Distinct' /\ \A x \in Workers : InPool(x)' <=> InPool(x) \/ x = w
<1> DEFINE n == Len(workerPool)
<1>1. /\ n \in Nat /\ DOMAIN workerPool = 1..n /\ DOMAIN workerPool' = 1..n + 1
      /\ workerPool'[n + 1] = w
      /\ \A i \in 1..n : workerPool'[i] = workerPool[i]
  BY DEF Types
<1> HIDE DEF n
<1>2. \A i \in 1..n : workerPool[i] # w
  BY <1>1 DEF InPool
<1>3. Distinct'
  BY <1>1, <1>2 DEF Distinct
<1>4. ASSUME NEW x \in Workers
      PROVE  InPool(x)' <=> InPool(x) \/ x = w
  <2>1. InPool(x) => InPool(x)'
    BY <1>1 DEF InPool
  <2>2. x = w => InPool(x)'
    BY <1>1 DEF InPool
  <2>3. InPool(x)' => InPool(x) \/ x = w
    BY <1>1 DEF InPool
  <2> QED
    BY <2>1, <2>2, <2>3
<1> QED
  BY <1>3, <1>4

LEMMA TakePool ==
  ASSUME Types, Distinct, workerPool # <<>>, workerPool' = Tail(workerPool)
  PROVE  /\ Distinct' /\ Head(workerPool) \in Workers
         /\ \A x \in Workers :
              InPool(x)' <=> InPool(x) /\ x # Head(workerPool)
         /\ InPool(Head(workerPool))
<1> DEFINE n == Len(workerPool)
<1>1. /\ n \in Nat \ {0} /\ DOMAIN workerPool = 1..n
      /\ DOMAIN workerPool' = 1..n - 1
      /\ Head(workerPool) = workerPool[1]
      /\ Head(workerPool) \in Workers
      /\ \A i \in 1..n - 1 : workerPool'[i] = workerPool[i + 1]
  BY DEF Types
<1> HIDE DEF n
<1>2. \A i, j \in 1..n : workerPool[i] = workerPool[j] => i = j
  BY <1>1 DEF Distinct
<1>3. Distinct'
  BY <1>1, <1>2 DEF Distinct
<1>4. ASSUME NEW x \in Workers
      PROVE  InPool(x)' <=> InPool(x) /\ x # Head(workerPool)
  <2>1. ASSUME InPool(x)'
        PROVE  InPool(x) /\ x # Head(workerPool)
    <3>1. PICK i \in 1..n - 1 : workerPool'[i] = x
      BY <1>1, <2>1 DEF InPool
    <3>2. i + 1 \in 1..n /\ i + 1 # 1 /\ workerPool[i + 1] = x /\ 1 \in 1..n
      BY <1>1, <3>1
    <3> QED
      BY <1>1, <1>2, <3>2 DEF InPool
  <2>2. ASSUME InPool(x), x # Head(workerPool)
        PROVE  InPool(x)'
    <3>1. PICK i \in 1..n : workerPool[i] = x
      BY <1>1, <2>2 DEF InPool
    <3>2. i - 1 \in 1..n - 1 /\ workerPool'[i - 1] = x
      BY <1>1, <2>2, <3>1
    <3> QED
      BY <1>1, <3>2 DEF InPool
  <2> QED
    BY <2>1, <2>2
<1> QED
  BY <1>1, <1>3, <1>4 DEF InPool

LEMMA ReadyParts ==
  ReadyExact <=> /\ Distinct
                 /\ \A w \in Workers :
                      InPool(w) <=> At(w, "select") /\ dispatcher.worker # w
  BY DEF ReadyExact, Distinct, InPool, At

LEMMA ReadyPartsNext ==
  ReadyExact' <=> /\ Distinct'
                  /\ \A w \in Workers :
                       InPool(w)' <=> At(w, "select")' /\ dispatcher'.worker # w
  BY DEF ReadyExact, Distinct, InPool, At

LEMMA SamePool ==
  ASSUME workerPool' = workerPool
  PROVE  /\ Distinct' <=> Distinct
         /\ \A w : InPool(w)' <=> InPool(w)
  BY DEF Distinct, InPool

LEMMA ReadyStep ==
  ASSUME Types, TakingDown, Ready, Next
  PROVE  Ready'
<1>0. None \notin Workers
  BY PoolAssumption DEF PoolAssumption
<1>1. CASE WaitCount \/ Offer \/ Offered \/ WaitAll \/ Over
  BY <1>1 DEF WaitCount, Offer, Offered, WaitAll, Over, vars, Ready,
              ReadyExact, At
<1>2. CASE Release \/ Released \/ TakeJob
  <2>1. /\ worker' = worker /\ workerPool' = workerPool
        /\ dispatcher.at \in {"select", "gather"}
        /\ dispatcher'.at \in {"gather", "gone", "take"}
    BY <1>2 DEF Release, Released, TakeJob, DispatcherAt, Types, DispatcherType
  <2>2. dispatcher.worker = None
    BY <2>1 DEF Ready
  <2>3. dispatcher'.worker = None
    BY <1>2, <2>2
    DEF Release, Released, TakeJob, DispatcherAt, Types, DispatcherType
  <2> QED
    BY <2>1, <2>2, <2>3 DEF Ready, ReadyExact, At
<1>3. CASE TakeWorker
  <2> DEFINE h == Head(workerPool)
  <2>1. /\ worker' = worker
        /\ dispatcher.at \in {"take", "gather"}
        /\ dispatcher'.at \in {"hand", "stop"}
        /\ dispatcher'.worker = h
    BY <1>3 DEF TakeWorker, DispatcherAt
  <2>2. dispatcher.worker = None
    BY <2>1 DEF Ready
  <2>3. /\ Distinct' /\ h \in Workers /\ InPool(h)
        /\ \A x \in Workers : InPool(x)' <=> InPool(x) /\ x # h
    BY <1>3, TakePool, ReadyParts DEF TakeWorker, Ready
  <2> HIDE DEF h
  <2>4. ReadyExact'
    BY <1>0, <2>1, <2>2, <2>3, ReadyParts, ReadyPartsNext DEF Ready, At
  <2>5. worker'[h].at = "select"
    BY <2>1, <2>3, ReadyParts DEF Ready, At
  <2> QED
    BY <1>0, <2>1, <2>3, <2>4, <2>5 DEF Ready, At
<1>4. ASSUME NEW w \in Workers, Hand(w) \/ Stop(w) \/ Stopped(w)
      PROVE  Ready'
  <2>1. /\ workerPool' = workerPool
        /\ dispatcher.worker = w
        /\ worker'[w].at # "select"
        /\ \A x \in Workers : x # w => worker'[x] = worker[x]
        /\ \/ dispatcher'.at = "stopped" /\ dispatcher'.worker = w
           \/ dispatcher'.at \in {"select", "gather"} /\ dispatcher'.worker = None
    BY <1>4 DEF Hand, Stop, Stopped, DispatcherAt, Types, DispatcherType,
                WorkerType
  <2>2. ReadyExact'
    BY <1>0, <2>1, SamePool, ReadyParts, ReadyPartsNext DEF Ready, At
  <2> QED
    BY <1>0, <2>1, <2>2 DEF Ready
<1>5. ASSUME NEW w \in Workers, Enlist(w)
      PROVE  Ready'
  <2>1. /\ worker[w].at = "offer" /\ worker'[w].at = "select"
        /\ dispatcher' = dispatcher
        /\ \A x \in Workers : x # w => worker'[x] = worker[x]
    BY <1>5 DEF Enlist, Types, WorkerType
  <2>2. dispatcher.worker # w
    BY <1>0, <2>1 DEF Ready, TakingDown, At, Types, DispatcherType
  <2>3. ~InPool(w)
    BY <2>1, ReadyParts DEF Ready, At
  <2>4. Distinct' /\ \A x \in Workers : InPool(x)' <=> InPool(x) \/ x = w
    BY <1>5, <2>3, EnlistPool, ReadyParts DEF Enlist, Ready
  <2>5. ReadyExact'
    BY <2>1, <2>2, <2>4, ReadyParts, ReadyPartsNext DEF Ready, At
  <2> QED
    BY <2>1, <2>5 DEF Ready, At
<1>6. ASSUME NEW w \in Workers, DoJob(w) \/ JobDone(w)
      PROVE  Ready'
  <2>1. /\ worker[w].at # "select" /\ worker'[w].at # "select"
        /\ dispatcher' = dispatcher /\ workerPool' = workerPool
        /\ \A x \in Workers : x # w => worker'[x] = worker[x]
    <3>1. CASE DoJob(w)
      BY <3>1 DEF DoJob, Types, WorkerType
    <3>2. CASE JobDone(w)
      BY <3>2 DEF JobDone, Types
    <3> QED
      BY <1>6, <3>1, <3>2
  <2>2. ReadyExact'
    BY <2>1, SamePool, ReadyParts, ReadyPartsNext DEF Ready, At
  <2> QED
    BY <2>1, <2>2 DEF Ready, At
<1> QED
  BY <1>1, <1>2, <1>3, <1>4, <1>5, <1>6 DEF Next, Caller, Dispatch, Work

-----------------------------------------------------------------------------
(* The theorems *)

Inv == Types /\ JobsInv /\ TakingDown /\ Ready

LEMMA InitInv == Init => Inv
<1> SUFFICES ASSUME Init
             PROVE  Inv
  OBVIOUS
<1>1. JobQueue = <<>> /\ workerPool = <<>> /\ Low = 1
  BY DEF Init, Low
<1>2. InOrder
  BY <1>1 DEF InOrder
<1>3. Apart /\ Stage
  BY <1>1 DEF Init, Apart, Stage, Holding, Busy, At
<1>4. Counted
  BY DEF Init, Counted
<1>5. Alive = Workers
  BY DEF Init, Alive, At
<1>6. TakingDown
  BY <1>5, PoolAssumption DEF PoolAssumption, Init, TakingDown, At
<1>7. Ready
  BY <1>1, PoolAssumption DEF PoolAssumption, Init, Ready, ReadyExact, At
<1> QED
  BY <1>2, <1>3, <1>4, <1>6, <1>7, InitTypes DEF Inv, JobsInv

LEMMA SameJobs ==
  ASSUME JobsInv, UNCHANGED vars
  PROVE  JobsInv'
<1>1. Low' = Low /\ Open' = Open /\ Holding' = Holding
      /\ \A w : Busy(w)' = Busy(w)
  BY DEF vars, Low, Open, Left, Queued, Held, JobsAt, Holding, Busy, At
<1> QED
  BY <1>1 DEF vars, JobsInv, InOrder, Apart, Stage, Counted

LEMMA InvStep == Inv /\ [Next]_vars => Inv'
<1> SUFFICES ASSUME Inv, [Next]_vars
             PROVE  Inv'
  OBVIOUS
<1>1. Types'
  BY StepTypes DEF Inv
<1>2. JobsInv'
  BY <1>1, CallerJobs, DispatchJobs, WorkJobs, SameJobs DEF Inv, Next, Over
<1>3. TakingDown' /\ Ready'
  <2>1. CASE Next
    BY <2>1, TakingDownStep, ReadyStep DEF Inv
  <2>2. CASE UNCHANGED vars
    BY <2>2 DEF vars, Inv, TakingDown, Ready, ReadyExact, Alive, At
  <2> QED
    BY <2>1, <2>2
<1> QED
  BY <1>1, <1>2, <1>3 DEF Inv

LEMMA Invariance == Spec => []Inv
  BY InitInv, InvStep, PTL DEF Spec
(* Every variable keeps its type; Pool.wg neither falls below zero, where  *)
(* Done panics, nor rises above the number of jobs.                        *)
THEOREM TypeCorrect == Spec => []TypeOK
<1>1. Inv => TypeOK
  <2> SUFFICES ASSUME Inv
               PROVE  wg \in 0..NumJobs
    BY DEF Inv, Types, TypeOK
  <2>1. Cardinality(Open) \in 0..NumJobs
    <3>1. /\ Cardinality(Open) <= Cardinality(Jobs)
          /\ Cardinality(Jobs) = NumJobs /\ NumJobs \in Nat
      BY OpenJobs, FS_Subset, PoolAssumption DEF PoolAssumption, Inv, JobsInv
    <3>2. Cardinality(Open) \in Nat
      BY OpenJobs, FS_CardinalityType DEF Inv, JobsInv
    <3> QED
      BY <3>1, <3>2
  <2> QED
    BY <2>1, PoolAssumption
    DEF PoolAssumption, Inv, JobsInv, Counted, Stage
<1> QED
  BY <1>1, Invariance, PTL

(* The WaitGroup counts the jobs that are not done, wherever they are.     *)
THEOREM CountedAlways == Spec => []Counted
<1>1. Inv => Counted
  BY DEF Inv, JobsInv
<1> QED
  BY <1>1, Invariance, PTL

(* workerPool lists the waiting workers, each once.                        *)
THEOREM ReadyExactAlways == Spec => []ReadyExact
<1>1. Inv => ReadyExact
  BY DEF Inv, Ready
<1> QED
  BY <1>1, Invariance, PTL

(* Release finds nothing left to do.                                       *)
THEOREM NothingDroppedAlways == Spec => []NothingDropped
<1>1. Inv => NothingDropped
  BY DEF Inv, JobsInv, Stage, NothingDropped
<1> QED
  BY <1>1, Invariance, PTL

-----------------------------------------------------------------------------
(* Refinement *)

LEMMA LeftSame ==
  ASSUME Inv, Inv', \A j : (Waiting(j) \/ InJob(j))' <=> Waiting(j) \/ InJob(j)
  PROVE  Left' = Left
  BY Places, PlacesNext DEF PlacesExact, Inv, JobsInv

LEMMA CallerLeft ==
  ASSUME Inv, Inv', Caller
  PROVE  Left' = Left
<1>0. \A j : InJob(j)' <=> InJob(j)
  BY DEF Caller, WaitCount, Offer, Offered, WaitAll, Release, Released, InJob,
         At
<1>1. Low' = Low
  <2>1. CASE Offer
    BY <2>1, OfferOrder DEF Inv, JobsInv
  <2>2. CASE ~Offer
    BY <2>2 DEF Caller, WaitCount, Offered, WaitAll, Release, Released, Low,
                Inv, Types, CallerType
  <2> QED
    BY <2>1, <2>2
<1>2. Holding' = Holding /\ dispatcher'.job = dispatcher.job
  BY DEF Caller, WaitCount, Offer, Offered, WaitAll, Release, Released,
         Holding, Inv, Types, DispatcherType
<1> QED
  BY <1>0, <1>1, <1>2, LeftSame DEF Waiting

LEMMA DispatchLeft ==
  ASSUME Inv, Inv', Dispatch
  PROVE  Left' = Left
<1>1. CASE TakeJob
  <2>1. /\ Low' = Low + 1 /\ dispatcher.at = "select"
        /\ dispatcher'.at = "take" /\ dispatcher'.job = Low
        /\ worker' = worker
    BY <1>1, TakeOrder DEF Inv, JobsInv, TakeJob, DispatcherAt
  <2>2. Low \in 1..NumJobs /\ NumJobs \in Nat
    BY <1>1, TakeOrder, PoolAssumption
    DEF PoolAssumption, TakeJob, Inv, JobsInv, Types, Jobs
  <2>3. \A j : InJob(j)' <=> InJob(j)
    BY <2>1 DEF InJob, At
  <2>4. \A j : Waiting(j)' <=> Waiting(j)
    BY <2>1, <2>2 DEF Waiting, Holding
  <2> QED
    BY <2>3, <2>4, LeftSame
<1>2. ASSUME NEW w \in Workers, Hand(w)
      PROVE  Left' = Left
  <2>1. /\ Low' = Low
        /\ dispatcher.at = "hand" /\ dispatcher'.at = "select"
        /\ worker[w].at = "select"
        /\ worker'[w].at = "job" /\ worker'[w].job = dispatcher.job
        /\ \A x \in Workers : x # w => worker'[x] = worker[x]
    BY <1>2 DEF Hand, DispatcherAt, Low, Inv, Types
  <2>2. \A j : (Waiting(j) \/ InJob(j))' <=> Waiting(j) \/ InJob(j)
    BY <2>1 DEF Waiting, InJob, Holding, At
  <2> QED
    BY <2>2, LeftSame
<1>3. CASE TakeWorker \/ \E w \in Workers : Stop(w) \/ Stopped(w)
  <2>1. /\ Low' = Low
        /\ \/ dispatcher.at = "take" /\ dispatcher'.at = "hand"
              /\ dispatcher'.job = dispatcher.job
           \/ /\ dispatcher.at \in {"gather", "stop", "stopped"}
              /\ dispatcher'.at \in {"gather", "stop", "stopped"}
    BY <1>3 DEF TakeWorker, Stop, Stopped, DispatcherAt, Low, Inv, Types,
                DispatcherType
  <2>2. \A w \in Workers : /\ At(w, "job")' <=> At(w, "job")
                           /\ worker'[w].job = worker[w].job
    <3>1. CASE TakeWorker
      BY <3>1 DEF TakeWorker, At
    <3>2. ASSUME NEW x \in Workers, Stop(x) \/ Stopped(x)
          PROVE  \A w \in Workers : /\ At(w, "job")' <=> At(w, "job")
                                    /\ worker'[w].job = worker[w].job
      <4>1. /\ worker[x].at # "job" /\ worker'[x].at # "job"
            /\ worker'[x].job = worker[x].job
            /\ \A w \in Workers : w # x => worker'[w] = worker[w]
        BY <3>2 DEF Stop, Stopped, Inv, Types, WorkerType
      <4> QED
        BY <4>1 DEF At
    <3> QED
      BY <1>3, <3>1, <3>2
  <2>3. \A j : InJob(j)' <=> InJob(j)
    BY <2>2 DEF InJob
  <2>4. \A j : Waiting(j)' <=> Waiting(j)
    BY <2>1 DEF Waiting, Holding
  <2> QED
    BY <2>3, <2>4, LeftSame
<1> QED
  BY <1>1, <1>2, <1>3 DEF Dispatch

LEMMA WorkLeft ==
  ASSUME Inv, Inv', NEW w \in Workers, Work(w)
  PROVE  \/ Left' = Left
         \/ \E j \in Jobs : j \in Left /\ Left' = Left \ {j}
<1>0. \A j : Waiting(j)' <=> Waiting(j)
  BY DEF Work, Enlist, DoJob, JobDone, Waiting, Holding, Low
<1>1. CASE Enlist(w) \/ JobDone(w)
  <2>1. /\ ~At(w, "job") /\ ~At(w, "job")'
        /\ \A x \in Workers : x # w => worker'[x] = worker[x]
    <3>1. CASE Enlist(w)
      BY <3>1 DEF Enlist, At, Inv, Types, WorkerType
    <3>2. CASE JobDone(w)
      BY <3>2 DEF JobDone, At, Inv, Types
    <3> QED
      BY <1>1, <3>1, <3>2
  <2>2. \A j : InJob(j)' <=> InJob(j)
    BY <2>1 DEF InJob, At
  <2> QED
    BY <1>0, <2>2, LeftSame
<1>2. CASE DoJob(w)
  <2> DEFINE job == worker[w].job
  <2>1. /\ At(w, "job") /\ ~At(w, "job")'
        /\ \A x \in Workers : x # w => worker'[x] = worker[x]
    BY <1>2 DEF DoJob, At, Inv, Types, WorkerType
  <2>2. Busy(w) /\ Apart
    BY <2>1 DEF Busy, Inv, JobsInv
  <2>3. \A j : InJob(j)' <=> InJob(j) /\ j # job
    BY <2>1, <2>2 DEF InJob, At, Busy, Apart
  <2>4. InJob(job) /\ ~Waiting(job) /\ job \in Jobs
    <3>1. job \in 1..Low - 1 /\ ~(Holding /\ job = dispatcher.job)
      BY <2>2 DEF Apart
    <3>2. job \notin Low..NumJobs /\ job \in Jobs
      BY <3>1, LowType DEF Inv, JobsInv, Jobs
    <3> QED
      BY <2>1, <3>1, <3>2 DEF Waiting, InJob
  <2>5. job \in Left /\ Left' = Left \ {job}
    BY <1>0, <2>3, <2>4, Places, PlacesNext DEF PlacesExact, Inv, JobsInv
  <2> QED
    BY <2>4, <2>5
<1> QED
  BY <1>1, <1>2 DEF Work

LEMMA BatchStep == Inv /\ Inv' /\ [Next]_vars => [Batch!Next]_(Batch!vars)
<1> SUFFICES ASSUME Inv, Inv', [Next]_vars
             PROVE  [Batch!Next]_(Batch!vars)
  OBVIOUS
<1>0. /\ {w \in Workers : worker[w].at # "gone"} = Alive
      /\ {w \in Workers : worker'[w].at # "gone"} = Alive'
  BY DEF Alive, At
<1> DEFINE done == caller.at = "returned"
<1>1. Left' = Left /\ Alive' = Alive /\ (done' <=> done) => UNCHANGED Batch!vars
  BY <1>0 DEF Batch!vars
<1>2. CASE Released
  <2>1. /\ caller.at = "released" /\ caller'.at = "returned"
        /\ dispatcher'.at = "gone" /\ worker' = worker
    BY <1>2 DEF Released, Inv, Types, CallerType, DispatcherType
  <2>2. Left = {} /\ Left' = {}
    BY <2>1 DEF Inv, JobsInv, Stage, Open
  <2>3. Alive = {} /\ Alive' = {}
    BY <2>1 DEF Inv, TakingDown, Alive, At
  <2>4. Batch!Return
    BY <1>0, <2>1, <2>2, <2>3 DEF Batch!Return
  <2> QED
    BY <2>4 DEF Batch!Next
<1>3. CASE Caller /\ ~Released
  <2>1. (done' <=> done) /\ Alive' = Alive
    BY <1>3 DEF Caller, WaitCount, Offer, Offered, WaitAll, Release, Alive, At,
                Inv, Types, CallerType
  <2> QED
    BY <1>1, <1>3, <2>1, CallerLeft
<1>4. ASSUME NEW w \in Workers, Stopped(w)
      PROVE  Batch!Next
  <2>1. /\ dispatcher.at = "stopped" /\ caller' = caller
        /\ worker[w].at = "stopped" /\ worker'[w].at = "gone"
        /\ \A x \in Workers : x # w => worker'[x] = worker[x]
    BY <1>4 DEF Stopped, Inv, Types, WorkerType
  <2>2. Left = {} /\ Left' = {}
    BY <1>4, <2>1, DispatchLeft DEF Dispatch, Inv, JobsInv, Stage, Open
  <2>3. w \in Alive /\ Alive' = Alive \ {w}
    BY <2>1 DEF Alive, At
  <2>4. Batch!End(w)
    BY <1>0, <2>1, <2>2, <2>3 DEF Batch!End
  <2> QED
    BY <2>4 DEF Batch!Next
<1>5. CASE Dispatch /\ ~\E w \in Workers : Stopped(w)
  <2>1. caller' = caller
    BY <1>5 DEF Dispatch, TakeJob, TakeWorker, Hand, Stop
  <2>2. Alive' = Alive
    <3>1. CASE TakeJob \/ TakeWorker
      BY <3>1 DEF TakeJob, TakeWorker, Alive, At
    <3>2. ASSUME NEW w \in Workers, Hand(w) \/ Stop(w)
          PROVE  Alive' = Alive
      <4>1. /\ worker[w].at # "gone" /\ worker'[w].at # "gone"
            /\ \A x \in Workers : x # w => worker'[x] = worker[x]
        BY <3>2 DEF Hand, Stop, Inv, Types, WorkerType
      <4> QED
        BY <4>1 DEF Alive, At
    <3> QED
      BY <1>5, <3>1, <3>2 DEF Dispatch
  <2> QED
    BY <1>1, <1>5, <2>1, <2>2, DispatchLeft
<1>6. ASSUME NEW w \in Workers, Work(w)
      PROVE  [Batch!Next]_(Batch!vars)
  <2>1. caller' = caller
    BY <1>6 DEF Work, Enlist, DoJob, JobDone
  <2>2. Alive' = Alive
    <3>1. CASE Enlist(w) \/ DoJob(w)
      BY <3>1 DEF Enlist, DoJob, Alive, At, Inv, Types, WorkerType
    <3>2. CASE JobDone(w)
      BY <3>2 DEF JobDone, Alive, At, Inv, Types
    <3> QED
      BY <1>6, <3>1, <3>2 DEF Work
  <2>3. CASE Left' = Left
    BY <1>1, <2>1, <2>2, <2>3
  <2>4. ASSUME NEW j \in Jobs, j \in Left, Left' = Left \ {j}
        PROVE  Batch!Next
    <3>1. Batch!Do(j)
      BY <1>0, <2>1, <2>2, <2>4 DEF Batch!Do
    <3> QED
      BY <3>1 DEF Batch!Next
  <2> QED
    BY <1>6, <2>3, <2>4, WorkLeft
<1>7. CASE UNCHANGED vars
  BY <1>7 DEF vars, Batch!vars, Left, Queued, Held, JobsAt, At
<1> QED
  BY <1>2, <1>3, <1>4, <1>5, <1>6, <1>7 DEF Next, Over

(* However the jobs are spread over any number of workers, each is done    *)
(* exactly once; no worker is stopped before all are done and none is left *)
(* when Release returns to farmingMetrics.                                 *)
THEOREM Refinement == Spec => BatchSpec
<1>1. Init => Batch!Init
  <2> SUFFICES ASSUME Init
               PROVE  Batch!Init
    OBVIOUS
  <2>1. Inv /\ Low = 1 /\ ~Holding /\ \A w \in Workers : ~At(w, "job")
    BY InitInv DEF Init, Low, Holding, At
  <2>2. \A j : j \in Left <=> j \in Jobs
    BY <2>1, Places DEF PlacesExact, Inv, JobsInv, Waiting, InJob, Jobs
  <2>3. Left = Jobs
    BY <2>2
  <2> QED
    BY <2>3 DEF Init, Batch!Init
<1> QED
  BY <1>1, Invariance, BatchStep, PTL DEF Spec, BatchSpec, Batch!Spec
-----------------------------------------------------------------------------
(* Nobody waits for ever *)

(* With nothing in workerPool and the dispatcher with no worker in its     *)
(* hands, a worker that has not been stopped is on its way back.           *)
LEMMA ComesBack ==
  ASSUME Inv, workerPool = <<>>, dispatcher.at \in {"take", "select", "gather"},
         NEW w \in Alive
  PROVE  WorkerMoves(w)
<1>1. w \in Workers /\ ~At(w, "gone") /\ ~At(w, "stopped")
  BY DEF Alive, Inv, TakingDown
<1>2. dispatcher.worker = None /\ None \notin Workers
  BY PoolAssumption DEF PoolAssumption, Inv, Ready
<1>3. ~At(w, "select")
  <2>1. DOMAIN workerPool = {}
    OBVIOUS
  <2> QED
    BY <1>1, <1>2, <2>1 DEF Inv, Ready, ReadyExact, At
<1>4. At(w, "offer") \/ At(w, "job") \/ At(w, "done")
  BY <1>1, <1>3 DEF At, Inv, Types, WorkerType
<1>5. Len(workerPool) < Cardinality(Workers)
  <2>1. Cardinality(Workers) # 0 /\ Cardinality(Workers) \in Nat
    BY PoolAssumption, FS_EmptySet, SizeType DEF PoolAssumption
  <2> QED
    BY <2>1
<1> QED
  BY <1>4, <1>5 DEF WorkerMoves

(* Somebody can go on until Release has returned to farmingMetrics.        *)
THEOREM NeverStuckAlways == Spec => []NeverStuck
<1>1. Inv => NeverStuck
  <2> SUFFICES ASSUME Inv, caller.at # "returned"
               PROVE  \/ CallerMoves \/ DispatcherMoves
                      \/ \E w \in Workers : WorkerMoves(w)
    BY DEF NeverStuck
  <2>0. /\ caller.at \in {"count", "offer", "wait", "release", "released"}
        /\ dispatcher.at \in {"select", "take", "hand", "gather", "stop",
                              "stopped"}
    BY DEF Inv, Types, CallerType, DispatcherType, JobsInv, Stage
  <2>1. CASE dispatcher.at \in {"hand", "stop", "stopped"}
    <3>1. dispatcher.worker \in Workers
      BY <2>1 DEF Inv, Types, DispatcherType, Ready
    <3> QED
      BY <2>1, <3>1 DEF DispatcherMoves, Inv, Ready, TakingDown
  <2>2. CASE dispatcher.at = "gather"
    <3>1. caller.at = "released"
      BY <2>2 DEF Inv, JobsInv, Stage
    <3>2. CASE dispatcher.togo = 0
      BY <2>2, <3>1, <3>2 DEF CallerMoves
    <3>3. CASE dispatcher.togo # 0
      <4>1. dispatcher.togo > 0 /\ Alive # {}
        <5>1. /\ dispatcher.togo \in 0..Cardinality(Workers)
              /\ dispatcher.togo = Cardinality(Alive)
          BY <2>2 DEF Inv, Types, DispatcherType, TakingDown
        <5> QED
          BY <3>3, <5>1, SizeType, FS_EmptySet
      <4> QED
        BY <2>2, <4>1, ComesBack DEF DispatcherMoves, Alive
    <3> QED
      BY <3>2, <3>3
  <2>3. CASE dispatcher.at = "take"
    <3>1. Alive = Workers /\ Workers # {}
      BY <2>3, PoolAssumption DEF PoolAssumption, Inv, TakingDown
    <3> QED
      BY <2>3, <3>1, ComesBack DEF DispatcherMoves
  <2>4. CASE dispatcher.at = "select"
    <3>1. CASE JobQueue # <<>>
      BY <2>4, <3>1 DEF DispatcherMoves
    <3>2. CASE JobQueue = <<>> /\ caller.at # "wait"
      <4>1. Len(JobQueue) < QueueLen
        BY <3>2, PoolAssumption DEF PoolAssumption
      <4>2. caller.at # "released"
        BY <2>4 DEF Inv, JobsInv, Stage
      <4> QED
        BY <2>0, <2>4, <3>2, <4>1, <4>2 DEF CallerMoves
    <3>3. CASE JobQueue = <<>> /\ caller.at = "wait" /\ wg # 0
      <4>1. Open # {}
        BY <3>3, FS_EmptySet DEF Inv, JobsInv, Counted
      <4>2. PICK j : j \in Open
        BY <4>1
      <4>3. Low = NumJobs + 1 /\ NumJobs \in Nat
        BY <3>3, PoolAssumption DEF PoolAssumption, Inv, JobsInv, Stage, Low
      <4>4. InWork(j)
        BY <2>4, <4>2, <4>3, Places
        DEF PlacesExact, Inv, JobsInv, Waiting, Holding
      <4> QED
        BY <4>4 DEF InWork, Busy, WorkerMoves
    <3> QED
      BY <3>1, <3>2, <3>3 DEF CallerMoves
  <2> QED
    BY <2>0, <2>1, <2>2, <2>3, <2>4
<1> QED
  BY <1>1, Invariance, PTL

(* The channel workerPool has room for every worker that comes back.       *)
THEOREM RoomForAllAlways == Spec => []RoomForAll
<1>1. Inv => RoomForAll
  <2> SUFFICES ASSUME Inv, NEW w \in Workers, At(w, "offer")
               PROVE  Len(workerPool) < Cardinality(Workers)
    BY DEF RoomForAll
  <2> DEFINE n == Len(workerPool)
             pooled == {workerPool[i] : i \in 1..n}
             f == [i \in 1..n |-> workerPool[i]]
  <2>1. n \in Nat /\ DOMAIN workerPool = 1..n
    BY DEF Inv, Types
  <2>2. f \in Bijection(1..n, pooled)
    <3>1. f \in Injection(1..n, pooled)
      BY <2>1 DEF Inv, Ready, ReadyExact, Injection, IsInjective
    <3>2. f \in Surjection(1..n, pooled)
      BY DEF Surjection
    <3> QED
      BY <3>1, <3>2 DEF Bijection
  <2>3. ExistsBijection(1..n, pooled)
    BY <2>2 DEF ExistsBijection
  <2>4. Cardinality(pooled) = n
    <3> HIDE DEF n, pooled, f
    <3>1. 1 \in Int /\ n \in Int /\ n >= 0
      BY <2>1
    <3>2. IsFiniteSet(1..n) /\ Cardinality(1..n) = n
      BY <3>1, FS_Interval
    <3>3. Cardinality(pooled) = Cardinality(1..n)
      BY <2>3, <3>2, FS_Bijection, Zenon
    <3> QED
      BY <3>2, <3>3
  <2>5. pooled \subseteq Workers \ {w}
    BY <2>1 DEF Inv, Types, Ready, ReadyExact, At
  <2>6. /\ IsFiniteSet(Workers \ {w})
        /\ Cardinality(Workers \ {w}) = Cardinality(Workers) - 1
    BY PoolAssumption, FS_RemoveElement DEF PoolAssumption
  <2>7. Cardinality(pooled) <= Cardinality(Workers) - 1
    BY <2>5, <2>6, FS_Subset
  <2> HIDE DEF pooled
  <2> QED
    BY <2>1, <2>4, <2>7, SizeType
<1> QED
  BY <1>1, Invariance, PTL
-----------------------------------------------------------------------------
(* The steps of a batch *)

LEMMA ManyType ==
  ASSUME NEW places
  PROVE  Many(places) \in Nat
<1>1. IsFiniteSet({w \in Workers : worker[w].at \in places})
  BY PoolAssumption, FS_Subset DEF PoolAssumption
<1> QED
  BY <1>1, FS_CardinalityType DEF Many

LEMMA ManySame ==
  ASSUME NEW places,
         \A x \in Workers : worker'[x].at \in places <=> worker[x].at \in places
  PROVE  Many(places)' = Many(places)
<1>1. {x \in Workers : worker'[x].at \in places}
        = {x \in Workers : worker[x].at \in places}
  OBVIOUS
<1> QED
  BY <1>1 DEF Many

(* One worker moves from outside places to inside, or the other way.       *)
LEMMA ManyMoved ==
  ASSUME NEW places, NEW w \in Workers,
         \A x \in Workers : x # w => worker'[x] = worker[x]
  PROVE  /\ worker[w].at \in places /\ worker'[w].at \notin places =>
              Many(places)' = Many(places) - 1
         /\ worker[w].at \notin places /\ worker'[w].at \in places =>
              Many(places)' = Many(places) + 1
<1> DEFINE in == {x \in Workers : worker[x].at \in places}
           new == {x \in Workers : worker'[x].at \in places}
<1>1. IsFiniteSet(in) /\ Cardinality(in) = Many(places)
      /\ Cardinality(new) = Many(places)'
  BY PoolAssumption, FS_Subset DEF PoolAssumption, Many
<1>2. CASE worker[w].at \in places /\ worker'[w].at \notin places
  <2>1. w \in in /\ new = in \ {w}
    BY <1>2
  <2>2. Cardinality(in \ {w}) = Cardinality(in) - 1
    BY <1>1, <2>1, FS_RemoveElement
  <2> QED
    BY <1>1, <1>2, <2>1, <2>2
<1>3. CASE worker[w].at \notin places /\ worker'[w].at \in places
  <2>1. w \notin in /\ new = in \cup {w}
    BY <1>3
  <2>2. Cardinality(in \cup {w}) = Cardinality(in) + 1
    BY <1>1, <2>1, FS_AddElement
  <2> QED
    BY <1>1, <1>3, <2>1, <2>2
<1> QED
  BY <1>2, <1>3

LEMMA WorkerStepsType == WorkerSteps \in Nat
  BY ManyType DEF WorkerSteps

LEMMA WorkerStepsSame ==
  ASSUME worker' = worker
  PROVE  WorkerSteps' = WorkerSteps
  BY ManySame DEF WorkerSteps

PlaceSteps(place) == CASE place = "job"   -> 3
                       [] place = "done"  -> 2
                       [] place = "offer" -> 1
                       [] OTHER           -> 0

(* The steps of a worker that moves.                                       *)
LEMMA WorkerMoved ==
  ASSUME Types, NEW w \in Workers,
         \A x \in Workers : x # w => worker'[x] = worker[x],
         NEW from, NEW to, worker[w].at = from, worker'[w].at = to,
         <<from, to>> \in {<<"offer", "select">>, <<"select", "job">>,
                           <<"job", "done">>, <<"done", "offer">>}
  PROVE  WorkerSteps' = WorkerSteps + PlaceSteps(to) - PlaceSteps(from)
<1> DEFINE A == {"job"} B == {"job", "done"} C == {"job", "done", "offer"}
<1>1. Many(A) \in Nat /\ Many(B) \in Nat /\ Many(C) \in Nat
  BY ManyType
<1>2. WorkerSteps = Many(A) + Many(B) + Many(C)
  BY DEF WorkerSteps
<1>3. WorkerSteps' = Many(A)' + Many(B)' + Many(C)'
  BY DEF WorkerSteps
<1>4. CASE from = "offer" /\ to = "select"
  <2>1. Many(A)' = Many(A) /\ Many(B)' = Many(B)
    BY <1>4, ManySame
  <2>2. Many(C)' = Many(C) - 1
    BY <1>4, ManyMoved
  <2>3. PlaceSteps(to) = 0 /\ PlaceSteps(from) = 1
    BY <1>4 DEF PlaceSteps
  <2> QED
    BY <1>1, <1>2, <1>3, <2>1, <2>2, <2>3
<1>5. CASE from = "select" /\ to = "job"
  <2>1. /\ Many(A)' = Many(A) + 1 /\ Many(B)' = Many(B) + 1
        /\ Many(C)' = Many(C) + 1
    BY <1>5, ManyMoved
  <2>2. PlaceSteps(to) = 3 /\ PlaceSteps(from) = 0
    BY <1>5 DEF PlaceSteps
  <2> QED
    BY <1>1, <1>2, <1>3, <2>1, <2>2
<1>6. CASE from = "job" /\ to = "done"
  <2>1. Many(B)' = Many(B) /\ Many(C)' = Many(C)
    BY <1>6, ManySame
  <2>2. Many(A)' = Many(A) - 1
    BY <1>6, ManyMoved
  <2>3. PlaceSteps(to) = 2 /\ PlaceSteps(from) = 3
    BY <1>6 DEF PlaceSteps
  <2> QED
    BY <1>1, <1>2, <1>3, <2>1, <2>2, <2>3
<1>7. CASE from = "done" /\ to = "offer"
  <2>1. Many(A)' = Many(A) /\ Many(C)' = Many(C)
    BY <1>7, ManySame
  <2>2. Many(B)' = Many(B) - 1
    BY <1>7, ManyMoved
  <2>3. PlaceSteps(to) = 1 /\ PlaceSteps(from) = 2
    BY <1>7 DEF PlaceSteps
  <2> QED
    BY <1>1, <1>2, <1>3, <2>1, <2>2, <2>3
<1> QED
  BY <1>4, <1>5, <1>6, <1>7

(* The parts of StepsLeft are numbers.                                     *)
PartsTyped ==
  /\ CallerSteps \in 0..5
  /\ DispatcherSteps \in -2..5
  /\ WorkerSteps \in Nat
  /\ Len(JobQueue) \in Nat
  /\ caller.next \in 1..NumJobs + 1
  /\ dispatcher.togo \in Nat
  /\ NumJobs \in Nat

LEMMA PartsType == Types => PartsTyped
<1> SUFFICES ASSUME Types
             PROVE  PartsTyped
  OBVIOUS
<1>1. CallerSteps \in 0..5
  BY DEF Types, CallerType, CallerSteps
<1>2. DispatcherSteps \in -2..5
  BY DEF Types, DispatcherType, DispatcherSteps
<1> QED
  BY <1>1, <1>2, WorkerStepsType, PoolAssumption, SizeType
  DEF PoolAssumption, PartsTyped, Types, CallerType, DispatcherType

LEMMA PartsTypeNext == Types' => PartsTyped'
  BY PartsType, PTL

StepsFrom(c, n, l, d, t, s) ==
  c + 7 * (NumJobs + 1 - n) + 6 * l + d + 3 * t + s

LEMMA StepsParts ==
  /\ StepsLeft = StepsFrom(CallerSteps, caller.next, Len(JobQueue),
                           DispatcherSteps, dispatcher.togo, WorkerSteps)
  /\ StepsLeft' = StepsFrom(CallerSteps', caller'.next, Len(JobQueue'),
                            DispatcherSteps', dispatcher'.togo, WorkerSteps')
  BY DEF StepsLeft, StepsFrom

(* How they change when a job is offered, taken, handed and done.         *)
LEMMA StepsNow ==
  ASSUME Types
  PROVE  LET c == CallerSteps      n == caller.next      l == Len(JobQueue)
             d == DispatcherSteps  t == dispatcher.togo  s == WorkerSteps
         IN  /\ StepsFrom(c - 1, n, l, d, t, s) = StepsLeft - 1
             /\ StepsFrom(c, n + 1, l + 1, d, t, s) = StepsLeft - 1
             /\ StepsFrom(c, n, l - 1, d + 5, t, s) = StepsLeft - 1
             /\ StepsFrom(c, n, l, d - 1, t, s) = StepsLeft - 1
             /\ StepsFrom(c, n, l, d - 4, t, s + 3) = StepsLeft - 1
             /\ StepsFrom(c, n, l, d + 2, t - 1, s) = StepsLeft - 1
             /\ StepsFrom(c, n, l, d, t, s - 1) = StepsLeft - 1
<1> DEFINE c == CallerSteps      n == caller.next      l == Len(JobQueue)
           d == DispatcherSteps  t == dispatcher.togo  s == WorkerSteps
<1>1. /\ c \in Int /\ d \in Int /\ s \in Int
      /\ l \in Int /\ n \in Int /\ t \in Int
  BY PartsType DEF PartsTyped
<1>2. /\ StepsLeft = StepsFrom(c, n, l, d, t, s)
      /\ NumJobs \in Int
  BY StepsParts, PoolAssumption DEF PoolAssumption
<1> HIDE DEF c, n, l, d, t, s
<1>3. /\ StepsFrom(c - 1, n, l, d, t, s) = StepsLeft - 1
      /\ StepsFrom(c, n + 1, l + 1, d, t, s) = StepsLeft - 1
      /\ StepsFrom(c, n, l - 1, d + 5, t, s) = StepsLeft - 1
      /\ StepsFrom(c, n, l, d - 1, t, s) = StepsLeft - 1
      /\ StepsFrom(c, n, l, d - 4, t, s + 3) = StepsLeft - 1
      /\ StepsFrom(c, n, l, d + 2, t - 1, s) = StepsLeft - 1
      /\ StepsFrom(c, n, l, d, t, s - 1) = StepsLeft - 1
  BY <1>1, <1>2 DEF StepsFrom
<1> QED
  BY <1>3 DEF c, n, l, d, t, s

LEMMA CallerCounted ==
  ASSUME Types, Types', Caller
  PROVE  StepsLeft' = StepsLeft - 1
<1>1. /\ WorkerSteps' = WorkerSteps /\ dispatcher'.togo = dispatcher.togo
      /\ DispatcherSteps' = DispatcherSteps
  <2>1. worker' = worker
    BY DEF Caller, WaitCount, Offer, Offered, WaitAll, Release, Released
  <2>2. \/ dispatcher' = dispatcher
        \/ /\ dispatcher.at = "select" /\ dispatcher'.at = "gather"
           /\ dispatcher'.togo = dispatcher.togo
        \/ /\ dispatcher.at = "gather" /\ dispatcher'.at = "gone"
           /\ dispatcher'.togo = dispatcher.togo
    BY DEF Caller, WaitCount, Offer, Offered, WaitAll, Release, Released, Types,
           DispatcherType
  <2> QED
    BY <2>1, <2>2, WorkerStepsSame DEF DispatcherSteps
<1>2. \/ /\ CallerSteps' = CallerSteps - 1 /\ caller'.next = caller.next
         /\ JobQueue' = JobQueue
      \/ /\ CallerSteps' = CallerSteps /\ caller'.next = caller.next + 1
         /\ Len(JobQueue') = Len(JobQueue) + 1
  <2>1. CASE Offer
    <3>1. Len(JobQueue') = Len(JobQueue) + 1
      BY <2>1 DEF Offer, Types
    <3>2. /\ CallerSteps' = CallerSteps /\ caller'.next = caller.next + 1
      BY <2>1 DEF Offer, Types, CallerType, CallerSteps
    <3> QED
      BY <3>1, <3>2
  <2>2. CASE WaitCount \/ Offered
    BY <2>2 DEF WaitCount, Offered, Types, CallerType, CallerSteps
  <2>3. CASE WaitAll \/ Release \/ Released
    BY <2>3 DEF WaitAll, Release, Released, Types, CallerType, CallerSteps
  <2> QED
    BY <2>1, <2>2, <2>3 DEF Caller
<1> QED
  BY <1>1, <1>2, StepsNow, StepsParts

LEMMA DispatchCounted ==
  ASSUME Types, Types', Dispatch
  PROVE  StepsLeft' = StepsLeft - 1
<1>0. caller' = caller /\ CallerSteps' = CallerSteps
  BY DEF Dispatch, TakeJob, TakeWorker, Hand, Stop, Stopped, CallerSteps
<1>1. CASE TakeJob
  <2>1. Len(JobQueue') = Len(JobQueue) - 1
    BY <1>1 DEF TakeJob, Types
  <2>2. /\ DispatcherSteps' = DispatcherSteps + 5
        /\ dispatcher'.togo = dispatcher.togo
    BY <1>1 DEF TakeJob, DispatcherAt, DispatcherSteps
  <2>3. WorkerSteps' = WorkerSteps
    BY <1>1, WorkerStepsSame DEF TakeJob
  <2> QED
    BY <1>0, <2>1, <2>2, <2>3, StepsNow, StepsParts
<1>2. CASE TakeWorker
  <2>1. /\ DispatcherSteps' = DispatcherSteps - 1
        /\ dispatcher'.togo = dispatcher.togo
    BY <1>2 DEF TakeWorker, DispatcherAt, DispatcherSteps
  <2>2. WorkerSteps' = WorkerSteps /\ JobQueue' = JobQueue
    BY <1>2, WorkerStepsSame DEF TakeWorker
  <2> QED
    BY <1>0, <2>1, <2>2, StepsNow, StepsParts
<1>3. ASSUME NEW w \in Workers, Hand(w)
      PROVE  StepsLeft' = StepsLeft - 1
  <2>1. /\ worker[w].at = "select" /\ worker'[w].at = "job"
        /\ \A x \in Workers : x # w => worker'[x] = worker[x]
    BY <1>3 DEF Hand, Types
  <2>2. PlaceSteps("job") = 3 /\ PlaceSteps("select") = 0
    BY DEF PlaceSteps
  <2>3. WorkerSteps' = WorkerSteps + 3
    BY <2>1, <2>2, WorkerMoved, WorkerStepsType
  <2>4. /\ DispatcherSteps' = DispatcherSteps - 4
        /\ dispatcher'.togo = dispatcher.togo /\ JobQueue' = JobQueue
    BY <1>3 DEF Hand, DispatcherAt, DispatcherSteps
  <2> QED
    BY <1>0, <2>3, <2>4, StepsNow, StepsParts
<1>4. ASSUME NEW w \in Workers, Stop(w) \/ Stopped(w)
      PROVE  StepsLeft' = StepsLeft - 1
  <2> DEFINE resting == {"select", "stopped", "gone"}
  <2>1. /\ worker[w].at \in resting /\ worker'[w].at \in resting
        /\ \A x \in Workers : x # w => worker'[x] = worker[x]
    BY <1>4 DEF Stop, Stopped, Types, WorkerType
  <2>2. WorkerSteps' = WorkerSteps
    BY <2>1, ManySame DEF WorkerSteps
  <2>3. JobQueue' = JobQueue
    BY <1>4 DEF Stop, Stopped
  <2>4. CASE Stop(w)
    <3>1. /\ DispatcherSteps' = DispatcherSteps - 1
          /\ dispatcher'.togo = dispatcher.togo
      BY <2>4 DEF Stop, DispatcherSteps, Types, DispatcherType
    <3> QED
      BY <1>0, <2>2, <2>3, <3>1, StepsNow, StepsParts
  <2>5. CASE Stopped(w)
    <3>1. /\ DispatcherSteps' = DispatcherSteps + 2
          /\ dispatcher'.togo = dispatcher.togo - 1
      BY <2>5 DEF Stopped, DispatcherAt, DispatcherSteps
    <3> QED
      BY <1>0, <2>2, <2>3, <3>1, StepsNow, StepsParts
  <2> QED
    BY <1>4, <2>4, <2>5
<1> QED
  BY <1>1, <1>2, <1>3, <1>4 DEF Dispatch

LEMMA WorkCounted ==
  ASSUME Types, Types', NEW w \in Workers, Work(w)
  PROVE  StepsLeft' = StepsLeft - 1
<1>1. /\ caller' = caller /\ JobQueue' = JobQueue /\ dispatcher' = dispatcher
      /\ CallerSteps' = CallerSteps /\ DispatcherSteps' = DispatcherSteps
  BY DEF Work, Enlist, DoJob, JobDone, CallerSteps, DispatcherSteps
<1>2. WorkerSteps' = WorkerSteps - 1
  <2>1. \A x \in Workers : x # w => worker'[x] = worker[x]
    BY DEF Work, Enlist, DoJob, JobDone, Types
  <2>2. /\ PlaceSteps("select") = 0 /\ PlaceSteps("offer") = 1
        /\ PlaceSteps("done") = 2 /\ PlaceSteps("job") = 3
    BY DEF PlaceSteps
  <2>3. CASE Enlist(w)
    <3>1. worker[w].at = "offer" /\ worker'[w].at = "select"
      BY <2>3 DEF Enlist, Types, WorkerType
    <3>2. WorkerSteps' = WorkerSteps + 0 - 1
      BY <2>1, <2>2, <3>1, WorkerMoved
    <3> QED
      BY <3>2, WorkerStepsType
  <2>4. CASE DoJob(w)
    <3>1. worker[w].at = "job" /\ worker'[w].at = "done"
      BY <2>4 DEF DoJob, Types, WorkerType
    <3>2. WorkerSteps' = WorkerSteps + 2 - 3
      BY <2>1, <2>2, <3>1, WorkerMoved
    <3> QED
      BY <3>2, WorkerStepsType
  <2>5. CASE JobDone(w)
    <3>1. worker[w].at = "done" /\ worker'[w].at = "offer"
      BY <2>5 DEF JobDone, Types
    <3>2. WorkerSteps' = WorkerSteps + 1 - 2
      BY <2>1, <2>2, <3>1, WorkerMoved
    <3> QED
      BY <3>2, WorkerStepsType
  <2> QED
    BY <2>3, <2>4, <2>5 DEF Work
<1> QED
  BY <1>1, <1>2, StepsNow, StepsParts

LEMMA StepCounted ==
  ASSUME Types, Types', Next
  PROVE  StepsLeft' = StepsLeft - 1 \/ UNCHANGED vars
  BY CallerCounted, DispatchCounted, WorkCounted DEF Next, Over

(* Each step of any interleaving is one of those that were still to come.  *)
THEOREM StepsCountedAlways == Spec => StepsCounted
<1>1. Inv /\ Inv' /\ [Next]_vars => [StepsLeft' = StepsLeft - 1]_vars
  BY StepCounted DEF Inv
<1> QED
  BY <1>1, Invariance, PTL DEF Spec, StepsCounted
(* The steps still to come are never fewer than none, and when there is    *)
(* none left Release has returned.                                         *)
LEMMA StepsEnough ==
  ASSUME Inv
  PROVE  StepsLeft \in Nat /\ (StepsLeft = 0 => caller.at = "returned")
<1>1. PartsTyped
  BY PartsType DEF Inv
<1> DEFINE c == CallerSteps      m == NumJobs + 1 - caller.next
           l == Len(JobQueue)    s == WorkerSteps
           d == DispatcherSteps  g == dispatcher.togo
<1>2. /\ c \in Nat /\ m \in Nat /\ l \in Nat /\ s \in Nat
  BY <1>1 DEF PartsTyped
<1>3. d \in Int /\ g \in Int /\ d + 3 * g \in Nat
  <2>1. dispatcher.at \in {"stop", "stopped"} => dispatcher.togo >= 1
    <3> SUFFICES ASSUME dispatcher.at \in {"stop", "stopped"}
                 PROVE  dispatcher.togo >= 1
      OBVIOUS
    <3>1. dispatcher.worker \in Alive
      BY DEF Inv, Ready, TakingDown, Alive, At, Types, DispatcherType
    <3>2. dispatcher.togo = Cardinality(Alive) /\ Cardinality(Alive) \in Nat
      BY AliveFinite, FS_CardinalityType DEF Inv, TakingDown
    <3>3. Cardinality(Alive) # 0
      BY <3>1, AliveFinite, FS_EmptySet
    <3> QED
      BY <3>2, <3>3
  <2>2. DispatcherSteps < 0 => dispatcher.at \in {"stop", "stopped"}
    BY DEF DispatcherSteps, Inv, Types, DispatcherType
  <2> QED
    BY <1>1, <2>1, <2>2 DEF PartsTyped
<1>4. StepsLeft = c + 7 * m + 6 * l + d + 3 * g + s
  BY DEF StepsLeft
<1>5. c = 0 => caller.at = "returned"
  BY DEF CallerSteps, Inv, Types, CallerType
<1> HIDE DEF c, m, l, d, g, s
<1> QED
  BY <1>2, <1>3, <1>4, <1>5

LEMMA FirstSteps == Init => StepsLeft = AllSteps
<1> SUFFICES ASSUME Init
             PROVE  StepsLeft = AllSteps
  OBVIOUS
<1> DEFINE W == Cardinality(Workers)
<1>1. CallerSteps = 5 /\ DispatcherSteps = 0
  BY DEF Init, CallerSteps, DispatcherSteps
<1>2. WorkerSteps = W
  <2>1. /\ {w \in Workers : worker[w].at \in {"job"}} = {}
        /\ {w \in Workers : worker[w].at \in {"job", "done"}} = {}
        /\ {w \in Workers : worker[w].at \in {"job", "done", "offer"}} = Workers
    BY DEF Init
  <2>2. /\ Many({"job"}) = 0 /\ Many({"job", "done"}) = 0
        /\ Many({"job", "done", "offer"}) = W
    BY <2>1, FS_EmptySet DEF Many
  <2> QED
    BY <2>2, SizeType DEF WorkerSteps
<1>3. caller.next = 1 /\ Len(JobQueue) = 0 /\ dispatcher.togo = W
  BY DEF Init
<1>4. NumJobs \in Nat /\ W \in Nat
  BY PoolAssumption, SizeType DEF PoolAssumption
<1> QED
  BY <1>1, <1>2, <1>3, <1>4 DEF StepsLeft, AllSteps

(* A batch of any size ends: it has AllSteps steps at the most, and while  *)
(* it has not returned one of them can be taken.                           *)
THEOREM StepsBoundedAlways == Spec => []StepsBounded
<1> DEFINE Few == StepsLeft <= AllSteps
<1>1. AllSteps \in Nat
  BY PoolAssumption, SizeType DEF PoolAssumption, AllSteps
<1>2. Init => Few
  BY <1>1, FirstSteps
<1>3. Inv /\ Inv' /\ Few /\ [Next]_vars => Few'
  <2>1. ASSUME UNCHANGED vars
        PROVE  StepsLeft' = StepsLeft
    <3>1. /\ CallerSteps' = CallerSteps /\ DispatcherSteps' = DispatcherSteps
          /\ WorkerSteps' = WorkerSteps
      BY <2>1, WorkerStepsSame DEF vars, CallerSteps, DispatcherSteps
    <3> QED
      BY <2>1, <3>1 DEF vars, StepsLeft
  <2> QED
    BY <1>1, <2>1, StepCounted, StepsEnough DEF Inv
<1>4. Inv /\ Few => StepsBounded
  BY <1>1, StepsEnough DEF StepsBounded
<1> QED
  BY <1>2, <1>3, <1>4, Invariance, PTL DEF Spec
=============================================================================
