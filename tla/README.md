# IZONE, specified

TLA+ specifications of IZONE, the Go program that watches
Deployments, StatefulSets, Pods, nodes and MySQL databases from inside a
cluster, scales what it is told to scale and reports to Slack. The
specifications are written from the code; line numbers below are lines of
files under `src/`.

## The system

`cmd/main.go` starts the parts and hands the items of `izone.yaml` to
`internal/role`, which registers one watcher per item. A watcher is a goroutine
with a ticker. All of them talk to the API server, and report through a few
unbuffered channels.

| Component | State | Operations | Talks to |
|---|---|---|---|
| Startup, `cmd/main.go`, `internal/channel` | where main is | `main`, `channel.On` | receives `ErrCh`, `WarnCh`, `InfoCh` from everybody |
| Role assignment, `internal/role`, `pkg/loader` | the items | `SetRole`, `ensureRole` | calls every `Register...` in turn |
| Deployment watch, `k8s/deployment.go` | `deployments.groups` under `deployments.mu`; per item: listed pods, ticker, `archive` | `RegisterDeployments`, `timestart`, `inspection`, `scaleoutinspection`, `scaleupinspection`, `release`, `refresh` | the API server, `slack.Channel`, `ErrCh` |
| Replica count, `k8s/deployment.go:480-510, 701-707` | the object in the cluster | `increaseReplica`, `decreaseReplica`, `resourcesApply` | API server, with retries on conflict |
| Statefulset watch, `k8s/statefulset.go` | `statefulsets.groups`, as above | as above | as above |
| Pod watch, `k8s/pod.go` | `pods.groups`; per item `archive` | `RegisterPods`, `inspection`, `release` | API server, `slack.Channel`, `ErrCh` |
| Node watch, `k8s/node.go` | none | `RegisterNode`, `watch` | API server, `slack.Channel` |
| Slack publisher, `pkg/slack` | none | `publisher`, `apiWebHook` | receives `slack.Channel`, posts to Slack |
| MySQL hub, `hub` | `mysqlorg.connections` under its lock, four channels per connection | `MysqlConnector`, `monitoring`, `farmingMetrics`, `realtimePusher` | the work pool, the aggregator |
| Work pool, `pkg/workpool` | job queue, ready workers, wait group | `NewPool`, `WaitCount`, `JobDone`, `WaitAll`, `Release` | called by `farmingMetrics` |
| Aggregator, `internal/aggregator` | an in-memory database with one writer lock | `Write...`, `Flush` | called by `realtimePusher` |
| Logger, `pkg/log` | level, named children | `Log` and its kin, `SetLevel`, `Child`, `LastChild` | called by everybody |

What is hard in it:

* **Concurrent writers of one count.** Items may name the same object
  (`example.izone.yaml` has two for `busybox`), users scale by hand, and every
  write is a Get followed by an Update that can conflict, fail, or take effect
  without its answer arriving.
* **Decisions on old readings.** A pass decides twice on what it read at its
  start; the list of pods it decides by is from its registration; the cool-down
  is a time set in another pass.
* **Registration against release.** A watcher runs before it is in the
  registry, may leave it at once, and is told to stop by a ticker whose last
  tick may already be waiting.
* **Locks and channels.** One mutex taken by main, by `release` and by `refresh`
  across requests; unbuffered channels with a single receiver; a pool whose
  caller, dispatcher and workers wait for each other and then take each other
  down; rows sent on channels without a buffer to a goroutine that writes each
  in a transaction.
* **Goroutines that never come back.** `channel.On` and `realtimePusher` are
  endless loops, and both are called by main itself.
* **Check-then-act.** A logger's children are looked up and added in two
  critical sections, its level is read twice by each call without one.

What makes each part correct: the count changes by one per successful call and
by nothing otherwise; a pass does not work against itself, keeps the cool-down
and reports what it did; the registry holds exactly the watchers that run; the
lock is held where it must be and let go; every job is done once and the pool
leaves nothing behind; a row that is read is logged, once and in order; a name
has one logger, and a line is printed at the levels that ask for it; and what
is begun ends.

`PROJECT.json` lists, under `hazards`, the places in the code where these could
go wrong, each with the properties that watch it.

## The modules

| Module | What it is |
|---|---|
| `ReplicaCounter` | abstract: an atomic replica count that watchers raise, lower or rewrite |
| `ReplicaScale` | detailed: `increaseReplica`, `decreaseReplica` and `resourcesApply` as retried requests |
| `DeploymentWatch` | the watchers of one Deployment, on top of `ReplicaScale` (`Scale == INSTANCE ReplicaScale`), with main's registration loop |
| `WorkloadWatch` | Deployments and StatefulSets together: two instances of `DeploymentWatch` and the main goroutine they share |
| `ScaleUp` | the SCALE_UP pass for several watchers of one object, on top of `ReplicaScale` |
| `Publisher` | `slack.Channel` and the one goroutine that receives from it |
| `PodWatch` | the watchers of Pods and nodes, with main's registration loop, on top of `Publisher` |
| `JobBatch` | abstract: a set of jobs, each done once, and workers that end afterwards |
| `WorkPool` | detailed: `pkg/workpool` and `farmingMetrics` |
| `MysqlHub` | `hub/mysql.go` from the connector to the pusher, with the aggregator it writes to |
| `Startup` | `cmd/main.go` and `channel.On` |
| `Logger` | one logger of `pkg/log` under concurrent use |
| `ReplicaScaleProofs`, `DeploymentWatchProofs`, `WorkloadWatchProofs`, `ScaleUpProofs`, `PodWatchProofs`, `WorkPoolProofs`, `MysqlHubProofs`, `LoggerProofs` | the theorems |
| `MCReplicaScale`, `MCDeploymentWatch`, `MCWorkloadWatch`, `MCScaleUp`, `MCPodWatch`, `MCWorkPool`, `MCMysqlHub`, `MCStartup`, `MCLogger` | the instances TLC checks |

Operators whose names end in `Mutant` are plausible slips in the definition
that follows them. They are not part of any specification; each is there to
show that a property notices it.

### ReplicaScale

`obj` is the Deployment in the cluster: whether it exists, its `spec.replicas`
and who wrote it last (which the server keeps as `managedFields`).
`call[w]` is the call watcher `w` has under way. A call is a Get, a change of
the copy, an Update, and on a conflict all of it again (`resourcesApply`: the
Update again, with the same copy). `Answer(w)` is one answer of the server.
Instead of a resource version that grows without bound, a copy carries `fresh`,
whether nobody has written since it was read; the two fields `foreign` and
`wrote` count the writes of others during an attempt sequence and the own ones,
and serve the properties. An Update is refused when the object is gone, the
copy is not fresh or the count is negative; anything may fail besides, and an
Update that took effect may be reported as an error. `Cluster` is
everybody else: edits, status updates, deletion, creation.

`Ceiling` is the literal 10 of line 487 and `Steps` the 5 attempts of
`retry.DefaultRetry`, both constants.

### DeploymentWatch

One watcher is in one of the places of `Places`: not started, at its ticker,
in one of the steps of a pass, in a release, or in the send on `d.errCh`.
The steps follow the code between the points where another goroutine can
interfere: the read of the object (`Exists`, `ExistsFails`), the inspection of
the pods together with the first decision (`Raises`, `RaisesNot`,
`FindsAbnormal`), the return of that call (`Raised`), the second decision and
its return (`Lowers`, `LowersNot`, `Lowered`), the sends to Slack, and
`Locks`/`Removes`/`Locks`/`Relists` for `release` and the `refresh` that always
follows. `timer[w]` is the ticker with its one-slot channel, `reg` is where
main is in its loop over the items, `mu` the holder of `deployments.mu`.

`over` is the larger of `cpuoverflow` and `memoverflow`. The first decision is
a disjunction that is monotone in both, and the second asks whether both are
zero, so that nothing else of the two numbers is observable. At
level 3 `replicaInspection` returns before it reads a usage, so that `over` is 0, unless
a limit is below 0 (`belowZero`), which every pod is over at any level.

`watch[w].replica` is `archive.Replica`. It outlives the pass: `Exists` puts the old
value by as `pre` (`preCommitReplica`) before it reads the count anew, a call that
returns nil moves it by one and sets `changed`, and `Tells` is what the report makes of
the three. `hist[w].known` says that nobody else has moved the count since this watcher
last read or moved it and that no answer was lost, `hist[w].kept` that it was so when
the pass began. `ReportHonest` is about both counts and the direction, and says nothing of
the first count where it cannot: see "Where the code and its words part" below.

`age[w]` is the time since `archive.Mediate`, told apart up to `Horizon`, which is
at least every `ScaleDownInterval`. `hist` is history for the properties and
is read by no guard.

The send on `d.errCh` has no step that leads out of it. That channel is created
without a buffer and received from only later in the same function.

Left out: the texts of the reports, the readings except `over`, and
the receivers of `ErrCh`, `WarnCh` and `slack.Channel`, which take what they are
sent. The SCALE_UP pass has a module of its own, `ScaleUp`.

### WorkloadWatch

`statefulset.go` is `deployment.go` again, with another registry
(`statefulsets`) and another lock. So the two kinds are two instances of
`DeploymentWatch`, each with variables of its own (`dGroups`, `sGroups`, ...),
and what is modelled here is how they meet: one main registers the items of both kinds
in any order (`SetRole` ranges over a map), one at a time, and takes both locks.
The actions of a StatefulSet are named after the parts of its file, so that each has
its lines. In the run the items only report; what their scaling does is the
business of the runs of `DeploymentWatch`, and `StatefulsetsDecide` carries it over
for any items. That the two files agree was read and is not checked: an identifier left
over from the other file would not show here.

### ScaleUp

A pass reads the object (`Exists`), takes a set of readings per pod and kind of resource,
compares, and perhaps redefines the resources of its copy and writes it
(`Inspects`, `Calling`, `Applied`). `applies[w]` is history, how often a pass got so far.
The pass of a StatefulSet (statefulset.go:519-697) is that of deployment.go line
for line, with the names changed, so that the module is about it too. `Least` is the loop of lines 544-559 over
the pods: a minimum that starts at 0. `limit[w]` is the pair `LimitCpuUsage`,
`LimitMemoryUsage`, which a pass overwrites; `seen[w]` is the copy it
read and whether the server would still take it. Requests and limits of a container are
always written together, so that `res` has one number for both. The call is that of `ReplicaScale`,
which sends the copy again after a conflict. What precedes the
first tick and what a release does to registry and lock is in
`DeploymentWatch`; here a release stops the ticker and lists more pods.

### Publisher and PodWatch

`waiting` is the line of goroutines blocked in a send on `slack.Channel`, in the
order Go serves them, `posting` the sender whose form `apiWebHook` has. A POST
ends with any answer of the server, or it fails and the goroutine panics on
the nil response (slack.go:41); then `up` is false and nothing happens any more. `taken` is
history for `FairShare`.

In `PodWatch` a goroutine is at its ticker, in a pass (`inspect`), in a send (`report`,
`alert`) or in its release (`lock`, `remove`). A Pod that is abnormal is alerted and then
released like one that cannot be read (`CheckFails`, `Alerted`); a node
item only reports. Of `archive` the model keeps whether `Status` is still
empty, which decides whether level 2 reports. `reg`, `mu`, `groups` and `timer` are as in
`DeploymentWatch`. Left out are the usages and texts, and the receiver of `ErrCh` and
`WarnCh`, which takes what it is sent.

### WorkPool

`caller` is `farmingMetrics`; `JobQueue`, `workerPool` and `wg` are the pool's;
`dispatcher` and `worker` hold each goroutine's place and what it has in its
hands. A send and a receive on a channel without a buffer are one step of both
goroutines (`Hand`, `Stop`, `Stopped`, `Release`, `Released`). `Over` is the
pool after `farmingMetrics` has returned. The caller makes a new pool at
every tick, never two at a time, so one batch is all there is to it.

### MysqlHub

`reg` is main in `SetRole`: items that are not MySQL return, a MySQL item whose
connection cannot be opened returns an error that `SetRole` ignores (role.go:101),
and the first one that can be opened keeps main in `realtimePusher` for ever. It
holds `mysqlorg.mu` all the time, but nobody is left who would ask for it. So one
connection at most is ever watched, and the module follows that one.

`batch` and `farming` are its ticker loop, `query[k]` is one of the four jobs of a
batch: its query fails or answers, and each row is sent, or passed over because
it cannot be scanned. How the pool runs the jobs and is taken down is `WorkPool`;
here the jobs run side by side and the batch ends when all are done, as
`JobBatch` promises. `pusher` is main in its loop and in the `Write...` it
calls, `writer` the writer lock of the database, `log` the table.

`built` is whether `vdb.V` is a database. `Load` gives go-memdb a schema without
an index named `id`, which that library refuses, and main goes on with a warning; what
the library does is not in this repository, so both outcomes are modelled. (The
index also names the field `label`, where the exported one is `Label`; and
`VdbColumn` stores the label in place of the text, db.go:51.) An Insert may fail:
then the function returns without `Abort`, and `LeftOpen` says that the lock is
held by nobody who would give it back. No row has `fetch` set (it is only tested,
never assigned), so that `Flush` is never called and the log only grows.

### Startup

`main` is where main is. It calls `channel.On()` on its own goroutine before
anything else, and On has no way out. So no action leads from `"on"` to the
next place. The actions after it are main's steps as they would follow, and
those of the goroutines they would start. (Go's runtime may even end such a process
as deadlocked: nobody is left to send.) All other modules are about
their part of the system as if startup reached it.

### Logger

`level`, `Items` and `ordered` (`itemsOrdered`) are the fields of one Logger
and its `loggerMap`; a critical section under a lock is one step. `call[c]` is the
call goroutine `c` has under way: `Child` between its look-up and its addition
(`Misses`, `Clone`, `Adds`), `LastChild` between its count and its look-up
(`Counts`, `GetByIndex`), or a log call between the two reads of the level and its
write. A level is a number as in level.go, a name `ParseLevel` does not know is
`disable`. `yes`, `no` and `printed` are history for `LevelRespected`.

`LevelRespected` is about what is printed; when a `Fatal` ends the process is in the
actions and in "Where the code and its words part" below. The module keeps neither how
a line looks nor where it goes.

## The runs

| Run | Instance | What it shows |
|---|---|---|
| `replica_scale` | 2 watchers, a ceiling of 2, 2 attempts, edits from outside to 0 and 3 | `Coherent`, `WrittenOnce`, `ConflictEarned`; the calls implement `ReplicaCounter`; every call returns |
| `deployment_scaling` | one scaling watcher with level 2, 1 or 2 pods per answer, a ceiling of 2, 2 attempts, edits to 0 and 1, ages 0 and 1 | `NoBothWays`, `ReportHonest`, `CoolsDown`; its passes end |
| `deployment_registry` | two reporting watchers, 1 pod per answer | `GroupsExact`, `LatePassBound`; registration ends, a released watcher leaves the registry |
| `max_replicas` | one watcher with the numbers of `example.izone.yaml` and the real limit 10 | a violation: the count passes `max_replicas: 9` |
| `abnormal_report` | one watcher | a violation: an abnormal replica is never reported |
| `workload_watch` | one Deployment and one StatefulSet that report, one pod each, one attempt | `StatefulsetsExact`, `OneLockAtATime`, `ReleaseUndisturbed` |
| `scale_up` | two watchers of one object, one with a cpu limit of -1, 2 attempts, usages 0 and 150, edits of a resource to 1 or to nothing | `AppliesOnce`, `TakesNothingBack` |
| `pod_watch` | a Pod of level 2 and two nodes | `PodsExact`, `TwoAlerts`, `FairShare`; registration and releases go on even if a POST hangs; every report is taken if none does |
| `work_pool` | 3 workers, 4 jobs, a queue of 2 | `ReadyExact`; the pool implements `JobBatch`; `farmingMetrics` returns |
| `mysql_hub` | a MySQL item and another, two of the four queries, two rows each, two batches | `RowsAccounted`, `InOrder`; every batch ends; main gets as far as it can |
| `logger` | three callers, two keys, lines at two levels, three names for `SetLevel`, one of them unknown | `OrderExact`, `LastKnown`, `Settles`, `LevelRespected` |
| `startup` | one item | a violation: the roles are never assigned |

Why the bounds are enough. Two watchers and an outside writer are
all the parties a conflict has; with two attempts a call sees a first attempt, a
retry and the end of its retries, and the counts 0 and 3 of the edits lie below
and above everything a watcher would do. To a pass of one watcher the writes of a second are those of
anybody outside, and what the calls of several do to each other is the business
of `replica_scale` (`ImplementsScale` carries it over for any number); so
`deployment_scaling` has one watcher that scales, and the registry runs have
two that meet at the lock and at a list of two. A list of 1 to 4 pods (1 or 2
at registration and as many again at a refresh, which appends) lies at
and above a `MinReplicas` of 1 and below, at and above a `MaxReplicas` of 3, and
0..list overloaded pods make either decision go either way. An age of
one step is past the cool-down of one step. `workload_watch` needs one item of each kind, since
several of one kind are the business of `deployment_registry`. In `scale_up` a
limit below 0 is the only kind that is ever passed, and one watcher has one such
limit and one that is not; usages above and below every limit, two attempts and
an outside writer make stale copies that are sent again. In `pod_watch` the Pod and
main contend for the lock, and with the nodes three senders stand in line, so that one
can be overtaken by two; a third alert or a second turn would be the next tick's, and
ticks are not bounded. Several Pods, whose registry is that of several
Deployments, are left to the theorems: two of them with a node are some 700,000
states. In `mysql_hub` two queries with two rows are enough to be
received in any mixture, and a second batch to be mixed with the first; the bound
`Batches` stops the ticker, which never needs to tick. In `logger` two callers race
to add one key while a third asks; symmetry is sound there, since neither callers nor
keys are told apart and `Settles` is about single steps. The pool has fewer
workers and a shorter queue than jobs, so that everybody waits for everybody;
with the 4, 4, 4 of `farmingMetrics` less happens. What the bounds leave open
the theorems close: they hold for every value.

**Fairness.** `FairSpec` of `DeploymentWatch` assumes that each watcher's goroutine runs
when it can and that main does: Go's scheduler is fair to runnable goroutines
and `sync.Mutex` to those that wait for it. It also assumes that every request
is answered, with an error perhaps, and that reports are received. Nothing
makes a ticker tick, or the cluster change; nothing is assumed about which
answer comes. Weak fairness of a goroutine is enough for the lock in
`deployment_registry`, since every holder lets go and is seldom back.
`WorkloadWatch` assumes the same of main and of the goroutines of Deployments and nothing of those
of StatefulSets, whose requests may hang: that is the question it asks.
`PodWatch` assumes that main, the goroutines and the receive of the publisher go on, and
nothing of a POST: `RegistryGoesOn` holds with one that hangs, and `ReportTaken`
has as its premise that none does. It has no deadlock check, since the process may end, and
its liveness properties promise something only while it is up.
`ScaleUp` and `Logger` state no liveness and assume no fairness. In
`WorkPool` the caller, the dispatcher and the workers run and a job ends. In
`MysqlHub` main and the jobs run and the server answers a query, with an error
perhaps; nothing makes the ticker tick. In `Startup` main runs whenever it can.

**Where the system may stop.** Deadlock is checked except where the code can really
come to rest: `mysql_hub` after a panic, after an Insert that failed, or when its batches
are over; `logger` after a Fatal; `pod_watch` after a failed POST; `startup`, whose
main waits where nobody sends. The end of `farmingMetrics` in `work_pool` is a step of its own (`Over`).

**The three violations.** `RoleAssigned`: main announces at main.go:50 that the roles have been
assigned, and is in `channel.On()` (line 27) for ever. `MaxReplicasKept`: `len(d.replicas)` is the number of pods at
registration, so that the test against `MaxReplicas` (line 315) never changes
its mind while the count grows; `role.go:131` announces a maximum of 9 "set
automatically", but `ensureRole` sets nothing, and the 10 of line 487 is what
stops it. `AbnormalReported`: the send on `d.errCh` (lines 195 and 292).

## Where the code and its words part

The three violations have runs and are the findings of `PROJECT.json`. Three more
disagreements came up while the modules were written. They have no run of their own; the
modules do what the code does.

* **SCALE_UP changes nothing.** The comment on `scaleupinspection`
  (deployment.go:522-528, statefulset.go:512-518) says that the resources of all
  replicas are increased when one needs more. The minimum that is compared with the
  limits starts at 0 (lines 538-559), so that a limit of 0 or more is never passed: a
  SCALE_UP item with limits that make sense never writes the object. `ScaleUp` states it
  as `QuietWithLimits`, and `QuietWithLimitsAlways` proves it.
* **The direction of a report.** `increase replicas 0 -> n` is what the first pass says
  when it has lowered the count: `preCommitReplica` is the `archive.Replica` of the last
  pass (deployment.go:286), which there has not been (lines 394-399, 435-440). In the same
  way a pass that finds the count moved by somebody else may name the wrong direction.
  `ReportHonest` says what the first count is when neither is the case.
* **`Fatal` at level `disable` returns.** The comments on `Fatal` and `Fatalf` say that
  `os.Exit(1)` is called "no matter the level of the logger" (logger.go:423, 430), and
  level.go:37 says it of the level. `Log` returns before it gets to `print` when the
  level of the logger is `disable` (lines 405-407; `LogReturns`), and with it `Fatal`.

## The proofs

All theorems are about the specifications as they are checked, for any number
of watchers, workers and jobs and any configuration. They assume what the modules' `ASSUME`s say
(`ScaleAssumption`, `WatchAssumption`, `PodAssumption`, `PoolAssumption`, `HubAssumption`,
`LoggerAssumption`): numbers are numbers,
`Steps` and `QueueLen` are positive, and model values differ.

* **`ReplicaScaleProofs`.** `Inv` adds to the properties what makes them
  inductive: a copy is fresh only if nobody wrote since its Get, so that a fresh
  copy differs from the object by exactly its change, and a call that
  goes on has not written. From it follow `TypeCorrect`, `CoherentAlways`,
  `WrittenOnceAlways`, `ConflictEarnedAlways` and `Refinement`: the
  Update that is accepted is the atomic step, everything else stutters.
  `RequestsRunOutAlways`: `Requests` of a call falls with each answer and with nothing
  else, so that contention costs a call `2 * Steps` requests and no more.
* **`DeploymentWatchProofs`.** Every step of a watcher is a step of `ReplicaScale` or
  leaves it alone (`ImplementsScale`); with the theorems above, instantiated as
  `ScaleFacts`, this gives `PassesWriteOnce` and `WatchersCount`: with all their
  tickers, locks and reports the watchers are one atomic counter.
  `TypeCorrect` follows action by action. `LockHeld` is inductive. The other
  invariants are not, and rest on `Registering` (an item that main has not
  started yet is untouched). `GroupsExact` needs `Registry`, which adds that a
  watcher in a release no longer ticks and that an item being appended is in no
  release past the lock, which is where `LockHeld` comes in. `LatePassBound`
  needs `Late`: after a late
  pass no tick is left, and by `Registry` a watcher out of the list has no ticker
  to make one. `NoBothWays` needs
  `Decided`: a watcher that has raised still has its reasons when it
  weighs the second decision, and they exclude that one. `CoolsDownAlways` needs
  `MediateExact`: `archive.Mediate`, which the pass compares with the clock, is
  the time of the last raise that returned nil, so that a lowering, which
  is begun only past the interval, comes late enough.
  `ReportHonestAlways` needs `AllInformed`, for every watcher whose history says
  that nobody else has written since its read: the object is where the watcher counts it,
  or ahead of it by the call that has succeeded and is not counted yet
  (`Ahead`). It is the one place where the two modules meet: a call that returned
  nil moved the count by its own change because of `ScaleCoherent`. So it knows the count
  when its next pass begins, and `AllCarried` follows the count put by through the
  pass: it is the present one until a call has changed that, and afterwards one away
  (`OneApart`).
  `NeverStuckAlways` lists where a goroutine can wait: for the API server, for the
  receivers of its reports and errors, which the module takes for granted, and for the holder of
  `deployments.mu`, who is in no send. It needs `AllArmed`, which ties the place of a pass
  to the call it has under way, and `LockHeld`. `PassesRunOutAlways` counts the steps of a pass (`StepsToGo`), the requests of
  its calls included.
  `CeilingKeptAlways` is the bound that does hold where `MaxReplicas` does not
  (through `ReplicaCounter`: the 10 of line 487).
* **`WorkloadWatchProofs`.** A step of one kind leaves the variables of the other
  alone, so that what `DeploymentWatchProofs` proves holds of each. For the StatefulSets
  this is spelt out: their `Statefulset!Spec` (`WatchesStatefulsets`) and the one `DeploymentWatchProofs` is instantiated with are
  the same formula (`StatefulsetFacts`), which gives `StatefulsetsExactAlways`,
  `StatefulsetsDecide` (`NoBothWays`, `LatePassBound`, `ReportHonest`, `CoolsDown`),
  `StatefulsetsCount` (the atomic counter) and `StatefulsetsGoOn` (`NeverStuck`,
  `PassesRunOut`).
  `OneLockAtATimeAlways` rests on `MainInv`: main
  holds a lock only in the middle of a registration, and is in one at a time.
* **`ScaleUpProofs`.** `LeastIsZero` is the heart of it: no reading is negative, so
  that `cur` is 0. Hence an inspection leaves both limits at 0 or above
  (`InspectsLimits`), which gives `LimitsRiseAlways`, `AppliesOnceAlways` (by
  `Spent`) and `QuietWithLimitsAlways` (by `Quiet`: such a watcher never has a call under way).
  `ImplementsScale` brings in the theorems of `ReplicaScale` (`AppliesCount`);
  `TakesNothingBackAlways` needs `Honest`: a copy that is still fresh is the
  object, but for the resources whose limit the pass has raised.
* **`PodWatchProofs`.** `PodsExactAlways` rests, as for Deployments, on `Registering`, `LockHeld` and
  `Registry`. `TwoAlertsAlways` needs `Budget`: up to its release a Pod has had an alert only if
  it is just being sent, and a stopped ticker leaves one tick at most.
  `FairShareAlways` needs `Line` and `Turns`: nobody stands in line twice, and a sender has
  not seen a form pass of anyone who stands before it; so
  whoever passed it once is behind it from then on. `ImplementsPublisher`: the
  watchers use the channel as `Publisher` says. `PodsGoOn` puts `LockHeld` and `Line`
  together: whoever stands in line is in a send, and whoever holds `pods.mu` is not.
* **`WorkPoolProofs`.** The queue holds the last jobs offered, in order, so that the jobs
  not yet taken are those from `Low` on (`InOrder`), and the others are
  each in one pair of hands (`Apart`). Then each step moves one job, `wg`
  is the cardinality of `Open` (`Counted`), a wait that ends means that `Open` is
  empty (`Stage`), and the pool is taken down only then (`TakingDown`, `Ready`).
  `Refinement`: `DoJob` is the abstract `Do`, `Stopped` is `End`, `Released` is
  `Return`. `NeverStuckAlways` follows the wait from the caller to the dispatcher to a
  worker: a queue that is full has its dispatcher at work, a dispatcher without a worker
  has one that is busy or coming back, and for that one there is room
  (`RoomForAllAlways`, by counting). `StepsCountedAlways`: `StepsLeft` falls by exactly
  one with every step, so that a batch of any interleaving has `AllSteps` steps at the
  most (`StepsBoundedAlways`).
* **`MysqlHubProofs`.** `Places` says who holds what where: a query that sends has a
  row, the pusher has one exactly from its receive to the end of the transaction, and
  the lock when it inserts. `RowsAccounted` is inductive with it: a second transaction
  needs the lock, so that no second row can be lost. `InOrder` is not, since the log
  says nothing of the row in hand. `Ordered` asks the same of all rows received, and
  `NotAhead` that none of them is ahead of the query it came from; the log is a
  beginning of what was received, so that `InOrderAlways` follows. `BatchesGoOn` needs
  `Serving` (a query is under way only while a batch is farmed, and then there is a
  pusher): queries that all wait at the channels have a pusher that takes or writes, or
  one that is `Stuck`. `LossFinalAlways` says what `Stuck` costs: of all later rows one
  is received and none is written.
* **`LoggerProofs`.** `Sound` says what a call has with it between two critical
  sections, at the level and the number of children of the moment: what `LastChild` has
  counted is not more than there are now, and the history of an undecided call covers the
  present level. With `OrderExact` and the types it is inductive, which gives
  `LastKnownAlways` and `LevelRespectedAlways`. `SettlesAlways` is about steps: only
  an addition of a key, by a call that carries that key, moves what is registered under it.

Only model-checked: what is promised under fairness (`CallReturns`, `PassEnds`,
`RegistrationEnds`, `ReleaseEnds`, `ReleaseUndisturbed`, `RegistryGoesOn`, `ReportTaken`,
`Returns`, `BatchEnds`, `SetRoleEnds`), which is beyond the prover. Every other
property of a passing run is proved for all values of the constants.

What these promises rest on beside fairness is proved, in two halves: a number of steps
that are left, which each step of the goroutine lowers and nobody else raises
(`RequestsRunOut` for `CallReturns`, `PassesRunOut` for `PassEnds`, `ReleaseEnds` and the
releases of Pods, `StepsCounted` for `Returns`, `QueriesRunOut` for `BatchEnds`), and that the
goroutines of the module do not wait for each other in a circle (`NeverStuck` of `WorkPool`,
`DeploymentWatch` and `PodWatch`, `BatchGoesOn`; in `DeploymentWatch` this is not about the
receivers of its reports, of which `PodWatch` has the one that can hang). `NeverStuck` spells out by hand when an action can be taken,
since the prover does not handle ENABLED. The last step, from there to "eventually", is
TLC's.

Some properties are proved and not run, since others rest on them or say more:
`LockHeld`, `Counted`, `NothingDropped`, `LimitsRise`, `QuietWithLimits`,
those of the two halves above with `RequestsBounded`, `RoomForAll` and `StepsBounded`,
`CeilingKept` and `LossFinal`. TLC finds them true on the instances of the runs.

## Not modelled

* Reading the yaml file, building API clients and the SQL: input and output, of
  which only success and failure are in the models. `ensureRole` only logs; its
  warning that `MinReplicas` "will be automatically set to 1" (role.go:128) sets nothing.
* `Flush`, `Cast` and `Output` of the aggregator, which no execution reaches.
* The texts of reports, with `percentage` and `phaseEqual`. (`percentage` divides
  integers before it multiplies, calc.go:23, so that a change of less than
  one hundred percent is reported as 0.)
* Of the logger: handlers, formatters, outputs, `Scan`, prefixes and fields, the adapters
  of `integration.go` and the forwarding functions of `log.go`. They have no
  control flow between goroutines of their own. Two things a reader may stumble on there:
  `getFormatter` looks the format up by the logger's level (logger.go:269-280) where the
  comment on `SetLevelFormat` (line 254) speaks of the level of the line; and
  `JSONFormatter` keeps an encoder for the destination it saw first.
* The receivers of `ErrCh` and `WarnCh` outside `Startup`, and that of `slack.Channel`
  outside `PodWatch`, are channels that take what they are sent.

## Plan

What could come next, in this order:

* a composition of `DeploymentWatch` with `Publisher`, to ask of scaling passes what
  `PodWatch` asks of Pods when a POST hangs;
* `WorkPool` under `MysqlHub` by refinement: the jobs of `JobBatch` as the queries;
* liveness of two Pods, once the instance is small enough.
