------------------------------ MODULE MysqlHub -------------------------------
(***************************************************************************)
(* hub/mysql.go and the aggregator it writes to.                           *)
(*                                                                         *)
(* At every tick farmingMetrics has its four queries run side by side and  *)
(* waits for them (the pool they run in is WorkPool, and JobBatch is what  *)
(* matters of it here).  A query sends its rows one by one on a channel    *)
(* without a buffer; realtimePusher receives from the four channels and    *)
(* writes each row in a transaction of the in-memory database.             *)
(*                                                                         *)
(* realtimePusher runs on main's goroutine, which is therefore in SetRole  *)
(* for as long as the process lives: of all the MySQL items one at most is *)
(* ever watched, and nobody else ever asks for mysqlorg.mu, which main     *)
(* holds.  The append to mysqlorg.connections (line 56) is never reached.  *)
(*                                                                         *)
(* No row has fetch set, so that realtimePusher never flushes.             *)
(***************************************************************************)
EXTENDS Naturals, Sequences

CONSTANTS
  Hubs, Others,  \* the items of izone.yaml: MySQL and all other types
  Kinds,         \* the queries of a batch
  Limit,         \* LIMIT of each query
  Batches        \* bound: how many ticks are looked at

ASSUME HubAssumption ==
  /\ Hubs \cap Others = {}
  /\ Limit \in Nat
  /\ Batches \in Nat

VARIABLES
  up,       \* the process has not panicked
  built,    \* vdb.V is a database, not nil
  reg,      \* where main is in SetRole, and the items it has not taken yet
  batch,    \* how many ticks have been taken
  farming,  \* monitoring() is in farmingMetrics
  query,    \* query[k]: where the job of kind k is, and the rows it has read
  pusher,   \* where realtimePusher is; the row in its hands, if any
  writer,   \* the writer lock of the database is held
  log,      \* the table auditlogs, in the order of the commits
  received  \* history: the rows received from the channels

vars ==
  <<up, built, reg, batch, farming, query, pusher, writer, log, received>>

Items == Hubs \cup Others
Row == [kind : Kinds, batch : 1..Batches, nr : 1..Limit]
Hand == {<<>>} \cup {<<r>> : r \in Row}   \* a row or none

Init ==
  /\ up = TRUE
  /\ built \in BOOLEAN
  /\ reg = [at |-> "next", left |-> Items]
  /\ batch = 0
  /\ farming = FALSE
  /\ query = [k \in Kinds |-> [at |-> "done", nr |-> 0]]
  /\ pusher = [at |-> "none", hand |-> <<>>]
  /\ writer = FALSE
  /\ log = <<>>
  /\ received = <<>>

-----------------------------------------------------------------------------
(* main: the items in any order *)

Takes(x) == up /\ reg.at = "next" /\ x \in reg.left

RegisterOther(x) ==
  /\ Takes(x)
  /\ x \in Others
  /\ reg' = [reg EXCEPT !.left = @ \ {x}]
  /\ UNCHANGED <<up, built, batch, farming, query, pusher, writer, log,
                 received>>

(* SetRole returns the error, and main exits. *)
OpenStopsMutant(h) ==
  /\ Takes(h)
  /\ h \in Hubs
  /\ reg' = [reg EXCEPT !.at = "exit"]
  /\ UNCHANGED <<up, built, batch, farming, query, pusher, writer, log,
                 received>>

(* SetRole does not look at the error. *)
OpenFails(h) ==
  /\ Takes(h)
  /\ h \in Hubs
  /\ reg' = [reg EXCEPT !.left = @ \ {h}]
  /\ UNCHANGED <<up, built, batch, farming, query, pusher, writer, log,
                 received>>

(* The ticker and its goroutine are started, and main begins to receive. *)
Opens(h) ==
  /\ Takes(h)
  /\ h \in Hubs
  /\ reg' = [at |-> "push", left |-> reg.left \ {h}]
  /\ pusher' = [pusher EXCEPT !.at = "receive"]
  /\ UNCHANGED <<up, built, batch, farming, query, writer, log,
                 received>>

Assigned ==
  /\ up
  /\ reg = [at |-> "next", left |-> {}]
  /\ reg' = [reg EXCEPT !.at = "assigned"]
  /\ UNCHANGED <<up, built, batch, farming, query, pusher, writer, log,
                 received>>

SetRole ==
  (\E x \in Items : RegisterOther(x) \/ OpenFails(x) \/ Opens(x)) \/ Assigned

-----------------------------------------------------------------------------
(* monitoring: one batch after the other *)

(* A ticker in whose channel there is always a tick soon; it never stops.  *)
TakeTick ==
  /\ up
  /\ reg.at = "push"
  /\ ~farming
  /\ batch < Batches
  /\ batch' = batch + 1
  /\ farming' = TRUE
  /\ query' = [k \in Kinds |-> [at |-> "query", nr |-> 0]]
  /\ UNCHANGED <<up, built, reg, pusher, writer, log, received>>

(* WaitAll, and Release, which finds all workers idle. *)
FarmingEnds ==
  /\ up
  /\ farming
  /\ \A k \in Kinds : query[k].at = "done"
  /\ farming' = FALSE
  /\ UNCHANGED <<up, built, reg, batch, query, pusher, writer, log,
                 received>>

-----------------------------------------------------------------------------
(* A job: one query and its rows *)

At(k, place) == up /\ query[k].at = place

Goes(k, place, nr) ==
  /\ query' = [query EXCEPT ![k] = [at |-> place, nr |-> nr]]
  /\ UNCHANGED <<up, built, reg, batch, farming, pusher, writer, log,
                 received>>

(* The error goes to ErrCh, and the job is done. *)
QueryFails(k) == At(k, "query") /\ Goes(k, "done", 0)

QueryAnswers(k) == At(k, "query") /\ Goes(k, "rows", 0)

NoLimitMutant(k) == At(k, "rows") /\ Goes(k, "send", query[k].nr + 1)

NextRow(k) ==
  /\ At(k, "rows")
  /\ query[k].nr < Limit
  /\ Goes(k, "send", query[k].nr + 1)

(* A row that cannot be scanned, perhaps for a NULL in it, is passed over. *)
ScanFails(k) ==
  /\ At(k, "rows")
  /\ query[k].nr < Limit
  /\ Goes(k, "rows", query[k].nr + 1)

(* No more rows, or an error of rows.Next that nobody asks for. *)
RowsEnd(k) == At(k, "rows") /\ Goes(k, "done", query[k].nr)

Query(k) ==
  \/ QueryFails(k) \/ QueryAnswers(k)
  \/ NextRow(k) \/ ScanFails(k) \/ RowsEnd(k)

-----------------------------------------------------------------------------
(* realtimePusher and the Write... it calls *)

PusherAt(place) == up /\ pusher.at = place

RowOf(k) == [kind |-> k, batch |-> batch, nr |-> query[k].nr]

(* The query does not notice that its row is gone. *)
SendAgainMutant(k) ==
  /\ PusherAt("receive")
  /\ At(k, "send")
  /\ pusher' = [at |-> "begin", hand |-> <<RowOf(k)>>]
  /\ received' = Append(received, RowOf(k))
  /\ UNCHANGED <<up, built, reg, batch, farming, query, writer, log>>

(* The channel of kind k; among those that are ready any may be chosen. *)
Receive(k) ==
  /\ PusherAt("receive")
  /\ At(k, "send")
  /\ pusher' = [at |-> "begin", hand |-> <<RowOf(k)>>]
  /\ received' = Append(received, RowOf(k))
  /\ query' = [query EXCEPT ![k].at = "rows"]
  /\ UNCHANGED <<up, built, reg, batch, farming, writer, log>>

(* vdb.V.Txn(true) *)
Begin ==
  /\ PusherAt("begin")
  /\ built
  /\ ~writer
  /\ writer' = TRUE
  /\ pusher' = [pusher EXCEPT !.at = "insert"]
  /\ UNCHANGED <<up, built, reg, batch, farming, query, log, received>>

(* ... of a nil pointer. *)
BeginPanics ==
  /\ PusherAt("begin")
  /\ ~built
  /\ up' = FALSE
  /\ UNCHANGED <<built, reg, batch, farming, query, pusher, writer, log,
                 received>>

(* As in Flush, the transaction is ended in any case. *)
DeferCommitMutant ==
  /\ PusherAt("insert")
  /\ pusher' = [at |-> "receive", hand |-> <<>>]
  /\ writer' = FALSE
  /\ UNCHANGED <<up, built, reg, batch, farming, query, log, received>>

(* The error goes to ErrCh; the transaction is neither committed nor       *)
(* aborted, and keeps the writer lock.                                     *)
InsertFails ==
  /\ PusherAt("insert")
  /\ pusher' = [at |-> "receive", hand |-> <<>>]
  /\ UNCHANGED <<up, built, reg, batch, farming, query, writer, log,
                 received>>

(* The pusher stops after its first row. *)
OneRowMutant ==
  /\ PusherAt("insert")
  /\ log' = log \o pusher.hand
  /\ pusher' = [pusher EXCEPT !.at = "none"]
  /\ writer' = FALSE
  /\ UNCHANGED <<up, built, reg, batch, farming, query, received>>

InsertCommits ==
  /\ PusherAt("insert")
  /\ log' = log \o pusher.hand
  /\ pusher' = [at |-> "receive", hand |-> <<>>]
  /\ writer' = FALSE
  /\ UNCHANGED <<up, built, reg, batch, farming, query, received>>

Write == Begin \/ BeginPanics \/ InsertFails \/ InsertCommits

RealtimePusher == (\E k \in Kinds : Receive(k)) \/ Write

-----------------------------------------------------------------------------
Monitoring == TakeTick \/ FarmingEnds \/ (\E k \in Kinds : Query(k))

Next == SetRole \/ Monitoring \/ RealtimePusher

Spec == Init /\ [][Next]_vars

(* main goes on, the database answers every query, and the goroutines of   *)
(* the jobs run.  Nothing makes the ticker tick.                           *)
FairSpec ==
  /\ Spec
  /\ WF_vars(SetRole)
  /\ WF_vars(FarmingEnds)
  /\ \A k \in Kinds : WF_vars(Query(k))
  /\ WF_vars(RealtimePusher)

-----------------------------------------------------------------------------
(* Properties *)

TypeOK ==
  /\ up \in BOOLEAN
  /\ built \in BOOLEAN
  /\ reg \in [at : {"next", "push", "assigned"}, left : SUBSET Items]
  /\ batch \in 0..Batches
  /\ farming \in BOOLEAN
  /\ query \in [Kinds -> [at : {"query", "rows", "send", "done"},
                          nr : 0..Limit]]
  /\ pusher \in [at : {"none", "receive", "begin", "insert"}, hand : Hand]
  /\ writer \in BOOLEAN
  /\ log \in Seq(Row)
  /\ received \in Seq(Row)

(* The transaction of a row that could not be inserted was left open.      *)
LeftOpen == writer /\ pusher.at # "insert"

(* Of the rows that left the queries all are in the log, in the order they *)
(* came, but for the one in the pusher's hands and, if an Insert failed,   *)
(* that one: the row is lost, and after it nothing is written, since the   *)
(* lock of its transaction is never given back.                            *)
RowsAccounted ==
  \E lost \in Hand :
    /\ received = log \o lost \o pusher.hand
    /\ lost # <<>> <=> LeftOpen

(* The log has the batches one after the other, and of each query the rows *)
(* in their order and none twice, although nothing but the wait at the end *)
(* of a batch and the channels without a buffer keeps them apart.          *)
InOrder ==
  \A i, j \in DOMAIN log : i < j =>
    /\ log[i].batch <= log[j].batch
    /\ log[i].kind = log[j].kind /\ log[i].batch = log[j].batch =>
         log[i].nr < log[j].nr

(* Nothing more will be received. *)
Stuck == ~up \/ (LeftOpen /\ pusher.at = "begin")

(* A batch comes to its end, however many of its queries fail and whatever *)
(* the others have to send, so that the next tick is taken: unless the     *)
(* database is not there or a failed Insert has locked it.                 *)
BatchEnds == farming ~> (~farming \/ Stuck)

(* While a batch is being farmed some query is with the database or its    *)
(* rows, the pusher can take or write a row, or all queries are done: they *)
(* never wait for one another at the channels, but for a lock or a         *)
(* database that nobody will give.                                         *)
PusherGoes ==
  \/ pusher.at = "receive" /\ \E k \in Kinds : query[k].at = "send"
  \/ pusher.at = "begin" /\ (writer => ~built)
  \/ pusher.at = "insert"

BatchGoesOn ==
  farming =>
    \/ \E k \in Kinds : query[k].at \in {"query", "rows"}
    \/ PusherGoes
    \/ \A k \in Kinds : query[k].at = "done"
    \/ Stuck

(* The steps that query k has still to make at the most, its sends         *)
(* included.                                                               *)
QuerySteps(k) ==
  LET rest == 2 * (Limit - query[k].nr) IN
  CASE query[k].at = "query" -> 2 * Limit + 2
    [] query[k].at = "rows"  -> rest + 1
    [] query[k].at = "send"  -> rest + 2
    [] OTHER                 -> 0

(* A step of a query or the receipt of its row brings it nearer to its     *)
(* end and nothing else touches it: a query makes 2 * Limit + 2 steps at   *)
(* the most.                                                               *)
QueriesRunOut ==
  [][\A k \in Kinds :
       query[k].at # "done" =>
         IF Query(k) \/ Receive(k) THEN QuerySteps(k)' < QuerySteps(k)
                                   ELSE QuerySteps(k)' = QuerySteps(k)]_vars

(* A failed Insert is the end: the lock of its transaction is never given  *)
(* back, no row is written any more, and of all the rows that the queries  *)
(* read one more at the most leaves them.                                  *)
LossFinal ==
  [][LeftOpen => /\ LeftOpen'
                 /\ log' = log
                 /\ Len(received') <= Len(log) + 2]_vars

(* main takes every item, or the first MySQL item that can be opened is    *)
(* the last: MysqlConnector does not return, and one whose connection      *)
(* cannot be opened is passed over in silence.                             *)
SetRoleEnds ==
  <>[](reg = [at |-> "assigned", left |-> {}] \/ reg.at = "push")
=============================================================================
