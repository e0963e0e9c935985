---------------------------- MODULE MysqlHubProofs ---------------------------
(***************************************************************************)
(* Proofs about MysqlHub for any items, any number of queries and of       *)
(* ticks, and any LIMIT.                                                   *)
(***************************************************************************)
EXTENDS MysqlHub, SequenceTheorems, TLAPS

-----------------------------------------------------------------------------
(* The inductive invariant *)

(* Who holds what at each place: a query that sends has a row, the pusher  *)
(* a row from its receive to the end of its transaction, and the lock when *)
(* it inserts.                                                             *)
Places ==
  /\ \A k \in Kinds : query[k].at # "done" => batch >= 1
  /\ \A k \in Kinds : query[k].at = "query" => query[k].nr = 0
  /\ \A k \in Kinds : query[k].at = "send" => query[k].nr >= 1
  /\ pusher.hand = <<>> <=> pusher.at \in {"none", "receive"}
  /\ pusher.at = "insert" => writer
  /\ reg.at # "push" => pusher.at = "none"

(* InOrder, of all rows that were received. *)
Ordered ==
  \A i, j \in DOMAIN received : i < j =>
    /\ received[i].batch <= received[j].batch
    /\ received[i].kind = received[j].kind
       /\ received[i].batch = received[j].batch =>
         received[i].nr < received[j].nr

(* No row is received before its query has read it, and the row a query    *)
(* sends has not been received.                                            *)
NotAhead ==
  \A i \in DOMAIN received :
    LET r == received[i] IN
    /\ r.batch <= batch
    /\ r.batch = batch =>
         /\ r.nr <= query[r.kind].nr
         /\ query[r.kind].at = "send" => r.nr < query[r.kind].nr

Inv == TypeOK /\ Places /\ RowsAccounted /\ Ordered /\ NotAhead

-----------------------------------------------------------------------------
LEMMA TypeInit == Init => TypeOK
  <1> SUFFICES ASSUME Init PROVE TypeOK
    OBVIOUS
  <1>1. query \in [Kinds -> [at : {"query", "rows", "send", "done"},
                            nr : 0..Limit]]
    BY HubAssumption DEF HubAssumption, Init
  <1>2. log \in Seq(Row) /\ received \in Seq(Row)
    BY EmptySeq DEF Init
  <1>3. reg \in [at : {"next", "push", "assigned"}, left : SUBSET Items]
    BY DEF Init
  <1>4. batch \in 0..Batches
    BY HubAssumption DEF HubAssumption, Init
  <1>5. pusher \in [at : {"none", "receive", "begin", "insert"}, hand : Hand]
    BY DEF Init, Hand
  <1> QED
    BY <1>1, <1>2, <1>3, <1>4, <1>5 DEF Init, TypeOK

LEMMA RowOfType ==
  ASSUME TypeOK, Places, NEW k \in Kinds, query[k].at = "send"
  PROVE  RowOf(k) \in Row
  <1>1. query[k] \in [at : {"query", "rows", "send", "done"}, nr : 0..Limit]
    BY DEF TypeOK
  <1>2. batch >= 1 /\ query[k].nr >= 1
    BY DEF Places
  <1> QED
    BY <1>1, <1>2, HubAssumption DEF HubAssumption, TypeOK, RowOf, Row

LEMMA TypeStep == TypeOK /\ Places /\ [Next]_vars => TypeOK'
  <1> SUFFICES ASSUME TypeOK, Places, [Next]_vars
               PROVE  TypeOK'
    OBVIOUS
  <1> USE HubAssumption DEF HubAssumption
  <1>1. ASSUME NEW x \in Items, RegisterOther(x) \/ OpenFails(x) \/ Opens(x)
        PROVE  TypeOK'
    <2>1. CASE RegisterOther(x)
      BY <2>1 DEF RegisterOther, TypeOK
    <2>2. CASE OpenFails(x)
      BY <2>2 DEF OpenFails, TypeOK
    <2>3. CASE Opens(x)
      BY <2>3 DEF Opens, TypeOK
    <2> QED
      BY <1>1, <2>1, <2>2, <2>3
  <1>2. CASE Assigned
    BY <1>2 DEF Assigned, TypeOK
  <1>3. CASE TakeTick
    BY <1>3 DEF TakeTick, TypeOK, Row, Hand
  <1>4. CASE FarmingEnds
    BY <1>4 DEF FarmingEnds, TypeOK
  <1>5. ASSUME NEW k \in Kinds, Query(k)
        PROVE  TypeOK'
    <2>1. PICK place \in {"query", "rows", "send", "done"}, nr \in 0..Limit :
            Goes(k, place, nr)
      BY <1>5 DEF Query, QueryFails, QueryAnswers, NextRow, ScanFails,
                  RowsEnd, TypeOK
    <2> QED
      BY <2>1 DEF Goes, TypeOK
  <1>6. ASSUME NEW k \in Kinds, Receive(k)
        PROVE  TypeOK'
    <2> DEFINE r == RowOf(k)
    <2>1. r \in Row
      BY <1>6, RowOfType DEF Receive, At
    <2>2. received' \in Seq(Row)
      BY <1>6, <2>1, AppendProperties DEF Receive, TypeOK
    <2>3. pusher' \in [at : {"none", "receive", "begin", "insert"},
                       hand : Hand]
      <3> HIDE DEF r
      <3>1. pusher' = [at |-> "begin", hand |-> <<r>>]
        BY <1>6 DEF Receive, r
      <3> QED
        BY <3>1, <2>1 DEF Hand
    <2>4. query' \in [Kinds -> [at : {"query", "rows", "send", "done"},
                                nr : 0..Limit]]
      BY <1>6 DEF Receive, TypeOK
    <2> QED
      BY <1>6, <2>2, <2>3, <2>4 DEF Receive, TypeOK
  <1>7. CASE Begin
    BY <1>7 DEF Begin, TypeOK
  <1>8. CASE BeginPanics
    BY <1>8 DEF BeginPanics, TypeOK
  <1>9. CASE InsertFails
    BY <1>9 DEF InsertFails, TypeOK, Hand
  <1>10. CASE InsertCommits
    <2>1. pusher.hand \in Seq(Row)
      <3>1. \A r \in Row : <<r>> \in Seq(Row)
        OBVIOUS
      <3>2. pusher.hand \in Hand
        BY DEF TypeOK
      <3> QED
        BY <3>1, <3>2, EmptySeq DEF Hand
    <2>2. log' \in Seq(Row)
      BY <1>10, <2>1, ConcatProperties DEF InsertCommits, TypeOK
    <2> QED
      BY <1>10, <2>2 DEF InsertCommits, TypeOK, Hand
  <1>11. CASE UNCHANGED vars
    BY <1>11 DEF vars, TypeOK
  <1> QED
    BY <1>1, <1>2, <1>3, <1>4, <1>5, <1>6, <1>7, <1>8, <1>9, <1>10, <1>11
    DEF Next, SetRole, Monitoring, RealtimePusher, Write

LEMMA PlacesStep == TypeOK /\ Places /\ [Next]_vars => Places'
  <1> SUFFICES ASSUME TypeOK, Places, [Next]_vars
               PROVE  Places'
    OBVIOUS
  <1> USE HubAssumption DEF HubAssumption
  <1>1. ASSUME NEW x \in Items, RegisterOther(x) \/ OpenFails(x) \/ Opens(x)
        PROVE  Places'
    BY <1>1 DEF RegisterOther, OpenFails, Opens, Takes, TypeOK, Places
  <1>2. CASE Assigned
    BY <1>2 DEF Assigned, TypeOK, Places
  <1>3. CASE TakeTick
    BY <1>3 DEF TakeTick, TypeOK, Places
  <1>4. CASE FarmingEnds
    BY <1>4 DEF FarmingEnds, Places
  <1>5. ASSUME NEW k \in Kinds, Query(k)
        PROVE  Places'
    <2>1. PICK place \in {"query", "rows", "send", "done"}, nr \in Nat :
            /\ Goes(k, place, nr)
            /\ query[k].at # "done"
            /\ place = "query" => nr = 0
            /\ place = "send" => nr >= 1
      BY <1>5 DEF Query, QueryFails, QueryAnswers, NextRow, ScanFails,
                  RowsEnd, At, TypeOK
    <2> QED
      BY <2>1 DEF Goes, Places, TypeOK
  <1>6. ASSUME NEW k \in Kinds, Receive(k)
        PROVE  Places'
    <2>1. pusher' = [at |-> "begin", hand |-> <<RowOf(k)>>]
      BY <1>6 DEF Receive
    <2>2. pusher'.hand # <<>> /\ pusher'.at = "begin"
      BY <2>1
    <2>3. reg.at = "push"
      BY <1>6 DEF Receive, PusherAt, Places
    <2> QED
      BY <1>6, <2>2, <2>3 DEF Receive, At, TypeOK, Places
  <1>7. CASE Begin
    BY <1>7 DEF Begin, PusherAt, TypeOK, Places
  <1>8. CASE BeginPanics
    BY <1>8 DEF BeginPanics, Places
  <1>9. CASE InsertFails
    BY <1>9 DEF InsertFails, PusherAt, TypeOK, Places
  <1>10. CASE InsertCommits
    BY <1>10 DEF InsertCommits, PusherAt, TypeOK, Places
  <1>11. CASE UNCHANGED vars
    BY <1>11 DEF vars, Places
  <1> QED
    BY <1>1, <1>2, <1>3, <1>4, <1>5, <1>6, <1>7, <1>8, <1>9, <1>10, <1>11
    DEF Next, SetRole, Monitoring, RealtimePusher, Write

(* The type of the pusher before a step that leaves rows and lock alone.   *)
LEMMA RowsKept ==
  ASSUME RowsAccounted, UNCHANGED <<received, log, writer>>,
         pusher'.hand = pusher.hand,
         pusher'.at = "insert" <=> pusher.at = "insert"
  PROVE  RowsAccounted'
  <1>1. LeftOpen' <=> LeftOpen
    BY DEF LeftOpen
  <1>2. Hand' = Hand
    BY DEF Hand, Row
  <1> QED
    BY <1>1, <1>2 DEF RowsAccounted

LEMMA RowsStep ==
  TypeOK /\ Places /\ RowsAccounted /\ [Next]_vars => RowsAccounted'
  <1> SUFFICES ASSUME TypeOK, Places, RowsAccounted, [Next]_vars
               PROVE  RowsAccounted'
    OBVIOUS
  <1>1. PICK lost \in Hand :
          /\ received = log \o lost \o pusher.hand
          /\ lost # <<>> <=> LeftOpen
    BY DEF RowsAccounted
  <1>2. /\ Hand \subseteq Seq(Row)
        /\ Hand' = Hand
    <2>1. \A r \in Row : <<r>> \in Seq(Row)
      OBVIOUS
    <2> QED
      BY <2>1, EmptySeq DEF Hand, Row
  <1>3. /\ pusher.hand \in Seq(Row)
        /\ lost \in Seq(Row)
        /\ log \in Seq(Row)
        /\ received \in Seq(Row)
    BY <1>2 DEF TypeOK
  <1>4. ASSUME NEW k \in Kinds, Receive(k)
        PROVE  RowsAccounted'
    <2> DEFINE r == RowOf(k)
    <2>1. r \in Row
      BY <1>4, RowOfType DEF Receive, At
    <2>2. pusher.hand = <<>>
      BY <1>4 DEF Receive, PusherAt, Places
    <2>3. received = log \o lost
      <3>1. received = (log \o lost) \o <<>>
        BY <1>1, <2>2
      <3>2. log \o lost \in Seq(Row)
        BY <1>3, ConcatProperties
      <3> QED
        BY <3>1, <3>2, ConcatEmptySeq, Zenon
    <2>4. received' = (log \o lost) \o <<r>>
      BY <1>4, <1>3, <2>1, <2>3, AppendIsConcat DEF Receive
    <2>5. pusher'.hand = <<r>> /\ pusher'.at = "begin"
      BY <1>4 DEF Receive
    <2>6. LeftOpen' <=> LeftOpen
      BY <1>4, <2>5 DEF Receive, PusherAt, LeftOpen
    <2>7. log' = log
      BY <1>4 DEF Receive
    <2> HIDE DEF r
    <2>8. received' = log' \o lost \o pusher'.hand
      BY <2>4, <2>5, <2>7
    <2> QED
      BY <1>1, <1>2, <2>6, <2>8 DEF RowsAccounted
  <1>5. CASE Begin
    <2>1. ~LeftOpen /\ ~LeftOpen'
      BY <1>5 DEF Begin, LeftOpen, TypeOK
    <2>2. pusher'.hand = pusher.hand
      BY <1>5 DEF Begin, TypeOK
    <2> QED
      BY <1>1, <1>2, <1>5, <2>1, <2>2 DEF Begin, RowsAccounted
  <1>6. CASE InsertFails
    <2>1. ~LeftOpen /\ pusher.hand # <<>> /\ pusher.hand \in Hand
      BY <1>6 DEF InsertFails, PusherAt, LeftOpen, Places, TypeOK
    <2>2. LeftOpen' /\ pusher'.hand = <<>>
      BY <1>6 DEF InsertFails, PusherAt, LeftOpen, Places
    <2>3. received = (log \o pusher.hand) \o <<>>
      <3>1. received = (log \o <<>>) \o pusher.hand
        BY <1>1, <2>1
      <3>2. log \o <<>> = log
        BY <1>3, ConcatEmptySeq, Zenon
      <3>3. log \o pusher.hand \in Seq(Row)
        BY <1>3, ConcatProperties
      <3>4. (log \o pusher.hand) \o <<>> = log \o pusher.hand
        BY <3>3, ConcatEmptySeq, Zenon
      <3> QED
        BY <3>1, <3>2, <3>4
    <2>4. received' = log' \o pusher.hand \o pusher'.hand
      BY <1>6, <2>2, <2>3 DEF InsertFails
    <2> QED
      BY <1>2, <2>1, <2>2, <2>4 DEF RowsAccounted
  <1>7. CASE InsertCommits
    <2>1. ~LeftOpen
      BY <1>7 DEF InsertCommits, PusherAt, LeftOpen
    <2>2. ~LeftOpen' /\ pusher'.hand = <<>> /\ log' = log \o pusher.hand
      BY <1>7 DEF InsertCommits, LeftOpen
    <2>3. received = log \o pusher.hand
      <3>1. received = (log \o <<>>) \o pusher.hand
        BY <1>1, <2>1
      <3>2. log \o <<>> = log
        BY <1>3, ConcatEmptySeq, Zenon
      <3> QED
        BY <3>1, <3>2
    <2>4. log' \in Seq(Row)
      BY <1>3, <2>2, ConcatProperties
    <2>5. received' = log' \o <<>> \o pusher'.hand
      BY <1>7, <2>2, <2>3, <2>4, ConcatEmptySeq DEF InsertCommits
    <2>6. <<>> \in Hand'
      BY DEF Hand
    <2> QED
      BY <2>2, <2>5, <2>6 DEF RowsAccounted
  <1>8. ASSUME \/ \E x \in Items : RegisterOther(x) \/ OpenFails(x)
               \/ Assigned \/ TakeTick \/ FarmingEnds \/ BeginPanics
               \/ \E k \in Kinds : Query(k)
               \/ UNCHANGED vars
        PROVE  RowsAccounted'
    <2>1. UNCHANGED <<received, log, writer, pusher>>
      BY <1>8 DEF RegisterOther, OpenFails, Assigned, TakeTick, FarmingEnds,
                  BeginPanics, Query, QueryFails, QueryAnswers, NextRow,
                  ScanFails, RowsEnd, Goes, vars
    <2> QED
      BY <2>1, RowsKept
  <1>9. ASSUME NEW x \in Items, Opens(x)
        PROVE  RowsAccounted'
    <2>1. /\ pusher.at = "none"
          /\ pusher'.at = "receive"
          /\ pusher'.hand = pusher.hand
          /\ UNCHANGED <<received, log, writer>>
      BY <1>9 DEF Opens, Takes, Places, TypeOK
    <2> QED
      BY <2>1, RowsKept
  <1> QED
    BY <1>4, <1>5, <1>6, <1>7, <1>8, <1>9
    DEF Next, SetRole, Monitoring, RealtimePusher, Write

-----------------------------------------------------------------------------
(* The order of the rows *)

LEMMA OrderedStep ==
  TypeOK /\ Places /\ Ordered /\ NotAhead /\ [Next]_vars => Ordered'
  <1> SUFFICES ASSUME TypeOK, Places, Ordered, NotAhead, [Next]_vars
               PROVE  Ordered'
    OBVIOUS
  <1>1. ASSUME NEW k \in Kinds, Receive(k)
        PROVE  Ordered'
    <2> DEFINE r == RowOf(k)
    <2>1. r \in Row
      BY <1>1, RowOfType DEF Receive, At
    <2>2. received' = Append(received, r)
      BY <1>1 DEF Receive
    <2>3. received \in Seq(Row)
      BY DEF TypeOK
    <2>4. /\ Len(received') = Len(received) + 1
          /\ received' \in Seq(Row)
          /\ \A i \in 1..Len(received) : received'[i] = received[i]
          /\ received'[Len(received) + 1] = r
      <3> HIDE DEF r
      <3> QED
        BY <2>1, <2>2, <2>3, AppendProperties
    <2>5. /\ DOMAIN received = 1..Len(received)
          /\ DOMAIN received' = 1..Len(received) + 1
          /\ Len(received) \in Nat
      BY <2>3, <2>4, LenProperties
    <2>6. ASSUME NEW i \in 1..Len(received)
          PROVE  /\ received[i].batch <= r.batch
                 /\ received[i].kind = r.kind /\ received[i].batch = r.batch
                      => received[i].nr < r.nr
      <3>1. r.kind = k /\ r.batch = batch /\ r.nr = query[k].nr
        BY DEF RowOf
      <3>2. query[k].at = "send"
        BY <1>1 DEF Receive, At
      <3> QED
        BY <2>5, <3>1, <3>2 DEF NotAhead
    <2> HIDE DEF r
    <2>7. ASSUME NEW i \in DOMAIN received', NEW j \in DOMAIN received', i < j
          PROVE  /\ received'[i].batch <= received'[j].batch
                 /\ received'[i].kind = received'[j].kind
                    /\ received'[i].batch = received'[j].batch =>
                         received'[i].nr < received'[j].nr
      <3>1. CASE j = Len(received) + 1
        <4>1. i \in 1..Len(received)
          BY <2>5, <2>7, <3>1
        <4> QED
          BY <2>4, <2>6, <3>1, <4>1
      <3>2. CASE j # Len(received) + 1
        <4>1. i \in 1..Len(received) /\ j \in 1..Len(received)
          BY <2>5, <2>7, <3>2
        <4> QED
          BY <2>4, <2>5, <2>7, <4>1 DEF Ordered
      <3> QED
        BY <3>1, <3>2
    <2> QED
      BY <2>7 DEF Ordered
  <1>2. CASE UNCHANGED received
    BY <1>2 DEF Ordered
  <1> QED
    BY <1>1, <1>2
    DEF Next, SetRole, Monitoring, RealtimePusher, Write, RegisterOther,
        OpenFails, Opens, Assigned, TakeTick, FarmingEnds, Query, QueryFails,
        QueryAnswers, NextRow, ScanFails, RowsEnd, Goes, Begin, BeginPanics,
        InsertFails, InsertCommits, vars

LEMMA NotAheadStep ==
  TypeOK /\ Places /\ NotAhead /\ [Next]_vars => NotAhead'
  <1> SUFFICES ASSUME TypeOK, Places, NotAhead, [Next]_vars
               PROVE  NotAhead'
    OBVIOUS
  <1>1. /\ received \in Seq(Row)
        /\ batch \in Nat
        /\ \A i \in DOMAIN received : received[i] \in Row
        /\ \A k \in Kinds : query[k].nr \in Nat
    <2>1. received \in Seq(Row) /\ batch \in Nat
      BY HubAssumption DEF TypeOK, HubAssumption
    <2>2. \A i \in DOMAIN received : received[i] \in Row
      BY <2>1, LenProperties
    <2>3. \A k \in Kinds : query[k].nr \in Nat
      BY HubAssumption DEF TypeOK, HubAssumption
    <2> QED
      BY <2>1, <2>2, <2>3
  <1>2. CASE TakeTick
    BY <1>1, <1>2 DEF TakeTick, NotAhead, Row
  <1>3. ASSUME NEW k \in Kinds, Query(k)
        PROVE  NotAhead'
    <2>1. PICK place \in {"query", "rows", "send", "done"}, nr \in Nat :
            /\ Goes(k, place, nr)
            /\ \A b \in DOMAIN received :
                 received[b].kind = k /\ received[b].batch = batch =>
                   /\ received[b].nr <= nr
                   /\ place = "send" => received[b].nr < nr
      <3>1. \A b \in DOMAIN received : received[b].nr >= 1
        BY <1>1, HubAssumption DEF Row, HubAssumption
      <3>2. \A b \in DOMAIN received :
              received[b].kind = k /\ received[b].batch = batch =>
                received[b].nr <= query[k].nr
        BY DEF NotAhead
      <3>3. CASE QueryFails(k) \/ QueryAnswers(k)
        <4>1. \A b \in DOMAIN received :
                ~(received[b].kind = k /\ received[b].batch = batch)
          <5>1. query[k].nr = 0
            BY <3>3 DEF QueryFails, QueryAnswers, At, Places
          <5> QED
            BY <1>1, <3>1, <3>2, <5>1 DEF Row
        <4>2. \/ Goes(k, "done", 0)
              \/ Goes(k, "rows", 0)
          BY <3>3 DEF QueryFails, QueryAnswers
        <4> QED
          BY <4>1, <4>2
      <3>4. CASE RowsEnd(k)
        BY <1>1, <3>2, <3>4 DEF RowsEnd
      <3>5. CASE NextRow(k) \/ ScanFails(k)
        <4>1. \A b \in DOMAIN received :
                received[b].kind = k /\ received[b].batch = batch =>
                  received[b].nr < query[k].nr + 1
          BY <1>1, <3>2, SMTT(30) DEF Row
        <4>2. \/ Goes(k, "send", query[k].nr + 1)
              \/ Goes(k, "rows", query[k].nr + 1)
          BY <3>5 DEF NextRow, ScanFails
        <4>3. query[k].nr + 1 \in Nat
          BY <1>1
        <4>4. \A b \in DOMAIN received : received[b].nr \in Nat
          BY <1>1, HubAssumption DEF Row, HubAssumption
        <4> QED
          BY <4>1, <4>2, <4>3, <4>4
      <3> QED
        BY <1>3, <3>3, <3>4, <3>5 DEF Query
    <2> QED
      BY <1>1, <2>1 DEF Goes, NotAhead, Row, TypeOK
  <1>4. ASSUME NEW k \in Kinds, Receive(k)
        PROVE  NotAhead'
    <2> DEFINE r == RowOf(k)
    <2>1. r \in Row
      BY <1>4, RowOfType DEF Receive, At
    <2>2. /\ r.kind = k /\ r.batch = batch /\ r.nr = query[k].nr
          /\ query[k].at = "send"
      BY <1>4 DEF RowOf, Receive, At
    <2>3. received' = Append(received, r) /\ batch' = batch
      BY <1>4 DEF Receive
    <2>4. \A x \in Kinds : /\ query'[x].nr = query[x].nr
                           /\ query'[x].at = "send" =>
                                x # k /\ query[x].at = "send"
      BY <1>4 DEF Receive, TypeOK
    <2> HIDE DEF r
    <2>5. /\ DOMAIN received' = 1..Len(received) + 1
          /\ DOMAIN received = 1..Len(received)
          /\ Len(received) \in Nat
          /\ \A i \in 1..Len(received) : received'[i] = received[i]
          /\ received'[Len(received) + 1] = r
      BY <1>1, <2>1, <2>3, AppendProperties, LenProperties
    <2>6. ASSUME NEW i \in DOMAIN received'
          PROVE  LET q == received'[i] IN
                 /\ q.batch <= batch'
                 /\ q.batch = batch' =>
                      /\ q.nr <= query'[q.kind].nr
                      /\ query'[q.kind].at = "send" =>
                           q.nr < query'[q.kind].nr
      <3>1. CASE i = Len(received) + 1
        BY <1>1, <2>1, <2>2, <2>3, <2>4, <2>5, <3>1 DEF Row
      <3>2. CASE i # Len(received) + 1
        <4>1. i \in DOMAIN received /\ received'[i] = received[i]
          BY <2>5, <3>2
        <4>2. received[i].kind \in Kinds
          BY <1>1, <4>1 DEF Row
        <4> QED
          BY <2>3, <2>4, <4>1, <4>2 DEF NotAhead
      <3> QED
        BY <3>1, <3>2
    <2> QED
      BY <2>6 DEF NotAhead
  <1>5. CASE UNCHANGED <<received, batch, query>>
    BY <1>5 DEF NotAhead
  <1> QED
    BY <1>2, <1>3, <1>4, <1>5
    DEF Next, SetRole, Monitoring, RealtimePusher, Write, RegisterOther,
        OpenFails, Opens, Assigned, FarmingEnds, Begin, BeginPanics,
        InsertFails, InsertCommits, vars

-----------------------------------------------------------------------------
(* Theorems *)

LEMMA InvInit == Init => Inv
  <1> SUFFICES ASSUME Init PROVE Inv
    OBVIOUS
  <1>1. Places /\ Ordered /\ NotAhead
    BY DEF Init, Places, Ordered, NotAhead
  <1>2. RowsAccounted
    <2>1. received = log \o <<>> \o pusher.hand
      BY DEF Init
    <2>2. ~LeftOpen /\ <<>> \in Hand
      BY DEF Init, LeftOpen, Hand
    <2> QED
      BY <2>1, <2>2 DEF RowsAccounted
  <1> QED
    BY <1>1, <1>2, TypeInit DEF Inv

LEMMA Invariance == Spec => []Inv
  <1>1. Inv /\ [Next]_vars => Inv'
    BY TypeStep, PlacesStep, RowsStep, OrderedStep, NotAheadStep DEF Inv
  <1> QED
    BY <1>1, InvInit, PTL DEF Spec

(* Everything keeps its type: no row has a number above the LIMIT of its   *)
(* query, whatever its answer, and main is never back in its loop once a   *)
(* MySQL item is being watched.                                            *)
THEOREM TypeCorrect == Spec => []TypeOK
  BY Invariance, PTL DEF Inv

(* Whatever queries, rows and Inserts fail, a row that was received is in  *)
(* the log in its place, in the pusher's hands, or the one whose failed    *)
(* Insert stopped all further writes.                                      *)
THEOREM RowsAccountedAlways == Spec => []RowsAccounted
  BY Invariance, PTL DEF Inv

(* The log has the batches one after the other and each query's rows in    *)
(* their order, however the four queries interleave at the pusher.         *)
THEOREM InOrderAlways == Spec => []InOrder
  <1>1. Inv => InOrder
    <2> SUFFICES ASSUME Inv, NEW i \in DOMAIN log, NEW j \in DOMAIN log, i < j
                 PROVE  /\ log[i].batch <= log[j].batch
                        /\ log[i].kind = log[j].kind
                           /\ log[i].batch = log[j].batch =>
                                log[i].nr < log[j].nr
      BY DEF InOrder
    <2>1. PICK lost \in Hand : received = log \o lost \o pusher.hand
      BY DEF Inv, RowsAccounted
    <2>2. /\ log \in Seq(Row)
          /\ lost \in Seq(Row)
          /\ pusher.hand \in Seq(Row)
      <3>1. \A r \in Row : <<r>> \in Seq(Row)
        OBVIOUS
      <3>2. pusher.hand \in Hand /\ log \in Seq(Row)
        BY DEF Inv, TypeOK
      <3> QED
        BY <3>1, <3>2, EmptySeq DEF Hand
    <2>3. log \o lost \in Seq(Row)
      BY <2>2, ConcatProperties
    <2>4. ASSUME NEW n \in DOMAIN log
          PROVE  n \in DOMAIN received /\ received[n] = log[n]
      <3> DEFINE s == log \o lost
      <3>1. n \in 1..Len(log) /\ Len(log) \in Nat /\ Len(lost) \in Nat
            /\ Len(pusher.hand) \in Nat
        BY <2>2, LenProperties
      <3>2. Len(s) = Len(log) + Len(lost) /\ s[n] = log[n]
        BY <2>2, <3>1, ConcatProperties
      <3>3. s \in Seq(Row) /\ received = s \o pusher.hand
        BY <2>1, <2>3
      <3> HIDE DEF s
      <3>4. /\ Len(received) = Len(s) + Len(pusher.hand)
            /\ received \in Seq(Row)
            /\ \A m \in 1..Len(s) + Len(pusher.hand) :
                 received[m] = IF m <= Len(s) THEN s[m]
                               ELSE pusher.hand[m - Len(s)]
        BY <2>2, <3>3, ConcatProperties
      <3>5. n <= Len(s) /\ n \in 1..Len(s) + Len(pusher.hand)
        <4>1. \A a, b, c \in Nat : n \in 1..a =>
                n <= a + b /\ n \in 1..(a + b) + c
          OBVIOUS
        <4> QED
          BY <3>1, <3>2, <4>1, Zenon
      <3>6. received[n] = s[n]
        BY <3>4, <3>5
      <3> QED
        <4>1. Len(received) = Len(s) + Len(pusher.hand)
          BY <3>4
        <4>2. DOMAIN received = 1..Len(received)
          BY <3>4, LenProperties
        <4> QED
          BY <3>2, <3>5, <3>6, <4>1, <4>2
    <2> QED
      BY <2>4 DEF Inv, Ordered
  <1> QED
    BY <1>1, Invariance, PTL

-----------------------------------------------------------------------------
(* Batches *)

(* Only a watched item has batches, and only while one is farmed is a      *)
(* query under way.                                                        *)
Serving ==
  /\ farming => reg.at = "push"
  /\ reg.at = "push" <=> pusher.at # "none"
  /\ \A k \in Kinds : query[k].at # "done" => farming

LEMMA ServingStep == TypeOK /\ Serving /\ [Next]_vars => Serving'
  <1> SUFFICES ASSUME TypeOK, Serving, [Next]_vars
               PROVE  Serving'
    OBVIOUS
  <1>1. ASSUME NEW x \in Items, RegisterOther(x) \/ OpenFails(x) \/ Opens(x)
        PROVE  Serving'
    BY <1>1 DEF RegisterOther, OpenFails, Opens, Takes, TypeOK, Serving
  <1>2. CASE Assigned
    BY <1>2 DEF Assigned, TypeOK, Serving
  <1>3. CASE TakeTick \/ FarmingEnds
    BY <1>3 DEF TakeTick, FarmingEnds, TypeOK, Serving
  <1>4. ASSUME NEW k \in Kinds, Query(k)
        PROVE  Serving'
    <2>1. PICK place, nr : Goes(k, place, nr) /\ query[k].at # "done"
      BY <1>4 DEF Query, QueryFails, QueryAnswers, NextRow, ScanFails,
                  RowsEnd, At
    <2> QED
      BY <2>1 DEF Goes, TypeOK, Serving
  <1>5. ASSUME NEW k \in Kinds, Receive(k)
        PROVE  Serving'
    BY <1>5 DEF Receive, PusherAt, At, TypeOK, Serving
  <1>6. CASE Write
    BY <1>6 DEF Write, Begin, BeginPanics, InsertFails, InsertCommits,
      PusherAt, TypeOK, Serving
  <1>7. CASE UNCHANGED vars
    BY <1>7 DEF vars, Serving
  <1> QED
    BY <1>1, <1>2, <1>3, <1>4, <1>5, <1>6, <1>7
    DEF Next, SetRole, Monitoring, RealtimePusher

(* The rows a query may still read, before and after a row.                *)
LEMMA QueryTypes ==
  ASSUME TypeOK, NEW k \in Kinds
  PROVE  /\ query[k].at \in {"query", "rows", "send", "done"}
         /\ query[k].nr \in 0..Limit
         /\ Limit \in Nat
         /\ query \in [Kinds -> [at : {"query", "rows", "send", "done"},
                                  nr : 0..Limit]]
  BY HubAssumption DEF HubAssumption, TypeOK

LEMMA OwnQuerySteps ==
  ASSUME TypeOK, NEW k \in Kinds, query[k].at # "done",
         Query(k) \/ Receive(k)
  PROVE  QuerySteps(k)' < QuerySteps(k)
  <1> USE QueryTypes
  <1>1. CASE QueryFails(k) \/ QueryAnswers(k)
    <2>1. /\ query[k].at = "query"
          /\ query'[k].at = "done" \/ query'[k] = [at |-> "rows", nr |-> 0]
      BY <1>1 DEF QueryFails, QueryAnswers, At, Goes
    <2> QED
      BY <2>1 DEF QuerySteps
  <1>2. CASE NextRow(k) \/ ScanFails(k)
    <2>1. /\ query[k].at = "rows"
          /\ query'[k].at \in {"send", "rows"}
          /\ query'[k].nr = query[k].nr + 1
      BY <1>2 DEF NextRow, ScanFails, At, Goes
    <2> QED
      BY <2>1 DEF QuerySteps
  <1>3. CASE RowsEnd(k)
    <2>1. query[k].at = "rows" /\ query'[k].at = "done"
      BY <1>3 DEF RowsEnd, At, Goes
    <2> QED
      BY <2>1 DEF QuerySteps
  <1>4. CASE Receive(k)
    <2>1. /\ query[k].at = "send" /\ query'[k].at = "rows"
          /\ query'[k].nr = query[k].nr
      BY <1>4 DEF Receive, At
    <2> QED
      BY <2>1 DEF QuerySteps
  <1> QED
    BY <1>1, <1>2, <1>3, <1>4 DEF Query

LEMMA OtherQuerySteps ==
  ASSUME TypeOK, Serving, [Next]_vars, NEW k \in Kinds,
         query[k].at # "done", ~(Query(k) \/ Receive(k))
  PROVE  QuerySteps(k)' = QuerySteps(k)
  <1>1. query'[k] = query[k]
    <2>1. ASSUME NEW x \in Kinds, Query(x) \/ Receive(x)
          PROVE  query'[k] = query[k]
      <3>1. x # k
        BY <2>1
      <3>2. \E q : query' = [query EXCEPT ![x] = q]
        BY <2>1 DEF Query, QueryFails, QueryAnswers, NextRow, ScanFails,
                    RowsEnd, Goes, Receive
      <3> QED
        BY <3>1, <3>2, QueryTypes
    <2>2. ~TakeTick
      BY DEF TakeTick, Serving
    <2> QED
      BY <2>1, <2>2
      DEF Next, SetRole, Monitoring, RealtimePusher, Write, RegisterOther,
          OpenFails, Opens, Assigned, FarmingEnds, Begin, BeginPanics,
          InsertFails, InsertCommits, vars
  <1> QED
    BY <1>1 DEF QuerySteps

(* However many queries there are and whatever they read, a batch never    *)
(* waits for itself, and each of its queries has a bounded number of steps *)
(* to make: what BatchEnds needs beside the fairness of its steps.         *)
THEOREM BatchesGoOn == Spec => []BatchGoesOn /\ QueriesRunOut
  <1>1. Init => Serving
    BY DEF Init, Serving
  <1>2. TypeOK /\ Serving => BatchGoesOn
    <2> SUFFICES ASSUME TypeOK, Serving, farming, ~Stuck,
                        \A k \in Kinds : query[k].at \notin {"query", "rows"},
                        \E k \in Kinds : query[k].at # "done"
                 PROVE  PusherGoes
      BY DEF BatchGoesOn
    <2>1. \E k \in Kinds : query[k].at = "send"
      BY DEF TypeOK
    <2>2. pusher.at \in {"receive", "begin", "insert"}
      BY DEF Serving, TypeOK
    <2> QED
      BY <2>1, <2>2 DEF PusherGoes, Stuck, LeftOpen
  <1>3. TypeOK /\ Serving /\ [Next]_vars =>
          [\A k \in Kinds :
             query[k].at # "done" =>
               IF Query(k) \/ Receive(k)
               THEN QuerySteps(k)' < QuerySteps(k)
               ELSE QuerySteps(k)' = QuerySteps(k)]_vars
    BY OwnQuerySteps, OtherQuerySteps
  <1> QED
    BY <1>1, <1>2, <1>3, ServingStep, TypeCorrect, PTL
    DEF Spec, QueriesRunOut

(* A failed Insert stops the writing of rows for good, for any number of   *)
(* queries and ticks that follow.                                          *)
THEOREM LossFinalAlways == Spec => LossFinal
  <1>1. Inv /\ Inv' /\ [Next]_vars =>
          [LeftOpen => /\ LeftOpen'
                       /\ log' = log
                       /\ Len(received') <= Len(log) + 2]_vars
    <2> SUFFICES ASSUME Inv, Inv', [Next]_vars, LeftOpen
                 PROVE  /\ LeftOpen'
                        /\ log' = log
                        /\ Len(received') <= Len(log) + 2
      OBVIOUS
    <2>1. LeftOpen' /\ log' = log
      <3>1. writer /\ pusher.at # "insert"
        BY DEF LeftOpen
      <3>2. CASE \E x \in Items : Opens(x)
        BY <3>1, <3>2 DEF Opens, LeftOpen, Inv, TypeOK
      <3>3. CASE \E k \in Kinds : Receive(k)
        BY <3>1, <3>3 DEF Receive, LeftOpen
      <3> QED
        BY <3>1, <3>2, <3>3
        DEF Next, SetRole, Monitoring, RealtimePusher, Write, RegisterOther,
            OpenFails, Assigned, TakeTick, FarmingEnds, Query, QueryFails,
            QueryAnswers, NextRow, ScanFails, RowsEnd, Goes, Begin,
            BeginPanics, InsertFails, InsertCommits, PusherAt, LeftOpen, vars
    <2>2. Hand' = Hand /\ Row' = Row
      BY DEF Hand, Row
    <2>3. PICK lost \in Hand : received' = log' \o lost \o pusher'.hand
      BY <2>2 DEF Inv, RowsAccounted
    <2>4. ASSUME NEW hand \in Hand
          PROVE  hand \in Seq(Row) /\ Len(hand) \in 0..1
      <3>1. CASE hand = <<>>
        BY <3>1, EmptySeq
      <3>2. ASSUME NEW r \in Row, hand = <<r>>
            PROVE  hand \in Seq(Row) /\ Len(hand) \in 0..1
        BY <3>2
      <3> QED
        BY <3>1, <3>2 DEF Hand
    <2> DEFINE held == pusher'.hand
    <2>5. held \in Hand /\ log' \in Seq(Row)
      BY <2>2 DEF Inv, TypeOK
    <2> HIDE DEF held
    <2>6. Len(received') = Len(log') + Len(lost) + Len(held)
      <3>1. received' = log' \o lost \o held
        BY <2>3 DEF held
      <3>2. /\ log' \o lost \in Seq(Row)
            /\ Len(log' \o lost) = Len(log') + Len(lost)
        BY <2>4, <2>5, ConcatProperties
      <3> QED
        BY <2>4, <2>5, <3>1, <3>2, ConcatProperties
    <2>7. Len(log') = Len(log) /\ Len(log) \in Nat
      BY <2>1, <2>5, LenProperties
    <2>8. Len(lost) \in 0..1 /\ Len(held) \in 0..1
      BY <2>4, <2>5
    <2>9. Len(received') <= Len(log) + 2
      <3>1. \A a \in Nat : \A b, c \in 0..1 : a + b + c <= a + 2
        OBVIOUS
      <3> QED
        BY <2>6, <2>7, <2>8, <3>1, Zenon
    <2> QED
      BY <2>1, <2>9
  <1> QED
    BY <1>1, Invariance, PTL DEF Spec, LossFinal
=============================================================================
