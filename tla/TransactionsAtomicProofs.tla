------------------------- MODULE TransactionsAtomicProofs -------------------------
(*****************************************************************************)
(* Every commit is one of the atomic calls: over any tables that keep their   *)
(* foreign keys and for any number of sessions.                              *)
(*                                                                           *)
(* x is a session, c its call and row one of the rows it has written.         *)
(*****************************************************************************)
EXTENDS TransactionsProofs

-----------------------------------------------------------------------------
(* The rows that a session has written *)

\* A session with a transaction under way.
IsActive(x) == IsSession(x) /\ x.pc = "running" /\ Stands(x)

LEMMA ActiveSession ==
  ASSUME AtomicInv, NEW s \in Sessions, Running(s)
  PROVE  IsActive(session[s]) /\ IsCall(session[s].call)
BY RunningSession DEF AtomicInv, IsActive, Running

LEMMA PairFields ==
  ASSUME NEW a, NEW b, NEW row, row = <<a, b>>
  PROVE  row[1] = a /\ row[2] = b
OBVIOUS

LEMMA WriteLockIs ==
  ASSUME NEW c, NEW row, NEW a, NEW b, row = <<a, b>>
  PROVE  /\ WriteLock(c, row).row = row
         /\ c.name \in {"InsertSignal", "InsertActivity", "DeleteWorkflows"} =>
              WriteLock(c, row) = Request(a, b, "update") /\ WriteLock(c, row).mode = "update"
         /\ c.name \notin {"InsertSignal", "InsertActivity", "DeleteWorkflows"} =>
              /\ WriteLock(c, row) = Request(a, b, "no_key_update")
              /\ WriteLock(c, row).mode = "no_key_update"
BY DEF WriteLock, Request

\* The rows that the inserts put in place.
LEMMA InsertedRows ==
  ASSUME NEW c
  PROVE  /\ c.name = "InsertWorkflow" => InsertedRow(c) = <<"workflow", c.w>>
         /\ c.name = "InsertSignal" =>
              \E g : /\ InsertedRow(c) = <<"signal", g>>
                     /\ First(c) = Request("signal", g, "insert")
                     /\ g = SignalKey[c.w, c.id]
         /\ c.name = "InsertActivity" =>
              \E k : /\ InsertedRow(c) = <<"activity", k>>
                     /\ First(c) = Request("activity", k, "insert")
                     /\ k = ActivityKey[c.w, c.id]
<1> PICK g, k : g = SignalKey[c.w, c.id] /\ k = ActivityKey[c.w, c.id]
  OBVIOUS
<1> QED
  BY FirstStatements DEF InsertedRow, First, RowOf

\* What a call on one row may write.
LEMMA WritableRows ==
  ASSUME NEW c, IsCall(c), c.w # None
  PROVE  /\ c.w \in WorkflowIDs
         /\ c.name \in InsertCalls => Writable(c) = {InsertedRow(c)}
         /\ c.name = "CompleteWorkflow" => Writable(c) = {<<"workflow", c.w>>}
         /\ c.name \in TaskCalls => Writable(c) = {<<"task", c.id>>, <<"workflow", c.w>>}
         /\ c.name \in {"CompleteActivity", "ReScheduleActivity"} =>
              Writable(c) = {<<"activity", c.id>>}
         /\ c.name = "FailActivity" => Writable(c) = {<<"activity", c.id>>, <<"workflow", c.w>>}
<1> PICK want, first, row :
      want = First(c) /\ first = want.row /\ row = <<"workflow", c.w>>
  OBVIOUS
<1>1. c.w \in WorkflowIDs
  BY CallNames
<1>2. /\ c.name = "CompleteWorkflow" => want = Request("workflow", c.w, "no_key_update")
      /\ c.name \in TaskCalls => want = Request("task", c.id, "no_key_update")
      /\ c.name \in ActivityCalls => want = Request("activity", c.id, "no_key_update")
  BY FirstRows
<1>3. /\ c.name = "CompleteWorkflow" => first = <<"workflow", c.w>>
      /\ c.name \in TaskCalls => first = <<"task", c.id>>
      /\ c.name \in ActivityCalls => first = <<"activity", c.id>>
  BY <1>2, RequestFields
<1>4. c.name \in InsertCalls => Writable(c) = {InsertedRow(c)}
  BY DEF Writable, TaskCalls, InsertCalls
<1>5. c.name \in TaskCalls \cup {"FailActivity"} => Writable(c) = {first, row}
  BY DEF Writable, TaskCalls, InsertCalls
<1>6. c.name \notin TaskCalls \cup InsertCalls \cup {"FailActivity"} => Writable(c) = {first}
  BY DEF Writable
<1> QED
  BY <1>1, <1>3, <1>4, <1>5, <1>6 DEF TaskCalls, ActivityCalls, InsertCalls

\* A row that was updated or deleted is one that its call may write.
LEMMA UpdatedRow ==
  ASSUME NEW x, IsActive(x), NEW c, c = x.call, NEW row \in DOMAIN x.writes,
         UpdateStands(x, row)
  PROVE  \E table, id : \E mode \in {"update", "no_key_update"} :
           /\ row = <<table, id>> /\ WriteLock(c, row) = Request(table, id, mode)
           /\ mode = "update" <=> c.name = "DeleteWorkflows"
           /\ Writes(c, table, id, mode)
           /\ table = "workflow" => id \in WorkflowIDs
           /\ table = "task" => id \in TaskIDs
           /\ table = "activity" => id \in ActivityKeys
           /\ table = "signal" => id \in SignalKeys
<1>1. /\ IsCall(c) /\ c.name \notin InsertCalls
      /\ c.w = None => TakesBatch(x)
      /\ c.w # None => HasRun(x)
  BY DEF IsActive, IsSession, Stands, UpdateStands
<1>2. ASSUME c.w # None
      PROVE  \E table, id :
               /\ row = <<table, id>> /\ c.name # "DeleteWorkflows"
               /\ Writes(c, table, id, "no_key_update")
               /\ table = "workflow" => id \in WorkflowIDs
               /\ table = "task" => id \in TaskIDs
               /\ table = "activity" => id \in ActivityKeys
               /\ table # "signal"
  <2>1. row \in Writable(c)
    BY <1>1, <1>2 DEF HasRun
  <2>2. /\ c.name \in TaskCalls => c.id \in TaskIDs
        /\ c.name \in ActivityCalls => c.id \in ActivityKeys
        /\ c.w \in WorkflowIDs
    BY <1>1, <1>2, CallNames DEF IsCall, TaskCalls, ActivityCalls, ClaimCalls
  <2>3. c.name \in TaskCalls \cup ActivityCalls \cup {"CompleteWorkflow"}
    BY <1>1, <1>2, CallNames DEF TaskCalls, ActivityCalls, InsertCalls
  <2>4. \/ /\ row = <<"workflow", c.w>>
           /\ c.name \in TaskCalls \cup {"CompleteWorkflow", "FailActivity"}
        \/ row = <<"task", c.id>> /\ c.name \in TaskCalls
        \/ row = <<"activity", c.id>> /\ c.name \in ActivityCalls
    BY <1>1, <1>2, <2>1, <2>3, WritableRows DEF TaskCalls, ActivityCalls
  <2>5. c.name # "DeleteWorkflows"
    BY <2>3 DEF TaskCalls, ActivityCalls
  <2> QED
    BY <2>2, <2>4, <2>5 DEF Writes
<1>3. ASSUME c.w = None
      PROVE  \E table, id : \E mode \in {"update", "no_key_update"} :
               /\ row = <<table, id>>
               /\ mode = "update" <=> c.name = "DeleteWorkflows"
               /\ Writes(c, table, id, mode)
               /\ table = "workflow" => id \in WorkflowIDs
               /\ table = "task" => id \in TaskIDs
               /\ table = "activity" => id \in ActivityKeys
               /\ table = "signal" => id \in SignalKeys
  <2> PICK name, lock : name = c.name /\ lock = WriteLock(c, row)
    OBVIOUS
  <2>1. name \in {"ClaimTasks", "ClaimActivities", "DeleteWorkflows"}
    BY <1>1, <1>3, CallNames
  <2>2. lock \in BatchRows(name) /\ lock.row = row
    BY <1>1, <1>3 DEF TakesBatch, UpdateStands, WriteLock
  <2>3. \E table, id : \E mode \in {"update", "no_key_update"} :
          /\ lock = Request(table, id, mode)
          /\ mode = "update" <=> name = "DeleteWorkflows"
          /\ \/ table = "task" /\ id \in TaskIDs /\ name \in {"ClaimTasks", "DeleteWorkflows"}
             \/ /\ table = "activity" /\ id \in ActivityKeys
                /\ name \in {"ClaimActivities", "DeleteWorkflows"}
             \/ /\ table = "workflow" /\ id \in WorkflowIDs
                /\ name = "DeleteWorkflows"
             \/ table = "signal" /\ id \in SignalKeys /\ name = "DeleteWorkflows"
    <3>1. CASE name = "ClaimTasks"
      BY <2>2, <3>1, BatchRow
    <3>2. CASE name = "ClaimActivities"
      BY <2>2, <3>2, BatchRow
    <3>3. CASE name = "DeleteWorkflows"
      BY <2>2, <3>3, BatchRow
    <3> QED
      BY <2>1, <3>1, <3>2, <3>3
  <2>4. PICK table, id : \E mode \in {"update", "no_key_update"} :
          /\ lock = Request(table, id, mode)
          /\ mode = "update" <=> name = "DeleteWorkflows"
          /\ \/ table = "task" /\ id \in TaskIDs /\ name \in {"ClaimTasks", "DeleteWorkflows"}
             \/ /\ table = "activity" /\ id \in ActivityKeys
                /\ name \in {"ClaimActivities", "DeleteWorkflows"}
             \/ /\ table = "workflow" /\ id \in WorkflowIDs
                /\ name = "DeleteWorkflows"
             \/ table = "signal" /\ id \in SignalKeys /\ name = "DeleteWorkflows"
    BY <2>3
  <2>5. PICK mode \in {"update", "no_key_update"} :
          /\ lock = Request(table, id, mode)
          /\ mode = "update" <=> name = "DeleteWorkflows"
    BY <2>4
  <2>6. row = <<table, id>>
    BY <2>2, <2>5, RequestFields
  <2>7. Writes(c, table, id, mode)
    BY <2>4, <2>5 DEF Writes
  <2> QED
    BY <2>4, <2>5, <2>6, <2>7
<1>4. PICK table, id : \E mode \in {"update", "no_key_update"} :
        /\ row = <<table, id>>
        /\ mode = "update" <=> c.name = "DeleteWorkflows"
        /\ Writes(c, table, id, mode)
        /\ table = "workflow" => id \in WorkflowIDs
        /\ table = "task" => id \in TaskIDs
        /\ table = "activity" => id \in ActivityKeys
        /\ table = "signal" => id \in SignalKeys
  <2>1. CASE c.w # None
    BY <1>2, <2>1
  <2>2. CASE c.w = None
    BY <1>3, <2>2
  <2> QED
    BY <2>1, <2>2
<1>5. PICK mode \in {"update", "no_key_update"} :
        /\ row = <<table, id>>
        /\ mode = "update" <=> c.name = "DeleteWorkflows"
        /\ Writes(c, table, id, mode)
  BY <1>4
<1>6. WriteLock(c, row) = Request(table, id, mode)
  BY <1>1, <1>5, WriteLockIs DEF InsertCalls
<1> QED
  BY <1>4, <1>5, <1>6

-----------------------------------------------------------------------------
(* Rows that stay as they are *)

Same(row) ==
  /\ row[1] = "workflow" => workflows'[row[2]] = workflows[row[2]]
  /\ row[1] = "task" => tasks'[row[2]] = tasks[row[2]]
  /\ row[1] = "activity" => activities'[row[2]] = activities[row[2]]
  /\ row[1] = "signal" => signals'[row[2]] = signals[row[2]]

LEMMA SameRowExists ==
  ASSUME NEW table \in {"workflow", "task", "activity", "signal"}, NEW id,
         NEW row, row = <<table, id>>, Same(row)
  PROVE  RowExists(row)' <=> RowExists(row)
<1>1. row[1] = table /\ row[2] = id
  BY PairFields
<1>2. CASE table = "workflow"
  BY <1>1, <1>2 DEF Same, RowExists, Exists
<1>3. CASE table = "task"
  BY <1>1, <1>3 DEF Same, RowExists, TaskExists
<1>4. CASE table = "activity"
  BY <1>1, <1>4 DEF Same, RowExists
<1>5. CASE table = "signal"
  BY <1>1, <1>5 DEF Same, RowExists
<1> QED
  BY <1>2, <1>3, <1>4, <1>5

LEMMA SameFinds ==
  ASSUME NEW table \in {"workflow", "task", "activity", "signal"}, NEW id,
         NEW row, row = <<table, id>>, Same(row), NEW c
  PROVE  Finds(c, row)' <=> Finds(c, row)
<1>1. row[1] = table /\ row[2] = id
  BY PairFields
<1>2. RowExists(row)' <=> RowExists(row)
  BY SameRowExists
<1>3. table = "activity" => (OwnsActivity(c.w, id)' <=> OwnsActivity(c.w, id))
  BY <1>1 DEF Same, OwnsActivity
<1> QED
  BY <1>1, <1>2, <1>3 DEF Finds

LEMMA SameUpdate ==
  ASSUME NEW c, NEW id
  PROVE  /\ (/\ workflows'[id] = workflows[id]
             /\ c.name \in TaskCalls \cup {"CompleteWorkflow", "FailActivity"}) =>
              UpdatedWorkflow(c, id)' = UpdatedWorkflow(c, id)
         /\ (tasks'[id] = tasks[id] /\ c.name \in TaskCalls \cup {"ClaimTasks"}) =>
              UpdatedTask(c, id)' = UpdatedTask(c, id)
         /\ (/\ activities'[id] = activities[id]
             /\ c.name \in ActivityCalls \cup {"ClaimActivities"}) =>
              UpdatedActivity(c, id)' = UpdatedActivity(c, id)
<1>1. ASSUME workflows'[id] = workflows[id],
             c.name \in TaskCalls \cup {"CompleteWorkflow", "FailActivity"}
      PROVE  UpdatedWorkflow(c, id)' = UpdatedWorkflow(c, id)
  BY <1>1 DEF UpdatedWorkflow, TaskCalls
<1>2. ASSUME tasks'[id] = tasks[id], c.name \in TaskCalls \cup {"ClaimTasks"}
      PROVE  UpdatedTask(c, id)' = UpdatedTask(c, id)
  BY <1>2 DEF UpdatedTask, TaskCalls
<1>3. ASSUME activities'[id] = activities[id], c.name \in ActivityCalls \cup {"ClaimActivities"}
      PROVE  UpdatedActivity(c, id)' = UpdatedActivity(c, id)
  BY <1>3 DEF UpdatedActivity, ActivityCalls
<1> QED
  BY <1>1, <1>2, <1>3

\* What an update makes of a row, by table.
LEMMA NewRowIs ==
  ASSUME NEW c, NEW table, NEW id, NEW row, row = <<table, id>>
  PROVE  /\ NewRow(row, "update", c) = Deleted(table)
         /\ table = "workflow" => NewRow(row, "no_key_update", c) = UpdatedWorkflow(c, id)
         /\ table = "task" => NewRow(row, "no_key_update", c) = UpdatedTask(c, id)
         /\ table = "activity" => NewRow(row, "no_key_update", c) = UpdatedActivity(c, id)
BY PairFields DEF NewRow

LEMMA UpdateStays ==
  ASSUME NEW x, IsActive(x), NEW row \in DOMAIN x.writes, UpdateStands(x, row), Same(row)
  PROVE  UpdateStands(x, row)'
<1> PICK c : c = x.call
  OBVIOUS
<1>1. PICK table, id : \E mode \in {"update", "no_key_update"} :
        /\ row = <<table, id>> /\ WriteLock(c, row) = Request(table, id, mode)
        /\ Writes(c, table, id, mode)
  BY UpdatedRow
<1>2. PICK mode \in {"update", "no_key_update"} :
        /\ row = <<table, id>> /\ WriteLock(c, row) = Request(table, id, mode)
        /\ Writes(c, table, id, mode)
  BY <1>1
<1>3. row[1] = table /\ row[2] = id /\ WriteLock(c, row).mode = mode
  BY <1>2, PairFields, RequestFields
<1>4. table \in {"workflow", "task", "activity", "signal"}
  BY <1>2 DEF Writes
<1>5. Finds(c, row)'
  BY <1>2, <1>4, SameFinds DEF UpdateStands
<1>6. NewRow(row, mode, c)' = NewRow(row, mode, c)
  <2>1. CASE mode = "update"
    BY <1>2, <2>1, NewRowIs DEF NewRow
  <2>2. CASE mode = "no_key_update" /\ table = "workflow"
    <3>1. UpdatedWorkflow(c, id)' = UpdatedWorkflow(c, id)
      BY <1>2, <1>3, <2>2, SameUpdate DEF Same, Writes
    <3> QED
      BY <1>3, <2>2, <3>1 DEF NewRow
  <2>3. CASE mode = "no_key_update" /\ table = "task"
    <3>1. UpdatedTask(c, id)' = UpdatedTask(c, id)
      BY <1>2, <1>3, <2>3, SameUpdate DEF Same, Writes
    <3> QED
      BY <1>3, <2>3, <3>1 DEF NewRow
  <2>4. CASE mode = "no_key_update" /\ table = "activity"
    <3>1. UpdatedActivity(c, id)' = UpdatedActivity(c, id)
      BY <1>2, <1>3, <2>4, SameUpdate DEF Same, Writes
    <3> QED
      BY <1>3, <2>4, <3>1 DEF NewRow
  <2> QED
    BY <1>2, <2>1, <2>2, <2>3, <2>4 DEF Writes
<1> QED
  BY <1>3, <1>5, <1>6 DEF UpdateStands

-----------------------------------------------------------------------------
(* Steps that leave the tables as they are *)

LEMMA QuietTables ==
  ASSUME NEW x, IsActive(x), UNCHANGED storageVars
  PROVE  Stands(x)'
<1>1. \A row : Same(row)
  BY DEF Same, storageVars
<1>2. WritesStand(x)'
  <2> SUFFICES ASSUME NEW row \in DOMAIN x.writes
               PROVE  InsertStands(x, row)' \/ UpdateStands(x, row)'
    BY DEF WritesStand
  <2>1. CASE UpdateStands(x, row)
    BY <1>1, <2>1, UpdateStays
  <2>2. CASE InsertStands(x, row)
    <3>1. \E id : \E table \in {"workflow", "signal", "activity"} : row = <<table, id>>
      BY <2>2, InsertedRows DEF InsertStands, InsertCalls
    <3>2. RowExists(row)' <=> RowExists(row)
      BY <1>1, <3>1, SameRowExists
    <3> QED
      BY <2>2, <3>2 DEF InsertStands
  <2> QED
    BY <2>1, <2>2 DEF IsActive, Stands, WritesStand
<1>3. LocksStand(x)'
  BY DEF IsActive, Stands, LocksStand, Exists, storageVars
<1>4. CascadeStands(x) => CascadeStands(x)'
  BY DEF CascadeStands, storageVars
<1> QED
  BY <1>2, <1>3, <1>4 DEF IsActive, Stands

\* A step of one session, when what it has done so far still stands.
LEMMA OneSessionMoves ==
  ASSUME AtomicInv, TransactionInv', NEW s \in Sessions, NEW y,
         session' = [session EXCEPT ![s] = y], UNCHANGED storageVars,
         y.pc = "running" => Stands(y)
  PROVE  AtomicInv'
<1>1. session'[s] = y /\ \A r \in Sessions \ {s} : session'[r] = session[r]
  BY DEF AtomicInv, TransactionInv
<1>2. TablesFit'
  BY DEF AtomicInv, TablesFit, ForeignKeys, TaskExists, Exists, storageVars
<1>3. ASSUME NEW r \in Sessions, Running(r)'
      PROVE  Stands(session[r])'
  <2>1. CASE r = s
    <3>1. y.pc = "running"
      BY <1>1, <1>3, <2>1 DEF Running
    <3>2. IsActive(y)
      BY <1>1, <3>1 DEF TransactionInv, IsActive
    <3>3. Stands(y)'
      BY <3>2, QuietTables
    <3> QED
      BY <1>1, <2>1, <3>3
  <2>2. CASE r # s
    <3> PICK x : x = session[r]
      OBVIOUS
    <3>1. x = session'[r] /\ x = session[r]
      BY <1>1, <2>2
    <3>2. Running(r)
      BY <1>3, <3>1 DEF Running
    <3>3. IsActive(x)
      BY <3>2, ActiveSession
    <3>4. Stands(x)'
      BY <3>3, QuietTables
    <3> QED
      BY <3>1, <3>4
  <2> QED
    BY <2>1, <2>2
<1> QED
  BY <1>2, <1>3 DEF AtomicInv

LEMMA RollsBackKeepsAtomic ==
  ASSUME AtomicInv, TransactionInv', NEW s \in Sessions, RollsBack(s)
  PROVE  AtomicInv'
<1> PICK done : done = [IdleSession EXCEPT !.pc = "done"]
  OBVIOUS
<1>1. done.pc = "done"
  BY DoneIsASession
<1>2. session' = [session EXCEPT ![s] = done] /\ UNCHANGED storageVars
  BY DEF RollsBack
<1> QED
  BY <1>1, <1>2, OneSessionMoves

\* The rows of a sequence of requests.
RowsIn(q) == {q[i].row : i \in DOMAIN q}

\* An order of a set has all its elements.
LEMMA OrdersCover ==
  ASSUME NEW S, IsFiniteSet(S), NEW f \in SetToSeqs(S)
  PROVE  {f[i].row : i \in DOMAIN f} = {e.row : e \in S}
<1> PICK n : n = Cardinality(S)
  OBVIOUS
<1>1. n \in Nat
  BY FS_CardinalityType
<1>2. f \in [1..n -> S] /\ \A i, j \in 1..n : i # j => f[i] # f[j]
  BY DEF SetToSeqs
<1> PICK D : D = 1..n
  OBVIOUS
<1>3. f \in Injection(D, S)
  BY <1>2 DEF Injection, IsInjective
<1>4. Cardinality(D) = Cardinality(S)
  BY <1>1, FS_Interval
<1>5. f \in Surjection(D, S)
  BY <1>3, <1>4, FS_Injection
<1>6. \A e \in S : \E i \in 1..n : f[i] = e
  BY <1>5 DEF Surjection
<1>7. DOMAIN f = 1..n
  BY <1>2
<1> QED
  BY <1>2, <1>6, <1>7

\* Sequence q is want and then more.
Splits(q, want, more) ==
  /\ RowsIn(q) = {want.row} \cup RowsIn(more)
  /\ \A i \in DOMAIN more : \E j \in DOMAIN q : more[i] = q[j]

LEMMA AwaitedRest ==
  ASSUME NEW S, NEW q \in Seq(S), q # <<>>, NEW want, want = Head(q), NEW more, more = Tail(q)
  PROVE  Splits(q, want, more)
<1> PICK n : n = Len(q)
  OBVIOUS
<1>1. n \in Nat /\ n > 0 /\ DOMAIN q = 1..n /\ Head(q) = q[1]
  OBVIOUS
<1>2. DOMAIN Tail(q) = 1..(n - 1) /\ \A i \in 1..(n - 1) : Tail(q)[i] = q[i + 1]
  OBVIOUS
<1>3. \A i \in 1..n : i = 1 \/ (i - 1 \in 1..(n - 1) /\ Tail(q)[i - 1] = q[i])
  BY <1>1, <1>2
<1>4. \A i \in 1..(n - 1) : i + 1 \in 1..n /\ Tail(q)[i] = q[i + 1]
  BY <1>1, <1>2
<1>5. ASSUME NEW i \in DOMAIN Tail(q)
      PROVE  \E j \in DOMAIN q : Tail(q)[i] = q[j]
  BY <1>1, <1>2, <1>4
<1> PICK rest, first : /\ first = Head(q).row
                       /\ rest = {Tail(q)[j].row : j \in DOMAIN Tail(q)}
  OBVIOUS
<1>6. ASSUME NEW i \in 1..n
      PROVE  q[i].row \in {first} \cup rest
  <2>1. CASE i = 1
    BY <1>1, <2>1
  <2>2. CASE i - 1 \in 1..(n - 1) /\ Tail(q)[i - 1] = q[i]
    BY <1>2, <2>2
  <2> QED
    BY <1>3, <2>1, <2>2
<1>7. first = q[1].row /\ 1 \in 1..n
  BY <1>1
<1>8. ASSUME NEW e \in rest
      PROVE  \E i \in 1..n : e = q[i].row
  BY <1>1, <1>5, <1>8
<1>9. {q[i].row : i \in DOMAIN q} = {first} \cup rest
  BY <1>1, <1>6, <1>7, <1>8
<1> QED
  BY <1>5, <1>9 DEF RowsIn, Splits

-----------------------------------------------------------------------------
(* The begin of a transaction and of its second statement *)

LEMMA RowsOf ==
  ASSUME NEW table, NEW ids, NEW mode, NEW want \in Rows(table, ids, mode)
  PROVE  \E id \in ids : want.row = <<table, id>> /\ want.row[1] = table
<1>1. PICK id \in ids : want = Request(table, id, mode)
  BY DEF Rows
<1> QED
  BY <1>1, RequestFields

LEMMA PairsAgree ==
  ASSUME NEW a, NEW b, NEW d, NEW e, <<a, b>> = <<d, e>>
  PROVE  a = d /\ b = e
OBVIOUS

\* A DELETE begins with workflows that have ended.
LEMMA DeleteBegins ==
  ASSUME NEW s \in Sessions, NEW c, c.id \in {"completed", "failed"},
         NEW order \in Orders(s, c, "deleteWorkflows"),
         NEW y, y.todo = order, DOMAIN y.writes = {}, y.script = <<"cascade">>
  PROVE  CascadeStands(y)
<1>1. PICK W \in SUBSET {w \in WorkflowIDs : workflows[w].status = c.id} :
        order \in SetToSeqs(Rows("workflow", W, "update"))
  BY DEF Orders, Rows
<1> PICK rows : rows = Rows("workflow", W, "update")
  OBVIOUS
<1>2. IsFiniteSet(rows)
  BY RowsAreFinite, SessionsAssumption DEF SessionsAssumption
<1>3. order \in Seq(rows)
  BY <1>1, <1>2, OrdersAreSequences
<1>4. \A i \in DOMAIN order : order[i] \in rows
  BY <1>3
<1>5. \A row \in Concerned(y) : \E i \in DOMAIN order : row = order[i].row
  BY DEF Concerned
<1>6. ASSUME NEW row \in Concerned(y)
      PROVE  \E w \in W : row = <<"workflow", w>> /\ row[1] = "workflow"
  <2> PICK i \in DOMAIN order : row = order[i].row
    BY <1>5
  <2> PICK want : want = order[i]
    OBVIOUS
  <2>1. want \in Rows("workflow", W, "update")
    BY <1>4
  <2>2. \E w \in W : want.row = <<"workflow", w>> /\ want.row[1] = "workflow"
    BY <2>1, RowsOf
  <2> QED
    BY <2>2
<1>7. ASSUME NEW w \in WorkflowIDs, <<"workflow", w>> \in Concerned(y)
      PROVE  w \in W
  <2> PICK row : row = <<"workflow", w>>
    OBVIOUS
  <2>1. row \in Concerned(y)
    BY <1>7
  <2> PICK id \in W : row = <<"workflow", id>>
    BY <1>6, <2>1
  <2> QED
    BY PairFields
<1>8. y.script # <<>>
  OBVIOUS
<1> QED
  BY <1>6, <1>7, <1>8 DEF CascadeStands

LEMMA BeginKeepsAtomic ==
  ASSUME AtomicInv, TransactionInv', NEW s \in Sessions, NEW c, Begin(s, c), IsCall(c),
         c.name = "DeleteWorkflows" => c.id \in {"completed", "failed"}
  PROVE  AtomicInv'
<1> PICK x, st, script :
      x = session[s] /\ st = Head(Statements[c.name]) /\ script = Tail(Statements[c.name])
  OBVIOUS
<1>1. PICK order, y :
        /\ order \in Orders(s, c, st)
        /\ Begun(x, y, c, order, script)
        /\ session' = [session EXCEPT ![s] = y]
  BY DEF Begin, Begun
<1>2. x = [IdleSession EXCEPT !.pc = "idle"]
  <2>1. x.pc = "idle" /\ x = [IdleSession EXCEPT !.pc = x.pc]
    BY DEF AtomicInv, TransactionInv, IsSession, Begin
  <2> QED
    BY <2>1
<1>3. /\ y.pc = "running" /\ y.call = c /\ y.script = script /\ y.todo = order
      /\ DOMAIN y.writes = {} /\ y.newTask = None /\ y.locks = {}
  BY <1>1, <1>2, BegunFields
<1>4. WritesStand(y) /\ LocksStand(y)
  BY <1>3 DEF WritesStand, LocksStand
<1>5. ASSUME c.w # None
      PROVE  HasRun(y)
  <2>1. st \notin {"fetchWorkflowTasks", "fetchActivities", "deleteWorkflows", "cascade",
                   "insertWorkflowTask"}
    BY <1>5, CallNames, FirstStatements
  <2>2. order = <<First(c)>>
    BY <1>1, <2>1 DEF Orders, First
  <2>3. order # <<>>
    BY <2>2
  <2>4. c.name \in {"InsertSignal", "CompleteActivity"} => script # <<>>
    BY LaterStatements
  <2> QED
    BY <1>3, <2>2, <2>3, <2>4 DEF HasRun
<1>6. ASSUME c.name = "DeleteWorkflows"
      PROVE  CascadeStands(y)
  <2>1. st = "deleteWorkflows" /\ script = <<"cascade">>
    BY <1>6, FirstStatements, LaterStatements
  <2>2. order \in Orders(s, c, "deleteWorkflows")
    BY <1>1, <2>1
  <2>3. c.id \in {"completed", "failed"}
    BY <1>6
  <2>4. y.script = <<"cascade">> /\ y.todo = order /\ DOMAIN y.writes = {}
    BY <1>3, <2>1
  <2> QED
    BY <2>2, <2>3, <2>4, DeleteBegins
<1>7. Stands(y)
  BY <1>3, <1>4, <1>5, <1>6 DEF Stands
<1>8. UNCHANGED storageVars
  BY DEF Begin
<1> QED
  BY <1>1, <1>7, <1>8, OneSessionMoves

LEMMA BeginAnyKeepsAtomic ==
  ASSUME AtomicInv, TransactionInv', NEW s \in Sessions, BeginAny(s)
  PROVE  AtomicInv'
<1>1. ASSUME NEW w \in WorkflowIDs, Exists(w), NEW c \in CallsFor(w), Begin(s, c)
      PROVE  AtomicInv'
  <2>1. IsCall(c) /\ c.w = w /\ c.w # None
    BY <1>1, CallsForAWorkflow, StorageAssumption DEF StorageAssumption
  <2>2. c.name # "DeleteWorkflows"
    BY <2>1, CallNames
  <2> QED
    BY <1>1, <2>1, <2>2, BeginKeepsAtomic
<1>2. ASSUME NEW c \in BatchCalls, Begin(s, c)
      PROVE  AtomicInv'
  <2>1. IsCall(c)
    BY <1>2, BatchesAreCalls
  <2>2. c.name = "DeleteWorkflows" => c.id \in {"completed", "failed"}
    <3>1. \/ c \in CallsOf("ClaimTasks", None, {None}, {None})
          \/ c \in CallsOf("ClaimActivities", None, {None}, {None})
          \/ c \in CallsOf("DeleteWorkflows", None, {"completed", "failed"}, {None})
      BY <1>2 DEF BatchCalls
    <3> QED
      BY <3>1, CallFields
  <2> QED
    BY <1>2, <2>1, <2>2, BeginKeepsAtomic
<1>3. ASSUME FreshIDs # {}, NEW key \in RequestKeys,
             Begin(s, CallOf("InsertWorkflow", CHOOSE w \in FreshIDs : TRUE, key, None))
      PROVE  AtomicInv'
  <2> PICK w \in FreshIDs : w = CHOOSE id \in FreshIDs : TRUE
    BY <1>3
  <2> PICK c : c = CallOf("InsertWorkflow", w, key, None)
    OBVIOUS
  <2>1. c.name = "InsertWorkflow" /\ c.w = w /\ c.id = key
    BY DEF CallOf
  <2>2. IsCall(c)
    BY <2>1, <1>3 DEF FreshIDs, IsCall, InsertCalls, TaskCalls, ActivityCalls, ClaimCalls
  <2> QED
    BY <1>3, <2>1, <2>2, BeginKeepsAtomic
<1> QED
  BY <1>1, <1>2, <1>3 DEF BeginAny

\* What a session has written and locked stands when its call goes on.
LEMMA WorkGoesOn ==
  ASSUME NEW x, NEW y, y.call = x.call, x.locks \subseteq y.locks,
         NEW row, y.writes[row] = x.writes[row],
         InsertStands(x, row) \/ UpdateStands(x, row)
  PROVE  InsertStands(y, row) \/ UpdateStands(y, row)
BY DEF InsertStands, UpdateStands

\* A step to a session with the same call, writes and locks.
LEMMA SameWork ==
  ASSUME NEW x, NEW y, y.call = x.call, y.writes = x.writes, y.locks = x.locks,
         WritesStand(x), LocksStand(x)
  PROVE  WritesStand(y) /\ LocksStand(y)
<1>1. ASSUME NEW row \in DOMAIN y.writes
      PROVE  InsertStands(y, row) \/ UpdateStands(y, row)
  BY <1>1, WorkGoesOn DEF WritesStand
<1>2. LocksStand(y)
  BY DEF LocksStand
<1> QED
  BY <1>1, <1>2 DEF WritesStand

\* The requests for the row of a workflow.
LEMMA FirstIsNotLater ==
  ASSUME NEW c, IsCall(c), c.w # None
  PROVE  /\ First(c) # Reference(c.w)
         /\ c.name # "CompleteWorkflow" => First(c) # Second(c)
         /\ c.name \in TaskCalls \cup {"FailActivity"} =>
              Second(c) = Request("workflow", c.w, "no_key_update")
         /\ c.name \in {"InsertSignal", "CompleteActivity"} => Second(c) = Reference(c.w)
<1> PICK want, second : want = First(c) /\ second = Second(c)
  OBVIOUS
<1>1. \/ want.row[1] # "workflow"
      \/ c.name = "CompleteWorkflow" /\ want.mode = "no_key_update"
  BY FirstTable, FirstRows, RequestFields
<1>2. second.row[1] = "workflow"
  BY RequestFields DEF Second, Reference
<1>3. Reference(c.w).row[1] = "workflow" /\ Reference(c.w).mode = "key_share"
  BY RequestFields DEF Reference
<1>4. want # Reference(c.w)
  BY <1>1, <1>3
<1>5. c.name # "CompleteWorkflow" => want # second
  BY <1>1, <1>2
<1> QED
  BY <1>4, <1>5 DEF Second, TaskCalls

LEMMA RowsNamed ==
  ASSUME NEW table, NEW ids, NEW mode,
         NEW name, NEW id, NEW row, row = <<name, id>>
  PROVE  (\E e \in Rows(table, ids, mode) : e.row = row) <=> name = table /\ id \in ids
<1>1. row[1] = name /\ row[2] = id
  BY PairFields
<1>2. ASSUME NEW e \in Rows(table, ids, mode), e.row = row
      PROVE  name = table /\ id \in ids
  <2> PICK other \in ids : e.row = <<table, other>>
    BY RowsOf
  <2>1. row[1] = table /\ row[2] = other
    BY <1>2, PairFields
  <2> QED
    BY <1>1, <2>1
<1>3. ASSUME name = table, id \in ids
      PROVE  \E e \in Rows(table, ids, mode) : e.row = row
  <2> PICK e : e = Request(table, id, mode)
    OBVIOUS
  <2>1. e \in Rows(table, ids, mode)
    BY <1>3 DEF Rows
  <2>2. e.row = row
    BY <1>3, RequestFields
  <2> QED
    BY <2>1, <2>2
<1> QED
  BY <1>2, <1>3

\* The rows that an order takes of the three tables that refer to a workflow.
CascadeOrder(order, T, K, G) ==
  /\ \A id : (\E i \in DOMAIN order : order[i].row = <<"task", id>>) <=> id \in T
  /\ \A id : (\E i \in DOMAIN order : order[i].row = <<"activity", id>>) <=> id \in K
  /\ \A id : (\E i \in DOMAIN order : order[i].row = <<"signal", id>>) <=> id \in G
  /\ \A i \in DOMAIN order : order[i].row[1] # "workflow"

\* What the cascade of the deleted workflows takes.
LEMMA CascadeRows ==
  ASSUME NEW T \in SUBSET TaskIDs, NEW K \in SUBSET ActivityKeys, NEW G \in SUBSET SignalKeys,
         NEW order, NEW S, S = Rows("task", T, "update") \cup Rows("activity", K, "update")
                               \cup Rows("signal", G, "update"),
         order \in SetToSeqs(S)
  PROVE  CascadeOrder(order, T, K, G)
<1>1. IsFiniteSet(S)
  <2>1. IsFiniteSet(TaskIDs)
    BY FS_Interval, StorageAssumption DEF StorageAssumption, TaskIDs
  <2>2. /\ IsFiniteSet(Rows("task", T, "update"))
        /\ IsFiniteSet(Rows("activity", K, "update"))
        /\ IsFiniteSet(Rows("signal", G, "update"))
    BY <2>1, RowsAreFinite, SessionsAssumption DEF SessionsAssumption
  <2> QED
    BY <2>2, FS_Union
<1>2. {order[i].row : i \in DOMAIN order} = {e.row : e \in S}
  BY <1>1, OrdersCover
<1>3. \A row : (\E i \in DOMAIN order : order[i].row = row) <=> \E e \in S : e.row = row
  <2>1. \A row : (\E i \in DOMAIN order : order[i].row = row) <=>
          row \in {order[i].row : i \in DOMAIN order}
    OBVIOUS
  <2>2. \A row : (\E e \in S : e.row = row) <=> row \in {e.row : e \in S}
    OBVIOUS
  <2> QED
    BY <1>2, <2>1, <2>2
<1>4. \A e : e \in S <=> e \in Rows("task", T, "update") \/ e \in Rows("activity", K, "update") \/ e \in Rows("signal", G, "update")
  OBVIOUS
<1>5. ASSUME NEW name, NEW id
      PROVE  /\ (\E e \in Rows("task", T, "update") : e.row = <<name, id>>) <=> name = "task" /\ id \in T
             /\ (\E e \in Rows("activity", K, "update") : e.row = <<name, id>>)
                  <=> name = "activity" /\ id \in K
             /\ (\E e \in Rows("signal", G, "update") : e.row = <<name, id>>) <=> name = "signal" /\ id \in G
  <2> PICK row : row = <<name, id>>
    OBVIOUS
  <2>1. (\E e \in Rows("task", T, "update") : e.row = row) <=> name = "task" /\ id \in T
    BY RowsNamed
  <2>2. (\E e \in Rows("activity", K, "update") : e.row = row) <=> name = "activity" /\ id \in K
    BY RowsNamed
  <2>3. (\E e \in Rows("signal", G, "update") : e.row = row) <=> name = "signal" /\ id \in G
    BY RowsNamed
  <2> QED
    BY <2>1, <2>2, <2>3
<1>6. \A id : (\E e \in S : e.row = <<"task", id>>) <=> id \in T
  BY <1>4, <1>5
<1>7. \A id : (\E e \in S : e.row = <<"activity", id>>) <=> id \in K
  BY <1>4, <1>5
<1>8. \A id : (\E e \in S : e.row = <<"signal", id>>) <=> id \in G
  BY <1>4, <1>5
<1>9. \A e \in S : e.row[1] # "workflow"
  <2>1. \A e \in Rows("task", T, "update") : e.row[1] = "task"
    BY RowsOf
  <2>2. \A e \in Rows("activity", K, "update") : e.row[1] = "activity"
    BY RowsOf
  <2>3. \A e \in Rows("signal", G, "update") : e.row[1] = "signal"
    BY RowsOf
  <2> QED
    BY <1>4, <2>1, <2>2, <2>3
<1>10. ASSUME NEW i \in DOMAIN order
       PROVE  order[i].row[1] # "workflow"
  <2> PICK row : row = order[i].row
    OBVIOUS
  <2>1. \E e \in S : e.row = row
    BY <1>3
  <2> QED
    BY <1>9, <2>1
<1> QED
  BY <1>3, <1>6, <1>7, <1>8, <1>10 DEF CascadeOrder

\* The cascade of a DELETE begins.
LEMMA CascadeBegins ==
  ASSUME NEW s \in Sessions, NEW x, x = session[s], CascadeStands(x),
         x.todo = <<>>, x.script # <<>>, NEW c,
         NEW order \in Orders(s, c, "cascade"),
         NEW y, y.todo = order, y.writes = x.writes, y.script = <<>>
  PROVE  CascadeStands(y)
<1> PICK deleted : deleted = {w \in WorkflowIDs : <<"workflow", w>> \in DOMAIN x.writes}
  OBVIOUS
<1> PICK T, K, G : /\ T = {t \in TaskIDs : tasks[t].wf \in deleted}
                   /\ K = {k \in ActivityKeys : activities[k].wf \in deleted}
                   /\ G = {k \in SignalKeys : signals[k].wf \in deleted}
  OBVIOUS
<1> PICK S : S = Rows("task", T, "update") \cup Rows("activity", K, "update")
                 \cup Rows("signal", G, "update")
  OBVIOUS
<1>1. order \in SetToSeqs(S)
  BY DEF Orders, Rows
<1>2. CascadeOrder(order, T, K, G)
  <2>1. T \in SUBSET TaskIDs /\ K \in SUBSET ActivityKeys /\ G \in SUBSET SignalKeys
    OBVIOUS
  <2> QED
    BY <1>1, <2>1, CascadeRows
<1>3. \A row : row \in Concerned(y) <=>
        row \in DOMAIN x.writes \/ \E i \in DOMAIN order : order[i].row = row
  BY DEF Concerned
<1>4. \A row : row \in DOMAIN x.writes => row \in Concerned(x)
  BY DEF Concerned
<1>5. \A row \in DOMAIN x.writes : row[1] = "workflow"
  BY <1>4 DEF CascadeStands
<1>6. ASSUME NEW w \in WorkflowIDs, <<"workflow", w>> \in Concerned(y)
      PROVE  workflows[w].status \in {"completed", "failed", "deleted"}
  <2> PICK row : row = <<"workflow", w>>
    OBVIOUS
  <2>1. row[1] = "workflow"
    BY PairFields
  <2>2. row \in DOMAIN x.writes
    BY <1>2, <1>3, <1>6, <2>1 DEF CascadeOrder
  <2> QED
    BY <1>4, <2>2 DEF CascadeStands
<1>7. \A i \in DOMAIN y.todo : y.todo[i].row[1] # "workflow"
  BY <1>2 DEF CascadeOrder
<1>8. ASSUME NEW t \in TaskIDs
      PROVE  <<"task", t>> \in Concerned(y) <=> tasks[t].wf \in deleted
  <2> PICK row : row = <<"task", t>>
    OBVIOUS
  <2>1. row[1] = "task" /\ row[2] = t
    BY PairFields
  <2>2. row \in Concerned(y) <=> \E i \in DOMAIN order : order[i].row = row
    BY <1>3, <1>5, <2>1
  <2>3. (\E i \in DOMAIN order : order[i].row = row) <=> t \in T
    BY <1>2 DEF CascadeOrder
  <2> QED
    BY <2>2, <2>3
<1>9. ASSUME NEW k \in ActivityKeys
      PROVE  <<"activity", k>> \in Concerned(y) <=> activities[k].wf \in deleted
  <2> PICK row : row = <<"activity", k>>
    OBVIOUS
  <2>1. row[1] = "activity" /\ row[2] = k
    BY PairFields
  <2>2. row \in Concerned(y) <=> \E i \in DOMAIN order : order[i].row = row
    BY <1>3, <1>5, <2>1
  <2>3. (\E i \in DOMAIN order : order[i].row = row) <=> k \in K
    BY <1>2 DEF CascadeOrder
  <2> QED
    BY <2>2, <2>3
<1>10. ASSUME NEW k \in SignalKeys
       PROVE  <<"signal", k>> \in Concerned(y) <=> signals[k].wf \in deleted
  <2> PICK row : row = <<"signal", k>>
    OBVIOUS
  <2>1. row[1] = "signal" /\ row[2] = k
    BY PairFields
  <2>2. row \in Concerned(y) <=> \E i \in DOMAIN order : order[i].row = row
    BY <1>3, <1>5, <2>1
  <2>3. (\E i \in DOMAIN order : order[i].row = row) <=> k \in G
    BY <1>2 DEF CascadeOrder
  <2> QED
    BY <2>2, <2>3
<1>11. deleted = {w \in WorkflowIDs : <<"workflow", w>> \in DOMAIN y.writes}
  OBVIOUS
<1> QED
  BY <1>6, <1>7, <1>8, <1>9, <1>10, <1>11 DEF CascadeStands

LEMMA StartStatementKeepsAtomic ==
  ASSUME AtomicInv, TransactionInv', NEW s \in Sessions, StartStatement(s)
  PROVE  AtomicInv'
<1> PICK x, c, st, rest :
      x = session[s] /\ c = x.call /\ st = Head(x.script) /\ rest = Tail(x.script)
  OBVIOUS
<1>1. /\ Running(s) /\ x.pc = "running" /\ x.todo = <<>> /\ x.script # <<>>
      /\ st # "insertWorkflowTask"
  BY DEF StartStatement, BetweenStatements, Running
<1>2. PICK order \in Orders(s, c, st) :
        session' = [session EXCEPT ![s] = [x EXCEPT !.todo = order, !.script = rest]]
  BY DEF StartStatement
<1> PICK y : y = [x EXCEPT !.todo = order, !.script = rest]
  OBVIOUS
<1>3. /\ IsSession(x) /\ IsCall(c) /\ Stands(x)
      /\ c.w = None => TakesBatch(x)
      /\ c.w # None => TakesInOrder(x)
  BY <1>1, ActiveSession DEF IsActive, IsSession
<1>4. y = [pc |-> x.pc, call |-> c, script |-> rest, todo |-> order,
           writes |-> x.writes, newTask |-> x.newTask, locks |-> x.locks]
  <2>1. x = [pc |-> x.pc, call |-> c, script |-> x.script, todo |-> x.todo,
             writes |-> x.writes, newTask |-> x.newTask, locks |-> x.locks]
    BY <1>3 DEF IsSession
  <2> QED
    BY <2>1
<1>5. /\ y.pc = "running" /\ y.call = c /\ y.script = rest /\ y.todo = order
      /\ y.writes = x.writes /\ y.newTask = x.newTask /\ y.locks = x.locks
  BY <1>1, <1>4
<1>6. WritesStand(y) /\ LocksStand(y)
  <2>1. y.call = x.call /\ y.writes = x.writes /\ y.locks = x.locks
    BY <1>5
  <2>2. WritesStand(x) /\ LocksStand(x)
    BY <1>3 DEF Stands
  <2> QED
    BY <2>1, <2>2, SameWork
<1>7. ASSUME c.w # None
      PROVE  HasRun(y)
  <2>1. x.script = Tail(Statements[c.name])
    BY <1>1, <1>3, <1>7 DEF TakesInOrder
  <2>2. /\ c.name \in TaskCalls \cup {"FailActivity"} /\ rest = <<>>
        /\ st \in {"clearWorkflowError", "incrementWorkflowAttempts", "failWorkflow"}
    BY <1>1, <1>3, <1>7, <2>1, CallNames, SecondStatements
  <2>3. order = <<RowOf(st, c)>>
    BY <2>2 DEF Orders
  <2>4. RowOf(st, c) = Second(c)
    BY <2>2 DEF RowOf, Second, TaskCalls
  <2> PICK want, second : want = First(c) /\ second = Second(c)
    OBVIOUS
  <2>5. want # second
    BY <1>3, <1>7, <2>2, FirstIsNotLater DEF TaskCalls
  <2>6. /\ x.todo # <<want>> /\ y.todo = <<second>>
        /\ y.todo # <<want>> /\ y.todo # <<>>
    BY <1>1, <1>5, <2>3, <2>4, <2>5
  <2>7. HasRun(x)
    BY <1>3, <1>7 DEF Stands
  <2> QED
    BY <1>5, <2>2, <2>6, <2>7 DEF HasRun, TaskCalls
<1>8. ASSUME c.name = "DeleteWorkflows"
      PROVE  CascadeStands(y)
  <2>1. x.script = <<"cascade">>
    BY <1>1, <1>3, <1>8, CallNames DEF TakesBatch
  <2>2. st = "cascade" /\ rest = <<>>
    BY <2>1
  <2>3. order \in Orders(s, c, "cascade")
    BY <2>2
  <2>4. CascadeStands(x)
    BY <1>3, <1>8 DEF Stands
  <2>5. y.todo = order /\ y.writes = x.writes /\ y.script = <<>>
    BY <1>5, <2>2
  <2> QED
    BY <1>1, <2>3, <2>4, <2>5, CascadeBegins
<1>9. Stands(y)
  BY <1>3, <1>5, <1>6, <1>7, <1>8 DEF Stands
<1>10. session' = [session EXCEPT ![s] = y] /\ UNCHANGED storageVars
  BY <1>2 DEF StartStatement
<1> QED
  BY <1>9, <1>10, OneSessionMoves

\* What the workflow of a row that was written and locked is.
LEMMA WorkflowIsThere ==
  ASSUME TablesFit, NEW x, IsSession(x), x.pc = "running", Stands(x), NEW c, c = x.call,
         IsCall(c), c.w # None, First(c).row \in DOMAIN x.writes, x.todo = <<>>,
         c.name \in {"InsertSignal", "CompleteActivity"}
  PROVE  Exists(c.w)
<1> PICK row : row = First(c).row
  OBVIOUS
<1>1. c.w \in WorkflowIDs
  BY CallNames
<1>2. CASE c.name = "InsertSignal"
  <2>1. Reference(c.w) \in x.locks
    BY <1>2 DEF Stands, HasRun
  <2> QED
    BY <1>1, <2>1 DEF Stands, LocksStand
<1>3. CASE c.name = "CompleteActivity"
  <2>1. row = <<"activity", c.id>> /\ c.id \in ActivityKeys
    BY <1>3, FirstRows, RequestFields DEF ActivityCalls, IsCall, TaskCalls, InsertCalls, ClaimCalls
  <2>2. Finds(c, row)
    BY <1>3 DEF Stands, WritesStand, InsertStands, UpdateStands, InsertCalls
  <2>3. row[1] = "activity" /\ row[2] = c.id
    BY <2>1, PairFields
  <2>4. OwnsActivity(c.w, c.id)
    BY <2>2, <2>3 DEF Finds
  <2> QED
    BY <2>1, <2>4 DEF OwnsActivity, TablesFit, ForeignKeys
<1> QED
  BY <1>2, <1>3

LEMMA StartInsertWorkflowTaskKeepsAtomic ==
  ASSUME AtomicInv, TransactionInv', NEW s \in Sessions, StartInsertWorkflowTask(s)
  PROVE  AtomicInv'
<1> PICK x, c, rest : x = session[s] /\ c = x.call /\ rest = Tail(x.script)
  OBVIOUS
<1> PICK todo, newTask :
      /\ todo = IF Exists(c.w) THEN <<Reference(c.w)>> ELSE <<>>
      /\ newTask = IF <<"workflow", c.w>> \in DOMAIN x.writes \/ Exists(c.w) THEN c.w ELSE None
  OBVIOUS
<1>1. /\ Running(s) /\ x.pc = "running" /\ x.todo = <<>> /\ x.script # <<>>
      /\ Head(x.script) = "insertWorkflowTask"
  BY DEF StartInsertWorkflowTask, BetweenStatements, Running
<1> PICK y : y = [x EXCEPT !.script = rest, !.newTask = newTask, !.todo = todo]
  OBVIOUS
<1>2. session' = [session EXCEPT ![s] = y] /\ UNCHANGED storageVars
  BY DEF StartInsertWorkflowTask
<1>3. /\ IsSession(x) /\ IsCall(c) /\ Stands(x)
      /\ c.w = None => TakesBatch(x)
      /\ c.w # None => TakesInOrder(x)
  BY <1>1, ActiveSession DEF IsActive, IsSession
<1>4. y = [pc |-> x.pc, call |-> c, script |-> rest, todo |-> todo,
           writes |-> x.writes, newTask |-> newTask, locks |-> x.locks]
  <2>1. x = [pc |-> x.pc, call |-> c, script |-> x.script, todo |-> x.todo,
             writes |-> x.writes, newTask |-> x.newTask, locks |-> x.locks]
    BY <1>3 DEF IsSession
  <2> QED
    BY <2>1
<1>5. /\ y.pc = "running" /\ y.call = c /\ y.script = rest /\ y.todo = todo
      /\ y.writes = x.writes /\ y.newTask = newTask /\ y.locks = x.locks
  BY <1>1, <1>4
<1>6. WritesStand(y) /\ LocksStand(y)
  <2>1. y.call = x.call /\ y.writes = x.writes /\ y.locks = x.locks
    BY <1>5
  <2>2. WritesStand(x) /\ LocksStand(x)
    BY <1>3 DEF Stands
  <2> QED
    BY <2>1, <2>2, SameWork
<1>7. c.w # None /\ c.w \in WorkflowIDs
  BY <1>1, <1>3, CallNames DEF TakesBatch
<1>8. x.script = Tail(Statements[c.name])
  BY <1>1, <1>3, <1>7 DEF TakesInOrder
<1>9. c.name \in {"InsertWorkflow", "InsertSignal", "CompleteActivity"} /\ rest = <<>>
  BY <1>1, <1>3, <1>7, <1>8, CallNames, SecondStatements
<1>10. HasRun(x)
  BY <1>3, <1>7 DEF Stands
<1> PICK want, ref : want = First(c) /\ ref = Reference(c.w)
  OBVIOUS
<1>11. want # ref
  BY <1>3, <1>7, FirstIsNotLater
<1>12. y.todo # <<want>> /\ x.todo # <<want>>
  BY <1>1, <1>5, <1>11
<1>13. ASSUME c.name = "InsertWorkflow"
       PROVE  HasRun(y)
  <2>1. ~Exists(c.w)
    BY <1>1, <1>13 DEF AtomicInv, TransactionInv, InsertedIsOwn, Exists
  <2>2. DOMAIN x.writes \subseteq {<<"workflow", c.w>>}
    BY <1>3, <1>7, <1>10, <1>13, WritableRows, InsertedRows DEF HasRun, InsertCalls
  <2>3. newTask = IF DOMAIN x.writes # {} THEN c.w ELSE None
    BY <2>1, <2>2
  <2> QED
    BY <1>5, <1>9, <1>10, <1>12, <1>13, <2>3 DEF HasRun, TaskCalls
<1>14. ASSUME c.name \in {"InsertSignal", "CompleteActivity"}
       PROVE  HasRun(y)
  <2>1. First(c).row \in DOMAIN x.writes
    BY <1>10, <1>12, <1>14 DEF HasRun
  <2>2. Exists(c.w)
    BY <1>1, <1>3, <1>7, <1>14, <2>1, WorkflowIsThere DEF AtomicInv
  <2>3. newTask = c.w /\ y.todo = <<ref>> /\ y.todo # <<>>
    BY <1>5, <2>2
  <2> QED
    BY <1>5, <1>9, <1>10, <1>12, <1>14, <2>1, <2>3 DEF HasRun, TaskCalls
<1>15. Stands(y)
  BY <1>5, <1>6, <1>7, <1>9, <1>13, <1>14 DEF Stands
<1> QED
  BY <1>2, <1>15, OneSessionMoves

-----------------------------------------------------------------------------
(* A statement takes its next row *)

LEMMA TakenWrites ==
  ASSUME NEW x, IsSession(x), NEW y, NEW locks, NEW writes, NEW more,
         Taken(x, y, locks, writes, more)
  PROVE  /\ y.pc = x.pc /\ y.newTask = x.newTask
         /\ DOMAIN y.writes = DOMAIN x.writes \cup DOMAIN writes
         /\ \A row \in DOMAIN y.writes :
              /\ row \in DOMAIN writes => y.writes[row] = writes[row]
              /\ row \notin DOMAIN writes => y.writes[row] = x.writes[row]
<1> PICK todo, held, w : /\ todo = more \o Tail(x.todo)
                         /\ held = x.locks \cup locks
                         /\ w = Overwrite(x.writes, writes)
  OBVIOUS
<1>1. y = [pc |-> x.pc, call |-> x.call, script |-> x.script, todo |-> todo,
           writes |-> w, newTask |-> x.newTask, locks |-> held]
  BY DEF IsSession, Taken
<1>2. y.pc = x.pc /\ y.newTask = x.newTask /\ y.writes = w
  BY <1>1
<1>3. /\ DOMAIN w = DOMAIN x.writes \cup DOMAIN writes
      /\ \A row \in DOMAIN w : w[row] = IF row \in DOMAIN writes THEN writes[row]
                                        ELSE x.writes[row]
  BY DEF Overwrite
<1> QED
  BY <1>2, <1>3

\* What is left of the invariant when a session takes a row.
LEMMA TakesKeepsAtomic ==
  ASSUME AtomicInv, TransactionInv', NEW s \in Sessions, Running(s),
         NEW locks, NEW writes, NEW more, Takes(s, locks, writes, more),
         NEW x, x = session[s], NEW y, Taken(x, y, locks, writes, more),
         \A row \in DOMAIN writes : InsertStands(y, row) \/ UpdateStands(y, row),
         \A w \in WorkflowIDs : Reference(w) \in locks => Exists(w),
         \A key \in RequestKeys : Request("request", key, "update") \in locks =>
           \A w \in WorkflowIDs : Exists(w) => workflows[w].key # key,
         x.call.w # None => HasRun(y),
         x.call.name = "DeleteWorkflows" => CascadeStands(y)
  PROVE  AtomicInv'
<1>1. IsSession(x) /\ x.pc = "running" /\ Stands(x)
  BY ActiveSession DEF IsActive
<1>2. y.call = x.call /\ y.locks = x.locks \cup locks
  BY <1>1, TakenFields
<1>3. /\ y.newTask = x.newTask
      /\ DOMAIN y.writes = DOMAIN x.writes \cup DOMAIN writes
      /\ \A row \in DOMAIN y.writes :
           row \notin DOMAIN writes => y.writes[row] = x.writes[row]
  BY <1>1, TakenWrites
<1>4. WritesStand(y)
  <2> SUFFICES ASSUME NEW row \in DOMAIN y.writes
               PROVE  InsertStands(y, row) \/ UpdateStands(y, row)
    BY DEF WritesStand
  <2>1. CASE row \in DOMAIN writes
    BY <2>1
  <2>2. CASE row \notin DOMAIN writes
    <3>1. y.writes[row] = x.writes[row] /\ x.locks \subseteq y.locks
      BY <1>2, <1>3, <2>2
    <3>2. InsertStands(x, row) \/ UpdateStands(x, row)
      BY <1>1, <1>3, <2>2 DEF Stands, WritesStand
    <3> QED
      BY <1>2, <3>1, <3>2, WorkGoesOn
  <2> QED
    BY <2>1, <2>2
<1>5. LocksStand(y)
  BY <1>1, <1>2 DEF Stands, LocksStand
<1>6. Stands(y)
  BY <1>1, <1>2, <1>3, <1>4, <1>5 DEF Stands
<1>7. session' = [session EXCEPT ![s] = y] /\ UNCHANGED storageVars
  BY DEF Takes, Taken
<1> QED
  BY <1>6, <1>7, OneSessionMoves

LEMMA RequestsDiffer ==
  ASSUME NEW table, NEW id, NEW mode, NEW other, NEW key, NEW want,
         Request(table, id, mode) = Request(other, key, want)
  PROVE  table = other /\ id = key /\ mode = want
<1> PICK lock, row : lock = Request(table, id, mode) /\ row = lock.row
  OBVIOUS
<1>1. row[1] = table /\ row[2] = id /\ lock.mode = mode
  BY RequestFields
<1>2. row[1] = other /\ row[2] = key /\ lock.mode = want
  BY RequestFields
<1> QED
  BY <1>1, <1>2

\* The check of a foreign key finds the workflow.
LEMMA TakeReferenceKeepsAtomic ==
  ASSUME AtomicInv, TransactionInv', NEW s \in Sessions, Running(s), session[s].todo # <<>>,
         NEW want, want = Head(session[s].todo), TakeReference(s, want)
  PROVE  AtomicInv'
<1> PICK x, c : x = session[s] /\ c = x.call
  OBVIOUS
<1>1. IsSession(x) /\ x.pc = "running" /\ Stands(x) /\ IsCall(c)
  BY ActiveSession DEF IsActive
<1>2. c.w # None
  BY OnOneRow DEF AtomicInv, TakeReference
<1>3. TakesInOrder(x) /\ HasRun(x) /\ c.w \in WorkflowIDs
  BY <1>1, <1>2, CallNames DEF IsSession, Stands
<1>4. want = Reference(c.w)
  BY <1>1, <1>2, <1>3, OneMode DEF TakeReference
<1>5. CASE ~RowExists(want.row)
  BY <1>5, RollsBackKeepsAtomic DEF TakeReference
<1>6. CASE RowExists(want.row)
  <2> PICK locks : locks = {want}
    OBVIOUS
  <2>1. PICK writes : Takes(s, locks, writes, <<>>) /\ DOMAIN writes = {}
    <3> PICK none : none = <<>>
      OBVIOUS
    <3>1. Takes(s, locks, none, <<>>) /\ DOMAIN none = {}
      BY <1>6 DEF TakeReference
    <3> QED
      BY <3>1
  <2> PICK y : Taken(x, y, locks, writes, <<>>)
    BY DEF Taken
  <2>2. y.call = c /\ y.script = x.script /\ y.locks = x.locks \cup {want} /\ y.todo = <<>>
    BY <1>1, <1>3, TakenFields, OnlyRow
  <2>3. y.newTask = x.newTask /\ DOMAIN y.writes = DOMAIN x.writes
    <3>1. /\ y.newTask = x.newTask
          /\ DOMAIN y.writes = DOMAIN x.writes \cup DOMAIN writes
      BY <1>1, TakenWrites
    <3> QED
      BY <2>1, <3>1
  <2>4. Exists(c.w)
    <3>1. want.row[1] = "workflow" /\ want.row[2] = c.w
      BY <1>4, RequestFields DEF Reference
    <3> QED
      BY <1>6, <3>1 DEF RowExists
  <2>5. \A w \in WorkflowIDs : Reference(w) \in locks => Exists(w)
    <3> SUFFICES ASSUME NEW w \in WorkflowIDs, Reference(w) = Reference(c.w)
                 PROVE  Exists(w)
      BY <1>4
    <3>1. w = c.w
      BY RequestsDiffer DEF Reference
    <3> QED
      BY <2>4, <3>1
  <2>6. \A key : Request("request", key, "update") \notin locks
    <3> SUFFICES ASSUME NEW key, Request("request", key, "update") = Reference(c.w)
                 PROVE  FALSE
      BY <1>4
    <3> QED
      BY RequestsDiffer DEF Reference
  <2>7. HasRun(y)
    <3> PICK first, second : first = First(c) /\ second = Second(c)
      OBVIOUS
    <3>1. want # first
      BY <1>1, <1>2, <1>4, FirstIsNotLater
    <3>2. x.todo # <<first>> /\ y.todo # <<first>>
      BY <2>2, <3>1
    <3>3. c.name \in {"InsertSignal", "InsertActivity", "CompleteActivity"}
      <4>1. c.name \in TaskCalls \cup {"FailActivity"} => want # second
        BY <1>1, <1>2, <1>4, FirstIsNotLater, RequestsDiffer DEF Reference
      <4> QED
        BY <1>3, <3>1, <4>1, OnlyRow
    <3> QED
      BY <1>3, <1>4, <2>2, <2>3, <3>2, <3>3 DEF HasRun, TaskCalls
  <2>8. c.name # "DeleteWorkflows"
    BY <1>1, <1>2, CallNames
  <2> QED
    BY <2>1, <2>5, <2>6, <2>7, <2>8, TakesKeepsAtomic
<1> QED
  BY <1>5, <1>6

\* The lock for a request: no workflow has its key, or one is locked.
LEMMA RequestNeeds ==
  ASSUME NEW s \in Sessions, NEW key, Head(session[s].todo) = Request("request", key, "insert")
  PROVE  \/ /\ Need(s) = Request("request", key, "update")
            /\ \A w \in WorkflowIDs : Exists(w) => workflows[w].key # key
         \/ \E w \in WorkflowIDs : Need(s) = Request("workflow", w, "update")
<1> DEFINE want == Head(session[s].todo)
           holders == {w \in WorkflowIDs : Exists(w) /\ workflows[w].key = want.row[2]}
<1>1. /\ want = [row |-> <<"request", key>>, mode |-> "insert"]
      /\ want.row = <<"request", key>> /\ want.row[1] = "request" /\ want.row[2] = key
      /\ want.mode = "insert"
  BY DEF Request
<1>2. Need(s) = IF want.row[1] = "request" /\ holders # {}
                THEN Request("workflow", CHOOSE w \in holders : TRUE, "update")
                ELSE IF want.mode = "insert"
                THEN [want EXCEPT !.mode = IF RowExists(want.row) THEN "key_share" ELSE "update"]
                ELSE want
  BY DEF Need
<1> HIDE DEF want
<1>3. CASE holders # {}
  <2>1. (CHOOSE w \in holders : TRUE) \in WorkflowIDs
    BY <1>3
  <2> HIDE DEF holders
  <2> QED
    BY <1>1, <1>2, <1>3, <2>1
<1>4. CASE holders = {}
  <2>1. ~RowExists(want.row)
    BY <1>1 DEF RowExists
  <2> PICK need : need = [want EXCEPT !.mode = "update"]
    OBVIOUS
  <2>2. Need(s) = need
    <3> HIDE DEF holders
    <3> QED
      BY <1>1, <1>2, <1>4, <2>1
  <2>3. need = [row |-> <<"request", key>>, mode |-> "update"]
    BY <1>1
  <2>4. \A w \in WorkflowIDs : Exists(w) => workflows[w].key # key
    BY <1>1, <1>4
  <2> QED
    BY <2>2, <2>3, <2>4 DEF Request
<1> QED
  BY <1>3, <1>4

LEMMA OnlyTodo ==
  ASSUME NEW x, TakesInOrder(x), x.todo # <<>>, NEW want, want = Head(x.todo)
  PROVE  x.todo = <<want>>
BY DEF TakesInOrder

\* A session that takes the first row of its call has written nothing.
LEMMA NothingYet ==
  ASSUME NEW x, TakesInOrder(x), x.todo # <<>>, HasRun(x), NEW c, c = x.call,
         Head(x.todo) = First(c)
  PROVE  DOMAIN x.writes = {}
<1> PICK want : want = First(c)
  OBVIOUS
<1>1. x.todo = <<want>>
  BY OnlyTodo
<1> QED
  BY <1>1 DEF HasRun

LEMMA TakeRequestKeepsAtomic ==
  ASSUME AtomicInv, TransactionInv', NEW s \in Sessions, Running(s), session[s].todo # <<>>,
         NEW want, want = Head(session[s].todo), TakeRequest(s, want)
  PROVE  AtomicInv'
<1> PICK x, c, lock : x = session[s] /\ c = x.call /\ lock = Need(s)
  OBVIOUS
<1>1. IsSession(x) /\ x.pc = "running" /\ Stands(x) /\ IsCall(c)
  BY ActiveSession DEF IsActive
<1>2. c.w # None
  BY OnOneRow DEF AtomicInv, TakeRequest
<1>3. TakesInOrder(x) /\ HasRun(x) /\ c.w \in WorkflowIDs
  BY <1>1, <1>2, CallNames DEF IsSession, Stands
<1>4. c.name = "InsertWorkflow" /\ want = Request("request", c.id, "insert") /\ want = First(c)
  BY <1>1, <1>2, <1>3, OneMode, FirstRows DEF TakeRequest
<1>5. want.row = <<"request", c.id>> /\ want.row[2] = c.id
  BY <1>4, RequestFields
<1>6. DOMAIN x.writes = {}
  BY <1>3, <1>4, NothingYet
<1>7. x.script # <<>>
  <2>1. x.script = Tail(Statements[c.name])
    BY <1>3, <1>4, OnlyRow DEF TaskCalls
  <2> QED
    BY <1>4, <2>1, LaterStatements
<1>8. \A w : Reference(w) # lock
  <2>1. lock.mode = "update"
    BY <1>4, RequestNeeds, RequestFields
  <2> QED
    BY <2>1, RequestFields DEF Reference
<1>9. \A key \in RequestKeys : Request("request", key, "update") = lock =>
        \A w \in WorkflowIDs : Exists(w) => workflows[w].key # key
  <2> SUFFICES ASSUME NEW key, Request("request", key, "update") = lock,
                      NEW w \in WorkflowIDs, Exists(w)
               PROVE  workflows[w].key # key
    OBVIOUS
  <2>1. lock.row[1] = "request" /\ lock.row[2] = key
    BY RequestFields
  <2>2. \A u : lock # Request("workflow", u, "update")
    BY <2>1, RequestFields
  <2>3. /\ lock = Request("request", c.id, "update")
        /\ \A u \in WorkflowIDs : Exists(u) => workflows[u].key # c.id
    BY <1>4, <2>2, RequestNeeds
  <2>4. key = c.id
    BY <2>1, <2>3, RequestFields
  <2> QED
    BY <2>3, <2>4
<1> PICK locks, first : locks = {lock} /\ first = First(c)
  OBVIOUS
<1>10. ASSUME NEW writes, Takes(s, locks, writes, <<>>), NEW y, Taken(x, y, locks, writes, <<>>),
              DOMAIN writes \subseteq {<<"workflow", c.w>>}
       PROVE  HasRun(y)
  <2>1. y.call = c /\ y.script = x.script /\ y.todo = <<>>
    BY <1>1, <1>3, <1>10, TakenFields, OnlyRow
  <2>2. y.newTask = x.newTask /\ DOMAIN y.writes = DOMAIN x.writes \cup DOMAIN writes
    BY <1>1, <1>10, TakenWrites
  <2>3. DOMAIN y.writes \subseteq Writable(c)
    BY <1>1, <1>2, <1>4, <1>6, <1>10, <2>2, WritableRows, InsertedRows DEF InsertCalls
  <2>4. y.todo # <<first>>
    BY <2>1
  <2>5. x.newTask = None
    BY <1>3, <1>7 DEF HasRun
  <2> QED
    BY <1>4, <1>7, <2>1, <2>2, <2>3, <2>4, <2>5 DEF HasRun, TaskCalls
<1> PICK new : new = [status |-> "running", key |-> c.id, attempts |-> 1, error |-> FALSE]
  OBVIOUS
<1>11. CASE lock.row = want.row /\ Takes(s, locks, WriteOf(<<"workflow", c.w>>, new), <<>>)
  <2> PICK row : row = <<"workflow", c.w>>
    OBVIOUS
  <2>1. PICK writes : Takes(s, locks, writes, <<>>) /\ DOMAIN writes = {row} /\ writes[row] = new
    <3> PICK one : one = WriteOf(row, new)
      OBVIOUS
    <3>1. Takes(s, locks, one, <<>>)
      BY <1>11
    <3>2. DOMAIN one = {row} /\ one[row] = new
      BY OneWrite
    <3> QED
      BY <3>1, <3>2
  <2> PICK y : Taken(x, y, locks, writes, <<>>)
    BY DEF Taken
  <2>2. HasRun(y)
    BY <1>10, <2>1
  <2>3. y.call = c /\ y.locks = x.locks \cup locks
    BY <1>1, TakenFields
  <2>4. /\ DOMAIN y.writes = DOMAIN x.writes \cup DOMAIN writes
        /\ \A r \in DOMAIN y.writes : r \in DOMAIN writes => y.writes[r] = writes[r]
    BY <1>1, TakenWrites
  <2>5. y.writes[row] = new
    BY <2>1, <2>4
  <2>6. lock = Request("request", c.id, "update")
    <3>1. lock.row[1] = "request"
      BY <1>5, <1>11, PairFields
    <3>2. \A u : lock # Request("workflow", u, "update")
      BY <3>1, RequestFields
    <3> QED
      BY <1>4, <3>2, RequestNeeds
  <2>7. row = InsertedRow(c) /\ new = Inserted(c)
    BY <1>4, InsertedRows DEF Inserted
  <2>8. InsertStands(y, row)
    BY <1>4, <2>3, <2>5, <2>6, <2>7 DEF InsertStands, InsertCalls
  <2>9. c.name # "DeleteWorkflows" /\ \A r \in DOMAIN writes : r = row
    BY <1>4, <2>1
  <2> QED
    BY <1>8, <1>9, <2>1, <2>2, <2>8, <2>9, TakesKeepsAtomic
<1>12. CASE Takes(s, locks, <<>>, <<>>)
  <2>1. PICK writes : Takes(s, locks, writes, <<>>) /\ DOMAIN writes = {}
    <3> PICK none : none = <<>>
      OBVIOUS
    <3>1. Takes(s, locks, none, <<>>) /\ DOMAIN none = {}
      BY <1>12
    <3> QED
      BY <3>1
  <2> PICK y : Taken(x, y, locks, writes, <<>>)
    BY DEF Taken
  <2>2. HasRun(y)
    BY <1>10, <2>1
  <2>3. c.name # "DeleteWorkflows"
    BY <1>4
  <2> QED
    BY <1>8, <1>9, <2>1, <2>2, <2>3, TakesKeepsAtomic
<1> QED
  BY <1>5, <1>11, <1>12 DEF TakeRequest

LEMMA HasSecond ==
  /\ Tail(Statements["InsertWorkflow"]) # <<>>
  /\ Tail(Statements["InsertSignal"]) # <<>>
  /\ Tail(Statements["CompleteActivity"]) # <<>>
  /\ \A name \in TaskCalls \cup {"FailActivity"} : Tail(Statements[name]) # <<>>
<1>1. \A a : <<a>> # <<>>
  OBVIOUS
<1>2. /\ Tail(Statements["InsertWorkflow"]) # <<>>
      /\ Tail(Statements["InsertSignal"]) # <<>>
  BY <1>1, LaterStatements
<1>3. /\ Tail(Statements["CompleteActivity"]) # <<>>
      /\ Tail(Statements["FailActivity"]) # <<>>
  BY <1>1, LaterStatements
<1>4. /\ Tail(Statements["CompleteWorkflowTask"]) # <<>>
      /\ Tail(Statements["ReScheduleWorkflowTask"]) # <<>>
      /\ Tail(Statements["FailWorkflowTask"]) # <<>>
  BY <1>1, LaterStatements
<1> QED
  BY <1>2, <1>3, <1>4 DEF TaskCalls

\* A call on one row that takes a row to insert takes its first.
LEMMA InsertIsFirst ==
  ASSUME NEW x, TakesInOrder(x), x.todo # <<>>, NEW c, c = x.call, IsCall(c), c.w # None,
         NEW want, want = Head(x.todo), want.mode = "insert"
  PROVE  want = First(c)
<1>1. want # Reference(c.w)
  BY RequestFields DEF Reference
<1>2. want # Second(c)
  BY RequestFields DEF Reference, Second
<1> QED
  BY <1>1, <1>2, OnlyRow

LEMMA TakeInsertKeepsAtomic ==
  ASSUME AtomicInv, TransactionInv', NEW s \in Sessions, Running(s), session[s].todo # <<>>,
         NEW want, want = Head(session[s].todo), TakeInsert(s, want)
  PROVE  AtomicInv'
<1> PICK x, c, row, ref :
      x = session[s] /\ c = x.call /\ row = want.row /\ ref = Reference(c.w)
  OBVIOUS
<1>1. IsSession(x) /\ x.pc = "running" /\ Stands(x) /\ IsCall(c)
  BY ActiveSession DEF IsActive
<1>2. want.mode = "insert" /\ row[1] # "request"
  BY DEF TakeInsert
<1>3. c.w # None
  BY <1>2, OnOneRow DEF AtomicInv
<1>4. TakesInOrder(x) /\ HasRun(x) /\ c.w \in WorkflowIDs
  BY <1>1, <1>3, CallNames DEF IsSession, Stands
<1>5. x.script = Tail(Statements[c.name]) /\ c.name \in {"InsertSignal", "InsertActivity"}
  BY <1>1, <1>2, <1>3, <1>4, OneInsert
<1>6. want = First(c)
  BY <1>1, <1>2, <1>3, <1>4, InsertIsFirst
<1>7. PICK table, id : table \in {"signal", "activity"} /\ want = Request(table, id, "insert")
                       /\ InsertedRow(c) = <<table, id>>
  BY <1>5, <1>6, InsertedRows
<1>8. row = InsertedRow(c) /\ row = <<table, id>>
  BY <1>7, RequestFields
<1>9. DOMAIN x.writes = {}
  BY <1>4, <1>6, NothingYet
<1>10. x.newTask = None
  <2>1. ASSUME c.name = "InsertSignal"
        PROVE  x.script # <<>>
    <3>1. x.script = Tail(Statements["InsertSignal"])
      BY <1>5, <2>1
    <3>2. Tail(Statements["InsertSignal"]) # <<>>
      BY HasSecond
    <3> QED
      BY <3>1, <3>2
  <2> QED
    BY <1>4, <1>5, <2>1 DEF HasRun
<1>11. CASE RollsBack(s)
  BY <1>11, RollsBackKeepsAtomic
<1>12. CASE Takes(s, {}, <<>>, <<>>) /\ c.name # "InsertSignal"
  <2> PICK locks, first : locks = {} /\ first = First(c)
    OBVIOUS
  <2>1. PICK writes : Takes(s, locks, writes, <<>>) /\ DOMAIN writes = {}
    <3> PICK none : none = <<>>
      OBVIOUS
    <3>1. Takes(s, locks, none, <<>>) /\ DOMAIN none = {}
      BY <1>12
    <3> QED
      BY <3>1
  <2> PICK y : Taken(x, y, locks, writes, <<>>)
    BY DEF Taken
  <2>2. y.call = c /\ y.script = x.script /\ y.todo = <<>>
    BY <1>1, <1>4, TakenFields, OnlyRow
  <2>3. y.newTask = x.newTask /\ DOMAIN y.writes = DOMAIN x.writes \cup DOMAIN writes
    BY <1>1, TakenWrites
  <2>4. DOMAIN y.writes = {} /\ y.newTask = None
    BY <1>9, <1>10, <2>1, <2>3
  <2>5. y.todo # <<first>> /\ c.name = "InsertActivity"
    BY <1>5, <1>12, <2>2
  <2>6. HasRun(y)
    BY <2>2, <2>4, <2>5 DEF HasRun, TaskCalls
  <2> QED
    BY <1>5, <2>1, <2>6, TakesKeepsAtomic
<1> PICK value : value = IF c.name = "InsertSignal" THEN [wf |-> c.w, input |-> c.value]
                 ELSE [NoActivityRow EXCEPT !.status = "pending", !.wf = c.w, !.call = c.id]
  OBVIOUS
<1>13. CASE ~RowExists(row) /\ Takes(s, {Need(s)}, WriteOf(row, value), <<ref>>)
  <2> PICK locks, first : locks = {Need(s)} /\ first = First(c)
    OBVIOUS
  <2>1. PICK writes, more :
          /\ Takes(s, locks, writes, more) /\ more \o Tail(x.todo) = <<ref>>
          /\ DOMAIN writes = {row} /\ writes[row] = value
    <3> PICK one, refs : one = WriteOf(row, value) /\ refs = <<ref>>
      OBVIOUS
    <3>1. Takes(s, locks, one, refs)
      BY <1>13
    <3>2. refs \o Tail(x.todo) = <<ref>>
      BY <1>4, OnlyRow, AfterTheOnlyRow
    <3>3. DOMAIN one = {row} /\ one[row] = value
      BY DEF WriteOf
    <3> QED
      BY <3>1, <3>2, <3>3
  <2> PICK y : Taken(x, y, locks, writes, more)
    BY DEF Taken
  <2>3. /\ y.call = c /\ y.script = x.script /\ y.locks = x.locks \cup locks
        /\ y.todo = more \o Tail(x.todo)
    BY <1>1, TakenFields
  <2>4. y.newTask = x.newTask /\ DOMAIN y.writes = DOMAIN x.writes \cup DOMAIN writes
    BY <1>1, TakenWrites
  <2>5. \A r \in DOMAIN y.writes : r \in DOMAIN writes => y.writes[r] = writes[r]
    BY <1>1, TakenWrites
  <2>6. DOMAIN y.writes = {row} /\ y.writes[row] = value /\ y.newTask = None
    BY <1>9, <1>10, <2>1, <2>4, <2>5
  <2>7. Need(s) = Request(table, id, "update")
    BY <1>7, <1>8, <1>13, Needs
  <2>8. InsertStands(y, row)
    <3>1. value = Inserted(c)
      BY <1>5 DEF Inserted
    <3>2. WriteLock(c, row) = Need(s)
      BY <1>5, <1>8, <2>7, WriteLockIs
    <3> QED
      BY <1>5, <1>8, <1>13, <2>3, <2>6, <3>1, <3>2 DEF InsertStands, InsertCalls
  <2>9. first # ref
    BY <1>1, <1>3, FirstIsNotLater
  <2>10. y.todo # <<first>> /\ y.todo # <<>>
    BY <2>1, <2>3, <2>9
  <2>11. HasRun(y)
    <3>1. DOMAIN y.writes \subseteq Writable(c)
      BY <1>1, <1>3, <1>5, <1>8, <2>6, WritableRows DEF InsertCalls
    <3>2. First(c).row \in DOMAIN y.writes
      BY <1>6, <2>6
    <3>3. c.name = "InsertSignal" => y.script # <<>>
      BY <1>5, <2>3, HasSecond
    <3> QED
      BY <1>5, <2>3, <2>6, <2>10, <3>1, <3>2, <3>3 DEF HasRun, TaskCalls
  <2>12. \A w : Reference(w) \notin locks
    BY <2>7, RequestFields DEF Reference
  <2>13. \A key : Request("request", key, "update") \notin locks
    BY <1>7, <2>7, RequestFields
  <2> QED
    BY <1>5, <2>1, <2>8, <2>11, <2>12, <2>13, TakesKeepsAtomic
<1> QED
  BY <1>11, <1>12, <1>13 DEF TakeInsert

\* A row that an UPDATE or a DELETE finds is one that it may write.
LEMMA TakenRowStands ==
  ASSUME NEW y, NEW c, c = y.call, IsCall(c), NEW table, NEW id, NEW mode,
         NEW row, row = <<table, id>>, NEW want, want = Request(table, id, mode),
         Writes(c, table, id, mode), mode = "update" <=> c.name = "DeleteWorkflows",
         c.name \notin InsertCalls,
         want \in y.locks, Finds(c, row), y.writes[row] = NewRow(row, mode, c)
  PROVE  UpdateStands(y, row)
<1>1. mode \in {"update", "no_key_update"}
  BY DEF Writes
<1>2. WriteLock(c, row) = want /\ WriteLock(c, row).mode = mode
  BY <1>1, WriteLockIs DEF InsertCalls
<1> QED
  BY <1>2 DEF UpdateStands

\* The rows that the UPDATE or the DELETE of each call takes.
LEMMA RowToWrite ==
  ASSUME TransactionInv, NEW s \in Sessions, Running(s), session[s].todo # <<>>,
         NEW c, c = session[s].call,
         NEW want, want = Head(session[s].todo), want.mode \in {"no_key_update", "update"}
  PROVE  /\ c.name \notin InsertCalls
         /\ \E table, id, mode :
              /\ want = Request(table, id, mode) /\ Writes(c, table, id, mode)
              /\ mode = "update" <=> c.name = "DeleteWorkflows"
         /\ c.w # None =>
              \/ want = First(c)
              \/ want = Second(c) /\ session[s].script = <<>>
                 /\ c.name \in TaskCalls \cup {"FailActivity"}
<1> PICK x : x = session[s]
  OBVIOUS
<1>1. /\ IsCall(c)
      /\ c.w = None => TakesBatch(x)
      /\ c.w # None => TakesInOrder(x)
  BY RunningSession
<1>2. PICK table, id, mode : want = Request(table, id, mode) /\ Writes(c, table, id, mode)
  BY WrittenRow
<1>3. want.mode = mode /\ mode \in {"no_key_update", "update"}
  BY <1>2, RequestFields
<1>4. ASSUME c.w = None
      PROVE  c.name \notin InsertCalls /\ (mode = "update" <=> c.name = "DeleteWorkflows")
  <2>1. c.name \in {"ClaimTasks", "ClaimActivities", "DeleteWorkflows"}
    BY <1>1, <1>4, CallNames
  <2>2. want \in BatchRows(c.name)
    BY <1>1, <1>4, HeadAndTail DEF TakesBatch
  <2>3. CASE c.name = "ClaimTasks"
    BY <1>3, <2>2, <2>3, BatchRow, RequestFields DEF InsertCalls
  <2>4. CASE c.name = "ClaimActivities"
    BY <1>3, <2>2, <2>4, BatchRow, RequestFields DEF InsertCalls
  <2>5. CASE c.name = "DeleteWorkflows"
    BY <1>3, <2>2, <2>5, BatchRow, RequestFields DEF InsertCalls
  <2> QED
    BY <2>1, <2>3, <2>4, <2>5
<1>5. ASSUME c.w # None
      PROVE  /\ c.name \notin InsertCalls /\ (mode = "update" <=> c.name = "DeleteWorkflows")
             /\ \/ want = First(c)
                \/ want = Second(c) /\ session[s].script = <<>>
                   /\ c.name \in TaskCalls \cup {"FailActivity"}
  <2>1. /\ want # Request("request", c.id, "insert") /\ want # Reference(c.w)
        /\ \A k : want # Request("signal", k, "insert")
        /\ \A k : want # Request("activity", k, "insert")
    BY RequestFields DEF Reference
  <2>2. /\ c.name \in TaskCalls \cup ActivityCalls \cup {"CompleteWorkflow"}
        /\ mode = "no_key_update"
    <3>1. \/ c.name \in TaskCalls /\ want = Request("task", c.id, "no_key_update")
          \/ c.name \in ActivityCalls /\ want = Request("activity", c.id, "no_key_update")
          \/ /\ c.name \in TaskCalls \cup {"CompleteWorkflow", "FailActivity"}
             /\ want = Request("workflow", c.w, "no_key_update")
      BY <1>1, <1>5, <2>1, OneRow
    <3> QED
      BY <1>3, <3>1, RequestFields DEF ActivityCalls
  <2>3. c.name \notin InsertCalls /\ c.name # "DeleteWorkflows"
    BY <2>2 DEF InsertCalls, TaskCalls, ActivityCalls
  <2>4. c.name \in {"InsertSignal", "CompleteActivity"} => Second(c) = Reference(c.w)
    BY DEF Second
  <2>5. \/ want = First(c)
        \/ want = Second(c) /\ x.script = <<>> /\ c.name \in TaskCalls \cup {"FailActivity"}
    BY <1>1, <1>5, <2>1, <2>4, OnlyRow
  <2> QED
    BY <2>2, <2>3, <2>5
<1> QED
  BY <1>2, <1>4, <1>5

\* The second of two rows, or the only one, was taken.
LEMMA RowHasRun ==
  ASSUME NEW x, TakesInOrder(x), x.todo # <<>>, HasRun(x), NEW c, c = x.call, IsCall(c), c.w # None,
         c.name \notin InsertCalls, NEW want, want = Head(x.todo),
         \/ want = First(c)
         \/ want = Second(c) /\ x.script = <<>> /\ c.name \in TaskCalls \cup {"FailActivity"},
         NEW y, y.call = c, y.script = x.script, y.todo = <<>>, y.newTask = x.newTask,
         y.locks = x.locks \cup {want}, DOMAIN y.writes = DOMAIN x.writes \cup {want.row}
  PROVE  HasRun(y)
<1> PICK first, second : first = First(c) /\ second = Second(c)
  OBVIOUS
<1>1. y.todo # <<first>> /\ c.name \notin {"InsertWorkflow", "InsertSignal", "InsertActivity"}
  BY DEF InsertCalls
<1>2. First(c).row \in Writable(c)
  BY DEF Writable
<1>3. CASE want = first
  <2>1. DOMAIN x.writes = {}
    BY <1>3, NothingYet
  <2>2. ASSUME c.name \in TaskCalls \cup {"FailActivity", "CompleteActivity"}
        PROVE  y.script # <<>>
    <3>1. c.name # "CompleteWorkflow"
      BY <2>2 DEF TaskCalls
    <3>2. want # Second(c)
      BY <1>3, <3>1, FirstIsNotLater
    <3>3. want # Reference(c.w)
      BY <1>3, FirstIsNotLater
    <3>4. y.script = Tail(Statements[c.name])
      BY <3>2, <3>3, OnlyRow
    <3>5. CASE c.name = "CompleteActivity"
      BY <3>4, <3>5, HasSecond
    <3>6. CASE c.name \in TaskCalls \cup {"FailActivity"}
      BY <3>4, <3>6, HasSecond
    <3> QED
      BY <2>2, <3>5, <3>6
  <2>3. DOMAIN y.writes = {First(c).row}
    BY <1>3, <2>1
  <2> QED
    BY <1>1, <1>2, <2>2, <2>3 DEF HasRun
<1>4. CASE want = second /\ want # first
  <2>1. x.script = <<>> /\ c.name \in TaskCalls \cup {"FailActivity"}
    BY <1>4
  <2>2. want.row = <<"workflow", c.w>>
    BY <1>4, <2>1, FirstIsNotLater, RequestFields
  <2>3. x.todo = <<want>>
    BY OnlyTodo
  <2>4. x.todo # <<first>>
    BY <1>4, <2>3
  <2>5. First(c).row \in DOMAIN x.writes /\ DOMAIN x.writes \subseteq Writable(c)
    BY <1>1, <2>4 DEF HasRun
  <2>6. want.row \in Writable(c)
    BY <2>1, <2>2 DEF Writable, TaskCalls, InsertCalls
  <2>7. c.name # "CompleteActivity"
    BY <2>1 DEF TaskCalls
  <2> QED
    BY <1>1, <2>1, <2>2, <2>5, <2>6, <2>7 DEF HasRun
<1> QED
  BY <1>3, <1>4

\* A row that refers to a workflow is there: the cascade finds it.
LEMMA ReferringRowExists ==
  ASSUME TablesFit, NEW W \in SUBSET WorkflowIDs, NEW want \in BatchRows("DeleteWorkflows"),
         want.row[1] # "workflow",
         \A t \in TaskIDs : want.row = <<"task", t>> => tasks[t].wf \in W,
         \A k \in ActivityKeys : want.row = <<"activity", k>> => activities[k].wf \in W,
         \A k \in SignalKeys : want.row = <<"signal", k>> => signals[k].wf \in W
  PROVE  RowExists(want.row)
<1> PICK row : row = want.row
  OBVIOUS
<1>0. None \notin W
  BY StorageAssumption DEF StorageAssumption
<1>1. \/ \E w \in WorkflowIDs : want = Request("workflow", w, "update")
      \/ \E t \in TaskIDs : want = Request("task", t, "update")
      \/ \E k \in ActivityKeys : want = Request("activity", k, "update")
      \/ \E k \in SignalKeys : want = Request("signal", k, "update")
  BY BatchRow
<1>2. CASE \E w \in WorkflowIDs : want = Request("workflow", w, "update")
  BY <1>2, RequestFields
<1>3. ASSUME NEW t \in TaskIDs, want = Request("task", t, "update")
      PROVE  RowExists(row)
  <2>1. row = <<"task", t>> /\ row[1] = "task" /\ row[2] = t
    BY <1>3, RequestFields
  <2>2. tasks[t].wf # None
    BY <1>0, <2>1
  <2>3. TaskExists(t)
    BY <2>2 DEF TablesFit, ForeignKeys
  <2> QED
    BY <2>1, <2>3 DEF RowExists
<1>4. ASSUME NEW k \in ActivityKeys, want = Request("activity", k, "update")
      PROVE  RowExists(row)
  <2>1. row = <<"activity", k>> /\ row[1] = "activity" /\ row[2] = k
    BY <1>4, RequestFields
  <2>2. activities[k].wf # None
    BY <1>0, <2>1
  <2>3. activities[k].status # "none"
    BY <2>2 DEF TablesFit, ForeignKeys
  <2> QED
    BY <2>1, <2>3 DEF RowExists
<1>5. ASSUME NEW k \in SignalKeys, want = Request("signal", k, "update")
      PROVE  RowExists(row)
  <2>1. row = <<"signal", k>> /\ row[1] = "signal" /\ row[2] = k
    BY <1>5, RequestFields
  <2>2. signals[k].wf # None
    BY <1>0, <2>1
  <2> QED
    BY <2>1, <2>2 DEF RowExists
<1> QED
  BY <1>1, <1>2, <1>3, <1>4, <1>5

\* The DELETE and its cascade take the next row, or find it gone.
LEMMA CascadeTakes ==
  ASSUME TablesFit, NEW x, CascadeStands(x), x.todo \in Seq(BatchRows("DeleteWorkflows")),
         x.todo # <<>>, NEW want, want = Head(x.todo),
         NEW y, y.script = x.script, y.todo = Tail(x.todo),
         \/ DOMAIN y.writes = DOMAIN x.writes \cup {want.row}
         \/ DOMAIN y.writes = DOMAIN x.writes /\ ~RowExists(want.row)
  PROVE  CascadeStands(y)
<1> PICK all, rest : all = RowsIn(x.todo) /\ rest = RowsIn(y.todo)
  OBVIOUS
<1>0. Splits(x.todo, want, y.todo)
  BY AwaitedRest
<1>1. all = {want.row} \cup rest
  BY <1>0 DEF Splits
<1>2. Concerned(x) = DOMAIN x.writes \cup all /\ Concerned(y) = DOMAIN y.writes \cup rest
  BY DEF Concerned, RowsIn
<1>3. Concerned(y) \subseteq Concerned(x)
  BY <1>1, <1>2
<1>4. \A w \in WorkflowIDs : <<"workflow", w>> \in Concerned(y) =>
        workflows[w].status \in {"completed", "failed", "deleted"}
  BY <1>3 DEF CascadeStands
<1>5. CASE y.script # <<>>
  <2>1. \A row \in Concerned(y) : row[1] = "workflow"
    BY <1>3, <1>5 DEF CascadeStands
  <2> QED
    BY <1>4, <1>5, <2>1 DEF CascadeStands
<1>6. CASE y.script = <<>>
  <2> PICK deleted : deleted = {w \in WorkflowIDs : <<"workflow", w>> \in DOMAIN x.writes}
    OBVIOUS
  <2>1. /\ \A i \in DOMAIN x.todo : x.todo[i].row[1] # "workflow"
        /\ \A t \in TaskIDs : <<"task", t>> \in Concerned(x) <=> tasks[t].wf \in deleted
        /\ \A k \in ActivityKeys :
             <<"activity", k>> \in Concerned(x) <=> activities[k].wf \in deleted
        /\ \A k \in SignalKeys : <<"signal", k>> \in Concerned(x) <=> signals[k].wf \in deleted
    BY <1>6 DEF CascadeStands
  <2>2. want \in BatchRows("DeleteWorkflows")
    BY HeadAndTail
  <2>3. want.row \in Concerned(x) /\ want.row[1] # "workflow"
    <3>1. want = x.todo[1] /\ 1 \in DOMAIN x.todo
      OBVIOUS
    <3> QED
      BY <1>1, <1>2, <2>1, <3>1
  <2>4. RowExists(want.row)
    <3>1. deleted \in SUBSET WorkflowIDs
      OBVIOUS
    <3>2. /\ \A t \in TaskIDs : want.row = <<"task", t>> => tasks[t].wf \in deleted
          /\ \A k \in ActivityKeys : want.row = <<"activity", k>> => activities[k].wf \in deleted
          /\ \A k \in SignalKeys : want.row = <<"signal", k>> => signals[k].wf \in deleted
      BY <2>1, <2>3
    <3> QED
      BY <2>2, <2>3, <3>1, <3>2, ReferringRowExists
  <2>5. DOMAIN y.writes = DOMAIN x.writes \cup {want.row}
    BY <2>4
  <2>6. Concerned(y) = Concerned(x)
    BY <1>1, <1>2, <2>5
  <2>7. deleted = {w \in WorkflowIDs : <<"workflow", w>> \in DOMAIN y.writes}
    <3>1. ASSUME NEW w
          PROVE  <<"workflow", w>> # want.row
      BY <2>3
    <3> QED
      BY <2>5, <3>1
  <2>8. \A i \in DOMAIN y.todo : y.todo[i].row[1] # "workflow"
    BY <1>0, <2>1 DEF Splits
  <2> QED
    BY <1>4, <1>6, <2>1, <2>6, <2>7, <2>8 DEF CascadeStands
<1> QED
  BY <1>5, <1>6

LEMMA TakeRowKeepsAtomic ==
  ASSUME AtomicInv, TransactionInv', NEW s \in Sessions, Running(s), session[s].todo # <<>>,
         NEW want, want = Head(session[s].todo), TakeRow(s, want)
  PROVE  AtomicInv'
<1> PICK x, c, row : x = session[s] /\ c = x.call /\ row = want.row
  OBVIOUS
<1>1. /\ IsSession(x) /\ x.pc = "running" /\ Stands(x) /\ IsCall(c)
      /\ c.w = None => TakesBatch(x)
      /\ c.w # None => TakesInOrder(x) /\ HasRun(x)
  BY ActiveSession DEF IsActive, IsSession, Stands
<1>2. want.mode \in {"no_key_update", "update"} /\ TransactionInv /\ TablesFit
  BY DEF TakeRow, AtomicInv
<1>3. /\ c.name \notin InsertCalls
      /\ c.w # None =>
           \/ want = First(c)
           \/ want = Second(c) /\ x.script = <<>> /\ c.name \in TaskCalls \cup {"FailActivity"}
  BY <1>2, RowToWrite
<1>4. PICK table, id, mode :
        /\ want = Request(table, id, mode) /\ Writes(c, table, id, mode)
        /\ mode = "update" <=> c.name = "DeleteWorkflows"
  BY <1>2, RowToWrite
<1>5. row = <<table, id>> /\ want.mode = mode
  BY <1>4, RequestFields
<1>6. <<>> \o Tail(x.todo) = Tail(x.todo) /\ (c.w = None => x.todo \in Seq(BatchRows(c.name)))
  <2>1. CASE c.w = None
    BY <1>1, <2>1, HeadAndTail DEF TakesBatch
  <2>2. CASE c.w # None
    BY <1>1, <2>2, OnlyRow, AfterTheOnlyRow
  <2> QED
    BY <2>1, <2>2
<1>7. c.name = "DeleteWorkflows" => c.w = None
  BY <1>1, CallNames
<1>8. CASE RollsBack(s)
  BY <1>8, RollsBackKeepsAtomic
<1>9. CASE ~Finds(c, row) /\ c.w = None /\ Takes(s, {}, <<>>, <<>>)
  <2> PICK locks : locks = {}
    OBVIOUS
  <2>1. PICK writes, more :
          /\ Takes(s, locks, writes, more) /\ more \o Tail(x.todo) = Tail(x.todo)
          /\ DOMAIN writes = {}
    <3> PICK none : none = <<>>
      OBVIOUS
    <3>1. Takes(s, locks, none, none) /\ DOMAIN none = {} /\ none \o Tail(x.todo) = Tail(x.todo)
      BY <1>6, <1>9
    <3> QED
      BY <3>1
  <2> PICK y : Taken(x, y, locks, writes, more)
    BY DEF Taken
  <2>2. y.script = x.script /\ y.todo = more \o Tail(x.todo)
    BY <1>1, TakenFields
  <2>3. y.newTask = x.newTask /\ DOMAIN y.writes = DOMAIN x.writes \cup DOMAIN writes
    BY <1>1, TakenWrites
  <2>4. DOMAIN y.writes = DOMAIN x.writes /\ y.todo = Tail(x.todo)
    BY <2>1, <2>2, <2>3
  <2>5. ASSUME c.name = "DeleteWorkflows"
        PROVE  CascadeStands(y)
    <3>1. ~RowExists(row)
      BY <1>9 DEF Finds
    <3>2. CascadeStands(x) /\ x.todo \in Seq(BatchRows("DeleteWorkflows"))
      BY <1>1, <1>6, <1>7, <2>5 DEF Stands
    <3> QED
      BY <1>2, <2>2, <2>4, <3>1, <3>2, CascadeTakes
  <2> QED
    BY <1>9, <2>1, <2>5, TakesKeepsAtomic
<1>10. CASE Finds(c, row) /\ Takes(s, {want}, WriteOf(row, NewRow(row, mode, c)), <<>>)
  <2> PICK locks, value : locks = {want} /\ value = NewRow(row, mode, c)
    OBVIOUS
  <2>1. PICK writes, more :
          /\ Takes(s, locks, writes, more) /\ more \o Tail(x.todo) = Tail(x.todo)
          /\ DOMAIN writes = {row} /\ writes[row] = value
    <3> PICK one, none : one = WriteOf(row, value) /\ none = <<>>
      OBVIOUS
    <3>1. Takes(s, locks, one, none) /\ none \o Tail(x.todo) = Tail(x.todo)
      BY <1>6, <1>10
    <3>2. DOMAIN one = {row} /\ one[row] = value
      BY DEF WriteOf
    <3> QED
      BY <3>1, <3>2
  <2> PICK y : Taken(x, y, locks, writes, more)
    BY DEF Taken
  <2>2. /\ y.call = c /\ y.script = x.script /\ y.todo = more \o Tail(x.todo)
        /\ y.locks = x.locks \cup locks
    BY <1>1, TakenFields
  <2>3. y.newTask = x.newTask /\ DOMAIN y.writes = DOMAIN x.writes \cup DOMAIN writes
    BY <1>1, TakenWrites
  <2>4. \A r \in DOMAIN y.writes : r \in DOMAIN writes => y.writes[r] = writes[r]
    BY <1>1, TakenWrites
  <2>5. DOMAIN y.writes = DOMAIN x.writes \cup {row} /\ y.writes[row] = value
    BY <2>1, <2>3, <2>4
  <2>6. UpdateStands(y, row)
    <3>1. want \in y.locks
      BY <2>2
    <3> QED
      BY <1>1, <1>3, <1>4, <1>5, <1>10, <2>2, <2>5, <3>1, TakenRowStands
  <2>7. ASSUME c.w # None
        PROVE  HasRun(y)
    <3>1. y.todo = <<>>
      BY <1>1, <2>1, <2>2, <2>7, OnlyRow
    <3> QED
      BY <1>1, <1>3, <2>2, <2>3, <2>5, <2>7, <3>1, RowHasRun
  <2>8. ASSUME c.name = "DeleteWorkflows"
        PROVE  CascadeStands(y)
    <3>1. CascadeStands(x) /\ x.todo \in Seq(BatchRows("DeleteWorkflows"))
      BY <1>1, <1>6, <1>7, <2>8 DEF Stands
    <3>2. y.todo = Tail(x.todo)
      BY <2>1, <2>2
    <3> QED
      BY <1>2, <2>2, <2>5, <3>1, <3>2, CascadeTakes
  <2>9. \A w : Reference(w) # want
    BY <1>4, RequestFields DEF Reference, Writes
  <2>10. \A key : Request("request", key, "update") # want
    BY <1>4, RequestFields DEF Writes
  <2>11. \A r \in DOMAIN writes : InsertStands(y, r) \/ UpdateStands(y, r)
    BY <2>1, <2>6
  <2>12. Takes(s, locks, writes, more)
    BY <2>1
  <2> QED
    BY <2>7, <2>8, <2>9, <2>10, <2>11, <2>12, TakesKeepsAtomic
<1> QED
  BY <1>5, <1>8, <1>9, <1>10 DEF TakeRow

LEMMA TakeKeepsAtomic ==
  ASSUME AtomicInv, TransactionInv', NEW s \in Sessions, Take(s)
  PROVE  AtomicInv'
<1> PICK want : want = Head(session[s].todo)
  OBVIOUS
<1>1. Running(s) /\ session[s].todo # <<>>
  BY DEF Take, Running
<1>2. \/ TakeReference(s, want) \/ TakeRequest(s, want)
      \/ TakeInsert(s, want) \/ TakeRow(s, want)
  BY DEF Take
<1> QED
  BY <1>1, <1>2, TakeReferenceKeepsAtomic, TakeRequestKeepsAtomic, TakeInsertKeepsAtomic,
     TakeRowKeepsAtomic

-----------------------------------------------------------------------------
(* What a transaction has written, table by table *)

\* What a transaction does to a row of each table: it inserts the row, deletes
\* it or updates it, under a lock that says which.
InsertsRow(x, row) ==
  x.call.name \in InsertCalls /\ row = InsertedRow(x.call) /\ x.writes[row] = Inserted(x.call)

DeletesRow(x, table, id) ==
  /\ x.call.name = "DeleteWorkflows" /\ x.writes[<<table, id>>] = Deleted(table)
  /\ Request(table, id, "update") \in x.locks

UpdatesRow(x, table, id, value) ==
  /\ x.writes[<<table, id>>] = value
  /\ Request(table, id, "no_key_update") \in x.locks
  /\ x.call.name \notin InsertCalls /\ x.call.name # "DeleteWorkflows"

LEMMA DeletedOrUpdated ==
  ASSUME NEW x, IsActive(x), NEW c, c = x.call,
         NEW table \in {"workflow", "task", "activity", "signal"}, NEW id,
         NEW row \in DOMAIN x.writes, row = <<table, id>>, UpdateStands(x, row)
  PROVE  /\ Finds(c, row) /\ RowExists(row)
         /\ \/ DeletesRow(x, table, id)
            \/ UpdatesRow(x, table, id, NewRow(row, "no_key_update", c))
               /\ Writes(c, table, id, "no_key_update")
<1>1. PICK a, b : \E mode \in {"update", "no_key_update"} :
        /\ row = <<a, b>> /\ WriteLock(c, row) = Request(a, b, mode)
        /\ mode = "update" <=> c.name = "DeleteWorkflows"
        /\ Writes(c, a, b, mode)
  BY UpdatedRow
<1>2. a = table /\ b = id
  BY <1>1, PairsAgree
<1>3. PICK mode \in {"update", "no_key_update"} :
        /\ WriteLock(c, row) = Request(table, id, mode)
        /\ mode = "update" <=> c.name = "DeleteWorkflows"
        /\ Writes(c, table, id, mode)
  BY <1>1, <1>2
<1>4. /\ WriteLock(c, row).mode = mode /\ Request(table, id, mode) \in x.locks
      /\ Finds(c, row) /\ RowExists(row) /\ c.name \notin InsertCalls
      /\ x.writes[row] = NewRow(row, mode, c)
  BY <1>3, RequestFields DEF UpdateStands, Finds
<1>5. CASE mode = "update"
  <2>1. NewRow(row, "update", c) = Deleted(table)
    BY NewRowIs
  <2> QED
    BY <1>3, <1>4, <1>5, <2>1 DEF DeletesRow
<1>6. CASE mode = "no_key_update"
  BY <1>3, <1>4, <1>6 DEF UpdatesRow
<1> QED
  BY <1>3, <1>4, <1>5, <1>6

\* The row that a call inserts is one of its table.
LEMMA InsertTables ==
  ASSUME NEW x, NEW c, c = x.call, NEW table, NEW id, NEW row, row = <<table, id>>,
         InsertStands(x, row)
  PROVE  \/ c.name = "InsertWorkflow" /\ table = "workflow" /\ id = c.w
         \/ c.name = "InsertSignal" /\ table = "signal"
         \/ c.name = "InsertActivity" /\ table = "activity"
<1>1. c.name \in {"InsertWorkflow", "InsertSignal", "InsertActivity"} /\ row = InsertedRow(c)
  BY DEF InsertStands, InsertCalls
<1>2. CASE c.name = "InsertWorkflow"
  <2>1. row = <<"workflow", c.w>>
    BY <1>1, <1>2, InsertedRows
  <2> QED
    BY <1>2, <2>1, PairsAgree
<1>3. CASE c.name = "InsertSignal"
  <2>1. PICK g : row = <<"signal", g>>
    BY <1>1, <1>3, InsertedRows
  <2> QED
    BY <1>3, <2>1, PairsAgree
<1>4. CASE c.name = "InsertActivity"
  <2>1. PICK k : row = <<"activity", k>>
    BY <1>1, <1>4, InsertedRows
  <2> QED
    BY <1>4, <2>1, PairsAgree
<1> QED
  BY <1>1, <1>2, <1>3, <1>4

LEMMA WrittenWorkflow ==
  ASSUME NEW x, IsActive(x), NEW c, c = x.call, NEW w, NEW row, row = <<"workflow", w>>,
         row \in DOMAIN x.writes
  PROVE  \/ /\ InsertsRow(x, row) /\ c.name = "InsertWorkflow" /\ w = c.w
            /\ Request("request", c.id, "update") \in x.locks
         \/ Exists(w) /\ DeletesRow(x, "workflow", w)
         \/ /\ Exists(w) /\ UpdatesRow(x, "workflow", w, UpdatedWorkflow(c, w))
            /\ c.name \in TaskCalls \cup {"CompleteWorkflow", "FailActivity"}
<1>0. row[1] = "workflow" /\ row[2] = w
  BY PairFields
<1>1. CASE InsertStands(x, row)
  <2>1. c.name = "InsertWorkflow" /\ w = c.w
    BY <1>1, InsertTables
  <2> QED
    BY <1>1, <2>1 DEF InsertStands, InsertsRow
<1>2. CASE UpdateStands(x, row)
  <2>1. NewRow(row, "no_key_update", c) = UpdatedWorkflow(c, w)
    BY NewRowIs
  <2>2. RowExists(row) => Exists(w)
    BY <1>0 DEF RowExists
  <2>3. RowExists(row)
        /\ \/ DeletesRow(x, "workflow", w)
           \/ UpdatesRow(x, "workflow", w, UpdatedWorkflow(c, w))
              /\ Writes(c, "workflow", w, "no_key_update")
    BY <1>2, <2>1, DeletedOrUpdated
  <2> QED
    BY <2>2, <2>3 DEF Writes
<1> QED
  BY <1>1, <1>2 DEF IsActive, Stands, WritesStand

LEMMA WrittenTask ==
  ASSUME NEW x, IsActive(x), NEW c, c = x.call, NEW t, NEW row, row = <<"task", t>>,
         row \in DOMAIN x.writes
  PROVE  /\ TaskExists(t)
         /\ \/ DeletesRow(x, "task", t)
            \/ /\ UpdatesRow(x, "task", t, UpdatedTask(c, t))
               /\ c.name \in TaskCalls \cup {"ClaimTasks"}
<1>0. row[1] = "task" /\ row[2] = t
  BY PairFields
<1>1. ~InsertStands(x, row)
  BY InsertTables
<1>2. UpdateStands(x, row)
  BY <1>1 DEF IsActive, Stands, WritesStand
<1>3. NewRow(row, "no_key_update", c) = UpdatedTask(c, t)
  BY NewRowIs
<1>4. RowExists(row) => TaskExists(t)
  BY <1>0 DEF RowExists
<1>5. RowExists(row)
      /\ \/ DeletesRow(x, "task", t)
         \/ UpdatesRow(x, "task", t, UpdatedTask(c, t)) /\ Writes(c, "task", t, "no_key_update")
  BY <1>2, <1>3, DeletedOrUpdated
<1> QED
  BY <1>4, <1>5 DEF Writes

LEMMA WrittenActivity ==
  ASSUME NEW x, IsActive(x), NEW c, c = x.call, NEW k, NEW row, row = <<"activity", k>>,
         row \in DOMAIN x.writes
  PROVE  \/ /\ InsertsRow(x, row) /\ c.name = "InsertActivity" /\ activities[k].status = "none"
            /\ Request("activity", k, "update") \in x.locks
         \/ activities[k].status # "none" /\ DeletesRow(x, "activity", k)
         \/ /\ activities[k].status # "none" /\ (c.w # None => OwnsActivity(c.w, k))
            /\ UpdatesRow(x, "activity", k, UpdatedActivity(c, k))
            /\ c.name \in ActivityCalls \cup {"ClaimActivities"}
<1>0. row[1] = "activity" /\ row[2] = k
  BY PairFields
<1>1. RowExists(row) <=> activities[k].status # "none"
  BY <1>0 DEF RowExists
<1>2. CASE InsertStands(x, row)
  <2>1. c.name = "InsertActivity"
    BY <1>2, InsertTables
  <2>2. WriteLock(c, row) = Request("activity", k, "update")
    BY <2>1, WriteLockIs
  <2> QED
    BY <1>1, <1>2, <2>1, <2>2 DEF InsertStands, InsertsRow
<1>3. CASE UpdateStands(x, row)
  <2>1. NewRow(row, "no_key_update", c) = UpdatedActivity(c, k)
    BY NewRowIs
  <2>2. Finds(c, row) /\ RowExists(row)
        /\ \/ DeletesRow(x, "activity", k)
           \/ UpdatesRow(x, "activity", k, UpdatedActivity(c, k))
              /\ Writes(c, "activity", k, "no_key_update")
    BY <1>3, <2>1, DeletedOrUpdated
  <2>3. c.w # None => OwnsActivity(c.w, k)
    BY <1>0, <2>2 DEF Finds
  <2> QED
    BY <1>1, <2>2, <2>3 DEF Writes
<1> QED
  BY <1>2, <1>3 DEF IsActive, Stands, WritesStand

LEMMA WrittenSignal ==
  ASSUME NEW x, IsActive(x), NEW c, c = x.call, NEW g, NEW row, row = <<"signal", g>>,
         row \in DOMAIN x.writes
  PROVE  \/ /\ InsertsRow(x, row) /\ c.name = "InsertSignal" /\ signals[g].wf = None
            /\ Request("signal", g, "update") \in x.locks
         \/ signals[g].wf # None /\ DeletesRow(x, "signal", g)
<1>0. row[1] = "signal" /\ row[2] = g
  BY PairFields
<1>1. RowExists(row) <=> signals[g].wf # None
  BY <1>0 DEF RowExists
<1>2. CASE InsertStands(x, row)
  <2>1. c.name = "InsertSignal"
    BY <1>2, InsertTables
  <2>2. WriteLock(c, row) = Request("signal", g, "update")
    BY <2>1, WriteLockIs
  <2> QED
    BY <1>1, <1>2, <2>1, <2>2 DEF InsertStands, InsertsRow
<1>3. CASE UpdateStands(x, row)
  <2>1. RowExists(row)
        /\ \/ DeletesRow(x, "signal", g)
           \/ UpdatesRow(x, "signal", g, NewRow(row, "no_key_update", c))
              /\ Writes(c, "signal", g, "no_key_update")
    BY <1>3, DeletedOrUpdated
  <2> QED
    BY <1>1, <2>1 DEF Writes
<1> QED
  BY <1>2, <1>3 DEF IsActive, Stands, WritesStand

-----------------------------------------------------------------------------
(* What a commit makes of each row *)

\* What becomes of a row when x commits.
Now(x, row, before) == IF row \in DOMAIN x.writes THEN x.writes[row] ELSE before

\* What becomes of the tasks: those written change, and one may be new.
CommittedTasks(x) ==
  \/ /\ x.newTask = None
     /\ \A t \in TaskIDs : tasks'[t] = Now(x, <<"task", t>>, tasks[t])
  \/ /\ x.newTask # None
     /\ \E n \in FreeTasks :
          /\ \A u \in FreeTasks : n <= u
          /\ tasks'[n] = [status |-> "pending", wf |-> x.newTask]
          /\ \A t \in TaskIDs \ {n} : tasks'[t] = Now(x, <<"task", t>>, tasks[t])

LEMMA CommitIs ==
  ASSUME AtomicInv, NEW s \in Sessions, Commit(s), NEW x, x = session[s]
  PROVE  /\ Running(s) /\ IsActive(x) /\ IsCall(x.call) /\ x.todo = <<>> /\ x.script = <<>>
         /\ session' = [session EXCEPT ![s] = [IdleSession EXCEPT !.pc = "done"]]
         /\ \A w \in WorkflowIDs : workflows'[w] = Now(x, <<"workflow", w>>, workflows[w])
         /\ \A k \in ActivityKeys : activities'[k] = Now(x, <<"activity", k>>, activities[k])
         /\ \A g \in SignalKeys : signals'[g] = Now(x, <<"signal", g>>, signals[g])
         /\ CommittedTasks(x)
<1>1. Running(s) /\ x.todo = <<>> /\ x.script = <<>>
  BY DEF Commit, BetweenStatements, Running, RanAll
<1>2. IsActive(x) /\ IsCall(x.call)
  BY <1>1, ActiveSession
<1>3. session' = [session EXCEPT ![s] = [IdleSession EXCEPT !.pc = "done"]]
  BY DEF Commit
<1>4. /\ \A w \in WorkflowIDs : workflows'[w] = Now(x, <<"workflow", w>>, workflows[w])
      /\ \A k \in ActivityKeys : activities'[k] = Now(x, <<"activity", k>>, activities[k])
      /\ \A g \in SignalKeys : signals'[g] = Now(x, <<"signal", g>>, signals[g])
  BY DEF Commit, Now
<1>5. CommittedTasks(x)
  <2> DEFINE updated == [t \in TaskIDs |-> Now(x, <<"task", t>>, tasks[t])]
  <2>1. \/ x.newTask = None /\ tasks' = updated
        \/ /\ x.newTask # None
           /\ \E n \in FreeTasks :
                /\ \A u \in FreeTasks : n <= u
                /\ tasks' = [updated EXCEPT ![n] = [status |-> "pending", wf |-> x.newTask]]
    BY DEF Commit, Now
  <2>2. DOMAIN updated = TaskIDs
        /\ \A t \in TaskIDs : updated[t] = Now(x, <<"task", t>>, tasks[t])
    OBVIOUS
  <2> HIDE DEF updated
  <2>3. CASE x.newTask = None
    BY <2>1, <2>2, <2>3 DEF CommittedTasks
  <2>4. CASE x.newTask # None
    <3>1. PICK n \in FreeTasks :
            /\ \A u \in FreeTasks : n <= u
            /\ tasks' = [updated EXCEPT ![n] = [status |-> "pending", wf |-> x.newTask]]
      BY <2>1, <2>4
    <3>2. n \in TaskIDs
      BY DEF FreeTasks
    <3>3. /\ tasks'[n] = [status |-> "pending", wf |-> x.newTask]
          /\ \A t \in TaskIDs \ {n} : tasks'[t] = updated[t]
      BY <2>2, <3>1, <3>2
    <3> QED
      BY <2>2, <2>4, <3>1, <3>3 DEF CommittedTasks
  <2> QED
    BY <2>3, <2>4
<1> QED
  BY <1>1, <1>2, <1>3, <1>4, <1>5

\* The keys of the rows that a call inserts.
LEMMA InsertedKeys ==
  ASSUME NEW c, IsCall(c)
  PROVE  /\ c.name = "InsertSignal" =>
              \E g \in SignalKeys : InsertedRow(c) = <<"signal", g>> /\ g = SignalKey[c.w, c.id]
         /\ c.name = "InsertActivity" =>
              \E k \in ActivityKeys :
                InsertedRow(c) = <<"activity", k>> /\ k = ActivityKey[c.w, c.id]
<1>1. /\ c.name = "InsertSignal" => <<c.w, c.id>> \in WorkflowIDs \X Signals
      /\ c.name = "InsertActivity" => <<c.w, c.id>> \in WorkflowIDs \X Activities
  BY DEF IsCall, TaskCalls, ActivityCalls, InsertCalls, ClaimCalls
<1>2. /\ c.name = "InsertSignal" => SignalKey[c.w, c.id] \in SignalKeys
      /\ c.name = "InsertActivity" => ActivityKey[c.w, c.id] \in ActivityKeys
  BY <1>1, StorageAssumption, Zenon DEF StorageAssumption
<1> QED
  BY <1>2, InsertedRows

LEMMA UpdatedWorkflowStands ==
  ASSUME StorageTypeOK, NEW w \in WorkflowIDs, Exists(w), NEW c,
         c.name \in TaskCalls \cup {"CompleteWorkflow", "FailActivity"}
  PROVE  /\ UpdatedWorkflow(c, w).status \in {"running", "completed", "failed"}
         /\ UpdatedWorkflow(c, w).key = workflows[w].key
         /\ workflows[w].status \in {"completed", "failed"} =>
              UpdatedWorkflow(c, w).status \in {"completed", "failed"}
<1> PICK old : old = workflows[w]
  OBVIOUS
<1>1. /\ old = [status |-> old.status, key |-> old.key, attempts |-> old.attempts,
                error |-> old.error]
      /\ old.status \in {"running", "completed", "failed"}
  BY DEF StorageTypeOK, WorkflowRow, Exists
<1>2. /\ [old EXCEPT !.status = "completed", !.error = FALSE].status = "completed"
      /\ [old EXCEPT !.status = "completed", !.error = FALSE].key = old.key
      /\ [old EXCEPT !.error = FALSE].status = old.status
      /\ [old EXCEPT !.error = FALSE].key = old.key
      /\ [old EXCEPT !.status = "failed", !.error = TRUE].status = "failed"
      /\ [old EXCEPT !.status = "failed", !.error = TRUE].key = old.key
  BY <1>1
<1>3. /\ [old EXCEPT !.attempts = @ + 1, !.error = TRUE].status = old.status
      /\ [old EXCEPT !.attempts = @ + 1, !.error = TRUE].key = old.key
  BY <1>1
<1> QED
  BY <1>1, <1>2, <1>3 DEF UpdatedWorkflow, TaskCalls

\* The row of a workflow stays, is inserted, is deleted or is updated.
WorkflowMoves(x, w, row) ==
  \/ row \notin DOMAIN x.writes /\ workflows'[w] = workflows[w]
  \/ /\ row \in DOMAIN x.writes /\ x.call.name = "InsertWorkflow" /\ w = x.call.w
     /\ workflows[w].status = "none"
     /\ Request("request", x.call.id, "update") \in x.locks
     /\ workflows'[w] =
          [status |-> "running", key |-> x.call.id, attempts |-> 1, error |-> FALSE]
  \/ /\ row \in DOMAIN x.writes /\ x.call.name = "DeleteWorkflows" /\ Exists(w)
     /\ Request("workflow", w, "update") \in x.locks
     /\ workflows'[w] = Deleted("workflow") /\ ~Exists(w)'
  \/ /\ row \in DOMAIN x.writes /\ Exists(w) /\ Exists(w)'
     /\ x.call.name \in TaskCalls \cup {"CompleteWorkflow", "FailActivity"}
     /\ workflows'[w] = UpdatedWorkflow(x.call, w)
     /\ workflows'[w].key = workflows[w].key
     /\ workflows[w].status \in {"completed", "failed"} =>
          workflows'[w].status \in {"completed", "failed"}

LEMMA WorkflowAfter ==
  ASSUME AtomicInv, NEW s \in Sessions, Commit(s), NEW x, x = session[s], NEW c, c = x.call,
         NEW w \in WorkflowIDs, NEW row, row = <<"workflow", w>>
  PROVE  WorkflowMoves(x, w, row)
<1> USE DEF WorkflowMoves
<1>1. Running(s) /\ IsActive(x) /\ workflows'[w] = Now(x, row, workflows[w])
  BY CommitIs
<1>2. CASE row \notin DOMAIN x.writes
  BY <1>1, <1>2 DEF Now
<1>3. CASE row \in DOMAIN x.writes
  <2>1. workflows'[w] = x.writes[row]
    BY <1>1, <1>3 DEF Now
  <2>2. CASE /\ InsertsRow(x, row) /\ c.name = "InsertWorkflow" /\ w = c.w
             /\ Request("request", c.id, "update") \in x.locks
    <3>1. x.writes[row] = Inserted(c)
      BY <2>2 DEF InsertsRow
    <3>2. Inserted(c) = [status |-> "running", key |-> c.id, attempts |-> 1, error |-> FALSE]
      BY <2>2 DEF Inserted
    <3>3. workflows[w].status = "none"
      BY <1>1, <2>2 DEF AtomicInv, TransactionInv, InsertedIsOwn
    <3> QED
      BY <1>3, <2>1, <2>2, <3>1, <3>2, <3>3
  <2>3. CASE Exists(w) /\ DeletesRow(x, "workflow", w)
    <3>1. workflows'[w] = Deleted("workflow")
      BY <2>1, <2>3 DEF DeletesRow
    <3>2. ~Exists(w)'
      BY <3>1 DEF Exists, Deleted
    <3> QED
      BY <1>3, <2>3, <3>1, <3>2 DEF DeletesRow
  <2>4. CASE /\ Exists(w) /\ UpdatesRow(x, "workflow", w, UpdatedWorkflow(c, w))
             /\ c.name \in TaskCalls \cup {"CompleteWorkflow", "FailActivity"}
    <3> PICK new : new = UpdatedWorkflow(c, w)
      OBVIOUS
    <3>1. workflows'[w] = new
      BY <2>1, <2>4 DEF UpdatesRow
    <3>2. StorageTypeOK
      BY DEF AtomicInv, TransactionInv
    <3>3. /\ new.status \in {"running", "completed", "failed"} /\ new.key = workflows[w].key
          /\ workflows[w].status \in {"completed", "failed"} =>
               new.status \in {"completed", "failed"}
      BY <2>4, <3>2, UpdatedWorkflowStands
    <3>4. Exists(w)'
      BY <3>1, <3>3 DEF Exists
    <3> QED
      BY <1>3, <2>4, <3>1, <3>3, <3>4
  <2> QED
    BY <1>1, <1>3, <2>2, <2>3, <2>4, WrittenWorkflow
<1> QED
  BY <1>2, <1>3

LEMMA UpdatedTaskStands ==
  ASSUME StorageTypeOK, NEW t \in TaskIDs, TaskExists(t), NEW c,
         c.name \in TaskCalls \cup {"ClaimTasks"}
  PROVE  /\ UpdatedTask(c, t).status \in {"pending", "running", "completed", "failed"}
         /\ UpdatedTask(c, t).wf = tasks[t].wf
<1> PICK old : old = tasks[t]
  OBVIOUS
<1>1. old = [status |-> old.status, wf |-> old.wf]
  BY DEF StorageTypeOK, TaskRow
<1>2. \A status : /\ [old EXCEPT !.status = status].status = status
                  /\ [old EXCEPT !.status = status].wf = old.wf
  BY <1>1
<1> QED
  BY <1>2 DEF UpdatedTask, TaskCalls

\* The row of a task that is there already stays, is deleted or is updated.
TaskMoves(x, t, row) ==
  \/ row \notin DOMAIN x.writes /\ tasks'[t] = tasks[t]
  \/ /\ row \in DOMAIN x.writes /\ x.call.name = "DeleteWorkflows" /\ TaskExists(t)
     /\ tasks'[t] = Deleted("task") /\ ~TaskExists(t)' /\ tasks'[t].wf = None
  \/ /\ row \in DOMAIN x.writes /\ TaskExists(t) /\ TaskExists(t)'
     /\ x.call.name \in TaskCalls \cup {"ClaimTasks"}
     /\ tasks'[t] = UpdatedTask(x.call, t) /\ tasks'[t].wf = tasks[t].wf

LEMMA TaskAfter ==
  ASSUME AtomicInv, NEW s \in Sessions, Commit(s), NEW x, x = session[s], NEW c, c = x.call,
         NEW t \in TaskIDs, NEW row, row = <<"task", t>>, tasks'[t] = Now(x, row, tasks[t])
  PROVE  TaskMoves(x, t, row)
<1> USE DEF TaskMoves
<1>1. Running(s) /\ IsActive(x)
  BY CommitIs
<1>2. CASE row \notin DOMAIN x.writes
  BY <1>2 DEF Now
<1>3. CASE row \in DOMAIN x.writes
  <2>1. tasks'[t] = x.writes[row]
    BY <1>3 DEF Now
  <2>2. TaskExists(t)
        /\ \/ DeletesRow(x, "task", t)
           \/ /\ UpdatesRow(x, "task", t, UpdatedTask(c, t))
              /\ c.name \in TaskCalls \cup {"ClaimTasks"}
    BY <1>1, <1>3, WrittenTask
  <2>3. CASE DeletesRow(x, "task", t)
    <3>1. tasks'[t] = Deleted("task")
      BY <2>1, <2>3 DEF DeletesRow
    <3>2. ~TaskExists(t)' /\ tasks'[t].wf = None
      BY <3>1 DEF TaskExists, Deleted
    <3> QED
      BY <1>3, <2>2, <2>3, <3>1, <3>2 DEF DeletesRow
  <2>4. CASE /\ UpdatesRow(x, "task", t, UpdatedTask(c, t))
             /\ c.name \in TaskCalls \cup {"ClaimTasks"}
    <3> PICK new : new = UpdatedTask(c, t)
      OBVIOUS
    <3>1. tasks'[t] = new
      BY <2>1, <2>4 DEF UpdatesRow
    <3>2. StorageTypeOK
      BY DEF AtomicInv, TransactionInv
    <3>3. new.status \in {"pending", "running", "completed", "failed"} /\ new.wf = tasks[t].wf
      BY <2>2, <2>4, <3>2, UpdatedTaskStands
    <3>4. TaskExists(t)'
      BY <3>1, <3>3 DEF TaskExists
    <3> QED
      BY <1>3, <2>2, <2>4, <3>1, <3>3, <3>4
  <2> QED
    BY <2>2, <2>3, <2>4
<1> QED
  BY <1>2, <1>3

LEMMA UpdatedActivityStands ==
  ASSUME StorageTypeOK, NEW k \in ActivityKeys, activities[k].status # "none", NEW c,
         c.name \in ActivityCalls \cup {"ClaimActivities"}
  PROVE  /\ UpdatedActivity(c, k).status # "none"
         /\ UpdatedActivity(c, k).wf = activities[k].wf
<1> PICK old : old = activities[k]
  OBVIOUS
<1>1. old = [status |-> old.status, wf |-> old.wf, call |-> old.call,
             attempts |-> old.attempts, output |-> old.output]
  BY DEF StorageTypeOK, ActivityRow
<1>2. /\ \A status : /\ [old EXCEPT !.status = status].status = status
                     /\ [old EXCEPT !.status = status].wf = old.wf
      /\ [old EXCEPT !.status = "completed", !.output = c.value].status = "completed"
      /\ [old EXCEPT !.status = "completed", !.output = c.value].wf = old.wf
  BY <1>1
<1>3. /\ [old EXCEPT !.status = "running", !.attempts = @ + 1].status = "running"
      /\ [old EXCEPT !.status = "running", !.attempts = @ + 1].wf = old.wf
  BY <1>1
<1> QED
  BY <1>2, <1>3 DEF UpdatedActivity, ActivityCalls

\* A call that inserts an activity or a signal refers to its workflow.
LEMMA InsertRefers ==
  ASSUME NEW x, IsActive(x), x.todo = <<>>, NEW c, c = x.call, NEW row \in DOMAIN x.writes,
         c.name \in {"InsertActivity", "InsertSignal"}
  PROVE  c.w \in WorkflowIDs /\ Reference(c.w) \in x.locks /\ Exists(c.w)
<1>1. IsCall(c)
  BY DEF IsActive, IsSession
<1>2. c.w # None /\ c.w \in WorkflowIDs
  BY <1>1, CallNames
<1>3. Reference(c.w) \in x.locks
  BY <1>2 DEF IsActive, Stands, HasRun
<1> QED
  BY <1>2, <1>3 DEF IsActive, Stands, LocksStand

\* The row of an activity stays, is inserted, is deleted or is updated.
ActivityMoves(x, k, row) ==
  \/ row \notin DOMAIN x.writes /\ activities'[k] = activities[k]
  \/ /\ row \in DOMAIN x.writes /\ x.call.name = "InsertActivity" /\ row = InsertedRow(x.call)
     /\ activities[k].status = "none" /\ Reference(x.call.w) \in x.locks /\ Exists(x.call.w)
     /\ x.call.w \in WorkflowIDs /\ activities'[k].status # "none" /\ activities'[k].wf = x.call.w
     /\ activities'[k] = Inserted(x.call)
  \/ /\ row \in DOMAIN x.writes /\ x.call.name = "DeleteWorkflows"
     /\ activities[k].status # "none" /\ activities'[k] = NoActivityRow
     /\ activities'[k].status = "none" /\ activities'[k].wf = None
  \/ /\ row \in DOMAIN x.writes /\ activities[k].status # "none"
     /\ activities'[k].status # "none"
     /\ x.call.name \in ActivityCalls \cup {"ClaimActivities"}
     /\ activities'[k] = UpdatedActivity(x.call, k) /\ activities'[k].wf = activities[k].wf
     /\ x.call.w # None => OwnsActivity(x.call.w, k)

LEMMA ActivityAfter ==
  ASSUME AtomicInv, NEW s \in Sessions, Commit(s), NEW x, x = session[s], NEW c, c = x.call,
         NEW k \in ActivityKeys, NEW row, row = <<"activity", k>>
  PROVE  ActivityMoves(x, k, row)
<1> USE DEF ActivityMoves
<1>1. Running(s) /\ IsActive(x) /\ activities'[k] = Now(x, row, activities[k]) /\ x.todo = <<>>
  BY CommitIs
<1>2. CASE row \notin DOMAIN x.writes
  BY <1>1, <1>2 DEF Now
<1>3. CASE row \in DOMAIN x.writes
  <2>1. activities'[k] = x.writes[row]
    BY <1>1, <1>3 DEF Now
  <2>2. CASE /\ InsertsRow(x, row) /\ c.name = "InsertActivity"
             /\ activities[k].status = "none"
    <3> PICK new : new = Inserted(c)
      OBVIOUS
    <3>1. activities'[k] = new /\ row = InsertedRow(c)
      BY <2>1, <2>2 DEF InsertsRow
    <3>2. new.status # "none" /\ new.wf = c.w
      BY <2>2 DEF Inserted, NoActivityRow
    <3>3. c.w \in WorkflowIDs /\ Reference(c.w) \in x.locks /\ Exists(c.w)
      BY <1>1, <1>3, <2>2, InsertRefers
    <3> QED
      BY <1>3, <2>2, <3>1, <3>2, <3>3
  <2>3. CASE activities[k].status # "none" /\ DeletesRow(x, "activity", k)
    <3>1. activities'[k] = NoActivityRow
      BY <2>1, <2>3 DEF DeletesRow, Deleted
    <3>2. activities'[k].status = "none" /\ activities'[k].wf = None
      BY <3>1 DEF NoActivityRow
    <3> QED
      BY <1>3, <2>3, <3>1, <3>2 DEF DeletesRow
  <2>4. CASE /\ activities[k].status # "none" /\ (c.w # None => OwnsActivity(c.w, k))
             /\ UpdatesRow(x, "activity", k, UpdatedActivity(c, k))
             /\ c.name \in ActivityCalls \cup {"ClaimActivities"}
    <3> PICK new : new = UpdatedActivity(c, k)
      OBVIOUS
    <3>1. activities'[k] = new
      BY <2>1, <2>4 DEF UpdatesRow
    <3>2. StorageTypeOK
      BY DEF AtomicInv, TransactionInv
    <3>3. new.status # "none" /\ new.wf = activities[k].wf
      BY <2>4, <3>2, UpdatedActivityStands
    <3> QED
      BY <1>3, <2>4, <3>1, <3>3
  <2> QED
    BY <1>1, <1>3, <2>2, <2>3, <2>4, WrittenActivity
<1> QED
  BY <1>2, <1>3

\* The row of a signal stays, is inserted or is deleted.
SignalMoves(x, g, row) ==
  \/ row \notin DOMAIN x.writes /\ signals'[g] = signals[g]
  \/ /\ row \in DOMAIN x.writes /\ x.call.name = "InsertSignal" /\ row = InsertedRow(x.call)
     /\ signals[g].wf = None /\ Reference(x.call.w) \in x.locks /\ Exists(x.call.w)
     /\ x.call.w \in WorkflowIDs /\ signals'[g].wf = x.call.w
     /\ signals'[g] = Inserted(x.call)
  \/ /\ row \in DOMAIN x.writes /\ x.call.name = "DeleteWorkflows"
     /\ signals[g].wf # None /\ signals'[g] = NoSignalRow /\ signals'[g].wf = None

LEMMA SignalAfter ==
  ASSUME AtomicInv, NEW s \in Sessions, Commit(s), NEW x, x = session[s], NEW c, c = x.call,
         NEW g \in SignalKeys, NEW row, row = <<"signal", g>>
  PROVE  SignalMoves(x, g, row)
<1> USE DEF SignalMoves
<1>1. Running(s) /\ IsActive(x) /\ signals'[g] = Now(x, row, signals[g]) /\ x.todo = <<>>
  BY CommitIs
<1>2. CASE row \notin DOMAIN x.writes
  BY <1>1, <1>2 DEF Now
<1>3. CASE row \in DOMAIN x.writes
  <2>1. signals'[g] = x.writes[row]
    BY <1>1, <1>3 DEF Now
  <2>2. CASE InsertsRow(x, row) /\ c.name = "InsertSignal" /\ signals[g].wf = None
    <3> PICK new : new = Inserted(c)
      OBVIOUS
    <3>1. signals'[g] = new /\ row = InsertedRow(c)
      BY <2>1, <2>2 DEF InsertsRow
    <3>2. new.wf = c.w
      BY <2>2 DEF Inserted
    <3>3. c.w \in WorkflowIDs /\ Reference(c.w) \in x.locks /\ Exists(c.w)
      BY <1>1, <1>3, <2>2, InsertRefers
    <3> QED
      BY <1>3, <2>2, <3>1, <3>2, <3>3
  <2>3. CASE signals[g].wf # None /\ DeletesRow(x, "signal", g)
    <3>1. signals'[g] = NoSignalRow
      BY <2>1, <2>3 DEF DeletesRow, Deleted
    <3>2. signals'[g].wf = None
      BY <3>1 DEF NoSignalRow
    <3> QED
      BY <1>3, <2>3, <3>1, <3>2 DEF DeletesRow
  <2> QED
    BY <1>1, <1>3, <2>2, <2>3, WrittenSignal
<1> QED
  BY <1>2, <1>3

\* A task that is inserted refers to the workflow of its call.
LEMMA NewTaskRefers ==
  ASSUME NEW x, IsActive(x), x.todo = <<>>, x.script = <<>>, NEW c, c = x.call, x.newTask # None
  PROVE  /\ x.newTask = c.w /\ c.w \in WorkflowIDs
         /\ \/ c.name = "InsertWorkflow" /\ <<"workflow", c.w>> \in DOMAIN x.writes
            \/ /\ c.name \in {"InsertSignal", "CompleteActivity"}
               /\ Reference(c.w) \in x.locks /\ Exists(c.w)
<1>1. IsCall(c) /\ c.w # None /\ HasRun(x)
  BY DEF IsActive, IsSession, Stands
<1>2. c.w \in WorkflowIDs
  BY <1>1, CallNames
<1>3. /\ x.newTask = c.w
      /\ \/ c.name \in {"InsertSignal", "CompleteActivity"}
         \/ c.name = "InsertWorkflow" /\ DOMAIN x.writes # {}
  BY <1>1 DEF HasRun
<1>4. CASE c.name = "InsertWorkflow" /\ DOMAIN x.writes # {}
  <2>1. DOMAIN x.writes \subseteq {<<"workflow", c.w>>}
    BY <1>1, <1>4, InsertedRows, WritableRows DEF HasRun, InsertCalls
  <2> QED
    BY <1>2, <1>3, <1>4, <2>1
<1>5. CASE c.name \in {"InsertSignal", "CompleteActivity"}
  <2>1. Reference(c.w) \in x.locks
    <3>1. CASE c.name = "CompleteActivity"
      BY <1>1, <3>1 DEF HasRun
    <3>2. CASE c.name = "InsertSignal"
      <4> PICK first : first = First(c)
        OBVIOUS
      <4>1. x.todo # <<first>>
        OBVIOUS
      <4>2. first.row \in DOMAIN x.writes
        BY <1>1, <3>2, <4>1 DEF HasRun
      <4> QED
        BY <1>1, <3>2, <4>2 DEF HasRun
    <3> QED
      BY <1>5, <3>1, <3>2
  <2>2. Exists(c.w)
    BY <1>2, <2>1 DEF IsActive, Stands, LocksStand
  <2> QED
    BY <1>2, <1>3, <1>5, <2>1, <2>2
<1> QED
  BY <1>3, <1>4, <1>5

-----------------------------------------------------------------------------
(* What a commit does to the other sessions *)

\* A row that is written is one of the tables' rows.
LEMMA StoredRow ==
  ASSUME NEW x, IsActive(x), NEW row \in DOMAIN x.writes
  PROVE  \E table, id :
           /\ row = <<table, id>>
           /\ \/ table = "workflow" /\ id \in WorkflowIDs
              \/ table = "task" /\ id \in TaskIDs
              \/ table = "activity" /\ id \in ActivityKeys
              \/ table = "signal" /\ id \in SignalKeys
<1> PICK c : c = x.call
  OBVIOUS
<1>1. IsCall(c)
  BY DEF IsActive, IsSession
<1>2. CASE UpdateStands(x, row)
  <2>1. PICK table, id : \E mode \in {"update", "no_key_update"} :
          /\ row = <<table, id>>
          /\ Writes(c, table, id, mode)
          /\ table = "workflow" => id \in WorkflowIDs
          /\ table = "task" => id \in TaskIDs
          /\ table = "activity" => id \in ActivityKeys
          /\ table = "signal" => id \in SignalKeys
    BY <1>2, UpdatedRow
  <2>2. table \in {"workflow", "task", "activity", "signal"}
    BY <2>1 DEF Writes
  <2> QED
    BY <2>1, <2>2
<1>3. CASE InsertStands(x, row)
  <2>1. row = InsertedRow(c) /\ c.name \in {"InsertWorkflow", "InsertSignal", "InsertActivity"}
    BY <1>3 DEF InsertStands, InsertCalls
  <2>2. CASE c.name = "InsertWorkflow"
    <3>1. c.w \in WorkflowIDs
      BY <1>1, <2>2, StorageAssumption, CallNames
    <3>2. row = <<"workflow", c.w>>
      BY <2>1, <2>2, InsertedRows
    <3> QED
      BY <3>1, <3>2
  <2>3. CASE c.name \in {"InsertSignal", "InsertActivity"}
    BY <1>1, <2>1, <2>3, InsertedKeys
  <2> QED
    BY <2>1, <2>2, <2>3
<1> QED
  BY <1>2, <1>3 DEF IsActive, Stands, WritesStand

\* A row is written under a lock, but for a workflow that is inserted.
LEMMA WriteIsLocked ==
  ASSUME NEW x, IsActive(x), NEW c, c = x.call, NEW row \in DOMAIN x.writes
  PROVE  \/ c.name = "InsertWorkflow" /\ row = <<"workflow", c.w>> /\ c.w \in WorkflowIDs
         \/ \E lock \in x.locks : lock.row = row /\ lock.mode \in {"update", "no_key_update"}
<1>1. WriteLock(c, row).row = row /\ WriteLock(c, row).mode \in {"update", "no_key_update"}
  BY DEF WriteLock
<1>2. CASE UpdateStands(x, row)
  BY <1>1, <1>2 DEF UpdateStands
<1>3. CASE InsertStands(x, row) /\ c.name # "InsertWorkflow"
  BY <1>1, <1>3 DEF InsertStands
<1>4. CASE InsertStands(x, row) /\ c.name = "InsertWorkflow"
  <2>1. IsCall(c)
    BY DEF IsActive, IsSession
  <2>2. c.w \in WorkflowIDs
    BY <1>4, <2>1, CallNames
  <2>3. row = <<"workflow", c.w>>
    BY <1>4, InsertedRows DEF InsertStands
  <2> QED
    BY <1>4, <2>2, <2>3
<1> QED
  BY <1>2, <1>3, <1>4 DEF IsActive, Stands, WritesStand

\* No two sessions write a row.
LEMMA WrittenByOne ==
  ASSUME AtomicInv, NEW s \in Sessions, NEW r \in Sessions, r # s, Running(s), Running(r),
         NEW row \in DOMAIN session[s].writes
  PROVE  row \notin DOMAIN session[r].writes
<1> SUFFICES ASSUME row \in DOMAIN session[r].writes PROVE FALSE
  OBVIOUS
<1> PICK x, y : x = session[s] /\ y = session[r]
  OBVIOUS
<1>1. IsActive(x) /\ IsActive(y) /\ LocksAgree /\ InsertedIsOwn
  BY ActiveSession DEF AtomicInv, TransactionInv
<1>2. CASE x.call.name = "InsertWorkflow" /\ row = <<"workflow", x.call.w>>
           /\ x.call.w \in WorkflowIDs
  BY <1>1, <1>2 DEF InsertedIsOwn
<1>3. CASE y.call.name = "InsertWorkflow" /\ row = <<"workflow", y.call.w>>
           /\ y.call.w \in WorkflowIDs
  BY <1>1, <1>3 DEF InsertedIsOwn
<1>4. CASE /\ \E lock \in x.locks : lock.row = row /\ lock.mode \in {"update", "no_key_update"}
           /\ \E lock \in y.locks : lock.row = row /\ lock.mode \in {"update", "no_key_update"}
  BY <1>1, <1>4 DEF LocksAgree, Conflicts
<1> QED
  BY <1>1, <1>2, <1>3, <1>4, WriteIsLocked

\* The rows that another session has written stay as they are.
LEMMA OthersRowsStay ==
  ASSUME AtomicInv, NEW s \in Sessions, Commit(s), NEW r \in Sessions, r # s, Running(r),
         NEW y, y = session[r], NEW row \in DOMAIN y.writes
  PROVE  Same(row)
<1> PICK x : x = session[s]
  OBVIOUS
<1>1. Running(s) /\ CommittedTasks(x) /\ IsActive(y)
  BY CommitIs, ActiveSession
<1>2. row \notin DOMAIN x.writes
  BY <1>1, WrittenByOne
<1>3. PICK table, id :
           /\ row = <<table, id>>
           /\ \/ table = "workflow" /\ id \in WorkflowIDs
              \/ table = "task" /\ id \in TaskIDs
              \/ table = "activity" /\ id \in ActivityKeys
              \/ table = "signal" /\ id \in SignalKeys
  BY <1>1, StoredRow
<1>4. row[1] = table /\ row[2] = id
  BY <1>3, PairFields
<1>5. CASE table = "workflow"
  <2>1. workflows'[id] = Now(x, row, workflows[id])
    BY <1>3, <1>5, CommitIs
  <2> QED
    BY <1>2, <1>4, <1>5, <2>1 DEF Now, Same
<1>6. CASE table = "task"
  <2>1. TaskExists(id)
    BY <1>1, <1>3, <1>6, WrittenTask
  <2>2. id \notin FreeTasks
    BY <2>1 DEF TaskExists, FreeTasks
  <2>3. tasks'[id] = Now(x, row, tasks[id])
    BY <1>1, <1>3, <1>6, <2>2 DEF CommittedTasks
  <2> QED
    BY <1>2, <1>4, <1>6, <2>3 DEF Now, Same
<1>7. CASE table = "activity"
  <2>1. activities'[id] = Now(x, row, activities[id])
    BY <1>3, <1>7, CommitIs
  <2> QED
    BY <1>2, <1>4, <1>7, <2>1 DEF Now, Same
<1>8. CASE table = "signal"
  <2>1. signals'[id] = Now(x, row, signals[id])
    BY <1>3, <1>8, CommitIs
  <2> QED
    BY <1>2, <1>4, <1>8, <2>1 DEF Now, Same
<1> QED
  BY <1>3, <1>5, <1>6, <1>7, <1>8

LEMMA CommitKeepsWrites ==
  ASSUME AtomicInv, NEW s \in Sessions, Commit(s), NEW r \in Sessions, r # s, Running(r),
         NEW y, y = session[r]
  PROVE  WritesStand(y)'
<1>1. IsActive(y)
  BY ActiveSession
<1> SUFFICES ASSUME NEW row \in DOMAIN y.writes
             PROVE  InsertStands(y, row)' \/ UpdateStands(y, row)'
  BY DEF WritesStand
<1>2. Same(row)
  BY OthersRowsStay
<1>3. CASE UpdateStands(y, row)
  BY <1>1, <1>2, <1>3, UpdateStays
<1>4. CASE InsertStands(y, row)
  <2>1. \E id : \E table \in {"workflow", "signal", "activity"} : row = <<table, id>>
    BY <1>4, InsertedRows DEF InsertStands, InsertCalls
  <2>2. RowExists(row)' <=> RowExists(row)
    BY <1>2, <2>1, SameRowExists
  <2> QED
    BY <1>4, <2>2 DEF InsertStands
<1> QED
  BY <1>1, <1>3, <1>4 DEF IsActive, Stands, WritesStand

\* A workflow that one session refers to is not deleted by another.
LEMMA ReferenceProtects ==
  ASSUME AtomicInv, NEW s \in Sessions, NEW r \in Sessions, r # s, Running(r),
         NEW w \in WorkflowIDs, Reference(w) \in session[s].locks,
         session[r].call.name = "DeleteWorkflows"
  PROVE  <<"workflow", w>> \notin DOMAIN session[r].writes
<1> SUFFICES ASSUME <<"workflow", w>> \in DOMAIN session[r].writes PROVE FALSE
  OBVIOUS
<1> PICK y : y = session[r]
  OBVIOUS
<1> PICK held, other : held = Reference(w) /\ other = Request("workflow", w, "update")
  OBVIOUS
<1>1. IsActive(y)
  BY ActiveSession
<1>2. DeletesRow(y, "workflow", w)
  BY <1>1, WrittenWorkflow DEF TaskCalls
<1>3. other \in y.locks
  BY <1>2 DEF DeletesRow
<1>4. held.row = other.row /\ Conflicts(held.mode, other.mode)
  BY RequestFields DEF Reference, Conflicts
<1> QED
  BY <1>3, <1>4 DEF AtomicInv, TransactionInv, LocksAgree

LEMMA CommitKeepsLocks ==
  ASSUME AtomicInv, NEW s \in Sessions, Commit(s), NEW r \in Sessions, r # s, Running(r),
         NEW y, y = session[r]
  PROVE  LocksStand(y)'
<1> PICK x, c : x = session[s] /\ c = x.call
  OBVIOUS
<1>1. Running(s) /\ LocksStand(y) /\ LocksAgree
  BY CommitIs, ActiveSession DEF IsActive, Stands, AtomicInv, TransactionInv
<1>2. ASSUME NEW w \in WorkflowIDs, Reference(w) \in y.locks
      PROVE  Exists(w)'
  <2> PICK row : row = <<"workflow", w>>
    OBVIOUS
  <2>1. Exists(w)
    BY <1>1, <1>2 DEF LocksStand
  <2>2. ~(c.name = "DeleteWorkflows" /\ row \in DOMAIN x.writes)
    BY <1>1, <1>2, ReferenceProtects
  <2>3. WorkflowMoves(x, w, row)
    BY WorkflowAfter
  <2>4. workflows'[w] = workflows[w] \/ workflows[w].status = "none" \/ Exists(w)'
    BY <2>2, <2>3 DEF WorkflowMoves
  <2> QED
    BY <2>1, <2>4 DEF Exists
<1>3. ASSUME NEW key \in RequestKeys, Request("request", key, "update") \in y.locks,
             NEW w \in WorkflowIDs, Exists(w)'
      PROVE  workflows'[w].key # key
  <2>1. Exists(w) => workflows[w].key # key
    BY <1>1, <1>3 DEF LocksStand
  <2>2. ~(c.id = key /\ Request("request", c.id, "update") \in x.locks)
    <3> PICK held : held = Request("request", key, "update")
      OBVIOUS
    <3>1. Conflicts(held.mode, held.mode)
      BY RequestFields DEF Conflicts
    <3> QED
      BY <1>1, <1>3, <3>1 DEF LocksAgree
  <2>3. CASE workflows'[w] = workflows[w]
    BY <1>3, <2>1, <2>3 DEF Exists
  <2>4. CASE Exists(w) /\ workflows'[w].key = workflows[w].key
    BY <2>1, <2>4
  <2>5. CASE /\ Request("request", c.id, "update") \in x.locks
             /\ workflows'[w] =
                  [status |-> "running", key |-> c.id, attempts |-> 1, error |-> FALSE]
    BY <2>2, <2>5
  <2>6. WorkflowMoves(x, w, <<"workflow", w>>)
    BY WorkflowAfter
  <2> QED
    BY <1>3, <2>3, <2>4, <2>5, <2>6 DEF WorkflowMoves
<1> QED
  BY <1>2, <1>3 DEF LocksStand

\* The workflows that y deletes.
DeletedBy(y) == {w \in WorkflowIDs : <<"workflow", w>> \in DOMAIN y.writes}

\* A row that another call inserts or deletes does not refer to a workflow that
\* y deletes.
LEMMA OthersReferElsewhere ==
  ASSUME AtomicInv, NEW s \in Sessions, Commit(s), NEW r \in Sessions, r # s, Running(r),
         NEW x, x = session[s], NEW c, c = x.call,
         NEW y, y = session[r], y.call.name = "DeleteWorkflows"
  PROVE  /\ \A w \in WorkflowIDs : Reference(w) \in x.locks => w \notin DeletedBy(y)
         /\ x.newTask \notin DeletedBy(y)
         /\ c.name = "DeleteWorkflows" =>
              /\ \A t \in TaskIDs : <<"task", t>> \in DOMAIN x.writes =>
                   tasks[t].wf \notin DeletedBy(y)
              /\ \A k \in ActivityKeys : <<"activity", k>> \in DOMAIN x.writes =>
                   activities[k].wf \notin DeletedBy(y)
              /\ \A g \in SignalKeys : <<"signal", g>> \in DOMAIN x.writes =>
                   signals[g].wf \notin DeletedBy(y)
<1>1. /\ Running(s) /\ IsActive(x) /\ x.todo = <<>> /\ x.script = <<>>
  BY CommitIs
<1>2. \A w \in WorkflowIDs : Reference(w) \in x.locks => w \notin DeletedBy(y)
  BY ReferenceProtects DEF DeletedBy
<1>3. \A w \in WorkflowIDs : <<"workflow", w>> \in DOMAIN x.writes => w \notin DeletedBy(y)
  BY <1>1, WrittenByOne DEF DeletedBy
<1>4. x.newTask \notin DeletedBy(y)
  <2>1. CASE x.newTask = None
    BY <2>1, StorageAssumption DEF StorageAssumption, DeletedBy
  <2>2. CASE x.newTask # None
    BY <1>1, <1>2, <1>3, <2>2, NewTaskRefers
  <2> QED
    BY <2>1, <2>2
<1>5. ASSUME c.name = "DeleteWorkflows"
      PROVE  /\ \A t \in TaskIDs : <<"task", t>> \in DOMAIN x.writes =>
                   tasks[t].wf \notin DeletedBy(y)
             /\ \A k \in ActivityKeys : <<"activity", k>> \in DOMAIN x.writes =>
                   activities[k].wf \notin DeletedBy(y)
             /\ \A g \in SignalKeys : <<"signal", g>> \in DOMAIN x.writes =>
                   signals[g].wf \notin DeletedBy(y)
  <2>1. CascadeStands(x)
    BY <1>1, <1>5 DEF IsActive, Stands
  <2>2. /\ \A t \in TaskIDs : <<"task", t>> \in Concerned(x) <=> tasks[t].wf \in DeletedBy(x)
        /\ \A k \in ActivityKeys :
             <<"activity", k>> \in Concerned(x) <=> activities[k].wf \in DeletedBy(x)
        /\ \A g \in SignalKeys :
             <<"signal", g>> \in Concerned(x) <=> signals[g].wf \in DeletedBy(x)
    BY <1>1, <2>1 DEF CascadeStands, DeletedBy
  <2>3. \A w \in DeletedBy(x) : w \notin DeletedBy(y)
    BY <1>3 DEF DeletedBy
  <2>4. DOMAIN x.writes \subseteq Concerned(x)
    BY DEF Concerned
  <2> QED
    BY <2>2, <2>3, <2>4
<1> QED
  BY <1>2, <1>4, <1>5

\* The rows that refer to the workflows that y deletes are the same after.
LEMMA CommitKeepsReferences ==
  ASSUME AtomicInv, NEW s \in Sessions, Commit(s), NEW r \in Sessions, r # s, Running(r),
         NEW y, y = session[r], y.call.name = "DeleteWorkflows"
  PROVE  /\ \A t \in TaskIDs : tasks'[t].wf \in DeletedBy(y) <=> tasks[t].wf \in DeletedBy(y)
         /\ \A k \in ActivityKeys :
              activities'[k].wf \in DeletedBy(y) <=> activities[k].wf \in DeletedBy(y)
         /\ \A g \in SignalKeys :
              signals'[g].wf \in DeletedBy(y) <=> signals[g].wf \in DeletedBy(y)
<1> PICK x, c, D : x = session[s] /\ c = x.call /\ D = DeletedBy(y)
  OBVIOUS
<1>1. /\ \A w \in WorkflowIDs : Reference(w) \in x.locks => w \notin D
      /\ x.newTask \notin D
      /\ c.name = "DeleteWorkflows" =>
           /\ \A t \in TaskIDs : <<"task", t>> \in DOMAIN x.writes => tasks[t].wf \notin D
           /\ \A k \in ActivityKeys :
                <<"activity", k>> \in DOMAIN x.writes => activities[k].wf \notin D
           /\ \A g \in SignalKeys :
                <<"signal", g>> \in DOMAIN x.writes => signals[g].wf \notin D
  BY OthersReferElsewhere
<1>2. None \notin D /\ ForeignKeys /\ CommittedTasks(x)
  BY CommitIs, StorageAssumption DEF StorageAssumption, DeletedBy, AtomicInv, TablesFit
<1>3. ASSUME NEW t \in TaskIDs
      PROVE  tasks'[t].wf \in D <=> tasks[t].wf \in D
  <2> PICK row : row = <<"task", t>>
    OBVIOUS
  <2>1. CASE tasks'[t] = Now(x, row, tasks[t])
    <3>1. TaskMoves(x, t, row)
      BY <2>1, TaskAfter
    <3> QED
      BY <1>1, <1>2, <3>1 DEF TaskMoves
  <2>2. CASE t \in FreeTasks /\ tasks'[t] = [status |-> "pending", wf |-> x.newTask]
    <3>1. ~TaskExists(t)
      BY <2>2 DEF FreeTasks, TaskExists
    <3>2. tasks[t].wf = None /\ tasks'[t].wf = x.newTask
      BY <1>2, <2>2, <3>1 DEF ForeignKeys
    <3> QED
      BY <1>1, <1>2, <3>2
  <2> QED
    BY <1>2, <2>1, <2>2 DEF CommittedTasks
<1>4. ASSUME NEW k \in ActivityKeys
      PROVE  activities'[k].wf \in D <=> activities[k].wf \in D
  <2> PICK row : row = <<"activity", k>>
    OBVIOUS
  <2>1. ActivityMoves(x, k, row)
    BY ActivityAfter
  <2>2. activities[k].status = "none" => activities[k].wf = None
    BY <1>2 DEF ForeignKeys
  <2> QED
    BY <1>1, <1>2, <2>1, <2>2 DEF ActivityMoves
<1>5. ASSUME NEW g \in SignalKeys
      PROVE  signals'[g].wf \in D <=> signals[g].wf \in D
  <2> PICK row : row = <<"signal", g>>
    OBVIOUS
  <2>1. SignalMoves(x, g, row)
    BY SignalAfter
  <2> QED
    BY <1>1, <1>2, <2>1 DEF SignalMoves
<1> QED
  BY <1>3, <1>4, <1>5

LEMMA CommitKeepsCascade ==
  ASSUME AtomicInv, NEW s \in Sessions, Commit(s), NEW r \in Sessions, r # s, Running(r),
         NEW y, y = session[r], y.call.name = "DeleteWorkflows"
  PROVE  CascadeStands(y)'
<1> PICK x, rows, D : x = session[s] /\ rows = Concerned(y) /\ D = DeletedBy(y)
  OBVIOUS
<1>1. CascadeStands(y)
  BY ActiveSession DEF IsActive, Stands
<1>2. ASSUME NEW w \in WorkflowIDs, <<"workflow", w>> \in rows
      PROVE  workflows'[w].status \in {"completed", "failed", "deleted"}
  <2>1. workflows[w].status \in {"completed", "failed", "deleted"}
    BY <1>1, <1>2 DEF CascadeStands
  <2>2. WorkflowMoves(x, w, <<"workflow", w>>)
    BY WorkflowAfter
  <2>3. Exists(w) => workflows[w].status \in {"completed", "failed"}
    BY <2>1 DEF Exists
  <2>4. Deleted("workflow").status = "deleted"
    BY DEF Deleted
  <2> QED
    BY <2>1, <2>2, <2>3, <2>4 DEF WorkflowMoves
<1>3. y.script # <<>> => \A row \in rows : row[1] = "workflow"
  BY <1>1 DEF CascadeStands
<1>4. y.script = <<>> =>
        /\ \A i \in DOMAIN y.todo : y.todo[i].row[1] # "workflow"
        /\ \A t \in TaskIDs : <<"task", t>> \in rows <=> tasks'[t].wf \in D
        /\ \A k \in ActivityKeys : <<"activity", k>> \in rows <=> activities'[k].wf \in D
        /\ \A g \in SignalKeys : <<"signal", g>> \in rows <=> signals'[g].wf \in D
  <2>1. y.script = <<>> =>
        /\ \A i \in DOMAIN y.todo : y.todo[i].row[1] # "workflow"
        /\ \A t \in TaskIDs : <<"task", t>> \in rows <=> tasks[t].wf \in D
        /\ \A k \in ActivityKeys : <<"activity", k>> \in rows <=> activities[k].wf \in D
        /\ \A g \in SignalKeys : <<"signal", g>> \in rows <=> signals[g].wf \in D
    BY <1>1 DEF CascadeStands, DeletedBy
  <2> QED
    BY <2>1, CommitKeepsReferences
<1> QED
  BY <1>2, <1>3, <1>4 DEF CascadeStands, DeletedBy

LEMMA CommitKeepsOthers ==
  ASSUME AtomicInv, NEW s \in Sessions, Commit(s), NEW r \in Sessions, r # s, Running(r),
         NEW y, y = session[r]
  PROVE  Stands(y)'
<1>1. IsActive(y)
  BY ActiveSession
<1>2. WritesStand(y)' /\ LocksStand(y)'
  BY CommitKeepsWrites, CommitKeepsLocks
<1>3. y.call.name = "DeleteWorkflows" => CascadeStands(y)'
  BY CommitKeepsCascade
<1> QED
  BY <1>1, <1>2, <1>3 DEF IsActive, Stands

-----------------------------------------------------------------------------
(* A commit keeps the foreign keys *)

\* A workflow that is there stays unless a DELETE took it, and the rows that
\* refer to it with it.
LEMMA CommitKeepsTables ==
  ASSUME AtomicInv, NEW s \in Sessions, Commit(s)
  PROVE  TablesFit'
<1> PICK x, c, D : x = session[s] /\ c = x.call /\ D = DeletedBy(x)
  OBVIOUS
<1>1. /\ Running(s) /\ IsActive(x) /\ x.todo = <<>> /\ x.script = <<>> /\ CommittedTasks(x)
      /\ TablesFit /\ ForeignKeys
  BY CommitIs DEF AtomicInv, TablesFit
<1>2. ASSUME NEW w \in WorkflowIDs, Exists(w), ~Exists(w)'
      PROVE  c.name = "DeleteWorkflows" /\ w \in D
  <2>1. WorkflowMoves(x, w, <<"workflow", w>>)
    BY WorkflowAfter
  <2>2. workflows'[w] # workflows[w] /\ workflows[w].status # "none"
    BY <1>2 DEF Exists
  <2> QED
    BY <1>2, <2>1, <2>2 DEF WorkflowMoves, DeletedBy
<1>3. c.name = "DeleteWorkflows" =>
        /\ \A t \in TaskIDs : tasks[t].wf \in D => <<"task", t>> \in DOMAIN x.writes
        /\ \A k \in ActivityKeys : activities[k].wf \in D => <<"activity", k>> \in DOMAIN x.writes
        /\ \A g \in SignalKeys : signals[g].wf \in D => <<"signal", g>> \in DOMAIN x.writes
  <2>1. c.name = "DeleteWorkflows" => CascadeStands(x)
    BY <1>1 DEF IsActive, Stands
  <2>2. DOMAIN x.todo = {}
    BY <1>1
  <2>3. Concerned(x) = DOMAIN x.writes
    BY <2>2 DEF Concerned
  <2> QED
    BY <1>1, <2>1, <2>3 DEF CascadeStands, DeletedBy
<1>4. ASSUME NEW w \in WorkflowIDs, Exists(w), Reference(w) \in x.locks,
             c.name # "DeleteWorkflows"
      PROVE  Exists(w)'
  BY <1>2, <1>4
<1>5. ASSUME NEW t \in TaskIDs
      PROVE  IF TaskExists(t)' THEN tasks'[t].wf \in WorkflowIDs /\ Exists(tasks[t].wf)'
             ELSE tasks'[t].wf = None
  <2> PICK row : row = <<"task", t>>
    OBVIOUS
  <2>1. /\ TaskExists(t) => tasks[t].wf \in WorkflowIDs /\ Exists(tasks[t].wf)
        /\ ~TaskExists(t) => tasks[t].wf = None
    BY <1>1 DEF ForeignKeys
  <2>2. CASE tasks'[t] = Now(x, row, tasks[t])
    <3>1. TaskMoves(x, t, row)
      BY <2>2, TaskAfter
    <3>2. CASE TaskExists(t) /\ TaskExists(t)' /\ tasks'[t].wf = tasks[t].wf
               /\ c.name \in TaskCalls \cup {"ClaimTasks"}
      <4>1. c.name # "DeleteWorkflows"
        BY <3>2 DEF TaskCalls
      <4> QED
        BY <1>2, <2>1, <3>2, <4>1
    <3>3. CASE ~TaskExists(t)' /\ tasks'[t].wf = None
      BY <3>3
    <3>4. CASE row \notin DOMAIN x.writes /\ tasks'[t] = tasks[t]
      <4>1. TaskExists(t)' <=> TaskExists(t)
        BY <3>4 DEF TaskExists
      <4>2. TaskExists(t) => Exists(tasks[t].wf)'
        BY <1>2, <1>3, <2>1, <3>4
      <4> QED
        BY <2>1, <3>4, <4>1, <4>2
    <3> QED
      BY <3>1, <3>2, <3>3, <3>4 DEF TaskMoves
  <2>3. CASE tasks'[t] = [status |-> "pending", wf |-> x.newTask] /\ x.newTask # None
    <3>1. TaskExists(t)' /\ tasks'[t].wf = x.newTask
      BY <2>3 DEF TaskExists
    <3>2. /\ x.newTask = c.w /\ c.w \in WorkflowIDs
          /\ \/ c.name = "InsertWorkflow" /\ <<"workflow", c.w>> \in DOMAIN x.writes
             \/ c.name \in {"InsertSignal", "CompleteActivity"} /\ Exists(c.w)
      BY <1>1, <2>3, NewTaskRefers
    <3>3. Exists(c.w)'
      <4>1. CASE c.name \in {"InsertSignal", "CompleteActivity"} /\ Exists(c.w)
        BY <1>2, <3>2, <4>1
      <4>2. CASE c.name = "InsertWorkflow" /\ <<"workflow", c.w>> \in DOMAIN x.writes
        <5>1. WorkflowMoves(x, c.w, <<"workflow", c.w>>)
          BY <3>2, WorkflowAfter
        <5>2. workflows'[c.w].status = "running" \/ Exists(c.w)'
          BY <4>2, <5>1 DEF WorkflowMoves
        <5> QED
          BY <5>2 DEF Exists
      <4> QED
        BY <3>2, <4>1, <4>2
    <3> QED
      BY <3>1, <3>2, <3>3
  <2> QED
    BY <1>1, <2>2, <2>3 DEF CommittedTasks
<1>6. ASSUME NEW k \in ActivityKeys
      PROVE  IF activities'[k].status # "none"
             THEN activities'[k].wf \in WorkflowIDs /\ Exists(activities[k].wf)'
             ELSE activities'[k].wf = None
  <2> PICK row : row = <<"activity", k>>
    OBVIOUS
  <2>1. /\ activities[k].status # "none" =>
             activities[k].wf \in WorkflowIDs /\ Exists(activities[k].wf)
        /\ activities[k].status = "none" => activities[k].wf = None
    BY <1>1 DEF ForeignKeys
  <2>2. ActivityMoves(x, k, row)
    BY ActivityAfter
  <2>3. CASE row \notin DOMAIN x.writes /\ activities'[k] = activities[k]
    BY <1>2, <1>3, <2>1, <2>3
  <2>4. CASE /\ activities'[k].status # "none" /\ activities'[k].wf = c.w /\ c.w \in WorkflowIDs
             /\ Exists(c.w) /\ c.name = "InsertActivity"
    BY <1>2, <2>4
  <2>5. CASE activities'[k].status = "none" /\ activities'[k].wf = None
    BY <2>5
  <2>6. CASE /\ activities[k].status # "none" /\ activities'[k].status # "none"
             /\ activities'[k].wf = activities[k].wf
             /\ c.name \in ActivityCalls \cup {"ClaimActivities"}
    <3>1. c.name # "DeleteWorkflows"
      BY <2>6 DEF ActivityCalls
    <3> QED
      BY <1>2, <2>1, <2>6, <3>1
  <2> QED
    BY <2>2, <2>3, <2>4, <2>5, <2>6 DEF ActivityMoves
<1>7. ASSUME NEW g \in SignalKeys, signals'[g].wf # None
      PROVE  Exists(signals[g].wf)'
  <2> PICK row : row = <<"signal", g>>
    OBVIOUS
  <2>1. signals[g].wf # None => signals[g].wf \in WorkflowIDs /\ Exists(signals[g].wf)
    BY <1>1 DEF ForeignKeys, AtomicInv, TransactionInv, StorageTypeOK, SignalRow
  <2>2. SignalMoves(x, g, row)
    BY SignalAfter
  <2>3. CASE row \notin DOMAIN x.writes /\ signals'[g] = signals[g]
    BY <1>2, <1>3, <1>7, <2>1, <2>3
  <2>4. CASE /\ signals'[g].wf = c.w /\ c.w \in WorkflowIDs
             /\ Exists(c.w) /\ c.name = "InsertSignal"
    BY <1>2, <2>4
  <2> QED
    BY <1>7, <2>2, <2>3, <2>4 DEF SignalMoves
<1>8. ASSUME NEW w \in WorkflowIDs, workflows'[w].status = "none"
      PROVE  workflows'[w].attempts = 1 /\ ~workflows'[w].error
  <2>1. WorkflowMoves(x, w, <<"workflow", w>>)
    BY WorkflowAfter
  <2>2. Deleted("workflow").status # "none" /\ ~Exists(w)'
    BY <1>8 DEF Deleted, Exists
  <2>3. workflows'[w] = workflows[w]
    BY <1>8, <2>1, <2>2 DEF WorkflowMoves
  <2> QED
    BY <1>1, <1>8, <2>3 DEF TablesFit
<1> QED
  BY <1>5, <1>6, <1>7, <1>8 DEF TablesFit, ForeignKeys

-----------------------------------------------------------------------------
(* What a commit does to each table *)

LEMMA OneChanges ==
  ASSUME NEW S, NEW R, NEW f \in [S -> R], NEW g \in [S -> R], NEW e \in S,
         \A d \in S \ {e} : g[d] = f[d]
  PROVE  g = [f EXCEPT ![e] = g[e]]
OBVIOUS

LEMMA NoneChanges ==
  ASSUME NEW S, NEW R, NEW f \in [S -> R], NEW g \in [S -> R], \A d \in S : g[d] = f[d]
  PROVE  g = f
OBVIOUS

\* The rows that a call on one row has written are those it is about.
LEMMA WritesOnly ==
  ASSUME NEW x, IsActive(x), NEW c, c = x.call, c.w # None
  PROVE  /\ \A w : <<"workflow", w>> \in DOMAIN x.writes => w = c.w
         /\ \A t : <<"task", t>> \in DOMAIN x.writes => t = c.id
         /\ c.name # "InsertActivity" =>
              \A k : <<"activity", k>> \in DOMAIN x.writes => k = c.id
<1>1. IsCall(c) /\ HasRun(x)
  BY DEF IsActive, IsSession, Stands
<1>2. DOMAIN x.writes \subseteq Writable(c)
  BY <1>1 DEF HasRun
<1>3. ASSUME NEW table \in {"workflow", "task", "activity"}, NEW id, NEW row, row = <<table, id>>,
             row \in DOMAIN x.writes
      PROVE  /\ table = "workflow" => id = c.w
             /\ table = "task" => id = c.id
             /\ (table = "activity" /\ c.name # "InsertActivity") => id = c.id
  <2>1. row \in Writable(c)
    BY <1>2, <1>3
  <2>2. CASE c.name \in InsertCalls
    <3>1. row = InsertedRow(c)
      BY <1>1, <2>1, <2>2, WritableRows
    <3>2. CASE c.name = "InsertWorkflow"
      <4>1. row = <<"workflow", c.w>>
        BY <3>1, <3>2, InsertedRows
      <4> QED
        BY <1>3, <4>1, PairsAgree
    <3>3. CASE c.name = "InsertSignal"
      <4>1. PICK g : row = <<"signal", g>>
        BY <3>1, <3>3, InsertedRows
      <4> QED
        BY <1>3, <4>1, PairsAgree
    <3>4. CASE c.name = "InsertActivity"
      <4>1. PICK k : row = <<"activity", k>>
        BY <3>1, <3>4, InsertedRows
      <4> QED
        BY <1>3, <3>4, <4>1, PairsAgree
    <3> QED
      BY <2>2, <3>2, <3>3, <3>4 DEF InsertCalls
  <2>3. CASE c.name \notin InsertCalls
    <3>1. \/ row = <<"workflow", c.w>>
          \/ row = <<"task", c.id>>
          \/ row = <<"activity", c.id>>
      BY <1>1, <2>1, <2>3, WritableRows, CallNames DEF InsertCalls, TaskCalls
    <3>2. CASE row = <<"workflow", c.w>>
      BY <1>3, <3>2, PairsAgree
    <3>3. CASE row = <<"task", c.id>>
      BY <1>3, <3>3, PairsAgree
    <3>4. CASE row = <<"activity", c.id>>
      BY <1>3, <3>4, PairsAgree
    <3> QED
      BY <3>1, <3>2, <3>3, <3>4
  <2> QED
    BY <2>2, <2>3
<1> QED
  BY <1>3

\* What a call on one row has done when it commits.
LEMMA HasRunAtCommit ==
  ASSUME NEW x, IsActive(x), x.todo = <<>>, x.script = <<>>, NEW c, c = x.call, c.w # None
  PROVE  /\ c.name = "CompleteWorkflow" => <<"workflow", c.w>> \in DOMAIN x.writes
         /\ c.name \in TaskCalls =>
              <<"task", c.id>> \in DOMAIN x.writes /\ <<"workflow", c.w>> \in DOMAIN x.writes
         /\ c.name \in ActivityCalls => <<"activity", c.id>> \in DOMAIN x.writes
         /\ c.name = "FailActivity" => <<"workflow", c.w>> \in DOMAIN x.writes
         /\ c.name = "InsertSignal" => InsertedRow(c) \in DOMAIN x.writes
         /\ c.name \in InsertCalls =>
              DOMAIN x.writes = {} \/ DOMAIN x.writes = {InsertedRow(c)}
         /\ x.newTask = IF \/ c.name \in {"InsertSignal", "CompleteActivity"}
                           \/ c.name = "InsertWorkflow" /\ DOMAIN x.writes # {}
                        THEN c.w ELSE None
<1> PICK want, first : want = First(c) /\ first = want.row
  OBVIOUS
<1>1. IsCall(c) /\ HasRun(x)
  BY DEF IsActive, IsSession, Stands
<1>2. x.todo # <<want>>
  OBVIOUS
<1>3. /\ c.name \notin {"InsertWorkflow", "InsertActivity"} => first \in DOMAIN x.writes
      /\ c.name \in TaskCalls \cup {"FailActivity"} => <<"workflow", c.w>> \in DOMAIN x.writes
      /\ x.newTask = IF \/ c.name \in {"InsertSignal", "CompleteActivity"}
                        \/ c.name = "InsertWorkflow" /\ DOMAIN x.writes # {}
                     THEN c.w ELSE None
      /\ DOMAIN x.writes \subseteq Writable(c)
  BY <1>1, <1>2 DEF HasRun
<1>4. /\ c.name = "CompleteWorkflow" => want = Request("workflow", c.w, "no_key_update")
      /\ c.name \in TaskCalls => want = Request("task", c.id, "no_key_update")
      /\ c.name \in ActivityCalls => want = Request("activity", c.id, "no_key_update")
  BY <1>1, FirstRows
<1>5. /\ c.name = "CompleteWorkflow" => first = <<"workflow", c.w>>
      /\ c.name \in TaskCalls => first = <<"task", c.id>>
      /\ c.name \in ActivityCalls => first = <<"activity", c.id>>
  BY <1>4, RequestFields
<1>6. c.name = "InsertSignal" => first = InsertedRow(c)
  <2> HAVE c.name = "InsertSignal"
  <2>1. PICK g : InsertedRow(c) = <<"signal", g>> /\ want = Request("signal", g, "insert")
    BY InsertedRows
  <2> QED
    BY <2>1, RequestFields
<1>7. c.name \in InsertCalls => Writable(c) = {InsertedRow(c)}
  BY <1>1, WritableRows
<1>8. c.name \in InsertCalls => DOMAIN x.writes = {} \/ DOMAIN x.writes = {InsertedRow(c)}
  BY <1>3, <1>7
<1> QED
  BY <1>3, <1>5, <1>6, <1>8 DEF TaskCalls, ActivityCalls

\* A commit of x, with what is known before and after it.
Commits(s, x) ==
  /\ AtomicInv /\ StorageTypeOK /\ StorageTypeOK' /\ s \in Sessions /\ Commit(s)
  /\ x = session[s] /\ IsActive(x) /\ IsCall(x.call) /\ x.todo = <<>> /\ x.script = <<>>

LEMMA CommitsWhenDone ==
  ASSUME AtomicInv, TransactionInv', NEW s \in Sessions, Commit(s), NEW x, x = session[s]
  PROVE  Commits(s, x)
BY CommitIs DEF Commits, AtomicInv, TransactionInv

\* The tables that a call does not write, and those where it writes one row.
LEMMA WorkflowsAfter ==
  ASSUME NEW s, NEW x, Commits(s, x), NEW c, c = x.call
  PROVE  /\ (\A w \in WorkflowIDs : <<"workflow", w>> \notin DOMAIN x.writes) =>
              workflows' = workflows
         /\ c.w # None => workflows' = [workflows EXCEPT ![c.w] = workflows'[c.w]]
<1>1. \A w \in WorkflowIDs : WorkflowMoves(x, w, <<"workflow", w>>)
  BY WorkflowAfter DEF Commits
<1>2. /\ workflows \in [WorkflowIDs -> WorkflowRow]
      /\ workflows' \in [WorkflowIDs -> WorkflowRow]
  BY DEF Commits, StorageTypeOK
<1>3. \A w \in WorkflowIDs : <<"workflow", w>> \notin DOMAIN x.writes =>
        workflows'[w] = workflows[w]
  BY <1>1 DEF WorkflowMoves
<1>4. ASSUME \A w \in WorkflowIDs : <<"workflow", w>> \notin DOMAIN x.writes
      PROVE  workflows' = workflows
  <2>1. \A w \in WorkflowIDs : workflows'[w] = workflows[w]
    BY <1>3, <1>4
  <2> QED
    BY <1>2, <2>1, NoneChanges
<1>5. c.w # None => workflows' = [workflows EXCEPT ![c.w] = workflows'[c.w]]
  <2> HAVE c.w # None
  <2>1. c.w \in WorkflowIDs
    BY CallNames DEF Commits
  <2>2. \A w : <<"workflow", w>> \in DOMAIN x.writes => w = c.w
    BY WritesOnly DEF Commits
  <2>3. \A w \in WorkflowIDs \ {c.w} : workflows'[w] = workflows[w]
    BY <1>3, <2>2
  <2> QED
    BY <1>2, <2>1, <2>3, OneChanges
<1> QED
  BY <1>4, <1>5

LEMMA ActivitiesAfter ==
  ASSUME NEW s, NEW x, Commits(s, x)
  PROVE  /\ x.call.name \notin ActivityCalls \cup {"InsertActivity", "ClaimActivities",
                                                   "DeleteWorkflows"} =>
              activities' = activities
         /\ DOMAIN x.writes = {} => activities' = activities
         /\ \A k \in ActivityKeys :
              (\A id \in ActivityKeys \ {k} : <<"activity", id>> \notin DOMAIN x.writes) =>
                activities' = [activities EXCEPT ![k] = activities'[k]]
<1>1. \A k \in ActivityKeys : ActivityMoves(x, k, <<"activity", k>>)
  BY ActivityAfter DEF Commits
<1>2. /\ activities \in [ActivityKeys -> ActivityRow]
      /\ activities' \in [ActivityKeys -> ActivityRow]
  BY DEF Commits, StorageTypeOK
<1>3. ASSUME \/ DOMAIN x.writes = {}
             \/ x.call.name \notin ActivityCalls \cup {"InsertActivity", "ClaimActivities",
                                                      "DeleteWorkflows"}
      PROVE  activities' = activities
  <2>1. \A k \in ActivityKeys : activities'[k] = activities[k]
    BY <1>1, <1>3 DEF ActivityMoves
  <2> QED
    BY <1>2, <2>1, NoneChanges
<1>4. ASSUME NEW k \in ActivityKeys,
             \A id \in ActivityKeys \ {k} : <<"activity", id>> \notin DOMAIN x.writes
      PROVE  activities' = [activities EXCEPT ![k] = activities'[k]]
  <2>1. \A id \in ActivityKeys \ {k} : activities'[id] = activities[id]
    BY <1>1, <1>4 DEF ActivityMoves
  <2> QED
    BY <1>2, <2>1, OneChanges
<1> QED
  BY <1>3, <1>4

LEMMA SignalsAfter ==
  ASSUME NEW s, NEW x, Commits(s, x)
  PROVE  /\ x.call.name \notin {"InsertSignal", "DeleteWorkflows"} => signals' = signals
         /\ \A g \in SignalKeys :
              (\A id \in SignalKeys \ {g} : <<"signal", id>> \notin DOMAIN x.writes) =>
                signals' = [signals EXCEPT ![g] = signals'[g]]
<1>1. \A g \in SignalKeys : SignalMoves(x, g, <<"signal", g>>)
  BY SignalAfter DEF Commits
<1>2. signals \in [SignalKeys -> SignalRow] /\ signals' \in [SignalKeys -> SignalRow]
  BY DEF Commits, StorageTypeOK
<1>3. ASSUME x.call.name \notin {"InsertSignal", "DeleteWorkflows"}
      PROVE  signals' = signals
  <2>1. \A g \in SignalKeys : signals'[g] = signals[g]
    BY <1>1, <1>3 DEF SignalMoves
  <2> QED
    BY <1>2, <2>1, NoneChanges
<1>4. ASSUME NEW g \in SignalKeys,
             \A id \in SignalKeys \ {g} : <<"signal", id>> \notin DOMAIN x.writes
      PROVE  signals' = [signals EXCEPT ![g] = signals'[g]]
  <2>1. \A id \in SignalKeys \ {g} : signals'[id] = signals[id]
    BY <1>1, <1>4 DEF SignalMoves
  <2> QED
    BY <1>2, <2>1, OneChanges
<1> QED
  BY <1>3, <1>4

LEMMA TasksAfter ==
  ASSUME NEW s, NEW x, Commits(s, x)
  PROVE  /\ x.newTask = None => \A t \in TaskIDs : TaskMoves(x, t, <<"task", t>>)
         /\ (x.newTask = None /\ \A t \in TaskIDs : <<"task", t>> \notin DOMAIN x.writes) =>
              tasks' = tasks
         /\ (x.newTask # None /\ \A t \in TaskIDs : <<"task", t>> \notin DOMAIN x.writes) =>
              insertWorkflowTask(x.newTask, TRUE)
<1>1. CommittedTasks(x)
  BY CommitIs DEF Commits
<1>2. tasks \in [TaskIDs -> TaskRow] /\ tasks' \in [TaskIDs -> TaskRow]
  BY DEF Commits, StorageTypeOK
<1>3. ASSUME x.newTask = None, NEW t \in TaskIDs
      PROVE  TaskMoves(x, t, <<"task", t>>)
  <2>1. tasks'[t] = Now(x, <<"task", t>>, tasks[t])
    BY <1>1, <1>3 DEF CommittedTasks
  <2> QED
    BY <2>1, TaskAfter DEF Commits
<1>4. ASSUME x.newTask = None, \A t \in TaskIDs : <<"task", t>> \notin DOMAIN x.writes
      PROVE  tasks' = tasks
  <2>1. \A t \in TaskIDs : tasks'[t] = tasks[t]
    BY <1>1, <1>4 DEF CommittedTasks, Now
  <2> QED
    BY <1>2, <2>1, NoneChanges
<1>5. ASSUME x.newTask # None, \A t \in TaskIDs : <<"task", t>> \notin DOMAIN x.writes
      PROVE  insertWorkflowTask(x.newTask, TRUE)
  <2>1. PICK n \in FreeTasks :
          /\ \A u \in FreeTasks : n <= u
          /\ tasks'[n] = [status |-> "pending", wf |-> x.newTask]
          /\ \A t \in TaskIDs \ {n} : tasks'[t] = Now(x, <<"task", t>>, tasks[t])
    BY <1>1, <1>5 DEF CommittedTasks
  <2>2. n \in TaskIDs /\ \A t \in TaskIDs \ {n} : tasks'[t] = tasks[t]
    BY <1>5, <2>1 DEF FreeTasks, Now
  <2>3. tasks' = [tasks EXCEPT ![n] = tasks'[n]]
    BY <1>2, <2>2, OneChanges
  <2> QED
    BY <2>1, <2>3 DEF insertWorkflowTask
<1> QED
  BY <1>3, <1>4, <1>5

\* Only calls on tasks, claims of tasks and deletes write tasks.
LEMMA NoTaskWritten ==
  ASSUME NEW x, IsActive(x),
         x.call.name \notin TaskCalls \cup {"ClaimTasks", "DeleteWorkflows"}
  PROVE  \A t \in TaskIDs : <<"task", t>> \notin DOMAIN x.writes
<1> SUFFICES ASSUME NEW t \in TaskIDs, <<"task", t>> \in DOMAIN x.writes PROVE FALSE
  OBVIOUS
<1>1. DeletesRow(x, "task", t) \/ x.call.name \in TaskCalls \cup {"ClaimTasks"}
  BY WrittenTask
<1> QED
  BY <1>1 DEF DeletesRow

\* Only these calls write workflows.
LEMMA NoWorkflowWritten ==
  ASSUME NEW x, IsActive(x),
         x.call.name \notin TaskCalls \cup {"CompleteWorkflow", "FailActivity",
                                            "InsertWorkflow", "DeleteWorkflows"}
  PROVE  \A w \in WorkflowIDs : <<"workflow", w>> \notin DOMAIN x.writes
<1> SUFFICES ASSUME NEW w \in WorkflowIDs, <<"workflow", w>> \in DOMAIN x.writes PROVE FALSE
  OBVIOUS
<1>1. \/ DeletesRow(x, "workflow", w)
      \/ x.call.name \in TaskCalls \cup {"CompleteWorkflow", "FailActivity", "InsertWorkflow"}
  BY WrittenWorkflow
<1> QED
  BY <1>1 DEF DeletesRow

-----------------------------------------------------------------------------
(* Each call takes effect as a whole when it commits *)

LEMMA StartedWorkflow ==
  ASSUME NEW old \in WorkflowRow, old.attempts = 1, old.error = FALSE, NEW key \in RequestKeys
  PROVE  [old EXCEPT !.status = "running", !.key = key] =
           [status |-> "running", key |-> key, attempts |-> 1, error |-> FALSE]
<1> PICK new : new = [old EXCEPT !.status = "running", !.key = key]
  OBVIOUS
<1>1. new \in WorkflowRow
  BY DEF WorkflowRow
<1>2. new.status = "running" /\ new.key = key /\ new.attempts = 1 /\ new.error = FALSE
  BY DEF WorkflowRow
<1>3. new = [status |-> "running", key |-> key, attempts |-> 1, error |-> FALSE]
  BY <1>1, <1>2 DEF WorkflowRow
<1> QED
  BY <1>3

LEMMA InsertWorkflowPerforms ==
  ASSUME NEW s, NEW x, Commits(s, x), NEW c, c = x.call, c.name = "InsertWorkflow"
  PROVE  Perform(c) \/ UNCHANGED storageVars
<1> PICK w, key, row : w = c.w /\ key = c.id /\ row = <<"workflow", w>>
  OBVIOUS
<1>1. /\ IsActive(x) /\ IsCall(c) /\ x.todo = <<>> /\ x.script = <<>> /\ AtomicInv /\ StorageTypeOK
      /\ s \in Sessions /\ Commit(s) /\ x = session[s]
  BY DEF Commits
<1>2. w # None /\ w \in WorkflowIDs /\ key \in RequestKeys
  BY <1>1, CallNames, StorageAssumption
     DEF IsCall, InsertCalls, TaskCalls, ActivityCalls, ClaimCalls, StorageAssumption
<1>3. /\ activities' = activities /\ signals' = signals
      /\ \A t \in TaskIDs : <<"task", t>> \notin DOMAIN x.writes
  BY <1>1, ActivitiesAfter, SignalsAfter, NoTaskWritten DEF ActivityCalls, TaskCalls
<1>4. /\ x.newTask = IF DOMAIN x.writes # {} THEN w ELSE None
      /\ DOMAIN x.writes = {} \/ DOMAIN x.writes = {row}
  BY <1>1, <1>2, HasRunAtCommit, InsertedRows DEF InsertCalls
<1>5. CASE DOMAIN x.writes = {}
  <2>1. tasks' = tasks
    BY <1>3, <1>4, <1>5, TasksAfter
  <2>2. workflows' = workflows
    BY <1>5, WorkflowsAfter
  <2> QED
    BY <1>3, <2>1, <2>2 DEF storageVars
<1>6. CASE DOMAIN x.writes = {row}
  <2>1. insertWorkflowTask(w, TRUE)
    BY <1>2, <1>3, <1>4, <1>6, TasksAfter
  <2>2. WorkflowMoves(x, w, row)
    BY <1>1, <1>2, WorkflowAfter
  <2>3. /\ workflows[w].status = "none" /\ Request("request", key, "update") \in x.locks
        /\ workflows'[w] = [status |-> "running", key |-> key, attempts |-> 1, error |-> FALSE]
    BY <1>6, <2>2 DEF WorkflowMoves, TaskCalls
  <2>4. \A u \in WorkflowIDs : Exists(u) => workflows[u].key # key
    BY <1>1, <1>2, <2>3 DEF IsActive, Stands, LocksStand
  <2>5. workflows[w].attempts = 1 /\ workflows[w].error = FALSE
    BY <1>1, <1>2, <2>3 DEF AtomicInv, TablesFit, StorageTypeOK, WorkflowRow
  <2>6. [workflows[w] EXCEPT !.status = "running", !.key = key] =
          [status |-> "running", key |-> key, attempts |-> 1, error |-> FALSE]
    <3>1. workflows[w] \in WorkflowRow
      BY <1>1, <1>2 DEF StorageTypeOK
    <3> QED
      BY <1>2, <2>5, <3>1, StartedWorkflow
  <2>7. workflows' = [workflows EXCEPT ![w] = workflows'[w]]
    BY <1>2, WorkflowsAfter
  <2>8. workflows' = [workflows EXCEPT ![w] = [@ EXCEPT !.status = "running", !.key = key]]
    BY <2>3, <2>6, <2>7
  <2>9. InsertWorkflow(w, key)
    BY <1>3, <2>1, <2>3, <2>4, <2>8 DEF InsertWorkflow
  <2> QED
    BY <2>9 DEF Perform
<1> QED
  BY <1>4, <1>5, <1>6

LEMMA InsertSignalPerforms ==
  ASSUME NEW s, NEW x, Commits(s, x), NEW c, c = x.call, c.name = "InsertSignal"
  PROVE  Perform(c) \/ UNCHANGED storageVars
<1>1. /\ IsActive(x) /\ IsCall(c) /\ x.todo = <<>> /\ x.script = <<>> /\ AtomicInv
      /\ s \in Sessions /\ Commit(s) /\ x = session[s]
  BY DEF Commits
<1> PICK g \in SignalKeys : InsertedRow(c) = <<"signal", g>> /\ g = SignalKey[c.w, c.id]
  BY <1>1, InsertedKeys
<1> PICK w, row : w = c.w /\ row = <<"signal", g>>
  OBVIOUS
<1>2. w # None /\ w \in WorkflowIDs
  BY <1>1, CallNames, StorageAssumption DEF StorageAssumption
<1>3. /\ activities' = activities
      /\ \A t \in TaskIDs : <<"task", t>> \notin DOMAIN x.writes
      /\ \A u \in WorkflowIDs : <<"workflow", u>> \notin DOMAIN x.writes
  BY <1>1, ActivitiesAfter, NoTaskWritten, NoWorkflowWritten DEF ActivityCalls, TaskCalls
<1>4. x.newTask = w /\ row \in DOMAIN x.writes /\ DOMAIN x.writes = {row}
  BY <1>1, <1>2, HasRunAtCommit DEF InsertCalls
<1>5. workflows' = workflows /\ insertWorkflowTask(w, TRUE)
  <2>1. workflows' = workflows
    BY <1>3, WorkflowsAfter
  <2>2. x.newTask # None
    BY <1>2, <1>4
  <2>3. insertWorkflowTask(x.newTask, TRUE)
    BY <1>3, <2>2, TasksAfter
  <2> QED
    BY <1>4, <2>1, <2>3
<1>6. SignalMoves(x, g, row)
  BY <1>1, SignalAfter
<1>7. signals[g].wf = None /\ Exists(w) /\ signals'[g] = Inserted(c)
  BY <1>4, <1>6 DEF SignalMoves
<1>8. Inserted(c) = [wf |-> w, input |-> c.value]
  BY DEF Inserted
<1>9. \A id \in SignalKeys \ {g} : <<"signal", id>> \notin DOMAIN x.writes
  <2> SUFFICES ASSUME NEW id \in SignalKeys \ {g}, <<"signal", id>> = row PROVE FALSE
    BY <1>4
  <2>1. <<"signal", id>> = <<"signal", g>>
    OBVIOUS
  <2> QED
    BY <2>1, PairsAgree
<1>10. signals' = [signals EXCEPT ![g] = [wf |-> w, input |-> c.value]]
  <2>1. signals' = [signals EXCEPT ![g] = signals'[g]]
    BY <1>9, SignalsAfter
  <2> QED
    BY <1>7, <1>8, <2>1
<1>11. InsertSignal(w, c.id, c.value)
  <2>1. insertWorkflowTask(w, Exists(w))
    BY <1>5, <1>7 DEF insertWorkflowTask
  <2> QED
    BY <1>3, <1>5, <1>10, <2>1 DEF InsertSignal
<1>12. ~InsertSignalFails(w, c.id)
  BY <1>7 DEF InsertSignalFails
<1> QED
  BY <1>11, <1>12 DEF Perform

LEMMA InsertActivityPerforms ==
  ASSUME NEW s, NEW x, Commits(s, x), NEW c, c = x.call, c.name = "InsertActivity"
  PROVE  Perform(c) \/ UNCHANGED storageVars
<1>1. /\ IsActive(x) /\ IsCall(c) /\ x.todo = <<>> /\ x.script = <<>> /\ AtomicInv
      /\ s \in Sessions /\ Commit(s) /\ x = session[s]
      /\ activities \in [ActivityKeys -> ActivityRow]
      /\ activities' \in [ActivityKeys -> ActivityRow]
  BY DEF Commits, StorageTypeOK
<1> PICK k \in ActivityKeys : InsertedRow(c) = <<"activity", k>> /\ k = ActivityKey[c.w, c.id]
  BY <1>1, InsertedKeys
<1> PICK w, row : w = c.w /\ row = <<"activity", k>>
  OBVIOUS
<1>2. w # None /\ w \in WorkflowIDs
  BY <1>1, CallNames, StorageAssumption DEF StorageAssumption
<1>3. /\ signals' = signals
      /\ \A t \in TaskIDs : <<"task", t>> \notin DOMAIN x.writes
      /\ \A u \in WorkflowIDs : <<"workflow", u>> \notin DOMAIN x.writes
  BY <1>1, SignalsAfter, NoTaskWritten, NoWorkflowWritten DEF ActivityCalls, TaskCalls
<1>4. x.newTask = None /\ (DOMAIN x.writes = {} \/ DOMAIN x.writes = {row})
  <2>1. DOMAIN x.writes = {} \/ DOMAIN x.writes = {InsertedRow(c)}
    BY <1>1, <1>2, HasRunAtCommit DEF InsertCalls
  <2>2. x.newTask = None
    BY <1>1, <1>2, HasRunAtCommit
  <2> QED
    BY <2>1, <2>2
<1>5. workflows' = workflows /\ tasks' = tasks
  BY <1>3, <1>4, WorkflowsAfter, TasksAfter
<1>6. \A id \in ActivityKeys \ {k} : <<"activity", id>> \notin DOMAIN x.writes
  <2> SUFFICES ASSUME NEW id \in ActivityKeys \ {k}, <<"activity", id>> = row PROVE FALSE
    BY <1>4
  <2>1. <<"activity", id>> = <<"activity", k>>
    OBVIOUS
  <2> QED
    BY <2>1, PairsAgree
<1>7. activities' = [activities EXCEPT ![k] = activities'[k]]
  BY <1>6, ActivitiesAfter
<1>8. ActivityMoves(x, k, row)
  BY <1>1, ActivityAfter
<1>9. CASE DOMAIN x.writes = {}
  <2>1. activities' = activities
    BY <1>9, ActivitiesAfter
  <2> QED
    BY <1>3, <1>5, <2>1 DEF storageVars
<1>10. CASE DOMAIN x.writes = {row}
  <2>1. activities[k].status = "none" /\ Exists(w) /\ activities'[k] = Inserted(c)
    BY <1>8, <1>10 DEF ActivityMoves, ActivityCalls
  <2>2. Inserted(c) = [NoActivityRow EXCEPT !.status = "pending", !.wf = w, !.call = c.id]
    BY DEF Inserted
  <2>3. InsertActivity(w, k, c.id)
    BY <1>7, <2>1, <2>2 DEF InsertActivity
  <2>4. ~InsertActivityFails(w, k)
    BY <2>1 DEF InsertActivityFails
  <2>5. /\ c.name = "InsertActivity"
        /\ ~InsertActivityFails(w, ActivityKey[w, c.id])
        /\ InsertActivity(w, ActivityKey[w, c.id], c.id)
        /\ UNCHANGED <<workflows, tasks, signals>>
    BY <1>3, <1>5, <2>3, <2>4
  <2> QED
    BY <2>5 DEF Perform
<1> QED
  BY <1>4, <1>9, <1>10

LEMMA CompleteWorkflowPerforms ==
  ASSUME NEW s, NEW x, Commits(s, x), NEW c, c = x.call, c.name = "CompleteWorkflow"
  PROVE  Perform(c)
<1> PICK w, row : w = c.w /\ row = <<"workflow", w>>
  OBVIOUS
<1>1. /\ IsActive(x) /\ IsCall(c) /\ x.todo = <<>> /\ x.script = <<>> /\ AtomicInv
      /\ s \in Sessions /\ Commit(s) /\ x = session[s]
  BY DEF Commits
<1>2. w # None /\ w \in WorkflowIDs
  BY <1>1, CallNames, StorageAssumption DEF StorageAssumption
<1>3. /\ activities' = activities /\ signals' = signals
      /\ \A t \in TaskIDs : <<"task", t>> \notin DOMAIN x.writes
  BY <1>1, ActivitiesAfter, SignalsAfter, NoTaskWritten DEF ActivityCalls, TaskCalls
<1>4. x.newTask = None /\ row \in DOMAIN x.writes
  BY <1>1, <1>2, HasRunAtCommit
<1>5. tasks' = tasks
  BY <1>3, <1>4, TasksAfter
<1>6. WorkflowMoves(x, w, row)
  BY <1>1, <1>2, WorkflowAfter
<1>7. Exists(w) /\ workflows'[w] = UpdatedWorkflow(c, w)
  BY <1>4, <1>6 DEF WorkflowMoves
<1>8. UpdatedWorkflow(c, w) = [workflows[w] EXCEPT !.status = "completed", !.error = FALSE]
  BY DEF UpdatedWorkflow
<1>9. workflows' = [workflows EXCEPT ![w] = workflows'[w]]
  BY <1>2, WorkflowsAfter
<1>10. CompleteWorkflow(w)
  BY <1>7, <1>8, <1>9 DEF CompleteWorkflow
<1> QED
  BY <1>3, <1>5, <1>7, <1>10 DEF Perform

LEMMA TaskCallPerforms ==
  ASSUME NEW s, NEW x, Commits(s, x), NEW c, c = x.call, c.name \in TaskCalls
  PROVE  Perform(c)
<1> PICK w, t, row, task :
      w = c.w /\ t = c.id /\ row = <<"workflow", w>> /\ task = <<"task", t>>
  OBVIOUS
<1>1. /\ IsActive(x) /\ IsCall(c) /\ x.todo = <<>> /\ x.script = <<>> /\ AtomicInv
      /\ s \in Sessions /\ Commit(s) /\ x = session[s]
  BY DEF Commits
<1>2. w # None /\ w \in WorkflowIDs /\ t \in TaskIDs
  BY <1>1, CallNames, StorageAssumption
     DEF StorageAssumption, IsCall, InsertCalls, TaskCalls, ActivityCalls, ClaimCalls
<1>3. activities' = activities /\ signals' = signals
  BY <1>1, ActivitiesAfter, SignalsAfter DEF ActivityCalls, TaskCalls
<1>4. /\ x.newTask = None
      /\ row \in DOMAIN x.writes /\ task \in DOMAIN x.writes
  BY <1>1, <1>2, HasRunAtCommit DEF TaskCalls
<1>5. workflows' = [workflows EXCEPT ![w] = workflows'[w]]
  BY <1>2, WorkflowsAfter
<1>6. tasks' = [tasks EXCEPT ![t] = tasks'[t]]
  <2>1. \A u \in TaskIDs : TaskMoves(x, u, <<"task", u>>)
    BY <1>4, TasksAfter
  <2>2. \A u : <<"task", u>> \in DOMAIN x.writes => u = t
    BY <1>1, <1>2, WritesOnly
  <2>3. \A u \in TaskIDs \ {t} : tasks'[u] = tasks[u]
    BY <2>1, <2>2 DEF TaskMoves
  <2>4. tasks \in [TaskIDs -> TaskRow] /\ tasks' \in [TaskIDs -> TaskRow]
    BY DEF Commits, StorageTypeOK
  <2> QED
    BY <1>2, <2>3, <2>4, OneChanges
<1>7. workflows'[w] = UpdatedWorkflow(c, w)
  <2>1. WorkflowMoves(x, w, row)
    BY <1>1, <1>2, WorkflowAfter
  <2> QED
    BY <1>4, <2>1 DEF WorkflowMoves, TaskCalls
<1>8. TaskExists(t) /\ tasks'[t] = UpdatedTask(c, t)
  <2>1. TaskMoves(x, t, task)
    BY <1>2, <1>4, TasksAfter
  <2> QED
    BY <1>4, <2>1 DEF TaskMoves, TaskCalls
<1>9. CASE c.name = "CompleteWorkflowTask"
  <2>1. /\ UpdatedWorkflow(c, w) = [workflows[w] EXCEPT !.error = FALSE]
        /\ UpdatedTask(c, t) = [tasks[t] EXCEPT !.status = "completed"]
    BY <1>9 DEF UpdatedWorkflow, UpdatedTask
  <2>2. CompleteWorkflowTask(t, w)
    BY <1>5, <1>6, <1>7, <1>8, <2>1 DEF CompleteWorkflowTask
  <2>3. PerformOnTask(c.name, t, w)
    BY <1>3, <1>9, <2>2 DEF PerformOnTask
  <2> QED
    BY <2>3 DEF Perform
<1>10. CASE c.name = "ReScheduleWorkflowTask"
  <2>1. /\ UpdatedWorkflow(c, w) =
             [workflows[w] EXCEPT !.attempts = workflows[w].attempts + 1, !.error = TRUE]
        /\ UpdatedTask(c, t) = [tasks[t] EXCEPT !.status = "pending"]
    BY <1>10 DEF UpdatedWorkflow, UpdatedTask
  <2>2. ReScheduleWorkflowTask(t, w)
    BY <1>5, <1>6, <1>7, <1>8, <2>1 DEF ReScheduleWorkflowTask
  <2>3. PerformOnTask(c.name, t, w)
    BY <1>3, <1>10, <2>2 DEF PerformOnTask
  <2> QED
    BY <2>3 DEF Perform
<1>11. CASE c.name = "FailWorkflowTask"
  <2>1. /\ UpdatedWorkflow(c, w) = [workflows[w] EXCEPT !.status = "failed", !.error = TRUE]
        /\ UpdatedTask(c, t) = [tasks[t] EXCEPT !.status = "failed"]
    BY <1>11 DEF UpdatedWorkflow, UpdatedTask
  <2>2. FailWorkflowTask(t, w)
    BY <1>5, <1>6, <1>7, <1>8, <2>1 DEF FailWorkflowTask, failWorkflow
  <2>3. PerformOnTask(c.name, t, w)
    BY <1>3, <1>11, <2>2 DEF PerformOnTask
  <2> QED
    BY <2>3 DEF Perform
<1> QED
  BY <1>9, <1>10, <1>11 DEF TaskCalls

LEMMA ActivityCallPerforms ==
  ASSUME NEW s, NEW x, Commits(s, x), NEW c, c = x.call, c.name \in ActivityCalls
  PROVE  Perform(c)
<1> PICK w, k, row, activity :
      w = c.w /\ k = c.id /\ row = <<"workflow", w>> /\ activity = <<"activity", k>>
  OBVIOUS
<1>1. /\ IsActive(x) /\ IsCall(c) /\ x.todo = <<>> /\ x.script = <<>> /\ AtomicInv
      /\ s \in Sessions /\ Commit(s) /\ x = session[s]
  BY DEF Commits
<1>2. w # None /\ w \in WorkflowIDs /\ k \in ActivityKeys
  BY <1>1, CallNames, StorageAssumption
     DEF StorageAssumption, IsCall, InsertCalls, TaskCalls, ActivityCalls, ClaimCalls
<1>3. /\ signals' = signals
      /\ \A t \in TaskIDs : <<"task", t>> \notin DOMAIN x.writes
  BY <1>1, SignalsAfter, NoTaskWritten DEF ActivityCalls, TaskCalls
<1>4. /\ x.newTask = IF c.name = "CompleteActivity" THEN w ELSE None
      /\ c.name = "FailActivity" => row \in DOMAIN x.writes
      /\ activity \in DOMAIN x.writes
  BY <1>1, <1>2, HasRunAtCommit DEF ActivityCalls
<1>5. activities' = [activities EXCEPT ![k] = activities'[k]]
  <2>1. \A id : <<"activity", id>> \in DOMAIN x.writes => id = k
    BY <1>1, <1>2, WritesOnly DEF ActivityCalls
  <2> QED
    BY <1>2, <2>1, ActivitiesAfter
<1>6. activities[k].status # "none" /\ OwnsActivity(w, k)
      /\ activities'[k] = UpdatedActivity(c, k)
  <2>1. ActivityMoves(x, k, activity)
    BY <1>1, <1>2, ActivityAfter
  <2> QED
    BY <1>2, <1>4, <2>1 DEF ActivityMoves, ActivityCalls
<1>7. c.name # "CompleteActivity" => tasks' = tasks
  BY <1>3, <1>4, TasksAfter
<1>8. c.name # "FailActivity" => workflows' = workflows
  BY <1>1, NoWorkflowWritten, WorkflowsAfter DEF ActivityCalls, TaskCalls
<1>9. CASE c.name = "CompleteActivity"
  <2>1. UpdatedActivity(c, k) =
          [activities[k] EXCEPT !.status = "completed", !.output = c.value]
    BY <1>9 DEF UpdatedActivity
  <2>2. insertWorkflowTask(w, TRUE) /\ x.newTask # None
    BY <1>2, <1>3, <1>4, <1>9, TasksAfter
  <2>3. Exists(w)
    BY <1>1, <1>9, <2>2, NewTaskRefers
  <2>4. insertWorkflowTask(w, Exists(w))
    BY <2>2, <2>3 DEF insertWorkflowTask
  <2>5. CompleteActivity(k, w, c.value)
    BY <1>3, <1>5, <1>6, <1>8, <1>9, <2>1, <2>4 DEF CompleteActivity
  <2> QED
    BY <1>9, <2>5 DEF Perform
<1>10. CASE c.name = "ReScheduleActivity"
  <2>1. UpdatedActivity(c, k) = [activities[k] EXCEPT !.status = "pending"]
    BY <1>10 DEF UpdatedActivity
  <2>2. ReScheduleActivity(k, w)
    BY <1>3, <1>5, <1>6, <1>7, <1>8, <1>10, <2>1 DEF ReScheduleActivity
  <2> QED
    BY <1>10, <2>2 DEF Perform
<1>11. CASE c.name = "FailActivity"
  <2>1. /\ UpdatedWorkflow(c, w) = [workflows[w] EXCEPT !.status = "failed", !.error = TRUE]
        /\ UpdatedActivity(c, k) = [activities[k] EXCEPT !.status = "failed"]
    BY <1>11 DEF UpdatedWorkflow, UpdatedActivity
  <2>2. WorkflowMoves(x, w, row)
    BY <1>1, <1>2, WorkflowAfter
  <2>3. workflows'[w] = UpdatedWorkflow(c, w)
    BY <1>4, <1>11, <2>2 DEF WorkflowMoves
  <2>4. workflows' = [workflows EXCEPT ![w] = workflows'[w]]
    BY <1>2, WorkflowsAfter
  <2>5. FailActivity(k, w)
    BY <1>3, <1>5, <1>6, <1>7, <1>11, <2>1, <2>3, <2>4 DEF FailActivity, failWorkflow
  <2> QED
    BY <1>11, <2>5 DEF Perform
<1> QED
  BY <1>9, <1>10, <1>11 DEF ActivityCalls

\* A batch inserts no task.
LEMMA BatchCommits ==
  ASSUME NEW s, NEW x, Commits(s, x),
         x.call.name \in ClaimCalls \cup {"DeleteWorkflows"}
  PROVE  x.newTask = None
BY DEF Commits, IsActive, Stands, IsCall, ClaimCalls, InsertCalls, TaskCalls, ActivityCalls

LEMMA ClaimTasksPerforms ==
  ASSUME NEW s, NEW x, Commits(s, x), NEW c, c = x.call, c.name = "ClaimTasks"
  PROVE  Perform(c)
<1> PICK T : T = {t \in TaskIDs : <<"task", t>> \in DOMAIN x.writes}
  OBVIOUS
<1>1. IsActive(x)
  BY DEF Commits
<1>2. activities' = activities /\ signals' = signals /\ workflows' = workflows
  BY <1>1, ActivitiesAfter, SignalsAfter, NoWorkflowWritten, WorkflowsAfter
     DEF ActivityCalls, TaskCalls
<1>3. \A t \in TaskIDs : TaskMoves(x, t, <<"task", t>>)
  BY BatchCommits, TasksAfter DEF ClaimCalls
<1>4. \A t \in T : TaskExists(t)
  BY <1>3 DEF TaskMoves
<1>5. \A t \in TaskIDs : UpdatedTask(c, t) = [tasks[t] EXCEPT !.status = "running"]
  BY DEF UpdatedTask
<1>6. \A t \in TaskIDs :
        tasks'[t] = IF t \in T THEN [tasks[t] EXCEPT !.status = "running"] ELSE tasks[t]
  BY <1>3, <1>5 DEF TaskMoves
<1>7. tasks' \in [TaskIDs -> TaskRow]
  BY DEF Commits, StorageTypeOK
<1>8. tasks' = [t \in TaskIDs |->
        IF t \in T THEN [tasks[t] EXCEPT !.status = "running"] ELSE tasks[t]]
  BY <1>6, <1>7
<1>9. ClaimTasks(T)
  BY <1>2, <1>4, <1>8 DEF ClaimTasks
<1>10. T \in SUBSET TaskIDs
  OBVIOUS
<1> QED
  BY <1>9, <1>10 DEF Perform

LEMMA ClaimActivitiesPerforms ==
  ASSUME NEW s, NEW x, Commits(s, x), NEW c, c = x.call, c.name = "ClaimActivities"
  PROVE  Perform(c)
<1> PICK K : K = {k \in ActivityKeys : <<"activity", k>> \in DOMAIN x.writes}
  OBVIOUS
<1>1. /\ IsActive(x) /\ AtomicInv /\ s \in Sessions /\ Commit(s) /\ x = session[s]
      /\ x.newTask = None
  BY BatchCommits DEF Commits, ClaimCalls
<1>2. signals' = signals /\ workflows' = workflows /\ tasks' = tasks
  BY <1>1, SignalsAfter, NoWorkflowWritten, WorkflowsAfter, NoTaskWritten, TasksAfter
     DEF TaskCalls
<1>3. \A k \in ActivityKeys : ActivityMoves(x, k, <<"activity", k>>)
  BY <1>1, ActivityAfter
<1>4. \A k \in K : activities[k].status # "none"
  BY <1>3 DEF ActivityMoves
<1>5. \A k \in ActivityKeys : UpdatedActivity(c, k) =
        [activities[k] EXCEPT !.status = "running", !.attempts = @ + 1]
  BY DEF UpdatedActivity
<1>6. \A k \in ActivityKeys : activities'[k] =
        IF k \in K THEN [activities[k] EXCEPT !.status = "running", !.attempts = @ + 1]
        ELSE activities[k]
  BY <1>3, <1>5 DEF ActivityMoves
<1>7. activities' \in [ActivityKeys -> ActivityRow]
  BY DEF Commits, StorageTypeOK
<1>8. activities' = [k \in ActivityKeys |->
        IF k \in K THEN [activities[k] EXCEPT !.status = "running", !.attempts = @ + 1]
        ELSE activities[k]]
  BY <1>6, <1>7
<1>9. ClaimActivities(K)
  BY <1>2, <1>4, <1>8 DEF ClaimActivities
<1>10. K \in SUBSET ActivityKeys
  OBVIOUS
<1> QED
  BY <1>9, <1>10 DEF Perform

LEMMA DeleteWorkflowsPerforms ==
  ASSUME NEW s, NEW x, Commits(s, x), NEW c, c = x.call, c.name = "DeleteWorkflows"
  PROVE  Perform(c)
<1> PICK W, wrote : W = DeletedBy(x) /\ wrote = DOMAIN x.writes
  OBVIOUS
<1>1. /\ IsActive(x) /\ AtomicInv /\ s \in Sessions /\ Commit(s) /\ x = session[s]
      /\ x.newTask = None /\ x.todo = <<>> /\ x.script = <<>>
  BY BatchCommits DEF Commits, ClaimCalls
<1>2. CascadeStands(x) /\ Concerned(x) = wrote
  <2>1. CascadeStands(x)
    BY <1>1 DEF IsActive, Stands
  <2>2. DOMAIN x.todo = {}
    BY <1>1
  <2> QED
    BY <2>1, <2>2 DEF Concerned
<1>3. /\ \A w \in WorkflowIDs : <<"workflow", w>> \in wrote =>
           workflows[w].status \in {"completed", "failed", "deleted"}
      /\ \A t \in TaskIDs : <<"task", t>> \in wrote <=> tasks[t].wf \in W
      /\ \A k \in ActivityKeys : <<"activity", k>> \in wrote <=> activities[k].wf \in W
      /\ \A g \in SignalKeys : <<"signal", g>> \in wrote <=> signals[g].wf \in W
  BY <1>1, <1>2 DEF CascadeStands, DeletedBy
<1>4. /\ \A w \in WorkflowIDs : w \in W <=> <<"workflow", w>> \in wrote
      /\ W \in SUBSET WorkflowIDs
  BY DEF DeletedBy
<1>5. /\ \A w \in W : workflows[w].status \in {"completed", "failed"}
      /\ \A w \in WorkflowIDs : workflows'[w] = IF w \in W THEN Deleted("workflow") ELSE workflows[w]
  <2>1. \A w \in WorkflowIDs : WorkflowMoves(x, w, <<"workflow", w>>)
    BY <1>1, WorkflowAfter
  <2>2. \A w \in W : Exists(w) /\ workflows'[w] = Deleted("workflow")
    BY <1>4, <2>1 DEF WorkflowMoves, TaskCalls
  <2>3. \A w \in W : workflows[w].status \in {"completed", "failed"}
    BY <1>3, <1>4, <2>2 DEF Exists
  <2>4. \A w \in WorkflowIDs \ W : workflows'[w] = workflows[w]
    BY <1>4, <2>1 DEF WorkflowMoves
  <2> QED
    BY <2>2, <2>3, <2>4
<1>6. \A t \in TaskIDs : tasks'[t] = IF tasks[t].wf \in W THEN Deleted("task") ELSE tasks[t]
  <2>1. \A t \in TaskIDs : TaskMoves(x, t, <<"task", t>>)
    BY <1>1, TasksAfter
  <2> QED
    BY <1>3, <2>1 DEF TaskMoves, TaskCalls
<1>7. \A k \in ActivityKeys :
        activities'[k] = IF activities[k].wf \in W THEN NoActivityRow ELSE activities[k]
  <2>1. \A k \in ActivityKeys : ActivityMoves(x, k, <<"activity", k>>)
    BY <1>1, ActivityAfter
  <2> QED
    BY <1>3, <2>1 DEF ActivityMoves, ActivityCalls
<1>8. \A g \in SignalKeys : signals'[g] = IF signals[g].wf \in W THEN NoSignalRow ELSE signals[g]
  <2>1. \A g \in SignalKeys : SignalMoves(x, g, <<"signal", g>>)
    BY <1>1, SignalAfter
  <2> QED
    BY <1>3, <2>1 DEF SignalMoves
<1>9. /\ workflows' \in [WorkflowIDs -> WorkflowRow] /\ tasks' \in [TaskIDs -> TaskRow]
      /\ activities' \in [ActivityKeys -> ActivityRow] /\ signals' \in [SignalKeys -> SignalRow]
  BY DEF Commits, StorageTypeOK
<1>10. workflows' = [w \in WorkflowIDs |-> IF w \in W THEN Deleted("workflow") ELSE workflows[w]]
  BY <1>5, <1>9
<1>11. tasks' = [t \in TaskIDs |-> IF tasks[t].wf \in W THEN Deleted("task") ELSE tasks[t]]
  BY <1>6, <1>9
<1>12. activities' = [k \in ActivityKeys |->
         IF activities[k].wf \in W THEN NoActivityRow ELSE activities[k]]
  BY <1>7, <1>9
<1>13. signals' = [g \in SignalKeys |-> IF signals[g].wf \in W THEN NoSignalRow ELSE signals[g]]
  BY <1>8, <1>9
<1>14. /\ Deleted("workflow") =
            [status |-> "deleted", key |-> None, attempts |-> 1, error |-> FALSE]
       /\ Deleted("task") = [status |-> "deleted", wf |-> None]
  BY DEF Deleted
<1>15. DeleteWorkflows(W)
  BY <1>5, <1>10, <1>11, <1>12, <1>13, <1>14 DEF DeleteWorkflows
<1> QED
  BY <1>4, <1>15 DEF Perform

\* A transaction that commits does what its call does in one step, or nothing.
LEMMA CommitPerforms ==
  ASSUME AtomicInv, TransactionInv', NEW s \in Sessions, Commit(s)
  PROVE  Perform(session[s].call) \/ UNCHANGED storageVars
<1> PICK x, c : x = session[s] /\ c = x.call
  OBVIOUS
<1>1. Commits(s, x) /\ IsCall(c)
  BY CommitsWhenDone DEF Commits
<1>2. c.name \in {"InsertWorkflow", "InsertSignal", "InsertActivity", "CompleteWorkflow",
        "ClaimTasks", "ClaimActivities", "DeleteWorkflows"} \cup TaskCalls \cup ActivityCalls
  BY <1>1 DEF IsCall, InsertCalls, ClaimCalls
<1>3. CASE c.name \in {"InsertWorkflow", "InsertSignal", "InsertActivity"}
  BY <1>1, <1>3, InsertWorkflowPerforms, InsertSignalPerforms, InsertActivityPerforms
<1>4. CASE c.name = "CompleteWorkflow"
  BY <1>1, <1>4, CompleteWorkflowPerforms
<1>5. CASE c.name \in TaskCalls
  BY <1>1, <1>5, TaskCallPerforms
<1>6. CASE c.name \in ActivityCalls
  BY <1>1, <1>6, ActivityCallPerforms
<1>7. CASE c.name \in {"ClaimTasks", "ClaimActivities", "DeleteWorkflows"}
  BY <1>1, <1>7, ClaimTasksPerforms, ClaimActivitiesPerforms, DeleteWorkflowsPerforms
<1> QED
  BY <1>2, <1>3, <1>4, <1>5, <1>6, <1>7

-----------------------------------------------------------------------------
(* The invariant and the theorem *)

LEMMA CommitKeepsAtomic ==
  ASSUME AtomicInv, TransactionInv', NEW s \in Sessions, Commit(s)
  PROVE  AtomicInv'
<1>1. TablesFit'
  BY CommitKeepsTables
<1>2. ASSUME NEW r \in Sessions, Running(r)'
      PROVE  Stands(session[r])'
  <2> PICK done : done = [IdleSession EXCEPT !.pc = "done"]
    OBVIOUS
  <2>1. done.pc = "done" /\ session' = [session EXCEPT ![s] = done]
    BY DoneIsASession, CommitIs
  <2>2. session'[s] = done /\ \A q \in Sessions \ {s} : session'[q] = session[q]
    BY <2>1 DEF AtomicInv, TransactionInv
  <2>3. r # s
    BY <1>2, <2>1, <2>2 DEF Running
  <2> PICK y : y = session[r]
    OBVIOUS
  <2>4. y = session'[r] /\ Running(r)
    BY <1>2, <2>2, <2>3 DEF Running
  <2>5. Stands(y)'
    BY <2>3, <2>4, CommitKeepsOthers
  <2> QED
    BY <2>4, <2>5
<1> QED
  BY <1>1, <1>2 DEF AtomicInv

LEMMA AtomicInitially ==
  TransactionInit /\ TablesFit => AtomicInv
<1> SUFFICES ASSUME TransactionInit, TablesFit PROVE AtomicInv
  OBVIOUS
<1>1. TransactionInv
  BY TransactionInitImpliesInv
<1>2. ASSUME NEW s \in Sessions
      PROVE  ~Running(s)
  BY DEF TransactionInit, Running, IdleSession
<1> QED
  BY <1>1, <1>2 DEF AtomicInv

LEMMA NothingChangesAtomic ==
  ASSUME AtomicInv, UNCHANGED transactionVars, TransactionInv'
  PROVE  AtomicInv'
<1>1. UNCHANGED storageVars /\ session' = session
  BY DEF transactionVars, storageVars
<1>2. TablesFit'
  BY <1>1 DEF AtomicInv, TablesFit, ForeignKeys, TaskExists, Exists, storageVars
<1>3. ASSUME NEW s \in Sessions, Running(s)'
      PROVE  Stands(session[s])'
  <2> PICK x : x = session[s]
    OBVIOUS
  <2>1. Running(s) /\ x = session'[s]
    BY <1>1, <1>3 DEF Running
  <2>2. IsActive(x)
    BY <2>1, ActiveSession
  <2>3. Stands(x)'
    BY <1>1, <2>2, QuietTables
  <2> QED
    BY <2>1, <2>3
<1> QED
  BY <1>2, <1>3 DEF AtomicInv

LEMMA TransactionNextKeepsAtomic ==
  AtomicInv /\ [TransactionNext]_transactionVars => AtomicInv'
<1> SUFFICES ASSUME AtomicInv, [TransactionNext]_transactionVars
             PROVE  AtomicInv'
  OBVIOUS
<1>1. TransactionInv'
  BY TransactionNextKeepsInv DEF AtomicInv
<1>2. ASSUME NEW s \in Sessions, BeginAny(s)
      PROVE  AtomicInv'
  BY <1>1, <1>2, BeginAnyKeepsAtomic
<1>3. ASSUME NEW s \in Sessions, Statement(s)
      PROVE  AtomicInv'
  BY <1>1, <1>3, StartStatementKeepsAtomic, StartInsertWorkflowTaskKeepsAtomic, TakeKeepsAtomic
     DEF Statement
<1>4. ASSUME NEW s \in Sessions, Commit(s)
      PROVE  AtomicInv'
  BY <1>1, <1>4, CommitKeepsAtomic
<1>5. ASSUME NEW s \in Sessions, BreakDeadlock(s)
      PROVE  AtomicInv'
  BY <1>1, <1>5, RollsBackKeepsAtomic DEF BreakDeadlock
<1>6. ASSUME NEW s \in Sessions, Abort(s)
      PROVE  AtomicInv'
  BY <1>1, <1>6, RollsBackKeepsAtomic DEF Abort
<1>7. CASE UNCHANGED transactionVars
  BY <1>1, <1>7, NothingChangesAtomic
<1> QED
  BY <1>2, <1>3, <1>4, <1>5, <1>6, <1>7 DEF TransactionNext

\* Over any tables that keep their foreign keys and for any number of sessions:
\* at every moment the rows that a transaction has written, locked and still
\* waits for are those its call would write now (storage/postgres, the row locks
\* of its statements and the foreign keys of the migration).
THEOREM AtomicInvariant == TransactionSpec /\ TablesFit => []AtomicInv
BY AtomicInitially, TransactionNextKeepsAtomic, PTL DEF TransactionSpec

\* Over any tables that keep their foreign keys and for any number of sessions: a
\* transaction of the storage changes the tables as its call does in one step, or
\* not at all, whatever other transactions did between its statements.
THEOREM CallsAreAtomic == TransactionSpec /\ TablesFit => IsAtomic
<1>1. ASSUME AtomicInv, TransactionInv', [TransactionNext]_transactionVars
      PROVE  [\E s \in Sessions : Perform(session[s].call)]_storageVars
  <2>1. ASSUME NEW s \in Sessions, BeginAny(s)
        PROVE  UNCHANGED storageVars
    BY <2>1 DEF BeginAny, Begin
  <2>2. ASSUME NEW s \in Sessions, Statement(s)
        PROVE  UNCHANGED storageVars
    BY <2>2 DEF Statement, StartStatement, StartInsertWorkflowTask, Take, TakeReference,
                TakeRequest, TakeInsert, TakeRow, Takes, RollsBack
  <2>3. ASSUME NEW s \in Sessions, Commit(s)
        PROVE  Perform(session[s].call) \/ UNCHANGED storageVars
    BY <1>1, <2>3, CommitPerforms
  <2>4. ASSUME NEW s \in Sessions, BreakDeadlock(s) \/ Abort(s)
        PROVE  UNCHANGED storageVars
    BY <2>4 DEF BreakDeadlock, Abort, RollsBack
  <2>5. CASE UNCHANGED transactionVars
    BY <2>5 DEF transactionVars, storageVars
  <2> QED
    BY <1>1, <2>1, <2>2, <2>3, <2>4, <2>5 DEF TransactionNext
<1>2. AtomicInv => TransactionInv
  BY DEF AtomicInv
<1> QED
  BY <1>1, <1>2, AtomicInvariant, PTL DEF TransactionSpec, IsAtomic
=============================================================================
