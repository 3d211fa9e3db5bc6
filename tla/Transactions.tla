------------------------------- MODULE Transactions -------------------------------
(*****************************************************************************)
(* The storage calls as Postgres runs them: transactions of several SQL       *)
(* statements, interleaved row by row under READ COMMITTED.                  *)
(*                                                                           *)
(* A session runs one call.  A statement chooses the rows it will touch when  *)
(* it starts, then takes them one at a time in an order of Postgres's         *)
(* choosing, and waits where another transaction holds a conflicting lock; it  *)
(* changes a row as the row is once the wait is over.  The rows a transaction  *)
(* wrote are seen by others when it commits.  Whatever ends it otherwise (a   *)
(* deadlock, a timeout, a statement that fails or finds no row) undoes it.     *)
(*****************************************************************************)
EXTENDS AtomicStorage, SequencesExt

CONSTANT Sessions          \* the transactions, numbered in the order they begin

ASSUME SessionsAssumption ==
  /\ Sessions \subseteq Nat
  /\ IsFiniteSet(WorkflowIDs) /\ IsFiniteSet(ActivityKeys) /\ IsFiniteSet(SignalKeys)

VARIABLE session           \* what each session is doing

transactionVars == <<workflows, tasks, activities, signals, session>>

\* pc       idle, ready (between two statements), running (in one) or done
\* script   the statements still to start
\* todo     the rows the current statement still has to take, in its order
\* writes   the rows written, with what they will be once committed
\* newTask  the workflow of the row inserted into floww_workflow_tasks
\* locks    the row locks held until the transaction ends
IdleSession ==
  [pc |-> "idle", call |-> CallOf("none", None, None, None),
   script |-> <<>>, todo |-> <<>>, writes |-> <<>>, newTask |-> None, locks |-> {}]

Request(table, id, mode) == [row |-> <<table, id>>, mode |-> mode]

\* Mutant: the workflow is updated before the task.
FailWorkflowTaskStatementsReversed == <<"failWorkflow", "failWorkflowTask">>

FailWorkflowTaskStatements == <<"failWorkflowTask", "failWorkflow">>

\* The statements of each call, in the order the code runs them.
Statements ==
  [InsertWorkflow         |-> <<"insertWorkflow", "insertWorkflowTask">>,
   InsertSignal           |-> <<"insertSignal", "insertWorkflowTask">>,
   InsertActivity         |-> <<"InsertActivity">>,
   CompleteWorkflow       |-> <<"CompleteWorkflow">>,
   CompleteWorkflowTask   |-> <<"completeWorkflowTask", "clearWorkflowError">>,
   ReScheduleWorkflowTask |-> <<"reScheduleWorkflowTask", "incrementWorkflowAttempts">>,
   FailWorkflowTask       |-> FailWorkflowTaskStatements,
   CompleteActivity       |-> <<"completeActivity", "insertWorkflowTask">>,
   ReScheduleActivity     |-> <<"ReScheduleActivity">>,
   FailActivity           |-> <<"failActivity", "failWorkflow">>,
   ClaimTasks             |-> <<"fetchWorkflowTasks">>,
   ClaimActivities        |-> <<"fetchActivities">>,
   DeleteWorkflows        |-> <<"deleteWorkflows", "cascade">>]

\* The caller of these hands over its own pgx.Tx, and commits it when it likes.
RunsInCallersTransaction(s) ==
  session[s].call.name \in {"InsertWorkflow", "InsertSignal"}

-----------------------------------------------------------------------------
(* Row locks *)

\* DELETE, INSERT and the UPDATE of a key exclude every lock; an UPDATE of
\* other columns lets the check of a foreign key (FOR KEY SHARE) through.
Conflicts(held, wanted) ==
  \/ "update" \in {held, wanted}
  \/ held = "no_key_update" /\ wanted = "no_key_update"

RowExists(row) ==
  CASE row[1] = "workflow" -> Exists(row[2])
    [] row[1] = "task"     -> TaskExists(row[2])
    [] row[1] = "activity" -> activities[row[2]].status # "none"
    [] row[1] = "signal"   -> signals[row[2]].wf # None
    [] row[1] = "request"  -> FALSE

\* The lock that the next row of s needs now.  An INSERT whose key is taken
\* waits for a transaction that deletes the row that has it; the repeated
\* EnqueueWorkflow locks the workflow that has the key instead.
Need(s) ==
  LET want == Head(session[s].todo)
      holders == {w \in WorkflowIDs : Exists(w) /\ workflows[w].key = want.row[2]}
  IN IF want.row[1] = "request" /\ holders # {}
     THEN Request("workflow", CHOOSE w \in holders : TRUE, "update")
     ELSE IF want.mode = "insert"
     THEN [want EXCEPT !.mode = IF RowExists(want.row) THEN "key_share" ELSE "update"]
     ELSE want

Blockers(s) ==
  IF session[s].todo = <<>> THEN {}
  ELSE {q \in Sessions \ {s} : \E lock \in session[q].locks :
          lock.row = Need(s).row /\ Conflicts(lock.mode, Need(s).mode)}

-----------------------------------------------------------------------------
(* Statements *)

\* The row that statement st of call c takes: one row, named by the call.
RowOf(st, c) ==
  CASE st \in {"completeWorkflowTask", "reScheduleWorkflowTask", "failWorkflowTask"}
         -> Request("task", c.id, "no_key_update")
    [] st \in {"clearWorkflowError", "incrementWorkflowAttempts", "failWorkflow",
               "CompleteWorkflow"}
         -> Request("workflow", c.w, "no_key_update")
    [] st \in {"completeActivity", "ReScheduleActivity", "failActivity"}
         -> Request("activity", c.id, "no_key_update")
    [] st = "insertWorkflow" -> Request("request", c.id, "insert")
    [] st = "InsertActivity" -> Request("activity", ActivityKey[c.w, c.id], "insert")
    [] st = "insertSignal" -> Request("signal", SignalKey[c.w, c.id], "insert")

\* The orders in which statement st of call c, run by session s, may take its
\* rows.  A claim takes any of the rows that are due or stuck and a cleaner any
\* of the workflows with its status, as they are when the statement starts; the
\* deleted workflows take all rows that refer to them along.
Orders(s, c, st) ==
  LET deleted == {w \in WorkflowIDs : <<"workflow", w>> \in DOMAIN session[s].writes}
      Rows(table, ids, mode) == {Request(table, id, mode) : id \in ids}
  IN CASE st = "fetchWorkflowTasks" ->
            UNION {SetToSeqs(Rows("task", T, "no_key_update")) : T \in
              SUBSET {t \in TaskIDs : tasks[t].status \in {"pending", "running"}}}
       [] st = "fetchActivities" ->
            UNION {SetToSeqs(Rows("activity", K, "no_key_update")) : K \in
              SUBSET {k \in ActivityKeys : activities[k].status \in {"pending", "running"}}}
       [] st = "deleteWorkflows" ->
            UNION {SetToSeqs(Rows("workflow", W, "update")) : W \in
              SUBSET {w \in WorkflowIDs : workflows[w].status = c.id}}
       [] st = "cascade" -> SetToSeqs(
            Rows("task", {t \in TaskIDs : tasks[t].wf \in deleted}, "update")
            \cup Rows("activity", {k \in ActivityKeys : activities[k].wf \in deleted}, "update")
            \cup Rows("signal", {k \in SignalKeys : signals[k].wf \in deleted}, "update"))
       [] st = "insertWorkflowTask" -> {<<>>}
       [] OTHER -> {<<RowOf(st, c)>>}

\* The foreign key of a row inserted for workflow w.
Reference(w) == Request("workflow", w, "key_share")

\* What is left of a row that a DELETE took.
Deleted(table) ==
  CASE table = "workflow" -> [status |-> "deleted", key |-> None, attempts |-> 1, error |-> FALSE]
    [] table = "task"     -> [status |-> "deleted", wf |-> None]
    [] table = "activity" -> NoActivityRow
    [] table = "signal"   -> NoSignalRow

\* What the UPDATE of call c makes of a row.
UpdatedWorkflow(c, w) ==
  CASE c.name = "CompleteWorkflow" -> [workflows[w] EXCEPT !.status = "completed", !.error = FALSE]
    [] c.name = "CompleteWorkflowTask" -> [workflows[w] EXCEPT !.error = FALSE]
    [] c.name = "ReScheduleWorkflowTask" ->
         [workflows[w] EXCEPT !.attempts = @ + 1, !.error = TRUE]
    [] c.name \in {"FailWorkflowTask", "FailActivity"} ->
         [workflows[w] EXCEPT !.status = "failed", !.error = TRUE]

UpdatedTask(c, t) ==
  [tasks[t] EXCEPT !.status = CASE c.name = "CompleteWorkflowTask" -> "completed"
                                [] c.name = "ReScheduleWorkflowTask" -> "pending"
                                [] c.name = "FailWorkflowTask" -> "failed"
                                [] c.name = "ClaimTasks" -> "running"]

UpdatedActivity(c, k) ==
  CASE c.name = "CompleteActivity" ->
         [activities[k] EXCEPT !.status = "completed", !.output = c.value]
    [] c.name = "ReScheduleActivity" -> [activities[k] EXCEPT !.status = "pending"]
    [] c.name = "FailActivity" -> [activities[k] EXCEPT !.status = "failed"]
    [] c.name = "ClaimActivities" ->
         [activities[k] EXCEPT !.status = "running", !.attempts = @ + 1]

NewRow(row, mode, c) ==
  IF mode = "update" THEN Deleted(row[1])
  ELSE CASE row[1] = "workflow"  -> UpdatedWorkflow(c, row[2])
         [] row[1] = "task"      -> UpdatedTask(c, row[2])
         [] row[1] = "activity"  -> UpdatedActivity(c, row[2])

-----------------------------------------------------------------------------
(* The life of a transaction *)

\* A transaction begins with its first statement.
Begin(s, c) ==
  /\ session[s].pc = "idle"
  /\ \A r \in Sessions : r < s => session[r].pc # "idle"
  /\ \E order \in Orders(s, c, Head(Statements[c.name])) :
       session' = [session EXCEPT ![s] =
         [@ EXCEPT !.pc = "running", !.call = c, !.todo = order,
                   !.script = Tail(Statements[c.name])]]
  /\ UNCHANGED storageVars

\* The ids that EnqueueWorkflow may mint.
FreshIDs ==
  {w \in WorkflowIDs : /\ workflows[w].status = "none"
                       /\ \A r \in Sessions : session[r].call.w # w}

BeginAny(s) ==
  \/ \E w \in WorkflowIDs : Exists(w) /\ \E c \in CallsFor(w) : Begin(s, c)
  \/ \E c \in BatchCalls : Begin(s, c)
  \/ /\ FreshIDs # {}
     /\ \E key \in RequestKeys :
          Begin(s, CallOf("InsertWorkflow", CHOOSE w \in FreshIDs : TRUE, key, None))

BetweenStatements(s) == session[s].pc = "running" /\ session[s].todo = <<>>

StartStatement(s) ==
  /\ BetweenStatements(s)
  /\ session[s].script # <<>>
  /\ \E order \in Orders(s, session[s].call, Head(session[s].script)) :
       session' = [session EXCEPT ![s] =
         [@ EXCEPT !.todo = order, !.script = Tail(session[s].script)]]
  /\ Head(session[s].script) # "insertWorkflowTask"
  /\ UNCHANGED storageVars

\* INSERT ... SELECT: the workflow row is one that is committed or that this
\* transaction wrote, or else no task is inserted.
StartInsertWorkflowTask(s) ==
  LET w == session[s].call.w
      own == <<"workflow", w>> \in DOMAIN session[s].writes
  IN /\ BetweenStatements(s)
     /\ session[s].script # <<>>
     /\ Head(session[s].script) = "insertWorkflowTask"
     /\ session' = [session EXCEPT ![s] =
          [@ EXCEPT !.script = Tail(session[s].script),
                    !.newTask = IF own \/ Exists(w) THEN w ELSE None,
                    !.todo = IF Exists(w) THEN <<Reference(w)>> ELSE <<>>]]
     /\ UNCHANGED storageVars

\* As new @@ old, which the proof system cannot expand.
Overwrite(old, new) ==
  [row \in DOMAIN old \cup DOMAIN new |-> IF row \in DOMAIN new THEN new[row] ELSE old[row]]

WriteOf(row, value) == [r \in {row} |-> value]

\* s has waited for its next row, and goes on to the rows more and the rest.
Takes(s, locks, writes, more) ==
  LET x == session[s]
  IN /\ session' = [session EXCEPT ![s] =
          [x EXCEPT !.todo = more \o Tail(x.todo), !.locks = x.locks \cup locks,
                    !.writes = Overwrite(x.writes, writes)]]
     /\ UNCHANGED storageVars

\* Mutant: a transaction that fails is not rolled back: its locks stay.
ForgetsToRollBack(s) ==
  /\ session' = [session EXCEPT ![s] =
       [IdleSession EXCEPT !.pc = "done", !.locks = session[s].locks]]
  /\ UNCHANGED storageVars

RollsBack(s) ==
  /\ session' = [session EXCEPT ![s] = [IdleSession EXCEPT !.pc = "done"]]
  /\ UNCHANGED storageVars

\* The row that call c waited for is there, and is the one the call is about.
Finds(c, row) ==
  /\ RowExists(row)
  /\ (row[1] = "activity" /\ c.w # None) => OwnsActivity(c.w, row[2])

\* Mutant: the tables have no foreign keys.
TakeReferenceUnchecked(s, want) == want.mode = "key_share" /\ Takes(s, {}, <<>>, <<>>)

TakeReference(s, want) ==
  /\ want.mode = "key_share"
  /\ IF RowExists(want.row) THEN Takes(s, {want}, <<>>, <<>>) ELSE RollsBack(s)

\* The workflow is inserted under the request's key, or the workflow that has
\* the key is locked; its row stays as it is.
TakeRequest(s, want) ==
  /\ want.row[1] = "request"
  /\ IF Need(s).row = want.row
     THEN Takes(s, {Need(s)},
            WriteOf(<<"workflow", session[s].call.w>>,
              [status |-> "running", key |-> want.row[2], attempts |-> 1, error |-> FALSE]),
            <<>>)
     ELSE Takes(s, {Need(s)}, <<>>, <<>>)

TakeInsert(s, want) ==
  LET c == session[s].call
  IN /\ want.mode = "insert"
     /\ want.row[1] # "request"
     /\ IF ~RowExists(want.row)
        THEN Takes(s, {Need(s)},
               WriteOf(want.row,
                 IF c.name = "InsertSignal" THEN [wf |-> c.w, input |-> c.value]
                 ELSE [NoActivityRow EXCEPT !.status = "pending", !.wf = c.w, !.call = c.id]),
               <<Reference(c.w)>>)
        ELSE IF c.name = "InsertSignal" THEN RollsBack(s) ELSE Takes(s, {}, <<>>, <<>>)

\* An UPDATE or a DELETE of one row that is gone makes the call return an
\* error; a batch just leaves it out.
TakeRow(s, want) ==
  /\ want.mode \in {"no_key_update", "update"}
  /\ IF Finds(session[s].call, want.row)
     THEN Takes(s, {want}, WriteOf(want.row, NewRow(want.row, want.mode, session[s].call)), <<>>)
     ELSE IF session[s].call.w = None THEN Takes(s, {}, <<>>, <<>>) ELSE RollsBack(s)

Take(s) ==
  /\ session[s].pc = "running"
  /\ session[s].todo # <<>>
  /\ Blockers(s) = {}
  /\ LET want == Head(session[s].todo)
     IN \/ TakeReference(s, want)
        \/ TakeRequest(s, want)
        \/ TakeInsert(s, want)
        \/ TakeRow(s, want)

\* Mutant: the statements are not run in one transaction.
HasRunAll(s) == TRUE

RanAll(s) == session[s].script = <<>>

Commit(s) ==
  LET After(row, before) ==
        IF row \in DOMAIN session[s].writes THEN session[s].writes[row] ELSE before
      updated == [t \in TaskIDs |-> After(<<"task", t>>, tasks[t])]
  IN /\ BetweenStatements(s)
     /\ RanAll(s)
     /\ workflows' = [w \in WorkflowIDs |-> After(<<"workflow", w>>, workflows[w])]
     /\ activities' = [k \in ActivityKeys |-> After(<<"activity", k>>, activities[k])]
     /\ signals' = [k \in SignalKeys |-> After(<<"signal", k>>, signals[k])]
     /\ IF session[s].newTask = None
        THEN tasks' = updated
        ELSE \E t \in FreeTasks :
               /\ \A u \in FreeTasks : t <= u
               /\ tasks' = [updated EXCEPT ![t] =
                    [status |-> "pending", wf |-> session[s].newTask]]
     /\ session' = [session EXCEPT ![s] = [IdleSession EXCEPT !.pc = "done"]]

-----------------------------------------------------------------------------
(* What ends a transaction that cannot commit *)

\* Everyone in C waits for someone in C.
IsCircle(C) == C # {} /\ \A q \in C : Blockers(q) \cap C # {}

Deadlocked(C) == IsCircle(C) /\ \A D \in SUBSET C : IsCircle(D) => D = C

\* Postgres cancels one of the transactions of a deadlock.
BreakDeadlock(s) ==
  /\ \E C \in SUBSET Sessions : s \in C /\ Deadlocked(C)
  /\ RollsBack(s)

\* A lost connection, DbTimeout, or the caller's rollback.
Abort(s) == session[s].pc = "running" /\ RollsBack(s)

Statement(s) == StartStatement(s) \/ StartInsertWorkflowTask(s) \/ Take(s)

WorkerCommits(s) == ~RunsInCallersTransaction(s) /\ Commit(s)

\* The transactions begin over any tables.
TransactionInit ==
  /\ StorageTypeOK
  /\ session = [s \in Sessions |-> IdleSession]

TransactionNext ==
  \E s \in Sessions :
    \/ BeginAny(s)
    \/ Statement(s)
    \/ Commit(s)
    \/ BreakDeadlock(s)
    \/ Abort(s)

TransactionSpec == TransactionInit /\ [][TransactionNext]_transactionVars

\* Some session goes on as long as one can: a statement takes its next row, a
\* worker commits once its statements have run, a deadlock is broken.  The
\* caller of EnqueueWorkflow or SendSignal commits when it likes.
TransactionFairness ==
  WF_transactionVars(\E s \in Sessions : Statement(s) \/ WorkerCommits(s) \/ BreakDeadlock(s))

-----------------------------------------------------------------------------
(* Properties *)

\* The sessions are well-formed: only a running one has statements, rows to
\* take, writes or locks (IdleSession and RollsBack leave none behind).
TransactionTypeOK ==
  /\ StorageTypeOK
  /\ \A s \in Sessions :
       /\ session[s].pc \in {"idle", "running", "done"}
       /\ session[s].newTask \in WorkflowIDs \cup {None}
       /\ session[s].pc # "running" =>
            session[s] = [IdleSession EXCEPT !.pc = session[s].pc]

\* Whatever happens between its statements, a call changes the tables as if it
\* ran alone at the moment of its commit: what storage.go promises its callers
\* and the rest of this model takes for granted (InsertSignal, signals.go:
\* "Both writes happen inside one transaction"; the deletes and the foreign
\* keys of the migration).
IsAtomic == [][\E s \in Sessions : Perform(session[s].call)]_storageVars

\* The calls of the workers and of the clients lock a task, an activity, a
\* signal or a request before its workflow, so they never deadlock with one
\* another.  A deadlock takes a cleaner, whose DELETE goes the other way
\* (workflows.go, deleteWorkflows), or two claims that take their rows in
\* different orders.
DeadlockNeedsABatch ==
  \A C \in SUBSET Sessions : Deadlocked(C) =>
    \/ \E s \in C : session[s].call.name = "DeleteWorkflows"
    \/ \E s, r \in C :
         /\ s # r
         /\ session[s].call.name = session[r].call.name
         /\ session[s].call.name \in {"ClaimTasks", "ClaimActivities"}

AwaitsCaller(s) ==
  BetweenStatements(s) /\ session[s].script = <<>> /\ RunsInCallersTransaction(s)

\* s is, or waits for, a transaction that its caller keeps open, directly or
\* through others: s is in the least set that has them.
HeldUpByCaller(s) ==
  LET blockers == [q \in Sessions |-> Blockers(q)]
  IN \/ AwaitsCaller(s)
     \/ /\ blockers[s] # {}
        /\ \A H \in SUBSET Sessions :
             (\A q \in Sessions : AwaitsCaller(q) \/ blockers[q] \cap H # {} => q \in H)
             => s \in H

\* Every call ends, without a timeout of its own (InsertActivity and
\* CompleteWorkflow have none, worker_config.go), unless a caller keeps a
\* transaction open: no wait for a lock lasts otherwise, because a deadlock is
\* broken and every other way out releases the locks.
EveryCallEnds ==
  []<>(\A s \in Sessions : session[s].pc = "running" => HeldUpByCaller(s))

-----------------------------------------------------------------------------
(* The inductive invariant of the transactions *)

Running(s) == session[s].pc = "running"

TaskCalls == {"CompleteWorkflowTask", "ReScheduleWorkflowTask", "FailWorkflowTask"}
ActivityCalls == {"CompleteActivity", "ReScheduleActivity", "FailActivity"}
ClaimCalls == {"ClaimTasks", "ClaimActivities"}
InsertCalls == {"InsertWorkflow", "InsertSignal", "InsertActivity"}

\* A call has arguments of the right types; a batch names no workflow.
IsCall(c) ==
  \/ /\ c.name \in InsertCalls \cup TaskCalls \cup ActivityCalls \cup {"CompleteWorkflow"}
     /\ c.w \in WorkflowIDs
     /\ c.name = "InsertWorkflow" => c.id \in RequestKeys
     /\ c.name = "InsertSignal" => (c.id \in Signals /\ c.value \in Inputs)
     /\ c.name = "InsertActivity" => c.id \in Activities
     /\ c.name \in TaskCalls => c.id \in TaskIDs
     /\ c.name \in ActivityCalls => c.id \in ActivityKeys
     /\ c.name = "CompleteActivity" => c.value \in Outputs
  \/ /\ c.name \in ClaimCalls \cup {"DeleteWorkflows"}
     /\ c.w = None

\* The rows that a batch takes.
BatchRows(name) ==
  CASE name = "ClaimTasks" -> {Request("task", t, "no_key_update") : t \in TaskIDs}
    [] name = "ClaimActivities" ->
         {Request("activity", k, "no_key_update") : k \in ActivityKeys}
    [] name = "DeleteWorkflows" ->
         UNION {{Request("workflow", w, "update") : w \in WorkflowIDs},
                {Request("task", t, "update") : t \in TaskIDs},
                {Request("activity", k, "update") : k \in ActivityKeys},
                {Request("signal", k, "update") : k \in SignalKeys}}

First(c) == RowOf(Head(Statements[c.name]), c)

Second(c) ==
  IF c.name \in {"InsertSignal", "CompleteActivity"} THEN Reference(c.w)
  ELSE Request("workflow", c.w, "no_key_update")

\* A call on one row holds nothing while it waits for it, and of the workflow's
\* row no more than it waits for after it.
TakesInOrder(x) ==
  LET c == x.call
  IN /\ \/ /\ x.script = Tail(Statements[c.name])
           /\ \/ x.todo = <<First(c)>> /\ x.locks = {}
              \/ x.todo = <<Reference(c.w)>> /\ c.name \in {"InsertSignal", "InsertActivity"}
              \/ x.todo = <<>>
        \/ x.script = <<>> /\ x.todo = <<>>
        \/ /\ x.script = <<>> /\ x.todo = <<Second(c)>>
           /\ c.name \in TaskCalls \cup {"InsertSignal", "CompleteActivity", "FailActivity"}
     /\ \A lock \in x.locks : lock.row[1] = "workflow" =>
          \/ /\ lock = Reference(c.w)
             /\ c.name \in {"InsertSignal", "InsertActivity", "CompleteActivity"}
          \/ x.todo = <<>> /\ (x.script = <<>> \/ c.name = "InsertWorkflow")

TakesBatch(x) ==
  LET name == x.call.name
  IN /\ x.script = <<>> \/ (name = "DeleteWorkflows" /\ x.script = <<"cascade">>)
     /\ x.todo \in Seq(BatchRows(name))
     /\ x.locks \subseteq BatchRows(name)

\* What a session has written fits the tables.
Fits(row, value) ==
  \/ row[1] = "workflow" /\ value \in WorkflowRow /\ value.status # "none"
  \/ row[1] = "task" /\ value \in TaskRow
  \/ row[1] = "activity" /\ value \in ActivityRow
  \/ row[1] = "signal" /\ value \in SignalRow

WritesFit(x) == \A row \in DOMAIN x.writes : Fits(row, x.writes[row])

IsSession(x) ==
  /\ x = [pc |-> x.pc, call |-> x.call, script |-> x.script, todo |-> x.todo,
          writes |-> x.writes, newTask |-> x.newTask, locks |-> x.locks]
  /\ x.pc \in {"idle", "running", "done"}
  /\ x.pc # "running" => x = [IdleSession EXCEPT !.pc = x.pc]
  /\ x.pc = "running" =>
       /\ IsCall(x.call)
       /\ IF x.call.w = None THEN TakesBatch(x) ELSE TakesInOrder(x)
       /\ WritesFit(x)
       /\ x.newTask \in WorkflowIDs \cup {None}

\* A workflow that is being inserted is no other call's.
InsertedIsOwn ==
  \A s \in Sessions : Running(s) =>
    /\ \A w \in WorkflowIDs : <<"workflow", w>> \in DOMAIN session[s].writes =>
         w = session[s].call.w \/ workflows[w].status # "none"
    /\ session[s].call.name = "InsertWorkflow" =>
         /\ workflows[session[s].call.w].status = "none"
         /\ \A r \in Sessions \ {s} : session[r].call.w # session[s].call.w

LocksAgree ==
  \A s, r \in Sessions : s # r =>
    \A held \in session[s].locks, other \in session[r].locks :
      held.row = other.row => ~Conflicts(held.mode, other.mode)

TransactionInv ==
  /\ StorageTypeOK
  /\ session = [s \in Sessions |-> session[s]]
  /\ \A s \in Sessions : IsSession(session[s])
  /\ InsertedIsOwn
  /\ LocksAgree
-----------------------------------------------------------------------------
(* The inductive invariant behind IsAtomic *)

\* The tables as the migration keeps them: foreign keys hold, and a workflow
\* that was not inserted yet is as it will be.
TablesFit ==
  /\ ForeignKeys
  /\ \A w \in WorkflowIDs : workflows[w].status = "none" =>
       workflows[w].attempts = 1 /\ ~workflows[w].error

\* The lock under which call c writes a row.
WriteLock(c, row) ==
  [row |-> row,
   mode |-> IF c.name \in {"InsertSignal", "InsertActivity", "DeleteWorkflows"}
            THEN "update" ELSE "no_key_update"]

\* The row that call c inserts, and what it will be.
InsertedRow(c) ==
  CASE c.name = "InsertWorkflow" -> <<"workflow", c.w>>
    [] c.name = "InsertSignal"   -> <<"signal", SignalKey[c.w, c.id]>>
    [] c.name = "InsertActivity" -> <<"activity", ActivityKey[c.w, c.id]>>

Inserted(c) ==
  CASE c.name = "InsertWorkflow" ->
         [status |-> "running", key |-> c.id, attempts |-> 1, error |-> FALSE]
    [] c.name = "InsertSignal" -> [wf |-> c.w, input |-> c.value]
    [] c.name = "InsertActivity" ->
         [NoActivityRow EXCEPT !.status = "pending", !.wf = c.w, !.call = c.id]

\* A row that x will insert is still not there.
InsertStands(x, row) ==
  /\ x.call.name \in InsertCalls
  /\ row = InsertedRow(x.call)
  /\ x.writes[row] = Inserted(x.call)
  /\ IF x.call.name = "InsertWorkflow"
     THEN Request("request", x.call.id, "update") \in x.locks
     ELSE WriteLock(x.call, row) \in x.locks /\ ~RowExists(row)

\* A row that x will update or delete is still as it was when it was locked.
UpdateStands(x, row) ==
  /\ x.call.name \notin InsertCalls
  /\ WriteLock(x.call, row) \in x.locks
  /\ Finds(x.call, row)
  /\ x.writes[row] = NewRow(row, WriteLock(x.call, row).mode, x.call)

WritesStand(x) == \A row \in DOMAIN x.writes : InsertStands(x, row) \/ UpdateStands(x, row)

\* A workflow that x refers to is there, and a request that x inserts is not.
LocksStand(x) ==
  /\ \A w \in WorkflowIDs : Reference(w) \in x.locks => Exists(w)
  /\ \A key \in RequestKeys : Request("request", key, "update") \in x.locks =>
       \A w \in WorkflowIDs : Exists(w) => workflows[w].key # key

\* The rows that call c, a call on one row, may write.
Writable(c) ==
  CASE c.name \in InsertCalls -> {InsertedRow(c)}
    [] c.name \in TaskCalls \cup {"FailActivity"} -> {First(c).row, <<"workflow", c.w>>}
    [] OTHER -> {First(c).row}

\* What a call on one row has done when its statements up to here have run.
HasRun(x) ==
  LET c == x.call
      wrote == DOMAIN x.writes
      first == x.todo = <<First(c)>>
      last == x.script = <<>> /\ x.todo = <<>>
  IN /\ wrote \subseteq Writable(c)
     /\ first => wrote = {}
     /\ (~first /\ c.name \notin {"InsertWorkflow", "InsertActivity"}) => First(c).row \in wrote
     /\ (last /\ c.name \in TaskCalls \cup {"FailActivity"}) => <<"workflow", c.w>> \in wrote
     /\ (x.todo = <<>> /\ wrote # {} /\ c.name \in {"InsertSignal", "InsertActivity"}) =>
          Reference(c.w) \in x.locks
     /\ (last /\ c.name = "CompleteActivity") => Reference(c.w) \in x.locks
     /\ x.newTask =
          IF /\ x.script = <<>>
             /\ \/ c.name \in {"InsertSignal", "CompleteActivity"}
                \/ c.name = "InsertWorkflow" /\ wrote # {}
          THEN c.w ELSE None

\* The rows that x writes or still waits for.
Concerned(x) == DOMAIN x.writes \cup {x.todo[i].row : i \in DOMAIN x.todo}

\* A DELETE takes workflows that ended, and its cascade all that refers to them.
CascadeStands(x) ==
  LET deleted == {w \in WorkflowIDs : <<"workflow", w>> \in DOMAIN x.writes}
  IN /\ \A w \in WorkflowIDs : <<"workflow", w>> \in Concerned(x) =>
          workflows[w].status \in {"completed", "failed", "deleted"}
     /\ x.script # <<>> => \A row \in Concerned(x) : row[1] = "workflow"
     /\ x.script = <<>> =>
          /\ \A i \in DOMAIN x.todo : x.todo[i].row[1] # "workflow"
          /\ \A t \in TaskIDs : <<"task", t>> \in Concerned(x) <=> tasks[t].wf \in deleted
          /\ \A k \in ActivityKeys :
               <<"activity", k>> \in Concerned(x) <=> activities[k].wf \in deleted
          /\ \A k \in SignalKeys :
               <<"signal", k>> \in Concerned(x) <=> signals[k].wf \in deleted

\* What a session has done so far is still the part of its call that it was.
Stands(x) ==
  /\ WritesStand(x)
  /\ LocksStand(x)
  /\ x.call.w # None => HasRun(x)
  /\ x.call.w = None => x.newTask = None
  /\ x.call.name = "DeleteWorkflows" => CascadeStands(x)

AtomicInv ==
  /\ TransactionInv
  /\ TablesFit
  /\ \A s \in Sessions : Running(s) => Stands(session[s])
=============================================================================
