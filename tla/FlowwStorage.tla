------------------------------ MODULE FlowwStorage ------------------------------
(*****************************************************************************)
(* The Postgres storage of floww (storage/postgres, migrations): its four     *)
(* tables and the statements and transactions that write them.               *)
(*                                                                           *)
(* A transaction (pgx.BeginFunc) is one atomic step, and so is a statement   *)
(* run outside a transaction.  An UPDATE that affects no row makes its       *)
(* transaction return an error and roll back: the tables stay as they are.   *)
(* Time is abstracted: a pending row may become due (scheduled_at <= now())  *)
(* and a running one stuck (stuck_at <= now()) at any moment.                *)
(*****************************************************************************)
EXTENDS Integers, Sequences, FiniteSets

CONSTANTS
  WorkflowIDs,      \* the uuids that EnqueueWorkflow may mint
  RequestKeys,      \* idempotency keys of EnqueueWorkflow calls
  Activities,       \* the activity call sites of the handler
  ActivityKeys,     \* values of floww_activities.idempotency_key
  ActivityKey,      \* the key of a call site in a workflow
  Signals,          \* the signals a workflow can receive
  SignalKeys,       \* values of floww_signals.idempotency_key
  SignalKey,        \* the key of a signal of a workflow
  Outputs,          \* what an activity handler may return
  Inputs,           \* what a signal may carry
  None,             \* the absent value (SQL NULL, a missing map entry)
  MaxTasks          \* bound on the rows of floww_workflow_tasks

ASSUME StorageAssumption ==
  /\ ActivityKey \in [WorkflowIDs \X Activities -> ActivityKeys]
  /\ SignalKey \in [WorkflowIDs \X Signals -> SignalKeys]
  /\ None \notin WorkflowIDs \cup RequestKeys \cup ActivityKeys
  /\ None \notin Outputs \cup Inputs
  /\ MaxTasks \in Nat

VARIABLES
  workflows,        \* floww_workflows, by id
  tasks,            \* floww_workflow_tasks, by id
  activities,       \* floww_activities, by idempotency key
  signals           \* floww_signals, by idempotency key

storageVars == <<workflows, tasks, activities, signals>>

TaskIDs == 1..MaxTasks

\* "none" is a uuid not minted yet, "deleted" one whose row is gone.
WorkflowRow ==
  [status: {"none", "running", "completed", "failed", "deleted"},
   key: RequestKeys \cup {None}, attempts: Nat, error: BOOLEAN]

TaskRow ==
  [status: {"none", "pending", "running", "completed", "failed", "deleted"},
   wf: WorkflowIDs \cup {None}]

\* call is the call site the row was inserted for: the columns name and input.
ActivityRow ==
  [status: {"none", "pending", "running", "completed", "failed"},
   wf: WorkflowIDs \cup {None}, call: Activities \cup {None},
   attempts: Nat, output: Outputs \cup {None}]

NoActivityRow ==
  [status |-> "none", wf |-> None, call |-> None, attempts |-> 0, output |-> None]

SignalRow == [wf: WorkflowIDs \cup {None}, input: Inputs \cup {None}]

NoSignalRow == [wf |-> None, input |-> None]

StorageTypeOK ==
  /\ workflows \in [WorkflowIDs -> WorkflowRow]
  /\ tasks \in [TaskIDs -> TaskRow]
  /\ activities \in [ActivityKeys -> ActivityRow]
  /\ signals \in [SignalKeys -> SignalRow]

StorageInit ==
  /\ workflows = [w \in WorkflowIDs |->
       [status |-> "none", key |-> None, attempts |-> 1, error |-> FALSE]]
  /\ tasks = [t \in TaskIDs |-> [status |-> "none", wf |-> None]]
  /\ activities = [k \in ActivityKeys |-> NoActivityRow]
  /\ signals = [k \in SignalKeys |-> NoSignalRow]

Exists(w) == workflows[w].status \in {"running", "completed", "failed"}

TaskExists(t) == tasks[t].status \notin {"none", "deleted"}

\* The row with key k is still the one workflow w inserted: a row is
\* identified by its id, which a later row with the same key does not share.
OwnsActivity(w, k) == activities[k].status # "none" /\ activities[k].wf = w

\* The foreign keys of the three tables that refer to floww_workflows.
ForeignKeys ==
  /\ \A t \in TaskIDs : IF TaskExists(t)
       THEN tasks[t].wf \in WorkflowIDs /\ Exists(tasks[t].wf)
       ELSE tasks[t].wf = None
  /\ \A k \in ActivityKeys : IF activities[k].status # "none"
       THEN activities[k].wf \in WorkflowIDs /\ Exists(activities[k].wf)
       ELSE activities[k].wf = None
  /\ \A k \in SignalKeys : signals[k].wf # None => Exists(signals[k].wf)

-----------------------------------------------------------------------------
(* Workflow tasks *)

FreeTasks == {t \in TaskIDs : tasks[t].status = "none"}

\* INSERT ... SELECT: a task under a fresh uuid when the workflow row exists
\* (found says whether it does), nothing otherwise.
insertWorkflowTask(w, found) ==
  IF found
  THEN \E t \in FreeTasks :
         /\ \A u \in FreeTasks : t <= u
         /\ tasks' = [tasks EXCEPT ![t] = [status |-> "pending", wf |-> w]]
  ELSE UNCHANGED tasks

CompleteWorkflowTask(t, w) ==
  IF TaskExists(t)
  THEN /\ tasks' = [tasks EXCEPT ![t].status = "completed"]
       /\ workflows' = [workflows EXCEPT ![w].error = FALSE]
  ELSE UNCHANGED <<tasks, workflows>>

\* Mutant: the task is inserted anew and the old one stays.
ReScheduleWorkflowTaskAnew(t, w) ==
  /\ insertWorkflowTask(w, Exists(w))
  /\ workflows' = [workflows EXCEPT ![w] =
       [@ EXCEPT !.attempts = workflows[w].attempts + 1, !.error = TRUE]]

ReScheduleWorkflowTask(t, w) ==
  IF TaskExists(t)
  THEN /\ tasks' = [tasks EXCEPT ![t].status = "pending"]
       /\ workflows' = [workflows EXCEPT ![w] =
            [@ EXCEPT !.attempts = workflows[w].attempts + 1, !.error = TRUE]]
  ELSE UNCHANGED <<tasks, workflows>>

failWorkflow(w) ==
  workflows' = [workflows EXCEPT ![w] = [@ EXCEPT !.status = "failed", !.error = TRUE]]

FailWorkflowTask(t, w) ==
  IF TaskExists(t)
  THEN /\ tasks' = [tasks EXCEPT ![t].status = "failed"]
       /\ failWorkflow(w)
  ELSE UNCHANGED <<tasks, workflows>>

-----------------------------------------------------------------------------
(* Workflows *)

\* Mutant: idempotency_key is not unique.
InsertAnotherWorkflow(w, key) ==
  /\ workflows[w].status = "none"
  /\ workflows' = [workflows EXCEPT ![w] = [@ EXCEPT !.status = "running", !.key = key]]
  /\ insertWorkflowTask(w, TRUE)
  /\ UNCHANGED <<activities, signals>>

\* The workflow that already holds the key keeps its row and its id is
\* returned; the task is inserted for the id just minted, which in that case
\* has no row, so no task appears.
InsertWorkflow(w, key) ==
  LET isNew == \A u \in WorkflowIDs : Exists(u) => workflows[u].key # key
  IN /\ workflows[w].status = "none"
     /\ workflows' = IF isNew
                     THEN [workflows EXCEPT ![w] =
                            [@ EXCEPT !.status = "running", !.key = key]]
                     ELSE workflows
     /\ insertWorkflowTask(w, isNew)
     /\ UNCHANGED <<activities, signals>>

CompleteWorkflow(w) ==
  workflows' = [workflows EXCEPT ![w] =
    [@ EXCEPT !.status = "completed", !.error = FALSE]]

\* Mutant: the signals of the workflow are not deleted with it.
deleteWorkflowKeepSignals(w, status) ==
  /\ workflows[w].status = status
  /\ workflows' = [workflows EXCEPT ![w] =
       [status |-> "deleted", key |-> None, attempts |-> 1, error |-> FALSE]]
  /\ tasks' = [t \in TaskIDs |-> IF tasks[t].wf = w
       THEN [status |-> "deleted", wf |-> None] ELSE tasks[t]]
  /\ activities' = [k \in ActivityKeys |->
       IF activities[k].wf = w THEN NoActivityRow ELSE activities[k]]
  /\ UNCHANGED signals

\* One row of the DELETE of the cold (completed) or dead (failed) workflows:
\* ON DELETE CASCADE takes its tasks, activities and signals with it.
deleteWorkflow(w, status) ==
  /\ workflows[w].status = status
  /\ workflows' = [workflows EXCEPT ![w] =
       [status |-> "deleted", key |-> None, attempts |-> 1, error |-> FALSE]]
  /\ tasks' = [t \in TaskIDs |-> IF tasks[t].wf = w
       THEN [status |-> "deleted", wf |-> None] ELSE tasks[t]]
  /\ activities' = [k \in ActivityKeys |->
       IF activities[k].wf = w THEN NoActivityRow ELSE activities[k]]
  /\ signals' = [k \in SignalKeys |->
       IF signals[k].wf = w THEN NoSignalRow ELSE signals[k]]

-----------------------------------------------------------------------------
(* Activities *)

\* Mutant: ON CONFLICT DO UPDATE, which takes the row back to pending.
InsertActivityOverRow(w, k, call) ==
  activities' = [activities EXCEPT ![k] =
    [NoActivityRow EXCEPT !.status = "pending", !.wf = w, !.call = call]]

\* ON CONFLICT (idempotency_key) DO NOTHING, whatever workflow and whatever
\* call hold the key.
InsertActivity(w, k, call) ==
  activities' = IF activities[k].status = "none"
    THEN [activities EXCEPT ![k] =
            [NoActivityRow EXCEPT !.status = "pending", !.wf = w, !.call = call]]
    ELSE activities

\* Mutant: floww_activities has no foreign key.
InsertActivityNeverFails(w, k) == FALSE

\* The foreign key rejects an insert for a workflow that was deleted.
InsertActivityFails(w, k) == activities[k].status = "none" /\ ~Exists(w)

\* Mutant: the workflow is not woken up.
CompleteActivityOnly(k, w, output) ==
  /\ activities' = IF OwnsActivity(w, k)
       THEN [activities EXCEPT ![k] = [@ EXCEPT !.status = "completed", !.output = output]]
       ELSE activities
  /\ UNCHANGED <<workflows, tasks, signals>>

CompleteActivity(k, w, output) ==
  /\ IF OwnsActivity(w, k)
     THEN /\ activities' = [activities EXCEPT ![k] =
               [@ EXCEPT !.status = "completed", !.output = output]]
          /\ insertWorkflowTask(w, Exists(w))
     ELSE UNCHANGED <<activities, tasks>>
  /\ UNCHANGED <<workflows, signals>>

ReScheduleActivity(k, w) ==
  /\ activities' = IF OwnsActivity(w, k)
       THEN [activities EXCEPT ![k].status = "pending"]
       ELSE activities
  /\ UNCHANGED <<workflows, tasks, signals>>

\* Mutant: the workflow is not failed.
FailActivityOnly(k, w) ==
  /\ activities' = IF OwnsActivity(w, k)
       THEN [activities EXCEPT ![k].status = "failed"]
       ELSE activities
  /\ UNCHANGED <<workflows, tasks, signals>>

FailActivity(k, w) ==
  /\ IF OwnsActivity(w, k)
     THEN /\ activities' = [activities EXCEPT ![k].status = "failed"]
          /\ failWorkflow(w)
     ELSE UNCHANGED <<activities, workflows>>
  /\ UNCHANGED <<tasks, signals>>

-----------------------------------------------------------------------------
(* Signals and the reads of a replay *)

\* The insert has no ON CONFLICT clause: a second signal with the same key and
\* a signal to a deleted workflow are errors, and the transaction rolls back.
InsertSignalFails(w, s) == signals[SignalKey[w, s]].wf # None \/ ~Exists(w)

\* Mutant: the workflow is not woken up.
InsertSignalOnly(w, s, input) ==
  /\ signals' = [signals EXCEPT ![SignalKey[w, s]] = [wf |-> w, input |-> input]]
  /\ UNCHANGED <<workflows, tasks, activities>>

InsertSignal(w, s, input) ==
  /\ signals' = [signals EXCEPT ![SignalKey[w, s]] = [wf |-> w, input |-> input]]
  /\ insertWorkflowTask(w, Exists(w))
  /\ UNCHANGED <<workflows, activities>>

\* The completed activities of w, as the handler will look them up.
ListHistoryEventsForWorkflow(w) ==
  [a \in Activities |->
     LET k == ActivityKey[w, a]
     IN IF OwnsActivity(w, k) /\ activities[k].status = "completed"
        THEN activities[k].output ELSE None]

\* The signals of w, as the handler will look them up.
ListWorkflowSignals(w) ==
  [s \in Signals |->
     LET k == SignalKey[w, s]
     IN IF signals[k].wf = w THEN signals[k].input ELSE None]
=============================================================================
