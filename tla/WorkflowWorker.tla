----------------------------- MODULE WorkflowWorker -----------------------------
(*****************************************************************************)
(* The workflow worker (workflow_worker.go) and the replay of a handler       *)
(* (workflow.go, workflow_context.go): goroutines that claim a row of         *)
(* floww_workflow_tasks, read the events of its workflow, run the handler     *)
(* over them from the start and write the outcome of the task.                *)
(*                                                                           *)
(* A handler is deterministic: what it does is a function of the events it   *)
(* is given.  calls are the activities it reaches, in order; it then either   *)
(* suspends on an event that is missing or returns.                          *)
(*****************************************************************************)
EXTENDS FlowwStorage

CONSTANTS
  WorkflowRunners,     \* goroutine slots of all workflow workers
  WorkflowMaxAttempts, \* WithWorkflowMaxAttempts
  Handler              \* the workflow handler, a function of a view

Histories == [Activities -> Outputs \cup {None}]
Inboxes == [Signals -> Inputs \cup {None}]
Views == [hist: Histories, sigs: Inboxes]

ASSUME WorkflowWorkerAssumption ==
  /\ IsFiniteSet(WorkflowRunners)
  /\ WorkflowMaxAttempts \in Nat
  /\ \A view \in Views : /\ Handler[view].calls \in Seq(Activities)
                         /\ Handler[view].outcome \in {"suspend", "return"}

VARIABLE
  wruns             \* the task each runner is running

NoHistory == [a \in Activities |-> None]
NoSignals == [s \in Signals |-> None]

\* attempts is workflows[wf].attempts as the claim read it; to_load are the
\* reads still under way; next is the first call of the handler not made yet.
IdleRun ==
  [phase |-> "idle", task |-> None, wf |-> None, attempts |-> 0,
   to_load |-> {}, hist |-> NoHistory, sigs |-> NoSignals, next |-> 1]

\* The run of a task just claimed, with the workflow row the claim joined in.
NewRun(t) ==
  [phase |-> "load", task |-> t, wf |-> tasks[t].wf,
   attempts |-> workflows[tasks[t].wf].attempts,
   to_load |-> {"history", "signals"},
   hist |-> NoHistory, sigs |-> NoSignals, next |-> 1]

\* A run whose handler has returned needs no more of what it read.
Ended(run, phase) ==
  [phase |-> phase, task |-> run.task, wf |-> run.wf, attempts |-> run.attempts,
   to_load |-> {}, hist |-> NoHistory, sigs |-> NoSignals, next |-> 1]

WorkflowRun ==
  [phase: {"idle", "load", "exec", "returned", "broken"},
   task: TaskIDs \cup {None}, wf: WorkflowIDs \cup {None}, attempts: Nat,
   to_load: SUBSET {"history", "signals"},
   hist: Histories, sigs: Inboxes, next: Nat \ {0}]

WorkflowWorkerTypeOK ==
  /\ wruns \in [WorkflowRunners -> WorkflowRun]
  /\ \A r \in WorkflowRunners : wruns[r].phase # "idle" =>
       wruns[r].task \in TaskIDs /\ wruns[r].wf \in WorkflowIDs

WorkflowWorkerInit == wruns = [r \in WorkflowRunners |-> IdleRun]

EndRun(r) == wruns' = [wruns EXCEPT ![r] = IdleRun]

TaskRunsOf(t) == {r \in WorkflowRunners : wruns[r].phase # "idle" /\ wruns[r].task = t}

\* Mutant: a task whose run is gone is never claimed again.
ClaimPendingTask(r, t) ==
  /\ wruns[r].phase = "idle"
  /\ tasks[t].status = "pending"
  /\ tasks' = [tasks EXCEPT ![t].status = "running"]
  /\ wruns' = [wruns EXCEPT ![r] = NewRun(t)]
  /\ UNCHANGED <<workflows, activities, signals>>

\* ListActiveWorkflowTasks: a task that was pending and due, or running and
\* stuck, when the statement took its snapshot becomes running.  The update
\* does not look at the status again, and the workflow row is joined in with
\* whatever status it has.
ClaimTask(r, t) ==
  /\ wruns[r].phase = "idle"
  /\ TaskExists(t)
  /\ tasks' = [tasks EXCEPT ![t].status = "running"]
  /\ wruns' = [wruns EXCEPT ![r] = NewRun(t)]
  /\ UNCHANGED <<workflows, activities, signals>>

-----------------------------------------------------------------------------
(* The replay.  runWorkflow reads the two kinds of events by two queries on   *)
(* two goroutines, so anything may commit between them.                       *)

Loaded(run, part) ==
  [run EXCEPT !.to_load = @ \ {part},
              !.phase = IF run.to_load = {part} THEN "exec" ELSE "load"]

LoadHistory(r) ==
  /\ wruns[r].phase = "load" /\ "history" \in wruns[r].to_load
  /\ wruns' = [wruns EXCEPT ![r] =
       [Loaded(@, "history") EXCEPT !.hist = ListHistoryEventsForWorkflow(wruns[r].wf)]]
  /\ UNCHANGED storageVars

LoadSignals(r) ==
  /\ wruns[r].phase = "load" /\ "signals" \in wruns[r].to_load
  /\ wruns' = [wruns EXCEPT ![r] =
       [Loaded(@, "signals") EXCEPT !.sigs = ListWorkflowSignals(wruns[r].wf)]]
  /\ UNCHANGED storageVars

\* What the handler does with the events the run has read.
Program(run) == Handler[[hist |-> run.hist, sigs |-> run.sigs]]

\* The calls still to make that are not answered from the history.
Unscheduled(run) ==
  {n \in run.next .. Len(Program(run).calls) : run.hist[Program(run).calls[n]] = None}

\* ExecuteActivityAsync for an activity that is not in the history.
ScheduleActivity(r) ==
  /\ wruns[r].phase = "exec"
  /\ \E n \in Unscheduled(wruns[r]) :
       LET w == wruns[r].wf
           k == ActivityKey[w, Program(wruns[r]).calls[n]]
       IN /\ \A m \in Unscheduled(wruns[r]) : n <= m
          /\ ~InsertActivityFails(w, k)
          /\ InsertActivity(w, k, Program(wruns[r]).calls[n])
          /\ wruns' = [wruns EXCEPT ![r] = [@ EXCEPT !.next = n + 1]]
  /\ UNCHANGED <<workflows, tasks, signals>>

\* Mutant: ErrWorkflowSuspended is not told from a handler that is done.
HandlerEndsOrSuspends(r, outcome) ==
  /\ wruns[r].phase = "exec"
  /\ Unscheduled(wruns[r]) = {}

HandlerEnds(r, outcome) ==
  /\ wruns[r].phase = "exec"
  /\ Unscheduled(wruns[r]) = {}
  /\ Program(wruns[r]).outcome = outcome

\* The handler returned nil: the workflow is marked completed, in a statement
\* of its own.  phase is "broken" when the worker is told of an error although
\* the statement took effect.
CompletesWorkflow(r, phase) ==
  /\ HandlerEnds(r, "return")
  /\ Exists(wruns[r].wf)
  /\ CompleteWorkflow(wruns[r].wf)
  /\ wruns' = [wruns EXCEPT ![r] = Ended(@, phase)]
  /\ UNCHANGED <<tasks, activities, signals>>

HandlerReturns(r) == CompletesWorkflow(r, "returned")

CompletionReplyLost(r) == CompletesWorkflow(r, "broken")

-----------------------------------------------------------------------------
(* The outcome of the task *)

\* The handler suspended, or it returned and its workflow is completed.
CompleteTask(r) ==
  /\ wruns[r].phase = "returned" \/ HandlerEnds(r, "suspend")
  /\ CompleteWorkflowTask(wruns[r].task, wruns[r].wf)
  /\ EndRun(r)
  /\ UNCHANGED <<activities, signals>>

\* Mutant: one attempt too many.
TaskErrorAfterLimit(r, unrecoverable) ==
  /\ IF unrecoverable \/ wruns[r].attempts > WorkflowMaxAttempts
     THEN FailWorkflowTask(wruns[r].task, wruns[r].wf)
     ELSE ReScheduleWorkflowTask(wruns[r].task, wruns[r].wf)
  /\ EndRun(r)
  /\ UNCHANGED <<activities, signals>>

\* handleWorkflowTaskError, decided on the attempts read by the claim.
TaskError(r, unrecoverable) ==
  /\ IF unrecoverable \/ wruns[r].attempts >= WorkflowMaxAttempts
     THEN FailWorkflowTask(wruns[r].task, wruns[r].wf)
     ELSE ReScheduleWorkflowTask(wruns[r].task, wruns[r].wf)
  /\ EndRun(r)
  /\ UNCHANGED <<activities, signals>>

\* The handler returns an error of its own, which may be an unrecoverable one,
\* or the replay one of the storage's: a failed read, a rejected
\* InsertActivity, a CompleteWorkflow that found no row or whose reply was lost.
\* A process in which no handler of that name is registered fails in the same way,
\* before it reads anything.
HandlerFails(r) ==
  /\ wruns[r].phase \in {"load", "exec", "broken"}
  /\ \E unrecoverable \in BOOLEAN :
       /\ unrecoverable => wruns[r].phase = "exec"
       /\ TaskError(r, unrecoverable)

\* The process dies, or the transaction that would record the outcome fails
\* and is only logged: nothing is written.
RunLost(r) ==
  /\ wruns[r].phase # "idle"
  /\ EndRun(r)
  /\ UNCHANGED storageVars

RunStep(r) ==
  \/ LoadHistory(r)
  \/ LoadSignals(r)
  \/ ScheduleActivity(r)
  \/ HandlerReturns(r)
  \/ CompleteTask(r)
  \/ HandlerFails(r)
=============================================================================
