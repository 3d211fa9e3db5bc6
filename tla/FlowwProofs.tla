------------------------------ MODULE FlowwProofs ------------------------------
(*****************************************************************************)
(* Proofs about the engine, for any number of workflows, activities, signals  *)
(* and runners, any deterministic handler and any number of faults.          *)
(*****************************************************************************)
EXTENDS FlowwProperties, TLAPS

-----------------------------------------------------------------------------
(* Typing of what a handler run reads *)

LEMMA ReadsType ==
  ASSUME StorageTypeOK, NEW w \in WorkflowIDs
  PROVE  /\ ListHistoryEventsForWorkflow(w) \in Histories
         /\ ListWorkflowSignals(w) \in Inboxes
BY StorageAssumption
   DEF StorageTypeOK, ListHistoryEventsForWorkflow, ListWorkflowSignals,
       Histories, Inboxes, ActivityRow, SignalRow

LEMMA ProgramType ==
  ASSUME NEW run \in WorkflowRun
  PROVE  Program(run).calls \in Seq(Activities)
BY WorkflowWorkerAssumption DEF Program, Views, WorkflowRun

LEMMA IdleRunType == IdleRun \in WorkflowRun
BY DEF IdleRun, WorkflowRun, NoHistory, NoSignals, Histories, Inboxes

LEMMA IdleActivityType == IdleActivity \in ActivityRun
BY DEF IdleActivity, ActivityRun

THEOREM InitIInv == Init => IInv
<1> SUFFICES ASSUME Init PROVE IInv
  OBVIOUS
<1>1. TypeOK
  <2>1. StorageTypeOK
    BY DEF Init, StorageInit, StorageTypeOK, WorkflowRow, TaskRow, ActivityRow,
           NoActivityRow, SignalRow, NoSignalRow
  <2>2. WorkflowWorkerTypeOK
    BY IdleRunType DEF Init, WorkflowWorkerInit, WorkflowWorkerTypeOK, IdleRun
  <2>3. ActivityWorkerTypeOK
    BY IdleActivityType
    DEF Init, ActivityWorkerInit, ActivityWorkerTypeOK, IdleActivity
  <2>4. QED
    BY <2>1, <2>2, <2>3, FlowwAssumption DEF TypeOK, Init
<1>2. ForeignKeys
  BY DEF Init, StorageInit, ForeignKeys, TaskExists, NoActivityRow, NoSignalRow
<1>3. RunsMatchTasks
  BY DEF Init, WorkflowWorkerInit, RunsMatchTasks, IdleRun
<1>4. FailureIsJoint
  BY DEF Init, StorageInit, FailureIsJoint, NoActivityRow
<1>5. QED
  BY <1>1, <1>2, <1>3, <1>4 DEF IInv

-----------------------------------------------------------------------------
(* What the storage's operations leave alone *)

\* A task that was inserted is never forgotten, and keeps its workflow while
\* it is there.
TasksKeepWorkflow ==
  \A t \in TaskIDs : tasks[t].status # "none" =>
    /\ tasks'[t].status # "none"
    /\ TaskExists(t)' => TaskExists(t) /\ tasks'[t].wf = tasks[t].wf

LEMMA InsertTask ==
  ASSUME StorageTypeOK, NEW w \in WorkflowIDs, NEW found \in BOOLEAN,
         insertWorkflowTask(w, found)
  PROVE  /\ tasks' \in [TaskIDs -> TaskRow]
         /\ \A t \in TaskIDs : \/ tasks'[t] = tasks[t]
                               \/ /\ found
                                  /\ tasks[t].status = "none"
                                  /\ tasks'[t] = [status |-> "pending", wf |-> w]
         /\ TasksKeepWorkflow
<1>1. CASE ~found
  BY <1>1 DEF StorageTypeOK, insertWorkflowTask, TasksKeepWorkflow, TaskExists
<1>2. CASE found
  <2> DEFINE row == [status |-> "pending", wf |-> w]
  <2>1. PICK t \in TaskIDs : /\ tasks[t].status = "none"
                             /\ tasks' = [tasks EXCEPT ![t] = row]
    BY <1>2 DEF insertWorkflowTask, FreeTasks
  <2>2. row \in TaskRow /\ row.status = "pending"
    BY DEF TaskRow
  <2> HIDE DEF row
  <2>3. tasks' \in [TaskIDs -> TaskRow]
    BY <2>1, <2>2 DEF StorageTypeOK
  <2>4. \A u \in TaskIDs : tasks'[u] = IF u = t THEN row ELSE tasks[u]
    BY <2>1 DEF StorageTypeOK
  <2>5. TasksKeepWorkflow
    BY <2>1, <2>4 DEF TasksKeepWorkflow, TaskExists
  <2>6. QED
    BY <1>2, <2>1, <2>3, <2>4, <2>5 DEF row
<1>3. QED
  BY <1>1, <1>2

LEMMA SetTaskStatus ==
  ASSUME StorageTypeOK, NEW t \in TaskIDs, TaskExists(t),
         NEW new \in {"pending", "running", "completed", "failed"},
         tasks' = [tasks EXCEPT ![t].status = new]
  PROVE  /\ tasks' \in [TaskIDs -> TaskRow]
         /\ \A u \in TaskIDs : /\ tasks'[u].wf = tasks[u].wf
                               /\ u # t => tasks'[u] = tasks[u]
                               /\ TaskExists(u)' <=> TaskExists(u)
         /\ tasks'[t].status = new
         /\ TasksKeepWorkflow
BY DEF StorageTypeOK, TaskRow, TasksKeepWorkflow, TaskExists

\* A workflow that is there stays there, and is never set running.
WorkflowsStay ==
  /\ workflows' \in [WorkflowIDs -> WorkflowRow]
  /\ \A u \in WorkflowIDs : Exists(u) => Exists(u)'
  /\ \A u \in WorkflowIDs : Running(u)' => Running(u)

LEMMA SetWorkflow ==
  ASSUME StorageTypeOK, NEW w \in WorkflowIDs, Exists(w), NEW row \in WorkflowRow,
         row.status \in {workflows[w].status, "completed", "failed"},
         workflows' = [workflows EXCEPT ![w] = row]
  PROVE  WorkflowsStay /\ workflows'[w] = row
<1>1. \A u \in WorkflowIDs : workflows'[u] = IF u = w THEN row ELSE workflows[u]
  BY DEF StorageTypeOK
<1>2. workflows' \in [WorkflowIDs -> WorkflowRow]
  BY DEF StorageTypeOK
<1>3. QED
  BY <1>1, <1>2 DEF WorkflowsStay, Exists, Running

LEMMA failWorkflowFails ==
  ASSUME StorageTypeOK, NEW w \in WorkflowIDs, Exists(w), failWorkflow(w)
  PROVE  WorkflowsStay /\ ~Running(w)'
<1> DEFINE row == [workflows[w] EXCEPT !.status = "failed", !.error = TRUE]
<1>1. row \in WorkflowRow /\ row.status = "failed"
  BY DEF StorageTypeOK, WorkflowRow
<1>2. workflows' = [workflows EXCEPT ![w] = row]
  BY DEF failWorkflow
<1> HIDE DEF row
<1>3. QED
  BY <1>1, <1>2, SetWorkflow DEF Running

LEMMA CompleteTaskStays ==
  ASSUME StorageTypeOK, NEW t \in TaskIDs, NEW w \in WorkflowIDs, Exists(w),
         TaskExists(t), CompleteWorkflowTask(t, w)
  PROVE  WorkflowsStay
<1> DEFINE row == [workflows[w] EXCEPT !.error = FALSE]
<1>1. row \in WorkflowRow /\ row.status = workflows[w].status
  BY DEF StorageTypeOK, WorkflowRow
<1>2. workflows' = [workflows EXCEPT ![w] = row]
  BY DEF CompleteWorkflowTask
<1> HIDE DEF row
<1>3. QED
  BY <1>1, <1>2, SetWorkflow

LEMMA ReScheduleTaskStays ==
  ASSUME StorageTypeOK, NEW t \in TaskIDs, NEW w \in WorkflowIDs, Exists(w),
         TaskExists(t), ReScheduleWorkflowTask(t, w)
  PROVE  WorkflowsStay
<1> DEFINE row == [workflows[w] EXCEPT !.attempts = workflows[w].attempts + 1, !.error = TRUE]
<1>1. row \in WorkflowRow /\ row.status = workflows[w].status
  <2>1. workflows[w] \in WorkflowRow
    BY DEF StorageTypeOK
  <2>2. workflows[w].attempts + 1 \in Nat
    BY <2>1 DEF WorkflowRow
  <2>3. QED
    BY <2>1, <2>2 DEF WorkflowRow
<1>2. workflows' = [workflows EXCEPT ![w] = row]
  BY DEF ReScheduleWorkflowTask
<1> HIDE DEF row
<1>3. QED
  BY <1>1, <1>2, SetWorkflow

\* Ending a run, or doing nothing to the runs, keeps them well formed.
LEMMA RunsStay ==
  ASSUME WorkflowWorkerTypeOK, RunsMatchTasks, TasksKeepWorkflow,
         wruns' = wruns \/ \E r \in WorkflowRunners : EndRun(r)
  PROVE  WorkflowWorkerTypeOK' /\ RunsMatchTasks'
<1>1. \A r \in WorkflowRunners : wruns'[r] = wruns[r] \/ wruns'[r] = IdleRun
  BY DEF EndRun, WorkflowWorkerTypeOK
<1>2. WorkflowWorkerTypeOK'
  <2>1. wruns' \in [WorkflowRunners -> WorkflowRun]
    BY IdleRunType DEF WorkflowWorkerTypeOK, EndRun
  <2>2. QED
    BY <2>1, <1>1 DEF WorkflowWorkerTypeOK, IdleRun
<1>3. RunsMatchTasks'
  BY <1>1 DEF RunsMatchTasks, TasksKeepWorkflow, IdleRun, TaskExists, WorkflowWorkerTypeOK
<1>4. QED
  BY <1>2, <1>3

LEMMA ActivityRunsStay ==
  ASSUME ActivityWorkerTypeOK,
         aruns' = aruns \/ \E r \in ActivityRunners : EndActivityRun(r)
  PROVE  ActivityWorkerTypeOK'
<1>1. aruns' \in [ActivityRunners -> ActivityRun]
  BY IdleActivityType DEF ActivityWorkerTypeOK, EndActivityRun
<1>2. \A r \in ActivityRunners : aruns'[r] = aruns[r] \/ ~aruns'[r].busy
  BY DEF ActivityWorkerTypeOK, EndActivityRun, IdleActivity
<1>3. QED
  BY <1>1, <1>2 DEF ActivityWorkerTypeOK

-----------------------------------------------------------------------------
(* Clients *)

LEMMA EnqueueWorkflowIInv ==
  ASSUME IInv, NEW w \in WorkflowIDs, NEW key \in RequestKeys,
         EnqueueWorkflow(w, key)
  PROVE  IInv'
<1> DEFINE isNew == \A u \in WorkflowIDs : Exists(u) => workflows[u].key # key
<1> USE DEF IInv, TypeOK
<1>1. /\ insertWorkflowTask(w, isNew)
      /\ isNew \in BOOLEAN
      /\ workflows[w].status = "none"
      /\ \A u \in WorkflowIDs : /\ u # w => workflows'[u] = workflows[u]
                                /\ Exists(u) => Exists(u)'
                                /\ Running(u)' => Running(u) \/ (u = w /\ isNew)
      /\ isNew => Exists(w)'
      /\ workflows' \in [WorkflowIDs -> WorkflowRow]
      /\ UNCHANGED <<activities, signals, wruns, aruns, replies, faults>>
  BY DEF EnqueueWorkflow, InsertWorkflow, StorageTypeOK, WorkflowRow, Exists, Running
<1>2. /\ tasks' \in [TaskIDs -> TaskRow]
      /\ \A t \in TaskIDs : \/ tasks'[t] = tasks[t]
                            \/ /\ isNew
                               /\ tasks[t].status = "none"
                               /\ tasks'[t] = [status |-> "pending", wf |-> w]
      /\ TasksKeepWorkflow
  BY <1>1, InsertTask
<1> HIDE DEF isNew
<1>3. TypeOK'
  BY <1>1, <1>2, RunsStay DEF StorageTypeOK, ActivityWorkerTypeOK
<1>4. ForeignKeys'
  BY <1>1, <1>2 DEF ForeignKeys, TaskExists, StorageTypeOK, SignalRow
<1>5. RunsMatchTasks'
  BY <1>1, <1>2, RunsStay
<1>6. FailureIsJoint'
  BY <1>1, <1>2 DEF FailureIsJoint, ForeignKeys, TaskExists, Exists
<1>7. QED
  BY <1>3, <1>4, <1>5, <1>6

LEMMA SendSignalIInv ==
  ASSUME IInv, NEW w \in WorkflowIDs, NEW s \in Signals, NEW input \in Inputs,
         SendSignal(w, s, input)
  PROVE  IInv'
<1> USE DEF IInv, TypeOK
<1>1. replies' \in [WorkflowIDs -> [Signals -> {"none", "ok", "error"}]]
  BY DEF SendSignal
<1>2. CASE InsertSignalFails(w, s)
  <2>1. UNCHANGED <<storageVars, wruns, aruns, faults>>
    BY <1>2 DEF SendSignal
  <2>2. TypeOK'
    BY <1>1, <2>1 DEF StorageTypeOK, storageVars, WorkflowWorkerTypeOK, ActivityWorkerTypeOK
  <2>3. (ForeignKeys /\ RunsMatchTasks /\ FailureIsJoint)'
    BY <2>1 DEF storageVars, ForeignKeys, RunsMatchTasks, FailureIsJoint,
                TaskExists, Exists, Running
  <2>4. QED
    BY <2>2, <2>3
<1>3. CASE ~InsertSignalFails(w, s)
  <2> DEFINE row == [wf |-> w, input |-> input]
  <2>1. /\ Exists(w)
        /\ signals' = [signals EXCEPT ![SignalKey[<<w, s>>]] = row]
        /\ SignalKey[<<w, s>>] \in SignalKeys
        /\ row \in SignalRow
        /\ insertWorkflowTask(w, TRUE)
        /\ UNCHANGED <<workflows, activities, wruns, aruns, faults>>
    BY <1>3, StorageAssumption DEF SendSignal, InsertSignalFails, InsertSignal, SignalRow
  <2>2. /\ tasks' \in [TaskIDs -> TaskRow]
        /\ \A t \in TaskIDs : \/ tasks'[t] = tasks[t]
                              \/ /\ tasks[t].status = "none"
                                 /\ tasks'[t] = [status |-> "pending", wf |-> w]
        /\ TasksKeepWorkflow
    BY <2>1, InsertTask
  <2>3. TypeOK'
    BY <1>1, <2>1, <2>2, RunsStay DEF StorageTypeOK, ActivityWorkerTypeOK
  <2>4. ForeignKeys'
    BY <2>1, <2>2 DEF ForeignKeys, TaskExists, Exists, StorageTypeOK
  <2>5. RunsMatchTasks'
    BY <2>1, <2>2, RunsStay
  <2>6. FailureIsJoint'
    BY <2>1, <2>2 DEF FailureIsJoint, ForeignKeys, TaskExists, Running
  <2>7. QED
    BY <2>3, <2>4, <2>5, <2>6
<1>4. QED
  BY <1>2, <1>3

-----------------------------------------------------------------------------
(* The workflow worker *)

LEMMA PollWorkflowTaskIInv ==
  ASSUME IInv, NEW r \in WorkflowRunners, NEW t \in TaskIDs,
         PollWorkflowTask(r, t) \/ PollWorkflowTaskAgain(r, t)
  PROVE  IInv'
<1> DEFINE w == tasks[t].wf
           run == NewRun(t)
<1> USE DEF IInv, TypeOK
<1>1. /\ TaskExists(t)
      /\ tasks' = [tasks EXCEPT ![t].status = "running"]
      /\ wruns' = [wruns EXCEPT ![r] = run]
      /\ UNCHANGED <<workflows, activities, signals, aruns, replies>>
      /\ faults' \in 0..MaxFaults
  BY FlowwAssumption DEF PollWorkflowTask, PollWorkflowTaskAgain, ClaimTask, Harm
<1>2. /\ tasks' \in [TaskIDs -> TaskRow]
      /\ \A u \in TaskIDs : /\ tasks'[u].wf = tasks[u].wf
                            /\ u # t => tasks'[u] = tasks[u]
                            /\ TaskExists(u)' <=> TaskExists(u)
      /\ tasks'[t].status = "running"
      /\ TasksKeepWorkflow
  BY <1>1, SetTaskStatus
<1>3. w \in WorkflowIDs
  BY <1>1 DEF ForeignKeys
<1>4. /\ run \in WorkflowRun
      /\ run.task = t /\ run.wf = w
  <2>1. workflows[w].attempts \in Nat
    BY <1>3 DEF StorageTypeOK, WorkflowRow
  <2>2. NoHistory \in Histories /\ NoSignals \in Inboxes
    BY DEF NoHistory, NoSignals, Histories, Inboxes
  <2>3. QED
    BY <1>3, <2>1, <2>2 DEF WorkflowRun, NewRun
<1>5. \A q \in WorkflowRunners : wruns'[q] = IF q = r THEN run ELSE wruns[q]
  BY <1>1 DEF WorkflowWorkerTypeOK
<1> HIDE DEF run
<1>6. WorkflowWorkerTypeOK'
  <2>1. wruns' \in [WorkflowRunners -> WorkflowRun]
    BY <1>1, <1>4 DEF WorkflowWorkerTypeOK
  <2>2. QED
    BY <2>1, <1>3, <1>4, <1>5 DEF WorkflowWorkerTypeOK
<1>7. TypeOK'
  BY <1>1, <1>2, <1>6 DEF StorageTypeOK, ActivityWorkerTypeOK
<1>8. ForeignKeys'
  BY <1>1, <1>2 DEF ForeignKeys, Exists
<1>9. RunsMatchTasks'
  BY <1>1, <1>2, <1>4, <1>5
  DEF RunsMatchTasks, TasksKeepWorkflow, TaskExists, WorkflowWorkerTypeOK
<1>10. FailureIsJoint'
  BY <1>1, <1>2 DEF FailureIsJoint, Running
<1>11. QED
  BY <1>7, <1>8, <1>9, <1>10

\* A run that moves on keeps its task and its workflow.
LEMMA RunMovesOn ==
  ASSUME WorkflowWorkerTypeOK, RunsMatchTasks, UNCHANGED tasks,
         NEW r \in WorkflowRunners, wruns[r].phase # "idle",
         NEW run \in WorkflowRun,
         run.task = wruns[r].task, run.wf = wruns[r].wf,
         wruns' = [wruns EXCEPT ![r] = run]
  PROVE  WorkflowWorkerTypeOK' /\ RunsMatchTasks'
<1>1. wruns' \in [WorkflowRunners -> WorkflowRun]
  BY DEF WorkflowWorkerTypeOK
<1>2. \A q \in WorkflowRunners : wruns'[q] = IF q = r THEN run ELSE wruns[q]
  BY DEF WorkflowWorkerTypeOK
<1>3. WorkflowWorkerTypeOK'
  BY <1>1, <1>2 DEF WorkflowWorkerTypeOK
<1>4. RunsMatchTasks'
  BY <1>2 DEF RunsMatchTasks, TaskExists
<1>5. QED
  BY <1>3, <1>4

LEMMA LoadedType ==
  ASSUME NEW run \in WorkflowRun, NEW part
  PROVE  /\ Loaded(run, part) \in WorkflowRun
         /\ Loaded(run, part).task = run.task
         /\ Loaded(run, part).wf = run.wf
BY DEF Loaded, WorkflowRun

LEMMA LoadIInv ==
  ASSUME IInv, NEW r \in WorkflowRunners, LoadHistory(r) \/ LoadSignals(r),
         UNCHANGED <<aruns, replies, faults>>
  PROVE  IInv'
<1> DEFINE run == wruns[r]
           full == IF LoadHistory(r)
             THEN [Loaded(run, "history") EXCEPT !.hist = ListHistoryEventsForWorkflow(run.wf)]
             ELSE [Loaded(run, "signals") EXCEPT !.sigs = ListWorkflowSignals(run.wf)]
<1> USE DEF IInv, TypeOK
<1>1. /\ UNCHANGED storageVars
      /\ wruns' = [wruns EXCEPT ![r] = full]
  BY DEF LoadHistory, LoadSignals
<1>2. /\ run \in WorkflowRun
      /\ run.phase # "idle"
      /\ run.wf \in WorkflowIDs
  BY DEF LoadHistory, LoadSignals, WorkflowWorkerTypeOK
<1>3. full \in WorkflowRun /\ full.task = run.task /\ full.wf = run.wf
  BY <1>2, LoadedType, ReadsType DEF WorkflowRun
<1>4. (WorkflowWorkerTypeOK /\ RunsMatchTasks)'
  BY <1>1, <1>2, <1>3, RunMovesOn DEF storageVars
<1>5. TypeOK'
  BY <1>1, <1>4 DEF storageVars, StorageTypeOK, ActivityWorkerTypeOK
<1>6. (ForeignKeys /\ FailureIsJoint)'
  BY <1>1 DEF storageVars, ForeignKeys, FailureIsJoint, TaskExists, Exists, Running
<1>7. QED
  BY <1>4, <1>5, <1>6

LEMMA ScheduleActivityIInv ==
  ASSUME IInv, NEW r \in WorkflowRunners, ScheduleActivity(r),
         UNCHANGED <<aruns, replies, faults>>
  PROVE  IInv'
<1> DEFINE run == wruns[r]
           w == run.wf
           calls == Program(run).calls
<1> USE DEF IInv, TypeOK
<1>1. PICK n \in Unscheduled(run) :
        /\ ~InsertActivityFails(w, ActivityKey[<<w, calls[n]>>])
        /\ InsertActivity(w, ActivityKey[<<w, calls[n]>>], calls[n])
        /\ wruns' = [wruns EXCEPT ![r] = [run EXCEPT !.next = n + 1]]
  BY DEF ScheduleActivity
<1> DEFINE k == ActivityKey[<<w, calls[n]>>]
<1>2. /\ run \in WorkflowRun /\ run.phase # "idle" /\ w \in WorkflowIDs
      /\ UNCHANGED <<workflows, tasks, signals>>
  BY DEF ScheduleActivity, WorkflowWorkerTypeOK
<1>3. n \in Nat \ {0} /\ k \in ActivityKeys /\ calls[n] \in Activities
  <2>1. calls \in Seq(Activities) /\ run.next \in Nat \ {0}
    BY <1>2, ProgramType DEF WorkflowRun
  <2>2. n \in run.next .. Len(calls)
    BY DEF Unscheduled
  <2> HIDE DEF calls
  <2>3. n \in Nat \ {0} /\ n \in 1..Len(calls)
    BY <2>1, <2>2
  <2>4. calls[n] \in Activities
    BY <2>1, <2>3
  <2>5. QED
    BY <1>2, <2>3, <2>4, StorageAssumption
<1>4. (WorkflowWorkerTypeOK /\ RunsMatchTasks)'
  <2> DEFINE moved == [run EXCEPT !.next = n + 1]
  <2>1. /\ moved \in WorkflowRun
        /\ moved.task = run.task /\ moved.wf = run.wf
    BY <1>2, <1>3 DEF WorkflowRun
  <2>2. wruns' = [wruns EXCEPT ![r] = moved]
    BY <1>1
  <2>3. QED
    BY <1>2, <2>1, <2>2, RunMovesOn
<1> DEFINE row == [NoActivityRow EXCEPT !.status = "pending", !.wf = w, !.call = calls[n]]
<1>5. row \in ActivityRow /\ row.status = "pending" /\ row.wf = w
  BY <1>2, <1>3 DEF ActivityRow, NoActivityRow
<1> HIDE DEF k
<1>6. \/ UNCHANGED activities
      \/ /\ Exists(w)
         /\ activities' = [activities EXCEPT ![k] = row]
  BY <1>1, <1>2 DEF InsertActivity, InsertActivityFails, k
<1> HIDE DEF row
<1>7. TypeOK'
  BY <1>2, <1>3, <1>4, <1>5, <1>6 DEF StorageTypeOK, ActivityWorkerTypeOK
<1>8. ForeignKeys'
  BY <1>2, <1>3, <1>5, <1>6 DEF ForeignKeys, TaskExists, Exists, StorageTypeOK
<1>9. FailureIsJoint'
  BY <1>2, <1>3, <1>5, <1>6 DEF FailureIsJoint, Running, StorageTypeOK
<1>10. QED
  BY <1>4, <1>7, <1>8, <1>9

LEMMA CompletesWorkflowIInv ==
  ASSUME IInv, NEW r \in WorkflowRunners, NEW phase \in {"returned", "broken"},
         CompletesWorkflow(r, phase),
         UNCHANGED <<aruns, replies>>, faults' \in 0..MaxFaults
  PROVE  IInv'
<1> DEFINE run == wruns[r]
           w == run.wf
           row == [workflows[w] EXCEPT !.status = "completed", !.error = FALSE]
<1> USE DEF IInv, TypeOK
<1>1. /\ run \in WorkflowRun /\ run.phase # "idle" /\ w \in WorkflowIDs
      /\ Exists(w)
      /\ workflows' = [workflows EXCEPT ![w] = row]
      /\ wruns' = [wruns EXCEPT ![r] = Ended(run, phase)]
      /\ UNCHANGED <<tasks, activities, signals>>
  BY DEF CompletesWorkflow, HandlerEnds, CompleteWorkflow, WorkflowWorkerTypeOK
<1>2. WorkflowsStay
  <2>1. row \in WorkflowRow /\ row.status = "completed"
    BY <1>1 DEF StorageTypeOK, WorkflowRow
  <2> HIDE DEF row
  <2>2. QED
    BY <1>1, <2>1, SetWorkflow
<1>3. (WorkflowWorkerTypeOK /\ RunsMatchTasks)'
  <2>1. NoHistory \in Histories /\ NoSignals \in Inboxes
    BY DEF NoHistory, NoSignals, Histories, Inboxes
  <2>2. /\ Ended(run, phase) \in WorkflowRun
        /\ Ended(run, phase).task = run.task
        /\ Ended(run, phase).wf = run.wf
    BY <1>1, <2>1 DEF WorkflowRun, Ended
  <2>3. QED
    BY <1>1, <2>2, RunMovesOn
<1>4. TypeOK'
  BY <1>1, <1>2, <1>3 DEF StorageTypeOK, ActivityWorkerTypeOK, WorkflowsStay
<1>5. ForeignKeys'
  BY <1>1, <1>2 DEF ForeignKeys, TaskExists, WorkflowsStay, StorageTypeOK, SignalRow
<1>6. FailureIsJoint'
  BY <1>1, <1>2 DEF FailureIsJoint, ForeignKeys, TaskExists, WorkflowsStay
<1>7. QED
  BY <1>3, <1>4, <1>5, <1>6

\* The three ways a task ends, as one: the task and its workflow are written
\* together, or the task is gone and nothing is.
LEMMA TaskEndsIInv ==
  ASSUME IInv, NEW r \in WorkflowRunners, wruns[r].phase # "idle", EndRun(r),
         \/ CompleteWorkflowTask(wruns[r].task, wruns[r].wf)
         \/ ReScheduleWorkflowTask(wruns[r].task, wruns[r].wf)
         \/ FailWorkflowTask(wruns[r].task, wruns[r].wf),
         UNCHANGED <<activities, signals, aruns, replies, faults>>
  PROVE  IInv'
<1> DEFINE t == wruns[r].task
           w == wruns[r].wf
<1> USE DEF IInv, TypeOK
<1>1. t \in TaskIDs /\ w \in WorkflowIDs
  BY DEF WorkflowWorkerTypeOK
<1>2. CASE TaskExists(t)
  <2>1. tasks[t].wf = w /\ Exists(w)
    BY <1>1, <1>2 DEF RunsMatchTasks, ForeignKeys
  <2>2. PICK new \in {"pending", "completed", "failed"} :
          /\ tasks' = [tasks EXCEPT ![t].status = new]
          /\ new = "failed" => failWorkflow(w)
    BY <1>2 DEF CompleteWorkflowTask, ReScheduleWorkflowTask, FailWorkflowTask
  <2>3. /\ tasks' \in [TaskIDs -> TaskRow]
        /\ \A u \in TaskIDs : /\ tasks'[u].wf = tasks[u].wf
                              /\ u # t => tasks'[u] = tasks[u]
                              /\ TaskExists(u)' <=> TaskExists(u)
        /\ tasks'[t].status = new
        /\ TasksKeepWorkflow
    BY <1>1, <1>2, <2>2, SetTaskStatus
  <2>4. WorkflowsStay /\ (new = "failed" => workflows'[w].status # "running")
    <3>1. CASE new = "failed"
      BY <1>1, <2>1, <2>2, <3>1, failWorkflowFails DEF Running
    <3>2. CASE new # "failed"
      <4>1. ~FailWorkflowTask(t, w)
        BY <1>1, <1>2, <2>3, <3>2 DEF FailWorkflowTask, StorageTypeOK, TaskRow
      <4>2. QED
        BY <1>1, <1>2, <2>1, <3>2, <4>1, CompleteTaskStays, ReScheduleTaskStays
    <3>3. QED
      BY <3>1, <3>2
  <2>5. (WorkflowWorkerTypeOK /\ RunsMatchTasks)'
    BY <2>3, RunsStay
  <2>6. TypeOK'
    BY <2>3, <2>4, <2>5 DEF StorageTypeOK, ActivityWorkerTypeOK, WorkflowsStay
  <2>7. ForeignKeys'
    BY <2>3, <2>4 DEF ForeignKeys, WorkflowsStay, StorageTypeOK, SignalRow
  <2>8. FailureIsJoint'
    <3>1. ASSUME NEW u \in TaskIDs, tasks'[u].status = "failed"
          PROVE  ~Running(tasks[u].wf)'
      BY <1>1, <2>1, <2>3, <2>4, <3>1
      DEF FailureIsJoint, ForeignKeys, TaskExists, WorkflowsStay, Running
    <3>2. ASSUME NEW k \in ActivityKeys, activities'[k].status = "failed"
          PROVE  ~Running(activities[k].wf)'
      BY <2>4, <3>2 DEF FailureIsJoint, ForeignKeys, WorkflowsStay, Running
    <3>3. QED
      BY <3>1, <3>2 DEF FailureIsJoint
  <2>9. QED
    BY <2>5, <2>6, <2>7, <2>8
<1>3. CASE ~TaskExists(t)
  <2>1. UNCHANGED <<workflows, tasks>>
    BY <1>3 DEF CompleteWorkflowTask, ReScheduleWorkflowTask, FailWorkflowTask
  <2>2. (WorkflowWorkerTypeOK /\ RunsMatchTasks)'
    BY <2>1, RunsStay DEF TasksKeepWorkflow, TaskExists
  <2>3. (TypeOK /\ ForeignKeys /\ FailureIsJoint)'
    BY <2>1, <2>2 DEF StorageTypeOK, ActivityWorkerTypeOK, ForeignKeys,
       FailureIsJoint, TaskExists, Exists, Running
  <2>4. QED
    BY <2>2, <2>3
<1>4. QED
  BY <1>2, <1>3

\* The actions of the workflow worker's runs, in one.
LEMMA WorkflowRunnerIInv ==
  ASSUME IInv, NEW r \in WorkflowRunners,
         WorkflowRunnerStep(r) \/ WorkflowRunnerHarmed(r)
  PROVE  IInv'
<1>1. CASE WorkflowRunnerStep(r)
  <2>1. UNCHANGED <<aruns, replies, faults>>
    BY <1>1 DEF WorkflowRunnerStep
  <2>2. faults' \in 0..MaxFaults
    BY <2>1 DEF IInv, TypeOK
  <2>3. CASE LoadHistory(r) \/ LoadSignals(r)
    BY <2>1, <2>3, LoadIInv
  <2>4. CASE ScheduleActivity(r)
    BY <2>1, <2>4, ScheduleActivityIInv
  <2>5. CASE HandlerReturns(r)
    BY <2>1, <2>2, <2>5, CompletesWorkflowIInv DEF HandlerReturns
  <2>6. CASE CompleteTask(r)
    BY <2>1, <2>6, TaskEndsIInv DEF CompleteTask, HandlerEnds
  <2>7. CASE HandlerFails(r)
    BY <2>1, <2>7, TaskEndsIInv DEF HandlerFails, TaskError
  <2>8. QED
    BY <1>1, <2>3, <2>4, <2>5, <2>6, <2>7 DEF WorkflowRunnerStep, RunStep
<1>2. CASE WorkflowRunnerHarmed(r)
  <2>1. UNCHANGED <<aruns, replies>> /\ faults' \in 0..MaxFaults
    BY <1>2, FlowwAssumption DEF WorkflowRunnerHarmed, Harm, IInv, TypeOK
  <2>2. CASE RunLost(r)
    <3>1. UNCHANGED storageVars /\ EndRun(r)
      BY <2>2 DEF RunLost
    <3>2. (WorkflowWorkerTypeOK /\ RunsMatchTasks)'
      BY <3>1, RunsStay DEF storageVars, TasksKeepWorkflow, TaskExists, IInv, TypeOK
    <3>3. QED
      BY <2>1, <3>1, <3>2 DEF storageVars, IInv, TypeOK, StorageTypeOK,
         ActivityWorkerTypeOK, ForeignKeys, FailureIsJoint, TaskExists, Exists, Running
  <2>3. CASE CompletionReplyLost(r)
    BY <2>1, <2>3, CompletesWorkflowIInv DEF CompletionReplyLost
  <2>4. QED
    BY <1>2, <2>2, <2>3 DEF WorkflowRunnerHarmed
<1>3. QED
  BY <1>1, <1>2

-----------------------------------------------------------------------------
(* The activity worker *)

LEMMA SetActivity ==
  ASSUME StorageTypeOK, NEW k \in ActivityKeys, activities[k].status # "none",
         NEW row \in ActivityRow, row.status # "none", row.wf = activities[k].wf,
         activities' = [activities EXCEPT ![k] = row]
  PROVE  /\ activities' \in [ActivityKeys -> ActivityRow]
         /\ activities'[k] = row
         /\ \A j \in ActivityKeys :
              /\ activities'[j].wf = activities[j].wf
              /\ activities'[j].status = "none" <=> activities[j].status = "none"
              /\ j # k => activities'[j] = activities[j]
<1>1. \A j \in ActivityKeys : activities'[j] = IF j = k THEN row ELSE activities[j]
  BY DEF StorageTypeOK
<1>2. activities' \in [ActivityKeys -> ActivityRow]
  BY DEF StorageTypeOK
<1>3. QED
  BY <1>1, <1>2

LEMMA PollActivityIInv ==
  ASSUME IInv, NEW r \in ActivityRunners, NEW k \in ActivityKeys,
         PollActivity(r, k) \/ PollActivityAgain(r, k)
  PROVE  IInv'
<1> DEFINE row == [activities[k] EXCEPT !.status = "running",
                                        !.attempts = activities[k].attempts + 1]
           run == [busy |-> TRUE, key |-> k, wf |-> activities[k].wf,
                   attempts |-> activities[k].attempts + 1]
<1> USE DEF IInv, TypeOK
<1>1. /\ activities[k].status # "none"
      /\ activities' = [activities EXCEPT ![k] = row]
      /\ aruns' = [aruns EXCEPT ![r] = run]
      /\ UNCHANGED <<workflows, tasks, signals, wruns, replies>>
      /\ faults' \in 0..MaxFaults
  BY FlowwAssumption DEF PollActivity, PollActivityAgain, ClaimActivity, Harm
<1>2. activities[k] \in ActivityRow /\ activities[k].wf \in WorkflowIDs
  BY <1>1 DEF StorageTypeOK, ForeignKeys
<1>3. activities[k].attempts + 1 \in Nat
  BY <1>2 DEF ActivityRow
<1>4. row \in ActivityRow /\ row.status = "running" /\ row.wf = activities[k].wf
  BY <1>2, <1>3 DEF ActivityRow
<1> HIDE DEF row
<1>5. /\ activities' \in [ActivityKeys -> ActivityRow]
      /\ activities'[k] = row
      /\ \A j \in ActivityKeys :
           /\ activities'[j].wf = activities[j].wf
           /\ activities'[j].status = "none" <=> activities[j].status = "none"
           /\ j # k => activities'[j] = activities[j]
  BY <1>1, <1>4, SetActivity
<1>6. ActivityWorkerTypeOK'
  <2>1. run \in ActivityRun /\ run.key \in ActivityKeys /\ run.wf \in WorkflowIDs
    BY <1>2, <1>3 DEF ActivityRun
  <2> HIDE DEF run
  <2>2. \A q \in ActivityRunners : aruns'[q] = IF q = r THEN run ELSE aruns[q]
    BY <1>1 DEF ActivityWorkerTypeOK
  <2>3. aruns' \in [ActivityRunners -> ActivityRun]
    BY <1>1, <2>1 DEF ActivityWorkerTypeOK
  <2>4. QED
    BY <2>1, <2>2, <2>3 DEF ActivityWorkerTypeOK
<1>7. TypeOK'
  BY <1>1, <1>5, <1>6 DEF StorageTypeOK, WorkflowWorkerTypeOK
<1>8. ForeignKeys'
  BY <1>1, <1>5 DEF ForeignKeys, TaskExists, Exists
<1>9. RunsMatchTasks'
  BY <1>1 DEF RunsMatchTasks, TaskExists
<1>10. FailureIsJoint'
  BY <1>1, <1>4, <1>5 DEF FailureIsJoint, Running
<1>11. QED
  BY <1>7, <1>8, <1>9, <1>10

\* An activity whose run ends: its row is written, with its workflow's if it
\* failed and with a new task if it completed, or it is gone and nothing is.
LEMMA ActivityEndsIInv ==
  ASSUME IInv, NEW r \in ActivityRunners, EndActivityRun(r),
         NEW k \in ActivityKeys, NEW w \in WorkflowIDs,
         NEW output \in Outputs \cup {None},
         \/ CompleteActivity(k, w, output)
         \/ ReScheduleActivity(k, w)
         \/ FailActivity(k, w),
         UNCHANGED <<wruns, replies, faults>>
  PROVE  IInv'
<1> USE DEF IInv, TypeOK
<1>1. ActivityWorkerTypeOK'
  BY ActivityRunsStay
<1>2. CASE ~OwnsActivity(w, k)
  <2>1. UNCHANGED storageVars
    BY <1>2 DEF CompleteActivity, ReScheduleActivity, FailActivity, storageVars
  <2>2. QED
    BY <1>1, <2>1 DEF storageVars, StorageTypeOK, WorkflowWorkerTypeOK, ForeignKeys,
       RunsMatchTasks, FailureIsJoint, TaskExists, Exists, Running
<1>3. CASE OwnsActivity(w, k)
  <2>1. activities[k].status # "none" /\ activities[k].wf = w /\ Exists(w)
    BY <1>3 DEF OwnsActivity, ForeignKeys
  <2>2. activities[k] \in ActivityRow
    BY DEF StorageTypeOK
  <2>3. PICK row \in ActivityRow :
          /\ row.status \in {"pending", "completed", "failed"}
          /\ row.wf = w
          /\ activities' = [activities EXCEPT ![k] = row]
          /\ row.status = "failed" <=> FailActivity(k, w)
    <3>1. CASE CompleteActivity(k, w, output)
      <4> DEFINE row == [activities[k] EXCEPT !.status = "completed", !.output = output]
      <4>1. row \in ActivityRow /\ row.status = "completed" /\ row.wf = w
        BY <2>1, <2>2 DEF ActivityRow
      <4>2. activities' = [activities EXCEPT ![k] = row]
        BY <1>3, <3>1 DEF CompleteActivity
      <4>3. ~FailActivity(k, w)
        <5>1. activities'[k].status = "completed"
          BY <4>1, <4>2 DEF StorageTypeOK
        <5>2. FailActivity(k, w) => activities'[k].status = "failed"
          BY <1>3, <2>2 DEF FailActivity, StorageTypeOK, ActivityRow
        <5>3. QED
          BY <5>1, <5>2
      <4> HIDE DEF row
      <4>4. QED
        BY <4>1, <4>2, <4>3
    <3>2. CASE ReScheduleActivity(k, w)
      <4> DEFINE row == [activities[k] EXCEPT !.status = "pending"]
      <4>1. row \in ActivityRow /\ row.status = "pending" /\ row.wf = w
        BY <2>1, <2>2 DEF ActivityRow
      <4>2. activities' = [activities EXCEPT ![k] = row]
        BY <1>3, <3>2 DEF ReScheduleActivity
      <4>3. ~FailActivity(k, w)
        <5>1. activities'[k].status = "pending"
          BY <4>1, <4>2 DEF StorageTypeOK
        <5>2. FailActivity(k, w) => activities'[k].status = "failed"
          BY <1>3, <2>2 DEF FailActivity, StorageTypeOK, ActivityRow
        <5>3. QED
          BY <5>1, <5>2
      <4> HIDE DEF row
      <4>4. QED
        BY <4>1, <4>2, <4>3
    <3>3. CASE FailActivity(k, w)
      <4> DEFINE row == [activities[k] EXCEPT !.status = "failed"]
      <4>1. row \in ActivityRow /\ row.status = "failed" /\ row.wf = w
        BY <2>1, <2>2 DEF ActivityRow
      <4>2. activities' = [activities EXCEPT ![k] = row]
        BY <1>3, <3>3 DEF FailActivity
      <4> HIDE DEF row
      <4>3. QED
        BY <3>3, <4>1, <4>2
    <3>4. QED
      BY <3>1, <3>2, <3>3
  <2>4. /\ activities' \in [ActivityKeys -> ActivityRow]
        /\ activities'[k] = row
        /\ \A j \in ActivityKeys :
             /\ activities'[j].wf = activities[j].wf
             /\ activities'[j].status = "none" <=> activities[j].status = "none"
             /\ j # k => activities'[j] = activities[j]
    BY <2>1, <2>3, SetActivity
  <2>5. /\ tasks' \in [TaskIDs -> TaskRow]
        /\ \A t \in TaskIDs : \/ tasks'[t] = tasks[t]
                              \/ /\ tasks[t].status = "none"
                                 /\ tasks'[t] = [status |-> "pending", wf |-> w]
        /\ TasksKeepWorkflow
    <3>1. CASE CompleteActivity(k, w, output)
      BY <1>3, <2>1, <3>1, InsertTask DEF CompleteActivity
    <3>2. CASE ~CompleteActivity(k, w, output)
      BY <3>2 DEF ReScheduleActivity, FailActivity, StorageTypeOK, TasksKeepWorkflow, TaskExists
    <3>3. QED
      BY <3>1, <3>2
  <2>6. WorkflowsStay /\ (row.status = "failed" => ~Running(w)') /\ UNCHANGED signals
    <3>1. CASE FailActivity(k, w)
      BY <1>3, <2>1, <3>1, failWorkflowFails DEF FailActivity
    <3>2. CASE ~FailActivity(k, w)
      BY <2>3, <3>2 DEF CompleteActivity, ReScheduleActivity, WorkflowsStay,
                        StorageTypeOK, Exists, Running
    <3>3. QED
      BY <3>1, <3>2
  <2>7. (WorkflowWorkerTypeOK /\ RunsMatchTasks)'
    BY <2>5, RunsStay
  <2>8. TypeOK'
    BY <1>1, <2>4, <2>5, <2>6, <2>7 DEF StorageTypeOK, WorkflowsStay
  <2>9. ForeignKeys'
    <3>1. ASSUME NEW t \in TaskIDs
          PROVE  IF TaskExists(t)'
                 THEN tasks'[t].wf \in WorkflowIDs /\ Exists(tasks[t].wf)'
                 ELSE tasks'[t].wf = None
      <4>1. CASE tasks'[t] = tasks[t]
        BY <2>6, <4>1 DEF ForeignKeys, TaskExists, WorkflowsStay
      <4>2. CASE tasks'[t] = [status |-> "pending", wf |-> w]
        BY <2>1, <2>6, <4>2 DEF TaskExists, WorkflowsStay
      <4>3. QED
        BY <2>5, <4>1, <4>2
    <3>2. ASSUME NEW j \in ActivityKeys
          PROVE  IF activities'[j].status # "none"
                 THEN activities'[j].wf \in WorkflowIDs /\ Exists(activities[j].wf)'
                 ELSE activities'[j].wf = None
      BY <2>4, <2>6 DEF ForeignKeys, WorkflowsStay
    <3>3. \A j \in SignalKeys : signals'[j].wf # None => Exists(signals[j].wf)'
      BY <2>6 DEF ForeignKeys, WorkflowsStay, StorageTypeOK, SignalRow
    <3>4. QED
      BY <3>1, <3>2, <3>3 DEF ForeignKeys
  <2>10. FailureIsJoint'
    <3>1. ASSUME NEW t \in TaskIDs, tasks'[t].status = "failed"
          PROVE  ~Running(tasks[t].wf)'
      BY <2>5, <2>6, <3>1 DEF FailureIsJoint, ForeignKeys, TaskExists, WorkflowsStay
    <3>2. ASSUME NEW j \in ActivityKeys, activities'[j].status = "failed"
          PROVE  ~Running(activities[j].wf)'
      BY <2>1, <2>4, <2>6, <3>2 DEF FailureIsJoint, ForeignKeys, WorkflowsStay
    <3>3. QED
      BY <3>1, <3>2 DEF FailureIsJoint
  <2>11. QED
    BY <2>7, <2>8, <2>9, <2>10
<1>4. QED
  BY <1>2, <1>3

LEMMA ActivityRunnerIInv ==
  ASSUME IInv, NEW r \in ActivityRunners,
         ActivityRunnerStep(r) \/ ActivityRunnerHarmed(r)
  PROVE  IInv'
<1>1. /\ aruns[r].busy
      /\ EndActivityRun(r)
      /\ UNCHANGED <<wruns, replies>>
  BY DEF ActivityRunnerStep, ActivityRunnerHarmed, ActivityRunStep,
         ActivitySucceeds, ActivityFails, ActivityRunLost, ActivityError
<1>2. aruns[r].key \in ActivityKeys /\ aruns[r].wf \in WorkflowIDs
  BY <1>1 DEF IInv, TypeOK, ActivityWorkerTypeOK
<1>3. CASE ActivityRunnerStep(r)
  <2>1. UNCHANGED faults
    BY <1>3 DEF ActivityRunnerStep
  <2>2. CASE ActivitySucceeds(r)
    <3>1. PICK output \in Outputs : CompleteActivity(aruns[r].key, aruns[r].wf, output)
      BY <2>2 DEF ActivitySucceeds
    <3>2. QED
      BY <1>1, <1>2, <2>1, <3>1, ActivityEndsIInv
  <2>3. CASE ActivityFails(r)
    <3>1. \/ ReScheduleActivity(aruns[r].key, aruns[r].wf)
          \/ FailActivity(aruns[r].key, aruns[r].wf)
      BY <2>3 DEF ActivityFails, ActivityError
    <3>2. QED
      BY <1>1, <1>2, <2>1, <3>1, ActivityEndsIInv
  <2>4. QED
    BY <1>3, <2>2, <2>3 DEF ActivityRunnerStep, ActivityRunStep
<1>4. CASE ActivityRunnerHarmed(r)
  <2>1. UNCHANGED storageVars
    BY <1>4 DEF ActivityRunnerHarmed, ActivityRunLost
  <2>2. faults' \in 0..MaxFaults
    BY <1>4, FlowwAssumption DEF ActivityRunnerHarmed, Harm, IInv, TypeOK
  <2>3. ActivityWorkerTypeOK'
    BY <1>1, ActivityRunsStay DEF IInv, TypeOK
  <2>4. QED
    BY <1>1, <2>1, <2>2, <2>3
       DEF IInv, TypeOK, storageVars, StorageTypeOK, WorkflowWorkerTypeOK, ForeignKeys,
           RunsMatchTasks, FailureIsJoint, TaskExists, Exists, Running
<1>5. QED
  BY <1>3, <1>4

-----------------------------------------------------------------------------
(* The cleaners *)

\* Deleting a workflow takes every row that refers to it; the runs of its tasks
\* keep only ids of rows that are gone.
LEMMA CleanWorkflowIInv ==
  ASSUME IInv, NEW w \in WorkflowIDs, CleanColdWorkflows(w) \/ CleanDeadWorkflows(w)
  PROVE  IInv'
<1> DEFINE row == [status |-> "deleted", key |-> None, attempts |-> 1, error |-> FALSE]
           gone == [status |-> "deleted", wf |-> None]
<1> USE DEF IInv, TypeOK
<1>1. /\ workflows[w].status \in {"completed", "failed"}
      /\ workflows' = [workflows EXCEPT ![w] = row]
      /\ tasks' = [t \in TaskIDs |-> IF tasks[t].wf = w THEN gone ELSE tasks[t]]
      /\ activities' = [k \in ActivityKeys |->
           IF activities[k].wf = w THEN NoActivityRow ELSE activities[k]]
      /\ signals' = [k \in SignalKeys |->
           IF signals[k].wf = w THEN NoSignalRow ELSE signals[k]]
      /\ UNCHANGED <<wruns, aruns, replies, faults>>
  BY DEF CleanColdWorkflows, CleanDeadWorkflows, deleteWorkflow
<1>2. /\ row \in WorkflowRow /\ gone \in TaskRow
      /\ NoActivityRow \in ActivityRow /\ NoSignalRow \in SignalRow
  BY DEF WorkflowRow, TaskRow, ActivityRow, NoActivityRow, SignalRow, NoSignalRow
<1>3. \A u \in WorkflowIDs : u # w => workflows'[u] = workflows[u]
  BY <1>1 DEF StorageTypeOK
<1>4. w # None
  BY StorageAssumption
<1>5. StorageTypeOK'
  <2>1. workflows' \in [WorkflowIDs -> WorkflowRow]
    BY <1>1, <1>2 DEF StorageTypeOK
  <2>2. tasks' \in [TaskIDs -> TaskRow]
    BY <1>1, <1>2 DEF StorageTypeOK
  <2>3. activities' \in [ActivityKeys -> ActivityRow]
    BY <1>1, <1>2 DEF StorageTypeOK
  <2>4. signals' \in [SignalKeys -> SignalRow]
    BY <1>1, <1>2 DEF StorageTypeOK
  <2>5. QED
    BY <2>1, <2>2, <2>3, <2>4 DEF StorageTypeOK
<1>6. TypeOK'
  BY <1>1, <1>5 DEF WorkflowWorkerTypeOK, ActivityWorkerTypeOK
<1>7. \A t \in TaskIDs : tasks'[t] = IF tasks[t].wf = w THEN gone ELSE tasks[t]
  BY <1>1
<1>8. \A k \in ActivityKeys :
        activities'[k] = IF activities[k].wf = w THEN NoActivityRow ELSE activities[k]
  BY <1>1
<1>9. ForeignKeys'
  <2>1. ASSUME NEW t \in TaskIDs
        PROVE  IF TaskExists(t)'
               THEN tasks'[t].wf \in WorkflowIDs /\ Exists(tasks[t].wf)'
               ELSE tasks'[t].wf = None
    BY <1>3, <1>7 DEF ForeignKeys, TaskExists, Exists
  <2>2. ASSUME NEW k \in ActivityKeys
        PROVE  IF activities'[k].status # "none"
               THEN activities'[k].wf \in WorkflowIDs /\ Exists(activities[k].wf)'
               ELSE activities'[k].wf = None
    BY <1>3, <1>8 DEF ForeignKeys, Exists, NoActivityRow
  <2>3. ASSUME NEW k \in SignalKeys, signals'[k].wf # None
        PROVE  Exists(signals[k].wf)'
    <3>1. signals[k].wf # w /\ signals'[k] = signals[k]
      BY <1>1, <2>3 DEF NoSignalRow
    <3>2. signals[k].wf \in WorkflowIDs
      BY <2>3, <3>1 DEF StorageTypeOK, SignalRow
    <3>3. QED
      BY <1>3, <2>3, <3>1, <3>2 DEF ForeignKeys, Exists
  <2>4. QED
    BY <2>1, <2>2, <2>3 DEF ForeignKeys
<1>10. RunsMatchTasks'
  <2>1. ASSUME NEW r \in WorkflowRunners, wruns[r].phase # "idle"
        PROVE  /\ tasks'[wruns[r].task].status # "none"
               /\ TaskExists(wruns[r].task)' => tasks'[wruns[r].task].wf = wruns[r].wf
    <3>1. wruns[r].task \in TaskIDs
      BY <2>1 DEF WorkflowWorkerTypeOK
    <3>2. QED
      <4>1. UNCHANGED wruns
        BY <1>1
      <4>2. QED
        BY <1>7, <2>1, <3>1, <4>1 DEF RunsMatchTasks, TaskExists
  <2>2. QED
    BY <1>1, <2>1 DEF RunsMatchTasks
<1>11. FailureIsJoint'
  <2>1. ASSUME NEW t \in TaskIDs, tasks'[t].status = "failed"
        PROVE  ~Running(tasks[t].wf)'
    BY <1>3, <1>7, <2>1 DEF FailureIsJoint, ForeignKeys, TaskExists, Running
  <2>2. ASSUME NEW k \in ActivityKeys, activities'[k].status = "failed"
        PROVE  ~Running(activities[k].wf)'
    BY <1>3, <1>8, <2>2 DEF FailureIsJoint, ForeignKeys, Running, NoActivityRow
  <2>3. QED
    BY <2>1, <2>2 DEF FailureIsJoint
<1>12. QED
  BY <1>6, <1>9, <1>10, <1>11

-----------------------------------------------------------------------------
(* The theorems *)

\* Every step of the engine keeps the inductive invariant.
THEOREM NextIInv == IInv /\ [Next]_vars => IInv'
<1> SUFFICES ASSUME IInv, [Next]_vars PROVE IInv'
  OBVIOUS
<1>1. CASE \E w \in WorkflowIDs, key \in RequestKeys : EnqueueWorkflow(w, key)
  BY <1>1, EnqueueWorkflowIInv
<1>2. CASE \E w \in WorkflowIDs, s \in Signals, input \in Inputs : SendSignal(w, s, input)
  BY <1>2, SendSignalIInv
<1>3. CASE \E r \in WorkflowRunners, t \in TaskIDs :
             PollWorkflowTask(r, t) \/ PollWorkflowTaskAgain(r, t)
  BY <1>3, PollWorkflowTaskIInv
<1>4. CASE \E r \in WorkflowRunners : WorkflowRunnerStep(r) \/ WorkflowRunnerHarmed(r)
  BY <1>4, WorkflowRunnerIInv
<1>5. CASE \E r \in ActivityRunners, k \in ActivityKeys :
             PollActivity(r, k) \/ PollActivityAgain(r, k)
  BY <1>5, PollActivityIInv
<1>6. CASE \E r \in ActivityRunners : ActivityRunnerStep(r) \/ ActivityRunnerHarmed(r)
  BY <1>6, ActivityRunnerIInv
<1>7. CASE \E w \in WorkflowIDs : CleanColdWorkflows(w) \/ CleanDeadWorkflows(w)
  BY <1>7, CleanWorkflowIInv
<1>8. CASE UNCHANGED vars
  BY <1>8 DEF vars, IInv, TypeOK, StorageTypeOK, WorkflowWorkerTypeOK,
     ActivityWorkerTypeOK, ForeignKeys, RunsMatchTasks, FailureIsJoint,
     TaskExists, Exists, Running
<1>9. QED
  BY <1>1, <1>2, <1>3, <1>4, <1>5, <1>6, <1>7, <1>8 DEF Next

THEOREM Invariance == Spec => []IInv
BY InitIInv, NextIInv, PTL DEF Spec

\* The tables and the runs keep their types: a run that is not idle holds a
\* task and a workflow that existed when it claimed them.
THEOREM TypeCorrect == Spec => []TypeOK
<1>1. IInv => TypeOK
  BY DEF IInv
<1>2. QED
  BY <1>1, Invariance, PTL

\* Whatever the handler, the runners and the order in which they finish, a
\* failed task or activity has a workflow that no longer runs: the two are
\* written together, and no later write makes a workflow run again.
THEOREM FailuresAreJoint == Spec => []FailureIsJoint
<1>1. IInv => FailureIsJoint
  BY DEF IInv
<1>2. QED
  BY <1>1, Invariance, PTL

\* However many runs are under way when the cleaners delete a workflow, none of
\* them leaves a task, an activity or a signal of it behind.
THEOREM NoOrphans == Spec => []NoOrphanRows
<1>1. IInv => NoOrphanRows
  BY StorageAssumption DEF IInv, ForeignKeys, NoOrphanRows, TaskExists
<1>2. QED
  BY <1>1, Invariance, PTL

-----------------------------------------------------------------------------
(* Idempotency keys: a request starts one workflow, and a call of a handler    *)
(* finds its own activity when the keys of a workflow's calls are distinct.    *)
(* Both follow from what a step may do to the columns that identify a row.     *)

\* No workflow appears, a workflow keeps its request's key, and the tasks of a
\* workflow that stays remain its tasks.
WorkflowsKeepKey ==
  /\ \A u \in WorkflowIDs : Exists(u)' =>
       Exists(u) /\ workflows'[u].key = workflows[u].key
  /\ \A t \in TaskIDs, u \in WorkflowIDs :
       tasks[t].wf = u /\ Exists(u)' => tasks'[t].wf = u

\* The row of an activity stands for the call whose key it has.
EntryMatches(row, k) ==
  /\ row.wf \in WorkflowIDs
  /\ row.call \in Activities
  /\ k = ActivityKey[<<row.wf, row.call>>]

\* An activity keeps its workflow and its call, or is a new one under its key.
EntriesStay ==
  \A k \in ActivityKeys : activities'[k].status # "none" =>
    \/ /\ activities[k].status # "none"
       /\ activities'[k].wf = activities[k].wf
       /\ activities'[k].call = activities[k].call
    \/ EntryMatches(activities'[k], k)

LEMMA UnchangedRows ==
  ASSUME UNCHANGED <<workflows, tasks, activities>>
  PROVE  WorkflowsKeepKey /\ EntriesStay
BY DEF WorkflowsKeepKey, EntriesStay, Exists

LEMMA UnchangedActivities ==
  ASSUME UNCHANGED activities
  PROVE  EntriesStay
BY DEF EntriesStay

\* A task is inserted where none was.
LEMMA InsertTaskKeepsKey ==
  ASSUME IInv, NEW w \in WorkflowIDs, NEW found \in BOOLEAN,
         insertWorkflowTask(w, found), UNCHANGED workflows
  PROVE  WorkflowsKeepKey
<1>1. \A t \in TaskIDs : tasks'[t] = tasks[t] \/ tasks[t].status = "none"
  BY InsertTask DEF IInv, TypeOK
<1>2. \A t \in TaskIDs : tasks[t].status = "none" => tasks[t].wf = None
  BY DEF IInv, ForeignKeys, TaskExists
<1>3. QED
  BY <1>1, <1>2, StorageAssumption DEF WorkflowsKeepKey, Exists

\* An UPDATE of a workflow that is there.
LEMMA UpdateKeepsKey ==
  ASSUME StorageTypeOK, NEW w \in WorkflowIDs, Exists(w), NEW row,
         row.key = workflows[w].key,
         workflows' = [workflows EXCEPT ![w] = row],
         \A t \in TaskIDs : tasks'[t].wf = tasks[t].wf
  PROVE  WorkflowsKeepKey
<1>1. \A u \in WorkflowIDs : workflows'[u] = IF u = w THEN row ELSE workflows[u]
  BY DEF StorageTypeOK
<1>2. QED
  BY <1>1 DEF WorkflowsKeepKey, Exists

LEMMA FailWorkflowKeepsKey ==
  ASSUME StorageTypeOK, NEW w \in WorkflowIDs, Exists(w), failWorkflow(w),
         \A t \in TaskIDs : tasks'[t].wf = tasks[t].wf
  PROVE  WorkflowsKeepKey
<1> DEFINE row == [workflows[w] EXCEPT !.status = "failed", !.error = TRUE]
<1>1. row.key = workflows[w].key
  BY DEF StorageTypeOK, WorkflowRow
<1>2. workflows' = [workflows EXCEPT ![w] = row]
  BY DEF failWorkflow
<1> HIDE DEF row
<1>3. QED
  BY <1>1, <1>2, UpdateKeepsKey

-----------------------------------------------------------------------------
(* The steps *)

LEMMA SendSignalKeeps ==
  ASSUME IInv, NEW w \in WorkflowIDs, NEW s \in Signals, NEW input \in Inputs,
         SendSignal(w, s, input)
  PROVE  WorkflowsKeepKey /\ EntriesStay
<1>1. CASE InsertSignalFails(w, s)
  BY <1>1, UnchangedRows DEF SendSignal, storageVars
<1>2. CASE ~InsertSignalFails(w, s)
  <2>1. insertWorkflowTask(w, Exists(w)) /\ UNCHANGED <<workflows, activities>>
    BY <1>2 DEF SendSignal, InsertSignal
  <2>2. Exists(w) \in BOOLEAN
    BY DEF Exists
  <2>3. QED
    BY <2>1, <2>2, InsertTaskKeepsKey, UnchangedActivities
<1>3. QED
  BY <1>1, <1>2

LEMMA PollWorkflowTaskKeeps ==
  ASSUME IInv, NEW r \in WorkflowRunners, NEW t \in TaskIDs,
         PollWorkflowTask(r, t) \/ PollWorkflowTaskAgain(r, t)
  PROVE  WorkflowsKeepKey /\ EntriesStay
<1>1. /\ TaskExists(t)
      /\ tasks' = [tasks EXCEPT ![t].status = "running"]
      /\ UNCHANGED <<workflows, activities>>
  BY DEF PollWorkflowTask, PollWorkflowTaskAgain, ClaimTask
<1>2. \A u \in TaskIDs : tasks'[u].wf = tasks[u].wf
  BY <1>1, SetTaskStatus DEF IInv, TypeOK
<1>3. QED
  BY <1>1, <1>2, UnchangedActivities DEF WorkflowsKeepKey, Exists

LEMMA ScheduleActivityKeeps ==
  ASSUME IInv, NEW r \in WorkflowRunners, ScheduleActivity(r)
  PROVE  WorkflowsKeepKey /\ EntriesStay
<1> DEFINE run == wruns[r]
           w == run.wf
           calls == Program(run).calls
<1>1. PICK n \in Unscheduled(run) : InsertActivity(w, ActivityKey[<<w, calls[n]>>], calls[n])
  BY DEF ScheduleActivity
<1> DEFINE k == ActivityKey[<<w, calls[n]>>]
           row == [NoActivityRow EXCEPT !.status = "pending", !.wf = w, !.call = calls[n]]
<1>2. run \in WorkflowRun /\ w \in WorkflowIDs /\ UNCHANGED <<workflows, tasks>>
  BY DEF ScheduleActivity, IInv, TypeOK, WorkflowWorkerTypeOK
<1>3. calls[n] \in Activities
  <2>1. calls \in Seq(Activities) /\ run.next \in Nat \ {0}
    BY <1>2, ProgramType DEF WorkflowRun
  <2>2. n \in run.next .. Len(calls)
    BY DEF Unscheduled
  <2> HIDE DEF calls
  <2>3. QED
    BY <2>1, <2>2
<1>4. row.wf = w /\ row.call = calls[n]
  BY DEF NoActivityRow
<1>5. UNCHANGED activities \/ activities' = [activities EXCEPT ![k] = row]
  BY <1>1 DEF InsertActivity
<1>6. EntryMatches(row, k)
  BY <1>2, <1>3, <1>4 DEF EntryMatches
<1> HIDE DEF row, k
<1>7. \A j \in ActivityKeys : \/ activities'[j] = activities[j]
                              \/ activities'[j] = row /\ j = k
  BY <1>5 DEF IInv, TypeOK, StorageTypeOK
<1>8. EntriesStay
  BY <1>6, <1>7 DEF EntriesStay
<1>9. WorkflowsKeepKey
  BY <1>2 DEF WorkflowsKeepKey, Exists
<1>10. QED
  BY <1>8, <1>9

LEMMA CompletesWorkflowKeeps ==
  ASSUME IInv, NEW r \in WorkflowRunners, NEW phase, CompletesWorkflow(r, phase)
  PROVE  WorkflowsKeepKey /\ EntriesStay
<1> DEFINE w == wruns[r].wf
           row == [workflows[w] EXCEPT !.status = "completed", !.error = FALSE]
<1>1. /\ wruns[r].phase # "idle"
      /\ Exists(w)
      /\ workflows' = [workflows EXCEPT ![w] = row]
      /\ UNCHANGED <<tasks, activities>>
  BY DEF CompletesWorkflow, HandlerEnds, CompleteWorkflow
<1>2. w \in WorkflowIDs /\ StorageTypeOK
  BY <1>1 DEF IInv, TypeOK, WorkflowWorkerTypeOK
<1>3. row.key = workflows[w].key
  BY <1>2 DEF StorageTypeOK, WorkflowRow
<1> HIDE DEF row
<1>4. WorkflowsKeepKey
  BY <1>1, <1>2, <1>3, UpdateKeepsKey
<1>5. QED
  BY <1>1, <1>4, UnchangedActivities

LEMMA TaskEndsKeeps ==
  ASSUME IInv, NEW r \in WorkflowRunners, wruns[r].phase # "idle",
         \/ CompleteWorkflowTask(wruns[r].task, wruns[r].wf)
         \/ ReScheduleWorkflowTask(wruns[r].task, wruns[r].wf)
         \/ FailWorkflowTask(wruns[r].task, wruns[r].wf),
         UNCHANGED activities
  PROVE  WorkflowsKeepKey /\ EntriesStay
<1> DEFINE t == wruns[r].task
           w == wruns[r].wf
<1>1. t \in TaskIDs /\ w \in WorkflowIDs /\ StorageTypeOK
  BY DEF IInv, TypeOK, WorkflowWorkerTypeOK
<1>2. CASE TaskExists(t)
  <2>1. Exists(w)
    BY <1>1, <1>2 DEF IInv, RunsMatchTasks, ForeignKeys
  <2>2. \E new \in {"pending", "completed", "failed"} :
          tasks' = [tasks EXCEPT ![t].status = new]
    BY <1>2 DEF CompleteWorkflowTask, ReScheduleWorkflowTask, FailWorkflowTask
  <2>3. \A u \in TaskIDs : tasks'[u].wf = tasks[u].wf
    BY <1>1, <1>2, <2>2, SetTaskStatus
  <2>4. PICK row : /\ workflows' = [workflows EXCEPT ![w] = row]
                   /\ row.key = workflows[w].key
    <3>1. workflows[w] \in WorkflowRow
      BY <1>1 DEF StorageTypeOK
    <3>2. CASE CompleteWorkflowTask(t, w)
      <4> DEFINE new == [workflows[w] EXCEPT !.error = FALSE]
      <4>1. workflows' = [workflows EXCEPT ![w] = new] /\ new.key = workflows[w].key
        BY <1>2, <3>1, <3>2 DEF CompleteWorkflowTask, WorkflowRow
      <4>2. QED
        BY <4>1
    <3>3. CASE ReScheduleWorkflowTask(t, w)
      <4> DEFINE new == [workflows[w] EXCEPT !.attempts = workflows[w].attempts + 1,
                                             !.error = TRUE]
      <4>1. workflows' = [workflows EXCEPT ![w] = new] /\ new.key = workflows[w].key
        BY <1>2, <3>1, <3>3 DEF ReScheduleWorkflowTask, WorkflowRow
      <4>2. QED
        BY <4>1
    <3>4. CASE FailWorkflowTask(t, w)
      <4> DEFINE new == [workflows[w] EXCEPT !.status = "failed", !.error = TRUE]
      <4>1. workflows' = [workflows EXCEPT ![w] = new] /\ new.key = workflows[w].key
        BY <1>2, <3>1, <3>4 DEF FailWorkflowTask, failWorkflow, WorkflowRow
      <4>2. QED
        BY <4>1
    <3>5. QED
      BY <3>2, <3>3, <3>4
  <2>5. WorkflowsKeepKey
    BY <1>1, <2>1, <2>3, <2>4, UpdateKeepsKey
  <2>6. QED
    BY <2>5, UnchangedActivities
<1>3. CASE ~TaskExists(t)
  BY <1>3, UnchangedRows DEF CompleteWorkflowTask, ReScheduleWorkflowTask, FailWorkflowTask
<1>4. QED
  BY <1>2, <1>3

LEMMA WorkflowRunnerKeeps ==
  ASSUME IInv, NEW r \in WorkflowRunners,
         WorkflowRunnerStep(r) \/ WorkflowRunnerHarmed(r)
  PROVE  WorkflowsKeepKey /\ EntriesStay
<1>1. CASE LoadHistory(r) \/ LoadSignals(r) \/ RunLost(r)
  BY <1>1, UnchangedRows DEF LoadHistory, LoadSignals, RunLost, storageVars
<1>2. CASE ScheduleActivity(r)
  BY <1>2, ScheduleActivityKeeps
<1>3. CASE HandlerReturns(r) \/ CompletionReplyLost(r)
  BY <1>3, CompletesWorkflowKeeps DEF HandlerReturns, CompletionReplyLost
<1>4. CASE CompleteTask(r)
  BY <1>4, TaskEndsKeeps DEF CompleteTask, HandlerEnds
<1>5. CASE HandlerFails(r)
  BY <1>5, TaskEndsKeeps DEF HandlerFails, TaskError
<1>6. QED
  BY <1>1, <1>2, <1>3, <1>4, <1>5 DEF WorkflowRunnerStep, WorkflowRunnerHarmed, RunStep

\* A write to the row of an activity that leaves its workflow and its call.
LEMMA SetActivityKeeps ==
  ASSUME StorageTypeOK, NEW k \in ActivityKeys, activities[k].status # "none", NEW row,
         row.wf = activities[k].wf, row.call = activities[k].call,
         activities' = [activities EXCEPT ![k] = row]
  PROVE  EntriesStay
<1>1. \A j \in ActivityKeys : activities'[j] = IF j = k THEN row ELSE activities[j]
  BY DEF StorageTypeOK
<1>2. QED
  BY <1>1 DEF EntriesStay

LEMMA PollActivityKeeps ==
  ASSUME IInv, NEW r \in ActivityRunners, NEW k \in ActivityKeys,
         PollActivity(r, k) \/ PollActivityAgain(r, k)
  PROVE  WorkflowsKeepKey /\ EntriesStay
<1> DEFINE row == [activities[k] EXCEPT !.status = "running",
                                        !.attempts = activities[k].attempts + 1]
<1>1. /\ activities[k].status # "none"
      /\ activities' = [activities EXCEPT ![k] = row]
      /\ UNCHANGED <<workflows, tasks>>
  BY DEF PollActivity, PollActivityAgain, ClaimActivity
<1>2. StorageTypeOK
  BY DEF IInv, TypeOK
<1>3. row.wf = activities[k].wf /\ row.call = activities[k].call
  BY <1>2 DEF StorageTypeOK, ActivityRow
<1> HIDE DEF row
<1>4. EntriesStay
  BY <1>1, <1>2, <1>3, SetActivityKeeps
<1>5. QED
  BY <1>1, <1>4 DEF WorkflowsKeepKey, Exists

LEMMA ActivityRunnerKeeps ==
  ASSUME IInv, NEW r \in ActivityRunners,
         ActivityRunnerStep(r) \/ ActivityRunnerHarmed(r)
  PROVE  WorkflowsKeepKey /\ EntriesStay
<1> DEFINE k == aruns[r].key
           w == aruns[r].wf
<1>1. aruns[r].busy
  BY DEF ActivityRunnerStep, ActivityRunnerHarmed, ActivityRunStep,
         ActivitySucceeds, ActivityFails, ActivityRunLost
<1>2. k \in ActivityKeys /\ w \in WorkflowIDs /\ StorageTypeOK
  BY <1>1 DEF IInv, TypeOK, ActivityWorkerTypeOK
<1>3. \/ \E output \in Outputs : CompleteActivity(k, w, output)
      \/ ReScheduleActivity(k, w)
      \/ FailActivity(k, w)
      \/ UNCHANGED storageVars
  BY DEF ActivityRunnerStep, ActivityRunnerHarmed, ActivityRunStep,
         ActivitySucceeds, ActivityFails, ActivityError, ActivityRunLost
<1>4. CASE ~OwnsActivity(w, k)
  BY <1>3, <1>4, UnchangedRows
     DEF CompleteActivity, ReScheduleActivity, FailActivity, storageVars
<1>5. CASE OwnsActivity(w, k)
  <2>1. Exists(w) /\ activities[k].status # "none" /\ activities[k] \in ActivityRow
    BY <1>2, <1>5 DEF OwnsActivity, IInv, ForeignKeys, StorageTypeOK
  <2>2. CASE \E output \in Outputs : CompleteActivity(k, w, output)
    <3>1. PICK output \in Outputs : CompleteActivity(k, w, output)
      BY <2>2
    <3> DEFINE row == [activities[k] EXCEPT !.status = "completed", !.output = output]
    <3>2. /\ activities' = [activities EXCEPT ![k] = row]
          /\ insertWorkflowTask(w, TRUE)
          /\ UNCHANGED workflows
      BY <1>5, <2>1, <3>1 DEF CompleteActivity
    <3>3. row.wf = activities[k].wf /\ row.call = activities[k].call
      BY <2>1 DEF ActivityRow
    <3> HIDE DEF row
    <3>4. EntriesStay
      BY <1>2, <2>1, <3>2, <3>3, SetActivityKeeps
    <3>5. QED
      BY <1>2, <3>2, <3>4, InsertTaskKeepsKey
  <2>3. CASE ReScheduleActivity(k, w)
    <3> DEFINE row == [activities[k] EXCEPT !.status = "pending"]
    <3>1. /\ activities' = [activities EXCEPT ![k] = row]
          /\ UNCHANGED <<workflows, tasks>>
      BY <1>5, <2>3 DEF ReScheduleActivity
    <3>2. row.wf = activities[k].wf /\ row.call = activities[k].call
      BY <2>1 DEF ActivityRow
    <3> HIDE DEF row
    <3>3. EntriesStay
      BY <1>2, <2>1, <3>1, <3>2, SetActivityKeeps
    <3>4. QED
      BY <3>1, <3>3 DEF WorkflowsKeepKey, Exists
  <2>4. CASE FailActivity(k, w)
    <3> DEFINE row == [activities[k] EXCEPT !.status = "failed"]
    <3>1. /\ activities' = [activities EXCEPT ![k] = row]
          /\ failWorkflow(w)
          /\ UNCHANGED tasks
      BY <1>5, <2>4 DEF FailActivity
    <3>2. row.wf = activities[k].wf /\ row.call = activities[k].call
      BY <2>1 DEF ActivityRow
    <3> HIDE DEF row
    <3>3. EntriesStay
      BY <1>2, <2>1, <3>1, <3>2, SetActivityKeeps
    <3>4. QED
      BY <1>2, <2>1, <3>1, <3>3, FailWorkflowKeepsKey
  <2>5. CASE UNCHANGED storageVars
    BY <2>5, UnchangedRows DEF storageVars
  <2>6. QED
    BY <1>3, <2>2, <2>3, <2>4, <2>5
<1>6. QED
  BY <1>4, <1>5

LEMMA CleanWorkflowKeeps ==
  ASSUME IInv, NEW w \in WorkflowIDs, CleanColdWorkflows(w) \/ CleanDeadWorkflows(w)
  PROVE  WorkflowsKeepKey /\ EntriesStay
<1> DEFINE row == [status |-> "deleted", key |-> None, attempts |-> 1, error |-> FALSE]
           gone == [status |-> "deleted", wf |-> None]
<1>1. /\ workflows' = [workflows EXCEPT ![w] = row]
      /\ tasks' = [t \in TaskIDs |-> IF tasks[t].wf = w THEN gone ELSE tasks[t]]
      /\ activities' = [k \in ActivityKeys |->
           IF activities[k].wf = w THEN NoActivityRow ELSE activities[k]]
  BY DEF CleanColdWorkflows, CleanDeadWorkflows, deleteWorkflow
<1>2. ~Exists(w)' /\ \A u \in WorkflowIDs : u # w => workflows'[u] = workflows[u]
  BY <1>1 DEF IInv, TypeOK, StorageTypeOK, Exists
<1>3. WorkflowsKeepKey
  BY <1>1, <1>2 DEF WorkflowsKeepKey, Exists
<1>4. EntriesStay
  BY <1>1 DEF EntriesStay, NoActivityRow
<1>5. QED
  BY <1>3, <1>4

\* Every step but EnqueueWorkflow leaves the identifying columns alone.
LEMMA StepKeeps ==
  ASSUME IInv, [Next]_vars,
         ~\E w \in WorkflowIDs, key \in RequestKeys : EnqueueWorkflow(w, key)
  PROVE  WorkflowsKeepKey /\ EntriesStay
<1>1. CASE \E w \in WorkflowIDs, s \in Signals, input \in Inputs : SendSignal(w, s, input)
  BY <1>1, SendSignalKeeps
<1>2. CASE \E r \in WorkflowRunners, t \in TaskIDs :
             PollWorkflowTask(r, t) \/ PollWorkflowTaskAgain(r, t)
  BY <1>2, PollWorkflowTaskKeeps
<1>3. CASE \E r \in WorkflowRunners : WorkflowRunnerStep(r) \/ WorkflowRunnerHarmed(r)
  BY <1>3, WorkflowRunnerKeeps
<1>4. CASE \E r \in ActivityRunners, k \in ActivityKeys :
             PollActivity(r, k) \/ PollActivityAgain(r, k)
  BY <1>4, PollActivityKeeps
<1>5. CASE \E r \in ActivityRunners : ActivityRunnerStep(r) \/ ActivityRunnerHarmed(r)
  BY <1>5, ActivityRunnerKeeps
<1>6. CASE \E w \in WorkflowIDs : CleanColdWorkflows(w) \/ CleanDeadWorkflows(w)
  BY <1>6, CleanWorkflowKeeps
<1>7. CASE UNCHANGED vars
  BY <1>7, UnchangedRows DEF vars
<1>8. QED
  BY <1>1, <1>2, <1>3, <1>4, <1>5, <1>6, <1>7 DEF Next

-----------------------------------------------------------------------------
(* One workflow per request *)

LEMMA EnqueueWorkflowOnce ==
  ASSUME IInv, OneWorkflowPerRequest, NEW w \in WorkflowIDs, NEW key \in RequestKeys,
         EnqueueWorkflow(w, key)
  PROVE  OneWorkflowPerRequest'
<1> DEFINE isNew == \A u \in WorkflowIDs : Exists(u) => workflows[u].key # key
           row == [workflows[w] EXCEPT !.status = "running", !.key = key]
<1>1. /\ workflows[w].status = "none"
      /\ workflows' = IF isNew THEN [workflows EXCEPT ![w] = row] ELSE workflows
      /\ insertWorkflowTask(w, isNew)
      /\ isNew \in BOOLEAN
  BY DEF EnqueueWorkflow, InsertWorkflow
<1>2. StorageTypeOK
  BY DEF IInv, TypeOK
<1>3. row.key = key /\ row.status = "running"
  BY <1>2 DEF StorageTypeOK, WorkflowRow
<1>4. \A t \in TaskIDs : \/ tasks'[t] = tasks[t]
                         \/ tasks[t].status = "none"
  BY <1>1, <1>2, InsertTask
<1>5. \A u \in WorkflowIDs, t \in TaskIDs : tasks[t].wf = u => tasks'[t].wf = u
  BY <1>4, StorageAssumption DEF IInv, ForeignKeys, TaskExists
<1>6. CASE isNew
  <2> HIDE DEF row
  <2>1. \A u \in WorkflowIDs : workflows'[u] = IF u = w THEN row ELSE workflows[u]
    BY <1>1, <1>2, <1>6 DEF StorageTypeOK
  <2>2. \E t \in TaskIDs : tasks'[t].wf = w
    <3>1. PICK t \in TaskIDs : tasks' = [tasks EXCEPT ![t] = [status |-> "pending", wf |-> w]]
      BY <1>1, <1>6 DEF insertWorkflowTask, FreeTasks
    <3>2. tasks'[t] = [status |-> "pending", wf |-> w]
      BY <1>2, <3>1 DEF StorageTypeOK
    <3>3. QED
      BY <3>2
  <2>3. \A u \in WorkflowIDs : Exists(u)' => u = w \/ Exists(u)
    BY <2>1 DEF Exists
  <2>4. ASSUME NEW u \in WorkflowIDs, NEW v \in WorkflowIDs,
               Exists(u)', Exists(v)', workflows'[u].key = workflows'[v].key
        PROVE  u = v
    BY <1>3, <1>6, <2>1, <2>3, <2>4 DEF OneWorkflowPerRequest
  <2>5. ASSUME NEW u \in WorkflowIDs, Exists(u)'
        PROVE  \E t \in TaskIDs : tasks'[t].wf = u
    BY <1>5, <2>2, <2>3, <2>5 DEF OneWorkflowPerRequest
  <2>6. QED
    BY <2>4, <2>5 DEF OneWorkflowPerRequest
<1>7. CASE ~isNew
  BY <1>1, <1>5, <1>7 DEF OneWorkflowPerRequest, Exists
<1>8. QED
  BY <1>6, <1>7

\* However often and however late a client submits a request again, also while
\* the workflow it started ends and is cleaned away, there is one workflow for
\* it at a time; and a workflow that is there has a task, because the task is
\* inserted for the id just minted and never for the id that is returned.
THEOREM RequestsStartOnce == Spec => []OneWorkflowPerRequest
<1>1. Init => OneWorkflowPerRequest
  BY DEF Init, StorageInit, OneWorkflowPerRequest, Exists
<1>2. IInv /\ OneWorkflowPerRequest /\ [Next]_vars => OneWorkflowPerRequest'
  <2> SUFFICES ASSUME IInv, OneWorkflowPerRequest, [Next]_vars
               PROVE  OneWorkflowPerRequest'
    OBVIOUS
  <2>1. CASE \E w \in WorkflowIDs, key \in RequestKeys : EnqueueWorkflow(w, key)
    BY <2>1, EnqueueWorkflowOnce
  <2>2. CASE ~\E w \in WorkflowIDs, key \in RequestKeys : EnqueueWorkflow(w, key)
    <3>1. WorkflowsKeepKey
      BY <2>2, StepKeeps
    <3>2. QED
      BY <3>1 DEF WorkflowsKeepKey, OneWorkflowPerRequest
  <2>3. QED
    BY <2>1, <2>2
<1>3. QED
  BY <1>1, <1>2, Invariance, PTL DEF Spec

-----------------------------------------------------------------------------
(* The entries of the history *)

\* Each row is the activity of the call whose key it has.
EntriesMatch ==
  \A k \in ActivityKeys :
    activities[k].status # "none" => EntryMatches(activities[k], k)

LEMMA EntriesMatchInvariant == Spec => []EntriesMatch
<1>1. Init => EntriesMatch
  BY DEF Init, StorageInit, EntriesMatch, NoActivityRow
<1>2. IInv /\ EntriesMatch /\ [Next]_vars => EntriesMatch'
  <2> SUFFICES ASSUME IInv, EntriesMatch, [Next]_vars PROVE EntriesMatch'
    OBVIOUS
  <2>1. EntriesStay
    <3>1. CASE \E w \in WorkflowIDs, key \in RequestKeys : EnqueueWorkflow(w, key)
      BY <3>1, UnchangedActivities DEF EnqueueWorkflow, InsertWorkflow
    <3>2. QED
      BY <3>1, StepKeeps
  <2>2. QED
    BY <2>1 DEF EntriesStay, EntriesMatch, EntryMatches
<1>3. QED
  BY <1>1, <1>2, Invariance, PTL DEF Spec

\* The calls of one workflow have distinct keys.
DistinctCallKeys ==
  \A w \in WorkflowIDs : \A a, b \in Activities :
    ActivityKey[<<w, a>>] = ActivityKey[<<w, b>>] => a = b

\* If the calls of one workflow have distinct keys, no call ever finds the
\* activity of another, whatever runs, retries and deletions there are.  (The keys
\* that IdempotencyKeyByString derives need not be distinct.)
THEOREM CallsFindTheirOwnEntry ==
  ASSUME DistinctCallKeys
  PROVE  Spec => []EachCallHasItsOwnEntry
<1>1. EntriesMatch => EachCallHasItsOwnEntry
  <2> SUFFICES ASSUME EntriesMatch, NEW w \in WorkflowIDs, NEW a \in Activities,
                      OwnsActivity(w, ActivityKey[<<w, a>>])
               PROVE  activities[ActivityKey[<<w, a>>]].call = a
    BY DEF EachCallHasItsOwnEntry
  <2> DEFINE k == ActivityKey[<<w, a>>]
  <2>1. k \in ActivityKeys
    BY StorageAssumption
  <2>2. EntryMatches(activities[k], k) /\ activities[k].wf = w
    BY <2>1 DEF EntriesMatch, OwnsActivity
  <2> DEFINE call == activities[k].call
  <2>3. call \in Activities /\ ActivityKey[<<w, call>>] = ActivityKey[<<w, a>>]
    BY <2>2 DEF EntryMatches
  <2> HIDE DEF call
  <2>4. call = a
    BY <2>3, DistinctCallKeys DEF DistinctCallKeys
  <2>5. QED
    BY <2>4 DEF call
<1>2. QED
  BY <1>1, EntriesMatchInvariant, PTL
=============================================================================
