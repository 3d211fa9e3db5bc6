--------------------------- MODULE FlowwAttemptsProofs ---------------------------
(*****************************************************************************)
(* Proofs of the bounds on the attempts of activities and of workflows, that  *)
(* every task was paid for by an event, and that a result once stored is      *)
(* final where no claim overlaps a run.                                      *)
(*****************************************************************************)
EXTENDS FlowwProofs, FiniteSetTheorems

-----------------------------------------------------------------------------
(* What a step does to the rows of the workflows *)

\* A workflow that was deleted, or that ended, stays so.
StatusesStay ==
  \A u \in WorkflowIDs : workflows[u].status # "none" =>
    /\ workflows'[u].status # "none"
    /\ Exists(u)' => Exists(u)
    /\ Running(u)' => Running(u)

\* The attempts of a workflow are counted by ReScheduleWorkflowTask alone, and
\* start again for a new one.
AttemptsStay ==
  \A u \in WorkflowIDs :
    workflows'[u].attempts = workflows[u].attempts \/ workflows'[u].attempts = 1

\* Row is what an UPDATE makes of the row of workflow w.
Updates(w, row) ==
  /\ Exists(w)
  /\ workflows' = [workflows EXCEPT ![w] = row]
  /\ row.status = workflows[w].status \/ row.status = "completed" \/ row.status = "failed"

LEMMA UpdateStays ==
  ASSUME StorageTypeOK, NEW w \in WorkflowIDs, NEW row, Updates(w, row)
  PROVE  /\ StatusesStay
         /\ workflows'[w] = row
         /\ \A u \in WorkflowIDs : u # w => workflows'[u] = workflows[u]
<1>1. \A u \in WorkflowIDs : workflows'[u] = IF u = w THEN row ELSE workflows[u]
  BY DEF StorageTypeOK, Updates
<1>2. QED
  BY <1>1 DEF StatusesStay, Exists, Running, Updates

LEMMA failWorkflowStays ==
  ASSUME StorageTypeOK, NEW w \in WorkflowIDs, Exists(w), failWorkflow(w)
  PROVE  StatusesStay /\ AttemptsStay
<1> DEFINE row == [workflows[w] EXCEPT !.status = "failed", !.error = TRUE]
<1>1. row.status = "failed" /\ row.attempts = workflows[w].attempts
  BY DEF StorageTypeOK, WorkflowRow
<1>2. workflows' = [workflows EXCEPT ![w] = row]
  BY DEF failWorkflow
<1> HIDE DEF row
<1>3. Updates(w, row)
  BY <1>1, <1>2 DEF Updates
<1>4. /\ StatusesStay
      /\ workflows'[w] = row
      /\ \A u \in WorkflowIDs : u # w => workflows'[u] = workflows[u]
  BY <1>3, UpdateStays
<1>5. QED
  BY <1>1, <1>4 DEF AttemptsStay

LEMMA CompletesWorkflowStays ==
  ASSUME IInv, NEW r \in WorkflowRunners, NEW phase, CompletesWorkflow(r, phase)
  PROVE  StatusesStay /\ AttemptsStay /\ ~Running(wruns[r].wf)'
<1> DEFINE w == wruns[r].wf
           row == [workflows[w] EXCEPT !.status = "completed", !.error = FALSE]
           run == Ended(wruns[r], phase)
<1>1. wruns[r].phase # "idle" /\ Exists(w) /\ workflows' = [workflows EXCEPT ![w] = row]
  BY DEF CompletesWorkflow, HandlerEnds, CompleteWorkflow
<1>2. w \in WorkflowIDs /\ StorageTypeOK
  BY <1>1 DEF IInv, TypeOK, WorkflowWorkerTypeOK
<1>3. row.status = "completed" /\ row.attempts = workflows[w].attempts
  BY <1>2 DEF StorageTypeOK, WorkflowRow
<1> HIDE DEF row
<1>4. Updates(w, row)
  BY <1>1, <1>3 DEF Updates
<1>5. /\ StatusesStay
      /\ workflows'[w] = row
      /\ \A u \in WorkflowIDs : u # w => workflows'[u] = workflows[u]
  BY <1>2, <1>4, UpdateStays
<1>6. AttemptsStay
  BY <1>3, <1>5 DEF AttemptsStay
<1>7. wruns'[r].wf = w
  <2>1. run.wf = w
    BY DEF Ended
  <2>2. wruns' = [wruns EXCEPT ![r] = run]
    BY DEF CompletesWorkflow
  <2> HIDE DEF run
  <2>3. QED
    BY <2>1, <2>2 DEF IInv, TypeOK, WorkflowWorkerTypeOK
<1>8. QED
  BY <1>3, <1>5, <1>6, <1>7 DEF Running

\* Task t ends in status new, and its workflow is written with it.
TaskEndsAs(t, w, new) ==
  /\ tasks' = [tasks EXCEPT ![t].status = new]
  /\ \E row : /\ Updates(w, row)
              /\ new = "failed" => row.status = "failed"
              /\ new # "failed" => row.status = workflows[w].status
              /\ new # "pending" => row.attempts = workflows[w].attempts
              /\ new = "pending" => row.attempts = workflows[w].attempts + 1
  /\ new = "completed" => CompleteWorkflowTask(t, w)
  /\ new = "pending" => ReScheduleWorkflowTask(t, w)
  /\ new = "failed" => FailWorkflowTask(t, w)

LEMMA TaskEnds ==
  ASSUME IInv, NEW r \in WorkflowRunners, wruns[r].phase # "idle",
         NEW t, t = wruns[r].task, NEW w, w = wruns[r].wf,
         \/ CompleteWorkflowTask(t, w)
         \/ ReScheduleWorkflowTask(t, w)
         \/ FailWorkflowTask(t, w)
  PROVE  /\ t \in TaskIDs /\ w \in WorkflowIDs
         /\ TaskExists(t) => tasks[t].wf = w /\ Exists(w)
         /\ ~TaskExists(t) => UNCHANGED <<workflows, tasks>>
         /\ TaskExists(t) => \E new \in {"pending", "completed", "failed"} :
                               TaskEndsAs(t, w, new)
<1>1. t \in TaskIDs /\ w \in WorkflowIDs /\ StorageTypeOK
  BY DEF IInv, TypeOK, WorkflowWorkerTypeOK
<1>2. CASE ~TaskExists(t)
  BY <1>1, <1>2 DEF CompleteWorkflowTask, ReScheduleWorkflowTask, FailWorkflowTask
<1>3. CASE TaskExists(t)
  <2>1. tasks[t].wf = w /\ Exists(w)
    BY <1>1, <1>3 DEF IInv, RunsMatchTasks, ForeignKeys
  <2>2. workflows[w] \in WorkflowRow
    BY <1>1 DEF StorageTypeOK
  <2>3. CASE CompleteWorkflowTask(t, w)
    <3> DEFINE row == [workflows[w] EXCEPT !.error = FALSE]
    <3>1. row.status = workflows[w].status /\ row.attempts = workflows[w].attempts
      BY <2>2 DEF WorkflowRow
    <3>2. /\ workflows' = [workflows EXCEPT ![w] = row]
          /\ tasks' = [tasks EXCEPT ![t].status = "completed"]
      BY <1>3, <2>3 DEF CompleteWorkflowTask
    <3> HIDE DEF row
    <3>3. TaskEndsAs(t, w, "completed")
      BY <2>1, <2>3, <3>1, <3>2 DEF TaskEndsAs, Updates
    <3>4. QED
      BY <1>1, <1>3, <2>1, <3>3
  <2>4. CASE ReScheduleWorkflowTask(t, w)
    <3> DEFINE row == [workflows[w] EXCEPT !.attempts = workflows[w].attempts + 1,
                                           !.error = TRUE]
    <3>1. row.status = workflows[w].status /\ row.attempts = workflows[w].attempts + 1
      BY <2>2 DEF WorkflowRow
    <3>2. /\ workflows' = [workflows EXCEPT ![w] = row]
          /\ tasks' = [tasks EXCEPT ![t].status = "pending"]
      BY <1>3, <2>4 DEF ReScheduleWorkflowTask
    <3> HIDE DEF row
    <3>3. TaskEndsAs(t, w, "pending")
      BY <2>1, <2>4, <3>1, <3>2 DEF TaskEndsAs, Updates
    <3>4. QED
      BY <1>1, <1>3, <2>1, <3>3
  <2>5. CASE FailWorkflowTask(t, w)
    <3> DEFINE row == [workflows[w] EXCEPT !.status = "failed", !.error = TRUE]
    <3>1. row.status = "failed" /\ row.attempts = workflows[w].attempts
      BY <2>2 DEF WorkflowRow
    <3>2. /\ workflows' = [workflows EXCEPT ![w] = row]
          /\ tasks' = [tasks EXCEPT ![t].status = "failed"]
      BY <1>3, <2>5 DEF FailWorkflowTask, failWorkflow
    <3> HIDE DEF row
    <3>3. TaskEndsAs(t, w, "failed")
      BY <2>1, <2>5, <3>1, <3>2 DEF TaskEndsAs, Updates
    <3>4. QED
      BY <1>1, <1>3, <2>1, <3>3
  <2>6. QED
    BY <2>3, <2>4, <2>5
<1>4. QED
  BY <1>2, <1>3

LEMMA StatusesStayNext ==
  ASSUME IInv, [Next]_vars
  PROVE  StatusesStay
<1>1. CASE UNCHANGED workflows
  BY <1>1 DEF StatusesStay, Exists, Running
<1>2. ASSUME NEW w \in WorkflowIDs, NEW key \in RequestKeys, EnqueueWorkflow(w, key)
      PROVE  StatusesStay
  <2>1. /\ workflows[w].status = "none"
        /\ \A u \in WorkflowIDs : u # w => workflows'[u] = workflows[u]
    BY <1>2 DEF EnqueueWorkflow, InsertWorkflow, IInv, TypeOK, StorageTypeOK
  <2>2. QED
    BY <2>1 DEF StatusesStay, Exists, Running
<1>3. ASSUME NEW r \in WorkflowRunners, WorkflowRunnerStep(r) \/ WorkflowRunnerHarmed(r)
      PROVE  StatusesStay
  <2>1. CASE HandlerReturns(r) \/ CompletionReplyLost(r)
    BY <2>1, CompletesWorkflowStays DEF HandlerReturns, CompletionReplyLost
  <2>2. CASE CompleteTask(r) \/ HandlerFails(r)
    <3> DEFINE t == wruns[r].task
               w == wruns[r].wf
    <3>1. /\ wruns[r].phase # "idle"
          /\ \/ CompleteWorkflowTask(t, w)
             \/ ReScheduleWorkflowTask(t, w)
             \/ FailWorkflowTask(t, w)
      BY <2>2 DEF CompleteTask, HandlerEnds, HandlerFails, TaskError
    <3>2. /\ w \in WorkflowIDs
          /\ UNCHANGED workflows \/ \E row : Updates(w, row)
      BY <3>1, TaskEnds DEF TaskEndsAs
    <3>3. QED
      BY <1>1, <3>2, UpdateStays DEF IInv, TypeOK
  <2>3. QED
    BY <1>1, <1>3, <2>1, <2>2 DEF WorkflowRunnerStep, WorkflowRunnerHarmed, RunStep,
       LoadHistory, LoadSignals, ScheduleActivity, RunLost, storageVars
<1>4. ASSUME NEW r \in ActivityRunners, ActivityRunnerStep(r) \/ ActivityRunnerHarmed(r)
      PROVE  StatusesStay
  <2>1. CASE FailActivity(aruns[r].key, aruns[r].wf) /\ OwnsActivity(aruns[r].wf, aruns[r].key)
    <3>1. aruns[r].busy
      BY <1>4 DEF ActivityRunnerStep, ActivityRunnerHarmed, ActivityRunStep,
                  ActivitySucceeds, ActivityFails, ActivityRunLost
    <3>2. aruns[r].wf \in WorkflowIDs /\ aruns[r].key \in ActivityKeys
      BY <3>1 DEF IInv, TypeOK, ActivityWorkerTypeOK
    <3>3. Exists(aruns[r].wf) /\ failWorkflow(aruns[r].wf)
      BY <2>1, <3>2 DEF IInv, ForeignKeys, OwnsActivity, FailActivity
    <3>4. QED
      BY <3>2, <3>3, failWorkflowStays DEF IInv, TypeOK
  <2>2. QED
    BY <1>1, <1>4, <2>1 DEF ActivityRunnerStep, ActivityRunnerHarmed, ActivityRunStep,
       ActivitySucceeds, ActivityFails, ActivityRunLost, ActivityError, CompleteActivity,
       ReScheduleActivity, FailActivity, storageVars
<1>5. ASSUME NEW w \in WorkflowIDs, CleanColdWorkflows(w) \/ CleanDeadWorkflows(w)
      PROVE  StatusesStay
  <2>1. /\ workflows'[w].status = "deleted"
        /\ \A u \in WorkflowIDs : u # w => workflows'[u] = workflows[u]
    BY <1>5 DEF CleanColdWorkflows, CleanDeadWorkflows, deleteWorkflow, IInv, TypeOK,
                StorageTypeOK
  <2>2. QED
    BY <2>1 DEF StatusesStay, Exists, Running
<1>6. ASSUME NEW w \in WorkflowIDs, NEW s \in Signals, NEW input \in Inputs, SendSignal(w, s, input)
      PROVE  StatusesStay
  BY <1>1, <1>6 DEF SendSignal, InsertSignal, storageVars
<1>7. ASSUME NEW r \in WorkflowRunners, NEW t \in TaskIDs,
             PollWorkflowTask(r, t) \/ PollWorkflowTaskAgain(r, t)
      PROVE  StatusesStay
  BY <1>1, <1>7 DEF PollWorkflowTask, PollWorkflowTaskAgain, ClaimTask
<1>8. ASSUME NEW r \in ActivityRunners, NEW k \in ActivityKeys,
             PollActivity(r, k) \/ PollActivityAgain(r, k)
      PROVE  StatusesStay
  BY <1>1, <1>8 DEF PollActivity, PollActivityAgain, ClaimActivity
<1>9. CASE UNCHANGED vars
  BY <1>1, <1>9 DEF vars
<1>10. QED
  BY <1>2, <1>3, <1>4, <1>5, <1>6, <1>7, <1>8, <1>9 DEF Next

-----------------------------------------------------------------------------
(* What a step does to the rows and the runs of activities *)

\* An activity was inserted.
IsInserted(k) ==
  /\ activities[k].status = "none"
  /\ activities'[k].status = "pending"
  /\ activities'[k].attempts = 0
  /\ activities'[k].output = None
  /\ activities'[k].wf \in WorkflowIDs
  /\ Exists(activities'[k].wf)

\* An activity went with its workflow.
IsDeleted(k) ==
  /\ activities[k].status # "none"
  /\ activities'[k].status = "none"
  /\ activities'[k].attempts = 0
  /\ activities[k].wf \in WorkflowIDs
  /\ workflows'[activities[k].wf].status = "deleted"

RowsAreQuiet ==
  \A k \in ActivityKeys : \/ activities'[k] = activities[k]
                          \/ IsInserted(k)
                          \/ IsDeleted(k)

\* No activity is claimed, and no run of one ends.
QuietStep ==
  UNCHANGED aruns /\ (faults' = faults \/ faults' = faults + 1) /\ RowsAreQuiet

LEMMA QuietSteps ==
  ASSUME IInv, [Next]_vars
  PROVE  \/ QuietStep
         \/ \E r \in ActivityRunners, k \in ActivityKeys :
              PollActivity(r, k) \/ PollActivityAgain(r, k)
         \/ \E r \in ActivityRunners : ActivityRunnerStep(r) \/ ActivityRunnerHarmed(r)
<1>1. ASSUME UNCHANGED <<activities, aruns>>, faults' = faults \/ faults' = faults + 1
      PROVE  QuietStep
  BY <1>1 DEF QuietStep, RowsAreQuiet
<1>2. ASSUME NEW w \in WorkflowIDs, NEW key \in RequestKeys, EnqueueWorkflow(w, key)
      PROVE  QuietStep
  BY <1>1, <1>2 DEF EnqueueWorkflow, InsertWorkflow
<1>3. ASSUME NEW w \in WorkflowIDs, NEW s \in Signals, NEW input \in Inputs, SendSignal(w, s, input)
      PROVE  QuietStep
  BY <1>1, <1>3 DEF SendSignal, InsertSignal, storageVars
<1>4. ASSUME NEW r \in WorkflowRunners, NEW t \in TaskIDs,
             PollWorkflowTask(r, t) \/ PollWorkflowTaskAgain(r, t)
      PROVE  QuietStep
  BY <1>1, <1>4 DEF PollWorkflowTask, PollWorkflowTaskAgain, ClaimTask, Harm
<1>5. ASSUME NEW r \in WorkflowRunners, ScheduleActivity(r), UNCHANGED <<aruns, faults>>
      PROVE  QuietStep
  <2> DEFINE run == wruns[r]
             w == run.wf
             calls == Program(run).calls
  <2>1. PICK n \in Unscheduled(run) :
          /\ ~InsertActivityFails(w, ActivityKey[<<w, calls[n]>>])
          /\ InsertActivity(w, ActivityKey[<<w, calls[n]>>], calls[n])
    BY <1>5 DEF ScheduleActivity
  <2> DEFINE k == ActivityKey[<<w, calls[n]>>]
             row == [NoActivityRow EXCEPT !.status = "pending", !.wf = w, !.call = calls[n]]
  <2>2. w \in WorkflowIDs
    BY <1>5 DEF ScheduleActivity, IInv, TypeOK, WorkflowWorkerTypeOK
  <2>3. row.status = "pending" /\ row.attempts = 0 /\ row.output = None /\ row.wf = w
    BY DEF NoActivityRow
  <2>4. \/ UNCHANGED activities
        \/ /\ activities[k].status = "none" /\ Exists(w)
           /\ activities' = [activities EXCEPT ![k] = row]
    BY <2>1 DEF InsertActivity, InsertActivityFails
  <2> HIDE DEF row, k
  <2>5. \A j \in ActivityKeys : \/ activities'[j] = activities[j]
                                \/ /\ activities[j].status = "none" /\ Exists(w)
                                   /\ activities'[j] = row
    BY <2>4 DEF IInv, TypeOK, StorageTypeOK
  <2>6. QED
    BY <1>5, <2>2, <2>3, <2>5 DEF QuietStep, RowsAreQuiet, IsInserted
<1>6. ASSUME NEW r \in WorkflowRunners, WorkflowRunnerStep(r) \/ WorkflowRunnerHarmed(r)
      PROVE  QuietStep
  BY <1>1, <1>5, <1>6 DEF WorkflowRunnerStep, WorkflowRunnerHarmed, RunStep, LoadHistory,
     LoadSignals, HandlerReturns, CompletionReplyLost, CompletesWorkflow, CompleteTask,
     HandlerFails, TaskError, RunLost, Harm, storageVars
<1>7. ASSUME NEW w \in WorkflowIDs, CleanColdWorkflows(w) \/ CleanDeadWorkflows(w)
      PROVE  QuietStep
  <2>1. /\ UNCHANGED <<aruns, faults>>
        /\ workflows'[w].status = "deleted"
        /\ activities' = [k \in ActivityKeys |->
             IF activities[k].wf = w THEN NoActivityRow ELSE activities[k]]
    BY <1>7 DEF CleanColdWorkflows, CleanDeadWorkflows, deleteWorkflow, IInv, TypeOK,
                StorageTypeOK
  <2>2. \A k \in ActivityKeys : activities[k].wf = w => activities[k].status # "none"
    BY StorageAssumption DEF IInv, ForeignKeys
  <2>3. NoActivityRow.status = "none" /\ NoActivityRow.attempts = 0
    BY DEF NoActivityRow
  <2>4. ASSUME NEW k \in ActivityKeys
        PROVE  activities'[k] = activities[k] \/ IsDeleted(k)
    <3>1. CASE activities[k].wf = w
      <4>1. activities'[k].status = "none" /\ activities'[k].attempts = 0
        BY <2>1, <2>3, <3>1
      <4>2. QED
        BY <2>1, <2>2, <3>1, <4>1 DEF IsDeleted
    <3>2. CASE activities[k].wf # w
      BY <2>1, <3>2
    <3>3. QED
      BY <3>1, <3>2
  <2>5. QED
    BY <2>1, <2>4 DEF QuietStep, RowsAreQuiet
<1>8. CASE UNCHANGED vars
  BY <1>1, <1>8 DEF vars
<1>9. QED
  BY <1>2, <1>3, <1>4, <1>6, <1>7, <1>8 DEF Next

\* What the end of the run of activity k of workflow w by runner r leaves: row in
\* the table of activities, and a task or the failure of the workflow with it.
LeavesRow(r, k, w, row) ==
  /\ activities' = [activities EXCEPT ![k] = row]
  /\ row.wf = w
  /\ row.call = activities[k].call
  /\ row.attempts = activities[k].attempts
  /\ \/ /\ row.status = "pending"
        /\ aruns[r].attempts < ActivityMaxAttempts
        /\ UNCHANGED <<workflows, tasks>>
     \/ /\ row.status = "completed"
        /\ row.output \in Outputs
        /\ insertWorkflowTask(w, TRUE)
        /\ UNCHANGED workflows
     \/ /\ row.status = "failed"
        /\ failWorkflow(w)
        /\ UNCHANGED tasks

LEMMA ActivityRunEnds ==
  ASSUME IInv, NEW r \in ActivityRunners,
         ActivityRunnerStep(r) \/ ActivityRunnerHarmed(r),
         NEW k, k = aruns[r].key, NEW w, w = aruns[r].wf
  PROVE  /\ aruns[r].busy /\ k \in ActivityKeys /\ w \in WorkflowIDs
         /\ aruns' = [aruns EXCEPT ![r] = IdleActivity]
         /\ UNCHANGED <<signals, wruns>>
         /\ \/ UNCHANGED storageVars /\ faults' = faults + 1
            \/ UNCHANGED storageVars /\ faults' = faults /\ ~OwnsActivity(w, k)
            \/ /\ OwnsActivity(w, k) /\ Exists(w) /\ faults' = faults
               /\ \E row : LeavesRow(r, k, w, row)
<1>1. /\ aruns[r].busy
      /\ aruns' = [aruns EXCEPT ![r] = IdleActivity]
      /\ UNCHANGED <<signals, wruns>>
  BY DEF ActivityRunnerStep, ActivityRunnerHarmed, ActivityRunStep, ActivitySucceeds,
         ActivityFails, ActivityRunLost, ActivityError, EndActivityRun, CompleteActivity,
         ReScheduleActivity, FailActivity, storageVars
<1>2. k \in ActivityKeys /\ w \in WorkflowIDs /\ StorageTypeOK /\ aruns[r].attempts \in Nat
  BY <1>1 DEF IInv, TypeOK, ActivityWorkerTypeOK, ActivityRun
<1>3. CASE ActivityRunnerHarmed(r)
  BY <1>1, <1>2, <1>3 DEF ActivityRunnerHarmed, ActivityRunLost, Harm
<1>4. CASE ActivityRunnerStep(r)
  <2>1. /\ faults' = faults
        /\ \/ \E output \in Outputs : CompleteActivity(k, w, output)
           \/ aruns[r].attempts < ActivityMaxAttempts /\ ReScheduleActivity(k, w)
           \/ FailActivity(k, w)
    BY <1>2, <1>4, ActivityWorkerAssumption
       DEF ActivityRunnerStep, ActivityRunStep, ActivitySucceeds, ActivityFails, ActivityError
  <2>2. CASE ~OwnsActivity(w, k)
    <3>1. UNCHANGED storageVars
      BY <2>1, <2>2 DEF CompleteActivity, ReScheduleActivity, FailActivity, storageVars
    <3>2. QED
      BY <1>1, <1>2, <2>1, <2>2, <3>1
  <2>3. CASE OwnsActivity(w, k)
    <3>1. Exists(w) /\ activities[k].wf = w /\ activities[k] \in ActivityRow
      BY <1>2, <2>3 DEF OwnsActivity, IInv, ForeignKeys, StorageTypeOK
    <3>2. CASE \E output \in Outputs : CompleteActivity(k, w, output)
      <4>1. PICK output \in Outputs : CompleteActivity(k, w, output)
        BY <3>2
      <4> DEFINE row == [activities[k] EXCEPT !.status = "completed", !.output = output]
      <4>2. /\ activities' = [activities EXCEPT ![k] = row]
            /\ insertWorkflowTask(w, TRUE)
            /\ UNCHANGED workflows
        BY <2>3, <3>1, <4>1 DEF CompleteActivity
      <4>3. LeavesRow(r, k, w, row)
        <5>1. /\ row.status = "completed" /\ row.wf = w /\ row.output = output
              /\ row.call = activities[k].call /\ row.attempts = activities[k].attempts
          BY <3>1 DEF ActivityRow
        <5> HIDE DEF row
        <5>2. QED
          BY <4>2, <5>1 DEF LeavesRow
      <4>4. QED
        BY <1>1, <1>2, <2>1, <2>3, <3>1, <4>3
    <3>3. CASE aruns[r].attempts < ActivityMaxAttempts /\ ReScheduleActivity(k, w)
      <4> DEFINE row == [activities[k] EXCEPT !.status = "pending"]
      <4>1. /\ activities' = [activities EXCEPT ![k] = row]
            /\ UNCHANGED <<workflows, tasks>>
        BY <2>3, <3>3 DEF ReScheduleActivity
      <4>2. LeavesRow(r, k, w, row)
        <5>1. /\ row.status = "pending" /\ row.wf = w
              /\ row.call = activities[k].call /\ row.attempts = activities[k].attempts
          BY <3>1 DEF ActivityRow
        <5> HIDE DEF row
        <5>2. QED
          BY <3>3, <4>1, <5>1 DEF LeavesRow
      <4>3. QED
        BY <1>1, <1>2, <2>1, <2>3, <3>1, <4>2
    <3>4. CASE FailActivity(k, w)
      <4> DEFINE row == [activities[k] EXCEPT !.status = "failed"]
      <4>1. /\ activities' = [activities EXCEPT ![k] = row]
            /\ failWorkflow(w)
            /\ UNCHANGED tasks
        BY <2>3, <3>4 DEF FailActivity
      <4>2. LeavesRow(r, k, w, row)
        <5>1. /\ row.status = "failed" /\ row.wf = w
              /\ row.call = activities[k].call /\ row.attempts = activities[k].attempts
          BY <3>1 DEF ActivityRow
        <5> HIDE DEF row
        <5>2. QED
          BY <4>1, <5>1 DEF LeavesRow
      <4>3. QED
        BY <1>1, <1>2, <2>1, <2>3, <3>1, <4>2
    <3>5. QED
      BY <2>1, <3>2, <3>3, <3>4
  <2>4. QED
    BY <2>2, <2>3
<1>5. QED
  BY <1>3, <1>4

-----------------------------------------------------------------------------
(* The runs find their row *)

LEMMA RunsFindTheirRowNext ==
  ASSUME IInv, RunsFindTheirRow, [Next]_vars
  PROVE  RunsFindTheirRow'
<1> USE DEF IInv, TypeOK, ActivityWorkerTypeOK
<1> DEFINE Finds(r) == /\ workflows[aruns[r].wf].status # "none"
                       /\ Exists(aruns[r].wf) => OwnsActivity(aruns[r].wf, aruns[r].key)
<1>1. StatusesStay
  BY StatusesStayNext
<1>2. \A r \in ActivityRunners : aruns[r].busy => Finds(r)
  BY DEF RunsFindTheirRow
<1>3. SUFFICES ASSUME NEW r \in ActivityRunners, aruns'[r].busy
               PROVE  Finds(r)'
  BY DEF RunsFindTheirRow
<1>4. ASSUME aruns'[r] = aruns[r],
             \A k \in ActivityKeys : \/ activities'[k] = activities[k]
                                     \/ IsInserted(k)
                                     \/ IsDeleted(k)
                                     \/ /\ activities'[k].status # "none"
                                        /\ activities'[k].wf = activities[k].wf
      PROVE  Finds(r)'
  <2> DEFINE w == aruns[r].wf
             k == aruns[r].key
  <2>1. aruns[r].busy /\ w \in WorkflowIDs /\ k \in ActivityKeys
    BY <1>3, <1>4
  <2>2. /\ workflows[w].status # "none"
        /\ Exists(w) => OwnsActivity(w, k)
    BY <1>2, <2>1
  <2>3. workflows'[w].status # "none" /\ (Exists(w)' => Exists(w))
    BY <1>1, <1>4, <2>1, <2>2 DEF StatusesStay, Exists
  <2>4. ASSUME Exists(w)' PROVE OwnsActivity(w, k)'
    <3>1. OwnsActivity(w, k) /\ workflows'[w].status # "deleted"
      BY <1>4, <2>1, <2>2, <2>3, <2>4 DEF Exists
    <3>2. QED
      BY <1>4, <2>1, <3>1 DEF OwnsActivity, IsInserted, IsDeleted
  <2>5. QED
    BY <1>4, <2>3, <2>4
<1>5. CASE QuietStep
  BY <1>4, <1>5 DEF QuietStep, RowsAreQuiet
<1>6. CASE \E q \in ActivityRunners, k \in ActivityKeys :
             PollActivity(q, k) \/ PollActivityAgain(q, k)
  <2>1. PICK q \in ActivityRunners, k \in ActivityKeys : ClaimActivity(q, k)
    BY <1>6 DEF PollActivity, PollActivityAgain
  <2> DEFINE row == [activities[k] EXCEPT !.status = "running",
                                          !.attempts = activities[k].attempts + 1]
             run == [busy |-> TRUE, key |-> k, wf |-> activities[k].wf,
                     attempts |-> activities[k].attempts + 1]
  <2>2. /\ activities[k].status # "none"
        /\ activities' = [activities EXCEPT ![k] = row]
        /\ aruns' = [aruns EXCEPT ![q] = run]
        /\ UNCHANGED workflows
    BY <2>1 DEF ClaimActivity
  <2>3. row.status = "running" /\ row.wf = activities[k].wf
    BY DEF StorageTypeOK, ActivityRow
  <2>4. run.wf = activities[k].wf /\ run.key = k
    OBVIOUS
  <2> HIDE DEF row, run
  <2>5. CASE r = q
    <3>1. Exists(activities[k].wf)
      BY <2>2 DEF ForeignKeys
    <3>2. aruns'[r].wf = activities[k].wf /\ aruns'[r].key = k
      BY <2>2, <2>4, <2>5
    <3>3. activities'[k] = row
      BY <2>2 DEF StorageTypeOK
    <3>4. QED
      BY <2>2, <2>3, <3>1, <3>2, <3>3 DEF OwnsActivity, Exists
  <2>6. CASE r # q
    <3>1. aruns'[r] = aruns[r]
      BY <2>2, <2>6
    <3>2. \A j \in ActivityKeys : \/ activities'[j] = activities[j]
                                  \/ /\ activities'[j].status # "none"
                                     /\ activities'[j].wf = activities[j].wf
      BY <2>2, <2>3 DEF StorageTypeOK
    <3>3. QED
      BY <1>4, <3>1, <3>2
  <2>7. QED
    BY <2>5, <2>6
<1>7. CASE \E q \in ActivityRunners : ActivityRunnerStep(q) \/ ActivityRunnerHarmed(q)
  <2>1. PICK q \in ActivityRunners : ActivityRunnerStep(q) \/ ActivityRunnerHarmed(q)
    BY <1>7
  <2> DEFINE k == aruns[q].key
             w == aruns[q].wf
  <2>2. /\ k \in ActivityKeys
        /\ aruns' = [aruns EXCEPT ![q] = IdleActivity]
        /\ \/ UNCHANGED storageVars
           \/ OwnsActivity(w, k) /\ \E row : LeavesRow(q, k, w, row)
    BY <2>1, ActivityRunEnds
  <2>3. aruns'[r] = aruns[r]
    BY <1>3, <2>2 DEF IdleActivity
  <2>4. \A j \in ActivityKeys : \/ activities'[j] = activities[j]
                                \/ /\ activities'[j].status # "none"
                                   /\ activities'[j].wf = activities[j].wf
    BY <2>2 DEF storageVars, LeavesRow, OwnsActivity, StorageTypeOK
  <2>5. QED
    BY <1>4, <2>3, <2>4
<1>8. QED
  BY <1>5, <1>6, <1>7, QuietSteps

-----------------------------------------------------------------------------
(* The attempts of an activity *)

LEMMA FiniteSets ==
  ASSUME NEW S, IsFiniteSet(S)
  PROVE  /\ Cardinality(S) \in Nat
         /\ \A T \in SUBSET S : /\ IsFiniteSet(T)
                                /\ Cardinality(T) \in Nat
                                /\ Cardinality(T) <= Cardinality(S)
         /\ \A x \in S : Cardinality(S \ {x}) = Cardinality(S) - 1
         /\ \A x : x \notin S => Cardinality(S \cup {x}) = Cardinality(S) + 1
BY FS_CardinalityType, FS_Subset, FS_AddElement, FS_RemoveElement

LEMMA RunsAreFinite ==
  ASSUME NEW k
  PROVE  IsFiniteSet(RunsOf(k)) /\ IsFiniteSet(RetriesOf(k))
BY FS_Subset, ActivityWorkerAssumption DEF RunsOf, RetriesOf

LEMMA RunsAreFiniteNext ==
  ASSUME NEW k
  PROVE  IsFiniteSet(RunsOf(k)') /\ IsFiniteSet(RetriesOf(k)')
BY FS_Subset, ActivityWorkerAssumption DEF RunsOf, RetriesOf

IsEarned(k) ==
  activities[k].attempts + Cardinality(RetriesOf(k)) <=
    Smaller(activities[k].attempts, Larger(1, ActivityMaxAttempts) - 1) + faults
    + (IF Overlaps(activities[k].status, RunsOf(k)) THEN 1 ELSE 0)

\* Nothing happens to the row, and a run of it ends by a fault or none does.
LEMMA KeptRowIsEarned ==
  ASSUME IInv, NEW k \in ActivityKeys, IsEarned(k),
         activities'[k] = activities[k],
         \A r \in RunsOf(k)' : r \in RunsOf(k) /\ aruns'[r] = aruns[r],
         \/ faults' = faults + 1
         \/ faults' = faults /\ RunsOf(k)' = RunsOf(k)
  PROVE  IsEarned(k)'
<1>1. activities[k].attempts \in Nat /\ faults \in Nat
  BY DEF IInv, TypeOK, StorageTypeOK, ActivityRow
<1>2. \A r \in RetriesOf(k)' : r \in RetriesOf(k)
  BY DEF RetriesOf
<1>3. /\ Cardinality(RetriesOf(k)) \in Nat
      /\ Cardinality(RetriesOf(k)') \in Nat
      /\ Cardinality(RetriesOf(k)') <= Cardinality(RetriesOf(k))
  BY <1>2, RunsAreFinite, RunsAreFiniteNext, FiniteSets
<1>4. CASE faults' = faults + 1
  BY <1>1, <1>3, <1>4, ActivityWorkerAssumption DEF IsEarned, Smaller, Larger
<1>5. CASE faults' = faults /\ RunsOf(k)' = RunsOf(k)
  BY <1>1, <1>3, <1>5, ActivityWorkerAssumption DEF IsEarned, Smaller, Larger, Overlaps
<1>6. QED
  BY <1>4, <1>5

LEMMA InsertedRowHasNoRun ==
  ASSUME RunsFindTheirRow, NEW k \in ActivityKeys, IsInserted(k), aruns' = aruns
  PROVE  RunsOf(k)' = {}
<1> SUFFICES ASSUME NEW r \in ActivityRunners, aruns[r].busy, aruns[r].key = k,
                    activities'[k].wf = aruns[r].wf
             PROVE  FALSE
  BY DEF RunsOf, OwnsActivity
<1>1. Exists(aruns[r].wf)
  BY DEF IsInserted
<1>2. QED
  BY <1>1 DEF RunsFindTheirRow, OwnsActivity, IsInserted

LEMMA InsertedRowIsEarned ==
  ASSUME IInv, RunsFindTheirRow, NEW k \in ActivityKeys, IsInserted(k), aruns' = aruns,
         faults' \in Nat
  PROVE  IsEarned(k)'
<1>1. RetriesOf(k)' = {}
  BY InsertedRowHasNoRun DEF RetriesOf
<1>2. Cardinality(RetriesOf(k)') = 0
  BY <1>1, FS_EmptySet
<1>3. Smaller(0, Larger(1, ActivityMaxAttempts) - 1) = 0
  BY ActivityWorkerAssumption DEF Smaller, Larger
<1>4. activities'[k].attempts = 0
  BY DEF IsInserted
<1>5. QED
  BY <1>2, <1>3, <1>4 DEF IsEarned

\* What a claim does to the table and to the runs.
LEMMA ActivityIsClaimed ==
  ASSUME IInv, NEW r \in ActivityRunners, NEW k \in ActivityKeys,
         PollActivity(r, k) \/ PollActivityAgain(r, k)
  PROVE  /\ activities'[k].status = "running"
         /\ activities'[k].attempts = activities[k].attempts + 1
         /\ activities'[k].output = activities[k].output
         /\ activities'[k].wf = activities[k].wf
         /\ activities'[k].call = activities[k].call
         /\ activities[k].status # "none"
         /\ aruns'[r].attempts = activities[k].attempts + 1
         /\ r \notin RunsOf(k) /\ RunsOf(k)' = RunsOf(k) \cup {r}
         /\ \A q \in ActivityRunners : q # r => aruns'[q] = aruns[q]
         /\ \A j \in ActivityKeys : j # k =>
              /\ activities'[j] = activities[j]
              /\ RunsOf(j)' = RunsOf(j)
              /\ \A q \in RunsOf(j) : aruns'[q] = aruns[q]
         /\ UNCHANGED <<workflows, tasks, signals, wruns>>
<1> USE DEF IInv, TypeOK, ActivityWorkerTypeOK
<1> DEFINE A == activities[k].attempts
           row == [activities[k] EXCEPT !.status = "running", !.attempts = A + 1]
           run == [busy |-> TRUE, key |-> k, wf |-> activities[k].wf, attempts |-> A + 1]
<1>1. /\ ~aruns[r].busy
      /\ activities[k].status # "none"
      /\ activities' = [activities EXCEPT ![k] = row]
      /\ aruns' = [aruns EXCEPT ![r] = run]
      /\ UNCHANGED <<workflows, tasks, signals, wruns>>
  BY DEF PollActivity, PollActivityAgain, ClaimActivity
<1>2. activities[k] \in ActivityRow
  BY DEF StorageTypeOK
<1>3. /\ row.status = "running" /\ row.wf = activities[k].wf /\ row.attempts = A + 1
      /\ row.output = activities[k].output /\ row.call = activities[k].call
  BY <1>2 DEF ActivityRow
<1>4. run.busy /\ run.key = k /\ run.wf = activities[k].wf /\ run.attempts = A + 1
  OBVIOUS
<1> HIDE DEF row, run
<1>5. /\ activities'[k] = row
      /\ \A j \in ActivityKeys : j # k => activities'[j] = activities[j]
  BY <1>1 DEF StorageTypeOK
<1>6. /\ aruns'[r] = run
      /\ \A q \in ActivityRunners : q # r => aruns'[q] = aruns[q]
  BY <1>1
<1>7. r \notin RunsOf(k) /\ RunsOf(k)' = RunsOf(k) \cup {r}
  BY <1>1, <1>3, <1>4, <1>5, <1>6 DEF RunsOf, OwnsActivity
<1>8. ASSUME NEW j \in ActivityKeys, j # k
      PROVE  /\ RunsOf(j)' = RunsOf(j)
             /\ \A q \in RunsOf(j) : aruns'[q] = aruns[q]
  BY <1>1, <1>4, <1>5, <1>6, <1>8 DEF RunsOf, OwnsActivity
<1>9. QED
  BY <1>1, <1>3, <1>4, <1>5, <1>6, <1>7, <1>8

\* A claim counts an attempt and starts a run, which saves a fault for the next
\* claim of the row or, when the row had a run, was a fault itself.
LEMMA ClaimedRowIsEarned ==
  ASSUME IInv, NEW r \in ActivityRunners, NEW k \in ActivityKeys, IsEarned(k),
         PollActivity(r, k) \/ PollActivityAgain(r, k)
  PROVE  IsEarned(k)'
<1> DEFINE A == activities[k].attempts
           R == Cardinality(RetriesOf(k))
<1>1. /\ activities'[k].status = "running"
      /\ activities'[k].attempts = A + 1
      /\ aruns'[r].attempts = A + 1
      /\ r \notin RunsOf(k) /\ RunsOf(k)' = RunsOf(k) \cup {r}
      /\ \A q \in ActivityRunners : q # r => aruns'[q] = aruns[q]
  BY ActivityIsClaimed
<1>2. A \in Nat /\ faults \in Nat
  BY DEF IInv, TypeOK, StorageTypeOK, ActivityRow
<1>3. /\ A + 1 < ActivityMaxAttempts => RetriesOf(k)' = RetriesOf(k) \cup {r}
      /\ ~(A + 1 < ActivityMaxAttempts) => RetriesOf(k)' = RetriesOf(k)
      /\ r \notin RetriesOf(k)
  BY <1>1 DEF RetriesOf, RunsOf
<1>4. /\ R \in Nat
      /\ A + 1 < ActivityMaxAttempts => Cardinality(RetriesOf(k)') = R + 1
      /\ ~(A + 1 < ActivityMaxAttempts) => Cardinality(RetriesOf(k)') = R
  BY <1>3, RunsAreFinite, FiniteSets
<1>5. Overlaps(activities'[k].status, RunsOf(k)')
  BY <1>1 DEF Overlaps
<1>6. \/ ~Overlaps(activities[k].status, RunsOf(k)) /\ faults' = faults
      \/ faults' = faults + 1
  BY DEF PollActivity, PollActivityAgain, Harm
<1> HIDE DEF A, R
<1>7. \/ A + R <= Smaller(A, Larger(1, ActivityMaxAttempts) - 1) + faults
         /\ faults' = faults
      \/ A + R <= Smaller(A, Larger(1, ActivityMaxAttempts) - 1) + faults + 1
         /\ faults' = faults + 1
  BY <1>2, <1>4, <1>6, ActivityWorkerAssumption DEF IsEarned, A, R, Smaller, Larger
<1>8. A + 1 + Cardinality(RetriesOf(k)') <=
        Smaller(A + 1, Larger(1, ActivityMaxAttempts) - 1) + faults' + 1
  BY <1>2, <1>4, <1>7, ActivityWorkerAssumption DEF Smaller, Larger
<1>9. QED
  BY <1>1, <1>5, <1>8 DEF IsEarned

\* A run that fails early enough has the row claimed again; one that ends the
\* activity leaves the last claim to a fault.
LEMMA LeftRowIsEarned ==
  ASSUME IInv, NEW r \in ActivityRunners, aruns[r].busy,
         aruns' = [aruns EXCEPT ![r] = IdleActivity],
         NEW k \in ActivityKeys, k = aruns[r].key, NEW w, w = aruns[r].wf,
         IsEarned(k), OwnsActivity(w, k), faults' = faults,
         NEW row, LeavesRow(r, k, w, row)
  PROVE  IsEarned(k)'
<1> USE DEF IInv, TypeOK, ActivityWorkerTypeOK
<1> DEFINE A == activities[k].attempts
           R == Cardinality(RetriesOf(k))
<1>1. A \in Nat /\ faults \in Nat /\ aruns[r].attempts \in Nat
  BY DEF StorageTypeOK, ActivityRow, ActivityRun
<1>2. activities'[k] = row /\ row.attempts = A /\ row.wf = activities[k].wf
  BY DEF LeavesRow, StorageTypeOK, OwnsActivity
<1>3. \A q \in ActivityRunners : aruns'[q] = IF q = r THEN IdleActivity ELSE aruns[q]
  OBVIOUS
<1>4. r \in RunsOf(k) /\ r \notin RunsOf(k)'
  BY <1>3 DEF RunsOf, IdleActivity
<1>5. \A q \in RetriesOf(k)' : q \in RetriesOf(k) /\ q # r
  BY <1>2, <1>3, <1>4 DEF RetriesOf, RunsOf, OwnsActivity
<1>6. R \in Nat /\ Cardinality(RetriesOf(k)') \in Nat /\ Cardinality(RetriesOf(k)') <= R
  BY <1>5, RunsAreFinite, RunsAreFiniteNext, FiniteSets
<1>7. activities[k].status # "none"
  BY DEF OwnsActivity
<1>8. CASE row.status = "pending"
  <2>1. aruns[r].attempts < ActivityMaxAttempts
    BY <1>8 DEF LeavesRow
  <2>2. r \in RetriesOf(k)
    BY <1>4, <2>1 DEF RetriesOf
  <2>3. RetriesOf(k)' \in SUBSET (RetriesOf(k) \ {r})
    BY <1>5
  <2>4. IsFiniteSet(RetriesOf(k) \ {r}) /\ Cardinality(RetriesOf(k) \ {r}) = R - 1
    BY <2>2, RunsAreFinite, FiniteSets
  <2>5. Cardinality(RetriesOf(k)') <= R - 1
    BY <2>3, <2>4, FiniteSets
  <2> HIDE DEF A, R
  <2>6. A + R <= Smaller(A, Larger(1, ActivityMaxAttempts) - 1) + faults + 1
    BY <1>1, <1>6, <1>7, ActivityWorkerAssumption DEF IsEarned, A, R, Smaller, Larger
  <2>7. A + Cardinality(RetriesOf(k)') <=
          Smaller(A, Larger(1, ActivityMaxAttempts) - 1) + faults'
    BY <1>1, <1>6, <2>5, <2>6, ActivityWorkerAssumption DEF Smaller, Larger
  <2>8. ~Overlaps(activities'[k].status, RunsOf(k)')
    BY <1>2, <1>8 DEF Overlaps
  <2>9. QED
    BY <1>2, <2>7, <2>8, <1>1, <1>6, ActivityWorkerAssumption
       DEF IsEarned, Smaller, Larger
<1>9. CASE row.status \in {"completed", "failed"}
  <2>1. Overlaps(activities'[k].status, RunsOf(k)')
    BY <1>2, <1>9 DEF Overlaps
  <2> HIDE DEF A, R
  <2>2. A + R <= Smaller(A, Larger(1, ActivityMaxAttempts) - 1) + faults + 1
    BY <1>1, <1>6, <1>7, ActivityWorkerAssumption DEF IsEarned, A, R, Smaller, Larger
  <2>3. QED
    BY <1>1, <1>2, <1>6, <2>1, <2>2, ActivityWorkerAssumption
       DEF IsEarned, Smaller, Larger
<1>10. QED
  BY <1>8, <1>9 DEF LeavesRow

LEMMA AttemptsAreEarnedNext ==
  ASSUME IInv, IInv', RunsFindTheirRow, AttemptsAreEarned, [Next]_vars
  PROVE  AttemptsAreEarned'
<1>1. \A k \in ActivityKeys : IsEarned(k)
  BY DEF AttemptsAreEarned, IsEarned
<1>2. SUFFICES ASSUME NEW k \in ActivityKeys PROVE IsEarned(k)'
  BY DEF AttemptsAreEarned, IsEarned
<1>3. faults \in Nat /\ faults' \in Nat
  BY DEF IInv, TypeOK
<1>4. CASE QuietStep
  <2>1. CASE activities'[k] = activities[k]
    <3>1. RunsOf(k)' = RunsOf(k)
      BY <1>4, <2>1 DEF QuietStep, RunsOf, OwnsActivity
    <3>2. QED
      BY <1>1, <1>4, <2>1, <3>1, KeptRowIsEarned DEF QuietStep
  <2>2. CASE IsInserted(k)
    BY <1>3, <1>4, <2>2, InsertedRowIsEarned DEF QuietStep
  <2>3. CASE IsDeleted(k)
    <3>1. RetriesOf(k)' = {}
      BY <2>3 DEF IsDeleted, RetriesOf, RunsOf, OwnsActivity
    <3>2. Cardinality(RetriesOf(k)') = 0
      BY <3>1, FS_EmptySet
    <3>3. Smaller(0, Larger(1, ActivityMaxAttempts) - 1) = 0
      BY ActivityWorkerAssumption DEF Smaller, Larger
    <3>4. QED
      BY <1>3, <2>3, <3>2, <3>3 DEF IsDeleted, IsEarned
  <2>4. QED
    BY <1>4, <2>1, <2>2, <2>3 DEF QuietStep, RowsAreQuiet
<1>5. CASE \E r \in ActivityRunners, j \in ActivityKeys :
             PollActivity(r, j) \/ PollActivityAgain(r, j)
  <2>1. PICK r \in ActivityRunners, j \in ActivityKeys :
               PollActivity(r, j) \/ PollActivityAgain(r, j)
    BY <1>5
  <2>2. CASE j = k
    BY <1>1, <2>1, <2>2, ClaimedRowIsEarned
  <2>3. CASE j # k
    <3>1. /\ activities'[k] = activities[k]
          /\ RunsOf(k)' = RunsOf(k)
          /\ \A q \in RunsOf(k) : aruns'[q] = aruns[q]
      BY <2>1, <2>3, ActivityIsClaimed
    <3>2. faults' = faults \/ faults' = faults + 1
      BY <2>1 DEF PollActivity, PollActivityAgain, Harm
    <3>3. QED
      BY <1>1, <3>1, <3>2, KeptRowIsEarned
  <2>4. QED
    BY <2>2, <2>3
<1>6. CASE \E r \in ActivityRunners : ActivityRunnerStep(r) \/ ActivityRunnerHarmed(r)
  <2>1. PICK r \in ActivityRunners : ActivityRunnerStep(r) \/ ActivityRunnerHarmed(r)
    BY <1>6
  <2> DEFINE j == aruns[r].key
             w == aruns[r].wf
  <2>2. /\ aruns[r].busy /\ j \in ActivityKeys /\ w \in WorkflowIDs
        /\ aruns' = [aruns EXCEPT ![r] = IdleActivity]
        /\ \/ UNCHANGED storageVars /\ faults' = faults + 1
           \/ UNCHANGED storageVars /\ faults' = faults /\ ~OwnsActivity(w, j)
           \/ /\ OwnsActivity(w, j) /\ faults' = faults
              /\ \E row : LeavesRow(r, j, w, row)
    BY <2>1, ActivityRunEnds
  <2>3. \A q \in ActivityRunners : aruns'[q] = IF q = r THEN IdleActivity ELSE aruns[q]
    BY <2>2 DEF IInv, TypeOK, ActivityWorkerTypeOK
  <2>4. ASSUME activities'[k] = activities[k]
        PROVE  /\ \A q \in RunsOf(k)' : q \in RunsOf(k) /\ aruns'[q] = aruns[q]
               /\ r \notin RunsOf(k) => RunsOf(k)' = RunsOf(k)
    BY <2>3, <2>4 DEF RunsOf, OwnsActivity, IdleActivity
  <2>5. CASE UNCHANGED storageVars /\ faults' = faults + 1
    <3>1. activities'[k] = activities[k]
      BY <2>5 DEF storageVars
    <3>2. QED
      BY <1>1, <2>4, <2>5, <3>1, KeptRowIsEarned
  <2>6. CASE UNCHANGED storageVars /\ faults' = faults /\ ~OwnsActivity(w, j)
    <3>1. activities'[k] = activities[k]
      BY <2>6 DEF storageVars
    <3>2. r \notin RunsOf(k)
      BY <2>6 DEF RunsOf
    <3>3. QED
      BY <1>1, <2>4, <2>6, <3>1, <3>2, KeptRowIsEarned
  <2>7. CASE OwnsActivity(w, j) /\ faults' = faults /\ \E row : LeavesRow(r, j, w, row)
    <3>1. PICK row : LeavesRow(r, j, w, row)
      BY <2>7
    <3>2. CASE k = j
      BY <1>1, <2>2, <2>7, <3>1, <3>2, LeftRowIsEarned
    <3>3. CASE k # j
      <4>1. activities'[k] = activities[k]
        BY <3>1, <3>3 DEF LeavesRow, IInv, TypeOK, StorageTypeOK
      <4>2. r \notin RunsOf(k)
        BY <3>3 DEF RunsOf
      <4>3. QED
        BY <1>1, <2>4, <2>7, <4>1, <4>2, KeptRowIsEarned
    <3>4. QED
      BY <3>2, <3>3
  <2>8. QED
    BY <2>2, <2>5, <2>6, <2>7
<1>7. QED
  BY <1>4, <1>5, <1>6, QuietSteps

LEMMA ActivityAttemptsInvariant == Spec => [](RunsFindTheirRow /\ AttemptsAreEarned)
<1>1. Init => RunsFindTheirRow /\ AttemptsAreEarned
  <2> SUFFICES ASSUME Init PROVE RunsFindTheirRow /\ AttemptsAreEarned
    OBVIOUS
  <2>1. \A r \in ActivityRunners : ~aruns[r].busy
    BY DEF Init, ActivityWorkerInit, IdleActivity
  <2>2. \A k \in ActivityKeys : activities[k].attempts = 0
    BY DEF Init, StorageInit, NoActivityRow
  <2>3. \A k \in ActivityKeys : Cardinality(RetriesOf(k)) = 0
    BY <2>1, FS_EmptySet DEF RetriesOf, RunsOf
  <2>4. QED
    BY <2>1, <2>2, <2>3, ActivityWorkerAssumption
       DEF Init, RunsFindTheirRow, AttemptsAreEarned, Smaller, Larger
<1>2. IInv /\ RunsFindTheirRow /\ AttemptsAreEarned /\ [Next]_vars
        => RunsFindTheirRow' /\ AttemptsAreEarned'
  BY NextIInv, RunsFindTheirRowNext, AttemptsAreEarnedNext
<1>3. QED
  BY <1>1, <1>2, Invariance, PTL DEF Spec

\* However the runs of an activity overlap, fail, are lost or lose their workflow,
\* it is started at most max_attempts times and once more per fault: a run decides
\* on the attempts its own claim read, so only a run below the limit schedules the
\* activity again, and no two of its claims are paid for by the same run.
THEOREM ActivityAttemptsAreBounded == Spec => []ActivityAttemptsBounded
<1>1. IInv /\ AttemptsAreEarned => ActivityAttemptsBounded
  <2> SUFFICES ASSUME IInv, AttemptsAreEarned, NEW k \in ActivityKeys
               PROVE  activities[k].attempts <= Larger(1, ActivityMaxAttempts) + faults
    BY DEF ActivityAttemptsBounded
  <2>1. activities[k].attempts \in Nat /\ faults \in Nat
    BY DEF IInv, TypeOK, StorageTypeOK, ActivityRow
  <2>2. Cardinality(RetriesOf(k)) \in Nat
    BY RunsAreFinite, FiniteSets
  <2>3. QED
    BY <2>1, <2>2, ActivityWorkerAssumption DEF AttemptsAreEarned, Smaller, Larger
<1>2. QED
  BY <1>1, ActivityAttemptsInvariant, Invariance, PTL

-----------------------------------------------------------------------------
(* The attempts of a workflow *)

\* No run starts, and those that go on hold what their claim read.
ClaimsStay ==
  \A r \in WorkflowRunners : wruns'[r].phase # "idle" =>
    /\ wruns[r].phase # "idle"
    /\ wruns'[r].wf = wruns[r].wf
    /\ wruns'[r].attempts = wruns[r].attempts

LEMMA EndedRunStays ==
  ASSUME IInv, NEW r \in WorkflowRunners, EndRun(r)
  PROVE  ClaimsStay /\ wruns'[r] = IdleRun
BY DEF IInv, TypeOK, WorkflowWorkerTypeOK, EndRun, ClaimsStay, IdleRun

LEMMA MovedRunStays ==
  ASSUME IInv, NEW r \in WorkflowRunners, wruns[r].phase # "idle", NEW run,
         run.wf = wruns[r].wf, run.attempts = wruns[r].attempts,
         wruns' = [wruns EXCEPT ![r] = run]
  PROVE  ClaimsStay
<1>1. \A q \in WorkflowRunners : wruns'[q] = IF q = r THEN run ELSE wruns[q]
  BY DEF IInv, TypeOK, WorkflowWorkerTypeOK
<1>2. QED
  BY <1>1 DEF ClaimsStay

\* The step of a run below the limit that fails.
ReSchedules(r) ==
  /\ wruns[r].phase # "idle"
  /\ wruns[r].attempts < WorkflowMaxAttempts
  /\ EndRun(r)
  /\ \E row : /\ workflows' = [workflows EXCEPT ![wruns[r].wf] = row]
              /\ row.attempts = workflows[wruns[r].wf].attempts + 1

LEMMA WorkflowRunnerAttempts ==
  ASSUME IInv, NEW r \in WorkflowRunners, WorkflowRunnerStep(r) \/ WorkflowRunnerHarmed(r)
  PROVE  (AttemptsStay /\ ClaimsStay) \/ ReSchedules(r)
<1> DEFINE t == wruns[r].task
           w == wruns[r].wf
<1>1. wruns[r].phase # "idle" /\ wruns[r] \in WorkflowRun /\ w \in WorkflowIDs /\ t \in TaskIDs
  BY DEF WorkflowRunnerStep, WorkflowRunnerHarmed, RunStep, LoadHistory, LoadSignals,
         ScheduleActivity, HandlerReturns, CompletionReplyLost, CompletesWorkflow,
         CompleteTask, HandlerEnds, HandlerFails, RunLost, IInv, TypeOK, WorkflowWorkerTypeOK
<1>2. ASSUME UNCHANGED workflows PROVE AttemptsStay
  BY <1>2 DEF AttemptsStay
<1>3. CASE LoadHistory(r)
  <2> DEFINE run == [Loaded(wruns[r], "history") EXCEPT
                       !.hist = ListHistoryEventsForWorkflow(wruns[r].wf)]
  <2>1. run.wf = w /\ run.attempts = wruns[r].attempts
    BY <1>1 DEF Loaded, WorkflowRun
  <2>2. wruns' = [wruns EXCEPT ![r] = run] /\ UNCHANGED workflows
    BY <1>3 DEF LoadHistory, storageVars
  <2> HIDE DEF run
  <2>3. QED
    BY <1>1, <1>2, <2>1, <2>2, MovedRunStays
<1>4. CASE LoadSignals(r)
  <2> DEFINE run == [Loaded(wruns[r], "signals") EXCEPT
                       !.sigs = ListWorkflowSignals(wruns[r].wf)]
  <2>1. run.wf = w /\ run.attempts = wruns[r].attempts
    BY <1>1 DEF Loaded, WorkflowRun
  <2>2. wruns' = [wruns EXCEPT ![r] = run] /\ UNCHANGED workflows
    BY <1>4 DEF LoadSignals, storageVars
  <2> HIDE DEF run
  <2>3. QED
    BY <1>1, <1>2, <2>1, <2>2, MovedRunStays
<1>5. CASE ScheduleActivity(r)
  <2>1. PICK n : wruns' = [wruns EXCEPT ![r] = [@ EXCEPT !.next = n + 1]]
    BY <1>5 DEF ScheduleActivity
  <2> DEFINE run == [wruns[r] EXCEPT !.next = n + 1]
  <2>2. run.wf = w /\ run.attempts = wruns[r].attempts
    BY <1>1 DEF WorkflowRun
  <2>3. wruns' = [wruns EXCEPT ![r] = run] /\ UNCHANGED workflows
    BY <1>5, <2>1 DEF ScheduleActivity
  <2> HIDE DEF run
  <2>4. QED
    BY <1>1, <1>2, <2>2, <2>3, MovedRunStays
<1>6. CASE HandlerReturns(r) \/ CompletionReplyLost(r)
  <2>1. PICK phase : CompletesWorkflow(r, phase)
    BY <1>6 DEF HandlerReturns, CompletionReplyLost
  <2> DEFINE run == Ended(wruns[r], phase)
  <2>2. run.wf = w /\ run.attempts = wruns[r].attempts
    BY DEF Ended
  <2>3. wruns' = [wruns EXCEPT ![r] = run]
    BY <2>1 DEF CompletesWorkflow
  <2> HIDE DEF run
  <2>4. QED
    BY <1>1, <2>1, <2>2, <2>3, MovedRunStays, CompletesWorkflowStays
<1>7. CASE CompleteTask(r) \/ HandlerFails(r)
  <2>1. /\ EndRun(r)
        /\ \/ CompleteWorkflowTask(t, w)
           \/ ReScheduleWorkflowTask(t, w) /\ wruns[r].attempts < WorkflowMaxAttempts
           \/ FailWorkflowTask(t, w)
    BY <1>1, <1>7, WorkflowWorkerAssumption
       DEF CompleteTask, HandlerFails, TaskError, WorkflowRun
  <2>2. /\ TaskExists(t) => tasks[t].wf = w /\ Exists(w)
        /\ ~TaskExists(t) => UNCHANGED <<workflows, tasks>>
        /\ TaskExists(t) => \E new \in {"pending", "completed", "failed"} :
                              TaskEndsAs(t, w, new)
    BY <1>1, <2>1, TaskEnds
  <2>3. CASE ~TaskExists(t)
    BY <1>2, <2>1, <2>2, <2>3, EndedRunStays
  <2>4. CASE TaskExists(t)
    <3>1. PICK new \in {"pending", "completed", "failed"} : TaskEndsAs(t, w, new)
      BY <2>2, <2>4
    <3>2. PICK row : /\ Updates(w, row)
                     /\ new # "pending" => row.attempts = workflows[w].attempts
                     /\ new = "pending" => row.attempts = workflows[w].attempts + 1
      BY <3>1 DEF TaskEndsAs
    <3>3. CASE new = "pending"
      <4>1. tasks'[t].status = "pending"
        BY <1>1, <3>1, <3>3 DEF TaskEndsAs, IInv, TypeOK, StorageTypeOK, TaskRow
      <4>2. wruns[r].attempts < WorkflowMaxAttempts
        <5>1. ASSUME tasks' = [tasks EXCEPT ![t].status = "completed"]
                     \/ tasks' = [tasks EXCEPT ![t].status = "failed"]
              PROVE  FALSE
          BY <1>1, <4>1, <5>1 DEF IInv, TypeOK, StorageTypeOK, TaskRow
        <5>2. QED
          BY <2>1, <2>4, <5>1 DEF CompleteWorkflowTask, FailWorkflowTask
      <4>3. QED
        BY <1>1, <2>1, <3>2, <3>3, <4>2 DEF ReSchedules, Updates
    <3>4. CASE new # "pending"
      <4>1. /\ workflows'[w] = row
            /\ \A u \in WorkflowIDs : u # w => workflows'[u] = workflows[u]
        BY <1>1, <3>2, UpdateStays DEF IInv, TypeOK
      <4>2. AttemptsStay
        BY <3>2, <3>4, <4>1 DEF AttemptsStay
      <4>3. QED
        BY <2>1, <4>2, EndedRunStays
    <3>5. QED
      BY <3>3, <3>4
  <2>5. QED
    BY <2>3, <2>4
<1>8. CASE RunLost(r)
  BY <1>2, <1>8, EndedRunStays DEF RunLost, storageVars
<1>9. QED
  BY <1>3, <1>4, <1>5, <1>6, <1>7, <1>8
     DEF WorkflowRunnerStep, WorkflowRunnerHarmed, RunStep

LEMMA WorkflowAttemptsStep ==
  ASSUME IInv, [Next]_vars
  PROVE  \/ AttemptsStay /\ ClaimsStay
         \/ \E r \in WorkflowRunners : ReSchedules(r)
         \/ \E r \in WorkflowRunners, t \in TaskIDs : ClaimTask(r, t)
<1>1. ASSUME UNCHANGED wruns PROVE ClaimsStay
  BY <1>1 DEF ClaimsStay
<1>2. ASSUME UNCHANGED workflows PROVE AttemptsStay
  BY <1>2 DEF AttemptsStay
<1>3. ASSUME NEW w \in WorkflowIDs, NEW key \in RequestKeys, EnqueueWorkflow(w, key)
      PROVE  AttemptsStay /\ ClaimsStay
  <2> DEFINE row == [workflows[w] EXCEPT !.status = "running", !.key = key]
  <2>1. /\ workflows' = workflows \/ workflows' = [workflows EXCEPT ![w] = row]
        /\ UNCHANGED wruns
    BY <1>3 DEF EnqueueWorkflow, InsertWorkflow
  <2>2. row.attempts = workflows[w].attempts
    BY DEF IInv, TypeOK, StorageTypeOK, WorkflowRow
  <2> HIDE DEF row
  <2>3. AttemptsStay
    BY <2>1, <2>2 DEF AttemptsStay, IInv, TypeOK, StorageTypeOK
  <2>4. QED
    BY <1>1, <2>1, <2>3
<1>4. ASSUME NEW w \in WorkflowIDs, NEW s \in Signals, NEW input \in Inputs, SendSignal(w, s, input)
      PROVE  AttemptsStay /\ ClaimsStay
  BY <1>1, <1>2, <1>4 DEF SendSignal, InsertSignal, storageVars
<1>5. ASSUME NEW r \in WorkflowRunners, NEW t \in TaskIDs,
             PollWorkflowTask(r, t) \/ PollWorkflowTaskAgain(r, t)
      PROVE  ClaimTask(r, t)
  BY <1>5 DEF PollWorkflowTask, PollWorkflowTaskAgain
<1>6. ASSUME NEW r \in ActivityRunners, NEW k \in ActivityKeys,
             PollActivity(r, k) \/ PollActivityAgain(r, k)
      PROVE  AttemptsStay /\ ClaimsStay
  BY <1>1, <1>2, <1>6 DEF PollActivity, PollActivityAgain, ClaimActivity
<1>7. ASSUME NEW r \in ActivityRunners, ActivityRunnerStep(r) \/ ActivityRunnerHarmed(r)
      PROVE  AttemptsStay /\ ClaimsStay
  <2> DEFINE w == aruns[r].wf
  <2>1. /\ w \in WorkflowIDs /\ UNCHANGED wruns
        /\ UNCHANGED workflows \/ (Exists(w) /\ failWorkflow(w))
    BY <1>7, ActivityRunEnds DEF LeavesRow, storageVars
  <2>2. AttemptsStay
    BY <1>2, <2>1, failWorkflowStays DEF IInv, TypeOK
  <2>3. QED
    BY <1>1, <2>1, <2>2
<1>8. ASSUME NEW w \in WorkflowIDs, CleanColdWorkflows(w) \/ CleanDeadWorkflows(w)
      PROVE  AttemptsStay /\ ClaimsStay
  BY <1>1, <1>8 DEF CleanColdWorkflows, CleanDeadWorkflows, deleteWorkflow, AttemptsStay,
                    IInv, TypeOK, StorageTypeOK
<1>9. CASE UNCHANGED vars
  BY <1>1, <1>2, <1>9 DEF vars
<1>10. QED
  BY <1>3, <1>4, <1>5, <1>6, <1>7, <1>8, <1>9, WorkflowRunnerAttempts DEF Next

WorkflowBound == Larger(1, WorkflowMaxAttempts + Cardinality(WorkflowRunners) - 1)

LEMMA ReSchedulesAreFinite ==
  ASSUME NEW w
  PROVE  /\ IsFiniteSet(ReSchedulesOf(w)) /\ IsFiniteSet(ReSchedulesOf(w)')
         /\ Cardinality(ReSchedulesOf(w)) \in Nat
         /\ Cardinality(ReSchedulesOf(w)') \in Nat
         /\ Cardinality(ReSchedulesOf(w)') <= Cardinality(WorkflowRunners)
         /\ Cardinality(WorkflowRunners) \in Nat
<1>1. ReSchedulesOf(w) \in SUBSET WorkflowRunners /\ ReSchedulesOf(w)' \in SUBSET WorkflowRunners
  BY DEF ReSchedulesOf
<1>2. QED
  BY <1>1, FiniteSets, WorkflowWorkerAssumption

LEMMA WorkflowAttemptsAreEarnedNext ==
  ASSUME IInv, WorkflowAttemptsAreEarned, [Next]_vars
  PROVE  WorkflowAttemptsAreEarned'
<1> SUFFICES ASSUME NEW w \in WorkflowIDs
             PROVE  /\ workflows'[w].attempts >= 1
                    /\ workflows'[w].attempts + Cardinality(ReSchedulesOf(w)') <= WorkflowBound
  BY DEF WorkflowAttemptsAreEarned, WorkflowBound
<1> DEFINE B == workflows[w].attempts
           m == Cardinality(ReSchedulesOf(w))
           n == Cardinality(ReSchedulesOf(w)')
<1>1. B \in Nat /\ B >= 1 /\ B + m <= WorkflowBound
  BY DEF WorkflowAttemptsAreEarned, WorkflowBound, IInv, TypeOK, StorageTypeOK, WorkflowRow
<1>2. m \in Nat /\ n \in Nat /\ n <= Cardinality(WorkflowRunners)
      /\ Cardinality(WorkflowRunners) \in Nat
  BY ReSchedulesAreFinite
<1>3. WorkflowBound \in Nat
  BY <1>2, WorkflowWorkerAssumption DEF WorkflowBound, Larger
<1>4. ASSUME ClaimsStay PROVE n <= m
  <2>1. ReSchedulesOf(w)' \in SUBSET ReSchedulesOf(w)
    BY <1>4 DEF ClaimsStay, ReSchedulesOf
  <2>2. QED
    BY <2>1, ReSchedulesAreFinite, FiniteSets
<1>5. CASE AttemptsStay /\ ClaimsStay
  <2>1. workflows'[w].attempts = B \/ workflows'[w].attempts = 1
    BY <1>5 DEF AttemptsStay
  <2> HIDE DEF B, m, n
  <2>2. QED
    BY <1>1, <1>2, <1>3, <1>4, <1>5, <2>1 DEF n
<1>6. CASE \E r \in WorkflowRunners : ReSchedules(r)
  <2>1. PICK r \in WorkflowRunners : ReSchedules(r)
    BY <1>6
  <2>2. PICK row : /\ workflows' = [workflows EXCEPT ![wruns[r].wf] = row]
                   /\ row.attempts = workflows[wruns[r].wf].attempts + 1
    BY <2>1 DEF ReSchedules
  <2>3. ClaimsStay /\ wruns'[r].phase = "idle"
    BY <2>1, EndedRunStays DEF ReSchedules, IdleRun
  <2>4. CASE wruns[r].wf = w
    <3>1. workflows'[w].attempts = B + 1
      BY <2>2, <2>4 DEF IInv, TypeOK, StorageTypeOK
    <3>2. r \in ReSchedulesOf(w)
      BY <2>1, <2>4 DEF ReSchedules, ReSchedulesOf
    <3>3. ReSchedulesOf(w)' \in SUBSET (ReSchedulesOf(w) \ {r})
      BY <2>3 DEF ClaimsStay, ReSchedulesOf
    <3>4. n <= m - 1
      <4>1. /\ IsFiniteSet(ReSchedulesOf(w) \ {r})
            /\ Cardinality(ReSchedulesOf(w) \ {r}) = m - 1
        BY <3>2, ReSchedulesAreFinite, FiniteSets
      <4>2. QED
        BY <3>3, <4>1, FiniteSets
    <3> HIDE DEF B, m
    <3>5. QED
      BY <1>1, <1>2, <1>3, <3>1, <3>4
  <2>5. CASE wruns[r].wf # w
    <3>1. workflows'[w].attempts = B
      BY <2>2, <2>5 DEF IInv, TypeOK, StorageTypeOK
    <3> HIDE DEF B, m
    <3>2. QED
      BY <1>1, <1>2, <1>3, <1>4, <2>3, <3>1
  <2>6. QED
    BY <2>4, <2>5
<1>7. CASE \E r \in WorkflowRunners, t \in TaskIDs : ClaimTask(r, t)
  <2>1. PICK r \in WorkflowRunners, t \in TaskIDs : ClaimTask(r, t)
    BY <1>7
  <2>2. /\ wruns[r].phase = "idle"
        /\ wruns' = [wruns EXCEPT ![r] = NewRun(t)]
        /\ workflows' = workflows
    BY <2>1 DEF ClaimTask
  <2>3. \A q \in WorkflowRunners : wruns'[q] = IF q = r THEN NewRun(t) ELSE wruns[q]
    BY <2>2 DEF IInv, TypeOK, WorkflowWorkerTypeOK
  <2>4. CASE tasks[t].wf = w /\ B < WorkflowMaxAttempts
    <3> HIDE DEF m, n
    <3>1. B + n <= WorkflowBound
      BY <1>1, <1>2, <2>4, WorkflowWorkerAssumption DEF WorkflowBound, Larger
    <3>2. QED
      BY <1>1, <2>2, <3>1 DEF n
  <2>5. CASE ~(tasks[t].wf = w /\ B < WorkflowMaxAttempts)
    <3>1. ReSchedulesOf(w)' \in SUBSET ReSchedulesOf(w)
      <4>1. NewRun(t).wf = tasks[t].wf /\ NewRun(t).attempts = workflows[tasks[t].wf].attempts
        BY DEF NewRun
      <4>2. QED
        BY <2>3, <2>5, <4>1 DEF ReSchedulesOf
    <3>2. n <= m
      BY <3>1, ReSchedulesAreFinite, FiniteSets
    <3> HIDE DEF m
    <3>3. QED
      BY <1>1, <1>2, <1>3, <2>2, <3>2
  <2>6. QED
    BY <2>4, <2>5
<1>8. QED
  BY <1>5, <1>6, <1>7, WorkflowAttemptsStep

LEMMA WorkflowAttemptsInvariant == Spec => []WorkflowAttemptsAreEarned
<1>1. Init => WorkflowAttemptsAreEarned
  <2> SUFFICES ASSUME Init PROVE WorkflowAttemptsAreEarned
    OBVIOUS
  <2>1. \A w \in WorkflowIDs : workflows[w].attempts = 1
    BY DEF Init, StorageInit
  <2>2. \A w \in WorkflowIDs : Cardinality(ReSchedulesOf(w)) = 0
    BY FS_EmptySet DEF Init, WorkflowWorkerInit, IdleRun, ReSchedulesOf
  <2>3. Cardinality(WorkflowRunners) \in Nat
    BY FiniteSets, WorkflowWorkerAssumption
  <2>4. QED
    BY <2>1, <2>2, <2>3, WorkflowWorkerAssumption DEF WorkflowAttemptsAreEarned, Larger
<1>2. IInv /\ WorkflowAttemptsAreEarned /\ [Next]_vars => WorkflowAttemptsAreEarned'
  BY WorkflowAttemptsAreEarnedNext
<1>3. QED
  BY <1>1, <1>2, Invariance, PTL DEF Spec

\* The check of the attempts of a workflow is made on what the claim read, so the
\* replays claimed together with the last one pass the limit; but they were all
\* claimed below it, so the attempts pass it by fewer than there are runners, and
\* no fault, retry or deletion adds another.
THEOREM WorkflowAttemptsAreBounded == Spec => []WorkflowAttemptsBounded
<1>1. IInv /\ WorkflowAttemptsAreEarned => WorkflowAttemptsBounded
  <2> SUFFICES ASSUME IInv, WorkflowAttemptsAreEarned, NEW w \in WorkflowIDs
               PROVE  workflows[w].attempts <= WorkflowBound
    BY DEF WorkflowAttemptsBounded, WorkflowBound
  <2>1. workflows[w].attempts \in Nat
    BY DEF IInv, TypeOK, StorageTypeOK, WorkflowRow
  <2>2. Cardinality(ReSchedulesOf(w)) \in Nat /\ Cardinality(WorkflowRunners) \in Nat
    BY ReSchedulesAreFinite
  <2>3. workflows[w].attempts + Cardinality(ReSchedulesOf(w)) <= WorkflowBound
    BY DEF WorkflowAttemptsAreEarned, WorkflowBound
  <2>4. WorkflowBound \in Nat
    BY <2>2, WorkflowWorkerAssumption DEF WorkflowBound, Larger
  <2>5. QED
    BY <2>1, <2>2, <2>3, <2>4
<1>2. QED
  BY <1>1, WorkflowAttemptsInvariant, Invariance, PTL

\* The accounts behind both bounds: a run finds the row it claimed for as long as
\* its workflow is there, and what the runs under way may still add to the attempts
\* of an activity or of a workflow has been paid for by a run that ended, by a
\* fault, or by a claim below the limit.
THEOREM AttemptsInvariant == Spec => []AttemptsInv
BY ActivityAttemptsInvariant, WorkflowAttemptsInvariant, PTL DEF AttemptsInv

-----------------------------------------------------------------------------
(* Where no claim overlaps a run *)

\* What the end of a run leaves of the other runs.
LEMMA OtherRunsStay ==
  ASSUME IInv, NEW r \in ActivityRunners, aruns' = [aruns EXCEPT ![r] = IdleActivity]
  PROVE  \A k \in ActivityKeys : \A q \in RunsOf(k)' :
           activities'[k].wf = activities[k].wf /\ activities[k].status # "none" =>
             q \in RunsOf(k) /\ q # r
<1>1. \A q \in ActivityRunners : aruns'[q] = IF q = r THEN IdleActivity ELSE aruns[q]
  BY DEF IInv, TypeOK, ActivityWorkerTypeOK
<1>2. QED
  BY <1>1 DEF RunsOf, OwnsActivity, IdleActivity

LEMMA OneRunPerActivityNext ==
  ASSUME ~RunsMayOverlap, IInv, RunsFindTheirRow, OneRunPerActivity, [Next]_vars
  PROVE  OneRunPerActivity'
<1> SUFFICES ASSUME NEW k \in ActivityKeys, NEW q \in RunsOf(k)'
             PROVE  activities'[k].status = "running" /\ RunsOf(k)' = {q}
  BY DEF OneRunPerActivity
<1>1. \A p \in RunsOf(k) : activities[k].status = "running" /\ RunsOf(k) = {p}
  BY DEF OneRunPerActivity
<1>2. CASE QuietStep
  <2>1. aruns' = aruns /\ (activities'[k] = activities[k] \/ IsInserted(k) \/ IsDeleted(k))
    BY <1>2 DEF QuietStep, RowsAreQuiet
  <2>2. activities'[k].status # "none"
    BY DEF RunsOf, OwnsActivity
  <2>3. activities'[k] = activities[k]
    BY <2>1, <2>2, InsertedRowHasNoRun DEF IsDeleted
  <2>4. RunsOf(k)' = RunsOf(k)
    BY <2>1, <2>3 DEF RunsOf, OwnsActivity
  <2>5. QED
    BY <1>1, <2>3, <2>4
<1>3. ASSUME NEW r \in ActivityRunners, NEW j \in ActivityKeys, PollActivity(r, j)
      PROVE  activities'[k].status = "running" /\ RunsOf(k)' = {q}
  <2>1. CASE j = k
    <3>1. activities'[k].status = "running" /\ RunsOf(k)' = RunsOf(k) \cup {r}
      BY <1>3, <2>1, ActivityIsClaimed
    <3>2. RunsOf(k) = {}
      BY <1>1, <1>3, <2>1 DEF PollActivity, Overlaps
    <3>3. QED
      BY <3>1, <3>2
  <2>2. CASE j # k
    BY <1>1, <1>3, <2>2, ActivityIsClaimed
  <2>3. QED
    BY <2>1, <2>2
<1>4. ASSUME NEW r \in ActivityRunners, ActivityRunnerStep(r) \/ ActivityRunnerHarmed(r)
      PROVE  activities'[k].status = "running" /\ RunsOf(k)' = {q}
  <2> DEFINE j == aruns[r].key
             w == aruns[r].wf
  <2>1. /\ aruns[r].busy /\ j \in ActivityKeys /\ w \in WorkflowIDs
        /\ aruns' = [aruns EXCEPT ![r] = IdleActivity]
        /\ \/ UNCHANGED storageVars
           \/ OwnsActivity(w, j) /\ \E row : LeavesRow(r, j, w, row)
    BY <1>4, ActivityRunEnds
  <2>2. activities'[k].wf = activities[k].wf /\ activities[k].status # "none"
    <3>1. activities'[k].status # "none"
      BY DEF RunsOf, OwnsActivity
    <3>2. QED
      BY <2>1, <3>1 DEF storageVars, LeavesRow, OwnsActivity, IInv, TypeOK, StorageTypeOK
  <2>3. RunsOf(k)' \in SUBSET RunsOf(k) /\ r \notin RunsOf(k)'
    BY <2>1, <2>2, OtherRunsStay
  <2>4. RunsOf(k) = {q} /\ activities[k].status = "running" /\ RunsOf(k)' = {q} /\ q # r
    BY <1>1, <2>3
  <2>5. activities'[k] = activities[k]
    <3>1. OwnsActivity(w, j) => j # k
      BY <2>1, <2>4 DEF RunsOf
    <3>2. QED
      BY <2>1, <3>1 DEF storageVars, LeavesRow, IInv, TypeOK, StorageTypeOK
  <2>6. QED
    BY <2>4, <2>5
<1>5. QED
  BY <1>2, <1>3, <1>4, QuietSteps DEF PollActivityAgain

LEMMA OneRunInvariant ==
  ASSUME ~RunsMayOverlap
  PROVE  Spec => [](RunsFindTheirRow /\ OneRunPerActivity)
<1>1. Init => RunsFindTheirRow /\ OneRunPerActivity
  BY DEF Init, ActivityWorkerInit, RunsFindTheirRow, OneRunPerActivity, RunsOf, IdleActivity
<1>2. IInv /\ RunsFindTheirRow /\ OneRunPerActivity /\ [Next]_vars
        => (RunsFindTheirRow /\ OneRunPerActivity)'
  BY RunsFindTheirRowNext, OneRunPerActivityNext
<1>3. QED
  BY <1>1, <1>2, Invariance, PTL DEF Spec

CompletedRowsStay ==
  \A k \in ActivityKeys : activities[k].status = "completed" =>
    \/ activities'[k].status = "none"
    \/ /\ activities'[k].status = "completed"
       /\ activities'[k].output = activities[k].output

LEMMA CompletedRowsStayNext ==
  ASSUME ~RunsMayOverlap, IInv, OneRunPerActivity, [Next]_vars
  PROVE  CompletedRowsStay
<1> SUFFICES ASSUME NEW k \in ActivityKeys, activities[k].status = "completed"
             PROVE  activities'[k] = activities[k] \/ activities'[k].status = "none"
  BY DEF CompletedRowsStay
<1>1. RunsOf(k) = {}
  BY DEF OneRunPerActivity
<1>2. CASE QuietStep
  BY <1>2 DEF QuietStep, RowsAreQuiet, IsInserted, IsDeleted
<1>3. ASSUME NEW r \in ActivityRunners, NEW j \in ActivityKeys, PollActivity(r, j)
      PROVE  activities'[k] = activities[k]
  <2>1. j # k
    BY <1>3 DEF PollActivity, Overlaps
  <2>2. QED
    BY <1>3, <2>1, ActivityIsClaimed
<1>4. ASSUME NEW r \in ActivityRunners, ActivityRunnerStep(r) \/ ActivityRunnerHarmed(r)
      PROVE  activities'[k] = activities[k]
  <2> DEFINE j == aruns[r].key
             w == aruns[r].wf
  <2>1. /\ aruns[r].busy
        /\ \/ UNCHANGED storageVars
           \/ OwnsActivity(w, j) /\ \E row : LeavesRow(r, j, w, row)
    BY <1>4, ActivityRunEnds
  <2>2. OwnsActivity(w, j) => j # k
    BY <1>1, <2>1 DEF RunsOf
  <2>3. QED
    BY <2>1, <2>2 DEF storageVars, LeavesRow, IInv, TypeOK, StorageTypeOK
<1>5. QED
  BY <1>2, <1>3, <1>4, QuietSteps DEF PollActivityAgain

\* Where every run ends within its stuck timeout and no fetch comes late, a
\* completed activity stays completed with its output until its workflow is
\* deleted: no crash, retry or lost write brings back a row that has ended, and
\* every replay is given the same value.
THEOREM HistoryStays ==
  ASSUME ~RunsMayOverlap
  PROVE  Spec => HistoryIsPermanent
<1>1. IInv /\ OneRunPerActivity /\ [Next]_vars => CompletedRowsStay
  BY CompletedRowsStayNext
<1>2. CompletedRowsStay => [CompletedRowsStay]_vars
  OBVIOUS
<1>3. Spec => [][CompletedRowsStay]_vars
  BY <1>1, Invariance, OneRunInvariant, PTL DEF Spec
<1>4. QED
  BY <1>3 DEF CompletedRowsStay, HistoryIsPermanent
-----------------------------------------------------------------------------
(* The tasks of a workflow and what they are there for *)

\* The sets that TaskAccounting and OneTaskPerEvent count are as they were.
TasksStay(w) == TasksOf(w)' = TasksOf(w)
SignalsStay(w) == SignalsOf(w)' = SignalsOf(w)
AttemptsStayOf(w) == AttemptsOf(w)' = AttemptsOf(w)
CompletedStayOf(w) == CompletedOf(w)' = CompletedOf(w)

\* x is new in a set.
Gains(S, T, x) == x \notin S /\ T = S \cup {x}

\* A workflow starts, with its first task.
Starts(w) ==
  /\ \E t : TasksOf(w)' = {t}
  /\ ActivityRunsOf(w)' = {} /\ SignalsOf(w)' = {}
  /\ AttemptsOf(w)' = {} /\ CompletedOf(w)' = {}

\* A task is inserted with the signal it is for.
IsSignalled(w) ==
  /\ \E t \in TaskIDs : Gains(TasksOf(w), TasksOf(w)', t)
  /\ \E k : Gains(SignalsOf(w), SignalsOf(w)', k)
  /\ ActivityRunsOf(w)' = ActivityRunsOf(w) /\ AttemptsStayOf(w) /\ CompletedStayOf(w)

\* A run of an activity starts with an attempt.
IsAttempted(w) ==
  /\ \E r \in ActivityRunners : Gains(ActivityRunsOf(w), ActivityRunsOf(w)', r)
  /\ \E p : Gains(AttemptsOf(w), AttemptsOf(w)', p)
  /\ TasksStay(w) /\ SignalsStay(w)
  /\ ~RunsMayOverlap /\ OneRunPerActivity => CompletedStayOf(w)

\* A run of an activity ends well, and a task is inserted for its output.
IsAnswered(w) ==
  /\ \E t \in TaskIDs : Gains(TasksOf(w), TasksOf(w)', t)
  /\ \E r \in ActivityRunsOf(w) : ActivityRunsOf(w)' = ActivityRunsOf(w) \ {r}
  /\ SignalsStay(w) /\ AttemptsStayOf(w)
  /\ ~RunsMayOverlap /\ OneRunPerActivity =>
       \E k : Gains(CompletedOf(w), CompletedOf(w)', k)

\* Nothing is counted, but a run may end.
IsSteady(w) ==
  /\ TasksStay(w) /\ SignalsStay(w) /\ AttemptsStayOf(w)
  /\ ActivityRunsOf(w)' \in SUBSET ActivityRunsOf(w)
  /\ ~RunsMayOverlap /\ OneRunPerActivity => CompletedStayOf(w)

LEMMA AttemptsInTable ==
  ASSUME NEW w
  PROVE  /\ \A p : p \in AttemptsOf(w) <=>
              \E k \in ActivityKeys : /\ activities[k].wf = w
                                      /\ \E n \in 1..activities[k].attempts : p = <<k, n>>
         /\ \A p : p \in AttemptsOf(w)' <=>
              \E k \in ActivityKeys : /\ activities'[k].wf = w
                                      /\ \E n \in 1..activities'[k].attempts : p = <<k, n>>
<1>1. \A p : p \in AttemptsOf(w) <=>
        \E k \in ActivityKeys : activities[k].wf = w /\ p \in {k} \X (1..activities[k].attempts)
  BY DEF AttemptsOf
<1>2. \A p : p \in AttemptsOf(w)' <=>
        \E k \in ActivityKeys : activities'[k].wf = w /\ p \in {k} \X (1..activities'[k].attempts)
  BY DEF AttemptsOf
<1>3. \A p, k, S : p \in {k} \X S <=> \E n \in S : p = <<k, n>>
  OBVIOUS
<1> HIDE DEF AttemptsOf
<1>4. QED
  BY <1>1, <1>2, <1>3

LEMMA TaskIsGained ==
  ASSUME IInv, NEW u \in WorkflowIDs, insertWorkflowTask(u, TRUE), NEW w \in WorkflowIDs
  PROVE  \E t \in TaskIDs : IF w = u THEN Gains(TasksOf(w), TasksOf(w)', t) ELSE TasksStay(w)
<1>1. PICK t \in FreeTasks : tasks' = [tasks EXCEPT ![t] = [status |-> "pending", wf |-> u]]
  BY DEF insertWorkflowTask
<1>2. t \in TaskIDs /\ tasks[t].wf = None /\ w # None
  BY <1>1, StorageAssumption DEF FreeTasks, IInv, ForeignKeys, TaskExists
<1>3. \A s \in TaskIDs : tasks'[s].wf = IF s = t THEN u ELSE tasks[s].wf
  BY <1>1, <1>2 DEF IInv, TypeOK, StorageTypeOK
<1>4. QED
  BY <1>2, <1>3 DEF Gains, TasksOf, TasksStay

LEMMA QuietRowsAreSteady ==
  ASSUME IInv, IInv', RowsAreQuiet, NEW w \in WorkflowIDs, Exists(w)'
  PROVE  AttemptsStayOf(w) /\ CompletedStayOf(w)
<1>1. w # None
  BY StorageAssumption
<1>2. ASSUME NEW k \in ActivityKeys
      PROVE  \/ activities'[k] = activities[k]
             \/ activities[k].wf # w /\ activities'[k].status = "pending" /\ activities'[k].attempts = 0
             \/ activities[k].wf # w /\ activities'[k].wf # w
  <2>1. CASE IsInserted(k)
    BY <1>1, <2>1 DEF IsInserted, IInv, ForeignKeys
  <2>2. CASE IsDeleted(k)
    BY <1>1, <2>2 DEF IsDeleted, IInv, ForeignKeys, Exists
  <2>3. QED
    BY <2>1, <2>2 DEF RowsAreQuiet
<1>3. \A p : p \in AttemptsOf(w) <=> p \in AttemptsOf(w)'
  <2>1. 1..0 = {}
    OBVIOUS
  <2>2. ASSUME NEW p, NEW k \in ActivityKeys
        PROVE  (activities[k].wf = w /\ \E n \in 1..activities[k].attempts : p = <<k, n>>)
               <=> (activities'[k].wf = w /\ \E n \in 1..activities'[k].attempts : p = <<k, n>>)
    BY <1>2, <2>1
  <2>3. QED
    BY <2>2, AttemptsInTable
<1>4. CompletedStayOf(w)
  BY <1>2 DEF CompletedStayOf, CompletedOf
<1>5. QED
  BY <1>3, <1>4 DEF AttemptsStayOf

LEMMA EnqueueWorkflowMoves ==
  ASSUME IInv, RunsFindTheirRow, NEW u \in WorkflowIDs, NEW key \in RequestKeys,
         EnqueueWorkflow(u, key), NEW w \in WorkflowIDs, Exists(w)'
  PROVE  \/ workflows[w].status = "none" /\ Starts(w)
         \/ Exists(w) /\ IsSteady(w)
<1> DEFINE isNew == \A v \in WorkflowIDs : Exists(v) => workflows[v].key # key
<1>1. /\ workflows[u].status = "none"
      /\ isNew \in BOOLEAN /\ insertWorkflowTask(u, isNew)
      /\ w # u \/ ~isNew => workflows'[w] = workflows[w]
      /\ UNCHANGED <<activities, signals, aruns>>
  BY DEF EnqueueWorkflow, InsertWorkflow, IInv, TypeOK, StorageTypeOK
<1> HIDE DEF isNew
<1>2. /\ ActivityRunsOf(w)' = ActivityRunsOf(w) /\ SignalsStay(w) /\ AttemptsStayOf(w)
      /\ CompletedStayOf(w)
  BY <1>1 DEF ActivityRunsOf, SignalsStay, SignalsOf, AttemptsStayOf, AttemptsOf,
              CompletedStayOf, CompletedOf
<1>3. CASE isNew /\ w = u
  <2>1. ~Exists(w) /\ w # None
    BY <1>1, <1>3, StorageAssumption DEF Exists
  <2>2. PICK t \in TaskIDs : TasksOf(w)' = TasksOf(w) \cup {t}
    BY <1>1, <1>3, TaskIsGained DEF Gains
  <2>3. \A s \in TaskIDs : tasks[s].wf # w
    BY <2>1 DEF IInv, ForeignKeys
  <2>4. TasksOf(w) = {} /\ SignalsOf(w) = {} /\ CompletedOf(w) = {}
    BY <2>1, <2>3 DEF IInv, ForeignKeys, TasksOf, SignalsOf, CompletedOf
  <2>5. AttemptsOf(w) = {}
    BY <2>1, AttemptsInTable DEF IInv, ForeignKeys
  <2>6. ActivityRunsOf(w) = {}
    BY <1>1, <1>3 DEF RunsFindTheirRow, ActivityRunsOf
  <2>7. QED
    BY <1>1, <1>2, <1>3, <2>2, <2>4, <2>5, <2>6
       DEF Starts, SignalsStay, AttemptsStayOf, CompletedStayOf
<1>4. CASE ~isNew \/ w # u
  <2>1. Exists(w)
    BY <1>1, <1>4 DEF Exists
  <2>2. TasksStay(w)
    <3>1. CASE isNew
      BY <1>1, <1>4, <3>1, TaskIsGained
    <3>2. CASE ~isNew
      BY <1>1, <3>2 DEF insertWorkflowTask, TasksStay, TasksOf
    <3>3. QED
      BY <3>1, <3>2
  <2>3. QED
    BY <1>2, <2>1, <2>2 DEF IsSteady
<1>5. QED
  BY <1>3, <1>4

LEMMA SendSignalMoves ==
  ASSUME IInv, NEW u \in WorkflowIDs, NEW s \in Signals, NEW input \in Inputs,
         SendSignal(u, s, input), NEW w \in WorkflowIDs
  PROVE  IsSignalled(w) \/ IsSteady(w)
<1> DEFINE k == SignalKey[<<u, s>>]
           row == [wf |-> u, input |-> input]
<1> HIDE DEF row
<1>a. UNCHANGED <<activities, aruns>>
  BY DEF SendSignal, InsertSignal, storageVars
<1>1. /\ ActivityRunsOf(w)' = ActivityRunsOf(w) /\ AttemptsStayOf(w) /\ CompletedStayOf(w)
  BY <1>a DEF ActivityRunsOf, AttemptsStayOf, AttemptsOf, CompletedStayOf, CompletedOf
<1>2. CASE InsertSignalFails(u, s)
  BY <1>1, <1>2 DEF SendSignal, storageVars, IsSteady, TasksStay, TasksOf, SignalsStay, SignalsOf
<1>3. CASE ~InsertSignalFails(u, s)
  <2>1. k \in SignalKeys /\ w # None /\ row.wf = u
    BY StorageAssumption DEF row
  <2>2. /\ signals[k].wf = None
        /\ insertWorkflowTask(u, TRUE)
        /\ signals' = [signals EXCEPT ![k] = row]
    <3>1. signals[k].wf = None /\ Exists(u) = TRUE /\ InsertSignal(u, s, input)
      BY <1>3 DEF SendSignal, InsertSignalFails, Exists
    <3>2. QED
      BY <3>1 DEF InsertSignal, row
  <2> HIDE DEF k
  <2>3. \A j \in SignalKeys : signals'[j] = IF j = k THEN row ELSE signals[j]
    BY <2>1, <2>2 DEF IInv, TypeOK, StorageTypeOK
  <2>4. IF w = u THEN Gains(SignalsOf(w), SignalsOf(w)', k) ELSE SignalsStay(w)
    BY <2>1, <2>2, <2>3 DEF SignalsOf, SignalsStay, Gains
  <2>5. \E t \in TaskIDs : IF w = u THEN Gains(TasksOf(w), TasksOf(w)', t) ELSE TasksStay(w)
    BY <2>2, TaskIsGained
  <2>6. QED
    BY <1>1, <2>4, <2>5 DEF IsSignalled, IsSteady
<1>4. QED
  BY <1>2, <1>3

LEMMA PollActivityMoves ==
  ASSUME IInv, NEW r \in ActivityRunners, NEW k \in ActivityKeys,
         PollActivity(r, k) \/ PollActivityAgain(r, k), NEW w \in WorkflowIDs
  PROVE  IsAttempted(w) \/ IsSteady(w)
<1> DEFINE A == activities[k].attempts
<1>1. /\ activities'[k].status = "running"
      /\ activities'[k].attempts = A + 1
      /\ activities'[k].wf = activities[k].wf
      /\ RunsOf(k)' = RunsOf(k) \cup {r}
      /\ \A q \in ActivityRunners : q # r => aruns'[q] = aruns[q]
      /\ \A j \in ActivityKeys : j # k => activities'[j] = activities[j]
      /\ UNCHANGED <<tasks, signals>>
  BY ActivityIsClaimed
<1>2. ~aruns[r].busy /\ aruns'[r].busy /\ aruns'[r].wf = activities[k].wf
  BY <1>1 DEF PollActivity, PollActivityAgain, ClaimActivity, RunsOf, OwnsActivity
<1>3. A \in Nat
  BY DEF IInv, TypeOK, StorageTypeOK, ActivityRow
<1>4. TasksStay(w) /\ SignalsStay(w)
  BY <1>1 DEF TasksStay, TasksOf, SignalsStay, SignalsOf
<1>5. ASSUME ~RunsMayOverlap, OneRunPerActivity
      PROVE  CompletedStayOf(w)
  <2>1. activities[k].status # "completed"
    BY <1>5 DEF PollActivity, PollActivityAgain, Overlaps
  <2>2. QED
    BY <1>1, <2>1 DEF CompletedStayOf, CompletedOf
<1> HIDE DEF A
<1>6. CASE activities[k].wf = w
  <2>1. Gains(ActivityRunsOf(w), ActivityRunsOf(w)', r)
    BY <1>1, <1>2, <1>6 DEF Gains, ActivityRunsOf
  <2>2. 1..(A + 1) = 1..A \cup {A + 1} /\ A + 1 \notin 1..A
    BY <1>3
  <2>3. \A p : p \in AttemptsOf(w)' <=> p \in AttemptsOf(w) \/ p = <<k, A + 1>>
    <3>1. ASSUME NEW p, NEW j \in ActivityKeys
          PROVE  (activities'[j].wf = w /\ \E n \in 1..activities'[j].attempts : p = <<j, n>>)
                 <=> \/ activities[j].wf = w /\ \E n \in 1..activities[j].attempts : p = <<j, n>>
                     \/ j = k /\ p = <<k, A + 1>>
      <4>1. CASE j = k
        <5>1. activities[j].attempts = A /\ activities'[j].attempts = A + 1
          BY <1>1, <4>1 DEF A
        <5>2. (\E n \in 1..(A + 1) : p = <<k, n>>)
                <=> (\E n \in 1..A : p = <<k, n>>) \/ p = <<k, A + 1>>
          BY <2>2
        <5>3. QED
          BY <1>1, <1>6, <4>1, <5>1, <5>2
      <4>2. CASE j # k
        BY <1>1, <4>2
      <4>3. QED
        BY <4>1, <4>2
    <3>2. QED
      BY <3>1, AttemptsInTable
  <2>4. <<k, A + 1>> \notin AttemptsOf(w)
    BY <2>2, AttemptsInTable DEF A
  <2>5. Gains(AttemptsOf(w), AttemptsOf(w)', <<k, A + 1>>)
    BY <2>3, <2>4 DEF Gains
  <2>6. QED
    BY <1>4, <1>5, <2>1, <2>5 DEF IsAttempted
<1>7. CASE activities[k].wf # w
  <2>1. ActivityRunsOf(w)' = ActivityRunsOf(w)
    BY <1>1, <1>2, <1>7 DEF ActivityRunsOf
  <2>2. \A p : p \in AttemptsOf(w)' <=> p \in AttemptsOf(w)
    <3>1. ASSUME NEW j \in ActivityKeys, activities'[j].wf = w \/ activities[j].wf = w
          PROVE  activities'[j] = activities[j]
      BY <1>1, <1>7, <3>1
    <3>2. QED
      BY <3>1, AttemptsInTable
  <2>3. QED
    BY <1>4, <1>5, <2>1, <2>2 DEF IsSteady, AttemptsStayOf
<1>8. QED
  BY <1>6, <1>7

LEMMA ActivityRunEndMoves ==
  ASSUME IInv, NEW r \in ActivityRunners,
         ActivityRunnerStep(r) \/ ActivityRunnerHarmed(r), NEW w \in WorkflowIDs
  PROVE  IsAnswered(w) \/ IsSteady(w)
<1> DEFINE k == aruns[r].key
           u == aruns[r].wf
<1>1. /\ aruns[r].busy /\ k \in ActivityKeys /\ u \in WorkflowIDs
      /\ aruns' = [aruns EXCEPT ![r] = IdleActivity]
      /\ UNCHANGED signals
      /\ \/ UNCHANGED storageVars
         \/ OwnsActivity(u, k) /\ \E row : LeavesRow(r, k, u, row)
  BY ActivityRunEnds
<1>2. \A q \in ActivityRunners : aruns'[q] = IF q = r THEN IdleActivity ELSE aruns[q]
  BY <1>1 DEF IInv, TypeOK, ActivityWorkerTypeOK
<1>3. ActivityRunsOf(w)' = ActivityRunsOf(w) \ {r} /\ (u = w => r \in ActivityRunsOf(w))
  BY <1>1, <1>2 DEF ActivityRunsOf, IdleActivity
<1>4. SignalsStay(w)
  BY <1>1 DEF SignalsStay, SignalsOf
<1>5. CASE UNCHANGED storageVars
  BY <1>3, <1>4, <1>5 DEF storageVars, IsSteady, TasksStay, TasksOf, AttemptsStayOf, AttemptsOf,
                          CompletedStayOf, CompletedOf
<1>6. ASSUME OwnsActivity(u, k), NEW row, LeavesRow(r, k, u, row)
      PROVE  IsAnswered(w) \/ IsSteady(w)
  <2>1. /\ \A j \in ActivityKeys : activities'[j] = IF j = k THEN row ELSE activities[j]
        /\ row.wf = u /\ row.attempts = activities[k].attempts /\ activities[k].wf = u
    BY <1>1, <1>6 DEF LeavesRow, OwnsActivity, IInv, TypeOK, StorageTypeOK
  <2>2. AttemptsStayOf(w)
    <3>1. \A j \in ActivityKeys : /\ activities'[j].wf = activities[j].wf
                                  /\ activities'[j].attempts = activities[j].attempts
      BY <2>1
    <3>2. \A p : p \in AttemptsOf(w)' <=> p \in AttemptsOf(w)
      BY <3>1, AttemptsInTable
    <3>3. QED
      BY <3>2 DEF AttemptsStayOf
  <2>3. ASSUME ~RunsMayOverlap, OneRunPerActivity
        PROVE  activities[k].status = "running"
    BY <1>1, <1>6, <2>3 DEF OneRunPerActivity, RunsOf
  <2>4. CASE row.status # "completed" \/ u # w
    <3>1. TasksStay(w)
      <4>1. CASE UNCHANGED tasks
        BY <4>1 DEF TasksStay, TasksOf
      <4>2. CASE insertWorkflowTask(u, TRUE) /\ u # w
        BY <1>1, <4>2, TaskIsGained
      <4>3. QED
        BY <1>6, <2>4, <4>1, <4>2 DEF LeavesRow
    <3>2. ASSUME ~RunsMayOverlap, OneRunPerActivity
          PROVE  CompletedStayOf(w)
      BY <2>1, <2>3, <2>4, <3>2 DEF CompletedStayOf, CompletedOf
    <3>3. QED
      BY <1>3, <1>4, <2>2, <3>1, <3>2 DEF IsSteady
  <2>5. CASE row.status = "completed" /\ u = w
    <3>1. insertWorkflowTask(u, TRUE)
      BY <1>6, <2>5 DEF LeavesRow
    <3>2. \E t \in TaskIDs : Gains(TasksOf(w), TasksOf(w)', t)
      BY <1>1, <2>5, <3>1, TaskIsGained
    <3>3. ASSUME ~RunsMayOverlap, OneRunPerActivity
          PROVE  Gains(CompletedOf(w), CompletedOf(w)', k)
      BY <1>1, <2>1, <2>3, <2>5, <3>3 DEF CompletedOf, Gains
    <3>4. QED
      BY <1>3, <1>4, <2>2, <2>5, <3>2, <3>3 DEF IsAnswered
  <2>6. QED
    BY <2>4, <2>5
<1>7. QED
  BY <1>1, <1>5, <1>6

\* The other steps insert no task and store no signal.
LEMMA OtherStepsAddNothing ==
  ASSUME IInv, NEW w \in WorkflowIDs,
         \/ \E r \in WorkflowRunners, t \in TaskIDs :
              PollWorkflowTask(r, t) \/ PollWorkflowTaskAgain(r, t)
         \/ \E r \in WorkflowRunners : WorkflowRunnerStep(r) \/ WorkflowRunnerHarmed(r)
         \/ \E u \in WorkflowIDs : u # w /\ (CleanColdWorkflows(u) \/ CleanDeadWorkflows(u))
         \/ UNCHANGED vars
  PROVE  TasksStay(w) /\ SignalsStay(w)
<1>1. w # None /\ StorageTypeOK
  BY StorageAssumption DEF IInv, TypeOK
<1>2. ASSUME NEW t \in TaskIDs, TaskExists(t),
             NEW new \in {"pending", "running", "completed", "failed"},
             tasks' = [tasks EXCEPT ![t].status = new]
      PROVE  TasksStay(w)
  <2>1. \A s \in TaskIDs : tasks'[s].wf = tasks[s].wf
    BY <1>1, <1>2, SetTaskStatus
  <2>2. QED
    BY <2>1 DEF TasksStay, TasksOf
<1>3. CASE UNCHANGED <<tasks, signals>>
  BY <1>3 DEF TasksStay, TasksOf, SignalsStay, SignalsOf
<1>4. ASSUME UNCHANGED signals PROVE SignalsStay(w)
  BY <1>4 DEF SignalsStay, SignalsOf
<1>5. ASSUME NEW r \in WorkflowRunners, NEW t \in TaskIDs,
             PollWorkflowTask(r, t) \/ PollWorkflowTaskAgain(r, t)
      PROVE  TasksStay(w) /\ SignalsStay(w)
  BY <1>2, <1>4, <1>5 DEF PollWorkflowTask, PollWorkflowTaskAgain, ClaimTask
<1>6. ASSUME NEW r \in WorkflowRunners, WorkflowRunnerStep(r) \/ WorkflowRunnerHarmed(r)
      PROVE  TasksStay(w) /\ SignalsStay(w)
  <2>1. CASE CompleteTask(r) \/ HandlerFails(r)
    <3> DEFINE t == wruns[r].task
    <3>1. /\ wruns[r].phase # "idle" /\ UNCHANGED signals
          /\ \/ CompleteWorkflowTask(t, wruns[r].wf)
             \/ ReScheduleWorkflowTask(t, wruns[r].wf)
             \/ FailWorkflowTask(t, wruns[r].wf)
      BY <2>1 DEF CompleteTask, HandlerEnds, HandlerFails, TaskError
    <3>2. /\ t \in TaskIDs
          /\ \/ UNCHANGED tasks
             \/ TaskExists(t) /\ \E new \in {"pending", "completed", "failed"} :
                                   tasks' = [tasks EXCEPT ![t].status = new]
      <4>1. /\ t \in TaskIDs
            /\ ~TaskExists(t) => UNCHANGED <<workflows, tasks>>
            /\ TaskExists(t) => \E new \in {"pending", "completed", "failed"} :
                                  TaskEndsAs(t, wruns[r].wf, new)
        BY <3>1, TaskEnds
      <4>2. QED
        BY <4>1 DEF TaskEndsAs
    <3>3. QED
      BY <1>2, <1>3, <1>4, <3>1, <3>2
  <2>2. CASE ~(CompleteTask(r) \/ HandlerFails(r))
    BY <1>3, <1>6, <2>2 DEF WorkflowRunnerStep, WorkflowRunnerHarmed, RunStep, LoadHistory,
       LoadSignals, ScheduleActivity, HandlerReturns, CompletionReplyLost, CompletesWorkflow,
       RunLost, storageVars
  <2>3. QED
    BY <2>1, <2>2
<1>7. ASSUME NEW u \in WorkflowIDs, u # w, CleanColdWorkflows(u) \/ CleanDeadWorkflows(u)
      PROVE  TasksStay(w) /\ SignalsStay(w)
  <2>1. /\ tasks' = [t \in TaskIDs |-> IF tasks[t].wf = u
             THEN [status |-> "deleted", wf |-> None] ELSE tasks[t]]
        /\ signals' = [k \in SignalKeys |->
             IF signals[k].wf = u THEN NoSignalRow ELSE signals[k]]
    BY <1>7 DEF CleanColdWorkflows, CleanDeadWorkflows, deleteWorkflow
  <2>2. \A t \in TaskIDs : tasks'[t].wf = w <=> tasks[t].wf = w
    BY <1>1, <1>7, <2>1
  <2>3. \A k \in SignalKeys : signals'[k].wf = w <=> signals[k].wf = w
    BY <1>1, <1>7, <2>1 DEF NoSignalRow
  <2>4. QED
    BY <2>2, <2>3 DEF TasksStay, TasksOf, SignalsStay, SignalsOf
<1>8. QED
  BY <1>3, <1>5, <1>6, <1>7 DEF vars

\* What a step does to the rows of a workflow that is there after it.
LEMMA AccountsMove ==
  ASSUME IInv, IInv', RunsFindTheirRow, [Next]_vars, NEW w \in WorkflowIDs, Exists(w)'
  PROVE  \/ workflows[w].status = "none" /\ Starts(w)
         \/ /\ Exists(w)
            /\ IsSignalled(w) \/ IsAttempted(w) \/ IsAnswered(w) \/ IsSteady(w)
<1>1. CASE \E u \in WorkflowIDs, key \in RequestKeys : EnqueueWorkflow(u, key)
  BY <1>1, EnqueueWorkflowMoves
<1>2. CASE ~\E u \in WorkflowIDs, key \in RequestKeys : EnqueueWorkflow(u, key)
  <2>1. Exists(w)
    BY <1>2, StepKeeps DEF WorkflowsKeepKey
  <2>2. CASE \E u \in WorkflowIDs, s \in Signals, input \in Inputs : SendSignal(u, s, input)
    BY <2>1, <2>2, SendSignalMoves
  <2>3. CASE \E r \in ActivityRunners, k \in ActivityKeys :
               PollActivity(r, k) \/ PollActivityAgain(r, k)
    BY <2>1, <2>3, PollActivityMoves
  <2>4. CASE \E r \in ActivityRunners : ActivityRunnerStep(r) \/ ActivityRunnerHarmed(r)
    BY <2>1, <2>4, ActivityRunEndMoves
  <2>5. ASSUME NEW u \in WorkflowIDs, CleanColdWorkflows(u) \/ CleanDeadWorkflows(u)
        PROVE  u # w
    BY <2>5 DEF CleanColdWorkflows, CleanDeadWorkflows, deleteWorkflow, Exists, IInv, TypeOK,
                StorageTypeOK
  <2>6. CASE QuietStep
    <3>1. AttemptsStayOf(w) /\ CompletedStayOf(w) /\ ActivityRunsOf(w)' = ActivityRunsOf(w)
      BY <2>6, QuietRowsAreSteady DEF QuietStep, ActivityRunsOf
    <3>2. ASSUME TasksStay(w), SignalsStay(w)
          PROVE  IsSteady(w)
      BY <3>1, <3>2 DEF IsSteady
    <3>3. CASE \/ \E r \in WorkflowRunners, t \in TaskIDs :
                    PollWorkflowTask(r, t) \/ PollWorkflowTaskAgain(r, t)
               \/ \E r \in WorkflowRunners : WorkflowRunnerStep(r) \/ WorkflowRunnerHarmed(r)
               \/ \E u \in WorkflowIDs : CleanColdWorkflows(u) \/ CleanDeadWorkflows(u)
               \/ UNCHANGED vars
      BY <2>1, <2>5, <3>2, <3>3, OtherStepsAddNothing
    <3>4. QED
      BY <1>2, <2>2, <2>3, <2>4, <3>3 DEF Next
  <2>7. QED
    BY <2>3, <2>4, <2>6, QuietSteps
<1>3. QED
  BY <1>1, <1>2

LEMMA GainCounts ==
  ASSUME NEW S, IsFiniteSet(S), NEW T, NEW x, Gains(S, T, x)
  PROVE  IsFiniteSet(T) /\ Cardinality(T) = Cardinality(S) + 1
BY FS_AddElement DEF Gains

LEMMA TasksAndRunsAreFinite ==
  ASSUME NEW w
  PROVE  /\ IsFiniteSet(TasksOf(w)) /\ IsFiniteSet(TasksOf(w)')
         /\ IsFiniteSet(ActivityRunsOf(w)) /\ IsFiniteSet(ActivityRunsOf(w)')
<1>1. IsFiniteSet(TaskIDs)
  BY StorageAssumption, FS_Interval DEF TaskIDs
<1>2. QED
  BY <1>1, ActivityWorkerAssumption, FS_Subset DEF TasksOf, ActivityRunsOf

\* The keys need not be finite for the sums to be: a step adds one row at most.
IsPaidFor(w) ==
  /\ IsFiniteSet(SignalsOf(w)) /\ IsFiniteSet(AttemptsOf(w))
  /\ Cardinality(TasksOf(w)) + Cardinality(ActivityRunsOf(w))
       <= 1 + Cardinality(SignalsOf(w)) + Cardinality(AttemptsOf(w))

HasOneTaskPerEvent(w) ==
  /\ IsFiniteSet(SignalsOf(w)) /\ IsFiniteSet(CompletedOf(w))
  /\ Cardinality(TasksOf(w)) = 1 + Cardinality(SignalsOf(w)) + Cardinality(CompletedOf(w))

TasksArePaidFor == \A w \in WorkflowIDs : Exists(w) => IsPaidFor(w)

TasksMatchEvents == \A w \in WorkflowIDs : Exists(w) => HasOneTaskPerEvent(w)

LEMMA StartIsPaidFor ==
  ASSUME NEW w, Starts(w)
  PROVE  IsPaidFor(w)' /\ HasOneTaskPerEvent(w)'
<1>1. PICK t : TasksOf(w)' = {t}
  BY DEF Starts
<1>2. Cardinality(TasksOf(w)') = 1
  BY <1>1, FS_Singleton
<1>3. QED
  BY <1>2, FS_EmptySet DEF Starts, IsPaidFor, HasOneTaskPerEvent

LEMMA TasksArePaidForNext ==
  ASSUME IInv, IInv', RunsFindTheirRow, TasksArePaidFor, [Next]_vars
  PROVE  TasksArePaidFor'
<1> SUFFICES ASSUME NEW w \in WorkflowIDs, Exists(w)'
             PROVE  IsPaidFor(w)'
  BY DEF TasksArePaidFor
<1>1. CASE Starts(w)
  BY <1>1, StartIsPaidFor
<1>2. ASSUME Exists(w), IsSignalled(w) \/ IsAttempted(w) \/ IsAnswered(w) \/ IsSteady(w)
      PROVE  IsPaidFor(w)'
  <2> DEFINE T == Cardinality(TasksOf(w))
             R == Cardinality(ActivityRunsOf(w))
             S == Cardinality(SignalsOf(w))
             A == Cardinality(AttemptsOf(w))
  <2>1. /\ IsFiniteSet(SignalsOf(w)) /\ IsFiniteSet(AttemptsOf(w))
        /\ T + R <= 1 + S + A
    BY <1>2 DEF TasksArePaidFor, IsPaidFor
  <2>2. T \in Nat /\ R \in Nat /\ S \in Nat /\ A \in Nat /\ T' \in Nat /\ R' \in Nat
    BY <2>1, TasksAndRunsAreFinite, FS_CardinalityType
  <2>3. CASE IsSignalled(w)
    <3>1. T' = T + 1 /\ R' = R /\ A' = A
      BY <2>3, TasksAndRunsAreFinite, GainCounts DEF IsSignalled, AttemptsStayOf
    <3>2. IsFiniteSet(SignalsOf(w)') /\ S' = S + 1 /\ IsFiniteSet(AttemptsOf(w)')
      BY <2>1, <2>3, GainCounts DEF IsSignalled, AttemptsStayOf
    <3> HIDE DEF T, R, S, A
    <3>3. T' + R' <= 1 + S' + A'
      BY <2>1, <2>2, <3>1, <3>2
    <3>4. QED
      BY <3>2, <3>3 DEF IsPaidFor, T, R, S, A
  <2>4. CASE IsAttempted(w)
    <3>1. T' = T /\ R' = R + 1 /\ S' = S
      BY <2>4, TasksAndRunsAreFinite, GainCounts DEF IsAttempted, TasksStay, SignalsStay
    <3>2. IsFiniteSet(AttemptsOf(w)') /\ A' = A + 1 /\ IsFiniteSet(SignalsOf(w)')
      BY <2>1, <2>4, GainCounts DEF IsAttempted, SignalsStay
    <3> HIDE DEF T, R, S, A
    <3>3. T' + R' <= 1 + S' + A'
      BY <2>1, <2>2, <3>1, <3>2
    <3>4. QED
      BY <3>2, <3>3 DEF IsPaidFor, T, R, S, A
  <2>5. CASE IsAnswered(w)
    <3>1. T' = T + 1 /\ R' = R - 1
      BY <2>5, TasksAndRunsAreFinite, GainCounts, FiniteSets DEF IsAnswered
    <3>2. /\ IsFiniteSet(AttemptsOf(w)') /\ IsFiniteSet(SignalsOf(w)')
          /\ S' = S /\ A' = A
      BY <2>1, <2>5 DEF IsAnswered, SignalsStay, AttemptsStayOf
    <3> HIDE DEF T, R, S, A
    <3>3. T' + R' <= 1 + S' + A'
      BY <2>1, <2>2, <3>1, <3>2
    <3>4. QED
      BY <3>2, <3>3 DEF IsPaidFor, T, R, S, A
  <2>6. CASE IsSteady(w)
    <3>1. T' = T /\ R' <= R
      BY <2>6, TasksAndRunsAreFinite, FiniteSets DEF IsSteady, TasksStay
    <3>2. /\ IsFiniteSet(AttemptsOf(w)') /\ IsFiniteSet(SignalsOf(w)')
          /\ S' = S /\ A' = A
      BY <2>1, <2>6 DEF IsSteady, SignalsStay, AttemptsStayOf
    <3> HIDE DEF T, R, S, A
    <3>3. \A t, p, q, e \in Nat : p <= q /\ t + q <= e => t + p <= e
      OBVIOUS
    <3>4. T' + R' <= 1 + S' + A'
      <4>1. 1 + S + A \in Nat /\ R' \in Nat
        BY <2>2
      <4>2. T + R' <= 1 + S + A
        BY <2>1, <2>2, <3>1, <3>3, <4>1
      <4>3. QED
        BY <3>1, <3>2, <4>2
    <3>5. QED
      BY <3>2, <3>4 DEF IsPaidFor, T, R, S, A
  <2>7. QED
    BY <1>2, <2>3, <2>4, <2>5, <2>6
<1>3. QED
  BY <1>1, <1>2, AccountsMove

LEMMA TasksMatchEventsNext ==
  ASSUME ~RunsMayOverlap, IInv, IInv', RunsFindTheirRow, OneRunPerActivity,
         TasksMatchEvents, [Next]_vars
  PROVE  TasksMatchEvents'
<1> SUFFICES ASSUME NEW w \in WorkflowIDs, Exists(w)'
             PROVE  HasOneTaskPerEvent(w)'
  BY DEF TasksMatchEvents
<1>1. CASE Starts(w)
  BY <1>1, StartIsPaidFor
<1>2. ASSUME Exists(w), IsSignalled(w) \/ IsAttempted(w) \/ IsAnswered(w) \/ IsSteady(w)
      PROVE  HasOneTaskPerEvent(w)'
  <2> DEFINE T == Cardinality(TasksOf(w))
             S == Cardinality(SignalsOf(w))
             C == Cardinality(CompletedOf(w))
  <2>1. /\ IsFiniteSet(SignalsOf(w)) /\ IsFiniteSet(CompletedOf(w))
        /\ T = 1 + S + C
    BY <1>2 DEF TasksMatchEvents, HasOneTaskPerEvent
  <2>2. T \in Nat /\ S \in Nat /\ C \in Nat
    BY <2>1, TasksAndRunsAreFinite, FS_CardinalityType
  <2>3. CASE IsSignalled(w)
    <3>1. T' = T + 1 /\ IsFiniteSet(SignalsOf(w)') /\ S' = S + 1
      BY <2>1, <2>3, TasksAndRunsAreFinite, GainCounts DEF IsSignalled
    <3>2. IsFiniteSet(CompletedOf(w)') /\ C' = C
      BY <2>1, <2>3 DEF IsSignalled, CompletedStayOf
    <3> HIDE DEF T, S, C
    <3>3. T' = 1 + S' + C'
      BY <2>1, <2>2, <3>1, <3>2
    <3>4. QED
      BY <3>1, <3>2, <3>3 DEF HasOneTaskPerEvent, T, S, C
  <2>4. CASE IsAnswered(w)
    <3>1. T' = T + 1 /\ IsFiniteSet(CompletedOf(w)') /\ C' = C + 1
      BY <2>1, <2>4, TasksAndRunsAreFinite, GainCounts DEF IsAnswered
    <3>2. IsFiniteSet(SignalsOf(w)') /\ S' = S
      BY <2>1, <2>4 DEF IsAnswered, SignalsStay
    <3> HIDE DEF T, S, C
    <3>3. T' = 1 + S' + C'
      BY <2>1, <2>2, <3>1, <3>2
    <3>4. QED
      BY <3>1, <3>2, <3>3 DEF HasOneTaskPerEvent, T, S, C
  <2>5. CASE IsAttempted(w) \/ IsSteady(w)
    BY <2>1, <2>5 DEF IsAttempted, IsSteady, TasksStay, SignalsStay, CompletedStayOf,
                      HasOneTaskPerEvent
  <2>6. QED
    BY <1>2, <2>3, <2>4, <2>5
<1>3. QED
  BY <1>1, <1>2, AccountsMove

\* However its runs overlap, fail, are lost or repeat, a workflow that is there has
\* no task but the first that was not inserted with a signal or by a run of one of
\* its activities, and each attempt pays for one task at most.
THEOREM TasksHaveEvents == Spec => []TaskAccounting
<1>1. Init => TasksArePaidFor
  BY DEF Init, StorageInit, TasksArePaidFor, Exists
<1>2. IInv /\ IInv' /\ RunsFindTheirRow /\ TasksArePaidFor /\ [Next]_vars => TasksArePaidFor'
  BY TasksArePaidForNext
<1>3. TasksArePaidFor => TaskAccounting
  BY DEF TasksArePaidFor, IsPaidFor, TaskAccounting
<1>4. QED
  BY <1>1, <1>2, <1>3, Invariance, ActivityAttemptsInvariant, PTL DEF Spec

\* Where every run ends within its stuck timeout and no fetch comes late, the tasks
\* of a workflow are as many as its start and its events: a crash, a lost reply, a
\* retry or a repeated signal neither loses the wakeup of an event nor doubles it.
THEOREM EventsHaveOneTask == Spec => []OneTaskPerEvent
<1>1. CASE RunsMayOverlap
  <2>1. OneTaskPerEvent
    BY <1>1 DEF OneTaskPerEvent
  <2>2. QED
    BY <2>1, PTL
<1>2. CASE ~RunsMayOverlap
  <2>1. Init => TasksMatchEvents
    BY DEF Init, StorageInit, TasksMatchEvents, Exists
  <2>2. IInv /\ IInv' /\ RunsFindTheirRow /\ OneRunPerActivity /\ TasksMatchEvents /\ [Next]_vars
          => TasksMatchEvents'
    BY <1>2, TasksMatchEventsNext
  <2>3. TasksMatchEvents => OneTaskPerEvent
    BY DEF TasksMatchEvents, HasOneTaskPerEvent, OneTaskPerEvent
  <2>4. Spec => [](RunsFindTheirRow /\ OneRunPerActivity)
    BY <1>2, OneRunInvariant
  <2>5. QED
    BY <2>1, <2>2, <2>3, <2>4, Invariance, PTL DEF Spec
<1>3. QED
  BY <1>1, <1>2
=============================================================================
