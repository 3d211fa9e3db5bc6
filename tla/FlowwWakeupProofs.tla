---------------------------- MODULE FlowwWakeupProofs ----------------------------
(*****************************************************************************)
(* Proof that no wakeup is lost: a workflow that is running with no task left *)
(* has seen all its events and waits for more.                               *)
(*****************************************************************************)
EXTENDS FlowwAttemptsProofs

-----------------------------------------------------------------------------
(* The events of a workflow *)

\* A completed activity has an output.
ResultsAreStored ==
  \A k \in ActivityKeys : activities[k].status = "completed" => activities[k].output # None

LEMMA ResultsAreStoredNext ==
  ASSUME IInv, ResultsAreStored, [Next]_vars
  PROVE  ResultsAreStored'
<1> SUFFICES ASSUME NEW k \in ActivityKeys, activities'[k].status = "completed"
             PROVE  activities'[k].output # None
  BY DEF ResultsAreStored
<1>1. CASE QuietStep
  BY <1>1 DEF QuietStep, RowsAreQuiet, IsInserted, IsDeleted, ResultsAreStored
<1>2. CASE \E r \in ActivityRunners, j \in ActivityKeys :
             PollActivity(r, j) \/ PollActivityAgain(r, j)
  BY <1>2, ActivityIsClaimed DEF ResultsAreStored
<1>3. CASE \E r \in ActivityRunners : ActivityRunnerStep(r) \/ ActivityRunnerHarmed(r)
  <2>1. PICK r \in ActivityRunners : ActivityRunnerStep(r) \/ ActivityRunnerHarmed(r)
    BY <1>3
  <2> DEFINE j == aruns[r].key
             w == aruns[r].wf
  <2>2. /\ j \in ActivityKeys
        /\ \/ UNCHANGED storageVars
           \/ \E row : LeavesRow(r, j, w, row)
    BY <2>1, ActivityRunEnds
  <2>3. QED
    BY <2>2, StorageAssumption
       DEF storageVars, LeavesRow, ResultsAreStored, IInv, TypeOK, StorageTypeOK
<1>4. QED
  BY <1>1, <1>2, <1>3, QuietSteps

\* The row with key k brings workflow w no event, and takes none from it but by a
\* claim that overlaps.
RowKept(k, w) ==
  \/ activities'[k] = activities[k]
  \/ ~OwnsActivity(w, k) /\ ~OwnsActivity(w, k)'
  \/ ~OwnsActivity(w, k) /\ activities'[k].status # "completed"
  \/ /\ OwnsActivity(w, k) /\ OwnsActivity(w, k)'
     /\ activities'[k].status # "completed"
     /\ activities[k].status # "completed" \/ RunsMayOverlap

EventsKept(w) ==
  /\ \A a \in Activities : IsRequested(w, a) => IsRequested(w, a)'
  /\ \A a \in Activities :
       \/ ListHistoryEventsForWorkflow(w)[a]' = ListHistoryEventsForWorkflow(w)[a]
       \/ RunsMayOverlap /\ ListHistoryEventsForWorkflow(w)[a]' = None
  /\ ListWorkflowSignals(w)' = ListWorkflowSignals(w)

LEMMA RowsKeepEvents ==
  ASSUME NEW w \in WorkflowIDs, \A k \in ActivityKeys : RowKept(k, w),
         ListWorkflowSignals(w)' = ListWorkflowSignals(w)
  PROVE  EventsKept(w)
<1> SUFFICES ASSUME NEW a \in Activities
             PROVE  /\ IsRequested(w, a) => IsRequested(w, a)'
                    /\ \/ ListHistoryEventsForWorkflow(w)[a]' = ListHistoryEventsForWorkflow(w)[a]
                       \/ RunsMayOverlap /\ ListHistoryEventsForWorkflow(w)[a]' = None
  BY DEF EventsKept
<1> DEFINE k == ActivityKey[<<w, a>>]
<1>1. k \in ActivityKeys
  BY StorageAssumption
<1>2. RowKept(k, w)
  BY <1>1
<1>3. /\ ListHistoryEventsForWorkflow(w)[a] =
           IF OwnsActivity(w, k) /\ activities[k].status = "completed"
           THEN activities[k].output ELSE None
      /\ ListHistoryEventsForWorkflow(w)[a]' =
           IF OwnsActivity(w, k)' /\ activities'[k].status = "completed"
           THEN activities'[k].output ELSE None
  BY DEF ListHistoryEventsForWorkflow
<1>4. /\ IsRequested(w, a) = OwnsActivity(w, k)
      /\ IsRequested(w, a)' = OwnsActivity(w, k)'
  BY DEF IsRequested
<1> HIDE DEF k
<1>5. QED
  BY <1>2, <1>3, <1>4 DEF RowKept, OwnsActivity

\* A task of w was inserted.
IsWoken(w) ==
  /\ \E t \in TaskIDs : /\ tasks[t].status = "none"
                        /\ tasks'[t] = [status |-> "pending", wf |-> w]
  /\ wruns' = wruns

LEMMA InsertWakes ==
  ASSUME IInv, NEW w \in WorkflowIDs, insertWorkflowTask(w, TRUE), wruns' = wruns
  PROVE  IsWoken(w)
<1>1. PICK t \in FreeTasks : tasks' = [tasks EXCEPT ![t] = [status |-> "pending", wf |-> w]]
  BY DEF insertWorkflowTask
<1>2. QED
  BY <1>1 DEF FreeTasks, IsWoken, IInv, TypeOK, StorageTypeOK

LEMMA QuietRowsKept ==
  ASSUME QuietStep, NEW w \in WorkflowIDs, Exists(w)', NEW k \in ActivityKeys
  PROVE  RowKept(k, w)
BY DEF QuietStep, RowsAreQuiet, IsInserted, IsDeleted, RowKept, OwnsActivity, Exists

LEMMA ClaimedRowsKept ==
  ASSUME IInv, NEW r \in ActivityRunners, NEW j \in ActivityKeys,
         PollActivity(r, j) \/ PollActivityAgain(r, j),
         NEW w \in WorkflowIDs, NEW k \in ActivityKeys
  PROVE  RowKept(k, w)
<1>1. /\ activities'[j].status = "running"
      /\ activities'[j].wf = activities[j].wf
      /\ activities[j].status # "none"
      /\ k # j => activities'[k] = activities[k]
  BY ActivityIsClaimed
<1>2. activities[j].status = "completed" => RunsMayOverlap
  BY DEF PollActivity, PollActivityAgain, Overlaps
<1>3. QED
  BY <1>1, <1>2 DEF RowKept, OwnsActivity

LEMMA LeftRowsKept ==
  ASSUME IInv, OneRunPerActivity, NEW r \in ActivityRunners, aruns[r].busy,
         NEW j \in ActivityKeys, j = aruns[r].key, NEW v, v = aruns[r].wf,
         OwnsActivity(v, j), NEW row, LeavesRow(r, j, v, row),
         NEW w \in WorkflowIDs, row.status # "completed" \/ v # w,
         NEW k \in ActivityKeys
  PROVE  RowKept(k, w)
<1>1. /\ activities'[j] = row /\ row.wf = v /\ row.status # "none"
      /\ k # j => activities'[k] = activities[k]
  BY DEF LeavesRow, IInv, TypeOK, StorageTypeOK
<1>2. activities[j].status = "completed" => RunsMayOverlap
  <2>1. r \in RunsOf(j)
    BY DEF RunsOf
  <2>2. QED
    BY <2>1 DEF OneRunPerActivity
<1>3. QED
  BY <1>1, <1>2 DEF RowKept, OwnsActivity

LEMMA SignalsKept ==
  ASSUME NEW w \in WorkflowIDs,
         \A k \in SignalKeys : \/ signals'[k] = signals[k]
                               \/ signals[k].wf # w /\ signals'[k].wf # w
  PROVE  ListWorkflowSignals(w)' = ListWorkflowSignals(w)
BY StorageAssumption DEF ListWorkflowSignals

LEMMA EventsStep ==
  ASSUME IInv, OneRunPerActivity, [Next]_vars,
         NEW w \in WorkflowIDs, Running(w), workflows'[w].status = "running"
  PROVE  EventsKept(w) \/ IsWoken(w)
<1>1. Exists(w)' /\ Exists(w)
  BY DEF Exists, Running
<1>2. ASSUME UNCHANGED signals PROVE ListWorkflowSignals(w)' = ListWorkflowSignals(w)
  BY <1>2 DEF ListWorkflowSignals
<1>3. ASSUME QuietStep, ListWorkflowSignals(w)' = ListWorkflowSignals(w)
      PROVE  EventsKept(w)
  BY <1>1, <1>3, QuietRowsKept, RowsKeepEvents
<1>4. CASE \E v \in WorkflowIDs, s \in Signals, input \in Inputs : SendSignal(v, s, input)
  <2>1. PICK v \in WorkflowIDs, s \in Signals, input \in Inputs : SendSignal(v, s, input)
    BY <1>4
  <2>2. QuietStep
    <3>1. UNCHANGED <<activities, aruns, faults>>
      BY <2>1 DEF SendSignal, InsertSignal, storageVars
    <3>2. QED
      BY <3>1 DEF QuietStep, RowsAreQuiet
  <2>3. CASE InsertSignalFails(v, s)
    BY <1>2, <1>3, <2>1, <2>2, <2>3 DEF SendSignal, storageVars
  <2>4. CASE ~InsertSignalFails(v, s)
    <3>1. /\ signals[SignalKey[<<v, s>>]].wf = None
          /\ signals' = [signals EXCEPT ![SignalKey[<<v, s>>]] = [wf |-> v, input |-> input]]
          /\ insertWorkflowTask(v, Exists(v)) /\ Exists(v)
          /\ wruns' = wruns
      BY <2>1, <2>4 DEF SendSignal, InsertSignal, InsertSignalFails
    <3>2. CASE v = w
      BY <3>1, <3>2, InsertWakes DEF insertWorkflowTask
    <3>3. CASE v # w
      <4>1. w # None
        BY StorageAssumption
      <4>2. \A k \in SignalKeys : \/ signals'[k] = signals[k]
                                  \/ signals[k].wf # w /\ signals'[k].wf # w
        BY <3>1, <3>3, <4>1 DEF IInv, TypeOK, StorageTypeOK
      <4>3. QED
        BY <1>3, <2>2, <4>2, SignalsKept
    <3>4. QED
      BY <3>2, <3>3
  <2>5. QED
    BY <2>3, <2>4
<1>5. CASE \E v \in WorkflowIDs : CleanColdWorkflows(v) \/ CleanDeadWorkflows(v)
  <2>1. PICK v \in WorkflowIDs : CleanColdWorkflows(v) \/ CleanDeadWorkflows(v)
    BY <1>5
  <2>2. v # w
    BY <2>1 DEF CleanColdWorkflows, CleanDeadWorkflows, deleteWorkflow, Running
  <2>3. /\ activities' = [k \in ActivityKeys |->
             IF activities[k].wf = v THEN NoActivityRow ELSE activities[k]]
        /\ signals' = [k \in SignalKeys |->
             IF signals[k].wf = v THEN NoSignalRow ELSE signals[k]]
    BY <2>1 DEF CleanColdWorkflows, CleanDeadWorkflows, deleteWorkflow
  <2>4. ListWorkflowSignals(w)' = ListWorkflowSignals(w)
    BY <2>2, <2>3, StorageAssumption, SignalsKept DEF NoSignalRow
  <2>5. \A k \in ActivityKeys : RowKept(k, w)
    BY <2>2, <2>3 DEF RowKept, OwnsActivity, NoActivityRow
  <2>6. QED
    BY <2>4, <2>5, RowsKeepEvents
<1>6. CASE \E r \in ActivityRunners, k \in ActivityKeys :
             PollActivity(r, k) \/ PollActivityAgain(r, k)
  <2>1. UNCHANGED signals
    BY <1>6, ActivityIsClaimed
  <2>2. QED
    BY <1>2, <1>6, <2>1, ClaimedRowsKept, RowsKeepEvents
<1>7. CASE \E r \in ActivityRunners : ActivityRunnerStep(r) \/ ActivityRunnerHarmed(r)
  <2>1. PICK r \in ActivityRunners : ActivityRunnerStep(r) \/ ActivityRunnerHarmed(r)
    BY <1>7
  <2> DEFINE j == aruns[r].key
             v == aruns[r].wf
  <2>2. /\ aruns[r].busy /\ j \in ActivityKeys /\ v \in WorkflowIDs
        /\ UNCHANGED <<signals, wruns>>
        /\ \/ UNCHANGED storageVars
           \/ OwnsActivity(v, j) /\ \E row : LeavesRow(r, j, v, row)
    BY <2>1, ActivityRunEnds
  <2>3. CASE UNCHANGED storageVars
    <3>1. \A k \in ActivityKeys : RowKept(k, w)
      BY <2>3 DEF storageVars, RowKept
    <3>2. QED
      BY <1>2, <2>2, <3>1, RowsKeepEvents
  <2>4. CASE OwnsActivity(v, j) /\ \E row : LeavesRow(r, j, v, row)
    <3>1. PICK row : LeavesRow(r, j, v, row)
      BY <2>4
    <3>2. CASE row.status = "completed" /\ v = w
      BY <2>2, <3>1, <3>2, InsertWakes DEF LeavesRow
    <3>3. CASE ~(row.status = "completed" /\ v = w)
      BY <1>2, <2>2, <2>4, <3>1, <3>3, LeftRowsKept, RowsKeepEvents
    <3>4. QED
      BY <3>2, <3>3
  <2>5. QED
    BY <2>2, <2>3, <2>4
<1>8. CASE /\ QuietStep
           /\ \/ \E v \in WorkflowIDs, key \in RequestKeys : EnqueueWorkflow(v, key)
              \/ \E r \in WorkflowRunners, t \in TaskIDs :
                   PollWorkflowTask(r, t) \/ PollWorkflowTaskAgain(r, t)
              \/ \E r \in WorkflowRunners : WorkflowRunnerStep(r) \/ WorkflowRunnerHarmed(r)
              \/ UNCHANGED vars
  <2>1. UNCHANGED signals
    BY <1>8 DEF EnqueueWorkflow, InsertWorkflow, PollWorkflowTask, PollWorkflowTaskAgain,
       ClaimTask, WorkflowRunnerStep, WorkflowRunnerHarmed, RunStep, LoadHistory,
       LoadSignals, ScheduleActivity, HandlerReturns, CompletionReplyLost, CompletesWorkflow,
       CompleteTask, HandlerFails, TaskError, RunLost, storageVars, vars
  <2>2. QED
    BY <1>2, <1>3, <1>8, <2>1
<1>9. QED
  BY <1>4, <1>5, <1>6, <1>7, <1>8, QuietSteps DEF Next

-----------------------------------------------------------------------------
(* A workflow whose events are kept stays covered *)

LEMMA SeenStays ==
  ASSUME NEW w, EventsKept(w), NEW hist, IsSeen(ListHistoryEventsForWorkflow(w), hist)
  PROVE  IsSeen(ListHistoryEventsForWorkflow(w)', hist)
BY DEF EventsKept, IsSeen, ListHistoryEventsForWorkflow

LEMMA RestStays ==
  ASSUME NEW w, EventsKept(w), AtRest(w)
  PROVE  AtRest(w)'
<1>1. PICK view \in Views :
        /\ IsSeen(ListHistoryEventsForWorkflow(w), view.hist)
        /\ ListWorkflowSignals(w) = view.sigs
        /\ Handler[view].outcome = "suspend"
        /\ \A n \in 1..Len(Handler[view].calls) : IsRequested(w, Handler[view].calls[n])
  BY DEF AtRest
<1>2. IsSeen(ListHistoryEventsForWorkflow(w)', view.hist)
  BY <1>1, SeenStays
<1>3. \A n \in 1..Len(Handler[view].calls) : Handler[view].calls[n] \in Activities
  <2> DEFINE calls == Handler[view].calls
  <2>1. calls \in Seq(Activities)
    BY WorkflowWorkerAssumption
  <2> HIDE DEF calls
  <2>2. QED
    BY <2>1 DEF calls
<1>4. \A n \in 1..Len(Handler[view].calls) : IsRequested(w, Handler[view].calls[n])'
  BY <1>1, <1>3 DEF EventsKept
<1>5. ListWorkflowSignals(w)' = view.sigs
  BY <1>1 DEF EventsKept
<1>6. QED
  BY <1>1, <1>2, <1>4, <1>5 DEF AtRest

LEMMA UpToDateStays ==
  ASSUME NEW r, NEW w, w = wruns[r].wf, EventsKept(w), wruns'[r] = wruns[r], UpToDate(r)
  PROVE  UpToDate(r)'
<1>1. wruns'[r].wf = w /\ wruns'[r].hist = wruns[r].hist /\ wruns'[r].sigs = wruns[r].sigs
      /\ wruns'[r].to_load = wruns[r].to_load
  OBVIOUS
<1>2. ASSUME "history" \notin wruns[r].to_load
      PROVE  IsSeen(ListHistoryEventsForWorkflow(w)', wruns[r].hist)
  BY <1>2, SeenStays DEF UpToDate
<1>3. ASSUME "signals" \notin wruns[r].to_load
      PROVE  ListWorkflowSignals(w)' = wruns[r].sigs
  BY <1>3 DEF UpToDate, EventsKept
<1>4. QED
  BY <1>1, <1>2, <1>3 DEF UpToDate

\* The task stays open, and its runs go on as they were or with all there is to see.
LEMMA WakeStays ==
  ASSUME IInv, NEW w \in WorkflowIDs, EventsKept(w),
         NEW t \in TaskIDs, WillWake(t, w), t \in OpenTasks(w)',
         \A r \in TaskRunsOf(t)' : UpToDate(r)' \/ (r \in TaskRunsOf(t) /\ wruns'[r] = wruns[r])
  PROVE  WillWake(t, w)'
<1>1. ASSUME NEW r \in TaskRunsOf(t), wruns'[r] = wruns[r]
      PROVE  UpToDate(r)'
  <2>1. wruns[r].wf = w
    BY DEF TaskRunsOf, WillWake, OpenTasks, IInv, RunsMatchTasks, TaskExists
  <2>2. QED
    BY <1>1, <2>1, UpToDateStays DEF WillWake
<1>2. QED
  BY <1>1 DEF WillWake

\* A new task has no run.
LEMMA WokenIsCovered ==
  ASSUME IInv, NEW w \in WorkflowIDs, IsWoken(w)
  PROVE  \E t \in TaskIDs : WillWake(t, w)'
<1>1. PICK t \in TaskIDs : /\ tasks[t].status = "none"
                           /\ tasks'[t] = [status |-> "pending", wf |-> w]
  BY DEF IsWoken
<1>2. t \in OpenTasks(w)'
  BY <1>1 DEF OpenTasks
<1>3. TaskRunsOf(t)' = {}
  BY <1>1 DEF IsWoken, TaskRunsOf, IInv, RunsMatchTasks
<1>4. QED
  BY <1>2, <1>3 DEF WillWake

Covered(w) == AtRest(w) \/ \E t \in TaskIDs : WillWake(t, w)

LEMMA CoveredStays ==
  ASSUME IInv, NEW w \in WorkflowIDs, EventsKept(w), Covered(w),
         \A t \in TaskIDs : WillWake(t, w) =>
           /\ t \in OpenTasks(w)'
           /\ \A r \in TaskRunsOf(t)' :
                UpToDate(r)' \/ (r \in TaskRunsOf(t) /\ wruns'[r] = wruns[r])
  PROVE  Covered(w)'
<1>1. CASE AtRest(w)
  BY <1>1, RestStays DEF Covered
<1>2. CASE \E t \in TaskIDs : WillWake(t, w)
  BY <1>2, WakeStays DEF Covered
<1>3. QED
  BY <1>1, <1>2 DEF Covered

\* The run of an open task is a run of its workflow.
LEMMA RunOfOpenTask ==
  ASSUME IInv, NEW w \in WorkflowIDs, NEW t \in OpenTasks(w), NEW r \in TaskRunsOf(t)
  PROVE  wruns[r].wf = w /\ wruns[r].phase # "idle" /\ wruns[r].task = t
BY DEF TaskRunsOf, OpenTasks, IInv, RunsMatchTasks, TaskExists

-----------------------------------------------------------------------------
(* The steps that leave the runs of tasks alone *)

LEMMA OpenTasksStay ==
  ASSUME IInv, [Next]_vars, wruns' = wruns,
         NEW w \in WorkflowIDs, Running(w), workflows'[w].status = "running",
         NEW t \in OpenTasks(w)
  PROVE  t \in OpenTasks(w)'
<1>1. t \in TaskIDs /\ tasks[t].wf = w /\ tasks[t].status \in {"pending", "running"}
  BY DEF OpenTasks
<1>2. ASSUME NEW v \in WorkflowIDs, NEW found \in BOOLEAN, insertWorkflowTask(v, found)
      PROVE  tasks'[t] = tasks[t]
  BY <1>1, <1>2, InsertTask DEF IInv, TypeOK
<1>3. CASE tasks'[t] = tasks[t]
  BY <1>1, <1>3 DEF OpenTasks
<1>4. CASE \E v \in WorkflowIDs, key \in RequestKeys : EnqueueWorkflow(v, key)
  BY <1>2, <1>3, <1>4 DEF EnqueueWorkflow, InsertWorkflow
<1>5. CASE \E v \in WorkflowIDs, s \in Signals, input \in Inputs : SendSignal(v, s, input)
  <2>1. \A v \in WorkflowIDs : Exists(v) \in BOOLEAN
    BY DEF Exists
  <2>2. UNCHANGED tasks \/ \E v \in WorkflowIDs : insertWorkflowTask(v, Exists(v))
    BY <1>5 DEF SendSignal, InsertSignal, storageVars
  <2>3. QED
    BY <1>2, <1>3, <2>1, <2>2
<1>6. CASE \E r \in ActivityRunners, k \in ActivityKeys :
             PollActivity(r, k) \/ PollActivityAgain(r, k)
  BY <1>3, <1>6, ActivityIsClaimed
<1>7. CASE \E r \in ActivityRunners : ActivityRunnerStep(r) \/ ActivityRunnerHarmed(r)
  <2>1. PICK r \in ActivityRunners : ActivityRunnerStep(r) \/ ActivityRunnerHarmed(r)
    BY <1>7
  <2>2. aruns[r].wf \in WorkflowIDs
    BY <2>1, ActivityRunEnds
  <2>3. UNCHANGED tasks \/ insertWorkflowTask(aruns[r].wf, TRUE)
    BY <2>1, ActivityRunEnds DEF LeavesRow, storageVars
  <2>4. QED
    BY <1>2, <1>3, <2>2, <2>3
<1>8. CASE \E v \in WorkflowIDs : CleanColdWorkflows(v) \/ CleanDeadWorkflows(v)
  <2>1. PICK v \in WorkflowIDs : CleanColdWorkflows(v) \/ CleanDeadWorkflows(v)
    BY <1>8
  <2>2. v # w
    BY <2>1 DEF CleanColdWorkflows, CleanDeadWorkflows, deleteWorkflow, Running
  <2>3. QED
    BY <1>1, <1>3, <2>1, <2>2 DEF CleanColdWorkflows, CleanDeadWorkflows, deleteWorkflow
<1>9. CASE UNCHANGED vars
  BY <1>3, <1>9 DEF vars
<1>10. CASE \E r \in WorkflowRunners, u \in TaskIDs :
              PollWorkflowTask(r, u) \/ PollWorkflowTaskAgain(r, u)
  <2>1. PICK r \in WorkflowRunners, u \in TaskIDs : ClaimTask(r, u)
    BY <1>10 DEF PollWorkflowTask, PollWorkflowTaskAgain
  <2>2. wruns'[r] = NewRun(u) /\ NewRun(u).phase = "load" /\ wruns[r].phase = "idle"
    BY <2>1 DEF ClaimTask, NewRun, IInv, TypeOK, WorkflowWorkerTypeOK
  <2>3. QED
    BY <2>2
<1>11. CASE \E r \in WorkflowRunners : WorkflowRunnerStep(r) \/ WorkflowRunnerHarmed(r)
  <2>1. PICK r \in WorkflowRunners : WorkflowRunnerStep(r) \/ WorkflowRunnerHarmed(r)
    BY <1>11
  <2>2. CASE UNCHANGED tasks
    BY <1>3, <2>2
  <2>3. CASE CompleteTask(r) \/ HandlerFails(r)
    <3>1. wruns[r].phase # "idle" /\ EndRun(r)
      BY <2>3 DEF CompleteTask, HandlerEnds, HandlerFails, TaskError
    <3>2. wruns'[r].phase = "idle"
      BY <3>1, EndedRunStays DEF IdleRun
    <3>3. QED
      BY <3>1, <3>2
  <2>4. QED
    BY <2>1, <2>2, <2>3 DEF WorkflowRunnerStep, WorkflowRunnerHarmed, RunStep,
       LoadHistory, LoadSignals, ScheduleActivity, HandlerReturns, CompletionReplyLost,
       CompletesWorkflow, RunLost, storageVars
<1>12. QED
  BY <1>4, <1>5, <1>6, <1>7, <1>8, <1>9, <1>10, <1>11 DEF Next

LEMMA RunsApartStayCovered ==
  ASSUME IInv, [Next]_vars, wruns' = wruns,
         NEW w \in WorkflowIDs, Running(w), workflows'[w].status = "running",
         EventsKept(w), Covered(w)
  PROVE  Covered(w)'
<1>1. \A t \in TaskIDs : WillWake(t, w) => t \in OpenTasks(w)'
  BY OpenTasksStay DEF WillWake
<1>2. \A t \in TaskIDs : \A r \in TaskRunsOf(t)' : r \in TaskRunsOf(t) /\ wruns'[r] = wruns[r]
  BY DEF TaskRunsOf
<1>3. QED
  BY <1>1, <1>2, CoveredStays

-----------------------------------------------------------------------------
(* The steps of the runs of tasks *)

\* A task that was claimed will read all its events.
LEMMA PollStaysCovered ==
  ASSUME IInv, NEW q \in WorkflowRunners, NEW u \in TaskIDs, ClaimTask(q, u),
         NEW w \in WorkflowIDs, EventsKept(w), Covered(w)
  PROVE  Covered(w)'
<1>1. /\ TaskExists(u) /\ wruns[q].phase = "idle"
      /\ tasks' = [tasks EXCEPT ![u].status = "running"]
      /\ wruns' = [wruns EXCEPT ![q] = NewRun(u)]
  BY DEF ClaimTask
<1>2. \A t \in TaskIDs : /\ tasks'[t].wf = tasks[t].wf
                         /\ tasks'[t].status \in {tasks[t].status, "running"}
  BY <1>1 DEF IInv, TypeOK, StorageTypeOK, TaskRow
<1>3. \A t \in TaskIDs : t \in OpenTasks(w) => t \in OpenTasks(w)'
  BY <1>2 DEF OpenTasks
<1>4. \A r \in WorkflowRunners : wruns'[r] = IF r = q THEN NewRun(u) ELSE wruns[r]
  BY <1>1 DEF IInv, TypeOK, WorkflowWorkerTypeOK
<1>5. UpToDate(q)'
  <2>1. wruns'[q].to_load = {"history", "signals"}
    BY <1>4 DEF NewRun
  <2>2. QED
    BY <2>1 DEF UpToDate
<1>6. \A t \in TaskIDs : \A r \in TaskRunsOf(t)' :
        r = q \/ (r \in TaskRunsOf(t) /\ wruns'[r] = wruns[r])
  BY <1>4 DEF TaskRunsOf
<1>7. QED
  BY <1>3, <1>5, <1>6, CoveredStays DEF WillWake

\* A run moves on with its task, and is up to date if it was.
LEMMA MoveStaysCovered ==
  ASSUME IInv, tasks' = tasks, NEW q \in WorkflowRunners, wruns[q].phase # "idle",
         NEW run, run.task = wruns[q].task, wruns' = [wruns EXCEPT ![q] = run],
         NEW w \in WorkflowIDs, EventsKept(w), Covered(w),
         wruns[q].wf = w /\ UpToDate(q) => UpToDate(q)'
  PROVE  Covered(w)'
<1>1. \A r \in WorkflowRunners : wruns'[r] = IF r = q THEN run ELSE wruns[r]
  BY DEF IInv, TypeOK, WorkflowWorkerTypeOK
<1>2. ASSUME NEW t \in TaskIDs, WillWake(t, w), NEW r \in TaskRunsOf(t)'
      PROVE  UpToDate(r)' \/ (r \in TaskRunsOf(t) /\ wruns'[r] = wruns[r])
  <2>1. r \in TaskRunsOf(t) /\ (r = q \/ wruns'[r] = wruns[r])
    BY <1>1, <1>2 DEF TaskRunsOf
  <2>2. wruns[r].wf = w /\ UpToDate(r)
    BY <1>2, <2>1, RunOfOpenTask DEF WillWake
  <2>3. QED
    BY <2>1, <2>2
<1>3. \A t \in TaskIDs : t \in OpenTasks(w) => t \in OpenTasks(w)'
  BY DEF OpenTasks
<1>4. QED
  BY <1>2, <1>3, CoveredStays DEF WillWake

\* A replay that suspended and was up to date leaves its workflow at rest.
LEMMA SuspendedAtRest ==
  ASSUME IInv, RunsOwnTheirCalls, NEW r \in WorkflowRunners, HandlerEnds(r, "suspend"),
         UpToDate(r), Exists(wruns[r].wf)
  PROVE  AtRest(wruns[r].wf)
<1> DEFINE run == wruns[r]
           w == run.wf
           view == [hist |-> run.hist, sigs |-> run.sigs]
           calls == Program(run).calls
<1>1. run.phase = "exec" /\ Unscheduled(run) = {} /\ Handler[view].outcome = "suspend"
  BY DEF HandlerEnds, Program
<1>2. run \in WorkflowRun /\ w \in WorkflowIDs
  BY <1>1 DEF IInv, TypeOK, WorkflowWorkerTypeOK
<1>3. view \in Views
  BY <1>2 DEF WorkflowRun, Views
<1>4. /\ run.to_load = {}
      /\ \A a \in Activities : run.hist[a] # None => IsRequested(w, a)
      /\ \A n \in 1..Len(calls) : n < run.next => IsRequested(w, calls[n])
  BY <1>1 DEF RunsOwnTheirCalls
<1>5. /\ IsSeen(ListHistoryEventsForWorkflow(w), run.hist)
      /\ ListWorkflowSignals(w) = run.sigs
  BY <1>4 DEF UpToDate
<1>6. calls \in Seq(Activities) /\ run.next \in Nat
  BY <1>2, ProgramType DEF WorkflowRun
<1>7. \A n \in 1..Len(calls) : IsRequested(w, calls[n])
  <2> SUFFICES ASSUME NEW n \in 1..Len(calls), ~(n < run.next)
               PROVE  IsRequested(w, calls[n])
    BY <1>4
  <2> HIDE DEF calls
  <2>1. n \in run.next .. Len(calls) /\ calls[n] \in Activities
    BY <1>6
  <2>2. run.hist[calls[n]] # None
    BY <1>1, <2>1 DEF Unscheduled, calls
  <2>3. QED
    BY <1>4, <2>1, <2>2
<1>8. calls = Handler[view].calls
  BY DEF Program
<1> HIDE DEF calls, view
<1>9. view.hist = run.hist /\ view.sigs = run.sigs
  BY DEF view
<1>10. QED
  BY <1>1, <1>3, <1>5, <1>7, <1>8, <1>9 DEF AtRest

\* A run ends with its task, if the task is still there.
LEMMA TaskEndStaysCovered ==
  ASSUME IInv, RunsOwnTheirCalls, NEW r \in WorkflowRunners, CompleteTask(r) \/ HandlerFails(r),
         NEW w \in WorkflowIDs, Running(w), workflows'[w].status = "running",
         EventsKept(w), Covered(w)
  PROVE  Covered(w)'
<1> DEFINE u == wruns[r].task
           v == wruns[r].wf
<1>1. /\ wruns[r].phase # "idle" /\ EndRun(r)
      /\ \/ CompleteWorkflowTask(u, v) /\ CompleteTask(r)
         \/ ReScheduleWorkflowTask(u, v)
         \/ FailWorkflowTask(u, v)
  BY DEF CompleteTask, HandlerEnds, HandlerFails, TaskError
<1>2. /\ u \in TaskIDs /\ v \in WorkflowIDs
      /\ TaskExists(u) => tasks[u].wf = v /\ Exists(v)
      /\ ~TaskExists(u) => UNCHANGED <<workflows, tasks>>
      /\ TaskExists(u) => \E new \in {"pending", "completed", "failed"} : TaskEndsAs(u, v, new)
  BY <1>1, TaskEnds
<1>3. \A q \in WorkflowRunners : wruns'[q] = IF q = r THEN IdleRun ELSE wruns[q]
  BY <1>1 DEF EndRun, IInv, TypeOK, WorkflowWorkerTypeOK
<1>4. \A t \in TaskIDs : \A q \in TaskRunsOf(t)' : q \in TaskRunsOf(t) /\ wruns'[q] = wruns[q]
  BY <1>3 DEF TaskRunsOf, IdleRun
<1>5. ASSUME \A t \in TaskIDs : WillWake(t, w) => t \in OpenTasks(w)'
      PROVE  Covered(w)'
  BY <1>4, <1>5, CoveredStays
<1>6. CASE ~TaskExists(u)
  <2>1. \A t \in TaskIDs : t \in OpenTasks(w) => t \in OpenTasks(w)'
    BY <1>2, <1>6 DEF OpenTasks
  <2>2. QED
    BY <1>5, <2>1 DEF WillWake
<1>7. CASE TaskExists(u)
  <2>1. PICK new \in {"pending", "completed", "failed"} : TaskEndsAs(u, v, new)
    BY <1>2, <1>7
  <2>2. \A t \in TaskIDs : /\ t # u => tasks'[t] = tasks[t]
                           /\ tasks'[t].wf = tasks[t].wf
                           /\ t = u => tasks'[t].status = new
    BY <1>2, <2>1 DEF TaskEndsAs, IInv, TypeOK, StorageTypeOK, TaskRow
  <2>3. \A t \in TaskIDs : t # u /\ t \in OpenTasks(w) => t \in OpenTasks(w)'
    BY <2>2 DEF OpenTasks
  <2>4. CASE ~WillWake(u, w)
    BY <1>5, <2>3, <2>4 DEF WillWake
  <2>5. CASE WillWake(u, w)
    <3>1. v = w /\ r \in TaskRunsOf(u) /\ UpToDate(r)
      BY <1>1, <1>2, <1>7, <2>5 DEF WillWake, OpenTasks, TaskRunsOf
    <3>2. CASE new = "pending"
      <4>1. u \in OpenTasks(w) => u \in OpenTasks(w)'
        BY <2>2, <3>2 DEF OpenTasks
      <4>2. QED
        BY <1>5, <2>3, <4>1 DEF WillWake
    <3>3. CASE new = "failed"
      <4>1. PICK row : Updates(v, row) /\ row.status = "failed"
        BY <2>1, <3>3 DEF TaskEndsAs
      <4>2. workflows'[v] = row
        BY <1>2, <4>1, UpdateStays DEF IInv, TypeOK
      <4>3. QED
        BY <3>1, <4>1, <4>2
    <3>4. CASE new = "completed"
      <4>1. tasks'[u].status = "completed"
        BY <1>2, <2>2, <3>4
      <4>2. CompleteTask(r)
        <5>1. ASSUME \/ tasks' = [tasks EXCEPT ![u].status = "pending"]
                     \/ tasks' = [tasks EXCEPT ![u].status = "failed"]
              PROVE  FALSE
          BY <1>2, <4>1, <5>1 DEF IInv, TypeOK, StorageTypeOK, TaskRow
        <5>2. QED
          BY <1>1, <1>7, <5>1 DEF ReScheduleWorkflowTask, FailWorkflowTask
      <4>3. wruns[r].phase # "returned"
        BY <1>1, <3>1 DEF RunsOwnTheirCalls
      <4>4. HandlerEnds(r, "suspend")
        BY <4>2, <4>3 DEF CompleteTask
      <4>5. AtRest(w)
        BY <1>2, <1>7, <3>1, <4>4, SuspendedAtRest
      <4>6. QED
        BY <4>5, RestStays DEF Covered
    <3>5. QED
      BY <3>2, <3>3, <3>4
  <2>6. QED
    BY <2>4, <2>5
<1>8. QED
  BY <1>6, <1>7

LEMMA WorkflowRunnerStaysCovered ==
  ASSUME IInv, RunsOwnTheirCalls, NEW r \in WorkflowRunners,
         WorkflowRunnerStep(r) \/ WorkflowRunnerHarmed(r),
         NEW w \in WorkflowIDs, Running(w), workflows'[w].status = "running",
         EventsKept(w), Covered(w)
  PROVE  Covered(w)'
<1> DEFINE old == wruns[r]
<1>1. CASE LoadHistory(r)
  <2> DEFINE run == [Loaded(old, "history") EXCEPT !.hist = ListHistoryEventsForWorkflow(old.wf)]
  <2>1. /\ old.phase = "load" /\ old \in WorkflowRun
        /\ UNCHANGED storageVars
        /\ wruns' = [wruns EXCEPT ![r] = run]
    BY <1>1 DEF LoadHistory, IInv, TypeOK, WorkflowWorkerTypeOK
  <2>2. /\ run.task = old.task /\ run.wf = old.wf /\ run.sigs = old.sigs
        /\ run.hist = ListHistoryEventsForWorkflow(old.wf)
        /\ run.to_load = old.to_load \ {"history"}
    BY <2>1 DEF Loaded, WorkflowRun
  <2> HIDE DEF run
  <2>3. wruns'[r] = run
    BY <2>1 DEF IInv, TypeOK, WorkflowWorkerTypeOK
  <2>4. ASSUME old.wf = w, UpToDate(r) PROVE UpToDate(r)'
    <3>1. IsSeen(ListHistoryEventsForWorkflow(w)', run.hist)
      BY <2>1, <2>2, <2>4 DEF IsSeen, ListHistoryEventsForWorkflow, OwnsActivity, storageVars
    <3>2. "signals" \notin run.to_load => ListWorkflowSignals(w)' = run.sigs
      BY <2>2, <2>4 DEF UpToDate, EventsKept
    <3>3. run.wf = w
      BY <2>2, <2>4
    <3>4. QED
      BY <2>3, <3>1, <3>2, <3>3 DEF UpToDate
  <2>5. QED
    BY <2>1, <2>2, <2>4, MoveStaysCovered DEF storageVars
<1>2. CASE LoadSignals(r)
  <2> DEFINE run == [Loaded(old, "signals") EXCEPT !.sigs = ListWorkflowSignals(old.wf)]
  <2>1. /\ old.phase = "load" /\ old \in WorkflowRun
        /\ UNCHANGED storageVars
        /\ wruns' = [wruns EXCEPT ![r] = run]
    BY <1>2 DEF LoadSignals, IInv, TypeOK, WorkflowWorkerTypeOK
  <2>2. /\ run.task = old.task /\ run.wf = old.wf /\ run.hist = old.hist
        /\ run.sigs = ListWorkflowSignals(old.wf)
        /\ run.to_load = old.to_load \ {"signals"}
    BY <2>1 DEF Loaded, WorkflowRun
  <2> HIDE DEF run
  <2>3. wruns'[r] = run
    BY <2>1 DEF IInv, TypeOK, WorkflowWorkerTypeOK
  <2>4. ASSUME old.wf = w, UpToDate(r) PROVE UpToDate(r)'
    <3>1. "history" \notin run.to_load => IsSeen(ListHistoryEventsForWorkflow(w)', run.hist)
      BY <2>2, <2>4, SeenStays DEF UpToDate
    <3>2. ListWorkflowSignals(w)' = run.sigs
      BY <2>2, <2>4 DEF EventsKept
    <3>3. run.wf = w
      BY <2>2, <2>4
    <3>4. QED
      BY <2>3, <3>1, <3>2, <3>3 DEF UpToDate
  <2>5. QED
    BY <2>1, <2>2, <2>4, MoveStaysCovered DEF storageVars
<1>3. CASE ScheduleActivity(r)
  <2>1. PICK n : wruns' = [wruns EXCEPT ![r] = [@ EXCEPT !.next = n + 1]]
    BY <1>3 DEF ScheduleActivity
  <2> DEFINE run == [old EXCEPT !.next = n + 1]
  <2>2. /\ old.phase = "exec" /\ old \in WorkflowRun
        /\ UNCHANGED tasks
        /\ wruns' = [wruns EXCEPT ![r] = run]
    BY <1>3, <2>1 DEF ScheduleActivity, IInv, TypeOK, WorkflowWorkerTypeOK
  <2>3. /\ run.task = old.task /\ run.wf = old.wf /\ run.hist = old.hist
        /\ run.sigs = old.sigs /\ run.to_load = old.to_load
    BY <2>2 DEF WorkflowRun
  <2> HIDE DEF run
  <2>4. wruns'[r] = run
    BY <2>2 DEF IInv, TypeOK, WorkflowWorkerTypeOK
  <2>5. ASSUME old.wf = w, UpToDate(r) PROVE UpToDate(r)'
    <3>1. "history" \notin run.to_load => IsSeen(ListHistoryEventsForWorkflow(w)', run.hist)
      BY <2>3, <2>5, SeenStays DEF UpToDate
    <3>2. "signals" \notin run.to_load => ListWorkflowSignals(w)' = run.sigs
      BY <2>3, <2>5 DEF UpToDate, EventsKept
    <3>3. run.wf = w
      BY <2>3, <2>5
    <3>4. QED
      BY <2>4, <3>1, <3>2, <3>3 DEF UpToDate
  <2>6. QED
    BY <2>2, <2>3, <2>5, MoveStaysCovered
<1>4. CASE HandlerReturns(r) \/ CompletionReplyLost(r)
  <2>1. PICK phase : CompletesWorkflow(r, phase)
    BY <1>4 DEF HandlerReturns, CompletionReplyLost
  <2> DEFINE run == Ended(old, phase)
  <2>2. /\ old.phase # "idle" /\ run.task = old.task /\ run.wf = old.wf
        /\ UNCHANGED tasks
        /\ wruns' = [wruns EXCEPT ![r] = run]
    BY <2>1 DEF CompletesWorkflow, HandlerEnds, Ended
  <2> HIDE DEF run
  <2>3. wruns'[r].wf = old.wf
    BY <2>2 DEF IInv, TypeOK, WorkflowWorkerTypeOK
  <2>4. ~Running(wruns[r].wf)'
    BY <2>1, CompletesWorkflowStays
  <2>5. old.wf # w
    BY <2>3, <2>4 DEF Running
  <2>6. QED
    BY <2>2, <2>5, MoveStaysCovered
<1>5. CASE CompleteTask(r) \/ HandlerFails(r)
  BY <1>5, TaskEndStaysCovered
<1>6. CASE RunLost(r)
  <2>1. \A q \in WorkflowRunners : wruns'[q] = IF q = r THEN IdleRun ELSE wruns[q]
    BY <1>6 DEF RunLost, EndRun, IInv, TypeOK, WorkflowWorkerTypeOK
  <2>2. \A t \in TaskIDs : \A q \in TaskRunsOf(t)' : q \in TaskRunsOf(t) /\ wruns'[q] = wruns[q]
    BY <2>1 DEF TaskRunsOf, IdleRun
  <2>3. \A t \in TaskIDs : t \in OpenTasks(w) => t \in OpenTasks(w)'
    BY <1>6 DEF RunLost, storageVars, OpenTasks
  <2>4. QED
    BY <2>2, <2>3, CoveredStays DEF WillWake
<1>7. QED
  BY <1>1, <1>2, <1>3, <1>4, <1>5, <1>6 DEF WorkflowRunnerStep, WorkflowRunnerHarmed, RunStep

-----------------------------------------------------------------------------
(* The events are covered *)

LEMMA StartsWoken ==
  ASSUME IInv, [Next]_vars, NEW w \in WorkflowIDs, ~Running(w),
         workflows'[w].status = "running"
  PROVE  IsWoken(w)
<1>1. workflows[w].status = "none"
  BY StatusesStayNext DEF StatusesStay, Running
<1>2. CASE \E v \in WorkflowIDs, key \in RequestKeys : EnqueueWorkflow(v, key)
  <2>1. PICK v \in WorkflowIDs, key \in RequestKeys : EnqueueWorkflow(v, key)
    BY <1>2
  <2> DEFINE isNew == \A u \in WorkflowIDs : Exists(u) => workflows[u].key # key
  <2>2. /\ workflows' = IF isNew
                        THEN [workflows EXCEPT ![v] =
                               [@ EXCEPT !.status = "running", !.key = key]]
                        ELSE workflows
        /\ insertWorkflowTask(v, isNew)
        /\ wruns' = wruns
    BY <2>1 DEF EnqueueWorkflow, InsertWorkflow
  <2> HIDE DEF isNew
  <2>3. isNew /\ v = w
    BY <1>1, <2>2 DEF IInv, TypeOK, StorageTypeOK
  <2>4. QED
    BY <2>2, <2>3, InsertWakes DEF insertWorkflowTask
<1>3. CASE ~\E v \in WorkflowIDs, key \in RequestKeys : EnqueueWorkflow(v, key)
  BY <1>1, <1>3, StepKeeps DEF WorkflowsKeepKey, Exists
<1>4. QED
  BY <1>2, <1>3

LEMMA EventsAreCoveredNext ==
  ASSUME IInv, OneRunPerActivity, WakeupInv, [Next]_vars
  PROVE  EventsAreCovered'
<1> SUFFICES ASSUME NEW w \in WorkflowIDs, workflows'[w].status = "running"
             PROVE  Covered(w)'
  BY DEF EventsAreCovered, Covered, Running
<1>1. CASE IsWoken(w)
  BY <1>1, WokenIsCovered DEF Covered
<1>2. CASE ~IsWoken(w)
  <2>1. Running(w)
    BY <1>2, StartsWoken
  <2>2. EventsKept(w) /\ Covered(w) /\ RunsOwnTheirCalls
    BY <1>2, <2>1, EventsStep DEF WakeupInv, EventsAreCovered, Covered
  <2>3. CASE wruns' = wruns
    BY <2>1, <2>2, <2>3, RunsApartStayCovered
  <2>4. CASE \E r \in WorkflowRunners, t \in TaskIDs :
               PollWorkflowTask(r, t) \/ PollWorkflowTaskAgain(r, t)
    BY <2>2, <2>4, PollStaysCovered DEF PollWorkflowTask, PollWorkflowTaskAgain
  <2>5. CASE \E r \in WorkflowRunners : WorkflowRunnerStep(r) \/ WorkflowRunnerHarmed(r)
    BY <2>1, <2>2, <2>5, WorkflowRunnerStaysCovered
  <2>6. CASE \E r \in ActivityRunners : ActivityRunnerStep(r) \/ ActivityRunnerHarmed(r)
    BY <2>3, <2>6, ActivityRunEnds
  <2>7. CASE \E r \in ActivityRunners, k \in ActivityKeys :
               PollActivity(r, k) \/ PollActivityAgain(r, k)
    BY <2>3, <2>7, ActivityIsClaimed
  <2>8. QED
    BY <2>3, <2>4, <2>5, <2>6, <2>7
       DEF Next, EnqueueWorkflow, SendSignal, CleanColdWorkflows, CleanDeadWorkflows, vars
<1>3. QED
  BY <1>1, <1>2

-----------------------------------------------------------------------------
(* The runs own their calls *)

LEMMA OwnersStay ==
  ASSUME IInv, [Next]_vars, NEW w \in WorkflowIDs, NEW k \in ActivityKeys,
         OwnsActivity(w, k), Exists(w)'
  PROVE  OwnsActivity(w, k)'
<1>1. activities[k].status # "none" /\ activities[k].wf = w
  BY DEF OwnsActivity
<1>2. CASE QuietStep
  BY <1>1, <1>2 DEF QuietStep, RowsAreQuiet, IsInserted, IsDeleted, OwnsActivity, Exists
<1>3. CASE \E r \in ActivityRunners, j \in ActivityKeys :
             PollActivity(r, j) \/ PollActivityAgain(r, j)
  <2>1. PICK r \in ActivityRunners, j \in ActivityKeys :
               PollActivity(r, j) \/ PollActivityAgain(r, j)
    BY <1>3
  <2>2. /\ activities'[j].status = "running" /\ activities'[j].wf = activities[j].wf
        /\ k # j => activities'[k] = activities[k]
    BY <2>1, ActivityIsClaimed
  <2>3. QED
    BY <1>1, <2>2 DEF OwnsActivity
<1>4. CASE \E r \in ActivityRunners : ActivityRunnerStep(r) \/ ActivityRunnerHarmed(r)
  <2>1. PICK r \in ActivityRunners : ActivityRunnerStep(r) \/ ActivityRunnerHarmed(r)
    BY <1>4
  <2> DEFINE j == aruns[r].key
             v == aruns[r].wf
  <2>2. /\ j \in ActivityKeys
        /\ \/ UNCHANGED storageVars
           \/ OwnsActivity(v, j) /\ \E row : LeavesRow(r, j, v, row)
    BY <2>1, ActivityRunEnds
  <2>3. QED
    BY <1>1, <2>2 DEF storageVars, LeavesRow, OwnsActivity, IInv, TypeOK, StorageTypeOK
<1>5. QED
  BY <1>2, <1>3, <1>4, QuietSteps

OwnsCalls(run) ==
  /\ workflows[run.wf].status # "none"
  /\ run.phase = "load" => run.next = 1
  /\ run.phase = "exec" => run.to_load = {}
  /\ run.phase \in {"returned", "broken"} => ~Running(run.wf)
  /\ Exists(run.wf) =>
       /\ \A a \in Activities : run.hist[a] # None => IsRequested(run.wf, a)
       /\ \A n \in 1..Len(Program(run).calls) :
            n < run.next => IsRequested(run.wf, Program(run).calls[n])

\* What a run has requested stays requested while its workflow is there.
LEMMA RequestsStay ==
  ASSUME IInv, [Next]_vars, NEW w \in WorkflowIDs, workflows[w].status # "none", Exists(w)'
  PROVE  Exists(w) /\ \A a \in Activities : IsRequested(w, a) => IsRequested(w, a)'
<1>1. Exists(w)
  BY StatusesStayNext DEF StatusesStay
<1>2. ASSUME NEW a \in Activities, IsRequested(w, a) PROVE IsRequested(w, a)'
  <2>1. ActivityKey[<<w, a>>] \in ActivityKeys
    BY StorageAssumption
  <2>2. QED
    BY <1>2, <2>1, OwnersStay DEF IsRequested
<1>3. QED
  BY <1>1, <1>2

LEMMA CallsAreActivities ==
  ASSUME NEW run \in WorkflowRun
  PROVE  /\ Len(Program(run).calls) \in Nat
         /\ \A n \in 1..Len(Program(run).calls) : Program(run).calls[n] \in Activities
<1> DEFINE calls == Program(run).calls
<1>1. calls \in Seq(Activities)
  BY ProgramType
<1> HIDE DEF calls
<1>2. QED
  BY <1>1 DEF calls

LEMMA OwnsCallsStays ==
  ASSUME IInv, [Next]_vars, NEW run \in WorkflowRun, run.wf \in WorkflowIDs, OwnsCalls(run)
  PROVE  OwnsCalls(run)'
<1> DEFINE w == run.wf
<1>1. workflows'[w].status # "none" /\ (~Running(w) => ~Running(w)')
  BY StatusesStayNext DEF OwnsCalls, StatusesStay
<1>2. ASSUME Exists(w)'
      PROVE  /\ \A a \in Activities : run.hist[a] # None => IsRequested(w, a)'
             /\ \A n \in 1..Len(Program(run).calls) :
                  n < run.next => IsRequested(w, Program(run).calls[n])'
  <2>1. Exists(w) /\ \A a \in Activities : IsRequested(w, a) => IsRequested(w, a)'
    BY <1>2, RequestsStay DEF OwnsCalls
  <2>2. QED
    BY <2>1, CallsAreActivities DEF OwnsCalls
<1>3. QED
  BY <1>1, <1>2 DEF OwnsCalls, Program

\* What a replay that goes on has become.
LEMMA MovedRunOwnsCalls ==
  ASSUME IInv, RunsOwnTheirCalls, [Next]_vars, KeysAreNamespaced, EntriesMatch,
         NEW r \in WorkflowRunners,
         LoadHistory(r) \/ LoadSignals(r) \/ ScheduleActivity(r)
  PROVE  OwnsCalls(wruns[r])'
<1>1. PICK old \in WorkflowRun : old = wruns[r]
  BY DEF IInv, TypeOK, WorkflowWorkerTypeOK
<1> DEFINE w == old.wf
<1>2. old.phase \in {"load", "exec"} /\ w \in WorkflowIDs /\ OwnsCalls(old)
  <2>1. old.phase \in {"load", "exec"}
    BY <1>1 DEF LoadHistory, LoadSignals, ScheduleActivity
  <2>2. QED
    BY <1>1, <2>1 DEF IInv, TypeOK, WorkflowWorkerTypeOK, RunsOwnTheirCalls, OwnsCalls
<1>3. OwnsCalls(old)'
  BY <1>2, OwnsCallsStays
<1>4. wruns \in [WorkflowRunners -> WorkflowRun]
  BY DEF IInv, TypeOK, WorkflowWorkerTypeOK
<1>5. CASE LoadHistory(r)
  <2> DEFINE run == [Loaded(old, "history") EXCEPT !.hist = ListHistoryEventsForWorkflow(w)]
  <2>1. wruns'[r] = run /\ UNCHANGED storageVars /\ old.phase = "load"
    BY <1>1, <1>4, <1>5 DEF LoadHistory
  <2>2. /\ run.wf = w /\ run.next = old.next
        /\ run.hist = ListHistoryEventsForWorkflow(w)
        /\ run.phase \in {"load", "exec"}
        /\ run.phase = "exec" => run.to_load = {}
    BY DEF Loaded, WorkflowRun
  <2> HIDE DEF run
  <2>3. run.next = 1
    BY <1>2, <2>1, <2>2 DEF OwnsCalls
  <2>4. \A a \in Activities : run.hist[a] # None => IsRequested(w, a)'
    BY <2>1, <2>2 DEF ListHistoryEventsForWorkflow, IsRequested, OwnsActivity, storageVars
  <2>5. QED
    BY <1>3, <2>1, <2>2, <2>3, <2>4 DEF OwnsCalls
<1>6. CASE LoadSignals(r)
  <2> DEFINE run == [Loaded(old, "signals") EXCEPT !.sigs = ListWorkflowSignals(w)]
  <2>1. wruns'[r] = run /\ old.phase = "load"
    BY <1>1, <1>4, <1>6 DEF LoadSignals
  <2>2. /\ run.wf = w /\ run.next = old.next /\ run.hist = old.hist
        /\ run.phase \in {"load", "exec"}
        /\ run.phase = "exec" => run.to_load = {}
    BY DEF Loaded, WorkflowRun
  <2> HIDE DEF run
  <2>3. run.next = 1
    BY <1>2, <2>1, <2>2 DEF OwnsCalls
  <2>4. QED
    BY <1>3, <2>1, <2>2, <2>3 DEF OwnsCalls
<1>7. CASE ScheduleActivity(r)
  <2> DEFINE calls == Program(old).calls
  <2>1. PICK n \in Unscheduled(old) :
          LET k == ActivityKey[<<w, calls[n]>>]
          IN /\ \A m \in Unscheduled(old) : n <= m
             /\ ~InsertActivityFails(w, k)
             /\ InsertActivity(w, k, calls[n])
             /\ wruns' = [wruns EXCEPT ![r] = [old EXCEPT !.next = n + 1]]
    BY <1>1, <1>7 DEF ScheduleActivity
  <2> DEFINE run == [old EXCEPT !.next = n + 1]
             k == ActivityKey[<<w, calls[n]>>]
  <2>2. /\ wruns'[r] = run /\ old.phase = "exec"
        /\ UNCHANGED workflows
    BY <1>1, <1>4, <1>7, <2>1 DEF ScheduleActivity
  <2>3. /\ run.wf = w /\ run.next = n + 1 /\ run.hist = old.hist /\ run.sigs = old.sigs
        /\ run.phase = "exec" /\ run.to_load = old.to_load
    BY <2>2 DEF WorkflowRun
  <2>4. Program(run) = Program(old)
    BY <2>3 DEF Program
  <2> HIDE DEF run
  <2>5. old.next \in Nat /\ Len(calls) \in Nat
        /\ \A m \in 1..Len(calls) : calls[m] \in Activities
    BY CallsAreActivities DEF WorkflowRun
  <2>6. n \in Nat /\ n \in old.next .. Len(calls) /\ n \in 1..Len(calls)
    BY <2>5 DEF Unscheduled, WorkflowRun
  <2>7. IsRequested(w, calls[n])'
    <3>1. k \in ActivityKeys /\ calls[n] \in Activities
      BY <1>2, <2>5, <2>6, StorageAssumption
    <3>2. CASE activities[k].status = "none"
      <4> DEFINE row == [NoActivityRow EXCEPT !.status = "pending", !.wf = w, !.call = calls[n]]
      <4>1. activities' = [activities EXCEPT ![k] = row]
        BY <2>1, <3>2 DEF InsertActivity
      <4>2. row.status = "pending" /\ row.wf = w
        BY DEF NoActivityRow
      <4> HIDE DEF row
      <4>3. activities'[k] = row
        BY <3>1, <4>1 DEF IInv, TypeOK, StorageTypeOK
      <4>4. QED
        BY <4>2, <4>3 DEF IsRequested, OwnsActivity
    <3>3. CASE activities[k].status # "none"
      <4>1. activities' = activities
        BY <2>1, <3>3 DEF InsertActivity
      <4>2. EntryMatches(activities[k], k)
        BY <3>1, <3>3 DEF EntriesMatch
      <4>3. activities[k].wf = w
        BY <1>2, <3>1, <4>2 DEF EntryMatches, KeysAreNamespaced
      <4>4. QED
        BY <3>3, <4>1, <4>3 DEF IsRequested, OwnsActivity
    <3>4. QED
      BY <3>2, <3>3
  <2>8. ASSUME NEW m \in 1..Len(calls), m < n + 1, Exists(w)'
        PROVE  IsRequested(w, calls[m])'
    <3>1. CASE m < old.next
      BY <1>3, <2>8, <3>1 DEF OwnsCalls, Program
    <3>2. CASE m = n
      BY <2>7, <3>2
    <3>3. CASE ~(m < old.next) /\ m # n
      <4>1. m \in old.next .. Len(calls) /\ ~(n <= m)
        BY <2>5, <2>6, <2>8, <3>3
      <4>2. m \notin Unscheduled(old)
        BY <2>1, <4>1
      <4>3. old.hist[calls[m]] # None
        BY <4>1, <4>2 DEF Unscheduled
      <4>4. QED
        BY <1>3, <2>5, <2>8, <4>3 DEF OwnsCalls
    <3>4. QED
      BY <3>1, <3>2, <3>3
  <2>9. QED
    BY <1>3, <2>2, <2>3, <2>4, <2>8 DEF OwnsCalls, Program
<1>8. QED
  BY <1>5, <1>6, <1>7

\* Whether a run goes on as it was or only the runs of others moved.
LEMMA WorkflowRunMoves ==
  ASSUME IInv, [Next]_vars, NEW r \in WorkflowRunners
  PROVE  \/ wruns'[r] = wruns[r] \/ wruns'[r] = IdleRun
         \/ LoadHistory(r) \/ LoadSignals(r) \/ ScheduleActivity(r)
         \/ \E phase : CompletesWorkflow(r, phase)
         \/ \E t \in TaskIDs : ClaimTask(r, t)
<1> USE DEF IInv, TypeOK, WorkflowWorkerTypeOK
<1>1. CASE \E q \in WorkflowRunners, t \in TaskIDs :
             PollWorkflowTask(q, t) \/ PollWorkflowTaskAgain(q, t)
  BY <1>1 DEF PollWorkflowTask, PollWorkflowTaskAgain, ClaimTask
<1>2. CASE \E q \in WorkflowRunners : WorkflowRunnerStep(q) \/ WorkflowRunnerHarmed(q)
  <2>1. PICK q \in WorkflowRunners : WorkflowRunnerStep(q) \/ WorkflowRunnerHarmed(q)
    BY <1>2
  <2>2. \/ LoadHistory(q) \/ LoadSignals(q) \/ ScheduleActivity(q)
        \/ \E phase : CompletesWorkflow(q, phase)
        \/ EndRun(q)
    BY <2>1 DEF WorkflowRunnerStep, WorkflowRunnerHarmed, RunStep, HandlerReturns,
       CompletionReplyLost, CompleteTask, HandlerFails, TaskError, RunLost
  <2>3. CASE r = q
    BY <2>2, <2>3 DEF EndRun
  <2>4. CASE r # q
    BY <2>2, <2>4 DEF EndRun, LoadHistory, LoadSignals, ScheduleActivity, CompletesWorkflow
  <2>5. QED
    BY <2>3, <2>4
<1>3. CASE UNCHANGED wruns
  BY <1>3
<1>4. CASE \E q \in ActivityRunners : ActivityRunnerStep(q) \/ ActivityRunnerHarmed(q)
  BY <1>3, <1>4, ActivityRunEnds
<1>5. CASE \E q \in ActivityRunners, k \in ActivityKeys :
             PollActivity(q, k) \/ PollActivityAgain(q, k)
  BY <1>3, <1>5, ActivityIsClaimed
<1>6. QED
  BY <1>1, <1>2, <1>3, <1>4, <1>5
     DEF Next, EnqueueWorkflow, SendSignal, CleanColdWorkflows, CleanDeadWorkflows, vars

LEMMA RunsOwnTheirCallsNext ==
  ASSUME IInv, RunsOwnTheirCalls, KeysAreNamespaced, EntriesMatch, [Next]_vars
  PROVE  RunsOwnTheirCalls'
<1> SUFFICES ASSUME NEW r \in WorkflowRunners, wruns'[r].phase # "idle"
             PROVE  OwnsCalls(wruns[r])'
  BY DEF RunsOwnTheirCalls, OwnsCalls
<1> USE DEF IInv, TypeOK, WorkflowWorkerTypeOK
<1>1. CASE wruns'[r] = wruns[r]
  <2>1. PICK run \in WorkflowRun : run = wruns[r]
    OBVIOUS
  <2>2. OwnsCalls(run) /\ run.wf \in WorkflowIDs
    BY <1>1, <2>1 DEF RunsOwnTheirCalls, OwnsCalls
  <2>3. OwnsCalls(run)'
    BY <2>2, OwnsCallsStays
  <2>4. run = wruns'[r]
    BY <1>1, <2>1
  <2>5. QED
    BY <2>3, <2>4
<1>2. CASE wruns'[r] = IdleRun
  BY <1>2 DEF IdleRun
<1>3. CASE LoadHistory(r) \/ LoadSignals(r) \/ ScheduleActivity(r)
  BY <1>3, MovedRunOwnsCalls
<1>4. CASE \E phase : CompletesWorkflow(r, phase)
  <2>1. PICK phase : CompletesWorkflow(r, phase)
    BY <1>4
  <2>2. ~Running(wruns[r].wf)' /\ StatusesStay
    BY <2>1, CompletesWorkflowStays
  <2> DEFINE run == Ended(wruns[r], phase)
  <2>3. /\ run.wf = wruns[r].wf /\ run.next = 1 /\ run.hist = NoHistory /\ run.to_load = {}
        /\ wruns' = [wruns EXCEPT ![r] = run]
        /\ wruns[r].phase # "idle" /\ Exists(wruns[r].wf)
    BY <2>1 DEF CompletesWorkflow, HandlerEnds, Ended
  <2> HIDE DEF run
  <2>4. wruns'[r] = run
    BY <2>3
  <2>5. workflows'[wruns[r].wf].status # "none"
    BY <2>2, <2>3 DEF StatusesStay, Exists
  <2>6. QED
    BY <2>2, <2>3, <2>4, <2>5 DEF OwnsCalls, NoHistory, Running
<1>5. CASE \E t \in TaskIDs : ClaimTask(r, t)
  <2>1. PICK t \in TaskIDs : ClaimTask(r, t)
    BY <1>5
  <2>2. /\ wruns'[r] = NewRun(t) /\ workflows' = workflows
        /\ tasks[t].wf \in WorkflowIDs /\ Exists(tasks[t].wf)
    BY <2>1 DEF ClaimTask, ForeignKeys
  <2>3. /\ NewRun(t).wf = tasks[t].wf /\ NewRun(t).next = 1 /\ NewRun(t).hist = NoHistory
        /\ NewRun(t).phase = "load"
    BY DEF NewRun
  <2>4. workflows'[tasks[t].wf].status # "none"
    BY <2>2 DEF Exists
  <2>5. QED
    BY <2>2, <2>3, <2>4 DEF OwnsCalls, NoHistory
<1>6. QED
  BY <1>1, <1>2, <1>3, <1>4, <1>5, WorkflowRunMoves

-----------------------------------------------------------------------------
(* No wakeup is lost *)

\* A workflow at rest waits for what it asked for.
LEMMA AtRestWaits ==
  ASSUME IInv, ResultsAreStored, RunsMayOverlap => HandlerIsMonotone,
         NEW w \in WorkflowIDs, Running(w), AtRest(w),
         NEW now, now = CurrentView(w)
  PROVE  /\ Handler[now].outcome = "suspend"
         /\ \A n \in 1..Len(Handler[now].calls) :
              LET a == Handler[now].calls[n]
                  k == ActivityKey[w, a]
              IN now.hist[a] = None =>
                   OwnsActivity(w, k) /\ activities[k].status \in {"pending", "running"}
<1> DEFINE H == ListHistoryEventsForWorkflow(w)
<1>1. now \in Views /\ now.hist = H /\ now.sigs = ListWorkflowSignals(w)
  BY ReadsType DEF CurrentView, Views, IInv, TypeOK
<1>2. PICK view \in Views :
        /\ IsSeen(H, view.hist)
        /\ ListWorkflowSignals(w) = view.sigs
        /\ Handler[view].outcome = "suspend"
        /\ \A n \in 1..Len(Handler[view].calls) : IsRequested(w, Handler[view].calls[n])
  BY DEF AtRest
<1> HIDE DEF H
<1>3. /\ Handler[now].outcome = "suspend"
      /\ \A n \in 1..Len(Handler[now].calls) : IsRequested(w, Handler[now].calls[n])
  <2>1. CASE RunsMayOverlap
    <3>1. \A a \in Activities : now.hist[a] \in {view.hist[a], None}
      BY <1>1, <1>2 DEF IsSeen
    <3>2. /\ Handler[view].outcome = "suspend" => Handler[now].outcome = "suspend"
          /\ \A n \in 1..Len(Handler[now].calls) : \E m \in 1..Len(Handler[view].calls) :
               Handler[now].calls[n] = Handler[view].calls[m]
      <4>1. now \in Views /\ view \in Views /\ now.sigs = view.sigs
        BY <1>1, <1>2
      <4>2. HandlerIsMonotone
        BY <2>1
      <4>3. QED
        BY <3>1, <4>1, <4>2, Zenon DEF HandlerIsMonotone
    <3>3. QED
      BY <1>2, <3>2
  <2>2. CASE ~RunsMayOverlap
    <3>1. now = view
      <4>1. \A a \in Activities : now.hist[a] = view.hist[a]
        BY <1>1, <1>2, <2>2 DEF IsSeen
      <4>2. now.hist = view.hist
        BY <1>1, <4>1 DEF Views, Histories
      <4>3. QED
        BY <1>1, <1>2, <4>2 DEF Views
    <3>2. QED
      BY <1>2, <3>1
  <2>3. QED
    BY <2>1, <2>2
<1>4. ASSUME NEW n \in 1..Len(Handler[now].calls), NEW a, a = Handler[now].calls[n],
             now.hist[a] = None
      PROVE  /\ OwnsActivity(w, ActivityKey[<<w, a>>])
             /\ activities[ActivityKey[<<w, a>>]].status \in {"pending", "running"}
  <2> DEFINE k == ActivityKey[<<w, a>>]
  <2>1. a \in Activities
    <3> DEFINE calls == Handler[now].calls
    <3>1. calls \in Seq(Activities)
      BY <1>1, WorkflowWorkerAssumption
    <3> HIDE DEF calls
    <3>2. QED
      BY <1>4, <3>1 DEF calls
  <2>2. k \in ActivityKeys
    BY <2>1, StorageAssumption
  <2>3. OwnsActivity(w, k)
    BY <1>3, <1>4 DEF IsRequested
  <2>4. activities[k].status # "completed"
    <3>1. H[a] = IF OwnsActivity(w, k) /\ activities[k].status = "completed"
                 THEN activities[k].output ELSE None
      BY <2>1 DEF H, ListHistoryEventsForWorkflow
    <3>2. QED
      BY <1>1, <1>4, <2>2, <2>3, <3>1 DEF ResultsAreStored
  <2>5. activities[k].status # "failed"
    BY <2>2, <2>3 DEF IInv, FailureIsJoint, OwnsActivity
  <2>6. QED
    BY <2>2, <2>3, <2>4, <2>5
       DEF OwnsActivity, IInv, TypeOK, StorageTypeOK, ActivityRow
<1>5. QED
  BY <1>3, <1>4

\* All that the inductive invariant says: of the runs of activities, of the
\* outputs stored, and of what each replay has read and each workflow waits for.
WakeupsAreCovered ==
  RunsFindTheirRow /\ OneRunPerActivity /\ ResultsAreStored /\ WakeupInv

LEMMA WakeupsAreCoveredInvariant ==
  ASSUME KeysAreNamespaced, RunsMayOverlap => HandlerIsMonotone
  PROVE  Spec => []WakeupsAreCovered
<1>1. Init => WakeupsAreCovered
  <2> SUFFICES ASSUME Init PROVE WakeupsAreCovered
    OBVIOUS
  <2>1. /\ \A r \in ActivityRunners : ~aruns[r].busy
        /\ \A r \in WorkflowRunners : wruns[r].phase = "idle"
        /\ \A k \in ActivityKeys : activities[k].status = "none"
        /\ \A w \in WorkflowIDs : ~Running(w)
    BY DEF Init, StorageInit, WorkflowWorkerInit, ActivityWorkerInit, IdleActivity, IdleRun,
           NoActivityRow, Running
  <2>2. QED
    BY <2>1 DEF WakeupsAreCovered, RunsFindTheirRow, OneRunPerActivity, RunsOf,
                ResultsAreStored, WakeupInv, RunsOwnTheirCalls, EventsAreCovered
<1>2. IInv /\ EntriesMatch /\ WakeupsAreCovered /\ [Next]_vars => WakeupsAreCovered'
  <2> SUFFICES ASSUME IInv, EntriesMatch, WakeupsAreCovered, [Next]_vars PROVE WakeupsAreCovered'
    OBVIOUS
  <2> USE DEF WakeupsAreCovered
  <2>1. OneRunPerActivity'
    <3>1. CASE RunsMayOverlap
      BY <3>1 DEF OneRunPerActivity
    <3>2. QED
      BY <3>1, OneRunPerActivityNext
  <2>2. WakeupInv'
    <3>1. RunsOwnTheirCalls'
      BY RunsOwnTheirCallsNext DEF WakeupInv
    <3>2. QED
      BY <3>1, EventsAreCoveredNext DEF WakeupInv
  <2>3. QED
    BY <2>1, <2>2, RunsFindTheirRowNext, ResultsAreStoredNext
<1>3. QED
  BY <1>1, <1>2, Invariance, EntriesMatchInvariant, PTL DEF Spec

\* Whenever a workflow runs, either a replay suspended over all the events there
\* are, or one of its open tasks will have its handler see them all: no run of that
\* task has read less than there is now.
THEOREM WakeupInvariant ==
  ASSUME KeysAreNamespaced, RunsMayOverlap => HandlerIsMonotone
  PROVE  Spec => []WakeupInv
<1>1. WakeupsAreCovered => WakeupInv
  BY DEF WakeupsAreCovered
<1>2. QED
  BY <1>1, WakeupsAreCoveredInvariant, PTL

\* A running workflow with no task left to wake it waits for events to come, which
\* is so with any number of workers, retries, crashes and lost writes: every event
\* is stored together with a task, every run of that task reads the events after
\* its claim, and the run that ends the task has seen them all.  The keys of a
\* workflow's activities are taken to be in a namespace of its own; where claims
\* may overlap, an activity that completed may have to complete again, and the
\* handler then must not do more, or return, for want of an event.
THEOREM NoWakeupIsLost ==
  ASSUME KeysAreNamespaced, RunsMayOverlap => HandlerIsMonotone
  PROVE  Spec => []NoLostWakeup
<1>1. IInv /\ WakeupsAreCovered => NoLostWakeup
  <2> SUFFICES ASSUME IInv, WakeupsAreCovered, NEW w \in WorkflowIDs, Running(w), OpenTasks(w) = {}
               PROVE  LET view == CurrentView(w)
                          program == Handler[view]
                      IN /\ program.outcome = "suspend"
                         /\ \A n \in 1..Len(program.calls) :
                              LET a == program.calls[n]
                                  k == ActivityKey[w, a]
                              IN view.hist[a] = None =>
                                   /\ OwnsActivity(w, k)
                                   /\ activities[k].status \in {"pending", "running"}
    BY DEF NoLostWakeup
  <2>1. AtRest(w)
    BY DEF WakeupsAreCovered, WakeupInv, EventsAreCovered, WillWake
  <2>2. QED
    BY <2>1, AtRestWaits DEF WakeupsAreCovered, WakeupInv
<1>2. QED
  BY <1>1, WakeupsAreCoveredInvariant, Invariance, PTL
=============================================================================
