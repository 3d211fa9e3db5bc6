------------------------------ MODULE AtomicStorage ------------------------------
(*****************************************************************************)
(* The storage as the engine sees it: each call is one step, which reads and  *)
(* writes the tables at one moment or leaves them as they are.  FlowwStorage  *)
(* has the calls; a batch that is claimed or deleted is one step here.        *)
(*****************************************************************************)
EXTENDS FlowwStorage

\* A call of storage.go: w is the workflow, id the other argument that names
\* a row, a key or a status, value the payload.
CallOf(name, w, id, value) == [name |-> name, w |-> w, id |-> id, value |-> value]

CallsOf(name, w, ids, values) == {CallOf(name, w, id, v) : id \in ids, v \in values}

\* The calls that the engine can make about workflow w, whose row exists.
CallsFor(w) ==
  LET own == {t \in TaskIDs : tasks[t].wf = w}
      runs == {k \in ActivityKeys : activities[k].wf = w}
  IN UNION {
       CallsOf("InsertSignal", w, Signals, Inputs),
       CallsOf("InsertActivity", w, Activities, {None}),
       CallsOf("CompleteWorkflow", w, {None}, {None}),
       CallsOf("CompleteWorkflowTask", w, own, {None}),
       CallsOf("ReScheduleWorkflowTask", w, own, {None}),
       CallsOf("FailWorkflowTask", w, own, {None}),
       CallsOf("CompleteActivity", w, runs, Outputs),
       CallsOf("ReScheduleActivity", w, runs, {None}),
       CallsOf("FailActivity", w, runs, {None})}

BatchCalls ==
  UNION {CallsOf("ClaimTasks", None, {None}, {None}),
         CallsOf("ClaimActivities", None, {None}, {None}),
         CallsOf("DeleteWorkflows", None, {"completed", "failed"}, {None})}

ClaimTasks(T) ==
  /\ \A t \in T : TaskExists(t)
  /\ tasks' = [t \in TaskIDs |->
       IF t \in T THEN [tasks[t] EXCEPT !.status = "running"] ELSE tasks[t]]
  /\ UNCHANGED <<workflows, activities, signals>>

ClaimActivities(K) ==
  /\ \A k \in K : activities[k].status # "none"
  /\ activities' = [k \in ActivityKeys |->
       IF k \in K
       THEN [activities[k] EXCEPT !.status = "running", !.attempts = @ + 1]
       ELSE activities[k]]
  /\ UNCHANGED <<workflows, tasks, signals>>

\* A batch of deleteWorkflow: a status that changes while the batch waits for
\* the row does not save the row.
DeleteWorkflows(W) ==
  /\ \A w \in W : workflows[w].status \in {"completed", "failed"}
  /\ workflows' = [w \in WorkflowIDs |->
       IF w \in W
       THEN [status |-> "deleted", key |-> None, attempts |-> 1, error |-> FALSE]
       ELSE workflows[w]]
  /\ tasks' = [t \in TaskIDs |->
       IF tasks[t].wf \in W THEN [status |-> "deleted", wf |-> None] ELSE tasks[t]]
  /\ activities' = [k \in ActivityKeys |->
       IF activities[k].wf \in W THEN NoActivityRow ELSE activities[k]]
  /\ signals' = [k \in SignalKeys |->
       IF signals[k].wf \in W THEN NoSignalRow ELSE signals[k]]

PerformOnTask(name, t, w) ==
  /\ \/ name = "CompleteWorkflowTask" /\ CompleteWorkflowTask(t, w)
     \/ name = "ReScheduleWorkflowTask" /\ ReScheduleWorkflowTask(t, w)
     \/ name = "FailWorkflowTask" /\ FailWorkflowTask(t, w)
  /\ UNCHANGED <<activities, signals>>

\* What call c does to the tables when it succeeds.
Perform(c) ==
  \/ c.name = "InsertWorkflow" /\ InsertWorkflow(c.w, c.id)
  \/ /\ c.name = "InsertSignal"
     /\ ~InsertSignalFails(c.w, c.id)
     /\ InsertSignal(c.w, c.id, c.value)
  \/ /\ c.name = "InsertActivity"
     /\ ~InsertActivityFails(c.w, ActivityKey[c.w, c.id])
     /\ InsertActivity(c.w, ActivityKey[c.w, c.id], c.id)
     /\ UNCHANGED <<workflows, tasks, signals>>
  \/ /\ c.name = "CompleteWorkflow"
     /\ Exists(c.w)
     /\ CompleteWorkflow(c.w)
     /\ UNCHANGED <<tasks, activities, signals>>
  \/ PerformOnTask(c.name, c.id, c.w)
  \/ c.name = "CompleteActivity" /\ CompleteActivity(c.id, c.w, c.value)
  \/ c.name = "ReScheduleActivity" /\ ReScheduleActivity(c.id, c.w)
  \/ c.name = "FailActivity" /\ FailActivity(c.id, c.w)
  \/ c.name = "ClaimTasks" /\ \E T \in SUBSET TaskIDs : ClaimTasks(T)
  \/ c.name = "ClaimActivities" /\ \E K \in SUBSET ActivityKeys : ClaimActivities(K)
  \/ c.name = "DeleteWorkflows" /\ \E W \in SUBSET WorkflowIDs : DeleteWorkflows(W)
=============================================================================
