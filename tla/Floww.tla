--------------------------------- MODULE Floww ---------------------------------
(*****************************************************************************)
(* The engine: clients that enqueue workflows and send signals, workflow and *)
(* activity workers on any number of processes, and the cleaners, all over   *)
(* one Postgres database.                                                    *)
(*                                                                           *)
(* The environment may do harm MaxFaults times: it kills a run or loses the  *)
(* write of its result, loses the reply of a write that took effect, or has  *)
(* a row claimed that should not be: one that still has a run, because that  *)
(* run outlives its stuck timeout, or one that ended after a fetch picked it  *)
(* (FetchBatch).  Here the claim of a row is one atomic step.                *)
(*****************************************************************************)
EXTENDS WorkflowWorker, ActivityWorker

CONSTANTS
  Retention,        \* whether the cleaners have a retention interval
  RunsMayOverlap,   \* whether such claims are among the faults
  MaxFaults         \* bound on the faults of the environment

ASSUME FlowwAssumption ==
  Retention \in BOOLEAN /\ RunsMayOverlap \in BOOLEAN /\ MaxFaults \in Nat

VARIABLES
  replies,          \* what the last SendSignal of each signal returned
  faults            \* faults so far

vars == <<workflows, tasks, activities, signals, wruns, aruns, replies, faults>>

TypeOK ==
  /\ StorageTypeOK
  /\ WorkflowWorkerTypeOK
  /\ ActivityWorkerTypeOK
  /\ replies \in [WorkflowIDs -> [Signals -> {"none", "ok", "error"}]]
  /\ faults \in 0..MaxFaults

Init ==
  /\ StorageInit
  /\ WorkflowWorkerInit
  /\ ActivityWorkerInit
  /\ replies = [w \in WorkflowIDs |-> [s \in Signals |-> "none"]]
  /\ faults = 0

-----------------------------------------------------------------------------
(* Clients *)

EnqueueWorkflow(w, key) ==
  /\ InsertWorkflow(w, key)
  /\ UNCHANGED <<wruns, aruns, replies, faults>>

\* Mutant: the task is inserted before the signal and in no transaction with it.
SendSignalTaskFirst(w, s, input) ==
  /\ workflows[w].status # "none"
  /\ IF InsertSignalFails(w, s)
     THEN /\ insertWorkflowTask(w, Exists(w))
          /\ UNCHANGED <<workflows, activities, signals>>
          /\ replies' = [replies EXCEPT ![w][s] = "error"]
     ELSE /\ InsertSignal(w, s, input)
          /\ replies' = [replies EXCEPT ![w][s] = "ok"]
  /\ UNCHANGED <<wruns, aruns, faults>>

\* A client knows the ids that EnqueueWorkflow returned.
SendSignal(w, s, input) ==
  /\ workflows[w].status # "none"
  /\ IF InsertSignalFails(w, s)
     THEN /\ UNCHANGED storageVars
          /\ replies' = [replies EXCEPT ![w][s] = "error"]
     ELSE /\ InsertSignal(w, s, input)
          /\ replies' = [replies EXCEPT ![w][s] = "ok"]
  /\ UNCHANGED <<wruns, aruns, faults>>

-----------------------------------------------------------------------------
(* Workers *)

\* The environment does harm, and may not do so for ever.
Harm == faults < MaxFaults /\ faults' = faults + 1

\* A claim comes too early or too late for a row of this status.
Overlaps(status, runs) ==
  status \in {"completed", "failed"} \/ (status = "running" /\ runs # {})

PollWorkflowTask(r, t) ==
  /\ ~Overlaps(tasks[t].status, TaskRunsOf(t))
  /\ ClaimTask(r, t)
  /\ UNCHANGED <<aruns, replies, faults>>

PollWorkflowTaskAgain(r, t) ==
  /\ RunsMayOverlap
  /\ Overlaps(tasks[t].status, TaskRunsOf(t))
  /\ ClaimTask(r, t)
  /\ Harm
  /\ UNCHANGED <<aruns, replies>>

PollActivity(r, k) ==
  /\ ~Overlaps(activities[k].status, RunsOf(k))
  /\ ClaimActivity(r, k)
  /\ UNCHANGED <<wruns, replies, faults>>

PollActivityAgain(r, k) ==
  /\ RunsMayOverlap
  /\ Overlaps(activities[k].status, RunsOf(k))
  /\ ClaimActivity(r, k)
  /\ Harm
  /\ UNCHANGED <<wruns, replies>>

WorkflowRunnerStep(r) == RunStep(r) /\ UNCHANGED <<aruns, replies, faults>>

ActivityRunnerStep(r) == ActivityRunStep(r) /\ UNCHANGED <<wruns, replies, faults>>

WorkflowRunnerHarmed(r) ==
  /\ RunLost(r) \/ CompletionReplyLost(r)
  /\ Harm
  /\ UNCHANGED <<aruns, replies>>

ActivityRunnerHarmed(r) ==
  /\ ActivityRunLost(r)
  /\ Harm
  /\ UNCHANGED <<wruns, replies>>

-----------------------------------------------------------------------------
(* Cleaners.  A batch of the DELETE is any number of such steps: the rows are *)
(* independent and a workflow of any age may be over the cutoff, for the      *)
(* cutoff is on created_at.                                                   *)

CleanColdWorkflows(w) ==
  /\ Retention
  /\ deleteWorkflow(w, "completed")
  /\ UNCHANGED <<wruns, aruns, replies, faults>>

CleanDeadWorkflows(w) ==
  /\ Retention
  /\ deleteWorkflow(w, "failed")
  /\ UNCHANGED <<wruns, aruns, replies, faults>>

-----------------------------------------------------------------------------
Next ==
  \/ \E w \in WorkflowIDs, key \in RequestKeys : EnqueueWorkflow(w, key)
  \/ \E w \in WorkflowIDs, s \in Signals, input \in Inputs : SendSignal(w, s, input)
  \/ \E r \in WorkflowRunners, t \in TaskIDs :
       PollWorkflowTask(r, t) \/ PollWorkflowTaskAgain(r, t)
  \/ \E r \in WorkflowRunners : WorkflowRunnerStep(r) \/ WorkflowRunnerHarmed(r)
  \/ \E r \in ActivityRunners, k \in ActivityKeys :
       PollActivity(r, k) \/ PollActivityAgain(r, k)
  \/ \E r \in ActivityRunners : ActivityRunnerStep(r) \/ ActivityRunnerHarmed(r)
  \/ \E w \in WorkflowIDs : CleanColdWorkflows(w) \/ CleanDeadWorkflows(w)

Spec == Init /\ [][Next]_vars

\* The workers go on polling and running what they claimed; a row that is
\* pending or whose run is gone is claimed in the end.
Fairness ==
  /\ \A t \in TaskIDs : WF_vars(\E r \in WorkflowRunners : PollWorkflowTask(r, t))
  /\ \A k \in ActivityKeys : WF_vars(\E r \in ActivityRunners : PollActivity(r, k))
  /\ \A r \in WorkflowRunners : WF_vars(WorkflowRunnerStep(r))
  /\ \A r \in ActivityRunners : WF_vars(ActivityRunnerStep(r))

FairSpec == Spec /\ Fairness
=============================================================================
