----------------------------- MODULE ActivityWorker -----------------------------
(*****************************************************************************)
(* The activity worker (activity_worker.go): goroutines that claim a row of  *)
(* floww_activities, run its handler and write the result back.              *)
(*                                                                           *)
(* A runner is a goroutine slot of some worker process; all processes share  *)
(* the table.  The handler's work is outside the storage, so a run is its    *)
(* claim followed, any time later, by one of its results.                    *)
(*****************************************************************************)
EXTENDS FlowwStorage

CONSTANTS
  ActivityRunners,     \* goroutine slots of all activity workers
  ActivityMaxAttempts  \* WithActivityMaxAttempts

ASSUME ActivityWorkerAssumption ==
  /\ IsFiniteSet(ActivityRunners)
  /\ ActivityMaxAttempts \in Nat

VARIABLE
  aruns             \* the activity each runner is running

\* The fields of the claimed ActivityRecord that the worker uses later.
IdleActivity == [busy |-> FALSE, key |-> None, wf |-> None, attempts |-> 0]

ActivityRun ==
  [busy: BOOLEAN, key: ActivityKeys \cup {None},
   wf: WorkflowIDs \cup {None}, attempts: Nat]

ActivityWorkerTypeOK ==
  /\ aruns \in [ActivityRunners -> ActivityRun]
  /\ \A r \in ActivityRunners : aruns[r].busy =>
       aruns[r].key \in ActivityKeys /\ aruns[r].wf \in WorkflowIDs

ActivityWorkerInit == aruns = [r \in ActivityRunners |-> IdleActivity]

\* The runs of the row with key k that are still under way.
RunsOf(k) ==
  {r \in ActivityRunners :
     aruns[r].busy /\ aruns[r].key = k /\ OwnsActivity(aruns[r].wf, k)}

EndActivityRun(r) == aruns' = [aruns EXCEPT ![r] = IdleActivity]

\* Mutant: a key is claimed that has no row.
ClaimAnyActivity(r, k) ==
  /\ ~aruns[r].busy
  /\ activities' = [activities EXCEPT ![k] =
       [@ EXCEPT !.status = "running", !.attempts = activities[k].attempts + 1]]
  /\ aruns' = [aruns EXCEPT ![r] =
       [busy |-> TRUE, key |-> k, wf |-> activities[k].wf,
        attempts |-> activities[k].attempts + 1]]
  /\ UNCHANGED <<workflows, tasks, signals>>

\* ListActiveActivities: a row that was pending and due, or running and stuck,
\* when the statement took its snapshot becomes running and counts one more
\* attempt, whatever its status has become since.
ClaimActivity(r, k) ==
  /\ ~aruns[r].busy
  /\ activities[k].status # "none"
  /\ activities' = [activities EXCEPT ![k] =
       [@ EXCEPT !.status = "running", !.attempts = activities[k].attempts + 1]]
  /\ aruns' = [aruns EXCEPT ![r] =
       [busy |-> TRUE, key |-> k, wf |-> activities[k].wf,
        attempts |-> activities[k].attempts + 1]]
  /\ UNCHANGED <<workflows, tasks, signals>>

\* Mutant: one attempt too many.
ActivityErrorAfterLimit(r, unrecoverable) ==
  /\ IF unrecoverable \/ aruns[r].attempts > ActivityMaxAttempts
     THEN FailActivity(aruns[r].key, aruns[r].wf)
     ELSE ReScheduleActivity(aruns[r].key, aruns[r].wf)
  /\ EndActivityRun(r)

\* handleActivityError
ActivityError(r, unrecoverable) ==
  /\ IF unrecoverable \/ aruns[r].attempts >= ActivityMaxAttempts
     THEN FailActivity(aruns[r].key, aruns[r].wf)
     ELSE ReScheduleActivity(aruns[r].key, aruns[r].wf)
  /\ EndActivityRun(r)

ActivitySucceeds(r) ==
  /\ aruns[r].busy
  /\ \E output \in Outputs : CompleteActivity(aruns[r].key, aruns[r].wf, output)
  /\ EndActivityRun(r)

\* The handler returns an error, or no handler of that name is registered.
ActivityFails(r) ==
  /\ aruns[r].busy
  /\ \E unrecoverable \in BOOLEAN : ActivityError(r, unrecoverable)

\* The process dies, or the statement that would record the result fails and
\* is only logged: nothing is written.
ActivityRunLost(r) ==
  /\ aruns[r].busy
  /\ EndActivityRun(r)
  /\ UNCHANGED storageVars

ActivityRunStep(r) == ActivitySucceeds(r) \/ ActivityFails(r)
=============================================================================
