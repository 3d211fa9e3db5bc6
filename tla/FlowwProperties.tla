---------------------------- MODULE FlowwProperties ----------------------------
(*****************************************************************************)
(* What the engine promises about workflows, activities and signals.         *)
(*****************************************************************************)
EXTENDS Floww

Larger(m, n) == IF m > n THEN m ELSE n

Running(w) == workflows[w].status = "running"

OpenTasks(w) ==
  {t \in TaskIDs : tasks[t].wf = w /\ tasks[t].status \in {"pending", "running"}}

\* The events of w as a replay that started now would read them.
CurrentView(w) ==
  [hist |-> ListHistoryEventsForWorkflow(w), sigs |-> ListWorkflowSignals(w)]

-----------------------------------------------------------------------------
(* Safety *)

\* A running workflow with no task left to wake it has nothing to wake up for:
\* a replay over all its events would suspend, and every activity that replay
\* would wait for is in the table as an activity of this workflow that has yet
\* to complete.  This is what inserting a task in the transaction of each
\* event, and reading the events after the task is claimed, are for.
NoLostWakeup ==
  \A w \in WorkflowIDs : Running(w) /\ OpenTasks(w) = {} =>
    LET view == CurrentView(w)
        program == Handler[view]
    IN /\ program.outcome = "suspend"
       /\ \A n \in 1..Len(program.calls) :
            LET a == program.calls[n]
                k == ActivityKey[w, a]
            IN view.hist[a] = None =>
                 OwnsActivity(w, k) /\ activities[k].status \in {"pending", "running"}

\* A task or an activity in the dead letter queue has taken its workflow there
\* with it: no workflow runs on after a part of it failed.
FailureIsJoint ==
  /\ \A t \in TaskIDs : tasks[t].status = "failed" => ~Running(tasks[t].wf)
  /\ \A k \in ActivityKeys : activities[k].status = "failed" => ~Running(activities[k].wf)

\* An activity is started at most max_attempts times, once more for each run
\* that is lost or outlives the stuck timeout, however many runs of it are
\* under way at the same time.
ActivityAttemptsBounded ==
  \A k \in ActivityKeys :
    activities[k].attempts <= Larger(1, ActivityMaxAttempts) + faults

\* The attempts of a workflow pass max_attempts only by the replays that were
\* claimed together with the last one: the check is made on the attempts read
\* by the claim, so each runner but one can take a workflow one past the limit.
WorkflowAttemptsBounded ==
  \A w \in WorkflowIDs :
    workflows[w].attempts <=
      Larger(1, WorkflowMaxAttempts + Cardinality(WorkflowRunners) - 1)

TasksOf(w) == {t \in TaskIDs : tasks[t].wf = w}

SignalsOf(w) == {k \in SignalKeys : signals[k].wf = w}

CompletedOf(w) ==
  {k \in ActivityKeys : activities[k].wf = w /\ activities[k].status = "completed"}

\* The runs of activities of w, and all the attempts its activities had.
ActivityRunsOf(w) == {r \in ActivityRunners : aruns[r].busy /\ aruns[r].wf = w}

AttemptsOf(w) ==
  UNION {{k} \X (1..activities[k].attempts) : k \in {k \in ActivityKeys : activities[k].wf = w}}

\* Every task but the first is there because of a signal or of a run of an
\* activity that ended well: no task is scheduled without its event, however the
\* runs overlap, and the runs under way can still pay for one task each.
TaskAccounting ==
  \A w \in WorkflowIDs : Exists(w) =>
    Cardinality(TasksOf(w)) + Cardinality(ActivityRunsOf(w))
      <= 1 + Cardinality(SignalsOf(w)) + Cardinality(AttemptsOf(w))

\* Where no claim overlaps, a workflow has had exactly one task for its start and
\* for each of its events: none is lost, none is doubled by a retry, a crash or a
\* call that rolls back.
OneTaskPerEvent ==
  ~RunsMayOverlap => \A w \in WorkflowIDs : Exists(w) =>
    Cardinality(TasksOf(w)) =
      1 + Cardinality(SignalsOf(w)) + Cardinality(CompletedOf(w))

\* Nothing refers to a workflow that was cleaned away, though runs of its tasks
\* and activities were under way when it was deleted.
NoOrphanRows ==
  \A w \in WorkflowIDs : ~Exists(w) =>
    /\ \A t \in TaskIDs : tasks[t].wf # w
    /\ \A k \in ActivityKeys : activities[k].wf # w
    /\ \A k \in SignalKeys : signals[k].wf # w

\* Submitting a request again gives no second workflow, and a workflow never
\* starts without a task of its own.
OneWorkflowPerRequest ==
  \A u, v \in WorkflowIDs : Exists(u) /\ Exists(v) =>
    /\ workflows[u].key = workflows[v].key => u = v
    /\ \E t \in TaskIDs : tasks[t].wf = u

\* What the table holds for a call is an activity inserted for that call: no
\* call is answered with the output of another one, and none is left out
\* because another one has its key.
EachCallHasItsOwnEntry ==
  \A w \in WorkflowIDs, a \in Activities :
    LET k == ActivityKey[w, a]
    IN OwnsActivity(w, k) => activities[k].call = a

-----------------------------------------------------------------------------
(* The inductive invariant behind TypeOK, FailureIsJoint and NoOrphanRows *)

\* A run holds the id of a task that was inserted, and of the workflow that
\* task belongs to as long as it is there.
RunsMatchTasks ==
  \A r \in WorkflowRunners : wruns[r].phase # "idle" =>
    /\ tasks[wruns[r].task].status # "none"
    /\ TaskExists(wruns[r].task) => tasks[wruns[r].task].wf = wruns[r].wf

IInv == TypeOK /\ ForeignKeys /\ RunsMatchTasks /\ FailureIsJoint

-----------------------------------------------------------------------------
(* The inductive invariant behind the bounds on attempts *)

\* A run under way finds the row it claimed unless its workflow was deleted: the
\* rows of a workflow go with it, and a workflow never comes back.
RunsFindTheirRow ==
  \A r \in ActivityRunners : aruns[r].busy =>
    /\ workflows[aruns[r].wf].status # "none"
    /\ Exists(aruns[r].wf) => OwnsActivity(aruns[r].wf, aruns[r].key)

Smaller(m, n) == IF m < n THEN m ELSE n

\* The runs of the row with key k that schedule it again if they fail.
RetriesOf(k) == {r \in RunsOf(k) : aruns[r].attempts < ActivityMaxAttempts}

\* Each attempt of an activity but one was paid for: by one of the first
\* max_attempts - 1 runs, which ended to have the row claimed again, or by a fault.
\* The one is saved while the row may be claimed without a fault.
AttemptsAreEarned ==
  \A k \in ActivityKeys :
    activities[k].attempts + Cardinality(RetriesOf(k)) <=
      Smaller(activities[k].attempts, Larger(1, ActivityMaxAttempts) - 1) + faults
      + (IF Overlaps(activities[k].status, RunsOf(k)) THEN 1 ELSE 0)

\* The runs that count one more attempt of workflow w if they fail.
ReSchedulesOf(w) ==
  {r \in WorkflowRunners : /\ wruns[r].phase # "idle"
                           /\ wruns[r].wf = w
                           /\ wruns[r].attempts < WorkflowMaxAttempts}

\* The attempts that the runs under way may add are within the bound already.
WorkflowAttemptsAreEarned ==
  \A w \in WorkflowIDs :
    /\ workflows[w].attempts >= 1
    /\ workflows[w].attempts + Cardinality(ReSchedulesOf(w)) <=
         Larger(1, WorkflowMaxAttempts + Cardinality(WorkflowRunners) - 1)

AttemptsInv == RunsFindTheirRow /\ AttemptsAreEarned /\ WorkflowAttemptsAreEarned

-----------------------------------------------------------------------------
(* The inductive invariant behind NoLostWakeup *)

IsRequested(w, a) == OwnsActivity(w, ActivityKey[w, a])

\* A run has read and made calls of its workflow's own activities only, and one
\* whose handler returned has ended its workflow.
RunsOwnTheirCalls ==
  \A r \in WorkflowRunners : wruns[r].phase # "idle" =>
    LET run == wruns[r]
    IN /\ workflows[run.wf].status # "none"
       /\ run.phase = "load" => run.next = 1
       /\ run.phase = "exec" => run.to_load = {}
       /\ run.phase \in {"returned", "broken"} => ~Running(run.wf)
       /\ Exists(run.wf) =>
            /\ \A a \in Activities : run.hist[a] # None => IsRequested(run.wf, a)
            /\ \A n \in 1..Len(Program(run).calls) :
                 n < run.next => IsRequested(run.wf, Program(run).calls[n])

\* hist is what a replay has seen of the history h.  Only a claim of a completed
\* activity takes anything out of the history again.
IsSeen(h, hist) ==
  \A a \in Activities : h[a] = hist[a] \/ (RunsMayOverlap /\ h[a] = None)

UpToDate(r) ==
  LET run == wruns[r]
  IN /\ "history" \notin run.to_load =>
          IsSeen(ListHistoryEventsForWorkflow(run.wf), run.hist)
     /\ "signals" \notin run.to_load => ListWorkflowSignals(run.wf) = run.sigs

\* Task t will have the handler of w see all the events there are.
WillWake(t, w) == t \in OpenTasks(w) /\ \A r \in TaskRunsOf(t) : UpToDate(r)

\* A replay has seen all the events there are and suspended on others.
AtRest(w) ==
  \E view \in Views :
    /\ IsSeen(ListHistoryEventsForWorkflow(w), view.hist)
    /\ ListWorkflowSignals(w) = view.sigs
    /\ Handler[view].outcome = "suspend"
    /\ \A n \in 1..Len(Handler[view].calls) : IsRequested(w, Handler[view].calls[n])

EventsAreCovered ==
  \A w \in WorkflowIDs : Running(w) => AtRest(w) \/ \E t \in TaskIDs : WillWake(t, w)

WakeupInv == RunsOwnTheirCalls /\ EventsAreCovered

\* Where no claim overlaps, the only run of an activity is that of a running row.
OneRunPerActivity ==
  ~RunsMayOverlap => \A k \in ActivityKeys : \A r \in RunsOf(k) :
    activities[k].status = "running" /\ RunsOf(k) = {r}

-----------------------------------------------------------------------------
(* The inductive invariant behind IsDurableWorkflow *)

\* What a run has read is a part of the events there are, for they stay while
\* their workflow does.
RunsReadEvents ==
  ~RunsMayOverlap => \A r \in WorkflowRunners : wruns[r].phase # "idle" =>
    LET run == wruns[r]
    IN Exists(run.wf) =>
         /\ \A a \in Activities :
              run.hist[a] \in {None, ListHistoryEventsForWorkflow(run.wf)[a]}
         /\ \A s \in Signals : run.sigs[s] \in {None, ListWorkflowSignals(run.wf)[s]}

-----------------------------------------------------------------------------
(* What NoLostWakeup asks of the keys and of the handler *)

\* The key of an activity is made in the namespace of its workflow's id.
KeysAreNamespaced ==
  \A v, w \in WorkflowIDs, a, b \in Activities :
    ActivityKey[<<v, a>>] = ActivityKey[<<w, b>>] => v = w

\* Over fewer events a handler calls no other activities, and where it suspends
\* over more events it suspends.
HandlerIsMonotone ==
  \A more, less \in Views :
    /\ less.sigs = more.sigs
    /\ \A a \in Activities : less.hist[a] \in {more.hist[a], None}
    => /\ \A n \in 1..Len(Handler[less].calls) : \E m \in 1..Len(Handler[more].calls) :
            Handler[less].calls[n] = Handler[more].calls[m]
       /\ Handler[more].outcome = "suspend" => Handler[less].outcome = "suspend"

-----------------------------------------------------------------------------
(* The abstract specification *)

\* The tables, seen as durable workflows: an activity was requested when the
\* workflow has a row for it.  A workflow does and is what its handler says over
\* events that happened, each of which happens once; crashed runs and lost
\* replies do not show.  (Runs that overlap do: see HistoryIsPermanent.)
Durable == INSTANCE DurableWorkflow WITH
  status <- [w \in WorkflowIDs |-> workflows[w].status],
  requested <- [w \in WorkflowIDs |->
    {a \in Activities : OwnsActivity(w, ActivityKey[w, a])}],
  hist <- [w \in WorkflowIDs |-> ListHistoryEventsForWorkflow(w)],
  sigs <- [w \in WorkflowIDs |-> ListWorkflowSignals(w)]

IsDurableWorkflow == Durable!Spec

-----------------------------------------------------------------------------
(* Liveness *)

\* Every workflow ends, or comes to wait for a signal that was never sent: all
\* its tasks are done and so are all its activities.
WaitsForSignal(w) ==
  /\ Running(w)
  /\ OpenTasks(w) = {}
  /\ \A k \in ActivityKeys : activities[k].wf = w => activities[k].status = "completed"
  /\ \E s \in Signals : ListWorkflowSignals(w)[s] = None

EveryWorkflowSettles ==
  \A w \in WorkflowIDs : Running(w) ~> (~Running(w) \/ WaitsForSignal(w))

\* A signal that was stored is seen by a replay of the handler, unless the
\* workflow ends before.
Sees(w, s) ==
  \E r \in WorkflowRunners :
    wruns[r].phase = "exec" /\ wruns[r].wf = w /\ wruns[r].sigs[s] # None

EverySignalIsSeen ==
  \A w \in WorkflowIDs, s \in Signals :
    replies[w][s] = "ok" ~> (Sees(w, s) \/ ~Running(w))

-----------------------------------------------------------------------------
(* What the documentation says and the code does not do *)

\* README, "Workflow Lifecycle": completed and failed are the ends of the
\* lifecycle, and no arrow leaves them.
TerminalStatusIsFinal ==
  [][\A w \in WorkflowIDs :
       workflows[w].status \in {"completed", "failed"} =>
         workflows'[w].status \in {workflows[w].status, "deleted"}]_vars

\* README, activity options: max_attempts is the number of attempts before the
\* activity is failed.
ActivityAttemptsWithinLimit ==
  \A k \in ActivityKeys : activities[k].attempts <= Larger(1, ActivityMaxAttempts)

\* README: a duplicate submission of a signal is silently ignored.
DuplicateSignalIsIgnored ==
  \A w \in WorkflowIDs, s \in Signals :
    ListWorkflowSignals(w)[s] # None => replies[w][s] = "ok"

\* ListWorkflowSignals, comment: completed activity outputs are permanent history
\* entries, so that every replay is given the same value.
HistoryIsPermanent ==
  [][\A k \in ActivityKeys : activities[k].status = "completed" =>
       \/ activities'[k].status = "none"
       \/ /\ activities'[k].status = "completed"
          /\ activities'[k].output = activities[k].output]_vars
=============================================================================
