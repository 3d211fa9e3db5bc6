# Floww in TLA+

Floww is a Go library for durable workflows on PostgreSQL. A workflow handler is
re-executed from the start ("replayed") each time something happens to it, over
the events that happened so far: activities that completed and signals that were
sent. This directory holds TLA+ modules that model the library, TLC
configurations that check them on small instances, and proofs checked by TLAPS.

    tlasany M.tla                          # parse
    tlc -config MCFloww_liveness.cfg MCFloww.tla
    tlapm FlowwProofs.tla                  # and each of the modules named *Proofs

## The system

| Component | State | Operations | Where |
|---|---|---|---|
| Storage | four tables: `floww_workflows`, `floww_workflow_tasks`, `floww_activities`, `floww_signals` | claims (fetch a batch and mark it running), inserts that are idempotent by key, complete / reschedule / fail, lists for a replay, delete old workflows | `storage/postgres`, `migrations` |
| Workflow worker | poll loop, semaphore, a goroutine per task, in each the events of one replay | `Start`, `Stop`, poll, replay, retry or fail, `CleanColdWorkflows`, `CleanDeadWorkflows` | `workflow_worker.go`, `workflow.go`, `workflow_context.go`, `future.go` |
| Activity worker | the same loop, a goroutine per activity | `Start`, `Stop`, poll, run, retry or fail | `activity_worker.go` |
| Client | none | `EnqueueWorkflow`, `SendSignal` | `workflow.go` |
| Keys, options, registries | none | derive a key from a workflow id and a name; defaults and overrides | `activity.go`, `signal.go` |
| Encoders, interfaces, example | none | | `json_encoder.go`, `queryer.go`, `storage.go`, `example/` |

All coordination goes through the database. A client inserts a workflow with its
first task. A workflow worker claims the task, reads history and signals, and runs
the handler; the handler inserts activities and suspends, or returns and the
workflow is completed. An activity worker claims an activity, runs it, and in one
transaction stores its output and inserts a task that wakes the workflow. A signal
is stored together with such a task. A row that stays `running` past its stuck
timeout is claimed again by anyone. Cleaners delete workflows that have ended, and
the cascade of the foreign keys deletes everything that refers to them.

What is hard about it, and what makes each part correct:

* **Waking up.** An event can arrive at any point of a replay that did not read it.
  No event may leave its workflow asleep (`NoLostWakeup`, `EverySignalIsSeen`,
  `EveryWorkflowSettles`), and no task may appear without its event
  (`TaskAccounting`, `OneTaskPerEvent`).
* **Replays over torn views.** History and signals are two queries. A replay must do
  only what some real set of events justifies, and nothing may show of crashed runs and
  lost replies (`IsDurableWorkflow`).
* **Keys.** A replay finds what it did before by a key that is hashed from a name and a
  discriminator. A call must find its own result and no other (`EachCallHasItsOwnEntry`), and
  what it found once it must find again (`HistoryIsPermanent`).
* **Several runs of one row or one workflow.** Late runs, runs lost with their
  process, two tasks of one workflow at a time. Retries must stop
  (`ActivityAttemptsBounded`, `WorkflowAttemptsBounded`), failure must be shared by
  the part and the whole (`FailureIsJoint`).
* **Deletion under way.** Cleaners delete workflows that still have runs
  (`NoOrphanRows`), and requests are repeated (`OneWorkflowPerRequest`).
* **Transactions.** Calls of several statements meet row by row under READ COMMITTED. Each
  must be atomic (`IsAtomic`), lock rows in one order (`DeadlockNeedsABatch`), and end though
  two of the calls have no timeout (`EveryCallEnds`).
* **The loop.** Slots are counted before a query and used after it
  (`SendNeverBlocks`); Stop must drain and return (`StopDrains`, `StopReturns`); slow
  handlers must not block others (`SlowJobsBlockNoOther`).
* **The claim query.** Limits on two halves and on their union must pick the best
  rows that are due (`FetchIsBest`), each for one worker (`ClaimIsExclusive`).

`PROJECT.json` lists the hazards at their lines, also those no property covers yet.

## The modules

    FlowwStorage        tables, one operator per statement or transaction
      ActivityWorker    claim and run activities
      WorkflowWorker    claim tasks, replay, outcome of a task
        Handlers        handlers to run the engine with
      Floww             clients, both workers, cleaners, faults; Spec and FairSpec
        FlowwProperties   the properties and the inductive invariant
          FlowwProofs     types, joint failure, foreign keys, idempotency keys
            FlowwAttemptsProofs   attempts, tasks and their events, permanence of the history
              FlowwWakeupProofs   no lost wakeup
                FlowwDurableProofs  the refinement of DurableWorkflow
          MCFloww         with Handlers and IdempotencyKeys; the configurations MCFloww_*
      AtomicStorage     the storage calls as single steps
        Transactions    the same calls as statements, row locks and commits
          TransactionsProofs    locks and deadlocks
            TransactionsAtomicProofs  every commit is an atomic call
          MCTransactions
    IdempotencyKeys     how the keys of activities and signals are derived
    DurableWorkflow     abstract: a workflow and its events; FlowwProperties maps Floww to it
    RunnerPool          abstract: a bounded pool of runners
      PollLoop          the loop of both workers, their semaphore, Stop
        PollLoopProofs
        MCPollLoop
    FetchBatch          the claim query, in time and under overlapping fetches
      FetchBatchProofs
      MCFetchBatch

**FlowwStorage.** A table is a function from its key to a row. `workflows` is keyed by
the uuid minted by the client; status `"none"` is an id not minted, `"deleted"` one
whose row is gone. Tasks are numbered in the order they are inserted. Activities are
keyed by `idempotency_key`, which is unique; a run remembers the workflow its row
belonged to, and `OwnsActivity` tells whether the row with that key is still the same.
A row also says which call site it was inserted for (its name and input). Signals are
keyed by their `idempotency_key` too. A `pgx.BeginFunc` transaction is one
step, and so is a statement outside one. An UPDATE that hits no row rolls its
transaction back, hence the `IF ... ELSE UNCHANGED` shape. Time is abstracted: a
pending row may become due, and a running one stuck, at any moment.

**WorkflowWorker.** `wruns[r]` is what goroutine slot `r` does: `load` (two reads, in any
order, `LoadHistory` and `LoadSignals`), `exec` (the handler, one `ScheduleActivity` at a
time), `returned` (the workflow is completed and its task is not, two statements in the
code), `broken` (the worker was told of an error though the workflow was completed).
A claim may hit a row that has ended: it matches ids, not statuses. A process without a
handler of the task's name fails the run like a handler that returns an error.
`CompleteTask`, `TaskError` and its users, and `RunLost` are the ends. A handler is a
constant function from a view (history and signals) to the activities it calls and
whether it then suspends or returns: the library requires it to be deterministic.

**ActivityWorker.** A run is a claim and, any time later, one of its results.

**Floww.** Clients, cleaners and the environment. `Harm` counts faults: a run lost with its
process or whose write failed, a reply lost after its write took effect, a row claimed
while a run of it goes on. `MaxFaults` bounds them. A failure of the handler itself is
not a fault: it can happen in every run. With `RunsMayOverlap` a fault may also be a claim
that should not be: of a row whose run outlives its stuck timeout, or of a row that ended after
a fetch picked it (`PollActivityAgain`, `PollWorkflowTaskAgain`).

**DurableWorkflow** is what a user of the library reasons with: a status, the activities asked
for, their outputs, the signals. Events are only added, an activity is answered once, and a
workflow asks for an activity or completes only if its handler does so over some part of the
events that happened. (Some part: the two kinds of events are read at two moments, and more
can happen before the replay acts.) It leaves open that a workflow that ended ends again,
which the code does (run `terminal`). `Floww` implements it under the mapping `Durable` of
`FlowwProperties` when no claims overlap; with overlap an output can go away (run `history`).

**IdempotencyKeys.** A key is the workflow's id and the name followed by the discriminator; the
SHA-1 hash is taken to be injective, the concatenation of the two strings is computed. The
`MCFloww` runs get `ActivityKey` and `SignalKey` from it. **Handlers** has the order workflow of the
example (its activities and its signal are call sites of a name and an empty discriminator)
and the fan-out and the batch of the README.

**Transactions** takes the storage calls apart. A session runs one call: `Begin` with its first
statement, then for each statement the rows it will touch are chosen (`Orders`, the snapshot) and
taken one by one in any order (`Take`), waiting for conflicting locks (`Blockers`); a row is
changed as it is when the wait is over, or left out when it is gone, as READ COMMITTED
does. Lock modes are those of PostgreSQL: KEY SHARE for the check of a foreign key, NO KEY UPDATE
for an UPDATE, and the exclusive one for DELETE, INSERT and the repeated `EnqueueWorkflow`, whose
`ON CONFLICT DO UPDATE SET id` touches a key column. `Commit` makes all writes visible at
once; `Abort` (timeout, lost connection, the caller's rollback) and `BreakDeadlock` make none
visible. `EnqueueWorkflow` and `SendSignal` run in a transaction of the caller, which commits when it
likes. **AtomicStorage** is the same calls as single steps over `FlowwStorage`, with batches; `IsAtomic`
says that every commit is one of them, which is what the other modules assume.

**RunnerPool** says what the rest of the engine relies on: at most `Size` rows held, none
twice, none claimed after the end. `Floww` takes its runners from it. **PollLoop** is the
loop in detail: ticker, select, count of free slots, query, dispatch, the goroutine that
releases its slot before the wait group counts it out, and Stop. It implements
`RunnerPool` under the mapping `held <- batch \cup running`, `open <- loop # "exited"`.

**FetchBatch** has the clock, priorities, names and delays that the others abstract. A fetch
is two steps, `Pick` (the snapshot of the statement) and `Update`: the locking clause
stands in a SELECT over a CTE, where PostgreSQL applies it to no table. `Floww` has the
claim of one row as one step, and the second claim of a row that this allows as a fault.

## The runs

| Run | Instance | Checks | Distinct states |
|---|---|---|---|
| `retry` | fan-out of two activities; 2 + 2 runners, 2 attempts each, 1 fault, overlapping claims among them | `TypeOK`, `FailureIsJoint`, `AttemptsInv`, `ActivityAttemptsBounded`, `WorkflowAttemptsBounded`, `TaskAccounting`, `EachCallHasItsOwnEntry`, `WakeupInv`, `NoLostWakeup` | 1.3 million |
| `cleanup` | order workflow; two workflow ids, one request key, 2 + 2 runners, cleaning on | `IInv`, `NoOrphanRows`, `OneWorkflowPerRequest` | 470 000 |
| `liveness` | order workflow; 2 + 1 runners, 1 fault, cleaning on, `FairSpec` | `NoLostWakeup`, `OneTaskPerEvent`, `RunsReadEvents`, `HistoryIsPermanent`, `IsDurableWorkflow`, `EveryWorkflowSettles`, `EverySignalIsSeen` | 120 000 |
| `pool` | 4 rows, one with a handler that may never return, 3 slots, batch 2, 1 failed query, `FairSpec` | `IInv`, `SendNeverBlocks`, `StopDrains`, `IsRunnerPool`, `StopReturns`, `SlowJobsBlockNoOther` | 135 000 |
| `batch` | 2 loops that fetch different names, batches of 2, 4 rows, 2 priorities, clock 0..2, runs that end in time | `TypeOK`, `ClaimsInv`, `ClaimIsExclusive`, `FetchIsBest` | 5.0 million |
| `locks` | 3 sessions, each with any call; a workflow with a running task and activity, running or completed; one id to mint | `TransactionInv`, `TransactionTypeOK`, `DeadlockNeedsABatch`, `AtomicInv`, `IsAtomic`, `EveryCallEnds` | 360 000 |

What `locks` shows of deadlocks: tasks, activities, signals and requests are locked before their
workflow by every call of a worker or a client, so these never deadlock with one another;
a deadlock always has a cleaner in it, whose DELETE goes from the workflow to its rows, or two
claims that take the same rows in different orders (both happen in the run). None lasts, and
whatever waits does so for a deadlock to be broken or for a caller to end its transaction:
`InsertActivity` and `CompleteWorkflow`, which have no timeout, wait for nothing else.

Six runs show a statement of the documentation or of a comment that the code does not
keep (details under "findings" in `PROJECT.json`):

* `terminal`: the lifecycle diagram has no arrow out of `completed` and `failed`; two tasks of
  one workflow replayed at a time take it from failed to completed, for the updates do not
  look at the status.
* `activity_limit`: the claim does not look at `max_attempts`; an activity whose process dies
  is started again after its last attempt, without end.
* `duplicate_signal`: a repeated signal is a unique violation, not silently ignored.
* `history`: outputs of completed activities are said to be permanent; a late run takes a
  completed activity back to pending, and it is run again.
* `keys`: a discriminator unique among the calls of its activity does not give a distinct
  history entry, for `"step"` + `"11"` and `"step1"` + `"1"` are one key.
* `race`: rows are not locked by the claim; two overlapping fetches run one row twice.

Met on the way and not given a run: a handler that is not registered "will be rescheduled"
(`workflow_worker.go:285`, `activity_worker.go:264`), but with the default of one attempt it
is failed; completing a task clears the error of a workflow that failed meanwhile
(`workflow_tasks.go:309`); `attempts` of a workflow counts retries and not "task executions"
(`README.md:344`), so a replay that kills its process is repeated without end; the down migration
does not drop `floww_signals`.

**Bounds.** `MaxTasks` bounds task rows; it is at least one plus the signals plus the runs of
activities that can complete, so no insertion is ever refused for lack of a number. One
fault is enough for one late or lost run beside the regular ones, and two runners of each
kind for every pair of runs. Two workflow ids with one request key give a repeated request,
also after the first workflow was deleted. In `FetchBatch`, three rows of one name
and a limit of two make every limit bite; the fourth row has another name and the loop that
fetches it. In `Transactions` each
session runs one call, and three sessions are enough for every pair of calls to meet and for
a third to be waited for, or to wait, behind them. That a
longer circle of more sessions is no different is proved (`DeadlocksNeedABatch`).

**Symmetry and view.** Runners are interchangeable; symmetry is used in `retry` and `cleanup`, which
check no liveness. `cleanup` identifies states that differ in `replies` alone, which no action
reads and its properties (but for the type of `replies`) do not mention.

**Deadlock.** It is not checked: a system whose workflows have ended or wait for a signal, a
worker that has stopped, a table whose rows have ended, and sessions that have run their
calls are all right to stop. `StopReturns`, `EveryWorkflowSettles` and `EveryCallEnds` say what must
not stand still.

**Fairness.** `FairSpec` of `Floww` has weak fairness of the claim of each row by some runner and
of each run. A worker polls at every tick and a fetch orders rows by schedule, so a due row
is claimed as long as rows of higher priority do not keep coming (all have one priority
here); `DbTimeout` ends storage calls, and handlers are assumed to end. Nothing is assumed
of clients, cleaners or faults, claims that overlap included. In `Transactions` some session goes on
as long as one can: a statement that is not blocked takes its row, a worker whose statements
have run commits, the detector breaks a deadlock; commits by callers and aborts
are left to chance. In `PollLoop` the ticker and the goroutines run, handlers that
are not slow return, a stuck row becomes due again, and the select picks each of two ready
cases in the end (strong fairness of `TakeStop`; Go chooses among ready cases at random).

## The proofs

All for any value of the constants that the named assumptions allow: finite sets of runners,
rows and jobs, limits in `Nat`, a key for each call site that is a key, `None` outside the
values it stands beside. Nothing is assumed of the handler but its shape, except where a
theorem says so.

* `FlowwProofs`: `Spec => []TypeOK`, `[]FailureIsJoint`, `[]NoOrphanRows`. None is inductive. The
  invariant `IInv` adds the foreign keys (every row refers to a workflow that has one) and
  `RunsMatchTasks` (a run holds an inserted task, and the workflow that task belongs to while it
  is there): without it a late `FailWorkflowTask` could fail one workflow and mark a task of
  another, and without foreign keys an insertion could meet rows of a deleted workflow.
  One lemma per group of actions, then `NextIInv`.
  Also `Spec => []OneWorkflowPerRequest`, and `Spec => []EachCallHasItsOwnEntry` if the
  calls of one workflow have distinct keys (`DistinctCallKeys`, which the run `keys` shows that
  `IdempotencyKeyByString` alone does not give). Both rest on what a step may do to the columns that
  identify a row: no step but `EnqueueWorkflow` adds a workflow or changes its key or its tasks'
  workflow (`WorkflowsKeepKey`), and a row of `floww_activities` keeps its workflow and call until it
  is deleted (`EntriesStay`).
* `FlowwAttemptsProofs`: `Spec => []ActivityAttemptsBounded` and `Spec => []WorkflowAttemptsBounded`. The
  counters alone are not inductive, because a run decides on the attempts its own claim read.
  `AttemptsInv` keeps accounts: the attempts of an activity, with those its runs may still have
  it claimed for, were each paid for by one of the first `max_attempts - 1` runs or by a fault,
  but for one while the row can be claimed; the attempts of a workflow, with one for each run
  that would count another, stay within the bound. The sharp bound for a workflow is
  `WorkflowMaxAttempts` plus the runners but one: all of them may have been claimed below the
  limit. Also `Spec => HistoryIsPermanent` if no claim overlaps a run (`~RunsMayOverlap`),
  since then the only run of an activity is that of a running row (`OneRunPerActivity`);
  `liveness` checks it, and `history` violates it with overlap. And `Spec => []TaskAccounting`:
  tasks and runs of activities under way are at most one for the start, one per signal and one
  per attempt; a claim that overlaps a run is paid for by its own attempt. Where no claims overlap,
  `Spec => []OneTaskPerEvent`: exactly one task for the start, each signal and each completed
  activity. Each step either starts the workflow or is one of four kinds for it (signalled,
  attempted, answered, steady), and each kind adds as much on one side as on the other; the
  invariants `TasksArePaidFor` and `TasksMatchEvents` add that the counted sets are finite.
* `FlowwWakeupProofs`: `Spec => []NoLostWakeup`. A replay that suspends knows nothing of the event
  that came in after its reads, so the invariant has to say who does: `WakeupInv` has, for each
  running workflow, a view that a replay suspended on which has all events there are
  (`AtRest`), or an open task none of whose runs has missed an event (`WillWake`), and that runs
  have made calls of their workflow's own activities only. Events come with a task no run has claimed
  yet, and the run that ends a task without failing its workflow has either completed it or
  suspended over what there is. Two hypotheses, which TLC evaluates for the instances (`KeysAndHandlerFit` of `MCFloww`). Keys
  contain the workflow's id (`KeysAreNamespaced`): derived keys do, keys made up by the user need not.
  And, only where claims may overlap, the handler is monotone (`HandlerIsMonotone`): overlap can take
  an output out of the history, and a handler that suspends over more events but returns over
  fewer would have had reason to be woken. A handler that waits for its events one after another
  is monotone.
* `FlowwDurableProofs`: `Spec => IsDurableWorkflow`, the refinement of `DurableWorkflow`, if no claim
  overlaps a run and the keys of a workflow's calls and signals are distinct. Each step is a
  stutter or a step of the abstract workflow; the one invariant needed beyond those above is that
  what a run has read is part of the events there are (`RunsReadEvents`), so that what its
  handler does is justified by events that happened although they were read at two moments. The
  hypothesis on overlap is needed: the run `history` shows the behaviour it excludes. Those on
  keys are met by the keys the library derives if no name of an activity or of a signal
  is the beginning of another one's, whatever the discriminators (`DerivedKeysFit`); `keys` shows
  two names where one is.
* `PollLoopProofs`: `[]SendNeverBlocks`, `[]StopDrains`, and `Spec => IsRunnerPool`. The invariant is
  that a row is in one place, that the semaphore counts the running handlers, and that
  `fetchSize + sem <= Concurrency` while a query is under way.
* `FetchBatchProofs`: `[]TypeOK` and `Spec => FetchIsBest`. The heart is `TopOfUnion`: the best n of the best n
  of two disjoint parts are a best n of their union, because a row left out of its part is
  preceded by n rows of that part, one of which is outside the result with any row of the
  other part in it. And `Spec => []ClaimIsExclusive` if no two loops fetch the same rows
  (`LoopsAreApart`) and runs end in time: between the snapshot and the update of a fetch nothing
  may start a run of a row it picked (`RunsKeepTheirRow`). Without the first hypothesis it is
  false (`race`).
* `TransactionsProofs`: `TransactionSpec => []TransactionInv`, over any tables to begin with and any
  number of sessions, and from it `[]TransactionTypeOK` and `[]DeadlockNeedsABatch`. The invariant says
  for each session, by the name of its call, which rows it may still take and which locks it may
  hold at each point of its script (`TakesInOrder`, `TakesBatch`), and that no two sessions hold
  conflicting locks of a row (`LocksAgree`). In a circle of waits without a cleaner, a session that
  runs a call on one row and blocks another holds a lock, so it no longer waits for its first row
  but for its workflow's; who holds that and waits itself is a cleaner (`OneRowWaitsForACleaner`).
  So whoever blocks another in the circle is a claim, and when one of these blocks another of
  them they have rows of one table, that is, are of one kind.
* `TransactionsAtomicProofs`: `TransactionSpec /\ TablesFit => IsAtomic`, the transactions implement
  the calls of `AtomicStorage`, for any number of sessions. `TablesFit` is what the migration says of
  the tables at the start: the foreign keys hold (and an id not minted has the default columns);
  the proof shows that commits keep it. `TransactionInv` says what a session may hold;
  `AtomicInv` says of each row a session has written that it is what the call makes of that row as
  it is in the tables now (`WritesStand`), that a workflow it refers to is there and a request it
  inserts is not (`LocksStand`), which statements that amounts to (`HasRun`), and for a cleaner that
  the rows it has written or waits for are exactly the workflows it deletes and all that refers to
  them (`CascadeStands`). A step of a session leaves the tables alone but for its commit
  (`QuietTables`). A commit changes rows it holds the write lock of, so no row another session
  has written (`OthersRowsStay`), deletes no workflow another refers to (`ReferenceProtects`: KEY
  SHARE conflicts with the DELETE), and inserts nothing that refers to a workflow
  another deletes, for the insertion would hold KEY SHARE of it (`OthersReferElsewhere`). So the writes
  stand until the session itself commits, and one lemma per call shows that they are then the call
  (`CommitPerforms`). TLC shows that the foreign key's lock is needed: without it `AtomicInv` fails.

Model-checked only:

* liveness (`EveryWorkflowSettles`, `EverySignalIsSeen`, `StopReturns`, `SlowJobsBlockNoOther`,
  `EveryCallEnds`), which rests on fairness and `ENABLED`, beyond the prover;
* what the handlers of `Handlers` call over each view; the theorems take any handler, and
  `KeysAndHandlerFit` evaluates their hypotheses for these;
* the six violations, each a behaviour and not a theorem.

## Not modelled

Payloads and their encoding; names beyond what a filter needs; several calls inside one
transaction of the caller, whose locks then add up; keys made up by the user that two
workflows share; a second `Start` or `Stop`; the skew between the clocks of workers and database;
a query plan that puts the candidates of a claim into another order while it runs; starvation
by rows of higher priority, which is documented; user backoff functions; indexes, triggers and
the down migration; logging; the wiring of the example program.

## Plan

1. Done: `FlowwStorage`, the workers, `Floww`, its properties and the proof of `IInv`; `PollLoop` and its
   refinement of `RunnerPool`; `FetchBatch`; `IdempotencyKeys` and the handlers of the README;
   `DurableWorkflow` and the refinement checked by TLC; `AtomicStorage` and `Transactions`.
2. Done: the proofs of the bounds on attempts, `NoLostWakeup`, `HistoryIsPermanent` and
   `IsDurableWorkflow` where claims do not overlap, `ClaimIsExclusive` for loops that fetch different
   rows, `TransactionInv` and `DeadlockNeedsABatch`.
3. Done: `TaskAccounting` and `OneTaskPerEvent`; `IsAtomic`, with `AtomicInv`.
4. Next modelling: keys shared by two workflows.
