-------------------------------- MODULE PollLoop --------------------------------
(*****************************************************************************)
(* A worker process (workflow_worker.go, activity_worker.go: the two have the *)
(* same loop): a goroutine that polls the storage at each tick, a counting    *)
(* semaphore with a slot for each job that may be in flight, a goroutine per  *)
(* job, and Stop, which waits for all of them.                               *)
(*                                                                           *)
(* A job is a claimed row.  queue is what the claim query would return, first *)
(* come first served: all rows have the same priority here (FetchBatch has    *)
(* priorities), and none is stuck while it runs (Floww has that).            *)
(*****************************************************************************)
EXTENDS Naturals, Sequences, FiniteSets

CONSTANTS
  Jobs,             \* the rows there can be
  SlowJobs,         \* those whose handler may never return
  Concurrency,      \* Poll.Concurrency
  BatchSize,        \* Poll.BatchSize
  MaxErrors         \* bound on the claim queries that fail

ASSUME PollLoopAssumption ==
  /\ IsFiniteSet(Jobs)
  /\ SlowJobs \subseteq Jobs
  /\ Concurrency \in Nat
  /\ BatchSize \in Nat
  /\ MaxErrors \in Nat

VARIABLES
  queue,            \* rows that are due
  lost,             \* rows whose claim committed but was never answered
  loop,             \* where the polling goroutine is
  tick,             \* whether the ticker's channel holds a tick
  fetchSize,        \* the limit of the claim query under way
  batch,            \* fetched rows not dispatched yet
  drained,          \* whether that query returned less than it was asked for
  sem,              \* slots of the semaphore in use
  running,          \* jobs whose goroutine holds a slot
  ending,           \* jobs whose goroutine has released it and is not done
  stopped,          \* whether the stopped channel is closed
  stop,             \* what Stop returned
  errors            \* claim queries that failed so far

jobVars == <<queue, lost, batch, sem, running, ending>>
vars == <<jobVars, loop, tick, fetchSize, drained, stopped, stop, errors>>

Queued == {queue[i] : i \in 1..Len(queue)}

TypeOK ==
  /\ queue \in Seq(Jobs)
  /\ lost \subseteq Jobs
  /\ loop \in {"wait", "slots", "fetch", "dispatch", "check", "exited"}
  /\ tick \in BOOLEAN
  /\ fetchSize \in Nat
  /\ batch \subseteq Jobs
  /\ drained \in BOOLEAN
  /\ sem \in Nat
  /\ running \subseteq Jobs
  /\ ending \subseteq Jobs
  /\ stopped \in BOOLEAN
  /\ stop \in {"none", "waiting", "nil", "error"}
  /\ errors \in 0..MaxErrors

Init ==
  /\ queue = <<>>
  /\ lost = {}
  /\ loop = "wait"
  /\ tick = FALSE
  /\ fetchSize = 0
  /\ batch = {}
  /\ drained = FALSE
  /\ sem = 0
  /\ running = {}
  /\ ending = {}
  /\ stopped = FALSE
  /\ stop = "none"
  /\ errors = 0

-----------------------------------------------------------------------------
(* The storage and the ticker *)

\* A row becomes due: it is new, or was rescheduled after its job ended.
Arrive(j) ==
  /\ j \notin Queued \cup lost \cup batch \cup running \cup ending
  /\ queue' = Append(queue, j)
  /\ UNCHANGED <<lost, batch, sem, running, ending>>
  /\ UNCHANGED <<loop, tick, fetchSize, drained, stopped, stop, errors>>

\* The stuck timeout of a row whose claim was never answered passes.
Recover(j) ==
  /\ j \in lost
  /\ lost' = lost \ {j}
  /\ queue' = Append(queue, j)
  /\ UNCHANGED <<batch, sem, running, ending>>
  /\ UNCHANGED <<loop, tick, fetchSize, drained, stopped, stop, errors>>

\* The ticker's channel has room for one tick; a tick too many is dropped.
Tick ==
  /\ ~tick
  /\ tick' = TRUE
  /\ UNCHANGED <<jobVars, loop, fetchSize, drained, stopped, stop, errors>>

-----------------------------------------------------------------------------
(* The polling goroutine, runHandlerWorker and processWorkflowTasks or        *)
(* processActivities                                                         *)

TakeTick ==
  /\ loop = "wait" /\ tick
  /\ tick' = FALSE
  /\ loop' = "slots"
  /\ UNCHANGED <<jobVars, fetchSize, drained, stopped, stop, errors>>

TakeStop ==
  /\ loop = "wait" /\ stopped
  /\ loop' = "exited"
  /\ UNCHANGED <<jobVars, tick, fetchSize, drained, stopped, stop, errors>>

\* Mutant: the batch size is asked for whatever the slots in use.
CountAllSlots ==
  /\ loop = "slots"
  /\ LET freeSlots == Concurrency - sem
     IN IF freeSlots = 0
        THEN loop' = "wait" /\ UNCHANGED fetchSize
        ELSE loop' = "fetch" /\ fetchSize' = BatchSize
  /\ UNCHANGED <<jobVars, tick, drained, stopped, stop, errors>>

\* Mutant: a batch is fetched only when the one before it has ended.
CountSlotsWhenIdle ==
  /\ loop = "slots"
  /\ IF sem > 0
     THEN loop' = "wait" /\ UNCHANGED fetchSize
     ELSE /\ loop' = "fetch"
          /\ fetchSize' = IF Concurrency < BatchSize THEN Concurrency ELSE BatchSize
  /\ UNCHANGED <<jobVars, tick, drained, stopped, stop, errors>>

\* The free slots are counted before the query and used after it.
CountSlots ==
  /\ loop = "slots"
  /\ LET freeSlots == Concurrency - sem
     IN IF freeSlots = 0
        THEN loop' = "wait" /\ UNCHANGED fetchSize
        ELSE /\ loop' = "fetch"
             /\ fetchSize' = IF freeSlots < BatchSize THEN freeSlots ELSE BatchSize
  /\ UNCHANGED <<jobVars, tick, drained, stopped, stop, errors>>

\* The rows a claim query takes from the queue, and what it leaves.
Claimed == {queue[i] : i \in {k \in 1..Len(queue) : k <= fetchSize}}
Unclaimed == IF Len(queue) <= fetchSize THEN <<>> ELSE SubSeq(queue, fetchSize + 1, Len(queue))

Fetch ==
  /\ loop = "fetch"
  /\ batch' = Claimed
  /\ queue' = Unclaimed
  /\ loop' = IF Claimed = {} THEN "wait" ELSE "dispatch"
  /\ drained' = (Len(queue) < fetchSize)
  /\ UNCHANGED <<lost, sem, running, ending, tick, fetchSize, stopped, stop, errors>>

\* An error is logged and the loop waits for the next tick, whether or not the
\* storage had claimed the rows.
FetchFails ==
  /\ loop = "fetch"
  /\ errors < MaxErrors
  /\ errors' = errors + 1
  /\ \/ lost' = lost \cup Claimed /\ queue' = Unclaimed
     \/ UNCHANGED <<lost, queue>>
  /\ loop' = "wait"
  /\ UNCHANGED <<batch, sem, running, ending, tick, fetchSize, drained, stopped, stop>>

\* Mutant: the stop signal is looked at between two sends.
DispatchUnlessStopped(j) ==
  /\ loop = "dispatch" /\ j \in batch
  /\ sem < Concurrency
  /\ sem' = sem + 1
  /\ batch' = batch \ {j}
  /\ running' = running \cup {j}
  /\ loop' = IF stopped THEN "exited"
              ELSE IF batch # {j} THEN "dispatch" ELSE IF drained THEN "wait" ELSE "check"
  /\ UNCHANGED <<queue, lost, ending, tick, fetchSize, drained, stopped, stop, errors>>

\* The send to the semaphore blocks while all its slots are in use.
Dispatch(j) ==
  /\ loop = "dispatch" /\ j \in batch
  /\ sem < Concurrency
  /\ sem' = sem + 1
  /\ batch' = batch \ {j}
  /\ running' = running \cup {j}
  /\ loop' = IF batch # {j} THEN "dispatch" ELSE IF drained THEN "wait" ELSE "check"
  /\ UNCHANGED <<queue, lost, ending, tick, fetchSize, drained, stopped, stop, errors>>

\* Mutant: the stop signal is only looked at between two ticks.
GoOn ==
  /\ loop = "check"
  /\ loop' = "slots"
  /\ UNCHANGED <<jobVars, tick, fetchSize, drained, stopped, stop, errors>>

\* Between two batches of the same tick.
CheckStopped ==
  /\ loop = "check"
  /\ loop' = IF stopped THEN "exited" ELSE "slots"
  /\ UNCHANGED <<jobVars, tick, fetchSize, drained, stopped, stop, errors>>

-----------------------------------------------------------------------------
(* The goroutine of a job releases its slot before the wait group counts it   *)
(* out.                                                                      *)

\* Mutant: the slot of a job is not released.
HandlerKeepsSlot(j) ==
  /\ j \in running
  /\ running' = running \ {j}
  /\ ending' = ending \cup {j}
  /\ UNCHANGED <<queue, lost, batch, sem, loop, tick, fetchSize, drained, stopped, stop, errors>>

HandlerEnds(j) ==
  /\ j \in running
  /\ running' = running \ {j}
  /\ sem' = sem - 1
  /\ ending' = ending \cup {j}
  /\ UNCHANGED <<queue, lost, batch, loop, tick, fetchSize, drained, stopped, stop, errors>>

GoroutineEnds(j) ==
  /\ j \in ending
  /\ ending' = ending \ {j}
  /\ UNCHANGED <<queue, lost, batch, sem, running>>
  /\ UNCHANGED <<loop, tick, fetchSize, drained, stopped, stop, errors>>

-----------------------------------------------------------------------------
(* Stop *)

StopCalled ==
  /\ stop = "none"
  /\ stopped' = TRUE
  /\ stop' = "waiting"
  /\ UNCHANGED <<jobVars, loop, tick, fetchSize, drained, errors>>

\* The wait group counts the polling goroutine and those of the jobs.
StopReturnsNil ==
  /\ stop = "waiting"
  /\ loop = "exited" /\ running = {} /\ ending = {}
  /\ stop' = "nil"
  /\ UNCHANGED <<jobVars, loop, tick, fetchSize, drained, stopped, errors>>

StopExpires ==
  /\ stop = "waiting"
  /\ stop' = "error"
  /\ UNCHANGED <<jobVars, loop, tick, fetchSize, drained, stopped, errors>>

-----------------------------------------------------------------------------
LoopStep ==
  \/ TakeTick \/ TakeStop \/ CountSlots \/ Fetch \/ FetchFails \/ CheckStopped
  \/ \E j \in Jobs : Dispatch(j)

Next ==
  \/ \E j \in Jobs : Arrive(j) \/ Recover(j)
  \/ Tick
  \/ LoopStep
  \/ \E j \in Jobs : HandlerEnds(j) \/ GoroutineEnds(j)
  \/ StopCalled \/ StopReturnsNil \/ StopExpires

Spec == Init /\ [][Next]_vars

\* The scheduler runs every goroutine that can go on, the handlers of jobs that
\* are not slow return, and a select with two ready cases picks each of them
\* again and again.
Fairness ==
  /\ WF_vars(Tick)
  /\ WF_vars(LoopStep)
  /\ SF_vars(TakeStop)
  /\ \A j \in Jobs \ SlowJobs : WF_vars(HandlerEnds(j))
  /\ \A j \in Jobs : WF_vars(GoroutineEnds(j)) /\ WF_vars(Recover(j))
  /\ WF_vars(StopReturnsNil)

FairSpec == Spec /\ Fairness

-----------------------------------------------------------------------------
(* Properties *)

\* "We already verified there are enough free slots, so the send won't block"
\* (workflow_worker.go:239, activity_worker.go:218): slots are only released
\* between the count and the sends, so each row fetched has a slot of its own.
SendNeverBlocks ==
  loop = "dispatch" => /\ batch # {}
                       /\ Cardinality(running) + Cardinality(batch) <= Concurrency

\* When Stop returns nil nothing is left: no goroutine runs and no claimed row
\* was dropped on the way to its goroutine.
StopDrains ==
  stop = "nil" => /\ loop = "exited"
                  /\ batch = {} /\ running = {} /\ ending = {}

\* The inductive invariant behind them: a row is in one place at a time, the
\* semaphore counts the handlers that run, and the free slots counted before a
\* query are still free after it.
InOnePlace ==
  /\ \A i, k \in 1..Len(queue) : queue[i] = queue[k] => i = k
  /\ Queued \cap (lost \cup batch \cup running \cup ending) = {}
  /\ lost \cap (batch \cup running \cup ending) = {}
  /\ batch \cap (running \cup ending) = {}
  /\ running \cap ending = {}

SlotsCounted ==
  /\ sem = Cardinality(running)
  /\ sem <= Concurrency
  /\ loop = "fetch" => fetchSize + sem <= Concurrency
  /\ loop # "dispatch" => batch = {}

IInv == TypeOK /\ InOnePlace /\ SlotsCounted /\ SendNeverBlocks /\ StopDrains

\* The worker is a pool of Concurrency runners: a claimed row is held by one
\* from the claim to the end of its handler, and none is claimed after the
\* polling goroutine has exited.
Pool == INSTANCE RunnerPool WITH
  Size <- Concurrency, held <- batch \cup running, open <- (loop # "exited")

IsRunnerPool == Pool!Spec

\* Stop returns though work goes on coming in at each tick, and does not need
\* its context to expire for it, unless it waits for a slow handler.
StopReturns ==
  stop = "waiting" ~> (stop # "waiting" \/ running \cap SlowJobs # {})

\* "A slow workflow task never blocks faster ones from being picked up"
\* (workflow_worker.go:169-170): handlers that never return and are fewer than
\* the slots keep no other row from being run.
SlowJobsBlockNoOther ==
  \A j \in Jobs \ SlowJobs : j \in Queued ~> (j \in ending \/ stopped)
=============================================================================
