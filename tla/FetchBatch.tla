------------------------------- MODULE FetchBatch -------------------------------
(*****************************************************************************)
(* The statement by which a worker claims a batch of rows: the fetch of       *)
(* ListActiveWorkflowTasks and that of ListActiveActivities, which differ in  *)
(* the table only.                                                           *)
(*                                                                           *)
(* The statement picks its rows under the snapshot it starts with and then    *)
(* updates them by id.  Its locking clause stands in a SELECT over the CTE    *)
(* pre_candidates, where PostgreSQL applies it to no table: nothing keeps a   *)
(* picked row from changing before it is updated, and the update looks at     *)
(* the id only.  So a fetch is two steps, and each is atomic.                 *)
(*****************************************************************************)
EXTENDS Integers, FiniteSets

CONSTANTS
  Rows,             \* the rows of the table, by id
  Names,            \* names of workflows or activities
  NameOf,           \* column name
  Priority,         \* column priority
  Pollers,          \* the poll loops of all workers
  Wanted,           \* the names a poll loop was started with, {} for all
  FetchSizes,       \* numbers of free slots a poll loop may ask for
  StuckTimeout,     \* column stuck_timeout_millis
  Delays,           \* backoffs and initial delays
  RunsMayBeLate,    \* whether a run may outlive its stuck timeout
  MaxTime           \* bound on the clock

ASSUME FetchAssumption ==
  /\ IsFiniteSet(Rows)
  /\ NameOf \in [Rows -> Names]
  /\ Priority \in [Rows -> Int]
  /\ Wanted \in [Pollers -> SUBSET Names]
  /\ FetchSizes \subseteq Nat \ {0}
  /\ StuckTimeout \in Nat
  /\ Delays \subseteq Nat
  /\ RunsMayBeLate \in BOOLEAN
  /\ MaxTime \in Nat

VARIABLES
  status,           \* column status, "ended" for completed and failed
  scheduled_at,
  stuck_at,
  now,              \* the clock of the database
  fetches,          \* the fetch each poll loop has under way
  runs              \* the runs of claimed rows

vars == <<status, scheduled_at, stuck_at, now, fetches, runs>>

\* at is the now() of the statement: the time at which its transaction began.
Fetch == [phase: {"idle", "picked"}, at: Nat, size: Nat, batch: SUBSET Rows]

NoFetch == [phase |-> "idle", at |-> 0, size |-> 0, batch |-> {}]

\* until is the stuck_at that the claim has set.
Run == [poller: Pollers, row: Rows, until: Nat]

TypeOK ==
  /\ status \in [Rows -> {"none", "pending", "running", "ended"}]
  /\ scheduled_at \in [Rows -> Nat]
  /\ stuck_at \in [Rows -> Nat]
  /\ now \in Nat
  /\ fetches \in [Pollers -> Fetch]
  /\ runs \subseteq Run

Init ==
  /\ status = [r \in Rows |-> "none"]
  /\ scheduled_at = [r \in Rows |-> 0]
  /\ stuck_at = [r \in Rows |-> 0]
  /\ now = 0
  /\ fetches = [p \in Pollers |-> NoFetch]
  /\ runs = {}

-----------------------------------------------------------------------------
(* The query *)

\* ORDER BY priority DESC, scheduled_at
Before(a, b) ==
  \/ Priority[a] > Priority[b]
  \/ Priority[a] = Priority[b] /\ scheduled_at[a] < scheduled_at[b]

\* ... LIMIT limit: the sets of rows it may leave, for the order is partial.
Top(S, limit) ==
  {T \in SUBSET S :
     /\ Cardinality(T) <= limit
     /\ T = S \/ Cardinality(T) = limit
     /\ \A a \in T, b \in S \ T : ~Before(b, a)}

Served(names) == {r \in Rows : names = {} \/ NameOf[r] \in names}

Pending(names) == {r \in Served(names) : status[r] = "pending" /\ scheduled_at[r] <= now}

\* Mutant: every running row is taken for a stuck one.
StuckAtOnce(names) == {r \in Served(names) : status[r] = "running"}

Stuck(names) == {r \in Served(names) : status[r] = "running" /\ stuck_at[r] <= now}

pre_candidates(names, limit) ==
  {P \cup S : P \in Top(Pending(names), limit), S \in Top(Stuck(names), limit)}

\* Mutant: stuck rows fill the room that pending ones leave.
candidatesPendingFirst(names, limit) ==
  UNION {{P \cup S : S \in Top(Stuck(names), limit - Cardinality(P))} :
           P \in Top(Pending(names), limit)}

candidates(names, limit) == UNION {Top(S, limit) : S \in pre_candidates(names, limit)}

Pick(p, size) ==
  /\ fetches[p].phase = "idle"
  /\ \E batch \in candidates(Wanted[p], size) :
       fetches' = [fetches EXCEPT ![p] =
         [phase |-> "picked", at |-> now, size |-> size, batch |-> batch]]
  /\ UNCHANGED <<status, scheduled_at, stuck_at, now, runs>>

\* Mutant: stuck_at is left as it is.
UpdateStatusOnly(p) ==
  /\ fetches[p].phase = "picked"
  /\ status' = [r \in Rows |-> IF r \in fetches[p].batch THEN "running" ELSE status[r]]
  /\ fetches' = [fetches EXCEPT ![p] = NoFetch]
  /\ UNCHANGED <<scheduled_at, stuck_at, now>>

Update(p) ==
  LET batch == fetches[p].batch
  IN /\ fetches[p].phase = "picked"
     /\ status' = [r \in Rows |-> IF r \in batch THEN "running" ELSE status[r]]
     /\ stuck_at' = [r \in Rows |->
          IF r \in batch THEN fetches[p].at + StuckTimeout ELSE stuck_at[r]]
     /\ fetches' = [fetches EXCEPT ![p] = NoFetch]
     /\ UNCHANGED <<scheduled_at, now>>

Claim(p) ==
  /\ Update(p)
  /\ runs' = runs \cup
       [poller: {p}, row: fetches[p].batch, until: {fetches[p].at + StuckTimeout}]

\* The reply is lost, or it comes after DbTimeout: the rows are running, and
\* no one runs them.
ClaimReplyLost(p) == Update(p) /\ UNCHANGED runs

\* The statement times out, or is the victim of a deadlock.
FetchFails(p) ==
  /\ fetches[p].phase = "picked"
  /\ fetches' = [fetches EXCEPT ![p] = NoFetch]
  /\ UNCHANGED <<status, scheduled_at, stuck_at, now, runs>>

-----------------------------------------------------------------------------
(* The other statements on the row, all of them by id *)

Insert(r, delay) ==
  /\ status[r] = "none"
  /\ status' = [status EXCEPT ![r] = "pending"]
  /\ scheduled_at' = [scheduled_at EXCEPT ![r] = now + delay]
  /\ UNCHANGED <<stuck_at, now, fetches, runs>>

\* The row is completed or failed.
End(run) ==
  /\ runs' = runs \ {run}
  /\ status' = [status EXCEPT ![run.row] = "ended"]
  /\ UNCHANGED <<scheduled_at, stuck_at, now, fetches>>

\* Mutant: the backoff is taken off the clock.
ReScheduleEarlier(run, backoff) ==
  /\ runs' = runs \ {run}
  /\ status' = [status EXCEPT ![run.row] = "pending"]
  /\ scheduled_at' = [scheduled_at EXCEPT ![run.row] = now - backoff]
  /\ UNCHANGED <<stuck_at, now, fetches>>

ReSchedule(run, backoff) ==
  /\ runs' = runs \ {run}
  /\ status' = [status EXCEPT ![run.row] = "pending"]
  /\ scheduled_at' = [scheduled_at EXCEPT ![run.row] = now + backoff]
  /\ UNCHANGED <<stuck_at, now, fetches>>

\* The process dies, or the write of the result fails.
RunLost(run) ==
  /\ runs' = runs \ {run}
  /\ UNCHANGED <<status, scheduled_at, stuck_at, now, fetches>>

\* A run is late when its row may be claimed again.
Tick ==
  /\ now < MaxTime
  /\ RunsMayBeLate \/ \A run \in runs : now + 1 < run.until
  /\ RunsMayBeLate \/ \A p \in Pollers :
       fetches[p].phase = "picked" => now + 1 < fetches[p].at + StuckTimeout
  /\ now' = now + 1
  /\ UNCHANGED <<status, scheduled_at, stuck_at, fetches, runs>>

Next ==
  \/ \E r \in Rows, delay \in Delays : Insert(r, delay)
  \/ \E p \in Pollers, size \in FetchSizes : Pick(p, size)
  \/ \E p \in Pollers : Claim(p) \/ ClaimReplyLost(p) \/ FetchFails(p)
  \/ \E run \in runs : End(run) \/ RunLost(run)
  \/ \E run \in runs, backoff \in Delays : ReSchedule(run, backoff)
  \/ Tick

Spec == Init /\ [][Next]_vars

-----------------------------------------------------------------------------
(* Properties *)

Due(names) == Pending(names) \cup Stuck(names)

\* README.md:57 and the comment at workflow_worker.go:258: a fetch picks no
\* more rows than it was asked for; no row that is due comes before a picked
\* one in the order of priority and schedule; and a fetch that picks fewer than
\* it was asked for has picked all that are due.  The query limits pending and
\* stuck rows separately before it merges them: nothing must be lost by that.
FetchIsBest ==
  [][\A p \in Pollers :
       fetches[p].phase = "idle" /\ fetches'[p].phase = "picked" =>
         fetches'[p].batch \in Top(Due(Wanted[p]), fetches'[p].size)]_vars

\* workflow_tasks.go:216 and activities.go:188: a fetch locks the rows it picks
\* and marks them as running, so that while a run has not outlived its stuck
\* timeout no one else runs the same row.
ClaimIsExclusive ==
  \A run, other \in runs :
    run.row = other.row /\ now < run.until /\ now < other.until => run = other

\* No two poll loops fetch the same row.
LoopsAreApart ==
  \A p, q \in Pollers : p # q => Served(Wanted[p]) \cap Served(Wanted[q]) = {}

\* The inductive invariant behind ClaimIsExclusive, where it holds: a run keeps
\* its row from being due, and a fetch has picked no row that is being run.
RunsKeepTheirRow ==
  /\ \A run \in runs :
       /\ run.row \in Served(Wanted[run.poller])
       /\ status[run.row] = "running" /\ stuck_at[run.row] = run.until
       /\ now < run.until
  /\ \A run, other \in runs : run.row = other.row => run = other
  /\ \A p \in Pollers : fetches[p].phase = "picked" =>
       /\ fetches[p].batch \subseteq Served(Wanted[p])
       /\ now < fetches[p].at + StuckTimeout
       /\ \A run \in runs : run.row \notin fetches[p].batch

\* Without a stuck timeout no run is ever in time.
RunsAreLate ==
  /\ \A run \in runs : run.until <= now
  /\ \A p \in Pollers : fetches[p].at <= now

ClaimsInv ==
  IF StuckTimeout = 0 THEN RunsAreLate
  ELSE LoopsAreApart /\ ~RunsMayBeLate => RunsKeepTheirRow
=============================================================================
