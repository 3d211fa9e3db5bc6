---------------------------- MODULE FetchBatchProofs ----------------------------
(*****************************************************************************)
(* A fetch picks the best rows that are due, for every table, every order of *)
(* priorities and every batch size, and a claim is exclusive where no two poll *)
(* loops fetch the same rows.                                                *)
(*****************************************************************************)
EXTENDS FetchBatch, FiniteSetTheorems, TLAPS

-----------------------------------------------------------------------------
(* Type correctness *)

LEMMA InitTypeOK == Init => TypeOK
BY DEF Init, TypeOK, NoFetch, Fetch

LEMMA PicksRows ==
  ASSUME NEW names, NEW size, NEW batch \in candidates(names, size)
  PROVE  batch \in SUBSET Rows
BY DEF candidates, pre_candidates, Top, Pending, Stuck, Served

LEMMA NextTypeOK == TypeOK /\ [Next]_vars => TypeOK'
<1> SUFFICES ASSUME TypeOK, [Next]_vars PROVE TypeOK'
  OBVIOUS
<1> USE FetchAssumption DEF TypeOK
<1>1. ASSUME NEW r \in Rows, NEW delay \in Delays, Insert(r, delay)
      PROVE  TypeOK'
  BY <1>1 DEF Insert
<1>2. ASSUME NEW p \in Pollers, NEW size \in FetchSizes, Pick(p, size)
      PROVE  TypeOK'
  <2>1. PICK batch \in candidates(Wanted[p], size) :
          fetches' = [fetches EXCEPT ![p] =
            [phase |-> "picked", at |-> now, size |-> size, batch |-> batch]]
    BY <1>2 DEF Pick
  <2>2. batch \in SUBSET Rows
    BY PicksRows
  <2>3. fetches' \in [Pollers -> Fetch]
    BY <2>1, <2>2 DEF Fetch
  <2> QED
    BY <1>2, <2>3 DEF Pick
<1>3. ASSUME NEW p \in Pollers, Update(p)
      PROVE  /\ status' \in [Rows -> {"none", "pending", "running", "ended"}]
             /\ scheduled_at' \in [Rows -> Nat]
             /\ stuck_at' \in [Rows -> Nat]
             /\ now' \in Nat
             /\ fetches' \in [Pollers -> Fetch]
  BY <1>3 DEF Update, Fetch, NoFetch
<1>4. ASSUME NEW p \in Pollers, Claim(p)
      PROVE  TypeOK'
  <2>1. [poller: {p}, row: fetches[p].batch, until: {fetches[p].at + StuckTimeout}]
          \subseteq Run
    BY DEF Run, Fetch
  <2> QED
    BY <1>3, <1>4, <2>1 DEF Claim
<1>5. ASSUME NEW p \in Pollers, ClaimReplyLost(p)
      PROVE  TypeOK'
  BY <1>3, <1>5 DEF ClaimReplyLost
<1>6. ASSUME NEW p \in Pollers, FetchFails(p)
      PROVE  TypeOK'
  BY <1>6 DEF FetchFails, NoFetch, Fetch
<1>7. ASSUME NEW run \in runs, End(run)
      PROVE  TypeOK'
  BY <1>7 DEF End, Run
<1>8. ASSUME NEW run \in runs, RunLost(run)
      PROVE  TypeOK'
  BY <1>8 DEF RunLost
<1>9. ASSUME NEW run \in runs, NEW backoff \in Delays, ReSchedule(run, backoff)
      PROVE  TypeOK'
  BY <1>9 DEF ReSchedule, Run
<1>10. CASE Tick
  BY <1>10 DEF Tick
<1>11. CASE UNCHANGED vars
  BY <1>11 DEF vars
<1> QED
  BY <1>1, <1>2, <1>4, <1>5, <1>6, <1>7, <1>8, <1>9, <1>10, <1>11 DEF Next

\* The columns, the fetches and the runs keep their types, in every table.
THEOREM TypeCorrect == Spec => []TypeOK
BY InitTypeOK, NextTypeOK, PTL DEF Spec

-----------------------------------------------------------------------------
(* Limiting two parts of a table and then their union gives what limiting the *)
(* whole would give.                                                         *)

\* A row left out of its own part does not come before a row of the result.
LEMMA LeftOutIsNotBetter ==
  ASSUME NEW A \in SUBSET Rows, NEW B \in SUBSET Rows, A \cap B = {}, TypeOK,
         NEW n \in Nat, NEW P \in Top(A, n), NEW Q \in Top(B, n),
         NEW T \in Top(P \cup Q, n), NEW e \in A \ P, NEW c \in T
  PROVE  ~Before(e, c)
<1>1. IsFiniteSet(P) /\ IsFiniteSet(T) /\ P \subseteq A /\ T \subseteq A \cup B
      /\ T \subseteq P \cup Q /\ Q \subseteq B
  BY FetchAssumption, FS_Subset DEF Top
<1>2. Cardinality(P) = n
  BY DEF Top
<1>3. \A a \in P : ~Before(e, a)
  BY DEF Top
<1>4. CASE c \in P
  BY <1>3, <1>4
<1>5. CASE c \notin P
  <2>1. PICK p \in P : p \notin T
    <3> SUFFICES ASSUME P \subseteq T PROVE FALSE
      OBVIOUS
    <3>1. IsFiniteSet(T \ {c}) /\ Cardinality(T \ {c}) = Cardinality(T) - 1
      BY <1>1, FS_RemoveElement
    <3>2. P \in SUBSET (T \ {c})
      BY <1>5
    <3>3. Cardinality(P) <= Cardinality(T \ {c})
      BY <3>1, <3>2, FS_Subset
    <3>4. Cardinality(T) <= n /\ Cardinality(T) \in Nat
      BY <1>1, FS_CardinalityType DEF Top
    <3> QED
      BY <1>2, <3>1, <3>3, <3>4
  <2>2. ~Before(p, c)
    BY <2>1 DEF Top
  <2>3. ~Before(e, p)
    BY <1>3
  <2>4. e \in Rows /\ p \in Rows /\ c \in Rows
    BY <1>1
  <2> QED
    BY <2>2, <2>3, <2>4, FetchAssumption DEF Before, TypeOK
<1> QED
  BY <1>4, <1>5

LEMMA TopOfUnion ==
  ASSUME NEW A \in SUBSET Rows, NEW B \in SUBSET Rows, A \cap B = {}, TypeOK,
         NEW n \in Nat, NEW P \in Top(A, n), NEW Q \in Top(B, n),
         NEW T \in Top(P \cup Q, n)
  PROVE  T \in Top(A \cup B, n)
<1>1. /\ P \subseteq A /\ Q \subseteq B /\ T \subseteq P \cup Q
      /\ Cardinality(T) <= n
  BY DEF Top
<1>2. T = A \cup B \/ Cardinality(T) = n
  <2> SUFFICES ASSUME Cardinality(T) # n PROVE T = A \cup B
    OBVIOUS
  <2>1. T = P \cup Q
    BY DEF Top
  <2>2. IsFiniteSet(T)
    BY <1>1, FetchAssumption, FS_Subset
  <2>3. /\ Cardinality(P) <= Cardinality(T) /\ Cardinality(Q) <= Cardinality(T)
        /\ IsFiniteSet(P) /\ IsFiniteSet(Q)
    BY <2>1, <2>2, FS_Subset
  <2>4. Cardinality(P) \in Nat /\ Cardinality(Q) \in Nat /\ Cardinality(T) \in Nat
    BY <2>2, <2>3, FS_CardinalityType
  <2>5. Cardinality(P) # n /\ Cardinality(Q) # n
    BY <1>1, <2>3, <2>4
  <2>6. P = A /\ Q = B
    BY <2>5 DEF Top
  <2> QED
    BY <2>1, <2>6
<1>3. ASSUME NEW c \in T, NEW e \in (A \cup B) \ T
      PROVE  ~Before(e, c)
  <2>1. CASE e \in P \cup Q
    BY <2>1, <1>3 DEF Top
  <2>2. CASE e \in A \ P
    BY <2>2, LeftOutIsNotBetter
  <2>3. CASE e \in B \ Q
    <3>1. B \cap A = {} /\ T \in Top(Q \cup P, n)
      <4>1. P \cup Q = Q \cup P
        OBVIOUS
      <4> QED
        BY <4>1
    <3> QED
      BY <2>3, <3>1, LeftOutIsNotBetter
  <2> QED
    BY <2>1, <2>2, <2>3
<1> QED
  BY <1>1, <1>2, <1>3 DEF Top

LEMMA CandidatesAreBest ==
  ASSUME TypeOK, NEW names, NEW n \in Nat, NEW batch \in candidates(names, n)
  PROVE  batch \in Top(Due(names), n)
<1>1. PICK P \in Top(Pending(names), n), Q \in Top(Stuck(names), n) :
        batch \in Top(P \cup Q, n)
  <2>1. PICK U \in pre_candidates(names, n) : batch \in Top(U, n)
    BY Zenon DEF candidates
  <2>2. PICK P \in Top(Pending(names), n), Q \in Top(Stuck(names), n) : U = P \cup Q
    BY <2>1 DEF pre_candidates
  <2> QED
    BY <2>1, <2>2, Zenon
<1>2. /\ Pending(names) \in SUBSET Rows /\ Stuck(names) \in SUBSET Rows
      /\ Pending(names) \cap Stuck(names) = {}
  BY DEF Pending, Stuck, Served
<1> QED
  BY <1>1, <1>2, TopOfUnion DEF Due

LEMMA PickIsBest ==
  ASSUME TypeOK, [Next]_vars, NEW p \in Pollers,
         fetches[p].phase = "idle", fetches'[p].phase = "picked"
  PROVE  fetches'[p].batch \in Top(Due(Wanted[p]), fetches'[p].size)
<1>1. PICK q \in Pollers, size \in FetchSizes : Pick(q, size)
  <2>1. ASSUME NEW q \in Pollers, fetches' = [fetches EXCEPT ![q] = NoFetch]
        PROVE  FALSE
    BY <2>1 DEF TypeOK, NoFetch
  <2>2. ASSUME fetches' = fetches PROVE FALSE
    BY <2>2
  <2> QED
    BY <2>1, <2>2 DEF Next, vars, Insert, Claim, ClaimReplyLost, Update, FetchFails,
                      End, RunLost, ReSchedule, Tick
<1>2. PICK batch \in candidates(Wanted[q], size) :
        fetches' = [fetches EXCEPT ![q] =
          [phase |-> "picked", at |-> now, size |-> size, batch |-> batch]]
  BY <1>1 DEF Pick
<1>3. q = p
  BY <1>2 DEF TypeOK
<1>4. fetches'[p].batch = batch /\ fetches'[p].size = size /\ size \in Nat
  BY <1>2, <1>3, FetchAssumption DEF TypeOK
<1> QED
  BY <1>2, <1>3, <1>4, CandidatesAreBest

\* README.md:57: rows are fetched in the order of their priority.  The LIMIT on
\* each half of the query loses no row that the LIMIT on the whole would keep.
THEOREM FetchesAreBest == Spec => FetchIsBest
<1>1. TypeOK /\ [Next]_vars =>
        [\A p \in Pollers :
           fetches[p].phase = "idle" /\ fetches'[p].phase = "picked" =>
             fetches'[p].batch \in Top(Due(Wanted[p]), fetches'[p].size)]_vars
  BY PickIsBest
<1> QED
  BY <1>1, TypeCorrect, PTL DEF Spec, FetchIsBest

-----------------------------------------------------------------------------
(* A claim is exclusive *)

\* A fetch picks rows that its loop serves, each of them due.
LEMMA PicksDueRows ==
  ASSUME NEW names, NEW size, NEW batch \in candidates(names, size)
  PROVE  batch \subseteq Due(names) /\ Due(names) \subseteq Served(names)
BY DEF candidates, pre_candidates, Top, Due, Pending, Stuck

\* Nothing changes the row of a run but its end.
LEMMA OthersStay ==
  ASSUME TypeOK, RunsKeepTheirRow, NEW done \in runs, runs' = runs \ {done},
         NEW new, status' = [status EXCEPT ![done.row] = new] \/ status' = status,
         UNCHANGED <<stuck_at, now, fetches>>
  PROVE  RunsKeepTheirRow'
<1>1. \A run \in runs' : run \in runs /\ run.row # done.row
  BY DEF RunsKeepTheirRow
<1>2. \A run \in runs' : status'[run.row] = status[run.row]
  BY <1>1 DEF TypeOK, Run
<1>3. QED
  BY <1>1, <1>2 DEF RunsKeepTheirRow

LEMMA RunsKeepTheirRowNext ==
  ASSUME TypeOK, StuckTimeout # 0, LoopsAreApart, ~RunsMayBeLate, RunsKeepTheirRow,
         [Next]_vars
  PROVE  RunsKeepTheirRow'
<1> USE FetchAssumption DEF TypeOK
<1>1. ASSUME NEW r \in Rows, NEW delay \in Delays, Insert(r, delay)
      PROVE  RunsKeepTheirRow'
  <2>1. \A run \in runs : run.row # r /\ status'[run.row] = status[run.row]
    BY <1>1 DEF Insert, RunsKeepTheirRow, Run
  <2>2. QED
    BY <1>1, <2>1 DEF Insert, RunsKeepTheirRow
<1>2. ASSUME NEW p \in Pollers, NEW size \in FetchSizes, Pick(p, size)
      PROVE  RunsKeepTheirRow'
  <2>1. PICK batch \in candidates(Wanted[p], size) :
          fetches' = [fetches EXCEPT ![p] =
            [phase |-> "picked", at |-> now, size |-> size, batch |-> batch]]
    BY <1>2 DEF Pick
  <2>2. batch \subseteq Due(Wanted[p]) /\ Due(Wanted[p]) \subseteq Served(Wanted[p])
    BY PicksDueRows
  <2>3. \A run \in runs : run.row \notin batch
    BY <2>2 DEF RunsKeepTheirRow, Due, Pending, Stuck, Run
  <2>4. now < now + StuckTimeout
    OBVIOUS
  <2>5. ASSUME NEW q \in Pollers, fetches'[q].phase = "picked"
        PROVE  /\ fetches'[q].batch \subseteq Served(Wanted[q])
               /\ now < fetches'[q].at + StuckTimeout
               /\ \A run \in runs : run.row \notin fetches'[q].batch
    <3>1. CASE q = p
      BY <2>1, <2>2, <2>3, <2>4, <3>1
    <3>2. CASE q # p
      BY <2>1, <2>5, <3>2 DEF RunsKeepTheirRow
    <3>3. QED
      BY <3>1, <3>2
  <2>6. QED
    BY <1>2, <2>5 DEF Pick, RunsKeepTheirRow
\* The rows of a batch have no run yet.
<1>3. ASSUME NEW p \in Pollers, Update(p)
      PROVE  /\ \A r \in fetches[p].batch :
                  status'[r] = "running" /\ stuck_at'[r] = fetches[p].at + StuckTimeout
             /\ \A run \in runs : /\ run.row \notin fetches[p].batch
                                  /\ status'[run.row] = status[run.row]
                                  /\ stuck_at'[run.row] = stuck_at[run.row]
             /\ fetches'[p].phase = "idle"
             /\ \A q \in Pollers : q # p => fetches'[q] = fetches[q]
             /\ fetches[p].batch \subseteq Served(Wanted[p])
             /\ now < fetches[p].at + StuckTimeout
             /\ now' = now
  <2>1. fetches[p].phase = "picked" /\ fetches[p].batch \subseteq Rows
    BY <1>3 DEF Update, Fetch
  <2>2. \A run \in runs : run.row \in Rows /\ run.row \notin fetches[p].batch
    BY <2>1 DEF RunsKeepTheirRow, Run
  <2>3. fetches' = [fetches EXCEPT ![p] = NoFetch] /\ NoFetch.phase = "idle"
    BY <1>3 DEF Update, NoFetch
  <2>4. QED
    BY <1>3, <2>1, <2>2, <2>3 DEF Update, RunsKeepTheirRow
<1>4. ASSUME NEW p \in Pollers, ClaimReplyLost(p)
      PROVE  RunsKeepTheirRow'
  <2>1. Update(p) /\ runs' = runs
    BY <1>4 DEF ClaimReplyLost
  <2>2. QED
    BY <1>3, <2>1 DEF RunsKeepTheirRow
<1>5. ASSUME NEW p \in Pollers, Claim(p)
      PROVE  RunsKeepTheirRow'
  <2> DEFINE until == fetches[p].at + StuckTimeout
             new == [poller: {p}, row: fetches[p].batch, until: {until}]
  <2>1. Update(p) /\ runs' = runs \cup new
    BY <1>5 DEF Claim
  <2>2. \A run \in new : run.poller = p /\ run.row \in fetches[p].batch /\ run.until = until
    OBVIOUS
  <2>3. \A run, other \in new : run.row = other.row => run = other
    OBVIOUS
  <2> HIDE DEF new
  <2>4. ASSUME NEW run \in runs'
        PROVE  /\ run.row \in Served(Wanted[run.poller])
               /\ status'[run.row] = "running" /\ stuck_at'[run.row] = run.until
               /\ now' < run.until
    BY <1>3, <2>1, <2>2 DEF RunsKeepTheirRow
  <2>5. ASSUME NEW run \in runs', NEW other \in runs', run.row = other.row
        PROVE  run = other
    BY <1>3, <2>1, <2>2, <2>3, <2>5 DEF RunsKeepTheirRow
  <2>6. ASSUME NEW q \in Pollers, fetches'[q].phase = "picked"
        PROVE  /\ fetches'[q].batch \subseteq Served(Wanted[q])
               /\ now' < fetches'[q].at + StuckTimeout
               /\ \A run \in runs' : run.row \notin fetches'[q].batch
    <3>1. q # p /\ fetches'[q] = fetches[q]
      BY <1>3, <2>1, <2>6
    <3>2. fetches[q].batch \cap fetches[p].batch = {}
      BY <1>3, <2>1, <2>6, <3>1 DEF RunsKeepTheirRow, LoopsAreApart
    <3>3. QED
      BY <1>3, <2>1, <2>2, <2>6, <3>1, <3>2 DEF RunsKeepTheirRow
  <2>7. QED
    BY <2>4, <2>5, <2>6 DEF RunsKeepTheirRow
<1>6. ASSUME NEW p \in Pollers, FetchFails(p)
      PROVE  RunsKeepTheirRow'
  <2>1. /\ \A q \in Pollers : fetches'[q].phase = "picked" => fetches'[q] = fetches[q]
        /\ UNCHANGED <<status, stuck_at, now, runs>>
    BY <1>6 DEF FetchFails, NoFetch
  <2>2. QED
    BY <2>1 DEF RunsKeepTheirRow
<1>7. ASSUME NEW run \in runs,
             End(run) \/ RunLost(run) \/ \E backoff \in Delays : ReSchedule(run, backoff)
      PROVE  RunsKeepTheirRow'
  BY <1>7, OthersStay DEF End, RunLost, ReSchedule
<1>8. CASE Tick
  BY <1>8 DEF Tick, RunsKeepTheirRow, Run, Fetch
<1>9. CASE UNCHANGED vars
  BY <1>9 DEF vars, RunsKeepTheirRow
<1>10. QED
  BY <1>1, <1>2, <1>4, <1>5, <1>6, <1>7, <1>8, <1>9 DEF Next

LEMMA RunsAreLateNext ==
  ASSUME TypeOK, StuckTimeout = 0, RunsAreLate, [Next]_vars
  PROVE  RunsAreLate'
<1> USE FetchAssumption DEF TypeOK, RunsAreLate
<1>1. ASSUME NEW p \in Pollers, Update(p)
      PROVE  /\ \A q \in Pollers : fetches'[q].at <= now'
             /\ now' = now /\ fetches[p].at + StuckTimeout <= now
  BY <1>1 DEF Update, NoFetch, Fetch
<1>2. ASSUME NEW p \in Pollers, Claim(p)
      PROVE  RunsAreLate'
  <2>1. \A run \in runs' : run \in runs \/ run.until = fetches[p].at + StuckTimeout
    BY <1>2 DEF Claim
  <2>2. QED
    BY <1>1, <1>2, <2>1 DEF Claim
<1>3. ASSUME NEW p \in Pollers, ClaimReplyLost(p)
      PROVE  RunsAreLate'
  BY <1>1, <1>3 DEF ClaimReplyLost
<1>4. ASSUME NEW p \in Pollers, FetchFails(p) \/ \E size \in FetchSizes : Pick(p, size)
      PROVE  RunsAreLate'
  BY <1>4 DEF FetchFails, Pick, NoFetch, Fetch
<1>5. ASSUME NEW run \in runs,
             End(run) \/ RunLost(run) \/ \E backoff \in Delays : ReSchedule(run, backoff)
      PROVE  RunsAreLate'
  BY <1>5 DEF End, RunLost, ReSchedule
<1>6. CASE Tick
  BY <1>6 DEF Tick, Run, Fetch
<1>7. CASE UNCHANGED vars \/ \E r \in Rows, delay \in Delays : Insert(r, delay)
  BY <1>7 DEF vars, Insert
<1>8. QED
  BY <1>2, <1>3, <1>4, <1>5, <1>6, <1>7 DEF Next

\* With loops that fetch different names and runs that end in time, each run has a
\* row of its own that stays running, and not yet stuck, as long as the run does,
\* and no fetch between its snapshot and its update has picked that row.
THEOREM ClaimsInvariant == Spec => []ClaimsInv
<1>1. Init => ClaimsInv
  BY FetchAssumption DEF Init, ClaimsInv, RunsAreLate, RunsKeepTheirRow, NoFetch
<1>2. TypeOK /\ ClaimsInv /\ [Next]_vars => ClaimsInv'
  BY RunsAreLateNext, RunsKeepTheirRowNext DEF ClaimsInv
<1>3. QED
  BY <1>1, <1>2, TypeCorrect, PTL DEF Spec

\* While no run outlives its stuck timeout, no two runs of a row are in time at
\* once, whatever is crashed, lost and scheduled again, if no two poll loops
\* fetch the same rows: each statement is alone with its rows then, although its
\* locking clause locks none of them.  (Two loops that share rows can claim one
\* twice: the run race.)
THEOREM ClaimsAreExclusive ==
  ASSUME LoopsAreApart, ~RunsMayBeLate
  PROVE  Spec => []ClaimIsExclusive
<1>1. TypeOK /\ ClaimsInv => ClaimIsExclusive
  <2>1. TypeOK /\ RunsAreLate => ClaimIsExclusive
    BY DEF RunsAreLate, ClaimIsExclusive, TypeOK, Run
  <2>2. RunsKeepTheirRow => ClaimIsExclusive
    BY DEF RunsKeepTheirRow, ClaimIsExclusive
  <2>3. QED
    BY <2>1, <2>2 DEF ClaimsInv
<1>2. QED
  BY <1>1, ClaimsInvariant, TypeCorrect, PTL
=============================================================================
