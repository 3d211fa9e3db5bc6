----------------------------- MODULE PollLoopProofs -----------------------------
(*****************************************************************************)
(* Proofs about the polling loop, for any number of slots, any batch size and *)
(* any finite set of jobs.                                                   *)
(*****************************************************************************)
EXTENDS PollLoop, FiniteSetTheorems, TLAPS

\* Rows in flight are finitely many, and their numbers are natural numbers.
LEMMA JobsFinite ==
  ASSUME NEW S \in SUBSET Jobs
  PROVE  IsFiniteSet(S) /\ Cardinality(S) \in Nat
BY PollLoopAssumption, FS_Subset, FS_CardinalityType

\* A claim query returns no more rows than its limit.
LEMMA ClaimedBound ==
  ASSUME TypeOK
  PROVE  Claimed \subseteq Queued /\ Cardinality(Claimed) <= fetchSize
<1> DEFINE n == IF Len(queue) <= fetchSize THEN Len(queue) ELSE fetchSize
           f == [i \in 1..n |-> queue[i]]
<1>1. Len(queue) \in Nat /\ fetchSize \in Nat /\ n \in Nat /\ n <= fetchSize
  BY DEF TypeOK
<1>2. Claimed = {queue[i] : i \in 1..n}
  BY <1>1 DEF Claimed
<1>3. f \in Surjection(1..n, Claimed)
  BY <1>2 DEF Surjection
<1>4. ExistsSurjection(1..n, Claimed)
  BY <1>3 DEF ExistsSurjection
<1> HIDE DEF n, f
<1>5. Cardinality(Claimed) <= n
  BY <1>1, <1>4, FS_SurjCardinalityBound
<1>6. Cardinality(Claimed) \in Nat
  <2>1. Claimed \in SUBSET Jobs
    BY DEF Claimed, TypeOK
  <2>2. QED
    BY <2>1, JobsFinite
<1>7. Cardinality(Claimed) <= fetchSize
  BY <1>1, <1>5, <1>6
<1>8. Claimed \subseteq Queued
  BY DEF Claimed, Queued
<1>9. QED
  BY <1>7, <1>8

\* What a claim query leaves in the queue is what it did not take.
LEMMA UnclaimedRest ==
  ASSUME TypeOK, InOnePlace, queue' = Unclaimed
  PROVE  /\ queue' \in Seq(Jobs)
         /\ Queued' \subseteq Queued
         /\ Queued' \cap Claimed = {}
         /\ \A i, k \in 1..Len(queue') : queue'[i] = queue'[k] => i = k
<1>1. Len(queue) \in Nat /\ fetchSize \in Nat
  BY DEF TypeOK
<1>2. CASE Len(queue) <= fetchSize
  <2>1. queue' = <<>>
    BY <1>2 DEF Unclaimed
  <2>2. QED
    BY <2>1 DEF Queued
<1>3. CASE Len(queue) > fetchSize
  <2>1. queue' = SubSeq(queue, fetchSize + 1, Len(queue))
    BY <1>1, <1>3 DEF Unclaimed
  <2>2. /\ queue' \in Seq(Jobs)
        /\ Len(queue') = Len(queue) - fetchSize
        /\ \A i \in 1..Len(queue') : queue'[i] = queue[fetchSize + i]
    BY <1>1, <1>3, <2>1 DEF TypeOK
  <2>3. \A i \in 1..Len(queue') : fetchSize + i \in 1..Len(queue) /\ fetchSize + i > fetchSize
    BY <1>1, <1>3, <2>2
  <2>4. \A i, k \in 1..Len(queue') : queue'[i] = queue'[k] => i = k
    BY <1>1, <2>2, <2>3 DEF InOnePlace
  <2>5. Queued' \subseteq Queued
    BY <2>2, <2>3 DEF Queued
  <2>6. ASSUME NEW i \in 1..Len(queue') PROVE queue'[i] \notin Claimed
    BY <1>1, <2>2, <2>3 DEF Claimed, InOnePlace
  <2>7. Queued' \cap Claimed = {}
    BY <2>6 DEF Queued
  <2>8. QED
    BY <2>2, <2>4, <2>5, <2>7
<1>4. QED
  BY <1>1, <1>2, <1>3

\* A row that was nowhere is put at the end of the queue.
LEMMA Appended ==
  ASSUME TypeOK, InOnePlace, NEW j \in Jobs, j \notin Queued, queue' = Append(queue, j)
  PROVE  /\ queue' \in Seq(Jobs)
         /\ Queued' = Queued \cup {j}
         /\ \A i, k \in 1..Len(queue') : queue'[i] = queue'[k] => i = k
<1>1. /\ queue' \in Seq(Jobs)
      /\ Len(queue') = Len(queue) + 1
      /\ \A i \in 1..Len(queue) : queue'[i] = queue[i]
      /\ queue'[Len(queue) + 1] = j
      /\ Len(queue) \in Nat
  BY DEF TypeOK
<1>2. 1..Len(queue') = 1..Len(queue) \cup {Len(queue) + 1}
  BY <1>1
<1>3. Queued' = Queued \cup {j}
  BY <1>1, <1>2 DEF Queued
<1>4. \A i \in 1..Len(queue) : queue[i] # j
  BY DEF Queued
<1>5. QED
  BY <1>1, <1>2, <1>3, <1>4 DEF InOnePlace

-----------------------------------------------------------------------------
(* The inductive invariant *)

THEOREM InitIInv == Init => IInv
<1> SUFFICES ASSUME Init PROVE IInv
  OBVIOUS
<1>1. TypeOK
  <2>1. queue \in Seq(Jobs) /\ errors \in 0..MaxErrors
    BY PollLoopAssumption DEF Init
  <2>2. QED
    BY <2>1 DEF Init, TypeOK
<1>2. InOnePlace
  BY DEF Init, InOnePlace, Queued
<1>3. SlotsCounted
  BY FS_EmptySet, PollLoopAssumption DEF Init, SlotsCounted
<1>4. QED
  BY <1>1, <1>2, <1>3 DEF Init, IInv, SendNeverBlocks, StopDrains

\* The storage and the ticker move no row that the worker holds.
LEMMA EnvironmentIInv ==
  ASSUME IInv, Tick \/ \E j \in Jobs : Arrive(j) \/ Recover(j)
  PROVE  IInv'
<1> USE DEF IInv
<1>1. CASE Tick
  BY <1>1 DEF Tick, jobVars, TypeOK, InOnePlace, SlotsCounted, SendNeverBlocks, StopDrains, Queued
<1>2. ASSUME NEW j \in Jobs, Arrive(j) \/ Recover(j) PROVE IInv'
  <2>1. /\ queue' = Append(queue, j)
        /\ lost' = lost \ {j}
        /\ j \notin Queued \cup batch \cup running \cup ending
        /\ UNCHANGED <<batch, sem, running, ending, loop, tick, fetchSize, drained,
                       stopped, stop, errors>>
    BY <1>2 DEF Arrive, Recover, InOnePlace
  <2>2. /\ queue' \in Seq(Jobs)
        /\ Queued' = Queued \cup {j}
        /\ \A i, k \in 1..Len(queue') : queue'[i] = queue'[k] => i = k
    BY <2>1, Appended
  <2>3. TypeOK'
    BY <2>1, <2>2 DEF TypeOK
  <2>4. InOnePlace'
    <3>1. (Queued \cap (lost \cup batch \cup running \cup ending) = {})'
      BY <2>1, <2>2 DEF InOnePlace
    <3>2. QED
      BY <2>1, <2>2, <3>1 DEF InOnePlace
  <2>5. (SlotsCounted /\ SendNeverBlocks /\ StopDrains)'
    BY <2>1 DEF SlotsCounted, SendNeverBlocks, StopDrains
  <2>6. QED
    BY <2>3, <2>4, <2>5
<1>3. QED
  BY <1>1, <1>2

\* The steps of the polling goroutine that only move it.
LEMMA ControlIInv ==
  ASSUME IInv, TakeTick \/ TakeStop \/ CountSlots \/ CheckStopped
  PROVE  IInv'
<1> USE DEF IInv
<1>1. UNCHANGED <<jobVars, stopped, stop, errors, drained>>
  BY DEF TakeTick, TakeStop, CountSlots, CheckStopped
<1>2. InOnePlace'
  BY <1>1 DEF jobVars, InOnePlace, Queued
<1>3. loop \in {"wait", "slots", "check"} /\ loop' \in {"wait", "slots", "fetch", "exited"}
  BY DEF TakeTick, TakeStop, CountSlots, CheckStopped
<1>4. /\ loop' = "fetch" => fetchSize' + sem <= Concurrency
      /\ fetchSize' \in Nat
      /\ tick' \in BOOLEAN
  <2>1. CASE CountSlots
    <3>1. /\ Concurrency \in Nat /\ BatchSize \in Nat /\ sem \in Nat /\ fetchSize \in Nat
          /\ sem <= Concurrency /\ tick \in BOOLEAN
      BY PollLoopAssumption DEF TypeOK, SlotsCounted
    <3>2. \/ loop' = "wait" /\ UNCHANGED <<fetchSize, tick>>
          \/ /\ loop' = "fetch"
             /\ fetchSize' = IF Concurrency - sem < BatchSize THEN Concurrency - sem ELSE BatchSize
             /\ UNCHANGED tick
      BY <2>1 DEF CountSlots
    <3>3. QED
      BY <3>1, <3>2
  <2>2. CASE TakeTick \/ TakeStop \/ CheckStopped
    BY <2>2 DEF TakeTick, TakeStop, CheckStopped, TypeOK
  <2>3. QED
    BY <2>1, <2>2
<1>5. TypeOK'
  BY <1>1, <1>3, <1>4 DEF TypeOK, jobVars
<1>6. QED
  BY <1>1, <1>2, <1>3, <1>4, <1>5 DEF jobVars, SlotsCounted, SendNeverBlocks, StopDrains

LEMMA FetchIInv ==
  ASSUME IInv, Fetch \/ FetchFails
  PROVE  IInv'
<1> USE DEF IInv
<1>1. /\ loop = "fetch"
      /\ UNCHANGED <<sem, running, ending, tick, fetchSize, stopped, stop>>
      /\ batch = {}
  BY DEF Fetch, FetchFails, SlotsCounted
<1>2. Claimed \subseteq Queued /\ Cardinality(Claimed) <= fetchSize /\ Claimed \subseteq Jobs
  BY ClaimedBound DEF Claimed, TypeOK
<1>3. /\ Unclaimed \in Seq(Jobs)
      /\ queue' = Unclaimed =>
           /\ Queued' \subseteq Queued
           /\ Queued' \cap Claimed = {}
           /\ \A i, k \in 1..Len(queue') : queue'[i] = queue'[k] => i = k
  BY UnclaimedRest DEF Unclaimed, TypeOK
<1>4. CASE Fetch
  <2>1. /\ batch' = Claimed
        /\ queue' = Unclaimed
        /\ loop' = IF Claimed = {} THEN "wait" ELSE "dispatch"
        /\ drained' = (Len(queue) < fetchSize)
        /\ UNCHANGED <<lost, errors>>
    BY <1>4 DEF Fetch
  <2>2. TypeOK'
    BY <1>1, <1>2, <1>3, <2>1 DEF TypeOK
  <2>3. InOnePlace'
    <3>1. \A i, k \in 1..Len(queue') : queue'[i] = queue'[k] => i = k
      BY <1>3, <2>1
    <3>2. /\ Queued' \subseteq Queued
          /\ Queued' \cap batch' = {}
          /\ batch' \subseteq Queued
      BY <1>2, <1>3, <2>1
    <3>3. /\ (Queued \cap (lost \cup batch \cup running \cup ending) = {})'
          /\ (lost \cap (batch \cup running \cup ending) = {})'
          /\ (batch \cap (running \cup ending) = {})'
          /\ (running \cap ending = {})'
      BY <1>1, <2>1, <3>2 DEF InOnePlace
    <3>4. QED
      BY <3>1, <3>3 DEF InOnePlace
  <2>4. Cardinality(running) \in Nat /\ Cardinality(batch') \in Nat
    BY <1>2, <2>1, JobsFinite DEF TypeOK
  <2>5. (SlotsCounted /\ SendNeverBlocks)'
    BY <1>1, <1>2, <2>1, <2>4, PollLoopAssumption DEF SlotsCounted, SendNeverBlocks, TypeOK
  <2>6. StopDrains'
    BY <1>1 DEF StopDrains
  <2>7. QED
    BY <2>2, <2>3, <2>5, <2>6
<1>5. CASE FetchFails
  <2>1. /\ loop' = "wait"
        /\ errors' = errors + 1 /\ errors < MaxErrors
        /\ UNCHANGED <<batch, drained>>
        /\ \/ lost' = lost \cup Claimed /\ queue' = Unclaimed
           \/ UNCHANGED <<lost, queue>>
    BY <1>5 DEF FetchFails
  <2>2. TypeOK'
    BY <1>1, <1>2, <1>3, <2>1, PollLoopAssumption DEF TypeOK
  <2>3. InOnePlace'
    <3>1. CASE UNCHANGED <<lost, queue>>
      BY <1>1, <2>1, <3>1 DEF InOnePlace, Queued
    <3>2. CASE lost' = lost \cup Claimed /\ queue' = Unclaimed
      <4>1. /\ \A i, k \in 1..Len(queue') : queue'[i] = queue'[k] => i = k
            /\ Queued' \subseteq Queued
            /\ Queued' \cap Claimed = {}
        BY <1>3, <3>2
      <4>2. /\ (Queued \cap (lost \cup batch \cup running \cup ending) = {})'
            /\ (lost \cap (batch \cup running \cup ending) = {})'
            /\ (batch \cap (running \cup ending) = {})'
            /\ (running \cap ending = {})'
        BY <1>1, <1>2, <2>1, <3>2, <4>1 DEF InOnePlace
      <4>3. QED
        BY <4>1, <4>2 DEF InOnePlace
    <3>3. QED
      BY <2>1, <3>1, <3>2
  <2>4. (SlotsCounted /\ SendNeverBlocks /\ StopDrains)'
    BY <1>1, <2>1 DEF SlotsCounted, SendNeverBlocks, StopDrains
  <2>5. QED
    BY <2>2, <2>3, <2>4
<1>6. QED
  BY <1>4, <1>5

LEMMA DispatchIInv ==
  ASSUME IInv, NEW j \in Jobs, Dispatch(j)
  PROVE  IInv'
<1> USE DEF IInv
<1>1. /\ loop = "dispatch" /\ j \in batch
      /\ sem < Concurrency
      /\ sem' = sem + 1
      /\ batch' = batch \ {j}
      /\ running' = running \cup {j}
      /\ loop' = IF batch # {j} THEN "dispatch" ELSE IF drained THEN "wait" ELSE "check"
      /\ UNCHANGED <<queue, lost, ending, tick, fetchSize, drained, stopped, stop, errors>>
  BY DEF Dispatch
<1>2. j \notin running
  BY <1>1 DEF InOnePlace
<1>3. /\ Cardinality(running') = Cardinality(running) + 1
      /\ Cardinality(batch') = Cardinality(batch) - 1
      /\ Cardinality(running) \in Nat /\ Cardinality(batch) \in Nat
  BY <1>1, <1>2, JobsFinite, FS_AddElement, FS_RemoveElement DEF TypeOK
<1>4. TypeOK'
  BY <1>1 DEF TypeOK
<1>5. InOnePlace'
  BY <1>1 DEF InOnePlace, Queued
<1>6. batch' = {} <=> batch = {j}
  BY <1>1
<1>7. (SlotsCounted /\ SendNeverBlocks)'
  BY <1>1, <1>3, <1>6, PollLoopAssumption DEF SlotsCounted, SendNeverBlocks, TypeOK
<1>8. StopDrains'
  BY <1>1 DEF StopDrains
<1>9. QED
  BY <1>4, <1>5, <1>7, <1>8

LEMMA GoroutineIInv ==
  ASSUME IInv, NEW j \in Jobs, HandlerEnds(j) \/ GoroutineEnds(j)
  PROVE  IInv'
<1> USE DEF IInv
<1>1. UNCHANGED <<queue, lost, batch, loop, tick, fetchSize, drained, stopped, stop, errors>>
  BY DEF HandlerEnds, GoroutineEnds
<1>2. CASE HandlerEnds(j)
  <2>1. /\ j \in running
        /\ running' = running \ {j}
        /\ sem' = sem - 1
        /\ ending' = ending \cup {j}
    BY <1>2 DEF HandlerEnds
  <2>2. /\ Cardinality(running') = Cardinality(running) - 1
        /\ Cardinality(running') \in Nat
        /\ Cardinality(running) \in Nat
        /\ Cardinality(batch) \in Nat
    BY <2>1, JobsFinite, FS_RemoveElement DEF TypeOK
  <2>3. TypeOK'
    BY <1>1, <2>1, <2>2 DEF TypeOK, SlotsCounted
  <2>4. InOnePlace'
    BY <1>1, <2>1 DEF InOnePlace, Queued
  <2>5. (SlotsCounted /\ SendNeverBlocks)'
    BY <1>1, <2>1, <2>2, PollLoopAssumption DEF SlotsCounted, SendNeverBlocks, TypeOK
  <2>6. StopDrains'
    BY <1>1, <2>1 DEF StopDrains
  <2>7. QED
    BY <2>3, <2>4, <2>5, <2>6
<1>3. CASE GoroutineEnds(j)
  <2>1. /\ ending' = ending \ {j}
        /\ UNCHANGED <<sem, running>>
    BY <1>3 DEF GoroutineEnds
  <2>2. QED
    BY <1>1, <2>1 DEF TypeOK, InOnePlace, Queued, SlotsCounted, SendNeverBlocks, StopDrains
<1>4. QED
  BY <1>2, <1>3

LEMMA StopIInv ==
  ASSUME IInv, StopCalled \/ StopReturnsNil \/ StopExpires
  PROVE  IInv'
<1> USE DEF IInv
<1>1. UNCHANGED <<jobVars, loop, tick, fetchSize, drained, errors>>
  BY DEF StopCalled, StopReturnsNil, StopExpires
<1>2. /\ stopped' \in BOOLEAN
      /\ stop' \in {"waiting", "nil", "error"}
      /\ stop' = "nil" => loop = "exited" /\ running = {} /\ ending = {}
  BY DEF StopCalled, StopReturnsNil, StopExpires, TypeOK
<1>3. TypeOK' /\ InOnePlace' /\ SlotsCounted' /\ SendNeverBlocks'
  BY <1>1, <1>2 DEF jobVars, TypeOK, InOnePlace, Queued, SlotsCounted, SendNeverBlocks
<1>4. StopDrains'
  BY <1>1, <1>2 DEF jobVars, StopDrains, SlotsCounted
<1>5. QED
  BY <1>3, <1>4

THEOREM NextIInv == IInv /\ [Next]_vars => IInv'
<1> SUFFICES ASSUME IInv, [Next]_vars PROVE IInv'
  OBVIOUS
<1>1. CASE Tick \/ \E j \in Jobs : Arrive(j) \/ Recover(j)
  BY <1>1, EnvironmentIInv
<1>2. CASE LoopStep
  BY <1>2, ControlIInv, FetchIInv, DispatchIInv DEF LoopStep
<1>3. CASE \E j \in Jobs : HandlerEnds(j) \/ GoroutineEnds(j)
  BY <1>3, GoroutineIInv
<1>4. CASE StopCalled \/ StopReturnsNil \/ StopExpires
  BY <1>4, StopIInv
<1>5. CASE UNCHANGED vars
  BY <1>5 DEF vars, jobVars, IInv, TypeOK, InOnePlace, Queued, SlotsCounted,
     SendNeverBlocks, StopDrains
<1>6. QED
  BY <1>1, <1>2, <1>3, <1>4, <1>5 DEF Next

THEOREM Invariance == Spec => []IInv
BY InitIInv, NextIInv, PTL DEF Spec

\* The rows of a batch find the slots that were counted before they were
\* fetched: the send to the semaphore never blocks the polling goroutine.
THEOREM SendsNeverBlock == Spec => []SendNeverBlocks
<1>1. IInv => SendNeverBlocks
  BY DEF IInv
<1>2. QED
  BY <1>1, Invariance, PTL

\* A Stop that returned nil has left no row behind: none is running, and none
\* was fetched and not dispatched.
THEOREM StopsDrained == Spec => []StopDrains
<1>1. IInv => StopDrains
  BY DEF IInv
<1>2. QED
  BY <1>1, Invariance, PTL
-----------------------------------------------------------------------------
(* The worker is a pool of runners *)

LEMMA FetchIsClaim ==
  ASSUME IInv, Fetch
  PROVE  Pool!Claim(Claimed)
<1> USE DEF IInv
<1>1. /\ loop = "fetch" /\ loop' # "exited"
      /\ batch = {} /\ batch' = Claimed /\ running' = running
  BY DEF Fetch, SlotsCounted
<1>2. Claimed \subseteq Queued /\ Cardinality(Claimed) <= fetchSize
  BY ClaimedBound
<1>3. Claimed \cap running = {}
  BY <1>2 DEF InOnePlace
<1>4. Cardinality(running \cup Claimed) <= Concurrency
  <2>1. Claimed \in SUBSET Jobs /\ running \in SUBSET Jobs
    BY DEF Claimed, TypeOK
  <2>2. /\ IsFiniteSet(Claimed) /\ Cardinality(Claimed) \in Nat
        /\ IsFiniteSet(running) /\ Cardinality(running) \in Nat
    BY <2>1, JobsFinite
  <2>3. Cardinality(running \cup Claimed)
          = Cardinality(running) + Cardinality(Claimed) - Cardinality(running \cap Claimed)
    BY <2>2, FS_Union
  <2>4. Cardinality(running \cap Claimed) = 0
    BY <1>3, FS_EmptySet
  <2>5. fetchSize + Cardinality(running) <= Concurrency
    BY <1>1 DEF SlotsCounted
  <2>6. QED
    BY <1>2, <2>2, <2>3, <2>4, <2>5, PollLoopAssumption DEF TypeOK
<1>5. batch \cup running = running /\ batch' \cup running' = running \cup Claimed
  BY <1>1
<1>6. (loop # "exited") /\ (loop' # "exited") = (loop # "exited")
  BY <1>1
<1>7. Cardinality((batch \cup running) \cup Claimed) <= Concurrency
  BY <1>4, <1>5
<1>8. Pool!Cardinality((batch \cup running) \cup Claimed) <= Concurrency
  BY <1>7 DEF Pool!Cardinality, Cardinality
<1>9. QED
  BY <1>3, <1>5, <1>6, <1>8, Zenon DEF Pool!Claim

LEMMA NextIsPoolStep ==
  IInv /\ [Next]_vars => [Pool!Next]_<<batch \cup running, loop # "exited">>
<1> SUFFICES ASSUME IInv, [Next]_vars
             PROVE  [Pool!Next]_<<batch \cup running, loop # "exited">>
  OBVIOUS
<1> DEFINE Stutter == UNCHANGED <<batch \cup running, loop # "exited">>
<1> USE DEF IInv
<1>1. ASSUME NEW j \in Jobs, Arrive(j) \/ Recover(j) \/ GoroutineEnds(j)
      PROVE  Stutter
  BY <1>1 DEF Arrive, Recover, GoroutineEnds
<1>2. CASE Tick \/ TakeTick \/ CountSlots \/ FetchFails
  BY <1>2 DEF Tick, TakeTick, CountSlots, FetchFails, jobVars
<1>3. CASE TakeStop \/ CheckStopped
  <2>1. CASE loop' = "exited"
    BY <1>3, <2>1 DEF TakeStop, CheckStopped, jobVars, Pool!Next, Pool!Close
  <2>2. CASE loop' # "exited"
    BY <1>3, <2>2 DEF TakeStop, CheckStopped, jobVars
  <2>3. QED
    BY <2>1, <2>2
<1>4. CASE Fetch
  <2>1. Claimed \in SUBSET Jobs
    BY DEF Claimed, TypeOK
  <2>2. QED
    BY <1>4, <2>1, FetchIsClaim DEF Pool!Next
<1>5. ASSUME NEW j \in Jobs, Dispatch(j)
      PROVE  Stutter
  <2>1. batch' \cup running' = batch \cup running
    BY <1>5 DEF Dispatch
  <2>2. loop # "exited" /\ loop' # "exited"
    BY <1>5 DEF Dispatch
  <2>3. QED
    BY <2>1, <2>2
<1>6. ASSUME NEW j \in Jobs, HandlerEnds(j)
      PROVE  Pool!Finish(j)
  <2>1. batch \cap running = {}
    BY DEF InOnePlace
  <2>2. batch' = batch /\ running' = running \ {j} /\ j \in running /\ loop' = loop
    BY <1>6 DEF HandlerEnds
  <2>3. QED
    BY <2>1, <2>2 DEF Pool!Finish
<1>7. CASE StopCalled \/ StopReturnsNil \/ StopExpires
  BY <1>7 DEF StopCalled, StopReturnsNil, StopExpires, jobVars
<1>8. CASE UNCHANGED vars
  BY <1>8 DEF vars, jobVars
<1>9. QED
  BY <1>1, <1>2, <1>3, <1>4, <1>5, <1>6, <1>7, <1>8 DEF Next, LoopStep, Pool!Next

\* The polling loop implements a pool of Concurrency runners: it never holds
\* more rows than it has slots, holds none twice, and claims none once it has
\* exited.
THEOREM ImplementsRunnerPool == Spec => IsRunnerPool
<1>1. Init => Pool!Init
  BY DEF Init, Pool!Init
<1>2. QED
  BY <1>1, NextIsPoolStep, Invariance, PTL DEF Spec, IsRunnerPool, Pool!Spec
=============================================================================
