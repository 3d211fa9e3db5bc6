---------------------------- MODULE FlowwDurableProofs ----------------------------
(*****************************************************************************)
(* Proof that the engine implements durable workflows (DurableWorkflow) where *)
(* no claim overlaps a run and the keys of a workflow are distinct.           *)
(*****************************************************************************)
EXTENDS FlowwWakeupProofs

\* The signals of one workflow have distinct keys.
DistinctSignalKeys ==
  \A w \in WorkflowIDs : \A s, t \in Signals :
    SignalKey[<<w, s>>] = SignalKey[<<w, t>>] => s = t

-----------------------------------------------------------------------------
(* The tables as the abstract specification sees them *)

Status == [w \in WorkflowIDs |-> workflows[w].status]
RequestedBy(w) == {a \in Activities : OwnsActivity(w, ActivityKey[w, a])}
Requested == [w \in WorkflowIDs |-> RequestedBy(w)]
Hist == [w \in WorkflowIDs |-> ListHistoryEventsForWorkflow(w)]
Sigs == [w \in WorkflowIDs |-> ListWorkflowSignals(w)]

LEMMA DurableStart ==
  ASSUME NEW w \in WorkflowIDs,
         Status[w] = "none", Status' = [Status EXCEPT ![w] = "running"],
         UNCHANGED <<Requested, Hist, Sigs>>
  PROVE  Durable!Next
<1>1. Durable!Start(w)
  BY DEF Durable!Start, Status, Requested, RequestedBy, Hist, Sigs
<1>2. QED
  BY <1>1 DEF Durable!Next

LEMMA DurableRequest ==
  ASSUME NEW w \in WorkflowIDs, NEW a \in Activities,
         Status[w] \in {"running", "completed", "failed"},
         a \notin Requested[w],
         Requested' = [Requested EXCEPT ![w] = Requested[w] \cup {a}],
         \E program \in Durable!Programs(w) :
           \E n \in DOMAIN program.calls : program.calls[n] = a,
         UNCHANGED <<Status, Hist, Sigs>>
  PROVE  Durable!Next
<1>1. Durable!Request(w, a)
  BY DEF Durable!Request, Durable!Alive, Status, Requested, RequestedBy, Hist, Sigs
<1>2. QED
  BY <1>1 DEF Durable!Next

LEMMA DurableAnswer ==
  ASSUME NEW w \in WorkflowIDs, NEW a \in Activities, NEW output \in Outputs,
         Status[w] \in {"running", "completed", "failed"},
         a \in Requested[w], Hist[w][a] = None,
         Hist' = [Hist EXCEPT ![w] = [Hist[w] EXCEPT ![a] = output]],
         UNCHANGED <<Status, Requested, Sigs>>
  PROVE  Durable!Next
<1>1. Durable!Answer(w, a, output)
  BY DEF Durable!Answer, Durable!Alive, Status, Requested, RequestedBy, Hist, Sigs
<1>2. QED
  BY <1>1 DEF Durable!Next

LEMMA DurableReceive ==
  ASSUME NEW w \in WorkflowIDs, NEW s \in Signals, NEW input \in Inputs,
         Status[w] \in {"running", "completed", "failed"},
         Sigs[w][s] = None,
         Sigs' = [Sigs EXCEPT ![w] = [Sigs[w] EXCEPT ![s] = input]],
         UNCHANGED <<Status, Requested, Hist>>
  PROVE  Durable!Next
<1>1. Durable!Receive(w, s, input)
  BY DEF Durable!Receive, Durable!Alive, Status, Requested, RequestedBy, Hist, Sigs
<1>2. QED
  BY <1>1 DEF Durable!Next

LEMMA DurableEnd ==
  ASSUME NEW w \in WorkflowIDs,
         \/ /\ Status[w] \in {"running", "failed"}
            /\ Status' = [Status EXCEPT ![w] = "completed"]
            /\ \E program \in Durable!Programs(w) : program.outcome = "return"
         \/ /\ Status[w] \in {"running", "completed"}
            /\ Status' = [Status EXCEPT ![w] = "failed"],
         UNCHANGED <<Requested, Hist, Sigs>>
  PROVE  Durable!Next
<1>1. Durable!Complete(w) \/ Durable!Fail(w)
  BY DEF Durable!Complete, Durable!Fail, Status, Requested, RequestedBy, Hist, Sigs
<1>2. QED
  BY <1>1 DEF Durable!Next

LEMMA DurableDelete ==
  ASSUME NEW w \in WorkflowIDs,
         Status[w] \in {"completed", "failed"},
         Status' = [Status EXCEPT ![w] = "deleted"],
         Requested' = [Requested EXCEPT ![w] = {}],
         Hist' = [Hist EXCEPT ![w] = NoHistory],
         Sigs' = [Sigs EXCEPT ![w] = NoSignals]
  PROVE  Durable!Next
<1>1. Durable!Delete(w)
  BY DEF Durable!Delete, Durable!NoEvents, NoHistory, NoSignals,
         Status, Requested, RequestedBy, Hist, Sigs
<1>2. QED
  BY <1>1 DEF Durable!Next

LEMMA DurableStutter ==
  ASSUME UNCHANGED <<Status, Requested, Hist, Sigs>>
  PROVE  UNCHANGED Durable!vars
BY DEF Durable!vars, Status, Requested, RequestedBy, Hist, Sigs

-----------------------------------------------------------------------------
(* What a change of the tables is to the abstract specification *)

\* The row with key k is as good as before to workflow w.
RowSame(k, w) ==
  \/ activities'[k] = activities[k]
  \/ ~OwnsActivity(w, k) /\ ~OwnsActivity(w, k)'
  \/ /\ OwnsActivity(w, k) /\ OwnsActivity(w, k)'
     /\ activities[k].status # "completed" /\ activities'[k].status # "completed"

RowsSame(w) ==
  RequestedBy(w)' = RequestedBy(w)
  /\ ListHistoryEventsForWorkflow(w)' = ListHistoryEventsForWorkflow(w)

LEMMA SameRows ==
  ASSUME NEW w \in WorkflowIDs, \A k \in ActivityKeys : RowSame(k, w)
  PROVE  RowsSame(w)
<1>1. ASSUME NEW a \in Activities
      PROVE  LET k == ActivityKey[<<w, a>>]
             IN /\ OwnsActivity(w, k)' = OwnsActivity(w, k)
                /\ (IF OwnsActivity(w, k)' /\ activities'[k].status = "completed"
                    THEN activities'[k].output ELSE None)
                   = (IF OwnsActivity(w, k) /\ activities[k].status = "completed"
                      THEN activities[k].output ELSE None)
  <2> DEFINE k == ActivityKey[<<w, a>>]
  <2>1. RowSame(k, w)
    BY StorageAssumption
  <2> HIDE DEF k
  <2>2. /\ OwnsActivity(w, k)' = OwnsActivity(w, k)
        /\ (IF OwnsActivity(w, k)' /\ activities'[k].status = "completed"
            THEN activities'[k].output ELSE None)
           = (IF OwnsActivity(w, k) /\ activities[k].status = "completed"
              THEN activities[k].output ELSE None)
    BY <2>1 DEF RowSame, OwnsActivity
  <2>3. QED
    BY <2>2 DEF k
<1>2. RequestedBy(w)' = RequestedBy(w)
  BY <1>1 DEF RequestedBy
<1>3. ListHistoryEventsForWorkflow(w)' = ListHistoryEventsForWorkflow(w)
  BY <1>1 DEF ListHistoryEventsForWorkflow
<1>4. QED
  BY <1>2, <1>3 DEF RowsSame

\* Nothing happens to the activities.
LEMMA SameActivities ==
  ASSUME UNCHANGED activities
  PROVE  UNCHANGED <<Requested, Hist>>
<1>1. \A w \in WorkflowIDs : RowsSame(w)
  BY SameRows DEF RowSame
<1>2. QED
  BY <1>1 DEF RowsSame, Requested, Hist

LEMMA SameWorkflows ==
  ASSUME \A w \in WorkflowIDs : workflows'[w].status = workflows[w].status
  PROVE  UNCHANGED Status
BY DEF Status

LEMMA SameSignals ==
  ASSUME UNCHANGED signals
  PROVE  UNCHANGED Sigs
BY DEF Sigs, ListWorkflowSignals

LEMMA StatusSet ==
  ASSUME NEW w \in WorkflowIDs, NEW new, workflows'[w].status = new,
         \A u \in WorkflowIDs : u # w => workflows'[u].status = workflows[u].status
  PROVE  Status' = [Status EXCEPT ![w] = new] /\ Status[w] = workflows[w].status
BY DEF Status

DurableStep == Durable!Next \/ UNCHANGED Durable!vars

-----------------------------------------------------------------------------
(* Clients and cleaners *)

LEMMA EnqueueIsDurable ==
  ASSUME IInv, NEW w \in WorkflowIDs, NEW key \in RequestKeys, EnqueueWorkflow(w, key)
  PROVE  DurableStep
<1> DEFINE isNew == \A u \in WorkflowIDs : Exists(u) => workflows[u].key # key
           row == [workflows[w] EXCEPT !.status = "running", !.key = key]
<1>1. /\ workflows[w].status = "none"
      /\ workflows' = IF isNew THEN [workflows EXCEPT ![w] = row] ELSE workflows
      /\ UNCHANGED <<activities, signals>>
  BY DEF EnqueueWorkflow, InsertWorkflow
<1>2. UNCHANGED <<Requested, Hist, Sigs>>
  BY <1>1, SameActivities, SameSignals
<1>3. row.status = "running"
  BY DEF IInv, TypeOK, StorageTypeOK, WorkflowRow
<1> HIDE DEF isNew, row
<1>4. CASE isNew
  <2>1. /\ workflows'[w].status = "running"
        /\ \A u \in WorkflowIDs : u # w => workflows'[u].status = workflows[u].status
    BY <1>1, <1>3, <1>4 DEF IInv, TypeOK, StorageTypeOK
  <2>2. Status' = [Status EXCEPT ![w] = "running"] /\ Status[w] = "none"
    BY <1>1, <2>1, StatusSet
  <2>3. QED
    BY <1>2, <2>2, DurableStart DEF DurableStep
<1>5. CASE ~isNew
  BY <1>1, <1>2, <1>5, SameWorkflows, DurableStutter DEF DurableStep
<1>6. QED
  BY <1>4, <1>5

LEMMA SendSignalIsDurable ==
  ASSUME IInv, DistinctSignalKeys,
         NEW w \in WorkflowIDs, NEW s \in Signals, NEW input \in Inputs, SendSignal(w, s, input)
  PROVE  DurableStep
<1> DEFINE k == SignalKey[<<w, s>>]
<1>1. UNCHANGED <<workflows, activities>>
  BY DEF SendSignal, InsertSignal, storageVars
<1>2. UNCHANGED <<Status, Requested, Hist>>
  BY <1>1, SameActivities, SameWorkflows
<1>3. CASE InsertSignalFails(w, s)
  BY <1>2, <1>3, SameSignals, DurableStutter DEF SendSignal, storageVars, DurableStep
<1>4. CASE ~InsertSignalFails(w, s)
  <2>1. /\ signals[k].wf = None /\ Exists(w)
        /\ signals' = [signals EXCEPT ![k] = [wf |-> w, input |-> input]]
    BY <1>4 DEF SendSignal, InsertSignal, InsertSignalFails
  <2>2. k \in SignalKeys
    BY StorageAssumption
  <2> HIDE DEF k
  <2>3. \A j \in SignalKeys : signals'[j] = IF j = k THEN [wf |-> w, input |-> input]
                                            ELSE signals[j]
    BY <2>1 DEF IInv, TypeOK, StorageTypeOK
  <2>4. ASSUME NEW v \in WorkflowIDs, v # w
        PROVE  ListWorkflowSignals(v)' = ListWorkflowSignals(v)
    <3>1. v # None
      BY StorageAssumption
    <3>2. \A j \in SignalKeys : \/ signals'[j] = signals[j]
                                \/ signals[j].wf # v /\ signals'[j].wf # v
      BY <2>1, <2>3, <2>4, <3>1
    <3>3. QED
      BY <3>2, SignalsKept
  <2>5. ASSUME NEW t \in Signals
        PROVE  ListWorkflowSignals(w)'[t] = IF t = s THEN input ELSE ListWorkflowSignals(w)[t]
    <3> DEFINE j == SignalKey[<<w, t>>]
    <3>1. j \in SignalKeys /\ (j = k <=> t = s)
      BY StorageAssumption, DistinctSignalKeys DEF DistinctSignalKeys, k
    <3>2. /\ ListWorkflowSignals(w)[t] = IF signals[j].wf = w THEN signals[j].input ELSE None
          /\ ListWorkflowSignals(w)'[t] = IF signals'[j].wf = w THEN signals'[j].input ELSE None
      BY DEF ListWorkflowSignals
    <3>3. QED
      BY <2>3, <3>1, <3>2
  <2>6. ListWorkflowSignals(w)' = [ListWorkflowSignals(w) EXCEPT ![s] = input]
    BY <2>5 DEF ListWorkflowSignals
  <2>7. Sigs' = [Sigs EXCEPT ![w] = [Sigs[w] EXCEPT ![s] = input]]
    BY <2>4, <2>6 DEF Sigs
  <2>8. Sigs[w][s] = None
    BY <2>1, StorageAssumption DEF Sigs, ListWorkflowSignals, k
  <2>9. Status[w] \in {"running", "completed", "failed"}
    BY <2>1 DEF Status, Exists
  <2>10. QED
    BY <1>2, <2>7, <2>8, <2>9, DurableReceive DEF DurableStep
<1>5. QED
  BY <1>3, <1>4

LEMMA CleanIsDurable ==
  ASSUME IInv, NEW w \in WorkflowIDs, CleanColdWorkflows(w) \/ CleanDeadWorkflows(w)
  PROVE  DurableStep
<1>1. /\ workflows[w].status \in {"completed", "failed"}
      /\ workflows'[w].status = "deleted"
      /\ \A u \in WorkflowIDs : u # w => workflows'[u].status = workflows[u].status
      /\ activities' = [k \in ActivityKeys |->
           IF activities[k].wf = w THEN NoActivityRow ELSE activities[k]]
      /\ signals' = [k \in SignalKeys |->
           IF signals[k].wf = w THEN NoSignalRow ELSE signals[k]]
  BY DEF CleanColdWorkflows, CleanDeadWorkflows, deleteWorkflow, IInv, TypeOK, StorageTypeOK
<1>2. /\ NoActivityRow.status = "none"
      /\ NoSignalRow.wf = None /\ \A v \in WorkflowIDs : v # None
  BY StorageAssumption DEF NoActivityRow, NoSignalRow
<1>3. ASSUME NEW v \in WorkflowIDs, v # w
      PROVE  RowsSame(v) /\ ListWorkflowSignals(v)' = ListWorkflowSignals(v)
  <2>1. \A k \in ActivityKeys : RowSame(k, v)
    BY <1>1, <1>2, <1>3 DEF RowSame, OwnsActivity
  <2>2. \A k \in SignalKeys : \/ signals'[k] = signals[k]
                              \/ signals[k].wf # v /\ signals'[k].wf # v
    BY <1>1, <1>2, <1>3
  <2>3. QED
    BY <2>1, <2>2, SameRows, SignalsKept
<1>4. /\ RequestedBy(w)' = {}
      /\ ListHistoryEventsForWorkflow(w)' = NoHistory
  <2>1. \A k \in ActivityKeys : ~OwnsActivity(w, k)'
    BY <1>1, <1>2 DEF OwnsActivity
  <2>2. QED
    BY <2>1, StorageAssumption DEF RequestedBy, ListHistoryEventsForWorkflow, NoHistory
<1>5. ListWorkflowSignals(w)' = NoSignals
  BY <1>1, <1>2, StorageAssumption DEF ListWorkflowSignals, NoSignals
<1>6. /\ Requested' = [Requested EXCEPT ![w] = {}]
      /\ Hist' = [Hist EXCEPT ![w] = NoHistory]
      /\ Sigs' = [Sigs EXCEPT ![w] = NoSignals]
  BY <1>3, <1>4, <1>5 DEF Requested, Hist, Sigs, RowsSame
<1>7. Status' = [Status EXCEPT ![w] = "deleted"] /\ Status[w] \in {"completed", "failed"}
  BY <1>1, StatusSet
<1>8. QED
  BY <1>6, <1>7, DurableDelete DEF DurableStep

-----------------------------------------------------------------------------
(* The events a run has read *)

\* The events of a workflow stay while the workflow does.
LEMMA SignalsRemain ==
  ASSUME IInv, [Next]_vars, NEW w \in WorkflowIDs, Exists(w)',
         NEW k \in SignalKeys, signals[k].wf = w
  PROVE  signals'[k] = signals[k]
<1>1. CASE UNCHANGED signals
  BY <1>1
<1>2. ASSUME NEW v \in WorkflowIDs, NEW s \in Signals, NEW input \in Inputs,
             SendSignal(v, s, input)
      PROVE  signals'[k] = signals[k]
  <2>1. CASE InsertSignalFails(v, s)
    BY <1>2, <2>1 DEF SendSignal, storageVars
  <2>2. CASE ~InsertSignalFails(v, s)
    <3>1. /\ signals[SignalKey[<<v, s>>]].wf = None
          /\ signals' = [signals EXCEPT ![SignalKey[<<v, s>>]] = [wf |-> v, input |-> input]]
      BY <1>2, <2>2 DEF SendSignal, InsertSignal, InsertSignalFails
    <3>2. k # SignalKey[<<v, s>>]
      BY <3>1, StorageAssumption
    <3>3. QED
      BY <3>1, <3>2 DEF IInv, TypeOK, StorageTypeOK
  <2>3. QED
    BY <2>1, <2>2
<1>3. ASSUME NEW v \in WorkflowIDs, CleanColdWorkflows(v) \/ CleanDeadWorkflows(v)
      PROVE  signals'[k] = signals[k]
  <2>1. /\ workflows'[v].status = "deleted"
        /\ signals' = [j \in SignalKeys |->
             IF signals[j].wf = v THEN NoSignalRow ELSE signals[j]]
    BY <1>3 DEF CleanColdWorkflows, CleanDeadWorkflows, deleteWorkflow, IInv, TypeOK,
                StorageTypeOK
  <2>2. v # w
    BY <2>1 DEF Exists
  <2>3. QED
    BY <2>1, <2>2
<1>4. ASSUME NEW r \in WorkflowRunners, WorkflowRunnerStep(r) \/ WorkflowRunnerHarmed(r)
      PROVE  UNCHANGED signals
  BY <1>4 DEF WorkflowRunnerStep, WorkflowRunnerHarmed, RunStep, LoadHistory, LoadSignals,
     ScheduleActivity, HandlerReturns, CompletionReplyLost, CompletesWorkflow, CompleteTask,
     HandlerFails, TaskError, RunLost, storageVars
<1>5. ASSUME NEW r \in ActivityRunners, ActivityRunnerStep(r) \/ ActivityRunnerHarmed(r)
      PROVE  UNCHANGED signals
  BY <1>5, ActivityRunEnds
<1>6. QED
  BY <1>1, <1>2, <1>3, <1>4, <1>5
     DEF Next, vars, EnqueueWorkflow, InsertWorkflow, PollWorkflowTask, PollWorkflowTaskAgain,
         ClaimTask, PollActivity, PollActivityAgain, ClaimActivity

LEMMA EventsGrow ==
  ASSUME ~RunsMayOverlap, IInv, OneRunPerActivity, [Next]_vars,
         NEW w \in WorkflowIDs, Exists(w)'
  PROVE  /\ \A a \in Activities : ListHistoryEventsForWorkflow(w)[a] \in
              {None, ListHistoryEventsForWorkflow(w)'[a]}
         /\ \A s \in Signals : ListWorkflowSignals(w)[s] \in
              {None, ListWorkflowSignals(w)'[s]}
<1>1. ASSUME NEW a \in Activities
      PROVE  ListHistoryEventsForWorkflow(w)[a] \in {None, ListHistoryEventsForWorkflow(w)'[a]}
  <2> DEFINE k == ActivityKey[<<w, a>>]
  <2>1. k \in ActivityKeys
    BY StorageAssumption
  <2>2. /\ ListHistoryEventsForWorkflow(w)[a] =
             IF OwnsActivity(w, k) /\ activities[k].status = "completed"
             THEN activities[k].output ELSE None
        /\ ListHistoryEventsForWorkflow(w)'[a] =
             IF OwnsActivity(w, k)' /\ activities'[k].status = "completed"
             THEN activities'[k].output ELSE None
    BY DEF ListHistoryEventsForWorkflow
  <2> HIDE DEF k
  <2>3. CASE OwnsActivity(w, k) /\ activities[k].status = "completed"
    <3>1. OwnsActivity(w, k)'
      BY <2>1, <2>3, OwnersStay
    <3>2. activities'[k].status = "completed" /\ activities'[k].output = activities[k].output
      BY <2>1, <2>3, <3>1, CompletedRowsStayNext DEF CompletedRowsStay, OwnsActivity
    <3>3. QED
      BY <2>2, <2>3, <3>1, <3>2
  <2>4. QED
    BY <2>2, <2>3
<1>2. ASSUME NEW s \in Signals
      PROVE  ListWorkflowSignals(w)[s] \in {None, ListWorkflowSignals(w)'[s]}
  <2>1. SignalKey[<<w, s>>] \in SignalKeys
    BY StorageAssumption
  <2>2. QED
    BY <2>1, SignalsRemain DEF ListWorkflowSignals
<1>3. QED
  BY <1>1, <1>2

\* What the run has read is a part of the events of its workflow.
ReadsEvents(run) ==
  /\ workflows[run.wf].status # "none"
  /\ Exists(run.wf) =>
       /\ \A a \in Activities :
            run.hist[a] \in {None, ListHistoryEventsForWorkflow(run.wf)[a]}
       /\ \A s \in Signals : run.sigs[s] \in {None, ListWorkflowSignals(run.wf)[s]}

RunsAreReaders ==
  \A r \in WorkflowRunners : wruns[r].phase # "idle" => ReadsEvents(wruns[r])

LEMMA ReaderStays ==
  ASSUME ~RunsMayOverlap, IInv, OneRunPerActivity, [Next]_vars,
         NEW run \in WorkflowRun, run.wf \in WorkflowIDs, ReadsEvents(run)
  PROVE  ReadsEvents(run)'
<1> DEFINE w == run.wf
<1>1. workflows'[w].status # "none" /\ (Exists(w)' => Exists(w))
  BY StatusesStayNext DEF ReadsEvents, StatusesStay
<1>2. ASSUME Exists(w)'
      PROVE  /\ \A a \in Activities :
                  run.hist[a] \in {None, ListHistoryEventsForWorkflow(w)'[a]}
             /\ \A s \in Signals : run.sigs[s] \in {None, ListWorkflowSignals(w)'[s]}
  BY <1>1, <1>2, EventsGrow DEF ReadsEvents
<1>3. QED
  BY <1>1, <1>2 DEF ReadsEvents

LEMMA RunsAreReadersNext ==
  ASSUME ~RunsMayOverlap, IInv, OneRunPerActivity, RunsAreReaders, [Next]_vars
  PROVE  RunsAreReaders'
<1> SUFFICES ASSUME NEW r \in WorkflowRunners, wruns'[r].phase # "idle"
             PROVE  ReadsEvents(wruns[r])'
  BY DEF RunsAreReaders
<1> USE DEF IInv, TypeOK, WorkflowWorkerTypeOK
<1>1. PICK old \in WorkflowRun : old = wruns[r]
  OBVIOUS
<1> DEFINE w == old.wf
<1>2. old.phase # "idle" => w \in WorkflowIDs /\ ReadsEvents(old)'
  BY <1>1, ReaderStays DEF RunsAreReaders
<1>3. ASSUME NEW new, wruns'[r] = new, ReadsEvents(new)'
      PROVE  ReadsEvents(wruns[r])'
  BY <1>3 DEF ReadsEvents
<1>4. CASE wruns'[r] = wruns[r]
  BY <1>1, <1>2, <1>3, <1>4
<1>5. CASE wruns'[r] = IdleRun
  BY <1>5 DEF IdleRun
<1>6. CASE LoadHistory(r)
  <2>1. PICK run : /\ wruns'[r] = run /\ UNCHANGED storageVars /\ old.phase # "idle"
                   /\ run.wf = w /\ run.sigs = old.sigs
                   /\ run.hist = ListHistoryEventsForWorkflow(w)
    <3> DEFINE run == [Loaded(old, "history") EXCEPT !.hist = ListHistoryEventsForWorkflow(w)]
    <3>1. /\ wruns'[r] = run /\ UNCHANGED storageVars /\ old.phase # "idle"
          /\ run.wf = w /\ run.sigs = old.sigs
          /\ run.hist = ListHistoryEventsForWorkflow(w)
      BY <1>1, <1>6 DEF LoadHistory, Loaded, WorkflowRun
    <3> HIDE DEF run
    <3>2. QED
      BY <3>1
  <2>2. ListHistoryEventsForWorkflow(w)' = ListHistoryEventsForWorkflow(w)
    BY <2>1 DEF ListHistoryEventsForWorkflow, OwnsActivity, storageVars
  <2>3. ReadsEvents(run)'
    BY <1>2, <2>1, <2>2 DEF ReadsEvents
  <2>4. QED
    BY <1>3, <2>1, <2>3
<1>7. CASE LoadSignals(r)
  <2>1. PICK run : /\ wruns'[r] = run /\ UNCHANGED storageVars /\ old.phase # "idle"
                   /\ run.wf = w /\ run.hist = old.hist
                   /\ run.sigs = ListWorkflowSignals(w)
    <3> DEFINE run == [Loaded(old, "signals") EXCEPT !.sigs = ListWorkflowSignals(w)]
    <3>1. /\ wruns'[r] = run /\ UNCHANGED storageVars /\ old.phase # "idle"
          /\ run.wf = w /\ run.hist = old.hist
          /\ run.sigs = ListWorkflowSignals(w)
      BY <1>1, <1>7 DEF LoadSignals, Loaded, WorkflowRun
    <3> HIDE DEF run
    <3>2. QED
      BY <3>1
  <2>2. ListWorkflowSignals(w)' = ListWorkflowSignals(w)
    BY <2>1 DEF ListWorkflowSignals, storageVars
  <2>3. ReadsEvents(run)'
    BY <1>2, <2>1, <2>2 DEF ReadsEvents
  <2>4. QED
    BY <1>3, <2>1, <2>3
<1>8. CASE ScheduleActivity(r)
  <2>1. PICK n : wruns' = [wruns EXCEPT ![r] = [old EXCEPT !.next = n + 1]]
    BY <1>1, <1>8 DEF ScheduleActivity
  <2> DEFINE run == [old EXCEPT !.next = n + 1]
  <2>2. /\ wruns'[r] = run /\ old.phase # "idle"
        /\ run.wf = w /\ run.sigs = old.sigs /\ run.hist = old.hist
    BY <1>1, <1>8, <2>1 DEF ScheduleActivity, WorkflowRun
  <2> HIDE DEF run
  <2>3. ReadsEvents(run)'
    BY <1>2, <2>2 DEF ReadsEvents
  <2>4. QED
    BY <1>3, <2>2, <2>3
<1>9. CASE \E phase : CompletesWorkflow(r, phase)
  <2>1. PICK phase : CompletesWorkflow(r, phase)
    BY <1>9
  <2> DEFINE run == Ended(old, phase)
  <2>2. /\ wruns'[r] = run /\ old.phase # "idle"
        /\ run.wf = w /\ run.hist = NoHistory /\ run.sigs = NoSignals
    BY <1>1, <2>1 DEF CompletesWorkflow, HandlerEnds, Ended
  <2> HIDE DEF run
  <2>3. ReadsEvents(run)'
    BY <1>2, <2>2 DEF ReadsEvents, NoHistory, NoSignals
  <2>4. QED
    BY <1>3, <2>2, <2>3
<1>10. CASE \E t \in TaskIDs : ClaimTask(r, t)
  <2>1. PICK t \in TaskIDs : ClaimTask(r, t)
    BY <1>10
  <2>2. PICK run : /\ wruns'[r] = run /\ workflows' = workflows
                   /\ run.wf \in WorkflowIDs /\ Exists(run.wf)
                   /\ run.hist = NoHistory /\ run.sigs = NoSignals
    BY <2>1 DEF ClaimTask, ForeignKeys, NewRun
  <2>3. ReadsEvents(run)'
    BY <2>2 DEF ReadsEvents, NoHistory, NoSignals, Exists
  <2>4. QED
    BY <1>3, <2>2, <2>3
<1>11. QED
  BY <1>4, <1>5, <1>6, <1>7, <1>8, <1>9, <1>10, WorkflowRunMoves

\* What the handler does over what a run has read is one of the programs that the
\* abstract specification allows.
LEMMA ReadProgram ==
  ASSUME NEW run \in WorkflowRun, run.wf \in WorkflowIDs, Exists(run.wf), ReadsEvents(run)
  PROVE  Program(run) \in Durable!Programs(run.wf)
<1> DEFINE w == run.wf
           h == ListHistoryEventsForWorkflow(w)
           s == ListWorkflowSignals(w)
           seen == {a \in Activities : run.hist[a] # None}
           got == {t \in Signals : run.sigs[t] # None}
<1>1. /\ DOMAIN h = Activities /\ DOMAIN s = Signals
      /\ seen \in SUBSET Activities /\ got \in SUBSET Signals
  BY DEF ListHistoryEventsForWorkflow, ListWorkflowSignals
<1>2. run.hist = [a \in Activities |-> IF a \in seen THEN h[a] ELSE None]
  BY DEF ReadsEvents, WorkflowRun, Histories
<1>3. run.sigs = [t \in Signals |-> IF t \in got THEN s[t] ELSE None]
  BY DEF ReadsEvents, WorkflowRun, Inboxes
<1> HIDE DEF seen, got
<1>4. /\ \E read \in SUBSET DOMAIN h :
           run.hist = [n \in DOMAIN h |-> IF n \in read THEN h[n] ELSE None]
      /\ \E read \in SUBSET DOMAIN s :
           run.sigs = [n \in DOMAIN s |-> IF n \in read THEN s[n] ELSE None]
  BY <1>1, <1>2, <1>3
<1> HIDE DEF h, s
<1> DEFINE Part(events) ==
             {[n \in DOMAIN events |-> IF n \in read THEN events[n] ELSE None] :
                read \in SUBSET DOMAIN events}
<1>5. run.hist \in Part(h) /\ run.sigs \in Part(s)
  BY <1>4
<1>6. Hist[w] = h /\ Sigs[w] = s
  BY DEF Hist, Sigs, h, s
<1>7. Durable!Programs(w) =
        {Handler[[hist |-> x, sigs |-> y]] : x \in Part(Hist[w]), y \in Part(Sigs[w])}
  BY DEF Durable!Programs, Hist, Sigs
<1> HIDE DEF Part
<1>8. QED
  BY <1>5, <1>6, <1>7 DEF Program

-----------------------------------------------------------------------------
(* Replays *)

\* The row of the call a of workflow w becomes row, with this result.
RowBecomes(w, a, row, result) ==
  LET k == ActivityKey[<<w, a>>]
  IN /\ activities[k].status = "none" \/ activities[k].wf = w
     /\ row.status # "none" /\ row.wf = w
     /\ result = IF row.status = "completed" THEN row.output ELSE None
     /\ activities' = [activities EXCEPT ![k] = row]

LEMMA ResultIsNew ==
  ASSUME IInv, DistinctCallKeys, NEW w \in WorkflowIDs, NEW a \in Activities,
         NEW row, NEW result, RowBecomes(w, a, row, result)
  PROVE  /\ Requested' = [Requested EXCEPT ![w] = Requested[w] \cup {a}]
         /\ Hist' = [Hist EXCEPT ![w] = [Hist[w] EXCEPT ![a] = result]]
<1> DEFINE k == ActivityKey[<<w, a>>]
<1>0. /\ activities[k].status = "none" \/ activities[k].wf = w
      /\ row.status # "none" /\ row.wf = w
      /\ result = IF row.status = "completed" THEN row.output ELSE None
      /\ activities' = [activities EXCEPT ![k] = row]
  BY DEF RowBecomes
<1>1. \A j \in ActivityKeys : activities'[j] = IF j = k THEN row ELSE activities[j]
  BY <1>0 DEF IInv, TypeOK, StorageTypeOK
<1>2. ASSUME NEW v \in WorkflowIDs, v # w PROVE RowsSame(v)
  <2>1. \A j \in ActivityKeys : RowSame(j, v)
    BY <1>0, <1>1, <1>2 DEF RowSame, OwnsActivity
  <2>2. QED
    BY <2>1, SameRows
<1>3. ASSUME NEW b \in Activities
      PROVE  LET j == ActivityKey[<<w, b>>]
             IN /\ j \in ActivityKeys /\ (j = k <=> b = a)
                /\ OwnsActivity(w, j)' = (OwnsActivity(w, j) \/ b = a)
  <2> DEFINE j == ActivityKey[<<w, b>>]
  <2>1. j \in ActivityKeys /\ (j = k <=> b = a)
    BY StorageAssumption, DistinctCallKeys DEF DistinctCallKeys
  <2> HIDE DEF j
  <2>2. OwnsActivity(w, j)' = (OwnsActivity(w, j) \/ b = a)
    BY <1>0, <1>1, <2>1 DEF OwnsActivity
  <2>3. QED
    BY <2>1, <2>2 DEF j
<1>4. RequestedBy(w)' = RequestedBy(w) \cup {a}
  BY <1>3 DEF RequestedBy
<1>5. ASSUME NEW b \in Activities
      PROVE  ListHistoryEventsForWorkflow(w)'[b] =
               IF b = a THEN result ELSE ListHistoryEventsForWorkflow(w)[b]
  <2> DEFINE j == ActivityKey[<<w, b>>]
  <2>1. /\ j \in ActivityKeys /\ (j = k <=> b = a)
        /\ OwnsActivity(w, j)' = (OwnsActivity(w, j) \/ b = a)
    BY <1>3
  <2>2. /\ ListHistoryEventsForWorkflow(w)[b] =
             IF OwnsActivity(w, j) /\ activities[j].status = "completed"
             THEN activities[j].output ELSE None
        /\ ListHistoryEventsForWorkflow(w)'[b] =
             IF OwnsActivity(w, j)' /\ activities'[j].status = "completed"
             THEN activities'[j].output ELSE None
    BY DEF ListHistoryEventsForWorkflow
  <2> HIDE DEF j
  <2>3. QED
    BY <1>0, <1>1, <2>1, <2>2
<1>6. ListHistoryEventsForWorkflow(w)' =
        [ListHistoryEventsForWorkflow(w) EXCEPT ![a] = result]
  BY <1>5 DEF ListHistoryEventsForWorkflow
<1>7. QED
  BY <1>2, <1>4, <1>6 DEF Requested, Hist, RowsSame

LEMMA SameHist ==
  ASSUME NEW w \in WorkflowIDs, NEW a \in Activities, Hist[w][a] = None,
         Hist' = [Hist EXCEPT ![w] = [Hist[w] EXCEPT ![a] = None]]
  PROVE  UNCHANGED Hist
<1>1. Hist[w] = [b \in Activities |-> Hist[w][b]]
  BY DEF Hist, ListHistoryEventsForWorkflow
<1>2. Hist = [v \in WorkflowIDs |-> Hist[v]]
  BY DEF Hist
<1>3. [Hist[w] EXCEPT ![a] = None] = Hist[w]
  BY <1>1
<1>4. QED
  BY <1>2, <1>3

LEMMA ScheduleIsDurable ==
  ASSUME IInv, DistinctCallKeys, RunsAreReaders, NEW r \in WorkflowRunners,
         ScheduleActivity(r)
  PROVE  DurableStep
<1>1. PICK run \in WorkflowRun : run = wruns[r]
  BY DEF IInv, TypeOK, WorkflowWorkerTypeOK
<1> DEFINE w == run.wf
           calls == Program(run).calls
<1>2. w \in WorkflowIDs /\ ReadsEvents(run)
  BY <1>1 DEF ScheduleActivity, IInv, TypeOK, WorkflowWorkerTypeOK, RunsAreReaders
<1>3. PICK n \in Unscheduled(run) :
        /\ ~InsertActivityFails(w, ActivityKey[<<w, calls[n]>>])
        /\ InsertActivity(w, ActivityKey[<<w, calls[n]>>], calls[n])
  BY <1>1 DEF ScheduleActivity
<1> DEFINE a == calls[n]
           k == ActivityKey[<<w, a>>]
           row == [NoActivityRow EXCEPT !.status = "pending", !.wf = w, !.call = a]
<1>4. n \in 1..Len(calls) /\ DOMAIN calls = 1..Len(calls) /\ a \in Activities
  <2>1. calls \in Seq(Activities)
    BY ProgramType
  <2> HIDE DEF calls
  <2>2. n \in run.next .. Len(calls)
    BY DEF Unscheduled, calls
  <2>3. n \in 1..Len(calls)
    BY <2>1, <2>2 DEF WorkflowRun
  <2>4. QED
    BY <2>1, <2>3
<1>5. UNCHANGED <<Status, Sigs>>
  BY SameWorkflows, SameSignals DEF ScheduleActivity
<1>6. CASE activities[k].status # "none"
  <2>1. UNCHANGED activities
    BY <1>3, <1>6 DEF InsertActivity
  <2>2. QED
    BY <1>5, <2>1, SameActivities, DurableStutter DEF DurableStep
<1>7. CASE activities[k].status = "none"
  <2>1. Exists(w) /\ activities' = [activities EXCEPT ![k] = row]
    BY <1>3, <1>7 DEF InsertActivity, InsertActivityFails
  <2>2. row.status = "pending" /\ row.wf = w
    BY DEF NoActivityRow
  <2> HIDE DEF row
  <2>3. Hist[w][a] = None /\ a \notin Requested[w]
    BY <1>2, <1>4, <1>7 DEF Hist, Requested, RequestedBy, ListHistoryEventsForWorkflow,
                            OwnsActivity
  <2>4. /\ Requested' = [Requested EXCEPT ![w] = Requested[w] \cup {a}]
        /\ Hist' = [Hist EXCEPT ![w] = [Hist[w] EXCEPT ![a] = None]]
    <3>1. RowBecomes(w, a, row, None)
      BY <1>7, <2>1, <2>2 DEF RowBecomes
    <3>2. QED
      BY <1>2, <1>4, <3>1, ResultIsNew
  <2>5. Hist' = Hist
    BY <1>2, <1>4, <2>3, <2>4, SameHist
  <2>6. \E program \in Durable!Programs(w) :
          \E m \in DOMAIN program.calls : program.calls[m] = a
    BY <1>2, <1>4, <2>1, ReadProgram
  <2>7. Status[w] \in {"running", "completed", "failed"}
    BY <1>2, <2>1 DEF Status, Exists
  <2>8. QED
    BY <1>2, <1>4, <1>5, <2>3, <2>4, <2>5, <2>6, <2>7, DurableRequest DEF DurableStep
<1>8. QED
  BY <1>6, <1>7

LEMMA CompletionIsDurable ==
  ASSUME IInv, RunsAreReaders, NEW r \in WorkflowRunners, NEW phase,
         CompletesWorkflow(r, phase)
  PROVE  DurableStep
<1>1. PICK run \in WorkflowRun : run = wruns[r]
  BY DEF IInv, TypeOK, WorkflowWorkerTypeOK
<1> DEFINE w == run.wf
           row == [workflows[w] EXCEPT !.status = "completed", !.error = FALSE]
<1>2. w \in WorkflowIDs /\ ReadsEvents(run)
  BY <1>1 DEF CompletesWorkflow, HandlerEnds, IInv, TypeOK, WorkflowWorkerTypeOK,
              RunsAreReaders
<1>3. /\ Exists(w) /\ Program(run).outcome = "return"
      /\ workflows' = [workflows EXCEPT ![w] = row]
      /\ UNCHANGED <<activities, signals>>
  BY <1>1 DEF CompletesWorkflow, HandlerEnds, CompleteWorkflow
<1>4. row.status = "completed"
  BY <1>2 DEF IInv, TypeOK, StorageTypeOK, WorkflowRow
<1> HIDE DEF row
<1>5. /\ workflows'[w].status = "completed"
      /\ \A u \in WorkflowIDs : u # w => workflows'[u].status = workflows[u].status
  BY <1>2, <1>3, <1>4 DEF IInv, TypeOK, StorageTypeOK
<1>6. Status' = [Status EXCEPT ![w] = "completed"] /\ Status[w] = workflows[w].status
  BY <1>2, <1>5, StatusSet
<1>7. UNCHANGED <<Requested, Hist, Sigs>>
  BY <1>3, SameActivities, SameSignals
<1>8. \E program \in Durable!Programs(w) : program.outcome = "return"
  BY <1>2, <1>3, ReadProgram
<1>9. CASE workflows[w].status = "completed"
  <2>1. UNCHANGED Status
    BY <1>5, <1>9, SameWorkflows
  <2>2. QED
    BY <1>7, <2>1, DurableStutter DEF DurableStep
<1>10. CASE workflows[w].status # "completed"
  BY <1>2, <1>3, <1>6, <1>7, <1>8, <1>10, DurableEnd DEF DurableStep, Exists
<1>11. QED
  BY <1>9, <1>10

\* A workflow that fails, or only counts an attempt.
LEMMA FailureIsDurable ==
  ASSUME NEW w \in WorkflowIDs, Exists(w),
         workflows'[w].status \in {workflows[w].status, "failed"},
         \A u \in WorkflowIDs : u # w => workflows'[u].status = workflows[u].status,
         UNCHANGED <<Requested, Hist, Sigs>>
  PROVE  DurableStep
<1>1. CASE workflows'[w].status = workflows[w].status
  <2>1. UNCHANGED Status
    BY <1>1, SameWorkflows
  <2>2. QED
    BY <2>1, DurableStutter DEF DurableStep
<1>2. CASE workflows'[w].status # workflows[w].status
  <2>1. Status' = [Status EXCEPT ![w] = "failed"] /\ Status[w] = workflows[w].status
    BY <1>2, StatusSet
  <2>2. Status[w] \in {"running", "completed"}
    BY <1>2, <2>1 DEF Exists
  <2>3. QED
    BY <2>1, <2>2, DurableEnd DEF DurableStep
<1>3. QED
  BY <1>1, <1>2

LEMMA TaskEndIsDurable ==
  ASSUME IInv, NEW r \in WorkflowRunners, CompleteTask(r) \/ HandlerFails(r)
  PROVE  DurableStep
<1> DEFINE t == wruns[r].task
           w == wruns[r].wf
<1>1. wruns[r].phase # "idle" /\ UNCHANGED <<activities, signals>>
  BY DEF CompleteTask, HandlerFails, HandlerEnds, TaskError
<1>2. \/ CompleteWorkflowTask(t, w)
      \/ ReScheduleWorkflowTask(t, w)
      \/ FailWorkflowTask(t, w)
  BY DEF CompleteTask, HandlerFails, TaskError
<1>3. /\ w \in WorkflowIDs
      /\ TaskExists(t) => Exists(w)
      /\ ~TaskExists(t) => UNCHANGED workflows
      /\ TaskExists(t) => \E new \in {"pending", "completed", "failed"} : TaskEndsAs(t, w, new)
  BY <1>1, <1>2, TaskEnds
<1>4. UNCHANGED <<Requested, Hist, Sigs>>
  BY <1>1, SameActivities, SameSignals
<1> HIDE DEF t, w
<1>5. CASE ~TaskExists(t)
  BY <1>3, <1>4, <1>5, SameWorkflows, DurableStutter DEF DurableStep
<1>6. CASE TaskExists(t)
  <2>1. PICK row : Updates(w, row) /\ row.status \in {workflows[w].status, "failed"}
    BY <1>3, <1>6 DEF TaskEndsAs
  <2>2. /\ workflows'[w] = row
        /\ \A u \in WorkflowIDs : u # w => workflows'[u] = workflows[u]
    BY <1>3, <2>1, UpdateStays DEF IInv, TypeOK
  <2>3. QED
    BY <1>3, <1>4, <1>6, <2>1, <2>2, FailureIsDurable
<1>7. QED
  BY <1>5, <1>6

LEMMA ReplayIsDurable ==
  ASSUME IInv, DistinctCallKeys, RunsAreReaders, NEW r \in WorkflowRunners,
         WorkflowRunnerStep(r) \/ WorkflowRunnerHarmed(r)
  PROVE  DurableStep
<1>1. CASE LoadHistory(r) \/ LoadSignals(r) \/ RunLost(r)
  BY <1>1, SameActivities, SameWorkflows, SameSignals, DurableStutter
     DEF LoadHistory, LoadSignals, RunLost, storageVars, DurableStep
<1>2. CASE ScheduleActivity(r)
  BY <1>2, ScheduleIsDurable
<1>3. CASE HandlerReturns(r) \/ CompletionReplyLost(r)
  BY <1>3, CompletionIsDurable DEF HandlerReturns, CompletionReplyLost
<1>4. CASE CompleteTask(r) \/ HandlerFails(r)
  BY <1>4, TaskEndIsDurable
<1>5. QED
  BY <1>1, <1>2, <1>3, <1>4 DEF WorkflowRunnerStep, WorkflowRunnerHarmed, RunStep

-----------------------------------------------------------------------------
(* Activities *)

LEMMA PollActivityIsDurable ==
  ASSUME IInv, NEW r \in ActivityRunners, NEW k \in ActivityKeys, PollActivity(r, k)
  PROVE  DurableStep
<1>1. /\ activities'[k].status = "running"
      /\ activities'[k].wf = activities[k].wf
      /\ activities[k].status # "none"
      /\ \A j \in ActivityKeys : j # k => activities'[j] = activities[j]
      /\ UNCHANGED <<workflows, signals>>
  BY ActivityIsClaimed
<1>2. activities[k].status # "completed"
  BY DEF PollActivity, Overlaps
<1>3. ASSUME NEW w \in WorkflowIDs PROVE RowsSame(w)
  <2>1. \A j \in ActivityKeys : RowSame(j, w)
    BY <1>1, <1>2 DEF RowSame, OwnsActivity
  <2>2. QED
    BY <2>1, SameRows
<1>4. UNCHANGED <<Status, Requested, Hist, Sigs>>
  BY <1>1, <1>3, SameWorkflows, SameSignals DEF RowsSame, Requested, Hist
<1>5. QED
  BY <1>4, DurableStutter DEF DurableStep

LEMMA ActivityEndIsDurable ==
  ASSUME ~RunsMayOverlap, IInv, OneRunPerActivity, EntriesMatch, DistinctCallKeys,
         NEW r \in ActivityRunners, ActivityRunnerStep(r) \/ ActivityRunnerHarmed(r)
  PROVE  DurableStep
<1>0. PICK k, w : k = aruns[r].key /\ w = aruns[r].wf
  OBVIOUS
<1>1. /\ aruns[r].busy /\ k \in ActivityKeys /\ w \in WorkflowIDs
      /\ UNCHANGED signals
      /\ \/ UNCHANGED storageVars
         \/ OwnsActivity(w, k) /\ Exists(w) /\ \E row : LeavesRow(r, k, w, row)
  BY <1>0, ActivityRunEnds
<1>2. UNCHANGED Sigs
  BY <1>1, SameSignals
<1>3. CASE UNCHANGED storageVars
  BY <1>3, SameActivities, SameWorkflows, SameSignals, DurableStutter
     DEF storageVars, DurableStep
<1>4. ASSUME OwnsActivity(w, k), Exists(w), NEW row, LeavesRow(r, k, w, row)
      PROVE  DurableStep
  <2>1. activities[k].status = "running" /\ activities[k].wf = w
    BY <1>0, <1>1, <1>4 DEF OneRunPerActivity, RunsOf, OwnsActivity
  <2>2. PICK a \in Activities : k = ActivityKey[<<w, a>>]
    BY <1>1, <2>1 DEF EntriesMatch, EntryMatches
  <2>3. /\ row.wf = w /\ row.status \in {"pending", "completed", "failed"}
        /\ activities' = [activities EXCEPT ![k] = row]
    BY <1>4 DEF LeavesRow
  <2>4. Hist[w][a] = None /\ a \in Requested[w]
    BY <1>1, <1>4, <2>1, <2>2 DEF Hist, ListHistoryEventsForWorkflow, Requested, RequestedBy
  <2>5. PICK result :
          /\ result = IF row.status = "completed" THEN row.output ELSE None
          /\ Requested' = [Requested EXCEPT ![w] = Requested[w] \cup {a}]
          /\ Hist' = [Hist EXCEPT ![w] = [Hist[w] EXCEPT ![a] = result]]
    <3>1. PICK result : result = IF row.status = "completed" THEN row.output ELSE None
      OBVIOUS
    <3>2. RowBecomes(w, a, row, result)
      BY <2>1, <2>2, <2>3, <3>1 DEF RowBecomes
    <3>3. /\ Requested' = [Requested EXCEPT ![w] = Requested[w] \cup {a}]
          /\ Hist' = [Hist EXCEPT ![w] = [Hist[w] EXCEPT ![a] = result]]
      BY <1>1, <3>2, ResultIsNew
    <3>4. QED
      BY <3>1, <3>3
  <2>6. UNCHANGED Requested
    <3>1. Requested[w] \cup {a} = Requested[w]
      BY <2>4
    <3>2. QED
      BY <1>1, <2>5, <3>1 DEF Requested
  <2>7. CASE row.status = "completed"
    <3>1. row.output \in Outputs /\ UNCHANGED Status
      BY <1>4, <2>7, SameWorkflows DEF LeavesRow
    <3>2. Status[w] \in {"running", "completed", "failed"}
      BY <1>1, <1>4 DEF Status, Exists
    <3>3. QED
      BY <1>1, <1>2, <2>4, <2>5, <2>6, <2>7, <3>1, <3>2, DurableAnswer DEF DurableStep
  <2>8. CASE row.status # "completed"
    <3>1. UNCHANGED Hist
      BY <1>1, <2>4, <2>5, <2>8, SameHist
    <3>2. UNCHANGED workflows \/ failWorkflow(w)
      BY <1>4, <2>3, <2>8 DEF LeavesRow
    <3>3. /\ workflows'[w].status \in {workflows[w].status, "failed"}
          /\ \A u \in WorkflowIDs : u # w => workflows'[u].status = workflows[u].status
      <4> DEFINE new == [workflows[w] EXCEPT !.status = "failed", !.error = TRUE]
      <4>1. new.status = "failed"
        BY <1>1 DEF IInv, TypeOK, StorageTypeOK, WorkflowRow
      <4>2. UNCHANGED workflows \/ workflows' = [workflows EXCEPT ![w] = new]
        BY <3>2 DEF failWorkflow
      <4> HIDE DEF new
      <4>3. QED
        BY <1>1, <4>1, <4>2 DEF IInv, TypeOK, StorageTypeOK
    <3>4. QED
      BY <1>1, <1>2, <1>4, <2>6, <3>1, <3>3, FailureIsDurable
  <2>9. QED
    BY <2>7, <2>8
<1>5. QED
  BY <1>1, <1>3, <1>4

-----------------------------------------------------------------------------
(* Durable workflows *)

LEMMA NextIsDurable ==
  ASSUME ~RunsMayOverlap, DistinctCallKeys, DistinctSignalKeys,
         IInv, OneRunPerActivity, EntriesMatch, RunsAreReaders, [Next]_vars
  PROVE  DurableStep
<1>1. ASSUME NEW r \in WorkflowRunners, NEW t \in TaskIDs, PollWorkflowTask(r, t)
      PROVE  DurableStep
  BY <1>1, SameActivities, SameWorkflows, SameSignals, DurableStutter
     DEF PollWorkflowTask, ClaimTask, DurableStep
<1>2. CASE UNCHANGED vars
  BY <1>2, SameActivities, SameWorkflows, SameSignals, DurableStutter
     DEF vars, DurableStep
<1>3. QED
  BY <1>1, <1>2, EnqueueIsDurable, SendSignalIsDurable, CleanIsDurable, ReplayIsDurable,
     PollActivityIsDurable, ActivityEndIsDurable
     DEF Next, PollWorkflowTaskAgain, PollActivityAgain

LEMMA RunsAreReadersInvariant ==
  ASSUME ~RunsMayOverlap
  PROVE  Spec => []RunsAreReaders
<1>1. Init => RunsAreReaders
  BY DEF Init, WorkflowWorkerInit, RunsAreReaders, IdleRun
<1>2. IInv /\ OneRunPerActivity /\ RunsAreReaders /\ [Next]_vars => RunsAreReaders'
  BY RunsAreReadersNext
<1>3. QED
  BY <1>1, <1>2, Invariance, OneRunInvariant, PTL DEF Spec

\* A replay holds only outputs and signals that are in the tables of its workflow,
\* at every moment until it ends, though its two reads are apart and other runs
\* write in between.
THEOREM RunsReadWhatIsThere == Spec => []RunsReadEvents
<1>1. CASE RunsMayOverlap
  <2>1. RunsReadEvents
    BY <1>1 DEF RunsReadEvents
  <2>2. QED
    BY <2>1, PTL
<1>2. CASE ~RunsMayOverlap
  <2>1. RunsAreReaders => RunsReadEvents
    BY DEF RunsAreReaders, ReadsEvents, RunsReadEvents
  <2>2. Spec => []RunsAreReaders
    BY <1>2, RunsAreReadersInvariant
  <2>3. QED
    BY <2>1, <2>2, PTL
<1>3. QED
  BY <1>1, <1>2

\* Where every run ends within its stuck timeout and no fetch comes late, the
\* tables are those of durable workflows, if the keys of a workflow's activities
\* and of its signals are distinct: events are only added, each happens once, a
\* workflow asks for and ends with what its handler says over events that happened,
\* and crashes, retries, lost writes and concurrent replays do not show.
THEOREM IsDurable ==
  ASSUME ~RunsMayOverlap, DistinctCallKeys, DistinctSignalKeys
  PROVE  Spec => IsDurableWorkflow
<1>1. IInv /\ OneRunPerActivity /\ EntriesMatch /\ RunsAreReaders /\ [Next]_vars
        => [Durable!Next]_(Durable!vars)
  BY NextIsDurable DEF DurableStep
<1>2. Init => Durable!Init
  <2> SUFFICES ASSUME Init PROVE Durable!Init
    OBVIOUS
  <2>1. /\ \A w \in WorkflowIDs : workflows[w].status = "none"
        /\ \A k \in ActivityKeys : activities[k].status = "none"
        /\ \A k \in SignalKeys : signals[k].wf = None
    BY DEF Init, StorageInit, NoActivityRow, NoSignalRow
  <2>2. \A w \in WorkflowIDs : \A a \in Activities : ~OwnsActivity(w, ActivityKey[<<w, a>>])
    BY <2>1, StorageAssumption DEF OwnsActivity
  <2>3. \A w \in WorkflowIDs : ListWorkflowSignals(w) = [s \in Signals |-> None]
    BY <2>1, StorageAssumption DEF ListWorkflowSignals
  <2>4. QED
    BY <2>1, <2>2, <2>3 DEF Durable!Init, Durable!NoEvents, ListHistoryEventsForWorkflow
<1>3. QED
  BY <1>1, <1>2, Invariance, OneRunInvariant, RunsAreReadersInvariant, EntriesMatchInvariant, PTL
     DEF Spec, IsDurableWorkflow, Durable!Spec
-----------------------------------------------------------------------------
(* The keys that the library derives *)

Keys == INSTANCE IdempotencyKeys

\* Name m is the beginning of name n.
Begins(m, n) == Len(m) <= Len(n) /\ \A i \in 1..Len(m) : m[i] = n[i]

\* The calls of a handler, as names and discriminators over some characters; the
\* name of none is the beginning of another one's.
AreApart(sites, Char) ==
  /\ sites \subseteq Seq(Char) \X Seq(Char)
  /\ \A a, b \in sites : Begins(a[1], b[1]) => a[1] = b[1]

LEMMA ConcatenationBegins ==
  ASSUME NEW Char, NEW m \in Seq(Char), NEW n \in Seq(Char), NEW s \in Seq(Char),
         NEW t \in Seq(Char), m \o s = n \o t, Len(m) <= Len(n)
  PROVE  Begins(m, n)
<1> SUFFICES ASSUME NEW i \in 1..Len(m) PROVE m[i] = n[i]
  BY DEF Begins
<1>1. i \in 1..Len(n)
  OBVIOUS
<1>2. (m \o s)[i] = m[i] /\ (n \o t)[i] = n[i]
  BY <1>1
<1>3. QED
  BY <1>2

LEMMA ConcatenationEnds ==
  ASSUME NEW Char, NEW m \in Seq(Char), NEW s \in Seq(Char), NEW t \in Seq(Char),
         m \o s = m \o t
  PROVE  s = t
<1>1. Len(m \o s) = Len(m) + Len(s) /\ Len(m \o t) = Len(m) + Len(t)
  OBVIOUS
<1>2. Len(s) = Len(t)
  BY <1>1
<1>3. ASSUME NEW i \in 1..Len(s)
      PROVE  s[i] = t[i]
  <2>1. /\ (m \o s)[Len(m) + i] = s[i]
        /\ (m \o t)[Len(m) + i] = t[i]
    BY <1>2
  <2>2. QED
    BY <2>1
<1>4. s = [i \in 1..Len(s) |-> s[i]] /\ t = [i \in 1..Len(t) |-> t[i]]
  OBVIOUS
<1>5. QED
  BY <1>2, <1>3, <1>4, Zenon

LEMMA KeysTellSites ==
  ASSUME NEW Char, NEW sites, AreApart(sites, Char), NEW a \in sites, NEW b \in sites,
         NEW v, NEW w, Keys!KeyOfSite(v, a) = Keys!KeyOfSite(w, b)
  PROVE  v = w /\ a = b
<1>1. /\ a = <<a[1], a[2]>> /\ a[1] \in Seq(Char) /\ a[2] \in Seq(Char)
      /\ b = <<b[1], b[2]>> /\ b[1] \in Seq(Char) /\ b[2] \in Seq(Char)
  BY DEF AreApart
<1>2. v = w /\ a[1] \o a[2] = b[1] \o b[2]
  BY DEF Keys!KeyOfSite, Keys!IdempotencyKeyByString
<1>3. Len(a[1]) \in Nat /\ Len(b[1]) \in Nat
  BY <1>1
<1>4. Begins(a[1], b[1]) \/ Begins(b[1], a[1])
  <2>1. CASE Len(a[1]) <= Len(b[1])
    BY <1>1, <1>2, <2>1, ConcatenationBegins
  <2>2. CASE Len(b[1]) <= Len(a[1])
    BY <1>1, <1>2, <2>2, ConcatenationBegins
  <2>3. QED
    BY <1>3, <2>1, <2>2
<1>5. a[1] = b[1]
  BY <1>4 DEF AreApart
<1>6. a[2] = b[2]
  BY <1>1, <1>2, <1>5, ConcatenationEnds
<1>7. QED
  BY <1>1, <1>2, <1>5, <1>6

\* The keys that the library derives are as NoWakeupIsLost and IsDurable ask, if no
\* name of an activity or of a signal is the beginning of another one's.
\* (IdempotencyKeyByString puts the discriminator behind the name with nothing
\* between them; "step" and "step1" with "11" and "1" have one key.)
THEOREM DerivedKeysFit ==
  ASSUME NEW Char, AreApart(Activities, Char), AreApart(Signals, Char),
         ActivityKey = Keys!KeyOf(WorkflowIDs, Activities),
         SignalKey = Keys!KeyOf(WorkflowIDs, Signals)
  PROVE  KeysAreNamespaced /\ DistinctCallKeys /\ DistinctSignalKeys
<1>1. ASSUME NEW w \in WorkflowIDs, NEW a \in Activities
      PROVE  ActivityKey[<<w, a>>] = Keys!KeyOfSite(w, a)
  BY DEF Keys!KeyOf
<1>2. ASSUME NEW w \in WorkflowIDs, NEW s \in Signals
      PROVE  SignalKey[<<w, s>>] = Keys!KeyOfSite(w, s)
  BY DEF Keys!KeyOf
<1>3. KeysAreNamespaced
  BY <1>1, KeysTellSites DEF KeysAreNamespaced
<1>4. DistinctCallKeys
  BY <1>1, KeysTellSites DEF DistinctCallKeys
<1>5. DistinctSignalKeys
  BY <1>2, KeysTellSites DEF DistinctSignalKeys
<1>6. QED
  BY <1>3, <1>4, <1>5
=============================================================================
