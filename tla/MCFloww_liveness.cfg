SPECIFICATION FairSpec
CONSTANTS
  None = None
  WorkflowIDs = {w1}
  RequestKeys = {q1}
  Activities <- OrderActivities
  Signals <- OrderSignals
  Inputs = {"yes"}
  Outputs = {"done"}
  ActivityKeys <- DerivedActivityKeys
  ActivityKey <- DerivedActivityKey
  SignalKeys <- DerivedSignalKeys
  SignalKey <- DerivedSignalKey
  MaxTasks = 4
  WorkflowRunners = {r1, r2}
  WorkflowMaxAttempts = 1
  Handler <- OrderHandler
  ActivityRunners = {x1}
  ActivityMaxAttempts = 1
  Retention = TRUE
  RunsMayOverlap = FALSE
  MaxFaults = 1
INVARIANTS
  NoLostWakeup
  OneTaskPerEvent
  RunsReadEvents
PROPERTIES
  HistoryIsPermanent
  IsDurableWorkflow
  EveryWorkflowSettles
  EverySignalIsSeen
\* A system whose workflows have all ended, or wait for a signal, stops.
CHECK_DEADLOCK FALSE
