SPECIFICATION Spec
CONSTANTS
  None = None
  WorkflowIDs = {w1}
  RequestKeys = {q1}
  Activities <- OrderActivities
  Signals <- OrderSignals
  Inputs = {"yes", "no"}
  Outputs = {"done"}
  ActivityKeys <- DerivedActivityKeys
  ActivityKey <- DerivedActivityKey
  SignalKeys <- DerivedSignalKeys
  SignalKey <- DerivedSignalKey
  MaxTasks = 5
  WorkflowRunners = {r1}
  WorkflowMaxAttempts = 1
  Handler <- OrderHandler
  ActivityRunners = {x1}
  ActivityMaxAttempts = 1
  Retention = FALSE
  RunsMayOverlap = TRUE
  MaxFaults = 0
INVARIANTS
  DuplicateSignalIsIgnored
\* A system whose workflows have all ended, or wait for a signal, stops.
CHECK_DEADLOCK FALSE
