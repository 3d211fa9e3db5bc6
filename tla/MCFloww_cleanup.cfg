SPECIFICATION Spec
CONSTANTS
  None = None
  WorkflowIDs = {w1, w2}
  RequestKeys = {q1}
  Activities <- OrderActivities
  Signals <- OrderSignals
  Inputs = {"yes"}
  Outputs = {"done"}
  ActivityKeys <- DerivedActivityKeys
  ActivityKey <- DerivedActivityKey
  SignalKeys <- DerivedSignalKeys
  SignalKey <- DerivedSignalKey
  MaxTasks = 8
  WorkflowRunners = {r1, r2}
  WorkflowMaxAttempts = 1
  Handler <- OrderHandler
  ActivityRunners = {x1, x2}
  ActivityMaxAttempts = 1
  Retention = TRUE
  RunsMayOverlap = FALSE
  MaxFaults = 0
SYMMETRY RunnerSymmetry
VIEW StateWithoutReplies
INVARIANTS
  IInv
  NoOrphanRows
  OneWorkflowPerRequest
\* A system whose workflows have all ended, or wait for a signal, stops.
CHECK_DEADLOCK FALSE
