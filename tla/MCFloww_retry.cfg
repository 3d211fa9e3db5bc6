SPECIFICATION Spec
CONSTANTS
  None = None
  WorkflowIDs = {w1}
  RequestKeys = {q1}
  Activities <- FanOutActivities
  Signals = {}
  Inputs = {}
  Outputs = {"done"}
  ActivityKeys <- DerivedActivityKeys
  ActivityKey <- DerivedActivityKey
  SignalKeys <- DerivedSignalKeys
  SignalKey <- DerivedSignalKey
  MaxTasks = 7
  WorkflowRunners = {r1, r2}
  WorkflowMaxAttempts = 2
  Handler <- FanOutHandler
  ActivityRunners = {x1, x2}
  ActivityMaxAttempts = 2
  Retention = FALSE
  RunsMayOverlap = TRUE
  MaxFaults = 1
SYMMETRY RunnerSymmetry
INVARIANTS
  TypeOK
  FailureIsJoint
  AttemptsInv
  ActivityAttemptsBounded
  WorkflowAttemptsBounded
  
  EachCallHasItsOwnEntry
  WakeupInv
  NoLostWakeup
\* A system whose workflows have all ended, or wait for a signal, stops.
CHECK_DEADLOCK FALSE
