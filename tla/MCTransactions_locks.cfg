SPECIFICATION Spec
CONSTANTS
  w1 = w1 w2 = w2 a1 = a1 a2 = a2 s1 = s1 k1 = k1 k2 = k2 g1 = g1 q1 = q1 x1 = x1
  None = None
  WorkflowIDs = {w1, w2}
  RequestKeys = {q1}
  Activities = {a1, a2}
  ActivityKeys = {k1, k2}
  ActivityKey <- MCActivityKey
  Signals = {s1}
  SignalKeys = {g1}
  SignalKey <- MCSignalKey
  Outputs = {x1}
  Inputs = {x1}
  MaxTasks = 4
  Sessions = {1, 2, 3}
INVARIANTS TransactionInv TransactionTypeOK DeadlockNeedsABatch AtomicInv
PROPERTIES IsAtomic EveryCallEnds
\* Each session runs one call and then stops.
CHECK_DEADLOCK FALSE
