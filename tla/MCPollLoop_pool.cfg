SPECIFICATION FairSpec
CONSTANTS
  Jobs = {j1, j2, j3, j4}
  SlowJobs <- OneSlowJob
  Concurrency = 3
  BatchSize = 2
  MaxErrors = 1
INVARIANTS
  IInv
  SendNeverBlocks
  StopDrains
PROPERTIES
  IsRunnerPool
  StopReturns
  SlowJobsBlockNoOther
\* A worker that has stopped does nothing more.
CHECK_DEADLOCK FALSE
