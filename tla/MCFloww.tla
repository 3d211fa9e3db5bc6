-------------------------------- MODULE MCFloww --------------------------------
EXTENDS FlowwProperties, Handlers, IdempotencyKeys, TLC

DerivedActivityKeys == KeysOf(WorkflowIDs, Activities)
DerivedActivityKey == KeyOf(WorkflowIDs, Activities)
DerivedSignalKeys == KeysOf(WorkflowIDs, Signals)
DerivedSignalKey == KeyOf(WorkflowIDs, Signals)

\* Runners are interchangeable.
RunnerSymmetry == Permutations(WorkflowRunners) \cup Permutations(ActivityRunners)

\* No action reads what SendSignal returned.
StateWithoutReplies == <<workflows, tasks, activities, signals, wruns, aruns, faults>>

\* What NoWakeupIsLost of FlowwWakeupProofs asks of the keys and of the handler.
ASSUME KeysAndHandlerFit == KeysAreNamespaced /\ HandlerIsMonotone
=============================================================================
