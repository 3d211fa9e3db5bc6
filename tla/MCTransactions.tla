----------------------------- MODULE MCTransactions -----------------------------
EXTENDS Transactions

CONSTANTS w1, w2, a1, a2, s1, k1, k2, g1, q1, x1

MCActivityKey == [p \in WorkflowIDs \X Activities |-> IF p[2] = a1 THEN k1 ELSE k2]
MCSignalKey == [p \in WorkflowIDs \X Signals |-> g1]

\* A workflow in its life: its first task is being run and another one is
\* pending, its first activity is being run.
MCInit ==
  /\ \E status \in {"running", "completed"} :
       workflows = [w \in WorkflowIDs |->
         IF w = w1
         THEN [status |-> status, key |-> q1, attempts |-> 1, error |-> FALSE]
         ELSE [status |-> "none", key |-> None, attempts |-> 1, error |-> FALSE]]
  /\ tasks = [t \in TaskIDs |->
       CASE t = 1 -> [status |-> "running", wf |-> w1]
         [] OTHER -> [status |-> "none", wf |-> None]]
  /\ activities = [k \in ActivityKeys |->
       IF k = k1
       THEN [NoActivityRow EXCEPT !.status = "running", !.wf = w1, !.call = a1, !.attempts = 1]
       ELSE NoActivityRow]
  /\ signals = [k \in SignalKeys |-> NoSignalRow]
  /\ TransactionInit

\* An instance of TransactionSpec.
Spec == MCInit /\ [][TransactionNext]_transactionVars /\ TransactionFairness
=============================================================================
