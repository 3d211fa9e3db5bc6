------------------------------ MODULE TransactionsProofs ------------------------------
(*****************************************************************************)
(* The sessions stay well-formed, their locks never conflict, and a deadlock  *)
(* takes a batch: for every number of sessions, rows and calls.              *)
(*                                                                           *)
(* A record or a sequence that a step builds is named by PICK, with what is   *)
(* known of it as the fact: the provers then see the name and not the term.   *)
(*****************************************************************************)
EXTENDS Transactions, FiniteSetTheorems, TLAPS

-----------------------------------------------------------------------------
(* Sequences and records *)

\* The orders of a finite set are sequences of its elements.
LEMMA OrdersAreSequences ==
  ASSUME NEW S, IsFiniteSet(S), NEW f \in SetToSeqs(S)
  PROVE  f \in Seq(S)
<1>1. Cardinality(S) \in Nat
  BY FS_CardinalityType
<1>2. f \in [1..Cardinality(S) -> S]
  BY DEF SetToSeqs
<1> QED
  BY <1>1, <1>2

\* The head and the tail of a sequence over S.
LEMMA HeadAndTail ==
  ASSUME NEW S, NEW q \in Seq(S), q # <<>>
  PROVE  Head(q) \in S /\ Tail(q) \in Seq(S) /\ <<>> \o Tail(q) = Tail(q)
OBVIOUS

\* The rows left to a session that took its only one.
LEMMA AfterTheOnlyRow ==
  ASSUME NEW a, NEW b
  PROVE  /\ <<a>> # <<>> /\ Head(<<a>>) = a /\ Tail(<<a>>) = <<>>
         /\ <<>> \o <<>> = <<>> /\ <<b>> \o <<>> = <<b>>
OBVIOUS

LEMMA RequestFields ==
  ASSUME NEW table, NEW id, NEW mode
  PROVE  /\ Request(table, id, mode).mode = mode
         /\ Request(table, id, mode).row = <<table, id>>
         /\ Request(table, id, mode).row[1] = table
         /\ Request(table, id, mode).row[2] = id
BY DEF Request

-----------------------------------------------------------------------------
(* One session moves on *)

\* A step of one session keeps the invariant when the session fits and its
\* call and its locks get on with those of the others.
LEMMA SessionMoves ==
  ASSUME TransactionInv, NEW s \in Sessions, NEW y, IsSession(y),
         session' = [session EXCEPT ![s] = y], UNCHANGED storageVars,
         y.pc = "running" =>
           \A w \in WorkflowIDs : <<"workflow", w>> \in DOMAIN y.writes =>
             w = y.call.w \/ workflows[w].status # "none",
         (y.pc = "running" /\ y.call.name = "InsertWorkflow") =>
           /\ workflows[y.call.w].status = "none"
           /\ \A r \in Sessions \ {s} : session[r].call.w # y.call.w,
         \A r \in Sessions \ {s} :
           (Running(r) /\ session[r].call.name = "InsertWorkflow") =>
             session[r].call.w # y.call.w,
         \A r \in Sessions \ {s} : \A held \in y.locks, other \in session[r].locks :
           held.row = other.row => ~Conflicts(held.mode, other.mode)
  PROVE  TransactionInv'
<1>1. StorageTypeOK'
  BY DEF TransactionInv, StorageTypeOK, storageVars
<1>2. /\ session' = [q \in Sessions |-> session'[q]]
      /\ session'[s] = y
      /\ \A r \in Sessions \ {s} : session'[r] = session[r]
  BY DEF TransactionInv
<1>3. (\A r \in Sessions : IsSession(session[r]))'
  BY <1>2 DEF TransactionInv
<1>4. InsertedIsOwn'
  <2> SUFFICES ASSUME NEW r \in Sessions, Running(r)'
               PROVE  /\ \A w \in WorkflowIDs :
                           <<"workflow", w>> \in DOMAIN session'[r].writes =>
                             w = session'[r].call.w \/ workflows[w].status # "none"
                      /\ session'[r].call.name = "InsertWorkflow" =>
                           /\ workflows[session'[r].call.w].status = "none"
                           /\ \A q \in Sessions \ {r} :
                                session'[q].call.w # session'[r].call.w
    BY DEF InsertedIsOwn, storageVars
  <2>1. CASE r = s
    BY <2>1, <1>2 DEF Running
  <2>2. CASE r # s
    BY <2>2, <1>2 DEF Running, TransactionInv, InsertedIsOwn
  <2> QED
    BY <2>1, <2>2
<1>5. LocksAgree'
  <2> SUFFICES ASSUME NEW q \in Sessions, NEW r \in Sessions, q # r,
                      NEW held \in session'[q].locks, NEW other \in session'[r].locks,
                      held.row = other.row
               PROVE  ~Conflicts(held.mode, other.mode)
    BY DEF LocksAgree
  <2>1. CASE q = s
    BY <2>1, <1>2
  <2>2. CASE r = s
    <3>1. ~Conflicts(other.mode, held.mode)
      BY <2>2, <1>2
    <3> QED
      BY <3>1 DEF Conflicts
  <2>3. CASE q # s /\ r # s
    BY <2>3, <1>2 DEF TransactionInv, LocksAgree
  <2> QED
    BY <2>1, <2>2, <2>3
<1> QED
  BY <1>1, <1>2, <1>3, <1>4, <1>5 DEF TransactionInv

\* A session that ends its transaction leaves nothing behind.
LEMMA DoneIsASession ==
  ASSUME NEW y, y = [IdleSession EXCEPT !.pc = "done"]
  PROVE  IsSession(y) /\ y.pc = "done" /\ y.call.w = None /\ y.locks = {}
<1>1. y = [pc |-> "done", call |-> CallOf("none", None, None, None), script |-> <<>>,
           todo |-> <<>>, writes |-> <<>>, newTask |-> None, locks |-> {}]
  BY DEF IdleSession
<1>2. y.pc = "done" /\ y.call.w = None /\ y.locks = {}
  BY <1>1 DEF CallOf
<1> QED
  BY <1>1, <1>2 DEF IsSession

LEMMA RollsBackKeepsInv ==
  ASSUME TransactionInv, NEW s \in Sessions, RollsBack(s)
  PROVE  TransactionInv'
<1> PICK done : done = [IdleSession EXCEPT !.pc = "done"]
  OBVIOUS
<1>1. IsSession(done) /\ done.pc = "done" /\ done.call.w = None /\ done.locks = {}
  BY DoneIsASession
<1>2. \A r \in Sessions :
        (Running(r) /\ session[r].call.name = "InsertWorkflow") => session[r].call.w # None
  BY StorageAssumption
     DEF StorageAssumption, TransactionInv, IsSession, IsCall, Running, InsertCalls, ClaimCalls
<1>3. session' = [session EXCEPT ![s] = done] /\ UNCHANGED storageVars
  BY DEF RollsBack
<1> QED
  BY <1>1, <1>2, <1>3, SessionMoves

\* A step of a transaction that is running and goes on.
LEMMA SessionGoesOn ==
  ASSUME TransactionInv, NEW s \in Sessions, Running(s), NEW y, IsSession(y),
         y.pc = "running", y.call = session[s].call,
         session' = [session EXCEPT ![s] = y], UNCHANGED storageVars,
         \A w \in WorkflowIDs : <<"workflow", w>> \in DOMAIN y.writes =>
           \/ <<"workflow", w>> \in DOMAIN session[s].writes
           \/ w = y.call.w
           \/ workflows[w].status # "none",
         \A r \in Sessions \ {s} : \A held \in y.locks, other \in session[r].locks :
           held.row = other.row =>
             held \in session[s].locks \/ ~Conflicts(held.mode, other.mode)
  PROVE  TransactionInv'
<1>1. \A w \in WorkflowIDs : <<"workflow", w>> \in DOMAIN y.writes =>
        w = y.call.w \/ workflows[w].status # "none"
  BY DEF TransactionInv, InsertedIsOwn
<1>2. y.call.name = "InsertWorkflow" =>
        /\ workflows[y.call.w].status = "none"
        /\ \A r \in Sessions \ {s} : session[r].call.w # y.call.w
  BY DEF TransactionInv, InsertedIsOwn
<1>3. \A r \in Sessions \ {s} :
        (Running(r) /\ session[r].call.name = "InsertWorkflow") =>
          session[r].call.w # y.call.w
  BY DEF TransactionInv, InsertedIsOwn
<1>4. \A r \in Sessions \ {s} : \A held \in y.locks, other \in session[r].locks :
        held.row = other.row => ~Conflicts(held.mode, other.mode)
  BY DEF TransactionInv, LocksAgree
<1> QED
  BY <1>1, <1>2, <1>3, <1>4, SessionMoves

-----------------------------------------------------------------------------
(* The rows of the statements *)

\* The rows ids of one table.
Rows(table, ids, mode) == {Request(table, id, mode) : id \in ids}

LEMMA RowsAreFinite ==
  ASSUME NEW all, IsFiniteSet(all), NEW ids \in SUBSET all, NEW table, NEW mode
  PROVE  IsFiniteSet(Rows(table, ids, mode))
<1> DEFINE rows == Rows(table, ids, mode)
           request == [id \in ids |-> Request(table, id, mode)]
<1>1. request \in Surjection(ids, rows)
  BY DEF Surjection, Rows
<1>2. IsFiniteSet(ids)
  BY FS_Subset
<1> QED
  BY <1>1, <1>2, FS_Surjection

LEMMA SequencesOver ==
  ASSUME NEW S, NEW T, S \subseteq T, NEW q \in Seq(S)
  PROVE  q \in Seq(T)
OBVIOUS

\* A batch takes rows of its own kind, in any order.
LEMMA BatchOrders ==
  ASSUME NEW s \in Sessions, NEW c, NEW st, NEW order \in Orders(s, c, st),
         \/ st = "fetchWorkflowTasks" /\ c.name = "ClaimTasks"
         \/ st = "fetchActivities" /\ c.name = "ClaimActivities"
         \/ st = "deleteWorkflows" /\ c.name = "DeleteWorkflows"
         \/ st = "cascade" /\ c.name = "DeleteWorkflows"
  PROVE  order \in Seq(BatchRows(c.name))
<1>0. IsFiniteSet(TaskIDs)
  BY FS_Interval, StorageAssumption DEF StorageAssumption, TaskIDs
<1>1. CASE st = "fetchWorkflowTasks" /\ c.name = "ClaimTasks"
  <2>1. PICK T \in SUBSET TaskIDs : order \in SetToSeqs(Rows("task", T, "no_key_update"))
    BY <1>1 DEF Orders, Rows
  <2>2. IsFiniteSet(Rows("task", T, "no_key_update"))
    BY <1>0, RowsAreFinite, SessionsAssumption DEF SessionsAssumption
  <2>3. order \in Seq(Rows("task", T, "no_key_update"))
    BY <2>1, <2>2, OrdersAreSequences
  <2>4. Rows("task", T, "no_key_update") \subseteq BatchRows(c.name)
    BY <1>1 DEF BatchRows, Rows
  <2> QED
    BY <2>3, <2>4, SequencesOver
<1>2. CASE st = "fetchActivities" /\ c.name = "ClaimActivities"
  <2>1. PICK K \in SUBSET ActivityKeys :
          order \in SetToSeqs(Rows("activity", K, "no_key_update"))
    BY <1>2 DEF Orders, Rows
  <2>2. IsFiniteSet(Rows("activity", K, "no_key_update"))
    BY RowsAreFinite, SessionsAssumption DEF SessionsAssumption
  <2>3. order \in Seq(Rows("activity", K, "no_key_update"))
    BY <2>1, <2>2, OrdersAreSequences
  <2>4. Rows("activity", K, "no_key_update") \subseteq BatchRows(c.name)
    BY <1>2 DEF BatchRows, Rows
  <2> QED
    BY <2>3, <2>4, SequencesOver
<1>3. CASE st = "deleteWorkflows" /\ c.name = "DeleteWorkflows"
  <2>1. PICK W \in SUBSET WorkflowIDs : order \in SetToSeqs(Rows("workflow", W, "update"))
    BY <1>3 DEF Orders, Rows
  <2>2. IsFiniteSet(Rows("workflow", W, "update"))
    BY RowsAreFinite, SessionsAssumption DEF SessionsAssumption
  <2>3. order \in Seq(Rows("workflow", W, "update"))
    BY <2>1, <2>2, OrdersAreSequences
  <2>4. Rows("workflow", W, "update") \subseteq BatchRows(c.name)
    BY <1>3 DEF BatchRows, Rows
  <2> QED
    BY <2>3, <2>4, SequencesOver
<1>4. CASE st = "cascade" /\ c.name = "DeleteWorkflows"
  <2>1. PICK T \in SUBSET TaskIDs, K \in SUBSET ActivityKeys, G \in SUBSET SignalKeys :
          order \in SetToSeqs(Rows("task", T, "update") \cup Rows("activity", K, "update")
                              \cup Rows("signal", G, "update"))
    BY <1>4 DEF Orders, Rows
  <2> DEFINE taken == Rows("task", T, "update") \cup Rows("activity", K, "update")
                      \cup Rows("signal", G, "update")
  <2>2. /\ IsFiniteSet(Rows("task", T, "update"))
        /\ IsFiniteSet(Rows("activity", K, "update"))
        /\ IsFiniteSet(Rows("signal", G, "update"))
    BY <1>0, RowsAreFinite, SessionsAssumption DEF SessionsAssumption
  <2>3. IsFiniteSet(taken)
    BY <2>2, FS_Union
  <2>4. order \in Seq(taken)
    BY <2>1, <2>3, OrdersAreSequences
  <2>5. taken \subseteq BatchRows(c.name)
    BY <1>4 DEF BatchRows, Rows
  <2> HIDE DEF taken
  <2> QED
    BY <2>4, <2>5, SequencesOver
<1> QED
  BY <1>1, <1>2, <1>3, <1>4

\* The statements after the first.
LEMMA LaterStatements ==
  /\ Tail(Statements["InsertWorkflow"]) = <<"insertWorkflowTask">>
  /\ Tail(Statements["InsertSignal"]) = <<"insertWorkflowTask">>
  /\ Tail(Statements["InsertActivity"]) = <<>>
  /\ Tail(Statements["CompleteWorkflow"]) = <<>>
  /\ Tail(Statements["CompleteWorkflowTask"]) = <<"clearWorkflowError">>
  /\ Tail(Statements["ReScheduleWorkflowTask"]) = <<"incrementWorkflowAttempts">>
  /\ Tail(Statements["FailWorkflowTask"]) = <<"failWorkflow">>
  /\ Tail(Statements["CompleteActivity"]) = <<"insertWorkflowTask">>
  /\ Tail(Statements["ReScheduleActivity"]) = <<>>
  /\ Tail(Statements["FailActivity"]) = <<"failWorkflow">>
  /\ Tail(Statements["ClaimTasks"]) = <<>>
  /\ Tail(Statements["ClaimActivities"]) = <<>>
  /\ Tail(Statements["DeleteWorkflows"]) = <<"cascade">>
BY DEF Statements, FailWorkflowTaskStatements

LEMMA SecondStatements ==
  ASSUME NEW name \in {"InsertWorkflow", "InsertSignal", "InsertActivity",
           "CompleteWorkflow", "CompleteWorkflowTask", "ReScheduleWorkflowTask",
           "FailWorkflowTask", "CompleteActivity", "ReScheduleActivity", "FailActivity"},
         NEW script, script = Tail(Statements[name]), script # <<>>
  PROVE  /\ Tail(script) = <<>>
         /\ Head(script) = "insertWorkflowTask" =>
              name \in {"InsertWorkflow", "InsertSignal", "CompleteActivity"}
         /\ Head(script) # "insertWorkflowTask" =>
              /\ name \in TaskCalls \cup {"FailActivity"}
              /\ Head(script) \in
                   {"clearWorkflowError", "incrementWorkflowAttempts", "failWorkflow"}
<1>1. CASE name \in {"InsertWorkflow", "InsertSignal", "CompleteActivity"}
  <2>1. script = <<"insertWorkflowTask">>
    BY <1>1, LaterStatements
  <2> QED
    BY <1>1, <2>1
<1>2. CASE name \in {"InsertActivity", "CompleteWorkflow", "ReScheduleActivity"}
  BY <1>2, LaterStatements
<1>3. CASE name = "CompleteWorkflowTask"
  <2>1. script = <<"clearWorkflowError">>
    BY <1>3, LaterStatements
  <2>2. name \in TaskCalls \cup {"FailActivity"}
    BY <1>3 DEF TaskCalls
  <2> QED
    BY <2>1, <2>2
<1>4. CASE name = "ReScheduleWorkflowTask"
  <2>1. script = <<"incrementWorkflowAttempts">>
    BY <1>4, LaterStatements
  <2>2. name \in TaskCalls \cup {"FailActivity"}
    BY <1>4 DEF TaskCalls
  <2> QED
    BY <2>1, <2>2
<1>5. CASE name \in {"FailWorkflowTask", "FailActivity"}
  <2>1. script = <<"failWorkflow">>
    BY <1>5, LaterStatements
  <2>2. name \in TaskCalls \cup {"FailActivity"}
    BY <1>5 DEF TaskCalls
  <2> QED
    BY <2>1, <2>2
<1> QED
  BY <1>1, <1>2, <1>3, <1>4, <1>5

LEMMA FirstStatements ==
  /\ Head(Statements["InsertWorkflow"]) = "insertWorkflow"
  /\ Head(Statements["InsertSignal"]) = "insertSignal"
  /\ Head(Statements["InsertActivity"]) = "InsertActivity"
  /\ Head(Statements["CompleteWorkflow"]) = "CompleteWorkflow"
  /\ Head(Statements["CompleteWorkflowTask"]) = "completeWorkflowTask"
  /\ Head(Statements["ReScheduleWorkflowTask"]) = "reScheduleWorkflowTask"
  /\ Head(Statements["FailWorkflowTask"]) = "failWorkflowTask"
  /\ Head(Statements["CompleteActivity"]) = "completeActivity"
  /\ Head(Statements["ReScheduleActivity"]) = "ReScheduleActivity"
  /\ Head(Statements["FailActivity"]) = "failActivity"
  /\ Head(Statements["ClaimTasks"]) = "fetchWorkflowTasks"
  /\ Head(Statements["ClaimActivities"]) = "fetchActivities"
  /\ Head(Statements["DeleteWorkflows"]) = "deleteWorkflows"
BY DEF Statements, FailWorkflowTaskStatements

\* The first row of each call.
LEMMA FirstRows ==
  ASSUME NEW c, IsCall(c), c.w # None
  PROVE  /\ c.name = "InsertWorkflow" => First(c) = Request("request", c.id, "insert")
         /\ c.name = "InsertSignal" =>
              \E k : First(c) = Request("signal", k, "insert")
         /\ c.name = "InsertActivity" =>
              \E k : First(c) = Request("activity", k, "insert")
         /\ c.name = "CompleteWorkflow" =>
              First(c) = Request("workflow", c.w, "no_key_update")
         /\ c.name \in TaskCalls => First(c) = Request("task", c.id, "no_key_update")
         /\ c.name \in ActivityCalls =>
              First(c) = Request("activity", c.id, "no_key_update")
BY FirstStatements, StorageAssumption
   DEF StorageAssumption, First, RowOf, IsCall, InsertCalls, TaskCalls, ActivityCalls, ClaimCalls

\* A call takes the row of its workflow last, or takes no other.
LEMMA FirstTable ==
  ASSUME NEW c, IsCall(c), c.w # None, c.name # "CompleteWorkflow"
  PROVE  First(c).row[1] # "workflow"
<1>1. \A i, mode : Request("request", i, mode).row[1] # "workflow"
  BY DEF Request
<1>2. \A i, mode : Request("signal", i, mode).row[1] # "workflow"
  BY DEF Request
<1>3. \A i, mode : Request("activity", i, mode).row[1] # "workflow"
  BY DEF Request
<1>4. \A i, mode : Request("task", i, mode).row[1] # "workflow"
  BY DEF Request
<1>5. c.name \in {"InsertWorkflow", "InsertSignal", "InsertActivity"} \cup TaskCalls
        \cup ActivityCalls
  BY DEF IsCall, InsertCalls, ClaimCalls
<1> QED
  BY <1>1, <1>2, <1>3, <1>4, <1>5, FirstRows

-----------------------------------------------------------------------------
(* The statements of a running transaction *)

\* What the invariant says of a session that runs.
LEMMA RunningSession ==
  ASSUME TransactionInv, NEW s \in Sessions, Running(s)
  PROVE  /\ IsSession(session[s])
         /\ IsCall(session[s].call)
         /\ session[s].call.w = None => TakesBatch(session[s])
         /\ session[s].call.w # None => TakesInOrder(session[s])
         /\ WritesFit(session[s])
         /\ session[s].newTask \in WorkflowIDs \cup {None}
BY DEF TransactionInv, IsSession, Running

\* The names of the calls on one row and of the batches.
LEMMA CallNames ==
  ASSUME NEW c, IsCall(c)
  PROVE  /\ c.w = None => c.name \in {"ClaimTasks", "ClaimActivities", "DeleteWorkflows"}
         /\ c.w # None =>
              /\ c.w \in WorkflowIDs
              /\ c.name \in {"InsertWorkflow", "InsertSignal", "InsertActivity",
                   "CompleteWorkflow", "CompleteWorkflowTask", "ReScheduleWorkflowTask",
                   "FailWorkflowTask", "CompleteActivity", "ReScheduleActivity",
                   "FailActivity"}
BY StorageAssumption
   DEF StorageAssumption, IsCall, InsertCalls, TaskCalls, ActivityCalls, ClaimCalls

\* The statement after the first, when it takes a row: a call on one row goes
\* on to the row of its workflow.
LEMMA StartStatementKeepsInv ==
  ASSUME TransactionInv, NEW s \in Sessions, StartStatement(s)
  PROVE  TransactionInv'
<1> PICK x : x = session[s]
  OBVIOUS
<1> PICK st : st = Head(x.script)
  OBVIOUS
<1>1. /\ Running(s) /\ x.pc = "running" /\ x.todo = <<>> /\ x.script # <<>>
      /\ st # "insertWorkflowTask"
  BY DEF StartStatement, BetweenStatements, Running
<1>2. PICK order \in Orders(s, session[s].call, Head(session[s].script)) :
        session' = [session EXCEPT ![s] =
          [session[s] EXCEPT !.todo = order, !.script = Tail(session[s].script)]]
  BY DEF StartStatement
<1> PICK y : y = [session[s] EXCEPT !.todo = order, !.script = Tail(session[s].script)]
  OBVIOUS
<1>3. /\ IsSession(x) /\ IsCall(x.call) /\ WritesFit(x)
      /\ x.call.w = None => TakesBatch(x)
      /\ x.call.w # None => TakesInOrder(x)
      /\ x.newTask \in WorkflowIDs \cup {None}
  BY <1>1, RunningSession
<1>4. y = [pc |-> x.pc, call |-> x.call, script |-> Tail(x.script), todo |-> order,
           writes |-> x.writes, newTask |-> x.newTask, locks |-> x.locks]
  BY <1>2, <1>3 DEF IsSession
<1>5. ASSUME x.call.w = None
      PROVE  TakesBatch(y)
  <2>1. x.call.name = "DeleteWorkflows" /\ x.script = <<"cascade">>
    BY <1>1, <1>3, <1>5 DEF TakesBatch
  <2>2. st = "cascade" /\ Tail(x.script) = <<>>
    BY <2>1
  <2>3. order \in Seq(BatchRows(x.call.name))
    BY <2>1, <2>2, BatchOrders
  <2> QED
    BY <1>3, <1>4, <1>5, <2>2, <2>3 DEF TakesBatch
<1>6. ASSUME x.call.w # None
      PROVE  TakesInOrder(y)
  <2>1. /\ x.script = Tail(Statements[x.call.name])
        /\ x.call.name # "InsertWorkflow" =>
             \A lock \in x.locks : lock.row[1] = "workflow" =>
               /\ lock = Reference(x.call.w)
               /\ x.call.name \in {"InsertSignal", "InsertActivity", "CompleteActivity"}
    BY <1>1, <1>3, <1>6 DEF TakesInOrder
  <2>2. /\ x.call.name \in TaskCalls \cup {"FailActivity"}
        /\ Tail(x.script) = <<>>
        /\ st \in {"clearWorkflowError", "incrementWorkflowAttempts", "failWorkflow"}
    BY <1>1, <1>3, <1>6, <2>1, CallNames, SecondStatements
  <2>3. order = <<RowOf(st, x.call)>>
    BY <2>2 DEF Orders
  <2>4. RowOf(st, x.call) = Second(x.call)
    BY <2>2 DEF RowOf, Second, TaskCalls
  <2>5. \A lock \in x.locks : lock.row[1] # "workflow"
    BY <2>1, <2>2 DEF TaskCalls
  <2> QED
    BY <1>4, <2>2, <2>3, <2>4, <2>5 DEF TakesInOrder
<1>7. IsSession(y)
  BY <1>1, <1>3, <1>4, <1>5, <1>6 DEF IsSession, WritesFit
<1>8. /\ y.pc = "running" /\ y.call = x.call /\ y.locks = x.locks /\ y.writes = x.writes
      /\ session' = [session EXCEPT ![s] = y] /\ UNCHANGED storageVars
  BY <1>1, <1>2, <1>4 DEF StartStatement
<1> QED
  BY <1>1, <1>7, <1>8, SessionGoesOn

\* The task is inserted for the call's own workflow, whose row is locked first
\* when it is committed.
LEMMA StartInsertWorkflowTaskKeepsInv ==
  ASSUME TransactionInv, NEW s \in Sessions, StartInsertWorkflowTask(s)
  PROVE  TransactionInv'
<1> PICK x : x = session[s]
  OBVIOUS
<1> PICK todo : todo = IF Exists(x.call.w) THEN <<Reference(x.call.w)>> ELSE <<>>
  OBVIOUS
<1> PICK newTask : newTask = IF <<"workflow", x.call.w>> \in DOMAIN x.writes \/ Exists(x.call.w)
                             THEN x.call.w ELSE None
  OBVIOUS
<1>1. /\ Running(s) /\ x.pc = "running" /\ x.todo = <<>> /\ x.script # <<>>
      /\ Head(x.script) = "insertWorkflowTask"
  BY DEF StartInsertWorkflowTask, BetweenStatements, Running
<1> PICK y : y = [session[s] EXCEPT !.script = Tail(session[s].script),
                                    !.newTask = newTask, !.todo = todo]
  OBVIOUS
<1>2. session' = [session EXCEPT ![s] = y] /\ UNCHANGED storageVars
  BY DEF StartInsertWorkflowTask
<1>3. /\ IsSession(x) /\ IsCall(x.call) /\ WritesFit(x)
      /\ x.call.w = None => TakesBatch(x)
      /\ x.call.w # None => TakesInOrder(x)
  BY <1>1, RunningSession
<1>4. y = [pc |-> x.pc, call |-> x.call, script |-> Tail(x.script), todo |-> todo,
           writes |-> x.writes, newTask |-> newTask, locks |-> x.locks]
  BY <1>2, <1>3 DEF IsSession
<1>5. x.call.w # None
  BY <1>1, <1>3 DEF TakesBatch
<1>6. /\ x.script = Tail(Statements[x.call.name])
      /\ x.call.name # "InsertWorkflow" =>
           \A lock \in x.locks : lock.row[1] = "workflow" =>
             /\ lock = Reference(x.call.w)
             /\ x.call.name \in {"InsertSignal", "InsertActivity", "CompleteActivity"}
  BY <1>1, <1>3, <1>5 DEF TakesInOrder
<1>7. /\ x.call.name \in {"InsertWorkflow", "InsertSignal", "CompleteActivity"}
      /\ Tail(x.script) = <<>>
  BY <1>1, <1>3, <1>5, <1>6, CallNames, SecondStatements
<1>8. TakesInOrder(y)
  <2>1. CASE x.call.name = "InsertWorkflow"
    <3>1. todo = <<>>
      BY <1>1, <2>1 DEF TransactionInv, InsertedIsOwn, Exists
    <3> QED
      BY <1>4, <1>7, <2>1, <3>1 DEF TakesInOrder
  <2>2. CASE x.call.name # "InsertWorkflow"
    <3>1. todo = <<>> \/ todo = <<Second(x.call)>>
      BY <1>7, <2>2 DEF Second
    <3> QED
      BY <1>4, <1>6, <1>7, <2>2, <3>1 DEF TakesInOrder
  <2> QED
    BY <2>1, <2>2
<1>9. IsSession(y)
  BY <1>1, <1>3, <1>4, <1>5, <1>8, CallNames DEF IsSession, WritesFit
<1> QED
  BY <1>1, <1>2, <1>4, <1>9, SessionGoesOn

-----------------------------------------------------------------------------
(* A statement takes its next row *)

LEMMA OneWrite ==
  ASSUME NEW row, NEW value
  PROVE  DOMAIN WriteOf(row, value) = {row} /\ WriteOf(row, value)[row] = value
BY DEF WriteOf

\* What session x becomes when it takes a row.
Taken(x, y, locks, writes, more) ==
  y = [x EXCEPT !.todo = more \o Tail(x.todo), !.locks = x.locks \cup locks,
                !.writes = Overwrite(x.writes, writes)]

\* What is left of the invariant when a session takes a row.
LEMMA TakesKeepsInv ==
  ASSUME TransactionInv, NEW s \in Sessions, Running(s),
         NEW locks, NEW writes, NEW more, Takes(s, locks, writes, more),
         NEW x, x = session[s], NEW y, Taken(x, y, locks, writes, more),
         x.call.w = None => TakesBatch(y), x.call.w # None => TakesInOrder(y),
         \A row \in DOMAIN writes : Fits(row, writes[row]),
         \A w \in WorkflowIDs : <<"workflow", w>> \in DOMAIN writes =>
           w = x.call.w \/ workflows[w].status # "none",
         \A r \in Sessions \ {s} : \A held \in locks, other \in session[r].locks :
           held.row = other.row => ~Conflicts(held.mode, other.mode)
  PROVE  TransactionInv'
<1>1. /\ IsSession(x) /\ IsCall(x.call) /\ WritesFit(x)
      /\ x.newTask \in WorkflowIDs \cup {None} /\ x.pc = "running"
  BY RunningSession DEF Running
<1> PICK w : w = Overwrite(x.writes, writes)
  OBVIOUS
<1>2. y = [pc |-> x.pc, call |-> x.call, script |-> x.script, todo |-> more \o Tail(x.todo),
           writes |-> w, newTask |-> x.newTask, locks |-> x.locks \cup locks]
  BY <1>1 DEF IsSession, Taken
<1>3. /\ DOMAIN w = DOMAIN x.writes \cup DOMAIN writes
      /\ \A row \in DOMAIN w : w[row] = IF row \in DOMAIN writes THEN writes[row]
                                        ELSE x.writes[row]
  BY DEF Overwrite
<1>4. \A row \in DOMAIN w : Fits(row, w[row])
  BY <1>1, <1>3 DEF WritesFit
<1>5. y.writes = w /\ y.pc = "running" /\ y.call = x.call /\ y.locks = x.locks \cup locks
      /\ y.newTask = x.newTask
  BY <1>1, <1>2
<1>6. WritesFit(y)
  BY <1>4, <1>5 DEF WritesFit
<1>7. y = [pc |-> y.pc, call |-> y.call, script |-> y.script, todo |-> y.todo,
           writes |-> y.writes, newTask |-> y.newTask, locks |-> y.locks]
  BY <1>2
<1>8. IsSession(y)
  BY <1>1, <1>5, <1>6, <1>7 DEF IsSession
<1>9. session' = [session EXCEPT ![s] = y] /\ UNCHANGED storageVars
  BY DEF Takes, Taken
<1>10. \A id \in WorkflowIDs : <<"workflow", id>> \in DOMAIN y.writes =>
         \/ <<"workflow", id>> \in DOMAIN session[s].writes
         \/ id = y.call.w
         \/ workflows[id].status # "none"
  BY <1>3, <1>5
<1>11. \A r \in Sessions \ {s} : \A held \in y.locks, other \in session[r].locks :
         held.row = other.row =>
           held \in session[s].locks \/ ~Conflicts(held.mode, other.mode)
  BY <1>5
<1>12. y.call = session[s].call /\ y.pc = "running"
  BY <1>5
<1> QED
  BY <1>8, <1>9, <1>10, <1>11, <1>12, SessionGoesOn

\* A lock that a session need not wait for conflicts with no other.
LEMMA UnblockedLock ==
  ASSUME NEW s \in Sessions, session[s].todo # <<>>, Blockers(s) = {},
         NEW r \in Sessions \ {s}, NEW other \in session[r].locks, Need(s).row = other.row
  PROVE  ~Conflicts(Need(s).mode, other.mode)
<1>1. ~Conflicts(other.mode, Need(s).mode)
  BY DEF Blockers
<1> QED
  BY <1>1 DEF Conflicts

\* The rows of a batch.
LEMMA BatchRow ==
  ASSUME NEW name \in {"ClaimTasks", "ClaimActivities", "DeleteWorkflows"},
         NEW want \in BatchRows(name)
  PROVE  /\ name = "ClaimTasks" => \E t \in TaskIDs : want = Request("task", t, "no_key_update")
         /\ name = "ClaimActivities" =>
              \E k \in ActivityKeys : want = Request("activity", k, "no_key_update")
         /\ name = "DeleteWorkflows" =>
              \/ \E w \in WorkflowIDs : want = Request("workflow", w, "update")
              \/ \E t \in TaskIDs : want = Request("task", t, "update")
              \/ \E k \in ActivityKeys : want = Request("activity", k, "update")
              \/ \E k \in SignalKeys : want = Request("signal", k, "update")
<1>1. CASE name = "ClaimTasks"
  BY <1>1 DEF BatchRows
<1>2. CASE name = "ClaimActivities"
  BY <1>2 DEF BatchRows
<1>3. CASE name = "DeleteWorkflows"
  BY <1>3 DEF BatchRows
<1> QED
  BY <1>1, <1>2, <1>3

LEMMA BatchModes ==
  ASSUME NEW name \in {"ClaimTasks", "ClaimActivities", "DeleteWorkflows"},
         NEW want \in BatchRows(name)
  PROVE  want.mode \in {"no_key_update", "update"} /\ want.row[1] # "request"
BY BatchRow, RequestFields

\* The only row that a call on one row has left to take.
LEMMA OnlyRow ==
  ASSUME NEW x, TakesInOrder(x), x.todo # <<>>
  PROVE  /\ Tail(x.todo) = <<>>
         /\ \/ /\ Head(x.todo) = First(x.call) /\ x.locks = {}
               /\ x.script = Tail(Statements[x.call.name])
            \/ /\ Head(x.todo) = Reference(x.call.w)
               /\ x.script = Tail(Statements[x.call.name])
               /\ x.call.name \in {"InsertSignal", "InsertActivity"}
            \/ /\ Head(x.todo) = Second(x.call)
               /\ x.script = <<>>
               /\ x.call.name \in TaskCalls \cup
                    {"InsertSignal", "CompleteActivity", "FailActivity"}
         /\ \A lock \in x.locks : lock.row[1] = "workflow" =>
              /\ lock = Reference(x.call.w)
              /\ x.call.name \in {"InsertSignal", "InsertActivity", "CompleteActivity"}
<1>1. \A a : Head(<<a>>) = a /\ Tail(<<a>>) = <<>>
  OBVIOUS
<1> QED
  BY <1>1 DEF TakesInOrder

\* A call on one row has no row left once it took it.
LEMMA TookOnlyRow ==
  ASSUME NEW x, TakesInOrder(x), x.todo # <<>>,
         NEW y, y.call = x.call, y.script = x.script, y.todo = <<>>,
         \A lock \in y.locks : lock \in x.locks \/ lock = Head(x.todo)
                               \/ x.call.name = "InsertWorkflow",
         IsCall(x.call), x.call.w # None
  PROVE  TakesInOrder(y)
<1> DEFINE c == x.call
<1>1. \/ y.script = Tail(Statements[c.name])
      \/ y.script = <<>>
  BY DEF TakesInOrder
<1>2. \A lock \in x.locks : lock.row[1] = "workflow" =>
        /\ lock = Reference(c.w)
        /\ c.name \in {"InsertSignal", "InsertActivity", "CompleteActivity"}
  BY OnlyRow
<1>3. Head(x.todo).row[1] = "workflow" =>
        \/ /\ Head(x.todo) = Reference(c.w)
           /\ c.name \in {"InsertSignal", "InsertActivity"}
        \/ y.script = <<>>
  <2>1. CASE Head(x.todo) = First(c) /\ x.script = Tail(Statements[c.name])
    <3>1. c.name # "CompleteWorkflow" => First(c).row[1] # "workflow"
      BY FirstTable
    <3>2. c.name = "CompleteWorkflow" => x.script = <<>>
      BY <2>1, LaterStatements
    <3> QED
      BY <2>1, <3>1, <3>2
  <2> QED
    BY <2>1, OnlyRow
<1> QED
  BY <1>1, <1>2, <1>3 DEF TakesInOrder

LEMMA TakenFields ==
  ASSUME NEW x, IsSession(x), NEW y, NEW locks, NEW writes, NEW more,
         Taken(x, y, locks, writes, more)
  PROVE  /\ y.call = x.call /\ y.script = x.script
         /\ y.todo = more \o Tail(x.todo) /\ y.locks = x.locks \cup locks
<1> PICK todo, held, w : /\ todo = more \o Tail(x.todo)
                         /\ held = x.locks \cup locks
                         /\ w = Overwrite(x.writes, writes)
  OBVIOUS
<1>1. y = [pc |-> x.pc, call |-> x.call, script |-> x.script, todo |-> todo,
           writes |-> w, newTask |-> x.newTask, locks |-> held]
  BY DEF IsSession, Taken
<1> QED
  BY <1>1

LEMMA TakenRest ==
  ASSUME NEW x, IsSession(x), NEW y, NEW locks, NEW writes,
         Taken(x, y, locks, writes, <<>>), NEW rest, <<>> \o Tail(x.todo) = rest
  PROVE  y.todo = rest
<1> PICK held, w : held = x.locks \cup locks /\ w = Overwrite(x.writes, writes)
  OBVIOUS
<1>1. y = [pc |-> x.pc, call |-> x.call, script |-> x.script, todo |-> rest,
           writes |-> w, newTask |-> x.newTask, locks |-> held]
  BY DEF IsSession, Taken
<1> QED
  BY <1>1

\* A call on one row takes it, under the lock that it waited for.
LEMMA TakesItsRow ==
  ASSUME TransactionInv, NEW s \in Sessions, Running(s), session[s].call.w # None,
         session[s].todo # <<>>, Blockers(s) = {},
         NEW locks \in SUBSET {Need(s)}, NEW writes, Takes(s, locks, writes, <<>>),
         \/ locks \subseteq {Head(session[s].todo)}
         \/ session[s].call.name = "InsertWorkflow",
         \A row \in DOMAIN writes : Fits(row, writes[row]),
         \A w \in WorkflowIDs : <<"workflow", w>> \in DOMAIN writes =>
           w = session[s].call.w \/ workflows[w].status # "none"
  PROVE  TransactionInv'
<1> PICK x : x = session[s]
  OBVIOUS
<1> PICK y : Taken(x, y, locks, writes, <<>>)
  BY DEF Taken
<1>1. IsSession(x) /\ IsCall(x.call) /\ TakesInOrder(x)
  BY RunningSession
<1>2. y.todo = <<>>
  BY <1>1, TakenFields, OnlyRow
<1>3. y.call = x.call /\ y.script = x.script /\ y.locks = x.locks \cup locks
  BY <1>1, TakenFields
<1>4. \A lock \in y.locks : lock \in x.locks \/ lock = Head(x.todo)
                            \/ x.call.name = "InsertWorkflow"
  BY <1>3
<1>5. TakesInOrder(y)
  BY <1>1, <1>2, <1>3, <1>4, TookOnlyRow
<1>6. \A r \in Sessions \ {s} : \A held \in locks, other \in session[r].locks :
        held.row = other.row => ~Conflicts(held.mode, other.mode)
  BY UnblockedLock
<1> QED
  BY <1>5, <1>6, TakesKeepsInv

\* A batch takes its next row, or leaves it out.
LEMMA TakesNextRow ==
  ASSUME TransactionInv, NEW s \in Sessions, Running(s), session[s].call.w = None,
         session[s].todo # <<>>, Blockers(s) = {}, Need(s) = Head(session[s].todo),
         NEW locks \in SUBSET {Need(s)}, NEW writes, Takes(s, locks, writes, <<>>),
         \A row \in DOMAIN writes : Fits(row, writes[row]),
         \A w \in WorkflowIDs : <<"workflow", w>> \in DOMAIN writes =>
           workflows[w].status # "none"
  PROVE  TransactionInv'
<1> PICK x : x = session[s]
  OBVIOUS
<1> PICK y : Taken(x, y, locks, writes, <<>>)
  BY DEF Taken
<1>1. IsSession(x) /\ IsCall(x.call) /\ TakesBatch(x)
  BY RunningSession
<1> PICK rows : rows = BatchRows(x.call.name)
  OBVIOUS
<1>2. x.todo \in Seq(rows) /\ x.locks \subseteq rows
  BY <1>1 DEF TakesBatch
<1> PICK q : q = x.todo
  OBVIOUS
<1>3. /\ Head(q) \in rows
      /\ Tail(q) \in Seq(rows)
      /\ <<>> \o Tail(q) = Tail(q)
  <2>1. q # <<>> /\ q \in Seq(rows)
    BY <1>2
  <2> QED
    BY <2>1, HeadAndTail
<1>4. y.call = x.call /\ y.script = x.script /\ y.locks = x.locks \cup locks
  BY <1>1, TakenFields
<1>5. y.todo = Tail(q)
  BY <1>1, <1>3, TakenRest
<1>6. TakesBatch(y)
  BY <1>1, <1>2, <1>3, <1>4, <1>5 DEF TakesBatch
<1>7. \A r \in Sessions \ {s} : \A held \in locks, other \in session[r].locks :
        held.row = other.row => ~Conflicts(held.mode, other.mode)
  BY UnblockedLock
<1> QED
  BY <1>6, <1>7, TakesKeepsInv

\* The lock that a row needs.
LEMMA NeedsAsIs ==
  ASSUME NEW s \in Sessions, NEW want, want = Head(session[s].todo),
         want.row[1] # "request", want.mode # "insert"
  PROVE  Need(s) = want
BY DEF Need

LEMMA Needs ==
  ASSUME NEW s \in Sessions, NEW table, NEW id, NEW mode,
         Head(session[s].todo) = Request(table, id, mode)
  PROVE  /\ (table # "request" /\ mode # "insert") => Need(s) = Request(table, id, mode)
         /\ (table # "request" /\ mode = "insert") =>
              Need(s) = Request(table, id,
                          IF RowExists(<<table, id>>) THEN "key_share" ELSE "update")
         /\ (table = "request" /\ mode = "insert") =>
              \/ Need(s) = Request("request", id, "update")
              \/ \E w \in WorkflowIDs : Need(s) = Request("workflow", w, "update")
<1> DEFINE want == Head(session[s].todo)
           holders == {w \in WorkflowIDs : Exists(w) /\ workflows[w].key = want.row[2]}
<1>1. /\ want = [row |-> <<table, id>>, mode |-> mode]
      /\ want.row = <<table, id>> /\ want.row[1] = table /\ want.mode = mode
  BY DEF Request
<1>2. Need(s) = IF want.row[1] = "request" /\ holders # {}
                THEN Request("workflow", CHOOSE w \in holders : TRUE, "update")
                ELSE IF want.mode = "insert"
                THEN [want EXCEPT !.mode = IF RowExists(want.row) THEN "key_share" ELSE "update"]
                ELSE want
  BY DEF Need
<1> HIDE DEF holders, want
<1>3. CASE table # "request" /\ mode # "insert"
  BY <1>1, <1>2, <1>3 DEF Request
<1>4. CASE mode = "insert" /\ (table # "request" \/ holders = {})
  <2> PICK m : m = IF RowExists(<<table, id>>) THEN "key_share" ELSE "update"
    OBVIOUS
  <2>1. Need(s) = [want EXCEPT !.mode = m]
    BY <1>1, <1>2, <1>4
  <2> PICK need : need = [want EXCEPT !.mode = m]
    OBVIOUS
  <2>2. need = [row |-> <<table, id>>, mode |-> m]
    BY <1>1
  <2>3. Need(s) = Request(table, id, m)
    BY <2>1, <2>2 DEF Request
  <2>4. table = "request" => ~RowExists(<<table, id>>)
    BY DEF RowExists
  <2> QED
    BY <1>4, <2>3, <2>4
<1>5. CASE table = "request" /\ mode = "insert" /\ holders # {}
  <2>1. (CHOOSE w \in holders : TRUE) \in WorkflowIDs
    BY <1>5 DEF holders
  <2> QED
    BY <1>1, <1>2, <1>5, <2>1
<1> QED
  BY <1>3, <1>4, <1>5

\* The rows that the calls on one row take, one after the other.
LEMMA OneRow ==
  ASSUME NEW x, TakesInOrder(x), x.todo # <<>>, NEW c, c = x.call, IsCall(c), c.w # None,
         NEW want, want = Head(x.todo)
  PROVE  /\ c.w \in WorkflowIDs
         /\ \/ c.name = "InsertWorkflow" /\ want = Request("request", c.id, "insert")
            \/ /\ c.name = "InsertSignal"
               /\ \E k : want = Request("signal", k, "insert")
            \/ /\ c.name = "InsertActivity"
               /\ \E k : want = Request("activity", k, "insert")
            \/ want = Reference(c.w)
            \/ c.name \in TaskCalls /\ want = Request("task", c.id, "no_key_update")
            \/ c.name \in ActivityCalls /\ want = Request("activity", c.id, "no_key_update")
            \/ /\ c.name \in TaskCalls \cup {"CompleteWorkflow", "FailActivity"}
               /\ want = Request("workflow", c.w, "no_key_update")
<1>1. \/ want = First(c)
      \/ want = Reference(c.w)
      \/ want = Second(c) /\ c.name \in TaskCalls \cup
           {"InsertSignal", "CompleteActivity", "FailActivity"}
  BY OnlyRow
<1>2. c.w \in WorkflowIDs
  BY CallNames
<1>3. CASE want = First(c)
  <2>1. c.name \in {"InsertWorkflow", "InsertSignal", "InsertActivity", "CompleteWorkflow"}
          \cup TaskCalls \cup ActivityCalls
    BY DEF IsCall, InsertCalls, ClaimCalls
  <2> QED
    BY <1>2, <1>3, <2>1, FirstRows
<1>4. CASE want = Second(c) /\ c.name \in TaskCalls \cup
             {"InsertSignal", "CompleteActivity", "FailActivity"}
  BY <1>2, <1>4 DEF Second, TaskCalls
<1> QED
  BY <1>1, <1>2, <1>3, <1>4

LEMMA OneMode ==
  ASSUME NEW x, TakesInOrder(x), x.todo # <<>>, NEW c, c = x.call, IsCall(c), c.w # None,
         NEW want, want = Head(x.todo)
  PROVE  /\ want.mode = "key_share" => want = Reference(c.w)
         /\ want.row[1] = "request" =>
              c.name = "InsertWorkflow" /\ want = Request("request", c.id, "insert")
<1>1. CASE want = Reference(c.w)
  BY <1>1, RequestFields DEF Reference
<1>2. CASE c.name = "InsertWorkflow" /\ want = Request("request", c.id, "insert")
  BY <1>2, RequestFields
<1>3. ASSUME NEW k, want = Request("signal", k, "insert")
      PROVE  want.mode = "insert" /\ want.row[1] = "signal"
  BY <1>3, RequestFields
<1>4. ASSUME NEW k, want = Request("activity", k, "insert")
      PROVE  want.mode = "insert" /\ want.row[1] = "activity"
  BY <1>4, RequestFields
<1>5. CASE want = Request("task", c.id, "no_key_update")
  BY <1>5, RequestFields
<1>6. CASE want = Request("activity", c.id, "no_key_update")
  BY <1>6, RequestFields
<1>7. CASE want = Request("workflow", c.w, "no_key_update")
  BY <1>7, RequestFields
<1> QED
  BY <1>1, <1>2, <1>3, <1>4, <1>5, <1>6, <1>7, OneRow

\* The check of a foreign key.
LEMMA TakeReferenceKeepsInv ==
  ASSUME TransactionInv, NEW s \in Sessions, Running(s), session[s].todo # <<>>,
         Blockers(s) = {}, NEW want, want = Head(session[s].todo), TakeReference(s, want)
  PROVE  TransactionInv'
<1>1. CASE RollsBack(s)
  BY <1>1, RollsBackKeepsInv
<1>2. CASE Takes(s, {want}, <<>>, <<>>)
  <2>1. /\ IsSession(session[s]) /\ IsCall(session[s].call)
        /\ session[s].call.w = None => TakesBatch(session[s])
        /\ session[s].call.w # None => TakesInOrder(session[s])
    BY RunningSession
  <2>2. want.mode = "key_share"
    BY DEF TakeReference
  <2>3. session[s].call.w # None
    <3> SUFFICES ASSUME session[s].call.w = None PROVE FALSE
      OBVIOUS
    <3> PICK name : name = session[s].call.name
      OBVIOUS
    <3>1. name \in {"ClaimTasks", "ClaimActivities", "DeleteWorkflows"}
      BY <2>1, CallNames
    <3>2. want \in BatchRows(name)
      BY <2>1, HeadAndTail DEF TakesBatch
    <3> QED
      BY <2>2, <3>1, <3>2, BatchModes
  <2>4. want = Reference(session[s].call.w)
    <3> PICK x : x = session[s]
      OBVIOUS
    <3> PICK c : c = x.call
      OBVIOUS
    <3> QED
      BY <2>1, <2>2, <2>3, OneMode
  <2>5. Need(s) = want
    BY <2>2, <2>4, NeedsAsIs, RequestFields DEF Reference
  <2>6. DOMAIN <<>> = {}
    OBVIOUS
  <2> QED
    BY <1>2, <2>3, <2>5, <2>6, TakesItsRow
<1> QED
  BY <1>1, <1>2 DEF TakeReference

\* A request is inserted, or the row of the workflow that has it is locked.
LEMMA TakeRequestKeepsInv ==
  ASSUME TransactionInv, NEW s \in Sessions, Running(s), session[s].todo # <<>>,
         Blockers(s) = {}, NEW want, want = Head(session[s].todo), TakeRequest(s, want)
  PROVE  TransactionInv'
<1> PICK x : x = session[s]
  OBVIOUS
<1> PICK c : c = x.call
  OBVIOUS
<1>1. /\ IsSession(x) /\ IsCall(c)
      /\ c.w = None => TakesBatch(x)
      /\ c.w # None => TakesInOrder(x)
  BY RunningSession
<1>2. want.row[1] = "request"
  BY DEF TakeRequest
<1>3. c.w # None
  <2> SUFFICES ASSUME c.w = None PROVE FALSE
    OBVIOUS
  <2>1. c.name \in {"ClaimTasks", "ClaimActivities", "DeleteWorkflows"}
    BY <1>1, CallNames
  <2>2. want \in BatchRows(c.name)
    BY <1>1, HeadAndTail DEF TakesBatch
  <2> QED
    BY <1>2, <2>1, <2>2, BatchModes
<1>4. c.w \in WorkflowIDs /\ c.name = "InsertWorkflow" /\ want = Request("request", c.id, "insert")
  BY <1>1, <1>2, <1>3, OneMode, CallNames
<1>5. c.id \in RequestKeys /\ want.row[2] = c.id
  BY <1>1, <1>4, RequestFields DEF IsCall, InsertCalls, TaskCalls, ActivityCalls, ClaimCalls
<1> PICK new : new = [status |-> "running", key |-> c.id, attempts |-> 1, error |-> FALSE]
  OBVIOUS
<1>6. CASE Takes(s, {Need(s)}, WriteOf(<<"workflow", c.w>>, new), <<>>)
  <2>1. Fits(<<"workflow", c.w>>, new)
    BY <1>5 DEF Fits, WorkflowRow
  <2> PICK row : row = <<"workflow", c.w>>
    OBVIOUS
  <2> PICK writes : writes = WriteOf(row, new)
    OBVIOUS
  <2>2. \A w \in WorkflowIDs : <<"workflow", w>> = row => w = c.w
    OBVIOUS
  <2>3. DOMAIN writes = {row} /\ writes[row] = new
    BY OneWrite
  <2>4. Takes(s, {Need(s)}, writes, <<>>)
    BY <1>6
  <2>5. \A r \in DOMAIN writes : Fits(r, writes[r])
    BY <2>1, <2>3
  <2>6. \A w \in WorkflowIDs : <<"workflow", w>> \in DOMAIN writes =>
          w = session[s].call.w \/ workflows[w].status # "none"
    BY <2>2, <2>3
  <2>7. session[s].call.w # None /\ session[s].call.name = "InsertWorkflow"
    BY <1>3, <1>4
  <2> QED
    BY <2>4, <2>5, <2>6, <2>7, TakesItsRow
<1>7. CASE Takes(s, {Need(s)}, <<>>, <<>>)
  <2>1. DOMAIN <<>> = {}
    OBVIOUS
  <2> QED
    BY <1>3, <1>4, <1>7, <2>1, TakesItsRow
<1> QED
  BY <1>5, <1>6, <1>7 DEF TakeRequest

-----------------------------------------------------------------------------
(* What the statements write fits the tables *)

LEMMA ClaimedActivityFits ==
  ASSUME NEW row \in ActivityRow, NEW n \in Nat, NEW new,
         new = [row EXCEPT !.status = "running", !.attempts = n]
  PROVE  new \in ActivityRow
BY DEF ActivityRow

LEMMA UpdatedWorkflowFits ==
  ASSUME StorageTypeOK, NEW c, NEW w \in WorkflowIDs, Exists(w),
         c.name \in TaskCalls \cup {"CompleteWorkflow", "FailActivity"}
  PROVE  UpdatedWorkflow(c, w) \in WorkflowRow /\ UpdatedWorkflow(c, w).status # "none"
<1> PICK row \in WorkflowRow : row = workflows[w]
  BY DEF StorageTypeOK
<1>1. row.status # "none"
  BY DEF Exists
<1>2. \/ UpdatedWorkflow(c, w) = [row EXCEPT !.status = "completed", !.error = FALSE]
      \/ UpdatedWorkflow(c, w) = [row EXCEPT !.error = FALSE]
      \/ UpdatedWorkflow(c, w) = [row EXCEPT !.attempts = row.attempts + 1, !.error = TRUE]
      \/ UpdatedWorkflow(c, w) = [row EXCEPT !.status = "failed", !.error = TRUE]
  BY DEF UpdatedWorkflow, TaskCalls
<1> PICK new : new = UpdatedWorkflow(c, w)
  OBVIOUS
<1>3. CASE new = [row EXCEPT !.status = "completed", !.error = FALSE]
  BY <1>3 DEF WorkflowRow
<1>4. CASE new = [row EXCEPT !.error = FALSE]
  BY <1>1, <1>4 DEF WorkflowRow
<1>5. CASE new = [row EXCEPT !.attempts = row.attempts + 1, !.error = TRUE]
  <2>1. row.attempts + 1 \in Nat
    BY DEF WorkflowRow
  <2>2. PICK n \in Nat : new = [row EXCEPT !.attempts = n, !.error = TRUE]
    BY <1>5, <2>1
  <2>3. new \in WorkflowRow /\ new.status = row.status
    BY <2>2 DEF WorkflowRow
  <2> QED
    BY <1>1, <2>3
<1>6. CASE new = [row EXCEPT !.status = "failed", !.error = TRUE]
  BY <1>6 DEF WorkflowRow
<1> QED
  BY <1>2, <1>3, <1>4, <1>5, <1>6

LEMMA UpdatedTaskFits ==
  ASSUME StorageTypeOK, NEW c, NEW t \in TaskIDs, c.name \in TaskCalls \cup {"ClaimTasks"}
  PROVE  UpdatedTask(c, t) \in TaskRow
<1> PICK row \in TaskRow : row = tasks[t]
  BY DEF StorageTypeOK
<1>1. PICK status \in {"completed", "pending", "failed", "running"} :
        UpdatedTask(c, t) = [row EXCEPT !.status = status]
  BY DEF UpdatedTask, TaskCalls
<1> QED
  BY <1>1 DEF TaskRow

LEMMA UpdatedActivityFits ==
  ASSUME StorageTypeOK, NEW c, NEW k \in ActivityKeys,
         c.name \in ActivityCalls \cup {"ClaimActivities"},
         c.name = "CompleteActivity" => c.value \in Outputs
  PROVE  UpdatedActivity(c, k) \in ActivityRow
<1> PICK row \in ActivityRow : row = activities[k]
  BY DEF StorageTypeOK
<1>1. \/ /\ c.value \in Outputs
         /\ UpdatedActivity(c, k) = [row EXCEPT !.status = "completed", !.output = c.value]
      \/ UpdatedActivity(c, k) = [row EXCEPT !.status = "pending"]
      \/ UpdatedActivity(c, k) = [row EXCEPT !.status = "failed"]
      \/ UpdatedActivity(c, k) = [row EXCEPT !.status = "running",
                                             !.attempts = row.attempts + 1]
  BY DEF UpdatedActivity, ActivityCalls
<1> PICK new : new = UpdatedActivity(c, k)
  OBVIOUS
<1>2. CASE c.value \in Outputs /\ new = [row EXCEPT !.status = "completed", !.output = c.value]
  BY <1>2 DEF ActivityRow
<1>3. CASE new = [row EXCEPT !.status = "pending"]
  BY <1>3 DEF ActivityRow
<1>4. CASE new = [row EXCEPT !.status = "failed"]
  BY <1>4 DEF ActivityRow
<1>5. CASE new = [row EXCEPT !.status = "running", !.attempts = row.attempts + 1]
  <2>1. row.attempts + 1 \in Nat
    BY DEF ActivityRow
  <2> QED
    BY <1>5, <2>1, ClaimedActivityFits
<1> QED
  BY <1>1, <1>2, <1>3, <1>4, <1>5

LEMMA DeletedFits ==
  ASSUME NEW table \in {"workflow", "task", "activity", "signal"}, NEW id
  PROVE  Fits(<<table, id>>, Deleted(table))
BY DEF Fits, Deleted, WorkflowRow, TaskRow, ActivityRow, SignalRow, NoActivityRow, NoSignalRow

-----------------------------------------------------------------------------
(* Inserts, updates and deletes *)

\* The insert of an activity or of a signal is the first thing its call does.
LEMMA OneInsert ==
  ASSUME NEW x, TakesInOrder(x), x.todo # <<>>, NEW c, c = x.call, IsCall(c), c.w # None,
         NEW want, want = Head(x.todo), want.mode = "insert", want.row[1] # "request"
  PROVE  /\ c.w \in WorkflowIDs /\ x.locks = {} /\ x.script = Tail(Statements[c.name])
         /\ \/ c.name = "InsertSignal" /\ \E k : want = Request("signal", k, "insert")
            \/ /\ c.name = "InsertActivity"
               /\ \E k : want = Request("activity", k, "insert")
<1>1. /\ Reference(c.w).mode = "key_share"
      /\ Second(c).mode \in {"key_share", "no_key_update"}
  BY RequestFields DEF Reference, Second
<1>2. x.locks = {} /\ x.script = Tail(Statements[c.name])
  BY <1>1, OnlyRow
<1>3. /\ want # Request("request", c.id, "insert")
      /\ want # Request("task", c.id, "no_key_update")
      /\ want # Request("activity", c.id, "no_key_update")
      /\ want # Request("workflow", c.w, "no_key_update")
  BY RequestFields
<1> QED
  BY <1>1, <1>2, <1>3, OneRow

\* A session that runs one statement on one row of its own.
LEMMA OnOneRow ==
  ASSUME TransactionInv, NEW s \in Sessions, Running(s), session[s].todo # <<>>,
         NEW x, x = session[s], NEW want, want = Head(x.todo),
         want.mode \in {"insert", "key_share"} \/ want.row[1] = "request"
  PROVE  x.call.w # None
<1> SUFFICES ASSUME x.call.w = None PROVE FALSE
  OBVIOUS
<1> PICK name : name = x.call.name
  OBVIOUS
<1>1. IsCall(x.call) /\ TakesBatch(x)
  BY RunningSession
<1>2. name \in {"ClaimTasks", "ClaimActivities", "DeleteWorkflows"}
  BY <1>1, CallNames
<1>3. want \in BatchRows(name)
  BY <1>1, HeadAndTail DEF TakesBatch
<1> QED
  BY <1>2, <1>3, BatchModes

LEMMA TakeInsertKeepsInv ==
  ASSUME TransactionInv, NEW s \in Sessions, Running(s), session[s].todo # <<>>,
         Blockers(s) = {}, NEW want, want = Head(session[s].todo), TakeInsert(s, want)
  PROVE  TransactionInv'
<1> PICK x : x = session[s]
  OBVIOUS
<1> PICK c : c = x.call
  OBVIOUS
<1>1. want.mode = "insert" /\ want.row[1] # "request"
  BY DEF TakeInsert
<1>2. c.w # None
  BY <1>1, OnOneRow
<1>3. IsSession(x) /\ IsCall(c) /\ TakesInOrder(x)
  BY <1>2, RunningSession
<1>4. /\ c.w \in WorkflowIDs /\ x.locks = {} /\ x.script = Tail(Statements[c.name])
      /\ \/ c.name = "InsertSignal" /\ \E k : want = Request("signal", k, "insert")
         \/ /\ c.name = "InsertActivity"
            /\ \E k : want = Request("activity", k, "insert")
  BY <1>1, <1>2, <1>3, OneInsert
<1> PICK value : value = IF c.name = "InsertSignal" THEN [wf |-> c.w, input |-> c.value]
                 ELSE [NoActivityRow EXCEPT !.status = "pending", !.wf = c.w, !.call = c.id]
  OBVIOUS
<1>5. CASE Takes(s, {Need(s)}, WriteOf(want.row, value), <<Reference(c.w)>>)
  <2> PICK writes, locks, more :
        /\ writes = WriteOf(want.row, value)
        /\ locks = {Need(s)}
        /\ more = <<Reference(c.w)>>
    OBVIOUS
  <2> PICK y : Taken(x, y, locks, writes, more)
    BY DEF Taken
  <2>1. more \o Tail(x.todo) = <<Reference(c.w)>>
    BY <1>3, OnlyRow, AfterTheOnlyRow
  <2>2. /\ y.call = c /\ y.script = x.script /\ y.locks = {Need(s)}
        /\ y.todo = <<Reference(c.w)>>
    BY <1>3, <1>4, <2>1, TakenFields
  <2>3. Need(s).row[1] # "workflow"
    <3>1. PICK table, k : table \in {"signal", "activity"} /\ want = Request(table, k, "insert")
      BY <1>4
    <3> PICK mode : mode = IF RowExists(<<table, k>>) THEN "key_share" ELSE "update"
      OBVIOUS
    <3>2. Need(s) = Request(table, k, mode)
      BY <3>1, Needs
    <3> QED
      BY <3>1, <3>2, RequestFields
  <2>4. TakesInOrder(y)
    BY <1>4, <2>2, <2>3 DEF TakesInOrder
  <2>5. Fits(want.row, value)
    <3>1. CASE c.name = "InsertSignal"
      <4>1. want.row[1] = "signal"
        BY <1>4, <3>1, RequestFields
      <4>2. c.value \in Inputs
        BY <1>3, <3>1 DEF IsCall, InsertCalls, TaskCalls, ActivityCalls, ClaimCalls
      <4> QED
        BY <1>4, <3>1, <4>1, <4>2 DEF Fits, SignalRow
    <3>2. CASE c.name = "InsertActivity"
      <4>1. want.row[1] = "activity"
        BY <1>4, <3>2, RequestFields
      <4>2. c.id \in Activities
        BY <1>3, <3>2 DEF IsCall, InsertCalls, TaskCalls, ActivityCalls, ClaimCalls
      <4> QED
        BY <1>4, <3>2, <4>1, <4>2 DEF Fits, ActivityRow, NoActivityRow
    <3> QED
      BY <1>4, <3>1, <3>2
  <2>6. \A w \in WorkflowIDs : <<"workflow", w>> # want.row
    <3>1. want.row[1] # "workflow"
      BY <1>4, RequestFields
    <3> QED
      BY <3>1
  <2>7. DOMAIN writes = {want.row} /\ writes[want.row] = value
    BY OneWrite
  <2>8. \A r \in Sessions \ {s} : \A held \in locks, other \in session[r].locks :
          held.row = other.row => ~Conflicts(held.mode, other.mode)
    BY UnblockedLock
  <2> QED
    <3>1. Takes(s, locks, writes, more)
      BY <1>5
    <3>2. \A row \in DOMAIN writes : Fits(row, writes[row])
      BY <2>5, <2>7
    <3>3. \A w \in WorkflowIDs : <<"workflow", w>> \notin DOMAIN writes
      BY <2>6, <2>7
    <3> QED
      BY <1>2, <2>4, <2>8, <3>1, <3>2, <3>3, TakesKeepsInv
<1>6. CASE RollsBack(s)
  BY <1>6, RollsBackKeepsInv
<1>7. CASE Takes(s, {}, <<>>, <<>>)
  <2>1. DOMAIN <<>> = {}
    OBVIOUS
  <2> QED
    BY <1>2, <1>7, <2>1, TakesItsRow
<1> QED
  BY <1>5, <1>6, <1>7 DEF TakeInsert

\* Call c may take row id of a table with an UPDATE or a DELETE.
Writes(c, table, id, mode) ==
  \/ mode = "update" /\ table \in {"workflow", "task", "activity", "signal"}
  \/ /\ mode = "no_key_update" /\ table = "workflow" /\ id \in WorkflowIDs
     /\ c.name \in TaskCalls \cup {"CompleteWorkflow", "FailActivity"}
  \/ /\ mode = "no_key_update" /\ table = "task" /\ id \in TaskIDs
     /\ c.name \in TaskCalls \cup {"ClaimTasks"}
  \/ /\ mode = "no_key_update" /\ table = "activity" /\ id \in ActivityKeys
     /\ c.name \in ActivityCalls \cup {"ClaimActivities"}

LEMMA NewRowFits ==
  ASSUME StorageTypeOK, NEW c, IsCall(c), NEW table, NEW id, NEW mode,
         Writes(c, table, id, mode), RowExists(<<table, id>>)
  PROVE  Fits(<<table, id>>, NewRow(<<table, id>>, mode, c))
<1> PICK row : row = <<table, id>> /\ row[1] = table /\ row[2] = id
  OBVIOUS
<1> PICK new : new = NewRow(row, mode, c)
  OBVIOUS
<1>1. CASE mode = "update" /\ table \in {"workflow", "task", "activity", "signal"}
  <2>1. new = Deleted(table)
    BY <1>1 DEF NewRow
  <2> QED
    BY <1>1, <2>1, DeletedFits
<1>2. CASE /\ mode = "no_key_update" /\ table = "workflow" /\ id \in WorkflowIDs
           /\ c.name \in TaskCalls \cup {"CompleteWorkflow", "FailActivity"}
  <2>1. new = UpdatedWorkflow(c, id)
    BY <1>2 DEF NewRow
  <2>2. Exists(id)
    BY <1>2 DEF RowExists
  <2> QED
    BY <1>2, <2>1, <2>2, UpdatedWorkflowFits DEF Fits
<1>3. CASE /\ mode = "no_key_update" /\ table = "task" /\ id \in TaskIDs
           /\ c.name \in TaskCalls \cup {"ClaimTasks"}
  <2>1. new = UpdatedTask(c, id)
    BY <1>3 DEF NewRow
  <2> QED
    BY <1>3, <2>1, UpdatedTaskFits DEF Fits
<1>4. CASE /\ mode = "no_key_update" /\ table = "activity" /\ id \in ActivityKeys
           /\ c.name \in ActivityCalls \cup {"ClaimActivities"}
  <2>1. new = UpdatedActivity(c, id)
    BY <1>4 DEF NewRow
  <2>2. c.name = "CompleteActivity" => c.value \in Outputs
    BY DEF IsCall, ClaimCalls
  <2> QED
    BY <1>4, <2>1, <2>2, UpdatedActivityFits DEF Fits
<1> QED
  BY <1>1, <1>2, <1>3, <1>4 DEF Writes

\* The row that an UPDATE or a DELETE takes next.
LEMMA WrittenRow ==
  ASSUME TransactionInv, NEW s \in Sessions, Running(s), session[s].todo # <<>>,
         NEW want, want = Head(session[s].todo), want.mode \in {"no_key_update", "update"}
  PROVE  \E table, id, mode :
           want = Request(table, id, mode) /\ Writes(session[s].call, table, id, mode)
<1> PICK x : x = session[s]
  OBVIOUS
<1> PICK c : c = x.call
  OBVIOUS
<1>1. /\ IsCall(c)
      /\ c.w = None => TakesBatch(x)
      /\ c.w # None => TakesInOrder(x)
  BY RunningSession
<1>2. CASE c.w = None
  <2>1. c.name \in {"ClaimTasks", "ClaimActivities", "DeleteWorkflows"}
    BY <1>1, <1>2, CallNames
  <2>2. want \in BatchRows(c.name)
    BY <1>1, <1>2, HeadAndTail DEF TakesBatch
  <2>3. CASE c.name = "ClaimTasks"
    BY <2>2, <2>3, BatchRow DEF Writes
  <2>4. CASE c.name = "ClaimActivities"
    BY <2>2, <2>4, BatchRow DEF Writes
  <2>5. CASE c.name = "DeleteWorkflows"
    BY <2>2, <2>5, BatchRow DEF Writes
  <2> QED
    BY <2>1, <2>3, <2>4, <2>5
<1>3. CASE c.w # None
  <2>1. /\ want # Request("request", c.id, "insert") /\ want # Reference(c.w)
        /\ \A k : want # Request("signal", k, "insert")
        /\ \A k : want # Request("activity", k, "insert")
    BY RequestFields DEF Reference
  <2>2. /\ c.w \in WorkflowIDs
        /\ \/ c.name \in TaskCalls /\ want = Request("task", c.id, "no_key_update")
           \/ c.name \in ActivityCalls /\ want = Request("activity", c.id, "no_key_update")
           \/ /\ c.name \in TaskCalls \cup {"CompleteWorkflow", "FailActivity"}
              /\ want = Request("workflow", c.w, "no_key_update")
    BY <1>1, <1>3, <2>1, OneRow
  <2>3. /\ c.name \in TaskCalls => c.id \in TaskIDs
        /\ c.name \in ActivityCalls => c.id \in ActivityKeys
    BY <1>1 DEF IsCall, TaskCalls, ActivityCalls, ClaimCalls
  <2> QED
    BY <2>2, <2>3 DEF Writes
<1> QED
  BY <1>2, <1>3

\* An UPDATE or a DELETE takes its row, or finds it gone.
LEMMA TakeRowKeepsInv ==
  ASSUME TransactionInv, NEW s \in Sessions, Running(s), session[s].todo # <<>>,
         Blockers(s) = {}, NEW want, want = Head(session[s].todo), TakeRow(s, want)
  PROVE  TransactionInv'
<1> PICK c : c = session[s].call
  OBVIOUS
<1>1. want.mode \in {"no_key_update", "update"}
  BY DEF TakeRow
<1>2. PICK table, id, mode : want = Request(table, id, mode) /\ Writes(c, table, id, mode)
  BY <1>1, WrittenRow
<1>3. want.row = <<table, id>> /\ want.row[1] = table /\ want.row[2] = id /\ want.mode = mode
  BY <1>2, RequestFields
<1>4. Need(s) = want
  BY <1>1, <1>2, <1>3, NeedsAsIs DEF Writes
<1>5. CASE RollsBack(s)
  BY <1>5, RollsBackKeepsInv
<1>6. CASE Takes(s, {}, <<>>, <<>>) /\ c.w = None
  <2>1. DOMAIN <<>> = {}
    OBVIOUS
  <2> QED
    BY <1>4, <1>6, <2>1, TakesNextRow
<1>7. CASE Finds(c, want.row)
           /\ Takes(s, {want}, WriteOf(want.row, NewRow(want.row, mode, c)), <<>>)
  <2> PICK value, writes :
        value = NewRow(want.row, mode, c) /\ writes = WriteOf(want.row, value)
    OBVIOUS
  <2>1. RowExists(want.row)
    BY <1>7 DEF Finds
  <2>2. StorageTypeOK /\ IsCall(c)
    BY RunningSession DEF TransactionInv
  <2>3. Fits(want.row, value)
    BY <1>2, <1>3, <2>1, <2>2, NewRowFits
  <2>4. DOMAIN writes = {want.row} /\ writes[want.row] = value
    BY OneWrite
  <2>5. \A row \in DOMAIN writes : Fits(row, writes[row])
    BY <2>3, <2>4
  <2>6. \A w \in WorkflowIDs : <<"workflow", w>> \in DOMAIN writes => workflows[w].status # "none"
    <3> SUFFICES ASSUME NEW w \in WorkflowIDs, <<"workflow", w>> = want.row
                 PROVE  workflows[w].status # "none"
      BY <2>4
    <3>1. table = "workflow" /\ id = w
      BY <1>3
    <3> QED
      BY <1>3, <2>1, <3>1 DEF RowExists, Exists
  <2>7. Takes(s, {want}, writes, <<>>)
    BY <1>7
  <2>8. CASE c.w = None
    BY <1>4, <2>5, <2>6, <2>7, <2>8, TakesNextRow
  <2>9. CASE c.w # None
    BY <1>4, <2>5, <2>6, <2>7, <2>9, TakesItsRow
  <2> QED
    BY <2>8, <2>9
<1> QED
  BY <1>3, <1>5, <1>6, <1>7 DEF TakeRow

LEMMA TakeKeepsInv ==
  ASSUME TransactionInv, NEW s \in Sessions, Take(s)
  PROVE  TransactionInv'
<1> PICK want : want = Head(session[s].todo)
  OBVIOUS
<1>1. Running(s) /\ session[s].todo # <<>> /\ Blockers(s) = {}
  BY DEF Take, Running
<1>2. TakeReference(s, want) \/ TakeRequest(s, want) \/ TakeInsert(s, want) \/ TakeRow(s, want)
  BY DEF Take
<1> QED
  BY <1>1, <1>2, TakeReferenceKeepsInv, TakeRequestKeepsInv, TakeInsertKeepsInv, TakeRowKeepsInv

-----------------------------------------------------------------------------
(* The begin and the end of a transaction *)

LEMMA CallFields ==
  ASSUME NEW name, NEW w, NEW ids, NEW values, NEW c \in CallsOf(name, w, ids, values)
  PROVE  c.name = name /\ c.w = w /\ c.id \in ids /\ c.value \in values
BY DEF CallsOf, CallOf

\* The calls about a workflow name it.
LEMMA CallsForAWorkflow ==
  ASSUME NEW w \in WorkflowIDs, NEW c \in CallsFor(w)
  PROVE  IsCall(c) /\ c.w = w /\ c.name # "InsertWorkflow"
<1> DEFINE own == {t \in TaskIDs : tasks[t].wf = w}
           runs == {k \in ActivityKeys : activities[k].wf = w}
<1>1. CASE c \in CallsOf("InsertSignal", w, Signals, Inputs)
  BY <1>1, CallFields DEF IsCall, InsertCalls, TaskCalls, ActivityCalls, ClaimCalls
<1>2. CASE c \in CallsOf("InsertActivity", w, Activities, {None})
  BY <1>2, CallFields DEF IsCall, InsertCalls, TaskCalls, ActivityCalls, ClaimCalls
<1>3. CASE c \in CallsOf("CompleteWorkflow", w, {None}, {None})
  BY <1>3, CallFields DEF IsCall, InsertCalls, TaskCalls, ActivityCalls, ClaimCalls
<1>4. ASSUME NEW name \in TaskCalls, c \in CallsOf(name, w, own, {None})
      PROVE  IsCall(c) /\ c.w = w /\ c.name # "InsertWorkflow"
  <2>1. c.name = name /\ c.w = w /\ c.id \in TaskIDs
    BY <1>4, CallFields
  <2> QED
    BY <1>4, <2>1 DEF IsCall, InsertCalls, TaskCalls, ActivityCalls, ClaimCalls
<1>5. CASE c \in CallsOf("CompleteActivity", w, runs, Outputs)
  <2>1. c.name = "CompleteActivity" /\ c.w = w /\ c.id \in ActivityKeys /\ c.value \in Outputs
    BY <1>5, CallFields
  <2> QED
    BY <2>1 DEF IsCall, InsertCalls, TaskCalls, ActivityCalls, ClaimCalls
<1>6. ASSUME NEW name \in {"ReScheduleActivity", "FailActivity"},
             c \in CallsOf(name, w, runs, {None})
      PROVE  IsCall(c) /\ c.w = w /\ c.name # "InsertWorkflow"
  <2>1. c.name = name /\ c.w = w /\ c.id \in ActivityKeys
    BY <1>6, CallFields
  <2> QED
    BY <1>6, <2>1 DEF IsCall, InsertCalls, TaskCalls, ActivityCalls, ClaimCalls
<1> HIDE DEF own, runs
<1>7. \/ c \in CallsOf("InsertSignal", w, Signals, Inputs)
      \/ c \in CallsOf("InsertActivity", w, Activities, {None})
      \/ c \in CallsOf("CompleteWorkflow", w, {None}, {None})
      \/ \E name \in TaskCalls : c \in CallsOf(name, w, own, {None})
      \/ c \in CallsOf("CompleteActivity", w, runs, Outputs)
      \/ \E name \in {"ReScheduleActivity", "FailActivity"} :
           c \in CallsOf(name, w, runs, {None})
  BY DEF CallsFor, TaskCalls, own, runs
<1> QED
  BY <1>1, <1>2, <1>3, <1>4, <1>5, <1>6, <1>7

LEMMA BatchesAreCalls ==
  ASSUME NEW c \in BatchCalls
  PROVE  IsCall(c) /\ c.w = None
<1>1. \/ c \in CallsOf("ClaimTasks", None, {None}, {None})
      \/ c \in CallsOf("ClaimActivities", None, {None}, {None})
      \/ c \in CallsOf("DeleteWorkflows", None, {"completed", "failed"}, {None})
  BY DEF BatchCalls
<1> QED
  BY <1>1, CallFields DEF IsCall, ClaimCalls

\* What an idle session becomes when it begins.
Begun(x, y, c, order, script) ==
  y = [x EXCEPT !.pc = "running", !.call = c, !.todo = order, !.script = script]

LEMMA BegunFields ==
  ASSUME NEW x, x = [IdleSession EXCEPT !.pc = "idle"],
         NEW c, NEW order, NEW script, NEW y, Begun(x, y, c, order, script)
  PROVE  /\ y = [pc |-> y.pc, call |-> y.call, script |-> y.script, todo |-> y.todo,
                 writes |-> y.writes, newTask |-> y.newTask, locks |-> y.locks]
         /\ y.pc = "running" /\ y.call = c /\ y.script = script /\ y.todo = order
         /\ DOMAIN y.writes = {} /\ y.newTask = None /\ y.locks = {}
<1> PICK call, none : call = CallOf("none", None, None, None) /\ none = <<>>
  OBVIOUS
<1>1. x = [pc |-> "idle", call |-> call, script |-> none, todo |-> none,
           writes |-> none, newTask |-> None, locks |-> {}]
  BY DEF IdleSession
<1>2. x.writes = none /\ x.newTask = None /\ x.locks = {}
  BY <1>1
<1>3. x = [pc |-> x.pc, call |-> x.call, script |-> x.script, todo |-> x.todo,
           writes |-> x.writes, newTask |-> x.newTask, locks |-> x.locks]
  BY <1>1
<1>4. y = [pc |-> "running", call |-> c, script |-> script, todo |-> order,
           writes |-> x.writes, newTask |-> x.newTask, locks |-> x.locks]
  BY <1>3 DEF Begun
<1>5. DOMAIN none = {}
  OBVIOUS
<1> QED
  BY <1>2, <1>4, <1>5

\* A call begins with its first statement, and holds nothing.
LEMMA BeginKeepsInv ==
  ASSUME TransactionInv, NEW s \in Sessions, NEW c, Begin(s, c), IsCall(c),
         c.name = "InsertWorkflow" =>
           /\ workflows[c.w].status = "none"
           /\ \A r \in Sessions : session[r].call.w # c.w,
         (c.name # "InsertWorkflow" /\ c.w # None) => Exists(c.w)
  PROVE  TransactionInv'
<1> PICK x, st, script :
      x = session[s] /\ st = Head(Statements[c.name]) /\ script = Tail(Statements[c.name])
  OBVIOUS
<1>1. PICK order, y :
        /\ order \in Orders(s, c, st)
        /\ Begun(x, y, c, order, script)
        /\ session' = [session EXCEPT ![s] = y]
  BY DEF Begin, Begun
<1>2. x = [IdleSession EXCEPT !.pc = "idle"]
  <2>1. x.pc = "idle" /\ x = [IdleSession EXCEPT !.pc = x.pc]
    BY DEF TransactionInv, IsSession, Begin
  <2> QED
    BY <2>1
<1>3. /\ y = [pc |-> y.pc, call |-> y.call, script |-> y.script, todo |-> y.todo,
              writes |-> y.writes, newTask |-> y.newTask, locks |-> y.locks]
      /\ y.pc = "running" /\ y.call = c /\ y.script = script /\ y.todo = order
      /\ DOMAIN y.writes = {} /\ y.newTask = None /\ y.locks = {}
  BY <1>1, <1>2, BegunFields
<1>4. ASSUME c.w = None
      PROVE  TakesBatch(y)
  <2>1. \/ st = "fetchWorkflowTasks" /\ c.name = "ClaimTasks"
        \/ st = "fetchActivities" /\ c.name = "ClaimActivities"
        \/ st = "deleteWorkflows" /\ c.name = "DeleteWorkflows"
    BY <1>4, CallNames, FirstStatements
  <2>2. order \in Seq(BatchRows(c.name))
    BY <1>1, <2>1, BatchOrders
  <2>3. script = <<>> \/ (c.name = "DeleteWorkflows" /\ script = <<"cascade">>)
    BY <2>1, LaterStatements
  <2> QED
    BY <1>3, <2>2, <2>3 DEF TakesBatch
<1>5. ASSUME c.w # None
      PROVE  TakesInOrder(y)
  <2>1. st \notin {"fetchWorkflowTasks", "fetchActivities", "deleteWorkflows", "cascade",
                   "insertWorkflowTask"}
    BY <1>5, CallNames, FirstStatements
  <2>2. order = <<RowOf(st, c)>>
    BY <1>1, <2>1 DEF Orders
  <2> QED
    BY <1>3, <2>2 DEF TakesInOrder, First
<1>6. DOMAIN y.writes = {}
  BY <1>3
<1>7. IsSession(y)
  BY <1>3, <1>4, <1>5, <1>6 DEF IsSession, WritesFit
<1>8. \A r \in Sessions \ {s} :
        (Running(r) /\ session[r].call.name = "InsertWorkflow") => session[r].call.w # c.w
  <2> SUFFICES ASSUME NEW r \in Sessions \ {s}, Running(r),
                      session[r].call.name = "InsertWorkflow"
               PROVE  session[r].call.w # c.w
    OBVIOUS
  <2>1. IsCall(session[r].call)
    BY RunningSession
  <2>2. session[r].call.w # None
    BY <2>1, CallNames
  <2>3. workflows[session[r].call.w].status = "none"
    BY DEF TransactionInv, InsertedIsOwn
  <2> QED
    BY <2>2, <2>3 DEF Exists
<1>9. /\ y.pc = "running" /\ y.call = c /\ y.locks = {}
      /\ session' = [session EXCEPT ![s] = y] /\ UNCHANGED storageVars
  BY <1>1, <1>3 DEF Begin
<1> QED
  BY <1>6, <1>7, <1>8, <1>9, SessionMoves

LEMMA BeginAnyKeepsInv ==
  ASSUME TransactionInv, NEW s \in Sessions, BeginAny(s)
  PROVE  TransactionInv'
<1>1. ASSUME NEW w \in WorkflowIDs, Exists(w), NEW c \in CallsFor(w), Begin(s, c)
      PROVE  TransactionInv'
  BY <1>1, CallsForAWorkflow, BeginKeepsInv
<1>2. ASSUME NEW c \in BatchCalls, Begin(s, c)
      PROVE  TransactionInv'
  <2>1. IsCall(c) /\ c.w = None
    BY <1>2, BatchesAreCalls
  <2>2. c.name # "InsertWorkflow"
    BY <2>1, CallNames
  <2> QED
    BY <1>2, <2>1, <2>2, BeginKeepsInv
<1>3. ASSUME FreshIDs # {}, NEW key \in RequestKeys,
             Begin(s, CallOf("InsertWorkflow", CHOOSE w \in FreshIDs : TRUE, key, None))
      PROVE  TransactionInv'
  <2> PICK w \in FreshIDs : w = CHOOSE id \in FreshIDs : TRUE
    BY <1>3
  <2> PICK c : c = CallOf("InsertWorkflow", w, key, None)
    OBVIOUS
  <2>1. c.name = "InsertWorkflow" /\ c.w = w /\ c.id = key
    BY DEF CallOf
  <2>2. /\ w \in WorkflowIDs /\ workflows[w].status = "none"
        /\ \A r \in Sessions : session[r].call.w # w
    BY DEF FreshIDs
  <2>3. IsCall(c)
    BY <2>1, <2>2, <1>3 DEF IsCall, InsertCalls, TaskCalls, ActivityCalls, ClaimCalls
  <2> QED
    BY <1>3, <2>1, <2>2, <2>3, BeginKeepsInv
<1> QED
  BY <1>1, <1>2, <1>3 DEF BeginAny

\* What is written fits the table it is written to.
LEMMA WrittenRowsFit ==
  ASSUME NEW x, WritesFit(x), NEW id
  PROVE  /\ <<"workflow", id>> \in DOMAIN x.writes =>
              /\ x.writes[<<"workflow", id>>] \in WorkflowRow
              /\ x.writes[<<"workflow", id>>].status # "none"
         /\ <<"task", id>> \in DOMAIN x.writes => x.writes[<<"task", id>>] \in TaskRow
         /\ <<"activity", id>> \in DOMAIN x.writes => x.writes[<<"activity", id>>] \in ActivityRow
         /\ <<"signal", id>> \in DOMAIN x.writes => x.writes[<<"signal", id>>] \in SignalRow
<1>1. ASSUME NEW table, NEW row, row = <<table, id>>, row \in DOMAIN x.writes
      PROVE  /\ table = "workflow" =>
                  x.writes[row] \in WorkflowRow /\ x.writes[row].status # "none"
             /\ table = "task" => x.writes[row] \in TaskRow
             /\ table = "activity" => x.writes[row] \in ActivityRow
             /\ table = "signal" => x.writes[row] \in SignalRow
  <2>1. row[1] = table
    BY <1>1
  <2>2. Fits(row, x.writes[row])
    BY <1>1 DEF WritesFit
  <2> QED
    BY <2>1, <2>2 DEF Fits
<1> QED
  BY <1>1

\* The rows of a committed transaction replace those of the tables.
LEMMA CommitKeepsInv ==
  ASSUME TransactionInv, NEW s \in Sessions, Commit(s)
  PROVE  TransactionInv'
<1> PICK x : x = session[s]
  OBVIOUS
<1> PICK done : done = [IdleSession EXCEPT !.pc = "done"]
  OBVIOUS
<1>1. Running(s)
  BY DEF Commit, BetweenStatements, Running
<1>2. WritesFit(x) /\ x.newTask \in WorkflowIDs \cup {None}
  BY <1>1, RunningSession
<1>3. IsSession(done) /\ done.pc = "done" /\ done.call.w = None /\ done.locks = {}
  BY DoneIsASession
<1>4. /\ session' = [q \in Sessions |-> session'[q]]
      /\ session'[s] = done
      /\ \A r \in Sessions \ {s} : session'[r] = session[r]
  BY DEF TransactionInv, Commit
<1>5. workflows' = [w \in WorkflowIDs |->
        IF <<"workflow", w>> \in DOMAIN x.writes THEN x.writes[<<"workflow", w>>] ELSE workflows[w]]
  BY DEF Commit
<1>6. StorageTypeOK'
  <2> DEFINE updated == [t \in TaskIDs |->
               IF <<"task", t>> \in DOMAIN x.writes THEN x.writes[<<"task", t>>] ELSE tasks[t]]
  <2>0. StorageTypeOK
    BY DEF TransactionInv
  <2>1. workflows' \in [WorkflowIDs -> WorkflowRow]
    BY <1>2, <1>5, <2>0, WrittenRowsFit DEF StorageTypeOK
  <2>2. activities' = [k \in ActivityKeys |->
          IF <<"activity", k>> \in DOMAIN x.writes
          THEN x.writes[<<"activity", k>>] ELSE activities[k]]
    BY DEF Commit
  <2>3. activities' \in [ActivityKeys -> ActivityRow]
    BY <1>2, <2>0, <2>2, WrittenRowsFit DEF StorageTypeOK
  <2>4. signals' = [k \in SignalKeys |->
          IF <<"signal", k>> \in DOMAIN x.writes THEN x.writes[<<"signal", k>>] ELSE signals[k]]
    BY DEF Commit
  <2>5. signals' \in [SignalKeys -> SignalRow]
    BY <1>2, <2>0, <2>4, WrittenRowsFit DEF StorageTypeOK
  <2>6. updated \in [TaskIDs -> TaskRow]
    BY <1>2, <2>0, WrittenRowsFit DEF StorageTypeOK
  <2>7. \/ tasks' = updated
        \/ /\ x.newTask # None
           /\ \E t \in TaskIDs : tasks' = [updated EXCEPT ![t] =
                [status |-> "pending", wf |-> x.newTask]]
    BY DEF Commit, FreeTasks
  <2> HIDE DEF updated
  <2>8. [status |-> "pending", wf |-> x.newTask] \in TaskRow
    BY <1>2 DEF TaskRow
  <2>9. tasks' \in [TaskIDs -> TaskRow]
    BY <2>6, <2>7, <2>8
  <2> QED
    BY <2>1, <2>3, <2>5, <2>9 DEF StorageTypeOK
<1>7. (\A r \in Sessions : IsSession(session[r]))'
  BY <1>3, <1>4 DEF TransactionInv
<1>8. \A w \in WorkflowIDs : workflows[w].status # "none" => workflows'[w].status # "none"
  BY <1>2, <1>5, WrittenRowsFit
<1>9. InsertedIsOwn'
  <2> SUFFICES ASSUME NEW r \in Sessions, Running(r)'
               PROVE  /\ \A w \in WorkflowIDs :
                           <<"workflow", w>> \in DOMAIN session'[r].writes =>
                             w = session'[r].call.w \/ workflows'[w].status # "none"
                      /\ session'[r].call.name = "InsertWorkflow" =>
                           /\ workflows'[session'[r].call.w].status = "none"
                           /\ \A q \in Sessions \ {r} :
                                session'[q].call.w # session'[r].call.w
    BY DEF InsertedIsOwn
  <2>1. r # s /\ session'[r] = session[r] /\ Running(r)
    BY <1>3, <1>4 DEF Running
  <2>2. \A w \in WorkflowIDs : <<"workflow", w>> \in DOMAIN session'[r].writes =>
          w = session'[r].call.w \/ workflows'[w].status # "none"
    BY <1>8, <2>1 DEF TransactionInv, InsertedIsOwn
  <2>3. ASSUME session[r].call.name = "InsertWorkflow"
        PROVE  /\ workflows'[session[r].call.w].status = "none"
               /\ \A q \in Sessions \ {r} : session'[q].call.w # session[r].call.w
    <3> PICK w : w = session[r].call.w
      OBVIOUS
    <3>1. IsCall(session[r].call)
      BY <2>1, RunningSession
    <3>2. w # None /\ w \in WorkflowIDs
      BY <2>3, <3>1, CallNames
    <3>3. workflows[w].status = "none" /\ \A q \in Sessions \ {r} : session[q].call.w # w
      BY <2>1, <2>3 DEF TransactionInv, InsertedIsOwn
    <3>4. <<"workflow", w>> \notin DOMAIN x.writes
      BY <1>1, <2>1, <3>2, <3>3 DEF TransactionInv, InsertedIsOwn
    <3>5. workflows'[w].status = "none"
      BY <1>5, <3>2, <3>3, <3>4
    <3>6. \A q \in Sessions \ {r} : session'[q].call.w # w
      BY <1>3, <1>4, <3>2, <3>3
    <3> QED
      BY <3>5, <3>6
  <2> QED
    BY <2>1, <2>2, <2>3
<1>10. LocksAgree'
  <2> SUFFICES ASSUME NEW q \in Sessions, NEW r \in Sessions, q # r,
                      NEW held \in session'[q].locks, NEW other \in session'[r].locks,
                      held.row = other.row
               PROVE  ~Conflicts(held.mode, other.mode)
    BY DEF LocksAgree
  <2>1. q # s /\ r # s
    BY <1>3, <1>4
  <2> QED
    BY <1>4, <2>1 DEF TransactionInv, LocksAgree
<1> QED
  BY <1>4, <1>6, <1>7, <1>9, <1>10 DEF TransactionInv

-----------------------------------------------------------------------------
(* The invariant *)

LEMMA TransactionInitImpliesInv ==
  TransactionInit => TransactionInv
<1> SUFFICES ASSUME TransactionInit PROVE TransactionInv
  OBVIOUS
<1> PICK x : x = IdleSession
  OBVIOUS
<1> PICK y : y = [IdleSession EXCEPT !.pc = "idle"]
  OBVIOUS
<1> PICK call, none : call = CallOf("none", None, None, None) /\ none = <<>>
  OBVIOUS
<1>0. x = [pc |-> "idle", call |-> call, script |-> none, todo |-> none,
           writes |-> none, newTask |-> None, locks |-> {}]
  BY DEF IdleSession
<1>1. x.pc = "idle" /\ x.locks = {}
  BY <1>0
<1>2. IsSession(x)
  <2>1. y = [pc |-> "idle", call |-> call, script |-> none, todo |-> none,
             writes |-> none, newTask |-> None, locks |-> {}]
    BY DEF IdleSession
  <2>2. x = [IdleSession EXCEPT !.pc = x.pc]
    BY <1>0, <1>1, <2>1
  <2>3. x = [pc |-> x.pc, call |-> x.call, script |-> x.script, todo |-> x.todo,
             writes |-> x.writes, newTask |-> x.newTask, locks |-> x.locks]
    BY <1>0
  <2> QED
    BY <1>1, <2>2, <2>3 DEF IsSession
<1>3. \A s \in Sessions : session[s] = x
  BY DEF TransactionInit
<1>4. InsertedIsOwn
  BY <1>1, <1>3 DEF InsertedIsOwn, Running
<1>5. LocksAgree
  BY <1>1, <1>3 DEF LocksAgree
<1> QED
  BY <1>2, <1>3, <1>4, <1>5 DEF TransactionInit, TransactionInv

LEMMA TransactionNextKeepsInv ==
  TransactionInv /\ [TransactionNext]_transactionVars => TransactionInv'
<1> SUFFICES ASSUME TransactionInv, [TransactionNext]_transactionVars
             PROVE  TransactionInv'
  OBVIOUS
<1>1. ASSUME NEW s \in Sessions, BeginAny(s)
      PROVE  TransactionInv'
  BY <1>1, BeginAnyKeepsInv
<1>2. ASSUME NEW s \in Sessions, Statement(s)
      PROVE  TransactionInv'
  BY <1>2, StartStatementKeepsInv, StartInsertWorkflowTaskKeepsInv, TakeKeepsInv DEF Statement
<1>3. ASSUME NEW s \in Sessions, Commit(s)
      PROVE  TransactionInv'
  BY <1>3, CommitKeepsInv
<1>4. ASSUME NEW s \in Sessions, BreakDeadlock(s)
      PROVE  TransactionInv'
  BY <1>4, RollsBackKeepsInv DEF BreakDeadlock
<1>5. ASSUME NEW s \in Sessions, Abort(s)
      PROVE  TransactionInv'
  BY <1>5, RollsBackKeepsInv DEF Abort
<1>6. CASE UNCHANGED transactionVars
  BY <1>6 DEF transactionVars, TransactionInv, StorageTypeOK, InsertedIsOwn, LocksAgree, Running
<1> QED
  BY <1>1, <1>2, <1>3, <1>4, <1>5, <1>6 DEF TransactionNext

\* Over any tables and for any number of sessions: a session has the locks, writes
\* and rows to take that its call may have at this point, a workflow being inserted
\* is no other call's, and no two sessions hold conflicting locks of a row.
THEOREM TransactionsInvariant == TransactionSpec => []TransactionInv
BY TransactionInitImpliesInv, TransactionNextKeepsInv, PTL DEF TransactionSpec

\* The tables keep their types, and a session that does not run keeps no
\* statement, no row, no write and no lock.
THEOREM SessionsAreWellFormed == TransactionSpec => []TransactionTypeOK
<1>1. TransactionInv => TransactionTypeOK
  <2> SUFFICES ASSUME TransactionInv, NEW s \in Sessions
               PROVE  /\ session[s].pc \in {"idle", "running", "done"}
                      /\ session[s].newTask \in WorkflowIDs \cup {None}
                      /\ session[s].pc # "running" =>
                           session[s] = [IdleSession EXCEPT !.pc = session[s].pc]
    BY DEF TransactionInv, TransactionTypeOK
  <2>1. IsSession(session[s])
    BY DEF TransactionInv
  <2>2. CASE session[s].pc = "running"
    BY <2>1, <2>2 DEF IsSession
  <2>3. CASE session[s].pc # "running"
    <3> PICK pc, y : pc = session[s].pc /\ y = [IdleSession EXCEPT !.pc = pc]
      OBVIOUS
    <3> PICK call, none : call = CallOf("none", None, None, None) /\ none = <<>>
      OBVIOUS
    <3>1. y = [pc |-> pc, call |-> call, script |-> none, todo |-> none,
               writes |-> none, newTask |-> None, locks |-> {}]
      BY DEF IdleSession
    <3>2. session[s] = y
      BY <2>1, <2>3 DEF IsSession
    <3> QED
      BY <2>1, <3>1, <3>2 DEF IsSession
  <2> QED
    BY <2>2, <2>3
<1> QED
  BY <1>1, TransactionsInvariant, PTL

-----------------------------------------------------------------------------
(* A deadlock takes a batch *)

\* A session that is waited for, and waits.
LEMMA WaitingHolder ==
  ASSUME TransactionInv, NEW q \in Sessions, NEW r \in Sessions, r \in Blockers(q)
  PROVE  /\ q # r /\ Running(r)
         /\ \E lock \in session[r].locks :
              lock.row = Need(q).row /\ Conflicts(lock.mode, Need(q).mode)
<1>1. /\ q # r
      /\ \E lock \in session[r].locks :
           lock.row = Need(q).row /\ Conflicts(lock.mode, Need(q).mode)
  BY DEF Blockers
<1>2. Running(r)
  <2> SUFFICES ASSUME session[r].pc # "running" PROVE FALSE
    BY DEF Running
  <2> PICK x : x = session[r]
    OBVIOUS
  <2>1. x = [IdleSession EXCEPT !.pc = x.pc]
    BY DEF TransactionInv, IsSession
  <2>2. x.locks = {}
    BY <2>1 DEF IdleSession
  <2> QED
    BY <1>1, <2>2
<1> QED
  BY <1>1, <1>2

LEMMA WaitingIsRunning ==
  ASSUME TransactionInv, NEW q \in Sessions, Blockers(q) # {}
  PROVE  Running(q) /\ session[q].todo # <<>>
<1> PICK x : x = session[q]
  OBVIOUS
<1>1. x.todo # <<>>
  BY DEF Blockers
<1>2. x.pc = "running"
  <2> SUFFICES ASSUME x.pc # "running" PROVE FALSE
    OBVIOUS
  <2>1. x = [IdleSession EXCEPT !.pc = x.pc]
    BY DEF TransactionInv, IsSession
  <2>2. x.todo = <<>>
    BY <2>1 DEF IdleSession
  <2> QED
    BY <1>1, <2>2
<1> QED
  BY <1>1, <1>2 DEF Running

\* A call on one row that holds a lock while it waits, waits for the row of its
\* workflow, of which it holds no more than the key share.
LEMMA OneRowHolder ==
  ASSUME TransactionInv, NEW r \in Sessions, Running(r), session[r].todo # <<>>,
         session[r].call.w # None, NEW lock \in session[r].locks
  PROVE  /\ Need(r).row[1] = "workflow" /\ Need(r).mode \in {"key_share", "no_key_update"}
         /\ lock.row[1] = "workflow" => lock.mode = "key_share"
<1> PICK x, c, want : x = session[r] /\ c = x.call /\ want = Head(x.todo)
  OBVIOUS
<1>1. IsCall(c) /\ TakesInOrder(x)
  BY RunningSession
<1>2. want = Reference(c.w) \/ want = Second(c)
  BY <1>1, OnlyRow
<1>3. want.row[1] = "workflow" /\ want.mode \in {"key_share", "no_key_update"}
  BY <1>2, RequestFields DEF Reference, Second
<1>4. Need(r) = want
  BY <1>3, NeedsAsIs
<1>5. lock.row[1] = "workflow" => lock = Reference(c.w)
  BY <1>1, OnlyRow
<1> QED
  BY <1>3, <1>4, <1>5, RequestFields DEF Reference

\* A batch holds and takes rows of its own kind only.
LEMMA BatchHolder ==
  ASSUME TransactionInv, NEW r \in Sessions, Running(r), session[r].call.w = None,
         session[r].call.name # "DeleteWorkflows"
  PROVE  /\ session[r].call.name \in {"ClaimTasks", "ClaimActivities"}
         /\ LET table == IF session[r].call.name = "ClaimTasks" THEN "task" ELSE "activity"
            IN /\ \A lock \in session[r].locks : lock.row[1] = table
               /\ session[r].todo # <<>> => Need(r).row[1] = table
<1> PICK x, name, want : x = session[r] /\ name = x.call.name /\ want = Head(x.todo)
  OBVIOUS
<1> PICK table : table = IF name = "ClaimTasks" THEN "task" ELSE "activity"
  OBVIOUS
<1>1. IsCall(x.call) /\ TakesBatch(x)
  BY RunningSession
<1>2. name \in {"ClaimTasks", "ClaimActivities"}
  BY <1>1, CallNames
<1>3. \A row \in BatchRows(name) : row.row[1] = table /\ row.mode = "no_key_update"
  BY <1>2, BatchRow, RequestFields
<1>4. \A lock \in x.locks : lock.row[1] = table
  BY <1>1, <1>3 DEF TakesBatch
<1>5. ASSUME x.todo # <<>> PROVE Need(r).row[1] = table
  <2>1. want \in BatchRows(name)
    BY <1>1, <1>5, HeadAndTail DEF TakesBatch
  <2>2. Need(r) = want
    BY <1>3, <2>1, NeedsAsIs
  <2> QED
    BY <1>3, <2>1, <2>2
<1> QED
  BY <1>2, <1>4, <1>5

\* Only a cleaner makes a call on one row wait that holds a lock, when it
\* waits itself.
LEMMA OneRowWaitsForACleaner ==
  ASSUME TransactionInv, NEW r \in Sessions, Running(r), session[r].call.w # None,
         session[r].locks # {}, NEW p \in Sessions, p \in Blockers(r), Blockers(p) # {}
  PROVE  session[p].call.name = "DeleteWorkflows"
<1>1. /\ Running(p) /\ session[p].todo # <<>> /\ session[r].todo # <<>>
  BY WaitingIsRunning
<1>2. PICK lock \in session[p].locks :
        lock.row = Need(r).row /\ Conflicts(lock.mode, Need(r).mode)
  BY WaitingHolder
<1>3. Need(r).row[1] = "workflow" /\ Need(r).mode \in {"key_share", "no_key_update"}
  BY <1>1, OneRowHolder
<1>4. session[p].call.w = None
  <2> SUFFICES ASSUME session[p].call.w # None PROVE FALSE
    OBVIOUS
  <2>1. lock.mode = "key_share"
    BY <1>1, <1>2, <1>3, OneRowHolder
  <2> QED
    BY <1>2, <1>3, <2>1 DEF Conflicts
<1> QED
  BY <1>1, <1>2, <1>3, <1>4, BatchHolder

\* The workers and the clients never deadlock with one another: a deadlock takes
\* a cleaner or two claims of the same kind (workflows.go, activities.go).
THEOREM DeadlocksNeedABatch == TransactionSpec => []DeadlockNeedsABatch
<1>1. TransactionInv => DeadlockNeedsABatch
  <2> SUFFICES ASSUME TransactionInv, NEW C \in SUBSET Sessions, Deadlocked(C),
                      \A s \in C : session[s].call.name # "DeleteWorkflows"
               PROVE  \E s, r \in C :
                        /\ s # r
                        /\ session[s].call.name = session[r].call.name
                        /\ session[s].call.name \in {"ClaimTasks", "ClaimActivities"}
    BY DEF DeadlockNeedsABatch
  <2>1. C # {} /\ \A q \in C : Blockers(q) \cap C # {}
    BY DEF Deadlocked, IsCircle
  <2>2. PICK s \in C : TRUE
    BY <2>1
  <2>3. PICK r \in C : r \in Blockers(s)
    BY <2>1
  <2>4. PICK p \in C : p \in Blockers(r)
    BY <2>1
  <2>5. PICK q \in C : q \in Blockers(p)
    BY <2>1
  <2>6. Running(r) /\ session[r].locks # {} /\ session[r].todo # <<>>
    BY <2>3, <2>4, WaitingHolder, WaitingIsRunning
  <2>7. Running(p) /\ session[p].locks # {} /\ r # p
    BY <2>4, WaitingHolder
  <2>8. session[r].call.w = None
    BY <2>1, <2>4, <2>6, OneRowWaitsForACleaner
  <2>9. session[p].call.w = None
    BY <2>1, <2>5, <2>7, OneRowWaitsForACleaner
  <2>10. PICK lock \in session[p].locks : lock.row = Need(r).row
    BY <2>4, WaitingHolder
  <2>11. session[r].call.name = session[p].call.name
         /\ session[r].call.name \in {"ClaimTasks", "ClaimActivities"}
    BY <2>6, <2>7, <2>8, <2>9, <2>10, BatchHolder
  <2> QED
    BY <2>7, <2>11
<1> QED
  BY <1>1, TransactionsInvariant, PTL
=============================================================================
