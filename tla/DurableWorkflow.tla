----------------------------- MODULE DurableWorkflow -----------------------------
(*****************************************************************************)
(* What the engine promises about one workflow after another, without a word  *)
(* about tasks, claims, runs, attempts and queries: events are only added, and *)
(* whatever happens to a workflow follows from what its handler does over     *)
(* events that happened.                                                     *)
(*                                                                           *)
(* A replay may have read any part of the events, for the two kinds are read  *)
(* at two moments and more may happen before the replay ends.                *)
(*****************************************************************************)
CONSTANTS WorkflowIDs, Activities, Signals, Outputs, Inputs, None, Handler

VARIABLES
  status,           \* of each workflow; "none" before it starts
  requested,        \* the activities each workflow has asked for
  hist,             \* the outputs of those that completed
  sigs              \* the signals each workflow has received

vars == <<status, requested, hist, sigs>>

NoEvents(names) == [n \in names |-> None]

Init ==
  /\ status = [w \in WorkflowIDs |-> "none"]
  /\ requested = [w \in WorkflowIDs |-> {}]
  /\ hist = [w \in WorkflowIDs |-> NoEvents(Activities)]
  /\ sigs = [w \in WorkflowIDs |-> NoEvents(Signals)]

Alive(w) == status[w] \in {"running", "completed", "failed"}

\* What the handler may have done: its programs over each part of the events.
Programs(w) ==
  LET Part(events) ==
        {[n \in DOMAIN events |-> IF n \in read THEN events[n] ELSE None] :
           read \in SUBSET DOMAIN events}
  IN {Handler[[hist |-> h, sigs |-> s]] : h \in Part(hist[w]), s \in Part(sigs[w])}

Start(w) ==
  /\ status[w] = "none"
  /\ status' = [status EXCEPT ![w] = "running"]
  /\ UNCHANGED <<requested, hist, sigs>>

Request(w, a) ==
  /\ Alive(w) /\ a \notin requested[w]
  /\ requested' = [requested EXCEPT ![w] = @ \cup {a}]
  /\ \E program \in Programs(w) : \E n \in DOMAIN program.calls : program.calls[n] = a
  /\ UNCHANGED <<status, hist, sigs>>

\* An activity is answered once.
Answer(w, a, output) ==
  /\ Alive(w) /\ a \in requested[w] /\ hist[w][a] = None
  /\ hist' = [hist EXCEPT ![w][a] = output]
  /\ UNCHANGED <<status, requested, sigs>>

Receive(w, s, input) ==
  /\ Alive(w) /\ sigs[w][s] = None
  /\ sigs' = [sigs EXCEPT ![w][s] = input]
  /\ UNCHANGED <<status, requested, hist>>

\* Completed and failed are not final: a replay that was under way when the
\* workflow ended may end it again.
Complete(w) ==
  /\ status[w] \in {"running", "failed"}
  /\ status' = [status EXCEPT ![w] = "completed"]
  /\ \E program \in Programs(w) : program.outcome = "return"
  /\ UNCHANGED <<requested, hist, sigs>>

Fail(w) ==
  /\ status[w] \in {"running", "completed"}
  /\ status' = [status EXCEPT ![w] = "failed"]
  /\ UNCHANGED <<requested, hist, sigs>>

Delete(w) ==
  /\ status[w] \in {"completed", "failed"}
  /\ status' = [status EXCEPT ![w] = "deleted"]
  /\ requested' = [requested EXCEPT ![w] = {}]
  /\ hist' = [hist EXCEPT ![w] = NoEvents(Activities)]
  /\ sigs' = [sigs EXCEPT ![w] = NoEvents(Signals)]

Next == \E w \in WorkflowIDs :
  \/ Start(w) \/ Complete(w) \/ Fail(w) \/ Delete(w)
  \/ \E a \in Activities : Request(w, a) \/ \E output \in Outputs : Answer(w, a, output)
  \/ \E s \in Signals, input \in Inputs : Receive(w, s, input)

Spec == Init /\ [][Next]_vars
=============================================================================
