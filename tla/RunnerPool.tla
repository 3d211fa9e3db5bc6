------------------------------- MODULE RunnerPool -------------------------------
(*****************************************************************************)
(* What a worker promises the rest of the engine: a fixed number of runners,  *)
(* each of which runs one claimed job at a time, and that claim nothing once  *)
(* the worker has stopped.  The module Floww has its runners from here.       *)
(*****************************************************************************)
EXTENDS Naturals, FiniteSets

CONSTANTS
  Jobs,             \* what can be claimed
  Size              \* the number of runners

VARIABLES
  held,             \* the jobs claimed by the worker and not finished
  open              \* whether the worker still claims

Init == held = {} /\ open = TRUE

Claim(claimed) ==
  /\ open
  /\ claimed \cap held = {}
  /\ Cardinality(held \cup claimed) <= Size
  /\ held' = held \cup claimed
  /\ UNCHANGED open

Finish(j) == j \in held /\ held' = held \ {j} /\ UNCHANGED open

Close == open /\ open' = FALSE /\ UNCHANGED held

Next ==
  \/ \E claimed \in SUBSET Jobs : Claim(claimed)
  \/ \E j \in Jobs : Finish(j)
  \/ Close

Spec == Init /\ [][Next]_<<held, open>>
=============================================================================
