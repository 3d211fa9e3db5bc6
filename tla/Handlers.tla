-------------------------------- MODULE Handlers --------------------------------
(*****************************************************************************)
(* Workflow handlers to run the engine with.  The order workflow is the       *)
(* repository's example; the fan-out and the batch are those of its README.   *)
(*****************************************************************************)
EXTENDS WorkflowWorker

Suspends(calls) == [calls |-> calls, outcome |-> "suspend"]
Returns(calls) == [calls |-> calls, outcome |-> "return"]

\* Call sites: a name, and a discriminator if it has one.
ChargeCard == <<"ChargeCard", "">>
SendEmail == <<"SendEmail", "">>
Notify == <<"NotifySignal", "">>

OrderActivities == {ChargeCard, SendEmail}
OrderSignals == {Notify}

\* RunOrderWorkflow: charge the card, wait to be told whether to notify the
\* customer, and send the email if so.
OrderHandler ==
  [view \in Views |->
     CASE view.hist[ChargeCard] = None -> Suspends(<<ChargeCard>>)
       [] view.hist[ChargeCard] # None /\ view.sigs[Notify] = None ->
            Suspends(<<ChargeCard>>)
       [] view.hist[ChargeCard] # None /\ view.sigs[Notify] = "no" ->
            Returns(<<ChargeCard>>)
       [] view.hist[ChargeCard] # None /\ view.sigs[Notify] = "yes" ->
            IF view.hist[SendEmail] = None
            THEN Suspends(<<ChargeCard, SendEmail>>)
            ELSE Returns(<<ChargeCard, SendEmail>>)]

ActivityA == <<"A", "">>
ActivityB == <<"B", "">>
FanOutActivities == {ActivityA, ActivityB}

\* README, fanOutHandler: two activities scheduled by one replay.
FanOutHandler ==
  [view \in Views |->
     IF None \in {view.hist[ActivityA], view.hist[ActivityB]}
     THEN Suspends(<<ActivityA, ActivityB>>)
     ELSE Returns(<<ActivityA, ActivityB>>)]

\* README, batchHandler: calls one after the other, each when the one before it
\* is in the history.
BatchHandlerOf(calls) ==
  [view \in Views |->
     LET missing == {n \in 1..Len(calls) : view.hist[calls[n]] = None}
     IN IF missing = {}
        THEN Returns(calls)
        ELSE LET n == CHOOSE n \in missing : \A m \in missing : n <= m
             IN Suspends(SubSeq(calls, 1, n))]

\* Repeated steps told apart by a unique discriminator: step 11, and number 1
\* of the steps called step1.
Steps == <<<<"step", "11">>, <<"step1", "1">>>>
StepActivities == {Steps[n] : n \in 1..Len(Steps)}
StepsHandler == BatchHandlerOf(Steps)
=============================================================================
