---------------------------- MODULE TaskDelivery -----------------------------
(***************************************************************************)
(* What the dispatch of a task promises, and all that it promises: at most  *)
(* one worker gets the task, and that only once; a dispatch that reports    *)
(* success has delivered it.  A dispatch that reports a failure may have    *)
(* delivered it too.                                                       *)
(*                                                                         *)
(* Dispatcher is shown to implement this specification.                     *)
(***************************************************************************)

CONSTANTS
  Task,      \* the tasks, one per call of DispatchTask
  Worker,    \* worker processes
  Nobody     \* stands for "no worker"

VARIABLES
  accepted,  \* accepted[t]: the worker that t was delivered to, or Nobody
  verdict    \* verdict[t]: what DispatchTask has returned

deliveryVars == <<accepted, verdict>>

DeliveryInit ==
  /\ accepted = [t \in Task |-> Nobody]
  /\ verdict  = [t \in Task |-> "none"]

Deliver(t, w) ==
  /\ verdict[t]  = "none"
  /\ accepted[t] = Nobody
  /\ accepted' = [accepted EXCEPT ![t] = w]
  /\ UNCHANGED verdict

ReportSuccess(t) ==
  /\ verdict[t]  = "none"
  /\ accepted[t] # Nobody
  /\ verdict' = [verdict EXCEPT ![t] = "ok"]
  /\ UNCHANGED accepted

ReportFailure(t) ==
  /\ verdict[t] = "none"
  /\ verdict' = [verdict EXCEPT ![t] = "failed"]
  /\ UNCHANGED accepted

DeliveryNext ==
  \E t \in Task : \/ \E w \in Worker : Deliver(t, w)
                  \/ ReportSuccess(t)
                  \/ ReportFailure(t)

DeliverySpec == DeliveryInit /\ [][DeliveryNext]_deliveryVars
=============================================================================
