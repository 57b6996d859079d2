--------------------------- MODULE EventDelivery ---------------------------
(***************************************************************************)
(* What the transactional outbox promises to the rest of the system: an    *)
(* event that its transaction committed is delivered to the listeners at   *)
(* least once, whatever happens to the processes that deliver it, and it   *)
(* is put aside only after a delivery that succeeded.                      *)
(***************************************************************************)
CONSTANT Events

VARIABLES
  committed,  \* events written by a committed transaction
  delivered,  \* events every listener has handled at least once
  closed      \* events nobody will deliver again, as far as the table says

deliveryVars == <<committed, delivered, closed>>

DeliveryInit ==
  /\ committed = {}
  /\ delivered = {}
  /\ closed = {}

Commit(e) ==
  /\ e \notin committed
  /\ committed' = committed \cup {e}
  /\ UNCHANGED <<delivered, closed>>

Deliver(e) ==
  /\ e \in committed \ delivered
  /\ delivered' = delivered \cup {e}
  /\ UNCHANGED <<committed, closed>>

Close(e) ==
  /\ e \in delivered
  /\ closed' = closed \cup {e}
  /\ UNCHANGED <<committed, delivered>>

\* A late failure of another delivery puts the event back in the queue.
Reopen(e) ==
  /\ e \in closed
  /\ closed' = closed \ {e}
  /\ UNCHANGED <<committed, delivered>>

DeliveryNext == \E e \in Events : Commit(e) \/ Deliver(e) \/ Close(e) \/ Reopen(e)

DeliverySafety == DeliveryInit /\ [][DeliveryNext]_deliveryVars

DeliverySpec == DeliverySafety /\ \A e \in Events : WF_deliveryVars(Deliver(e))
============================================================================
