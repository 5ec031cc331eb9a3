-------------------------- MODULE MCWebhookDelivery --------------------------
(***************************************************************************)
(* An event and a test of its webhook, two workers and a queue of one:     *)
(* either is delivered next to the other, waits, or finds the queue full.  *)
(***************************************************************************)
EXTENDS WebhookDelivery

CONSTANTS e1, t1, h1

MCJobs == {e1, t1}
MCTests == {t1}
MCHooks == {h1}
MCHookOf == [j \in MCJobs |-> h1]

\* A delivery lives the life of DeliveryLifecycle, gets a final row and keeps it, and
\* Stop returns.
Settles == ImplementsLifecycle /\ RowsAreFinal /\ DeliveryEnds /\ StopEnds
=============================================================================
