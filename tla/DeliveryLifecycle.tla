------------------------- MODULE DeliveryLifecycle -------------------------
(***************************************************************************)
(* The life of a webhook delivery, as its row and the metric tell it: "a   *)
(* single evolving record that ends in a terminal status" and one count.   *)
(* It waits, is open while there is a row and attempts are made, and is    *)
(* over for good.  The row and the count become final together.            *)
(***************************************************************************)
EXTENDS Naturals

CONSTANT Jobs

VARIABLES stage,     \* stage[j]: "waiting", "open" or "over"
          row,       \* row[j]: the status of its row, "none" without one
          outcome,   \* outcome[j]: how often it was counted
          lost       \* deliveries whose row missed an update the database refused

vars == <<stage, row, outcome, lost>>

Init ==
    /\ stage = [j \in Jobs |-> "waiting"]
    /\ row = [j \in Jobs |-> "none"]
    /\ outcome = [j \in Jobs |-> 0]
    /\ lost = {}

Comes(j, from, to) == stage[j] = from /\ stage' = [stage EXCEPT ![j] = to]
Counts(S) == outcome' = [j \in Jobs |-> IF j \in S THEN outcome[j] + 1 ELSE outcome[j]]

\* The row is made.
Open(j) ==
    /\ row[j] = "none" /\ row' = [row EXCEPT ![j] = "pending"]
    /\ Comes(j, "waiting", "open")
    /\ UNCHANGED <<outcome, lost>>

\* The last attempt: the row says how it went, unless it has been purged or the
\* database refuses the update.
Close(j, s) ==
    /\ Counts({j})
    /\ Comes(j, "open", "over")
    /\ \/ row[j] = "pending" /\ row' = [row EXCEPT ![j] = s] /\ UNCHANGED lost
       \/ row[j] = "none" /\ UNCHANGED <<row, lost>>
       \/ UNCHANGED row /\ lost' = lost \cup {j}

\* An attempt is not recorded.
Miss(j) ==
    /\ j \notin lost /\ lost' = lost \cup {j}
    /\ stage[j] = "open"
    /\ UNCHANGED <<stage, row, outcome>>

\* The queue has no room for an event: its row is final from the start.
Drop(j) ==
    /\ Counts({j})
    /\ Comes(j, "waiting", "over")
    /\ row[j] = "none" /\ row' \in {row, [row EXCEPT ![j] = "failed"]}
    /\ UNCHANGED lost

\* It comes to nothing: its caller is told, its row cannot be made, or the server
\* is stopping.
Refuse(j) == UNCHANGED <<row, outcome, lost>> /\ Comes(j, "waiting", "over")

\* Stop counts what was still queued.
Abandon(S) ==
    /\ Counts(S)
    /\ \A j \in S : stage[j] = "waiting"
    /\ stage' = [j \in Jobs |-> IF j \in S THEN "over" ELSE stage[j]]
    /\ UNCHANGED <<row, lost>>

\* The rows go with their webhook.
Purge(S) ==
    /\ row' = [j \in Jobs |-> IF j \in S THEN "none" ELSE row[j]]
    /\ UNCHANGED <<stage, outcome, lost>>

Next ==
    \/ \E j \in Jobs : \/ Open(j) \/ Miss(j) \/ Drop(j) \/ Refuse(j)
                       \/ \E s \in {"success", "failed"} : Close(j, s)
    \/ \E S \in (SUBSET Jobs) \ {{}} : Abandon(S) \/ Purge(S)

Spec == Init /\ [][Next]_vars
=============================================================================
