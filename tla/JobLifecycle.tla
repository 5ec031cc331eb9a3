---------------------------- MODULE JobLifecycle ----------------------------
(***************************************************************************)
(* The life of the rows of clone_jobs, as the status column tells it: a    *)
(* row is created pending, a worker runs it, and one of success, failed    *)
(* and cancelled ends it for good.  A shutdown puts a running row back to  *)
(* pending; a start fails the rows it takes for orphans.                   *)
(***************************************************************************)
CONSTANT Jobs

VARIABLE status

Unfinished == {"pending", "running"}

Init == status = [j \in Jobs |-> "none"]

Becomes(j, from, to) ==
    /\ status[j] \in from
    /\ status' = [status EXCEPT ![j] = to]

Create(j) == Becomes(j, {"none"}, "pending")
Run(j) == Becomes(j, {"pending"}, "running")
Requeue(j) == Becomes(j, {"running"}, "pending")
Succeed(j) == Becomes(j, {"running"}, "success")
Fail(j) == Becomes(j, Unfinished, "failed")
Cancel(j) == Becomes(j, Unfinished, "cancelled")

\* One UPDATE statement fails every orphan.
Reap(S) ==
    /\ \A j \in S : status[j] \in Unfinished
    /\ status' = [j \in Jobs |-> IF j \in S THEN "failed" ELSE status[j]]

Next ==
    \/ \E j \in Jobs : \/ Create(j) \/ Run(j) \/ Requeue(j)
                       \/ Succeed(j) \/ Fail(j) \/ Cancel(j)
    \/ \E S \in SUBSET Jobs : Reap(S)

Spec == Init /\ [][Next]_status
=============================================================================
