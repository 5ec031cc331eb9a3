----------------------------- MODULE FifoQueue -----------------------------
(***************************************************************************)
(* What CloneWorker.Enqueue promises: jobs reach the workers one by one,   *)
(* in the order they were enqueued, and none is dropped or repeated.       *)
(***************************************************************************)
EXTENDS Sequences

CONSTANT Jobs

VARIABLE queue

Init == queue = <<>>

\* Enqueue never blocks.
Put(j) == queue' = Append(queue, j)

\* A worker receives the oldest job.
Get(j) == queue # <<>> /\ j = Head(queue) /\ queue' = Tail(queue)

Next == \E j \in Jobs : Put(j) \/ Get(j)

Spec == Init /\ [][Next]_queue
=============================================================================
