---------------------------- MODULE DispatchQueue ----------------------------
(***************************************************************************)
(* The in-memory job queue of internal/gitops/worker.go: Enqueue appends   *)
(* to an unbounded backlog and pokes a one-slot notify channel; a single   *)
(* dispatcher moves jobs from the backlog to the bounded channel the       *)
(* workers receive from.  Appending (under pendingMu) and notifying are    *)
(* two steps, and so are the dispatcher's look at the backlog and its wait *)
(* for a notification: the enqueuer can come in between.                   *)
(***************************************************************************)
EXTENDS Naturals, Sequences, FiniteSets

CONSTANTS Jobs,        \* job identities (rows of clone_jobs)
          Callers,     \* goroutines that call Enqueue
          Workers,     \* the worker pool
          QueueCap,    \* capacity of jobQueue (128 in NewCloneWorker)
          NoJob        \* a worker that waits for a job

ASSUME QueueCapAssumption == QueueCap \in Nat \ {0}
ASSUME NoJobAssumption == NoJob \notin Jobs

VARIABLES pending,     \* w.pending: the backlog
          notify,      \* the notify channel holds its one token
          notifying,   \* callers of Enqueue past the append, before the notify
          dispatcher,  \* where dispatch() is
          hand,        \* <<job>> between the pop and the send, else <<>>
          jobQueue,    \* w.jobQueue
          working,     \* working[w]: the job worker w is processing
          exited,      \* workers that returned
          softStop     \* w.softStop is closed

vars == <<pending, notify, notifying, dispatcher, hand, jobQueue,
          working, exited, softStop>>

Elements(s) == {s[i] : i \in 1..Len(s)}

\* The jobs in the order in which workers will receive them.
Queued == jobQueue \o hand \o pending

TypeOK ==
    /\ pending \in Seq(Jobs) /\ jobQueue \in Seq(Jobs) /\ hand \in Seq(Jobs)
    /\ Len(jobQueue) <= QueueCap
    /\ notify \in BOOLEAN /\ softStop \in BOOLEAN
    /\ notifying \subseteq Callers
    /\ dispatcher \in {"check", "wait", "send", "exited"}
    /\ working \in [Workers -> Jobs \cup {NoJob}]
    /\ exited \subseteq Workers

Init ==
    /\ pending = <<>> /\ hand = <<>> /\ jobQueue = <<>>
    /\ notify = FALSE /\ notifying = {} /\ softStop = FALSE
    /\ dispatcher = "check"
    /\ working = [w \in Workers |-> NoJob]
    /\ exited = {}

-----------------------------------------------------------------------------
\* Enqueue, first half: append under pendingMu.  A job is enqueued again only
\* after a worker gave it back (a deferral), never while it is queued.
Enqueue(c, j) ==
    /\ c \notin notifying
    /\ j \notin Elements(Queued)
    /\ \A w \in Workers : working[w] # j
    /\ pending' = Append(pending, j)
    /\ notifying' = notifying \cup {c}
    /\ UNCHANGED <<notify, dispatcher, hand, jobQueue, working, exited, softStop>>

\* Mutant: only the first job of a backlog wakes, by a length that is read
\* after pendingMu was let go.
WakeOnlyFirst(c) ==
    /\ c \in notifying
    /\ notifying' = notifying \ {c}
    /\ notify' = (notify \/ Len(pending) = 1)
    /\ UNCHANGED <<pending, dispatcher, hand, jobQueue, working, exited, softStop>>

\* Enqueue, second half: a non-blocking send on the one-slot channel.
Wake(c) ==
    /\ c \in notifying
    /\ notifying' = notifying \ {c}
    /\ notify' = TRUE
    /\ UNCHANGED <<pending, dispatcher, hand, jobQueue, working, exited, softStop>>

-----------------------------------------------------------------------------
\* dispatch: the backlog is empty, go and wait.
dispatchEmpty ==
    /\ dispatcher = "check" /\ pending = <<>>
    /\ dispatcher' = "wait"
    /\ UNCHANGED <<pending, notify, notifying, hand, jobQueue, working, exited, softStop>>

\* Mutant: the newest job is taken.
dispatchPopLast ==
    /\ dispatcher = "check" /\ pending # <<>>
    /\ hand' = <<pending[Len(pending)]>>
    /\ pending' = SubSeq(pending, 1, Len(pending) - 1)
    /\ dispatcher' = "send"
    /\ UNCHANGED <<notify, notifying, jobQueue, working, exited, softStop>>

\* dispatch: take the oldest job off the backlog.
dispatchPop ==
    /\ dispatcher = "check" /\ pending # <<>>
    /\ hand' = <<Head(pending)>>
    /\ pending' = Tail(pending)
    /\ dispatcher' = "send"
    /\ UNCHANGED <<notify, notifying, jobQueue, working, exited, softStop>>

\* dispatch: `case <-w.notify: continue'.
dispatchWoken ==
    /\ dispatcher = "wait" /\ notify
    /\ notify' = FALSE
    /\ dispatcher' = "check"
    /\ UNCHANGED <<pending, notifying, hand, jobQueue, working, exited, softStop>>

\* dispatch: `case w.jobQueue <- job', once the channel has room.
dispatchSend ==
    /\ dispatcher = "send" /\ Len(jobQueue) < QueueCap
    /\ jobQueue' = jobQueue \o hand
    /\ hand' = <<>>
    /\ dispatcher' = "check"
    /\ UNCHANGED <<pending, notify, notifying, working, exited, softStop>>

\* Mutant: a dispatcher blocked on a full channel does not watch softStop.
dispatchExitsWhenWaiting ==
    /\ dispatcher = "wait" /\ softStop
    /\ dispatcher' = "exited"
    /\ UNCHANGED <<pending, notify, notifying, hand, jobQueue, working, exited, softStop>>

\* dispatch: `case <-w.softStop: return', while waiting or while blocked on a
\* full channel.  The job in its hand is abandoned; its row stays pending.
dispatchExits ==
    /\ dispatcher \in {"wait", "send"} /\ softStop
    /\ dispatcher' = "exited"
    /\ UNCHANGED <<pending, notify, notifying, hand, jobQueue, working, exited, softStop>>

dispatch == dispatchEmpty \/ dispatchPop \/ dispatchWoken \/ dispatchSend \/ dispatchExits

-----------------------------------------------------------------------------
\* worker: `case job := <-w.jobQueue'.  After softStop either case of the
\* select may be chosen.
worker(w) ==
    /\ w \notin exited /\ working[w] = NoJob
    /\ jobQueue # <<>>
    /\ working' = [working EXCEPT ![w] = Head(jobQueue)]
    /\ jobQueue' = Tail(jobQueue)
    /\ UNCHANGED <<pending, notify, notifying, dispatcher, hand, exited, softStop>>

\* processJob returns.
processJob(w) ==
    /\ working[w] # NoJob
    /\ working' = [working EXCEPT ![w] = NoJob]
    /\ UNCHANGED <<pending, notify, notifying, dispatcher, hand, jobQueue, exited, softStop>>

\* worker: `case <-w.softStop: return'.
workerExits(w) ==
    /\ w \notin exited /\ working[w] = NoJob /\ softStop
    /\ exited' = exited \cup {w}
    /\ UNCHANGED <<pending, notify, notifying, dispatcher, hand, jobQueue, working, softStop>>

\* Stop, phase 1: close(softStop).
Stop ==
    /\ ~softStop
    /\ softStop' = TRUE
    /\ UNCHANGED <<pending, notify, notifying, dispatcher, hand, jobQueue, working, exited>>

Next ==
    \/ \E c \in Callers : Wake(c) \/ \E j \in Jobs : Enqueue(c, j)
    \/ dispatch
    \/ \E w \in Workers : worker(w) \/ processJob(w) \/ workerExits(w)
    \/ Stop

Spec == Init /\ [][Next]_vars

\* Every goroutine that can run does; an Enqueue that began is finished, a job
\* ends (its git operations run under a timeout).  Enqueuing and stopping are
\* the environment's choice.  A select picks at random among its ready cases,
\* so a case that is ready again and again (softStop) is picked eventually.
FairSpec ==
    /\ Spec
    /\ \A c \in Callers : WF_vars(Wake(c))
    /\ WF_vars(dispatch) /\ SF_vars(dispatchExits)
    /\ \A w \in Workers : WF_vars(worker(w) \/ workerExits(w)) /\ WF_vars(processJob(w))

-----------------------------------------------------------------------------
(* Between the dispatcher's look at the backlog and its wait an enqueuer   *)
(* can slip in: whenever the dispatcher sleeps over a non-empty backlog,   *)
(* the token is in the channel or the enqueuer is about to put it there.   *)
NoLostWakeup ==
    dispatcher = "wait" /\ pending # <<>> => notify \/ notifying # {}

(* Backlog, dispatcher's hand and channel together are one FIFO queue:     *)
(* "it never blocks and never drops a job" (Enqueue's comment), and no     *)
(* hand-over repeats a job or lets one overtake another.                   *)
Fifo == INSTANCE FifoQueue WITH queue <- Queued
ImplementsFifoQueue == Fifo!Spec

(* An enqueued job reaches a worker, however full the channel gets, unless *)
(* the pool is stopped first.                                              *)
EnqueuedIsTaken ==
    \A j \in Jobs : j \in Elements(Queued) ~> (softStop \/ j \notin Elements(Queued))

(* After softStop the dispatcher returns, even from a send on a full       *)
(* channel nobody drains any more; Stop's wg.Wait would hang otherwise.    *)
DispatcherStops == softStop ~> dispatcher = "exited"

-----------------------------------------------------------------------------
(* The inductive invariant: the hand holds one job while the dispatcher    *)
(* sends it (or gave the send up), none while it looks or waits.           *)
HandMatches ==
    /\ dispatcher \in {"check", "wait"} => hand = <<>>
    /\ dispatcher = "send" => \E j \in Jobs : hand = <<j>>

IInv == TypeOK /\ HandMatches /\ NoLostWakeup
=============================================================================
