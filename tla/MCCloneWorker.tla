--------------------------- MODULE MCCloneWorker ---------------------------
(***************************************************************************)
(* Two jobs of one repository, two workers, a tick and an API client, a     *)
(* stop and a crash: a job can be joined by a duplicate, deferred, retried, *)
(* interrupted, stranded and recovered.                                    *)
(***************************************************************************)
EXTENDS CloneWorker

\* What CloneWorker promises for the end: a pending job ends; Stop returns, and
\* no job is admitted behind its back.
Settles == NoAdmissionAfterStop /\ PendingEnds /\ StopEnds
=============================================================================
