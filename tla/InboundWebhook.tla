--------------------------- MODULE InboundWebhook ---------------------------
(*****************************************************************************)
(* From a push upstream to the mirror that has it: the provider notifies     *)
(* POST /webhooks/receive (handlers/webhook_handler.go), which looks for the *)
(* webhook the notification is meant for and asks for a clone job of its     *)
(* repository (services/clone_service.go); the job fetches what upstream has *)
(* at that moment.  A notification may be lost, delayed or repeated, a user  *)
(* may cancel the job, and the process may be started anew with what its     *)
(* predecessor left in the table; the scheduler syncs the repository anyway. *)
(* One repository, and a hook of another one; commits upstream are counted,  *)
(* and so are the repository's unfinished rows.  Queries do not fail.        *)
(*****************************************************************************)
EXTENDS Naturals

CONSTANTS MaxPushes,   \* bound on pushes
          MaxMishaps   \* bound on cancelled jobs and restarts together

VARIABLES hooks,       \* hooks[i]: what webhook i is for, in the order they were created
          upstream,    \* the last push
          mirror,      \* the last push the mirror has
          sent,        \* notifications that may still arrive, by their push
          request,     \* the request that is being answered
          waiting,     \* how many rows of the repository are pending
          run,         \* the job a worker has in hand, and what its row says
          leftover,    \* how many rows of an earlier process still say running
          carried,     \* history: the last push a request was answered success for
          late,        \* history: the last push whose request met only a job that had
                       \* read upstream or nobody runs, or whose last job was given up,
                       \* cancelled or reaped
          mishaps

vars == <<hooks, upstream, mirror, sent, request, waiting, run, leftover, carried, late,
          mishaps>>

Ids == 1..2
Scopes == {"repository",   \* RepositoryID or URLPattern names the repository
           "catch-all",    \* neither is set
           "off"}          \* not active, not there, of another provider or repository

NoRequest == [pc |-> "idle", push |-> 0]
NoRun == [pc |-> "none", read |-> 0, row |-> "none"]

TypeOK ==
    /\ hooks \in [Ids -> Scopes]
    /\ {upstream, mirror, carried, late} \subseteq 0..MaxPushes
    /\ sent \subseteq 1..MaxPushes
    /\ request \in [pc : {"idle", "look", "insert"}, push : 0..MaxPushes]
    /\ run \in [pc : {"none", "running", "read"}, read : 0..MaxPushes,
               row : {"none", "running", "cancelled"}]
    /\ waiting \in Nat /\ leftover \in Nat
    /\ mishaps \in 0..MaxMishaps

Init ==
    /\ hooks \in [Ids -> Scopes]
    /\ upstream = 0 /\ mirror = 0 /\ sent = {}
    /\ request = NoRequest /\ run = NoRun /\ waiting = 0 /\ leftover = 0
    /\ carried = 0 /\ late = 0 /\ mishaps = 0

rows == <<waiting, run, leftover>>
history == <<carried, late>>

\* A person edits the webhooks.
editWebhook(i) ==
    /\ \E s \in Scopes : hooks' = [hooks EXCEPT ![i] = s]
    /\ UNCHANGED <<upstream, mirror, sent, request, rows, history, mishaps>>

push ==
    /\ upstream < MaxPushes
    /\ upstream' = upstream + 1
    /\ sent' = sent \cup {upstream + 1}
    /\ UNCHANGED <<hooks, mirror, request, rows, history, mishaps>>

lose(p) ==
    /\ p \in sent /\ sent' = sent \ {p}
    /\ UNCHANGED <<hooks, upstream, mirror, request, rows, history, mishaps>>

-----------------------------------------------------------------------------
\* matchWebhookByRepoURL
Matching == {i \in Ids : hooks[i] \in {"repository", "catch-all"}}

\* findMatchingWebhook: of those that match, the one created last; 0 for none.
findMatchingWebhook == IF Matching = {} THEN 0
                       ELSE CHOOSE i \in Matching : \A j \in Matching : j <= i

\* ReceiveWebhook with a signature of the hook it is matched to: any other is
\* refused, as a notification nobody has a hook for.  A catch-all is answered
\* success, and starts nothing.
ReceiveWebhook(p) ==
    /\ p \in sent /\ request = NoRequest
    /\ sent' \in {sent, sent \ {p}}
    /\ LET i == findMatchingWebhook
       IN  request' = IF i # 0 /\ hooks[i] = "repository" THEN [pc |-> "look", push |-> p]
                      ELSE request
    /\ UNCHANGED <<hooks, upstream, mirror, rows, history, mishaps>>

Unfinished == waiting > 0 \/ leftover > 0 \/ run.row = "running"

\* The request is content with the unfinished rows.  `late' notes a push that none
\* of them is going to read.
joinJob ==
    /\ request' = NoRequest
    /\ carried' = IF request.push > carried THEN request.push ELSE carried
    /\ late' = IF waiting = 0 /\ run.pc # "running" /\ request.push > late
               THEN request.push ELSE late

\* Mutant: any job of the repository will do, even one that has ended.
lookForAnyJob ==
    /\ request.pc = "look"
    /\ IF Unfinished THEN joinJob
       ELSE /\ request' = NoRequest
            /\ carried' = IF request.push > carried THEN request.push ELSE carried
            /\ UNCHANGED late
    /\ UNCHANGED <<hooks, upstream, mirror, sent, rows, mishaps>>

\* CreateCloneJob looks for an unfinished row, and is content with it ...
lookForJob ==
    /\ request.pc = "look"
    /\ IF Unfinished THEN joinJob
       ELSE request' = [request EXCEPT !.pc = "insert"] /\ UNCHANGED history
    /\ UNCHANGED <<hooks, upstream, mirror, sent, rows, mishaps>>

\* ... or inserts one, next to one that came between the two steps.
insertJob ==
    /\ request.pc = "insert"
    /\ waiting' = waiting + 1
    /\ request' = NoRequest
    /\ carried' = IF request.push > carried THEN request.push ELSE carried
    /\ UNCHANGED <<hooks, upstream, mirror, sent, run, leftover, late, mishaps>>

-----------------------------------------------------------------------------
(* The jobs, and the scheduler that makes one when the interval has passed.  *)

schedule ==
    /\ ~Unfinished
    /\ waiting' = waiting + 1
    /\ UNCHANGED <<hooks, upstream, mirror, sent, request, run, leftover, history, mishaps>>

\* processJob has the lock of the path; a row cancelled while it was queued is not
\* started.
runJob ==
    /\ waiting > 0 /\ run.pc = "none"
    /\ waiting' = waiting - 1
    /\ run' = [pc |-> "running", read |-> 0, row |-> "running"]
    /\ UNCHANGED <<hooks, upstream, mirror, sent, request, leftover, history, mishaps>>

\* git asks upstream for its refs and fetches what they point to.
fetch ==
    /\ run.pc = "running"
    /\ run' = [run EXCEPT !.pc = "read", !.read = upstream]
    /\ UNCHANGED <<hooks, upstream, mirror, sent, request, waiting, leftover, history, mishaps>>

\* A retry follows, or the next tick after a backoff.
gitFails ==
    /\ run.pc = "running"
    /\ run' = NoRun
    /\ waiting' \in {waiting, waiting + 1}
    /\ late' = IF waiting' = 0 THEN carried ELSE late
    /\ UNCHANGED <<hooks, upstream, mirror, sent, request, leftover, carried, mishaps>>

\* A cancelled row keeps its status, and what git brought stays.
endJob ==
    /\ run.pc = "read"
    /\ mirror' = run.read
    /\ run' = NoRun
    /\ UNCHANGED <<hooks, upstream, sent, request, waiting, leftover, history, mishaps>>

-----------------------------------------------------------------------------
(* What may come between an answer and the job it relies on.                 *)

\* CancelCloneJob marks an unfinished row; git is not stopped.
CancelCloneJob ==
    /\ mishaps < MaxMishaps /\ mishaps' = mishaps + 1
    /\ \/ /\ waiting > 0 /\ waiting' = waiting - 1
          /\ late' = IF waiting' = 0 THEN carried ELSE late
          /\ UNCHANGED <<run, leftover>>
       \/ /\ run.row = "running" /\ run' = [run EXCEPT !.row = "cancelled"]
          /\ UNCHANGED <<waiting, leftover, late>>
       \/ /\ leftover > 0 /\ leftover' = leftover - 1
          /\ UNCHANGED <<waiting, run, late>>
    /\ UNCHANGED <<hooks, upstream, mirror, sent, request, carried>>

\* The process ends and another one starts.  Of an orderly end the interrupted row is
\* pending again, of a crash it is left running; reapOrphanedJobs fails the stale rows
\* and recovers the pending ones that are left.
restart ==
    /\ mishaps < MaxMishaps /\ mishaps' = mishaps + 1
    /\ request' = NoRequest /\ run' = NoRun
    /\ LET one == IF run.row = "running" THEN 1 ELSE 0
       IN  \E back \in 0..one :
               /\ waiting' \in 0..(waiting + back)
               /\ leftover' \in 0..(leftover + one - back)
    /\ late' = IF waiting' = 0 THEN carried ELSE late
    /\ UNCHANGED <<hooks, upstream, mirror, sent, carried>>

Next ==
    \/ \E i \in Ids : editWebhook(i)
    \/ push \/ \E p \in sent : lose(p) \/ ReceiveWebhook(p)
    \/ lookForJob \/ insertJob
    \/ schedule \/ runJob \/ fetch \/ gitFails \/ endJob
    \/ CancelCloneJob \/ restart

Spec == Init /\ [][Next]_vars

\* The scheduler ticks, a job goes on to its end, and git does not fail for ever.
Fairness == WF_vars(schedule) /\ WF_vars(runJob) /\ SF_vars(fetch) /\ WF_vars(endJob)

-----------------------------------------------------------------------------
(* A push whose notification was answered with success is in the mirror or   *)
(* will be read by a job there is.  Excepted, as `late', are: a job that had *)
(* already read upstream, or that nobody runs, when the notification came;   *)
(* and the last pending job given up after its retries, cancelled by a user, *)
(* or gone with the process.  Such a push waits for the next job.  That a    *)
(* running job is cancelled is no exception: its git goes on.                *)
CarriedIsOnItsWay ==
    carried > mirror =>
        \/ waiting > 0
        \/ run.pc = "running"
        \/ run.pc = "read" /\ run.read >= carried
        \/ late >= carried

(* Every push gets into the mirror, whatever happens to its notification and *)
(* to the jobs, unless a row a crash left running stays for ever: it keeps   *)
(* the repository out of the schedule (see CloneWorker).                     *)
PushIsMirrored ==
    []<>(leftover = 0) => \A p \in 1..MaxPushes : upstream = p ~> mirror >= p
=============================================================================
