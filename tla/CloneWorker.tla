----------------------------- MODULE CloneWorker -----------------------------
(***************************************************************************)
(* The clone pipeline: internal/gitops/worker.go and scheduler.go with the *)
(* job operations of internal/services/clone_service.go.  A row of         *)
(* clone_jobs is created by the scheduler, by the API or by a worker that  *)
(* failed, passes through the in-memory queue, possibly several times, and *)
(* is run by one worker of the pool, while it may be cancelled, the        *)
(* process may stop gracefully or crash, and the next start picks up the   *)
(* rows the last process left.                                             *)
(*                                                                         *)
(* The queue is the FIFO that DispatchQueue implements, the lock of a      *)
(* repository's path the one KeyedMutex implements.  Time is abstracted:   *)
(* a timer, an interval, a backoff and the shutdown grace elapse when they *)
(* like, and a row left by an earlier process may or may not be old enough *)
(* to be reaped.  A git operation is the time a worker spends at "git".    *)
(***************************************************************************)
EXTENDS Naturals, Sequences, FiniteSets

CONSTANTS Repos,
          Workers,           \* the pool, config.MaxConcurrent goroutines
          Clients,           \* concurrent callers of CreateCloneJob
          MaxJobs,           \* bound: rows ever created; ids grow with created_at
          RetryMaxAttempts,
          MaxStops,          \* bound: graceful stops
          MaxCrashes,        \* bound: crashes
          NoRepo, NoWorker

NoJob == 0
Jobs == 1..MaxJobs

ASSUME MaxJobsAssumption == MaxJobs \in Nat
ASSUME RetryAssumption == RetryMaxAttempts \in Nat
ASSUME NullAssumption == NoRepo \notin Repos /\ NoWorker \notin Workers

VARIABLES
    \* rows of clone_jobs and repositories, which outlive the process
    status,      \* status[j], "none" while there is no such row
    repoOf,      \* repoOf[j]: the row's repository_id (rows of repositories stay)
    due,         \* due[r]: last_clone_at is null or clone_interval has elapsed
    backoff,     \* backoff[r]: next_retry_at lies in the future
    retries,     \* retries[r]: retry_count, counted up to RetryMaxAttempts
    \* the process
    phase,       \* where it is between Start and the end of Stop
    stops, crashes,
    toRecover,   \* reapOrphanedJobs: loaded pending rows not yet enqueued
    queue,       \* the FIFO of DispatchQueue
    timers,      \* jobs held by an enqueueAfter goroutine
    lock,        \* repoLocks: the worker that holds r's path
    pc, job,     \* per worker: where in worker/processJob it is, on which job
    tick,        \* scheduleCloneJobs: "idle", "busy" or "create"
    picked,      \* repositories the current tick still considers
    asked        \* asked[c]: repository whose dedupe query answered "none"

rows == <<status, repoOf>>
repos == <<due, backoff, retries>>
process == <<phase, stops, crashes, toRecover>>
pool == <<lock, pc, job>>
callers == <<tick, picked, asked>>
vars == <<rows, repos, process, queue, timers, pool, callers>>

(* "idle": in worker's select; "got": received a job, admit is next;       *)
(* "start": in processJob, TryLock is next; "locked": the running update   *)
(* is next; "git": cloning or fetching; "failed": after failJob,           *)
(* handleFailure is next; "retry": its retry row is next; "post": after    *)
(* the success update, runPostClone is next.                               *)
PCs == {"idle", "got", "start", "locked", "git", "failed", "retry", "post", "exited"}
Critical == {"locked", "git", "failed", "retry", "post"}
InFlight == Critical \cup {"start"}
Phases == {"recovering", "up", "softStop", "stopping", "cancelled", "down"}
Statuses == {"none", "pending", "running", "success", "failed", "cancelled"}
Unfinished == {"pending", "running"}

TypeOK ==
    /\ status \in [Jobs -> Statuses] /\ repoOf \in [Jobs -> Repos \cup {NoRepo}]
    /\ due \in [Repos -> BOOLEAN] /\ backoff \in [Repos -> BOOLEAN]
    /\ retries \in [Repos -> 0..RetryMaxAttempts]
    /\ phase \in Phases /\ stops \in Nat /\ crashes \in Nat /\ toRecover \subseteq Jobs
    /\ queue \in Seq(Jobs) /\ timers \subseteq Jobs
    /\ lock \in [Repos -> Workers \cup {NoWorker}]
    /\ pc \in [Workers -> PCs] /\ job \in [Workers -> Jobs \cup {NoJob}]
    /\ tick \in {"idle", "busy", "create"} /\ picked \subseteq Repos
    /\ asked \in [Clients -> Repos \cup {NoRepo}]

\* After the first start, on an empty clone_jobs table.
Init ==
    /\ status = [j \in Jobs |-> "none"] /\ repoOf = [j \in Jobs |-> NoRepo]
    /\ due = [r \in Repos |-> TRUE] /\ backoff = [r \in Repos |-> FALSE]
    /\ retries = [r \in Repos |-> 0]
    /\ phase = "up" /\ stops = 0 /\ crashes = 0 /\ toRecover = {}
    /\ queue = <<>> /\ timers = {}
    /\ lock = [r \in Repos |-> NoWorker]
    /\ pc = [w \in Workers |-> "idle"] /\ job = [w \in Workers |-> NoJob]
    /\ tick = "idle" /\ picked = {}
    /\ asked = [c \in Clients |-> NoRepo]

ctxDone == phase = "cancelled"

Serving == phase \notin {"down", "recovering"}

-----------------------------------------------------------------------------
(* Statements on clone_jobs.                                               *)

\* The id the next row gets.
NextId(j) == status[j] = "none" /\ \A i \in 1..(j - 1) : status[i] # "none"

\* db.Create(job), pending.
create(j, r) ==
    /\ NextId(j)
    /\ status' = [status EXCEPT ![j] = "pending"]
    /\ repoOf' = [repoOf EXCEPT ![j] = r]

\* UPDATE clone_jobs SET status = s WHERE id = j AND status <> 'cancelled'.
UpdateUnlessCancelled(j, s) ==
    /\ status' = [status EXCEPT ![j] = IF @ = "cancelled" THEN @ ELSE s]
    /\ UNCHANGED repoOf

Busy(r) == \E j \in Jobs : repoOf[j] = r /\ status[j] \in Unfinished

Enqueue(j) == queue' = Append(queue, j)

-----------------------------------------------------------------------------
(* The worker pool.                                                        *)

goto(w, next) == pc' = [pc EXCEPT ![w] = next] /\ UNCHANGED <<lock, job>>

\* processJob returns: its deferred calls unlock the path if it was locked
\* and count the job out of inflight.
return(w) ==
    /\ pc' = [pc EXCEPT ![w] = "idle"]
    /\ job' = [job EXCEPT ![w] = NoJob]
    /\ lock' = [r \in Repos |-> IF lock[r] = w THEN NoWorker ELSE lock[r]]

\* worker: `case job := <-w.jobQueue', which select may choose after softStop.
worker(w) ==
    /\ pc[w] = "idle" /\ queue # <<>>
    /\ pc' = [pc EXCEPT ![w] = "got"]
    /\ job' = [job EXCEPT ![w] = Head(queue)]
    /\ queue' = Tail(queue)
    /\ UNCHANGED <<rows, repos, process, timers, lock, callers>>

\* worker: `case <-w.softStop: return', `case <-w.ctx.Done(): return'.
workerStops(w) ==
    /\ pc[w] = "idle" /\ phase \in {"softStop", "stopping", "cancelled"}
    /\ goto(w, "exited")
    /\ UNCHANGED <<rows, repos, process, queue, timers, callers>>

\* admit: count the job into inflight, or drop it (its row stays pending) and
\* leave if Stop has set stopping.
admit(w) ==
    /\ pc[w] = "got"
    /\ IF phase \in {"stopping", "cancelled"}
       THEN /\ pc' = [pc EXCEPT ![w] = "exited"]
            /\ job' = [job EXCEPT ![w] = NoJob]
            /\ UNCHANGED lock
       ELSE goto(w, "start")
    /\ UNCHANGED <<rows, repos, process, queue, timers, callers>>

\* processJob: a path outside the storage root, a blocked host or credentials
\* that do not decrypt (found after the running update): failJob and return.
refuse(w) ==
    /\ pc[w] \in {"start", "git"}
    /\ UpdateUnlessCancelled(job[w], "failed")
    /\ return(w)
    /\ UNCHANGED <<repos, process, queue, timers, callers>>

\* Mutant: a locked path does not keep the worker out.
tryLockAnyway(w) ==
    /\ pc[w] = "start"
    /\ lock' = [lock EXCEPT ![repoOf[job[w]]] = w]
    /\ pc' = [pc EXCEPT ![w] = "locked"]
    /\ UNCHANGED <<rows, repos, process, queue, timers, job, callers>>

\* processJob: repoLocks.TryLock(repoPath) succeeds.
tryLock(w) ==
    /\ pc[w] = "start"
    /\ lock[repoOf[job[w]]] = NoWorker
    /\ lock' = [lock EXCEPT ![repoOf[job[w]]] = w]
    /\ pc' = [pc EXCEPT ![w] = "locked"]
    /\ UNCHANGED <<rows, repos, process, queue, timers, job, callers>>

\* Mutant: the deferred job is put back to pending and forgotten.
deferJobForgotten(w) ==
    /\ pc[w] = "start" /\ lock[repoOf[job[w]]] # NoWorker
    /\ UpdateUnlessCancelled(job[w], "pending")
    /\ return(w)
    /\ UNCHANGED <<timers, repos, process, queue, callers>>

\* processJob: the path is locked by another worker.  The row is put back to
\* pending and a timer holds the job for five seconds, unless the row was
\* cancelled while queued.
deferJob(w) ==
    /\ pc[w] = "start" /\ lock[repoOf[job[w]]] # NoWorker
    /\ UpdateUnlessCancelled(job[w], "pending")
    /\ timers' = IF status[job[w]] = "cancelled" THEN timers ELSE timers \cup {job[w]}
    /\ return(w)
    /\ UNCHANGED <<repos, process, queue, callers>>

\* Mutant: the update is not conditional on the row's status.
markRunningAnyway(w) ==
    /\ pc[w] = "locked"
    /\ status' = [status EXCEPT ![job[w]] = "running"]
    /\ goto(w, "git")
    /\ UNCHANGED <<repoOf, repos, process, queue, timers, callers>>

\* processJob: the running update; a row cancelled while queued ends it.
markRunning(w) ==
    /\ pc[w] = "locked"
    /\ UpdateUnlessCancelled(job[w], "running")
    /\ IF status[job[w]] = "cancelled" THEN return(w) ELSE goto(w, "git")
    /\ UNCHANGED <<repos, process, queue, timers, callers>>

\* The clone or fetch succeeds and the row becomes success.
gitSucceeds(w) ==
    /\ pc[w] = "git"
    /\ UpdateUnlessCancelled(job[w], "success")
    /\ goto(w, "post")
    /\ UNCHANGED <<repos, process, queue, timers, callers>>

\* runPostClone, ending in its update of the repository row.
runPostClone(w) ==
    LET r == repoOf[job[w]] IN
    /\ pc[w] = "post"
    /\ due' = [due EXCEPT ![r] = FALSE]
    /\ backoff' = [backoff EXCEPT ![r] = FALSE]
    /\ retries' = [retries EXCEPT ![r] = 0]
    /\ return(w)
    /\ UNCHANGED <<rows, process, queue, timers, callers>>

\* Mutant: an interrupted job is left as it is.
gitInterruptedLeft(w) ==
    /\ pc[w] = "git" /\ ctxDone
    /\ UNCHANGED rows
    /\ return(w)
    /\ UNCHANGED <<repos, process, queue, timers, callers>>

\* The hard cancel of a shutdown aborts git: back to pending.
gitInterrupted(w) ==
    /\ pc[w] = "git" /\ ctxDone
    /\ UpdateUnlessCancelled(job[w], "pending")
    /\ return(w)
    /\ UNCHANGED <<repos, process, queue, timers, callers>>

\* Git fails or times out: failJob.
gitFails(w) ==
    /\ pc[w] = "git" /\ ~ctxDone
    /\ UpdateUnlessCancelled(job[w], "failed")
    /\ goto(w, "failed")
    /\ UNCHANGED <<repos, process, queue, timers, callers>>

\* handleFailure up to its budget check: retry_count (which Updates also sets
\* in repoData) and next_retry_at.
handleFailure(w) ==
    LET r == repoOf[job[w]]
        count == IF retries[r] < RetryMaxAttempts THEN retries[r] + 1 ELSE retries[r] IN
    /\ pc[w] = "failed"
    /\ retries' = [retries EXCEPT ![r] = count]
    /\ backoff' = [backoff EXCEPT ![r] = TRUE]
    /\ IF count >= RetryMaxAttempts THEN return(w) ELSE goto(w, "retry")
    /\ UNCHANGED <<rows, due, process, queue, timers, callers>>

\* handleFailure: create the retry row and hold it for the backoff.
createRetry(w) ==
    /\ pc[w] = "retry"
    /\ \E j \in Jobs : create(j, repoOf[job[w]]) /\ timers' = timers \cup {j}
    /\ return(w)
    /\ UNCHANGED <<repos, process, queue, callers>>

\* handleFailure: the insert fails.
createRetryFails(w) ==
    /\ pc[w] = "retry"
    /\ return(w)
    /\ UNCHANGED <<rows, repos, process, queue, timers, callers>>

WorkerStep(w) ==
    \/ worker(w) \/ workerStops(w) \/ admit(w) \/ refuse(w)
    \/ tryLock(w) \/ deferJob(w) \/ markRunning(w)
    \/ gitSucceeds(w) \/ runPostClone(w) \/ gitInterrupted(w) \/ gitFails(w)
    \/ handleFailure(w) \/ createRetry(w) \/ createRetryFails(w)

\* enqueueAfter's goroutine: `case <-timer.C'.
enqueueAfter(j) ==
    /\ j \in timers
    /\ timers' = timers \ {j}
    /\ Enqueue(j)
    /\ UNCHANGED <<rows, repos, process, pool, callers>>

\* enqueueAfter's goroutine: `case <-w.ctx.Done()'.
timerStops(j) ==
    /\ j \in timers /\ ctxDone
    /\ timers' = timers \ {j}
    /\ UNCHANGED <<rows, repos, process, queue, pool, callers>>

-----------------------------------------------------------------------------
(* Callers: the scheduler's tick, CreateCloneJob and CancelCloneJob.       *)

\* scheduleCloneJobs: load the repositories.  A tick in maintenance mode or
\* without an eligible repository does nothing.
scheduleCloneJobs ==
    /\ phase = "up" /\ tick = "idle"
    /\ picked' = {r \in Repos : due[r] /\ ~backoff[r]}
    /\ picked' # {}
    /\ tick' = "busy"
    /\ UNCHANGED <<rows, repos, process, queue, timers, pool, asked>>

\* scheduleCloneJobs: drop the repositories with an unfinished job.
loadBusy ==
    /\ Serving /\ tick = "busy"
    /\ picked' = {r \in picked : ~Busy(r)}
    /\ tick' = "create"
    /\ UNCHANGED <<rows, repos, process, queue, timers, pool, asked>>

\* scheduleCloneJobs: one iteration of its loop, or a failed insert.
schedule(r) ==
    /\ Serving /\ tick = "create" /\ r \in picked
    /\ picked' = picked \ {r}
    /\ \/ \E j \in Jobs : create(j, r) /\ Enqueue(j)
       \/ UNCHANGED <<rows, queue>>
    /\ UNCHANGED <<repos, process, timers, pool, tick, asked>>

endTick ==
    /\ tick = "create" /\ picked = {}
    /\ tick' = "idle"
    /\ UNCHANGED <<rows, repos, process, queue, timers, pool, picked, asked>>

\* CreateCloneJob: the repository has no unfinished job.  (If it has one, that
\* is returned and nothing changes.)
CreateCloneJob(c, r) ==
    /\ phase = "up" /\ asked[c] = NoRepo
    /\ ~Busy(r)
    /\ asked' = [asked EXCEPT ![c] = r]
    /\ UNCHANGED <<rows, repos, process, queue, timers, pool, tick, picked>>

\* CreateCloneJob: insert and dispatch, or the insert fails.
dispatchJob(c) ==
    /\ asked[c] # NoRepo
    /\ asked' = [asked EXCEPT ![c] = NoRepo]
    /\ \/ \E j \in Jobs : create(j, asked[c]) /\ Enqueue(j)
       \/ UNCHANGED <<rows, queue>>
    /\ UNCHANGED <<repos, process, timers, pool, tick, picked>>

\* CancelCloneJob: one conditional update.
CancelCloneJob(j) ==
    /\ phase = "up"
    /\ status[j] \in Unfinished
    /\ status' = [status EXCEPT ![j] = "cancelled"]
    /\ UNCHANGED <<repoOf, repos, process, queue, timers, pool, callers>>

\* clone_interval_minutes, next_retry_at pass.
IntervalElapses(r) ==
    /\ ~due[r]
    /\ due' = [due EXCEPT ![r] = TRUE]
    /\ UNCHANGED <<rows, backoff, retries, process, queue, timers, pool, callers>>

BackoffElapses(r) ==
    /\ backoff[r]
    /\ backoff' = [backoff EXCEPT ![r] = FALSE]
    /\ UNCHANGED <<rows, due, retries, process, queue, timers, pool, callers>>

-----------------------------------------------------------------------------
(* The process.                                                            *)

\* What a process has in memory is gone when it ends.
MemoryLost ==
    /\ toRecover' = {} /\ queue' = <<>> /\ timers' = {}
    /\ lock' = [r \in Repos |-> NoWorker]
    /\ pc' = [w \in Workers |-> "exited"]
    /\ job' = [w \in Workers |-> NoJob]
    /\ tick' = "idle" /\ picked' = {}
    /\ asked' = [c \in Clients |-> NoRepo]

\* Stop, phase 1: softStop is closed.  HTTP was shut down before; the
\* scheduler's ticker is stopped, but a tick that runs is not waited for.
Stop ==
    /\ phase = "up" /\ stops < MaxStops
    /\ \A c \in Clients : asked[c] = NoRepo
    /\ phase' = "softStop"
    /\ stops' = stops + 1
    /\ UNCHANGED <<crashes, toRecover, rows, repos, queue, timers, pool, callers>>

\* Stop, phase 2: stopping is set, under inflightMu.
setStopping ==
    /\ phase = "softStop"
    /\ phase' = "stopping"
    /\ UNCHANGED <<stops, crashes, toRecover, rows, repos, queue, timers, pool, callers>>

\* Stop, phase 3: inflight is drained or the grace has elapsed: w.cancel().
hardCancel ==
    /\ phase = "stopping"
    /\ phase' = "cancelled"
    /\ UNCHANGED <<stops, crashes, toRecover, rows, repos, queue, timers, pool, callers>>

\* Stop returns from wg.Wait and the process ends.
exit ==
    /\ ctxDone
    /\ \A w \in Workers : pc[w] = "exited"
    /\ timers = {}
    /\ phase' = "down"
    /\ MemoryLost
    /\ UNCHANGED <<stops, crashes, rows, repos>>

\* The process dies, or is killed because the shutdown of HTTP timed out.
crash ==
    /\ phase # "down" /\ crashes < MaxCrashes
    /\ phase' = "down"
    /\ crashes' = crashes + 1
    /\ MemoryLost
    /\ UNCHANGED <<stops, rows, repos>>

\* Mutant: pending rows are left to the scheduler.
StartWithoutRecovery ==
    /\ phase = "down"
    /\ phase' = "recovering"
    /\ pc' = [w \in Workers |-> "idle"]
    /\ toRecover' = {}
    /\ UNCHANGED <<stops, crashes, rows, repos, queue, timers, lock, job, callers>>

\* Start: the pool runs, then reapOrphanedJobs fails the rows Stale old enough
\* to be orphans and loads the rows that are still pending.
Start ==
    /\ phase = "down"
    /\ phase' = "recovering"
    /\ pc' = [w \in Workers |-> "idle"]
    /\ \E Stale \in SUBSET {j \in Jobs : status[j] \in Unfinished} :
         /\ status' = [j \in Jobs |-> IF j \in Stale THEN "failed" ELSE status[j]]
         /\ toRecover' = {j \in Jobs : status[j] = "pending"} \ Stale
    /\ UNCHANGED <<repoOf, stops, crashes, repos, queue, timers, lock, job, callers>>

\* reapOrphanedJobs: enqueue the loaded rows, oldest first.
reapOrphanedJobs ==
    /\ phase = "recovering"
    /\ \E j \in toRecover :
         /\ \A i \in toRecover : j <= i
         /\ toRecover' = toRecover \ {j}
         /\ Enqueue(j)
    /\ UNCHANGED <<phase, stops, crashes, rows, repos, timers, pool, callers>>

\* Start has returned; the scheduler and the HTTP server are started.
serve ==
    /\ phase = "recovering" /\ toRecover = {}
    /\ phase' = "up"
    /\ UNCHANGED <<stops, crashes, toRecover, rows, repos, queue, timers, pool, callers>>

-----------------------------------------------------------------------------
Next ==
    \/ \E w \in Workers : WorkerStep(w)
    \/ \E j \in Jobs : enqueueAfter(j) \/ timerStops(j) \/ CancelCloneJob(j)
    \/ \E r \in Repos : schedule(r) \/ IntervalElapses(r) \/ BackoffElapses(r)
    \/ scheduleCloneJobs \/ loadBusy \/ endTick
    \/ \E c \in Clients : dispatchJob(c) \/ \E r \in Repos : CreateCloneJob(c, r)
    \/ Stop \/ setStopping \/ hardCancel \/ exit \/ crash
    \/ Start \/ reapOrphanedJobs \/ serve

Spec == Init /\ [][Next]_vars

\* Workers run, and CloneTimeout ends every git operation; timers fire; a
\* start and a stop go through, the grace period elapses.  Nothing is assumed
\* of ticks, clients, cancellations, stops and crashes.
FairSpec ==
    /\ Spec
    /\ \A w \in Workers : WF_vars(WorkerStep(w))
    /\ \A j \in Jobs : WF_vars(enqueueAfter(j) \/ timerStops(j))
    /\ WF_vars(Start) /\ WF_vars(reapOrphanedJobs) /\ WF_vars(serve)
    /\ WF_vars(setStopping) /\ WF_vars(hardCancel) /\ WF_vars(exit)

-----------------------------------------------------------------------------
(* Two jobs of one repository may be in flight at once, as the tick and    *)
(* CreateCloneJob look for an unfinished one before they insert; their git *)
(* operations, failure bookkeeping and housekeeping never are.             *)
GitExclusion ==
    \A v, w \in Workers :
        pc[v] \in Critical /\ pc[w] \in Critical /\ repoOf[job[v]] = repoOf[job[w]]
            => v = w

\* The jobs in the queue, and those a worker carries that may still change
\* their rows; the others are in timers and toRecover.
Queued == {queue[i] : i \in 1..Len(queue)}
Carriers == {w \in Workers : pc[w] \in {"got", "start", "locked", "git"}}
Carried == {job[w] : w \in Carriers}

NoRepeat == \A i, k \in 1..Len(queue) : queue[i] = queue[k] => i = k

HeldOnce ==
    /\ NoRepeat
    /\ \A v, w \in Carriers : job[v] = job[w] => v = w
    /\ Queued \cap Carried = {}
    /\ timers \cap (Queued \cup Carried) = {}
    /\ toRecover \cap (Queued \cup Carried \cup timers) = {}

PendingIsHeld ==
    phase \in {"recovering", "up"} =>
        \A j \in Jobs : status[j] = "pending" =>
            j \in Queued \cup Carried \cup timers \cup toRecover

(* No hand-over between queue, workers, timers and recovery duplicates or  *)
(* loses a job: no job is ever held in two places, and in a process that   *)
(* is not stopping each pending row is held in one (nothing else would     *)
(* dispatch it, and the scheduler skips its repository).                   *)
Custody == HeldOnce /\ PendingIsHeld

(* Whatever a graceful stop interrupts and whatever is cancelled or        *)
(* deferred: as long as no process crashed, a running row belongs to a     *)
(* worker that runs it.  In particular none is left when Stop is done.     *)
RunningIsOwned ==
    crashes = 0 =>
        \A j \in Jobs : status[j] = "running" =>
            \E w \in Workers : pc[w] = "git" /\ job[w] = j

(* The rows go through the statuses the lifecycle allows: a cancelled,     *)
(* failed or successful row keeps its status whatever worker, timer or     *)
(* restart still gets hold of the job.                                     *)
Lifecycle == INSTANCE JobLifecycle
ImplementsJobLifecycle == Lifecycle!Spec

(* Once Stop has set stopping, no worker counts a job into inflight: the   *)
(* Add that would race inflight.Wait cannot happen.                        *)
NoAdmissionAfterStop ==
    [][\A w \in Workers : phase \in {"stopping", "cancelled"} /\ pc'[w] \in InFlight
            => pc[w] \in InFlight]_vars

(* Every pending row is eventually dispatched or ended, across deferrals,  *)
(* stops, crashes and restarts.                                            *)
PendingEnds == \A j \in Jobs : status[j] = "pending" ~> status[j] # "pending"

(* Stop terminates: no worker, timer or blocked hand-over keeps it waiting.*)
StopEnds == phase = "softStop" ~> phase = "down"

(* reapOrphanedJobs is there "so a restart neither leaves zombie rows nor  *)
(* strands work" (worker.go, Start): a running row ends.                   *)
RunningEnds == \A j \in Jobs : status[j] = "running" ~> status[j] # "running"

-----------------------------------------------------------------------------
(* The inductive invariant: what a place that holds a job knows of its row.*)
StatusMatches ==
    /\ \A j \in Queued \cup timers \cup toRecover : status[j] \in {"pending", "cancelled"}
    /\ \A w \in Workers :
         /\ pc[w] \notin {"idle", "exited"} => job[w] \in Jobs
         /\ pc[w] \in {"got", "start", "locked"} => status[job[w]] \in {"pending", "cancelled"}
         /\ pc[w] = "git" => status[job[w]] \in {"running", "cancelled"}
         /\ pc[w] \in {"failed", "retry", "post"} => status[job[w]] # "none"
    /\ \A j \in Jobs : status[j] # "none" => repoOf[j] \in Repos

LockMatches == \A w \in Workers : pc[w] \in Critical => lock[repoOf[job[w]]] = w

DownIsEmpty ==
    phase = "down" =>
        /\ queue = <<>> /\ timers = {} /\ toRecover = {}
        /\ \A w \in Workers : pc[w] = "exited"
        /\ \A c \in Clients : asked[c] = NoRepo

IInv == TypeOK /\ StatusMatches /\ LockMatches /\ DownIsEmpty /\ Custody /\ RunningIsOwned
=============================================================================
