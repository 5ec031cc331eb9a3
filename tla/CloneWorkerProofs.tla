-------------------------- MODULE CloneWorkerProofs --------------------------
(***************************************************************************)
(* The safety of the clone pipeline for any number of repositories,        *)
(* workers, clients, rows, stops and crashes.  Every theorem rests on      *)
(* InductiveInvariant, whose step is proved one conjunct at a time: the    *)
(* types, what each holder of a job knows of its row (StatusMatches), the  *)
(* lock of a repository (LockMatches), the memory of an ended process      *)
(* (DownIsEmpty), the two halves of Custody, and RunningIsOwned.           *)
(***************************************************************************)
EXTENDS CloneWorker, TLAPS

\* Appending a job the queue does not hold.
LEMMA AppendQueue ==
    ASSUME TypeOK, NEW j \in Jobs, Enqueue(j)
    PROVE  /\ queue' \in Seq(Jobs)
           /\ Queued' = Queued \cup {j}
           /\ NoRepeat /\ j \notin Queued => NoRepeat'
<1>1. /\ queue' \in Seq(Jobs) /\ Len(queue') = Len(queue) + 1
      /\ \A i \in 1..Len(queue) : queue'[i] = queue[i]
      /\ queue'[Len(queue) + 1] = j
      /\ Len(queue) \in Nat
  BY DEF TypeOK, Enqueue
<1>2. 1..Len(queue') = 1..Len(queue) \cup {Len(queue) + 1}
  BY <1>1
<1>3. QED
  BY <1>1, <1>2 DEF Queued, NoRepeat

\* Receiving from the queue: its head leaves it.
LEMMA TakeQueue ==
    ASSUME TypeOK, queue # <<>>, queue' = Tail(queue)
    PROVE  /\ queue' \in Seq(Jobs)
           /\ Head(queue) \in Jobs /\ Head(queue) \in Queued
           /\ Queued' \subseteq Queued
           /\ Queued \subseteq Queued' \cup {Head(queue)}
           /\ NoRepeat => NoRepeat' /\ Head(queue) \notin Queued'
<1>1. /\ queue' \in Seq(Jobs) /\ Len(queue) \in Nat \ {0} /\ Len(queue') = Len(queue) - 1
      /\ \A i \in 1..Len(queue') : queue'[i] = queue[i + 1]
      /\ Head(queue) = queue[1] /\ Head(queue) \in Jobs
  BY DEF TypeOK
<1>2. \A i \in 1..Len(queue) : i = 1 \/ (i - 1 \in 1..Len(queue') /\ queue[i] = queue'[i - 1])
  BY <1>1
<1>3. \A i \in 1..Len(queue') : i + 1 \in 1..Len(queue) /\ i + 1 # 1
  BY <1>1
<1>4. 1 \in 1..Len(queue)
  BY <1>1
<1>5. Head(queue) \in Queued /\ Queued' \subseteq Queued
  BY <1>1, <1>3, <1>4 DEF Queued
<1>6. Queued \subseteq Queued' \cup {Head(queue)}
  BY <1>1, <1>2 DEF Queued
<1>7. ASSUME NoRepeat PROVE NoRepeat' /\ Head(queue) \notin Queued'
  <2>1. NoRepeat'
    BY <1>1, <1>3, <1>7 DEF NoRepeat
  <2>2. \A i \in 1..Len(queue') : queue[i + 1] # queue[1]
    BY <1>3, <1>4, <1>7 DEF NoRepeat
  <2>3. QED
    BY <1>1, <2>1, <2>2 DEF Queued
<1>8. QED
  BY <1>1, <1>5, <1>6, <1>7

\* The row of a job that a worker processes.
LEMMA JobRow ==
    ASSUME TypeOK, StatusMatches, NEW w \in Workers, pc[w] \notin {"idle", "exited"}
    PROVE  job[w] \in Jobs /\ status[job[w]] # "none" /\ repoOf[job[w]] \in Repos
<1>1. pc[w] \in PCs
  BY DEF TypeOK
<1>2. QED
  BY <1>1 DEF StatusMatches, PCs

\* Each action keeps the types.
LEMMA TypeStep ==
    ASSUME TypeOK, StatusMatches, [Next]_vars
    PROVE  TypeOK'
<1>. USE DEF TypeOK, rows, process, callers, PCs, repos, pool, Phases, Statuses, NoJob
<1>1. CASE UNCHANGED vars
  BY <1>1 DEF vars
<1>2. ASSUME NEW w \in Workers, worker(w) PROVE TypeOK'
  BY <1>2, TakeQueue DEF worker
<1>3. ASSUME NEW w \in Workers, workerStops(w) PROVE TypeOK'
  BY <1>3 DEF workerStops, goto
<1>4. ASSUME NEW w \in Workers, admit(w) PROVE TypeOK'
  BY <1>4 DEF admit, goto
<1>5. ASSUME NEW w \in Workers, refuse(w) PROVE TypeOK'
  BY <1>5 DEF refuse, UpdateUnlessCancelled, return
<1>6. ASSUME NEW w \in Workers, tryLock(w) PROVE TypeOK'
  BY <1>6 DEF tryLock
<1>7. ASSUME NEW w \in Workers, deferJob(w) PROVE TypeOK'
  BY <1>7, JobRow DEF deferJob, UpdateUnlessCancelled, return
<1>8. ASSUME NEW w \in Workers, markRunning(w) PROVE TypeOK'
  BY <1>8, JobRow DEF markRunning, UpdateUnlessCancelled, return, goto
<1>9. ASSUME NEW w \in Workers, gitSucceeds(w) PROVE TypeOK'
  BY <1>9 DEF gitSucceeds, UpdateUnlessCancelled, goto
<1>10. ASSUME NEW w \in Workers, runPostClone(w) PROVE TypeOK'
  <2>1. repoOf[job[w]] \in Repos
    BY <1>10, JobRow DEF runPostClone
  <2>2. /\ due' \in [Repos -> BOOLEAN] /\ backoff' \in [Repos -> BOOLEAN]
        /\ retries' \in [Repos -> 0..RetryMaxAttempts]
    BY <1>10, <2>1, RetryAssumption DEF runPostClone
  <2>3. QED
    BY <1>10, <2>2 DEF runPostClone, return
<1>11. ASSUME NEW w \in Workers, gitInterrupted(w) PROVE TypeOK'
  BY <1>11 DEF gitInterrupted, UpdateUnlessCancelled, return, ctxDone
<1>12. ASSUME NEW w \in Workers, gitFails(w) PROVE TypeOK'
  BY <1>12 DEF gitFails, UpdateUnlessCancelled, goto, ctxDone
<1>13. ASSUME NEW w \in Workers, handleFailure(w) PROVE TypeOK'
  <2>1. repoOf[job[w]] \in Repos
    BY <1>13, JobRow DEF handleFailure
  <2>2. backoff' \in [Repos -> BOOLEAN] /\ retries' \in [Repos -> 0..RetryMaxAttempts]
    BY <1>13, <2>1, RetryAssumption DEF handleFailure
  <2>3. pc' \in [Workers -> PCs] /\ job' \in [Workers -> Jobs \cup {NoJob}]
          /\ lock' \in [Repos -> Workers \cup {NoWorker}]
    <3>1. return(w) \/ goto(w, "retry")
      BY <1>13 DEF handleFailure
    <3>2. QED
      BY <3>1 DEF return, goto
  <2>4. QED
    BY <1>13, <2>2, <2>3 DEF handleFailure
<1>14. ASSUME NEW w \in Workers, createRetry(w) PROVE TypeOK'
  BY <1>14, JobRow DEF createRetry, create, NextId, return
<1>15. ASSUME NEW w \in Workers, createRetryFails(w) PROVE TypeOK'
  BY <1>15 DEF createRetryFails, return
<1>16. ASSUME NEW j \in Jobs, enqueueAfter(j) PROVE TypeOK'
  BY <1>16, AppendQueue DEF enqueueAfter, Enqueue
<1>17. ASSUME NEW j \in Jobs, timerStops(j) PROVE TypeOK'
  BY <1>17 DEF timerStops
<1>18. ASSUME NEW j \in Jobs, CancelCloneJob(j) PROVE TypeOK'
  BY <1>18 DEF CancelCloneJob
<1>19. ASSUME NEW r \in Repos, schedule(r) PROVE TypeOK'
  BY <1>19, AppendQueue DEF schedule, create, NextId, Enqueue
<1>20. ASSUME NEW r \in Repos, IntervalElapses(r) PROVE TypeOK'
  BY <1>20 DEF IntervalElapses
<1>21. ASSUME NEW r \in Repos, BackoffElapses(r) PROVE TypeOK'
  BY <1>21 DEF BackoffElapses
<1>22. ASSUME scheduleCloneJobs PROVE TypeOK'
  BY <1>22 DEF scheduleCloneJobs
<1>23. ASSUME loadBusy PROVE TypeOK'
  BY <1>23 DEF loadBusy
<1>24. ASSUME endTick PROVE TypeOK'
  BY <1>24 DEF endTick
<1>25. ASSUME NEW c \in Clients, dispatchJob(c) PROVE TypeOK'
  BY <1>25, AppendQueue DEF dispatchJob, create, NextId, Enqueue
<1>26. ASSUME NEW c \in Clients, NEW r \in Repos, CreateCloneJob(c, r) PROVE TypeOK'
  BY <1>26 DEF CreateCloneJob
<1>27. ASSUME Stop PROVE TypeOK'
  BY <1>27 DEF Stop
<1>28. ASSUME setStopping PROVE TypeOK'
  BY <1>28 DEF setStopping
<1>29. ASSUME hardCancel PROVE TypeOK'
  BY <1>29 DEF hardCancel
<1>30. ASSUME exit PROVE TypeOK'
  BY <1>30 DEF exit, MemoryLost, ctxDone
<1>31. ASSUME crash PROVE TypeOK'
  BY <1>31 DEF crash, MemoryLost
<1>32. ASSUME Start PROVE TypeOK'
  BY <1>32 DEF Start
<1>33. ASSUME reapOrphanedJobs PROVE TypeOK'
  BY <1>33, AppendQueue DEF reapOrphanedJobs, Enqueue
<1>34. ASSUME serve PROVE TypeOK'
  BY <1>34 DEF serve
<1>35. QED
  BY <1>1, <1>2, <1>3, <1>4, <1>5, <1>6, <1>7, <1>8, <1>9, <1>10, <1>11, <1>12, <1>13,
     <1>14, <1>15, <1>16, <1>17, <1>18, <1>19, <1>20, <1>21, <1>22, <1>23, <1>24, <1>25,
     <1>26, <1>27, <1>28, <1>29, <1>30, <1>31, <1>32, <1>33, <1>34 DEF Next, WorkerStep

\* An unchanged queue holds the same jobs.
LEMMA SameQueue ==
    ASSUME queue' = queue
    PROVE  Queued' = Queued /\ (NoRepeat => NoRepeat')
BY DEF Queued, NoRepeat

\* An emptied queue holds none.
LEMMA EmptyQueue ==
    ASSUME queue' = <<>>
    PROVE  Queued' = {} /\ NoRepeat'
BY DEF Queued, NoRepeat

\* Each action keeps what the holders of a job know of its row: rows change
\* under the hands of their holders only by a cancellation or by the holder.
LEMMA StatusStep ==
    ASSUME TypeOK, StatusMatches, HeldOnce, DownIsEmpty, [Next]_vars
    PROVE  StatusMatches'
<1>. USE DEF StatusMatches, TypeOK, process, rows
<1>1. CASE UNCHANGED vars
  BY <1>1, SameQueue DEF vars, pool, HeldOnce, DownIsEmpty, Carriers, Carried
<1>2. ASSUME NEW w \in Workers, worker(w) PROVE StatusMatches'
  BY <1>2, TakeQueue DEF worker
<1>3. ASSUME NEW w \in Workers, workerStops(w) PROVE StatusMatches'
  BY <1>3, SameQueue DEF workerStops, goto
<1>4. ASSUME NEW w \in Workers, admit(w) PROVE StatusMatches'
  BY <1>4, SameQueue DEF admit, goto
<1>5. ASSUME NEW w \in Workers, refuse(w) PROVE StatusMatches'
  BY <1>5, SameQueue DEF refuse, UpdateUnlessCancelled, return, HeldOnce, DownIsEmpty,
     Carriers, Carried
<1>6. ASSUME NEW w \in Workers, tryLock(w) PROVE StatusMatches'
  BY <1>6, SameQueue DEF tryLock
<1>7. ASSUME NEW w \in Workers, deferJob(w) PROVE StatusMatches'
  BY <1>7, SameQueue DEF deferJob, UpdateUnlessCancelled, return, HeldOnce, DownIsEmpty,
     Carriers, Carried
<1>8. ASSUME NEW w \in Workers, markRunning(w) PROVE StatusMatches'
  <2>1. CASE status[job[w]] = "cancelled" /\ return(w) /\ UNCHANGED status
    BY <1>8, <2>1, SameQueue DEF markRunning, UpdateUnlessCancelled, return
  <2>2. CASE status[job[w]] # "cancelled" /\ goto(w, "git")
    BY <1>8, <2>2, JobRow, SameQueue DEF markRunning, UpdateUnlessCancelled, goto,
       HeldOnce, Carriers, Carried
  <2>3. QED
    BY <1>8, <2>1, <2>2 DEF markRunning, UpdateUnlessCancelled
<1>9. ASSUME NEW w \in Workers, gitSucceeds(w) PROVE StatusMatches'
  BY <1>9, SameQueue DEF gitSucceeds, UpdateUnlessCancelled, goto, HeldOnce,
     DownIsEmpty, Carriers, Carried
<1>10. ASSUME NEW w \in Workers, runPostClone(w) PROVE StatusMatches'
  BY <1>10, SameQueue DEF runPostClone, return
<1>11. ASSUME NEW w \in Workers, gitInterrupted(w) PROVE StatusMatches'
  BY <1>11, SameQueue DEF gitInterrupted, UpdateUnlessCancelled, return, ctxDone,
     HeldOnce, DownIsEmpty, Carriers, Carried
<1>12. ASSUME NEW w \in Workers, gitFails(w) PROVE StatusMatches'
  BY <1>12, SameQueue DEF gitFails, UpdateUnlessCancelled, goto, ctxDone, HeldOnce,
     DownIsEmpty, Carriers, Carried
<1>13. ASSUME NEW w \in Workers, handleFailure(w) PROVE StatusMatches'
  <2>1. return(w) \/ goto(w, "retry")
    BY <1>13 DEF handleFailure
  <2>2. pc[w] = "failed" /\ UNCHANGED <<status, repoOf, queue, timers, toRecover>>
    BY <1>13 DEF handleFailure
  <2>3. QED
    BY <2>1, <2>2, SameQueue DEF return, goto
<1>14. ASSUME NEW w \in Workers, createRetry(w) PROVE StatusMatches'
  <2>1. PICK j \in Jobs : create(j, repoOf[job[w]]) /\ timers' = timers \cup {j}
    BY <1>14 DEF createRetry
  <2>2. status[j] = "none" /\ repoOf[job[w]] \in Repos
    BY <1>14, <2>1, JobRow DEF createRetry, create, NextId
  <2>3. QED
    BY <1>14, <2>1, <2>2, SameQueue DEF createRetry, create, return
<1>15. ASSUME NEW w \in Workers, createRetryFails(w) PROVE StatusMatches'
  BY <1>15, SameQueue DEF createRetryFails, return
<1>16. ASSUME NEW j \in Jobs, enqueueAfter(j) PROVE StatusMatches'
  BY <1>16, AppendQueue DEF enqueueAfter, Enqueue, pool
<1>17. ASSUME NEW j \in Jobs, timerStops(j) PROVE StatusMatches'
  BY <1>17, SameQueue DEF timerStops, pool
<1>18. ASSUME NEW j \in Jobs, CancelCloneJob(j) PROVE StatusMatches'
  BY <1>18, SameQueue DEF CancelCloneJob, Unfinished, pool, HeldOnce, DownIsEmpty,
     Carriers, Carried
<1>19. ASSUME NEW r \in Repos, schedule(r) PROVE StatusMatches'
  <2>1. CASE UNCHANGED <<rows, queue>>
    BY <1>19, <2>1, SameQueue DEF schedule, pool
  <2>2. ASSUME NEW j \in Jobs, create(j, r), Enqueue(j) PROVE StatusMatches'
    BY <1>19, <2>2, AppendQueue DEF schedule, create, NextId, pool
  <2>3. QED
    BY <1>19, <2>1, <2>2 DEF schedule
<1>20. ASSUME NEW r \in Repos, IntervalElapses(r) PROVE StatusMatches'
  BY <1>20, SameQueue DEF IntervalElapses, pool
<1>21. ASSUME NEW r \in Repos, BackoffElapses(r) PROVE StatusMatches'
  BY <1>21, SameQueue DEF BackoffElapses, pool
<1>22. ASSUME scheduleCloneJobs PROVE StatusMatches'
  BY <1>22, SameQueue DEF scheduleCloneJobs, pool
<1>23. ASSUME loadBusy PROVE StatusMatches'
  BY <1>23, SameQueue DEF loadBusy, pool
<1>24. ASSUME endTick PROVE StatusMatches'
  BY <1>24, SameQueue DEF endTick, pool
<1>25. ASSUME NEW c \in Clients, dispatchJob(c) PROVE StatusMatches'
  <2>1. CASE UNCHANGED <<rows, queue>>
    BY <1>25, <2>1, SameQueue DEF dispatchJob, pool
  <2>2. ASSUME NEW j \in Jobs, create(j, asked[c]), Enqueue(j) PROVE StatusMatches'
    BY <1>25, <2>2, AppendQueue DEF dispatchJob, create, NextId, pool
  <2>3. QED
    BY <1>25, <2>1, <2>2 DEF dispatchJob
<1>26. ASSUME NEW c \in Clients, NEW r \in Repos, CreateCloneJob(c, r) PROVE StatusMatches'
  BY <1>26, SameQueue DEF CreateCloneJob, pool
<1>27. ASSUME Stop PROVE StatusMatches'
  BY <1>27, SameQueue DEF Stop, pool
<1>28. ASSUME setStopping PROVE StatusMatches'
  BY <1>28, SameQueue DEF setStopping, pool
<1>29. ASSUME hardCancel PROVE StatusMatches'
  BY <1>29, SameQueue DEF hardCancel, pool
<1>30. ASSUME exit PROVE StatusMatches'
  BY <1>30, EmptyQueue DEF exit, MemoryLost, ctxDone
<1>31. ASSUME crash PROVE StatusMatches'
  BY <1>31, EmptyQueue DEF crash, MemoryLost
<1>32. ASSUME Start PROVE StatusMatches'
  <2>1. PICK Stale \in SUBSET {j \in Jobs : status[j] \in Unfinished} :
          /\ status' = [j \in Jobs |-> IF j \in Stale THEN "failed" ELSE status[j]]
          /\ toRecover' = {j \in Jobs : status[j] = "pending"} \ Stale
    BY <1>32 DEF Start
  <2>2. /\ Queued' = {} /\ timers' = {}
        /\ \A w \in Workers : pc'[w] = "idle"
    BY <1>32, EmptyQueue DEF Start, DownIsEmpty
  <2>3. QED
    BY <1>32, <2>1, <2>2 DEF Start, Unfinished
<1>33. ASSUME reapOrphanedJobs PROVE StatusMatches'
  BY <1>33, AppendQueue DEF reapOrphanedJobs, Enqueue, pool
<1>34. ASSUME serve PROVE StatusMatches'
  BY <1>34, SameQueue DEF serve, pool
<1>35. QED
  BY <1>1, <1>2, <1>3, <1>4, <1>5, <1>6, <1>7, <1>8, <1>9, <1>10, <1>11, <1>12, <1>13,
     <1>14, <1>15, <1>16, <1>17, <1>18, <1>19, <1>20, <1>21, <1>22, <1>23, <1>24, <1>25,
     <1>26, <1>27, <1>28, <1>29, <1>30, <1>31, <1>32, <1>33, <1>34 DEF Next, WorkerStep

\* Each action keeps the locks: TryLock takes a free one, return gives up
\* one's own, and nobody else touches it.
LEMMA LockStep ==
    ASSUME TypeOK, StatusMatches, LockMatches, [Next]_vars
    PROVE  LockMatches'
<1>. USE DEF Critical, LockMatches, TypeOK, StatusMatches, rows, process
<1>1. CASE UNCHANGED vars
  BY <1>1 DEF vars, pool
<1>2. ASSUME NEW w \in Workers, worker(w) PROVE LockMatches'
  BY <1>2, JobRow DEF worker
<1>3. ASSUME NEW w \in Workers, workerStops(w) PROVE LockMatches'
  BY <1>3, JobRow DEF workerStops, goto
<1>4. ASSUME NEW w \in Workers, admit(w) PROVE LockMatches'
  BY <1>4, JobRow DEF admit, goto
<1>5. ASSUME NEW w \in Workers, refuse(w) PROVE LockMatches'
  BY <1>5, JobRow DEF refuse, UpdateUnlessCancelled, return
<1>6. ASSUME NEW w \in Workers, tryLock(w) PROVE LockMatches'
  <2>1. repoOf[job[w]] \in Repos /\ lock'[repoOf[job[w]]] = w /\ lock[repoOf[job[w]]] \notin Workers
    BY <1>6, JobRow, NullAssumption DEF tryLock
  <2>2. QED
    BY <1>6, <2>1 DEF tryLock
<1>7. ASSUME NEW w \in Workers, deferJob(w) PROVE LockMatches'
  BY <1>7, JobRow DEF deferJob, UpdateUnlessCancelled, return
<1>8. ASSUME NEW w \in Workers, markRunning(w) PROVE LockMatches'
  BY <1>8, JobRow DEF markRunning, UpdateUnlessCancelled, return, goto
<1>9. ASSUME NEW w \in Workers, gitSucceeds(w) PROVE LockMatches'
  BY <1>9, JobRow DEF gitSucceeds, UpdateUnlessCancelled, goto
<1>10. ASSUME NEW w \in Workers, runPostClone(w) PROVE LockMatches'
  BY <1>10, JobRow DEF runPostClone, return
<1>11. ASSUME NEW w \in Workers, gitInterrupted(w) PROVE LockMatches'
  BY <1>11, JobRow DEF gitInterrupted, UpdateUnlessCancelled, return, ctxDone
<1>12. ASSUME NEW w \in Workers, gitFails(w) PROVE LockMatches'
  BY <1>12, JobRow DEF gitFails, UpdateUnlessCancelled, goto, ctxDone
<1>13. ASSUME NEW w \in Workers, handleFailure(w) PROVE LockMatches'
  <2>1. /\ pc[w] = "failed" /\ UNCHANGED repoOf
        /\ return(w) \/ goto(w, "retry")
    BY <1>13 DEF handleFailure
  <2>2. \A v \in Workers : pc[v] \in Critical => repoOf[job[v]] \in Repos
    BY JobRow
  <2>3. QED
    BY <2>1, <2>2 DEF return, goto
<1>14. ASSUME NEW w \in Workers, createRetry(w) PROVE LockMatches'
  BY <1>14, JobRow DEF createRetry, create, NextId, return
<1>15. ASSUME NEW w \in Workers, createRetryFails(w) PROVE LockMatches'
  BY <1>15, JobRow DEF createRetryFails, return
<1>16. ASSUME NEW j \in Jobs, enqueueAfter(j) PROVE LockMatches'
  BY <1>16 DEF enqueueAfter, Enqueue, pool
<1>17. ASSUME NEW j \in Jobs, timerStops(j) PROVE LockMatches'
  BY <1>17 DEF timerStops, pool
<1>18. ASSUME NEW j \in Jobs, CancelCloneJob(j) PROVE LockMatches'
  BY <1>18 DEF CancelCloneJob, pool
<1>19. ASSUME NEW r \in Repos, schedule(r) PROVE LockMatches'
  BY <1>19 DEF schedule, create, NextId, Enqueue, pool
<1>20. ASSUME NEW r \in Repos, IntervalElapses(r) PROVE LockMatches'
  BY <1>20 DEF IntervalElapses, pool
<1>21. ASSUME NEW r \in Repos, BackoffElapses(r) PROVE LockMatches'
  BY <1>21 DEF BackoffElapses, pool
<1>22. ASSUME scheduleCloneJobs PROVE LockMatches'
  BY <1>22 DEF scheduleCloneJobs, pool
<1>23. ASSUME loadBusy PROVE LockMatches'
  BY <1>23 DEF loadBusy, pool
<1>24. ASSUME endTick PROVE LockMatches'
  BY <1>24 DEF endTick, pool
<1>25. ASSUME NEW c \in Clients, dispatchJob(c) PROVE LockMatches'
  BY <1>25 DEF dispatchJob, create, NextId, Enqueue, pool
<1>26. ASSUME NEW c \in Clients, NEW r \in Repos, CreateCloneJob(c, r) PROVE LockMatches'
  BY <1>26 DEF CreateCloneJob, pool
<1>27. ASSUME Stop PROVE LockMatches'
  BY <1>27 DEF Stop, pool
<1>28. ASSUME setStopping PROVE LockMatches'
  BY <1>28 DEF setStopping, pool
<1>29. ASSUME hardCancel PROVE LockMatches'
  BY <1>29 DEF hardCancel, pool
<1>30. ASSUME exit PROVE LockMatches'
  BY <1>30 DEF exit, MemoryLost, ctxDone
<1>31. ASSUME crash PROVE LockMatches'
  BY <1>31 DEF crash, MemoryLost
<1>32. ASSUME Start PROVE LockMatches'
  BY <1>32 DEF Start
<1>33. ASSUME reapOrphanedJobs PROVE LockMatches'
  BY <1>33 DEF reapOrphanedJobs, Enqueue, pool
<1>34. ASSUME serve PROVE LockMatches'
  BY <1>34 DEF serve, pool
<1>35. QED
  BY <1>1, <1>2, <1>3, <1>4, <1>5, <1>6, <1>7, <1>8, <1>9, <1>10, <1>11, <1>12, <1>13,
     <1>14, <1>15, <1>16, <1>17, <1>18, <1>19, <1>20, <1>21, <1>22, <1>23, <1>24, <1>25,
     <1>26, <1>27, <1>28, <1>29, <1>30, <1>31, <1>32, <1>33, <1>34 DEF Next, WorkerStep

\* Each action keeps an ended process empty.
LEMMA DownStep ==
    ASSUME TypeOK, DownIsEmpty, [Next]_vars
    PROVE  DownIsEmpty'
<1>. USE DEF DownIsEmpty, TypeOK, process, rows
<1>1. CASE UNCHANGED vars
  BY <1>1 DEF vars, pool, callers
<1>2. ASSUME NEW w \in Workers, worker(w) PROVE DownIsEmpty'
  BY <1>2 DEF worker
<1>3. ASSUME NEW w \in Workers, workerStops(w) PROVE DownIsEmpty'
  BY <1>3 DEF workerStops, goto
<1>4. ASSUME NEW w \in Workers, admit(w) PROVE DownIsEmpty'
  BY <1>4 DEF admit, goto
<1>5. ASSUME NEW w \in Workers, refuse(w) PROVE DownIsEmpty'
  BY <1>5 DEF refuse, return
<1>6. ASSUME NEW w \in Workers, tryLock(w) PROVE DownIsEmpty'
  BY <1>6 DEF tryLock
<1>7. ASSUME NEW w \in Workers, deferJob(w) PROVE DownIsEmpty'
  BY <1>7 DEF deferJob, return
<1>8. ASSUME NEW w \in Workers, markRunning(w) PROVE DownIsEmpty'
  BY <1>8 DEF markRunning, return, goto
<1>9. ASSUME NEW w \in Workers, gitSucceeds(w) PROVE DownIsEmpty'
  BY <1>9 DEF gitSucceeds, goto
<1>10. ASSUME NEW w \in Workers, runPostClone(w) PROVE DownIsEmpty'
  BY <1>10 DEF runPostClone, return
<1>11. ASSUME NEW w \in Workers, gitInterrupted(w) PROVE DownIsEmpty'
  BY <1>11 DEF gitInterrupted, return, ctxDone
<1>12. ASSUME NEW w \in Workers, gitFails(w) PROVE DownIsEmpty'
  BY <1>12 DEF gitFails, goto, ctxDone
<1>13. ASSUME NEW w \in Workers, handleFailure(w) PROVE DownIsEmpty'
  BY <1>13 DEF handleFailure, return, goto
<1>14. ASSUME NEW w \in Workers, createRetry(w) PROVE DownIsEmpty'
  BY <1>14 DEF createRetry, create, NextId, return
<1>15. ASSUME NEW w \in Workers, createRetryFails(w) PROVE DownIsEmpty'
  BY <1>15 DEF createRetryFails, return
<1>16. ASSUME NEW j \in Jobs, enqueueAfter(j) PROVE DownIsEmpty'
  BY <1>16 DEF enqueueAfter, Enqueue, pool
<1>17. ASSUME NEW j \in Jobs, timerStops(j) PROVE DownIsEmpty'
  BY <1>17 DEF timerStops, pool
<1>18. ASSUME NEW j \in Jobs, CancelCloneJob(j) PROVE DownIsEmpty'
  BY <1>18 DEF CancelCloneJob, pool
<1>19. ASSUME NEW r \in Repos, schedule(r) PROVE DownIsEmpty'
  BY <1>19 DEF schedule, Serving
<1>20. ASSUME NEW r \in Repos, IntervalElapses(r) PROVE DownIsEmpty'
  BY <1>20 DEF IntervalElapses, pool, callers
<1>21. ASSUME NEW r \in Repos, BackoffElapses(r) PROVE DownIsEmpty'
  BY <1>21 DEF BackoffElapses, pool, callers
<1>22. ASSUME scheduleCloneJobs PROVE DownIsEmpty'
  BY <1>22 DEF scheduleCloneJobs, pool
<1>23. ASSUME loadBusy PROVE DownIsEmpty'
  BY <1>23 DEF loadBusy, pool
<1>24. ASSUME endTick PROVE DownIsEmpty'
  BY <1>24 DEF endTick, pool
<1>25. ASSUME NEW c \in Clients, dispatchJob(c) PROVE DownIsEmpty'
  BY <1>25 DEF dispatchJob
<1>26. ASSUME NEW c \in Clients, NEW r \in Repos, CreateCloneJob(c, r) PROVE DownIsEmpty'
  BY <1>26 DEF CreateCloneJob, pool
<1>27. ASSUME Stop PROVE DownIsEmpty'
  BY <1>27 DEF Stop, pool
<1>28. ASSUME setStopping PROVE DownIsEmpty'
  BY <1>28 DEF setStopping, pool
<1>29. ASSUME hardCancel PROVE DownIsEmpty'
  BY <1>29 DEF hardCancel, pool
<1>30. ASSUME exit PROVE DownIsEmpty'
  BY <1>30 DEF exit, MemoryLost, ctxDone
<1>31. ASSUME crash PROVE DownIsEmpty'
  BY <1>31 DEF crash, MemoryLost
<1>32. ASSUME Start PROVE DownIsEmpty'
  BY <1>32 DEF Start
<1>33. ASSUME reapOrphanedJobs PROVE DownIsEmpty'
  BY <1>33 DEF reapOrphanedJobs, Enqueue, pool
<1>34. ASSUME serve PROVE DownIsEmpty'
  BY <1>34 DEF serve, pool
<1>35. QED
  BY <1>1, <1>2, <1>3, <1>4, <1>5, <1>6, <1>7, <1>8, <1>9, <1>10, <1>11, <1>12, <1>13,
     <1>14, <1>15, <1>16, <1>17, <1>18, <1>19, <1>20, <1>21, <1>22, <1>23, <1>24, <1>25,
     <1>26, <1>27, <1>28, <1>29, <1>30, <1>31, <1>32, <1>33, <1>34 DEF Next, WorkerStep

\* A row that is about to be created is held nowhere.
LEMMA NewJob ==
    ASSUME StatusMatches, NEW j \in Jobs, status[j] = "none"
    PROVE  j \notin Queued \cup Carried \cup timers \cup toRecover
BY DEF StatusMatches, Carried, Carriers

\* Each action keeps every job in at most one place.
LEMMA HeldStep ==
    ASSUME TypeOK, StatusMatches, HeldOnce, DownIsEmpty, [Next]_vars
    PROVE  HeldOnce'
<1>. USE DEF HeldOnce, Carriers, Carried, TypeOK, DownIsEmpty, StatusMatches
<1>1. CASE UNCHANGED vars
  BY <1>1, SameQueue DEF vars, rows, process, pool
<1>2. ASSUME NEW w \in Workers, worker(w) PROVE HeldOnce'
  BY <1>2, TakeQueue DEF worker, rows, process, callers
<1>3. ASSUME NEW w \in Workers, workerStops(w) PROVE HeldOnce'
  BY <1>3, SameQueue DEF workerStops, goto, rows, process, callers
<1>4. ASSUME NEW w \in Workers, admit(w) PROVE HeldOnce'
  <2>1. Carriers' \subseteq Carriers /\ \A v \in Carriers' : job'[v] = job[v]
    BY <1>4 DEF admit, goto
  <2>2. UNCHANGED <<queue, timers, toRecover>>
    BY <1>4 DEF admit, process
  <2>3. QED
    BY <2>1, <2>2, SameQueue
<1>5. ASSUME NEW w \in Workers, refuse(w) PROVE HeldOnce'
  BY <1>5, SameQueue DEF refuse, return, process
<1>6. ASSUME NEW w \in Workers, tryLock(w) PROVE HeldOnce'
  BY <1>6, SameQueue DEF tryLock, rows, process, callers
<1>7. ASSUME NEW w \in Workers, deferJob(w) PROVE HeldOnce'
  BY <1>7, SameQueue DEF deferJob, return, process
<1>8. ASSUME NEW w \in Workers, markRunning(w) PROVE HeldOnce'
  <2>1. Carriers' \subseteq Carriers /\ \A v \in Carriers' : job'[v] = job[v]
    BY <1>8 DEF markRunning, return, goto
  <2>2. UNCHANGED <<queue, timers, toRecover>>
    BY <1>8 DEF markRunning, process
  <2>3. QED
    BY <2>1, <2>2, SameQueue
<1>9. ASSUME NEW w \in Workers, gitSucceeds(w) PROVE HeldOnce'
  BY <1>9, SameQueue DEF gitSucceeds, goto, process
<1>10. ASSUME NEW w \in Workers, runPostClone(w) PROVE HeldOnce'
  BY <1>10, SameQueue DEF runPostClone, return, rows, process
<1>11. ASSUME NEW w \in Workers, gitInterrupted(w) PROVE HeldOnce'
  BY <1>11, SameQueue DEF gitInterrupted, return, ctxDone, process
<1>12. ASSUME NEW w \in Workers, gitFails(w) PROVE HeldOnce'
  BY <1>12, SameQueue DEF gitFails, goto, ctxDone, process
<1>13. ASSUME NEW w \in Workers, handleFailure(w) PROVE HeldOnce'
  <2>1. return(w) \/ goto(w, "retry")
    BY <1>13 DEF handleFailure
  <2>2. Carriers' \subseteq Carriers /\ \A v \in Carriers' : job'[v] = job[v]
    BY <2>1 DEF return, goto
  <2>3. UNCHANGED <<queue, timers, toRecover>>
    BY <1>13 DEF handleFailure, process
  <2>4. QED
    BY <2>2, <2>3, SameQueue
<1>14. ASSUME NEW w \in Workers, createRetry(w) PROVE HeldOnce'
  <2>1. PICK j \in Jobs : status[j] = "none" /\ timers' = timers \cup {j}
    BY <1>14 DEF createRetry, create, NextId
  <2>2. j \notin Queued \cup Carried \cup timers \cup toRecover
    BY <2>1, NewJob
  <2>3. Carriers' \subseteq Carriers /\ \A v \in Carriers' : job'[v] = job[v]
    BY <1>14 DEF createRetry, return
  <2>4. UNCHANGED <<queue, toRecover>>
    BY <1>14 DEF createRetry, process
  <2>5. QED
    BY <2>1, <2>2, <2>3, <2>4, SameQueue
<1>15. ASSUME NEW w \in Workers, createRetryFails(w) PROVE HeldOnce'
  BY <1>15, SameQueue DEF createRetryFails, return, rows, process, callers
<1>16. ASSUME NEW j \in Jobs, enqueueAfter(j) PROVE HeldOnce'
  BY <1>16, AppendQueue DEF enqueueAfter, Enqueue, rows, process, pool, callers
<1>17. ASSUME NEW j \in Jobs, timerStops(j) PROVE HeldOnce'
  BY <1>17, SameQueue DEF timerStops, rows, process, pool, callers
<1>18. ASSUME NEW j \in Jobs, CancelCloneJob(j) PROVE HeldOnce'
  BY <1>18, SameQueue DEF CancelCloneJob, process, pool
<1>19. ASSUME NEW r \in Repos, schedule(r) PROVE HeldOnce'
  <2>1. UNCHANGED <<timers, toRecover, pc, job>>
    BY <1>19 DEF schedule, process, pool
  <2>2. CASE UNCHANGED queue
    BY <2>1, <2>2, SameQueue
  <2>3. ASSUME NEW j \in Jobs, create(j, r), Enqueue(j) PROVE HeldOnce'
    <3>1. j \notin Queued \cup Carried \cup timers \cup toRecover
      BY <2>3, NewJob DEF create, NextId
    <3>2. QED
      BY <2>1, <2>3, <3>1, AppendQueue
  <2>4. QED
    BY <1>19, <2>2, <2>3 DEF schedule
<1>20. ASSUME NEW r \in Repos, IntervalElapses(r) PROVE HeldOnce'
  BY <1>20, SameQueue DEF IntervalElapses, rows, process, pool
<1>21. ASSUME NEW r \in Repos, BackoffElapses(r) PROVE HeldOnce'
  BY <1>21, SameQueue DEF BackoffElapses, rows, process, pool
<1>22. ASSUME scheduleCloneJobs PROVE HeldOnce'
  BY <1>22, SameQueue DEF scheduleCloneJobs, rows, process, pool
<1>23. ASSUME loadBusy PROVE HeldOnce'
  BY <1>23, SameQueue DEF loadBusy, rows, repos, process, pool
<1>24. ASSUME endTick PROVE HeldOnce'
  BY <1>24, SameQueue DEF endTick, rows, process, pool
<1>25. ASSUME NEW c \in Clients, dispatchJob(c) PROVE HeldOnce'
  <2>1. UNCHANGED <<timers, toRecover, pc, job>>
    BY <1>25 DEF dispatchJob, process, pool
  <2>2. CASE UNCHANGED queue
    BY <2>1, <2>2, SameQueue
  <2>3. ASSUME NEW j \in Jobs, create(j, asked[c]), Enqueue(j) PROVE HeldOnce'
    <3>1. j \notin Queued \cup Carried \cup timers \cup toRecover
      BY <2>3, NewJob DEF create, NextId
    <3>2. QED
      BY <2>1, <2>3, <3>1, AppendQueue
  <2>4. QED
    BY <1>25, <2>2, <2>3 DEF dispatchJob
<1>26. ASSUME NEW c \in Clients, NEW r \in Repos, CreateCloneJob(c, r) PROVE HeldOnce'
  BY <1>26, SameQueue DEF CreateCloneJob, rows, process, pool
<1>27. ASSUME Stop PROVE HeldOnce'
  BY <1>27, SameQueue DEF Stop, rows, pool, callers
<1>28. ASSUME setStopping PROVE HeldOnce'
  BY <1>28, SameQueue DEF setStopping, rows, pool, callers
<1>29. ASSUME hardCancel PROVE HeldOnce'
  BY <1>29, SameQueue DEF hardCancel, rows, pool, callers
<1>30. ASSUME exit PROVE HeldOnce'
  BY <1>30, EmptyQueue DEF exit, MemoryLost, ctxDone, rows
<1>31. ASSUME crash PROVE HeldOnce'
  BY <1>31, EmptyQueue DEF crash, MemoryLost, rows
<1>32. ASSUME Start PROVE HeldOnce'
  <2>1. Queued' = {} /\ NoRepeat' /\ timers' = {} /\ Carriers' = {}
    BY <1>32, EmptyQueue DEF Start
  <2>2. QED
    BY <2>1
<1>33. ASSUME reapOrphanedJobs PROVE HeldOnce'
  BY <1>33, AppendQueue DEF reapOrphanedJobs, Enqueue, rows, pool, callers
<1>34. ASSUME serve PROVE HeldOnce'
  BY <1>34, SameQueue DEF serve, rows, pool, callers
<1>35. QED
  BY <1>1, <1>2, <1>3, <1>4, <1>5, <1>6, <1>7, <1>8, <1>9, <1>10, <1>11, <1>12, <1>13,
     <1>14, <1>15, <1>16, <1>17, <1>18, <1>19, <1>20, <1>21, <1>22, <1>23, <1>24, <1>25,
     <1>26, <1>27, <1>28, <1>29, <1>30, <1>31, <1>32, <1>33, <1>34 DEF Next, WorkerStep

\* Each action of a process that is not stopping keeps every pending row in
\* some place.
LEMMA PendingStep ==
    ASSUME TypeOK, StatusMatches, HeldOnce, DownIsEmpty, PendingIsHeld, [Next]_vars
    PROVE  PendingIsHeld'
<1>. USE DEF TypeOK, PendingIsHeld, Carriers, Carried, StatusMatches, process, rows
<1>1. CASE UNCHANGED vars
  BY <1>1, SameQueue DEF vars, pool, HeldOnce
<1>2. ASSUME NEW w \in Workers, worker(w) PROVE PendingIsHeld'
  BY <1>2, TakeQueue DEF worker
<1>3. ASSUME NEW w \in Workers, workerStops(w) PROVE PendingIsHeld'
  BY <1>3, SameQueue DEF workerStops, goto
<1>4. ASSUME NEW w \in Workers, admit(w) PROVE PendingIsHeld'
  <2>1. CASE phase \in {"stopping", "cancelled"}
    BY <1>4, <2>1 DEF admit
  <2>2. CASE goto(w, "start")
    BY <1>4, <2>2, SameQueue DEF admit, goto
  <2>3. QED
    BY <1>4, <2>1, <2>2 DEF admit
<1>5. ASSUME NEW w \in Workers, refuse(w) PROVE PendingIsHeld'
  BY <1>5, SameQueue DEF refuse, UpdateUnlessCancelled, return, HeldOnce
<1>6. ASSUME NEW w \in Workers, tryLock(w) PROVE PendingIsHeld'
  BY <1>6, SameQueue DEF tryLock
<1>7. ASSUME NEW w \in Workers, deferJob(w) PROVE PendingIsHeld'
  BY <1>7, SameQueue DEF deferJob, UpdateUnlessCancelled, return, HeldOnce
<1>8. ASSUME NEW w \in Workers, markRunning(w) PROVE PendingIsHeld'
  <2>1. UNCHANGED <<queue, timers, toRecover, phase>>
    BY <1>8 DEF markRunning
  <2>2. \A j \in Jobs : status'[j] = "pending" => status[j] = "pending" /\ j # job[w]
    BY <1>8 DEF markRunning, UpdateUnlessCancelled
  <2>3. Carried \subseteq Carried' \cup {job[w]}
    <3>. HIDE DEF StatusMatches, PendingIsHeld
    <3>. QED
      BY <1>8 DEF markRunning, return, goto
  <2>4. QED
    BY <2>1, <2>2, <2>3, SameQueue
<1>9. ASSUME NEW w \in Workers, gitSucceeds(w) PROVE PendingIsHeld'
  BY <1>9, SameQueue DEF gitSucceeds, UpdateUnlessCancelled, goto, HeldOnce
<1>10. ASSUME NEW w \in Workers, runPostClone(w) PROVE PendingIsHeld'
  BY <1>10, SameQueue DEF runPostClone, return
<1>11. ASSUME NEW w \in Workers, gitInterrupted(w) PROVE PendingIsHeld'
  BY <1>11, SameQueue DEF gitInterrupted, return, ctxDone, HeldOnce
<1>12. ASSUME NEW w \in Workers, gitFails(w) PROVE PendingIsHeld'
  BY <1>12, SameQueue DEF gitFails, UpdateUnlessCancelled, goto, ctxDone, HeldOnce
<1>13. ASSUME NEW w \in Workers, handleFailure(w) PROVE PendingIsHeld'
  <2>1. pc[w] = "failed" /\ (return(w) \/ goto(w, "retry"))
    BY <1>13 DEF handleFailure
  <2>2. UNCHANGED <<queue, timers, toRecover, phase, status>>
    BY <1>13 DEF handleFailure
  <2>3. Carried \subseteq Carried'
    BY <2>1 DEF return, goto
  <2>4. QED
    BY <2>2, <2>3, SameQueue
<1>14. ASSUME NEW w \in Workers, createRetry(w) PROVE PendingIsHeld'
  <2>1. PICK j \in Jobs : create(j, repoOf[job[w]]) /\ timers' = timers \cup {j}
    BY <1>14 DEF createRetry
  <2>2. UNCHANGED <<queue, toRecover, phase>>
    BY <1>14 DEF createRetry
  <2>3. Carried \subseteq Carried'
    BY <1>14 DEF createRetry, return
  <2>4. \A i \in Jobs : status'[i] = "pending" => status[i] = "pending" \/ i = j
    BY <2>1 DEF create
  <2>5. QED
    BY <2>1, <2>2, <2>3, <2>4, SameQueue
<1>15. ASSUME NEW w \in Workers, createRetryFails(w) PROVE PendingIsHeld'
  BY <1>15, SameQueue DEF createRetryFails, return
<1>16. ASSUME NEW j \in Jobs, enqueueAfter(j) PROVE PendingIsHeld'
  BY <1>16, AppendQueue DEF enqueueAfter, Enqueue, pool
<1>17. ASSUME NEW j \in Jobs, timerStops(j) PROVE PendingIsHeld'
  BY <1>17 DEF timerStops, ctxDone
<1>18. ASSUME NEW j \in Jobs, CancelCloneJob(j) PROVE PendingIsHeld'
  BY <1>18, SameQueue DEF CancelCloneJob, pool, HeldOnce
<1>19. ASSUME NEW r \in Repos, schedule(r) PROVE PendingIsHeld'
  BY <1>19, AppendQueue, SameQueue DEF schedule, create, NextId, Enqueue, pool
<1>20. ASSUME NEW r \in Repos, IntervalElapses(r) PROVE PendingIsHeld'
  BY <1>20, SameQueue DEF IntervalElapses, pool
<1>21. ASSUME NEW r \in Repos, BackoffElapses(r) PROVE PendingIsHeld'
  BY <1>21, SameQueue DEF BackoffElapses, pool
<1>22. ASSUME scheduleCloneJobs PROVE PendingIsHeld'
  BY <1>22, SameQueue DEF scheduleCloneJobs, pool
<1>23. ASSUME loadBusy PROVE PendingIsHeld'
  BY <1>23, SameQueue DEF loadBusy, pool
<1>24. ASSUME endTick PROVE PendingIsHeld'
  BY <1>24, SameQueue DEF endTick, pool
<1>25. ASSUME NEW c \in Clients, dispatchJob(c) PROVE PendingIsHeld'
  BY <1>25, AppendQueue, SameQueue DEF dispatchJob, create, NextId, Enqueue, pool
<1>26. ASSUME NEW c \in Clients, NEW r \in Repos, CreateCloneJob(c, r) PROVE PendingIsHeld'
  BY <1>26, SameQueue DEF CreateCloneJob, pool
<1>27. ASSUME Stop PROVE PendingIsHeld'
  BY <1>27, SameQueue DEF Stop, pool
<1>28. ASSUME setStopping PROVE PendingIsHeld'
  BY <1>28, SameQueue DEF setStopping, pool
<1>29. ASSUME hardCancel PROVE PendingIsHeld'
  BY <1>29, SameQueue DEF hardCancel, pool
<1>30. ASSUME exit PROVE PendingIsHeld'
  BY <1>30, EmptyQueue DEF exit, MemoryLost, ctxDone
<1>31. ASSUME crash PROVE PendingIsHeld'
  BY <1>31, EmptyQueue DEF crash, MemoryLost
<1>32. ASSUME Start PROVE PendingIsHeld'
  BY <1>32, SameQueue DEF Start, HeldOnce
<1>33. ASSUME reapOrphanedJobs PROVE PendingIsHeld'
  BY <1>33, AppendQueue DEF reapOrphanedJobs, Enqueue, pool
<1>34. ASSUME serve PROVE PendingIsHeld'
  BY <1>34, SameQueue DEF serve, pool
<1>35. QED
  BY <1>1, <1>2, <1>3, <1>4, <1>5, <1>6, <1>7, <1>8, <1>9, <1>10, <1>11, <1>12, <1>13,
     <1>14, <1>15, <1>16, <1>17, <1>18, <1>19, <1>20, <1>21, <1>22, <1>23, <1>24, <1>25,
     <1>26, <1>27, <1>28, <1>29, <1>30, <1>31, <1>32, <1>33, <1>34 DEF Next, WorkerStep

\* Each action keeps every running row with its worker, crashes aside.
LEMMA RunningStep ==
    ASSUME TypeOK, StatusMatches, DownIsEmpty, RunningIsOwned, [Next]_vars
    PROVE  RunningIsOwned'
<1>. USE DEF TypeOK, RunningIsOwned, StatusMatches, process, rows
<1>1. CASE UNCHANGED vars
  BY <1>1 DEF vars, pool, callers, DownIsEmpty
<1>2. ASSUME NEW w \in Workers, worker(w) PROVE RunningIsOwned'
  BY <1>2 DEF worker
<1>3. ASSUME NEW w \in Workers, workerStops(w) PROVE RunningIsOwned'
  BY <1>3 DEF workerStops, goto
<1>4. ASSUME NEW w \in Workers, admit(w) PROVE RunningIsOwned'
  BY <1>4 DEF admit, goto
<1>5. ASSUME NEW w \in Workers, refuse(w) PROVE RunningIsOwned'
  BY <1>5 DEF refuse, UpdateUnlessCancelled, return, callers, DownIsEmpty
<1>6. ASSUME NEW w \in Workers, tryLock(w) PROVE RunningIsOwned'
  BY <1>6 DEF tryLock
<1>7. ASSUME NEW w \in Workers, deferJob(w) PROVE RunningIsOwned'
  BY <1>7 DEF deferJob, UpdateUnlessCancelled, return, callers, DownIsEmpty
<1>8. ASSUME NEW w \in Workers, markRunning(w) PROVE RunningIsOwned'
  <2>1. pc[w] = "locked" /\ UNCHANGED crashes
    BY <1>8 DEF markRunning
  <2>2. CASE UNCHANGED status /\ return(w)
    BY <2>1, <2>2 DEF return
  <2>3. CASE goto(w, "git")
    <3>1. \A j \in Jobs : status'[j] = "running" => status[j] = "running" \/ j = job[w]
      BY <1>8 DEF markRunning, UpdateUnlessCancelled
    <3>2. QED
      BY <2>1, <2>3, <3>1 DEF goto
  <2>4. QED
    BY <1>8, <2>2, <2>3 DEF markRunning, UpdateUnlessCancelled
<1>9. ASSUME NEW w \in Workers, gitSucceeds(w) PROVE RunningIsOwned'
  BY <1>9 DEF gitSucceeds, UpdateUnlessCancelled, goto, callers, DownIsEmpty
<1>10. ASSUME NEW w \in Workers, runPostClone(w) PROVE RunningIsOwned'
  BY <1>10 DEF runPostClone, return
<1>11. ASSUME NEW w \in Workers, gitInterrupted(w) PROVE RunningIsOwned'
  BY <1>11 DEF gitInterrupted, UpdateUnlessCancelled, return, ctxDone, callers,
     DownIsEmpty
<1>12. ASSUME NEW w \in Workers, gitFails(w) PROVE RunningIsOwned'
  BY <1>12 DEF gitFails, UpdateUnlessCancelled, goto, ctxDone, callers, DownIsEmpty
<1>13. ASSUME NEW w \in Workers, handleFailure(w) PROVE RunningIsOwned'
  BY <1>13 DEF handleFailure, return, goto
<1>14. ASSUME NEW w \in Workers, createRetry(w) PROVE RunningIsOwned'
  BY <1>14 DEF createRetry, create, return
<1>15. ASSUME NEW w \in Workers, createRetryFails(w) PROVE RunningIsOwned'
  BY <1>15 DEF createRetryFails, return
<1>16. ASSUME NEW j \in Jobs, enqueueAfter(j) PROVE RunningIsOwned'
  BY <1>16 DEF enqueueAfter, Enqueue, pool
<1>17. ASSUME NEW j \in Jobs, timerStops(j) PROVE RunningIsOwned'
  BY <1>17 DEF timerStops, pool, ctxDone
<1>18. ASSUME NEW j \in Jobs, CancelCloneJob(j) PROVE RunningIsOwned'
  BY <1>18 DEF CancelCloneJob, pool
<1>19. ASSUME NEW r \in Repos, schedule(r) PROVE RunningIsOwned'
  BY <1>19 DEF schedule, create, Enqueue, pool
<1>20. ASSUME NEW r \in Repos, IntervalElapses(r) PROVE RunningIsOwned'
  BY <1>20 DEF IntervalElapses, pool
<1>21. ASSUME NEW r \in Repos, BackoffElapses(r) PROVE RunningIsOwned'
  BY <1>21 DEF BackoffElapses, pool
<1>22. ASSUME scheduleCloneJobs PROVE RunningIsOwned'
  BY <1>22 DEF scheduleCloneJobs, pool
<1>23. ASSUME loadBusy PROVE RunningIsOwned'
  BY <1>23 DEF loadBusy, pool
<1>24. ASSUME endTick PROVE RunningIsOwned'
  BY <1>24 DEF endTick, pool
<1>25. ASSUME NEW c \in Clients, dispatchJob(c) PROVE RunningIsOwned'
  BY <1>25 DEF dispatchJob, create, Enqueue, pool
<1>26. ASSUME NEW c \in Clients, NEW r \in Repos, CreateCloneJob(c, r) PROVE RunningIsOwned'
  BY <1>26 DEF CreateCloneJob, pool
<1>27. ASSUME Stop PROVE RunningIsOwned'
  BY <1>27 DEF Stop, pool
<1>28. ASSUME setStopping PROVE RunningIsOwned'
  BY <1>28 DEF setStopping, pool
<1>29. ASSUME hardCancel PROVE RunningIsOwned'
  BY <1>29 DEF hardCancel, pool
<1>30. ASSUME exit PROVE RunningIsOwned'
  BY <1>30 DEF exit, ctxDone
<1>31. ASSUME crash PROVE RunningIsOwned'
  BY <1>31 DEF crash
<1>32. ASSUME Start PROVE RunningIsOwned'
  BY <1>32 DEF Start, DownIsEmpty
<1>33. ASSUME reapOrphanedJobs PROVE RunningIsOwned'
  BY <1>33 DEF reapOrphanedJobs, Enqueue, pool
<1>34. ASSUME serve PROVE RunningIsOwned'
  BY <1>34 DEF serve, pool
<1>35. QED
  BY <1>1, <1>2, <1>3, <1>4, <1>5, <1>6, <1>7, <1>8, <1>9, <1>10, <1>11, <1>12, <1>13,
     <1>14, <1>15, <1>16, <1>17, <1>18, <1>19, <1>20, <1>21, <1>22, <1>23, <1>24, <1>25,
     <1>26, <1>27, <1>28, <1>29, <1>30, <1>31, <1>32, <1>33, <1>34 DEF Next, WorkerStep

\* An UPDATE that spares cancelled rows.
LEMMA UpdateRow ==
    ASSUME TypeOK, NEW j \in Jobs, NEW s, UpdateUnlessCancelled(j, s)
    PROVE  \/ status[j] = "cancelled" /\ UNCHANGED status
           \/ status[j] # "cancelled" /\ status' = [status EXCEPT ![j] = s]
BY DEF TypeOK, UpdateUnlessCancelled

\* Every step of the pipeline is a step of the rows' lifecycle, or none.
LEMMA LifecycleStep ==
    ASSUME TypeOK, StatusMatches, [Next]_vars
    PROVE  [Lifecycle!Next]_status
<1>1. CASE UNCHANGED status
  BY <1>1
<1>2. ASSUME NEW w \in Workers, refuse(w) PROVE [Lifecycle!Next]_status
  <2>1. status[job[w]] = "cancelled" \/ status[job[w]] \in Lifecycle!Unfinished
    BY <1>2 DEF refuse, StatusMatches, Lifecycle!Unfinished
  <2>2. UNCHANGED status \/ Lifecycle!Fail(job[w])
    BY <1>2, <2>1, JobRow, UpdateRow DEF refuse, Lifecycle!Fail, Lifecycle!Becomes
  <2>3. QED
    BY <1>2, <2>2, JobRow DEF refuse, Lifecycle!Next
<1>3. ASSUME NEW w \in Workers, deferJob(w) PROVE [Lifecycle!Next]_status
  <2>1. status[job[w]] \in {"pending", "cancelled"} /\ job[w] \in Jobs
    BY <1>3 DEF deferJob, StatusMatches
  <2>2. UNCHANGED status
    BY <1>3, <2>1, UpdateRow DEF deferJob, TypeOK
  <2>3. QED
    BY <2>2
<1>4. ASSUME NEW w \in Workers, markRunning(w) PROVE [Lifecycle!Next]_status
  <2>1. status[job[w]] \in {"pending", "cancelled"} /\ job[w] \in Jobs
    BY <1>4 DEF markRunning, StatusMatches
  <2>2. UNCHANGED status \/ Lifecycle!Run(job[w])
    BY <1>4, <2>1, UpdateRow DEF markRunning, Lifecycle!Run, Lifecycle!Becomes
  <2>3. QED
    BY <2>1, <2>2 DEF Lifecycle!Next
<1>5. ASSUME NEW w \in Workers, NEW s, pc[w] = "git", UpdateUnlessCancelled(job[w], s)
      PROVE  job[w] \in Jobs /\ (UNCHANGED status \/ Lifecycle!Becomes(job[w], {"running"}, s))
  <2>1. status[job[w]] \in {"running", "cancelled"} /\ job[w] \in Jobs
    BY <1>5 DEF StatusMatches
  <2>2. QED
    BY <1>5, <2>1, UpdateRow DEF Lifecycle!Becomes
<1>6. ASSUME NEW w \in Workers, gitSucceeds(w) PROVE [Lifecycle!Next]_status
  BY <1>5, <1>6 DEF gitSucceeds, Lifecycle!Succeed, Lifecycle!Next
<1>7. ASSUME NEW w \in Workers, gitInterrupted(w) PROVE [Lifecycle!Next]_status
  BY <1>5, <1>7 DEF gitInterrupted, Lifecycle!Requeue, Lifecycle!Next
<1>8. ASSUME NEW w \in Workers, gitFails(w) PROVE [Lifecycle!Next]_status
  BY <1>5, <1>8 DEF gitFails, Lifecycle!Fail, Lifecycle!Becomes, Lifecycle!Unfinished,
     Lifecycle!Next
<1>9. ASSUME NEW j \in Jobs, NEW r, create(j, r) PROVE [Lifecycle!Next]_status
  BY <1>9 DEF create, NextId, Lifecycle!Create, Lifecycle!Becomes, Lifecycle!Next
<1>10. ASSUME NEW w \in Workers, createRetry(w) PROVE [Lifecycle!Next]_status
  BY <1>9, <1>10 DEF createRetry
<1>11. ASSUME NEW r \in Repos, schedule(r) PROVE [Lifecycle!Next]_status
  BY <1>1, <1>9, <1>11 DEF schedule, rows
<1>12. ASSUME NEW c \in Clients, dispatchJob(c) PROVE [Lifecycle!Next]_status
  BY <1>1, <1>9, <1>12 DEF dispatchJob, rows
<1>13. ASSUME NEW j \in Jobs, CancelCloneJob(j) PROVE [Lifecycle!Next]_status
  BY <1>13 DEF CancelCloneJob, Unfinished, Lifecycle!Cancel, Lifecycle!Becomes,
     Lifecycle!Unfinished, Lifecycle!Next
<1>14. ASSUME Start PROVE [Lifecycle!Next]_status
  BY <1>14 DEF Start, Unfinished, Lifecycle!Reap, Lifecycle!Unfinished, Lifecycle!Next
<1>15. QED
  <2>1. CASE UNCHANGED vars
    BY <1>1, <2>1 DEF vars, rows
  <2>2. ASSUME NEW w \in Workers, WorkerStep(w) PROVE [Lifecycle!Next]_status
    BY <1>1, <1>2, <1>3, <1>4, <1>6, <1>7, <1>8, <1>10, <2>2 DEF WorkerStep, rows,
       worker, workerStops, admit, tryLock, runPostClone, handleFailure,
       createRetryFails
  <2>3. CASE Stop \/ setStopping \/ hardCancel \/ exit \/ crash \/ reapOrphanedJobs \/ serve
             \/ scheduleCloneJobs \/ loadBusy \/ endTick
    BY <1>1, <2>3 DEF rows, Stop, setStopping, hardCancel, exit, crash,
       reapOrphanedJobs, serve, scheduleCloneJobs, loadBusy, endTick
  <2>4. ASSUME NEW j \in Jobs, enqueueAfter(j) \/ timerStops(j) PROVE [Lifecycle!Next]_status
    BY <1>1, <2>4 DEF rows, enqueueAfter, timerStops
  <2>5. ASSUME NEW r \in Repos, IntervalElapses(r) \/ BackoffElapses(r) PROVE [Lifecycle!Next]_status
    BY <1>1, <2>5 DEF rows, IntervalElapses, BackoffElapses
  <2>6. ASSUME NEW c \in Clients, NEW r \in Repos, CreateCloneJob(c, r) PROVE [Lifecycle!Next]_status
    BY <1>1, <2>6 DEF rows, CreateCloneJob
  <2>7. QED
    BY <1>11, <1>12, <1>13, <1>14, <2>1, <2>2, <2>3, <2>4, <2>5, <2>6 DEF Next

\* Only admit moves a worker into InFlight, and it looks at the phase.
LEMMA AdmissionStep ==
    ASSUME TypeOK, [Next]_vars, NEW v \in Workers,
           phase \in {"stopping", "cancelled"}, pc'[v] \in InFlight
    PROVE  pc[v] \in InFlight
<1> USE DEF InFlight, Critical
<1>1. CASE UNCHANGED pc
  BY <1>1
<1>2. ASSUME NEW w \in Workers, WorkerStep(w) PROVE pc[v] \in InFlight
  <2>1. CASE v = w
    BY <1>2, <2>1 DEF WorkerStep, worker, workerStops, admit, refuse, tryLock, deferJob,
       markRunning, gitSucceeds, runPostClone, gitInterrupted, gitFails, handleFailure,
       createRetry, createRetryFails, goto, TypeOK
  <2>2. CASE v # w
    <3>1. pc'[v] = pc[v]
      BY <1>2, <2>2 DEF WorkerStep, worker, workerStops, admit, refuse, tryLock,
         deferJob, markRunning, gitSucceeds, runPostClone, gitInterrupted, gitFails,
         handleFailure, createRetry, createRetryFails, goto, return, TypeOK
    <3>2. QED
      BY <3>1
  <2>3. QED
    BY <2>1, <2>2
<1>3. CASE exit \/ crash
  BY <1>3 DEF exit, crash, MemoryLost
<1>4. CASE Start
  BY <1>4 DEF Start
<1>5. QED
  <2>1. CASE UNCHANGED vars
    BY <1>1, <2>1 DEF vars, pool
  <2>3. CASE Stop \/ setStopping \/ hardCancel \/ reapOrphanedJobs \/ serve
             \/ scheduleCloneJobs \/ loadBusy \/ endTick
    BY <1>1, <2>3 DEF pool, Stop, setStopping, hardCancel, reapOrphanedJobs, serve,
       scheduleCloneJobs, loadBusy, endTick
  <2>4. ASSUME NEW j \in Jobs, enqueueAfter(j) \/ timerStops(j) \/ CancelCloneJob(j) PROVE pc[v] \in InFlight
    BY <1>1, <2>4 DEF pool, enqueueAfter, timerStops, CancelCloneJob
  <2>5. ASSUME NEW r \in Repos, schedule(r) \/ IntervalElapses(r) \/ BackoffElapses(r) PROVE pc[v] \in InFlight
    BY <1>1, <2>5 DEF pool, schedule, IntervalElapses, BackoffElapses
  <2>6. ASSUME NEW c \in Clients, dispatchJob(c) \/ \E r \in Repos : CreateCloneJob(c, r) PROVE pc[v] \in InFlight
    BY <1>1, <2>6 DEF pool, dispatchJob, CreateCloneJob
  <2>7. QED
    BY <1>2, <1>3, <1>4, <2>1, <2>3, <2>4, <2>5, <2>6 DEF Next

\* The first state satisfies the invariant.
LEMMA Initially == ASSUME Init PROVE IInv
<1>1. TypeOK
  BY RetryAssumption DEF Init, TypeOK, Statuses, Phases, PCs
<1>2. StatusMatches /\ LockMatches /\ DownIsEmpty
  BY DEF Init, StatusMatches, LockMatches, DownIsEmpty, Queued, Critical
<1>3. Custody
  BY DEF Init, Custody, HeldOnce, PendingIsHeld, NoRepeat, Queued, Carried, Carriers
<1>4. RunningIsOwned
  BY DEF Init, RunningIsOwned
<1>5. QED
  BY <1>1, <1>2, <1>3, <1>4 DEF IInv

\* Each action keeps the invariant.
LEMMA InductiveStep == ASSUME IInv, [Next]_vars PROVE IInv'
<1>1. TypeOK /\ StatusMatches /\ LockMatches /\ DownIsEmpty
  BY DEF IInv
<1>2. HeldOnce /\ PendingIsHeld /\ RunningIsOwned
  BY DEF IInv, Custody
<1>3. TypeOK' /\ StatusMatches'
  BY <1>1, <1>2, TypeStep, StatusStep
<1>4. LockMatches' /\ DownIsEmpty'
  BY <1>1, LockStep, DownStep
<1>5. HeldOnce' /\ PendingIsHeld'
  BY <1>1, <1>2, HeldStep, PendingStep
<1>6. RunningIsOwned'
  BY <1>1, <1>2, RunningStep
<1>7. QED
  BY <1>3, <1>4, <1>5, <1>6 DEF IInv, Custody

\* The inductive invariant holds throughout.
THEOREM InductiveInvariant == Spec => []IInv
<1>1. Init => IInv
  BY Initially
<1>2. IInv /\ [Next]_vars => IInv'
  BY InductiveStep
<1>3. QED
  BY <1>1, <1>2, PTL DEF Spec

\* Rows, queue, locks and workers keep their types.
THEOREM TypeCorrect == Spec => []TypeOK
<1>1. IInv => TypeOK
  BY DEF IInv
<1>2. QED
  BY <1>1, InductiveInvariant, PTL

\* No two workers are at work on one repository's directory.
THEOREM Exclusion == Spec => []GitExclusion
<1>1. IInv => GitExclusion
  BY DEF IInv, LockMatches, GitExclusion
<1>2. QED
  BY <1>1, InductiveInvariant, PTL

\* No job is held twice, and no pending row is forgotten by a live process.
THEOREM CustodyKept == Spec => []Custody
<1>1. IInv => Custody
  BY DEF IInv
<1>2. QED
  BY <1>1, InductiveInvariant, PTL

\* Without a crash a running row has its worker.
THEOREM RunningOwned == Spec => []RunningIsOwned
<1>1. IInv => RunningIsOwned
  BY DEF IInv
<1>2. QED
  BY <1>1, InductiveInvariant, PTL

\* The pipeline implements the lifecycle of its rows.
THEOREM Refinement == Spec => ImplementsJobLifecycle
<1>1. Init => Lifecycle!Init
  BY DEF Init, Lifecycle!Init
<1>2. IInv /\ [Next]_vars => [Lifecycle!Next]_status
  BY LifecycleStep DEF IInv
<1>3. QED
  BY <1>1, <1>2, InductiveInvariant, PTL DEF Spec, ImplementsJobLifecycle,
     Lifecycle!Spec

\* After Stop has set stopping no job is counted into inflight.
THEOREM NoLateAdmission == Spec => NoAdmissionAfterStop
<1>1. IInv /\ [Next]_vars =>
        [\A w \in Workers : phase \in {"stopping", "cancelled"} /\ pc'[w] \in InFlight
            => pc[w] \in InFlight]_vars
  BY AdmissionStep DEF IInv
<1>2. QED
  BY <1>1, InductiveInvariant, PTL DEF Spec, NoAdmissionAfterStop
=============================================================================
