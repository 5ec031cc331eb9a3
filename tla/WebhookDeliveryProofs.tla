----------------------- MODULE WebhookDeliveryProofs -----------------------
(***************************************************************************)
(* Proof that a delivery is counted at most once, that its final row is    *)
(* final, that Stop leaves no row pending and that a webhook that is off   *)
(* gets no retry, for any jobs, webhooks, workers and limits.              *)
(*                                                                         *)
(* The deliveries then implement DeliveryLifecycle: a job tells the stage  *)
(* of its delivery by where it is.                                         *)
(*                                                                         *)
(* A worker moves a job by goto and finish only, and every write to a row  *)
(* is insert or updateDelivery: lemmas about these carry the actions.      *)
(***************************************************************************)
EXTENDS WebhookDelivery, TLAPS

\* Nothing has happened yet.
LEMMA InitIInv == Init => IInv
<1>. SUFFICES ASSUME Init PROVE IInv
  OBVIOUS
<1>1. TypeOK
  BY LimitsAssumption DEF Init, TypeOK, PCs, Places, Final
<1>2. PlacesMatch
  BY DEF Init, PlacesMatch, Working, Delivering
<1>3. RowsMatch /\ LateMatch
  BY DEF Init, RowsMatch, LateMatch, Unstarted, Final, Delivering
<1>. QED
  BY <1>1, <1>2, <1>3 DEF IInv

-----------------------------------------------------------------------------
(* Types.                                                                  *)

\* What goto and finish do to the types of a worker's variables.
LEMMA MoveType ==
    ASSUME TypeOK, NEW w \in Workers, NEW next \in PCs,
           goto(w, next) \/ (job[w] \in Jobs /\ finish(w, next))
    PROVE  /\ at' \in [Jobs -> Places] /\ pc' \in [Workers -> PCs]
           /\ job' \in [Workers -> Jobs \cup {NoJob}]
           /\ attempt' \in [Workers -> 1..Attempts] /\ expired' \in [Workers -> BOOLEAN]
<1>1. CASE goto(w, next)
  BY <1>1 DEF TypeOK, goto
<1>2. CASE job[w] \in Jobs /\ finish(w, next)
  <2>1. 1 \in 1..Attempts
    BY LimitsAssumption
  <2>. QED
    BY <1>2, <2>1 DEF TypeOK, finish, Places
<1>. QED
  BY <1>1, <1>2

\* A count is a natural number.
LEMMA CountType ==
    ASSUME TypeOK, NEW j \in Jobs, count(j)
    PROVE  outcome' \in [Jobs -> Nat]
<1>1. outcome \in [Jobs -> Nat] /\ outcome[j] + 1 \in Nat
  BY DEF TypeOK
<1>. QED
  BY <1>1 DEF count

\* updateDelivery keeps the types of the records.
LEMMA UpdateType ==
    ASSUME TypeOK, NEW w \in Workers, job[w] \in Jobs,
           NEW s \in {"pending"} \cup Final, updateDelivery(w, s)
    PROVE  row' \in [Jobs -> {"none", "pending"} \cup Final] /\ lost' \subseteq Jobs
           /\ outcome' \in [Jobs -> Nat]
<1>1. ASSUME NEW j \in Jobs, count(j) PROVE outcome' \in [Jobs -> Nat]
  BY <1>1, CountType
<1>2. row' \in [Jobs -> {"none", "pending"} \cup Final] /\ lost' \subseteq Jobs
  BY DEF TypeOK, updateDelivery
<1>. QED
  BY <1>1, <1>2 DEF TypeOK, updateDelivery

\* A worker that is at work has a job.
LEMMA HasJob ==
    ASSUME TypeOK, PlacesMatch, NEW w \in Workers, pc[w] \in Working
    PROVE  job[w] \in Jobs
BY DEF TypeOK, PlacesMatch

\* Every step keeps the types.
LEMMA TypeStep == IInv /\ [Next]_vars => TypeOK'
<1>. SUFFICES ASSUME IInv, [Next]_vars PROVE TypeOK'
  OBVIOUS
<1>. USE DEF IInv
<1>1. ASSUME NEW j \in Jobs, SendEvent(j) \/ enqueue(j) \/ recordDropped(j) PROVE TypeOK'
  <2>1. CASE SendEvent(j)
    BY <2>1 DEF SendEvent, TypeOK, Places, config, records, locals
  <2>2. CASE enqueue(j)
    <3>1. queue' \in Seq(Jobs) /\ Len(queue') <= QueueCap
      <4>1. Append(queue, j) \in Seq(Jobs) /\ Len(Append(queue, j)) = Len(queue) + 1
        BY DEF TypeOK
      <4>2. queue \in Seq(Jobs) /\ Len(queue) <= QueueCap
        BY DEF TypeOK
      <4>3. CASE Len(queue) < QueueCap /\ queue' = Append(queue, j)
        BY <4>1, <4>2, <4>3, LimitsAssumption
      <4>4. CASE UNCHANGED queue
        BY <4>2, <4>4
      <4>. QED
        BY <2>2, <4>3, <4>4 DEF enqueue
    <3>2. at' \in [Jobs -> Places]
      BY <2>2 DEF enqueue, TypeOK, Places
    <3>. QED
      BY <2>2, <3>1, <3>2 DEF enqueue, TypeOK, config, records, locals
  <2>3. CASE recordDropped(j)
    <3>1. outcome' \in [Jobs -> Nat]
      BY <2>3, CountType DEF recordDropped
    <3>2. row' \in [Jobs -> {"none", "pending"} \cup Final] /\ lost' \subseteq Jobs
      BY <2>3 DEF recordDropped, insert, TypeOK, Final
    <3>. QED
      BY <2>3, <3>1, <3>2 DEF recordDropped, TypeOK, Places, config, locals
  <2>. QED
    BY <1>1, <2>1, <2>2, <2>3
<1>2. ASSUME NEW w \in Workers, worker(w) PROVE TypeOK'
  <2>1. CASE receive(w)
    <3>1. Head(queue) \in Jobs /\ Tail(queue) \in Seq(Jobs) /\ Len(Tail(queue)) <= QueueCap
      BY <2>1, LimitsAssumption DEF receive, TypeOK
    <3>. QED
      BY <2>1, <3>1 DEF receive, TypeOK, PCs, Places, config, records
  <2>2. CASE workerExits(w)
    <3>1. goto(w, "exited")
      BY <2>2 DEF workerExits
    <3>. QED
      BY <2>2, <3>1, MoveType DEF workerExits, TypeOK, PCs, config, records
  <2>3. CASE admit(w)
    <3>1. job[w] \in Jobs
      BY <2>3, HasJob DEF admit, Working
    <3>2. goto(w, "create") \/ finish(w, "exited")
      BY <2>3 DEF admit
    <3>. QED
      BY <2>3, <3>1, <3>2, MoveType DEF admit, TypeOK, PCs, Delivering, config, records
  <2>4. CASE createDelivery(w)
    <3>1. job[w] \in Jobs
      BY <2>4, HasJob DEF createDelivery, Working, Delivering
    <3>2. goto(w, "reload") \/ finish(w, "idle")
      BY <2>4 DEF createDelivery
    <3>3. row' \in [Jobs -> {"none", "pending"} \cup Final] /\ lost' = lost
      BY <2>4, <3>1 DEF createDelivery, insert, TypeOK
    <3>. QED
      BY <2>4, <3>1, <3>2, <3>3, MoveType DEF createDelivery, TypeOK, PCs, Delivering, config
  <2>5. CASE reloadWebhook(w)
    <3>1. job[w] \in Jobs
      BY <2>5, HasJob DEF reloadWebhook, Working, Delivering
    <3>2. CASE goto(w, "send") /\ UNCHANGED records
      BY <2>5, <3>2, MoveType DEF reloadWebhook, TypeOK, PCs, Delivering, config, records
    <3>3. CASE updateDelivery(w, "failed") /\ finish(w, "idle")
      BY <2>5, <3>1, <3>3, MoveType, UpdateType DEF reloadWebhook, TypeOK, PCs, Final, config
    <3>. QED
      BY <2>5, <3>2, <3>3 DEF reloadWebhook
  <2>6. CASE sendRequest(w)
    <3>1. job[w] \in Jobs
      BY <2>6, HasJob DEF sendRequest, Working, Delivering
    <3>2. PICK next \in {"sending", "sent"} : goto(w, next)
      BY <2>6 DEF sendRequest
    <3>3. ok' \in [Workers -> BOOLEAN]
      BY <2>6 DEF sendRequest, TypeOK
    <3>4. late' \in [Jobs -> Nat]
      <4>1. late \in [Jobs -> Nat] /\ late[job[w]] + 1 \in Nat
        BY <3>1 DEF TypeOK
      <4>. QED
        BY <2>6, <3>1, <4>1 DEF sendRequest
    <3>. QED
      BY <2>6, <3>2, <3>3, <3>4, MoveType
         DEF sendRequest, TypeOK, PCs, Delivering, config, records
  <2>7. CASE response(w)
    <3>1. goto(w, "sent") /\ ok' \in [Workers -> BOOLEAN]
      BY <2>7 DEF response, TypeOK
    <3>. QED
      BY <2>7, <3>1, MoveType DEF response, TypeOK, PCs, Delivering, config, records
  <2>8. CASE recordAttempt(w)
    <3>1. job[w] \in Jobs
      BY <2>8, HasJob DEF recordAttempt, Working, Delivering
    <3>2. finish(w, "idle") \/ goto(w, "backoff")
      BY <2>8 DEF recordAttempt
    <3>3. PICK s \in {"pending"} \cup Final : updateDelivery(w, s)
      BY <2>8 DEF recordAttempt, Final
    <3>4. ok' \in [Workers -> BOOLEAN]
      BY <2>8 DEF recordAttempt, TypeOK
    <3>. QED
      BY <2>8, <3>1, <3>2, <3>3, <3>4, MoveType, UpdateType
         DEF recordAttempt, TypeOK, PCs, Delivering, config
  <2>9. CASE nextAttempt(w)
    BY <2>9, LimitsAssumption DEF nextAttempt, TypeOK, PCs, Delivering, config, records
  <2>10. CASE abortRetry(w)
    <3>1. job[w] \in Jobs
      BY <2>10, HasJob DEF abortRetry, Working, Delivering
    <3>. QED
      BY <2>10, <3>1, MoveType, UpdateType DEF abortRetry, TypeOK, PCs, Final, config
  <2>. QED
    BY <1>2, <2>1, <2>2, <2>3, <2>4, <2>5, <2>6, <2>7, <2>8, <2>9, <2>10 DEF worker
<1>3. ASSUME NEW w \in Workers, deadlinePasses(w) PROVE TypeOK'
  BY <1>3 DEF deadlinePasses, TypeOK, config, records
<1>4. ASSUME NEW h \in Hooks, DeleteWebhook(h) \/ PurgeWebhook(h) PROVE TypeOK'
  BY <1>4 DEF DeleteWebhook, PurgeWebhook, setHook, TypeOK, records, locals
<1>5. ASSUME NEW h \in Hooks, NEW s \in {"on", "off"},
             UpdateWebhook(h, s) \/ saveWebhook(h, s)
      PROVE  TypeOK'
  BY <1>5 DEF UpdateWebhook, saveWebhook, setHook, TypeOK, records, locals
<1>6. CASE Stop
  BY <1>6 DEF Stop, TypeOK, config, records, locals
<1>7. CASE stopReturns
  BY <1>7 DEF stopReturns, TypeOK, config, locals
<1>8. CASE UNCHANGED vars
  BY <1>8 DEF vars, TypeOK, config, records, locals
<1>. QED
  BY <1>1, <1>2, <1>3, <1>4, <1>5, <1>6, <1>7, <1>8 DEF Next

-----------------------------------------------------------------------------
(* Places.                                                                 *)

\* A worker that goes on with its job leaves every job where it is.
LEMMA GotoPlaces ==
    ASSUME TypeOK, PlacesMatch, NEW w \in Workers, NEW next \in Working,
           pc[w] \in Working, goto(w, next), UNCHANGED <<queue, phase>>
    PROVE  PlacesMatch'
<1>1. phase # "down"
  BY DEF PlacesMatch, Working, Delivering
<1>. QED
  BY <1>1 DEF PlacesMatch, TypeOK, goto

\* A worker that is done with its job puts it where nobody has it.
LEMMA FinishPlaces ==
    ASSUME TypeOK, PlacesMatch, NEW w \in Workers, NEW next \in {"idle", "exited"},
           pc[w] \in Working, finish(w, next), UNCHANGED <<queue, phase>>
    PROVE  PlacesMatch'
<1>1. job[w] \in Jobs /\ at[job[w]] = "taken" /\ phase # "down" /\ next \notin Working
  BY HasJob DEF PlacesMatch, Working, Delivering
<1>2. \A i \in 1..Len(queue) : at'[queue[i]] = "queued"
  BY <1>1 DEF PlacesMatch, TypeOK, finish
<1>3. \A v \in Workers : v # w => pc'[v] = pc[v] /\ job'[v] = job[v]
  BY DEF finish, TypeOK
<1>4. pc'[w] = next /\ job'[w] = NoJob
  BY DEF finish, TypeOK
<1>5. \A j \in Jobs : at'[j] = IF j = job[w] THEN "done" ELSE at[j]
  BY DEF finish, TypeOK
<1>6. \A v \in Workers : job'[v] # NoJob => job'[v] \in Jobs /\ job'[v] # job[w]
  <2>1. ASSUME NEW v \in Workers, job'[v] # NoJob PROVE job[v] # NoJob /\ v # w /\ job'[v] = job[v]
    BY <1>3, <1>4, <2>1
  <2>2. job \in [Workers -> Jobs \cup {NoJob}]
    BY DEF TypeOK
  <2>. QED
    BY <2>1, <2>2 DEF PlacesMatch
<1>. QED
  BY <1>1, <1>2, <1>3, <1>4, <1>5, <1>6 DEF PlacesMatch

\* Every step keeps the places.
LEMMA PlacesStep == IInv /\ [Next]_vars => PlacesMatch'
<1>. SUFFICES ASSUME IInv, [Next]_vars PROVE PlacesMatch'
  OBVIOUS
<1>. USE DEF IInv
<1>1. ASSUME NEW j \in Jobs, SendEvent(j) \/ enqueue(j) \/ recordDropped(j) PROVE PlacesMatch'
  <2>1. CASE SendEvent(j)
    BY <2>1 DEF SendEvent, PlacesMatch, TypeOK, locals
  <2>2. CASE enqueue(j)
    <3>1. UNCHANGED <<phase, pc, job>> /\ at[j] = "found"
      BY <2>2 DEF enqueue, locals
    <3>2. CASE queue' = Append(queue, j) /\ at' = [at EXCEPT ![j] = "queued"]
      <4>1. queue \in Seq(Jobs) /\ at \in [Jobs -> Places]
        BY DEF TypeOK
      <4>2. Len(queue') = Len(queue) + 1 /\ Len(queue) \in Nat
            /\ \A i \in 1..Len(queue') : queue'[i] = IF i <= Len(queue) THEN queue[i] ELSE j
        BY <3>2, <4>1
      <4>3. \A i \in 1..Len(queue) : queue[i] # j /\ queue[i] \in Jobs
        BY <3>1, <4>1 DEF PlacesMatch
      <4>4. \A i \in 1..Len(queue') : at'[queue'[i]] = "queued"
        BY <3>2, <4>1, <4>2, <4>3 DEF PlacesMatch
      <4>5. \A i, k \in 1..Len(queue') : queue'[i] = queue'[k] => i = k
        BY <4>2, <4>3 DEF PlacesMatch
      <4>. QED
        BY <3>1, <3>2, <4>1, <4>4, <4>5 DEF PlacesMatch, TypeOK
    <3>3. CASE queue' = queue /\ (at' = [at EXCEPT ![j] = "done"] \/ at' = [at EXCEPT ![j] = "refused"])
      BY <3>1, <3>3 DEF PlacesMatch, TypeOK
    <3>. QED
      BY <2>2, <3>2, <3>3 DEF enqueue
  <2>3. CASE recordDropped(j)
    BY <2>3 DEF recordDropped, PlacesMatch, TypeOK, locals
  <2>. QED
    BY <1>1, <2>1, <2>2, <2>3
<1>2. ASSUME NEW w \in Workers, worker(w) PROVE PlacesMatch'
  <2>. USE DEF Working, Delivering
  <2>1. CASE receive(w)
    <3>. DEFINE j == Head(queue)
    <3>1. queue \in Seq(Jobs) /\ queue # <<>> /\ pc[w] = "idle" /\ UNCHANGED phase
      BY <2>1 DEF receive, TypeOK
    <3>2. j \in Jobs /\ j # NoJob /\ j = queue[1] /\ Len(queue) \in Nat \ {0}
      BY <3>1, NoJobAssumption
    <3>3. Len(queue') = Len(queue) - 1 /\ \A i \in 1..Len(queue') : queue'[i] = queue[i + 1]
      BY <2>1, <3>1 DEF receive
    <3>4. at[j] = "queued" /\ \A v \in Workers : job[v] # j
      BY <3>2 DEF PlacesMatch
    <3>5. at' = [at EXCEPT ![j] = "taken"] /\ pc' = [pc EXCEPT ![w] = "received"]
          /\ job' = [job EXCEPT ![w] = j]
      BY <2>1 DEF receive
    <3>6. \A i \in 1..Len(queue') : queue'[i] # j /\ queue'[i] \in Jobs /\ at[queue'[i]] = "queued"
      <4>1. \A i \in 1..Len(queue') : i + 1 \in 1..Len(queue) /\ i + 1 # 1
        BY <3>2, <3>3
      <4>. QED
        BY <3>1, <3>2, <3>3, <4>1 DEF PlacesMatch
    <3>7. \A i, k \in 1..Len(queue') : queue'[i] = queue'[k] => i = k
      BY <3>2, <3>3 DEF PlacesMatch
    <3>8. \A i \in 1..Len(queue') : at'[queue'[i]] = "queued"
      BY <3>5, <3>6 DEF TypeOK
    <3>. HIDE DEF j
    <3>9. phase # "down"
      BY <3>1 DEF PlacesMatch
    <3>. QED
      BY <3>1, <3>2, <3>4, <3>5, <3>7, <3>8, <3>9 DEF PlacesMatch, TypeOK
  <2>2. CASE workerExits(w)
    BY <2>2 DEF workerExits, goto, PlacesMatch, TypeOK
  <2>3. CASE admit(w)
    BY <2>3, GotoPlaces, FinishPlaces DEF admit
  <2>4. CASE createDelivery(w)
    BY <2>4, GotoPlaces, FinishPlaces DEF createDelivery
  <2>5. CASE reloadWebhook(w)
    BY <2>5, GotoPlaces, FinishPlaces DEF reloadWebhook
  <2>6. CASE sendRequest(w)
    BY <2>6, GotoPlaces DEF sendRequest
  <2>7. CASE response(w)
    BY <2>7, GotoPlaces DEF response
  <2>8. CASE recordAttempt(w)
    BY <2>8, GotoPlaces, FinishPlaces DEF recordAttempt
  <2>9. CASE nextAttempt(w)
    BY <2>9 DEF nextAttempt, PlacesMatch, TypeOK
  <2>10. CASE abortRetry(w)
    BY <2>10, FinishPlaces DEF abortRetry
  <2>. QED
    BY <1>2, <2>1, <2>2, <2>3, <2>4, <2>5, <2>6, <2>7, <2>8, <2>9, <2>10 DEF worker
<1>3. ASSUME NEW w \in Workers, deadlinePasses(w) PROVE PlacesMatch'
  BY <1>3 DEF deadlinePasses, PlacesMatch
<1>4. ASSUME NEW h \in Hooks, DeleteWebhook(h) \/ PurgeWebhook(h) PROVE PlacesMatch'
  BY <1>4 DEF DeleteWebhook, PurgeWebhook, PlacesMatch, locals
<1>5. ASSUME NEW h \in Hooks, NEW s \in {"on", "off"},
             UpdateWebhook(h, s) \/ saveWebhook(h, s)
      PROVE  PlacesMatch'
  BY <1>5 DEF UpdateWebhook, saveWebhook, PlacesMatch, locals
<1>6. CASE Stop
  BY <1>6 DEF Stop, PlacesMatch, locals
<1>7. CASE stopReturns
  BY <1>7 DEF stopReturns, PlacesMatch, locals
<1>8. CASE UNCHANGED vars
  BY <1>8 DEF vars, PlacesMatch, locals
<1>. QED
  BY <1>1, <1>2, <1>3, <1>4, <1>5, <1>6, <1>7, <1>8 DEF Next

-----------------------------------------------------------------------------
(* Rows and counts.                                                        *)

\* A worker that goes on with its job, without a word to its row.
LEMMA GotoRows ==
    ASSUME TypeOK, RowsMatch, NEW w \in Workers, pc[w] \in Working,
           NEW next \in Working, goto(w, next), UNCHANGED <<records, phase>>,
           next \in {"received", "create"} => pc[w] = "received",
           pc[w] \in Delivering \ {"create"} => next \in Delivering \ {"create"}
    PROVE  RowsMatch'
BY DEF RowsMatch, TypeOK, goto, records, Working, Delivering

\* A terminal update: the job's first count, its row final unless it is gone or
\* the update is lost.
LEMMA FinalRows ==
    ASSUME TypeOK, PlacesMatch, RowsMatch, NEW w \in Workers, NEW s \in Final,
           pc[w] \in Delivering \ {"create"},
           updateDelivery(w, s), finish(w, "idle"), UNCHANGED phase
    PROVE  RowsMatch'
<1>. DEFINE j == job[w]
<1>1. j \in Jobs /\ j # NoJob /\ at[j] = "taken" /\ outcome[j] = 0
  BY HasJob DEF PlacesMatch, RowsMatch, Working, Delivering
<1>2. at' = [at EXCEPT ![j] = "done"] /\ job' = [job EXCEPT ![w] = NoJob]
      /\ pc' = [pc EXCEPT ![w] = "idle"] /\ outcome' = [outcome EXCEPT ![j] = @ + 1]
  BY DEF finish, updateDelivery, count
<1>3. \/ row' = [row EXCEPT ![j] = IF @ = "none" THEN @ ELSE s] /\ lost' = lost
      \/ row' = row /\ lost' = lost \cup {j}
  BY DEF updateDelivery
<1>4. \A v \in Workers : v # w => job'[v] = job[v] /\ pc'[v] = pc[v] /\ (job[v] # NoJob => job[v] # j)
  BY <1>1, <1>2 DEF PlacesMatch, TypeOK
<1>. HIDE DEF j
<1>5. ASSUME NEW i \in Jobs \ {j}
      PROVE  UNCHANGED <<row[i], outcome[i], at[i]>> /\ (i \in lost => i \in lost')
  BY <1>1, <1>2, <1>3 DEF TypeOK
<1>6. outcome'[j] = 1 /\ at'[j] = "done" /\ (row'[j] = "pending" => j \in lost')
  BY <1>1, <1>2, <1>3 DEF TypeOK, Final
<1>7. \A v \in Workers : pc'[v] \in {"received", "create"} => row'[job'[v]] = "none"
  <2>. SUFFICES ASSUME NEW v \in Workers, pc'[v] \in {"received", "create"}
               PROVE  row'[job'[v]] = "none"
    OBVIOUS
  <2>1. v # w
    BY <1>2 DEF TypeOK
  <2>2. job'[v] = job[v] /\ pc'[v] = pc[v] /\ job[v] \in Jobs \ {j}
    <3>1. job'[v] = job[v] /\ pc'[v] = pc[v] /\ pc[v] \in Working
      BY <1>4, <2>1 DEF Working, Delivering
    <3>2. job[v] \in Jobs /\ job[v] # NoJob
      BY <3>1, HasJob, NoJobAssumption
    <3>. QED
      BY <1>4, <2>1, <3>1, <3>2
  <2>. QED
    BY <1>5, <2>2 DEF RowsMatch
<1>8. ASSUME NEW i \in Jobs \ {j}, row'[i] = "pending"
      PROVE  i \in lost' \/ \E v \in Workers : job'[v] = i /\ pc'[v] \in Delivering \ {"create"}
  <2>1. i \in lost \/ \E v \in Workers : job[v] = i /\ pc[v] \in Delivering \ {"create"}
    BY <1>5, <1>8 DEF RowsMatch
  <2>2. job[w] # i
    BY <1>8 DEF j
  <2>. QED
    BY <1>4, <1>5, <2>1, <2>2
<1>9. Unstarted \cap {"done", "taken"} = {}
  BY DEF Unstarted
<1>. QED
  BY <1>5, <1>6, <1>7, <1>8, <1>9 DEF RowsMatch

\* An update between two attempts: nothing final, nothing counted.
LEMMA PendingRows ==
    ASSUME TypeOK, PlacesMatch, RowsMatch, NEW w \in Workers,
           pc[w] \in Delivering \ {"create"},
           updateDelivery(w, "pending"), goto(w, "backoff"), UNCHANGED phase
    PROVE  RowsMatch'
<1>. DEFINE j == job[w]
<1>1. j \in Jobs /\ at[j] = "taken"
  BY HasJob, NoJobAssumption DEF PlacesMatch, Working, Delivering
<1>2. UNCHANGED <<at, job, outcome>> /\ pc' = [pc EXCEPT ![w] = "backoff"]
  BY DEF goto, updateDelivery, Final
<1>3. \/ row' = [row EXCEPT ![j] = IF @ = "none" THEN @ ELSE "pending"] /\ lost' = lost
      \/ row' = row /\ lost' = lost \cup {j}
  BY DEF updateDelivery
<1>4. pc'[w] = "backoff" /\ \A v \in Workers : v # w => pc'[v] = pc[v]
  BY <1>2 DEF TypeOK
<1>5. ASSUME NEW v \in Workers, pc'[v] \in {"received", "create"} PROVE row'[job'[v]] = "none"
  <2>1. v # w /\ pc[v] \in {"received", "create"} /\ job[v] \in Jobs
    BY <1>4, <1>5, HasJob DEF Working, Delivering
  <2>2. row[job[v]] = "none"
    BY <2>1 DEF RowsMatch
  <2>. QED
    BY <1>1, <1>2, <1>3, <2>1, <2>2 DEF TypeOK
<1>6. ASSUME NEW i \in Jobs, row'[i] = "pending"
      PROVE  i \in lost' \/ \E v \in Workers : job'[v] = i /\ pc'[v] \in Delivering \ {"create"}
  <2>1. CASE i = j
    BY <1>2, <1>4, <2>1 DEF Delivering
  <2>2. CASE i # j
    <3>1. row[i] = "pending" /\ lost \subseteq lost'
      BY <1>1, <1>3, <1>6, <2>2 DEF TypeOK
    <3>2. i \in lost \/ \E v \in Workers : job[v] = i /\ pc[v] \in Delivering \ {"create"}
      BY <3>1 DEF RowsMatch
    <3>. QED
      BY <1>2, <1>4, <2>2, <3>1, <3>2
  <2>. QED
    BY <2>1, <2>2
<1>. HIDE DEF j
<1>7. \A i \in Jobs : /\ row'[i] \in Final => row[i] \in Final
                      /\ row[i] = "none" => row'[i] = "none"
  BY <1>1, <1>3 DEF TypeOK, Final
<1>. QED
  BY <1>2, <1>5, <1>6, <1>7 DEF RowsMatch

\* A worker that drops its job before it has a row, without a count.
LEMMA DroppedRows ==
    ASSUME TypeOK, PlacesMatch, RowsMatch, NEW w \in Workers, NEW next \in {"idle", "exited"},
           pc[w] \in {"received", "create"},
           finish(w, next), UNCHANGED <<records, phase>>
    PROVE  RowsMatch'
<1>1. job[w] \in Jobs /\ outcome[job[w]] = 0 /\ row[job[w]] = "none"
  BY HasJob, NoJobAssumption DEF PlacesMatch, RowsMatch, Working, Delivering
<1>2. \A i \in Jobs : at'[i] = IF i = job[w] THEN "done" ELSE at[i]
  BY <1>1 DEF finish, TypeOK
<1>3. pc'[w] = next /\ \A v \in Workers : v # w => pc'[v] = pc[v] /\ job'[v] = job[v]
  BY DEF finish, TypeOK
<1>4. "done" \notin Unstarted /\ \A v \in Workers : pc'[v] \in {"received", "create"} => v # w
  BY <1>3 DEF Unstarted
<1>5. ASSUME NEW i \in Jobs, row[i] = "pending"
      PROVE  i \in lost \/ \E v \in Workers : job'[v] = i /\ pc'[v] \in Delivering \ {"create"}
  BY <1>3, <1>5 DEF RowsMatch
<1>. QED
  BY <1>1, <1>2, <1>3, <1>4, <1>5 DEF RowsMatch, records

\* Every step keeps rows and counts.
LEMMA RowsStep == IInv /\ [Next]_vars => RowsMatch'
<1>. SUFFICES ASSUME IInv, [Next]_vars PROVE RowsMatch'
  OBVIOUS
<1>. USE DEF IInv
<1>1. ASSUME NEW j \in Jobs, SendEvent(j) \/ enqueue(j) \/ recordDropped(j) PROVE RowsMatch'
  <2>1. CASE SendEvent(j)
    BY <2>1 DEF SendEvent, RowsMatch, Unstarted, TypeOK, records, locals
  <2>2. CASE enqueue(j)
    <3>1. at[j] = "found" /\ \E p \in {"queued", "done", "refused"} : at' = [at EXCEPT ![j] = p]
      BY <2>2 DEF enqueue
    <3>. QED
      BY <2>2, <3>1 DEF enqueue, RowsMatch, Unstarted, TypeOK, records, locals
  <2>3. CASE recordDropped(j)
    <3>1. row[j] = "none" /\ outcome[j] = 0
      BY <2>3 DEF recordDropped, RowsMatch, Unstarted
    <3>2. at' = [at EXCEPT ![j] = "done"] /\ outcome' = [outcome EXCEPT ![j] = @ + 1]
          /\ UNCHANGED <<lost, phase, pc, job>>
          /\ (row' = [row EXCEPT ![j] = "failed"] \/ row' = row)
      BY <2>3 DEF recordDropped, insert, count, locals
    <3>3. \A w \in Workers : pc[w] \in {"received", "create"} => job[w] # j /\ job[w] \in Jobs
      BY <2>3, HasJob, NoJobAssumption DEF recordDropped, PlacesMatch, Working, Delivering
    <3>4. outcome'[j] = 1 /\ at'[j] = "done" /\ row'[j] \in {"none", "failed"}
      BY <3>1, <3>2 DEF TypeOK
    <3>5. \A i \in Jobs \ {j} : UNCHANGED <<row[i], outcome[i], at[i]>>
      BY <3>2 DEF TypeOK
    <3>6. \A w \in Workers : pc[w] \in {"received", "create"} => row'[job[w]] = "none"
      BY <3>3, <3>5 DEF RowsMatch
    <3>. QED
      BY <3>2, <3>4, <3>5, <3>6 DEF RowsMatch, Unstarted
  <2>. QED
    BY <1>1, <2>1, <2>2, <2>3
<1>2. ASSUME NEW w \in Workers, worker(w) PROVE RowsMatch'
  <2>. USE DEF Working, Delivering
  <2>1. CASE receive(w)
    <3>. DEFINE j == Head(queue)
    <3>1. j \in Jobs /\ at[j] = "queued" /\ phase # "down"
      <4>1. queue \in Seq(Jobs) /\ queue # <<>> /\ pc[w] = "idle"
        BY <2>1 DEF receive, TypeOK
      <4>2. j = queue[1] /\ 1 \in 1..Len(queue) /\ j \in Jobs
        BY <4>1
      <4>. QED
        BY <4>1, <4>2 DEF PlacesMatch
    <3>2. row[j] = "none" /\ outcome[j] = 0
      BY <3>1 DEF RowsMatch, Unstarted
    <3>3. at' = [at EXCEPT ![j] = "taken"] /\ job' = [job EXCEPT ![w] = j]
          /\ pc' = [pc EXCEPT ![w] = "received"] /\ UNCHANGED <<row, lost, outcome, phase>>
      BY <2>1 DEF receive, records
    <3>. HIDE DEF j
    <3>4. pc'[w] = "received" /\ job'[w] = j
          /\ \A v \in Workers : v # w => pc'[v] = pc[v] /\ job'[v] = job[v]
      BY <3>3 DEF TypeOK
    <3>5. pc[w] = "idle"
      BY <2>1 DEF receive
    <3>6. \A i \in Jobs : at'[i] = IF i = j THEN "taken" ELSE at[i]
      BY <3>1, <3>3 DEF TypeOK
    <3>7. "taken" \notin Unstarted
      BY DEF Unstarted
    <3>8. ASSUME NEW i \in Jobs, row[i] = "pending"
          PROVE  i \in lost \/ \E v \in Workers : job'[v] = i /\ pc'[v] \in Delivering \ {"create"}
      BY <3>4, <3>5, <3>8 DEF RowsMatch
    <3>. QED
      BY <3>1, <3>2, <3>3, <3>4, <3>6, <3>7, <3>8 DEF RowsMatch
  <2>2. CASE workerExits(w)
    BY <2>2 DEF workerExits, goto, RowsMatch, TypeOK, records
  <2>3. CASE admit(w)
    BY <2>3, GotoRows, DroppedRows DEF admit
  <2>4. CASE createDelivery(w)
    <3>. DEFINE j == job[w]
    <3>1. j \in Jobs /\ at[j] = "taken" /\ row[j] = "none" /\ pc[w] = "create"
      BY <2>4, HasJob, NoJobAssumption DEF createDelivery, PlacesMatch, RowsMatch
    <3>2. CASE UNCHANGED row
      BY <2>4, <3>2, DroppedRows DEF createDelivery, insert, records
    <3>3. CASE row' = [row EXCEPT ![j] = "pending"] /\ row' # row
      <4>1. pc' = [pc EXCEPT ![w] = "reload"] /\ UNCHANGED <<job, at, lost, outcome, phase>>
        BY <2>4, <3>3 DEF createDelivery, goto, insert
      <4>2. pc'[w] = "reload" /\ \A v \in Workers : v # w => pc'[v] = pc[v]
        BY <4>1 DEF TypeOK
      <4>3. ASSUME NEW v \in Workers, pc'[v] \in {"received", "create"} PROVE row'[job[v]] = "none"
        <5>1. v # w /\ pc[v] \in {"received", "create"} /\ job[v] \in Jobs
          BY <4>2, <4>3, HasJob
        <5>2. job[v] # j /\ row[job[v]] = "none"
          BY <5>1, <3>1, NoJobAssumption DEF PlacesMatch, RowsMatch
        <5>. QED
          BY <3>1, <3>3, <5>1, <5>2 DEF TypeOK
      <4>4. \A i \in Jobs : row'[i] = IF i = j THEN "pending" ELSE row[i]
        BY <3>1, <3>3 DEF TypeOK
      <4>5. ASSUME NEW i \in Jobs, row'[i] = "pending"
            PROVE  i \in lost \/ \E v \in Workers : job[v] = i /\ pc'[v] \in Delivering \ {"create"}
        <5>1. CASE i = j
          BY <4>2, <5>1
        <5>2. CASE i # j
          BY <3>1, <4>2, <4>4, <4>5, <5>2 DEF RowsMatch
        <5>. QED
          BY <5>1, <5>2
      <4>6. "taken" \notin Unstarted /\ "pending" \notin Final
        BY DEF Unstarted, Final
      <4>. HIDE DEF j
      <4>. QED
        BY <3>1, <4>1, <4>3, <4>4, <4>5, <4>6 DEF RowsMatch
    <3>. QED
      BY <2>4, <3>2, <3>3 DEF createDelivery, insert
  <2>5. CASE reloadWebhook(w)
    BY <2>5, GotoRows, FinalRows DEF reloadWebhook, Final
  <2>6. CASE sendRequest(w)
    BY <2>6, GotoRows DEF sendRequest
  <2>7. CASE response(w)
    BY <2>7, GotoRows DEF response
  <2>8. CASE recordAttempt(w)
    BY <2>8, FinalRows, PendingRows DEF recordAttempt, Final
  <2>9. CASE nextAttempt(w)
    BY <2>9 DEF nextAttempt, RowsMatch, TypeOK, records
  <2>10. CASE abortRetry(w)
    BY <2>10, FinalRows DEF abortRetry, Final
  <2>. QED
    BY <1>2, <2>1, <2>2, <2>3, <2>4, <2>5, <2>6, <2>7, <2>8, <2>9, <2>10 DEF worker
<1>3. ASSUME NEW w \in Workers, deadlinePasses(w) PROVE RowsMatch'
  BY <1>3 DEF deadlinePasses, RowsMatch, records
<1>4. ASSUME NEW h \in Hooks, DeleteWebhook(h) PROVE RowsMatch'
  BY <1>4 DEF DeleteWebhook, RowsMatch, records, locals
<1>5. ASSUME NEW h \in Hooks, PurgeWebhook(h) PROVE RowsMatch'
  <2>1. \A j \in Jobs : row'[j] \in {"none", row[j]}
    BY <1>5 DEF PurgeWebhook
  <2>2. \A w \in Workers : pc[w] \in {"received", "create"} => job[w] \in Jobs
    BY HasJob DEF Working, Delivering
  <2>. QED
    BY <1>5, <2>1, <2>2 DEF PurgeWebhook, RowsMatch, Final, locals
<1>6. ASSUME NEW h \in Hooks, NEW s \in {"on", "off"},
             UpdateWebhook(h, s) \/ saveWebhook(h, s)
      PROVE  RowsMatch'
  BY <1>6 DEF UpdateWebhook, saveWebhook, RowsMatch, records, locals
<1>7. CASE Stop
  BY <1>7 DEF Stop, RowsMatch, records, locals
<1>8. CASE stopReturns
  <2>1. \A j \in Jobs : outcome'[j] = IF at[j] = "queued" THEN outcome[j] + 1 ELSE outcome[j]
    BY <1>8 DEF stopReturns
  <2>2. \A j \in Jobs : at[j] = "queued" => outcome[j] = 0 /\ row[j] = "none"
    BY <1>8 DEF stopReturns, RowsMatch, Unstarted
  <2>3. phase' = "down" /\ UNCHANGED <<row, lost, at, pc, job>>
    BY <1>8 DEF stopReturns, locals
  <2>. QED
    BY <2>1, <2>2, <2>3 DEF RowsMatch, Final
<1>9. CASE UNCHANGED vars
  BY <1>9 DEF vars, RowsMatch, records, locals
<1>. QED
  BY <1>1, <1>2, <1>3, <1>4, <1>5, <1>6, <1>7, <1>8, <1>9 DEF Next

-----------------------------------------------------------------------------
(* Late requests.                                                          *)

\* A step of a worker that sends nothing: it comes to "send" by reloadWebhook,
\* which found the webhook on, or not at all.
LEMMA QuietLate ==
    ASSUME TypeOK, LateMatch, NEW w \in Workers, UNCHANGED <<hook, late>>,
           \A v \in Workers \ {w} : UNCHANGED <<pc[v], job[v]>>,
           pc'[w] = "send" /\ job'[w] \notin Tests => hook[HookOf[job'[w]]] = "on"
    PROVE  LateMatch'
BY DEF LateMatch

\* Every step keeps LateMatch.
LEMMA LateStep == IInv /\ [Next]_vars => LateMatch'
<1>. SUFFICES ASSUME IInv, [Next]_vars PROVE LateMatch'
  OBVIOUS
<1>. USE DEF IInv
<1>1. ASSUME NEW j \in Jobs, SendEvent(j) \/ enqueue(j) \/ recordDropped(j) PROVE LateMatch'
  BY <1>1 DEF SendEvent, enqueue, recordDropped, LateMatch, config, locals
<1>2. ASSUME NEW w \in Workers, worker(w) PROVE LateMatch'
  <2>1. CASE sendRequest(w)
    <3>. DEFINE j == job[w]
    <3>1. j \in Jobs /\ j # NoJob
      BY <2>1, HasJob, NoJobAssumption DEF sendRequest, Working, Delivering
    <3>2. UNCHANGED <<hook, job>> /\ pc'[w] # "send" /\ \A v \in Workers : v # w => pc'[v] = pc[v]
      BY <2>1 DEF sendRequest, goto, TypeOK, config
    <3>3. \A i \in Jobs : i # j => late'[i] = late[i]
      BY <2>1, <3>1 DEF sendRequest, TypeOK
    <3>4. late'[j] = late[j] \/ (hook[HookOf[j]] # "on" /\ late'[j] = late[j] + 1)
      BY <2>1, <3>1 DEF sendRequest, TypeOK
    <3>5. j \notin Tests => late[j] = 0
      BY <2>1, <3>1 DEF sendRequest, LateMatch
    <3>6. \A v \in Workers : v # w => job[v] # j
      BY <3>1 DEF PlacesMatch
    <3>. HIDE DEF j
    <3>. QED
      BY <3>1, <3>2, <3>3, <3>4, <3>5, <3>6 DEF LateMatch
  <2>2. ASSUME receive(w) \/ workerExits(w) \/ admit(w) \/ createDelivery(w) \/ response(w)
               \/ recordAttempt(w) \/ nextAttempt(w) \/ abortRetry(w)
        PROVE  LateMatch'
    <3>1. UNCHANGED <<hook, late>>
      BY <2>2 DEF receive, workerExits, admit, createDelivery, response, recordAttempt,
                  nextAttempt, abortRetry, config
    <3>2. pc'[w] # "send" /\ \A v \in Workers \ {w} : UNCHANGED <<pc[v], job[v]>>
      BY <2>2 DEF receive, workerExits, admit, createDelivery, response, recordAttempt,
                  nextAttempt, abortRetry, goto, finish, TypeOK
    <3>. QED
      BY <3>1, <3>2, QuietLate
  <2>3. CASE reloadWebhook(w)
    <3>1. UNCHANGED <<hook, late>>
      BY <2>3 DEF reloadWebhook, config
    <3>2. \A v \in Workers \ {w} : UNCHANGED <<pc[v], job[v]>>
      BY <2>3 DEF reloadWebhook, goto, finish, TypeOK
    <3>3. pc'[w] = "send" /\ job'[w] \notin Tests => hook[HookOf[job'[w]]] = "on"
      BY <2>3 DEF reloadWebhook, goto, finish, TypeOK
    <3>. QED
      BY <3>1, <3>2, <3>3, QuietLate
  <2>. QED
    BY <1>2, <2>1, <2>2, <2>3 DEF worker
<1>3. ASSUME NEW w \in Workers, deadlinePasses(w) PROVE LateMatch'
  BY <1>3 DEF deadlinePasses, LateMatch, config
<1>4. ASSUME NEW h \in Hooks, NEW s \in {"on", "off", "gone"}, setHook(h, s), UNCHANGED <<pc, job>>
      PROVE  LateMatch'
  <2>1. \A j \in Jobs : HookOf[j] \in Hooks
    BY HookOfAssumption
  <2>2. \A j \in Jobs : hook'[HookOf[j]] = IF HookOf[j] = h THEN s ELSE hook[HookOf[j]]
    BY <1>4, <2>1 DEF setHook, TypeOK
  <2>3. \A j \in Jobs : late'[j] = IF HookOf[j] = h /\ s = "on" THEN 0 ELSE late[j]
    BY <1>4 DEF setHook
  <2>. QED
    BY <1>4, <2>2, <2>3 DEF LateMatch
<1>5. ASSUME NEW h \in Hooks, DeleteWebhook(h) \/ PurgeWebhook(h) PROVE LateMatch'
  BY <1>4, <1>5 DEF DeleteWebhook, PurgeWebhook, locals
<1>6. ASSUME NEW h \in Hooks, NEW s \in {"on", "off"}, saveWebhook(h, s) PROVE LateMatch'
  BY <1>4, <1>6 DEF saveWebhook, locals
<1>7. ASSUME NEW h \in Hooks, NEW s \in {"on", "off"}, UpdateWebhook(h, s) PROVE LateMatch'
  BY <1>7 DEF UpdateWebhook, LateMatch, locals
<1>8. CASE Stop \/ stopReturns \/ UNCHANGED vars
  BY <1>8 DEF Stop, stopReturns, vars, LateMatch, config, locals
<1>. QED
  BY <1>1, <1>2, <1>3, <1>5, <1>6, <1>7, <1>8 DEF Next

-----------------------------------------------------------------------------
(* The theorems.                                                           *)

(* IInv holds in every state: each job is in one place, its row and count  *)
(* are what that place allows, and late requests are as LateMatch says.    *)
THEOREM InductiveInvariant == Spec => []IInv
<1>1. IInv /\ [Next]_vars => IInv'
  BY TypeStep, PlacesStep, RowsStep, LateStep DEF IInv
<1>. QED
  BY InitIInv, <1>1, PTL DEF Spec

(* The variables of the delivery keep their types and the queue its bound. *)
THEOREM TypeCorrect == Spec => []TypeOK
<1>1. IInv => TypeOK
  BY DEF IInv
<1>. QED
  BY <1>1, InductiveInvariant, PTL

(* A delivery is counted at most once, however its attempts, the deadline, *)
(* a full queue and Stop fall together; what its row calls final is        *)
(* counted.                                                                *)
THEOREM Counted == Spec => []CountedOnce
<1>1. IInv => CountedOnce
  BY DEF IInv, RowsMatch, CountedOnce
<1>. QED
  BY <1>1, InductiveInvariant, PTL

(* Stop leaves no row pending but those whose update was refused.          *)
THEOREM StopSettles == Spec => []NothingPendingAfterStop
<1>1. IInv => NothingPendingAfterStop
  BY DEF IInv, PlacesMatch, RowsMatch, NothingPendingAfterStop, Delivering
<1>. QED
  BY <1>1, InductiveInvariant, PTL

(* A webhook that is switched off or deleted gets at most the one request  *)
(* of each delivery that was past reloadWebhook.                           *)
THEOREM SwitchedOff == Spec => []NoLateRetry
<1>1. IInv => NoLateRetry
  BY DEF IInv, LateMatch, NoLateRetry
<1>. QED
  BY <1>1, InductiveInvariant, PTL

(* A row that is final keeps its status until it is purged: whoever writes *)
(* it has a job whose row is not final.                                    *)
THEOREM FinalForGood == Spec => RowsAreFinal
<1>. DEFINE Kept == \A j \in Jobs : row[j] \in Final => row'[j] \in {row[j], "none"}
<1>1. ASSUME IInv, Next PROVE Kept
  <2>. USE <1>1 DEF IInv
  <2>1. ASSUME NEW w \in Workers, NEW s \in {"pending"} \cup Final,
               pc[w] \in Delivering \ {"create"}, updateDelivery(w, s)
        PROVE  Kept
    <3>1. job[w] \in Jobs /\ row[job[w]] \notin Final
      BY <2>1, HasJob, NoJobAssumption DEF PlacesMatch, RowsMatch, Working
    <3>. QED
      BY <2>1, <3>1 DEF updateDelivery, TypeOK
  <2>2. ASSUME NEW j \in Jobs, SendEvent(j) \/ enqueue(j) \/ recordDropped(j) PROVE Kept
    <3>1. recordDropped(j) => row[j] = "none"
      BY DEF recordDropped, RowsMatch, Unstarted
    <3>. QED
      BY <2>2, <3>1 DEF SendEvent, enqueue, recordDropped, insert, records, TypeOK, Final
  <2>3. ASSUME NEW w \in Workers, worker(w) PROVE Kept
    <3>1. CASE createDelivery(w)
      <4>1. row[job[w]] = "none"
        BY <3>1 DEF createDelivery, RowsMatch
      <4>. QED
        BY <3>1, <4>1 DEF createDelivery, insert, TypeOK, Final
    <3>2. CASE reloadWebhook(w)
      BY <2>1, <3>2 DEF reloadWebhook, records, Delivering, Final
    <3>3. CASE recordAttempt(w)
      BY <2>1, <3>3 DEF recordAttempt, Delivering, Final
    <3>4. CASE abortRetry(w)
      BY <2>1, <3>4 DEF abortRetry, Delivering, Final
    <3>5. ASSUME receive(w) \/ workerExits(w) \/ admit(w) \/ sendRequest(w) \/ response(w)
                 \/ nextAttempt(w)
          PROVE  Kept
      BY <3>5 DEF receive, workerExits, admit, sendRequest, response, nextAttempt, records
    <3>. QED
      BY <2>3, <3>1, <3>2, <3>3, <3>4, <3>5 DEF worker
  <2>4. ASSUME NEW h \in Hooks, PurgeWebhook(h) PROVE Kept
    BY <2>4 DEF PurgeWebhook
  <2>5. ASSUME UNCHANGED row PROVE Kept
    BY <2>5
  <2>6. ASSUME NEW h \in Hooks,
               DeleteWebhook(h) \/ \E s \in {"on", "off"} : UpdateWebhook(h, s) \/ saveWebhook(h, s)
        PROVE  UNCHANGED row
    BY <2>6 DEF DeleteWebhook, UpdateWebhook, saveWebhook, records
  <2>7. ASSUME Stop \/ stopReturns \/ \E w \in Workers : deadlinePasses(w)
        PROVE  UNCHANGED row
    BY <2>7 DEF Stop, stopReturns, deadlinePasses, records
  <2>. QED
    BY <1>1, <2>2, <2>3, <2>4, <2>5, <2>6, <2>7 DEF Next
<1>2. IInv /\ [Next]_vars => [Kept]_vars
  BY <1>1
<1>. QED
  BY <1>2, InductiveInvariant, PTL DEF Spec, RowsAreFinal

-----------------------------------------------------------------------------
(* The life of a delivery: where a job is tells the stage of its delivery,  *)
(* so that a step of its sender or its worker is one of DeliveryLifecycle.  *)

\* A delivery is open when its worker is past createDelivery.
Stage(step) == IF step \in Delivering \ {"create"} THEN "open" ELSE "waiting"

\* The stage of a worker's job is that of its step.
LEMMA StageOf ==
    ASSUME TypeOK, PlacesMatch, NEW w \in Workers, pc[w] \in Working
    PROVE  job[w] \in Jobs /\ stage[job[w]] = Stage(pc[w])
<1>1. job[w] \in Jobs /\ job[w] # NoJob /\ at[job[w]] = "taken"
  BY HasJob DEF PlacesMatch
<1>2. opened(job[w]) <=> pc[w] \in Delivering \ {"create"}
  BY <1>1 DEF PlacesMatch, opened
<1>. QED
  BY <1>1, <1>2 DEF stage, Stage

\* A worker that goes on with its job moves nobody else's.
LEMMA GotoStage ==
    ASSUME TypeOK, PlacesMatch, NEW w \in Workers, NEW next \in Working,
           pc[w] \in Working, goto(w, next), UNCHANGED phase
    PROVE  stage' = [stage EXCEPT ![job[w]] = Stage(next)]
<1>1. job[w] \in Jobs /\ job[w] # NoJob /\ at[job[w]] = "taken"
  BY HasJob DEF PlacesMatch
<1>2. /\ pc'[w] = next /\ \A v \in Workers : v # w => pc'[v] = pc[v]
      /\ UNCHANGED <<job, at>>
  BY DEF goto, TypeOK
<1>3. \A i \in Jobs : opened(i)' <=> IF i = job[w] THEN next \in Delivering \ {"create"} ELSE opened(i)
  BY <1>1, <1>2 DEF PlacesMatch, opened
<1>. QED
  BY <1>1, <1>2, <1>3 DEF stage, Stage

\* A worker that is done with its job leaves its delivery over.
LEMMA FinishStage ==
    ASSUME TypeOK, PlacesMatch, NEW w \in Workers, NEW next \in {"idle", "exited"},
           pc[w] \in Working, finish(w, next), UNCHANGED phase
    PROVE  stage' = [stage EXCEPT ![job[w]] = "over"]
<1>1. job[w] \in Jobs /\ job[w] # NoJob
  BY HasJob DEF PlacesMatch
<1>2. /\ job'[w] = NoJob /\ at' = [at EXCEPT ![job[w]] = "done"]
      /\ \A v \in Workers : v # w => pc'[v] = pc[v] /\ job'[v] = job[v]
  BY DEF finish, TypeOK
<1>. DEFINE j == job[w]
<1>3. \A v \in Workers : job'[v] # j
  BY <1>1, <1>2 DEF PlacesMatch
<1>4. \A i \in Jobs : opened(i)' <=> i # j /\ opened(i)
  <2>1. \A i \in Jobs : i # j /\ i # NoJob =>
          \A v \in Workers : job'[v] = i /\ pc'[v] \in Delivering \ {"create"}
                          <=> job[v] = i /\ pc[v] \in Delivering \ {"create"}
    BY <1>2
  <2>. QED
    BY <1>3, <2>1, NoJobAssumption DEF opened
<1>5. \A i \in Jobs : at'[i] = IF i = j THEN "done" ELSE at[i]
  BY <1>1, <1>2 DEF TypeOK
<1>. HIDE DEF j
<1>6. stage' = [i \in Jobs |-> IF i = j THEN "over" ELSE stage[i]]
  BY <1>4, <1>5 DEF stage
<1>7. stage' = [stage EXCEPT ![j] = "over"]
  BY <1>6 DEF stage
<1>. QED
  BY <1>7 DEF j

\* A count counts one delivery.
LEMMA CountsOne ==
    ASSUME TypeOK, NEW j \in Jobs, count(j)
    PROVE  Lifecycle!Counts({j})
BY DEF TypeOK, count, Lifecycle!Counts

\* The row of a job that a worker has is not final.
LEMMA UnfinishedRow ==
    ASSUME TypeOK, PlacesMatch, RowsMatch, NEW w \in Workers, pc[w] \in Working
    PROVE  row[job[w]] \in {"none", "pending"}
<1>1. job[w] \in Jobs /\ job[w] # NoJob /\ at[job[w]] = "taken"
  BY HasJob DEF PlacesMatch
<1>2. outcome[job[w]] = 0
  BY <1>1 DEF RowsMatch
<1>3. row[job[w]] \notin Final
  BY <1>1, <1>2 DEF RowsMatch
<1>. QED
  BY <1>1, <1>3 DEF TypeOK

\* The last word of a delivery closes it.
LEMMA Closes ==
    ASSUME IInv, NEW w \in Workers, pc[w] \in Delivering \ {"create"}, UNCHANGED phase,
           NEW s \in Final, updateDelivery(w, s), finish(w, "idle")
    PROVE  Lifecycle!Next
<1>. DEFINE j == job[w]
<1>1. j \in Jobs /\ stage[j] = "open" /\ stage' = [stage EXCEPT ![j] = "over"]
  BY StageOf, FinishStage DEF IInv, Working, Stage
<1>2. row[j] \in {"none", "pending"}
  BY UnfinishedRow DEF IInv, Working
<1>3. Lifecycle!Counts({j})
  BY <1>1, CountsOne DEF IInv, updateDelivery
<1>4. \/ row[j] = "pending" /\ row' = [row EXCEPT ![j] = s] /\ UNCHANGED lost
      \/ row[j] = "none" /\ UNCHANGED <<row, lost>>
      \/ UNCHANGED row /\ lost' = lost \cup {j}
  BY <1>1, <1>2 DEF updateDelivery, IInv, TypeOK
<1>. QED
  BY <1>1, <1>3, <1>4 DEF Lifecycle!Next, Lifecycle!Close, Lifecycle!Comes, Final

\* A worker that gives a job up without a word refuses its delivery.
LEMMA Refuses ==
    ASSUME IInv, NEW w \in Workers, pc[w] \in {"received", "create"}, UNCHANGED <<records, phase>>,
           NEW next \in {"idle", "exited"}, finish(w, next)
    PROVE  Lifecycle!Next
BY StageOf, FinishStage
   DEF IInv, Working, Delivering, Stage, records, Lifecycle!Next, Lifecycle!Refuse, Lifecycle!Comes

\* Where no job moves, and Stop does not return, no delivery does.
LEMMA Rests ==
    ASSUME UNCHANGED <<at, pc, job>>, (phase = "down") = (phase' = "down")
    PROVE  UNCHANGED stage
BY DEF stage, opened

\* Every step is one of a delivery's life, or none.
LEMMA LifecycleStep == IInv /\ [Next]_vars => [Lifecycle!Next]_(Lifecycle!vars)
<1>. SUFFICES ASSUME IInv, [Next]_vars, ~Lifecycle!Next PROVE UNCHANGED Lifecycle!vars
  OBVIOUS
<1>1. TypeOK /\ PlacesMatch /\ RowsMatch
  BY DEF IInv
<1>2. ASSUME UNCHANGED <<stage, records>> PROVE UNCHANGED Lifecycle!vars
  BY <1>2 DEF Lifecycle!vars, records
<1>3. ASSUME NEW w \in Workers, NEW next \in Working, pc[w] \in Working, goto(w, next),
             Stage(next) = Stage(pc[w]), UNCHANGED <<records, phase>>
      PROVE  UNCHANGED Lifecycle!vars
  <2>1. stage[job[w]] = Stage(next) /\ stage' = [stage EXCEPT ![job[w]] = Stage(next)]
    BY <1>1, <1>3, StageOf, GotoStage
  <2>2. UNCHANGED stage
    BY <2>1 DEF stage
  <2>. QED
    BY <1>2, <1>3, <2>2
<1>4. ASSUME NEW j \in Jobs, SendEvent(j) PROVE UNCHANGED Lifecycle!vars
  <2>1. \A i \in Jobs : opened(i)' <=> opened(i)
    BY <1>4 DEF SendEvent, locals, opened
  <2>2. at[j] = "new" /\ at' = [at EXCEPT ![j] = "found"] /\ UNCHANGED <<phase, records>>
    BY <1>4 DEF SendEvent
  <2>3. UNCHANGED stage
    BY <1>1, <2>1, <2>2 DEF stage, TypeOK
  <2>. QED
    BY <1>2, <2>2, <2>3
<1>5. ASSUME NEW j \in Jobs, enqueue(j) \/ recordDropped(j) PROVE UNCHANGED Lifecycle!vars
  <2>1. /\ UNCHANGED phase /\ phase = "up" /\ at[j] \in {"found", "refused"}
        /\ \A i \in Jobs : opened(i)' <=> opened(i)
    BY <1>1, <1>5 DEF enqueue, recordDropped, PlacesMatch, TypeOK, locals, opened
  <2>2. ~opened(j) /\ stage[j] = "waiting"
    <3>1. ~opened(j)
      BY <1>1, <2>1, NoJobAssumption DEF PlacesMatch, opened, Working
    <3>. QED
      BY <2>1, <3>1 DEF stage
  <2>3. ASSUME NEW p \in Places, at' = [at EXCEPT ![j] = p]
        PROVE  stage' = [stage EXCEPT ![j] = IF p = "done" THEN "over" ELSE "waiting"]
    BY <1>1, <2>1, <2>2, <2>3 DEF stage, TypeOK
  <2>4. CASE enqueue(j)
    <3>1. PICK p \in {"queued", "refused", "done"} : at' = [at EXCEPT ![j] = p]
      BY <2>4 DEF enqueue
    <3>2. UNCHANGED records
      BY <2>4 DEF enqueue
    <3>3. CASE p = "done"
      BY <2>2, <2>3, <3>1, <3>2, <3>3
         DEF Places, records, Lifecycle!Next, Lifecycle!Refuse, Lifecycle!Comes
    <3>4. CASE p # "done"
      <4>1. stage' = [stage EXCEPT ![j] = "waiting"]
        BY <2>3, <3>1, <3>4 DEF Places
      <4>2. UNCHANGED stage
        BY <2>2, <4>1 DEF stage
      <4>. QED
        BY <1>2, <3>2, <4>2
    <3>. QED
      BY <3>3, <3>4
  <2>5. CASE recordDropped(j)
    <3>1. stage' = [stage EXCEPT ![j] = "over"]
      BY <2>3, <2>5 DEF recordDropped, Places
    <3>2. row[j] = "none" /\ row' \in {row, [row EXCEPT ![j] = "failed"]} /\ UNCHANGED lost
      BY <1>1, <2>5 DEF recordDropped, insert, RowsMatch, Unstarted
    <3>3. Lifecycle!Counts({j})
      BY <1>1, <2>5, CountsOne DEF recordDropped
    <3>. QED
      BY <2>2, <3>1, <3>2, <3>3 DEF Lifecycle!Next, Lifecycle!Drop, Lifecycle!Comes
  <2>. QED
    BY <1>5, <2>4, <2>5
<1>6. ASSUME NEW w \in Workers, worker(w) PROVE UNCHANGED Lifecycle!vars
  <2>1. CASE receive(w)
    <3>. DEFINE j == Head(queue)
    <3>1. j \in Jobs /\ at[j] = "queued" /\ phase # "down" /\ pc[w] = "idle"
      <4>1. queue \in Seq(Jobs) /\ queue # <<>> /\ pc[w] = "idle"
        BY <1>1, <2>1 DEF receive, TypeOK
      <4>2. j = queue[1] /\ 1 \in 1..Len(queue) /\ j \in Jobs
        BY <4>1
      <4>. QED
        BY <1>1, <4>1, <4>2 DEF PlacesMatch
    <3>2. at' = [at EXCEPT ![j] = "taken"] /\ job' = [job EXCEPT ![w] = j]
          /\ pc' = [pc EXCEPT ![w] = "received"] /\ UNCHANGED <<records, phase>>
      BY <2>1 DEF receive
    <3>. HIDE DEF j
    <3>3. \A i \in Jobs : opened(i)' <=> opened(i)
      BY <1>1, <3>1, <3>2 DEF opened, TypeOK, Delivering
    <3>4. ~opened(j)
      BY <1>1, <3>1, NoJobAssumption DEF opened, PlacesMatch
    <3>5. UNCHANGED stage
      BY <1>1, <3>1, <3>2, <3>3, <3>4 DEF stage, TypeOK
    <3>. QED
      BY <1>2, <3>2, <3>5
  <2>2. CASE workerExits(w)
    <3>1. pc[w] = "idle" /\ pc' = [pc EXCEPT ![w] = "exited"] /\ UNCHANGED <<at, job, phase, records>>
      BY <2>2 DEF workerExits, goto
    <3>2. \A i \in Jobs : opened(i)' <=> opened(i)
      BY <1>1, <3>1 DEF opened, TypeOK, Delivering
    <3>3. UNCHANGED stage
      BY <3>1, <3>2 DEF stage
    <3>. QED
      BY <1>2, <3>1, <3>3
  <2>3. CASE admit(w)
    BY <1>3, <2>3, Refuses DEF admit, Working, Delivering, Stage, records
  <2>4. CASE createDelivery(w)
    <3>. DEFINE j == job[w]
    <3>1. j \in Jobs /\ stage[j] = "waiting" /\ row[j] = "none" /\ pc[w] = "create"
          /\ UNCHANGED <<outcome, lost, phase>>
      BY <1>1, <2>4, StageOf DEF createDelivery, insert, RowsMatch, Working, Delivering, Stage
    <3>2. CASE UNCHANGED row
      BY <2>4, <3>1, <3>2, Refuses DEF createDelivery, records
    <3>3. CASE row' = [row EXCEPT ![j] = "pending"] /\ row' # row
      <4>1. stage' = [stage EXCEPT ![j] = "open"]
        BY <1>1, <2>4, <3>1, <3>3, GotoStage DEF createDelivery, Working, Delivering, Stage
      <4>. QED
        BY <3>1, <3>3, <4>1 DEF Lifecycle!Next, Lifecycle!Open, Lifecycle!Comes
    <3>. QED
      BY <2>4, <3>2, <3>3 DEF createDelivery, insert
  <2>5. CASE reloadWebhook(w)
    BY <1>3, <2>5, Closes DEF reloadWebhook, Working, Delivering, Stage, Final
  <2>6. CASE sendRequest(w)
    BY <1>3, <2>6 DEF sendRequest, Working, Delivering, Stage
  <2>7. CASE response(w)
    BY <1>3, <2>7 DEF response, Working, Delivering, Stage
  <2>8. CASE recordAttempt(w)
    <3>1. pc[w] = "sent" /\ UNCHANGED phase
      BY <2>8 DEF recordAttempt
    <3>2. CASE \E s \in Final : updateDelivery(w, s) /\ finish(w, "idle")
      BY <3>1, <3>2, Closes DEF Delivering
    <3>3. CASE updateDelivery(w, "pending") /\ goto(w, "backoff")
      <4>. DEFINE j == job[w]
      <4>1. j \in Jobs /\ stage[j] = "open" /\ stage' = [stage EXCEPT ![j] = "open"]
        BY <1>1, <3>1, <3>3, StageOf, GotoStage DEF Working, Delivering, Stage
      <4>2. UNCHANGED stage
        BY <4>1 DEF stage
      <4>3. row[j] \in {"none", "pending"}
        BY <1>1, <3>1, UnfinishedRow DEF Working, Delivering
      <4>4. UNCHANGED <<row, outcome>> /\ lost' \in {lost, lost \cup {j}}
        BY <1>1, <3>3, <4>1, <4>3 DEF updateDelivery, TypeOK, Final
      <4>5. CASE UNCHANGED lost
        BY <1>2, <4>2, <4>4, <4>5 DEF records
      <4>6. CASE lost' = lost \cup {j} /\ lost' # lost
        BY <4>1, <4>2, <4>4, <4>6 DEF Lifecycle!Next, Lifecycle!Miss
      <4>. QED
        BY <4>4, <4>5, <4>6
    <3>. QED
      BY <2>8, <3>2, <3>3 DEF recordAttempt, Final
  <2>9. CASE nextAttempt(w)
    <3>1. /\ pc[w] = "backoff" /\ pc' = [pc EXCEPT ![w] = "reload"]
          /\ UNCHANGED <<at, job, phase, records>>
      BY <2>9 DEF nextAttempt
    <3>2. \A i \in Jobs : opened(i)' <=> opened(i)
      BY <1>1, <3>1 DEF opened, TypeOK, Delivering
    <3>3. UNCHANGED stage
      BY <3>1, <3>2 DEF stage
    <3>. QED
      BY <1>2, <3>1, <3>3
  <2>10. CASE abortRetry(w)
    BY <2>10, Closes DEF abortRetry, Delivering, Final
  <2>. QED
    BY <1>6, <2>1, <2>2, <2>3, <2>4, <2>5, <2>6, <2>7, <2>8, <2>9, <2>10 DEF worker
<1>7. ASSUME NEW w \in Workers, deadlinePasses(w) PROVE UNCHANGED Lifecycle!vars
  BY <1>2, <1>7, Rests DEF deadlinePasses
<1>8. ASSUME NEW h \in Hooks, PurgeWebhook(h) PROVE UNCHANGED Lifecycle!vars
  <2>. DEFINE S == {j \in Jobs : HookOf[j] = h}
  <2>1. UNCHANGED <<stage, outcome, lost>>
    BY <1>8, Rests DEF PurgeWebhook, locals
  <2>2. row' = [j \in Jobs |-> IF j \in S THEN "none" ELSE row[j]]
    BY <1>8 DEF PurgeWebhook
  <2>3. CASE S = {}
    <3>1. UNCHANGED row
      BY <1>1, <2>2, <2>3 DEF TypeOK
    <3>. QED
      BY <2>1, <3>1 DEF Lifecycle!vars
  <2>4. CASE S # {}
    BY <2>1, <2>2, <2>4 DEF Lifecycle!Next, Lifecycle!Purge
  <2>. QED
    BY <2>3, <2>4
<1>9. ASSUME NEW h \in Hooks,
             DeleteWebhook(h) \/ \E s \in {"on", "off"} : UpdateWebhook(h, s) \/ saveWebhook(h, s)
      PROVE  UNCHANGED Lifecycle!vars
  <2>1. UNCHANGED <<at, pc, job, phase, records>>
    BY <1>9 DEF DeleteWebhook, UpdateWebhook, saveWebhook, locals
  <2>2. UNCHANGED stage
    BY <2>1, Rests
  <2>. QED
    BY <1>2, <2>1, <2>2
<1>10. CASE Stop \/ UNCHANGED vars
  <2>1. UNCHANGED <<at, pc, job, records>> /\ (phase = "down") = (phase' = "down")
    BY <1>10 DEF Stop, vars, locals
  <2>2. UNCHANGED stage
    BY <2>1, Rests
  <2>. QED
    BY <1>2, <2>1, <2>2
<1>11. CASE stopReturns
  <2>. DEFINE S == {j \in Jobs : at[j] = "queued"}
  <2>1. \A j \in S : ~opened(j) /\ stage[j] = "waiting"
    <3>1. \A j \in Jobs : ~opened(j)
      BY <1>11 DEF stopReturns, opened, Delivering
    <3>. QED
      BY <1>11, <3>1 DEF stopReturns, stage
  <2>2. phase = "stopping" /\ phase' = "down" /\ UNCHANGED <<at, pc, job, row, lost>>
    BY <1>11 DEF stopReturns, locals
  <2>3. \A j \in Jobs : opened(j)' <=> opened(j)
    BY <2>2 DEF opened
  <2>4. stage' = [j \in Jobs |-> IF j \in S THEN "over" ELSE stage[j]]
    BY <2>1, <2>2, <2>3 DEF stage
  <2>5. outcome' = [j \in Jobs |-> IF j \in S THEN outcome[j] + 1 ELSE outcome[j]]
    BY <1>11 DEF stopReturns
  <2>6. CASE S = {}
    <3>1. UNCHANGED <<stage, outcome>>
      BY <1>1, <2>4, <2>5, <2>6 DEF TypeOK, stage
    <3>. QED
      BY <2>2, <3>1 DEF Lifecycle!vars
  <2>7. CASE S # {}
    BY <2>1, <2>2, <2>4, <2>5, <2>7 DEF Lifecycle!Next, Lifecycle!Abandon, Lifecycle!Counts
  <2>. QED
    BY <2>6, <2>7
<1>. QED
  BY <1>4, <1>5, <1>6, <1>7, <1>8, <1>9, <1>10, <1>11 DEF Next

(* The deliveries live the life of DeliveryLifecycle: their rows and counts *)
(* change together and become final once, whoever ends them and whatever   *)
(* is purged, refused or stopped meanwhile.                                *)
THEOREM Refinement == Spec => ImplementsLifecycle
<1>1. Init => Lifecycle!Init
  BY DEF Init, Lifecycle!Init, stage, opened, Delivering
<1>. QED
  BY <1>1, LifecycleStep, InductiveInvariant, PTL DEF Spec, ImplementsLifecycle, Lifecycle!Spec
=============================================================================
