--------------------------- MODULE WebhookDelivery ---------------------------
(***************************************************************************)
(* Outbound webhook deliveries, internal/services/webhook_service.go: an   *)
(* event is queued for each subscribed webhook on a bounded channel, a     *)
(* pool of workers delivers it with retries, one row of webhook_deliveries *)
(* tells how it went and a metric counts its outcome, while webhooks are   *)
(* edited and deleted and Stop cancels what is in flight.                  *)
(*                                                                         *)
(* A job is one event for one webhook.  Time is abstracted: a request, a   *)
(* backoff and the deadline of a delivery end when they like.              *)
(***************************************************************************)
EXTENDS Naturals, Sequences, FiniteSets

CONSTANTS Jobs,
          Tests,        \* the jobs of TestWebhook; the others are SendEvent's
          Hooks,
          HookOf,       \* HookOf[j]: the webhook of job j
          Workers,
          QueueCap,     \* webhookDeliveryQueueLength
          Attempts,     \* clampAttempts(retry_count)
          MaxEdits,     \* bound: UpdateWebhook requests
          MaxLost,      \* bound: row updates that fail
          NoJob

ASSUME HookOfAssumption == HookOf \in [Jobs -> Hooks]
ASSUME LimitsAssumption == QueueCap \in Nat /\ Attempts \in Nat \ {0}
ASSUME NoJobAssumption == NoJob \notin Jobs

VARIABLES
    hook,      \* hook[h]: its row is "on", "off" (not is_active) or "gone"
    edit,      \* copies of webhook rows UpdateWebhook is about to Save
    edits,     \* UpdateWebhook requests so far
    row,       \* row[j]: the status of j's delivery row, "none" without one
    lost,      \* jobs whose delivery row missed an update that failed
    outcome,   \* outcome[j]: what j added to WebhookDeliveriesTotal
    at,        \* at[j]: where the job is
    queue,     \* s.queue
    phase,     \* "up", "stopping" (s.ctx is cancelled) or "down"
    pc, job, attempt, ok,  \* per worker: deliverWebhook's state
    expired,   \* expired[w]: webhookDeliveryDeadline has passed
    late       \* late[j]: requests of j sent since its webhook was switched off
               \* (a history variable)

config == <<hook, edit, edits>>
records == <<row, lost, outcome>>
locals == <<pc, job, attempt, ok, expired>>
vars == <<config, records, at, queue, phase, locals, late>>

(* "received": admission after the receive is next; "create": the row is   *)
(* next; "reload", "send": before and after reloadWebhook; "sending": the  *)
(* request is out; "sent": its result is to be recorded; "backoff": in the *)
(* select before the next attempt.                                         *)
Delivering == {"create", "reload", "send", "sending", "sent", "backoff"}
PCs == {"idle", "received", "exited"} \cup Delivering
Places == {"new", "found", "refused", "queued", "taken", "done"}
Final == {"success", "failed"}

TypeOK ==
    /\ hook \in [Hooks -> {"on", "off", "gone"}]
    /\ edit \subseteq Hooks \X {"on", "off"} /\ edits \in Nat
    /\ row \in [Jobs -> {"none", "pending"} \cup Final]
    /\ lost \subseteq Jobs /\ outcome \in [Jobs -> Nat]
    /\ at \in [Jobs -> Places]
    /\ queue \in Seq(Jobs) /\ Len(queue) <= QueueCap
    /\ phase \in {"up", "stopping", "down"}
    /\ pc \in [Workers -> PCs] /\ job \in [Workers -> Jobs \cup {NoJob}]
    /\ attempt \in [Workers -> 1..Attempts]
    /\ ok \in [Workers -> BOOLEAN] /\ expired \in [Workers -> BOOLEAN]
    /\ late \in [Jobs -> Nat]

Init ==
    /\ hook = [h \in Hooks |-> "on"] /\ edit = {} /\ edits = 0
    /\ row = [j \in Jobs |-> "none"] /\ lost = {} /\ outcome = [j \in Jobs |-> 0]
    /\ at = [j \in Jobs |-> "new"]
    /\ queue = <<>> /\ phase = "up"
    /\ pc = [w \in Workers |-> "idle"] /\ job = [w \in Workers |-> NoJob]
    /\ attempt = [w \in Workers |-> 1]
    /\ ok = [w \in Workers |-> FALSE] /\ expired = [w \in Workers |-> FALSE]
    /\ late = [j \in Jobs |-> 0]

\* The delivery's context is done: its deadline has passed, or Stop.
ctxDone(w) == phase # "up" \/ expired[w]

-----------------------------------------------------------------------------
(* The senders.                                                            *)

\* SendEvent finds the active webhooks of the event; TestWebhook only wants
\* the webhook to exist.  main stops the clone worker and HTTP, the only
\* callers, before Stop.
SendEvent(j) ==
    /\ phase = "up" /\ at[j] = "new"
    /\ hook[HookOf[j]] \in (IF j \in Tests THEN {"on", "off"} ELSE {"on"})
    /\ at' = [at EXCEPT ![j] = "found"]
    /\ UNCHANGED <<config, records, queue, phase, locals, late>>

\* enqueue: a send that does not block.  TestWebhook reports a full queue to
\* its caller, SendEvent records it.
enqueue(j) ==
    /\ at[j] = "found"
    /\ IF Len(queue) < QueueCap
       THEN /\ queue' = Append(queue, j)
            /\ at' = [at EXCEPT ![j] = "queued"]
       ELSE /\ at' = [at EXCEPT ![j] = IF j \in Tests THEN "done" ELSE "refused"]
            /\ UNCHANGED queue
    /\ UNCHANGED <<config, records, phase, locals, late>>

\* An insert of j's row with status s succeeds, which takes its webhook's row
\* (a plain foreign key), or fails.
insert(j, s) ==
    /\ \/ hook[HookOf[j]] # "gone" /\ row' = [row EXCEPT ![j] = s]
       \/ UNCHANGED row
    /\ UNCHANGED lost

count(j) == outcome' = [outcome EXCEPT ![j] = @ + 1]

\* SendEvent: recordTerminalFailure of a delivery the queue had no room for.
recordDropped(j) ==
    /\ at[j] = "refused"
    /\ insert(j, "failed") /\ count(j)
    /\ at' = [at EXCEPT ![j] = "done"]
    /\ UNCHANGED <<config, queue, phase, locals, late>>

-----------------------------------------------------------------------------
(* A worker.                                                               *)

goto(w, next) ==
    /\ pc' = [pc EXCEPT ![w] = next]
    /\ UNCHANGED <<job, at, attempt, expired>>

\* The worker is done with its job, whose locals go, and waits for the next or
\* leaves.
finish(w, next) ==
    /\ pc' = [pc EXCEPT ![w] = next]
    /\ job' = [job EXCEPT ![w] = NoJob]
    /\ at' = [at EXCEPT ![job[w]] = "done"]
    /\ attempt' = [attempt EXCEPT ![w] = 1]
    /\ expired' = [expired EXCEPT ![w] = FALSE]

receive(w) ==
    /\ pc[w] = "idle" /\ queue # <<>>
    /\ queue' = Tail(queue)
    /\ job' = [job EXCEPT ![w] = Head(queue)]
    /\ at' = [at EXCEPT ![Head(queue)] = "taken"]
    /\ pc' = [pc EXCEPT ![w] = "received"]
    /\ UNCHANGED <<config, records, phase, attempt, ok, expired, late>>

workerExits(w) ==
    /\ pc[w] = "idle" /\ phase = "stopping"
    /\ goto(w, "exited")
    /\ UNCHANGED <<config, records, queue, phase, ok, late>>

\* A job received after Stop is dropped, without a row or a count.
admit(w) ==
    /\ pc[w] = "received"
    /\ IF phase = "up" THEN goto(w, "create") ELSE finish(w, "exited")
    /\ UNCHANGED <<config, records, queue, phase, ok, late>>

\* deliverWebhook: the pending row; a failed insert ends the delivery.
createDelivery(w) ==
    /\ pc[w] = "create"
    /\ insert(job[w], "pending")
    /\ IF row' = row THEN finish(w, "idle") ELSE goto(w, "reload")
    /\ UNCHANGED <<config, outcome, queue, phase, ok, late>>

\* updateDelivery: an error of the update is logged and ignored, the outcome of
\* a terminal update is counted either way.  A row that a purge removed stays so.
updateDelivery(w, s) ==
    LET j == job[w] IN
    /\ \/ /\ row' = [row EXCEPT ![j] = IF @ = "none" THEN @ ELSE s]
          /\ UNCHANGED lost
       \/ /\ Cardinality(lost) < MaxLost
          /\ lost' = lost \cup {j}
          /\ UNCHANGED row
    /\ IF s \in Final THEN count(j) ELSE UNCHANGED outcome

\* deliverWebhook: reloadWebhook before each attempt; a webhook that is gone,
\* switched off (but for a test) or cannot be read ends the delivery.
reloadWebhook(w) ==
    /\ pc[w] = "reload"
    /\ \/ /\ hook[HookOf[job[w]]] \in (IF job[w] \in Tests THEN {"on", "off"} ELSE {"on"})
          /\ goto(w, "send")
          /\ UNCHANGED records
       \/ /\ updateDelivery(w, "failed")
          /\ finish(w, "idle")
    /\ UNCHANGED <<config, queue, phase, ok, late>>

\* attemptDelivery: the request goes out, unless the context is done already or
\* no request can be made (an undecryptable secret, an address refused).
sendRequest(w) ==
    LET j == job[w] IN
    /\ pc[w] = "send"
    /\ \/ /\ ~ctxDone(w)
          /\ goto(w, "sending")
          /\ late' = [late EXCEPT ![j] = IF hook[HookOf[j]] = "on" THEN @ ELSE @ + 1]
          /\ UNCHANGED ok
       \/ /\ goto(w, "sent")
          /\ ok' = [ok EXCEPT ![w] = FALSE]
          /\ UNCHANGED late
    /\ UNCHANGED <<config, records, queue, phase>>

\* attemptDelivery returns: an answer, an error, or the timeout.
response(w) ==
    /\ pc[w] = "sending"
    /\ goto(w, "sent")
    /\ \E success \in BOOLEAN : ok' = [ok EXCEPT ![w] = success]
    /\ UNCHANGED <<config, records, queue, phase, late>>

\* Mutant: an aborted delivery is recorded as such and then goes on.
recordAttemptGoesOn(w) ==
    LET aborted == ~ok[w] /\ ctxDone(w)
        terminal == ok[w] \/ aborted \/ attempt[w] = Attempts IN
    /\ pc[w] = "sent"
    /\ updateDelivery(w, IF ok[w] THEN "success" ELSE IF terminal THEN "failed" ELSE "pending")
    /\ IF terminal /\ ~aborted THEN finish(w, "idle") ELSE goto(w, "backoff")
    /\ ok' = [ok EXCEPT ![w] = FALSE]
    /\ UNCHANGED <<config, queue, phase, late>>

\* deliverWebhook: record the attempt; success, a spent budget and a context
\* that is done end the delivery.
recordAttempt(w) ==
    LET aborted == ~ok[w] /\ ctxDone(w)
        terminal == ok[w] \/ aborted \/ attempt[w] = Attempts IN
    /\ pc[w] = "sent"
    /\ updateDelivery(w, IF ok[w] THEN "success" ELSE IF terminal THEN "failed" ELSE "pending")
    /\ IF terminal THEN finish(w, "idle") ELSE goto(w, "backoff")
    /\ ok' = [ok EXCEPT ![w] = FALSE]
    /\ UNCHANGED <<config, queue, phase, late>>

\* Mutant: the webhook is read once per delivery.
nextAttemptAsBefore(w) ==
    /\ pc[w] = "backoff" /\ attempt[w] < Attempts
    /\ pc' = [pc EXCEPT ![w] = "send"]
    /\ attempt' = [attempt EXCEPT ![w] = @ + 1]
    /\ UNCHANGED <<config, records, at, queue, phase, job, ok, expired, late>>

\* Mutant: the retry is not counted.
nextAttemptUncounted(w) ==
    /\ pc[w] = "backoff" /\ attempt[w] < Attempts
    /\ pc' = [pc EXCEPT ![w] = "reload"]
    /\ UNCHANGED <<config, records, at, queue, phase, job, attempt, ok, expired, late>>

\* deliverWebhook: `case <-timer.C'; the loop's condition holds, recordAttempt
\* has seen to that.
nextAttempt(w) ==
    /\ pc[w] = "backoff" /\ attempt[w] < Attempts
    /\ pc' = [pc EXCEPT ![w] = "reload"]
    /\ attempt' = [attempt EXCEPT ![w] = @ + 1]
    /\ UNCHANGED <<config, records, at, queue, phase, job, ok, expired, late>>

\* Mutant: a delivery aborted in its backoff just returns.
abortRetryQuietly(w) ==
    /\ pc[w] = "backoff" /\ ctxDone(w)
    /\ finish(w, "idle")
    /\ UNCHANGED <<config, records, queue, phase, ok, late>>

\* deliverWebhook: `case <-ctx.Done()'.
abortRetry(w) ==
    /\ pc[w] = "backoff" /\ ctxDone(w)
    /\ updateDelivery(w, "failed")
    /\ finish(w, "idle")
    /\ UNCHANGED <<config, queue, phase, ok, late>>

\* webhookDeliveryDeadline passes.
deadlinePasses(w) ==
    /\ pc[w] \in Delivering \ {"create"} /\ ~expired[w]
    /\ expired' = [expired EXCEPT ![w] = TRUE]
    /\ UNCHANGED <<config, records, at, queue, phase, pc, job, attempt, ok, late>>

worker(w) ==
    \/ receive(w) \/ workerExits(w) \/ admit(w) \/ createDelivery(w)
    \/ reloadWebhook(w) \/ sendRequest(w) \/ response(w) \/ recordAttempt(w)
    \/ nextAttempt(w) \/ abortRetry(w)

-----------------------------------------------------------------------------
(* Webhooks change.                                                        *)

\* A webhook that is switched on again starts a new count of late requests.
setHook(h, s) ==
    /\ hook' = [hook EXCEPT ![h] = s]
    /\ late' = [j \in Jobs |-> IF HookOf[j] = h /\ s = "on" THEN 0 ELSE late[j]]

\* UpdateWebhook: read the row and set is_active on the copy ...
UpdateWebhook(h, s) ==
    /\ phase = "up" /\ edits < MaxEdits
    /\ hook[h] # "gone"
    /\ edit' = edit \cup {<<h, s>>}
    /\ edits' = edits + 1
    /\ UNCHANGED <<hook, records, at, queue, phase, locals, late>>

\* ... and Save it, which inserts the row if it is gone.
saveWebhook(h, s) ==
    /\ <<h, s>> \in edit
    /\ edit' = edit \ {<<h, s>>}
    /\ setHook(h, s)
    /\ UNCHANGED <<edits, records, at, queue, phase, locals>>

\* DeleteWebhook: rejected by the foreign key while it has delivery rows.
DeleteWebhook(h) ==
    /\ phase = "up" /\ hook[h] # "gone"
    /\ \A j \in Jobs : HookOf[j] = h => row[j] = "none"
    /\ setHook(h, "gone")
    /\ UNCHANGED <<edit, edits, records, at, queue, phase, locals>>

\* PermanentDeleteRepository removes its webhooks with their delivery rows.
PurgeWebhook(h) ==
    /\ phase = "up" /\ hook[h] # "gone"
    /\ row' = [j \in Jobs |-> IF HookOf[j] = h THEN "none" ELSE row[j]]
    /\ setHook(h, "gone")
    /\ UNCHANGED <<edit, edits, lost, outcome, at, queue, phase, locals>>

-----------------------------------------------------------------------------
\* Stop: cancel the context ...
Stop ==
    /\ phase = "up"
    /\ \A j \in Jobs : at[j] \notin {"found", "refused"}
    /\ edit = {}
    /\ phase' = "stopping"
    /\ UNCHANGED <<config, records, at, queue, locals, late>>

\* ... wait for the workers and count what is still queued as failed.
stopReturns ==
    /\ phase = "stopping"
    /\ \A w \in Workers : pc[w] = "exited"
    /\ phase' = "down"
    /\ outcome' = [j \in Jobs |-> IF at[j] = "queued" THEN outcome[j] + 1 ELSE outcome[j]]
    /\ UNCHANGED <<config, row, lost, at, queue, locals, late>>

Next ==
    \/ \E j \in Jobs : SendEvent(j) \/ enqueue(j) \/ recordDropped(j)
    \/ \E w \in Workers : worker(w) \/ deadlinePasses(w)
    \/ \E h \in Hooks : \/ DeleteWebhook(h) \/ PurgeWebhook(h)
                        \/ \E s \in {"on", "off"} : UpdateWebhook(h, s) \/ saveWebhook(h, s)
    \/ Stop \/ stopReturns

Spec == Init /\ [][Next]_vars

\* Workers run: a request ends by its timeout, a backoff by its timer, and
\* stopReturns is the end of a wait.  Nothing is assumed of senders, editors,
\* the deadline and Stop.
FairSpec ==
    /\ Spec
    /\ \A w \in Workers : WF_vars(worker(w))
    /\ WF_vars(stopReturns)

-----------------------------------------------------------------------------
(* Retries, aborts, drops and Stop never count a delivery twice, and a     *)
(* row that is final was counted.                                          *)
CountedOnce ==
    \A j \in Jobs : outcome[j] <= 1 /\ (row[j] \in Final => outcome[j] = 1)

(* "A single evolving record that ends in a terminal status"               *)
(* (deliverWebhook): when Stop has returned no row is left pending but one *)
(* whose update the database refused.                                      *)
NothingPendingAfterStop ==
    phase = "down" => \A j \in Jobs : row[j] = "pending" => j \in lost

(* "Disabling or deleting it takes effect for queued and retrying          *)
(* deliveries too" (deliverWebhook): of a delivery, only the request that  *)
(* was on its way when the webhook was switched off still goes out.  A     *)
(* test may go to a webhook that is off.                                   *)
NoLateRetry == \A j \in Jobs \ Tests : late[j] <= 1

(* A row that says success or failed says so for good.                     *)
RowsAreFinal ==
    [][\A j \in Jobs : row[j] \in Final => row'[j] \in {row[j], "none"}]_vars

(* Every delivery ends, by its budget or by an abort.                      *)
DeliveryEnds == \A j \in Jobs : at[j] = "taken" ~> at[j] = "done"

(* Stop returns: no request or backoff keeps a worker for ever.            *)
StopEnds == phase = "stopping" ~> phase = "down"

-----------------------------------------------------------------------------
(* The deliveries live the life of DeliveryLifecycle.  One is open as long *)
(* as a worker is past createDelivery with it, and over when it is done or *)
(* Stop has counted it in the queue.                                       *)

opened(j) == \E w \in Workers : job[w] = j /\ pc[w] \in Delivering \ {"create"}

stage ==
    [j \in Jobs |-> IF opened(j) THEN "open"
                    ELSE IF at[j] = "done" \/ (at[j] = "queued" /\ phase = "down") THEN "over"
                    ELSE "waiting"]

Lifecycle == INSTANCE DeliveryLifecycle

\* Whoever ends a delivery writes its final status and counts it in the same step, once.
ImplementsLifecycle == Lifecycle!Spec

-----------------------------------------------------------------------------
(* The inductive invariant of the proofs.  CountedOnce rests on a job being *)
(* in one place (PlacesMatch) and on what its row and count are there       *)
(* (RowsMatch); NoLateRetry on how late requests come about (LateMatch).    *)

Working == {"received"} \cup Delivering

\* A job is in one place: with its sender, in the queue once, with one worker,
\* or done.
PlacesMatch ==
    /\ \A w \in Workers : pc[w] \in Working <=> job[w] # NoJob
    /\ \A w \in Workers : job[w] # NoJob => at[job[w]] = "taken"
    /\ \A w, v \in Workers : job[w] = job[v] /\ job[w] # NoJob => w = v
    /\ \A i \in 1..Len(queue) : at[queue[i]] = "queued"
    /\ \A i, k \in 1..Len(queue) : queue[i] = queue[k] => i = k
    /\ phase # "up" => \A j \in Jobs : at[j] \notin {"found", "refused"}
    /\ phase = "down" => \A w \in Workers : pc[w] = "exited"

Unstarted == {"new", "found", "refused", "queued"}

\* What row and count of a job are in each place.
RowsMatch ==
    /\ \A j \in Jobs :
         /\ outcome[j] <= 1
         /\ row[j] \in Final => outcome[j] = 1
         /\ at[j] \in Unstarted => row[j] = "none"
         /\ at[j] \in {"new", "found", "refused", "taken"} => outcome[j] = 0
         /\ at[j] = "queued" /\ phase # "down" => outcome[j] = 0
         /\ row[j] = "pending" =>
              j \in lost \/ \E w \in Workers : job[w] = j /\ pc[w] \in Delivering \ {"create"}
    /\ \A w \in Workers : pc[w] \in {"received", "create"} => row[job[w]] = "none"

\* A request is late only between reloadWebhook and the switching off.
LateMatch ==
    \A j \in Jobs \ Tests :
        /\ late[j] <= 1
        /\ hook[HookOf[j]] = "on" => late[j] = 0
        /\ \A w \in Workers : job[w] = j /\ pc[w] = "send" => late[j] = 0

IInv == TypeOK /\ PlacesMatch /\ RowsMatch /\ LateMatch
=============================================================================
