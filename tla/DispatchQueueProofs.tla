------------------------- MODULE DispatchQueueProofs -------------------------
(***************************************************************************)
(* How work reaches the workers, for any constants: the job queue loses no  *)
(* wake-up and is first in, first out; a notification that was answered is  *)
(* served, or too late; and who has work to do finds the services it needs, *)
(* however main starts and stops.                                          *)
(***************************************************************************)
EXTENDS MCDispatchQueue, SequenceTheorems, TLAPS

\* Head and Tail of a concatenation whose first part is not empty.
LEMMA HeadTailOfConcat ==
    ASSUME NEW A, NEW s \in Seq(A), NEW t \in Seq(A), s # <<>>
    PROVE  s \o t # <<>> /\ Head(s \o t) = Head(s) /\ Tail(s \o t) = Tail(s) \o t
<1>1. /\ s \o t \in Seq(A) /\ Len(s \o t) = Len(s) + Len(t)
      /\ \A i \in 1..Len(s) + Len(t) : (s \o t)[i] = IF i <= Len(s) THEN s[i] ELSE t[i - Len(s)]
  BY ConcatProperties
<1>2. Len(s) \in Nat \ {0} /\ Len(t) \in Nat
  BY EmptySeq, LenProperties
<1>3. s \o t # <<>>
  BY <1>1, <1>2, EmptySeq
<1>4. Head(s \o t) = Head(s)
  BY <1>1, <1>2, <1>3
<1>5. /\ Tail(s) \in Seq(A) /\ Len(Tail(s)) = Len(s) - 1
      /\ \A i \in 1..Len(Tail(s)) : Tail(s)[i] = s[i + 1]
  BY HeadTailProperties
<1>6. /\ Tail(s \o t) \in Seq(A) /\ Len(Tail(s \o t)) = Len(s) + Len(t) - 1
      /\ \A i \in 1..Len(s) + Len(t) - 1 : Tail(s \o t)[i] = (s \o t)[i + 1]
  BY <1>1, <1>3, HeadTailProperties
<1>7. /\ Tail(s) \o t \in Seq(A) /\ Len(Tail(s) \o t) = Len(s) + Len(t) - 1
      /\ \A i \in 1..Len(s) + Len(t) - 1 :
            (Tail(s) \o t)[i] = IF i <= Len(s) - 1 THEN Tail(s)[i] ELSE t[i - (Len(s) - 1)]
  BY <1>2, <1>5, ConcatProperties
<1>8. \A i \in 1..Len(s) + Len(t) - 1 : Tail(s \o t)[i] = (Tail(s) \o t)[i]
  BY <1>1, <1>2, <1>5, <1>6, <1>7
<1>9. Tail(s \o t) = Tail(s) \o t
  BY <1>6, <1>7, <1>8, SeqEqual
<1>10. QED
  BY <1>3, <1>4, <1>9

\* A sequence is its head followed by its tail.
LEMMA HeadThenTail ==
    ASSUME NEW A, NEW s \in Seq(A), s # <<>>
    PROVE  <<Head(s)>> \o Tail(s) = s
<1>1. /\ Head(s) \in A /\ Tail(s) \in Seq(A) /\ Len(Tail(s)) = Len(s) - 1
      /\ \A i \in 1..Len(Tail(s)) : Tail(s)[i] = s[i + 1]
  BY HeadTailProperties
<1>2. <<Head(s)>> \in Seq(A) /\ Len(<<Head(s)>>) = 1 /\ <<Head(s)>>[1] = s[1]
  BY <1>1
<1>3. Len(s) \in Nat \ {0}
  BY EmptySeq
<1>4. /\ <<Head(s)>> \o Tail(s) \in Seq(A) /\ Len(<<Head(s)>> \o Tail(s)) = Len(s)
      /\ \A i \in 1..Len(s) : (<<Head(s)>> \o Tail(s))[i]
                                 = IF i <= 1 THEN <<Head(s)>>[i] ELSE Tail(s)[i - 1]
  BY <1>1, <1>2, <1>3, ConcatProperties
<1>5. \A i \in 1..Len(s) : (<<Head(s)>> \o Tail(s))[i] = s[i]
  BY <1>1, <1>2, <1>3, <1>4
<1>6. QED
  BY <1>4, <1>5, SeqEqual

\* The empty queue satisfies the invariant.
LEMMA Initially == ASSUME Init PROVE IInv
<1>1. <<>> \in Seq(Jobs) /\ Len(<<>>) = 0
  BY EmptySeq
<1>2. TypeOK
  <2>1. Len(jobQueue) <= QueueCap
    BY <1>1, QueueCapAssumption DEF Init
  <2>2. working \in [Workers -> Jobs \cup {NoJob}]
    BY DEF Init
  <2>3. QED
    BY <1>1, <2>1, <2>2 DEF Init, TypeOK
<1>3. HandMatches /\ NoLostWakeup
  BY DEF Init, HandMatches, NoLostWakeup
<1>4. QED
  BY <1>2, <1>3 DEF IInv

\* Each step of the queue preserves the invariant.
LEMMA InductiveStep == ASSUME IInv, [Next]_vars PROVE IInv'
<1> USE DEF IInv, TypeOK, HandMatches, NoLostWakeup
<1>1. CASE UNCHANGED vars
  BY <1>1 DEF vars
<1>2. ASSUME NEW c \in Callers, NEW j \in Jobs, Enqueue(c, j) PROVE IInv'
  BY <1>2, AppendProperties DEF Enqueue
<1>3. ASSUME NEW c \in Callers, Wake(c) PROVE IInv'
  BY <1>3 DEF Wake
<1>4. CASE dispatchEmpty
  BY <1>4 DEF dispatchEmpty
<1>5. CASE dispatchPop
  BY <1>5, HeadTailProperties DEF dispatchPop
<1>6. CASE dispatchWoken
  BY <1>6 DEF dispatchWoken
<1>7. CASE dispatchSend
  <2>1. PICK j \in Jobs : hand = <<j>>
    BY <1>7 DEF dispatchSend
  <2>2. jobQueue' \in Seq(Jobs) /\ Len(jobQueue') = Len(jobQueue) + 1
    BY <1>7, <2>1, ConcatProperties DEF dispatchSend
  <2>3. Len(jobQueue') <= QueueCap
    BY <1>7, <2>2, LenProperties, QueueCapAssumption DEF dispatchSend
  <2>4. QED
    BY <1>7, <2>2, <2>3, EmptySeq DEF dispatchSend
<1>8. CASE dispatchExits
  BY <1>8 DEF dispatchExits
<1>9. ASSUME NEW w \in Workers, worker(w) PROVE IInv'
  <2>1. /\ jobQueue' \in Seq(Jobs) /\ Len(jobQueue') = Len(jobQueue) - 1
        /\ Head(jobQueue) \in Jobs
    BY <1>9, HeadTailProperties DEF worker
  <2>2. Len(jobQueue') <= QueueCap
    BY <2>1, LenProperties, QueueCapAssumption
  <2>3. QED
    BY <1>9, <2>1, <2>2 DEF worker
<1>10. ASSUME NEW w \in Workers, processJob(w) \/ workerExits(w) PROVE IInv'
  BY <1>10 DEF processJob, workerExits
<1>11. CASE Stop
  BY <1>11 DEF Stop
<1>12. QED
  BY <1>1, <1>2, <1>3, <1>4, <1>5, <1>6, <1>7, <1>8, <1>9, <1>10, <1>11 DEF Next, dispatch

\* Only Enqueue and a worker's receive change the abstract queue; the two
\* hand-overs of the dispatcher leave it as it is.
LEMMA FifoStep == ASSUME IInv, [Next]_vars PROVE [Fifo!Next]_Queued
<1>1. pending \in Seq(Jobs) /\ jobQueue \in Seq(Jobs) /\ hand \in Seq(Jobs)
  BY DEF IInv, TypeOK
<1>2. CASE UNCHANGED <<jobQueue, hand, pending>>
  BY <1>2 DEF Queued
<1>3. ASSUME NEW c \in Callers, NEW j \in Jobs, Enqueue(c, j) PROVE Fifo!Put(j)
  <2>1. jobQueue \o hand \in Seq(Jobs) /\ Queued \in Seq(Jobs) /\ <<j>> \in Seq(Jobs)
    BY <1>1, ConcatProperties DEF Queued
  <2>2. pending' = pending \o <<j>>
    BY <1>1, <1>3, AppendIsConcat DEF Enqueue
  <2>3. Queued' = Queued \o <<j>>
    BY <1>1, <1>3, <2>1, <2>2, ConcatAssociative DEF Enqueue, Queued
  <2>4. QED
    BY <2>1, <2>3, AppendIsConcat DEF Fifo!Put
<1>4. CASE dispatchPop
  <2>1. hand = <<>> /\ jobQueue \o <<>> = jobQueue
    BY <1>1, <1>4, ConcatEmptySeq DEF dispatchPop, IInv, HandMatches
  <2>2. <<Head(pending)>> \in Seq(Jobs) /\ Tail(pending) \in Seq(Jobs)
    BY <1>1, <1>4, HeadTailProperties DEF dispatchPop
  <2>3. (jobQueue \o <<Head(pending)>>) \o Tail(pending) = jobQueue \o pending
    BY <1>1, <1>4, <2>2, ConcatAssociative, HeadThenTail DEF dispatchPop
  <2>4. QED
    BY <1>4, <2>1, <2>3 DEF dispatchPop, Queued
<1>5. CASE dispatchSend
  <2>1. jobQueue \o hand \in Seq(Jobs)
    BY <1>1, ConcatProperties
  <2>2. QED
    BY <1>5, <2>1, ConcatEmptySeq DEF dispatchSend, Queued
<1>6. ASSUME NEW w \in Workers, worker(w)
      PROVE  Head(jobQueue) \in Jobs /\ Fifo!Get(Head(jobQueue))
  <2>1. jobQueue # <<>> /\ Head(jobQueue) \in Jobs /\ Tail(jobQueue) \in Seq(Jobs)
    BY <1>1, <1>6, HeadTailProperties DEF worker
  <2>2. hand \o pending \in Seq(Jobs)
    BY <1>1, ConcatProperties
  <2>3. Queued = jobQueue \o (hand \o pending)
    BY <1>1, ConcatAssociative DEF Queued
  <2>4. Queued' = Tail(jobQueue) \o (hand \o pending)
    BY <1>1, <1>6, <2>1, ConcatAssociative DEF worker, Queued
  <2>5. QED
    BY <1>1, <2>1, <2>2, <2>3, <2>4, HeadTailOfConcat DEF Fifo!Get
<1>7. QED
  <2>1. CASE UNCHANGED vars \/ dispatchEmpty \/ dispatchWoken \/ dispatchExits \/ Stop
    BY <1>2, <2>1 DEF vars, dispatchEmpty, dispatchWoken, dispatchExits, Stop
  <2>2. ASSUME NEW c \in Callers, Wake(c) PROVE [Fifo!Next]_Queued
    BY <1>2, <2>2 DEF Wake
  <2>3. ASSUME NEW w \in Workers, processJob(w) \/ workerExits(w) PROVE [Fifo!Next]_Queued
    BY <1>2, <2>3 DEF processJob, workerExits
  <2>4. QED
    BY <1>3, <1>4, <1>5, <1>6, <2>1, <2>2, <2>3 DEF Next, dispatch, Fifo!Next

\* The inductive invariant holds throughout.
THEOREM InductiveInvariant == Spec => []IInv
<1>1. Init => IInv
  BY Initially
<1>2. IInv /\ [Next]_vars => IInv'
  BY InductiveStep
<1>3. QED
  BY <1>1, <1>2, PTL DEF Spec

\* The channel never exceeds its capacity, the hand never more than a job.
THEOREM TypeCorrect == Spec => []TypeOK
<1>1. IInv => TypeOK
  BY DEF IInv
<1>2. QED
  BY <1>1, InductiveInvariant, PTL

\* The dispatcher never sleeps over a backlog that nobody announces.
THEOREM Wakeup == Spec => []NoLostWakeup
<1>1. IInv => NoLostWakeup
  BY DEF IInv
<1>2. QED
  BY <1>1, InductiveInvariant, PTL

\* Backlog, hand and channel implement one FIFO queue.
THEOREM FifoOrder == Spec => ImplementsFifoQueue
<1>1. Init => Fifo!Init
  <2>1. <<>> \o <<>> = <<>>
    BY EmptySeq, ConcatEmptySeq
  <2>2. QED
    BY <2>1 DEF Init, Fifo!Init, Queued
<1>2. IInv /\ [Next]_vars => [Fifo!Next]_Queued
  BY FifoStep
<1>3. QED
  BY <1>1, <1>2, InductiveInvariant, PTL DEF Spec, ImplementsFifoQueue, Fifo!Spec

-----------------------------------------------------------------------------
(* Notifications that ask for jobs (InboundWebhook).                       *)

\* Nothing is ahead of upstream, and a job that has read upstream has read at
\* least what the mirror has.
NotAhead ==
    /\ carried <= upstream /\ mirror <= upstream /\ request.push <= upstream
    /\ \A p \in sent : p <= upstream
    /\ run.pc = "read" => mirror <= run.read /\ run.read <= upstream

Runs == [pc : {"none", "running", "read"}, read : 0..MaxPushes,
         row : {"none", "running", "cancelled"}]

\* The inductive invariant.
WebhookInv == W!TypeOK /\ NotAhead /\ CarriedIsOnItsWay

\* Nothing was pushed yet.
LEMMA WebhookInit == W!Init => WebhookInv
BY LimitsAssumption DEF W!Init, W!NoRequest, W!NoRun, WebhookInv, W!TypeOK, NotAhead,
  CarriedIsOnItsWay, W!CarriedIsOnItsWay

\* Every step keeps it: a request is answered when a job will still read its
\* push, or with a note that it came too late for that; and whoever takes the
\* last pending job away notes what had been answered.
LEMMA WebhookStep ==
    ASSUME WebhookInv, [W!Next]_(W!vars)
    PROVE  WebhookInv'
<1> USE DEF W!NoRequest, W!NoRun
<1>1. /\ hooks \in [W!Ids -> W!Scopes]
      /\ upstream \in 0..MaxPushes /\ mirror \in 0..MaxPushes
      /\ carried \in 0..MaxPushes /\ late \in 0..MaxPushes
      /\ sent \subseteq 1..MaxPushes
      /\ request \in [pc : {"idle", "look", "insert"}, push : 0..MaxPushes]
      /\ run \in Runs /\ waiting \in Nat /\ leftover \in Nat
      /\ mishaps \in 0..MaxMishaps
      /\ MaxPushes \in Nat /\ MaxMishaps \in Nat
      /\ NotAhead /\ CarriedIsOnItsWay
  BY LimitsAssumption DEF WebhookInv, W!TypeOK, Runs
<1>2. ASSUME /\ hooks' \in [W!Ids -> W!Scopes]
             /\ upstream' \in 0..MaxPushes /\ mirror' \in 0..MaxPushes
             /\ carried' \in 0..MaxPushes /\ late' \in 0..MaxPushes
             /\ sent' \subseteq 1..MaxPushes
             /\ request' \in [pc : {"idle", "look", "insert"}, push : 0..MaxPushes]
             /\ run' \in Runs /\ waiting' \in Nat /\ leftover' \in Nat
             /\ mishaps' \in 0..MaxMishaps
             /\ NotAhead' /\ CarriedIsOnItsWay'
      PROVE  WebhookInv'
  BY <1>2 DEF WebhookInv, W!TypeOK, W!Ids, Runs
<1>3. ASSUME NEW i \in W!Ids, W!editWebhook(i) PROVE WebhookInv'
  BY <1>1, <1>2, <1>3 DEF W!editWebhook, W!rows, W!history, NotAhead, CarriedIsOnItsWay,
    W!CarriedIsOnItsWay
<1>4. ASSUME W!push PROVE WebhookInv'
  <2>1. /\ upstream' = upstream + 1 /\ upstream' \in 0..MaxPushes
        /\ sent' = sent \cup {upstream'}
        /\ UNCHANGED <<hooks, mirror, request, waiting, run, leftover, carried, late, mishaps>>
    BY <1>1, <1>4 DEF W!push, W!rows, W!history
  <2>2. sent' \subseteq 1..MaxPushes
    BY <1>1, <2>1
  <2>3. ASSUME NEW p \in sent' PROVE p <= upstream'
    <3>1. CASE p \in sent
      BY <1>1, <2>1, <3>1 DEF NotAhead
    <3>2. CASE p = upstream'
      BY <1>1, <2>1, <3>2
    <3> QED BY <2>1, <3>1, <3>2
  <2>4. NotAhead'
    <3>1. carried <= upstream' /\ mirror <= upstream' /\ request.push <= upstream'
      BY <1>1, <2>1 DEF NotAhead
    <3>2. run.pc = "read" => mirror <= run.read /\ run.read <= upstream'
      BY <1>1, <2>1 DEF NotAhead, Runs
    <3> QED BY <2>1, <2>3, <3>1, <3>2 DEF NotAhead
  <2> QED BY <1>1, <1>2, <2>1, <2>2, <2>4 DEF CarriedIsOnItsWay, W!CarriedIsOnItsWay
<1>5. ASSUME NEW p \in sent, W!lose(p) PROVE WebhookInv'
  BY <1>1, <1>2, <1>5 DEF W!lose, W!rows, W!history, NotAhead, CarriedIsOnItsWay,
    W!CarriedIsOnItsWay
<1>6. ASSUME NEW p \in sent, W!ReceiveWebhook(p) PROVE WebhookInv'
  <2>1. request' = request \/ request' = [pc |-> "look", push |-> p]
    BY <1>6 DEF W!ReceiveWebhook
  <2>2. /\ sent' \subseteq sent
        /\ UNCHANGED <<hooks, upstream, mirror, run, waiting, leftover, carried, late, mishaps>>
    BY <1>1, <1>6 DEF W!ReceiveWebhook, W!rows, W!history
  <2> QED BY <1>1, <1>2, <2>1, <2>2 DEF NotAhead, CarriedIsOnItsWay, W!CarriedIsOnItsWay
<1>7. ASSUME W!lookForJob PROVE WebhookInv'
  <2>1. UNCHANGED <<hooks, upstream, mirror, sent, waiting, run, leftover, mishaps>>
    BY <1>7 DEF W!lookForJob, W!rows
  <2>2. CASE W!Unfinished
    <3>1. W!joinJob
      BY <1>7, <2>2 DEF W!lookForJob
    <3> QED BY <1>1, <1>2, <2>1, <3>1 DEF W!joinJob, NotAhead, CarriedIsOnItsWay,
          W!CarriedIsOnItsWay
  <2>3. CASE ~ W!Unfinished
    <3>1. request' = [request EXCEPT !.pc = "insert"] /\ UNCHANGED <<carried, late>>
      BY <1>7, <2>3 DEF W!lookForJob, W!history
    <3> QED BY <1>1, <1>2, <2>1, <3>1 DEF NotAhead, CarriedIsOnItsWay, W!CarriedIsOnItsWay
  <2> QED BY <2>2, <2>3
<1>8. ASSUME W!insertJob PROVE WebhookInv'
  BY <1>1, <1>2, <1>8 DEF W!insertJob, NotAhead, CarriedIsOnItsWay, W!CarriedIsOnItsWay
<1>9. ASSUME W!schedule PROVE WebhookInv'
  BY <1>1, <1>2, <1>9 DEF W!schedule, W!history, NotAhead, CarriedIsOnItsWay, W!CarriedIsOnItsWay
<1>10. ASSUME W!runJob PROVE WebhookInv'
  BY <1>1, <1>2, <1>10 DEF W!runJob, W!history, Runs, NotAhead, CarriedIsOnItsWay,
    W!CarriedIsOnItsWay
<1>11. ASSUME W!fetch PROVE WebhookInv'
  <2>1. /\ run' \in Runs /\ run'.pc = "read" /\ run'.read = upstream
        /\ UNCHANGED <<hooks, upstream, mirror, sent, request, waiting, leftover, carried, late,
                       mishaps>>
    BY <1>1, <1>11 DEF W!fetch, W!history, Runs
  <2> QED BY <1>1, <1>2, <2>1 DEF NotAhead, CarriedIsOnItsWay, W!CarriedIsOnItsWay
<1>12. ASSUME W!gitFails PROVE WebhookInv'
  BY <1>1, <1>2, <1>12 DEF W!gitFails, Runs, NotAhead, CarriedIsOnItsWay, W!CarriedIsOnItsWay
<1>13. ASSUME W!endJob PROVE WebhookInv'
  BY <1>1, <1>2, <1>13 DEF W!endJob, W!history, Runs, NotAhead, CarriedIsOnItsWay,
    W!CarriedIsOnItsWay
<1>14. ASSUME W!CancelCloneJob PROVE WebhookInv'
  <2>1. /\ mishaps' \in 0..MaxMishaps
        /\ UNCHANGED <<hooks, upstream, mirror, sent, request, carried>>
    BY <1>1, <1>14 DEF W!CancelCloneJob
  <2>2. /\ waiting' \in Nat /\ leftover' \in Nat /\ late' \in {late, carried}
        /\ waiting' = waiting \/ waiting' > 0 \/ late' = carried
        /\ waiting' = waiting => late' = late
        /\ run' = run \/ run' = [run EXCEPT !.row = "cancelled"]
    BY <1>1, <1>14 DEF W!CancelCloneJob
  <2> QED BY <1>1, <1>2, <2>1, <2>2 DEF Runs, NotAhead, CarriedIsOnItsWay,
        W!CarriedIsOnItsWay
<1>15. ASSUME W!restart PROVE WebhookInv'
  <2>1. /\ mishaps' \in 0..MaxMishaps
        /\ request' = [pc |-> "idle", push |-> 0]
        /\ run' = [pc |-> "none", read |-> 0, row |-> "none"]
        /\ late' = IF waiting' = 0 THEN carried ELSE late
        /\ UNCHANGED <<hooks, upstream, mirror, sent, carried>>
    BY <1>1, <1>15 DEF W!restart
  <2>2. waiting' \in Nat /\ leftover' \in Nat
    <3>1. PICK one \in {0, 1} : \E back \in 0..one :
              /\ waiting' \in 0..(waiting + back)
              /\ leftover' \in 0..(leftover + one - back)
      BY <1>15 DEF W!restart
    <3> QED BY <1>1, <3>1
  <2> QED BY <1>1, <1>2, <2>1, <2>2 DEF Runs, NotAhead, CarriedIsOnItsWay,
        W!CarriedIsOnItsWay
<1>16. ASSUME UNCHANGED W!vars PROVE WebhookInv'
  BY <1>1, <1>2, <1>16 DEF W!vars, NotAhead, CarriedIsOnItsWay, W!CarriedIsOnItsWay
<1> QED
  BY <1>3, <1>4, <1>5, <1>6, <1>7, <1>8, <1>9, <1>10, <1>11, <1>12, <1>13, <1>14, <1>15, <1>16
  DEF W!Next

\* InboundWebhook's variables keep their types, and a push whose notification was
\* answered is in the mirror, on its way there, or among the excepted, for any
\* number of pushes, notifications, cancellations and restarts.
THEOREM AnnouncedIsOnItsWay == W!Spec => [](W!TypeOK /\ CarriedIsOnItsWay)
<1>1. WebhookInv /\ [W!Next]_(W!vars) => WebhookInv'
  BY WebhookStep
<1>2. WebhookInv => W!TypeOK /\ CarriedIsOnItsWay
  BY DEF WebhookInv
<1> QED BY <1>1, <1>2, WebhookInit, PTL DEF W!Spec

-----------------------------------------------------------------------------
(* The process and its services (ServerLife).                              *)

Names == {"db", "webhooks", "clones", "scheduler", "cleanup"}

\* main's deferred calls, by their number.
Stacks ==
    {<<>>, <<"db">>, <<"webhooks", "db">>, <<"clones", "webhooks", "db">>,
     <<"scheduler", "clones", "webhooks", "db">>,
     <<"cleanup", "scheduler", "clones", "webhooks", "db">>}

\* A sequence with one more element in front.
LEMMA InFront ==
    ASSUME NEW T, NEW x \in T, NEW s \in Seq(T), NEW t \in Seq(T),
           Len(t) = Len(s) + 1, t[1] = x, \A i \in 1..Len(s) : t[i + 1] = s[i]
    PROVE  <<x>> \o s = t
<1>1. <<x>> \in Seq(T) /\ Len(<<x>>) = 1 /\ <<x>>[1] = x /\ Len(s) \in Nat
  OBVIOUS
<1>2. /\ <<x>> \o s \in Seq(T) /\ Len(<<x>> \o s) = Len(s) + 1
      /\ \A i \in 1..Len(s) + 1 : (<<x>> \o s)[i] = IF i <= 1 THEN <<x>>[i] ELSE s[i - 1]
  BY <1>1, ConcatProperties
<1>3. ASSUME NEW i \in 1..Len(t) PROVE (<<x>> \o s)[i] = t[i]
  <2>1. CASE i = 1
    BY <2>1, <1>1, <1>2
  <2>2. CASE i # 1
    <3>1. i - 1 \in 1..Len(s) /\ i = (i - 1) + 1
      BY <2>2, <1>1
    <3> QED BY <3>1, <2>2, <1>1, <1>2
  <2> QED BY <2>1, <2>2
<1> QED BY <1>1, <1>2, <1>3, SeqEqual

\* What runs next of the deferred calls, and what a start adds to them.
LEMMA StackFacts ==
    ASSUME NEW d \in Stacks
    PROVE  /\ Len(d) \in 0..5
           /\ d = <<>> <=> Len(d) = 0
           /\ d # <<>> => /\ Tail(d) \in Stacks /\ Len(Tail(d)) = Len(d) - 1
                          /\ Head(d) = "db" <=> Len(d) = 1
                          /\ Head(d) = "webhooks" <=> Len(d) = 2
                          /\ Head(d) = "clones" <=> Len(d) = 3
           /\ Len(d) \in DOMAIN S!Services =>
                /\ <<S!Services[Len(d)]>> \o d \in Stacks
                /\ Len(<<S!Services[Len(d)]>> \o d) = Len(d) + 1
                /\ S!Services[Len(d)] = "webhooks" <=> Len(d) = 1
                /\ S!Services[Len(d)] = "clones" <=> Len(d) = 2
           /\ Len(S!Services) = 4 /\ DOMAIN S!Services = 1..4
<1>0. /\ Len(S!Services) = 4 /\ DOMAIN S!Services = 1..4
      /\ S!Services[1] = "webhooks" /\ S!Services[2] = "clones"
      /\ S!Services[3] = "scheduler" /\ S!Services[4] = "cleanup"
  BY DEF S!Services
<1>1. CASE d = <<>>
  BY <1>0, <1>1
<1>2. CASE d = <<"db">>
  <2>1. /\ d \in Seq(Names) /\ Len(d) = 1 /\ "webhooks" \in Names
        /\ <<"webhooks", "db">> \in Seq(Names)
        /\ Len(<<"webhooks", "db">>) = 1 + 1 /\ <<"webhooks", "db">>[1] = "webhooks"
        /\ \A i \in 1..Len(d) : <<"webhooks", "db">>[i + 1] = d[i]
    BY <1>2 DEF Names
  <2>2. <<"webhooks">> \o d = <<"webhooks", "db">>
    BY <2>1, InFront
  <2>3. Tail(d) = <<>> /\ Len(<<>>) = 0
    BY <1>2
  <2> QED BY <1>0, <1>2, <2>2 DEF Stacks
<1>3. CASE d = <<"webhooks", "db">>
  <2>1. /\ d \in Seq(Names) /\ Len(d) = 2 /\ "clones" \in Names
        /\ <<"clones", "webhooks", "db">> \in Seq(Names)
        /\ Len(<<"clones", "webhooks", "db">>) = 2 + 1
        /\ <<"clones", "webhooks", "db">>[1] = "clones"
        /\ \A i \in 1..Len(d) : <<"clones", "webhooks", "db">>[i + 1] = d[i]
    BY <1>3 DEF Names
  <2>2. <<"clones">> \o d = <<"clones", "webhooks", "db">>
    BY <2>1, InFront
  <2>3. Tail(d) = <<"db">> /\ Len(<<"db">>) = 1
    BY <1>3
  <2> QED BY <1>0, <1>3, <2>2 DEF Stacks
<1>4. CASE d = <<"clones", "webhooks", "db">>
  <2>1. /\ d \in Seq(Names) /\ Len(d) = 3 /\ "scheduler" \in Names
        /\ <<"scheduler", "clones", "webhooks", "db">> \in Seq(Names)
        /\ Len(<<"scheduler", "clones", "webhooks", "db">>) = 3 + 1
        /\ <<"scheduler", "clones", "webhooks", "db">>[1] = "scheduler"
        /\ \A i \in 1..Len(d) : <<"scheduler", "clones", "webhooks", "db">>[i + 1] = d[i]
    BY <1>4 DEF Names
  <2>2. <<"scheduler">> \o d = <<"scheduler", "clones", "webhooks", "db">>
    BY <2>1, InFront
  <2>3. Tail(d) = <<"webhooks", "db">> /\ Len(<<"webhooks", "db">>) = 2
    BY <1>4
  <2> QED BY <1>0, <1>4, <2>2 DEF Stacks
<1>5. CASE d = <<"scheduler", "clones", "webhooks", "db">>
  <2>1. /\ d \in Seq(Names) /\ Len(d) = 4 /\ "cleanup" \in Names
        /\ <<"cleanup", "scheduler", "clones", "webhooks", "db">> \in Seq(Names)
        /\ Len(<<"cleanup", "scheduler", "clones", "webhooks", "db">>) = 4 + 1
        /\ <<"cleanup", "scheduler", "clones", "webhooks", "db">>[1] = "cleanup"
        /\ \A i \in 1..Len(d) :
             <<"cleanup", "scheduler", "clones", "webhooks", "db">>[i + 1] = d[i]
    BY <1>5 DEF Names
  <2>2. <<"cleanup">> \o d = <<"cleanup", "scheduler", "clones", "webhooks", "db">>
    BY <2>1, InFront
  <2>3. Tail(d) = <<"clones", "webhooks", "db">> /\ Len(<<"clones", "webhooks", "db">>) = 3
    BY <1>5
  <2> QED BY <1>0, <1>5, <2>2 DEF Stacks
<1>6. CASE d = <<"cleanup", "scheduler", "clones", "webhooks", "db">>
  <2>1. Len(d) = 5
    BY <1>6
  <2>3. /\ Tail(d) = <<"scheduler", "clones", "webhooks", "db">>
        /\ Len(<<"scheduler", "clones", "webhooks", "db">>) = 4
    BY <1>6
  <2> QED BY <1>0, <1>6, <2>1, <2>3 DEF Stacks
<1> QED BY <1>1, <1>2, <1>3, <1>4, <1>5, <1>6 DEF Stacks

\* The part of StackFacts about what runs next.
LEMMA StackTop ==
    ASSUME NEW d \in Stacks
    PROVE  /\ Len(d) \in 0..5
           /\ d = <<>> <=> Len(d) = 0
           /\ d # <<>> => /\ Tail(d) \in Stacks /\ Len(Tail(d)) = Len(d) - 1
                          /\ Head(d) = "db" <=> Len(d) = 1
                          /\ Head(d) = "webhooks" <=> Len(d) = 2
                          /\ Head(d) = "clones" <=> Len(d) = 3
BY StackFacts

\* How far the stack of deferred calls has grown, or shrunk, says what is up.
Depth == Len(deferred)
Up == {"up", "drain"}

\* The inductive invariant: what main's stage says of the stack, and how deep the
\* stack is at least as long as somebody needs a service.
ServerInv ==
    /\ S!TypeOK
    /\ deferred \in Stacks
    /\ stage = "off" => Depth = 0
    /\ stage \in {"schema", "admin", "tags"} => Depth = 1
    /\ stage = "services" => Depth >= 1
    /\ stage \in Up => Depth = 5
    /\ stage \in {"tags", "services"} \cup Up => admin
    /\ db <=> Depth >= 1
    /\ requests # {} => stage \in Up
    /\ accepting \/ S!inFlight # {} => Depth >= 3
    /\ taking \/ delivering => Depth >= 2
    /\ Depth >= 3 \/ (stage = "services" /\ Depth >= 2) => taking
    /\ stage # "stop" /\ Depth >= 3 => accepting
    /\ cancelled => stage = "stop" /\ ~accepting

\* The parts of ServerInv that its steps change, with S!TypeOK unfolded.
ServerTypes ==
    /\ stage \in {"off", "schema", "admin", "tags", "services", "up", "drain", "stop"}
    /\ db \in BOOLEAN /\ schema \in BOOLEAN /\ admin \in BOOLEAN /\ tags \in BOOLEAN
    /\ requests \subseteq Requests /\ jobs \in [ServerJobs -> S!JobAt]
    /\ accepting \in BOOLEAN /\ cancelled \in BOOLEAN
    /\ delivering \in BOOLEAN /\ taking \in BOOLEAN
    /\ told \subseteq S!Loops /\ passes \subseteq S!Loops
    /\ starts \in 0..MaxStarts /\ MaxStarts \in Nat

\* No process runs yet.
LEMMA ServerInit == S!Init => ServerInv
<1> SUFFICES ASSUME S!Init PROVE ServerInv
  OBVIOUS
<1>1. S!TypeOK
  <2>1. jobs \in [ServerJobs -> S!JobAt]
    BY DEF S!Init, S!JobAt
  <2>2. starts \in 0..MaxStarts
    BY LimitsAssumption DEF S!Init
  <2>3. /\ stage = "off" /\ db = FALSE /\ schema = FALSE /\ admin = FALSE /\ tags = FALSE
        /\ requests = {} /\ accepting = FALSE /\ cancelled = FALSE /\ delivering = FALSE
        /\ taking = FALSE /\ told = {} /\ passes = {}
    BY DEF S!Init
  <2> QED BY <2>1, <2>2, <2>3 DEF S!TypeOK, S!Loops
<1>2. deferred \in Stacks /\ Depth = 0 /\ S!inFlight = {}
  BY DEF S!Init, Stacks, Depth, S!inFlight
<1> QED BY <1>1, <1>2 DEF ServerInv, S!Init, Up

\* Every step keeps it: main's own by the depth of its stack, and the others by
\* what they ask for before they begin.
LEMMA ServerStep ==
    ASSUME ServerInv, [S!Next]_(S!vars)
    PROVE  ServerInv'
<1> DEFINE Rest ==
             /\ deferred \in Stacks
             /\ stage = "off" => Depth = 0
             /\ stage \in {"schema", "admin", "tags"} => Depth = 1
             /\ stage = "services" => Depth >= 1
             /\ stage \in Up => Depth = 5
             /\ stage \in {"tags", "services"} \cup Up => admin
             /\ db <=> Depth >= 1
             /\ requests # {} => stage \in Up
             /\ accepting \/ S!inFlight # {} => Depth >= 3
             /\ taking \/ delivering => Depth >= 2
             /\ Depth >= 3 \/ (stage = "services" /\ Depth >= 2) => taking
             /\ stage # "stop" /\ Depth >= 3 => accepting
             /\ cancelled => stage = "stop" /\ ~accepting
<1>1. ServerTypes /\ Rest
  BY LimitsAssumption DEF ServerInv, S!TypeOK, ServerTypes
<1>2. ASSUME ServerTypes', Rest' PROVE ServerInv'
  BY <1>2 DEF ServerInv, S!TypeOK, ServerTypes
<1>3. Depth \in 0..5
  BY <1>1, StackFacts DEF Depth
<1>4. UNCHANGED jobs => UNCHANGED S!inFlight
  BY DEF S!inFlight
<1>5. UNCHANGED deferred => UNCHANGED Depth
  BY DEF Depth
<1>0a. deferred' = <<>> => Depth' = 0 /\ deferred' \in Stacks
  BY DEF Depth, Stacks
<1>0b. deferred' = <<"db">> => Depth' = 1 /\ deferred' \in Stacks
  BY DEF Depth, Stacks
<1>0c. deferred # <<>> /\ deferred' = Tail(deferred) => Depth' = Depth - 1 /\ deferred' \in Stacks
  BY <1>1, StackTop DEF Depth
<1>00. ASSUME NEW s, S!next(s)
       PROVE  /\ stage = "stop" /\ deferred # <<>> /\ Depth >= 1
              /\ s = "db" <=> Depth = 1
              /\ s = "webhooks" <=> Depth = 2
              /\ s = "clones" <=> Depth = 3
  <2>1. stage = "stop" /\ deferred # <<>> /\ Head(deferred) = s
    BY <1>00 DEF S!next
  <2> QED BY <1>1, <1>3, <2>1, StackTop DEF Depth
<1>6. ASSUME S!connect PROVE ServerInv'
  <2>1. ServerTypes'
    BY <1>1, <1>6 DEF S!connect, S!tables, S!clones, S!events, S!loops, ServerTypes
  <2>2. Rest'
    BY <1>0b, <1>1, <1>4, <1>6 DEF S!connect, S!clones, S!events, Up
  <2> QED BY <1>2, <2>1, <2>2
<1>7. ASSUME S!migrate PROVE ServerInv'
  <2>1. ServerTypes'
    BY <1>1, <1>7 DEF S!migrate, S!clones, S!events, S!loops, ServerTypes
  <2>2. Rest'
    BY <1>1, <1>4, <1>5, <1>7 DEF S!migrate, S!clones, S!events, Up
  <2> QED BY <1>2, <2>1, <2>2
<1>8. ASSUME S!createDefaultAdmin PROVE ServerInv'
  <2>1. ServerTypes'
    BY <1>1, <1>8 DEF S!createDefaultAdmin, S!clones, S!events, S!loops, ServerTypes
  <2>2. Rest'
    BY <1>1, <1>4, <1>5, <1>8 DEF S!createDefaultAdmin, S!clones, S!events, Up
  <2> QED BY <1>2, <2>1, <2>2
<1>9. ASSUME S!createDefaultTags PROVE ServerInv'
  <2>1. ServerTypes'
    BY <1>1, <1>9 DEF S!createDefaultTags, S!clones, S!events, S!loops, ServerTypes
  <2>2. Rest'
    BY <1>1, <1>4, <1>5, <1>9 DEF S!createDefaultTags, S!clones, S!events, Up
  <2> QED BY <1>2, <2>1, <2>2
<1>10. ASSUME NEW s \in {"webhooks", "clones"} \cup S!Loops, S!start(s) PROVE ServerInv'
  <2>0. /\ deferred' \in Stacks /\ Depth' = Depth + 1 /\ Depth \in 1..4
        /\ s = "webhooks" <=> Depth = 1
        /\ s = "clones" <=> Depth = 2
    BY <1>1, <1>10, StackFacts DEF S!start, Depth
  <2>1. ServerTypes'
    BY <1>1, <1>10 DEF S!start, S!tables, S!loops, ServerTypes
  <2>2. Rest'
    BY <1>1, <1>4, <1>10, <2>0 DEF S!start, S!tables, ServerTypes
  <2> QED BY <1>2, <2>1, <2>2
<1>11. ASSUME S!serve PROVE ServerInv'
  <2>0. Depth = 5
    <3>1. Len(S!Services) = 4
      BY DEF S!Services
    <3>2. Depth > 4
      BY <3>1, <1>11 DEF S!serve, Depth
    <3> QED BY <3>2, <1>3
  <2>1. ServerTypes'
    BY <1>1, <1>11 DEF S!serve, S!tables, S!clones, S!events, S!loops, ServerTypes
  <2>2. Rest'
    BY <1>1, <1>5, <1>11, <2>0 DEF S!serve, S!tables, S!clones, S!events, Up
  <2> QED BY <1>2, <2>1, <2>2
<1>12. ASSUME S!crash \/ S!forced \/ S!exit PROVE ServerInv'
  <2>1. ServerTypes'
    BY <1>1, <1>12
       DEF S!crash, S!forced, S!exit, S!gone, S!tables, S!clones, S!events, S!loops,
           ServerTypes, S!JobAt, S!Loops
  <2>2. Rest'
    BY <1>0a, <1>12 DEF S!crash, S!forced, S!exit, S!gone, Up, S!inFlight
  <2> QED BY <1>2, <2>1, <2>2
<1>13. ASSUME S!shutdown PROVE ServerInv'
  <2>1. ServerTypes'
    BY <1>1, <1>13 DEF S!shutdown, S!tables, S!clones, S!events, S!loops, ServerTypes
  <2>2. Rest'
    BY <1>1, <1>5, <1>13 DEF S!shutdown, S!tables, S!clones, S!events, Up
  <2> QED BY <1>2, <2>1, <2>2
<1>14. ASSUME S!drained PROVE ServerInv'
  <2>1. ServerTypes'
    BY <1>1, <1>14 DEF S!drained, S!tables, S!clones, S!events, S!loops, ServerTypes
  <2>2. Rest'
    BY <1>1, <1>5, <1>14 DEF S!drained, S!clones, S!events, Up
  <2> QED BY <1>2, <2>1, <2>2
<1>15. ASSUME NEW s \in S!Loops, S!stopLoop(s) PROVE ServerInv'
  <2>1. ServerTypes'
    BY <1>1, <1>15 DEF S!stopLoop, S!tables, S!clones, S!events, ServerTypes
  <2>2. Rest'
    BY <1>00, <1>0c, <1>1, <1>3, <1>15 DEF S!stopLoop, S!Loops, S!clones, S!events, Up
  <2> QED BY <1>2, <2>1, <2>2
<1>16. ASSUME S!stopAdmitting PROVE ServerInv'
  <2>1. ServerTypes'
    BY <1>1, <1>16
       DEF S!stopAdmitting, S!next, S!tables, S!clones, S!events, S!loops, ServerTypes,
           S!JobAt, S!Loops
  <2>2. Rest'
    BY <1>00, <1>1, <1>5, <1>16 DEF S!stopAdmitting, S!events
  <2> QED BY <1>2, <2>1, <2>2
<1>17. ASSUME S!cancel PROVE ServerInv'
  <2>1. ServerTypes'
    BY <1>1, <1>17 DEF S!cancel, S!tables, S!events, S!loops, ServerTypes
  <2>2. Rest'
    BY <1>00, <1>1, <1>5, <1>17 DEF S!cancel, S!events
  <2> QED BY <1>2, <2>1, <2>2
<1>18. ASSUME S!stopped PROVE ServerInv'
  <2>1. ServerTypes'
    BY <1>1, <1>18 DEF S!stopped, S!tables, S!clones, S!events, S!loops, ServerTypes
  <2>2. /\ stage = "stop" /\ Depth = 3 /\ Depth' = 2 /\ deferred' \in Stacks
        /\ S!inFlight' = {} /\ ~accepting /\ taking /\ db
        /\ requests = {}
        /\ UNCHANGED <<stage, db, admin, requests, accepting, cancelled, delivering, taking>>
    <3>1. UNCHANGED jobs
      BY <1>18 DEF S!stopped, S!clones
    <3>2. cancelled /\ S!inFlight = {} /\ S!next("clones") /\ deferred' = Tail(deferred)
      BY <1>18 DEF S!stopped
    <3>3. stage = "stop" /\ deferred # <<>> /\ Depth = 3
      BY <1>00, <3>2
    <3>4. Depth' = 2 /\ deferred' \in Stacks
      BY <1>0c, <3>2, <3>3
    <3>5. ~accepting /\ taking /\ db /\ requests = {}
      BY <1>1, <3>2, <3>3 DEF Up
    <3>6. UNCHANGED <<stage, db, admin, requests, accepting, cancelled, delivering, taking>>
      BY <1>18 DEF S!stopped, S!tables, S!clones, S!events
    <3> QED BY <1>4, <3>1, <3>2, <3>3, <3>4, <3>5, <3>6
  <2>3. Rest'
    BY <1>1, <2>2 DEF Up
  <2> QED BY <1>2, <2>1, <2>3
<1>19. ASSUME S!stopDelivering PROVE ServerInv'
  <2>1. ServerTypes'
    BY <1>1, <1>19
       DEF S!stopDelivering, S!next, S!tables, S!clones, S!events, S!loops, ServerTypes,
           S!JobAt, S!Loops
  <2>2. Rest'
    BY <1>00, <1>1, <1>4, <1>5, <1>19 DEF S!stopDelivering, S!clones
  <2> QED BY <1>2, <2>1, <2>2
<1>20. ASSUME S!delivered PROVE ServerInv'
  <2>1. ServerTypes'
    BY <1>1, <1>20 DEF S!delivered, S!tables, S!clones, S!events, S!loops, ServerTypes
  <2>2. Rest'
    BY <1>00, <1>0c, <1>1, <1>4, <1>20 DEF S!delivered, S!clones, S!events
  <2> QED BY <1>2, <2>1, <2>2
<1>21. ASSUME S!close PROVE ServerInv'
  <2>1. ServerTypes'
    BY <1>1, <1>21
       DEF S!close, S!next, S!tables, S!clones, S!events, S!loops, ServerTypes, S!JobAt, S!Loops
  <2>2. Rest'
    BY <1>00, <1>0a, <1>1, <1>4, <1>21 DEF S!close, S!clones, S!events
  <2> QED BY <1>2, <2>1, <2>2
<1>22. ASSUME NEW r \in Requests, S!request(r) PROVE ServerInv'
  <2>1. ServerTypes'
    BY <1>1, <1>22 DEF S!request, S!tables, S!clones, S!events, S!loops, ServerTypes
  <2>2. Rest'
    BY <1>1, <1>5, <1>22 DEF S!request, S!tables, S!clones, S!events, Up
  <2> QED BY <1>2, <2>1, <2>2
<1>23. ASSUME NEW r \in Requests, S!respond(r) PROVE ServerInv'
  <2>1. ServerTypes'
    BY <1>1, <1>23 DEF S!respond, S!tables, S!clones, S!events, S!loops, ServerTypes
  <2>2. Rest'
    BY <1>1, <1>5, <1>23 DEF S!respond, S!tables, S!clones, S!events
  <2> QED BY <1>2, <2>1, <2>2
<1>24. ASSUME NEW j \in ServerJobs, S!runJob(j) PROVE ServerInv'
  <2>1. ServerTypes'
    BY <1>1, <1>24 DEF S!runJob, S!setJob, S!tables, S!loops, ServerTypes, S!JobAt
  <2>2. Rest'
    BY <1>1, <1>5, <1>24 DEF S!runJob, S!setJob, S!tables
  <2> QED BY <1>2, <2>1, <2>2
<1>25. ASSUME NEW j \in ServerJobs, S!gitEnds(j) \/ S!record(j) PROVE ServerInv'
  <2>0. \E at \in S!JobAt : S!setJob(j, at) /\ UNCHANGED delivering
    BY <1>25 DEF S!gitEnds, S!record, S!JobAt
  <2>1. ServerTypes'
    BY <1>1, <2>0 DEF S!setJob, S!tables, S!loops, ServerTypes
  <2>2. Rest'
    BY <1>1, <1>5, <1>25 DEF S!gitEnds, S!record, S!setJob, S!tables, S!inFlight
  <2> QED BY <1>2, <2>1, <2>2
<1>26. ASSUME NEW j \in ServerJobs, S!emit(j) PROVE ServerInv'
  <2>1. ServerTypes'
    BY <1>1, <1>26 DEF S!emit, S!setJob, S!tables, S!loops, ServerTypes, S!JobAt
  <2>2. Rest'
    BY <1>1, <1>5, <1>26 DEF S!emit, S!setJob, S!tables, S!inFlight
  <2> QED BY <1>2, <2>1, <2>2
<1>27. ASSUME S!deliver PROVE ServerInv'
  <2>1. ServerTypes'
    BY <1>1, <1>27
       DEF S!deliver, S!tables, S!clones, S!events, S!loops, ServerTypes, S!JobAt, S!Loops
  <2>2. Rest'
    BY <1>1, <1>4, <1>5, <1>27 DEF S!deliver, S!tables, S!clones
  <2> QED BY <1>2, <2>1, <2>2
<1>28. ASSUME NEW s \in S!Loops, S!tick(s) \/ S!passEnds(s) PROVE ServerInv'
  <2>1. ServerTypes'
    BY <1>1, <1>28 DEF S!tick, S!passEnds, S!tables, S!clones, S!events, ServerTypes
  <2>2. Rest'
    BY <1>1, <1>4, <1>5, <1>28 DEF S!tick, S!passEnds, S!tables, S!clones, S!events
  <2> QED BY <1>2, <2>1, <2>2
<1>29. ASSUME UNCHANGED S!vars PROVE ServerInv'
  BY <1>1, <1>2, <1>4, <1>5, <1>29 DEF S!vars, S!tables, S!clones, S!events, S!loops,
    ServerTypes
<1> QED
  BY <1>6, <1>7, <1>8, <1>9, <1>10, <1>11, <1>12, <1>13, <1>14, <1>15, <1>16, <1>17, <1>18,
    <1>19, <1>20, <1>21, <1>22, <1>23, <1>24, <1>25, <1>26, <1>27, <1>28, <1>29 DEF S!Next

\* ServerLife's variables keep their types, and whoever has work to do finds the
\* services it needs, for any number of requests, jobs and starts.
THEOREM ServicesOutliveTheirWork == S!Spec => [](S!TypeOK /\ WorkFindsItsServices)
<1>1. ServerInv /\ [S!Next]_(S!vars) => ServerInv'
  BY ServerStep
<1>2. ServerInv => S!TypeOK /\ WorkFindsItsServices
  <2> SUFFICES ASSUME ServerInv PROVE S!TypeOK /\ WorkFindsItsServices
    OBVIOUS
  <2>1. Depth \in 0..5
    BY StackFacts DEF ServerInv, Depth
  <2> QED BY <2>1 DEF ServerInv, WorkFindsItsServices, S!WorkFindsItsServices, Up
<1> QED BY <1>1, <1>2, ServerInit, PTL DEF S!Spec
=============================================================================
