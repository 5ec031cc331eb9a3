---------------------------- MODULE MCDispatchQueue ----------------------------
(****************************************************************************)
(* How work reaches the workers, and how the process that does it begins    *)
(* and ends: the job queue, the notifications that ask for jobs, and main.  *)
(* They have no variable in common, so `part' picks initially the one that  *)
(* runs.  The constants are those of the three; the bounds are in the cfg.  *)
(*                                                                          *)
(* Queue: four jobs against a channel of one, so that backlog, hand and     *)
(* channel are occupied at once and the dispatcher blocks on a full         *)
(* channel.  Webhook: two pushes, each with a notification that may be lost *)
(* or repeated, and two cancelled jobs or restarts.  Server: a request and  *)
(* two jobs, and three starts.                                              *)
(****************************************************************************)
EXTENDS DispatchQueue

CONSTANTS
    MaxPushes, MaxMishaps,                \* of InboundWebhook
    Requests, ServerJobs, MaxStarts       \* of ServerLife

ASSUME LimitsAssumption == {MaxPushes, MaxMishaps, MaxStarts} \subseteq Nat

VARIABLES part,
          hooks, upstream, mirror, sent, request, waiting, run, leftover, carried, late,
          mishaps,
          stage, deferred, db, schema, admin, tags, requests, accepting, cancelled, jobs,
          delivering, taking, told, passes, starts

W == INSTANCE InboundWebhook
S == INSTANCE ServerLife WITH Jobs <- ServerJobs, working <- passes

webhookVars == <<hooks, upstream, mirror, sent, request, waiting, run, leftover, carried, late,
                 mishaps>>
serverVars == <<stage, deferred, db, schema, admin, tags, requests, accepting, cancelled, jobs,
                delivering, taking, told, passes, starts>>

MCInit ==
    /\ part \in {"queue", "webhook", "server"}
    /\ Init /\ W!Init /\ S!Init
    /\ part # "webhook" => hooks = [i \in W!Ids |-> "off"]

MCNext ==
    \/ part = "queue" /\ Next /\ UNCHANGED <<part, webhookVars, serverVars>>
    \/ part = "webhook" /\ W!Next /\ UNCHANGED <<part, vars, serverVars>>
    \/ part = "server" /\ S!Next /\ UNCHANGED <<part, vars, webhookVars>>

\* The fairness of DispatchQueue and of InboundWebhook, where they run.
MCFairness ==
    /\ \A c \in Callers : WF_vars(part = "queue" /\ Wake(c))
    /\ WF_vars(part = "queue" /\ dispatch) /\ SF_vars(part = "queue" /\ dispatchExits)
    /\ \A w \in Workers : /\ WF_vars(part = "queue" /\ (worker(w) \/ workerExits(w)))
                          /\ WF_vars(part = "queue" /\ processJob(w))
    /\ WF_webhookVars(part = "webhook" /\ W!schedule)
    /\ WF_webhookVars(part = "webhook" /\ W!runJob)
    /\ SF_webhookVars(part = "webhook" /\ W!fetch)
    /\ WF_webhookVars(part = "webhook" /\ W!endJob)

MCSpec == MCInit /\ [][MCNext]_<<part, vars, webhookVars, serverVars>> /\ MCFairness

Types == TypeOK /\ W!TypeOK /\ S!TypeOK

\* What the parts promise for the end: an enqueued job reaches a worker unless
\* the pool is stopped, the dispatcher of a stopped pool returns, and a push
\* upstream gets into the mirror.  (On the way every variable keeps its type.)
WorkArrives == EnqueuedIsTaken /\ DispatcherStops /\ W!PushIsMirrored /\ []Types

\* See InboundWebhook and ServerLife.
CarriedIsOnItsWay == W!CarriedIsOnItsWay
WorkFindsItsServices == S!WorkFindsItsServices
================================================================================
