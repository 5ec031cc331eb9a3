------------------------------ MODULE ServerLife ------------------------------
(***************************************************************************)
(* cmd/server/main.go: the order in which main brings up the database, its *)
(* content and the services, and the order in which the deferred calls     *)
(* take them down.  What the services do is reduced to what they ask of    *)
(* each other: a request and a clone job write rows, a clone job ends with *)
(* an event for the webhook service, and a delivery writes its row; two    *)
(* loops (the scheduler and the cleanup worker stand for the metrics       *)
(* collector too) are told to stop and not waited for.                     *)
(***************************************************************************)
EXTENDS Naturals, Sequences

CONSTANTS Requests, Jobs,
          MaxStarts           \* bound: starts of the process

VARIABLES
    stage,      \* where main is
    deferred,   \* main's deferred Stops, the next to run first
    db,         \* the connection pool is open
    schema, admin, tags,      \* what the database holds
    requests,   \* handlers of the HTTP server that run
    accepting,  \* softStop of the clone worker is not closed
    cancelled,  \* the clone worker's context is done
    jobs,       \* jobs[j]: what a worker goroutine does with job j
    delivering, \* a delivery worker holds an event
    taking,     \* the webhook service's context is not done
    told,       \* loops whose done channel is closed
    working,    \* loops in the middle of a pass
    starts

tables == <<schema, admin, tags>>
clones == <<accepting, cancelled, jobs>>
events == <<delivering, taking>>
loops == <<told, working>>
vars == <<stage, deferred, db, tables, requests, clones, events, loops, starts>>

\* Mutant: the webhook service's Stop is deferred after the clone worker's.
ServicesSwapped == <<"clones", "webhooks", "scheduler", "cleanup">>

\* The services that have something to stop, in the order they are started.
Services == <<"webhooks", "clones", "scheduler", "cleanup">>
Loops == {"scheduler", "cleanup"}

JobAt == {"idle", "git", "record", "emit"}

TypeOK ==
    /\ stage \in {"off", "schema", "admin", "tags", "services", "up", "drain", "stop"}
    /\ db \in BOOLEAN /\ schema \in BOOLEAN /\ admin \in BOOLEAN /\ tags \in BOOLEAN
    /\ requests \subseteq Requests /\ jobs \in [Jobs -> JobAt]
    /\ accepting \in BOOLEAN /\ cancelled \in BOOLEAN
    /\ delivering \in BOOLEAN /\ taking \in BOOLEAN
    /\ told \subseteq Loops /\ working \subseteq Loops /\ starts \in 0..MaxStarts

Init ==
    /\ stage = "off" /\ deferred = <<>> /\ db = FALSE
    /\ schema = FALSE /\ admin = FALSE /\ tags = FALSE
    /\ requests = {} /\ accepting = FALSE /\ cancelled = FALSE
    /\ jobs = [j \in Jobs |-> "idle"]
    /\ delivering = FALSE /\ taking = FALSE
    /\ told = {} /\ working = {} /\ starts = 0

inFlight == {j \in Jobs : jobs[j] # "idle"}
running(s) == s \in {deferred[i] : i \in DOMAIN deferred}

-----------------------------------------------------------------------------
(* main, up to serving.                                                    *)

\* database.Connect; `defer database.Close()'.
connect ==
    /\ stage = "off" /\ starts < MaxStarts
    /\ stage' = "schema" /\ deferred' = <<"db">> /\ db' = TRUE
    /\ starts' = starts + 1
    /\ UNCHANGED <<tables, requests, clones, events, loops>>

\* AutoMigrate, RunSQLMigrations, MigrateStoragePaths.
migrate ==
    /\ stage = "schema"
    /\ schema' = TRUE /\ stage' = "admin"
    /\ UNCHANGED <<deferred, db, admin, tags, requests, clones, events, loops, starts>>

\* createDefaultAdmin: with a user in the table it is done, with or without
\* the password reset, and the default tags are not looked at; else the admin
\* is inserted.
createDefaultAdmin ==
    /\ stage = "admin"
    /\ stage' = IF admin THEN "services" ELSE "tags"
    /\ admin' = TRUE
    /\ UNCHANGED <<deferred, db, schema, tags, requests, clones, events, loops, starts>>

\* createDefaultAdmin: the default tags.
createDefaultTags ==
    /\ stage = "tags"
    /\ tags' = TRUE /\ stage' = "services"
    /\ UNCHANGED <<deferred, db, schema, admin, requests, clones, events, loops, starts>>

\* Each service is built, started where it has a Start, and its Stop deferred.
start(s) ==
    /\ stage = "services"
    /\ Len(deferred) \in DOMAIN Services /\ s = Services[Len(deferred)]
    /\ deferred' = <<s>> \o deferred
    /\ taking' = (taking \/ s = "webhooks")
    /\ accepting' = (accepting \/ s = "clones")
    /\ UNCHANGED <<stage, db, tables, requests, cancelled, jobs, delivering, loops, starts>>

\* The router is set up and ListenAndServe runs in its goroutine.
serve ==
    /\ stage = "services" /\ Len(deferred) > Len(Services)
    /\ stage' = "up"
    /\ UNCHANGED <<deferred, db, tables, requests, clones, events, loops, starts>>

\* The process is gone, and with it what it held in memory.
gone ==
    /\ stage' = "off" /\ deferred' = <<>> /\ db' = FALSE /\ requests' = {}
    /\ accepting' = FALSE /\ cancelled' = FALSE /\ jobs' = [j \in Jobs |-> "idle"]
    /\ delivering' = FALSE /\ taking' = FALSE /\ told' = {} /\ working' = {}
    /\ UNCHANGED <<tables, starts>>

\* A crash, or log.Fatalf of a failing start or listener: no deferred call
\* runs.
crash == stage # "off" /\ gone

-----------------------------------------------------------------------------
(* main, from the signal on.                                               *)

\* SIGINT or SIGTERM; srv.Shutdown stops accepting requests.
shutdown ==
    /\ stage = "up"
    /\ stage' = "drain"
    /\ UNCHANGED <<deferred, db, tables, requests, clones, events, loops, starts>>

\* srv.Shutdown returns: main returns and its deferred calls begin.
drained ==
    /\ stage = "drain" /\ requests = {}
    /\ stage' = "stop"
    /\ UNCHANGED <<deferred, db, tables, requests, clones, events, loops, starts>>

\* A request outlives the 30 seconds: log.Fatalf.
forced == stage = "drain" /\ requests # {} /\ gone

next(s) == stage = "stop" /\ deferred # <<>> /\ Head(deferred) = s

\* Scheduler.Stop and CleanupWorker.Stop close a channel.
stopLoop(s) ==
    /\ s \in Loops /\ next(s)
    /\ told' = told \cup {s}
    /\ deferred' = Tail(deferred)
    /\ UNCHANGED <<stage, db, tables, requests, clones, events, working, starts>>

\* CloneWorker.Stop: no job is admitted any more.
stopAdmitting ==
    /\ next("clones") /\ accepting
    /\ accepting' = FALSE
    /\ UNCHANGED <<stage, deferred, db, tables, requests, cancelled, jobs, events, loops, starts>>

\* CloneWorker.Stop: the jobs are done, or shutdownGrace is over.
cancel ==
    /\ next("clones") /\ ~accepting /\ ~cancelled
    /\ cancelled' = TRUE
    /\ UNCHANGED <<stage, deferred, db, tables, requests, accepting, jobs, events, loops, starts>>

\* CloneWorker.Stop: wg.Wait returns.
stopped ==
    /\ next("clones") /\ cancelled /\ inFlight = {}
    /\ deferred' = Tail(deferred)
    /\ UNCHANGED <<stage, db, tables, requests, clones, events, loops, starts>>

\* WebhookService.Stop: cancel, then workers.Wait.
stopDelivering ==
    /\ next("webhooks") /\ taking
    /\ taking' = FALSE
    /\ UNCHANGED <<stage, deferred, db, tables, requests, clones, delivering, loops, starts>>

delivered ==
    /\ next("webhooks") /\ ~taking /\ ~delivering
    /\ deferred' = Tail(deferred)
    /\ UNCHANGED <<stage, db, tables, requests, clones, events, loops, starts>>

\* database.Close.
close ==
    /\ next("db")
    /\ db' = FALSE /\ deferred' = <<>>
    /\ UNCHANGED <<stage, tables, requests, clones, events, loops, starts>>

\* main has returned; loops still in a pass end with the process.
exit == stage = "stop" /\ deferred = <<>> /\ gone

-----------------------------------------------------------------------------
(* Everyone else.                                                          *)

request(r) ==
    /\ stage = "up" /\ r \notin requests
    /\ requests' = requests \cup {r}
    /\ UNCHANGED <<stage, deferred, db, tables, clones, events, loops, starts>>

respond(r) ==
    /\ r \in requests
    /\ requests' = requests \ {r}
    /\ UNCHANGED <<stage, deferred, db, tables, clones, events, loops, starts>>

setJob(j, at) ==
    /\ jobs' = [jobs EXCEPT ![j] = at]
    /\ UNCHANGED <<stage, deferred, db, tables, requests, accepting, cancelled, taking, loops, starts>>

\* A worker admits a job, from before the pool was told to stop.
runJob(j) == jobs[j] = "idle" /\ accepting /\ setJob(j, "git") /\ UNCHANGED delivering

\* Git ends by itself or, cancelled, is killed.
gitEnds(j) == jobs[j] = "git" /\ setJob(j, "record") /\ UNCHANGED delivering

\* The row gets its last status; an interrupted job sends no event.
record(j) ==
    /\ jobs[j] = "record"
    /\ \/ setJob(j, "emit")
       \/ cancelled /\ setJob(j, "idle")
    /\ UNCHANGED delivering

\* SendEvent: the service takes the event, or its queue is full.
emit(j) ==
    /\ jobs[j] = "emit" /\ setJob(j, "idle")
    /\ delivering' \in {delivering, delivering \/ taking}

\* A delivery ends and its row is written, cancelled or not.
deliver ==
    /\ delivering /\ delivering' = FALSE
    /\ UNCHANGED <<stage, deferred, db, tables, requests, clones, taking, loops, starts>>

\* A loop's select: a tick begins a pass.
tick(s) ==
    /\ s \in Loops \ (working \cup told) /\ running(s)
    /\ working' = working \cup {s}
    /\ UNCHANGED <<stage, deferred, db, tables, requests, clones, events, told, starts>>

passEnds(s) ==
    /\ s \in working
    /\ working' = working \ {s}
    /\ UNCHANGED <<stage, deferred, db, tables, requests, clones, events, told, starts>>

Next ==
    \/ connect \/ migrate \/ createDefaultAdmin \/ createDefaultTags \/ serve
    \/ \E s \in {"webhooks", "clones"} \cup Loops : start(s)
    \/ \E s \in Loops : stopLoop(s) \/ tick(s) \/ passEnds(s)
    \/ crash \/ shutdown \/ drained \/ forced
    \/ stopAdmitting \/ cancel \/ stopped \/ stopDelivering \/ delivered \/ close \/ exit
    \/ \E r \in Requests : request(r) \/ respond(r)
    \/ \E j \in Jobs : runJob(j) \/ gitEnds(j) \/ record(j) \/ emit(j)
    \/ deliver

Spec == Init /\ [][Next]_vars

\* Whoever still has a row to write or an event to hand over finds the service
\* it needs alive: a request, a job or a delivery never meets a closed
\* database, a job's event never meets a stopped webhook service, and nobody
\* is served before an administrator exists.  (Only the order of main's
\* deferred calls and the waiting in two of the Stops see to it.)
WorkFindsItsServices ==
    /\ requests # {} \/ inFlight # {} \/ delivering => db
    /\ requests # {} => admin /\ taking /\ accepting
    /\ inFlight # {} => taking
===============================================================================
