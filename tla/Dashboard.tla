------------------------------ MODULE Dashboard ------------------------------
(***************************************************************************)
(* The figures of the dashboard (dashboard_service.go, dedupe_savings.go):   *)
(* the size of the storage and the space saved by shared pools, each         *)
(* measured by one walk in the background when someone asks and the last     *)
(* figure is too old; the statistics, which any request computes that finds  *)
(* the kept ones too old, and which take the size from the former; and the   *)
(* gauges that a ticker sets.                                               *)
(*                                                                         *)
(* What is counted is a version number: a figure `knows' every change up to  *)
(* its value (a walk of a tree that changes may see later ones too), and 0   *)
(* is the figure before the first.  Time is whether a figure is fresh.       *)
(***************************************************************************)
EXTENDS Naturals

CONSTANTS Requests,     \* requests in GetStats
          MaxChanges,   \* bound on changes of repositories
          MaxFaults     \* bound on queries that fail

VARIABLES
    world,     \* the version of the rows and of the trees
    figure,    \* figure[k]: its value, is it younger than its TTL, is a walk marked
    walks,     \* background refreshes under way
    stats,     \* cachedStats, and is it younger than statsCacheTTL
    act,       \* act[r]: where request r is, and the snapshot it is computing
    gauge,     \* what the ticker published last
    faults

vars == <<world, figure, walks, stats, act, gauge, faults>>

Kinds == {"storage", "dedupe"}
Versions == 0..(MaxChanges + 1)
Idle == [pc |-> "idle", rows |-> 0, total |-> 0]

TypeOK ==
    /\ world \in Versions
    /\ figure \in [Kinds -> [value : Versions, fresh : BOOLEAN, refreshing : BOOLEAN]]
    /\ walks \subseteq [kind : Kinds, from : Versions, published : BOOLEAN]
    /\ stats \in [rows : Versions, total : Versions, fresh : BOOLEAN]
    /\ act \in [Requests -> [pc : {"idle", "scan", "size", "store"},
                             rows : Versions, total : Versions]]
    /\ gauge \in [rows : Versions, storage : Versions]
    /\ faults \in 0..MaxFaults

Init ==
    /\ world = 1
    /\ figure = [k \in Kinds |-> [value |-> 0, fresh |-> FALSE, refreshing |-> FALSE]]
    /\ walks = {}
    /\ stats = [rows |-> 0, total |-> 0, fresh |-> FALSE]
    /\ act = [r \in Requests |-> Idle]
    /\ gauge = [rows |-> 0, storage |-> 0]
    /\ faults = 0

fault == faults < MaxFaults /\ faults' = faults + 1

\* A job, a request or the cleaner has changed a tree and written it to the rows.
change ==
    /\ world <= MaxChanges /\ world' = world + 1
    /\ UNCHANGED <<figure, walks, stats, act, gauge, faults>>

\* storageSizeTTL or dedupeSavingsTTL passes.
expire(k) ==
    /\ figure[k].fresh /\ figure' = [figure EXCEPT ![k].fresh = FALSE]
    /\ UNCHANGED <<world, walks, stats, act, gauge, faults>>

\* statsCacheTTL passes.
expireStats ==
    /\ stats.fresh /\ stats' = [stats EXCEPT !.fresh = FALSE]
    /\ UNCHANGED <<world, figure, walks, act, gauge, faults>>

-----------------------------------------------------------------------------
(* One walk at a time.                                                     *)

walk(k) == [kind |-> k, from |-> world, published |-> FALSE]

\* Mutant: whoever finds the figure too old starts a walk.
readAndWalk(k) ==
    IF figure[k].fresh
    THEN UNCHANGED <<figure, walks>>
    ELSE /\ figure' = [figure EXCEPT ![k].refreshing = TRUE]
         /\ walks' = walks \cup {walk(k)}

\* The figure is read, and a walk is started when it is too old and none is
\* marked, while the mutex is held.
readAndRefresh(k) ==
    IF figure[k].fresh \/ figure[k].refreshing
    THEN UNCHANGED <<figure, walks>>
    ELSE /\ figure' = [figure EXCEPT ![k].refreshing = TRUE]
         /\ walks' = walks \cup {walk(k)}

paperbinSizeBytes ==
    /\ readAndRefresh("storage")
    /\ UNCHANGED <<world, stats, act, gauge, faults>>

DedupeSavings ==
    /\ readAndRefresh("dedupe")
    /\ UNCHANGED <<world, stats, act, gauge, faults>>

\* Value, time and mark are set together.
refreshStorage(w) ==
    /\ w.kind = "storage"
    /\ figure' = [figure EXCEPT !["storage"] =
                    [value |-> w.from, fresh |-> TRUE, refreshing |-> FALSE]]
    /\ walks' = walks \ {w}
    /\ UNCHANGED <<world, stats, act, gauge, faults>>

\* The mark is taken back by a deferred call of its own.
refreshDedupeSavings(w) ==
    /\ w.kind = "dedupe" /\ ~w.published
    /\ figure' = [figure EXCEPT !["dedupe"].value = w.from, !["dedupe"].fresh = TRUE]
    /\ walks' = (walks \ {w}) \cup {[w EXCEPT !.published = TRUE]}
    /\ UNCHANGED <<world, stats, act, gauge, faults>>

refreshDone(w) ==
    /\ w.kind = "dedupe"
    /\ \/ w.published /\ UNCHANGED faults
       \/ ~w.published /\ fault            \* the URLs cannot be read
    /\ figure' = [figure EXCEPT !["dedupe"].refreshing = FALSE]
    /\ walks' = walks \ {w}
    /\ UNCHANGED <<world, stats, act, gauge>>

-----------------------------------------------------------------------------
(* Statistics.  The mutex is not held while they are computed.              *)

\* The kept ones are too old (or it returns them).
GetStats(r) ==
    /\ act[r].pc = "idle" /\ ~stats.fresh
    /\ act' = [act EXCEPT ![r].pc = "scan"]
    /\ UNCHANGED <<world, figure, walks, stats, gauge, faults>>

\* Repositories and jobs by status.
scan(r) ==
    /\ act[r].pc = "scan"
    /\ act' = [act EXCEPT ![r].pc = "size", ![r].rows = world]
    /\ UNCHANGED <<world, figure, walks, stats, gauge, faults>>

scanFails(r) ==
    /\ act[r].pc = "scan"
    /\ fault
    /\ act' = [act EXCEPT ![r] = Idle]
    /\ UNCHANGED <<world, figure, walks, stats, gauge>>

\* The sum of the rows once every active repository has a size in it.
sumSizes(r) ==
    /\ act[r].pc = "size"
    /\ act' = [act EXCEPT ![r].pc = "store", ![r].total = world]
    /\ UNCHANGED <<world, figure, walks, stats, gauge, faults>>

\* Otherwise, or if the query fails, the size of the storage.
totalStorageBytes(r) ==
    /\ act[r].pc = "size"
    /\ readAndRefresh("storage")
    /\ act' = [act EXCEPT ![r].pc = "store", ![r].total = figure["storage"].value]
    /\ UNCHANGED <<world, stats, gauge, faults>>

storeStats(r) ==
    /\ act[r].pc = "store"
    /\ stats' = [rows |-> act[r].rows, total |-> act[r].total, fresh |-> TRUE]
    /\ act' = [act EXCEPT ![r] = Idle]
    /\ UNCHANGED <<world, figure, walks, gauge, faults>>

\* At the start and on every tick; the first gauge stays if its query fails.
refreshGauges ==
    /\ readAndRefresh("storage")
    /\ \/ gauge' = [rows |-> world, storage |-> figure["storage"].value] /\ UNCHANGED faults
       \/ gauge' = [gauge EXCEPT !.storage = figure["storage"].value] /\ fault
    /\ UNCHANGED <<world, stats, act>>

step(r) == scan(r) \/ scanFails(r) \/ sumSizes(r) \/ totalStorageBytes(r) \/ storeStats(r)

refresh(k) ==
    \E w \in walks :
        w.kind = k /\ (refreshStorage(w) \/ refreshDedupeSavings(w) \/ refreshDone(w))

Next ==
    \/ change \/ expireStats
    \/ \E k \in Kinds : expire(k) \/ refresh(k)
    \/ paperbinSizeBytes \/ DedupeSavings \/ refreshGauges
    \/ \E r \in Requests : GetStats(r) \/ step(r)

\* The ticker ticks, walks and requests end, time passes, and a dashboard that
\* stays open polls the rest.
Fairness ==
    /\ \A k \in Kinds : WF_vars(refresh(k)) /\ WF_vars(expire(k))
    /\ WF_vars(expireStats)
    /\ WF_vars(refreshGauges) /\ WF_vars(DedupeSavings)
    /\ WF_vars(\E r \in Requests : GetStats(r))
    /\ \A r \in Requests : WF_vars(step(r))

Spec == Init /\ [][Next]_vars /\ Fairness

-----------------------------------------------------------------------------
\* "Only one refresh runs at a time": a walk that began earlier never lands on
\* the figure of a later one, so that what the two caches show never goes back
\* to an older state of the tree.
FiguresAdvance == [][\A k \in Kinds : figure'[k].value >= figure[k].value]_vars

\* What is shown agrees with what is there.
DashboardAgrees ==
    /\ figure["storage"].value = world
    /\ gauge = [rows |-> world, storage |-> world]
    /\ stats.rows = world /\ stats.total = world

SavingsAgree == figure["dedupe"].value = world

\* Once repositories stop changing, all that an open dashboard shows comes to
\* agree with them and stays so, whatever failed and whoever overwrote a newer
\* snapshot with an older one on the way: no mark of a walk is left set, and no
\* cache keeps alive what it took from another.
FiguresSettle == <>[]DashboardAgrees /\ <>[]SavingsAgree
=============================================================================
