------------------------------ MODULE MCAccess ------------------------------
(***************************************************************************)
(* What a session gets: its user from the cache of validated ones, the live  *)
(* log, which authenticates once and re-checks, the figures of the           *)
(* dashboard and a search.  They have no variable in common, so `part' picks *)
(* initially the one that runs.                                             *)
(*                                                                         *)
(* Cache: two validations against two revocations of a user with a session   *)
(* and an API key, so that ChangePassword revokes one and not the other.     *)
(* Log: a stream of either kind, and more lines than its channel holds;      *)
(* streams share only the lists of the hub, whose methods hold its mutex     *)
(* throughout.                                                              *)
(* Dashboard: two requests, and one change they may or may not have seen.    *)
(* The savings are of no other figure, and run by themselves.               *)
(* Search: three repositories of which each may have a match, two goroutines *)
(* at a time, and room for two results.                                     *)
(***************************************************************************)
EXTENDS AuthCache

CONSTANTS
    s1, k1, alice,                       \* for AuthCache
    Streams, Capacity, MaxLines,         \* of LogStream
    MaxChanges, MaxFaults,               \* of Dashboard
    Repos, MaxMatches, Limit, Workers    \* of GlobalSearch

ASSUME LimitsAssumption ==
    {Capacity, MaxLines, MaxChanges, MaxFaults, MaxMatches, Limit, Workers} \subseteq Nat
ASSUME ReposAssumption == IsFiniteSet(Repos)

MCCreds == {s1, k1}
MCSessions == {s1}
MCUsers == {alice}
MCOwner == [c \in MCCreds |-> alice]

VARIABLES part, loop, watcher, subscribers, globalSubs, queue, open, panicked, cancelled,
          closeSent, gone, credential, lines,
          world, figure, walks, stats, polls, gauge, failures,
          matches, handler, todo, taken, sem, worker, left, results, found, over,
          excused

\* Streams of a repository, and the dashboard's.
L == INSTANCE LogStream WITH Firehoses <- {}
F == INSTANCE LogStream WITH Firehoses <- Streams

D == INSTANCE Dashboard
       WITH Requests <- Validators, act <- polls, faults <- failures

G == INSTANCE GlobalSearch WITH None <- NoUser

figureVars == <<world, figure, walks, stats, polls, gauge, failures>>
searchVars == <<matches, handler, todo, taken, sem, worker, left, results, found, over,
                excused>>
logVars == <<loop, watcher, subscribers, globalSubs, queue, open, panicked, cancelled, closeSent,
             gone, credential, lines>>

\* Where the cache does not run, it is in one of its initial states.
MCInit ==
    /\ Init /\ L!Init /\ D!Init /\ G!Init
    /\ \/ part = "cache" /\ credential = [w \in Streams |-> TRUE]
       \/ /\ part \in {"log", "firehose", "dashboard", "savings", "search"}
          /\ user = [u \in Users |-> [role |-> CHOOSE r \in Roles : TRUE, active |-> TRUE]]
          /\ part \in {"dashboard", "savings", "search"} => \A w \in Streams : credential[w]
    /\ part # "search" => \A r \in Repos : matches[r] = 0

MCNext ==
    \/ part = "cache" /\ Next /\ UNCHANGED <<part, logVars, figureVars, searchVars>>
    \/ part = "log" /\ L!Next /\ UNCHANGED <<part, vars, figureVars, searchVars>>
    \/ part = "firehose" /\ F!Next /\ UNCHANGED <<part, vars, figureVars, searchVars>>
    \/ /\ part = "dashboard" /\ D!Next /\ figure'["dedupe"] = figure["dedupe"]
       /\ UNCHANGED <<part, vars, logVars, searchVars>>
    \/ /\ part = "savings"
       /\ D!change \/ D!expire("dedupe") \/ D!DedupeSavings \/ D!refresh("dedupe")
       /\ UNCHANGED <<part, vars, logVars, searchVars>>
    \/ part = "search" /\ G!Next /\ UNCHANGED <<part, vars, logVars, figureVars>>

\* LogStream's fairness, where it runs.
Streaming == part \in {"log", "firehose"}
LogFairness ==
    \A w \in Streams :
        /\ WF_logVars(Streaming /\ L!capture(w))
        /\ WF_logVars((part = "log" /\ L!Subscribe(w)) \/ (part = "firehose" /\ F!SubscribeAll(w)))
        /\ WF_logVars(\/ part = "log" /\ L!Unsubscribe(w)
                      \/ part = "firehose" /\ F!UnsubscribeAll(w))
        /\ WF_logVars(Streaming /\ L!write(w))
        /\ SF_logVars(Streaming /\ L!stop(w))
        /\ WF_logVars(Streaming /\ L!readFails(w))
        /\ WF_logVars(Streaming /\ L!revalidate(w))
        /\ WF_logVars(Streaming /\ L!sendClose(w))
        /\ WF_logVars(Streaming /\ L!cancel(w))

\* Dashboard's, where it runs.
FigureFairness ==
    /\ WF_figureVars(part = "dashboard" /\ D!refresh("storage"))
    /\ WF_figureVars(part = "dashboard" /\ D!expire("storage"))
    /\ WF_figureVars(part = "dashboard" /\ D!expireStats)
    /\ WF_figureVars(part = "dashboard" /\ D!refreshGauges)
    /\ WF_figureVars(part = "dashboard" /\ \E r \in Validators : D!GetStats(r))
    /\ \A r \in Validators : WF_figureVars(part = "dashboard" /\ D!step(r))
    /\ WF_figureVars(part = "savings" /\ D!refresh("dedupe"))
    /\ WF_figureVars(part = "savings" /\ D!expire("dedupe"))
    /\ WF_figureVars(part = "savings" /\ D!DedupeSavings)

\* GlobalSearch's.
SearchFairness ==
    /\ WF_searchVars(part = "search" /\ G!handle)
    /\ \A r \in Repos : WF_searchVars(part = "search" /\ G!scan(r))

MCSpec ==
    /\ MCInit
    /\ [][MCNext]_<<part, vars, logVars, figureVars, searchVars>>
    /\ \A r \in Revokers : WF_vars(Evict(r))
    /\ LogFairness /\ FigureFairness /\ SearchFairness

\* See LogStream.
NoPanic == L!NoPanic

\* LogStream's StreamEnds, where the log runs.  (On the way every variable of it
\* keeps its type.)
StreamEnds ==
    /\ [](part = "firehose" \/ L!TypeOK) /\ [](part # "firehose" \/ F!TypeOK)
    /\ \A w \in Streams :
         (Streaming /\ (w \in gone \/ ~credential[w]))
             ~> \/ loop[w] = "done" /\ w \notin subscribers \cup globalSubs
                \/ loop[w] = "stalled" /\ w \notin gone

\* In the end a revoked credential is of no use: its cached entry is gone, and
\* so is the stream that it opened.
RevokedIsGone == StaleEntryGoes /\ StreamEnds

\* See GlobalSearch.  (And every variable of it keeps its type.)
SearchIsComplete == G!SearchIsComplete /\ G!TypeOK

\* Who reads is served: no figure of the dashboard goes back to an older state,
\* once nothing changes all of them agree with what is there, and a search answers.
\* (On the way every variable of Dashboard keeps its type.)
ReadersAreServed ==
    /\ D!FiguresAdvance /\ []D!TypeOK
    /\ <>[](part # "dashboard" \/ D!DashboardAgrees)
    /\ <>[](part # "savings" \/ D!SavingsAgree)
    /\ <>(part # "search" \/ handler = "done")
=============================================================================
