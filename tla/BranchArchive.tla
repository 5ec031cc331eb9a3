---------------------------- MODULE BranchArchive ----------------------------
(***************************************************************************)
(* Branches deleted upstream and kept in the paperbin: the fetch that      *)
(* prunes and archives them (gitops/worker.go), the requests that restore  *)
(* or delete them (handlers/repository_handler.go) and the cleanup worker  *)
(* that expires them (gitops/cleanup_worker.go).  An archived branch is a  *)
(* row in the database and a ref in the repository; nothing writes both at *)
(* once.  Rows older than per-event refs share one ref per branch name.    *)
(* Branch names are ones the validator accepts.                            *)
(***************************************************************************)
EXTENDS Naturals

CONSTANTS Branches, Commits,
          Events,        \* deletions of a branch, by the id of their row
          Requests,      \* goroutines that serve HTTP requests
          None,          \* no commit, no row: a model value
          MaxFaults      \* bound on failing git and database operations and crashes

DeletedBranch == [branch : Branches, sha : Commits, legacy : BOOLEAN]

VARIABLES
  tracked,   \* refs/remotes/origin/b
  heads,     \* refs/heads/b
  refs,      \* refs/paperbin/events/e
  shared,    \* refs/paperbin/heads/b
  stored,    \* the repository is live and at its path; else in the paperbin
  info,      \* info[e]: what the row of event e says, once it happened
  rows,      \* events with a row in deleted_branches
  job,       \* the git job of the repository and its local variables
  act,       \* act[a]: where request or cleaner a is
  owed,      \* history: tips of pruned branches nobody has decided to give up
             \* and no failing step has lost
  released,  \* history: events whose ref was released on their own behalf
  stray,     \* history: events whose row went while their ref stayed
  faults

repoVars == <<tracked, heads, refs, shared, stored>>
rowVars == <<info, rows>>
history == <<owed, released, stray>>
vars == <<repoVars, rowVars, job, act, history, faults>>

Tips == [Branches -> Commits \cup {None}]
Actors == Requests \cup {"cleaner"}
NoJob == [pc |-> "idle", before |-> [b \in Branches |-> None], made |-> {}]
Idle == [pc |-> "idle", event |-> None, kind |-> "none"]

TypeOK ==
  /\ {tracked, heads, shared} \subseteq Tips
  /\ refs \in [Events -> Commits \cup {None}]
  /\ stored \in BOOLEAN
  /\ info \in [Events -> DeletedBranch \cup {None}]
  /\ \A E \in {rows, released, stray} : E \subseteq Events
  /\ job \in [pc : {"idle", "compare", "archive", "dropRefs"},
              before : Tips, made : SUBSET Events]
  /\ act \in [Actors -> [pc : {"idle", "recreate", "count", "deleteRef", "deleteRow"},
                         event : Events \cup {None},
                         kind : {"none", "restore", "permanentDelete", "expire"}]]
  /\ owed \subseteq Commits
  /\ faults \in 0..MaxFaults

\* A mirrored repository, and rows an older release left: of those for one
\* branch, the last one holds the ref they share.
Init ==
  /\ tracked \in [Branches -> Commits]
  /\ heads = [b \in Branches |-> None]
  /\ refs = [e \in Events |-> None]
  /\ info \in [Events -> {d \in DeletedBranch : d.legacy /\ d.sha # tracked[d.branch]} \cup {None}]
  /\ rows = {e \in Events : info[e] # None}
  /\ shared \in Tips
  /\ \A b \in Branches :
       LET old == {info[e].sha : e \in {l \in rows : info[l].branch = b}}
       IN  IF old = {} THEN shared[b] = None ELSE shared[b] \in old
  /\ stored = TRUE
  /\ job = NoJob /\ act = [a \in Actors |-> Idle]
  /\ released = {e \in rows : shared[info[e].branch] # info[e].sha}
  /\ owed = {shared[b] : b \in Branches} \ {None}
  /\ stray = {}
  /\ faults = 0

fault == faults < MaxFaults /\ faults' = faults + 1

-----------------------------------------------------------------------------
(* What happens elsewhere: the repository moves into its archive and back,  *)
(* refs and all (Paperbin has the steps).                                   *)

deleteRepository ==
  /\ stored /\ stored' = FALSE
  /\ UNCHANGED <<tracked, heads, refs, shared, rowVars, job, act, history, faults>>

restoreRepository ==
  /\ ~stored /\ stored' = TRUE
  /\ UNCHANGED <<tracked, heads, refs, shared, rowVars, job, act, history, faults>>

-----------------------------------------------------------------------------
(* The worker.                                                              *)

ArchivalRef(e) == IF info[e].legacy THEN shared[info[e].branch] ELSE refs[e]

\* Branches the job has seen before its fetch and not after it.
Pruned == {b \in Branches : job.before[b] # None /\ tracked[b] = None}
Unsaved == {job.before[b] : b \in Pruned}

\* GetReferences, then FetchRepository brings the remote-tracking branches to
\* what the remote has, and prunes.  It can fail without having done so, or
\* afterwards: the reset of the worktree and LFS come last.  (A bound: an
\* archived commit is not pushed again.)
FetchRepository(remote) ==
  /\ job.pc = "idle" /\ stored
  /\ \A e \in Events : info[e] # None => info[e].sha # remote[info[e].branch]
  /\ tracked' = remote
  /\ LET gone == {tracked[b] : b \in {c \in Branches : remote[c] = None}} \ {None}
     IN  \/ /\ job' = [job EXCEPT !.pc = "compare", !.before = tracked]
            /\ owed' = owed \cup gone
            /\ UNCHANGED faults
         \/ fault /\ owed' = owed \ gone /\ UNCHANGED job
  /\ UNCHANGED <<heads, refs, shared, stored, rowVars, act, released, stray>>

\* GetReferences after it; without an answer nothing is archived.
refsAfter ==
  /\ job.pc = "compare"
  /\ \/ stored /\ job' = [job EXCEPT !.pc = "archive"] /\ UNCHANGED <<owed, faults>>
     \/ ~stored /\ job' = NoJob /\ owed' = owed \ Unsaved /\ UNCHANGED faults
     \/ stored /\ fault /\ job' = NoJob /\ owed' = owed \ Unsaved
  /\ UNCHANGED <<repoVars, rowVars, act, released, stray>>

\* update-ref for one pruned branch, under the id its row will have; when it
\* fails the branch is skipped.
protect(b, e) ==
  /\ job.pc = "archive" /\ b \in Pruned
  /\ info[e] = None
  /\ \/ /\ stored
        /\ refs' = [refs EXCEPT ![e] = job.before[b]]
        /\ info' = [info EXCEPT ![e] = [branch |-> b, sha |-> job.before[b], legacy |-> FALSE]]
        /\ job' = [job EXCEPT !.before[b] = None, !.made = @ \cup {e}]
        /\ UNCHANGED <<owed, faults>>
     \/ /\ IF stored THEN fault ELSE UNCHANGED faults
        /\ job' = [job EXCEPT !.before[b] = None]
        /\ owed' = owed \ {job.before[b]}
        /\ UNCHANGED <<refs, info>>
  /\ UNCHANGED <<tracked, heads, shared, stored, rows, act,
                 released, stray>>

\* One transaction for the rows of the fetch.
saveRows ==
  /\ job.pc = "archive" /\ Pruned = {}
  /\ \/ rows' = rows \cup job.made /\ job' = NoJob /\ UNCHANGED <<owed, faults>>
     \/ /\ job.made # {} /\ fault
        /\ job' = [job EXCEPT !.pc = "dropRefs"]
        /\ owed' = owed \ {info[e].sha : e \in job.made}
        /\ UNCHANGED rows
  /\ UNCHANGED <<repoVars, info, act, released, stray>>

\* The rows were not written: drop the refs nothing will ever name.
dropRef(e) ==
  /\ job.pc = "dropRefs" /\ e \in job.made
  /\ \/ stored /\ refs' = [refs EXCEPT ![e] = None] /\ UNCHANGED <<stray, faults>>
     \/ /\ IF stored THEN fault ELSE UNCHANGED faults
        /\ stray' = stray \cup {e} /\ UNCHANGED refs
  /\ job' = IF job.made = {e} THEN NoJob ELSE [job EXCEPT !.made = @ \ {e}]
  /\ UNCHANGED <<tracked, heads, shared, stored, rowVars, act,
                 owed, released>>

-----------------------------------------------------------------------------
(* RestoreBranch, PermanentDeleteBranch and the cleanup worker.             *)

goto(a, pc) == act' = [act EXCEPT ![a] = IF pc = "idle" THEN Idle ELSE [@ EXCEPT !.pc = pc]]

RestoreBranch(r, e) ==
  /\ act[r] = Idle /\ e \in rows /\ stored
  /\ act' = [act EXCEPT ![r] = [pc |-> "recreate", event |-> e, kind |-> "restore"]]
  /\ UNCHANGED <<repoVars, rowVars, job, history, faults>>

\* Mutant: the errors of git branch are ignored.
recreateAnyway(r) ==
  /\ act[r].pc = "recreate"
  /\ LET e == act[r].event
         b == info[e].branch
     IN  \/ /\ stored
            /\ heads' = [heads EXCEPT ![b] = info[e].sha]
            /\ owed' = owed \ ({heads[b]} \ {info[e].sha})
            /\ UNCHANGED faults
         \/ /\ IF stored THEN fault ELSE UNCHANGED faults
            /\ UNCHANGED <<heads, owed>>
  /\ goto(r, "count")
  /\ UNCHANGED <<tracked, refs, shared, stored, rowVars, job, released, stray>>

\* git branch, and with -f when the branch exists; the commit it was at is
\* then no longer kept by it.
recreateBranch(r) ==
  /\ act[r].pc = "recreate"
  /\ LET e == act[r].event
         b == info[e].branch
     IN  \/ /\ stored
            /\ heads' = [heads EXCEPT ![b] = info[e].sha]
            /\ owed' = owed \ ({heads[b]} \ {info[e].sha})
            /\ goto(r, "count")
            /\ UNCHANGED faults
         \/ /\ IF stored THEN fault ELSE UNCHANGED faults
            /\ goto(r, "idle") /\ UNCHANGED <<heads, owed>>
  /\ UNCHANGED <<tracked, refs, shared, stored, rowVars, job,
                 released, stray>>

\* The ref of a repository that is not live is left alone.
PermanentDeleteBranch(r, e) ==
  /\ act[r] = Idle /\ e \in rows
  /\ act' = [act EXCEPT ![r] = [pc |-> IF stored THEN "count" ELSE "deleteRow",
                                event |-> e, kind |-> "permanentDelete"]]
  /\ owed' = owed \ {info[e].sha}
  /\ stray' = IF stored THEN stray ELSE stray \cup {e}
  /\ UNCHANGED <<repoVars, rowVars, job, released, faults>>

\* The cleaner has the row in the list it loaded, and its retention is over.
expireBranch(e) ==
  /\ act["cleaner"] = Idle /\ e \in rows
  /\ act' = [act EXCEPT !["cleaner"] = [pc |-> "count", event |-> e, kind |-> "expire"]]
  /\ owed' = owed \ {info[e].sha}
  /\ UNCHANGED <<repoVars, rowVars, job, released, stray, faults>>

\* Mutant: a legacy row does not look for others that share its ref.
otherLegacyNever(e) == {}

otherLegacy(e) ==
  IF info[e].legacy
  THEN {o \in rows \ {e} : info[o].legacy /\ info[o].branch = info[e].branch} ELSE {}

\* ReleaseArchivalRef: a ref shared with other rows stays.
countOthers(a) ==
  /\ act[a].pc = "count"
  /\ goto(a, IF otherLegacy(act[a].event) = {} THEN "deleteRef" ELSE "deleteRow")
  /\ UNCHANGED <<repoVars, rowVars, job, history, faults>>

\* The ref goes if it still holds the commit of the row.
dropArchivalRef(e) ==
  IF ~stored \/ ArchivalRef(e) # info[e].sha THEN UNCHANGED <<refs, shared>>
  ELSE IF info[e].legacy
       THEN shared' = [shared EXCEPT ![info[e].branch] = None] /\ UNCHANGED refs
       ELSE refs' = [refs EXCEPT ![e] = None] /\ UNCHANGED shared

\* A failing release keeps the row, but for a restored branch.
deleteRef(a) ==
  /\ act[a].pc = "deleteRef"
  /\ LET e == act[a].event
         best == act[a].kind = "restore"
     IN  \/ /\ dropArchivalRef(e)
            /\ released' = released \cup {e}
            /\ stray' = IF stored THEN stray ELSE stray \cup {e}
            /\ goto(a, "deleteRow") /\ UNCHANGED faults
         \/ /\ stored /\ fault
            /\ stray' = IF best THEN stray \cup {e} ELSE stray
            /\ goto(a, IF best THEN "deleteRow" ELSE "idle")
            /\ UNCHANGED <<refs, shared, released>>
  /\ UNCHANGED <<tracked, heads, stored, rowVars, job, owed>>

deleteRow(a) ==
  /\ act[a].pc = "deleteRow"
  /\ \/ rows' = rows \ {act[a].event} /\ UNCHANGED faults
     \/ fault /\ UNCHANGED rows
  /\ goto(a, "idle")
  /\ UNCHANGED <<repoVars, info, job, history>>

crash ==
  /\ fault
  /\ owed' = owed \ ((IF job.pc \in {"compare", "archive"} THEN Unsaved ELSE {})
                      \cup {info[e].sha : e \in job.made})
  /\ stray' = stray \cup job.made
  /\ job' = NoJob /\ act' = [a \in Actors |-> Idle]
  /\ UNCHANGED <<repoVars, rowVars, released>>

Fetch ==
  \/ (\E remote \in Tips : FetchRepository(remote)) \/ refsAfter \/ saveRows
  \/ \E b \in Branches, e \in Events : protect(b, e)
  \/ \E e \in Events : dropRef(e)

Release(a) == countOthers(a) \/ deleteRef(a) \/ deleteRow(a)

Cleaner == (\E e \in Events : expireBranch(e)) \/ Release("cleaner")

Next ==
  \/ Fetch \/ Cleaner
  \/ \E r \in Requests :
       \/ \E e \in Events : RestoreBranch(r, e) \/ PermanentDeleteBranch(r, e)
       \/ recreateBranch(r) \/ Release(r)
  \/ deleteRepository \/ restoreRepository
  \/ crash

Spec == Init /\ [][Next]_vars

-----------------------------------------------------------------------------
(* A row that was not itself released has its ref, at its commit: no other  *)
(* event's expiry, restore or deletion unprotects it, and it is written     *)
(* only after its ref.                                                      *)
RowHasRef == \A e \in rows \ released : ArchivalRef(e) = info[e].sha

(* An event's ref has a row that leads to it, or the job that is about to   *)
(* write one; the strays are crashes, failed clean-ups, restores whose      *)
(* release failed and rows deleted while the repository was in the          *)
(* paperbin.                                                                *)
RefHasRow == \A e \in Events : refs[e] # None => e \in rows \cup job.made \cup stray

(* The commit of a pruned branch stays reachable and can be asked back      *)
(* until someone decides otherwise or a step of the fetch fails: it is the  *)
(* tip of a branch, in a row that has its ref, or on its way there.         *)
PrunedIsKept ==
  \A c \in owed :
     \/ \E b \in Branches : c \in {tracked[b], heads[b]}
     \/ \E e \in rows : info[e].sha = c /\ ArchivalRef(e) = c
     \/ job.pc \in {"compare", "archive"} /\ c \in Unsaved
     \/ \E e \in job.made : info[e].sha = c
=============================================================================
