----------------------------- MODULE SharedPool -----------------------------
(***************************************************************************)
(* The object pool that the mirrors of one URL share: updatePool and its   *)
(* two callers in gitops/gitops.go, and cleanupPools, which collects the   *)
(* garbage of all pools (gitops/cleanup_worker.go).  A mirror that was      *)
(* cloned by way of the pool names it in its alternates file and stores     *)
(* only what it did not find there.                                        *)
(*                                                                         *)
(* A commit stands for the objects nothing else reaches.  What git does is  *)
(* external: a fetch asks for the tips it finds neither in the repository   *)
(* nor in its alternates, and `gc' takes objects that no ref of the pool    *)
(* reached when it began and no fetch has brought just now.  The two weeks  *)
(* git waits may have passed between any two steps.                        *)
(***************************************************************************)
EXTENDS Naturals, Functions

CONSTANTS Mirrors,      \* repositories of the URL, one git job each
          Branches, Commits,
          None,
          MaxPushes,    \* bound on changes upstream
          MaxFaults     \* bound on failing steps and on crashes

VARIABLES
    upstream,   \* the tip of each branch of the remote, or None
    made,       \* the directory of the pool: "none", "bare" without a remote, "ready"
    poolRefs,   \* refs/heads of the pool
    pool,       \* the commits in it
    tree,       \* tree[m]: "none", "shared" with the pool, or "alone"
    refs,       \* refs[m]: the remote-tracking refs of m
    kept,       \* kept[m]: commits under archival refs of m
    own,        \* own[m]: commits stored in m itself
    act,        \* act[m]: where the job of m is, and its local variables
    gc,         \* commits the running gc found unreachable, or None
    collected,  \* what gc has taken out so far (history)
    pushes, faults

diskVars == <<made, poolRefs, pool>>
mirrorVars == <<tree, refs, kept, own>>
vars == <<upstream, diskVars, mirrorVars, act, gc, collected, pushes, faults>>

Tips == [Branches -> Commits \cup {None}]
commits(tips) == Range(tips) \ {None}

NoTips == [b \in Branches |-> None]
Idle == [pc |-> "idle", tips |-> NoTips, brought |-> {}]

TypeOK ==
    /\ {upstream, poolRefs} \subseteq Tips
    /\ made \in {"none", "bare", "ready"}
    /\ pool \subseteq Commits /\ collected \subseteq Commits
    /\ tree \in [Mirrors -> {"none", "shared", "alone"}]
    /\ refs \in [Mirrors -> Tips]
    /\ {kept, own} \subseteq [Mirrors -> SUBSET Commits]
    /\ act \in [Mirrors -> [pc : {"idle", "open", "remote", "fetch", "refs", "share", "alone"},
                            tips : Tips, brought : SUBSET Commits]]
    /\ gc = None \/ gc \subseteq Commits
    /\ pushes \in 0..MaxPushes /\ faults \in 0..MaxFaults

Init ==
    /\ upstream \in Tips
    /\ made = "none" /\ poolRefs = NoTips /\ pool = {}
    /\ tree = [m \in Mirrors |-> "none"]
    /\ refs = [m \in Mirrors |-> NoTips]
    /\ kept = [m \in Mirrors |-> {}]
    /\ own = [m \in Mirrors |-> {}]
    /\ act = [m \in Mirrors |-> Idle]
    /\ gc = None /\ collected = {}
    /\ pushes = 0 /\ faults = 0

\* The objects that git finds for m.
objects(m) == own[m] \cup IF tree[m] = "shared" THEN pool ELSE {}

goto(m, next) == act' = [act EXCEPT ![m].pc = next]

fault == faults < MaxFaults /\ faults' = faults + 1

\* A push, forced or not, that moves, creates or deletes a branch.
push(b) ==
    /\ pushes < MaxPushes
    /\ \E c \in (Commits \cup {None}) \ {upstream[b]} : upstream' = [upstream EXCEPT ![b] = c]
    /\ pushes' = pushes + 1
    /\ UNCHANGED <<diskVars, mirrorVars, act, gc, collected, faults>>

-----------------------------------------------------------------------------
(* updatePool.                                                             *)

\* Mutant: no lock around the pool.
lockNothing(m) ==
    /\ act[m].pc = "idle"
    /\ goto(m, "open")
    /\ UNCHANGED <<upstream, diskVars, mirrorVars, gc, collected, pushes, faults>>

\* poolLocks.Lock: "two fetches into the same pool must not overlap".
lock(m) ==
    /\ act[m].pc = "idle"
    /\ \A n \in Mirrors : act[n].pc \notin {"open", "remote", "fetch", "refs"}
    /\ goto(m, "open")
    /\ UNCHANGED <<upstream, diskVars, mirrorVars, gc, collected, pushes, faults>>

\* A directory that is not there is initialised, one that is there opened; one
\* without the remote is refused, now and ever after.
openPool(m) ==
    /\ act[m].pc = "open"
    /\ made' = IF made = "none" THEN "bare" ELSE made
    /\ goto(m, CASE made = "none" -> "remote" [] made = "ready" -> "fetch" [] OTHER -> "alone")
    /\ UNCHANGED <<upstream, poolRefs, pool, mirrorVars, gc, collected, pushes, faults>>

createRemote(m) ==
    /\ act[m].pc = "remote"
    /\ made' = "ready"
    /\ goto(m, "fetch")
    /\ UNCHANGED <<upstream, poolRefs, pool, mirrorVars, gc, collected, pushes, faults>>

\* The fetch stores the tips the pool lacks ...
fetchPack(m) ==
    /\ act[m].pc = "fetch"
    /\ pool' = pool \cup commits(upstream)
    /\ act' = [act EXCEPT ![m] = [pc |-> "refs", tips |-> upstream,
                                  brought |-> commits(upstream) \ pool]]
    /\ UNCHANGED <<upstream, made, poolRefs, mirrorVars, gc, collected, pushes, faults>>

\* ... and then forces its refs.  Those gone upstream stay; the lock is free.
writeRefs(m) ==
    /\ act[m].pc = "refs"
    /\ poolRefs' = [b \in Branches |->
                      IF act[m].tips[b] = None THEN poolRefs[b] ELSE act[m].tips[b]]
    /\ act' = [act EXCEPT ![m] = [Idle EXCEPT !.pc = "share"]]
    /\ UNCHANGED <<upstream, made, pool, mirrorVars, gc, collected, pushes, faults>>

\* A step of it fails: the caller goes on without the pool.
updateFails(m) ==
    /\ act[m].pc \in {"open", "remote", "fetch", "refs"}
    /\ fault
    /\ act' = [act EXCEPT ![m] = [Idle EXCEPT !.pc = "alone"]]
    /\ UNCHANGED <<upstream, diskVars, mirrorVars, gc, collected, pushes>>

-----------------------------------------------------------------------------
(* The mirror, after updatePool.                                           *)

\* CloneRepository: by way of the pool if that is up to date, else in full.
clone(m) ==
    /\ act[m].pc \in {"share", "alone"} /\ tree[m] = "none"
    /\ tree' = [tree EXCEPT ![m] = IF act[m].pc = "share" THEN "shared" ELSE "alone"]
    /\ own' = [own EXCEPT ![m] = commits(upstream) \ IF act[m].pc = "share" THEN pool ELSE {}]
    /\ refs' = [refs EXCEPT ![m] = upstream]
    /\ act' = [act EXCEPT ![m] = Idle]
    /\ UNCHANGED <<upstream, diskVars, kept, gc, collected, pushes, faults>>

\* FetchRepository ignores what updatePool returned, and prunes.  The tips of
\* pruned branches get an archival ref, see BranchArchive.
fetch(m) ==
    /\ act[m].pc \in {"share", "alone"} /\ tree[m] # "none"
    /\ own' = [own EXCEPT ![m] = @ \cup (commits(upstream) \ objects(m))]
    /\ refs' = [refs EXCEPT ![m] = upstream]
    /\ kept' = [kept EXCEPT ![m] = @ \cup {refs[m][b] : b \in {x \in Branches :
                                       refs[m][x] # None /\ upstream[x] = None}}]
    /\ act' = [act EXCEPT ![m] = Idle]
    /\ UNCHANGED <<upstream, diskVars, tree, gc, collected, pushes, faults>>

\* Either fails, and leaves the mirror as it was (AtomicClone has the details).
mirrorFails(m) ==
    /\ act[m].pc \in {"share", "alone"}
    /\ fault
    /\ act' = [act EXCEPT ![m] = Idle]
    /\ UNCHANGED <<upstream, diskVars, mirrorVars, gc, collected, pushes>>

-----------------------------------------------------------------------------
(* cleanupPools: `git gc --auto', which takes no lock of this program.     *)

\* What gc may take: all that no ref of the pool holds and that is not new.
Unreachable == (pool \ commits(poolRefs)) \ UNION {act[m].brought : m \in Mirrors}

cleanupPools ==
    /\ gc = None /\ made # "none"
    /\ gc' = Unreachable
    /\ UNCHANGED <<upstream, diskVars, mirrorVars, act, collected, pushes, faults>>

\* Some of it is old enough.
collect ==
    /\ gc # None
    /\ \E C \in SUBSET (gc \cap pool) :
         /\ pool' = pool \ C
         /\ collected' = collected \cup C
    /\ gc' = None
    /\ UNCHANGED <<upstream, made, poolRefs, mirrorVars, act, pushes, faults>>

\* The process dies, with its jobs and git.
crash ==
    /\ fault
    /\ act' = [m \in Mirrors |-> Idle]
    /\ gc' = None
    /\ UNCHANGED <<upstream, diskVars, mirrorVars, collected, pushes>>

Next ==
    \/ \E b \in Branches : push(b)
    \/ \E m \in Mirrors :
         \/ lock(m) \/ openPool(m) \/ createRemote(m) \/ fetchPack(m) \/ writeRefs(m)
         \/ updateFails(m) \/ clone(m) \/ fetch(m) \/ mirrorFails(m)
    \/ cleanupPools \/ collect \/ crash

Spec == Init /\ [][Next]_vars

-----------------------------------------------------------------------------
\* Two first clones of a URL at a time end up on one pool: a mirror has a full
\* copy of its own only where a step failed or the process died.
SharesUnlessFaulty == (\E m \in Mirrors : tree[m] = "alone") => faults > 0

\* What a mirror has a ref on is in it or in its pool, unless gc took it out of
\* the pool: nothing else does, however fetches of the mirrors and the gc overlap.
OnlyGcLoses ==
    \A m \in Mirrors : commits(refs[m]) \cup kept[m] \subseteq objects(m) \cup collected

\* worker.go:677, "Create a paperbin ref in the local repo to keep the commit
\* alive": an archived branch can be restored.  The gc of the pool knows the
\* refs of the pool only.
ArchivedIsKept == \A m \in Mirrors : kept[m] \subseteq objects(m)
=============================================================================
