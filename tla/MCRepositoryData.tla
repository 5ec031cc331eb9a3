-------------------------- MODULE MCRepositoryData --------------------------
(***************************************************************************)
(* What keeps the data of a deleted repository, of a deleted branch, and of *)
(* the mirrors that share their objects.  They have no variable in common   *)
(* (Paperbin moves a repository with all its refs, BranchArchive is about    *)
(* refs and SharedPool about what they name), so `part' picks initially the  *)
(* one that runs.  The constants are those of the three; the bounds are in   *)
(* the cfg.                                                                *)
(*                                                                         *)
(* A request, a git job and the cleaner can be in the directory of one     *)
(* repository at a time.  Two events of one branch, recorded by the fetch  *)
(* or left by an older release that shares one ref between them, meet a    *)
(* request and the cleaner.  Two mirrors share a pool, and its one branch    *)
(* is pushed to twice.                                                      *)
(***************************************************************************)
EXTENDS Paperbin

CONSTANTS
    Branches, Commits, Events, Readers, None, MaxBranchFaults,
    Mirrors, MaxPushes, MaxPoolFaults,
    k1, k2       \* members of Commits that the initial states name

ASSUME LimitsAssumption == {MaxBranchFaults, MaxPushes, MaxPoolFaults} \subseteq Nat
ASSUME NoneAssumption == None \notin [branch : Branches, sha : Commits, legacy : BOOLEAN]

VARIABLES part, tracked, heads, refs, shared, stored, info, rows, job, act,
          owed, released, stray, branchFaults,
          upstream, made, poolRefs, pool, trees, remotes, kept, own, pulls, gc, collected,
          pushes, poolFaults

B == INSTANCE BranchArchive
       WITH Requests <- Readers, faults <- branchFaults, MaxFaults <- MaxBranchFaults

S == INSTANCE SharedPool
       WITH MaxFaults <- MaxPoolFaults, tree <- trees, refs <- remotes, act <- pulls,
            faults <- poolFaults

branchVars == <<tracked, heads, refs, shared, stored, info, rows, job, act,
                owed, released, stray, branchFaults>>
poolVars == <<upstream, made, poolRefs, pool, trees, remotes, kept, own, pulls, gc, collected,
              pushes, poolFaults>>

MCInit ==
  /\ Init /\ B!Init /\ S!Init
  /\ part \in {"repository", "branches", "pool"}
  /\ \A b \in Branches : tracked[b] = k1 /\ upstream[b] = k1
  /\ \/ \A e \in Events : info[e] = None
     \/ part = "branches" /\ \A e \in Events : info[e] # None /\ info[e].sha = k2
  /\ part # "repository" => row = "live" /\ tree = "whole" /\ ~linked /\ ~audited /\ ~refused

MCNext ==
  \/ part = "repository" /\ Next /\ UNCHANGED <<part, branchVars, poolVars>>
  \/ part = "branches" /\ B!Next /\ UNCHANGED <<part, vars, poolVars>>
  \/ part = "pool" /\ S!Next /\ UNCHANGED <<part, vars, branchVars>>

MCSpec == MCInit /\ [][MCNext]_<<part, vars, branchVars, poolVars>> /\ Fairness

\* BranchArchive's three invariants: archived branches and refs match, and what
\* the fetch prunes is kept.  (And every variable keeps its type.)
BranchesAreKept ==
  B!RowHasRef /\ B!RefHasRow /\ B!PrunedIsKept /\ TypeOK /\ B!TypeOK /\ S!TypeOK

\* SharedPool's two invariants: mirrors of a URL come to share its pool, and
\* only the gc of the pool takes from them what they name.
PoolHolds == S!SharesUnlessFaulty /\ S!OnlyGcLoses

\* Paperbin's two promises for the end: an expired repository is purged, and a
\* mirrored one whose owner keeps asking comes back.
BinEmpties == ExpiredIsPurged /\ MirroredComesBack
=============================================================================
