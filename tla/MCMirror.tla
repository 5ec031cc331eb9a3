-------------------------------- MODULE MCMirror --------------------------------
(***************************************************************************)
(* One mirror: its directory, its row, its tags, the move of its directory *)
(* when the server is upgraded, and the archive of its issues.  The modules *)
(* have no variable in common, so `part' picks initially the one that runs. *)
(* The constants are those of the modules; the cfg gives the bounds.        *)
(*                                                                         *)
(* Clone: three jobs one after the other, two crashes and two removals that *)
(* fail.  Row: two requests that cross the worker, GitHub and another host. *)
(* Tags: one of two is an upstream topic, and an update crosses the sync.   *)
(* Move: three faults in four starts.  Archive: an issue and a pull request *)
(* upstream and one more to be opened, one item a page; two of them share   *)
(* an asset, and both assets together exceed what one sync may read.        *)
(***************************************************************************)
EXTENDS AtomicClone, TLC

CONSTANTS
    Requests, Hosts, GitHub, None, MaxRetries,      \* of RepositoryRows
    Tags, Topics, Editors,                          \* of RepositoryTags
    MaxMoveFaults, MaxStarts,                       \* of StoragePathMigration
    Pulls, asset, size, PageSize,                   \* of GitHubMetadata
    MaxItems, MaxDownloads, MaxBytes, MaxMedia,
    a1, a2                                          \* its assets

ASSUME LimitsAssumption == {MaxRetries, MaxMoveFaults, MaxStarts} \subseteq Nat
ASSUME TopicsAssumption == Topics \subseteq Tags

VARIABLES part,
          row, act, worker, rebound,
          tags, assigned, ownerIsAdmin, topics, updates, manual, crossed,
          move, binned, pointer, at, moveFaults, starts,
          upstream, opened, files, media, sync, list, prs, page, got, downloadsLeft,
          bytesLeft, todo, local, since, shifted

R == INSTANCE RepositoryRows
T == INSTANCE RepositoryTags WITH Requests <- Editors, sync <- topics, act <- updates
S == INSTANCE StoragePathMigration
       WITH MaxFaults <- MaxMoveFaults, pc <- move, faults <- moveFaults
G == INSTANCE GitHubMetadata
       WITH NoAsset <- None, pc <- sync

\* A remote has a host, and a row is a row.
ASSUME HostsAssumption == GitHub \in Hosts /\ None \notin Hosts /\ None \notin R!Rows

ASSUME ArchiveAssumption ==
    /\ PageSize \in Nat \ {0} /\ MaxItems \in Nat \ {0, 1}
    /\ {MaxDownloads, MaxBytes, MaxMedia} \subseteq Nat
    /\ size \in [DOMAIN size -> Nat] /\ asset \in [1..MaxItems -> DOMAIN size \cup {None}]

\* Two items share an asset of three units, one has another of two.
MCAsset == 1 :> a2 @@ 2 :> a2 @@ 3 :> a1
MCSize == a1 :> 2 @@ a2 :> 3

rowVars == <<row, act, worker, rebound>>
tagVars == <<tags, assigned, ownerIsAdmin, topics, updates, manual, crossed>>
moveVars == <<move, binned, pointer, at, moveFaults, starts>>
githubVars == <<upstream, opened, files, media, sync, list, prs, page, got, downloadsLeft,
                bytesLeft, todo, local, since, shifted>>

MCInit ==
    /\ part \in {"clone", "row", "tags", "move", "github"}
    /\ Init /\ R!Init /\ T!Init /\ S!Init /\ G!Init
    /\ part # "clone" => final = "none"
    /\ part # "tags" => tags = {} /\ ~ownerIsAdmin
    /\ part # "move" => ~binned /\ at["wiki"] = {}

MCNext ==
    \/ part = "clone" /\ Next
       /\ UNCHANGED <<part, rowVars, tagVars, moveVars, githubVars>>
    \/ part = "row" /\ R!Next
       /\ UNCHANGED <<part, vars, tagVars, moveVars, githubVars>>
    \/ part = "tags" /\ T!Next
       /\ UNCHANGED <<part, vars, rowVars, moveVars, githubVars>>
    \/ part = "move" /\ S!Next
       /\ UNCHANGED <<part, vars, rowVars, tagVars, githubVars>>
    \/ part = "github" /\ G!Next
       /\ UNCHANGED <<part, vars, rowVars, tagVars, moveVars>>

\* The fairness of AtomicClone and of RepositoryRows, where they run.
MCFairness ==
    /\ WF_vars(part = "clone" /\ processJob)
    /\ WF_vars(part = "clone" /\ Start)
    /\ WF_vars(part = "clone" /\ \E j \in Jobs : begin(j))
    /\ SF_vars(part = "clone" /\ cloneStarts)
    /\ SF_vars(part = "clone" /\ cloneSucceeds)
    /\ SF_vars(part = "clone" /\ (rename \/ copySucceeds))
    /\ WF_rowVars(part = "row" /\ R!schedule)
    /\ WF_rowVars(part = "row" /\ (R!runPostClone \/ R!handleFailure \/ R!backoff))
    /\ WF_rowVars(part = "row" /\ R!backoffPasses)

MCSpec ==
    MCInit /\ [][MCNext]_<<part, vars, rowVars, tagVars, moveVars, githubVars>> /\ MCFairness

Types == TypeOK /\ R!TypeOK /\ T!TypeOK /\ S!TypeOK /\ G!TypeOK

\* AtomicClone's two invariants and its Heals, of the part that clones: what
\* passes for a repository is one, temporary clones do not pile up, and a
\* mirror is there in the end.  (On the way every variable keeps its type.)
CloneHeals ==
    /\ []FinalIsWhole /\ []NoAccumulation /\ []Types
    /\ []<>(part # "clone" \/ final = "whole" \/ torn)

\* See RepositoryRows and RepositoryTags.
CredentialsFitRemote == R!CredentialsFitRemote
ActiveIsTried == (part = "row" /\ R!Active) ~> (worker.pc = "git" \/ ~R!Active)
ManualTagsStay == T!ManualTagsStay

\* GitHubMetadata's promises: a list is replaced by one that is whole, what a
\* file refers to is there, and what a sync reads is bounded.
MetadataHolds == G!MetadataIsWhole /\ []G!LinksResolve /\ []G!SpendsItsBudget

\* StoragePathMigration's two invariants: the data is where the row says, and
\* nowhere else.
DataFollowsRow == S!PointerReachesData /\ S!NothingLeftBehind
================================================================================
