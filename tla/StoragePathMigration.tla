------------------------- MODULE StoragePathMigration -------------------------
(***************************************************************************)
(* MigrateStoragePaths (internal/database/database.go) on one repository    *)
(* whose row points to a directory of an older release: at every start the   *)
(* archive, the folder, the wiki and the tree are moved one after the other  *)
(* to where the current release expects them, then the row is repointed.     *)
(* The server serves only after that.                                       *)
(***************************************************************************)
EXTENDS Naturals

CONSTANTS MaxFaults,   \* bound on operations that fail, and on crashes
          MaxStarts    \* bound on the starts of the server

VARIABLES pc,          \* "down", "serving" or the next step of the migration
          binned,      \* the row is soft-deleted
          pointer,     \* the directory in storage_path: "old" or "canonical"
          at,          \* at[x]: the directories that hold x
          faults, starts

vars == <<pc, binned, pointer, at, faults, starts>>

Dirs == {"old", "canonical"}
Things == {"archive", "folder", "wiki", "tree"}

TypeOK ==
    /\ pc \in {"down", "serving", "repoint"} \cup Things
    /\ binned \in BOOLEAN
    /\ pointer \in Dirs
    /\ at \in [Things -> SUBSET Dirs]
    /\ faults \in 0..MaxFaults /\ starts \in 0..MaxStarts

only(S) == [x \in Things |-> IF x \in S THEN {"old"} ELSE {}]

\* A mirrored repository, live or in one of the two forms of the paperbin.
Init ==
    /\ pc = "down" /\ pointer = "old"
    /\ \/ binned = FALSE /\ at \in {only({"tree"}), only({"tree", "wiki"})}
       \/ binned = TRUE /\ at \in {only({"archive"}), only({"folder"}), only({"archive", "wiki"})}
    /\ faults = 0 /\ starts = 0

fault == faults < MaxFaults /\ faults' = faults + 1

-----------------------------------------------------------------------------
\* moveIfPresent: nothing happens without a source, or with a destination.
moveIfPresent(x) ==
    at' = IF "old" \in at[x] /\ "canonical" \notin at[x]
          THEN [at EXCEPT ![x] = {"canonical"}] ELSE at

\* A move fails only if there is something to move.
moveFails(x) == "old" \in at[x] /\ fault /\ UNCHANGED at

start ==
    /\ pc = "down" /\ starts < MaxStarts
    /\ starts' = starts + 1
    /\ pc' = IF pointer = "canonical" THEN "serving" ELSE "archive"
    /\ UNCHANGED <<binned, pointer, at, faults>>

\* The archive, then the folder: if one cannot be moved the repository is left
\* where it is, and the server starts.
movePaperbin ==
    /\ \/ pc = "archive" /\ moveIfPresent("archive") /\ pc' = "folder" /\ UNCHANGED faults
       \/ pc = "archive" /\ moveFails("archive") /\ pc' = "serving"
       \/ pc = "folder" /\ moveIfPresent("folder") /\ pc' = "wiki" /\ UNCHANGED faults
       \/ pc = "folder" /\ moveFails("folder") /\ pc' = "serving"
    /\ UNCHANGED <<binned, pointer, starts>>

\* A wiki that cannot be moved is cloned again.
moveWiki ==
    /\ pc = "wiki" /\ pc' = "tree"
    /\ \/ moveIfPresent("wiki") /\ UNCHANGED faults
       \/ moveFails("wiki")
    /\ UNCHANGED <<binned, pointer, starts>>

moveTree ==
    /\ pc = "tree"
    /\ \/ moveIfPresent("tree") /\ pc' = "repoint" /\ UNCHANGED faults
       \/ moveFails("tree") /\ pc' = "serving"
    /\ UNCHANGED <<binned, pointer, starts>>

\* Mutant: an error of the update is logged, and the server starts.
repointAnyway ==
    /\ pc = "repoint"
    /\ \/ pointer' = "canonical" /\ UNCHANGED faults
       \/ fault /\ UNCHANGED pointer
    /\ pc' = "serving"
    /\ UNCHANGED <<binned, at, starts>>

\* An error of the update ends the process.
repoint ==
    /\ pc = "repoint"
    /\ \/ pointer' = "canonical" /\ pc' = "serving" /\ UNCHANGED faults
       \/ fault /\ pc' = "down" /\ UNCHANGED pointer
    /\ UNCHANGED <<binned, at, starts>>

-----------------------------------------------------------------------------
(* The server, where it concerns the directory (Paperbin has the steps).    *)

\* A clone makes the tree (and the wiki) again only in the canonical directory:
\* the worker refuses the old one.
deleteRepository ==
    /\ pc = "serving" /\ ~binned
    /\ binned' = TRUE
    /\ at' = IF pointer \in at["tree"]
             THEN [at EXCEPT !["archive"] = @ \cup {pointer}, !["tree"] = @ \ {pointer}]
             ELSE at
    /\ UNCHANGED <<pc, pointer, faults, starts>>

restoreRepository ==
    /\ pc = "serving" /\ binned
    /\ binned' = FALSE
    /\ at' = CASE pointer \in at["archive"] ->
                    [at EXCEPT !["archive"] = @ \ {pointer}, !["tree"] = @ \cup {pointer}]
               [] pointer \notin at["archive"] /\ pointer \in at["folder"] ->
                    [at EXCEPT !["folder"] = @ \ {pointer}, !["tree"] = @ \cup {pointer}]
               [] OTHER -> at
    /\ UNCHANGED <<pc, pointer, faults, starts>>

stop ==
    /\ pc = "serving" /\ pc' = "down"
    /\ UNCHANGED <<binned, pointer, at, faults, starts>>

crash ==
    /\ pc # "down" /\ fault /\ pc' = "down"
    /\ UNCHANGED <<binned, pointer, at, starts>>

Next ==
    \/ start \/ movePaperbin \/ moveWiki \/ moveTree \/ repoint
    \/ deleteRepository \/ restoreRepository \/ stop \/ crash

Spec == Init /\ [][Next]_vars

-----------------------------------------------------------------------------
(* Whatever moves failed and wherever a start was cut off: a server that    *)
(* serves finds the repository's data by the pointer of its row.            *)
PointerReachesData ==
    pc = "serving" => IF binned THEN pointer \in at["archive"] \cup at["folder"]
                                ELSE pointer \in at["tree"]

(* No data is in two directories, and none is left behind by a pointer that *)
(* went on (but a wiki that could not be moved).                            *)
NothingLeftBehind ==
    pointer = "canonical" => \A x \in Things \ {"wiki"} : "old" \notin at[x]
=============================================================================
