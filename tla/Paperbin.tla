------------------------------ MODULE Paperbin ------------------------------
(*****************************************************************************)
(* Deletion, restoration and purge of one repository                         *)
(* (services/repository_service.go, gitops/cleanup_worker.go).  Its data     *)
(* is in a working tree, in a compressed archive of the paperbin or in an    *)
(* uncompressed folder an older release left there; its row is live,         *)
(* binned (soft-deleted) or gone.  No request takes the path lock of a       *)
(* git job, so every actor may interleave with every other.                  *)
(*****************************************************************************)
EXTENDS Naturals

CONSTANTS Requests,      \* goroutines that serve HTTP requests
          MaxFaults,     \* bound on disk and database operations that fail
          MaxCrashes     \* bound on crashes of the process

ASSUME BoundsAssumption == MaxFaults \in Nat /\ MaxCrashes \in Nat
ASSUME RequestsAssumption == {"job", "cleaner"} \cap Requests = {}

VARIABLES
  row,          \* "live", "binned" or "gone"
  expired,      \* the retention of the binned row has passed
  linked,       \* tags or webhooks refer to the row
  audited,      \* audit entries refer to the row
  refused,      \* the tree holds a symbolic link tarGzDecompress refuses
  tree,         \* what is at StoragePath
  archive,      \* what is at paperbin/<id>.tar.gz
  folder,       \* what is at paperbin/<id>
  pc,           \* the step each actor is at
  failed,       \* who met a failing step in what it is doing
  mirrored,     \* history: the repository has been mirrored
  mishap,       \* history: what the properties except has happened
  faults, crashes

rowVars == <<row, expired, linked, audited, refused>>
diskVars == <<tree, archive, folder>>
history == <<mirrored, mishap>>
bounds == <<faults, crashes>>
vars == <<rowVars, diskVars, pc, failed, history, bounds>>

Actors == Requests \cup {"job", "cleaner"}
Disk == {"none", "part", "whole"}
Archives == {"none",
             "cut",      \* it ends in the middle of a write
             "empty",    \* it has nothing in it
             "half",     \* it has a part of a tree, and an end
             "whole"}
Steps == {"idle", "archive", "compress", "removeTree", "softDelete", "unarchive", "discard",
          "unpack", "unpacking", "dropArchive", "undelete", "repack", "dropTree",
          "purge", "purgeExpired", "wipe", "save", "log", "git"}
OnDisk == Steps \ {"idle", "save", "log"}   \* all but UpdateRepository and the audit

TypeOK ==
  /\ row \in {"live", "binned", "gone"}
  /\ {expired, linked, audited, refused, mirrored} \subseteq BOOLEAN
  /\ tree \in Disk /\ archive \in Archives /\ folder \in Disk
  /\ pc \in [Actors -> Steps]
  /\ failed \subseteq Actors
  /\ mishap \in BOOLEAN
  /\ faults \in 0..MaxFaults /\ crashes \in 0..MaxCrashes

Init ==
  /\ \/ row = "live" /\ tree \in {"none", "whole"} /\ archive = "none" /\ folder = "none"
     \/ row = "binned" /\ tree = "none" /\ archive = "none" /\ folder \in {"none", "whole"}
  /\ expired = FALSE
  /\ linked \in BOOLEAN /\ audited \in BOOLEAN /\ refused \in BOOLEAN
  /\ pc = [a \in Actors |-> "idle"]
  /\ failed = {}
  /\ mirrored = (tree = "whole" \/ folder = "whole")
  /\ mishap = FALSE
  /\ faults = 0 /\ crashes = 0

-----------------------------------------------------------------------------
(* The life of a request: it begins, goes from step to step, and may meet    *)
(* failing operations.                                                       *)

\* A mishap, once it happened, is remembered.
note(happens) == mishap' = (mishap \/ happens)

begin(a, step) ==
  /\ pc[a] = "idle"
  /\ pc' = [pc EXCEPT ![a] = step]
  /\ note(step \in OnDisk /\ \E b \in Actors : pc[b] \in OnDisk)
  /\ UNCHANGED <<rowVars, diskVars, failed, mirrored, bounds>>

goto(a, step) ==
  /\ pc' = [pc EXCEPT ![a] = step]
  /\ failed' = IF step = "idle" THEN failed \ {a} ELSE failed
  /\ UNCHANGED <<history, bounds>>

\* One more operation of a fails.
fails(a, step) ==
  /\ faults < MaxFaults
  /\ faults' = faults + 1
  /\ failed' = IF step = "idle" THEN failed \ {a} ELSE failed \cup {a}
  /\ note(a \in failed)
  /\ pc' = [pc EXCEPT ![a] = step]
  /\ UNCHANGED <<mirrored, crashes>>

\* The archives tarGzCompress makes without an error: git writing to the tree
\* meanwhile may leave one that is not a repository.
tarGzCompress ==
  {a \in {"half", "whole"} :
     /\ tree # "none"
     /\ a = "whole" => tree = "whole"
     /\ a = "half" => tree = "part" \/ pc["job"] = "git"}

\* What it leaves behind with one.  The writers are closed after a failing walk,
\* so what was archived until then is an archive; a tree that is not there fails
\* the walk at once.
Aborted == {"none", "cut", "half"}
NoWalk == tree = "none" \/ pc["job"] = "git"

\* The trees tarGzDecompress makes of the archive without an error, and when it
\* returns one: the archive is cut off (or removed meanwhile), or a symbolic link
\* is absolute, leaves the tree, or points into a directory that comes later.
tarGzDecompress ==
  {t \in Disk : \/ (archive = "whole" /\ ~refused /\ t = "whole")
                \/ (archive = "half" /\ t = "part")
                \/ (archive = "empty" /\ t = "none")}
Unreadable == archive \in {"none", "cut"} \/ (refused /\ archive \in {"half", "whole"})

-----------------------------------------------------------------------------
(* DeleteRepository.                                                         *)

deleteRepository(r) == row = "live" /\ begin(r, "archive")

archiveBegins(r) ==
  /\ pc[r] = "archive"
  /\ IF tree = "none"
     THEN goto(r, "softDelete") /\ UNCHANGED diskVars
     ELSE goto(r, "compress") /\ archive' = "cut" /\ UNCHANGED <<tree, folder>>
  /\ UNCHANGED rowVars

\* Mutant: the tree is removed even if it could not be archived.
compressEndsAnyway(r) ==
  /\ pc[r] = "compress"
  /\ \/ tree # "none" /\ goto(r, "removeTree") /\ archive' \in tarGzCompress
     \/ NoWalk /\ goto(r, "removeTree") /\ archive' \in {"empty", "half"}
     \/ fails(r, "removeTree") /\ archive' \in Aborted
  /\ UNCHANGED <<tree, folder, rowVars>>

\* There is no archiving a tree somebody else has removed meanwhile.
compressEnds(r) ==
  /\ pc[r] = "compress"
  /\ \/ tree # "none" /\ goto(r, "removeTree") /\ archive' \in tarGzCompress
     \/ NoWalk /\ goto(r, "idle") /\ archive' \in {"empty", "half"}
     \/ fails(r, "idle") /\ archive' \in Aborted
  /\ UNCHANGED <<tree, folder, rowVars>>

removeTree(r) ==
  /\ pc[r] = "removeTree"
  /\ \/ goto(r, "softDelete") /\ tree' = "none"
     \/ fails(r, "softDelete") /\ tree' = IF tree = "none" THEN "none" ELSE "part"
  /\ UNCHANGED <<archive, folder, rowVars>>

softDelete(r) ==
  /\ pc[r] = "softDelete"
  /\ goto(r, "log")
  /\ row' = IF row = "live" THEN "binned" ELSE row
  /\ expired' = (row # "live" /\ expired)
  /\ UNCHANGED <<linked, audited, refused, diskVars>>

\* The row could not be deleted: the archive goes back ...
softDeleteFails(r) ==
  /\ pc[r] = "softDelete"
  /\ IF archive = "none" THEN fails(r, "idle") /\ UNCHANGED diskVars
     ELSE fails(r, "unarchive") /\ tree' = "part" /\ UNCHANGED <<archive, folder>>
  /\ UNCHANGED rowVars

\* ... and is removed even when tarGzDecompress returned an error.
unarchiveEnds(r) ==
  /\ pc[r] = "unarchive"
  /\ \/ goto(r, "discard") /\ tree' \in tarGzDecompress
     \/ /\ Unreadable /\ tree' \in {"none", "part"}
        /\ note(TRUE)
        /\ pc' = [pc EXCEPT ![r] = "discard"]
        /\ UNCHANGED <<failed, mirrored, bounds>>
     \/ fails(r, "discard") /\ tree' \in {"none", "part"}
  /\ UNCHANGED <<archive, folder, rowVars>>

discard(r) ==
  /\ pc[r] = "discard"
  /\ \/ goto(r, "idle") /\ archive' = "none"
     \/ fails(r, "idle") /\ UNCHANGED archive
  /\ UNCHANGED <<tree, folder, rowVars>>

-----------------------------------------------------------------------------
(* RestoreRepository.                                                        *)

restoreRepository(r) == row = "binned" /\ begin(r, "unpack")

\* Mutant: a directory left by an earlier attempt stops the restore.
unpackBeginsOnce(r) ==
  /\ pc[r] = "unpack"
  /\ \/ /\ archive # "none" /\ tree = "none"
        /\ goto(r, "unpacking") /\ tree' = "part" /\ UNCHANGED <<archive, folder>>
     \/ /\ archive # "none" /\ tree # "none"
        /\ goto(r, "idle") /\ UNCHANGED diskVars
     \/ /\ archive = "none"
        /\ goto(r, "undelete") /\ folder' = "none" /\ UNCHANGED archive
        /\ tree' = IF folder = "none" THEN tree ELSE folder
  /\ UNCHANGED rowVars

unpackBegins(r) ==
  /\ pc[r] = "unpack"
  /\ \/ /\ archive # "none"
        /\ goto(r, "unpacking") /\ tree' = "part" /\ UNCHANGED <<archive, folder>>
     \/ /\ archive = "none" /\ folder # "none"
        /\ \/ goto(r, "undelete") /\ tree' = folder /\ folder' = "none"
           \/ fails(r, "idle") /\ tree' = "none" /\ UNCHANGED folder
        /\ UNCHANGED archive
     \/ /\ archive = "none" /\ folder = "none"
        /\ goto(r, "undelete") /\ UNCHANGED diskVars
  /\ UNCHANGED rowVars

\* Mutant: the error of tarGzDecompress is ignored.
unpackEndsAnyway(r) ==
  /\ pc[r] = "unpacking"
  /\ \/ goto(r, "dropArchive") /\ tree' \in tarGzDecompress
     \/ Unreadable /\ goto(r, "dropArchive") /\ tree' \in {"none", "part"}
     \/ fails(r, "dropArchive") /\ tree' \in {"none", "part"}
  /\ UNCHANGED <<archive, folder, rowVars>>

unpackEnds(r) ==
  /\ pc[r] = "unpacking"
  /\ \/ goto(r, "dropArchive") /\ tree' \in tarGzDecompress
     \/ Unreadable /\ goto(r, "idle") /\ tree' \in {"none", "part"}
     \/ fails(r, "idle") /\ tree' \in {"none", "part"}
  /\ UNCHANGED <<archive, folder, rowVars>>

dropArchive(r) ==
  /\ pc[r] = "dropArchive"
  /\ \/ goto(r, "undelete") /\ archive' = "none"
     \/ fails(r, "undelete") /\ UNCHANGED archive
  /\ UNCHANGED <<tree, folder, rowVars>>

undelete(r) ==
  /\ pc[r] = "undelete"
  /\ goto(r, "log")
  /\ row' = IF row = "binned" THEN "live" ELSE row
  /\ expired' = FALSE
  /\ UNCHANGED <<linked, audited, refused, diskVars>>

\* The row could not be restored: the tree is packed again (os.Create cuts off
\* what the archive was) ...
undeleteFails(r) ==
  /\ pc[r] = "undelete"
  /\ fails(r, "repack") /\ archive' = "cut"
  /\ UNCHANGED <<tree, folder, rowVars>>

\* ... and is removed whatever came of that.
repackEnds(r) ==
  /\ pc[r] = "repack"
  /\ \/ goto(r, "dropTree") /\ archive' \in tarGzCompress
     \/ NoWalk /\ goto(r, "dropTree") /\ archive' \in {"empty", "half"}
     \/ fails(r, "dropTree") /\ archive' \in Aborted
  /\ UNCHANGED <<tree, folder, rowVars>>

dropTree(r) ==
  /\ pc[r] = "dropTree"
  /\ \/ goto(r, "idle") /\ tree' = "none"
     \/ fails(r, "idle") /\ tree' = IF tree = "none" THEN "none" ELSE "part"
  /\ UNCHANGED <<archive, folder, rowVars>>

-----------------------------------------------------------------------------
(* What the handlers note of a deletion, a restoration and an update refers  *)
(* to the repository; the cleanup worker deletes it when it is old.          *)

\* An entry that cannot be written is only warned of.
log(r) ==
  /\ pc[r] = "log"
  /\ goto(r, "idle")
  /\ audited' \in {audited, audited \/ row # "gone"}
  /\ UNCHANGED <<row, expired, linked, refused, diskVars>>

expireAudits ==
  /\ audited /\ pc["cleaner"] = "idle"
  /\ audited' = FALSE
  /\ UNCHANGED <<row, expired, linked, refused, diskVars, pc, failed, history, bounds>>

-----------------------------------------------------------------------------
(* PermanentDeleteRepository clears every row that refers to the repository  *)
(* before its own; the cleanup worker clears only branches and jobs, and a   *)
(* foreign key then refuses the deletion.                                    *)

permanentDelete(r) == row # "gone" /\ begin(r, "purge")

purge(r) ==
  /\ pc[r] = "purge"
  /\ \/ goto(r, "wipe") /\ row' = "gone" /\ linked' = FALSE /\ audited' = FALSE
     \/ fails(r, "idle") /\ UNCHANGED <<row, linked, audited>>
  /\ expired' = (expired /\ row' # "gone")
  /\ UNCHANGED <<refused, diskVars>>

retentionPasses ==
  /\ row = "binned" /\ ~expired
  /\ expired' = TRUE
  /\ UNCHANGED <<row, linked, audited, refused, diskVars, pc, failed, history, bounds>>

\* Mutant: the query is not Unscoped and finds no deleted repository.
listExpiredScoped == row = "live" /\ expired /\ begin("cleaner", "purgeExpired")

\* The list of expired repositories is read before its first row is purged.
listExpired == row = "binned" /\ expired /\ begin("cleaner", "purgeExpired")

purgeExpired ==
  /\ pc["cleaner"] = "purgeExpired"
  /\ \/ (linked \/ audited) /\ row # "gone" /\ goto("cleaner", "idle") /\ UNCHANGED row
     \/ (~(linked \/ audited) \/ row = "gone") /\ goto("cleaner", "wipe") /\ row' = "gone"
     \/ fails("cleaner", "idle") /\ UNCHANGED row
  /\ expired' = (expired /\ row' # "gone")
  /\ UNCHANGED <<linked, audited, refused, diskVars>>

\* Archive, folder and tree are removed; a removal that fails is only logged.
wipe(a) ==
  /\ pc[a] = "wipe"
  /\ \/ goto(a, "idle") /\ tree' = "none" /\ archive' = "none" /\ folder' = "none"
     \/ fails(a, "idle") /\ UNCHANGED diskVars
  /\ UNCHANGED rowVars

-----------------------------------------------------------------------------
(* The others: UpdateRepository, which Saves the whole row it read and so    *)
(* inserts it again when it is no longer live; git jobs; a crash.            *)

updateRepository(r) == row = "live" /\ begin(r, "save")

save(r) ==
  /\ pc[r] = "save"
  /\ row' = "live"
  /\ pc' = [pc EXCEPT ![r] = "log"]
  /\ note(row # "live")
  /\ UNCHANGED <<expired, linked, audited, refused, diskVars, failed, mirrored, bounds>>

jobBegins == row = "live" /\ begin("job", "git")

\* A fetch keeps a whole tree whole; a clone replaces what is no repository.
jobEnds ==
  /\ pc["job"] = "git"
  /\ tree' \in {tree, "whole"} \cup (IF tree = "part" THEN {"none"} ELSE {})
  /\ mirrored' = (mirrored \/ tree' = "whole")
  /\ pc' = [pc EXCEPT !["job"] = "idle"]
  /\ UNCHANGED <<rowVars, archive, folder, failed, mishap, bounds>>

\* A rollback that is cut off, and a removal of the tree before the row was
\* deleted, leave a tree or an archive that is not what the row says.
crash ==
  /\ crashes < MaxCrashes
  /\ crashes' = crashes + 1
  /\ tree' \in {tree} \cup
       (IF tree = "whole" /\ \E r \in Requests : pc[r] \in {"removeTree", "dropTree"}
        THEN {"part"} ELSE {})
  /\ note(\E r \in Requests :
             \/ pc[r] \in {"unarchive", "repack"}
             \/ tree' = "part" /\ pc[r] \in {"removeTree", "softDelete"})
  /\ pc' = [a \in Actors |-> "idle"]
  /\ failed' = {}
  /\ UNCHANGED <<rowVars, archive, folder, mirrored, faults>>

Request(r) ==
  \/ deleteRepository(r) \/ archiveBegins(r) \/ compressEnds(r) \/ removeTree(r)
  \/ softDelete(r) \/ softDeleteFails(r) \/ unarchiveEnds(r) \/ discard(r)
  \/ restoreRepository(r) \/ unpackBegins(r) \/ unpackEnds(r) \/ dropArchive(r)
  \/ undelete(r) \/ undeleteFails(r) \/ repackEnds(r) \/ dropTree(r)
  \/ log(r)
  \/ permanentDelete(r) \/ purge(r) \/ wipe(r)
  \/ updateRepository(r) \/ save(r)

Cleaner == listExpired \/ purgeExpired \/ wipe("cleaner")

Next ==
  \/ \E r \in Requests : Request(r)
  \/ Cleaner \/ expireAudits \/ retentionPasses
  \/ jobBegins \/ jobEnds
  \/ crash

Spec == Init /\ [][Next]_vars

\* A begun request ends, users keep asking for what they deleted, and the
\* cleanup worker ticks: with an audit retention that is not 0 its passes delete
\* every entry in the end.
Fairness ==
  /\ \A r \in Requests : WF_vars(Request(r) /\ pc[r] # "idle") /\ WF_vars(restoreRepository(r))
  /\ WF_vars(Cleaner) /\ SF_vars(expireAudits) /\ WF_vars(jobEnds)

FairSpec == Spec /\ Fairness

-----------------------------------------------------------------------------
(* As long as a repository is not purged its mirrored data is somewhere:     *)
(* no step of a request that fails, no crash in the middle of one, and no    *)
(* sequence of such requests loses it.  What does lose it is excepted, as    *)
(* a `mishap': two actors in the directory at once, two failing steps of one *)
(* request, an archive put back with a link that is refused, a crash within  *)
(* a rollback (of a deletion or a restoration whose row could not be         *)
(* written), and a removal of the tree cut off before the row was deleted.   *)
DataSurvives ==
  mirrored /\ row # "gone" /\ ~mishap => "whole" \in {tree, archive, folder}

(* A repository comes back from the paperbin with its tree, though half an   *)
(* archive is unpacked without an error: with none of these mishaps, no      *)
(* archive of half a tree is what a restore finds.                           *)
RestoreIsWhole ==
  [][\A r \in Requests : undelete(r) /\ row = "binned" /\ mirrored /\ ~mishap
       => tree = "whole"]_vars

(* An expired repository does not stay in the paperbin unless a tag or a     *)
(* webhook refers to it: the audit entries of its own deletion go first.     *)
ExpiredIsPurged == (row = "binned" /\ expired /\ ~linked) ~> (row # "binned")

(* A mirrored repository in the paperbin whose owner keeps asking for it     *)
(* comes back (or is purged), whatever single steps fail meanwhile, when     *)
(* the paperbin takes its links and nothing of the above cuts off its        *)
(* archive.                                                                  *)
MirroredComesBack ==
  [](~mishap /\ ~refused) => ((row = "binned" /\ mirrored) ~> (row # "binned"))
=============================================================================
