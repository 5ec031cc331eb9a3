------------------------------ MODULE AtomicClone ------------------------------
(***************************************************************************)
(* The directory of one repository under clone jobs: processJob between    *)
(* `running' and the job's last status, internal/gitops/worker.go.  A      *)
(* repository that is not there is cloned into a sibling directory and     *)
(* renamed into place, or copied where rename keeps failing; what earlier  *)
(* attempts left behind is cleared first.                                  *)
(*                                                                         *)
(* The path lock lets one job at a time do this (CloneWorker proves it:    *)
(* GitExclusion).  A step is what a crash may fall behind.  Removing a     *)
(* tree is one step, as half of what it removes is no better or worse      *)
(* than all of it.                                                         *)
(***************************************************************************)
EXTENDS Naturals, FiniteSets

CONSTANTS Jobs, NoJob,
          MaxCrashes,   \* bound: crashes of the server
          MaxFaults     \* bound: RemoveAll calls that fail

ASSUME JobsAssumption == IsFiniteSet(Jobs) /\ NoJob \notin Jobs
ASSUME BoundsAssumption == MaxCrashes \in Nat /\ MaxFaults \in Nat

VARIABLES
    final,     \* what is at repoPath: nothing, "junk" that is not a repository,
               \* a "shell" that looks like one, or a "whole" repository
    temp,      \* temp[j]: the directory repoPath.tmp-j: "none", "part" or "whole"
    pc, job,   \* where processJob is, and its job
    torn,      \* a partial copy was left behind (a history variable)
    crashes, faults

vars == <<final, temp, pc, job, torn, crashes, faults>>

PCs == {"down", "idle", "fetch", "clear", "sweep", "clone", "cloning", "place", "rename",
        "copy", "copyInto", "uncopy", "tidy"}

TypeOK ==
    /\ final \in {"none", "junk", "shell", "whole"}
    /\ temp \in [Jobs -> {"none", "part", "whole"}]
    /\ pc \in PCs /\ job \in Jobs \cup {NoJob}
    /\ pc \in {"down", "idle"} <=> job = NoJob
    /\ torn \in BOOLEAN
    /\ crashes \in 0..MaxCrashes /\ faults \in 0..MaxFaults

\* A new repository, or a partial clone that an older version made in place.
Init ==
    /\ final \in {"none", "junk"}
    /\ temp = [j \in Jobs |-> "none"]
    /\ pc = "idle" /\ job = NoJob
    /\ torn = FALSE /\ crashes = 0 /\ faults = 0

Temps == {j \in Jobs : temp[j] # "none"}

\* Mutant: whatever is there is taken for a repository.
IsPresent == final # "none"

IsRepositoryCloned == final \in {"shell", "whole"}

goto(next) == pc' = next /\ UNCHANGED <<job, crashes>>

done == pc' = "idle" /\ job' = NoJob /\ UNCHANGED crashes

\* RemoveAll of repoPath.  A failure is logged and otherwise ignored.
removeFinal ==
    \/ final' = "none" /\ UNCHANGED faults
    \/ final # "none" /\ faults < MaxFaults /\ faults' = faults + 1 /\ UNCHANGED final

\* RemoveAll of the job's own temporary directory, likewise.
removeTemp ==
    \/ temp' = [temp EXCEPT ![job] = "none"] /\ UNCHANGED faults
    \/ temp[job] # "none" /\ faults < MaxFaults /\ faults' = faults + 1 /\ UNCHANGED temp

-----------------------------------------------------------------------------
\* Mutant: fetch or clone by last_clone_at, which may be missing.
beginByTimestamp(j) ==
    /\ pc = "idle"
    /\ job' = j
    /\ pc' \in IF IsRepositoryCloned THEN {"fetch", "clear"} ELSE {"clear"}
    /\ UNCHANGED <<final, temp, torn, crashes, faults>>

\* processJob: fetch or clone, by what is on disk.
begin(j) ==
    /\ pc = "idle"
    /\ job' = j
    /\ pc' = IF IsRepositoryCloned THEN "fetch" ELSE "clear"
    /\ UNCHANGED <<final, temp, torn, crashes, faults>>

\* FetchRepository keeps a whole repository whole.  Of a shell it may find no
\* origin remote or miss objects, and fail, or it may complete it.
fetch ==
    /\ pc = "fetch"
    /\ final' \in {final, "whole"}
    /\ done
    /\ UNCHANGED <<temp, torn, faults>>

\* "removing leftover incomplete clone directory before re-clone".
clear ==
    /\ pc = "clear"
    /\ removeFinal
    /\ goto("sweep")
    /\ UNCHANGED <<temp, torn>>

\* cleanupStaleTempClones and the RemoveAll of the job's own directory: the
\* temporary directories of all jobs go, but those that cannot be removed.
sweep ==
    /\ pc = "sweep"
    /\ \E kept \in SUBSET Temps :
         /\ Cardinality(kept) <= MaxFaults - faults
         /\ faults' = faults + Cardinality(kept)
         /\ temp' = [j \in Jobs |-> IF j \in kept THEN temp[j] ELSE "none"]
    /\ goto("clone")
    /\ UNCHANGED <<final, torn>>

\* CloneRepository into the temporary directory.  It refuses a repository that
\* is there already, and may refuse parts of one.
cloneStarts ==
    /\ pc = "clone" /\ temp[job] # "whole"
    /\ temp' = [temp EXCEPT ![job] = "part"]
    /\ goto("cloning")
    /\ UNCHANGED <<final, torn, faults>>

cloneSucceeds ==
    /\ pc = "cloning"
    /\ temp' = [temp EXCEPT ![job] = "whole"]
    /\ goto("place")
    /\ UNCHANGED <<final, torn, faults>>

\* An error, the clone timeout or the shutdown: the partial clone goes.
cloneFails ==
    /\ pc \in {"clone", "cloning"}
    /\ removeTemp
    /\ done
    /\ UNCHANGED <<final, torn>>

\* "The destination must not exist for os.Rename".
place ==
    /\ pc = "place"
    /\ removeFinal
    /\ goto("rename")
    /\ UNCHANGED <<temp, torn>>

\* os.Rename: it cannot replace a directory that is not empty.
rename ==
    /\ pc = "rename" /\ final = "none"
    /\ final' = temp[job]
    /\ temp' = [temp EXCEPT ![job] = "none"]
    /\ done
    /\ UNCHANGED <<torn, faults>>

\* The clone timeout or the shutdown ends the retries: the clone is left for
\* the next attempt to sweep.
renameAborted ==
    /\ pc = "rename"
    /\ done
    /\ UNCHANGED <<final, temp, torn, faults>>

\* All retries failed: `cp -a', which copies into a directory that is there.
renameFails ==
    /\ pc = "rename"
    /\ goto(IF final = "none" THEN "copy" ELSE "copyInto")
    /\ UNCHANGED <<final, temp, torn, faults>>

\* The copy grows: a directory, then one that looks like a repository.
copyGrows ==
    /\ pc = "copy" /\ final \in {"none", "junk"}
    /\ final' = IF final = "none" THEN "junk" ELSE "shell"
    /\ UNCHANGED <<temp, pc, job, torn, crashes, faults>>

copySucceeds ==
    /\ pc \in {"copy", "copyInto"}
    /\ final' = IF pc = "copy" THEN temp[job] ELSE final
    /\ goto("tidy")
    /\ UNCHANGED <<temp, torn, faults>>

\* cp fails or is killed by the timeout or the shutdown.
copyFails ==
    /\ pc \in {"copy", "copyInto"}
    /\ goto("uncopy")
    /\ UNCHANGED <<final, temp, torn, faults>>

\* "remove partial destination after failed copy fallback".
uncopy ==
    /\ pc = "uncopy"
    /\ removeFinal
    /\ torn' = (torn \/ final' = "shell")
    /\ goto("tidy")
    /\ UNCHANGED temp

\* RemoveAll(tmpPath) after the copy, and the end of the job.
tidy ==
    /\ pc = "tidy"
    /\ removeTemp
    /\ done
    /\ UNCHANGED <<final, torn>>

processJob ==
    \/ fetch \/ clear \/ sweep \/ cloneStarts \/ cloneSucceeds \/ cloneFails \/ place
    \/ rename \/ renameAborted \/ renameFails
    \/ copyGrows \/ copySucceeds \/ copyFails \/ uncopy \/ tidy

\* The server dies, with the goroutine and its children.
crash ==
    /\ pc # "down" /\ crashes < MaxCrashes
    /\ pc' = "down" /\ job' = NoJob
    /\ crashes' = crashes + 1
    /\ torn' = (torn \/ (pc \in {"copy", "uncopy"} /\ final = "shell"))
    /\ UNCHANGED <<final, temp, faults>>

\* Start looks at rows only, the directories stay as they are.
Start ==
    /\ pc = "down"
    /\ pc' = "idle"
    /\ UNCHANGED <<final, temp, job, torn, crashes, faults>>

Next == processJob \/ (\E j \in Jobs : begin(j)) \/ crash \/ Start

Spec == Init /\ [][Next]_vars

\* Jobs run and are scheduled again; upstream answers and the file system takes
\* the result often enough.
FairSpec ==
    /\ Spec
    /\ WF_vars(processJob) /\ WF_vars(Start) /\ WF_vars(\E j \in Jobs : begin(j))
    /\ SF_vars(cloneStarts) /\ SF_vars(cloneSucceeds)
    /\ SF_vars(rename \/ copySucceeds)

-----------------------------------------------------------------------------
(* "This guarantees repoPath only ever appears as a complete repository":  *)
(* what looks like a repository is one, but for a copy that is under way   *)
(* or was cut off by a crash or by a removal that failed.                  *)
FinalIsWhole == final = "shell" => torn \/ pc \in {"copy", "uncopy"}

(* A whole repository stays: no job clears, replaces or damages it.        *)
StaysWhole == [][final = "whole" => final' = "whole"]_vars

(* Temporary clones "do not accumulate on disk" (cleanupStaleTempClones):  *)
(* over any number of crashed and aborted attempts there is one, and those *)
(* that could not be removed.                                              *)
NoAccumulation == Cardinality(Temps) <= 1 + faults

(* "So the clone can self-heal": whatever crashes, aborts and failed       *)
(* removals left behind, the repository is there in the end, unless a copy *)
(* was torn.                                                               *)
Heals == []<>(final = "whole" \/ torn)

-----------------------------------------------------------------------------
(* The inductive invariant of the proofs: what each step may rely on.      *)

\* What is on disk at each step: nothing that passes for a repository where
\* one is cleared, made or put in place, and a whole clone from `place' on.
DiskMatches ==
    /\ pc \in {"clear", "sweep", "clone", "cloning", "place", "rename", "copyInto"} =>
         final \in {"none", "junk"}
    /\ pc \in {"copy", "uncopy"} => final # "whole"
    /\ pc = "cloning" => temp[job] = "part"
    /\ pc \in {"place", "rename", "copy", "copyInto"} => temp[job] = "whole"

\* The sweep leaves what it failed to remove; the job's own clone comes on top.
FewTemps == Cardinality(Temps) <= faults + IF pc = "clone" THEN 0 ELSE 1

IInv == TypeOK /\ DiskMatches /\ FinalIsWhole /\ FewTemps
================================================================================
