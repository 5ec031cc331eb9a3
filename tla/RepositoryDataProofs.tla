------------------------ MODULE RepositoryDataProofs ------------------------
(***************************************************************************)
(* What the paperbin of repositories, the paperbin of branches and the     *)
(* dedupe pools promise, proved for every value of MCRepositoryData's      *)
(* constants: any number of requests, branches, commits, mirrors, faults   *)
(* and crashes.                                                            *)
(***************************************************************************)
EXTENDS MCRepositoryData, TLAPS

-----------------------------------------------------------------------------
(* A repository in the paperbin and back (Paperbin).                       *)

\* Where the data of a mirrored repository is while its row is live ...
LiveData == tree = "whole" \/ (tree = "none" /\ archive = "whole")

\* ... and from where a restore brings it back while its row is binned.
BinData ==
    \/ archive = "whole"
    \/ archive = "none" /\ folder = "whole"
    \/ archive = "none" /\ folder = "none" /\ tree = "whole"

\* Which steps an actor takes.
Takes(a, step) ==
    CASE a = "job" -> step \in {"idle", "git"}
      [] a = "cleaner" -> step \in {"idle", "purgeExpired", "wipe"}
      [] OTHER -> step \notin {"git", "purgeExpired"}

\* What the row is at a step, and what is then on the disk.
RowAt(step) ==
    /\ step \in {"archive", "compress", "removeTree", "softDelete", "unarchive", "discard", "git"}
         => row = "live"
    /\ step \in {"unpack", "unpacking", "dropArchive", "undelete", "repack", "dropTree"}
         => row = "binned"
    /\ step = "wipe" => row = "gone"

DataAt(step) ==
    /\ step \in {"compress", "removeTree", "discard", "dropArchive", "undelete", "repack"}
         => tree = "whole"
    /\ step \in {"removeTree", "softDelete", "unarchive", "unpacking", "dropArchive", "dropTree"}
         => archive = "whole"

\* A rollback follows a step that failed.
RollsBack(a) == pc[a] \in {"unarchive", "repack"} => a \in failed

\* One actor at a time is in the directory.
Alone == \A a, b \in Actors : pc[a] \in OnDisk /\ pc[b] \in OnDisk => a = b

\* A mirrored repository that is not purged is kept.
Kept ==
    /\ row = "live" => LiveData \/ \E a \in Actors : pc[a] \in {"softDelete", "unarchive"}
    /\ row = "binned" => BinData \/ \E a \in Actors : pc[a] = "repack"
    /\ \A a \in Actors : DataAt(pc[a])

\* The inductive invariant.
PaperbinInv ==
    /\ TypeOK /\ folder # "part"
    /\ \A a \in Actors : Takes(a, pc[a])
    /\ ~mishap => /\ Alone
                  /\ \A a \in Actors : RowAt(pc[a]) /\ RollsBack(a)
                  /\ mirrored /\ row # "gone" => Kept

\* The types of the row and of the disk.
RowAndDisk ==
    /\ row \in {"live", "binned", "gone"}
    /\ expired \in BOOLEAN /\ linked \in BOOLEAN /\ audited \in BOOLEAN
    /\ refused \in BOOLEAN /\ mirrored \in BOOLEAN
    /\ tree \in Disk /\ archive \in Archives /\ folder \in Disk

\* What a step of actor a leaves alone, or only adds to.
Moves(a) ==
    /\ pc' \in [Actors -> Steps]
    /\ \A b \in Actors \ {a} : pc'[b] = pc[b]
    /\ failed' \subseteq Actors
    /\ mishap' \in BOOLEAN /\ (mishap => mishap')
    /\ faults' \in 0..MaxFaults /\ crashes' \in 0..MaxCrashes
    /\ mirrored' = mirrored

\* TypeOK, in the parts the steps below are about.
LEMMA PaperbinType ==
    TypeOK <=> /\ RowAndDisk
               /\ pc \in [Actors -> Steps]
               /\ failed \subseteq Actors /\ mishap \in BOOLEAN
               /\ faults \in 0..MaxFaults /\ crashes \in 0..MaxCrashes
BY DEF TypeOK, RowAndDisk

\* The same of the next state.
LEMMA PaperbinTypeNext ==
    TypeOK' <=> /\ RowAndDisk'
                /\ pc' \in [Actors -> Steps]
                /\ failed' \subseteq Actors /\ mishap' \in BOOLEAN
                /\ faults' \in 0..MaxFaults /\ crashes' \in 0..MaxCrashes
BY DEF TypeOK, RowAndDisk, Actors

\* Live or binned, a repository starts with its data where the invariant wants it.
LEMMA PaperbinInit == Init => PaperbinInv
<1> SUFFICES ASSUME Init PROVE PaperbinInv
  OBVIOUS
<1>1. RowAndDisk /\ folder # "part"
  BY DEF Init, RowAndDisk, Disk, Archives
<1>2. pc \in [Actors -> Steps] /\ \A a \in Actors : pc[a] = "idle"
  BY DEF Init, Steps
<1>3. TypeOK
  <2>1. faults \in 0..MaxFaults /\ crashes \in 0..MaxCrashes
    BY BoundsAssumption DEF Init
  <2>2. failed \subseteq Actors /\ mishap \in BOOLEAN
    BY DEF Init
  <2> QED BY <1>1, <1>2, <2>1, <2>2, PaperbinType
<1>4. (\A a \in Actors : Takes(a, pc[a])) /\ Alone /\ \A a \in Actors : RowAt(pc[a]) /\ RollsBack(a)
  BY <1>2 DEF Takes, Alone, RowAt, RollsBack, OnDisk
<1>5. mirrored => Kept
  BY <1>2 DEF Init, Kept, LiveData, BinData, DataAt
<1> QED BY <1>1, <1>3, <1>4, <1>5 DEF PaperbinInv

\* The git job and the cleaner are actors of their own.
LEMMA ActorsDiffer ==
    Requests \subseteq Actors /\ "job" \in Actors /\ "cleaner" \in Actors
    /\ "job" \notin Requests /\ "cleaner" \notin Requests
BY RequestsAssumption DEF Actors

\* The three ways a step of an actor ends.
LEMMA GoesOn ==
    ASSUME TypeOK, NEW a \in Actors, NEW step \in Steps, goto(a, step)
    PROVE  Moves(a) /\ pc'[a] = step
BY PaperbinType DEF goto, Moves, history, bounds

\* An actor that meets a fault moves, and says so.
LEMMA Failing ==
    ASSUME TypeOK, NEW a \in Actors, NEW step \in Steps, fails(a, step)
    PROVE  Moves(a) /\ pc'[a] = step
<1>1. faults' \in 0..MaxFaults
  <2>1. faults \in 0..MaxFaults /\ faults < MaxFaults /\ faults' = faults + 1
    BY PaperbinType DEF fails
  <2> QED BY <2>1, BoundsAssumption
<1>2. mishap' \in BOOLEAN /\ (mishap => mishap')
  BY PaperbinType DEF fails, note
<1> QED BY <1>1, <1>2, PaperbinType DEF fails, Moves

\* An actor that begins where the row is as its first step wants it.
LEMMA Beginning ==
    ASSUME PaperbinInv, NEW a \in Actors, NEW step \in Steps, begin(a, step),
           Takes(a, step), RowAt(step), DataAt(step),
           step \notin {"unarchive", "repack"}
    PROVE  PaperbinInv'
<1>1. TypeOK
  BY DEF PaperbinInv
<1>2. /\ Moves(a) /\ pc'[a] = step
      /\ ~mishap' /\ step \in OnDisk => \A b \in Actors : pc[b] \notin OnDisk
  BY <1>1, PaperbinType DEF begin, note, Moves, bounds
<1>3. UNCHANGED <<row, expired, linked, audited, refused, tree, archive, folder, mirrored>>
  BY DEF begin, rowVars, diskVars
<1>4. TypeOK'
  BY <1>1, <1>2, <1>3, PaperbinType, PaperbinTypeNext DEF Moves, RowAndDisk
<1>5. \A b \in Actors : Takes(b, pc'[b])
  BY <1>2 DEF PaperbinInv, Moves
<1>6. ASSUME ~mishap' PROVE Alone' /\ \A b \in Actors : RowAt(pc[b])' /\ RollsBack(b)'
  <2>1. ~mishap
    BY <1>2, <1>6 DEF Moves
  <2>2. Alone'
    BY <1>2, <1>6, <2>1 DEF PaperbinInv, Moves, Alone
  <2>3. \A b \in Actors : RowAt(pc'[b])
    BY <1>2, <2>1 DEF PaperbinInv, Moves
  <2>4. \A b \in Actors : RollsBack(b)'
    BY <1>2, <2>1 DEF begin, PaperbinInv, Moves, RollsBack
  <2> QED BY <1>3, <2>2, <2>3, <2>4 DEF RowAt
<1>7. ASSUME ~mishap', mirrored', row' # "gone" PROVE Kept'
  <2>1. Kept
    BY <1>2, <1>3, <1>7 DEF PaperbinInv, Moves
  <2>2. \A b \in Actors : DataAt(pc'[b])
    BY <1>2, <2>1 DEF Kept, Moves
  <2>3. \A b \in Actors : pc[b] \in {"softDelete", "unarchive", "repack"} => pc'[b] = pc[b]
    BY <1>2 DEF begin, Moves
  <2> QED BY <1>3, <2>1, <2>2, <2>3 DEF Kept, DataAt, LiveData, BinData
<1> QED BY <1>3, <1>4, <1>5, <1>6, <1>7 DEF PaperbinInv

\* Who is in the directory is there alone, so its steps need only leave the
\* row and the disk as its next step wants them.
LEMMA Working ==
    ASSUME PaperbinInv, NEW a \in Actors, pc[a] \in OnDisk, Moves(a),
           Takes(a, pc'[a]), RowAndDisk', folder' \in {folder, "none"},
           ~mishap' => RowAt(pc[a])', RollsBack(a)',
           ~mishap' /\ mirrored /\ row' # "gone" =>
             /\ row' = "live" => LiveData' \/ pc'[a] \in {"softDelete", "unarchive"}
             /\ row' = "binned" => BinData' \/ pc'[a] = "repack"
             /\ DataAt(pc[a])'
    PROVE  PaperbinInv'
<1>1. TypeOK'
  BY PaperbinTypeNext DEF Moves
<1>2. \A b \in Actors : Takes(b, pc'[b])
  BY DEF PaperbinInv, Moves
<1>3. ASSUME ~mishap' PROVE \A b \in Actors \ {a} : pc'[b] \in {"idle", "save", "log"}
  BY <1>3 DEF PaperbinInv, Moves, Alone, OnDisk
<1>4. ~mishap' => Alone'
  BY <1>3 DEF Alone, OnDisk
<1>5. ~mishap' => \A b \in Actors : RowAt(pc[b])' /\ RollsBack(b)'
  BY <1>3 DEF RowAt, RollsBack
<1>6. ~mishap' /\ mirrored' /\ row' # "gone" => Kept'
  BY <1>3 DEF Kept, DataAt, Moves
<1> QED BY <1>1, <1>2, <1>4, <1>5, <1>6 DEF PaperbinInv

\* Every step keeps the invariant: for each, what it may leave of the row and
\* of the disk for the step it goes to.
LEMMA PaperbinStep ==
    ASSUME PaperbinInv, [Next]_vars
    PROVE  PaperbinInv'
<1>1. /\ TypeOK /\ RowAndDisk /\ folder # "part" /\ (\A a \in Actors : Takes(a, pc[a]))
      /\ ~mishap => /\ Alone
                    /\ \A a \in Actors : RowAt(pc[a]) /\ RollsBack(a)
                    /\ mirrored /\ row # "gone" => Kept
  BY PaperbinType DEF PaperbinInv
<1>2. ASSUME NEW r \in Requests, archiveBegins(r) PROVE PaperbinInv'
  <2>1. r \in Actors /\ pc[r] \in OnDisk /\ pc[r] # "git" /\ (~mishap => RowAt(pc[r]))
    BY <1>1, <1>2, ActorsDiffer DEF archiveBegins, OnDisk, Steps
  <2>2. Moves(r) /\ pc'[r] \in {"softDelete", "compress"} /\ Takes(r, pc'[r])
    BY <1>1, <1>2, ActorsDiffer, GoesOn DEF archiveBegins, Steps, Takes
  <2>3. RowAndDisk' /\ folder' \in {folder, "none"}
    BY <1>1, <1>2, <2>2 DEF archiveBegins, rowVars, diskVars, RowAndDisk, Disk, Archives, Moves
  <2>4. ~mishap' => RowAt(pc[r])'
    BY <1>2, <2>1, <2>2 DEF archiveBegins, RowAt, rowVars, Moves
  <2>5. ASSUME ~mishap', mirrored, row' # "gone"
        PROVE  /\ row' = "live" => LiveData' \/ pc'[r] \in {"softDelete", "unarchive"}
               /\ row' = "binned" => BinData' \/ pc'[r] = "repack"
               /\ DataAt(pc[r])'
    <3>1. ~mishap
      BY <2>2, <2>5 DEF Moves
    <3> QED BY <1>1, <1>2, <2>5, <3>1, ActorsDiffer, GoesOn DEF archiveBegins, rowVars,
          diskVars, Kept, RowAt, DataAt, LiveData, Steps, OnDisk, Alone
  <2>6. RollsBack(r)'
    BY <2>2 DEF RollsBack
  <2> QED BY <2>1, <2>2, <2>3, <2>4, <2>5, <2>6, Working
<1>3. ASSUME NEW r \in Requests, compressEnds(r) PROVE PaperbinInv'
  <2>1. r \in Actors /\ pc[r] \in OnDisk /\ pc[r] # "git" /\ (~mishap => RowAt(pc[r]))
    BY <1>1, <1>3, ActorsDiffer DEF compressEnds, OnDisk, Steps
  <2>2. Moves(r) /\ pc'[r] \in {"removeTree", "idle"} /\ Takes(r, pc'[r])
    BY <1>1, <1>3, <2>1, ActorsDiffer, GoesOn, Failing DEF compressEnds, Steps, Takes
  <2>3. RowAndDisk' /\ folder' \in {folder, "none"}
    BY <1>1, <1>3, <2>2
       DEF compressEnds, tarGzCompress, NoWalk, Aborted, rowVars, diskVars, RowAndDisk,
         Disk, Archives, Moves
  <2>4. ~mishap' => RowAt(pc[r])'
    BY <1>3, <2>1, <2>2 DEF compressEnds, RowAt, rowVars, Moves
  <2>5. ASSUME ~mishap', mirrored, row' # "gone"
        PROVE  /\ row' = "live" => LiveData' \/ pc'[r] \in {"softDelete", "unarchive"}
               /\ row' = "binned" => BinData' \/ pc'[r] = "repack"
               /\ DataAt(pc[r])'
    <3>1. ~mishap
      BY <2>2, <2>5 DEF Moves
    <3> QED BY <1>1, <1>3, <2>1, <2>2, <2>5, <3>1, ActorsDiffer, GoesOn, Failing
            DEF compressEnds, tarGzCompress, NoWalk, Aborted, rowVars, diskVars, RowAndDisk,
                Disk, Archives, Kept, RowAt, DataAt, LiveData, BinData, Steps, OnDisk, Alone
  <2>6. RollsBack(r)'
    BY <2>2 DEF RollsBack
  <2> QED BY <2>1, <2>2, <2>3, <2>4, <2>5, <2>6, Working
<1>4. ASSUME NEW r \in Requests, removeTree(r) PROVE PaperbinInv'
  <2>1. r \in Actors /\ pc[r] \in OnDisk /\ pc[r] # "git" /\ (~mishap => RowAt(pc[r]))
    BY <1>1, <1>4, ActorsDiffer DEF removeTree, OnDisk, Steps
  <2>2. Moves(r) /\ pc'[r] \in {"softDelete"} /\ Takes(r, pc'[r])
    BY <1>1, <1>4, <2>1, ActorsDiffer, GoesOn, Failing DEF removeTree, Steps, Takes
  <2>3. RowAndDisk' /\ folder' \in {folder, "none"}
    BY <1>1, <1>4, <2>2 DEF removeTree, rowVars, diskVars, RowAndDisk, Disk, Archives, Moves
  <2>4. ~mishap' => RowAt(pc[r])'
    BY <1>4, <2>1, <2>2 DEF removeTree, RowAt, rowVars, Moves
  <2>5. ASSUME ~mishap', mirrored, row' # "gone"
        PROVE  /\ row' = "live" => LiveData' \/ pc'[r] \in {"softDelete", "unarchive"}
               /\ row' = "binned" => BinData' \/ pc'[r] = "repack"
               /\ DataAt(pc[r])'
    <3>1. ~mishap
      BY <2>2, <2>5 DEF Moves
    <3> QED BY <1>1, <1>4, <2>1, <2>2, <2>5, <3>1 DEF removeTree, rowVars, Kept, RowAt, DataAt
  <2>6. RollsBack(r)'
    BY <2>2 DEF RollsBack
  <2> QED BY <2>1, <2>2, <2>3, <2>4, <2>5, <2>6, Working
<1>5. ASSUME NEW r \in Requests, softDelete(r) PROVE PaperbinInv'
  <2>1. r \in Actors /\ pc[r] \in OnDisk /\ pc[r] # "git" /\ (~mishap => RowAt(pc[r]))
    BY <1>1, <1>5, ActorsDiffer DEF softDelete, OnDisk, Steps
  <2>2. Moves(r) /\ pc'[r] \in {"log"} /\ Takes(r, pc'[r])
    BY <1>1, <1>5, ActorsDiffer, GoesOn DEF softDelete, Steps, Takes
  <2>3. RowAndDisk' /\ folder' \in {folder, "none"}
    BY <1>1, <1>5, <2>2 DEF softDelete, diskVars, RowAndDisk, Moves
  <2>4. ~mishap' => RowAt(pc[r])'
    BY <2>2 DEF RowAt
  <2>5. ASSUME ~mishap', mirrored, row' # "gone"
        PROVE  /\ row' = "live" => LiveData' \/ pc'[r] \in {"softDelete", "unarchive"}
               /\ row' = "binned" => BinData' \/ pc'[r] = "repack"
               /\ DataAt(pc[r])'
    <3>1. ~mishap
      BY <2>2, <2>5 DEF Moves
    <3> QED BY <1>1, <1>5, <2>1, <2>2, <2>5, <3>1 DEF softDelete, diskVars, Kept, DataAt,
          BinData
  <2>6. RollsBack(r)'
    BY <2>2 DEF RollsBack
  <2> QED BY <2>1, <2>2, <2>3, <2>4, <2>5, <2>6, Working
<1>6. ASSUME NEW r \in Requests, softDeleteFails(r) PROVE PaperbinInv'
  <2>1. r \in Actors /\ pc[r] \in OnDisk /\ pc[r] # "git" /\ (~mishap => RowAt(pc[r]))
    BY <1>1, <1>6, ActorsDiffer DEF softDeleteFails, OnDisk, Steps
  <2>2. Moves(r) /\ pc'[r] \in {"idle", "unarchive"} /\ Takes(r, pc'[r])
    BY <1>1, <1>6, <2>1, ActorsDiffer, Failing DEF softDeleteFails, Steps, Takes
  <2>3. RowAndDisk' /\ folder' \in {folder, "none"}
    BY <1>1, <1>6, <2>2 DEF softDeleteFails, rowVars, diskVars, RowAndDisk, Disk, Archives, Moves
  <2>4. ~mishap' => RowAt(pc[r])'
    BY <1>1, <1>6, <2>1, <2>2 DEF softDeleteFails, rowVars, RowAt, Moves
  <2>5. ASSUME ~mishap', mirrored, row' # "gone"
        PROVE  /\ row' = "live" => LiveData' \/ pc'[r] \in {"softDelete", "unarchive"}
               /\ row' = "binned" => BinData' \/ pc'[r] = "repack"
               /\ DataAt(pc[r])'
    <3>1. ~mishap
      BY <2>2, <2>5 DEF Moves
    <3> QED BY <1>1, <1>6, <2>5, <3>1, ActorsDiffer, Failing DEF softDeleteFails,
          rowVars, diskVars, RowAndDisk, Kept, RowAt, DataAt, LiveData, Steps
  <2>6. RollsBack(r)'
    <3>1. CASE archive = "none"
      BY <1>1, <1>6, <2>1, <3>1, Failing DEF softDeleteFails, RollsBack, Steps
    <3>2. CASE archive # "none"
      BY <1>6, <3>2 DEF softDeleteFails, fails, RollsBack
    <3> QED BY <3>1, <3>2
  <2> QED BY <2>1, <2>2, <2>3, <2>4, <2>5, <2>6, Working
<1>7. ASSUME NEW r \in Requests, unpackBegins(r) PROVE PaperbinInv'
  <2>1. r \in Actors /\ pc[r] \in OnDisk /\ pc[r] # "git" /\ (~mishap => RowAt(pc[r]))
    BY <1>1, <1>7, ActorsDiffer DEF unpackBegins, OnDisk, Steps
  <2>2. Moves(r) /\ pc'[r] \in {"unpacking", "idle", "undelete"} /\ Takes(r, pc'[r])
    BY <1>1, <1>7, <2>1, ActorsDiffer, GoesOn, Failing DEF unpackBegins, Steps, Takes
  <2>3. RowAndDisk' /\ folder' \in {folder, "none"}
    BY <1>1, <1>7, <2>2 DEF unpackBegins, rowVars, diskVars, RowAndDisk, Disk, Archives, Moves
  <2>4. ~mishap' => RowAt(pc[r])'
    BY <1>7, <2>1, <2>2 DEF unpackBegins, RowAt, rowVars, Moves
  <2>5. ASSUME ~mishap', mirrored, row' # "gone"
        PROVE  /\ row' = "live" => LiveData' \/ pc'[r] \in {"softDelete", "unarchive"}
               /\ row' = "binned" => BinData' \/ pc'[r] = "repack"
               /\ DataAt(pc[r])'
    <3>1. ~mishap
      BY <2>2, <2>5 DEF Moves
    <3> QED BY <1>1, <1>7, <2>1, <2>2, <2>5, <3>1, ActorsDiffer, GoesOn, Failing
            DEF unpackBegins, rowVars, diskVars, RowAndDisk, Disk, Archives, Kept, RowAt, DataAt,
                LiveData, BinData, Steps, OnDisk, Alone
  <2>6. RollsBack(r)'
    BY <2>2 DEF RollsBack
  <2> QED BY <2>1, <2>2, <2>3, <2>4, <2>5, <2>6, Working
<1>8. ASSUME NEW r \in Requests, unpackEnds(r) PROVE PaperbinInv'
  <2>1. r \in Actors /\ pc[r] \in OnDisk /\ pc[r] # "git" /\ (~mishap => RowAt(pc[r]))
    BY <1>1, <1>8, ActorsDiffer DEF unpackEnds, OnDisk, Steps
  <2>2. Moves(r) /\ pc'[r] \in {"dropArchive", "idle"} /\ Takes(r, pc'[r])
    BY <1>1, <1>8, <2>1, ActorsDiffer, GoesOn, Failing DEF unpackEnds, Steps, Takes
  <2>3. RowAndDisk' /\ folder' \in {folder, "none"}
    BY <1>1, <1>8, <2>2
       DEF unpackEnds, tarGzDecompress, Unreadable, rowVars, diskVars, RowAndDisk,
         Disk, Archives, Moves
  <2>4. ~mishap' => RowAt(pc[r])'
    BY <1>8, <2>1, <2>2 DEF unpackEnds, RowAt, rowVars, Moves
  <2>5. ASSUME ~mishap', mirrored, row' # "gone"
        PROVE  /\ row' = "live" => LiveData' \/ pc'[r] \in {"softDelete", "unarchive"}
               /\ row' = "binned" => BinData' \/ pc'[r] = "repack"
               /\ DataAt(pc[r])'
    <3>1. ~mishap
      BY <2>2, <2>5 DEF Moves
    <3> QED BY <1>1, <1>8, <2>1, <2>2, <2>5, <3>1, ActorsDiffer, GoesOn, Failing
            DEF unpackEnds, tarGzDecompress, Unreadable, rowVars, diskVars, RowAndDisk,
                Disk, Archives, Kept, RowAt, DataAt, LiveData, BinData, Steps, OnDisk, Alone
  <2>6. RollsBack(r)'
    BY <2>2 DEF RollsBack
  <2> QED BY <2>1, <2>2, <2>3, <2>4, <2>5, <2>6, Working
<1>9. ASSUME NEW r \in Requests, dropArchive(r) PROVE PaperbinInv'
  <2>1. r \in Actors /\ pc[r] \in OnDisk /\ pc[r] # "git" /\ (~mishap => RowAt(pc[r]))
    BY <1>1, <1>9, ActorsDiffer DEF dropArchive, OnDisk, Steps
  <2>2. Moves(r) /\ pc'[r] \in {"undelete"} /\ Takes(r, pc'[r])
    BY <1>1, <1>9, <2>1, ActorsDiffer, GoesOn, Failing DEF dropArchive, Steps, Takes
  <2>3. RowAndDisk' /\ folder' \in {folder, "none"}
    BY <1>1, <1>9, <2>2 DEF dropArchive, rowVars, diskVars, RowAndDisk, Disk, Archives, Moves
  <2>4. ~mishap' => RowAt(pc[r])'
    BY <1>9, <2>1, <2>2 DEF dropArchive, RowAt, rowVars, Moves
  <2>5. ASSUME ~mishap', mirrored, row' # "gone"
        PROVE  /\ row' = "live" => LiveData' \/ pc'[r] \in {"softDelete", "unarchive"}
               /\ row' = "binned" => BinData' \/ pc'[r] = "repack"
               /\ DataAt(pc[r])'
    <3>1. ~mishap
      BY <2>2, <2>5 DEF Moves
    <3> QED BY <1>1, <1>9, <2>1, <2>2, <2>5, <3>1, ActorsDiffer, GoesOn, Failing
            DEF dropArchive, rowVars, diskVars, RowAndDisk, Disk, Archives, Kept, RowAt, DataAt,
                LiveData, BinData, Steps, OnDisk, Alone
  <2>6. RollsBack(r)'
    BY <2>2 DEF RollsBack
  <2> QED BY <2>1, <2>2, <2>3, <2>4, <2>5, <2>6, Working
<1>10. ASSUME NEW r \in Requests, undelete(r) PROVE PaperbinInv'
  <2>1. r \in Actors /\ pc[r] \in OnDisk /\ pc[r] # "git" /\ (~mishap => RowAt(pc[r]))
    BY <1>1, <1>10, ActorsDiffer DEF undelete, OnDisk, Steps
  <2>2. Moves(r) /\ pc'[r] \in {"log"} /\ Takes(r, pc'[r])
    BY <1>1, <1>10, ActorsDiffer, GoesOn DEF undelete, Steps, Takes
  <2>3. RowAndDisk' /\ folder' \in {folder, "none"}
    BY <1>1, <1>10, <2>2 DEF undelete, diskVars, RowAndDisk, Moves
  <2>4. ~mishap' => RowAt(pc[r])'
    BY <2>2 DEF RowAt
  <2>5. ASSUME ~mishap', mirrored, row' # "gone"
        PROVE  /\ row' = "live" => LiveData' \/ pc'[r] \in {"softDelete", "unarchive"}
               /\ row' = "binned" => BinData' \/ pc'[r] = "repack"
               /\ DataAt(pc[r])'
    <3>1. ~mishap
      BY <2>2, <2>5 DEF Moves
    <3> QED BY <1>1, <1>10, <2>1, <2>2, <2>5, <3>1 DEF undelete, diskVars, Kept, DataAt,
          LiveData
  <2>6. RollsBack(r)'
    BY <2>2 DEF RollsBack
  <2> QED BY <2>1, <2>2, <2>3, <2>4, <2>5, <2>6, Working
<1>11. ASSUME NEW r \in Requests, undeleteFails(r) PROVE PaperbinInv'
  <2>1. r \in Actors /\ pc[r] \in OnDisk /\ pc[r] # "git" /\ (~mishap => RowAt(pc[r]))
    BY <1>1, <1>11, ActorsDiffer DEF undeleteFails, OnDisk, Steps
  <2>2. Moves(r) /\ pc'[r] \in {"repack"} /\ Takes(r, pc'[r])
    BY <1>1, <1>11, <2>1, ActorsDiffer, Failing DEF undeleteFails, Steps, Takes
  <2>3. RowAndDisk' /\ folder' \in {folder, "none"}
    BY <1>1, <1>11, <2>2 DEF undeleteFails, rowVars, RowAndDisk, Disk, Archives, Moves
  <2>4. ~mishap' => RowAt(pc[r])'
    BY <1>1, <1>11, <2>1, <2>2 DEF undeleteFails, rowVars, RowAt, Moves
  <2>5. ASSUME ~mishap', mirrored, row' # "gone"
        PROVE  /\ row' = "live" => LiveData' \/ pc'[r] \in {"softDelete", "unarchive"}
               /\ row' = "binned" => BinData' \/ pc'[r] = "repack"
               /\ DataAt(pc[r])'
    <3>1. ~mishap
      BY <2>2, <2>5 DEF Moves
    <3> QED BY <1>1, <1>11, <2>2, <2>5, <3>1, ActorsDiffer DEF undeleteFails,
          rowVars, RowAndDisk, Kept, RowAt, DataAt, LiveData, BinData
  <2>6. RollsBack(r)'
    BY <1>11, <2>2 DEF undeleteFails, fails, RollsBack, Moves
  <2> QED BY <2>1, <2>2, <2>3, <2>4, <2>5, <2>6, Working
<1>12. ASSUME NEW r \in Requests, purge(r) PROVE PaperbinInv'
  <2>1. r \in Actors /\ pc[r] \in OnDisk /\ pc[r] # "git" /\ (~mishap => RowAt(pc[r]))
    BY <1>1, <1>12, ActorsDiffer DEF purge, OnDisk, Steps
  <2>2. Moves(r) /\ pc'[r] \in {"wipe", "idle"} /\ Takes(r, pc'[r])
    BY <1>1, <1>12, <2>1, ActorsDiffer, GoesOn, Failing DEF purge, Steps, Takes
  <2>3. RowAndDisk' /\ folder' \in {folder, "none"}
    BY <1>1, <1>12, <2>2 DEF purge, rowVars, diskVars, RowAndDisk, Disk, Archives, Moves
  <2>4. ~mishap' => RowAt(pc[r])'
    BY <1>1, <1>12, <2>1, <2>2, ActorsDiffer, GoesOn, Failing
       DEF purge, RowAt, rowVars, Moves, Steps
  <2>5. ASSUME ~mishap', mirrored, row' # "gone"
        PROVE  /\ row' = "live" => LiveData' \/ pc'[r] \in {"softDelete", "unarchive"}
               /\ row' = "binned" => BinData' \/ pc'[r] = "repack"
               /\ DataAt(pc[r])'
    <3>1. ~mishap
      BY <2>2, <2>5 DEF Moves
    <3> QED BY <1>1, <1>12, <2>1, <2>2, <2>5, <3>1, ActorsDiffer, GoesOn, Failing
            DEF purge, rowVars, diskVars, RowAndDisk, Disk, Archives, Kept, RowAt, DataAt, LiveData,
                BinData, Steps, OnDisk, Alone
  <2>6. RollsBack(r)'
    BY <2>2 DEF RollsBack
  <2> QED BY <2>1, <2>2, <2>3, <2>4, <2>5, <2>6, Working
<1>13. ASSUME NEW a \in Requests \cup {"cleaner"}, wipe(a) PROVE PaperbinInv'
  <2>1. a \in Actors /\ pc[a] \in OnDisk /\ pc[a] # "git" /\ (~mishap => RowAt(pc[a]))
    BY <1>1, <1>13, ActorsDiffer DEF wipe, OnDisk, Steps
  <2>2. Moves(a) /\ pc'[a] \in {"idle"} /\ Takes(a, pc'[a])
    BY <1>1, <1>13, <2>1, ActorsDiffer, GoesOn, Failing DEF wipe, Steps, Takes
  <2>3. RowAndDisk' /\ folder' \in {folder, "none"}
    BY <1>1, <1>13, <2>2 DEF wipe, rowVars, diskVars, RowAndDisk, Disk, Archives, Moves
  <2>4. ~mishap' => RowAt(pc[a])'
    BY <2>2 DEF RowAt
  <2>5. ASSUME ~mishap', mirrored, row' # "gone"
        PROVE  /\ row' = "live" => LiveData' \/ pc'[a] \in {"softDelete", "unarchive"}
               /\ row' = "binned" => BinData' \/ pc'[a] = "repack"
               /\ DataAt(pc[a])'
    <3>1. ~mishap
      BY <2>2, <2>5 DEF Moves
    <3> QED BY <1>1, <1>13, <2>5, <3>1, ActorsDiffer DEF wipe, rowVars, RowAt
  <2>6. RollsBack(a)'
    BY <2>2 DEF RollsBack
  <2> QED BY <2>1, <2>2, <2>3, <2>4, <2>5, <2>6, Working
<1>14. ASSUME purgeExpired PROVE PaperbinInv'
  <2>1. "cleaner" \in Actors /\ pc["cleaner"] \in OnDisk /\ pc["cleaner"] # "git" /\ (~mishap => RowAt(pc["cleaner"]))
    BY <1>1, <1>14, ActorsDiffer DEF purgeExpired, OnDisk, Steps
  <2>2. Moves("cleaner") /\ pc'["cleaner"] \in {"wipe", "idle"} /\ Takes("cleaner", pc'["cleaner"])
    BY <1>1, <1>14, <2>1, ActorsDiffer, GoesOn, Failing DEF purgeExpired, Steps, Takes
  <2>3. RowAndDisk' /\ folder' \in {folder, "none"}
    BY <1>1, <1>14, <2>2 DEF purgeExpired, rowVars, diskVars, RowAndDisk, Disk, Archives, Moves
  <2>4. ~mishap' => RowAt(pc["cleaner"])'
    BY <1>1, <1>14, <2>1, <2>2, ActorsDiffer, GoesOn, Failing
       DEF purgeExpired, RowAt, rowVars, Moves, Steps
  <2>5. ASSUME ~mishap', mirrored, row' # "gone"
        PROVE  /\ row' = "live" => LiveData' \/ pc'["cleaner"] \in {"softDelete", "unarchive"}
               /\ row' = "binned" => BinData' \/ pc'["cleaner"] = "repack"
               /\ DataAt(pc["cleaner"])'
    <3>1. ~mishap
      BY <2>2, <2>5 DEF Moves
    <3> QED BY <1>1, <1>14, <2>1, <2>2, <2>5, <3>1, ActorsDiffer, GoesOn, Failing
            DEF purgeExpired, rowVars, diskVars, RowAndDisk, Disk, Archives, Kept, RowAt, DataAt,
                LiveData, BinData, Steps, OnDisk, Alone
  <2>6. RollsBack("cleaner")'
    BY <2>2 DEF RollsBack
  <2> QED BY <2>1, <2>2, <2>3, <2>4, <2>5, <2>6, Working
<1>15. ASSUME NEW r \in Requests, \/ deleteRepository(r) \/ restoreRepository(r) \/ permanentDelete(r) \/ updateRepository(r)
       PROVE  PaperbinInv'
  BY <1>15, ActorsDiffer, Beginning DEF deleteRepository, restoreRepository, permanentDelete,
    updateRepository, Takes, RowAt, DataAt, Steps
<1>16. ASSUME listExpired \/ jobBegins PROVE PaperbinInv'
  BY <1>16, ActorsDiffer, Beginning DEF listExpired, jobBegins, Takes, RowAt, DataAt, Steps
<1>17. ASSUME NEW r \in Requests, save(r) PROVE PaperbinInv'
  <2>1. /\ r \in Actors /\ pc[r] = "save" /\ row' = "live" /\ pc' = [pc EXCEPT ![r] = "log"]
        /\ UNCHANGED <<expired, linked, audited, refused, tree, archive, folder, failed, mirrored, faults, crashes>>
        /\ mishap' \in BOOLEAN /\ (mishap => mishap')
        /\ ~mishap' => row = "live"
    BY <1>1, <1>17, ActorsDiffer, PaperbinType DEF save, note, diskVars, bounds
  <2>2. pc' \in [Actors -> Steps] /\ pc'[r] = "log" /\ \A a \in Actors \ {r} : pc'[a] = pc[a]
    BY <1>1, <2>1, PaperbinType DEF Steps
  <2>3. TypeOK'
    BY <1>1, <2>1, <2>2, PaperbinType, PaperbinTypeNext DEF RowAndDisk
  <2>4. \A a \in Actors : Takes(a, pc'[a])
    BY <1>1, <2>1, <2>2 DEF Takes
  <2>5. ~mishap' => Alone' /\ \A a \in Actors : RowAt(pc[a])' /\ RollsBack(a)'
    BY <1>1, <2>1, <2>2 DEF Alone, RowAt, RollsBack, OnDisk
  <2>6. ~mishap' /\ mirrored' => Kept'
    BY <1>1, <2>1 DEF Kept, LiveData, DataAt
  <2> QED BY <2>1, <2>3, <2>4, <2>5, <2>6 DEF PaperbinInv
<1>18. ASSUME retentionPasses PROVE PaperbinInv'
  <2>1. UNCHANGED <<row, linked, audited, refused, tree, archive, folder, pc, failed, mirrored, mishap, faults, crashes>>
        /\ expired' \in BOOLEAN
    BY <1>18 DEF retentionPasses, diskVars, history, bounds
  <2>2. TypeOK'
    BY <1>1, <2>1, PaperbinType, PaperbinTypeNext DEF RowAndDisk
  <2> QED BY <2>1, <2>2 DEF PaperbinInv, Alone, RowAt, RollsBack, Kept, LiveData, BinData, DataAt
<1>19. ASSUME jobEnds PROVE PaperbinInv'
  <2>1. /\ UNCHANGED <<row, expired, linked, audited, refused, archive, folder, failed, mishap, faults, crashes>>
        /\ pc["job"] = "git" /\ pc' \in [Actors -> Steps] /\ pc'["job"] = "idle"
        /\ \A b \in Actors \ {"job"} : pc'[b] = pc[b]
        /\ tree' \in {tree, "whole"} \cup (IF tree = "part" THEN {"none"} ELSE {})
        /\ mirrored' = (mirrored \/ tree' = "whole")
    BY <1>1, <1>19, ActorsDiffer, PaperbinType DEF jobEnds, rowVars, bounds, Steps
  <2>2. TypeOK'
    BY <1>1, <2>1, PaperbinType, PaperbinTypeNext DEF RowAndDisk, Disk, Archives
  <2>3. \A a \in Actors : Takes(a, pc'[a])
    BY <1>1, <2>1 DEF Takes
  <2>4. ASSUME ~mishap' PROVE \A a \in Actors : pc'[a] \in {"idle", "save", "log"}
    BY <1>1, <2>1, <2>4, PaperbinType DEF Alone, OnDisk
  <2>5. ~mishap' => Alone' /\ \A a \in Actors : RowAt(pc[a])' /\ RollsBack(a)'
    BY <2>4 DEF Alone, RowAt, RollsBack, OnDisk
  <2>6. ~mishap' /\ mirrored' => Kept'
    <3>1. ~mishap => row = "live"
      BY <1>1, <2>1, ActorsDiffer DEF RowAt
    <3>2. ~mishap /\ mirrored => LiveData
      BY <1>1, <2>1, <3>1, PaperbinType DEF Kept, Alone, OnDisk
    <3> QED BY <2>1, <2>4, <3>1, <3>2 DEF Kept, LiveData, DataAt
  <2> QED BY <2>1, <2>2, <2>3, <2>5, <2>6 DEF PaperbinInv
<1>20. ASSUME crash PROVE PaperbinInv'
  <2>1. /\ UNCHANGED <<row, expired, linked, audited, refused, archive, folder, mirrored, faults>>
        /\ pc' \in [Actors -> Steps] /\ (\A a \in Actors : pc'[a] = "idle") /\ failed' = {}
        /\ tree' \in {tree, "part"} /\ crashes' \in 0..MaxCrashes
    <3>1. crashes \in 0..MaxCrashes /\ crashes < MaxCrashes /\ crashes' = crashes + 1
      BY <1>1, <1>20, PaperbinType DEF crash, note
    <3>2. crashes' \in 0..MaxCrashes
      BY <3>1, BoundsAssumption
    <3> QED BY <1>20, <3>2 DEF crash, rowVars, Steps
  <2>2. mishap' \in BOOLEAN /\ (mishap => mishap')
    BY <1>1, <1>20, PaperbinType DEF crash, note
  <2>3. TypeOK'
    BY <1>1, <2>1, <2>2, PaperbinType, PaperbinTypeNext DEF RowAndDisk, Disk, Archives
  <2>4. (\A a \in Actors : Takes(a, pc'[a])) /\ Alone' /\ \A a \in Actors : RowAt(pc[a])' /\ RollsBack(a)'
    BY <2>1 DEF Takes, Alone, RowAt, RollsBack, OnDisk
  <2>5. ASSUME ~mishap', mirrored', row' # "gone" PROVE Kept'
    <3>1. ~mishap /\ Kept
      BY <1>1, <2>1, <2>2, <2>5
    <3>2. ASSUME NEW a \in Actors, pc[a] \in {"removeTree", "softDelete", "unarchive", "repack", "dropTree"}
          PROVE  a \in Requests
      BY <1>1, <3>2 DEF Takes, Actors
    <3>3. \A a \in Actors : /\ pc[a] \notin {"unarchive", "repack"}
                            /\ pc[a] \in {"removeTree", "softDelete"} => tree' # "part"
      BY <1>20, <2>5, <3>2 DEF crash, note
    <3>4. tree' = tree \/ (tree' = "part" /\ \E a \in Actors : pc[a] = "dropTree")
      BY <1>20, <3>3, ActorsDiffer DEF crash
    <3>5. (\E a \in Actors : pc[a] = "dropTree") => row = "binned" /\ archive = "whole"
      BY <1>1, <2>5, <2>1, <3>1 DEF Kept, DataAt, RowAt
    <3>6. row = "live" => LiveData /\ tree' = tree
      BY <1>1, <3>1, <3>3, <3>4, <3>5 DEF Kept, LiveData, RowAndDisk, Disk, DataAt
    <3>7. row = "binned" => BinData'
      BY <1>1, <2>1, <3>1, <3>3, <3>4, <3>5 DEF Kept, BinData
    <3> QED BY <2>1, <3>1, <3>6, <3>7 DEF Kept, LiveData, DataAt
  <2> QED BY <2>1, <2>3, <2>4, <2>5 DEF PaperbinInv
<1>21. ASSUME NEW r \in Requests, unarchiveEnds(r) PROVE PaperbinInv'
  <2>1. r \in Actors /\ pc[r] \in OnDisk /\ pc[r] # "git" /\ (~mishap => RowAt(pc[r]))
    BY <1>1, <1>21, ActorsDiffer DEF unarchiveEnds, OnDisk, Steps
  <2>2. Moves(r) /\ pc'[r] \in {"discard"} /\ Takes(r, pc'[r])
    BY <1>1, <1>21, <2>1, ActorsDiffer, GoesOn, Failing, PaperbinType
       DEF unarchiveEnds, note, Moves, bounds, Steps, Takes
  <2>3. RowAndDisk' /\ folder' \in {folder, "none"}
    BY <1>1, <1>21, <2>2
       DEF unarchiveEnds, tarGzDecompress, Unreadable, note, rowVars, diskVars, RowAndDisk,
         Disk, Archives, Moves
  <2>4. ~mishap' => RowAt(pc[r])'
    BY <1>21, <2>1, <2>2 DEF unarchiveEnds, RowAt, rowVars, Moves
  <2>5. ASSUME ~mishap', mirrored, row' # "gone"
        PROVE  /\ row' = "live" => LiveData' \/ pc'[r] \in {"softDelete", "unarchive"}
               /\ row' = "binned" => BinData' \/ pc'[r] = "repack"
               /\ DataAt(pc[r])'
    <3>1. ~mishap
      BY <2>2, <2>5 DEF Moves
    <3>2. Kept /\ row = "live" /\ archive = "whole"
      BY <1>1, <1>21, <2>1, <2>5, <3>1, ActorsDiffer DEF unarchiveEnds, rowVars, Kept, RowAt, DataAt
    <3>3. ~ fails(r, "discard") /\ ~ note(TRUE)
      BY <1>1, <1>21, <2>1, <2>5, <3>1 DEF unarchiveEnds, RollsBack, fails, note
    <3>4. tree' = "whole" /\ archive' = archive /\ row' = row /\ pc'[r] = "discard"
      BY <1>21, <2>2, <3>2, <3>3 DEF unarchiveEnds, tarGzDecompress, rowVars
    <3> QED BY <3>2, <3>4 DEF LiveData, DataAt
  <2>6. RollsBack(r)'
    BY <2>2 DEF RollsBack
  <2> QED BY <2>1, <2>2, <2>3, <2>4, <2>5, <2>6, Working
<1>22. ASSUME NEW r \in Requests, discard(r) PROVE PaperbinInv'
  <2>1. r \in Actors /\ pc[r] \in OnDisk /\ pc[r] # "git" /\ (~mishap => RowAt(pc[r]))
    BY <1>1, <1>22, ActorsDiffer DEF discard, OnDisk, Steps
  <2>2. Moves(r) /\ pc'[r] \in {"idle"} /\ Takes(r, pc'[r])
    BY <1>1, <1>22, <2>1, ActorsDiffer, GoesOn, Failing DEF discard, Steps, Takes
  <2>3. RowAndDisk' /\ folder' \in {folder, "none"}
    BY <1>1, <1>22, <2>2 DEF discard, rowVars, diskVars, RowAndDisk, Disk, Archives, Moves
  <2>4. ~mishap' => RowAt(pc[r])'
    BY <1>22, <2>1, <2>2 DEF discard, RowAt, rowVars, Moves
  <2>5. ASSUME ~mishap', mirrored, row' # "gone"
        PROVE  /\ row' = "live" => LiveData' \/ pc'[r] \in {"softDelete", "unarchive"}
               /\ row' = "binned" => BinData' \/ pc'[r] = "repack"
               /\ DataAt(pc[r])'
    <3>1. ~mishap
      BY <2>2, <2>5 DEF Moves
    <3> QED BY <1>1, <1>22, <2>1, <2>2, <2>5, <3>1, ActorsDiffer, GoesOn, Failing
            DEF discard, rowVars, diskVars, RowAndDisk, Disk, Archives, Kept, RowAt,
                DataAt, LiveData, BinData, Steps, OnDisk, Alone
  <2>6. RollsBack(r)'
    BY <2>2 DEF RollsBack
  <2> QED BY <2>1, <2>2, <2>3, <2>4, <2>5, <2>6, Working
<1>23. ASSUME NEW r \in Requests, repackEnds(r) PROVE PaperbinInv'
  <2>1. r \in Actors /\ pc[r] \in OnDisk /\ pc[r] # "git" /\ (~mishap => RowAt(pc[r]))
    BY <1>1, <1>23, ActorsDiffer DEF repackEnds, OnDisk, Steps
  <2>2. Moves(r) /\ pc'[r] \in {"dropTree"} /\ Takes(r, pc'[r])
    BY <1>1, <1>23, <2>1, ActorsDiffer, GoesOn, Failing DEF repackEnds, Steps, Takes
  <2>3. RowAndDisk' /\ folder' \in {folder, "none"}
    BY <1>1, <1>23, <2>2
       DEF repackEnds, tarGzCompress, NoWalk, Aborted, rowVars, diskVars, RowAndDisk,
         Disk, Archives, Moves
  <2>4. ~mishap' => RowAt(pc[r])'
    BY <1>23, <2>1, <2>2 DEF repackEnds, RowAt, rowVars, Moves
  <2>5. ASSUME ~mishap', mirrored, row' # "gone"
        PROVE  /\ row' = "live" => LiveData' \/ pc'[r] \in {"softDelete", "unarchive"}
               /\ row' = "binned" => BinData' \/ pc'[r] = "repack"
               /\ DataAt(pc[r])'
    <3>1. ~mishap
      BY <2>2, <2>5 DEF Moves
    <3>2. Kept /\ row = "binned" /\ tree = "whole" /\ pc["job"] # "git"
      BY <1>1, <1>23, <2>1, <2>5, <3>1, ActorsDiffer
         DEF repackEnds, rowVars, Kept, RowAt, DataAt, Alone, OnDisk
    <3>3. ~ fails(r, "dropTree")
      BY <1>1, <1>23, <2>1, <2>5, <3>1 DEF repackEnds, RollsBack, fails, note
    <3>4. archive' = "whole" /\ tree' = tree /\ row' = row /\ pc'[r] = "dropTree"
      BY <1>23, <2>2, <3>2, <3>3 DEF repackEnds, tarGzCompress, NoWalk, rowVars
    <3> QED BY <3>2, <3>4 DEF BinData, DataAt
  <2>6. RollsBack(r)'
    BY <2>2 DEF RollsBack
  <2> QED BY <2>1, <2>2, <2>3, <2>4, <2>5, <2>6, Working
<1>24. ASSUME NEW r \in Requests, dropTree(r) PROVE PaperbinInv'
  <2>1. r \in Actors /\ pc[r] \in OnDisk /\ pc[r] # "git" /\ (~mishap => RowAt(pc[r]))
    BY <1>1, <1>24, ActorsDiffer DEF dropTree, OnDisk, Steps
  <2>2. Moves(r) /\ pc'[r] \in {"idle"} /\ Takes(r, pc'[r])
    BY <1>1, <1>24, <2>1, ActorsDiffer, GoesOn, Failing DEF dropTree, Steps, Takes
  <2>3. RowAndDisk' /\ folder' \in {folder, "none"}
    BY <1>1, <1>24, <2>2 DEF dropTree, rowVars, diskVars, RowAndDisk, Disk, Archives, Moves
  <2>4. ~mishap' => RowAt(pc[r])'
    BY <1>24, <2>1, <2>2 DEF dropTree, RowAt, rowVars, Moves
  <2>5. ASSUME ~mishap', mirrored, row' # "gone"
        PROVE  /\ row' = "live" => LiveData' \/ pc'[r] \in {"softDelete", "unarchive"}
               /\ row' = "binned" => BinData' \/ pc'[r] = "repack"
               /\ DataAt(pc[r])'
    <3>1. ~mishap
      BY <2>2, <2>5 DEF Moves
    <3> QED BY <1>1, <1>24, <2>1, <2>2, <2>5, <3>1, ActorsDiffer, GoesOn, Failing
            DEF dropTree, rowVars, diskVars, RowAndDisk, Disk, Archives, Kept, RowAt,
                DataAt, LiveData, BinData, Steps, OnDisk, Alone
  <2>6. RollsBack(r)'
    BY <2>2 DEF RollsBack
  <2> QED BY <2>1, <2>2, <2>3, <2>4, <2>5, <2>6, Working
<1>25. ASSUME NEW r \in Requests, log(r) PROVE PaperbinInv'
  <2>1. /\ r \in Actors /\ pc[r] = "log" /\ pc' = [pc EXCEPT ![r] = "idle"]
        /\ UNCHANGED <<row, expired, linked, refused, tree, archive, folder, mirrored, mishap, faults, crashes>>
        /\ audited' \in BOOLEAN /\ failed' = failed \ {r}
    BY <1>1, <1>25, ActorsDiffer, PaperbinType DEF log, goto, RowAndDisk, diskVars, history, bounds
  <2>2. pc' \in [Actors -> Steps] /\ pc'[r] = "idle" /\ \A a \in Actors \ {r} : pc'[a] = pc[a]
    BY <1>1, <2>1, PaperbinType DEF Steps
  <2>3. TypeOK'
    BY <1>1, <2>1, <2>2, PaperbinType, PaperbinTypeNext DEF RowAndDisk
  <2>4. \A a \in Actors : Takes(a, pc'[a])
    BY <1>1, <2>1, <2>2 DEF Takes
  <2>5. ~mishap' => Alone' /\ \A a \in Actors : RowAt(pc[a])' /\ RollsBack(a)'
    BY <1>1, <2>1, <2>2 DEF Alone, RowAt, RollsBack, OnDisk
  <2>6. ~mishap' /\ mirrored' /\ row' # "gone" => Kept'
    BY <1>1, <2>1, <2>2 DEF Kept, LiveData, BinData, DataAt
  <2> QED BY <1>1, <2>1, <2>3, <2>4, <2>5, <2>6 DEF PaperbinInv
<1>26. ASSUME expireAudits PROVE PaperbinInv'
  <2>1. UNCHANGED <<row, expired, linked, refused, tree, archive, folder, pc, failed, mirrored, mishap, faults, crashes>>
        /\ audited' \in BOOLEAN
    BY <1>26 DEF expireAudits, diskVars, history, bounds
  <2>2. TypeOK'
    BY <1>1, <2>1, PaperbinType, PaperbinTypeNext DEF RowAndDisk
  <2> QED BY <2>1, <2>2 DEF PaperbinInv, Alone, RowAt, RollsBack, Kept, LiveData, BinData, DataAt
<1>27. ASSUME UNCHANGED vars PROVE PaperbinInv'
  BY <1>1, <1>27
     DEF vars, rowVars, diskVars, history, bounds, PaperbinInv, TypeOK, Actors, Alone,
                  RowAt, RollsBack, Kept, LiveData, BinData, DataAt
<1> QED
  BY <1>2, <1>3, <1>4, <1>5, <1>6, <1>7, <1>8, <1>9, <1>10, <1>11, <1>12, <1>13, <1>14, <1>15,
    <1>16, <1>17, <1>18, <1>19, <1>20, <1>27, <1>21, <1>22, <1>23, <1>24, <1>25, <1>26
    DEF Next, Request, Cleaner

\* Hence the invariant holds.
LEMMA PaperbinInvariant == Spec => []PaperbinInv
<1>1. PaperbinInv /\ [Next]_vars => PaperbinInv'
  BY PaperbinStep
<1> QED BY <1>1, PaperbinInit, PTL DEF Spec

\* It says where the data is.
LEMMA KeptIsSomewhere == PaperbinInv => DataSurvives
BY DEF PaperbinInv, TypeOK, DataSurvives, Kept, LiveData, BinData, DataAt

\* Every variable of Paperbin keeps its type.
THEOREM PaperbinTypeCorrect == Spec => []TypeOK
<1>1. PaperbinInv => TypeOK
  BY DEF PaperbinInv
<1> QED BY <1>1, PaperbinInvariant, PTL

\* What has been mirrored is somewhere until it is purged.
THEOREM DataIsNotLost == Spec => []DataSurvives
BY KeptIsSomewhere, PaperbinInvariant, PTL

\* What comes back from the paperbin comes back with its tree.
THEOREM RestoresAreWhole == Spec => RestoreIsWhole
<1>1. PaperbinInv /\ [Next]_vars =>
        [\A r \in Requests : undelete(r) /\ row = "binned" /\ mirrored /\ ~mishap
           => tree = "whole"]_vars
  BY ActorsDiffer DEF PaperbinInv, Kept, DataAt, undelete
<1> QED BY <1>1, PaperbinInvariant, PTL DEF Spec, RestoreIsWhole

-----------------------------------------------------------------------------
(* The pool that mirrors of one URL share (SharedPool).                    *)

PoolSteps == {"idle", "open", "remote", "fetch", "refs", "share", "alone"}
Pulling == [pc : PoolSteps, tips : S!Tips, brought : SUBSET Commits]

\* The tips of branches are commits.
LEMMA TipsAreCommits ==
    ASSUME NEW tips \in S!Tips
    PROVE  /\ S!commits(tips) \subseteq Commits
           /\ \A b \in Branches : tips[b] # None => tips[b] \in S!commits(tips)
BY DEF S!Tips, S!commits, S!Range

\* SharedPool's variables keep their types.
THEOREM PoolTypeCorrect == S!Spec => []S!TypeOK
<1>0. S!NoTips \in S!Tips /\ S!Idle \in Pulling
  BY DEF S!NoTips, S!Tips, S!Idle, Pulling, PoolSteps
<1>1. S!Init => S!TypeOK
  <2> SUFFICES ASSUME S!Init PROVE S!TypeOK
    OBVIOUS
  <2>1. pulls \in [Mirrors -> Pulling]
    BY <1>0 DEF S!Init
  <2>2. pushes \in 0..MaxPushes /\ poolFaults \in 0..MaxPoolFaults
    BY LimitsAssumption DEF S!Init
  <2> QED BY <1>0, <2>2 DEF S!Init, S!TypeOK, Pulling, PoolSteps
<1>2. S!TypeOK /\ [S!Next]_(S!vars) => S!TypeOK'
  <2> SUFFICES ASSUME S!TypeOK, [S!Next]_(S!vars) PROVE S!TypeOK'
    OBVIOUS
  <2>1. /\ upstream \in S!Tips /\ poolRefs \in S!Tips
        /\ made \in {"none", "bare", "ready"}
        /\ pool \subseteq Commits /\ collected \subseteq Commits
        /\ trees \in [Mirrors -> {"none", "shared", "alone"}]
        /\ remotes \in [Mirrors -> S!Tips]
        /\ kept \in [Mirrors -> SUBSET Commits] /\ own \in [Mirrors -> SUBSET Commits]
        /\ pulls \in [Mirrors -> Pulling]
        /\ gc = None \/ gc \subseteq Commits
        /\ pushes \in 0..MaxPushes /\ poolFaults \in 0..MaxPoolFaults
    BY DEF S!TypeOK, Pulling, PoolSteps
  <2>2. ASSUME /\ upstream' \in S!Tips /\ poolRefs' \in S!Tips
               /\ made' \in {"none", "bare", "ready"}
               /\ pool' \subseteq Commits /\ collected' \subseteq Commits
               /\ trees' \in [Mirrors -> {"none", "shared", "alone"}]
               /\ remotes' \in [Mirrors -> S!Tips]
               /\ kept' \in [Mirrors -> SUBSET Commits] /\ own' \in [Mirrors -> SUBSET Commits]
               /\ pulls' \in [Mirrors -> Pulling]
               /\ gc' = None \/ gc' \subseteq Commits
               /\ pushes' \in 0..MaxPushes /\ poolFaults' \in 0..MaxPoolFaults
        PROVE  S!TypeOK'
    BY <2>2 DEF S!TypeOK, Pulling, PoolSteps, S!Tips
  <2>3. ASSUME NEW m \in Mirrors, NEW step \in PoolSteps, S!goto(m, step)
        PROVE  pulls' \in [Mirrors -> Pulling]
    BY <2>1, <2>3 DEF S!goto, Pulling
  <2>4. S!fault => poolFaults' \in 0..MaxPoolFaults
    BY <2>1, LimitsAssumption DEF S!fault
  <2>5. S!commits(upstream) \subseteq Commits
    BY <2>1, TipsAreCommits
  <2>6. ASSUME NEW b \in Branches, S!push(b) PROVE S!TypeOK'
    <3>1. upstream' \in S!Tips /\ pushes' \in 0..MaxPushes
      BY <2>1, <2>6, LimitsAssumption DEF S!push, S!Tips
    <3> QED BY <3>1, <2>1, <2>2, <2>6 DEF S!push, S!diskVars, S!mirrorVars
  <2>7. ASSUME NEW m \in Mirrors, S!lock(m) PROVE S!TypeOK'
    BY <2>1, <2>2, <2>3, <2>7 DEF S!lock, S!diskVars, S!mirrorVars, PoolSteps
  <2>8. ASSUME NEW m \in Mirrors, S!openPool(m) PROVE S!TypeOK'
    <3>1. made' \in {"none", "bare", "ready"}
      BY <2>1, <2>8 DEF S!openPool
    <3>2. pulls' \in [Mirrors -> Pulling]
      BY <2>3, <2>8 DEF S!openPool, PoolSteps
    <3> QED BY <3>2, <2>1, <2>2, <2>8 DEF S!openPool, S!mirrorVars
  <2>9. ASSUME NEW m \in Mirrors, S!createRemote(m) PROVE S!TypeOK'
    BY <2>1, <2>2, <2>3, <2>9 DEF S!createRemote, S!mirrorVars, PoolSteps
  <2>10. ASSUME NEW m \in Mirrors, S!fetchPack(m) PROVE S!TypeOK'
    <3>1. [pc |-> "refs", tips |-> upstream, brought |-> S!commits(upstream) \ pool] \in Pulling
      BY <2>1, <2>5 DEF Pulling, PoolSteps
    <3>2. pulls' \in [Mirrors -> Pulling] /\ pool' \subseteq Commits
      BY <3>1, <2>1, <2>5, <2>10 DEF S!fetchPack
    <3> QED BY <3>2, <2>1, <2>2, <2>10 DEF S!fetchPack, S!mirrorVars
  <2>11. ASSUME NEW m \in Mirrors, S!writeRefs(m) PROVE S!TypeOK'
    <3>1. poolRefs' \in S!Tips
      BY <2>1, <2>11 DEF S!writeRefs, S!Tips, Pulling
    <3>2. [S!Idle EXCEPT !.pc = "share"] \in Pulling
      BY <1>0 DEF Pulling, PoolSteps
    <3>3. pulls' \in [Mirrors -> Pulling]
      BY <3>2, <2>1, <2>11 DEF S!writeRefs
    <3> QED BY <3>1, <3>3, <2>1, <2>2, <2>11 DEF S!writeRefs, S!mirrorVars
  <2>12. ASSUME NEW m \in Mirrors, S!updateFails(m) PROVE S!TypeOK'
    <3>1. [S!Idle EXCEPT !.pc = "alone"] \in Pulling
      BY <1>0 DEF Pulling, PoolSteps
    <3>2. pulls' \in [Mirrors -> Pulling]
      BY <3>1, <2>1, <2>12 DEF S!updateFails
    <3> QED BY <3>2, <2>1, <2>2, <2>4, <2>12 DEF S!updateFails, S!diskVars, S!mirrorVars
  <2>13. ASSUME NEW m \in Mirrors, S!clone(m) PROVE S!TypeOK'
    <3>1. /\ trees' \in [Mirrors -> {"none", "shared", "alone"}]
          /\ own' \in [Mirrors -> SUBSET Commits]
          /\ remotes' \in [Mirrors -> S!Tips]
          /\ pulls' \in [Mirrors -> Pulling]
      BY <1>0, <2>1, <2>5, <2>13 DEF S!clone
    <3> QED BY <3>1, <2>1, <2>2, <2>13 DEF S!clone, S!diskVars
  <2>14. ASSUME NEW m \in Mirrors, S!fetch(m) PROVE S!TypeOK'
    <3>1. {remotes[m][b] : b \in {x \in Branches : remotes[m][x] # None /\ upstream[x] = None}}
            \subseteq Commits
      BY <2>1, TipsAreCommits
    <3>2. /\ own' \in [Mirrors -> SUBSET Commits]
          /\ remotes' \in [Mirrors -> S!Tips]
          /\ pulls' \in [Mirrors -> Pulling]
      BY <1>0, <2>1, <2>5, <2>14 DEF S!fetch
    <3>3. kept' \in [Mirrors -> SUBSET Commits]
      BY <3>1, <2>1, <2>14 DEF S!fetch
    <3> QED BY <3>2, <3>3, <2>1, <2>2, <2>14 DEF S!fetch, S!diskVars
  <2>15. ASSUME NEW m \in Mirrors, S!mirrorFails(m) PROVE S!TypeOK'
    BY <1>0, <2>1, <2>2, <2>4, <2>15 DEF S!mirrorFails, S!diskVars, S!mirrorVars
  <2>16. ASSUME S!cleanupPools PROVE S!TypeOK'
    BY <2>1, <2>2, <2>16 DEF S!cleanupPools, S!Unreachable, S!diskVars, S!mirrorVars
  <2>17. ASSUME S!collect PROVE S!TypeOK'
    BY <2>1, <2>2, <2>17 DEF S!collect, S!mirrorVars
  <2>18. ASSUME S!crash PROVE S!TypeOK'
    BY <1>0, <2>1, <2>2, <2>4, <2>18 DEF S!crash, S!diskVars, S!mirrorVars
  <2>19. CASE UNCHANGED S!vars
    BY <2>1, <2>2, <2>19 DEF S!vars, S!diskVars, S!mirrorVars
  <2> QED BY <2>6, <2>7, <2>8, <2>9, <2>10, <2>11, <2>12, <2>13, <2>14, <2>15, <2>16, <2>17,
        <2>18, <2>19 DEF S!Next
<1> QED BY <1>1, <1>2, PTL DEF S!Spec

\* One job at a time is in updatePool.
Locked(m) == pulls[m].pc \in {"open", "remote", "fetch", "refs"}
OneInPool == \A m, n \in Mirrors : Locked(m) /\ Locked(n) => m = n

\* Without a fault a pool without its remote is one that is being made, and no
\* job gives up on the pool.
NoFaultNoLoss ==
    poolFaults = 0 =>
        /\ \A m \in Mirrors : trees[m] # "alone" /\ pulls[m].pc # "alone"
        /\ made = "bare" => \E m \in Mirrors : pulls[m].pc = "remote"

\* A mirror that is not there has nothing archived.
NothingBeforeClone == \A m \in Mirrors : trees[m] = "none" => kept[m] = {} /\ remotes[m] = S!NoTips

\* Two first clones of a URL at a time end up on one pool, and nothing but the
\* gc takes from a mirror what it has refs on; for any number of mirrors,
\* branches, pushes and faults.
THEOREM PoolIsSharedAndHolds == S!Spec => []PoolHolds
<1> DEFINE Inv == OneInPool /\ NoFaultNoLoss /\ NothingBeforeClone /\ S!OnlyGcLoses
<1>0. S!commits(S!NoTips) = {}
  BY DEF S!commits, S!Range, S!NoTips
<1>1. S!Init => Inv
  BY <1>0 DEF S!Init, OneInPool, Locked, NoFaultNoLoss, NothingBeforeClone, S!OnlyGcLoses,
    S!Idle
<1>2. S!TypeOK /\ S!TypeOK' /\ Inv /\ [S!Next]_(S!vars) => Inv'
  <2> SUFFICES ASSUME S!TypeOK, S!TypeOK', Inv, [S!Next]_(S!vars) PROVE Inv'
    OBVIOUS
  <2>1. /\ upstream \in S!Tips
        /\ trees \in [Mirrors -> {"none", "shared", "alone"}]
        /\ remotes \in [Mirrors -> S!Tips]
        /\ kept \in [Mirrors -> SUBSET Commits] /\ own \in [Mirrors -> SUBSET Commits]
        /\ pulls \in [Mirrors -> Pulling]
        /\ poolFaults \in Nat
    BY LimitsAssumption DEF S!TypeOK, Pulling, PoolSteps
  <2>2. /\ \A m, n \in Mirrors : Locked(m) /\ Locked(n) => m = n
        /\ poolFaults = 0 =>
             /\ \A m \in Mirrors : trees[m] # "alone" /\ pulls[m].pc # "alone"
             /\ made = "bare" => \E m \in Mirrors : pulls[m].pc = "remote"
        /\ \A m \in Mirrors : trees[m] = "none" => kept[m] = {} /\ remotes[m] = S!NoTips
        /\ \A m \in Mirrors : S!commits(remotes[m]) \cup kept[m] \subseteq S!objects(m) \cup collected
    BY DEF OneInPool, NoFaultNoLoss, NothingBeforeClone, S!OnlyGcLoses
  <2>3. S!fault => poolFaults' # 0
    BY <2>1 DEF S!fault
  \* Steps of the protocol, which leave the mirrors alone.
  <2>4. ASSUME UNCHANGED S!mirrorVars, pool \subseteq pool', UNCHANGED collected
        PROVE  NothingBeforeClone' /\ S!OnlyGcLoses'
    BY <2>2, <2>4 DEF S!mirrorVars, NothingBeforeClone, S!OnlyGcLoses, S!objects
  <2>5. ASSUME NEW m \in Mirrors, NEW step \in PoolSteps, S!goto(m, step)
        PROVE  /\ pulls'[m].pc = step
               /\ \A n \in Mirrors \ {m} : pulls'[n] = pulls[n]
    BY <2>1, <2>5 DEF S!goto, Pulling
  <2>6. ASSUME UNCHANGED <<pulls, made, poolFaults, trees>>
        PROVE  OneInPool' /\ NoFaultNoLoss'
    BY <2>2, <2>6 DEF OneInPool, Locked, NoFaultNoLoss
  <2>7. ASSUME NEW m \in Mirrors, S!lock(m) PROVE Inv'
    <3>1. pulls'[m].pc = "open" /\ \A n \in Mirrors \ {m} : pulls'[n] = pulls[n]
      BY <2>5, <2>7 DEF S!lock, PoolSteps
    <3>2. OneInPool'
      BY <3>1, <2>7 DEF S!lock, OneInPool, Locked
    <3>3. NoFaultNoLoss'
      BY <3>1, <2>7 DEF S!lock, NoFaultNoLoss, S!diskVars, S!mirrorVars
    <3>4. NothingBeforeClone' /\ S!OnlyGcLoses'
      BY <2>4, <2>7 DEF S!lock, S!diskVars
    <3> QED BY <3>2, <3>3, <3>4
  <2>8. ASSUME NEW m \in Mirrors, S!openPool(m) PROVE Inv'
    <3> DEFINE next == CASE made = "none" -> "remote" [] made = "ready" -> "fetch" [] OTHER -> "alone"
    <3>1. pulls'[m].pc = next /\ \A n \in Mirrors \ {m} : pulls'[n] = pulls[n]
      BY <2>5, <2>8 DEF S!openPool, PoolSteps
    <3>2. Locked(m) /\ pulls[m].pc = "open"
      BY <2>8 DEF S!openPool, Locked
    <3>3. OneInPool'
      BY <3>1, <3>2, <2>2 DEF OneInPool, Locked
    <3>4. poolFaults = 0 => made # "bare"
      BY <3>2, <2>2 DEF Locked
    <3>5. NoFaultNoLoss'
      BY <3>1, <3>4, <2>2, <2>8 DEF S!openPool, NoFaultNoLoss, S!mirrorVars, S!TypeOK
    <3> QED BY <3>3, <3>5, <2>4, <2>8 DEF S!openPool
  <2>9. ASSUME NEW m \in Mirrors, S!createRemote(m) PROVE Inv'
    <3>1. pulls'[m].pc = "fetch" /\ \A n \in Mirrors \ {m} : pulls'[n] = pulls[n]
      BY <2>5, <2>9 DEF S!createRemote, PoolSteps
    <3>2. Locked(m)
      BY <2>9 DEF S!createRemote, Locked
    <3>3. OneInPool'
      BY <3>1, <3>2, <2>2 DEF OneInPool, Locked
    <3>4. NoFaultNoLoss'
      BY <3>1, <2>2, <2>9 DEF S!createRemote, NoFaultNoLoss, S!mirrorVars
    <3> QED BY <3>3, <3>4, <2>4, <2>9 DEF S!createRemote
  <2>10. ASSUME NEW m \in Mirrors, S!fetchPack(m) PROVE Inv'
    <3>1. pulls'[m].pc = "refs" /\ \A n \in Mirrors \ {m} : pulls'[n] = pulls[n]
      BY <2>1, <2>10 DEF S!fetchPack
    <3>2. Locked(m) /\ pulls[m].pc = "fetch"
      BY <2>10 DEF S!fetchPack, Locked
    <3>3. OneInPool'
      BY <3>1, <3>2, <2>2 DEF OneInPool, Locked
    <3>4. NoFaultNoLoss'
      BY <2>10 DEF S!fetchPack, NoFaultNoLoss, S!mirrorVars
    <3>5. pool \subseteq pool'
      BY <2>10 DEF S!fetchPack
    <3> QED BY <3>3, <3>4, <3>5, <2>4, <2>10 DEF S!fetchPack
  <2>11. ASSUME NEW m \in Mirrors, S!writeRefs(m) PROVE Inv'
    <3>1. pulls'[m].pc = "share" /\ \A n \in Mirrors \ {m} : pulls'[n] = pulls[n]
      BY <2>1, <2>11 DEF S!writeRefs, S!Idle
    <3>2. Locked(m) /\ pulls[m].pc = "refs"
      BY <2>11 DEF S!writeRefs, Locked
    <3>3. OneInPool'
      BY <3>1, <3>2, <2>2 DEF OneInPool, Locked
    <3>4. NoFaultNoLoss'
      BY <2>11 DEF S!writeRefs, NoFaultNoLoss, S!mirrorVars
    <3> QED BY <3>3, <3>4, <2>4, <2>11 DEF S!writeRefs
  <2>12. ASSUME NEW m \in Mirrors, S!updateFails(m) PROVE Inv'
    <3>1. pulls'[m].pc = "alone" /\ \A n \in Mirrors \ {m} : pulls'[n] = pulls[n]
      BY <2>1, <2>12 DEF S!updateFails, S!Idle
    <3>2. OneInPool'
      BY <3>1, <2>2 DEF OneInPool, Locked
    <3>3. NoFaultNoLoss'
      BY <2>3, <2>12 DEF S!updateFails, NoFaultNoLoss
    <3> QED BY <3>2, <3>3, <2>4, <2>12 DEF S!updateFails, S!diskVars
  \* The end of a job, with its clone or fetch, or without.
  <2>13. ASSUME NEW m \in Mirrors, pulls' = [pulls EXCEPT ![m] = S!Idle],
                pulls[m].pc \in {"share", "alone"}, UNCHANGED made,
                poolFaults' # 0 \/ (poolFaults' = poolFaults /\ trees'[m] # "alone"),
                \A n \in Mirrors \ {m} : trees'[n] = trees[n]
         PROVE  OneInPool' /\ NoFaultNoLoss'
    <3>1. pulls'[m].pc = "idle" /\ \A n \in Mirrors \ {m} : pulls'[n] = pulls[n]
      BY <2>1, <2>13 DEF S!Idle
    <3>2. OneInPool'
      BY <3>1, <2>2 DEF OneInPool, Locked
    <3> QED BY <3>1, <3>2, <2>2, <2>13 DEF NoFaultNoLoss
  <2>14. ASSUME NEW m \in Mirrors, S!clone(m) PROVE Inv'
    <3>1. trees[m] = "none" /\ kept[m] = {}
      BY <2>2, <2>14 DEF S!clone
    <3>2. /\ trees'[m] = IF pulls[m].pc = "share" THEN "shared" ELSE "alone"
          /\ own'[m] = S!commits(upstream) \ IF pulls[m].pc = "share" THEN pool ELSE {}
          /\ remotes'[m] = upstream
          /\ kept' = kept /\ pool' = pool /\ collected' = collected
          /\ \A n \in Mirrors \ {m} : /\ trees'[n] = trees[n] /\ own'[n] = own[n]
                                      /\ remotes'[n] = remotes[n]
      BY <2>1, <2>14 DEF S!clone, S!diskVars
    <3>3. OneInPool' /\ NoFaultNoLoss'
      <4>1. poolFaults # 0 \/ trees'[m] # "alone"
        BY <3>2, <2>2, <2>14 DEF S!clone
      <4>2. poolFaults' = poolFaults /\ made' = made
        BY <2>14 DEF S!clone, S!diskVars
      <4>3. pulls' = [pulls EXCEPT ![m] = S!Idle] /\ pulls[m].pc \in {"share", "alone"}
        BY <2>14 DEF S!clone
      <4> QED BY <4>1, <4>2, <4>3, <3>2, <2>13
    <3>4. NothingBeforeClone'
      BY <3>2, <2>2 DEF NothingBeforeClone
    <3>5. S!OnlyGcLoses'
      BY <3>1, <3>2, <2>2 DEF S!OnlyGcLoses, S!objects
    <3> QED BY <3>3, <3>4, <3>5
  <2>15. ASSUME NEW m \in Mirrors, S!fetch(m) PROVE Inv'
    <3> DEFINE lost == {remotes[m][b] : b \in {x \in Branches : remotes[m][x] # None
                                                                /\ upstream[x] = None}}
    <3>1. /\ own'[m] = own[m] \cup (S!commits(upstream) \ S!objects(m))
          /\ remotes'[m] = upstream
          /\ kept'[m] = kept[m] \cup lost
          /\ trees' = trees /\ pool' = pool /\ collected' = collected
          /\ \A n \in Mirrors \ {m} : /\ own'[n] = own[n] /\ remotes'[n] = remotes[n]
                                      /\ kept'[n] = kept[n]
      BY <2>1, <2>15 DEF S!fetch, S!diskVars
    <3>2. lost \subseteq S!commits(remotes[m])
      BY <2>1, TipsAreCommits
    <3> HIDE DEF lost
    <3>3. OneInPool' /\ NoFaultNoLoss'
      <4>1. poolFaults # 0 \/ trees[m] # "alone"
        BY <2>2
      <4>2. poolFaults' = poolFaults /\ made' = made
        BY <2>15 DEF S!fetch, S!diskVars
      <4>3. pulls' = [pulls EXCEPT ![m] = S!Idle] /\ pulls[m].pc \in {"share", "alone"}
        BY <2>15 DEF S!fetch
      <4> QED BY <4>1, <4>2, <4>3, <3>1, <2>13
    <3>4. NothingBeforeClone'
      BY <3>1, <2>2, <2>15 DEF S!fetch, NothingBeforeClone
    <3>5. S!OnlyGcLoses'
      BY <3>1, <3>2, <2>2 DEF S!OnlyGcLoses, S!objects
    <3> QED BY <3>3, <3>4, <3>5
  <2>16. ASSUME NEW m \in Mirrors, S!mirrorFails(m) PROVE Inv'
    <3>1. /\ pulls' = [pulls EXCEPT ![m] = S!Idle] /\ pulls[m].pc \in {"share", "alone"}
          /\ poolFaults' # 0 /\ made' = made /\ trees' = trees
      BY <2>3, <2>16 DEF S!mirrorFails, S!diskVars, S!mirrorVars
    <3>2. OneInPool' /\ NoFaultNoLoss'
      BY <3>1, <2>13
    <3> QED BY <3>2, <2>4, <2>16 DEF S!mirrorFails, S!diskVars
  <2>17. ASSUME S!collect PROVE Inv'
    <3>1. PICK C \in SUBSET (gc \cap pool) : pool' = pool \ C /\ collected' = collected \cup C
      BY <2>17 DEF S!collect
    <3>2. NothingBeforeClone' /\ S!OnlyGcLoses'
      BY <2>17 DEF S!collect, S!mirrorVars, NothingBeforeClone, S!OnlyGcLoses, S!objects
    <3> QED BY <3>2, <2>6, <2>17 DEF S!collect, S!mirrorVars
  <2>18. ASSUME S!crash PROVE Inv'
    <3>1. \A m \in Mirrors : pulls'[m].pc = "idle"
      BY <2>18 DEF S!crash, S!Idle
    <3>2. OneInPool' /\ NoFaultNoLoss'
      BY <3>1, <2>3, <2>18 DEF S!crash, OneInPool, Locked, NoFaultNoLoss
    <3> QED BY <3>2, <2>4, <2>18 DEF S!crash, S!diskVars
  <2>19. CASE (\E b \in Branches : S!push(b)) \/ S!cleanupPools \/ UNCHANGED S!vars
    BY <2>4, <2>6, <2>19 DEF S!push, S!cleanupPools, S!vars, S!diskVars, S!mirrorVars
  <2> QED BY <2>7, <2>8, <2>9, <2>10, <2>11, <2>12, <2>14, <2>15, <2>16, <2>17, <2>18, <2>19
        DEF S!Next
<1>3. S!TypeOK /\ Inv => PoolHolds
  <2> SUFFICES ASSUME S!TypeOK, Inv PROVE PoolHolds
    OBVIOUS
  <2>1. poolFaults \in Nat
    BY LimitsAssumption DEF S!TypeOK
  <2> QED BY <2>1 DEF PoolHolds, S!SharesUnlessFaulty, NoFaultNoLoss
<1> QED BY <1>1, <1>2, <1>3, PoolTypeCorrect, PTL DEF S!Spec

-----------------------------------------------------------------------------
(* The branches in the paperbin (BranchArchive).                           *)

\* Who has a row, is about to get one, or is being restored or deleted has
\* happened; and nobody asks for one that is about to get its row.
Happened ==
    /\ \A e \in rows \cup job.made : info[e] # None
    /\ rows \cap job.made = {}
    /\ \A a \in B!Actors : act[a].pc # "idle" =>
         act[a].event \in Events /\ info[act[a].event] # None /\ act[a].event \notin job.made

\* An event's own ref is at its commit or nowhere, and an older one has none.
OwnRef ==
    /\ \A e \in Events : info[e] # None =>
         refs[e] = None \/ (~info[e].legacy /\ refs[e] = info[e].sha)
    /\ \A e \in job.made : ~info[e].legacy /\ refs[e] = info[e].sha

\* Who drops a shared ref is the last one to use it.
LastLegacy ==
    \A a \in B!Actors : act[a].pc = "deleteRef" => B!otherLegacy(act[a].event) = {}

\* A row is deleted only when nothing is left that it leads to.
RefBeforeRow ==
    \A a \in B!Actors : act[a].pc = "deleteRow" =>
        refs[act[a].event] = None \/ act[a].event \in stray

\* What a job holds by the step it is at.
JobShape ==
    /\ job.pc = "idle" => job = B!NoJob
    /\ job.pc = "compare" => job.made = {}
    /\ job.pc = "dropRefs" => \A e \in job.made : info[e].sha \notin owed

\* PrunedIsKept, but not by a row that is on its way out, nor by a branch that
\* happens to be at the same commit upstream.
Leaving(e) == \E a \in B!Actors : act[a].pc \in {"count", "deleteRef", "deleteRow"} /\ act[a].event = e

KeptFor(c) ==
    \/ \E b \in Branches : c = heads[b]
    \/ \E e \in rows : info[e].sha = c /\ B!ArchivalRef(e) = c /\ ~Leaving(e)
    \/ job.pc \in {"compare", "archive"} /\ c \in B!Unsaved
    \/ \E e \in job.made : info[e].sha = c

\* The inductive invariant.
BranchInv ==
    /\ B!TypeOK /\ Happened /\ OwnRef /\ LastLegacy /\ RefBeforeRow /\ JobShape
    /\ B!RowHasRef /\ B!RefHasRow
    /\ \A c \in owed : KeptFor(c)

\* B!TypeOK's types of the job and of the requests.
Git == [pc : {"idle", "compare", "archive", "dropRefs"}, before : B!Tips, made : SUBSET Events]
Work == [pc : {"idle", "recreate", "count", "deleteRef", "deleteRow"},
         event : Events \cup {None},
         kind : {"none", "restore", "permanentDelete", "expire"}]

\* A mirrored repository, with the archived branches of an older release.
LEMMA BranchInitType == B!Init => B!TypeOK /\ Happened
<1> SUFFICES ASSUME B!Init PROVE B!TypeOK /\ Happened
  OBVIOUS
<1>1. /\ heads \in B!Tips /\ shared \in B!Tips /\ tracked \in B!Tips
      /\ refs \in [Events -> Commits \cup {None}]
  BY DEF B!Init, B!Tips
<1>2. job \in Git /\ job.made = {}
  BY DEF B!Init, B!NoJob, Git, B!Tips
<1>3. act \in [B!Actors -> Work] /\ \A a \in B!Actors : act[a].pc = "idle"
  BY DEF B!Init, B!Idle, Work
<1>4. info \in [Events -> B!DeletedBranch \cup {None}]
      /\ rows = {e \in Events : info[e] # None} /\ released \subseteq rows /\ stray = {}
  BY DEF B!Init
<1>5. owed \subseteq Commits
  BY <1>1 DEF B!Init, B!Tips
<1>6. branchFaults \in 0..MaxBranchFaults
  BY LimitsAssumption DEF B!Init
<1>7. stored \in BOOLEAN
  BY DEF B!Init
<1> QED BY <1>1, <1>2, <1>3, <1>4, <1>5, <1>6, <1>7 DEF B!TypeOK, Happened, Git, Work

\* BranchArchive's variables keep their types.
LEMMA BranchStepType ==
    ASSUME B!TypeOK, Happened, [B!Next]_(B!vars)
    PROVE  B!TypeOK' /\ Happened'
<1>1. /\ tracked \in B!Tips /\ heads \in B!Tips /\ shared \in B!Tips
      /\ refs \in [Events -> Commits \cup {None}]
      /\ stored \in BOOLEAN
      /\ info \in [Events -> B!DeletedBranch \cup {None}]
      /\ rows \subseteq Events /\ released \subseteq Events /\ stray \subseteq Events
      /\ job \in Git
      /\ act \in [B!Actors -> Work]
      /\ owed \subseteq Commits
      /\ branchFaults \in 0..MaxBranchFaults
      /\ \A e \in rows \cup job.made : info[e] # None
      /\ rows \cap job.made = {}
      /\ \A a \in B!Actors : act[a].pc # "idle" =>
           act[a].event \in Events /\ info[act[a].event] # None /\ act[a].event \notin job.made
  BY DEF B!TypeOK, Happened, Git, Work
<1>2. ASSUME /\ tracked' \in B!Tips /\ heads' \in B!Tips /\ shared' \in B!Tips
             /\ refs' \in [Events -> Commits \cup {None}]
             /\ stored' \in BOOLEAN
             /\ info' \in [Events -> B!DeletedBranch \cup {None}]
             /\ rows' \subseteq Events /\ released' \subseteq Events /\ stray' \subseteq Events
             /\ job' \in Git
             /\ act' \in [B!Actors -> Work]
             /\ owed' \subseteq Commits
             /\ branchFaults' \in 0..MaxBranchFaults
             /\ \A e \in rows' \cup job'.made : info'[e] # None
             /\ rows' \cap job'.made = {}
             /\ \A a \in B!Actors : act'[a].pc # "idle" =>
                  act'[a].event \in Events /\ info'[act'[a].event] # None /\ act'[a].event \notin job'.made
      PROVE  B!TypeOK' /\ Happened'
  BY <1>2 DEF B!TypeOK, Happened, Git, Work, B!Tips, B!DeletedBranch, B!Actors
<1>3. B!fault => branchFaults' \in 0..MaxBranchFaults
  BY <1>1, LimitsAssumption DEF B!fault
<1>4. B!NoJob \in Git /\ B!NoJob.made = {} /\ B!Idle \in Work /\ B!Idle.pc = "idle"
  BY DEF B!NoJob, B!Idle, Git, Work, B!Tips
<1>5. ASSUME NEW e \in Events, info[e] # None
      PROVE  /\ info[e] \in B!DeletedBranch
             /\ info[e].branch \in Branches /\ info[e].sha \in Commits /\ info[e].legacy \in BOOLEAN
  BY <1>1, <1>5 DEF B!DeletedBranch
<1>6. /\ \A b \in Branches : /\ tracked[b] # None => tracked[b] \in Commits
                             /\ heads[b] # None => heads[b] \in Commits
      /\ \A b \in B!Pruned : b \in Branches /\ job.before[b] \in Commits
  BY <1>1 DEF B!Tips, B!Pruned, Git
<1>7. job.made \subseteq Events /\ job.before \in B!Tips
  BY <1>1 DEF Git
<1>8. ASSUME NEW a \in B!Actors, NEW step \in {"idle", "count", "deleteRef", "deleteRow"},
             act[a].pc # "idle", B!goto(a, step)
      PROVE  /\ act' \in [B!Actors -> Work]
             /\ \A x \in B!Actors : act'[x].pc # "idle" =>
                  act'[x].event = act[x].event /\ act[x].pc # "idle"
  <2>1. CASE step = "idle"
    BY <2>1, <1>1, <1>4, <1>8 DEF B!goto
  <2>2. CASE step # "idle"
    <3>1. act' = [act EXCEPT ![a] = [act[a] EXCEPT !.pc = step]]
      BY <2>2, <1>8 DEF B!goto
    <3>2. [act[a] EXCEPT !.pc = step] \in Work
          /\ [act[a] EXCEPT !.pc = step].event = act[a].event
      BY <1>1, <1>8 DEF Work
    <3> QED BY <3>1, <3>2, <1>1, <1>8
  <2> QED BY <2>1, <2>2
<1>9. ASSUME B!deleteRepository \/ B!restoreRepository PROVE B!TypeOK' /\ Happened'
  BY <1>1, <1>2, <1>9 DEF B!deleteRepository, B!restoreRepository, B!rowVars, B!history
<1>10. ASSUME NEW remote \in B!Tips, B!FetchRepository(remote) PROVE B!TypeOK' /\ Happened'
  <2>1. {tracked[b] : b \in {c \in Branches : remote[c] = None}} \ {None} \subseteq Commits
    BY <1>6
  <2>2. /\ job' \in Git /\ job'.made = job.made
        /\ owed' \subseteq Commits /\ branchFaults' \in 0..MaxBranchFaults
    BY <2>1, <1>1, <1>3, <1>10 DEF B!FetchRepository, Git
  <2> QED BY <2>2, <1>1, <1>2, <1>10 DEF B!FetchRepository, B!rowVars
<1>11. ASSUME B!refsAfter PROVE B!TypeOK' /\ Happened'
  <2>1. /\ job' \in Git /\ job'.made \subseteq job.made
        /\ owed' \subseteq Commits /\ branchFaults' \in 0..MaxBranchFaults
    BY <1>1, <1>3, <1>4, <1>11 DEF B!refsAfter, Git
  <2> QED BY <2>1, <1>1, <1>2, <1>11 DEF B!refsAfter, B!repoVars, B!rowVars
<1>12. ASSUME NEW b \in Branches, NEW e \in Events, B!protect(b, e) PROVE B!TypeOK' /\ Happened'
  <2>1. b \in B!Pruned /\ job.before[b] \in Commits /\ info[e] = None /\ [job.before EXCEPT ![b] = None] \in B!Tips
    BY <1>6, <1>7, <1>12 DEF B!protect, B!Tips
  <2>2. CASE /\ refs' = [refs EXCEPT ![e] = job.before[b]]
             /\ info' = [info EXCEPT ![e] = [branch |-> b, sha |-> job.before[b], legacy |-> FALSE]]
             /\ job' = [job EXCEPT !.before[b] = None, !.made = @ \cup {e}]
             /\ UNCHANGED <<owed, branchFaults>>
    <3>1. [branch |-> b, sha |-> job.before[b], legacy |-> FALSE] \in B!DeletedBranch
      BY <2>1 DEF B!DeletedBranch
    <3>2. info'[e] # None /\ \A x \in Events : x # e => info'[x] = info[x]
      BY <3>1, <2>2, <1>1, NoneAssumption DEF B!DeletedBranch
    <3>3. info' \in [Events -> B!DeletedBranch \cup {None}]
      BY <3>1, <2>2, <1>1
    <3>4. job' \in Git /\ job'.made = job.made \cup {e}
      BY <2>1, <2>2, <1>1 DEF Git
    <3>5. refs' \in [Events -> Commits \cup {None}]
      BY <2>1, <2>2, <1>1
    <3>6. e \notin rows /\ \A a \in B!Actors : act[a].pc # "idle" => act[a].event # e
      BY <1>1, <2>1
    <3>7. UNCHANGED <<tracked, heads, shared, stored, rows, act, released, stray, owed, branchFaults>>
      BY <2>2, <1>12 DEF B!protect
    <3>8. \A x \in rows' \cup job'.made : info'[x] # None
      BY <3>2, <3>4, <3>7, <1>1, <1>7
    <3>9. \A a \in B!Actors : act'[a].pc # "idle" =>
            act'[a].event \in Events /\ info'[act'[a].event] # None /\ act'[a].event \notin job'.made
      BY <3>2, <3>4, <3>6, <3>7, <1>1
    <3>10. rows' \cap job'.made = {}
      BY <3>4, <3>6, <3>7, <1>1
    <3> HIDE <2>2
    <3> QED BY <3>3, <3>4, <3>5, <3>7, <3>8, <3>9, <3>10, <1>1, <1>2
  <2>3. CASE /\ IF stored THEN B!fault ELSE UNCHANGED branchFaults
             /\ job' = [job EXCEPT !.before[b] = None]
             /\ owed' = owed \ {job.before[b]}
             /\ UNCHANGED <<refs, info>>
    <3>1. job' \in Git /\ job'.made = job.made /\ branchFaults' \in 0..MaxBranchFaults
      BY <2>1, <2>3, <1>1, <1>3 DEF Git
    <3> QED BY <3>1, <2>3, <1>1, <1>2, <1>12 DEF B!protect
  <2> QED BY <2>2, <2>3, <1>12 DEF B!protect
<1>13. ASSUME B!saveRows PROVE B!TypeOK' /\ Happened'
  <2>1. /\ job' \in Git /\ job'.made \subseteq job.made /\ rows' \subseteq rows \cup job.made
        /\ owed' \subseteq owed /\ branchFaults' \in 0..MaxBranchFaults
        /\ rows' = rows \/ job'.made = {}
    BY <1>1, <1>3, <1>4, <1>13 DEF B!saveRows, Git
  <2> QED BY <2>1, <1>1, <1>2, <1>7, <1>13 DEF B!saveRows, B!repoVars
<1>14. ASSUME NEW e \in Events, B!dropRef(e) PROVE B!TypeOK' /\ Happened'
  <2>1. job' \in Git /\ job'.made \subseteq job.made
    BY <1>1, <1>4, <1>14 DEF B!dropRef, Git
  <2>2. /\ refs' \in [Events -> Commits \cup {None}] /\ stray' \subseteq Events
        /\ branchFaults' \in 0..MaxBranchFaults
    BY <1>1, <1>3, <1>14 DEF B!dropRef
  <2> QED BY <2>1, <2>2, <1>1, <1>2, <1>14 DEF B!dropRef, B!rowVars
<1>15. ASSUME NEW a \in B!Actors, NEW e \in rows, NEW w \in Work, w.event = e,
              act' = [act EXCEPT ![a] = w]
       PROVE  /\ act' \in [B!Actors -> Work]
              /\ \A x \in B!Actors : act'[x].pc # "idle" =>
                   /\ act'[x].event \in Events /\ info[act'[x].event] # None
                   /\ act'[x].event \notin job.made
  BY <1>1, <1>15
<1>16. ASSUME NEW r \in Readers, NEW e \in Events, B!RestoreBranch(r, e)
       PROVE B!TypeOK' /\ Happened'
  <2>1. r \in B!Actors /\ [pc |-> "recreate", event |-> e, kind |-> "restore"] \in Work
    BY DEF B!Actors, Work
  <2> QED BY <2>1, <1>1, <1>2, <1>16 DEF B!RestoreBranch, B!repoVars, B!rowVars, B!history
<1>17. ASSUME NEW r \in Readers, B!recreateBranch(r) PROVE B!TypeOK' /\ Happened'
  <2>1. r \in B!Actors /\ act[r].pc = "recreate" /\ act[r].event \in Events
        /\ info[act[r].event].sha \in Commits
    BY <1>1, <1>5, <1>17 DEF B!Actors, B!recreateBranch
  <2>2. heads' \in B!Tips /\ owed' \subseteq Commits /\ branchFaults' \in 0..MaxBranchFaults
    BY <2>1, <1>1, <1>3, <1>17 DEF B!recreateBranch, B!Tips
  <2>3. B!goto(r, "count") \/ B!goto(r, "idle")
    BY <1>17 DEF B!recreateBranch
  <2> QED BY <2>1, <2>2, <2>3, <1>1, <1>2, <1>8, <1>17 DEF B!recreateBranch, B!rowVars
<1>18. ASSUME NEW r \in Readers, NEW e \in Events, B!PermanentDeleteBranch(r, e)
       PROVE B!TypeOK' /\ Happened'
  <2>1. r \in B!Actors
        /\ [pc |-> IF stored THEN "count" ELSE "deleteRow", event |-> e, kind |-> "permanentDelete"] \in Work
    BY DEF B!Actors, Work
  <2>2. /\ act' \in [B!Actors -> Work]
        /\ \A x \in B!Actors : act'[x].pc # "idle" =>
             /\ act'[x].event \in Events /\ info[act'[x].event] # None
             /\ act'[x].event \notin job.made
    BY <2>1, <1>15, <1>18 DEF B!PermanentDeleteBranch
  <2> QED BY <2>2, <1>1, <1>2, <1>18 DEF B!PermanentDeleteBranch, B!repoVars, B!rowVars
<1>19. ASSUME NEW e \in Events, B!expireBranch(e) PROVE B!TypeOK' /\ Happened'
  <2>1. "cleaner" \in B!Actors /\ [pc |-> "count", event |-> e, kind |-> "expire"] \in Work
    BY DEF B!Actors, Work
  <2>2. /\ act' \in [B!Actors -> Work]
        /\ \A x \in B!Actors : act'[x].pc # "idle" =>
             /\ act'[x].event \in Events /\ info[act'[x].event] # None
             /\ act'[x].event \notin job.made
    BY <2>1, <1>15, <1>19 DEF B!expireBranch
  <2> QED BY <2>2, <1>1, <1>2, <1>19 DEF B!expireBranch, B!repoVars, B!rowVars
<1>20. ASSUME NEW a \in B!Actors, B!countOthers(a) PROVE B!TypeOK' /\ Happened'
  BY <1>1, <1>2, <1>8, <1>20 DEF B!countOthers, B!repoVars, B!rowVars, B!history
<1>21. ASSUME NEW a \in B!Actors, B!deleteRef(a) PROVE B!TypeOK' /\ Happened'
  <2>1. act[a].pc = "deleteRef" /\ act[a].event \in Events
    BY <1>1, <1>21 DEF B!deleteRef
  <2>2. refs' \in [Events -> Commits \cup {None}] /\ shared' \in B!Tips
    BY <2>1, <1>1, <1>21 DEF B!deleteRef, B!dropArchivalRef, B!Tips
  <2>3. released' \subseteq Events /\ stray' \subseteq Events /\ branchFaults' \in 0..MaxBranchFaults
    BY <2>1, <1>1, <1>3, <1>21 DEF B!deleteRef
  <2>4. B!goto(a, "deleteRow") \/ B!goto(a, "idle")
    BY <1>21 DEF B!deleteRef
  <2>5. /\ act' \in [B!Actors -> Work]
        /\ \A x \in B!Actors : act'[x].pc # "idle" =>
             act'[x].event = act[x].event /\ act[x].pc # "idle"
    BY <2>1, <2>4, <1>8
  <2>6. UNCHANGED <<tracked, heads, stored, info, rows, job, owed>>
    BY <1>21 DEF B!deleteRef, B!rowVars
  <2> QED BY <2>2, <2>3, <2>5, <2>6, <1>1, <1>2
<1>22. ASSUME NEW a \in B!Actors, B!deleteRow(a) PROVE B!TypeOK' /\ Happened'
  BY <1>1, <1>2, <1>3, <1>8, <1>22 DEF B!deleteRow, B!repoVars, B!history
<1>23. ASSUME B!crash PROVE B!TypeOK' /\ Happened'
  <2>1. act' \in [B!Actors -> Work] /\ \A x \in B!Actors : act'[x].pc = "idle"
    BY <1>4, <1>23 DEF B!crash
  <2>2. job' \in Git /\ job'.made = {}
    BY <1>4, <1>23 DEF B!crash
  <2>3. owed' \subseteq Commits /\ stray' \subseteq Events /\ branchFaults' \in 0..MaxBranchFaults
    BY <1>1, <1>3, <1>7, <1>23 DEF B!crash
  <2> QED BY <2>1, <2>2, <2>3, <1>1, <1>2, <1>23 DEF B!crash, B!repoVars, B!rowVars
<1>24. ASSUME UNCHANGED B!vars PROVE B!TypeOK' /\ Happened'
  BY <1>1, <1>2, <1>24 DEF B!vars, B!repoVars, B!rowVars, B!history
<1>25. Readers \subseteq B!Actors /\ "cleaner" \in B!Actors
  BY DEF B!Actors
<1> QED
  BY <1>9, <1>10, <1>11, <1>12, <1>13, <1>14, <1>16, <1>17, <1>18, <1>19, <1>20, <1>21, <1>22,
    <1>23, <1>24, <1>25 DEF B!Next, B!Fetch, B!Cleaner, B!Release

\* The types the steps below need.
BranchTypes ==
    /\ heads \in B!Tips /\ tracked \in B!Tips /\ shared \in B!Tips
    /\ refs \in [Events -> Commits \cup {None}]
    /\ rows \subseteq Events
    /\ job \in Git
    /\ act \in [B!Actors -> Work]
    /\ info \in [Events -> B!DeletedBranch \cup {None}]

\* Every step keeps the invariant.  A row keeps its ref because the ref of an
\* event is its own, and the last one to use a shared ref is the only one to drop
\* it; a ref keeps its row because it goes first; and what was pruned is kept by a
\* row nobody is releasing, or by the job that has not given it up.
LEMMA BranchStep ==
    ASSUME BranchInv, [B!Next]_(B!vars)
    PROVE  BranchInv'
<1>1. /\ BranchTypes /\ Happened /\ OwnRef /\ LastLegacy /\ RefBeforeRow /\ JobShape
      /\ B!RowHasRef /\ B!RefHasRow /\ \A c \in owed : KeptFor(c)
  BY DEF BranchInv, BranchTypes, B!TypeOK, Git, Work
<1>2. B!TypeOK' /\ Happened'
  BY BranchStepType DEF BranchInv
<1>3. BranchTypes'
  BY <1>2 DEF BranchTypes, B!TypeOK, Git, Work
<1>4. ASSUME B!deleteRepository \/ B!restoreRepository \/ UNCHANGED B!vars
      PROVE  BranchInv'
  <2>1. UNCHANGED <<tracked, heads, refs, shared, info, rows, job, act, owed, released, stray>>
    BY <1>4 DEF B!deleteRepository, B!restoreRepository, B!vars, B!repoVars, B!rowVars,
      B!history
  <2> QED
    BY <1>1, <1>2, <2>1
       DEF BranchInv, OwnRef, LastLegacy, B!otherLegacy, RefBeforeRow, JobShape,
        B!RowHasRef, B!RefHasRow, B!ArchivalRef, KeptFor, Leaving, B!Unsaved, B!Pruned, B!Actors
<1>5. ASSUME NEW remote \in B!Tips, B!FetchRepository(remote)
      PROVE  BranchInv'
  <2>1. OwnRef'
    BY <1>1, <1>3, <1>5
       DEF B!FetchRepository, B!rowVars, OwnRef, Happened, BranchTypes, Git, B!NoJob
  <2>2. LastLegacy'
    BY <1>1, <1>3, <1>5
       DEF B!FetchRepository, B!rowVars, LastLegacy, B!otherLegacy, OwnRef, Happened,
           BranchTypes, Work, B!Idle
  <2>3. RefBeforeRow'
    BY <1>1, <1>5 DEF B!FetchRepository, RefBeforeRow
  <2>4. JobShape'
    <3>1. job.made = {} /\ job.pc = "idle"
      BY <1>1, <1>5 DEF B!FetchRepository, JobShape, B!NoJob
    <3>2. job' = job \/ job' = [job EXCEPT !.pc = "compare", !.before = tracked]
      BY <1>5 DEF B!FetchRepository
    <3>3. job'.made = {} /\ (job' = job \/ job'.pc = "compare")
      BY <3>1, <3>2, <1>1 DEF BranchTypes, Git
    <3>4. job' = job => JobShape'
      BY <3>1, <1>1 DEF JobShape
    <3> QED BY <3>3, <3>4 DEF JobShape
  <2>5. B!RowHasRef'
    BY <1>1, <1>5 DEF B!FetchRepository, B!rowVars, B!RowHasRef, B!ArchivalRef
  <2>6. B!RefHasRow'
    BY <1>1, <1>3, <1>5
       DEF B!FetchRepository, B!rowVars, B!RefHasRow, RefBeforeRow, Happened, BranchTypes, Git,
           B!NoJob
  <2>7. \A c \in owed' : KeptFor(c)'
    <3>1. job.made = {} /\ job.pc = "idle"
      BY <1>1, <1>5 DEF B!FetchRepository, JobShape, B!NoJob
    <3>2. UNCHANGED <<heads, refs, shared, info, rows, act>> /\ tracked' = remote
      BY <1>5 DEF B!FetchRepository, B!rowVars
    <3>3. ASSUME NEW c \in owed PROVE KeptFor(c)'
      BY <3>1, <3>2, <1>1 DEF KeptFor, Leaving, B!ArchivalRef
    <3>4. CASE owed' \subseteq owed
      BY <3>3, <3>4
    <3>5. CASE /\ job' = [job EXCEPT !.pc = "compare", !.before = tracked]
               /\ owed' = owed \cup ({tracked[b] : b \in {c \in Branches : remote[c] = None}} \ {None})
      <4>1. job'.pc = "compare" /\ job'.before = tracked
        BY <3>5, <1>1 DEF BranchTypes, Git
      <4>2. ASSUME NEW b \in Branches, remote[b] = None, tracked[b] # None
            PROVE  tracked[b] \in B!Unsaved'
        BY <4>1, <4>2, <3>2 DEF B!Unsaved, B!Pruned
      <4> QED BY <4>1, <4>2, <3>3, <3>5 DEF KeptFor
    <3> QED BY <3>4, <3>5, <1>5 DEF B!FetchRepository
  <2> QED BY <1>2, <2>1, <2>2, <2>3, <2>4, <2>5, <2>6, <2>7 DEF BranchInv
<1>6. ASSUME B!refsAfter
      PROVE  BranchInv'
  <2>1. OwnRef'
    BY <1>1, <1>6 DEF B!refsAfter, B!repoVars, B!rowVars, OwnRef, BranchTypes, Git, B!NoJob
  <2>2. LastLegacy'
    BY <1>1, <1>6 DEF B!refsAfter, B!rowVars, LastLegacy, B!otherLegacy
  <2>3. RefBeforeRow'
    BY <1>1, <1>6 DEF B!refsAfter, B!repoVars, RefBeforeRow
  <2>4. JobShape'
    BY <1>3, <1>6 DEF B!refsAfter, JobShape, BranchTypes, Git, B!NoJob
  <2>5. B!RowHasRef'
    BY <1>1, <1>6 DEF B!refsAfter, B!repoVars, B!rowVars, B!RowHasRef, B!ArchivalRef
  <2>6. B!RefHasRow'
    <3>1. job'.made = job.made \/ job' = B!NoJob
      BY <1>1, <1>6 DEF B!refsAfter, BranchTypes, Git
    <3>2. job.made = {}
      BY <1>1, <1>6 DEF B!refsAfter, JobShape
    <3>3. UNCHANGED <<refs, rows, stray>>
      BY <1>6 DEF B!refsAfter, B!repoVars, B!rowVars
    <3> QED BY <3>1, <3>2, <3>3, <1>1 DEF B!RefHasRow
  <2>7. \A c \in owed' : KeptFor(c)'
    BY <1>1, <1>6 DEF B!refsAfter, B!repoVars, B!rowVars, KeptFor, Leaving, B!Unsaved,
      B!Pruned, B!ArchivalRef, JobShape, BranchTypes, Git
  <2> QED BY <1>2, <2>1, <2>2, <2>3, <2>4, <2>5, <2>6, <2>7 DEF BranchInv
<1>7. ASSUME NEW b \in Branches, NEW e \in Events, B!protect(b, e)
      PROVE  BranchInv'
  <2>1. OwnRef'
    <3>0. info[e] = None /\ e \in Events /\ e \notin rows
      BY <1>1, <1>7 DEF B!protect, Happened
    <3>1. UNCHANGED <<tracked, heads, shared, rows, act, stray>>
      BY <1>7 DEF B!protect
    <3>2. CASE UNCHANGED <<refs, info>> /\ job' = [job EXCEPT !.before[b] = None]
               /\ owed' = owed \ {job.before[b]}
      <4>1. job'.made = job.made /\ job'.pc = job.pc
            /\ job'.before = [job.before EXCEPT ![b] = None]
        BY <3>2, <1>1 DEF BranchTypes, Git
      <4> QED BY <4>1, <3>0, <3>1, <3>2, <1>1 DEF OwnRef
    <3>3. CASE /\ refs' = [refs EXCEPT ![e] = job.before[b]]
               /\ info' = [info EXCEPT ![e] = [branch |-> b, sha |-> job.before[b], legacy |-> FALSE]]
               /\ job' = [job EXCEPT !.before[b] = None, !.made = @ \cup {e}]
               /\ owed' = owed
      <4>1. /\ job'.made = job.made \cup {e} /\ job'.pc = job.pc
            /\ job'.before = [job.before EXCEPT ![b] = None]
        BY <3>3, <1>1 DEF BranchTypes, Git
      <4>2. /\ refs'[e] = job.before[b] /\ info'[e].sha = job.before[b] /\ ~info'[e].legacy
            /\ \A x \in Events : x # e => refs'[x] = refs[x] /\ info'[x] = info[x]
        BY <3>3, <3>0, <1>1 DEF BranchTypes
      <4> HIDE <3>3
      <4> QED BY <4>1, <4>2, <1>1 DEF OwnRef, BranchTypes, Git
    <3> QED BY <3>2, <3>3, <1>7 DEF B!protect
  <2>2. LastLegacy'
    BY <1>1, <1>7 DEF B!protect, LastLegacy, B!otherLegacy, Happened, BranchTypes
  <2>3. RefBeforeRow'
    BY <1>1, <1>7 DEF B!protect, RefBeforeRow, Happened, BranchTypes
  <2>4. JobShape'
    BY <1>1, <1>3, <1>7 DEF B!protect, JobShape, BranchTypes, Git, B!NoJob
  <2>5. B!RowHasRef'
    BY <1>1, <1>7 DEF B!protect, B!RowHasRef, B!ArchivalRef, BranchTypes
  <2>6. B!RefHasRow'
    <3>0. info[e] = None /\ e \in Events /\ e \notin rows
      BY <1>1, <1>7 DEF B!protect, Happened
    <3>1. UNCHANGED <<tracked, heads, shared, rows, act, stray>>
      BY <1>7 DEF B!protect
    <3>2. CASE UNCHANGED <<refs, info>> /\ job' = [job EXCEPT !.before[b] = None]
               /\ owed' = owed \ {job.before[b]}
      <4>1. job'.made = job.made /\ job'.pc = job.pc
            /\ job'.before = [job.before EXCEPT ![b] = None]
        BY <3>2, <1>1 DEF BranchTypes, Git
      <4> QED BY <4>1, <3>0, <3>1, <3>2, <1>1 DEF B!RefHasRow
    <3>3. CASE /\ refs' = [refs EXCEPT ![e] = job.before[b]]
               /\ info' = [info EXCEPT ![e] = [branch |-> b, sha |-> job.before[b], legacy |-> FALSE]]
               /\ job' = [job EXCEPT !.before[b] = None, !.made = @ \cup {e}]
               /\ owed' = owed
      <4>1. /\ job'.made = job.made \cup {e} /\ job'.pc = job.pc
            /\ job'.before = [job.before EXCEPT ![b] = None]
        BY <3>3, <1>1 DEF BranchTypes, Git
      <4>2. /\ refs'[e] = job.before[b] /\ info'[e].sha = job.before[b] /\ ~info'[e].legacy
            /\ \A x \in Events : x # e => refs'[x] = refs[x] /\ info'[x] = info[x]
        BY <3>3, <3>0, <1>1 DEF BranchTypes
      <4> HIDE <3>3
      <4> QED BY <4>1, <4>2, <3>1, <1>1 DEF B!RefHasRow
    <3> QED BY <3>2, <3>3, <1>7 DEF B!protect
  <2>7. \A c \in owed' : KeptFor(c)'
    <3>0. info[e] = None /\ e \in Events /\ e \notin rows
      BY <1>1, <1>7 DEF B!protect, Happened
    <3>1. UNCHANGED <<tracked, heads, shared, rows, act, stray>>
      BY <1>7 DEF B!protect
    <3>2. CASE UNCHANGED <<refs, info>> /\ job' = [job EXCEPT !.before[b] = None]
               /\ owed' = owed \ {job.before[b]}
      <4>1. job'.made = job.made /\ job'.pc = job.pc
            /\ job'.before = [job.before EXCEPT ![b] = None]
        BY <3>2, <1>1 DEF BranchTypes, Git
      <4> QED BY <3>1, <3>2, <1>1 DEF KeptFor, Leaving, B!Unsaved, B!Pruned, B!ArchivalRef
    <3>3. CASE /\ refs' = [refs EXCEPT ![e] = job.before[b]]
               /\ info' = [info EXCEPT ![e] = [branch |-> b, sha |-> job.before[b], legacy |-> FALSE]]
               /\ job' = [job EXCEPT !.before[b] = None, !.made = @ \cup {e}]
               /\ owed' = owed
      <4>1. /\ job'.made = job.made \cup {e} /\ job'.pc = job.pc
            /\ job'.before = [job.before EXCEPT ![b] = None]
        BY <3>3, <1>1 DEF BranchTypes, Git
      <4>5. owed' = owed
        BY <3>3
      <4>2. /\ refs'[e] = job.before[b] /\ info'[e].sha = job.before[b] /\ ~info'[e].legacy
            /\ \A x \in Events : x # e => refs'[x] = refs[x] /\ info'[x] = info[x]
        BY <3>3, <3>0, <1>1 DEF BranchTypes
      <4> HIDE <3>3
      <4>3. job.made \subseteq Events /\ rows \subseteq Events /\ job.before \in B!Tips
            /\ \A x \in rows \cup job.made : x # e
        BY <3>0, <1>1 DEF BranchTypes, Git, Happened
      <4>4. ASSUME NEW c \in owed PROVE KeptFor(c)'
        <5>1. CASE \E x \in rows : info[x].sha = c /\ B!ArchivalRef(x) = c /\ ~Leaving(x)
          <6>1. PICK x \in rows : info[x].sha = c /\ B!ArchivalRef(x) = c /\ ~Leaving(x)
            BY <5>1
          <6>2. x \in Events /\ x # e /\ info'[x] = info[x] /\ refs'[x] = refs[x]
            BY <4>2, <4>3
          <6>3. B!ArchivalRef(x)' = c /\ ~Leaving(x)' /\ info'[x].sha = c
            BY <6>1, <6>2, <3>1 DEF B!ArchivalRef, Leaving
          <6> QED BY <6>3, <3>1 DEF KeptFor
        <5>2. CASE job.pc \in {"compare", "archive"} /\ c \in B!Unsaved
          <6>1. PICK y \in B!Pruned : c = job.before[y]
            BY <5>2 DEF B!Unsaved
          <6>2. CASE y = b
            BY <6>1, <6>2, <4>1, <4>2 DEF KeptFor
          <6>3. CASE y # b
            <7>1. job'.before[y] = c /\ y \in B!Pruned'
              BY <6>1, <6>3, <4>1, <3>1 DEF B!Pruned
            <7> QED BY <7>1, <5>2, <4>1 DEF KeptFor, B!Unsaved
          <6> QED BY <6>2, <6>3
        <5>3. CASE \E x \in job.made : info[x].sha = c
          BY <5>3, <4>1, <4>2, <4>3 DEF KeptFor
        <5>4. CASE \E x \in Branches : c = heads[x]
          BY <5>4, <3>1 DEF KeptFor
        <5> QED BY <5>1, <5>2, <5>3, <5>4, <1>1 DEF KeptFor
      <4> QED BY <4>4, <4>5
    <3> QED BY <3>2, <3>3, <1>7 DEF B!protect
  <2> QED BY <1>2, <2>1, <2>2, <2>3, <2>4, <2>5, <2>6, <2>7 DEF BranchInv
<1>8. ASSUME B!saveRows
      PROVE  BranchInv'
  <2>1. OwnRef'
    BY <1>1, <1>8 DEF B!saveRows, B!repoVars, OwnRef, BranchTypes, Git, B!NoJob
  <2>2. LastLegacy'
    BY <1>1, <1>8 DEF B!saveRows, LastLegacy, B!otherLegacy, OwnRef
  <2>3. RefBeforeRow'
    BY <1>1, <1>8 DEF B!saveRows, B!repoVars, RefBeforeRow
  <2>4. JobShape'
    BY <1>3, <1>8 DEF B!saveRows, JobShape, BranchTypes, Git, B!NoJob
  <2>5. B!RowHasRef'
    BY <1>1, <1>8 DEF B!saveRows, B!repoVars, B!RowHasRef, B!ArchivalRef, OwnRef
  <2>6. B!RefHasRow'
    BY <1>1, <1>8 DEF B!saveRows, B!repoVars, B!RefHasRow, BranchTypes, Git
  <2>7. \A c \in owed' : KeptFor(c)'
    <3>1. job.pc = "archive" /\ B!Unsaved = {} /\ UNCHANGED <<heads, refs, shared, info, act>>
      BY <1>8 DEF B!saveRows, B!Unsaved, B!repoVars
    <3>2. CASE rows' = rows \cup job.made /\ owed' = owed
      <4>1. ASSUME NEW e \in job.made
            PROVE  info[e].sha = refs[e] /\ ~info[e].legacy /\ ~Leaving(e)
        BY <1>1, <4>1 DEF OwnRef, Happened, Leaving
      <4>2. ASSUME NEW e \in Events PROVE B!ArchivalRef(e)' = B!ArchivalRef(e) /\ (Leaving(e)' <=> Leaving(e))
        BY <3>1 DEF B!ArchivalRef, Leaving
      <4>3. job.made \subseteq Events /\ rows \subseteq Events
        BY <1>1 DEF BranchTypes, Git
      <4>4. ASSUME NEW c \in owed, NEW e \in rows', info[e].sha = c, B!ArchivalRef(e) = c, ~Leaving(e)
            PROVE  KeptFor(c)'
        BY <3>1, <3>2, <4>2, <4>3, <4>4 DEF KeptFor
      <4>5. ASSUME NEW c \in owed PROVE KeptFor(c)'
        <5>1. CASE \E e \in rows : info[e].sha = c /\ B!ArchivalRef(e) = c /\ ~Leaving(e)
          BY <5>1, <3>2, <4>4
        <5>2. CASE \E e \in job.made : info[e].sha = c
          BY <5>2, <3>2, <4>1, <4>4 DEF B!ArchivalRef
        <5>3. CASE \E b \in Branches : c = heads[b]
          BY <5>3, <3>1 DEF KeptFor
        <5> QED BY <5>1, <5>2, <5>3, <1>1, <3>1 DEF KeptFor
      <4> QED BY <4>5, <3>2
    <3>3. CASE /\ job' = [job EXCEPT !.pc = "dropRefs"] /\ rows' = rows
               /\ owed' = owed \ {info[e].sha : e \in job.made}
      <4>1. job'.made = job.made
        BY <3>3, <1>1 DEF BranchTypes, Git
      <4> QED BY <3>1, <3>3, <1>1 DEF KeptFor, Leaving, B!ArchivalRef
    <3> QED BY <3>2, <3>3, <1>8 DEF B!saveRows
  <2> QED BY <1>2, <2>1, <2>2, <2>3, <2>4, <2>5, <2>6, <2>7 DEF BranchInv
<1>9. ASSUME NEW e \in Events, B!dropRef(e)
      PROVE  BranchInv'
  <2>1. OwnRef'
    BY <1>1, <1>9 DEF B!dropRef, B!rowVars, OwnRef, BranchTypes, Git, B!NoJob
  <2>2. LastLegacy'
    BY <1>1, <1>9 DEF B!dropRef, B!rowVars, LastLegacy, B!otherLegacy
  <2>3. RefBeforeRow'
    BY <1>1, <1>9 DEF B!dropRef, RefBeforeRow, Happened, BranchTypes
  <2>4. JobShape'
    BY <1>1, <1>9 DEF B!dropRef, B!rowVars, JobShape, B!NoJob
  <2>5. B!RowHasRef'
    BY <1>1, <1>9 DEF B!dropRef, B!rowVars, B!RowHasRef, B!ArchivalRef, Happened, BranchTypes
  <2>6. B!RefHasRow'
    BY <1>1, <1>9 DEF B!dropRef, B!rowVars, B!RefHasRow, BranchTypes
  <2>7. \A c \in owed' : KeptFor(c)'
    BY <1>1, <1>9 DEF B!dropRef, B!rowVars, KeptFor, Leaving, B!ArchivalRef, JobShape,
      BranchTypes
  <2> QED BY <1>2, <2>1, <2>2, <2>3, <2>4, <2>5, <2>6, <2>7 DEF BranchInv
<1>10. ASSUME NEW r \in Readers, NEW e \in Events, B!RestoreBranch(r, e)
      PROVE  BranchInv'
  <2>1. OwnRef'
    BY <1>1, <1>10 DEF B!RestoreBranch, B!repoVars, B!rowVars, OwnRef
  <2>2. LastLegacy'
    BY <1>1, <1>10 DEF B!RestoreBranch, B!rowVars, LastLegacy, B!otherLegacy
  <2>3. RefBeforeRow'
    BY <1>1, <1>10 DEF B!RestoreBranch, B!repoVars, B!history, RefBeforeRow
  <2>4. JobShape'
    BY <1>1, <1>10 DEF B!RestoreBranch, B!rowVars, B!history, JobShape
  <2>5. B!RowHasRef'
    BY <1>1, <1>10 DEF B!RestoreBranch, B!repoVars, B!rowVars, B!history, B!RowHasRef,
      B!ArchivalRef
  <2>6. B!RefHasRow'
    BY <1>1, <1>10 DEF B!RestoreBranch, B!repoVars, B!rowVars, B!history, B!RefHasRow
  <2>7. \A c \in owed' : KeptFor(c)'
    BY <1>1, <1>10 DEF B!RestoreBranch, B!repoVars, B!rowVars, B!history, KeptFor, Leaving,
      B!Unsaved, B!Pruned, B!ArchivalRef
  <2> QED BY <1>2, <2>1, <2>2, <2>3, <2>4, <2>5, <2>6, <2>7 DEF BranchInv
<1>11. ASSUME NEW r \in Readers, B!recreateBranch(r)
      PROVE  BranchInv'
  <2>1. OwnRef'
    BY <1>1, <1>11 DEF B!recreateBranch, B!rowVars, OwnRef
  <2>2. LastLegacy'
    BY <1>1, <1>3, <1>11
       DEF B!recreateBranch, B!goto, B!rowVars, LastLegacy, B!otherLegacy, OwnRef, Happened,
           BranchTypes, Work, B!Idle
  <2>3. RefBeforeRow'
    BY <1>1, <1>3, <1>11 DEF B!recreateBranch, B!goto, RefBeforeRow, BranchTypes, Work, B!Idle
  <2>4. JobShape'
    BY <1>1, <1>11 DEF B!recreateBranch, B!rowVars, JobShape
  <2>5. B!RowHasRef'
    BY <1>1, <1>3, <1>11
       DEF B!recreateBranch, B!goto, B!rowVars, B!RowHasRef, B!ArchivalRef, OwnRef, LastLegacy,
           B!otherLegacy, Happened, BranchTypes
  <2>6. B!RefHasRow'
    BY <1>1, <1>3, <1>11
       DEF B!recreateBranch, B!goto, B!rowVars, B!RefHasRow, RefBeforeRow, Happened,
           BranchTypes, Git, B!NoJob
  <2>7. \A c \in owed' : KeptFor(c)'
    <3> DEFINE e == act[r].event
               b == info[e].branch
    <3>1. /\ UNCHANGED <<tracked, refs, shared, info, rows, job>>
          /\ act[r].pc = "recreate" /\ e \in Events /\ info[e] # None /\ r \in B!Actors
      BY <1>1, <1>11 DEF B!recreateBranch, B!rowVars, Happened, B!Actors
    <3>2. ASSUME NEW x \in Events PROVE B!ArchivalRef(x)' = B!ArchivalRef(x)
      BY <3>1 DEF B!ArchivalRef
    <3>3. ASSUME NEW x \in Events, Leaving(x)' PROVE Leaving(x) \/ (x = e /\ B!goto(r, "count"))
      <4>1. CASE B!goto(r, "count")
        <5>1. act' = [act EXCEPT ![r] = [act[r] EXCEPT !.pc = "count"]]
          BY <4>1 DEF B!goto
        <5>2. act'[r].event = e
          BY <5>1, <1>1, <3>1 DEF BranchTypes, Work
        <5> QED BY <5>1, <4>1, <3>3 DEF Leaving
      <4>2. CASE B!goto(r, "idle")
        <5>1. act' = [act EXCEPT ![r] = B!Idle] /\ B!Idle.pc = "idle"
          BY <4>2 DEF B!goto, B!Idle
        <5> QED BY <5>1, <3>3, <1>1 DEF Leaving, BranchTypes
      <4> QED BY <4>1, <4>2, <1>11 DEF B!recreateBranch
    <3>4. CASE UNCHANGED <<heads, owed>> /\ B!goto(r, "idle")
      <4>1. ~B!goto(r, "count")
        <5>1. act'[r].pc = "idle"
          BY <3>4, <3>1, <1>1 DEF B!goto, B!Idle, BranchTypes
        <5>2. [act[r] EXCEPT !.pc = "count"].pc = "count"
          BY <3>1, <1>1 DEF BranchTypes, Work
        <5> QED BY <5>1, <5>2, <3>1, <1>1 DEF B!goto, BranchTypes
      <4> QED BY <3>1, <3>2, <3>3, <3>4, <4>1, <1>1 DEF KeptFor, B!Unsaved, B!Pruned,
            BranchTypes
    <3>5. CASE /\ heads' = [heads EXCEPT ![b] = info[e].sha]
               /\ owed' = owed \ ({heads[b]} \ {info[e].sha})
      <4>1. b \in Branches /\ heads'[b] = info[e].sha
            /\ \A x \in Branches : x # b => heads'[x] = heads[x]
        BY <3>1, <3>5, <1>1 DEF BranchTypes, B!Tips, B!DeletedBranch
      <4>2. ASSUME NEW c \in owed' PROVE KeptFor(c)'
        <5>1. CASE c = info[e].sha
          BY <5>1, <4>1 DEF KeptFor
        <5>2. CASE c # info[e].sha
          <6>1. c \in owed /\ c # heads[b]
            BY <3>5, <5>2, <4>2
          <6> HIDE DEF e, b
          <6>2. CASE \E x \in Branches : c = heads[x]
            BY <6>2, <6>1, <4>1 DEF KeptFor
          <6>3. CASE \E x \in rows : info[x].sha = c /\ B!ArchivalRef(x) = c /\ ~Leaving(x)
            <7>1. PICK x \in rows : info[x].sha = c /\ B!ArchivalRef(x) = c /\ ~Leaving(x)
              BY <6>3
            <7>2. x \in Events /\ x # e
              BY <7>1, <5>2, <1>1 DEF BranchTypes
            <7>3. ~Leaving(x)' /\ B!ArchivalRef(x)' = c
              BY <7>1, <7>2, <3>2, <3>3
            <7> QED BY <7>1, <7>3, <3>1 DEF KeptFor
          <6>4. CASE job.pc \in {"compare", "archive"} /\ c \in B!Unsaved
            BY <6>4, <3>1 DEF KeptFor, B!Unsaved, B!Pruned
          <6>5. CASE \E x \in job.made : info[x].sha = c
            BY <6>5, <3>1 DEF KeptFor
          <6> QED BY <6>1, <6>2, <6>3, <6>4, <6>5, <1>1 DEF KeptFor
        <5> QED BY <5>1, <5>2
      <4> QED BY <4>2
    <3> QED BY <3>4, <3>5, <1>11 DEF B!recreateBranch
  <2> QED BY <1>2, <2>1, <2>2, <2>3, <2>4, <2>5, <2>6, <2>7 DEF BranchInv
<1>12. ASSUME NEW r \in Readers, NEW e \in Events, B!PermanentDeleteBranch(r, e)
      PROVE  BranchInv'
  <2>1. OwnRef'
    BY <1>1, <1>12 DEF B!PermanentDeleteBranch, B!repoVars, B!rowVars, OwnRef
  <2>2. LastLegacy'
    BY <1>1, <1>12 DEF B!PermanentDeleteBranch, B!rowVars, LastLegacy, B!otherLegacy
  <2>3. RefBeforeRow'
    BY <1>1, <1>12 DEF B!PermanentDeleteBranch, B!repoVars, RefBeforeRow
  <2>4. JobShape'
    BY <1>1, <1>12 DEF B!PermanentDeleteBranch, B!rowVars, JobShape
  <2>5. B!RowHasRef'
    BY <1>1, <1>12 DEF B!PermanentDeleteBranch, B!repoVars, B!rowVars, B!RowHasRef,
      B!ArchivalRef
  <2>6. B!RefHasRow'
    BY <1>1, <1>12 DEF B!PermanentDeleteBranch, B!repoVars, B!rowVars, B!RefHasRow
  <2>7. \A c \in owed' : KeptFor(c)'
    BY <1>1, <1>12 DEF B!PermanentDeleteBranch, B!repoVars, B!rowVars, KeptFor, Leaving,
      B!Unsaved, B!Pruned, B!ArchivalRef
  <2> QED BY <1>2, <2>1, <2>2, <2>3, <2>4, <2>5, <2>6, <2>7 DEF BranchInv
<1>13. ASSUME NEW e \in Events, B!expireBranch(e)
      PROVE  BranchInv'
  <2>1. OwnRef'
    BY <1>1, <1>13 DEF B!expireBranch, B!repoVars, B!rowVars, OwnRef
  <2>2. LastLegacy'
    BY <1>1, <1>13 DEF B!expireBranch, B!rowVars, LastLegacy, B!otherLegacy
  <2>3. RefBeforeRow'
    BY <1>1, <1>13 DEF B!expireBranch, B!repoVars, RefBeforeRow
  <2>4. JobShape'
    BY <1>1, <1>13 DEF B!expireBranch, B!rowVars, JobShape
  <2>5. B!RowHasRef'
    BY <1>1, <1>13 DEF B!expireBranch, B!repoVars, B!rowVars, B!RowHasRef, B!ArchivalRef
  <2>6. B!RefHasRow'
    BY <1>1, <1>13 DEF B!expireBranch, B!repoVars, B!rowVars, B!RefHasRow
  <2>7. \A c \in owed' : KeptFor(c)'
    BY <1>1, <1>13 DEF B!expireBranch, B!repoVars, B!rowVars, KeptFor, Leaving, B!Unsaved,
      B!Pruned, B!ArchivalRef
  <2> QED BY <1>2, <2>1, <2>2, <2>3, <2>4, <2>5, <2>6, <2>7 DEF BranchInv
<1>14. ASSUME NEW a \in B!Actors, B!countOthers(a)
      PROVE  BranchInv'
  <2>0. /\ act[a].pc = "count" /\ act[a].event \in Events /\ info[act[a].event] # None
        /\ UNCHANGED <<tracked, heads, refs, shared, info, rows, job, owed, stray>>
        /\ \A x \in B!Actors : act'[x].event = act[x].event /\ (x # a => act'[x] = act[x])
        /\ act'[a].pc = IF B!otherLegacy(act[a].event) = {} THEN "deleteRef" ELSE "deleteRow"
    <3>1. act' = [act EXCEPT ![a] = [act[a] EXCEPT !.pc =
                    IF B!otherLegacy(act[a].event) = {} THEN "deleteRef" ELSE "deleteRow"]]
      BY <1>14 DEF B!countOthers, B!goto
    <3>2. act \in [B!Actors -> Work] /\ act[a] \in Work
      BY <1>1 DEF BranchTypes
    <3>3. /\ act'[a].event = act[a].event
          /\ act'[a].pc = IF B!otherLegacy(act[a].event) = {} THEN "deleteRef" ELSE "deleteRow"
          /\ \A x \in B!Actors : x # a => act'[x] = act[x]
      BY <3>1, <3>2 DEF Work
    <3> QED BY <3>3, <1>1, <1>14 DEF B!countOthers, B!repoVars, B!rowVars, B!history, Happened
  <2>1. OwnRef'
    BY <1>1, <1>14 DEF B!countOthers, B!repoVars, B!rowVars, OwnRef
  <2>2. LastLegacy'
    BY <2>0, <1>1 DEF LastLegacy, B!otherLegacy
  <2>3. RefBeforeRow'
    <3>1. act'[a].pc = "deleteRow" => refs[act[a].event] = None
      BY <2>0, <1>1 DEF B!otherLegacy, OwnRef
    <3> QED BY <3>1, <2>0, <1>1 DEF RefBeforeRow
  <2>4. JobShape'
    BY <1>1, <1>14 DEF B!countOthers, B!rowVars, B!history, JobShape
  <2>5. B!RowHasRef'
    BY <1>1, <1>14 DEF B!countOthers, B!repoVars, B!rowVars, B!history, B!RowHasRef,
      B!ArchivalRef
  <2>6. B!RefHasRow'
    BY <1>1, <1>14 DEF B!countOthers, B!repoVars, B!rowVars, B!history, B!RefHasRow
  <2>7. \A c \in owed' : KeptFor(c)'
    <3>1. ASSUME NEW e \in Events PROVE (Leaving(e)' <=> Leaving(e)) /\ B!ArchivalRef(e)' = B!ArchivalRef(e)
      BY <2>0 DEF Leaving, B!ArchivalRef
    <3> QED BY <3>1, <2>0, <1>1 DEF KeptFor, B!Unsaved, B!Pruned, BranchTypes
  <2> QED BY <1>2, <2>1, <2>2, <2>3, <2>4, <2>5, <2>6, <2>7 DEF BranchInv
<1>15. ASSUME NEW a \in B!Actors, B!deleteRef(a)
      PROVE  BranchInv'
  <2> DEFINE e == act[a].event
  <2>0. /\ act[a].pc = "deleteRef" /\ e \in Events /\ info[e] # None /\ B!otherLegacy(e) = {}
        /\ UNCHANGED <<tracked, heads, info, rows, job, owed>>
        /\ B!dropArchivalRef(e) \/ UNCHANGED <<refs, shared>>
        /\ released' = released \cup {e} \/ UNCHANGED <<refs, shared, released>>
    BY <1>1, <1>15 DEF B!deleteRef, B!rowVars, Happened, LastLegacy
  <2>00. ASSUME NEW x \in rows, x # e PROVE B!ArchivalRef(x)' = B!ArchivalRef(x)
    <3>1. x \in Events /\ info[x] # None
      BY <1>1 DEF BranchTypes, Happened
    <3>2. CASE info[e].legacy
      <4>1. info[x].legacy => info[x].branch # info[e].branch
        BY <3>2, <2>0, <2>00 DEF B!otherLegacy
      <4>2. info[x].branch \in Branches
        BY <3>1, <1>1 DEF BranchTypes, B!DeletedBranch
      <4> QED BY <4>1, <4>2, <2>0, <2>00, <1>1 DEF B!ArchivalRef, B!dropArchivalRef,
            BranchTypes, B!Tips
    <3>3. CASE ~info[e].legacy
      BY <3>3, <2>0, <2>00, <1>1 DEF B!ArchivalRef, B!dropArchivalRef, BranchTypes
    <3> QED BY <3>2, <3>3
  <2> HIDE DEF e
  <2>1. OwnRef'
    BY <1>1, <1>15 DEF B!deleteRef, B!dropArchivalRef, B!rowVars, OwnRef, Happened,
      BranchTypes, Git
  <2>2. LastLegacy'
    BY <1>1, <1>15 DEF B!deleteRef, B!goto, B!rowVars, LastLegacy, B!otherLegacy, BranchTypes,
      Work, B!Idle
  <2>3. RefBeforeRow'
    BY <1>1, <1>15 DEF B!deleteRef, B!dropArchivalRef, B!goto, RefBeforeRow, OwnRef, Happened,
      B!ArchivalRef, BranchTypes, Work, B!Idle
  <2>4. JobShape'
    BY <1>1, <1>15 DEF B!deleteRef, B!rowVars, JobShape
  <2>5. B!RowHasRef'
    <3>1. ASSUME NEW x \in rows' \ released' PROVE B!ArchivalRef(x)' = info'[x].sha
      BY <3>1, <2>0, <2>00, <1>1 DEF B!RowHasRef, B!ArchivalRef
    <3> QED BY <3>1 DEF B!RowHasRef
  <2>6. B!RefHasRow'
    BY <1>1, <1>15 DEF B!deleteRef, B!dropArchivalRef, B!rowVars, B!RefHasRow, BranchTypes
  <2>7. \A c \in owed' : KeptFor(c)'
    <3>1. Leaving(e)
      BY <2>0 DEF Leaving, e
    <3>2. ASSUME NEW x, Leaving(x)' PROVE Leaving(x)
      <4>1. act \in [B!Actors -> Work] /\ act[a] \in Work
        BY <1>1 DEF BranchTypes
      <4>2. B!goto(a, "deleteRow") \/ B!goto(a, "idle")
        BY <1>15 DEF B!deleteRef
      <4>3. act'[a].pc = "idle" \/ act'[a].event = e
        BY <4>1, <4>2 DEF B!goto, B!Idle, Work, e
      <4>4. \A y \in B!Actors : y # a => act'[y] = act[y]
        BY <4>1, <4>2 DEF B!goto
      <4> QED BY <4>3, <4>4, <3>1, <3>2 DEF Leaving
    <3>3. ASSUME NEW c \in owed' PROVE KeptFor(c)'
      <4>1. KeptFor(c)
        BY <1>1, <2>0, <3>3
      <4>2. CASE \E x \in rows : info[x].sha = c /\ B!ArchivalRef(x) = c /\ ~Leaving(x)
        <5>1. PICK x \in rows : info[x].sha = c /\ B!ArchivalRef(x) = c /\ ~Leaving(x)
          BY <4>2
        <5>2. x # e /\ B!ArchivalRef(x)' = c /\ ~Leaving(x)'
          BY <5>1, <3>1, <3>2, <2>00
        <5> QED BY <5>1, <5>2, <2>0 DEF KeptFor
      <4>3. CASE ~\E x \in rows : info[x].sha = c /\ B!ArchivalRef(x) = c /\ ~Leaving(x)
        BY <4>1, <4>3, <2>0 DEF KeptFor, B!Unsaved, B!Pruned
      <4> QED BY <4>2, <4>3
    <3> QED BY <3>3
  <2> QED BY <1>2, <2>1, <2>2, <2>3, <2>4, <2>5, <2>6, <2>7 DEF BranchInv
<1>16. ASSUME NEW a \in B!Actors, B!deleteRow(a)
      PROVE  BranchInv'
  <2>1. OwnRef'
    BY <1>1, <1>16 DEF B!deleteRow, B!repoVars, OwnRef
  <2>2. LastLegacy'
    BY <1>1, <1>16 DEF B!deleteRow, B!goto, LastLegacy, B!otherLegacy, B!Idle
  <2>3. RefBeforeRow'
    BY <1>1, <1>16 DEF B!deleteRow, B!goto, B!repoVars, B!history, RefBeforeRow, B!Idle
  <2>4. JobShape'
    BY <1>1, <1>16 DEF B!deleteRow, B!history, JobShape
  <2>5. B!RowHasRef'
    BY <1>1, <1>16 DEF B!deleteRow, B!repoVars, B!history, B!RowHasRef, B!ArchivalRef
  <2>6. B!RefHasRow'
    BY <1>1, <1>16 DEF B!deleteRow, B!repoVars, B!history, B!RefHasRow, RefBeforeRow
  <2>7. \A c \in owed' : KeptFor(c)'
    BY <1>1, <1>16 DEF B!deleteRow, B!goto, B!repoVars, B!history, KeptFor, Leaving, B!Unsaved,
      B!Pruned, B!ArchivalRef, B!Idle
  <2> QED BY <1>2, <2>1, <2>2, <2>3, <2>4, <2>5, <2>6, <2>7 DEF BranchInv
<1>17. ASSUME B!crash
      PROVE  BranchInv'
  <2>1. OwnRef'
    BY <1>1, <1>17 DEF B!crash, B!repoVars, B!rowVars, OwnRef, B!NoJob
  <2>2. LastLegacy'
    BY <1>17 DEF B!crash, LastLegacy, B!Idle
  <2>3. RefBeforeRow'
    BY <1>17 DEF B!crash, RefBeforeRow, B!Idle
  <2>4. JobShape'
    BY <1>17 DEF B!crash, JobShape, B!NoJob
  <2>5. B!RowHasRef'
    BY <1>1, <1>17 DEF B!crash, B!repoVars, B!rowVars, B!RowHasRef, B!ArchivalRef
  <2>6. B!RefHasRow'
    BY <1>1, <1>17 DEF B!crash, B!repoVars, B!rowVars, B!RefHasRow
  <2>7. \A c \in owed' : KeptFor(c)'
    BY <1>1, <1>17 DEF B!crash, B!repoVars, B!rowVars, KeptFor, Leaving, B!ArchivalRef, B!Idle
  <2> QED BY <1>2, <2>1, <2>2, <2>3, <2>4, <2>5, <2>6, <2>7 DEF BranchInv
<1>18. Readers \subseteq B!Actors /\ "cleaner" \in B!Actors
  BY DEF B!Actors
<1> QED
  BY <1>4, <1>5, <1>6, <1>7, <1>8, <1>9, <1>10, <1>11, <1>12, <1>13, <1>14, <1>15, <1>16,
    <1>17, <1>18 DEF B!Next, B!Fetch, B!Cleaner, B!Release

\* The rows of an older release that do not hold their shared ref count as released.
LEMMA BranchInit == B!Init => BranchInv
<1> SUFFICES ASSUME B!Init PROVE BranchInv
  OBVIOUS
<1>1. B!TypeOK /\ Happened
  BY BranchInitType
<1>2. /\ \A e \in Events : info[e] # None => info[e].legacy
      /\ rows = {e \in Events : info[e] # None}
      /\ refs = [e \in Events |-> None]
      /\ \A b \in Branches :
           LET old == {info[e].sha : e \in {l \in rows : info[l].branch = b}}
           IN  IF old = {} THEN shared[b] = None ELSE shared[b] \in old
      /\ released = {e \in rows : shared[info[e].branch] # info[e].sha}
      /\ owed = {shared[b] : b \in Branches} \ {None}
      /\ job = B!NoJob /\ job.pc = "idle" /\ job.made = {}
      /\ act = [a \in B!Actors |-> B!Idle] /\ \A a \in B!Actors : act[a].pc = "idle"
  BY NoneAssumption DEF B!Init, B!NoJob, B!Idle, B!DeletedBranch
<1>3. OwnRef /\ LastLegacy /\ RefBeforeRow /\ JobShape /\ B!RefHasRow
  BY <1>2 DEF OwnRef, LastLegacy, RefBeforeRow, JobShape, B!RefHasRow
<1>4. B!RowHasRef
  BY <1>2 DEF B!RowHasRef, B!ArchivalRef
<1>5. ASSUME NEW c \in owed PROVE KeptFor(c)
  <2>1. PICK b \in Branches : c = shared[b] /\ c # None
    BY <1>2, <1>5
  <2>2. PICK e \in rows : info[e].branch = b /\ info[e].sha = c
    BY <1>2, <2>1
  <2>3. B!ArchivalRef(e) = c /\ ~Leaving(e)
    BY <1>2, <2>1, <2>2 DEF B!ArchivalRef, Leaving
  <2> QED BY <2>2, <2>3 DEF KeptFor
<1> QED BY <1>1, <1>3, <1>4, <1>5 DEF BranchInv

\* The invariant of the archived branches holds.
THEOREM BranchInvariant == B!Spec => []BranchInv
<1>1. BranchInv /\ [B!Next]_(B!vars) => BranchInv'
  BY BranchStep
<1> QED BY <1>1, BranchInit, PTL DEF B!Spec

\* It is stronger than PrunedIsKept.
LEMMA KeptIsReachable == BranchInv => B!PrunedIsKept
BY DEF BranchInv, KeptFor, B!PrunedIsKept

\* A row that was not released has its ref, a ref that did not go astray has its
\* row, and what a fetch pruned can be asked back.
THEOREM ArchivedBranchesMatch == B!Spec => [](B!RowHasRef /\ B!RefHasRow /\ B!PrunedIsKept)
<1>1. BranchInv => B!RowHasRef /\ B!RefHasRow /\ B!PrunedIsKept
  BY KeptIsReachable DEF BranchInv
<1> QED BY <1>1, BranchInvariant, PTL

-----------------------------------------------------------------------------
(* The three together.                                                     *)

\* What is archived of a branch matches in its row and its ref, and what a
\* fetch pruned stays reachable; every variable has its type.
THEOREM BranchesStayKept == Spec /\ B!Spec /\ S!Spec => []BranchesAreKept
<1>1. BranchInv => B!TypeOK
  BY DEF BranchInv
<1>2. B!Spec => []B!TypeOK
  BY <1>1, BranchInvariant, PTL
<1> QED
  BY <1>2, ArchivedBranchesMatch, PaperbinTypeCorrect, PoolTypeCorrect, PTL DEF BranchesAreKept

\* The specification the runs check takes the steps of the three.
LEMMA RunsTheThree == MCSpec => Spec /\ B!Spec /\ S!Spec
<1>1. MCInit => Init /\ B!Init /\ S!Init
  BY DEF MCInit
<1>2. [MCNext]_<<part, vars, branchVars, poolVars>> => [Next]_vars /\ [B!Next]_(B!vars) /\ [S!Next]_(S!vars)
  BY DEF MCNext, branchVars, poolVars, B!vars, B!repoVars, B!rowVars, B!history, S!vars,
    S!diskVars, S!mirrorVars
<1> QED BY <1>1, <1>2, PTL DEF MCSpec, Spec, B!Spec, S!Spec

\* So it keeps the invariants its runs check.
THEOREM RepositoryDataIsKept ==
    MCSpec => [](DataSurvives /\ BranchesAreKept /\ PoolHolds) /\ RestoreIsWhole
BY RunsTheThree, DataIsNotLost, RestoresAreWhole, BranchesStayKept, PoolIsSharedAndHolds, PTL
=============================================================================
