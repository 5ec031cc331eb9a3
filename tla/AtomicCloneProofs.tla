-------------------------- MODULE AtomicCloneProofs --------------------------
(***************************************************************************)
(* One mirror, for any constants: what passes for a repository at repoPath *)
(* is whole unless a copy was torn, a whole repository stays, and temporary *)
(* clones do not accumulate; its row has the credentials of its host; the   *)
(* tags people assigned stay; its directory is where its row says; and an   *)
(* archived list of issues is only replaced by one that misses nothing.     *)
(***************************************************************************)
EXTENDS MCMirror, FiniteSetTheorems, TLAPS

-----------------------------------------------------------------------------
(* Counting temporary directories.                                         *)

\* There are finitely many of them.
LEMMA TempsFinite == IsFiniteSet(Temps) /\ Cardinality(Temps) \in Nat
<1>1. Temps \subseteq Jobs
  BY DEF Temps
<1>. QED
  BY <1>1, JobsAssumption, FS_Subset, FS_CardinalityType

\* No step but the start of a clone adds one.
LEMMA FewerTemps ==
    ASSUME Temps' \subseteq Temps
    PROVE  Cardinality(Temps') \in Nat /\ Cardinality(Temps') <= Cardinality(Temps)
BY TempsFinite, FS_Subset, FS_CardinalityType

\* The start of a clone adds one at most.
LEMMA OneMoreTemp ==
    ASSUME NEW j \in Jobs, Temps' \subseteq Temps \cup {j}
    PROVE  Cardinality(Temps') \in Nat /\ Cardinality(Temps') <= Cardinality(Temps) + 1
<1>1. IsFiniteSet(Temps \cup {j}) /\ Cardinality(Temps \cup {j}) \in Nat
  BY TempsFinite, FS_AddElement, FS_CardinalityType
<1>2. Cardinality(Temps \cup {j}) <= Cardinality(Temps) + 1
  BY TempsFinite, FS_AddElement
<1>3. Cardinality(Temps') \in Nat /\ Cardinality(Temps') <= Cardinality(Temps \cup {j})
  BY <1>1, FS_Subset, FS_CardinalityType
<1>. QED
  BY <1>1, <1>2, <1>3, TempsFinite

-----------------------------------------------------------------------------
(* The inductive invariant.                                                *)

\* Nothing is there, or junk.
LEMMA InitIInv == Init => IInv
<1>. SUFFICES ASSUME Init PROVE IInv
  OBVIOUS
<1>1. TypeOK
  <2>1. torn \in BOOLEAN
    BY DEF Init
  <2>2. crashes \in 0..MaxCrashes /\ faults \in 0..MaxFaults
    BY BoundsAssumption DEF Init
  <2>. QED
    BY <2>1, <2>2 DEF Init, TypeOK, PCs
<1>2. DiskMatches /\ FinalIsWhole
  BY DEF Init, DiskMatches, FinalIsWhole
<1>3. Temps = {}
  BY DEF Init, Temps
<1>4. FewTemps
  BY <1>3, FS_EmptySet DEF Init, FewTemps
<1>. QED
  BY <1>1, <1>2, <1>4 DEF IInv

\* Every step keeps the types; what is put in place is whole.
LEMMA TypeStep == TypeOK /\ DiskMatches /\ [Next]_vars => TypeOK'
<1>. SUFFICES ASSUME TypeOK, DiskMatches, [Next]_vars PROVE TypeOK'
  OBVIOUS
<1>. USE DEF TypeOK
<1>1. ASSUME NEW j \in Jobs, begin(j) PROVE TypeOK'
  BY <1>1, JobsAssumption DEF begin, PCs
<1>2. CASE fetch \/ clear \/ cloneStarts \/ cloneSucceeds \/ cloneFails \/ place
  BY <1>2, BoundsAssumption
     DEF fetch, clear, cloneStarts, cloneSucceeds, cloneFails, place, removeFinal, removeTemp,
         goto, done, PCs
<1>3. CASE sweep
  <2>1. PICK kept \in SUBSET Temps :
          /\ Cardinality(kept) <= MaxFaults - faults
          /\ faults' = faults + Cardinality(kept)
          /\ temp' = [j \in Jobs |-> IF j \in kept THEN temp[j] ELSE "none"]
    BY <1>3 DEF sweep
  <2>2. Cardinality(kept) \in Nat
    BY TempsFinite, FS_Subset, FS_CardinalityType
  <2>3. faults' \in 0..MaxFaults
    BY <2>1, <2>2, BoundsAssumption
  <2>. QED
    BY <1>3, <2>1, <2>3 DEF sweep, goto, PCs
<1>4. CASE rename \/ copySucceeds
  BY <1>4 DEF rename, copySucceeds, DiskMatches, goto, done, PCs
<1>5. CASE renameAborted \/ renameFails \/ copyGrows \/ copyFails \/ tidy
  BY <1>5, BoundsAssumption
     DEF renameAborted, renameFails, copyGrows, copyFails, tidy, removeTemp, goto, done, PCs
<1>6. CASE uncopy
  <2>1. torn' \in BOOLEAN
    BY <1>6 DEF uncopy
  <2>. QED
    BY <1>6, <2>1, BoundsAssumption DEF uncopy, removeFinal, goto, PCs
<1>7. CASE crash
  <2>1. torn' \in BOOLEAN
    BY <1>7 DEF crash
  <2>2. crashes' \in 0..MaxCrashes
    BY <1>7, BoundsAssumption DEF crash
  <2>. QED
    BY <1>7, <2>1, <2>2 DEF crash, PCs
<1>8. CASE Start
  BY <1>8 DEF Start, PCs
<1>9. CASE UNCHANGED vars
  BY <1>9 DEF vars
<1>. QED
  BY <1>1, <1>2, <1>3, <1>4, <1>5, <1>6, <1>7, <1>8, <1>9 DEF Next, processJob

\* Every step finds on disk what it needs and leaves what the next one needs.
LEMMA DiskStep ==
    TypeOK /\ DiskMatches /\ FinalIsWhole /\ [Next]_vars => DiskMatches' /\ FinalIsWhole'
<1>. SUFFICES ASSUME TypeOK, DiskMatches, FinalIsWhole, [Next]_vars
              PROVE  DiskMatches' /\ FinalIsWhole'
  OBVIOUS
<1>. USE DEF TypeOK, DiskMatches, FinalIsWhole
<1>1. ASSUME NEW j \in Jobs, begin(j) PROVE DiskMatches' /\ FinalIsWhole'
  BY <1>1 DEF begin, IsRepositoryCloned
<1>2. CASE fetch \/ clear \/ sweep \/ cloneFails \/ place
  BY <1>2 DEF fetch, clear, sweep, cloneFails, place, removeFinal, removeTemp, goto, done
<1>3. CASE cloneStarts \/ cloneSucceeds
  BY <1>3, JobsAssumption DEF cloneStarts, cloneSucceeds, goto
<1>4. CASE rename \/ renameAborted \/ renameFails
  BY <1>4 DEF rename, renameAborted, renameFails, goto, done
<1>5. CASE copyGrows \/ copySucceeds \/ copyFails
  BY <1>5 DEF copyGrows, copySucceeds, copyFails, goto
<1>6. CASE uncopy \/ tidy
  BY <1>6 DEF uncopy, tidy, removeFinal, removeTemp, goto, done
<1>7. CASE crash \/ Start \/ UNCHANGED vars
  BY <1>7 DEF crash, Start, vars
<1>. QED
  BY <1>1, <1>2, <1>3, <1>4, <1>5, <1>6, <1>7 DEF Next, processJob

\* The sweep makes room for the clone that follows it.
LEMMA TempsStep == TypeOK /\ DiskMatches /\ FewTemps /\ [Next]_vars => FewTemps'
<1>. SUFFICES ASSUME TypeOK, DiskMatches, FewTemps, [Next]_vars PROVE FewTemps'
  OBVIOUS
<1>0. /\ faults \in Nat /\ Cardinality(Temps) \in Nat
      /\ Cardinality(Temps) <= faults + 1 /\ (pc = "clone" => Cardinality(Temps) <= faults)
  BY TempsFinite, BoundsAssumption DEF TypeOK, FewTemps
<1>1. ASSUME Temps' \subseteq Temps, faults' \in Nat, faults <= faults', pc' # "clone"
      PROVE  FewTemps'
  BY <1>0, <1>1, FewerTemps DEF FewTemps
<1>2. ASSUME removeTemp PROVE Temps' \subseteq Temps /\ faults' \in Nat /\ faults <= faults'
  BY <1>0, <1>2 DEF removeTemp, Temps, TypeOK
<1>3. ASSUME removeFinal PROVE faults' \in Nat /\ faults <= faults'
  BY <1>0, <1>3 DEF removeFinal
<1>4. ASSUME NEW j \in Jobs, begin(j) PROVE FewTemps'
  BY <1>0, <1>1, <1>4 DEF begin, Temps
<1>5. CASE fetch
  BY <1>0, <1>1, <1>5 DEF fetch, done, Temps
<1>6. CASE clear \/ place \/ uncopy
  BY <1>1, <1>3, <1>6 DEF clear, place, uncopy, goto, Temps
<1>7. CASE sweep
  <2>1. PICK kept \in SUBSET Temps :
          /\ faults' = faults + Cardinality(kept)
          /\ temp' = [j \in Jobs |-> IF j \in kept THEN temp[j] ELSE "none"]
    BY <1>7 DEF sweep
  <2>2. IsFiniteSet(kept) /\ Cardinality(kept) \in Nat
    BY TempsFinite, FS_Subset, FS_CardinalityType
  <2>3. Temps' \subseteq kept
    BY <2>1 DEF Temps
  <2>4. Cardinality(Temps') \in Nat /\ Cardinality(Temps') <= Cardinality(kept)
    BY <2>2, <2>3, FS_Subset, FS_CardinalityType
  <2>5. pc' = "clone"
    BY <1>7 DEF sweep, goto
  <2>. QED
    BY <1>0, <2>1, <2>2, <2>4, <2>5 DEF FewTemps
<1>8. CASE cloneStarts
  <2>1. job \in Jobs /\ pc = "clone" /\ pc' = "cloning" /\ faults' = faults
    BY <1>8 DEF cloneStarts, goto, TypeOK
  <2>2. Temps' \subseteq Temps \cup {job}
    BY <1>8 DEF cloneStarts, Temps, TypeOK
  <2>3. Cardinality(Temps') \in Nat /\ Cardinality(Temps') <= Cardinality(Temps) + 1
    BY <2>1, <2>2, OneMoreTemp
  <2>. QED
    BY <1>0, <2>1, <2>3 DEF FewTemps
<1>9. CASE cloneSucceeds
  <2>1. Temps' \subseteq Temps
    BY <1>9 DEF cloneSucceeds, DiskMatches, Temps, TypeOK
  <2>. QED
    BY <1>0, <1>1, <1>9, <2>1 DEF cloneSucceeds, goto
<1>10. CASE cloneFails \/ tidy
  BY <1>1, <1>2, <1>10 DEF cloneFails, tidy, done
<1>11. CASE rename
  <2>1. Temps' \subseteq Temps
    BY <1>11 DEF rename, Temps, TypeOK
  <2>. QED
    BY <1>0, <1>1, <1>11, <2>1 DEF rename, done
<1>12. CASE renameAborted \/ renameFails \/ copyGrows \/ copySucceeds \/ copyFails
  BY <1>0, <1>1, <1>12
     DEF renameAborted, renameFails, copyGrows, copySucceeds, copyFails, goto, done, Temps
<1>13. CASE crash \/ Start
  BY <1>0, <1>1, <1>13 DEF crash, Start, Temps
<1>14. CASE UNCHANGED vars
  BY <1>14 DEF vars, FewTemps, Temps
<1>. QED
  BY <1>4, <1>5, <1>6, <1>7, <1>8, <1>9, <1>10, <1>11, <1>12, <1>13, <1>14
     DEF Next, processJob

-----------------------------------------------------------------------------
(* The theorems.                                                           *)

(* IInv holds in every state: each step finds on disk what it relies on,   *)
(* and the temporary clones are few.                                       *)
THEOREM InductiveInvariant == Spec => []IInv
<1>1. IInv /\ [Next]_vars => IInv'
  BY TypeStep, DiskStep, TempsStep DEF IInv
<1>. QED
  BY InitIInv, <1>1, PTL DEF Spec

(* The variables of processJob keep their types.                           *)
THEOREM TypeCorrect == Spec => []TypeOK
<1>1. IInv => TypeOK
  BY DEF IInv
<1>. QED
  BY <1>1, InductiveInvariant, PTL

(* "repoPath only ever appears as a complete repository", but for a copy   *)
(* that is under way or was torn.                                          *)
THEOREM FinalWhole == Spec => []FinalIsWhole
<1>1. IInv => FinalIsWhole
  BY DEF IInv
<1>. QED
  BY <1>1, InductiveInvariant, PTL

(* However many attempts crash or are aborted, one temporary clone is left *)
(* and those whose removal failed.                                         *)
THEOREM TempsBounded == Spec => []NoAccumulation
<1>1. IInv => NoAccumulation
  <2>. SUFFICES ASSUME IInv PROVE NoAccumulation
    OBVIOUS
  <2>1. faults \in Nat /\ Cardinality(Temps) \in Nat
    BY TempsFinite, BoundsAssumption DEF IInv, TypeOK
  <2>. QED
    BY <2>1 DEF IInv, FewTemps, NoAccumulation
<1>. QED
  BY <1>1, InductiveInvariant, PTL

(* A whole repository is never cleared, replaced or damaged.               *)
THEOREM WholeStays == Spec => StaysWhole
<1>. DEFINE Stays == final = "whole" => final' = "whole"
<1>1. ASSUME IInv, Next PROVE Stays
  <2>. USE <1>1 DEF IInv, DiskMatches
  <2>1. ASSUME NEW j \in Jobs, begin(j) PROVE Stays
    BY <2>1 DEF begin
  <2>2. CASE fetch \/ clear \/ sweep \/ cloneStarts \/ cloneSucceeds \/ cloneFails \/ place
    BY <2>2 DEF fetch, clear, sweep, cloneStarts, cloneSucceeds, cloneFails, place
  <2>3. CASE rename \/ renameAborted \/ renameFails \/ copyGrows \/ copySucceeds \/ copyFails
             \/ uncopy \/ tidy
    BY <2>3 DEF rename, renameAborted, renameFails, copyGrows, copySucceeds, copyFails,
                uncopy, tidy
  <2>4. CASE crash \/ Start
    BY <2>4 DEF crash, Start
  <2>. QED
    BY <1>1, <2>1, <2>2, <2>3, <2>4 DEF Next, processJob
<1>2. IInv /\ [Next]_vars => [Stays]_vars
  BY <1>1
<1>. QED
  BY <1>2, InductiveInvariant, PTL DEF Spec, StaysWhole

-----------------------------------------------------------------------------
(* The row and those who write it (RepositoryRows).                        *)

\* A row has no credentials, or those of its host.
Fits(x) == x.creds # None => x.creds = x.host

\* The inductive invariant: whatever copy of the row is still to be saved fits
\* as well as the row, and a worker's row is there.
RowInv ==
    /\ R!TypeOK
    /\ \A r \in Requests : act[r].pc \in {"save", "create"} => act[r].seen # None
    /\ \A r \in Requests : act[r].pc \in {"save", "refresh"} => row # None
    /\ worker.pc # "idle" => row # None
    /\ ~rebound => /\ row # None => Fits(row)
                   /\ \A r \in Requests : act[r].pc \in {"save", "create"} => Fits(act[r].seen)

\* A new row has its type, and credentials of its host at most.
LEMMA NewRows ==
    ASSUME NEW y \in Hosts, NEW c \in {y, None}
    PROVE  R!newRow(y, c) \in R!Rows /\ Fits(R!newRow(y, c))
BY LimitsAssumption DEF R!newRow, R!Rows, R!Creds, Fits

\* What an update makes of a row is one, and keeps credentials and host together.
LEMMA UpdatedRows ==
    ASSUME NEW x \in R!Rows, NEW y \in Hosts, NEW b \in BOOLEAN, NEW e \in BOOLEAN,
           NEW new \in R!applyUpdateFields(x, y, e, b)
    PROVE  new \in R!Rows /\ (Fits(x) => Fits(new))
<1>1. /\ x.creds # None /\ ~e => y = x.host
      /\ new = [x EXCEPT !.host = y, !.creds = IF e THEN y ELSE @, !.active = b]
  BY DEF R!applyUpdateFields
<1>. QED
  BY <1>1 DEF R!Rows, R!Creds, Fits

\* Requests write what they have read or made, which fits, and the import writes
\* GitHub's credentials to a row that is GitHub's, or says that it is not.
LEMMA RowStep == RowInv /\ [R!Next]_(R!vars) => RowInv'
<1>. SUFFICES ASSUME RowInv, [R!Next]_(R!vars) PROVE RowInv'
  OBVIOUS
<1>0. /\ row \in R!Rows \cup {None} /\ None \notin R!Rows /\ rebound \in BOOLEAN
      /\ act \in [Requests -> [pc : {"idle", "save", "refresh", "create"},
                               seen : R!Rows \cup {None}]]
      /\ worker \in [pc : {"idle", "git", "backoff"}, retries : 0..MaxRetries]
      /\ MaxRetries \in Nat
  BY LimitsAssumption, HostsAssumption DEF RowInv, R!TypeOK
<1>1. /\ R!Idle \in [pc : {"idle", "save", "refresh", "create"}, seen : R!Rows \cup {None}]
      /\ R!Idle.pc = "idle"
  BY DEF R!Idle
<1>2. R!Resting \in [pc : {"idle", "git", "backoff"}, retries : 0..MaxRetries]
      /\ R!Resting.pc = "idle"
  BY <1>0 DEF R!Resting
<1>3. ASSUME NEW r \in Requests, R!CreateRepository(r) PROVE RowInv'
  <2>1. PICK y \in Hosts, c \in R!Creds : c \in {y, None} /\ row' = R!newRow(y, c)
    BY <1>3 DEF R!CreateRepository
  <2>2. row' \in R!Rows /\ Fits(row') /\ row' # None
    BY <1>0, <2>1, NewRows
  <2>. QED
    BY <1>0, <1>3, <2>2 DEF R!CreateRepository, RowInv, R!TypeOK
<1>4. ASSUME NEW r \in Requests, R!UpdateRepository(r) PROVE RowInv'
  <2>1. PICK url \in Hosts, enters \in BOOLEAN, active \in BOOLEAN :
          \E new \in R!applyUpdateFields(row, url, enters, active) :
             act' = [act EXCEPT ![r] = [pc |-> "save", seen |-> new]]
    BY <1>4 DEF R!UpdateRepository
  <2>2. PICK new \in R!applyUpdateFields(row, url, enters, active) :
          act' = [act EXCEPT ![r] = [pc |-> "save", seen |-> new]]
    BY <2>1
  <2>3. row \in R!Rows /\ row # None
    BY <1>0, <1>4 DEF R!UpdateRepository
  <2>4. new \in R!Rows /\ new # None /\ (Fits(row) => Fits(new))
    BY <1>0, <2>2, <2>3, UpdatedRows
  <2>. QED
    BY <1>0, <1>4, <2>2, <2>3, <2>4 DEF R!UpdateRepository, RowInv, R!TypeOK
<1>5. ASSUME NEW r \in Requests, R!save(r) PROVE RowInv'
  BY <1>0, <1>1, <1>5 DEF R!save, RowInv, R!TypeOK
<1>6. ASSUME NEW r \in Requests, R!MirrorAllGitHubRepos(r) PROVE RowInv'
  <2>1. ASSUME NEW private \in BOOLEAN, NEW mine \in BOOLEAN,
               R!UpsertGitHubMirror(r, private, mine)
        PROVE  RowInv'
    <3>1. CASE row # None
      BY <1>0, <2>1, <3>1 DEF R!UpsertGitHubMirror, RowInv, R!TypeOK
    <3>2. CASE row = None
      <4>1. PICK c \in {GitHub, None} :
              act' = [act EXCEPT ![r] = [pc |-> "create", seen |-> R!newRow(GitHub, c)]]
        BY <2>1, <3>2 DEF R!UpsertGitHubMirror
      <4>2. R!newRow(GitHub, c) \in R!Rows /\ Fits(R!newRow(GitHub, c))
        BY HostsAssumption, NewRows
      <4>3. UNCHANGED <<row, worker, rebound>>
        BY <2>1 DEF R!UpsertGitHubMirror
      <4>. QED
        BY <1>0, <4>1, <4>2, <4>3 DEF RowInv, R!TypeOK
    <3>. QED
      BY <3>1, <3>2
  <2>2. CASE R!refresh(r)
    <3>1. row \in R!Rows
      BY <1>0, <2>2 DEF R!refresh, RowInv
    <3>2. row' \in R!Rows /\ (row.host = GitHub => Fits(row'))
      BY <3>1, <2>2, HostsAssumption DEF R!refresh, R!Rows, R!Creds, Fits
    <3>3. rebound' \in BOOLEAN /\ (~rebound' => ~rebound /\ row.host = GitHub)
      BY <1>0, <2>2 DEF R!refresh
    <3>. QED
      BY <1>0, <1>1, <2>2, <3>2, <3>3 DEF R!refresh, RowInv, R!TypeOK
  <2>3. CASE R!create(r)
    BY <1>0, <1>1, <2>3 DEF R!create, RowInv, R!TypeOK
  <2>4. CASE R!skip(r)
    BY <1>0, <1>1, <2>4 DEF R!skip, RowInv, R!TypeOK
  <2>. QED
    BY <1>6, <2>1, <2>2, <2>3, <2>4 DEF R!MirrorAllGitHubRepos
<1>7. ASSUME NEW isActive \in BOOLEAN, R!SetRepositoryStatus(isActive) PROVE RowInv'
  <2>1. row \in R!Rows /\ row' = [row EXCEPT !.active = isActive]
    BY <1>0, <1>7 DEF R!SetRepositoryStatus
  <2>2. row' \in R!Rows /\ (Fits(row) => Fits(row'))
    BY <2>1 DEF R!Rows, Fits
  <2>. QED
    BY <1>0, <1>7, <2>1, <2>2 DEF R!SetRepositoryStatus, RowInv, R!TypeOK
<1>8. CASE R!schedule \/ R!handleFailure
  BY <1>0, <1>8 DEF R!schedule, R!listRepositories, R!handleFailure, RowInv, R!TypeOK, R!Rows
<1>9. CASE R!runPostClone \/ R!backoff
  <2>1. row \in R!Rows
    BY <1>0, <1>9 DEF R!runPostClone, R!backoff, RowInv
  <2>2. row' \in R!Rows /\ (Fits(row) => Fits(row'))
    <3>1. CASE R!runPostClone
      <4>1. row' = [row EXCEPT !.retries = 0, !.waits = FALSE]
        BY <3>1 DEF R!runPostClone
      <4>2. 0 \in 0..MaxRetries
        BY <1>0
      <4>. QED
        BY <2>1, <4>1, <4>2 DEF R!Rows, Fits
    <3>2. CASE R!backoff
      <4>1. PICK n \in 0..MaxRetries : row' = [row EXCEPT !.waits = TRUE, !.retries = n]
        <5>1. worker.retries \in 0..MaxRetries
          BY <1>0
        <5>2. (IF worker.retries < MaxRetries THEN worker.retries + 1 ELSE MaxRetries)
                \in 0..MaxRetries
          BY <1>0, <5>1
        <5>. QED
          BY <3>2, <5>2 DEF R!backoff
      <4>. QED
        BY <2>1, <4>1 DEF R!Rows, Fits
    <3>. QED
      BY <1>9, <3>1, <3>2
  <2>. QED
    BY <1>0, <1>2, <1>9, <2>1, <2>2 DEF R!runPostClone, R!backoff, RowInv, R!TypeOK
<1>10. CASE R!backoffPasses
  <2>1. row \in R!Rows
    BY <1>0, <1>10 DEF R!backoffPasses
  <2>2. row' \in R!Rows /\ (Fits(row) => Fits(row'))
    BY <1>10, <2>1 DEF R!backoffPasses, R!Rows, Fits
  <2>3. ASSUME NEW r \in Requests
        PROVE  /\ act'[r] \in [pc : {"idle", "save", "refresh", "create"},
                               seen : R!Rows \cup {None}]
               /\ act'[r].pc = act[r].pc
               /\ act[r].seen = None => act'[r].seen = None
               /\ act[r].seen # None => act'[r].seen # None
               /\ act[r].seen # None => act'[r].seen.host = act[r].seen.host
               /\ act[r].seen # None => act'[r].seen.creds = act[r].seen.creds
    <3>1. CASE act[r].seen = None
      BY <1>0, <1>10, <3>1 DEF R!backoffPasses
    <3>2. CASE act[r].seen # None
      <4>1. act[r].seen \in R!Rows /\ act'[r] = [act[r] EXCEPT !.seen.waits = FALSE]
        BY <1>0, <1>10, <3>2 DEF R!backoffPasses
      <4>2. [act[r].seen EXCEPT !.waits = FALSE] \in R!Rows
        BY <4>1 DEF R!Rows
      <4>3. act'[r] = [act[r] EXCEPT !.seen = [act[r].seen EXCEPT !.waits = FALSE]]
        BY <1>0, <4>1
      <4>. QED
        <5>1. /\ act'[r].pc = act[r].pc
              /\ act'[r].seen = [act[r].seen EXCEPT !.waits = FALSE]
              /\ act'[r] \in [pc : {"idle", "save", "refresh", "create"},
                              seen : R!Rows \cup {None}]
          BY <1>0, <4>2, <4>3
        <5>2. /\ act'[r].seen.host = act[r].seen.host
              /\ act'[r].seen.creds = act[r].seen.creds
          BY <4>1, <5>1 DEF R!Rows
        <5>. QED
          BY <1>0, <3>2, <4>2, <5>1, <5>2
    <3>. QED
      BY <3>1, <3>2
  <2>4. act' \in [Requests -> [pc : {"idle", "save", "refresh", "create"},
                               seen : R!Rows \cup {None}]]
    <3>1. act' = [r \in Requests |-> act'[r]]
      BY <1>10 DEF R!backoffPasses
    <3>. QED
      BY <2>3, <3>1
  <2>5. UNCHANGED <<worker, rebound>>
    BY <1>10 DEF R!backoffPasses
  <2>. QED
    BY <1>0, <2>1, <2>2, <2>3, <2>4, <2>5 DEF RowInv, R!TypeOK, Fits
<1>11. CASE R!restart
  BY <1>0, <1>1, <1>2, <1>11 DEF R!restart, RowInv, R!TypeOK
<1>12. CASE UNCHANGED R!vars
  BY <1>12 DEF R!vars, RowInv, R!TypeOK
<1>. QED
  BY <1>3, <1>4, <1>5, <1>6, <1>7, <1>8, <1>9, <1>10, <1>11, <1>12 DEF R!Next

\* Whatever updates, switches, imports and retries cross each other, the row has
\* the credentials of its host, for any requests and hosts, as long as no import
\* wrote a token for a URL the row had left.
THEOREM CredentialsStayBound == R!Spec => [](R!TypeOK /\ CredentialsFitRemote)
<1>1. R!Init => RowInv
  <2>. SUFFICES ASSUME R!Init PROVE RowInv
    OBVIOUS
  <2>1. R!Idle \in [pc : {"idle", "save", "refresh", "create"}, seen : R!Rows \cup {None}]
    BY DEF R!Idle
  <2>2. R!Resting \in [pc : {"idle", "git", "backoff"}, retries : 0..MaxRetries]
    BY LimitsAssumption DEF R!Resting
  <2>3. R!TypeOK
    BY <2>1, <2>2 DEF R!Init, R!TypeOK
  <2>4. /\ \A r \in Requests : act[r].pc = "idle"
        /\ worker.pc = "idle" /\ row = None
    BY DEF R!Init, R!Idle, R!Resting
  <2>. QED
    BY <2>3, <2>4 DEF RowInv
<1>2. RowInv => R!TypeOK /\ CredentialsFitRemote
  BY DEF RowInv, Fits, CredentialsFitRemote, R!CredentialsFitRemote
<1>. QED
  BY <1>1, <1>2, RowStep, PTL DEF R!Spec

-----------------------------------------------------------------------------
(* Its tags (RepositoryTags).                                              *)

\* The inductive invariant: what people assigned is there, and a sync under way
\* has read it, or it is one of those assigned since.
TagInv ==
    /\ T!TypeOK
    /\ ManualTagsStay
    /\ topics.open => manual \subseteq topics.seen \cup crossed

\* Every step keeps it: a step that takes tags away forgets that they were
\* assigned, and a sync replaces the tags with what it read and the topics.
LEMMA TagStep == TagInv /\ [T!Next]_(T!vars) => TagInv'
<1>. SUFFICES ASSUME TagInv, [T!Next]_(T!vars) PROVE TagInv'
  OBVIOUS
<1>. USE DEF TagInv, ManualTagsStay, T!ManualTagsStay
<1>0. /\ tags \subseteq Tags /\ assigned \subseteq tags /\ manual \subseteq Tags
      /\ crossed \subseteq Tags /\ ownerIsAdmin \in BOOLEAN
      /\ topics \in [open : BOOLEAN, seen : SUBSET Tags]
      /\ updates \in [Editors -> [open : BOOLEAN, seen : SUBSET Tags,
                                  sets : BOOLEAN, new : SUBSET Tags]]
  BY DEF T!TypeOK
<1>1. ASSUME /\ tags' \subseteq Tags /\ assigned' \subseteq tags'
             /\ manual' \subseteq assigned' /\ crossed' \subseteq Tags
             /\ ownerIsAdmin' \in BOOLEAN
             /\ topics' \in [open : BOOLEAN, seen : SUBSET Tags]
             /\ updates' \in [Editors -> [open : BOOLEAN, seen : SUBSET Tags,
                                          sets : BOOLEAN, new : SUBSET Tags]]
             /\ topics'.open => manual' \subseteq topics'.seen \cup crossed'
      PROVE  TagInv'
  BY <1>1 DEF T!TypeOK
<1>2. ASSUME NEW t \in Tags,
             \/ T!CreateTag(t) \/ T!DeleteTag(t) \/ T!AddTagToRepository(t)
             \/ T!RemoveTagFromRepository(t)
      PROVE  TagInv'
  BY <1>0, <1>1, <1>2
     DEF T!CreateTag, T!DeleteTag, T!AddTagToRepository, T!RemoveTagFromRepository,
         T!assign, T!forget
<1>3. ASSUME NEW X \in SUBSET Tags, T!SetRepositoryTags(X) PROVE TagInv'
  BY <1>0, <1>1, <1>3 DEF T!SetRepositoryTags, T!assign
<1>4. ASSUME NEW r \in Editors, NEW sets \in BOOLEAN, NEW X \in SUBSET Tags,
             T!UpdateRepository(r, sets, X)
      PROVE  TagInv'
  BY <1>0, <1>1, <1>4 DEF T!UpdateRepository
<1>5. ASSUME NEW r \in Editors, T!save(r) PROVE TagInv'
  <2>1. /\ updates' \in [Editors -> [open : BOOLEAN, seen : SUBSET Tags,
                                     sets : BOOLEAN, new : SUBSET Tags]]
        /\ UNCHANGED <<ownerIsAdmin, topics>>
    BY <1>0, <1>5 DEF T!save, T!Idle
  <2>2. /\ tags' = tags \cup updates[r].seen /\ updates[r].seen \subseteq Tags
        /\ updates[r].sets \in BOOLEAN
    BY <1>0, <1>5 DEF T!save
  <2>3. CASE updates[r].sets
    <3>1. /\ assigned' = updates[r].new \cap tags'
          /\ T!assign(assigned')
      BY <1>5, <2>3 DEF T!save
    <3>. QED
      BY <1>0, <1>1, <2>1, <2>2, <3>1 DEF T!assign
  <2>4. CASE ~updates[r].sets
    <3>1. /\ assigned' = assigned \cup updates[r].seen
          /\ UNCHANGED <<manual, crossed>>
      BY <1>5, <2>4 DEF T!save
    <3>. QED
      BY <1>0, <1>1, <2>1, <2>2, <3>1
  <2>. QED
    BY <2>2, <2>3, <2>4
<1>6. CASE T!loadTags \/ T!endSync
  <2>1. CASE T!loadTags
    <3>1. topics' = [open |-> TRUE, seen |-> assigned]
      BY <2>1 DEF T!loadTags
    <3>2. topics' \in [open : BOOLEAN, seen : SUBSET Tags] /\ topics'.seen = assigned
      BY <1>0, <3>1
    <3>3. UNCHANGED <<tags, assigned, ownerIsAdmin, updates, manual, crossed>>
      BY <2>1 DEF T!loadTags
    <3>. QED
      BY <1>0, <1>1, <3>2, <3>3
  <2>2. CASE T!endSync
    <3>1. topics' \in [open : BOOLEAN, seen : SUBSET Tags] /\ ~topics'.open
      BY <2>2 DEF T!endSync, T!NoSync
    <3>2. crossed' = {} /\ UNCHANGED <<tags, assigned, ownerIsAdmin, updates, manual>>
      BY <2>2 DEF T!endSync
    <3>. QED
      BY <1>0, <1>1, <3>1, <3>2
  <2>. QED
    BY <1>6, <2>1, <2>2
<1>7. CASE T!replaceTags
  <2>1. PICK known \in SUBSET Tags :
          /\ tags' = known \cup topics.seen \cup (Topics \cap known)
          /\ assigned' = topics.seen \cup (Topics \cap known)
    BY <1>0, <1>7, TopicsAssumption DEF T!replaceTags, T!merged
  <2>2. /\ manual' = manual \ crossed /\ crossed' = {} /\ topics.open
        /\ topics' = T!NoSync /\ UNCHANGED <<ownerIsAdmin, updates>>
    BY <1>7 DEF T!replaceTags
  <2>. QED
    BY <1>0, <1>1, <2>1, <2>2 DEF T!NoSync
<1>8. CASE UNCHANGED T!vars
  BY <1>0, <1>1, <1>8 DEF T!vars
<1>. QED
  BY <1>2, <1>3, <1>4, <1>5, <1>6, <1>7, <1>8 DEF T!Next

\* For any tags, topics and updates under way: a tag somebody assigned stays until
\* somebody removes it, unless it was assigned while a sync was between its read
\* and its replacement.
THEOREM AssignedTagsStay == T!Spec => [](T!TypeOK /\ ManualTagsStay)
<1>1. T!Init => TagInv
  BY DEF T!Init, T!NoSync, T!Idle, T!TypeOK, TagInv, ManualTagsStay, T!ManualTagsStay
<1>2. TagInv => T!TypeOK /\ ManualTagsStay
  BY DEF TagInv
<1>. QED
  BY <1>1, <1>2, TagStep, PTL DEF T!Spec

-----------------------------------------------------------------------------
(* The move of its directory (StoragePathMigration).                       *)

\* The mirror is in one form and in one place.
IsOnlyAt(x, d) ==
    /\ at[x] = {d}
    /\ \A y \in S!Things \ {"wiki"} : y # x => at[y] = {}
    /\ x = "tree" <=> ~binned

\* How far the migration has come with it.
Placed(x, d) ==
    /\ move = "serving" => d = pointer
    /\ move = "folder" /\ x = "archive" => d = "canonical"
    /\ move \in {"wiki", "tree"} /\ x \in {"archive", "folder"} => d = "canonical"
    /\ move = "repoint" => d = "canonical"
    /\ pointer = "canonical" => d = "canonical" /\ move \in {"down", "serving"}

\* The inductive invariant.
MoveInv ==
    /\ S!TypeOK
    /\ \E x \in S!Things \ {"wiki"}, d \in S!Dirs : IsOnlyAt(x, d) /\ Placed(x, d)

\* Every step keeps it: a step of the migration takes the mirror along or finds
\* it where it has been taken, and a start that does not get so far ends where
\* nothing has been taken, or goes down.
LEMMA MoveStep == MoveInv /\ [S!Next]_(S!vars) => MoveInv'
<1>. SUFFICES ASSUME MoveInv, [S!Next]_(S!vars) PROVE MoveInv'
  OBVIOUS
<1>0. /\ move \in {"down", "serving", "repoint", "archive", "folder", "wiki", "tree"}
      /\ binned \in BOOLEAN /\ pointer \in {"old", "canonical"}
      /\ at \in [{"archive", "folder", "wiki", "tree"} -> SUBSET {"old", "canonical"}]
      /\ moveFaults \in 0..MaxMoveFaults /\ starts \in 0..MaxStarts
      /\ MaxMoveFaults \in Nat /\ MaxStarts \in Nat
  BY LimitsAssumption DEF MoveInv, S!TypeOK, S!Things, S!Dirs
<1>1. PICK x \in {"archive", "folder", "tree"}, d \in {"old", "canonical"} :
        IsOnlyAt(x, d) /\ Placed(x, d)
  BY DEF MoveInv, S!Things, S!Dirs
<1>2. ASSUME NEW e \in {"old", "canonical"}, NEW y \in {"archive", "folder", "tree"},
             at' \in [{"archive", "folder", "wiki", "tree"} -> SUBSET {"old", "canonical"}],
             at'[y] = {e}, \A z \in {"archive", "folder", "tree"} : z # y => at'[z] = {},
             y = "tree" <=> ~binned', Placed(y, e)',
             /\ move' \in {"down", "serving", "repoint", "archive", "folder", "wiki", "tree"}
             /\ binned' \in BOOLEAN /\ pointer' \in {"old", "canonical"}
             /\ moveFaults' \in 0..MaxMoveFaults /\ starts' \in 0..MaxStarts
      PROVE  MoveInv'
  BY <1>2 DEF MoveInv, S!TypeOK, S!Things, S!Dirs, IsOnlyAt
<1>3. CASE S!start
  BY <1>0, <1>1, <1>2, <1>3 DEF S!start, IsOnlyAt, Placed, S!Things
<1>4. CASE S!movePaperbin
  BY <1>0, <1>1, <1>2, <1>4
     DEF S!movePaperbin, S!moveIfPresent, S!moveFails, S!fault, IsOnlyAt, Placed, S!Things
<1>5. CASE S!moveWiki
  BY <1>0, <1>1, <1>2, <1>5
     DEF S!moveWiki, S!moveIfPresent, S!moveFails, S!fault, IsOnlyAt, Placed, S!Things
<1>6. CASE S!moveTree
  BY <1>0, <1>1, <1>2, <1>6
     DEF S!moveTree, S!moveIfPresent, S!moveFails, S!fault, IsOnlyAt, Placed, S!Things
<1>7. CASE S!repoint
  BY <1>0, <1>1, <1>2, <1>7 DEF S!repoint, S!fault, IsOnlyAt, Placed, S!Things
<1>8. CASE S!deleteRepository
  BY <1>0, <1>1, <1>2, <1>8 DEF S!deleteRepository, IsOnlyAt, Placed, S!Things
<1>9. CASE S!restoreRepository
  BY <1>0, <1>1, <1>2, <1>9 DEF S!restoreRepository, IsOnlyAt, Placed, S!Things
<1>10. CASE S!stop \/ S!crash \/ UNCHANGED S!vars
  BY <1>0, <1>1, <1>2, <1>10 DEF S!stop, S!crash, S!fault, S!vars, IsOnlyAt, Placed, S!Things
<1>. QED
  BY <1>3, <1>4, <1>5, <1>6, <1>7, <1>8, <1>9, <1>10 DEF S!Next

\* Whatever moves fail and wherever a start is cut off, as often as you like: a
\* server that serves finds the mirror by the pointer of its row, and the old
\* directory keeps nothing of it once the pointer has left (but a wiki).
THEOREM MirrorFollowsRow == S!Spec => [](S!TypeOK /\ DataFollowsRow)
<1>1. S!Init => MoveInv
  <2>. SUFFICES ASSUME S!Init PROVE MoveInv
    OBVIOUS
  <2>1. S!TypeOK
    <3>1. at \in [S!Things -> SUBSET S!Dirs]
      BY DEF S!Init, S!only, S!Dirs
    <3>2. moveFaults \in 0..MaxMoveFaults /\ starts \in 0..MaxStarts
      BY LimitsAssumption DEF S!Init
    <3>. QED
      BY <3>1, <3>2 DEF S!Init, S!TypeOK, S!Dirs
  <2>2. \E x \in {"archive", "folder", "tree"} : IsOnlyAt(x, "old")
    BY DEF S!Init, S!only, S!Things, IsOnlyAt
  <2>. QED
    BY <2>1, <2>2 DEF S!Init, MoveInv, Placed, S!Things, S!Dirs
<1>2. MoveInv => S!TypeOK /\ DataFollowsRow
  BY DEF MoveInv, S!TypeOK, DataFollowsRow, S!PointerReachesData, S!NothingLeftBehind,
         IsOnlyAt, Placed, S!Things, S!Dirs
<1>. QED
  BY <1>1, <1>2, MoveStep, PTL DEF S!Spec

-----------------------------------------------------------------------------
(* The archive of issues and pull requests.                               *)

\* What is left of the list while its pages are read: nothing that was there has gone,
\* and what has not been read comes on a later page.
PagesLeft ==
    sync = "page" /\ ~shifted =>
        /\ since \subseteq G!endpoint(list)
        /\ \A i \in since \cap G!keeps(list) :
              i \in got \/ Cardinality(G!newer(i, G!endpoint(list))) >= page * PageSize

\* Once the last page is read, nothing is left.
ListRead == sync \in {"media", "write"} /\ ~shifted => since \cap G!keeps(list) \subseteq got

\* What is to be rewritten, and what a file says, is on disk.
OnDisk == local \subseteq media /\ \A l \in G!Lists : files[l].local \subseteq media

\* The inductive invariant.
ArchiveInv ==
    /\ G!TypeOK /\ upstream \subseteq 1..opened
    /\ PagesLeft /\ ListRead /\ OnDisk

\* The instance counts as this module does.
LEMMA SameCardinality == \A A : G!Cardinality(A) = Cardinality(A)
BY DEF G!Cardinality, Cardinality

\* Item numbers are finitely many, so lists are finite, as are their parts.
LEMMA FiniteLists ==
    ASSUME NEW all, all \subseteq G!Items
    PROVE  /\ IsFiniteSet(all) /\ Cardinality(all) \in Nat
           /\ \A i : Cardinality(G!newer(i, all)) \in Nat
<1>1. IsFiniteSet(G!Items)
  BY ArchiveAssumption, FS_Interval DEF G!Items
<1>2. IsFiniteSet(all)
  BY <1>1, FS_Subset
<1>3. \A i : IsFiniteSet(G!newer(i, all))
  BY <1>2, FS_Subset DEF G!newer
<1> QED BY <1>2, <1>3, FS_CardinalityType

\* An item of a list comes before its end.
LEMMA BeforeTheEnd ==
    ASSUME NEW all, all \subseteq G!Items, NEW i \in all
    PROVE  Cardinality(G!newer(i, all)) < Cardinality(all)
<1>1. G!newer(i, all) \subseteq all /\ G!newer(i, all) # all
  BY ArchiveAssumption DEF G!newer, G!Items
<1> QED BY <1>1, FiniteLists, FS_Subset

\* An item does not move forward in a list that grows.
LEMMA MovesBack ==
    ASSUME NEW all, NEW more, more \subseteq G!Items, all \subseteq more, NEW i
    PROVE  Cardinality(G!newer(i, all)) <= Cardinality(G!newer(i, more))
<1>1. G!newer(i, all) \subseteq G!newer(i, more) /\ G!newer(i, more) \subseteq more
  BY DEF G!newer
<1>2. IsFiniteSet(G!newer(i, more))
  BY <1>1, FiniteLists, FS_Subset
<1> QED BY <1>1, <1>2, FS_Subset

\* A list has items only.
LEMMA ListsOfItems == ASSUME G!TypeOK, NEW l PROVE G!endpoint(l) \subseteq G!Items
BY DEF G!TypeOK, G!endpoint

\* A list that begins has everything before it.
LEMMA BeginKeeps ==
    ASSUME ArchiveInv, NEW l \in G!Lists, G!begin(l), upstream' = upstream, PageSize \in Nat
    PROVE  PagesLeft' /\ ListRead' /\ page' = 0 /\ since' \subseteq G!Items /\ got' = {}
           /\ sync' = "page" /\ list' = l /\ shifted' = FALSE
<1>1. /\ page' = 0 /\ since' = G!endpoint(l) /\ got' = {} /\ sync' = "page" /\ list' = l
      /\ shifted' = FALSE /\ page' * PageSize = 0
  BY DEF G!begin
<1>2. since' \subseteq G!Items /\ G!endpoint(l)' = G!endpoint(l)
  BY <1>1, ListsOfItems DEF ArchiveInv, G!endpoint
<1>3. \A i : Cardinality(G!newer(i, G!endpoint(l))) >= 0
  BY <1>2, <1>1, FiniteLists
<1>4. PagesLeft'
  BY <1>1, <1>2, <1>3 DEF PagesLeft, G!endpoint, G!newer, G!keeps
<1>5. ListRead'
  BY <1>1 DEF ListRead
<1> QED BY <1>1, <1>2, <1>4, <1>5

\* Every step keeps the invariant.
LEMMA ArchiveStep == ArchiveInv /\ [G!Next]_(G!vars) => ArchiveInv'
<1> SUFFICES ASSUME ArchiveInv, [G!Next]_(G!vars) PROVE ArchiveInv'
  OBVIOUS
<1> DEFINE File == [items : SUBSET G!Items, local : SUBSET G!Assets]
<1>1. /\ upstream \subseteq 1..opened /\ upstream \subseteq G!Items /\ opened \in 0..MaxItems
      /\ files \in [G!Lists -> File]
      /\ media \subseteq G!Assets /\ sync \in {"idle", "page", "media", "write"}
      /\ list \in G!Lists /\ prs \in BOOLEAN /\ page \in Nat /\ got \subseteq G!Items
      /\ downloadsLeft \in 0..MaxDownloads /\ bytesLeft \in -1..MaxBytes
      /\ todo \subseteq G!Assets /\ local \subseteq G!Assets
      /\ since \subseteq G!Items /\ shifted \in BOOLEAN
      /\ local \subseteq media /\ \A l \in G!Lists : files[l].local \subseteq media
      /\ PagesLeft /\ ListRead
  BY DEF ArchiveInv, G!TypeOK, OnDisk
<1>2. /\ MaxItems \in Nat /\ MaxDownloads \in Nat /\ MaxBytes \in Nat /\ MaxMedia \in Nat
      /\ PageSize \in Nat \ {0} /\ size \in [G!Assets -> Nat]
      /\ asset \in [G!Items -> G!Assets \cup {None}]
      /\ "issues" \in G!Lists /\ "pulls" \in G!Lists
  BY ArchiveAssumption DEF G!Assets, G!Items, G!Lists
\* What the steps disturb, in parts: GitHub, the reading, the rewriting, the disk.
<1>3. ASSUME upstream' \subseteq 1..opened' /\ upstream' \subseteq G!Items,
             opened' \in 0..MaxItems,
             /\ sync' \in {"idle", "page", "media", "write"}
             /\ list' \in G!Lists /\ prs' \in BOOLEAN /\ page' \in Nat /\ got' \subseteq G!Items
             /\ since' \subseteq G!Items /\ shifted' \in BOOLEAN,
             PagesLeft', ListRead',
             downloadsLeft' \in 0..MaxDownloads /\ bytesLeft' \in -1..MaxBytes,
             todo' \subseteq G!Assets /\ local' \subseteq media',
             files' \in [G!Lists -> File], media' \subseteq G!Assets,
             \A l \in G!Lists : files'[l].local \subseteq media'
      PROVE  ArchiveInv'
  BY <1>3 DEF ArchiveInv, G!TypeOK, OnDisk
<1> DEFINE Reading ==
      /\ sync' \in {"idle", "page", "media", "write"}
      /\ list' \in G!Lists /\ prs' \in BOOLEAN /\ page' \in Nat /\ got' \subseteq G!Items
      /\ since' \subseteq G!Items /\ shifted' \in BOOLEAN /\ PagesLeft' /\ ListRead'
<1>4. ASSUME G!nextList, UNCHANGED <<upstream, opened>>
      PROVE  Reading /\ todo' = {} /\ local' = {} /\ UNCHANGED <<downloadsLeft, bytesLeft>>
  <2>1. CASE G!begin("pulls")
    <3>1. /\ PagesLeft' /\ ListRead' /\ page' = 0 /\ since' \subseteq G!Items /\ got' = {}
          /\ sync' = "page" /\ list' = "pulls" /\ shifted' = FALSE
      BY <1>2, <1>4, <2>1, BeginKeeps
    <3>2. prs' = prs /\ todo' = {} /\ local' = {} /\ UNCHANGED <<downloadsLeft, bytesLeft>>
      BY <1>4 DEF G!nextList, G!budget
    <3> QED BY <1>1, <1>2, <3>1, <3>2
  <2>2. CASE G!endSync
    BY <1>1, <1>4, <2>2 DEF G!endSync, G!nextList, G!budget, PagesLeft, ListRead
  <2> QED BY <1>4, <2>1, <2>2 DEF G!nextList
\* A step that reads no page and leaves GitHub alone leaves what was read as it was.
<1>5. ASSUME UNCHANGED <<upstream, opened, list, prs, page, got, since, shifted>>,
             sync' = sync \/ (sync = "media" /\ sync' = "write")
      PROVE  Reading
  <2>1. PagesLeft' /\ ListRead'
    BY <1>1, <1>5 DEF PagesLeft, ListRead, G!endpoint, G!keeps, G!newer
  <2> QED BY <1>1, <1>5, <2>1
<1> HIDE DEF File
<1>6. CASE G!open
  <2>1. /\ opened' = opened + 1 /\ opened < MaxItems /\ upstream' = upstream \cup {opened + 1}
        /\ UNCHANGED <<files, media, sync, list, prs, page, got, since, shifted,
                       downloadsLeft, bytesLeft, todo, local>>
    BY <1>6 DEF G!open, G!disk, G!reading, G!budget, G!rewriting
  <2>2. upstream' \subseteq 1..opened' /\ upstream' \subseteq G!Items /\ opened' \in 0..MaxItems
    BY <1>1, <1>2, <2>1 DEF G!Items
  <2>3. /\ G!endpoint(list)' \subseteq G!Items /\ G!endpoint(list) \subseteq G!endpoint(list)'
        /\ G!endpoint(list) \subseteq G!Items
    BY <1>1, <2>1, <2>2 DEF G!endpoint
  <2>4. \A i : /\ Cardinality(G!newer(i, G!endpoint(list)))
                     <= Cardinality(G!newer(i, G!endpoint(list)'))
               /\ Cardinality(G!newer(i, G!endpoint(list))) \in Nat
               /\ Cardinality(G!newer(i, G!endpoint(list)')) \in Nat
    BY <2>3, MovesBack, FiniteLists
  <2>5. \A i : Cardinality(G!newer(i, G!endpoint(list)))' = Cardinality(G!newer(i, G!endpoint(list)'))
    BY DEF G!newer
  <2>6. page' * PageSize = page * PageSize /\ page * PageSize \in Nat
    BY <1>1, <1>2, <2>1
  <2>7. G!keeps(list)' = G!keeps(list)
    BY <2>1 DEF G!keeps
  <2>8. PagesLeft'
    <3> SUFFICES ASSUME sync = "page", ~shifted
                 PROVE  /\ since \subseteq G!endpoint(list)'
                        /\ \A i \in since \cap G!keeps(list) :
                              i \in got \/ Cardinality(G!newer(i, G!endpoint(list)')) >= page * PageSize
      BY <2>1, <2>5, <2>7 DEF PagesLeft
    <3> QED BY <1>1, <2>3, <2>4, <2>6 DEF PagesLeft
  <2>9. ListRead'
    BY <1>1, <2>1 DEF ListRead, G!keeps
  <2> QED BY <1>1, <1>3, <2>1, <2>2, <2>8, <2>9
<1>7. ASSUME NEW i \in G!Items, G!delete(i) PROVE ArchiveInv'
  <2>1. /\ upstream' = upstream \ {i} /\ shifted' = (shifted \/ sync = "page")
        /\ UNCHANGED <<opened, files, media, sync, list, prs, page, got, since,
                       downloadsLeft, bytesLeft, todo, local>>
    BY <1>7 DEF G!delete, G!disk, G!budget, G!rewriting
  <2>2. PagesLeft' /\ ListRead' /\ shifted' \in BOOLEAN
    BY <1>1, <2>1 DEF PagesLeft, ListRead, G!keeps
  <2> QED BY <1>1, <1>3, <2>1, <2>2
<1>8. CASE G!FetchMetadata
  <2>1. PICK l \in G!Lists : G!begin(l)
    BY <1>2, <1>8 DEF G!FetchMetadata
  <2>2. /\ prs' \in BOOLEAN /\ downloadsLeft' = MaxDownloads /\ bytesLeft' = MaxBytes
        /\ UNCHANGED <<upstream, opened, files, media, todo, local>>
    BY <1>8 DEF G!FetchMetadata, G!github, G!disk, G!rewriting
  <2>3. MaxDownloads \in 0..MaxDownloads /\ MaxBytes \in -1..MaxBytes
    BY <1>2
  <2>4. /\ PagesLeft' /\ ListRead' /\ page' = 0 /\ since' \subseteq G!Items /\ got' = {}
        /\ sync' = "page" /\ list' = l /\ shifted' = FALSE
    BY <1>2, <2>1, <2>2, BeginKeeps
  <2>5. Reading
    BY <1>2, <2>2, <2>4
  <2> QED BY <1>1, <1>3, <2>2, <2>3, <2>5
<1>9. CASE G!fetchPage
  <2> DEFINE all == G!endpoint(list)
             end == page * PageSize + PageSize
             kept == {i \in all : Cardinality(G!newer(i, all)) \in page * PageSize .. end - 1}
                       \cap G!keeps(list)
  <2>1. /\ sync = "page" /\ got' = got \cup kept /\ page' = page + 1
        /\ end < Cardinality(all) => UNCHANGED <<sync, todo, local>>
        /\ ~(end < Cardinality(all)) =>
              sync' = "media" /\ todo' = {asset[i] : i \in got'} \ {None} /\ local' = {}
        /\ UNCHANGED <<upstream, opened, files, media, list, prs, since, shifted,
                       downloadsLeft, bytesLeft>>
    BY <1>9, SameCardinality DEF G!fetchPage, G!github, G!disk, G!budget, G!rewriting
  <2>2. all \subseteq G!Items /\ IsFiniteSet(all) /\ Cardinality(all) \in Nat
        /\ \A i : Cardinality(G!newer(i, all)) \in Nat
    BY ListsOfItems, FiniteLists DEF ArchiveInv
  <2>3. page * PageSize \in Nat /\ end \in Nat /\ page' * PageSize = end
    BY <1>1, <1>2, <2>1
  <2>4. got' \subseteq G!Items
    BY <1>1, <2>1, <2>2
  <2>5. todo' \subseteq G!Assets /\ local' \subseteq media
    BY <1>1, <1>2, <2>1, <2>4
  <2>6. ~shifted => \A i \in since \cap G!keeps(list) :
                      i \in got' \/ Cardinality(G!newer(i, all)) >= end
    BY <1>1, <2>1, <2>2, <2>3 DEF PagesLeft
  <2>7. PagesLeft'
    <3>1. G!endpoint(list)' = all /\ G!keeps(list)' = G!keeps(list)
      BY <2>1 DEF G!endpoint, G!keeps
    <3>2. \A i : Cardinality(G!newer(i, G!endpoint(list)))' = Cardinality(G!newer(i, G!endpoint(list)'))
      BY DEF G!newer
    <3>3. ~shifted => since \subseteq all
      BY <1>1, <2>1 DEF PagesLeft
    <3>4. since' = since /\ shifted' = shifted
      BY <2>1
    <3> HIDE DEF all, end, kept
    <3> SUFFICES ASSUME ~shifted
                 PROVE  /\ since \subseteq all
                        /\ \A i \in since \cap G!keeps(list) :
                              i \in got' \/ Cardinality(G!newer(i, all)) >= end
      BY <2>3, <3>1, <3>2, <3>4 DEF PagesLeft
    <3> QED BY <2>6, <3>3
  <2>8. ListRead'
    <3>1. CASE end < Cardinality(all)
      BY <2>1, <3>1 DEF ListRead
    <3>2. CASE ~(end < Cardinality(all))
      <4>1. ~shifted => \A i \in since : Cardinality(G!newer(i, all)) < Cardinality(all)
        BY <1>1, <2>1, <2>2, BeforeTheEnd DEF PagesLeft
      <4>2. ~shifted => since \cap G!keeps(list) \subseteq got'
        BY <2>2, <2>3, <2>6, <3>2, <4>1
      <4> QED BY <2>1, <4>2 DEF ListRead, G!keeps
    <3> QED BY <3>1, <3>2
  <2>9. sync' \in {"page", "media"} /\ page' \in Nat
    BY <1>1, <2>1
  <2> QED BY <1>1, <1>3, <2>1, <2>4, <2>5, <2>7, <2>8, <2>9
<1>10. CASE G!abort \/ G!writeFails
  BY <1>1, <1>3, <1>4, <1>10 DEF G!abort, G!writeFails, G!github, G!disk
<1>11. CASE G!writeFileReplacing
  <2>1. files' \in [G!Lists -> File] /\ \A l \in G!Lists : files'[l].local \subseteq media
    <3>1. files' = [files EXCEPT ![list] = [items |-> got, local |-> local]]
      BY <1>11 DEF G!writeFileReplacing
    <3>2. [items |-> got, local |-> local] \in File
      BY <1>1 DEF File
    <3> QED BY <1>1, <3>1, <3>2
  <2> QED BY <1>1, <1>3, <1>4, <1>11, <2>1 DEF G!writeFileReplacing, G!github
<1>12. ASSUME NEW a \in G!Assets, G!present(a) PROVE ArchiveInv'
  BY <1>1, <1>3, <1>5, <1>12 DEF G!present, G!github, G!disk, G!reading, G!budget
<1>13. ASSUME NEW a \in G!Assets, G!download(a) \/ G!downloadFails(a) PROVE ArchiveInv'
  <2>1. G!affordable => /\ G!smaller(size[a], G!limit + 1) \in Nat
                        /\ G!smaller(size[a], G!limit + 1) <= bytesLeft + 1
                        /\ downloadsLeft - 1 \in 0..MaxDownloads
    BY <1>1, <1>2 DEF G!affordable, G!smaller, G!limit
  <2>2. /\ UNCHANGED <<downloadsLeft, bytesLeft>>
           \/ /\ G!affordable /\ downloadsLeft' = downloadsLeft - 1
              /\ \E n \in 0..G!smaller(size[a], G!limit + 1) : bytesLeft' = bytesLeft - n
        /\ media \subseteq media' /\ media' \subseteq media \cup {a}
        /\ local' = local \/ (local' = local \cup {a} /\ a \in media')
        /\ todo' = todo \ {a}
        /\ UNCHANGED <<upstream, opened, files, sync, list, prs, page, got, since, shifted>>
    BY <1>13, <2>1 DEF G!download, G!downloadFails, G!github, G!disk, G!reading, G!budget
  <2>3. downloadsLeft' \in 0..MaxDownloads /\ bytesLeft' \in -1..MaxBytes
    BY <1>1, <1>2, <2>1, <2>2
  <2> QED BY <1>1, <1>3, <1>5, <2>2, <2>3
<1>14. CASE G!archiveMedia
  BY <1>1, <1>3, <1>5, <1>14
     DEF G!archiveMedia, G!github, G!disk, G!reading, G!budget, G!rewriting
<1>15. CASE G!crash
  BY <1>1, <1>3, <1>15
     DEF G!crash, G!endSync, G!github, G!disk, G!budget, PagesLeft, ListRead
<1>16. CASE UNCHANGED G!vars
  BY <1>1, <1>3, <1>5, <1>16
     DEF G!vars, G!github, G!disk, G!reading, G!budget, G!rewriting
<1> QED BY <1>6, <1>7, <1>8, <1>9, <1>10, <1>11, <1>12, <1>13, <1>14, <1>15, <1>16 DEF G!Next

\* The archive's types, and what MetadataHolds promises of it, for any items, assets,
\* sizes of pages and budgets: whatever is opened while pages are read, no list is
\* replaced by one that misses an item, unless an item was deleted meanwhile.
THEOREM ArchiveIsWhole == G!Spec => []G!TypeOK /\ MetadataHolds
<1>1. G!Init => ArchiveInv
  <2> SUFFICES ASSUME G!Init PROVE ArchiveInv
    OBVIOUS
  <2>1. /\ MaxItems \in Nat \ {0, 1} /\ MaxDownloads \in Nat /\ MaxBytes \in Nat
    BY ArchiveAssumption
  <2>2. opened = 2 /\ upstream = 1..2 /\ 1..2 \subseteq G!Items /\ 2 \in 0..MaxItems
    BY <2>1 DEF G!Init, G!Items
  <2>3. downloadsLeft \in 0..MaxDownloads /\ bytesLeft \in -1..MaxBytes
    BY <2>1 DEF G!Init
  <2> QED
    BY <2>2, <2>3 DEF G!Init, G!Absent, G!Lists, G!TypeOK, ArchiveInv, PagesLeft, ListRead,
                           OnDisk
<1>2. ArchiveInv => G!TypeOK /\ G!LinksResolve /\ G!SpendsItsBudget
  BY DEF ArchiveInv, OnDisk, G!TypeOK, G!LinksResolve, G!SpendsItsBudget
<1>3. ArchiveInv /\ [G!Next]_(G!vars) =>
        [\A l \in G!Lists : files'[l] # files[l] =>
          \/ shifted
          \/ since \cap G!keeps(l) \subseteq files'[l].items]_(G!vars)
  <2> SUFFICES ASSUME ArchiveInv, G!Next, NEW l \in G!Lists, files'[l] # files[l], ~shifted
               PROVE  since \cap G!keeps(l) \subseteq files'[l].items
    OBVIOUS
  <2>1. G!writeFileReplacing
    BY DEF G!Next, G!open, G!delete, G!FetchMetadata, G!fetchPage, G!abort, G!archiveMedia,
           G!writeFails, G!crash, G!present, G!download, G!downloadFails, G!disk
  <2>2. /\ sync = "write" /\ files' = [files EXCEPT ![list] = [items |-> got, local |-> local]]
        /\ DOMAIN files = G!Lists
    BY <2>1 DEF G!writeFileReplacing, ArchiveInv, G!TypeOK
  <2>3. l = list /\ files'[l].items = got
    BY <2>2
  <2> QED BY <2>2, <2>3 DEF ArchiveInv, ListRead
<1> QED BY <1>1, <1>2, <1>3, ArchiveStep, PTL DEF G!Spec, MetadataHolds, G!MetadataIsWhole

=============================================================================
