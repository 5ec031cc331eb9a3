--------------------------- MODULE RepositoryTags ---------------------------
(***************************************************************************)
(* The tags of one repository: people assign and remove them                *)
(* (services/tag_service.go, repository_service.go), and a sync merges the  *)
(* topics of the upstream repository into them (gitops/postclone.go).  The  *)
(* sync reads the tags it has to keep at the start of its transaction and   *)
(* replaces all of them at its end; an update of the repository saves the   *)
(* tags it was loaded with.  Transactions see what others have committed.   *)
(***************************************************************************)
CONSTANTS Tags,       \* names of tags
          Topics,     \* those of them the upstream repository has as topics
          Requests    \* goroutines that serve HTTP requests

VARIABLES tags,       \* rows of the tags table
          assigned,   \* tags of the repository
          ownerIsAdmin,
          sync,       \* the transaction of syncGitHubMetadata
          act,        \* act[r]: the update request r is in
          manual,     \* history: assigned by people and not removed since
          crossed     \* history: assigned during a sync that does not know

vars == <<tags, assigned, ownerIsAdmin, sync, act, manual, crossed>>

NoSync == [open |-> FALSE, seen |-> {}]
Idle == [open |-> FALSE, seen |-> {}, sets |-> FALSE, new |-> {}]

TypeOK ==
    /\ \A T \in {tags, assigned, manual, crossed} : T \subseteq Tags
    /\ assigned \subseteq tags
    /\ ownerIsAdmin \in BOOLEAN
    /\ sync \in [open : BOOLEAN, seen : SUBSET Tags]
    /\ act \in [Requests -> [open : BOOLEAN, seen : SUBSET Tags,
                             sets : BOOLEAN, new : SUBSET Tags]]

Init ==
    /\ tags \in SUBSET Tags /\ assigned = {}
    /\ ownerIsAdmin \in BOOLEAN
    /\ sync = NoSync /\ act = [r \in Requests |-> Idle]
    /\ manual = {} /\ crossed = {}

\* What people assign is theirs, and a sync that is under way does not see it.
assign(T) ==
    /\ manual' = (manual \cap assigned') \cup T
    /\ crossed' = (crossed \cap assigned') \cup IF sync.open THEN T \ sync.seen ELSE {}

forget == manual' = manual \cap assigned' /\ crossed' = crossed \cap assigned'

-----------------------------------------------------------------------------
(* People.                                                                  *)

CreateTag(t) ==
    /\ t \notin tags
    /\ tags' = tags \cup {t}
    /\ UNCHANGED <<assigned, ownerIsAdmin, sync, act, manual, crossed>>

\* The assignments of the tag go with it.
DeleteTag(t) ==
    /\ t \in tags
    /\ tags' = tags \ {t} /\ assigned' = assigned \ {t}
    /\ forget
    /\ UNCHANGED <<ownerIsAdmin, sync, act>>

\* An assignment is unique, and is of a tag there is.
AddTagToRepository(t) ==
    /\ t \in tags \ assigned
    /\ assigned' = assigned \cup {t}
    /\ assign({t})
    /\ UNCHANGED <<tags, ownerIsAdmin, sync, act>>

RemoveTagFromRepository(t) ==
    /\ t \in assigned
    /\ assigned' = assigned \ {t}
    /\ forget
    /\ UNCHANGED <<tags, ownerIsAdmin, sync, act>>

SetRepositoryTags(T) ==
    /\ T \subseteq tags
    /\ assigned' = T
    /\ assign(T)
    /\ UNCHANGED <<tags, ownerIsAdmin, sync, act>>

\* The repository is loaded with its tags; the request may have a list of its
\* own (sets) that is to replace them.
UpdateRepository(r, sets, T) ==
    /\ ~act[r].open
    /\ act' = [act EXCEPT ![r] = [open |-> TRUE, seen |-> assigned, sets |-> sets, new |-> T]]
    /\ UNCHANGED <<tags, assigned, ownerIsAdmin, sync, manual, crossed>>

\* Save inserts the tags the repository was loaded with where they are missing,
\* even those somebody removed or deleted meanwhile.
save(r) ==
    /\ act[r].open
    /\ tags' = tags \cup act[r].seen
    /\ assigned' = IF act[r].sets THEN act[r].new \cap tags' ELSE assigned \cup act[r].seen
    /\ IF act[r].sets THEN assign(assigned') ELSE UNCHANGED <<manual, crossed>>
    /\ act' = [act EXCEPT ![r] = Idle]
    /\ UNCHANGED <<ownerIsAdmin, sync>>

-----------------------------------------------------------------------------
(* The sync.                                                                *)

loadTags ==
    /\ ~sync.open
    /\ sync' = [open |-> TRUE, seen |-> assigned]
    /\ UNCHANGED <<tags, assigned, ownerIsAdmin, act, manual, crossed>>

\* Mutant: the topics replace the tags.
mergedTopics(canonical) == canonical

merged(canonical) == sync.seen \cup canonical

\* Topics become tags only for an admin, and without one that is a tag nothing
\* is replaced.  A tag of the merged set deleted meanwhile is inserted again.
replaceTags ==
    /\ sync.open
    /\ LET known == IF ownerIsAdmin THEN tags \cup Topics ELSE tags
           canonical == Topics \cap known
       IN  /\ canonical # {}
           /\ tags' = known \cup merged(canonical)
           /\ assigned' = merged(canonical)
    /\ sync' = NoSync
    /\ manual' = manual \ crossed
    /\ crossed' = {}
    /\ UNCHANGED <<ownerIsAdmin, act>>

\* No topic is a tag, or a statement fails and everything is rolled back.
endSync ==
    /\ sync.open
    /\ sync' = NoSync /\ crossed' = {}
    /\ UNCHANGED <<tags, assigned, ownerIsAdmin, act, manual>>

Next ==
    \/ \E t \in Tags : CreateTag(t) \/ DeleteTag(t) \/ AddTagToRepository(t)
                       \/ RemoveTagFromRepository(t)
    \/ \E T \in SUBSET Tags : SetRepositoryTags(T)
    \/ \E r \in Requests :
         \/ \E sets \in BOOLEAN, T \in SUBSET Tags : UpdateRepository(r, sets, T)
         \/ save(r)
    \/ loadTags \/ replaceTags \/ endSync

Spec == Init /\ [][Next]_vars

-----------------------------------------------------------------------------
(* "Merge GitHub topics into the existing tag set instead of replacing it,  *)
(* so manually-assigned tags are preserved across syncs": a tag someone     *)
(* assigned stays until someone removes it, whatever updates and syncs      *)
(* cross, except one assigned while a sync was between its read and its     *)
(* replacement.                                                             *)
ManualTagsStay == manual \subseteq assigned
=============================================================================
