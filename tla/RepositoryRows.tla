--------------------------- MODULE RepositoryRows ---------------------------
(***************************************************************************)
(* The row of one mirror and everybody who writes it: requests that create *)
(* or update it or switch it off (services/repository_service.go), the      *)
(* import of GitHub repositories that refreshes its token, and the worker   *)
(* that keeps its retry backoff (gitops/worker.go, postclone.go).  An       *)
(* update is a read of the row, a change of that copy and a Save of the     *)
(* whole copy; the others write single columns.  Nothing locks the row.     *)
(***************************************************************************)
EXTENDS Naturals

CONSTANTS Requests,     \* goroutines that serve HTTP requests
          Hosts,        \* transport and host of a remote: gitRemoteOrigin
          GitHub,       \* the one of them the import uses
          None,
          MaxRetries    \* bound on the retry count

VARIABLES row,       \* None, or the columns of the row
          act,       \* act[r]: where the request r is, and the row it read
          worker,    \* the job of the repository
          rebound    \* history: an import wrote a token for a URL the row had left

vars == <<row, act, worker, rebound>>

Creds == Hosts \cup {None}     \* stored credentials, by the host they were entered for
Rows == [host : Hosts, creds : Creds, active : BOOLEAN,
         retries : 0..MaxRetries,
         waits : BOOLEAN]      \* next_retry_at is in the future

Idle == [pc |-> "idle", seen |-> None]
Resting == [pc |-> "idle", retries |-> 0]

TypeOK ==
    /\ row \in Rows \cup {None}
    /\ act \in [Requests -> [pc : {"idle", "save", "refresh", "create"}, seen : Rows \cup {None}]]
    /\ worker \in [pc : {"idle", "git", "backoff"}, retries : 0..MaxRetries]
    /\ rebound \in BOOLEAN

Init ==
    /\ row = None
    /\ act = [r \in Requests |-> Idle]
    /\ worker = Resting
    /\ rebound = FALSE

newRow(h, c) == [host |-> h, creds |-> c, active |-> TRUE, retries |-> 0, waits |-> FALSE]

-----------------------------------------------------------------------------
(* Requests.                                                                *)

CreateRepository(r) ==
    /\ row = None /\ act[r].pc = "idle"
    /\ \E h \in Hosts, c \in Creds : c \in {h, None} /\ row' = newRow(h, c)
    /\ UNCHANGED <<act, worker, rebound>>

\* What an update makes of the row it read; nothing if it is refused.
applyUpdateFields(old, url, enters, active) ==
    IF old.creds # None /\ ~enters /\ url # old.host THEN {}
    ELSE {[old EXCEPT !.host = url, !.creds = IF enters THEN url ELSE @, !.active = active]}

\* The first half of UpdateRepository: url is the row's own where the request
\* has none, enters says that it brings credentials.
UpdateRepository(r) ==
    /\ row # None /\ act[r].pc = "idle"
    /\ \E url \in Hosts, enters, active \in BOOLEAN :
         \E new \in applyUpdateFields(row, url, enters, active) :
             act' = [act EXCEPT ![r] = [pc |-> "save", seen |-> new]]
    /\ UNCHANGED <<row, worker, rebound>>

\* Mutant: Updates instead of Save, which skips columns that are empty.
saveNonZero(r) ==
    /\ act[r].pc = "save"
    /\ row' = [act[r].seen EXCEPT !.creds = IF @ = None THEN row.creds ELSE @]
    /\ act' = [act EXCEPT ![r] = Idle]
    /\ UNCHANGED <<worker, rebound>>

\* The second half: Save writes every column.
save(r) ==
    /\ act[r].pc = "save"
    /\ row' = act[r].seen
    /\ act' = [act EXCEPT ![r] = Idle]
    /\ UNCHANGED <<worker, rebound>>

SetRepositoryStatus(isActive) ==
    /\ row # None
    /\ row' = [row EXCEPT !.active = isActive]
    /\ UNCHANGED <<act, worker, rebound>>

-----------------------------------------------------------------------------
(* The import of the user's GitHub repositories after a sign-in.            *)

\* Its creator (mine) or another user imports a repository: the mirror is
\* looked up by its URL.  It is left alone when it is public or
\* someone else's, and created when there is none.
UpsertGitHubMirror(r, private, mine) ==
    /\ act[r].pc = "idle"
    /\ \/ /\ row # None /\ row.host = GitHub /\ private /\ mine
          /\ act' = [act EXCEPT ![r] = [pc |-> "refresh", seen |-> row]]
       \/ /\ row = None
          /\ act' = [act EXCEPT ![r] = [pc |-> "create",
                                        seen |-> newRow(GitHub, IF private THEN GitHub ELSE None)]]
    /\ UNCHANGED <<row, worker, rebound>>

\* Updates of the columns of the credentials, by the id of the row.
refresh(r) ==
    /\ act[r].pc = "refresh"
    /\ row' = [row EXCEPT !.creds = GitHub]
    /\ rebound' = (rebound \/ row.host # GitHub)
    /\ act' = [act EXCEPT ![r] = Idle]
    /\ UNCHANGED worker

\* Nothing makes a URL unique: a row that came meanwhile gets a twin, which
\* is a mirror of its own and not followed here.
create(r) ==
    /\ act[r].pc = "create"
    /\ row' = IF row = None THEN act[r].seen ELSE row
    /\ act' = [act EXCEPT ![r] = Idle]
    /\ UNCHANGED <<worker, rebound>>

\* A repository that cannot be imported is passed over.
skip(r) ==
    /\ act[r].pc \in {"refresh", "create"}
    /\ act' = [act EXCEPT ![r] = Idle]
    /\ UNCHANGED <<row, worker, rebound>>

\* One repository after the other; here, every time it is the one of this URL.
MirrorAllGitHubRepos(r) ==
    \/ \E private, mine \in BOOLEAN : UpsertGitHubMirror(r, private, mine)
    \/ refresh(r) \/ create(r) \/ skip(r)

-----------------------------------------------------------------------------
(* The worker.                                                              *)

\* Mutant: a repository that failed is left alone.
listRepositoriesHealthy == row # None /\ row.active /\ ~row.waits /\ row.retries = 0

\* What a tick of the scheduler clones: an active repository that no backoff
\* holds and that has no job.
listRepositories == row # None /\ row.active /\ ~row.waits

schedule ==
    /\ worker.pc = "idle" /\ listRepositories
    /\ worker' = [worker EXCEPT !.pc = "git"]
    /\ UNCHANGED <<row, act, rebound>>

\* runPostClone ends with the columns of a success.
runPostClone ==
    /\ worker.pc = "git"
    /\ row' = [row EXCEPT !.retries = 0, !.waits = FALSE]
    /\ worker' = Resting
    /\ UNCHANGED <<act, rebound>>

\* handleFailure reads the retry count, and writes it back one higher.
handleFailure ==
    /\ worker.pc = "git"
    /\ worker' = [pc |-> "backoff", retries |-> row.retries]
    /\ UNCHANGED <<row, act, rebound>>

backoff ==
    /\ worker.pc = "backoff"
    /\ row' = [row EXCEPT !.waits = TRUE,
                          !.retries = IF worker.retries < MaxRetries THEN worker.retries + 1
                                                                     ELSE MaxRetries]
    /\ worker' = Resting
    /\ UNCHANGED <<act, rebound>>

\* Every next_retry_at there is, in the row or in a copy of it, passes.
backoffPasses ==
    /\ row # None /\ (row.waits \/ \E r \in Requests : act[r].pc = "save" /\ act[r].seen.waits)
    /\ row' = [row EXCEPT !.waits = FALSE]
    /\ act' = [r \in Requests |-> IF act[r].seen = None THEN act[r]
                                  ELSE [act[r] EXCEPT !.seen.waits = FALSE]]
    /\ UNCHANGED <<worker, rebound>>

restart ==
    /\ act' = [r \in Requests |-> Idle]
    /\ worker' = Resting
    /\ UNCHANGED <<row, rebound>>

Next ==
    \/ \E r \in Requests :
         \/ CreateRepository(r) \/ UpdateRepository(r) \/ save(r)
         \/ MirrorAllGitHubRepos(r)
    \/ \E isActive \in BOOLEAN : SetRepositoryStatus(isActive)
    \/ schedule \/ runPostClone \/ handleFailure \/ backoff \/ backoffPasses
    \/ restart

Spec == Init /\ [][Next]_vars

\* The scheduler ticks, a git operation ends, time passes.
Fairness ==
    WF_vars(schedule) /\ WF_vars(runPostClone \/ handleFailure \/ backoff) /\ WF_vars(backoffPasses)

-----------------------------------------------------------------------------
(* "Stored credentials are bound to the remote they were entered for":      *)
(* whatever updates cross each other, the row has the credentials of its    *)
(* host, as long as no import crosses one that moves the URL.               *)
CredentialsFitRemote ==
    row # None /\ row.creds # None /\ ~rebound => row.creds = row.host

(* No update that brings back an old backoff or an old retry count keeps an *)
(* active repository from being cloned again.                               *)
Active == row # None /\ row.active
ActiveIsTried == Active ~> (worker.pc = "git" \/ ~Active)
=============================================================================
