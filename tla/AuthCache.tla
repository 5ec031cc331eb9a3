------------------------------ MODULE AuthCache ------------------------------
(***************************************************************************)
(* The cache of validated users in internal/middleware/authcache.go, the   *)
(* requests that fill it (internal/middleware/auth.go) and the requests    *)
(* that revoke what it holds (auth_service, user_service, api_key_service, *)
(* the OAuth unlink handler).                                              *)
(*                                                                         *)
(* A validator reads the credential row and the user row and then stores   *)
(* the user; a revoker writes the database and then evicts.  Nothing locks *)
(* the two together: `gen' counts evictions, a validator takes it before   *)
(* it reads, and store publishes only if it has not moved.                 *)
(*                                                                         *)
(* Credentials are their hashes; a user is what an answer depends on, the  *)
(* role and is_active.  The TTL of an entry is abstracted to Expire, which *)
(* may drop any entry at any time.  Expiry of the session or key itself is *)
(* left out: the code serves it up to authCacheTTL longer by design.       *)
(***************************************************************************)
EXTENDS Naturals, FiniteSets

CONSTANTS Creds,        \* hashes of session tokens and API keys
          Sessions,     \* those that are sessions
          Users,
          Owner,        \* Owner[c]: the user_id of credential c
          Roles,
          Validators,   \* goroutines in validateSession / validateAPIKey
          Revokers,     \* goroutines in a handler that revokes
          NoEntry,      \* the cache has no entry
          NoUser,       \* the users table has no such row
          MaxEvictions  \* bound on evictions, so that gen is bounded

ASSUME OwnerAssumption == Owner \in [Creds -> Users]
ASSUME NoEntryAssumption == NoEntry \notin Roles

UserRows == [role : Roles, active : BOOLEAN]

ASSUME NoUserAssumption == NoUser \notin UserRows

VARIABLES valid,   \* valid[c]: the credential's row exists and is active
          user,    \* user[u]: the user's row
          cache,   \* cache[c]: the role in the cached *models.User, or NoEntry
          gen,     \* AuthCache.gen
          val,     \* val[v]: where validator v is, and its local variables
          rev,     \* rev[r]: the same for revoker r
          barred   \* users whose last explicit status decision was to disable
                   \* or delete them (a history variable)

dbVars == <<valid, user, barred>>
vars == <<dbVars, cache, gen, val, rev>>

Idle == [pc |-> "idle"]

\* "begun": begin returned gen; "credential": the credential row was found;
\* "user": the user row was found with this role, and store is next.
ValidatorStates ==
    {Idle} \cup [pc : {"begun", "credential"}, cred : Creds, gen : Nat]
           \cup [pc : {"user"}, cred : Creds, gen : Nat, role : Roles]

\* "loaded": a copy of the user row is about to be Saved; "evict": the write
\* is done and the entries of cover are to be evicted.
RevokerStates ==
    {Idle} \cup [pc : {"loaded"}, user : Users, field : {"role", "active"}, row : UserRows]
           \cup [pc : {"evict"}, cover : SUBSET Creds]

TypeOK ==
    /\ valid \in [Creds -> BOOLEAN]
    /\ user \in [Users -> UserRows \cup {NoUser}]
    /\ cache \in [Creds -> Roles \cup {NoEntry}]
    /\ gen \in Nat
    /\ val \in [Validators -> ValidatorStates]
    /\ rev \in [Revokers -> RevokerStates]
    /\ barred \in SUBSET Users

\* Every credential was issued and every user is active; the cache is empty.
Init ==
    /\ valid = [c \in Creds |-> TRUE]
    /\ user \in [Users -> [role : Roles, active : {TRUE}]]
    /\ cache = [c \in Creds |-> NoEntry]
    /\ gen = 0
    /\ val = [v \in Validators |-> Idle]
    /\ rev = [r \in Revokers |-> Idle]
    /\ barred = {}

\* A user the middleware accepts: First finds the row and IsActive holds.
Accepted(u) == user[u] # NoUser /\ user[u].active

OwnedBy(u) == {c \in Creds : Owner[c] = u}

-----------------------------------------------------------------------------
(* A validator.  get found no entry, maybe some time ago; a hit answers the *)
(* request from the cache and changes nothing.                              *)

\* begin: take the generation before touching the database.
begin(v, c) ==
    /\ val[v].pc = "idle"
    /\ val' = [val EXCEPT ![v] = [pc |-> "begun", cred |-> c, gen |-> gen]]
    /\ UNCHANGED <<dbVars, cache, gen, rev>>

\* The lookup of the sessions or api_keys row; no row, no authentication.
readCredential(v) ==
    /\ val[v].pc = "begun"
    /\ val' = [val EXCEPT ![v] =
                  IF valid[@.cred] THEN [pc |-> "credential", cred |-> @.cred, gen |-> @.gen]
                                   ELSE Idle]
    /\ UNCHANGED <<dbVars, cache, gen, rev>>

\* Mutant: the generation is taken after the database was read.
readUserThenBegin(v) ==
    /\ val[v].pc = "credential"
    /\ Accepted(Owner[val[v].cred])
    /\ val' = [val EXCEPT ![v] = [pc |-> "user", cred |-> @.cred, gen |-> gen,
                                  role |-> user[Owner[@.cred]].role]]
    /\ UNCHANGED <<dbVars, cache, gen, rev>>

\* The lookup of the users row, which must be there and active.
readUser(v) ==
    /\ val[v].pc = "credential"
    /\ LET u == Owner[val[v].cred] IN
       val' = [val EXCEPT ![v] =
                  IF Accepted(u)
                  THEN [pc |-> "user", cred |-> @.cred, gen |-> @.gen, role |-> user[u].role]
                  ELSE Idle]
    /\ UNCHANGED <<dbVars, cache, gen, rev>>

\* store: publish unless an eviction happened since begin; the request is
\* answered with the user it read either way.
store(v) ==
    /\ val[v].pc = "user"
    /\ cache' = IF gen = val[v].gen THEN [cache EXCEPT ![val[v].cred] = val[v].role]
                                    ELSE cache
    /\ val' = [val EXCEPT ![v] = Idle]
    /\ UNCHANGED <<dbVars, gen, rev>>

\* get drops an entry past its TTL, or the sweeper does.
Expire(c) ==
    /\ cache[c] # NoEntry
    /\ cache' = [cache EXCEPT ![c] = NoEntry]
    /\ UNCHANGED <<dbVars, gen, val, rev>>

-----------------------------------------------------------------------------
(* The revokers.  Each writes the database first and evicts afterwards; an *)
(* error of the write returns before the eviction and changes nothing.     *)

MayRevoke(r) ==
    /\ rev[r].pc = "idle"
    /\ gen + Cardinality({a \in Revokers : rev[a].pc # "idle"}) < MaxEvictions

\* The write is done; what is left is to evict the entries of cover.
EvictNext(r, cover) == rev' = [rev EXCEPT ![r] = [pc |-> "evict", cover |-> cover]]

\* Logout, RevokeAPIKey, DeleteAPIKey: one credential's row.
RevokeCredential(r, c) ==
    /\ MayRevoke(r)
    /\ valid' = [valid EXCEPT ![c] = FALSE]
    /\ EvictNext(r, {c})
    /\ UNCHANGED <<user, barred, cache, gen, val>>

\* ChangePassword: every session of the user, in one transaction.
ChangePassword(r, u) ==
    /\ MayRevoke(r)
    /\ user[u] # NoUser
    /\ valid' = [c \in Creds |-> valid[c] /\ ~(c \in Sessions /\ Owner[c] = u)]
    /\ EvictNext(r, OwnedBy(u))
    /\ UNCHANGED <<user, barred, cache, gen, val>>

\* SetUserStatus: only the is_active column is written.
SetUserStatus(r, u, isActive) ==
    /\ MayRevoke(r)
    /\ user[u] # NoUser
    /\ user' = [user EXCEPT ![u] = [role |-> @.role, active |-> isActive]]
    /\ barred' = IF isActive THEN barred \ {u} ELSE barred \cup {u}
    /\ EvictNext(r, OwnedBy(u))
    /\ UNCHANGED <<valid, cache, gen, val>>

\* DeleteUser: the cascading foreign keys of migration 0001 remove the user's
\* sessions and API keys.  (Where the plain foreign key beside them rejects the
\* statement instead, the call fails and nothing changes.)
DeleteUser(r, u) ==
    /\ MayRevoke(r)
    /\ user[u] # NoUser
    /\ user' = [user EXCEPT ![u] = NoUser]
    /\ valid' = [c \in Creds |-> valid[c] /\ Owner[c] # u]
    /\ barred' = barred \ {u}
    /\ EvictNext(r, OwnedBy(u))
    /\ UNCHANGED <<cache, gen, val>>

\* UpdateUser first reads the whole row and sets on the copy what the request
\* names (one field per request is enough); the OAuth unlink does the same
\* with fields no answer depends on, as if it named the role and kept it.
LoadUser(r, u, field, row) ==
    /\ MayRevoke(r)
    /\ user[u] # NoUser
    /\ IF field = "role" THEN row.active = user[u].active ELSE row.role = user[u].role
    /\ rev' = [rev EXCEPT ![r] = [pc |-> "loaded", user |-> u, field |-> field, row |-> row]]
    /\ UNCHANGED <<dbVars, cache, gen, val>>

\* ... and then Saves the copy: every column, whatever happened to the row in
\* between, and gorm's Save inserts the row if there is none to update.
SaveUser(r) ==
    /\ rev[r].pc = "loaded"
    /\ LET u == rev[r].user
           row == rev[r].row
       IN  /\ user' = [user EXCEPT ![u] = row]
           /\ barred' = IF rev[r].field = "role" THEN barred
                        ELSE IF row.active THEN barred \ {u} ELSE barred \cup {u}
           /\ EvictNext(r, OwnedBy(u))
    /\ UNCHANGED <<valid, cache, gen, val>>

\* Mutant: the eviction only stops the validations in flight.
EvictOnlyBumps(r) ==
    /\ rev[r].pc = "evict"
    /\ gen' = gen + 1
    /\ rev' = [rev EXCEPT ![r] = Idle]
    /\ UNCHANGED <<dbVars, cache, val>>

\* Evict / EvictUser: under the lock, a new generation and no more entry.
Evict(r) ==
    /\ rev[r].pc = "evict"
    /\ gen' = gen + 1
    /\ cache' = [c \in Creds |-> IF c \in rev[r].cover THEN NoEntry ELSE cache[c]]
    /\ rev' = [rev EXCEPT ![r] = Idle]
    /\ UNCHANGED <<dbVars, val>>

-----------------------------------------------------------------------------
Next ==
    \/ \E v \in Validators :
         \/ \E c \in Creds : begin(v, c)
         \/ readCredential(v) \/ readUser(v) \/ store(v)
    \/ \E c \in Creds : Expire(c)
    \/ \E r \in Revokers :
         \/ \E c \in Creds : RevokeCredential(r, c)
         \/ \E u \in Users :
              \/ ChangePassword(r, u) \/ DeleteUser(r, u)
              \/ \E isActive \in BOOLEAN : SetUserStatus(r, u, isActive)
              \/ \E field \in {"role", "active"}, row \in UserRows : LoadUser(r, u, field, row)
         \/ SaveUser(r) \/ Evict(r)

Spec == Init /\ [][Next]_vars

(* The eviction follows the write in the same handler, without a condition *)
(* or a wait other than for the cache's own lock, so it happens.           *)
FairSpec == Spec /\ \A r \in Revokers : WF_vars(Evict(r))

-----------------------------------------------------------------------------
\* An entry says what the database would say now.
Fresh(c) ==
    cache[c] # NoEntry =>
        valid[c] /\ Accepted(Owner[c]) /\ cache[c] = user[Owner[c]].role

EvictionPending(c) == \E r \in Revokers : rev[r].pc = "evict" /\ c \in rev[r].cover

\* Once a revocation has returned, the cache does not hold what it revoked:
\* an entry is out of date only while the request that made it so is between
\* its write and its eviction.  In particular a validation that read the
\* database before the write does not put the identity back afterwards.
NoStaleEntry == \A c \in Creds : Fresh(c) \/ EvictionPending(c)

\* A stale entry is gone in the end, without waiting for its TTL.
StaleEntryGoes == \A c \in Creds : ~Fresh(c) ~> Fresh(c)

\* user_service.go: a disabled user "stops being authenticated immediately".
\* A user whose last status decision was to disable them is not accepted.
\* UpdateUser, which Saves the row it read earlier, breaks this.
DisabledStaysOut == \A u \in barred : ~Accepted(u)

-----------------------------------------------------------------------------
\* The inductive invariant: what a validator read in the current generation
\* is still so, or its eviction is pending.
ReadCurrent(v) ==
    /\ val[v].pc # "idle" => val[v].gen <= gen
    /\ val[v].pc \in {"credential", "user"} /\ val[v].gen = gen =>
          valid[val[v].cred] \/ EvictionPending(val[v].cred)
    /\ val[v].pc = "user" /\ val[v].gen = gen =>
          \/ /\ Accepted(Owner[val[v].cred])
             /\ user[Owner[val[v].cred]].role = val[v].role
          \/ EvictionPending(val[v].cred)

IInv == TypeOK /\ NoStaleEntry /\ \A v \in Validators : ReadCurrent(v)
=============================================================================
