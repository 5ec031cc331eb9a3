------------------------------ MODULE MCSignIn ------------------------------
(***************************************************************************)
(* The ways in: the rate limiter, the sign-in with a password, the OAuth     *)
(* flow and the settings of its provider.  They have no variable in common,  *)
(* so `part' picks initially the one that runs.  The constants are those of  *)
(* the four; the bounds are in the cfg.                                      *)
(*                                                                         *)
(* Password: two addresses, and room for one in the throttle; either two     *)
(* logins at a time, or one and an admin's edit of the user.                *)
(* OAuth: two users in two browsers, one identity whose e-mail address is    *)
(* the first user's or nobody's, and room for one flow in the store.        *)
(* Accounts: the same with one user at first and one flow, while an          *)
(* administrator edits, enables and disables users.                         *)
(* Settings: two admins, two registrations and one in the configuration.     *)
(* Limiter: two requests in a tier of two tokens or one, and time for a      *)
(* bucket to be dropped and remade.                                         *)
(***************************************************************************)
EXTENDS SignIn, Sequences

CONSTANTS
    Browsers, Users, Identities, Emails, States, MaxPending, MaxSessions, AutoActivate,
    LookupsFail,
    Buckets, APIRequests, AuthRequests, Tiers, Minute, MaxIdle,
    Apps, ConfigApp, Empty, MaxFaults,
    Requests,                  \* of any of the three
    b1, u1, u2, m1, g1         \* members of the sets that the initial states name

ASSUME StoreAssumption == IsFiniteSet(States) /\ MaxPending \in Nat

ASSUME SettingsAssumption == MaxFaults \in Nat /\ None \notin Apps /\ Empty \notin Apps

VARIABLES part,
          users, emailOf, owner, alive, session, cookie, pending, states, opened, vouched,
          callbacks,
          tier, bucket, limiters, holds, doomed, dropped, admitted, strays,
          clientID, clientSecret, updates, mixed, faults

O == INSTANCE OAuthFlow WITH issued <- states, act <- callbacks
R == INSTANCE RateLimiter
C == INSTANCE OAuthSettings WITH Base <- ConfigApp, Updates <- Requests, act <- updates

ASSUME AccountsAssumption ==
    /\ {AutoActivate, LookupsFail} \subseteq BOOLEAN /\ MaxSessions \in Nat
    /\ IsFiniteSet(Browsers) /\ Cardinality(Browsers) <= MaxSessions
    /\ None \notin O!Rows

ASSUME TiersAssumption ==
    /\ Tiers \subseteq {"auth", "search", "dashboard", "api"}
    /\ {APIRequests, AuthRequests, Minute, MaxIdle} \subseteq Nat
    /\ None \notin Buckets /\ None \notin [tokens : Nat, lastRefill : Nat]

\* A bucket is only dropped when it would be full again: every tier refills in six
\* minutes at most, and the worker waits for ten.
ASSUME RefillAssumption ==
    \A t \in Tiers : R!limitFor(t).rate * (MaxIdle + 1) >= R!Unit * R!limitFor(t).burst

oauthVars == <<users, emailOf, owner, alive, session, cookie, pending, states, opened,
               vouched, callbacks>>
limiterVars == <<tier, bucket, limiters, holds, doomed, dropped, admitted, strays>>
settingVars == <<clientID, clientSecret, updates, mixed, faults>>

MCInit ==
    /\ Init /\ O!Init /\ R!Init /\ C!Init
    /\ part \in {"password", "edits", "oauth", "accounts", "limiter", "settings"}
    /\ users[u1] # None /\ users[u1].email = m1
    /\ owner # << >> /\ owner[1] = u1
    /\ session = [b \in Browsers |-> IF b = b1 THEN 1 ELSE IF Len(owner) > 1 THEN 2 ELSE 0]
    /\ part # "limiter" => tier = "search"
    /\ part # "oauth" => Len(owner) = 1 /\ users[u2] = None
    /\ part \notin {"oauth", "accounts"} => emailOf[g1] = m1

\* Nobody edits a user or disables one.
NoAdmin ==
    /\ \A q \in Requests : callbacks'[q].pc # "update"
    /\ \A u \in Users : users[u] # None /\ users[u].active => users'[u].active

MCNext ==
    \/ /\ part \in {"password", "edits"} /\ Next
       /\ part = "password" => UNCHANGED edit
       /\ part = "edits" => \E a \in Attempts : act'[a] = Idle
       /\ UNCHANGED <<part, oauthVars, limiterVars, settingVars>>
    \/ /\ part \in {"oauth", "accounts"} /\ O!Next
       /\ part = "oauth" => NoAdmin
       /\ part = "accounts" => Cardinality(states') <= 1
       /\ UNCHANGED <<part, vars, limiterVars, settingVars>>
    \/ part = "settings" /\ C!Next /\ UNCHANGED <<part, vars, oauthVars, limiterVars>>
    \/ /\ part = "limiter" /\ R!Next
       /\ UNCHANGED <<part, entries, password, sessions, act, edit, issued, ended, late,
                      undone, streak, oauthVars, settingVars>>

MCSpec == MCInit /\ [][MCNext]_<<part, vars, oauthVars, limiterVars, settingVars>>

Types == TypeOK /\ O!TypeOK /\ R!TypeOK /\ C!TypeOK

\* SignIn's two invariants of sessions: neither a logout nor a new password
\* leaves one behind.
SessionsEnd == EndedStaysOut /\ OldPasswordIsOut

\* OAuthFlow's two invariants of states: one is used once, and their number is
\* bounded.
StatesHold == O!StateIsUsedOnce /\ O!PendingBounded

\* A lock of the throttle holds until its time, a sign-up is let in once it is
\* approved, and an identity is linked where its user asked for it, or where an
\* edit that read it writes it back.  (On the way every variable keeps its type,
\* and a client is served as by one bucket.)
AccountsHold ==
    LockHolds /\ []O!ApprovedOnly /\ O!LinkIsAskedFor /\ []Types /\ R!ServesAsOneBucket

\* See OAuthFlow and RateLimiter.
IdentityHasOneUser == O!IdentityHasOneUser
BudgetHolds == R!BudgetHolds

\* See OAuthSettings.
PairFits == C!PairFits
=============================================================================
