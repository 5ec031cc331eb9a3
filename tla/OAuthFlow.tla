----------------------------- MODULE OAuthFlow -----------------------------
(****************************************************************************)
(* Signing in with, and linking, an account of an OAuth provider: the state *)
(* store (oauth_state.go), the flow's handlers (oauth_handler.go) and what  *)
(* they do to the users table (oauth_service.go).                           *)
(*                                                                          *)
(* A flow is begun in a browser, continues at the provider and comes back   *)
(* as a callback, which runs as a goroutine with one database statement     *)
(* per step; meanwhile the browser may repeat the callback, log out or      *)
(* begin another flow, and an administrator may enable, disable or edit     *)
(* users (user_service.go).                                                 *)
(*                                                                          *)
(* One provider is enough: a record of another provider is refused like an  *)
(* unknown one.  Expiry of a record is an action that may happen at any     *)
(* time after it is issued.  A failed exchange with the provider ends the   *)
(* callback; a failed lookup of an identity or an address finds "none".     *)
(* The state in a callback's query is the browser's own, and so is its      *)
(* cookie.  Users are not deleted (DeleteUser is in AuthCache).  Flows      *)
(* begun with an API key, the manifest of a GitHub App and the import of    *)
(* repositories that follows are left out.                                  *)
(****************************************************************************)
EXTENDS Naturals, FiniteSets, Sequences

CONSTANTS Browsers, Users, Identities, Emails,
          States,       \* random state values
          Requests,     \* goroutines in a callback, an unlink or an edit
          None,
          MaxPending,   \* oauthStateMaxPending
          MaxSessions,  \* bound on sessions ever created
          AutoActivate, \* oauth.auto_activate
          LookupsFail   \* whether the lookup of an identity or an address may fail

VARIABLES users,     \* users[u]: the row, or None
          emailOf,   \* the e-mail address the provider reports for an identity
          owner,     \* owner[n]: the user of the n-th session
          alive,     \* sessions whose row exists
          session,   \* session[b]: the session cookie of browser b; 0, none
          cookie,    \* cookie[b]: its state cookie
          pending,   \* oauthStateStore.pending
          issued,    \* states issued so far
          opened,    \* opened[s]: callbacks let in by state s (history)
          vouched,   \* users created by an administrator or enabled by one (history)
          act        \* act[r]: where request r is

storeVars == <<pending, issued, opened>>
browserVars == <<session, cookie>>
sessionVars == <<owner, alive>>
vars == <<users, emailOf, sessionVars, browserVars, storeVars, vouched, act>>

Idle == [pc |-> "idle"]
Rows == [email : Emails, subject : Identities \cup {None}, active : BOOLEAN]
Flows == [user : Users \cup {None}, sid : 0..MaxSessions]

Callbacks ==
    [pc : {"check", "link", "linkWrite", "find", "follow", "findEmail", "emailWrite",
           "create", "start"},
     kind : {"login", "link"}, browser : Browsers, sid : 0..MaxSessions, flow : Flows,
     id : Identities, user : Users \cup {None}, active : BOOLEAN]

\* A whole row that was read and is going to be Saved.
Saves == [pc : {"unlink", "update"}, user : Users, row : Rows, enables : BOOLEAN]

TypeOK ==
    /\ users \in [Users -> Rows \cup {None}]
    /\ emailOf \in [Identities -> Emails]
    /\ owner \in UNION {[1..n -> Users] : n \in 0..MaxSessions}
    /\ alive \subseteq DOMAIN owner
    /\ session \in [Browsers -> 0..MaxSessions]
    /\ cookie \in [Browsers -> States \cup {None}]
    /\ pending \in [States -> [flow : Flows, live : BOOLEAN] \cup {None}]
    /\ issued \subseteq States
    /\ opened \in [States -> Nat]
    /\ vouched \subseteq Users
    /\ act \in [Requests -> {Idle} \cup Callbacks
                              \cup Saves]

Active(n) == n \in alive /\ users[owner[n]] # None /\ users[owner[n]].active

\* currentSessionUser: the user of a valid session, or None.
currentUser(n) == IF Active(n) THEN owner[n] ELSE None

\* Linked users have the identity; a lookup returns any of them.
Linked(i) == {u \in Users : users[u] # None /\ users[u].subject = i}
WithEmail(e) == {u \in Users : users[u] # None /\ users[u].email = e}

\* Some users exist, made by an administrator, and some are signed in.
Init ==
    /\ users \in [Users -> [email : Emails, subject : {None}, active : {TRUE}] \cup {None}]
    /\ \A u, v \in Users : u # v /\ users[u] # None /\ users[v] # None =>
                              users[u].email # users[v].email
    /\ emailOf \in [Identities -> Emails]
    /\ owner \in UNION {[1..n -> {u \in Users : users[u] # None}] : n \in 0..Cardinality(Browsers)}
    /\ alive = DOMAIN owner
    /\ session \in [Browsers -> 0..Cardinality(Browsers)]
    /\ \A b \in Browsers : session[b] # 0 => session[b] \in alive
    /\ \A b, c \in Browsers : b # c /\ session[b] # 0 => session[b] # session[c]
    /\ cookie = [b \in Browsers |-> None]
    /\ pending = [s \in States |-> None]
    /\ issued = {}
    /\ opened = [s \in States |-> 0]
    /\ vouched = {u \in Users : users[u] # None}
    /\ act = [r \in Requests |-> Idle]

-----------------------------------------------------------------------------
(* The state store.                                                         *)

Count(p) == Cardinality({s \in States : p[s] # None})

pruned == [s \in States |-> IF pending[s] # None /\ ~pending[s].live THEN None ELSE pending[s]]

\* A full store is pruned and, if that makes no room, refuses the flow.
issue(s, flow) ==
    /\ s \notin issued
    /\ LET kept == IF Count(pending) >= MaxPending THEN pruned ELSE pending
       IN  IF Count(kept) >= MaxPending
           THEN pending' = kept /\ issued' = issued
           ELSE /\ pending' = [kept EXCEPT ![s] = [flow |-> flow, live |-> TRUE]]
                /\ issued' = issued \cup {s}

\* The record of s is removed, and good if it is not expired.
consumable(s) == pending[s] # None /\ pending[s].live

\* Mutant: the record stays until it expires.
peek(s) == pending' = pending

consume(s) == pending' = [pending EXCEPT ![s] = None]

expire(s) ==
    /\ consumable(s)
    /\ pending' = [pending EXCEPT ![s].live = FALSE]
    /\ UNCHANGED <<users, emailOf, sessionVars, browserVars, issued, opened, vouched, act>>

-----------------------------------------------------------------------------
(* What a browser does.                                                     *)

\* The state is bound to the browser and to the user and session it presents.
beginOAuthFlow(b, s, u, sid) ==
    /\ issue(s, [user |-> u, sid |-> sid])
    /\ cookie' = IF s \in issued' THEN [cookie EXCEPT ![b] = s] ELSE cookie
    /\ UNCHANGED <<users, emailOf, sessionVars, session, opened, vouched, act>>

\* A browser that is not signed in, or no longer, may begin a sign-in.
LoginWithProvider(b, s) ==
    LET u == currentUser(session[b])
    IN  beginOAuthFlow(b, s, u, IF u = None THEN 0 ELSE session[b])

\* The user is the one the authentication middleware found.
LinkAccount(b, s) ==
    /\ Active(session[b])
    /\ beginOAuthFlow(b, s, owner[session[b]], session[b])

\* A callback that fails before it touches a record only loses the cookie.
refuseCallback(b) ==
    /\ cookie[b] # None
    /\ cookie' = [cookie EXCEPT ![b] = None]
    /\ UNCHANGED <<users, emailOf, sessionVars, session, storeVars, vouched, act>>

\* LinkCallback is behind the authentication middleware and compares the flow
\* with its user at once.
owns(b, flow) == flow.user = currentUser(session[b]) /\ flow.sid = session[b]

\* The state in the query matches the browser's cookie, and the record is
\* taken; a repetition sent before the answer still carries the cookie.
takeOAuthState(r, b, kind, i) ==
    /\ act[r].pc = "idle"
    /\ cookie[b] # None
    /\ kind = "link" => Active(session[b])
    /\ LET s == cookie[b]
           sid == session[b]
           flow == pending[s].flow
       IN  /\ consume(s)
           /\ opened' = IF consumable(s) THEN [opened EXCEPT ![s] = @ + 1] ELSE opened
           /\ act' = IF consumable(s) /\ (kind = "link" => owns(b, flow))
                     THEN [act EXCEPT ![r] =
                             [pc |-> IF kind = "link" THEN "link"
                                     ELSE IF flow.user # None THEN "check" ELSE "find",
                              kind |-> kind, browser |-> b, sid |-> sid, flow |-> flow,
                              id |-> i, user |-> None, active |-> FALSE]]
                     ELSE act
    /\ \/ cookie' = [cookie EXCEPT ![b] = None]
       \/ cookie' = cookie
    /\ UNCHANGED <<users, emailOf, sessionVars, session, issued, vouched>>

logout(b) ==
    /\ session[b] # 0
    /\ alive' = alive \ {session[b]}
    /\ session' = [session EXCEPT ![b] = 0]
    /\ UNCHANGED <<users, emailOf, owner, cookie, storeVars, vouched, act>>

-----------------------------------------------------------------------------
(* A callback past its state.                                               *)

goto(r, pc) == act' = [act EXCEPT ![r].pc = pc]
done(r) == act' = [act EXCEPT ![r] = Idle]

\* A failed exchange, or a refusal by the provider.
fail(r) ==
    /\ act[r].pc # "idle"
    /\ done(r)
    /\ UNCHANGED <<users, emailOf, sessionVars, browserVars, storeVars, vouched>>

\* Mutant: the session presented now is not compared with the flow's.
checkUserOnly(r) ==
    /\ act[r].pc = "check"
    /\ goto(r, "link")
    /\ UNCHANGED <<users, emailOf, sessionVars, browserVars, storeVars, vouched>>

\* A flow begun while signed in links only in the session that began it.
checkSession(r) ==
    /\ act[r].pc = "check"
    /\ IF currentUser(act[r].sid) = act[r].flow.user /\ act[r].sid = act[r].flow.sid
       THEN goto(r, "link") ELSE done(r)
    /\ UNCHANGED <<users, emailOf, sessionVars, browserVars, storeVars, vouched>>

\* Linking failed: the sign-in callback goes on as an ordinary sign-in.
linkFailed(r) == IF act[r].kind = "login" THEN goto(r, "find") ELSE done(r)

\* LinkOAuthAccount: is the identity linked already?  (Before that it looks
\* for the user, and may fail to.)
LinkOAuthAccount(r) ==
    /\ act[r].pc = "link"
    /\ LET u == act[r].flow.user
           i == act[r].id
       IN  \/ (LookupsFail \/ Linked(i) = {}) /\ goto(r, "linkWrite")
           \/ LookupsFail /\ linkFailed(r)
           \/ \E found \in Linked(i) : IF found = u THEN done(r) ELSE linkFailed(r)
    /\ UNCHANGED <<users, emailOf, sessionVars, browserVars, storeVars, vouched>>

\* ... the write of the two columns, which no unique index guards.
writeLink(r) ==
    /\ act[r].pc = "linkWrite"
    /\ \/ users' = [users EXCEPT ![act[r].flow.user].subject = act[r].id] /\ done(r)
       \/ users' = users /\ linkFailed(r)
    /\ UNCHANGED <<emailOf, sessionVars, browserVars, storeVars, vouched>>

\* CreateOrUpdateUserFromOAuth: the user of the identity ...
findBySubject(r) ==
    /\ act[r].pc = "find"
    /\ LET i == act[r].id
       IN  \/ (LookupsFail \/ Linked(i) = {}) /\ goto(r, "findEmail")
           \/ \E u \in Linked(i) :
                act' = [act EXCEPT ![r].pc = IF users[u].email = emailOf[i] THEN "start" ELSE "follow",
                                   ![r].user = u, ![r].active = users[u].active]
    /\ UNCHANGED <<users, emailOf, sessionVars, browserVars, storeVars, vouched>>

\* ... whose e-mail address follows the provider's, unless another user has
\* it: the address is unique, and the update fails.
followEmail(r) ==
    /\ act[r].pc = "follow"
    /\ LET e == emailOf[act[r].id]
       IN  IF WithEmail(e) \subseteq {act[r].user}
           THEN users' = [users EXCEPT ![act[r].user].email = e] /\ goto(r, "start")
           ELSE UNCHANGED users /\ done(r)
    /\ UNCHANGED <<emailOf, sessionVars, browserVars, storeVars, vouched>>

\* ... else the user with the e-mail address, else a new user.
findByEmail(r) ==
    /\ act[r].pc = "findEmail"
    /\ LET found == WithEmail(emailOf[act[r].id])
       IN  \/ (LookupsFail \/ found = {}) /\ goto(r, "create")
           \/ \E u \in found :
                act' = [act EXCEPT ![r].pc = "emailWrite", ![r].user = u,
                                   ![r].active = users[u].active]
    /\ UNCHANGED <<users, emailOf, sessionVars, browserVars, storeVars, vouched>>

linkByEmail(r) ==
    /\ act[r].pc = "emailWrite"
    /\ users' = [users EXCEPT ![act[r].user].subject = act[r].id]
    /\ goto(r, "start")
    /\ UNCHANGED <<emailOf, sessionVars, browserVars, storeVars, vouched>>

\* A sign-up that is allowed waits for approval unless auto-activated.  The
\* e-mail address is unique: the second of two sign-ups fails.
create(r) ==
    /\ act[r].pc = "create"
    /\ LET i == act[r].id
       IN  IF WithEmail(emailOf[i]) # {} THEN done(r) /\ users' = users
           ELSE \E u \in Users :
                  /\ users[u] = None
                  /\ users' = [users EXCEPT ![u] = [email |-> emailOf[i], subject |-> i,
                                                    active |-> AutoActivate]]
                  /\ act' = [act EXCEPT ![r].pc = "start", ![r].user = u,
                                        ![r].active = AutoActivate]
    /\ UNCHANGED <<emailOf, sessionVars, browserVars, storeVars, vouched>>

\* Only a user that was active when read gets a session.
startSession(r) ==
    /\ act[r].pc = "start"
    /\ done(r)
    /\ IF act[r].active /\ Len(owner) < MaxSessions
       THEN LET n == Len(owner) + 1
            IN  /\ owner' = Append(owner, act[r].user)
                /\ alive' = alive \cup {n}
                /\ session' = [session EXCEPT ![act[r].browser] = n]
       ELSE UNCHANGED <<sessionVars, session>>
    /\ UNCHANGED <<users, emailOf, cookie, storeVars, vouched>>

-----------------------------------------------------------------------------
(* What others do to the users table.                                       *)

\* The e-mail address of the row is unique, or the Save fails.
save(r, row) ==
    /\ users' = IF WithEmail(row.email) \subseteq {act[r].user}
                THEN [users EXCEPT ![act[r].user] = row] ELSE users
    /\ done(r)
    /\ UNCHANGED <<emailOf, sessionVars, browserVars, storeVars>>

\* UnlinkAccount reads the row ...
UnlinkAccount(r, u) ==
    /\ act[r].pc = "idle"
    /\ users[u] # None
    /\ users[u].subject # None
    /\ act' = [act EXCEPT ![r] = [pc |-> "unlink", user |-> u, row |-> users[u],
                                  enables |-> FALSE]]
    /\ UNCHANGED <<users, emailOf, sessionVars, browserVars, storeVars, vouched>>

\* ... and Saves all of it without the link.
saveUnlinked(r) ==
    /\ act[r].pc = "unlink"
    /\ save(r, [act[r].row EXCEPT !.subject = None])
    /\ UNCHANGED vouched

\* An administrator edits a user: UpdateUser reads the row ...
UpdateUser(r, u) ==
    /\ act[r].pc = "idle"
    /\ users[u] # None
    /\ \E e \in Emails, active \in BOOLEAN :
          act' = [act EXCEPT ![r] = [pc |-> "update", user |-> u,
                                     row |-> [users[u] EXCEPT !.email = e, !.active = active],
                                     enables |-> active /\ ~users[u].active]]
    /\ UNCHANGED <<users, emailOf, sessionVars, browserVars, storeVars, vouched>>

\* ... and Saves all of it, the identity and the status it read included.
saveUpdated(r) ==
    /\ act[r].pc = "update"
    /\ save(r, act[r].row)
    /\ vouched' = IF act[r].enables /\ users'[act[r].user] = act[r].row
                  THEN vouched \cup {act[r].user} ELSE vouched

\* An administrator enables or disables a user.
SetUserStatus(u, active) ==
    /\ users[u] # None
    /\ users[u].active # active
    /\ users' = [users EXCEPT ![u].active = active]
    /\ vouched' = IF active THEN vouched \cup {u} ELSE vouched
    /\ UNCHANGED <<emailOf, sessionVars, browserVars, storeVars, act>>

Next ==
    \/ \E b \in Browsers :
         \/ \E s \in States : LoginWithProvider(b, s) \/ LinkAccount(b, s)
         \/ refuseCallback(b) \/ logout(b)
    \/ \E r \in Requests, b \in Browsers, kind \in {"login", "link"}, i \in Identities :
         takeOAuthState(r, b, kind, i)
    \/ \E r \in Requests :
         \/ fail(r) \/ checkSession(r) \/ LinkOAuthAccount(r) \/ writeLink(r)
         \/ findBySubject(r) \/ followEmail(r) \/ findByEmail(r) \/ linkByEmail(r)
         \/ create(r) \/ startSession(r) \/ saveUnlinked(r) \/ saveUpdated(r)
         \/ \E u \in Users : UnlinkAccount(r, u) \/ UpdateUser(r, u)
    \/ \E u \in Users, active \in BOOLEAN : SetUserStatus(u, active)
    \/ \E s \in States : expire(s)

Spec == Init /\ [][Next]_vars

-----------------------------------------------------------------------------
\* A state lets in one callback, however often the browser repeats it.
StateIsUsedOnce == \A s \in States : opened[s] <= 1

\* Flows begun and not finished do not fill the store beyond its bound.
PendingBounded == Count(pending) <= MaxPending

\* An identity is linked to a user only by the session that began the flow,
\* of that very user, or by the e-mail address the provider vouches for.  (What
\* an administrator's edit read before the user unlinked it is written back with
\* the rest of the row, and is excepted.)
LinkIsAskedFor ==
    [][\A u \in Users :
         users[u] # None /\ users'[u] # None /\ users'[u].subject \notin {users[u].subject, None} =>
            \E r \in Requests :
               \/ /\ act[r].pc = "linkWrite"
                  /\ act[r].sid # 0 /\ act[r].sid = act[r].flow.sid /\ owner[act[r].sid] = u
               \/ act[r].pc = "emailWrite" /\ act[r].user = u
               \/ /\ act[r].pc = "update" /\ act[r].user = u
                  /\ users'[u].subject = act[r].row.subject]_vars

\* models/user.go: a sign-up is "awaiting admin approval": without
\* auto-activation nobody signs in before an administrator let them.
ApprovedOnly == ~AutoActivate => \A n \in alive : owner[n] \in vouched

\* oauth_service.go: "oauth account already linked to another user": an
\* identity belongs to one user.  The check and the write are two statements,
\* and two callbacks may both pass the check.
IdentityHasOneUser == \A i \in Identities : Cardinality(Linked(i)) <= 1
=============================================================================
