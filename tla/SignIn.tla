------------------------------- MODULE SignIn -------------------------------
(***************************************************************************)
(* Signing in to one account with a password: auth_service.go, the handlers *)
(* over it in auth_handler.go, and the in-memory throttle of failed         *)
(* attempts per client address in login_throttle.go.                        *)
(*                                                                         *)
(* A login reads the user row and the lock, spends a long time in bcrypt,   *)
(* and only then counts the failure or stores a session; everything may     *)
(* happen in between.  Time is a counter of the length of the shortest lock. *)
(*                                                                         *)
(* Passwords are numbered in the order the account takes them, and any of   *)
(* them may be tried at any time.  Session tokens are random, so none is    *)
(* issued twice.  Of the users row there is the password; is_active and the *)
(* cache of validated users are in AuthCache, and the counter of failures    *)
(* is for display only.  An admin's edit of the row reads all of it and       *)
(* writes all of it back.                                                   *)
(***************************************************************************)
EXTENDS Naturals, FiniteSets

CONSTANTS IPs,              \* client addresses
          Tokens,           \* session tokens
          Attempts,         \* goroutines in Login
          None,
          MaxFailed,        \* maxFailedLoginAttempts
          Base,             \* baseLockoutDuration
          MaxLock,          \* maxLockoutDuration
          MaxEntries,       \* loginThrottleMaxEntries
          SessionDuration,
          MaxTime,          \* bound on the clock
          MaxPassword,      \* bound on password changes
          MaxFailures       \* bound on failures counted for one address

ASSUME DurationAssumption == 0 < Base /\ Base <= MaxLock

ASSUME ConstantsAssumption ==
    /\ {MaxFailed, Base, MaxLock, MaxEntries, SessionDuration, MaxTime, MaxPassword, MaxFailures}
         \subseteq Nat
    /\ None \notin [failures : Nat, until : Nat, last : Nat]

VARIABLES now,
          entries,   \* loginThrottle.entries of the account, by address
          password,  \* users.password_hash
          sessions,  \* the sessions table: the row of a token, or None
          act,       \* act[a]: the login a is in
          edit,      \* the password in the row an admin's edit has read, or None
          issued,    \* tokens handed out so far
          ended,     \* those whose row was deleted since (history)
          late,      \* those of a login that read the row before a change of
                     \* password and finished after it (history)
          undone,    \* an edit wrote back a password changed since (history)
          streak     \* per address, the failures since the last success with
                     \* no gap longer than MaxLock, and the last one (history)

vars == <<now, entries, password, sessions, act, edit, issued, ended, late, undone, streak>>

Idle == [pc |-> "idle"]
NoFailure == [n |-> 0, last |-> 0]

TypeOK ==
    /\ now \in 0..MaxTime
    /\ entries \in [IPs -> [failures : Nat, until : Nat, last : Nat] \cup {None}]
    /\ password \in 0..MaxPassword
    /\ sessions \in [Tokens -> [signed : 0..MaxPassword, expiry : Nat] \cup {None}]
    /\ act \in [Attempts -> {Idle} \cup [pc : {"verify", "create"}, ip : IPs,
                                         guess : 0..MaxPassword, hash : 0..MaxPassword]]
    /\ edit \in 0..MaxPassword \cup {None}
    /\ undone \in BOOLEAN
    /\ issued \subseteq Tokens
    /\ ended \subseteq issued
    /\ late \subseteq issued
    /\ streak \in [IPs -> [n : Nat, last : Nat]]

Init ==
    /\ now = 0
    /\ entries = [ip \in IPs |-> None]
    /\ password = 0
    /\ sessions = [t \in Tokens |-> None]
    /\ act = [a \in Attempts |-> Idle]
    /\ edit = None /\ undone = FALSE
    /\ issued = {} /\ ended = {} /\ late = {}
    /\ streak = [ip \in IPs |-> NoFailure]

-----------------------------------------------------------------------------
(* The throttle.                                                           *)

\* Base doubled once per failure past the threshold, and capped.
lockoutDuration(failures) ==
    LET over == IF failures > MaxFailed THEN failures - MaxFailed ELSE 0
        d == Base * 2 ^ (IF over > 10 THEN 10 ELSE over)
    IN  IF d > MaxLock THEN MaxLock ELSE d

lockedUntil(ip) == entries[ip] # None /\ entries[ip].until > now

\* Mutant: the sweep forgets failures as soon as the lock is over.
sweepUnlocked ==
    [ip \in IPs |-> IF entries[ip] # None /\ ~lockedUntil(ip) THEN None ELSE entries[ip]]

\* Entries neither locked nor failed for MaxLock are dropped.
sweepLocked ==
    [ip \in IPs |-> IF /\ entries[ip] # None /\ ~lockedUntil(ip)
                       /\ now - entries[ip].last > MaxLock
                    THEN None ELSE entries[ip]]

Tracked == {ip \in IPs : entries[ip] # None}

\* Count a failure of ip.  A new entry sweeps a full map first and is then
\* added whether or not the sweep made room.
recordFailure(ip) ==
    LET old == IF entries[ip] = None /\ Cardinality(Tracked) >= MaxEntries
               THEN sweepLocked ELSE entries
        e == IF old[ip] = None THEN [failures |-> 0, until |-> 0, last |-> now] ELSE old[ip]
        n == e.failures + 1
    IN  /\ entries' = [old EXCEPT ![ip] =
                         [failures |-> n, last |-> now,
                          until |-> IF n >= MaxFailed THEN now + lockoutDuration(n)
                                                      ELSE e.until]]
        /\ streak' = [streak EXCEPT ![ip] =
                         [n |-> IF now - @.last > MaxLock THEN 1 ELSE @.n + 1, last |-> now]]

-----------------------------------------------------------------------------
(* Login.                                                                  *)

\* The row is read; a locked address is turned away before bcrypt.
Login(a, ip, guess) ==
    /\ act[a].pc = "idle"
    /\ ~lockedUntil(ip)
    /\ act' = [act EXCEPT ![a] = [pc |-> "verify", ip |-> ip, guess |-> guess,
                                  hash |-> password]]
    /\ UNCHANGED <<now, entries, password, sessions, issued, ended, late, streak, edit, undone>>

\* The password does not match the hash that was read.
refuse(a) ==
    /\ act[a].pc = "verify"
    /\ act[a].guess # act[a].hash
    /\ streak[act[a].ip].n < MaxFailures
    /\ recordFailure(act[a].ip)
    /\ act' = [act EXCEPT ![a] = Idle]
    /\ UNCHANGED <<now, password, sessions, issued, ended, late, edit, undone>>

\* It matches: the address starts afresh, whatever was recorded meanwhile.
welcome(a) ==
    /\ act[a].pc = "verify"
    /\ act[a].guess = act[a].hash
    /\ act' = [act EXCEPT ![a].pc = "create"]
    /\ entries' = [entries EXCEPT ![act[a].ip] = None]
    /\ streak' = [streak EXCEPT ![act[a].ip] = NoFailure]
    /\ UNCHANGED <<now, password, sessions, issued, ended, late, edit, undone>>

\* The session row; a database error ends the login without one.
createSession(a) ==
    /\ act[a].pc = "create"
    /\ act' = [act EXCEPT ![a] = Idle]
    /\ \/ \E t \in Tokens \ issued :
            /\ sessions' = [sessions EXCEPT ![t] =
                              [signed |-> act[a].hash, expiry |-> now + SessionDuration]]
            /\ issued' = issued \cup {t}
            /\ late' = IF act[a].hash = password THEN late ELSE late \cup {t}
       \/ UNCHANGED <<sessions, issued, late>>
    /\ UNCHANGED <<now, entries, password, ended, streak, edit, undone>>

-----------------------------------------------------------------------------
(* What a client does with a token it was given.                            *)

Valid(t) == sessions[t] # None /\ sessions[t].expiry > now

\* The rows of ts are deleted.
endSessions(ts) ==
    /\ sessions' = [t \in Tokens |-> IF t \in ts THEN None ELSE sessions[t]]
    /\ ended' = ended \cup {t \in ts : sessions[t] # None}

Logout(t) ==
    /\ sessions[t] # None
    /\ endSessions({t})
    /\ UNCHANGED <<now, entries, password, act, issued, late, streak, edit, undone>>

\* Mutant: read the row, set the expiry and Save, which inserts a missing row.
RefreshUpserts(t) ==
    /\ t \in issued
    /\ sessions' = [sessions EXCEPT ![t] =
                      [signed |-> IF @ = None THEN 0 ELSE @.signed,
                       expiry |-> now + SessionDuration]]
    /\ UNCHANGED <<now, entries, password, act, issued, ended, late, streak, edit, undone>>

\* One conditional UPDATE of the row if it is there and not expired.
RefreshSession(t) ==
    /\ Valid(t)
    /\ sessions' = [sessions EXCEPT ![t].expiry = now + SessionDuration]
    /\ UNCHANGED <<now, entries, password, act, issued, ended, late, streak, edit, undone>>

\* One transaction under the lock of the user's row: verify the old password,
\* write the new one, and nothing else of the row, delete every session.
ChangePassword(old) ==
    /\ old = password
    /\ password < MaxPassword
    /\ password' = password + 1
    /\ endSessions(Tokens)
    /\ UNCHANGED <<now, entries, act, issued, late, streak, edit, undone>>

\* An admin's edit of the user, of the role say, reads the row ...
UpdateUser ==
    /\ edit = None
    /\ edit' = password
    /\ UNCHANGED <<now, entries, password, sessions, act, issued, ended, late, undone, streak>>

\* ... and Saves it with the password it read.
save ==
    /\ edit # None
    /\ password' = edit
    /\ edit' = None
    /\ undone' = (undone \/ edit # password)
    /\ UNCHANGED <<now, entries, sessions, act, issued, ended, late, streak>>

\* The cleanup worker deletes the rows past their expiry.
purgeSessions ==
    /\ \E t \in Tokens : sessions[t] # None /\ sessions[t].expiry < now
    /\ endSessions({t \in Tokens : sessions[t] # None /\ sessions[t].expiry < now})
    /\ UNCHANGED <<now, entries, password, act, issued, late, streak, edit, undone>>

\* A new process: the throttle and what was in flight are gone.
restart ==
    /\ entries' = [ip \in IPs |-> None]
    /\ streak' = [ip \in IPs |-> NoFailure]
    /\ act' = [a \in Attempts |-> Idle]
    /\ edit' = None
    /\ UNCHANGED <<now, password, sessions, issued, ended, late, undone>>

tick ==
    /\ now < MaxTime
    /\ now' = now + 1
    /\ UNCHANGED <<entries, password, sessions, act, issued, ended, late, streak, edit, undone>>

-----------------------------------------------------------------------------
Next ==
    \/ \E a \in Attempts :
         \/ \E ip \in IPs, guess \in 0..MaxPassword : Login(a, ip, guess)
         \/ refuse(a) \/ welcome(a) \/ createSession(a)
    \/ \E t \in Tokens : Logout(t) \/ RefreshSession(t)
    \/ \E old \in 0..MaxPassword : ChangePassword(old)
    \/ UpdateUser \/ save \/ purgeSessions \/ restart \/ tick

Spec == Init /\ [][Next]_vars

-----------------------------------------------------------------------------
\* The failures of an address count as long as they follow each other within
\* MaxLock, however many addresses fill the map in between and however many
\* logins run at once; and enough of them keep the address out for Base.
FailuresCount ==
    \A ip \in IPs :
        streak[ip].n > 0 /\ now - streak[ip].last <= MaxLock =>
            /\ entries[ip] # None
            /\ entries[ip].failures >= streak[ip].n
            /\ streak[ip].n >= MaxFailed /\ now < streak[ip].last + Base => lockedUntil(ip)

\* A lock ends by time.  A login of the same address that was let in before
\* the lock and has the password may end it earlier, and a restart; nothing
\* another address does.
LockHolds ==
    [][\A ip \in IPs :
         lockedUntil(ip) /\ ~lockedUntil(ip)' =>
            \/ now' > now
            \/ \E a \in Attempts : act[a].pc = "verify" /\ act[a].ip = ip /\ act'[a].pc = "create"
            \/ \A i \in IPs : entries'[i] = None /\ \A a \in Attempts : act'[a] = Idle]_vars

\* auth_service.go: a refresh must not resurrect "a revoked session".  A token
\* whose row was deleted never signs anyone in again.
EndedStaysOut == \A t \in ended : sessions[t] = None

\* A change of password ends every session the old one opened.  The exceptions
\* are a login that was already past reading the row when the change came, and
\* an edit that was: it brings the old password back.
OldPasswordIsOut ==
    \A t \in Tokens :
        sessions[t] # None => sessions[t].signed = password \/ t \in late \/ undone
=============================================================================
