---------------------------- MODULE SignInProofs ----------------------------
(***************************************************************************)
(* What the ways in promise, for every value of their constants: any number *)
(* of addresses, logins, tokens, browsers, callbacks, requests and bounds.   *)
(* MCSignIn names the components: O is OAuthFlow, R is RateLimiter, C is      *)
(* OAuthSettings.                                                          *)
(***************************************************************************)
EXTENDS MCSignIn, FiniteSetTheorems, TLAPS

-----------------------------------------------------------------------------
(* Signing in with a password (SignIn).                                    *)

Entry == [failures : Nat, until : Nat, last : Nat]
Row == [signed : 0..MaxPassword, expiry : Nat]
Trying == [pc : {"verify", "create"}, ip : IPs, guess : 0..MaxPassword, hash : 0..MaxPassword]

\* Powers of two as far as lockoutDuration takes them.
LEMMA PowersOfTwo == ASSUME NEW k \in 0..10 PROVE 2 ^ k \in Nat /\ 2 ^ k >= 1
<1>1. CASE k = 0
  <2>1. 2 ^ 0 = 1
    OBVIOUS
  <2> QED BY <2>1, <1>1
<1>2. CASE k = 1
  <2>1. 2 ^ 1 = 2
    OBVIOUS
  <2> QED BY <2>1, <1>2
<1>3. CASE k = 2
  <2>1. 2 ^ 2 = 4
    OBVIOUS
  <2> QED BY <2>1, <1>3
<1>4. CASE k = 3
  <2>1. 2 ^ 3 = 8
    OBVIOUS
  <2> QED BY <2>1, <1>4
<1>5. CASE k = 4
  <2>1. 2 ^ 4 = 16
    OBVIOUS
  <2> QED BY <2>1, <1>5
<1>6. CASE k = 5
  <2>1. 2 ^ 5 = 32
    OBVIOUS
  <2> QED BY <2>1, <1>6
<1>7. CASE k = 6
  <2>1. 2 ^ 6 = 64
    OBVIOUS
  <2> QED BY <2>1, <1>7
<1>8. CASE k = 7
  <2>1. 2 ^ 7 = 128
    OBVIOUS
  <2> QED BY <2>1, <1>8
<1>9. CASE k = 8
  <2>1. 2 ^ 8 = 256
    OBVIOUS
  <2> QED BY <2>1, <1>9
<1>10. CASE k = 9
  <2>1. 2 ^ 9 = 512
    OBVIOUS
  <2> QED BY <2>1, <1>10
<1>11. CASE k = 10
  <2>1. 2 ^ 10 = 1024
    OBVIOUS
  <2> QED BY <2>1, <1>11
<1> QED BY <1>1, <1>2, <1>3, <1>4, <1>5, <1>6, <1>7, <1>8, <1>9, <1>10, <1>11

\* A lock lasts at least the base duration, whatever the number of failures.
LEMMA LockoutAtLeastBase ==
    ASSUME NEW n \in Nat
    PROVE  lockoutDuration(n) \in Nat /\ lockoutDuration(n) >= Base
<1> DEFINE over == IF n > MaxFailed THEN n - MaxFailed ELSE 0
           k == IF over > 10 THEN 10 ELSE over
<1>1. MaxFailed \in Nat /\ Base \in Nat /\ MaxLock \in Nat /\ Base <= MaxLock
  BY ConstantsAssumption, DurationAssumption
<1>2. k \in 0..10
  BY <1>1
<1>3. 2 ^ k \in Nat /\ 2 ^ k >= 1
  BY <1>2, PowersOfTwo
<1>4. lockoutDuration(n) = IF Base * 2 ^ k > MaxLock THEN MaxLock ELSE Base * 2 ^ k
  BY DEF lockoutDuration
<1> HIDE DEF over, k
<1>5. Base * 2 ^ k \in Nat /\ Base * 2 ^ k >= Base
  <2> DEFINE d == 2 ^ k
  <2>1. d \in Nat /\ d >= 1
    BY <1>3
  <2> HIDE DEF d
  <2>2. Base * d \in Nat /\ Base * d >= Base
    BY <2>1, <1>1
  <2> QED BY <2>2 DEF d
<1> QED BY <1>1, <1>4, <1>5

-----------------------------------------------------------------------------
\* What the records of the throttle and of the requests have for fields.
LEMMA SignInRecords ==
    ASSUME TypeOK
    PROVE  /\ \A ip \in IPs : entries[ip] # None => entries[ip] \in Entry
           /\ \A t \in Tokens : sessions[t] # None => sessions[t] \in Row
           /\ \A a \in Attempts : act[a].pc # "idle" => act[a] \in Trying
           /\ \A ip \in IPs : streak[ip] \in [n : Nat, last : Nat]
BY DEF TypeOK, Entry, Row, Trying, Idle

\* What recordFailure does to the throttle.
LEMMA RecordFailure ==
    ASSUME TypeOK, NEW ip \in IPs, recordFailure(ip)
    PROVE  /\ entries' \in [IPs -> Entry \cup {None}]
           /\ streak' \in [IPs -> [n : Nat, last : Nat]]
           /\ \A i \in IPs \ {ip} :
                /\ streak'[i] = streak[i]
                /\ \/ entries'[i] = entries[i]
                   \/ ~lockedUntil(i) /\ now - entries[i].last > MaxLock
           /\ entries'[ip] \in Entry
           /\ entries'[ip].failures = IF entries[ip] = None THEN 1 ELSE entries[ip].failures + 1
           /\ entries'[ip].last = now
           /\ entries'[ip].until =
                IF entries'[ip].failures >= MaxFailed
                THEN now + lockoutDuration(entries'[ip].failures)
                ELSE IF entries[ip] = None THEN 0 ELSE entries[ip].until
           /\ streak'[ip] = [n |-> IF now - streak[ip].last > MaxLock THEN 1 ELSE streak[ip].n + 1,
                             last |-> now]
<1> DEFINE old == IF entries[ip] = None /\ Cardinality(Tracked) >= MaxEntries
                  THEN sweepLocked ELSE entries
           e == IF old[ip] = None THEN [failures |-> 0, until |-> 0, last |-> now] ELSE old[ip]
           n == e.failures + 1
           new == [failures |-> n, last |-> now,
                   until |-> IF n >= MaxFailed THEN now + lockoutDuration(n) ELSE e.until]
<1>1. /\ entries' = [old EXCEPT ![ip] = new]
      /\ streak' = [streak EXCEPT ![ip] =
                     [n |-> IF now - @.last > MaxLock THEN 1 ELSE @.n + 1, last |-> now]]
  BY DEF recordFailure
<1>2. /\ old \in [IPs -> Entry \cup {None}]
      /\ old[ip] = entries[ip]
      /\ \A i \in IPs : \/ old[i] = entries[i]
                        \/ ~lockedUntil(i) /\ now - entries[i].last > MaxLock
  BY DEF TypeOK, sweepLocked, Entry
<1> HIDE DEF old
<1>3. /\ e \in Entry
      /\ e.failures = IF entries[ip] = None THEN 0 ELSE entries[ip].failures
      /\ e.until = IF entries[ip] = None THEN 0 ELSE entries[ip].until
  BY <1>2, SignInRecords DEF TypeOK, Entry
<1> HIDE DEF e
<1>4. n \in Nat /\ lockoutDuration(n) \in Nat /\ now \in Nat
  BY <1>3, LockoutAtLeastBase, ConstantsAssumption DEF Entry, TypeOK
<1>5. new \in Entry
  BY <1>3, <1>4 DEF Entry
<1>6. entries'[ip] = new /\ \A i \in IPs \ {ip} : entries'[i] = old[i]
  BY <1>1, <1>2
<1>7. streak'[ip] = [n |-> IF now - streak[ip].last > MaxLock THEN 1 ELSE streak[ip].n + 1,
                     last |-> now]
      /\ \A i \in IPs \ {ip} : streak'[i] = streak[i]
  BY <1>1 DEF TypeOK
<1>8. streak' \in [IPs -> [n : Nat, last : Nat]]
  BY <1>1, <1>4, <1>7 DEF TypeOK
<1>9. entries' \in [IPs -> Entry \cup {None}]
  BY <1>1, <1>2, <1>5
<1> QED BY <1>2, <1>3, <1>5, <1>6, <1>7, <1>8, <1>9

\* Only a token that was issued has a row.
OnlyIssued == \A t \in Tokens : sessions[t] # None => t \in issued

\* SignIn's variables keep their types.
THEOREM SignInTypeCorrect == Spec => [](TypeOK /\ OnlyIssued)
<1>1. Init => TypeOK /\ OnlyIssued
  <2> SUFFICES ASSUME Init PROVE TypeOK /\ OnlyIssued
    OBVIOUS
  <2>1. now \in 0..MaxTime /\ password \in 0..MaxPassword
    BY ConstantsAssumption DEF Init
  <2>2. streak \in [IPs -> [n : Nat, last : Nat]]
    BY DEF Init, NoFailure
  <2>3. act \in [Attempts -> {Idle} \cup Trying]
    BY DEF Init
  <2> QED BY <2>1, <2>2, <2>3 DEF Init, TypeOK, OnlyIssued, Trying
<1>2. TypeOK /\ OnlyIssued /\ [Next]_vars => TypeOK' /\ OnlyIssued'
  <2> SUFFICES ASSUME TypeOK, OnlyIssued, [Next]_vars PROVE TypeOK' /\ OnlyIssued'
    OBVIOUS
  <2> DEFINE Acts == {Idle} \cup Trying
  <2>1. /\ now \in Nat /\ now <= MaxTime /\ password \in 0..MaxPassword
        /\ entries \in [IPs -> Entry \cup {None}]
        /\ sessions \in [Tokens -> Row \cup {None}]
        /\ act \in [Attempts -> Acts]
        /\ edit \in 0..MaxPassword \cup {None}
        /\ undone \in BOOLEAN
        /\ issued \subseteq Tokens /\ ended \subseteq issued /\ late \subseteq issued
        /\ streak \in [IPs -> [n : Nat, last : Nat]]
        /\ \A t \in Tokens : sessions[t] # None => t \in issued
    BY ConstantsAssumption DEF TypeOK, OnlyIssued, Entry, Row, Trying
  <2>2. ASSUME /\ now' \in 0..MaxTime /\ password' \in 0..MaxPassword
               /\ entries' \in [IPs -> Entry \cup {None}]
               /\ sessions' \in [Tokens -> Row \cup {None}]
               /\ act' \in [Attempts -> Acts]
               /\ edit' \in 0..MaxPassword \cup {None}
               /\ undone' \in BOOLEAN
               /\ issued' \subseteq Tokens /\ ended' \subseteq issued' /\ late' \subseteq issued'
               /\ streak' \in [IPs -> [n : Nat, last : Nat]]
               /\ \A t \in Tokens : sessions'[t] # None => t \in issued'
        PROVE  TypeOK' /\ OnlyIssued'
    BY <2>2 DEF TypeOK, OnlyIssued, Entry, Row, Trying, Idle
  <2>3. Idle \in Acts /\ Trying \subseteq Acts /\ NoFailure \in [n : Nat, last : Nat]
    BY DEF NoFailure
  <2>4. \A a \in Attempts : act[a].pc # "idle" => act[a] \in Trying
    BY SignInRecords
  <2>5. now \in 0..MaxTime /\ {MaxTime, MaxPassword, SessionDuration} \subseteq Nat
    BY ConstantsAssumption DEF TypeOK
  <2> HIDE DEF Acts
  <2>6. ASSUME NEW a \in Attempts, NEW ip \in IPs, NEW guess \in 0..MaxPassword, Login(a, ip, guess)
        PROVE  TypeOK' /\ OnlyIssued'
    <3>1. [pc |-> "verify", ip |-> ip, guess |-> guess, hash |-> password] \in Trying
      BY <2>1 DEF Trying
    <3>2. act' \in [Attempts -> Acts]
      BY <3>1, <2>1, <2>3, <2>6 DEF Login
    <3> QED BY <3>2, <2>1, <2>2, <2>5, <2>6 DEF Login
  <2>7. ASSUME NEW a \in Attempts, refuse(a) PROVE TypeOK' /\ OnlyIssued'
    <3>1. act[a].ip \in IPs
      BY <2>4, <2>7 DEF refuse, Trying
    <3>2. recordFailure(act[a].ip)
      BY <2>7 DEF refuse
    <3>3. entries' \in [IPs -> Entry \cup {None}] /\ streak' \in [IPs -> [n : Nat, last : Nat]]
      BY <3>1, <3>2, RecordFailure
    <3>4. act' \in [Attempts -> Acts]
      BY <2>1, <2>3, <2>7 DEF refuse
    <3> QED BY <3>3, <3>4, <2>1, <2>2, <2>5, <2>7 DEF refuse
  <2>8. ASSUME NEW a \in Attempts, welcome(a) PROVE TypeOK' /\ OnlyIssued'
    <3>1. [act[a] EXCEPT !.pc = "create"] \in Trying /\ act[a].ip \in IPs
      BY <2>4, <2>8 DEF welcome, Trying
    <3>2. act' \in [Attempts -> Acts]
      BY <3>1, <2>1, <2>3, <2>8 DEF welcome
    <3> QED BY <3>1, <3>2, <2>1, <2>2, <2>3, <2>5, <2>8 DEF welcome
  <2>9. ASSUME NEW a \in Attempts, createSession(a) PROVE TypeOK' /\ OnlyIssued'
    <3>1. act' \in [Attempts -> Acts]
      BY <2>1, <2>3, <2>9 DEF createSession
    <3>2. [signed |-> act[a].hash, expiry |-> now + SessionDuration] \in Row
      BY <2>1, <2>4, <2>5, <2>9 DEF createSession, Trying, Row
    <3>3. /\ sessions' \in [Tokens -> Row \cup {None}] /\ issued' \subseteq Tokens
          /\ issued \subseteq issued' /\ late' \subseteq issued'
          /\ \A t \in Tokens : sessions'[t] # None => t \in issued'
      BY <3>2, <2>1, <2>9 DEF createSession
    <3> QED BY <3>1, <3>3, <2>1, <2>2, <2>5, <2>9 DEF createSession
  <2>10. ASSUME NEW ts \in SUBSET Tokens, endSessions(ts), UNCHANGED <<now, issued, late>>,
                password' \in 0..MaxPassword, UNCHANGED <<entries, act, streak, edit, undone>>
         PROVE  TypeOK' /\ OnlyIssued'
    <3>1. /\ sessions' \in [Tokens -> Row \cup {None}] /\ ended' \subseteq issued
          /\ \A t \in Tokens : sessions'[t] # None => t \in issued
      BY <2>1, <2>10 DEF endSessions
    <3> QED BY <3>1, <2>1, <2>2, <2>5, <2>10
  <2>11. ASSUME NEW t \in Tokens, Logout(t) PROVE TypeOK' /\ OnlyIssued'
    BY <2>1, <2>10, <2>11 DEF Logout
  <2>12. ASSUME NEW t \in Tokens, RefreshSession(t) PROVE TypeOK' /\ OnlyIssued'
    <3>1. [sessions[t] EXCEPT !.expiry = now + SessionDuration] \in Row
      BY <2>1, <2>5, <2>12 DEF RefreshSession, Valid, Row
    <3>2. /\ sessions' \in [Tokens -> Row \cup {None}]
          /\ \A x \in Tokens : sessions'[x] # None => x \in issued
      BY <3>1, <2>1, <2>12 DEF RefreshSession, Valid
    <3> QED BY <3>2, <2>1, <2>2, <2>5, <2>12 DEF RefreshSession
  <2>13. ASSUME NEW old \in 0..MaxPassword, ChangePassword(old) PROVE TypeOK' /\ OnlyIssued'
    <3>1. password' \in 0..MaxPassword
      BY <2>1, <2>5, <2>13 DEF ChangePassword
    <3> QED BY <3>1, <2>10, <2>13 DEF ChangePassword
  <2>14. ASSUME UpdateUser PROVE TypeOK' /\ OnlyIssued'
    BY <2>1, <2>2, <2>5, <2>14 DEF UpdateUser
  <2>15. ASSUME save PROVE TypeOK' /\ OnlyIssued'
    <3>1. password' \in 0..MaxPassword /\ undone' \in BOOLEAN
      BY <2>1, <2>15 DEF save
    <3> QED BY <3>1, <2>1, <2>2, <2>5, <2>15 DEF save
  <2>16. ASSUME purgeSessions PROVE TypeOK' /\ OnlyIssued'
    BY <2>1, <2>10, <2>16 DEF purgeSessions
  <2>17. ASSUME restart PROVE TypeOK' /\ OnlyIssued'
    BY <2>1, <2>2, <2>3, <2>5, <2>17 DEF restart
  <2>18. ASSUME tick PROVE TypeOK' /\ OnlyIssued'
    <3>1. now' \in 0..MaxTime
      BY <2>1, <2>5, <2>18 DEF tick
    <3> QED BY <3>1, <2>1, <2>2, <2>5, <2>18 DEF tick
  <2>19. CASE UNCHANGED vars
    BY <2>1, <2>2, <2>5, <2>19 DEF vars
  <2> QED
    BY <2>6, <2>7, <2>8, <2>9, <2>11, <2>12, <2>13, <2>14, <2>15, <2>16, <2>17, <2>18, <2>19
      DEF Next
<1> QED BY <1>1, <1>2, PTL DEF Spec

\* While the failures of an address count, it has an entry that counted them
\* all, with the time of the last one, and a lock of Base at least when they are
\* too many.  (FailuresCount with the time of the last failure, by which the
\* sweep goes.)
Counted ==
    \A ip \in IPs :
        streak[ip].n > 0 /\ now - streak[ip].last <= MaxLock =>
            /\ entries[ip] # None
            /\ entries[ip].failures >= streak[ip].n
            /\ entries[ip].last = streak[ip].last
            /\ entries[ip].failures >= MaxFailed => entries[ip].until >= streak[ip].last + Base

\* However many addresses fill the map and however many logins run at once, the
\* failures of an address count, and enough of them lock it out.
THEOREM ThrottleCounts == Spec => []FailuresCount
<1>1. Init => Counted
  BY DEF Init, Counted, NoFailure
<1>2. TypeOK /\ TypeOK' /\ Counted /\ [Next]_vars => Counted'
  <2> SUFFICES ASSUME TypeOK, TypeOK', Counted, [Next]_vars,
                      NEW ip \in IPs, streak'[ip].n > 0, now' - streak'[ip].last <= MaxLock
               PROVE  /\ entries'[ip] # None
                      /\ entries'[ip].failures >= streak'[ip].n
                      /\ entries'[ip].last = streak'[ip].last
                      /\ entries'[ip].failures >= MaxFailed =>
                           entries'[ip].until >= streak'[ip].last + Base
    BY DEF Counted
  <2>1. /\ now \in Nat /\ {MaxLock, MaxFailed, Base} \subseteq Nat /\ None \notin Entry
        /\ streak[ip] \in [n : Nat, last : Nat] /\ streak'[ip] \in [n : Nat, last : Nat]
        /\ entries[ip] # None => entries[ip] \in Entry
    BY ConstantsAssumption, SignInRecords DEF TypeOK, Entry
  <2>2. CASE UNCHANGED <<entries, streak>> /\ now' \in {now, now + 1}
    BY <2>1, <2>2 DEF Counted
  <2>3. ASSUME NEW a \in Attempts, refuse(a), act[a].ip = ip
        PROVE  /\ entries'[ip] # None
               /\ entries'[ip].failures >= streak'[ip].n
               /\ entries'[ip].last = streak'[ip].last
               /\ entries'[ip].failures >= MaxFailed =>
                    entries'[ip].until >= streak'[ip].last + Base
    <3>1. recordFailure(ip) /\ now' = now
      BY <2>3 DEF refuse
    <3>2. /\ entries'[ip] \in Entry
          /\ entries'[ip].failures = IF entries[ip] = None THEN 1 ELSE entries[ip].failures + 1
          /\ entries'[ip].last = now
          /\ entries'[ip].failures >= MaxFailed =>
               entries'[ip].until = now + lockoutDuration(entries'[ip].failures)
          /\ streak'[ip] = [n |-> IF now - streak[ip].last > MaxLock THEN 1 ELSE streak[ip].n + 1,
                            last |-> now]
      BY <3>1, RecordFailure
    <3>3. /\ lockoutDuration(entries'[ip].failures) \in Nat
          /\ lockoutDuration(entries'[ip].failures) >= Base
      BY <3>2, LockoutAtLeastBase DEF Entry
    <3>4. entries'[ip].failures >= streak'[ip].n
      BY <3>2, <2>1 DEF Counted, Entry
    <3> QED BY <3>2, <3>3, <3>4, <2>1
  <2>4. ASSUME NEW a \in Attempts, refuse(a), act[a].ip # ip
        PROVE  entries'[ip] = entries[ip] /\ streak'[ip] = streak[ip] /\ now' = now
    <3>1. act[a].ip \in IPs
      BY <2>4, SignInRecords DEF refuse, Trying
    <3>2. recordFailure(act[a].ip) /\ now' = now
      BY <2>4 DEF refuse
    <3>3. /\ streak'[ip] = streak[ip]
          /\ \/ entries'[ip] = entries[ip]
             \/ ~lockedUntil(ip) /\ now - entries[ip].last > MaxLock
      BY <3>1, <3>2, <2>4, RecordFailure
    <3> QED BY <3>2, <3>3, <2>1 DEF Counted
  <2>5. ASSUME NEW a \in Attempts, welcome(a)
        PROVE  entries'[ip] = entries[ip] /\ streak'[ip] = streak[ip] /\ now' = now
    <3>1. act[a].ip \in IPs
      BY <2>5, SignInRecords DEF welcome, Trying
    <3>2. act[a].ip # ip
      BY <3>1, <2>5 DEF welcome, NoFailure, TypeOK
    <3> QED BY <3>1, <3>2, <2>5 DEF welcome, TypeOK
  <2>6. CASE entries'[ip] = entries[ip] /\ streak'[ip] = streak[ip] /\ now' = now
    BY <2>1, <2>6 DEF Counted
  <2>7. ~restart
    BY DEF restart, NoFailure
  <2>8. \/ \E a \in Attempts : refuse(a) \/ welcome(a)
        \/ UNCHANGED <<entries, streak>> /\ now' \in {now, now + 1}
    BY <2>7 DEF Next, Login, createSession, Logout, RefreshSession, ChangePassword, UpdateUser,
                save, purgeSessions, tick, vars
  <2> QED BY <2>2, <2>3, <2>4, <2>5, <2>6, <2>8
<1>3. TypeOK /\ Counted => FailuresCount
  <2> SUFFICES ASSUME TypeOK, Counted, NEW ip \in IPs, streak[ip].n > 0,
                      now - streak[ip].last <= MaxLock
               PROVE  /\ entries[ip] # None
                      /\ entries[ip].failures >= streak[ip].n
                      /\ streak[ip].n >= MaxFailed /\ now < streak[ip].last + Base => lockedUntil(ip)
    BY DEF FailuresCount
  <2>1. /\ now \in Nat /\ MaxFailed \in Nat /\ Base \in Nat
        /\ streak[ip] \in [n : Nat, last : Nat]
        /\ entries[ip] \in Entry /\ entries[ip] # None
    BY ConstantsAssumption, SignInRecords DEF TypeOK, Counted
  <2> QED BY <2>1 DEF Counted, lockedUntil, Entry
<1> QED BY <1>1, <1>2, <1>3, SignInTypeCorrect, PTL DEF Spec

\* A locked address is set free by time, by a restart, which empties the throttle,
\* and by a login of that address that was let in before the lock and has the right
\* password: its success deletes the entry.  Nothing else does.
THEOREM LocksHold == Spec => LockHolds
<1>1. TypeOK /\ [Next]_vars =>
        [\A ip \in IPs :
           lockedUntil(ip) /\ ~lockedUntil(ip)' =>
              \/ now' > now
              \/ \E a \in Attempts : act[a].pc = "verify" /\ act[a].ip = ip /\ act'[a].pc = "create"
              \/ \A i \in IPs : entries'[i] = None /\ \A a \in Attempts : act'[a] = Idle]_vars
  <2> SUFFICES ASSUME TypeOK, Next, NEW ip \in IPs, lockedUntil(ip), ~lockedUntil(ip)'
               PROVE  \/ now' > now
                      \/ \E a \in Attempts :
                           act[a].pc = "verify" /\ act[a].ip = ip /\ act'[a].pc = "create"
                      \/ \A i \in IPs : entries'[i] = None /\ \A a \in Attempts : act'[a] = Idle
    OBVIOUS
  <2>1. /\ now \in Nat /\ {MaxFailed, Base} \subseteq Nat /\ 0 < Base /\ None \notin Entry
        /\ entries[ip] \in Entry
    BY ConstantsAssumption, DurationAssumption, SignInRecords DEF TypeOK, Entry, lockedUntil
  <2>2. ASSUME NEW a \in Attempts, refuse(a) PROVE FALSE
    <3>1. act[a].ip \in IPs /\ recordFailure(act[a].ip) /\ now' = now
      BY <2>2, SignInRecords DEF refuse, Trying
    <3>2. CASE act[a].ip = ip
      <4>1. /\ entries'[ip] \in Entry
            /\ entries'[ip].until = IF entries'[ip].failures >= MaxFailed
                                    THEN now + lockoutDuration(entries'[ip].failures)
                                    ELSE entries[ip].until
        BY <3>1, <3>2, <2>1, RecordFailure
      <4>2. /\ lockoutDuration(entries'[ip].failures) \in Nat
            /\ lockoutDuration(entries'[ip].failures) >= Base
        BY <4>1, LockoutAtLeastBase DEF Entry
      <4> QED BY <4>1, <4>2, <3>1, <2>1 DEF lockedUntil, Entry
    <3>3. CASE act[a].ip # ip
      <4>1. entries'[ip] = entries[ip] \/ ~lockedUntil(ip)
        BY <3>1, <3>3, RecordFailure
      <4> QED BY <4>1, <3>1 DEF lockedUntil
    <3> QED BY <3>2, <3>3
  <2>3. ASSUME NEW a \in Attempts, welcome(a)
        PROVE  act[a].pc = "verify" /\ act[a].ip = ip /\ act'[a].pc = "create"
    <3>1. act[a] \in Trying /\ act' = [act EXCEPT ![a].pc = "create"]
      BY <2>3, SignInRecords DEF welcome
    <3>2. act'[a].pc = "create"
      BY <3>1 DEF TypeOK, Trying
    <3>3. act[a].ip # ip => entries'[ip] = entries[ip] /\ now' = now
      BY <3>1, <2>3 DEF welcome, Trying, TypeOK
    <3> QED BY <3>2, <3>3, <2>3 DEF welcome, lockedUntil
  <2>4. ASSUME restart PROVE \A i \in IPs : entries'[i] = None /\ \A a \in Attempts : act'[a] = Idle
    BY <2>4 DEF restart
  <2>5. ASSUME tick PROVE now' > now
    BY <2>1, <2>5 DEF tick
  <2>6. ~(UNCHANGED <<entries, now>>)
    BY DEF lockedUntil
  <2>7. restart \/ tick \/ \E a \in Attempts : refuse(a) \/ welcome(a)
    BY <2>6 DEF Next, Login, createSession, Logout, RefreshSession, ChangePassword, UpdateUser,
                save, purgeSessions
  <2> QED BY <2>2, <2>3, <2>4, <2>5, <2>7
<1> QED BY <1>1, SignInTypeCorrect, PTL DEF Spec, LockHolds

\* A deleted row stays deleted, and a change of password leaves only sessions of
\* logins and edits that overlapped it.
THEOREM SessionsEndForGood == Spec => []SessionsEnd
<1>1. Init => SessionsEnd
  BY DEF Init, SessionsEnd, EndedStaysOut, OldPasswordIsOut
<1>2. TypeOK /\ OnlyIssued /\ SessionsEnd /\ [Next]_vars => SessionsEnd'
  <2> SUFFICES ASSUME TypeOK, OnlyIssued, SessionsEnd, [Next]_vars PROVE SessionsEnd'
    OBVIOUS
  <2>1. /\ sessions \in [Tokens -> Row \cup {None}] /\ issued \subseteq Tokens
        /\ ended \subseteq issued /\ late \subseteq issued
        /\ \A t \in Tokens : sessions[t] # None => t \in issued
        /\ \A t \in ended : sessions[t] = None
        /\ \A t \in Tokens : sessions[t] # None => \/ sessions[t].signed = password
                                                   \/ t \in late \/ undone
    BY DEF TypeOK, OnlyIssued, SessionsEnd, EndedStaysOut, OldPasswordIsOut, Row
  <2>2. ASSUME /\ \A t \in ended' : sessions'[t] = None
               /\ \A t \in Tokens : sessions'[t] # None => \/ sessions'[t].signed = password'
                                                           \/ t \in late' \/ undone'
        PROVE  SessionsEnd'
    BY <2>2 DEF SessionsEnd, EndedStaysOut, OldPasswordIsOut
  <2>3. ASSUME NEW a \in Attempts, createSession(a) PROVE SessionsEnd'
    BY <2>1, <2>2, <2>3 DEF createSession
  <2>4. ASSUME NEW ts \in SUBSET Tokens, endSessions(ts), UNCHANGED <<late, undone>>,
               password' = password \/ ts = Tokens
        PROVE  SessionsEnd'
    BY <2>1, <2>2, <2>4 DEF endSessions
  <2>5. ASSUME NEW t \in Tokens, Logout(t) PROVE SessionsEnd'
    BY <2>4, <2>5 DEF Logout
  <2>6. ASSUME NEW t \in Tokens, RefreshSession(t) PROVE SessionsEnd'
    <3>1. sessions'[t].signed = sessions[t].signed /\ sessions[t] # None
      BY <2>1, <2>6 DEF RefreshSession, Valid, Row
    <3>2. \A x \in Tokens \ {t} : sessions'[x] = sessions[x]
      BY <2>1, <2>6 DEF RefreshSession
    <3> QED BY <3>1, <3>2, <2>1, <2>2, <2>6 DEF RefreshSession
  <2>7. ASSUME NEW old \in 0..MaxPassword, ChangePassword(old) PROVE SessionsEnd'
    BY <2>4, <2>7 DEF ChangePassword
  <2>8. ASSUME save PROVE SessionsEnd'
    BY <2>1, <2>2, <2>8 DEF save
  <2>9. ASSUME purgeSessions PROVE SessionsEnd'
    BY <2>4, <2>9 DEF purgeSessions
  <2>10. CASE UNCHANGED <<sessions, ended, password, late, undone>>
    BY <2>1, <2>2, <2>10
  <2> QED BY <2>3, <2>5, <2>6, <2>7, <2>8, <2>9, <2>10
      DEF Next, Login, refuse, welcome, UpdateUser, restart, tick, vars
<1> QED BY <1>1, <1>2, SignInTypeCorrect, PTL DEF Spec

-----------------------------------------------------------------------------
(* The states of the OAuth flow (OAuthFlow).                               *)

\* A state in the store was issued and has let in no callback yet; one that was
\* not issued has not either.
StoreInv ==
    /\ pending = [s \in States |-> pending[s]]
    /\ opened \in [States -> {0, 1}]
    /\ cookie \in [Browsers -> States \cup {None}]
    /\ \A s \in States : pending[s] # None \/ s \notin states => opened[s] = 0
    /\ \A s \in States : pending[s] # None => s \in states
    /\ O!Count(pending) <= MaxPending

\* The Count of OAuthFlow is the cardinality this module knows facts about.
LEMMA CountIsCardinality ==
    ASSUME NEW p
    PROVE  O!Count(p) = Cardinality({s \in States : p[s] # None})
<1>1. \A S : O!Cardinality(S) = Cardinality(S)
  BY DEF O!Cardinality, Cardinality
<1> QED BY <1>1 DEF O!Count

\* A store with fewer states pending counts no more of them.
LEMMA FewerPending ==
    ASSUME NEW p, NEW q, \A s \in States : p[s] # None => q[s] # None
    PROVE  O!Count(p) \in Nat /\ O!Count(q) \in Nat /\ O!Count(p) <= O!Count(q)
<1>1. /\ {s \in States : p[s] # None} \subseteq {s \in States : q[s] # None}
      /\ {s \in States : q[s] # None} \subseteq States
  OBVIOUS
<1>2. IsFiniteSet({s \in States : q[s] # None})
  BY <1>1, FS_Subset, StoreAssumption
<1> QED BY <1>1, <1>2, FS_Subset, FS_CardinalityType, CountIsCardinality

\* A state that is added counts one at most.
LEMMA OneMorePending ==
    ASSUME NEW p, NEW q, NEW x \in States,
           \A s \in States \ {x} : p[s] # None => q[s] # None
    PROVE  O!Count(p) \in Nat /\ O!Count(q) \in Nat /\ O!Count(p) <= O!Count(q) + 1
<1> DEFINE P == {s \in States : p[s] # None}
           Q == {s \in States : q[s] # None}
<1>1. P \subseteq Q \cup {x} /\ Q \subseteq States
  OBVIOUS
<1>2. IsFiniteSet(Q) /\ IsFiniteSet(Q \cup {x})
  BY <1>1, FS_Subset, FS_AddElement, StoreAssumption
<1>3. Cardinality(Q \cup {x}) <= Cardinality(Q) + 1
  BY <1>2, FS_AddElement, FS_CardinalityType
<1>4. Cardinality(P) \in Nat /\ Cardinality(P) <= Cardinality(Q \cup {x})
  BY <1>1, <1>2, FS_Subset, FS_CardinalityType
<1> QED BY <1>2, <1>3, <1>4, FS_CardinalityType, CountIsCardinality

\* A state lets in one callback, and their number is bounded, for any number of
\* browsers, callbacks and users.
THEOREM StatesAreUsedOnce ==
    O!Spec => []StatesHold
<1> USE StoreAssumption
<1>1. O!Init => StoreInv
  <2> SUFFICES ASSUME O!Init PROVE StoreInv
    OBVIOUS
  <2>1. {s \in States : pending[s] # None} = {}
    BY DEF O!Init
  <2>2. O!Count(pending) = 0
    BY <2>1, FS_EmptySet, CountIsCardinality
  <2> QED BY <2>2 DEF O!Init, StoreInv
<1>2. StoreInv /\ [O!Next]_(O!vars) => StoreInv'
  <2> SUFFICES ASSUME StoreInv, [O!Next]_(O!vars) PROVE StoreInv'
    OBVIOUS
  <2>1. ASSUME /\ pending' = [s \in States |-> pending'[s]]
               /\ \A s \in States : pending'[s] # None => pending[s] # None
               /\ UNCHANGED <<states, opened>>
               /\ cookie' \in [Browsers -> States \cup {None}]
        PROVE  StoreInv'
    <3>1. O!Count(pending') <= O!Count(pending) /\ O!Count(pending') \in Nat
          /\ O!Count(pending) \in Nat
      BY <2>1, FewerPending
    <3>2. O!Count(pending)' <= MaxPending
      BY <3>1 DEF StoreInv, O!Count
    <3> QED BY <2>1, <3>2 DEF StoreInv
  <2>2. ASSUME NEW b \in Browsers, NEW s \in States, NEW u, NEW sid, O!beginOAuthFlow(b, s, u, sid)
        PROVE  StoreInv'
    <3> DEFINE kept == IF O!Count(pending) >= MaxPending THEN O!pruned ELSE pending
               record == [flow |-> [user |-> u, sid |-> sid], live |-> TRUE]
    <3>1. /\ kept = [x \in States |-> kept[x]]
          /\ \A x \in States : kept[x] # None => pending[x] # None
      BY DEF StoreInv, O!pruned
    <3>2. CASE O!Count(kept) >= MaxPending
      <4>1. pending' = kept /\ states' = states /\ UNCHANGED opened
        BY <2>2, <3>2 DEF O!beginOAuthFlow, O!issue
      <4>2. cookie' \in [Browsers -> States \cup {None}]
        BY <2>2 DEF O!beginOAuthFlow, StoreInv
      <4> QED BY <3>1, <4>1, <4>2, <2>1
    <3>3. CASE ~(O!Count(kept) >= MaxPending)
      <4>1. /\ pending' = [kept EXCEPT ![s] = record] /\ states' = states \cup {s}
            /\ s \notin states /\ UNCHANGED opened
        BY <2>2, <3>3 DEF O!beginOAuthFlow, O!issue
      <4>2. cookie' \in [Browsers -> States \cup {None}]
        BY <2>2 DEF O!beginOAuthFlow, StoreInv
      <4> HIDE DEF kept, record
      <4>3. /\ pending' = [x \in States |-> pending'[x]]
            /\ \A x \in States \ {s} : pending'[x] # None => kept[x] # None
        BY <3>1, <4>1
      <4>4. O!Count(pending') <= O!Count(kept) + 1 /\ O!Count(pending') \in Nat
            /\ O!Count(kept) \in Nat
        BY <4>3, OneMorePending
      <4>5. O!Count(pending)' <= MaxPending
        BY <4>4, <3>3 DEF O!Count
      <4> QED BY <4>1, <4>2, <4>3, <4>5, <3>1 DEF StoreInv
    <3> QED BY <3>2, <3>3
  <2>3. ASSUME NEW b \in Browsers, NEW s \in States, O!LoginWithProvider(b, s) PROVE StoreInv'
    BY <2>2, <2>3 DEF O!LoginWithProvider
  <2>4. ASSUME NEW b \in Browsers, NEW s \in States, O!LinkAccount(b, s) PROVE StoreInv'
    BY <2>2, <2>4 DEF O!LinkAccount
  <2>5. ASSUME NEW b \in Browsers, O!refuseCallback(b) PROVE StoreInv'
    BY <2>1, <2>5 DEF O!refuseCallback, O!storeVars, StoreInv
  <2>6. ASSUME NEW r \in Requests, NEW b \in Browsers, NEW kind, NEW i,
               O!takeOAuthState(r, b, kind, i)
        PROVE  StoreInv'
    <3> DEFINE s == cookie[b]
    <3>1. s \in States
      BY <2>6 DEF O!takeOAuthState, StoreInv
    <3>2. /\ pending' = [pending EXCEPT ![s] = None]
          /\ opened' = IF O!consumable(s) THEN [opened EXCEPT ![s] = @ + 1] ELSE opened
          /\ states' = states
          /\ cookie' = [cookie EXCEPT ![b] = None] \/ cookie' = cookie
      BY <2>6 DEF O!takeOAuthState, O!consume
    <3>3. cookie' \in [Browsers -> States \cup {None}]
      BY <3>2 DEF StoreInv
    <3> HIDE DEF s
    <3>4. /\ pending' = [x \in States |-> pending'[x]]
          /\ \A x \in States : pending'[x] # None => pending[x] # None
          /\ pending'[s] = None
      BY <3>1, <3>2 DEF StoreInv
    <3>5. CASE ~O!consumable(s)
      BY <3>2, <3>3, <3>4, <3>5, <2>1
    <3>6. CASE O!consumable(s)
      <4>1. opened[s] = 0 /\ s \in states
        BY <3>1, <3>6 DEF StoreInv, O!consumable
      <4>2. /\ opened' \in [States -> {0, 1}]
            /\ \A x \in States : pending'[x] # None \/ x \notin states => opened'[x] = 0
        BY <3>1, <3>2, <3>4, <3>6, <4>1 DEF StoreInv
      <4>3. O!Count(pending') <= O!Count(pending) /\ O!Count(pending') \in Nat
            /\ O!Count(pending) \in Nat
        BY <3>4, FewerPending
      <4>4. O!Count(pending)' <= MaxPending
        BY <4>3 DEF StoreInv, O!Count
      <4> QED BY <3>2, <3>3, <3>4, <4>2, <4>4 DEF StoreInv
    <3> QED BY <3>5, <3>6
  <2>7. ASSUME NEW s \in States, O!expire(s) PROVE StoreInv'
    BY <2>1, <2>7 DEF O!expire, O!consumable, O!browserVars, StoreInv
  <2>8. CASE UNCHANGED <<O!storeVars, cookie>>
    BY <2>1, <2>8 DEF O!storeVars, StoreInv
  <2> QED
    BY <2>3, <2>4, <2>5, <2>6, <2>7, <2>8
    DEF O!Next, O!vars, O!logout, O!fail, O!checkSession, O!LinkOAuthAccount, O!writeLink,
        O!findBySubject, O!followEmail, O!findByEmail, O!linkByEmail, O!create, O!startSession,
        O!save, O!saveUnlinked, O!UnlinkAccount, O!saveUpdated, O!UpdateUser, O!SetUserStatus,
        O!linkFailed, O!browserVars, O!storeVars
<1>3. StoreInv => StatesHold
  BY DEF StoreInv, StatesHold, O!StateIsUsedOnce, O!PendingBounded
<1> QED BY <1>1, <1>2, <1>3, PTL DEF O!Spec

-----------------------------------------------------------------------------
(* The users of the OAuth flow (OAuthFlow).                                *)

\* The locals of a request of OAuthFlow.
Callback == {O!Idle} \cup O!Callbacks \cup O!Saves

\* The steps of a callback at which it has read a user's row.
Reads == {"follow", "emailWrite", "start"}

\* What a request with locals v has in hand fits the users, the owners of sessions and
\* who was let in: a row it read is still there, and a link follows from its session.
InHand(v, us, ow, vo) ==
    /\ v.pc \in Reads => v.user \in Users /\ us[v.user] # None
    /\ v.pc \in Reads /\ v.active /\ ~AutoActivate => v.user \in vo
    /\ v.pc \in {"unlink", "update"} => us[v.user] # None
    /\ v.pc \in {"unlink", "update"} /\ v.row.active /\ ~v.enables /\ ~AutoActivate => v.user \in vo
    /\ v.pc = "unlink" => ~v.enables
    /\ v.pc = "check" => v.flow.user # None
    /\ v.pc \in {"link", "linkWrite"} =>
          v.sid \in DOMAIN ow /\ v.sid = v.flow.sid /\ ow[v.sid] = v.flow.user

\* Who has a session exists, and who has one or may get one was let in.
UsersKnown ==
    /\ \A n \in DOMAIN owner : users[owner[n]] # None
    /\ ~AutoActivate => /\ \A n \in alive : owner[n] \in vouched
                        /\ \A u \in Users : users[u] # None /\ users[u].active => u \in vouched

\* What makes OnlyApprovedSignIn and LinksAreAskedFor inductive.
OAuthInv ==
    /\ O!TypeOK
    /\ UsersKnown
    /\ \A r \in Requests : InHand(callbacks[r], users, owner, vouched)

\* The locals by the step they are at.
LEMMA LocalsAt ==
    ASSUME NEW v \in Callback
    PROVE  /\ v.pc = "idle" => v = O!Idle
           /\ v.pc \in {"unlink", "update"} => v \in O!Saves
           /\ v.pc \notin {"idle", "unlink", "update"} => v \in O!Callbacks
BY DEF Callback, O!Saves, O!Idle, O!Callbacks

\* Sessions are a sequence of their users.
LEMMA OwnersAreASequence ==
    ASSUME NEW ow
    PROVE  ow \in UNION {[1..n -> Users] : n \in 0..MaxSessions} <=>
              ow \in Seq(Users) /\ Len(ow) <= MaxSessions
<1>1. ASSUME ow \in UNION {[1..n -> Users] : n \in 0..MaxSessions}
      PROVE  ow \in Seq(Users) /\ Len(ow) <= MaxSessions
  <2>1. PICK n \in 0..MaxSessions : ow \in [1..n -> Users]
    BY <1>1
  <2> QED BY <2>1, AccountsAssumption
<1>2. ASSUME ow \in Seq(Users), Len(ow) <= MaxSessions
      PROVE  ow \in UNION {[1..n -> Users] : n \in 0..MaxSessions}
  <2>1. ow \in [1..Len(ow) -> Users] /\ Len(ow) \in 0..MaxSessions
    BY <1>2, AccountsAssumption
  <2> QED BY <2>1
<1> QED BY <1>1, <1>2

\* Initially nothing is under way and every user was made by an administrator.
LEMMA InitOAuth == O!Init => OAuthInv
<1> SUFFICES ASSUME O!Init PROVE OAuthInv
  OBVIOUS
<1>1. O!Cardinality(Browsers) = Cardinality(Browsers)
  BY DEF O!Cardinality, Cardinality
<1>2. Cardinality(Browsers) \in Nat /\ Cardinality(Browsers) <= MaxSessions /\ MaxSessions \in Nat
  BY AccountsAssumption, FS_CardinalityType
<1>3. PICK n \in 0..Cardinality(Browsers) : owner \in [1..n -> {u \in Users : users[u] # None}]
  BY <1>1 DEF O!Init
<1>4. /\ owner \in [1..n -> Users] /\ n \in 0..MaxSessions /\ DOMAIN owner = 1..n
      /\ \A k \in 1..n : users[owner[k]] # None
  BY <1>2, <1>3
<1>5. users \in [Users -> O!Rows \cup {None}]
  BY DEF O!Init, O!Rows
<1>6. session \in [Browsers -> 0..MaxSessions]
  BY <1>1, <1>2 DEF O!Init
<1>7. O!TypeOK
  BY <1>4, <1>5, <1>6 DEF O!Init, O!TypeOK, Callback
<1>8. UsersKnown
  BY <1>4 DEF O!Init, UsersKnown
<1>9. \A r \in Requests : InHand(callbacks[r], users, owner, vouched)
  BY DEF O!Init, O!Idle, InHand, Reads
<1> QED BY <1>7, <1>8, <1>9 DEF OAuthInv

\* A step of one request that leaves sessions, store and browsers alone.
LEMMA RequestStep ==
    ASSUME OAuthInv, NEW r \in Requests, NEW v \in Callback,
           callbacks' = [callbacks EXCEPT ![r] = v],
           users' \in [Users -> O!Rows \cup {None}],
           \A u \in Users : users[u] # None => users'[u] # None,
           \A u \in Users : ~AutoActivate /\ users'[u] # None /\ users'[u].active => u \in vouched,
           InHand(v, users', owner, vouched),
           UNCHANGED <<emailOf, owner, alive, session, cookie, pending,
                       states, opened, vouched>>
    PROVE  OAuthInv'
<1>1. O!TypeOK'
  BY DEF OAuthInv, O!TypeOK, Callback, O!Saves
<1>2. owner \in Seq(Users) /\ alive \subseteq DOMAIN owner
  BY OwnersAreASequence DEF OAuthInv, O!TypeOK
<1>3. UsersKnown'
  BY <1>2 DEF OAuthInv, UsersKnown
<1>4. ASSUME NEW q \in Requests PROVE InHand(callbacks[q], users, owner, vouched)'
  <2>1. CASE q = r
    BY <2>1 DEF OAuthInv, O!TypeOK, InHand
  <2>2. CASE q # r
    <3>1. callbacks'[q] = callbacks[q] /\ InHand(callbacks[q], users, owner, vouched)
      BY <2>2 DEF OAuthInv
    <3>2. callbacks[q] \in Callback
      BY DEF OAuthInv, O!TypeOK, Callback
    <3>3. callbacks[q].pc \in {"unlink", "update"} => callbacks[q].user \in Users
      BY <3>2, LocalsAt DEF O!Saves
    <3> QED BY <3>1, <3>3 DEF InHand
  <2> QED BY <2>1, <2>2
<1> QED BY <1>1, <1>3, <1>4 DEF OAuthInv

\* A step of a browser or the store that leaves users and sessions alone.
LEMMA StoreStep ==
    ASSUME OAuthInv,
           \A r \in Requests :
              callbacks'[r] = callbacks[r] \/ InHand(callbacks'[r], users, owner, vouched),
           callbacks' \in [Requests -> Callback],
           session' \in [Browsers -> 0..MaxSessions], cookie' \in [Browsers -> States \cup {None}],
           pending' \in [States -> [flow : O!Flows, live : BOOLEAN] \cup {None}],
           states' \subseteq States, opened' \in [States -> Nat], alive' \subseteq alive,
           UNCHANGED <<users, emailOf, owner, vouched>>
    PROVE  OAuthInv'
<1>1. O!TypeOK'
  BY DEF OAuthInv, O!TypeOK, Callback, O!Saves
<1>2. UsersKnown'
  BY DEF OAuthInv, UsersKnown
<1>3. ASSUME NEW q \in Requests PROVE InHand(callbacks[q], users, owner, vouched)'
  BY DEF OAuthInv
<1> QED BY <1>1, <1>2, <1>3 DEF OAuthInv

\* What a callback has read of its record, session and user has its type.
LEMMA CallbackTypes ==
    ASSUME OAuthInv, NEW r \in Requests, callbacks[r].pc \notin {"idle", "unlink", "update"}
    PROVE  /\ callbacks[r] \in O!Callbacks
           /\ callbacks[r].id \in Identities /\ callbacks[r].user \in Users \cup {None}
           /\ callbacks[r].flow \in O!Flows /\ callbacks[r].active \in BOOLEAN
           /\ callbacks[r].kind \in {"login", "link"}
BY LocalsAt DEF OAuthInv, O!TypeOK, O!Callbacks, Callback, O!Saves

\* A callback that ends knows nothing any more.
LEMMA Ending ==
    ASSUME OAuthInv, NEW r \in Requests,
           callbacks' = [callbacks EXCEPT ![r] = O!Idle],
           users' \in [Users -> O!Rows \cup {None}],
           \A u \in Users : users[u] # None => users'[u] # None,
           \A u \in Users : ~AutoActivate /\ users'[u] # None /\ users'[u].active => u \in vouched,
           UNCHANGED <<emailOf, owner, alive, session, cookie, pending,
                       states, opened, vouched>>
    PROVE  OAuthInv'
<1>1. O!Idle \in Callback /\ InHand(O!Idle, users', owner, vouched)
  BY DEF O!Idle, Callback, InHand, Reads
<1> QED BY <1>1, RequestStep

\* The users, untouched by a step, are as OAuthInv has them.
LEMMA UsersAsTheyWere ==
    ASSUME OAuthInv
    PROVE  /\ users \in [Users -> O!Rows \cup {None}]
           /\ \A u \in Users : ~AutoActivate /\ users[u] # None /\ users[u].active => u \in vouched
BY DEF OAuthInv, O!TypeOK, UsersKnown

\* A callback fails, is refused or gives up.
LEMMA GivingUp ==
    ASSUME OAuthInv, NEW r \in Requests, O!done(r),
           UNCHANGED <<users, emailOf, owner, alive, session, cookie, pending,
                       states, opened, vouched>>
    PROVE  OAuthInv'
BY UsersAsTheyWere, Ending DEF O!done

\* A callback goes on to a step for which it needs to know nothing new.
LEMMA Continuing ==
    ASSUME OAuthInv, NEW r \in Requests, callbacks[r].pc \notin {"idle", "unlink", "update"},
           NEW pc \in {"link", "linkWrite", "find", "findEmail", "create"}, O!goto(r, pc),
           pc \in {"link", "linkWrite"} =>
              /\ callbacks[r].sid \in DOMAIN owner /\ callbacks[r].sid = callbacks[r].flow.sid
              /\ owner[callbacks[r].sid] = callbacks[r].flow.user,
           UNCHANGED <<users, emailOf, owner, alive, session, cookie, pending,
                       states, opened, vouched>>
    PROVE  OAuthInv'
<1> DEFINE v == [callbacks[r] EXCEPT !.pc = pc]
<1>1. /\ v \in Callback /\ v.pc = pc /\ v.sid = callbacks[r].sid /\ v.flow = callbacks[r].flow
  BY CallbackTypes DEF O!Callbacks, Callback
<1>2. callbacks' = [callbacks EXCEPT ![r] = v]
  BY DEF O!goto
<1> HIDE DEF v
<1>3. InHand(v, users', owner, vouched)
  BY <1>1 DEF InHand, Reads
<1> QED BY <1>1, <1>2, <1>3, UsersAsTheyWere, RequestStep

\* The session a callback presents is the one its flow began in, and its user's.
LEMMA CheckStep == ASSUME OAuthInv, NEW r \in Requests, O!checkSession(r) PROVE OAuthInv'
<1>1. CASE O!done(r)
  BY <1>1, GivingUp DEF O!checkSession, O!sessionVars, O!browserVars, O!storeVars
<1>2. CASE /\ O!currentUser(callbacks[r].sid) = callbacks[r].flow.user
           /\ callbacks[r].sid = callbacks[r].flow.sid /\ O!goto(r, "link")
  <2>1. callbacks[r].flow.user # None
    BY DEF OAuthInv, InHand, O!checkSession
  <2>2. callbacks[r].sid \in alive /\ owner[callbacks[r].sid] = callbacks[r].flow.user
    BY <1>2, <2>1 DEF O!currentUser, O!Active
  <2>3. callbacks[r].sid \in DOMAIN owner
    BY <2>2 DEF OAuthInv, O!TypeOK
  <2> QED BY <1>2, <2>2, <2>3, Continuing
          DEF O!checkSession, O!sessionVars, O!browserVars, O!storeVars
<1> QED BY <1>1, <1>2 DEF O!checkSession

\* The identity is linked already, to this user or another, or not yet.
LEMMA LinkStep == ASSUME OAuthInv, NEW r \in Requests, O!LinkOAuthAccount(r) PROVE OAuthInv'
<1>1. CASE O!done(r)
  BY <1>1, GivingUp DEF O!LinkOAuthAccount, O!sessionVars, O!browserVars, O!storeVars
<1>2. CASE O!goto(r, "find")
  BY <1>2, Continuing DEF O!LinkOAuthAccount, O!sessionVars, O!browserVars, O!storeVars
<1>3. CASE O!goto(r, "linkWrite")
  <2>1. /\ callbacks[r].sid \in DOMAIN owner /\ callbacks[r].sid = callbacks[r].flow.sid
        /\ owner[callbacks[r].sid] = callbacks[r].flow.user
    BY DEF O!LinkOAuthAccount, OAuthInv, InHand
  <2> QED
    BY <1>3, <2>1, Continuing DEF O!LinkOAuthAccount, O!sessionVars, O!browserVars, O!storeVars
<1> QED BY <1>1, <1>2, <1>3 DEF O!LinkOAuthAccount, O!linkFailed

\* A callback reads the row of a user.
LEMMA ReadUser ==
    ASSUME OAuthInv, NEW r \in Requests, callbacks[r].pc \notin {"idle", "unlink", "update"},
           NEW u \in Users, users[u] # None, NEW pc \in Reads,
           callbacks' = [callbacks EXCEPT ![r].pc = pc, ![r].user = u,
                                          ![r].active = users[u].active],
           UNCHANGED <<users, emailOf, owner, alive, session, cookie, pending,
                       states, opened, vouched>>
    PROVE  OAuthInv'
<1> DEFINE v == [callbacks[r] EXCEPT !.pc = pc, !.user = u, !.active = users[u].active]
<1>1. users[u] \in O!Rows
  BY UsersAsTheyWere
<1>2. users[u].active \in BOOLEAN
  BY <1>1 DEF O!Rows
<1>3. /\ v \in Callback /\ v.pc = pc /\ v.user = u /\ v.active = users[u].active
      /\ callbacks' = [callbacks EXCEPT ![r] = v]
  BY <1>2, CallbackTypes DEF O!Callbacks, Callback, Reads
<1> HIDE DEF v
<1>4. InHand(v, users', owner, vouched)
  BY <1>3, UsersAsTheyWere DEF InHand, Reads
<1> QED BY <1>3, <1>4, UsersAsTheyWere, RequestStep

\* The write of a link: its user is there, since the session's user is.
LEMMA LinkWriteStep == ASSUME OAuthInv, NEW r \in Requests, O!writeLink(r) PROVE OAuthInv'
<1>1. CASE users' = users /\ O!linkFailed(r)
  <2>1. /\ callbacks[r].pc = "linkWrite"
        /\ UNCHANGED <<users, emailOf, owner, alive, session, cookie, pending,
                       states, opened, vouched>>
    BY <1>1 DEF O!writeLink, O!sessionVars, O!browserVars, O!storeVars
  <2> QED BY <1>1, <2>1, GivingUp, Continuing DEF O!linkFailed
<1>2. CASE users' = [users EXCEPT ![callbacks[r].flow.user].subject = callbacks[r].id] /\ O!done(r)
  <2> DEFINE u == callbacks[r].flow.user
  <2>1. /\ callbacks[r].id \in Identities /\ callbacks[r].sid \in DOMAIN owner
        /\ owner[callbacks[r].sid] = u
    BY CallbackTypes DEF O!writeLink, OAuthInv, InHand
  <2>2. u \in Users /\ users[u] # None
    BY <2>1, OwnersAreASequence DEF OAuthInv, UsersKnown, O!TypeOK
  <2>3. /\ users' = [users EXCEPT ![u].subject = callbacks[r].id]
        /\ callbacks' = [callbacks EXCEPT ![r] = O!Idle]
        /\ UNCHANGED <<emailOf, owner, alive, session, cookie, pending,
                       states, opened, vouched>>
    BY <1>2 DEF O!writeLink, O!done, O!sessionVars, O!browserVars, O!storeVars
  <2> HIDE DEF u
  <2>4. /\ users' \in [Users -> O!Rows \cup {None}]
        /\ users'[u] # None /\ users'[u].active = users[u].active
        /\ \A x \in Users : x # u => users'[x] = users[x]
    BY <2>1, <2>2, <2>3, UsersAsTheyWere, AccountsAssumption DEF O!Rows
  <2>5. /\ \A x \in Users : users[x] # None => users'[x] # None
        /\ \A x \in Users : ~AutoActivate /\ users'[x] # None /\ users'[x].active => x \in vouched
    BY <2>2, <2>4, UsersAsTheyWere
  <2> QED BY <2>3, <2>4, <2>5, Ending
<1> QED BY <1>1, <1>2 DEF O!writeLink

\* The user of the identity is found, or nobody.
LEMMA FindStep == ASSUME OAuthInv, NEW r \in Requests, O!findBySubject(r) PROVE OAuthInv'
<1>1. CASE O!goto(r, "findEmail")
  BY <1>1, Continuing DEF O!findBySubject, O!sessionVars, O!browserVars, O!storeVars
<1>2. ASSUME NEW u \in O!Linked(callbacks[r].id), NEW pc \in {"start", "follow"},
             callbacks' = [callbacks EXCEPT ![r].pc = pc, ![r].user = u,
                                            ![r].active = users[u].active]
      PROVE  OAuthInv'
  <2>1. /\ callbacks[r].pc \notin {"idle", "unlink", "update"} /\ u \in Users /\ users[u] # None
        /\ pc \in Reads
        /\ UNCHANGED <<users, emailOf, owner, alive, session, cookie, pending,
                       states, opened, vouched>>
    BY <1>2 DEF O!findBySubject, O!Linked, O!sessionVars, O!browserVars, O!storeVars, Reads
  <2> QED BY <1>2, <2>1, ReadUser
<1> QED BY <1>1, <1>2 DEF O!findBySubject

\* The e-mail address follows the provider's.
LEMMA FollowStep == ASSUME OAuthInv, NEW r \in Requests, O!followEmail(r) PROVE OAuthInv'
<1>1. CASE O!done(r) /\ UNCHANGED users
  BY <1>1, GivingUp DEF O!followEmail, O!sessionVars, O!browserVars, O!storeVars
<1>2. CASE users' = [users EXCEPT ![callbacks[r].user].email = emailOf[callbacks[r].id]]
           /\ O!goto(r, "start")
  <2> DEFINE u == callbacks[r].user
             e == emailOf[callbacks[r].id]
  <2>1. e \in Emails /\ u \in Users /\ users[u] # None
    BY CallbackTypes DEF O!followEmail, OAuthInv, O!TypeOK, InHand, Reads
  <2>2. users' = [users EXCEPT ![u].email = e]
    BY <1>2
  <2>3. callbacks[r].pc = "follow" /\ (callbacks[r].active /\ ~AutoActivate => u \in vouched)
        /\ UNCHANGED <<emailOf, owner, alive, session, cookie, pending,
                       states, opened, vouched>>
    BY DEF O!followEmail, O!sessionVars, O!browserVars, O!storeVars, OAuthInv, InHand, Reads
  <2> HIDE DEF e
  <2>4. /\ users' \in [Users -> O!Rows \cup {None}]
        /\ users'[u] # None /\ users'[u].active = users[u].active
        /\ \A x \in Users : x # u => users'[x] = users[x]
    BY <2>1, <2>2, UsersAsTheyWere, AccountsAssumption DEF O!Rows
  <2>5. /\ \A x \in Users : users[x] # None => users'[x] # None
        /\ \A x \in Users : ~AutoActivate /\ users'[x] # None /\ users'[x].active => x \in vouched
    BY <2>1, <2>4, UsersAsTheyWere
  <2>6. /\ [callbacks[r] EXCEPT !.pc = "start"] \in Callback
        /\ InHand([callbacks[r] EXCEPT !.pc = "start"], users', owner, vouched)
    BY <2>1, <2>3, <2>4, CallbackTypes DEF O!Callbacks, Callback, InHand, Reads
  <2> QED BY <1>2, <2>3, <2>4, <2>5, <2>6, RequestStep DEF O!goto
<1> QED BY <1>1, <1>2 DEF O!followEmail

\* The user with the e-mail address is found, or nobody.
LEMMA FindEmailStep == ASSUME OAuthInv, NEW r \in Requests, O!findByEmail(r) PROVE OAuthInv'
<1>1. CASE O!goto(r, "create")
  BY <1>1, Continuing DEF O!findByEmail, O!sessionVars, O!browserVars, O!storeVars
<1>2. ASSUME NEW u \in O!WithEmail(emailOf[callbacks[r].id]),
             callbacks' = [callbacks EXCEPT ![r].pc = "emailWrite", ![r].user = u,
                                            ![r].active = users[u].active]
      PROVE  OAuthInv'
  <2>1. /\ callbacks[r].pc \notin {"idle", "unlink", "update"} /\ u \in Users /\ users[u] # None
        /\ "emailWrite" \in Reads
        /\ UNCHANGED <<users, emailOf, owner, alive, session, cookie, pending,
                       states, opened, vouched>>
    BY <1>2 DEF O!findByEmail, O!WithEmail, O!sessionVars, O!browserVars, O!storeVars, Reads
  <2> QED BY <1>2, <2>1, ReadUser
<1> QED BY <1>1, <1>2 DEF O!findByEmail

\* That user gets the identity.
LEMMA LinkByEmailStep == ASSUME OAuthInv, NEW r \in Requests, O!linkByEmail(r) PROVE OAuthInv'
<1> DEFINE u == callbacks[r].user
<1>1. /\ callbacks[r].pc = "emailWrite" /\ (callbacks[r].active /\ ~AutoActivate => u \in vouched)
      /\ callbacks[r].id \in Identities /\ u \in Users /\ users[u] # None
  BY CallbackTypes DEF O!linkByEmail, OAuthInv, InHand, Reads
<1>2. /\ users' = [users EXCEPT ![u].subject = callbacks[r].id]
      /\ callbacks' = [callbacks EXCEPT ![r] = [callbacks[r] EXCEPT !.pc = "start"]]
      /\ UNCHANGED <<emailOf, owner, alive, session, cookie, pending,
                     states, opened, vouched>>
  BY DEF O!linkByEmail, O!goto, O!sessionVars, O!browserVars, O!storeVars
<1>3. /\ users' \in [Users -> O!Rows \cup {None}]
      /\ users'[u] # None /\ users'[u].active = users[u].active
      /\ \A x \in Users : x # u => users'[x] = users[x]
  BY <1>1, <1>2, UsersAsTheyWere, AccountsAssumption DEF O!Rows
<1>4. /\ \A x \in Users : users[x] # None => users'[x] # None
      /\ \A x \in Users : ~AutoActivate /\ users'[x] # None /\ users'[x].active => x \in vouched
  BY <1>1, <1>3, UsersAsTheyWere
<1>5. /\ [callbacks[r] EXCEPT !.pc = "start"] \in Callback
      /\ InHand([callbacks[r] EXCEPT !.pc = "start"], users', owner, vouched)
  BY <1>1, <1>3, CallbackTypes DEF O!Callbacks, Callback, InHand, Reads
<1> QED BY <1>2, <1>3, <1>4, <1>5, RequestStep

\* A new user signs up.
LEMMA CreateStep == ASSUME OAuthInv, NEW r \in Requests, O!create(r) PROVE OAuthInv'
<1>1. CASE O!done(r) /\ UNCHANGED users
  BY <1>1, GivingUp DEF O!create, O!sessionVars, O!browserVars, O!storeVars
<1>2. ASSUME NEW u \in Users, users[u] = None,
             users' = [users EXCEPT ![u] = [email |-> emailOf[callbacks[r].id],
                                            subject |-> callbacks[r].id, active |-> AutoActivate]],
             callbacks' = [callbacks EXCEPT ![r].pc = "start", ![r].user = u,
                                            ![r].active = AutoActivate]
      PROVE  OAuthInv'
  <2> DEFINE new == [email |-> emailOf[callbacks[r].id], subject |-> callbacks[r].id,
                     active |-> AutoActivate]
             v == [callbacks[r] EXCEPT !.pc = "start", !.user = u, !.active = AutoActivate]
  <2>1. callbacks[r].id \in Identities /\ emailOf[callbacks[r].id] \in Emails
    BY CallbackTypes DEF O!create, OAuthInv, O!TypeOK
  <2>2. new \in O!Rows /\ new # None /\ new.active = AutoActivate
    BY <2>1, AccountsAssumption DEF O!Rows
  <2>3. /\ v \in Callback /\ v.pc = "start" /\ v.user = u /\ v.active = AutoActivate
        /\ callbacks' = [callbacks EXCEPT ![r] = v]
        /\ UNCHANGED <<emailOf, owner, alive, session, cookie, pending,
                       states, opened, vouched>>
    BY <1>2, CallbackTypes, AccountsAssumption
       DEF O!create, O!Callbacks, Callback, O!sessionVars, O!browserVars, O!storeVars
  <2>4. users' = [users EXCEPT ![u] = new]
    BY <1>2
  <2> HIDE DEF new, v
  <2>5. /\ users' \in [Users -> O!Rows \cup {None}] /\ users'[u] = new
        /\ \A x \in Users : x # u => users'[x] = users[x]
    BY <2>2, <2>4, UsersAsTheyWere
  <2>6. /\ \A x \in Users : users[x] # None => users'[x] # None
        /\ \A x \in Users : ~AutoActivate /\ users'[x] # None /\ users'[x].active => x \in vouched
    BY <2>2, <2>5, UsersAsTheyWere
  <2>7. InHand(v, users', owner, vouched)
    BY <2>2, <2>3, <2>5 DEF InHand, Reads
  <2> QED BY <2>3, <2>5, <2>6, <2>7, RequestStep
<1> QED BY <1>1, <1>2 DEF O!create

\* A user that was active when read gets a session, in the browser of the callback.
LEMMA SessionStep == ASSUME OAuthInv, NEW r \in Requests, O!startSession(r) PROVE OAuthInv'
<1>1. CASE UNCHANGED <<owner, alive, session>>
  BY <1>1, GivingUp DEF O!startSession, O!storeVars
<1>2. CASE ~UNCHANGED <<owner, alive, session>>
  <2> DEFINE u == callbacks[r].user
             n == Len(owner) + 1
  <2>1. /\ callbacks[r].active /\ Len(owner) < MaxSessions /\ callbacks[r].pc = "start"
        /\ owner' = Append(owner, u) /\ alive' = alive \cup {n}
        /\ session' = [session EXCEPT ![callbacks[r].browser] = n]
        /\ callbacks' = [callbacks EXCEPT ![r] = O!Idle]
        /\ UNCHANGED <<users, emailOf, cookie, pending, states, opened, vouched>>
    BY <1>2 DEF O!startSession, O!done, O!sessionVars, O!storeVars
  <2>2. u \in Users /\ users[u] # None /\ (~AutoActivate => u \in vouched)
    BY <2>1 DEF OAuthInv, InHand, Reads
  <2>3. owner \in Seq(Users) /\ Len(owner) \in Nat /\ alive \subseteq 1..Len(owner)
    BY OwnersAreASequence DEF OAuthInv, O!TypeOK
  <2> HIDE DEF u
  <2>4. /\ owner' \in Seq(Users) /\ Len(owner') = n /\ DOMAIN owner' = 1..n
        /\ owner'[n] = u /\ \A k \in DOMAIN owner : owner'[k] = owner[k]
        /\ DOMAIN owner = 1..Len(owner)
    BY <2>1, <2>2, <2>3
  <2>5. owner' \in UNION {[1..k -> Users] : k \in 0..MaxSessions}
    <3>1. Len(owner') <= MaxSessions
      BY <2>1, <2>3, <2>4, AccountsAssumption
    <3> QED BY <2>4, <3>1, OwnersAreASequence
  <2>6. alive' \subseteq DOMAIN owner' /\ session' \in [Browsers -> 0..MaxSessions]
    <3>1. n \in 0..MaxSessions /\ session \in [Browsers -> 0..MaxSessions]
      BY <2>1, <2>3, AccountsAssumption DEF OAuthInv, O!TypeOK
    <3>2. session' \in [Browsers -> 0..MaxSessions]
      BY <2>1, <3>1
    <3>3. 1..Len(owner) \subseteq 1..n /\ n \in 1..n
      BY <2>3
    <3>4. alive' = alive \cup {n}
      BY <2>1
    <3> HIDE DEF n
    <3> QED BY <2>3, <2>4, <3>2, <3>3, <3>4
  <2>7. callbacks' \in [Requests -> Callback]
    BY <2>1 DEF OAuthInv, O!TypeOK, Callback, O!Saves
  <2>8. O!TypeOK'
    BY <2>1, <2>5, <2>6, <2>7 DEF OAuthInv, O!TypeOK, Callback, O!Saves
  <2>9. UsersKnown'
    BY <2>1, <2>2, <2>3, <2>4 DEF OAuthInv, UsersKnown
  <2>10. ASSUME NEW q \in Requests PROVE InHand(callbacks[q], users, owner, vouched)'
    <3>1. CASE q = r
      BY <3>1, <2>1 DEF OAuthInv, O!TypeOK, InHand, Reads, O!Idle
    <3>2. CASE q # r
      <4>1. callbacks'[q] = callbacks[q]
        BY <3>2, <2>1
      <4>2. InHand(callbacks[q], users, owner, vouched)
        BY DEF OAuthInv
      <4> QED BY <4>1, <4>2, <2>1, <2>3, <2>4 DEF InHand
    <3> QED BY <3>1, <3>2
  <2> QED BY <2>8, <2>9, <2>10 DEF OAuthInv
<1> QED BY <1>1, <1>2

\* UnlinkAccount and UpdateUser read a row ...
LEMMA ReadRow ==
    ASSUME OAuthInv, NEW r \in Requests, NEW u \in Users, users[u] # None, NEW v \in O!Saves,
           v.user = u,
           v.row.active /\ ~v.enables => users[u].active,
           v.pc = "unlink" => ~v.enables,
           callbacks' = [callbacks EXCEPT ![r] = v],
           UNCHANGED <<users, emailOf, owner, alive, session, cookie, pending,
                       states, opened, vouched>>
    PROVE  OAuthInv'
<1>1. v \in Callback /\ InHand(v, users', owner, vouched)
  BY UsersAsTheyWere DEF InHand, Reads, Callback, O!Saves
<1> QED BY <1>1, UsersAsTheyWere, RequestStep

\* ... as it is, ...
LEMMA UnlinkStep ==
    ASSUME OAuthInv, NEW r \in Requests, NEW u \in Users, O!UnlinkAccount(r, u)
    PROVE  OAuthInv'
<1> DEFINE v == [pc |-> "unlink", user |-> u, row |-> users[u], enables |-> FALSE]
<1>1. /\ users[u] # None /\ users[u] \in O!Rows
      /\ callbacks' = [callbacks EXCEPT ![r] = v]
      /\ UNCHANGED <<users, emailOf, owner, alive, session, cookie, pending,
                     states, opened, vouched>>
  BY UsersAsTheyWere DEF O!UnlinkAccount, O!sessionVars, O!browserVars, O!storeVars
<1>2. v \in O!Saves /\ v.user = u /\ v.row = users[u] /\ v.enables = FALSE
  BY <1>1 DEF O!Saves
<1> HIDE DEF v
<1> QED BY <1>1, <1>2, ReadRow

\* ... or with what the administrator changes, ...
LEMMA UpdateStep ==
    ASSUME OAuthInv, NEW r \in Requests, NEW u \in Users, O!UpdateUser(r, u)
    PROVE  OAuthInv'
<1>1. PICK e \in Emails, active \in BOOLEAN :
         callbacks' = [callbacks EXCEPT ![r] =
            [pc |-> "update", user |-> u,
             row |-> [users[u] EXCEPT !.email = e, !.active = active],
             enables |-> active /\ ~users[u].active]]
  BY DEF O!UpdateUser
<1> DEFINE row == [users[u] EXCEPT !.email = e, !.active = active]
           v == [pc |-> "update", user |-> u, row |-> row,
                 enables |-> active /\ ~users[u].active]
<1>2. /\ users[u] # None /\ users[u] \in O!Rows
      /\ UNCHANGED <<users, emailOf, owner, alive, session, cookie, pending,
                     states, opened, vouched>>
  BY UsersAsTheyWere DEF O!UpdateUser, O!sessionVars, O!browserVars, O!storeVars
<1>3. row \in O!Rows /\ row.active = active /\ users[u].active \in BOOLEAN
  BY <1>2 DEF O!Rows
<1> HIDE DEF row
<1>4. /\ v \in O!Saves /\ v.user = u /\ v.row.active = active /\ v.pc = "update"
      /\ v.enables = (active /\ ~users[u].active)
  BY <1>3 DEF O!Saves
<1>5. callbacks' = [callbacks EXCEPT ![r] = v]
  BY <1>1 DEF row
<1> HIDE DEF v
<1> QED BY <1>2, <1>4, <1>5, ReadRow

\* ... and Save it: if it is active then, it was let in.
LEMMA SaveStep ==
    ASSUME OAuthInv, NEW r \in Requests, NEW u \in Users, u = callbacks[r].user,
           users[u] # None, NEW row \in O!Rows, O!save(r, row),
           vouched \subseteq vouched', vouched' \subseteq Users,
           users'[u] = row /\ row.active /\ ~AutoActivate => u \in vouched'
    PROVE  OAuthInv'
<1>1. /\ users' = users \/ users' = [users EXCEPT ![u] = row]
      /\ callbacks' = [callbacks EXCEPT ![r] = O!Idle]
      /\ UNCHANGED <<emailOf, owner, alive, session, cookie, pending, states, opened>>
  BY DEF O!save, O!done, O!sessionVars, O!browserVars, O!storeVars
<1>2. /\ users' \in [Users -> O!Rows \cup {None}]
      /\ users' = users \/ (users'[u] = row /\ row # None)
      /\ \A x \in Users : x # u => users'[x] = users[x]
  BY <1>1, UsersAsTheyWere, AccountsAssumption
<1>3. /\ \A x \in Users : users[x] # None => users'[x] # None
      /\ \A x \in Users : ~AutoActivate /\ users'[x] # None /\ users'[x].active => x \in vouched'
  BY <1>2, UsersAsTheyWere
<1>4. O!TypeOK'
  BY <1>1, <1>2 DEF OAuthInv, O!TypeOK, Callback, O!Idle
<1>5. owner \in Seq(Users) /\ alive \subseteq DOMAIN owner
  BY OwnersAreASequence DEF OAuthInv, O!TypeOK
<1>6. UsersKnown'
  BY <1>1, <1>3, <1>5 DEF OAuthInv, UsersKnown
<1>7. ASSUME NEW q \in Requests PROVE InHand(callbacks[q], users, owner, vouched)'
  <2>1. CASE q = r
    BY <1>1, <2>1 DEF OAuthInv, O!TypeOK, InHand, Reads, O!Idle
  <2>2. CASE q # r
    <3>1. callbacks'[q] = callbacks[q] /\ InHand(callbacks[q], users, owner, vouched)
      BY <1>1, <2>2 DEF OAuthInv
    <3>2. callbacks[q] \in Callback
      BY DEF OAuthInv, O!TypeOK, Callback
    <3>3. callbacks[q].pc \in {"unlink", "update"} => callbacks[q].user \in Users
      BY <3>2, LocalsAt DEF O!Saves
    <3> QED BY <1>1, <1>3, <3>1, <3>3 DEF InHand
  <2> QED BY <2>1, <2>2
<1> QED BY <1>4, <1>6, <1>7 DEF OAuthInv

\* The row without its link, ...
LEMMA SaveUnlinkedStep == ASSUME OAuthInv, NEW r \in Requests, O!saveUnlinked(r) PROVE OAuthInv'
<1> DEFINE u == callbacks[r].user
           row == [callbacks[r].row EXCEPT !.subject = None]
<1>1. callbacks[r] \in O!Saves
  BY LocalsAt DEF O!saveUnlinked, OAuthInv, O!TypeOK, Callback
<1>2. /\ u \in Users /\ row \in O!Rows /\ row.active = callbacks[r].row.active /\ users[u] # None
      /\ (row.active /\ ~AutoActivate => u \in vouched)
  BY <1>1 DEF O!saveUnlinked, OAuthInv, InHand, O!Saves, O!Rows
<1>3. O!save(r, row) /\ vouched' = vouched /\ vouched \subseteq Users
  BY DEF O!saveUnlinked, OAuthInv, O!TypeOK
<1> HIDE DEF row
<1> QED BY <1>2, <1>3, SaveStep

\* ... or with the administrator's changes.
LEMMA SaveUpdatedStep == ASSUME OAuthInv, NEW r \in Requests, O!saveUpdated(r) PROVE OAuthInv'
<1> DEFINE u == callbacks[r].user
           row == callbacks[r].row
<1>1. callbacks[r] \in O!Saves
  BY LocalsAt DEF O!saveUpdated, OAuthInv, O!TypeOK, Callback
<1>2. /\ u \in Users /\ row \in O!Rows /\ users[u] # None
      /\ (row.active /\ ~callbacks[r].enables /\ ~AutoActivate => u \in vouched)
  BY <1>1 DEF O!saveUpdated, OAuthInv, InHand, O!Saves
<1>3. /\ O!save(r, row) /\ vouched \subseteq Users
      /\ vouched' = IF callbacks[r].enables /\ users'[u] = row THEN vouched \cup {u} ELSE vouched
  BY DEF O!saveUpdated, OAuthInv, O!TypeOK
<1> HIDE DEF u, row
<1>4. /\ vouched \subseteq vouched' /\ vouched' \subseteq Users
      /\ users'[u] = row /\ row.active /\ ~AutoActivate => u \in vouched'
  BY <1>2, <1>3
<1> QED BY <1>2, <1>3, <1>4, SaveStep DEF u

\* An administrator enables or disables a user.
LEMMA StatusStep ==
    ASSUME OAuthInv, NEW u \in Users, NEW active \in BOOLEAN, O!SetUserStatus(u, active)
    PROVE  OAuthInv'
<1>1. /\ users[u] # None /\ users' = [users EXCEPT ![u].active = active]
      /\ vouched' = IF active THEN vouched \cup {u} ELSE vouched
      /\ UNCHANGED <<emailOf, owner, alive, session, cookie, pending,
                     states, opened, callbacks>>
  BY DEF O!SetUserStatus, O!sessionVars, O!browserVars, O!storeVars
<1>2. /\ users' \in [Users -> O!Rows \cup {None}] /\ users'[u] # None /\ users'[u].active = active
      /\ \A x \in Users : x # u => users'[x] = users[x]
  BY <1>1, UsersAsTheyWere, AccountsAssumption DEF O!Rows
<1>3. O!TypeOK'
  BY <1>1, <1>2 DEF OAuthInv, O!TypeOK
<1>4. owner \in Seq(Users) /\ alive \subseteq DOMAIN owner
  BY OwnersAreASequence DEF OAuthInv, O!TypeOK
<1>5. UsersKnown'
  BY <1>1, <1>2, <1>4 DEF OAuthInv, UsersKnown
<1>6. ASSUME NEW q \in Requests PROVE InHand(callbacks[q], users, owner, vouched)'
  BY <1>1, <1>2 DEF OAuthInv, InHand
<1> QED BY <1>3, <1>5, <1>6 DEF OAuthInv

\* A flow begins: it is stored with the user and session the browser has.
LEMMA BeginStep ==
    ASSUME OAuthInv, NEW b \in Browsers, NEW s \in States, NEW u \in Users \cup {None},
           NEW sid \in 0..MaxSessions, O!beginOAuthFlow(b, s, u, sid)
    PROVE  OAuthInv'
<1>1. [flow |-> [user |-> u, sid |-> sid], live |-> TRUE] \in [flow : O!Flows, live : BOOLEAN]
  BY DEF O!Flows
<1>2. /\ pending' \in [States -> [flow : O!Flows, live : BOOLEAN] \cup {None}]
      /\ states' \subseteq States /\ cookie' \in [Browsers -> States \cup {None}]
  <2> DEFINE Records == [flow : O!Flows, live : BOOLEAN]
             kept == IF O!Count(pending) >= MaxPending THEN O!pruned ELSE pending
             new == [flow |-> [user |-> u, sid |-> sid], live |-> TRUE]
  <2>1. /\ \/ pending' = kept /\ states' = states
           \/ pending' = [kept EXCEPT ![s] = new] /\ states' = states \cup {s}
        /\ cookie' = [cookie EXCEPT ![b] = s] \/ cookie' = cookie
    BY DEF O!beginOAuthFlow, O!issue
  <2>2. pending \in [States -> Records \cup {None}] /\ states \subseteq States
        /\ cookie \in [Browsers -> States \cup {None}]
    BY DEF OAuthInv, O!TypeOK
  <2>3. kept \in [States -> Records \cup {None}]
    BY <2>2 DEF O!pruned
  <2> HIDE DEF kept, new, Records
  <2>4. new \in Records
    BY <1>1 DEF new, Records
  <2>5. /\ pending' \in [States -> Records \cup {None}] /\ states' \subseteq States
        /\ cookie' \in [Browsers -> States \cup {None}]
    BY <2>1, <2>2, <2>3, <2>4
  <2> QED BY <2>5 DEF Records
<1>3. UNCHANGED <<users, emailOf, owner, alive, session, opened, vouched, callbacks>>
  BY DEF O!beginOAuthFlow, O!sessionVars
<1> QED BY <1>2, <1>3, StoreStep DEF OAuthInv, O!TypeOK, Callback, O!Saves

\* A callback takes the record of its state.
LEMMA TakeStep ==
    ASSUME OAuthInv, NEW r \in Requests, NEW b \in Browsers, NEW kind \in {"login", "link"},
           NEW i \in Identities, O!takeOAuthState(r, b, kind, i)
    PROVE  OAuthInv'
<1> DEFINE s == cookie[b]
           sid == session[b]
           flow == pending[s].flow
           owns == O!owns(b, flow)
           v == [pc |-> IF kind = "link" THEN "link"
                        ELSE IF flow.user # None THEN "check" ELSE "find",
                 kind |-> kind, browser |-> b, sid |-> sid, flow |-> flow,
                 id |-> i, user |-> None, active |-> FALSE]
<1>1. /\ s \in States /\ sid \in 0..MaxSessions
      /\ pending' = [pending EXCEPT ![s] = None]
      /\ opened' = IF O!consumable(s) THEN [opened EXCEPT ![s] = @ + 1] ELSE opened
      /\ callbacks' = IF O!consumable(s) /\ (kind = "link" => owns)
                      THEN [callbacks EXCEPT ![r] = v] ELSE callbacks
      /\ kind = "link" => O!Active(sid)
      /\ cookie' = [cookie EXCEPT ![b] = None] \/ cookie' = cookie
      /\ UNCHANGED <<users, emailOf, owner, alive, session, states, vouched>>
  BY DEF O!takeOAuthState, O!consume, O!sessionVars, OAuthInv, O!TypeOK
<1>2. O!consumable(s) => flow \in O!Flows
  BY <1>1 DEF OAuthInv, O!TypeOK, O!consumable
<1>3. O!consumable(s) => v \in Callback
  BY <1>1, <1>2 DEF Callback, O!Callbacks
<1>4. O!consumable(s) /\ (kind = "link" => owns) => InHand(v, users, owner, vouched)
  BY <1>1 DEF OAuthInv, O!TypeOK, InHand, Reads, O!owns, O!Active, O!currentUser
<1> HIDE DEF s, sid, flow, owns, v
<1>5. /\ callbacks' \in [Requests -> Callback]
      /\ \A q \in Requests :
            callbacks'[q] = callbacks[q] \/ InHand(callbacks'[q], users, owner, vouched)
  BY <1>1, <1>3, <1>4 DEF OAuthInv, O!TypeOK, Callback, O!Saves
<1>6. /\ pending' \in [States -> [flow : O!Flows, live : BOOLEAN] \cup {None}]
      /\ opened' \in [States -> Nat] /\ cookie' \in [Browsers -> States \cup {None}]
  <2> DEFINE Records == [flow : O!Flows, live : BOOLEAN]
  <2>1. /\ pending \in [States -> Records \cup {None}] /\ opened \in [States -> Nat]
        /\ cookie \in [Browsers -> States \cup {None}]
    BY DEF OAuthInv, O!TypeOK
  <2> HIDE DEF Records
  <2>2. /\ pending' \in [States -> Records \cup {None}] /\ opened' \in [States -> Nat]
        /\ cookie' \in [Browsers -> States \cup {None}]
    BY <1>1, <2>1
  <2> QED BY <2>2 DEF Records
<1> QED BY <1>1, <1>5, <1>6, StoreStep DEF OAuthInv, O!TypeOK

\* A browser that begins a sign-in presents nobody, or the user of its session.
LEMMA LoginStep ==
    ASSUME OAuthInv, NEW b \in Browsers, NEW s \in States, O!LoginWithProvider(b, s)
    PROVE  OAuthInv'
<1>1. /\ session[b] \in 0..MaxSessions /\ 0 \in 0..MaxSessions
      /\ O!currentUser(session[b]) \in Users \cup {None}
  BY OwnersAreASequence, AccountsAssumption
     DEF OAuthInv, O!TypeOK, O!currentUser, O!Active
<1> QED BY <1>1, BeginStep DEF O!LoginWithProvider

\* The authentication middleware has found the user and the session of a link.
LEMMA LinkAccountStep ==
    ASSUME OAuthInv, NEW b \in Browsers, NEW s \in States, O!LinkAccount(b, s)
    PROVE  OAuthInv'
<1>1. session[b] \in 0..MaxSessions /\ session[b] \in DOMAIN owner
  BY DEF OAuthInv, O!TypeOK, O!LinkAccount, O!Active
<1>2. owner \in Seq(Users)
  BY OwnersAreASequence DEF OAuthInv, O!TypeOK
<1>3. owner[session[b]] \in Users
  BY <1>1, <1>2
<1> QED BY <1>1, <1>3, BeginStep DEF O!LinkAccount

\* What else a browser does, and an expiry, take nothing a request knows.
LEMMA BrowserStep ==
    ASSUME OAuthInv,
           \/ \E b \in Browsers : O!refuseCallback(b) \/ O!logout(b)
           \/ \E s \in States : O!expire(s)
    PROVE  OAuthInv'
<1>1. /\ callbacks \in [Requests -> Callback] /\ states \subseteq States
      /\ session \in [Browsers -> 0..MaxSessions] /\ 0 \in 0..MaxSessions
      /\ cookie \in [Browsers -> States \cup {None}] /\ opened \in [States -> Nat]
      /\ pending \in [States -> [flow : O!Flows, live : BOOLEAN] \cup {None}]
  BY AccountsAssumption DEF OAuthInv, O!TypeOK, Callback, O!Saves
<1>2. ASSUME NEW b \in Browsers, O!refuseCallback(b) PROVE OAuthInv'
  BY <1>1, <1>2, StoreStep DEF O!refuseCallback, O!sessionVars, O!storeVars
<1>3. ASSUME NEW b \in Browsers, O!logout(b) PROVE OAuthInv'
  BY <1>1, <1>3, StoreStep DEF O!logout, O!storeVars
<1>4. ASSUME NEW s \in States, O!expire(s) PROVE OAuthInv'
  <2>1. pending' \in [States -> [flow : O!Flows, live : BOOLEAN] \cup {None}]
    <3>1. pending[s] \in [flow : O!Flows, live : BOOLEAN]
      BY <1>1, <1>4 DEF O!expire, O!consumable
    <3>2. [pending[s] EXCEPT !.live = FALSE] \in [flow : O!Flows, live : BOOLEAN]
      BY <3>1
    <3> DEFINE Records == [flow : O!Flows, live : BOOLEAN] \cup {None}
               new == [pending[s] EXCEPT !.live = FALSE]
    <3>3. pending' = [pending EXCEPT ![s] = new] /\ new \in Records
          /\ pending \in [States -> Records]
      BY <1>1, <1>4, <3>2 DEF O!expire
    <3> HIDE DEF Records, new
    <3>4. pending' \in [States -> Records]
      BY <3>3
    <3> QED BY <3>4 DEF Records
  <2> QED BY <1>1, <1>4, <2>1, StoreStep DEF O!expire, O!sessionVars, O!browserVars
<1> QED BY <1>2, <1>3, <1>4

\* OAuthInv holds in every state.
THEOREM OAuthInvariant == O!Spec => []OAuthInv
<1>1. OAuthInv /\ [O!Next]_(O!vars) => OAuthInv'
  <2> SUFFICES ASSUME OAuthInv, [O!Next]_(O!vars) PROVE OAuthInv'
    OBVIOUS
  <2>1. ASSUME NEW b \in Browsers, NEW s \in States,
               O!LoginWithProvider(b, s) \/ O!LinkAccount(b, s)
        PROVE  OAuthInv'
    BY <2>1, LoginStep, LinkAccountStep
  <2>2. ASSUME NEW r \in Requests, NEW b \in Browsers, NEW kind \in {"login", "link"},
               NEW i \in Identities, O!takeOAuthState(r, b, kind, i)
        PROVE  OAuthInv'
    BY <2>2, TakeStep
  <2>3. ASSUME NEW r \in Requests, O!fail(r) PROVE OAuthInv'
    BY <2>3, GivingUp DEF O!fail, O!sessionVars, O!browserVars, O!storeVars
  <2>4. ASSUME NEW r \in Requests, O!startSession(r) PROVE OAuthInv'
    BY <2>4, SessionStep
  <2>5. ASSUME NEW u \in Users, NEW active \in BOOLEAN, O!SetUserStatus(u, active)
        PROVE  OAuthInv'
    BY <2>5, StatusStep
  <2>6. CASE UNCHANGED O!vars
    <3>1. UNCHANGED <<users, emailOf, owner, alive, session, cookie, pending, states, opened,
                      vouched, callbacks>>
      BY <2>6 DEF O!vars, O!sessionVars, O!browserVars, O!storeVars
    <3> QED BY <3>1 DEF OAuthInv, O!TypeOK, UsersKnown, InHand
  <2> QED
    BY <2>1, <2>2, <2>3, <2>4, <2>5, <2>6, BrowserStep, CheckStep, LinkStep, LinkWriteStep,
       FindStep, FollowStep, FindEmailStep, LinkByEmailStep, CreateStep, SaveUnlinkedStep, UnlinkStep,
       SaveUpdatedStep, UpdateStep
    DEF O!Next
<1> QED BY InitOAuth, <1>1, PTL DEF O!Spec

\* Every variable of OAuthFlow keeps its type, and without auto-activation only who
\* was let in by an administrator has a session.
THEOREM OnlyApprovedSignIn == O!Spec => [](O!TypeOK /\ O!ApprovedOnly)
<1>1. OAuthInv => O!TypeOK /\ O!ApprovedOnly
  BY DEF OAuthInv, UsersKnown, O!ApprovedOnly
<1> QED BY <1>1, OAuthInvariant, PTL

\* An identity is linked by the session that began the flow, of that very user, or by
\* the e-mail address the provider vouches for; what else may write one is an
\* administrator's edit that read the row while it was linked.
THEOREM LinksAreAskedFor == O!Spec => O!LinkIsAskedFor
<1>1. OAuthInv /\ [O!Next]_(O!vars) =>
       [\A u \in Users :
         users[u] # None /\ users'[u] # None /\ users'[u].subject \notin {users[u].subject, None} =>
            \E r \in Requests :
               \/ /\ callbacks[r].pc = "linkWrite"
                  /\ callbacks[r].sid # 0 /\ callbacks[r].sid = callbacks[r].flow.sid /\ owner[callbacks[r].sid] = u
               \/ callbacks[r].pc = "emailWrite" /\ callbacks[r].user = u
               \/ /\ callbacks[r].pc = "update" /\ callbacks[r].user = u
                  /\ users'[u].subject = callbacks[r].row.subject]_(O!vars)
  <2> DEFINE Asked ==
        \A u \in Users :
           users[u] # None /\ users'[u] # None /\ users'[u].subject \notin {users[u].subject, None} =>
              \E r \in Requests :
                 \/ /\ callbacks[r].pc = "linkWrite"
                    /\ callbacks[r].sid # 0 /\ callbacks[r].sid = callbacks[r].flow.sid /\ owner[callbacks[r].sid] = u
                 \/ callbacks[r].pc = "emailWrite" /\ callbacks[r].user = u
                 \/ /\ callbacks[r].pc = "update" /\ callbacks[r].user = u
                    /\ users'[u].subject = callbacks[r].row.subject
  <2> SUFFICES ASSUME OAuthInv, O!Next PROVE Asked
    OBVIOUS
  <2>1. users \in [Users -> O!Rows \cup {None}]
    BY UsersAsTheyWere
  <2>2. ASSUME NEW r \in Requests, O!writeLink(r) PROVE Asked
    <3>1. /\ callbacks[r].pc = "linkWrite" /\ callbacks[r].sid \in DOMAIN owner
          /\ callbacks[r].sid = callbacks[r].flow.sid
          /\ owner[callbacks[r].sid] = callbacks[r].flow.user
      BY <2>2 DEF O!writeLink, OAuthInv, InHand
    <3>2. callbacks[r].sid # 0
      BY <3>1, OwnersAreASequence DEF OAuthInv, O!TypeOK
    <3>3. \A u \in Users : u # callbacks[r].flow.user => users'[u] = users[u]
      BY <2>1, <2>2 DEF O!writeLink
    <3> QED BY <3>1, <3>2, <3>3
  <2>3. ASSUME NEW r \in Requests, O!linkByEmail(r) PROVE Asked
    BY <2>1, <2>3 DEF O!linkByEmail
  <2>4. ASSUME NEW r \in Requests, O!followEmail(r) PROVE Asked
    BY <2>1, <2>4 DEF O!followEmail, O!Rows
  <2>5. ASSUME NEW r \in Requests, O!create(r) PROVE Asked
    BY <2>1, <2>5 DEF O!create
  <2>6. ASSUME NEW r \in Requests, NEW row \in O!Rows, callbacks[r] \in O!Saves, O!save(r, row)
        PROVE  \A u \in Users :
                   users'[u] # users[u] => u = callbacks[r].user /\ users'[u] = row
    <3>1. \/ users' = users
          \/ users' = [users EXCEPT ![callbacks[r].user] = row]
      BY <2>6 DEF O!save
    <3> QED BY <2>1, <3>1
  <2>7. ASSUME NEW r \in Requests, O!saveUnlinked(r) PROVE Asked
    <3> DEFINE row == [callbacks[r].row EXCEPT !.subject = None]
    <3>1. callbacks[r] \in O!Saves
      BY <2>7, LocalsAt DEF O!saveUnlinked, OAuthInv, O!TypeOK, Callback
    <3>2. row \in O!Rows /\ row.subject = None
      BY <3>1 DEF O!Saves, O!Rows
    <3>3. O!save(r, row)
      BY <2>7 DEF O!saveUnlinked
    <3> HIDE DEF row
    <3> QED BY <2>6, <3>1, <3>2, <3>3
  <2>8. ASSUME NEW r \in Requests, O!saveUpdated(r) PROVE Asked
    <3>1. callbacks[r] \in O!Saves /\ callbacks[r].pc = "update"
      BY <2>8, LocalsAt DEF O!saveUpdated, OAuthInv, O!TypeOK, Callback
    <3>2. callbacks[r].row \in O!Rows /\ O!save(r, callbacks[r].row)
      BY <2>8, <3>1 DEF O!saveUpdated, O!Saves
    <3> QED BY <2>6, <3>1, <3>2
  <2>9. ASSUME NEW u \in Users, NEW active \in BOOLEAN, O!SetUserStatus(u, active) PROVE Asked
    BY <2>1, <2>9 DEF O!SetUserStatus, O!Rows
  <2>10. CASE UNCHANGED users
    BY <2>10
  <2> QED
    BY <2>2, <2>3, <2>4, <2>5, <2>7, <2>8, <2>9, <2>10
    DEF O!Next, O!LoginWithProvider, O!LinkAccount, O!beginOAuthFlow, O!refuseCallback,
        O!takeOAuthState, O!logout, O!fail, O!checkSession, O!LinkOAuthAccount, O!findBySubject,
        O!findByEmail, O!startSession, O!UnlinkAccount, O!UpdateUser, O!expire
<1> QED BY <1>1, OAuthInvariant, PTL DEF O!Spec, O!LinkIsAskedFor

-----------------------------------------------------------------------------
(* The settings of the provider (OAuthSettings).                           *)

\* What the local variables of a request under way may be.
Writing == [pc : {"saveID", "saveSecret", "restore"}, app : Apps, secret : BOOLEAN,
            prev : C!Values, sure : BOOLEAN, alone : BOOLEAN]

\* Each request is idle or has its locals: OAuthSettings' TypeOK.
LEMMA WritingOrIdle ==
    ASSUME C!TypeOK, NEW u \in Requests
    PROVE  updates[u] = C!Idle \/ updates[u] \in Writing
BY DEF C!TypeOK, Writing

\* An update that is not idle is between its writes.
LEMMA IdleIsIdle ==
    ASSUME C!TypeOK, NEW u \in Requests, updates[u].pc # "idle"
    PROVE  updates[u] \in Writing
BY DEF C!TypeOK, Writing, C!Idle

\* The updates next to one keep their type when they become mixed.
LEMMA OthersType ==
    ASSUME C!TypeOK, NEW u \in Requests
    PROVE  C!others(u) \in [Requests -> {C!Idle} \cup Writing]
<1>1. ASSUME NEW v \in Requests
      PROVE  (IF v # u /\ updates[v].pc # "idle" THEN [updates[v] EXCEPT !.alone = FALSE]
              ELSE updates[v]) \in {C!Idle} \cup Writing
  <2>1. CASE updates[v].pc # "idle"
    BY <2>1, IdleIsIdle DEF Writing
  <2>2. CASE updates[v].pc = "idle"
    BY <2>2, WritingOrIdle
  <2> QED BY <2>1, <2>2
<1> QED BY <1>1 DEF C!others

\* OAuthSettings' variables keep their types.
THEOREM SettingsTypeCorrect ==
    C!Spec => []C!TypeOK
<1> USE SettingsAssumption
<1>1. C!Init => C!TypeOK
  <2> SUFFICES ASSUME C!Init PROVE C!TypeOK
    OBVIOUS
  <2>1. updates \in [Requests -> {C!Idle} \cup Writing]
    BY DEF C!Init
  <2>2. faults \in 0..MaxFaults
    BY DEF C!Init
  <2> QED BY <2>1, <2>2 DEF C!Init, C!TypeOK, C!Values, Writing
<1>2. C!TypeOK /\ [C!Next]_(C!vars) => C!TypeOK'
  <2> SUFFICES ASSUME C!TypeOK, [C!Next]_(C!vars) PROVE C!TypeOK'
    OBVIOUS
  <2> DEFINE Locals == {C!Idle} \cup Writing
  <2>1. /\ updates \in [Requests -> Locals] /\ clientID \in C!Values /\ clientSecret \in C!Values
        /\ mixed \in BOOLEAN /\ faults \in 0..MaxFaults
    BY DEF C!TypeOK, Writing
  <2>2. ASSUME /\ updates' \in [Requests -> Locals]
               /\ clientID' \in C!Values /\ clientSecret' \in C!Values
               /\ mixed' \in BOOLEAN /\ faults' \in 0..MaxFaults
        PROVE  C!TypeOK'
    BY <2>2 DEF C!TypeOK, Writing, C!Values, C!Idle
  <2>3. C!Idle \in Locals /\ Writing \subseteq Locals
    OBVIOUS
  <2>4. Apps \subseteq C!Values /\ None \in C!Values /\ Empty \in C!Values
    BY DEF C!Values
  <2>5. C!fault => faults' \in 0..MaxFaults
    BY <2>1 DEF C!fault
  <2>6. ASSUME NEW u \in Requests PROVE C!others(u) \in [Requests -> Locals]
    BY <2>6, OthersType
  <2>7. ASSUME NEW u \in Requests, updates[u].pc # "idle", NEW pc \in {"saveSecret", "restore"}
        PROVE  [C!others(u) EXCEPT ![u].pc = pc] \in [Requests -> Locals]
    <3>1. C!others(u)[u] \in Writing
      BY <2>7, IdleIsIdle DEF C!others
    <3>2. [C!others(u)[u] EXCEPT !.pc = pc] \in Writing
      BY <3>1 DEF Writing
    <3> QED BY <3>2, <2>3, <2>6
  <2>8. ASSUME NEW u \in Requests, updates[u].pc # "idle"
        PROVE  updates[u] \in Writing
    BY <2>8, IdleIsIdle
  <2> HIDE DEF Locals
  <2>9. ASSUME NEW u \in Requests, NEW app \in Apps, NEW s \in BOOLEAN,
               C!UpdateOAuthSettings(u, app, s)
        PROVE  C!TypeOK'
    <3>1. PICK sure \in BOOLEAN :
             /\ updates' = [C!others(u) EXCEPT ![u] =
                      [pc |-> "saveID", app |-> app, secret |-> s,
                       prev |-> IF sure THEN clientID ELSE None, sure |-> sure,
                       alone |-> \A v \in Requests : updates[v].pc = "idle"]]
             /\ IF sure THEN UNCHANGED faults ELSE C!fault
      BY <2>9 DEF C!UpdateOAuthSettings
    <3>2. [pc |-> "saveID", app |-> app, secret |-> s,
           prev |-> IF sure THEN clientID ELSE None, sure |-> sure,
           alone |-> \A v \in Requests : updates[v].pc = "idle"] \in Writing
      BY <2>1, <2>4 DEF Writing
    <3>3. updates' \in [Requests -> Locals]
      BY <3>1, <3>2, <2>3, <2>6
    <3>4. faults' \in 0..MaxFaults
      BY <3>1, <2>1, <2>5
    <3> QED BY <3>3, <3>4, <2>9, <2>1, <2>2 DEF C!UpdateOAuthSettings
  <2>10. ASSUME NEW u \in Requests, C!saveID(u) PROVE C!TypeOK'
    <3>1. updates[u] \in Writing
      BY <2>8, <2>10 DEF C!saveID
    <3>2. clientID' \in C!Values
      BY <3>1, <2>4, <2>10 DEF C!saveID, Writing
    <3>3. updates' \in [Requests -> Locals] /\ mixed' \in BOOLEAN
      BY <2>1, <2>3, <2>6, <2>7, <2>10 DEF C!saveID
    <3> QED BY <3>2, <3>3, <2>1, <2>2, <2>10 DEF C!saveID
  <2>11. ASSUME NEW u \in Requests, NEW both \in BOOLEAN, C!end(u, both)
         PROVE  updates' \in [Requests -> Locals] /\ mixed' \in BOOLEAN
    BY <2>1, <2>3, <2>6, <2>11 DEF C!end
  <2>12. ASSUME NEW u \in Requests, C!saveIDFails(u) PROVE C!TypeOK'
    BY <2>1, <2>2, <2>5, <2>11, <2>12 DEF C!saveIDFails
  <2>13. ASSUME NEW u \in Requests, C!saveSecret(u) PROVE C!TypeOK'
    <3>1. updates[u] \in Writing
      BY <2>8, <2>13 DEF C!saveSecret
    <3>2. clientSecret' \in C!Values
      BY <3>1, <2>4, <2>13 DEF C!saveSecret, Writing
    <3> QED BY <3>2, <2>1, <2>2, <2>11, <2>13 DEF C!saveSecret
  <2>14. ASSUME NEW u \in Requests, C!saveSecretFails(u) PROVE C!TypeOK'
    <3>1. [updates[u] EXCEPT !.pc = "restore"] \in Writing
      BY <2>8, <2>14 DEF C!saveSecretFails, Writing
    <3>2. updates' \in [Requests -> Locals]
      BY <3>1, <2>1, <2>3, <2>14 DEF C!saveSecretFails
    <3> QED BY <3>2, <2>1, <2>2, <2>5, <2>14 DEF C!saveSecretFails
  <2>15. ASSUME NEW u \in Requests, C!restore(u) PROVE C!TypeOK'
    <3>1. updates[u] \in Writing
      BY <2>8, <2>15 DEF C!restore
    <3>2. clientID' \in C!Values
      BY <3>1, <2>4, <2>15 DEF C!restore, Writing
    <3>3. updates' \in [Requests -> Locals] /\ mixed' \in BOOLEAN
      BY <3>1, <2>1, <2>3, <2>6, <2>15 DEF C!restore
    <3> QED BY <3>2, <3>3, <2>1, <2>2, <2>15 DEF C!restore
  <2>16. ASSUME NEW u \in Requests, C!restoreFails(u) PROVE C!TypeOK'
    BY <2>1, <2>2, <2>3, <2>5, <2>6, <2>16 DEF C!restoreFails
  <2>17. ASSUME NEW app \in Apps, NEW s \in BOOLEAN, C!SaveGitHubCredentials(app, s)
         PROVE  C!TypeOK'
    <3>1. ASSUME NEW v \in Requests
          PROVE  (IF updates[v].pc = "idle" THEN C!Idle ELSE [updates[v] EXCEPT !.alone = FALSE])
                   \in Locals
      <4>1. CASE updates[v].pc # "idle"
        BY <4>1, <2>3, <2>8 DEF Writing
      <4> QED BY <4>1, <2>3
    <3>2. updates' \in [Requests -> Locals]
      BY <3>1, <2>17 DEF C!SaveGitHubCredentials
    <3> QED BY <3>2, <2>1, <2>2, <2>4, <2>17 DEF C!SaveGitHubCredentials, C!SetSettings
  <2>18. ASSUME C!crash PROVE C!TypeOK'
    BY <2>1, <2>2, <2>3, <2>5, <2>18 DEF C!crash
  <2>19. CASE UNCHANGED C!vars
    BY <2>1, <2>2, <2>19 DEF C!vars
  <2> QED BY <2>9, <2>10, <2>12, <2>13, <2>14, <2>15, <2>16, <2>17, <2>18, <2>19 DEF C!Next
<1> QED BY <1>1, <1>2, PTL DEF C!Spec

\* Sign-ins with these two rows present one registration, or none.
Fits(id, secret) ==
    \/ C!overlay(id) = Empty \/ C!overlay(secret) = Empty
    \/ C!overlay(id) = C!overlay(secret)

\* PairFits holds also while requests have read the id and not yet written ...
SettledFits ==
    mixed \/ (\E u \in Requests : updates[u].pc \in {"saveSecret", "restore"})
        \/ Fits(clientID, clientSecret)

\* ... and what a request that met no other knows makes up for its first write:
\* it is the only one; and the id it read, if it could, fits the secret.
AloneIsOnly ==
    \A u, v \in Requests : updates[u].pc # "idle" /\ updates[u].alone /\ v # u =>
        updates[v].pc = "idle"

Knows(u) ==
    /\ updates[u].pc = "saveID" /\ updates[u].sure => updates[u].prev = clientID
    /\ updates[u].pc = "saveSecret" => clientID = updates[u].app
    /\ updates[u].pc \in {"saveSecret", "restore"} /\ updates[u].sure =>
         mixed \/ Fits(updates[u].prev, clientSecret)

AloneKnows == \A u \in Requests : updates[u].pc # "idle" /\ updates[u].alone => Knows(u)

PairInv == SettledFits /\ AloneIsOnly /\ AloneKnows


\* Next to the one that writes an update stays where it is, and is no longer alone.
LEMMA OthersOf ==
    ASSUME C!TypeOK, NEW u \in Requests, NEW v \in Requests, v # u
    PROVE  /\ C!others(u)[v].pc = updates[v].pc
           /\ updates[v].pc # "idle" => C!others(u)[v].alone = FALSE
<1>1. CASE updates[v].pc # "idle"
  BY <1>1, IdleIsIdle DEF C!others, Writing
<1>2. CASE updates[v].pc = "idle"
  BY <1>2 DEF C!others
<1> QED BY <1>1, <1>2

\* The one that writes is not among them.
LEMMA OthersSelf ==
    ASSUME NEW u \in Requests
    PROVE  C!others(u)[u] = updates[u] /\ C!others(u) = [v \in Requests |-> C!others(u)[v]]
BY DEF C!others

\* What is left to show of a step of u after which no other request is alone.
LEMMA PairStep ==
    ASSUME C!TypeOK', NEW u \in Requests,
           \A v \in Requests \ {u} : /\ updates'[v].pc = updates[v].pc
                                     /\ updates'[v].pc # "idle" => updates'[v].alone = FALSE,
           updates'[u].pc # "idle" /\ updates'[u].alone =>
               Knows(u)' /\ \A v \in Requests \ {u} : updates[v].pc = "idle",
           SettledFits'
    PROVE  PairInv'
BY DEF PairInv, AloneIsOnly, AloneKnows

\* An id that is empty fits what no id fits.
LEMMA EmptyIsNone ==
    ASSUME NEW s
    PROVE  Fits(None, s) <=> Fits(Empty, s)
BY SettingsAssumption DEF Fits, C!overlay

\* PairFits, for any number of requests, faults and crashes.
THEOREM PairFitsInv ==
    C!Spec => []PairFits
<1> USE SettingsAssumption
<1>1. C!Init => PairInv
  <2> SUFFICES ASSUME C!Init PROVE PairInv
    OBVIOUS
  <2>1. \A u \in Requests : updates[u].pc = "idle"
    BY DEF C!Init, C!Idle
  <2>2. SettledFits
    BY DEF C!Init, SettledFits, Fits, C!overlay
  <2> QED BY <2>1, <2>2 DEF PairInv, AloneIsOnly, AloneKnows
<1>2. C!TypeOK /\ C!TypeOK' /\ PairInv /\ [C!Next]_(C!vars) => PairInv'
  <2> SUFFICES ASSUME C!TypeOK, C!TypeOK', PairInv, [C!Next]_(C!vars) PROVE PairInv'
    OBVIOUS
  <2>1. ASSUME NEW u \in Requests, updates[u].pc # "idle", updates[u].alone
        PROVE  Knows(u) /\ \A v \in Requests \ {u} : updates[v].pc = "idle"
    BY <2>1 DEF PairInv, AloneIsOnly, AloneKnows
  <2>2. ASSUME NEW u \in Requests, updates[u].pc # "idle"
        PROVE  updates[u] \in Writing
    BY <2>2, IdleIsIdle
  \* Steps that end request u, or give it a new place or new locals.
  <2>3. ASSUME NEW u \in Requests, updates' = [C!others(u) EXCEPT ![u] = updates'[u]]
        PROVE  \A v \in Requests \ {u} : /\ updates'[v].pc = updates[v].pc
                                         /\ updates'[v].pc # "idle" => updates'[v].alone = FALSE
    <3>1. \A v \in Requests \ {u} : updates'[v] = C!others(u)[v]
      BY <2>3, OthersSelf
    <3> QED BY <3>1, OthersOf
  <2>4. ASSUME NEW u \in Requests, updates' = [C!others(u) EXCEPT ![u] = C!Idle], SettledFits'
        PROVE  PairInv'
    <3>1. updates'[u] = C!Idle
      BY <2>4, OthersSelf
    <3>2. updates'[u].pc = "idle"
      BY <3>1 DEF C!Idle
    <3> QED BY <3>2, <3>1, <2>3, <2>4, PairStep
  <2>5. ASSUME NEW u \in Requests, NEW app \in Apps, NEW s \in BOOLEAN,
               C!UpdateOAuthSettings(u, app, s)
        PROVE  PairInv'
    <3>1. PICK sure \in BOOLEAN : updates' = [C!others(u) EXCEPT ![u] =
                      [pc |-> "saveID", app |-> app, secret |-> s,
                       prev |-> IF sure THEN clientID ELSE None, sure |-> sure,
                       alone |-> \A v \in Requests : updates[v].pc = "idle"]]
      BY <2>5 DEF C!UpdateOAuthSettings
    <3>2. /\ updates'[u] = [pc |-> "saveID", app |-> app, secret |-> s,
                       prev |-> IF sure THEN clientID ELSE None, sure |-> sure,
                       alone |-> \A v \in Requests : updates[v].pc = "idle"]
          /\ \A v \in Requests \ {u} : /\ updates'[v].pc = updates[v].pc
                                       /\ updates'[v].pc # "idle" => updates'[v].alone = FALSE
      <4>1. updates'[u] = [pc |-> "saveID", app |-> app, secret |-> s,
                       prev |-> IF sure THEN clientID ELSE None, sure |-> sure,
                       alone |-> \A v \in Requests : updates[v].pc = "idle"]
        BY <3>1, OthersSelf
      <4> QED BY <3>1, <4>1, <2>3
    <3>3. updates'[u].alone => Knows(u)' /\ \A v \in Requests \ {u} : updates[v].pc = "idle"
      BY <3>2, <2>5 DEF C!UpdateOAuthSettings, Knows
    <3>4. SettledFits'
      BY <3>2, <2>5 DEF C!UpdateOAuthSettings, PairInv, SettledFits, Fits, C!overlay
    <3> QED BY <3>2, <3>3, <3>4, PairStep
  <2>6. ASSUME NEW u \in Requests, C!saveID(u) PROVE PairInv'
    <3>1. updates[u] \in Writing
      BY <2>2, <2>6 DEF C!saveID
    <3>2. CASE ~updates[u].secret
      BY <3>2, <2>4, <2>6 DEF C!saveID, SettledFits
    <3>3. CASE updates[u].secret
      <4>1. updates' = [C!others(u) EXCEPT ![u] = [updates[u] EXCEPT !.pc = "saveSecret"]]
        BY <3>3, <2>6, OthersSelf DEF C!saveID
      <4>2. updates'[u] = [updates[u] EXCEPT !.pc = "saveSecret"]
        BY <4>1, OthersSelf
      <4>3. /\ updates'[u].pc = "saveSecret" /\ updates'[u].alone = updates[u].alone
            /\ updates'[u].sure = updates[u].sure /\ updates'[u].prev = updates[u].prev
            /\ updates'[u].app = updates[u].app
        BY <4>2, <3>1 DEF Writing
      <4>4. SettledFits'
        BY <4>3 DEF SettledFits
      <4>5. ASSUME updates[u].alone
            PROVE  Knows(u)' /\ \A v \in Requests \ {u} : updates[v].pc = "idle"
        <5>1. Knows(u) /\ \A v \in Requests \ {u} : updates[v].pc = "idle"
          BY <4>5, <2>1, <2>6 DEF C!saveID
        <5>2. mixed \/ Fits(clientID, clientSecret)
          BY <5>1, <2>6 DEF PairInv, SettledFits, C!saveID
        <5>3. clientID' = updates[u].app /\ clientSecret' = clientSecret /\ mixed' = mixed
          BY <2>6, <3>3 DEF C!saveID
        <5>4. updates[u].sure => updates[u].prev = clientID
          BY <5>1, <2>6 DEF Knows, C!saveID
        <5>5. Knows(u)'
          BY <4>3, <5>2, <5>3, <5>4 DEF Knows, Fits, C!overlay
        <5> QED BY <5>1, <5>5
      <4> QED BY <4>1, <4>2, <4>3, <4>4, <4>5, <2>3, PairStep
    <3> QED BY <3>2, <3>3
  <2>7. ASSUME NEW u \in Requests, C!saveIDFails(u) PROVE PairInv'
    <3>1. updates' = [C!others(u) EXCEPT ![u] = C!Idle]
      BY <2>7 DEF C!saveIDFails, C!end
    <3>2. SettledFits'
      <4>1. CASE updates[u].alone
        <5>1. \A v \in Requests : updates[v].pc \notin {"saveSecret", "restore"}
          BY <4>1, <2>1, <2>7 DEF C!saveIDFails
        <5> QED
          BY <4>1, <5>1, <2>7 DEF C!saveIDFails, C!end, PairInv, SettledFits, Fits, C!overlay
      <4>2. CASE ~updates[u].alone
        BY <4>2, <2>7 DEF C!saveIDFails, C!end, SettledFits
      <4> QED BY <4>1, <4>2
    <3> QED BY <3>1, <3>2, <2>4
  <2>8. ASSUME NEW u \in Requests, C!saveSecret(u) PROVE PairInv'
    <3>1. updates' = [C!others(u) EXCEPT ![u] = C!Idle]
      BY <2>8 DEF C!saveSecret, C!end
    <3>2. SettledFits'
      <4>1. CASE updates[u].alone
        <5>1. Knows(u)
          BY <4>1, <2>1, <2>8 DEF C!saveSecret
        <5> QED BY <5>1, <2>8 DEF C!saveSecret, SettledFits, Fits, Knows, C!overlay
      <4>2. CASE ~updates[u].alone
        BY <4>2, <2>8 DEF C!saveSecret, C!end, SettledFits
      <4> QED BY <4>1, <4>2
    <3> QED BY <3>1, <3>2, <2>4
  <2>9. ASSUME NEW u \in Requests, C!saveSecretFails(u) PROVE PairInv'
    <3>1. updates[u] \in Writing
      BY <2>2, <2>9 DEF C!saveSecretFails
    <3>2. /\ updates' = [updates EXCEPT ![u].pc = "restore"]
          /\ updates'[u] = [updates[u] EXCEPT !.pc = "restore"]
          /\ \A v \in Requests \ {u} : updates'[v] = updates[v]
      BY <2>9 DEF C!saveSecretFails, C!TypeOK
    <3>3. /\ updates'[u].pc = "restore" /\ updates'[u].alone = updates[u].alone
          /\ updates'[u].sure = updates[u].sure /\ updates'[u].prev = updates[u].prev
      BY <3>1, <3>2 DEF Writing
    <3>4. SettledFits'
      BY <3>3 DEF SettledFits
    <3>5. AloneIsOnly'
      BY <3>2, <3>3, <2>9 DEF PairInv, AloneIsOnly, C!saveSecretFails
    <3>6. ASSUME NEW v \in Requests, updates'[v].pc # "idle", updates'[v].alone PROVE Knows(v)'
      <4>1. v = u
        BY <3>6, <3>2, <2>1, <2>9 DEF C!saveSecretFails
      <4>2. Knows(u)
        BY <4>1, <3>3, <3>6, <2>1, <2>9 DEF C!saveSecretFails
      <4> QED BY <4>1, <4>2, <3>3, <2>9 DEF Knows, C!saveSecretFails, Fits, C!overlay
    <3> QED BY <3>4, <3>5, <3>6 DEF PairInv, AloneKnows
  <2>10. ASSUME NEW u \in Requests, C!restore(u) PROVE PairInv'
    <3>1. updates' = [C!others(u) EXCEPT ![u] = C!Idle]
      BY <2>10 DEF C!restore
    <3>2. SettledFits'
      <4>1. CASE updates[u].alone /\ updates[u].sure
        <5>1. mixed \/ Fits(updates[u].prev, clientSecret)
          BY <4>1, <2>1, <2>10 DEF C!restore, Knows
        <5>2. mixed \/ Fits(clientID', clientSecret)
          BY <5>1, <2>10, EmptyIsNone DEF C!restore
        <5> QED BY <5>2, <2>10 DEF C!restore, SettledFits, Fits, C!overlay
      <4>2. CASE ~(updates[u].alone /\ updates[u].sure)
        BY <4>2, <2>10 DEF C!restore, SettledFits
      <4> QED BY <4>1, <4>2
    <3> QED BY <3>1, <3>2, <2>4
  <2>11. ASSUME NEW u \in Requests, C!restoreFails(u) PROVE PairInv'
    BY <2>4, <2>11 DEF C!restoreFails, SettledFits
  <2>12. ASSUME NEW app \in Apps, NEW s \in BOOLEAN, C!SaveGitHubCredentials(app, s)
         PROVE  PairInv'
    <3>1. \A v \in Requests : updates'[v].pc # "idle" => ~updates'[v].alone
      BY <2>2, <2>12 DEF C!SaveGitHubCredentials, Writing, C!Idle
    <3>2. SettledFits'
      BY <2>12 DEF C!SaveGitHubCredentials, C!SetSettings, SettledFits, Fits, C!overlay
    <3> QED BY <3>1, <3>2 DEF PairInv, AloneIsOnly, AloneKnows
  <2>13. ASSUME C!crash PROVE PairInv'
    <3>1. \A v \in Requests : updates'[v].pc = "idle"
      BY <2>13 DEF C!crash, C!Idle
    <3>2. SettledFits'
      BY <2>13 DEF C!crash, PairInv, SettledFits, Fits, C!overlay
    <3> QED BY <3>1, <3>2 DEF PairInv, AloneIsOnly, AloneKnows
  <2>14. CASE UNCHANGED C!vars
    BY <2>14 DEF C!vars, PairInv, SettledFits, AloneIsOnly, AloneKnows, Knows, Fits, C!overlay
  <2> QED BY <2>5, <2>6, <2>7, <2>8, <2>9, <2>10, <2>11, <2>12, <2>13, <2>14 DEF C!Next
<1>3. PairInv => PairFits
  BY DEF PairInv, SettledFits, Fits, PairFits, C!PairFits, C!Configured, C!oauthProviderFromDB
<1> QED BY <1>1, <1>2, <1>3, SettingsTypeCorrect, PTL DEF C!Spec

-----------------------------------------------------------------------------
(* The buckets of the rate limiter (RateLimiter).                          *)

Bucket == [tokens : 0..(R!Unit * R!Burst), lastRefill : 0..MaxTime]

\* Whoever names a bucket has one that was made, and none is of the future.
BucketInv ==
    /\ R!TypeOK
    /\ limiters # None => bucket[limiters] # None
    /\ \A r \in Requests : holds[r].pc # "idle" => bucket[holds[r].bucket] # None
    /\ \A k \in Buckets : bucket[k] # None => bucket[k].lastRefill <= now

\* The product of two numbers is one.
LEMMA Product == ASSUME NEW m \in Nat, NEW n \in Nat PROVE m * n \in Nat
OBVIOUS

\* Every tier has a rate, a burst and so a capacity.
LEMMA RatesAreNumbers ==
    ASSUME tier \in Tiers
    PROVE  R!Rate \in Nat /\ R!Burst \in Nat /\ R!Unit \in Nat /\ R!Unit * R!Burst \in Nat
<1>1. /\ APIRequests \in Nat /\ AuthRequests \in Nat /\ Minute \in Nat
      /\ tier \in {"auth", "search", "dashboard", "api"}
  BY TiersAssumption
<1>2. ASSUME NEW n \in Nat
      PROVE  R!PerMinute(n).rate \in Nat /\ R!PerMinute(n).burst \in Nat
  BY DEF R!PerMinute
<1>3. ASSUME NEW n \in {3, 6}
      PROVE  R!fraction(n).rate \in Nat /\ R!fraction(n).burst \in Nat
  BY <1>1 DEF R!fraction
<1>4. R!limitFor(tier).rate \in Nat /\ R!limitFor(tier).burst \in Nat
  BY <1>1, <1>2, <1>3 DEF R!limitFor
<1>5. R!Rate \in Nat /\ R!Burst \in Nat /\ R!Unit \in Nat
  BY <1>1, <1>4 DEF R!Rate, R!Burst, R!Unit
<1> QED BY <1>5, Product

\* BucketInv holds in every state.
THEOREM BucketInvariant == R!Spec => []BucketInv
<1>1. R!Init => BucketInv
  <2> SUFFICES ASSUME R!Init PROVE BucketInv
    OBVIOUS
  <2>1. 0 \in 0..MaxTime
    BY ConstantsAssumption
  <2> QED BY <2>1 DEF R!Init, R!Idle, R!Times, R!TypeOK, BucketInv
<1>2. BucketInv /\ [R!Next]_(R!vars) => BucketInv'
  <2> SUFFICES ASSUME BucketInv, [R!Next]_(R!vars) PROVE BucketInv'
    OBVIOUS
  <2> DEFINE Full == R!Unit * R!Burst
  <2>1. /\ tier \in Tiers /\ R!Rate \in Nat /\ R!Burst \in Nat /\ R!Unit \in Nat /\ Full \in Nat
    BY RatesAreNumbers DEF BucketInv, R!TypeOK
  <2>2. /\ bucket \in [Buckets -> Bucket \cup {None}] /\ now \in Nat /\ now <= MaxTime
        /\ MaxTime \in Nat /\ now \in R!Times
        /\ holds \in [Requests -> {R!Idle} \cup [pc : {"store", "allow"}, bucket : Buckets]]
        /\ limiters \in Buckets \cup {None} /\ doomed \in Buckets \cup {None}
    BY ConstantsAssumption DEF BucketInv, R!TypeOK, Bucket, R!Times
  <2>3. None \notin Bucket /\ None \notin Buckets
    BY <2>1, <2>2, TiersAssumption DEF Bucket
  <2>4. tier' = tier /\ R!Burst' = R!Burst /\ Bucket' = Bucket
    BY DEF R!Next, R!Middleware, R!load, R!loadOrStore, R!allow, R!newRateLimiter, R!inspect,
           R!delete, R!tick, R!vars, R!Burst, Bucket
  <2>5. ASSUME now' \in R!Times, now <= now',
               bucket' \in [Buckets -> Bucket \cup {None}],
               limiters' \in Buckets \cup {None}, doomed' \in Buckets \cup {None},
               holds' \in [Requests -> {R!Idle} \cup [pc : {"store", "allow"}, bucket : Buckets]],
               dropped' \subseteq Buckets, admitted' \in [R!Times -> Nat], strays' \in [R!Times -> Nat],
               limiters' # None => bucket'[limiters'] # None,
               \A r \in Requests : holds'[r].pc # "idle" => bucket'[holds'[r].bucket] # None,
               \A k \in Buckets : bucket'[k] = bucket[k] \/ bucket'[k].lastRefill <= now
        PROVE  BucketInv'
    <3>1. R!TypeOK'
      BY <2>1, <2>4, <2>5 DEF R!TypeOK, Bucket, R!Times
    <3>2. ASSUME NEW k \in Buckets, bucket'[k] # None PROVE bucket'[k].lastRefill <= now'
      <4>1. bucket'[k] \in Bucket
        BY <2>5, <3>2
      <4>2. bucket'[k].lastRefill \in Nat /\ bucket'[k].lastRefill <= now /\ now' \in Nat
        BY <2>2, <2>5, <3>2, <4>1 DEF BucketInv, R!Times, Bucket
      <4> QED BY <2>2, <2>5, <4>2
    <3> QED BY <2>5, <3>1, <3>2 DEF BucketInv
  <2> HIDE DEF Full
  <2>6. ASSUME NEW r \in Requests, R!load(r) PROVE BucketInv'
    BY <2>2, <2>5, <2>6 DEF R!load, BucketInv, R!TypeOK, R!Idle
  <2>7. ASSUME NEW r \in Requests, R!loadOrStore(r) PROVE BucketInv'
    BY <2>2, <2>3, <2>5, <2>7 DEF R!loadOrStore, BucketInv, R!TypeOK, R!Idle
  <2>8. ASSUME NEW r \in Requests, NEW k \in Buckets, R!newRateLimiter(r, k) PROVE BucketInv'
    <3> DEFINE new == [tokens |-> R!Unit * R!Burst, lastRefill |-> now]
    <3>1. new \in Bucket /\ new.lastRefill <= now
      BY <2>1, <2>2 DEF Bucket, Full
    <3>2. /\ bucket' = [bucket EXCEPT ![k] = new]
          /\ holds' = [holds EXCEPT ![r] = [pc |-> "store", bucket |-> k]]
          /\ UNCHANGED <<now, limiters, doomed, dropped, admitted, strays>>
      BY <2>8 DEF R!newRateLimiter
    <3> HIDE DEF new
    <3> QED BY <2>2, <2>3, <2>5, <3>1, <3>2 DEF BucketInv, R!TypeOK, R!Idle
  <2>9. ASSUME NEW r \in Requests, R!allow(r) PROVE BucketInv'
    <3> DEFINE k == holds[r].bucket
               full == bucket[k].tokens + R!Rate * (now - bucket[k].lastRefill)
               tokens == IF full > R!Unit * R!Burst THEN R!Unit * R!Burst ELSE full
               ok == IF tokens >= R!Unit THEN 1 ELSE 0
               new == [tokens |-> tokens - R!Unit * ok, lastRefill |-> now]
    <3>1. k \in Buckets /\ bucket[k] \in Bucket /\ bucket[k].lastRefill <= now
      BY <2>2, <2>9 DEF R!allow, R!Idle, BucketInv
    <3>2. now - bucket[k].lastRefill \in Nat /\ bucket[k].tokens \in Nat
      BY <2>1, <2>2, <3>1 DEF Bucket, Full
    <3>3. full \in Nat
      BY <2>1, <3>2, Product
    <3> HIDE DEF full
    <3>4. tokens \in 0..Full
      BY <2>1, <3>3 DEF Full
    <3> HIDE DEF tokens
    <3>5. tokens - R!Unit * ok \in 0..Full
      BY <2>1, <3>4
    <3>6. ok \in Nat /\ new \in Bucket /\ new.lastRefill <= now
      BY <2>2, <3>5 DEF Bucket, Full
    <3>7. /\ bucket' = [bucket EXCEPT ![k] = new]
          /\ admitted' = R!more(admitted, ok)
          /\ strays' = R!more(strays, ok) \/ strays' = strays
          /\ holds' = [holds EXCEPT ![r] = R!Idle]
          /\ UNCHANGED <<now, limiters, doomed, dropped>>
      BY <2>9 DEF R!allow, full, tokens
    <3> HIDE DEF ok, new, k
    <3>8. admitted' \in [R!Times -> Nat] /\ strays' \in [R!Times -> Nat]
      BY <2>2, <3>6, <3>7 DEF BucketInv, R!TypeOK, R!more
    <3> QED BY <2>2, <2>3, <2>5, <3>1, <3>6, <3>7, <3>8 DEF BucketInv, R!TypeOK, R!Idle
  <2>10. CASE R!inspect
    BY <2>2, <2>5, <2>10 DEF R!inspect, BucketInv, R!TypeOK
  <2>11. CASE R!delete
    BY <2>2, <2>5, <2>11 DEF R!delete, BucketInv, R!TypeOK
  <2>12. CASE R!tick
    BY <2>2, <2>5, <2>12 DEF R!tick, BucketInv, R!TypeOK, R!Times
  <2>13. CASE UNCHANGED R!vars
    BY <2>2, <2>5, <2>13 DEF R!vars, BucketInv, R!TypeOK
  <2> QED BY <2>6, <2>7, <2>8, <2>9, <2>10, <2>11, <2>12, <2>13 DEF R!Next, R!Middleware
<1> QED BY <1>1, <1>2, PTL DEF R!Spec

-----------------------------------------------------------------------------
(* The budget of a client (RateLimiter): what its bucket holds is what the  *)
(* burst and the refill have left of it.                                    *)

\* What buckets granted that the worker had not yet looked at for the last time.
Granted(from, to) == R!Within(admitted, from, to) - R!Within(strays, from, to)

\* Requests draw on the bucket in the map or on dropped ones; one that is made and not yet
\* stored is full and its maker's alone.
OneBudget ==
    /\ doomed # None => doomed = limiters
    /\ limiters \notin dropped
    /\ \A k \in dropped : bucket[k] # None
    /\ \A r \in Requests : holds[r].pc = "allow" => holds[r].bucket \in dropped \cup {limiters}
    /\ \A r \in Requests : holds[r].pc = "store" =>
          /\ holds[r].bucket \notin dropped \cup {limiters}
          /\ bucket[holds[r].bucket].tokens = R!Capacity
    /\ \A r, q \in Requests : /\ holds[r].pc = "store" /\ holds[q].pc = "store"
                              /\ holds[r].bucket = holds[q].bucket
                              => r = q

\* Nobody has been let through in the future.
NoneAhead == \A t \in R!Times : t >= now => admitted[t] = admitted[now] /\ strays[t] = strays[now]

\* What was granted since any time and what may be granted now are within the budget.
Spent == \A from \in 0..now : R!Unit * Granted(from, now) + R!level <= R!Capacity + R!Rate * (now - from)

\* The inductive invariant.
BudgetInv == BucketInv /\ OneBudget /\ NoneAhead /\ Spent /\ R!BudgetHolds

\* A product grows by its factor.
LEMMA OneMore == ASSUME NEW m \in Nat, NEW n \in Int PROVE m * (n + 1) = m * n + m /\ m * n \in Int
OBVIOUS

\* A larger factor makes a larger product.
LEMMA Larger == ASSUME NEW m \in Nat, NEW n \in Nat, NEW k \in Nat, k <= n PROVE m * k <= m * n
<1>1. m * n = m * k + m * (n - k) /\ n - k \in Nat
  OBVIOUS
<1>2. m * (n - k) \in Nat /\ m * k \in Nat
  BY <1>1, Product
<1> QED BY <1>1, <1>2

\* A bucket that the worker drops would be full again.
LEMMA FullAgain ==
    ASSUME tier \in Tiers, NEW n \in Nat, n > MaxIdle
    PROVE  R!Rate * n >= R!Capacity
<1>1. R!Rate * (MaxIdle + 1) >= R!Capacity
  BY RefillAssumption DEF R!Rate, R!Burst, R!Capacity
<1>2. R!Rate * (MaxIdle + 1) <= R!Rate * n
  BY Larger, RatesAreNumbers, TiersAssumption
<1>3. R!Rate * n \in Nat /\ R!Rate * (MaxIdle + 1) \in Nat /\ R!Capacity \in Nat
  BY Product, RatesAreNumbers, TiersAssumption DEF R!Capacity
<1> QED BY <1>1, <1>2, <1>3

\* What BucketInv says of the bucket in the map.
LEMMA LevelIsNumber ==
    ASSUME BucketInv
    PROVE  /\ R!Capacity \in Nat /\ R!level \in 0..R!Capacity
           /\ R!Rate \in Nat /\ R!Unit \in Nat /\ now \in Nat /\ R!Times \subseteq Nat
           /\ limiters # None =>
                 /\ bucket[limiters].tokens \in 0..R!Capacity
                 /\ now - bucket[limiters].lastRefill \in Nat
                 /\ R!Rate * (now - bucket[limiters].lastRefill) \in Nat
<1>1. tier \in Tiers /\ limiters \in Buckets \cup {None} /\ now \in Nat /\ R!Times \subseteq Nat
  BY ConstantsAssumption DEF BucketInv, R!TypeOK, R!Times
<1>2. R!Capacity \in Nat /\ R!Rate \in Nat /\ R!Unit \in Nat
  BY <1>1, RatesAreNumbers DEF R!Capacity
<1>3. ASSUME limiters # None
      PROVE  /\ bucket[limiters].tokens \in 0..R!Capacity
             /\ now - bucket[limiters].lastRefill \in Nat
  <2>1. /\ bucket[limiters] \in [tokens : 0..R!Capacity, lastRefill : R!Times]
        /\ bucket[limiters].lastRefill <= now
    BY <1>1, <1>3 DEF BucketInv, R!TypeOK, R!Capacity
  <2>2. bucket[limiters].lastRefill \in Nat
    BY <1>1, <2>1
  <2> QED BY <1>1, <2>1, <2>2
<1>4. limiters # None => R!Rate * (now - bucket[limiters].lastRefill) \in Nat
  BY <1>2, <1>3, Product
<1>5. R!level \in 0..R!Capacity
  <2> QED BY <1>2, <1>3, <1>4 DEF R!level
<1> QED BY <1>1, <1>2, <1>3, <1>4, <1>5

\* A step that lets nobody through keeps what the budget is about, unless time passes, if
\* the level does not rise.
LEMMA NobodyPasses ==
    ASSUME BudgetInv, UNCHANGED <<now, tier, admitted, strays>>, R!level' = R!level
    PROVE  NoneAhead' /\ Spent' /\ R!BudgetHolds'
BY
   DEF BudgetInv, NoneAhead, Spent, Granted, R!BudgetHolds, R!Within, R!Times, R!Capacity,
       R!Rate,
       R!Burst, R!Unit

\* The assumption asks no more than the code has: a refill of at least one request a
\* minute, and ten minutes before a bucket is dropped.
LEMMA TenMinutesRefill ==
    ASSUME MaxIdle >= 10 * Minute, APIRequests > 0, NEW t \in Tiers
    PROVE  R!limitFor(t).rate * (MaxIdle + 1) >= R!Unit * R!limitFor(t).burst
<1>1. /\ APIRequests \in Nat /\ AuthRequests \in Nat /\ Minute \in Nat /\ MaxIdle \in Nat
      /\ t \in {"auth", "search", "dashboard", "api"}
  BY TiersAssumption
<1> DEFINE idle == MaxIdle + 1
<1>2. idle \in Nat /\ idle >= 6 * Minute
  BY <1>1
<1> HIDE DEF idle
<1>3. ASSUME NEW n \in Nat
      PROVE  R!PerMinute(n).rate * idle >= R!Unit * R!PerMinute(n).burst
  <2>1. n * (6 * idle) >= n * (6 * Minute)
    BY <1>1, <1>2, Larger
  <2>2. n * (6 * idle) = (6 * n) * idle /\ n * (6 * Minute) = (6 * Minute) * n
    BY <1>1, <1>2
  <2> QED BY <2>1, <2>2 DEF R!PerMinute, R!Unit
<1>4. ASSUME NEW n \in {3, 6}
      PROVE  R!fraction(n).rate * idle >= R!Unit * R!fraction(n).burst
  <2> DEFINE rate == (6 \div n) * APIRequests
             burst == IF APIRequests < n THEN 1 ELSE APIRequests \div n
  <2>1. rate \in Nat /\ burst \in Nat /\ burst <= APIRequests /\ APIRequests <= rate
    BY <1>1, <1>4
  <2> HIDE DEF rate, burst
  <2>2. idle * burst <= idle * rate
    <3>1. burst <= rate
      BY <1>1, <2>1
    <3> QED BY <1>2, <2>1, <3>1, Larger
  <2>3. burst * idle >= burst * (6 * Minute)
    BY <1>1, <1>2, <2>1, Larger
  <2>4. /\ idle * rate = rate * idle /\ idle * burst = burst * idle
        /\ burst * (6 * Minute) = (6 * Minute) * burst
        /\ {rate * idle, burst * idle, (6 * Minute) * burst} \subseteq Nat
    BY <1>1, <1>2, <2>1, Product
  <2>5. rate * idle >= (6 * Minute) * burst
    BY <2>2, <2>3, <2>4
  <2> QED BY <2>5 DEF R!fraction, R!Unit, rate, burst
<1> QED BY <1>1, <1>3, <1>4 DEF R!limitFor, idle

\* Letting n requests through counts in every stretch that ends now, and in no other.
LEMMA MorePass ==
    ASSUME now \in Nat, R!Times \subseteq Nat, NEW f \in [R!Times -> Nat], NEW n \in {0, 1},
           0..now \subseteq R!Times, NEW from \in 0..now, NEW to \in 0..now
    PROVE  /\ R!Within(f, from, to) \in Int
           /\ R!Within(R!more(f, n), from, to) =
                R!Within(f, from, to) + (IF to = now THEN n ELSE 0)
<1>1. /\ from \in Nat /\ to \in Nat /\ to \in R!Times
      /\ from # 0 => from - 1 \in 0..now /\ from - 1 < now /\ from - 1 \in R!Times
  OBVIOUS
<1>2. /\ R!more(f, n)[to] = IF to = now THEN f[to] + n ELSE f[to]
      /\ from # 0 => R!more(f, n)[from - 1] = f[from - 1]
  BY <1>1 DEF R!more
<1> QED BY <1>1, <1>2 DEF R!Within

\* Within the budget is within the burst, the refill and what came on top.
LEMMA BudgetNow ==
    ASSUME NEW unit \in Nat, NEW burst \in Nat, NEW granted \in Int, NEW over \in Int,
           NEW refill \in Int, NEW level \in Nat,
           unit * (granted - over) + level <= unit * burst + refill
    PROVE  unit * granted <= unit * (burst + over) + refill
<1>1. /\ unit * (granted - over) = unit * granted - unit * over
      /\ unit * (burst + over) = unit * burst + unit * over
      /\ {unit * granted, unit * over, unit * burst} \subseteq Int
  OBVIOUS
<1> QED BY <1>1

\* A product of a sum is the sum of the products.
LEMMA Distribute == ASSUME NEW m \in Int, NEW n \in Int, NEW k \in Int
                    PROVE  m * (n + k) = m * n + m * k
OBVIOUS

\* A product of integers is one.
LEMMA IntProduct == ASSUME NEW m \in Int, NEW n \in Int PROVE m * n \in Int
OBVIOUS

\* A token or none is paid from a level.
LEMMA Paid ==
    ASSUME NEW unit \in Nat, NEW paid \in {0, 1}, NEW level \in Nat, NEW left \in Nat,
           unit * paid + left = level
    PROVE  IF paid = 0 THEN left = level ELSE level >= unit /\ left = level - unit
<1>1. CASE paid = 0
  BY <1>1
<1>2. CASE paid = 1
  <2>1. unit * 1 = unit
    OBVIOUS
  <2>2. unit + left = level
    BY <1>2, <2>1
  <2> QED BY <1>2, <2>2
<1> QED BY <1>1, <1>2

\* What is paid from the level does not change the sum of what was and what can be paid.
LEMMA PaidFrom ==
    ASSUME NEW unit \in Nat, NEW paid \in {0, 1}, NEW level \in Nat, NEW left \in Nat,
           unit * paid + left = level,
           NEW granted \in Int, NEW after \in Int, after = granted + paid, NEW all \in Int,
           unit * granted + level <= all
    PROVE  unit * after + left <= all
<1>1. unit * (granted + paid) = unit * granted + unit * paid
  BY Distribute
<1>2. unit * granted \in Int /\ unit * paid \in Int
  BY IntProduct
<1> QED BY <1>1, <1>2

\* Every step keeps the invariant, and is one of the one bucket or leaves it alone.
LEMMA BudgetStep ==
    BudgetInv /\ BucketInv' /\ [R!Next]_(R!vars)
        => BudgetInv' /\ [R!OneBucket!Next]_(R!OneBucket!vars)
<1> DEFINE Kept == BudgetInv' /\ [R!OneBucket!Next]_(R!OneBucket!vars)
<1> SUFFICES ASSUME BudgetInv, BucketInv', [R!Next]_(R!vars) PROVE Kept
  OBVIOUS
<1> DEFINE Filled == [tokens : 0..R!Capacity, lastRefill : R!Times]
<1>1. /\ tier \in Tiers /\ bucket \in [Buckets -> Filled \cup {None}]
      /\ limiters \in Buckets \cup {None} /\ doomed \in Buckets \cup {None}
      /\ holds \in [Requests -> {R!Idle} \cup [pc : {"store", "allow"}, bucket : Buckets]]
      /\ dropped \subseteq Buckets /\ now \in R!Times
      /\ admitted \in [R!Times -> Nat] /\ strays \in [R!Times -> Nat]
      /\ limiters # None => bucket[limiters] # None
      /\ \A r \in Requests : holds[r].pc # "idle" => bucket[holds[r].bucket] # None
      /\ None \notin Buckets
  BY TiersAssumption DEF BudgetInv, BucketInv, R!TypeOK, R!Capacity
<1>2. /\ R!Capacity \in Nat /\ R!level \in 0..R!Capacity /\ R!Rate \in Nat /\ R!Unit \in Nat /\ now \in Nat
      /\ R!Times \subseteq Nat
      /\ limiters # None =>
            /\ bucket[limiters].tokens \in 0..R!Capacity
            /\ now - bucket[limiters].lastRefill \in Nat
            /\ R!Rate * (now - bucket[limiters].lastRefill) \in Nat
  BY LevelIsNumber DEF BudgetInv
<1>3. OneBudget /\ NoneAhead /\ Spent /\ R!BudgetHolds
  BY DEF BudgetInv
<1>4. tier' = tier /\ R!Capacity' = R!Capacity /\ R!Rate' = R!Rate /\ R!Burst' = R!Burst
  BY DEF R!Next, R!Middleware, R!load, R!loadOrStore, R!allow, R!newRateLimiter, R!inspect,
         R!delete, R!tick, R!vars, R!Capacity, R!Burst, R!Rate, R!Unit
<1>5. ASSUME OneBudget', UNCHANGED <<now, admitted, strays>>, R!level' = R!level PROVE Kept
  <2>1. BudgetInv'
    BY <1>4, <1>5, NobodyPasses DEF BudgetInv
  <2>2. UNCHANGED R!OneBucket!vars
    BY <1>4, <1>5 DEF R!OneBucket!vars, R!granted
  <2> QED BY <2>1, <2>2
<1>6. None \notin Filled
  <2>1. \A n \in 0..R!Capacity : n \in Nat
    BY <1>2
  <2>2. Filled \subseteq [tokens : Nat, lastRefill : Nat]
    BY <1>2, <2>1
  <2> QED BY <2>2, TiersAssumption
<1> HIDE DEF Filled
<1>7. ASSUME NEW r \in Requests, R!load(r) PROVE Kept
  <2>1. /\ holds[r].pc = "idle" /\ limiters # None
        /\ holds' = [holds EXCEPT ![r] = [pc |-> "allow", bucket |-> limiters]]
        /\ UNCHANGED <<now, tier, bucket, limiters, doomed, dropped, admitted, strays>>
    BY <1>7 DEF R!load
  <2>2. OneBudget'
    BY <1>1, <1>3, <1>4, <2>1 DEF OneBudget
  <2>3. R!level' = R!level
    BY <1>4, <2>1 DEF R!level
  <2> QED BY <1>5, <2>1, <2>2, <2>3
<1>8. ASSUME NEW r \in Requests, NEW k \in Buckets, R!newRateLimiter(r, k) PROVE Kept
  <2> DEFINE new == [tokens |-> R!Unit * R!Burst, lastRefill |-> now]
  <2>1. /\ holds[r].pc = "idle" /\ limiters = None /\ bucket[k] = None
        /\ bucket' = [bucket EXCEPT ![k] = new]
        /\ holds' = [holds EXCEPT ![r] = [pc |-> "store", bucket |-> k]]
        /\ UNCHANGED <<now, tier, limiters, doomed, dropped, admitted, strays>>
    BY <1>8 DEF R!newRateLimiter
  <2>2. new.tokens = R!Capacity /\ new # None
    BY TiersAssumption, <1>2 DEF R!Capacity
  <2> HIDE DEF new
  <2>3. k \notin dropped \cup {limiters} /\ bucket'[k] = new
        /\ \A q \in Requests : holds[q].pc # "idle" => holds[q].bucket # k
    BY <1>1, <1>3, <2>1 DEF OneBudget
  <2>4. OneBudget'
    BY <1>1, <1>3, <1>4, <2>1, <2>2, <2>3 DEF OneBudget, R!Idle
  <2>5. R!level' = R!level
    BY <1>4, <2>1 DEF R!level
  <2> QED BY <1>5, <2>1, <2>4, <2>5
<1>9. ASSUME NEW r \in Requests, R!loadOrStore(r) PROVE Kept
  <2>1. /\ holds[r].pc = "store" /\ limiters' = IF limiters = None THEN holds[r].bucket ELSE limiters
        /\ holds' = [holds EXCEPT ![r] = [pc |-> "allow", bucket |-> limiters']]
        /\ UNCHANGED <<now, tier, bucket, doomed, dropped, admitted, strays>>
    BY <1>9 DEF R!loadOrStore
  <2>2. OneBudget'
    BY <1>1, <1>3, <1>4, <2>1 DEF OneBudget, R!Idle
  <2>3. R!level' = R!level
    <3>1. CASE limiters # None
      BY <1>4, <2>1, <3>1 DEF R!level
    <3>2. CASE limiters = None
      <4>1. doomed = None /\ limiters' = holds[r].bucket /\ limiters' \in Buckets /\ limiters' # None
            /\ bucket'[limiters'].tokens = R!Capacity
        BY <1>1, <1>3, <2>1, <3>2 DEF OneBudget, R!Idle
      <4>2. bucket[limiters'].lastRefill \in Nat /\ bucket[limiters'].lastRefill <= now
        <5>1. bucket[limiters'] \in Filled /\ bucket[limiters'].lastRefill <= now
          BY <1>1, <2>1, <4>1 DEF BudgetInv, BucketInv
        <5> QED BY <1>2, <5>1 DEF Filled
      <4>3. R!Rate * (now - bucket[limiters'].lastRefill) \in Nat
        BY <1>2, <4>2, Product
      <4>4. R!level' = R!Capacity
        BY <1>2, <1>4, <2>1, <4>1, <4>3 DEF R!level
      <4> QED BY <3>2, <4>4 DEF R!level
    <3> QED BY <3>1, <3>2
  <2> QED BY <1>5, <2>1, <2>2, <2>3
<1>10. CASE R!inspect
  <2>1. /\ doomed = None /\ limiters # None /\ now - bucket[limiters].lastRefill > MaxIdle
        /\ doomed' = limiters
        /\ UNCHANGED <<now, tier, bucket, limiters, holds, dropped, admitted, strays>>
    BY <1>10 DEF R!inspect
  <2>2. R!Rate * (now - bucket[limiters].lastRefill) >= R!Capacity
    BY <1>1, <1>2, <2>1, FullAgain
  <2>3. R!level' = R!level
    BY <1>2, <1>4, <2>1, <2>2 DEF R!level
  <2>4. OneBudget'
    BY <1>3, <1>4, <2>1 DEF OneBudget
  <2> QED BY <1>5, <2>1, <2>3, <2>4
<1>11. CASE R!delete
  <2>1. /\ doomed # None /\ limiters' = None /\ doomed' = None /\ dropped' = dropped \cup {doomed}
        /\ UNCHANGED <<now, tier, bucket, holds, admitted, strays>>
    BY <1>11 DEF R!delete
  <2>2. R!level' = R!level
    BY <1>4, <2>1 DEF R!level
  <2>3. OneBudget'
    <3>1. /\ doomed = limiters /\ None \notin dropped \cup {doomed} /\ bucket[doomed] # None
          /\ \A r \in Requests : holds[r].pc = "store" => holds[r].bucket # None
      BY <1>1, <1>3, <2>1 DEF OneBudget, R!Idle
    <3> QED BY <1>3, <1>4, <2>1, <3>1 DEF OneBudget
  <2> QED BY <1>5, <2>1, <2>2, <2>3
<1>17. ASSUME R!Capacity' = R!Capacity, UNCHANGED <<bucket, limiters, holds, doomed, dropped>> PROVE OneBudget'
  BY <1>3, <1>17 DEF OneBudget
<1>12. CASE UNCHANGED R!vars
  <2>1. UNCHANGED <<now, bucket, limiters, holds, doomed, dropped, admitted, strays>>
    BY <1>12 DEF R!vars
  <2>2. OneBudget'
    BY <1>4, <1>17, <2>1
  <2>3. R!level' = R!level
    BY <1>4, <2>1 DEF R!level
  <2> QED BY <1>5, <2>1, <2>2, <2>3
\* Time and requests that pass: the budget since any time, then the past.
<1>13. 0..now \subseteq R!Times /\ R!Burst \in Nat /\ R!Burst' = R!Burst /\ R!Unit' = R!Unit
  <2>1. now \in 0..MaxTime /\ R!Times = 0..MaxTime /\ MaxTime \in Nat
    BY <1>1, ConstantsAssumption DEF R!Times
  <2>2. 0..now \subseteq R!Times
    BY <2>1
  <2>3. R!Burst' = R!Burst /\ R!Unit' = R!Unit
    BY <1>4 DEF R!Burst, R!Unit
  <2> QED BY <1>1, <2>2, <2>3, RatesAreNumbers
<1>14. \A from, to \in 0..now :
          /\ R!Within(admitted, from, to) \in Int /\ R!Within(strays, from, to) \in Int
          /\ Granted(from, to) \in Int
  <2> SUFFICES ASSUME NEW from \in 0..now, NEW to \in 0..now
               PROVE  R!Within(admitted, from, to) \in Int /\ R!Within(strays, from, to) \in Int
    BY DEF Granted
  <2> QED BY <1>1, <1>2, <1>13, MorePass
<1>15. ASSUME NEW r \in Requests, R!allow(r) PROVE Kept
  <2> DEFINE k == holds[r].bucket
             full == bucket[k].tokens + R!Rate * (now - bucket[k].lastRefill)
             tokens == IF full > R!Capacity THEN R!Capacity ELSE full
             ok == IF tokens >= R!Unit THEN 1 ELSE 0
             new == [tokens |-> tokens - R!Unit * ok, lastRefill |-> now]
             stray == k \in dropped \cup {doomed}
  <2>1. /\ holds[r].pc = "allow"
        /\ bucket' = [bucket EXCEPT ![k] = new]
        /\ admitted' = R!more(admitted, ok)
        /\ strays' = IF stray THEN R!more(strays, ok) ELSE strays
        /\ holds' = [holds EXCEPT ![r] = R!Idle]
        /\ UNCHANGED <<now, limiters, doomed, dropped>>
    BY <1>15 DEF R!allow, R!Capacity
  <2>2. k \in Buckets /\ k \in dropped \cup {limiters} /\ bucket[k] \in Filled
        /\ bucket[k].lastRefill <= now
    <3>1. k \in Buckets /\ k \in dropped \cup {limiters} /\ bucket[k] # None
      BY <1>1, <1>3, <2>1 DEF OneBudget, R!Idle
    <3> QED BY <1>1, <3>1 DEF BudgetInv, BucketInv
  <2>3. bucket[k].tokens \in Nat /\ bucket[k].lastRefill \in Nat
    <3> HIDE DEF k
    <3>1. bucket[k].tokens \in 0..R!Capacity /\ bucket[k].lastRefill \in R!Times
      BY <2>2 DEF Filled
    <3>2. \A n \in 0..R!Capacity : n \in Nat
      BY <1>2
    <3> QED BY <1>2, <3>1, <3>2
  <2>4. R!Rate * (now - bucket[k].lastRefill) \in Nat
    BY <1>2, <2>2, <2>3, Product
  <2>5. full \in Nat /\ tokens \in 0..R!Capacity
    BY <1>2, <2>3, <2>4
  <2> HIDE DEF full
  <2>6. ok \in {0, 1} /\ R!Unit * ok \in Nat /\ R!Unit * ok <= tokens /\ tokens - R!Unit * ok \in 0..R!Capacity
    <3>1. CASE tokens >= R!Unit
      BY <1>2, <2>5, <3>1
    <3>2. CASE ~(tokens >= R!Unit)
      BY <1>2, <2>5, <3>2
    <3> QED BY <3>1, <3>2
  <2> HIDE DEF tokens, ok
  <2>7. new \in Filled /\ new # None
    BY <1>1, <1>6, <2>6 DEF Filled
  <2>8. new.tokens = tokens - R!Unit * ok /\ new.lastRefill = now
    OBVIOUS
  <2> HIDE DEF new, k
  <2>9. OneBudget'
    <3>1. \A q \in Requests : holds'[q] = (IF q = r THEN R!Idle ELSE holds[q])
      BY <1>1, <2>1
    <3>2. \A j \in Buckets : bucket'[j] = IF j = k THEN new ELSE bucket[j]
      BY <1>1, <2>1
    <3>3. \A q \in Requests : holds[q].pc = "store" => holds[q].bucket \in Buckets /\ holds[q].bucket # k
      BY <1>1, <1>3, <2>2 DEF OneBudget, R!Idle
    <3> QED BY <1>1, <1>3, <1>4, <2>1, <2>2, <2>7, <3>1, <3>2, <3>3 DEF OneBudget, R!Idle
  <2>10. now' = now /\ \A from, to \in 0..now :
            /\ R!Within(admitted, from, to)' =
                 R!Within(admitted, from, to) + (IF to = now THEN ok ELSE 0)
            /\ R!Within(strays, from, to)' =
                 R!Within(strays, from, to) + (IF stray /\ to = now THEN ok ELSE 0)
            /\ R!Within(admitted, from, to)' \in Int /\ R!Within(strays, from, to)' \in Int
    <3>1. SUFFICES ASSUME NEW from \in 0..now, NEW to \in 0..now
          PROVE  /\ R!Within(admitted', from, to) =
                      R!Within(admitted, from, to) + (IF to = now THEN ok ELSE 0)
                 /\ R!Within(strays', from, to) =
                      R!Within(strays, from, to) + (IF stray /\ to = now THEN ok ELSE 0)
      BY <1>14, <2>1, <2>6 DEF R!Within
    <3>2. \A f \in [R!Times -> Nat] : R!Within(R!more(f, ok), from, to) =
             R!Within(f, from, to) + (IF to = now THEN ok ELSE 0)
      BY <1>2, <1>13, <2>6, MorePass
    <3>3. R!Within(strays, from, to) \in Int
      BY <1>14
    <3> QED BY <1>1, <2>1, <3>2, <3>3
  <2>11. NoneAhead'
    <3>1. \A f \in [R!Times -> Nat] : \A t \in R!Times :
             t >= now => R!more(f, ok)[t] = f[t] + ok
      BY <1>2 DEF R!more
    <3> QED BY <1>1, <1>2, <1>3, <2>1, <3>1 DEF NoneAhead
  <2>12. R!Unit * (IF stray THEN 0 ELSE ok) + R!level' = R!level /\ R!level' \in Nat
    <3>1. CASE stray
      <4>1. doomed # None \/ k # limiters
        BY <1>1, <1>3, <2>2, <3>1 DEF OneBudget
      <4>2. R!level' = R!level
        BY <1>1, <1>4, <2>1, <2>2, <4>1 DEF R!level
      <4> QED BY <1>2, <3>1, <4>2
    <3>2. CASE ~stray
      <4>1. k = limiters /\ limiters # None /\ doomed = None
        BY <1>1, <1>3, <2>2, <3>2 DEF OneBudget
      <4>2. R!level = tokens
        BY <4>1 DEF R!level, tokens, full
      <4>3. bucket'[limiters'] = new /\ limiters' # None /\ doomed' = None /\ now' = now
        BY <1>1, <2>1, <2>2, <4>1
      <4>4. R!level' = tokens - R!Unit * ok
        <5>1. R!Rate * (now - now) = 0
          BY <1>2
        <5>2. R!level' = LET refilled == tokens - R!Unit * ok + R!Rate * (now - now)
                       IN  IF refilled > R!Capacity THEN R!Capacity ELSE refilled
          BY <1>4, <2>8, <4>3 DEF R!level
        <5> QED BY <1>2, <2>6, <5>1, <5>2
      <4> QED BY <1>2, <2>5, <2>6, <3>2, <4>2, <4>4
    <3> QED BY <3>1, <3>2
  <2> DEFINE paid == IF stray THEN 0 ELSE ok
  <2>18. /\ paid \in {0, 1} /\ R!level \in Nat /\ R!level' \in Nat /\ R!Unit \in Nat
    <3>1. paid \in {0, 1}
      BY <2>6
    <3>2. R!level' \in Nat
      BY <2>12
    <3> QED BY <1>2, <3>1, <3>2
  <2>20. R!Unit * paid + R!level' = R!level
    BY <2>12
  <2>19. \A from \in 0..now : Granted(from, now)' = Granted(from, now) + paid
    <3> SUFFICES ASSUME NEW from \in 0..now
                 PROVE  Granted(from, now)' = Granted(from, now) + paid
      OBVIOUS
    <3> DEFINE a == R!Within(admitted, from, now)
               b == R!Within(strays, from, now)
    <3>1. now' = now /\ a \in Int /\ b \in Int
      BY <1>2, <1>14, <2>10
    <3>2. a' = a + ok /\ b' = b + (IF stray THEN ok ELSE 0)
      <4>1. now \in 0..now
        BY <1>2
      <4>2. /\ R!Within(admitted, from, now)' = R!Within(admitted, from, now) + ok
            /\ R!Within(strays, from, now)' = R!Within(strays, from, now) + (IF stray THEN ok ELSE 0)
        BY <2>10, <4>1
      <4> QED BY <4>2
    <3>3. Granted(from, now)' = a' - b' /\ Granted(from, now) = a - b
      BY DEF Granted
    <3> HIDE DEF a, b
    <3> QED BY <2>6, <3>1, <3>2, <3>3
  <2>16. R!granted' = R!granted + paid /\ R!granted \in Int
    <3>1. /\ admitted'[now] = admitted[now] + ok
          /\ strays'[now] = strays[now] + (IF stray THEN ok ELSE 0)
          /\ admitted[now] \in Nat /\ strays[now] \in Nat
      BY <1>1, <1>2, <2>1, <2>6 DEF R!more
    <3> QED BY <2>1, <2>6, <3>1 DEF R!granted
  <2> HIDE DEF paid
  <2>13. Spent'
    <3> SUFFICES ASSUME NEW from \in 0..now
                 PROVE  R!Unit * Granted(from, now)' + R!level' <= R!Capacity + R!Rate * (now - from)
      BY <1>4, <2>10 DEF Spent, Granted, R!Within
    <3>1. Granted(from, now)' = Granted(from, now) + paid
      BY <2>19
    <3>2. R!Unit * Granted(from, now) + R!level <= R!Capacity + R!Rate * (now - from)
      BY <1>3 DEF Spent
    <3>3. Granted(from, now) \in Int
      <4>1. now \in 0..now
        BY <1>2
      <4> QED BY <1>14, <4>1
    <3>4. Granted(from, now)' \in Int
      BY <2>18, <3>1, <3>3
    <3>5. R!Capacity + R!Rate * (now - from) \in Int
      <4>1. now - from \in Int /\ R!Rate \in Int /\ R!Capacity \in Int
        BY <1>2
      <4>2. R!Rate * (now - from) \in Int
        BY <4>1, IntProduct
      <4> QED BY <4>1, <4>2
    <3> DEFINE after == Granted(from, now)'
               all == R!Capacity + R!Rate * (now - from)
    <3>6. /\ after = Granted(from, now) + paid /\ after \in Int /\ all \in Int
          /\ R!Unit * Granted(from, now) + R!level <= all
      BY <3>1, <3>2, <3>4, <3>5
    <3> HIDE DEF after, all
    <3>7. R!Unit * after + R!level' <= all
      BY <2>18, <2>20, <3>3, <3>6, PaidFrom
    <3> QED BY <3>7 DEF after, all
  <2>14. R!BudgetHolds'
    <3> SUFFICES ASSUME NEW from \in 0..now, NEW to \in 0..now, from <= to
                 PROVE  R!Unit * R!Within(admitted, from, to)'
                          <= R!Unit * (R!Burst + R!Within(strays, from, to)') + R!Rate * (to - from)
      BY <1>4, <1>13, <2>10 DEF R!BudgetHolds, R!Within
    <3>1. CASE to = now
      <4>1. R!Within(admitted, from, now)' \in Int /\ R!Within(strays, from, now)' \in Int
        BY <1>2, <2>10
      <4>2. R!Unit * (R!Within(admitted, from, now)' - R!Within(strays, from, now)') + R!level'
              <= R!Unit * R!Burst + R!Rate * (now - from)
        BY <1>4, <2>10, <2>13 DEF Spent, Granted, R!Within, R!Capacity
      <4>3. R!Rate * (now - from) \in Int
        BY <1>2, IntProduct
      <4>4. R!Unit * R!Within(admitted, from, now)'
              <= R!Unit * (R!Burst + R!Within(strays, from, now)') + R!Rate * (now - from)
        BY <1>2, <1>13, <2>12, <4>1, <4>2, <4>3, BudgetNow
      <4>5. now' = now
        BY <2>10
      <4> QED BY <3>1, <4>4, <4>5
    <3>2. CASE to # now
      <4>1. /\ R!Within(admitted, from, to)' = R!Within(admitted, from, to)
            /\ R!Within(strays, from, to)' = R!Within(strays, from, to)
        BY <1>14, <2>10, <3>2
      <4> QED BY <1>3, <4>1 DEF R!BudgetHolds
    <3> QED BY <3>1, <3>2
  <2>15. BudgetInv'
    BY <2>9, <2>11, <2>13, <2>14 DEF BudgetInv
  <2>17. [R!OneBucket!Next]_(R!OneBucket!vars)
    <3>1. UNCHANGED <<R!Rate, R!Burst, now>>
      BY <1>4, <2>1
    <3>2. IF paid = 0 THEN R!level' = R!level
                      ELSE R!level >= R!Unit /\ R!level' = R!level - R!Unit
      BY <2>18, <2>20, Paid
    <3>3. CASE paid = 0
      <4>1. R!granted' = R!granted
        BY <2>16, <3>3
      <4> QED BY <3>1, <3>2, <3>3, <4>1 DEF R!OneBucket!vars
    <3>4. CASE paid = 1
      <4>1. R!level >= R!Unit /\ R!level' = R!level - R!Unit
        BY <3>2, <3>4
      <4>2. R!granted' = R!granted + 1
        BY <2>16, <3>4
      <4> QED BY <3>1, <4>1, <4>2 DEF R!OneBucket!Next, R!OneBucket!Grant
    <3> QED BY <2>18, <3>3, <3>4
  <2> QED BY <2>15, <2>17
<1>16. CASE R!tick
  <2>1. /\ now < MaxTime /\ now' = now + 1
        /\ UNCHANGED <<bucket, limiters, holds, doomed, dropped, admitted, strays>>
    BY <1>16 DEF R!tick
  <2>2. OneBudget'
    <3>1. R!Capacity' = R!Capacity /\ bucket' = bucket /\ limiters' = limiters /\ holds' = holds
          /\ doomed' = doomed /\ dropped' = dropped
      BY <1>4, <2>1
    <3> QED BY <1>3, <1>17, <3>1
  <2>3. /\ 0..(now + 1) \subseteq R!Times /\ now + 1 \in R!Times
        /\ admitted[now + 1] = admitted[now] /\ strays[now + 1] = strays[now]
        /\ admitted[now] \in Nat /\ strays[now] \in Nat
    <3>1. now \in 0..MaxTime /\ R!Times = 0..MaxTime /\ MaxTime \in Nat
      BY <1>1, ConstantsAssumption DEF R!Times
    <3>2. now + 1 \in R!Times /\ 0..(now + 1) \subseteq R!Times
      BY <2>1, <3>1
    <3> QED BY <1>1, <1>2, <1>3, <3>2 DEF NoneAhead
  <2>4. NoneAhead'
    <3>1. \A t \in R!Times : t \in Nat /\ (t >= now + 1 => t >= now)
      <4>1. now \in Nat /\ \A t \in R!Times : t \in Nat
        BY <1>2
      <4> QED BY <4>1
    <3>2. \A t \in R!Times : t >= now + 1 => admitted[t] = admitted[now + 1]
                                            /\ strays[t] = strays[now + 1]
      BY <1>3, <2>3, <3>1 DEF NoneAhead
    <3> QED BY <2>1, <3>2 DEF NoneAhead
  <2>5. /\ R!level' = IF R!level + R!Rate > R!Capacity THEN R!Capacity ELSE R!level + R!Rate
        /\ R!level' \in Nat /\ R!level' <= R!level + R!Rate /\ R!level' <= R!Capacity
    <3>1. CASE limiters = None \/ doomed # None
      BY <1>2, <1>4, <2>1, <3>1 DEF R!level
    <3>2. CASE ~(limiters = None \/ doomed # None)
      <4> DEFINE idle == now - bucket[limiters].lastRefill
      <4>1. /\ bucket[limiters].tokens \in 0..R!Capacity /\ idle \in Nat
            /\ now + 1 - bucket[limiters].lastRefill = idle + 1
            /\ bucket[limiters].lastRefill \in Nat
        <5>1. bucket[limiters].lastRefill \in Nat
          <6>1. bucket[limiters] \in Filled
            BY <1>1, <3>2
          <6> QED BY <1>2, <6>1 DEF Filled
        <5> QED BY <1>2, <3>2, <5>1
      <4>2. R!level = LET refilled == bucket[limiters].tokens + R!Rate * idle
                    IN  IF refilled > R!Capacity THEN R!Capacity ELSE refilled
        BY <3>2 DEF R!level
      <4>3. R!level' = LET refilled == bucket[limiters].tokens + R!Rate * (idle + 1)
                     IN  IF refilled > R!Capacity THEN R!Capacity ELSE refilled
        <5> DEFINE later == now + 1
        <5>1. R!level' = LET refilled == bucket[limiters].tokens
                                         + R!Rate * (later - bucket[limiters].lastRefill)
                       IN  IF refilled > R!Capacity THEN R!Capacity ELSE refilled
          <6>1. /\ now' = later /\ limiters' = limiters /\ limiters # None /\ doomed' = None
                /\ bucket' = bucket /\ R!Capacity' = R!Capacity /\ R!Rate' = R!Rate
            BY <1>4, <2>1, <3>2
          <6> HIDE DEF later
          <6> QED BY <6>1 DEF R!level
        <5> HIDE DEF idle
        <5>2. later - bucket[limiters].lastRefill = idle + 1
          BY <1>2, <4>1 DEF later
        <5> HIDE DEF later
        <5> QED BY <5>1, <5>2
      <4> HIDE DEF idle
      <4>4. R!Rate * (idle + 1) = R!Rate * idle + R!Rate /\ R!Rate * idle \in Nat
        BY <1>2, <4>1, OneMore, Product
      <4> QED BY <1>2, <4>1, <4>2, <4>3, <4>4
    <3> QED BY <3>1, <3>2
  <2>6. \A from \in 0..(now + 1) :
           /\ R!Within(admitted, from, now + 1)
                = IF from = now + 1 THEN 0 ELSE R!Within(admitted, from, now)
           /\ R!Within(strays, from, now + 1)
                = IF from = now + 1 THEN 0 ELSE R!Within(strays, from, now)
           /\ R!Within(admitted, from, now + 1) \in Int /\ R!Within(strays, from, now + 1) \in Int
    <3> SUFFICES ASSUME NEW from \in 0..(now + 1)
                 PROVE  /\ R!Within(admitted, from, now + 1)
                             = IF from = now + 1 THEN 0 ELSE R!Within(admitted, from, now)
                        /\ R!Within(strays, from, now + 1)
                             = IF from = now + 1 THEN 0 ELSE R!Within(strays, from, now)
                        /\ R!Within(admitted, from, now + 1) \in Int
                        /\ R!Within(strays, from, now + 1) \in Int
      OBVIOUS
    <3>1. CASE from = now + 1
      BY <1>2, <2>3, <3>1 DEF R!Within
    <3>2. CASE from # now + 1
      <4>1. from \in 0..now /\ now \in 0..now
        BY <1>2, <3>2
      <4>2. R!Within(admitted, from, now) \in Int /\ R!Within(strays, from, now) \in Int
        BY <1>14, <4>1
      <4> QED BY <2>3, <3>2, <4>2 DEF R!Within
    <3> QED BY <3>1, <3>2
  <2>7. ASSUME NEW from \in 0..(now + 1)
        PROVE  R!Unit * (R!Within(admitted, from, now + 1) - R!Within(strays, from, now + 1)) + R!level'
                 <= R!Capacity + R!Rate * (now + 1 - from)
    <3>1. CASE from = now + 1
      <4>1. R!Within(admitted, from, now + 1) - R!Within(strays, from, now + 1) = 0
        BY <2>6, <3>1
      <4>2. R!Unit * 0 = 0 /\ R!Rate * (now + 1 - from) = 0
        BY <1>2, <3>1
      <4> QED BY <1>2, <2>5, <4>1, <4>2
    <3>2. CASE from # now + 1
      <4>1. from \in 0..now /\ now \in 0..now
        BY <1>2, <3>2
      <4>2. R!Within(admitted, from, now + 1) - R!Within(strays, from, now + 1) = Granted(from, now)
        BY <2>6, <3>2 DEF Granted
      <4>3. R!Unit * Granted(from, now) + R!level <= R!Capacity + R!Rate * (now - from)
        BY <1>3, <4>1 DEF Spent
      <4>4. /\ now + 1 - from = (now - from) + 1 /\ now - from \in Nat
            /\ Granted(from, now) \in Int
        BY <1>2, <1>14, <4>1
      <4>5. /\ R!Rate * ((now - from) + 1) = R!Rate * (now - from) + R!Rate
            /\ R!Rate * (now - from) \in Nat /\ R!Unit * Granted(from, now) \in Int
        BY <1>2, <4>4, OneMore, Product, IntProduct
      <4> DEFINE a == R!Unit * Granted(from, now)
                 c == R!Rate * (now - from)
      <4>6. /\ a + R!level <= R!Capacity + c /\ a \in Int /\ c \in Nat
            /\ R!Rate * (now + 1 - from) = c + R!Rate
        BY <4>3, <4>4, <4>5
      <4>7. R!Unit * (R!Within(admitted, from, now + 1) - R!Within(strays, from, now + 1)) = a
        BY <4>2
      <4> HIDE DEF a, c
      <4> QED BY <1>2, <2>5, <4>6, <4>7
    <3> QED BY <3>1, <3>2
  <2>8. Spent'
    <3> SUFFICES ASSUME NEW from \in 0..(now + 1)
                 PROVE  R!Unit * (R!Within(admitted, from, now + 1) - R!Within(strays, from, now + 1))
                          + R!level' <= R!Capacity + R!Rate * (now + 1 - from)
      <4>1. now' = now + 1 /\ R!Capacity' = R!Capacity /\ R!Rate' = R!Rate /\ R!Unit' = R!Unit
        BY <1>4, <1>13, <2>1
      <4>2. \A from \in 0..(now + 1) :
               Granted(from, now)' = R!Within(admitted, from, now + 1) - R!Within(strays, from, now + 1)
        BY <2>1 DEF Granted, R!Within
      <4>3. (\A from \in 0..(now + 1) :
               R!Unit * Granted(from, now)' + R!level' <= R!Capacity + R!Rate * (now + 1 - from)) => Spent'
        <5> DEFINE later == now + 1
        <5>1. now' = later
          BY <4>1
        <5> HIDE DEF later
        <5>2. (\A from \in 0..later :
                 R!Unit * Granted(from, now)' + R!level' <= R!Capacity + R!Rate * (later - from)) => Spent'
          BY <4>1, <5>1 DEF Spent
        <5>3. later \in Nat /\ \A from \in 0..later : from \in Nat
          BY <1>2 DEF later
        <5> QED BY <1>2, <5>2, <5>3 DEF later
      <4> QED BY <4>2, <4>3
    <3> QED BY <2>7
  <2>9. R!BudgetHolds'
    <3> SUFFICES ASSUME NEW from \in 0..(now + 1), NEW to \in 0..(now + 1), from <= to
                 PROVE  R!Unit * R!Within(admitted, from, to)
                          <= R!Unit * (R!Burst + R!Within(strays, from, to)) + R!Rate * (to - from)
      BY <1>4, <1>13, <2>1 DEF R!BudgetHolds, R!Within
    <3> DEFINE held(t) == R!Unit * R!Within(admitted, from, t)
                            <= R!Unit * (R!Burst + R!Within(strays, from, t)) + R!Rate * (t - from)
    <3> SUFFICES held(to)
      OBVIOUS
    <3>1. CASE to = now + 1
      <4>1. R!Within(admitted, from, now + 1) \in Int /\ R!Within(strays, from, now + 1) \in Int
        BY <2>6
      <4>2. R!Unit * (R!Within(admitted, from, now + 1) - R!Within(strays, from, now + 1)) + R!level'
              <= R!Unit * R!Burst + R!Rate * (now + 1 - from)
        BY <2>7 DEF R!Capacity
      <4>3. R!Rate * (now + 1 - from) \in Int
        BY <1>2, IntProduct
      <4>4. held(now + 1)
        BY <1>2, <1>13, <2>5, <4>1, <4>2, <4>3, BudgetNow
      <4> HIDE DEF held
      <4> QED BY <3>1, <4>4
    <3>2. CASE to # now + 1
      <4>1. from \in 0..now /\ to \in 0..now
        BY <1>2, <3>2
      <4> QED BY <1>3, <4>1 DEF R!BudgetHolds
    <3> QED BY <3>1, <3>2
  <2>10. BudgetInv'
    BY <2>2, <2>4, <2>8, <2>9 DEF BudgetInv
  <2>11. R!OneBucket!Tick
    <3>1. R!granted' = R!granted
      BY <2>1, <2>3 DEF R!granted
    <3> QED BY <1>4, <2>1, <2>5, <3>1 DEF R!OneBucket!Tick, R!OneBucket!Capacity, R!Capacity
  <2> QED BY <2>10, <2>11 DEF R!OneBucket!Next
<1> QED BY <1>7, <1>8, <1>9, <1>10, <1>11, <1>12, <1>15, <1>16 DEF R!Next, R!Middleware

\* A client begins with a full budget.
LEMMA BudgetInit == R!Init /\ BucketInv => BudgetInv /\ R!OneBucket!Init
<1> SUFFICES ASSUME R!Init, BucketInv PROVE BudgetInv /\ R!OneBucket!Init
  OBVIOUS
<1>1. /\ now = 0 /\ limiters = None /\ doomed = None /\ dropped = {} /\ tier \in Tiers
      /\ \A r \in Requests : holds[r].pc = "idle"
      /\ admitted = [t \in R!Times |-> 0] /\ strays = [t \in R!Times |-> 0]
      /\ 0 \in R!Times
  BY ConstantsAssumption DEF R!Init, R!Idle, R!Times
<1>2. OneBudget /\ NoneAhead
  BY <1>1 DEF OneBudget, NoneAhead
<1>3. \A from, to \in 0..now : /\ from = 0 /\ to = 0
                             /\ R!Within(admitted, from, to) = 0
                             /\ R!Within(strays, from, to) = 0
  BY <1>1 DEF R!Within
<1>4. /\ R!Capacity \in Nat /\ R!level = R!Capacity
      /\ R!Unit \in Nat /\ R!Rate \in Nat /\ R!Burst \in Nat
  BY <1>1, RatesAreNumbers DEF R!level, R!Capacity
<1>5. R!Unit * 0 = 0 /\ R!Rate * 0 = 0 /\ R!Unit * R!Burst \in Nat
  BY <1>4, Product
<1>6. Spent
  BY <1>1, <1>3, <1>4, <1>5 DEF Spent, Granted
<1>7. R!BudgetHolds
  BY <1>1, <1>3, <1>4, <1>5 DEF R!BudgetHolds
<1>8. R!OneBucket!Init
  BY <1>1, <1>4 DEF R!OneBucket!Init, R!OneBucket!Capacity, R!Capacity, R!granted
<1> QED BY <1>2, <1>6, <1>7, <1>8 DEF BudgetInv

\* With BucketInvariant, the invariant is inductive.
LEMMA BudgetInvariant == R!Spec => []BudgetInv
BY BudgetInit, BudgetStep, BucketInvariant, PTL DEF R!Spec

\* In every stretch of time a client is let through at most as often as the burst and the
\* refill allow, and as often as dropped buckets granted on top.
THEOREM BudgetIsKept == R!Spec => []BudgetHolds
<1>1. BudgetInv => BudgetHolds
  BY DEF BudgetInv, BudgetHolds
<1> QED BY <1>1, BudgetInvariant, PTL

\* The buckets of a client, made by requests that race, dropped and made again, serve as
\* one bucket that stays: TokenBucket.
THEOREM ServedByOneBucket == R!Spec => R!ServesAsOneBucket
BY BudgetInit, BudgetStep, BucketInvariant, BudgetInvariant, PTL
   DEF R!Spec, R!ServesAsOneBucket, R!OneBucket!Spec

-----------------------------------------------------------------------------
(* The four together.                                                      *)

\* The specification the runs check takes the steps of the four.
LEMMA RunsTheFour == MCSpec => Spec /\ O!Spec /\ R!Spec /\ C!Spec
<1>1. MCInit => Init /\ O!Init /\ R!Init /\ C!Init
  BY DEF MCInit
<1>2. ASSUME [MCNext]_<<part, vars, oauthVars, limiterVars, settingVars>>
      PROVE  [Next]_vars /\ [O!Next]_(O!vars) /\ [R!Next]_(R!vars) /\ [C!Next]_(C!vars)
  <2>1. CASE Next /\ UNCHANGED <<oauthVars, limiterVars, settingVars>>
    <3>1. UNCHANGED now \/ (now < MaxTime /\ now' = now + 1)
      BY <2>1 DEF Next, Login, refuse, welcome, createSession, Logout, RefreshSession,
                  ChangePassword, UpdateUser, save, purgeSessions, endSessions, restart, tick
    <3>2. [R!Next]_(R!vars)
      BY <2>1, <3>1 DEF limiterVars, R!Next, R!tick, R!vars
    <3> QED BY <2>1, <3>2 DEF oauthVars, settingVars, O!vars, O!sessionVars, O!browserVars,
                              O!storeVars, C!vars
  <2>2. CASE O!Next /\ UNCHANGED <<vars, limiterVars, settingVars>>
    BY <2>2 DEF vars, limiterVars, settingVars, R!vars, C!vars
  <2>3. CASE C!Next /\ UNCHANGED <<vars, oauthVars, limiterVars>>
    BY <2>3 DEF vars, oauthVars, limiterVars, O!vars, O!sessionVars, O!browserVars, O!storeVars,
                R!vars
  <2>4. CASE R!Next /\ UNCHANGED <<entries, password, sessions, act, edit, issued, ended, late,
                                    undone, streak, oauthVars, settingVars>>
    <3>1. UNCHANGED now \/ R!tick
      BY <2>4 DEF R!Next, R!Middleware, R!load, R!loadOrStore, R!allow, R!newRateLimiter,
                  R!inspect, R!delete
    <3>2. [Next]_vars
      BY <2>4, <3>1 DEF vars, R!tick, tick, Next
    <3> QED BY <2>4, <3>2 DEF oauthVars, settingVars, O!vars, O!sessionVars, O!browserVars,
                              O!storeVars, C!vars
  <2>5. CASE UNCHANGED <<part, vars, oauthVars, limiterVars, settingVars>>
    BY <2>5 DEF vars, oauthVars, limiterVars, settingVars, O!vars, O!sessionVars, O!browserVars,
                O!storeVars, R!vars, C!vars
  <2> QED BY <1>2, <2>1, <2>2, <2>3, <2>4, <2>5 DEF MCNext
<1> QED BY <1>1, <1>2, PTL DEF MCSpec, Spec, O!Spec, R!Spec, C!Spec

\* A lock of the throttle holds until its time, a sign-up is let in once it is approved
\* and an identity is linked where its user asked for it, on the specification the run
\* checks; every variable of the four keeps its type.
THEOREM AccountsAreSafe == MCSpec => AccountsHold
<1>1. OAuthInv => O!TypeOK /\ O!ApprovedOnly
  BY DEF OAuthInv, UsersKnown, O!ApprovedOnly
<1>2. BucketInv => R!TypeOK
  BY DEF BucketInv
<1>3. TypeOK /\ O!TypeOK /\ R!TypeOK /\ C!TypeOK => Types
  BY DEF Types
<1> QED
  BY <1>1, <1>2, <1>3, RunsTheFour, LocksHold, SignInTypeCorrect, OAuthInvariant,
     LinksAreAskedFor,
     BucketInvariant, ServedByOneBucket, SettingsTypeCorrect, PTL DEF AccountsHold

\* So the run's specification keeps the invariants of the throttle, the sessions, the
\* states, the budgets and the settings.
THEOREM WaysInAreSafe ==
    MCSpec => [](FailuresCount /\ SessionsEnd /\ StatesHold /\ BudgetHolds /\ PairFits)
BY RunsTheFour, ThrottleCounts, SessionsEndForGood, StatesAreUsedOnce, BudgetIsKept,
   PairFitsInv,
   PTL
=============================================================================
