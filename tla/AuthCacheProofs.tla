--------------------------- MODULE AuthCacheProofs ---------------------------
(***************************************************************************)
(* What a session gets, for any constants: the auth cache never serves what *)
(* a finished revocation revoked, the log hub never sends on or closes a    *)
(* channel that is closed, a search answers with all there is, or the       *)
(* limit, and no figure of the dashboard goes back.                        *)
(*                                                                         *)
(* Of the cache, NoStaleEntry alone is not inductive: a validator may hold  *)
(* an answer it read before the write.  ReadCurrent says that such an       *)
(* answer is harmless: either its generation is over, so store will refuse  *)
(* it, or the database still says so, or the eviction is still to come.     *)
(***************************************************************************)
EXTENDS MCAccess, FiniteSetTheorems, TLAPS

\* The empty cache satisfies the invariant.
LEMMA InitIInv == Init => IInv
<1>. SUFFICES ASSUME Init PROVE IInv
  OBVIOUS
<1>1. TypeOK
  BY DEF Init, TypeOK, ValidatorStates, RevokerStates, Idle, UserRows
<1>2. NoStaleEntry /\ \A v \in Validators : ReadCurrent(v)
  BY DEF Init, NoStaleEntry, ReadCurrent, Fresh, Idle
<1>. QED
  BY <1>1, <1>2 DEF IInv

-----------------------------------------------------------------------------
(* The revokers' writes, which all end in EvictNext.                       *)

\* A write leaves the cache, the generation and the validators alone, and
\* every credential whose answer it changes is covered by its eviction.
Covers(cover) ==
    \A c \in Creds \ cover :
        /\ valid'[c] = valid[c]
        /\ user'[Owner[c]] = user[Owner[c]]

\* A write that takes a user or credential away announces its eviction, so no
\* obligation on the cache arises before the eviction.
LEMMA WriteIInv ==
    ASSUME IInv, TypeOK', NEW r \in Revokers, NEW cover \in SUBSET Creds,
           rev[r].pc # "evict", EvictNext(r, cover), Covers(cover),
           UNCHANGED <<cache, gen, val>>
    PROVE  IInv'
<1>. USE DEF IInv
<1>1. \A c \in cover : EvictionPending(c)'
  BY DEF EvictNext, EvictionPending, TypeOK
<1>2. \A c \in Creds : EvictionPending(c) => EvictionPending(c)'
  BY DEF EvictNext, EvictionPending, TypeOK
<1>3. NoStaleEntry'
  <2>. SUFFICES ASSUME NEW c \in Creds PROVE Fresh(c)' \/ EvictionPending(c)'
    BY DEF NoStaleEntry
  <2>1. CASE c \in cover
    BY <2>1, <1>1
  <2>2. CASE c \notin cover
    BY <2>2, <1>2 DEF NoStaleEntry, Fresh, Accepted, Covers
  <2>. QED
    BY <2>1, <2>2
<1>4. ASSUME NEW v \in Validators PROVE ReadCurrent(v)'
  <2>1. val[v].pc # "idle" => val[v].cred \in Creds
    BY DEF TypeOK, ValidatorStates, Idle
  <2>2. CASE val[v].pc # "idle" /\ val[v].cred \in cover
    BY <2>1, <2>2, <1>1 DEF ReadCurrent
  <2>3. CASE val[v].pc # "idle" /\ val[v].cred \notin cover
    BY <2>1, <2>3, <1>2 DEF ReadCurrent, Accepted, Covers
  <2>4. CASE val[v].pc = "idle"
    BY <2>4 DEF ReadCurrent
  <2>. QED
    BY <2>2, <2>3, <2>4
<1>. QED
  BY <1>3, <1>4

\* Revoking a credential is such a write.
LEMMA RevokeCredentialIInv ==
    ASSUME IInv, NEW r \in Revokers, NEW c \in Creds, RevokeCredential(r, c)
    PROVE  IInv'
<1>1. TypeOK'
  BY DEF IInv, TypeOK, RevokeCredential, EvictNext, RevokerStates
<1>2. Covers({c})
  BY DEF IInv, TypeOK, RevokeCredential, Covers
<1>. QED
  BY <1>1, <1>2, WriteIInv DEF RevokeCredential, MayRevoke

\* Changing a password is such a write.
LEMMA ChangePasswordIInv ==
    ASSUME IInv, NEW r \in Revokers, NEW u \in Users, ChangePassword(r, u)
    PROVE  IInv'
<1>1. OwnedBy(u) \in SUBSET Creds
  BY DEF OwnedBy
<1>2. TypeOK'
  BY <1>1 DEF IInv, TypeOK, ChangePassword, EvictNext, RevokerStates
<1>3. Covers(OwnedBy(u))
  BY DEF IInv, TypeOK, ChangePassword, Covers, OwnedBy
<1>. QED
  BY <1>1, <1>2, <1>3, WriteIInv DEF ChangePassword, MayRevoke

\* Setting a status is such a write, or takes nothing away.
LEMMA SetUserStatusIInv ==
    ASSUME IInv, NEW r \in Revokers, NEW u \in Users, NEW isActive \in BOOLEAN,
           SetUserStatus(r, u, isActive)
    PROVE  IInv'
<1>1. OwnedBy(u) \in SUBSET Creds
  BY DEF OwnedBy
<1>2. TypeOK'
  BY <1>1 DEF IInv, TypeOK, SetUserStatus, EvictNext, RevokerStates, UserRows
<1>3. Covers(OwnedBy(u))
  BY OwnerAssumption DEF IInv, TypeOK, SetUserStatus, Covers, OwnedBy
<1>. QED
  BY <1>1, <1>2, <1>3, WriteIInv DEF SetUserStatus, MayRevoke

\* Deleting a user is such a write.
LEMMA DeleteUserIInv ==
    ASSUME IInv, NEW r \in Revokers, NEW u \in Users, DeleteUser(r, u)
    PROVE  IInv'
<1>1. OwnedBy(u) \in SUBSET Creds
  BY DEF OwnedBy
<1>2. TypeOK'
  BY <1>1 DEF IInv, TypeOK, DeleteUser, EvictNext, RevokerStates
<1>3. Covers(OwnedBy(u))
  BY OwnerAssumption DEF IInv, TypeOK, DeleteUser, Covers, OwnedBy
<1>. QED
  BY <1>1, <1>2, <1>3, WriteIInv DEF DeleteUser, MayRevoke

\* Saving a loaded row is such a write, or takes nothing away.
LEMMA SaveUserIInv ==
    ASSUME IInv, NEW r \in Revokers, SaveUser(r)
    PROVE  IInv'
<1>. DEFINE u == rev[r].user
<1>1. u \in Users /\ rev[r].row \in UserRows /\ rev[r].pc = "loaded"
  BY DEF IInv, TypeOK, SaveUser, RevokerStates, Idle
<1>2. OwnedBy(u) \in SUBSET Creds
  BY DEF OwnedBy
<1>3. TypeOK'
  BY <1>1, <1>2 DEF IInv, TypeOK, SaveUser, EvictNext, RevokerStates
<1>4. Covers(OwnedBy(u))
  BY <1>1, OwnerAssumption DEF IInv, TypeOK, SaveUser, Covers, OwnedBy
<1>. QED
  BY <1>1, <1>2, <1>3, <1>4, WriteIInv DEF SaveUser

-----------------------------------------------------------------------------
(* The other steps.                                                        *)

\* Loading a row changes nothing the cache depends on.
LEMMA LoadUserIInv ==
    ASSUME IInv, NEW r \in Revokers, NEW u \in Users, NEW field \in {"role", "active"},
           NEW row \in UserRows, LoadUser(r, u, field, row)
    PROVE  IInv'
<1>1. TypeOK'
  BY DEF IInv, TypeOK, LoadUser, RevokerStates, dbVars
<1>2. \A c \in Creds : EvictionPending(c)' <=> EvictionPending(c)
  BY DEF IInv, TypeOK, LoadUser, MayRevoke, EvictionPending
<1>3. NoStaleEntry'
  BY <1>2 DEF IInv, NoStaleEntry, Fresh, Accepted, LoadUser, dbVars
<1>4. ASSUME NEW v \in Validators PROVE ReadCurrent(v)'
  <2>1. val[v].pc # "idle" => val[v].cred \in Creds
    BY DEF IInv, TypeOK, ValidatorStates, Idle
  <2>. QED
    BY <1>2, <2>1 DEF IInv, ReadCurrent, Accepted, LoadUser, dbVars
<1>. QED
  BY <1>1, <1>3, <1>4 DEF IInv

\* Evict bumps the generation and removes what it covers.
LEMMA EvictIInv ==
    ASSUME IInv, NEW r \in Revokers, Evict(r)
    PROVE  IInv'
<1>. USE DEF IInv
<1>1. TypeOK'
  BY DEF TypeOK, Evict, RevokerStates, dbVars
<1>2. \A c \in Creds : c \notin rev[r].cover /\ EvictionPending(c) => EvictionPending(c)'
  BY DEF TypeOK, Evict, EvictionPending, Idle
<1>3. NoStaleEntry'
  BY <1>2 DEF TypeOK, NoStaleEntry, Fresh, Accepted, Evict, dbVars
<1>4. \A v \in Validators : ReadCurrent(v)'
  <2>1. \A v \in Validators : val[v].pc # "idle" => val[v].gen \in Nat
    BY DEF TypeOK, ValidatorStates, Idle
  <2>. QED
    BY <2>1 DEF TypeOK, ReadCurrent, Evict
<1>. QED
  BY <1>1, <1>3, <1>4

\* An entry that expires or is swept leaves no obligation.
LEMMA ExpireIInv ==
    ASSUME IInv, NEW c \in Creds, Expire(c)
    PROVE  IInv'
<1>1. TypeOK'
  BY DEF IInv, TypeOK, Expire, dbVars
<1>2. NoStaleEntry'
  BY DEF IInv, TypeOK, NoStaleEntry, Fresh, Accepted, EvictionPending, Expire, dbVars
<1>3. \A v \in Validators : ReadCurrent(v)'
  BY DEF IInv, ReadCurrent, Accepted, EvictionPending, Expire, dbVars
<1>. QED
  BY <1>1, <1>2, <1>3 DEF IInv

\* A step of one validator that publishes nothing.
LEMMA ReadIInv ==
    ASSUME IInv, NEW v \in Validators, NEW s \in ValidatorStates,
           val' = [val EXCEPT ![v] = s], ReadCurrent(v)',
           UNCHANGED <<dbVars, cache, gen, rev>>
    PROVE  IInv'
<1>1. TypeOK'
  BY DEF IInv, TypeOK, dbVars
<1>2. NoStaleEntry'
  BY DEF IInv, NoStaleEntry, Fresh, Accepted, EvictionPending, dbVars
<1>3. ASSUME NEW w \in Validators, w # v PROVE ReadCurrent(w)'
  <2>1. val'[w] = val[w]
    BY <1>3 DEF IInv, TypeOK
  <2>. QED
    BY <2>1 DEF IInv, ReadCurrent, Accepted, EvictionPending, dbVars
<1>. QED
  BY <1>1, <1>2, <1>3 DEF IInv

\* begin remembers the current generation.
LEMMA BeginIInv ==
    ASSUME IInv, NEW v \in Validators, NEW c \in Creds, begin(v, c)
    PROVE  IInv'
<1>. DEFINE s == [pc |-> "begun", cred |-> c, gen |-> gen]
<1>1. s \in ValidatorStates /\ val' = [val EXCEPT ![v] = s]
  BY DEF IInv, TypeOK, begin, ValidatorStates
<1>2. ReadCurrent(v)'
  BY <1>1 DEF IInv, TypeOK, begin, ReadCurrent
<1>. QED
  BY <1>1, <1>2, ReadIInv DEF begin

\* What readCredential saw is true, or an eviction has come or will.
LEMMA ReadCredentialIInv ==
    ASSUME IInv, NEW v \in Validators, readCredential(v)
    PROVE  IInv'
<1>. DEFINE c == val[v].cred
            s == IF valid[c] THEN [pc |-> "credential", cred |-> c, gen |-> val[v].gen]
                             ELSE Idle
<1>1. val[v].pc = "begun" /\ c \in Creds /\ val[v].gen \in Nat
  BY DEF IInv, TypeOK, readCredential, ValidatorStates, Idle
<1>2. s \in ValidatorStates
  BY <1>1 DEF ValidatorStates
<1>3. val' = [val EXCEPT ![v] = s]
  BY DEF readCredential
<1>4. ReadCurrent(v)'
  <2>1. val'[v] = s /\ val[v].gen <= gen
    BY <1>1, <1>3 DEF IInv, TypeOK, ReadCurrent
  <2>2. gen' = gen /\ valid' = valid
    BY DEF readCredential, dbVars
  <2>. QED
    BY <2>1, <2>2, <1>1 DEF ReadCurrent, Idle
<1>. QED
  BY <1>2, <1>3, <1>4, ReadIInv DEF readCredential

\* What readUser saw is true, or an eviction has come or will.
LEMMA ReadUserIInv ==
    ASSUME IInv, NEW v \in Validators, readUser(v)
    PROVE  IInv'
<1>. DEFINE c == val[v].cred
            u == Owner[c]
            s == IF Accepted(u)
                 THEN [pc |-> "user", cred |-> c, gen |-> val[v].gen, role |-> user[u].role]
                 ELSE Idle
<1>1. val[v].pc = "credential" /\ c \in Creds /\ val[v].gen \in Nat
  BY DEF IInv, TypeOK, readUser, ValidatorStates, Idle
<1>2. s \in ValidatorStates
  <2>1. Accepted(u) => user[u].role \in Roles
    BY <1>1, OwnerAssumption DEF IInv, TypeOK, Accepted, UserRows
  <2>. QED
    BY <1>1, <2>1 DEF ValidatorStates
<1>3. val' = [val EXCEPT ![v] = s]
  BY DEF readUser
<1>4. ReadCurrent(v)'
  <2>1. val'[v] = s /\ val[v].gen <= gen
    BY <1>1, <1>3 DEF IInv, TypeOK, ReadCurrent
  <2>2. gen' = gen /\ valid' = valid /\ user' = user /\ rev' = rev
    BY DEF readUser, dbVars
  <2>3. CASE ~Accepted(u)
    BY <2>1, <2>3 DEF ReadCurrent, Idle
  <2>4. CASE Accepted(u)
    <3>1. /\ val'[v].pc = "user" /\ val'[v].cred = c /\ val'[v].gen = val[v].gen
          /\ val'[v].role = user[u].role
      BY <2>1, <2>4
    <3>2. val[v].gen = gen => valid[c] \/ EvictionPending(c)
      BY <1>1 DEF IInv, ReadCurrent
    <3>. QED
      BY <2>1, <2>2, <2>4, <3>1, <3>2 DEF ReadCurrent, Accepted, EvictionPending
  <2>. QED
    BY <2>3, <2>4
<1>. QED
  BY <1>2, <1>3, <1>4, ReadIInv DEF readUser

\* store publishes only what no eviction has overtaken.
LEMMA StoreIInv ==
    ASSUME IInv, NEW v \in Validators, store(v)
    PROVE  IInv'
<1>. DEFINE c == val[v].cred
<1>1. val[v].pc = "user" /\ c \in Creds /\ val[v].role \in Roles
  BY DEF IInv, TypeOK, store, ValidatorStates, Idle
<1>2. TypeOK'
  BY <1>1 DEF IInv, TypeOK, store, ValidatorStates, dbVars
<1>3. NoStaleEntry'
  <2>. SUFFICES ASSUME NEW d \in Creds PROVE Fresh(d)' \/ EvictionPending(d)'
    BY DEF NoStaleEntry
  <2>0. valid' = valid /\ user' = user /\ rev' = rev
    BY DEF store, dbVars
  <2>1. CASE cache'[d] = cache[d]
    BY <2>0, <2>1 DEF IInv, NoStaleEntry, Fresh, Accepted, EvictionPending
  <2>2. CASE d = c /\ gen = val[v].gen
    <3>1. cache'[c] = val[v].role
      BY <2>2, <1>1 DEF IInv, TypeOK, store
    <3>2. (valid[c] /\ Accepted(Owner[c]) /\ user[Owner[c]].role = val[v].role)
          \/ EvictionPending(c)
      BY <2>2, <1>1 DEF IInv, ReadCurrent
    <3>. QED
      BY <2>0, <2>2, <3>1, <3>2 DEF Fresh, Accepted, EvictionPending
  <2>. QED
    BY <1>1, <2>1, <2>2 DEF IInv, TypeOK, store
<1>4. ASSUME NEW w \in Validators PROVE ReadCurrent(w)'
  <2>1. gen' = gen /\ valid' = valid /\ user' = user /\ rev' = rev
    BY DEF store, dbVars
  <2>2. CASE w = v
    BY <2>2 DEF IInv, TypeOK, store, ReadCurrent, Idle
  <2>3. CASE w # v
    <3>1. val'[w] = val[w]
      BY <2>3 DEF IInv, TypeOK, store
    <3>. QED
      BY <2>1, <3>1 DEF IInv, ReadCurrent, Accepted, EvictionPending
  <2>. QED
    BY <2>2, <2>3
<1>. QED
  BY <1>2, <1>3, <1>4 DEF IInv

-----------------------------------------------------------------------------
\* Each action of cache and services preserves IInv.
LEMMA NextIInv == IInv /\ [Next]_vars => IInv'
<1>. SUFFICES ASSUME IInv, [Next]_vars PROVE IInv'
  OBVIOUS
<1>1. ASSUME NEW v \in Validators, NEW c \in Creds, begin(v, c) PROVE IInv'
  BY <1>1, BeginIInv
<1>2. ASSUME NEW v \in Validators, readCredential(v) PROVE IInv'
  BY <1>2, ReadCredentialIInv
<1>3. ASSUME NEW v \in Validators, readUser(v) PROVE IInv'
  BY <1>3, ReadUserIInv
<1>4. ASSUME NEW v \in Validators, store(v) PROVE IInv'
  BY <1>4, StoreIInv
<1>5. ASSUME NEW c \in Creds, Expire(c) PROVE IInv'
  BY <1>5, ExpireIInv
<1>6. ASSUME NEW r \in Revokers, NEW c \in Creds, RevokeCredential(r, c) PROVE IInv'
  BY <1>6, RevokeCredentialIInv
<1>7. ASSUME NEW r \in Revokers, NEW u \in Users, ChangePassword(r, u) PROVE IInv'
  BY <1>7, ChangePasswordIInv
<1>8. ASSUME NEW r \in Revokers, NEW u \in Users, DeleteUser(r, u) PROVE IInv'
  BY <1>8, DeleteUserIInv
<1>9. ASSUME NEW r \in Revokers, NEW u \in Users, NEW isActive \in BOOLEAN,
             SetUserStatus(r, u, isActive)
      PROVE  IInv'
  BY <1>9, SetUserStatusIInv
<1>10. ASSUME NEW r \in Revokers, NEW u \in Users, NEW field \in {"role", "active"},
              NEW row \in UserRows, LoadUser(r, u, field, row)
       PROVE  IInv'
  BY <1>10, LoadUserIInv
<1>11. ASSUME NEW r \in Revokers, SaveUser(r) PROVE IInv'
  BY <1>11, SaveUserIInv
<1>12. ASSUME NEW r \in Revokers, Evict(r) PROVE IInv'
  BY <1>12, EvictIInv
<1>13. CASE UNCHANGED vars
  BY <1>13 DEF vars, dbVars, IInv, TypeOK, NoStaleEntry, ReadCurrent, Fresh, Accepted,
               EvictionPending
<1>. QED
  BY <1>1, <1>2, <1>3, <1>4, <1>5, <1>6, <1>7, <1>8, <1>9, <1>10, <1>11, <1>12, <1>13
     DEF Next

\* IInv holds in every reachable state.
THEOREM InductiveInvariant == Spec => []IInv
<1>1. IInv /\ [Next]_vars => IInv'
  BY NextIInv
<1>. QED
  BY InitIInv, <1>1, PTL DEF Spec

\* Every variable keeps its type; the cache holds no disabled or missing user.
THEOREM TypeCorrect == Spec => []TypeOK
<1>1. IInv => TypeOK
  BY DEF IInv
<1>. QED
  BY <1>1, InductiveInvariant, PTL

\* After a revocation has evicted, no entry it covers survives or comes back.
THEOREM RevokedIsNotCached == Spec => []NoStaleEntry
<1>1. IInv => NoStaleEntry
  BY DEF IInv
<1>. QED
  BY <1>1, InductiveInvariant, PTL

-----------------------------------------------------------------------------
(* The live log (LogStream), with streams of both kinds.                   *)

CONSTANT Firehoses
M == INSTANCE LogStream

\* The channels in the lists are those that are open, and a stream is in a list
\* from when it subscribed to when its handler leaves.
Subscribed == {"select", "write", "stalled", "leave"}
LogLists ==
    /\ panicked = FALSE
    /\ open = subscribers \cup globalSubs
    /\ \A s \in Streams : s \in open <=> loop[s] \in Subscribed

\* The inductive invariant.
LogInv == M!TypeOK /\ LogLists

\* Every step keeps it: a channel is closed by its own handler, which takes it out
\* of its list, and once.
LEMMA LogStep == LogInv /\ [M!Next]_(M!vars) => LogInv'
<1>. SUFFICES ASSUME LogInv, [M!Next]_(M!vars) PROVE LogInv'
  OBVIOUS
<1>. USE DEF M!connVars, M!hubVars
<1>0. M!TypeOK /\ LogLists /\ Capacity \in Nat /\ MaxLines \in Nat
  BY LimitsAssumption DEF LogInv
<1>1. CASE M!Broadcast
  <2>1. queue' \in [Streams -> 0..Capacity]
    <3>1. ASSUME NEW s \in Streams, NEW b \in BOOLEAN
          PROVE  (IF b /\ queue[s] < Capacity THEN queue[s] + 1 ELSE queue[s]) \in 0..Capacity
      <4>1. queue[s] \in 0..Capacity
        BY <1>0 DEF M!TypeOK
      <4>. QED
        BY <1>0, <4>1
    <3>2. queue' = [s \in Streams |->
                      IF s \in subscribers \cup globalSubs /\ queue[s] < Capacity
                      THEN queue[s] + 1 ELSE queue[s]]
      BY <1>1 DEF M!Broadcast
    <3>3. ASSUME NEW s \in Streams PROVE (s \in subscribers \cup globalSubs) \in BOOLEAN
      OBVIOUS
    <3>. QED
      BY <3>1, <3>2, <3>3
  <2>2. lines' \in 0..MaxLines
    BY <1>0, <1>1 DEF M!Broadcast, M!TypeOK
  <2>3. panicked' = FALSE
    BY <1>0, <1>1 DEF M!Broadcast, LogLists
  <2>. QED
    BY <1>0, <1>1, <2>1, <2>2, <2>3 DEF M!Broadcast, M!TypeOK, LogLists, LogInv
<1>2. ASSUME NEW s \in Streams,
             M!capture(s) \/ M!upgradeFails(s) \/ M!write(s) \/ M!stall(s) \/ M!stop(s)
      PROVE  LogInv'
  <2>1. /\ loop' \in [Streams -> {"upgrade", "subscribe", "select", "write", "stalled", "leave",
                                  "done"}]
        /\ \A t \in Streams : loop'[t] \in Subscribed <=> loop[t] \in Subscribed
    BY <1>0, <1>2
       DEF M!capture, M!upgradeFails, M!write, M!stall, M!stop, M!TypeOK, Subscribed
  <2>2. UNCHANGED <<watcher, subscribers, globalSubs, queue, open, panicked, cancelled, closeSent,
                    gone, credential, lines>>
    BY <1>2 DEF M!capture, M!upgradeFails, M!write, M!stall, M!stop
  <2>. QED
    BY <1>0, <2>1, <2>2 DEF M!TypeOK, LogLists, LogInv
<1>3. ASSUME NEW s \in Streams, M!receive(s) PROVE LogInv'
  <2>1. /\ loop' \in [Streams -> {"upgrade", "subscribe", "select", "write", "stalled", "leave",
                                  "done"}]
        /\ \A t \in Streams : loop'[t] \in Subscribed <=> loop[t] \in Subscribed
    BY <1>0, <1>3 DEF M!receive, M!TypeOK, Subscribed
  <2>2. queue' \in [Streams -> 0..Capacity]
    <3>1. queue[s] \in 0..Capacity /\ queue[s] > 0
      BY <1>0, <1>3 DEF M!receive, M!TypeOK
    <3>2. queue[s] - 1 \in 0..Capacity
      BY <1>0, <3>1
    <3>. QED
      BY <1>0, <1>3, <3>2 DEF M!receive, M!TypeOK
  <2>3. UNCHANGED <<watcher, subscribers, globalSubs, open, panicked, cancelled, closeSent,
                    gone, credential, lines>>
    BY <1>3 DEF M!receive
  <2>. QED
    BY <1>0, <2>1, <2>2, <2>3 DEF M!TypeOK, LogLists, LogInv
<1>4. ASSUME NEW s \in Streams, M!Subscribe(s) \/ M!SubscribeAll(s) PROVE LogInv'
  <2>1. /\ loop' \in [Streams -> {"upgrade", "subscribe", "select", "write", "stalled", "leave",
                                  "done"}]
        /\ watcher' \in [Streams -> {"none", "wait", "close", "cancel", "done"}]
        /\ \A t \in Streams : loop'[t] \in Subscribed <=> t = s \/ loop[t] \in Subscribed
    BY <1>0, <1>4 DEF M!Subscribe, M!SubscribeAll, M!listen, M!TypeOK, Subscribed
  <2>2. /\ open' = open \cup {s}
        /\ \/ /\ subscribers' = subscribers \cup {s} /\ s \notin Firehoses
              /\ UNCHANGED globalSubs
           \/ /\ globalSubs' = globalSubs \cup {s} /\ s \in Firehoses
              /\ UNCHANGED subscribers
        /\ UNCHANGED <<queue, panicked, cancelled, closeSent, gone, credential, lines>>
    BY <1>4 DEF M!Subscribe, M!SubscribeAll, M!listen
  <2>. QED
    BY <1>0, <2>1, <2>2 DEF M!TypeOK, LogLists, LogInv
<1>5. ASSUME NEW s \in Streams, M!Unsubscribe(s) \/ M!UnsubscribeAll(s) PROVE LogInv'
  <2>1. /\ loop' \in [Streams -> {"upgrade", "subscribe", "select", "write", "stalled", "leave",
                                  "done"}]
        /\ \A t \in Streams : loop'[t] \in Subscribed <=> t # s /\ loop[t] \in Subscribed
        /\ s \in open
    BY <1>0, <1>5 DEF M!Unsubscribe, M!UnsubscribeAll, M!drop, M!TypeOK, Subscribed, LogLists
  <2>2. /\ subscribers' = subscribers \ {s} /\ globalSubs' = globalSubs \ {s}
        /\ open' = open \ {s} /\ panicked' = FALSE
    BY <1>0, <1>5, <2>1 DEF M!Unsubscribe, M!UnsubscribeAll, M!drop, M!TypeOK, LogLists
  <2>3. UNCHANGED <<watcher, queue, cancelled, closeSent, gone, credential, lines>>
    BY <1>5 DEF M!Unsubscribe, M!UnsubscribeAll, M!drop
  <2>. QED
    BY <1>0, <2>1, <2>2, <2>3 DEF M!TypeOK, LogLists, LogInv
<1>6. ASSUME NEW s \in Streams,
             \/ M!readFails(s) \/ M!revalidate(s) \/ M!revalidateFails(s) \/ M!sendClose(s)
             \/ M!cancel(s) \/ M!revoke(s) \/ M!depart(s)
      PROVE  LogInv'
  <2>1. /\ watcher' \in [Streams -> {"none", "wait", "close", "cancel", "done"}]
        /\ cancelled' \subseteq Streams /\ closeSent' \subseteq Streams
        /\ gone' \subseteq Streams /\ credential' \in [Streams -> BOOLEAN]
    BY <1>0, <1>6
       DEF M!readFails, M!revalidate, M!revalidateFails, M!sendClose, M!cancel, M!revoke,
           M!depart, M!TypeOK
  <2>2. UNCHANGED <<loop, subscribers, globalSubs, queue, open, panicked, lines>>
    BY <1>6
       DEF M!readFails, M!revalidate, M!revalidateFails, M!sendClose, M!cancel, M!revoke, M!depart
  <2>. QED
    BY <1>0, <2>1, <2>2 DEF M!TypeOK, LogLists, LogInv
<1>7. CASE UNCHANGED M!vars
  BY <1>0, <1>7 DEF M!vars, M!TypeOK, LogLists, LogInv
<1>. QED
  BY <1>1, <1>2, <1>3, <1>4, <1>5, <1>6, <1>7 DEF M!Next

\* For any streams of a repository and of the dashboard, and whatever is published
\* while they come and go: no line is sent to a closed channel, and none is closed
\* twice.
THEOREM HubNeverPanics == M!Spec => [](M!TypeOK /\ NoPanic)
<1>1. M!Init => LogInv
  <2>. SUFFICES ASSUME M!Init PROVE LogInv
    OBVIOUS
  <2>1. 0 \in 0..Capacity /\ 0 \in 0..MaxLines
    BY LimitsAssumption
  <2>2. M!TypeOK
    BY <2>1 DEF M!Init, M!TypeOK
  <2>3. LogLists
    BY DEF M!Init, LogLists, Subscribed
  <2>. QED
    BY <2>2, <2>3 DEF LogInv
<1>2. LogInv => M!TypeOK /\ NoPanic
  BY DEF LogInv, LogLists, NoPanic, L!NoPanic
<1>. QED
  BY <1>1, <1>2, LogStep, PTL DEF M!Spec

-----------------------------------------------------------------------------
(* A search through all repositories (GlobalSearch).                       *)

\* The goroutines that run, each with a slot.
Running == {r \in Repos : worker[r] \in {"grep", "lines"}}
SlotsAreHeld == sem = Cardinality(Running)

\* What the handler has started, and what is left to start.
Started(r) ==
    /\ r \in todo => worker[r] = "none"
    /\ worker[r] = "none" => r \in todo \/ (handler = "acquire" /\ r = taken) \/ r \in excused

\* What a goroutine has found, and what it has yet to look at.
Searched(r) ==
    /\ worker[r] \in {"none", "grep"} => left[r] = 0 /\ found[r] = 0
    /\ found[r] + left[r] <= matches[r]
    /\ worker[r] = "lines" => r \in excused \/ found[r] + left[r] = matches[r]
    /\ worker[r] = "ended" => r \in excused \/ found[r] = matches[r] \/ G!full

\* Time is up only when everything is excused, the slice is full or the search is
\* over; the loop is left when nothing is left to start.
SearchFlow ==
    /\ handler = "acquire" => taken \in Repos \ todo /\ worker[taken] = "none"
    /\ over => handler = "done" \/ excused = Repos \/ G!full
    /\ handler \in {"wait", "done"} => G!full \/ \A r \in Repos \ excused : r \notin todo
    /\ handler = "done" => Running = {}

\* The inductive invariant.
SearchInv ==
    /\ G!TypeOK /\ SlotsAreHeld /\ SearchFlow
    /\ \A r \in Repos : Started(r) /\ Searched(r)

\* A goroutine that starts takes a slot, and one that ends gives it back.
LEMMA Slots ==
    ASSUME SlotsAreHeld, NEW r \in Repos
    PROVE  /\ Running' = Running \cup {r} /\ r \notin Running
                => Cardinality(Running') = sem + 1
           /\ Running' = Running \ {r} /\ r \in Running
                => Cardinality(Running') = sem - 1 /\ sem \in Nat \ {0}
           /\ sem \in Nat
<1>1. IsFiniteSet(Running)
  BY ReposAssumption, FS_Subset DEF Running
<1>2. sem = Cardinality(Running) /\ sem \in Nat
  BY <1>1, FS_CardinalityType DEF SlotsAreHeld
<1>3. ASSUME Running' = Running \cup {r}, r \notin Running
      PROVE  Cardinality(Running') = sem + 1
  BY <1>1, <1>2, <1>3, FS_AddElement
<1>4. ASSUME Running' = Running \ {r}, r \in Running
      PROVE  Cardinality(Running') = sem - 1 /\ sem # 0
  <2>1. Cardinality(Running \ {r}) = sem - 1
    BY <1>1, <1>2, <1>4, FS_RemoveElement
  <2>2. Running # {}
    BY <1>4
  <2>. QED
    BY <1>1, <1>2, <1>4, <2>1, <2>2, FS_EmptySet
<1>. QED
  BY <1>2, <1>3, <1>4

\* Every step keeps it: what is not started or not looked at is excused, or more is
\* not wanted.
LEMMA SearchStep == SearchInv /\ [G!Next]_(G!vars) => SearchInv'
<1>. SUFFICES ASSUME SearchInv, [G!Next]_(G!vars) PROVE SearchInv'
  OBVIOUS
<1>. DEFINE Repo == \A r \in Repos : Started(r) /\ Searched(r)
<1>. USE DEF G!searchVars
<1>0. /\ matches \in [Repos -> 0..MaxMatches]
      /\ handler \in {"loop", "acquire", "wait", "done"}
      /\ todo \subseteq Repos /\ taken \in Repos \cup {NoUser}
      /\ sem \in 0..Workers /\ results \in 0..Limit
      /\ worker \in [Repos -> {"none", "grep", "lines", "ended"}]
      /\ left \in [Repos -> 0..MaxMatches] /\ found \in [Repos -> 0..MaxMatches]
      /\ over \in BOOLEAN /\ excused \subseteq Repos
      /\ MaxMatches \in Nat /\ Limit \in Nat /\ Workers \in Nat
      /\ SearchFlow /\ Repo /\ SlotsAreHeld
  BY LimitsAssumption DEF SearchInv, G!TypeOK
<1>1. G!TypeOK
  BY DEF SearchInv
<1>2. ASSUME G!TypeOK', SlotsAreHeld', SearchFlow', Repo' PROVE SearchInv'
  BY <1>2 DEF SearchInv
<1>3. UNCHANGED worker => UNCHANGED Running
  BY DEF Running
<1>4. UNCHANGED <<worker, sem>> => SlotsAreHeld'
  BY <1>0, <1>3 DEF SlotsAreHeld
<1>5. ASSUME NEW r \in Repos, worker[r] \in {"grep", "lines"},
             worker' = [worker EXCEPT ![r] = "ended"], sem' = sem - 1
      PROVE  SlotsAreHeld' /\ sem' \in 0..Workers /\ handler # "done"
  <2>1. Running' = Running \ {r} /\ r \in Running
    BY <1>0, <1>5 DEF Running
  <2>. QED
    BY <1>0, <1>5, <2>1, Slots DEF SlotsAreHeld, SearchFlow
<1>6. CASE G!deadline
  <2>1. G!TypeOK'
    BY <1>1, <1>6 DEF G!deadline, G!TypeOK
  <2>2. SearchFlow' /\ Repo'
    BY <1>0, <1>3, <1>6 DEF G!deadline, G!full, SearchFlow, Started, Searched
  <2>. QED
    BY <1>2, <1>4, <1>6, <2>1, <2>2 DEF G!deadline
<1>7. ASSUME NEW r \in Repos, G!skip(r) \/ G!take(r) PROVE SearchInv'
  <2>1. G!TypeOK'
    BY <1>1, <1>7 DEF G!skip, G!take, G!TypeOK
  <2>2. SearchFlow'
    BY <1>0, <1>3, <1>7 DEF G!skip, G!take, G!full, SearchFlow, Started
  <2>3. Repo'
    BY <1>0, <1>7 DEF G!skip, G!take, G!full, Started, Searched
  <2>. QED
    BY <1>2, <1>4, <1>7, <2>1, <2>2, <2>3 DEF G!skip, G!take
<1>8. CASE G!start
  <2>0. /\ taken \in Repos \ todo /\ worker[taken] = "none"
        /\ worker' = [worker EXCEPT ![taken] = "grep"]
        /\ handler = "acquire" /\ handler' = "loop" /\ sem' = sem + 1 /\ sem < Workers
        /\ UNCHANGED <<matches, todo, left, results, found, over, excused>>
    BY <1>0, <1>8 DEF G!start, SearchFlow
  <2>1. G!TypeOK'
    <3>1. sem' \in 0..Workers /\ taken' = NoUser
      BY <1>0, <1>8 DEF G!start
    <3>. QED
      BY <1>0, <1>1, <2>0, <3>1 DEF G!TypeOK
  <2>2. Running' = Running \cup {taken} /\ taken \notin Running
    BY <1>0, <2>0 DEF Running
  <2>3. SlotsAreHeld'
    BY <1>0, <2>0, <2>2, Slots DEF SlotsAreHeld
  <2>4. SearchFlow'
    BY <1>0, <2>0 DEF G!full, SearchFlow
  <2>5. Repo'
    BY <1>0, <2>0 DEF G!full, Started, Searched
  <2>. QED
    BY <1>2, <2>1, <2>3, <2>4, <2>5
<1>9. CASE G!leaveLoop
  <2>1. G!TypeOK'
    BY <1>1, <1>9 DEF G!leaveLoop, G!TypeOK
  <2>2. SearchFlow'
    BY <1>0, <1>3, <1>9 DEF G!leaveLoop, G!full, SearchFlow
  <2>3. Repo'
    BY <1>0, <1>9 DEF G!leaveLoop, G!full, Started, Searched
  <2>. QED
    BY <1>2, <1>4, <1>9, <2>1, <2>2, <2>3 DEF G!leaveLoop
<1>10. CASE G!respond
  <2>1. G!TypeOK'
    BY <1>1, <1>10 DEF G!respond, G!TypeOK
  <2>2. SearchFlow'
    BY <1>0, <1>3, <1>10 DEF G!respond, G!full, SearchFlow, Running
  <2>3. Repo'
    BY <1>0, <1>10 DEF G!respond, G!full, Started, Searched
  <2>. QED
    BY <1>2, <1>4, <1>10, <2>1, <2>2, <2>3 DEF G!respond
<1>11. ASSUME NEW r \in Repos, G!grepEnds(r) PROVE SearchInv'
  <2>0. PICK n \in 0..matches[r] :
          /\ left' = [left EXCEPT ![r] = n]
          /\ excused' = IF n < matches[r] THEN excused \cup {r} ELSE excused
    BY <1>11 DEF G!grepEnds
  <2>1. /\ worker[r] = "grep" /\ worker' = [worker EXCEPT ![r] = "lines"]
        /\ n \in Nat /\ n <= matches[r] /\ n \in 0..MaxMatches /\ matches[r] \in Nat
        /\ UNCHANGED <<matches, handler, todo, taken, sem, results, found, over>>
    BY <1>0, <1>11 DEF G!grepEnds
  <2>2. G!TypeOK'
    BY <1>0, <1>1, <2>0, <2>1 DEF G!TypeOK
  <2>3. Running' = Running
    BY <1>0, <2>1 DEF Running
  <2>4. SearchFlow' /\ SlotsAreHeld'
    BY <1>0, <2>0, <2>1, <2>3 DEF G!full, SearchFlow, SlotsAreHeld
  <2>5. Repo'
    BY <1>0, <2>0, <2>1 DEF G!full, Started, Searched
  <2>. QED
    BY <1>2, <2>2, <2>4, <2>5
<1>12. ASSUME NEW r \in Repos, G!grepFails(r) PROVE SearchInv'
  <2>1. /\ worker[r] = "grep" /\ worker' = [worker EXCEPT ![r] = "ended"] /\ sem' = sem - 1
        /\ excused' = IF over THEN excused ELSE excused \cup {r}
        /\ UNCHANGED <<matches, handler, todo, taken, left, results, found, over>>
    BY <1>12 DEF G!grepFails
  <2>2. SlotsAreHeld' /\ sem' \in 0..Workers /\ handler # "done"
    BY <1>5, <2>1
  <2>3. G!TypeOK'
    BY <1>1, <2>1, <2>2 DEF G!TypeOK
  <2>4. SearchFlow'
    BY <1>0, <2>1, <2>2 DEF G!full, SearchFlow
  <2>5. Repo'
    BY <1>0, <2>1, <2>2 DEF G!full, SearchFlow, Started, Searched
  <2>. QED
    BY <1>2, <2>2, <2>3, <2>4, <2>5
<1>13. ASSUME NEW r \in Repos, G!add(r) PROVE SearchInv'
  <2>1. /\ worker[r] = "lines" /\ left[r] > 0 /\ results < Limit
        /\ results' = results + 1 /\ found' = [found EXCEPT ![r] = found[r] + 1]
        /\ left' = [left EXCEPT ![r] = left[r] - 1]
        /\ UNCHANGED <<matches, handler, todo, taken, sem, worker, over, excused>>
    BY <1>0, <1>13 DEF G!add, G!full
  <2>2. /\ found[r] \in Nat /\ left[r] \in Nat /\ found[r] + left[r] <= matches[r]
        /\ matches[r] \in 0..MaxMatches
    BY <1>0 DEF Searched
  <2>3. results' \in 0..Limit /\ found[r] + 1 \in 0..MaxMatches /\ left[r] - 1 \in 0..MaxMatches
    BY <1>0, <2>1, <2>2
  <2>4. G!TypeOK'
    BY <1>0, <1>1, <2>1, <2>3 DEF G!TypeOK
  <2>5. SearchFlow'
    BY <1>0, <1>3, <2>1 DEF G!full, SearchFlow
  <2>6. ASSUME NEW t \in Repos PROVE Searched(t)'
    <3>1. CASE t = r
      <4>1. /\ found'[r] = found[r] + 1 /\ left'[r] = left[r] - 1
            /\ worker'[r] = "lines" /\ matches'[r] = matches[r] /\ excused' = excused
        BY <1>0, <2>1
      <4>2. r \in excused \/ found[r] + left[r] = matches[r]
        BY <1>0, <2>1 DEF Searched
      <4>. QED
        BY <2>2, <3>1, <4>1, <4>2 DEF Searched
    <3>2. CASE t # r
      <4>1. /\ found'[t] = found[t] /\ left'[t] = left[t]
            /\ worker' = worker /\ matches' = matches /\ excused' = excused
        BY <1>0, <2>1, <3>2
      <4>2. Searched(t) /\ ~G!full
        BY <1>0, <2>1 DEF G!full
      <4>. QED
        BY <4>1, <4>2 DEF Searched
    <3>. QED
      BY <3>1, <3>2
  <2>7. Repo'
    BY <1>0, <2>1, <2>6 DEF Started
  <2>. QED
    BY <1>2, <1>4, <2>1, <2>4, <2>5, <2>7
<1>14. ASSUME NEW r \in Repos, G!cancelAll(r) \/ G!end(r) PROVE SearchInv'
  <2>1. /\ worker[r] = "lines" /\ worker' = [worker EXCEPT ![r] = "ended"] /\ sem' = sem - 1
        /\ \/ G!full /\ over' = TRUE
           \/ left[r] = 0 /\ over' = over
        /\ UNCHANGED <<matches, handler, todo, taken, left, results, found, excused>>
    BY <1>14 DEF G!cancelAll, G!end
  <2>2. SlotsAreHeld' /\ sem' \in 0..Workers /\ handler # "done"
    BY <1>5, <2>1
  <2>3. G!TypeOK'
    BY <1>0, <1>1, <2>1, <2>2 DEF G!TypeOK
  <2>4. SearchFlow'
    BY <1>0, <2>1, <2>2 DEF G!full, SearchFlow
  <2>5. Repo'
    BY <1>0, <2>1, <2>2 DEF G!full, Started, Searched
  <2>. QED
    BY <1>2, <2>2, <2>3, <2>4, <2>5
<1>15. CASE UNCHANGED G!vars
  <2>1. G!TypeOK' /\ SearchFlow' /\ Repo'
    BY <1>0, <1>1, <1>3, <1>15 DEF G!vars, G!TypeOK, G!full, SearchFlow, Started, Searched
  <2>. QED
    BY <1>2, <1>4, <1>15, <2>1 DEF G!vars
<1>. QED
  BY <1>6, <1>7, <1>8, <1>9, <1>10, <1>11, <1>12, <1>13, <1>14, <1>15
     DEF G!Next, G!handle, G!scan

\* For any repositories, limit and number of goroutines: a search answers with the
\* limit at most, and with less only if it has every match of every repository it
\* could search in time.
THEOREM SearchesAreComplete == G!Spec => []SearchIsComplete
<1>1. G!Init => SearchInv
  <2>. SUFFICES ASSUME G!Init PROVE SearchInv
    OBVIOUS
  <2>1. 0 \in 0..Workers /\ 0 \in 0..Limit /\ 0 \in 0..MaxMatches
    BY LimitsAssumption
  <2>2. G!TypeOK
    BY <2>1 DEF G!Init, G!TypeOK
  <2>3. Running = {}
    BY DEF G!Init, Running
  <2>4. SlotsAreHeld
    BY <2>3, FS_EmptySet DEF G!Init, SlotsAreHeld
  <2>5. \A r \in Repos : Started(r) /\ Searched(r)
    BY LimitsAssumption DEF G!Init, Started, Searched
  <2>. QED
    BY <2>2, <2>3, <2>4, <2>5 DEF G!Init, SearchInv, SearchFlow
<1>2. SearchInv => SearchIsComplete
  <2>. SUFFICES ASSUME SearchInv PROVE SearchIsComplete
    OBVIOUS
  <2>1. results <= Limit
    BY LimitsAssumption DEF SearchInv, G!TypeOK
  <2>2. ASSUME handler = "done", ~G!full, NEW r \in Repos \ excused
        PROVE  found[r] = matches[r]
    <3>1. worker[r] \in {"none", "grep", "lines", "ended"} /\ r \notin Running
      BY <2>2 DEF SearchInv, SearchFlow, G!TypeOK
    <3>2. worker[r] \in {"none", "ended"}
      BY <3>1 DEF Running
    <3>. QED
      BY <2>2, <3>2 DEF SearchInv, SearchFlow, Started, Searched
  <2>. QED
    BY <2>1, <2>2 DEF SearchInv, SearchIsComplete, G!SearchIsComplete
<1>. QED
  BY <1>1, <1>2, SearchStep, PTL DEF G!Spec

-----------------------------------------------------------------------------
(* The figures of the dashboard.                                          *)

\* A figure is of the past, and a walk is alone with its figure: the figure is
\* marked while it runs, and knows no more than the walk does.
WalksAreAlone ==
    /\ \A k \in D!Kinds : figure[k].value <= world
    /\ \A w \in walks : /\ figure[w.kind].refreshing
                        /\ figure[w.kind].value <= w.from /\ w.from <= world
    /\ \A v, w \in walks : v.kind = w.kind => v = w

\* The inductive invariant.
FiguresInv == D!TypeOK /\ WalksAreAlone

\* Reading a figure, with a walk if need be, changes no figure.
LEMMA ReadAndWalk ==
    ASSUME FiguresInv, NEW k \in D!Kinds, D!readAndRefresh(k), UNCHANGED world
    PROVE  /\ figure' \in [D!Kinds -> [value : D!Versions, fresh : BOOLEAN, refreshing : BOOLEAN]]
           /\ walks' \subseteq [kind : D!Kinds, from : D!Versions, published : BOOLEAN]
           /\ \A j \in D!Kinds : figure'[j].value = figure[j].value
           /\ WalksAreAlone'
<1> DEFINE Fig == [value : D!Versions, fresh : BOOLEAN, refreshing : BOOLEAN]
<1>1. /\ figure \in [D!Kinds -> Fig] /\ world \in D!Versions /\ world' = world
      /\ walks \subseteq [kind : D!Kinds, from : D!Versions, published : BOOLEAN]
      /\ D!Versions \subseteq Nat
  BY LimitsAssumption DEF FiguresInv, D!TypeOK, D!Versions
<1>2. CASE figure[k].fresh \/ figure[k].refreshing
  BY <1>1, <1>2 DEF D!readAndRefresh, FiguresInv, WalksAreAlone
<1>3. CASE ~(figure[k].fresh \/ figure[k].refreshing)
  <2> DEFINE new == [kind |-> k, from |-> world, published |-> FALSE]
  <2>1. figure' = [figure EXCEPT ![k].refreshing = TRUE] /\ walks' = walks \cup {new}
    BY <1>3 DEF D!readAndRefresh, D!walk
  <2>2. /\ figure' \in [D!Kinds -> Fig] /\ figure'[k].refreshing
        /\ \A j \in D!Kinds : /\ figure'[j].value = figure[j].value
                              /\ figure[j].refreshing => figure'[j].refreshing
    BY <1>1, <2>1
  <2>3. /\ new \in [kind : D!Kinds, from : D!Versions, published : BOOLEAN]
        /\ new.kind = k /\ new.from = world
    BY <1>1
  <2>4. \A w \in walks : w.kind # k /\ w.kind \in D!Kinds
    BY <1>1, <1>3 DEF FiguresInv, WalksAreAlone
  <2> HIDE DEF new, Fig
  <2>5. WalksAreAlone'
    BY <1>1, <2>1, <2>2, <2>3, <2>4 DEF FiguresInv, WalksAreAlone
  <2> QED BY <1>1, <2>1, <2>2, <2>3, <2>5 DEF Fig
<1> QED BY <1>2, <1>3

\* Every step keeps the invariant, and takes no figure back.
LEMMA FiguresStep ==
    FiguresInv /\ [D!Next]_(D!vars) =>
        FiguresInv' /\ \A k \in D!Kinds : figure'[k].value >= figure[k].value
<1> SUFFICES ASSUME FiguresInv, [D!Next]_(D!vars)
             PROVE  FiguresInv' /\ \A k \in D!Kinds : figure'[k].value >= figure[k].value
  OBVIOUS
<1> DEFINE Fig == [value : D!Versions, fresh : BOOLEAN, refreshing : BOOLEAN]
           Walk == [kind : D!Kinds, from : D!Versions, published : BOOLEAN]
           Poll == [pc : {"idle", "scan", "size", "store"}, rows : D!Versions, total : D!Versions]
           Shown == [rows : D!Versions, total : D!Versions, fresh : BOOLEAN]
           Gauge == [rows : D!Versions, storage : D!Versions]
           Advance == \A k \in D!Kinds : figure'[k].value >= figure[k].value
<1>1. /\ world \in D!Versions /\ figure \in [D!Kinds -> Fig] /\ walks \subseteq Walk
      /\ stats \in Shown /\ polls \in [Validators -> Poll] /\ gauge \in Gauge
      /\ failures \in 0..MaxFaults
      /\ WalksAreAlone
  BY DEF FiguresInv, D!TypeOK
<1>2. /\ MaxChanges \in Nat /\ MaxFaults \in Nat /\ D!Versions \subseteq Nat /\ 0 \in D!Versions
      /\ "storage" \in D!Kinds /\ "dedupe" \in D!Kinds
  BY LimitsAssumption DEF D!Versions, D!Kinds
<1>0. /\ world \in Nat /\ \A k \in D!Kinds : figure[k].value \in Nat
      /\ \A w \in walks : w.kind \in D!Kinds /\ w.from \in Nat
      /\ \A k \in D!Kinds : figure[k].value <= world
      /\ \A w \in walks : /\ figure[w.kind].refreshing
                          /\ figure[w.kind].value <= w.from /\ w.from <= world
      /\ \A v, w \in walks : v.kind = w.kind => v = w
  BY <1>1, <1>2 DEF WalksAreAlone
\* The parts: the figures with their walks, the statistics with who computes them.
<1>3. ASSUME world' \in D!Versions, figure' \in [D!Kinds -> Fig], walks' \subseteq Walk,
             WalksAreAlone', Advance,
             stats' \in Shown, polls' \in [Validators -> Poll], gauge' \in Gauge,
             failures' \in 0..MaxFaults
      PROVE  FiguresInv' /\ Advance
  BY <1>3 DEF FiguresInv, D!TypeOK
<1>4. ASSUME UNCHANGED <<figure, walks>>, world' \in D!Versions, world' >= world
      PROVE  figure' \in [D!Kinds -> Fig] /\ walks' \subseteq Walk /\ WalksAreAlone' /\ Advance
  <2>1. world' \in Nat
    BY <1>2, <1>4
  <2> HIDE DEF Fig, Walk
  <2> QED BY <1>0, <1>1, <1>4, <2>1 DEF WalksAreAlone
<1>5. ASSUME D!readAndRefresh("storage"), UNCHANGED world
      PROVE  figure' \in [D!Kinds -> Fig] /\ walks' \subseteq Walk /\ WalksAreAlone' /\ Advance
  <2>1. /\ figure' \in [D!Kinds -> Fig] /\ walks' \subseteq Walk /\ WalksAreAlone'
        /\ \A j \in D!Kinds : figure'[j].value = figure[j].value
    BY <1>2, <1>5, ReadAndWalk
  <2> QED BY <1>0, <2>1
<1>6. ASSUME D!fault PROVE failures' \in 0..MaxFaults
  BY <1>1, <1>2, <1>6 DEF D!fault
<1>7. CASE D!change
  <2>1. /\ world' \in D!Versions /\ world' >= world
        /\ UNCHANGED <<figure, walks, stats, polls, gauge, failures>>
    BY <1>0, <1>2, <1>7 DEF D!change, D!Versions
  <2> HIDE DEF Fig, Walk, Poll, Shown, Gauge
  <2> QED BY <1>1, <1>3, <1>4, <2>1
<1>8. CASE D!expireStats
  <2>1. stats' \in Shown /\ UNCHANGED <<world, figure, walks, polls, gauge, failures>>
    BY <1>1, <1>8 DEF D!expireStats
  <2> HIDE DEF Fig, Walk, Poll, Shown, Gauge
  <2> QED BY <1>0, <1>1, <1>3, <1>4, <2>1
<1>9. ASSUME NEW k \in D!Kinds, D!expire(k) PROVE FiguresInv' /\ Advance
  <2>1. /\ figure' = [figure EXCEPT ![k].fresh = FALSE]
        /\ UNCHANGED <<world, walks, stats, polls, gauge, failures>>
    BY <1>9 DEF D!expire
  <2>2. /\ figure' \in [D!Kinds -> Fig]
        /\ \A j \in D!Kinds : /\ figure'[j].value = figure[j].value
                              /\ figure'[j].refreshing = figure[j].refreshing
    BY <1>1, <2>1
  <2> HIDE DEF Fig
  <2>3. WalksAreAlone' /\ Advance
    BY <1>0, <2>1, <2>2 DEF WalksAreAlone
  <2> QED BY <1>1, <1>3, <2>1, <2>2, <2>3
<1>10. CASE D!paperbinSizeBytes
  BY <1>1, <1>3, <1>5, <1>10 DEF D!paperbinSizeBytes
<1>11. CASE D!DedupeSavings
  <2>1. /\ figure' \in [D!Kinds -> Fig] /\ walks' \subseteq Walk /\ WalksAreAlone'
        /\ \A j \in D!Kinds : figure'[j].value = figure[j].value
    BY <1>2, <1>11, ReadAndWalk DEF D!DedupeSavings
  <2> QED BY <1>0, <1>1, <1>3, <1>11, <2>1 DEF D!DedupeSavings
<1>12. ASSUME NEW w \in walks, D!refreshStorage(w) PROVE FiguresInv' /\ Advance
  <2>1. /\ w.kind = "storage" /\ walks' = walks \ {w}
        /\ figure' = [figure EXCEPT !["storage"] =
                        [value |-> w.from, fresh |-> TRUE, refreshing |-> FALSE]]
        /\ UNCHANGED <<world, stats, polls, gauge, failures>>
    BY <1>12 DEF D!refreshStorage
  <2>2. w.from \in D!Versions /\ w.from <= world /\ figure["storage"].value <= w.from
    BY <1>1, <2>1 DEF WalksAreAlone
  <2>3. /\ figure' \in [D!Kinds -> Fig] /\ figure'["storage"].value = w.from
        /\ \A j \in D!Kinds \ {"storage"} : figure'[j] = figure[j]
    BY <1>1, <2>1, <2>2
  <2>4. \A v \in walks' : v \in walks /\ v.kind # "storage" /\ v.kind \in D!Kinds
    BY <1>1, <2>1 DEF WalksAreAlone
  <2> HIDE DEF Fig
  <2>5. WalksAreAlone' /\ Advance
    BY <1>0, <1>2, <2>1, <2>2, <2>3, <2>4 DEF WalksAreAlone
  <2> QED BY <1>1, <1>3, <2>1, <2>3, <2>5
<1>13. ASSUME NEW w \in walks, D!refreshDedupeSavings(w) PROVE FiguresInv' /\ Advance
  <2> DEFINE ended == [w EXCEPT !.published = TRUE]
  <2>1. /\ w.kind = "dedupe" /\ walks' = (walks \ {w}) \cup {ended}
        /\ figure' = [figure EXCEPT !["dedupe"].value = w.from, !["dedupe"].fresh = TRUE]
        /\ UNCHANGED <<world, stats, polls, gauge, failures>>
    BY <1>13 DEF D!refreshDedupeSavings
  <2>2. /\ w \in Walk /\ w.from \in D!Versions /\ w.from <= world
        /\ figure["dedupe"].value <= w.from /\ figure["dedupe"].refreshing
    BY <1>1, <2>1 DEF WalksAreAlone
  <2>3. ended \in Walk /\ ended.kind = "dedupe" /\ ended.from = w.from
    BY <2>1, <2>2
  <2>4. /\ figure' \in [D!Kinds -> Fig] /\ figure'["dedupe"].value = w.from
        /\ figure'["dedupe"].refreshing
        /\ \A j \in D!Kinds \ {"dedupe"} : figure'[j] = figure[j]
    <3>1. [figure["dedupe"] EXCEPT !.value = w.from, !.fresh = TRUE] \in Fig
      BY <1>1, <1>2, <2>2
    <3>2. figure' = [figure EXCEPT !["dedupe"] =
                       [figure["dedupe"] EXCEPT !.value = w.from, !.fresh = TRUE]]
      BY <2>1
    <3>3. [figure["dedupe"] EXCEPT !.value = w.from, !.fresh = TRUE].value = w.from
          /\ [figure["dedupe"] EXCEPT !.value = w.from, !.fresh = TRUE].refreshing
      BY <1>1, <1>2, <2>2
    <3> HIDE DEF Fig
    <3> QED BY <1>1, <1>2, <3>1, <3>2, <3>3
  <2>5. \A v \in walks \ {w} : v.kind # "dedupe" /\ v.kind \in D!Kinds
    BY <1>1, <2>1 DEF WalksAreAlone
  <2> HIDE DEF Fig, Walk, ended
  <2>6. WalksAreAlone' /\ Advance
    BY <1>0, <1>2, <2>1, <2>2, <2>3, <2>4, <2>5 DEF WalksAreAlone
  <2> QED BY <1>1, <1>3, <2>1, <2>3, <2>4, <2>6
<1>14. ASSUME NEW w \in walks, D!refreshDone(w) PROVE FiguresInv' /\ Advance
  <2>1. /\ w.kind = "dedupe" /\ walks' = walks \ {w}
        /\ figure' = [figure EXCEPT !["dedupe"].refreshing = FALSE]
        /\ UNCHANGED <<world, stats, polls, gauge>> /\ failures' \in 0..MaxFaults
    BY <1>1, <1>6, <1>14 DEF D!refreshDone
  <2>2. /\ figure' \in [D!Kinds -> Fig]
        /\ \A j \in D!Kinds : figure'[j].value = figure[j].value
        /\ \A j \in D!Kinds \ {"dedupe"} : figure'[j] = figure[j]
    BY <1>1, <2>1
  <2>3. \A v \in walks' : v \in walks /\ v.kind # "dedupe" /\ v.kind \in D!Kinds
    BY <1>1, <2>1 DEF WalksAreAlone
  <2> HIDE DEF Fig
  <2>4. WalksAreAlone' /\ Advance
    BY <1>0, <1>2, <2>1, <2>2, <2>3 DEF WalksAreAlone
  <2> QED BY <1>1, <1>3, <2>1, <2>2, <2>4
<1>15. CASE D!refreshGauges
  <2>1. gauge' \in Gauge /\ failures' \in 0..MaxFaults
    BY <1>1, <1>2, <1>6, <1>15 DEF D!refreshGauges
  <2> QED BY <1>1, <1>3, <1>5, <1>15, <2>1 DEF D!refreshGauges
<1>16. ASSUME NEW r \in Validators, D!GetStats(r) \/ D!step(r) PROVE FiguresInv' /\ Advance
  <2>1. stats' \in Shown /\ polls' \in [Validators -> Poll] /\ failures' \in 0..MaxFaults
    <3>1. polls[r] \in Poll /\ figure["storage"].value \in D!Versions /\ D!Idle \in Poll
      BY <1>1, <1>2 DEF D!Idle
    <3>2. CASE D!GetStats(r)
      BY <1>1, <3>2 DEF D!GetStats
    <3>3. CASE D!scan(r)
      BY <1>1, <3>3 DEF D!scan
    <3>4. CASE D!scanFails(r)
      BY <1>1, <1>6, <3>1, <3>4 DEF D!scanFails
    <3>5. CASE D!sumSizes(r)
      BY <1>1, <3>5 DEF D!sumSizes
    <3>6. CASE D!totalStorageBytes(r)
      BY <1>1, <3>1, <3>6 DEF D!totalStorageBytes
    <3>7. CASE D!storeStats(r)
      BY <1>1, <3>1, <3>7 DEF D!storeStats
    <3> QED BY <1>16, <3>2, <3>3, <3>4, <3>5, <3>6, <3>7 DEF D!step
  <2>2. /\ UNCHANGED <<world, gauge>>
        /\ UNCHANGED <<figure, walks>> \/ D!readAndRefresh("storage")
    BY <1>16 DEF D!GetStats, D!step, D!scan, D!scanFails, D!sumSizes, D!totalStorageBytes,
                 D!storeStats
  <2>3. figure' \in [D!Kinds -> Fig] /\ walks' \subseteq Walk /\ WalksAreAlone' /\ Advance
    BY <1>1, <1>2, <1>4, <1>5, <2>2
  <2> QED BY <1>1, <1>3, <2>1, <2>2, <2>3
<1>17. CASE UNCHANGED D!vars
  BY <1>1, <1>2, <1>3, <1>4, <1>17 DEF D!vars
<1> QED BY <1>7, <1>8, <1>9, <1>10, <1>11, <1>12, <1>13, <1>14, <1>15, <1>16, <1>17
           DEF D!Next, D!refresh

\* The dashboard's types, and "only one refresh runs at a time": no figure goes back to
\* an older state of the tree, for any requests, changes and failing queries.
THEOREM DashboardAdvances == D!Spec => []D!TypeOK /\ D!FiguresAdvance
<1>1. D!Init => FiguresInv
  BY LimitsAssumption
     DEF D!Init, FiguresInv, D!TypeOK, WalksAreAlone, D!Versions, D!Kinds, D!Idle
<1>2. FiguresInv => D!TypeOK
  BY DEF FiguresInv
<1> QED BY <1>1, <1>2, FiguresStep, PTL DEF D!Spec, D!FiguresAdvance

=============================================================================
