----------------------------- MODULE KeyedMutex -----------------------------
(***************************************************************************)
(* internal/gitops/keyedmutex.go: a mutex per string key.  The mutex of a  *)
(* key is an object created on first use and dropped from the map when no  *)
(* caller holds it or waits for it; `refs' counts those callers and is     *)
(* guarded by the map's own mutex, which makes acquire and release atomic. *)
(*                                                                         *)
(* The object's identity is what matters: if the map forgot a key while a  *)
(* caller still had its object, the next caller would create a second      *)
(* mutex for the same path and two git processes would run in it.  Objects *)
(* are drawn from Mutexes; one that neither the map nor a caller refers to *)
(* is garbage and stands for a freshly allocated one.                      *)
(***************************************************************************)
EXTENDS Naturals, FiniteSets

CONSTANTS Callers,   \* goroutines that call Lock or TryLock
          Keys,      \* on-disk paths
          Mutexes,   \* identities of *refCountedMutex objects
          NoMutex,   \* the map has no entry (`ok' is false)
          NoCaller

ASSUME CallersAssumption == IsFiniteSet(Callers) /\ NoCaller \notin Callers
ASSUME MutexesAssumption == NoMutex \notin Mutexes

VARIABLES locks,   \* the map: locks[k] is an object or NoMutex
          refs,    \* refs[m]: the reference count of object m
          locked,  \* locked[m]: m.mu is locked
          pc,      \* pc[c]: where caller c is in Lock / TryLock / unlock
          key,     \* key[c]: the key c was called with
          obj      \* obj[c]: the object acquire returned to c

vars == <<locks, refs, locked, pc, key, obj>>

(* "lock", "try": acquire returned and m.mu.Lock / m.mu.TryLock is next;   *)
(* "holding": the caller is in its critical section;                       *)
(* "release": m.mu is unlocked or was never taken, k.release is next.      *)
PCs == {"idle", "lock", "try", "holding", "release"}

TypeOK ==
    /\ locks \in [Keys -> Mutexes \cup {NoMutex}]
    /\ refs \in [Mutexes -> Nat]
    /\ locked \in [Mutexes -> BOOLEAN]
    /\ pc \in [Callers -> PCs]
    /\ key \in [Callers -> Keys]
    /\ obj \in [Callers -> Mutexes]

Init ==
    /\ locks = [k \in Keys |-> NoMutex]
    /\ refs = [m \in Mutexes |-> 0]
    /\ locked = [m \in Mutexes |-> FALSE]
    /\ pc = [c \in Callers |-> "idle"]
    /\ key \in [Callers -> Keys]
    /\ obj \in [Callers -> Mutexes]

Active(c) == pc[c] # "idle"

\* The callers that hold object m or are between acquire and release on it.
Users(m) == {c \in Callers : Active(c) /\ obj[c] = m}

\* No reference to m is left anywhere and it is unlocked, so it may stand for
\* the zero value `&refCountedMutex{}'.
Fresh(m) == (\A k \in Keys : locks[k] # m) /\ Users(m) = {} /\ ~locked[m]

\* The object acquire returns for k: the entry's, or a new one.
objectFor(k, m) == locks[k] = m \/ (locks[k] = NoMutex /\ Fresh(m))

-----------------------------------------------------------------------------
\* acquire: look the key up, create its object if there is none, count the
\* caller; all of it under k.mu.  A new object is unlocked, which Fresh says.
acquire(c, k, next) ==
    /\ pc[c] = "idle"
    /\ \E m \in Mutexes :
         /\ objectFor(k, m)
         /\ refs' = [refs EXCEPT ![m] = IF locks[k] = m THEN @ + 1 ELSE 1]
         /\ locks' = [locks EXCEPT ![k] = m]
         /\ obj' = [obj EXCEPT ![c] = m]
    /\ key' = [key EXCEPT ![c] = k]
    /\ pc' = [pc EXCEPT ![c] = next]
    /\ UNCHANGED locked

\* Mutant: the caller goes ahead whether or not it got the mutex.
takeAnyway(c) ==
    /\ pc[c] \in {"lock", "try"}
    /\ locked' = [locked EXCEPT ![obj[c]] = TRUE]
    /\ pc' = [pc EXCEPT ![c] = "holding"]
    /\ UNCHANGED <<locks, refs, key, obj>>

\* m.mu.Lock() returns, or m.mu.TryLock() returns true: the object is free.
takeMutex(c) ==
    /\ pc[c] \in {"lock", "try"}
    /\ ~locked[obj[c]]
    /\ locked' = [locked EXCEPT ![obj[c]] = TRUE]
    /\ pc' = [pc EXCEPT ![c] = "holding"]
    /\ UNCHANGED <<locks, refs, key, obj>>

\* Mutant: a failed TryLock forgets the reference it took.
tryLockLeaks(c) ==
    /\ pc[c] = "try"
    /\ locked[obj[c]]
    /\ pc' = [pc EXCEPT ![c] = "idle"]
    /\ UNCHANGED <<locks, refs, locked, key, obj>>

\* m.mu.TryLock() returns false: the caller drops its reference and gives up.
\* sync.Mutex also refuses while it hands an unlocked mutex to a waiter.
tryLockFails(c) ==
    /\ pc[c] = "try"
    /\ \/ locked[obj[c]]
       \/ \E d \in Callers : pc[d] = "lock" /\ obj[d] = obj[c]
    /\ pc' = [pc EXCEPT ![c] = "release"]
    /\ UNCHANGED <<locks, refs, locked, key, obj>>

\* Mutant: the unlock function drops the reference but not the mutex.
unlockOnlyReleases(c) ==
    /\ pc[c] = "holding"
    /\ pc' = [pc EXCEPT ![c] = "release"]
    /\ UNCHANGED <<locks, refs, locked, key, obj>>

\* The unlock function's first half: m.mu.Unlock().
unlockMutex(c) ==
    /\ pc[c] = "holding"
    /\ locked' = [locked EXCEPT ![obj[c]] = FALSE]
    /\ pc' = [pc EXCEPT ![c] = "release"]
    /\ UNCHANGED <<locks, refs, key, obj>>

\* release: drop the reference; the last one out deletes the key's entry.
release(c) ==
    /\ pc[c] = "release"
    /\ refs' = [refs EXCEPT ![obj[c]] = @ - 1]
    /\ locks' = [locks EXCEPT ![key[c]] = IF refs[obj[c]] <= 1 THEN NoMutex ELSE @]
    /\ pc' = [pc EXCEPT ![c] = "idle"]
    /\ UNCHANGED <<locked, key, obj>>

Lock(c, k) == acquire(c, k, "lock")
TryLock(c, k) == acquire(c, k, "try")

Next ==
    \E c \in Callers :
        \/ \E k \in Keys : Lock(c, k) \/ TryLock(c, k)
        \/ takeMutex(c) \/ tryLockFails(c) \/ unlockMutex(c) \/ release(c)

Spec == Init /\ [][Next]_vars

(* A caller that has a reference keeps running, so unlock and release      *)
(* happen; sync.Mutex hands the lock to a waiter that starves (its         *)
(* starvation mode), which is strong fairness of taking it.                *)
FairSpec ==
    /\ Spec
    /\ \A c \in Callers : /\ WF_vars(tryLockFails(c) \/ unlockMutex(c) \/ release(c))
                          /\ SF_vars(takeMutex(c))

-----------------------------------------------------------------------------
\* Two callers never are in the critical section of one key: the git
\* operations on a path (repoLocks) or a pool (poolLocks) are serialized.
MutualExclusion ==
    \A c, d \in Callers :
        pc[c] = "holding" /\ pc[d] = "holding" /\ key[c] = key[d] => c = d

\* While a caller holds or waits on an object, the map still leads every new
\* caller of that key to the same object.
NoEvictionInUse ==
    \A c \in Callers : Active(c) => locks[key[c]] = obj[c]

\* An entry outlives its callers by nothing: the map holds exactly the keys
\* some caller is using, so it does not grow with the keys ever seen.
NoLeakedEntry ==
    \A k \in Keys : locks[k] # NoMutex => \E c \in Callers : Active(c) /\ key[c] = k

\* A blocked Lock returns in the end, whatever the other callers do.
LockIsGranted ==
    \A c \in Callers : pc[c] = "lock" ~> pc[c] = "holding"

-----------------------------------------------------------------------------
\* The refinement: the owner of a key is the caller in its critical section.
Holders(k) == {c \in Callers : pc[c] = "holding" /\ key[c] = k}

ownerOf == [k \in Keys |-> IF Holders(k) = {} THEN NoCaller
                                              ELSE CHOOSE c \in Holders(k) : TRUE]

Abstract == INSTANCE KeyedLock WITH owner <- ownerOf

\* The reference-counted map behaves as one lock per key.
ImplementsKeyedLock == Abstract!Spec

-----------------------------------------------------------------------------
\* The inductive invariant: one object per key in use, counted exactly, and
\* locked exactly when one of its users is in the critical section.
CountsExact ==
    \A m \in Mutexes : Users(m) # {} => refs[m] = Cardinality(Users(m))

EntriesInUse ==
    \A k \in Keys : locks[k] # NoMutex => \E c \in Callers : c \in Users(locks[k])

OneKeyPerObject ==
    \A k, l \in Keys : locks[k] # NoMutex /\ locks[k] = locks[l] => k = l

LockedByHolder ==
    /\ \A c \in Callers : pc[c] = "holding" => locked[obj[c]]
    /\ \A c, d \in Callers :
          pc[c] = "holding" /\ pc[d] = "holding" /\ obj[c] = obj[d] => c = d

IInv ==
    /\ TypeOK
    /\ NoEvictionInUse
    /\ CountsExact
    /\ EntriesInUse
    /\ OneKeyPerObject
    /\ LockedByHolder
=============================================================================
