-------------------------- MODULE KeyedMutexProofs --------------------------
(***************************************************************************)
(* Proofs about KeyedMutex, for any number of callers, keys and objects.   *)
(*                                                                         *)
(* Mutual exclusion per key rests on the map never forgetting a key in use *)
(* (NoEvictionInUse), which rests on the reference count of an object being *)
(* exactly the number of its users (CountsExact).  IInv is the conjunction *)
(* that is inductive; every theorem below follows from IInv.               *)
(***************************************************************************)
EXTENDS KeyedMutex, FiniteSetTheorems, TLAPS

\* The users of an object are finitely many, so they can be counted.
LEMMA UsersFinite ==
    ASSUME NEW m
    PROVE  IsFiniteSet(Users(m)) /\ Cardinality(Users(m)) \in Nat
<1>1. Users(m) \in SUBSET Callers
  BY DEF Users
<1>2. IsFiniteSet(Users(m))
  BY <1>1, CallersAssumption, FS_Subset
<1>. QED
  BY <1>2, FS_CardinalityType

\* The empty map satisfies the invariant.
LEMMA InitIInv == Init => IInv
<1>. SUFFICES ASSUME Init PROVE IInv
  OBVIOUS
<1>1. TypeOK
  BY DEF Init, TypeOK, PCs
<1>2. \A m : Users(m) = {}
  BY DEF Init, Users, Active
<1>3. NoEvictionInUse /\ CountsExact /\ EntriesInUse /\ OneKeyPerObject /\ LockedByHolder
  BY <1>2 DEF Init, NoEvictionInUse, CountsExact, EntriesInUse, OneKeyPerObject,
              LockedByHolder, Active
<1>. QED
  BY <1>1, <1>3 DEF IInv

\* A step that changes no object's users, no count and no entry keeps the
\* four conjuncts that speak of them.
LEMMA SameUsers ==
    ASSUME IInv, UNCHANGED <<locks, refs, key, obj>>,
           pc' \in [Callers -> PCs],
           \A c \in Callers : pc'[c] # "idle" <=> pc[c] # "idle"
    PROVE  NoEvictionInUse' /\ CountsExact' /\ EntriesInUse' /\ OneKeyPerObject'
<1>1. \A m : Users(m)' = Users(m)
  BY DEF Users, Active
<1>2. NoEvictionInUse'
  BY DEF IInv, NoEvictionInUse, Active
<1>3. CountsExact' /\ EntriesInUse'
  BY <1>1 DEF IInv, CountsExact, EntriesInUse
<1>4. OneKeyPerObject'
  BY DEF IInv, OneKeyPerObject
<1>. QED
  BY <1>2, <1>3, <1>4

\* acquire counts its caller into the entry it returns.
LEMMA AcquireIInv ==
    ASSUME IInv, NEW c \in Callers, NEW k \in Keys, NEW next \in {"lock", "try"},
           acquire(c, k, next)
    PROVE  IInv'
<1>. USE DEF IInv
<1>1. PICK m \in Mutexes :
        /\ objectFor(k, m)
        /\ refs' = [refs EXCEPT ![m] = IF locks[k] = m THEN @ + 1 ELSE 1]
        /\ locks' = [locks EXCEPT ![k] = m]
        /\ obj' = [obj EXCEPT ![c] = m]
  BY DEF acquire
<1>2. /\ pc[c] = "idle"
      /\ key' = [key EXCEPT ![c] = k]
      /\ pc' = [pc EXCEPT ![c] = next]
      /\ UNCHANGED locked
  BY DEF acquire
<1>3. TypeOK'
  BY <1>1, <1>2 DEF TypeOK, PCs
<1>4. Users(m)' = Users(m) \cup {c} /\ c \notin Users(m)
  BY <1>1, <1>2 DEF TypeOK, Users, Active
<1>5. \A n \in Mutexes \ {m} : Users(n)' = Users(n)
  BY <1>1, <1>2 DEF TypeOK, Users, Active
<1>6. NoEvictionInUse'
  <2>. SUFFICES ASSUME NEW d \in Callers, Active(d)'
                PROVE  locks'[key'[d]] = obj'[d]
    BY DEF NoEvictionInUse
  <2>1. CASE d = c
    BY <2>1, <1>1, <1>2 DEF TypeOK
  <2>2. CASE d # c
    <3>1. Active(d) /\ key'[d] = key[d] /\ obj'[d] = obj[d]
      BY <2>2, <1>1, <1>2 DEF TypeOK, Active
    <3>2. locks[key[d]] = obj[d]
      BY <3>1 DEF NoEvictionInUse
    <3>3. locks[key[d]] # NoMutex
      BY <3>2, MutexesAssumption DEF TypeOK
    <3>4. key[d] = k => locks[k] = m
      BY <3>3, <1>1 DEF objectFor
    <3>. QED
      BY <3>1, <3>2, <3>4, <1>1 DEF TypeOK
  <2>. QED
    BY <2>1, <2>2
<1>7. CountsExact'
  <2>. SUFFICES ASSUME NEW n \in Mutexes, Users(n)' # {}
                PROVE  refs'[n] = Cardinality(Users(n)')
    BY DEF CountsExact
  <2>1. CASE n # m
    <3>1. refs'[n] = refs[n] /\ Users(n)' = Users(n)
      BY <2>1, <1>1, <1>5 DEF TypeOK
    <3>. QED
      BY <3>1 DEF CountsExact
  <2>2. CASE n = m /\ locks[k] = m
    <3>1. Users(m) # {}
      BY <2>2, MutexesAssumption DEF EntriesInUse, Users
    <3>2. refs'[m] = Cardinality(Users(m)) + 1
      BY <3>1, <2>2, <1>1 DEF CountsExact, TypeOK
    <3>3. Cardinality(Users(m) \cup {c}) = Cardinality(Users(m)) + 1
      BY <1>4, UsersFinite, FS_AddElement
    <3>. QED
      BY <2>2, <3>2, <3>3, <1>4
  <2>3. CASE n = m /\ locks[k] # m
    <3>1. Users(m) = {}
      BY <2>3, <1>1 DEF objectFor, Fresh
    <3>2. refs'[m] = 1
      BY <2>3, <1>1 DEF TypeOK
    <3>3. Cardinality({c}) = 1
      BY FS_Singleton
    <3>4. Users(m)' = {c}
      BY <3>1, <1>4
    <3>. QED
      BY <2>3, <3>2, <3>3, <3>4
  <2>. QED
    BY <2>1, <2>2, <2>3
<1>8. EntriesInUse'
  <2>. SUFFICES ASSUME NEW l \in Keys, locks'[l] # NoMutex
                PROVE  \E d \in Callers : Active(d)' /\ obj'[d] = locks'[l]
    BY DEF EntriesInUse, Users
  <2>1. CASE l = k
    BY <2>1, <1>1, <1>2 DEF TypeOK, Active
  <2>2. CASE l # k
    <3>1. locks'[l] = locks[l]
      BY <2>2, <1>1 DEF TypeOK
    <3>2. PICK d \in Callers : Active(d) /\ obj[d] = locks[l]
      BY <3>1 DEF EntriesInUse, Users
    <3>. QED
      BY <3>1, <3>2, <1>1, <1>2 DEF TypeOK, Active
  <2>. QED
    BY <2>1, <2>2
<1>9. OneKeyPerObject'
  <2>1. \A l \in Keys : l # k => locks[l] # m
    BY <1>1, MutexesAssumption DEF objectFor, Fresh, OneKeyPerObject, TypeOK
  <2>. QED
    BY <2>1, <1>1 DEF OneKeyPerObject, TypeOK
<1>10. LockedByHolder'
  BY <1>1, <1>2 DEF LockedByHolder, TypeOK
<1>. QED
  BY <1>3, <1>6, <1>7, <1>8, <1>9, <1>10

\* Taking a free mutex changes neither users nor counts.
LEMMA TakeIInv ==
    ASSUME IInv, NEW c \in Callers, takeMutex(c)
    PROVE  IInv'
<1>1. TypeOK'
  BY DEF IInv, TypeOK, takeMutex, PCs
<1>2. NoEvictionInUse' /\ CountsExact' /\ EntriesInUse' /\ OneKeyPerObject'
  <2>1. \A d \in Callers : pc'[d] # "idle" <=> pc[d] # "idle"
    BY DEF IInv, TypeOK, takeMutex
  <2>. QED
    BY <2>1, <1>1, SameUsers DEF takeMutex, TypeOK
<1>3. LockedByHolder'
  BY DEF IInv, TypeOK, LockedByHolder, takeMutex
<1>. QED
  BY <1>1, <1>2, <1>3 DEF IInv

\* A failed TryLock leaves its caller a user until it releases.
LEMMA TryLockFailsIInv ==
    ASSUME IInv, NEW c \in Callers, tryLockFails(c)
    PROVE  IInv'
<1>1. TypeOK'
  BY DEF IInv, TypeOK, tryLockFails, PCs
<1>2. NoEvictionInUse' /\ CountsExact' /\ EntriesInUse' /\ OneKeyPerObject'
  <2>1. \A d \in Callers : pc'[d] # "idle" <=> pc[d] # "idle"
    BY DEF IInv, TypeOK, tryLockFails
  <2>. QED
    BY <2>1, <1>1, SameUsers DEF tryLockFails, TypeOK
<1>3. LockedByHolder'
  BY DEF IInv, TypeOK, LockedByHolder, tryLockFails
<1>. QED
  BY <1>1, <1>2, <1>3 DEF IInv

\* Unlocking leaves the caller a user until it releases.
LEMMA UnlockIInv ==
    ASSUME IInv, NEW c \in Callers, unlockMutex(c)
    PROVE  IInv'
<1>1. TypeOK'
  BY DEF IInv, TypeOK, unlockMutex, PCs
<1>2. NoEvictionInUse' /\ CountsExact' /\ EntriesInUse' /\ OneKeyPerObject'
  <2>1. \A d \in Callers : pc'[d] # "idle" <=> pc[d] # "idle"
    BY DEF IInv, TypeOK, unlockMutex
  <2>. QED
    BY <2>1, <1>1, SameUsers DEF unlockMutex, TypeOK
<1>3. LockedByHolder'
  BY DEF IInv, TypeOK, LockedByHolder, unlockMutex
<1>. QED
  BY <1>1, <1>2, <1>3 DEF IInv

\* release counts its caller out and evicts with the last one.
LEMMA ReleaseIInv ==
    ASSUME IInv, NEW c \in Callers, release(c)
    PROVE  IInv'
<1>. USE DEF IInv
<1>. DEFINE m == obj[c]
            k == key[c]
<1>1. /\ pc[c] = "release"
      /\ refs' = [refs EXCEPT ![m] = @ - 1]
      /\ locks' = [locks EXCEPT ![k] = IF refs[m] <= 1 THEN NoMutex ELSE @]
      /\ pc' = [pc EXCEPT ![c] = "idle"]
      /\ UNCHANGED <<locked, key, obj>>
  BY DEF release
<1>2. m \in Mutexes /\ k \in Keys /\ c \in Users(m) /\ locks[k] = m
  BY <1>1 DEF TypeOK, Users, Active, NoEvictionInUse
<1>3. refs[m] = Cardinality(Users(m))
  BY <1>2 DEF CountsExact
<1>4. Users(m)' = Users(m) \ {c}
  BY <1>1, <1>2 DEF TypeOK, Users, Active
<1>5. \A n \in Mutexes \ {m} : Users(n)' = Users(n)
  BY <1>1, <1>2 DEF TypeOK, Users, Active
<1>6. Cardinality(Users(m) \ {c}) = refs[m] - 1 /\ refs[m] - 1 \in Nat
  <2>1. Cardinality(Users(m) \ {c}) = Cardinality(Users(m)) - 1
    BY <1>2, UsersFinite, FS_RemoveElement
  <2>2. IsFiniteSet(Users(m) \ {c})
    BY UsersFinite, FS_RemoveElement
  <2>3. Cardinality(Users(m) \ {c}) \in Nat
    BY <2>2, FS_CardinalityType
  <2>. QED
    BY <2>1, <2>3, <1>3
<1>7. TypeOK'
  <2>1. refs' \in [Mutexes -> Nat]
    BY <1>1, <1>2, <1>6 DEF TypeOK
  <2>. QED
    BY <2>1, <1>1, <1>2 DEF TypeOK, PCs
<1>8. refs[m] <= 1 <=> Users(m) \ {c} = {}
  <2>1. IsFiniteSet(Users(m) \ {c})
    BY UsersFinite, FS_RemoveElement
  <2>2. Cardinality(Users(m) \ {c}) = 0 <=> Users(m) \ {c} = {}
    BY <2>1, FS_EmptySet
  <2>. QED
    BY <2>2, <1>6, <1>2 DEF TypeOK
<1>9. NoEvictionInUse'
  <2>. SUFFICES ASSUME NEW d \in Callers, Active(d)'
                PROVE  locks'[key[d]] = obj[d]
    BY <1>1 DEF NoEvictionInUse
  <2>1. d # c /\ Active(d)
    BY <1>1 DEF TypeOK, Active
  <2>2. locks[key[d]] = obj[d]
    BY <2>1 DEF NoEvictionInUse
  <2>3. CASE key[d] = k
    <3>1. d \in Users(m) \ {c}
      BY <2>1, <2>2, <2>3, <1>2 DEF Users
    <3>. QED
      BY <3>1, <2>2, <2>3, <1>1, <1>2, <1>8 DEF TypeOK
  <2>4. CASE key[d] # k
    BY <2>2, <2>4, <1>1, <1>2 DEF TypeOK
  <2>. QED
    BY <2>3, <2>4
<1>10. CountsExact'
  <2>. SUFFICES ASSUME NEW n \in Mutexes, Users(n)' # {}
                PROVE  refs'[n] = Cardinality(Users(n)')
    BY DEF CountsExact
  <2>1. CASE n = m
    BY <2>1, <1>1, <1>2, <1>4, <1>6 DEF TypeOK
  <2>2. CASE n # m
    <3>1. Users(n)' = Users(n) /\ refs'[n] = refs[n]
      BY <2>2, <1>1, <1>5 DEF TypeOK
    <3>. QED
      BY <3>1 DEF CountsExact
  <2>. QED
    BY <2>1, <2>2
<1>11. EntriesInUse'
  <2>. SUFFICES ASSUME NEW l \in Keys, locks'[l] # NoMutex
                PROVE  \E d \in Callers : Active(d)' /\ obj'[d] = locks'[l]
    BY DEF EntriesInUse, Users
  <2>1. CASE l = k
    <3>1. ~(refs[m] <= 1) /\ locks'[l] = m
      BY <2>1, <1>1, <1>2 DEF TypeOK
    <3>2. PICK d \in Callers : d \in Users(m) /\ d # c
      BY <3>1, <1>8 DEF Users
    <3>. QED
      BY <3>1, <3>2, <1>1 DEF TypeOK, Users, Active
  <2>2. CASE l # k
    <3>1. locks'[l] = locks[l] /\ locks[l] \in Mutexes
      BY <2>2, <1>1 DEF TypeOK
    <3>2. locks[l] # m
      BY <2>2, <3>1, <1>2, MutexesAssumption DEF OneKeyPerObject
    <3>3. PICK d \in Callers : Active(d) /\ obj[d] = locks[l]
      BY <3>1, MutexesAssumption DEF EntriesInUse, Users
    <3>. QED
      BY <3>1, <3>2, <3>3, <1>1 DEF TypeOK, Active
  <2>. QED
    BY <2>1, <2>2
<1>12. OneKeyPerObject'
  BY <1>1, <1>2 DEF OneKeyPerObject, TypeOK
<1>13. LockedByHolder'
  BY <1>1 DEF LockedByHolder, TypeOK
<1>. QED
  BY <1>7, <1>9, <1>10, <1>11, <1>12, <1>13

\* The inductive step: each action of the mutex preserves IInv.
LEMMA NextIInv == IInv /\ [Next]_vars => IInv'
<1>. SUFFICES ASSUME IInv, [Next]_vars PROVE IInv'
  OBVIOUS
<1>1. ASSUME NEW c \in Callers, NEW k \in Keys, Lock(c, k) PROVE IInv'
  BY <1>1, AcquireIInv DEF Lock
<1>2. ASSUME NEW c \in Callers, NEW k \in Keys, TryLock(c, k) PROVE IInv'
  BY <1>2, AcquireIInv DEF TryLock
<1>3. ASSUME NEW c \in Callers, takeMutex(c) PROVE IInv'
  BY <1>3, TakeIInv
<1>4. ASSUME NEW c \in Callers, tryLockFails(c) PROVE IInv'
  BY <1>4, TryLockFailsIInv
<1>5. ASSUME NEW c \in Callers, unlockMutex(c) PROVE IInv'
  BY <1>5, UnlockIInv
<1>6. ASSUME NEW c \in Callers, release(c) PROVE IInv'
  BY <1>6, ReleaseIInv
<1>7. CASE UNCHANGED vars
  <2>1. /\ locks' = locks /\ refs' = refs /\ locked' = locked
        /\ pc' = pc /\ key' = key /\ obj' = obj
    BY <1>7 DEF vars
  <2>2. pc' \in [Callers -> PCs]
    BY <2>1 DEF IInv, TypeOK
  <2>3. NoEvictionInUse' /\ CountsExact' /\ EntriesInUse' /\ OneKeyPerObject'
    BY <2>1, <2>2, SameUsers
  <2>4. TypeOK' /\ LockedByHolder'
    BY <2>1 DEF IInv, TypeOK, LockedByHolder
  <2>. QED
    BY <2>3, <2>4 DEF IInv
<1>. QED
  BY <1>1, <1>2, <1>3, <1>4, <1>5, <1>6, <1>7 DEF Next

\* IInv holds in every reachable state.
THEOREM InductiveInvariant == Spec => []IInv
<1>1. IInv /\ [Next]_vars => IInv'
  BY NextIInv
<1>. QED
  BY InitIInv, <1>1, PTL DEF Spec

\* The reference counts stay natural numbers and every variable has its type.
THEOREM TypeCorrect == Spec => []TypeOK
<1>1. IInv => TypeOK
  BY DEF IInv
<1>. QED
  BY <1>1, InductiveInvariant, PTL

\* No two callers are in the critical section of one key (Lock, TryLock).
THEOREM Exclusion == Spec => []MutualExclusion
<1>1. IInv => MutualExclusion
  <2>. SUFFICES ASSUME IInv, NEW c \in Callers, NEW d \in Callers,
                       pc[c] = "holding", pc[d] = "holding", key[c] = key[d]
                PROVE  c = d
    BY DEF MutualExclusion
  <2>1. obj[c] = obj[d]
    BY DEF IInv, NoEvictionInUse, Active
  <2>. QED
    BY <2>1 DEF IInv, LockedByHolder
<1>. QED
  BY <1>1, InductiveInvariant, PTL

\* release never evicts an entry that another caller still uses.
THEOREM EvictionSafe == Spec => []NoEvictionInUse
<1>1. IInv => NoEvictionInUse
  BY DEF IInv
<1>. QED
  BY <1>1, InductiveInvariant, PTL

\* The map holds no entry without a user, so it does not grow for ever.
THEOREM LeakFree == Spec => []NoLeakedEntry
<1>1. IInv => NoLeakedEntry
  <2>. SUFFICES ASSUME IInv, NEW k \in Keys, locks[k] # NoMutex
                PROVE  \E c \in Callers : Active(c) /\ key[c] = k
    BY DEF NoLeakedEntry
  <2>1. PICK c \in Callers : Active(c) /\ obj[c] = locks[k]
    BY DEF IInv, EntriesInUse, Users
  <2>2. locks[key[c]] = locks[k] /\ key[c] \in Keys
    BY <2>1 DEF IInv, NoEvictionInUse, TypeOK
  <2>3. key[c] = k
    BY <2>2 DEF IInv, OneKeyPerObject
  <2>. QED
    BY <2>1, <2>3
<1>. QED
  BY <1>1, InductiveInvariant, PTL

-----------------------------------------------------------------------------
\* In a state of IInv, a key is owned by the only caller in its critical
\* section, and by nobody if there is none.
OwnerExact ==
    \A k \in Keys :
        /\ ownerOf[k] \in Callers \cup {NoCaller}
        /\ \A c \in Callers : ownerOf[k] = c <=> pc[c] = "holding" /\ key[c] = k

LEMMA OwnerIsHolder == IInv => OwnerExact
<1>. SUFFICES ASSUME IInv, NEW k \in Keys
              PROVE  /\ ownerOf[k] \in Callers \cup {NoCaller}
                     /\ \A c \in Callers : ownerOf[k] = c <=> c \in Holders(k)
  BY DEF OwnerExact, Holders
<1>1. \A c, d \in Holders(k) : c = d
  <2>. SUFFICES ASSUME NEW c \in Holders(k), NEW d \in Holders(k) PROVE c = d
    OBVIOUS
  <2>1. /\ c \in Callers /\ pc[c] = "holding" /\ key[c] = k
        /\ d \in Callers /\ pc[d] = "holding" /\ key[d] = k
    BY DEF Holders
  <2>2. obj[c] = obj[d]
    BY <2>1 DEF IInv, NoEvictionInUse, Active
  <2>. QED
    BY <2>1, <2>2 DEF IInv, LockedByHolder
<1>2. CASE Holders(k) = {}
  <2>1. ownerOf[k] = NoCaller
    BY <1>2 DEF ownerOf
  <2>. QED
    BY <2>1, <1>2, CallersAssumption
<1>3. CASE Holders(k) # {}
  <2>1. ownerOf[k] \in Holders(k)
    BY <1>3 DEF ownerOf
  <2>. QED
    BY <2>1, <1>1 DEF Holders
<1>. QED
  BY <1>2, <1>3

\* The owners are the function of Keys that OwnerExact describes.
LEMMA OwnerDomain == ownerOf = [k \in Keys |-> ownerOf[k]]
BY DEF ownerOf

\* A step that changes nobody's being in a critical section changes no owner.
LEMMA SameHolders ==
    ASSUME OwnerExact, OwnerExact',
           \A c \in Callers : /\ pc'[c] = "holding" <=> pc[c] = "holding"
                              /\ pc[c] = "holding" => key'[c] = key[c]
    PROVE  ownerOf' = ownerOf
<1>1. \A k \in Keys : ownerOf'[k] = ownerOf[k]
  BY DEF OwnerExact
<1>2. ownerOf' = [k \in Keys |-> ownerOf'[k]]
  BY DEF ownerOf
<1>. QED
  BY <1>1, <1>2, OwnerDomain

\* Each step of the mutex is a step of the lock, or none.
LEMMA StepRefines ==
    ASSUME IInv, OwnerExact, OwnerExact', [Next]_vars
    PROVE  Abstract!Next \/ ownerOf' = ownerOf
<1>0. ownerOf' = [k \in Keys |-> ownerOf'[k]]
  BY DEF ownerOf
<1>1. ASSUME NEW c \in Callers, NEW k \in Keys, Lock(c, k) \/ TryLock(c, k)
      PROVE  ownerOf' = ownerOf
  <2>1. PICK next \in {"lock", "try"} : acquire(c, k, next)
    BY <1>1 DEF Lock, TryLock
  <2>2. \A d \in Callers : /\ pc'[d] = "holding" <=> pc[d] = "holding"
                           /\ pc[d] = "holding" => key'[d] = key[d]
    BY <2>1 DEF IInv, TypeOK, acquire
  <2>. QED
    BY <2>2, SameHolders
<1>2. ASSUME NEW c \in Callers, takeMutex(c)
      PROVE  Abstract!Take(c, key[c])
  <2>1. key[c] \in Keys /\ key' = key /\ pc'[c] = "holding" /\ pc[c] # "holding"
    BY <1>2 DEF IInv, TypeOK, takeMutex
  <2>2. ~\E d \in Callers : pc[d] = "holding" /\ key[d] = key[c]
    <3>. SUFFICES ASSUME NEW d \in Callers, pc[d] = "holding", key[d] = key[c]
                  PROVE  FALSE
      OBVIOUS
    <3>1. obj[d] = obj[c]
      BY <1>2 DEF IInv, NoEvictionInUse, Active, takeMutex
    <3>. QED
      BY <3>1, <1>2 DEF IInv, LockedByHolder, takeMutex
  <2>3. ownerOf[key[c]] = NoCaller
    BY <2>1, <2>2 DEF OwnerExact
  <2>4. ownerOf'[key[c]] = c
    BY <2>1 DEF OwnerExact
  <2>5. \A d \in Callers \ {c} : pc'[d] = "holding" <=> pc[d] = "holding"
    BY <1>2 DEF IInv, TypeOK, takeMutex
  <2>6. \A l \in Keys \ {key[c]} : ownerOf'[l] = ownerOf[l]
    BY <2>1, <2>5 DEF OwnerExact
  <2>7. ownerOf' = [ownerOf EXCEPT ![key[c]] = c]
    BY <1>0, <2>1, <2>4, <2>6, OwnerDomain
  <2>. QED
    BY <2>3, <2>7 DEF Abstract!Take
<1>3. ASSUME NEW c \in Callers, unlockMutex(c)
      PROVE  Abstract!Give(c, key[c])
  <2>1. key[c] \in Keys /\ key' = key /\ pc[c] = "holding" /\ pc'[c] = "release"
    BY <1>3 DEF IInv, TypeOK, unlockMutex
  <2>2. ownerOf[key[c]] = c
    BY <2>1 DEF OwnerExact
  <2>3. \A d \in Callers \ {c} : pc'[d] = "holding" <=> pc[d] = "holding"
    BY <1>3 DEF IInv, TypeOK, unlockMutex
  <2>4. ownerOf'[key[c]] = NoCaller
    BY <2>1, <2>2, <2>3 DEF OwnerExact
  <2>5. \A l \in Keys \ {key[c]} : ownerOf'[l] = ownerOf[l]
    BY <2>1, <2>3 DEF OwnerExact
  <2>6. ownerOf' = [ownerOf EXCEPT ![key[c]] = NoCaller]
    BY <1>0, <2>1, <2>4, <2>5, OwnerDomain
  <2>. QED
    BY <2>2, <2>6 DEF Abstract!Give
<1>4. ASSUME NEW c \in Callers, tryLockFails(c) \/ release(c)
      PROVE  ownerOf' = ownerOf
  <2>1. \A d \in Callers : /\ pc'[d] = "holding" <=> pc[d] = "holding"
                           /\ pc[d] = "holding" => key'[d] = key[d]
    BY <1>4 DEF IInv, TypeOK, tryLockFails, release
  <2>. QED
    BY <2>1, SameHolders
<1>5. CASE UNCHANGED vars
  BY <1>5, SameHolders DEF vars
<1>6. \A c \in Callers : key[c] \in Keys
  BY DEF IInv, TypeOK
<1>. QED
  BY <1>1, <1>2, <1>3, <1>4, <1>5, <1>6 DEF Next, Abstract!Next

\* The reference-counted map of mutexes implements one lock per key.
THEOREM Refinement == Spec => ImplementsKeyedLock
<1>1. Init => Abstract!Init
  <2>. SUFFICES ASSUME Init PROVE Abstract!Init
    OBVIOUS
  <2>1. \A k \in Keys : Holders(k) = {}
    BY DEF Init, Holders
  <2>. QED
    BY <2>1 DEF ownerOf, Abstract!Init
<1>2. IInv /\ OwnerExact /\ OwnerExact' /\ [Next]_vars => [Abstract!Next]_ownerOf
  BY StepRefines
<1>3. IInv => OwnerExact
  BY OwnerIsHolder
<1>. QED
  BY <1>1, <1>2, <1>3, InductiveInvariant, PTL DEF Spec, ImplementsKeyedLock, Abstract!Spec
=============================================================================
