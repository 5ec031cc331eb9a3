----------------------------- MODULE KeyedLock -----------------------------
(***************************************************************************)
(* What internal/gitops/keyedmutex.go promises its callers: for each key   *)
(* (an on-disk path) there is one lock, it has at most one owner, and only *)
(* the owner gives it back.  KeyedMutex implements this specification, and *)
(* CloneWorker uses the lock in this abstract form.                        *)
(***************************************************************************)
CONSTANTS Callers,  \* the goroutines that take locks
          Keys,     \* the paths that are locked
          NoCaller  \* the owner of a free lock

VARIABLE owner      \* owner[k]: the goroutine inside the critical section of k

TypeOK == owner \in [Keys -> Callers \cup {NoCaller}]

Init == owner = [k \in Keys |-> NoCaller]

Take(c, k) ==
    /\ owner[k] = NoCaller
    /\ owner' = [owner EXCEPT ![k] = c]

Give(c, k) ==
    /\ owner[k] = c
    /\ owner' = [owner EXCEPT ![k] = NoCaller]

Next == \E c \in Callers, k \in Keys : Take(c, k) \/ Give(c, k)

Spec == Init /\ [][Next]_owner
=============================================================================
