---------------------------- MODULE TokenBucket ----------------------------
(***************************************************************************)
(* What a rate limit promises: one bucket that is full at first, refills as *)
(* time passes, never overflows, and pays each request with a whole token. *)
(***************************************************************************)
EXTENDS Naturals

CONSTANT Unit         \* shares of a token

VARIABLES rate,       \* shares that come with a tick
          burst,      \* tokens the bucket has room for
          now,
          level,      \* shares in the bucket
          granted     \* requests it has paid

vars == <<rate, burst, now, level, granted>>

Capacity == Unit * burst

Init ==
    /\ rate \in Nat /\ burst \in Nat
    /\ now = 0
    /\ level = Capacity
    /\ granted = 0

Grant ==
    /\ level >= Unit
    /\ level' = level - Unit
    /\ granted' = granted + 1
    /\ UNCHANGED <<rate, burst, now>>

Tick ==
    /\ now' = now + 1
    /\ level' = IF level + rate > Capacity THEN Capacity ELSE level + rate
    /\ UNCHANGED <<rate, burst, granted>>

Next == Grant \/ Tick

Spec == Init /\ [][Next]_vars
=============================================================================
