---------------------------- MODULE MCKeyedMutex ----------------------------
(***************************************************************************)
(* Three goroutines and two paths: two can contend for one path while the  *)
(* third works on the other, and every caller can have an object of its    *)
(* own, so Mutexes never runs out.                                         *)
(***************************************************************************)
EXTENDS KeyedMutex, TLC

CONSTANTS c1, c2, c3, k1, k2, m1, m2, m3

MCCallers == {c1, c2, c3}
MCKeys == {k1, k2}
MCMutexes == {m1, m2, m3}
=============================================================================
