----------------------------- MODULE MCAuthCache -----------------------------
(***************************************************************************)
(* Two validations against two revocations: a user with a session and an   *)
(* API key, so that ChangePassword revokes one and not the other.          *)
(***************************************************************************)
EXTENDS AuthCache

CONSTANTS s1, k1, alice

MCCreds == {s1, k1}
MCSessions == {s1}
MCUsers == {alice}
MCOwner == [c \in MCCreds |-> alice]
=============================================================================
