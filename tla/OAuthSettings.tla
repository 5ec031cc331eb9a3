---------------------------- MODULE OAuthSettings ----------------------------
(***************************************************************************)
(* The client id and the secret of one OAuth provider: two rows of          *)
(* system_settings (config_service.go) over the values of the process's      *)
(* configuration, and the two requests that write them, UpdateOAuthSettings  *)
(* (config_handler.go), which writes one and then the other, and             *)
(* SaveGitHubCredentials (oauth_service.go), which writes both in one        *)
(* transaction.                                                             *)
(*                                                                         *)
(* A registration at the provider is an id and its secret; either value is   *)
(* named after it.  The key that encrypts the secret does not change.        *)
(***************************************************************************)
EXTENDS Naturals

CONSTANTS Apps,       \* registrations an admin may enter
          Base,       \* the one of the configuration, or Empty
          Empty,      \* "", and what the rows that are not there count as
          None,       \* no row
          Updates,    \* requests in UpdateOAuthSettings
          MaxFaults   \* bound on failing database operations and crashes

VARIABLES
    clientID, clientSecret,   \* the rows
    act,      \* act[u]: where request u is, and its local variables
    mixed,    \* the two may be of different registrations: an id was entered alone,
              \* requests overlapped, or compensation was lost (history)
    faults

vars == <<clientID, clientSecret, act, mixed, faults>>

Values == Apps \cup {Empty, None}
Idle == [pc |-> "idle"]

TypeOK ==
    /\ {clientID, clientSecret} \subseteq Values
    /\ act \in [Updates ->
         {Idle} \cup [pc : {"saveID", "saveSecret", "restore"}, app : Apps, secret : BOOLEAN,
                      prev : Values, sure : BOOLEAN, alone : BOOLEAN]]
    /\ mixed \in BOOLEAN
    /\ faults \in 0..MaxFaults

Init ==
    /\ clientID = None /\ clientSecret = None
    /\ act = [u \in Updates |-> Idle]
    /\ mixed = FALSE /\ faults = 0

fault == faults < MaxFaults /\ faults' = faults + 1

-----------------------------------------------------------------------------
(* Reading.                                                                *)

\* What a row with a value puts in place of the configuration.
overlay(value) == IF value \in Apps THEN value ELSE Base

\* Both rows are read by one query.
oauthProviderFromDB == [id |-> overlay(clientID), secret |-> overlay(clientSecret)]

\* GetOAuthConfig refuses a provider that lacks either.
Configured == oauthProviderFromDB.id # Empty /\ oauthProviderFromDB.secret # Empty

-----------------------------------------------------------------------------
(* UpdateOAuthSettings.                                                    *)

\* Another request that is under way is no longer the only one.
others(u) == [v \in Updates |->
                IF v # u /\ act[v].pc # "idle" THEN [act[v] EXCEPT !.alone = FALSE] ELSE act[v]]

\* The request ends.  What it leaves may be mixed if it was before, and it did
\* not replace both, or if it was not alone.
end(u, both) ==
    /\ act' = [others(u) EXCEPT ![u] = Idle]
    /\ mixed' = IF ~act[u].alone THEN TRUE ELSE mixed /\ ~both

\* "Fetch previous client_id for rollback/compensation".  An error of the
\* database passes for a setting that is not there.
UpdateOAuthSettings(u, app, withSecret) ==
    /\ act[u].pc = "idle"
    /\ \E sure \in BOOLEAN :
         /\ act' = [others(u) EXCEPT ![u] =
                      [pc |-> "saveID", app |-> app, secret |-> withSecret,
                       prev |-> IF sure THEN clientID ELSE None, sure |-> sure,
                       alone |-> \A v \in Updates : act[v].pc = "idle"]]
         /\ IF sure THEN UNCHANGED faults ELSE fault
    /\ UNCHANGED <<clientID, clientSecret, mixed>>

\* Without a secret in the request the old one stays, whatever the id: the
\* admin's decision.
saveID(u) ==
    /\ act[u].pc = "saveID"
    /\ clientID' = act[u].app
    /\ IF act[u].secret
       THEN act' = [others(u) EXCEPT ![u].pc = "saveSecret"] /\ UNCHANGED mixed
       ELSE act' = [others(u) EXCEPT ![u] = Idle] /\ mixed' = TRUE
    /\ UNCHANGED <<clientSecret, faults>>

saveIDFails(u) ==
    /\ act[u].pc = "saveID"
    /\ fault
    /\ end(u, FALSE)
    /\ UNCHANGED <<clientID, clientSecret>>

saveSecret(u) ==
    /\ act[u].pc = "saveSecret"
    /\ clientSecret' = act[u].app
    /\ end(u, TRUE)
    /\ UNCHANGED <<clientID, faults>>

\* Mutant: the id stays.
saveSecretFailsOnly(u) ==
    /\ act[u].pc = "saveSecret"
    /\ fault
    /\ end(u, FALSE)
    /\ UNCHANGED <<clientID, clientSecret>>

saveSecretFails(u) ==
    /\ act[u].pc = "saveSecret"
    /\ fault
    /\ act' = [act EXCEPT ![u].pc = "restore"]
    /\ UNCHANGED <<clientID, clientSecret, mixed>>

\* "Rollback/compensate client_id write": "" where no row was found.
restore(u) ==
    /\ act[u].pc = "restore"
    /\ clientID' = IF act[u].prev = None THEN Empty ELSE act[u].prev
    /\ act' = [others(u) EXCEPT ![u] = Idle]
    /\ mixed' = (mixed \/ ~act[u].alone \/ ~act[u].sure)
    /\ UNCHANGED <<clientSecret, faults>>

\* Its error is ignored.
restoreFails(u) ==
    /\ act[u].pc = "restore"
    /\ fault
    /\ act' = [others(u) EXCEPT ![u] = Idle]
    /\ mixed' = TRUE
    /\ UNCHANGED <<clientID, clientSecret>>

\* One transaction: the id and, if given, the secret.  It fails as a whole.
SetSettings(app, withSecret) ==
    /\ clientID' = app
    /\ clientSecret' = IF withSecret THEN app ELSE clientSecret

SaveGitHubCredentials(app, withSecret) ==
    /\ SetSettings(app, withSecret)
    /\ act' = [v \in Updates |-> IF act[v].pc = "idle" THEN Idle
                                                      ELSE [act[v] EXCEPT !.alone = FALSE]]
    /\ mixed' = ~withSecret
    /\ UNCHANGED faults

crash ==
    /\ fault
    /\ act' = [u \in Updates |-> Idle]
    /\ mixed' = (mixed \/ \E u \in Updates : act[u].pc \in {"saveSecret", "restore"})
    /\ UNCHANGED <<clientID, clientSecret>>

Next ==
    \/ \E u \in Updates :
         \/ \E app \in Apps, s \in BOOLEAN : UpdateOAuthSettings(u, app, s)
         \/ saveID(u) \/ saveIDFails(u) \/ saveSecret(u) \/ saveSecretFails(u)
         \/ restore(u) \/ restoreFails(u)
    \/ \E app \in Apps, s \in BOOLEAN : SaveGitHubCredentials(app, s)
    \/ crash

Spec == Init /\ [][Next]_vars

-----------------------------------------------------------------------------
\* "A partial failure cannot leave a related group of settings inconsistent"
\* (config_service.go): when no request is between its two writes, sign-ins
\* present the id and the secret of one registration, unless an admin entered
\* an id alone, or two requests overlapped, or a crash or a second failure hit
\* the compensation; and a complete request that meets no other mends that.
PairFits ==
    \/ mixed \/ \E u \in Updates : act[u].pc # "idle"
    \/ ~Configured
    \/ oauthProviderFromDB.id = oauthProviderFromDB.secret
=============================================================================
