------------------------------- MODULE Accounts -------------------------------
(* Who can administer the dashboard: accounts, their passkeys and the SSO    *)
(* identities they sign in with (src/server/app-auth.ts and the statements   *)
(* of src/server/database.ts). A change is one turn of the operation queue,  *)
(* in which it is checked and written; the handler has read the session      *)
(* before it queued, and may have waited for a refresh, a password check or  *)
(* the provider since.                                                       *)
EXTENDS Naturals

CONSTANTS
    Ids,            \* auth_users.id
    Keys,           \* webauthn_credentials.credential_id
    Issuers,        \* the OIDC providers that may be configured
    Identities,     \* (oidc_issuer, oidc_subject)
    IssuerOf,       \* the provider of an identity
    None            \* NULL, an absent provider, a field left out of a request

VARIABLES
    users,          \* the table auth_users
    keys,           \* webauthn_credentials: pairs of an account and a passkey
    passwordOff,    \* the setting disable_password_login
    issuer,         \* oidc_issuer_url with oidc_client_id, None unless both are set
    requests,       \* sessions of handlers that have not written yet
    overtaken       \* a passkey was deleted by a request older than its owner's promotion

vars == <<users, keys, passwordOff, issuer, requests, overtaken>>

Roles == {"admin", "read-only"}

(* An ID is never used again (AUTOINCREMENT): a new row has version 1.       *)
NoUser == [there |-> FALSE, role |-> "read-only", disabled |-> FALSE, password |-> FALSE,
           provider |-> "password", identity |-> None, linked |-> FALSE, ssoRole |-> None,
           blocked |-> FALSE, version |-> 0]
Unused(u) == users[u].version = 0

AccountsInit ==
    /\ users = [u \in Ids |-> NoUser]
    /\ keys = {}
    /\ passwordOff = FALSE
    /\ issuer \in Issuers \cup {None}
    /\ requests = {}
    /\ overtaken = FALSE

-----------------------------------------------------------------------------
(* The rules the routes share. *)

IsOidcOnly(x) == x.provider = "oidc" /\ ~x.password

IsCurrentIdentity(i) == i # None /\ issuer # None /\ IssuerOf[i] = issuer

IsActiveAdmin(x) ==
    /\ x.there /\ ~x.disabled
    /\ x.role = "admin" \/ (x.linked /\ x.ssoRole = "admin" /\ IsCurrentIdentity(x.identity))

SomeActiveAdmin == \E u \in Ids : IsActiveAdmin(users[u])

IsLastActiveAdmin(u) ==
    /\ IsActiveAdmin(users[u])
    /\ \A other \in Ids \ {u} : ~IsActiveAdmin(users[other])

WouldUnlinkRemoveLastAdmin(u) == users[u].role # "admin" /\ IsLastActiveAdmin(u)

KeysOf(u) == {pair \in keys : pair[1] = u}

(* hasAdminPasskey(): one among these. *)
AdminPasskeyIn(pairs) ==
    \E pair \in pairs : LET x == users[pair[1]]
                        IN  /\ x.there /\ x.role = "admin" /\ ~x.disabled
                            /\ x.provider # "oidc" \/ x.password

WouldLockOut(excluded) == passwordOff /\ issuer = None /\ ~AdminPasskeyIn(keys \ excluded)

IsEnabledAdmin(u) == users[u].role = "admin" /\ ~users[u].disabled

(* getSession(): a session is local (password or passkey) or an SSO session, *)
(* which on a linked account has the role the provider gave.                 *)
SessionRole(x, local) ==
    IF ~local /\ x.linked THEN (IF x.ssoRole = "admin" THEN "admin" ELSE "read-only")
    ELSE x.role

Ask ==
    \E u \in Ids, local \in BOOLEAN :
        /\ users[u].there /\ ~users[u].disabled
        /\ IF local THEN users[u].password ELSE users[u].provider = "oidc"
        /\ requests' = requests \cup
            {[user |-> u, local |-> local, role |-> SessionRole(users[u], local),
              version |-> users[u].version]}
        /\ UNCHANGED <<users, keys, passwordOff, issuer, overtaken>>

(* A handler refuses, fails, or has only read. *)
Refuse ==
    /\ \E r \in requests : requests' = requests \ {r}
    /\ UNCHANGED <<users, keys, passwordOff, issuer, overtaken>>

Answered(r) == requests' = requests \ {r}
Settings == <<passwordOff, issuer, overtaken>>

-----------------------------------------------------------------------------
(* The routes of user management. *)

NewLocal(role, blocked) ==
    [NoUser EXCEPT !.there = TRUE, !.role = role, !.password = TRUE,
                   !.blocked = blocked, !.version = 1]

(* POST /setup, for whoever comes first. *)
Setup ==
    /\ \A u \in Ids : ~users[u].there
    /\ \E u \in Ids, blocked \in BOOLEAN :
        /\ Unused(u)
        /\ users' = [users EXCEPT ![u] = NewLocal("admin", blocked)]
    /\ UNCHANGED <<keys, Settings, requests>>

CreateUser ==
    \E r \in requests, u \in Ids, role \in Roles, blocked \in BOOLEAN :
        /\ r.role = "admin"
        /\ Unused(u)
        /\ users' = [users EXCEPT ![u] = NewLocal(role, blocked)]
        /\ Answered(r)
        /\ UNCHANGED <<keys, Settings>>

(* getManagedUser() *)
Managed(r, u) == r.role = "admin" /\ u # r.user /\ users[u].there

LosesAdmin(u, role, disabled) ==
    /\ IsActiveAdmin(users[u])
    /\ disabled = TRUE \/ (role = "read-only" /\ users[u].role = "admin")

Patched(x, role, disabled) ==
    [x EXCEPT !.role = IF role = None THEN @ ELSE role,
              !.disabled = IF disabled = None THEN @ ELSE disabled,
              !.version = IF disabled = TRUE THEN @ + 1 ELSE @]

(* PATCH /users/:id: a new role, disabled or enabled, or both. *)
UpdateUser ==
    \E r \in requests, u \in Ids, role \in Roles \cup {None}, disabled \in BOOLEAN \cup {None} :
        /\ Managed(r, u) /\ ~IsOidcOnly(users[u])
        /\ LosesAdmin(u, role, disabled) => ~IsLastActiveAdmin(u) /\ ~WouldLockOut(KeysOf(u))
        /\ users' = [users EXCEPT ![u] = Patched(@, role, disabled)]
        /\ Answered(r)
        /\ UNCHANGED <<keys, Settings>>

(* Sessions of an older version end. *)
Bumped(x) == [x EXCEPT !.version = @ + 1]

(* POST /users/:id/reset-mfa *)
ResetSecondFactors ==
    \E r \in requests, u \in Ids :
        /\ Managed(r, u) /\ ~IsOidcOnly(users[u])
        /\ IsEnabledAdmin(u) => ~WouldLockOut(KeysOf(u))
        /\ keys' = keys \ KeysOf(u)
        /\ users' = [users EXCEPT ![u] = Bumped(@)]
        /\ Answered(r)
        /\ UNCHANGED Settings

Deleted(x) == [NoUser EXCEPT !.version = x.version]

(* DELETE /users/:id *)
DeleteUser ==
    \E r \in requests, u \in Ids :
        /\ Managed(r, u)
        /\ ~IsLastActiveAdmin(u)
        /\ IsEnabledAdmin(u) => ~WouldLockOut(KeysOf(u))
        /\ users' = [users EXCEPT ![u] = Deleted(@)]
        /\ keys' = keys \ KeysOf(u)
        /\ Answered(r)
        /\ UNCHANGED Settings

(* unlinkOidcIdentity() *)
Unlinked(x) == [Bumped(x) EXCEPT !.provider = "password", !.identity = None,
                                 !.linked = FALSE, !.ssoRole = None, !.blocked = TRUE]

(* POST /users/:id/unlink-oidc *)
UnlinkUser ==
    \E r \in requests, u \in Ids :
        /\ Managed(r, u) /\ ~IsOidcOnly(users[u])
        /\ users[u].linked
        /\ ~WouldUnlinkRemoveLastAdmin(u)
        /\ users' = [users EXCEPT ![u] = Unlinked(@)]
        /\ Answered(r)
        /\ UNCHANGED <<keys, Settings>>

(* PUT /settings, as far as it concerns who can sign in. *)
SaveSettings ==
    \E r \in requests, off \in BOOLEAN, provider \in Issuers \cup {None} :
        /\ r.role = "admin"
        /\ off => AdminPasskeyIn(keys) \/ provider # None
        /\ passwordOff' = off
        /\ issuer' = provider
        /\ Answered(r)
        /\ UNCHANGED <<users, keys, overtaken>>

-----------------------------------------------------------------------------
(* What account holders do with their own account. *)

(* A password, a second factor or a logout ends sessions. *)
CredentialsChange ==
    /\ \E u \in Ids :
        /\ users[u].there
        /\ users' = [users EXCEPT ![u] = Bumped(@)]
    /\ UNCHANGED <<keys, Settings, requests>>

(* POST /webauthn/register/verify; the foreign key refuses a deleted account. *)
RegisterKey ==
    \E r \in requests, k \in Keys :
        /\ r.local
        /\ users[r.user].there
        /\ \A pair \in keys : pair[2] # k
        /\ keys' = keys \cup {<<r.user, k>>}
        /\ Answered(r)
        /\ UNCHANGED <<users, Settings>>

(* DELETE /passkeys/:id asks for the role of the session, not of the row.    *)
DeleteKey ==
    \E r \in requests, k \in Keys :
        /\ r.local
        /\ <<r.user, k>> \in keys
        /\ r.role = "admin" => ~WouldLockOut({<<r.user, k>>})
        /\ keys' = keys \ {<<r.user, k>>}
        /\ overtaken' = (overtaken \/ (r.role # "admin" /\ users[r.user].role = "admin"))
        /\ Answered(r)
        /\ UNCHANGED <<users, passwordOff, issuer>>

(* DELETE /oidc/link: the version shows that nothing changed during the      *)
(* password check.                                                           *)
UnlinkOwn ==
    \E r \in requests :
        LET u == r.user
        IN  /\ r.local /\ users[u].there
            /\ users[u].linked
            /\ users[u].version = r.version
            /\ ~WouldUnlinkRemoveLastAdmin(u)
            /\ users' = [users EXCEPT ![u] = Unlinked(@)]
            /\ Answered(r)
            /\ UNCHANGED <<keys, Settings>>

(* linkOidcIdentity(): the identity's SSO-only account is merged into the    *)
(* target; one that is disabled or has local credentials is left alone.      *)
Owns(u, i) == users[u].there /\ users[u].identity = i
CanLink(u, i) ==
    /\ users[u].there /\ users[u].password /\ ~users[u].linked
    /\ \A o \in Ids \ {u} : Owns(o, i) => ~users[o].password /\ ~users[o].disabled
LinkedTo(x, i, role) ==
    [x EXCEPT !.provider = "oidc", !.identity = i, !.linked = TRUE,
              !.ssoRole = role, !.blocked = FALSE]
Link(u, i, linked) ==
    /\ users' = [v \in Ids |->
            IF v = u THEN linked
            ELSE IF Owns(v, i) THEN Deleted(users[v]) ELSE users[v]]
    /\ keys' = {pair \in keys : pair[1] = u \/ ~Owns(pair[1], i)}
    /\ UNCHANGED Settings

(* POST /oidc/link/confirm, with the role the provider reported for it.      *)
LinkOwn ==
    \E r \in requests, i \in Identities, role \in Roles :
        /\ r.local
        /\ users[r.user].version = r.version
        /\ CanLink(r.user, i)
        /\ Link(r.user, i, Bumped(LinkedTo(users[r.user], i, role)))
        /\ Answered(r)

-----------------------------------------------------------------------------
(* GET /oidc/callback: the provider has confirmed an identity. *)

(* autoLinkOidcUser(), where the setting and the username allow it. *)
AutoLink ==
    /\ \E i \in Identities, role \in Roles, u \in Ids :
        /\ \A o \in Ids : Owns(o, i) => IsOidcOnly(users[o])
        /\ users[u].password /\ ~users[u].disabled /\ ~users[u].blocked
        /\ users[u].identity = None
        /\ CanLink(u, i)
        /\ Link(u, i, LinkedTo(users[u], i, role))
    /\ UNCHANGED requests

NewSso(role, i) ==
    [NoUser EXCEPT !.there = TRUE, !.role = role, !.provider = "oidc",
                   !.identity = i, !.version = 1]

(* updateOidcUserStatement *)
Updated(x, role) ==
    IF x.linked THEN [x EXCEPT !.ssoRole = role]
    ELSE IF x.role = role THEN x
    ELSE Bumped([x EXCEPT !.role = role])

(* upsertOidcUser(): a linked account keeps its own role. *)
SignIn ==
    /\ \E i \in Identities, role \in Roles, u \in Ids :
        \/ /\ Owns(u, i)
           /\ users' = [users EXCEPT ![u] = Updated(@, role)]
        \/ /\ \A o \in Ids : ~Owns(o, i)
           /\ Unused(u)
           /\ users' = [users EXCEPT ![u] = NewSso(role, i)]
    /\ UNCHANGED <<keys, Settings, requests>>

(* denyOidcIdentityStatement *)
Denied(x) ==
    [(IF x.linked THEN x ELSE Bumped(x)) EXCEPT
        !.role = IF x.password THEN @ ELSE "read-only", !.ssoRole = None]

(* denyOidcIdentity(): the provider knows the identity, but gives it no role. *)
Deny ==
    /\ \E i \in Identities, u \in Ids :
        /\ Owns(u, i)
        /\ users' = [users EXCEPT ![u] = Denied(@)]
    /\ UNCHANGED <<keys, Settings, requests>>

-----------------------------------------------------------------------------
ByAdministrator == CreateUser \/ UpdateUser \/ ResetSecondFactors \/ DeleteUser \/ UnlinkUser
ByHolder == CredentialsChange \/ RegisterKey \/ DeleteKey \/ UnlinkOwn
ByProvider == LinkOwn \/ AutoLink \/ SignIn \/ Deny

AccountsNext == Ask \/ Refuse \/ Setup \/ ByAdministrator \/ SaveSettings \/ ByHolder \/ ByProvider

AccountsSpec == AccountsInit /\ [][AccountsNext]_vars

-----------------------------------------------------------------------------
(* "At least one active administrator is required": neither administrators   *)
(* nor account holders take the last one away, whatever changed between the  *)
(* request and its turn; only the provider's word or another provider does   *)
(* (PATCH and DELETE /users/:id, unlink-oidc, DELETE /oidc/link).            *)
AdminRemains ==
    [][Setup \/ ByAdministrator \/ ByHolder => (SomeActiveAdmin => SomeActiveAdmin')]_vars

(* "While passkeys are the only sign-in method, some administrator must keep *)
(* one" (wouldLockOutAdministrators, PUT /settings), unless a passkey was    *)
(* deleted by a request its owner had made before becoming an administrator. *)
PasskeyRemains == passwordOff /\ issuer = None /\ ~overtaken => AdminPasskeyIn(keys)

(* An SSO identity signs in to one account, an account with one keeps its    *)
(* way back to the password it had before, and passkeys belong to accounts   *)
(* with a password (linkOidcIdentity, upsertOidcUser, unlinkOidcIdentity).   *)
IdentitiesFit ==
    /\ \A u, v \in Ids, i \in Identities : Owns(u, i) /\ Owns(v, i) => u = v
    /\ \A u \in Ids : users[u].there =>
        /\ (users[u].provider = "oidc") = (users[u].identity # None)
        /\ users[u].password = (users[u].linked \/ users[u].provider = "password")
        /\ users[u].linked => users[u].identity # None
    /\ \A pair \in keys : users[pair[1]].there /\ users[pair[1]].password

(* "Merging must not bring back a disabled account": the identity of one     *)
(* stays with it, so that no sign-in, link or unlink that was under way when *)
(* it was disabled gives the person another account (linkOidcIdentity,       *)
(* DELETE /oidc/link).                                                       *)
DisabledStaysOut ==
    [][\A u \in Ids, i \in Identities :
        Owns(u, i) /\ users[u].disabled /\ ~ByAdministrator
            => Owns(u, i)' /\ users'[u].disabled]_vars
=============================================================================
