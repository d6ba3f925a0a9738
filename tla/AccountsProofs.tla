---------------------------- MODULE AccountsProofs ----------------------------
(* Proofs about Accounts, for any accounts, providers, identities, passkeys  *)
(* and numbers of requests under way.                                        *)
EXTENDS Accounts, TLAPS

Users == [there : BOOLEAN, role : Roles, disabled : BOOLEAN, password : BOOLEAN,
          provider : {"password", "oidc"}, identity : Identities \cup {None},
          linked : BOOLEAN, ssoRole : Roles \cup {None}, blocked : BOOLEAN, version : Nat]
Requests == [user : Ids, local : BOOLEAN, role : Roles, version : Nat]

TypeOK ==
    /\ users \in [Ids -> Users]
    /\ keys \in SUBSET (Ids \X Keys)
    /\ passwordOff \in BOOLEAN
    /\ issuer \in Issuers \cup {None}
    /\ requests \in SUBSET Requests
    /\ overtaken \in BOOLEAN

(* A row and a request belong to an ID that has been given out; a request    *)
(* that still has the version of its account was made by one not disabled    *)
(* since, and a local one by an account that had, and so has, a password.    *)
VersionsFit ==
    /\ \A u \in Ids : users[u].there => users[u].version > 0
    /\ \A r \in requests : LET x == users[r.user]
                           IN  /\ x.version > 0 /\ r.version <= x.version
                               /\ x.there /\ x.version = r.version => ~x.disabled
                               /\ x.there /\ r.local => x.password

-----------------------------------------------------------------------------
(* What each statement does to a row. *)

LEMMA NewRows ==
    /\ NoUser \in Users
    /\ \A role \in Roles, b \in BOOLEAN : NewLocal(role, b) \in Users
    /\ \A role \in Roles, i \in Identities : NewSso(role, i) \in Users
<1>1. NoUser \in Users
  BY DEF NoUser, Users, Roles
<1>2. ASSUME NEW role \in Roles, NEW b \in BOOLEAN PROVE NewLocal(role, b) \in Users
  BY DEF NewLocal, NoUser, Users, Roles
<1>3. ASSUME NEW role \in Roles, NEW i \in Identities PROVE NewSso(role, i) \in Users
  BY DEF NewSso, NoUser, Users, Roles
<1> QED
  BY <1>1, <1>2, <1>3

(* The parts of a row that say who can sign in to it with what. *)
SameOwner(x, y) ==
    /\ y.there = x.there /\ y.password = x.password
    /\ y.provider = x.provider /\ y.identity = x.identity /\ y.linked = x.linked

LEMMA BumpedRow ==
  ASSUME NEW x \in Users
  PROVE  /\ Bumped(x) \in Users /\ SameOwner(x, Bumped(x)) /\ Bumped(x).role = x.role
         /\ Bumped(x).disabled = x.disabled
         /\ Bumped(x).version > x.version /\ Bumped(x).version >= x.version
  BY DEF Bumped, SameOwner, Users

LEMMA DeniedRow ==
  ASSUME NEW x \in Users
  PROVE  /\ Denied(x) \in Users /\ SameOwner(x, Denied(x))
         /\ x.password => Denied(x).role = x.role
         /\ Denied(x).disabled = x.disabled /\ Denied(x).version >= x.version
<1>1. PICK y \in Users : /\ y = IF x.linked THEN x ELSE Bumped(x)
                         /\ SameOwner(x, y) /\ y.version >= x.version
                         /\ y.disabled = x.disabled /\ y.role = x.role
  BY BumpedRow DEF SameOwner, Users
<1>2. (IF x.password THEN y.role ELSE "read-only") \in Roles
  BY DEF Users, Roles
<1>3. Denied(x) \in Users
  BY <1>1, <1>2 DEF Denied, Users
<1> QED
  BY <1>1, <1>3 DEF Denied, SameOwner, Users

LEMMA UpdatedRow ==
  ASSUME NEW x \in Users, NEW role \in Roles
  PROVE  LET y == Updated(x, role)
         IN  /\ y \in Users /\ SameOwner(x, y) /\ (x.linked => y.role = x.role)
             /\ y.disabled = x.disabled /\ y.version >= x.version
<1>1. CASE x.linked
  <2>1. PICK z \in Users : z = [x EXCEPT !.ssoRole = role]
    BY DEF Users
  <2>2. SameOwner(x, z) /\ z.role = x.role /\ z.disabled = x.disabled /\ z.version = x.version
    BY <2>1 DEF SameOwner, Users
  <2>3. Updated(x, role) = z
    BY <1>1, <2>1 DEF Updated
  <2> QED
    BY <2>2, <2>3 DEF Users
<1>2. CASE ~x.linked /\ x.role = role
  BY <1>2 DEF Updated, SameOwner, Users
<1>3. CASE ~x.linked /\ x.role # role
  <2>1. PICK z \in Users : z = [x EXCEPT !.role = role]
    BY DEF Users
  <2>2. Updated(x, role) = Bumped(z)
    BY <1>3, <2>1 DEF Updated
  <2> QED
    BY <1>3, <2>1, <2>2, BumpedRow DEF SameOwner, Users
<1> QED
  BY <1>1, <1>2, <1>3

LEMMA PatchedRow ==
  ASSUME NEW x \in Users, NEW role \in Roles \cup {None}, NEW d \in BOOLEAN \cup {None}
  PROVE  LET y == Patched(x, role, d)
         IN  /\ y \in Users /\ SameOwner(x, y) /\ y.ssoRole = x.ssoRole
             /\ y.role = (IF role = None THEN x.role ELSE role)
             /\ y.disabled = (IF d = None THEN x.disabled ELSE d)
             /\ y.version >= x.version
             /\ y.disabled /\ ~x.disabled => y.version > x.version
<1> DEFINE v == IF d = TRUE THEN x.version + 1 ELSE x.version
           ro == IF role = None THEN x.role ELSE role
           di == IF d = None THEN x.disabled ELSE d
<1>1. v \in Nat /\ v >= x.version /\ (d = TRUE => v > x.version)
  BY DEF Users
<1>2. ro \in Roles /\ di \in BOOLEAN /\ (di /\ ~x.disabled => d = TRUE)
  BY DEF Users
<1>3. Patched(x, role, d) = [x EXCEPT !.role = ro, !.disabled = di, !.version = v]
  BY DEF Patched, Users
<1>4. ro = (IF role = None THEN x.role ELSE role) /\ di = (IF d = None THEN x.disabled ELSE d)
  OBVIOUS
<1> HIDE DEF v, ro, di
<1> QED
  BY <1>1, <1>2, <1>3, <1>4 DEF SameOwner, Users

LEMMA UnlinkedRow ==
  ASSUME NEW x \in Users
  PROVE  LET y == Unlinked(x)
         IN  /\ y \in Users
             /\ y.there = x.there /\ y.password = x.password /\ y.role = x.role
             /\ y.disabled = x.disabled /\ y.version > x.version
             /\ y.provider = "password" /\ y.identity = None /\ y.linked = FALSE
<1>1. PICK z \in Users : z = Bumped(x)
  BY BumpedRow
<1>2. Unlinked(x) = [z EXCEPT !.provider = "password", !.identity = None,
                              !.linked = FALSE, !.ssoRole = None, !.blocked = TRUE]
  BY <1>1 DEF Unlinked
<1> QED
  <2>1. /\ z.there = x.there /\ z.password = x.password /\ z.role = x.role
        /\ z.disabled = x.disabled /\ z.version > x.version
    BY <1>1, BumpedRow DEF SameOwner
  <2>2. Unlinked(x) \in Users
    BY <1>2 DEF Users
  <2>3. LET y == Unlinked(x)
        IN  /\ y.there = z.there /\ y.password = z.password /\ y.role = z.role
            /\ y.disabled = z.disabled /\ y.version = z.version
            /\ y.provider = "password" /\ y.identity = None /\ y.linked = FALSE
    BY <1>2 DEF Users
  <2> QED
    BY <2>1, <2>2, <2>3

LEMMA LinkedRow ==
  ASSUME NEW x \in Users, NEW role \in Roles, NEW i \in Identities
  PROVE  LET y == LinkedTo(x, i, role)
         IN  /\ y \in Users
             /\ y.there = x.there /\ y.password = x.password /\ y.role = x.role
             /\ y.disabled = x.disabled /\ y.version = x.version
             /\ y.provider = "oidc" /\ y.identity = i /\ y.linked = TRUE
  BY DEF LinkedTo, Users

LEMMA DeletedRow ==
  ASSUME NEW x \in Users
  PROVE  /\ Deleted(x) \in Users
         /\ Deleted(x).there = FALSE /\ Deleted(x).version = x.version
  BY DEF Deleted, NoUser, Users, Roles

-----------------------------------------------------------------------------
LEMMA TypeStep == TypeOK /\ [AccountsNext]_vars => TypeOK'
<1> SUFFICES ASSUME TypeOK, [AccountsNext]_vars PROVE TypeOK'
  OBVIOUS
<1> USE DEF TypeOK
<1>0. \A u \in Ids : users[u] \in Users
  OBVIOUS
<1>1. CASE Ask
  BY <1>0, <1>1 DEF Ask, Requests, SessionRole, Users, Roles
<1>2. CASE Refuse
  BY <1>2 DEF Refuse
<1>3. CASE Setup
  BY <1>3, NewRows DEF Setup, Settings, Roles
<1>4. CASE CreateUser
  BY <1>4, NewRows DEF CreateUser, Settings, Answered
<1>5. CASE UpdateUser
  <2>1. PICK u \in Ids, role \in Roles \cup {None}, d \in BOOLEAN \cup {None} :
            users' = [users EXCEPT ![u] = Patched(@, role, d)]
    BY <1>5 DEF UpdateUser
  <2>2. Patched(users[u], role, d) \in Users
    BY <1>0, PatchedRow
  <2> QED
    BY <1>5, <2>1, <2>2 DEF UpdateUser, Settings, Answered
<1>6. CASE ResetSecondFactors
  BY <1>0, <1>6, BumpedRow DEF ResetSecondFactors, Settings, Answered
<1>7. CASE DeleteUser
  BY <1>0, <1>7, DeletedRow DEF DeleteUser, Settings, Answered
<1>8. CASE UnlinkUser
  BY ZenonT(40), <1>0, <1>8, UnlinkedRow DEF UnlinkUser, Settings, Answered
<1>9. CASE SaveSettings
  BY <1>9 DEF SaveSettings, Answered
<1>10. CASE CredentialsChange
  BY <1>0, <1>10, BumpedRow DEF CredentialsChange, Settings
<1>11. CASE RegisterKey
  BY <1>11 DEF RegisterKey, Settings, Answered, Requests
<1>12. CASE DeleteKey
  BY <1>12 DEF DeleteKey, Answered, Requests
<1>13. CASE UnlinkOwn
  <2>1. PICK r \in requests : users' = [users EXCEPT ![r.user] = Unlinked(@)]
    BY <1>13 DEF UnlinkOwn
  <2>2. users[r.user] \in Users
    BY DEF Requests
  <2>3. Unlinked(users[r.user]) \in Users
    BY <2>2, UnlinkedRow
  <2> QED
    BY <1>13, <2>1, <2>3 DEF UnlinkOwn, Settings, Answered
<1>14. CASE LinkOwn
  <2>1. PICK r \in requests, i \in Identities, role \in Roles :
            Link(r.user, i, Bumped(LinkedTo(users[r.user], i, role)))
    BY <1>14 DEF LinkOwn
  <2>2. r.user \in Ids /\ users[r.user] \in Users
    BY DEF Requests
  <2>3. Bumped(LinkedTo(users[r.user], i, role)) \in Users
    BY <2>2, LinkedRow, BumpedRow
  <2> QED
    BY <1>0, <1>14, <2>1, <2>3, DeletedRow DEF LinkOwn, Link, Settings, Answered
<1>15. CASE AutoLink
  <2>1. PICK i \in Identities, role \in Roles, u \in Ids : Link(u, i, LinkedTo(users[u], i, role))
    BY <1>15 DEF AutoLink
  <2>2. LinkedTo(users[u], i, role) \in Users
    BY <1>0, LinkedRow
  <2> QED
    BY <1>0, <1>15, <2>1, <2>2, DeletedRow DEF AutoLink, Link, Settings
<1>16. CASE SignIn
  BY <1>0, <1>16, UpdatedRow, NewRows DEF SignIn, Settings
<1>17. CASE Deny
  BY <1>0, <1>17, DeniedRow DEF Deny, Settings
<1>18. CASE UNCHANGED vars
  BY <1>18 DEF vars
<1> QED
  BY <1>1, <1>2, <1>3, <1>4, <1>5, <1>6, <1>7, <1>8, <1>9, <1>10, <1>11, <1>12, <1>13,
     <1>14, <1>15, <1>16, <1>17, <1>18
     DEF AccountsNext, ByAdministrator, ByHolder, ByProvider

-----------------------------------------------------------------------------
(* Versions and identities, by kind of step. *)

Fits == TypeOK /\ VersionsFit /\ IdentitiesFit

(* A change of what an account may do, not of what it signs in with. *)
LEMMA SameOwnerStep ==
  ASSUME Fits, NEW u \in Ids, NEW y \in Users,
         users' = [users EXCEPT ![u] = y],
         SameOwner(users[u], y), y.version >= users[u].version,
         y.disabled /\ ~users[u].disabled => y.version > users[u].version,
         keys' \subseteq keys, requests' \subseteq requests
  PROVE  VersionsFit' /\ IdentitiesFit'
<1>1. \A v \in Ids : users[v] \in Users /\ users'[v] = IF v = u THEN y ELSE users[v]
  BY DEF Fits, TypeOK
<1>2. \A v \in Ids : /\ SameOwner(users[v], users'[v])
                       /\ users'[v].version >= users[v].version
                       /\ users'[v].disabled /\ ~users[v].disabled
                            => users'[v].version > users[v].version
  BY <1>1 DEF SameOwner, Users
<1>3. \A v \in Ids : users[v].version \in Nat /\ users'[v].version \in Nat
  BY <1>1 DEF Users
<1>4. ASSUME NEW r \in requests'
      PROVE  LET x == users'[r.user]
             IN  /\ x.version > 0 /\ r.version <= x.version
                 /\ x.there /\ x.version = r.version => ~x.disabled
                 /\ x.there /\ r.local => x.password
  <2>1. r \in requests /\ r.user \in Ids /\ r.version \in Nat
    BY DEF Fits, TypeOK, Requests
  <2>2. LET x == users[r.user]
        IN  /\ x.version > 0 /\ r.version <= x.version
            /\ x.there /\ x.version = r.version => ~x.disabled
            /\ x.there /\ r.local => x.password
    BY <2>1 DEF Fits, VersionsFit
  <2> QED
    BY <1>2, <1>3, <2>1, <2>2 DEF SameOwner
<1>5. VersionsFit'
  BY <1>2, <1>3, <1>4 DEF Fits, VersionsFit, SameOwner
<1>6. \A pair \in keys' : pair[1] \in Ids
  BY DEF Fits, TypeOK
<1>7. IdentitiesFit'
  BY <1>2, <1>6 DEF Fits, IdentitiesFit, SameOwner, Owns
<1> QED
  BY <1>5, <1>7

(* Accounts and requests stay; at most a passkey is added or removed. *)
LEMMA KeysStep ==
  ASSUME Fits, UNCHANGED users, requests' \subseteq requests,
         \/ keys' \subseteq keys
         \/ \E r \in requests, k \in Keys :
                r.local /\ users[r.user].there /\ keys' = keys \cup {<<r.user, k>>}
  PROVE  VersionsFit' /\ IdentitiesFit'
<1>1. VersionsFit'
  BY DEF Fits, VersionsFit
<1>2. \A pair \in keys' : users[pair[1]].there /\ users[pair[1]].password
  BY DEF Fits, VersionsFit, IdentitiesFit
<1> QED
  BY <1>1, <1>2 DEF Fits, IdentitiesFit, Owns

(* An account gets an ID that was never used. *)
LEMMA NewStep ==
  ASSUME Fits, None \notin Identities, NEW u \in Ids, NEW y \in Users, Unused(u),
         users' = [users EXCEPT ![u] = y],
         y.there, ~y.disabled, y.version = 1, ~y.linked,
         y.password = (y.provider = "password"),
         (y.provider = "oidc") = (y.identity # None),
         \A o \in Ids : y.identity # None => ~Owns(o, y.identity),
         keys' = keys, requests' \subseteq requests
  PROVE  VersionsFit' /\ IdentitiesFit'
<1>1. \A v \in Ids : users[v] \in Users /\ users'[v] = IF v = u THEN y ELSE users[v]
  BY DEF Fits, TypeOK
<1>2. ~users[u].there
  BY DEF Unused, Fits, VersionsFit
<1>3. ASSUME NEW r \in requests' PROVE r \in requests /\ r.user \in Ids \ {u}
  <2>1. r \in requests /\ r.user \in Ids /\ users[r.user].version > 0
    BY DEF Fits, TypeOK, VersionsFit, Requests
  <2> QED
    BY <2>1 DEF Unused
<1>4. VersionsFit'
  BY <1>1, <1>3 DEF Fits, VersionsFit
<1>5. \A pair \in keys' : users'[pair[1]].there /\ users'[pair[1]].password
  <2>1. \A pair \in keys : pair[1] \in Ids /\ users[pair[1]].there /\ users[pair[1]].password
    BY DEF Fits, TypeOK, IdentitiesFit
  <2> QED
    BY <1>1, <1>2, <2>1
<1>6. \A v, w \in Ids, i \in Identities :
        users'[v].there /\ users'[v].identity = i /\ users'[w].there /\ users'[w].identity = i => v = w
  BY <1>1 DEF Fits, IdentitiesFit, Owns
<1>7. \A v \in Ids : users'[v].there =>
        /\ (users'[v].provider = "oidc") = (users'[v].identity # None)
        /\ users'[v].password = (users'[v].linked \/ users'[v].provider = "password")
        /\ users'[v].linked => users'[v].identity # None
  BY <1>1 DEF Fits, IdentitiesFit, Users
<1> QED
  BY <1>4, <1>5, <1>6, <1>7 DEF IdentitiesFit, Owns

(* An account is deleted with its passkeys. *)
LEMMA DeleteStep ==
  ASSUME Fits, NEW u \in Ids, users' = [users EXCEPT ![u] = Deleted(@)],
         keys' = keys \ KeysOf(u), requests' \subseteq requests
  PROVE  VersionsFit' /\ IdentitiesFit'
<1>1. /\ users'[u].there = FALSE /\ users'[u].version = users[u].version
      /\ \A v \in Ids \ {u} : users'[v] = users[v]
  BY DeletedRow DEF Fits, TypeOK
<1>2. VersionsFit'
  BY <1>1 DEF Fits, TypeOK, VersionsFit, Requests
<1>3. \A pair \in keys' : pair[1] \in Ids \ {u} /\ pair \in keys
  BY DEF Fits, TypeOK, KeysOf
<1> QED
  BY <1>1, <1>2, <1>3 DEF Fits, IdentitiesFit, Owns

(* An account gives its identity up. *)
LEMMA UnlinkStep ==
  ASSUME Fits, None \notin Identities, NEW u \in Ids, users[u].linked, users[u].there,
         users' = [users EXCEPT ![u] = Unlinked(@)],
         keys' = keys, requests' \subseteq requests
  PROVE  VersionsFit' /\ IdentitiesFit'
<1> DEFINE y == Unlinked(users[u])
<1>1. /\ y \in Users /\ y.there = users[u].there /\ y.password = users[u].password
      /\ y.disabled = users[u].disabled /\ y.version > users[u].version
      /\ y.provider = "password" /\ y.identity = None /\ y.linked = FALSE
      /\ y.password
  <2>1. users[u] \in Users
    BY DEF Fits, TypeOK
  <2>2. users[u].password
    BY <2>1 DEF Fits, IdentitiesFit, Users
  <2> QED
    BY <2>1, <2>2, UnlinkedRow
<1>2. \A v \in Ids : users[v] \in Users /\ users'[v] = IF v = u THEN y ELSE users[v]
  BY DEF Fits, TypeOK
<1> HIDE DEF y
<1>3. ASSUME NEW r \in requests'
      PROVE  LET x == users'[r.user]
             IN  /\ x.version > 0 /\ r.version <= x.version
                 /\ x.there /\ x.version = r.version => ~x.disabled
                 /\ x.there /\ r.local => x.password
  <2>1. r \in requests /\ r.user \in Ids /\ r.version \in Nat
    BY DEF Fits, TypeOK, Requests
  <2>2. users[u].version \in Nat /\ y.version \in Nat
    BY <1>1, <1>2 DEF Users
  <2> QED
    BY <1>1, <1>2, <2>1, <2>2 DEF Fits, VersionsFit
<1>4. VersionsFit'
  BY <1>1, <1>2, <1>3 DEF Fits, VersionsFit, Users
<1>5. \A pair \in keys' : users'[pair[1]].there /\ users'[pair[1]].password
  BY <1>1, <1>2 DEF Fits, TypeOK, IdentitiesFit
<1>6. \A v, w \in Ids, i \in Identities :
        users'[v].there /\ users'[v].identity = i /\ users'[w].there /\ users'[w].identity = i => v = w
  BY <1>1, <1>2 DEF Fits, IdentitiesFit, Owns
<1>7. \A v \in Ids : users'[v].there =>
        /\ (users'[v].provider = "oidc") = (users'[v].identity # None)
        /\ users'[v].password = (users'[v].linked \/ users'[v].provider = "password")
        /\ users'[v].linked => users'[v].identity # None
  BY <1>1, <1>2 DEF Fits, IdentitiesFit, Users
<1> QED
  BY <1>4, <1>5, <1>6, <1>7 DEF IdentitiesFit, Owns

(* An account takes an identity, and the account that had it is deleted. *)
LEMMA LinkStep ==
  ASSUME Fits, None \notin Identities, NEW u \in Ids, NEW i \in Identities, NEW y \in Users,
         CanLink(u, i), Link(u, i, y), y.there, y.password,
         y.disabled = users[u].disabled, y.version >= users[u].version,
         y.provider = "oidc", y.identity = i, y.linked,
         requests' \subseteq requests
  PROVE  VersionsFit' /\ IdentitiesFit'
<1>1. \A v \in Ids :
        /\ users[v] \in Users
        /\ v = u => users'[v] = y
        /\ v # u /\ Owns(v, i) => users'[v].there = FALSE /\ users'[v].version = users[v].version
        /\ v # u /\ ~Owns(v, i) => users'[v] = users[v]
  BY DeletedRow DEF Fits, TypeOK, Link
<1>2. users[u].there /\ users[u].password
  BY DEF CanLink
<1>3. ASSUME NEW r \in requests'
      PROVE  LET x == users'[r.user]
             IN  /\ x.version > 0 /\ r.version <= x.version
                 /\ x.there /\ x.version = r.version => ~x.disabled
                 /\ x.there /\ r.local => x.password
  <2>1. r \in requests /\ r.user \in Ids /\ r.version \in Nat
    BY DEF Fits, TypeOK, Requests
  <2>2. users[u].version \in Nat /\ y.version \in Nat
    BY <1>1 DEF Users
  <2> QED
    BY <1>1, <1>2, <2>1, <2>2 DEF Fits, VersionsFit
<1>4. VersionsFit'
  BY <1>1, <1>2, <1>3 DEF Fits, VersionsFit, Users
<1>5. \A pair \in keys' : users'[pair[1]].there /\ users'[pair[1]].password
  <2>1. \A pair \in keys' : pair[1] \in Ids /\ pair \in keys /\ (pair[1] = u \/ ~Owns(pair[1], i))
    BY DEF Fits, TypeOK, Link
  <2> QED
    BY <1>1, <2>1 DEF Fits, IdentitiesFit
<1>6. \A v, w \in Ids, j \in Identities :
        users'[v].there /\ users'[v].identity = j /\ users'[w].there /\ users'[w].identity = j => v = w
  BY <1>1 DEF Fits, IdentitiesFit, Owns
<1>7. \A v \in Ids : users'[v].there =>
        /\ (users'[v].provider = "oidc") = (users'[v].identity # None)
        /\ users'[v].password = (users'[v].linked \/ users'[v].provider = "password")
        /\ users'[v].linked => users'[v].identity # None
  BY <1>1 DEF Fits, IdentitiesFit, Users
<1> QED
  BY <1>4, <1>5, <1>6, <1>7 DEF IdentitiesFit, Owns

LEMMA FitStep ==
  ASSUME Fits, None \notin Identities, [AccountsNext]_vars
  PROVE  VersionsFit' /\ IdentitiesFit'
<1>0. \A u \in Ids : users[u] \in Users
  BY DEF Fits, TypeOK
<1>r. \A r \in requests : r.user \in Ids
  BY DEF Fits, TypeOK, Requests
<1>1. CASE Ask
  <2>1. PICK u \in Ids, local \in BOOLEAN :
            /\ users[u].there /\ ~users[u].disabled
            /\ IF local THEN users[u].password ELSE users[u].provider = "oidc"
            /\ requests' = requests \cup
                {[user |-> u, local |-> local, role |-> SessionRole(users[u], local),
                  version |-> users[u].version]}
            /\ UNCHANGED <<users, keys>>
    BY <1>1 DEF Ask
  <2>2. users[u].version \in Nat /\ users[u].version > 0
    BY <1>0, <2>1 DEF Fits, VersionsFit, Users
  <2>3. VersionsFit'
    BY <2>1, <2>2 DEF Fits, VersionsFit
  <2> QED
    BY <2>1, <2>3 DEF Fits, IdentitiesFit, Owns
<1>2. CASE Refuse
  BY <1>2, KeysStep DEF Refuse
<1>3. CASE Setup
  <2>1. PICK u \in Ids, b \in BOOLEAN : Unused(u) /\ users' = [users EXCEPT ![u] = NewLocal("admin", b)]
    BY <1>3 DEF Setup
  <2> DEFINE y == NewLocal("admin", b)
  <2>2. /\ y \in Users /\ y.there /\ ~y.disabled /\ y.version = 1 /\ ~y.linked
        /\ y.password = (y.provider = "password") /\ (y.provider = "oidc") = (y.identity # None)
        /\ y.identity = None
    BY NewRows DEF NewLocal, NoUser, Roles
  <2> QED
    BY <1>3, <2>1, <2>2, NewStep DEF Setup
<1>4. CASE CreateUser
  <2>1. PICK u \in Ids, role \in Roles, b \in BOOLEAN :
            Unused(u) /\ users' = [users EXCEPT ![u] = NewLocal(role, b)]
    BY <1>4 DEF CreateUser
  <2> DEFINE y == NewLocal(role, b)
  <2>2. /\ y \in Users /\ y.there /\ ~y.disabled /\ y.version = 1 /\ ~y.linked
        /\ y.password = (y.provider = "password") /\ (y.provider = "oidc") = (y.identity # None)
        /\ y.identity = None
    BY NewRows DEF NewLocal, NoUser
  <2> QED
    BY <1>4, <2>1, <2>2, NewStep DEF CreateUser, Answered
<1>5. CASE UpdateUser
  <2>1. PICK u \in Ids, role \in Roles \cup {None}, d \in BOOLEAN \cup {None} :
            users' = [users EXCEPT ![u] = Patched(@, role, d)]
    BY <1>5 DEF UpdateUser
  <2> DEFINE y == Patched(users[u], role, d)
  <2>2. /\ y \in Users /\ SameOwner(users[u], y) /\ y.version >= users[u].version
        /\ y.disabled /\ ~users[u].disabled => y.version > users[u].version
    BY <1>0, PatchedRow
  <2> QED
    BY <1>5, <2>1, <2>2, SameOwnerStep DEF UpdateUser, Answered
<1>6. CASE ResetSecondFactors
  <2>1. PICK u \in Ids : users' = [users EXCEPT ![u] = Bumped(@)] /\ keys' = keys \ KeysOf(u)
    BY <1>6 DEF ResetSecondFactors
  <2>2. Bumped(users[u]) \in Users /\ Bumped(users[u]).version >= users[u].version
    BY <1>0, BumpedRow
  <2> QED
    BY <1>0, <1>6, <2>1, <2>2, BumpedRow, SameOwnerStep DEF ResetSecondFactors, Answered
<1>7. CASE DeleteUser
  BY <1>7, DeleteStep DEF DeleteUser, Answered
<1>8. CASE UnlinkUser
  BY <1>8, UnlinkStep DEF UnlinkUser, Answered, Managed
<1>9. CASE SaveSettings
  BY <1>9, KeysStep DEF SaveSettings, Answered
<1>10. CASE CredentialsChange
  <2>1. PICK u \in Ids : users' = [users EXCEPT ![u] = Bumped(@)]
    BY <1>10 DEF CredentialsChange
  <2>2. Bumped(users[u]) \in Users /\ Bumped(users[u]).version >= users[u].version
    BY <1>0, BumpedRow
  <2> QED
    BY <1>0, <1>10, <2>1, <2>2, BumpedRow, SameOwnerStep DEF CredentialsChange
<1>11. CASE RegisterKey
  BY <1>11, KeysStep DEF RegisterKey, Answered
<1>12. CASE DeleteKey
  BY <1>12, KeysStep DEF DeleteKey, Answered
<1>13. CASE UnlinkOwn
  BY <1>r, <1>13, UnlinkStep DEF UnlinkOwn, Answered
<1>14. CASE LinkOwn
  <2>1. PICK r \in requests, i \in Identities, role \in Roles :
            /\ CanLink(r.user, i)
            /\ Link(r.user, i, Bumped(LinkedTo(users[r.user], i, role)))
    BY <1>14 DEF LinkOwn
  <2> DEFINE z == LinkedTo(users[r.user], i, role)
             y == Bumped(z)
  <2>2. /\ z \in Users /\ z.there = users[r.user].there /\ z.password = users[r.user].password
        /\ z.disabled = users[r.user].disabled /\ z.version = users[r.user].version
        /\ z.provider = "oidc" /\ z.identity = i /\ z.linked
    <3>1. r.user \in Ids /\ users[r.user] \in Users
      BY <1>0, <1>r
    <3>2. \A x \in Users : LET w == LinkedTo(x, i, role)
                            IN  /\ w \in Users /\ w.there = x.there /\ w.password = x.password
                                /\ w.disabled = x.disabled /\ w.version = x.version
                                /\ w.provider = "oidc" /\ w.identity = i /\ w.linked
      BY LinkedRow
    <3> HIDE DEF y
    <3> QED
      BY <3>1, <3>2, Zenon
  <2>3. y \in Users /\ SameOwner(z, y) /\ y.disabled = z.disabled /\ y.version > z.version
    BY <2>2, BumpedRow
  <2>4. z.version \in Nat /\ y.version \in Nat
    BY <2>2, <2>3 DEF Users
  <2> HIDE DEF z, y
  <2>5. /\ y.there /\ y.password /\ y.disabled = users[r.user].disabled
        /\ y.version >= users[r.user].version
        /\ y.provider = "oidc" /\ y.identity = i /\ y.linked
    BY <2>1, <2>2, <2>3, <2>4 DEF CanLink, SameOwner
  <2>6. Link(r.user, i, y)
    BY <2>1 DEF y, z
  <2>7. requests' \subseteq requests
    BY <1>14 DEF LinkOwn, Answered
  <2> QED
    BY <1>r, <2>1, <2>3, <2>5, <2>6, <2>7, LinkStep
<1>15. CASE AutoLink
  <2>1. PICK i \in Identities, role \in Roles, u \in Ids :
            CanLink(u, i) /\ Link(u, i, LinkedTo(users[u], i, role))
    BY <1>15 DEF AutoLink
  <2> DEFINE y == LinkedTo(users[u], i, role)
  <2>2. /\ y \in Users /\ y.there /\ y.password /\ y.disabled = users[u].disabled
        /\ y.version = users[u].version /\ users[u].version \in Nat
        /\ y.provider = "oidc" /\ y.identity = i /\ y.linked
    <3>1. users[u] \in Users /\ users[u].there /\ users[u].password /\ users[u].version \in Nat
      BY <1>0, <2>1 DEF CanLink, Users
    <3> QED
      BY ZenonT(40), <3>1, LinkedRow
  <2>3. y.version >= users[u].version /\ requests' \subseteq requests
    BY <1>15, <2>2 DEF AutoLink
  <2> HIDE DEF y
  <2>4. Link(u, i, y)
    BY <2>1 DEF y
  <2> QED
    BY <2>1, <2>2, <2>3, <2>4, LinkStep
<1>16. CASE SignIn
  <2>1. PICK i \in Identities, role \in Roles, u \in Ids :
            \/ users' = [users EXCEPT ![u] = Updated(@, role)]
            \/ /\ \A o \in Ids : ~Owns(o, i)
               /\ Unused(u) /\ users' = [users EXCEPT ![u] = NewSso(role, i)]
    BY <1>16 DEF SignIn
  <2>2. CASE users' = [users EXCEPT ![u] = Updated(@, role)]
    <3> DEFINE y == Updated(users[u], role)
    <3>1. /\ y \in Users /\ SameOwner(users[u], y)
          /\ y.disabled = users[u].disabled /\ y.version >= users[u].version
      BY <1>0, UpdatedRow
    <3>2. keys' = keys /\ requests' = requests
      BY <1>16 DEF SignIn
    <3> HIDE DEF y
    <3>3. users' = [users EXCEPT ![u] = y]
      BY <2>2 DEF y
    <3> QED
      BY <3>1, <3>2, <3>3, SameOwnerStep
  <2>3. CASE /\ \A o \in Ids : ~Owns(o, i)
             /\ Unused(u) /\ users' = [users EXCEPT ![u] = NewSso(role, i)]
    <3> DEFINE y == NewSso(role, i)
    <3>1. /\ y \in Users /\ y.there /\ ~y.disabled /\ y.version = 1 /\ ~y.linked
          /\ y.password = (y.provider = "password") /\ (y.provider = "oidc") = (y.identity # None)
          /\ y.identity = i
      BY NewRows DEF NewSso, NoUser
    <3>2. keys' = keys /\ requests' = requests
      BY <1>16 DEF SignIn
    <3> HIDE DEF y
    <3>3. users' = [users EXCEPT ![u] = y]
      BY <2>3 DEF y
    <3> QED
      BY <2>3, <3>1, <3>2, <3>3, NewStep
  <2> QED
    BY <2>1, <2>2, <2>3
<1>17. CASE Deny
  <2>1. PICK u \in Ids : users' = [users EXCEPT ![u] = Denied(@)]
    BY <1>17 DEF Deny
  <2> QED
    BY <1>0, <1>17, <2>1, DeniedRow, SameOwnerStep DEF Deny
<1>18. CASE UNCHANGED vars
  BY <1>18, KeysStep DEF vars
<1> QED
  BY <1>1, <1>2, <1>3, <1>4, <1>5, <1>6, <1>7, <1>8, <1>9, <1>10, <1>11, <1>12, <1>13,
     <1>14, <1>15, <1>16, <1>17, <1>18
     DEF AccountsNext, ByAdministrator, ByHolder, ByProvider

-----------------------------------------------------------------------------
(* Passkeys. *)

PasskeyHeld == passwordOff /\ issuer = None /\ ~overtaken

(* The accounts whose passkeys count. *)
Counts(x) == x.there /\ x.role = "admin" /\ ~x.disabled /\ (x.provider # "oidc" \/ x.password)

LEMMA PasskeyStep ==
  ASSUME Fits, None \notin Identities, [AccountsNext]_vars, PasskeyRemains, PasskeyHeld'
  PROVE  AdminPasskeyIn(keys)'
<1>0. \A u \in Ids : users[u] \in Users
  BY DEF Fits, TypeOK
<1>r. \A r \in requests : r.user \in Ids
  BY DEF Fits, TypeOK, Requests
<1>k. \A pair \in keys : pair[1] \in Ids /\ users[pair[1]].there /\ users[pair[1]].password
  BY DEF Fits, TypeOK, IdentitiesFit
<1>w. AdminPasskeyIn(keys) <=> \E pair \in keys : Counts(users[pair[1]])
  BY DEF AdminPasskeyIn, Counts
<1>n. (\E pair \in keys' : Counts(users'[pair[1]])) => AdminPasskeyIn(keys)'
  BY DEF AdminPasskeyIn, Counts
<1>p. ASSUME UNCHANGED Settings PROVE passwordOff /\ issuer = None /\ AdminPasskeyIn(keys)
  BY <1>p DEF PasskeyHeld, PasskeyRemains, Settings
(* A change of one row is harmless if that row counts afterwards or did not before. *)
<1>o. ASSUME NEW u \in Ids, NEW y \in Users, users' = [users EXCEPT ![u] = y],
             keys' = keys, UNCHANGED Settings,
             Counts(users[u]) /\ (\A pair \in keys : Counts(users[pair[1]]) => pair[1] = u)
                => Counts(y)
      PROVE  AdminPasskeyIn(keys)'
  <2>1. PICK pair \in keys : Counts(users[pair[1]]) /\ (pair[1] = u => Counts(y))
    BY <1>o, <1>p, <1>w
  <2>2. pair[1] \in Ids /\ users'[pair[1]] = IF pair[1] = u THEN y ELSE users[pair[1]]
    BY <1>o, <1>k DEF Fits, TypeOK
  <2> QED
    BY <1>n, <1>o, <2>1, <2>2
(* The passkeys of one account go, and another counts. *)
<1>l. ASSUME NEW u \in Ids, NEW y \in Users, users' = [users EXCEPT ![u] = y],
             keys' = keys \ KeysOf(u), UNCHANGED Settings,
             IsEnabledAdmin(u) => ~WouldLockOut(KeysOf(u))
      PROVE  AdminPasskeyIn(keys)'
  <2>1. PICK pair \in keys : Counts(users[pair[1]]) /\ pair[1] # u
    <3>1. CASE IsEnabledAdmin(u)
      BY <1>l, <1>p, <3>1 DEF WouldLockOut, AdminPasskeyIn, Counts, KeysOf
    <3>2. CASE ~IsEnabledAdmin(u)
      BY <1>l, <1>p, <1>w, <3>2 DEF IsEnabledAdmin, Counts
    <3> QED
      BY <3>1, <3>2
  <2>2. pair \in keys' /\ users'[pair[1]] = users[pair[1]]
    BY <1>l, <1>k, <2>1 DEF KeysOf, Fits, TypeOK
  <2> QED
    BY <1>n, <2>1, <2>2
(* A link leaves every account that counts where it is. *)
<1>i. ASSUME NEW u \in Ids, NEW i \in Identities, NEW y \in Users,
             CanLink(u, i), Link(u, i, y),
             y.there, y.password, y.role = users[u].role, y.disabled = users[u].disabled
      PROVE  AdminPasskeyIn(keys)'
  <2>1. PICK pair \in keys : Counts(users[pair[1]])
    BY <1>i, <1>p, <1>w DEF Link
  <2>2. pair[1] = u \/ ~Owns(pair[1], i)
    BY <1>i, <1>k DEF CanLink
  <2>3. pair \in keys' /\ users'[pair[1]] = IF pair[1] = u THEN y ELSE users[pair[1]]
    BY <1>i, <1>k, <2>2 DEF Link
  <2> QED
    BY <1>i, <1>n, <2>1, <2>3 DEF Counts
<1>1. CASE Ask
  BY <1>1, <1>n, <1>p, <1>w DEF Ask, Settings
<1>2. CASE Refuse
  BY <1>2, <1>n, <1>p, <1>w DEF Refuse, Settings
<1>3. CASE Setup
  BY <1>3, <1>k, <1>p, <1>w DEF Setup
<1>4. CASE CreateUser
  <2>1. PICK u \in Ids, role \in Roles, b \in BOOLEAN :
            Unused(u) /\ users' = [users EXCEPT ![u] = NewLocal(role, b)]
    BY <1>4 DEF CreateUser
  <2>2. ~Counts(users[u])
    BY <2>1 DEF Counts, Unused, Fits, VersionsFit
  <2> QED
    BY <1>4, <1>o, <2>1, <2>2, NewRows DEF CreateUser, Settings
<1>5. CASE UpdateUser
  <2>1. PICK u \in Ids, role \in Roles \cup {None}, d \in BOOLEAN \cup {None} :
            /\ LosesAdmin(u, role, d) => ~WouldLockOut(KeysOf(u))
            /\ users' = [users EXCEPT ![u] = Patched(@, role, d)]
    BY <1>5 DEF UpdateUser
  <2> DEFINE y == Patched(users[u], role, d)
  <2>2. /\ y \in Users /\ SameOwner(users[u], y)
        /\ y.role = (IF role = None THEN users[u].role ELSE role)
        /\ y.disabled = (IF d = None THEN users[u].disabled ELSE d)
    BY <1>0, PatchedRow
  <2>3. keys' = keys /\ UNCHANGED Settings
    BY <1>5 DEF UpdateUser
  <2> HIDE DEF y
  <2>4. users' = [users EXCEPT ![u] = y]
    BY <2>1 DEF y
  <2>5. CASE LosesAdmin(u, role, d)
    <3>1. PICK pair \in keys : Counts(users[pair[1]]) /\ pair[1] # u
      BY <1>p, <2>1, <2>3, <2>5 DEF WouldLockOut, AdminPasskeyIn, Counts, KeysOf
    <3> QED
      BY <1>o, <2>2, <2>3, <2>4, <3>1
  <2>6. CASE ~LosesAdmin(u, role, d)
    <3>1. Counts(users[u]) => Counts(y)
      <4> SUFFICES ASSUME Counts(users[u]) PROVE Counts(y)
        OBVIOUS
      <4>1. IsActiveAdmin(users[u])
        BY DEF Counts, IsActiveAdmin
      <4>2. d # TRUE /\ ~(role = "read-only" /\ users[u].role = "admin")
        BY <2>6, <4>1 DEF LosesAdmin
      <4>3. y.role = "admin" /\ ~y.disabled
        BY <2>2, <4>2 DEF Counts, Roles
      <4> QED
        BY <2>2, <4>3 DEF Counts, SameOwner
    <3> QED
      BY <1>o, <2>2, <2>3, <2>4, <3>1
  <2> QED
    BY <2>5, <2>6
<1>6. CASE ResetSecondFactors
  BY <1>0, <1>6, <1>l, BumpedRow DEF ResetSecondFactors
<1>7. CASE DeleteUser
  BY <1>0, <1>7, <1>l, DeletedRow DEF DeleteUser
<1>8. CASE UnlinkUser
  <2>1. PICK u \in Ids : users' = [users EXCEPT ![u] = Unlinked(@)]
    BY <1>8 DEF UnlinkUser
  <2>2. Unlinked(users[u]) \in Users /\ (Counts(users[u]) => Counts(Unlinked(users[u])))
    BY <1>0, UnlinkedRow DEF Counts
  <2> QED
    BY <1>8, <1>o, <2>1, <2>2 DEF UnlinkUser
<1>9. CASE SaveSettings
  BY <1>9, <1>n, <1>w DEF SaveSettings, PasskeyHeld
<1>10. CASE CredentialsChange
  <2>1. PICK u \in Ids : users' = [users EXCEPT ![u] = Bumped(@)]
    BY <1>10 DEF CredentialsChange
  <2>2. Bumped(users[u]) \in Users /\ (Counts(users[u]) => Counts(Bumped(users[u])))
    BY <1>0, BumpedRow DEF Counts, SameOwner
  <2> QED
    BY <1>10, <1>o, <2>1, <2>2 DEF CredentialsChange
<1>11. CASE RegisterKey
  BY <1>11, <1>n, <1>p, <1>w DEF RegisterKey
<1>12. CASE DeleteKey
  <2>1. PICK r \in requests, k \in Keys :
            /\ r.role = "admin" => ~WouldLockOut({<<r.user, k>>})
            /\ keys' = keys \ {<<r.user, k>>}
            /\ overtaken' = (overtaken \/ (r.role # "admin" /\ users[r.user].role = "admin"))
            /\ UNCHANGED <<users, passwordOff, issuer>>
    BY <1>12 DEF DeleteKey
  <2>2. passwordOff /\ issuer = None /\ AdminPasskeyIn(keys)
    BY <2>1 DEF PasskeyHeld, PasskeyRemains
  <2>3. \E pair \in keys \ {<<r.user, k>>} : Counts(users[pair[1]])
    <3>1. CASE r.role = "admin"
      BY <2>1, <2>2, <3>1 DEF WouldLockOut, AdminPasskeyIn, Counts
    <3>2. CASE r.role # "admin"
      <4>1. ~Counts(users[r.user])
        BY <2>1, <3>2 DEF PasskeyHeld, Counts
      <4>2. <<r.user, k>>[1] = r.user
        OBVIOUS
      <4> QED
        BY <1>w, <2>2, <4>1, <4>2
    <3> QED
      BY <3>1, <3>2
  <2> QED
    BY <1>n, <2>1, <2>3
<1>13. CASE UnlinkOwn
  <2>1. PICK r \in requests : users' = [users EXCEPT ![r.user] = Unlinked(@)]
    BY <1>13 DEF UnlinkOwn
  <2>2. Unlinked(users[r.user]) \in Users /\ (Counts(users[r.user]) => Counts(Unlinked(users[r.user])))
    BY <1>0, <1>r, UnlinkedRow DEF Counts
  <2> QED
    BY <1>13, <1>o, <1>r, <2>1, <2>2 DEF UnlinkOwn
<1>14. CASE LinkOwn
  <2>1. PICK r \in requests, i \in Identities, role \in Roles :
            /\ CanLink(r.user, i)
            /\ Link(r.user, i, Bumped(LinkedTo(users[r.user], i, role)))
    BY <1>14 DEF LinkOwn
  <2> DEFINE z == LinkedTo(users[r.user], i, role)
             y == Bumped(z)
  <2>2. /\ z \in Users /\ z.there = users[r.user].there /\ z.password = users[r.user].password
        /\ z.disabled = users[r.user].disabled /\ z.role = users[r.user].role
    BY ZenonT(40), <1>0, <1>r, LinkedRow
  <2>3. y \in Users /\ SameOwner(z, y) /\ y.disabled = z.disabled /\ y.role = z.role
    BY <2>2, BumpedRow
  <2>4. Link(r.user, i, y)
    BY <2>1
  <2> HIDE DEF z, y
  <2>5. y.there /\ y.password
    BY <2>1, <2>2, <2>3 DEF SameOwner, CanLink
  <2> QED
    BY <1>i, <1>r, <2>1, <2>2, <2>3, <2>4, <2>5
<1>15. CASE AutoLink
  <2>1. PICK i \in Identities, role \in Roles, u \in Ids :
            CanLink(u, i) /\ Link(u, i, LinkedTo(users[u], i, role))
    BY <1>15 DEF AutoLink
  <2> DEFINE y == LinkedTo(users[u], i, role)
  <2>2. /\ y \in Users /\ y.there = users[u].there /\ y.password = users[u].password
        /\ y.disabled = users[u].disabled /\ y.role = users[u].role
    BY ZenonT(40), <1>0, LinkedRow
  <2>3. CanLink(u, i) /\ Link(u, i, y) /\ users[u].there /\ users[u].password
    BY <2>1 DEF CanLink
  <2> HIDE DEF y
  <2> QED
    BY <1>i, <2>2, <2>3
<1>16. CASE SignIn
  <2>1. PICK i \in Identities, role \in Roles, u \in Ids :
            \/ Owns(u, i) /\ users' = [users EXCEPT ![u] = Updated(@, role)]
            \/ Unused(u) /\ users' = [users EXCEPT ![u] = NewSso(role, i)]
    BY <1>16 DEF SignIn
  <2>2. CASE Owns(u, i) /\ users' = [users EXCEPT ![u] = Updated(@, role)]
    <3>1. PICK y \in Users : /\ y = Updated(users[u], role) /\ SameOwner(users[u], y)
                             /\ users[u].linked => y.role = users[u].role
                             /\ y.disabled = users[u].disabled
      BY <1>0, UpdatedRow
    <3>2. users[u].provider = "oidc"
      BY <2>2 DEF Owns, Fits, IdentitiesFit
    <3>3. users[u].password => users[u].linked
      BY <2>2, <3>2 DEF Owns, Fits, IdentitiesFit
    <3>4. Counts(users[u]) => Counts(y)
      BY <3>1, <3>2, <3>3 DEF Counts, SameOwner
    <3> QED
      BY <1>16, <1>o, <2>2, <3>1, <3>4 DEF SignIn
  <2>3. CASE Unused(u) /\ users' = [users EXCEPT ![u] = NewSso(role, i)]
    <3>1. ~Counts(users[u])
      BY <2>3 DEF Counts, Unused, Fits, VersionsFit
    <3> QED
      BY <1>16, <1>o, <2>3, <3>1, NewRows DEF SignIn
  <2> QED
    BY <2>1, <2>2, <2>3
<1>17. CASE Deny
  <2>1. PICK i \in Identities, u \in Ids : Owns(u, i) /\ users' = [users EXCEPT ![u] = Denied(@)]
    BY <1>17 DEF Deny
  <2>2. PICK y \in Users : /\ y = Denied(users[u]) /\ SameOwner(users[u], y)
                           /\ users[u].password => y.role = users[u].role
                           /\ y.disabled = users[u].disabled
    BY <1>0, DeniedRow
  <2>3. users[u].provider = "oidc"
    BY <2>1 DEF Owns, Fits, IdentitiesFit
  <2>4. Counts(users[u]) => Counts(y)
    BY <2>2, <2>3 DEF Counts, SameOwner
  <2> QED
    BY <1>17, <1>o, <2>1, <2>2, <2>4 DEF Deny
<1>18. CASE UNCHANGED vars
  BY <1>18, <1>n, <1>p, <1>w DEF vars, Settings
<1> QED
  BY <1>1, <1>2, <1>3, <1>4, <1>5, <1>6, <1>7, <1>8, <1>9, <1>10, <1>11, <1>12, <1>13,
     <1>14, <1>15, <1>16, <1>17, <1>18
     DEF AccountsNext, ByAdministrator, ByHolder, ByProvider

-----------------------------------------------------------------------------
(* Administrators. *)

LEMMA AdminStep ==
  ASSUME Fits, Setup \/ ByAdministrator \/ ByHolder, SomeActiveAdmin
  PROVE  SomeActiveAdmin'
<1>0. \A u \in Ids : users[u] \in Users
  BY DEF Fits, TypeOK
<1>r. \A r \in requests : r.user \in Ids
  BY DEF Fits, TypeOK, Requests
(* A change of one row is harmless if another account is an administrator, or *)
(* if that row is one afterwards or was none before.                         *)
<1>o. ASSUME NEW u \in Ids, NEW y \in Users, users' = [users EXCEPT ![u] = y],
             issuer' = issuer, IsLastActiveAdmin(u) => IsActiveAdmin(y)
      PROVE  SomeActiveAdmin'
  <2>1. \A x \in Users : IsActiveAdmin(x)' <=> IsActiveAdmin(x)
    BY <1>o DEF IsActiveAdmin, IsCurrentIdentity
  <2>2. \A v \in Ids : users'[v] = IF v = u THEN y ELSE users[v]
    BY <1>o DEF Fits, TypeOK
  <2>3. CASE IsLastActiveAdmin(u)
    BY <1>o, <2>2, <2>3 DEF SomeActiveAdmin, IsActiveAdmin, IsCurrentIdentity
  <2>4. CASE ~IsLastActiveAdmin(u)
    <3>1. PICK v \in Ids \ {u} : IsActiveAdmin(users[v])
      BY <2>4 DEF SomeActiveAdmin, IsLastActiveAdmin
    <3> QED
      BY <1>o, <2>2, <3>1 DEF SomeActiveAdmin, IsActiveAdmin, IsCurrentIdentity
  <2> QED
    BY <2>3, <2>4
(* The unlink keeps the role of the account. *)
<1>l. ASSUME NEW u \in Ids, users' = [users EXCEPT ![u] = Unlinked(@)],
             issuer' = issuer, ~WouldUnlinkRemoveLastAdmin(u)
      PROVE  SomeActiveAdmin'
  <2>1. Unlinked(users[u]) \in Users
    BY <1>0, UnlinkedRow
  <2>2. ASSUME IsLastActiveAdmin(u) PROVE IsActiveAdmin(Unlinked(users[u]))
    <3>1. users[u].role = "admin" /\ users[u].there /\ ~users[u].disabled
      BY <1>l, <2>2 DEF WouldUnlinkRemoveLastAdmin, IsLastActiveAdmin, IsActiveAdmin
    <3> QED
      BY <1>0, <3>1, UnlinkedRow DEF IsActiveAdmin
  <2> QED
    BY <1>l, <1>o, <2>1, <2>2
<1>3. CASE Setup
  BY <1>3 DEF Setup, SomeActiveAdmin, IsActiveAdmin
<1>4. CASE CreateUser
  <2>1. PICK u \in Ids, role \in Roles, b \in BOOLEAN :
            Unused(u) /\ users' = [users EXCEPT ![u] = NewLocal(role, b)]
    BY <1>4 DEF CreateUser
  <2>2. ~IsLastActiveAdmin(u)
    BY <2>1 DEF IsLastActiveAdmin, IsActiveAdmin, Unused, Fits, VersionsFit
  <2> QED
    BY <1>4, <1>o, <2>1, <2>2, NewRows DEF CreateUser, Settings
<1>5. CASE UpdateUser
  <2>1. PICK u \in Ids, role \in Roles \cup {None}, d \in BOOLEAN \cup {None} :
            /\ LosesAdmin(u, role, d) => ~IsLastActiveAdmin(u)
            /\ users' = [users EXCEPT ![u] = Patched(@, role, d)]
    BY <1>5 DEF UpdateUser
  <2> DEFINE y == Patched(users[u], role, d)
  <2>2. /\ y \in Users /\ SameOwner(users[u], y) /\ y.ssoRole = users[u].ssoRole
        /\ y.role = (IF role = None THEN users[u].role ELSE role)
        /\ y.disabled = (IF d = None THEN users[u].disabled ELSE d)
    BY <1>0, PatchedRow
  <2>3. issuer' = issuer
    BY <1>5 DEF UpdateUser, Settings
  <2> HIDE DEF y
  <2>4. users' = [users EXCEPT ![u] = y]
    BY <2>1 DEF y
  <2>5. ASSUME IsLastActiveAdmin(u) PROVE IsActiveAdmin(y)
    <3>1. IsActiveAdmin(users[u]) /\ ~LosesAdmin(u, role, d)
      BY <2>1, <2>5 DEF IsLastActiveAdmin
    <3>2. d # TRUE /\ ~(role = "read-only" /\ users[u].role = "admin")
      BY <3>1 DEF LosesAdmin
    <3>3. ~y.disabled /\ (users[u].role = "admin" => y.role = "admin")
      BY <2>2, <3>1, <3>2 DEF IsActiveAdmin, Roles
    <3> QED
      BY <2>2, <3>1, <3>3 DEF IsActiveAdmin, SameOwner
  <2> QED
    BY <1>o, <2>2, <2>3, <2>4, <2>5
<1>6. CASE ResetSecondFactors
  <2>1. PICK u \in Ids : users' = [users EXCEPT ![u] = Bumped(@)]
    BY <1>6 DEF ResetSecondFactors
  <2>2. Bumped(users[u]) \in Users /\ (IsActiveAdmin(users[u]) => IsActiveAdmin(Bumped(users[u])))
    BY <1>0, BumpedRow DEF IsActiveAdmin, Bumped, Users
  <2> QED
    BY <1>6, <1>o, <2>1, <2>2 DEF ResetSecondFactors, Settings, IsLastActiveAdmin
<1>7. CASE DeleteUser
  BY <1>0, <1>7, <1>o, DeletedRow DEF DeleteUser, Settings
<1>8. CASE UnlinkUser
  BY <1>8, <1>l DEF UnlinkUser, Settings
<1>10. CASE CredentialsChange
  <2>1. PICK u \in Ids : users' = [users EXCEPT ![u] = Bumped(@)]
    BY <1>10 DEF CredentialsChange
  <2>2. Bumped(users[u]) \in Users /\ (IsActiveAdmin(users[u]) => IsActiveAdmin(Bumped(users[u])))
    BY <1>0, BumpedRow DEF IsActiveAdmin, Bumped, Users
  <2> QED
    BY <1>10, <1>o, <2>1, <2>2 DEF CredentialsChange, Settings, IsLastActiveAdmin
<1>11. CASE RegisterKey
  BY <1>11 DEF RegisterKey, Settings, SomeActiveAdmin, IsActiveAdmin, IsCurrentIdentity
<1>12. CASE DeleteKey
  BY <1>12 DEF DeleteKey, SomeActiveAdmin, IsActiveAdmin, IsCurrentIdentity
<1>13. CASE UnlinkOwn
  BY <1>13, <1>l, <1>r DEF UnlinkOwn, Settings
<1> QED
  BY <1>3, <1>4, <1>5, <1>6, <1>7, <1>8, <1>10, <1>11, <1>12, <1>13
     DEF ByAdministrator, ByHolder

-----------------------------------------------------------------------------
(* Disabled accounts. *)

LEMMA DisabledStep ==
  ASSUME Fits, None \notin Identities, [AccountsNext]_vars,
         NEW u \in Ids, NEW i \in Identities, Owns(u, i), users[u].disabled, ~ByAdministrator
  PROVE  Owns(u, i)' /\ users'[u].disabled
<1>0. \A v \in Ids : users[v] \in Users
  BY DEF Fits, TypeOK
<1>r. \A r \in requests : r.user \in Ids
  BY DEF Fits, TypeOK, Requests
<1>s. users' = users => Owns(u, i)' /\ users'[u].disabled
  BY DEF Owns
<1>o. ASSUME NEW v \in Ids, NEW y \in Users, users' = [users EXCEPT ![v] = y],
             v = u => SameOwner(users[u], y) /\ y.disabled = users[u].disabled
      PROVE  Owns(u, i)' /\ users'[u].disabled
  <2>1. users'[u] = IF v = u THEN y ELSE users[u]
    BY <1>o DEF Fits, TypeOK
  <2> QED
    BY <1>o, <2>1 DEF Owns, SameOwner
(* The account is neither the target of a link nor the one merged into it.   *)
<1>l. ASSUME NEW v \in Ids, NEW j \in Identities, NEW y \in Users, CanLink(v, j), Link(v, j, y)
      PROVE  Owns(u, i)' /\ users'[u].disabled
  <2>1. users[u].there /\ users[u].identity # None
    BY DEF Owns
  <2>2. users[u].provider = "oidc"
    BY <2>1 DEF Fits, IdentitiesFit
  <2>3. users[u].password => users[u].linked
    BY <2>1, <2>2 DEF Fits, IdentitiesFit
  <2>4. u # v /\ ~Owns(u, j)
    BY <1>l, <2>3 DEF CanLink
  <2>5. users'[u] = users[u]
    BY <1>l, <2>4 DEF Link
  <2> QED
    BY <2>5 DEF Owns
<1>1. CASE Ask \/ Refuse \/ SaveSettings \/ RegisterKey \/ DeleteKey
  BY <1>1, <1>s DEF Ask, Refuse, SaveSettings, RegisterKey, DeleteKey
<1>3. CASE Setup
  BY <1>3 DEF Setup, Owns
<1>10. CASE CredentialsChange
  <2>1. PICK v \in Ids : users' = [users EXCEPT ![v] = Bumped(@)]
    BY <1>10 DEF CredentialsChange
  <2> QED
    BY <1>0, <1>o, <2>1, BumpedRow
<1>13. CASE UnlinkOwn
  <2>1. PICK r \in requests : /\ users[r.user].there /\ users[r.user].version = r.version
                              /\ users' = [users EXCEPT ![r.user] = Unlinked(@)]
    BY <1>13 DEF UnlinkOwn
  <2>2. r.user # u
    BY <2>1 DEF Fits, VersionsFit
  <2>3. Unlinked(users[r.user]) \in Users
    BY <1>0, <1>r, UnlinkedRow
  <2> QED
    BY <1>o, <1>r, <2>1, <2>2, <2>3
<1>14. CASE LinkOwn
  <2>1. PICK r \in requests, j \in Identities, role \in Roles :
            /\ CanLink(r.user, j)
            /\ Link(r.user, j, Bumped(LinkedTo(users[r.user], j, role)))
    BY <1>14 DEF LinkOwn
  <2>2. LinkedTo(users[r.user], j, role) \in Users
    BY <1>0, <1>r, LinkedRow
  <2>3. Bumped(LinkedTo(users[r.user], j, role)) \in Users
    BY <2>2, BumpedRow
  <2> QED
    BY <1>l, <1>r, <2>1, <2>3
<1>15. CASE AutoLink
  <2>1. PICK j \in Identities, role \in Roles, v \in Ids :
            CanLink(v, j) /\ Link(v, j, LinkedTo(users[v], j, role))
    BY <1>15 DEF AutoLink
  <2>2. LinkedTo(users[v], j, role) \in Users
    BY <1>0, LinkedRow
  <2> QED
    BY <1>l, <2>1, <2>2
<1>16. CASE SignIn
  <2>1. PICK j \in Identities, role \in Roles, v \in Ids :
            \/ users' = [users EXCEPT ![v] = Updated(@, role)]
            \/ Unused(v) /\ users' = [users EXCEPT ![v] = NewSso(role, j)]
    BY <1>16 DEF SignIn
  <2>2. CASE users' = [users EXCEPT ![v] = Updated(@, role)]
    BY <1>0, <1>o, <2>2, UpdatedRow
  <2>3. CASE Unused(v) /\ users' = [users EXCEPT ![v] = NewSso(role, j)]
    <3>1. v # u
      BY <2>3 DEF Unused, Owns, Fits, VersionsFit
    <3> QED
      BY <1>o, <2>3, <3>1, NewRows
  <2> QED
    BY <2>1, <2>2, <2>3
<1>17. CASE Deny
  <2>1. PICK v \in Ids : users' = [users EXCEPT ![v] = Denied(@)]
    BY <1>17 DEF Deny
  <2> QED
    BY <1>0, <1>o, <2>1, DeniedRow
<1>18. CASE UNCHANGED vars
  BY <1>18, <1>s DEF vars
<1> QED
  BY <1>1, <1>3, <1>10, <1>13, <1>14, <1>15, <1>16, <1>17, <1>18
     DEF AccountsNext, ByHolder, ByProvider

-----------------------------------------------------------------------------
LEMMA InitInv == AccountsInit => Fits /\ PasskeyRemains
<1> SUFFICES ASSUME AccountsInit PROVE Fits /\ PasskeyRemains
  OBVIOUS
<1>1. \A u \in Ids : users[u] = NoUser /\ users[u] \in Users /\ ~users[u].there
  BY NewRows DEF AccountsInit, NoUser
<1>2. TypeOK
  BY NewRows DEF AccountsInit, TypeOK
<1> QED
  BY <1>1, <1>2 DEF AccountsInit, Fits, VersionsFit, IdentitiesFit, Owns, PasskeyRemains

LEMMA InvariantStep ==
  ASSUME Fits, PasskeyRemains, None \notin Identities, [AccountsNext]_vars
  PROVE  Fits' /\ PasskeyRemains'
<1>1. Fits'
  BY TypeStep, FitStep DEF Fits
<1>2. PasskeyRemains'
  BY PasskeyStep DEF PasskeyRemains, PasskeyHeld
<1> QED
  BY <1>1, <1>2

LEMMA Invariance ==
  ASSUME None \notin Identities
  PROVE  AccountsSpec => [](Fits /\ PasskeyRemains)
<1>1. (Fits /\ PasskeyRemains) /\ [AccountsNext]_vars => (Fits /\ PasskeyRemains)'
  BY InvariantStep
<1> QED
  BY <1>1, InitInv, PTL DEF AccountsSpec

(* Identities, passwords and passkeys fit together in every state: an SSO    *)
(* identity signs in to one account (linkOidcIdentity, upsertOidcUser).      *)
THEOREM IdentitiesStayFit ==
  ASSUME None \notin Identities
  PROVE  AccountsSpec => []IdentitiesFit
<1>1. Fits /\ PasskeyRemains => IdentitiesFit
  BY DEF Fits
<1> QED
  BY <1>1, Invariance, PTL

(* While passkeys are the only way to sign in, an administrator has one      *)
(* (wouldLockOutAdministrators), unless a deletion overtook a promotion.     *)
THEOREM PasskeyAlwaysRemains ==
  ASSUME None \notin Identities
  PROVE  AccountsSpec => []PasskeyRemains
<1>1. Fits /\ PasskeyRemains => PasskeyRemains
  OBVIOUS
<1> QED
  BY <1>1, Invariance, PTL

(* Nothing an administrator or an account holder does takes the last active  *)
(* administrator away (isLastActiveAdmin, wouldUnlinkRemoveLastAdmin).       *)
THEOREM AdminAlwaysRemains ==
  ASSUME None \notin Identities
  PROVE  AccountsSpec => AdminRemains
<1>1. (Fits /\ PasskeyRemains) /\ [AccountsNext]_vars =>
        [Setup \/ ByAdministrator \/ ByHolder => (SomeActiveAdmin => SomeActiveAdmin')]_vars
  BY AdminStep
<1> QED
  BY <1>1, Invariance, PTL DEF AccountsSpec, AdminRemains

(* A disabled account keeps its identity and stays disabled until an         *)
(* administrator changes it (linkOidcIdentity, DELETE /oidc/link).           *)
THEOREM DisabledAlwaysStaysOut ==
  ASSUME None \notin Identities
  PROVE  AccountsSpec => DisabledStaysOut
<1>1. (Fits /\ PasskeyRemains) /\ [AccountsNext]_vars =>
        [\A u \in Ids, i \in Identities :
            Owns(u, i) /\ users[u].disabled /\ ~ByAdministrator
                => Owns(u, i)' /\ users'[u].disabled]_vars
  BY DisabledStep
<1> QED
  BY <1>1, Invariance, PTL DEF AccountsSpec, DisabledStaysOut
=============================================================================
