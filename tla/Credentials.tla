---------------------------- MODULE Credentials ----------------------------
(***************************************************************************)
(* What lets a request in: access tokens, the refresh tokens they are      *)
(* renewed with, and API keys.                                             *)
(*                                                                         *)
(* Tokens are signed and never recorded, so nothing but time ends one.     *)
(* The platform administrator has tokens and no row in the users table.    *)
(***************************************************************************)
EXTENDS Naturals, FiniteSets

CONSTANTS
    Members,     \* users with a row
    Admin,       \* the administrator of the environment variables
    ApiKeys,
    Writers,     \* requests that create or revoke an API key
    AccessLife,  \* JWT_ACCESS_TOKEN_EXPIRE_MINUTES
    RefreshLife, \* JWT_REFRESH_TOKEN_EXPIRE_DAYS
    Horizon,     \* bounds the clock
    MaxTokens    \* bounds the tokens that are kept

ASSUME SubjectsAssumption == Admin \notin Members
ASSUME LivesAssumption == AccessLife \in Nat /\ RefreshLife \in Nat /\ Horizon \in Nat
                        /\ MaxTokens \in Nat

VARIABLES
    now,         \* the clock
    tokens,      \* tokens somebody holds
    activeUsers, \* users with is_active
    lastAccess,  \* history: the last access token a request was let in with, and when
    keyRow,      \* the committed row of each API key
    keyPc,       \* where each writer is
    keyOf,       \* the key and the operation each writer is about
    revokedKeys  \* history: keys whose revocation was answered with success

credentialVars ==
    <<now, tokens, activeUsers, lastAccess, keyRow, keyPc, keyOf, revokedKeys>>

Subjects == Members \cup {Admin}

\* `login` is history: when a password was last asked for.
Token == [kind : {"access", "refresh"}, sub : Subjects,
          exp : 0..Horizon + AccessLife + RefreshLife, login : 0..Horizon]

CredentialInit ==
    /\ now = 0 /\ tokens = {}
    /\ activeUsers = Members
    /\ lastAccess = {}
    /\ keyRow = [k \in ApiKeys |-> "absent"]
    /\ keyPc = [w \in Writers |-> "idle"]
    /\ keyOf = [w \in Writers |-> {}]
    /\ revokedKeys = {}

keyVars == <<keyRow, keyPc, keyOf, revokedKeys>>
tokenVars == <<now, tokens, activeUsers, lastAccess>>

AccessToken(s, login) ==
    [kind |-> "access", sub |-> s, exp |-> now + AccessLife, login |-> login]
RefreshToken(s) ==
    [kind |-> "refresh", sub |-> s, exp |-> now + RefreshLife, login |-> now]

\* MaxTokens: room for what is issued.
Issue(new) ==
    /\ Cardinality(tokens \cup new) <= MaxTokens
    /\ tokens' = tokens \cup new

\* decode_access_token and decode_refresh_token: the type and the time; a token
\* is good in the second in which it expires.
Decodes(t, kind) == t.kind = kind /\ now <= t.exp

\* get_by_id of the users table.
HasRow(s) == s \in Members

\* A user who is inactive is refused before the password is looked at.
Login(u) ==
    /\ u \in activeUsers
    /\ Issue({AccessToken(u, now), RefreshToken(u)})
    /\ UNCHANGED <<now, activeUsers, lastAccess, keyVars>>

AdminLogin ==
    /\ Issue({AccessToken(Admin, now), RefreshToken(Admin)})
    /\ UNCHANGED <<now, activeUsers, lastAccess, keyVars>>

RefreshWithoutRow(t) ==
    /\ Decodes(t, "refresh")
    /\ HasRow(t.sub) => t.sub \in activeUsers
    /\ Issue({AccessToken(t.sub, t.login)})
    /\ UNCHANGED <<now, activeUsers, lastAccess, keyVars>>

\* The refresh token stays what it is, and can be used again.
Refresh(t) ==
    /\ Decodes(t, "refresh")
    /\ HasRow(t.sub) /\ t.sub \in activeUsers
    /\ Issue({AccessToken(t.sub, t.login)})
    /\ UNCHANGED <<now, activeUsers, lastAccess, keyVars>>

\* get_current_user: an administrator's token needs no row.
Access(t) ==
    /\ Decodes(t, "access")
    /\ HasRow(t.sub) => t.sub \in activeUsers
    /\ lastAccess' = {[sub |-> t.sub, at |-> now, login |-> t.login]}
    /\ UNCHANGED <<now, tokens, activeUsers, keyVars>>

\* No endpoint commits a suspension or its end; an operator of the database may.
SetActive(u) ==
    /\ activeUsers' \in {activeUsers \cup {u}, activeUsers \ {u}}
    /\ UNCHANGED <<now, tokens, lastAccess, keyVars>>

\* The cookie is deleted; tokens are also lost.
Logout(t) ==
    /\ tokens' = tokens \ {t}
    /\ UNCHANGED <<now, activeUsers, lastAccess, keyVars>>

\* An expired token need not be remembered.
Tick ==
    /\ now < Horizon
    /\ now' = now + 1
    /\ tokens' = { t \in tokens : t.exp > now }
    /\ UNCHANGED <<activeUsers, lastAccess, keyVars>>

TokenNext ==
    \/ \E u \in Members : Login(u) \/ SetActive(u)
    \/ AdminLogin
    \/ \E t \in tokens : Refresh(t) \/ Access(t) \/ Logout(t)
    \/ Tick

-----------------------------------------------------------------------------

\* The user is looked up and belongs to the enterprise.  A new key has an
\* identifier nobody has seen.
BeginKey(w, k, op) ==
    /\ keyPc[w] = "idle"
    /\ op = "create" => keyRow[k] = "absent" /\ \A v \in Writers : [key |-> k, op |-> "create"] \notin keyOf[v]
    /\ keyPc' = [keyPc EXCEPT ![w] = "write"]
    /\ keyOf' = [keyOf EXCEPT ![w] = {[key |-> k, op |-> op]}]
    /\ UNCHANGED <<tokenVars, keyRow, revokedKeys>>

\* save, or revoke, which raises for a key that has no row; the flush.
WriteKey(w) ==
    /\ keyPc[w] = "write"
    /\ \E o \in keyOf[w] :
          keyPc' = [keyPc EXCEPT ![w] =
                      IF o.op = "revoke" /\ keyRow[o.key] = "absent" THEN "done" ELSE "commit"]
    /\ UNCHANGED <<tokenVars, keyRow, keyOf, revokedKeys>>

\* The commit and the answer.
CommitKey(w) ==
    /\ keyPc[w] = "commit"
    /\ \E o \in keyOf[w] :
          /\ keyRow' = [keyRow EXCEPT ![o.key] = IF o.op = "create" THEN "active" ELSE "revoked"]
          /\ revokedKeys' = IF o.op = "revoke" THEN revokedKeys \cup {o.key} ELSE revokedKeys
    /\ keyPc' = [keyPc EXCEPT ![w] = "done"]
    /\ UNCHANGED <<tokenVars, keyOf>>

KeyFails(w) ==
    /\ keyPc[w] \in {"write", "commit"}
    /\ keyPc' = [keyPc EXCEPT ![w] = "done"]
    /\ UNCHANGED <<tokenVars, keyRow, keyOf, revokedKeys>>

KeyNext ==
    \E w \in Writers :
         \/ \E k \in ApiKeys, op \in {"create", "revoke"} : BeginKey(w, k, op)
         \/ WriteKey(w) \/ CommitKey(w) \/ KeyFails(w)

CredentialNext == TokenNext \/ KeyNext

CredentialSpec == CredentialInit /\ [][CredentialNext]_credentialVars

-----------------------------------------------------------------------------

\* Whoever is let in has given a password at most one refresh token and one
\* access token ago, however often and however late tokens were renewed, and the
\* administrator one access token ago: the users table has no row for the
\* administrator's refresh cookie (jwt_service.py:90-125, services.py:176-213,
\* 265-294).
AccessBounded ==
    \A a \in lastAccess :
       a.at - a.login <= IF a.sub = Admin THEN AccessLife ELSE RefreshLife + AccessLife

\* A key whose revocation was answered with success does not come back, whatever
\* other requests about it do (services.py:407-425).
RevokedForGood == \A k \in revokedKeys : keyRow[k] = "revoked"
=============================================================================
