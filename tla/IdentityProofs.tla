--------------------------- MODULE IdentityProofs ---------------------------
(***************************************************************************)
(* Proofs about Registration, Credentials, Account and WalletLink, for any *)
(* number of requests, forms, users, keys, enterprises and addresses.      *)
(***************************************************************************)
EXTENDS Registration, Credentials, Account, WalletLink, TLAPS

-----------------------------------------------------------------------------
(* Registration.                                                           *)

\* While a transaction inserts, it has the entries of the keys behind it; what
\* it has is nobody else's, committed or not.
RegistrationInv ==
    /\ RegistrationTypeOK
    /\ EnterpriseHasUser
    /\ \A r \in Registrants : regPc[r] = "answer" => r \in users
    /\ \A r \in Registrants : regPc[r] = "insert" =>
          \A i \in 1..regAt[r] : KeyOrder[i] \in held[r]
    /\ \A k \in Keys : \A q, r \in Registrants :
          k \in held[q] /\ k \in held[r] /\ form[q][k] = form[r][k] => q = r
    /\ \A k \in Keys : \A r \in Registrants : \A q \in users :
          k \in held[r] => form[q][k] # form[r][k]
    /\ \A k \in Keys : \A q, r \in users : form[q][k] = form[r][k] => q = r

\* The three keys are the ones the look-ups and the index entries go through.
LEMMA KeyOrderIsKeys ==
    /\ Len(KeyOrder) = 3
    /\ \A i \in 1..3 : KeyOrder[i] \in Keys
    /\ \A k \in Keys : \E i \in 1..3 : KeyOrder[i] = k
<1>1. KeyOrder[1] = "pan" /\ KeyOrder[2] = "gstin" /\ KeyOrder[3] = "email" /\ Len(KeyOrder) = 3
  BY DEF KeyOrder
<1>2. QED
  BY <1>1 DEF Keys

\* With as many users as enterprises, a value is taken when a user's form has it.
LEMMA TakenByUser ==
    ASSUME EnterpriseHasUser, NEW k \in Keys, NEW v
    PROVE  Taken(k, v) <=> \E q \in users : form[q][k] = v
BY DEF EnterpriseHasUser, Taken, Owners

\* A request that ends without a commit gives back what it had.
LEMMA AbortKeeps ==
    ASSUME RegistrationInv, NEW r \in Registrants, RegisterAborts(r)
    PROVE  RegistrationInv'
<1>1. held' \in [Registrants -> SUBSET Keys] /\ \A q \in Registrants : held'[q] \subseteq held[q]
  BY DEF RegistrationInv, RegistrationTypeOK, RegisterAborts
<1>2. \A q \in Registrants : regPc'[q] \in {"insert", "answer"} =>
         regPc'[q] = regPc[q] /\ regAt'[q] = regAt[q] /\ held'[q] = held[q]
  BY DEF RegistrationInv, RegistrationTypeOK, RegisterAborts, RegisterGoes
<1>3. RegistrationTypeOK'
  BY <1>1, KeyOrderIsKeys DEF RegistrationInv, RegistrationTypeOK, RegisterAborts, RegisterGoes
<1>4. UNCHANGED <<form, enterprises, users, registered>>
  BY DEF RegisterAborts
<1>5. QED
  BY <1>1, <1>2, <1>3, <1>4 DEF RegistrationInv, EnterpriseHasUser

\* The next index entry is of a value nobody else has inserted.
LEMMA InsertKeeps ==
    ASSUME RegistrationInv, NEW r \in Registrants, InsertAccount(r)
    PROVE  RegistrationInv'
<1>1. CASE RegisterAborts(r)
  BY <1>1, AbortKeeps
<1>2. CASE ~Taken(NextKey(r), form[r][NextKey(r)])
  <2> DEFINE k == NextKey(r)
  <2>1. /\ ~InDoubt(r, k) /\ held' = [held EXCEPT ![r] = @ \cup {k}]
        /\ regAt' = [regAt EXCEPT ![r] = @ + 1]
        /\ UNCHANGED <<form, regPc, enterprises, users, registered>>
    BY <1>2 DEF InsertAccount, RegisterAborts, RegisterGoes
  <2>2. regAt[r] \in 0..2 /\ k = KeyOrder[regAt[r] + 1] /\ k \in Keys
    BY KeyOrderIsKeys DEF InsertAccount, Through, NextKey, RegistrationInv, RegistrationTypeOK
  <2>3. RegistrationTypeOK'
    BY <2>1, <2>2, KeyOrderIsKeys DEF RegistrationInv, RegistrationTypeOK
  <2>4. \A q \in users : form[q][k] # form[r][k]
    BY <1>2, <2>2, TakenByUser DEF RegistrationInv
  <2>5. \A q \in Registrants \ {r} : k \in held[q] => form[q][k] # form[r][k]
    BY <2>1 DEF InDoubt
  <2>6. \A q \in Registrants : held'[q] = IF q = r THEN held[r] \cup {k} ELSE held[q]
    BY <2>1 DEF RegistrationInv, RegistrationTypeOK
  <2>7. \A q \in Registrants : regPc'[q] = "insert" =>
           \A i \in 1..regAt'[q] : KeyOrder[i] \in held'[q]
    <3>1. \A i \in 1..regAt'[r] : i \in 1..regAt[r] \/ KeyOrder[i] = k
      BY <2>1, <2>2 DEF RegistrationInv, RegistrationTypeOK
    <3>2. regPc[r] = "insert"
      BY DEF InsertAccount
    <3>3. QED
      BY <2>1, <2>6, <3>1, <3>2 DEF RegistrationInv, RegistrationTypeOK
  <2>8. \A j \in Keys : \A p, q \in Registrants :
           j \in held'[p] /\ j \in held'[q] /\ form[p][j] = form[q][j] => p = q
    BY <2>5, <2>6 DEF RegistrationInv
  <2>9. \A j \in Keys : \A p \in Registrants : \A q \in users :
           j \in held'[p] => form[q][j] # form[p][j]
    BY <2>4, <2>6 DEF RegistrationInv
  <2>10. QED
    BY <2>1, <2>3, <2>7, <2>8, <2>9 DEF RegistrationInv, EnterpriseHasUser
<1>3. QED
  BY <1>1, <1>2 DEF InsertAccount

\* A commit has the entries of all three keys, so nobody shares one.
LEMMA CommitAccountKeeps ==
    ASSUME RegistrationInv, NEW r \in Registrants, CommitAccount(r)
    PROVE  RegistrationInv'
<1>1. \A k \in Keys : k \in held[r]
  BY KeyOrderIsKeys DEF RegistrationInv, CommitAccount, Through
<1>2. /\ users' = users \cup {r} /\ enterprises' = enterprises \cup {r}
      /\ UNCHANGED <<form, registered>>
  BY DEF CommitAccount
<1>3. \A q \in Registrants : held'[q] = IF q = r THEN {} ELSE held[q]
  BY DEF CommitAccount, RegistrationInv, RegistrationTypeOK
<1>4. \A q \in Registrants : q # r => regPc'[q] = regPc[q] /\ regAt'[q] = regAt[q]
  BY DEF CommitAccount, RegisterGoes, RegistrationInv, RegistrationTypeOK
<1>5. regPc'[r] = "answer"
  BY DEF CommitAccount, RegisterGoes, RegistrationInv, RegistrationTypeOK
<1>6. RegistrationTypeOK'
  BY KeyOrderIsKeys DEF CommitAccount, RegisterGoes, RegistrationInv, RegistrationTypeOK
<1>7. \A k \in Keys : \A p, q \in users' : form[p][k] = form[q][k] => p = q
  BY <1>1, <1>2 DEF RegistrationInv
<1>8. \A k \in Keys : \A p \in Registrants : \A q \in users' :
         k \in held'[p] => form[q][k] # form[p][k]
  BY <1>1, <1>2, <1>3 DEF RegistrationInv
<1>9. \A q \in Registrants : regPc'[q] = "insert" =>
         \A i \in 1..regAt'[q] : KeyOrder[i] \in held'[q]
  BY <1>3, <1>4, <1>5 DEF RegistrationInv
<1>10. \A q \in Registrants : regPc'[q] = "answer" => q \in users'
  BY <1>2, <1>4 DEF RegistrationInv
<1>11. \A j \in Keys : \A p, q \in Registrants :
         j \in held'[p] /\ j \in held'[q] /\ form[p][j] = form[q][j] => p = q
  BY <1>3 DEF RegistrationInv
<1>12. EnterpriseHasUser'
  BY <1>2 DEF RegistrationInv, EnterpriseHasUser
<1>13. QED
  BY <1>2, <1>6, <1>7, <1>8, <1>9, <1>10, <1>11, <1>12 DEF RegistrationInv

\* The other steps only move one request on.
LEMMA RegisterMoves ==
    ASSUME RegistrationInv, NEW r \in Registrants,
           BeginRegister(r) \/ LookFor(r) \/ BuildAccount(r) \/ AnswerRegister(r)
    PROVE  RegistrationInv'
<1>1. CASE RegisterAborts(r)
  BY <1>1, AbortKeeps
<1>2. CASE ~RegisterAborts(r)
  <2>1. UNCHANGED <<form, held, enterprises, users>>
    BY <1>2 DEF BeginRegister, LookFor, BuildAccount, AnswerRegister
  <2>2. RegistrationTypeOK'
    BY <1>2, KeyOrderIsKeys DEF BeginRegister, LookFor, BuildAccount, AnswerRegister, RegisterGoes,
       Through, RegistrationInv, RegistrationTypeOK
  <2>3. \A q \in Registrants : q # r => regPc'[q] = regPc[q] /\ regAt'[q] = regAt[q]
    BY <1>2 DEF BeginRegister, LookFor, BuildAccount, AnswerRegister, RegisterGoes,
       RegistrationInv, RegistrationTypeOK
  <2>4. regPc'[r] # "answer" /\ (regPc'[r] = "insert" => regAt'[r] = 0)
    BY <1>2 DEF BeginRegister, LookFor, BuildAccount, AnswerRegister, RegisterGoes,
       RegistrationInv, RegistrationTypeOK
  <2>5. EnterpriseHasUser'
    BY <1>2 DEF BeginRegister, LookFor, BuildAccount, AnswerRegister, EnterpriseHasUser,
       RegistrationInv
  <2>6. QED
    BY <2>1, <2>2, <2>3, <2>4, <2>5 DEF RegistrationInv
<1>3. QED
  BY <1>1, <1>2

\* RegistrationInv is an invariant.
THEOREM RegistrationInductive == RegistrationSpec => []RegistrationInv
<1>1. RegistrationInit => RegistrationInv
  BY KeyOrderIsKeys DEF RegistrationInit, RegistrationInv, RegistrationTypeOK, EnterpriseHasUser
<1>2. RegistrationInv /\ [RegistrationNext]_registrationVars => RegistrationInv'
  <2> SUFFICES ASSUME RegistrationInv, [RegistrationNext]_registrationVars
               PROVE  RegistrationInv'
    OBVIOUS
  <2>1. CASE UNCHANGED registrationVars
    BY <2>1 DEF registrationVars, RegistrationInv, RegistrationTypeOK, EnterpriseHasUser
  <2>2. CASE RegistrationNext
    BY <2>2, AbortKeeps, InsertKeeps, CommitAccountKeeps, RegisterMoves
       DEF RegistrationNext, RegisterAdvances, RegisterFails
  <2>3. QED
    BY <2>1, <2>2
<1>3. QED
  BY <1>1, <1>2, PTL DEF RegistrationSpec

\* However many registrations overlap, no two accounts share a PAN, a GSTIN or
\* an e-mail address.
THEOREM AccountsAreUnique == RegistrationSpec => []OneAccountPerKey
<1>1. RegistrationInv => OneAccountPerKey
  BY DEF RegistrationInv, OneAccountPerKey, Owners, EnterpriseHasUser
<1>2. QED
  BY <1>1, RegistrationInductive, PTL

\* Every enterprise has its first user, and whoever holds tokens has both.
THEOREM UsersComeWithEnterprises == RegistrationSpec => []EnterpriseHasUser
<1>1. RegistrationInv => EnterpriseHasUser
  BY DEF RegistrationInv
<1>2. QED
  BY <1>1, RegistrationInductive, PTL

-----------------------------------------------------------------------------
(* Credentials.                                                            *)

\* How late a token lets its holder in, reckoned from the password.
TokenInv ==
    /\ now \in Nat
    /\ activeUsers \subseteq Members
    /\ \A t \in tokens :
          /\ t.kind \in {"access", "refresh"}
          /\ t.sub \in Subjects /\ t.login \in Nat /\ t.exp \in Nat
          /\ t.kind = "refresh" => t.exp = t.login + RefreshLife
          /\ t.kind = "access" =>
                t.exp <= t.login + (IF t.sub = Admin THEN AccessLife ELSE RefreshLife + AccessLife)
    /\ \A a \in lastAccess :
          /\ a.at \in Nat /\ a.login \in Nat
          /\ a.at <= a.login + (IF a.sub = Admin THEN AccessLife ELSE RefreshLife + AccessLife)

\* Each step that has to do with tokens keeps the invariant.
LEMMA TokenStep ==
    ASSUME TokenInv, TokenNext
    PROVE  TokenInv'
<1> USE LivesAssumption, SubjectsAssumption
<1>1. ASSUME NEW u \in Members, Login(u)
      PROVE  TokenInv'
  BY <1>1 DEF Login, Issue, AccessToken, RefreshToken, TokenInv, Subjects
<1>2. ASSUME NEW u \in Members, SetActive(u)
      PROVE  TokenInv'
  BY <1>2 DEF SetActive, TokenInv
<1>3. ASSUME AdminLogin
      PROVE  TokenInv'
  BY <1>3 DEF AdminLogin, Issue, AccessToken, RefreshToken, TokenInv, Subjects
<1>4. ASSUME NEW t \in tokens, Refresh(t)
      PROVE  TokenInv'
  <2>1. t.sub \in Members /\ t.sub # Admin /\ now + AccessLife <= t.login + RefreshLife + AccessLife
    BY <1>4 DEF Refresh, Decodes, HasRow, TokenInv
  <2>2. tokens' = tokens \cup {AccessToken(t.sub, t.login)}
        /\ UNCHANGED <<now, activeUsers, lastAccess>>
    BY <1>4 DEF Refresh, Issue
  <2>3. QED
    BY <2>1, <2>2 DEF AccessToken, TokenInv, Subjects
<1>5. ASSUME NEW t \in tokens, Access(t)
      PROVE  TokenInv'
  BY <1>5 DEF Access, Decodes, HasRow, TokenInv
<1>6. ASSUME NEW t \in tokens, Logout(t)
      PROVE  TokenInv'
  BY <1>6 DEF Logout, TokenInv
<1>7. ASSUME Tick
      PROVE  TokenInv'
  BY <1>7 DEF Tick, TokenInv
<1>8. QED
  BY <1>1, <1>2, <1>3, <1>4, <1>5, <1>6, <1>7 DEF TokenNext

\* A key has one creator, who finds it without a row; a revocation about to
\* commit finds it with one, and rows stay.
KeyInv ==
    /\ keyRow \in [ApiKeys -> {"absent", "active", "revoked"}]
    /\ keyPc \in [Writers -> {"idle", "write", "commit", "done"}]
    /\ keyOf \in [Writers -> SUBSET [key : ApiKeys, op : {"create", "revoke"}]]
    /\ revokedKeys \subseteq ApiKeys
    /\ \A w \in Writers : \A o, p \in keyOf[w] : o = p
    /\ \A v, w \in Writers : \A o \in keyOf[v] : o \in keyOf[w] /\ o.op = "create" => v = w
    /\ \A w \in Writers : \A o \in keyOf[w] :
          /\ keyPc[w] \in {"write", "commit"} /\ o.op = "create" => keyRow[o.key] = "absent"
          /\ keyPc[w] = "commit" /\ o.op = "revoke" => keyRow[o.key] # "absent"
    /\ RevokedForGood

\* A new request about a key: a creator is the first of its key.
LEMMA BeginKeyKeeps ==
    ASSUME KeyInv, NEW w \in Writers, NEW k \in ApiKeys, NEW op \in {"create", "revoke"},
           BeginKey(w, k, op)
    PROVE  KeyInv'
<1> DEFINE o == [key |-> k, op |-> op]
<1>1. /\ \A v \in Writers : keyOf'[v] = IF v = w THEN {o} ELSE keyOf[v]
      /\ \A v \in Writers : keyPc'[v] = IF v = w THEN "write" ELSE keyPc[v]
      /\ UNCHANGED <<keyRow, revokedKeys>>
  BY DEF KeyInv, BeginKey
<1>2. op = "create" => keyRow[k] = "absent" /\ \A v \in Writers : o \notin keyOf[v]
  BY DEF BeginKey
<1>3. o \in [key : ApiKeys, op : {"create", "revoke"}] /\ o.key = k /\ o.op = op
  OBVIOUS
<1>4. keyPc' \in [Writers -> {"idle", "write", "commit", "done"}]
      /\ keyOf' \in [Writers -> SUBSET [key : ApiKeys, op : {"create", "revoke"}]]
  BY <1>3 DEF KeyInv, BeginKey
<1> HIDE DEF o
<1>5. QED
  BY <1>1, <1>2, <1>3, <1>4 DEF KeyInv, RevokedForGood

\* A commit: the row of a created key was absent, so it is not one of those
\* revoked; that of a revoked one was there, so nobody is creating it.
LEMMA CommitKeyKeeps ==
    ASSUME KeyInv, NEW w \in Writers, CommitKey(w)
    PROVE  KeyInv'
<1>1. PICK o \in keyOf[w] :
         /\ keyRow' = [keyRow EXCEPT ![o.key] = IF o.op = "create" THEN "active" ELSE "revoked"]
         /\ revokedKeys' = IF o.op = "revoke" THEN revokedKeys \cup {o.key} ELSE revokedKeys
  BY DEF CommitKey
<1>2. o.key \in ApiKeys /\ o.op \in {"create", "revoke"}
  BY DEF KeyInv
<1>3. UNCHANGED keyOf /\ keyPc' = [keyPc EXCEPT ![w] = "done"] /\ keyPc[w] = "commit"
  BY DEF CommitKey
<1>4. \A v \in Writers : keyPc'[v] = IF v = w THEN "done" ELSE keyPc[v]
  BY <1>3 DEF KeyInv
<1>5. \A k \in ApiKeys : keyRow'[k] =
         IF k = o.key THEN IF o.op = "create" THEN "active" ELSE "revoked" ELSE keyRow[k]
  BY <1>1, <1>2 DEF KeyInv
<1>6. \A v \in Writers \ {w} : \A p \in keyOf[v] :
         p.key \in ApiKeys /\ p.op \in {"create", "revoke"}
         /\ (keyPc[v] \in {"write", "commit"} /\ p.op = "create" => p.key # o.key)
  <2> SUFFICES ASSUME NEW v \in Writers \ {w}, NEW p \in keyOf[v],
                      keyPc[v] \in {"write", "commit"}, p.op = "create", p.key = o.key
               PROVE  FALSE
    BY DEF KeyInv
  <2>1. keyRow[o.key] = "absent"
    BY DEF KeyInv
  <2>2. o.op = "create"
    BY <1>2, <1>3, <2>1 DEF KeyInv
  <2>3. o \in [key : ApiKeys, op : {"create", "revoke"}] /\ p \in [key : ApiKeys, op : {"create", "revoke"}]
    BY DEF KeyInv
  <2>4. o = p
    BY <2>2, <2>3
  <2>5. QED
    BY <2>2, <2>4 DEF KeyInv
<1>7. RevokedForGood'
  BY <1>1, <1>2, <1>3, <1>5 DEF KeyInv, RevokedForGood
<1>8. \A v \in Writers : \A p \in keyOf'[v] :
         /\ keyPc'[v] \in {"write", "commit"} /\ p.op = "create" => keyRow'[p.key] = "absent"
         /\ keyPc'[v] = "commit" /\ p.op = "revoke" => keyRow'[p.key] # "absent"
  BY <1>3, <1>4, <1>5, <1>6 DEF KeyInv
<1>9. /\ keyRow' \in [ApiKeys -> {"absent", "active", "revoked"}]
      /\ keyPc' \in [Writers -> {"idle", "write", "commit", "done"}]
      /\ revokedKeys' \subseteq ApiKeys
  BY <1>1, <1>2, <1>3 DEF KeyInv
<1>10. QED
  BY <1>3, <1>7, <1>8, <1>9 DEF KeyInv

\* The step before a commit, and a failure.
LEMMA KeyMoves ==
    ASSUME KeyInv, NEW w \in Writers, WriteKey(w) \/ KeyFails(w)
    PROVE  KeyInv'
<1>1. UNCHANGED <<keyRow, keyOf, revokedKeys>>
  BY DEF WriteKey, KeyFails
<1>2. keyPc' \in [Writers -> {"idle", "write", "commit", "done"}]
      /\ \A v \in Writers \ {w} : keyPc'[v] = keyPc[v]
  BY DEF WriteKey, KeyFails, KeyInv
<1>3. keyPc'[w] \notin {"write", "idle"} /\ (keyPc'[w] = "commit" => keyPc[w] = "write" /\
         \A o \in keyOf[w] : o.op = "revoke" => keyRow[o.key] # "absent")
  <2>1. CASE WriteKey(w)
    <3>1. PICK o \in keyOf[w] : keyPc' = [keyPc EXCEPT ![w] =
             IF o.op = "revoke" /\ keyRow[o.key] = "absent" THEN "done" ELSE "commit"]
      BY <2>1 DEF WriteKey
    <3>2. \A p \in keyOf[w] : p = o
      BY DEF KeyInv
    <3>3. QED
      BY <2>1, <3>1, <3>2 DEF WriteKey, KeyInv
  <2>2. CASE KeyFails(w)
    BY <2>2 DEF KeyFails, KeyInv
  <2>3. QED
    BY <2>1, <2>2
<1>4. QED
  BY <1>1, <1>2, <1>3 DEF KeyInv, RevokedForGood

\* Both invariants, of a specification whose steps are of one kind or the other.
THEOREM CredentialInductive == CredentialSpec => [](TokenInv /\ KeyInv)
<1>1. CredentialInit => TokenInv /\ KeyInv
  BY LivesAssumption DEF CredentialInit, TokenInv, KeyInv, RevokedForGood
<1>2. TokenInv /\ KeyInv /\ [CredentialNext]_credentialVars => (TokenInv /\ KeyInv)'
  <2> SUFFICES ASSUME TokenInv, KeyInv, [CredentialNext]_credentialVars
               PROVE  (TokenInv /\ KeyInv)'
    OBVIOUS
  <2>1. CASE TokenNext
    <3>1. UNCHANGED keyVars
      BY <2>1 DEF TokenNext, Login, AdminLogin, SetActive, Refresh, Access, Logout, Tick
    <3>2. QED
      BY <2>1, <3>1, TokenStep DEF keyVars, KeyInv, RevokedForGood
  <2>2. CASE KeyNext
    <3>1. UNCHANGED tokenVars
      BY <2>2 DEF KeyNext, BeginKey, WriteKey, CommitKey, KeyFails
    <3>2. TokenInv'
      BY <3>1 DEF tokenVars, TokenInv
    <3>3. KeyInv'
      BY <2>2, BeginKeyKeeps, CommitKeyKeeps, KeyMoves DEF KeyNext
    <3>4. QED
      BY <3>2, <3>3
  <2>3. CASE UNCHANGED credentialVars
    BY <2>3 DEF credentialVars, TokenInv, KeyInv, RevokedForGood
  <2>4. QED
    BY <2>1, <2>2, <2>3 DEF CredentialNext
<1>3. QED
  BY <1>1, <1>2, PTL DEF CredentialSpec

\* However often tokens are renewed, nobody is let in later than one refresh
\* token and one access token after a password, the administrator one access
\* token after it.
THEOREM AccessIsBounded == CredentialSpec => []AccessBounded
<1>1. TokenInv => AccessBounded
  BY LivesAssumption DEF TokenInv, AccessBounded
<1>2. QED
  BY <1>1, CredentialInductive, PTL

\* A revoked key does not come back.
THEOREM RevocationStands == CredentialSpec => []RevokedForGood
<1>1. KeyInv => RevokedForGood
  BY DEF KeyInv
<1>2. QED
  BY <1>1, CredentialInductive, PTL

-----------------------------------------------------------------------------
(* Account.                                                                *)

\* A request that no commit has overtaken has the committed row before it, and
\* after its change that row changed as the aggregate says.
AccountInv ==
    /\ AccountTypeOK
    /\ \A r \in Editors : editPc[r] \in {"loaded", "update", "flushed"} => edit[r] \in Edits
    /\ \A r \in Editors \ overtaken : editPc[r] = "loaded" => copy[r] = row
    /\ \A r \in Editors \ overtaken : editPc[r] \in {"update", "flushed"} =>
          /\ Allowed(edit[r], row)
          /\ copy[r] = Changed(r, edit[r], row)
          /\ dirty[r] = { c \in Columns : copy[r][c] # row[c] }

\* A change gives a row.
LEMMA ChangedIsRow ==
    ASSUME NEW r \in Editors, NEW e \in Edits, NEW c \in Row
    PROVE  Changed(r, e, c) \in Row
<1>1. /\ [c EXCEPT !.kyc = "KYC_SUBMITTED", !.docs = r] \in Row
      /\ [c EXCEPT !.kyc = "ACTIVE"] \in Row /\ [c EXCEPT !.kyc = "PENDING"] \in Row
      /\ [c EXCEPT !.wallet = r] \in Row /\ [c EXCEPT !.wallet = Unset] \in Row
      /\ [c EXCEPT !.config = r] \in Row
  BY DEF Row, KycStatus
<1>2. QED
  BY <1>1 DEF Changed, Edits, ServiceEdits, AdminActions

\* Writing the columns in which two rows differ makes one of the other.
LEMMA DirtyColumnsMakeTheCopy ==
    ASSUME NEW c \in Row, NEW d \in Row
    PROVE  [k \in Columns |-> IF k \in {j \in Columns : d[j] # c[j]} THEN d[k] ELSE c[k]] = d
<1>1. d = [k \in Columns |-> d[k]]
  BY DEF Row, Columns
<1>2. QED
  BY <1>1

\* A request of its own load or change, and the steps that leave the row alone.
LEMMA AccountKeeps ==
    ASSUME AccountInv, NEW r \in Editors,
           \/ \E e \in Edits : ReadAccount(r, e)
           \/ ChangeAccount(r) \/ FlushAccount(r) \/ AdminAnswered(r) \/ EditFails(r)
    PROVE  AccountInv' /\ UNCHANGED row
<1>1. ASSUME NEW e \in Edits, ReadAccount(r, e)
      PROVE  AccountInv' /\ UNCHANGED row
  BY <1>1 DEF ReadAccount, AccountInv, AccountTypeOK, Loaded
<1>2. CASE ChangeAccount(r) /\ ~Allowed(edit[r], copy[r])
  BY <1>2 DEF ChangeAccount, EditCloses, AccountInv, AccountTypeOK
<1>3. CASE ChangeAccount(r) /\ Allowed(edit[r], copy[r])
  <2> DEFINE new == Changed(r, edit[r], copy[r])
             seen == IF edit[r] \in AdminActions THEN copy[r] ELSE row
  <2>1. /\ editPc[r] = "loaded" /\ edit[r] \in Edits
        /\ copy' = [copy EXCEPT ![r] = new]
        /\ editPc' = [editPc EXCEPT ![r] = "update"]
        /\ UNCHANGED <<row, rowHolder, edit, overtaken, informed>>
    BY <1>3 DEF ChangeAccount, AccountInv
  <2>2. new \in Row /\ row \in Row
    BY <2>1, ChangedIsRow DEF AccountInv, AccountTypeOK
  <2>3. \A q \in Editors : copy'[q] = IF q = r THEN new ELSE copy[q]
    BY <2>1 DEF AccountInv, AccountTypeOK
  <2>4. dirty' = [dirty EXCEPT ![r] = { c \in Columns : new[c] # seen[c] }]
    BY <1>3, <2>3 DEF ChangeAccount
  <2> HIDE DEF new
  <2>5. AccountTypeOK'
    BY <2>1, <2>2, <2>4 DEF AccountInv, AccountTypeOK
  <2>6. r \notin overtaken => copy[r] = row
    BY <2>1 DEF AccountInv
  <2>7. r \notin overtaken => Allowed(edit[r], row) /\ new = Changed(r, edit[r], row) /\ seen = row
    BY <1>3, <2>6 DEF new
  <2>8. \A q \in Editors \ {r} : editPc'[q] = editPc[q] /\ dirty'[q] = dirty[q]
    BY <2>1, <2>4 DEF AccountInv, AccountTypeOK
  <2>9. editPc'[r] = "update" /\ dirty'[r] = { c \in Columns : new[c] # seen[c] }
    BY <2>1, <2>4 DEF AccountInv, AccountTypeOK
  <2> HIDE DEF seen
  <2>10. QED
    BY <2>1, <2>3, <2>5, <2>7, <2>8, <2>9 DEF AccountInv
<1>4. CASE FlushAccount(r)
  BY <1>4 DEF FlushAccount, AccountInv, AccountTypeOK
<1>5. CASE AdminAnswered(r) \/ EditFails(r)
  BY <1>5 DEF AdminAnswered, EditFails, EditCloses, AccountInv, AccountTypeOK
<1>6. QED
  BY <1>1, <1>2, <1>3, <1>4, <1>5

\* A commit: the row becomes the copy, unless the request was overtaken, and
\* every other request that is under way now is.
LEMMA CommitRowKeeps ==
    ASSUME AccountInv, NEW r \in Editors, CommitAccountRow(r)
    PROVE  /\ AccountInv'
           /\ r \notin overtaken => Allowed(edit[r], row) /\ row' = Changed(r, edit[r], row)
<1>1. \A q \in Editors : editPc'[q] = IF q = r THEN "done" ELSE editPc[q]
  BY DEF CommitAccountRow, EditCloses, AccountInv, AccountTypeOK
<1>2. \A q \in Editors : editPc'[q] \in {"loaded", "update", "flushed"} => q \in overtaken'
  BY <1>1 DEF CommitAccountRow, AccountInv, AccountTypeOK
<1>3. row \in Row /\ copy[r] \in Row /\ dirty[r] \subseteq Columns
  BY DEF AccountInv, AccountTypeOK
<1>4. row' \in Row
  <2> DEFINE new == [c \in Columns |-> IF c \in dirty[r] THEN copy[r][c] ELSE row[c]]
  <2>1. new = [kyc |-> new.kyc, docs |-> new.docs, config |-> new.config, wallet |-> new.wallet]
    BY DEF Columns
  <2>2. /\ new.kyc \in KycStatus /\ new.docs \in Editors \cup {Unset}
        /\ new.config \in Editors \cup {Unset} /\ new.wallet \in Editors \cup {Unset}
    BY <1>3 DEF Row, Columns
  <2> HIDE DEF new
  <2>3. new \in Row
    BY <2>1, <2>2 DEF Row
  <2>4. QED
    BY <2>3 DEF new, CommitAccountRow
<1>5. AccountTypeOK'
  BY <1>4 DEF CommitAccountRow, EditCloses, AccountInv, AccountTypeOK
<1>6. \A q \in Editors : editPc'[q] \in {"loaded", "update", "flushed"} => edit'[q] \in Edits
  BY <1>1 DEF CommitAccountRow, AccountInv
<1>7. AccountInv'
  BY <1>2, <1>5, <1>6 DEF AccountInv
<1>8. ASSUME r \notin overtaken
      PROVE  Allowed(edit[r], row) /\ row' = Changed(r, edit[r], row)
  <2>1. /\ Allowed(edit[r], row)
        /\ copy[r] = Changed(r, edit[r], row)
        /\ dirty[r] = { c \in Columns : copy[r][c] # row[c] }
    BY <1>8 DEF AccountInv, CommitAccountRow
  <2>2. row' = copy[r]
    BY <1>3, <2>1, DirtyColumnsMakeTheCopy DEF CommitAccountRow
  <2>3. QED
    BY <2>1, <2>2
<1>9. QED
  BY <1>7, <1>8

\* AccountInv is an invariant.
THEOREM AccountInductive == AccountSpec => []AccountInv
<1>1. AccountInit => AccountInv
  BY DEF AccountInit, AccountInv, AccountTypeOK, Row, KycStatus
<1>2. AccountInv /\ [AccountNext]_accountVars => AccountInv'
  <2>1. AccountInv /\ UNCHANGED accountVars => AccountInv'
    BY DEF accountVars, AccountInv, AccountTypeOK
  <2>2. AccountInv /\ AccountNext => AccountInv'
    BY AccountKeeps, CommitRowKeeps DEF AccountNext, EditAdvances
  <2>3. QED
    BY <2>1, <2>2
<1>3. QED
  BY <1>1, <1>2, PTL DEF AccountSpec

\* Whatever overlaps, an update that no commit overtook is what the aggregate
\* says, made at once.
THEOREM AloneEditsAreAtomic == AccountSpec => AloneIsAtomic
<1> DEFINE Step == row' # row =>
              \A r \in informed' \ informed :
                 r \notin overtaken =>
                    Allowed(edit[r], row) /\ row' = Changed(r, edit[r], row)
<1>1. AccountInv /\ AccountNext => Step
  <2> SUFFICES ASSUME AccountInv, AccountNext, row' # row
               PROVE  Step
    OBVIOUS
  <2>1. PICK r \in Editors : CommitAccountRow(r)
    BY AccountKeeps DEF AccountNext, EditAdvances
  <2>2. informed' \ informed \subseteq {r}
    BY <2>1 DEF CommitAccountRow
  <2>3. QED
    BY <2>1, <2>2, CommitRowKeeps
<1>2. AccountInv /\ [AccountNext]_accountVars => [Step]_accountVars
  BY <1>1
<1>3. QED
  BY <1>2, AccountInductive, PTL DEF AccountSpec, AloneIsAtomic

-----------------------------------------------------------------------------
(* WalletLink.                                                             *)

Steps == {"idle", "clear", "issue", "look", "find", "spend", "read", "write", "done"}

\* A nonce is live only after the request that drew it has ended, a link past
\* its look-up had a nonce that was live, and past its use one that is not.
WalletInv ==
    /\ visitPc \in [Visits -> Steps]
    /\ visit \in [Visits -> Asked \cup {NotAsked}]
    /\ linked \in [Holders -> Addresses \cup {Nobody}]
    /\ granted \subseteq Visits
    /\ \A v \in Visits : ~At(v, "idle") => visit[v] \in Asked
    /\ \A v \in Visits : visitPc[v] \in {"look", "read", "write"} => visit[v].kind \in {"link", "unlink"}
    /\ \A v \in Visits : visitPc[v] \in {"find", "spend"} => visit[v].kind = "link"
    /\ \A v \in granted : At(v, "done") /\ visit[v].kind = "link"
    /\ \A c \in challenges : c.nonce \in Visits => At(c.nonce, "done")
    /\ \A v \in Visits :
          (visitPc[v] \in {"spend", "read", "write"} /\ visit[v].kind = "link") \/ v \in granted =>
             (visit[v].nonce \in Visits => At(visit[v].nonce, "done"))
    /\ \A v \in Visits :
          (visitPc[v] \in {"read", "write"} /\ visit[v].kind = "link") \/ v \in granted =>
             \A c \in challenges : c.nonce # visit[v].nonce
    /\ \A v \in Visits \ missed :
          visitPc[v] \in {"find", "spend", "read", "write"} /\ visit[v].kind = "link"
            /\ visit[v].short => ~Elsewhere(v)
    /\ \A v \in Visits \ missed :
          visitPc[v] \in {"read", "write"} /\ visit[v].kind = "unlink" /\ visit[v].short =>
             linked[visit[v].holder] \notin escrowed

\* A request begins: it is none of those the invariant speaks of before.
LEMMA BeginVisitKeeps ==
    ASSUME WalletInv, NEW v \in Visits, NEW q \in Asked, BeginVisit(v, q)
    PROVE  WalletInv'
<1>1. FirstStep(q) \in {"clear", "issue", "look", "find", "read"}
      /\ (FirstStep(q) = "look" => q.kind \in {"link", "unlink"})
      /\ (FirstStep(q) = "find" => q.kind = "link" /\ ~q.short)
      /\ (FirstStep(q) = "read" => q.kind = "unlink" /\ ~q.short)
  BY DEF FirstStep, Asked, Kinds
<1>2. \A w \in Visits : /\ visitPc'[w] = IF w = v THEN FirstStep(q) ELSE visitPc[w]
                        /\ visit'[w] = IF w = v THEN q ELSE visit[w]
  BY DEF BeginVisit, VisitGoes, WalletInv
<1>3. /\ visitPc' \in [Visits -> Steps] /\ visit' \in [Visits -> Asked \cup {NotAsked}]
      /\ UNCHANGED <<linked, challenges, escrowed, missed, granted>>
  BY <1>1 DEF BeginVisit, VisitGoes, WalletInv, Steps
<1>4. visitPc[v] = "idle" /\ v \notin granted
  BY DEF BeginVisit, At, WalletInv
<1>5. QED
  BY <1>1, <1>2, <1>3, <1>4 DEF WalletInv, At, Elsewhere

\* The steps that only move a request on, past a check that holds or to its end.
LEMMA VisitMoves ==
    ASSUME WalletInv, NEW v \in Visits,
           LookFirst(v) \/ FindChallenge(v) \/ ReadWallet(v) \/ VisitFails(v)
    PROVE  WalletInv'
<1>1. UNCHANGED <<linked, challenges, escrowed, visit, missed, granted>>
  BY DEF LookFirst, FindChallenge, ReadWallet, VisitFails
<1>2. v \notin granted /\ visit[v] \in Asked /\ visitPc[v] # "done"
  BY DEF LookFirst, FindChallenge, ReadWallet, VisitFails, At, WalletInv
<1>3. PICK step \in {"done", "find", "read", "spend", "write"} :
         /\ visitPc' = [visitPc EXCEPT ![v] = step]
         /\ step = "find" => visit[v].kind = "link" /\ ~Elsewhere(v)
         /\ step = "read" => visit[v].kind = "unlink" /\ linked[visit[v].holder] \notin escrowed
         /\ step = "spend" => At(v, "find") /\ Live(v)
         /\ step = "write" => At(v, "read")
  <2>1. CASE LookFirst(v)
    BY <2>1 DEF LookFirst, VisitGoes, At, WalletInv
  <2>2. CASE FindChallenge(v)
    BY <2>2 DEF FindChallenge, VisitGoes
  <2>3. CASE ReadWallet(v)
    BY <2>3 DEF ReadWallet, VisitGoes
  <2>4. CASE VisitFails(v)
    BY <2>4 DEF VisitFails, VisitGoes
  <2>5. QED
    BY <2>1, <2>2, <2>3, <2>4
<1>4. visitPc' \in [Visits -> Steps]
      /\ \A w \in Visits : visitPc'[w] = IF w = v THEN step ELSE visitPc[w]
  BY <1>3 DEF WalletInv, Steps
<1>5. step = "spend" => (visit[v].nonce \in Visits => At(visit[v].nonce, "done"))
  BY <1>3 DEF Live, WalletInv
<1>6. step = "spend" => visit[v].kind = "link" /\ (visit[v].short /\ v \notin missed => ~Elsewhere(v))
  BY <1>3 DEF At, WalletInv
<1>7. step = "write" =>
         /\ visit[v].kind \in {"link", "unlink"}
         /\ visit[v].kind = "link" =>
               /\ \A c \in challenges : c.nonce # visit[v].nonce
               /\ visit[v].nonce \in Visits => At(visit[v].nonce, "done")
               /\ visit[v].short /\ v \notin missed => ~Elsewhere(v)
         /\ visit[v].kind = "unlink" /\ visit[v].short /\ v \notin missed =>
               linked[visit[v].holder] \notin escrowed
  BY <1>3 DEF At, WalletInv
<1>8. \A w \in Visits : At(w, "done") => At(w, "done")'
  BY <1>2, <1>4 DEF At
<1>9. \A w \in Visits : Elsewhere(w)' <=> Elsewhere(w)
  BY <1>1 DEF Elsewhere
<1>10. /\ \A w \in Visits : ~At(w, "idle")' => visit'[w] \in Asked
       /\ \A w \in Visits : visitPc'[w] \in {"look", "read", "write"} => visit'[w].kind \in {"link", "unlink"}
       /\ \A w \in Visits : visitPc'[w] \in {"find", "spend"} => visit'[w].kind = "link"
       /\ \A w \in granted' : At(w, "done")' /\ visit'[w].kind = "link"
       /\ \A c \in challenges' : c.nonce \in Visits => At(c.nonce, "done")'
  BY <1>1, <1>2, <1>3, <1>4, <1>6, <1>7, <1>8 DEF WalletInv, At
<1>11. \A w \in Visits :
          (visitPc'[w] \in {"spend", "read", "write"} /\ visit'[w].kind = "link") \/ w \in granted' =>
             (visit'[w].nonce \in Visits => At(visit[w].nonce, "done")')
  BY <1>1, <1>2, <1>3, <1>4, <1>5, <1>7, <1>8 DEF WalletInv
<1>12. \A w \in Visits :
          (visitPc'[w] \in {"read", "write"} /\ visit'[w].kind = "link") \/ w \in granted' =>
             \A c \in challenges' : c.nonce # visit'[w].nonce
  BY <1>1, <1>2, <1>3, <1>4, <1>7 DEF WalletInv
<1>13. \A w \in Visits \ missed' :
          visitPc'[w] \in {"find", "spend", "read", "write"} /\ visit'[w].kind = "link"
            /\ visit'[w].short => ~Elsewhere(w)'
  BY <1>1, <1>3, <1>4, <1>6, <1>7, <1>9 DEF WalletInv
<1>14. \A w \in Visits \ missed' :
          visitPc'[w] \in {"read", "write"} /\ visit'[w].kind = "unlink" /\ visit'[w].short =>
             linked'[visit'[w].holder] \notin escrowed'
  BY <1>1, <1>3, <1>4, <1>7 DEF WalletInv
<1>15. QED
  BY <1>1, <1>4, <1>10, <1>11, <1>12, <1>13, <1>14 DEF WalletInv

\* What only takes challenges away, and moves one request on.
LEMMA ChallengesGo ==
    ASSUME WalletInv,
           \/ \E v \in Visits : ClearChallenges(v) \/ SpendChallenge(v)
           \/ \E c \in challenges : ExpireChallenge(c)
    PROVE  WalletInv'
<1>1. challenges' \subseteq challenges /\ UNCHANGED <<linked, escrowed, visit, missed, granted>>
  BY DEF ClearChallenges, SpendChallenge, ExpireChallenge
<1>2. \A w \in Visits : Elsewhere(w)' <=> Elsewhere(w)
  BY <1>1 DEF Elsewhere
<1>3. ASSUME NEW c \in challenges, ExpireChallenge(c)
      PROVE  WalletInv'
  BY <1>1, <1>2, <1>3 DEF ExpireChallenge, WalletInv, At
<1>4. ASSUME NEW v \in Visits, ClearChallenges(v)
      PROVE  WalletInv'
  <2>1. visitPc' = [visitPc EXCEPT ![v] = "issue"] \/ visitPc' = [visitPc EXCEPT ![v] = "done"]
    BY <1>4 DEF ClearChallenges, VisitGoes
  <2>2. visitPc' \in [Visits -> Steps]
        /\ \A w \in Visits : IF w = v THEN visitPc'[w] \in {"issue", "done"} ELSE visitPc'[w] = visitPc[w]
    BY <2>1 DEF WalletInv, Steps
  <2>3. visitPc[v] = "clear" /\ v \notin granted
    BY <1>4 DEF ClearChallenges, At, WalletInv
  <2>4. QED
    BY <1>1, <1>2, <2>2, <2>3 DEF WalletInv, At
<1>5. ASSUME NEW v \in Visits, SpendChallenge(v)
      PROVE  WalletInv'
  <2>1. PICK signed \in BOOLEAN :
           /\ challenges' = IF visit[v].short /\ ~signed THEN challenges
                            ELSE { c \in challenges : c.nonce # visit[v].nonce }
           /\ visitPc' = [visitPc EXCEPT ![v] = IF signed THEN "read" ELSE "done"]
    BY <1>5 DEF SpendChallenge, VisitGoes
  <2>2. visitPc' \in [Visits -> Steps]
        /\ \A w \in Visits : visitPc'[w] = IF w = v THEN (IF signed THEN "read" ELSE "done") ELSE visitPc[w]
    BY <2>1 DEF WalletInv, Steps
  <2>3. visitPc[v] = "spend" /\ v \notin granted /\ visit[v].kind = "link" /\ visit[v] \in Asked
    BY <1>5 DEF SpendChallenge, At, WalletInv
  <2>4. signed => \A c \in challenges' : c.nonce # visit[v].nonce
    BY <2>1
  <2>5. QED
    BY <1>1, <1>2, <2>2, <2>3, <2>4 DEF WalletInv, At
<1>6. QED
  BY <1>3, <1>4, <1>5

\* A fresh nonce is nobody's that has used one.
LEMMA IssueKeeps ==
    ASSUME WalletInv, NEW v \in Visits, IssueChallenge(v)
    PROVE  WalletInv'
<1>1. /\ challenges' = challenges \cup {[nonce |-> v, holder |-> visit[v].holder]}
      /\ UNCHANGED <<linked, escrowed, visit, missed, granted>>
      /\ visitPc' = [visitPc EXCEPT ![v] = "done"] /\ visitPc[v] = "issue"
  BY DEF IssueChallenge, VisitGoes, At
<1>2. visitPc' \in [Visits -> Steps]
      /\ \A w \in Visits : visitPc'[w] = IF w = v THEN "done" ELSE visitPc[w]
  BY <1>1 DEF WalletInv, Steps
<1>3. \A c \in challenges' : c \in challenges \/ c.nonce = v
  BY <1>1
<1>4. \A w \in Visits :
         (visitPc[w] \in {"read", "write"} /\ visit[w].kind = "link") \/ w \in granted =>
            visit[w].nonce # v
  BY <1>1 DEF WalletInv, At
<1>5. \A w \in Visits : Elsewhere(w)' <=> Elsewhere(w)
  BY <1>1 DEF Elsewhere
<1>6. QED
  BY <1>1, <1>2, <1>3, <1>4, <1>5 DEF WalletInv, At

\* The commit of a wallet: the checks it makes void are recorded as missed.
LEMMA WriteWalletKeeps ==
    ASSUME WalletInv, NEW v \in Visits, WriteWallet(v)
    PROVE  WalletInv'
<1> DEFINE h == visit[v].holder
           a == IF visit[v].kind = "link" THEN visit[v].address ELSE Nobody
<1>1. /\ visitPc[v] = "write" /\ visit[v] \in Asked /\ v \notin granted
      /\ h \in Holders /\ a \in Addresses \cup {Nobody}
  BY DEF WriteWallet, At, WalletInv, Asked
<1>2. /\ linked' = [linked EXCEPT ![h] = a]
      /\ missed' = missed
            \cup { w \in Checked("link") : visit[w].address = a /\ visit[w].holder # h }
            \cup { w \in Checked("unlink") \ {v} : visit[w].holder = h }
      /\ granted' = IF visit[v].kind = "link" THEN granted \cup {v} ELSE granted
      /\ UNCHANGED <<challenges, escrowed, visit>>
  BY DEF WriteWallet
<1>3. PICK step \in {"clear", "done"} :
         /\ visitPc' = [visitPc EXCEPT ![v] = step]
         /\ visit[v].kind = "link" => step = "done"
  BY DEF WriteWallet, VisitGoes
<1>4. visitPc' \in [Visits -> Steps]
      /\ \A w \in Visits : visitPc'[w] = IF w = v THEN step ELSE visitPc[w]
  BY <1>3 DEF WalletInv, Steps
<1>5. linked' \in [Holders -> Addresses \cup {Nobody}]
      /\ \A g \in Holders : linked'[g] = IF g = h THEN a ELSE linked[g]
  BY <1>1, <1>2 DEF WalletInv
<1> HIDE DEF h, a
<1>6. \A w \in Visits \ missed' :
         visitPc'[w] \in {"find", "spend", "read", "write"} /\ visit'[w].kind = "link"
           /\ visit'[w].short => ~Elsewhere(w)'
  <2> SUFFICES ASSUME NEW w \in Visits \ missed',
                      visitPc'[w] \in {"find", "spend", "read", "write"},
                      visit[w].kind = "link", visit[w].short
               PROVE  ~Elsewhere(w)'
    BY <1>2
  <2>1. w # v /\ visitPc'[w] = visitPc[w]
    BY <1>3, <1>4
  <2>2. w \in Checked("link") /\ w \notin missed
    BY <1>2, <2>1 DEF Checked
  <2>3. ~(visit[w].address = a /\ visit[w].holder # h)
    BY <1>2, <2>2
  <2>4. ~Elsewhere(w)
    BY <2>1, <2>2 DEF WalletInv
  <2>5. QED
    BY <1>2, <1>5, <2>3, <2>4 DEF Elsewhere
<1>7. \A w \in Visits \ missed' :
         visitPc'[w] \in {"read", "write"} /\ visit'[w].kind = "unlink" /\ visit'[w].short =>
            linked'[visit'[w].holder] \notin escrowed'
  <2> SUFFICES ASSUME NEW w \in Visits \ missed', visitPc'[w] \in {"read", "write"},
                      visit[w].kind = "unlink", visit[w].short
               PROVE  linked'[visit[w].holder] \notin escrowed
    BY <1>2
  <2>1. w # v /\ visitPc'[w] = visitPc[w]
    BY <1>3, <1>4
  <2>2. w \in Checked("unlink") \ {v} /\ w \notin missed
    BY <1>2, <2>1 DEF Checked
  <2>3. visit[w].holder # h
    BY <1>2, <2>2
  <2>4. visit[w].holder \in Holders
    BY <2>1 DEF WalletInv, At, Asked
  <2>5. linked'[visit[w].holder] = linked[visit[w].holder]
    BY <1>5, <2>3, <2>4
  <2>6. QED
    BY <2>1, <2>2, <2>5 DEF WalletInv
<1>8. /\ granted' \subseteq Visits
      /\ \A w \in Visits : ~At(w, "idle")' => visit'[w] \in Asked
      /\ \A w \in Visits : visitPc'[w] \in {"look", "read", "write"} => visit'[w].kind \in {"link", "unlink"}
      /\ \A w \in Visits : visitPc'[w] \in {"find", "spend"} => visit'[w].kind = "link"
      /\ \A w \in granted' : At(w, "done")' /\ visit'[w].kind = "link"
      /\ \A c \in challenges' : c.nonce \in Visits => At(c.nonce, "done")'
  BY <1>1, <1>2, <1>3, <1>4 DEF WalletInv, At
<1>9. \A w \in Visits :
         (visitPc'[w] \in {"spend", "read", "write"} /\ visit'[w].kind = "link") \/ w \in granted' =>
            /\ visit'[w].nonce \in Visits => At(visit[w].nonce, "done")
  BY <1>1, <1>2, <1>3, <1>4 DEF WalletInv
<1>10. \A w \in Visits : At(w, "done") => At(w, "done")'
  BY <1>1, <1>4 DEF At
<1>11. \A w \in Visits :
         (visitPc'[w] \in {"read", "write"} /\ visit'[w].kind = "link") \/ w \in granted' =>
            \A c \in challenges' : c.nonce # visit'[w].nonce
  BY <1>1, <1>2, <1>3, <1>4 DEF WalletInv
<1>12. \A w \in Visits :
         (visitPc'[w] \in {"spend", "read", "write"} /\ visit'[w].kind = "link") \/ w \in granted' =>
            (visit'[w].nonce \in Visits => At(visit[w].nonce, "done")')
  BY <1>2, <1>9, <1>10
<1>13. QED
  BY <1>2, <1>4, <1>5, <1>6, <1>7, <1>8, <1>11, <1>12 DEF WalletInv, At

\* Escrows open and close.
LEMMA EscrowsKeep ==
    ASSUME WalletInv, (\E h \in Holders : EscrowOpens(h)) \/ (\E a \in Addresses : EscrowCloses(a))
    PROVE  WalletInv'
<1>1. UNCHANGED <<linked, challenges, visit, visitPc, granted>> /\ missed \subseteq missed'
  BY DEF EscrowOpens, EscrowCloses
<1>2. \A w \in Visits : Elsewhere(w)' <=> Elsewhere(w)
  BY <1>1 DEF Elsewhere
<1>3. \A w \in Visits \ missed' :
         visitPc[w] \in {"read", "write"} /\ visit[w].kind = "unlink" /\ visit[w].short =>
            linked[visit[w].holder] \notin escrowed'
  BY DEF EscrowOpens, EscrowCloses, Checked, WalletInv
<1>4. QED
  BY <1>1, <1>2, <1>3 DEF WalletInv, At

\* WalletInv is an invariant.
THEOREM WalletInductive == WalletSpec => []WalletInv
<1>1. WalletInit => WalletInv
  BY NoncesAssumption DEF WalletInit, WalletInv, At, Steps
<1>2. WalletInv /\ [WalletNext]_walletVars => WalletInv'
  <2>1. WalletInv /\ UNCHANGED walletVars => WalletInv'
    BY DEF walletVars, WalletInv, At, Elsewhere
  <2>2. WalletInv /\ WalletNext => WalletInv'
    BY BeginVisitKeeps, VisitMoves, ChallengesGo, IssueKeeps, WriteWalletKeeps, EscrowsKeep
       DEF WalletNext, VisitAdvances
  <2>3. QED
    BY <2>1, <2>2
<1>3. QED
  BY <1>1, <1>2, PTL DEF WalletSpec

\* A challenge with which a wallet was linked is of no further use.
THEOREM ChallengesAreSpent == WalletSpec => []ChallengeSpent
<1>1. WalletInv => ChallengeSpent
  BY DEF WalletInv, ChallengeSpent
<1>2. QED
  BY <1>1, WalletInductive, PTL

\* What the short endpoints check holds when they commit, unless another
\* request or an escrow came in between.
THEOREM ChecksStandAlone == WalletSpec => ChecksHoldWhenMade
<1> DEFINE Step == \A v \in Visits \ missed :
          At(v, "write") /\ visitPc'[v] # "write" /\ linked' # linked /\ visit[v].short =>
             CASE visit[v].kind = "link"   -> ~Elsewhere(v)
               [] visit[v].kind = "unlink" -> linked[visit[v].holder] \notin escrowed
<1>1. WalletInv => Step
  BY DEF WalletInv, At
<1>2. WalletInv /\ [WalletNext]_walletVars => [Step]_walletVars
  BY <1>1
<1>3. QED
  BY <1>2, WalletInductive, PTL DEF WalletSpec, ChecksHoldWhenMade
=============================================================================
