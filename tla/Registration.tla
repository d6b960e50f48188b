---------------------------- MODULE Registration ----------------------------
(***************************************************************************)
(* POST /v1/auth/register, several at once: three look-ups, then the       *)
(* enterprise and its first user in one transaction.                       *)
(*                                                                         *)
(* A UNIQUE index makes an INSERT wait for the end of a transaction that   *)
(* has inserted the same key, and refuses it if that transaction commits.  *)
(***************************************************************************)
EXTENDS Naturals, Sequences, FiniteSets

CONSTANTS
    Registrants,   \* the requests
    Forms          \* what they may send: functions on the three keys

Keys == {"pan", "gstin", "email"}

ASSUME FormsAssumption == \A f \in Forms : DOMAIN f = Keys

VARIABLES
    form,          \* what each request sent
    regPc,         \* where each request is
    regAt,         \* how many keys it has gone through there
    held,          \* the index entries of its open transaction
    enterprises,   \* requests whose enterprise is committed
    users,         \* requests whose user is committed
    registered     \* history: requests answered with tokens

registrationVars == <<form, regPc, regAt, held, enterprises, users, registered>>

\* The order of the look-ups and of the index entries: those of the enterprise
\* come before the one of the user.
KeyOrder == <<"pan", "gstin", "email">>

NextKey(r) == KeyOrder[regAt[r] + 1]
Through(r) == regAt[r] = Len(KeyOrder)

\* get_by_pan, get_by_gstin, get_by_email: a committed row has the value.
Owners(k) == IF k = "email" THEN users ELSE enterprises
Taken(k, v) == \E q \in Owners(k) : form[q][k] = v

RegistrationInit ==
    /\ form \in [Registrants -> Forms]
    /\ regPc = [r \in Registrants |-> "idle"]
    /\ regAt = [r \in Registrants |-> 0]
    /\ held = [r \in Registrants |-> {}]
    /\ enterprises = {} /\ users = {} /\ registered = {}

RegisterGoes(r, step) ==
    /\ regPc' = [regPc EXCEPT ![r] = step]
    /\ regAt' = [regAt EXCEPT ![r] = 0]

\* The transaction ends without a commit: its entries are gone.
RegisterAborts(r) ==
    /\ RegisterGoes(r, "done")
    /\ held' = [held EXCEPT ![r] = {}]
    /\ UNCHANGED <<form, enterprises, users, registered>>

BeginRegister(r) ==
    /\ regPc[r] = "idle"
    /\ RegisterGoes(r, "look")
    /\ UNCHANGED <<form, held, enterprises, users, registered>>

\* The next of the three uniqueness checks.
LookFor(r) ==
    /\ regPc[r] = "look" /\ ~Through(r)
    /\ IF Taken(NextKey(r), form[r][NextKey(r)])
       THEN RegisterAborts(r)
       ELSE /\ regAt' = [regAt EXCEPT ![r] = @ + 1]
            /\ UNCHANGED <<form, regPc, held, enterprises, users, registered>>

\* Enterprise and user are built; the role is always MEMBER.
BuildAccount(r) ==
    /\ regPc[r] = "look" /\ Through(r)
    /\ RegisterGoes(r, "insert")
    /\ UNCHANGED <<form, held, enterprises, users, registered>>

\* Another open transaction has inserted the value.
InDoubt(r, k) ==
    \E q \in Registrants \ {r} : k \in held[q] /\ form[q][k] = form[r][k]

InsertUnrolled(r) ==
    /\ regPc[r] = "insert" /\ ~Through(r)
    /\ ~InDoubt(r, NextKey(r))
    /\ IF Taken(NextKey(r), form[r][NextKey(r)])
       THEN RegisterGoes(r, "done") /\ UNCHANGED held
       ELSE /\ held' = [held EXCEPT ![r] = @ \cup {NextKey(r)}]
            /\ regAt' = [regAt EXCEPT ![r] = @ + 1]
            /\ UNCHANGED regPc
    /\ UNCHANGED <<form, enterprises, users, registered>>

InsertUnchecked(r) ==
    /\ regPc[r] = "insert" /\ ~Through(r)
    /\ held' = [held EXCEPT ![r] = @ \cup {NextKey(r)}]
    /\ regAt' = [regAt EXCEPT ![r] = @ + 1]
    /\ UNCHANGED <<form, regPc, enterprises, users, registered>>

\* The flush of the enterprise, then of the user, one index after the other.
InsertAccount(r) ==
    /\ regPc[r] = "insert" /\ ~Through(r)
    /\ ~InDoubt(r, NextKey(r))
    /\ IF Taken(NextKey(r), form[r][NextKey(r)])
       THEN RegisterAborts(r)
       ELSE /\ held' = [held EXCEPT ![r] = @ \cup {NextKey(r)}]
            /\ regAt' = [regAt EXCEPT ![r] = @ + 1]
            /\ UNCHANGED <<form, regPc, enterprises, users, registered>>

CommitAccount(r) ==
    /\ regPc[r] = "insert" /\ Through(r)
    /\ enterprises' = enterprises \cup {r}
    /\ users' = users \cup {r}
    /\ held' = [held EXCEPT ![r] = {}]
    /\ RegisterGoes(r, "answer")
    /\ UNCHANGED <<form, registered>>

\* EnterpriseRegistered is published, and the tokens are made.
AnswerRegister(r) ==
    /\ regPc[r] = "answer"
    /\ registered' = registered \cup {r}
    /\ RegisterGoes(r, "done")
    /\ UNCHANGED <<form, held, enterprises, users>>

\* A malformed value, an order range upside down, a lost connection, the death
\* of the process.
RegisterFails(r) ==
    /\ regPc[r] \notin {"idle", "done"}
    /\ RegisterAborts(r)

RegisterAdvances(r) ==
    LookFor(r) \/ BuildAccount(r) \/ InsertAccount(r) \/ CommitAccount(r) \/ AnswerRegister(r)

RegistrationNext ==
    \E r \in Registrants : BeginRegister(r) \/ RegisterAdvances(r) \/ RegisterFails(r)

RegistrationSpec == RegistrationInit /\ [][RegistrationNext]_registrationVars

-----------------------------------------------------------------------------

\* Each variable has its type.
RegistrationTypeOK ==
    /\ form \in [Registrants -> Forms]
    /\ regPc \in [Registrants -> {"idle", "look", "insert", "answer", "done"}]
    /\ regAt \in [Registrants -> 0..Len(KeyOrder)]
    /\ held \in [Registrants -> SUBSET Keys]
    /\ enterprises \subseteq Registrants
    /\ users \subseteq Registrants
    /\ registered \subseteq Registrants

\* No two enterprises share a PAN or a GSTIN and no two users an e-mail address,
\* although every registration looks before it inserts and others insert in
\* between (services.py:92-102).
OneAccountPerKey ==
    \A k \in Keys : \A q, r \in Owners(k) : form[q][k] = form[r][k] => q = r

\* An enterprise and its first user are committed together or not at all, and
\* whoever holds tokens has both (services.py:136-158).
EnterpriseHasUser == enterprises = users /\ registered \subseteq users

\* Every registration ends, although each waits for the others' index entries
\* with entries of its own.
EveryRegistrationEnds ==
    \A r \in Registrants : regPc[r] = "look" ~> regPc[r] = "done"
=============================================================================
