------------------------------ MODULE Account ------------------------------
(***************************************************************************)
(* The row of one enterprise and the requests that change it: KYC          *)
(* submission, agent configuration, linking and unlinking of the wallet,   *)
(* and the administrator's approve, reject and revoke.                     *)
(*                                                                         *)
(* Each operation of IdentityService reads the enterprise, changes its     *)
(* copy, and gives the whole copy to the repository, which selects the row *)
(* again and lets the UPDATE carry every column in which the two differ.   *)
(* There is no lock before the UPDATE and no version.  The administrator's *)
(* change is flushed and never committed.                                  *)
(***************************************************************************)
EXTENDS Naturals, FiniteSets

CONSTANTS
    Editors,     \* the requests; a value that a request writes is named after it
    Unset

ASSUME EditorsAssumption == Unset \notin Editors

VARIABLES
    row,         \* the committed row
    rowHolder,   \* the request whose transaction holds the row's lock
    editPc,      \* where each request is
    edit,        \* the operation each request performs
    copy,        \* the aggregate each request has loaded and changed
    dirty,       \* the columns its UPDATE carries
    overtaken,   \* history: requests during which another one has committed
    informed     \* history: requests answered with success

accountVars == <<row, rowHolder, editPc, edit, copy, dirty, overtaken, informed>>

Columns == {"kyc", "docs", "config", "wallet"}
KycStatus == {"PENDING", "KYC_SUBMITTED", "VERIFIED", "ACTIVE"}
Row == [kyc : KycStatus, docs : Editors \cup {Unset},
        config : Editors \cup {Unset}, wallet : Editors \cup {Unset}]

ServiceEdits == {"kyc", "verify", "config", "link", "unlink"}
AdminActions == {"approve", "reject", "revoke"}
Edits == ServiceEdits \cup AdminActions

\* The guards of the aggregate and of apply_kyc_action.
Allowed(e, c) ==
    CASE e = "kyc"    -> c.kyc = "PENDING"
      [] e = "verify" -> c.kyc = "KYC_SUBMITTED"
      [] e = "link"   -> c.wallet = Unset
      [] e = "unlink" -> c.wallet # Unset
      [] e = "config" -> TRUE
      [] e \in {"approve", "reject"} -> c.kyc = "KYC_SUBMITTED"
      [] e = "revoke" -> c.kyc \in {"VERIFIED", "ACTIVE"}

\* What the operation of request r makes of its copy.  verify_kyc goes on to
\* activate, and rejected and revoked are stored as PENDING.
Changed(r, e, c) ==
    CASE e = "kyc"    -> [c EXCEPT !.kyc = "KYC_SUBMITTED", !.docs = r]
      [] e \in {"verify", "approve"} -> [c EXCEPT !.kyc = "ACTIVE"]
      [] e = "link"   -> [c EXCEPT !.wallet = r]
      [] e = "unlink" -> [c EXCEPT !.wallet = Unset]
      [] e = "config" -> [c EXCEPT !.config = r]
      [] e \in {"reject", "revoke"} -> [c EXCEPT !.kyc = "PENDING"]

LoadedWithoutConfig(m) == [m EXCEPT !.config = Unset]

\* _enterprise_to_domain: every column the model has.
Loaded(m) == m

AccountInit ==
    /\ row \in { [kyc |-> k, docs |-> Unset, config |-> Unset, wallet |-> Unset] :
                   k \in {"PENDING", "ACTIVE"} }
    /\ rowHolder = Unset
    /\ editPc = [r \in Editors |-> "idle"]
    /\ edit = [r \in Editors |-> "none"]
    /\ copy = [r \in Editors |-> row]
    /\ dirty = [r \in Editors |-> {}]
    /\ overtaken = {} /\ informed = {}

\* The session of the request is closed: its lock is gone, and what it has not
\* committed.
EditCloses(r) ==
    /\ editPc' = [editPc EXCEPT ![r] = "done"]
    /\ rowHolder' = IF rowHolder = r THEN Unset ELSE rowHolder

\* get_by_id, and the lookup of the user who asks.
ReadAccount(r, e) ==
    /\ editPc[r] = "idle"
    /\ editPc' = [editPc EXCEPT ![r] = "loaded"]
    /\ edit' = [edit EXCEPT ![r] = e]
    /\ copy' = [copy EXCEPT ![r] = Loaded(row)]
    /\ UNCHANGED <<row, rowHolder, dirty, overtaken, informed>>

\* After the KYC provider has answered: the guard, the change, and the second
\* SELECT, against which the columns of the UPDATE are chosen.  The
\* administrator's request keeps the row it has read.
ChangeAccount(r) ==
    /\ editPc[r] = "loaded"
    /\ IF Allowed(edit[r], copy[r])
       THEN /\ copy' = [copy EXCEPT ![r] = Changed(r, edit[r], @)]
            /\ dirty' = [dirty EXCEPT ![r] =
                 LET seen == IF edit[r] \in AdminActions THEN copy[r] ELSE row
                 IN  { c \in Columns : copy'[r][c] # seen[c] }]
            /\ editPc' = [editPc EXCEPT ![r] = "update"]
            /\ UNCHANGED rowHolder
       ELSE EditCloses(r) /\ UNCHANGED <<copy, dirty>>
    /\ UNCHANGED <<row, edit, overtaken, informed>>

\* The flush: an UPDATE waits for the lock of the row, and there is none when
\* no column differs.
FlushAccount(r) ==
    /\ editPc[r] = "update"
    /\ IF dirty[r] = {} THEN UNCHANGED rowHolder
       ELSE rowHolder = Unset /\ rowHolder' = r
    /\ editPc' = [editPc EXCEPT ![r] = "flushed"]
    /\ UNCHANGED <<row, edit, copy, dirty, overtaken, informed>>

CommitAccountRow(r) ==
    /\ editPc[r] = "flushed" /\ edit[r] \in ServiceEdits
    /\ row' = [c \in Columns |-> IF c \in dirty[r] THEN copy[r][c] ELSE row[c]]
    /\ overtaken' = overtaken \cup { q \in Editors \ {r} : editPc[q] \notin {"idle", "done"} }
    /\ informed' = informed \cup {r}
    /\ EditCloses(r)
    /\ UNCHANGED <<edit, copy, dirty>>

\* The administrator is answered and the session closed: a rollback.
AdminAnswered(r) ==
    /\ editPc[r] = "flushed" /\ edit[r] \in AdminActions
    /\ informed' = informed \cup {r}
    /\ EditCloses(r)
    /\ UNCHANGED <<row, edit, copy, dirty, overtaken>>

EditFails(r) ==
    /\ editPc[r] \notin {"idle", "done"}
    /\ EditCloses(r)
    /\ UNCHANGED <<row, edit, copy, dirty, overtaken, informed>>

EditAdvances(r) ==
    ChangeAccount(r) \/ FlushAccount(r) \/ CommitAccountRow(r) \/ AdminAnswered(r)

AccountNext ==
    \E r \in Editors :
       (\E e \in Edits : ReadAccount(r, e)) \/ EditAdvances(r) \/ EditFails(r)

AccountSpec == AccountInit /\ [][AccountNext]_accountVars

-----------------------------------------------------------------------------

\* Each variable has its type.
AccountTypeOK ==
    /\ row \in Row /\ copy \in [Editors -> Row]
    /\ rowHolder \in Editors \cup {Unset}
    /\ editPc \in [Editors -> {"idle", "loaded", "update", "flushed", "done"}]
    /\ edit \in [Editors -> Edits \cup {"none"}]
    /\ dirty \in [Editors -> SUBSET Columns]
    /\ overtaken \subseteq Editors /\ informed \subseteq Editors

\* An operation that no other commit overtook acts on the row as the aggregate
\* says, in one step: its guard holds of the row it replaces, and no other
\* column changes.  What is overwritten is overwritten by overlapping requests
\* only (repositories.py:210-218).
AloneIsAtomic ==
    [][ row' # row =>
          \A r \in informed' \ informed :
             r \notin overtaken =>
                Allowed(edit[r], row) /\ row' = Changed(r, edit[r], row) ]_accountVars
=============================================================================
