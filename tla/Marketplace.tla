---------------------------- MODULE Marketplace ----------------------------
(***************************************************************************)
(* One RFQ: its upload, the background task that parses and matches it,    *)
(* and the requests that open negotiation sessions for its matches,        *)
(* through POST /v1/marketplace/rfq/{id}/confirm or POST /v1/sessions.     *)
(*                                                                         *)
(* A confirmation runs in two database sessions.  The request's own takes  *)
(* row locks with its UPDATEs and is closed without a COMMIT, so what it   *)
(* wrote is rolled back; the one of _create_negotiation_session_sync       *)
(* commits.  Row locks are held until the request ends, and PostgreSQL     *)
(* ends a cycle of waits by failing one of its members.                    *)
(***************************************************************************)
EXTENDS Naturals, Sequences, FiniteSets

CONSTANTS
    Sellers,     \* enterprises that may be matched
    Buyer,       \* the enterprise of the RFQ
    Confirms,    \* requests to confirm the RFQ with a seller
    Opens,       \* requests to POST /v1/sessions
    Retries,     \* how often the task looks again for the RFQ's row
    None

ASSUME RequestsAssumption == Confirms \cap Opens = {} /\ None \notin Confirms \cup Opens
ASSUME RetriesAssumption == Retries \in Nat

Requests == Confirms \cup Opens

VARIABLES
    upload,      \* the upload request: "idle", "inserted", "ended"
    rfq,         \* committed status, "none" before the upload's commit
    matches,     \* committed matches, by rank
    task,        \* where the background task is
    tries,       \* how often it has looked for the row in vain
    sessions,    \* for each match, the requests whose session is committed
    profiles,    \* enterprises with a committed agent profile
    pc,          \* where each request is
    seller,      \* the seller each request names
    todo,        \* what it still has to go through, in order
    made,        \* the agent profiles it has inserted and not committed
    rfqLock,     \* the request that holds the lock of the RFQ's row
    matchLock,   \* the request that holds the lock of each match's row
    answered     \* history: sellers whose confirmation was answered with success

taskVars == <<upload, rfq, matches, task, tries>>
lockVars == <<rfqLock, matchLock>>
vars == <<upload, rfq, matches, task, tries, sessions, profiles, pc, seller,
          todo, made, rfqLock, matchLock, answered>>

Statuses == {"none", "DRAFT", "PARSED", "MATCHED", "CONFIRMED"}
Steps == {"idle", "load", "reject", "select", "check", "profile", "insert", "publish", "done"}

\* Results of the matchmaking: distinct sellers, best first.
Rankings == { q \in UNION { [1..n -> Sellers] : n \in 1..Cardinality(Sellers) } :
                 \A i, j \in DOMAIN q : q[i] = q[j] => i = j }

\* Guards of the aggregate: mark_parsed, mark_matched, confirm.
CanMarkParsed == rfq = "DRAFT"
CanMarkMatched == rfq = "PARSED"
CanConfirm == rfq = "MATCHED"

\* get_match_by_seller and list_by_rfq.  A match has no status column: each is
\* read as PENDING.
HasMatch(s) == \E i \in DOMAIN matches : matches[i] = s
OtherMatches(s) == SelectSeq(matches, LAMBDA t : t # s)

\* get_by_match_id: one session is a conflict, two make scalar_one_or_none
\* raise, and create_session goes on only without any.
NoSessionOf(s) == sessions[s] = {}

Init ==
    /\ upload = "idle" /\ rfq = "none" /\ matches = <<>>
    /\ task = "none" /\ tries = 0
    /\ sessions = [s \in Sellers |-> {}]
    /\ profiles \in SUBSET ({Buyer} \cup Sellers)
    /\ pc = [r \in Requests |-> "idle"]
    /\ seller = [r \in Requests |-> None]
    /\ todo = [r \in Requests |-> <<>>]
    /\ made = [r \in Requests |-> {}]
    /\ rfqLock = None
    /\ matchLock = [s \in Sellers |-> None]
    /\ answered = {}

-----------------------------------------------------------------------------
(* Upload, and the background task it leaves behind.                       *)

requestVars == <<sessions, profiles, pc, seller, todo, made, rfqLock, matchLock, answered>>

\* The row is flushed and the task is scheduled before the router commits.
UploadRfq ==
    /\ upload = "idle"
    /\ upload' = "inserted" /\ task' = "reading"
    /\ UNCHANGED <<rfq, matches, tries>> /\ UNCHANGED requestVars

UploadCommits ==
    /\ upload = "inserted"
    /\ upload' = "ended" /\ rfq' = "DRAFT"
    /\ UNCHANGED <<matches, task, tries>> /\ UNCHANGED requestVars

UploadFails ==
    /\ upload = "inserted"
    /\ upload' = "ended"
    /\ UNCHANGED <<rfq, matches, task, tries>> /\ UNCHANGED requestVars

\* The task looks for the row until it is committed, a fixed number of times.
TaskReads ==
    /\ task = "reading"
    /\ IF rfq # "none" THEN task' = "extracting" /\ UNCHANGED tries
       ELSE IF tries = Retries THEN task' = "ended" /\ UNCHANGED tries
       ELSE tries' = tries + 1 /\ UNCHANGED task
    /\ UNCHANGED <<upload, rfq, matches>> /\ UNCHANGED requestVars

\* mark_parsed, update and commit; without fields the RFQ stays DRAFT.
TaskParses ==
    /\ task = "extracting"
    /\ \/ /\ CanMarkParsed
          /\ rfq' = "PARSED" /\ task' = "matching"
       \/ rfq' = rfq /\ task' = "ended"
    /\ UNCHANGED <<upload, matches, tries>> /\ UNCHANGED requestVars

\* The matches and the status are written in one transaction; without matches
\* the RFQ stays PARSED.
TaskMatches ==
    /\ task = "matching"
    /\ task' = "ended"
    /\ \/ /\ CanMarkMatched
          /\ rfq' = "MATCHED" /\ matches' \in Rankings
       \/ UNCHANGED <<rfq, matches>>
    /\ UNCHANGED <<upload, tries>> /\ UNCHANGED requestVars

\* An exception of the parser, the embedding or the search, logged and
\* dropped, or the death of the process: nothing starts the task again.
TaskFails ==
    /\ task \in {"reading", "extracting", "matching"}
    /\ task' = "ended"
    /\ UNCHANGED <<upload, rfq, matches, tries>> /\ UNCHANGED requestVars

-----------------------------------------------------------------------------
(* Opening a session.                                                      *)

ReleaseMatchesOnly(r) ==
    /\ pc' = [pc EXCEPT ![r] = "done"]
    /\ made' = [made EXCEPT ![r] = {}]
    /\ matchLock' = [s \in Sellers |-> IF matchLock[s] = r THEN None ELSE matchLock[s]]
    /\ UNCHANGED <<seller, todo, rfqLock>>

\* The request's database sessions are closed: what they had not committed is
\* rolled back and their locks are released.
Release(r) ==
    /\ pc' = [pc EXCEPT ![r] = "done"]
    /\ made' = [made EXCEPT ![r] = {}]
    /\ rfqLock' = IF rfqLock = r THEN None ELSE rfqLock
    /\ matchLock' = [s \in Sellers |-> IF matchLock[s] = r THEN None ELSE matchLock[s]]
    /\ UNCHANGED <<seller, todo>>

\* The router's checks; the caller is the buyer and has linked a wallet.
BeginConfirm(r, s) ==
    /\ r \in Confirms /\ pc[r] = "idle"
    /\ CanConfirm
    /\ pc' = [pc EXCEPT ![r] = "load"]
    /\ seller' = [seller EXCEPT ![r] = s]
    /\ UNCHANGED <<sessions, profiles, todo, made, answered>> /\ UNCHANGED lockVars
    /\ UNCHANGED taskVars

LoadMatchOpensFirst(r) ==
    /\ pc[r] = "load"
    /\ IF CanConfirm /\ HasMatch(seller[r])
       THEN /\ pc' = [pc EXCEPT ![r] = "check"]
            /\ UNCHANGED <<seller, todo, made>> /\ UNCHANGED lockVars
       ELSE Release(r)
    /\ UNCHANGED <<sessions, profiles, answered>> /\ UNCHANGED taskVars

\* confirm_rfq reads the RFQ again, finds the match of the seller, and the
\* other matches.
LoadMatch(r) ==
    /\ pc[r] = "load"
    /\ IF CanConfirm /\ HasMatch(seller[r])
       THEN /\ pc' = [pc EXCEPT ![r] = "reject"]
            /\ todo' = [todo EXCEPT ![r] = OtherMatches(seller[r])]
            /\ UNCHANGED <<seller, made>> /\ UNCHANGED lockVars
       ELSE Release(r)
    /\ UNCHANGED <<sessions, profiles, answered>> /\ UNCHANGED taskVars

\* UPDATE of one of the other matches, in the order of their ranks.
RejectOther(r) ==
    /\ pc[r] = "reject" /\ todo[r] # <<>>
    /\ matchLock[Head(todo[r])] = None
    /\ matchLock' = [matchLock EXCEPT ![Head(todo[r])] = r]
    /\ todo' = [todo EXCEPT ![r] = Tail(@)]
    /\ UNCHANGED <<sessions, profiles, pc, seller, made, rfqLock, answered>> /\ UNCHANGED taskVars

\* UPDATE of the RFQ; the new status is never committed.
ConfirmRfq(r) ==
    /\ pc[r] = "reject" /\ todo[r] = <<>>
    /\ rfqLock = None
    /\ rfqLock' = r
    /\ pc' = [pc EXCEPT ![r] = "select"]
    /\ UNCHANGED <<sessions, profiles, seller, todo, made, matchLock, answered>> /\ UNCHANGED taskVars

\* UPDATE of the match itself.
SelectMatch(r) ==
    /\ pc[r] = "select"
    /\ matchLock[seller[r]] = None
    /\ matchLock' = [matchLock EXCEPT ![seller[r]] = r]
    /\ pc' = [pc EXCEPT ![r] = "check"]
    /\ UNCHANGED <<sessions, profiles, seller, todo, made, rfqLock, answered>> /\ UNCHANGED taskVars

\* POST /v1/sessions goes straight to create_session.
BeginOpen(r, s) ==
    /\ r \in Opens /\ pc[r] = "idle"
    /\ pc' = [pc EXCEPT ![r] = "check"]
    /\ seller' = [seller EXCEPT ![r] = s]
    /\ UNCHANGED <<sessions, profiles, todo, made, answered>> /\ UNCHANGED lockVars
    /\ UNCHANGED taskVars

\* create_session looks for a session of the match, and raises if it has one.
CheckSession(r) ==
    /\ pc[r] = "check"
    /\ IF NoSessionOf(seller[r])
       THEN /\ pc' = [pc EXCEPT ![r] = "profile"]
            /\ todo' = [todo EXCEPT ![r] = <<Buyer, seller[r]>>]
            /\ UNCHANGED <<seller, made>> /\ UNCHANGED lockVars
       ELSE Release(r)
    /\ UNCHANGED <<sessions, profiles, answered>> /\ UNCHANGED taskVars

\* The agent profiles of the buyer and of the seller, made on demand.
ReadProfile(r) ==
    /\ pc[r] = "profile" /\ todo[r] # <<>>
    /\ IF Head(todo[r]) \in profiles
       THEN todo' = [todo EXCEPT ![r] = Tail(@)] /\ UNCHANGED pc
       ELSE pc' = [pc EXCEPT ![r] = "insert"] /\ UNCHANGED todo
    /\ UNCHANGED <<sessions, profiles, seller, made, answered>> /\ UNCHANGED lockVars
    /\ UNCHANGED taskVars

\* An INSERT waits for the end of a transaction that has inserted the same
\* enterprise, and is refused by UNIQUE (enterprise_id) once that one commits.
InsertProfile(r) ==
    /\ pc[r] = "insert"
    /\ \A q \in Requests \ {r} : Head(todo[r]) \notin made[q]
    /\ IF Head(todo[r]) \notin profiles
       THEN /\ made' = [made EXCEPT ![r] = @ \cup {Head(todo[r])}]
            /\ todo' = [todo EXCEPT ![r] = Tail(@)]
            /\ pc' = [pc EXCEPT ![r] = "profile"]
            /\ UNCHANGED seller /\ UNCHANGED lockVars
       ELSE Release(r)
    /\ UNCHANGED <<sessions, profiles, answered>> /\ UNCHANGED taskVars

\* The session is inserted and committed, with the profiles made for it.
CommitSession(r) ==
    /\ pc[r] = "profile" /\ todo[r] = <<>>
    /\ sessions' = [sessions EXCEPT ![seller[r]] = @ \cup {r}]
    /\ profiles' = profiles \cup made[r]
    /\ IF r \in Opens
       THEN Release(r)
       ELSE /\ pc' = [pc EXCEPT ![r] = "publish"]
            /\ made' = [made EXCEPT ![r] = {}]
            /\ UNCHANGED <<seller, todo>> /\ UNCHANGED lockVars
    /\ UNCHANGED answered /\ UNCHANGED taskVars

\* handle_rfq_confirmed makes a session if the match has none; then the request
\* is answered and its database session closed, without a commit.
EndConfirm(r) ==
    /\ pc[r] = "publish"
    /\ sessions' = IF NoSessionOf(seller[r])
                   THEN [sessions EXCEPT ![seller[r]] = {r}] ELSE sessions
    /\ answered' = answered \cup {seller[r]}
    /\ Release(r)
    /\ UNCHANGED profiles /\ UNCHANGED taskVars

\* An exception, a disconnected client, the death of the process.
Fail(r) ==
    /\ pc[r] \notin {"idle", "done"}
    /\ Release(r)
    /\ UNCHANGED <<sessions, profiles, answered>> /\ UNCHANGED taskVars

\* The requests that hold what r is waiting for.
Blockers(r) ==
    CASE pc[r] = "reject" /\ todo[r] # <<>> -> {matchLock[Head(todo[r])]} \ {None}
      [] pc[r] = "reject" /\ todo[r] = <<>> -> {rfqLock} \ {None}
      [] pc[r] = "select" -> {matchLock[seller[r]]} \ {None}
      [] OTHER -> {}

\* r is a member of a cycle of waits, and the one PostgreSQL fails.
DeadlockVictim(r) ==
    /\ Blockers(r) # {}
    /\ \E knot \in SUBSET Requests :
          r \in knot /\ (UNION { Blockers(q) : q \in knot }) = knot
    /\ Release(r)
    /\ UNCHANGED <<sessions, profiles, answered>> /\ UNCHANGED taskVars

-----------------------------------------------------------------------------

TaskStep == TaskReads \/ TaskParses \/ TaskMatches

Advance(r) ==
    \/ LoadMatch(r) \/ RejectOther(r) \/ ConfirmRfq(r) \/ SelectMatch(r)
    \/ CheckSession(r) \/ ReadProfile(r) \/ InsertProfile(r)
    \/ CommitSession(r) \/ EndConfirm(r)

Next ==
    \/ UploadRfq \/ UploadCommits \/ UploadFails
    \/ TaskStep \/ TaskFails
    \/ \E r \in Requests :
          \/ \E s \in Sellers : BeginConfirm(r, s) \/ BeginOpen(r, s)
          \/ Advance(r)
          \/ Fail(r)
          \/ DeadlockVictim(r)

Spec == Init /\ [][Next]_vars

\* The event loop runs whatever can run, a lock that is free is granted, and
\* PostgreSQL looks for cycles of waits after deadlock_timeout.
FairSpec == /\ Spec
            /\ WF_vars(TaskStep)
            /\ \A r \in Requests : WF_vars(Advance(r)) /\ WF_vars(DeadlockVictim(r))

-----------------------------------------------------------------------------
(* Properties.                                                             *)

\* Each variable has its type.
TypeOK ==
    /\ upload \in {"idle", "inserted", "ended"}
    /\ rfq \in Statuses /\ matches \in Rankings \cup {<<>>}
    /\ task \in {"none", "reading", "extracting", "matching", "ended"}
    /\ tries \in 0..Retries
    /\ sessions \in [Sellers -> SUBSET Requests]
    /\ profiles \subseteq {Buyer} \cup Sellers
    /\ pc \in [Requests -> Steps]
    /\ seller \in [Requests -> Sellers \cup {None}]
    /\ made \in [Requests -> SUBSET ({Buyer} \cup Sellers)]
    /\ rfqLock \in Requests \cup {None}
    /\ matchLock \in [Sellers -> Requests \cup {None}]
    /\ answered \subseteq Sellers

\* Two confirmations never open two sessions for one match, although no UNIQUE
\* constraint forbids it: the row locks of the UPDATEs of the RFQ and of the
\* match (services.py:247, 248) are held over the look for a session and the
\* commit of a new one.
ConfirmsSerialise ==
    \A s \in Sellers : \A q, r \in sessions[s] \cap Confirms : q = r

\* The matches of an RFQ and its status MATCHED appear together, whatever the
\* background task meets (services.py:183-188).
MatchedTogether == (matches # <<>>) <=> (rfq = "MATCHED")

\* No agent profile is inserted twice, and none is lost once its session is
\* committed: a committed session has the profiles of both its parties.
SessionsHaveProfiles ==
    \A s \in Sellers : sessions[s] # {} => {Buyer, s} \subseteq profiles

\* Every request ends, although two confirmations of different matches lock
\* the matches' rows in opposite orders (services.py:242-248).
EveryRequestEnds == \A r \in Requests : pc[r] # "idle" ~> pc[r] = "done"

\* confirm_rfq "transitions RFQ to CONFIRMED" (services.py:219): once a
\* confirmation has been answered with success, the RFQ is confirmed.
ConfirmSticks == answered # {} => rfq = "CONFIRMED"
=============================================================================
