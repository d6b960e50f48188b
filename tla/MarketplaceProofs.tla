------------------------- MODULE MarketplaceProofs -------------------------
(***************************************************************************)
(* Proofs about Marketplace, for any sellers and any number of requests.   *)
(* TaskInv is about the RFQ and its background task, ReqInv about the      *)
(* requests that open sessions; neither disturbs the other's variables.    *)
(***************************************************************************)
EXTENDS Marketplace, TLAPS

\* The RFQ is invisible until the upload commits, so the commit is the first
\* status it gets.
TaskInv ==
    /\ upload \in {"idle", "inserted", "ended"}
    /\ rfq \in Statuses /\ matches \in Rankings \cup {<<>>}
    /\ task \in {"none", "reading", "extracting", "matching", "ended"}
    /\ tries \in 0..Retries
    /\ upload # "ended" => rfq = "none"
    /\ MatchedTogether

Types ==
    /\ sessions \in [Sellers -> SUBSET Requests]
    /\ profiles \subseteq {Buyer} \cup Sellers
    /\ pc \in [Requests -> Steps]
    /\ seller \in [Requests -> Sellers \cup {None}]
    /\ made \in [Requests -> SUBSET ({Buyer} \cup Sellers)]
    /\ rfqLock \in Requests \cup {None}
    /\ matchLock \in [Sellers -> Requests \cup {None}]
    /\ answered \subseteq Sellers
    /\ DOMAIN todo = Requests
    /\ \A r \in Requests : pc[r] # "idle" => seller[r] \in Sellers

\* From its UPDATE of the RFQ to its end, a confirmation holds the row's lock.
HoldsLock ==
    \A r \in Confirms :
        pc[r] \in {"select", "check", "profile", "insert", "publish"} => rfqLock = r

\* A request between its look for a session and its commit.
InCreate(r) == pc[r] \in {"profile", "insert"}

\* No confirmation has committed a session for the match of one that is about
\* to do so.
NothingYet == \A r \in Confirms : InCreate(r) => sessions[seller[r]] \cap Confirms = {}

\* A request that has a party behind it knows the party's profile committed,
\* or has inserted it itself.
PartiesDone ==
    \A r \in Requests : InCreate(r) =>
        \/ todo[r] = <<Buyer, seller[r]>>
        \/ todo[r] = <<seller[r]>> /\ Buyer \in profiles \cup made[r]
        \/ /\ todo[r] = <<>> /\ pc[r] = "profile"
           /\ {Buyer, seller[r]} \subseteq profiles \cup made[r]

\* What a confirmation announces is committed.
Opened == \A r \in Requests : pc[r] = "publish" => sessions[seller[r]] # {}

ReqInv == /\ Types /\ HoldsLock /\ NothingYet /\ PartiesDone /\ Opened
          /\ ConfirmsSerialise /\ SessionsHaveProfiles

\* A step of the upload or the task keeps TaskInv: the matches appear with the
\* status, and the status they appear with is that of a parsed RFQ.
LEMMA TaskKeeps ==
    ASSUME TaskInv,
           UploadRfq \/ UploadCommits \/ UploadFails \/ TaskStep \/ TaskFails
    PROVE  TaskInv' /\ UNCHANGED requestVars
<1>1. UNCHANGED requestVars
  BY DEF UploadRfq, UploadCommits, UploadFails, TaskStep, TaskReads, TaskParses,
         TaskMatches, TaskFails
<1>2. \A q \in Rankings : q # <<>>
  BY DEF Rankings
<1>3. CASE UploadRfq
  BY <1>3 DEF TaskInv, UploadRfq, MatchedTogether
<1>4. CASE UploadCommits
  BY <1>4 DEF TaskInv, UploadCommits, MatchedTogether, Statuses
<1>5. CASE UploadFails
  BY <1>5 DEF TaskInv, UploadFails, MatchedTogether
<1>6. CASE TaskReads
  BY <1>6, RetriesAssumption DEF TaskInv, TaskReads, MatchedTogether
<1>7. CASE TaskParses
  BY <1>7 DEF TaskInv, TaskParses, MatchedTogether, CanMarkParsed, Statuses
<1>8. CASE TaskMatches
  BY <1>2, <1>8 DEF TaskInv, TaskMatches, MatchedTogether, CanMarkMatched, Statuses
<1>9. CASE TaskFails
  BY <1>9 DEF TaskInv, TaskFails, MatchedTogether
<1>10. QED
  BY <1>1, <1>3, <1>4, <1>5, <1>6, <1>7, <1>8, <1>9 DEF TaskStep

\* Ending a request keeps ReqInv: it lets go of nothing another one relies on.
LEMMA ReleaseKeeps ==
    ASSUME ReqInv, NEW r \in Requests, Release(r), pc[r] # "idle",
           UNCHANGED <<sessions, profiles>>, answered' \subseteq Sellers
    PROVE  ReqInv'
<1>1. Types'
  BY DEF ReqInv, Types, Release, Steps
<1>2. HoldsLock'
  BY DEF ReqInv, Types, HoldsLock, Release, Requests
<1>3. NothingYet'
  BY DEF ReqInv, Types, NothingYet, InCreate, Release, Requests
<1>4. PartiesDone'
  BY DEF ReqInv, Types, PartiesDone, Opened, InCreate, Release
<1>5. QED
  BY <1>1, <1>2, <1>3, <1>4 DEF ReqInv, Types, Opened, Release, ConfirmsSerialise, SessionsHaveProfiles

\* Steps before the look for a session.
LEMMA BeforeKeeps ==
    ASSUME ReqInv, NEW r \in Requests, NEW s \in Sellers,
           \/ BeginConfirm(r, s) \/ BeginOpen(r, s) \/ LoadMatch(r) \/ RejectOther(r)
           \/ ConfirmRfq(r) \/ SelectMatch(r)
    PROVE  ReqInv' /\ UNCHANGED taskVars
<1>1. CASE BeginConfirm(r, s)
  BY <1>1 DEF ReqInv, Types, HoldsLock, NothingYet, PartiesDone, Opened, InCreate, BeginConfirm,
     ConfirmsSerialise, SessionsHaveProfiles, Requests, Steps, lockVars
<1>2. CASE BeginOpen(r, s)
  BY <1>2, RequestsAssumption DEF ReqInv, Types, HoldsLock, NothingYet, PartiesDone, Opened, InCreate,
     BeginOpen, ConfirmsSerialise, SessionsHaveProfiles, Requests, Steps, lockVars
<1>3. CASE LoadMatch(r)
  <2>1. CASE Release(r)
    BY <1>3, <2>1, ReleaseKeeps DEF LoadMatch, ReqInv, Types
  <2>2. CASE ~ Release(r)
    BY <1>3, <2>2 DEF ReqInv, Types, HoldsLock, NothingYet, PartiesDone, Opened, InCreate, LoadMatch,
       ConfirmsSerialise, SessionsHaveProfiles, Requests, Steps, lockVars
  <2>3. QED
    BY <1>3, <2>1, <2>2 DEF LoadMatch
<1>4. CASE RejectOther(r)
  <2>1. /\ pc[r] = "reject" /\ UNCHANGED <<sessions, profiles, pc, seller, made, rfqLock, answered>>
        /\ matchLock' \in [Sellers -> Requests \cup {None}] /\ DOMAIN todo' = Requests
        /\ \A q \in Requests \ {r} : todo'[q] = todo[q]
    BY <1>4 DEF ReqInv, Types, RejectOther
  <2>2. PartiesDone'
    BY <2>1 DEF ReqInv, PartiesDone, InCreate
  <2>3. QED
    BY <1>4, <2>1, <2>2 DEF ReqInv, Types, HoldsLock, NothingYet, Opened, InCreate,
       ConfirmsSerialise, SessionsHaveProfiles, RejectOther
<1>5. CASE ConfirmRfq(r)
  BY <1>5, RequestsAssumption DEF ReqInv, Types, HoldsLock, NothingYet, PartiesDone, Opened, InCreate,
     ConfirmRfq, ConfirmsSerialise, SessionsHaveProfiles, Requests, Steps
<1>6. CASE SelectMatch(r)
  BY <1>6 DEF ReqInv, Types, HoldsLock, NothingYet, PartiesDone, Opened, InCreate, SelectMatch,
     ConfirmsSerialise, SessionsHaveProfiles, Requests, Steps
<1>7. QED
  BY <1>1, <1>2, <1>3, <1>4, <1>5, <1>6
     DEF BeginConfirm, BeginOpen, LoadMatch, RejectOther, ConfirmRfq, SelectMatch

\* The look for a session, and the agent profiles.
LEMMA CreateKeeps ==
    ASSUME ReqInv, NEW r \in Requests,
           CheckSession(r) \/ ReadProfile(r) \/ InsertProfile(r)
    PROVE  ReqInv' /\ UNCHANGED taskVars
<1>1. CASE CheckSession(r)
  <2>1. CASE Release(r)
    BY <1>1, <2>1, ReleaseKeeps DEF CheckSession, ReqInv, Types
  <2>2. CASE ~ Release(r)
    BY <1>1, <2>2 DEF ReqInv, Types, HoldsLock, NothingYet, PartiesDone, Opened, InCreate, CheckSession,
       NoSessionOf, ConfirmsSerialise, SessionsHaveProfiles, Requests, Steps, lockVars
  <2>3. QED
    BY <1>1, <2>1, <2>2 DEF CheckSession
<1>2. CASE ReadProfile(r)
  <2>1. /\ pc[r] = "profile" /\ pc'[r] \in {"profile", "insert"}
        /\ pc' \in [Requests -> Steps] /\ DOMAIN todo' = Requests
        /\ \A q \in Requests \ {r} : todo'[q] = todo[q] /\ pc'[q] = pc[q]
        /\ UNCHANGED <<sessions, profiles, seller, made, rfqLock, matchLock, answered>>
    BY <1>2 DEF ReqInv, Types, ReadProfile, Steps, lockVars
  <2>2. Types' /\ HoldsLock' /\ NothingYet' /\ Opened'
    BY <2>1 DEF ReqInv, Types, HoldsLock, NothingYet, Opened, InCreate, Requests
  <2>3. PartiesDone'
    <3>1. \/ todo'[r] = todo[r] /\ todo[r] # <<>>
          \/ Head(todo[r]) \in profiles /\ todo'[r] = Tail(todo[r]) /\ pc'[r] = "profile" /\ todo[r] # <<>>
      BY <1>2 DEF ReqInv, Types, ReadProfile
    <3>2. \/ todo[r] = <<Buyer, seller[r]>>
          \/ todo[r] = <<seller[r]>> /\ Buyer \in profiles \cup made[r]
      BY <2>1, <3>1 DEF ReqInv, PartiesDone, InCreate
    <3>3. CASE todo[r] = <<Buyer, seller[r]>>
      BY <2>1, <3>1, <3>3 DEF ReqInv, PartiesDone, InCreate
    <3>4. CASE todo[r] = <<seller[r]>> /\ Buyer \in profiles \cup made[r]
      BY <2>1, <3>1, <3>4 DEF ReqInv, PartiesDone, InCreate
    <3>5. QED
      BY <3>2, <3>3, <3>4
  <2>4. QED
    BY <1>2, <2>1, <2>2, <2>3 DEF ReqInv, ConfirmsSerialise, SessionsHaveProfiles, ReadProfile
<1>3. CASE InsertProfile(r)
  <2>1. CASE Release(r)
    BY <1>3, <2>1, ReleaseKeeps DEF InsertProfile, ReqInv, Types
  <2>2. CASE ~ Release(r)
    <3>1. /\ pc[r] = "insert" /\ pc'[r] = "profile" /\ pc' \in [Requests -> Steps]
          /\ DOMAIN todo' = Requests /\ todo'[r] = Tail(todo[r])
          /\ made' = [made EXCEPT ![r] = @ \cup {Head(todo[r])}]
          /\ \A q \in Requests \ {r} : todo'[q] = todo[q] /\ pc'[q] = pc[q]
          /\ UNCHANGED <<sessions, profiles, seller, rfqLock, matchLock, answered>>
      BY <1>3, <2>2 DEF ReqInv, Types, InsertProfile, Steps, lockVars
    <3>2. /\ seller[r] \in Sellers
          /\ \/ todo[r] = <<Buyer, seller[r]>>
             \/ todo[r] = <<seller[r]>> /\ Buyer \in profiles \cup made[r]
      BY <3>1 DEF ReqInv, Types, PartiesDone, InCreate
    <3>3. Head(todo[r]) \in {Buyer} \cup Sellers
      BY <3>2
    <3>4. Types' /\ HoldsLock' /\ NothingYet' /\ Opened'
      BY <3>1, <3>3 DEF ReqInv, Types, HoldsLock, NothingYet, Opened, InCreate, Requests
    <3>5. made'[r] = made[r] \cup {Head(todo[r])} /\ \A q \in Requests \ {r} : made'[q] = made[q]
      BY <3>1 DEF ReqInv, Types
    <3>6. PartiesDone'
      <4>1. CASE todo[r] = <<Buyer, seller[r]>>
        BY <3>1, <3>5, <4>1 DEF ReqInv, PartiesDone, InCreate
      <4>2. CASE todo[r] = <<seller[r]>> /\ Buyer \in profiles \cup made[r]
        BY <3>1, <3>5, <4>2 DEF ReqInv, PartiesDone, InCreate
      <4>3. QED
        BY <3>2, <4>1, <4>2
    <3>7. QED
      BY <1>3, <3>1, <3>4, <3>6 DEF ReqInv, ConfirmsSerialise, SessionsHaveProfiles, InsertProfile
  <2>3. QED
    BY <1>3, <2>1, <2>2 DEF InsertProfile
<1>4. QED
  BY <1>1, <1>2, <1>3 DEF CheckSession, ReadProfile, InsertProfile

\* The commit of a session.  It is the only confirmation to hold the lock, so
\* no other one is between its look and its commit.
LEMMA CommitKeeps ==
    ASSUME ReqInv, NEW r \in Requests, CommitSession(r)
    PROVE  ReqInv' /\ UNCHANGED taskVars
<1>1. /\ pc[r] = "profile" /\ seller[r] \in Sellers
      /\ sessions' = [sessions EXCEPT ![seller[r]] = @ \cup {r}]
      /\ profiles' = profiles \cup made[r]
      /\ {Buyer, seller[r]} \subseteq profiles'
  BY DEF ReqInv, Types, PartiesDone, Opened, InCreate, CommitSession
<1>2. /\ pc' \in [Requests -> Steps] /\ pc'[r] \in {"done", "publish"}
      /\ pc'[r] = "publish" => rfqLock' = rfqLock
      /\ \A q \in Requests \ {r} : pc'[q] = pc[q] /\ made'[q] = made[q]
      /\ made' \in [Requests -> SUBSET ({Buyer} \cup Sellers)]
      /\ rfqLock' \in {rfqLock, None} /\ (rfqLock # r => rfqLock' = rfqLock)
      /\ matchLock' \in [Sellers -> Requests \cup {None}]
      /\ UNCHANGED <<seller, todo, answered>>
  BY DEF ReqInv, Types, CommitSession, Release, Steps, lockVars
<1>3. Types'
  BY <1>1, <1>2 DEF ReqInv, Types
<1>4. HoldsLock'
  BY <1>2 DEF ReqInv, Types, HoldsLock, CommitSession, Requests
<1>5. \A q \in Confirms : q # r /\ r \in Confirms => ~ InCreate(q)
  BY <1>1 DEF ReqInv, HoldsLock, InCreate
<1>6. NothingYet'
  <2> SUFFICES ASSUME NEW q \in Confirms, InCreate(q)'
               PROVE  (sessions[seller[q]] \cap Confirms = {})'
    BY DEF NothingYet
  <2>1. q # r /\ q \in Requests /\ InCreate(q)
    BY <1>2 DEF InCreate, Requests
  <2>2. r \notin Confirms
    BY <1>5, <2>1
  <2>3. sessions[seller[q]] \cap Confirms = {} /\ seller[q] \in Sellers /\ seller'[q] = seller[q]
    BY <1>2, <2>1 DEF ReqInv, NothingYet, Types, InCreate
  <2>4. QED
    BY <1>1, <2>2, <2>3 DEF ReqInv, Types
<1>7. PartiesDone'
  BY <1>1, <1>2 DEF ReqInv, PartiesDone, InCreate
<1>8. ConfirmsSerialise'
  <2>1. r \in Confirms => sessions[seller[r]] \cap Confirms = {}
    BY <1>1 DEF ReqInv, NothingYet, InCreate
  <2>2. QED
    BY <1>1, <2>1 DEF ReqInv, Types, ConfirmsSerialise
<1>9. SessionsHaveProfiles'
  BY <1>1 DEF ReqInv, Types, SessionsHaveProfiles
<1>10. Opened'
  BY <1>1, <1>2 DEF ReqInv, Types, Opened
<1>11. QED
  BY <1>3, <1>4, <1>6, <1>7, <1>8, <1>9, <1>10 DEF ReqInv, CommitSession

\* The handler of RFQConfirmed finds a session: the request has just committed it.
\* What it would insert otherwise would be the match's only one.
LEMMA EndKeeps ==
    ASSUME ReqInv, NEW r \in Requests,
           EndConfirm(r) \/ Fail(r) \/ DeadlockVictim(r)
    PROVE  ReqInv' /\ UNCHANGED taskVars
<1>1. UNCHANGED <<sessions, profiles>> /\ Release(r)
  BY DEF ReqInv, Opened, EndConfirm, Fail, DeadlockVictim, NoSessionOf
<1>0. pc[r] # "idle"
  BY DEF EndConfirm, Fail, DeadlockVictim, Blockers
<1>2. answered' \subseteq Sellers
  BY DEF ReqInv, Types, EndConfirm, Fail, DeadlockVictim
<1>3. QED
  BY <1>0, <1>1, <1>2, ReleaseKeeps DEF EndConfirm, Fail, DeadlockVictim

MInv == TaskInv /\ ReqInv

\* The invariant always holds.
THEOREM MInvInductive == Spec => []MInv
<1>1. Init => MInv
  BY RetriesAssumption
     DEF Init, MInv, TaskInv, ReqInv, Types, HoldsLock, NothingYet, PartiesDone, Opened, InCreate,
         Statuses, Steps, Requests, ConfirmsSerialise, MatchedTogether, SessionsHaveProfiles
<1>2. MInv /\ [Next]_vars => MInv'
  <2>. SUFFICES ASSUME MInv, [Next]_vars PROVE MInv'
    OBVIOUS
  <2>1. TaskInv /\ ReqInv
    BY DEF MInv
  <2>2. CASE UploadRfq \/ UploadCommits \/ UploadFails \/ TaskStep \/ TaskFails
    <3>1. TaskInv' /\ UNCHANGED requestVars
      BY <2>1, <2>2, TaskKeeps
    <3>2. ReqInv'
      BY <2>1, <3>1 DEF requestVars, ReqInv, Types, HoldsLock, NothingYet, PartiesDone, Opened,
         InCreate, ConfirmsSerialise, SessionsHaveProfiles
    <3>3. QED
      BY <3>1, <3>2 DEF MInv
  <2>3. ASSUME NEW r \in Requests,
               \/ \E s \in Sellers : BeginConfirm(r, s) \/ BeginOpen(r, s)
               \/ Advance(r) \/ Fail(r) \/ DeadlockVictim(r)
        PROVE  MInv'
    <3>1. ReqInv' /\ UNCHANGED taskVars
      <4>1. CASE \E s \in Sellers : BeginConfirm(r, s) \/ BeginOpen(r, s)
        BY <2>1, <4>1, BeforeKeeps
      <4>2. CASE Advance(r)
        <5>1. CASE LoadMatch(r) \/ RejectOther(r) \/ ConfirmRfq(r) \/ SelectMatch(r)
          <6>1. seller[r] \in Sellers
            BY <2>1, <5>1 DEF ReqInv, Types, LoadMatch, RejectOther, ConfirmRfq, SelectMatch
          <6>2. QED
            BY <2>1, <5>1, <6>1, BeforeKeeps
        <5>2. CASE CheckSession(r) \/ ReadProfile(r) \/ InsertProfile(r)
          BY <2>1, <5>2, CreateKeeps
        <5>3. CASE CommitSession(r)
          BY <2>1, <5>3, CommitKeeps
        <5>4. CASE EndConfirm(r)
          BY <2>1, <5>4, EndKeeps
        <5>5. QED
          BY <4>2, <5>1, <5>2, <5>3, <5>4 DEF Advance
      <4>3. CASE Fail(r) \/ DeadlockVictim(r)
        BY <2>1, <4>3, EndKeeps
      <4>4. QED
        BY <2>3, <4>1, <4>2, <4>3
    <3>2. TaskInv'
      BY <2>1, <3>1 DEF TaskInv, MatchedTogether, taskVars
    <3>3. QED
      BY <3>1, <3>2 DEF MInv
  <2>4. CASE UNCHANGED vars
    BY <2>1, <2>4 DEF vars, MInv, TaskInv, ReqInv, Types, HoldsLock, NothingYet, PartiesDone,
       Opened, InCreate, ConfirmsSerialise, MatchedTogether, SessionsHaveProfiles
  <2>5. QED
    BY <2>2, <2>3, <2>4 DEF Next
<1>3. QED
  BY <1>1, <1>2, PTL DEF Spec

\* Every variable keeps its type.
THEOREM MarketplaceTypes == Spec => []TypeOK
<1>1. MInv => TypeOK
  BY DEF MInv, TaskInv, ReqInv, Types, TypeOK
<1>2. QED
  BY <1>1, MInvInductive, PTL

\* Confirmations of one match open at most one session, for any number of
\* concurrent requests.
THEOREM OneSessionPerConfirmedMatch == Spec => []ConfirmsSerialise
<1>1. MInv => ConfirmsSerialise
  BY DEF MInv, ReqInv
<1>2. QED
  BY <1>1, MInvInductive, PTL

\* Matches and the status MATCHED are committed together.
THEOREM MatchingIsAtomic == Spec => []MatchedTogether
<1>1. MInv => MatchedTogether
  BY DEF MInv, TaskInv
<1>2. QED
  BY <1>1, MInvInductive, PTL

\* The parties of a committed session have agent profiles.
THEOREM PartiesHaveProfiles == Spec => []SessionsHaveProfiles
<1>1. MInv => SessionsHaveProfiles
  BY DEF MInv, ReqInv
<1>2. QED
  BY <1>1, MInvInductive, PTL
=============================================================================
