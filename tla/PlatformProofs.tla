--------------------------- MODULE PlatformProofs ---------------------------
(***************************************************************************)
(* Proofs about the circuit breaker, the task queue, capability profiles,  *)
(* exports, providers, tax records, the rate limiter, prices and event     *)
(* streams, for any number of callers, tasks, workers, edits, exports,     *)
(* calls, arrivals, rounds and viewers, and for any worth.                 *)
(***************************************************************************)
EXTENDS CircuitBreaker, TaskQueue, CapabilityProfile, ExportJobs, Providers, TaxRecords,
        RateLimiter, Pricing, EventStream, FiniteSetTheorems, TLAPS

-----------------------------------------------------------------------------
(* CircuitBreaker.                                                         *)

CallerSteps == {"idle", "ask", "dated", "halve", "call", "failed", "date", "date-open",
                "open", "count", "clear", "forget", "close"}

\* Whoever is about to open the circuit has dated the failure.
BreakerInv ==
    /\ callerPc \in [Callers -> CallerSteps] /\ circuit \in {"OPEN", "HALF_OPEN", "CLOSED"}
    /\ OpenHasDate
    /\ \A c \in Callers : callerPc[c] = "open" => lastFailure # "none"

\* A circuit that is open can recover.
THEOREM CircuitCanRecover == BreakerSpec => []OpenHasDate
<1>1. BreakerInit => BreakerInv
  BY DEF BreakerInit, BreakerInv, OpenHasDate, CallerSteps
<1>2. BreakerInv /\ [BreakerNext]_breakerVars => BreakerInv'
  <2> SUFFICES ASSUME BreakerInv, [BreakerNext]_breakerVars
               PROVE  BreakerInv'
    OBVIOUS
  <2> USE DEF BreakerInv, OpenHasDate, CallerGoes, CallerSteps
  <2>1. ASSUME NEW c \in Callers, CallerAdvances(c)
        PROVE  BreakerInv'
    <3>1. CASE SetOpen(c) \/ DateFailure(c)
      BY <3>1 DEF SetOpen, DateFailure
    <3>2. CASE GetState(c) \/ GetDate(c) \/ SetHalfOpen(c)
      <4>1. \A state \in {"OPEN", "HALF_OPEN", "CLOSED"} :
               Told(c, state) \in {"idle", "call", "count", "forget"}
        BY DEF Told
      <4>2. PICK step \in CallerSteps \ {"open"} : callerPc' = [callerPc EXCEPT ![c] = step]
        BY <3>2, <4>1 DEF GetState, GetDate, SetHalfOpen
      <4>3. UNCHANGED lastFailure /\ (circuit' = circuit \/ circuit' = "HALF_OPEN")
        BY <3>2 DEF GetState, GetDate, SetHalfOpen
      <4>4. QED
        BY <4>2, <4>3
    <3>3. CASE BeginCall(c) \/ CallService(c) \/ CountFailure(c)
      BY <3>3 DEF BeginCall, CallService, CountFailure
    <3>4. CASE CountSuccess(c) \/ ClearCounters(c) \/ SetClosed(c)
      BY <3>4 DEF CountSuccess, ClearCounters, SetClosed
    <3>5. QED
      BY <2>1, <3>1, <3>2, <3>3, <3>4 DEF CallerAdvances
  <2>2. ASSUME NEW c \in Callers, CallerDies(c) \/ SuccessFails(c)
        PROVE  BreakerInv'
    BY <2>2 DEF CallerDies, SuccessFails
  <2>3. CASE DateAges \/ HealthChanges
    BY <2>3 DEF DateAges, HealthChanges
  <2>4. CASE UNCHANGED breakerVars
    BY <2>4 DEF breakerVars
  <2>5. QED
    BY <2>1, <2>2, <2>3, <2>4 DEF BreakerNext
<1>3. BreakerInv => OpenHasDate
  BY DEF BreakerInv
<1>4. QED
  BY <1>1, <1>2, <1>3, PTL DEF BreakerSpec

-----------------------------------------------------------------------------
(* CapabilityProfile.                                                      *)

EditSteps == {"idle", "read again", "update", "insert", "schedule", "commit", "done"}

\* While nothing has gone amiss, a text without an embedding has somebody at
\* work on it; while an edit stands, all who have read have read its text.
ProfileTypes ==
    /\ editPc \in [Edits -> EditSteps]
    /\ taskPc \in [Jobs -> {"none", "read", "embed", "commit", "done"}]
    /\ copyOf \in [Jobs -> Edits \cup {Empty}]
    /\ textOf \in [Edits -> Edits \cup {Empty}]
    /\ standing \subseteq Edits
RowIsOne ==
    /\ \A r, s \in profileRow : r = s
    /\ \A r \in profileRow : r.text \in Edits \cup {Empty}
Scheduled == \A e \in Edits : editPc[e] = "commit" => taskPc[e] # "none"
AtWork == \E j \in Jobs : taskPc[j] \in {"read", "embed", "commit"}
WorkedOn == ~amiss => \A r \in profileRow : r.text # Empty /\ r.of = {} => AtWork
ReadersAgree ==
    \A e \in standing, j \in Jobs : taskPc[j] \in {"embed", "commit"} => copyOf[j] = textOf[e]

ProfileInv ==
    ProfileTypes /\ RowIsOne /\ Scheduled /\ EmbeddingFitsText /\ WorkedOn /\ LastEditStands /\ ReadersAgree

\* The steps of a PUT before its commit, and its failure, leave the row alone.
LEMMA PutLeavesRow ==
    ASSUME ProfileInv, NEW e \in Edits, NEW step \in EditSteps,
           editPc' = [editPc EXCEPT ![e] = step],
           \/ step # "commit" /\ taskPc' = taskPc
           \/ taskPc' = [taskPc EXCEPT ![e] = "read"],
           UNCHANGED <<profileRow, textOf, copyOf, amiss, standing>>
    PROVE  ProfileInv'
<1>1. /\ taskPc' \in [Jobs -> {"none", "read", "embed", "commit", "done"}]
      /\ \A j \in Jobs : taskPc'[j] = taskPc[j] \/ (j = e /\ taskPc'[j] = "read")
      /\ step = "commit" => taskPc'[e] = "read"
  BY DEF ProfileInv, ProfileTypes, Jobs
<1>2. ProfileTypes' /\ \A f \in Edits : editPc'[f] = IF f = e THEN step ELSE editPc[f]
  BY <1>1 DEF ProfileInv, ProfileTypes
<1>3. RowIsOne' /\ EmbeddingFitsText' /\ LastEditStands'
  BY DEF ProfileInv, RowIsOne, EmbeddingFitsText, LastEditStands
<1>4. Scheduled'
  BY <1>1, <1>2 DEF ProfileInv, Scheduled, Jobs
<1>5. AtWork => AtWork'
  BY <1>1 DEF AtWork
<1>6. WorkedOn'
  BY <1>5 DEF ProfileInv, WorkedOn
<1>7. ReadersAgree'
  BY <1>1 DEF ProfileInv, ReadersAgree
<1>8. QED
  BY <1>2, <1>3, <1>4, <1>6, <1>7 DEF ProfileInv

\* The commit of a PUT that has written the row, or has not.
LEMMA CommitKeepsProfile ==
    ASSUME ProfileInv, NEW e \in Edits, CommitEdit(e)
    PROVE  ProfileInv'
<1>1. /\ editPc[e] = "commit" /\ editPc' = [editPc EXCEPT ![e] = "done"]
      /\ UNCHANGED <<textOf, taskPc, copyOf>>
  BY DEF CommitEdit, EditGoes
<1>2. CASE PutOf(e) \notin profileLock
  <2>1. UNCHANGED <<profileRow, amiss, standing>>
    BY <1>2 DEF CommitEdit
  <2>2. QED
    BY <1>1, <2>1, PutLeavesRow DEF EditSteps
<1>3. CASE PutOf(e) \in profileLock
  <2> DEFINE new == [text |-> textOf[e], of |-> {}]
  <2>1. new.text = textOf[e] /\ new.of = {} /\ textOf[e] \in Edits \cup {Empty}
    BY DEF ProfileInv, ProfileTypes
  <2>2. /\ profileRow' = {new}
        /\ amiss' = (amiss \/ taskPc[e] \in {"embed", "commit", "done"})
        /\ standing' = IF Overtaken THEN {} ELSE {e}
    BY <1>3 DEF CommitEdit
  <2> HIDE DEF new
  <2>3. e \in Jobs /\ taskPc[e] \in {"read", "embed", "commit", "done"}
    BY <1>1 DEF ProfileInv, ProfileTypes, Scheduled, Jobs
  <2>4. /\ standing' \subseteq {e}
        /\ \A f \in standing', j \in Jobs : taskPc[j] \notin {"embed", "commit"}
    BY <2>2 DEF Overtaken
  <2>5. ProfileTypes'
    BY <1>1, <2>4 DEF ProfileInv, ProfileTypes, EditSteps
  <2>6. RowIsOne' /\ EmbeddingFitsText'
    BY <1>1, <2>1, <2>2 DEF RowIsOne, EmbeddingFitsText
  <2>7. Scheduled'
    BY <1>1 DEF ProfileInv, ProfileTypes, Scheduled
  <2>8. WorkedOn'
    BY <1>1, <2>2, <2>3 DEF WorkedOn, AtWork
  <2>9. LastEditStands'
    BY <1>1, <2>1, <2>2, <2>4 DEF LastEditStands
  <2>10. ReadersAgree'
    BY <1>1, <2>4 DEF ReadersAgree
  <2>11. QED
    BY <2>5, <2>6, <2>7, <2>8, <2>9, <2>10 DEF ProfileInv
<1>4. QED
  BY <1>2, <1>3

\* The steps of a PUT.
LEMMA EditKeeps ==
    ASSUME ProfileInv, NEW e \in Edits,
           \/ ReadProfile(e) \/ ReadAgain(e) \/ UpdateProfile(e) \/ InsertProfile(e)
           \/ ScheduleRecompute(e) \/ CommitEdit(e) \/ EditFails(e)
    PROVE  ProfileInv'
<1>1. CASE ReadProfile(e) \/ ReadAgain(e) \/ UpdateProfile(e) \/ InsertProfile(e) \/ EditFails(e)
  <2>1. /\ \E step \in EditSteps \ {"commit"} : editPc' = [editPc EXCEPT ![e] = step]
        /\ UNCHANGED <<profileRow, textOf, taskPc, copyOf, amiss, standing>>
    BY <1>1 DEF ReadProfile, ReadAgain, UpdateProfile, InsertProfile, EditFails,
                EditGoes, EditSteps
  <2>2. QED
    BY <2>1, PutLeavesRow
<1>2. CASE ScheduleRecompute(e)
  BY <1>2, PutLeavesRow DEF ScheduleRecompute, EditGoes, TaskGoes, EditSteps
<1>3. CASE CommitEdit(e)
  BY <1>3, CommitKeepsProfile
<1>4. QED
  BY <1>1, <1>2, <1>3

\* A recomputation that starts, or comes to wait, or ends without a row to embed.
LEMMA TaskLeavesRow ==
    ASSUME ProfileInv, NEW j \in Jobs, NEW step \in {"read", "embed", "commit", "done"},
           taskPc' = [taskPc EXCEPT ![j] = step],
           copyOf' \in [Jobs -> Edits \cup {Empty}],
           \A k \in Jobs : k # j => copyOf'[k] = copyOf[k],
           step \in {"embed", "commit"} => \A e \in standing : copyOf'[j] = textOf[e],
           UNCHANGED <<profileRow, editPc, textOf, standing>>,
           amiss => amiss',
           step = "done" =>
              amiss' \/ \A r \in profileRow : r.text = Empty
    PROVE  ProfileInv'
<1>1. /\ taskPc' \in [Jobs -> {"none", "read", "embed", "commit", "done"}]
      /\ \A k \in Jobs : taskPc'[k] = IF k = j THEN step ELSE taskPc[k]
  BY DEF ProfileInv, ProfileTypes
<1>2. ProfileTypes'
  BY <1>1 DEF ProfileInv, ProfileTypes
<1>3. RowIsOne' /\ EmbeddingFitsText' /\ LastEditStands'
  BY DEF ProfileInv, RowIsOne, EmbeddingFitsText, LastEditStands
<1>4. Scheduled'
  BY <1>1 DEF ProfileInv, Scheduled, Jobs
<1>5. step # "done" => AtWork'
  BY <1>1 DEF AtWork
<1>6. WorkedOn'
  BY <1>5 DEF ProfileInv, WorkedOn
<1>7. ReadersAgree'
  BY <1>1 DEF ProfileInv, ReadersAgree
<1>8. QED
  BY <1>2, <1>3, <1>4, <1>6, <1>7 DEF ProfileInv

\* The steps of a recomputation.
LEMMA RecomputeKeeps ==
    ASSUME ProfileInv, NEW j \in Jobs,
           \/ AskRecompute(j) \/ ReadCommitted(j) \/ WriteEmbedding(j)
           \/ CommitEmbedding(j) \/ RecomputeFails(j)
    PROVE  ProfileInv'
<1>1. copyOf \in [Jobs -> Edits \cup {Empty}]
  BY DEF ProfileInv, ProfileTypes
<1>2. CASE AskRecompute(j)
  BY <1>1, <1>2, TaskLeavesRow DEF AskRecompute, TaskGoes
<1>3. CASE ReadCommitted(j)
  <2>1. UNCHANGED <<profileRow, profileLock, editPc, found, textOf, amiss, standing>>
    BY <1>3 DEF ReadCommitted
  <2>2. CASE profileRow = {}
    BY <1>1, <1>3, <2>1, <2>2, TaskLeavesRow DEF ReadCommitted, TaskGoes
  <2>3. ASSUME NEW r \in profileRow
        PROVE  ProfileInv'
    <3> DEFINE step == IF r.text = Empty THEN "done" ELSE "embed"
    <3>1. profileRow = {r} /\ r.text \in Edits \cup {Empty}
      BY <2>3 DEF ProfileInv, RowIsOne
    <3>2. copyOf' = [copyOf EXCEPT ![j] = r.text] /\ taskPc' = [taskPc EXCEPT ![j] = step]
      BY <1>3, <3>1 DEF ReadCommitted, TaskGoes
    <3>3. \A e \in standing : textOf[e] = r.text
      BY <3>1 DEF ProfileInv, LastEditStands
    <3>4. /\ copyOf' \in [Jobs -> Edits \cup {Empty}]
          /\ copyOf'[j] = r.text /\ \A k \in Jobs : k # j => copyOf'[k] = copyOf[k]
      BY <1>1, <3>1, <3>2
    <3>5. step \in {"embed", "done"} /\ (step = "done" => r.text = Empty)
      OBVIOUS
    <3> HIDE DEF step
    <3>6. /\ step \in {"read", "embed", "commit", "done"}
          /\ step \in {"embed", "commit"} => \A e \in standing : copyOf'[j] = textOf[e]
          /\ step = "done" => amiss' \/ \A s \in profileRow : s.text = Empty
      BY <3>1, <3>3, <3>4, <3>5
    <3>7. QED
      BY <2>1, <3>2, <3>4, <3>6, TaskLeavesRow
  <2>4. QED
    BY <2>2, <2>3
<1>4. CASE WriteEmbedding(j)
  <2>1. /\ taskPc[j] = "embed" /\ taskPc' = [taskPc EXCEPT ![j] = "commit"]
        /\ UNCHANGED <<profileRow, editPc, textOf, copyOf, amiss, standing>>
    BY <1>4 DEF WriteEmbedding, TaskGoes
  <2>2. \A e \in standing : copyOf'[j] = textOf[e]
    BY <2>1 DEF ProfileInv, ReadersAgree
  <2>3. QED
    BY <1>1, <2>1, <2>2, TaskLeavesRow
<1>5. CASE CommitEmbedding(j)
  <2> DEFINE new == [text |-> copyOf[j], of |-> {copyOf[j]}]
  <2>1. /\ taskPc[j] = "commit" /\ taskPc' = [taskPc EXCEPT ![j] = "done"]
        /\ profileRow' = {new}
        /\ UNCHANGED <<editPc, textOf, copyOf, amiss, standing>>
    BY <1>5 DEF CommitEmbedding, TaskGoes
  <2>2. new.text = copyOf[j] /\ new.of = {copyOf[j]} /\ copyOf[j] \in Edits \cup {Empty}
    BY <1>1
  <2> HIDE DEF new
  <2>3. /\ taskPc' \in [Jobs -> {"none", "read", "embed", "commit", "done"}]
        /\ \A k \in Jobs : taskPc'[k] = IF k = j THEN "done" ELSE taskPc[k]
    BY <2>1 DEF ProfileInv, ProfileTypes
  <2>4. ProfileTypes'
    BY <2>1, <2>3 DEF ProfileInv, ProfileTypes
  <2>5. RowIsOne' /\ EmbeddingFitsText'
    BY <2>1, <2>2 DEF RowIsOne, EmbeddingFitsText
  <2>6. Scheduled'
    BY <2>1, <2>3 DEF ProfileInv, Scheduled, Jobs
  <2>7. WorkedOn'
    BY <2>1, <2>2 DEF WorkedOn
  <2>8. \A e \in standing : copyOf[j] = textOf[e]
    BY <2>1 DEF ProfileInv, ReadersAgree
  <2>9. LastEditStands'
    BY <2>1, <2>2, <2>8 DEF LastEditStands
  <2>10. ReadersAgree'
    BY <2>1, <2>3 DEF ProfileInv, ReadersAgree
  <2>11. QED
    BY <2>4, <2>5, <2>6, <2>7, <2>9, <2>10 DEF ProfileInv
<1>6. CASE RecomputeFails(j)
  BY <1>1, <1>6, TaskLeavesRow DEF RecomputeFails, TaskGoes
<1>7. QED
  BY <1>2, <1>3, <1>4, <1>5, <1>6

\* What both theorems follow from.
LEMMA ProfileInvHolds == ProfileSpec => []ProfileInv
<1>1. ProfileInit => ProfileInv
  BY ProfileAssumption DEF ProfileInit, ProfileInv, ProfileTypes, EditSteps, RowIsOne, Scheduled,
        EmbeddingFitsText, WorkedOn, LastEditStands, ReadersAgree
<1>2. ProfileInv /\ [ProfileNext]_profileVars => ProfileInv'
  <2>1. ProfileInv /\ UNCHANGED profileVars => ProfileInv'
    <3> SUFFICES ASSUME ProfileInv, UNCHANGED profileVars
                 PROVE  ProfileInv'
      OBVIOUS
    <3>1. UNCHANGED <<profileRow, editPc, textOf, taskPc, copyOf, amiss, standing>>
      BY DEF profileVars
    <3>2. ProfileTypes' /\ RowIsOne' /\ Scheduled'
      BY <3>1 DEF ProfileInv, ProfileTypes, RowIsOne, Scheduled
    <3>3. EmbeddingFitsText' /\ LastEditStands' /\ ReadersAgree'
      BY <3>1 DEF ProfileInv, EmbeddingFitsText, LastEditStands, ReadersAgree
    <3>4. AtWork' <=> AtWork
      BY <3>1 DEF AtWork
    <3>5. WorkedOn'
      BY <3>1, <3>4 DEF ProfileInv, WorkedOn
    <3>6. QED
      BY <3>2, <3>3, <3>5 DEF ProfileInv
  <2>2. ProfileInv /\ ProfileNext => ProfileInv'
    BY EditKeeps, RecomputeKeeps DEF ProfileNext
  <2>3. QED
    BY <2>1, <2>2
<1>3. QED
  BY <1>1, <1>2, PTL DEF ProfileSpec

\* Whatever edits and recomputations overlap, an embedding is of the text beside
\* it, and in the end it is there, unless a task failed or was too fast.
THEOREM EmbeddingsAreCurrent == ProfileSpec => []EmbeddingIsCurrent
<1>1. ProfileInv => EmbeddingIsCurrent
  <2>1. ProfileInv /\ (\A j \in Jobs : taskPc[j] \in {"none", "done"}) => ~AtWork
    BY DEF AtWork
  <2>2. QED
    BY <2>1 DEF ProfileInv, WorkedOn, EmbeddingIsCurrent, EmbeddedAtRest
<1>2. QED
  BY <1>1, ProfileInvHolds, PTL

\* The last edit that wrote the row stands, for any number of edits and
\* recomputations, unless one of these had read when it was committed.
THEOREM EditsStand == ProfileSpec => []LastEditStands
<1>1. ProfileInv => LastEditStands
  BY DEF ProfileInv
<1>2. QED
  BY <1>1, ProfileInvHolds, PTL

-----------------------------------------------------------------------------
(* Providers.                                                              *)

\* verify asks about a submission made for the company it answers for.
VerifyInv ==
    /\ DOMAIN submitted = Companies /\ DOMAIN polls = Companies
    /\ \A e \in Companies : \A c \in submitted[e] \cup polls[e] : CompanyOf[c] = e
    /\ verified \subseteq Companies
    /\ VerifiedWasApproved

\* A company is verified on the strength of its own documents.
THEOREM VerifiedByItsDocuments == ProvidersSpec => []VerifiedWasApproved
<1>1. ProvidersInit => VerifyInv
  BY DEF ProvidersInit, VerifyInv, VerifiedWasApproved
<1>2. VerifyInv /\ [ProvidersNext]_providerVars => VerifyInv'
  <2> SUFFICES ASSUME VerifyInv, [ProvidersNext]_providerVars
               PROVE  VerifyInv'
    OBVIOUS
  <2> USE DEF VerifyInv, VerifiedWasApproved
  <2>1. ASSUME NEW c, CallAdvances(c)
        PROVE  VerifyInv'
    <3>1. CASE SubmitDocuments(c)
      BY <3>1 DEF SubmitDocuments
    <3>2. CASE ~SubmitDocuments(c)
      BY <2>1, <3>2 DEF CallAdvances, BeginCallOf, ConvertInrToUsdc, ConvertUsdcToInr, DeliverWebhook
    <3>3. QED
      BY <3>1, <3>2
  <2>2. ASSUME NEW c, Approve(c)
        PROVE  VerifyInv'
    BY <2>2 DEF Approve
  <2>3. ASSUME NEW e \in Companies, BeginVerify(e)
        PROVE  VerifyInv'
    BY <2>3 DEF BeginVerify
  <2>4. ASSUME NEW e \in Companies, Verify(e)
        PROVE  VerifyInv'
    BY <2>4 DEF Verify
  <2>5. ASSUME NEW p, ResetCircuit(p)
        PROVE  VerifyInv'
    BY <2>5 DEF ResetCircuit
  <2>6. CASE UNCHANGED providerVars
    BY <2>6 DEF providerVars
  <2>7. QED
    BY <2>1, <2>2, <2>3, <2>4, <2>5, <2>6 DEF ProvidersNext, OrdersNext, DocumentsNext
<1>3. VerifyInv => VerifiedWasApproved
  BY DEF VerifyInv
<1>4. QED
  BY <1>1, <1>2, <1>3, PTL DEF ProvidersSpec

\* As many calls as the count of an adapter says have ended last, all exhausted.
CountInv ==
    /\ inARow \in [Adapters -> Nat]
    /\ endings \in [Adapters -> Seq({"ok", "exhausted"})]
    /\ DOMAIN circuitOpen = Adapters
    /\ \A p \in Adapters :
          /\ inARow[p] <= Len(endings[p])
          /\ \A i \in Len(endings[p]) - inARow[p] + 1..Len(endings[p]) : endings[p][i] = "exhausted"

CircuitStep ==
    \A p \in Adapters : circuitOpen'[p] /\ ~circuitOpen[p] =>
       LET n == Len(endings'[p])
       IN  /\ n >= CircuitThreshold
           /\ \A i \in n - CircuitThreshold + 1..n : endings'[p][i] = "exhausted"

\* A call that ends.
LEMMA CallEnds ==
    ASSUME CountInv, NEW c, Succeeds(c) \/ Exhausts(c)
    PROVE  CountInv' /\ CircuitStep
<1> USE ProvidersAssumption
<1> DEFINE p == AdapterOf(c)
<1>1. p \in Adapters
  BY DEF AdapterOf, Adapters
<1>2. Len(endings[p]) \in Nat /\ inARow[p] \in Nat
  BY <1>1 DEF CountInv
<1>3. CASE Succeeds(c)
  <2>1. /\ endings' = [endings EXCEPT ![p] = Append(endings[p], "ok")]
        /\ inARow' = [inARow EXCEPT ![p] = 0] /\ UNCHANGED circuitOpen
    BY <1>3 DEF Succeeds, CountInv
  <2> HIDE DEF p
  <2>2. QED
    BY <1>1, <1>2, <2>1 DEF CountInv, CircuitStep
<1>4. CASE Exhausts(c)
  <2>1. /\ endings' = [endings EXCEPT ![p] = Append(endings[p], "exhausted")]
        /\ inARow' = [inARow EXCEPT ![p] = inARow[p] + 1]
        /\ circuitOpen' = [circuitOpen EXCEPT ![p] = @ \/ inARow[p] + 1 >= CircuitThreshold]
    BY <1>4 DEF Exhausts, CountInv
  <2> HIDE DEF p
  <2>2. CountInv'
    <3>1. /\ inARow' \in [Adapters -> Nat] /\ endings' \in [Adapters -> Seq({"ok", "exhausted"})]
          /\ DOMAIN circuitOpen' = Adapters
      <4>1. endings[p] \in Seq({"ok", "exhausted"})
        BY <1>1 DEF CountInv
      <4>2. Append(endings[p], "exhausted") \in Seq({"ok", "exhausted"}) /\ inARow[p] + 1 \in Nat
        BY <1>2, <4>1
      <4>3. QED
        BY <1>1, <2>1, <4>2 DEF CountInv
    <3>2. ASSUME NEW q \in Adapters
          PROVE  /\ inARow'[q] <= Len(endings'[q])
                 /\ \A i \in Len(endings'[q]) - inARow'[q] + 1..Len(endings'[q]) :
                       endings'[q][i] = "exhausted"
      <4>1. CASE q = p
        <5> DEFINE e == endings[p]
                   k == inARow[p]
        <5>1. /\ e \in Seq({"ok", "exhausted"}) /\ Len(e) \in Nat /\ k \in Nat /\ k <= Len(e)
              /\ \A i \in Len(e) - k + 1..Len(e) : e[i] = "exhausted"
          BY <1>1 DEF CountInv
        <5>2. endings'[q] = Append(e, "exhausted") /\ inARow'[q] = k + 1
          BY <1>1, <2>1, <4>1 DEF CountInv
        <5> HIDE DEF e, k
        <5>3. /\ Len(Append(e, "exhausted")) = Len(e) + 1
              /\ \A i \in 1..Len(e) + 1 : Append(e, "exhausted")[i] =
                                             IF i = Len(e) + 1 THEN "exhausted" ELSE e[i]
          BY <5>1
        <5>4. \A i \in (Len(e) + 1) - (k + 1) + 1..Len(e) + 1 :
                 Append(e, "exhausted")[i] = "exhausted"
          BY <5>1, <5>3
        <5>5. QED
          BY <5>1, <5>2, <5>3, <5>4
      <4>2. CASE q # p
        BY <1>1, <2>1, <4>2 DEF CountInv
      <4>3. QED
        BY <4>1, <4>2
    <3>3. QED
      BY <3>1, <3>2 DEF CountInv
  <2>3. \A q \in Adapters : circuitOpen'[q] /\ ~circuitOpen[q] => inARow'[q] >= CircuitThreshold
    BY <1>1, <1>2, <2>1 DEF CountInv
  <2>4. \A q \in Adapters : Len(endings'[q]) \in Nat /\ inARow'[q] \in Nat
    BY <2>2 DEF CountInv
  <2>5. CircuitThreshold \in Nat
    OBVIOUS
  <2>6. QED
    BY <2>2, <2>3, <2>4, <2>5 DEF CountInv, CircuitStep
<1>5. QED
  BY <1>3, <1>4

\* Each step of the adapters.
LEMMA CountKeeps ==
    ASSUME CountInv, ProvidersNext
    PROVE  CountInv' /\ CircuitStep
<1>1. ASSUME UNCHANGED <<circuitOpen, inARow, endings>>
      PROVE  CountInv' /\ CircuitStep
  BY <1>1 DEF CountInv, CircuitStep
<1>2. ASSUME NEW c, CallAdvances(c)
      PROVE  CountInv' /\ CircuitStep
  BY <1>1, <1>2, CallEnds DEF CallAdvances, BeginCallOf, ConvertInrToUsdc, ConvertUsdcToInr,
     SubmitDocuments, DeliverWebhook, Retries
<1>3. ASSUME NEW p, ResetCircuit(p)
      PROVE  CountInv' /\ CircuitStep
  <2>1. /\ circuitOpen' = [circuitOpen EXCEPT ![p] = FALSE]
        /\ inARow' = [inARow EXCEPT ![p] = 0]
        /\ UNCHANGED endings
    BY <1>3 DEF ResetCircuit
  <2>2. \A q \in Adapters : circuitOpen'[q] => circuitOpen[q]
    BY <2>1 DEF CountInv
  <2>3. \A q \in Adapters : inARow'[q] = 0 \/ inARow'[q] = inARow[q]
    BY <2>1 DEF CountInv
  <2>4. \A q \in Adapters : Len(endings[q]) \in Nat /\ inARow[q] \in Nat
    BY DEF CountInv
  <2>5. \A q \in Adapters :
           /\ inARow'[q] <= Len(endings[q])
           /\ \A i \in Len(endings[q]) - inARow'[q] + 1..Len(endings[q]) : endings[q][i] = "exhausted"
    BY <2>3, <2>4 DEF CountInv
  <2>6. inARow' \in [Adapters -> Nat] /\ DOMAIN circuitOpen' = Adapters
    BY <2>1 DEF CountInv
  <2>7. QED
    BY <2>1, <2>2, <2>5, <2>6 DEF CountInv, CircuitStep
<1>4. ASSUME NEW x, Approve(x) \/ BeginVerify(x) \/ Verify(x)
      PROVE  CountInv' /\ CircuitStep
  BY <1>1, <1>4 DEF Approve, BeginVerify, Verify
<1>5. QED
  BY <1>2, <1>3, <1>4 DEF ProvidersNext, OrdersNext, DocumentsNext

\* A circuit opens only after as many exhausted calls in a row as the threshold,
\* however the calls of an adapter interleave.
THEOREM CircuitsAreEarned == ProvidersSpec => CircuitEarned
<1>1. ProvidersInit => CountInv
  BY DEF ProvidersInit, CountInv
<1>2. CountInv /\ [ProvidersNext]_providerVars => CountInv' /\ [CircuitStep]_providerVars
  <2>1. CountInv /\ UNCHANGED providerVars => CountInv'
    BY DEF providerVars, CountInv
  <2>2. QED
    BY <2>1, CountKeeps
<1>3. ProvidersSpec => [][CircuitStep]_providerVars
  BY <1>1, <1>2, PTL DEF ProvidersSpec
<1>4. QED
  BY <1>3 DEF CircuitEarned, CircuitStep

-----------------------------------------------------------------------------
(* TaxRecords.                                                             *)

\* Rounding is within half a unit.
LEMMA QuantizedToTen ==
    ASSUME NEW n \in Nat
    PROVE  Quantized(n, 10) \in Nat /\ 10 * Quantized(n, 10) - n \in (-5)..5
BY DEF Quantized

\* The same for a hundred.
LEMMA QuantizedToHundred ==
    ASSUME NEW n \in Nat
    PROVE  Quantized(n, 100) \in Nat /\ 100 * Quantized(n, 100) - n \in (-50)..50
BY DEF Quantized

\* A record is that of a supply.
TaxInv ==
    /\ \A x \in supply : x.worth \in Nat
    /\ \A r \in records : \E w \in Nat : \E b, s :
          r = [fema |-> FemaRecord(w), gst |-> GstRecord(w, b, s)]

\* For a supply of any worth the two records agree, and the tax and the form are
\* what the amount calls for.
THEOREM RecordsAlwaysAddUp == TaxSpec => []RecordsAddUp
<1>1. TaxInit => TaxInv
  BY DEF TaxInit, TaxInv
<1>2. TaxInv /\ [TaxNext]_taxVars => TaxInv'
  <2> SUFFICES ASSUME TaxInv, [TaxNext]_taxVars
               PROVE  TaxInv'
    OBVIOUS
  <2>1. CASE ReleaseSupply
    BY <2>1, TaxAssumption DEF ReleaseSupply, TaxInv
  <2>2. CASE GenerateRecords
    BY <2>2 DEF GenerateRecords, TaxInv
  <2>3. CASE UNCHANGED taxVars
    BY <2>3 DEF taxVars, TaxInv
  <2>4. QED
    BY <2>1, <2>2, <2>3 DEF TaxNext
<1>3. TaxInv => RecordsAddUp
  <2> SUFFICES ASSUME NEW w \in Nat, NEW b, NEW s, NEW r,
                      r = [fema |-> FemaRecord(w), gst |-> GstRecord(w, b, s)]
               PROVE  /\ r.fema.amount = r.gst.taxable
                      /\ (100 * TotalTax(r.gst) - 18 * r.gst.taxable) \in (-100)..100
                      /\ (10 * r.fema.amount > CertificateFrom => r.fema.form = "15CB")
                      /\ (r.fema.form = "15CB" => 10 * r.fema.amount >= CertificateFrom)
    BY DEF TaxInv, RecordsAddUp
  <2> DEFINE paise == Quantized(w, 10)
  <2>1. /\ r.fema.amount = paise /\ r.gst.taxable = paise
        /\ r.fema.form = IF w >= CertificateFrom THEN "15CB" ELSE "15CA"
        /\ r.gst.tax = Intrastate(paise) \/ r.gst.tax = Interstate(paise)
    BY DEF FemaRecord, GstRecord
  <2>2. paise \in Nat /\ 10 * paise - w \in (-5)..5
    BY QuantizedToTen
  <2> HIDE DEF paise
  <2>3. (100 * TotalTax(r.gst) - 18 * paise) \in (-100)..100
    <3>1. CASE r.gst.tax = Intrastate(paise)
      <4>1. paise * 9 \in Nat
        BY <2>2
      <4>2. Quantized(paise * 9, 100) \in Nat /\ 100 * Quantized(paise * 9, 100) - paise * 9 \in (-50)..50
        BY <4>1, QuantizedToHundred
      <4>3. TotalTax(r.gst) = Quantized(paise * 9, 100) + Quantized(paise * 9, 100)
        BY <3>1, <4>2 DEF TotalTax, Intrastate
      <4>4. QED
        BY <2>2, <4>2, <4>3
    <3>2. CASE r.gst.tax = Interstate(paise)
      <4>1. paise * 18 \in Nat
        BY <2>2
      <4>2. Quantized(paise * 18, 100) \in Nat /\ 100 * Quantized(paise * 18, 100) - paise * 18 \in (-50)..50
        BY <4>1, QuantizedToHundred
      <4>3. TotalTax(r.gst) = Quantized(paise * 18, 100)
        BY <3>2, <4>2 DEF TotalTax, Interstate
      <4>4. QED
        BY <2>2, <4>2, <4>3
    <3>3. QED
      BY <2>1, <3>1, <3>2
  <2>4. QED
    BY <2>1, <2>2, <2>3 DEF CertificateFrom
<1>4. QED
  BY <1>1, <1>2, <1>3, PTL DEF TaxSpec

-----------------------------------------------------------------------------
(* ExportJobs.                                                             *)

Records == [fema : SUBSET Escrowed, gst : SUBSET Escrowed]

\* One job: it has gathered what was known of the escrows it has gone through,
\* and of no escrow the FEMA record without the GST record, except of the one
\* it is at.
ExportOK(x) ==
    /\ at[x] \in 0..Len(Wanted[x])
    /\ known[x].fema \subseteq femaRows /\ known[x].gst \subseteq gstRows
    /\ gathered[x].fema \subseteq femaRows
    /\ exportPc[x] = "idle" => at[x] = 0 /\ gathered[x] = Nothing
    /\ exportPc[x] \in {"idle", "fema", "gst", "zip", "store"} => archives[x] = {}
    /\ exportPc[x] \in {"fema", "gst"} => at[x] < Len(Wanted[x])
    /\ exportPc[x] \in {"zip", "store", "answer"} => at[x] = Len(Wanted[x])
    /\ exportPc[x] \in {"store", "answer"} => jobs[x] = {"DONE"}
    /\ exportPc[x] \in {"fema", "gst", "zip", "store", "answer"} =>
          \A i \in 1..at[x] :
             /\ Wanted[x][i] \in known[x].fema => Wanted[x][i] \in gathered[x].fema
             /\ Wanted[x][i] \in known[x].gst => Wanted[x][i] \in gathered[x].gst
    /\ exportPc[x] = "gst" => (Here(x) \in known[x].fema => Here(x) \in gathered[x].fema)
    /\ exportPc[x] # "done" =>
          \A e \in gathered[x].fema : e \in gathered[x].gst \/ (exportPc[x] = "gst" /\ e = Here(x))
    /\ \A z \in archives[x] :
          LET mine == { Wanted[x][i] : i \in DOMAIN Wanted[x] }
          IN  /\ jobs[x] = {"DONE"}
              /\ known[x].fema \cap mine \subseteq z.fema
              /\ known[x].gst \cap mine \subseteq z.gst
              /\ z.fema \subseteq z.gst

ExportTypeOK ==
    /\ femaRows = gstRows /\ femaRows \subseteq Escrowed
    /\ DOMAIN jobs = Exports /\ DOMAIN archives = Exports
    /\ exportPc \in [Exports -> {"idle", "fema", "gst", "zip", "store", "answer", "done"}]
    /\ at \in [Exports -> Nat]
    /\ gathered \in [Exports -> Records] /\ known \in [Exports -> Records]

ExportInv == ExportTypeOK /\ \A x \in Exports : ExportOK(x)

\* The list of a job.
LEMMA WantedList ==
    ASSUME NEW x \in Exports
    PROVE  /\ Len(Wanted[x]) \in Nat /\ DOMAIN Wanted[x] = 1..Len(Wanted[x])
           /\ \A i \in 1..Len(Wanted[x]) : Wanted[x][i] \in Escrowed
BY WantedAssumption

\* A job depends on its own state and on the rows, which only become more.
LEMMA OtherExports ==
    ASSUME NEW x \in Exports, ExportOK(x),
           femaRows \subseteq femaRows', gstRows \subseteq gstRows',
           jobs'[x] = jobs[x], archives'[x] = archives[x], exportPc'[x] = exportPc[x],
           at'[x] = at[x], gathered'[x] = gathered[x], known'[x] = known[x]
    PROVE  ExportOK(x)'
BY DEF ExportOK, Here

\* What is gathered stays of its kind when records are added to it.
LEMMA WidenedRecords ==
    ASSUME NEW held \in Records, NEW more \in SUBSET Escrowed
    PROVE  /\ [held EXCEPT !.fema = @ \cup more] \in Records
           /\ [held EXCEPT !.fema = @ \cup more].fema = held.fema \cup more
           /\ [held EXCEPT !.fema = @ \cup more].gst = held.gst
           /\ [held EXCEPT !.gst = @ \cup more] \in Records
           /\ [held EXCEPT !.gst = @ \cup more].gst = held.gst \cup more
           /\ [held EXCEPT !.gst = @ \cup more].fema = held.fema
BY DEF Records

\* The records of an escrow arrive.
LEMMA RecordsKeep ==
    ASSUME ExportInv, NEW e \in Escrowed, RecordsArrive(e)
    PROVE  ExportInv'
<1>1. ExportTypeOK'
  BY DEF RecordsArrive, ExportInv, ExportTypeOK
<1>2. QED
  BY <1>1, OtherExports DEF RecordsArrive, ExportInv

\* Each step of a job.
LEMMA ExportKeeps ==
    ASSUME ExportInv, NEW x \in Exports,
           \/ CreateJob(x) \/ GatherFema(x) \/ GatherGst(x) \/ FinishJob(x)
           \/ StoreArchive(x) \/ AnswerExport(x) \/ ExportDies(x) \/ ExpireArchive(x)
    PROVE  ExportInv'
<1> USE WantedList DEF ExportGoes
<1>1. UNCHANGED <<femaRows, gstRows>>
      /\ \A y \in Exports \ {x} :
            /\ jobs'[y] = jobs[y] /\ archives'[y] = archives[y] /\ exportPc'[y] = exportPc[y]
            /\ at'[y] = at[y] /\ gathered'[y] = gathered[y] /\ known'[y] = known[y]
  BY DEF ExportInv, ExportTypeOK, CreateJob, GatherFema, GatherGst, FinishJob, StoreArchive,
     AnswerExport, ExportDies, ExpireArchive
<1>2. \A y \in Exports \ {x} : ExportOK(y)'
  BY <1>1, OtherExports DEF ExportInv
<1>3. ExportTypeOK /\ ExportOK(x)
  BY DEF ExportInv
<1>4. ExportTypeOK' /\ ExportOK(x)'
  <2>1. CASE CreateJob(x)
    BY <1>3, <2>1 DEF CreateJob, ExportTypeOK, ExportOK, Here, Nothing, Records
  <2>2. CASE GatherFema(x)
    <3>1. Here(x) \in Escrowed
      <4>1. at[x] \in Nat /\ at[x] < Len(Wanted[x])
        BY <1>3, <2>2 DEF GatherFema, ExportTypeOK, ExportOK
      <4>2. at[x] + 1 \in 1..Len(Wanted[x])
        BY <4>1
      <4>3. QED
        BY <4>2 DEF Here
    <3> DEFINE more == [gathered[x] EXCEPT !.fema = @ \cup ({Here(x)} \cap femaRows)]
    <3>2. /\ gathered' = [gathered EXCEPT ![x] = more]
          /\ exportPc' = [exportPc EXCEPT ![x] = "gst"]
          /\ UNCHANGED <<femaRows, gstRows, jobs, archives, at, known>>
      BY <2>2 DEF GatherFema
    <3>3. /\ more \in Records /\ more.gst = gathered[x].gst
          /\ more.fema = gathered[x].fema \cup ({Here(x)} \cap femaRows)
      <4>1. gathered[x] \in Records /\ ({Here(x)} \cap femaRows) \in SUBSET Escrowed
        BY <1>3, <3>1 DEF ExportTypeOK
      <4>2. QED
        BY <4>1, WidenedRecords
    <3> HIDE DEF more
    <3>4. gathered'[x] = more /\ exportPc'[x] = "gst" /\ exportPc[x] = "fema" /\ ExportTypeOK'
      <4>1. gathered'[x] = more /\ gathered' \in [Exports -> Records]
        BY <1>3, <3>2, <3>3 DEF ExportTypeOK
      <4>2. /\ exportPc'[x] = "gst" /\ exportPc[x] = "fema"
            /\ exportPc' \in [Exports -> {"idle", "fema", "gst", "zip", "store", "answer", "done"}]
        BY <1>3, <2>2, <3>2 DEF ExportTypeOK, GatherFema
      <4>3. QED
        BY <1>3, <3>2, <4>1, <4>2 DEF ExportTypeOK
    <3>5. QED
      BY <1>3, <3>2, <3>3, <3>4 DEF ExportOK, Here
  <2>3. CASE GatherGst(x)
    <3>1. Here(x) \in Escrowed /\ at[x] < Len(Wanted[x])
      BY <1>3, <2>3 DEF GatherGst, ExportTypeOK, ExportOK, Here
    <3> DEFINE more == [gathered[x] EXCEPT !.gst = @ \cup ({Here(x)} \cap gstRows)]
               step == IF at'[x] < Len(Wanted[x]) THEN "fema" ELSE "zip"
    <3>2. /\ gathered' = [gathered EXCEPT ![x] = more]
          /\ at' = [at EXCEPT ![x] = @ + 1]
          /\ exportPc' = [exportPc EXCEPT ![x] = step]
          /\ UNCHANGED <<femaRows, gstRows, jobs, archives, known>>
      BY <2>3 DEF GatherGst
    <3>3. /\ more \in Records /\ more.fema = gathered[x].fema
          /\ more.gst = gathered[x].gst \cup ({Here(x)} \cap gstRows)
      <4>1. gathered[x] \in Records /\ ({Here(x)} \cap gstRows) \in SUBSET Escrowed
        BY <1>3, <3>1 DEF ExportTypeOK
      <4>2. QED
        BY <4>1, WidenedRecords
    <3> HIDE DEF more
    <3>4. /\ gathered'[x] = more /\ at'[x] = at[x] + 1 /\ exportPc[x] = "gst"
          /\ exportPc'[x] = step /\ ExportTypeOK'
      <4>1. at'[x] = at[x] + 1 /\ at' \in [Exports -> Nat] /\ exportPc[x] = "gst"
        BY <1>3, <2>3, <3>2 DEF ExportTypeOK, GatherGst
      <4>2. step \in {"fema", "zip"}
        OBVIOUS
      <4> HIDE DEF step
      <4>3. exportPc'[x] = step
            /\ exportPc' \in [Exports -> {"idle", "fema", "gst", "zip", "store", "answer", "done"}]
        BY <1>3, <3>2, <4>2 DEF ExportTypeOK
      <4>4. gathered'[x] = more /\ gathered' \in [Exports -> Records]
        BY <1>3, <3>2, <3>3 DEF ExportTypeOK
      <4>5. QED
        BY <1>3, <3>2, <4>1, <4>3, <4>4 DEF ExportTypeOK
    <3>5. \A i \in 1..at'[x] : i \in 1..at[x] \/ Wanted[x][i] = Here(x)
      BY <1>3, <3>4 DEF ExportTypeOK, Here
    <3>6. \A i \in 1..at'[x] :
             /\ Wanted[x][i] \in known[x].fema => Wanted[x][i] \in more.fema
             /\ Wanted[x][i] \in known[x].gst => Wanted[x][i] \in more.gst
      BY <1>3, <3>3, <3>4, <3>5 DEF ExportOK
    <3>7. more.fema \subseteq more.gst
      BY <1>3, <3>3, <3>4 DEF ExportOK, ExportTypeOK
    <3>8. QED
      BY <1>3, <3>1, <3>2, <3>3, <3>4, <3>6, <3>7 DEF ExportOK, ExportTypeOK
  <2>4. CASE FinishJob(x)
    BY <1>3, <2>4 DEF FinishJob, ExportTypeOK, ExportOK
  <2>5. CASE StoreArchive(x)
    <3>1. /\ exportPc' = [exportPc EXCEPT ![x] = "answer"] /\ exportPc[x] = "store"
          /\ UNCHANGED <<femaRows, gstRows, jobs, at, gathered, known>>
          /\ archives' = archives \/ archives' = [archives EXCEPT ![x] = {gathered[x]}]
      BY <2>5 DEF StoreArchive
    <3>2. exportPc'[x] = "answer" /\ ExportTypeOK'
      BY <1>3, <3>1 DEF ExportTypeOK
    <3>3. archives'[x] \subseteq {gathered[x]}
      BY <1>3, <3>1 DEF ExportTypeOK, ExportOK
    <3>4. \A i \in DOMAIN Wanted[x] :
             /\ Wanted[x][i] \in known[x].fema => Wanted[x][i] \in gathered[x].fema
             /\ Wanted[x][i] \in known[x].gst => Wanted[x][i] \in gathered[x].gst
      BY <1>3, <3>1 DEF ExportOK
    <3>5. gathered[x].fema \subseteq gathered[x].gst
      BY <1>3, <3>1 DEF ExportOK
    <3>6. QED
      BY <1>3, <3>1, <3>2, <3>3, <3>4, <3>5 DEF ExportOK
  <2>6. CASE AnswerExport(x) \/ ExportDies(x)
    BY <1>3, <2>6 DEF AnswerExport, ExportDies, ExportTypeOK, ExportOK
  <2>7. CASE ExpireArchive(x)
    BY <1>3, <2>7 DEF ExpireArchive, ExportTypeOK, ExportOK, Here
  <2>8. QED
    BY <2>1, <2>2, <2>3, <2>4, <2>5, <2>6, <2>7
<1>5. QED
  BY <1>2, <1>4 DEF ExportInv

\* What can be downloaded is whole.
THEOREM ArchivesAreWhole == ExportSpec => []ArchiveIsWhole
<1>1. ExportInit => ExportInv
  BY WantedList DEF ExportInit, ExportInv, ExportTypeOK, ExportOK, Nothing, Records
<1>2. ExportInv /\ [ExportNext]_exportVars => ExportInv'
  <2>1. ExportInv /\ UNCHANGED exportVars => ExportInv'
    BY DEF exportVars, ExportInv, ExportTypeOK, ExportOK, Here
  <2>2. ExportInv /\ ExportNext => ExportInv'
    BY RecordsKeep, ExportKeeps DEF ExportNext
  <2>3. QED
    BY <2>1, <2>2
<1>3. ExportInv => ArchiveIsWhole
  BY DEF ExportInv, ExportOK, ArchiveIsWhole
<1>4. QED
  BY <1>1, <1>2, <1>3, PTL DEF ExportSpec

-----------------------------------------------------------------------------
(* TaskQueue.                                                              *)

Entry == [task : Tasks, retries : 0..MaxRetries - 1]

QueueTypeOK ==
    /\ queue \in Seq(Entry)
    /\ enqueued \subseteq Tasks
    /\ running \in [Workers -> Entry \cup {Idle}]
    /\ workerPc \in [Workers -> {"pop", "run", "push"}]
    /\ runs \in [Tasks -> 0..MaxRetries]
    /\ \A w \in Workers : workerPc[w] = "pop" <=> running[w] = Idle

\* A task is in one place of the list or with one worker.
OnePlace ==
    /\ \A i, j \in 1..Len(queue) : queue[i].task = queue[j].task => i = j
    /\ \A v, w \in Workers :
          running[v] # Idle /\ running[w] # Idle /\ running[v].task = running[w].task => v = w
    /\ \A i \in 1..Len(queue) : \A w \in Workers :
          running[w] # Idle => queue[i].task # running[w].task

\* Its handler was started once more than it was retried while it runs.
RunsFit ==
    /\ \A i \in 1..Len(queue) : runs[queue[i].task] = queue[i].retries
    /\ \A w \in Workers : workerPc[w] = "run" => runs[running[w].task] = running[w].retries + 1
    /\ \A w \in Workers : workerPc[w] = "push" => runs[running[w].task] = running[w].retries
    /\ \A t \in Tasks \ enqueued : runs[t] = 0

QueueInv == QueueTypeOK /\ OnePlace /\ RunsFit /\ EveryTaskAccounted

\* A worker without a task is told from one with a task.
LEMMA IdleIsNoEntry == Idle \notin Entry
<1>1. Entry \subseteq [task : Tasks, retries : Nat]
  BY QueueAssumption DEF Entry
<1>2. QED
  BY <1>1, IdleAssumption

\* A task is under way in the list or with a worker.
LEMMA UnderwayMeans ==
    ASSUME QueueInv, NEW t
    PROVE  t \in Underway <=>
              \/ \E i \in 1..Len(queue) : queue[i].task = t
              \/ \E w \in Workers : running[w] # Idle /\ running[w].task = t
BY DEF QueueInv, QueueTypeOK, OnePlace, RunsFit, Underway

\* The invariant speaks of these variables only.
LEMMA QueueUntouched ==
    ASSUME QueueInv,
           UNCHANGED <<queue, enqueued, running, workerPc, runs, finished, abandoned, lostTasks>>
    PROVE  QueueInv'
<1>1. QueueTypeOK'
  BY DEF QueueInv, QueueTypeOK
<1>2. OnePlace'
  BY DEF QueueInv, OnePlace
<1>3. RunsFit'
  BY DEF QueueInv, RunsFit
<1>4. EveryTaskAccounted'
  BY DEF QueueInv, EveryTaskAccounted, Underway
<1>5. QED
  BY <1>1, <1>2, <1>3, <1>4 DEF QueueInv

\* A worker that lets its task go leaves the others where they are.
LEMMA LetGo ==
    ASSUME QueueInv, NEW w \in Workers, WorkerPops(w)
    PROVE  /\ running' \in [Workers -> Entry \cup {Idle}]
           /\ workerPc' \in [Workers -> {"pop", "run", "push"}]
           /\ \A v \in Workers : running'[v] = IF v = w THEN Idle ELSE running[v]
           /\ \A v \in Workers : workerPc'[v] = IF v = w THEN "pop" ELSE workerPc[v]
BY DEF WorkerPops, QueueInv, QueueTypeOK, OnePlace, RunsFit

\* What a worker does with the task it has, other than pushing it back: the task
\* is kept for a push, or ends in one of the three sets.
LEMMA RunningKeeps ==
    ASSUME QueueInv, NEW w \in Workers, TaskCompletes(w) \/ TaskFails(w) \/ WorkerDies(w)
    PROVE  QueueInv'
<1> USE QueueAssumption
<1> DEFINE t == running[w].task
<1>1. UNCHANGED <<queue, enqueued, runs>>
  BY DEF TaskCompletes, TaskFails, WorkerDies
<1>2. running[w] # Idle => running[w] \in Entry /\ t \in Tasks /\ running[w].retries \in 0..MaxRetries - 1
  BY DEF QueueInv, QueueTypeOK, OnePlace, RunsFit, Entry
<1>3. CASE WorkerPops(w) /\ running[w] = Idle /\ UNCHANGED <<finished, abandoned, lostTasks>>
  <2>1. running \in [Workers -> Entry \cup {Idle}] /\ running' = [running EXCEPT ![w] = Idle]
    BY <1>3 DEF WorkerPops, QueueInv, QueueTypeOK
  <2>2. running' = running
    BY <1>3, <2>1
  <2>3. /\ workerPc \in [Workers -> {"pop", "run", "push"}] /\ workerPc[w] = "pop"
        /\ workerPc' = [workerPc EXCEPT ![w] = "pop"]
    BY <1>3 DEF WorkerPops, QueueInv, QueueTypeOK, OnePlace
  <2>4. workerPc' = workerPc
    BY <2>3
  <2>5. QED
    BY <1>1, <1>3, <2>2, <2>4, QueueUntouched
<1>4. CASE /\ WorkerPops(w) /\ running[w] # Idle
           /\ finished' \cup abandoned' \cup lostTasks' = finished \cup abandoned \cup lostTasks \cup {t}
           /\ \A s \in abandoned' : s \in abandoned \/ runs[s] = MaxRetries
  <2>1. \A s : s \in Underway' <=> s \in Underway /\ s # t
    <3>1. \A s : s \in Underway' <=>
             \/ \E i \in 1..Len(queue) : queue[i].task = s
             \/ \E v \in Workers : running'[v] # Idle /\ running'[v].task = s
      BY <1>1 DEF Underway, QueueInv, QueueTypeOK, OnePlace, RunsFit
    <3>2. \A v \in Workers : running'[v] = IF v = w THEN Idle ELSE running[v]
      BY <1>4, LetGo
    <3>3. /\ \A i \in 1..Len(queue) : queue[i].task # t
          /\ \A v \in Workers : running[v] # Idle /\ running[v].task = t => v = w
      BY <1>4 DEF QueueInv, OnePlace
    <3>4. \A s : (\E v \in Workers : running'[v] # Idle /\ running'[v].task = s) <=>
                    s # t /\ \E v \in Workers : running[v] # Idle /\ running[v].task = s
      BY <1>4, <3>2, <3>3
    <3>5. QED
      BY <3>1, <3>3, <3>4, UnderwayMeans
  <2>2. t \in Underway
    BY <1>4, UnderwayMeans
  <2>3. EveryTaskAccounted'
    BY <1>1, <1>4, <2>1, <2>2 DEF QueueInv, QueueTypeOK, OnePlace, RunsFit, EveryTaskAccounted
  <2>4. /\ running' \in [Workers -> Entry \cup {Idle}]
        /\ workerPc' \in [Workers -> {"pop", "run", "push"}]
        /\ \A v \in Workers : running'[v] = IF v = w THEN Idle ELSE running[v]
        /\ \A v \in Workers : workerPc'[v] = IF v = w THEN "pop" ELSE workerPc[v]
    BY <1>4, LetGo
  <2>5. QueueTypeOK'
    BY <1>1, <2>4 DEF QueueInv, QueueTypeOK
  <2>6. OnePlace'
    BY <1>1, <2>4 DEF QueueInv, OnePlace
  <2>7. enqueued' = enqueued
    BY DEF TaskCompletes, TaskFails, WorkerDies
  <2>8. RunsFit'
    BY <1>1, <2>4, <2>7 DEF QueueInv, RunsFit
  <2>9. QED
    BY <2>3, <2>5, <2>6, <2>8 DEF QueueInv
<1>5. CASE /\ running' = [running EXCEPT ![w].retries = @ + 1]
           /\ running[w] # Idle /\ running[w].retries + 1 < MaxRetries
           /\ workerPc[w] = "run" /\ workerPc' = [workerPc EXCEPT ![w] = "push"]
           /\ UNCHANGED <<finished, abandoned, lostTasks>>
  <2> DEFINE again == [running[w] EXCEPT !.retries = @ + 1]
  <2>1. again \in Entry /\ again.task = t /\ again.retries = running[w].retries + 1
    BY <1>2, <1>5 DEF Entry
  <2>2. running' = [running EXCEPT ![w] = again]
    BY <1>5 DEF QueueInv, QueueTypeOK, OnePlace, RunsFit
  <2> HIDE DEF again
  <2>3. again # Idle
    BY <2>1, IdleIsNoEntry
  <2>4. /\ running' \in [Workers -> Entry \cup {Idle}]
        /\ workerPc' \in [Workers -> {"pop", "run", "push"}]
        /\ \A v \in Workers : running'[v] = IF v = w THEN again ELSE running[v]
        /\ \A v \in Workers : workerPc'[v] = IF v = w THEN "push" ELSE workerPc[v]
    BY <1>5, <2>1, <2>2 DEF QueueInv, QueueTypeOK, OnePlace, RunsFit
  <2>5. \A v \in Workers : /\ running'[v] # Idle <=> running[v] # Idle
                           /\ running'[v].task = running[v].task
    BY <1>5, <2>1, <2>3, <2>4
  <2>6. Underway' = Underway
    BY <1>1, <2>5 DEF Underway
  <2>7. EveryTaskAccounted'
    BY <1>1, <1>5, <2>6 DEF QueueInv, QueueTypeOK, OnePlace, RunsFit, EveryTaskAccounted
  <2>8. QED
    BY <1>1, <1>5, <2>1, <2>3, <2>4, <2>5, <2>7 DEF QueueInv, QueueTypeOK, OnePlace, RunsFit
<1>6. CASE TaskCompletes(w)
  BY <1>4, <1>6 DEF TaskCompletes, QueueInv, QueueTypeOK, OnePlace, RunsFit
<1>7. CASE WorkerDies(w)
  BY <1>3, <1>4, <1>7 DEF WorkerDies, QueueInv, QueueTypeOK, OnePlace, RunsFit
<1>8. CASE TaskFails(w)
  <2>1. running[w] # Idle /\ workerPc[w] = "run" /\ runs[t] = running[w].retries + 1
    BY <1>8 DEF TaskFails, QueueInv, QueueTypeOK, OnePlace, RunsFit
  <2>2. CASE running[w].retries + 1 < MaxRetries
    BY <1>5, <1>8, <2>1, <2>2 DEF TaskFails
  <2>3. CASE ~(running[w].retries + 1 < MaxRetries)
    BY <1>2, <1>4, <1>8, <2>1, <2>3 DEF TaskFails
  <2>4. QED
    BY <2>2, <2>3
<1>9. QED
  BY <1>6, <1>7, <1>8

\* The head of the list goes to a worker, or is given up.
LEMMA PopKeeps ==
    ASSUME QueueInv, NEW w \in Workers, PopTask(w)
    PROVE  QueueInv'
<1> USE QueueAssumption
<1> DEFINE e == queue[1]
           t == e.task
<1>1. /\ queue # <<>> /\ Head(queue) = e /\ e \in Entry /\ 1 \in 1..Len(queue)
      /\ queue' = Tail(queue) /\ queue' \in Seq(Entry) /\ Len(queue') = Len(queue) - 1
      /\ \A i \in 1..Len(queue') : queue'[i] = queue[i + 1] /\ i + 1 \in 1..Len(queue)
      /\ \A i \in 1..Len(queue) : i # 1 => i - 1 \in 1..Len(queue') /\ queue'[i - 1] = queue[i]
  BY DEF PopTask, QueueInv, QueueTypeOK, OnePlace, RunsFit
<1>2. t \in Tasks /\ e.retries \in 0..MaxRetries - 1 /\ e # Idle /\ runs[t] = e.retries
  BY <1>1, IdleIsNoEntry DEF Entry, QueueInv, QueueTypeOK, OnePlace, RunsFit
<1>3. UNCHANGED <<enqueued, finished, lostTasks>> /\ running[w] = Idle /\ workerPc[w] = "pop"
  BY DEF PopTask, QueueInv, QueueTypeOK, OnePlace, RunsFit
<1>4. \A s : s \in Underway' <=>
         \/ \E i \in 1..Len(queue') : queue'[i].task = s
         \/ \E v \in Workers : running'[v] # Idle /\ running'[v].task = s
  <2>1. DOMAIN queue' = 1..Len(queue')
    BY <1>1
  <2>2. QED
    BY <2>1 DEF Underway
<1>5. t \in Underway
  BY <1>1, UnderwayMeans
<1>6. \A i \in 1..Len(queue') : queue'[i].task # t
  BY <1>1 DEF QueueInv, QueueTypeOK, OnePlace, RunsFit
<1>7. \A v \in Workers : running[v] # Idle =>
         v # w /\ running[v].task # t /\ running[v].task \in Tasks
  BY <1>1, <1>3 DEF QueueInv, QueueTypeOK, OnePlace, RunsFit, Entry
<1>8. \A s : (\E i \in 1..Len(queue) : queue[i].task = s) <=>
                s = t \/ \E i \in 1..Len(queue') : queue'[i].task = s
  <2>1. ASSUME NEW i \in 1..Len(queue), i # 1
        PROVE  \E j \in 1..Len(queue') : queue'[j].task = queue[i].task
    <3>1. i - 1 \in 1..Len(queue') /\ queue'[i - 1] = queue[i]
      BY <1>1, <2>1
    <3>2. QED
      BY <3>1
  <2>2. ASSUME NEW j \in 1..Len(queue')
        PROVE  \E i \in 1..Len(queue) : queue[i].task = queue'[j].task
    <3>1. j + 1 \in 1..Len(queue) /\ queue'[j] = queue[j + 1]
      BY <1>1
    <3>2. QED
      BY <3>1
  <2>3. 1 \in 1..Len(queue)
    BY <1>1
  <2>4. QED
    BY <2>1, <2>2, <2>3
<1>9. PopTask(w) /\ queue[1] = e /\ e.task = t
  OBVIOUS
<1>10. Head(queue).task = t /\ Head(queue) = e
  BY <1>1
<1> HIDE DEF e, t
<1>11. CASE t \in Unregistered
  <2>1. abandoned' = abandoned \cup {t} /\ UNCHANGED <<running, workerPc, runs>>
    BY <1>10, <1>11 DEF PopTask
  <2>2. \A s : s \in Underway' <=> s \in Underway /\ s # t
    BY <1>4, <1>6, <1>7, <1>8, <2>1, UnderwayMeans
  <2>3. EveryTaskAccounted'
    BY <1>3, <1>5, <1>11, <2>1, <2>2 DEF QueueInv, QueueTypeOK, OnePlace, RunsFit, EveryTaskAccounted
  <2>4. QED
    BY <1>1, <1>3, <2>1, <2>3 DEF QueueInv, QueueTypeOK, OnePlace, RunsFit
<1>12. CASE t \notin Unregistered
  <2>1. /\ running' = [running EXCEPT ![w] = e]
        /\ workerPc' = [workerPc EXCEPT ![w] = "run"]
        /\ runs' = [runs EXCEPT ![t] = @ + 1]
        /\ UNCHANGED abandoned
    BY <1>9, <1>10, <1>12 DEF PopTask
  <2>2. /\ running' \in [Workers -> Entry \cup {Idle}]
        /\ workerPc' \in [Workers -> {"pop", "run", "push"}]
        /\ runs' \in [Tasks -> 0..MaxRetries]
        /\ \A v \in Workers : running'[v] = IF v = w THEN e ELSE running[v]
        /\ \A v \in Workers : workerPc'[v] = IF v = w THEN "run" ELSE workerPc[v]
        /\ \A s \in Tasks : runs'[s] = IF s = t THEN runs[s] + 1 ELSE runs[s]
    BY <1>1, <1>2, <2>1 DEF QueueInv, QueueTypeOK, OnePlace, RunsFit
  <2>3. \A s : s \in Underway' <=> s \in Underway
    <3>1. \A q : (\E v \in Workers : running'[v] # Idle /\ running'[v].task = q) <=>
                    q = t \/ \E v \in Workers : running[v] # Idle /\ running[v].task = q
      BY <1>2, <1>3, <1>9, <2>2
    <3>2. QED
      BY <1>4, <1>8, <3>1, UnderwayMeans
  <2>4. t \in enqueued /\ t \notin abandoned
    BY <1>5 DEF QueueInv, QueueTypeOK, OnePlace, RunsFit, EveryTaskAccounted
  <2>5. EveryTaskAccounted'
    BY <1>3, <2>1, <2>2, <2>3, <2>4 DEF QueueInv, QueueTypeOK, OnePlace, RunsFit, EveryTaskAccounted
  <2>7. \A i \in 1..Len(queue') : queue'[i].task \in Tasks
    <3>1. \A i \in 1..Len(queue') : queue'[i] \in Entry
      BY <1>1
    <3>2. QED
      BY <3>1 DEF Entry
  <2>8. /\ \A v \in Workers : workerPc'[v] = "pop" <=> running'[v] = Idle
        /\ \A i, j \in 1..Len(queue') : queue'[i].task = queue'[j].task => i = j
        /\ \A i \in 1..Len(queue') : runs'[queue'[i].task] = queue'[i].retries
    BY <1>1, <1>2, <1>6, <2>2, <2>7 DEF QueueInv, QueueTypeOK, OnePlace, RunsFit
  <2>9. /\ \A u, v \in Workers :
              running'[u] # Idle /\ running'[v] # Idle /\ running'[u].task = running'[v].task => u = v
        /\ \A i \in 1..Len(queue') : \A v \in Workers :
              running'[v] # Idle => queue'[i].task # running'[v].task
    <3>1. OnePlace
      BY DEF QueueInv
    <3>2. \A v \in Workers : running[v] # Idle => running[v].task # t
      BY <1>7
    <3>3. \A v \in Workers : running'[v] = IF v = w THEN e ELSE running[v]
      BY <2>2
    <3>4. \A u, v \in Workers :
              running'[u] # Idle /\ running'[v] # Idle /\ running'[u].task = running'[v].task => u = v
      BY <1>9, <3>1, <3>2, <3>3 DEF OnePlace
    <3>5. ASSUME NEW i \in 1..Len(queue'), NEW v \in Workers, running'[v] # Idle
          PROVE  queue'[i].task # running'[v].task
      <4>1. CASE v = w
        BY <1>6, <1>9, <3>3, <4>1
      <4>2. CASE v # w
        <5>1. queue'[i] = queue[i + 1] /\ i + 1 \in 1..Len(queue)
          BY <1>1
        <5>2. QED
          BY <3>1, <3>3, <3>5, <4>2, <5>1 DEF OnePlace
      <4>3. QED
        BY <4>1, <4>2
    <3>6. QED
      BY <3>4, <3>5
  <2>10. /\ \A v \in Workers : workerPc'[v] = "run" => runs'[running'[v].task] = running'[v].retries + 1
         /\ \A v \in Workers : workerPc'[v] = "push" => runs'[running'[v].task] = running'[v].retries
    <3>1. ASSUME NEW v \in Workers, v # w, workerPc[v] # "pop"
          PROVE  runs'[running[v].task] = runs[running[v].task]
      <4>1. running[v] # Idle
        BY <3>1 DEF QueueInv, QueueTypeOK
      <4>2. running[v].task # t /\ running[v].task \in Tasks
        BY <1>7, <4>1
      <4>3. QED
        BY <2>2, <4>2
    <3>2. runs'[t] = e.retries + 1
      BY <1>2, <2>2
    <3>3. \A v \in Workers : /\ running'[v] = IF v = w THEN e ELSE running[v]
                             /\ workerPc'[v] = IF v = w THEN "run" ELSE workerPc[v]
      BY <2>2
    <3>4. RunsFit
      BY DEF QueueInv
    <3>5. QED
      BY <1>9, <3>1, <3>2, <3>3, <3>4 DEF RunsFit
  <2>11. \A s \in Tasks \ enqueued' : runs'[s] = 0
    BY <1>3, <2>2, <2>4 DEF QueueInv, QueueTypeOK, OnePlace, RunsFit
  <2>12. QED
    BY <1>1, <1>3, <2>2, <2>5, <2>8, <2>9, <2>10, <2>11 DEF QueueInv, QueueTypeOK, OnePlace, RunsFit
<1>13. QED
  BY <1>11, <1>12

\* A new entry at the end of the list.
LEMMA AppendedEntry ==
    ASSUME NEW q \in Seq(Entry), NEW e \in Entry
    PROVE  /\ Append(q, e) \in Seq(Entry) /\ Len(Append(q, e)) = Len(q) + 1
           /\ \A i \in 1..Len(q) : Append(q, e)[i] = q[i]
           /\ Append(q, e)[Len(q) + 1] = e
OBVIOUS

\* A task is put into the list for the first time.
LEMMA EnqueueKeeps ==
    ASSUME QueueInv, NEW t \in Tasks, Enqueue(t)
    PROVE  QueueInv'
<1> USE QueueAssumption
<1> DEFINE e == [task |-> t, retries |-> 0]
<1>1. e \in Entry /\ e.task = t /\ e.retries = 0
  BY DEF Entry
<1>2. /\ queue' = Append(queue, e) /\ enqueued' = enqueued \cup {t} /\ t \notin enqueued
      /\ UNCHANGED <<running, workerPc, runs, finished, abandoned, lostTasks>>
  BY DEF Enqueue
<1> HIDE DEF e
<1>3. /\ queue' \in Seq(Entry) /\ Len(queue) \in Nat /\ Len(queue') = Len(queue) + 1
      /\ \A i \in 1..Len(queue) : queue'[i] = queue[i]
      /\ queue'[Len(queue) + 1] = e
  BY <1>1, <1>2, AppendedEntry DEF QueueInv, QueueTypeOK, OnePlace, RunsFit
<1>4. \A s : s \in Underway' <=> s \in Underway \/ s = t
  <2>1. \A s : s \in Underway' <=>
           \/ \E i \in 1..Len(queue') : queue'[i].task = s
           \/ \E v \in Workers : running[v] # Idle /\ running[v].task = s
    BY <1>2, <1>3 DEF Underway
  <2>2. QED
    BY <1>1, <1>3, <2>1, UnderwayMeans
<1>5. t \notin Underway /\ t \notin finished \cup abandoned \cup lostTasks
  BY <1>2 DEF QueueInv, QueueTypeOK, OnePlace, RunsFit, EveryTaskAccounted
<1>6. EveryTaskAccounted'
  BY <1>2, <1>4, <1>5 DEF QueueInv, QueueTypeOK, OnePlace, RunsFit, EveryTaskAccounted
<1>7. /\ \A i \in 1..Len(queue) : queue[i].task # t
      /\ \A w \in Workers : running[w] # Idle => running[w].task # t
      /\ runs[t] = 0
  BY <1>2, <1>5, UnderwayMeans DEF QueueInv, QueueTypeOK, OnePlace, RunsFit
<1>8. QED
  BY <1>1, <1>2, <1>3, <1>6, <1>7 DEF QueueInv, QueueTypeOK, OnePlace, RunsFit

\* A worker pushes its task back, or loses it.
LEMMA PushKeeps ==
    ASSUME QueueInv, NEW w \in Workers, PushRetry(w)
    PROVE  QueueInv'
<1> USE QueueAssumption
<1> DEFINE e == running[w]
           t == e.task
<1>1. workerPc[w] = "push" /\ e # Idle /\ e \in Entry /\ t \in Tasks /\ runs[t] = e.retries
  BY DEF PushRetry, QueueInv, QueueTypeOK, OnePlace, RunsFit, Entry
<1>2. UNCHANGED <<enqueued, runs, finished, abandoned>> /\ WorkerPops(w)
  BY DEF PushRetry
<1>3. t \in Underway
  BY <1>1, UnderwayMeans
<1>4. /\ \A i \in 1..Len(queue) : queue[i].task # t
      /\ \A v \in Workers \ {w} : running[v] # Idle => running[v].task # t
  BY <1>1 DEF QueueInv, QueueTypeOK, OnePlace, RunsFit
<1>5. CASE lostTasks' = lostTasks \cup {t} /\ UNCHANGED queue
  <2>1. \A s : s \in Underway' <=>
           \/ \E i \in 1..Len(queue) : queue[i].task = s
           \/ \E v \in Workers : running'[v] # Idle /\ running'[v].task = s
    BY <1>5 DEF Underway, QueueInv, QueueTypeOK, OnePlace, RunsFit
  <2>2. \A s : s \in Underway' <=> s \in Underway /\ s # t
    BY <1>2, <1>4, <2>1, UnderwayMeans, LetGo
  <2>3. EveryTaskAccounted'
    BY <1>2, <1>3, <1>5, <2>2 DEF QueueInv, QueueTypeOK, OnePlace, RunsFit, EveryTaskAccounted
  <2>4. QueueTypeOK'
    BY <1>2, <1>5, LetGo DEF QueueInv, QueueTypeOK
  <2>5. OnePlace'
    BY <1>2, <1>5, LetGo DEF QueueInv, OnePlace
  <2>6. RunsFit'
    BY <1>2, <1>5, LetGo DEF QueueInv, RunsFit
  <2>7. QED
    BY <2>3, <2>4, <2>5, <2>6 DEF QueueInv
<1>6. CASE queue' = Append(queue, e) /\ UNCHANGED lostTasks
  <2>1. /\ queue' \in Seq(Entry) /\ Len(queue) \in Nat /\ Len(queue') = Len(queue) + 1
        /\ \A i \in 1..Len(queue) : queue'[i] = queue[i]
        /\ queue'[Len(queue) + 1] = e
    BY <1>1, <1>6, AppendedEntry DEF QueueInv, QueueTypeOK, OnePlace, RunsFit
  <2>2. \A s : s \in Underway' <=>
           \/ \E i \in 1..Len(queue') : queue'[i].task = s
           \/ \E v \in Workers : running'[v] # Idle /\ running'[v].task = s
    BY <2>1 DEF Underway
  <2>3. \A s : s \in Underway' <=> s \in Underway
    BY <1>1, <1>2, <2>1, <2>2, UnderwayMeans, LetGo
  <2>4. EveryTaskAccounted'
    BY <1>2, <1>6, <2>3 DEF QueueInv, QueueTypeOK, OnePlace, RunsFit, EveryTaskAccounted
  <2>5. e = running[w] /\ e.task = t
    OBVIOUS
  <2> HIDE DEF e, t
  <2>6. /\ \A i, j \in 1..Len(queue') : queue'[i].task = queue'[j].task => i = j
        /\ \A i \in 1..Len(queue') : runs'[queue'[i].task] = queue'[i].retries
        /\ \A i \in 1..Len(queue') : \A v \in Workers :
              running'[v] # Idle => queue'[i].task # running'[v].task
    <3>1. \A i \in 1..Len(queue') : i \in 1..Len(queue) \/ i = Len(queue) + 1
      BY <2>1
    <3>2. OnePlace /\ RunsFit /\ runs' = runs
      BY <1>2 DEF QueueInv
    <3>3. \A v \in Workers : running'[v] # Idle => v # w /\ running'[v] = running[v]
      BY <1>2, LetGo
    <3>4. \A i, j \in 1..Len(queue') : queue'[i].task = queue'[j].task => i = j
      BY <1>4, <2>1, <2>5, <3>1, <3>2 DEF OnePlace
    <3>5. \A i \in 1..Len(queue') : runs'[queue'[i].task] = queue'[i].retries
      BY <1>1, <2>1, <2>5, <3>1, <3>2 DEF RunsFit
    <3>6. \A i \in 1..Len(queue') : \A v \in Workers :
             running'[v] # Idle => queue'[i].task # running'[v].task
      BY <1>4, <2>1, <2>5, <3>1, <3>2, <3>3 DEF OnePlace
    <3>7. QED
      BY <3>4, <3>5, <3>6
  <2>7. QueueTypeOK'
    BY <1>2, <2>1, LetGo DEF QueueInv, QueueTypeOK
  <2>8. OnePlace'
    <3>1. OnePlace
      BY DEF QueueInv
    <3>2. QED
      BY <1>2, <2>6, <3>1, LetGo DEF OnePlace
  <2>9. RunsFit'
    <3>1. RunsFit
      BY DEF QueueInv
    <3>2. QED
      BY <1>2, <2>6, <3>1, LetGo DEF RunsFit
  <2>10. QED
    BY <2>4, <2>7, <2>8, <2>9 DEF QueueInv
<1>7. QED
  BY <1>5, <1>6 DEF PushRetry

\* However many workers share the list, a task is never in two places, is never
\* dropped but for a death or an error, and never run more than MAX_RETRIES times.
THEOREM TasksAreAccounted == QueueSpec => []EveryTaskAccounted
<1>1. QueueInit => QueueInv
  BY QueueAssumption DEF QueueInit, QueueInv, QueueTypeOK, OnePlace, RunsFit, EveryTaskAccounted, Underway
<1>2. QueueInv /\ [QueueNext]_queueVars => QueueInv'
  <2>1. QueueInv /\ UNCHANGED queueVars => QueueInv'
    BY QueueUntouched DEF queueVars
  <2>2. QueueInv /\ QueueNext => QueueInv'
    BY EnqueueKeeps, PopKeeps, PushKeeps, RunningKeeps DEF QueueNext, WorkerAdvances
  <2>3. QED
    BY <2>1, <2>2
<1>3. QueueInv => EveryTaskAccounted
  BY DEF QueueInv, QueueTypeOK, OnePlace, RunsFit
<1>4. QED
  BY <1>1, <1>2, <1>3, PTL DEF QueueSpec

-----------------------------------------------------------------------------
(* RateLimiter.                                                            *)

\* What a quotient is.
LEMMA QuotientIs ==
  ASSUME NEW n \in Nat, NEW w \in Nat \ {0}
  PROVE  n \div w \in Nat /\ w * (n \div w) <= n /\ n < w * (n \div w) + w
OBVIOUS

\* Quotients keep the order.
LEMMA QuotientsInOrder ==
  ASSUME NEW n \in Nat, NEW m \in Nat, n <= m, NEW w \in Nat \ {0}
  PROVE  n \div w <= m \div w
<1> DEFINE q == n \div w
           p == m \div w
<1>1. q \in Nat /\ p \in Nat /\ w * q <= n /\ m < w * p + w
  BY QuotientIs
<1> HIDE DEF q, p
<1>2. SUFFICES ASSUME q >= p + 1 PROVE FALSE
  BY <1>1 DEF q, p
<1>3. w * q >= w * (p + 1)
  BY <1>1, <1>2
<1>4. w * (p + 1) = w * p + w
  BY <1>1
<1>5. w * p \in Nat /\ w * q \in Nat
  BY <1>1
<1>6. QED
  BY <1>1, <1>3, <1>4, <1>5

\* A stretch of one window meets two buckets at most.
LEMMA TwoBuckets ==
  ASSUME NEW from \in Nat, NEW w \in Nat \ {0}, NEW n \in from..from + w - 1
  PROVE  n \div w \in {from \div w, from \div w + 1}
<1> DEFINE q == n \div w
           p == from \div w
<1>1. n \in Nat /\ q \in Nat /\ p \in Nat /\ w * q <= n /\ from < w * p + w
  BY QuotientIs
<1>2. p <= q
  BY <1>1, QuotientsInOrder
<1> HIDE DEF q, p
<1>3. SUFFICES ASSUME q >= p + 2 PROVE FALSE
  BY <1>1, <1>2 DEF q, p
<1>4. w * q >= w * (p + 2)
  BY <1>1, <1>3
<1>5. w * (p + 2) = w * p + w + w
  BY <1>1
<1>6. w * p \in Nat /\ w * q \in Nat
  BY <1>1
<1>7. QED
  BY <1>1, <1>4, <1>5, <1>6

ArrivalSteps == {"idle", "incr", "expire", "done"}

\* The last second in which a punctual request increments the counter of bucket b.
LastCall(b) == Window * b + Window

\* Counted, and in time.
InTime(q) == q.count > 0 /\ Punctual(q)

LimiterTypes ==
    /\ second \in 0..LastSecond
    /\ counters \in [Buckets -> [count : Nat, expires : Nat]]
    /\ arrivalPc \in [Arrivals -> ArrivalSteps]
    /\ bucketOf \in [Arrivals -> [bucket : Buckets, at : 0..LastSecond, count : Nat, counted : Nat]]

\* No counter expires while it is incremented in time, so that the counts of a
\* bucket are different, and the counter knows the highest.
LimiterInv ==
    /\ LimiterTypes
    /\ \A a \in Arrivals :
          /\ bucketOf[a].at <= second /\ bucketOf[a].bucket = bucketOf[a].at \div Window
          /\ arrivalPc[a] \in {"idle", "incr"} => bucketOf[a].count = 0
          /\ arrivalPc[a] = "expire" => bucketOf[a].count > 0
          /\ InTime(bucketOf[a]) /\ second <= LastCall(bucketOf[a].bucket)
                => bucketOf[a].count <= counters[bucketOf[a].bucket].count
    /\ \A a, c \in Arrivals :
          /\ a # c /\ InTime(bucketOf[a]) /\ InTime(bucketOf[c])
          /\ bucketOf[a].bucket = bucketOf[c].bucket
          => bucketOf[a].count # bucketOf[c].count
    /\ \A b \in Buckets : counters[b].expires # 0 => counters[b].expires > LastCall(b)
    /\ \A x \in admitted :
          /\ x.who \in Arrivals /\ bucketOf[x.who].count \in 1..Limit
          /\ arrivalPc[x.who] = "done"
          /\ x = [who |-> x.who, at |-> bucketOf[x.who].at, counted |-> bucketOf[x.who].counted]

\* A bucket's last call is in the second after its last, or in the one before its
\* counter expires.
LEMMA LastCallIs ==
  ASSUME NEW n \in Nat
  PROVE  /\ LastCall(n \div Window) \in Nat
         /\ n + 1 <= LastCall(n \div Window) /\ LastCall(n \div Window) <= n + Window
BY QuotientIs, LimiterAssumption DEF LastCall

\* A request reads the clock.
LEMMA ComputesBucket ==
  ASSUME LimiterInv, NEW a \in Arrivals, ComputeBucket(a)
  PROVE  LimiterInv'
<1> DEFINE q == [bucket |-> second \div Window, at |-> second, count |-> 0, counted |-> 0]
<1>1. second \div Window \in Buckets
  BY LimiterAssumption, QuotientIs, QuotientsInOrder DEF LimiterInv, LimiterTypes, Buckets
<1>2. bucketOf' = [bucketOf EXCEPT ![a] = q] /\ arrivalPc' = [arrivalPc EXCEPT ![a] = "incr"]
      /\ UNCHANGED <<second, counters, admitted>> /\ arrivalPc[a] = "idle"
  BY DEF ComputeBucket
<1>3. q \in [bucket : Buckets, at : 0..LastSecond, count : Nat, counted : Nat]
      /\ q.at = second /\ q.bucket = q.at \div Window /\ q.count = 0
  BY <1>1 DEF LimiterInv, LimiterTypes
<1> HIDE DEF q
<1>4. LimiterTypes'
  BY <1>2, <1>3 DEF LimiterInv, LimiterTypes, ArrivalSteps
<1>5. bucketOf'[a] = q /\ arrivalPc'[a] = "incr"
      /\ \A c \in Arrivals \ {a} : bucketOf'[c] = bucketOf[c] /\ arrivalPc'[c] = arrivalPc[c]
  BY <1>2 DEF LimiterInv, LimiterTypes
<1>6. ~InTime(q)
  BY <1>3 DEF InTime
<1>7. \A x \in admitted : x.who # a
  BY <1>2 DEF LimiterInv
<1>8. second <= second
  BY DEF LimiterInv, LimiterTypes
<1>9. QED
  BY <1>2, <1>3, <1>4, <1>5, <1>6, <1>7, <1>8 DEF LimiterInv

\* A request that has been answered: it was counted, and what it has is kept.
LEMMA AnswerKept ==
  ASSUME NEW q, NEW a \in Arrivals, Answers(a, q), q.count \in Nat, q.count > 0,
         \A x \in admitted : x.who # a
  PROVE  \A x \in admitted' : \/ x \in admitted
                              \/ /\ x = [who |-> a, at |-> q.at, counted |-> q.counted]
                                 /\ q.count \in 1..Limit
BY LimiterAssumption DEF Answers

\* Its INCR.
LEMMA Increments ==
  ASSUME LimiterInv, NEW a \in Arrivals, Increment(a)
  PROVE  LimiterInv'
<1> DEFINE q == Incremented(a)
           b == bucketOf[a].bucket
           n == counters[b].count + 1
<1>1. /\ bucketOf[a] \in [bucket : Buckets, at : 0..LastSecond, count : Nat, counted : Nat]
      /\ arrivalPc[a] = "incr" /\ second \in Nat
      /\ counters \in [Buckets -> [count : Nat, expires : Nat]]
      /\ b \in Buckets /\ b = bucketOf[a].at \div Window /\ bucketOf[a].at <= second
      /\ bucketOf[a].at \in Nat
  BY DEF LimiterInv, LimiterTypes, Increment
<1>2. counters[b] \in [count : Nat, expires : Nat]
  BY <1>1
<1>3. n \in Nat /\ n > 0
  BY <1>2
<1>4. /\ q \in [bucket : Buckets, at : 0..LastSecond, count : Nat, counted : Nat]
      /\ q.bucket = b /\ q.at = bucketOf[a].at /\ q.count = n /\ q.counted = second
  BY <1>1, <1>3 DEF Incremented
<1>5. /\ bucketOf' = [bucketOf EXCEPT ![a] = q]
      /\ counters' = [counters EXCEPT ![b].count = n]
      /\ second' = second
      /\ \/ n = 1 /\ arrivalPc' = [arrivalPc EXCEPT ![a] = "expire"] /\ UNCHANGED admitted
         \/ arrivalPc' = [arrivalPc EXCEPT ![a] = "done"] /\ Answers(a, q)
  BY <1>4 DEF Increment
<1> HIDE DEF q, n
<1>6. LimiterTypes'
  <2>1. bucketOf' \in [Arrivals -> [bucket : Buckets, at : 0..LastSecond, count : Nat, counted : Nat]]
    BY <1>4, <1>5 DEF LimiterInv, LimiterTypes
  <2>2. counters' \in [Buckets -> [count : Nat, expires : Nat]]
    BY <1>1, <1>2, <1>3, <1>5
  <2>3. arrivalPc' \in [Arrivals -> ArrivalSteps] /\ second' \in 0..LastSecond
    BY <1>5 DEF LimiterInv, LimiterTypes, ArrivalSteps
  <2>4. QED
    BY <2>1, <2>2, <2>3 DEF LimiterTypes
<1>7. /\ bucketOf'[a] = q /\ arrivalPc'[a] \in {"expire", "done"}
      /\ \A c \in Arrivals \ {a} : bucketOf'[c] = bucketOf[c] /\ arrivalPc'[c] = arrivalPc[c]
  BY <1>5 DEF LimiterInv, LimiterTypes
<1>8. /\ counters'[b].count = n
      /\ \A d \in Buckets : /\ counters'[d].expires = counters[d].expires
                            /\ counters[d].count <= counters'[d].count
                            /\ counters'[d].count \in Nat
  <2>1. counters' = [counters EXCEPT ![b] = [counters[b] EXCEPT !.count = n]]
    BY <1>1, <1>5
  <2>2. \A d \in Buckets : counters[d] \in [count : Nat, expires : Nat]
    BY <1>1
  <2>3. \A d \in Buckets \ {b} : counters'[d] = counters[d]
    BY <1>1, <2>1
  <2>4. counters'[b] = [counters[b] EXCEPT !.count = n]
    BY <1>1, <2>1
  <2>5. counters'[b].count = n /\ counters'[b].expires = counters[b].expires
    BY <1>2, <2>4
  <2>6. counters[b].count <= n
    BY <1>2 DEF n
  <2>7. ASSUME NEW d \in Buckets
        PROVE  /\ counters'[d].expires = counters[d].expires
               /\ counters[d].count <= counters'[d].count
               /\ counters'[d].count \in Nat
    <3>1. CASE d = b
      BY <1>3, <2>5, <2>6, <3>1
    <3>2. CASE d # b
      <4>1. counters'[d] = counters[d] /\ counters[d].count \in Nat
        BY <2>2, <2>3, <3>2
      <4>2. QED
        BY <4>1
    <3>3. QED
      BY <3>1, <3>2
  <2>8. QED
    BY <2>5, <2>7
<1>9. Punctual(q) => second <= LastCall(b)
  BY <1>1, <1>4, LastCallIs DEF Punctual
<1>10. ASSUME NEW c \in Arrivals \ {a}, InTime(bucketOf[c]), InTime(q), bucketOf[c].bucket = b
       PROVE  bucketOf[c].count # n
  <2>1. bucketOf[c].count <= counters[b].count
    BY <1>9, <1>10 DEF LimiterInv, InTime
  <2>2. bucketOf[c].count \in Nat
    BY DEF LimiterInv, LimiterTypes
  <2>3. QED
    BY <1>2, <2>1, <2>2 DEF n
<1>11. ASSUME NEW c \in Arrivals
       PROVE  /\ bucketOf'[c].at <= second' /\ bucketOf'[c].bucket = bucketOf'[c].at \div Window
              /\ arrivalPc'[c] \in {"idle", "incr"} => bucketOf'[c].count = 0
              /\ arrivalPc'[c] = "expire" => bucketOf'[c].count > 0
              /\ InTime(bucketOf'[c]) /\ second' <= LastCall(bucketOf'[c].bucket)
                    => bucketOf'[c].count <= counters'[bucketOf'[c].bucket].count
  <2>1. CASE c = a
    BY <1>1, <1>3, <1>4, <1>5, <1>7, <1>8, <2>1
  <2>2. CASE c # a
    <3>1. bucketOf[c].bucket \in Buckets /\ bucketOf[c].count \in Nat
      BY DEF LimiterInv, LimiterTypes
    <3>2. counters[bucketOf[c].bucket].count \in Nat
      BY <1>1, <3>1
    <3>3. QED
      BY <1>5, <1>7, <1>8, <2>2, <3>1, <3>2 DEF LimiterInv
  <2>3. QED
    BY <2>1, <2>2
<1>12. ASSUME NEW c \in Arrivals, NEW d \in Arrivals, c # d, InTime(bucketOf'[c]),
              InTime(bucketOf'[d]), bucketOf'[c].bucket = bucketOf'[d].bucket
       PROVE  bucketOf'[c].count # bucketOf'[d].count
  <2>1. CASE c = a
    BY <1>4, <1>7, <1>10, <1>12, <2>1
  <2>2. CASE d = a
    BY <1>4, <1>7, <1>10, <1>12, <2>2
  <2>3. CASE c # a /\ d # a
    BY <1>7, <1>12, <2>3 DEF LimiterInv
  <2>4. QED
    BY <2>1, <2>2, <2>3
<1>13. ASSUME NEW x \in admitted'
       PROVE  /\ x.who \in Arrivals /\ bucketOf'[x.who].count \in 1..Limit
              /\ arrivalPc'[x.who] = "done"
              /\ x = [who |-> x.who, at |-> bucketOf'[x.who].at,
                      counted |-> bucketOf'[x.who].counted]
  <2>1. \A y \in admitted : y.who \in Arrivals \ {a}
    BY <1>1 DEF LimiterInv
  <2>2. CASE x \in admitted
    BY <1>7, <2>1, <2>2 DEF LimiterInv
  <2>3. CASE x \notin admitted
    <3>1. Answers(a, q) /\ arrivalPc' = [arrivalPc EXCEPT ![a] = "done"]
      BY <1>5, <2>3
    <3>2. arrivalPc'[a] = "done"
      BY <3>1 DEF LimiterInv, LimiterTypes
    <3>3. x = [who |-> a, at |-> q.at, counted |-> q.counted] /\ q.count \in 1..Limit
      BY <1>3, <1>4, <2>1, <2>3, <3>1, AnswerKept
    <3>4. QED
      BY <1>7, <3>2, <3>3
  <2>4. QED
    BY <2>2, <2>3
<1>14. \A d \in Buckets : counters'[d].expires # 0 => counters'[d].expires > LastCall(d)
  BY <1>8 DEF LimiterInv
<1>15. QED
  BY <1>6, <1>11, <1>12, <1>13, <1>14 DEF LimiterInv

\* Its EXPIRE, which a counter that has it outlives the last call with.
LEMMA SetsExpiry ==
  ASSUME LimiterInv, NEW a \in Arrivals, SetExpiry(a)
  PROVE  LimiterInv'
<1> DEFINE q == bucketOf[a]
           b == q.bucket
           e == second + Window + 1
<1>1. /\ q \in [bucket : Buckets, at : 0..LastSecond, count : Nat, counted : Nat]
      /\ second \in Nat /\ counters \in [Buckets -> [count : Nat, expires : Nat]]
      /\ b \in Buckets /\ b = q.at \div Window /\ q.at <= second /\ q.at \in Nat
      /\ arrivalPc[a] = "expire" /\ q.count > 0
  BY DEF LimiterInv, LimiterTypes, SetExpiry
<1>2. /\ arrivalPc' = [arrivalPc EXCEPT ![a] = "done"] /\ UNCHANGED <<second, bucketOf>>
      /\ Answers(a, q)
      /\ counters' = counters \/ counters' = [counters EXCEPT ![b].expires = e]
  BY DEF SetExpiry
<1>3. e \in Nat /\ e > LastCall(b)
  <2>1. LastCall(q.at \div Window) <= q.at + Window /\ LastCall(q.at \div Window) \in Nat
    BY <1>1, LastCallIs
  <2>2. LastCall(b) <= q.at + Window /\ LastCall(b) \in Nat
    BY <1>1, <2>1
  <2>3. Window \in Nat
    BY LimiterAssumption
  <2> HIDE DEF q, b
  <2>4. QED
    BY <1>1, <2>2, <2>3
<1> HIDE DEF q, e
<1>4. LimiterTypes'
  BY <1>1, <1>2, <1>3 DEF LimiterInv, LimiterTypes, ArrivalSteps
<1>5. arrivalPc'[a] = "done" /\ \A c \in Arrivals \ {a} : arrivalPc'[c] = arrivalPc[c]
  BY <1>2 DEF LimiterInv, LimiterTypes
<1>6. \A d \in Buckets : counters'[d].count = counters[d].count
  BY <1>1, <1>2
<1>7. \A d \in Buckets : counters'[d].expires # 0 => counters'[d].expires > LastCall(d)
  BY <1>1, <1>2, <1>3 DEF LimiterInv
<1>8. ASSUME NEW x \in admitted'
      PROVE  /\ x.who \in Arrivals /\ bucketOf'[x.who].count \in 1..Limit
             /\ arrivalPc'[x.who] = "done"
             /\ x = [who |-> x.who, at |-> bucketOf'[x.who].at,
                     counted |-> bucketOf'[x.who].counted]
  <2>1. \A y \in admitted : y.who \in Arrivals \ {a}
    BY <1>1 DEF LimiterInv
  <2>2. CASE x \in admitted
    BY <1>2, <1>5, <2>1, <2>2 DEF LimiterInv
  <2>3. CASE x \notin admitted
    <3>1. x = [who |-> a, at |-> q.at, counted |-> q.counted] /\ q.count \in 1..Limit
      BY <1>1, <1>2, <2>1, <2>3, AnswerKept
    <3>2. QED
      BY <1>2, <1>5, <3>1 DEF q
  <2>4. QED
    BY <2>2, <2>3
<1>9. ASSUME NEW c \in Arrivals
      PROVE  /\ bucketOf'[c].at <= second' /\ bucketOf'[c].bucket = bucketOf'[c].at \div Window
             /\ arrivalPc'[c] \in {"idle", "incr"} => bucketOf'[c].count = 0
             /\ arrivalPc'[c] = "expire" => bucketOf'[c].count > 0
             /\ InTime(bucketOf'[c]) /\ second' <= LastCall(bucketOf'[c].bucket)
                   => bucketOf'[c].count <= counters'[bucketOf'[c].bucket].count
  <2>1. bucketOf[c].bucket \in Buckets
    BY DEF LimiterInv, LimiterTypes
  <2>2. arrivalPc'[c] \in {arrivalPc[c], "done"}
    BY <1>5
  <2>3. QED
    BY <1>2, <1>6, <2>1, <2>2 DEF LimiterInv
<1>10. QED
  BY <1>2, <1>4, <1>7, <1>8, <1>9 DEF LimiterInv

\* A request that fails is not counted any more than it was.
LEMMA FailsToArrive ==
  ASSUME LimiterInv, NEW a \in Arrivals, ArrivalFails(a)
  PROVE  LimiterInv'
<1>1. /\ arrivalPc' = [arrivalPc EXCEPT ![a] = "done"]
      /\ UNCHANGED <<second, counters, bucketOf, admitted>>
  BY DEF ArrivalFails
<1>2. LimiterTypes'
  BY <1>1 DEF LimiterInv, LimiterTypes, ArrivalSteps
<1>3. \A c \in Arrivals : arrivalPc'[c] \in {arrivalPc[c], "done"}
  BY <1>1 DEF LimiterInv, LimiterTypes
<1>4. \A x \in admitted : x.who \in Arrivals /\ arrivalPc[x.who] = "done"
  BY DEF LimiterInv
<1>5. QED
  BY <1>1, <1>2, <1>3, <1>4 DEF LimiterInv

\* What expires is nobody's to increment in time.
LEMMA ClockGoesOn ==
  ASSUME LimiterInv, ClockTicks
  PROVE  LimiterInv'
<1>1. /\ second \in 0..LastSecond /\ second < LastSecond /\ second' = second + 1
      /\ LastSecond \in Nat
      /\ counters \in [Buckets -> [count : Nat, expires : Nat]]
      /\ UNCHANGED <<arrivalPc, bucketOf, admitted>>
      /\ counters' = [b \in Buckets |->
                        IF counters[b].expires \in 1..second' THEN Absent ELSE counters[b]]
  BY LimiterAssumption DEF LimiterInv, LimiterTypes, ClockTicks
<1>2. second' \in 0..LastSecond
  BY <1>1
<1>3. Absent \in [count : Nat, expires : Nat] /\ Absent.expires = 0
  BY DEF Absent
<1>4. LimiterTypes'
  BY <1>1, <1>2, <1>3 DEF LimiterInv, LimiterTypes
<1>5. ASSUME NEW b \in Buckets, second' <= LastCall(b)
      PROVE  counters'[b] = counters[b]
  <2>1. counters[b].expires # 0 => counters[b].expires > LastCall(b)
    BY DEF LimiterInv
  <2>2. counters[b].expires \in Nat /\ LastCall(b) \in Nat
    BY <1>1, LimiterAssumption DEF LastCall, Buckets
  <2>3. QED
    BY <1>1, <1>5, <2>1, <2>2
<1>6. \A b \in Buckets : counters'[b].expires # 0 => counters'[b].expires > LastCall(b)
  BY <1>1, <1>3 DEF LimiterInv
<1>7. ASSUME NEW c \in Arrivals
      PROVE  /\ bucketOf'[c].at <= second' /\ bucketOf'[c].bucket = bucketOf'[c].at \div Window
             /\ arrivalPc'[c] \in {"idle", "incr"} => bucketOf'[c].count = 0
             /\ arrivalPc'[c] = "expire" => bucketOf'[c].count > 0
             /\ InTime(bucketOf'[c]) /\ second' <= LastCall(bucketOf'[c].bucket)
                   => bucketOf'[c].count <= counters'[bucketOf'[c].bucket].count
  <2>1. bucketOf[c].bucket \in Buckets /\ bucketOf[c].at \in 0..LastSecond
    BY DEF LimiterInv, LimiterTypes
  <2>2. LastCall(bucketOf[c].bucket) \in Nat
    BY <2>1, LimiterAssumption DEF LastCall, Buckets
  <2>3. second' <= LastCall(bucketOf[c].bucket) => second <= LastCall(bucketOf[c].bucket)
    BY <1>1, <2>2
  <2>4. bucketOf[c].at <= second'
    BY <1>1, <2>1 DEF LimiterInv
  <2>5. QED
    BY <1>1, <1>5, <2>1, <2>3, <2>4 DEF LimiterInv
<1>8. QED
  BY <1>1, <1>4, <1>6, <1>7 DEF LimiterInv

\* However long requests take and wherever they fail, a window admits no more of
\* the punctual ones than twice the limit.
THEOREM WindowsAdmitTwice == LimiterSpec => []AtMostTwice
<1>1. LimiterInit => LimiterInv
  <2> SUFFICES ASSUME LimiterInit PROVE LimiterInv
    OBVIOUS
  <2>1. 0 \div Window = 0 /\ 0 \in Buckets /\ 0 \in 0..LastSecond
    <3>1. 0 \div Window = 0
      BY LimiterAssumption, QuotientIs
    <3>2. LastSecond \div Window \in Nat
      BY LimiterAssumption, QuotientIs
    <3>3. QED
      BY <3>1, <3>2, LimiterAssumption DEF Buckets
  <2>2. LimiterTypes
    BY <2>1 DEF LimiterInit, LimiterTypes, ArrivalSteps, Absent
  <2>3. QED
    BY <2>1, <2>2 DEF LimiterInit, LimiterInv, InTime, Absent
<1>2. LimiterInv /\ [LimiterNext]_limiterVars => LimiterInv'
  <2> SUFFICES ASSUME LimiterInv, [LimiterNext]_limiterVars PROVE LimiterInv'
    OBVIOUS
  <2>1. CASE UNCHANGED limiterVars
    BY <2>1 DEF limiterVars, LimiterInv, LimiterTypes
  <2>2. QED
    BY <2>1, ComputesBucket, Increments, SetsExpiry, FailsToArrive, ClockGoesOn DEF LimiterNext
<1>3. LimiterInv => AtMostTwice
  <2> SUFFICES ASSUME LimiterInv, NEW from \in 0..LastSecond
               PROVE  Cardinality({ x \in admitted : x.at \in from..from + Window - 1 /\ Punctual(x) })
                        <= 2 * Limit
    BY DEF AtMostTwice
  <2> DEFINE S == { x \in admitted : x.at \in from..from + Window - 1 /\ Punctual(x) }
             first == from \div Window
             f == [x \in S |-> IF bucketOf[x.who].bucket = first
                               THEN bucketOf[x.who].count ELSE Limit + bucketOf[x.who].count]
  <2>1. from \in Nat /\ Limit \in Nat /\ Window \in Nat \ {0}
    BY LimiterAssumption
  <2>2. ASSUME NEW x \in S
        PROVE  /\ x.who \in Arrivals /\ bucketOf[x.who].count \in 1..Limit
               /\ InTime(bucketOf[x.who])
               /\ bucketOf[x.who].bucket \in {first, first + 1}
               /\ x = [who |-> x.who, at |-> bucketOf[x.who].at,
                       counted |-> bucketOf[x.who].counted]
    <3>1. /\ x.who \in Arrivals /\ bucketOf[x.who].count \in 1..Limit
          /\ x = [who |-> x.who, at |-> bucketOf[x.who].at,
                  counted |-> bucketOf[x.who].counted]
      BY DEF LimiterInv
    <3>2. x.at = bucketOf[x.who].at /\ x.counted = bucketOf[x.who].counted
      BY <3>1
    <3>3. InTime(bucketOf[x.who])
      BY <2>1, <3>1, <3>2 DEF InTime, Punctual
    <3>4. bucketOf[x.who].bucket = x.at \div Window /\ x.at \in from..from + Window - 1
      BY <3>1, <3>2 DEF LimiterInv
    <3>5. bucketOf[x.who].bucket \in {first, first + 1}
      BY <2>1, <3>4, TwoBuckets
    <3>6. QED
      BY <3>1, <3>3, <3>5
  <2>3. \A x \in S : f[x] \in 1..2 * Limit
    BY <2>1, <2>2
  <2>4. ASSUME NEW x \in S, NEW y \in S, f[x] = f[y]
        PROVE  x = y
    <3>1. /\ bucketOf[x.who].bucket = bucketOf[y.who].bucket
          /\ bucketOf[x.who].count = bucketOf[y.who].count
      <4>1. first \in Nat /\ first # first + 1
        BY <2>1, QuotientIs
      <4>2. bucketOf[x.who].count \in 1..Limit /\ bucketOf[y.who].count \in 1..Limit
        BY <2>2
      <4>3. bucketOf[x.who].bucket \in {first, first + 1}
            /\ bucketOf[y.who].bucket \in {first, first + 1}
        BY <2>2
      <4> HIDE DEF first, S
      <4>4. QED
        BY <2>1, <2>4, <4>1, <4>2, <4>3
    <3>2. x.who = y.who
      BY <2>2, <3>1 DEF LimiterInv
    <3>3. QED
      BY <2>2, <3>2
  <2>5. f \in Injection(S, 1..2 * Limit)
    <3> HIDE DEF S
    <3>1. f \in [S -> 1..2 * Limit]
      BY <2>3
    <3>2. QED
      BY <2>4, <3>1 DEF Injection, IsInjective
  <2>6. IsFiniteSet(1..2 * Limit) /\ Cardinality(1..2 * Limit) = 2 * Limit
    BY <2>1, FS_Interval
  <2> HIDE DEF S, f
  <2>7. Cardinality(S) <= Cardinality(1..2 * Limit)
    BY <2>5, <2>6, FS_Injection
  <2>8. QED
    BY <2>6, <2>7 DEF S
<1>4. QED
  BY <1>1, <1>2, <1>3, PTL DEF LimiterSpec

-----------------------------------------------------------------------------
(* Pricing.                                                                *)

Price == Nat \ {0}

LimitsInv ==
    /\ profiles \in [Sides -> Profiles] /\ turn \in 0..MaxRounds
    /\ lastOf \in [Sides -> Price \cup {NoPrice}] /\ sent.side \in Sides
    /\ vetoes \in Nat
    /\ CountersWithinLimits

\* Rounding gives an integer, keeps the order, and does not go below a whole
\* number of paise.
LEMMA RoundedIs ==
  ASSUME NEW n \in Int, NEW d \in Nat \ {0}
  PROVE  Rounded(n, d) \in Int
BY DEF Rounded

\* Rounding keeps the order.
LEMMA RoundedInOrder ==
  ASSUME NEW n \in Nat, NEW m \in Nat, n <= m, NEW d \in Nat \ {0}
  PROVE  Rounded(n, d) <= Rounded(m, d)
<1>1. 2 * n + d \in Nat /\ 2 * m + d \in Nat /\ 2 * n + d <= 2 * m + d /\ 2 * d \in Nat \ {0}
  OBVIOUS
<1>2. QED
  BY <1>1, QuotientsInOrder DEF Rounded

\* What is at least a whole number is rounded to at least that number.
LEMMA RoundedKeeps ==
  ASSUME NEW n \in Nat, NEW r \in Nat, NEW d \in Nat \ {0}, n >= r * d
  PROVE  Rounded(n, d) >= r
<1> DEFINE m == 2 * n + d
           w == 2 * d
           q == m \div w
<1>1. m \in Nat /\ w \in Nat \ {0}
  OBVIOUS
<1>2. q \in Nat /\ m < w * q + w
  BY <1>1, QuotientIs
<1>3. m >= r * w + d
  <2>1. r * w = 2 * (r * d) /\ r * d \in Nat
    OBVIOUS
  <2>2. QED
    BY <2>1
<1> HIDE DEF m, w, q
<1>4. SUFFICES ASSUME q + 1 <= r PROVE FALSE
  BY <1>2 DEF Rounded, q, m, w
<1>5. w * (q + 1) <= w * r
  BY <1>1, <1>2, <1>4
<1>6. w * (q + 1) = w * q + w /\ w * r = r * w /\ w * q \in Nat /\ r * w \in Nat
  BY <1>1, <1>2
<1>7. QED
  BY <1>1, <1>2, <1>3, <1>5, <1>6

\* Every price is at least a paisa, and no less than it was.
LEMMA AtLeast1Is ==
  ASSUME NEW p \in Int
  PROVE  AtLeast1(p) \in Price /\ AtLeast1(p) >= p
BY DEF AtLeast1, Most, Price

\* Both valuations are prices; a seller's target is not under its reservation
\* price when its floor is not above its markup.
LEMMA ValuationsAre ==
  ASSUME NEW p \in Profiles
  PROVE  /\ BuyerValuation(p).reservation \in Price /\ BuyerValuation(p).target \in Price
         /\ SellerValuation(p).reservation \in Price /\ SellerValuation(p).target \in Price
         /\ p.floor <= Markup(p.appetite)
               => SellerValuation(p).target >= SellerValuation(p).reservation
<1>1. p.budget \in Nat \ {0} /\ p.floor \in 0..100 /\ p.appetite \in {"LOW", "MEDIUM", "HIGH"}
  BY PricingAssumption
<1>2. /\ Risk(p.appetite) \in 0..100 /\ Discount(p.appetite) \in 0..100
      /\ Markup(p.appetite) \in 0..100
  BY <1>1 DEF Risk, Discount, Markup
<1>3. 10000 \in Nat \ {0}
  OBVIOUS
<1>4. \A a \in 0..100, c \in Nat : c * p.budget * (100 - a) \in Int /\ c * p.budget * (100 + a) \in Nat
  BY <1>1
<1>5. /\ 80 * p.budget * (100 - Risk(p.appetite)) \in Int
      /\ 80 * p.budget * (100 - Discount(p.appetite)) \in Int
      /\ 60 * p.budget * (100 + p.floor) \in Nat
      /\ 60 * p.budget * (100 + Markup(p.appetite)) \in Nat
  BY <1>1, <1>2, <1>4
<1>6. BuyerValuation(p).reservation \in Price /\ BuyerValuation(p).target \in Price
  <2> DEFINE n == 80 * p.budget * (100 - Risk(p.appetite))
             m == 80 * p.budget * (100 - Discount(p.appetite))
  <2>1. n \in Int /\ m \in Int
    BY <1>5
  <2> HIDE DEF n, m
  <2>2. AtLeast1(Rounded(n, 10000)) \in Price /\ AtLeast1(Rounded(m, 10000)) \in Price
    BY <1>3, <2>1, RoundedIs, AtLeast1Is
  <2>3. Least(AtLeast1(Rounded(n, 10000)), p.budget) \in Price
    BY <1>1, <2>2 DEF Least, Price
  <2>4. QED
    BY <2>2, <2>3 DEF BuyerValuation, n, m
<1>7. SellerValuation(p).reservation \in Price /\ SellerValuation(p).target \in Price
  <2> DEFINE n == 60 * p.budget * (100 + p.floor)
             m == 60 * p.budget * (100 + Markup(p.appetite))
  <2>1. n \in Int /\ m \in Int
    BY <1>5
  <2> HIDE DEF n, m
  <2>2. AtLeast1(Rounded(n, 10000)) \in Price /\ AtLeast1(Rounded(m, 10000)) \in Price
    BY <1>3, <2>1, RoundedIs, AtLeast1Is
  <2>3. QED
    BY <2>2 DEF SellerValuation, n, m
<1>8. ASSUME p.floor <= Markup(p.appetite)
      PROVE  SellerValuation(p).target >= SellerValuation(p).reservation
  <2> DEFINE n == 60 * p.budget * (100 + p.floor)
             m == 60 * p.budget * (100 + Markup(p.appetite))
  <2>1. n <= m
    <3> DEFINE c == 60 * p.budget
               a == 100 + p.floor
               b == 100 + Markup(p.appetite)
    <3>1. c \in Nat
      BY <1>1
    <3>2. a \in Nat /\ b \in Nat /\ a <= b
      <4> DEFINE floor == p.floor
                 markup == Markup(p.appetite)
      <4>1. floor \in 0..100 /\ markup \in 0..100 /\ floor <= markup
        BY <1>1, <1>2, <1>8
      <4> HIDE DEF floor, markup
      <4>2. 100 + floor \in Nat /\ 100 + markup \in Nat /\ 100 + floor <= 100 + markup
        BY <4>1
      <4>3. QED
        BY <4>2 DEF floor, markup
    <3> HIDE DEF a, b, c
    <3>3. c * a <= c * b
      BY <3>1, <3>2
    <3>4. QED
      BY <3>3 DEF a, b, c
  <2>2. n \in Nat /\ m \in Nat
    BY <1>5
  <2> HIDE DEF n, m
  <2>3. Rounded(n, 10000) <= Rounded(m, 10000)
    BY <1>3, <2>1, <2>2, RoundedInOrder
  <2>4. Rounded(n, 10000) \in Int /\ Rounded(m, 10000) \in Int
    BY <1>3, <2>2, RoundedIs
  <2>5. AtLeast1(Rounded(n, 10000)) <= AtLeast1(Rounded(m, 10000))
    BY <2>3, <2>4 DEF AtLeast1, Most
  <2>6. QED
    BY <2>5 DEF SellerValuation, n, m
<1>9. QED
  BY <1>6, <1>7, <1>8

\* A concession gives a price; a seller's, of no more than the whole range from
\* its target, does not go below the reservation price.
LEMMA ConcededIs ==
  ASSUME NEW side \in Sides, NEW v, v.reservation \in Price, v.target \in Price,
         NEW whole \in Nat \ {0}, NEW share \in 0..whole
  PROVE  /\ Conceded(side, v, share, whole) \in Price
         /\ side = "SELLER" /\ v.target >= v.reservation
               => Conceded(side, v, share, whole) >= v.reservation
<1> DEFINE r == v.reservation
           t == v.target
           g == Gap(r, t)
           n == t * whole + (IF side = "BUYER" THEN g * share ELSE -(g * share))
<1>1. r \in Nat /\ t \in Nat
  BY DEF Price
<1>2. g \in Nat /\ (t >= r => g = t - r)
  BY <1>1 DEF Gap, Most, Least
<1> HIDE DEF r, t, g
<1>3. t * whole \in Nat /\ g * share \in Nat
  BY <1>1, <1>2
<1>4. n \in Int
  BY <1>3
<1>5. ASSUME side = "SELLER", t >= r
      PROVE  n \in Nat /\ n >= r * whole
  <2>1. g * share <= g * whole
    BY <1>2
  <2>2. g * whole = t * whole - r * whole /\ r * whole \in Nat
    BY <1>1, <1>2, <1>5
  <2>3. n = t * whole - g * share
    BY <1>3, <1>5
  <2> HIDE DEF n
  <2>4. QED
    BY <1>3, <2>1, <2>2, <2>3
<1> HIDE DEF n
<1>6. Rounded(n, whole) \in Int
  BY <1>4, RoundedIs
<1>7. side = "SELLER" /\ t >= r => Rounded(n, whole) >= r
  BY <1>1, <1>5, RoundedKeeps
<1>8. AtLeast1(Rounded(n, whole)) \in Price /\ AtLeast1(Rounded(n, whole)) >= Rounded(n, whole)
  BY <1>6, AtLeast1Is
<1>9. /\ AtLeast1(Rounded(n, whole)) \in Price
      /\ side = "SELLER" /\ t >= r => AtLeast1(Rounded(n, whole)) >= r
  BY <1>1, <1>6, <1>7, <1>8 DEF Price
<1>10. QED
  BY <1>9 DEF Conceded, n, g, t, r

\* What is clamped is a price, a seller's not below its reservation price.
LEMMA ClampedIs ==
  ASSUME NEW side \in Sides, NEW v, v.reservation \in Price, NEW p \in Int
  PROVE  /\ Clamped(side, v, p) \in Price
         /\ side = "SELLER" => Clamped(side, v, p) >= v.reservation
BY DEF Clamped, AtLeast1, Least, Most, Price, Sides

\* The opening price is a price, a seller's not below its target.
LEMMA StrongAnchorIs ==
  ASSUME NEW side \in Sides, NEW v, v.target \in Price
  PROVE  /\ StrongAnchor(side, v) \in Price
         /\ side = "SELLER" => StrongAnchor(side, v) >= v.target
<1>1. /\ v.target \in Nat /\ v.target * 95 \in Nat /\ v.target * 110 \in Nat
      /\ v.target * 110 >= v.target * 100 /\ 100 \in Nat \ {0}
  BY DEF Price
<1>2. Rounded(v.target * 95, 100) \in Int
  BY <1>1, RoundedIs
<1>3. Rounded(v.target * 110, 100) \in Int /\ Rounded(v.target * 110, 100) >= v.target
  <2> DEFINE t == v.target
             n == t * 110
  <2>1. t \in Nat /\ n \in Nat /\ n >= t * 100 /\ 100 \in Nat \ {0}
    BY <1>1
  <2> HIDE DEF t, n
  <2>2. Rounded(n, 100) \in Int /\ Rounded(n, 100) >= t
    BY <2>1, RoundedIs, RoundedKeeps
  <2>3. QED
    BY <2>2 DEF t, n
<1>4. /\ AtLeast1(Rounded(v.target * 95, 100)) \in Price
      /\ AtLeast1(Rounded(v.target * 110, 100)) \in Price
      /\ AtLeast1(Rounded(v.target * 110, 100)) >= Rounded(v.target * 110, 100)
  BY <1>2, <1>3, AtLeast1Is
<1>5. AtLeast1(Rounded(v.target * 110, 100)) >= v.target
  BY <1>1, <1>3, <1>4 DEF Price
<1>6. CASE side = "BUYER"
  BY <1>4, <1>6 DEF StrongAnchor
<1>7. CASE side = "SELLER"
  BY <1>4, <1>5, <1>7 DEF StrongAnchor
<1>8. QED
  BY <1>6, <1>7 DEF Sides

\* A smaller number has a smaller cube.
LEMMA CubesInOrder ==
  ASSUME NEW a \in Nat, NEW b \in Nat, a <= b
  PROVE  a * a * a \in Nat /\ b * b * b \in Nat /\ a * a * a <= b * b * b
<1>1. a * a \in Nat /\ b * b \in Nat /\ a * a <= a * b /\ a * b <= b * b /\ a * b \in Nat
  OBVIOUS
<1> DEFINE s == a * a
           u == b * b
<1>2. s \in Nat /\ u \in Nat /\ s <= u
  BY <1>1
<1> HIDE DEF s, u
<1>3. s * a \in Nat /\ u * b \in Nat /\ s * a <= u * a /\ u * a <= u * b /\ u * a \in Nat
  BY <1>2
<1>4. s * a <= u * b
  BY <1>3
<1>5. QED
  BY <1>3, <1>4 DEF s, u

\* The engine's suggestion is a price; a seller's whose floor is not above its
\* markup is not below its reservation price, whichever strategy is chosen.
LEMMA SuggestedIs ==
  ASSUME LimitsInv, NEW side \in Sides, NEW flexibility, NEW stalled, turn < MaxRounds
  PROVE  /\ Suggested(side, flexibility, stalled) \in Price
         /\ side = "SELLER" /\ profiles[side].floor <= Markup(profiles[side].appetite)
               => Suggested(side, flexibility, stalled) >= Valued(side).reservation
<1> DEFINE v == Valued(side)
           theirs == lastOf[Other(side)]
           mine == IF lastOf[side] = NoPrice THEN v.target ELSE lastOf[side]
           tame == side = "SELLER" /\ profiles[side].floor <= Markup(profiles[side].appetite)
           Good(p) == p \in Price /\ (tame => p >= v.reservation)
<1>1. v.reservation \in Price /\ v.target \in Price /\ (tame => v.target >= v.reservation)
  BY ValuationsAre DEF Valued, LimitsInv, Sides
<1>2. theirs \in Price \cup {NoPrice} /\ Other(side) \in Sides
  BY DEF LimitsInv, Other, Sides
<1>3. mine \in Price
  BY <1>1 DEF LimitsInv
<1>4. MaxRounds \in Nat \ {0} /\ turn \in 0..MaxRounds /\ Ramp[turn] \in 0..1000
  <2> DEFINE D == 0..MaxRounds
             R == 0..1000
  <2>1. MaxRounds \in Nat \ {0} /\ Ramp \in [D -> R]
    BY PricingAssumption
  <2>2. turn \in D
    BY DEF LimitsInv
  <2> HIDE DEF D, R
  <2>3. Ramp[turn] \in R
    BY <2>1, <2>2
  <2>4. QED
    BY <2>1, <2>2, <2>3 DEF D, R
<1>5. tame => side = "SELLER"
  OBVIOUS
<1> HIDE DEF v, theirs, mine, tame
<1>6. Good(StrongAnchor(side, v))
  BY <1>1, <1>5, StrongAnchorIs DEF Price
<1>7. Good(v.reservation)
  BY <1>1 DEF Price
<1>8. \A p \in Int : Good(Clamped(side, v, p))
  BY <1>1, <1>5, ClampedIs
<1>9. Good(Ultimatum(side, v, mine, theirs))
  <2>1. CASE theirs = NoPrice
    BY <1>3, <1>8, <2>1 DEF Ultimatum, Price
  <2>2. CASE theirs # NoPrice
    <3>1. mine + theirs \in Int /\ 2 \in Nat \ {0}
      BY <1>2, <1>3, <2>2 DEF Price
    <3>2. Rounded(mine + theirs, 2) \in Int
      BY <3>1, RoundedIs
    <3>3. QED
      BY <1>8, <2>2, <3>2 DEF Ultimatum
  <2>3. QED
    BY <2>1, <2>2
<1>10. \A s \in Int : Moved(side, mine, s) \in Int
  <2> SUFFICES ASSUME NEW s \in Int
               PROVE  Moved(side, mine, s) \in Int
    OBVIOUS
  <2> DEFINE n == mine * (10000 + (IF side = "BUYER" THEN s ELSE -s))
  <2>1. 10000 + (IF side = "BUYER" THEN s ELSE -s) \in Int
    OBVIOUS
  <2>2. n \in Int /\ 10000 \in Nat \ {0}
    BY <1>3, <2>1 DEF Price
  <2> HIDE DEF n
  <2>3. QED
    BY <2>2, RoundedIs DEF Moved, n
<1>11. Good(Hardball(side, v, mine))
  BY <1>8, <1>10 DEF Hardball
<1>12. Good(DeadlinePressure(side, v))
  <2> DEFINE share == Ramp[turn]
             whole == 1000
  <2>1. whole \in Nat \ {0} /\ share \in 0..whole
    BY <1>4
  <2> HIDE DEF share, whole
  <2>2. Good(Conceded(side, v, share, whole))
    BY <1>1, <1>5, <2>1, ConcededIs
  <2>3. QED
    BY <2>2 DEF DeadlinePressure, share, whole
<1>13. Good(TitForTat(side, v, mine, theirs))
  <2> DEFINE share == IF theirs = NoPrice THEN 200 ELSE Rounded(Gap(theirs, mine) * 8500, mine)
  <2>1. share \in Int
    <3>1. CASE theirs = NoPrice
      BY <3>1
    <3>2. CASE theirs # NoPrice
      <4>1. Gap(theirs, mine) * 8500 \in Int /\ mine \in Nat \ {0}
        BY <1>2, <1>3, <3>2 DEF Gap, Most, Least, Price
      <4>2. QED
        BY <3>2, <4>1, RoundedIs
    <3>3. QED
      BY <3>1, <3>2
  <2> HIDE DEF share
  <2>2. Most(Least(share, 1500), 50) \in Int
    BY <2>1 DEF Most, Least
  <2>3. QED
    BY <1>8, <1>10, <2>2 DEF TitForTat, share
<1>14. Good(Boulware(side, v))
  <2> DEFINE left == MaxRounds - turn
             whole == MaxRounds * MaxRounds * MaxRounds
             rest == left * left * left
  <2>1. left \in Nat /\ left <= MaxRounds
    BY <1>4
  <2>2. rest \in Nat /\ whole \in Nat /\ rest <= whole
    BY <1>4, <2>1, CubesInOrder
  <2>3. whole # 0
    BY <1>4
  <2> HIDE DEF whole, rest
  <2>4. whole - rest \in 0..whole /\ whole \in Nat \ {0}
    BY <2>2, <2>3
  <2>5. Good(Conceded(side, v, whole - rest, whole))
    BY <1>1, <1>5, <2>4, ConcededIs
  <2>6. QED
    BY <2>5 DEF Boulware, whole, rest
<1> HIDE DEF Good
<1>15. Good(Suggested(side, flexibility, stalled))
  BY <1>6, <1>7, <1>9, <1>11, <1>12, <1>13, <1>14 DEF Suggested, v, theirs, mine
<1>16. QED
  BY <1>15 DEF Good, v, tame

\* An offer keeps the invariant when its price is one, and within the limits when
\* it is a counter, and it is a placeholder after the last veto alone.
LEMMA SendsKeeps ==
  ASSUME LimitsInv, NEW side \in Sides, NEW kind, NEW price \in Price, Sends(side, kind, price),
         kind = "COUNTER" => WithinLimits(side, price),
         vetoes' \in Nat, vetoes' <= MAX_SCHEMA_FAILURES,
         kind = "BREACH" <=> vetoes' = MAX_SCHEMA_FAILURES
  PROVE  LimitsInv'
<1>1. /\ profiles' = profiles /\ turn' = turn + 1 /\ turn < MaxRounds
      /\ lastOf' = [lastOf EXCEPT ![side] = price]
      /\ sent' = [side |-> side, kind |-> kind, price |-> price]
  BY DEF Sends
<1>2. MaxRounds \in Nat \ {0}
  BY PricingAssumption
<1>3. turn' \in 0..MaxRounds
  BY <1>1, <1>2 DEF LimitsInv
<1>4. lastOf' \in [Sides -> Price \cup {NoPrice}]
  BY <1>1 DEF LimitsInv
<1>5. sent'.side = side /\ sent'.kind = kind /\ sent'.price = price
  BY <1>1
<1>6. CountersWithinLimits'
  BY <1>1, <1>5 DEF CountersWithinLimits, WithinLimits, SellerValuation
<1>7. QED
  BY <1>1, <1>3, <1>4, <1>5, <1>6 DEF LimitsInv

\* While the session goes on, a veto more is at most the last one.
LEMMA FailuresAre ==
  ASSUME LimitsInv, sent.kind \notin GivesUp, NEW price, NEW unsure
  PROVE  /\ vetoes < MAX_SCHEMA_FAILURES
         /\ FailuresAfter(price, unsure) \in Nat
         /\ FailuresAfter(price, unsure) <= MAX_SCHEMA_FAILURES
<1>1. MAX_SCHEMA_FAILURES \in Nat
  BY PricingAssumption
<1>2. vetoes \in Nat /\ vetoes < MAX_SCHEMA_FAILURES
  BY <1>1 DEF LimitsInv, CountersWithinLimits, GivesUp
<1>3. FailuresAfter(price, unsure) \in {vetoes, vetoes + 1}
  BY DEF FailuresAfter
<1>4. QED
  BY <1>1, <1>2, <1>3

\* Whoever's turn it is.
LEMMA SidesAre ==
  ASSUME LimitsInv
  PROVE  OnTurn \in Sides /\ Other(OnTurn) \in Sides
BY DEF LimitsInv, OnTurn, Other, Sides

\* A counter-offer of an agent keeps the invariant.
LEMMA CounterKeepsLimits ==
  ASSUME LimitsInv, AgentCounters
  PROVE  LimitsInv'
<1>1. PICK price \in Asks, unsure \in BOOLEAN, stalled \in BOOLEAN, flexibility \in Flexibilities :
         /\ FailuresAfter(price, unsure) < MAX_SCHEMA_FAILURES
         /\ vetoes' = FailuresAfter(price, unsure)
         /\ Sends(OnTurn, "COUNTER",
                  GoesOut(OnTurn, price, unsure, Suggested(OnTurn, flexibility, stalled)))
  BY DEF AgentCounters
<1>2. /\ vetoes' \in Nat /\ vetoes' <= MAX_SCHEMA_FAILURES /\ vetoes' # MAX_SCHEMA_FAILURES
      /\ sent.kind \notin GivesUp
  <2>1. sent.kind \notin GivesUp
    BY <1>1 DEF Sends
  <2>2. FailuresAfter(price, unsure) \in Nat
    BY <2>1, FailuresAre
  <2>3. QED
    BY <1>1, <2>1, <2>2, PricingAssumption
<1> DEFINE side == OnTurn
           s == Suggested(side, flexibility, stalled)
           b == profiles[side].budget
           p == IF Vetoed(side, price, unsure) THEN s ELSE price
           tame == profiles[side].floor <= Markup(profiles[side].appetite)
           r == SellerValuation(profiles[side]).reservation
<1>3. side \in Sides
  BY SidesAre
<1>4. price \in Price /\ b \in Price
  <2>1. price \in Price
    BY PricingAssumption DEF Price
  <2>2. profiles[side] \in Profiles
    BY <1>3 DEF LimitsInv
  <2>3. b \in Price
    BY <2>2, PricingAssumption DEF Price
  <2>4. QED
    BY <2>1, <2>3
<1>5. turn < MaxRounds
  BY <1>1 DEF Sends
<1>6. s \in Price /\ (side = "SELLER" /\ tame => s >= Valued(side).reservation)
  BY <1>3, <1>5, SuggestedIs
<1>7. side = "SELLER" => Valued(side).reservation = r /\ r \in Price
  <2>1. profiles[side] \in Profiles
    BY <1>3 DEF LimitsInv
  <2>2. r \in Price
    BY <2>1, ValuationsAre
  <2>3. QED
    BY <2>2 DEF Valued
<1>8. p \in Price /\ (side = "SELLER" /\ tame => p >= r)
  BY <1>4, <1>6, <1>7 DEF Vetoed, Price
<1> HIDE DEF s, p, r, b, side, tame
<1>9. CASE side = "BUYER"
  <2>1. Least(p, b) \in Price /\ Least(p, b) <= b
    BY <1>4, <1>8 DEF Least, Price
  <2>2. GoesOut(side, price, unsure, s) = Least(p, b)
    BY <1>9 DEF GoesOut, p, b
  <2>3. GoesOut(side, price, unsure, s) \in Price /\ GoesOut(side, price, unsure, s) <= b
    BY <2>1, <2>2
  <2>4. QED
    BY <1>1, <1>2, <1>3, <1>9, <2>3, SendsKeeps DEF side, s, b, WithinLimits
<1>10. CASE side = "SELLER"
  <2>1. GoesOut(side, price, unsure, s) = p
    BY <1>10 DEF GoesOut, p
  <2>2. GoesOut(side, price, unsure, s) \in Price /\ (tame => GoesOut(side, price, unsure, s) >= r)
    BY <1>8, <1>10, <2>1
  <2>3. QED
    BY <1>1, <1>2, <1>3, <1>10, <2>2, SendsKeeps DEF side, s, r, tame, WithinLimits
<1>11. QED
  BY <1>3, <1>9, <1>10 DEF Sides

\* So does the placeholder of a last veto.
LEMMA BreachKeepsLimits ==
  ASSUME LimitsInv, AgentBreaches
  PROVE  LimitsInv'
<1>1. PICK price \in Asks, unsure \in BOOLEAN :
         /\ FailuresAfter(price, unsure) >= MAX_SCHEMA_FAILURES
         /\ vetoes' = FailuresAfter(price, unsure)
         /\ Sends(OnTurn, "BREACH", Placeholder)
  BY DEF AgentBreaches
<1>2. FailuresAfter(price, unsure) \in Nat /\ FailuresAfter(price, unsure) <= MAX_SCHEMA_FAILURES
  <2>1. sent.kind \notin GivesUp
    BY <1>1 DEF Sends
  <2>2. QED
    BY <2>1, FailuresAre
<1>3. vetoes' \in Nat /\ vetoes' <= MAX_SCHEMA_FAILURES /\ vetoes' = MAX_SCHEMA_FAILURES
  BY <1>1, <1>2, PricingAssumption
<1>4. Placeholder \in Price
  BY DEF Placeholder, Price
<1>5. QED
  BY <1>1, <1>3, <1>4, SidesAre, SendsKeeps

\* So do its other moves, and those of a human.
LEMMA OthersKeepLimits ==
  ASSUME LimitsInv, AgentTimesOut \/ AgentAccepts \/ AgentRejects \/ HumanOverrides
  PROVE  LimitsInv'
<1>1. Asks \subseteq Price /\ Placeholder \in Price
  BY PricingAssumption DEF Price, Placeholder
<1>2. ASSUME NEW side \in Sides, NEW kind \in {"TIMEOUT", "ACCEPT", "REJECT", "OVERRIDE"},
             NEW price \in Price, Sends(side, kind, price), UNCHANGED vetoes
      PROVE  LimitsInv'
  <2>1. sent.kind \notin GivesUp
    BY <1>2 DEF Sends
  <2>2. vetoes < MAX_SCHEMA_FAILURES
    BY <2>1, FailuresAre
  <2>3. vetoes' \in Nat /\ vetoes' <= MAX_SCHEMA_FAILURES /\ vetoes' # MAX_SCHEMA_FAILURES
    BY <1>2, <2>2, PricingAssumption DEF LimitsInv
  <2>4. kind # "COUNTER" /\ kind # "BREACH"
    OBVIOUS
  <2>5. QED
    BY <1>2, <2>3, <2>4, SendsKeeps
<1>3. CASE AgentTimesOut
  BY <1>1, <1>2, <1>3, SidesAre DEF AgentTimesOut
<1>4. CASE AgentAccepts
  <2>1. PICK price \in Asks :
           /\ Sends(OnTurn, "ACCEPT",
                    IF lastOf[Other(OnTurn)] = NoPrice THEN price ELSE lastOf[Other(OnTurn)])
           /\ UNCHANGED vetoes
    BY <1>4 DEF AgentAccepts
  <2>2. (IF lastOf[Other(OnTurn)] = NoPrice THEN price ELSE lastOf[Other(OnTurn)]) \in Price
    BY <1>1, SidesAre DEF LimitsInv
  <2>3. QED
    BY <1>2, <2>1, <2>2, SidesAre
<1>5. CASE AgentRejects
  BY <1>1, <1>2, <1>5, SidesAre DEF AgentRejects
<1>6. CASE HumanOverrides
  BY <1>1, <1>2, <1>6 DEF HumanOverrides, Sides
<1>7. QED
  BY <1>3, <1>4, <1>5, <1>6

\* A counter-offer of an agent is within its limits, for any budgets, floors and
\* appetites, any prices the language model asks and any number of rounds; with
\* the last veto of a session a placeholder goes out, and nothing after it.
THEOREM AgentsKeepLimits == PricingSpec => []CountersWithinLimits
<1>1. PricingInit => LimitsInv
  <2> SUFFICES ASSUME PricingInit
               PROVE  LimitsInv
    OBVIOUS
  <2>1. turn \in 0..MaxRounds
    BY PricingAssumption DEF PricingInit
  <2>2. sent.side = "BUYER" /\ sent.kind = "none"
    BY DEF PricingInit
  <2>3. vetoes = 0 /\ 0 <= MAX_SCHEMA_FAILURES /\ 0 # MAX_SCHEMA_FAILURES
    BY PricingAssumption DEF PricingInit
  <2>4. QED
    BY <2>1, <2>2, <2>3 DEF PricingInit, LimitsInv, CountersWithinLimits, Sides
<1>2. LimitsInv /\ [PricingNext]_pricingVars => LimitsInv'
  <2>1. LimitsInv /\ UNCHANGED pricingVars => LimitsInv'
    BY DEF LimitsInv, pricingVars, CountersWithinLimits, WithinLimits, SellerValuation
  <2>2. QED
    BY <2>1, CounterKeepsLimits, BreachKeepsLimits, OthersKeepLimits DEF PricingNext
<1>3. LimitsInv => CountersWithinLimits
  BY DEF LimitsInv
<1>4. QED
  BY <1>1, <1>2, <1>3, PTL DEF PricingSpec

-----------------------------------------------------------------------------
(* EventStream.                                                            *)

\* The id of the first event in the list, or of the next one to come.
Oldest == published - Len(kept) + 1

\* b comes after a, and whatever came between them has left the list.
Follows(a, b) == a < b /\ (b = a + 1 \/ b <= Oldest)

\* What a stream has read is a run of ids, after the last one it has sent.
Queued(v) ==
    /\ outgoing[v] \in Seq(Nat)
    /\ \A i \in 1..Len(outgoing[v]) : outgoing[v][i] = outgoing[v][1] + i - 1
    /\ outgoing[v] # <<>> => /\ Follows(lastSent[v], outgoing[v][1])
                             /\ outgoing[v][1] + Len(outgoing[v]) - 1 <= published

Shown(v) ==
    /\ shown[v] \in Seq(Nat)
    /\ shown[v] # <<>> => shown[v][Len(shown[v])] = lastSent[v]
    /\ \A i \in 2..Len(shown[v]) : Follows(shown[v][i - 1], shown[v][i])

StreamInv ==
    /\ published \in Nat
    /\ kept \in Seq(Nat) /\ Len(kept) <= published
    /\ \A i \in 1..Len(kept) : kept[i] = published - Len(kept) + i
    /\ outgoing \in [Viewers -> Seq(Nat)] /\ shown \in [Viewers -> Seq(Nat)]
    /\ lastSent \in [Viewers -> Nat] /\ \A v \in Viewers : lastSent[v] <= published
    /\ \A v \in Viewers : Queued(v) /\ Shown(v)

\* What is left of a sequence from one place on.
LEMMA RestIs ==
  ASSUME NEW S, NEW s \in Seq(S), NEW n \in Nat, n = Len(s), NEW f \in Nat \ {0}, f <= n + 1
  PROVE  /\ SubSeq(s, f, n) \in Seq(S) /\ Len(SubSeq(s, f, n)) = n - f + 1
         /\ \A i \in 1..n - f + 1 : SubSeq(s, f, n)[i] = s[f + i - 1]
OBVIOUS

\* A sequence with one more at its end.
LEMMA OneMoreIs ==
  ASSUME NEW S, NEW s \in Seq(S), NEW e \in S
  PROVE  /\ Append(s, e) \in Seq(S) /\ Append(s, e) # <<>> /\ Len(s) \in Nat
         /\ Len(Append(s, e)) = Len(s) + 1 /\ Append(s, e)[Len(s) + 1] = e
         /\ \A i \in 1..Len(s) : Append(s, e)[i] = s[i]
OBVIOUS

\* What a poll is answered with follows the id it names, whether that is still in
\* the list or not.
LEMMA SinceFollows ==
  ASSUME StreamInv, NEW last \in Nat, last <= published
  PROVE  /\ Since(last) \in Seq(Nat)
         /\ \A i \in 1..Len(Since(last)) : Since(last)[i] = Since(last)[1] + i - 1
         /\ Since(last) # <<>> => /\ Follows(last, Since(last)[1])
                                  /\ Since(last)[1] + Len(Since(last)) - 1 <= published
<1> DEFINE n == Len(kept)
<1>1. /\ published \in Nat /\ kept \in Seq(Nat) /\ n \in Nat /\ n <= published
      /\ DOMAIN kept = 1..n /\ \A i \in 1..n : kept[i] = published - n + i
      /\ n = Len(kept)
  BY DEF StreamInv
<1> HIDE DEF n
<1>2. CASE InList(last)
  <2>1. PICK p \in 1..n : p = Place(last) /\ kept[p] = last
    BY <1>1, <1>2 DEF InList, Place
  <2>2. last = published - n + p
    BY <1>1, <2>1
  <2>3. Since(last) = SubSeq(kept, p + 1, n)
    BY <1>1, <1>2, <2>1 DEF Since
  <2> DEFINE s == SubSeq(kept, p + 1, n)
  <2>4. s \in Seq(Nat) /\ Len(s) = n - p /\ \A i \in 1..n - p : s[i] = kept[p + i]
    <3>1. p + 1 \in Nat \ {0} /\ p + 1 <= n + 1 /\ n - (p + 1) + 1 = n - p
      BY <1>1, <2>1
    <3>2. /\ s \in Seq(Nat) /\ Len(s) = n - p
          /\ \A i \in 1..n - p : s[i] = kept[(p + 1) + i - 1]
      <4> DEFINE f == p + 1
      <4>1. f \in Nat \ {0} /\ f <= n + 1 /\ n - f + 1 = n - p
        BY <3>1
      <4> HIDE DEF f
      <4>2. /\ SubSeq(kept, f, n) \in Seq(Nat) /\ Len(SubSeq(kept, f, n)) = n - p
            /\ \A i \in 1..n - p : SubSeq(kept, f, n)[i] = kept[f + i - 1]
        <5>1. /\ SubSeq(kept, f, n) \in Seq(Nat) /\ Len(SubSeq(kept, f, n)) = n - f + 1
              /\ \A i \in 1..n - f + 1 : SubSeq(kept, f, n)[i] = kept[f + i - 1]
          <6>1. kept \in Seq(Nat) /\ n \in Nat /\ n = Len(kept)
            BY <1>1
          <6>2. f \in Nat \ {0} /\ f <= n + 1
            BY <4>1
          <6>3. QED
            BY <6>1, <6>2, RestIs
        <5>2. QED
          BY <4>1, <5>1
      <4>3. QED
        BY <4>2 DEF f
    <3>3. \A i \in 1..n - p : (p + 1) + i - 1 = p + i
      BY <1>1, <2>1
    <3>4. QED
      BY <3>2, <3>3
  <2> HIDE DEF s
  <2>5. \A i \in 1..n - p : s[i] = last + i
    <3>1. \A i \in 1..n - p : p + i \in 1..n /\ published - n + (p + i) = last + i
      <4> SUFFICES ASSUME NEW i \in Int, 1 <= i, i <= n - p
                   PROVE  p + i \in 1..n /\ published - n + (p + i) = last + i
        BY <1>1, <2>1
      <4>1. p \in Int /\ 1 <= p /\ p <= n /\ n \in Nat /\ published \in Nat
        BY <1>1, <2>1
      <4>2. QED
        BY <2>2, <4>1
    <3>2. QED
      BY <1>1, <2>4, <3>1
  <2>6. s # <<>> => n - p >= 1
    BY <1>1, <2>1, <2>4
  <2>7. n - p >= 1 => s[1] = last + 1
    BY <1>1, <2>1, <2>5
  <2>8. \A i \in 1..Len(s) : s[i] = s[1] + i - 1
    <3> SUFFICES ASSUME NEW i \in 1..n - p
                 PROVE  s[i] = s[1] + i - 1
      BY <2>4
    <3>1. i \in Nat /\ n - p >= 1
      BY <1>1, <2>1
    <3>2. s[i] = last + i /\ s[1] = last + 1
      BY <2>5, <2>7, <3>1
    <3>3. QED
      BY <3>1, <3>2
  <2>9. s # <<>> => Follows(last, s[1]) /\ s[1] + Len(s) - 1 <= published
    <3>1. last + (n - p) = published
      BY <1>1, <2>1, <2>2
    <3>2. SUFFICES ASSUME s # <<>>
                   PROVE  Follows(last, last + 1) /\ (last + 1) + (n - p) - 1 <= published
      BY <2>4, <2>6, <2>7
    <3>3. QED
      BY <1>1, <2>1, <3>1 DEF Follows
  <2>10. QED
    BY <2>3, <2>4, <2>8, <2>9 DEF s
<1>3. CASE ~InList(last)
  <2>1. Since(last) = kept
    BY <1>3 DEF Since
  <2>2. last < Oldest
    <3>1. SUFFICES ASSUME last >= published - n + 1
                   PROVE  FALSE
      BY <1>1 DEF Oldest
    <3>2. last - (published - n) \in 1..n
      BY <1>1, <3>1
    <3>3. kept[last - (published - n)] = last
      BY <1>1, <3>2
    <3>4. QED
      BY <1>1, <1>3, <3>2, <3>3 DEF InList
  <2>3. kept # <<>> => n >= 1 /\ kept[1] = Oldest
    BY <1>1 DEF Oldest
  <2>4. kept # <<>> => Follows(last, kept[1]) /\ kept[1] + n - 1 <= published
    BY <1>1, <2>2, <2>3 DEF Follows, Oldest
  <2>5. \A i \in 1..n : kept[i] = kept[1] + i - 1
    BY <1>1
  <2>6. QED
    BY <1>1, <2>1, <2>4, <2>5
<1>4. QED
  BY <1>2, <1>3

\* What the publisher does to the list forgets ids and forgets none that are to
\* come: what has followed goes on following.
LEMMA PublisherKeepsStreams ==
  ASSUME StreamInv, published' \in Nat, published' >= published,
         kept' \in Seq(Nat), Len(kept') <= published', Oldest' >= Oldest,
         \A i \in 1..Len(kept') : kept'[i] = published' - Len(kept') + i,
         UNCHANGED <<outgoing, lastSent, shown>>
  PROVE  StreamInv'
<1>1. Oldest \in Int /\ Oldest' \in Int /\ published \in Nat
  BY DEF StreamInv, Oldest
<1>2. \A a, b \in Nat : Follows(a, b) => Follows(a, b)'
  <2> SUFFICES ASSUME NEW a \in Nat, NEW b \in Nat, Follows(a, b)
               PROVE  Follows(a, b)'
    OBVIOUS
  <2>1. a < b /\ (b = a + 1 \/ b <= Oldest)
    BY DEF Follows
  <2>2. b <= Oldest => b <= Oldest'
    BY <1>1
  <2>3. QED
    BY <2>1, <2>2 DEF Follows
<1> HIDE DEF Oldest
<1>3. ASSUME NEW v \in Viewers
      PROVE  lastSent'[v] <= published' /\ Queued(v)' /\ Shown(v)'
  <2>1. /\ outgoing[v] \in Seq(Nat) /\ shown[v] \in Seq(Nat) /\ lastSent[v] \in Nat
        /\ Queued(v) /\ Shown(v) /\ lastSent[v] <= published
    BY DEF StreamInv
  <2>2. lastSent'[v] <= published'
    BY <1>1, <2>1
  <2>3. outgoing[v] # <<>> => outgoing[v][1] \in Nat /\ Len(outgoing[v]) \in Nat
    BY <2>1
  <2>4. Queued(v)'
    <3> DEFINE q == outgoing[v]
    <3>1. outgoing'[v] = q /\ lastSent'[v] = lastSent[v]
      OBVIOUS
    <3>2. q \in Seq(Nat) /\ \A i \in 1..Len(q) : q[i] = q[1] + i - 1
      BY <2>1 DEF Queued
    <3>3. q # <<>> => /\ Follows(lastSent[v], q[1]) /\ q[1] + Len(q) - 1 <= published
                      /\ q[1] \in Nat /\ Len(q) \in Nat
      BY <2>1, <2>3 DEF Queued
    <3>4. lastSent[v] \in Nat
      BY <2>1
    <3> HIDE DEF q
    <3>5. ASSUME q # <<>>
          PROVE  Follows(lastSent[v], q[1])' /\ q[1] + Len(q) - 1 <= published'
      <4> DEFINE a == lastSent[v]
                 b == q[1]
                 n == Len(q)
      <4>1. a \in Nat /\ b \in Nat /\ n \in Nat /\ Follows(a, b) /\ b + n - 1 <= published
        BY <3>3, <3>4, <3>5
      <4>2. a' = a /\ b' = b
        BY <3>1, outgoing' = outgoing DEF q
      <4> HIDE DEF a, b, n
      <4>3. Follows(a, b)' /\ b + n - 1 <= published'
        BY <1>1, <1>2, <4>1, <4>2
      <4>4. QED
        BY <4>3 DEF a, b, n
    <3>6. /\ outgoing[v] \in Seq(Nat)
          /\ \A i \in 1..Len(outgoing[v]) : outgoing[v][i] = outgoing[v][1] + i - 1
          /\ outgoing[v] # <<>> => /\ Follows(lastSent[v], outgoing[v][1])'
                                   /\ outgoing[v][1] + Len(outgoing[v]) - 1 <= published'
      BY <3>2, <3>5 DEF q
    <3>7. outgoing' = outgoing
      OBVIOUS
    <3>8. QED
      BY <3>6, <3>7, Zenon DEF Queued
  <2>5. \A i \in 2..Len(shown[v]) : shown[v][i - 1] \in Nat /\ shown[v][i] \in Nat
    <3> SUFFICES ASSUME NEW i \in 2..Len(shown[v])
                 PROVE  shown[v][i - 1] \in Nat /\ shown[v][i] \in Nat
      OBVIOUS
    <3> DEFINE s == shown[v]
               n == Len(s)
    <3>1. s \in Seq(Nat) /\ n \in Nat /\ DOMAIN s = 1..n
      BY <2>1
    <3>2. \A j \in 1..n : s[j] \in Nat
      BY <3>1
    <3> HIDE DEF n
    <3>3. i - 1 \in 1..n /\ i \in 1..n
      BY <3>1 DEF n
    <3>4. QED
      BY <3>2, <3>3
  <2>6. Shown(v)'
    BY <1>2, <2>1, <2>5 DEF Shown
  <2>7. QED
    BY <2>2, <2>4, <2>6
<1>4. QED
  BY <1>3 DEF StreamInv

\* A published event keeps the invariant.
LEMMA PublishKeeps ==
  ASSUME StreamInv, NEW terminal \in BOOLEAN, PublishEvent(terminal)
  PROVE  StreamInv'
<1>1. /\ published \in Nat /\ kept \in Seq(Nat) /\ Len(kept) \in Nat /\ Len(kept) <= published
      /\ \A i \in 1..Len(kept) : kept[i] = published - Len(kept) + i
  BY DEF StreamInv
<1>2. published' = published + 1 /\ kept' = Append(kept, published + 1)
  BY DEF PublishEvent
<1>3. /\ kept' \in Seq(Nat) /\ Len(kept') = Len(kept) + 1
      /\ \A i \in 1..Len(kept) + 1 : kept'[i] = IF i = Len(kept) + 1 THEN published + 1 ELSE kept[i]
  <2>1. published + 1 \in Nat
    BY <1>1
  <2>2. QED
    BY <1>1, <1>2, <2>1, OneMoreIs
<1>4. \A i \in 1..Len(kept') : kept'[i] = published' - Len(kept') + i
  <2> DEFINE n == Len(kept)
             m == Len(kept')
  <2>1. n \in Nat /\ m = n + 1 /\ n <= published
    BY <1>1, <1>3
  <2>2. \A i \in 1..m : kept'[i] = IF i = n + 1 THEN published + 1 ELSE kept[i]
    BY <1>3
  <2>3. \A i \in 1..n : kept[i] = published - n + i
    BY <1>1
  <2> HIDE DEF n, m
  <2>4. \A i \in 1..m : kept'[i] = (published + 1) - m + i
    <3> SUFFICES ASSUME NEW i \in 1..m
                 PROVE  kept'[i] = (published + 1) - m + i
      OBVIOUS
    <3>1. CASE i = n + 1
      BY <1>1, <2>1, <2>2, <3>1
    <3>2. CASE i # n + 1
      <4>1. i \in 1..n
        BY <2>1, <3>2
      <4>2. kept'[i] = published - n + i
        BY <2>2, <2>3, <3>2, <4>1
      <4>3. QED
        BY <1>1, <2>1, <4>2
    <3>3. QED
      BY <3>1, <3>2
  <2>5. QED
    BY <1>2, <2>4 DEF m
<1>5. Oldest' >= Oldest
  BY <1>1, <1>2, <1>3 DEF Oldest
<1>6. published' \in Nat /\ published' >= published /\ Len(kept') <= published'
  BY <1>1, <1>2, <1>3
<1>7. UNCHANGED <<outgoing, lastSent, shown>>
  BY DEF PublishEvent
<1>8. QED
  BY <1>3, <1>4, <1>5, <1>6, <1>7, PublisherKeepsStreams

\* So does the trimming of the stream,
LEMMA TrimKeeps ==
  ASSUME StreamInv, TrimEvents
  PROVE  StreamInv'
<1>1. /\ published \in Nat /\ kept \in Seq(Nat) /\ Len(kept) \in Nat /\ Len(kept) <= published
      /\ \A i \in 1..Len(kept) : kept[i] = published - Len(kept) + i
  BY DEF StreamInv
<1>2. MaxKept \in Nat \ {0}
  BY StreamAssumption
<1>3. PICK first \in Nat \ {0} :
          kept' = SubSeq(kept, first, Len(kept)) /\ first <= Len(kept) + 1
  <2> DEFINE first == IF Len(kept) > MaxKept THEN Len(kept) - MaxKept + 1 ELSE 1
  <2>1. first \in Nat \ {0} /\ first <= Len(kept) + 1
    BY <1>1, <1>2
  <2>2. kept' = SubSeq(kept, first, Len(kept))
    BY DEF TrimEvents
  <2> HIDE DEF first
  <2>3. QED
    BY <2>1, <2>2
<1> DEFINE n == Len(kept)
<1>4. n \in Nat /\ n = Len(kept) /\ n <= published /\ first <= n + 1 /\ kept' = SubSeq(kept, first, n)
  BY <1>1, <1>3
<1>5. \A i \in 1..n : kept[i] = published - n + i
  BY <1>1
<1> HIDE DEF n
<1>6. /\ kept' \in Seq(Nat) /\ Len(kept') = n - first + 1
      /\ \A i \in 1..n - first + 1 : kept'[i] = kept[first + i - 1]
  <2>1. /\ SubSeq(kept, first, n) \in Seq(Nat) /\ Len(SubSeq(kept, first, n)) = n - first + 1
        /\ \A i \in 1..n - first + 1 : SubSeq(kept, first, n)[i] = kept[first + i - 1]
    <3>1. kept \in Seq(Nat) /\ n \in Nat /\ n = Len(kept)
      BY <1>1, <1>4
    <3>2. first \in Nat \ {0} /\ first <= n + 1
      BY <1>3, <1>4
    <3>3. QED
      BY <3>1, <3>2, RestIs
  <2>2. QED
    BY <1>4, <2>1, Zenon
<1>7. published' = published /\ UNCHANGED <<outgoing, lastSent, shown>>
  BY DEF TrimEvents
<1>8. \A i \in 1..Len(kept') : kept'[i] = published' - Len(kept') + i
  <2> SUFFICES ASSUME NEW i \in 1..n - first + 1
               PROVE  kept'[i] = published - (n - first + 1) + i
    BY <1>6, <1>7
  <2>1. i \in Nat /\ first + i - 1 \in 1..n
    BY <1>4
  <2>2. kept'[i] = published - n + (first + i - 1)
    BY <1>5, <1>6, <2>1
  <2>3. QED
    BY <1>1, <1>4, <2>1, <2>2
<1>9. Oldest' >= Oldest /\ Len(kept') <= published'
  BY <1>1, <1>4, <1>6, <1>7 DEF Oldest
<1>10. QED
  BY <1>1, <1>6, <1>7, <1>8, <1>9, PublisherKeepsStreams

\* its expiry,
LEMMA ExpireKeeps ==
  ASSUME StreamInv, ExpireEvents
  PROVE  StreamInv'
<1>1. published \in Nat /\ Len(kept) \in Nat
  BY DEF StreamInv
<1>2. kept' = <<>> /\ published' = published /\ UNCHANGED <<outgoing, lastSent, shown>>
  BY DEF ExpireEvents
<1>3. kept' \in Seq(Nat) /\ Len(kept') = 0
  BY <1>2
<1>4. Oldest' >= Oldest
  BY <1>1, <1>2, <1>3 DEF Oldest
<1>5. QED
  BY <1>1, <1>2, <1>3, <1>4, PublisherKeepsStreams

\* A step of one stream leaves the list and the other streams alone.
LEMMA StreamKeeps ==
  ASSUME StreamInv, NEW v \in Viewers, UNCHANGED <<published, kept>>,
         NEW o \in Seq(Nat), NEW l \in Nat, NEW s \in Seq(Nat),
         outgoing' = [outgoing EXCEPT ![v] = o], lastSent' = [lastSent EXCEPT ![v] = l],
         shown' = [shown EXCEPT ![v] = s],
         l <= published,
         \A i \in 1..Len(o) : o[i] = o[1] + i - 1,
         o # <<>> => Follows(l, o[1]) /\ o[1] + Len(o) - 1 <= published,
         s # <<>> => s[Len(s)] = l,
         \A i \in 2..Len(s) : Follows(s[i - 1], s[i])
  PROVE  StreamInv'
<1>1. /\ outgoing' \in [Viewers -> Seq(Nat)] /\ lastSent' \in [Viewers -> Nat]
      /\ shown' \in [Viewers -> Seq(Nat)]
  BY DEF StreamInv
<1>2. /\ outgoing'[v] = o /\ lastSent'[v] = l /\ shown'[v] = s
      /\ \A w \in Viewers : w # v => /\ outgoing'[w] = outgoing[w] /\ lastSent'[w] = lastSent[w]
                                     /\ shown'[w] = shown[w]
  BY DEF StreamInv
<1>3. \A a, b : Follows(a, b)' = Follows(a, b)
  BY DEF Follows, Oldest
<1>4. ASSUME NEW w \in Viewers
      PROVE  lastSent'[w] <= published' /\ Queued(w)' /\ Shown(w)'
  <2>1. CASE w = v
    <3>1. outgoing'[w] = o /\ lastSent'[w] = l /\ shown'[w] = s /\ published' = published
      BY <1>2, <2>1
    <3>2. Queued(w)'
      BY <1>3, <3>1 DEF Queued
    <3>3. Shown(w)'
      BY <1>3, <3>1 DEF Shown
    <3>4. QED
      BY <3>1, <3>2, <3>3
  <2>2. CASE w # v
    <3>1. /\ outgoing'[w] = outgoing[w] /\ lastSent'[w] = lastSent[w] /\ shown'[w] = shown[w]
          /\ published' = published
      BY <1>2, <2>2
    <3>2. lastSent[w] <= published /\ Queued(w) /\ Shown(w)
      BY DEF StreamInv
    <3>3. Queued(w)'
      BY <1>3, <3>1, <3>2 DEF Queued
    <3>4. Shown(w)'
      BY <1>3, <3>1, <3>2 DEF Shown
    <3>5. QED
      BY <3>1, <3>2, <3>3, <3>4
  <2>3. QED
    BY <2>1, <2>2
<1>5. QED
  BY <1>1, <1>4 DEF StreamInv

\* A client that connects is sent what follows the id it names.
LEMMA ConnectKeeps ==
  ASSUME StreamInv, NEW v \in Viewers, NEW last \in {0, lastSent[v]}, ConnectViewer(v, last)
  PROVE  StreamInv'
<1>1. last \in Nat /\ last <= published
  BY DEF StreamInv
<1> DEFINE o == Since(last)
<1>2. /\ o \in Seq(Nat) /\ \A i \in 1..Len(o) : o[i] = o[1] + i - 1
      /\ o # <<>> => Follows(last, o[1]) /\ o[1] + Len(o) - 1 <= published
  BY <1>1, SinceFollows
<1>3. /\ outgoing' = [outgoing EXCEPT ![v] = o] /\ lastSent' = [lastSent EXCEPT ![v] = last]
      /\ shown' = [shown EXCEPT ![v] = <<>>] /\ UNCHANGED <<published, kept>>
  BY DEF ConnectViewer
<1> HIDE DEF o
<1> DEFINE s == <<>>
<1>4. /\ s \in Seq(Nat) /\ Len(s) = 0 /\ s = <<>> /\ shown' = [shown EXCEPT ![v] = s]
      /\ \A i \in 2..Len(s) : Follows(s[i - 1], s[i])
  BY <1>3
<1> HIDE DEF s
<1>5. QED
  BY <1>1, <1>2, <1>3, <1>4, StreamKeeps

\* Sending the first event of what has been read, and going on with the rest or
\* with none of it.
LEMMA SendKeeps ==
  ASSUME StreamInv, NEW v \in Viewers, SendsFirst(v), UNCHANGED <<published, kept>>,
         NEW o, o = Tail(outgoing[v]) \/ o = <<>>, outgoing' = [outgoing EXCEPT ![v] = o]
  PROVE  StreamInv'
<1> DEFINE q == outgoing[v]
           h == Head(q)
           s == shown[v]
           t == Append(s, h)
<1>1. /\ q \in Seq(Nat) /\ q # <<>> /\ s \in Seq(Nat) /\ published \in Nat
      /\ \A i \in 1..Len(q) : q[i] = q[1] + i - 1
      /\ Follows(lastSent[v], q[1]) /\ q[1] + Len(q) - 1 <= published
      /\ s # <<>> => s[Len(s)] = lastSent[v]
      /\ \A i \in 2..Len(s) : Follows(s[i - 1], s[i])
  BY DEF StreamInv, SendsFirst, Queued, Shown
<1>2. lastSent' = [lastSent EXCEPT ![v] = h] /\ shown' = [shown EXCEPT ![v] = t]
  BY DEF SendsFirst
<1> HIDE DEF q, s
<1>3. h = q[1] /\ h \in Nat /\ Len(q) \in Nat \ {0} /\ h <= published
  BY <1>1
<1>4. /\ o \in Seq(Nat) /\ \A i \in 1..Len(o) : o[i] = o[1] + i - 1
      /\ o # <<>> => Follows(h, o[1]) /\ o[1] + Len(o) - 1 <= published
  <2>1. CASE o = <<>>
    BY <2>1
  <2>2. CASE o = Tail(q)
    <3>1. o \in Seq(Nat) /\ Len(o) = Len(q) - 1 /\ \A i \in 1..Len(o) : o[i] = q[i + 1]
      BY <1>1, <1>3, <2>2
    <3>2. \A i \in 1..Len(o) : o[i] = h + i
      <4> SUFFICES ASSUME NEW i \in 1..Len(o)
                   PROVE  o[i] = h + i
        OBVIOUS
      <4>1. i \in Nat /\ i + 1 \in 1..Len(q)
        BY <1>3, <3>1
      <4>2. o[i] = q[i + 1] /\ q[i + 1] = q[1] + (i + 1) - 1
        BY <1>1, <3>1, <4>1
      <4> HIDE DEF h
      <4>3. QED
        BY <1>3, <4>1, <4>2
    <3>3. o # <<>> => o[1] = h + 1
      <4>1. o # <<>> => 1 \in 1..Len(o)
        BY <1>3, <3>1
      <4>2. QED
        BY <3>2, <4>1
    <3>4. \A i \in 1..Len(o) : o[i] = o[1] + i - 1
      <4> SUFFICES ASSUME NEW i \in 1..Len(o)
                   PROVE  o[i] = o[1] + i - 1
        OBVIOUS
      <4>1. i \in Nat /\ 1 \in 1..Len(o)
        BY <1>3, <3>1
      <4>2. o[i] = h + i /\ o[1] = h + 1
        BY <3>2, <4>1
      <4> HIDE DEF h
      <4>3. QED
        BY <1>3, <4>1, <4>2
    <3>5. o # <<>> => Follows(h, o[1]) /\ o[1] + Len(o) - 1 <= published
      <4> SUFFICES ASSUME o # <<>>
                   PROVE  Follows(h, h + 1) /\ (h + 1) + Len(o) - 1 <= published
        BY <3>3
      <4> HIDE DEF h
      <4>1. h + Len(q) - 1 <= published
        BY <1>1, <1>3
      <4>2. Follows(h, h + 1)
        BY <1>3 DEF Follows
      <4>3. Len(q) \in Nat /\ Len(o) = Len(q) - 1 /\ h \in Nat /\ published \in Nat
        BY <1>1, <1>3, <3>1
      <4>4. (h + 1) + Len(o) - 1 <= published
        BY <4>1, <4>3
      <4>5. QED
        BY <4>2, <4>4
    <3>6. QED
      BY <3>1, <3>4, <3>5
  <2>3. QED
    BY <2>1, <2>2 DEF q
<1>5. /\ t \in Seq(Nat) /\ t # <<>> /\ Len(t) = Len(s) + 1 /\ t[Len(t)] = h /\ Len(s) \in Nat
      /\ \A i \in 1..Len(s) : t[i] = s[i]
  <2> HIDE DEF h
  <2>1. QED
    BY <1>1, <1>3, OneMoreIs
<1> HIDE DEF t, h
<1>6. \A i \in 2..Len(t) : Follows(t[i - 1], t[i])
  <2> SUFFICES ASSUME NEW i \in 2..Len(t)
               PROVE  Follows(t[i - 1], t[i])
    OBVIOUS
  <2>1. CASE i = Len(t)
    <3>1. i - 1 = Len(s) /\ Len(s) >= 1 /\ s # <<>>
      BY <1>1, <1>5, <2>1
    <3>2. t[i - 1] = lastSent[v] /\ t[i] = h
      BY <1>1, <1>5, <2>1, <3>1
    <3>3. QED
      BY <1>1, <1>3, <3>2
  <2>2. CASE i # Len(t)
    <3>1. i \in 2..Len(s) /\ i - 1 \in 1..Len(s) /\ i \in 1..Len(s)
      BY <1>5, <2>2
    <3>2. QED
      BY <1>1, <1>5, <3>1
  <2>3. QED
    BY <2>1, <2>2
<1>7. QED
  BY <1>2, <1>3, <1>4, <1>5, <1>6, StreamKeeps

\* and every step of a viewer.
LEMMA ViewerKeeps ==
  ASSUME StreamInv, NEW v \in Viewers, StreamAdvances(v) \/ Disconnect(v)
  PROVE  StreamInv'
<1>1. UNCHANGED <<published, kept>>
  BY DEF StreamAdvances, Replay, PollEvents, SendPolled, Disconnect
<1>2. /\ outgoing[v] \in Seq(Nat) /\ lastSent[v] \in Nat /\ shown[v] \in Seq(Nat)
      /\ lastSent[v] <= published /\ Shown(v) /\ Queued(v)
      /\ lastSent = [lastSent EXCEPT ![v] = lastSent[v]] /\ shown = [shown EXCEPT ![v] = shown[v]]
  BY DEF StreamInv
<1>3. CASE Replay(v)
  <2>1. CASE SendsFirst(v) /\ outgoing' = [outgoing EXCEPT ![v] = Tail(@)]
    BY <1>1, <2>1, SendKeeps
  <2>2. CASE UNCHANGED <<outgoing, lastSent, shown>>
    BY <1>1, <2>2 DEF StreamInv, Queued, Shown, Follows, Oldest
  <2>3. QED
    BY <1>3, <2>1, <2>2 DEF Replay
<1>4. CASE SendPolled(v)
  <2>1. PICK o : (o = Tail(outgoing[v]) \/ o = <<>>) /\ outgoing' = [outgoing EXCEPT ![v] = o]
    BY <1>4 DEF SendPolled
  <2>2. QED
    BY <1>1, <1>4, <2>1, SendKeeps DEF SendPolled
<1>5. CASE PollEvents(v)
  <2> DEFINE o == Since(lastSent[v])
  <2>1. /\ o \in Seq(Nat) /\ \A i \in 1..Len(o) : o[i] = o[1] + i - 1
        /\ o # <<>> => Follows(lastSent[v], o[1]) /\ o[1] + Len(o) - 1 <= published
    BY <1>2, SinceFollows
  <2>2. outgoing' = [outgoing EXCEPT ![v] = o] /\ UNCHANGED <<lastSent, shown>>
    BY <1>5 DEF PollEvents
  <2> HIDE DEF o
  <2>3. QED
    <3> DEFINE s == shown[v]
               l == lastSent[v]
    <3>1. /\ s \in Seq(Nat) /\ l \in Nat /\ l <= published /\ (s # <<>> => s[Len(s)] = l)
          /\ \A i \in 2..Len(s) : Follows(s[i - 1], s[i])
      BY <1>2 DEF Shown
    <3>2. /\ outgoing' = [outgoing EXCEPT ![v] = o] /\ lastSent' = [lastSent EXCEPT ![v] = l]
          /\ shown' = [shown EXCEPT ![v] = s]
          /\ (o # <<>> => Follows(l, o[1]) /\ o[1] + Len(o) - 1 <= published)
      BY <1>2, <2>1, <2>2
    <3> HIDE DEF s, l
    <3>3. QED
      BY <1>1, <2>1, <3>1, <3>2, StreamKeeps
<1>6. CASE Disconnect(v)
  <2> DEFINE o == <<>>
  <2>1. o \in Seq(Nat) /\ o = <<>> /\ \A i \in 1..Len(o) : o[i] = o[1] + i - 1
    OBVIOUS
  <2>2. outgoing' = [outgoing EXCEPT ![v] = o] /\ UNCHANGED <<lastSent, shown>>
    BY <1>6 DEF Disconnect
  <2> HIDE DEF o
  <2>3. QED
    <3> DEFINE s == shown[v]
               l == lastSent[v]
    <3>1. /\ s \in Seq(Nat) /\ l \in Nat /\ l <= published /\ (s # <<>> => s[Len(s)] = l)
          /\ \A i \in 2..Len(s) : Follows(s[i - 1], s[i])
      BY <1>2 DEF Shown
    <3>2. /\ outgoing' = [outgoing EXCEPT ![v] = o] /\ lastSent' = [lastSent EXCEPT ![v] = l]
          /\ shown' = [shown EXCEPT ![v] = s]
          /\ (o # <<>> => Follows(l, o[1]) /\ o[1] + Len(o) - 1 <= published)
      BY <1>2, <2>1, <2>2
    <3> HIDE DEF s, l
    <3>3. QED
      BY <1>1, <2>1, <3>1, <3>2, StreamKeeps
<1>7. QED
  BY <1>3, <1>4, <1>5, <1>6 DEF StreamAdvances

\* Every client has the events in order and none left out but what had left the
\* list, for any number of clients and events, whatever is trimmed or expires.
THEOREM StreamsInOrder == StreamSpec => []ShownInOrder
<1>1. StreamInit => StreamInv
  <2> SUFFICES ASSUME StreamInit
               PROVE  StreamInv
    OBVIOUS
  <2> DEFINE e == <<>>
  <2>1. e \in Seq(Nat) /\ Len(e) = 0 /\ e = <<>>
    OBVIOUS
  <2>2. published = 0 /\ kept = e /\ \A v \in Viewers : outgoing[v] = e /\ lastSent[v] = 0 /\ shown[v] = e
    BY DEF StreamInit
  <2>3. /\ outgoing \in [Viewers -> Seq(Nat)] /\ shown \in [Viewers -> Seq(Nat)]
        /\ lastSent \in [Viewers -> Nat]
    BY DEF StreamInit
  <2> HIDE DEF e
  <2>4. QED
    BY <2>1, <2>2, <2>3 DEF StreamInv, Queued, Shown
<1>2. StreamInv /\ [StreamNext]_streamVars => StreamInv'
  <2>1. StreamInv /\ UNCHANGED streamVars => StreamInv'
    BY DEF StreamInv, streamVars, Queued, Shown, Follows, Oldest
  <2>2. QED
    BY <2>1, PublishKeeps, TrimKeeps, ExpireKeeps, ConnectKeeps, ViewerKeeps DEF StreamNext
<1>3. StreamInv => ShownInOrder
  <2> SUFFICES ASSUME StreamInv, NEW v \in Viewers, NEW i \in DOMAIN shown[v], i > 1
               PROVE  /\ shown[v][i - 1] < shown[v][i]
                      /\ \A id \in shown[v][i - 1] + 1..shown[v][i] - 1 : ~InList(id)
    BY DEF ShownInOrder
  <2>1. shown[v] \in Seq(Nat) /\ \A j \in 2..Len(shown[v]) : Follows(shown[v][j - 1], shown[v][j])
    BY DEF StreamInv, Shown
  <2>2. i \in 2..Len(shown[v]) /\ i - 1 \in 1..Len(shown[v])
    BY <2>1
  <2> DEFINE a == shown[v][i - 1]
             b == shown[v][i]
  <2>3. a \in Nat /\ b \in Nat /\ Follows(a, b)
    <3>1. \A j \in 1..Len(shown[v]) : shown[v][j] \in Nat
      BY <2>1
    <3>2. i \in 1..Len(shown[v])
      BY <2>1, <2>2
    <3>3. QED
      BY <2>1, <2>2, <3>1, <3>2, Zenon
  <2> HIDE DEF a, b
  <2>4. ASSUME NEW id \in a + 1..b - 1, InList(id)
        PROVE  FALSE
    <3>1. PICK j \in DOMAIN kept : kept[j] = id
      BY <2>4 DEF InList
    <3>2. j \in 1..Len(kept) /\ kept[j] = published - Len(kept) + j /\ published \in Nat
          /\ Len(kept) \in Nat
      <4>1. kept \in Seq(Nat) /\ published \in Nat
        BY DEF StreamInv
      <4>2. DOMAIN kept = 1..Len(kept) /\ Len(kept) \in Nat
        BY <4>1
      <4>3. \A k \in 1..Len(kept) : kept[k] = published - Len(kept) + k
        BY DEF StreamInv
      <4>4. QED
        BY <3>1, <4>1, <4>2, <4>3
    <3>3. id >= Oldest
      BY <3>1, <3>2 DEF Oldest
    <3>4. id < Oldest
      BY <2>3, <2>4, <3>2 DEF Follows, Oldest
    <3>5. QED
      BY <3>2, <3>3, <3>4 DEF Oldest
  <2>5. QED
    BY <2>3, <2>4 DEF Follows, a, b
<1>4. QED
  BY <1>1, <1>2, <1>3, PTL DEF StreamSpec
=============================================================================
