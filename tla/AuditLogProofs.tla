--------------------------- MODULE AuditLogProofs ----------------------------
(***************************************************************************)
(* Theorems of AuditLog for any set of events, any of them releases, of    *)
(* AuditPages for pages of any size, and of MerkleTree for any trails.     *)
(*                                                                         *)
(* The inductive invariant knows the number n of entries.  LogIs says that *)
(* the entries are numbered from 0 to n-1 and that the hash of each is the *)
(* history up to it; LockIs that the handlers between the lock and the     *)
(* commit are the one that holds it, and that it is linked to the latest   *)
(* entry; RecordsAre what a handler may have seen of the records, which no *)
(* lock protects.  For the pages, TimesRise says that the lock puts the    *)
(* creation times in the order of the numbers, and WalkIs that the client  *)
(* was shown the first entries up to its cursor.  What is said of Merkle   *)
(* trees is proved from the leaves to the root.                            *)
(***************************************************************************)
EXTENDS AuditPages, MerkleTree, FiniteSetTheorems, TLAPS

\* Handlers whose entry may be in the log.
Recorded == {"fema", "gst", "records", "done"}

Tip(n) == IF n = 0 THEN Genesis ELSE rows[n - 1].hash

LogIs(n) ==
    /\ n \in Nat
    /\ rows \in [0..(n - 1) -> Entry]
    /\ \A k \in 0..(n - 1) :
          /\ rows[k].hash = Hash(rows[k].prev, rows[k].event)
          /\ rows[k].prev = IF k = 0 THEN Genesis ELSE rows[k - 1].hash
          /\ Len(rows[k].hash) = k + 1
          /\ \A i \in 1..(k + 1) : rows[k].hash[i] = rows[i - 1].event
          /\ run[rows[k].event].step \in Recorded

LockIs(n) ==
    /\ lock \in Events \cup {None}
    /\ clock \in Nat
    /\ run \in [Events -> Run]
    /\ \A e \in Events : run[e].step \in {"latest", "commit"} <=> lock = e
    /\ \A e \in Events : run[e].step = "commit" => run[e].no = n /\ run[e].prev = Tip(n)

InLog(e) == \E k \in DOMAIN rows : rows[k].event = e

RecordsAre ==
    /\ fema \in Releases \cup {None}
    /\ gst = fema
    /\ fema # None => InLog(fema)
    /\ \A e \in Events :
          /\ run[e].step \in {"fema", "gst", "records"} => e \in Releases /\ InLog(e)
          /\ run[e].step = "gst" => run[e].fema \in {None, fema}
          /\ run[e].step = "records" => run[e].fema = None /\ run[e].gst \in {None, gst}

IInv == (\E n \in Nat : LogIs(n) /\ LockIs(n)) /\ RecordsAre

(***************************************************************************)
(* What the invariant says of the operators of AuditLog.                   *)
(***************************************************************************)

\* The latest entry is the one with the number n - 1.
LEMMA LatestIs ==
  ASSUME NEW n \in Nat, LogIs(n)
  PROVE  /\ DOMAIN rows = 0..(n - 1)
         /\ DOMAIN rows = {} <=> n = 0
         /\ \A k : IsLatest(k) <=> n > 0 /\ k = n - 1
<1>1. DOMAIN rows = 0..(n - 1)
  BY DEF LogIs
<1>2. 0..(n - 1) = {} <=> n = 0
  OBVIOUS
<1>3. ASSUME NEW k, IsLatest(k) PROVE n > 0 /\ k = n - 1
  BY <1>1, <1>3 DEF IsLatest
<1>4. n > 0 => IsLatest(n - 1)
  BY <1>1 DEF IsLatest
<1> QED
  BY <1>1, <1>2, <1>3, <1>4

\* The history of the log is the hash of its last entry, of length n, and lists
\* the events of the entries in order.
LEMMA HistoryIs ==
  ASSUME NEW n \in Nat, LogIs(n)
  PROVE  /\ historyOf = Tip(n)
         /\ Tip(n) \in Seq(Events)
         /\ Len(Tip(n)) = n
         /\ \A i \in 1..n : Tip(n)[i] = rows[i - 1].event
<1>1. CASE n = 0
  BY <1>1, LatestIs DEF historyOf, Tip, Genesis
<1>2. CASE n > 0
  <2>1. IsLatest(CHOOSE k \in DOMAIN rows : IsLatest(k))
    BY <1>2, LatestIs DEF IsLatest
  <2>2. (CHOOSE k \in DOMAIN rows : IsLatest(k)) = n - 1
    BY <2>1, LatestIs
  <2>3. historyOf = Tip(n)
    BY <1>2, <2>2, LatestIs DEF historyOf, Tip
  <2>4. n - 1 \in 0..(n - 1) /\ rows[n - 1] \in Entry
    BY <1>2 DEF LogIs
  <2> QED
    BY <1>2, <2>3, <2>4 DEF LogIs, Tip, Entry, Hashes
<1> QED
  BY <1>1, <1>2

\* A step that adds no entry keeps the log as it is, as long as the handlers of
\* recorded events stay recorded.
LEMMA LogStays ==
  ASSUME NEW n \in Nat, LogIs(n), UNCHANGED rows,
         \A e \in Events : run[e].step \in Recorded => run'[e].step \in Recorded
  PROVE  LogIs(n)'
BY DEF LogIs, Entry

\* Nothing leaves the log.
LEMMA InLogStays ==
  ASSUME UNCHANGED rows
  PROVE  \A e : InLog(e) => InLog(e)'
BY DEF InLog

(***************************************************************************)
(* The invariant is inductive.                                             *)
(***************************************************************************)

\* It holds at the start.
LEMMA InitHolds == Init => IInv
<1> SUFFICES ASSUME Init PROVE IInv
  OBVIOUS
<1>1. LogIs(0)
  BY DEF Init, LogIs
<1>2. LockIs(0)
  BY NoneAssumption DEF Init, LockIs, NotRun, Run, Steps, Hashes, Genesis
<1>3. RecordsAre
  BY DEF Init, RecordsAre, NotRun
<1> QED
  BY <1>1, <1>2, <1>3 DEF IInv

\* A handler before its commit.
LEMMA AppendSteps ==
  ASSUME NEW n \in Nat, LogIs(n), LockIs(n), RecordsAre, NEW e \in Events,
         Start(e) \/ AcquireLock(e) \/ Link(e)
  PROVE  LogIs(n)' /\ LockIs(n)' /\ RecordsAre'
<1>0. e # None /\ run \in [Events -> Run] /\ UNCHANGED <<rows, fema, gst>>
  BY NoneAssumption DEF LockIs, Start, AcquireLock, Link
<1>1. \A f \in Events \ {e} : run'[f] = run[f]
  BY <1>0 DEF Start, AcquireLock, Link, LinkTo, Goto
<1>2. run[e].step \in {"ready", "lock", "latest"} /\ run'[e].step \in {"lock", "latest", "commit"}
  <2>1. CASE Start(e) \/ AcquireLock(e)
    BY <1>0, <2>1 DEF Start, AcquireLock, Goto, Run
  <2>2. CASE Link(e)
    BY <1>0, <2>2 DEF Link, LinkTo, Run
  <2> QED
    BY <2>1, <2>2
<1>3. LogIs(n)'
  BY <1>0, <1>1, <1>2, LogStays DEF Recorded
<1>4. RecordsAre'
  BY <1>0, <1>1, <1>2 DEF RecordsAre, InLog
<1>5. Tip(n)' = Tip(n)
  BY <1>0 DEF Tip
<1>6. CASE Start(e)
  <2>1. /\ run' \in [Events -> Run] /\ run[e].step = "ready" /\ run'[e].step = "lock"
        /\ UNCHANGED <<lock, clock>>
    BY <1>0, <1>6 DEF Start, Goto, Run, Steps
  <2>2. LockIs(n)'
    BY <1>1, <1>5, <2>1 DEF LockIs
  <2> QED
    BY <1>3, <1>4, <2>2
<1>7. CASE AcquireLock(e)
  <2>1. /\ run' \in [Events -> Run] /\ run[e].step = "lock" /\ run'[e].step = "latest"
        /\ lock = None /\ lock' = e /\ UNCHANGED clock
    BY <1>0, <1>7 DEF AcquireLock, Goto, Run, Steps
  <2>2. LockIs(n)'
    BY <1>0, <1>1, <1>5, <2>1, NoneAssumption DEF LockIs
  <2> QED
    BY <1>3, <1>4, <2>2
<1>8. CASE Link(e)
  <2>1. LinkTo(e, n, Tip(n))
    <3>1. CASE n = 0
      BY <1>8, <3>1, LatestIs DEF Link, Tip, Genesis
    <3>2. CASE n > 0
      <4>1. PICK k \in DOMAIN rows : IsLatest(k) /\ LinkTo(e, k + 1, rows[k].hash)
        BY <1>8, <3>2, LatestIs DEF Link
      <4>2. k = n - 1 /\ (n - 1) + 1 = n /\ Tip(n) = rows[n - 1].hash
        BY <3>2, <4>1, LatestIs DEF Tip
      <4> QED
        BY <4>1, <4>2
    <3> QED
      BY <3>1, <3>2
  <2>2. clock' \in Nat /\ UNCHANGED lock /\ run[e].step = "latest"
    BY <1>8 DEF Link, LockIs
  <2>3. Tip(n) \in Hashes
    BY HistoryIs DEF Hashes
  <2>4. /\ run'[e] \in Run /\ run'[e].step = "commit"
        /\ run'[e].no = n /\ run'[e].prev = Tip(n)
    BY <1>0, <2>1, <2>2, <2>3 DEF LinkTo, Run, Steps
  <2>5. run' \in [Events -> Run]
    BY <1>0, <2>1, <2>4 DEF LinkTo
  <2>6. LockIs(n)'
    BY <1>1, <1>5, <2>2, <2>4, <2>5 DEF LockIs
  <2> QED
    BY <1>3, <1>4, <2>6
<1> QED
  BY <1>6, <1>7, <1>8

\* The commit adds the entry with the number n: the lock has kept the number
\* free and the link up to date since Link.
LEMMA CommitStep ==
  ASSUME NEW n \in Nat, LogIs(n), LockIs(n), RecordsAre, NEW e \in Events, Commit(e)
  PROVE  /\ LogIs(n + 1)' /\ LockIs(n + 1)' /\ RecordsAre'
         /\ rows' = Inserted(n, NewEntry(e))
<1>1. /\ e # None /\ run \in [Events -> Run] /\ run[e].step = "commit"
      /\ run[e].no = n /\ run[e].prev = Tip(n) /\ lock = e
  BY NoneAssumption DEF LockIs, Commit
<1>2. n \notin DOMAIN rows /\ DOMAIN rows = 0..(n - 1)
  BY LatestIs
<1>3. /\ rows' = Inserted(n, NewEntry(e))
      /\ Goto(e, IF e \in Releases THEN "fema" ELSE "done")
      /\ lock' = None /\ UNCHANGED <<clock, fema, gst>>
  BY <1>1, <1>2 DEF Commit
<1>4. /\ \A f \in Events \ {e} : run'[f] = run[f]
      /\ run' \in [Events -> Run]
      /\ run'[e].step = IF e \in Releases THEN "fema" ELSE "done"
  BY <1>1, <1>3 DEF Goto, Run, Steps
<1>5. /\ NewEntry(e) \in Entry
      /\ NewEntry(e).hash = Append(Tip(n), e)
      /\ NewEntry(e).prev = Tip(n)
      /\ NewEntry(e).event = e
  BY <1>1, HistoryIs DEF NewEntry, Entry, Hash, Hashes, Run
<1>6. /\ DOMAIN rows' = 0..n
      /\ rows' \in [0..n -> Entry]
      /\ rows'[n] = NewEntry(e)
      /\ \A k \in 0..(n - 1) : rows'[k] = rows[k]
  <2>1. (0..(n - 1)) \cup {n} = 0..n
    OBVIOUS
  <2>2. \A k \in 0..(n - 1) : rows[k] \in Entry /\ k # n
    BY DEF LogIs
  <2>3. rows' = [j \in 0..n |-> IF j = n THEN NewEntry(e) ELSE rows[j]]
    BY <1>2, <1>3, <2>1 DEF Inserted
  <2>4. \A j \in 0..n : j = n \/ j \in 0..(n - 1)
    OBVIOUS
  <2> QED
    BY <1>5, <2>2, <2>3, <2>4
<1>7. LogIs(n + 1)'
  <2>1. \A k \in 0..(n - 1) : rows[k].event \in Events
    BY DEF LogIs, Entry
  <2>2. \A k \in 0..(n - 1) :
           /\ rows'[k].hash = Hash(rows'[k].prev, rows'[k].event)
           /\ rows'[k].prev = IF k = 0 THEN Genesis ELSE rows'[k - 1].hash
           /\ Len(rows'[k].hash) = k + 1
           /\ \A i \in 1..(k + 1) : rows'[k].hash[i] = rows'[i - 1].event
    <3> SUFFICES ASSUME NEW k \in 0..(n - 1)
        PROVE  /\ rows'[k].hash = Hash(rows'[k].prev, rows'[k].event)
               /\ rows'[k].prev = IF k = 0 THEN Genesis ELSE rows'[k - 1].hash
               /\ Len(rows'[k].hash) = k + 1
               /\ \A i \in 1..(k + 1) : rows'[k].hash[i] = rows'[i - 1].event
      OBVIOUS
    <3>1. k # 0 => k - 1 \in 0..(n - 1)
      OBVIOUS
    <3>2. \A i \in 1..(k + 1) : i - 1 \in 0..(n - 1)
      OBVIOUS
    <3>3. /\ rows[k].hash = Hash(rows[k].prev, rows[k].event)
          /\ rows[k].prev = IF k = 0 THEN Genesis ELSE rows[k - 1].hash
          /\ Len(rows[k].hash) = k + 1
          /\ \A i \in 1..(k + 1) : rows[k].hash[i] = rows[i - 1].event
      BY DEF LogIs
    <3> QED
      BY <1>6, <3>1, <3>2, <3>3
  <2>3. \A k \in 0..(n - 1) : run'[rows'[k].event].step \in Recorded
    <3> SUFFICES ASSUME NEW k \in 0..(n - 1)
        PROVE  run'[rows'[k].event].step \in Recorded
      OBVIOUS
    <3>1. rows'[k] = rows[k] /\ run[rows[k].event].step \in Recorded
      BY <1>6 DEF LogIs
    <3>2. rows[k].event # e
      BY <1>1, <3>1 DEF Recorded
    <3> QED
      BY <1>4, <2>1, <3>1, <3>2
  <2>4. /\ rows'[n].hash = Hash(rows'[n].prev, rows'[n].event)
        /\ rows'[n].prev = IF n = 0 THEN Genesis ELSE rows'[n - 1].hash
        /\ Len(rows'[n].hash) = n + 1
        /\ \A i \in 1..(n + 1) : rows'[n].hash[i] = rows'[i - 1].event
        /\ run'[rows'[n].event].step \in Recorded
    <3>1. n # 0 => n - 1 \in 0..(n - 1)
      OBVIOUS
    <3>2. rows'[n].prev = IF n = 0 THEN Genesis ELSE rows'[n - 1].hash
      BY <1>5, <1>6, <3>1 DEF Tip
    <3>3. Len(rows'[n].hash) = n + 1
      BY <1>5, <1>6, HistoryIs
    <3>4. ASSUME NEW i \in 1..(n + 1) PROVE rows'[n].hash[i] = rows'[i - 1].event
      <4>1. CASE i = n + 1
        BY <1>5, <1>6, <4>1, HistoryIs
      <4>2. CASE i \in 1..n
        <5>1. i - 1 \in 0..(n - 1)
          BY <4>2
        <5>2. Append(Tip(n), e)[i] = Tip(n)[i]
          BY <4>2, HistoryIs
        <5> QED
          BY <1>5, <1>6, <4>2, <5>1, <5>2, HistoryIs
      <4> QED
        BY <4>1, <4>2
    <3> QED
      BY <1>4, <1>5, <1>6, <3>2, <3>3, <3>4 DEF Hash, Recorded
  <2>5. \A k \in 0..((n + 1) - 1) : k = n \/ k \in 0..(n - 1)
    OBVIOUS
  <2>6. 0..((n + 1) - 1) = 0..n /\ n + 1 \in Nat
    OBVIOUS
  <2> QED
    BY <1>6, <2>2, <2>3, <2>4, <2>5, <2>6 DEF LogIs
<1>8. LockIs(n + 1)'
  BY <1>1, <1>3, <1>4, NoneAssumption DEF LockIs
<1>9. RecordsAre'
  <2>1. \A f : InLog(f) => InLog(f)'
    BY <1>2, <1>6 DEF InLog
  <2>2. InLog(e)'
    BY <1>5, <1>6 DEF InLog
  <2> QED
    BY <1>3, <1>4, <2>1, <2>2 DEF RecordsAre
<1> QED
  BY <1>3, <1>7, <1>8, <1>9

\* The second half of a release, and the end of any handler, by failure or not.
LEMMA RecordSteps ==
  ASSUME NEW n \in Nat, LogIs(n), LockIs(n), RecordsAre, NEW e \in Events,
         ReadFema(e) \/ ReadGst(e) \/ InsertRecords(e) \/ Fail(e)
  PROVE  LogIs(n)' /\ LockIs(n)' /\ RecordsAre' /\ UNCHANGED rows
<1>0. e # None /\ run \in [Events -> Run] /\ UNCHANGED <<rows, clock>>
  BY NoneAssumption DEF LockIs, ReadFema, ReadGst, InsertRecords, Fail
<1>1. \A f \in Events \ {e} : run'[f] = run[f]
  BY <1>0 DEF ReadFema, ReadGst, InsertRecords, Fail, Goto
<1>2. run'[e].step \in Recorded
  BY <1>0 DEF ReadFema, ReadGst, InsertRecords, Fail, Goto, Recorded, Run
<1>3. LogIs(n)'
  BY <1>0, <1>1, <1>2, LogStays
<1>4. Tip(n)' = Tip(n) /\ \A f : InLog(f) => InLog(f)'
  BY <1>0, InLogStays DEF Tip
<1>5. run' \in [Events -> Run]
  BY <1>0 DEF ReadFema, ReadGst, InsertRecords, Fail, Goto, Run, Steps, RecordsAre
<1>6. LockIs(n)'
  <2>1. CASE Fail(e)
    BY <1>0, <1>1, <1>2, <1>4, <1>5, <2>1, NoneAssumption DEF Fail, LockIs, Recorded
  <2>2. CASE ~Fail(e)
    <3>1. UNCHANGED lock /\ run[e].step \in {"fema", "gst", "records"}
      BY <2>2 DEF ReadFema, ReadGst, InsertRecords
    <3> QED
      BY <1>0, <1>1, <1>2, <1>4, <1>5, <3>1 DEF LockIs, Recorded
  <2> QED
    BY <2>1, <2>2
<1>7. RecordsAre'
  <2>1. CASE ReadFema(e)
    BY <1>0, <1>1, <1>4, <2>1 DEF ReadFema, RecordsAre, Run
  <2>2. CASE ReadGst(e)
    BY <1>0, <1>1, <1>4, <2>2 DEF ReadGst, RecordsAre, Run
  <2>3. CASE InsertRecords(e)
    <3>1. /\ run[e].step = "records" /\ run[e].fema = None /\ run[e].gst \in {None, gst}
          /\ e \in Releases /\ InLog(e)
      BY <2>3 DEF InsertRecords, RecordsAre
    <3>2. run'[e].step = "done"
      BY <1>0, <2>3 DEF InsertRecords, Goto, Run
    <3>3. CASE fema = None
      BY <1>0, <1>1, <1>4, <2>3, <3>1, <3>2, <3>3 DEF InsertRecords, RecordsAre
    <3>4. CASE fema # None
      BY <1>0, <1>1, <1>4, <2>3, <3>1, <3>2, <3>4 DEF InsertRecords, RecordsAre
    <3> QED
      BY <3>3, <3>4
  <2>4. CASE Fail(e)
    <3>1. run'[e].step = "done" /\ UNCHANGED <<fema, gst>>
      BY <1>0, <2>4 DEF Fail, Goto, Run
    <3> QED
      BY <1>1, <1>4, <3>1 DEF RecordsAre
  <2> QED
    BY <2>1, <2>2, <2>3, <2>4
<1> QED
  BY <1>0, <1>3, <1>6, <1>7

\* Every step keeps the invariant.
LEMMA StepHolds == IInv /\ [Next]_vars => IInv'
<1> SUFFICES ASSUME IInv, [Next]_vars PROVE IInv'
  OBVIOUS
<1>1. PICK n \in Nat : LogIs(n) /\ LockIs(n)
  BY DEF IInv
<1>2. RecordsAre
  BY DEF IInv
<1>3. CASE Next
  <2>1. PICK e \in Events : Start(e) \/ Proceed(e) \/ Fail(e)
    BY <1>3 DEF Next
  <2>2. CASE Start(e) \/ AcquireLock(e) \/ Link(e)
    BY <1>1, <1>2, <2>2, AppendSteps DEF IInv
  <2>3. CASE Commit(e)
    <3>1. n + 1 \in Nat
      OBVIOUS
    <3> QED
      BY <1>1, <1>2, <2>3, <3>1, CommitStep DEF IInv
  <2>4. CASE ReadFema(e) \/ ReadGst(e) \/ InsertRecords(e) \/ Fail(e)
    BY <1>1, <1>2, <2>4, RecordSteps DEF IInv
  <2> QED
    BY <2>1, <2>2, <2>3, <2>4 DEF Proceed
<1>4. CASE UNCHANGED vars
  <2>1. LogIs(n)'
    BY <1>1, <1>4 DEF LogIs, vars
  <2>2. LockIs(n)'
    BY <1>1, <1>4 DEF LockIs, Tip, vars
  <2>3. RecordsAre'
    BY <1>2, <1>4 DEF RecordsAre, InLog, vars
  <2> QED
    BY <2>1, <2>2, <2>3 DEF IInv
<1> QED
  BY <1>3, <1>4

\* And so always.
LEMMA Invariance == Spec => []IInv
BY InitHolds, StepHolds, PTL DEF Spec

(***************************************************************************)
(* Theorems.                                                               *)
(***************************************************************************)

\* The state is well typed, whatever handlers overlap or fail.
THEOREM LogTypes == Spec => []TypeOK
<1>1. IInv => TypeOK
  <2> SUFFICES ASSUME IInv PROVE TypeOK
    OBVIOUS
  <2>1. PICK n \in Nat : LogIs(n) /\ LockIs(n)
    BY DEF IInv
  <2> QED
    BY <2>1 DEF IInv, LogIs, LockIs, RecordsAre, TypeOK
<1> QED
  BY <1>1, Invariance, PTL

\* AuditChainVerifier accepts the committed log at any moment.
THEOREM ChainIsValid == Spec => []VerifierAccepts
<1>1. IInv => VerifierAccepts
  <2> SUFFICES ASSUME IInv, NEW k \in DOMAIN rows
      PROVE  /\ rows[k].hash = Hash(rows[k].prev, rows[k].event)
             /\ (\A j \in DOMAIN rows : j >= k) => rows[k].prev = Genesis
             /\ \A j \in DOMAIN rows : Precedes(j, k) => rows[k].prev = rows[j].hash
    BY DEF VerifierAccepts
  <2>1. PICK n \in Nat : LogIs(n)
    BY DEF IInv
  <2>2. DOMAIN rows = 0..(n - 1)
    BY <2>1, LatestIs
  <2>3. /\ rows[k].hash = Hash(rows[k].prev, rows[k].event)
        /\ rows[k].prev = IF k = 0 THEN Genesis ELSE rows[k - 1].hash
    BY <2>1, <2>2 DEF LogIs
  <2>4. (\A j \in DOMAIN rows : j >= k) => k = 0
    BY <2>2
  <2>5. ASSUME NEW j \in DOMAIN rows, Precedes(j, k) PROVE k # 0 /\ j = k - 1
    <3>1. j < k /\ j \in 0..(n - 1) /\ k \in 0..(n - 1)
      BY <2>2, <2>5 DEF Precedes
    <3>2. k - 1 \in DOMAIN rows /\ k - 1 < k
      BY <2>2, <3>1
    <3> QED
      BY <2>5, <3>1, <3>2 DEF Precedes
  <2> QED
    BY <2>3, <2>4, <2>5
<1> QED
  BY <1>1, Invariance, PTL

\* Under the lock no handler ever finds its number taken or its link outdated.
THEOREM LockSuffices == Spec => []NothingRefused
<1>1. IInv => NothingRefused
  <2> SUFFICES ASSUME IInv, NEW e \in Events, run[e].step = "commit"
      PROVE  /\ run[e].no \notin DOMAIN rows
             /\ \A k \in DOMAIN rows : IsLatest(k) => run[e].prev = rows[k].hash
    BY DEF NothingRefused
  <2>1. PICK n \in Nat : LogIs(n) /\ LockIs(n)
    BY DEF IInv
  <2>2. run[e].no = n /\ run[e].prev = Tip(n)
    BY <2>1 DEF LockIs
  <2> QED
    BY <2>1, <2>2, LatestIs DEF Tip
<1> QED
  BY <1>1, Invariance, PTL

\* The two compliance records stem from one release that is in the log, though
\* they are looked for one after the other and no lock is held.
THEOREM RecordsAgree == Spec => []RecordsOfOneRelease
<1>1. IInv => RecordsOfOneRelease
  BY DEF IInv, RecordsAre, RecordsOfOneRelease, InLog
<1> QED
  BY <1>1, Invariance, PTL

\* The log implements its abstract specification: it only grows at its end, by
\* one event at a time, and holds no event twice.
THEOREM LogOnlyAppends == Spec => OnlyAppends
<1>1. Init => History!Init
  BY DEF Init, historyOf, History!Init, Genesis
<1>2. IInv /\ [Next]_vars => [History!Next]_historyOf
  <2> SUFFICES ASSUME IInv, [Next]_vars PROVE [History!Next]_historyOf
    OBVIOUS
  <2>1. PICK n \in Nat : LogIs(n) /\ LockIs(n)
    BY DEF IInv
  <2>2. RecordsAre
    BY DEF IInv
  <2>3. ASSUME UNCHANGED rows PROVE UNCHANGED historyOf
    BY <2>3 DEF historyOf, IsLatest
  <2>4. ASSUME NEW e \in Events, Commit(e) PROVE History!Record(e)
    <3>1. LogIs(n + 1)' /\ rows' = Inserted(n, NewEntry(e))
      BY <2>1, <2>2, <2>4, CommitStep
    <3>2. historyOf' = rows'[n].hash
      <4>1. n + 1 \in Nat /\ DOMAIN rows' = 0..n
        BY <3>1 DEF LogIs
      <4>2. \A k : IsLatest(k)' <=> k = n
        BY <4>1 DEF IsLatest
      <4>3. (CHOOSE k \in DOMAIN rows' : IsLatest(k)') = n
        BY <4>1, <4>2
      <4>4. DOMAIN rows' # {}
        BY <4>1
      <4> QED
        BY <4>3, <4>4 DEF historyOf
    <3>3. rows'[n].hash = Append(Tip(n), e)
      <4>1. run[e].prev = Tip(n)
        BY <2>1, <2>4 DEF LockIs, Commit
      <4> QED
        BY <3>1, <4>1 DEF Inserted, NewEntry, Hash
    <3>4. historyOf = Tip(n) /\ Len(Tip(n)) = n /\ \A i \in 1..n : Tip(n)[i] = rows[i - 1].event
      BY <2>1, HistoryIs
    <3>5. ASSUME NEW i \in 1..n PROVE rows[i - 1].event # e
      <4>1. i - 1 \in 0..(n - 1)
        OBVIOUS
      <4>2. run[rows[i - 1].event].step \in Recorded
        BY <2>1, <4>1 DEF LogIs
      <4> QED
        BY <2>4, <4>2 DEF Commit, Recorded
    <3> QED
      BY <3>2, <3>3, <3>4, <3>5 DEF History!Record
  <2>5. CASE Next
    <3>1. PICK e \in Events : Start(e) \/ Proceed(e) \/ Fail(e)
      BY <2>5 DEF Next
    <3>2. CASE Commit(e)
      BY <2>4, <3>2 DEF History!Next
    <3>3. CASE ~Commit(e)
      BY <2>3, <3>1, <3>3 DEF Proceed, Start, AcquireLock, Link, ReadFema, ReadGst,
                              InsertRecords, Fail
    <3> QED
      BY <3>2, <3>3
  <2>6. CASE UNCHANGED vars
    BY <2>3, <2>6 DEF vars
  <2> QED
    BY <2>5, <2>6
<1> QED
  BY <1>1, <1>2, Invariance, PTL DEF Spec, OnlyAppends, History!Spec

(***************************************************************************)
(* The pages of the log.                                                   *)
(***************************************************************************)

\* Entries are made under the lock, so later ones have later times.
TimesRise(n) ==
    /\ clock \in Nat
    /\ \A k \in 0..(n - 1) : rows[k].at \in 1..clock
    /\ \A j, k \in 0..(n - 1) : j < k => rows[j].at < rows[k].at
    /\ \A e \in Events : run[e].step = "commit" =>
          run[e].at \in 1..clock /\ \A k \in 0..(n - 1) : rows[k].at < run[e].at

\* The client was shown the first m entries, and its cursor is the last of them.
WalkIs(n) ==
    /\ walk \in [shown : Seq(Nat), cursor : Nat, atStart : Nat, ended : BOOLEAN]
    /\ Len(walk.shown) <= n /\ walk.atStart <= n
    /\ \A i \in 1..Len(walk.shown) : walk.shown[i] = i - 1
    /\ ~walk.ended => walk.cursor = IF walk.shown = <<>> THEN 0 ELSE rows[Len(walk.shown) - 1].at
    /\ walk.ended => Len(walk.shown) >= walk.atStart

WalkInv == (\E n \in Nat : LogIs(n) /\ LockIs(n) /\ TimesRise(n) /\ WalkIs(n)) /\ RecordsAre

\* How many numbers there are from a on and under b.
LEMMA HowMany ==
  ASSUME NEW a \in Int, NEW b \in Int, a <= b
  PROVE  Cardinality(a..(b - 1)) = b - a
<1> DEFINE c == b - 1
<1>1. c \in Int /\ (IF a > c THEN 0 ELSE c - a + 1) = b - a
  OBVIOUS
<1> HIDE DEF c
<1>2. Cardinality(a..c) = IF a > c THEN 0 ELSE c - a + 1
  BY <1>1, FS_Interval
<1>3. QED
  BY <1>1, <1>2 DEF c

\* One sequence after another.
LEMMA JoinIs ==
  ASSUME NEW S, NEW s \in Seq(S), NEW t \in Seq(S), NEW m \in Nat, NEW p \in Nat,
         m = Len(s), p = Len(t)
  PROVE  /\ s \o t \in Seq(S) /\ Len(s \o t) = m + p
         /\ \A i \in 1..m + p : (s \o t)[i] = IF i <= m THEN s[i] ELSE t[i - m]
OBVIOUS

\* An append, which does not change the entries there are, keeps what is known of
\* the client.
LEMMA WalkGoesOn ==
  ASSUME NEW n \in Nat, WalkIs(n), NEW m \in Nat, n <= m, UNCHANGED walk,
         \A k \in 0..(n - 1) : rows'[k] = rows[k]
  PROVE  WalkIs(m)'
<1>1. walk.shown \in Seq(Nat) /\ Len(walk.shown) \in Nat /\ Len(walk.shown) <= n
  BY DEF WalkIs
<1>2. walk.atStart \in Nat /\ walk.atStart <= m /\ Len(walk.shown) <= m
  BY <1>1 DEF WalkIs
<1>3. walk.shown # <<>> => Len(walk.shown) - 1 \in 0..(n - 1)
  BY <1>1
<1>4. walk.shown # <<>> => rows'[Len(walk.shown) - 1] = rows[Len(walk.shown) - 1]
  BY <1>3
<1>5. QED
  BY <1>2, <1>4 DEF WalkIs

\* No step but a commit changes the entries.
LEMMA TimesRiseBeforeCommit ==
  ASSUME NEW n \in Nat, LogIs(n), LockIs(n), RecordsAre, TimesRise(n), NEW e \in Events,
         Start(e) \/ AcquireLock(e) \/ Link(e)
  PROVE  TimesRise(n)' /\ UNCHANGED rows
<1>1. e # None /\ run \in [Events -> Run] /\ UNCHANGED rows
  BY NoneAssumption DEF LockIs, Start, AcquireLock, Link
<1>2. \A f \in Events \ {e} : run'[f] = run[f]
  BY <1>1 DEF Start, AcquireLock, Link, LinkTo, Goto
<1>3. CASE Start(e) \/ AcquireLock(e)
  <2>1. UNCHANGED clock /\ run'[e].step # "commit"
    BY <1>1, <1>3 DEF Start, AcquireLock, Goto, Run
  <2>2. QED
    BY <1>1, <1>2, <2>1 DEF TimesRise
<1>4. CASE Link(e)
  <2>1. clock' = clock + 1 /\ clock \in Nat /\ run'[e].at = clock'
    <3>1. PICK no, prev : LinkTo(e, no, prev)
      BY <1>4 DEF Link
    <3>2. run'[e] = [run[e] EXCEPT !.step = "commit", !.no = no, !.prev = prev, !.at = clock']
      BY <1>1, <3>1 DEF LinkTo
    <3>3. run[e] \in Run
      BY <1>1
    <3>4. run'[e].at = clock'
      BY <3>2, <3>3 DEF Run
    <3>5. QED
      BY <1>4, <3>4 DEF Link, TimesRise
  <2>2. \A f \in Events : run[f].step # "commit"
    BY <1>1, <1>4 DEF Link, LockIs
  <2>3. \A k \in 0..(n - 1) : rows[k].at \in 1..clock' /\ rows[k].at < clock'
    <3> SUFFICES ASSUME NEW k \in 0..(n - 1)
                 PROVE  rows[k].at \in 1..clock' /\ rows[k].at < clock'
      OBVIOUS
    <3>1. rows[k].at \in 1..clock
      BY DEF TimesRise
    <3>2. QED
      BY <2>1, <3>1
  <2>4. clock' \in 1..clock' /\ clock' \in Nat
    BY <2>1
  <2>5. \A f \in Events : run'[f].step = "commit" => f = e
    BY <1>2, <2>2
  <2>6. \A j, k \in 0..(n - 1) : j < k => rows[j].at < rows[k].at
    BY DEF TimesRise
  <2>7. QED
    BY <1>1, <2>1, <2>3, <2>4, <2>5, <2>6 DEF TimesRise
<1>5. QED
  BY <1>1, <1>3, <1>4

\* So the times rise with the numbers after a commit too.
LEMMA TimesRiseInCommit ==
  ASSUME NEW n \in Nat, LogIs(n), LockIs(n), RecordsAre, TimesRise(n), NEW e \in Events, Commit(e)
  PROVE  TimesRise(n + 1)' /\ \A k \in 0..(n - 1) : rows'[k] = rows[k]
<1>1. rows' = Inserted(n, NewEntry(e)) /\ DOMAIN rows = 0..(n - 1)
  BY CommitStep, LatestIs
<1>2. rows'[n] = NewEntry(e) /\ \A k \in 0..(n - 1) : rows'[k] = rows[k]
  BY <1>1 DEF Inserted
<1>3. rows'[n].at = run[e].at /\ run[e].step = "commit" /\ clock' = clock
  BY <1>2 DEF NewEntry, Commit
<1>4. clock \in Nat /\ run[e].at \in 1..clock /\ \A k \in 0..(n - 1) : rows[k].at < run[e].at
  BY <1>3 DEF TimesRise
<1>5. \A k \in 0..((n + 1) - 1) : k = n \/ k \in 0..(n - 1)
  OBVIOUS
<1>6. \A k \in 0..(n - 1) : rows'[k].at \in 1..clock' /\ rows'[k].at < rows'[n].at
  BY <1>2, <1>3, <1>4 DEF TimesRise
<1>7. \A k \in 0..((n + 1) - 1) : rows'[k].at \in 1..clock'
  BY <1>3, <1>4, <1>5, <1>6
<1>8. ASSUME NEW j \in 0..((n + 1) - 1), NEW k \in 0..((n + 1) - 1), j < k
      PROVE  rows'[j].at < rows'[k].at
  <2>1. j \in 0..(n - 1)
    BY <1>8
  <2>2. CASE k = n
    BY <1>6, <2>1, <2>2
  <2>3. CASE k \in 0..(n - 1)
    BY <1>2, <1>8, <2>1, <2>3 DEF TimesRise
  <2>4. QED
    BY <1>5, <2>2, <2>3
<1>9. \A f \in Events : run'[f].step # "commit"
  <2>1. LockIs(n + 1)' /\ lock' = None
    BY CommitStep DEF Commit
  <2>2. QED
    BY <2>1, NoneAssumption DEF LockIs
<1>10. QED
  BY <1>2, <1>3, <1>4, <1>7, <1>8, <1>9 DEF TimesRise

\* A commit writes an entry that is later than those before it.
LEMMA TimesRiseAfterCommit ==
  ASSUME NEW n \in Nat, LogIs(n), LockIs(n), RecordsAre, TimesRise(n), NEW e \in Events,
         ReadFema(e) \/ ReadGst(e) \/ InsertRecords(e) \/ Fail(e)
  PROVE  TimesRise(n)' /\ UNCHANGED rows
<1>1. run \in [Events -> Run] /\ UNCHANGED <<rows, clock>>
  BY DEF LockIs, ReadFema, ReadGst, InsertRecords, Fail
<1>2. \A f \in Events \ {e} : run'[f] = run[f]
  BY <1>1 DEF ReadFema, ReadGst, InsertRecords, Fail, Goto
<1>3. run'[e].step # "commit"
  BY <1>1 DEF ReadFema, ReadGst, InsertRecords, Fail, Goto, Run
<1>4. QED
  BY <1>1, <1>2, <1>3 DEF TimesRise

\* What is created after the cursor is what the client has not been shown, and it
\* is fetched from its first entry on.
LEMMA FetchedIs ==
  ASSUME NEW n \in Nat, LogIs(n), TimesRise(n), WalkIs(n), ~walk.ended,
         NEW m \in Nat, m = Len(walk.shown)
  PROVE  Fetched = [i \in 1..(IF n - m > Limit THEN Limit + 1 ELSE n - m) |-> m + i - 1]
<1>1. m <= n /\ walk.cursor = (IF m = 0 THEN 0 ELSE rows[m - 1].at)
  <2>1. walk.shown \in Seq(Nat) /\ (walk.shown = <<>> <=> m = 0)
    BY DEF WalkIs
  <2>2. QED
    BY <2>1 DEF WalkIs
<1>2. DOMAIN rows = 0..(n - 1)
  BY LatestIs
<1>3. After = m..(n - 1)
  <2>1. ASSUME NEW k \in 0..(n - 1)
        PROVE  rows[k].at > walk.cursor <=> k >= m
    <3>1. rows[k].at \in 1..clock /\ clock \in Nat
      BY DEF TimesRise
    <3>2. CASE m = 0
      BY <1>1, <3>1, <3>2
    <3>3. CASE m # 0
      <4>1. m - 1 \in 0..(n - 1)
        BY <1>1, <3>3
      <4>2. rows[m - 1].at \in 1..clock
        BY <4>1 DEF TimesRise
      <4>3. /\ m - 1 < k => rows[m - 1].at < rows[k].at
            /\ k < m - 1 => rows[k].at < rows[m - 1].at
        BY <4>1 DEF TimesRise
      <4>4. k >= m \/ k = m - 1 \/ k < m - 1
        BY <3>3
      <4>5. QED
        BY <1>1, <3>1, <3>3, <4>2, <4>3, <4>4
    <3>4. QED
      BY <3>2, <3>3
  <2>2. QED
    BY <1>2, <2>1 DEF After
<1>4. Cardinality(After) = n - m
  <2>1. m \in Int /\ n \in Int /\ m <= n
    BY <1>1
  <2>2. QED
    BY <1>3, <2>1, HowMany
<1>5. ASSUME NEW k \in m..(n - 1)
      PROVE  Place(k) = k - m + 1
  <2>1. {j \in After : j <= k} = m..k
    BY <1>3
  <2>2. Cardinality(m..k) = k - m + 1
    <3>1. m \in Int /\ k + 1 \in Int /\ m <= k + 1 /\ (k + 1) - 1 = k /\ (k + 1) - m = k - m + 1
      OBVIOUS
    <3>2. Cardinality(m..((k + 1) - 1)) = (k + 1) - m
      BY <3>1, HowMany
    <3>3. QED
      BY <3>1, <3>2
  <2>3. QED
    BY <2>1, <2>2 DEF Place
<1>6. ASSUME NEW i \in 1..(n - m)
      PROVE  (CHOOSE k \in After : Place(k) = i) = m + i - 1
  <2>1. m + i - 1 \in m..(n - 1)
    BY <1>1
  <2>2. Place(m + i - 1) = i
    <3>1. Place(m + i - 1) = (m + i - 1) - m + 1
      BY <1>5, <2>1
    <3>2. QED
      BY <3>1
  <2>3. \A k \in m..(n - 1) : Place(k) = i => k = m + i - 1
    <3> SUFFICES ASSUME NEW k \in m..(n - 1), Place(k) = i
                 PROVE  k = m + i - 1
      OBVIOUS
    <3>1. i = k - m + 1
      BY <1>5
    <3>2. k \in Int /\ m \in Int
      OBVIOUS
    <3>3. QED
      BY <3>1, <3>2
  <2>4. QED
    BY <1>3, <2>1, <2>2, <2>3
<1> DEFINE l == IF n - m > Limit THEN Limit + 1 ELSE n - m
<1>7. l \in Nat /\ l <= n - m
  <2> DEFINE d == n - m
  <2>1. d \in Nat /\ Limit \in Nat
    BY <1>1, LimitAssumption
  <2> HIDE DEF d
  <2>2. (IF d > Limit THEN Limit + 1 ELSE d) \in Nat /\ (IF d > Limit THEN Limit + 1 ELSE d) <= d
    BY <2>1
  <2>3. QED
    BY <2>2 DEF d
<1>8. \A i \in 1..l : (CHOOSE k \in After : Place(k) = i) = m + i - 1
  <2> SUFFICES ASSUME NEW i \in 1..l
               PROVE  (CHOOSE k \in After : Place(k) = i) = m + i - 1
    OBVIOUS
  <2>1. i \in 1..(n - m)
    BY <1>1, <1>7
  <2>2. QED
    BY <1>6, <2>1
<1>9. Fetched = [i \in 1..l |-> CHOOSE k \in After : Place(k) = i]
  BY <1>4 DEF Fetched
<1>10. QED
  BY <1>8, <1>9

\* A page goes on where the last one ended.
LEMMA NextPageKeeps ==
  ASSUME NEW n \in Nat, LogIs(n), TimesRise(n), WalkIs(n), NextPage
  PROVE  WalkIs(n)' /\ UNCHANGED vars
<1> DEFINE s == walk.shown
           m == Len(s)
           d == n - m
           l == IF d > Limit THEN Limit + 1 ELSE d
           p == IF d > Limit THEN Limit ELSE d
<1>1. /\ ~walk.ended /\ UNCHANGED vars
      /\ walk' = [walk EXCEPT !.shown = s \o Page,
                              !.cursor = IF HasMore THEN rows[Page[Limit]].at ELSE walk.cursor,
                              !.ended = ~HasMore]
  BY DEF NextPage
<1>2. /\ walk \in [shown : Seq(Nat), cursor : Nat, atStart : Nat, ended : BOOLEAN]
      /\ walk.atStart <= n /\ m <= n /\ s \in Seq(Nat) /\ m \in Nat
      /\ \A i \in 1..m : s[i] = i - 1
  BY DEF WalkIs
<1>3. Limit \in Nat \ {0}
  BY LimitAssumption
<1>4. d \in Nat /\ l \in Nat /\ p \in Nat /\ p <= l /\ p <= d
  BY <1>2, <1>3
<1>5. Fetched = [i \in 1..l |-> m + i - 1]
  <2>1. m = Len(walk.shown)
    OBVIOUS
  <2> HIDE DEF m
  <2>2. QED
    BY <1>1, <1>2, <2>1, FetchedIs
<1> HIDE DEF m, s
<1>6. Fetched \in Seq(Nat) /\ Len(Fetched) = l
  <2>1. \A i \in 1..l : m + i - 1 \in Nat
    BY <1>2, <1>4
  <2> HIDE DEF l
  <2>2. QED
    BY <1>4, <1>5, <2>1
<1>7. (HasMore <=> d > Limit) /\ (IF HasMore THEN Limit ELSE Len(Fetched)) = p
  BY <1>3, <1>4, <1>6 DEF HasMore
<1>8. Page = SubSeq(Fetched, 1, p)
  BY <1>7 DEF Page
<1> HIDE DEF l, p, d
<1>9. Page \in Seq(Nat) /\ Len(Page) = p /\ \A i \in 1..p : Page[i] = m + i - 1
  <2>1. Page \in Seq(Nat) /\ Len(Page) = p /\ \A i \in 1..p : Page[i] = Fetched[i]
    BY <1>4, <1>6, <1>8
  <2>2. \A i \in 1..p : i \in 1..l
    BY <1>4
  <2>3. QED
    BY <1>5, <2>1, <2>2
<1> DEFINE t == s \o Page
<1>10. /\ t \in Seq(Nat) /\ Len(t) = m + p
       /\ \A i \in 1..m + p : t[i] = IF i <= m THEN s[i] ELSE Page[i - m]
  <2>1. s \in Seq(Nat) /\ Page \in Seq(Nat) /\ m \in Nat /\ p \in Nat /\ m = Len(s) /\ p = Len(Page)
    BY <1>2, <1>4, <1>9 DEF m
  <2>2. QED
    BY <2>1, JoinIs
<1>11. \A i \in 1..m + p : t[i] = i - 1
  <2> SUFFICES ASSUME NEW i \in 1..m + p
               PROVE  t[i] = i - 1
    OBVIOUS
  <2>0. i \in Nat /\ 1 <= i /\ i <= m + p /\ t[i] = IF i <= m THEN s[i] ELSE Page[i - m]
    BY <1>2, <1>4, <1>10
  <2>1. CASE i <= m
    BY <1>2, <2>0, <2>1
  <2>2. CASE i > m
    <3>1. i - m \in 1..p /\ ~(i <= m)
      BY <1>2, <1>4, <2>0, <2>2
    <3>2. t[i] = Page[i - m] /\ Page[i - m] = m + (i - m) - 1
      BY <1>9, <2>0, <3>1
    <3>3. m + (i - m) - 1 = i - 1
      BY <1>2, <2>0
    <3>4. QED
      BY <3>2, <3>3
  <2>3. QED
    BY <1>2, <2>0, <2>1, <2>2
<1> HIDE DEF t
<1>12. HasMore => p = Limit /\ Page[Limit] = m + Limit - 1 /\ m + p - 1 \in 0..(n - 1) /\ t # <<>>
  <2> SUFFICES ASSUME HasMore
               PROVE  p = Limit /\ Page[Limit] = m + Limit - 1 /\ m + p - 1 \in 0..(n - 1) /\ t # <<>>
    OBVIOUS
  <2>1. p = Limit
    BY <1>7 DEF p
  <2>2. m + p <= n /\ m + p - 1 \in 0..(n - 1) /\ m + p # 0
    BY <1>2, <1>3, <1>4, <2>1 DEF d
  <2>3. t # <<>>
    BY <1>10, <2>2
  <2>4. Limit \in 1..p
    BY <1>3, <2>1
  <2>5. QED
    BY <1>9, <2>1, <2>2, <2>3, <2>4
<1>13. ~HasMore => m + p = n
  BY <1>2, <1>4, <1>7 DEF p, d
<1>14. m + p <= n
  BY <1>2, <1>4 DEF d
<1>15. (IF HasMore THEN rows[Page[Limit]].at ELSE walk.cursor) \in Nat
  <2>1. CASE HasMore
    <3>1. rows[m + Limit - 1] \in Entry
      BY <1>12, <2>1 DEF LogIs
    <3>2. QED
      BY <1>12, <2>1, <3>1 DEF Entry
  <2>2. CASE ~HasMore
    BY <1>2, <2>2
  <2>3. QED
    BY <2>1, <2>2
<1>16. HasMore \in BOOLEAN
  BY DEF HasMore
<1>17. /\ walk'.shown = t /\ walk'.atStart = walk.atStart /\ walk'.ended = ~HasMore
       /\ walk'.cursor = IF HasMore THEN rows[Page[Limit]].at ELSE walk.cursor
       /\ walk' \in [shown : Seq(Nat), cursor : Nat, atStart : Nat, ended : BOOLEAN]
  BY <1>1, <1>2, <1>10, <1>15, <1>16 DEF t
<1>18. HasMore => walk'.cursor = rows[Len(t) - 1].at
  <2> SUFFICES ASSUME HasMore
               PROVE  walk'.cursor = rows[Len(t) - 1].at
    OBVIOUS
  <2>1. walk'.cursor = rows[Page[Limit]].at /\ Page[Limit] = m + Limit - 1
    BY <1>12, <1>17
  <2>2. Len(t) - 1 = m + Limit - 1
    <3>1. Len(t) = m + p
      BY <1>10, Zenon
    <3>2. p = Limit
      BY <1>12, Zenon
    <3>3. m \in Nat /\ Limit \in Nat
      BY <1>2, <1>3
    <3>4. QED
      BY <3>1, <3>2, <3>3
  <2>3. QED
    BY <2>1, <2>2
<1>19. rows' = rows
  BY <1>1 DEF vars
<1>20. QED
  BY <1>1, <1>2, <1>10, <1>11, <1>12, <1>13, <1>14, <1>17, <1>18, <1>19 DEF WalkIs

\* The invariant of the pages always holds.
LEMMA WalkHolds ==
    /\ WalkInit => WalkInv
    /\ WalkInv /\ [WalkNext]_walkVars => WalkInv'
<1>1. ASSUME WalkInit
      PROVE  WalkInv
  <2>1. LogIs(0) /\ LockIs(0) /\ RecordsAre
    <3>1. Init /\ IInv
      BY <1>1, InitHolds DEF WalkInit
    <3>2. PICK n \in Nat : LogIs(n) /\ LockIs(n)
      BY <3>1 DEF IInv
    <3>3. n = 0
      BY <3>1, <3>2, LatestIs DEF Init
    <3>4. QED
      BY <3>1, <3>2, <3>3 DEF IInv
  <2>2. TimesRise(0)
    <3>1. 0..(0 - 1) = {}
      OBVIOUS
    <3>2. clock = 0 /\ \A e \in Events : run[e].step = "ready"
      BY <1>1 DEF WalkInit, Init, NotRun
    <3>3. QED
      BY <3>1, <3>2 DEF TimesRise
  <2>3. WalkIs(0)
    <3> DEFINE s == <<>>
    <3>1. s \in Seq(Nat) /\ Len(s) = 0 /\ s = <<>>
      OBVIOUS
    <3>2. Cardinality(DOMAIN rows) = 0
      BY <1>1, FS_EmptySet DEF WalkInit, Init
    <3>3. walk = [shown |-> s, cursor |-> 0, atStart |-> 0, ended |-> FALSE]
      BY <1>1, <3>2 DEF WalkInit, NewWalk
    <3> HIDE DEF s
    <3>4. QED
      BY <3>1, <3>3 DEF WalkIs
  <2>4. QED
    BY <2>1, <2>2, <2>3 DEF WalkInv
<1>2. ASSUME WalkInv, [WalkNext]_walkVars
      PROVE  WalkInv'
  <2>1. PICK n \in Nat : LogIs(n) /\ LockIs(n) /\ TimesRise(n) /\ WalkIs(n)
    BY <1>2 DEF WalkInv
  <2>2. RecordsAre
    BY <1>2 DEF WalkInv
  <2>3. ASSUME UNCHANGED vars
        PROVE  LogIs(n)' /\ LockIs(n)' /\ TimesRise(n)' /\ RecordsAre'
    BY <2>1, <2>2, <2>3 DEF vars, LogIs, LockIs, TimesRise, RecordsAre, Tip, InLog
  <2>4. CASE UNCHANGED walkVars
    <3>1. UNCHANGED vars /\ UNCHANGED walk
      BY <2>4 DEF walkVars, vars
    <3>2. WalkIs(n)'
      BY <2>1, <3>1 DEF WalkIs, vars
    <3>3. QED
      BY <2>3, <3>1, <3>2 DEF WalkInv
  <2>5. CASE NextPage
    BY <2>1, <2>3, <2>5, NextPageKeeps DEF WalkInv
  <2>6. CASE Restart
    <3>1. walk' = NewWalk /\ UNCHANGED vars
      BY <2>6 DEF Restart
    <3>2. Cardinality(DOMAIN rows) = n
      <4>1. DOMAIN rows = 0..(n - 1)
        BY <2>1, LatestIs
      <4>2. 0 \in Int /\ n - 1 \in Int
        OBVIOUS
      <4>3. Cardinality(0..(n - 1)) = IF 0 > n - 1 THEN 0 ELSE (n - 1) - 0 + 1
        BY <4>2, FS_Interval
      <4>4. QED
        BY <4>1, <4>3
    <3> DEFINE s == <<>>
    <3>3. s \in Seq(Nat) /\ Len(s) = 0 /\ s = <<>>
      OBVIOUS
    <3>4. walk' = [shown |-> s, cursor |-> 0, atStart |-> n, ended |-> FALSE]
      BY <3>1, <3>2 DEF NewWalk
    <3> HIDE DEF s
    <3>5. WalkIs(n)'
      BY <3>3, <3>4 DEF WalkIs
    <3>6. QED
      BY <2>3, <3>1, <3>5 DEF WalkInv
  <2>7. CASE Next /\ UNCHANGED walk
    <3>1. PICK e \in Events : Start(e) \/ Proceed(e) \/ Fail(e)
      BY <2>7 DEF Next
    <3>2. CASE Start(e) \/ AcquireLock(e) \/ Link(e)
      <4>1. LogIs(n)' /\ LockIs(n)' /\ TimesRise(n)' /\ RecordsAre' /\ UNCHANGED rows
        BY <2>1, <2>2, <3>2, AppendSteps, TimesRiseBeforeCommit
      <4>2. WalkIs(n)'
        BY <2>1, <2>7, <4>1, WalkGoesOn
      <4>3. QED
        BY <4>1, <4>2 DEF WalkInv
    <3>3. CASE Commit(e)
      <4>1. /\ LogIs(n + 1)' /\ LockIs(n + 1)' /\ TimesRise(n + 1)' /\ RecordsAre'
            /\ \A k \in 0..(n - 1) : rows'[k] = rows[k]
        BY <2>1, <2>2, <3>3, CommitStep, TimesRiseInCommit
      <4>2. n + 1 \in Nat /\ n <= n + 1
        OBVIOUS
      <4>3. WalkIs(n + 1)'
        BY <2>1, <2>7, <4>1, <4>2, WalkGoesOn
      <4>4. QED
        BY <4>1, <4>2, <4>3 DEF WalkInv
    <3>4. CASE ReadFema(e) \/ ReadGst(e) \/ InsertRecords(e) \/ Fail(e)
      <4>1. LogIs(n)' /\ LockIs(n)' /\ TimesRise(n)' /\ RecordsAre' /\ UNCHANGED rows
        BY <2>1, <2>2, <3>4, RecordSteps, TimesRiseAfterCommit
      <4>2. WalkIs(n)'
        BY <2>1, <2>7, <4>1, WalkGoesOn
      <4>3. QED
        BY <4>1, <4>2 DEF WalkInv
    <3>5. QED
      BY <3>1, <3>2, <3>3, <3>4 DEF Proceed
  <2>8. QED
    BY <1>2, <2>4, <2>5, <2>6, <2>7 DEF WalkNext
<1>3. QED
  BY <1>1, <1>2

\* Whatever is appended meanwhile, the pages leave nothing out and show nothing
\* twice, for any number of handlers, any length of the log and any page size.
THEOREM PagesLoseNothing == WalkSpec => []PagesComplete
<1>1. WalkInv => PagesComplete
  BY DEF WalkInv, WalkIs, PagesComplete
<1>2. QED
  BY <1>1, WalkHolds, PTL DEF WalkSpec

-----------------------------------------------------------------------------
(* MerkleTree.                                                             *)

\* What holds of 0, and of n + 1 when it holds of n, holds of every number: the
\* numbers under one of which it did not hold could be counted as one fewer.
LEMMA Counting ==
  ASSUME NEW S, 0 \in S, \A n \in Nat : n \in S => n + 1 \in S
  PROVE  \A n \in Nat : n \in S
<1> SUFFICES ASSUME NEW m \in Nat, m \notin S
             PROVE  FALSE
  OBVIOUS
<1> DEFINE A == S \cap (0..(m - 1))
           f == [n \in A |-> n + 1]
<1>1. IsFiniteSet(0..(m - 1))
  BY FS_Interval
<1>2. IsFiniteSet(A)
  BY <1>1, FS_Subset
<1>3. 0 \in A
  OBVIOUS
<1>4. /\ IsFiniteSet(A \ {0}) /\ Cardinality(A \ {0}) = Cardinality(A) - 1
      /\ Cardinality(A) \in Nat
  BY <1>2, <1>3, FS_RemoveElement, FS_CardinalityType
<1>5. f \in [A -> A \ {0}]
  OBVIOUS
<1>6. \E x, y \in A : x # y /\ f[x] = f[y]
  <2> HIDE DEF f, A
  <2> QED
    BY <1>2, <1>4, <1>5, FS_PigeonHole
<1>7. QED
  BY <1>6

\* A sequence of m things, whatever they are.
Row(s, m) == m \in Nat /\ s = [i \in 1..m |-> s[i]]

\* It is a sequence of as many of its values.
LEMMA RowIs ==
  ASSUME NEW s, NEW m, Row(s, m)
  PROVE  s \in Seq({s[i] : i \in 1..m}) /\ Len(s) = m
<1>1. s \in [1..m -> {s[i] : i \in 1..m}]
  BY DEF Row
<1>2. m \in Nat
  BY DEF Row
<1>3. QED
  BY <1>1, <1>2

\* Halves of even and odd numbers.
LEMMA HalfIs ==
  ASSUME NEW n \in Nat
  PROVE  /\ n \div 2 \in Nat /\ n % 2 \in {0, 1} /\ n = 2 * (n \div 2) + (n % 2)
         /\ (2 * n) \div 2 = n /\ (2 * n + 1) \div 2 = n
OBVIOUS

\* A layer with its last hash repeated if it is odd.
LEMMA EvenedIs ==
  ASSUME NEW s, NEW m, Row(s, m), m > 0,
         NEW h \in Nat, m = 2 * h \/ m = 2 * h - 1
  PROVE  /\ Row(Evened(s), 2 * h) /\ Len(Evened(s)) = 2 * h
         /\ \A i \in 1..2 * h : Evened(s)[i] = IF i <= m THEN s[i] ELSE s[m]
<1> DEFINE T == {s[i] : i \in 1..m}
<1>1. s \in Seq(T) /\ Len(s) = m /\ m \in Nat /\ m \in 1..m
  BY RowIs DEF Row
<1>2. s[m] \in T
  BY <1>1
<1> HIDE DEF T
<1>3. CASE m = 2 * h
  <2>1. m % 2 = 0
    BY <1>1, <1>3
  <2>2. Evened(s) = s
    BY <1>1, <2>1 DEF Evened
  <2>3. Row(s, 2 * h) /\ Len(s) = 2 * h
    BY <1>1, <1>3
  <2>4. \A i \in 1..2 * h : i <= m
    BY <1>3
  <2>5. QED
    BY <2>2, <2>3, <2>4
<1>4. CASE m = 2 * h - 1
  <2>1. m % 2 = 1
    BY <1>1, <1>4
  <2>2. Evened(s) = Append(s, s[m])
    BY <1>1, <2>1 DEF Evened
  <2> DEFINE e == Append(s, s[m])
  <2>3. e = [i \in 1..m + 1 |-> IF i = m + 1 THEN s[m] ELSE s[i]] /\ Len(e) = m + 1
    BY <1>1, <1>2
  <2> HIDE DEF e
  <2>4. \A i \in 1..m + 1 : e[i] = IF i <= m THEN s[i] ELSE s[m]
    <3> SUFFICES ASSUME NEW i \in 1..m + 1
                 PROVE  e[i] = IF i <= m THEN s[i] ELSE s[m]
      OBVIOUS
    <3>1. i <= m <=> i # m + 1
      BY <1>1
    <3>2. QED
      BY <2>3, <3>1
  <2>5. m + 1 = 2 * h
    BY <1>1, <1>4
  <2>6. Row(e, m + 1)
    BY <1>1, <2>3 DEF Row
  <2>7. QED
    BY <2>2, <2>3, <2>4, <2>5, <2>6 DEF e
<1>5. QED
  BY <1>3, <1>4

\* The layer above one of m hashes, m > 1, has fewer: each is of two hashes or, at
\* an odd end, of one hash twice.
LEMMA AboveIs ==
  ASSUME NEW s, NEW m, Row(s, m), m > 1
  PROVE  \E h \in Nat :
            /\ 0 < h /\ h < m /\ (m = 2 * h \/ m = 2 * h - 1) /\ Row(LayerAbove(s), h)
            /\ \A i \in 1..h : LayerAbove(s)[i] =
                  HashPair(s[2 * i - 1], IF 2 * i <= m THEN s[2 * i] ELSE s[2 * i - 1])
<1>1. m \in Nat
  BY DEF Row
<1>2. PICK h \in Nat : m = 2 * h \/ m = 2 * h - 1
  <2>1. m = 2 * (m \div 2) + (m % 2) /\ m % 2 \in {0, 1} /\ m \div 2 \in Nat
    BY <1>1, HalfIs
  <2>2. CASE m % 2 = 0
    BY <2>1, <2>2
  <2>3. CASE m % 2 = 1
    <3>1. (m \div 2) + 1 \in Nat /\ m = 2 * ((m \div 2) + 1) - 1
      BY <2>1, <2>3
    <3>2. QED
      BY <3>1
  <2>4. QED
    BY <2>1, <2>2, <2>3
<1>3. 0 < h /\ h < m
  BY <1>1, <1>2
<1> DEFINE e == Evened(s)
<1>4. Len(e) = 2 * h /\ \A i \in 1..2 * h : e[i] = IF i <= m THEN s[i] ELSE s[m]
  BY <1>2, EvenedIs
<1>5. LayerAbove(s) = [i \in 1..h |-> HashPair(e[2 * i - 1], e[2 * i])]
  <2>1. Len(e) \div 2 = h
    BY <1>4, HalfIs
  <2>2. QED
    BY <2>1 DEF LayerAbove
<1> HIDE DEF e
<1>6. Row(LayerAbove(s), h)
  BY <1>5 DEF Row
<1>7. ASSUME NEW i \in 1..h
      PROVE  LayerAbove(s)[i] =
                HashPair(s[2 * i - 1], IF 2 * i <= m THEN s[2 * i] ELSE s[2 * i - 1])
  <2>1. LayerAbove(s)[i] = HashPair(e[2 * i - 1], e[2 * i])
    BY <1>5
  <2>2. 2 * i - 1 \in 1..2 * h /\ 2 * i \in 1..2 * h /\ 2 * i - 1 <= m
    BY <1>1, <1>2
  <2>3. e[2 * i - 1] = s[2 * i - 1]
    BY <1>4, <2>2
  <2>4. e[2 * i] = IF 2 * i <= m THEN s[2 * i] ELSE s[m]
    BY <1>4, <2>2
  <2>5. ~(2 * i <= m) => m = 2 * i - 1
    BY <1>1, <2>2
  <2>6. QED
    BY <2>1, <2>3, <2>4, <2>5
<1>8. QED
  BY <1>2, <1>3, <1>6, <1>7

\* The layers are what their definition says they are.
LEMMA LayersAre ==
  ASSUME NEW s, NEW n \in Nat, n = Len(s)
  PROVE  Layers(s) = [k \in 0..n |-> IF k = 0 THEN Bottom(s) ELSE NextLayer(Layers(s)[k - 1])]
<1> DEFINE Up(L, k) == IF k = 0 THEN Bottom(s) ELSE NextLayer(L[k - 1])
           S == {m \in Nat : \E g : g = [k \in 0..m |-> Up(g, k)]}
<1>1. 0 \in S
  <2> DEFINE h == [k \in 0..0 |-> Bottom(s)]
  <2>1. h = [k \in 0..0 |-> Up(h, k)]
    OBVIOUS
  <2> HIDE DEF h, Up
  <2>2. QED
    BY <2>1
<1>2. ASSUME NEW m \in Nat, m \in S
      PROVE  m + 1 \in S
  <2>1. PICK g : g = [k \in 0..m |-> Up(g, k)]
    BY <1>2
  <2> DEFINE h == [k \in 0..m + 1 |-> Up(g, k)]
  <2>2. \A k \in 0..m : g[k] = Up(g, k)
    BY <2>1
  <2>3. \A k \in 0..m : h[k] = g[k]
    <3> HIDE DEF Up
    <3> QED
      BY <2>2
  <2>4. \A k \in 0..m + 1 : Up(g, k) = Up(h, k)
    <3> SUFFICES ASSUME NEW k \in 0..m + 1
                 PROVE  Up(g, k) = Up(h, k)
      OBVIOUS
    <3>1. k # 0 => k - 1 \in 0..m
      OBVIOUS
    <3> HIDE DEF h
    <3>2. QED
      BY <2>3, <3>1
  <2> HIDE DEF Up
  <2>5. h = [k \in 0..m + 1 |-> Up(h, k)]
    BY <2>4
  <2> HIDE DEF h
  <2>6. QED
    BY <2>5
<1>3. \A m \in Nat : m \in S
  <2> HIDE DEF S
  <2> QED
    BY <1>1, <1>2, Counting
<1>4. \E g : g = [k \in 0..n |-> Up(g, k)]
  BY <1>3
<1>5. QED
  BY <1>4 DEF Layers

\* So are the places of an entry on its way up.
LEMMA PlacesAre ==
  ASSUME NEW s, NEW n \in Nat, n = Len(s), NEW x
  PROVE  Places(s, x) = [k \in 0..n |-> IF k = 0 THEN x ELSE Places(s, x)[k - 1] \div 2]
<1> DEFINE Up(L, k) == IF k = 0 THEN x ELSE L[k - 1] \div 2
           S == {m \in Nat : \E g : g = [k \in 0..m |-> Up(g, k)]}
<1>1. 0 \in S
  <2> DEFINE h == [k \in 0..0 |-> x]
  <2>1. h = [k \in 0..0 |-> Up(h, k)]
    OBVIOUS
  <2> HIDE DEF h, Up
  <2>2. QED
    BY <2>1
<1>2. ASSUME NEW m \in Nat, m \in S
      PROVE  m + 1 \in S
  <2>1. PICK g : g = [k \in 0..m |-> Up(g, k)]
    BY <1>2
  <2> DEFINE h == [k \in 0..m + 1 |-> Up(g, k)]
  <2>2. \A k \in 0..m : g[k] = Up(g, k)
    BY <2>1
  <2>3. \A k \in 0..m : h[k] = g[k]
    <3> HIDE DEF Up
    <3> QED
      BY <2>2
  <2>4. \A k \in 0..m + 1 : Up(g, k) = Up(h, k)
    <3> SUFFICES ASSUME NEW k \in 0..m + 1
                 PROVE  Up(g, k) = Up(h, k)
      OBVIOUS
    <3>1. k # 0 => k - 1 \in 0..m
      OBVIOUS
    <3> HIDE DEF h
    <3>2. QED
      BY <2>3, <3>1
  <2> HIDE DEF Up
  <2>5. h = [k \in 0..m + 1 |-> Up(h, k)]
    BY <2>4
  <2> HIDE DEF h
  <2>6. QED
    BY <2>5
<1>3. \A m \in Nat : m \in S
  <2> HIDE DEF S
  <2> QED
    BY <1>1, <1>2, Counting
<1>4. \E g : g = [k \in 0..n |-> Up(g, k)]
  BY <1>3
<1>5. QED
  BY <1>4 DEF Places

\* And the hashes that the verifier computes.
LEMMA ClimbIs ==
  ASSUME NEW e, NEW proof, NEW n \in Nat, n = Len(proof)
  PROVE  Climb(e, proof) =
            [k \in 0..n |-> IF k = 0 THEN LeafHash(e) ELSE HashPair(Climb(e, proof)[k - 1], proof[k])]
<1> DEFINE Up(L, k) == IF k = 0 THEN LeafHash(e) ELSE HashPair(L[k - 1], proof[k])
           S == {m \in Nat : \E g : g = [k \in 0..m |-> Up(g, k)]}
<1>1. 0 \in S
  <2> DEFINE h == [k \in 0..0 |-> LeafHash(e)]
  <2>1. h = [k \in 0..0 |-> Up(h, k)]
    OBVIOUS
  <2> HIDE DEF h, Up
  <2>2. QED
    BY <2>1
<1>2. ASSUME NEW m \in Nat, m \in S
      PROVE  m + 1 \in S
  <2>1. PICK g : g = [k \in 0..m |-> Up(g, k)]
    BY <1>2
  <2> DEFINE h == [k \in 0..m + 1 |-> Up(g, k)]
  <2>2. \A k \in 0..m : g[k] = Up(g, k)
    BY <2>1
  <2>3. \A k \in 0..m : h[k] = g[k]
    <3> HIDE DEF Up
    <3> QED
      BY <2>2
  <2>4. \A k \in 0..m + 1 : Up(g, k) = Up(h, k)
    <3> SUFFICES ASSUME NEW k \in 0..m + 1
                 PROVE  Up(g, k) = Up(h, k)
      OBVIOUS
    <3>1. k # 0 => k - 1 \in 0..m
      OBVIOUS
    <3> HIDE DEF h
    <3>2. QED
      BY <2>3, <3>1
  <2> HIDE DEF Up
  <2>5. h = [k \in 0..m + 1 |-> Up(h, k)]
    BY <2>4
  <2> HIDE DEF h
  <2>6. QED
    BY <2>5
<1>3. \A m \in Nat : m \in S
  <2> HIDE DEF S
  <2> QED
    BY <1>1, <1>2, Counting
<1>4. \E g : g = [k \in 0..n |-> Up(g, k)]
  BY <1>3
<1>5. QED
  BY <1>4 DEF Climb

\* A layer, and how many hashes are in it.
Level(s, k) == Layers(s)[k]
Width(s, k) == Len(Level(s, k))

\* At the bottom are the hashes of the entries.
LEMMA LevelBottom ==
  ASSUME NEW s, NEW n \in Nat, Row(s, n)
  PROVE  Level(s, 0) = Bottom(s)
<1>1. Len(s) = n
  BY RowIs
<1> DEFINE L == Layers(s)
<1>2. L = [k \in 0..n |-> IF k = 0 THEN Bottom(s) ELSE NextLayer(L[k - 1])]
  BY <1>1, LayersAre
<1> HIDE DEF L
<1>3. QED
  BY <1>2 DEF Level, L

\* Each layer is made of the one below.
LEMMA LevelNext ==
  ASSUME NEW s, NEW n \in Nat, Row(s, n), NEW k \in 0..n - 1
  PROVE  Level(s, k + 1) = NextLayer(Level(s, k))
<1>1. Len(s) = n
  BY RowIs
<1> DEFINE L == Layers(s)
<1>2. L = [i \in 0..n |-> IF i = 0 THEN Bottom(s) ELSE NextLayer(L[i - 1])]
  BY <1>1, LayersAre
<1> HIDE DEF L
<1>3. k + 1 \in 0..n /\ k + 1 # 0 /\ (k + 1) - 1 = k
  OBVIOUS
<1>4. L[k + 1] = NextLayer(L[k])
  BY <1>2, <1>3
<1>5. QED
  BY <1>4 DEF Level, L

\* Layers get narrower until one hash, the root, is left.
LEMMA LevelsNarrow ==
  ASSUME NEW s, NEW n \in Nat \ {0}, Row(s, n)
  PROVE  \A k \in 0..n : /\ Row(Level(s, k), Width(s, k)) /\ Width(s, k) \in Nat \ {0}
                         /\ Width(s, k) = 1 \/ Width(s, k) + k <= n
<1> DEFINE Fine(k) == /\ Row(Level(s, k), Width(s, k)) /\ Width(s, k) \in Nat \ {0}
                      /\ Width(s, k) = 1 \/ Width(s, k) + k <= n
           S == {k \in Nat : k <= n => Fine(k)}
<1>1. Fine(0)
  <2>1. Level(s, 0) = [i \in 1..n |-> LeafHash(s[i])]
    <3>1. Len(s) = n
      BY RowIs
    <3>2. Level(s, 0) = Bottom(s)
      BY LevelBottom
    <3>3. QED
      BY <3>1, <3>2 DEF Bottom
  <2>2. Row(Level(s, 0), n)
    BY <2>1 DEF Row
  <2>3. Width(s, 0) = n
    BY <2>2, RowIs DEF Width
  <2>4. QED
    BY <2>2, <2>3
<1>2. ASSUME NEW k \in Nat, k \in S
      PROVE  k + 1 \in S
  <2> SUFFICES ASSUME k + 1 <= n
               PROVE  Fine(k + 1)
    OBVIOUS
  <2>1. Fine(k)
    BY <1>2
  <2>2. Level(s, k + 1) = NextLayer(Level(s, k))
    BY LevelNext
  <2>3. CASE Width(s, k) = 1
    <3>1. Level(s, k + 1) = Level(s, k)
      BY <2>2, <2>3 DEF NextLayer, Width
    <3>2. Width(s, k + 1) = 1
      BY <2>3, <3>1 DEF Width
    <3>3. QED
      BY <2>1, <2>3, <3>1, <3>2
  <2>4. CASE Width(s, k) # 1
    <3>1. Level(s, k + 1) = LayerAbove(Level(s, k))
      BY <2>2, <2>4 DEF NextLayer, Width
    <3>2. PICK h \in Nat : 0 < h /\ h < Width(s, k) /\ Row(Level(s, k + 1), h)
      <4>1. Row(Level(s, k), Width(s, k)) /\ Width(s, k) > 1
        BY <2>1, <2>4
      <4>2. QED
        BY <3>1, <4>1, AboveIs
    <3>3. Width(s, k + 1) = h
      BY <3>2, RowIs DEF Width
    <3>4. QED
      BY <2>1, <2>4, <3>2, <3>3
  <2>5. QED
    BY <2>3, <2>4
<1>3. \A k \in Nat : k \in S
  <2>1. 0 \in S
    BY <1>1
  <2> HIDE DEF S
  <2>2. QED
    BY <1>2, <2>1, Counting
<1>4. QED
  BY <1>3

\* Below the root the next layer is that of the pairs.
LEMMA LevelAbove ==
  ASSUME NEW s, NEW n \in Nat \ {0}, Row(s, n), NEW k \in 0..n - 1, Width(s, k) > 1
  PROVE  Level(s, k + 1) = LayerAbove(Level(s, k))
<1> DEFINE m == Width(s, k)
<1>1. m \in Nat /\ m > 1
  BY LevelsNarrow
<1> HIDE DEF m
<1>2. m # 1
  BY <1>1
<1>3. Len(Level(s, k)) # 1
  BY <1>2 DEF m, Width
<1>4. Level(s, k + 1) = NextLayer(Level(s, k))
  BY LevelNext
<1>5. QED
  BY <1>3, <1>4 DEF NextLayer

\* A hash and its sibling make the hash above them.
LEMMA PairIs ==
  ASSUME NEW s, NEW m, Row(s, m), m > 1, NEW x \in Nat, x < m
  PROVE  /\ LayerAbove(s)[(x \div 2) + 1] = HashPair(s[x + 1], Sibling(s, x))
         /\ x \div 2 < Len(LayerAbove(s))
<1>1. m \in Nat
  BY DEF Row
<1>2. PICK h \in Nat :
            /\ 0 < h /\ h < m /\ (m = 2 * h \/ m = 2 * h - 1) /\ Row(LayerAbove(s), h)
            /\ \A i \in 1..h : LayerAbove(s)[i] =
                  HashPair(s[2 * i - 1], IF 2 * i <= m THEN s[2 * i] ELSE s[2 * i - 1])
  BY AboveIs
<1>3. Len(LayerAbove(s)) = h
  BY <1>2, RowIs
<1>4. \A i \in 1..2 * h : Evened(s)[i] = IF i <= m THEN s[i] ELSE s[m]
  <2>1. m = 2 * h \/ m = 2 * h - 1
    BY <1>2
  <2>2. m > 0
    BY <1>1
  <2>3. QED
    BY <2>1, <2>2, EvenedIs
<1> DEFINE j == x \div 2
<1>5. j \in Nat /\ x % 2 \in {0, 1} /\ x = 2 * j + (x % 2)
  BY HalfIs
<1> HIDE DEF j
<1>6. j < h /\ j + 1 \in 1..h
  BY <1>1, <1>2, <1>5
<1>7. LayerAbove(s)[j + 1] =
         HashPair(s[2 * j + 1], IF 2 * j + 2 <= m THEN s[2 * j + 2] ELSE s[2 * j + 1])
  <2>1. 2 * (j + 1) - 1 = 2 * j + 1 /\ 2 * (j + 1) = 2 * j + 2
    BY <1>5
  <2>2. QED
    BY <1>2, <1>6, <2>1
<1>8. CASE x % 2 = 0
  <2>1. x = 2 * j
    BY <1>5, <1>8
  <2>2. Sibling(s, x) = Evened(s)[2 * j + 2]
    BY <1>5, <1>8, <2>1 DEF Sibling
  <2>3. 2 * j + 2 \in 1..2 * h
    BY <1>2, <1>5, <1>6
  <2>4. ~(2 * j + 2 <= m) => m = 2 * j + 1
    BY <1>1, <1>5, <2>1
  <2>5. Sibling(s, x) = IF 2 * j + 2 <= m THEN s[2 * j + 2] ELSE s[2 * j + 1]
    BY <1>4, <2>2, <2>3, <2>4
  <2>6. QED
    BY <1>3, <1>6, <1>7, <2>1, <2>5 DEF j
<1>9. CASE x % 2 = 1
  <2>1. x = 2 * j + 1 /\ x # 2 * j
    BY <1>5, <1>9
  <2>2. Sibling(s, x) = Evened(s)[2 * j + 1]
    BY <1>5, <1>9, <2>1 DEF Sibling
  <2>3. 2 * j + 1 \in 1..2 * h /\ 2 * j + 1 <= m /\ 2 * j + 2 <= m
    BY <1>1, <1>2, <1>5, <1>6, <2>1
  <2>4. Sibling(s, x) = s[2 * j + 1]
    BY <1>4, <2>2, <2>3
  <2>5. LayerAbove(s)[j + 1] = HashPair(s[2 * j + 1], s[2 * j + 2])
    BY <1>7, <2>3
  <2>6. x + 1 = 2 * j + 2
    BY <1>5, <2>1
  <2>7. \A a, b : HashPair(a, b) = HashPair(b, a)
    BY DEF HashPair
  <2>8. QED
    BY <1>3, <1>6, <2>4, <2>5, <2>6, <2>7 DEF j
<1>10. QED
  BY <1>5, <1>8, <1>9

\* Where the way up from a place crosses a layer.
At(s, x, k) == Places(s, x)[k]

\* The way up begins at the place.
LEMMA AtBottom ==
  ASSUME NEW s, NEW n \in Nat, Row(s, n), NEW x
  PROVE  At(s, x, 0) = x
<1>1. Len(s) = n
  BY RowIs
<1> DEFINE P == Places(s, x)
<1>2. P = [k \in 0..n |-> IF k = 0 THEN x ELSE P[k - 1] \div 2]
  BY <1>1, PlacesAre
<1> HIDE DEF P
<1>3. QED
  BY <1>2 DEF At, P

\* Each step of it halves the place.
LEMMA AtHalves ==
  ASSUME NEW s, NEW n \in Nat, Row(s, n), NEW x, NEW k \in 0..n - 1
  PROVE  At(s, x, k + 1) = At(s, x, k) \div 2
<1>1. Len(s) = n
  BY RowIs
<1> DEFINE P == Places(s, x)
<1>2. P = [i \in 0..n |-> IF i = 0 THEN x ELSE P[i - 1] \div 2]
  BY <1>1, PlacesAre
<1> HIDE DEF P
<1>3. k + 1 \in 0..n /\ k + 1 # 0 /\ (k + 1) - 1 = k
  OBVIOUS
<1>4. P[k + 1] = P[k] \div 2
  BY <1>2, <1>3
<1>5. QED
  BY <1>4 DEF At, P

\* The way up stays in the tree.
LEMMA AtInside ==
  ASSUME NEW s, NEW n \in Nat \ {0}, Row(s, n), NEW x \in 0..n - 1
  PROVE  \A k \in 0..n : At(s, x, k) \in 0..Width(s, k) - 1
<1> DEFINE S == {k \in Nat : k <= n => At(s, x, k) \in 0..Width(s, k) - 1}
<1>1. 0 \in S
  <2>1. Width(s, 0) = n
    <3>1. Len(s) = n
      BY RowIs
    <3>2. Level(s, 0) = Bottom(s)
      BY LevelBottom
    <3>3. QED
      BY <3>1, <3>2 DEF Bottom, Width
  <2>2. QED
    BY <2>1, AtBottom
<1>2. ASSUME NEW k \in Nat, k \in S
      PROVE  k + 1 \in S
  <2> SUFFICES ASSUME k + 1 <= n
               PROVE  At(s, x, k + 1) \in 0..Width(s, k + 1) - 1
    OBVIOUS
  <2> DEFINE a == At(s, x, k)
             m == Width(s, k)
  <2>1. a \in 0..m - 1 /\ Row(Level(s, k), m) /\ m \in Nat \ {0}
    BY <1>2, LevelsNarrow
  <2>2. At(s, x, k + 1) = a \div 2 /\ Level(s, k + 1) = NextLayer(Level(s, k))
    <3>1. k \in 0..n - 1
      OBVIOUS
    <3>2. At(s, x, k + 1) = a \div 2
      BY <3>1, AtHalves
    <3>3. QED
      BY <3>1, <3>2, LevelNext
  <2>3. Width(s, k + 1) \in Nat \ {0}
    BY LevelsNarrow
  <2>4. CASE m = 1
    <3>1. a = 0
      BY <2>1, <2>4
    <3>2. a \div 2 = 0
      BY <3>1
    <3>3. QED
      BY <2>2, <2>3, <3>2
  <2>5. CASE m # 1
    <3>1. Level(s, k + 1) = LayerAbove(Level(s, k))
      BY <2>2, <2>5 DEF NextLayer, Width
    <3>2. a \in Nat /\ a < m /\ m > 1
      BY <2>1, <2>5
    <3> HIDE DEF a, m
    <3>3. a \div 2 < Len(LayerAbove(Level(s, k))) /\ a \div 2 \in Nat
      BY <2>1, <3>2, PairIs, HalfIs
    <3>4. QED
      BY <2>2, <2>3, <3>1, <3>3 DEF Width
  <2>6. QED
    BY <2>4, <2>5
<1>3. \A k \in Nat : k \in S
  <2> HIDE DEF S
  <2> QED
    BY <1>1, <1>2, Counting
<1>4. QED
  BY <1>3

\* h is the height of the tree: just below it the layers are wider than one hash.
High(s, n, h) == \A j \in 0..n : Width(s, j) > 1 <=> j < h

\* Every tree has a height, and its top layer is the one of the root.
LEMMA HeightIs ==
  ASSUME NEW s, NEW n \in Nat \ {0}, Row(s, n)
  PROVE  \E h \in 0..n : /\ High(s, n, h)
                         /\ Width(s, h) = 1 /\ Level(s, n) = Level(s, h)
<1> DEFINE Wide(k) == \A j \in 0..k : Width(s, j) > 1
           Tall(k, h) == /\ \A j \in 0..n : j < h => Width(s, j) > 1
                         /\ \A j \in 0..n : h <= j /\ j <= k => Width(s, j) = 1 /\ Level(s, j) = Level(s, h)
           S == {k \in Nat : k <= n => Wide(k) \/ \E h \in 0..k : Tall(k, h)}
<1>1. 0 \in S
  <2>1. CASE Width(s, 0) = 1
    <3>1. Tall(0, 0)
      BY <2>1
    <3>2. QED
      BY <3>1
  <2>2. CASE Width(s, 0) # 1
    <3>1. Width(s, 0) \in Nat \ {0}
      BY LevelsNarrow
    <3>2. QED
      BY <2>2, <3>1
  <2>3. QED
    BY <2>1, <2>2
<1>2. ASSUME NEW k \in Nat, k \in S
      PROVE  k + 1 \in S
  <2> SUFFICES ASSUME k + 1 <= n
               PROVE  Wide(k + 1) \/ \E h \in 0..k + 1 : Tall(k + 1, h)
    OBVIOUS
  <2>1. Wide(k) \/ \E h \in 0..k : Tall(k, h)
    BY <1>2
  <2>2. CASE Wide(k)
    <3>1. Width(s, k + 1) \in Nat \ {0}
      BY LevelsNarrow
    <3>2. CASE Width(s, k + 1) = 1
      <4>1. Tall(k + 1, k + 1)
        <5>1. \A j \in 0..n : j < k + 1 => j \in 0..k
          OBVIOUS
        <5>2. \A j \in 0..n : k + 1 <= j /\ j <= k + 1 => j = k + 1
          OBVIOUS
        <5>3. QED
          BY <2>2, <3>2, <5>1, <5>2
      <4> HIDE DEF Tall
      <4>2. QED
        BY <4>1
    <3>3. CASE Width(s, k + 1) # 1
      <4>1. \A j \in 0..k + 1 : j \in 0..k \/ j = k + 1
        OBVIOUS
      <4>2. QED
        BY <2>2, <3>1, <3>3, <4>1
    <3>4. QED
      BY <3>2, <3>3
  <2>3. CASE \E h \in 0..k : Tall(k, h)
    <3>1. PICK h \in 0..k : Tall(k, h)
      BY <2>3
    <3>2. Width(s, k) = 1 /\ Level(s, k) = Level(s, h)
      BY <3>1
    <3>3. Level(s, k + 1) = NextLayer(Level(s, k))
      BY LevelNext
    <3>4. Level(s, k + 1) = Level(s, h)
      BY <3>2, <3>3 DEF NextLayer, Width
    <3>5. Width(s, k + 1) = 1
      BY <3>2, <3>4 DEF Width
    <3>6. \A j \in 0..n : j <= k + 1 => j <= k \/ j = k + 1
      OBVIOUS
    <3>7. Tall(k + 1, h)
      BY <3>1, <3>4, <3>5, <3>6
    <3> HIDE DEF Tall
    <3>8. QED
      BY <3>7
  <2>4. QED
    BY <2>1, <2>2, <2>3
<1>3. \A k \in Nat : k \in S
  <2> HIDE DEF S
  <2> QED
    BY <1>1, <1>2, Counting
<1>4. Width(s, n) = 1
  BY LevelsNarrow
<1>5. PICK h \in 0..n : Tall(n, h)
  <2>1. n \in S
    BY <1>3
  <2>2. ~ Wide(n)
    BY <1>4
  <2> HIDE DEF Wide, Tall
  <2>3. QED
    BY <2>1, <2>2
<1>6. High(s, n, h)
  BY <1>5 DEF High
<1>7. QED
  BY <1>5, <1>6

\* So the proof has as many siblings as the tree is high.
LEMMA ProofIs ==
  ASSUME NEW s, NEW n \in Nat \ {0}, Row(s, n), NEW x,
         NEW h \in 0..n, High(s, n, h)
  PROVE  /\ Len(GenerateProof(s, x)) = h
         /\ \A k \in 0..h - 1 : GenerateProof(s, x)[k + 1] = Sibling(Level(s, k), At(s, x, k))
<1> DEFINE below == {k \in 0..Len(s) : Len(Layers(s)[k]) > 1}
           up == {j + 1 : j \in below}
           P == GenerateProof(s, x)
<1>1. below = 0..h - 1
  <2>1. Len(s) = n
    BY RowIs
  <2>2. below = {k \in 0..n : k < h}
    BY <2>1 DEF Width, Level, High
  <2> HIDE DEF below
  <2>3. QED
    BY <2>2
<1> HIDE DEF below
<1>2. up = 1..h
  <2>1. \A k \in 1..h : k - 1 \in below /\ (k - 1) + 1 = k
    BY <1>1
  <2>2. \A j \in below : j + 1 \in 1..h
    BY <1>1
  <2>3. QED
    BY <2>1, <2>2
<1>3. P = [k \in up |-> Sibling(Level(s, k - 1), At(s, x, k - 1))]
  BY DEF GenerateProof, Level, At, below
<1> HIDE DEF up, P
<1>4. Len(P) = h
  BY <1>2, <1>3
<1>5. ASSUME NEW k \in 0..h - 1
      PROVE  P[k + 1] = Sibling(Level(s, k), At(s, x, k))
  <2>1. k + 1 \in up /\ (k + 1) - 1 = k
    BY <1>2
  <2>2. QED
    BY <1>3, <2>1
<1>6. QED
  BY <1>4, <1>5 DEF P

\* Two pairs are the same when their hashes are.
LEMMA PairsSame ==
  /\ \A a, b, c, d : HashPair(a, b) = HashPair(c, d) <=> {a, b} = {c, d}
  /\ \A a, b, c : HashPair(a, c) = HashPair(b, c) <=> a = b
  /\ \A a, b, e : HashPair(a, b) # LeafHash(e)
  /\ \A d, e : LeafHash(d) = LeafHash(e) <=> d = e
<1>1. \A a, b, c, d : HashPair(a, b) = HashPair(c, d) <=> {a, b} = {c, d}
  BY DEF HashPair
<1>2. \A a, b, c : HashPair(a, c) = HashPair(b, c) <=> a = b
  <2>1. \A a, b, c : {a, c} = {b, c} <=> a = b
    OBVIOUS
  <2>2. QED
    BY <1>1, <2>1
<1>3. \A a, b, e : HashPair(a, b) # LeafHash(e)
  BY DEF HashPair, LeafHash
<1>4. \A d, e : LeafHash(d) = LeafHash(e) <=> d = e
  BY DEF LeafHash
<1>5. QED
  BY <1>1, <1>2, <1>3, <1>4, Zenon

\* What the verifier has computed on its way is the hash of the tree there just when
\* it began with the entry.
LEMMA Convinces ==
  ASSUME NEW s, NEW n \in Nat \ {0}, Row(s, n), NEW x \in 0..n - 1, NEW e
  PROVE  VerifyProof(ComputeRoot(s), e, GenerateProof(s, x)) <=> e = s[x + 1]
<1>1. PICK h \in 0..n : /\ High(s, n, h)
                        /\ Width(s, h) = 1 /\ Level(s, n) = Level(s, h)
  BY HeightIs
<1> DEFINE P == GenerateProof(s, x)
           C == Climb(e, P)
           Same(k) == C[k] = Level(s, k)[At(s, x, k) + 1] <=> e = s[x + 1]
           S == {k \in Nat : k <= h => Same(k)}
<1>2. Len(P) = h /\ \A k \in 0..h - 1 : P[k + 1] = Sibling(Level(s, k), At(s, x, k))
  BY <1>1, ProofIs
<1> HIDE DEF P
<1>3. C = [k \in 0..h |-> IF k = 0 THEN LeafHash(e) ELSE HashPair(C[k - 1], P[k])]
  BY <1>2, ClimbIs
<1> HIDE DEF C
<1>4. 0 \in S
  <2>1. C[0] = LeafHash(e)
    BY <1>3
  <2>2. Len(s) = n
    BY RowIs
  <2>3. Level(s, 0) = [i \in 1..n |-> LeafHash(s[i])]
    BY <2>2, LevelBottom DEF Bottom
  <2>4. At(s, x, 0) = x
    BY AtBottom
  <2>5. Level(s, 0)[At(s, x, 0) + 1] = LeafHash(s[x + 1])
    BY <2>3, <2>4
  <2>6. QED
    BY <2>1, <2>5, PairsSame
<1>5. ASSUME NEW k \in Nat, k \in S
      PROVE  k + 1 \in S
  <2> SUFFICES ASSUME k + 1 <= h
               PROVE  Same(k + 1)
    OBVIOUS
  <2> DEFINE a == At(s, x, k)
             l == Level(s, k)
  <2>1. k \in 0..h - 1 /\ k \in 0..n - 1 /\ k \in 0..n /\ k < h
    OBVIOUS
  <2>2. C[k] = l[a + 1] <=> e = s[x + 1]
    BY <1>5, <2>1
  <2>3. C[k + 1] = HashPair(C[k], Sibling(l, a))
    <3>1. k + 1 \in 0..h /\ k + 1 # 0 /\ (k + 1) - 1 = k
      BY <2>1
    <3>2. QED
      BY <1>2, <1>3, <2>1, <3>1
  <2>4. Level(s, k + 1)[At(s, x, k + 1) + 1] = HashPair(l[a + 1], Sibling(l, a))
    <3>1. Width(s, k) > 1
      BY <1>1, <2>1 DEF High
    <3>2. Level(s, k + 1) = LayerAbove(l)
      BY <2>1, <3>1, LevelAbove
    <3>3. At(s, x, k + 1) = a \div 2
      BY <2>1, AtHalves
    <3>4. a \in 0..Width(s, k) - 1 /\ Row(l, Width(s, k)) /\ Width(s, k) \in Nat
      BY <2>1, AtInside, LevelsNarrow
    <3>5. a \in Nat /\ a < Width(s, k)
      BY <3>4
    <3> HIDE DEF a, l
    <3>6. LayerAbove(l)[(a \div 2) + 1] = HashPair(l[a + 1], Sibling(l, a))
      BY <3>1, <3>4, <3>5, PairIs
    <3>7. QED
      BY <3>2, <3>3, <3>6
  <2> HIDE DEF a, l
  <2>5. QED
    BY <2>2, <2>3, <2>4, PairsSame
<1>6. \A k \in Nat : k \in S
  <2> HIDE DEF S
  <2> QED
    BY <1>4, <1>5, Counting
<1>7. C[h] = Level(s, h)[At(s, x, h) + 1] <=> e = s[x + 1]
  BY <1>6
<1>8. At(s, x, h) = 0
  BY <1>1, AtInside
<1>9. ComputeRoot(s) = Level(s, h)[1]
  <2>1. Len(s) = n
    BY RowIs
  <2>2. QED
    BY <1>1, <2>1 DEF ComputeRoot, Level
<1>10. VerifyProof(ComputeRoot(s), e, P) <=> ComputeRoot(s) = C[h]
  BY <1>2 DEF VerifyProof, C
<1>11. QED
  BY <1>7, <1>8, <1>9, <1>10 DEF P

\* The entries under a hash of a tree.
Under(s, n, k, p) == {s[x + 1] : x \in {y \in 0..n - 1 : At(s, y, k) + 1 = p}}

\* Under a pair is what is under its two hashes.
LEMMA UnderPair ==
  ASSUME NEW s, NEW n \in Nat \ {0}, Row(s, n), NEW k \in 0..n - 1, Width(s, k) > 1,
         NEW p \in 1..Width(s, k + 1)
  PROVE  \E a, b \in 1..Width(s, k) :
            /\ Level(s, k + 1)[p] = HashPair(Level(s, k)[a], Level(s, k)[b])
            /\ Under(s, n, k + 1, p) = Under(s, n, k, a) \cup Under(s, n, k, b)
<1> DEFINE m == Width(s, k)
           l == Level(s, k)
<1>1. k \in 0..n /\ k + 1 \in 0..n
  OBVIOUS
<1>2. Row(l, m) /\ m \in Nat \ {0} /\ m > 1
  BY <1>1, LevelsNarrow
<1>3. Level(s, k + 1) = LayerAbove(l)
  BY LevelAbove
<1> HIDE DEF m, l
<1>4. PICK h \in Nat :
            /\ 0 < h /\ h < m /\ (m = 2 * h \/ m = 2 * h - 1) /\ Row(LayerAbove(l), h)
            /\ \A i \in 1..h : LayerAbove(l)[i] =
                  HashPair(l[2 * i - 1], IF 2 * i <= m THEN l[2 * i] ELSE l[2 * i - 1])
  BY <1>2, AboveIs
<1>5. p \in 1..h
  <2>1. Width(s, k + 1) = h
    BY <1>3, <1>4, RowIs DEF Width
  <2>2. QED
    BY <2>1
<1> DEFINE a == 2 * p - 1
           b == IF 2 * p <= m THEN 2 * p ELSE 2 * p - 1
<1>6. a \in 1..m /\ b \in 1..m
  BY <1>2, <1>4, <1>5
<1>7. LayerAbove(l)[p] = HashPair(l[a], l[b])
  <2>1. LayerAbove(l)[p] = HashPair(l[2 * p - 1], IF 2 * p <= m THEN l[2 * p] ELSE l[2 * p - 1])
    BY <1>4, <1>5
  <2>2. QED
    BY <2>1
<1>8. ASSUME NEW y \in 0..n - 1
      PROVE  At(s, y, k + 1) + 1 = p <=> At(s, y, k) + 1 = a \/ At(s, y, k) + 1 = b
  <2> DEFINE c == At(s, y, k)
  <2>1. c \in 0..m - 1
    BY <1>1, AtInside DEF m
  <2>2. At(s, y, k + 1) = c \div 2
    BY AtHalves
  <2> HIDE DEF c
  <2>3. c \div 2 \in Nat /\ c % 2 \in {0, 1} /\ c = 2 * (c \div 2) + (c % 2)
    BY <1>2, <2>1, HalfIs
  <2>4. (c \div 2) + 1 = p <=> c + 1 = 2 * p - 1 \/ c + 1 = 2 * p
    BY <1>5, <2>1, <2>3
  <2>5. ~(2 * p <= m) => c + 1 # 2 * p
    BY <1>2, <1>5, <2>1
  <2>6. QED
    BY <2>2, <2>4, <2>5 DEF c
<1> HIDE DEF a, b
<1>9. Under(s, n, k + 1, p) = Under(s, n, k, a) \cup Under(s, n, k, b)
  BY <1>8, Zenon DEF Under
<1>10. QED
  BY <1>3, <1>6, <1>7, <1>9 DEF l, m

\* Under a hash of the bottom is its entry.
LEMMA UnderLeaf ==
  ASSUME NEW s, NEW n \in Nat \ {0}, Row(s, n)
  PROVE  /\ Width(s, 0) = n
         /\ \A p \in 1..n : Level(s, 0)[p] = LeafHash(s[p]) /\ Under(s, n, 0, p) = {s[p]}
<1>1. Len(s) = n
  BY RowIs
<1>2. Level(s, 0) = [i \in 1..n |-> LeafHash(s[i])]
  BY <1>1, LevelBottom DEF Bottom
<1>3. Width(s, 0) = n
  BY <1>2 DEF Width
<1>4. ASSUME NEW p \in 1..n
      PROVE  Under(s, n, 0, p) = {s[p]}
  <2>1. \A y \in 0..n - 1 : At(s, y, 0) = y
    BY AtBottom
  <2>2. {y \in 0..n - 1 : At(s, y, 0) + 1 = p} = {p - 1}
    BY <2>1
  <2>3. (p - 1) + 1 = p
    OBVIOUS
  <2>4. QED
    BY <2>2, <2>3 DEF Under
<1>5. QED
  BY <1>2, <1>3, <1>4

\* Equal hashes of two trees have the same entries under them.
LEMMA SameUnder ==
  ASSUME NEW s, NEW n \in Nat \ {0}, Row(s, n), NEW t, NEW m \in Nat \ {0}, Row(t, m),
         NEW h \in 0..n, High(s, n, h), NEW g \in 0..m, High(t, m, g)
  PROVE  \A k \in 0..h, j \in 0..g :
            \A p \in 1..Width(s, k), q \in 1..Width(t, j) :
               Level(s, k)[p] = Level(t, j)[q] => Under(s, n, k, p) = Under(t, m, j, q)
<1> DEFINE Alike(k) == \A j \in 0..g : \A p \in 1..Width(s, k), q \in 1..Width(t, j) :
                          Level(s, k)[p] = Level(t, j)[q] => Under(s, n, k, p) = Under(t, m, j, q)
           S == {k \in Nat : k <= h => Alike(k)}
<1>1. ASSUME NEW j \in 0..g, j # 0, NEW q \in 1..Width(t, j)
      PROVE  \E c, d \in 1..Width(t, j - 1) :
                /\ Level(t, j)[q] = HashPair(Level(t, j - 1)[c], Level(t, j - 1)[d])
                /\ Under(t, m, j, q) = Under(t, m, j - 1, c) \cup Under(t, m, j - 1, d)
  <2> DEFINE i == j - 1
  <2>1. i \in 0..m - 1 /\ i \in 0..m /\ i < g /\ i + 1 = j
    BY <1>1
  <2> HIDE DEF i
  <2>2. Width(t, i) > 1 /\ q \in 1..Width(t, i + 1)
    BY <2>1 DEF High
  <2>3. \E c, d \in 1..Width(t, i) :
           /\ Level(t, i + 1)[q] = HashPair(Level(t, i)[c], Level(t, i)[d])
           /\ Under(t, m, i + 1, q) = Under(t, m, i, c) \cup Under(t, m, i, d)
    BY <2>1, <2>2, UnderPair
  <2>4. QED
    BY <2>1, <2>3 DEF i
<1>2. 0 \in S
  <2> SUFFICES ASSUME NEW j \in 0..g, NEW p \in 1..Width(s, 0), NEW q \in 1..Width(t, j),
                      Level(s, 0)[p] = Level(t, j)[q]
               PROVE  Under(s, n, 0, p) = Under(t, m, j, q)
    OBVIOUS
  <2>1. p \in 1..n /\ Level(s, 0)[p] = LeafHash(s[p]) /\ Under(s, n, 0, p) = {s[p]}
    BY UnderLeaf
  <2>2. j = 0
    BY <1>1, <2>1, PairsSame
  <2>3. q \in 1..m /\ Level(t, 0)[q] = LeafHash(t[q]) /\ Under(t, m, 0, q) = {t[q]}
    BY <2>2, UnderLeaf
  <2>4. QED
    BY <2>1, <2>2, <2>3, PairsSame
<1>3. ASSUME NEW k \in Nat, k \in S
      PROVE  k + 1 \in S
  <2> SUFFICES ASSUME k + 1 <= h, NEW j \in 0..g,
                      NEW p \in 1..Width(s, k + 1), NEW q \in 1..Width(t, j),
                      Level(s, k + 1)[p] = Level(t, j)[q]
               PROVE  Under(s, n, k + 1, p) = Under(t, m, j, q)
    OBVIOUS
  <2>1. k \in 0..n - 1 /\ k \in 0..n /\ k < h /\ Alike(k)
    BY <1>3
  <2>2. Width(s, k) > 1
    BY <2>1 DEF High
  <2>3. PICK a, b \in 1..Width(s, k) :
           /\ Level(s, k + 1)[p] = HashPair(Level(s, k)[a], Level(s, k)[b])
           /\ Under(s, n, k + 1, p) = Under(s, n, k, a) \cup Under(s, n, k, b)
    BY <2>1, <2>2, UnderPair
  <2>4. j # 0
    <3>1. CASE j = 0
      <4>1. q \in 1..m /\ Level(t, 0)[q] = LeafHash(t[q])
        BY <3>1, UnderLeaf
      <4>2. QED
        BY <2>3, <3>1, <4>1, PairsSame
    <3>2. QED
      BY <3>1
  <2>5. PICK c, d \in 1..Width(t, j - 1) :
           /\ Level(t, j)[q] = HashPair(Level(t, j - 1)[c], Level(t, j - 1)[d])
           /\ Under(t, m, j, q) = Under(t, m, j - 1, c) \cup Under(t, m, j - 1, d)
    BY <1>1, <2>4
  <2> DEFINE A(x) == Level(s, k)[x]
             B(y) == Level(t, j - 1)[y]
  <2>6. {A(a), A(b)} = {B(c), B(d)}
    BY <2>3, <2>5, PairsSame
  <2>7. \A x \in 1..Width(s, k), y \in 1..Width(t, j - 1) :
           A(x) = B(y) => Under(s, n, k, x) = Under(t, m, j - 1, y)
    <3>1. j - 1 \in 0..g
      BY <2>4
    <3>2. QED
      BY <2>1, <3>1
  <2> HIDE DEF A, B
  <2>8. \/ A(a) = B(c) /\ A(b) = B(d)
        \/ A(a) = B(d) /\ A(b) = B(c)
    BY <2>6
  <2>9. QED
    BY <2>3, <2>5, <2>7, <2>8
<1>4. \A k \in Nat : k \in S
  <2> HIDE DEF S
  <2> QED
    BY <1>2, <1>3, Counting
<1>5. QED
  BY <1>4

\* The entries of a trail.
Entries(s, n) == {s[i] : i \in 1..n}

\* So trails with the same root have the same entries.
LEMMA SameEntries ==
  ASSUME NEW s, NEW n \in Nat \ {0}, Row(s, n), NEW t, NEW m \in Nat \ {0}, Row(t, m),
         ComputeRoot(s) = ComputeRoot(t)
  PROVE  Entries(s, n) = Entries(t, m)
<1>1. ASSUME NEW u, NEW w \in Nat \ {0}, Row(u, w)
      PROVE  \E h \in 0..w : /\ High(u, w, h)
                             /\ Width(u, h) = 1 /\ ComputeRoot(u) = Level(u, h)[1]
                             /\ Under(u, w, h, 1) = Entries(u, w)
  <2>1. PICK h \in 0..w : /\ High(u, w, h)
                          /\ Width(u, h) = 1 /\ Level(u, w) = Level(u, h)
    BY <1>1, HeightIs
  <2>2. ComputeRoot(u) = Level(u, h)[1]
    <3>1. Len(u) = w
      BY <1>1, RowIs
    <3>2. QED
      BY <2>1, <3>1 DEF ComputeRoot, Level
  <2>3. \A y \in 0..w - 1 : At(u, y, h) = 0
    <3>1. \A y \in 0..w - 1 : At(u, y, h) \in 0..Width(u, h) - 1
      BY <1>1, AtInside
    <3>2. QED
      BY <2>1, <3>1
  <2>4. Under(u, w, h, 1) = {u[y + 1] : y \in 0..w - 1}
    BY <2>3 DEF Under
  <2>5. {u[y + 1] : y \in 0..w - 1} = Entries(u, w)
    <3>1. \A y \in 0..w - 1 : y + 1 \in 1..w
      OBVIOUS
    <3>2. \A i \in 1..w : i - 1 \in 0..w - 1 /\ (i - 1) + 1 = i
      OBVIOUS
    <3>3. QED
      BY <3>1, <3>2 DEF Entries
  <2>6. QED
    BY <2>1, <2>2, <2>4, <2>5
<1>2. PICK h \in 0..n : /\ High(s, n, h)
                        /\ Width(s, h) = 1 /\ ComputeRoot(s) = Level(s, h)[1]
                        /\ Under(s, n, h, 1) = Entries(s, n)
  BY <1>1
<1>3. PICK g \in 0..m : /\ High(t, m, g)
                        /\ Width(t, g) = 1 /\ ComputeRoot(t) = Level(t, g)[1]
                        /\ Under(t, m, g, 1) = Entries(t, m)
  BY <1>1
<1>4. \A k \in 0..h, j \in 0..g : \A p \in 1..Width(s, k), q \in 1..Width(t, j) :
         Level(s, k)[p] = Level(t, j)[q] => Under(s, n, k, p) = Under(t, m, j, q)
  BY <1>2, <1>3, SameUnder
<1>5. h \in 0..h /\ g \in 0..g /\ 1 \in 1..Width(s, h) /\ 1 \in 1..Width(t, g)
  BY <1>2, <1>3
<1>6. Under(s, n, h, 1) = Under(t, m, g, 1)
  <2>1. Level(s, h)[1] = Level(t, g)[1]
    BY <1>2, <1>3
  <2>2. QED
    BY <1>4, <1>5, <2>1
<1>7. QED
  BY <1>2, <1>3, <1>6

\* The trail of an escrow is a sequence of entries.
TrailInv == trail \in Seq(Leaves)

\* RootCommits: for trails of any length, a proof convinces the verifier of the entry
\* it was made for and of no other, and a root determines the set of its entries.
THEOREM RootsCommit == MerkleSpec => []RootCommits
<1>1. MerkleInit => TrailInv
  BY DEF MerkleInit, TrailInv
<1>2. TrailInv /\ [AddEntry]_trail => TrailInv'
  BY DEF TrailInv, AddEntry
<1>3. TrailInv => RootCommits
  <2> SUFFICES ASSUME TrailInv
               PROVE  RootCommits
    OBVIOUS
  <2> DEFINE n == Len(trail)
  <2>1. n \in Nat /\ Row(trail, n) /\ DOMAIN trail = 1..n
    BY DEF TrailInv, Row
  <2> HIDE DEF n
  <2>2. ProofsConvince
    <3> SUFFICES ASSUME NEW index \in 0..n - 1, NEW e \in Leaves
                 PROVE  VerifyProof(ComputeRoot(trail), e, GenerateProof(trail, index))
                           <=> e = trail[index + 1]
      BY DEF ProofsConvince, n
    <3>1. n \in Nat \ {0}
      BY <2>1
    <3>2. QED
      BY <2>1, <3>1, Convinces
  <2>3. RootNamesEntries
    <3> SUFFICES ASSUME NEW m \in 1..MaxLeaves, NEW other \in [1..m -> Leaves],
                        trail # <<>>, ComputeRoot(other) = ComputeRoot(trail)
                 PROVE  {other[i] : i \in 1..m} = {trail[i] : i \in DOMAIN trail}
      BY DEF RootNamesEntries
    <3>1. m \in Nat \ {0} /\ Row(other, m)
      BY MerkleAssumption DEF Row
    <3>2. n \in Nat \ {0}
      BY <2>1 DEF n, TrailInv
    <3>3. Entries(other, m) = Entries(trail, n)
      BY <2>1, <3>1, <3>2, SameEntries
    <3>4. QED
      BY <2>1, <3>3 DEF Entries
  <2>4. QED
    BY <2>2, <2>3 DEF RootCommits
<1>4. QED
  BY <1>1, <1>2, <1>3, PTL DEF MerkleSpec
=============================================================================
