-------------------------- MODULE SettlementProofs ---------------------------
(***************************************************************************)
(* Theorems of Settlement for any set of requests, any offered operations, *)
(* any amounts and any bounds.                                             *)
(*                                                                         *)
(* The inductive invariant says where every transaction id comes from.     *)
(* The properties are about the database and the chain only, but a request *)
(* in flight carries aggregates it loaded long ago, and will write them:   *)
(* so the same must hold of everything each request carries (ReqOK).       *)
(* Since the chain only grows, what a stale aggregate cites stays true.    *)
(***************************************************************************)
EXTENDS Settlement, TLAPS

Entry == [call : CallKinds, app : Nat \ {0}]

ChainOps == DeployOps \cup NoOpOps \cup PlainOps \cup WalletOps

\* Cites and the first conjuncts of EveryTxIsReal, for a ledger L and n
\* applications, so that they can be said of two states at once.
CitesIn(L, tx, kinds) == tx \in 1..Len(L) /\ L[tx].call \in kinds

SoundIn(e, L, n) ==
    /\ e \in Escrow
    /\ e.fundTx    # NoTx  => CitesIn(L, e.fundTx, {"pay", "fund"})
    /\ e.releaseTx # NoTx  => CitesIn(L, e.releaseTx, {"release"})
    /\ e.refundTx  # NoTx  => CitesIn(L, e.refundTx, {"refund"})
    /\ e.app       # NoApp => e.app \in 1..n

\* What a request in flight carries.
Confirming == {"anchor", "reread", "merge", "flush", "publish"}

ReqOK(q, L, n) ==
    /\ q \in Request
    /\ SoundIn(q.escrow, L, n)
    /\ SoundIn(q.base, L, n)
    /\ q.app \in 0..n
    /\ q.step = "wallet" => q.op \in WalletOps
    /\ q.step \in {"lookup", "chain", "anchor", "reread"} => q.op \in ChainOps
    /\ q.step \in {"wallet", "lookup", "chain"} /\ q.op \notin DeployOps => q.app # NoApp
    /\ q.step = "insert" => q.op \in {"createPending"} \cup DeployOps
    /\ q.step \in Confirming /\ q.op \notin {"approve", "reject"} =>
          /\ q.op \in ChainOps
          /\ q.app # NoApp
          /\ CitesIn(L, q.tx, {CallKind(q.op)})
    /\ q.step = "publish" => q.op \in Publishing

\* The chain: what a payout of a CadenciaEscrow contract in the ledger says of
\* the contract.
ChainInv ==
    /\ apps \in Seq(App)
    /\ ledger \in Seq(Entry)
    /\ \A i \in 1..Len(ledger) : ledger[i].app \in 1..Len(apps)
    /\ \A id \in 1..Len(apps) :
          apps[id].kind = "puya" /\ apps[id].status # "RELEASED" => apps[id].toSeller = 0
    /\ \A i \in 1..Len(ledger) : OnPuya(i) =>
          /\ ledger[i].call = "release" => /\ apps[ledger[i].app].status = "RELEASED"
                                           /\ apps[ledger[i].app].toSeller = Amount
          /\ ledger[i].call = "refund"  => apps[ledger[i].app].status = "REFUNDED"
    /\ \A i, j \in 1..Len(ledger) :
          /\ OnPuya(i) /\ ledger[i].app = ledger[j].app
          /\ ledger[i].call = "release" /\ ledger[j].call = "release"
          => i = j

DataInv ==
    /\ SoundIn(row, ledger, Len(apps))
    /\ \A t \in settlements : CitesIn(ledger, t, {"release"})
    /\ req \in [Requests -> Request]
    /\ \A r \in Requests : ReqOK(req[r], ledger, Len(apps))

PaperInv ==
    /\ audit \subseteq EventTypes
    /\ compliance \in BOOLEAN
    /\ PaperTrail
    /\ \A r \in Requests : req[r].step = "publish" /\ req[r].op \in ReleaseOps
                              => settlements # {}

IInv == ChainInv /\ DataInv /\ PaperInv

(***************************************************************************)
(* Escrow records.                                                         *)
(***************************************************************************)

\* An aggregate nobody has touched cites nothing.
LEMMA NewIsSound ==
  ASSUME NEW L, NEW n, NEW s \in EscrowStatus
  PROVE  SoundIn(NewEscrow(s), L, n) /\ NewEscrow(s).app = NoApp
BY DEF SoundIn, NewEscrow, Escrow, NoTx, NoApp, Roots

\* The absent row cites nothing.
LEMMA NoRowIsSound == ASSUME NEW L, NEW n PROVE SoundIn(NoRow, L, n)
BY NewIsSound DEF NoRow, EscrowStatus

\* Loading and storing keep the citations.
LEMMA LoadIsSound ==
  ASSUME NEW L, NEW n, NEW e, SoundIn(e, L, n)
  PROVE  SoundIn(Load(e), L, n) /\ Load(e).app = e.app
BY DEF SoundIn, Load, Escrow, EscrowStatus

\* Storing keeps the citations, and stores no FROZEN.
LEMMA StoreIsSound ==
  ASSUME NEW L, NEW n, NEW e, SoundIn(e, L, n)
  PROVE  SoundIn(Store(e), L, n)
<1>1. e \in Escrow
  BY DEF SoundIn
<1>2. Store(e) \in Escrow
  BY <1>1 DEF Store, Escrow, EscrowStatus
<1>3. /\ Store(e).fundTx = e.fundTx
      /\ Store(e).releaseTx = e.releaseTx
      /\ Store(e).refundTx = e.refundTx
      /\ Store(e).app = e.app
  BY <1>1 DEF Store, Escrow
<1> QED
  BY <1>2, <1>3 DEF SoundIn

\* The row a merge leaves takes every column from one of two sound records.
LEMMA MergedIsSound ==
  ASSUME NEW L, NEW n, NEW new, NEW base, NEW current,
         SoundIn(new, L, n), SoundIn(current, L, n)
  PROVE  SoundIn(Merged(new, base, current), L, n)
<1>1. new \in Escrow /\ current \in Escrow
  BY DEF SoundIn
<1>2. Merged(new, base, current) \in Escrow
  BY <1>1 DEF Merged, Escrow
<1>3. /\ Merged(new, base, current).fundTx \in {new.fundTx, current.fundTx}
      /\ Merged(new, base, current).releaseTx \in {new.releaseTx, current.releaseTx}
      /\ Merged(new, base, current).refundTx \in {new.refundTx, current.refundTx}
      /\ Merged(new, base, current).app \in {new.app, current.app}
  BY DEF Merged
<1> QED
  BY <1>2, <1>3 DEF SoundIn

\* A citation outlives every later call: the ledger only grows.
LEMMA SoundForEver ==
  ASSUME NEW L \in Seq(Entry), NEW x \in Entry, NEW n \in Nat, NEW m \in Nat, n <= m,
         NEW e, SoundIn(e, L, n)
  PROVE  SoundIn(e, Append(L, x), m)
<1>1. \A tx, kinds : CitesIn(L, tx, kinds) => CitesIn(Append(L, x), tx, kinds)
  BY DEF CitesIn
<1> QED
  BY <1>1 DEF SoundIn

\* So does what a request in flight relies on.
LEMMA ReqForEver ==
  ASSUME NEW L \in Seq(Entry), NEW x \in Entry, NEW n \in Nat, NEW m \in Nat, n <= m,
         NEW q, ReqOK(q, L, n)
  PROVE  ReqOK(q, Append(L, x), m)
<1>1. \A tx, kinds : CitesIn(L, tx, kinds) => CitesIn(Append(L, x), tx, kinds)
  BY DEF CitesIn
<1>2. SoundIn(q.escrow, Append(L, x), m) /\ SoundIn(q.base, Append(L, x), m)
  BY SoundForEver DEF ReqOK
<1>3. q.app \in 0..m
  BY DEF ReqOK
<1> QED
  BY <1>1, <1>2, <1>3 DEF ReqOK

(***************************************************************************)
(* Requests.                                                               *)
(***************************************************************************)

\* A confirmed call, on its way back to the database.
Carries(q, L, n) ==
    /\ q \in Request
    /\ SoundIn(q.escrow, L, n)
    /\ SoundIn(q.base, L, n)
    /\ q.app \in 1..n
    /\ q.op \in ChainOps
    /\ CitesIn(L, q.tx, {CallKind(q.op)})

\* A request with nothing to do carries nothing.
LEMMA IdleIsOK == ASSUME NEW L, NEW n \in Nat PROVE ReqOK(Idle, L, n)
<1>1. Idle \in Request
  BY DEF Idle, Request, Steps, NoRow, NewEscrow, Escrow, EscrowStatus, Roots, NoTx, NoApp
<1>2. SoundIn(Idle.escrow, L, n) /\ SoundIn(Idle.base, L, n)
  BY NoRowIsSound DEF Idle
<1> QED
  BY <1>1, <1>2 DEF ReqOK, Idle, Confirming, NoApp

\* approve and reject change only the status.
LEMMA DecidedIsSound ==
  ASSUME NEW L, NEW n, NEW e, SoundIn(e, L, n)
  PROVE  SoundIn(Approved(e), L, n) /\ SoundIn(Rejected(e), L, n)
BY DEF SoundIn, Approved, Rejected, Escrow, EscrowStatus

\* Each record_* method writes the transaction it was given, in its own column.
LEMMA RecordedIsSound ==
  ASSUME NEW L \in Seq(Entry), NEW n \in Nat, NEW q, NEW e, SoundIn(e, L, n), Carries(q, L, n)
  PROVE  SoundIn(Recorded(q, e), L, n)
<1> DEFINE d == Recorded(q, e)
<1>1. e \in Escrow /\ q.tx \in Nat /\ q.app \in Nat /\ q.root \in Roots
  BY DEF SoundIn, Carries, Request
<1>2. CASE q.op \in DeployOps
  <2>1. d = Deployed(e, q.app)
    BY <1>2 DEF Recorded, DeployOps, FundOps, ReleaseOps, RefundOps
  <2> QED
    BY <1>1, <2>1 DEF Deployed, SoundIn, Carries, Escrow, EscrowStatus
<1>3. CASE q.op \in FundOps
  <2>1. d = Funded(e, q.tx)
    BY <1>3 DEF Recorded, DeployOps, FundOps, ReleaseOps, RefundOps
  <2>2. CallKind(q.op) \in {"pay", "fund"}
    BY <1>3 DEF CallKind, DeployOps, PlainOps, FundOps, ReleaseOps, RefundOps
  <2> QED
    BY <1>1, <2>1, <2>2 DEF Funded, SoundIn, Carries, Escrow, EscrowStatus, CitesIn
<1>4. CASE q.op \in ReleaseOps
  <2>1. d = Released(e, q.tx, q.root)
    BY <1>4 DEF Recorded, DeployOps, FundOps, ReleaseOps, RefundOps
  <2>2. CallKind(q.op) = "release"
    BY <1>4 DEF CallKind, DeployOps, PlainOps, FundOps, ReleaseOps, RefundOps
  <2> QED
    BY <1>1, <2>1, <2>2 DEF Released, SoundIn, Carries, Escrow, EscrowStatus, CitesIn
<1>5. CASE q.op \in RefundOps
  <2>1. d = Refunded(e, q.tx)
    BY <1>5 DEF Recorded, DeployOps, FundOps, ReleaseOps, RefundOps
  <2>2. CallKind(q.op) = "refund"
    BY <1>5 DEF CallKind, DeployOps, PlainOps, FundOps, ReleaseOps, RefundOps
  <2> QED
    BY <1>1, <2>1, <2>2 DEF Refunded, SoundIn, Carries, Escrow, EscrowStatus, CitesIn
<1>6. CASE q.op = "freeze"
  BY <1>1, <1>6 DEF Recorded, Frozen, SoundIn, Escrow, EscrowStatus,
                    DeployOps, FundOps, ReleaseOps, RefundOps
<1>7. CASE q.op = "unfreeze"
  BY <1>1, <1>7 DEF Recorded, Unfrozen, SoundIn, Escrow, EscrowStatus,
                    DeployOps, FundOps, ReleaseOps, RefundOps
<1> QED
  BY <1>2, <1>3, <1>4, <1>5, <1>6, <1>7
     DEF Carries, ChainOps, DeployOps, NoOpOps, PlainOps, WalletOps, FundOps, ReleaseOps, RefundOps

\* A confirmed call that moves to another step of its way back.
LEMMA CarriesOn ==
  ASSUME NEW L \in Seq(Entry), NEW n \in Nat, NEW q, Carries(q, L, n),
         NEW step \in {"anchor", "reread", "merge"}
  PROVE  ReqOK([q EXCEPT !.step = step], L, n)
<1> DEFINE p == [q EXCEPT !.step = step]
<1>1. p \in Request
  BY DEF Carries, Request, Steps
<1>2. /\ p.escrow = q.escrow /\ p.base = q.base /\ p.app = q.app
      /\ p.op = q.op /\ p.tx = q.tx /\ p.step = step
  BY DEF Carries, Request
<1>3. ReqOK(p, L, n)
  BY <1>1, <1>2 DEF Carries, ReqOK, Confirming, NoApp
<1> QED
  BY <1>3

\* Recording leaves a request whose aggregate can be merged, or ends it.
LEMMA RecordIsOK ==
  ASSUME NEW L \in Seq(Entry), NEW n \in Nat, NEW q, NEW e, NEW r \in Requests,
         Carries(q, L, n), SoundIn(e, L, n), Record(r, q, e)
  PROVE  \E p : ReqOK(p, L, n) /\ p.step # "publish" /\ req' = [req EXCEPT ![r] = p]
<1> DEFINE d == Recorded(q, e)
           c == [q EXCEPT !.escrow = d]
           p == [q EXCEPT !.escrow = d, !.step = "merge"]
<1>1. CASE CanRecord(q.op, e)
  <2>1. SoundIn(d, L, n)
    BY RecordedIsSound
  <2>2. d \in Escrow
    BY <2>1 DEF SoundIn
  <2>3. c \in Request /\ c.escrow = d /\ c.base = q.base /\ c.app = q.app
        /\ c.op = q.op /\ c.tx = q.tx
    BY <2>2 DEF Carries, Request
  <2>4. Carries(c, L, n)
    BY <2>1, <2>3 DEF Carries
  <2>5. p = [c EXCEPT !.step = "merge"]
    OBVIOUS
  <2>6. ReqOK(p, L, n)
    BY <2>4, <2>5, CarriesOn
  <2>7. p.step = "merge"
    BY <2>3 DEF Carries, Request
  <2>8. req' = [req EXCEPT ![r] = p]
    BY <1>1 DEF Record
  <2> HIDE DEF p
  <2> QED
    BY <2>6, <2>7, <2>8
<1>2. CASE ~CanRecord(q.op, e)
  BY <1>2, IdleIsOK DEF Record, End, Idle
<1> QED
  BY <1>1, <1>2

\* Whatever the gateway answers to a call that landed, the request is OK.
LEMMA AnsweredIsOK ==
  ASSUME NEW L \in Seq(Entry), NEW n \in Nat, NEW q, NEW r \in Requests,
         Carries(q, L, n), Answered(r, q)
  PROVE  \E p : ReqOK(p, L, n) /\ p.step # "publish" /\ req' = [req EXCEPT ![r] = p]
<1>1. CASE End(r)
  BY <1>1, IdleIsOK DEF End, Idle
<1>2. CASE Confirmed(r, q) /\ q.op \in RereadOps
  <2> DEFINE p == [q EXCEPT !.step = "reread"]
  <2>1. ReqOK(p, L, n) /\ p.step = "reread"
    BY CarriesOn DEF Carries, Request
  <2>2. req' = [req EXCEPT ![r] = p]
    BY <1>2 DEF Confirmed
  <2> HIDE DEF p
  <2> QED
    BY <2>1, <2>2
<1>3. CASE Confirmed(r, q) /\ q.op \notin RereadOps /\ q.op = "release"
  <2> DEFINE p == [q EXCEPT !.step = "anchor"]
  <2>1. ReqOK(p, L, n) /\ p.step = "anchor"
    BY CarriesOn DEF Carries, Request
  <2>2. req' = [req EXCEPT ![r] = p]
    BY <1>3 DEF Confirmed
  <2> HIDE DEF p
  <2> QED
    BY <2>1, <2>2
<1>4. CASE Confirmed(r, q) /\ q.op \notin RereadOps /\ q.op # "release"
  <2>1. Record(r, q, q.escrow)
    BY <1>4 DEF Confirmed
  <2>2. SoundIn(q.escrow, L, n)
    BY DEF Carries
  <2> QED
    BY <2>1, <2>2, RecordIsOK
<1> QED
  BY <1>1, <1>2, <1>3, <1>4 DEF Answered

(***************************************************************************)
(* Steps that leave the chain alone.                                       *)
(***************************************************************************)

\* One request moves to p; the database still cites the ledger.
LEMMA DataStep ==
  ASSUME IInv, UNCHANGED chain, NEW r \in Requests, NEW p,
         req' = [req EXCEPT ![r] = p],
         ReqOK(p, ledger, Len(apps)),
         SoundIn(row', ledger, Len(apps)),
         \A t \in settlements' : CitesIn(ledger, t, {"release"})
  PROVE  ChainInv' /\ DataInv'
<1>1. ChainInv'
  BY DEF IInv, ChainInv, chain, OnPuya
<1>2. p \in Request /\ req \in [Requests -> Request]
  BY DEF ReqOK, IInv, DataInv
<1>3. req' \in [Requests -> Request]
  BY <1>2
<1>4. \A s \in Requests : ReqOK(req'[s], ledger, Len(apps))
  BY <1>2 DEF IInv, DataInv
<1> QED
  BY <1>1, <1>3, <1>4 DEF DataInv, chain

\* ... and if only the request moves, and not to its publishing, all is well.
LEMMA QuietStep ==
  ASSUME IInv, UNCHANGED <<chain, database>>, NEW r \in Requests, NEW p,
         req' = [req EXCEPT ![r] = p],
         ReqOK(p, ledger, Len(apps)), p.step # "publish"
  PROVE  IInv'
<1>1. ChainInv' /\ DataInv'
  BY DataStep DEF IInv, DataInv, database
<1>2. PaperTrail'
  BY DEF IInv, PaperInv, PaperTrail, Happened, chain, database
<1>3. \A s \in Requests : req'[s].step = "publish" => req'[s] = req[s]
  BY DEF IInv, DataInv
<1> QED
  BY <1>1, <1>2, <1>3 DEF IInv, PaperInv, database

\* A request that ends leaves the invariant.
LEMMA EndStep ==
  ASSUME IInv, UNCHANGED <<chain, database>>, NEW r \in Requests, End(r)
  PROVE  IInv'
<1>1. Len(apps) \in Nat
  BY DEF IInv, ChainInv
<1> QED
  BY <1>1, IdleIsOK, QuietStep DEF End, Idle

\* The facts about one request and the row that the invariant gives.
LEMMA Facts ==
  ASSUME IInv, NEW r \in Requests
  PROVE  /\ ReqOK(req[r], ledger, Len(apps))
         /\ SoundIn(row, ledger, Len(apps))
         /\ Len(apps) \in Nat
         /\ apps \in Seq(App)
         /\ ledger \in Seq(Entry)
         /\ req \in [Requests -> Request]
BY DEF IInv, DataInv, ChainInv

\* The EXCEPTs on Idle with which requests begin, as one record.
Fresh(op, step, e, id) == [op |-> op, step |-> step, escrow |-> e, base |-> NoRow,
                           app |-> id, tx |-> NoTx, root |-> "none"]

\* Those EXCEPTs are such records: with only an operation and a step,
LEMMA FreshStep ==
  ASSUME NEW op, NEW step
  PROVE  [Idle EXCEPT !.op = op, !.step = step] = Fresh(op, step, NoRow, NoApp)
<1>1. [Idle EXCEPT !.op = op] = Fresh(op, "idle", NoRow, NoApp)
  BY DEF Idle, Fresh
<1>2. [Fresh(op, "idle", NoRow, NoApp) EXCEPT !.step = step] = Fresh(op, step, NoRow, NoApp)
  BY DEF Fresh
<1> QED
  BY <1>1, <1>2

\* ... with an aggregate,
LEMMA FreshEscrow ==
  ASSUME NEW op, NEW step, NEW e
  PROVE  [Idle EXCEPT !.op = op, !.step = step, !.escrow = e] = Fresh(op, step, e, NoApp)
<1>1. [Fresh(op, step, NoRow, NoApp) EXCEPT !.escrow = e] = Fresh(op, step, e, NoApp)
  BY DEF Fresh
<1> QED
  BY <1>1, FreshStep

\* ... with an application,
LEMMA FreshApp ==
  ASSUME NEW op, NEW step, NEW id
  PROVE  [Idle EXCEPT !.op = op, !.step = step, !.app = id] = Fresh(op, step, NoRow, id)
<1>1. [Fresh(op, step, NoRow, NoApp) EXCEPT !.app = id] = Fresh(op, step, NoRow, id)
  BY DEF Fresh
<1> QED
  BY <1>1, FreshStep

\* ... and with both.
LEMMA FreshBoth ==
  ASSUME NEW op, NEW step, NEW e, NEW id
  PROVE  [Idle EXCEPT !.op = op, !.step = step, !.escrow = e, !.app = id]
           = Fresh(op, step, e, id)
<1>1. [Fresh(op, step, e, NoApp) EXCEPT !.app = id] = Fresh(op, step, e, id)
  BY DEF Fresh
<1> QED
  BY <1>1, FreshEscrow

\* A fresh request that carries only what it has just loaded.
LEMMA FreshIsOK ==
  ASSUME NEW L, NEW n \in Nat, NEW op \in AllOperations, NEW e, SoundIn(e, L, n),
         NEW step \in {"wallet", "lookup", "chain", "merge", "insert"}, NEW id \in 0..n,
         step = "wallet" => op \in WalletOps,
         step \in {"lookup", "chain"} => op \in ChainOps,
         step \in {"wallet", "lookup", "chain"} /\ op \notin DeployOps => id # NoApp,
         step = "merge"  => op \in {"approve", "reject"},
         step = "insert" => op \in {"createPending"} \cup DeployOps
  PROVE  ReqOK(Fresh(op, step, e, id), L, n)
<1> DEFINE p == Fresh(op, step, e, id)
<1>1. SoundIn(NoRow, L, n) /\ NoRow \in Escrow
  BY NoRowIsSound DEF SoundIn
<1>2. e \in Escrow
  BY DEF SoundIn
<1>3. p \in Request
  BY <1>1, <1>2 DEF Fresh, Request, Steps, NoTx, Roots
<1>4. p.op = op /\ p.step = step /\ p.escrow = e /\ p.app = id /\ p.base = NoRow
  BY DEF Fresh
<1> HIDE DEF p
<1>5. ReqOK(p, L, n)
  BY <1>1, <1>3, <1>4 DEF ReqOK, Confirming
<1> QED
  BY <1>5 DEF p

\* Begin: the aggregate comes from the row, so it is sound.
LEMMA BeginStep ==
  ASSUME IInv, NEW r \in Requests, NEW op \in Operations, Begin(r, op)
  PROVE  IInv'
<1> DEFINE e == Load(row)
           step == CASE op \in {"approve", "reject"} -> "merge"
                     [] op = "platformDeploy"       -> "lookup"
                     [] OTHER                       -> "chain"
           x == CASE op = "approve" -> Approved(e)
                  [] op = "reject"  -> Rejected(e)
                  [] OTHER          -> e
           id == e.app
           p == Fresh(op, step, x, id)
<1>1. op \in AllOperations /\ Admits(op, e) /\ UNCHANGED <<chain, database>>
  BY OperationsAssumption DEF Begin
<1>a. req' = [req EXCEPT ![r] = p]
  <2>1. req' = [req EXCEPT ![r] = [Idle EXCEPT !.op = op, !.step = step,
                                               !.escrow = x, !.app = id]]
    BY DEF Begin
  <2> HIDE DEF x, step, e, id
  <2>2. [Idle EXCEPT !.op = op, !.step = step, !.escrow = x, !.app = id] = p
    BY FreshBoth
  <2> HIDE DEF p
  <2> QED
    BY <2>1, <2>2
<1>2. SoundIn(e, ledger, Len(apps)) /\ e.app = row.app
  BY Facts, LoadIsSound
<1>3. SoundIn(Approved(e), ledger, Len(apps)) /\ SoundIn(Rejected(e), ledger, Len(apps))
  BY <1>2, DecidedIsSound
<1>4. SoundIn(x, ledger, Len(apps))
  BY <1>2, <1>3
<1>5. e.app \in 0..Len(apps)
  BY <1>2, Facts DEF SoundIn, NoApp
<1>6. CASE op \in {"approve", "reject"}
  <2>1. step = "merge"
    BY <1>6
  <2>2. ReqOK(p, ledger, Len(apps))
    BY <1>1, <1>4, <1>5, <1>6, <2>1, Facts, FreshIsOK
  <2>3. p.step = "merge"
    BY <2>1 DEF Fresh
  <2> HIDE DEF p
  <2> QED
    BY <1>1, <1>a, <2>2, <2>3, QuietStep
<1>7. CASE op \notin {"approve", "reject"}
  <2>1. step \in {"lookup", "chain"}
    BY <1>7
  <2>2. op \in ChainOps /\ (op \notin DeployOps => e.app # NoApp)
    BY <1>1, <1>7 DEF Admits, ChainOps, DeployOps, NoOpOps, PlainOps, WalletOps
  <2>3. ReqOK(p, ledger, Len(apps))
    BY <1>1, <1>4, <1>5, <2>1, <2>2, Facts, FreshIsOK
  <2>4. p.step # "publish"
    BY <2>1 DEF Fresh
  <2> HIDE DEF p
  <2> QED
    BY <1>1, <1>a, <2>3, <2>4, QuietStep
<1> QED
  BY <1>6, <1>7

\* The other ways a request begins.
LEMMA OtherBegins ==
  ASSUME IInv, NEW r \in Requests, NEW op \in Operations,
         BeginInsert(r, op) \/ BeginSignedDeploy(r, op) \/ Build(r, op)
  PROVE  IInv'
<1>1. op \in AllOperations
  BY OperationsAssumption
<1>2. 0 \in 0..Len(apps) /\ NoApp = 0
  BY Facts DEF NoApp
<1>3. CASE BeginInsert(r, op)
  <2> DEFINE e == NewEscrow("PENDING_APPROVAL")
             p == Fresh(op, "insert", e, NoApp)
  <2>1. SoundIn(e, ledger, Len(apps))
    BY NewIsSound DEF EscrowStatus
  <2>2. op \in {"createPending"} \cup DeployOps
    BY <1>3 DEF BeginInsert, DeployOps
  <2> HIDE DEF e
  <2>3. [Idle EXCEPT !.op = op, !.step = "insert", !.escrow = e] = p
    BY FreshEscrow
  <2>4. req' = [req EXCEPT ![r] = p] /\ UNCHANGED <<chain, database>>
    BY <1>3, <2>3 DEF BeginInsert, e
  <2>5. ReqOK(p, ledger, Len(apps))
    BY <1>1, <1>2, <2>1, <2>2, Facts, FreshIsOK
  <2>6. p.step = "insert"
    BY DEF Fresh
  <2> HIDE DEF p
  <2> QED
    BY <2>4, <2>5, <2>6, QuietStep
<1>4. CASE BeginSignedDeploy(r, op)
  <2> DEFINE p == Fresh(op, "chain", NoRow, NoApp)
  <2>1. SoundIn(NoRow, ledger, Len(apps))
    BY NoRowIsSound
  <2>2. op \in DeployOps /\ op \in ChainOps
    BY <1>4 DEF BeginSignedDeploy, DeployOps, ChainOps
  <2>3. req' = [req EXCEPT ![r] = p] /\ UNCHANGED <<chain, database>>
    BY <1>4, FreshStep DEF BeginSignedDeploy
  <2>4. ReqOK(p, ledger, Len(apps))
    BY <1>1, <1>2, <2>1, <2>2, Facts, FreshIsOK
  <2>5. p.step = "chain"
    BY DEF Fresh
  <2> HIDE DEF p
  <2> QED
    BY <2>3, <2>4, <2>5, QuietStep
<1>5. CASE Build(r, op)
  <2> DEFINE a == Load(row).app
             p == Fresh(op, "wallet", NoRow, a)
  <2>1. SoundIn(NoRow, ledger, Len(apps))
    BY NoRowIsSound
  <2>2. op \in WalletOps /\ a # NoApp
    BY <1>5 DEF Build
  <2>3. a \in 0..Len(apps)
    BY Facts, LoadIsSound DEF SoundIn, NoApp
  <2> HIDE DEF a
  <2>4. [Idle EXCEPT !.op = op, !.step = "wallet", !.app = a] = p
    BY FreshApp
  <2>5. req' = [req EXCEPT ![r] = p] /\ UNCHANGED <<chain, database>>
    BY <1>5, <2>4 DEF Build, a
  <2>6. ReqOK(p, ledger, Len(apps))
    BY <1>1, <2>1, <2>2, <2>3, Facts, FreshIsOK
  <2>7. p.step = "wallet"
    BY DEF Fresh
  <2> HIDE DEF p
  <2> QED
    BY <2>5, <2>6, <2>7, QuietStep
<1> QED
  BY <1>3, <1>4, <1>5

\* Moving a request to another step changes nothing else it carries.
LEMMA StepIs ==
  ASSUME NEW q \in Request, NEW step \in Steps
  PROVE  LET p == [q EXCEPT !.step = step] IN
         /\ p \in Request /\ p.step = step
         /\ p.op = q.op /\ p.escrow = q.escrow /\ p.base = q.base
         /\ p.app = q.app /\ p.tx = q.tx
BY DEF Request

\* A request on its way back from the chain carries a confirmed call.
LEMMA BackCarries ==
  ASSUME NEW L, NEW n \in Nat, NEW q, ReqOK(q, L, n),
         q.step \in Confirming, q.op \notin {"approve", "reject"}
  PROVE  Carries(q, L, n)
BY DEF ReqOK, Carries, NoApp

\* Which transaction each family of operations confirms.
LEMMA CallKindIs ==
  ASSUME NEW op \in ChainOps
  PROVE  /\ CallKind(op) \in CallKinds
         /\ op \in ReleaseOps => CallKind(op) = "release" /\ op \notin {"approve", "reject"}
         /\ op \in FundOps    => CallKind(op) \in {"pay", "fund"}
         /\ op \in RefundOps  => CallKind(op) = "refund"
BY DEF CallKind, CallKinds, ChainOps, DeployOps, NoOpOps, PlainOps, WalletOps,
       ReleaseOps, FundOps, RefundOps

\* INSERT: the row becomes the request's aggregate, which is sound.
LEMMA InsertStep ==
  ASSUME IInv, NEW r \in Requests, Insert(r)
  PROVE  IInv'
<1> DEFINE q == req[r]
           p == [q EXCEPT !.step = "chain"]
<1>1. /\ ReqOK(q, ledger, Len(apps)) /\ q.step = "insert"
      /\ q \in Request /\ q.op \in {"createPending"} \cup DeployOps
  BY Facts DEF Insert, ReqOK
<1>2. UNCHANGED chain /\ UNCHANGED <<settlements, audit, compliance>>
  BY DEF Insert
<1>3. SoundIn(row', ledger, Len(apps))
  <2>1. SoundIn(Store(q.escrow), ledger, Len(apps))
    BY <1>1, StoreIsSound DEF ReqOK
  <2>2. row' = Store(q.escrow) \/ row' = row
    BY DEF Insert
  <2> QED
    BY <2>1, <2>2, Facts
<1>4. PICK c : /\ ReqOK(c, ledger, Len(apps)) /\ c.step # "publish"
               /\ req' = [req EXCEPT ![r] = c]
  <2>1. CASE End(r)
    BY <2>1, IdleIsOK, Facts DEF End, Idle
  <2>2. CASE q.op = "deploy" /\ Goto(r, "chain")
    <3>1. /\ p \in Request /\ p.step = "chain" /\ p.op = q.op /\ p.escrow = q.escrow
          /\ p.base = q.base /\ p.app = q.app
      BY <1>1, StepIs DEF Steps
    <3>2. req' = [req EXCEPT ![r] = p]
      BY <2>2 DEF Goto
    <3> HIDE DEF p
    <3>3. ReqOK(p, ledger, Len(apps))
      BY <1>1, <2>2, <3>1 DEF ReqOK, Confirming, DeployOps, ChainOps
    <3> QED
      BY <3>1, <3>2, <3>3
  <2> QED
    BY <2>1, <2>2 DEF Insert
<1>5. \A t \in settlements' : CitesIn(ledger, t, {"release"})
  BY <1>2 DEF IInv, DataInv
<1>6. ChainInv' /\ DataInv'
  BY <1>2, <1>3, <1>4, <1>5, DataStep
<1>7. PaperInv'
  <2>1. PaperTrail'
    BY <1>2 DEF IInv, PaperInv, PaperTrail, Happened, chain
  <2>2. \A s \in Requests : req'[s].step = "publish" => req'[s] = req[s]
    BY <1>4, Facts
  <2> QED
    BY <1>2, <2>1, <2>2 DEF IInv, PaperInv
<1> QED
  BY <1>6, <1>7 DEF IInv

\* Submit, Lookup, ChainFails, Anchor, Reread, Merge and Crash change only the request.
LEMMA SubmitStep ==
  ASSUME IInv, NEW r \in Requests, Submit(r)
  PROVE  IInv'
<1> DEFINE q == req[r]
           p == [q EXCEPT !.step = "chain"]
<1>1. ReqOK(q, ledger, Len(apps)) /\ q.step = "wallet" /\ q \in Request
  BY Facts DEF Submit, ReqOK
<1>2. UNCHANGED <<chain, database>>
  BY DEF Submit
<1>3. CASE End(r)
  BY <1>2, <1>3, EndStep
<1>4. CASE Goto(r, "chain")
  <2>1. /\ p \in Request /\ p.step = "chain" /\ p.op = q.op /\ p.escrow = q.escrow
        /\ p.base = q.base /\ p.app = q.app
    BY <1>1, StepIs DEF Steps
  <2>2. req' = [req EXCEPT ![r] = p]
    BY <1>4 DEF Goto
  <2> HIDE DEF p
  <2>3. ReqOK(p, ledger, Len(apps))
    BY <1>1, <2>1 DEF ReqOK, Confirming, ChainOps
  <2> QED
    BY <1>2, <2>1, <2>2, <2>3, QuietStep
<1> QED
  BY <1>3, <1>4 DEF Submit

\* The row a request looks up is sound, whatever happens to it afterwards.
LEMMA LookupStep ==
  ASSUME IInv, NEW r \in Requests, Lookup(r)
  PROVE  IInv'
<1> DEFINE q == req[r]
<1>1. /\ ReqOK(q, ledger, Len(apps)) /\ q.step = "lookup" /\ q \in Request
      /\ SoundIn(row, ledger, Len(apps)) /\ SoundIn(NoRow, ledger, Len(apps))
  BY Facts, NoRowIsSound DEF Lookup, ReqOK
<1>2. PICK kept \in {NoRow, row} : req' = [req EXCEPT ![r] =
                                     [req[r] EXCEPT !.step = "chain", !.base = kept]]
  BY DEF Lookup
<1>3. UNCHANGED <<chain, database>> /\ SoundIn(kept, ledger, Len(apps)) /\ kept \in Escrow
  BY <1>1 DEF Lookup, SoundIn
<1> DEFINE c == [q EXCEPT !.step = "chain"]
           p == [q EXCEPT !.step = "chain", !.base = kept]
<1>4. c \in Request /\ c.step = "chain" /\ c.op = q.op /\ c.escrow = q.escrow /\ c.app = q.app
  BY <1>1, StepIs DEF Steps
<1>5. p = [c EXCEPT !.base = kept]
  OBVIOUS
<1>a. req' = [req EXCEPT ![r] = p]
  BY <1>2
<1> HIDE DEF c, p
<1>6. /\ p \in Request /\ p.step = "chain" /\ p.op = q.op /\ p.escrow = q.escrow
      /\ p.base = kept /\ p.app = q.app
  BY <1>3, <1>4, <1>5 DEF Request
<1>7. ReqOK(p, ledger, Len(apps))
  BY <1>1, <1>3, <1>6 DEF ReqOK, Confirming
<1> QED
  BY <1>3, <1>a, <1>6, <1>7, QuietStep

\* What the ORM session shows of the row is sound: it is or was the row.
LEMMA SeenIsSound ==
  ASSUME IInv, NEW r \in Requests
  PROVE  SoundIn(Seen(r), ledger, Len(apps))
BY Facts DEF Seen, ReqOK

\* After anchoring, the confirmed release is recorded on what was loaded first.
LEMMA AnchorStep ==
  ASSUME IInv, NEW r \in Requests, Anchor(r)
  PROVE  IInv'
<1> DEFINE q == req[r]
<1>1. UNCHANGED <<chain, database>>
  BY DEF Anchor
<1>2. CASE End(r)
  BY <1>1, <1>2, EndStep
<1>3. CASE Record(r, q, q.escrow)
  <2>1. q.op \notin {"approve", "reject"} /\ q.step \in Confirming
    BY Facts DEF Anchor, Confirming, ReqOK, ChainOps, DeployOps, NoOpOps, PlainOps, WalletOps
  <2>2. Carries(q, ledger, Len(apps))
    BY <2>1, BackCarries, Facts
  <2>3. SoundIn(q.escrow, ledger, Len(apps))
    BY <2>2 DEF Carries
  <2> QED
    BY <1>1, <1>3, <2>2, <2>3, RecordIsOK, QuietStep, Facts
<1> QED
  BY <1>2, <1>3 DEF Anchor

\* record_pera_*: recorded on the row as the request sees it, or on a row made for it.
LEMMA RereadStep ==
  ASSUME IInv, NEW r \in Requests, Reread(r)
  PROVE  IInv'
<1> DEFINE q == req[r]
<1>1. UNCHANGED <<chain, database>>
  BY DEF Reread
<1>2. q.op \notin {"approve", "reject"} /\ q.step \in Confirming
  BY Facts DEF Reread, Confirming, ReqOK, ChainOps, DeployOps, NoOpOps, PlainOps, WalletOps
<1>3. Carries(q, ledger, Len(apps))
  BY <1>2, BackCarries, Facts
<1>4. CASE Seen(r) # NoRow
  <2>1. SoundIn(Load(Seen(r)), ledger, Len(apps))
    BY SeenIsSound, LoadIsSound
  <2>2. Record(r, q, Load(Seen(r)))
    BY <1>4 DEF Reread
  <2> QED
    BY <1>1, <1>3, <2>1, <2>2, RecordIsOK, QuietStep, Facts
<1>5. CASE End(r)
  BY <1>1, <1>5, EndStep
<1>6. CASE Seen(r) = NoRow /\ q.op \in DeployOps
  <2> DEFINE e == Deployed(NewEscrow("DEPLOYED"), q.app)
             c == [q EXCEPT !.step = "insert"]
             p == [q EXCEPT !.step = "insert", !.escrow = e]
  <2>1. SoundIn(NewEscrow("DEPLOYED"), ledger, Len(apps))
    BY NewIsSound DEF EscrowStatus
  <2>2. SoundIn(e, ledger, Len(apps)) /\ e \in Escrow
    <3>1. e = Recorded(q, NewEscrow("DEPLOYED"))
      BY <1>6 DEF Recorded, DeployOps, FundOps, ReleaseOps, RefundOps
    <3> QED
      BY <1>3, <2>1, <3>1, RecordedIsSound, Facts DEF SoundIn
  <2>3. req' = [req EXCEPT ![r] = p]
    BY <1>6 DEF Reread
  <2>4. c \in Request /\ c.step = "insert" /\ c.op = q.op /\ c.base = q.base /\ c.app = q.app
    BY <1>3, StepIs DEF Carries, Steps
  <2>5. p = [c EXCEPT !.escrow = e]
    OBVIOUS
  <2> HIDE DEF c, e
  <2>6. p \in Request /\ p.step = "insert" /\ p.op = q.op /\ p.base = q.base /\ p.app = q.app
        /\ p.escrow = e
    BY <2>2, <2>4, <2>5 DEF Request
  <2> HIDE DEF p
  <2>7. ReqOK(p, ledger, Len(apps))
    BY <1>3, <1>6, <2>2, <2>6 DEF Carries, ReqOK, Confirming
  <2> QED
    BY <1>1, <2>3, <2>6, <2>7, QuietStep
<1> QED
  BY <1>4, <1>5, <1>6 DEF Reread

\* Session.merge copies the row it sees into the request.
LEMMA MergeStep ==
  ASSUME IInv, NEW r \in Requests, Merge(r)
  PROVE  IInv'
<1> DEFINE q == req[r]
           c == [q EXCEPT !.base = Seen(r)]
           p == [q EXCEPT !.base = Seen(r), !.step = "flush"]
<1>1. ReqOK(q, ledger, Len(apps)) /\ q.step = "merge" /\ q \in Request /\ Seen(r) \in Escrow
  BY Facts, SeenIsSound DEF Merge, ReqOK, SoundIn
<1>2. UNCHANGED <<chain, database>> /\ req' = [req EXCEPT ![r] = p]
  BY DEF Merge
<1>3. c \in Request /\ c.op = q.op /\ c.escrow = q.escrow /\ c.base = Seen(r)
      /\ c.app = q.app /\ c.tx = q.tx
  BY <1>1 DEF Request
<1>4. p = [c EXCEPT !.step = "flush"]
  OBVIOUS
<1> HIDE DEF c, p
<1>5. /\ p \in Request /\ p.step = "flush" /\ p.op = q.op /\ p.escrow = q.escrow
      /\ p.base = Seen(r) /\ p.app = q.app /\ p.tx = q.tx
  BY <1>3, <1>4, StepIs DEF Steps
<1>6. ReqOK(p, ledger, Len(apps))
  BY <1>1, <1>5, SeenIsSound DEF ReqOK, Confirming
<1> QED
  BY <1>2, <1>5, <1>6, QuietStep

\* The commit: every column comes from the request or from the row, and a
\* settlement cites the release the request confirmed.
LEMMA FlushStep ==
  ASSUME IInv, NEW r \in Requests, Flush(r)
  PROVE  IInv'
<1> DEFINE q == req[r]
           p == [q EXCEPT !.step = "publish"]
           new == Store(q.escrow)
<1>1. ReqOK(q, ledger, Len(apps)) /\ q.step = "flush" /\ q \in Request
  BY Facts DEF Flush, ReqOK
<1>2. UNCHANGED chain /\ UNCHANGED <<audit, compliance>>
  BY DEF Flush
<1>3. SoundIn(row', ledger, Len(apps))
  <2>1. SoundIn(Merged(new, q.base, row), ledger, Len(apps))
    BY <1>1, StoreIsSound, MergedIsSound, Facts DEF ReqOK
  <2>2. row' = Merged(new, q.base, row) \/ row' = row
    BY DEF Flush
  <2> QED
    BY <2>1, <2>2, Facts
<1>4. q.op \in ReleaseOps => CitesIn(ledger, q.tx, {"release"})
  <2>1. SUFFICES ASSUME q.op \in ReleaseOps PROVE CitesIn(ledger, q.tx, {"release"})
    OBVIOUS
  <2>2. q.op \in ChainOps
    BY <2>1 DEF ReleaseOps, ChainOps, NoOpOps, WalletOps
  <2>3. CitesIn(ledger, q.tx, {CallKind(q.op)})
    BY <1>1, <2>1, <2>2, CallKindIs DEF ReqOK, Confirming
  <2> QED
    BY <2>1, <2>2, <2>3, CallKindIs
<1>5. settlements' = settlements \/ (q.op \in ReleaseOps /\ settlements' = settlements \cup {q.tx})
  BY DEF Flush
<1>6. \A t \in settlements' : CitesIn(ledger, t, {"release"})
  BY <1>4, <1>5 DEF IInv, DataInv
<1>7. PICK c : /\ ReqOK(c, ledger, Len(apps)) /\ req' = [req EXCEPT ![r] = c]
               /\ c.step = "publish" /\ c.op \in ReleaseOps => settlements' # {}
  <2>1. CASE End(r)
    <3>1. ReqOK(Idle, ledger, Len(apps)) /\ Idle.step # "publish"
      BY IdleIsOK, Facts DEF Idle
    <3> QED
      BY <2>1, <3>1 DEF End
  <2>2. CASE q.op \in Publishing /\ Goto(r, "publish") /\ new.status \in StorableStatus
    <3>1. /\ p \in Request /\ p.step = "publish" /\ p.op = q.op /\ p.escrow = q.escrow
          /\ p.base = q.base /\ p.app = q.app /\ p.tx = q.tx
      BY <1>1, StepIs DEF Steps
    <3>2. req' = [req EXCEPT ![r] = p]
      BY <2>2 DEF Goto
    <3>3. q.op \in ReleaseOps => q.tx \in settlements'
      BY <2>2 DEF Flush
    <3> HIDE DEF p
    <3>4. ReqOK(p, ledger, Len(apps))
      BY <1>1, <2>2, <3>1 DEF ReqOK, Confirming
    <3> QED
      BY <3>1, <3>2, <3>3, <3>4
  <2> QED
    BY <2>1, <2>2 DEF Flush
<1>8. ChainInv' /\ DataInv'
  BY <1>2, <1>3, <1>6, <1>7, DataStep
<1>9. PaperInv'
  <2>1. settlements \subseteq settlements'
    BY <1>5
  <2>2. PaperTrail'
    BY <1>2, <2>1 DEF IInv, PaperInv, PaperTrail, Happened, chain
  <2>3. \A s \in Requests : s # r => req'[s] = req[s]
    BY <1>7, Facts
  <2>4. req'[r].step = "publish" /\ req'[r].op \in ReleaseOps => settlements' # {}
    BY <1>7, Facts
  <2>5. \A s \in Requests : req'[s].step = "publish" /\ req'[s].op \in ReleaseOps
                               => settlements' # {}
    BY <2>1, <2>3, <2>4 DEF IInv, PaperInv
  <2> QED
    BY <1>2, <2>2, <2>5 DEF IInv, PaperInv
<1> QED
  BY <1>8, <1>9 DEF IInv

\* Publishing: the audit log names only what the ledger holds.
LEMMA PublishStep ==
  ASSUME IInv, NEW r \in Requests, Publish(r)
  PROVE  IInv'
<1> DEFINE q == req[r]
<1>1. ReqOK(q, ledger, Len(apps)) /\ q.step = "publish" /\ q.op \in Publishing
  BY Facts DEF Publish, ReqOK
<1>2. UNCHANGED chain /\ UNCHANGED <<row, settlements>> /\ req' = [req EXCEPT ![r] = Idle]
  BY DEF Publish, End
<1>3. ReqOK(Idle, ledger, Len(apps)) /\ Idle.step # "publish"
  BY IdleIsOK, Facts DEF Idle
<1>4. ChainInv' /\ DataInv'
  <2>1. SoundIn(row', ledger, Len(apps))
    BY <1>2, Facts
  <2>2. \A t \in settlements' : CitesIn(ledger, t, {"release"})
    BY <1>2 DEF IInv, DataInv
  <2> QED
    BY <1>2, <1>3, <2>1, <2>2, DataStep
<1>5. q.op \notin {"approve", "reject"} /\ q.op \in ChainOps
  BY <1>1 DEF Publishing, FundOps, ReleaseOps, RefundOps, ChainOps, DeployOps, NoOpOps,
              PlainOps, WalletOps
<1>6. CitesIn(ledger, q.tx, {CallKind(q.op)})
  BY <1>1, <1>5 DEF ReqOK, Confirming
<1>7. /\ q.op \in FundOps => Happened({"pay", "fund"})
      /\ q.op \in RefundOps => Happened({"refund"})
  BY <1>5, <1>6, CallKindIs DEF CitesIn, Happened
<1>8. q.op \in ReleaseOps => settlements # {}
  BY <1>1 DEF IInv, PaperInv
<1>9. /\ EventOf(q.op) \in EventTypes
      /\ EventOf(q.op) = "EscrowReleased" <=> q.op \in ReleaseOps
      /\ EventOf(q.op) = "EscrowFunded"   <=> q.op \in FundOps
      /\ EventOf(q.op) = "EscrowRefunded" <=> q.op \in RefundOps
  BY <1>1 DEF EventOf, EventTypes, Publishing, DeployOps, FundOps, ReleaseOps, RefundOps
<1>10. /\ audit' = audit \/ audit' = audit \cup {EventOf(q.op)}
       /\ compliance' \in BOOLEAN
       /\ compliance' => compliance \/ "EscrowReleased" \in audit'
  <2>1. CASE UNCHANGED <<audit, compliance>>
    BY <2>1 DEF IInv, PaperInv
  <2>2. CASE /\ audit' = audit \cup {EventOf(q.op)}
             /\ q.op \in ReleaseOps /\ compliance' \in {compliance, TRUE}
    BY <1>9, <2>2 DEF IInv, PaperInv
  <2>3. CASE /\ audit' = audit \cup {EventOf(q.op)}
             /\ q.op \notin ReleaseOps /\ compliance' \in {compliance}
    BY <2>3 DEF IInv, PaperInv
  <2> QED
    BY <2>1, <2>2, <2>3 DEF Publish
<1>11. PaperTrail'
  <2>1. (Happened({"pay", "fund"}) => Happened({"pay", "fund"})')
        /\ (Happened({"refund"}) => Happened({"refund"})')
    BY <1>2 DEF Happened, chain
  <2> QED
    BY <1>2, <1>7, <1>8, <1>9, <1>10, <2>1 DEF IInv, PaperInv, PaperTrail
<1>12. \A s \in Requests : req'[s].step = "publish" => req'[s] = req[s]
  BY <1>2, <1>3, Facts
<1> QED
  BY <1>2, <1>4, <1>9, <1>10, <1>11, <1>12 DEF IInv, PaperInv

(***************************************************************************)
(* Steps of the chain.                                                     *)
(***************************************************************************)

\* The fields of an application after each kind of call.
LEMMA AppEffects ==
  ASSUME NEW a \in App
  PROVE  /\ \A n \in Nat : /\ Credited(a, n) \in App
                           /\ Credited(a, n).kind = a.kind
                           /\ Credited(a, n).status = a.status
                           /\ Credited(a, n).toSeller = a.toSeller
         /\ \A x \in AppStatuses :
               /\ [a EXCEPT !.status = x] \in App
               /\ [a EXCEPT !.status = x].kind = a.kind
               /\ [a EXCEPT !.status = x].status = x
               /\ [a EXCEPT !.status = x].toSeller = a.toSeller
BY DEF Credited, App

\* An accepted fund(), for any program.
LEMMA FundEffect ==
  ASSUME NEW a \in App, NEW pay, pay.amount \in Nat
  PROVE  LET b == AppFunded(a, pay) IN
         /\ b \in App /\ b.kind = a.kind /\ b.toSeller = a.toSeller
         /\ b.status = (IF a.kind = "puya" THEN "FUNDED" ELSE a.status)
<1> DEFINE c == Credited(a, pay.amount)
<1>1. c \in App /\ c.kind = a.kind /\ c.status = a.status /\ c.toSeller = a.toSeller
  BY AppEffects
<1> HIDE DEF c
<1>2. LET d == [c EXCEPT !.status = "FUNDED"] IN
      d \in App /\ d.kind = c.kind /\ d.status = "FUNDED" /\ d.toSeller = c.toSeller
  BY <1>1, AppEffects DEF AppStatuses
<1>3. AppFunded(a, pay) = IF a.kind = "puya" THEN [c EXCEPT !.status = "FUNDED"] ELSE c
  BY DEF AppFunded, c
<1> QED
  BY <1>1, <1>2, <1>3

\* An accepted release(), for any program.
LEMMA ReleaseEffect ==
  ASSUME NEW a \in App, PayoutAccepted(a, TRUE)
  PROVE  LET b == AppReleased(a) IN
         /\ b \in App /\ b.kind = a.kind
         /\ a.kind = "puya" => b.status = "RELEASED" /\ b.toSeller = a.toSeller + Amount
         /\ a.kind # "puya" => b = a
<1> DEFINE s == [a EXCEPT !.status = "RELEASED"]
           t == [s EXCEPT !.balance = s.balance - Amount]
           u == [t EXCEPT !.toSeller = t.toSeller + Amount]
<1>1. CASE a.kind # "puya"
  BY <1>1 DEF AppReleased
<1>2. CASE a.kind = "puya"
  <2>1. a.balance \in Nat /\ a.toSeller \in Nat /\ a.balance - Amount \in Nat
        /\ a.toSeller + Amount \in Nat
    BY <1>2, AmountAssumption DEF PayoutAccepted, App
  <2>2. /\ s \in App /\ s.kind = a.kind /\ s.status = "RELEASED"
        /\ s.balance = a.balance /\ s.toSeller = a.toSeller
    BY DEF App, AppStatuses
  <2>3. /\ t \in App /\ t.kind = a.kind /\ t.status = "RELEASED" /\ t.toSeller = a.toSeller
    BY <2>1, <2>2 DEF App
  <2>4. /\ u \in App /\ u.kind = a.kind /\ u.status = "RELEASED"
        /\ u.toSeller = a.toSeller + Amount
    BY <2>1, <2>3 DEF App
  <2>5. AppReleased(a) = u
    BY <1>2 DEF AppReleased
  <2> HIDE DEF u
  <2> QED
    BY <1>2, <2>4, <2>5
<1> QED
  BY <1>1, <1>2

\* An accepted refund(), for any program.
LEMMA RefundEffect ==
  ASSUME NEW a \in App, PayoutAccepted(a, TRUE)
  PROVE  LET b == AppRefunded(a) IN
         /\ b \in App /\ b.kind = a.kind
         /\ a.kind = "puya" => b.status = "REFUNDED" /\ b.toSeller = a.toSeller
         /\ a.kind # "puya" => b = a
<1> DEFINE s == [a EXCEPT !.status = "REFUNDED"]
           t == [s EXCEPT !.balance = s.balance - Amount]
           u == [t EXCEPT !.toBuyer = t.toBuyer + Amount]
<1>1. CASE a.kind # "puya"
  BY <1>1 DEF AppRefunded
<1>2. CASE a.kind = "puya"
  <2>1. a.balance \in Nat /\ a.toBuyer \in Nat /\ a.balance - Amount \in Nat
        /\ a.toBuyer + Amount \in Nat
    BY <1>2, AmountAssumption DEF PayoutAccepted, App
  <2>2. /\ s \in App /\ s.kind = a.kind /\ s.status = "REFUNDED"
        /\ s.balance = a.balance /\ s.toSeller = a.toSeller /\ s.toBuyer = a.toBuyer
    BY DEF App, AppStatuses
  <2>3. /\ t \in App /\ t.kind = a.kind /\ t.status = "REFUNDED" /\ t.toSeller = a.toSeller
        /\ t.toBuyer = a.toBuyer
    BY <2>1, <2>2 DEF App
  <2>4. /\ u \in App /\ u.kind = a.kind /\ u.status = "REFUNDED" /\ u.toSeller = a.toSeller
    BY <2>1, <2>3 DEF App
  <2>5. AppRefunded(a) = u
    BY <1>2 DEF AppRefunded
  <2> HIDE DEF u
  <2> QED
    BY <1>2, <2>4, <2>5
<1> QED
  BY <1>1, <1>2

\* What a call of the backend that the chain accepts does to a CadenciaEscrow
\* contract: nothing, or one step forward, and it was called what it did.
LEMMA AfterIs ==
  ASSUME NEW a \in App, NEW op \in ChainOps \ DeployOps, Accepts(op, a)
  PROVE  LET b == After(op, a)
             k == CallKind(op)
         IN  /\ b \in App /\ b.kind = a.kind
             /\ a.kind = "puya" =>
                  \/ b.status = a.status /\ b.toSeller = a.toSeller /\ k \notin {"release", "refund"}
                  \/ /\ a.status = "DEPLOYED" /\ b.status = "FUNDED"
                     /\ b.toSeller = a.toSeller /\ k = "fund"
                  \/ /\ a.status = "FUNDED" /\ b.status = "RELEASED"
                     /\ b.toSeller = a.toSeller + Amount /\ k = "release"
                  \/ /\ a.status = "FUNDED" /\ b.status = "REFUNDED"
                     /\ b.toSeller = a.toSeller /\ k = "refund"
<1> USE DEF DeployOps, NoOpOps, PlainOps, WalletOps, ReleaseOps, RefundOps
<1> DEFINE pay == [receiver |-> "app", amount |-> Amount]
<1>1. CASE op \in PlainOps
  <2>1. After(op, a) = Credited(a, PlainAmount) /\ CallKind(op) = "pay"
    BY <1>1 DEF After, CallKind
  <2> QED
    BY <2>1, AppEffects, PlainAmountAssumption
<1>2. CASE op = "peraFund"
  <2>1. After(op, a) = AppFunded(a, pay) /\ CallKind(op) = "fund" /\ FundAccepted(a, pay)
    BY <1>2 DEF After, CallKind, Accepts
  <2>2. pay.amount \in Nat /\ (a.kind = "puya" => a.status = "DEPLOYED")
    BY <2>1, AmountAssumption DEF FundAccepted
  <2> HIDE DEF pay
  <2> QED
    BY <2>1, <2>2, FundEffect
<1>3. CASE op = "peraRelease"
  <2>1. After(op, a) = AppReleased(a) /\ CallKind(op) = "release" /\ PayoutAccepted(a, TRUE)
    BY <1>3 DEF After, CallKind, Accepts
  <2>2. a.kind = "puya" => a.status = "FUNDED"
    BY <2>1 DEF PayoutAccepted
  <2> QED
    BY <2>1, <2>2, ReleaseEffect
<1>4. CASE op = "peraRefund"
  <2>1. After(op, a) = AppRefunded(a) /\ CallKind(op) = "refund" /\ PayoutAccepted(a, TRUE)
    BY <1>4 DEF After, CallKind, Accepts
  <2>2. a.kind = "puya" => a.status = "FUNDED"
    BY <2>1 DEF PayoutAccepted
  <2> QED
    BY <2>1, <2>2, RefundEffect
<1>5. CASE op \in NoOpOps
  <2>1. After(op, a) = a /\ a.kind = "minimal"
    BY <1>5 DEF After, Accepts, NoOpAccepted
  <2> QED
    BY <2>1
<1> QED
  BY <1>1, <1>2, <1>3, <1>4, <1>5 DEF ChainOps

\* When the chain grows, what the database and the other requests cite stays.
LEMMA ChainDataStep ==
  ASSUME IInv, UNCHANGED database, NEW r \in Requests, NEW p,
         req' = [req EXCEPT ![r] = p],
         ReqOK(p, ledger', Len(apps')), p.step # "publish",
         NEW x \in Entry, ledger' = Append(ledger, x),
         apps' \in Seq(App), Len(apps) <= Len(apps'), ChainInv'
  PROVE  IInv'
<1>1. /\ Len(apps) \in Nat /\ Len(apps') \in Nat /\ ledger \in Seq(Entry)
      /\ req \in [Requests -> Request]
  BY Facts DEF IInv, ChainInv, DataInv
<1>2. SoundIn(row', ledger', Len(apps'))
  <2>1. SoundIn(row, Append(ledger, x), Len(apps'))
    BY <1>1, SoundForEver DEF IInv, DataInv
  <2> QED
    BY <2>1 DEF database
<1>3. \A t \in settlements' : CitesIn(ledger', t, {"release"})
  BY <1>1 DEF IInv, DataInv, CitesIn, database
<1>4. \A s \in Requests : ReqOK(req[s], ledger', Len(apps'))
  BY <1>1, ReqForEver DEF IInv, DataInv
<1>5. p \in Request
  BY DEF ReqOK
<1>6. DataInv'
  <2>1. req' \in [Requests -> Request]
    BY <1>1, <1>5
  <2>2. \A s \in Requests : ReqOK(req'[s], ledger', Len(apps'))
    BY <1>1, <1>4
  <2> QED
    BY <1>2, <1>3, <2>1, <2>2 DEF DataInv
<1>7. PaperTrail'
  <2>1. (Happened({"pay", "fund"}) => Happened({"pay", "fund"})')
        /\ (Happened({"refund"}) => Happened({"refund"})')
    BY <1>1 DEF Happened
  <2> QED
    BY <2>1 DEF IInv, PaperInv, PaperTrail, database
<1>8. \A s \in Requests : req'[s].step = "publish" => req'[s] = req[s]
  BY <1>1
<1> QED
  BY <1>6, <1>7, <1>8 DEF IInv, PaperInv, database

\* The same for a call that landed, whatever the gateway then answers.
LEMMA LandedStep ==
  ASSUME IInv, UNCHANGED database, NEW r \in Requests, NEW q, Answered(r, q),
         NEW x \in Entry, ledger' = Append(ledger, x),
         apps' \in Seq(App), Len(apps) <= Len(apps'), ChainInv',
         Carries(q, ledger', Len(apps'))
  PROVE  IInv'
<1>1. ledger' \in Seq(Entry) /\ Len(apps') \in Nat
  BY Facts
<1>2. \E p : /\ ReqOK(p, ledger', Len(apps')) /\ p.step # "publish"
             /\ req' = [req EXCEPT ![r] = p]
  <2> DEFINE L == ledger'
             n == Len(apps')
  <2>1. L \in Seq(Entry) /\ n \in Nat /\ Carries(q, L, n)
    BY <1>1
  <2> HIDE DEF L, n
  <2>2. \E p : ReqOK(p, L, n) /\ p.step # "publish" /\ req' = [req EXCEPT ![r] = p]
    BY <2>1, AnsweredIsOK
  <2> QED
    BY <2>2 DEF L, n
<1>3. PICK p : /\ ReqOK(p, ledger', Len(apps')) /\ p.step # "publish"
               /\ req' = [req EXCEPT ![r] = p]
  BY <1>2
<1> QED
  BY <1>3, ChainDataStep

\* A deployment: a new application, which nothing cites yet.
LEMMA CreateAppStep ==
  ASSUME IInv, NEW r \in Requests, CreateApp(r)
  PROVE  IInv'
<1> DEFINE n == Len(apps)
           k == Len(ledger)
           id == n + 1
           new == IF req[r].op = "peraDeploy" THEN Initialized ELSE MinimalApp
           x == [call |-> "deploy", app |-> id]
           c == [req[r] EXCEPT !.app = id]
           q == [req[r] EXCEPT !.app = id, !.tx = k + 1]
<1>1. /\ ReqOK(req[r], ledger, n) /\ req[r] \in Request /\ req[r].op \in DeployOps
      /\ n \in Nat /\ apps \in Seq(App) /\ ledger \in Seq(Entry) /\ k \in Nat
  <2>1. req[r].op \in DeployOps
    BY DEF CreateApp
  <2>2. ReqOK(req[r], ledger, n) /\ apps \in Seq(App) /\ ledger \in Seq(Entry)
    BY Facts
  <2>3. req[r] \in Request
    BY <2>2 DEF ReqOK
  <2> QED
    BY <2>1, <2>2, <2>3
<1>2. /\ apps' = Append(apps, new) /\ ledger' = Append(ledger, x)
      /\ Answered(r, q) /\ UNCHANGED database
  BY DEF CreateApp
<1>3. new \in App /\ new.toSeller = 0 /\ x \in Entry
  BY <1>1 DEF Initialized, MinimalApp, NewApp, App, AppKinds, AppStatuses, Entry, CallKinds
<1> HIDE DEF new
<1>4. /\ apps' \in Seq(App) /\ Len(apps') = n + 1 /\ Len(ledger') = k + 1
      /\ ledger' \in Seq(Entry)
      /\ \A i \in 1..n : apps'[i] = apps[i]
      /\ apps'[n + 1] = new
      /\ \A i \in 1..k : ledger'[i] = ledger[i]
      /\ ledger'[k + 1] = x
  BY <1>1, <1>2, <1>3
<1>5. ChainInv'
  <2>1. \A i \in 1..Len(ledger') : ledger'[i].app \in 1..Len(apps')
    BY <1>1, <1>4 DEF IInv, ChainInv
  <2>2. \A j \in 1..Len(apps') :
          apps'[j].kind = "puya" /\ apps'[j].status # "RELEASED" => apps'[j].toSeller = 0
    <3>1. \A j \in 1..n :
            apps[j].kind = "puya" /\ apps[j].status # "RELEASED" => apps[j].toSeller = 0
      BY DEF IInv, ChainInv
    <3>2. \A j \in 1..Len(apps') : j \in 1..n \/ j = n + 1
      BY <1>1, <1>4
    <3> HIDE DEF n, id
    <3> QED
      BY <1>3, <1>4, <3>1, <3>2
  <2>3. \A i \in 1..Len(ledger') :
          \/ i = k + 1 /\ ledger'[i].call = "deploy"
          \/ /\ i \in 1..k /\ ledger'[i] = ledger[i]
             /\ apps'[ledger'[i].app] = apps[ledger[i].app]
    BY <1>1, <1>4 DEF IInv, ChainInv
  <2>4. \A i \in 1..Len(ledger') : OnPuya(i)' =>
          /\ ledger'[i].call = "release" => /\ apps'[ledger'[i].app].status = "RELEASED"
                                            /\ apps'[ledger'[i].app].toSeller = Amount
          /\ ledger'[i].call = "refund"  => apps'[ledger'[i].app].status = "REFUNDED"
    BY <2>3 DEF IInv, ChainInv, OnPuya
  <2>5. \A i, j \in 1..Len(ledger') :
          /\ OnPuya(i)' /\ ledger'[i].app = ledger'[j].app
          /\ ledger'[i].call = "release" /\ ledger'[j].call = "release"
          => i = j
    BY <2>3 DEF IInv, ChainInv, OnPuya
  <2> QED
    BY <1>4, <2>1, <2>2, <2>4, <2>5 DEF ChainInv
<1>6. Carries(q, ledger', Len(apps'))
  <2>1. SoundIn(req[r].escrow, ledger', n + 1) /\ SoundIn(req[r].base, ledger', n + 1)
    BY <1>1, <1>2, <1>3, SoundForEver DEF ReqOK
  <2>2. c \in Request /\ c.app = id /\ c.op = req[r].op /\ c.escrow = req[r].escrow
        /\ c.base = req[r].base
    BY <1>1 DEF Request
  <2>3. q = [c EXCEPT !.tx = k + 1]
    OBVIOUS
  <2> HIDE DEF c
  <2>4. q \in Request /\ q.app = id /\ q.op = req[r].op /\ q.escrow = req[r].escrow
        /\ q.base = req[r].base /\ q.tx = k + 1
    BY <1>1, <2>2, <2>3 DEF Request
  <2> HIDE DEF q
  <2>5. CallKind(q.op) = "deploy"
    BY <1>1, <2>4 DEF CallKind, DeployOps, PlainOps, ReleaseOps, RefundOps
  <2>6. CitesIn(ledger', q.tx, {CallKind(q.op)})
    BY <1>1, <1>4, <2>4, <2>5 DEF CitesIn
  <2> QED
    BY <1>1, <1>4, <2>1, <2>4, <2>6 DEF Carries, ChainOps
<1>7. Len(apps) <= Len(apps')
  BY <1>1, <1>4
<1> HIDE DEF q, x
<1> QED
  BY <1>2, <1>3, <1>4, <1>5, <1>6, <1>7, LandedStep

\* An accepted call: the application takes the step that the entry names.
LEMMA CallAppStep ==
  ASSUME IInv, NEW r \in Requests, CallApp(r)
  PROVE  IInv'
<1> DEFINE op == req[r].op
           id == req[r].app
           n == Len(apps)
           k == Len(ledger)
           a == apps[id]
           b == After(op, a)
           x == [call |-> CallKind(op), app |-> id]
           c == [req[r] EXCEPT !.tx = k + 1]
<1>0. PICK root \in RootsFor(op) :
        Answered(r, [req[r] EXCEPT !.tx = k + 1, !.root = root])
  BY DEF CallApp
<1> DEFINE q == [req[r] EXCEPT !.tx = k + 1, !.root = root]
<1>1. /\ ReqOK(req[r], ledger, n) /\ req[r] \in Request /\ req[r].step = "chain"
      /\ op \in ChainOps \ DeployOps
      /\ n \in Nat /\ apps \in Seq(App) /\ ledger \in Seq(Entry) /\ k \in Nat
  <2>1. req[r].step = "chain" /\ op \notin DeployOps
    BY DEF CallApp
  <2>2. ReqOK(req[r], ledger, n) /\ apps \in Seq(App) /\ ledger \in Seq(Entry)
    BY Facts
  <2>3. req[r] \in Request /\ (req[r].step = "chain" => op \in ChainOps)
    BY <2>2 DEF ReqOK
  <2> QED
    BY <2>1, <2>2, <2>3
<1>2. /\ apps' = [apps EXCEPT ![id] = b] /\ ledger' = Append(ledger, x)
      /\ Answered(r, q) /\ UNCHANGED database /\ Accepts(op, a)
  BY <1>0 DEF CallApp
<1>3. id \in 1..n /\ a \in App
  BY <1>1 DEF ReqOK, NoApp
<1>4. /\ b \in App /\ b.kind = a.kind
      /\ a.kind = "puya" =>
           \/ b.status = a.status /\ b.toSeller = a.toSeller
              /\ CallKind(op) \notin {"release", "refund"}
           \/ /\ a.status = "DEPLOYED" /\ b.status = "FUNDED"
              /\ b.toSeller = a.toSeller /\ CallKind(op) = "fund"
           \/ /\ a.status = "FUNDED" /\ b.status = "RELEASED"
              /\ b.toSeller = a.toSeller + Amount /\ CallKind(op) = "release"
           \/ /\ a.status = "FUNDED" /\ b.status = "REFUNDED"
              /\ b.toSeller = a.toSeller /\ CallKind(op) = "refund"
  BY <1>1, <1>2, <1>3, AfterIs
<1>5. x \in Entry /\ CallKind(op) \in CallKinds
  BY <1>1, <1>3, CallKindIs DEF Entry
<1> HIDE DEF a, b
<1>6. /\ apps' \in Seq(App) /\ Len(apps') = n /\ Len(ledger') = k + 1
      /\ ledger' \in Seq(Entry)
      /\ \A i \in 1..n : i # id => apps'[i] = apps[i]
      /\ apps'[id] = b /\ apps[id] = a
      /\ \A i \in 1..k : ledger'[i] = ledger[i]
      /\ ledger'[k + 1] = x
  <2>1. apps' \in Seq(App) /\ Len(apps') = n
    BY <1>1, <1>2, <1>3, <1>4
  <2>2. (\A i \in 1..n : i # id => apps'[i] = apps[i]) /\ apps'[id] = b
    BY <1>1, <1>2, <1>3
  <2>3. /\ Len(ledger') = k + 1 /\ ledger' \in Seq(Entry)
        /\ \A i \in 1..k : ledger'[i] = ledger[i]
        /\ ledger'[k + 1] = x
    BY <1>1, <1>2, <1>5
  <2> QED
    BY <2>1, <2>2, <2>3 DEF a
<1>7. ChainInv'
  <2>1. \A i \in 1..Len(ledger') : ledger'[i].app \in 1..Len(apps')
    BY <1>1, <1>3, <1>6 DEF IInv, ChainInv
  <2>2. a.kind = "puya" /\ a.status # "RELEASED" => a.toSeller = 0
    BY <1>3, <1>6 DEF IInv, ChainInv
  <2>3. b.kind = "puya" /\ b.status # "RELEASED" => b.toSeller = 0
    BY <1>4, <2>2
  <2>4. \A j \in 1..Len(apps') :
          apps'[j].kind = "puya" /\ apps'[j].status # "RELEASED" => apps'[j].toSeller = 0
    BY <1>1, <1>6, <2>3 DEF IInv, ChainInv
  <2>5. \A i \in 1..k : OnPuya(i) =>
          /\ ledger[i].call = "release" => /\ apps[ledger[i].app].status = "RELEASED"
                                           /\ apps[ledger[i].app].toSeller = Amount
          /\ ledger[i].call = "refund"  => apps[ledger[i].app].status = "REFUNDED"
    BY DEF IInv, ChainInv
  <2>6. a.kind = "puya" /\ (\E i \in 1..k : ledger[i].app = id
                                            /\ ledger[i].call \in {"release", "refund"})
          => /\ a.status \in {"RELEASED", "REFUNDED"}
             /\ b.status = a.status /\ b.toSeller = a.toSeller
             /\ CallKind(op) \notin {"release", "refund"}
    BY <1>4, <1>6, <2>5 DEF OnPuya
  <2>7. b.kind = "puya" =>
          /\ CallKind(op) = "release" => b.status = "RELEASED" /\ b.toSeller = Amount
          /\ CallKind(op) = "refund"  => b.status = "REFUNDED"
    BY <1>4, <2>2, AmountAssumption
  <2>8. \A i \in 1..k : /\ ledger'[i] = ledger[i]
                        /\ ledger[i].app \in 1..n
                        /\ apps'[ledger[i].app].kind = apps[ledger[i].app].kind
    BY <1>4, <1>6 DEF IInv, ChainInv
  <2>9. \A i \in 1..Len(ledger') : OnPuya(i)' =>
          /\ ledger'[i].call = "release" => /\ apps'[ledger'[i].app].status = "RELEASED"
                                            /\ apps'[ledger'[i].app].toSeller = Amount
          /\ ledger'[i].call = "refund"  => apps'[ledger'[i].app].status = "REFUNDED"
    <3> SUFFICES ASSUME NEW i \in 1..Len(ledger'), OnPuya(i)'
                 PROVE  /\ ledger'[i].call = "release" =>
                             /\ apps'[ledger'[i].app].status = "RELEASED"
                             /\ apps'[ledger'[i].app].toSeller = Amount
                        /\ ledger'[i].call = "refund" =>
                             apps'[ledger'[i].app].status = "REFUNDED"
      OBVIOUS
    <3>1. CASE i = k + 1
      BY <1>6, <2>7, <3>1 DEF OnPuya
    <3>2. CASE i \in 1..k /\ ledger[i].app = id
      BY <1>4, <1>6, <2>5, <2>6, <2>8, <3>2 DEF OnPuya
    <3>3. CASE i \in 1..k /\ ledger[i].app # id
      BY <1>6, <2>5, <2>8, <3>3 DEF OnPuya
    <3> QED
      BY <1>1, <1>6, <3>1, <3>2, <3>3
  <2>10. \A i, j \in 1..Len(ledger') :
          /\ OnPuya(i)' /\ ledger'[i].app = ledger'[j].app
          /\ ledger'[i].call = "release" /\ ledger'[j].call = "release"
          => i = j
    <3> SUFFICES ASSUME NEW i \in 1..Len(ledger'), NEW j \in 1..Len(ledger'),
                        OnPuya(i)', ledger'[i].app = ledger'[j].app,
                        ledger'[i].call = "release", ledger'[j].call = "release"
                 PROVE  i = j
      OBVIOUS
    <3>1. CASE i \in 1..k /\ j \in 1..k
      BY <1>6, <2>8, <3>1 DEF IInv, ChainInv, OnPuya
    <3>2. CASE i = k + 1 /\ j \in 1..k
      <4>1. ledger[j].app = id /\ ledger[j].call = "release" /\ CallKind(op) = "release"
        BY <1>6, <3>2
      <4>2. a.kind = "puya"
        BY <1>4, <1>6, <3>2 DEF OnPuya
      <4> QED
        BY <2>6, <3>2, <4>1, <4>2
    <3>3. CASE i \in 1..k /\ j = k + 1
      <4>1. ledger[i].app = id /\ ledger[i].call = "release" /\ CallKind(op) = "release"
        BY <1>6, <3>3
      <4>2. a.kind = "puya"
        BY <1>4, <1>6, <3>3, <4>1 DEF OnPuya
      <4> QED
        BY <2>6, <3>3, <4>1, <4>2
    <3> QED
      BY <1>1, <1>6, <3>1, <3>2, <3>3
  <2> QED
    BY <1>6, <2>1, <2>4, <2>9, <2>10 DEF ChainInv
<1>8. Carries(q, ledger', Len(apps'))
  <2>1. SoundIn(req[r].escrow, ledger', n) /\ SoundIn(req[r].base, ledger', n)
    BY <1>1, <1>2, <1>5, SoundForEver DEF ReqOK
  <2>2. c \in Request /\ c.app = id /\ c.op = op /\ c.escrow = req[r].escrow
        /\ c.base = req[r].base /\ c.tx = k + 1
    BY <1>1 DEF Request
  <2>3. root \in Roots
    BY <1>0 DEF RootsFor, Roots
  <2>4. q = [c EXCEPT !.root = root]
    OBVIOUS
  <2> HIDE DEF c
  <2>5. q \in Request /\ q.app = id /\ q.op = op /\ q.escrow = req[r].escrow
        /\ q.base = req[r].base /\ q.tx = k + 1
    BY <2>2, <2>3, <2>4 DEF Request
  <2> HIDE DEF q
  <2>6. CitesIn(ledger', q.tx, {CallKind(q.op)})
    BY <1>1, <1>6, <2>5 DEF CitesIn
  <2> QED
    BY <1>1, <1>3, <1>6, <2>1, <2>5, <2>6 DEF Carries
<1>9. Len(apps) <= Len(apps')
  BY <1>1, <1>6
<1> HIDE DEF q, x
<1> QED
  BY <1>2, <1>5, <1>6, <1>7, <1>8, <1>9, LandedStep

(***************************************************************************)
(* The invariant and the theorems.                                         *)
(***************************************************************************)

\* Nothing has happened yet.
LEMMA InvInit == Init => IInv
<1> SUFFICES ASSUME Init PROVE IInv
  OBVIOUS
<1>1. ChainInv
  BY DEF Init, ChainInv
<1>2. ReqOK(Idle, <<>>, 0) /\ SoundIn(NoRow, <<>>, 0)
  BY IdleIsOK, NoRowIsSound
<1>3. DataInv
  BY <1>2 DEF Init, DataInv, ReqOK
<1>4. PaperInv
  BY DEF Init, PaperInv, PaperTrail, Idle
<1> QED
  BY <1>1, <1>3, <1>4 DEF IInv

\* Every step of every request preserves the invariant.
LEMMA InvStep == IInv /\ [Next]_vars => IInv'
<1> SUFFICES ASSUME IInv, [Next]_vars PROVE IInv'
  OBVIOUS
<1>1. ASSUME NEW r \in Requests, NEW op \in Operations, Begin(r, op) PROVE IInv'
  BY <1>1, BeginStep
<1>2. ASSUME NEW r \in Requests, NEW op \in Operations,
             BeginInsert(r, op) \/ BeginSignedDeploy(r, op) \/ Build(r, op)
      PROVE  IInv'
  BY <1>2, OtherBegins
<1>3. ASSUME NEW r \in Requests, Insert(r) PROVE IInv'
  BY <1>3, InsertStep
<1>4. ASSUME NEW r \in Requests, Submit(r) PROVE IInv'
  BY <1>4, SubmitStep
<1>4a. ASSUME NEW r \in Requests, Lookup(r) PROVE IInv'
  BY <1>4a, LookupStep
<1>5. ASSUME NEW r \in Requests, CreateApp(r) PROVE IInv'
  BY <1>5, CreateAppStep
<1>6. ASSUME NEW r \in Requests, CallApp(r) PROVE IInv'
  BY <1>6, CallAppStep
<1>7. ASSUME NEW r \in Requests, ChainFails(r) PROVE IInv'
  BY <1>7, EndStep DEF ChainFails
<1>8. ASSUME NEW r \in Requests, Anchor(r) PROVE IInv'
  BY <1>8, AnchorStep
<1>9. ASSUME NEW r \in Requests, Reread(r) PROVE IInv'
  BY <1>9, RereadStep
<1>10. ASSUME NEW r \in Requests, Merge(r) PROVE IInv'
  BY <1>10, MergeStep
<1>11. ASSUME NEW r \in Requests, Flush(r) PROVE IInv'
  BY <1>11, FlushStep
<1>12. ASSUME NEW r \in Requests, Publish(r) PROVE IInv'
  BY <1>12, PublishStep
<1>13. ASSUME NEW r \in Requests, Crash(r) PROVE IInv'
  BY <1>13, EndStep DEF Crash
<1>14. CASE UNCHANGED vars
  <2>1. UNCHANGED <<row, settlements, apps, ledger, audit, compliance, req>>
    BY <1>14 DEF vars
  <2> QED
    BY <2>1 DEF IInv, ChainInv, DataInv, PaperInv, PaperTrail, Happened, OnPuya
<1> QED
  BY <1>1, <1>2, <1>3, <1>4, <1>4a, <1>5, <1>6, <1>7, <1>8, <1>9, <1>10, <1>11, <1>12,
     <1>13, <1>14 DEF Next

\* The invariant holds in every state the service reaches.
LEMMA InvHolds == Spec => []IInv
BY InvInit, InvStep, PTL DEF Spec

\* Row, settlements, applications, ledger and requests always have their types.
THEOREM ServiceTypes == Spec => []TypeOK
<1>1. IInv => TypeOK
  <2> SUFFICES ASSUME IInv PROVE TypeOK
    OBVIOUS
  <2>1. row \in Escrow
    BY DEF IInv, DataInv, SoundIn
  <2>2. settlements \subseteq 1..Len(ledger)
    BY DEF IInv, DataInv, CitesIn
  <2> QED
    BY <2>1, <2>2 DEF IInv, DataInv, ChainInv, PaperInv, TypeOK, Entry
<1> QED
  BY <1>1, InvHolds, PTL

\* Whatever is lost, raced or overwritten, every transaction id in the database
\* is one the chain confirmed, for the operation the column is named after.
THEOREM TransactionsAreReal == Spec => []EveryTxIsReal
<1>1. IInv => EveryTxIsReal
  BY DEF IInv, DataInv, SoundIn, CitesIn, EveryTxIsReal, Cites
<1> QED
  BY <1>1, InvHolds, PTL

\* Compliance records never run ahead of the money.
THEOREM PaperFollowsMoney == Spec => []PaperTrail
<1>1. IInv => PaperTrail
  BY DEF IInv, PaperInv
<1> QED
  BY <1>1, InvHolds, PTL

\* On a CadenciaEscrow contract a settlement is recorded at most once, the seller
\* has the money then, and no row calls the contract refunded.
THEOREM ContractSettlements == Spec => []ContractSettlesOnce
<1>1. IInv => ContractSettlesOnce
  <2> SUFFICES ASSUME IInv, NEW t \in settlements, OnPuya(t)
               PROVE  /\ apps[ledger[t].app].status = "RELEASED"
                      /\ apps[ledger[t].app].toSeller = Amount
                      /\ \A u \in settlements : ledger[u].app = ledger[t].app => u = t
                      /\ row.refundTx # NoTx => ledger[row.refundTx].app # ledger[t].app
    BY DEF ContractSettlesOnce
  <2>1. \A u \in settlements : u \in 1..Len(ledger) /\ ledger[u].call = "release"
    BY DEF IInv, DataInv, CitesIn
  <2>2. row.refundTx # NoTx =>
          row.refundTx \in 1..Len(ledger) /\ ledger[row.refundTx].call = "refund"
    BY DEF IInv, DataInv, SoundIn, CitesIn
  <2>3. apps[ledger[t].app].status = "RELEASED" /\ apps[ledger[t].app].toSeller = Amount
    BY <2>1 DEF IInv, ChainInv
  <2>4. \A u \in settlements : ledger[u].app = ledger[t].app => u = t
    BY <2>1 DEF IInv, ChainInv
  <2>5. row.refundTx # NoTx => ledger[row.refundTx].app # ledger[t].app
    BY <2>2, <2>3 DEF IInv, ChainInv, OnPuya
  <2> QED
    BY <2>3, <2>4, <2>5
<1> QED
  BY <1>1, InvHolds, PTL

(***************************************************************************)
(* One request at a time.                                                  *)
(***************************************************************************)

\* What the guards of the aggregate rely on: FROZEN and the flag go together,
\* and whatever has been deployed has an application.
Coherent(e) ==
    /\ e.frozen <=> e.status = "FROZEN"
    /\ e.status \in {"DEPLOYED", "FUNDED", "FROZEN"} \cup Settled => e.app # NoApp

\* A request alone holds the row as it is, and has not found it settled.
AloneOK(q, rw) ==
    /\ q.step # "publish" => q.base \in {NoRow, rw}
    /\ q.step \in {"chain", "anchor"} /\ q.op \notin RereadOps => q.escrow = Load(rw)
    /\ q.step = "lookup" => q.op = "platformDeploy"
    /\ q.step = "anchor" => q.op = "release"
    /\ q.step = "reread" => q.op \in RereadOps
    /\ q.step = "chain" /\ q.op = "freeze" => rw.app # NoApp
    /\ q.step \in {"insert", "merge", "flush"} => Coherent(q.escrow)
    /\ q.step = "insert" => q.escrow.status # "RELEASED"
    /\ q.step \in {"merge", "flush"} =>
          /\ rw.status \notin Settled
          /\ q.op \in ReleaseOps => q.escrow.status = "RELEASED" /\ q.escrow.releaseTx = q.tx
          /\ q.op \notin ReleaseOps => q.escrow.status # "RELEASED"
    /\ q.step = "flush" => q.base = rw

RowOK(rw) == Coherent(Load(rw)) /\ (rw.frozen => rw.status = "FUNDED")

SerialInv ==
    /\ RowOK(row) /\ SettledOnce
    /\ \A r \in Requests : AloneOK(req[r], row)

\* What is stored of a coherent aggregate is loaded again as it was.
LEMMA LoadStore ==
  ASSUME NEW e \in Escrow, Coherent(e)
  PROVE  Load(Store(e)) = e /\ RowOK(Store(e)) /\ Store(e) \in Escrow
<1> DEFINE s == Store(e)
<1>1. s \in Escrow
  BY DEF Store, Escrow, EscrowStatus
<1>2. /\ s.status = IF e.status = "FROZEN" THEN "FUNDED" ELSE e.status
      /\ s.frozen = e.frozen
      /\ s.app = e.app /\ s.fundTx = e.fundTx /\ s.releaseTx = e.releaseTx
      /\ s.refundTx = e.refundTx /\ s.root = e.root
  BY DEF Store, Escrow, Coherent
<1>3. Load(s) \in Escrow
  BY <1>1 DEF Load, Escrow, EscrowStatus
<1>4. /\ Load(s).status = e.status /\ Load(s).frozen = e.frozen
      /\ Load(s).app = e.app /\ Load(s).fundTx = e.fundTx /\ Load(s).releaseTx = e.releaseTx
      /\ Load(s).refundTx = e.refundTx /\ Load(s).root = e.root
  <2> HIDE DEF s
  <2> QED
    BY <1>1, <1>2 DEF Load, Escrow, Coherent
<1>5. Load(s) = e
  <2> HIDE DEF s
  <2> QED
    BY <1>3, <1>4 DEF Escrow
<1> QED
  BY <1>1, <1>2, <1>5 DEF RowOK, Coherent

\* A merge into the row it was read from leaves what is merged.
LEMMA MergeAlone ==
  ASSUME NEW new \in Escrow, NEW rw \in Escrow
  PROVE  Merged(new, rw, rw) = new
BY DEF Merged, Escrow

\* A record_* method accepts no settled row, and leaves a coherent aggregate.
LEMMA RecordedAlone ==
  ASSUME NEW rw \in Escrow, RowOK(rw), NEW q, q.app \in Nat, q.app # NoApp, q.tx \in Nat,
         q.root \in Roots, q.op \in ChainOps, CanRecord(q.op, Load(rw)),
         q.op = "freeze" => rw.app # NoApp
  PROVE  LET d == Recorded(q, Load(rw)) IN
         /\ d \in Escrow /\ Coherent(d) /\ rw.status \notin Settled
         /\ q.op \in ReleaseOps => d.status = "RELEASED" /\ d.releaseTx = q.tx
         /\ q.op \notin ReleaseOps => d.status # "RELEASED"
<1> DEFINE e == Load(rw)
           d == Recorded(q, e)
<1>1. e \in Escrow /\ Coherent(e)
  BY DEF Load, Escrow, EscrowStatus, RowOK
<1>1a. e.app = rw.app
  BY DEF Load, Escrow
<1>2. e.status \notin Settled => rw.status \notin Settled
  BY DEF Load, Escrow, RowOK, Settled
<1> HIDE DEF e
<1> USE DEF CanRecord, Recorded, DeployOps, FundOps, ReleaseOps, RefundOps
<1>3. CASE q.op \in DeployOps
  <2>1. CanDeploy(e) /\ d = Deployed(e, q.app)
    BY <1>3 DEF e
  <2> HIDE DEF d
  <2> QED
    BY <1>1, <1>2, <1>3, <2>1 DEF CanDeploy, Deployed, Escrow, EscrowStatus, Coherent, Settled, e
<1>4. CASE q.op \in FundOps
  <2>1. CanFund(e) /\ d = Funded(e, q.tx)
    BY <1>4 DEF e
  <2> HIDE DEF d
  <2> QED
    BY <1>1, <1>2, <1>4, <2>1 DEF CanFund, Funded, Escrow, EscrowStatus, Coherent, Settled, e
<1>5. CASE q.op \in ReleaseOps
  <2>1. CanRelease(e) /\ d = Released(e, q.tx, q.root)
    BY <1>5 DEF e
  <2> HIDE DEF d
  <2> QED
    BY <1>1, <1>2, <1>5, <2>1 DEF CanRelease, Released, Escrow, EscrowStatus, Coherent, Settled, e
<1>6. CASE q.op \in RefundOps
  <2>1. CanRefund(e) /\ d = Refunded(e, q.tx)
    BY <1>6 DEF e
  <2> HIDE DEF d
  <2> QED
    BY <1>1, <1>2, <1>6, <2>1 DEF CanRefund, Refunded, Escrow, EscrowStatus, Coherent, Settled, e
<1>7. CASE q.op = "freeze"
  <2>1. CanFreeze(e) /\ d = Frozen(e)
    BY <1>7 DEF e
  <2> HIDE DEF d
  <2> QED
    BY <1>1, <1>1a, <1>2, <1>7, <2>1 DEF CanFreeze, Frozen, Escrow, EscrowStatus, Coherent, Settled, e
<1>8. CASE q.op = "unfreeze"
  <2>1. CanUnfreeze(e) /\ d = Unfrozen(e)
    BY <1>8 DEF e
  <2> HIDE DEF d
  <2> QED
    BY <1>1, <1>2, <1>8, <2>1 DEF CanUnfreeze, Unfrozen, Escrow, EscrowStatus, Coherent, Settled, e
<1> HIDE DEF d
<1>9. QED
  BY <1>3, <1>4, <1>5, <1>6, <1>7, <1>8 DEF ChainOps, NoOpOps, PlainOps, WalletOps, d, e

\* What a request keeps when it goes on with the same call.
SameCall(p, q) == p.op = q.op /\ p.base = q.base /\ p.app = q.app /\ p.tx = q.tx

Recording(p, q, e) ==
    CanRecord(q.op, e) /\ p.escrow = Recorded(q, e) /\ p.step = "merge" /\ SameCall(p, q)

Going(p, q, step) == p.escrow = q.escrow /\ p.step = step /\ SameCall(p, q)

\* What Record makes of a request.
LEMMA HowRecorded ==
  ASSUME NEW r, NEW q \in Request, NEW e, Record(r, q, e)
  PROVE  \E p : /\ req' = [req EXCEPT ![r] = p]
                /\ p = Idle \/ Recording(p, q, e)
<1> DEFINE d == Recorded(q, e)
           p == [q EXCEPT !.escrow = d, !.step = "merge"]
<1>1. CASE CanRecord(q.op, e)
  <2>1. p.escrow = d /\ p.step = "merge" /\ SameCall(p, q)
    BY DEF Request, SameCall
  <2>2. req' = [req EXCEPT ![r] = p]
    BY <1>1 DEF Record
  <2> HIDE DEF p
  <2>3. QED
    BY <1>1, <2>1, <2>2 DEF Recording
<1>2. CASE ~CanRecord(q.op, e)
  BY <1>2 DEF Record, End
<1>3. QED
  BY <1>1, <1>2

\* What the answer to a call makes of a request.
LEMMA HowAnswered ==
  ASSUME NEW r, NEW q \in Request, Answered(r, q)
  PROVE  \E p : /\ req' = [req EXCEPT ![r] = p]
                /\ \/ p = Idle
                   \/ q.op \in RereadOps /\ Going(p, q, "reread")
                   \/ q.op = "release" /\ Going(p, q, "anchor")
                   \/ q.op \notin RereadOps /\ Recording(p, q, q.escrow)
<1>1. \A step : Going([q EXCEPT !.step = step], q, step)
  BY DEF Going, SameCall, Request
<1>2. QED
  BY <1>1, HowRecorded DEF Answered, End, Confirmed

\* Only r has moved, and to what fits the row.
LEMMA AloneStep ==
  ASSUME SerialInv, NEW r \in Requests, \A s \in Requests : s = r,
         req \in [Requests -> Request], NEW p, req' = [req EXCEPT ![r] = p],
         RowOK(row'), SettledOnce', AloneOK(p, row')
  PROVE  SerialInv'
BY DEF SerialInv

\* ... the row staying as it is.
LEMMA AloneQuiet ==
  ASSUME SerialInv, NEW r \in Requests, \A s \in Requests : s = r,
         req \in [Requests -> Request], NEW p, req' = [req EXCEPT ![r] = p],
         UNCHANGED <<row, settlements>>, AloneOK(p, row)
  PROVE  SerialInv'
<1>1. RowOK(row') /\ SettledOnce' /\ AloneOK(p, row')
  BY DEF SerialInv, SettledOnce
<1>2. QED
  BY <1>1, AloneStep

\* A request that ends has nothing left to do.
LEMMA IdleAlone == ASSUME NEW rw PROVE AloneOK(Idle, rw)
BY DEF AloneOK, Idle

\* An operation begins with the row.
LEMMA BeginAlone ==
  ASSUME IInv, SerialInv, NEW r \in Requests, \A s \in Requests : s = r,
         NEW op \in Operations, Begin(r, op)
  PROVE  SerialInv'
<1> DEFINE e == Load(row)
           step == CASE op \in {"approve", "reject"} -> "merge"
                     [] op = "platformDeploy"       -> "lookup"
                     [] OTHER                       -> "chain"
           d == CASE op = "approve" -> Approved(e)
                  [] op = "reject"  -> Rejected(e)
                  [] OTHER          -> e
           p == Fresh(op, step, d, e.app)
<1>1. req' = [req EXCEPT ![r] = p] /\ Admits(op, e) /\ UNCHANGED <<row, settlements>>
  BY FreshBoth DEF Begin, database
<1>2. row \in Escrow /\ RowOK(row) /\ req \in [Requests -> Request]
  BY Facts DEF SoundIn, SerialInv
<1>3. e \in Escrow /\ Coherent(e) /\ e.app = row.app
      /\ (e.status = "PENDING_APPROVAL" => row.status \notin Settled)
  BY <1>2 DEF Load, Escrow, EscrowStatus, RowOK, Settled
<1>4. AloneOK(p, row)
  <2> HIDE DEF e
  <2>1. CASE op \in {"approve", "reject"}
    <3>1. e.status = "PENDING_APPROVAL" /\ step = "merge"
      BY <1>1, <2>1 DEF Admits
    <3>2. d \in {[e EXCEPT !.status = "APPROVED"], [e EXCEPT !.status = "REJECTED"]}
      BY <2>1 DEF Approved, Rejected
    <3>3. Coherent(d) /\ d.status # "RELEASED"
      BY <1>3, <3>1, <3>2 DEF Coherent, Escrow, Settled
    <3>4. QED
      BY <1>3, <2>1, <3>1, <3>3 DEF AloneOK, Fresh, ReleaseOps
  <2>2. CASE op \notin {"approve", "reject"}
    <3>1. step \in {"lookup", "chain"} /\ d = e
      BY <2>2
    <3>2. op = "freeze" => e.app # NoApp
      BY <1>1 DEF Admits
    <3>3. step = "lookup" => op = "platformDeploy"
      BY <2>2
    <3>4. QED
      BY <1>3, <3>1, <3>2, <3>3 DEF AloneOK, Fresh, e
  <2>3. QED
    BY <2>1, <2>2
<1> HIDE DEF p
<1>5. QED
  BY <1>1, <1>2, <1>4, AloneQuiet

\* ... or without it.
LEMMA OtherBeginsAlone ==
  ASSUME IInv, SerialInv, NEW r \in Requests, \A s \in Requests : s = r,
         NEW op \in Operations, BeginInsert(r, op) \/ BeginSignedDeploy(r, op) \/ Build(r, op)
  PROVE  SerialInv'
<1>1. UNCHANGED <<row, settlements>> /\ req \in [Requests -> Request]
  BY Facts DEF BeginInsert, BeginSignedDeploy, Build, database
<1>2. CASE BeginInsert(r, op)
  <2> DEFINE p == Fresh(op, "insert", NewEscrow("PENDING_APPROVAL"), NoApp)
  <2>1. req' = [req EXCEPT ![r] = p]
    BY <1>2, FreshEscrow DEF BeginInsert
  <2>2. AloneOK(p, row)
    BY DEF AloneOK, Fresh, NewEscrow, Coherent, Settled
  <2> HIDE DEF p
  <2>3. QED
    BY <1>1, <2>1, <2>2, AloneQuiet
<1>3. CASE BeginSignedDeploy(r, op)
  <2> DEFINE p == Fresh(op, "chain", NoRow, NoApp)
  <2>1. req' = [req EXCEPT ![r] = p] /\ op = "peraDeploy"
    BY <1>3, FreshStep DEF BeginSignedDeploy
  <2>2. AloneOK(p, row)
    BY <2>1 DEF AloneOK, Fresh, RereadOps
  <2> HIDE DEF p
  <2>3. QED
    BY <1>1, <2>1, <2>2, AloneQuiet
<1>4. CASE Build(r, op)
  <2> DEFINE p == Fresh(op, "wallet", NoRow, Load(row).app)
  <2>0. [Idle EXCEPT !.op = op, !.step = "wallet", !.app = Load(row).app] = p
    BY FreshApp
  <2>1. req' = [req EXCEPT ![r] = p]
    BY <1>4, <2>0 DEF Build
  <2>2. AloneOK(p, row)
    BY DEF AloneOK, Fresh
  <2> HIDE DEF p
  <2>3. QED
    BY <1>1, <2>1, <2>2, AloneQuiet
<1>5. QED
  BY <1>2, <1>3, <1>4

\* A request that ends changes nothing.
LEMMA EndAlone ==
  ASSUME IInv, SerialInv, NEW r \in Requests, \A s \in Requests : s = r,
         UNCHANGED <<row, settlements>>, End(r)
  PROVE  SerialInv'
BY Facts, IdleAlone, AloneQuiet DEF End

\* The INSERT of a request alone meets no row.
LEMMA InsertAlone ==
  ASSUME IInv, SerialInv, NEW r \in Requests, \A s \in Requests : s = r, Insert(r)
  PROVE  SerialInv'
<1> DEFINE q == req[r]
           d == q.escrow
           p == IF q.op = "deploy" THEN [q EXCEPT !.step = "chain"] ELSE Idle
<1>1. q \in Request /\ d \in Escrow /\ req \in [Requests -> Request] /\ AloneOK(q, row)
      /\ q.step = "insert"
  BY Facts DEF ReqOK, SoundIn, Insert, SerialInv
<1>2. CASE row # NoRow
  BY <1>2, EndAlone DEF Insert
<1>3. CASE row = NoRow
  <2>1. row' = Store(d) /\ UNCHANGED settlements
    BY <1>3 DEF Insert
  <2>2. req' = [req EXCEPT ![r] = p]
    <3>1. CASE q.op = "deploy"
      <4>1. req' = [req EXCEPT ![r].step = "chain"]
        BY <1>3, <3>1 DEF Insert, Goto
      <4>2. QED
        BY <1>1, <3>1, <4>1
    <3>2. CASE q.op # "deploy"
      BY <1>3, <3>2 DEF Insert, End
    <3>3. QED
      BY <3>1, <3>2
  <2>3. Coherent(d) /\ d.status # "RELEASED"
    BY <1>1 DEF AloneOK
  <2>4. Load(row') = d /\ RowOK(row') /\ row'.status # "RELEASED"
    <3>1. Load(Store(d)) = d /\ RowOK(Store(d)) /\ Store(d) \in Escrow
      BY <1>1, <2>3, LoadStore
    <3>2. Store(d).status # "RELEASED"
      BY <1>1, <2>3 DEF Store, Escrow
    <3>3. QED
      BY <2>1, <3>1, <3>2
  <2>5. SettledOnce'
    BY <1>3, <2>1, <2>4 DEF SettledOnce, SerialInv, NoRow, NewEscrow
  <2>6. AloneOK(p, row')
    <3>1. CASE q.op = "deploy"
      <4>1. Going(p, q, "chain")
        BY <1>1, <3>1 DEF Going, SameCall, Request
      <4>2. q.base = NoRow
        BY <1>1, <1>3 DEF AloneOK
      <4> HIDE DEF p
      <4>3. QED
        BY <2>4, <3>1, <4>1, <4>2 DEF AloneOK, Going, SameCall
    <3>2. CASE q.op # "deploy"
      BY <3>2, IdleAlone
    <3>3. QED
      BY <3>1, <3>2
  <2> HIDE DEF p
  <2>7. QED
    BY <1>1, <2>2, <2>4, <2>5, <2>6, AloneStep
<1>4. QED
  BY <1>2, <1>3

\* Looking the row up, or going from the wallet to the chain, holds nothing old.
LEMMA ReadsAlone ==
  ASSUME IInv, SerialInv, NEW r \in Requests, \A s \in Requests : s = r, Lookup(r) \/ Submit(r)
  PROVE  SerialInv'
<1> DEFINE q == req[r]
<1>1. /\ q \in Request /\ req \in [Requests -> Request] /\ AloneOK(q, row)
      /\ ReqOK(q, ledger, Len(apps))
      /\ UNCHANGED <<row, settlements>>
  BY Facts DEF ReqOK, Lookup, Submit, SerialInv, database
<1>2. CASE Lookup(r)
  <2>1. PICK kept \in {NoRow, row} : req' = [req EXCEPT ![r] = [q EXCEPT !.step = "chain", !.base = kept]]
    BY <1>2 DEF Lookup
  <2> DEFINE p == [q EXCEPT !.step = "chain", !.base = kept]
  <2>2. p.step = "chain" /\ p.base = kept /\ p.op = q.op /\ p.escrow = q.escrow
    BY <1>1 DEF Request
  <2>3. q.op = "platformDeploy"
    BY <1>1, <1>2 DEF Lookup, AloneOK
  <2> HIDE DEF p
  <2>4. AloneOK(p, row)
    BY <1>1, <2>2, <2>3 DEF AloneOK, RereadOps
  <2>5. QED
    BY <1>1, <2>1, <2>4, AloneQuiet DEF p
<1>3. CASE Submit(r) /\ ~End(r)
  <2> DEFINE p == [q EXCEPT !.step = "chain"]
  <2>1. req' = [req EXCEPT ![r].step = "chain"] /\ q.step = "wallet"
    BY <1>3 DEF Submit, Goto
  <2>2. req' = [req EXCEPT ![r] = p]
    BY <1>1, <2>1
  <2>3. Going(p, q, "chain")
    BY <1>1 DEF Going, SameCall, Request
  <2>4. q.op \in WalletOps
    BY <1>1, <2>1 DEF ReqOK
  <2> HIDE DEF p
  <2>5. AloneOK(p, row)
    BY <1>1, <2>1, <2>3, <2>4 DEF AloneOK, RereadOps, Going, SameCall, WalletOps
  <2>6. QED
    BY <1>1, <2>2, <2>5, AloneQuiet
<1>4. QED
  BY <1>1, <1>2, <1>3, EndAlone DEF Submit

\* Recording on the row as it is leaves an aggregate that may be merged.
LEMMA RecordAlone ==
  ASSUME NEW rw \in Escrow, RowOK(rw), NEW q \in Request, NEW p,
         q.base \in {NoRow, rw}, q.op \in ChainOps, q.app # NoApp,
         q.op = "freeze" => rw.app # NoApp, Recording(p, q, Load(rw))
  PROVE  AloneOK(p, rw)
<1> DEFINE d == Recorded(q, Load(rw))
<1>1. /\ Coherent(d) /\ rw.status \notin Settled
      /\ q.op \in ReleaseOps => d.status = "RELEASED" /\ d.releaseTx = q.tx
      /\ q.op \notin ReleaseOps => d.status # "RELEASED"
  BY RecordedAlone DEF Recording, Request
<1>2. p.escrow = d /\ p.step = "merge" /\ SameCall(p, q)
  BY DEF Recording
<1> HIDE DEF d
<1>3. QED
  BY <1>1, <1>2 DEF AloneOK, SameCall

\* An answer to a call on the row as it is.
LEMMA AnsweredAlone ==
  ASSUME IInv, SerialInv, NEW r \in Requests, \A s \in Requests : s = r,
         NEW q \in Request, AloneOK(q, row), q.step = "chain", q.op \in ChainOps, q.app # NoApp,
         UNCHANGED <<row, settlements>>, Answered(r, q)
  PROVE  SerialInv'
<1>1. PICK p : /\ req' = [req EXCEPT ![r] = p]
               /\ \/ p = Idle
                  \/ q.op \in RereadOps /\ Going(p, q, "reread")
                  \/ q.op = "release" /\ Going(p, q, "anchor")
                  \/ q.op \notin RereadOps /\ Recording(p, q, q.escrow)
  BY HowAnswered
<1>2. row \in Escrow /\ RowOK(row) /\ req \in [Requests -> Request]
  BY Facts DEF SoundIn, SerialInv
<1>3. AloneOK(p, row)
  <2>1. CASE p = Idle
    BY <2>1, IdleAlone
  <2>2. CASE q.op \in RereadOps /\ Going(p, q, "reread")
    BY <2>2 DEF AloneOK, Going, SameCall
  <2>3. CASE q.op = "release" /\ Going(p, q, "anchor")
    BY <2>3 DEF AloneOK, Going, SameCall, RereadOps, WalletOps
  <2>4. CASE q.op \notin RereadOps /\ Recording(p, q, q.escrow)
    <3>1. q.escrow = Load(row) /\ q.base \in {NoRow, row} /\ (q.op = "freeze" => row.app # NoApp)
      BY <2>4 DEF AloneOK
    <3>2. QED
      BY <1>2, <2>4, <3>1, RecordAlone
  <2>5. QED
    BY <1>1, <2>1, <2>2, <2>3, <2>4
<1>4. QED
  BY <1>1, <1>2, <1>3, AloneQuiet

\* The chain is not the row.
LEMMA ChainAlone ==
  ASSUME IInv, SerialInv, NEW r \in Requests, \A s \in Requests : s = r,
         CreateApp(r) \/ CallApp(r)
  PROVE  SerialInv'
<1> DEFINE q == req[r]
<1>1. /\ q \in Request /\ AloneOK(q, row) /\ ReqOK(q, ledger, Len(apps))
      /\ Len(apps) \in Nat /\ Len(ledger) \in Nat /\ q.step = "chain"
      /\ UNCHANGED <<row, settlements>>
  <2>1. /\ q \in Request /\ AloneOK(q, row) /\ ReqOK(q, ledger, Len(apps))
        /\ apps \in Seq(App) /\ ledger \in Seq(Entry)
    BY Facts DEF ReqOK, SerialInv
  <2>2. q.step = "chain" /\ UNCHANGED <<row, settlements>>
    BY DEF CreateApp, CallApp, database
  <2>3. QED
    BY <2>1, <2>2
<1>2. q.op \in ChainOps /\ (q.op \notin DeployOps => q.app # NoApp)
  BY <1>1 DEF ReqOK
<1>3. CASE CreateApp(r)
  <2>1. PICK id \in Nat, tx \in Nat : id = Len(apps) + 1 /\ tx = Len(ledger) + 1
    BY <1>1
  <2> DEFINE p == [q EXCEPT !.app = id, !.tx = tx]
  <2>2. Answered(r, p)
    BY <1>3, <2>1 DEF CreateApp
  <2>2a. id # NoApp
    BY <1>1, <2>1 DEF NoApp
  <2>2b. p \in Request /\ p.app # NoApp /\ p.op = q.op /\ p.step = q.step
         /\ p.escrow = q.escrow /\ p.base = q.base
    BY <1>1, <2>2a DEF Request
  <2> HIDE DEF p
  <2>3. AloneOK(p, row)
    BY <1>1, <2>2b DEF AloneOK
  <2>4. QED
    BY <1>1, <1>2, <2>2, <2>2b, <2>3, AnsweredAlone
<1>4. CASE CallApp(r)
  <2>1. PICK tx \in Nat : tx = Len(ledger) + 1
    BY <1>1
  <2>2. PICK root \in RootsFor(q.op) : Answered(r, [q EXCEPT !.tx = tx, !.root = root])
    BY <1>4, <2>1 DEF CallApp
  <2> DEFINE p == [q EXCEPT !.tx = tx, !.root = root]
  <2>2a. root \in Roots
    BY DEF RootsFor, Roots
  <2>3. p \in Request /\ p.app = q.app /\ p.op = q.op /\ p.step = q.step /\ p.escrow = q.escrow
        /\ p.base = q.base
    BY <1>1, <2>2a DEF Request
  <2>4. q.op \notin DeployOps
    BY <1>4 DEF CallApp
  <2> HIDE DEF p
  <2>5. AloneOK(p, row)
    BY <1>1, <2>3 DEF AloneOK
  <2>6. QED
    BY <1>1, <1>2, <2>2, <2>3, <2>4, <2>5, AnsweredAlone DEF p
<1>5. QED
  BY <1>3, <1>4

\* After the anchoring, or the second reading.
LEMMA RecordsAlone ==
  ASSUME IInv, SerialInv, NEW r \in Requests, \A s \in Requests : s = r,
         Anchor(r) \/ Reread(r)
  PROVE  SerialInv'
<1> DEFINE q == req[r]
<1>1. /\ q \in Request /\ AloneOK(q, row) /\ ReqOK(q, ledger, Len(apps))
      /\ UNCHANGED <<row, settlements>> /\ req \in [Requests -> Request]
      /\ row \in Escrow /\ RowOK(row)
  <2>1. UNCHANGED <<row, settlements>>
    BY DEF Anchor, Reread, database
  <2>2. QED
    BY <2>1, Facts DEF ReqOK, SerialInv, SoundIn
<1>2. q.step \in {"anchor", "reread"}
  BY DEF Anchor, Reread
<1>3. q.op \in ChainOps /\ q.app # NoApp
  BY <1>1, <1>2 DEF ReqOK, Confirming, ChainOps, DeployOps, NoOpOps, PlainOps, WalletOps
<1>4. ASSUME Record(r, q, Load(row)), q.op # "freeze"
      PROVE  SerialInv'
  <2>1. PICK p : req' = [req EXCEPT ![r] = p] /\ (p = Idle \/ Recording(p, q, Load(row)))
    BY <1>1, <1>4, HowRecorded
  <2>2. q.base \in {NoRow, row}
    BY <1>1, <1>2 DEF AloneOK
  <2>3. AloneOK(p, row)
    BY <1>1, <1>3, <1>4, <2>1, <2>2, RecordAlone, IdleAlone
  <2>4. QED
    BY <1>1, <2>1, <2>3, AloneQuiet
<1>5. CASE Anchor(r)
  <2>1. q.op = "release" /\ q.escrow = Load(row)
    BY <1>1, <1>5 DEF AloneOK, Anchor, RereadOps, WalletOps
  <2>2. QED
    BY <1>1, <1>4, <1>5, <2>1, EndAlone DEF Anchor
<1>6. CASE Reread(r)
  <2>1. q.op \in RereadOps
    BY <1>1, <1>6 DEF AloneOK, Reread
  <2>2. CASE Seen(r) # NoRow
    <3>1. Seen(r) = row
      BY <1>1, <1>2, <2>2 DEF Seen, AloneOK
    <3>2. QED
      BY <1>4, <1>6, <2>1, <2>2, <3>1 DEF Reread, RereadOps, WalletOps
  <2>3. CASE Seen(r) = NoRow /\ q.op \notin DeployOps
    BY <1>1, <1>6, <2>3, EndAlone DEF Reread
  <2>4. CASE Seen(r) = NoRow /\ q.op \in DeployOps
    <3> DEFINE d == Deployed(NewEscrow("DEPLOYED"), q.app)
               p == [q EXCEPT !.step = "insert", !.escrow = d]
    <3>1. req' = [req EXCEPT ![r].step = "insert", ![r].escrow = d]
      BY <1>6, <2>4 DEF Reread
    <3>2. req' = [req EXCEPT ![r] = p]
      BY <1>1, <3>1
    <3>3. Coherent(d) /\ d.status # "RELEASED"
      BY <1>3 DEF Coherent, Deployed, NewEscrow, Settled
    <3>4. p.escrow = d /\ p.step = "insert" /\ SameCall(p, q)
      BY <1>1 DEF Request, SameCall
    <3> HIDE DEF p, d
    <3>5. AloneOK(p, row)
      BY <1>1, <1>2, <3>3, <3>4 DEF AloneOK, SameCall
    <3>6. QED
      BY <1>1, <3>2, <3>5, AloneQuiet
  <2>5. QED
    BY <2>2, <2>3, <2>4
<1>7. QED
  BY <1>5, <1>6

\* The merge holds the row.
LEMMA MergesAlone ==
  ASSUME IInv, SerialInv, NEW r \in Requests, \A s \in Requests : s = r, Merge(r)
  PROVE  SerialInv'
<1> DEFINE q == req[r]
           p == [q EXCEPT !.base = row, !.step = "flush"]
<1>1. q \in Request /\ AloneOK(q, row) /\ row \in Escrow /\ req \in [Requests -> Request]
  BY Facts DEF ReqOK, SoundIn, SerialInv
<1>2. q.step = "merge" /\ UNCHANGED <<row, settlements>>
      /\ req' = [req EXCEPT ![r].base = Seen(r), ![r].step = "flush"]
  BY DEF Merge, database
<1>3. Seen(r) = row
  BY <1>1, <1>2 DEF Seen, AloneOK
<1>4. req' = [req EXCEPT ![r] = p]
  BY <1>1, <1>2, <1>3
<1>5. p.base = row /\ p.step = "flush" /\ p.op = q.op /\ p.escrow = q.escrow /\ p.tx = q.tx
  BY <1>1 DEF Request
<1> HIDE DEF p
<1>6. AloneOK(p, row)
  BY <1>1, <1>2, <1>5 DEF AloneOK
<1>7. QED
  BY <1>1, <1>2, <1>4, <1>6, AloneQuiet

\* The UPDATE writes what was recorded, and the one settlement of a release.
LEMMA FlushAlone ==
  ASSUME IInv, SerialInv, NEW r \in Requests, \A s \in Requests : s = r, Flush(r)
  PROVE  SerialInv'
<1> DEFINE q == req[r]
           d == q.escrow
           p == IF q.op \in Publishing THEN [q EXCEPT !.step = "publish"] ELSE Idle
<1>1. /\ q \in Request /\ d \in Escrow /\ AloneOK(q, row) /\ row \in Escrow
      /\ req \in [Requests -> Request] /\ q.step = "flush"
  BY Facts DEF ReqOK, SoundIn, SerialInv, Flush, Request
<1>2. CASE Store(d).status \notin StorableStatus
  BY <1>2, EndAlone DEF Flush
<1>3. CASE Store(d).status \in StorableStatus
  <2>1. /\ row' = Merged(Store(d), q.base, row)
        /\ settlements' = IF q.op \in ReleaseOps THEN settlements \cup {q.tx} ELSE settlements
        /\ IF q.op \in Publishing THEN Goto(r, "publish") ELSE End(r)
    BY <1>3 DEF Flush
  <2>2. /\ Coherent(d) /\ q.base = row /\ q.base \in {NoRow, row} /\ row.status \notin Settled
        /\ q.op \in ReleaseOps => d.status = "RELEASED" /\ d.releaseTx = q.tx
        /\ q.op \notin ReleaseOps => d.status # "RELEASED"
    BY <1>1 DEF AloneOK
  <2>3. Load(Store(d)) = d /\ RowOK(Store(d)) /\ Store(d) \in Escrow
    BY <1>1, <2>2, LoadStore
  <2>4. row' = Store(d)
    BY <1>1, <2>1, <2>2, <2>3, MergeAlone
  <2>5. Store(d).releaseTx = d.releaseTx /\ (d.status = "RELEASED" <=> Store(d).status = "RELEASED")
    BY <1>1 DEF Store, Escrow
  <2>6. settlements = {}
    BY <2>2 DEF SerialInv, SettledOnce, Settled
  <2>7. SettledOnce'
    BY <2>1, <2>2, <2>4, <2>5, <2>6 DEF SettledOnce
  <2>8. req' = [req EXCEPT ![r] = p]
    BY <1>1, <2>1 DEF Goto, End
  <2>9. AloneOK(p, row')
    <3>1. CASE q.op \in Publishing
      <4>1. p = [q EXCEPT !.step = "publish"]
        BY <3>1
      <4>2. p.step = "publish"
        BY <1>1, <4>1 DEF Request
      <4> HIDE DEF p
      <4>3. QED
        BY <4>2 DEF AloneOK
    <3>2. CASE q.op \notin Publishing
      BY <3>2, IdleAlone
    <3>3. QED
      BY <3>1, <3>2
  <2> HIDE DEF p
  <2>10. QED
    BY <1>1, <2>3, <2>4, <2>7, <2>8, <2>9, AloneStep
<1>4. QED
  BY <1>2, <1>3

\* The invariant of one request at a time.
LEMMA SerialInvStep ==
  ASSUME \A r, s \in Requests : r = s
  PROVE  IInv /\ SerialInv /\ [Next]_vars => SerialInv'
<1> SUFFICES ASSUME IInv, SerialInv, [Next]_vars PROVE SerialInv'
  OBVIOUS
<1>1. ASSUME NEW r \in Requests, NEW op \in Operations,
             \/ Begin(r, op) \/ BeginInsert(r, op) \/ BeginSignedDeploy(r, op) \/ Build(r, op)
      PROVE  SerialInv'
  BY <1>1, BeginAlone, OtherBeginsAlone
<1>2. ASSUME NEW r \in Requests, Insert(r) \/ Lookup(r) \/ Submit(r) PROVE SerialInv'
  BY <1>2, InsertAlone, ReadsAlone
<1>3. ASSUME NEW r \in Requests, CreateApp(r) \/ CallApp(r) PROVE SerialInv'
  BY <1>3, ChainAlone
<1>4. ASSUME NEW r \in Requests, ChainFails(r) \/ Crash(r) \/ Publish(r) PROVE SerialInv'
  <2>1. UNCHANGED <<row, settlements>> /\ End(r)
    BY <1>4 DEF ChainFails, Crash, Publish, database
  <2>2. QED
    BY <2>1, EndAlone
<1>5. ASSUME NEW r \in Requests, Anchor(r) \/ Reread(r) PROVE SerialInv'
  BY <1>5, RecordsAlone
<1>6. ASSUME NEW r \in Requests, Merge(r) \/ Flush(r) PROVE SerialInv'
  BY <1>6, MergesAlone, FlushAlone
<1>7. CASE UNCHANGED vars
  BY <1>7 DEF vars, SerialInv, SettledOnce
<1>8. QED
  BY <1>1, <1>2, <1>3, <1>4, <1>5, <1>6, <1>7 DEF Next

\* At first there is no row.
LEMMA SerialInvInit == Init => SerialInv
<1> SUFFICES ASSUME Init PROVE SerialInv
  OBVIOUS
<1>1. RowOK(NoRow)
  BY DEF RowOK, NoRow, NewEscrow, Load, Coherent, Settled
<1>2. SettledOnce
  BY DEF Init, SettledOnce, NoRow, NewEscrow
<1>3. QED
  BY <1>1, <1>2, IdleAlone DEF Init, SerialInv

\* Served one after the other, a row is RELEASED exactly when it has its one
\* settlement, wherever requests crash and whatever the chain loses.
THEOREM SerialSettlesOnce ==
  ASSUME \A r, s \in Requests : r = s
  PROVE  Spec => []SettledOnce
<1>1. SerialInv => SettledOnce
  BY DEF SerialInv
<1>2. QED
  BY <1>1, InvHolds, SerialInvInit, SerialInvStep, PTL DEF Spec

\* ... and a row that is settled is never changed again.
THEOREM SettledRowIsFinal ==
  ASSUME \A r, s \in Requests : r = s
  PROVE  Spec => TerminalIsFinal
<1> DEFINE Final == row.status \in Settled => row' = row
<1>1. SerialInv /\ [Next]_vars => Final
  <2> SUFFICES ASSUME SerialInv, [Next]_vars, row' # row PROVE row.status \notin Settled
    OBVIOUS
  <2>1. PICK r \in Requests : Insert(r) \/ Flush(r)
    BY DEF Next, vars, Begin, BeginInsert, BeginSignedDeploy, Build, Lookup, Submit, CreateApp,
           CallApp, ChainFails, Anchor, Reread, Merge, Publish, Crash, database
  <2>2. CASE Insert(r)
    BY <2>2 DEF Insert, NoRow, NewEscrow, Settled
  <2>3. CASE Flush(r)
    BY <2>3 DEF Flush, SerialInv, AloneOK
  <2>4. QED
    BY <2>1, <2>2, <2>3
<1>2. Spec => []SerialInv
  BY InvHolds, SerialInvInit, SerialInvStep, PTL DEF Spec
<1>3. Spec => [][Final]_vars
  BY <1>1, <1>2, PTL DEF Spec
<1>4. QED
  BY <1>3, PTL DEF TerminalIsFinal

(***************************************************************************)
(* The Pera wallet's endpoints and the administrator's, concurrently.      *)
(***************************************************************************)
PeraOps == {"createPending", "approve", "reject", "freeze", "peraDeploy"} \cup WalletOps

\* What is recorded of a confirmed transaction.
CallOps == {"peraDeploy"} \cup WalletOps
Payouts == {"peraRelease", "peraRefund"}

Result(op) ==
    CASE op = "approve"     -> "APPROVED"
      [] op = "reject"      -> "REJECTED"
      [] op = "peraDeploy"  -> "DEPLOYED"
      [] op = "peraFund"    -> "FUNDED"
      [] op = "peraRelease" -> "RELEASED"
      [] op = "peraRefund"  -> "REFUNDED"

\* The first contract has come as far as a status says, or is not the only one.
Reached(status, A) ==
    Len(A) <= 1 /\ status \in {"FUNDED"} \cup Settled =>
       /\ Len(A) = 1
       /\ status = "FUNDED" => A[1].status \in {"FUNDED"} \cup Settled
       /\ status \in Settled => A[1].status = status

\* Nothing is ever frozen: these contracts refuse the backend's freeze.
Plain(e) == e.status # "FROZEN" /\ ~e.frozen

\* Between its confirmed transaction and the commit of it.
Pending(q) == q.op \in CallOps /\ q.step \in {"reread", "insert", "merge", "flush"}

SameKind(o, p) == o = p \/ (o \in Payouts /\ p \in Payouts)

\* e does not show yet what a call of this kind has done.
Unseen(o, e) ==
    /\ o = "peraDeploy" => e.app = NoApp
    /\ o = "peraFund" => e.status \notin {"FUNDED"} \cup Settled
    /\ o \in Payouts => e.status \notin Settled

\* Another request neither shows it nor has done the same.
Apart(o, s) ==
    /\ Unseen(o, s.escrow) /\ Unseen(o, s.base)
    /\ ~(Pending(s) /\ SameKind(o, s.op))
    /\ o = "peraDeploy" => s.app = NoApp

RowFits(rw, A) ==
    /\ Plain(rw) /\ Reached(rw.status, A)
    /\ rw.status = "ABSENT" => rw = NoRow
    /\ rw.status = "PENDING_APPROVAL" => rw.app = NoApp

PeraReq(q, rw, A) ==
    /\ q.op \in PeraOps \cup {"none"} /\ q.step \notin {"lookup", "anchor"}
    /\ Plain(q.escrow) /\ Reached(q.escrow.status, A) /\ Reached(q.base.status, A)
    /\ q.step \notin {"flush", "publish"} => q.base = NoRow
    /\ Pending(q) => q.app # NoApp /\ (q.op \in WalletOps => Reached(Result(q.op), A))
    /\ q.step = "reread" => q.op \in CallOps
    /\ q.step = "insert" => /\ q.op \in {"createPending", "peraDeploy"}
                            /\ q.escrow.status \in {"PENDING_APPROVAL", "DEPLOYED"}
                            /\ q.escrow.status = "PENDING_APPROVAL" => q.escrow.app = NoApp
    /\ q.step \in {"merge", "flush"} =>
          /\ rw.status # "ABSENT"
          /\ q.op \in {"approve", "reject"} \cup CallOps /\ q.escrow.status = Result(q.op)
          /\ q.op = "reject" => q.escrow.app = NoApp
    /\ q.step = "flush" /\ rw.status = "PENDING_APPROVAL" => q.base.status = "PENDING_APPROVAL"

\* What one request has done to the only contract shows nowhere but with itself,
\* until it is committed.
Sole(r, rq, rw, A) ==
    Len(A) = 1 /\ Pending(rq[r]) =>
       /\ Unseen(rq[r].op, rw)
       /\ rq[r].op = "peraDeploy" => A[1].status = "DEPLOYED"
       /\ \A s \in Requests \ {r} : Apart(rq[r].op, rq[s])

PeraInv ==
    /\ \A id \in 1..Len(apps) : apps[id].kind = "puya"
    /\ RowFits(row, apps)
    /\ \A r \in Requests : PeraReq(req[r], row, apps)
    /\ \A r \in Requests : Sole(r, req, row, apps)

\* What the one step of a request may not lose of another's claim to be alone.
Inherits(p, q, rw) ==
    /\ Pending(p) => Pending(q) /\ p.op = q.op
    /\ \A o \in CallOps : Unseen(o, rw) /\ Apart(o, q) => Apart(o, p)

\* A request with nothing to do fits any row and any chain.
LEMMA IdleFits ==
  ASSUME NEW rw, NEW A, NEW q
  PROVE  PeraReq(Idle, rw, A) /\ Inherits(Idle, q, rw)
<1>1. Idle.op = "none" /\ Idle.step = "idle" /\ Idle.escrow = NoRow /\ Idle.base = NoRow
      /\ Idle.app = NoApp
  BY DEF Idle
<1>2. NoRow.status = "ABSENT" /\ NoRow.app = NoApp /\ ~NoRow.frozen
  BY DEF NoRow, NewEscrow
<1>3. PeraReq(Idle, rw, A)
  BY <1>1, <1>2 DEF PeraReq, Plain, Reached, Settled, Pending
<1>4. Inherits(Idle, q, rw)
  BY <1>1, <1>2 DEF Inherits, Apart, Unseen, Settled, Pending, CallOps, WalletOps, Payouts
<1>5. QED
  BY <1>3, <1>4

\* Nothing is FROZEN, so rows and aggregates are the same records.
LEMMA PlainIsSame ==
  ASSUME NEW e \in Escrow, Plain(e)
  PROVE  Load(e) = e /\ Store(e) = e
BY DEF Plain, Load, Store, Escrow

\* Only r has moved, the row and the chain are as they were.
LEMMA PeraQuiet ==
  ASSUME PeraInv, req \in [Requests -> Request], NEW r \in Requests, NEW p,
         req' = [req EXCEPT ![r] = p], UNCHANGED <<row, apps>>,
         PeraReq(p, row, apps), Inherits(p, req[r], row)
  PROVE  PeraInv'
<1>1. req'[r] = p /\ \A s \in Requests \ {r} : req'[s] = req[s]
  OBVIOUS
<1>2. \A s \in Requests : PeraReq(req'[s], row, apps)
  BY <1>1 DEF PeraInv
<1>3. ASSUME NEW s \in Requests PROVE Sole(s, req', row, apps)
  <2> SUFFICES ASSUME Len(apps) = 1, Pending(req'[s])
               PROVE  /\ Unseen(req'[s].op, row)
                      /\ req'[s].op = "peraDeploy" => apps[1].status = "DEPLOYED"
                      /\ \A t \in Requests \ {s} : Apart(req'[s].op, req'[t])
    BY DEF Sole
  <2>1. Pending(req[s]) /\ req'[s].op = req[s].op /\ req[s].op \in CallOps
    BY <1>1 DEF Inherits, Pending
  <2>2. /\ Unseen(req[s].op, row)
        /\ req[s].op = "peraDeploy" => apps[1].status = "DEPLOYED"
        /\ \A t \in Requests \ {s} : Apart(req[s].op, req[t])
    BY <2>1 DEF PeraInv, Sole
  <2>3. \A t \in Requests \ {s} : Apart(req[s].op, req'[t])
    BY <1>1, <2>1, <2>2 DEF Inherits
  <2>4. QED
    BY <2>1, <2>2, <2>3
<1>4. QED
  BY <1>2, <1>3 DEF PeraInv

\* A request that ends.
LEMMA PeraEnd ==
  ASSUME IInv, PeraInv, NEW r \in Requests, UNCHANGED <<row, apps>>, End(r)
  PROVE  PeraInv'
BY Facts, IdleFits, PeraQuiet DEF End

\* What the invariants say of one request and of the row.
LEMMA PeraFacts ==
  ASSUME IInv, PeraInv, NEW r \in Requests
  PROVE  LET q == req[r] IN
         /\ q \in Request /\ ReqOK(q, ledger, Len(apps)) /\ PeraReq(q, row, apps)
         /\ req \in [Requests -> Request]
         /\ row \in Escrow /\ Load(row) = row /\ RowFits(row, apps)
         /\ q.escrow \in Escrow /\ Store(q.escrow) = q.escrow
<1>1. row \in Escrow /\ Plain(row) /\ RowFits(row, apps)
  BY Facts DEF SoundIn, PeraInv, RowFits
<1>2. req[r] \in Request /\ PeraReq(req[r], row, apps) /\ ReqOK(req[r], ledger, Len(apps))
  BY Facts DEF PeraInv, ReqOK
<1>3. req[r].escrow \in Escrow /\ Plain(req[r].escrow)
  BY <1>2 DEF PeraReq, Request
<1>4. QED
  BY <1>1, <1>2, <1>3, PlainIsSame, Facts

\* An operation begins with the row.
LEMMA PeraBegins ==
  ASSUME IInv, PeraInv, Operations \subseteq PeraOps, NEW r \in Requests,
         NEW op \in Operations, Begin(r, op)
  PROVE  PeraInv'
<1> DEFINE step == CASE op \in {"approve", "reject"} -> "merge"
                     [] op = "platformDeploy"       -> "lookup"
                     [] OTHER                       -> "chain"
           d == CASE op = "approve" -> Approved(row)
                  [] op = "reject"  -> Rejected(row)
                  [] OTHER          -> row
           p == Fresh(op, step, d, row.app)
<1>1. row \in Escrow /\ Load(row) = row /\ RowFits(row, apps) /\ req \in [Requests -> Request]
  BY PeraFacts
<1>2. req' = [req EXCEPT ![r] = p] /\ Admits(op, row) /\ UNCHANGED <<row, apps>> /\ row # NoRow
  BY <1>1, FreshBoth DEF Begin, database, chain
<1>3. row.status # "ABSENT"
  BY <1>1, <1>2 DEF RowFits
<1>4. p.op = op /\ p.step = step /\ p.escrow = d /\ p.app = row.app /\ p.base = NoRow
  BY DEF Fresh
<1>5. CASE op \in {"approve", "reject"}
  <2>1. row.status = "PENDING_APPROVAL" /\ row.app = NoApp /\ step = "merge"
    BY <1>1, <1>2, <1>5 DEF Admits, RowFits
  <2>2. d.status = Result(op) /\ d.app = NoApp /\ d.frozen = row.frozen
        /\ d.status \in {"APPROVED", "REJECTED"}
    BY <1>1, <1>5, <2>1 DEF Approved, Rejected, Escrow, Result
  <2> HIDE DEF p, d, step
  <2>3. PeraReq(p, row, apps)
    BY <1>1, <1>3, <1>4, <1>5, <2>1, <2>2
       DEF PeraReq, RowFits, Plain, Reached, Pending, PeraOps, CallOps, WalletOps, Settled,
           NoRow, NewEscrow
  <2>4. Inherits(p, req[r], row)
    BY <1>4, <1>5, <2>1, <2>2
       DEF Inherits, Apart, Unseen, Pending, CallOps, WalletOps, Payouts, Settled, NoRow, NewEscrow
  <2>5. QED
    BY <1>1, <1>2, <2>3, <2>4, PeraQuiet
<1>6. CASE op \notin {"approve", "reject"}
  <2>1. d = row /\ step = "chain"
    BY <1>6 DEF PeraOps, WalletOps
  <2> HIDE DEF p, d, step
  <2>2. PeraReq(p, row, apps)
    BY <1>1, <1>3, <1>4, <1>6, <2>1
       DEF PeraReq, RowFits, Pending, Reached, Settled, NoRow, NewEscrow
  <2>3. Inherits(p, req[r], row)
    BY <1>4, <1>6, <2>1
       DEF Inherits, Apart, Unseen, Pending, CallOps, WalletOps, Payouts, Settled, NoRow, NewEscrow
  <2>4. QED
    BY <1>1, <1>2, <2>2, <2>3, PeraQuiet
<1>7. QED
  BY <1>5, <1>6

\* A wallet or a new row: neither holds anything yet.
LEMMA PeraOtherBegins ==
  ASSUME IInv, PeraInv, Operations \subseteq PeraOps, NEW r \in Requests, NEW op \in Operations,
         BeginInsert(r, op) \/ BeginSignedDeploy(r, op) \/ Build(r, op)
  PROVE  PeraInv'
<1>1. /\ row \in Escrow /\ Load(row) = row /\ req \in [Requests -> Request]
      /\ UNCHANGED <<row, apps>> /\ op \in PeraOps
  BY PeraFacts DEF BeginInsert, BeginSignedDeploy, Build, database, chain
<1> USE DEF Inherits, Apart, Unseen, Pending, CallOps, WalletOps, Payouts, Settled, NoRow, NewEscrow
<1>2. CASE BeginInsert(r, op)
  <2> DEFINE d == NewEscrow("PENDING_APPROVAL")
             p == Fresh(op, "insert", d, NoApp)
  <2>1. req' = [req EXCEPT ![r] = p]
    BY <1>2, FreshEscrow DEF BeginInsert
  <2>2. op = "createPending"
    BY <1>1, <1>2 DEF BeginInsert, PeraOps
  <2>3. p.op = op /\ p.step = "insert" /\ p.escrow = d /\ p.app = NoApp /\ p.base = NoRow
        /\ d.status = "PENDING_APPROVAL" /\ ~d.frozen /\ d.app = NoApp
    BY DEF Fresh
  <2> HIDE DEF p, d
  <2>4. PeraReq(p, row, apps)
    BY <1>1, <2>2, <2>3 DEF PeraReq, Plain, Reached
  <2>5. Inherits(p, req[r], row)
    BY <2>2, <2>3
  <2>6. QED
    BY <1>1, <2>1, <2>4, <2>5, PeraQuiet
<1>3. CASE BeginSignedDeploy(r, op)
  <2> DEFINE p == Fresh(op, "chain", NoRow, NoApp)
  <2>1. req' = [req EXCEPT ![r] = p]
    BY <1>3, FreshStep DEF BeginSignedDeploy
  <2>2. p.op = op /\ p.step = "chain" /\ p.escrow = NoRow /\ p.app = NoApp /\ p.base = NoRow
    BY DEF Fresh
  <2> HIDE DEF p
  <2>3. PeraReq(p, row, apps)
    BY <1>1, <2>2 DEF PeraReq, Plain, Reached
  <2>4. Inherits(p, req[r], row)
    BY <2>2
  <2>5. QED
    BY <1>1, <2>1, <2>3, <2>4, PeraQuiet
<1>4. CASE Build(r, op)
  <2> DEFINE p == Fresh(op, "wallet", NoRow, row.app)
  <2>1. [Idle EXCEPT !.op = op, !.step = "wallet", !.app = row.app] = p
    BY FreshApp
  <2>2. req' = [req EXCEPT ![r] = p]
    BY <1>1, <1>4, <2>1 DEF Build
  <2>3. p.op = op /\ p.step = "wallet" /\ p.escrow = NoRow /\ p.app = row.app /\ p.base = NoRow
    BY DEF Fresh
  <2> HIDE DEF p
  <2>4. PeraReq(p, row, apps)
    BY <1>1, <2>3 DEF PeraReq, Plain, Reached
  <2>5. Inherits(p, req[r], row)
    BY <2>3
  <2>6. QED
    BY <1>1, <2>2, <2>4, <2>5, PeraQuiet
<1>5. QED
  BY <1>2, <1>3, <1>4

\* From the wallet to the chain.
LEMMA PeraSubmits ==
  ASSUME IInv, PeraInv, NEW r \in Requests, Submit(r)
  PROVE  PeraInv'
<1> DEFINE q == req[r]
           p == [q EXCEPT !.step = "chain"]
<1>1. q \in Request /\ PeraReq(q, row, apps) /\ req \in [Requests -> Request]
      /\ q.step = "wallet" /\ UNCHANGED <<row, apps>>
  BY PeraFacts DEF Submit, database, chain
<1>2. CASE End(r)
  BY <1>1, <1>2, PeraEnd
<1>3. CASE Goto(r, "chain")
  <2>1. req' = [req EXCEPT ![r] = p]
    BY <1>1, <1>3 DEF Goto
  <2>2. p.step = "chain" /\ p.op = q.op /\ p.escrow = q.escrow /\ p.base = q.base /\ p.app = q.app
    BY <1>1 DEF Request
  <2> HIDE DEF p
  <2>3. PeraReq(p, row, apps)
    BY <1>1, <2>2 DEF PeraReq, Pending
  <2>4. Inherits(p, q, row)
    BY <1>1, <2>2 DEF Inherits, Apart, Pending
  <2>5. QED
    BY <1>1, <2>1, <2>3, <2>4, PeraQuiet
<1>4. QED
  BY <1>2, <1>3 DEF Submit

\* What a record_* method leaves: the guards of the aggregate keep the calls of
\* different kinds apart.
LEMMA PeraRecorded ==
  ASSUME NEW e \in Escrow, Plain(e), NEW q \in Request, q.op \in CallOps, CanRecord(q.op, e)
  PROVE  LET d == Recorded(q, e) IN
         /\ Plain(d) /\ d.status = Result(q.op)
         /\ \A o \in CallOps : Unseen(o, e) /\ ~SameKind(o, q.op) => Unseen(o, d)
<1> DEFINE d == Recorded(q, e)
<1> USE DEF CanRecord, Recorded, DeployOps, FundOps, ReleaseOps, RefundOps, Result
<1>1. CASE q.op = "peraDeploy"
  <2>1. d = Deployed(e, q.app)
    BY <1>1
  <2> HIDE DEF d
  <2>2. d.status = "DEPLOYED" /\ d.frozen = e.frozen
    BY <2>1 DEF Deployed, Escrow
  <2>3. QED
    BY <1>1, <2>2 DEF Plain, Unseen, SameKind, Settled, CallOps, WalletOps, Payouts, d
<1>2. CASE q.op = "peraFund"
  <2>1. d = Funded(e, q.tx)
    BY <1>2
  <2> HIDE DEF d
  <2>2. d.status = "FUNDED" /\ d.frozen = e.frozen /\ d.app = e.app
    BY <2>1 DEF Funded, Escrow
  <2>3. QED
    BY <1>2, <2>2 DEF Plain, Unseen, SameKind, Settled, CallOps, WalletOps, Payouts, d
<1>3. CASE q.op = "peraRelease"
  <2>1. d = Released(e, q.tx, q.root) /\ e.status = "FUNDED"
    BY <1>3 DEF CanRelease
  <2> HIDE DEF d
  <2>2. d.status = "RELEASED" /\ d.frozen = e.frozen /\ d.app = e.app
    BY <2>1 DEF Released, Escrow
  <2>3. QED
    BY <1>3, <2>1, <2>2 DEF Plain, Unseen, SameKind, Settled, CallOps, WalletOps, Payouts, d
<1>4. CASE q.op = "peraRefund"
  <2>1. d = Refunded(e, q.tx) /\ e.status = "FUNDED"
    BY <1>4 DEF CanRefund, Plain
  <2> HIDE DEF d
  <2>2. d.status = "REFUNDED" /\ d.frozen = FALSE /\ d.app = e.app
    BY <2>1 DEF Refunded, Escrow
  <2>3. QED
    BY <1>4, <2>1, <2>2 DEF Plain, Unseen, SameKind, Settled, CallOps, WalletOps, Payouts, d
<1>5. QED
  BY <1>1, <1>2, <1>3, <1>4 DEF CallOps, WalletOps

\* The second reading, and what is made of it.
LEMMA PeraRereads ==
  ASSUME IInv, PeraInv, NEW r \in Requests, Reread(r)
  PROVE  PeraInv'
<1> DEFINE q == req[r]
<1>1. /\ q \in Request /\ PeraReq(q, row, apps) /\ req \in [Requests -> Request]
      /\ q.step = "reread" /\ UNCHANGED <<row, apps>>
      /\ row \in Escrow /\ Load(row) = row /\ RowFits(row, apps)
  BY PeraFacts DEF Reread, database, chain
<1>2. /\ q.op \in CallOps /\ q.base = NoRow /\ Seen(r) = row /\ Pending(q)
      /\ q.app # NoApp /\ (q.op \in WalletOps => Reached(Result(q.op), apps))
  BY <1>1 DEF PeraReq, Seen, Pending
<1>3. CASE row # NoRow /\ ~End(r)
  <2>1. Record(r, q, row)
    BY <1>1, <1>2, <1>3 DEF Reread
  <2>2. PICK p : req' = [req EXCEPT ![r] = p] /\ (p = Idle \/ Recording(p, q, row))
    BY <1>1, <2>1, HowRecorded
  <2>3. CASE p = Idle
    BY <1>1, <2>2, <2>3, IdleFits, PeraQuiet
  <2>4. CASE Recording(p, q, row)
    <3>1. /\ p.step = "merge" /\ p.op = q.op /\ p.base = NoRow /\ p.app = q.app
          /\ p.escrow = Recorded(q, row) /\ CanRecord(q.op, row)
      BY <1>2, <2>4 DEF Recording, SameCall
    <3>2. /\ Plain(p.escrow) /\ p.escrow.status = Result(q.op)
          /\ \A o \in CallOps : Unseen(o, row) /\ ~SameKind(o, q.op) => Unseen(o, p.escrow)
      BY <1>1, <1>2, <3>1, PeraRecorded DEF RowFits
    <3>3. row.status # "ABSENT"
      BY <1>1, <1>3 DEF RowFits
    <3>4. Reached(p.escrow.status, apps)
      BY <1>2, <3>2 DEF Reached, Result, CallOps, Settled
    <3>5. PeraReq(p, row, apps)
      BY <1>1, <1>2, <3>1, <3>2, <3>3, <3>4 DEF PeraReq, Pending, CallOps, WalletOps
    <3>6. Inherits(p, q, row)
      BY <1>2, <3>1, <3>2 DEF Inherits, Apart, Pending
    <3>7. QED
      BY <1>1, <2>2, <3>5, <3>6, PeraQuiet
  <2>5. QED
    BY <2>2, <2>3, <2>4
<1>4. CASE row = NoRow /\ q.op \in DeployOps
  <2> DEFINE d == Deployed(NewEscrow("DEPLOYED"), q.app)
             p == [q EXCEPT !.step = "insert", !.escrow = d]
  <2>1. req' = [req EXCEPT ![r].step = "insert", ![r].escrow = d]
    BY <1>1, <1>2, <1>4 DEF Reread
  <2>2. req' = [req EXCEPT ![r] = p]
    BY <1>1, <2>1
  <2>3. p.step = "insert" /\ p.escrow = d /\ SameCall(p, q)
    BY <1>1 DEF Request, SameCall
  <2>4. d.status = "DEPLOYED" /\ ~d.frozen /\ q.op = "peraDeploy"
    BY <1>2, <1>4 DEF Deployed, NewEscrow, DeployOps, CallOps, WalletOps
  <2> HIDE DEF p, d
  <2>5. PeraReq(p, row, apps)
    BY <1>1, <1>2, <2>3, <2>4 DEF PeraReq, Pending, SameCall, Plain, Reached, Settled, WalletOps
  <2>6. Inherits(p, q, row)
    BY <1>2, <2>3, <2>4 DEF Inherits, Apart, Pending, SameCall, SameKind, Unseen, Settled
  <2>7. QED
    BY <1>1, <2>2, <2>5, <2>6, PeraQuiet
<1>5. CASE End(r)
  BY <1>1, <1>5, PeraEnd
<1>6. QED
  BY <1>1, <1>2, <1>3, <1>4, <1>5 DEF Reread

\* The merge holds the row as it is now.
LEMMA PeraMerges ==
  ASSUME IInv, PeraInv, NEW r \in Requests, Merge(r)
  PROVE  PeraInv'
<1> DEFINE q == req[r]
           p == [q EXCEPT !.base = row, !.step = "flush"]
<1>1. /\ q \in Request /\ PeraReq(q, row, apps) /\ req \in [Requests -> Request]
      /\ q.step = "merge" /\ UNCHANGED <<row, apps>> /\ row \in Escrow /\ RowFits(row, apps)
  BY PeraFacts DEF Merge, database, chain
<1>2. req' = [req EXCEPT ![r].base = row, ![r].step = "flush"]
  BY <1>1 DEF Merge, Seen, PeraReq
<1>3. req' = [req EXCEPT ![r] = p]
  BY <1>1, <1>2
<1>4. p.base = row /\ p.step = "flush" /\ p.op = q.op /\ p.escrow = q.escrow /\ p.app = q.app
  BY <1>1 DEF Request
<1> HIDE DEF p
<1>5. PeraReq(p, row, apps)
  BY <1>1, <1>4 DEF PeraReq, Pending, RowFits
<1>6. Inherits(p, q, row)
  BY <1>1, <1>4 DEF Inherits, Apart, Pending
<1>7. QED
  BY <1>1, <1>3, <1>5, <1>6, PeraQuiet

\* The row changes, to what shows of each call no more than the row and the
\* aggregate of the request did; the request is done.
LEMMA PeraCommits ==
  ASSUME PeraInv, req \in [Requests -> Request], NEW r \in Requests, NEW p,
         req' = [req EXCEPT ![r] = p], UNCHANGED apps,
         RowFits(row', apps), row'.status # "ABSENT",
         row'.status = "PENDING_APPROVAL" => row.status = "ABSENT",
         \A o \in CallOps : Unseen(o, row) /\ Unseen(o, req[r].escrow) => Unseen(o, row'),
         PeraReq(p, row', apps), Inherits(p, req[r], row), ~Pending(p)
  PROVE  PeraInv'
<1>1. req'[r] = p /\ \A s \in Requests \ {r} : req'[s] = req[s]
  OBVIOUS
<1>2. ASSUME NEW s \in Requests PROVE PeraReq(req'[s], row', apps)
  <2>1. CASE s = r
    BY <1>1, <2>1
  <2>2. CASE s # r
    <3>1. PeraReq(req[s], row, apps) /\ req'[s] = req[s]
      BY <1>1, <2>2 DEF PeraInv
    <3>2. QED
      BY <3>1 DEF PeraReq
  <2>3. QED
    BY <2>1, <2>2
<1>3. ASSUME NEW s \in Requests PROVE Sole(s, req', row', apps)
  <2> SUFFICES ASSUME Len(apps) = 1, Pending(req'[s])
               PROVE  /\ Unseen(req'[s].op, row')
                      /\ req'[s].op = "peraDeploy" => apps[1].status = "DEPLOYED"
                      /\ \A t \in Requests \ {s} : Apart(req'[s].op, req'[t])
    BY DEF Sole
  <2>1. s # r /\ Pending(req[s]) /\ req'[s] = req[s] /\ req[s].op \in CallOps
    BY <1>1 DEF Pending
  <2>2. /\ Unseen(req[s].op, row)
        /\ req[s].op = "peraDeploy" => apps[1].status = "DEPLOYED"
        /\ \A t \in Requests \ {s} : Apart(req[s].op, req[t])
    BY <2>1 DEF PeraInv, Sole
  <2>3. \A t \in Requests \ {s} : Apart(req[s].op, req'[t])
    BY <1>1, <2>1, <2>2 DEF Inherits
  <2>4. Unseen(req[s].op, row')
    BY <2>1, <2>2 DEF Apart
  <2>5. QED
    BY <2>1, <2>2, <2>3, <2>4
<1>4. QED
  BY <1>2, <1>3 DEF PeraInv

\* The INSERT, when there is no row: nobody can be merging.
LEMMA PeraInserts ==
  ASSUME IInv, PeraInv, NEW r \in Requests, Insert(r)
  PROVE  PeraInv'
<1> DEFINE q == req[r]
           d == q.escrow
<1>1. /\ q \in Request /\ PeraReq(q, row, apps) /\ req \in [Requests -> Request]
      /\ q.step = "insert" /\ UNCHANGED apps /\ Store(d) = d /\ d \in Escrow
  BY PeraFacts DEF Insert, chain
<1>2. CASE row # NoRow
  BY <1>1, <1>2, PeraEnd DEF Insert
<1>3. CASE row = NoRow
  <2>1. /\ q.op \in {"createPending", "peraDeploy"} /\ Plain(d) /\ Reached(d.status, apps)
        /\ d.status \in {"PENDING_APPROVAL", "DEPLOYED"}
        /\ d.status = "PENDING_APPROVAL" => d.app = NoApp
    BY <1>1 DEF PeraReq
  <2>2. row' = d /\ req' = [req EXCEPT ![r] = Idle]
    BY <1>1, <1>3, <2>1 DEF Insert, End
  <2>3. RowFits(row', apps) /\ row'.status # "ABSENT" /\ row.status = "ABSENT"
    BY <1>3, <2>1, <2>2 DEF RowFits, NoRow, NewEscrow
  <2>4. PeraReq(Idle, row', apps) /\ Inherits(Idle, q, row) /\ ~Pending(Idle)
    BY IdleFits DEF Pending, Idle
  <2> HIDE DEF d
  <2>5. QED
    BY <1>1, <2>2, <2>3, <2>4, PeraCommits DEF d
<1>4. QED
  BY <1>2, <1>3

\* The UPDATE: each column comes from the aggregate or from the row.
LEMMA PeraFlushes ==
  ASSUME IInv, PeraInv, NEW r \in Requests, Flush(r)
  PROVE  PeraInv'
<1> DEFINE q == req[r]
           d == q.escrow
           p == IF q.op \in Publishing THEN [q EXCEPT !.step = "publish"] ELSE Idle
<1>1. /\ q \in Request /\ PeraReq(q, row, apps) /\ req \in [Requests -> Request]
      /\ q.step = "flush" /\ UNCHANGED apps /\ Store(d) = d /\ d \in Escrow
      /\ RowFits(row, apps) /\ row \in Escrow
  BY PeraFacts DEF Flush, chain
<1>2. CASE d.status \notin StorableStatus
  BY <1>1, <1>2, PeraEnd DEF Flush
<1>3. CASE d.status \in StorableStatus
  <2>1. /\ row' = Merged(d, q.base, row)
        /\ IF q.op \in Publishing THEN Goto(r, "publish") ELSE End(r)
    BY <1>1, <1>3 DEF Flush
  <2>2. req' = [req EXCEPT ![r] = p]
    BY <1>1, <2>1 DEF Goto, End
  <2>3. /\ row'.status = IF d.status # q.base.status THEN d.status ELSE row.status
        /\ row'.frozen \in {d.frozen, row.frozen} /\ row'.app \in {d.app, row.app}
    BY <2>1 DEF Merged
  <2>4. /\ row.status # "ABSENT" /\ Plain(d) /\ Reached(d.status, apps)
        /\ q.op \in {"approve", "reject"} \cup CallOps /\ d.status = Result(q.op)
        /\ row.status = "PENDING_APPROVAL" => q.base.status = "PENDING_APPROVAL"
    BY <1>1 DEF PeraReq
  <2>5. d.status \notin {"ABSENT", "PENDING_APPROVAL", "FROZEN"}
    BY <2>4 DEF Result, CallOps, WalletOps
  <2>6. row'.status \notin {"ABSENT", "PENDING_APPROVAL"} /\ Plain(row')
        /\ Reached(row'.status, apps)
    BY <1>1, <2>3, <2>4, <2>5 DEF Plain, RowFits
  <2>7. RowFits(row', apps)
    BY <2>6 DEF RowFits
  <2>8. \A o \in CallOps : Unseen(o, row) /\ Unseen(o, d) => Unseen(o, row')
    BY <2>3 DEF Unseen
  <2>9. PeraReq(p, row', apps) /\ Inherits(p, q, row) /\ ~Pending(p)
    <3>1. CASE q.op \in Publishing
      <4>1. p.step = "publish" /\ p.op = q.op /\ p.escrow = d /\ p.base = q.base /\ p.app = q.app
        BY <1>1, <3>1 DEF Request
      <4> HIDE DEF p, d
      <4>2. PeraReq(p, row', apps)
        BY <1>1, <2>4, <4>1 DEF PeraReq, Pending
      <4>3. Inherits(p, q, row) /\ ~Pending(p)
        BY <4>1 DEF Inherits, Apart, Pending, d
      <4>4. QED
        BY <4>2, <4>3
    <3>2. CASE q.op \notin Publishing
      BY <3>2, IdleFits DEF Pending, Idle
    <3>3. QED
      BY <3>1, <3>2
  <2> HIDE DEF p, d
  <2>10. QED
    BY <1>1, <2>2, <2>6, <2>7, <2>8, <2>9, PeraCommits DEF d
<1>4. QED
  BY <1>2, <1>3

\* What is true of the only contract stays true when there is another.
LEMMA ReachedWithAnother ==
  ASSUME NEW A \in Seq(App), NEW a \in App, NEW st, Reached(st, A)
  PROVE  Reached(st, Append(A, a))
BY DEF Reached

\* A wallet creates a contract.
LEMMA PeraCreates ==
  ASSUME IInv, PeraInv, NEW r \in Requests, CreateApp(r)
  PROVE  PeraInv'
<1> DEFINE q == req[r]
<1>1. /\ q \in Request /\ PeraReq(q, row, apps) /\ ReqOK(q, ledger, Len(apps))
      /\ req \in [Requests -> Request] /\ RowFits(row, apps) /\ row \in Escrow
      /\ q.step = "chain" /\ q.op \in DeployOps /\ UNCHANGED row
  BY PeraFacts DEF CreateApp, database
<1>2. apps \in Seq(App) /\ Len(apps) \in Nat /\ SoundIn(row, ledger, Len(apps))
      /\ Len(ledger) \in Nat
  BY Facts
<1>3. q.op = "peraDeploy"
  BY <1>1 DEF PeraReq, PeraOps, DeployOps, WalletOps
<1>4. apps' = Append(apps, Initialized)
  BY <1>3 DEF CreateApp
<1>5. Initialized \in App /\ Initialized.kind = "puya" /\ Initialized.status = "DEPLOYED"
  BY DEF Initialized, NewApp, App, AppKinds, AppStatuses
<1> HIDE DEF q
<1>6. PICK id \in Nat, tx \in Nat : id = Len(apps) + 1 /\ tx = Len(ledger) + 1
  BY <1>2
<1> DEFINE c == [q EXCEPT !.app = id, !.tx = tx]
<1>7. Answered(r, c)
  BY <1>6 DEF CreateApp, q
<1>8. c \in Request /\ c.app = id /\ c.op = q.op /\ c.step = q.step
      /\ c.escrow = q.escrow /\ c.base = q.base
  BY <1>1 DEF Request
<1> HIDE DEF c
<1>9. PICK p : req' = [req EXCEPT ![r] = p] /\ (p = Idle \/ Going(p, c, "reread"))
  BY <1>3, <1>7, <1>8, HowAnswered DEF RereadOps
<1>10. req'[r] = p /\ \A s \in Requests \ {r} : req'[s] = req[s]
  BY <1>1, <1>9
<1>11. \A st : Reached(st, apps) => Reached(st, apps')
  BY <1>2, <1>4, <1>5, ReachedWithAnother
<1>12. \A i \in 1..Len(apps') : apps'[i].kind = "puya"
  BY <1>2, <1>4, <1>5 DEF PeraInv
<1>13. RowFits(row, apps')
  BY <1>1, <1>11 DEF RowFits
<1>14. ASSUME NEW s \in Requests PROVE PeraReq(req'[s], row, apps')
  <2>1. \A t \in Requests : PeraReq(req[t], row, apps')
    BY <1>11 DEF PeraInv, PeraReq
  <2>2. CASE s # r
    BY <1>10, <2>1, <2>2
  <2>3. CASE p = Idle
    BY <1>10, <2>1, <2>3, IdleFits
  <2>4. CASE Going(p, c, "reread")
    <3>1. p.step = "reread" /\ p.op = q.op /\ p.escrow = q.escrow /\ p.base = q.base /\ p.app = id
      BY <1>8, <2>4 DEF Going, SameCall
    <3>2. id # NoApp
      BY <1>2, <1>6 DEF NoApp
    <3>3. PeraReq(q, row, apps')
      BY <2>1 DEF q
    <3>4. PeraReq(p, row, apps')
      BY <1>1, <1>3, <3>1, <3>2, <3>3 DEF PeraReq, Pending, CallOps, WalletOps
    <3>5. QED
      BY <1>10, <2>1, <3>4
  <2>5. QED
    BY <1>9, <2>2, <2>3, <2>4
<1>15. ASSUME NEW s \in Requests PROVE Sole(s, req', row, apps')
  <2> SUFFICES ASSUME Len(apps') = 1, Pending(req'[s])
               PROVE  /\ Unseen(req'[s].op, row)
                      /\ req'[s].op = "peraDeploy" => apps'[1].status = "DEPLOYED"
                      /\ \A t \in Requests \ {s} : Apart(req'[s].op, req'[t])
    BY DEF Sole
  <2>1. Len(apps) = 0
    BY <1>2, <1>4, <1>5
  <2>2. \A t \in Requests : /\ req[t].app = NoApp /\ req[t].escrow.app = NoApp
                            /\ req[t].base.app = NoApp /\ ~Pending(req[t])
    <3>1. \A t \in Requests : ReqOK(req[t], ledger, 0) /\ PeraReq(req[t], row, apps)
      BY <2>1, Facts DEF PeraInv
    <3>2. \A e : SoundIn(e, ledger, 0) => e.app = NoApp
      BY DEF SoundIn
    <3>3. ASSUME NEW t \in Requests PROVE req[t].app = NoApp
      <4>1. ReqOK(req[t], ledger, 0)
        BY <3>1
      <4>2. req[t].app \in 0..0
        BY <4>1 DEF ReqOK
      <4>3. QED
        BY <4>2 DEF NoApp
    <3>4. \A t \in Requests : ~Pending(req[t])
      BY <3>1, <3>3 DEF PeraReq
    <3>5. QED
      BY <3>1, <3>2, <3>3, <3>4 DEF ReqOK
  <2>3. row.app = NoApp /\ apps'[1] = Initialized
    BY <1>2, <1>4, <1>5, <2>1 DEF SoundIn
  <2>4. s = r
    BY <1>10, <2>2
  <2>5. p.op = "peraDeploy"
    BY <1>3, <1>8, <1>9, <1>10, <2>4 DEF Going, SameCall, Pending, Idle
  <2>6. \A t \in Requests \ {s} : Apart("peraDeploy", req'[t])
    BY <1>10, <2>2, <2>4 DEF Apart, Unseen, Payouts
  <2>7. QED
    BY <1>5, <1>10, <2>3, <2>4, <2>5, <2>6 DEF Unseen, Payouts
<1>16. QED
  BY <1>1, <1>12, <1>13, <1>14, <1>15 DEF PeraInv

\* A wallet's call is accepted from one status of the contract only.
LEMMA PeraCalls ==
  ASSUME NEW a \in App, a.kind = "puya", NEW op \in PeraOps, op \in ChainOps,
         op \notin DeployOps, Accepts(op, a)
  PROVE  /\ op \in WalletOps /\ After(op, a).kind = "puya" /\ After(op, a).status = Result(op)
         /\ a.status = IF op = "peraFund" THEN "DEPLOYED" ELSE "FUNDED"
<1> USE DEF DeployOps, NoOpOps, PlainOps, WalletOps, ReleaseOps, RefundOps
<1>1. op \in WalletOps
  BY DEF PeraOps, Accepts, NoOpAccepted, ChainOps
<1>2. a.status = IF op = "peraFund" THEN "DEPLOYED" ELSE "FUNDED"
  BY <1>1 DEF Accepts, FundAccepted, PayoutAccepted
<1>3. After(op, a).kind = a.kind
  BY AfterIs
<1>4. After(op, a).status = Result(op)
  <2>1. CASE op = "peraFund"
    <3>1. After(op, a) = AppFunded(a, [receiver |-> "app", amount |-> Amount])
      BY <2>1 DEF After
    <3>2. [Credited(a, Amount) EXCEPT !.status = "FUNDED"].status = "FUNDED"
      BY DEF Credited, App
    <3>3. QED
      BY <2>1, <3>1, <3>2 DEF AppFunded, Result
  <2>2. CASE op = "peraRelease"
    BY <2>2 DEF After, AppReleased, App, Result
  <2>3. CASE op = "peraRefund"
    BY <2>3 DEF After, AppRefunded, App, Result
  <2>4. QED
    BY <1>1, <2>1, <2>2, <2>3
<1>5. QED
  BY <1>1, <1>2, <1>3, <1>4

\* A wallet's call of the only contract: nothing has shown it before.
LEMMA PeraCallApp ==
  ASSUME IInv, PeraInv, NEW r \in Requests, CallApp(r)
  PROVE  PeraInv'
<1> DEFINE q == req[r]
           id == q.app
           a == apps[id]
           b == After(q.op, a)
<1>1. /\ q \in Request /\ PeraReq(q, row, apps) /\ ReqOK(q, ledger, Len(apps))
      /\ req \in [Requests -> Request] /\ RowFits(row, apps)
      /\ q.step = "chain" /\ q.op \notin DeployOps /\ UNCHANGED row
  BY PeraFacts DEF CallApp, database
<1>2. apps \in Seq(App) /\ Len(apps) \in Nat /\ Len(ledger) \in Nat
  BY Facts
<1>3. q.op \in PeraOps /\ q.op \in ChainOps /\ id \in 1..Len(apps) /\ ~Pending(q)
  <2>1. q.op \in ChainOps /\ id # NoApp /\ id \in 0..Len(apps)
    BY <1>1 DEF ReqOK
  <2>2. q.op # "none"
    BY <2>1 DEF ChainOps, DeployOps, NoOpOps, PlainOps, WalletOps
  <2>3. QED
    BY <1>1, <1>2, <2>1, <2>2 DEF PeraReq, Pending, NoApp
<1>4. a \in App /\ a.kind = "puya" /\ Accepts(q.op, a)
  BY <1>2, <1>3 DEF PeraInv, CallApp
<1>5. /\ q.op \in WalletOps /\ b.kind = "puya" /\ b.status = Result(q.op)
      /\ a.status = IF q.op = "peraFund" THEN "DEPLOYED" ELSE "FUNDED"
  BY <1>1, <1>3, <1>4, PeraCalls
<1>6. PICK tx \in Nat : tx = Len(ledger) + 1
  BY <1>2
<1>7. PICK root \in RootsFor(q.op) : Answered(r, [q EXCEPT !.tx = tx, !.root = root])
  BY <1>6 DEF CallApp
<1> DEFINE c == [q EXCEPT !.tx = tx, !.root = root]
<1>8. root \in Roots
  BY DEF RootsFor, Roots
<1>9. c \in Request /\ c.app = id /\ c.op = q.op /\ c.escrow = q.escrow /\ c.base = q.base
  BY <1>1, <1>8 DEF Request
<1>10. apps' = [apps EXCEPT ![id] = b]
  BY DEF CallApp
<1>11. Answered(r, c)
  BY <1>7
<1> HIDE DEF c, q, a, b, id
<1>12. PICK p : req' = [req EXCEPT ![r] = p] /\ (p = Idle \/ Going(p, c, "reread"))
  BY <1>5, <1>9, <1>11, HowAnswered DEF RereadOps, WalletOps
<1>13. req'[r] = p /\ \A s \in Requests \ {r} : req'[s] = req[s]
  BY <1>1, <1>12
<1>14. Len(apps') = Len(apps) /\ apps'[id] = b
       /\ (Len(apps) = 1 => id = 1 /\ apps[1] = a /\ apps'[1] = b)
  BY <1>2, <1>3, <1>10 DEF a
<1>15. \A st : Reached(st, apps) => Reached(st, apps')
  BY <1>2, <1>5, <1>14 DEF Reached, Result, WalletOps, Settled
<1>16. \A i \in 1..Len(apps') : apps'[i].kind = "puya"
  BY <1>2, <1>3, <1>5, <1>10 DEF PeraInv
<1>17. Reached(Result(q.op), apps')
  BY <1>2, <1>3, <1>5, <1>14 DEF Reached, Result, WalletOps, Settled
<1>18. RowFits(row, apps')
  BY <1>1, <1>15 DEF RowFits
<1>19. p # Idle => /\ p.step = "reread" /\ p.op = q.op /\ p.escrow = q.escrow
                   /\ p.base = q.base /\ p.app = id
  BY <1>9, <1>12 DEF Going, SameCall
<1>20. ASSUME NEW s \in Requests PROVE PeraReq(req'[s], row, apps')
  <2>1. \A t \in Requests : PeraReq(req[t], row, apps')
    BY <1>15 DEF PeraInv, PeraReq
  <2>2. CASE s # r
    BY <1>13, <2>1, <2>2
  <2>3. CASE p = Idle
    BY <1>13, <2>1, <2>3, IdleFits
  <2>4. CASE p # Idle
    <3>1. PeraReq(q, row, apps') /\ id # NoApp
      BY <1>3, <2>1 DEF q, NoApp
    <3>2. PeraReq(p, row, apps')
      BY <1>1, <1>5, <1>17, <1>19, <2>4, <3>1 DEF PeraReq, Pending, CallOps
    <3>3. QED
      BY <1>13, <2>1, <3>2
  <2>5. QED
    BY <2>2, <2>3, <2>4
<1>21. ASSUME NEW s \in Requests PROVE Sole(s, req', row, apps')
  <2> SUFFICES ASSUME Len(apps') = 1, Pending(req'[s])
               PROVE  /\ Unseen(req'[s].op, row)
                      /\ req'[s].op = "peraDeploy" => apps'[1].status = "DEPLOYED"
                      /\ \A t \in Requests \ {s} : Apart(req'[s].op, req'[t])
    BY DEF Sole
  <2>1. Len(apps) = 1 /\ apps[1] = a /\ id = 1
    BY <1>14
  <2>2. \A st : Reached(st, apps) => Unseen(q.op, [status |-> st, app |-> NoApp])
    BY <1>5, <2>1 DEF Reached, Unseen, Settled, WalletOps, Payouts
  <2>3. \A e : Reached(e.status, apps) => Unseen(q.op, e)
    BY <1>5, <2>2 DEF Unseen, WalletOps
  <2>4. \A t \in Requests : Pending(req[t]) => ~SameKind(q.op, req[t].op)
    <3>1. SUFFICES ASSUME NEW t \in Requests, Pending(req[t]), SameKind(q.op, req[t].op)
                   PROVE  FALSE
      OBVIOUS
    <3>2. req[t].op \in WalletOps
      BY <1>5, <3>1 DEF SameKind, Payouts, WalletOps
    <3>3. Reached(Result(req[t].op), apps)
      BY <3>1, <3>2 DEF PeraInv, PeraReq
    <3>4. QED
      BY <1>5, <2>1, <3>1, <3>2, <3>3 DEF Reached, Result, SameKind, Payouts, WalletOps, Settled
  <2>5. CASE s = r
    <3>1. p # Idle /\ p.op = q.op
      BY <1>13, <1>19, <2>5 DEF Pending, Idle
    <3>2. Unseen(q.op, row) /\ q.op # "peraDeploy"
      BY <1>1, <1>5, <2>3 DEF RowFits, WalletOps
    <3>3. \A t \in Requests : Unseen(q.op, req[t].escrow) /\ Unseen(q.op, req[t].base)
      BY <2>3 DEF PeraInv, PeraReq
    <3>4. \A t \in Requests \ {s} : Apart(q.op, req[t])
      BY <2>4, <3>2, <3>3 DEF Apart
    <3>5. QED
      BY <1>13, <2>5, <3>1, <3>2, <3>4
  <2>6. CASE s # r
    <3> DEFINE o == req[s].op
    <3>1. req'[s] = req[s] /\ Pending(req[s])
      BY <1>13, <2>6
    <3>2. Unseen(o, row) /\ \A t \in Requests \ {s} : Apart(o, req[t])
      BY <2>1, <3>1 DEF PeraInv, Sole
    <3>3. Apart(o, q)
      BY <2>6, <3>2 DEF q
    <3>4. o # "peraDeploy"
      BY <1>3, <3>3 DEF Apart, NoApp, id
    <3>5. ~SameKind(o, q.op)
      BY <2>4, <3>1 DEF SameKind
    <3>6. Apart(o, p)
      <4>1. CASE p = Idle
        BY <3>1, <3>2, <3>3, <4>1, IdleFits DEF Inherits, Pending
      <4>2. CASE p # Idle
        BY <1>19, <3>3, <3>4, <3>5, <4>2 DEF Apart
      <4>3. QED
        BY <4>1, <4>2
    <3>7. QED
      BY <1>13, <2>6, <3>1, <3>2, <3>4, <3>6
  <2>7. QED
    BY <2>5, <2>6
<1>22. QED
  BY <1>16, <1>18, <1>20, <1>21, <1>1 DEF PeraInv

\* The invariant of the wallets' endpoints.
LEMMA PeraInvStep ==
  ASSUME Operations \subseteq PeraOps
  PROVE  IInv /\ PeraInv /\ [Next]_vars => PeraInv'
<1> SUFFICES ASSUME IInv, PeraInv, [Next]_vars PROVE PeraInv'
  OBVIOUS
<1>1. ASSUME NEW r \in Requests, NEW op \in Operations,
             \/ Begin(r, op) \/ BeginInsert(r, op) \/ BeginSignedDeploy(r, op) \/ Build(r, op)
      PROVE  PeraInv'
  BY <1>1, PeraBegins, PeraOtherBegins
<1>2. ASSUME NEW r \in Requests, Lookup(r) \/ Anchor(r) PROVE PeraInv'
  BY <1>2, PeraFacts DEF Lookup, Anchor, PeraReq
<1>3. ASSUME NEW r \in Requests, Insert(r) \/ Submit(r) PROVE PeraInv'
  BY <1>3, PeraInserts, PeraSubmits
<1>4. ASSUME NEW r \in Requests, CreateApp(r) \/ CallApp(r) PROVE PeraInv'
  BY <1>4, PeraCreates, PeraCallApp
<1>5. ASSUME NEW r \in Requests, ChainFails(r) \/ Crash(r) \/ Publish(r) PROVE PeraInv'
  <2>1. UNCHANGED <<row, apps>> /\ End(r)
    BY <1>5 DEF ChainFails, Crash, Publish, database, chain
  <2>2. QED
    BY <2>1, PeraEnd
<1>6. ASSUME NEW r \in Requests, Reread(r) \/ Merge(r) \/ Flush(r) PROVE PeraInv'
  BY <1>6, PeraRereads, PeraMerges, PeraFlushes
<1>7. CASE UNCHANGED vars
  BY <1>7 DEF vars, PeraInv
<1>8. QED
  BY <1>1, <1>2, <1>3, <1>4, <1>5, <1>6, <1>7 DEF Next

\* At first there is no contract and no row.
LEMMA PeraInvInit == Init => PeraInv
<1> SUFFICES ASSUME Init PROVE PeraInv
  OBVIOUS
<1>1. RowFits(NoRow, <<>>)
  BY DEF RowFits, NoRow, NewEscrow, Plain, Reached, Settled
<1>2. \A r \in Requests : req[r] = Idle /\ PeraReq(Idle, NoRow, <<>>)
  BY IdleFits DEF Init
<1>3. Len(apps) = 0 /\ row = NoRow /\ apps = <<>>
  BY DEF Init
<1>4. QED
  BY <1>1, <1>2, <1>3 DEF PeraInv, Sole

\* Of the wallets' endpoints, any number at once: with one contract the row never
\* shows a status the contract has not reached.
THEOREM RowFollowsContract ==
  ASSUME Operations \subseteq PeraOps
  PROVE  Spec => []NeverAheadOfChain
<1>1. PeraInv => NeverAheadOfChain
  BY DEF PeraInv, RowFits, Reached, NeverAheadOfChain, OneContract
<1>2. QED
  BY <1>1, InvHolds, PeraInvInit, PeraInvStep, PTL DEF Spec

\* ... and only a rejection read before the deployment changes a settled row.
THEOREM ContractProtectsRow ==
  ASSUME Operations \subseteq PeraOps
  PROVE  Spec => ContractSerialises
<1> DEFINE Kept == OneContract /\ row.status \in Settled /\ row' # row =>
                      /\ row'.status \in {row.status, "REJECTED"}
                      /\ \E r \in Requests : /\ req[r].op = "reject" /\ req[r].step = "flush"
                                             /\ req[r].escrow.app = NoApp
<1>1. IInv /\ PeraInv /\ [Next]_vars => Kept
  <2> SUFFICES ASSUME IInv, PeraInv, [Next]_vars,
                      OneContract, row.status \in Settled, row' # row
               PROVE  /\ row'.status \in {row.status, "REJECTED"}
                      /\ \E r \in Requests : /\ req[r].op = "reject" /\ req[r].step = "flush"
                                             /\ req[r].escrow.app = NoApp
    OBVIOUS
  <2>1. PICK r \in Requests : Insert(r) \/ Flush(r)
    BY DEF Next, vars, Begin, BeginInsert, BeginSignedDeploy, Build, Lookup, Submit, CreateApp,
           CallApp, ChainFails, Anchor, Reread, Merge, Publish, Crash, database
  <2>2. Flush(r)
    BY <2>1 DEF Insert, NoRow, NewEscrow, Settled
  <2> DEFINE q == req[r]
  <2>3. /\ PeraReq(q, row, apps) /\ Sole(r, req, row, apps) /\ Reached(row.status, apps)
        /\ q.step = "flush" /\ Store(q.escrow) = q.escrow
    BY <2>2, PeraFacts DEF Flush, PeraInv, RowFits
  <2>4. q.escrow.status \in StorableStatus /\ row' = Merged(q.escrow, q.base, row)
    BY <2>2, <2>3 DEF Flush
  <2>5. q.op \in {"reject"} \cup CallOps /\ q.escrow.status = Result(q.op)
        /\ (q.op = "reject" => q.escrow.app = NoApp)
    BY <2>3, <2>4 DEF PeraReq, Result, StorableStatus
  <2>6. ASSUME q.op \in CallOps PROVE FALSE
    <3>1. Unseen(q.op, row) /\ (q.op = "peraDeploy" => apps[1].status = "DEPLOYED")
      BY <2>3, <2>6 DEF Sole, Pending, OneContract
    <3>2. apps[1].status = row.status
      BY <2>3 DEF Reached, OneContract
    <3>3. QED
      BY <2>6, <3>1, <3>2 DEF Unseen, CallOps, WalletOps, Payouts, Settled
  <2>7. q.op = "reject" /\ q.escrow.status = "REJECTED" /\ q.escrow.app = NoApp
    BY <2>5, <2>6 DEF Result
  <2>8. row'.status \in {row.status, "REJECTED"}
    BY <2>4, <2>7 DEF Merged
  <2>9. QED
    BY <2>3, <2>7, <2>8
<1>2. Spec => [](IInv /\ PeraInv)
  BY InvHolds, PeraInvInit, PeraInvStep, PTL DEF Spec
<1>3. Spec => [][Kept]_vars
  BY <1>1, <1>2, PTL DEF Spec
<1>4. QED
  BY <1>3, PTL DEF ContractSerialises
=============================================================================
