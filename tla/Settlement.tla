----------------------------- MODULE Settlement ------------------------------
(***************************************************************************)
(* The settlement context at work on the escrow of one negotiation session:*)
(* the HTTP handlers of settlement/api/router.py, SettlementService,        *)
(* PostgresEscrowRepository and AlgorandGateway, with several requests in  *)
(* flight (the backend runs two or four worker processes, and within one   *)
(* every await lets another request run).                                  *)
(*                                                                         *)
(* Nothing in the code locks the row or checks a version: a request reads  *)
(* it, calls the chain, may read it again, mutates the aggregate in memory *)
(* and merges it back.  Each of these is a step here.  A request may die   *)
(* at any of them; a broadcast may land although its caller sees an error. *)
(***************************************************************************)
EXTENDS EscrowApp, EscrowAggregate, Sequences

CONSTANTS Requests,     \* requests (and wallet sessions) that can be in flight
          Operations,   \* the operations offered, a subset of AllOperations
          PlainAmount,  \* what AlgorandGateway.fund_escrow really pays
          MaxApps,      \* bound: applications ever created for the session
          MaxCalls      \* bound: ledger entries

DeployOps   == {"deploy", "platformDeploy", "peraDeploy"}
NoOpOps     == {"release", "platformRelease", "refund", "freeze", "unfreeze"}
PlainOps    == {"fund", "platformFund"}
WalletOps   == {"peraFund", "peraRelease", "peraRefund"}
ReleaseOps  == {"release", "platformRelease", "peraRelease"}
FundOps     == {"fund", "platformFund", "peraFund"}
RefundOps   == {"refund", "peraRefund"}

\* Operations that load the row again after the chain call (record_pera_*).
RereadOps == {"platformDeploy", "peraDeploy", "platformFund", "platformRelease"}
             \cup WalletOps

AllOperations == {"createPending", "approve", "reject"}
                 \cup DeployOps \cup NoOpOps \cup PlainOps \cup WalletOps

ASSUME OperationsAssumption == Operations \subseteq AllOperations

ASSUME PlainAmountAssumption == PlainAmount \in Nat

VARIABLES row,          \* the escrow_contracts row of the session
          settlements,  \* ledger entries cited by rows of settlements
          apps,         \* the applications created for the session, in order
          ledger,       \* the accepted calls, in order; tx ids are positions
          audit,        \* types of the escrow's audit entries
          compliance,   \* whether FEMA and GST records exist
          req           \* what each request is doing

vars == <<row, settlements, apps, ledger, audit, compliance, req>>

(***************************************************************************)
(* A request: its operation, its next step, the aggregate it holds, the    *)
(* row its ORM session holds, the application it calls, its confirmed transaction *)
(* and the Merkle root it computed.                                        *)
(***************************************************************************)
Steps == {"idle", "insert", "wallet", "lookup", "chain", "anchor", "reread", "merge",
          "flush", "publish"}

Request == [op : AllOperations \cup {"none"}, step : Steps, escrow : Escrow,
            base : Escrow, app : Nat, tx : Nat, root : Roots]

Idle == [op |-> "none", step |-> "idle", escrow |-> NoRow, base |-> NoRow,
         app |-> NoApp, tx |-> NoTx, root |-> "none"]

CallKinds == {"deploy", "pay", "fund", "release", "refund", "freeze", "unfreeze"}

EventTypes == {"EscrowDeployed", "EscrowFunded", "EscrowReleased",
               "EscrowRefunded", "EscrowFrozen"}

TypeOK == /\ row \in Escrow
          /\ settlements \subseteq 1..Len(ledger)
          /\ apps \in Seq(App)
          /\ ledger \in Seq([call : CallKinds, app : Nat \ {0}])
          /\ audit \subseteq EventTypes
          /\ compliance \in BOOLEAN
          /\ req \in [Requests -> Request]

Init == /\ row = NoRow
        /\ settlements = {}
        /\ apps = <<>>
        /\ ledger = <<>>
        /\ audit = {}
        /\ compliance = FALSE
        /\ req = [r \in Requests |-> Idle]

chain == <<apps, ledger>>
database == <<row, settlements, audit, compliance>>

\* The request returns, or raises: either way it is forgotten.
End(r) == req' = [req EXCEPT ![r] = Idle]

Goto(r, step) == req' = [req EXCEPT ![r].step = step]
(***************************************************************************)
(* First database access of a request.                                     *)
(***************************************************************************)

\* The checks a handler makes on the escrow it loads before it acts.
Admits(op, e) ==
    CASE op \in {"approve", "reject"}  -> e.status = "PENDING_APPROVAL"
      [] op = "platformDeploy"         -> e.status \in {"APPROVED", "PENDING_APPROVAL"}
      [] op = "platformFund"           -> e.status = "DEPLOYED" /\ e.app # NoApp
      [] op = "platformRelease"        -> e.status = "FUNDED" /\ e.app # NoApp
      [] op \in {"fund", "release", "refund", "freeze", "unfreeze"} -> e.app # NoApp
      [] OTHER                         -> FALSE

\* approve_escrow and reject_escrow mutate the aggregate at once; every other
\* operation goes to the chain first.
Begin(r, op) ==
    LET e == Load(row) IN
    /\ req[r] = Idle
    /\ row # NoRow
    /\ Admits(op, e)
    /\ req' = [req EXCEPT ![r] =
          [Idle EXCEPT !.op     = op,
                       !.step   = CASE op \in {"approve", "reject"} -> "merge"
                                    [] op = "platformDeploy"       -> "lookup"
                                    [] OTHER                       -> "chain",
                       !.escrow = CASE op = "approve" -> Approved(e)
                                    [] op = "reject"  -> Rejected(e)
                                    [] OTHER          -> e,
                       !.app    = e.app]]
    /\ UNCHANGED <<chain, database>>

\* create_pending_escrow and deploy_escrow return the existing row if there is
\* one; otherwise they prepare an INSERT.
BeginInsert(r, op) ==
    /\ op \in {"createPending", "deploy"}
    /\ req[r] = Idle
    /\ row = NoRow
    /\ req' = [req EXCEPT ![r] =
          [Idle EXCEPT !.op = op, !.step = "insert",
                       !.escrow = NewEscrow("PENDING_APPROVAL")]]
    /\ UNCHANGED <<chain, database>>

\* submit_signed_deploy broadcasts what the wallet signed without looking at
\* the escrow; build-deploy-txn does not look at it either.
BeginSignedDeploy(r, op) ==
    /\ op = "peraDeploy"
    /\ req[r] = Idle
    /\ req' = [req EXCEPT ![r] = [Idle EXCEPT !.op = op, !.step = "chain"]]
    /\ UNCHANGED <<chain, database>>

\* INSERT and COMMIT; session_id is UNIQUE, the loser gets an IntegrityError.
\* deploy_escrow goes on to the chain with the aggregate it saved.
Insert(r) ==
    /\ req[r].step = "insert"
    /\ IF row = NoRow
       THEN /\ row' = Store(req[r].escrow)
            /\ IF req[r].op = "deploy" THEN Goto(r, "chain") ELSE End(r)
       ELSE /\ End(r)
            /\ UNCHANGED row
    /\ UNCHANGED <<settlements, audit, compliance, chain>>

\* platform_deploy_escrow takes the parties' addresses from the escrow or, when
\* they are not there, looks the row up again for their enterprises.  It keeps
\* that row to the end, and the ORM session then reads it no more.
Lookup(r) ==
    /\ req[r].step = "lookup"
    /\ \E kept \in {NoRow, row} :
          req' = [req EXCEPT ![r] = [req[r] EXCEPT !.step = "chain", !.base = kept]]
    /\ UNCHANGED <<chain, database>>

\* The row as the ORM session of the request shows it.
Seen(r) == IF req[r].base = NoRow THEN row ELSE req[r].base

(***************************************************************************)
(* The Pera wallet: the backend hands out the parts of a transaction for   *)
(* the application the row names at that moment, the user signs it, the    *)
(* client submits it.  Only submit-signed-fund looks at the escrow again.  *)
(***************************************************************************)
Build(r, op) ==
    LET e == Load(row) IN
    /\ op \in WalletOps
    /\ req[r] = Idle
    /\ row # NoRow
    /\ e.app # NoApp
    /\ e.status = IF op = "peraFund" THEN "DEPLOYED" ELSE "FUNDED"
    /\ req' = [req EXCEPT ![r] =
          [Idle EXCEPT !.op = op, !.step = "wallet", !.app = e.app]]
    /\ UNCHANGED <<chain, database>>

Submit(r) ==
    /\ req[r].step = "wallet"
    /\ IF req[r].op = "peraFund" => Load(row).status = "DEPLOYED"
       THEN Goto(r, "chain")
       ELSE End(r)
    /\ UNCHANGED <<chain, database>>

(***************************************************************************)
(* Recording on the aggregate.                                             *)
(***************************************************************************)
CanRecord(op, e) ==
    CASE op \in DeployOps  -> CanDeploy(e)
      [] op \in FundOps    -> CanFund(e)
      [] op \in ReleaseOps -> CanRelease(e)
      [] op \in RefundOps  -> CanRefund(e)
      [] op = "freeze"     -> CanFreeze(e)
      [] op = "unfreeze"   -> CanUnfreeze(e)

Recorded(q, e) ==
    CASE q.op \in DeployOps  -> Deployed(e, q.app)
      [] q.op \in FundOps    -> Funded(e, q.tx)
      [] q.op \in ReleaseOps -> Released(e, q.tx, q.root)
      [] q.op \in RefundOps  -> Refunded(e, q.tx)
      [] q.op = "freeze"     -> Frozen(e)
      [] q.op = "unfreeze"   -> Unfrozen(e)

\* The record_* method runs on aggregate e; a guard that fails raises.
Record(r, q, e) ==
    IF CanRecord(q.op, e)
    THEN req' = [req EXCEPT ![r] =
                    [q EXCEPT !.escrow = Recorded(q, e), !.step = "merge"]]
    ELSE End(r)

\* What follows a confirmed transaction: record_pera_* loads the row again,
\* release_escrow anchors the root, the others record on what they loaded.
Confirmed(r, q) ==
    IF q.op \in RereadOps
    THEN req' = [req EXCEPT ![r] = [q EXCEPT !.step = "reread"]]
    ELSE IF q.op = "release"
    THEN req' = [req EXCEPT ![r] = [q EXCEPT !.step = "anchor"]]
    ELSE Record(r, q, q.escrow)

(***************************************************************************)
(* The chain.                                                              *)
(***************************************************************************)
CallKind(op) ==
    CASE op \in DeployOps  -> "deploy"
      [] op \in PlainOps   -> "pay"
      [] op = "peraFund"   -> "fund"
      [] op \in ReleaseOps -> "release"
      [] op \in RefundOps  -> "refund"
      [] OTHER             -> op

\* The wallet that deployed a contract is its creator, and signs its release.
Accepts(op, a) ==
    CASE op \in PlainOps -> TRUE
      [] op = "peraFund" -> FundAccepted(a, [receiver |-> "app", amount |-> Amount])
      [] op \in NoOpOps  -> NoOpAccepted(a)
      [] OTHER           -> PayoutAccepted(a, TRUE)

After(op, a) ==
    CASE op \in PlainOps    -> Credited(a, PlainAmount)
      [] op = "peraFund"    -> AppFunded(a, [receiver |-> "app", amount |-> Amount])
      [] op = "peraRelease" -> AppReleased(a)
      [] op = "peraRefund"  -> AppRefunded(a)
      [] OTHER              -> a

\* The gateway may raise although the transaction landed: waiting for its
\* confirmation, or the 0.1 ALGO payment after a deployment, failed.
Answered(r, q) == Confirmed(r, q) \/ End(r)

\* The platform wallet installs the minimal program, the Pera wallet the
\* CadenciaEscrow contract.
CreateApp(r) ==
    LET id == Len(apps) + 1
        q  == [req[r] EXCEPT !.app = id, !.tx = Len(ledger) + 1]
    IN  /\ req[r].step = "chain"
        /\ req[r].op \in DeployOps
        /\ Len(apps) < MaxApps /\ Len(ledger) < MaxCalls
        /\ apps' = Append(apps, IF req[r].op = "peraDeploy" THEN Initialized ELSE MinimalApp)
        /\ ledger' = Append(ledger, [call |-> "deploy", app |-> id])
        /\ Answered(r, q)
        /\ UNCHANGED database

\* release_escrow reads the audit entries first, and makes some up if there are
\* none or the query fails; platform_release_escrow and record_pera_release use
\* compute_merkle_root, which never gets any.
RootsFor(op) ==
    IF op \notin ReleaseOps THEN {"none"}
    ELSE IF op # "release" THEN {"idhash"}
    ELSE {"stub"} \cup IF audit = {} THEN {} ELSE {"trail"}

CallApp(r) ==
    LET op == req[r].op
        id == req[r].app
        tx == Len(ledger) + 1
    IN  /\ req[r].step = "chain"
        /\ op \notin DeployOps
        /\ Len(ledger) < MaxCalls
        /\ Accepts(op, apps[id])
        /\ apps' = [apps EXCEPT ![id] = After(op, apps[id])]
        /\ ledger' = Append(ledger, [call |-> CallKind(op), app |-> id])
        /\ \E root \in RootsFor(op) :
              Answered(r, [req[r] EXCEPT !.tx = tx, !.root = root])
        /\ UNCHANGED database

\* A mutated form: the exception of the gateway is logged and not raised again.
ChainFailsUnnoticed(r) ==
    /\ req[r].step = "chain"
    /\ Confirmed(r, req[r])
    /\ UNCHANGED <<chain, database>>

\* The gateway raises before anything landed, or the program rejected the call.
ChainFails(r) ==
    /\ req[r].step = "chain"
    /\ End(r)
    /\ UNCHANGED <<chain, database>>

\* AnchorService.anchor_root; without a mnemonic its stand-in always raises.
Anchor(r) ==
    /\ req[r].step = "anchor"
    /\ Record(r, req[r], req[r].escrow) \/ End(r)
    /\ UNCHANGED <<chain, database>>

(***************************************************************************)
(* Back in the database.                                                   *)
(***************************************************************************)

\* record_pera_*: a deployment that finds no row makes one, and one that finds
\* an application id returns without a change.
Reread(r) ==
    /\ req[r].step = "reread"
    /\ IF Seen(r) # NoRow
       THEN Record(r, req[r], Load(Seen(r)))
       ELSE IF req[r].op \in DeployOps
       THEN req' = [req EXCEPT ![r].step   = "insert",
                               ![r].escrow = Deployed(NewEscrow("DEPLOYED"), req[r].app)]
       ELSE End(r)
    /\ UNCHANGED <<chain, database>>

\* The operations whose event has a compliance handler.
Publishing == {"deploy", "freeze"} \cup FundOps \cup ReleaseOps \cup RefundOps

EventOf(op) ==
    CASE op \in DeployOps  -> "EscrowDeployed"
      [] op \in FundOps    -> "EscrowFunded"
      [] op \in ReleaseOps -> "EscrowReleased"
      [] op \in RefundOps  -> "EscrowRefunded"
      [] OTHER             -> "EscrowFrozen"

\* A mutated form: the event is published before the commit.
MergePublishing(r) ==
    /\ req[r].step = "merge"
    /\ req' = [req EXCEPT ![r].base = Seen(r), ![r].step = "flush"]
    /\ audit' = audit \cup {EventOf(req[r].op)}
    /\ UNCHANGED <<chain, row, settlements, compliance>>

\* Session.merge selects the row it is about to overwrite, unless it holds it ...
Merge(r) ==
    /\ req[r].step = "merge"
    /\ req' = [req EXCEPT ![r].base = Seen(r), ![r].step = "flush"]
    /\ UNCHANGED <<chain, database>>

\* ... and the UPDATE sets the columns that differ from what it selected.
Merged(new, base, current) ==
    [status    |-> IF new.status    # base.status    THEN new.status    ELSE current.status,
     frozen    |-> IF new.frozen    # base.frozen    THEN new.frozen    ELSE current.frozen,
     app       |-> IF new.app       # base.app       THEN new.app       ELSE current.app,
     fundTx    |-> IF new.fundTx    # base.fundTx    THEN new.fundTx    ELSE current.fundTx,
     releaseTx |-> IF new.releaseTx # base.releaseTx THEN new.releaseTx ELSE current.releaseTx,
     refundTx  |-> IF new.refundTx  # base.refundTx  THEN new.refundTx  ELSE current.refundTx,
     root      |-> IF new.root      # base.root      THEN new.root      ELSE current.root]

\* UPDATE (the CHECK constraint may refuse it), the INSERT of the settlement
\* for a release, and COMMIT.
Flush(r) ==
    LET new == Store(req[r].escrow) IN
    /\ req[r].step = "flush"
    /\ IF new.status \in StorableStatus
       THEN /\ row' = Merged(new, req[r].base, row)
            /\ settlements' = IF req[r].op \in ReleaseOps
                              THEN settlements \cup {req[r].tx} ELSE settlements
            /\ IF req[r].op \in Publishing THEN Goto(r, "publish") ELSE End(r)
       ELSE /\ End(r)
            /\ UNCHANGED <<row, settlements>>
    /\ UNCHANGED <<audit, compliance, chain>>

\* After the commit the event is dispatched in process.  A compliance handler
\* appends an audit entry and, for a release, then writes the FEMA and GST
\* records; whatever it raises is logged and dropped.
Publish(r) ==
    /\ req[r].step = "publish"
    /\ \/ UNCHANGED <<audit, compliance>>
       \/ /\ audit' = audit \cup {EventOf(req[r].op)}
          /\ compliance' \in IF req[r].op \in ReleaseOps THEN {compliance, TRUE} ELSE {compliance}
    /\ End(r)
    /\ UNCHANGED <<row, settlements, chain>>

\* The process dies, or the user never signs.
Crash(r) ==
    /\ req[r] # Idle
    /\ End(r)
    /\ UNCHANGED <<chain, database>>

Next == \E r \in Requests :
          \/ \E op \in Operations : \/ Begin(r, op)
                                    \/ BeginInsert(r, op)
                                    \/ BeginSignedDeploy(r, op)
                                    \/ Build(r, op)
          \/ Insert(r) \/ Lookup(r) \/ Submit(r) \/ CreateApp(r) \/ CallApp(r) \/ ChainFails(r)
          \/ Anchor(r) \/ Reread(r) \/ Merge(r) \/ Flush(r) \/ Publish(r) \/ Crash(r)

Spec == Init /\ [][Next]_vars

(***************************************************************************)
(* Safety, whatever the interleaving, the losses and the crashes.          *)
(***************************************************************************)

\* tx is the ledger entry of an accepted call of one of these kinds.
Cites(tx, kinds) == tx \in 1..Len(ledger) /\ ledger[tx].call \in kinds

\* No column and no settlement names a transaction that did not happen, or that
\* happened as something else: what record_* writes was confirmed by the chain
\* under that name, even when it is carried over by a stale aggregate.
EveryTxIsReal ==
    /\ row.fundTx    # NoTx  => Cites(row.fundTx, {"pay", "fund"})
    /\ row.releaseTx # NoTx  => Cites(row.releaseTx, {"release"})
    /\ row.refundTx  # NoTx  => Cites(row.refundTx, {"refund"})
    /\ row.app       # NoApp => row.app \in 1..Len(apps)
    /\ \A t \in settlements : Cites(t, {"release"})

\* Whether the chain ever accepted a call of one of these kinds.
Happened(kinds) == \E tx \in 1..Len(ledger) : ledger[tx].call \in kinds

\* Compliance never runs ahead of the money: tax records exist only after the
\* release is in the audit log, which needs a committed settlement; funding and
\* refund entries need a confirmed payment and a confirmed refund call.
PaperTrail ==
    /\ compliance => "EscrowReleased" \in audit
    /\ "EscrowReleased" \in audit => settlements # {}
    /\ "EscrowFunded"   \in audit => Happened({"pay", "fund"})
    /\ "EscrowRefunded" \in audit => Happened({"refund"})

OnPuya(tx) == apps[ledger[tx].app].kind = "puya"

\* Where the application is a CadenciaEscrow contract a settlement is worth its
\* name: the seller holds the amount, no second settlement cites the same
\* contract, and no row calls that contract refunded.
ContractSettlesOnce ==
    \A t \in settlements : OnPuya(t) =>
        /\ apps[ledger[t].app].status = "RELEASED"
        /\ apps[ledger[t].app].toSeller = Amount
        /\ \A u \in settlements : ledger[u].app = ledger[t].app => u = t
        /\ row.refundTx # NoTx => ledger[row.refundTx].app # ledger[t].app

(***************************************************************************)
(* One request at a time.                                                  *)
(***************************************************************************)
Settled == {"RELEASED", "REFUNDED"}

\* Requests served one after the other never change a settled row, whichever
\* endpoints they use and wherever they crash.
TerminalIsFinal == [][row.status \in Settled => row' = row]_vars

\* ... a row is RELEASED exactly when it has its one settlement,
SettledOnce == IF row.status = "RELEASED" THEN settlements = {row.releaseTx}
                                          ELSE settlements = {}

(***************************************************************************)
(* The Pera wallet's endpoints alone, concurrently.                        *)
(***************************************************************************)
OneContract == Len(apps) = 1

\* With one contract the database never runs ahead of it: a status the row
\* shows is one the contract has reached, whatever was lost or raced.
NeverAheadOfChain ==
    OneContract =>
        /\ row.status = "FUNDED" => apps[1].status \in {"FUNDED"} \cup Settled
        /\ row.status \in Settled => apps[1].status = row.status

\* ... and the contract serialises what the database does not: only a rejection
\* that was read before the deployment changes a settled row.  It may call it
\* REJECTED, or, after another rejection, only take its application away.
ContractSerialises ==
    [][OneContract /\ row.status \in Settled /\ row' # row =>
           /\ row'.status \in {row.status, "REJECTED"}
           /\ \E r \in Requests : /\ req[r].op = "reject" /\ req[r].step = "flush"
                                  /\ req[r].escrow.app = NoApp]_vars

(***************************************************************************)
(* What the repository says of itself and the code does not keep: refuted  *)
(* by a run of its own.                                                    *)
(***************************************************************************)

\* EscrowStatus: "RELEASED = 2  Funds sent to seller."
ReleasedMeansPaid ==
    row.status = "RELEASED" => \E id \in 1..Len(apps) : apps[id].toSeller > 0
==============================================================================
