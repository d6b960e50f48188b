--------------------------- MODULE EscrowAggregate ---------------------------
(***************************************************************************)
(* The Escrow aggregate of settlement/domain/escrow.py and the mapping of  *)
(* settlement/infrastructure/repositories.py between it and its row in     *)
(* escrow_contracts.  Each record_* method is a guard (it raises when the  *)
(* guard is false) and the aggregate it leaves.                            *)
(*                                                                         *)
(* Columns no guard reads and no property mentions (addresses, amount,     *)
(* timestamps, deploy_tx_id, which is set together with algo_app_id) are   *)
(* left out.  An absent row is a record too, so that rows have one type.   *)
(***************************************************************************)
EXTENDS Naturals

NoApp == 0      \* algo_app_id is None; applications are numbered from 1
NoTx  == 0      \* a transaction id is None; ledger entries are numbered from 1

\* EscrowStatus; ABSENT stands for "there is no row".
EscrowStatus == {"ABSENT", "PENDING_APPROVAL", "APPROVED", "DEPLOYED", "FUNDED",
                 "RELEASED", "REFUNDED", "REJECTED", "FROZEN"}

\* What ck_escrow_contracts_status lets the status column hold.
StorableStatus == {"PENDING_APPROVAL", "DEPLOYED", "FUNDED", "RELEASED",
                   "REFUNDED", "REJECTED"}

\* Where a Merkle root came from: the audit entries of the escrow, the entries
\* _build_stub_audit_entries makes up, or the hash of the escrow's own id.
Roots == {"none", "trail", "stub", "idhash"}

Columns == {"status", "frozen", "app", "fundTx", "releaseTx", "refundTx", "root"}

Escrow == [status    : EscrowStatus,
           frozen    : BOOLEAN,
           app       : Nat,
           fundTx    : Nat,
           releaseTx : Nat,
           refundTx  : Nat,
           root      : Roots]

NewEscrow(status) == [status    |-> status,
                      frozen    |-> FALSE,
                      app       |-> NoApp,
                      fundTx    |-> NoTx,
                      releaseTx |-> NoTx,
                      refundTx  |-> NoTx,
                      root      |-> "none"]

NoRow == NewEscrow("ABSENT")

(***************************************************************************)
(* Row and aggregate.                                                      *)
(***************************************************************************)
\* _model_to_escrow: a frozen row loads as FROZEN whatever its status column.
Load(row) ==
    [row EXCEPT !.status = IF row.frozen THEN "FROZEN" ELSE row.status]

\* _escrow_to_model: FROZEN is written as FUNDED with the flag set.
Store(e) ==
    [e EXCEPT !.status = IF e.status = "FROZEN" THEN "FUNDED" ELSE e.status,
              !.frozen = e.frozen \/ e.status = "FROZEN"]

(***************************************************************************)
(* The transitions.                                                        *)
(***************************************************************************)
CanApprove(e) == e.status = "PENDING_APPROVAL"
Approved(e)   == [e EXCEPT !.status = "APPROVED"]

CanReject(e) == e.status = "PENDING_APPROVAL"
Rejected(e)  == [e EXCEPT !.status = "REJECTED"]

\* The only guard is the double-deploy guard: the status is not looked at.
CanDeploy(e)     == e.app = NoApp
Deployed(e, app) == [e EXCEPT !.status = "DEPLOYED", !.app = app]

CanFund(e)    == ~e.frozen /\ e.status = "DEPLOYED"
Funded(e, tx) == [e EXCEPT !.status = "FUNDED", !.fundTx = tx]

\* Mutated forms: a release from any status, or noted in the funding column.
CanReleaseAnyStatus(e)       == ~e.frozen
ReleasedAsFund(e, tx, root)  == [e EXCEPT !.status = "RELEASED", !.fundTx = tx,
                                          !.root = root]

CanRelease(e)          == ~e.frozen /\ e.status = "FUNDED"
Released(e, tx, root)  == [e EXCEPT !.status = "RELEASED", !.releaseTx = tx,
                                    !.root = root]

\* A mutated form: any status but REFUNDED can be refunded.
CanRefundAnything(e) == e.status # "REFUNDED"

\* Refund is allowed while frozen.
CanRefund(e)    == e.status \in {"FUNDED", "FROZEN"}
Refunded(e, tx) == [e EXCEPT !.status = "REFUNDED", !.frozen = FALSE,
                             !.refundTx = tx]

CanFreeze(e) == e.status \notin {"RELEASED", "REFUNDED"} /\ ~e.frozen
Frozen(e)    == [e EXCEPT !.status = "FROZEN", !.frozen = TRUE]

\* The status before the freeze is not remembered.
CanUnfreeze(e) == e.frozen
Unfrozen(e)    == [e EXCEPT !.status = "FUNDED", !.frozen = FALSE]
==============================================================================
