------------------------------ MODULE EscrowApp ------------------------------
(***************************************************************************)
(* The on-chain side of an escrow: what an Algorand application does with  *)
(* each kind of call.  Two programs exist.                                 *)
(*                                                                         *)
(*   "puya"     CadenciaEscrow (contracts/escrow_contract.py), deployed    *)
(*              by the buyer's Pera wallet.                                *)
(*   "minimal"  the approve-everything program that                        *)
(*              AlgorandGateway.deploy_escrow installs for the platform    *)
(*              wallet.  It keeps no state and never pays anybody.         *)
(*                                                                         *)
(* An application is a record; the operators below are pure, so that the   *)
(* contract can be checked alone (EscrowContract) and under the backend    *)
(* (Settlement).  Amounts are in units; fees and the 0.1 ALGO minimum      *)
(* balance of the application account are not part of the balance here.    *)
(***************************************************************************)
EXTENDS Integers

CONSTANT Amount            \* the escrow amount stored by initialize()

ASSUME AmountAssumption == Amount \in Nat

AppKinds == {"puya", "minimal"}

\* Status codes 0..3 of the contract.
AppStatuses == {"DEPLOYED", "FUNDED", "RELEASED", "REFUNDED"}

App == [kind     : AppKinds,
        status   : AppStatuses,
        frozen   : BOOLEAN,
        balance  : Nat,        \* units the application account can pay out
        toSeller : Nat,        \* units paid by inner payments, by receiver
        toBuyer  : Nat]

(***************************************************************************)
(* Creation.                                                               *)
(***************************************************************************)
NewApp(kind) == [kind     |-> kind,
                 status   |-> "DEPLOYED",
                 frozen   |-> FALSE,
                 balance  |-> 0,
                 toSeller |-> 0,
                 toBuyer  |-> 0]

\* initialize(), which is required to be the creating call.
Initialized == NewApp("puya")

\* The create transaction of the minimal program.
MinimalApp == NewApp("minimal")

(***************************************************************************)
(* A plain payment to the application's address: no program runs.          *)
(***************************************************************************)
Credited(a, n) == [a EXCEPT !.balance = @ + n]

(***************************************************************************)
(* fund(payment): the payment and the call form one atomic group.          *)
(***************************************************************************)
FundAccepted(a, payment) ==
    a.kind = "puya" => /\ a.status = "DEPLOYED"
                       /\ ~a.frozen
                       /\ payment.receiver = "app"
                       /\ payment.amount = Amount

AppFunded(a, payment) ==
    IF a.kind = "puya"
    THEN [Credited(a, payment.amount) EXCEPT !.status = "FUNDED"]
    ELSE Credited(a, payment.amount)

(***************************************************************************)
(* release(merkle_root) and refund(reason).  The inner payment fails, and  *)
(* with it the call, when the account does not hold the amount.            *)
(***************************************************************************)
\* A mutated form: only the caller and the freeze are checked.
PayoutUnchecked(a, byCreator) == a.kind = "puya" => byCreator /\ ~a.frozen

PayoutAccepted(a, byCreator) ==
    a.kind = "puya" => /\ byCreator
                       /\ a.status = "FUNDED"
                       /\ ~a.frozen
                       /\ a.balance >= Amount

\* A mutated form: release() forgets to move the status on.
AppPaysSeller(a) ==
    IF a.kind = "puya"
    THEN [a EXCEPT !.balance = @ - Amount, !.toSeller = @ + Amount]
    ELSE a

AppReleased(a) ==
    IF a.kind = "puya"
    THEN [a EXCEPT !.status   = "RELEASED",
                   !.balance  = @ - Amount,
                   !.toSeller = @ + Amount]
    ELSE a

AppRefunded(a) ==
    IF a.kind = "puya"
    THEN [a EXCEPT !.status  = "REFUNDED",
                   !.balance = @ - Amount,
                   !.toBuyer = @ + Amount]
    ELSE a

(***************************************************************************)
(* freeze() and unfreeze().                                                *)
(***************************************************************************)
FreezeAccepted(a, byParty) == a.kind = "puya" => byParty

AppFrozen(a) == IF a.kind = "puya" THEN [a EXCEPT !.frozen = TRUE] ELSE a

UnfreezeAccepted(a, byCreator) == a.kind = "puya" => byCreator /\ a.frozen

AppUnfrozen(a) == IF a.kind = "puya" THEN [a EXCEPT !.frozen = FALSE] ELSE a

(***************************************************************************)
(* The NoOp call of AlgorandGateway._send_app_noop: its only argument is   *)
(* the word "release", "refund", "freeze" or "unfreeze".  The ARC-4 router *)
(* of the Puya contract knows no such selector and rejects; the minimal    *)
(* program approves and does nothing.                                      *)
(***************************************************************************)
NoOpAccepted(a) == a.kind = "minimal"
==============================================================================
