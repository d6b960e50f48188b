--------------------------- MODULE EscrowContract ----------------------------
(***************************************************************************)
(* One CadenciaEscrow application under every call anybody may send it, in *)
(* any order: contracts/escrow_contract.py.  Besides the contract's own    *)
(* methods the ledger allows a plain payment to the application's address; *)
(* AlgorandGateway.fund_escrow sends exactly that.                         *)
(***************************************************************************)
EXTENDS EscrowApp

CONSTANTS Buyer, Seller,   \* the addresses given to initialize()
          Creator,         \* the account that created the application
          Accounts,        \* every account that may send a transaction
          Payments,        \* the payments an account may make
          MaxPaidIn        \* bound: units ever paid to the application

ASSUME AccountsAssumption == {Buyer, Seller, Creator} \subseteq Accounts

ASSUME PaymentsAssumption ==
    Payments \subseteq [receiver : {"app", "other"}, amount : Nat]

VARIABLES app,      \* the application, or NotCreated
          paidIn    \* units paid to its address so far

vars == <<app, paidIn>>

NotCreated == [kind |-> "none"]

Created == app # NotCreated

TypeOK == /\ app \in {a \in App : a.kind = "puya"} \cup {NotCreated}
          /\ paidIn \in Nat

Init == /\ app = NotCreated
        /\ paidIn = 0

(***************************************************************************)
(* The calls.                                                              *)
(***************************************************************************)
Initialize ==
    /\ ~Created
    /\ app' = Initialized
    /\ UNCHANGED paidIn

\* A mutated form: fund() without its status guard.
FundTwice(payment) ==
    /\ Created
    /\ ~app.frozen /\ payment.receiver = "app" /\ payment.amount = Amount
    /\ paidIn + payment.amount <= MaxPaidIn
    /\ app' = AppFunded(app, payment)
    /\ paidIn' = paidIn + payment.amount

\* A mutated form: fund() without the check of the amount (SRS-SC-002).
FundAnyAmount(payment) ==
    /\ Created
    /\ app.status = "DEPLOYED" /\ ~app.frozen /\ payment.receiver = "app"
    /\ paidIn + payment.amount <= MaxPaidIn
    /\ app' = AppFunded(app, payment)
    /\ paidIn' = paidIn + payment.amount

Fund(payment) ==
    /\ Created
    /\ FundAccepted(app, payment)
    /\ paidIn + payment.amount <= MaxPaidIn
    /\ app' = AppFunded(app, payment)
    /\ paidIn' = paidIn + payment.amount

Release(sender) ==
    /\ Created
    /\ PayoutAccepted(app, sender = Creator)
    /\ app' = AppReleased(app)
    /\ UNCHANGED paidIn

\* A mutated form: refund() without its status guard.
RefundAnyStatus(sender) ==
    /\ Created
    /\ sender = Creator /\ ~app.frozen /\ app.balance >= Amount
    /\ app' = AppRefunded(app)
    /\ UNCHANGED paidIn

Refund(sender) ==
    /\ Created
    /\ PayoutAccepted(app, sender = Creator)
    /\ app' = AppRefunded(app)
    /\ UNCHANGED paidIn

Freeze(sender) ==
    /\ Created
    /\ FreezeAccepted(app, sender \in {Buyer, Seller, Creator})
    /\ app' = AppFrozen(app)
    /\ UNCHANGED paidIn

Unfreeze(sender) ==
    /\ Created
    /\ UnfreezeAccepted(app, sender = Creator)
    /\ app' = AppUnfrozen(app)
    /\ UNCHANGED paidIn

\* A payment to the application's address that calls no method.
PlainPayment(payment) ==
    /\ Created
    /\ payment.receiver = "app"
    /\ paidIn + payment.amount <= MaxPaidIn
    /\ app' = Credited(app, payment.amount)
    /\ paidIn' = paidIn + payment.amount

Next == \/ Initialize
        \/ \E p \in Payments : Fund(p) \/ PlainPayment(p)
        \/ \E s \in Accounts : Release(s) \/ Refund(s) \/ Freeze(s) \/ Unfreeze(s)

Spec == Init /\ [][Next]_vars

(***************************************************************************)
(* Properties.                                                             *)
(***************************************************************************)

\* Every unit that was ever paid to the application is in its account or was
\* paid to one of the parties, and the parties together got the agreed amount
\* exactly when the contract says it is over: release() and refund() can never
\* both happen, nor either of them twice.
PaidOutOnce ==
    Created =>
        /\ paidIn = app.balance + app.toSeller + app.toBuyer
        /\ app.toSeller = IF app.status = "RELEASED" THEN Amount ELSE 0
        /\ app.toBuyer  = IF app.status = "REFUNDED" THEN Amount ELSE 0

\* A FUNDED contract always holds the amount its inner payment needs, so that
\* release() and refund() cannot fail for want of money, whatever plain
\* payments came before or after fund().
Solvent == Created /\ app.status = "FUNDED" => app.balance >= Amount

\* What the account holds beyond the escrowed amount.
Surplus == IF ~Created THEN 0
           ELSE IF app.status = "FUNDED" THEN app.balance - Amount
           ELSE app.balance

\* Units sent to the address outside fund() are never paid out again: no
\* sequence of calls lowers the surplus.  This is what happens to the money of
\* AlgorandGateway.fund_escrow when the application is a CadenciaEscrow.
SurplusIsLocked == [][Surplus' >= Surplus]_vars

\* While the contract is frozen no money leaves it and its status stands.
FrozenHolds ==
    [][Created /\ app.frozen /\ Created' =>
          /\ app'.status = app.status
          /\ app'.toSeller = app.toSeller
          /\ app'.toBuyer = app.toBuyer]_vars

(***************************************************************************)
(* The contract implements EscrowPromise.                                  *)
(***************************************************************************)
holderOf == IF ~Created THEN "outside"
            ELSE CASE app.status = "DEPLOYED" -> "outside"
                   [] app.status = "FUNDED"   -> "escrow"
                   [] app.status = "RELEASED" -> "seller"
                   [] app.status = "REFUNDED" -> "buyer"

frozenOf == Created /\ app.frozen

Promise == INSTANCE EscrowPromise WITH holder <- holderOf, frozen <- frozenOf

\* Deposit once, pay exactly one party, stand still while frozen: the
\* contract's steps are steps of EscrowPromise or leave it unchanged.
KeepsPromise == Promise!Spec
==============================================================================
