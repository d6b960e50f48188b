------------------------- MODULE EscrowContractProofs ------------------------
(***************************************************************************)
(* Proofs about the CadenciaEscrow contract, for every escrow amount, every *)
(* set of accounts and of payments, and with no bound on what is paid.     *)
(***************************************************************************)
EXTENDS EscrowContract, TLAPS

\* The three invariants are proved together: release() and refund() keep the
\* balance a natural number because they are only accepted when it covers the
\* amount, and PaidOutOnce needs the status to rule out a second payout.
ContractInv == TypeOK /\ PaidOutOnce /\ Solvent /\ (~Created => paidIn = 0)

\* What ContractInv says of an application that exists, without the union
\* type: the form in which the steps use it.
GoodApp(a, paid) ==
    /\ a \in App
    /\ a.kind = "puya"
    /\ paid = a.balance + a.toSeller + a.toBuyer
    /\ a.toSeller = (IF a.status = "RELEASED" THEN Amount ELSE 0)
    /\ a.toBuyer = (IF a.status = "REFUNDED" THEN Amount ELSE 0)
    /\ a.status = "FUNDED" => a.balance >= Amount

\* NotCreated is not a record an application can be.
LEMMA GoodAppIsCreated == \A a : a \in App => a # NotCreated
<1> SUFFICES ASSUME NEW a \in App, a = NotCreated PROVE FALSE
  OBVIOUS
<1>1. a.kind = "none"
  BY DEF NotCreated
<1>2. a.kind \in {"puya", "minimal"}
  BY DEF App, AppKinds
<1> QED
  BY <1>1, <1>2

\* The invariant, said of a good application and the units paid to it.
LEMMA ContractInvIs ==
  ContractInv <=> /\ paidIn \in Nat
                  /\ (app = NotCreated /\ paidIn = 0) \/ GoodApp(app, paidIn)
BY GoodAppIsCreated, Zenon
   DEF ContractInv, TypeOK, PaidOutOnce, Solvent, Created, GoodApp

\* Nothing has been created or paid yet.
LEMMA ContractInit == Init => ContractInv
BY ContractInvIs DEF Init

\* Initialize creates a good application.
LEMMA InitializedIsGood == GoodApp(Initialized, 0)
BY DEF GoodApp, Initialized, NewApp, App, AppKinds, AppStatuses

\* Each call, applied to a good application, leaves one.
LEMMA CreditedIsGood ==
  ASSUME NEW a, NEW paid \in Nat, NEW n \in Nat, GoodApp(a, paid)
  PROVE  GoodApp(Credited(a, n), paid + n)
BY AmountAssumption DEF GoodApp, Credited, App, AppStatuses

\* An accepted fund() brings exactly the agreed amount.
LEMMA FundIsGood ==
  ASSUME NEW a, NEW paid \in Nat, NEW p \in Payments,
         GoodApp(a, paid), FundAccepted(a, p)
  PROVE  GoodApp(AppFunded(a, p), paid + p.amount)
<1> DEFINE c == Credited(a, p.amount)
           b == AppFunded(a, p)
<1>1. /\ a \in App /\ a.kind = "puya" /\ a.status = "DEPLOYED"
      /\ p.amount = Amount /\ a.balance \in Nat
  BY DEF GoodApp, FundAccepted, App
<1>2. c \in App /\ c.kind = "puya" /\ c.balance = a.balance + Amount
      /\ c.toSeller = a.toSeller /\ c.toBuyer = a.toBuyer
  BY <1>1, AmountAssumption DEF App, Credited
<1>3. b = [c EXCEPT !.status = "FUNDED"]
  BY <1>1 DEF AppFunded
<1>4. b \in App /\ b.kind = "puya" /\ b.status = "FUNDED" /\ b.balance = c.balance
      /\ b.toSeller = c.toSeller /\ b.toBuyer = c.toBuyer
  BY <1>2, <1>3 DEF App, AppStatuses
<1>5. paid = a.balance /\ a.toSeller = 0 /\ a.toBuyer = 0
  BY <1>1 DEF GoodApp
<1> QED
  BY <1>1, <1>2, <1>4, <1>5, AmountAssumption DEF GoodApp

\* An accepted release() moves the agreed amount to the seller.
LEMMA ReleaseIsGood ==
  ASSUME NEW a, NEW paid \in Nat, NEW c, GoodApp(a, paid), PayoutAccepted(a, c)
  PROVE  GoodApp(AppReleased(a), paid)
<1> DEFINE b == AppReleased(a)
<1>1. /\ a \in App /\ a.kind = "puya" /\ a.status = "FUNDED"
      /\ a.balance \in Nat /\ a.balance >= Amount
  BY DEF GoodApp, PayoutAccepted, App
<1>2. a.balance - Amount \in Nat /\ 0 + Amount \in Nat
  BY <1>1, AmountAssumption
<1>3. paid = a.balance /\ a.toSeller = 0 /\ a.toBuyer = 0
  BY <1>1 DEF GoodApp
<1>4. b \in App
  BY <1>1, <1>2, <1>3 DEF App, AppReleased, AppStatuses
<1>5. b.kind = "puya" /\ b.status = "RELEASED" /\ b.balance = a.balance - Amount
      /\ b.toSeller = Amount /\ b.toBuyer = 0
  BY <1>1, <1>3, AmountAssumption DEF App, AppReleased
<1> QED
  BY <1>1, <1>3, <1>4, <1>5, AmountAssumption DEF GoodApp

\* An accepted refund() moves the agreed amount to the buyer.
LEMMA RefundIsGood ==
  ASSUME NEW a, NEW paid \in Nat, NEW c, GoodApp(a, paid), PayoutAccepted(a, c)
  PROVE  GoodApp(AppRefunded(a), paid)
<1> DEFINE b == AppRefunded(a)
<1>1. /\ a \in App /\ a.kind = "puya" /\ a.status = "FUNDED"
      /\ a.balance \in Nat /\ a.balance >= Amount
  BY DEF GoodApp, PayoutAccepted, App
<1>2. a.balance - Amount \in Nat /\ 0 + Amount \in Nat
  BY <1>1, AmountAssumption
<1>3. paid = a.balance /\ a.toSeller = 0 /\ a.toBuyer = 0
  BY <1>1 DEF GoodApp
<1>4. b \in App
  BY <1>1, <1>2, <1>3 DEF App, AppRefunded, AppStatuses
<1>5. b.kind = "puya" /\ b.status = "REFUNDED" /\ b.balance = a.balance - Amount
      /\ b.toBuyer = Amount /\ b.toSeller = 0
  BY <1>1, <1>3, AmountAssumption DEF App, AppRefunded
<1> QED
  BY <1>1, <1>3, <1>4, <1>5, AmountAssumption DEF GoodApp

\* freeze() and unfreeze() move nothing.
LEMMA FlagIsGood ==
  ASSUME NEW a, NEW paid \in Nat, GoodApp(a, paid)
  PROVE  GoodApp(AppFrozen(a), paid) /\ GoodApp(AppUnfrozen(a), paid)
BY DEF GoodApp, AppFrozen, AppUnfrozen, App, AppStatuses

\* Every call of the contract, accepted or not, preserves the invariant.
LEMMA ContractStep == ContractInv /\ [Next]_vars => ContractInv'
<1> DEFINE Inv == /\ paidIn \in Nat
                  /\ (app = NotCreated /\ paidIn = 0) \/ GoodApp(app, paidIn)
<1> SUFFICES ASSUME Inv, [Next]_vars PROVE Inv'
  BY ContractInvIs, PTL
<1>1. CASE Initialize
  <2>1. app = NotCreated
    BY <1>1 DEF Initialize, Created
  <2>2. paidIn = 0
    BY <2>1, GoodAppIsCreated DEF GoodApp
  <2> QED
    BY <1>1, <2>2, InitializedIsGood DEF Initialize
<1>2. ASSUME NEW p \in Payments, Fund(p) PROVE Inv'
  BY <1>2, FundIsGood, PaymentsAssumption DEF Fund, Created
<1>3. ASSUME NEW p \in Payments, PlainPayment(p) PROVE Inv'
  <2>1. p.amount \in Nat /\ paidIn \in Nat /\ GoodApp(app, paidIn)
    BY <1>3, PaymentsAssumption DEF PlainPayment, Created
  <2>2. app' = Credited(app, p.amount) /\ paidIn' = paidIn + p.amount
    BY <1>3 DEF PlainPayment
  <2>3. GoodApp(Credited(app, p.amount), paidIn + p.amount)
    BY <2>1, CreditedIsGood
  <2> QED
    BY <2>1, <2>2, <2>3
<1>4. ASSUME NEW s \in Accounts, Release(s) PROVE Inv'
  BY <1>4, ReleaseIsGood DEF Release, Created
<1>5. ASSUME NEW s \in Accounts, Refund(s) PROVE Inv'
  BY <1>5, RefundIsGood DEF Refund, Created
<1>6. ASSUME NEW s \in Accounts, Freeze(s) PROVE Inv'
  BY <1>6, FlagIsGood DEF Freeze, Created
<1>7. ASSUME NEW s \in Accounts, Unfreeze(s) PROVE Inv'
  BY <1>7, FlagIsGood DEF Unfreeze, Created
<1>8. CASE UNCHANGED vars
  BY <1>8 DEF vars
<1> QED
  BY <1>1, <1>2, <1>3, <1>4, <1>5, <1>6, <1>7, <1>8 DEF Next

\* The invariant holds in every state the contract reaches.
LEMMA ContractInvariant == Spec => []ContractInv
BY ContractInit, ContractStep, PTL DEF Spec

\* The contract's state always has its type, and its money is accounted for:
\* release() and refund() together pay the agreed amount at most once.
THEOREM PayoutCorrect == Spec => [](TypeOK /\ PaidOutOnce)
<1>1. ContractInv => TypeOK /\ PaidOutOnce
  BY DEF ContractInv
<1> QED
  BY <1>1, ContractInvariant, PTL

\* A funded contract can always pay, whatever plain payments it received.
THEOREM AlwaysSolvent == Spec => []Solvent
<1>1. ContractInv => Solvent
  BY DEF ContractInv
<1> QED
  BY <1>1, ContractInvariant, PTL

\* How each call moves the money of a good application: the lemma that both
\* action properties and the refinement rest on.
LEMMA SurplusStep ==
  ASSUME ContractInv, [Next]_vars
  PROVE  Surplus' >= Surplus
<1> USE AmountAssumption
<1>0. /\ paidIn \in Nat
      /\ (app = NotCreated /\ paidIn = 0) \/ GoodApp(app, paidIn)
  BY ContractInvIs
<1>1. CASE Initialize
  <2>1. app' = Initialized /\ Surplus = 0
    BY <1>1 DEF Initialize, Surplus
  <2>2. Initialized # NotCreated
    BY InitializedIsGood, GoodAppIsCreated DEF GoodApp
  <2>3. Initialized.status = "DEPLOYED" /\ Initialized.balance = 0
    BY DEF Initialized, NewApp
  <2>4. Surplus' = 0
    BY <2>1, <2>2, <2>3 DEF Surplus, Created
  <2>5. 0 >= 0
    OBVIOUS
  <2> QED
    BY <2>1, <2>4, <2>5, Zenon
<1>2. ASSUME Created, Created', app.balance \in Nat, app'.balance \in Nat,
             app'.status = app.status, app'.balance >= app.balance
      PROVE  Surplus' >= Surplus
  BY <1>2 DEF Surplus
<1>3. ASSUME NEW p \in Payments, Fund(p) PROVE Surplus' >= Surplus
  <2>1. /\ Created /\ app \in App /\ app.kind = "puya" /\ app.balance \in Nat
        /\ app.status = "DEPLOYED" /\ p.amount = Amount
        /\ app' = AppFunded(app, p)
    BY <1>0, <1>3 DEF Fund, FundAccepted, Created, GoodApp, App
  <2>2. /\ app'.status = "FUNDED" /\ app'.balance = app.balance + Amount
    <3>1. Credited(app, p.amount) \in App /\ Credited(app, p.amount).balance = app.balance + Amount
      BY <2>1 DEF Credited, App
    <3> QED
      BY <2>1, <3>1 DEF AppFunded, App
  <2>3. Created'
    BY <1>0, <1>3, <2>1, FundIsGood, GoodAppIsCreated DEF Created, Fund, GoodApp
  <2> QED
    BY <2>1, <2>2, <2>3 DEF Surplus
<1>4. ASSUME NEW p \in Payments, PlainPayment(p) PROVE Surplus' >= Surplus
  <2>1. Created /\ GoodApp(app, paidIn) /\ app' = Credited(app, p.amount)
        /\ p.amount \in Nat
    BY <1>0, <1>4, PaymentsAssumption DEF PlainPayment, Created
  <2>2. GoodApp(app', paidIn + p.amount)
    BY <1>0, <2>1, CreditedIsGood
  <2>3. app'.status = app.status /\ app'.balance >= app.balance
        /\ app.balance \in Nat /\ app'.balance \in Nat
    BY <2>1 DEF GoodApp, Credited, App
  <2> QED
    BY <1>2, <2>1, <2>2, <2>3, GoodAppIsCreated DEF GoodApp, Created
<1>5. ASSUME NEW s \in Accounts, Release(s) \/ Refund(s) PROVE Surplus' >= Surplus
  <2>1. Created /\ GoodApp(app, paidIn) /\ PayoutAccepted(app, s = Creator)
        /\ (app' = AppReleased(app) \/ app' = AppRefunded(app))
    BY <1>0, <1>5 DEF Release, Refund, Created
  <2>2. app'.status # "FUNDED" /\ app'.balance = app.balance - Amount
        /\ app.status = "FUNDED" /\ app.balance \in Nat
    BY <2>1 DEF GoodApp, PayoutAccepted, AppReleased, AppRefunded, App
  <2>3. Created'
    BY <1>0, <2>1, ReleaseIsGood, RefundIsGood, GoodAppIsCreated DEF Created, GoodApp
  <2> QED
    BY <2>1, <2>2, <2>3 DEF Surplus
<1>6. ASSUME NEW s \in Accounts, Freeze(s) \/ Unfreeze(s) PROVE Surplus' >= Surplus
  <2>1. Created /\ GoodApp(app, paidIn)
        /\ (app' = AppFrozen(app) \/ app' = AppUnfrozen(app))
    BY <1>0, <1>6 DEF Freeze, Unfreeze, Created
  <2>2. app'.status = app.status /\ app'.balance = app.balance /\ app.balance \in Nat
    BY <2>1 DEF GoodApp, AppFrozen, AppUnfrozen, App
  <2>3. Created'
    BY <1>0, <2>1, FlagIsGood, GoodAppIsCreated DEF Created, GoodApp
  <2> QED
    BY <1>2, <2>1, <2>2, <2>3
<1>7. CASE UNCHANGED vars
  BY <1>0, <1>7 DEF vars, Surplus, Created, GoodApp, App
<1> QED
  BY <1>1, <1>3, <1>4, <1>5, <1>6, <1>7 DEF Next

\* Money paid outside fund() never leaves the application again.
THEOREM SurplusLocked == Spec => SurplusIsLocked
BY ContractInvariant, SurplusStep, PTL DEF Spec, SurplusIsLocked

\* While frozen, the contract pays nobody and keeps its status: release() and
\* refund() are rejected, fund() too.
THEOREM FrozenHeld == Spec => FrozenHolds
<1>1. ASSUME ContractInv, [Next]_vars, Created, app.frozen, Created'
      PROVE  /\ app'.status = app.status
             /\ app'.toSeller = app.toSeller
             /\ app'.toBuyer = app.toBuyer
  <2>1. app \in App /\ app.kind = "puya"
    BY <1>1, ContractInvIs DEF GoodApp, Created
  <2>2. CASE Initialize
    BY <1>1, <2>2 DEF Initialize
  <2>3. ASSUME NEW p \in Payments, Fund(p) PROVE FALSE
    BY <1>1, <2>1, <2>3 DEF Fund, FundAccepted
  <2>4. CASE \E p \in Payments : PlainPayment(p)
    BY <2>1, <2>4 DEF PlainPayment, Credited, App
  <2>5. ASSUME NEW s \in Accounts, Release(s) \/ Refund(s) PROVE FALSE
    BY <1>1, <2>1, <2>5 DEF Release, Refund, PayoutAccepted
  <2>6. CASE \E s \in Accounts : Freeze(s) \/ Unfreeze(s)
    BY <2>1, <2>6 DEF Freeze, Unfreeze, AppFrozen, AppUnfrozen, App
  <2>7. CASE UNCHANGED vars
    BY <2>7 DEF vars
  <2> QED
    BY <1>1, <2>2, <2>3, <2>4, <2>5, <2>6, <2>7 DEF Next
<1> QED
  BY <1>1, ContractInvariant, PTL DEF Spec, FrozenHolds

\* The contract implements its abstract specification.  Each call is one step
\* of EscrowPromise (Fund: Deposit; Release and Refund: PayOut; Freeze and
\* Unfreeze: Toggle) or leaves holder and frozen alone.
THEOREM ContractKeepsPromise == Spec => KeepsPromise
<1>1. Init => Promise!Init
  BY DEF Init, Promise!Init, holderOf, frozenOf, Created
<1>2. ASSUME ContractInv, [Next]_vars
      PROVE  [Promise!Next]_<<holderOf, frozenOf>>
  <2> USE DEF Promise!Next, Promise!Deposit, Promise!PayOut, Promise!Toggle
  <2>0. (app = NotCreated /\ paidIn = 0) \/ GoodApp(app, paidIn)
    BY <1>2, ContractInvIs
  <2>1. CASE Initialize
    <3>1. app' = Initialized /\ ~Created /\ Created'
      BY <2>1, InitializedIsGood, GoodAppIsCreated DEF Initialize, Created, GoodApp
    <3>2. app'.status = "DEPLOYED" /\ app'.frozen = FALSE
      BY <3>1 DEF Initialized, NewApp
    <3> QED
      BY <3>1, <3>2 DEF holderOf, frozenOf
  <2>2. ASSUME NEW p \in Payments, Fund(p)
        PROVE  [Promise!Next]_<<holderOf, frozenOf>>
    <3>1. Created /\ GoodApp(app, paidIn) /\ app.status = "DEPLOYED" /\ ~app.frozen
          /\ app' = AppFunded(app, p) /\ paidIn \in Nat
      BY <1>2, <2>0, <2>2, ContractInvIs DEF Fund, FundAccepted, Created, GoodApp
    <3>2. Credited(app, p.amount) \in App
          /\ Credited(app, p.amount).frozen = app.frozen
      BY <2>2, <3>1, AmountAssumption DEF Fund, FundAccepted, Credited, GoodApp, App
    <3>3. app'.status = "FUNDED" /\ app'.frozen = app.frozen
      BY <3>1, <3>2 DEF GoodApp, AppFunded, App
    <3>4. Created'
      BY <2>2, <3>1, FundIsGood, GoodAppIsCreated DEF Created, Fund, GoodApp
    <3> QED
      BY <3>1, <3>3, <3>4 DEF holderOf, frozenOf
  <2>3. ASSUME NEW p \in Payments, PlainPayment(p)
        PROVE  [Promise!Next]_<<holderOf, frozenOf>>
    <3>1. Created /\ GoodApp(app, paidIn) /\ paidIn \in Nat
          /\ app' = Credited(app, p.amount) /\ p.amount \in Nat
      BY <1>2, <2>0, <2>3, ContractInvIs, PaymentsAssumption DEF PlainPayment, Created
    <3>2. app'.status = app.status /\ app'.frozen = app.frozen
      BY <3>1 DEF Credited, GoodApp, App
    <3>3. Created'
      BY <3>1, CreditedIsGood, GoodAppIsCreated DEF Created, GoodApp
    <3> QED
      BY <3>1, <3>2, <3>3 DEF holderOf, frozenOf
  <2>4. ASSUME NEW s \in Accounts, Release(s) \/ Refund(s)
        PROVE  [Promise!Next]_<<holderOf, frozenOf>>
    <3>1. Created /\ GoodApp(app, paidIn) /\ PayoutAccepted(app, s = Creator)
          /\ paidIn \in Nat
          /\ (app' = AppReleased(app) \/ app' = AppRefunded(app))
      BY <1>2, <2>0, <2>4, ContractInvIs DEF Release, Refund, Created
    <3>2. app.status = "FUNDED" /\ ~app.frozen /\ app'.frozen = app.frozen
          /\ app'.status \in {"RELEASED", "REFUNDED"}
      BY <3>1 DEF GoodApp, PayoutAccepted, AppReleased, AppRefunded, App
    <3>3. Created'
      BY <3>1, ReleaseIsGood, RefundIsGood, GoodAppIsCreated DEF Created, GoodApp
    <3> QED
      BY <3>1, <3>2, <3>3 DEF holderOf, frozenOf
  <2>5. ASSUME NEW s \in Accounts, Freeze(s) \/ Unfreeze(s)
        PROVE  [Promise!Next]_<<holderOf, frozenOf>>
    <3>1. Created /\ GoodApp(app, paidIn) /\ paidIn \in Nat
          /\ (app' = AppFrozen(app) \/ app' = AppUnfrozen(app))
      BY <1>2, <2>0, <2>5, ContractInvIs DEF Freeze, Unfreeze, Created
    <3>2. app'.status = app.status /\ app'.frozen \in BOOLEAN /\ app.frozen \in BOOLEAN
      BY <3>1 DEF GoodApp, AppFrozen, AppUnfrozen, App
    <3>3. Created'
      BY <3>1, FlagIsGood, GoodAppIsCreated DEF Created, GoodApp
    <3>4. holderOf' = holderOf
      BY <3>1, <3>2, <3>3 DEF holderOf
    <3>5. frozenOf = app.frozen /\ frozenOf' = app'.frozen
      BY <3>1, <3>2, <3>3 DEF frozenOf
    <3>6. frozenOf' = frozenOf \/ frozenOf' = ~frozenOf
      BY <3>2, <3>5, Zenon
    <3> QED
      BY <3>4, <3>6
  <2>6. CASE UNCHANGED vars
    BY <2>6 DEF vars, holderOf, frozenOf, Created
  <2> QED
    BY <1>2, <2>1, <2>2, <2>3, <2>4, <2>5, <2>6 DEF Next
<1> QED
  BY <1>1, <1>2, ContractInvariant, PTL DEF Spec, KeepsPromise, Promise!Spec

==============================================================================
