------------------------------ MODULE Pricing -------------------------------
(***************************************************************************)
(* The prices of one negotiation: what the two agents' valuations and the  *)
(* strategy engine recommend, what the language model asks instead, what   *)
(* the guardrails veto, and what goes out.  Prices are in paise.           *)
(*                                                                         *)
(* What a session ends as, and what its requests write over each other, is *)
(* Negotiation's subject: here turns follow each other up to MaxRounds, or *)
(* to the placeholder with which the engine gives up.                      *)
(***************************************************************************)
EXTENDS Integers

CONSTANTS
    Profiles,   \* budget_ceiling in paise, margin_floor in per cent, risk_appetite
    Asks,       \* the prices the language model or a human may name
    MaxRounds,  \* MAX_ROUNDS and StrategyEngine.max_rounds
    Ramp,       \* the exponential of _deadline_pressure_curve, per mille by round
    MAX_SCHEMA_FAILURES, \* the veto of a session at which it is given up
    NoPrice

ASSUME PricingAssumption ==
    /\ Asks \subseteq Nat \ {0} /\ MaxRounds \in Nat \ {0} /\ NoPrice \notin Int
    /\ MAX_SCHEMA_FAILURES \in Nat \ {0}
    /\ \A p \in Profiles : /\ p.budget \in Nat \ {0} /\ p.floor \in 0..100
                           /\ p.appetite \in {"LOW", "MEDIUM", "HIGH"}
    /\ Ramp \in [0..MaxRounds -> 0..1000]

VARIABLES
    profiles,   \* the RiskProfile of each side
    turn,       \* rounds so far
    lastOf,     \* each side's last price, or NoPrice
    sent,       \* the last offer: who, what it was, its price
    vetoes      \* schema_failure_count of the session, of both sides

pricingVars == <<profiles, turn, lastOf, sent, vetoes>>

Sides == {"BUYER", "SELLER"}
Other(side) == IF side = "BUYER" THEN "SELLER" ELSE "BUYER"

Least(a, b) == IF a <= b THEN a ELSE b
Most(a, b) == IF a >= b THEN a ELSE b
Gap(a, b) == Most(a, b) - Least(a, b)

\* quantize(0.01, ROUND_HALF_UP) of n / d paise.
Rounded(n, d) == (2 * n + d) \div (2 * d)

\* Every price that is computed is at least a paisa.
AtLeast1(p) == Most(p, 1)

(***************************************************************************)
(* Valuations: a reservation price and a target.                           *)
(***************************************************************************)
Risk(appetite) == CASE appetite = "LOW" -> 5 [] appetite = "MEDIUM" -> 10 [] appetite = "HIGH" -> 20
Discount(appetite) == CASE appetite = "LOW" -> 3 [] appetite = "MEDIUM" -> 5 [] appetite = "HIGH" -> 10
Markup(appetite) == CASE appetite = "LOW" -> 15 [] appetite = "MEDIUM" -> 20 [] appetite = "HIGH" -> 30

\* Of a fair price of 80 per cent of the budget, less the risk and less the
\* discount: compute_valuation subtracts the risk for a buyer too.
BuyerValuation(p) ==
    [reservation |-> Least(AtLeast1(Rounded(80 * p.budget * (100 - Risk(p.appetite)), 10000)), p.budget),
     target      |-> AtLeast1(Rounded(80 * p.budget * (100 - Discount(p.appetite)), 10000))]

\* Of a cost of 60 per cent of the seller's own budget, plus floor and markup.
SellerValuation(p) ==
    [reservation |-> AtLeast1(Rounded(60 * p.budget * (100 + p.floor), 10000)),
     target      |-> AtLeast1(Rounded(60 * p.budget * (100 + Markup(p.appetite)), 10000))]

Valued(side) ==
    IF side = "BUYER" THEN BuyerValuation(profiles[side]) ELSE SellerValuation(profiles[side])

(***************************************************************************)
(* Strategies.  A side concedes up or down, from its target (per share of  *)
(* the range) or from its own last price (in tenths of a per mille).       *)
(***************************************************************************)
Conceded(side, v, share, whole) ==
    LET moved == Gap(v.reservation, v.target) * share
    IN  AtLeast1(Rounded(v.target * whole + (IF side = "BUYER" THEN moved ELSE -moved), whole))

Clamped(side, v, price) ==
    AtLeast1(IF side = "BUYER" THEN Least(price, v.reservation) ELSE Most(price, v.reservation))

Moved(side, price, share) ==
    Rounded(price * (10000 + (IF side = "BUYER" THEN share ELSE -share)), 10000)

StrongAnchor(side, v) ==
    AtLeast1(IF side = "BUYER" THEN Rounded(v.target * 95, 100) ELSE Rounded(v.target * 110, 100))

\* 1 - (1 - t)^3 of the range.
Boulware(side, v) ==
    LET left == MaxRounds - turn
    IN  Conceded(side, v, MaxRounds * MaxRounds * MaxRounds - left * left * left,
                 MaxRounds * MaxRounds * MaxRounds)

DeadlinePressure(side, v) == Conceded(side, v, Ramp[turn], 1000)

Hardball(side, v, mine) == Clamped(side, v, Moved(side, mine, 100))

\* 85 per cent of the relative distance, between 0.5 and 15 per cent.
TitForTat(side, v, mine, theirs) ==
    LET share == IF theirs = NoPrice THEN 200
                 ELSE Rounded(Gap(theirs, mine) * 8500, mine)
    IN  Clamped(side, v, Moved(side, mine, Most(Least(share, 1500), 50)))

Ultimatum(side, v, mine, theirs) ==
    Clamped(side, v, IF theirs = NoPrice THEN mine ELSE Rounded(mine + theirs, 2))

\* What the belief about the opponent comes to: whether it looks stubborn,
\* flexible or neither.  The Bayesian model may say any of it.
Flexibilities == {"low", "middle", "high"}

\* select_strategy; only the suggested price of a recommendation is used.
Suggested(side, flexibility, stalled) ==
    LET v == Valued(side)
        theirs == lastOf[Other(side)]
        mine == IF lastOf[side] = NoPrice THEN v.target ELSE lastOf[side]
    IN  CASE turn = 0 \/ (turn = 1 /\ lastOf[side] = NoPrice) -> StrongAnchor(side, v)
          [] side = "SELLER" /\ theirs # NoPrice /\ theirs < v.reservation -> v.reservation
          [] OTHER ->
             CASE MaxRounds - turn <= 2 -> Ultimatum(side, v, mine, theirs)
               [] OTHER ->
                  CASE flexibility = "low" /\ stalled -> Hardball(side, v, mine)
                    [] OTHER ->
                       CASE 4 * (MaxRounds - turn) < MaxRounds -> DeadlinePressure(side, v)
                         [] OTHER -> IF flexibility = "high" THEN TitForTat(side, v, mine, theirs)
                                     ELSE Boulware(side, v)

(***************************************************************************)
(* Guardrails.                                                             *)
(***************************************************************************)
\* validate_envelope: process_turn passes no cost_basis, so the margin floor is
\* kept by the reservation price alone.
Vetoed(side, price, unsure) ==
    \/ side = "BUYER" /\ price > profiles[side].budget
    \/ side = "SELLER" /\ price < Valued(side).reservation
    \/ unsure

GoesOutUnchecked(side, price, unsure, suggested) == price

\* What goes out of an OFFER or a COUNTER: of a vetoed price the strategy's,
\* which is not looked at again but for the buyer's budget.
GoesOut(side, price, unsure, suggested) ==
    LET p == IF Vetoed(side, price, unsure) THEN suggested ELSE price
    IN  IF side = "BUYER" THEN Least(p, profiles[side].budget) ELSE p

PricingInit ==
    /\ profiles \in [Sides -> Profiles]
    /\ turn = 0
    /\ lastOf = [side \in Sides |-> NoPrice]
    /\ sent = [side |-> "BUYER", kind |-> "none", price |-> NoPrice]
    /\ vetoes = 0

\* The placeholder of an offer with which the engine gives a session up: Rs 1.
Placeholder == 100
GivesUp == {"BREACH", "TIMEOUT"}

\* An offer is added to a session that has not ended.
Sends(side, kind, price) ==
    /\ turn < MaxRounds /\ sent.kind \notin GivesUp
    /\ turn' = turn + 1
    /\ lastOf' = [lastOf EXCEPT ![side] = price]
    /\ sent' = [side |-> side, kind |-> kind, price |-> price]
    /\ UNCHANGED profiles

\* The buyer begins, and whoever did not send the last offer is next.
OnTurn == IF sent.kind = "none" THEN "BUYER" ELSE Other(sent.side)

\* With a veto, of either side, the session has failed once more.
FailuresAfter(price, unsure) ==
    IF Vetoed(OnTurn, price, unsure) THEN vetoes + 1 ELSE vetoes

\* OFFER or COUNTER, at the model's price or, once it is vetoed, at the strategy's.
\* (The engine would let an action it does not know out unguarded, as a counter;
\* the driver's validate_agent_output refuses any but the four.)
AgentCounters ==
    \E price \in Asks, unsure, stalled \in BOOLEAN, flexibility \in Flexibilities :
       /\ FailuresAfter(price, unsure) < MAX_SCHEMA_FAILURES
       /\ vetoes' = FailuresAfter(price, unsure)
       /\ Sends(OnTurn, "COUNTER",
                GoesOut(OnTurn, price, unsure, Suggested(OnTurn, flexibility, stalled)))

\* ... at the MAX_SCHEMA_FAILURES-th veto: a placeholder goes out as the offer of
\* the agent whose turn it was, and the session ends.
AgentBreaches ==
    \E price \in Asks, unsure \in BOOLEAN :
       /\ FailuresAfter(price, unsure) >= MAX_SCHEMA_FAILURES
       /\ vetoes' = FailuresAfter(price, unsure)
       /\ Sends(OnTurn, "BREACH", Placeholder)

\* So does one when the session expires between the check of the service and that
\* of the engine.
AgentTimesOut == Sends(OnTurn, "TIMEOUT", Placeholder) /\ UNCHANGED vetoes

\* ACCEPT, at the other side's last price: no guardrail looks at it.
AgentAccepts ==
    \E price \in Asks :
       /\ Sends(OnTurn, "ACCEPT",
                IF lastOf[Other(OnTurn)] = NoPrice THEN price ELSE lastOf[Other(OnTurn)])
       /\ UNCHANGED vetoes

AgentRejects == \E price \in Asks : Sends(OnTurn, "REJECT", price) /\ UNCHANGED vetoes

\* A human's offer, of any price and always the buyer's.
HumanOverrides == \E price \in Asks : Sends("BUYER", "OVERRIDE", price) /\ UNCHANGED vetoes

PricingNext ==
    \/ AgentCounters \/ AgentBreaches \/ AgentTimesOut
    \/ AgentAccepts \/ AgentRejects \/ HumanOverrides

PricingSpec == PricingInit /\ [][PricingNext]_pricingVars

-----------------------------------------------------------------------------

\* A buyer's price is within its budget, and a seller's not under its reservation
\* price, when its margin floor is not above its markup.  (Above it the seller's
\* strategies concede to the wrong side of the floor, and a price that was vetoed
\* for the floor is replaced by another one under it.)
WithinLimits(side, price) ==
    LET p == profiles[side]
    IN  IF side = "BUYER" THEN price <= p.budget
        ELSE p.floor <= Markup(p.appetite) => price >= SellerValuation(p).reservation

\* A counter-offer an agent sends is within its limits, whatever the language model
\* wants and humans have offered.  A vetoed price is replaced less than
\* MAX_SCHEMA_FAILURES times in a session, both sides together; at the next veto a
\* placeholder of Rs 1 goes out as the agent's offer, which may be far under a
\* seller's reservation price: then, and only then, and with it the session ends,
\* so that no counter-offer answers it (neutral_engine.py:242-270).  Nothing is
\* said of the prices of an ACCEPT, a REJECT or a TIMEOUT.
CountersWithinLimits ==
    /\ sent.kind = "COUNTER" => WithinLimits(sent.side, sent.price)
    /\ vetoes <= MAX_SCHEMA_FAILURES
    /\ sent.kind = "BREACH" <=> vetoes = MAX_SCHEMA_FAILURES
=============================================================================
