----------------------------- MODULE Negotiation -----------------------------
(***************************************************************************)
(* One negotiation session at work: agent turns, human overrides and an    *)
(* administrator's termination, all at once.  A request reads the session  *)
(* and its offers, may wait for the language model, and writes the whole   *)
(* session back; nothing is locked before that write and nothing is        *)
(* compared in it.                                                         *)
(*                                                                         *)
(* The endpoint run-auto makes turns one after the other, each with its    *)
(* commit.  The administrator's pause and resume change nothing, they flush *)
(* and never commit.  Nothing calls cleanup_expired_sessions.              *)
(***************************************************************************)
EXTENDS Integers, Sequences

CONSTANTS Requests,
          Prices,               \* what the language model or a human may ask
          Words,                \* what its reasoning may contain
          None,
          MAX_ROUNDS, STALL_ROUNDS, MAX_SCHEMA_FAILURES,
          StallThreshold,       \* of both agents' profiles
          MaxOffers             \* bound: see Bounded

\* OfferValue is positive; 1 is the price of the engine's placeholders.
ASSUME PricesAssumption == Prices \subseteq Nat \ {0}

ASSUME LimitsAssumption == /\ MAX_ROUNDS \in Nat
                           /\ STALL_ROUNDS \in Nat
                           /\ MAX_SCHEMA_FAILURES \in Nat
                           /\ StallThreshold \in Nat

VARIABLES row,        \* the session, as committed
          offers,     \* its offers, in the order they were committed
          expired,    \* 24 hours have gone by
          escrow,     \* the price of the pending escrow of the session
          lost,       \* history: a turn announced an agreement and then failed
          req         \* the requests in flight

vars == <<row, offers, expired, escrow, lost, req>>

Active == {"BUYER_ANCHOR", "SELLER_RESPONSE", "ROUND_LOOP", "ACTIVE"}

Terminal == {"AGREED", "WALK_AWAY", "TIMEOUT", "POLICY_BREACH", "FAILED"}

Status == Active \cup Terminal \cup {"HUMAN_REVIEW"}

Roles == {"BUYER", "SELLER"}

Amounts == Prices \cup {1}

Offer == [round : 1..MAX_ROUNDS, role : Roles, price : Amounts]

ASSUME NoneAssumption == None \notin Amounts \cup Offer

Session == [status : Status, round : 0..MAX_ROUNDS, price : Amounts \cup {None},
            stalls : Nat, failures : Nat]

\* create_session activates the session before it saves it.
NewSession == [status |-> "BUYER_ANCHOR", round |-> 0, price |-> None,
               stalls |-> 0, failures |-> 0]

(***************************************************************************)
(* A session as it is loaded.  Of its offers a request needs who is next,  *)
(* the last price of each side and how many there are.  They are sorted by *)
(* round; offers of one round come in any order.  An override counts only  *)
(* whether there are two, which no commit after its own read undoes.       *)
(***************************************************************************)
View == [next : Roles, buyer : Amounts \cup {None}, seller : Amounts \cup {None},
         count : Nat]

Latest(S) == {o \in S : \A p \in S : p.round <= o.round}

Loaded == {offers[i] : i \in 1..Len(offers)}

Opposite(role) == IF role = "BUYER" THEN "SELLER" ELSE "BUYER"

NextProposers == IF Loaded = {} THEN {"BUYER"}
                 ELSE {Opposite(o.role) : o \in Latest(Loaded)}

LastPrices(role) == LET own == {o \in Loaded : o.role = role}
                    IN  IF own = {} THEN {None} ELSE {o.price : o \in Latest(own)}

Views == [next : NextProposers, buyer : LastPrices("BUYER"),
          seller : LastPrices("SELLER"), count : {Len(offers)}]

(***************************************************************************)
(* The aggregate.                                                          *)
(***************************************************************************)
Transition(status, role, count) ==
    CASE status = "BUYER_ANCHOR" /\ role = "BUYER"     -> "SELLER_RESPONSE"
      [] status = "SELLER_RESPONSE" /\ role = "SELLER" -> "ROUND_LOOP"
      [] status = "ACTIVE" /\ count >= 2               -> "ROUND_LOOP"
      [] status = "ACTIVE" /\ count = 1                -> "SELLER_RESPONSE"
      [] OTHER                                         -> status

CanAddOffer(s) == s.status \in Active \cup {"HUMAN_REVIEW"} /\ s.round < MAX_ROUNDS

OfferAdded(s, role, count) ==
    [s EXCEPT !.round = @ + 1, !.status = Transition(@, role, count + 1)]

Resumed(s, count) ==
    IF s.status = "HUMAN_REVIEW"
    THEN [s EXCEPT !.status = IF count >= 2 THEN "ROUND_LOOP" ELSE "ACTIVE"]
    ELSE s

\* At most 2 per cent of the buyer's price apart, both having offered.
Converged(buyer, seller) ==
    /\ None \notin {buyer, seller}
    /\ 50 * (seller - buyer) <= buyer
    /\ 50 * (buyer - seller) <= buyer

\* Less than 0.2 per cent away from the side's own last price.
NoConcession(last, new) == /\ last # None
                           /\ 500 * (new - last) < last
                           /\ 500 * (last - new) < last

(***************************************************************************)
(* Requests.                                                               *)
(***************************************************************************)
Idle == [step |-> "idle"]

Request == [step : {"load"}, op : {"turn"}, session : Session, view : {None},
            offer : {None}, stale : BOOLEAN]
           \cup
           [step : {"llm"}, op : {"turn"}, session : Session, view : View,
            offer : {None}, stale : BOOLEAN]
           \cup
           [step : {"save", "commit"}, op : {"turn", "override", "terminate"},
            session : Session, view : {None}, offer : Offer \cup {None},
            stale : BOOLEAN]

TypeOK == /\ row \in Session
          /\ offers \in Seq(Offer)
          /\ expired \in BOOLEAN
          /\ escrow \in Amounts \cup {None}
          /\ lost \in BOOLEAN
          /\ req \in [Requests -> Request \cup {Idle}]

Init == /\ row = NewSession
        /\ offers = <<>>
        /\ expired = FALSE
        /\ escrow = None
        /\ lost = FALSE
        /\ req = [r \in Requests |-> Idle]

\* MAX_ROUNDS bounds the offers of a session whose counter keeps up with them;
\* once requests have overwritten each other, MaxOffers does.
Bounded == row.round = Len(offers) \/ Len(offers) < MaxOffers

\* A request has read the session; stale is history: somebody committed since.
Reads(r, op, step, session, offer) ==
    /\ req[r] = Idle
    /\ req' = [req EXCEPT ![r] = [step |-> step, op |-> op, session |-> session,
                                  view |-> None, offer |-> offer, stale |-> FALSE]]
    /\ UNCHANGED <<row, offers, expired, escrow, lost>>

\* run_agent_turn reads the session ...
BeginTurn(r) ==
    /\ row.status \in Active
    /\ Bounded
    /\ Reads(r, "turn", "load", row, None)

\* ... and with a second SELECT its offers, then asks the language model.  Of an
\* expired session it writes TIMEOUT and publishes SessionExpired, which nobody
\* handles; then it raises without a commit, so nothing remains: see Fail.
LoadOffers(r) ==
    /\ req[r].step = "load"
    /\ ~expired
    /\ \E view \in Views : req' = [req EXCEPT ![r].step = "llm", ![r].view = view]
    /\ UNCHANGED <<row, offers, expired, escrow, lost>>

\* apply_human_override: always an offer of the buyer's.
BeginOverride(r, price) ==
    /\ CanAddOffer(row)
    /\ Bounded
    /\ Reads(r, "override", "save",
             OfferAdded(Resumed(row, Len(offers)), "BUYER", Len(offers)),
             [round |-> row.round + 1, role |-> "BUYER", price |-> price])

\* A mutated form: mark_failed without its guard.
BeginTerminateAny(r) ==
    Reads(r, "terminate", "save", [row EXCEPT !.status = "FAILED"], None)

\* terminate_session.
BeginTerminate(r) ==
    /\ row.status \in Active \cup {"HUMAN_REVIEW"}
    /\ Reads(r, "terminate", "save", [row EXCEPT !.status = "FAILED"], None)

(***************************************************************************)
(* The answer of the language model, what NeutralEngine makes of it, and   *)
(* how the service goes on: it looks for words in the agent's reasoning.   *)
(***************************************************************************)
\* A mutated form: the price is forgotten.
ConcludedUnpriced(s, price, words) ==
    [s EXCEPT !.status = CASE words = "REJECTED"       -> "WALK_AWAY"
                           [] words = "POLICY_BREACH"  -> "POLICY_BREACH"
                           [] words = "TIMEOUT"        -> "TIMEOUT"
                           [] s.stalls >= STALL_ROUNDS -> "HUMAN_REVIEW"
                           [] OTHER                    -> "AGREED"]

\* STALLED is never stored: _handle_stall goes through it to HUMAN_REVIEW.
Concluded(s, price, words) ==
    CASE words = "REJECTED"       -> [s EXCEPT !.status = "WALK_AWAY"]
      [] words = "POLICY_BREACH"  -> [s EXCEPT !.status = "POLICY_BREACH"]
      [] words = "TIMEOUT"        -> [s EXCEPT !.status = "TIMEOUT"]
      [] s.stalls >= STALL_ROUNDS -> [s EXCEPT !.status = "HUMAN_REVIEW"]
      [] OTHER                    -> [s EXCEPT !.status = "AGREED", !.price = price]

\* The turn adds an offer to the session s and, if it ends the negotiation,
\* concludes.  (With MAX_ROUNDS offers there it raises: see Fail.)
Answers(r, s, price, ends, words) ==
    LET q == req[r]
        a == OfferAdded(s, q.view.next, q.view.count)
    IN  /\ q # Idle /\ q.step = "llm"
        /\ CanAddOffer(s)
        /\ req' = [req EXCEPT ![r] =
                     [q EXCEPT !.step = "save", !.view = None,
                               !.session = IF ends THEN Concluded(a, price, words) ELSE a,
                               !.offer = [round |-> s.round + 1, role |-> q.view.next,
                                          price |-> price]]]
        /\ UNCHANGED <<row, offers, expired, escrow, lost>>

\* A price of the side's own: the stall counter, then whether the turn ends.
Proposes(r, s, price, words) ==
    LET view   == req[r].view
        buyer  == IF view.next = "BUYER" THEN price ELSE view.buyer
        seller == IF view.next = "SELLER" THEN price ELSE view.seller
        last   == IF view.next = "BUYER" THEN view.buyer ELSE view.seller
        stalls == IF NoConcession(last, price) THEN s.stalls + 1 ELSE 0
    IN  Answers(r, [s EXCEPT !.stalls = stalls], price,
                Converged(buyer, seller) \/ s.round + 1 >= StallThreshold, words)

\* OFFER and COUNTER.  (The engine takes an action it does not know for a COUNTER
\* that no guardrail sees; the driver's validate_agent_output refuses it before.)
Propose(r, price, words) ==
    /\ req[r].step = "llm"
    /\ Proposes(r, req[r].session, price, words)

\* ... vetoed by the guardrails: the strategy's price goes out instead, or at
\* the MAX_SCHEMA_FAILURES-th veto a placeholder.
ProposeVetoed(r, price, words) ==
    /\ req[r].step = "llm"
    /\ LET s == [req[r].session EXCEPT !.failures = @ + 1]
       IN  IF s.failures >= MAX_SCHEMA_FAILURES
           THEN Answers(r, s, 1, TRUE, "POLICY_BREACH")
           ELSE Proposes(r, s, price, words)

\* ACCEPT: at the other side's last price, if it has one.
Accept(r, price, words) ==
    /\ req[r].step = "llm"
    /\ LET view  == req[r].view
           other == IF view.next = "BUYER" THEN view.seller ELSE view.buyer
       IN  Answers(r, req[r].session, IF other = None THEN price ELSE other, TRUE, words)

\* REJECT.  The engine puts "REJECT: " before the reasoning; the service looks
\* for "REJECTED".
Reject(r, price, words) ==
    /\ req[r].step = "llm"
    /\ Answers(r, req[r].session, price, TRUE, words)

\* The session expired after the service looked and before the engine did.
AnswerExpired(r) ==
    /\ expired
    /\ req[r].step = "llm"
    /\ Answers(r, req[r].session, 1, TRUE, "TIMEOUT")

(***************************************************************************)
(* Writing back.  UPDATE locks the row until the end of the transaction.   *)
(* An agreement is announced before the commit, and its handler inserts    *)
(* the pending escrow in a transaction of its own, or fails and is logged. *)
(***************************************************************************)
Save(r) ==
    /\ req[r].step = "save"
    /\ \A other \in Requests : req[other].step # "commit"
    /\ req' = [req EXCEPT ![r].step = "commit"]
    /\ \/ escrow' = escrow
       \/ /\ req[r].session.status = "AGREED" /\ escrow = None
          /\ escrow' = req[r].session.price
    /\ UNCHANGED <<row, offers, expired, lost>>

Finished(r) == [other \in Requests |->
                   IF other = r THEN Idle
                   ELSE IF req[other] = Idle THEN Idle
                   ELSE [req[other] EXCEPT !.stale = TRUE]]

\* A mutated form: the session is written and its offer is not.
CommitSession(r) ==
    /\ req[r].step = "commit"
    /\ row' = req[r].session
    /\ req' = Finished(r)
    /\ UNCHANGED <<offers, expired, escrow, lost>>

Commit(r) ==
    /\ req[r].step = "commit"
    /\ row' = req[r].session
    /\ offers' = IF req[r].offer = None THEN offers ELSE Append(offers, req[r].offer)
    /\ req' = Finished(r)
    /\ UNCHANGED <<expired, escrow, lost>>

\* The request raises or its process stops, and its transaction is undone: no
\* answer of the language model, no round left, no Redis, a crash.
Fail(r) ==
    /\ req[r] # Idle
    /\ req' = [req EXCEPT ![r] = Idle]
    /\ lost' = (lost \/ (req[r].step = "commit" /\ req[r].session.status = "AGREED"))
    /\ UNCHANGED <<row, offers, expired, escrow>>

Expire == /\ ~expired
          /\ expired' = TRUE
          /\ UNCHANGED <<row, offers, escrow, lost, req>>

Step(r) == \/ BeginTurn(r) \/ LoadOffers(r) \/ BeginTerminate(r) \/ AnswerExpired(r)
           \/ Save(r) \/ Commit(r) \/ Fail(r)
           \/ \E price \in Prices :
                 \/ BeginOverride(r, price)
                 \/ \E words \in Words :
                       \/ Propose(r, price, words)
                       \/ ProposeVetoed(r, price, words)
                       \/ Accept(r, price, words)
                       \/ Reject(r, price, words)

Next == Expire \/ \E r \in Requests : Step(r)

Spec == Init /\ [][Next]_vars

(***************************************************************************)
(* Properties.                                                             *)
(***************************************************************************)
\* Whatever overwrites whatever, the session never counts a round without an
\* offer: the offer and the counter go in one transaction.
RoundsHaveOffers == \A k \in 1..row.round : \E o \in Loaded : o.round = k

\* The session carries a price exactly when it is agreed, and that price is one
\* that somebody offered in its last round.
AgreedAtAnOffer ==
    /\ (row.price # None) <=> (row.status = "AGREED")
    /\ row.status = "AGREED" =>
          \E o \in Loaded : o.round = row.round /\ o.price = row.price

\* The pending escrow is for an offered price, unless the turn that announced
\* the agreement has not committed, or never did.
EscrowFromOffer ==
    escrow # None =>
       \/ \E o \in Loaded : o.price = escrow
       \/ \E r \in Requests : /\ req[r].step = "commit"
                              /\ req[r].session.status = "AGREED"
                              /\ req[r].session.price = escrow
       \/ lost

Commits(r) == req[r].step = "commit" /\ req'[r] = Idle

\* An ended session is rewritten by nothing but a request that read it before
\* it ended: no request starts on it.
OnlyStaleReopens ==
    [][row.status \in Terminal /\ row' # row
          => \E r \in Requests : Commits(r) /\ req[r].stale]_vars

\* A session under human review waits for a person: it is moved by an override,
\* by a termination, or by a turn that read it before it was escalated.
ReviewNeedsHuman ==
    [][row.status = "HUMAN_REVIEW" /\ row' # row
          => \E r \in Requests : Commits(r) /\ (req[r].stale \/ req[r].op # "turn")]_vars

\* "Transition to AGREED - price gap <= 2%." (session.py): of an agreed session,
\* some offers of the two sides are within 2 per cent.
AgreedMeansConverged ==
    row.status = "AGREED" =>
       \E b, s \in Loaded : /\ b.role = "BUYER" /\ s.role = "SELLER"
                            /\ Converged(b.price, s.price)
=============================================================================
