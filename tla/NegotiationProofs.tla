-------------------------- MODULE NegotiationProofs --------------------------
(***************************************************************************)
(* Theorems about Negotiation, for any requests, prices, words and limits. *)
(***************************************************************************)
EXTENDS Negotiation, TLAPS

(***************************************************************************)
(* The inductive invariant.  What a session says must be borne out by the  *)
(* offers that will be there once it is stored: for a request in flight    *)
(* these are the committed ones and its own.  Since offers are only added, *)
(* that stays true however long the request has been waiting.              *)
(***************************************************************************)
Sound(s, S) ==
    /\ \A k \in 1..s.round : \E o \in S : o.round = k
    /\ (s.price # None) <=> (s.status = "AGREED")
    /\ s.status = "AGREED" => \E o \in S : o.round = s.round /\ o.price = s.price

Carried(q, S) == IF q.offer = None THEN S ELSE S \cup {q.offer}

\* A request begins on a session that has not ended, and a turn not under
\* review; unless it is stale, that is still so.
Fresh(q, status) == \/ q.stale
                    \/ /\ status \notin Terminal
                       /\ status = "HUMAN_REVIEW" => q.op # "turn"

ReqOK(q, status, S) ==
    /\ q.step \in {"load", "llm"} => q.session.status \in Active
    /\ Sound(q.session, Carried(q, S))
    /\ Fresh(q, status)

DataInv == /\ Sound(row, Loaded)
           /\ \A r \in Requests : req[r] # Idle => ReqOK(req[r], row.status, Loaded)

IInv == TypeOK /\ DataInv /\ EscrowFromOffer

-----------------------------------------------------------------------------

\* The offers that are loaded, and what is made of them, have their types.
LEMMA LoadedTypes ==
    ASSUME TypeOK
    PROVE  Loaded \subseteq Offer /\ Views \subseteq View
<1>1. Loaded \subseteq Offer
    BY DEF Loaded, TypeOK
<1>2. NextProposers \subseteq Roles
    <2>1. \A o \in Loaded : Opposite(o.role) \in Roles
        BY <1>1 DEF Offer, Opposite, Roles
    <2>2. Latest(Loaded) \subseteq Loaded
        BY DEF Latest
    <2> QED BY <2>1, <2>2 DEF NextProposers, Roles
<1>3. \A role : LastPrices(role) \subseteq Amounts \cup {None}
    BY <1>1 DEF LastPrices, Latest, Offer
<1>4. Len(offers) \in Nat
    BY DEF TypeOK
<1> QED BY <1>1, <1>2, <1>3, <1>4 DEF Views, View

\* A committed offer joins the loaded ones.
LEMMA LoadedAppend ==
    ASSUME TypeOK, NEW o \in Offer, offers' = Append(offers, o)
    PROVE  Loaded' = Loaded \cup {o} /\ offers' \in Seq(Offer)
BY DEF TypeOK, Loaded

\* More offers bear out no less.
LEMMA SoundGrows ==
    ASSUME NEW s, NEW S, NEW T, S \subseteq T, Sound(s, S)
    PROVE  Sound(s, T)
BY DEF Sound

\* ... of a request too.
LEMMA ReqGrows ==
    ASSUME NEW q, NEW status, NEW S, NEW T, S \subseteq T, ReqOK(q, status, S)
    PROVE  ReqOK(q, status, T)
<1>1. Carried(q, S) \subseteq Carried(q, T)
    BY DEF Carried
<1> QED BY <1>1, SoundGrows DEF ReqOK

\* add_offer keeps a session sound and at work, given the offer of its round.
LEMMA OfferAddedSound ==
    ASSUME NEW s \in Session, NEW S, NEW role \in Roles, NEW count \in Nat,
           NEW price \in Amounts,
           s.status \in Active, s.round < MAX_ROUNDS, Sound(s, S)
    PROVE  LET o == [round |-> s.round + 1, role |-> role, price |-> price]
               a == OfferAdded(s, role, count)
           IN  /\ o \in Offer
               /\ a \in Session
               /\ a.status \in Active
               /\ a.round = s.round + 1
               /\ Sound(a, S \cup {o})
<1> DEFINE o == [round |-> s.round + 1, role |-> role, price |-> price]
           a == OfferAdded(s, role, count)
<1>0. s.round \in Nat /\ s.round + 1 \in 1..MAX_ROUNDS
    BY LimitsAssumption DEF Session
<1>1. o \in Offer
    BY <1>0 DEF Offer
<1>2. Transition(s.status, role, count + 1) \in Active
    BY DEF Transition, Active
<1>3. /\ a.status = Transition(s.status, role, count + 1)
      /\ a.round = s.round + 1
      /\ a.price = s.price
    BY DEF OfferAdded, Session
<1>4. a \in Session
    <2>1. s.round + 1 \in 0..MAX_ROUNDS
        BY <1>0
    <2>2. [s EXCEPT !.round = s.round + 1] \in Session
        BY <2>1 DEF Session
    <2>3. \A t \in Session : [t EXCEPT !.status = Transition(s.status, role, count + 1)]
                                \in Session
        BY <1>2 DEF Session, Status
    <2>4. a = [[s EXCEPT !.round = s.round + 1]
                   EXCEPT !.status = Transition(s.status, role, count + 1)]
        BY DEF OfferAdded
    <2> QED BY <2>2, <2>3, <2>4
<1>5. a.price = None /\ a.status # "AGREED"
    BY <1>2, <1>3 DEF Sound, Active
<1>6. \A k \in 1..a.round : \E p \in S \cup {o} : p.round = k
    <2> SUFFICES ASSUME NEW k \in 1..(s.round + 1)
                 PROVE  \E p \in S \cup {o} : p.round = k
        BY <1>3
    <2>1. CASE k = s.round + 1
        BY <2>1, o.round = s.round + 1, o \in S \cup {o}
    <2>2. CASE k # s.round + 1
        BY <1>0, <2>2 DEF Sound
    <2> QED BY <2>1, <2>2
<1> HIDE DEF o, a
<1>7. Sound(a, S \cup {o})
    BY <1>5, <1>6 DEF Sound
<1> QED BY <1>1, <1>2, <1>3, <1>4, <1>7 DEF o, a

\* So does a conclusion at the price of an offer of its last round.
LEMMA ConcludedSound ==
    ASSUME NEW s \in Session, NEW S, NEW price \in Amounts, NEW words,
           s.status \in Active, Sound(s, S),
           \E o \in S : o.round = s.round /\ o.price = price
    PROVE  LET c == Concluded(s, price, words)
           IN  c \in Session /\ Sound(c, S)
<1> DEFINE c == Concluded(s, price, words)
<1>0. price # None /\ s.price = None
    BY NoneAssumption DEF Sound, Active
<1>1. \/ \E status \in {"WALK_AWAY", "POLICY_BREACH", "TIMEOUT", "HUMAN_REVIEW"} :
            c = [s EXCEPT !.status = status]
      \/ c = [s EXCEPT !.status = "AGREED", !.price = price]
    BY DEF Concluded
<1> HIDE DEF c
<1>2. CASE \E status \in {"WALK_AWAY", "POLICY_BREACH", "TIMEOUT", "HUMAN_REVIEW"} :
             c = [s EXCEPT !.status = status]
    <2> PICK status \in {"WALK_AWAY", "POLICY_BREACH", "TIMEOUT", "HUMAN_REVIEW"} :
            c = [s EXCEPT !.status = status]
        BY <1>2
    <2>1. c \in Session
        BY DEF Session, Status, Terminal
    <2>2. c.status # "AGREED" /\ c.price = None /\ c.round = s.round
        BY <1>0 DEF Session
    <2> QED BY <2>1, <2>2 DEF Sound, c
<1>3. CASE c = [s EXCEPT !.status = "AGREED", !.price = price]
    <2>1. c \in Session
        BY <1>3 DEF Session, Status, Terminal
    <2>2. c.status = "AGREED" /\ c.price = price /\ c.round = s.round
        BY <1>3 DEF Session
    <2> QED BY <1>0, <2>1, <2>2 DEF Sound, c
<1> QED BY <1>1, <1>2, <1>3

-----------------------------------------------------------------------------

\* A request that is where it should be, as a record: its parts.
LEMMA RequestParts ==
    ASSUME TypeOK, NEW r \in Requests, req[r] # Idle
    PROVE  /\ req[r] \in Request
           /\ req[r].step \in {"load", "llm", "save", "commit"}
           /\ req[r].session \in Session
           /\ req[r].offer \in Offer \cup {None}
           /\ req[r].stale \in BOOLEAN
           /\ req[r].step \in {"load", "llm"} => req[r].offer = None
           /\ req[r].step = "llm" => req[r].view \in View
<1>1. req[r] \in Request
    BY DEF TypeOK
<1> QED BY <1>1 DEF Request

\* One request moves and nothing is committed: the invariant has only to be
\* shown of that request.
LEMMA OneMoves ==
    ASSUME TypeOK, DataInv, NEW r \in Requests, NEW q \in Request \cup {Idle},
           req' = [req EXCEPT ![r] = q],
           q # Idle => ReqOK(q, row.status, Loaded),
           UNCHANGED <<row, offers, expired>>,
           escrow' \in Amounts \cup {None}, lost' \in BOOLEAN
    PROVE  TypeOK' /\ DataInv'
<1>1. TypeOK'
    BY DEF TypeOK
<1>2. Loaded' = Loaded /\ row' = row
    BY DEF Loaded
<1>3. ASSUME NEW other \in Requests, req'[other] # Idle
      PROVE  ReqOK(req'[other], row.status, Loaded)
    <2>1. CASE other = r
        <3>1. req'[other] = q
            BY <2>1 DEF TypeOK
        <3> QED BY <1>3, <3>1
    <2>2. CASE other # r
        <3>1. req'[other] = req[other]
            BY <2>2 DEF TypeOK
        <3> QED BY <1>3, <3>1 DEF DataInv
    <2> QED BY <2>1, <2>2
<1>4. Sound(row', Loaded')
    BY <1>2 DEF DataInv
<1>5. \A other \in Requests : req'[other] # Idle => ReqOK(req'[other], row'.status, Loaded')
    BY <1>2, <1>3
<1> QED BY <1>1, <1>4, <1>5 DEF DataInv

\* The pending escrow stays accounted for while only a request that is not about
\* to commit moves.
LEMMA EscrowKept ==
    ASSUME TypeOK, EscrowFromOffer, NEW r \in Requests, NEW q,
           req' = [req EXCEPT ![r] = q], req[r].step # "commit",
           UNCHANGED <<offers, escrow, lost>>
    PROVE  EscrowFromOffer'
<1>1. \A other \in Requests : other # r => req'[other] = req[other]
    BY DEF TypeOK
<1>2. Loaded' = Loaded
    BY DEF Loaded
<1> QED BY <1>1, <1>2 DEF EscrowFromOffer

\* The invariant holds at first.
LEMMA InitOK ==
    ASSUME Init
    PROVE  IInv
<1>1. TypeOK
    <2>1. NewSession \in Session
        BY LimitsAssumption DEF NewSession, Session, Status, Active
    <2>2. req \in [Requests -> Request \cup {Idle}]
        BY DEF Init
    <2>3. row \in Session
        BY <2>1 DEF Init
    <2>4. offers \in Seq(Offer)
        BY DEF Init
    <2> QED BY <2>2, <2>3, <2>4 DEF Init, TypeOK
<1>2. DataInv
    BY LimitsAssumption DEF Init, DataInv, NewSession, Sound
<1>3. EscrowFromOffer
    BY DEF Init, EscrowFromOffer
<1> QED BY <1>1, <1>2, <1>3 DEF IInv

-----------------------------------------------------------------------------

\* A request that begins.
LEMMA ReadsOK ==
    ASSUME IInv, NEW r \in Requests, NEW op, NEW step, NEW session, NEW offer,
           Reads(r, op, step, session, offer),
           [step |-> step, op |-> op, session |-> session, view |-> None,
            offer |-> offer, stale |-> FALSE] \in Request,
           step \in {"load", "llm"} => session.status \in Active,
           Sound(session, IF offer = None THEN Loaded ELSE Loaded \cup {offer}),
           row.status \notin Terminal, row.status = "HUMAN_REVIEW" => op # "turn"
    PROVE  IInv'
<1> DEFINE q == [step |-> step, op |-> op, session |-> session, view |-> None,
                 offer |-> offer, stale |-> FALSE]
<1>1. ReqOK(q, row.status, Loaded)
    BY DEF ReqOK, Carried, Fresh
<1>2. req' = [req EXCEPT ![r] = q] /\ req[r] = Idle
      /\ UNCHANGED <<row, offers, expired, escrow, lost>>
    BY DEF Reads
<1>3. q \in Request \cup {Idle} /\ escrow' \in Amounts \cup {None} /\ lost' \in BOOLEAN
    BY <1>2 DEF IInv, TypeOK
<1>4. req[r].step # "commit"
    BY <1>2 DEF Idle
<1> HIDE DEF q
<1>5. TypeOK' /\ DataInv'
    BY <1>1, <1>2, <1>3, OneMoves DEF IInv
<1>6. EscrowFromOffer'
    BY <1>2, <1>4, EscrowKept DEF IInv
<1> QED BY <1>5, <1>6 DEF IInv

\* run_agent_turn begins.
LEMMA BeginTurnOK ==
    ASSUME IInv, NEW r \in Requests, BeginTurn(r)
    PROVE  IInv'
<1>1. Reads(r, "turn", "load", row, None) /\ row.status \in Active
    BY DEF BeginTurn
<1>2. row \in Session /\ Sound(row, Loaded)
    BY DEF IInv, TypeOK, DataInv
<1>3. [step |-> "load", op |-> "turn", session |-> row, view |-> None,
       offer |-> None, stale |-> FALSE] \in Request
    BY <1>2 DEF Request
<1>4. row.status \notin Terminal /\ row.status # "HUMAN_REVIEW"
    BY <1>1 DEF Active, Terminal
<1> QED BY <1>1, <1>2, <1>3, <1>4, ReadsOK

\* terminate_session.
LEMMA BeginTerminateOK ==
    ASSUME IInv, NEW r \in Requests, BeginTerminate(r)
    PROVE  IInv'
<1> DEFINE s == [row EXCEPT !.status = "FAILED"]
<1>1. Reads(r, "terminate", "save", s, None) /\ row.status \in Active \cup {"HUMAN_REVIEW"}
    BY DEF BeginTerminate
<1>2. row \in Session /\ Sound(row, Loaded)
    BY DEF IInv, TypeOK, DataInv
<1>3. s \in Session /\ s.status = "FAILED" /\ s.round = row.round /\ s.price = row.price
    BY <1>2 DEF Session, Status, Terminal
<1> HIDE DEF s
<1>4. Sound(s, Loaded)
    BY <1>1, <1>2, <1>3 DEF Sound, Active
<1>5. [step |-> "save", op |-> "terminate", session |-> s, view |-> None,
       offer |-> None, stale |-> FALSE] \in Request
    BY <1>3 DEF Request
<1>6. row.status \notin Terminal
    BY <1>1 DEF Active, Terminal
<1> QED BY <1>1, <1>4, <1>5, <1>6, ReadsOK

\* apply_human_override.
LEMMA BeginOverrideOK ==
    ASSUME IInv, NEW r \in Requests, NEW price \in Prices, BeginOverride(r, price)
    PROVE  IInv'
<1> DEFINE o == [round |-> row.round + 1, role |-> "BUYER", price |-> price]
           w == Resumed(row, Len(offers))
           a == OfferAdded(w, "BUYER", Len(offers))
<1>1. /\ Reads(r, "override", "save", a, o)
      /\ row.status \in Active \cup {"HUMAN_REVIEW"}
      /\ row.round < MAX_ROUNDS
    BY DEF BeginOverride, CanAddOffer
<1>2. row \in Session /\ Sound(row, Loaded) /\ Len(offers) \in Nat
    BY DEF IInv, TypeOK, DataInv
<1>3. w \in Session /\ w.status \in Active /\ w.round = row.round /\ w.price = row.price
    BY <1>1, <1>2 DEF Resumed, Session, Status, Active
<1>4. Sound(w, Loaded)
    BY <1>1, <1>2, <1>3 DEF Sound, Active
<1>5. price \in Amounts /\ "BUYER" \in Roles
    BY DEF Amounts, Roles
<1>6. o = [round |-> w.round + 1, role |-> "BUYER", price |-> price]
    BY <1>3
<1> HIDE DEF w
<1>7. o \in Offer /\ a \in Session /\ Sound(a, Loaded \cup {o})
    BY <1>1, <1>2, <1>3, <1>4, <1>5, <1>6, OfferAddedSound
<1> HIDE DEF o, a
<1>8. o # None
    BY <1>7, NoneAssumption
<1>9. [step |-> "save", op |-> "override", session |-> a, view |-> None,
       offer |-> o, stale |-> FALSE] \in Request
    BY <1>7 DEF Request
<1>10. row.status \notin Terminal
    BY <1>1 DEF Active, Terminal
<1> QED BY <1>1, <1>7, <1>8, <1>9, <1>10, ReadsOK

\* run_agent_turn reads the offers.
LEMMA LoadOffersOK ==
    ASSUME IInv, NEW r \in Requests, LoadOffers(r)
    PROVE  IInv'
<1>1. PICK view \in Views : req' = [req EXCEPT ![r].step = "llm", ![r].view = view]
    BY DEF LoadOffers
<1> DEFINE q == [req[r] EXCEPT !.step = "llm", !.view = view]
<1>2. /\ req[r].step = "load" /\ req[r] # Idle
      /\ UNCHANGED <<row, offers, expired, escrow, lost>>
    BY DEF LoadOffers, Idle
<1>3. req[r] \in Request /\ view \in View /\ ReqOK(req[r], row.status, Loaded)
    BY <1>2, LoadedTypes, RequestParts DEF IInv, DataInv
<1>4. req[r] \in [step : {"load"}, op : {"turn"}, session : Session, view : {None},
                  offer : {None}, stale : BOOLEAN]
    BY <1>2, <1>3 DEF Request
<1>5. /\ q.step = "llm" /\ q.session = req[r].session /\ q.offer = req[r].offer
      /\ q.stale = req[r].stale /\ q.op = req[r].op
    BY <1>4
<1>6. q \in [step : {"llm"}, op : {"turn"}, session : Session, view : View,
             offer : {None}, stale : BOOLEAN]
    BY <1>3, <1>4
<1>7. q \in Request \cup {Idle}
    BY <1>6 DEF Request
<1>8. req' = [req EXCEPT ![r] = q]
    BY <1>1 DEF IInv, TypeOK
<1>9. escrow' \in Amounts \cup {None} /\ lost' \in BOOLEAN
    BY <1>2 DEF IInv, TypeOK
<1> HIDE DEF q
<1>10. ReqOK(q, row.status, Loaded)
    BY <1>2, <1>3, <1>5 DEF ReqOK, Carried, Fresh
<1>11. TypeOK' /\ DataInv'
    BY <1>2, <1>7, <1>8, <1>9, <1>10, OneMoves DEF IInv
<1>12. EscrowFromOffer'
    BY <1>2, <1>8, EscrowKept DEF IInv
<1> QED BY <1>11, <1>12 DEF IInv

\* The answer of a turn on the session it read, with its counters moved.
LEMMA AnswersOK ==
    ASSUME IInv, NEW r \in Requests, req[r].step = "llm",
           NEW s \in Session, NEW price \in Amounts, NEW ends \in BOOLEAN, NEW words,
           s.status = req[r].session.status, s.round = req[r].session.round,
           s.price = req[r].session.price,
           Answers(r, s, price, ends, words)
    PROVE  IInv'
<1> DEFINE view == req[r].view
           o == [round |-> s.round + 1, role |-> view.next, price |-> price]
           a == OfferAdded(s, view.next, view.count)
           c == IF ends THEN Concluded(a, price, words) ELSE a
           q == [req[r] EXCEPT !.step = "save", !.view = None, !.session = c, !.offer = o]
<1>1. /\ req[r] # Idle /\ req' = [req EXCEPT ![r] = q] /\ s.round < MAX_ROUNDS
      /\ UNCHANGED <<row, offers, expired, escrow, lost>>
    BY DEF Answers, CanAddOffer
<1>2. /\ req[r] \in Request /\ view \in View /\ req[r].offer = None
      /\ req[r].stale \in BOOLEAN /\ ReqOK(req[r], row.status, Loaded)
    BY <1>1, RequestParts DEF IInv, DataInv
<1>3. s.status \in Active /\ Sound(s, Loaded)
    BY <1>2 DEF ReqOK, Carried, Sound
<1>4. view.next \in Roles /\ view.count \in Nat
    BY <1>2 DEF View
<1> HIDE DEF view
<1>5. /\ o \in Offer /\ a \in Session /\ a.status \in Active /\ a.round = s.round + 1
      /\ Sound(a, Loaded \cup {o})
    BY <1>1, <1>3, <1>4, OfferAddedSound
<1>6. o.round = s.round + 1 /\ o.price = price
    OBVIOUS
<1> HIDE DEF o, a
<1>7. \E p \in Loaded \cup {o} : p.round = a.round /\ p.price = price
    BY <1>5, <1>6
<1>8. c \in Session /\ Sound(c, Loaded \cup {o})
    BY <1>5, <1>7, ConcludedSound
<1> HIDE DEF c
<1>9. req[r] \in [step : {"llm"}, op : {"turn"}, session : Session, view : View,
                  offer : {None}, stale : BOOLEAN]
    BY <1>2 DEF Request
<1>10. /\ q.step = "save" /\ q.session = c /\ q.offer = o
       /\ q.stale = req[r].stale /\ q.op = req[r].op
    BY <1>9
<1>11. q \in [step : {"save", "commit"}, op : {"turn", "override", "terminate"},
              session : Session, view : {None}, offer : Offer \cup {None},
              stale : BOOLEAN]
    BY <1>5, <1>8, <1>9
<1>12. q \in Request \cup {Idle} /\ escrow' \in Amounts \cup {None} /\ lost' \in BOOLEAN
    BY <1>1, <1>11 DEF Request, IInv, TypeOK
<1> HIDE DEF q
<1>13. ReqOK(q, row.status, Loaded)
    <2>1. o # None
        BY <1>5, NoneAssumption
    <2> QED BY <1>2, <1>8, <1>10, <2>1 DEF ReqOK, Carried, Fresh
<1>14. TypeOK' /\ DataInv'
    BY <1>1, <1>12, <1>13, OneMoves DEF IInv
<1>15. EscrowFromOffer'
    BY <1>1, EscrowKept DEF IInv
<1> QED BY <1>14, <1>15 DEF IInv

\* The session a waiting turn read.
LEMMA ReadSession ==
    ASSUME IInv, NEW r \in Requests, req[r].step = "llm"
    PROVE  /\ req[r].session \in Session
           /\ req[r].view \in View
           /\ \A n \in Nat : [req[r].session EXCEPT !.stalls = n] \in Session
           /\ [req[r].session EXCEPT !.failures = @ + 1] \in Session
<1>1. req[r] # Idle
    BY DEF Idle
<1>2. req[r].session \in Session /\ req[r].view \in View
    BY <1>1, RequestParts DEF IInv
<1> QED BY <1>2 DEF Session

\* An offer of the side's own.
LEMMA ProposesOK ==
    ASSUME IInv, NEW r \in Requests, req[r].step = "llm",
           NEW s \in Session, NEW price \in Prices, NEW words,
           s.status = req[r].session.status, s.round = req[r].session.round,
           s.price = req[r].session.price,
           Proposes(r, s, price, words)
    PROVE  IInv'
<1> DEFINE view   == req[r].view
           buyer  == IF view.next = "BUYER" THEN price ELSE view.buyer
           seller == IF view.next = "SELLER" THEN price ELSE view.seller
           last   == IF view.next = "BUYER" THEN view.buyer ELSE view.seller
           stalls == IF NoConcession(last, price) THEN s.stalls + 1 ELSE 0
           over   == Converged(buyer, seller) \/ s.round + 1 >= StallThreshold
<1>0. Answers(r, [s EXCEPT !.stalls = stalls], price, over, words)
    BY DEF Proposes
<1>1. PICK n \in Nat, ends \in BOOLEAN :
         Answers(r, [s EXCEPT !.stalls = n], price, ends, words)
    <2>1. stalls \in Nat
        BY DEF Session
    <2>2. over \in BOOLEAN
        OBVIOUS
    <2> HIDE DEF stalls, over
    <2> QED BY <1>0, <2>1, <2>2
<1> DEFINE t == [s EXCEPT !.stalls = n]
<1>2. t \in Session /\ t.status = s.status /\ t.round = s.round /\ t.price = s.price
    BY DEF Session
<1>3. price \in Amounts
    BY DEF Amounts
<1> HIDE DEF t
<1>4. Answers(r, t, price, ends, words)
    BY <1>1 DEF t
<1> QED BY <1>2, <1>3, <1>4, AnswersOK

\* OFFER and COUNTER.
LEMMA ProposeOK ==
    ASSUME IInv, NEW r \in Requests, NEW price \in Prices, NEW words,
           Propose(r, price, words)
    PROVE  IInv'
BY ReadSession, ProposesOK DEF Propose

\* The same, vetoed.
LEMMA ProposeVetoedOK ==
    ASSUME IInv, NEW r \in Requests, NEW price \in Prices, NEW words,
           ProposeVetoed(r, price, words)
    PROVE  IInv'
<1> DEFINE s == [req[r].session EXCEPT !.failures = @ + 1]
<1>1. /\ req[r].step = "llm"
      /\ \/ Answers(r, s, 1, TRUE, "POLICY_BREACH")
         \/ Proposes(r, s, price, words)
    BY DEF ProposeVetoed
<1>2. /\ s \in Session /\ s.status = req[r].session.status
      /\ s.round = req[r].session.round /\ s.price = req[r].session.price
    BY <1>1, ReadSession DEF Session
<1>3. 1 \in Amounts
    BY DEF Amounts
<1> HIDE DEF s
<1> QED BY <1>1, <1>2, <1>3, AnswersOK, ProposesOK

\* ACCEPT.
LEMMA AcceptOK ==
    ASSUME IInv, NEW r \in Requests, NEW price \in Prices, NEW words,
           Accept(r, price, words)
    PROVE  IInv'
<1>1. PICK other \in {req[r].view.buyer, req[r].view.seller} :
         Answers(r, req[r].session, IF other = None THEN price ELSE other, TRUE, words)
    BY DEF Accept
<1>2. req[r].step = "llm"
    BY DEF Accept
<1>3. other \in Amounts \cup {None} /\ req[r].session \in Session
    BY <1>2, ReadSession DEF View
<1> DEFINE p == IF other = None THEN price ELSE other
<1>4. p \in Amounts
    BY <1>3 DEF Amounts
<1>5. Answers(r, req[r].session, p, TRUE, words)
    BY <1>1
<1> HIDE DEF p
<1> QED BY <1>2, <1>3, <1>4, <1>5, AnswersOK

\* REJECT.
LEMMA RejectOK ==
    ASSUME IInv, NEW r \in Requests, NEW price \in Prices, NEW words,
           Reject(r, price, words)
    PROVE  IInv'
<1>1. price \in Amounts
    BY DEF Amounts
<1> QED BY <1>1, ReadSession, AnswersOK DEF Reject

\* The engine's placeholder for an expired session.
LEMMA AnswerExpiredOK ==
    ASSUME IInv, NEW r \in Requests, AnswerExpired(r)
    PROVE  IInv'
<1>1. 1 \in Amounts
    BY DEF Amounts
<1> QED BY <1>1, ReadSession, AnswersOK DEF AnswerExpired

\* The UPDATE, and the announcement of an agreement.
LEMMA SaveOK ==
    ASSUME IInv, NEW r \in Requests, Save(r)
    PROVE  IInv'
<1> DEFINE q == [req[r] EXCEPT !.step = "commit"]
<1>1. /\ req[r].step = "save" /\ req[r] # Idle /\ UNCHANGED <<row, offers, expired, lost>>
      /\ req' = [req EXCEPT ![r] = q]
    <2>1. req[r].step = "save" /\ UNCHANGED <<row, offers, expired, lost>>
          /\ req' = [req EXCEPT ![r].step = "commit"]
        BY DEF Save
    <2> QED BY <2>1 DEF Idle, IInv, TypeOK
<1>2. req[r] \in Request /\ ReqOK(req[r], row.status, Loaded)
    BY <1>1, RequestParts DEF IInv, DataInv
<1>3. req[r] \in [step : {"save", "commit"}, op : {"turn", "override", "terminate"},
                  session : Session, view : {None}, offer : Offer \cup {None},
                  stale : BOOLEAN]
    BY <1>1, <1>2 DEF Request
<1>4. /\ q.step = "commit" /\ q.session = req[r].session /\ q.offer = req[r].offer
      /\ q.stale = req[r].stale /\ q.op = req[r].op
    BY <1>3
<1>5. q \in [step : {"save", "commit"}, op : {"turn", "override", "terminate"},
             session : Session, view : {None}, offer : Offer \cup {None},
             stale : BOOLEAN]
    BY <1>3
<1>6. q \in Request \cup {Idle}
    BY <1>5 DEF Request
<1> HIDE DEF q
<1>7. \/ escrow' = escrow
      \/ q.session.status = "AGREED" /\ escrow' = q.session.price
    BY <1>4 DEF Save
<1>8. escrow' \in Amounts \cup {None} /\ lost' \in BOOLEAN
    BY <1>1, <1>3, <1>4, <1>7 DEF Session, IInv, TypeOK
<1>9. ReqOK(q, row.status, Loaded)
    BY <1>1, <1>2, <1>4 DEF ReqOK, Carried, Fresh
<1>10. TypeOK' /\ DataInv'
    BY <1>1, <1>6, <1>8, <1>9, OneMoves DEF IInv
<1>11. EscrowFromOffer'
    <2>1. CASE escrow' = escrow
        BY <1>1, <2>1, EscrowKept DEF IInv
    <2>2. CASE q.session.status = "AGREED" /\ escrow' = q.session.price
        <3>1. req'[r] = q
            BY <1>1 DEF IInv, TypeOK
        <3> QED BY <1>4, <2>2, <3>1 DEF EscrowFromOffer
    <2> QED BY <1>7, <2>1, <2>2
<1> QED BY <1>10, <1>11 DEF IInv

\* The row becomes what the request carries, its offer joins the others, and all
\* who have read before are stale.
LEMMA CommitOK ==
    ASSUME IInv, NEW r \in Requests, Commit(r)
    PROVE  IInv'
<1> DEFINE q == req[r]
<1>1. /\ q.step = "commit" /\ q # Idle /\ row' = q.session
      /\ offers' = IF q.offer = None THEN offers ELSE Append(offers, q.offer)
      /\ req' = Finished(r) /\ UNCHANGED <<expired, escrow, lost>>
    BY DEF Commit, Idle
<1>2. q \in Request /\ q.session \in Session /\ q.offer \in Offer \cup {None}
      /\ ReqOK(q, row.status, Loaded)
    BY <1>1, RequestParts DEF IInv, DataInv
<1>3. Loaded' = Carried(q, Loaded) /\ offers' \in Seq(Offer)
    <2>1. CASE q.offer = None
        BY <1>1, <2>1 DEF Carried, Loaded, IInv, TypeOK
    <2>2. CASE q.offer # None
        BY <1>1, <1>2, <2>2, LoadedAppend DEF Carried, IInv
    <2> QED BY <2>1, <2>2
<1>4. Loaded \subseteq Loaded'
    BY <1>3 DEF Carried
<1>5. \A other \in Requests : req[other] # Idle => [req[other] EXCEPT !.stale = TRUE] \in Request
    BY RequestParts DEF IInv, Request
<1>6. req' \in [Requests -> Request \cup {Idle}]
    BY <1>1, <1>5 DEF Finished
<1>7. TypeOK'
    BY <1>1, <1>2, <1>3, <1>6 DEF IInv, TypeOK
<1>8. Sound(row', Loaded')
    BY <1>1, <1>2, <1>3 DEF ReqOK
<1>9. ASSUME NEW other \in Requests, req'[other] # Idle
      PROVE  ReqOK(req'[other], row'.status, Loaded')
    <2>1. /\ req'[other] = [req[other] EXCEPT !.stale = TRUE]
          /\ req[other] # Idle
        BY <1>1, <1>9 DEF Finished
    <2>2. req[other] \in Request /\ ReqOK(req[other], row.status, Loaded)
        BY <2>1, RequestParts DEF IInv, DataInv
    <2>3. /\ req'[other].step = req[other].step /\ req'[other].session = req[other].session
          /\ req'[other].offer = req[other].offer /\ req'[other].stale = TRUE
        BY <2>1, <2>2 DEF Request
    <2>4. Sound(req[other].session, Carried(req[other], Loaded'))
        BY <1>4, <2>2, ReqGrows DEF ReqOK
    <2>5. Carried(req'[other], Loaded') = Carried(req[other], Loaded')
        BY <2>3 DEF Carried
    <2> QED BY <2>2, <2>3, <2>4, <2>5 DEF ReqOK, Fresh
<1>10. DataInv'
    BY <1>8, <1>9 DEF DataInv
<1>11. EscrowFromOffer'
    <2> SUFFICES ASSUME escrow # None, ~lost
                 PROVE  \/ \E o \in Loaded' : o.price = escrow
                        \/ \E p \in Requests : /\ req'[p].step = "commit"
                                               /\ req'[p].session.status = "AGREED"
                                               /\ req'[p].session.price = escrow
        BY <1>1 DEF EscrowFromOffer
    <2>1. CASE \E o \in Loaded : o.price = escrow
        BY <1>4, <2>1
    <2>2. CASE q.session.status = "AGREED" /\ q.session.price = escrow
        BY <1>2, <1>3, <2>2 DEF ReqOK, Sound
    <2>3. ASSUME NEW p \in Requests, p # r, req[p].step = "commit",
                 req[p].session.status = "AGREED", req[p].session.price = escrow
          PROVE  /\ req'[p].step = "commit" /\ req'[p].session.status = "AGREED"
                 /\ req'[p].session.price = escrow
        <3>1. req[p] # Idle
            BY <2>3 DEF Idle
        <3>2. req[p] \in Request /\ req'[p] = [req[p] EXCEPT !.stale = TRUE]
            BY <1>1, <2>3, <3>1, RequestParts DEF Finished, IInv
        <3> QED BY <2>3, <3>2 DEF Request
    <2> QED BY <2>1, <2>2, <2>3 DEF EscrowFromOffer, IInv
<1> QED BY <1>7, <1>10, <1>11 DEF IInv

\* A request fails.
LEMMA FailOK ==
    ASSUME IInv, NEW r \in Requests, Fail(r)
    PROVE  IInv'
<1>1. /\ req' = [req EXCEPT ![r] = Idle] /\ UNCHANGED <<row, offers, expired, escrow>>
      /\ lost' = (lost \/ (req[r].step = "commit" /\ req[r].session.status = "AGREED"))
    BY DEF Fail
<1>2. lost' \in BOOLEAN /\ escrow' \in Amounts \cup {None}
    BY <1>1 DEF IInv, TypeOK
<1>3. TypeOK' /\ DataInv'
    BY <1>1, <1>2, OneMoves DEF IInv
<1>4. Loaded' = Loaded /\ \A other \in Requests : other # r => req'[other] = req[other]
    BY <1>1 DEF Loaded, IInv, TypeOK
<1>5. EscrowFromOffer'
    BY <1>1, <1>4 DEF EscrowFromOffer, IInv
<1> QED BY <1>3, <1>5 DEF IInv

\* The session expires.
LEMMA ExpireOK ==
    ASSUME IInv, Expire
    PROVE  IInv'
<1>1. /\ expired' = TRUE /\ row' = row /\ offers' = offers /\ escrow' = escrow
      /\ lost' = lost /\ req' = req /\ Loaded' = Loaded
    BY DEF Expire, Loaded
<1>2. TypeOK'
    BY <1>1 DEF IInv, TypeOK
<1>3. DataInv'
    BY <1>1 DEF IInv, DataInv
<1>4. EscrowFromOffer'
    BY <1>1 DEF IInv, EscrowFromOffer
<1> QED BY <1>2, <1>3, <1>4 DEF IInv

\* Nothing happens.
LEMMA StutterOK ==
    ASSUME IInv, UNCHANGED vars
    PROVE  IInv'
<1>1. /\ expired' = expired /\ row' = row /\ offers' = offers /\ escrow' = escrow
      /\ lost' = lost /\ req' = req /\ Loaded' = Loaded
    BY DEF vars, Loaded
<1>2. TypeOK'
    BY <1>1 DEF IInv, TypeOK
<1>3. DataInv'
    BY <1>1 DEF IInv, DataInv
<1>4. EscrowFromOffer'
    BY <1>1 DEF IInv, EscrowFromOffer
<1> QED BY <1>2, <1>3, <1>4 DEF IInv

\* Every step keeps the invariant.
LEMMA NextOK ==
    ASSUME IInv, [Next]_vars
    PROVE  IInv'
<1>1. CASE Expire
    BY <1>1, ExpireOK
<1>2. CASE UNCHANGED vars
    BY <1>2, StutterOK
<1>3. ASSUME NEW r \in Requests, Step(r)
      PROVE  IInv'
    <2>1. CASE BeginTurn(r) \/ LoadOffers(r) \/ BeginTerminate(r) \/ AnswerExpired(r)
        BY <2>1, BeginTurnOK, LoadOffersOK, BeginTerminateOK, AnswerExpiredOK
    <2>2. CASE Save(r) \/ Commit(r) \/ Fail(r)
        BY <2>2, SaveOK, CommitOK, FailOK
    <2>3. CASE \E price \in Prices : BeginOverride(r, price)
        BY <2>3, BeginOverrideOK
    <2>4. CASE \E price \in Prices, words \in Words :
                  \/ Propose(r, price, words) \/ ProposeVetoed(r, price, words)
                  \/ Accept(r, price, words) \/ Reject(r, price, words)
        BY <2>4, ProposeOK, ProposeVetoedOK, AcceptOK, RejectOK
    <2> QED BY <1>3, <2>1, <2>2, <2>3, <2>4 DEF Step
<1> QED BY <1>1, <1>2, <1>3 DEF Next

-----------------------------------------------------------------------------

\* The inductive invariant holds of every reachable state.
THEOREM Invariance == Spec => []IInv
<1>1. Init => IInv
    BY InitOK
<1>2. IInv /\ [Next]_vars => IInv'
    BY NextOK
<1> QED BY <1>1, <1>2, PTL DEF Spec

\* Sessions, offers and requests keep their types; a round never passes
\* MAX_ROUNDS (add_offer), and STALLED is never stored (_handle_stall).
THEOREM SessionTypes == Spec => []TypeOK
<1>1. IInv => TypeOK
    BY DEF IInv
<1> QED BY <1>1, Invariance, PTL

\* No overwriting makes a session count a round nobody made an offer in.
THEOREM RoundsAreOffered == Spec => []RoundsHaveOffers
<1>1. IInv => RoundsHaveOffers
    BY DEF IInv, DataInv, Sound, RoundsHaveOffers
<1> QED BY <1>1, Invariance, PTL

\* A session is agreed exactly when it has a price, offered in its last round.
THEOREM AgreementIsOffered == Spec => []AgreedAtAnOffer
<1>1. IInv => AgreedAtAnOffer
    BY DEF IInv, DataInv, Sound, AgreedAtAnOffer
<1> QED BY <1>1, Invariance, PTL

\* The escrow created from SessionAgreed before the commit has a price that was
\* offered, unless that turn is still about to commit or failed to.
THEOREM EscrowIsOffered == Spec => []EscrowFromOffer
<1>1. IInv => EscrowFromOffer
    BY DEF IInv
<1> QED BY <1>1, Invariance, PTL

\* Only a commit changes the session.
LEMMA RowMoves ==
    ASSUME Next, row' # row
    PROVE  \E r \in Requests : Commit(r)
<1>1. ~ Expire
    BY DEF Expire
<1>2. PICK r \in Requests : Step(r)
    BY <1>1 DEF Next
<1>3. ASSUME NEW price, NEW words
      PROVE  /\ ~ Propose(r, price, words) /\ ~ ProposeVetoed(r, price, words)
             /\ ~ Accept(r, price, words) /\ ~ Reject(r, price, words)
             /\ ~ BeginOverride(r, price)
    BY DEF Propose, ProposeVetoed, Proposes, Accept, Reject, Answers, BeginOverride, Reads
<1>4. ~ BeginTurn(r) /\ ~ LoadOffers(r) /\ ~ BeginTerminate(r) /\ ~ AnswerExpired(r)
    BY DEF BeginTurn, LoadOffers, BeginTerminate, AnswerExpired, Reads, Answers
<1>5. ~ Save(r) /\ ~ Fail(r)
    BY DEF Save, Fail
<1> QED BY <1>2, <1>3, <1>4, <1>5 DEF Step

\* What a commit says of the session it overwrites.
LEMMA CommitIsFresh ==
    ASSUME IInv, NEW r \in Requests, Commit(r)
    PROVE  Commits(r) /\ Fresh(req[r], row.status)
<1>1. req[r].step = "commit" /\ req'[r] = Idle /\ req[r] # Idle
    BY DEF Commit, Finished, Idle
<1>2. Fresh(req[r], row.status)
    BY <1>1 DEF IInv, DataInv, ReqOK
<1> QED BY <1>1, <1>2 DEF Commits

\* An ended session is rewritten by stale requests alone: each guard on the
\* status is right at the moment it is evaluated.
THEOREM StaleOnly == Spec => OnlyStaleReopens
<1>1. IInv /\ [Next]_vars =>
        [row.status \in Terminal /\ row' # row
            => \E r \in Requests : Commits(r) /\ req[r].stale]_vars
    <2> SUFFICES ASSUME IInv, Next, row.status \in Terminal, row' # row
                 PROVE  \E r \in Requests : Commits(r) /\ req[r].stale
        BY DEF vars
    <2>1. PICK r \in Requests : Commit(r)
        BY RowMoves
    <2> QED BY <2>1, CommitIsFresh DEF Fresh
<1> QED BY <1>1, Invariance, PTL DEF Spec, OnlyStaleReopens

\* A session under review is rewritten by an override, by a termination, or by a
\* turn that read it before it was escalated.
THEOREM ReviewWaits == Spec => ReviewNeedsHuman
<1>1. IInv /\ [Next]_vars =>
        [row.status = "HUMAN_REVIEW" /\ row' # row
            => \E r \in Requests : Commits(r) /\ (req[r].stale \/ req[r].op # "turn")]_vars
    <2> SUFFICES ASSUME IInv, Next, row.status = "HUMAN_REVIEW", row' # row
                 PROVE  \E r \in Requests : Commits(r) /\ (req[r].stale \/ req[r].op # "turn")
        BY DEF vars
    <2>1. PICK r \in Requests : Commit(r)
        BY RowMoves
    <2> QED BY <2>1, CommitIsFresh DEF Fresh
<1> QED BY <1>1, Invariance, PTL DEF Spec, ReviewNeedsHuman
=============================================================================
