------------------------------ MODULE Treasury ------------------------------
(***************************************************************************)
(* The liquidity pool of one enterprise and one of its foreign-exchange    *)
(* positions.  A request of TreasuryService runs in a session of its own,  *)
(* which locks nothing before an UPDATE: it reads, may wait for the rate   *)
(* provider, selects again, and updates the columns that differ.           *)
(*                                                                         *)
(* The service never commits.  The dashboard's session is rolled back; for *)
(* the commands, which no endpoint calls, it is their caller who commits.  *)
(***************************************************************************)
EXTENDS Integers, FiniteSets

CONSTANTS
    Tellers,     \* the requests
    Amounts,     \* what is paid in and out
    Rates,       \* what the provider may publish
    Stub         \* the rate given when the provider cannot be reached

ASSUME TreasuryAssumption ==
    Amounts \subseteq Nat \ {0} /\ Stub \notin Rates

VARIABLES
    pool,        \* the committed pool; {} when there is none
    position,    \* the committed position; {} when there is none
    rateCache,   \* the rate Redis holds, in a set, or {}
    rowLocks,    \* who holds the lock of the pool's row and of the position's
    tellerPc,    \* where each request is
    tellerOp,    \* what it does
    mine,        \* its copies of pool and position
    differs,     \* the columns its UPDATEs carry
    overlapped,  \* history: requests during which another has committed
    paidUp       \* history: requests that have committed

treasuryVars ==
    <<pool, position, rateCache, rowLocks, tellerPc, tellerOp, mine, differs, overlapped, paidUp>>

Currencies == {"inr", "usdc"}
EmptyPool == [inr |-> 0, usdc |-> 0, rate |-> Stub]
NewPosition == [rate |-> Stub, status |-> "OPEN"]

\* Payments in and out, a rate for the pool and its positions, the opening and
\* the closing of the position, and the dashboard.
Operations ==
    [kind : {"deposit", "withdraw"}, currency : Currencies, amount : Amounts]
       \cup [kind : {"rate", "open", "close", "dashboard"}]

WantsPool(o) == o.kind \in {"deposit", "withdraw", "rate", "dashboard"}

\* The guards of LiquidityPool and FXPosition.
PoolAllows(o, p) == o.kind = "withdraw" => o.amount <= p[o.currency]

\* What an operation makes of a pool, x being the rate it was given.
PoolAfter(o, p, x) ==
    CASE o.kind = "deposit"  -> [p EXCEPT ![o.currency] = @ + o.amount]
      [] o.kind = "withdraw" -> [p EXCEPT ![o.currency] = @ - o.amount]
      [] o.kind = "rate"     -> [p EXCEPT !.rate = x]
      [] OTHER               -> p

Differing(a, b) == { c \in DOMAIN a : a[c] # b[c] }

\* The enterprise may have a pool with money in it, and a position, already.
TreasuryInit ==
    /\ pool \in {{}} \cup { {[EmptyPool EXCEPT !.inr = a, !.usdc = a]} : a \in Amounts }
    /\ position \in {{}, {NewPosition}} /\ rateCache = {}
    /\ rowLocks = [pool |-> {}, position |-> {}]
    /\ tellerPc = [t \in Tellers |-> "idle"]
    /\ tellerOp = [t \in Tellers |-> [kind |-> "dashboard"]]
    /\ mine = [t \in Tellers |-> [pool |-> EmptyPool, position |-> NewPosition]]
    /\ differs = [t \in Tellers |-> [pool |-> {}, position |-> {}]]
    /\ overlapped = {} /\ paidUp = {}

TellerGoes(t, step) == tellerPc' = [tellerPc EXCEPT ![t] = step]

\* The session is closed: a rollback of what is not committed.
TellerCloses(t) ==
    /\ TellerGoes(t, "done")
    /\ rowLocks' = [x \in DOMAIN rowLocks |-> rowLocks[x] \ {t}]

\* The lock of a row, or of an index entry that is being inserted.
Locks(t, x) ==
    /\ rowLocks[x] \subseteq {t}
    /\ rowLocks' = [rowLocks EXCEPT ![x] = {t}]

\* get_by_enterprise_id; close_fx_position reads its position, and open goes
\* straight to the INSERT.
BeginTeller(t, o) ==
    /\ tellerPc[t] = "idle"
    /\ tellerOp' = [tellerOp EXCEPT ![t] = o]
    /\ CASE WantsPool(o) /\ pool = {} -> TellerGoes(t, "create") /\ UNCHANGED mine
         [] WantsPool(o) /\ pool # {} ->
              /\ TellerGoes(t, "have")
              /\ \E p \in pool : mine' = [mine EXCEPT ![t].pool = p]
         [] o.kind = "close" ->
              IF \E q \in position : q.status = "OPEN"
              THEN /\ TellerGoes(t, "closing")
                   /\ \E q \in position :
                         mine' = [mine EXCEPT ![t].position = [q EXCEPT !.status = "CLOSED"]]
              ELSE TellerGoes(t, "done") /\ UNCHANGED mine
         [] o.kind = "open" ->
              /\ TellerGoes(t, IF position = {} /\ rowLocks.position = {} THEN "opening" ELSE "done")
              /\ UNCHANGED mine
    /\ UNCHANGED <<pool, position, rateCache, rowLocks, differs, overlapped, paidUp>>

\* _get_or_create_pool: the INSERT waits for another open INSERT for the same
\* enterprise, and fails when that has been committed.
CreatePool(t) ==
    /\ tellerPc[t] = "create"
    /\ IF pool # {} THEN TellerCloses(t) /\ UNCHANGED differs
       ELSE /\ Locks(t, "pool")
            /\ TellerGoes(t, "have")
            /\ differs' = [differs EXCEPT ![t].pool = DOMAIN EmptyPool]
    /\ UNCHANGED <<pool, position, rateCache, tellerOp, mine, overlapped, paidUp>>

\* FrankfurterFXAdapter.get_rate: the cached rate, or the provider's, which is
\* then cached if Redis answers, or the stub; it raises nothing for the network.
GetRate(t) ==
    /\ tellerPc[t] = "have" /\ tellerOp[t].kind \in {"rate", "dashboard"}
    /\ \/ \E x \in rateCache :
             /\ mine' = [mine EXCEPT ![t].pool.rate = x]
             /\ UNCHANGED rateCache
       \/ /\ rateCache = {}
          /\ \E x \in Rates :
                /\ mine' = [mine EXCEPT ![t].pool.rate = x]
                /\ rateCache' \in {{x}, {}}
       \/ /\ rateCache = {}
          /\ mine' = [mine EXCEPT ![t].pool.rate = Stub]
          /\ UNCHANGED rateCache
    /\ TellerGoes(t, IF tellerOp[t].kind = "rate" THEN "select" ELSE "show")
    /\ UNCHANGED <<pool, position, rowLocks, tellerOp, differs, overlapped, paidUp>>

ExpireRate ==
    /\ rateCache # {} /\ rateCache' = {}
    /\ UNCHANGED <<pool, position, rowLocks, tellerPc, tellerOp, mine, differs, overlapped, paidUp>>

\* The dashboard counts the open positions, answers, and nothing is committed.
ShowDashboard(t) ==
    /\ tellerPc[t] = "show"
    /\ TellerCloses(t)
    /\ UNCHANGED <<pool, position, rateCache, tellerOp, mine, differs, overlapped, paidUp>>

\* deposit_inr and its like.
Pay(t) ==
    /\ tellerPc[t] = "have" /\ tellerOp[t].kind \in {"deposit", "withdraw"}
    /\ IF PoolAllows(tellerOp[t], mine[t].pool)
       THEN /\ mine' = [mine EXCEPT ![t].pool = PoolAfter(tellerOp[t], @, Stub)]
            /\ TellerGoes(t, "select") /\ UNCHANGED rowLocks
       ELSE TellerCloses(t) /\ UNCHANGED mine
    /\ UNCHANGED <<pool, position, rateCache, tellerOp, differs, overlapped, paidUp>>

SelectWithoutUsdc(t) ==
    /\ tellerPc[t] = "select"
    /\ differs' = [differs EXCEPT ![t].pool =
                     IF t \in rowLocks.pool THEN @
                     ELSE UNION { Differing(mine[t].pool, p) \ {"usdc"} : p \in pool }]
    /\ TellerGoes(t, "update")
    /\ UNCHANGED <<pool, position, rateCache, rowLocks, tellerOp, mine, overlapped, paidUp>>

\* The repository's update selects the row again and assigns every column; an
\* UPDATE is for those that differ, and of a row inserted here for the row.
SelectPool(t) ==
    /\ tellerPc[t] = "select"
    /\ differs' = [differs EXCEPT ![t].pool =
                     IF t \in rowLocks.pool THEN @
                     ELSE UNION { Differing(mine[t].pool, p) : p \in pool }]
    /\ TellerGoes(t, "update")
    /\ UNCHANGED <<pool, position, rateCache, rowLocks, tellerOp, mine, overlapped, paidUp>>

UpdatePool(t) ==
    /\ tellerPc[t] = "update"
    /\ IF differs[t].pool = {} THEN UNCHANGED rowLocks ELSE Locks(t, "pool")
    /\ TellerGoes(t, IF tellerOp[t].kind = "rate" THEN "positions" ELSE "commit")
    /\ UNCHANGED <<pool, position, rateCache, tellerOp, mine, differs, overlapped, paidUp>>

ListEveryPosition(t) ==
    /\ tellerPc[t] = "positions"
    /\ IF position # {}
       THEN /\ mine' = [mine EXCEPT ![t].position = [rate |-> mine[t].pool.rate, status |-> "OPEN"]]
            /\ TellerGoes(t, "closing")
       ELSE TellerGoes(t, "commit") /\ UNCHANGED mine
    /\ UNCHANGED <<pool, position, rateCache, rowLocks, tellerOp, differs, overlapped, paidUp>>

\* list_open_by_enterprise, and the new rate for the position.
ListPositions(t) ==
    /\ tellerPc[t] = "positions"
    /\ IF \E q \in position : q.status = "OPEN"
       THEN /\ mine' = [mine EXCEPT ![t].position = [rate |-> mine[t].pool.rate, status |-> "OPEN"]]
            /\ TellerGoes(t, "closing")
       ELSE TellerGoes(t, "commit") /\ UNCHANGED mine
    /\ UNCHANGED <<pool, position, rateCache, rowLocks, tellerOp, differs, overlapped, paidUp>>

\* update of a position: SELECT, and the columns that differ.
SelectPosition(t) ==
    /\ tellerPc[t] = "closing"
    /\ differs' = [differs EXCEPT ![t].position =
                     UNION { Differing(mine[t].position, q) : q \in position }]
    /\ TellerGoes(t, "moving")
    /\ UNCHANGED <<pool, position, rateCache, rowLocks, tellerOp, mine, overlapped, paidUp>>

UpdatePosition(t) ==
    /\ tellerPc[t] = "moving"
    /\ IF differs[t].position = {} THEN UNCHANGED rowLocks ELSE Locks(t, "position")
    /\ TellerGoes(t, "commit")
    /\ UNCHANGED <<pool, position, rateCache, tellerOp, mine, differs, overlapped, paidUp>>

\* open_fx_position: one position is followed.
InsertPosition(t) ==
    /\ tellerPc[t] = "opening"
    /\ IF position # {} THEN TellerCloses(t) /\ UNCHANGED <<mine, differs>>
       ELSE /\ Locks(t, "position")
            /\ mine' = [mine EXCEPT ![t].position = NewPosition]
            /\ differs' = [differs EXCEPT ![t].position = DOMAIN NewPosition]
            /\ TellerGoes(t, "commit")
    /\ UNCHANGED <<pool, position, rateCache, tellerOp, overlapped, paidUp>>

\* The columns of `from` over what is committed.
Written(table, cols, from) ==
    IF cols = {} THEN table
    ELSE IF table = {} THEN {from}
    ELSE { [c \in DOMAIN q |-> IF c \in cols THEN from[c] ELSE q[c]] : q \in table }

CommitTreasury(t) ==
    /\ tellerPc[t] = "commit"
    /\ pool' = Written(pool, differs[t].pool, mine[t].pool)
    /\ position' = Written(position, differs[t].position, mine[t].position)
    /\ overlapped' = overlapped \cup { q \in Tellers \ {t} : tellerPc[q] \notin {"idle", "done"} }
    /\ TellerCloses(t)
    /\ paidUp' = paidUp \cup {t}
    /\ UNCHANGED <<rateCache, tellerOp, mine, differs>>

TellerFails(t) ==
    /\ tellerPc[t] \notin {"idle", "done"}
    /\ TellerCloses(t)
    /\ UNCHANGED <<pool, position, rateCache, tellerOp, mine, differs, overlapped, paidUp>>

TellerAdvances(t) ==
    \/ CreatePool(t) \/ GetRate(t) \/ ShowDashboard(t) \/ Pay(t)
    \/ SelectPool(t) \/ UpdatePool(t) \/ ListPositions(t)
    \/ SelectPosition(t) \/ UpdatePosition(t) \/ InsertPosition(t) \/ CommitTreasury(t)

TreasuryNext ==
    \/ \E t \in Tellers :
          (\E o \in Operations : BeginTeller(t, o)) \/ TellerAdvances(t) \/ TellerFails(t)
    \/ ExpireRate

TreasurySpec == TreasuryInit /\ [][TreasuryNext]_treasuryVars

-----------------------------------------------------------------------------

\* The request whose commit this step is.
Commits(t) == t \in paidUp' \ (paidUp \cup overlapped)

\* A payment or a rate that nobody overtook does to the committed pool what it
\* says, and the pool allowed it: money is lost to overlapping requests only
\* (services.py:53-115, repositories.py:51-65).
PaysAlone ==
    [][ \A t \in Tellers : Commits(t) /\ tellerOp[t].kind \in {"deposit", "withdraw", "rate"} =>
          LET before == IF pool = {} THEN EmptyPool ELSE CHOOSE p \in pool : TRUE
          IN  /\ PoolAllows(tellerOp[t], before)
              /\ pool' = {PoolAfter(tellerOp[t], before, mine[t].pool.rate)} ]_treasuryVars

\* A position is closed for good, unless a rate that read it open was overtaken
\* by the closing (services.py:114-121, repositories.py:129-132).
ClosedForGood ==
    [][ \A q \in position : q.status = "CLOSED" =>
          \A t \in Tellers : Commits(t) => \A p \in position' : p.status = "CLOSED" ]_treasuryVars
=============================================================================
