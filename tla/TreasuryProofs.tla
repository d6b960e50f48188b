--------------------------- MODULE TreasuryProofs ---------------------------
(***************************************************************************)
(* Proofs about Treasury, for any number of requests, amounts and rates.   *)
(***************************************************************************)
EXTENDS Treasury, TLAPS

PoolColumns == {"inr", "usdc", "rate"}
PositionColumns == {"rate", "status"}

\* A row is a function on its columns, and nothing else.
IsPool(p) == p = [c \in PoolColumns |-> p[c]]
IsPosition(q) == q = [c \in PositionColumns |-> q[c]]

\* The pool a payment finds, which is a new one when there is none.
Before == IF pool = {} THEN EmptyPool ELSE CHOOSE p \in pool : TRUE

PoolKinds == {"deposit", "withdraw", "rate"}

\* Each table has one row at most, and each copy is a row.
RowsAre ==
    /\ \A p, q \in pool : p = q
    /\ \A p, q \in position : p = q
    /\ \A p \in pool : IsPool(p)
    /\ \A q \in position : IsPosition(q)
    /\ \A t \in Tellers : IsPool(mine[t].pool) /\ IsPosition(mine[t].position)

TellerSteps == {"idle", "create", "have", "show", "select", "update", "positions",
                "closing", "moving", "opening", "commit", "done"}

Shapes ==
    /\ tellerPc \in [Tellers -> TellerSteps] /\ tellerOp \in [Tellers -> Operations]
    /\ DOMAIN mine = Tellers /\ DOMAIN differs = Tellers
    /\ \A t \in Tellers : mine[t] = [pool |-> mine[t].pool, position |-> mine[t].position]
    /\ \A t \in Tellers : differs[t] = [pool |-> differs[t].pool, position |-> differs[t].position]
    /\ rowLocks = [pool |-> rowLocks.pool, position |-> rowLocks.position]

\* What a request nobody has overtaken has made of the pool so far.
PoolCopy(t) ==
    /\ tellerPc[t] \in {"idle", "create"} => mine[t].pool = EmptyPool
    /\ tellerPc[t] = "idle" => t \notin rowLocks.pool
    /\ tellerPc[t] = "create" => pool = {}
    /\ tellerPc[t] = "opening" => tellerOp[t].kind = "open"
    /\ tellerPc[t] \in {"have", "select"} =>
          /\ t \in rowLocks.pool <=> pool = {}
          /\ t \in rowLocks.pool => differs[t].pool = PoolColumns
    /\ tellerPc[t] = "have" => mine[t].pool = Before
    /\ tellerPc[t] \in {"select", "update", "positions", "closing", "moving", "commit"}
         /\ tellerOp[t].kind \in PoolKinds =>
          /\ PoolAllows(tellerOp[t], Before)
          /\ mine[t].pool = PoolAfter(tellerOp[t], Before, mine[t].pool.rate)
    /\ tellerPc[t] \in {"update", "positions", "closing", "moving", "commit"}
         /\ tellerOp[t].kind \in PoolKinds =>
          differs[t].pool = IF pool = {} THEN PoolColumns ELSE Differing(mine[t].pool, Before)

\* A request nobody has overtaken changes a position only if it is open.
PositionCopy(t) ==
    /\ tellerPc[t] \in {"closing", "moving"} => \A q \in position : q.status = "OPEN"
    /\ tellerPc[t] = "commit" =>
          differs[t].position = {} \/ \A q \in position : q.status = "OPEN"
    /\ tellerPc[t] \notin {"moving", "commit", "done"} => differs[t].position = {}

TreasuryInv ==
    /\ RowsAre /\ Shapes
    /\ \A t \in Tellers : tellerPc[t] = "idle" => t \notin overlapped
    /\ \A t \in Tellers \ overlapped : PoolCopy(t) /\ PositionCopy(t)

\* The rows there are at first.
LEMMA FirstRows ==
    /\ IsPool(EmptyPool) /\ IsPosition(NewPosition)
    /\ DOMAIN EmptyPool = PoolColumns /\ DOMAIN NewPosition = PositionColumns
    /\ \A a \in Amounts : IsPool([EmptyPool EXCEPT !.inr = a, !.usdc = a])
BY DEF IsPool, IsPosition, EmptyPool, NewPosition, PoolColumns, PositionColumns

\* A changed row is a row.
LEMMA ChangedRows ==
    ASSUME NEW p, IsPool(p), NEW x, NEW o \in Operations
    PROVE  /\ IsPool([p EXCEPT !.rate = x]) /\ [p EXCEPT !.rate = x].rate = x
           /\ IsPool(PoolAfter(o, p, x))
<1>1. ASSUME NEW c \in PoolColumns, NEW v
      PROVE  IsPool([p EXCEPT ![c] = v]) /\ [p EXCEPT ![c] = v][c] = v
  BY <1>1 DEF IsPool
<1>2. "rate" \in PoolColumns /\ Currencies \subseteq PoolColumns
  BY DEF PoolColumns, Currencies
<1>3. o.kind \in {"deposit", "withdraw"} => o.currency \in Currencies
  BY DEF Operations
<1>4. QED
  BY <1>1, <1>2, <1>3 DEF PoolAfter

\* A copy over the columns in which it differs from a row is the copy.
LEMMA WrittenIsCopy ==
    ASSUME NEW p, IsPool(p), NEW m, IsPool(m)
    PROVE  /\ Differing(m, p) = {} => m = p
           /\ [c \in DOMAIN p |-> IF c \in Differing(m, p) THEN m[c] ELSE p[c]] = m
<1>1. DOMAIN p = PoolColumns /\ DOMAIN m = PoolColumns
  BY DEF IsPool
<1>2. \A c \in PoolColumns : c \notin Differing(m, p) => m[c] = p[c]
  BY <1>1 DEF Differing
<1>3. [c \in PoolColumns |-> IF c \in Differing(m, p) THEN m[c] ELSE p[c]]
          = [c \in PoolColumns |-> m[c]]
  BY <1>2
<1>4. Differing(m, p) = {} => [c \in PoolColumns |-> m[c]] = [c \in PoolColumns |-> p[c]]
  BY <1>2
<1>5. QED
  BY <1>1, <1>3, <1>4 DEF IsPool

\* The one row of the pool.
LEMMA BeforeIs ==
    ASSUME RowsAre
    PROVE  /\ pool = {} => Before = EmptyPool
           /\ pool # {} => Before \in pool /\ pool = {Before}
           /\ IsPool(Before)
BY FirstRows DEF Before, RowsAre

\* A request is where it was when another one makes a step, which commits
\* nothing unless this one is not under way.
LEMMA OtherTellers ==
    ASSUME NEW u \in Tellers, PoolCopy(u), PositionCopy(u),
           tellerPc'[u] = tellerPc[u], tellerOp'[u] = tellerOp[u],
           mine'[u] = mine[u], differs'[u] = differs[u],
           u \in rowLocks'.pool <=> u \in rowLocks.pool,
           UNCHANGED <<pool, position>> \/ tellerPc[u] \in {"idle", "done"}
    PROVE  PoolCopy(u)' /\ PositionCopy(u)'
<1>1. CASE UNCHANGED <<pool, position>>
  <2>1. Before' = Before
    BY <1>1 DEF Before
  <2>2. PoolCopy(u)'
    BY <1>1, <2>1 DEF PoolCopy
  <2>3. PositionCopy(u)'
    BY <1>1 DEF PositionCopy
  <2>4. QED
    BY <2>2, <2>3
<1>2. CASE tellerPc[u] \in {"idle", "done"}
  BY <1>2 DEF PoolCopy, PositionCopy
<1>3. QED
  BY <1>1, <1>2

TellerStep(t) == (\E o \in Operations : BeginTeller(t, o)) \/ TellerAdvances(t) \/ TellerFails(t)

\* A lock that is taken was nobody else's, and one that is given back was one's own.
LEMMA LocksOfOthers ==
    ASSUME Shapes, NEW t, TellerCloses(t) \/ Locks(t, "pool") \/ Locks(t, "position")
    PROVE  /\ rowLocks' = [pool |-> rowLocks'.pool, position |-> rowLocks'.position]
           /\ \A u : u # t => (u \in rowLocks'.pool <=> u \in rowLocks.pool)
           /\ Locks(t, "pool") => rowLocks'.pool = {t}
           /\ Locks(t, "position") => rowLocks'.pool = rowLocks.pool
<1>1. CASE TellerCloses(t)
  BY <1>1 DEF TellerCloses, Shapes, Locks
<1>2. CASE Locks(t, "pool")
  BY <1>2 DEF Locks, Shapes
<1>3. CASE Locks(t, "position")
  BY <1>3 DEF Locks, Shapes
<1>4. QED
  BY <1>1, <1>2, <1>3

\* How a request begins.
LEMMA Beginnings ==
    ASSUME NEW t \in Tellers, NEW o \in Operations, BeginTeller(t, o)
    PROVE  /\ tellerPc[t] = "idle" /\ tellerOp' = [tellerOp EXCEPT ![t] = o]
           /\ UNCHANGED <<pool, position, rateCache, rowLocks, differs, overlapped, paidUp>>
           /\ \/ WantsPool(o) /\ pool = {} /\ TellerGoes(t, "create") /\ UNCHANGED mine
              \/ /\ WantsPool(o) /\ TellerGoes(t, "have")
                 /\ \E p \in pool : mine' = [mine EXCEPT ![t].pool = p]
              \/ /\ o.kind = "close" /\ TellerGoes(t, "closing")
                 /\ \E q \in position : q.status = "OPEN"
                 /\ \E q \in position :
                       mine' = [mine EXCEPT ![t].position = [q EXCEPT !.status = "CLOSED"]]
              \/ o.kind = "open" /\ TellerGoes(t, "opening") /\ UNCHANGED mine
              \/ TellerGoes(t, "done") /\ UNCHANGED mine
<1>1. \/ WantsPool(o) /\ pool = {}
      \/ WantsPool(o) /\ pool # {}
      \/ ~WantsPool(o) /\ o.kind = "close"
      \/ ~WantsPool(o) /\ o.kind = "open"
  BY DEF Operations, WantsPool
<1>2. "close" # "open" /\ (o.kind \in {"close", "open"} => ~WantsPool(o))
  BY DEF WantsPool
<1>3. CASE WantsPool(o) /\ pool = {}
  BY <1>2, <1>3 DEF BeginTeller
<1>4. CASE WantsPool(o) /\ pool # {}
  BY <1>2, <1>4 DEF BeginTeller
<1>5. CASE ~WantsPool(o) /\ o.kind = "close"
  BY <1>2, <1>5 DEF BeginTeller
<1>6. CASE ~WantsPool(o) /\ o.kind = "open"
  BY <1>2, <1>6 DEF BeginTeller
<1>7. QED
  BY <1>1, <1>3, <1>4, <1>5, <1>6

\* A step of one request leaves the others as they are.
Framed(t) ==
    /\ Shapes'
    /\ \A u \in Tellers \ {t} :
          /\ tellerPc'[u] = tellerPc[u] /\ tellerOp'[u] = tellerOp[u]
          /\ mine'[u] = mine[u] /\ differs'[u] = differs[u]
          /\ u \in rowLocks'.pool <=> u \in rowLocks.pool

\* A step of one request leaves every other request what it holds, and the locks it holds.
LEMMA StepFrames ==
    ASSUME TreasuryInv, NEW t \in Tellers, TellerStep(t)
    PROVE  Framed(t)
<1> USE DEF TellerGoes
<1>1. Shapes
  BY DEF TreasuryInv
<1> DEFINE Moves == \E step \in TellerSteps : tellerPc' = [tellerPc EXCEPT ![t] = step]
           MineGoes ==
          \/ UNCHANGED mine
          \/ \E p : mine' = [mine EXCEPT ![t].pool = p]
          \/ \E q : mine' = [mine EXCEPT ![t].position = q]
          \/ \E x : mine' = [mine EXCEPT ![t].pool.rate = x]
           DiffersGoes ==
          \/ UNCHANGED differs
          \/ \E c : differs' = [differs EXCEPT ![t].pool = c]
          \/ \E c : differs' = [differs EXCEPT ![t].position = c]
<1>2. Moves
  <2>1. ASSUME NEW o \in Operations, BeginTeller(t, o) PROVE  Moves
    BY <2>1, Beginnings DEF TellerSteps
  <2>2. CASE CreatePool(t)
    BY <2>2 DEF CreatePool, TellerCloses, TellerSteps
  <2>3. CASE GetRate(t)
    BY <2>3 DEF GetRate, TellerCloses, TellerSteps
  <2>4. CASE ShowDashboard(t)
    BY <2>4 DEF ShowDashboard, TellerCloses, TellerSteps
  <2>5. CASE Pay(t)
    BY <2>5 DEF Pay, TellerCloses, TellerSteps
  <2>6. CASE SelectPool(t)
    BY <2>6 DEF SelectPool, TellerCloses, TellerSteps
  <2>7. CASE UpdatePool(t)
    BY <2>7 DEF UpdatePool, TellerCloses, TellerSteps
  <2>8. CASE ListPositions(t)
    BY <2>8 DEF ListPositions, TellerCloses, TellerSteps
  <2>9. CASE SelectPosition(t)
    BY <2>9 DEF SelectPosition, TellerCloses, TellerSteps
  <2>10. CASE UpdatePosition(t)
    BY <2>10 DEF UpdatePosition, TellerCloses, TellerSteps
  <2>11. CASE InsertPosition(t)
    BY <2>11 DEF InsertPosition, TellerCloses, TellerSteps
  <2>12. CASE CommitTreasury(t)
    BY <2>12 DEF CommitTreasury, TellerCloses, TellerSteps
  <2>13. CASE TellerFails(t)
    BY <2>13 DEF TellerFails, TellerCloses, TellerSteps
  <2>14. QED
    BY <2>1, <2>2, <2>3, <2>4, <2>5, <2>6, <2>7, <2>8, <2>9, <2>10, <2>11, <2>12, <2>13 DEF TellerStep, TellerAdvances
<1>3. /\ tellerOp' \in [Tellers -> Operations]
      /\ \A u \in Tellers \ {t} : tellerOp'[u] = tellerOp[u]
  BY <1>1 DEF TellerStep, TellerAdvances, Shapes, BeginTeller, CreatePool, GetRate,
     ShowDashboard, Pay, SelectPool, UpdatePool, ListPositions, SelectPosition, UpdatePosition,
     InsertPosition, CommitTreasury, TellerFails
<1>4. MineGoes
  <2>1. ASSUME NEW o \in Operations, BeginTeller(t, o) PROVE  MineGoes
    BY <2>1, Beginnings
  <2>2. CASE CreatePool(t)
    BY <2>2 DEF CreatePool
  <2>3. CASE GetRate(t)
    BY <2>3 DEF GetRate
  <2>4. CASE ShowDashboard(t)
    BY <2>4 DEF ShowDashboard
  <2>5. CASE Pay(t)
    BY <2>5 DEF Pay
  <2>6. CASE SelectPool(t)
    BY <2>6 DEF SelectPool
  <2>7. CASE UpdatePool(t)
    BY <2>7 DEF UpdatePool
  <2>8. CASE ListPositions(t)
    BY <2>8 DEF ListPositions
  <2>9. CASE SelectPosition(t)
    BY <2>9 DEF SelectPosition
  <2>10. CASE UpdatePosition(t)
    BY <2>10 DEF UpdatePosition
  <2>11. CASE InsertPosition(t)
    BY <2>11 DEF InsertPosition
  <2>12. CASE CommitTreasury(t)
    BY <2>12 DEF CommitTreasury
  <2>13. CASE TellerFails(t)
    BY <2>13 DEF TellerFails
  <2>14. QED
    BY <2>1, <2>2, <2>3, <2>4, <2>5, <2>6, <2>7, <2>8, <2>9, <2>10, <2>11, <2>12, <2>13 DEF TellerStep, TellerAdvances
<1>5. /\ DOMAIN mine' = Tellers /\ \A u \in Tellers \ {t} : mine'[u] = mine[u]
      /\ mine'[t] = [pool |-> mine'[t].pool, position |-> mine'[t].position]
  BY <1>1, <1>4 DEF Shapes
<1>6. DiffersGoes
  <2>1. ASSUME NEW o \in Operations, BeginTeller(t, o) PROVE  DiffersGoes
    BY <2>1, Beginnings
  <2>2. CASE CreatePool(t)
    BY <2>2 DEF CreatePool
  <2>3. CASE GetRate(t)
    BY <2>3 DEF GetRate
  <2>4. CASE ShowDashboard(t)
    BY <2>4 DEF ShowDashboard
  <2>5. CASE Pay(t)
    BY <2>5 DEF Pay
  <2>6. CASE SelectPool(t)
    BY <2>6 DEF SelectPool
  <2>7. CASE UpdatePool(t)
    BY <2>7 DEF UpdatePool
  <2>8. CASE ListPositions(t)
    BY <2>8 DEF ListPositions
  <2>9. CASE SelectPosition(t)
    BY <2>9 DEF SelectPosition
  <2>10. CASE UpdatePosition(t)
    BY <2>10 DEF UpdatePosition
  <2>11. CASE InsertPosition(t)
    BY <2>11 DEF InsertPosition
  <2>12. CASE CommitTreasury(t)
    BY <2>12 DEF CommitTreasury
  <2>13. CASE TellerFails(t)
    BY <2>13 DEF TellerFails
  <2>14. QED
    BY <2>1, <2>2, <2>3, <2>4, <2>5, <2>6, <2>7, <2>8, <2>9, <2>10, <2>11, <2>12, <2>13 DEF TellerStep, TellerAdvances
<1>7. /\ DOMAIN differs' = Tellers /\ \A u \in Tellers \ {t} : differs'[u] = differs[u]
      /\ differs'[t] = [pool |-> differs'[t].pool, position |-> differs'[t].position]
  BY <1>1, <1>6 DEF Shapes
<1>8. UNCHANGED rowLocks \/ TellerCloses(t) \/ Locks(t, "pool") \/ Locks(t, "position")
  BY DEF TellerStep, TellerAdvances, BeginTeller, CreatePool, GetRate,
     ShowDashboard, Pay, SelectPool, UpdatePool, ListPositions, SelectPosition, UpdatePosition,
     InsertPosition, CommitTreasury, TellerFails
<1>9. /\ rowLocks' = [pool |-> rowLocks'.pool, position |-> rowLocks'.position]
      /\ \A u : u # t => (u \in rowLocks'.pool <=> u \in rowLocks.pool)
  BY <1>1, <1>8, LocksOfOthers DEF Shapes
<1>10. QED
  BY <1>1, <1>2, <1>3, <1>5, <1>7, <1>9 DEF Framed, Shapes

\* What a step of a request that commits nothing comes to for itself.
Kept(t) ==
    /\ IsPool(mine'[t].pool) /\ IsPosition(mine'[t].position)
    /\ tellerPc'[t] # "idle"
    /\ t \notin overlapped => PoolCopy(t)' /\ PositionCopy(t)'

\* A request that has ended has nothing to write.
LEMMA EndsKept ==
    ASSUME NEW t \in Tellers, tellerPc'[t] = "done",
           IsPool(mine'[t].pool), IsPosition(mine'[t].position)
    PROVE  Kept(t)
BY DEF Kept, PoolCopy, PositionCopy

\* A request that begins holds nothing yet.
LEMMA BeginKept ==
    ASSUME TreasuryInv, NEW t \in Tellers, NEW o \in Operations, BeginTeller(t, o)
    PROVE  Kept(t)
<1>1. /\ tellerPc[t] = "idle" /\ tellerOp' = [tellerOp EXCEPT ![t] = o]
      /\ UNCHANGED <<pool, position, rowLocks, differs, overlapped>>
  BY Beginnings
<1>2. /\ Shapes /\ RowsAre /\ PoolCopy(t) /\ PositionCopy(t)
      /\ IsPool(mine[t].pool) /\ IsPosition(mine[t].position)
  BY <1>1 DEF TreasuryInv, RowsAre
<1>3. tellerOp'[t] = o /\ t \notin rowLocks.pool /\ differs[t].position = {}
      /\ mine[t].pool = EmptyPool
  BY <1>1, <1>2 DEF Shapes, PoolCopy, PositionCopy
<1>4. Before' = Before
  BY <1>1 DEF Before
<1>5. CASE WantsPool(o) /\ pool = {} /\ TellerGoes(t, "create") /\ UNCHANGED mine
  <2>1. tellerPc'[t] = "create"
    BY <1>2, <1>5 DEF TellerGoes, Shapes
  <2>2. QED
    BY <1>1, <1>2, <1>3, <1>5, <2>1 DEF Kept, PoolCopy, PositionCopy
<1>6. CASE /\ WantsPool(o) /\ TellerGoes(t, "have")
           /\ \E p \in pool : mine' = [mine EXCEPT ![t].pool = p]
  <2>1. tellerPc'[t] = "have" /\ pool # {}
    BY <1>2, <1>6 DEF TellerGoes, Shapes
  <2>2. PICK p \in pool : mine' = [mine EXCEPT ![t].pool = p]
    BY <1>6
  <2>3. mine'[t].pool = p /\ mine'[t].position = mine[t].position
    BY <1>2, <2>2 DEF Shapes
  <2>4. p = Before /\ IsPool(p)
    BY <1>2, <2>1, BeforeIs DEF RowsAre
  <2>5. QED
    BY <1>1, <1>2, <1>3, <1>4, <2>1, <2>3, <2>4 DEF Kept, PoolCopy, PositionCopy
<1>7. CASE /\ o.kind = "close" /\ TellerGoes(t, "closing")
           /\ \E q \in position : q.status = "OPEN"
           /\ \E q \in position :
                 mine' = [mine EXCEPT ![t].position = [q EXCEPT !.status = "CLOSED"]]
  <2>1. tellerPc'[t] = "closing" /\ o.kind \notin PoolKinds
    BY <1>2, <1>7 DEF TellerGoes, Shapes, PoolKinds
  <2>2. PICK q \in position : mine' = [mine EXCEPT ![t].position = [q EXCEPT !.status = "CLOSED"]]
    BY <1>7
  <2>3. mine'[t].pool = mine[t].pool /\ mine'[t].position = [q EXCEPT !.status = "CLOSED"]
    BY <1>2, <2>2 DEF Shapes
  <2>4. IsPosition([q EXCEPT !.status = "CLOSED"])
    BY <1>2 DEF RowsAre, IsPosition, PositionColumns
  <2>5. \A r \in position : r.status = "OPEN"
    BY <1>2, <1>7 DEF RowsAre
  <2>6. QED
    BY <1>1, <1>2, <1>3, <2>1, <2>3, <2>4, <2>5 DEF Kept, PoolCopy, PositionCopy
<1>8. CASE o.kind = "open" /\ TellerGoes(t, "opening") /\ UNCHANGED mine
  <2>1. tellerPc'[t] = "opening"
    BY <1>2, <1>8 DEF TellerGoes, Shapes
  <2>2. QED
    BY <1>1, <1>2, <1>3, <1>8, <2>1 DEF Kept, PoolCopy, PositionCopy
<1>9. CASE TellerGoes(t, "done") /\ UNCHANGED mine
  <2>1. tellerPc'[t] = "done"
    BY <1>2, <1>9 DEF TellerGoes, Shapes
  <2>2. QED
    BY <1>2, <1>9, <2>1, EndsKept
<1>10. QED
  BY <1>5, <1>6, <1>7, <1>8, <1>9, Beginnings

\* The pool a creation holds is a new one, to be inserted.
LEMMA CreateKept ==
    ASSUME TreasuryInv, NEW t \in Tellers, CreatePool(t)
    PROVE  Kept(t)
<1>1. /\ Shapes /\ RowsAre /\ IsPool(mine[t].pool) /\ IsPosition(mine[t].position)
      /\ t \notin overlapped => PoolCopy(t) /\ PositionCopy(t)
  BY DEF TreasuryInv, RowsAre
<1>2. tellerPc[t] = "create" /\ UNCHANGED <<pool, position, tellerOp, mine, overlapped>>
  BY DEF CreatePool
<1>3. CASE TellerCloses(t)
  <2>1. tellerPc'[t] = "done"
    BY <1>1, <1>3 DEF TellerCloses, TellerGoes, Shapes
  <2>2. QED
    BY <1>1, <1>2, <2>1, EndsKept
<1>4. CASE Locks(t, "pool") /\ TellerGoes(t, "have")
           /\ differs' = [differs EXCEPT ![t].pool = DOMAIN EmptyPool]
  <2>1. tellerPc'[t] = "have" /\ t \in rowLocks'.pool
        /\ differs'[t].pool = PoolColumns /\ differs'[t].position = differs[t].position
    <3>1. tellerPc'[t] = "have"
      BY <1>1, <1>4 DEF TellerGoes, Shapes
    <3>2. t \in rowLocks'.pool
      BY <1>1, <1>4, LocksOfOthers
    <3>3. differs'[t].pool = PoolColumns /\ differs'[t].position = differs[t].position
      <4>1. DOMAIN EmptyPool = PoolColumns
        BY FirstRows
      <4>2. QED
        BY <1>1, <1>4, <4>1 DEF Shapes
    <3>4. QED
      BY <3>1, <3>2, <3>3
  <2>2. Before' = Before
    BY <1>2 DEF Before
  <2>3. ASSUME t \notin overlapped
        PROVE  /\ pool = {} /\ mine[t].pool = Before
               /\ differs[t].position = {}
    BY <1>1, <1>2, <2>3, BeforeIs DEF PoolCopy, PositionCopy
  <2>4. t \notin overlapped => PoolCopy(t)'
    BY <1>2, <2>1, <2>2, <2>3 DEF PoolCopy
  <2>5. t \notin overlapped => PositionCopy(t)'
    BY <2>1, <2>3 DEF PositionCopy
  <2>6. QED
    BY <1>1, <1>2, <2>1, <2>4, <2>5 DEF Kept
<1>5. QED
  BY <1>3, <1>4 DEF CreatePool

\* What came of the rate is in the copy, and nothing else of it changes.
LEMMA RateKept ==
    ASSUME TreasuryInv, NEW t \in Tellers, GetRate(t)
    PROVE  Kept(t)
<1>1. /\ Shapes /\ RowsAre /\ IsPool(mine[t].pool) /\ IsPosition(mine[t].position)
      /\ t \notin overlapped => PoolCopy(t) /\ PositionCopy(t)
  BY DEF TreasuryInv, RowsAre
<1>2. /\ tellerPc[t] = "have" /\ UNCHANGED <<pool, position, rowLocks, tellerOp, differs, overlapped>>
      /\ \E x : mine' = [mine EXCEPT ![t].pool.rate = x]
      /\ TellerGoes(t, IF tellerOp[t].kind = "rate" THEN "select" ELSE "show")
      /\ tellerOp[t].kind \in {"rate", "dashboard"}
  BY DEF GetRate
<1>3. PICK x : mine' = [mine EXCEPT ![t].pool.rate = x]
  BY <1>2
<1>4. mine'[t].pool = [mine[t].pool EXCEPT !.rate = x] /\ mine'[t].position = mine[t].position
  BY <1>1, <1>3 DEF Shapes
<1>5. IsPool(mine'[t].pool) /\ mine'[t].pool.rate = x
  <2>1. tellerOp[t] \in Operations
    BY <1>1 DEF Shapes
  <2>2. QED
    BY <1>1, <1>4, <2>1, ChangedRows
<1>6. Before' = Before
  BY <1>2 DEF Before
<1>7. tellerPc'[t] = IF tellerOp[t].kind = "rate" THEN "select" ELSE "show"
  BY <1>1, <1>2 DEF TellerGoes, Shapes
<1>8. t \notin overlapped => mine[t].pool = Before /\ differs[t].position = {}
  BY <1>1, <1>2 DEF PoolCopy, PositionCopy
<1>9. t \notin overlapped => PoolCopy(t)'
  <2>1. tellerOp[t].kind = "rate" =>
          /\ \A p : PoolAllows(tellerOp[t], p)
          /\ \A p : PoolAfter(tellerOp[t], p, x) = [p EXCEPT !.rate = x]
    BY DEF PoolAllows, PoolAfter
  <2>2. QED
    BY <1>1, <1>2, <1>4, <1>5, <1>6, <1>7, <1>8, <2>1 DEF PoolCopy
<1>10. t \notin overlapped => PositionCopy(t)'
  BY <1>2, <1>7, <1>8 DEF PositionCopy
<1>11. QED
  BY <1>1, <1>4, <1>5, <1>7, <1>9, <1>10 DEF Kept

\* A payment in or out is an operation applied to the copy.
LEMMA PayKept ==
    ASSUME TreasuryInv, NEW t \in Tellers, Pay(t)
    PROVE  Kept(t)
<1>1. /\ Shapes /\ RowsAre /\ IsPool(mine[t].pool) /\ IsPosition(mine[t].position)
      /\ t \notin overlapped => PoolCopy(t) /\ PositionCopy(t)
      /\ tellerOp[t] \in Operations
  BY DEF TreasuryInv, RowsAre, Shapes
<1>2. /\ tellerPc[t] = "have" /\ UNCHANGED <<pool, position, tellerOp, differs, overlapped>>
      /\ tellerOp[t].kind \in {"deposit", "withdraw"}
  BY DEF Pay
<1>3. CASE TellerCloses(t) /\ UNCHANGED mine
  <2>1. tellerPc'[t] = "done"
    BY <1>1, <1>3 DEF TellerCloses, TellerGoes, Shapes
  <2>2. QED
    BY <1>1, <1>3, <2>1, EndsKept
<1>4. CASE /\ PoolAllows(tellerOp[t], mine[t].pool)
           /\ mine' = [mine EXCEPT ![t].pool = PoolAfter(tellerOp[t], @, Stub)]
           /\ TellerGoes(t, "select") /\ UNCHANGED rowLocks
  <2>1. tellerPc'[t] = "select"
    BY <1>1, <1>4 DEF TellerGoes, Shapes
  <2>2. /\ mine'[t].pool = PoolAfter(tellerOp[t], mine[t].pool, Stub)
        /\ mine'[t].position = mine[t].position
    BY <1>1, <1>4 DEF Shapes
  <2>3. IsPool(mine'[t].pool)
    <3>1. IsPool(PoolAfter(tellerOp[t], mine[t].pool, Stub))
      BY <1>1, ChangedRows
    <3>2. QED
      BY <2>2, <3>1
  <2>4. \A p, x, y : PoolAfter(tellerOp[t], p, x) = PoolAfter(tellerOp[t], p, y)
    <3>1. CASE tellerOp[t].kind = "deposit"
      BY <3>1 DEF PoolAfter
    <3>2. CASE tellerOp[t].kind = "withdraw"
      BY <3>2 DEF PoolAfter
    <3>3. QED
      BY <1>2, <3>1, <3>2
  <2>5. Before' = Before
    BY <1>2 DEF Before
  <2>6. t \notin overlapped => mine[t].pool = Before /\ differs[t].position = {}
    BY <1>1, <1>2 DEF PoolCopy, PositionCopy
  <2>7. t \notin overlapped => PoolCopy(t)'
    <3>1. t \notin overlapped =>
             mine'[t].pool = PoolAfter(tellerOp[t], Before, mine'[t].pool.rate)
      BY <2>2, <2>4, <2>6
    <3>2. QED
      BY <1>1, <1>2, <1>4, <2>1, <2>5, <2>6, <3>1 DEF PoolCopy
  <2>8. t \notin overlapped => PositionCopy(t)'
    BY <1>2, <2>1, <2>6 DEF PositionCopy
  <2>9. QED
    BY <1>1, <2>1, <2>2, <2>3, <2>7, <2>8 DEF Kept
<1>5. QED
  BY <1>3, <1>4 DEF Pay

\* The columns a UPDATE of the pool is for.
LEMMA SelectKept ==
    ASSUME TreasuryInv, NEW t \in Tellers, SelectPool(t)
    PROVE  Kept(t)
<1>1. /\ Shapes /\ RowsAre /\ IsPool(mine[t].pool) /\ IsPosition(mine[t].position)
      /\ t \notin overlapped => PoolCopy(t) /\ PositionCopy(t)
  BY DEF TreasuryInv, RowsAre
<1> DEFINE cols == IF t \in rowLocks.pool THEN differs[t].pool
                   ELSE UNION { Differing(mine[t].pool, p) : p \in pool }
<1>2. /\ tellerPc[t] = "select" /\ UNCHANGED <<pool, position, rowLocks, tellerOp, mine, overlapped>>
      /\ differs' = [differs EXCEPT ![t].pool = cols] /\ TellerGoes(t, "update")
  BY DEF SelectPool
<1>3. tellerPc'[t] = "update"
  BY <1>1, <1>2 DEF TellerGoes, Shapes
<1>4. differs'[t].pool = cols /\ differs'[t].position = differs[t].position
  <2> HIDE DEF cols
  <2>1. QED
    BY <1>1, <1>2 DEF Shapes
<1>5. Before' = Before
  BY <1>2 DEF Before
<1>6. t \notin overlapped =>
         cols = IF pool = {} THEN PoolColumns ELSE Differing(mine[t].pool, Before)
  <2>1. CASE t \notin overlapped /\ pool = {}
    BY <1>1, <1>2, <2>1 DEF PoolCopy
  <2>2. CASE t \notin overlapped /\ pool # {}
    <3>1. t \notin rowLocks.pool
      BY <1>1, <1>2, <2>2 DEF PoolCopy
    <3>2. pool = {Before}
      BY <1>1, <2>2, BeforeIs
    <3>3. UNION { Differing(mine[t].pool, p) : p \in pool } = Differing(mine[t].pool, Before)
      BY <3>2
    <3>4. QED
      BY <2>2, <3>1, <3>3
  <2>3. QED
    BY <2>1, <2>2
<1> HIDE DEF cols
<1>7. t \notin overlapped => PoolCopy(t)'
  BY <1>1, <1>2, <1>3, <1>4, <1>5, <1>6 DEF PoolCopy
<1>8. t \notin overlapped => PositionCopy(t)'
  BY <1>1, <1>2, <1>3, <1>4 DEF PositionCopy
<1>9. QED
  BY <1>1, <1>2, <1>3, <1>7, <1>8 DEF Kept

\* The steps after it that leave the copy of the pool and its columns alone.
Later == {"update", "positions", "closing", "moving", "commit"}

\* They keep what is known of the copy.
LEMMA PoolLater ==
    ASSUME NEW t \in Tellers, t \notin overlapped => PoolCopy(t),
           tellerPc[t] \in Later, tellerPc'[t] \in Later,
           mine'[t].pool = mine[t].pool, differs'[t].pool = differs[t].pool,
           UNCHANGED <<pool, tellerOp>>
    PROVE  t \notin overlapped => PoolCopy(t)'
<1>1. Before' = Before
  BY DEF Before
<1>2. QED
  BY <1>1 DEF PoolCopy, Later

\* Once its pool is written a request only has its position to see to.
LEMMA UpdateKept ==
    ASSUME TreasuryInv, NEW t \in Tellers, UpdatePool(t)
    PROVE  Kept(t)
<1>1. /\ Shapes /\ IsPool(mine[t].pool) /\ IsPosition(mine[t].position)
      /\ t \notin overlapped => PoolCopy(t) /\ PositionCopy(t)
  BY DEF TreasuryInv, RowsAre
<1>2. /\ tellerPc[t] = "update" /\ UNCHANGED <<pool, position, tellerOp, mine, differs, overlapped>>
      /\ tellerPc'[t] \in {"positions", "commit"}
  BY <1>1 DEF UpdatePool, TellerGoes, Shapes
<1>3. t \notin overlapped => PoolCopy(t)'
  BY <1>1, <1>2, PoolLater DEF Later
<1>4. t \notin overlapped => PositionCopy(t)'
  BY <1>1, <1>2 DEF PositionCopy
<1>5. QED
  BY <1>1, <1>2, <1>3, <1>4 DEF Kept

\* A list of positions leaves the copy of the pool alone.
LEMMA ListKept ==
    ASSUME TreasuryInv, NEW t \in Tellers, ListPositions(t)
    PROVE  Kept(t)
<1>1. /\ Shapes /\ RowsAre /\ IsPool(mine[t].pool) /\ IsPosition(mine[t].position)
      /\ t \notin overlapped => PoolCopy(t) /\ PositionCopy(t)
  BY DEF TreasuryInv, RowsAre
<1> DEFINE rated == [rate |-> mine[t].pool.rate, status |-> "OPEN"]
<1>2. /\ tellerPc[t] = "positions" /\ UNCHANGED <<pool, position, tellerOp, differs, overlapped>>
      /\ \/ /\ \E q \in position : q.status = "OPEN"
            /\ mine' = [mine EXCEPT ![t].position = rated] /\ tellerPc'[t] = "closing"
         \/ UNCHANGED mine /\ tellerPc'[t] = "commit"
  BY <1>1 DEF ListPositions, TellerGoes, Shapes
<1>3. IsPosition(rated)
  BY DEF IsPosition, PositionColumns
<1> HIDE DEF rated
<1>4. mine'[t].pool = mine[t].pool /\ mine'[t].position \in {rated, mine[t].position}
  BY <1>1, <1>2 DEF Shapes
<1>5. tellerPc'[t] \in {"closing", "commit"} /\ differs'[t] = differs[t]
  BY <1>2
<1>6. t \notin overlapped => PoolCopy(t)'
  BY <1>1, <1>2, <1>4, <1>5, PoolLater DEF Later
<1>7. tellerPc'[t] = "closing" => \A q \in position : q.status = "OPEN"
  BY <1>1, <1>2 DEF RowsAre
<1>8. t \notin overlapped => PositionCopy(t)'
  BY <1>1, <1>2, <1>5, <1>7 DEF PositionCopy
<1>9. QED
  BY <1>1, <1>2, <1>3, <1>4, <1>6, <1>8 DEF Kept

\* The position a request is about to write was open when it was read.
LEMMA PositionKept ==
    ASSUME TreasuryInv, NEW t \in Tellers, SelectPosition(t) \/ UpdatePosition(t)
    PROVE  Kept(t)
<1>1. /\ Shapes /\ IsPool(mine[t].pool) /\ IsPosition(mine[t].position)
      /\ t \notin overlapped => PoolCopy(t) /\ PositionCopy(t)
  BY DEF TreasuryInv, RowsAre
<1>2. /\ UNCHANGED <<pool, position, tellerOp, mine, overlapped>>
      /\ \/ /\ tellerPc[t] = "closing" /\ tellerPc'[t] = "moving"
            /\ \E c : differs' = [differs EXCEPT ![t].position = c]
         \/ tellerPc[t] = "moving" /\ tellerPc'[t] = "commit" /\ UNCHANGED differs
  BY <1>1 DEF SelectPosition, UpdatePosition, TellerGoes, Shapes
<1>3. differs'[t].pool = differs[t].pool
  BY <1>1, <1>2 DEF Shapes
<1>4. t \notin overlapped => PoolCopy(t)'
  BY <1>1, <1>2, <1>3, PoolLater DEF Later
<1>5. t \notin overlapped => PositionCopy(t)'
  BY <1>1, <1>2 DEF PositionCopy
<1>6. QED
  BY <1>1, <1>2, <1>4, <1>5 DEF Kept

\* A position that is inserted is a new one.
LEMMA InsertPositionKept ==
    ASSUME TreasuryInv, NEW t \in Tellers, InsertPosition(t)
    PROVE  Kept(t)
<1>1. /\ Shapes /\ IsPool(mine[t].pool) /\ IsPosition(mine[t].position)
      /\ t \notin overlapped => PoolCopy(t) /\ PositionCopy(t)
  BY DEF TreasuryInv, RowsAre
<1>2. /\ tellerPc[t] = "opening" /\ UNCHANGED <<pool, position, tellerOp, overlapped>>
  BY DEF InsertPosition
<1>3. CASE TellerCloses(t) /\ UNCHANGED mine
  <2>1. tellerPc'[t] = "done"
    BY <1>1, <1>3 DEF TellerCloses, TellerGoes, Shapes
  <2>2. QED
    BY <1>1, <1>3, <2>1, EndsKept
<1>4. CASE /\ position = {} /\ mine' = [mine EXCEPT ![t].position = NewPosition]
           /\ differs' = [differs EXCEPT ![t].position = DOMAIN NewPosition]
           /\ TellerGoes(t, "commit")
  <2>1. tellerPc'[t] = "commit"
    BY <1>1, <1>4 DEF TellerGoes, Shapes
  <2>2. mine'[t].pool = mine[t].pool /\ mine'[t].position = NewPosition
    BY <1>1, <1>4 DEF Shapes
  <2>3. t \notin overlapped => PositionCopy(t)'
    BY <1>2, <1>4, <2>1 DEF PositionCopy
  <2>4. t \notin overlapped => PoolCopy(t)'
    BY <1>1, <1>2, <2>1 DEF PoolCopy, PoolKinds
  <2>5. QED
    BY <1>1, <2>1, <2>2, <2>3, <2>4, FirstRows DEF Kept
<1>5. QED
  BY <1>3, <1>4 DEF InsertPosition

\* A step that commits nothing.
LEMMA QuietKeeps ==
    ASSUME TreasuryInv, NEW t \in Tellers, TellerStep(t), ~CommitTreasury(t)
    PROVE  TreasuryInv'
<1>1. Kept(t)
  <2>1. CASE ShowDashboard(t) \/ TellerFails(t)
    <3>1. tellerPc'[t] = "done" /\ UNCHANGED mine
      BY <2>1 DEF ShowDashboard, TellerFails, TellerCloses, TellerGoes, TreasuryInv, Shapes
    <3>2. IsPool(mine[t].pool) /\ IsPosition(mine[t].position)
      BY DEF TreasuryInv, RowsAre
    <3>3. QED
      BY <3>1, <3>2, EndsKept
  <2>2. QED
    BY <2>1, BeginKept, CreateKept, RateKept, PayKept, SelectKept, UpdateKept, ListKept,
       PositionKept, InsertPositionKept DEF TellerStep, TellerAdvances
<1>2. UNCHANGED <<pool, position, overlapped>>
  BY DEF TellerStep, TellerAdvances, BeginTeller, CreatePool, GetRate, ShowDashboard, Pay,
     SelectPool, UpdatePool, ListPositions, SelectPosition, UpdatePosition, InsertPosition,
     TellerFails
<1>3. Framed(t)
  BY StepFrames
<1>4. RowsAre'
  BY <1>1, <1>2, <1>3 DEF RowsAre, Framed, Kept, TreasuryInv
<1>5. \A u \in Tellers : tellerPc'[u] = "idle" => u \notin overlapped'
  BY <1>1, <1>2, <1>3 DEF Framed, Kept, TreasuryInv
<1>6. ASSUME NEW u \in Tellers \ overlapped'
      PROVE  PoolCopy(u)' /\ PositionCopy(u)'
  <2>1. CASE u = t
    BY <1>1, <1>2, <1>6, <2>1 DEF Kept
  <2>2. CASE u # t
    <3>1. PoolCopy(u) /\ PositionCopy(u)
      BY <1>2, <1>6 DEF TreasuryInv
    <3>2. QED
      BY <1>2, <1>3, <2>2, <3>1, OtherTellers DEF Framed
  <2>3. QED
    BY <2>1, <2>2
<1>7. QED
  BY <1>3, <1>4, <1>5, <1>6 DEF TreasuryInv, Framed

\* What an UPDATE or an INSERT leaves is one row.
LEMMA WrittenRow ==
    ASSUME NEW C, NEW table, NEW cols, NEW m, m = [c \in C |-> m[c]],
           \A p, q \in table : p = q, \A p \in table : p = [c \in C |-> p[c]]
    PROVE  /\ \A p, q \in Written(table, cols, m) : p = q
           /\ \A p \in Written(table, cols, m) : p = [c \in C |-> p[c]]
<1>1. CASE cols = {} \/ table = {}
  BY <1>1 DEF Written
<1>2. CASE cols # {} /\ table # {}
  <2>1. PICK r \in table : table = {r}
    BY <1>2
  <2> DEFINE w == [c \in C |-> IF c \in cols THEN m[c] ELSE r[c]]
  <2>2. DOMAIN r = C
    BY <2>1
  <2>3. Written(table, cols, m) = {w}
    BY <1>2, <2>1, <2>2 DEF Written
  <2>4. w = [c \in C |-> w[c]]
    OBVIOUS
  <2> HIDE DEF w
  <2>5. QED
    BY <2>3, <2>4
<1>3. QED
  BY <1>1, <1>2

\* A commit leaves rows, and whoever is under way is overtaken.
LEMMA CommitKeeps ==
    ASSUME TreasuryInv, NEW t \in Tellers, CommitTreasury(t)
    PROVE  TreasuryInv'
<1>1. /\ Shapes /\ RowsAre /\ IsPool(mine[t].pool) /\ IsPosition(mine[t].position)
  BY DEF TreasuryInv, RowsAre
<1>2. /\ pool' = Written(pool, differs[t].pool, mine[t].pool)
      /\ position' = Written(position, differs[t].position, mine[t].position)
      /\ overlapped' = overlapped \cup { q \in Tellers \ {t} : tellerPc[q] \notin {"idle", "done"} }
      /\ UNCHANGED mine /\ tellerPc'[t] = "done"
  BY <1>1 DEF CommitTreasury, TellerCloses, TellerGoes, Shapes
<1>3. Framed(t)
  BY StepFrames DEF TellerStep, TellerAdvances
<1>4. RowsAre'
  <2>1. /\ \A p, q \in pool' : p = q
        /\ \A p \in pool' : IsPool(p)
    BY <1>1, <1>2, WrittenRow DEF RowsAre, IsPool
  <2>2. /\ \A p, q \in position' : p = q
        /\ \A q \in position' : IsPosition(q)
    BY <1>1, <1>2, WrittenRow DEF RowsAre, IsPosition
  <2>3. QED
    BY <1>1, <1>2, <2>1, <2>2 DEF RowsAre
<1>5. ASSUME NEW u \in Tellers, u # t, u \notin overlapped'
      PROVE  PoolCopy(u)' /\ PositionCopy(u)'
  <2>1. u \notin overlapped /\ tellerPc[u] \in {"idle", "done"}
    BY <1>2, <1>5
  <2>2. QED
    BY <1>3, <1>5, <2>1, OtherTellers DEF Framed, TreasuryInv
<1>6. PoolCopy(t)' /\ PositionCopy(t)'
  BY <1>2 DEF PoolCopy, PositionCopy
<1>7. \A u \in Tellers : tellerPc'[u] = "idle" => u \notin overlapped'
  <2>1. \A u \in Tellers : tellerPc'[u] = "idle" => u # t /\ tellerPc[u] = "idle"
    BY <1>2, <1>3 DEF Framed
  <2>2. QED
    BY <1>2, <2>1 DEF TreasuryInv
<1>8. QED
  BY <1>3, <1>4, <1>5, <1>6, <1>7 DEF TreasuryInv, Framed

\* At first no request is under way and the rows are rows.
LEMMA TreasuryStarts == TreasuryInit => TreasuryInv
<1> SUFFICES ASSUME TreasuryInit PROVE TreasuryInv
  OBVIOUS
<1>1. /\ tellerPc = [t \in Tellers |-> "idle"] /\ overlapped = {}
      /\ tellerOp = [t \in Tellers |-> [kind |-> "dashboard"]]
      /\ mine = [t \in Tellers |-> [pool |-> EmptyPool, position |-> NewPosition]]
      /\ differs = [t \in Tellers |-> [pool |-> {}, position |-> {}]]
      /\ rowLocks = [pool |-> {}, position |-> {}]
      /\ position \in {{}, {NewPosition}}
      /\ pool \in {{}} \cup { {[EmptyPool EXCEPT !.inr = a, !.usdc = a]} : a \in Amounts }
  BY DEF TreasuryInit
<1>2. RowsAre
  BY <1>1, FirstRows DEF RowsAre
<1>3. Shapes
  <2>1. [kind |-> "dashboard"] \in Operations
    BY DEF Operations
  <2>2. QED
    BY <1>1, <2>1 DEF Shapes, TellerSteps
<1>4. \A t \in Tellers : PoolCopy(t) /\ PositionCopy(t)
  BY <1>1 DEF PoolCopy, PositionCopy
<1>5. QED
  BY <1>1, <1>2, <1>3, <1>4 DEF TreasuryInv

\* Every step keeps the invariant: a commit as CommitKeeps says, any other step as QuietKeeps says.
LEMMA TreasuryGoesOn == TreasuryInv /\ [TreasuryNext]_treasuryVars => TreasuryInv'
<1> SUFFICES ASSUME TreasuryInv, [TreasuryNext]_treasuryVars PROVE TreasuryInv'
  OBVIOUS
<1>1. CASE ExpireRate \/ UNCHANGED treasuryVars
  <2>1. UNCHANGED <<pool, position, rowLocks, tellerPc, tellerOp, mine, differs, overlapped>>
    BY <1>1 DEF ExpireRate, treasuryVars
  <2>2. Before' = Before
    BY <2>1 DEF Before
  <2>3. \A t \in Tellers : (PoolCopy(t)' <=> PoolCopy(t)) /\ (PositionCopy(t)' <=> PositionCopy(t))
    BY <2>1, <2>2 DEF PoolCopy, PositionCopy
  <2>4. Shapes' /\ RowsAre'
    BY <2>1 DEF TreasuryInv, Shapes, RowsAre
  <2>5. QED
    BY <2>1, <2>3, <2>4 DEF TreasuryInv
<1>2. CASE \E t \in Tellers : TellerStep(t)
  BY <1>2, QuietKeeps, CommitKeeps
<1>3. QED
  BY <1>1, <1>2 DEF TreasuryNext, TellerStep

\* Whatever the requests do, one that nobody has overtaken holds a copy that is the pool
\* with its own operation applied: the read-modify-write of TreasuryService.
THEOREM TreasuryInductive == TreasurySpec => []TreasuryInv
BY TreasuryStarts, TreasuryGoesOn, PTL DEF TreasurySpec

\* Only a commit adds to paidUp.
LEMMA WhoCommits ==
    ASSUME [TreasuryNext]_treasuryVars, NEW t \in Tellers, Commits(t)
    PROVE  CommitTreasury(t) /\ t \notin overlapped
<1>1. paidUp' # paidUp
  BY DEF Commits
<1>2. PICK u \in Tellers : CommitTreasury(u)
  BY <1>1 DEF TreasuryNext, treasuryVars, TellerAdvances, BeginTeller, CreatePool, GetRate,
     ShowDashboard, Pay, SelectPool, UpdatePool, ListPositions, SelectPosition, UpdatePosition,
     InsertPosition, TellerFails, ExpireRate
<1>3. QED
  BY <1>2 DEF Commits, CommitTreasury

\* What requests that overlap no commit do to the money is what they say, however
\* many others there are that fail, wait or only look.
THEOREM MoneyIsLostToOverlapsOnly == TreasurySpec => PaysAlone
<1> DEFINE Alone ==
          \A t \in Tellers : Commits(t) /\ tellerOp[t].kind \in {"deposit", "withdraw", "rate"} =>
             LET before == IF pool = {} THEN EmptyPool ELSE CHOOSE p \in pool : TRUE
             IN  /\ PoolAllows(tellerOp[t], before)
                 /\ pool' = {PoolAfter(tellerOp[t], before, mine[t].pool.rate)}
<1>1. TreasuryInv /\ [TreasuryNext]_treasuryVars => Alone
  <2> SUFFICES ASSUME TreasuryInv, [TreasuryNext]_treasuryVars, NEW t \in Tellers, Commits(t),
                      tellerOp[t].kind \in {"deposit", "withdraw", "rate"}
               PROVE  /\ PoolAllows(tellerOp[t], Before)
                      /\ pool' = {PoolAfter(tellerOp[t], Before, mine[t].pool.rate)}
    BY DEF Before
  <2>1. CommitTreasury(t) /\ t \notin overlapped
    BY WhoCommits
  <2>2. /\ tellerPc[t] = "commit" /\ tellerOp[t].kind \in PoolKinds
        /\ pool' = Written(pool, differs[t].pool, mine[t].pool)
    BY <2>1 DEF CommitTreasury, PoolKinds
  <2>3. /\ PoolAllows(tellerOp[t], Before)
        /\ mine[t].pool = PoolAfter(tellerOp[t], Before, mine[t].pool.rate)
        /\ differs[t].pool = IF pool = {} THEN PoolColumns ELSE Differing(mine[t].pool, Before)
    BY <2>1, <2>2 DEF TreasuryInv, PoolCopy
  <2>4. RowsAre /\ IsPool(mine[t].pool) /\ IsPool(Before)
    BY BeforeIs DEF TreasuryInv, RowsAre
  <2>5. Written(pool, differs[t].pool, mine[t].pool) = {mine[t].pool}
    <3>1. CASE pool = {}
      BY <2>3, <3>1 DEF Written, PoolColumns
    <3>2. CASE pool # {}
      <4>1. pool = {Before}
        BY <2>4, <3>2, BeforeIs
      <4>2. CASE differs[t].pool = {}
        BY <2>3, <2>4, <3>2, <4>1, <4>2, WrittenIsCopy DEF Written
      <4>3. CASE differs[t].pool # {}
        <5>1. Written(pool, differs[t].pool, mine[t].pool) =
                 { [c \in DOMAIN q |-> IF c \in differs[t].pool THEN mine[t].pool[c] ELSE q[c]]
                      : q \in {Before} }
          BY <3>2, <4>1, <4>3 DEF Written
        <5>2. differs[t].pool = Differing(mine[t].pool, Before)
          BY <2>3, <3>2
        <5>3. [c \in DOMAIN Before |-> IF c \in differs[t].pool THEN mine[t].pool[c] ELSE Before[c]]
                 = mine[t].pool
          BY <2>4, <5>2, WrittenIsCopy
        <5>4. QED
          BY <5>1, <5>3
      <4>4. QED
        BY <4>2, <4>3
    <3>3. QED
      BY <3>1, <3>2
  <2>6. QED
    BY <2>2, <2>3, <2>5
<1>2. QED
  BY <1>1, TreasuryInductive, PTL DEF TreasurySpec, PaysAlone

\* No request that overlaps no commit opens a closed position again.
THEOREM ClosedStaysClosed == TreasurySpec => ClosedForGood
<1> DEFINE Stays == \A q \in position : q.status = "CLOSED" =>
                       \A t \in Tellers : Commits(t) => \A p \in position' : p.status = "CLOSED"
<1>1. TreasuryInv /\ [TreasuryNext]_treasuryVars => Stays
  <2> SUFFICES ASSUME TreasuryInv, [TreasuryNext]_treasuryVars, NEW t \in Tellers, Commits(t),
                      NEW q \in position, q.status = "CLOSED", NEW p \in position'
               PROVE  p.status = "CLOSED"
    OBVIOUS
  <2>1. CommitTreasury(t) /\ t \notin overlapped
    BY WhoCommits
  <2>2. differs[t].position = {}
    BY <2>1 DEF TreasuryInv, PositionCopy, CommitTreasury
  <2>3. position' = position
    BY <2>1, <2>2 DEF CommitTreasury, Written
  <2>4. QED
    BY <2>3 DEF TreasuryInv, RowsAre
<1>2. QED
  BY <1>1, TreasuryInductive, PTL DEF TreasurySpec, ClosedForGood
=============================================================================
