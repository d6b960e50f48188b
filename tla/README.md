# A verification of the Cadencia platform in TLA+

Cadencia lets two enterprises' agents negotiate a trade, and settles what they
agree on through an escrow on the Algorand ledger.  This directory holds TLA+
models of the code, small instances for the model checker TLC, and theorems
checked by TLAPS.  Everything is translated from the Python sources under
`src/backend/`; `PROJECT.json` maps each definition to its lines.

## 1. The system

| component | state | operations | meets |
|---|---|---|---|
| **CadenciaEscrow contract** (`contracts/escrow_contract.py`) | status 0..3, frozen, balance | initialize, fund, release, refund, freeze, unfreeze | called by the gateway and by Pera wallets |
| **Escrow aggregate** (`settlement/domain/escrow.py`) | status, frozen flag, application id, transaction ids, root | `record_*`, `freeze`, `unfreeze` | loaded and merged by the repository |
| **Settlement service, API** (`settlement/application`, `settlement/api`) | none between requests; in flight: the aggregate it loaded | some twenty endpoints: platform wallet, Pera wallet, administrator | gateway, repositories, publisher |
| **Algorand gateway** (`settlement/infrastructure/algorand_gateway.py`) | none | deploy a minimal program, NoOp calls, plain payments, wallet transactions | the ledger |
| **Event publisher and handlers** (`shared/infrastructure/events`) | handler table | dispatch in process, in order, exceptions dropped | negotiation → settlement → compliance; marketplace → negotiation |
| **Compliance** (`compliance/`) | hash-chained audit entries, FEMA and GST records, export jobs; archives in Redis | append, verify, page, generate, export | handlers, the database, Redis |
| **Negotiation** (`negotiation/`) | session, offers, agent profiles; a list of events in Redis | turn, auto-run, override, terminate, stream | language model, event publisher, web clients |
| **Marketplace** (`marketplace/`) | RFQ, matches, capability profiles with embeddings | upload, background parse and match, confirm, edit a profile, recompute | creates negotiation sessions |
| **Treasury** (`treasury/`) | liquidity pools, FX positions; a rate in Redis | deposit, withdraw, update rate, open and close a position, dashboard | rate provider, on-ramp |
| **Identity** (`identity/`), **admin**, **wallet** | enterprises, users, API keys; tokens that are not recorded; challenges in Redis | register, log in, refresh, edit, KYC, link a wallet | all APIs |
| **Outside providers** (MoonPay, DigiLocker, webhooks) | failure count and circuit in the adapter's memory | order, submit, verify, deliver | HTTP |
| **Shared machines** (`shared/infrastructure`) | circuit breaker, rate limiter, task queue in Redis | call, check, enqueue, run | language-model and ledger clients |

What is hard in it:

* **Few locks, no versions.**  The backend runs two processes (`Dockerfile:75`)
  or four (`docker-compose.prod.yml:99`), each with an event loop; every
  `await` lets another request in.  A request loads a row, awaits a chain, a
  language model or a rate, mutates its copy and writes back the columns that
  differ.  What serialises requests is the row lock of an UPDATE, a UNIQUE index
  or, in the audit log, an advisory lock.
* **Sessions that are never committed.**  `get_db_session` closes what it
  yields; some services commit, some do not (`confirm_rfq`, treasury, most of
  admin), and then what they flushed is lost although they answered success.
* **Two sources of truth.**  The ledger moves money, the database remembers it,
  and between the two a confirmation may be lost or a process may die.
* **Two programs under one name.**  The Pera wallet deploys the CadenciaEscrow
  contract; the platform wallet deploys a program that approves everything.
* **Best-effort events.**  They are dispatched in process, some after the
  commit and some before it; a handler's exception is logged and dropped.
* **Redis, one command at a time.**  Circuit breaker, rate limiter, task queue,
  event list and challenges are several keys or several commands each, shared by
  all processes, any of which may die between two of them.
* **Sequences.**  Guards look at a flag or an id rather than at the status, so
  legal calls in an unusual order lead to unusual states.
* **Rounding and order of formulas.**  Prices, taxes and Merkle layers are
  computed in several places that must agree.

What makes each component correct: the contract pays the agreed amount at most
once, to one party; the settlement database cites only what the chain accepted
and settles a contract once; compliance records never run ahead of the money and
are whole when exported; the audit chain is linear; a negotiation session gives at
most one escrow, at an offered price, and its clients see its events in order; a
confirmation gives one session; an agent's prices stay within its limits; an
account is one per key and its row changes as its operations say; who is let in
has shown a password lately; a pool's balance is the sum of what was paid in and
out; a task is run or known to be lost; a circuit opens on failures only and can
close again.

## 2. Modules

    EscrowApp ──────── EscrowContract ── MCEscrowContract
        │                 │      └────── EscrowContractProofs
        │            EscrowPromise
        │
    EscrowAggregate ── Settlement ────── MCSettlement
                          └───────────── SettlementProofs

    AppendOnlyLog ──── AuditLog ──────── AuditPages
                          └───────────── AuditLogProofs, also for MerkleTree

    Marketplace ────── MarketplaceProofs
    Negotiation ────── MCNegotiation
         └──────────── NegotiationProofs

    Registration, Account, Credentials, WalletLink ──── MCAccounts
         └──────────── IdentityProofs

    Treasury, CircuitBreaker, TaskQueue, RateLimiter, Providers,
    CapabilityProfile, ExportJobs, Pricing, EventStream,
    TaxRecords, MerkleTree ──────────────────────────── MCPlatform
         └──────────── PlatformProofs, and TreasuryProofs for the first

* **EscrowApp**: what an application does with a call, as operators on a
  record.  `kind` tells the CadenciaEscrow contract ("puya") from the minimal
  program.  Amounts are small units; fees and the minimum balance are left out.
* **EscrowContract**: one CadenciaEscrow application, any caller, any order,
  plus plain payments to its address.  `paidIn` is a history of what arrived.
* **EscrowPromise**: what the parties are promised, in two variables: where the
  amount is and whether it is frozen.  `EscrowContract` implements it under
  `holderOf` and `frozenOf`.
* **EscrowAggregate**: the guards and effects of the `record_*` methods, and the
  mapping between aggregate and row (`FROZEN` is stored as `FUNDED` with the
  flag, and read back).  A row without content is `NoRow`.
* **Settlement**: the backend.  `row`, `settlements`, `audit` and `compliance`
  are committed database state; `apps` and `ledger` are the chain; `req[r]` is
  a request in flight: the aggregate it loaded, the row its ORM session holds,
  its application, its confirmed transaction and its Merkle root.  A request
  moves through steps, one for each stretch of code between two awaits:

      begin ─ (insert) ─ (wallet) ─ (lookup) ─ chain ─ (anchor) ─ (reread) ─ merge ─ flush ─ (publish)

  | step | code |
  |---|---|
  | `Begin`, `BeginInsert`, `BeginSignedDeploy`, `Build` | the endpoint's first read and checks |
  | `Lookup` | `platform_deploy_escrow` looking for the parties' addresses, and keeping the ORM row |
  | `Submit` | the user signed; the client submits |
  | `CreateApp`, `CallApp`, `ChainFails` | the gateway's transaction: accepted and confirmed, accepted but the answer lost, or refused |
  | `Anchor` | `AnchorService.anchor_root` |
  | `Reread` | `record_pera_*` loading the row again |
  | `Merge`, `Flush` | `Session.merge`'s SELECT; then the UPDATE of the columns that differ, the CHECK constraint, the settlement's INSERT and the COMMIT |
  | `Publish` | the event's compliance handlers, which may do all, half or nothing |
  | `Crash` | the process dies or the user walks away, at any step |

  The submit-signed endpoints are modelled with transactions the backend built
  for the same operation; a client that submits some other transaction of its
  own is outside the model.  One escrow is modelled: nothing in the code
  relates two of them.  Wallet signatures, addresses, amounts in the database
  and timestamps are left out, since no guard of these operations reads them.

* **AppendOnlyLog**: what an audit log promises, a sequence that grows at its
  end and holds no event twice.
* **AuditLog**: the compliance handlers of one escrow's events, each in a
  database session of its own.  `rows` is the committed table by `sequence_no`,
  `lock` the advisory lock, `fema` and `gst` the release each record was made
  from; `run[e]` is the handler of one event: `Start`, `AcquireLock`, `Link`
  (`get_latest` and `AuditEntry.create`), `Commit`, and for a release `ReadFema`,
  `ReadGst`, `InsertRecords`.  `Fail` ends a handler anywhere, with a rollback.
  Where `Settlement` treats the effect of a handler as one step that may do all,
  half or nothing, this module shows why it may.  SHA-256 is taken to be free of
  collisions (a hash is the list of events under it), and the clock to advance
  between two entries (it counts microseconds, and a commit lies between).
  Implements `AppendOnlyLog`: the hash of the latest entry is the history.
* **AuditPages**: the same, with a client that walks through the log by cursor.
* **Negotiation**: the session of one match.  `row` and `offers` are the
  committed session and its offers, `escrow` the price of the pending escrow the
  handler of `SessionAgreed` inserts; `req[r]` is a request in flight with the
  session it read, what it needs of the offers it read (`view`) and the offer it
  adds.  `stale` and `lost` are history: somebody committed since the request
  read; a turn announced an agreement and then failed.

  | step | code |
  |---|---|
  | `BeginTurn`, `LoadOffers` | `run_agent_turn`: the session, then its offers, in two SELECTs |
  | `Propose`, `ProposeVetoed`, `Accept`, `Reject`, `AnswerExpired` | the model's answer, what `NeutralEngine.process_turn` makes of it, `add_offer`, and which `_handle_*` follows (`Concluded`) |
  | `BeginOverride`, `BeginTerminate` | `apply_human_override`, `terminate_session` |
  | `Save`, `Commit` | the UPDATE, which locks the row, with the announcement of an agreement; the COMMIT |
  | `Fail` | an exception or a crash at any step, with its rollback |
  | `Expire` | 24 hours have passed |

  Prices are members of a set: what strategy, opponent model and guardrails
  compute is real arithmetic, and any price may come of it.  The reasoning of the
  model is one of the words the service looks for, or none of them.  An override
  is always the buyer's.  The request's own first look at the session (access
  control) changes nothing and is left out, and so are agent profiles.  The
  administrator's pause and resume flush and never commit, so there is no action
  for them.

* **Marketplace**: one RFQ.  `rfq` and `matches` are committed, `task` is the
  background task with its retries for a row that is not committed yet,
  `sessions[s]` the requests that have opened a session for the match of seller
  `s`.  A request is a confirmation (`/confirm`) or a direct opening
  (`POST /v1/sessions`); `rfqLock` and `matchLock` are the row locks its UPDATEs
  take, held until it ends.

  | step | code |
  |---|---|
  | `UploadRfq`, `UploadCommits`, `UploadFails` | the upload request, which starts the task before its commit |
  | `TaskReads`, `TaskParses`, `TaskMatches`, `TaskFails` | `_background_parse_and_match`: three transactions, exceptions swallowed |
  | `BeginConfirm`, `LoadMatch`, `RejectOther`, `ConfirmRfq`, `SelectMatch` | `confirm_rfq`, one UPDATE at a time |
  | `BeginOpen`, `CheckSession`, `ReadProfile`, `InsertProfile`, `CommitSession` | `create_session` with the agent profiles it finds missing |
  | `EndConfirm` | `handle_rfq_confirmed`, the answer, and the close of the request's session, which rolls back |
  | `Fail`, `DeadlockVictim` | an exception or a crash; PostgreSQL ending a cycle of waits |

* **Registration**: the three look-ups of `register`, then the entries of the
  three UNIQUE indexes in one transaction.  An INSERT waits for an open
  transaction with the same key and fails if that one commits.
* **Account**: the row of an enterprise by columns (KYC, documents, agent
  configuration, wallet).  An operation loads a copy, changes it, and its UPDATE
  carries the columns in which the copy differs from the row selected again.
  Administrator's actions are flushed and rolled back.
* **Credentials**: access and refresh tokens, each with the time it was issued;
  members' rows, the administrator without one; API keys with the requests that
  create and revoke them.
* **WalletLink**: challenges, the look at what is linked or escrowed elsewhere,
  and the write, for both generations of endpoints.
* **Treasury**: the pool and one position.  `mine[t]` is what a request has
  loaded, `differs[t]` the columns its UPDATE will carry, `rowLocks` the locks,
  `overlapped` the requests during which another one committed.  The dashboard
  only shows; what it changes is rolled back.
* **CircuitBreaker**: `call` and `get_state`, one Redis command a step, by callers
  that call again and again.  Counters stop at their thresholds, since nothing
  tells higher values apart.  While `healthy` is false a command may fail, a
  service may fail and a process may die between any two commands.
* **TaskQueue**: the Redis list and the workers; a task is in the list, with one
  worker, finished, given up, or lost with its worker.
* **RateLimiter**: `check_rate_limit`, INCR and EXPIRE apart, over fixed windows of
  a clock that requests read earlier than they count, by as much as it takes: a
  counter may have expired before a late request comes to it, which then counts from
  one again.
* **Providers**: the MoonPay and the DigiLocker adapter and outbound webhooks:
  attempts, the count of exhausted calls, the circuit that only a reset closes,
  and whose submission an answer is about.
* **CapabilityProfile**: edits of a seller's profile, each clearing the embedding,
  and recomputations that read, wait for the embedder and write every column.  A PUT
  looks the row up twice, once for the profile it edits and once to tell UPDATE from
  INSERT (`ReadProfile`, `ReadAgain`): with another PUT committed in between, its
  UPDATE names no row.  `amiss` and `standing` are history variables.
* **ExportJobs**: two records per escrow gathered by two statements, the job's
  row, the archive in Redis.
* **Pricing**: valuations, the six strategies, vetoes and what goes out (`vetoes` is
  `schema_failure_count`; at the third, `AgentBreaches` sends the Rs 1 placeholder and
  the session is over), in integer arithmetic (paise).  The exponential of the deadline curve is the constant
  `Ramp`; which flexibility the opponent model comes to is left open.
* **EventStream**: RPUSH and LTRIM apart, replay, polling by the last id, the
  terminal event, expiry, clients that connect again with or without the last id
  (the web client sends it under a name the endpoint does not read:
  `?last_event_id=`, alias `Last-Event-ID`).
* **TaxRecords**: amount, taxes, purpose and forms of the FEMA and GST record of a
  supply, with Python's `quantize`.
* **MerkleTree**: roots, proofs and their verification as recursive functions over
  trails; a hash is what was hashed.

**MCAccounts** and **MCPlatform** put machines that share no state into one run
each: `part` says which one moves, the others stay as they were.

Mutated forms (`FundTwice`, `MergePublishing`, `CanReleaseAnyStatus`, ...) stand
beside the definition they vary.  They are used by no specification; each shows
that a property notices the mistake it describes.

## 3. Model checking

| run | instance | properties |
|---|---|---|
| `contract` | amount 2, payments 0..3 to the application or elsewhere, four accounts, 15 units paid in at most | `PaidOutOnce`, `Solvent`, `KeepsPromise` |
| `settlement` | two requests, thirteen operations, two applications, four ledger entries (4.7 million states) | `EveryTxIsReal`, `PaperTrail`, `ContractSettlesOnce` |
| `serial` | one request at a time, every operation, five ledger entries | `SettledOnce`, `TerminalIsFinal` |
| `pera` | three requests, Pera and administrator endpoints, two applications, four ledger entries (949 thousand states) | `NeverAheadOfChain`, `ContractSerialises` |
| `auditLog` | four events, two of them releases, any of which may fail; a reader, two entries a page | `VerifierAccepts`, `NothingRefused`, `RecordsOfOneRelease`, `PagesComplete`, `OnlyAppends`, `EveryHandlerEnds` |
| `negotiation` | two requests, prices 100 and 150, four rounds, stall after one round without concession, threshold 3 (4.0 million states) | `RoundsHaveOffers`, `AgreedAtAnOffer`, `EscrowFromOffer`, `OnlyStaleReopens` |
| `marketplace` | two sellers, two confirmations, one direct opening, two retries of the task (644 thousand states) | `ConfirmsSerialise`, `EveryRequestEnds` |
| `accounts` | three registrations over forms that agree in one key at most; two edits of one row; two visits of two enterprises to one address; one member and the administrator, lives of 1 and 2 units, five units of time, three tokens; one API key and two writers (674 thousand states) | `OneAccountPerKey`, `AccessBounded`, `AloneIsAtomic`, `ChecksHoldWhenMade`, `EveryRegistrationEnds` |
| `platform` | see below (373 thousand states) | `EveryTaskAccounted`, `AtMostTwice`, `EmbeddingIsCurrent`, `LastEditStands`, `ArchiveIsWhole`, `CountersWithinLimits`, `ShownInOrder`, `RecordsAddUp`, `RootCommits`, `PaysAlone`, `ClosedForGood`, `CircuitEarned`, `CircuitCloses` |

The parts of `platform`: two tellers of one pool and one position; two callers of a
breaker that opens after two failures and closes after two successes; three tasks
(one without a handler), two workers, three tries, one death; three arrivals, a
limit of one in a window of two seconds; two purchases, one sale and one webhook
with two attempts each and a circuit at two; three submissions of two companies;
two edits and a recomputation asked for; two exports of two and of one escrow; five
rounds of prices of three profiles, two of them with odd budgets and with the
floor above the markup; a viewer of four events in a list of two; supplies of 0 to
25 paise, and around INR 5,00,000, in tenths of a paisa, by traders of two states; all trails of
up to six entries over two.

Why the bounds suffice.  A race here is between two requests: each reads once or
twice and writes once, so two in flight exhibit every order of reads and writes
that a lost update needs.  Three registrations are the least in which one waits
for a transaction that itself fails.  In `marketplace` two confirmations take the
locks in opposite orders, and the direct opening, which takes none, comes between.
Two applications are what a double deployment makes.  `pera` has three requests,
because two rejections and a deployment between them do what two requests cannot: the
second rejection takes the application away again from a row that was funded since.
Four ledger entries hold a whole life (deploy, fund, release) and one call too
many; five hold it twice over where the state space allows.  The representatives
of the `settlement` run differ in their steps (second read or not, kept row or
not, anchor or not, program deployed); operations that share their steps with
one of them are exercised by `serial`, which offers all.  Four handlers give two
releases that race and two other appends to get between them; with four entries,
a page of two is full, exactly full and partly full.  Four rounds hold a stall at
the third, a resumption and the limit `MAX_ROUNDS`; `MaxOffers` bounds the offers
only of a session whose counter has been overwritten.  100 and 150 are never within
2 per cent of each other and always of themselves.  A list of two events with four
published is trimmed twice.  Windows of two seconds over five have both edges, and a request that comes late for its own.
Rounding repeats with the period of its divisors, and the worths cover it on both
sides of the threshold of Form 15CB.  Merkle trails of up to six entries have even
and odd layers at each height up to three.  The proofs of section 5 have none of
these bounds.

`serial` and `settlement` belong together: the properties of `serial` are what
the guards of the aggregate achieve when nothing overlaps; `ContractSettlesOnce`
is what is left of them when requests do.  `AloneIsAtomic`, `PaysAlone`, `ClosedForGood`,
`ChecksHoldWhenMade` and `LastEditStands` say the same of the other tables: what no other
request overtook is atomic, and nothing is claimed of what was overtaken, since the code
loses updates there.

**Fairness.**  No liveness is claimed for settlement or negotiation: the code
retries nothing, reconciles nothing and waits for nobody, so no fairness is
justified under which anything must happen.  Where it is:

* `WalkSpec` asks that a handler of the audit log that can go on does (`WF` of its
  steps), because the event loop schedules every task and PostgreSQL grants an
  advisory lock in the order it was asked for; it asks nothing of `Start` and
  `Fail`.  Each event is dispatched once, so the lock is taken finitely often and
  weak fairness of `AcquireLock` is enough.
* `FairSpec` of `Marketplace` asks it of the task and of each request, and that
  PostgreSQL looks for cycles of waits (`deadlock_timeout`).  Without
  `DeadlockVictim` two confirmations would wait for each other for ever.
* `MCAccounts` asks it of a registration: an INSERT that waits goes on when the
  transaction before it has ended.
* `MCPlatform` asks it of the breaker's callers and of the passing of the recovery timeout.  That
  callers keep calling is an assumption about the load; `CircuitCloses` is about a
  service that has recovered (`<>[]healthy`), and nothing is asked of failures.

Deadlock is checked in the runs of the contract, of settlement and of the audit
log.  In the others the end is a state without a step: a session has ended and
expired, every request has been made, the clock has reached its bound.

Mutants (`PROJECT.json`) give one plausible mistake for each property, beside the
definition it varies, and TLC finds each property violated by its own.

## 4. What the repository says and the code does not do

Three runs each refute one sentence of a comment or docstring (`findings` in
`PROJECT.json` quotes them).

| run | sentence | trace, in short |
|---|---|---|
| `releasedUnpaid` | RELEASED: funds sent to seller | the minimal program confirms a release that pays nobody |
| `agreedUnconverged` | AGREED: price gap at most 2% | a REJECT, a turn at the stall threshold or an ACCEPT of nothing is taken for an agreement |
| `confirmForgotten` | `confirm_rfq` transitions the RFQ to CONFIRMED | the request's database session is closed without a commit; the RFQ is MATCHED again, the negotiation session stays |

Other disagreements met while modelling.  Those of the first group are in the
models, and a trace of the module named shows them; no run is kept for them.

* `Settlement`: an approved escrow is refused by the CHECK constraint
  (`settlement/infrastructure/models.py:48` knows no APPROVED); two deployments
  both pass the guard of `escrow.py:149`; the platform wallet's release takes its
  root from a hash of the escrow's id, because `services.py:770` calls an
  undefined function and swallows the error.
* `Negotiation`: a turn or an override that read the session before it was
  terminated writes it back as live.
* `Pricing`: `compute_buyer_valuation` says fair price times (1 + risk) and
  subtracts; a seller whose margin floor is above its markup is given a price
  below its floor in place of a vetoed one, and an ACCEPT is not checked by the
  guardrails that call themselves an absolute veto.  At the third veto of a session,
  counted over both sides, an offer of Rs 1 is added to it as the agent's own
  (`neutral_engine.py:258-259`), under any seller's reservation price, before the
  session ends in POLICY_BREACH; so it is when the engine finds the session expired.
* `CapabilityProfile`: a PUT answers "Seller profile updated successfully" and its
  edit is lost in two ways: a recomputation that had read before writes the old text
  back (`services.py:433`), the PUT's own among them, and an UPDATE by the id of a
  profile that was never saved changes no row (`services.py:378-392`).
* `RateLimiter`: `rate_limiter.py:1` says "Redis sliding window"; windows are fixed,
  as the docstring of `check_rate_limit` says, so that twice the limit is admitted
  within one window's length.
* `TaskQueue`: `task_queue.py:2` says "Survives server restarts — tasks stored in
  Redis list"; BLPOP takes a task from the list before it is run, and a worker that
  dies loses the one it has.
* `Account`: the administrator's KYC actions answer success and are rolled back;
  so, outside the model, do suspension, pause and resume.
* `EventStream`: the web client's `last_event_id` is not read, so every connection
  replays the list; a replayed terminal event does not end the stream.

Outside every model: the memory router builds its service without arguments it
requires, so that all but the upload raise TypeError; the compliance download reads
a ZIP through a Redis client that decodes UTF-8; a release whose GSTINs are
refused (`compliance/domain/value_objects.py:83`) gets no tax records, and the
handler drops the exception.  No route calls the treasury's commands,
`CircuitBreaker`, `TaskQueue`, x402, `deactivate`, `verify_kyc` or the provider
adapters' conversions: they are modelled as the interfaces their tests and
docstrings offer, with several callers.

## 5. Proofs

All for any amounts, accounts, payments, requests, operations and bounds.

**EscrowContractProofs.**  The inductive invariant `ContractInv` joins type
correctness, `PaidOutOnce` and `Solvent`: the ledger identity
(paid in = held + paid out) needs the status to exclude a second payout, and a
payout needs solvency to keep the balance a natural number.  From it:
`PayoutCorrect`, `AlwaysSolvent`, `SurplusLocked`, `FrozenHeld`, and
`ContractKeepsPromise`, the refinement, whose step lemma maps each call to a
deposit, a payout, a toggle or a stutter.

**SettlementProofs.**  `IInv` has three parts.  `ChainInv`: a payout of a
CadenciaEscrow in the ledger fixes the contract's status and what the seller
holds, so two releases of one contract are one entry.  `DataInv`: everything the
row *and every request in flight* carries is sound (`SoundIn`, `ReqOK`): without
the second half the invariant is not inductive, because a request writes back
what it loaded long ago.  Since the chain only grows, what a stale aggregate
cites stays true (`SoundForEver`).  `PaperInv`: a request that is about to
publish a release has committed its settlement.  Each action has a lemma that
preserves the three parts.  From it: `ServiceTypes`, `TransactionsAreReal`,
`PaperFollowsMoney`, `ContractSettlements`.

Two more invariants join `IInv` under an assumption on the constants, which is the
condition the property needs and the configuration of its run.  Where no two requests
overlap, `SerialInv` says that the row is what some coherent aggregate was stored as,
and that whoever is at work holds the row as it is, with its own operation applied
(`AloneOK`); hence `SerialSettlesOnce` and `SettledRowIsFinal`.  Where only the
endpoints of the Pera wallet and the administrator are served, however many at once,
`PeraInv` counts on the contract: of a status that needs a transaction (`Reached`) the
only contract has come that far, and since it accepts a fund or a payout once, the
request that holds the confirmation is the only one to have it, and nobody else has
read a row that shows it (`Sole`, `Apart`).  Hence `RowFollowsContract`
and `ContractProtectsRow`: what changes a settled row is a rejection that read it before
the deployment.  It calls the row REJECTED; or, if it selected a row that another
rejection had already called so, it writes only the other column that differs by then, the
application.  (This case was missing in an earlier statement of
`ContractSerialises`: the invariant was not inductive, and a third request showed why.)
With a second contract the row may show what happened to the other one, which is why
both speak of one contract.

**AuditLogProofs.**  `IInv` says more than the invariants of the runs: for some
*n* the committed numbers are exactly 0..n-1 and the hash of each entry lists the
events up to it, whose handlers are past their append (`LogIs`); only the holder
of the lock is between `AcquireLock` and `Commit`, with the number *n* and the
latest hash (`LockIs`); what a release found of the two records is what they are
or nothing (`RecordsAre`).  The gap-free numbering is what makes "the latest" and "the one
before" the same entry, and the lock's part is what makes an INSERT never meet a
taken number.  `RecordsOfOneRelease` needs no lock: the two records are inserted
by one transaction, so at every moment both exist or neither does; a handler that
found the first missing inserts both or, refused by UNIQUE, neither.

Of the pages (`PagesLoseNothing`), `TimesRise` says that creation times rise with the
numbers, which is the lock's doing: an entry's time is read while it is held.  So the
cursor, a time, cuts the log between two numbers, and `WalkIs` that what was shown is
what lies before it.

Of the Merkle tree (`RootsCommit`), whose layers, places and climbs are recursive
functions, everything is by induction over the height; `Counting` is that
induction, obtained from the pigeonhole theorem for finite sets.  Layers narrow down
to one hash before they run out (`LevelsNarrow`), a hash and its sibling
make the hash above both (`PairIs`), also at an odd end; so the verifier is on the
path of the entry at each height or at none (`Convinces`).  Equal hashes of two trees
have equal sets of entries under them (`SameUnder`), since a pair says which two
hashes it is of, and a leaf is never a pair.

**NegotiationProofs.**  `IInv` says of the row *and of what every request in
flight will write* that it is borne out by the offers there will be (`Sound`):
committed ones, and the request's own.  Offers are only added, so this survives
any wait and any overwriting, and gives `RoundsAreOffered` and
`AgreementIsOffered`.  `EscrowFromOffer` is inductive beside it: `Save` makes a
witness, `Commit` turns it into an offer, `Fail` into `lost`.  `Fresh` says that a
request nobody has overtaken sees a session that has not ended; from it come the
action properties `StaleOnly` and `ReviewWaits` (that a session under review
waits for a person is proved only; no run checks it).  `MaxOffers` plays no part.

**MarketplaceProofs.**  `MInv` says of the task that matches exist exactly when the
RFQ is MATCHED (`MatchingIsAtomic`), and of the confirmations that each holds the
RFQ's lock from `ConfirmRfq` to its end (`HoldsLock`), and that no other one has
committed a session for the match of one that found none (`NothingYet`).
From it `OneSessionPerConfirmedMatch`: the other confirmation of the match is before
its UPDATE or has ended.  A direct opening has no lock, which is why the theorem is
about confirmations only.  `PartiesHaveProfiles`: what `ReadProfile` found or
`InsertProfile` made is committed with the session.

**IdentityProofs.**  `RegistrationInv`: while a transaction inserts, it has the
entries of the keys behind it, and an entry belongs to one open transaction or one
user.  The look-ups do not appear in the argument: they are not what keeps keys
unique.  `TokenInv` bounds the age of the login under every token by its kind and its
own age, `KeyInv` says who may still write the row of a key.  `AccountInv`: a
request nobody has overtaken holds a copy that is the row, or the row with its
operation applied, and will write the columns in which the two differ; hence
`AloneEditsAreAtomic`.
`WalletInv`: a nonce that was consumed is in nobody's live challenge; a check not
overtaken still holds.

**PlatformProofs.**  Small machines with an invariant each: an open circuit has a
date to recover from (`CircuitCanRecover`); a recomputation writes text and embedding
together, and a text without an embedding has a recomputation that has not ended,
unless one failed or read before its edit was committed (`EmbeddingsAreCurrent`),
and while an edit stands all who have read have read its text (`EditsStand`);
an answer is about a submission of the company asked for (`VerifiedByItsDocuments`);
the count is the length of the run of exhausted calls (`CircuitsAreEarned`); rounding is
within half a unit, so the two records agree and the tax is within a paisa of the
exact one for any worth (`RecordsAlwaysAddUp`); a job has gathered what was known of the escrows behind it,
both records or neither (`ArchivesAreWhole`); a task is in one place, with as many
runs as its retries say (`TasksAreAccounted`).

Three are about numbers.  Of the rate limiter `LimiterInv` says that no counter
expires while requests that are punctual come to it, so that no two of
them are given the same count and at most `Limit` of one bucket are admitted; a stretch of one
window's length meets two buckets at most (`WindowsAdmitTwice`).  A request that comes
later than that finds a new counter; it is not claimed to be limited.  Of the
prices (`AgentsKeepLimits`) quotients and products are ordered by lemmas of their own
(`QuotientsInOrder`, `RoundedKeeps`), and each strategy's price is followed through
rounding and clamping for any profile; the placeholder of the last veto is stated
apart, since it is within no limits.  Of the streams `StreamInv` says that the list
holds the latest events by consecutive numbers, and that what a connection has read
but not sent is a run of numbers that follows its last one but for what has left the
list (`Queued`, `Follows`); hence `StreamsInOrder`, although a poll may be answered
with the whole list.

**TreasuryProofs.**  `TreasuryInv`: a request that no commit has overtaken holds a
copy that is the pool with its own operation applied, the columns it will write are
those in which the two differ, and it changes a position only if that is open.  The
part about the columns is what makes an UPDATE safe: it writes the columns that
differ from what was *read*, so what it leaves in the row is the copy only as long
as the row is what was read (`WrittenIsCopy`).  A commit ends the claim for every
other request under way (`CommitKeeps`).  From it `MoneyIsLostToOverlapsOnly` and
`ClosedStaysClosed`: overlapping is the only way in which the balances go wrong, or a
closed position is opened again.

Type correctness is part of each of these invariants: where a type invariant is
proved, no run repeats it.

The only assumptions are those declared, and named, with the constants of each
module; TLC evaluates them on every run.

Every safety property that a run checks is the statement of a theorem.  Only
model-checked is liveness (`EveryHandlerEnds`, `EveryRequestEnds`,
`EveryRegistrationEnds`, `CircuitCloses`), which is out of the proof system's reach, as
is ENABLED.  Of induction, only that over numbers is used, by way of `Counting`; the
library's theorems with a predicate for a parameter cannot be instantiated.

## 6. What could come next

1. The composition of a session with its escrow, `SessionAgreed` → pending escrow →
   settlement, as one module with an abstract "a trade is agreed, then settled";
   now `EscrowFromOffer` speaks of its first half and `PaperTrail` of its last.
2. Agent profiles, whose moving averages lose updates; they need real numbers or a
   bound on them.

## 7. Not modelled

The language model, embeddings and similarity scores, the opponent model (real
arithmetic); HTTP, storage and language-model clients (pure I/O); signatures and
hashes (ideal); PDF, CSV and ZIP layout; listings, addresses, catalogue and
credentials endpoints that write single rows of one caller; dashboards and other
reads; the ALGO balance of a pool, which follows the path of the others; forecasts and
exposure; the sweep of expired sessions, which nobody calls; metrics, logging and
health; the web client, deployment and scripts.  `PROJECT.json` lists each component
with its status and its reason.
