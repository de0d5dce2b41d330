# TLA+ models of Stablerails

Stablerails is a self-hosted USDT-on-Tron payment gateway: an HTTP API creates
invoices with a deposit address of their own, a watcher worker credits the
transfers it sees on the chain, a delivery worker tells merchants by webhook,
and an operator's CLI sweeps the money off the deposit addresses. This directory
holds TLA+ models of that program, configurations that model-check them with TLC,
and proofs checked by TLAPS. Source paths below are relative to the repository.

    tlasany Watcher.tla                                   # parse
    tlc -workers 2 -config Watcher_two.cfg MCWatcher      # model-check
    tlapm Watcher_proofs.tla                              # prove

## 1. Inventory

| Part | State | Operations | Talks to |
|---|---|---|---|
| Pricing (`src/core/pricing.ts`, `src/lib/decimal.ts`) | none | quote, tolerance band | called at creation and by the watcher |
| Lifecycle (`src/core/lifecycle.ts`, `aggregation.ts`) | none | decide status, amount, event | called inside a credit transaction |
| Watcher (`src/workers/watcher.ts` and `workers/db`) | Payment, Invoice, ChainCursor, WebhookDelivery rows | poll tick: solid heights, discovery, two receipts, sweep, credits | two chain providers, database |
| Chain access (`src/chain/tron`, `src/lib/http.ts`) | none | list, parse a receipt, ask the other node | providers |
| Invoice API (`src/server/routes/invoices.ts`, `src/core/invoices.ts`) | Invoice, Event counter, InvoiceIdempotency rows | create, cancel, read | database, shared with the watcher |
| Webhook delivery (`src/workers/webhookDelivery.ts`) | WebhookDelivery rows | claim, load, post, mark, replay | receivers through `lib/ssrf-guard.ts`, database |
| Sweeps, server side (`routes/sweeps.ts`) | SweepIntent rows | prepare, record broadcast results | database |
| Sweeps, CLI side (`cli/commands/sweep.ts`, `signer/`, `chain/tron/broadcast.ts`) | one process's locals, the chain | verify, sign, broadcast, report | API, chain |
| Gas funding (`cli/commands/gas.ts`) | one process's locals, the chain | read balances, plan, send | chain |
| Kill switch (`server/killswitch.ts`) | env, DB flag, per-process cache | pause, resume, ask | every worker and route |
| Rate limiter (`lib/rate-limit.ts`) | timestamps per key | check, sweep | every route |
| Authentication (`server/auth.ts`, `routes/auth.ts`, `routes/apiKeys.ts`) | ApiKey, LoginToken rows, sessions in memory | authenticate, log in, mint, revoke | every route |
| Events and hosted signup (`routes/events.ts`, `routes/hostedSignup.ts`) | Event, Merchant, ApiKey rows, merchants' sessions | create event, sign up, log in, make a store | database |
| Operator's setup (`cli/commands/init.ts`, `seed.ts`, `keychain.ts`) | Operator, Event, ApiKey rows, seed blob, Keychain entry | init, seed init, keychain enable and disable | database, operating system |

What makes it correct, and what is hard about it:

* **Watcher.** Money is credited only when two providers prove the transfer and
  its block is solid, each transfer once, and what an invoice claims is what was
  credited. Hard: the chain reorganises between the awaits of a tick, providers
  lag, fail and err, the process crashes between two credit transactions, and the
  API changes the invoice in another process.
* **Webhooks.** Each endpoint is told the story of an invoice in order and once
  per version, though endpoints come and go and rows may be missing.
* **Delivery.** A row is sent by one worker at a time while leases last, what is
  delivered stays so, nothing is pending for ever, and no address on the guard's
  deny list is contacted. Hard: leases lapse anywhere, workers die, an operator replays rows,
  names resolve differently the second time.
* **Creation.** One invoice per idempotency key, one address per invoice. Hard:
  concurrent retries, a 30 s lease on a row whose owner may be slow or dead.
* **Sweeps.** What the server records was broadcast; nothing is sent unless
  everything was verified, and nothing but what the operator's own pin allows; a
  finished intent is complete. Hard: nothing holds two runs of one intent apart, a
  run dies after a part of its broadcasts, an answer or a report gets lost, and a
  report is handled in a read and two writes.
* **Gas funding.** No address is topped up twice for one need. Hard: two runs, a
  run that stops in the middle, transfers that land late, fees nobody reckoned with.
* **Switch and limiter.** A pause takes hold everywhere; a window admits what it
  should. Hard: caches in several processes, a read overtaking a write, one map
  swept at one pace for windows of different length.
* **Access and setup.** A link logs in once, a revoked key runs out, routes agree on
  what a key reaches, keys reach whoever they were minted for. Hard: a check and
  the act it allows are awaits apart, and setup is many queries without a
  transaction.

## 2. The modules

| Module | Models | Depends on |
|---|---|---|
| `Pricing` | quotes, decimals, the band | |
| `Lifecycle` | aggregation, `transitionInvoice`, the cancel check | `Pricing` |
| `InvoiceLedger` | abstract: what the watcher promises of one invoice | `Lifecycle` |
| `Watcher` | one invoice: chain, tick, credit, webhook rows, cancel handler | `Lifecycle`, `InvoiceLedger` |
| `ReceiptAgreement` | listing pages, checks of a receipt, agreement of two | |
| `Receipts` | what transactions and listings say, beside what is credited | `Watcher`, `ReceiptAgreement` |
| `InvoiceCreation` | one key, one event: idempotency row, index, insert; requests without a key | |
| `Quotes` | what a stored quote means to payer and watcher | `InvoiceCreation`, `Lifecycle` |
| `WebhookDelivery` | the delivery table and several workers | |
| `AddressGuard` | addresses, pinning and redirects of outgoing requests | |
| `Contacts` | the guard's deny list, by ranges, beside what is contacted | `WebhookDelivery`, `AddressGuard` |
| `Sweep` | the server's intents, CLI runs and the chain they spend on | |
| `TransferCheck` | what a run checks of an item and of a node's transaction | |
| `SweepChecks` | what an item stands for, beside what is sent | `Sweep`, `TransferCheck` |
| `GasFunding` | runs of `gas fund`, the gas wallet and the chain | |
| `SeedStore` | the encrypted seed, its Keychain entry, and who may open it | |
| `KillSwitch` | the flag of an area, the caches over it, the admin route | |
| `RateLimiter` | the sliding windows and their sweep | |
| `Gateway` | requests, ticks and drains on their way through both | `KillSwitch`, `RateLimiter` |
| `Access` | login links, operator sessions, keys, endpoints, handlers | |
| `Provisioning` | runs of `init`, hosted signup, events | |
| `MCWatcher`, `MCInvoiceCreation`, `MCWebhookDelivery`, `MCSweep`, `MCGateway`, `MCAccess`, `MCProvisioning`, `MCConsole` | instances for TLC | |
| `Lifecycle_proofs`, `Watcher_proofs`, `InvoiceCreation_proofs`, `WebhookDelivery_proofs`, `Sweep_proofs`, `Gateway_proofs`, `Access_proofs`, `Console_proofs` | theorems | |

`Receipts`, `Quotes`, `Contacts` and `SweepChecks` hold the properties of pure operators.
Each names, as constants, the inputs to look at (`Prices`, `Addresses`, `GivenReceipts`,
`ServerItems`, ...), which are small sets in a configuration and any sets in a theorem.

A definition whose name starts with `Slip` is the definition after it with a
plausible mistake in it. It is not part of the model: it documents which
mistake a property would notice, and every property has one.

### Watcher

One poll tick is a sequence of steps, because chain and API move between its
awaits: `StartTick` reads the two solid heights and lists the invoice,
`Discover` finds candidates, `FetchPrimary` and `FetchSecondary` fetch the two
receipts of a candidate, `SentinelSweep` invalidates the heights of what was not
proved, `Credit` is one transaction per agreed transfer (it holds the invoice row
`FOR UPDATE`, so it is one step), `EndTick` writes the cursor. `Crash` forgets the
locals (`tick`) anywhere and keeps the rows.

| Variable | Code |
|---|---|
| `placed`, `solidHeight` | the chain: block and block hash of each transfer; Tron's irreversible height |
| `expired`, `graceOver` | `now >= expiresAt`; the grace period of `listActiveForWatch` |
| `invoice`, `payments`, `deliveries`, `endpoints`, `hasCursor` | database rows |
| `pc`, `tick` | where `pollOnce` stands, and its locals |
| `cancelPc`, `cancels` | `cancelInvoiceById` between its read and its write |

A block hash is the number of times the transfer was placed; 0 is the empty
string the listing endpoint leaves when it reports none. The chain is honest: both
providers answer from it, late or not at all. A provider's lag shows in the
solid height only (`MaxLag`): receipts are of the moment they are fetched. A
provider that errs is the matter of `ReceiptAgreement`, whose operators say what
a tick credits given any pages and any pair of receipts.
Transfers to different invoices share no row, so one invoice is modelled. Amounts are
micro-USDT, and a decimal string is the pair of its
digits and the unit of its last one (`Pricing`): nothing depends on units being powers
of ten, so `Scale`, the micro-USDT of one USDT, is a constant.

### InvoiceCreation

A request's handler walks through `Arrive`, `Reserve`, then `Look` and `Await` if
another request holds the row, or `AllocateNextInvoiceIndex`, `Insert` and
`Complete` if it does not. `Fail` is a query that throws, `Die` the end of the
process, both possible anywhere. `leaseOver` and `stale` are the two clocks of
the row: `processingExpiresAt` and `expiresAt`. A request without the header, and
the dashboard's form (`createLink.ts`), goes to the counter at once
(`ArriveKeyless`) and shares nothing but the counter. `DerivationFails` comes after
the allocation: the 422 is stored as the answer, and the index stays unused.

### WebhookDelivery

`Claim` is the `UPDATE .. RETURNING` of `claimPending` and `Load` the query after
it, because the lease may change hands between the two. `Take`, `Post`, `Mark`
are the steps of `processRow`; a mark is an update whose `WHERE` includes the token
of the loaded row. `ReplayRead` and `ReplayWrite` are the two queries of
`replayDelivery`. Time is what the code compares: `due` and `leaseOver`. `Post`
goes through the guard, which `AddressGuard` describes hop by hop: what a name
resolves to, what is refused, and which address the connection is pinned to.
`Contacts` holds the guard to its documented list (`ssrf-guard.ts:86`, told by ranges) and
to nothing beyond it: 100.64/10, 198.18/15, 192.0.0/24, 224/4, 240/4 and `::a.b.c.d` are
not on the list, and are permitted by guard and property alike.

### Sweep

Server, operator's machine and chain are one module because what is claimed of
one is about the others. `Prepare` is the handler that inserts an intent. A run of
`sweep execute` goes through `Begin` (fetch, pin, confirm), `Build` for every item
(the node's transaction, verified), `BuiltAll`, `Send` for every item (sign and
broadcast) and `SentAll`, and may die anywhere (`RunDies`), which is also what a
tampered transaction makes of it. Its report is `ReadIntent`, `UpdateItems` and
`UpdateStatus`, the three queries of the handler, or `RefuseReport`.

| Variable | Code |
|---|---|
| `balance`, `mempool`, `moved` | the chain: what an address holds, transfers not yet decided, transfers that took effect |
| `received` | `amountReceived` of the invoices `listSweepableForEvent` finds |
| `intents` | `SweepIntent` rows: status, `amountMicroStr` and `txHash` of the items |
| `run` | where a run and the handler of its report stand, and their locals |
| `taken`, `contended` | history: every transfer a node took; intents of which two reports were handled at once |

A transfer is the pair of run and address, because the node dates what it builds
and two runs never get one txID. Items are built and sent in any order, of which the
code takes one. They are a set: the list the server prepares has one item per invoice
(`sweeps.ts:190`), whose addresses differ (`AddressesAreUnique`), and that server is the
one in this module. The CLI would take a list that names an address twice (nothing at
`cli/commands/sweep.ts:147` refuses it), which is outside `Sweep` and inside `GasFunding`.
A transfer the balance does not cover reverts.

What `Build` verifies is one choice there and spelled out in `TransferCheck`: the
item of the server against `STABLERAILS_MAIN_WALLET`, and the node's transaction,
JSON, bytes and txID, against the transfer built locally.

### GasFunding

A run goes through `BeginRun`, `ReadBalance` per address, `PlanRun`, `Unlock`,
`CheckWallet`, `Broadcast` per top-up and `FinishRun`, and may die anywhere. A node
may have taken a transfer whatever was answered, and if the first node fails the
second is asked (`Ask`). `Land` and `Lapse` are the chain's decisions, which may come
when the run is over; `Land` takes the amount from the wallet and a fee on top, for
bandwidth or the activation of a fresh address, which `CheckWallet` does not reckon with.
`Burn` is a sweep that spends TRX of an address. An item of the list is an address and a
number, so that a list may name an address twice: nothing refuses it, and `assertCaps`
(`gas.ts:133`) holds the cap on an address against each item alone.

`contested`, `crowded` and `charged` are history: addresses two top-ups were about to reach
at once, runs whose wallet another run drew on, and what the transfers of a run have
cost beyond their amounts while it was sending. `lack` is what the wallet was short of when
a transfer was refused.

### SeedStore

`InitWritesFile` and `InitIsExported` are the two ends of `seed init`,
`EnableChecks` and `EnableStores` the two halves of `keychain enable`, between which
Touch ID may fail (`EnableEnds`) and the seed may be made anew. What `security -i` has
stored is known by reading back only. `Sign` is any command that opens the seed with
a typed passphrase or the entry. Each terminal has an environment (`env`), which holds a
blob, names the one seed file, or does neither; `InitIsExported` reaches the terminals the
operator exports the blob at, and `SetUp` is a terminal opened or set up again. `checked` is
history: the blob against which the passphrase in the Keychain was checked. One
`keychain enable` runs at a time, its write, read-back and deletion are one step, and there
is one seed file.

### KillSwitch, RateLimiter, Gateway

A caller is a handler or loop that asks before it works. `AnswerFromEnv`,
`AnswerFromCache`, or `Ask`, `ReadFlag` and `Fill` are the ways through
`isPausedAsync`: between the last three other callers, the admin route (`SetFlag`,
`Flush`) and the clock move. Ages stand for times and stop where no comparison of the
code tells them apart, so that time has no bound. `CheckKey` is `RateLimiter.check`, which
is synchronous and so one step, with the sweep it may start. The array of times a key has is
the number of its entries of each age, because the code only ever asks how many are
younger than a window and whether the last one is. `StartLimiter` is the map after a
restart: empty, while the history of the requests let through (`hits`) stays, and with it
the times of restarts. `Gateway` composes the
two in the two orders the routes use: `POST /v1/invoices` asks the switch first
(`ApiArrives`, `ApiAdmitted`), the create-link form the limiter (`FormArrives`).

### Access

A handler is idle, holds a consumed link (`redeemed`), or is authenticated and about
to act (`granted`). `Consume` and `OpenSession` are the two queries of
`GET /auth/magic`; `Authenticate` and `EnterWithSession` are what the pre-handlers do, and
`MintKey`, `RevokeKey`, `AddEndpoint`, `RemoveEndpoint` what follows them, steps later.
Keys come in two ways more: `StoreMints`, from a merchant's own session, for a store it made
(`hostedSignup.ts:610`), and `InitMints`, with no session, from `init.ts:240`; their steps are in
`Provisioning`. `atWork` and `ended` are history: the requests at work with a key when it was
revoked, and those that have ended since.
Expiry and restarts may come anywhere. What a key reaches is a family of operators,
one for each way a route finds out (`TouchesInvoicesOf`, `ListsInvoicesOf`,
`DashboardShows`, `SeesEvents`, `SeesSweepsOf`, `SeesEndpoint`).

### Provisioning

A run of `init` is `Start`, `CreateOperator`, `SeedStep`, `LookForEvent`,
`CreateDefaultEvent`, `CountKeys`, `MintKey` twice, `MintLoginLink` and `Output`; it may
die between any two. A merchant signs up and logs in; its browser has a session until that
expires or the server restarts (`LogIn`, `SessionExpires`, `ServerDies`), and the store
form is `Submit`, `Allocate`, `CreateStore`, two `MintStoreKey` in either order, and
`StoreAnswered`. Events of the API come in between (`PostEvent`). `overlap` and `raced` are
history, and a key that is not in `shown` was never seen by anyone.

## 3. The runs

| Run | Instance | What it shows |
|---|---|---|
| `watcher_two` | 2 transfers (half, whole), 2 endpoints, 1 block, no lag | `ReceivedIsExact`, `OneClosingEvent`, `LatestRowIsCurrent`, `ConfirmOnlyAgreed`, `KeepsLedger` (refinement), `OneRealReceiptSuffices` |
| `watcher_live` | 1 transfer placed up to twice in 3 blocks, lag 1, 1 cancel | `PaidOnlyAtSolid`, `ReceivedIsBacked`, `ConfirmedIsImmutable`, `FinalIsCredited` (liveness) |
| `creation` | original, retry, other body, invalid body, keyless form; 2 lapses; prices to 40 units with up to 3 digits, 7 rates, band 1/7 | `AddressesAreUnique`, `AnswerFitsBody`, `OneInvoicePerLease`, `QuoteIsFloor`, `QuoteIsPayable` |
| `delivery` | 2 rows (1 of an inactive endpoint), 2 workers, 3 claims, 1 replay; chains of up to 3 hops | `DeliveredWasAcknowledged`, `OneSenderPerLease`, `DeliveredIsFinal`, `PendingIsSettled` (liveness), `NoDeniedIsContacted` |
| `sweep` | 2 addresses, 2 intents, 2 runs, 1 unit each | `RecordedWasBroadcast`, `VerifiedBeforeSent`, `BroadcastIsComplete`, `RecordIsKept`, `OnlyTheIntentGoes` |
| `gateway` | a server with 2 requests, a worker with a loop, a worker paused by its environment; windows 1 and 2, a restart of the server in each | `FlushedIsFresh`, `CacheIsRecent`, `LimitIsExact`, `AbandonedIsSwept`, `PauseTakesHold` (liveness) |
| `access` | 1 link, 2 sessions, 2 keys of any scope, 1 endpoint, 2 handlers, 2 events, 1 merchant | `OneSessionPerLink`, `RevokedKeyRunsOut`, `RoutesAgree` |
| `provisioning` | 2 runs of `init`, 2 forms, 1 merchant, accounts 0 and 1 | `InitMintsOnce`, `KeysReachTheirOwner`, `RefusedOnlyForARace` |
| `console` | 2 gas runs over lists of 2 items and 2 addresses, fees 0 and 1; 1 seed, 2 passphrases, 2 terminals, 2 runs of `seed init` | `SentWithinCaps`, `OverfundedOnlyIfContested`, `ShortOnlyByFees`, `EntryOpensSeed` |

Some properties speak of pure operators and every input of a set that is a constant:
`QuoteIsFloor`, `QuoteIsPayable`, `OneRealReceiptSuffices`, `NoDeniedIsContacted`,
`OnlyTheIntentGoes`. They do not depend on the state and are evaluated in the initial
states of the run whose component calls them. Their sets take each field at two
values and each boundary at both sides: a receipt's log has up to two entries that
differ from a payment in one respect each, addresses lie at both ends of every
denied range, and an item or a transaction may be wrong in every field.

Bounds and why they are enough: amounts only matter by the side of the band they
fall on, so a price of 4 with a band of 1/4 and transfers of 2 and 4 give part
payment, exact payment, overpayment and late money. A transfer that is placed
once and dropped leaves a row of a payment that is no longer on the chain, which
another transfer's credit must not promote; placed again it returns, higher or
lower. A solid height can lag by one block, which is enough to fall below a
confirmed payment. Two workers, two rows and three claims give a lease that
changes hands and comes back; one replay races every step of both. Two lapses
let a key be taken over twice. Two runs may execute one intent or two that
overlap, and two items give a part that is broadcast and a part that is not. A
TTL of one tick lets an entry be fresh, at its end and over; two windows of which
one is the sweep's interval let a key be swept by its own window and by the
other's pace; one restart of the server within a window grants a second quota in it. Two
handlers race over one link and over a key one of them revokes.
Two accounts let two stores take the last one, and the counter run out. The gas
wallet covers one full run and not its fees, nor two runs; an address holds one unit and
the target is two, so that a second top-up overfunds it; a list of two items names two
addresses or one twice. A blob is told from another by what opens it, so that one
seed under two passphrases gives what two seeds would. `console` holds two
systems that share no state: every state of either is looked at with the other at
its start, which is all there is to see. Symmetry is used where the values are
interchangeable and no liveness is checked.

Fairness: `Watcher!LiveSpec` is weak fairness of the steps of a tick, because
`start()` loops for ever and catches what a tick throws. Chain, clock,
registrations, crashes and cancels are never obliged to happen. Because a
provider may fail for ever, `FinalIsCredited` asks for a suffix without faults
(`<>[][~Fault]_vars`) and only then for progress. `WebhookDelivery!LiveSpec` is
weak fairness of each worker's drain loop (`workers/index.ts` runs it for ever)
and of time passing. `Gateway!LiveSpec` is weak fairness of the clock, of a check
that has begun (the query returns or throws) and of the end of work that was let in;
nobody is obliged to ask, to pause or to restart. `delivery`, `creation`, `sweep` and
`console` check no deadlock, because their systems really come to rest: all rows
settled, all requests answered, all runs over.

### What the code does not keep

Three runs expect a violation of something the documentation says.

* `watcher_stale_height`: `paid` can be reached on a stored height that is not the
  transfer's any more (`watcher.ts:860`, against `watcher.ts:37`). Promotion covers
  all detected payments of the invoice, not only the transfer that is being
  credited; one transfer credited before another that was re-mined higher promotes
  the latter by its old height.
* `watcher_cancel`: a cancel that read the invoice while it was pending overwrites
  `paid` (`core/invoices.ts:222`, against `watcher.ts:38`, which `PaidNeverReverts` states,
  and `INTEGRATION.md:97`).
* `delivery_retry`: a delivery that failed once is never claimed again
  (`WebhookDeliveryRepository.ts:258`, against `INTEGRATION.md:267`).

Seen while modelling, without a run:

* an invoice nobody pays is never marked `expired` (`watcher.ts:672`, against
  `INTEGRATION.md:96`), because the lifecycle is only evaluated while a transfer
  is credited.
* an intent executed twice moves its amount twice when more money came to the
  address in between (`cli/commands/sweep.ts:551`, against `runbook-sweep.md:195`):
  only the balance stops the second run. The money goes to the merchant's own
  wallet, but the server then knows one of two transfers.
* a retry whose wait for the owner of its key ends without a row is told that
  its body differs, and the 425 below is never sent (`routes/invoices.ts:348`,
  against `llms.txt:36`).
* `prepare` asks for all that an invoice ever received (`sweeps.ts:190`), so
  that money that came after a sweep cannot be swept by a new intent alone,
  against the comment at `sweeps.ts:188`.
* two reports of an intent handled at once can lose each other's hashes or leave
  `partially_broadcast` over a complete row, which is what `contended` exempts.
* a crash between the handler's two writes leaves all hashes under an unfinished
  status.
* `runbook-sweep.md:196` names a status `executed` that does not exist.
* a cancel enqueues no webhook, though `INTEGRATION.md:239` lists
  `invoice.canceled`.
* with a provider whose solid height goes back, the amount of an open invoice
  can shrink below its confirmed payments, and the newest webhook row with it
  (`ReceivedIsExact` and `LatestRowIsCurrent` are checked and proved for `MaxLag = 0`;
  `ReceivedIsBacked` is checked for lag 1 and proved for any).
* `DeliveredIsFinal` names the two holes through which a delivered row can come
  back: a replay, and a worker held up between the two claim queries.
* the new value of the kill switch is seen "immediately" (`killswitchAdmin.ts:88`)
  in the process of the admin route only, and there unless a check that had read
  the old one is still to store it (`overtaken`); other processes keep theirs for
  up to the TTL.
* `init` is "safe to re-run" (`init.ts:319`), but a run that died after it inserted
  keys and before it printed them leaves rows that make every later run skip the
  step (any key of any scope counts), and two runs at once may both mint.
* a list that names a deposit address twice has it topped up twice, each within the cap on
  an address and both together beyond it (`gas.ts:133`); the server prepares no such list.
* a run of `gas fund` whose wallet holds exactly the total passes the check and runs dry
  by its own fees (`gas.ts:513`): `ShortOnlyByFees` says by no more.
* a restart of the server forgets what the limiter had let through (`rate-limit.ts:65`), so
  that a window grants as many quotas as the server was started in it: `LimitIsExact` says
  no more.
* a request let in by a key acts after the key was revoked, if it was at work by then
  (`auth.ts:314`): `RevokedKeyRunsOut` says each of those once and no others.
* `seed init` writes over the configured seed file without asking what it holds.
* `GET /v1/sweeps/:id` asks for the tenant of an intent's event but not, as its
  neighbours do, for the event of the key (`sweeps.ts:235`), which is why
  `RoutesAgree` has an inclusion there and no equality.
* a merchant's status is not asked when it logs in (`hostedSignup.ts:448`).

## 4. The proofs

TLC checks the instances above; the theorems hold for every set of transfers,
amounts, endpoints, heights, workers, rows and requests, under the `ASSUME`s the
modules state (finite sets, positive amounts, natural bounds). Every safety invariant and
every action property of a passing run is stated by a theorem, with the name of the
theorem below and of the property in `PROJECT.json`. Where a theorem has a hypothesis of
its own it is named here, with the reason.

### Watcher and its data

* `Lifecycle_proofs`: `BandBracketsQuote` and `ExactPaymentIsPaid`, from the
  division lemmas; the `Total...` lemmas on sums, which are cardinalities of sets
  of units so that the library's theorems apply.
* `Watcher_proofs`, for any lag and any number of cancels: `TypeCorrect`;
  `SweepPrecedesCredit`, the invariant that in
  the crediting part of a tick every detected payment the tick did not prove has a
  height promotion cannot reach (or the invoice was not replayed in full and the
  payments that could be promoted were agreed); from it `OnlyAgreedConfirmed` and
  `ConfirmedForGood`, action properties; `ClaimsAreBacked`, that the amount is
  never more than the confirmed payments, because confirmed payments only grow
  and every evaluation counts a subset of them.
* `ClaimsAreExact`, if `MaxLag = 0`, by `FencesRise`: confirmed payments lie at or below
  the height the current tick was fenced with, so that an evaluation counts all of them and
  not just those below an older fence. With lag 1 TLC finds the counterexample.
* `ImplementsLedger`, if `MaxLag = 0` and `MaxCancels = 0`: initial states map to initial
  states of `InvoiceLedger`, and each step to a `CloseWindow`, an `Accept`, an `AcceptLate` or a
  stutter. Only `Credit` and `TtlElapses` are not stutters; the proof of a credit is the
  decision table of `transitionInvoice` against `Verdict`, and needs that a tick that
  saw the window closed was right (`WindowSeen`). A cancel breaks the ledger (run
  `watcher_cancel`), a lag its exact amount.
* `OneClosingIsTold` and `LatestRowIsTrue`, if `MaxLag = 0`, for any cancels: a credit is
  `Quiet` or an `Announcement` to all endpoints at once; rows are of registered
  endpoints (`RowsAreRegistered`), and what was told beyond the detection of a payment
  was told of a closed invoice, with no more than the amount it has (`ToldOfClosed`).
  `LatestRowIsTrue` fails with lag 1; for `OneClosingEvent` TLC found no counterexample
  with lag and two transfers, and the theorem does not say.
* `PaidIsSolid`, for any lag and any cancels, if `NoStaleHeight`: the chain places every
  transfer in a block once, or there is one transfer. By `ProvenIsFinal` (a receipt at or
  below the fence is about a transfer no reorganisation moves), `OneHeight` (a stored
  height is the height of the transfer or the sentinel), `ConfirmedIsFinal` and `PaidIsEnough`.
  The hypothesis is what the run `watcher_stale_height` shows to be needed.
* `OneTrueReceiptGuards`, `FullListingCompletes`, and from them `AgreementSuffices`: for
  every pair of receipts and every listing, whatever the length of logs and pages.

### Creation and quotes

* `InvoiceCreation_proofs`: `TypeCorrect`, whose delicate part is that an index
  or a counter is never given back below zero; `AddressesUnique`, by `IndexInv`: all
  indices in use, stored or held by a handler about to insert, are below the
  counter and pairwise different; `AnswersFit`, by `AnswerInv`: what a handler is about to
  store, has answered, or finds stored was made for the body it stands for (the
  property alone speaks of answers only, and an answer may come out of the row);
  `OneInvoiceEach`, by `CountInv`: invoices made, plus handlers that may still make
  one, plus one if the next request would set out to, are at most one more than the
  lapses. Every step keeps that sum or adds to both sides.
* `EveryQuoteIsFloored`, that the two truncations never lose more than a micro-USDT
  together, and `EveryQuoteIsPayable`, that formatting a quote and parsing it back loses
  nothing and the band ends where the decision changes: for all prices, rates, scales and
  tolerances. `QuotesAreFloors` and `QuotesArePayable` are the properties of the run.

### Delivery and its guard

* `WebhookDelivery_proofs`: `TypeCorrect`; `DeliveredMeansAcknowledged`, by
  `AckInv`: a worker about to mark a success has had it acknowledged;
  `OneSender`, by `HandInv` (rows are in hand between claim and mark only) and `LeaseInv`
  (while no lease of a row lapsed, whoever has it in hand is one worker and the row
  carries a token, so that no claim can take it); `DeliveredForGood`, by `TokenInv`:
  settled rows have no token and drains have one, so that the token of a claim never
  fits a settled row.
* `GuardKnowsDenied`, for every IPv4 and IPv6 address, by arithmetic on the widths of the
  ranges; `RequestsStayPermitted` and `SoundChainsPass`, for chains of any length, by the first
  hop that is refused or answers (well-foundedness of the naturals, no recursion); from
  them `NoDeniedContacts`.

### Sweeps and the gas wallet

* `Sweep_proofs`: `TypeCorrect`; `OnlyBroadcastsRecorded`, by `RecordInv`, which
  follows a recorded hash back to what the handler holds, to the successes of a run and
  to its broadcasts; `AllVerifiedFirst`, by `VerifiedInv`: verified and remaining
  items of the prebuilding loop together are all items; `FinishedIsComplete` and
  `RecordsAreKept`, by `CompleteInv`: between the two writes of a report that is
  handled alone, the row is what its handler is about to mark.
* `OnlyTheMeantIsSent`, from the checks of JSON, bytes and txID one after the other,
  `TheMeantIsSent`, that no check refuses an honest transfer, and from them
  `OnlyIntentsGo`.
* `Console_proofs`, gas wallet, by `GasIInv`: `CapsHold`, `FundingIsRepeatable`,
  `WalletHoldsOut`, `GasTypeCorrect`. Each run is sound (it sends what is planned, the plan is
  within its caps, and the wallet with the fees charged so far covers what is left to send,
  unless the run is `crowded`); what a
  node decides was accepted before; and an address that is not `contested` holds no more
  than the run about to fund it has seen (`BalanceIsKnown`). Totals are cardinalities of sets
  of units, as in `Lifecycle`.

### Switch, limiter, access and setup

* `Gateway_proofs`: `FlushHolds` and `CacheLagsByTtl`, by `AnswersAreRecent` (an answer
  on its way, or in a cache, was the flag's no longer ago than its check is old) and
  `ServerIsCurrent` (between an answer of the admin route and the next write, what the
  server's process holds of the flag is its value), which fails exactly when a
  check overtook the write. What a slow query brings its own caller is as old as the query,
  which `CacheIsRecent` says of it, and no more.
* `LimitHolds`, `MapIsSwept` and `TypeCorrect` of the gateway, by `LimiterIInv`: what the
  limiter stores is within the limit (`WithinLimit`) and was let through (`StoredIsHits`),
  and what was let through and is not stored was forgotten by a restart, a quota by each, in
  every part of the window (`ForgottenByRestart`). A sweep or a filter of older times
  changes none of it; a tick moves both.
* `Access_proofs`: `LinksOpenOnce`, by `RequestsInOrder` and `SessionsInOrder` (a link
  that a handler or a session goes back to is used, so the guarded update takes it
  no more); `RevocationHolds`, by `RunningOut`: the requests let in by a revoked key and
  those that ended since are no more than were at work at the revocation, and none has
  been counted before it;
  `ConfinementAgrees`, by `AdminsHaveNoMerchant`: the routes of an admin's key agree
  only because such a key is never minted for a merchant.
* `Console_proofs`, seed, by `SeedIInv`: `TouchIdOpensSeed` and `SeedTypeCorrect`, by
  `EntryIsGood`, `EnablingIsGood` (what is stored, or about to be, opens the blob it
  was checked against).
* `Console_proofs`, provisioning, by `ProvisioningIInv`: `RerunsMintNothing`, by `OverlapIsSeen`
  and `MintersOverlap` (a run that found no key meets the keys of runs it overlaps only);
  `KeysAreDelivered`, by `StoreHasEvent`; `OnlyRacesRefuse`, by `FreeUnlessRaced` (the account a
  form computed is free until another event is created); `ProvisioningTypeCorrect`.

### What stays with TLC

Liveness under fairness, and `ENABLED`, are out of the prover's reach:
`FinalIsCredited`, `PendingIsSettled` and `PauseTakesHold` are model-checked only. What a
recursive definition computes cannot be proved either, so the models have none: sums and
lengths are cardinalities, about which the library has theorems. Where induction is needed,
`SetInduction` of `Console_proofs` has it for sets of naturals, which takes no operator as a
parameter.

## 5. Not modelled

* Bytes and texts: the parsing of chain and HTTP responses beyond the checks of
  `ReceiptAgreement`, notations of addresses (`AddressGuard` has them by value), address
  derivation, hashing, encryption, cookies. Their outcome is a choice, or an identity of
  model values, where they are called.
* Pages and views: checkout, dashboards, public and operations status, metrics,
  documentation and landing pages, `reconcile`. They read rows and change none; which
  rows a dashboard shows is in `Access`.
* The demo shop and the setup pages: an invoice of the demo is one of
  `InvoiceCreation` without a key, and its other routes show static text.
* The MCP server, which forwards calls to the HTTP API and keeps nothing.
* Code that nothing calls: `normalizeTransfer` of `transferScan.ts`, the branch of
  `PaymentRepositoryPrisma.upsert` that opens its own transaction.
* Migrations, build and deployment.

What a continuation would take up: the webhook rows of `Watcher` composed with
`WebhookDelivery`; sweeps composed with `GasFunding`, whose TRX they burn; the webhook
rows of a watcher whose providers lag.
