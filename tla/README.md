# Formal models of the Stellar Pay Hub

This directory holds TLA+ models of the payment platform in this repository, the
TLC configurations that check them, and proofs checked by TLAPS. It covers the
paths along which money and its bookkeeping move: payment submission and
confirmation, scheduled payments, invoices with checkout and inbound payments,
payment links from the browser page to the merchant, the escrow, treasury, merchant
and subscription features (API, Soroban contract and indexer), and webhook
deliveries. What is left out is listed in section 5.

Paths are relative to the repository root; `api/` abbreviates `apps/api/src/`.

## 1. The system

The API is one NestJS process (more than one in a scaled deployment) over
Postgres, Redis and the Stellar network. It never holds a private key. A request
builds an unsigned envelope and stores a row; the user's wallet signs; a second
request submits the envelope and stores the outcome; a set of `setInterval`
timers reads the chain and moves rows forward on evidence. Nothing runs inside a
database transaction: **every `await` is a place where another request, another
timer or another replica may run, and a single row update is the only atomic
step.** The Redis locks of the timers have a TTL and are never released.

| Component | State it keeps | Operations | Talks to |
| --- | --- | --- | --- |
| Payments (`api/payments/payments.service.ts`) | `Transaction` rows | create, submit, approveOccurrence, cancelScheduled | SDK, reconciliation, notifications |
| SDK (`packages/sdk/src/stellar.ts`, `retry.ts`) | none | build, simulate, submit, poll, retry | Horizon, Soroban RPC |
| Scheduler (`api/scheduler`) | Redis locks | eight timers | every service below |
| Reconciliation (`api/payments/transaction-reconciliation.service.ts`) | `ScheduledPayment`, `Invoice`, `PaymentLink` | onPaymentSucceeded, advanceScheduledPayment | webhooks, notifications |
| Indexer (`api/indexer/indexer.service.ts`) | Redis cursor | confirmSubmittedTransactions, ingestContractEvents | RPC, contract reconciliation, inbound |
| Contract reconciliation (`api/indexer/contract-reconciliation.service.ts`) | rows of escrows, invoices, plans, treasury, merchants | one handler per contract event | |
| Inbound (`api/indexer/inbound.service.ts`, `horizon-inbound.service.ts`) | `ChainEvent`, Horizon cursors | handle, pollMerchant | reconciliation |
| Escrows (`api/escrows`) | `Escrow` rows | create, submit, release, refund, confirmAction | SDK, escrow contract |
| Escrow contract (`contracts/escrow`) | admin, id counter, entries, tokens | initialize, create, release, refund | token contract |
| Hosted payment page (`apps/web/src/app/pay/[code]/page.tsx`) and API client (`packages/sdk/src/client.ts`) | what the page shows, its intent | load, sign and post, try again; a timeout of 15 seconds | checkout, wallet |
| Checkout, payment links, invoices, treasury, merchants, subscriptions (`api/...`) and their contracts | their rows; on-chain entries | create, submit, confirm, on-chain actions | as escrows |
| Webhooks (`api/webhooks`) | `WebhookDelivery` | dispatch, attemptDelivery, retryDueDeliveries | merchants' servers |
| Auth and sessions, rate limiting | challenges, sessions, counters | verifyWallet, refresh, increment | Redis |
| Notifications, realtime, metrics, analytics, admin, users, assets, wallet, front ends | single rows or none | reads and single-row writes | |

What makes each correct, and what is hard about it:

- **Payments.** One request at a time carries a payment to the network; the
  status agrees with the ledger; a verdict is final. Hard: the answer of the
  network may be lost, the request may poll for 90 seconds while the indexer
  writes the same row, and the process may stop at any `await`.
- **Indexer.** Everything the ledger decided is eventually shown, once. Hard:
  ticks overlap, the cursor moves whatever happened to an event, and an event may
  be seen before the request that caused it has stored its hash.
- **Scheduler.** A due plan gets one occurrence, and advances only on a paid one.
  Hard: check-then-create under two locks, locks that lapse, a plan that is read
  early and written late.
- **Escrow.** The contract keeps custody; the row follows the contract and never
  runs ahead of it. Hard: parties act without the API, two actions run side by
  side, and an envelope may be applied although its submission failed.
- **Contract features.** Escrow, treasury, merchant, invoice and subscription rows
  share one pattern: the API prepares a call, the wallet signs, a request submits
  and stores a hash, the indexer matches the contract's event by that hash or by
  the id it brought. Hard: parties call the contract without the API, events are
  met before the hash is stored, met twice, or dropped by a swallowed error.
- **Invoices, checkout, inbound.** Three writers of one invoice row: a checkout's
  submit, the listener that finds a payment on the ledger, the contract's events.
  It is PAID only when it was paid and is announced once.
- **Treasury.** No payout without a quorum however governance changes between
  the votes; the row mirrors the contract's votes. **Merchants.** Tills add up to
  the tokens held; a sale is credited once; a settlement shows what was paid out.
  **Subscriptions.** One subscription per plan and subscriber, no early charge.
- **Webhooks.** Each delivery is attempted until delivered or given up, a bounded
  number of times. Hard: a lock that lapses under a tick that may send for
  minutes, and a first attempt nobody waits for.
- **Payment links.** A page that shows success has paid; the merchant hears of a
  payment once; the totals are backed by payments; the listener finds what the
  checkout lost. Hard: the browser gives up while the request goes on, the payer
  tries again, the listener meets the same payment from the merchant's feed, and the
  stored total is read, added to and written back.

`PROJECT.json` lists the hazards at their lines, with the properties that guard
them or the reason none does.

## 2. Modules

| Module | Models | Extends or instantiates |
| --- | --- | --- |
| `PaymentLifecycle` | payments service, SDK submission, payment half of the indexer, the inbound row that takes a hash | |
| `PaymentLifecycleProofs` | proofs | `PaymentLifecycle` |
| `EscrowCustody` | abstract: what an escrow promises | |
| `EscrowContract` | `contracts/escrow/src/lib.rs` and token balances | refines `EscrowCustody` |
| `EscrowLifecycle` | escrow API, escrow half of contract reconciliation, indexer cursor | extends `EscrowContract` |
| `EscrowProofs` | proofs about the contract and the lifecycle | `EscrowLifecycle` |
| `ScheduledPayments` | the two occurrence timers, their locks, the submission's verdict, advanceScheduledPayment | |
| `ContractCalls` | what the four features below share: envelopes, `submitContractCall`, the ledger, the indexer's way through the events | |
| `TreasuryVault` | abstract: what a governed treasury promises | |
| `TreasuryContract` | `contracts/treasury/src/lib.rs` and token balances | refines `TreasuryVault` |
| `TreasuryLifecycle` | treasury API and treasury events | extends `TreasuryContract`, `ContractCalls` |
| `TreasuryProofs` | proofs about the contract and the lifecycle | `TreasuryLifecycle` |
| `MerchantContract` | `contracts/merchant/src/lib.rs` and token balances | |
| `MerchantSettlement` | merchants API, merchant events, `ChainEvent` of a sale | extends `MerchantContract`, `ContractCalls` |
| `MerchantProofs` | proofs about the contract and its use | `MerchantSettlement` |
| `InvoiceLifecycle` | invoices API and contract, checkout, inbound payments, `reconcileInvoicePayment` | extends `ContractCalls` |
| `InvoiceProofs` | proofs | `InvoiceLifecycle` |
| `SubscriptionLifecycle` | subscriptions API and contract and their events | extends `ContractCalls` |
| `SubscriptionProofs` | proofs | `SubscriptionLifecycle` |
| `WebhookDelivery` | webhooks service and the retry timer | |
| `SchedulerProofs` | proofs about the timers of payments and of retries | `ScheduledPayments`, `WebhookDelivery` |
| `LinkCheckout` | hosted page, checkout of a link, its totals and expiry, Horizon listener | |
| `LinkCheckoutProofs` | proofs | `LinkCheckout` |
| `MCPayments`, `MCEscrows`, `MCTreasury`, `MCMerchants`, `MCInvoices`, `MCSubscriptions`, `MCLinkCheckout` | instances for TLC | the module of the feature they name |
| `MCDeadlines` | one instance of two modules that share no state | `EscrowContract`, `ScheduledPayments` |

Common conventions. Process-local variables (`pc`, `row`, `tpc`, `batch`, ...)
are what a handler or tick holds in memory; a restart resets them and nothing
else. A handler or tick takes one action per `await`. The guards of conditional
updates (`updateMany ... where status = ...`) are operators of their own
(`Claimable`, `AfterThrow`, `Settles`, `StillActive`, ...), named for the clause
they translate. Beside some of them stands a faulty variant (`ClaimBlind`,
`AfterThrowKeeps`, ...) that no action uses: `PROJECT.json` pairs each property
with one of them to show that the property would notice.

**PaymentLifecycle.** A row is classic (Horizon), an occurrence (classic, created by
the scheduler, its envelope built when the owner approves), a batch or split (`Multi`,
classic with several operations) or a contract send (Soroban). `net` follows each
envelope: unbuilt, built, queued, applied, reverted; `seqno` ties the envelopes of a
source together. `SubmitRead`, `SubmitClaim`/`SubmitClaimLost`, `CallNetwork`, the
answers, `PersistSuccess`/`PersistThrows`/`PersistFailure`/`RevertClaim`,
`AfterSuccess`/`AfterFailure` are `submit` from top to bottom. A request submits
whatever its wallet signed: the envelope of this row, of another row, or one that some
other application had it sign (`Elsewhere`). `Passes(t, e)` is what the code does about
it: a classic single payment is compared with its intent and anything else is refused
before any write; contract, batch and split rows are not compared
(`payments.service.ts:315-322`), so that any envelope is carried to the network and its
hash stored. The unique hash is then taken by an inbound credit or by another row
(`HashTaken`). `CallNetwork` chooses whether the envelope reached the network and,
separately, whether the call throws: the SDK's retries resend the same envelope and
change neither. `TickStart` .. `TickSaveCursor` are `syncOnce`. Abstracted: what an
envelope pays is one value (`Terms`); the page size of `getEvents`; side effects on
invoices, links and plans.

**EscrowContract.** One action per successful invocation; a failing invocation is
rolled back by the host. `require_auth` is the caller's name. The TTL upkeep is
left out: an archived entry is restored on access. `MaxTime` stands for
`u64::MAX`, so that the saturating deadline is kept. `InitFirst` is an assumption
on the deployer, see the configurations under Findings.

**EscrowLifecycle.** Runs the API, indexer ticks and the contract together.
`origin[k]` names the envelope behind event `k`, which is how the transaction
hash of an event is represented. `DirectCreate` and `DirectSettle` are users of
the contract that never meet the API. `TickEventDropped` is the swallowed error
of `reconcile`; direct calls, drops and restarts share the bound `MaxUpsets`.
`overtaken` is a history variable: the rows that a tick funded while another one had
already read past it.

**ScheduledPayments.** Time is a flag: `ComesDue` is `nextRunAt` passing. The
lock of each timer is taken by `AcquireLock` and freed only by `LockLapses`,
which may happen under a running tick. The submission is reduced to its verdict;
`HandlerDies` also stands for the update that throws on a hash already taken,
which leaves the same row behind.

**ContractCalls.** `fate` follows each envelope (prepared, queued, applied,
reverted), `events` is the contract's log, `req` what each request holds. `seen` is
the indexer's cursor: `Delivered` hands over the next event, or an old one again,
as a tick does that read its page before another moved the cursor; `Dropped` is the
error `reconcile` swallows. `CallNetwork` chooses whether the envelope reached the
network and whether the call throws; `Accepted` may come before the ledger decided,
because the poll gives up after 90 seconds and answers SUCCEEDED. The feature
modules add a row's guards and writes, the contract's step and the handlers.

No submit of a contract call looks at the envelope it is given. `PaymentLifecycle` and
`InvoiceLifecycle` therefore let a wallet hand in any envelope of the API for any row.
`EscrowLifecycle`, `TreasuryLifecycle`, `MerchantSettlement` and
`SubscriptionLifecycle` assume that the wallet signs the envelope prepared for the row:
their properties and theorems hold under that assumption, which the code does not
enforce. In the checkout of invoices and links the envelope is compared with its
intent, and the models take it to be the row's own; two checkouts with the same terms
could pass for one another, which is not modelled.

**TreasuryContract** has one action per entry point that writes. One token; caps
and member lists are what the administrator passes, repetitions included.
**TreasuryLifecycle** splits `onWithdrawalApproved` at its await: a tick's `stash`
is the list it read. **MerchantContract** and **MerchantSettlement** keep the
tokens apart because a settlement row is completed by any token's event, and the
indexer only knows the amounts of the native one; `RecordEvent` and `CreditSale`
are the two inserts of a sale. **InvoiceLifecycle** submits the contract's calls by
role: `SubmitIssue`, `SubmitCancel` and `SubmitPay` each take any prepared envelope,
and `draft` is what a request of the first two writes when it is answered, the hash of
what it was given or the hash the row had when it was read. It keeps in `work` what is
in progress between two awaits: a claimed inbound payment, a payment about to be
reconciled, a notification about to be sent. **SubscriptionLifecycle** reverts the
call when the transfer fails: `renew` sets the subscription inactive and returns
`Err` (`contracts/subscriptions/src/lib.rs:124-131`), and the host undoes the
write, as `test.rs:74-87` expects; `contracts/subscriptions/README.md` says that it
is paused. **WebhookDelivery** keeps the attempts in progress in `flying`; an
attempt by the row itself is the first one, which `dispatch` does not wait for. The rows
a tick read and has still to send are a set: the query states no order.

**LinkCheckout.** `page` is what the browser shows; a page forgets its intent when
the payer tries again, while the request it posted goes on. `posted` stands for the
HTTP request: it is served by any handler, again after a retry, or never. `Claim`,
`GiveBack`, `PersistSuccess`/`PersistThrows`, `ReadLink`, `UpdateLink` and
`NotifyMerchant` are `submitSigned` and `reconcilePaymentLinkPayment` from top to
bottom; `Answer` is part of every step that ends a request and reaches the page only
if it still waits for that intent. `PollStarts` .. `SaveCursor` are one poll of the
merchant's feed with its page and its cursor, `RecordFails` the error that
`pollMerchant` swallows. One link with a fixed amount, so that a total is a number of
payments; one merchant. The lock of the listener is left out: it lapses after 12
seconds, the timer fires every 15, so that it never keeps two polls apart. `lost` and
`overlapped` are history variables: no action reads them, the properties do.

The `MC` modules restrict an instance to one theme at a time (`focus`): for
example the treasury contract under every caller, then the API's deposits, then
its withdrawals over a deployed contract. All themes are checked in one run.

## 3. Runs

| Run | Question | Bounds | Distinct states |
| --- | --- | --- | --- |
| `payments` | 5 invariants, 2 temporal properties | one row of any of the four kinds, an envelope signed elsewhere, two envelopes of an occurrence, two handlers, two ticks, one fault; and any two rows that are not occurrences, one handler, two ticks, no fault | 619,437 |
| `escrow` | 2 invariants, 1 action property | one row, two contract ids, two upsets; two handlers and a tick, or a handler and two overlapping ticks | 2,756,648 |
| `deadlines` | 3 invariants, reclaim and refinement of the escrow contract; 4 invariants, 2 temporal properties of plans | two escrows, three accounts, an arbiter, amounts 1 and 2, clock 0..4; one plan, two occurrences, two ticks over both jobs, two handlers, one lapse, one fault | 382,818 |
| `treasury` | 2 invariants, 1 property with an action part, refinement | two members and the administrator, two proposals, thresholds 0, 2 and 3, member lists of nobody, of two and of all three, one deposit and one proposal row, two ticks, two direct calls, one upset | 1,120,682 |
| `merchants` | 3 invariants, 1 action property | two merchants on-chain, two tokens, commissions 0 and 50 %, one sale and two settlement rows, two ticks, up to four direct calls, two upsets | 238,965 |
| `invoices` | 3 invariants | one invoice, two checkouts, an exact and an inexact inbound payment, two contract ids, two handlers, one direct call, one upset; and two invoices whose issue envelopes are crossed | 1,531,394 |
| `subscriptions` | 2 invariants | one plan, two rows of one subscriber, interval 2, clock 0..4, two direct calls, one upset | 536,680 |
| `deliveries` | 1 invariant, 1 liveness property | two deliveries, two ticks, two attempts, one row a tick, one upset | 612,980 |
| `links` | 3 invariants, 1 liveness property | one link, two pages, two intents, one direct payment, two handlers, two polls, pages of two records, one fault | 302,643 |

An upset is a replayed or dropped event, a dead request or a failed query; a fault of
`links` is a failing record, a dying request or a poll that stops. Every module states
a type invariant; those of `EscrowLifecycle`, `TreasuryLifecycle`,
`MerchantSettlement` and `InvoiceLifecycle` hold on the same instances but are not
among the properties of their runs.

What they show:

- `SingleFlight`: two requests are never past the claim of one payment, whichever
  envelopes they carry. `StatusMatchesLedger`: a SUCCEEDED row stores an applied
  envelope that passed its check; a CONFIRMED row's own payment is applied, or the
  envelope it stores is, which nobody compared with the row (`ConfirmedIsPaid.cfg`
  shows that this may be the payment of something else); a FAILED row stores a reverted
  one; and no envelope is counted for two rows or for a row and a credit.
  `LostClaimIsExplained`: a SUBMITTED row without a hash needs a dead process, or an
  inbound credit or another row that took the hash first. `OneVerdict`: success and
  failure are never both announced (unless the row stores an envelope that is not its
  own), and a failure only once. `TerminalIsFinal`: SUCCEEDED and FAILED are never
  rewritten. `SubmittedContractSettles`: a stored contract payment the ledger has
  decided is settled.
- `Solvent`: the contract holds exactly what open escrows are owed.
  `EventsTellState`: the log determines the entries. `InitiatorCanReclaim`: an
  escrow nobody settles is refundable in the end. `KeepsCustody`: it implements `EscrowCustody`.
- `StatusOnEvidence`, `StatusForward`: the row shows only its own escrow, only what the
  contract says, and never moves back. `NoOutcomeMissed`: the cursor passes no outcome
  of a FUNDED row, except one that a swallowed error dropped, or one of a row that an
  overtaken tick funded.
- `OpenRowsBounded`: at most one unpaid occurrence per timer that covers the plan
  and per lock that lapsed. `RunsAreConfirmed`, `CompletedIsEarned`: run counts
  are backed by payments and completion by run counts. `StoppedStaysStopped`,
  `DueIsServed`.

- `ExecutedWithQuorum`: a proposal executes with as many votes as the threshold then in
  force, each cast by an account that was a member when it voted, while members are
  taken in and off and the threshold is raised, lowered or lifted in between; so never
  with fewer than the least quorum there ever was. (The vote of a member taken off
  since still counts, see `MembersApproved.cfg`.) `KeepsVault`: a proposal is paid
  once and on its own terms. `WithdrawalOnEvidence`, `NothingMissed`: rows show only
  what the contract did, and all of it as long as events come once and in order.
- `BooksBalance`: every token sold is either settled or still owed, and held.
  `TillKept`: no id changes its owner, no till shrinks but to nothing.
  `SaleCreditedOnce`, `SettlementOnEvidence`: the same for the rows.
- `PaidOnEvidence`: a PAID invoice names a payment of this invoice and its amount, or
  was paid in the contract; and a contract id is of an entry that an envelope of the API
  made and of no other row, whichever envelope is submitted for whichever row. That an
  invoice which is on-chain may also be paid through a checkout is the finding
  `paid_by_event`. `ToldOnce`: whoever wins, the merchant hears once, and no payment is
  both a checkout and an inbound credit. `OutcomeShown`: what the contract closed is
  closed.
- `TermsKept`, `RowShowsSubscription`: see the modules; the row's due date is never
  before the contract's.
- `ResendsBounded`: at most the retry limit, one more for each other tick that read
  the row before, and those an upset left uncounted. `EveryDeliveryEnds`: a delivery
  is delivered, exhausted, blocked or deleted, unless an upset took its first
  attempt, after which nobody looks at it again.
- `MerchantHearsOnce`: the checkout and the listener, in any order, announce a payment
  at most once. `TotalsBacked`: a link counts only payments that succeeded, and total
  and count agree until two requests overlap on them. `SuccessIsPaid`: a success on
  the page is a payment on the ledger, by this payer. `EveryPaymentFound`: what the
  ledger applied is recorded by the checkout or credited by the listener, unless its
  own record failed.

Why the bounds are enough for these questions. A step names one row, and one row of
each kind sees all the interleavings of handlers, ticks and faults. What relates two
rows is an envelope handed in for the wrong one: `payments` and `invoices` have a theme
with two rows for it. In the theme of two payment rows one handler and no fault are
left: what the second row adds is a hash that is taken, which one handler meets after
the other; occurrences have no part in it. The crossed invoices leave out direct calls
and deaths. Two handlers and two ticks give every race of a pair, and the updates are
idempotent or conditional on a single row, so a third contender meets the same row
states. Two envelopes are what it takes to pay twice. In `escrow` two ids let a foreign
escrow stand beside the row's own; two handlers beside two ticks are left out for size,
and the theorems are for any number of both. In `deadlines` two occurrences reach the
bound of a one-off plan; the bound of a recurring plan takes three and is left to the
theorem. `Take` keeps its value 20 there. In `treasury` every change of governance
between two of the member lists and thresholds may come between proposal, votes and
execution. In the feature runs a row meets two direct calls, enough to act before and
after the API's own call; a single upset is a replay, a drop or a death at every
possible place; two contract ids let a foreign entry stand beside the row's own. In
`deliveries` `RetryTake = 1` makes the two rows compete for a tick, and two attempts
reach the limit (5 in the code) that the overlap exceeds.

`CHECK_DEADLOCK FALSE` in every configuration: users, clocks and bounded
counters may all have stopped.

### Findings

Three runs end in a counterexample. Each states a sentence of the documentation or
of a comment, quoted in `PROJECT.json`.

| Run | What the code does |
| --- | --- |
| `paid_once` | a lost answer gives the claim back; the next approval of the occurrence builds a second envelope and both are paid |
| `success_is_told` | a link that stopped being ACTIVE between payment and reconciliation is left alone: the page shows success, the merchant is not told, and the listener skips the payment because its hash is stored |
| `paid_by_event` | `reconcileInvoicePayment` makes any ISSUED invoice PAID, one that is on-chain included, while its entry stays open in the contract |

Eleven more configurations lie beside the runs and end in a counterexample as well;
they were kept out of the list to keep it short:

| Configuration | What the code does |
| --- | --- |
| `ConfirmedIsPaid.cfg` (`MCPayments`) | an envelope signed for something else is submitted for a contract payment: its hash is stored, and its success confirms a row whose own payment was never made, against `payments.service.ts:313-314` ("their on-chain outcome is verified by the indexer instead") and `docs/architecture.md:189-193` ("Before either submit path posts a signed envelope to the network it is decoded and verified against the recorded intent") |
| `MembersApproved.cfg` (`MCTreasury`) | a member votes and is taken off the list; the proposal executes on that vote, with fewer votes of present members than the threshold asks for, against `contracts/treasury/src/lib.rs:147-149` |
| `ConfirmedOnce.cfg` (`MCPayments`) | the indexer confirms on an event while `submit` still polls; `submit` writes SUBMITTED back and the payment is confirmed and announced again, against `indexer.service.ts:47-50` |
| `EscrowIdReuse.cfg` (`EscrowContract`) | `create` before `initialize`, which resets the counter: the next escrow overwrites a funded one, against `contracts/escrow/src/lib.rs:145-147` |
| `FundingIsShown.cfg` (`EscrowLifecycle`) | the `created` event is paged before `submit` stores the hash it is matched by: the row stays SUBMITTED, against `contract-integration.service.ts:20-22`; a temporal counterexample under `FairSpec` without any upset |
| `OverlappingTicks.cfg` (`EscrowLifecycle`) | a tick reads its page; a party releases without the API; a second tick reads a longer page and passes `created` and `released` before `submit` stores the hash; the first tick then finds the row by its hash and sets it FUNDED, behind both cursors: the outcome is never met, against `indexer.service.ts:241-242` ("no replay, no gap under normal operation"). The lock lapses after 15 s, the timer fires every 20 (`scheduler.service.ts:148`, `:45`), so that ticks overlap when one is slow. This is what `NoOutcomeMissed` excuses as `overtaken` |
| `NeverDoubleCreated.cfg` (`ScheduledPayments`) | both timers find no occurrence in flight and both create one, against `scheduler.service.ts:87-88` |
| `OneOffRunsOnce.cfg` (`ScheduledPayments`) | a one-off plan has no `maxRuns`, never completes, and is due again a day later |
| `TreasuryReplay.cfg` (`MCTreasury`) | the proposal's event, read again, puts an executed withdrawal back to PROPOSED |
| `RejectedIsUnsent.cfg` (`MCLinkCheckout`) | an aborted connection is shown like a rejection in the wallet, while the posted envelope is paid, against `page.tsx:226` |
| `ExpiredNeverPaid.cfg` (`MCLinkCheckout`) | `submitSigned` does not look at the expiry: an intent made in time is carried to the network after it, against `checkout.service.ts:58` |

What else the modelling brought up. Each is behaviour of the models; the properties
are stated so that they hold beside it.

- *Treasury.* Two overlapping ticks with two approvals lose one
  (`contract-reconciliation.service.ts:443`). A row's threshold column is the
  default 0, so the first approval makes it APPROVED. A repeated address in the
  member list makes a threshold unreachable.
  The hash columns of approve and execute are never cleared, as those of renew and
  cancel of a subscription and release and refund of an escrow are not: after an
  envelope that was accepted and died, the API refuses the action.
- *Merchants.* A `settle` event completes every PROCESSING row of the merchant,
  whatever its token (`:597`), and a later row when it is read again. FAILED is
  written by id over COMPLETED (`merchants.service.ts:330`). As in the escrow
  contract, `initialize` sets the id counter back (`InitFirst`). No code creates the
  PENDING settlements that `processPendingSettlements` looks for.
- *Invoices.* Two checkouts of one invoice can both be paid. When the listener
  stores a checkout's hash first, the update of `checkout.service.ts:244` throws:
  the payment stays SUBMITTED and the invoice is left ISSUED if the listener did not
  match it. `cancel` writes CANCELED over PAID. A row keeps the hash of whatever was
  submitted as its issue; with another row's call it is never linked to its own entry.
- *Subscriptions.* A `sub` event read again activates a row whose `cancel` event
  came before the row knew its id.
- *Payment links.* Two requests that read the total one after the other and then write
  lose one amount, while the count, incremented in the database, keeps both
  (`transaction-reconciliation.service.ts:217-218`). A payer who tries again after a
  timeout pays with a new envelope; the old one dies only if the new one takes its
  sequence number. `TRY_AGAIN_LATER` is polled like an accepted transaction
  (`packages/sdk/src/stellar.ts:430`).
- *Webhooks.* There is no exponential backoff (`webhooks.service.ts:66-68`): an HTTP
  error leaves `nextRetryAt` as it was and a network error sets 30 seconds. A failed
  DNS answer blocks a delivery for good.

### Fairness

- A handler that can step does (`WF` of its steps): Node's event loop runs every
  resolved promise, and every network call has a timeout or a deadline. Nothing
  makes it *succeed*: the throwing and the successful answer are both always open.
- A tick that can step does, and ticks start again: `setInterval`
  (`scheduler.service.ts:39-49`).
- Locks lapse: `EX` in `redis.service.ts:65`.
- Ledgers close (only for `InitiatorCanReclaim`).
- In `WebhookDelivery` every attempt moves on (DNS, `fetch` with its timeout and the
  query all return), retry ticks start, loops continue, `nextRetryAt` passes. Which
  rows an unordered query returns is not owed to any row, nor is a merchant's
  acceptance.
- In `LinkCheckout` polls start again and every await of a poll returns
  (`scheduler.service.ts:39-49`, `pollHorizonInbound`). No request, page or payer owes
  anything: the listener alone has to find what the ledger applied.
- Users, the inclusion of envelopes, restarts, failing calls and database errors
  are never owed. `SubmittedContractSettles` therefore starts from a transaction
  the ledger has decided, and faults are finite (`MaxDeaths`).

## 4. Proofs

TLAPS proves, for any constants that satisfy the named assumptions
(`RowsAssumption`, `PlansAssumption`, `BoundsAssumption`, `ContractAssumption`,
`AbsentAssumption`, `LifecycleAssumption`, `TreasuryAssumption`, `MerchantAssumption`,
`SettlementAssumption`, `CallsAssumption`, `SubscriptionAssumption`, `LinkAssumption`,
`InvoiceAssumption`, `DeliveryAssumption`; TLC evaluates them on every run). One
hypothesis beyond them is written in the theorems that need it: `InitFirst`, the
deployer calls `initialize` before anyone uses the contract. A theorem starts from
`Init`, not from the deployed contract that some instances for TLC start from.

| Theorem | States |
| --- | --- |
| `TypeCorrect` | `Spec => []TypeOK` |
| `SingleFlightHolds` | `Spec => []SingleFlight` |
| `TerminalIsFinalHolds` | `Spec => TerminalIsFinal` |
| `StatusMatchesLedgerHolds` | `Spec => []StatusMatchesLedger` |
| `ContractTypeCorrect` | `ContractSpec => []ContractTypeOK` |
| `KeepsCustodyHolds` | `InitFirst` implies `ContractSpec => KeepsCustody` |
| `PlanTypesCorrect` | `Spec => []TypeOK` of `ScheduledPayments` |
| `StoppedStaysStoppedHolds` | `Spec => StoppedStaysStopped` |
| `CompletedIsEarnedHolds` | `Spec => []CompletedIsEarned` |
| `RunsAreConfirmedHolds` | `Spec => []RunsAreConfirmed` |
| `TreasuryTypeCorrect` | `TreasurySpec => []TreasuryTypeOK` |
| `ExecutedWithQuorumHolds` | `TreasurySpec => ExecutedWithQuorum` |
| `KeepsVaultHolds` | `TreasurySpec => KeepsVault` (the refinement of `TreasuryVault`) |
| `MerchantTypeCorrect` | `MerchantSpec => []MerchantTypeOK` |
| `TillKeptHolds` | `InitFirst` implies `MerchantSpec => TillKept` |
| `TermsKeptHolds` | `Spec => []TermsKept` of `SubscriptionLifecycle` |
| `OneVerdictHolds` | `Spec => []OneVerdict` |
| `LostClaimIsExplainedHolds` | `Spec => []LostClaimIsExplained` |
| `EventsTellStateHolds` | `InitFirst` implies `ContractSpec => []EventsTellState` |
| `LinkTypeCorrect` | `Spec => []TypeOK` of `LinkCheckout` |
| `SuccessIsPaidHolds` | `Spec => []SuccessIsPaid` |
| `MerchantHearsOnceHolds` | `Spec => []MerchantHearsOnce` |
| `TotalsBackedHolds` | `Spec => []TotalsBacked` |
| `InvoiceTypeCorrect` | `Spec => []TypeOK` of `InvoiceLifecycle` |
| `PaidOnEvidenceHolds` | `Spec => []PaidOnEvidence` |
| `ToldOnceHolds` | `Spec => []ToldOnce` |
| `OutcomeShownHolds` | `Spec => []OutcomeShown` |
| `SolventHolds` | `InitFirst` implies `ContractSpec => []Solvent` |
| `StatusOnEvidenceHolds` | `InitFirst` implies `Spec => []StatusOnEvidence` of `EscrowLifecycle` |
| `StatusForwardHolds` | `InitFirst` implies `Spec => StatusForward` |
| `LifecycleKeepsCustody` | `InitFirst` implies `Spec => ContractSpec /\ KeepsCustody` |
| `NoOutcomeMissedHolds` | `InitFirst` implies `Spec => []NoOutcomeMissed`, for ticks that overlap as they like |
| `WithdrawalOnEvidenceHolds` | `Spec => []WithdrawalOnEvidence` |
| `LifecycleKeepsVault` | `Spec => TreasurySpec /\ KeepsVault /\ ExecutedWithQuorum` |
| `NothingMissedHolds` | `Spec => []NothingMissed` |
| `SettlementOnEvidenceHolds` | `InitFirst` implies `Spec => []SettlementOnEvidence` |
| `LifecycleKeepsTills` | `InitFirst` implies `Spec => MerchantSpec /\ TillKept`: the sales lifecycle takes only steps of `MerchantContract` and keeps its tills |
| `SaleCreditedOnceHolds` | `InitFirst` implies `Spec => []SaleCreditedOnce` |
| `BooksBalanceHolds` | `InitFirst` implies `Spec => []BooksBalance` |
| `RowShowsSubscriptionHolds` | `Spec => []RowShowsSubscription` |
| `OpenRowsBoundedHolds` | `Spec => []OpenRowsBounded` |
| `ResendsBoundedHolds` | `DeliverySpec => []ResendsBounded` |

*Payments.* `SingleFlight` is not inductive: a handler in flight must be known to
still hold the claim. `ClaimHeld` says so, with the one exception that makes it
interesting: the indexer may have confirmed a contract row under the polling
request (`CONFIRMED`, the race of `ConfirmedOnce.cfg`), and even then the row cannot
be claimed. It needs `HashAfterClaim` and `BatchHashed`, because a tick only
settles rows whose hash is stored, which excludes rows in flight from
`confirmSubmittedTransactions` and leaves only the event path. `Claims` collects
these; `TerminalIsFinal` follows from it, since the unconditional updates of
`submit` only ever meet SUBMITTED or CONFIRMED. `CountedOnce` is the unique column: a
hash is stored only where neither a credit nor another row has it. `StatusMatchesLedger`
adds `LedgerTruth`: events are of applied envelopes of their own row, and a handler was
told the truth of the envelope it carries, which passed the check of its row. That the
envelope is the row's own is nowhere assumed; a CONFIRMED row has its own payment or its
stored envelope on the ledger (`PaidApplied`).

`OneVerdict` needs to know that whoever is about to announce made the status terminal
alone: the settling update names the status it leaves, so two can never both win.
`LostClaimIsExplained` holds because its excuses, a death and a hash that is taken, are
never undone, and only the winner of a claim leaves the status it excuses.

*Escrow contract.* `FreshIds` (no entry at or above the counter, and no counter
before `initialize`) is what `create` needs to fill an empty entry; it is
inductive only under `InitFirst`, and `EscrowIdReuse.cfg` shows what happens
without it. The refinement maps an entry to a deal (`DealOf`) and a balance to a
wallet; `initialize` and the clock are stuttering steps. `EventsTellState` counts the events of
an entry: publishing adds one to one count, and a fresh id has none.

*Escrow lifecycle.* `LifeInv` is about API, indexer, parties and contract together.
`Prepared` says what an envelope calls, `Jobs` what a request holds in hand, `Log` what
an event proves of the entry it names and of the envelope behind it, `Paging` where
ticks and cursor may stand, and `OwnEscrow` that a row's contract id is of the entry its
own `create` made. `StatusOnEvidence` also needs `OutcomeOnChain`, and `StatusForward`
the same facts about what a request or a tick read before its await.
`LifecycleKeepsCustody` shows that every step is a contract step or leaves the contract
alone, so what is proved of the contract alone holds here. `NoOutcomeMissed` has `Ahead`:
every outcome of a FUNDED row is ahead of the cursor and of every running tick, unless
the tick that funded the row had been overtaken: the others are behind or level with the
`created` event it holds, and the outcome comes after that.

*Scheduled payments.* `Links` ties the actors to the tables: a row belongs to a
plan that exists, a tick looks at plans that exist, and a busy handler owns its
row, alone and in the status its progress says. Type correctness already needs it,
because `advanceScheduledPayment` reads the plan of the row it holds.
`CompletedIsEarned` adds `BelowMax`: a handler that read a bounded plan read a
count below the bound, and its stale count can be behind the plan's but never
carry it past `maxRuns`. For `RunsAreConfirmed` the number of paid rows is too
weak, since two handlers may both be about to count: `Counted(s)` leaves out the
rows a handler is still going to count, and both the stored count and every count
in a handler's hands stay at or below its size. An advance gives its own row to
`Counted` and adds one, so a lost update can only leave the count behind.

`OpenRowsBounded` counts actors as well as rows (`InFlightInv`). `TickAtWork` says that a
tick past its check has found no occurrence in flight and that one at work took the lock
of its job; `LocksCounted` that at most one of the ticks of a job runs for its lock and
that every other one was paid for by an overrun. A tick about to insert counts like the
occurrence it will insert: `OpenCounted` bounds both together by the jobs that cover the
plan and the overruns, and a tick may add itself only where it saw no open row.

*Webhooks.* `Before(d)` are those who have a request for delivery d still before them,
`After(d)` those who have only its outcome to write. Attempts counted and holders
together exceed the limit by the other ticks at most, because who reads a row reads one
within its budget. What a merchant received is at most what is counted, what is about to
be counted, and what the upsets left uncounted, one attempt of every tick each
(`Budget`). `FirstAttempt` keeps the first attempt apart: until it is written no tick
has the row.

*Treasury contract.* `ExecutedWithQuorum` is about the past, the threshold about the
present: `QuorumInForce` says that while there are members the threshold is at least
the least quorum, which `set_governance` and the empty list of a treasury without
governance keep, and an execution needs a member; `QuorumStands` keeps it for what was
executed, as votes are never taken back. The action part follows step by step. The
refinement needs `FreshIds` as the escrow's does, and here no assumption about `initialize`: the counter is
seeded only where there is none. *Merchant contract.* `FreshIds` again, under
`InitFirst`; the types carry that a commission is between zero and the amount, which
needs the commission to be at most 10,000 basis points.

*Treasury lifecycle.* `RowsInv` follows the pattern of the escrow: requests and envelopes
(`Requests`, `Prepared`), the log as evidence (`Log`), the rows and what they show
(`Rows`, `Deposits`, `Shown`), and `Stashed`, the list a tick read before its await: it
holds only votes that were cast. `NothingMissed` adds `Complete`: while no event is lost
a tick that has the next event in hand read the list as it still is. The theorems hold
for overlapping ticks. *Merchant lifecycle.* `SalesInv` is the same for sales and
settlements: `Credited` says that a credit is of a recorded event and that no event is
credited twice. `SaleCreditedOnce` adds `NoSaleForgotten`: unless an event was lost or a
tick died, what was recorded is credited or still in a tick's hands.

*Sums.* `Solvent` and `BooksBalance` are about sums over finite sets, folds of the
community modules. The library's induction over finite sets takes an operator and cannot
be used, so the lemmas are proved by a smallest counterexample: strict inclusion is
well-founded on the subsets of a finite set, and a smallest set on which two sums
disagree loses an element and agrees. From this every fold exists, is independent of the
order, and splits at an element (`SumSplits`); the rest says how a sum moves when one
term does (`SumSame`, `SumGains`, `SumShifts`).

*Subscriptions.* `TermsKeptHolds` is about the whole feature, API and indexer included:
only contract steps change `subs` and `slots`, so the proof has one step for each of
them and one for the rest. `TermsKept` becomes inductive with the due date of each
subscription tied to the number of its charges. `RowShowsSubscription` has `RowsInv`:
one envelope a row (`OneEnvelope`), an id that leads back to it (`Linked`), and an event
for every end (`EndsTold`). `CaughtUp` is the half about lost events: while none is, a
row's due date is late enough unless a renewal is still to be met.

*Payment links.* One inductive invariant (`LinkInv`) carries the three theorems.
`Flights` says that a request past the claim holds its row alone and that only applied
envelopes succeed; with `Pages`, which ties a waiting page to its intent, it gives
`SuccessIsPaid`. `Told` is what keeps the checkout and the listener apart: whoever is
about to tell the merchant has stored the hash, alone, and has told nobody yet. For
`TotalsBacked` the rows that succeeded are too many, because their requests have the
count still before them: `Counted` leaves those out, as in `RunsAreConfirmed`, and a
total in a request's hands is never ahead of the count.

*Invoices.* One inductive invariant (`InvoiceInv`) over API, listeners, contract and
indexer together. `Log` says what the contract's events are evidence of: the entries
they name exist, a `paid` event is of a paid entry, and an id is issued before anything
else happens to it. `Linked` says that a stored hash is of some envelope of the API, an
id of an entry that such a one issued, and of no other row: the handler of `issued` writes an id only where
no row has it. `Drafts` is about the hash a request holds in hand before it writes.
`Paying` extends `PaidOnEvidence` to the work in progress: who is about to settle an
invoice is on the ledger for it. `Telling` is what makes three writers announce once: an
open invoice has neither been announced nor is about to be, and the conditional update
that closes it lets one of them through. `OutcomeShown` uses `Log` for the step that
links a row: no outcome of the entry can have been met before its `issued` event.

Only model-checked: the liveness properties (`SubmittedContractSettles`,
`InitiatorCanReclaim`, `DueIsServed`, `EveryDeliveryEnds`, `EveryPaymentFound`), which
need fairness and `ENABLED`, and the counterexamples. Every safety property of a passing
run is a theorem.

## 5. What is not modelled

- Links with an open amount, what the operations of a batch pay one by one, the
  idempotency key (one unique index),
  cross-border quotes, receipts.
- The payment contract: a stateless transfer behind a flag and an allowlist. Its
  event is part of `PaymentLifecycle`, the payments of others of `InvoiceLifecycle`.
- Expiry of sessions by the scheduler: one conditional update.
  `processPendingSettlements`: nothing creates the rows it reads.
- The page size of `getEvents`; XDR parsing; amount arithmetic.
- Read-only endpoints, guards, validation, configuration, notification channels,
  rate limiting, authentication, admin, analytics, metrics: pure functions or
  single-row reads and writes.
- Front ends except the states of the hosted payment page, the browser extension, the documentation site, the video tooling and
  the deployment scripts. They are more than half of the repository's lines and
  keep no state the rest depends on; this is why the map covers a small share of the
  lines although every service that moves money is modelled.

What a next step would take: the operations of a batch envelope; envelopes handed in for
the wrong row in the escrow, treasury, merchant and subscription features.

## 6. Running

    tlc -config PaymentLifecycle.cfg MCPayments
    tlc -config Treasury.cfg MCTreasury
    tlapm PaymentLifecycleProofs.tla

Each run of `PROJECT.json` names its module and its configuration. The largest,
`escrow`, `deadlines`, `treasury`, `invoices` and `payments`, take about three minutes on two
workers.
