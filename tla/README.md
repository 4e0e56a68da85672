# Verification of the NUMU commerce core

NUMU-api is the backend of a multi-tenant shop platform (FastAPI, SQLAlchemy on
PostgreSQL, Redis, Celery). This directory holds TLA+ models of the parts that
move money and stock, the TLC configurations that check them and TLAPS proofs
about them. Source paths below are relative to the repository (`src/application/...`).

## 1. Inventory

How the system runs. API workers handle requests concurrently, each in a database
transaction of its own (READ COMMITTED); domain events are handled in process after
the commit, so a killed worker loses them; Celery beat starts periodic tasks; payment
gateways and couriers call back, repeat a callback until they read a 2xx, and may
repeat it while the first delivery is still running. What two of these do at the same
time on one row is decided by three mechanisms, used unevenly: `SELECT ... FOR
UPDATE`, unique indexes, and the `version` column of orders.

| Component | State it keeps | Operations | What is hard | What makes it correct |
|---|---|---|---|---|
| Wallet top-ups | intents, receipts (proofs), on-hold amount, replay keys | create, upload receipt, auto-approve, review, gateway callback, expire | four ways to credit one intent; checks made before slow external calls; overlapping retries | one credit per intent; success iff on the ledger; approval implies credit; holds match reviews; paid is credited in the end |
| Wallet ledger | balance, warning level, ledger rows | commission, reconciliation, adjustment, top-up credit | a locked read that returns an older copy; lost and repeated events | one commission per order; balance is the ledger sum, or returns to it |
| Wallet checkout gate | cached gate state, settings cache of each process | compute, fill, invalidate, expire | three reads without a snapshot; a fill that overtakes an invalidation; settings cached before their commit | a wrong entry has a known cause and heals; no sale is lost to a failing cache |
| Orders | status, payment, deposit, cash receipt, version | merchant update, gateway callback, courier callback, label booking, expiry sweep | five writers, whole-row writes of an older copy, a batch transaction | closed stays closed; payments and receipts are not overwritten; late money is flagged |
| Order stock | stock, debit manifest, restocked stamp | debit at checkout, restock | restock guarded by a stamp on a copy; fails open | stock returned once; stamp tells the truth |
| Shipments | parcel state | booking, courier events | events out of order | courier events never revive an order |
| Refunds | refund rows, the order's payment status | create, approve, reject, process, close the order | reviews without a lock; a gateway called inside the transaction that records it | refunds fit what was collected; every payout is recorded or known to be lost |
| Subscriptions | tenant lifecycle, payment intents, receipts | trial, pay, activate, renew, dun, cancel, lapse, purge | sweep, purge, upload and review write copies read before a slow wait | a paying tenant is not locked out; one payment buys one period; grace is whole |
| Outgoing webhooks | delivery logs, subscriptions | dispatch, attempt, retry, claim, switch off, purge | first attempt before the commit, lapsing lease, whole-row writes of a copy | no event is lost, endpoints are given up on honestly, a queue empties |
| Order payment proofs, gift cards, coupons, app billing, conversion outbox, scheduled sends, recovery flows | – | – | variants of the protocols above | see `PROJECT.json` |
| Event bus | pending events | publish, dispatch after commit | worker lost between commit and dispatch | no event of a rolled-back transaction |
| Tenancy, authentication, entitlements, themes, invoices, analytics, imports, notifications | – | – | mostly data, no protocol | covered by the repository's own tests |

`PROJECT.json` lists each of them with its sources and status, and under `hazards`
what is hard to test, at the line where it bites.

## 2. Plan

Built, in this order, the most important first:

1. `Wallet`, `WalletTopup`, `WalletLedger`: the money.
2. `OrderLifecycle`: orders, their stock and their five writers.
3. `SpendingLimit` and `Refunds`: what a budget promises, and the refunds of an order as
   an implementation of it.
4. `WebhookDelivery`: the retry queue.
5. `WalletGate`: the cached answer of the gate.
6. `Subscription`: the plan of a tenant.

The components meet in their environment actions: `OrderPaid` and `OrderCloses` of
`WalletLedger` are what `OrderLifecycle` does, `CloseOrder` of `Refunds` is its refund,
`CommitRows` of `WalletGate` is any debit, credit or plan change of the other modules, and
`TenantLapses` of `WalletTopup` is `TrialExpires` of `Subscription`. They are kept apart
because they share no row that both sides write under a different protocol.

Open, should the project grow: stock per line; a composition of checkout with coupons and
stock.

## 3. Modules

One action is one database transaction, or the part of a request between two points
where another request can intervene. A read without a lock and the write that relies
on it are two actions; what is done between `FOR UPDATE` and the commit is one.
A rolled-back request changes no row, and is an action only because it frees the
request. Definitions whose comment starts with "Fault:" are not part of any
specification; they are what the mutation runs put in the place of the next definition.
The theorems about a module `M` are in `M_proofs`; `SumTheorems` holds the lemmas about sums
over finite sets that three of them use.

### Wallet
The `merchant_wallets` row and the pure operations of `WalletService` on it: warning
level, ladder, adding and releasing a hold (floored at zero).

### WalletTopup
One tenant's top-ups. `intent`, `proof`, `wallet`, `ledger` are the tables; `sub` and
`rev` are receipt uploads and reviews between their first read and their write;
`nonce`, `hook`, `acked`, `charge` are the platform gateway's callback with its Redis
replay key and what the gateway knows.

| Code | Actions |
|---|---|
| `CreateTopupUseCase` | `_create_card`, `_create_manual` |
| `expire_wallet_topups_task` | `WindowCloses` (time), `expire_wallet_topups` |
| `SubmitTopupProofUseCase.execute` | `CheckSubmission` (unlocked checks), `EvaluateAutoApproval` (after upload and OCR, with the daily count read then), `StoreProof` (insert, then credit or queue under the lock), `SubmissionFails` |
| `ReviewTopupProofUseCase` | `LoadProof`, `approve`, `reject`, `ReviewFails` |
| `kashier_platform_callback` | `TakeNonce`, `RejectDuplicate`, `NonceRefused` (a failing Redis reads as a key already taken), `Settle`, `CallbackRaises`, `WorkerCrashes` (or a refused release of the key), `NonceExpires` |
| `credit_topup_intent`, `apply_entry` | operators used by the three above |
| `update_wallet_config`, `trial_expiry_task` | `update_wallet_config`, `TenantLapses` |

Abstracted: an image and its transaction reference are one receipt; OCR and the
thresholds of `evaluate()` can always send a receipt to review, so only the rules that
forbid an approval on shared state (window, daily count) are guards; the daily amount
cap behaves as the count. The Paymob callback is the same machine.

### WalletLedger
Everyone who writes the ledger, with the copy of the wallet each session holds. The
point is in `get_or_create_wallet`: its `FOR UPDATE` query has no
`populate_existing`, so a session that already holds the wallet object gets the lock
and its old attributes. `HandlerReads` and `ReconReads` take the copy, `HandlerCharges`
and `ReconCharges` compute from it; `CreditApplied` (top-ups and `adjust_wallet`) reads
under the lock. Pass 2 is `ReconScans` and `ReconHeals`; whether the session still
holds the object of pass 1 is left open (`held`). `OrderPaid`, `OrderCloses`,
`LookbackCloses`, `OrderAges` are the order and the calendar as the two queries see them.
An order that is refunded after payment leaves the missed query and is not modelled.

### OrderLifecycle
`row` is the orders table, `held` the stock an order has taken out and not put back,
`parcel` its latest shipment, `session` the requests in flight with the copy of the
order each one read, `sweep` the expiry task with the rows it scanned. `get_by_id` and
`update` are the two halves of every handler; what a handler does with its copy is given
by operators named after the code: `MerchantAccepts`/`MerchantUpdates`
(`UpdateOrderStatusUseCase` and the entity's methods), `GatewayAccepts`/`GatewayUpdates`
(Paymob callback; Kashier and Fawaterak have the same shape), `CourierUpdates` (J&T),
and the automatic booking. A courier callback whose order sync raises commits the shipment
alone (`OrderSyncFails`); one that moves the order publishes the change as the dashboard does,
and may so start a booking (`Announces`). `SweepScans`, `SweepCommits`, `SweepFails` are
`expire_pending_deposit_orders_task`.

Why the copy matters: `OrderRepository.update` loads the row again before writing every
column of the entity. SQLAlchemy's version check therefore compares with the reloaded
version, not with the one the entity was read at. Handlers that find the order with
`get_by_payment_id_for_update` or `get_by_tracking_number_for_update` hold the row lock
meanwhile and are safe; those that use `get_by_id` are not. `LockedLookup` chooses between
the two for the gateways: the locked one is what Fawry (`fawry.py:118`) does, and J&T always;
Paymob (`paymob.py:87`), Kashier (`kashier.py:216`), Fawaterak (`fawaterak.py:53`) and Moyasar
(`moyasar.py:136`) look the order up by id first, unlocked, and by payment id, locked, only if
that finds nothing. The sweep keeps its ORM
objects alive, so its version check covers the whole task. `update()`'s reload and flush
are one step: a commit between them is a `StaleDataError`, i.e. `RequestFails`.

### SpendingLimit
The abstract specification of a budget: `Raise` a claim within what is left, `Drop` one
that is not settled, `Settle` one for good. It knows nothing of rows, locks or gateways.

### Refunds
The refunds of one paid order. `refund` and `order` are the rows; `create`, `review` and
`process` the requests in flight; `payouts` what the gateway really paid, `doubt` the
payouts whose record was lost, `revived` the refunds that were completed or rejected until a
review that had read them before was saved over it.

| Code | Actions |
|---|---|
| `CreateRefundUseCase` | `CheckOrder` (order read without a lock), `CreateRefund` (from the lock on the order to the insert), `CreateFails` |
| `ApproveRefundUseCase`, `RejectRefundUseCase` | `ReadForReview` (without a lock), `SaveReview` (`update()`, which reloads the row and writes what differs) |
| `ProcessRefundUseCase` | `StartProcessing` (row lock, held to the end), `ProviderPays`, `ProviderDeclines`, `AnswerLost`, `ProcessByHand`, `RecordFailure`, `MarkOrder`, `LoadOrder`, `CompleteRefund`, `VersionConflict`, `ProcessCrashes` |
| `Order.refund` by callback or merchant | `ReadToClose`, `CloseOrder` |

The status `processing` is flushed but never committed before the gateway has answered, so
no other session sees it and it is not a state of the row. `Budget` maps a refund that is
not rejected to a standing claim and a completed one to a settled claim.

### WebhookDelivery
`log` and `sub` are the tables, `attempt` the running `_attempt_delivery` coroutines with
the copy each writes back, `batch` what a beat worker has claimed. `posts`, `taken`,
`refused` record what happened at the endpoint, whatever was saved.

| Code | Actions |
|---|---|
| `dispatch` and the handler's commit | `Dispatch` (the first attempt is created before the commit), `CommitDispatch`, `DispatchLost` |
| `_attempt_delivery` | `StartAttempt`, `EndpointTakes` (answer heard or lost), `EndpointFails`, `EndpointGone`, `SaveAttempt`, `DeactivateAndNotify`, `AttemptLost` |
| `retry_pending_deliveries` | `Claim`, `StartRetry`, `SkipRetry`, `PollerLost`; `ComesDue` is the clock |
| purge, routes | `Purge`, `UpdateSubscription` |

`update()` writes every column of the copy, so a late attempt overwrites an earlier one.
The rows of an inactive subscription stay pending and are claimed again every lease.

### WalletGate
`db` holds the committed tenant, settings and wallet rows as far as the gate reads them,
`entry` the shared cache entry, `settings` each process's own settings cache, `draft` an
update flushed and not committed. A checkout is `HitCache`, or `MissCache`, `ReadTenant`,
`ReadSettings`, `ReadWallet`, `FillCache`, or `FailOpen` at any of these. A cache that fails
with a `RedisError` is a miss on lookup and a fill that did or did not arrive, and the answer
stands; with anything else the answer is ok, whatever was computed (`LookupFails`, `FailOpen`
at the fill). `CommitRows` stands
for every writer that drops the entry after its commit (`invalidate_cache`, or
`InvalidationLost`); settings are changed by `UpdateSettings`, then `CommitSettings` or
`RollbackSettings`, and nothing drops the entry then. The ghosts `missed` and `mixed` say
why an entry may be wrong. The trial expiry never drops the entry: that is
`InvalidationLost` too.

### Subscription
One tenant, its payment intents and receipts. `sweep`, `expiry`, `purge`, `request` and
`review` are the jobs that wait between their read and their write, each with its copy; `hook`
is the card payment of an intent with its replay key, the delivery at work and what Kashier has
heard. `Write` models the ORM's flush: only the columns that differ from the loaded copy are
written, over whatever the row is by then. Days are integers; an intent's one-hour window is
over on the next day.

| Code | Actions |
|---|---|
| `subscription_renewal_task` | `SelectDue`, `LoadDue` (the refresh), `SkipFree` and `CommitFree` (a free plan is written by a later commit of the batch), `CardCharged`, `ChargeFailed`, `CommitPaid`, `CommitFailed` (dunning, read-only when exhausted), `SweepEnds` (rollback or lost batch) |
| `trial_expiry_task` | `find_expired_trials`, `TrialExpires` (the flush, without a second test), `ExpiryFails` |
| `read_only_purge_task` | `find_purgeable_read_only`, `PurgeTenant`, `PurgeFails` |
| `CreateSubscriptionPaymentIntentUseCase`, expiry task | `CreateIntent` (supersedes an open one), `ExpireIntent` |
| `activate_verified_subscription_payment` | operator `Activate`, used by the next three |
| receipt upload | `StartUpload`, `AutoApprove`, `QueueForReview`, `RequestFails` |
| admin review | `StartReview`, `Approve`, `ApproveReplay`, `Reject`, `ReviewFails` |
| Kashier platform callback | `PayCard` (external; of the intent's amount or another), `TakeNonce`, `RejectDuplicate` (answers 200 while the key is there), `NonceRefused` (Redis fails: also 200), `SettleSubscription`, `SettleNothing` (already succeeded, other amount, intent gone), `CallbackRaises` (releases the key), `WorkerLost` (leaves it), `NonceExpires` |
| `SubscribeUseCase`, cancel, Pay as you Grow, card | `StartSubscribe`, `Subscribe`, `CancelSubscription`, `ChoosePayg`, `SaveCard`, `RemoveCard` |
| staff operations | `ExtendTrial`, `PauseBilling` |

The ghosts name what a property makes an exception for: `overtaken` (a stale copy was written
over the tenant), `contested` (two requests worked on this intent at once), `reopened` (a
rejection set it back after it had succeeded), `abandoned` (a report that was acknowledged, or
will be, without being applied: a lost worker's replay key, a failing Redis, or a delivery that
failed after its retry had been answered as a duplicate).

Abstracted: the two kinds of card token are one; short requests are one step; one slow
merchant request and one review at a time. A declined card attempt is a transaction of its own
whose report changes no row. The trial expiry is a batch of queries without an external call, so
it ends on the day it began (`Tick` waits for it); the other jobs may stretch over days.

## 4. Runs

| Run | Instance | Shows |
|---|---|---|
| `topup_manual` | 2 manual intents of different amounts, 3 receipts, 2 uploads, 2 reviewers, one expirable intent, 1 status edit, daily cap 1 | credited once; approved is credited; the hold never exceeds what is under review; the cap is overshot by at most the other uploads in flight; succeeded is final |
| `topup_card` | 1 card intent, 2 charges, 1 crash or Redis failure, 1 fault, 2 status edits, fairness | succeeded iff credited; a paid charge is credited |
| `ledger_races` | 1 partly collected order, 2 handlers, a top-up, a negative adjustment, 1 status edit, fairness | one commission per order; only a writer with an outdated copy makes the balance drift; drift heals; paid is charged within the window |
| `order_serial` | 1 order, 1 request at a time, every method, status, outcome, event | the handlers' own logic: stamp matches stock, closed stays closed |
| `order_protected` | 1 order, 2 requests, 3 charges, the sweep, cash receipts; callbacks with locked lookup | against the sweep and cash edits: live orders keep their stock, closed stays closed, payments are not overwritten, late money is flagged, cash receipts stay |
| `order_expiry` | 2 orders, 1 request, the sweep, fairness | an expired order is paid or cancelled in the end |
| `order_revived` | card order, unlocked lookup, the sweep | violated: a callback that read first revives a cancelled order |
| `refunds` | 2 refunds of an order of 2, 2 creators, 2 reviewers, 2 processors, 2 faults | what stands fits what was collected; payouts are accounted for; an order that gave everything back is marked refunded unless two settlements overlapped; `SpendingLimit` is implemented; each up to a review saved over a settlement |
| `webhooks` | 1 event, 2 attempts, 1 poller, ladder of 2, 1 lost process, fairness | honest giving up; nothing is lost; the ladder and the success hold unless attempts overlap; the queue empties |
| `wallet_gate` | 2 processes, 2 tenant rows, 2 settings, 2 wallet rows, 2 changes, fairness | a stale entry has a cause; a refusal has a cause; the gate heals |
| `subscription` | 1 InstaPay and 1 card intent, 1 receipt, days 0 to 2, trial 1, period 2, grace 1, dunning window 2, 1 change of mind or callback fault, 2 jobs at a time | grace is whole; paid time is kept; an acknowledged card payment was applied or has a named reason; a second activation and a deletion have a cause |
| `subscription_activated_twice` | InstaPay intents and receipts, an upload against a review | violated: one payment activates twice |

Bounds. Two actors on one row is what every race here needs; two intents of different
amounts are needed to see a hold released for the wrong intent, three receipts to have a
rejected, a queued and an approved one at once; two charges to have a decline after a
success; three for success, success after cancel and void. `MaxVersion` bounds how often
a row is written before requests stop (six in the safety runs: enough for placed, paid,
shipped, delivered, cash, refunded). Two refunds of an order of two
units compete for the same balance, with two requests that create them, and each can be retried,
rejected or revived beside the other. A ladder of two has a first, a last and
a retry that must not happen; two attempts of one log are what a lapsed lease gives. Two
changes at the gate are a change and its reversal under one computation. Days 0 to 2 with a
trial and a grace of one and a period and a dunning window of two let a tenant be dunned, exhaust its dunning, be
cancelled, pay and lapse again, or be purged; two jobs at a time give every pair of sweep,
expiry, purge, request, review and callback. The proofs cover every length and any number. `MaxCrashes`, `MaxFaults`,
`MaxConfigEdits`, `MaxChanges`, `MaxNow` count injected events and days. In `order_protected` every request
locks the one order, so a second callback waits for the first: what really runs side by side
there is a callback, the sweep and the cash edits. The same properties were checked once with two
orders (2.2 million states) and hold; two unlocked requests on one order are the subject of
`order_revived`. Deadlock is checked
in `wallet_gate`; elsewhere it is off, because with the bounds used up every party may stop
(and a purged tenant has no future). Symmetry (interchangeable receipts, requests, charges,
refunds) is used only in runs without liveness properties.

Each module has one type invariant; those of `Refunds`, `WebhookDelivery` and `WalletGate`
are proved and were checked with TLC while the proofs were written, and no run repeats them.

Fairness.
- Top-ups: a running callback ends, and the gateway delivers again until it reads a 2xx
  (weak fairness). `PaidIsCredited` assumes that deliveries of a charge do not overlap, that
  the wallet does not stay suspended, that no worker is killed mid-callback, since a
  leftover replay key (24 hours) outlives the gateway's retries, and that Redis does not fail a
  callback, which would be acknowledged as a duplicate.
- Ledger: beat starts the reconciliation nightly and not every run dies half-way (strong
  fairness, since `ReconDies` can interrupt any run). No fairness for the live handler:
  its event may be lost.
- Orders: beat starts the sweep every minute (weak); requests end (weak); a sweep that
  can commit again and again does (strong, since a concurrent commit rolls it back).
  `order_expiry` has one request at a time: the model commits the batch only when no order
  of it is locked, and two requests taking turns could keep that from ever being the case,
  while the code waits for the locks one by one.
- Webhooks: an attempt ends (`DELIVERY_TIMEOUT`; every tick turns the loop of its worker),
  the dispatching handler commits or fails, the clock advances, beat fires every minute
  (weak). `StartRetry` is strongly fair, since the merchant may switch the subscription off
  and on between two ticks.
- Gate: requests end, and both caches have a TTL (weak). No fairness for a successful drop:
  `InvalidationLost` satisfies it as well.
- Refunds and subscriptions have safety properties only: nothing in the code retries a
  refund by itself, and a renewal without a usable token is never attempted.

## 5. Where the code and its text disagree

Two have a violation run and an entry in `findings`:
- `order_revived`: a success callback that found its order by id, without a lock, writes an
  order the sweep has cancelled back to processing (`webhooks/paymob.py:87`).
- `subscription_activated_twice`: "can never activate twice"
  (`activate_instapay_subscription.py:5-7`) rests on a status guard over an unlocked read.

The following were seen in the models and are not kept as runs. The properties named stay
defined in the modules: put one in a configuration to see it violated.
- `HoldsMatchReview` (`submit_topup_proof.py:371`): an intent the sweep expired during the
  upload becomes under review without a hold, although "the merchant sees the amount
  immediately as ON HOLD".
- `PaidIsCredited` with `OverlapDeliveries` (`kashier_platform.py:133`): a retry that
  overlaps a failing delivery is answered "duplicate" and the paid top-up is never credited,
  although the nonce is released "and let the error answer 500 so Kashier retries".
- `BalanceMatchesLedger` (`wallet_commission_handler.py:73`): the locked read returns the
  object the session already held, so a credit committed in between is overwritten, until
  the reconciliation heals it (`DriftHeals`).
- `CommissionOnCollected` (`wallet_reconciliation_task.py:181`): the reconciliation charges
  on the total, the live handler "on what the merchant actually collected".
- `RestockedOnce` (`stock_service.py:337`): two unlocked cancellations restock twice,
  although the text says "exactly once".
- `OpenTotal <= Collectible`, and payouts without the exception for `revived`
  (`manage_refund.py:98`): a review that read the refund earlier moves a completed or rejected
  one back to approved, although both are marked terminal (`core/entities/refund.py:51`). Its
  amount may have been given to another refund by then, and its money goes out a second time.
  `SettledIsFinal` says that nothing else moves a settled refund.
- `ClaimedOnce` (`webhook_tasks.py:14-19`): the loop of a beat worker turns only during a
  tick, so an attempt outlives its lease and the log is claimed again, although the claim
  "keeps the next tick from re-selecting it while this attempt is still in flight"
  (`webhook_delivery_log_repository.py:71-76`).

Further effects of the same causes:
- two reviewers who loaded the same proof can approve and then reject it: the credit stays,
  the proof reads rejected (`review_topup_proof.py:58`, status read before the lock);
- two uploads decided at once can pass the daily cap (`submit_topup_proof.py:257`);
  `AutoApprovalOvershoot` bounds by how much;
- a wallet suspended between the handler's read and its lock is still debited;
- an order that stays unchargeable for `LOOKBACK_DAYS` is dropped, which is why
  `PaidIsCharged` has the window as a way out;
- a cash receipt, or a payment, recorded while a merchant's status update is in flight is
  undone by it, although `stores/orders.py:1853` bumps the version to prevent that;
- `mark_payment_failed` is unconditional, so a late decline erases a recorded payment;
  `PaymentNotOverwritten` allows it, since the handler was told so;
- a partly accepted order can never be marked refunded: the mark compares with the order
  total (`manage_refund.py:213`), the budget with what was collected (`create_refund.py:81`);
- the storefront need not open "within seconds" of a plan change (`billing.py:134-138`): a
  checkout that computed before it fills the old answer in for another TTL, and the TTLs of
  settings and gate add up;
- a rejection sets a plan intent to `awaiting_proof` whatever it is by then
  (`review_subscription_payment_proof.py:110`), so a succeeded one can be paid for again;
- a renewal of a tenant leaves `delete_at` set; `GraceIsWhole` shows it does no harm,
  because becoming read-only always sets it anew;
- a card payment for a plan can be acknowledged and never applied: another amount was paid
  (`kashier_platform.py:247-254`, logged), a killed worker left its replay key
  (`kashier_platform.py:128-136`), Redis failed while the key was taken (`redis_cache.py:138`
  reads as "already there"), or a delivery failed after its retry had been answered as a
  duplicate; `CardPaymentHonoured` shows that there is no other way;
- the trial expiry makes a tenant read-only that paid after the batch was selected
  (`trial_expiry_task.py:47`, no second test); `PaidTimeKept` has it among the overtaken rows;
- the purge deletes a tenant that paid after it was picked (`read_only_purge_task.py:53`);
  `DeletedHasCause` shows this is the only way.

## 6. Proofs

`SumTheorems` proves what the other modules need of `SumFunctionOnSet` and `SumFunction`: a
sum over a finite set of integers (naturals) is one; the sum over the empty set is 0; taking
out, adding or updating one element changes the sum by that element; sums of functions that
agree, or of which one is below the other, compare accordingly. The library defines the sum as a
fold that takes elements out by `CHOOSE`, so even these need induction on the set. The
induction theorems with an operator parameter cannot be used here, but their content can: the
finite subsets on which a fact fails form a set, strict inclusion is well-founded on it
(`FS_StrictSubsetOrderingWellFounded`), so if it is not empty it has a smallest member
(`SmallestSet`), and taking one element out of that gives a smaller one: a contradiction.
Existence of the fold's recursive function is proved the same way (`FoldsExists`).

`WalletTopup_proofs` proves, for every number of intents, receipts, charges, uploads,
reviewers and every bound, under `TopupAssumption` and `WalletAssumption`:
type correctness (`TypeCorrect`), one credit per intent (`CreditOnlyOnce`), succeeded iff
on the ledger (`SuccessIsOnLedger`), approved implies credited (`ApprovalIsCredited`),
that succeeded is final (`SuccessIsFinal`), that no more is on hold than is under review
(`HoldIsBounded`), and, for a finite non-empty set of uploads, by how much the daily cap can
be passed (`OvershootIsBounded`).

The inductive invariant `IInv` is the conjunction of `TypeOK`, `ReviewsStored` (a loaded
review refers to a stored proof), `HooksCharged` (a running callback refers to a charge),
`KeysOwned` (every ledger row's key belongs to its intent: a receipt's row to the proof's
intent, a charge's row to the charge's), and the three invariants. `KeysOwned` is what
carries the argument: `apply_entry` treats a known key as already applied and the caller
then marks the intent succeeded without a new row, which is only right because a known
key's row is that intent's row. The lemma `LedgerGrows` (the ledger is append-only) turns
the invariant into the action property.

`HoldIsBounded` adds to `IInv` that the intents under review are finitely many (`HoldInv`).
Every action that ends a review releases the amount of that intent, floored at zero, and every
one that starts a review adds at most its amount, so the bound is kept by `SumTakeOut` and
`SumAdd`; equality is not kept (`HoldsMatchReview`, section 5). `OvershootIsBounded` counts
what is stored together with what is decided: the automatic approvals plus the uploads that have
decided to approve (`OvershootInv`). An upload decides only when the stored ones are below the
cap, and at most the others have decided by then.

`WalletLedger_proofs` proves, for every finite set of orders and any number of handlers and
repeated events, one commission per order (`OneCommissionOnly`), type correctness
(`LedgerTypeCorrect`) and that drift needs an outdated copy (`DriftIsStale`). The first
invariant is inductive as it stands: both writers test for an existing commission row in the
step that inserts theirs (the wallet lock and the unique key make it one step), which the lemma
`ChargeUncharged` isolates. It holds although the copy of the wallet they compute with may be
outdated. `TypeInv` adds that the ledger is finite, which makes its sum an integer: a commission
is one new row (`RowAdded`), a reconciliation a batch of rows with distinct orders
(`BatchAdded`). `DriftIsStale` compares, action by action (`HandlerEffect`, `ReconEffect`,
`CreditEffect`), what is added to the balance with what is added to the sum; they are the same
unless the writer's own copy is outdated (`FreshKeepsBalance`).

`OrderLifecycle_proofs` proves type correctness (`TypeCorrect`) in every configuration,
and six properties under `Protected`: callbacks find the order by payment id or tracking
number, with the row lock, and neither the merchant's updates nor the automatic booking,
which use the unlocked `get_by_id`, run. That is the premise the run `order_revived`
shows to be needed. The sweep and the cash receipts, which do not
lock on reading, stay in. The inductive invariant `Safe` adds to `TypeOK` and
`StampMatchesStock`:
- `GatewayOrders`: a callback in flight carries a reported transaction of its order;
- `SessionsCurrent`: a request in flight is alone on its order and its copy is the row,
  which is what the lock buys;
- `SweepBehind`: a scanned row was unpaid, has no newer version than the row, and is the
  row as long as the versions agree, which is what the version check buys;
- `StatusSound`: stock is back only for closed or delivered orders.

Every step is then shown `Lawful` for every order (`UpdateLawful`, `CashLawful`,
`SweepLawful`: how status, stamp, stock and version may move), and the theorems follow from
lawfulness: `StampIsTrue`, `LiveStockIsOut`, `ClosedIsFinal`, `PaymentIsKept`,
`LateMoneyIsSeen`, `CashIsKept`. What the handlers do with a copy is in `GatewayMoves` and
`CourierMoves`, one case per outcome and event.

Four of the six are proved again under `Serial`, the premise of `order_serial`: one request at
a time, no sweep, no premise on locks, and the whole of what merchant, gateway, courier and
booking can ask for (`StampIsTrueAlone`, `ClosedIsFinalAlone`, `PaymentIsKeptAlone`,
`LateMoneyIsSeenAlone`). Cash receipts still come in between, so a copy is not the row. The
invariant `Alone` says what is left: the copy agrees with the row in status, payment and stamp
(`CopiesAgree`), no sweep runs, and the stamp matches the stock. `MerchantKeeps` and
`HandlerKeeps` are the handlers' share: none writes the stamp by itself, moves a closed order or
restocks without saving. `CashReceiptKept` is false in this configuration, by the stale copy of
the receipt (section 5), and `LiveOrderKeepsStock` too, since a merchant may set a delivered
order whose parcel came back to pending. Together the two configurations say that the
handlers are right one by one, and that the row lock is what keeps them right side by side.

`Refunds_proofs` assumes `RefundsAssumption` only; any number of requests may review one refund
at once. It proves type correctness, `PayoutsAreAccounted` for the refunds no late review took
back, and the refinement `RefundsAreBudgeted`: as long as `revived` is empty, every step is a
step of `SpendingLimit` or a stutter under the mapping `Budget`. The inductive invariant adds
`AmountsFit` (a row has an amount from 1 to what was collected exactly when it was created),
`ReviewsHold` (a refund under review was created) and `LocksHold` (a processed refund is
approved or failed, and has one processor). The sum of the standing amounts appears on both
sides of the refinement as one term, so no fact about sums is needed there. `OpenIsCollected`
needs them and also holds after a revival: a new refund fits what all that stand leave
(`CreateFits`), and every other step lets the amount of a refund outside `revived` stand or fall
away (`KeptShrinks`, by `SumMonotone`). `SettledForGood` (the action property `SettledIsFinal`)
says who can move a completed or rejected refund at all: the save of a review that holds it, and
none of the other steps, because a payout in flight holds a refund that is not settled
(`LocksHold`).

`UnmarkedIsOverlap`, for an order of a positive total, needs more: what the completed refunds
add up to is compared with the total by a processor that reads the sum, then loads the order,
then saves. `MarkInv`, which holds until two settlements overlap, consists of `OneSettles` (at
most one processor is past its sum), `CopiesMarked` (the order it loaded carries the mark its
sum asks for), `BasesKept` (a mark it read when it loaded the order is still on the row) and `OrderMarked` (the property).

`WebhookDelivery_proofs` proves five properties for any number of logs, attempts and pollers.
`RowsHonest` and `AttemptsHonest` carry the argument: the count in a row, and the one in an
attempt's copy, never exceed the posts that were really made (counting the attempt's own),
so a stale write can lower a count but never give up early. `Undisturbed` is its
counterpart for a log that was never claimed while held: one holder, whose copy is current,
and from it `LadderHolds` and `DeliveredIsFinal` follow.

`WalletGate_proofs` proves type correctness, `StaleAlwaysHasCause` and `RefusalsHaveCause`
for any sets of processes and rows. The strengthening is `ReadsCurrent`: what a checkout has
read and computed so far is what the rows say, unless it is marked as overtaken.

`Subscription_proofs` proves six properties for every length of trial, period, grace,
back-off and window and any intents and receipts. Its invariant adds to the properties:
`Dated` (no purge deadline, in the row or in a copy, lies beyond a grace from now, and no copy's
is later than the row's), `Picked` (the purge holds a copy that was read-only and past its
deadline), `Due` (the sweep's copy was due, unless it is marked stale), `Covered`
(`PaidTimeKept` extended to tenants on trial), `Linked` (receipts, uploads and reviews refer
to existing intents), `Applied` (an intent that reads succeeded was applied; one that was
applied reads succeeded, unless it is contested or reopened) and `Honoured` (a replay key is as
good as an acknowledgement, since the next delivery will be answered as a duplicate: either
means the payment was applied, is at work, or is excused). The invariant was checked with TLC
before it was proved.

Only model-checked: the properties with fairness (`PaidIsCredited`, `DriftHeals`,
`PaidIsCharged`, `ExpiredOrderEnds`, `EventuallySettled`, `GateHeals`), which are out of the
prover's reach. Every invariant and every other action property of the passing runs is a
theorem, for every value of the constants under the assumptions of its module: `IsFiniteSet` of
`Orders` (`WalletLedger`) and of `Refunds` is there because a sum over an infinite set means
nothing.

## 7. Not modelled

Section 1 and `PROJECT.json` list the components with the reason for each. The repository
is mostly request handlers over data (catalogue, themes, analytics, imports, storefront
rendering, notifications), which a model of state and interleavings has nothing to say
about; what was chosen are the protocols on money, stock, delivery and tenant life.

Within the modelled components:
- top-ups: first creation of the wallet row, notifications, the lead milestone;
- orders: transaction and invoice records of a payment, partial acceptance, bulk actions, a
  sweep batch smaller than the set of expired orders, an order refunded after payment in
  `WalletLedger`;
- refunds: what the process route does after the refund is saved, in further writes of its own
  (the restock option and the reputation report, `refunds.py:295-342`);
- webhooks: test deliveries, secret rotation, the inventory window, the entitlement filter;
- subscriptions: WhatsApp add-on intents, discount codes, warning e-mails, invoice
  documents and their refunds, the developer plan (always refused), several tenants in one
  batch. A renewal charge whose answer was lost is retried under another reference and may be
  charged twice (`subscription_renewal_task.py:193`); no state of the code records the first
  charge, so no property speaks of it.
