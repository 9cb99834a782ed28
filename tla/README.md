# Payment gateway backend: formal model

TLA+ specifications of this backend, first the parts that move money, then the
parts around them, the TLC configurations that check them on small instances,
and TLAPS proofs of what matters most for instances of any size. The code is the reference: each
definition translates the lines that `PROJECT.json` ("map") names for it.

## 1. The system

A Django application (REST views, services, repositories), PostgreSQL, Redis as
cache, and Celery workers with a broker and a beat process. Django runs in
autocommit mode: only what stands inside `transaction.atomic()` is one
transaction, and every other statement commits by itself. Celery acknowledges a
message when a worker takes it (no `acks_late`), so a worker that dies loses it.

| Component | State it keeps | Operations | Hard behaviour | Correct when |
|---|---|---|---|---|
| Digital wallet (`apps/wallet`) | wallet row (status, balance), `wallet_transactions` rows, row locks | get_or_create, credit, debit, freeze, unfreeze | concurrent debits; a freeze that read the row before a debit commits; column overflow; rollback | balances stay in range, the ledger accounts for every change, a frozen wallet does not move, a movement looks atomic |
| Orders (`apps/orders`) | order status, `OrderEvent` rows | create, cancel, expire, auto-expiry task | validated status is saved later, unlocked; batch without a transaction | status follows the transition table; PAID only with a captured payment |
| Payments (`apps/payments`) | payment status, `PaymentLedger` rows, the gateway's own books | create, capture, void | gateway is called outside the transaction; nothing is locked; the worker may die in between | ledger, row, order and gateway agree; FAILED is final |
| Refunds (`apps/refunds`) | refund rows, dead letter records, messages, the Redis lock of a payment | create_refund, process_refund_task, reconcile_refunds_task | retries, duplicates, expiry of the lock, lost messages, check-then-act on the total | never more than the payment, settled once, nothing dropped |
| Idempotency keys (`apps/common/decorators`) | one cache entry per key | the decorator around pay, capture, void, refund | get and set are two commands; 30-second PROCESSING entries; views that fail late | one effect per key, the right response, no key locked for ever |
| Webhooks and outbox (`apps/webhooks`) | endpoints, outbox rows, events, deliveries, task messages | endpoint calls, publish, fan-out task, delivery task, replay | a fan-out that dies half-way; parallel fan-outs; an endpoint read before a slow POST and saved after it | a row marked processed has reached every endpoint; statuses are earned; a deletion or a new secret stays |
| Notifications (`apps/notifications`, mail tasks of `apps/accounts`) | notification rows, messages | handle_event, send task, manual retry | mail sent and status not saved; a worker that dies | status tells what happened, nothing dropped unnoticed |
| Accounts (`apps/accounts`) | user row; code, attempt counter and reset token in Redis; session | register, verify, resend, reset, profile, login, refresh, logout | counter read and written by two commands; keys that expire; the profile saves a whole stale row | a code cannot be guessed at will, its owner is not locked out, what is verified stays so |
| Coupons (`apps/analytics`) | one row with used_count | create, validate, apply, update, delete | increments in memory; a whole stale row saved | usage_limit respected, the discount within its bounds |
| Merchants, API keys (`apps/merchant`) | profile, keys, webhook secret and configurations | get_or_create, patch, generate, revoke, rotate | create races; a key saved by every request that uses it | a revoked key stays revoked; what was asked for is stored |
| Customers (`apps/customer`) | customers, payment methods | create, update, soft-delete, add a method | unique constraint against a check; two statements for one default | one customer per address, one default |
| Requests (`apps/common`, `apps/audit_logs`) | correlation ID of a thread, audit rows | middlewares, exception handler, health views | thread-local state that outlives a request; a backend that fails | every answer and audit row carries its own request's ID |
| Analytics, invoices (`apps/analytics`) | cached figures, invoices | views, summary tasks, create_invoice | queries one by one while payments are recorded; a cache filled by a slow reader after an invalidation | figures that fit together |

How they interact: a refund of a wallet payment calls `WalletService.credit_wallet`
inside its own transaction; payments write the status of their order inside the
recording transaction; the refund task writes the payment's status;
`create_refund` sends the task message after its insert has committed; the
idempotency decorator wraps the payment and refund views; a payment through the
wallet adapter debits the wallet in a transaction of its own before it is
recorded; analytics reads orders, payments and refunds. Webhooks and
notifications are reached only from their own endpoints and from tests: no
payment or refund code publishes an event or handles one, and
`apply_coupon` is called by its own view only.

## 2. Modules

| Module | Models | Used with |
|---|---|---|
| `WalletAccount` | the abstract account: open, move, set status, each one step | implemented by `Wallet` |
| `Wallet` | wallet service calls as threads with row locks and transactions | `MCWallet`, `WalletProofs` |
| `Payments` | orders, payments and the auto-expiry task | `MCPayments`, `PaymentsProofs` |
| `RefundPromise` | the abstract promise: accept within what is left, then pay once or fail | implemented by `Refunds` |
| `Refunds` | create_refund, the task, its lock and retries, reconcile | `MCRefunds`, `RefundProofs` |
| `Idempotency` | the decorator and its cache entry | `MCIdempotency`, `IdempotencyProofs` |
| `Checkout` | wallet, gateway adapters, payments and refunds together: where the money is | `MCPlatform`, `CheckoutProofs` |
| `Reports` (extends `Checkout`) | cached views, reports, reconciliation, summaries, invoices over these books | `MCPlatform`, `MCReports`, `CheckoutProofs` |
| `Webhooks` | endpoints, outbox, fan-out and delivery tasks | `MCPlatform`, `WebhookProofs` |
| `Notifications` | notification rows and their task, account mails | `MCPlatform`, `WebhookProofs` |
| `Accounts` | one account: code, counter, token, password, profile, session | `MCPlatform`, `PlatformProofs` |
| `Coupons` | one coupon, its users and its editors, the discount | `MCPlatform`, `CheckoutProofs` |
| `Merchants` | profiles, API keys, webhook secret and configurations | `MCPlatform`, `PlatformProofs` |
| `Customers` | customers and payment methods of one merchant | `MCPlatform`, `PlatformProofs` |
| `Requests` | middlewares, exception handler, health views, audit log | `MCPlatform`, `PlatformProofs` |
| `Platform` | the parts from `Webhooks` to `Requests` and `Reports` side by side, and the properties that join theirs | `MCPlatform`, `PlatformProofs` |
| `SumProofs` | lemmas on sums over finite sets, for `RefundProofs` and `CheckoutProofs` | - |

Conventions. A thread of control has a `pc`; between two values of `pc` lies
exactly the code between two points at which others can see or change what it
uses: a database commit, a cache command, a call of the gateway, a message. A
transaction's writes are one step, its commit, because nobody sees them before;
its locks are explicit in `Wallet`, where they matter. Operators introduced by
"Variant:" are changed forms of the definition after them; no specification uses
them, they serve to see that each property notices the bug it is about.

**Wallet.** `row` is the committed row, `ledger` the committed
`WalletTransaction` rows, `lockedBy` the holder of the row lock, `seen` the row
as the thread read it. `LockRow` is `SELECT ... FOR UPDATE`; `SaveBalance` the
tests and the uncommitted UPDATE; `Commit` the INSERT and the commit; `Rollback`
any exception or lost connection. `Select` and `SaveStatus` are the two halves of
freeze and unfreeze, the second of which waits for a lock but does not re-read.

**Payments.** `order`, `events`, `payment`, `ledger` are rows; `gateway[p]` is
everything the gateway did for p, which no rollback undoes. `create_payment` is
accept, `Charge`, `RecordPayment`; capture and void are `ReadPayment`,
`CallGateway` or `GatewayDeclines`, `RecordChange`. `SelectOverdue` and
`ExpireNext` are the sweep, order by order. The gateway answers as it likes
within what the bundled adapters answer. `overlapped` only records whether a
thread ever began while another was under way.

**Refunds.** One payment, because lock and totals are per payment.
`queue[r][k]` counts messages for refund r that are retry k; delays between
retries are left out (a message may wait any time). `Take` reads the status
before the lock, as the task does; `lock` remembers which worker set the key but
`Unlock` deletes it whoever did; `Expire` is its 30 seconds. The last transaction is
two steps: `SumRefunds` adds up, `Settle` saves the payment's status from that sum and
commits; in between, another refund of the payment may commit (READ COMMITTED),
and only a second task of the same refund waits for its row (`RowIsFree`). `Raises`
is every exception inside the try statement, for which the task has retries. What it
has nothing for is counted by `failures`: `DispatchFails`; `RedisFails`, where
cache.add is falsy with or without the key set, because IGNORE_EXCEPTIONS is on, and
costs a retry; `HandlerFails`, when the exception handler itself raises; `TaskDies`,
when the worker dies or a read before the try statement raises. `sent` is the
gateway's refund, `credits` the wallet's. RefundLedger and RefundEvent rows are left
out: they repeat the status.

**Idempotency.** One key. `entry` is the cache entry, which names the request
whose hash and response it holds; `executed` are the requests whose view took
effect. A view may raise, die or answer late (`MaxLate`, `MaxSlow`), or answer 500 or
more, which the decorator provides for although the views it guards answer 200 or
201 and let their errors raise.

**Checkout.** The composition of the engines. A sale (`create_payment`) keeps its
steps, because the wallet adapter debits the wallet in a transaction of its own
before the payment is recorded: `StartSale`, `ChargeSale` (the answers of each
bundled adapter), `StampSale` and `RecordSale`, or a death in between. A capture, a
void, a request for a refund and the last transaction of the refund task
(`PayBack`, `GiveUpReturn`) are one step each; how each of them interleaves with
its like is the business of `Payments`, `Refunds` and `Wallet`. `CloseOrder` is the save
of cancel_order, expire_order or the auto-expiry: what it validated may be
long past, so it may come over a PAID order.

**Reports.** A reader asks its queries one at a time, in the order of the code
(`DashboardQueries` and the like), and the books of `Checkout` may move between
two. `cache[k]` is what it stored, with how many summaries had run when it began.
Two reports stand for all of them: one on all payments, and one on those with a
status, which may gain and lose rows after the range has ended. The range ends
where the client says (`date_to`), in the past or in the future: `asOf`, chosen when
the report begins, has the sales that fall into it, those still to be made included.
`DailySummary` deletes the keys in `Invalidated`, which are not all there are:
charts of other lengths than the four that `invalidate_merchant_cache` lists stay.

**Webhooks.** `fanout[w]` is a run of `process_outbox_events_task`: the rows it read
(`Oldest`, at most `BatchSize`), the endpoints still to be served of the event at
hand, the delivery it has created and not yet sent. Each ORM statement and each
`delay` is a step, and `FanoutDies` may come between any two. `deliverer[w]` is a run
of `deliver_webhook_task` with the endpoint as it read it: the POST takes time, and
`TouchEndpoint` writes two columns only.

**Notifications.** `notice[n]` is the row; `mails` counts what has really been
mailed, which the row need not know. The tasks of account mails have no row.

**Accounts.** `otp`, `attempts`, `resetToken` are Redis keys; `CountWrongCode` reads the
counter and `SetAttempts` writes it. `call[c]` is a request; `guesses` and `lost` are
the history that the guarantees speak of. A PATCH of the profile saves the row
that authentication has read.

**Coupons.** `ValidateCoupon`, `RereadCoupon`, `SaveUse` are apply_coupon;
`ReadToUpdate` and `SaveUpdate` are update_coupon, which saves the whole row.
`Discount` is `_calculate_discount` on integers: cents, hundredths of a percent and
ROUND_HALF_UP as the code has it.

**Merchants, Customers.** A request is the sequence of its statements, and holds
the rows it has read. `TouchKey` is the `last_used_at` that a request by key saves.
The unique constraint on merchant and address covers soft-deleted rows, the
manager that looks them up hides them.

**Requests.** `correlation[t]` is the thread-local variable; a request is received,
viewed or failed, audited and answered by one thread, which then serves another.

## 3. Runs

| Run | Instance | Distinct states | Shows |
|---|---|---|---|
| `wallet` | 1 wallet, 4 calls, amounts 0..2, column 0..2 | 0.28 M | types and range, lock discipline, ledger chain, freeze, refinement of `WalletAccount`, termination |
| `payments` | 1 order, 2 payments, 3 other calls, 4 at a time, 1 crash | 2.0 M (symmetry) | agreement of order, payment, ledger and gateway; transitions until calls overlap; charges recorded unless somebody dies |
| `double_charge` (violation) | 2 payments, one call at a time | - | an order that is PROCESSING is charged again |
| `order_states` (violation) | one call at a time | - | capture and void disregard VALID_TRANSITIONS |
| `refunds` | 3 refunds of 0..2 out of 3, 2 workers, 1 retry, 1 failure, 1 expiry of a held lock | 1.0 M (symmetry) | never over-refunded, settled once, dead letters, payment status, lock, refinement of `RefundPromise` |
| `refunds_recover` | 2 refunds, 1 worker, overlapping requests, reconcile, 1 failure | 95 k | exceptions and retries drop nothing; a consumed queue settles every refund |
| `over_refund` (violation) | 2 overlapping requests of 2 out of 3 | - | both accepted |
| `refund_abandoned` (violation) | 2 refunds, 2 workers, the code's 3 retries, no fault | - | busy locks use up the retries; the refund stays CREATED |
| `idempotency` | 3 requests, 2 payloads, 1 slow view, 1 late failure | 34 k | responses are the right ones, keys are released, serial requests take effect once |
| `idempotency_race` (violation) | 2 requests | - | both executed |
| `platform` | twenty scenarios, see below | 0.19 M | everything around the payment core |
| `stale_dashboard` (violation) | 2 sales of one order, 1 reader | - | a cached dashboard outlives a sale |

Bounds, all named constants: `MaxBalance` 2 lets two credits overflow and two
debits overdraw; `Amounts` includes 0, which is refused. `MaxActive` 4 allows a
creation, a capture, a void and a close at a time; three threads on one row
already give every order of read and write. `MaxCrashes` 1: each crash leaves
the same kinds of debris. `MaxFailures` 1: one failure at any of the places
that `failures` counts, each of which can end a task or cost it a retry. `MaxRetries` is 3 in the code and 1 in the runs, where
0, "retry" and "last retry" are still different; `refund_abandoned` uses 3.
`MaxSlow`, `MaxLate`: 1 each, a second one repeats the first. `MaxCreators` 1 or
2: requests one by one or overlapping. `MaxDuplicates` bounds how many messages
reconcile leaves waiting for one refund; 0 switches it off. Symmetry is used only
where no liveness property is checked.

**The run `platform`.** The parts it checks share no state, so their product would
only multiply; one run takes them one at a time. `scenario` is chosen at first and
says which part is at work, the other parts rest; each scenario adds bounds on
the next state that are written where it is defined:

| Scenarios | Instance |
|---|---|
| `events`, `overlaps`, `endpoints` | two events for one endpoint, whose POSTs may fail; two for one that always answers, with two fan-outs that overlap; one event for two endpoints with a replay, a rotation, a deletion or a death. 1 retry (5 in the code): 0, "retry" and "last retry" differ |
| `mail` | one notice and one letter, two workers, 1 retry, 1 resend, 1 death, lost message or failing save |
| `codes`, `clash`, `passwords` | three codes, two of them resent, requests one by one; one code and two requests at a time; one reset token, the profile and the session |
| `coupons` | two shoppers and one editor on one coupon: percentages that round, caps of 0 and 1, limits of 1 and 2, a negative fixed value |
| `keys`, `profile`, `hooks` | two merchants and a customer, two requests at a time, one key; one profile and its secret; one webhook configuration |
| `addresses`, `methods` | two addresses in either case, two customers, two calls; one customer with two methods, a call that dies |
| `requests` | two requests on two threads, answers of 200, 400 and 503 (a degraded service, which is a success in the body), one backend that fails once, a killed process |
| `money` | two sales from the wallet or through another adapter, two refunds, a frozen wallet, one death |
| `dashboards`, `reports`, `reconciliation`, `summary`, `charts` | one or two readers while sales and refunds go on, and, for reconciliation, orders are closed; the summary racing with a reader |

Its properties join those of the parts that say the same of their part; the
conjuncts are named and explained in the modules:

| Property | Conjuncts (module) |
|---|---|
| `PlatformTypeOK` | the type invariant of each part |
| `OutboxIsFannedOut` | `ProcessedIsFannedOut`, `FannedOutOnce` (Webhooks): what is marked processed has reached every endpoint, whatever died; exactly once while nothing died or overlapped |
| `StatusTells` | `StatusIsEarned` (Webhooks), `StatusTellsMail`, `NoticeNotDropped` (Notifications) |
| `CodesAreGuarded` | `GuessesAreBounded`, `NotLockedOut` (Accounts) |
| `CouponPromise` | `UsesAreCounted`, `DiscountIsDue` (Coupons) |
| `MoneyIsAccounted` | (Checkout) wallet, sales and refunds balance, calls under way or dead included |
| `AnswersAreTrue` | `ReportsTell` (Reports, five parts), `RequestsAreTraced` (Requests), `CustomersAreDistinct` (Customers) |
| `RecordsAreKept` (action) | `AccountIsKept`, `KeysAreKept`, `MerchantIsServed`, `EndpointNeverReverts`, `CustomersAreKept`: no stale copy undoes what was stored |
| `GrantIsDue` (action) | (Coupons) a use is granted only within the limit |
| `TasksEnd` (liveness) | `EventIsProcessed`, `DeliveryEnds` (Webhooks): an event is fanned out, a delivery ends, with SUCCESS or its last retry, unless a task dies |

Each joined property has a mutant of one conjunct in `PROJECT.json`; the "Variant:"
definitions in the modules are the mutants of the others, and can be put in the
place of the definition after them in the same way. Deadlock is not checked in
this run: a scenario ends when its bounds are reached. `BatchSize` is 100, as in
the code, so no batch is ever cut off here; the proofs hold for every size.

Fairness. `Wallet`: weak fairness of each thread's steps, since a thread keeps
running and PostgreSQL hands a free row lock to a waiter; each call takes a lock
once, so a waiter is passed over finitely often. `Idempotency`: a request that has
arrived is handled and Redis drops keys.

For tasks it matters which queue they are sent to. The worker of docker-compose.yml
is `celery -A config worker`, without `-Q`: it consumes the default queue and no
other. `process_outbox_events_task` and `deliver_webhook_task` name no queue, so
`platform` assumes that they are run; nothing is assumed of an endpoint, a mail server
or a user. `process_refund_task` is sent to `refund_processing`,
`send_notification_task` to `notification_queue` and the analytics tasks to
`analytics_queue`, and no process of the repository consumes these. Hence no liveness is
claimed of notifications, and `FairSpec` of `Refunds` assumes only that a request and a
task that have begun run on; that somebody takes the messages is the hypothesis
of `EveryRefundSettles`, `QueueIsConsumed`, and a deployment has to provide it
(docs/deployment.md:13-14 and docs/production_readiness_review.md:74 speak of such
workers). Nor is any fairness assumed of `reconcile_refunds_task`: its docstring
calls it a "Celery Beat periodic task", but the repository has no beat schedule. So
nothing here promises that a refund left PROCESSING is ever looked at again.

No fairness is assumed of a choice between outcomes: a gateway may decline for ever.

## 4. Where a property holds only under a condition

The condition is written in the property, and outside it the property is false
of the code:

- `PaymentTransitionsValid`, `OnlyPendingExpires`: until two calls overlap. A
  capture and a void that both validated AUTHORIZED both write; the sweep (or
  expire_order) saves EXPIRED over an order paid since it was selected.
  docs/database_optimization.md:37 describes locks that the code does not take.
- `ChargesRecorded`: while nobody has died. A worker that dies between the
  gateway and the recording transaction leaves a charge without a payment row.
- `OneAtATime`: while the lock has not expired under its holder; when it has,
  the slow holder's `finally` deletes the key of the next one.
- `PaymentShowsRefunds`: that PARTIALLY_REFUNDED means that something is left, while
  the lock has not expired under its holder. When it has, a payment of 3 may be
  refunded 2 and 1: the task of the first has added up 2 and pauses, a refund of 1
  is requested, processed and committed as FULLY_REFUNDED, and then the first saves
  PARTIALLY_REFUNDED. (A payment from the wallet is spared: crediting the wallet
  locks its row before the sum is read, so these transactions come one by one.)
- `NoTaskLost`, `EveryRefundSettles`: with one worker, while nothing has failed but the
  statements of the try statement. With two, busy locks use up the retries
  (`refund_abandoned`). A request that dies between insert and `delay()`, an exception
  while the task reads the refund and its payment, one in the exception
  handler, or Redis failing at cache.add in each of the four runs leaves a refund
  that is not settled, that no message names, and whose amount stays reserved.
- `SettledOnce`, `TerminalIsFinal`, `DeadLetterIsFailed` with two workers: without
  duplicate messages, which is the run `refunds`. A message of reconcile for a refund whose first task is
  still running reads PROCESSING, waits for the lock by way of a retry or an
  expired key, and processes the refund again.
- `NeverOverRefunded`, `KeepsPromise`: for requests one at a time
  (`over_refund` otherwise).
- `SerialExecutedOnce`, `CompletedStays`: until two requests overlap
  (`idempotency_race` otherwise); the first also needs views that do not fail
  after they took effect.
- `FannedOutOnce`, `EventIsProcessed`, `DeliveryEnds`: while no fan-outs have
  overlapped (the first) and no task has died. Two fan-outs that overlap read the
  same rows and send an endpoint the same event twice; one that dies between the
  last delivery and the mark leaves the row to be fanned out again; one that dies
  with nothing published after it leaves the row until the next publication,
  because nothing else starts the task. A failed attempt sets FAILED while retries
  are still to come, so `DeliveryEnds` does not take FAILED for an end before the
  last attempt.
- `StatusTellsMail` (its second half), `NoticeNotDropped`: without
  deaths and failing saves; a mail that was sent and whose SENT was not stored is
  sent again by the retry.
- `GuessesAreBounded`: three wrong codes are compared while requests come one after
  another. Two at a time read the same counter and one count is lost; with two
  requests at a time, as in the run, it is at most twelve, and more requests at a
  time allow more. `NotLockedOut`: while requests come one after another.
- `AccountIsKept`, `MerchantIsServed`, `CustomersAreKept`, the default method in
  `CustomersAreDistinct`: until two requests of one account, merchant or customer
  list overlap (or, for the last two, one dies). Overlapping, a PATCH of the profile does undo a
  reset of the password, a change of a merchant profile is lost, a deleted customer
  or configuration comes back, and a customer ends with two default methods or
  none. `CustomersAreDistinct` also ends with the first update of an address,
  which is stored as it comes, not in lower case.
- `UsesAreCounted` (exactness), `GrantIsDue`: until two calls on a coupon overlap;
  what holds always is that used_count never exceeds the uses granted.
- `InvalidationIsSeen`: when no reader raced with the summary.
- `ReconciliationTells`: when the books have not moved under the reader and each order
  has one payment at most. A refund, even in part, is then reported as a
  discrepancy; so is a payment whose order was saved CANCELLED or EXPIRED after it was
  captured (`ClosedOver`). Each is told when the other is absent; of the same size,
  they may cancel out.
- `ReportAddsUp`: a report on all payments counts as many as it lists only if every
  sale in its range was recorded when it was asked for. A range that ends in the
  future takes in payments that are inserted between the two queries, so more are
  listed than counted. A report on payments of one status may be off either way, as
  soon as the books move between the two.

Facts the model shows that no property claims: a gateway refund whose recording
raises is sent again by the retry, without an idempotency key; one that was sent
may end FAILED and be requested anew; `FULLY_REFUNDED` counts refunds that are
still under way (refunds/tasks.py:81), so a payment can be FULLY_REFUNDED while
one of them still fails, and then takes no further refund. `void_payment` records
VOIDED whatever the gateway answers (payment_service.py:166); the bundled adapters
never decline a void. A request that dies between the insert of a refund and
`delay()` leaves its amount reserved (refund_service.py:75). The status of a payment
is written by the refund task from an instance read when the task began
(refunds/tasks.py:51).

Two places where documents and code disagree without a run of their own:
docs/production_readiness_review.md:41 says that payment and refund events write
their outbox events in the same transaction, but only the test "ping" of an
endpoint calls `EventPublisher.publish`; config/settings/base.py:195-196 asks for
refresh tokens to be rotated and blacklisted after rotation, and
`AuthService.refresh_tokens` returns a new access token and leaves the old refresh
token in use.

## 5. Proofs

TLAPS checks these for every value of the constants, assuming only the named
ASSUMEs of the modules: bounds are naturals, null values are not rows, terms,
prices and filters have their form, and the sets of refunds, orders, sales and
requests, over which amounts or requests are added up, are finite. The runs
evaluate each of them. Every safety property of a run, invariant or action
property, is a theorem; what a theorem supposes beyond the ASSUMEs is written in
it, and is named here.

**WalletProofs.** `IInv` = `TypeOK`, `LockProtectsRow` and `PhaseOK` (what a
thread established before each step). Types alone are not inductive: that a
committed balance fits its column follows from tests made on a row read
earlier, and only the lock says it is still that row. From `IInv`:
`TypeCorrect`, `RowLocked`, `FrozenStays`; with one more induction over the
ledger, `LedgerComplete`; and `ImplementsAccount`, the refinement, in which
`Commit` is the atomic movement and every other step of a movement a stutter.

**PaymentsProofs.** Nothing is locked, so nothing a thread has read holds when it
writes. `PhaseOK` has what cannot be taken back: a payment is inserted by its own
call only and never deleted; the gateway's acts remain; no transition leads from
NONE or FAILED to CAPTURED or VOIDED, so a stale validation still excludes both.
`QuietOrRecord` splits every step into quiet ones and the recording
transactions. Theorems: `TypeCorrect`, `PaidOrderIsBacked`, `RecordIsBacked`,
`LedgerComplete`, `FailedStays`, for any overlap and any number of crashes. Two more
invariants are conditional, like what they prove. `ChargeInv`, while nobody has
died: what the gateway did is in the ledger or a thread is about to write it;
it gives `ChargesAreRecorded`. `SoloInv`, until two calls overlap: one thread is
under way at most, so what it validated is still true when it writes; it gives
`TransitionsFollowTable` and `OnlyPendingExpire`, wherever a call dies.

**SumProofs.** What has been refunded, spent or captured is a sum over a set that a
step changes by one element. `MapThenFoldSet` of the community modules is recursive,
and induction over a set takes an operator that the provers cannot instantiate, so
the lemmas argue by a smallest counterexample: of the subsets for which an equation
fails, one has the fewest elements (`SmallestSet`), and taking one element out of it
gives another. That yields what a sum is when an element comes, goes or changes
(`SumTakeOut`, `SumAdd`, `SumSame`), when sets are united, and that larger
amounts have a larger sum.

**RefundProofs.** `LockInv` (whoever is inside has the key, until one expires)
gives `LockExcludes`. `TaskInv` says that the task of a refund exists once: the
requesting call, a message or a worker has it and hands it on. It gives
`SettledExactlyOnce`, `DeadLetterOnce` and `TerminalStays` whenever
`MaxDuplicates` = 0, and makes no use of the lock: what protects a refund from
being settled twice is the single message, which is why duplicates break it.
`NoTaskDropped` is about one worker, with any duplicates, until something fails that
no handler deals with: `OneWorkerInv` says that it never meets its own lock, so it never
spends a retry on it. `NeverTooMuch` and
`RefundsKeepPromise`, the refinement of `RefundPromise`, suppose one call of
create_refund at a time (`MaxCreators` <= 1) and no duplicates; `TotalInv` says that
what the call has added up is still the total when it inserts. Calls that overlap
break it at once (`over_refund`), and so would duplicates: a stale one sets a FAILED
refund back to PROCESSING after its room was given to another.
`PaymentShowsItsRefunds` needs no duplicates only, whatever requests overlap.
`PartlyInv`: as long as the lock has not expired under its holder, a task that has
added up and found something left still finds it so when it saves, because
the lock keeps every other task of the payment out of its own last transaction.
Without that clause it is false (section 4).

**IdempotencyProofs.** Every response that is stored or given names a request
that took effect with the same payload, whatever expires or overlaps
(`ReplyBelongs`). Until two requests overlap, the one under way is alone, nobody gets
past a COMPLETED entry, and, unless a view has failed late, what took effect is
stored or about to be (`SeriallyOnce`, `CompletedIsKept`).

**CheckoutProofs.** *Coupons.* `UsesInv`: used_count, and every copy of it in memory,
is at most the uses granted, which survives every overlap: a stale copy can only
lower the count, and the save that raises it is itself a grant.
`UsesAloneInv`: until calls overlap there is one copy at most, it is exact, and what
`validate_coupon` found still holds. `DiscountInv`, with lemmas on rounding and
capping for all integers: what a call is told is within its bounds. Theorems
`PromiseIsKept`, `OnlyDueGrants`, `CouponTypes`.
*Money.* `MoneyIsAccounted` is an equation: what has left the wallet is what
the sales paid from it cost, less what was refunded to it. It is inductive with
`RowInv` and `ReturnInv`: a payment repeats the order and the gateway of its call,
and only captured payments have refunds, so no step moves a payment that
has refunds from one gateway to another. `MoneyStaysAccounted` says so of the books
alone, `BooksStayAccounted` of the books that are being read.
*Reports.* `PaidInv` ties the books together: a PAID order has a payment that was
captured, and a payment is refunded from its first successful refund on. With one
payment an order, the PAID orders and the payments that were captured differ by
`ClosedOver` alone, and the captured ones that are still CAPTURED by the refunds; hence
reconciliation, which compares the two sums, finds no difference exactly when
there is neither. `ReadersInv` says what the figures that a reader already holds
still mean after the books have moved: a payment that was captured never fails
later, so captured and failed payments, counted one after the other, are never more
than the payments counted after them; and a report lists what its summary counted
and, of its range, what was recorded since (`ReportGrows`), or, for one status, the
same as long as nothing has moved. Theorems
`ReportsStayTrue`, `CheckoutTypesStay`, `ReportTypesStay`.

**WebhookProofs.** *Webhooks.* `WebhookInv` says that every row number held by a row, a
message or a task is that of a row, and `Grow` that rows stay with what they are
about. `CoverInv`: of the event at hand, each endpoint that matched at publication
and is alive is a target still to come or has its delivery, so marking the row when
no target is left is safe, for any batch size, any overlap and any deaths. `OnceInv`,
while nothing has died or overlapped: what has a delivery is marked, or is the
event at hand and no target any more. `StatusInv`: a delivery is in the hands of
one holder, the fan-out that created it, one message or one task, and is not yet
final as long as one has it to send; therefore the whole row that a task saves
overwrites nobody's. Theorems
`OutboxLosesNothing`, `EndpointsStay`, `StatusStaysEarned`, `WebhookTypes`.
*Notifications.* `MailInv` follows a notification: SENT and FAILED say at least that it
was mailed or has failed once; without deaths and failing saves a PENDING one has a
task, and without resends it has exactly one, whose step says how often it was
mailed. Theorems `MailStatusIsEarned`, `MailTypesStay`.

**PlatformProofs.** *Accounts.* `AloneInv` says that one request at most is under way;
`CodeInv` ties `guesses` and `lost` to the counter through the three commands that
count, with keys that may expire between any two; `KeptInv` says that the token in
hand is unused and the row to be saved is still the row. They give
`AloneCodesAreGuarded` and `AccountStays`, until requests overlap. `GuessInv` is about
two requests that do: `StillWrong` bounds the wrong codes they can still compare by
the count that each is about to set, and no step lets that bound and the guesses
made grow together; it starts at twelve, a figure that is reached. It gives
`CodesStayGuarded`, for two requests at a time.
*Merchants.* `MerchantInv`: who saves a key has read it while it was active, and saves
one column of it; until requests overlap, the row a request holds is the stored one.
*Customers.* `CustomerInv`: the unique constraint keeps stored addresses apart as long
as they are stored in lower case; until calls overlap, one call holds a row, and it
is the stored one, and a default method is missing only while the call that
cleared it is under way. *Requests.* `RequestInv`: the thread's ID is that of the
request it serves, or none, because the middleware removes it on the way out and
a killed process takes its threads with it. Theorems `MerchantRecordsStay`,
`CustomersStayDistinct`, `CustomersStayAsTheyAre`, `RequestsStayTraced` and the types of
each.
*Together.* `PlatformSpec` is the conjunction of the parts, so a step of one is a
stutter of the others: `StatusesTell`, `AnswersStayTrue`, `RecordsStayKept` and
`PlatformTypesStay` state the joined properties of the run `platform` from the theorems
of the parts.

Model-checked only: liveness (`EveryCallReturns`, `EveryRefundSettles`,
`KeyIsReleased`, `TasksEnd`), which is out of the prover's reach,
and the six violations. What the theorems leave to the runs beyond that are the
instances outside their hypotheses: `NoTaskLost` is proved for
one worker, as it is false for two. With duplicates and one worker, `SettledOnce` and the
like hold in the instance of `refunds_recover` when they are added to it, but they are
neither theorems nor properties of that run yet.

## 6. What could come next

1. Captures and refunds of one payment at a time, statement by statement
   (`Checkout` has each as one step): the refund task writes a payment status from
   an instance it read at its beginning.
2. `SettledOnce`, `TerminalIsFinal`, `DeadLetterIsFailed` and `PaymentShowsRefunds` for one
   worker with duplicate messages (the bounds of `refunds_recover`), as properties of
   the run and as theorems: with one worker a duplicate finds the refund settled or not begun.
3. A bound on `guesses` for any number of requests at a time.

## 7. Not modelled

- Data and layout: serializers, paging, PDF, CSV and Excel rendering, e-mail
  templates, signatures, password hashing, token formats, what the sanitizer of
  the audit log masks, the breakdowns of a dashboard by day, method, gateway or
  currency. None decides a later step of what is modelled. Views are modelled
  where they decide something; where they only call a service, the service is.
- Settings, URL tables, the admin site, migrations and seed data: declarative.
  What the settings decide (autocommit, early acknowledgement) is built in.
- The Elasticsearch audit backend: it is not among `AuditService._backends`.
- Who may call what: authentication is taken as done, and a call names a merchant
  that exists, except in `Merchants`, where keys and roles are the subject.
- RefundLedger and RefundEvent rows, which repeat the status beside them.
- Network failures of a gateway appear as an answer FAILED, a declined call or an
  exception. Time appears only as what it permits: expiry, retries and sweeps may
  happen at any moment; a delay between retries is no different from a slow worker.
